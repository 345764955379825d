------------------------ MODULE McpConnections_proofs ------------------------
(***************************************************************************)
(* For any servers, any number of reconnects and any order of answers,     *)
(* timeouts and the shutdown: a client that has not been closed is the one *)
(* its server's entry holds, and the tools an agent offers from a server   *)
(* are those of that client.                                               *)
(***************************************************************************)
EXTENDS McpConnections, WellFoundedInduction, TLAPS

Typing ==
    /\ shut \in BOOLEAN
    /\ attemptId \in [Servers -> Attempts]
    /\ client \in [Servers -> Attempts \union {None}]
    /\ at \in [Servers -> [Attempts -> Places]]
    /\ conn \in [Servers -> [Attempts -> Conns]]
    /\ reconnects \in 0..MaxReconnects
    /\ \A s \in Servers : attemptId[s] <= reconnects + 1

\* An attempt whose number has not been given out has not begun, and one that waits for
\* the old client to be closed has none of its own yet.
NotBegun ==
    \A s \in Servers, a \in Attempts :
        /\ a > attemptId[s] => at[s][a] = "idle"
        /\ at[s][a] \in {"idle", "closing"} => conn[s][a] = "none"

\* The inductive invariant of the clients.
ClientInv == Typing /\ NotBegun /\ NoOrphanClient

LEMMA InitClientInv == Init => ClientInv
<1>. SUFFICES ASSUME Init
              PROVE  ClientInv
  OBVIOUS
<1>1. PICK ok \in SUBSET Servers :
        /\ shut = FALSE /\ reconnects = 0
        /\ attemptId = [s \in Servers |-> 1]
        /\ client = [s \in Servers |-> IF s \in ok THEN 1 ELSE None]
        /\ at = [s \in Servers |-> [a \in Attempts |->
                    IF a > 1 THEN "idle" ELSE IF s \in ok THEN "starting" ELSE "failing"]]
        /\ conn = [s \in Servers |-> [a \in Attempts |->
                    IF a = 1 /\ s \in ok THEN "connecting" ELSE "none"]]
  BY DEF Init
<1>2. 1 \in Attempts /\ \A a \in Attempts : a \in Nat /\ ~(a > 1) => a = 1
  BY McpAssumption DEF Attempts
<1>3. Typing
  <2>1. /\ attemptId \in [Servers -> Attempts]
        /\ client \in [Servers -> Attempts \union {None}]
        /\ \A s \in Servers : attemptId[s] <= reconnects + 1
    BY <1>1, <1>2
  <2>2. at \in [Servers -> [Attempts -> Places]]
    BY <1>1 DEF Places
  <2>3. conn \in [Servers -> [Attempts -> Conns]]
    BY <1>1 DEF Conns
  <2>4. shut \in BOOLEAN
    BY <1>1
  <2>5. reconnects \in 0..MaxReconnects
    BY <1>1, McpAssumption
  <2>. QED
    BY <2>1, <2>2, <2>3, <2>4, <2>5 DEF Typing
<1>4. NotBegun
  BY <1>1, <1>2 DEF NotBegun
<1>5. NoOrphanClient
  BY <1>1, <1>2 DEF NoOrphanClient, Open, isCurrent
<1>. QED
  BY <1>3, <1>4, <1>5 DEF ClientInv

\* close: it closes what it is given, if that was ever made, and touches nothing else.
LEMMA ClosedFacts ==
    ASSUME NEW cs \in [Servers -> [Attempts -> Conns]], NEW s \in Servers,
           NEW c \in Attempts \union {None}
    PROVE  /\ Closed(cs, s, c) \in [Servers -> [Attempts -> Conns]]
           /\ \A r \in Servers, a \in Attempts :
                 Closed(cs, s, c)[r][a] =
                    IF r = s /\ a = c /\ cs[r][a] # "none" THEN "closed" ELSE cs[r][a]
BY McpAssumption DEF Closed, Conns

\* A step of one server's attempt.
LEMMA OneConn ==
    ASSUME Typing, NEW s \in Servers, NEW a \in Attempts, NEW c \in Conns,
           conn' = [conn EXCEPT ![s][a] = c]
    PROVE  /\ conn' \in [Servers -> [Attempts -> Conns]]
           /\ \A r \in Servers, b \in Attempts :
                 conn'[r][b] = IF r = s /\ b = a THEN c ELSE conn[r][b]
BY DEF Typing

LEMMA OneAt ==
    ASSUME Typing, NEW s \in Servers, NEW a \in Attempts, NEW p \in Places,
           at' = [at EXCEPT ![s][a] = p]
    PROVE  /\ at' \in [Servers -> [Attempts -> Places]]
           /\ \A r \in Servers, b \in Attempts :
                 at'[r][b] = IF r = s /\ b = a THEN p ELSE at[r][b]
BY DEF Typing

\* A client that stays open stays the one of its entry.
LEMMA OrphansKept ==
    ASSUME NoOrphanClient, UNCHANGED <<shut, attemptId>>,
           \A r \in Servers, b \in Attempts : conn'[r][b] \notin {"none", "closed"} =>
               conn[r][b] \notin {"none", "closed"} /\ client'[r] = client[r]
    PROVE  NoOrphanClient'
<1>1. ASSUME NEW r \in Servers, NEW b \in Attempts, conn'[r][b] \notin {"none", "closed"}
      PROVE  ~shut' /\ client'[r] = b /\ attemptId'[r] = b
  BY <1>1 DEF NoOrphanClient, Open, isCurrent
<1>. QED
  BY <1>1 DEF NoOrphanClient, Open, isCurrent

\* What the servers do to a client that is open.
LEMMA ExternalKeeps ==
    ASSUME ClientInv, NEW s \in Servers, NEW a \in Attempts, External(s, a)
    PROVE  ClientInv'
<1>. USE DEF ClientInv
<1>1. CASE Die(s, a) /\ UnexpectedClose(s, a)
  <2>1. /\ conn' = [conn EXCEPT ![s][a] = "closed"] /\ client' = [client EXCEPT ![s] = None]
        /\ UNCHANGED <<shut, attemptId, reconnects, at>>
        /\ conn[s][a] = "listed" /\ "closed" \in Conns
    BY <1>1 DEF Die, UnexpectedClose, Conns
  <2>2. /\ conn' \in [Servers -> [Attempts -> Conns]]
        /\ \A r \in Servers, b \in Attempts :
              conn'[r][b] = IF r = s /\ b = a THEN "closed" ELSE conn[r][b]
    <3>1. Typing /\ "closed" \in Conns /\ conn' = [conn EXCEPT ![s][a] = "closed"]
      BY <2>1
    <3>. QED
      BY <3>1, OneConn, ZenonT(60)
  <2>3. \A r \in Servers : client'[r] = IF r = s THEN None ELSE client[r]
    BY <2>1 DEF Typing
  <2>4. Typing'
    <3>1. client' \in [Servers -> Attempts \union {None}]
      BY <2>1 DEF Typing
    <3>. QED
      BY <2>1, <2>2, <3>1 DEF Typing
  <2>5. NotBegun'
    BY <2>1, <2>2 DEF NotBegun
  <2>6. ASSUME NEW r \in Servers, NEW b \in Attempts, conn'[r][b] \notin {"none", "closed"}
        PROVE  conn[r][b] \notin {"none", "closed"} /\ client'[r] = client[r]
    <3>1. ~(r = s /\ b = a) /\ conn'[r][b] = conn[r][b]
      BY <2>2, <2>6
    <3>2. client[r] = b /\ client[s] = a
      BY <2>1, <2>6, <3>1 DEF NoOrphanClient, Open
    <3>. QED
      BY <2>3, <2>6, <3>1, <3>2
  <2>7. NoOrphanClient'
    BY <2>1, <2>6, OrphansKept
  <2>. QED
    BY <2>4, <2>5, <2>7
<1>2. ASSUME NEW c \in {"ready", "listed", "broken", "lost"},
             conn' = [conn EXCEPT ![s][a] = c], conn[s][a] \notin {"none", "closed"},
             UNCHANGED <<shut, attemptId, reconnects, at, client>>
      PROVE  ClientInv'
  <2>1. c \in Conns
    BY DEF Conns
  <2>2. /\ conn' \in [Servers -> [Attempts -> Conns]]
        /\ \A r \in Servers, b \in Attempts :
              conn'[r][b] = IF r = s /\ b = a THEN c ELSE conn[r][b]
    BY <1>2, <2>1, OneConn, ZenonT(60)
  <2>3. Typing'
    BY <1>2, <2>2 DEF Typing
  <2>4. NotBegun'
    BY <1>2, <2>2 DEF NotBegun
  <2>5. NoOrphanClient'
    BY <1>2, <2>2, OrphansKept
  <2>. QED
    BY <2>3, <2>4, <2>5
<1>. QED
  BY <1>1, <1>2 DEF External, Handshake, ListTools, Refuse, Die, Server, entry

\* reconnect: the client the entry holds is closed, so none is open when the next
\* attempt becomes the current one.
LEMMA ReconnectKeeps ==
    ASSUME ClientInv, NEW s \in Servers, reconnect(s)
    PROVE  ClientInv'
<1> DEFINE a == attemptId[s] + 1
<1>1. /\ reconnects' = reconnects + 1 /\ reconnects < MaxReconnects
      /\ attemptId' = [attemptId EXCEPT ![s] = a]
      /\ at' = [at EXCEPT ![s][a] = "closing"]
      /\ conn' = Closed(conn, s, client[s])
      /\ client' = [client EXCEPT ![s] = None] /\ shut' = shut
  BY DEF reconnect
<1>2. /\ attemptId[s] \in Attempts /\ client[s] \in Attempts \union {None}
      /\ a \in Attempts /\ a \in Nat /\ reconnects' \in 0..MaxReconnects
      /\ \A r \in Servers : attemptId[r] \in Nat
      /\ conn \in [Servers -> [Attempts -> Conns]]
  BY <1>1, McpAssumption DEF ClientInv, Typing, Attempts
<1>. HIDE DEF a
<1>3. /\ conn' \in [Servers -> [Attempts -> Conns]]
      /\ \A r \in Servers, b \in Attempts :
            conn'[r][b] = IF r = s /\ b = client[s] /\ conn[r][b] # "none"
                          THEN "closed" ELSE conn[r][b]
  BY <1>1, <1>2, ClosedFacts
<1>4. /\ at' \in [Servers -> [Attempts -> Places]]
      /\ \A r \in Servers, b \in Attempts :
            at'[r][b] = IF r = s /\ b = a THEN "closing" ELSE at[r][b]
  <2>1. "closing" \in Places /\ Typing
    BY DEF ClientInv, Places
  <2>2. a \in Attempts /\ at' = [at EXCEPT ![s][a] = "closing"]
    BY <1>1, <1>2
  <2>. QED
    BY <2>1, <2>2, OneAt, ZenonT(60)
<1>5. \A r \in Servers : attemptId'[r] = IF r = s THEN a ELSE attemptId[r]
  BY <1>1 DEF ClientInv, Typing
<1>6. \A r \in Servers : client'[r] = IF r = s THEN None ELSE client[r]
  BY <1>1 DEF ClientInv, Typing
<1>7. Typing'
  <2>1. \A r \in Servers : attemptId'[r] <= reconnects' + 1
    BY <1>1, <1>2, <1>5 DEF ClientInv, Typing, a
  <2>2. /\ attemptId' \in [Servers -> Attempts]
        /\ client' \in [Servers -> Attempts \union {None}]
    BY <1>1, <1>2 DEF ClientInv, Typing
  <2>. QED
    BY <1>1, <1>2, <1>3, <1>4, <2>1, <2>2 DEF ClientInv, Typing
<1>8. NotBegun'
  <2> SUFFICES ASSUME NEW r \in Servers, NEW b \in Attempts
               PROVE  /\ b > attemptId'[r] => at'[r][b] = "idle"
                      /\ at'[r][b] \in {"idle", "closing"} => conn'[r][b] = "none"
    BY DEF NotBegun
  <2>1. b \in Nat
    BY DEF Attempts
  <2>2. CASE r = s /\ b = a
    <3>1. b > attemptId[s]
      BY <1>2, <2>2 DEF a
    <3>. QED
      BY <1>3, <1>5, <1>4, <2>2, <3>1, <2>1 DEF ClientInv, NotBegun
  <2>3. CASE ~(r = s /\ b = a)
    <3>1. b > attemptId'[r] => b > attemptId[r]
      BY <1>2, <1>5, <2>1 DEF a
    <3>. QED
      BY <1>3, <1>4, <2>3, <3>1 DEF ClientInv, NotBegun
  <2>. QED
    BY <2>2, <2>3
<1>9. NoOrphanClient'
  BY <1>1, <1>3, <1>5, <1>6 DEF ClientInv, NoOrphanClient, Open, isCurrent
<1>. QED
  BY <1>7, <1>8, <1>9 DEF ClientInv

\* An attempt goes on and no client is opened: what is closed is told by conn', and the
\* entry lets go of a client only with its closing.
LEMMA ClosingKeeps ==
    ASSUME ClientInv, NEW s \in Servers, NEW a \in Attempts,
           NEW p \in Places \ {"idle", "closing"},
           at' = [at EXCEPT ![s][a] = p], at[s][a] # "idle",
           UNCHANGED <<shut, attemptId, reconnects>>,
           client' \in [Servers -> Attempts \union {None}],
           conn' \in [Servers -> [Attempts -> Conns]],
           \A r \in Servers, b \in Attempts :
              /\ \/ conn'[r][b] = conn[r][b]
                 \/ conn'[r][b] = "closed" /\ conn[r][b] # "none"
              /\ conn'[r][b] \notin {"none", "closed"} => client'[r] = client[r]
    PROVE  ClientInv'
<1>1. /\ at' \in [Servers -> [Attempts -> Places]]
      /\ \A r \in Servers, b \in Attempts :
            at'[r][b] = IF r = s /\ b = a THEN p ELSE at[r][b]
  <2>1. at \in [Servers -> [Attempts -> Places]] /\ p \in Places
    BY DEF ClientInv, Typing
  <2>. QED
    BY <2>1
<1>2. Typing'
  BY <1>1 DEF ClientInv, Typing
<1>3. NotBegun'
  BY <1>1 DEF ClientInv, NotBegun
<1>4. NoOrphanClient'
  <2>1. \A r \in Servers, b \in Attempts : conn'[r][b] \notin {"none", "closed"} =>
           conn[r][b] \notin {"none", "closed"}
    OBVIOUS
  <2>. QED
    BY <2>1, OrphansKept DEF ClientInv
<1>. QED
  BY <1>2, <1>3, <1>4 DEF ClientInv

\* Reopen: the attempt that is still current makes its client when none is open.
LEMMA ReopenKeeps ==
    ASSUME ClientInv, NEW s \in Servers, NEW a \in Attempts, Reopen(s, a)
    PROVE  ClientInv'
<1>1. at[s][a] = "closing" /\ UNCHANGED <<shut, attemptId, reconnects>>
  BY DEF Reopen
<1>2. "starting" \in Places /\ "failing" \in Places /\ "done" \in Places
  BY DEF Places
<1>3. /\ conn \in [Servers -> [Attempts -> Conns]]
      /\ client \in [Servers -> Attempts \union {None}]
  BY DEF ClientInv, Typing
<1>4. CASE /\ isCurrent(s, a)
           /\ conn' = [conn EXCEPT ![s][a] = "connecting"]
           /\ client' = [client EXCEPT ![s] = a]
           /\ at' = [at EXCEPT ![s][a] = "starting"]
  <2>1. "connecting" \in Conns
    BY DEF Conns
  <2>2. /\ conn' \in [Servers -> [Attempts -> Conns]]
        /\ \A r \in Servers, b \in Attempts :
              conn'[r][b] = IF r = s /\ b = a THEN "connecting" ELSE conn[r][b]
    BY <1>4, <2>1, OneConn, ZenonT(60) DEF ClientInv
  <2>3. /\ at' \in [Servers -> [Attempts -> Places]]
        /\ \A r \in Servers, b \in Attempts :
              at'[r][b] = IF r = s /\ b = a THEN "starting" ELSE at[r][b]
    BY <1>2, <1>4, OneAt, ZenonT(60) DEF ClientInv
  <2>4. Typing' /\ NotBegun'
    BY <1>1, <1>4, <2>2, <2>3 DEF ClientInv, Typing, NotBegun
  <2>5. NoOrphanClient'
    BY <1>1, <1>3, <1>4, <2>2 DEF ClientInv, NotBegun, NoOrphanClient, Open, isCurrent
  <2>. QED
    BY <2>4, <2>5 DEF ClientInv
<1>5. CASE /\ UNCHANGED <<conn, client>>
           /\ \/ at' = [at EXCEPT ![s][a] = "failing"]
              \/ at' = [at EXCEPT ![s][a] = "done"]
  BY <1>1, <1>2, <1>3, <1>5, ClosingKeeps
<1>. QED
  BY <1>4, <1>5 DEF Reopen, connectOne

\* connectOne's catch, or its superseded end, and what follows either.
LEMMA EndsKeep ==
    ASSUME ClientInv, NEW s \in Servers, NEW a \in Attempts,
           \/ Connect(s, a) \/ StartFails(s, a) \/ GiveUp(s, a)
           \/ TimeOut(s, a) \/ Finish(s, a)
    PROVE  ClientInv'
<1>1. /\ conn \in [Servers -> [Attempts -> Conns]]
      /\ client \in [Servers -> Attempts \union {None}]
      /\ client[s] \in Attempts \union {None}
  BY DEF ClientInv, Typing
<1>2. /\ "dropping" \in Places \ {"idle", "closing"}
      /\ "failing" \in Places \ {"idle", "closing"}
      /\ "done" \in Places \ {"idle", "closing"}
  BY DEF Places
<1>3. \A r \in Servers, b \in Attempts :
         conn[r][b] \notin {"none", "closed"} => client[r] = b
  BY DEF ClientInv, NoOrphanClient, Open
<1>4. CASE Connect(s, a)
  <2>1. /\ at[s][a] = "starting" /\ at' = [at EXCEPT ![s][a] = "done"]
        /\ UNCHANGED <<shut, attemptId, reconnects>>
    BY <1>4 DEF Connect
  <2>2. CASE UNCHANGED <<client, conn>>
    BY <1>1, <1>2, <2>1, <2>2, ClosingKeeps
  <2>3. CASE conn[s][a] = "lost" /\ client[s] = a /\ UnexpectedClose(s, a)
    <3>1. /\ client' = [client EXCEPT ![s] = None] /\ "closed" \in Conns
          /\ conn' = [conn EXCEPT ![s][a] = "closed"]
      BY <2>3 DEF UnexpectedClose, Conns
    <3>2. client' \in [Servers -> Attempts \union {None}]
      BY <1>1, <3>1
    <3>3. /\ conn' \in [Servers -> [Attempts -> Conns]]
          /\ \A r \in Servers, b \in Attempts :
                conn'[r][b] = IF r = s /\ b = a THEN "closed" ELSE conn[r][b]
      BY <3>1, OneConn, ZenonT(60) DEF ClientInv
    <3>4. \A r \in Servers, b \in Attempts :
              /\ \/ conn'[r][b] = conn[r][b]
                 \/ conn'[r][b] = "closed" /\ conn[r][b] # "none"
              /\ conn'[r][b] \notin {"none", "closed"} => client'[r] = client[r]
      BY <1>1, <1>3, <2>3, <3>1, <3>3
    <3>. QED
      BY <1>2, <2>1, <3>2, <3>3, <3>4, ClosingKeeps
  <2>. QED
    BY <1>4, <2>2, <2>3 DEF Connect
<1>5. ASSUME NEW st, at[s][a] = "starting", Caught(s, a, st)
      PROVE  ClientInv'
  <2>1. /\ at' = [at EXCEPT ![s][a] = "failing"]
        /\ conn' = Closed(Closed(conn, s, a), s, client[s])
        /\ client' = [client EXCEPT ![s] = None]
        /\ UNCHANGED <<shut, attemptId, reconnects>>
    BY <1>5 DEF Caught
  <2> DEFINE mid == Closed(conn, s, a)
  <2>2. /\ mid \in [Servers -> [Attempts -> Conns]]
        /\ \A r \in Servers, b \in Attempts :
              mid[r][b] = IF r = s /\ b = a /\ conn[r][b] # "none"
                          THEN "closed" ELSE conn[r][b]
    BY <1>1, ClosedFacts
  <2>a. conn' = Closed(mid, s, client[s])
    BY <2>1
  <2>. HIDE DEF mid
  <2>3. /\ conn' \in [Servers -> [Attempts -> Conns]]
        /\ \A r \in Servers, b \in Attempts :
              conn'[r][b] = IF r = s /\ b = client[s] /\ mid[r][b] # "none"
                            THEN "closed" ELSE mid[r][b]
    <3>1. \A c \in Attempts \union {None} :
            /\ Closed(mid, s, c) \in [Servers -> [Attempts -> Conns]]
            /\ \A r \in Servers, b \in Attempts :
                  Closed(mid, s, c)[r][b] =
                     IF r = s /\ b = c /\ mid[r][b] # "none" THEN "closed" ELSE mid[r][b]
      BY <2>2, ClosedFacts
    <3>. QED
      BY <1>1, <2>a, <3>1
  <2>4. client' \in [Servers -> Attempts \union {None}]
    BY <1>1, <2>1
  <2>5. \A r \in Servers, b \in Attempts :
              /\ \/ conn'[r][b] = conn[r][b]
                 \/ conn'[r][b] = "closed" /\ conn[r][b] # "none"
              /\ conn'[r][b] \notin {"none", "closed"} => client'[r] = client[r]
    BY <1>1, <1>3, <2>1, <2>2, <2>3
  <2>. QED
    BY <1>2, <1>5, <2>1, <2>3, <2>4, <2>5, ClosingKeeps
<1>6. ASSUME at[s][a] = "starting", Superseded(s, a)
      PROVE  ClientInv'
  <2>1. /\ at' = [at EXCEPT ![s][a] = "dropping"] /\ conn' = Closed(conn, s, a)
        /\ UNCHANGED <<shut, attemptId, reconnects, client>>
    BY <1>6 DEF Superseded, entry
  <2>2. /\ conn' \in [Servers -> [Attempts -> Conns]]
        /\ \A r \in Servers, b \in Attempts :
              conn'[r][b] = IF r = s /\ b = a /\ conn[r][b] # "none"
                            THEN "closed" ELSE conn[r][b]
    BY <1>1, <2>1, ClosedFacts
  <2>. QED
    BY <1>1, <1>2, <1>6, <2>1, <2>2, ClosingKeeps, ZenonT(60)
<1>7. CASE Finish(s, a)
  <2>1. /\ at[s][a] \in {"dropping", "failing"} /\ at' = [at EXCEPT ![s][a] = "done"]
        /\ UNCHANGED <<shut, attemptId, reconnects, client, conn>>
    BY <1>7 DEF Finish, entry
  <2>. QED
    BY <1>1, <1>2, <2>1, ClosingKeeps
<1>. QED
  BY <1>4, <1>5, <1>6, <1>7 DEF StartFails, GiveUp, TimeOut

\* shutdown: every client an entry holds is closed, and no other is open.
LEMMA ShutdownKeeps ==
    ASSUME ClientInv, shutdown
    PROVE  ClientInv'
<1>1. /\ shut' = TRUE /\ client' = [s \in Servers |-> None]
      /\ conn' = [s \in Servers |-> Closed(conn, s, client[s])[s]]
      /\ UNCHANGED <<attemptId, reconnects, at>>
  BY DEF shutdown
<1>2. ASSUME NEW s \in Servers
      PROVE  /\ conn'[s] \in [Attempts -> Conns]
             /\ \A a \in Attempts :
                   conn'[s][a] = IF a = client[s] /\ conn[s][a] # "none"
                                 THEN "closed" ELSE conn[s][a]
  <2> DEFINE cs == Closed(conn, s, client[s])
  <2>1. conn \in [Servers -> [Attempts -> Conns]] /\ client[s] \in Attempts \union {None}
    BY DEF ClientInv, Typing
  <2>2. /\ cs \in [Servers -> [Attempts -> Conns]]
        /\ \A a \in Attempts : cs[s][a] = IF a = client[s] /\ conn[s][a] # "none"
                                          THEN "closed" ELSE conn[s][a]
    BY <2>1, ClosedFacts
  <2>3. conn'[s] = cs[s]
    BY <1>1
  <2>. HIDE DEF cs
  <2>. QED
    BY <2>2, <2>3
<1>3. conn' \in [Servers -> [Attempts -> Conns]]
  <2>1. conn' = [s \in Servers |-> conn'[s]]
    BY <1>1
  <2>. QED
    BY <1>2, <2>1
<1>4. Typing'
  BY <1>1, <1>3 DEF ClientInv, Typing
<1>5. NotBegun'
  BY <1>1, <1>2 DEF ClientInv, NotBegun
<1>6. NoOrphanClient'
  BY <1>2 DEF ClientInv, NoOrphanClient, Open
<1>. QED
  BY <1>4, <1>5, <1>6 DEF ClientInv

LEMMA NextClientInv == ClientInv /\ [Next]_vars => ClientInv'
<1>. SUFFICES ASSUME ClientInv, [Next]_vars
              PROVE  ClientInv'
  OBVIOUS
<1>1. CASE attachMcpTools \/ UNCHANGED vars
  <2>1. UNCHANGED <<entry, at, conn>>
    BY <1>1 DEF attachMcpTools, vars, entry
  <2>. QED
    BY <2>1 DEF entry, ClientInv, Typing, NotBegun, NoOrphanClient, Open, isCurrent
<1>. QED
  BY <1>1, ShutdownKeeps, ReconnectKeeps, ReopenKeeps, EndsKeep, ExternalKeeps
  DEF Next, Resume

\* What every step of the manager, its servers and its timers preserves.
THEOREM InductiveInvariant == Spec => []ClientInv
BY InitClientInv, NextClientInv, PTL DEF Spec

\* McpConnectionManager: whatever the order of reconnects, answers, timeouts and the
\* shutdown, an open client is the one the entry of its server holds, made by the current
\* attempt, in a session that is not over.
THEOREM NoClientOrphaned == Spec => []NoOrphanClient
<1>1. ClientInv => NoOrphanClient
  BY DEF ClientInv
<1>. QED
  BY <1>1, InductiveInvariant, PTL

-----------------------------------------------------------------------------
(* The tools *)

Toolset == [table : [Names -> Owners \union {None}], names : [Servers -> SUBSET Names]]

\* The two tables agree but for disputed names, and a server holds no names but its own.
Consistent(t) ==
    /\ t \in Toolset
    /\ \A s \in Servers :
        /\ \A n \in Names \ Disputed :
              n \in t.names[s] <=> t.table[n] # None /\ t.table[n].server = s
        /\ t.names[s] \subseteq Offers[s] \union {AuthTool[s]}

\* The tools t show of the server s what the status st and the client c call for.
Matches(t, s, st, c) ==
    /\ st = "connected" /\ c # None =>
        /\ \A n \in t.names[s] \ Disputed : n \in Offers[s] /\ t.table[n].by = c
        /\ \A n \in Offers[s] \ (t.names[s] \union Disputed) : HeldByAnother(n, s)
    /\ st = "needs-auth" => t.names[s] = {AuthTool[s]}
    /\ st \in {"pending", "failed"} => t.names[s] = {}

\* What changing the tools of one server leaves of those of the others.
SameOthers(t, u, s) ==
    \A r \in Servers \ {s} :
        u.names[r] = t.names[r] /\ \A n \in t.names[r] \ Disputed : u.table[n] = t.table[n]

LEMMA NamesOfServers ==
    ASSUME NEW s \in Servers
    PROVE  Offers[s] \subseteq Names /\ AuthTool[s] \in Names
<1>1. Offers[s] \in {Offers[r] : r \in Servers} /\ AuthTool[s] \in {AuthTool[r] : r \in Servers}
  OBVIOUS
<1>2. Offers[s] \subseteq UNION {Offers[r] : r \in Servers}
  BY <1>1
<1>. QED
  BY <1>1, <1>2 DEF Names

\* A name is held by one server at most, unless it is disputed.
LEMMA HeldOnce ==
    ASSUME NEW t, Consistent(t), NEW s \in Servers, NEW r \in Servers, s # r
    PROVE  t.names[s] \intersect t.names[r] \subseteq Disputed
BY DEF Consistent, Toolset

LEMMA UnregisterKeeps ==
    ASSUME NEW t, Consistent(t), NEW s \in Servers
    PROVE  LET u == unregisterMcpServer(t, s)
           IN  Consistent(u) /\ u.names[s] = {} /\ SameOthers(t, u, s)
<1> DEFINE u == unregisterMcpServer(t, s)
<1>1. /\ u.table = [n \in Names |-> IF n \in t.names[s] THEN None ELSE t.table[n]]
      /\ u.names = [t.names EXCEPT ![s] = {}]
      /\ u = [table |-> u.table, names |-> u.names]
  BY DEF unregisterMcpServer
<1>2. /\ t.table \in [Names -> Owners \union {None}]
      /\ t.names \in [Servers -> SUBSET Names]
  BY DEF Consistent, Toolset
<1>. HIDE DEF u
<1>3. u \in Toolset
  <2>1. u.table \in [Names -> Owners \union {None}] /\ u.names \in [Servers -> SUBSET Names]
    BY <1>1, <1>2
  <2>. QED
    BY <1>1, <2>1 DEF Toolset
<1>4. u.names[s] = {} /\ \A r \in Servers \ {s} : u.names[r] = t.names[r]
  BY <1>1, <1>2
<1>5. \A r \in Servers \ {s} : \A n \in t.names[r] \ Disputed : u.table[n] = t.table[n]
  BY <1>1, <1>2, HeldOnce
<1>6. ASSUME NEW r \in Servers
      PROVE  /\ \A n \in Names \ Disputed :
                   n \in u.names[r] <=> u.table[n] # None /\ u.table[n].server = r
             /\ u.names[r] \subseteq Offers[r] \union {AuthTool[r]}
  BY <1>1, <1>2, <1>4 DEF Consistent
<1>. QED
  BY <1>3, <1>4, <1>5, <1>6 DEF Consistent, SameOthers, u

LEMMA RegisterMatches ==
    ASSUME NEW t, Consistent(t), NEW s \in Servers, NEW a \in Attempts
    PROVE  LET u == registerMcpServer(t, s, a)
           IN  Consistent(u) /\ Matches(u, s, "connected", a) /\ SameOthers(t, u, s)
<1> DEFINE v    == unregisterMcpServer(t, s)
           free == {n \in Offers[s] : v.table[n] = None}
           u    == registerMcpServer(t, s, a)
<1>1. Consistent(v) /\ v.names[s] = {} /\ SameOthers(t, v, s)
  BY UnregisterKeeps
<1>. HIDE DEF v
<1>2. /\ u.table = [n \in Names |-> IF n \in free THEN [server |-> s, by |-> a] ELSE v.table[n]]
      /\ u.names = [v.names EXCEPT ![s] = free]
      /\ u = [table |-> u.table, names |-> u.names]
  BY DEF registerMcpServer, v
<1>3. /\ v.table \in [Names -> Owners \union {None}]
      /\ v.names \in [Servers -> SUBSET Names]
  BY <1>1 DEF Consistent, Toolset
<1>4. /\ free \subseteq Offers[s] /\ free \subseteq Names
      /\ \A n \in Offers[s] \ free : n \in Names /\ v.table[n] # None
  BY NamesOfServers
<1>5. [server |-> s, by |-> a] \in Owners /\ None \notin Owners
  BY McpAssumption DEF Owners
<1>. HIDE DEF u
<1>6. u \in Toolset
  <2>1. u.table \in [Names -> Owners \union {None}] /\ u.names \in [Servers -> SUBSET Names]
    BY <1>2, <1>3, <1>4, <1>5
  <2>. QED
    BY <1>2, <2>1 DEF Toolset
<1>7. u.names[s] = free /\ \A r \in Servers \ {s} : u.names[r] = v.names[r]
  BY <1>2, <1>3
<1>8. \A n \in Names : u.table[n] = IF n \in free THEN [server |-> s, by |-> a] ELSE v.table[n]
  BY <1>2
<1>9. \A n \in free : v.table[n] = None
  OBVIOUS
<1>. HIDE DEF free
<1>10. Consistent(u)
  <2>1. ASSUME NEW r \in Servers
        PROVE  /\ \A n \in Names \ Disputed :
                     n \in u.names[r] <=> u.table[n] # None /\ u.table[n].server = r
               /\ u.names[r] \subseteq Offers[r] \union {AuthTool[r]}
    <3>1. /\ \A n \in Names \ Disputed :
                n \in v.names[r] <=> v.table[n] # None /\ v.table[n].server = r
          /\ v.names[r] \subseteq Offers[r] \union {AuthTool[r]}
      BY <1>1 DEF Consistent
    <3>2. [server |-> s, by |-> a] # None
      BY <1>5
    <3>3. CASE r = s
      BY <1>1, <1>4, <1>7, <1>8, <3>1, <3>2, <3>3
    <3>4. CASE r # s
      BY <1>7, <1>8, <1>9, <3>1, <3>4
    <3>. QED
      BY <3>3, <3>4
  <2>. QED
    BY <1>6, <2>1 DEF Consistent
<1>11. SameOthers(t, u, s)
  <2>1. \A r \in Servers \ {s} : \A n \in v.names[r] \ Disputed : n \in Names /\ n \notin free
    BY <1>1, <1>3, <1>9 DEF Consistent
  <2>. QED
    BY <1>1, <1>7, <1>8, <2>1 DEF SameOthers
<1>12. Matches(u, s, "connected", a)
  <2>1. \A n \in u.names[s] : n \in Offers[s] /\ u.table[n].by = a
    BY <1>4, <1>7, <1>8
  <2>2. ASSUME NEW n \in Offers[s] \ (u.names[s] \union Disputed)
        PROVE  HeldByAnother(n, s)
    <3>1. n \in Names /\ v.table[n] # None
      BY <1>4, <1>7
    <3>2. v.table[n].server \in Servers
      BY <1>3, <3>1 DEF Owners
    <3>3. PICK r \in Servers : r = v.table[n].server
      BY <3>2
    <3>4. n \in v.names[r]
      BY <1>1, <3>1, <3>3 DEF Consistent
    <3>5. r # s /\ n \in Offers[r] \union {AuthTool[r]}
      BY <1>1, <3>4 DEF Consistent
    <3>6. n # AuthTool[r]
      BY <2>2, <3>1, <3>5 DEF Disputed
    <3>. QED
      BY <3>5, <3>6 DEF HeldByAnother
  <2>. QED
    BY <2>1, <2>2 DEF Matches
<1>. QED
  BY <1>10, <1>11, <1>12 DEF u

LEMMA NeedsAuthMatches ==
    ASSUME NEW t, Consistent(t), NEW s \in Servers, NEW c
    PROVE  LET u == registerNeedsAuthMcpServer(t, s)
           IN  Consistent(u) /\ Matches(u, s, "needs-auth", c) /\ SameOthers(t, u, s)
<1> DEFINE v == unregisterMcpServer(t, s)
           u == registerNeedsAuthMcpServer(t, s)
           owner == [server |-> s, by |-> None]
<1>1. Consistent(v) /\ v.names[s] = {} /\ SameOthers(t, v, s)
  BY UnregisterKeeps
<1>. HIDE DEF v
<1>2. /\ u.table = [v.table EXCEPT ![AuthTool[s]] = owner]
      /\ u.names = [v.names EXCEPT ![s] = {AuthTool[s]}]
      /\ u = [table |-> u.table, names |-> u.names]
  BY DEF registerNeedsAuthMcpServer, v
<1>3. /\ v.table \in [Names -> Owners \union {None}]
      /\ v.names \in [Servers -> SUBSET Names]
      /\ AuthTool[s] \in Names
  BY <1>1, NamesOfServers DEF Consistent, Toolset
<1>4. owner \in Owners /\ owner # None /\ owner.server = s
  BY McpAssumption DEF Owners
<1>. HIDE DEF u, owner
<1>5. u \in Toolset
  <2>1. u.table \in [Names -> Owners \union {None}] /\ u.names \in [Servers -> SUBSET Names]
    BY <1>2, <1>3, <1>4
  <2>. QED
    BY <1>2, <2>1 DEF Toolset
<1>6. u.names[s] = {AuthTool[s]} /\ \A r \in Servers \ {s} : u.names[r] = v.names[r]
  BY <1>2, <1>3
<1>7. \A n \in Names : u.table[n] = IF n = AuthTool[s] THEN owner ELSE v.table[n]
  BY <1>2, <1>3
<1>8. \A r \in Servers \ {s} : AuthTool[s] \in v.names[r] => AuthTool[s] \in Disputed
  BY <1>1, <1>3 DEF Consistent, Disputed
<1>9. Consistent(u)
  <2>1. ASSUME NEW r \in Servers
        PROVE  /\ \A n \in Names \ Disputed :
                     n \in u.names[r] <=> u.table[n] # None /\ u.table[n].server = r
               /\ u.names[r] \subseteq Offers[r] \union {AuthTool[r]}
    <3>1. /\ \A n \in Names \ Disputed :
                n \in v.names[r] <=> v.table[n] # None /\ v.table[n].server = r
          /\ v.names[r] \subseteq Offers[r] \union {AuthTool[r]}
      BY <1>1 DEF Consistent
    <3>2. CASE r = s
      BY <1>1, <1>3, <1>4, <1>6, <1>7, <3>1, <3>2
    <3>3. CASE r # s
      BY <1>3, <1>4, <1>6, <1>7, <1>8, <3>1, <3>3
    <3>. QED
      BY <3>2, <3>3
  <2>. QED
    BY <1>5, <2>1 DEF Consistent
<1>10. SameOthers(t, u, s)
  <2>1. \A r \in Servers \ {s} : \A n \in v.names[r] \ Disputed : n \in Names /\ n # AuthTool[s]
    BY <1>1, <1>3, <1>8 DEF Consistent
  <2>. QED
    BY <1>1, <1>6, <1>7, <2>1 DEF SameOthers
<1>11. Matches(u, s, "needs-auth", c)
  BY <1>6 DEF Matches
<1>. QED
  BY <1>9, <1>10, <1>11 DEF u

\* ToolManager's listener: afterwards the tools show what it was told.
LEMMA HandleMatches ==
    ASSUME NEW t, Consistent(t), NEW s \in Servers, NEW st \in Statuses,
           NEW c \in Attempts \union {None}
    PROVE  LET u == handleMcpServerStatusChange(t, s, st, c)
           IN  Consistent(u) /\ Matches(u, s, st, c) /\ SameOthers(t, u, s)
<1>1. CASE st = "connected" /\ c = None
  BY <1>1 DEF handleMcpServerStatusChange, Matches, SameOthers
<1>2. CASE st = "connected" /\ c # None
  <2>1. handleMcpServerStatusChange(t, s, st, c) = registerMcpServer(t, s, c)
    BY <1>2 DEF handleMcpServerStatusChange
  <2>. QED
    BY <1>2, <2>1, RegisterMatches
<1>3. CASE st = "needs-auth"
  <2>1. handleMcpServerStatusChange(t, s, st, c) = registerNeedsAuthMcpServer(t, s)
    BY <1>3 DEF handleMcpServerStatusChange
  <2>. QED
    BY <1>3, <2>1, NeedsAuthMatches
<1>4. CASE st \in {"pending", "failed"}
  <2>1. handleMcpServerStatusChange(t, s, st, c) = unregisterMcpServer(t, s)
    BY <1>4 DEF handleMcpServerStatusChange
  <2>2. LET u == unregisterMcpServer(t, s)
        IN  Consistent(u) /\ u.names[s] = {} /\ SameOthers(t, u, s)
    BY UnregisterKeeps
  <2>. QED
    BY <1>4, <2>1, <2>2 DEF Matches
<1>. QED
  BY <1>1, <1>2, <1>3, <1>4 DEF Statuses

\* One turn of the loop of attachMcpTools, over the i-th server.
Visit(t, i) ==
    IF status[Order[i]] \in {"connected", "needs-auth"}
    THEN handleMcpServerStatusChange(t, Order[i], status[Order[i]], client[Order[i]])
    ELSE t

\* The loop is well defined: the tools after n servers, whatever n.
LEMMA ListedExists ==
    ASSUME NEW N \in Nat
    PROVE  \E f : f = [i \in 0..N |-> IF i = 0 THEN tools ELSE Visit(f[i - 1], i)]
<1> DEFINE Good(n, f) == f = [i \in 0..n |-> IF i = 0 THEN tools ELSE Visit(f[i - 1], i)]
           bad == {n \in 0..N : ~\E f : Good(n, f)}
<1>1. SUFFICES bad = {}
  <2>1. N \in 0..N
    OBVIOUS
  <2>. QED
    BY <1>1, <2>1
<1>2. SUFFICES ASSUME bad # {}
               PROVE  FALSE
  OBVIOUS
<1>3. bad \in SUBSET Nat
  OBVIOUS
<1>4. PICK n \in bad : \A m \in bad : ~(<<m, n>> \in OpToRel(<, Nat))
  <2>. HIDE DEF bad
  <2>. QED
    BY <1>2, <1>3, NatLessThanWellFounded, WFMin
<1>5. n \in 0..N /\ ~\E f : Good(n, f)
  OBVIOUS
<1>6. CASE n = 0
  <2> DEFINE f == [i \in {0} |-> tools]
  <2>1. Good(0, f)
    BY 0..0 = {0}
  <2>. QED
    BY <1>5, <1>6, <2>1
<1>7. CASE n # 0
  <2>1. n - 1 \in 0..N /\ n - 1 < n /\ n - 1 \in Nat
    BY <1>5, <1>7
  <2>2. n - 1 \notin bad
    <3>. HIDE DEF bad
    <3>. QED
      BY <1>3, <1>4, <2>1 DEF OpToRel
  <2>3. PICK g : Good(n - 1, g)
    BY <2>1, <2>2
  <2> DEFINE f == [i \in 0..n |-> IF i = n THEN Visit(g[n - 1], n) ELSE g[i]]
  <2>4. \A i \in 0..(n - 1) : g[i] = IF i = 0 THEN tools ELSE Visit(g[i - 1], i)
    BY <2>3
  <2>5. ASSUME NEW i \in 0..n
        PROVE  f[i] = IF i = 0 THEN tools ELSE Visit(f[i - 1], i)
    <3>1. CASE i = n
      <4>1. f[n] = Visit(g[n - 1], n) /\ f[n - 1] = g[n - 1]
        BY <1>5, <1>7
      <4>. QED
        BY <1>7, <3>1, <4>1
    <3>2. CASE i # n
      <4>1. i \in 0..(n - 1) /\ f[i] = g[i] /\ (i # 0 => f[i - 1] = g[i - 1])
        BY <1>5, <3>2
      <4>. QED
        BY <2>4, <4>1
    <3>. QED
      BY <3>1, <3>2
  <2>6. f = [i \in 0..n |-> f[i]]
    OBVIOUS
  <2>7. Good(n, f)
    <3>. HIDE DEF f
    <3>. QED
      BY <2>5, <2>6
  <2>. QED
    BY <1>5, <2>7
<1>. QED
  BY <1>6, <1>7

LEMMA ListedUnfolds ==
    /\ listed[0] = tools
    /\ \A i \in 1..Len(Order) : listed[i] = Visit(listed[i - 1], i)
<1>1. Len(Order) \in Nat
  BY McpAssumption
<1>2. \E f : f = [i \in 0..Len(Order) |-> IF i = 0 THEN tools ELSE Visit(f[i - 1], i)]
  BY <1>1, ListedExists
<1>3. listed = CHOOSE f : f = [i \in 0..Len(Order) |-> IF i = 0 THEN tools ELSE Visit(f[i - 1], i)]
  BY DEF listed, Visit
<1>4. listed = [i \in 0..Len(Order) |-> IF i = 0 THEN tools ELSE Visit(listed[i - 1], i)]
  BY <1>2, <1>3
<1>. QED
  BY <1>1, <1>4

\* attachMcpTools: the tools show what list() says of every server.
LEMMA ListedMatches ==
    ASSUME Consistent(tools), \A s \in Servers : tools.names[s] = {},
           status \in [Servers -> Statuses], client \in [Servers -> Attempts \union {None}]
    PROVE  LET u == listed[Len(Order)]
           IN  Consistent(u) /\ \A s \in Servers : Matches(u, s, status[s], client[s])
<1> DEFINE N == Len(Order)
           Fits(s, t) == Matches(t, s, status[s], client[s])
           Good(i) == /\ Consistent(listed[i])
                      /\ \A s \in Servers : listed[i].names[s] = {} \/ Fits(s, listed[i])
                      /\ \A j \in 1..i : Fits(Order[j], listed[i])
           bad == {i \in 0..N : ~Good(i)}
<1>1. /\ N \in Nat /\ \A i \in 1..N : Order[i] \in Servers
      /\ \A s \in Servers : \E i \in 1..N : s = Order[i]
  BY McpAssumption DEF Servers, Range
<1>2. Good(0)
  BY ListedUnfolds
<1>3. ASSUME NEW i \in 1..N, Good(i - 1)
      PROVE  Good(i)
  <2> DEFINE t == listed[i - 1]
             s == Order[i]
             u == listed[i]
  <2>1. /\ s \in Servers /\ u = Visit(t, i) /\ Consistent(t)
        /\ status[s] \in Statuses /\ client[s] \in Attempts \union {None}
    BY <1>1, <1>3, ListedUnfolds
  <2>2. \A r \in Servers : t.names[r] = {} \/ Fits(r, t)
    BY <1>3
  <2>3. \A j \in 1..(i - 1) : Fits(Order[j], t)
    BY <1>3
  <2>. HIDE DEF t, u, s
  <2>4. Consistent(u) /\ Fits(s, u) /\ SameOthers(t, u, s)
    <3>1. CASE status[s] \in {"connected", "needs-auth"}
      <4>1. u = handleMcpServerStatusChange(t, s, status[s], client[s])
        BY <2>1, <3>1 DEF Visit, s
      <4>. QED
        BY <2>1, <4>1, HandleMatches
    <3>2. CASE status[s] \notin {"connected", "needs-auth"}
      <4>1. u = t
        BY <2>1, <3>2 DEF Visit, s
      <4>2. Fits(s, t)
        BY <2>1, <2>2, <3>2 DEF Matches, Statuses
      <4>. QED
        BY <2>1, <4>1, <4>2 DEF SameOthers
    <3>. QED
      BY <3>1, <3>2
  <2>5. ASSUME NEW r \in Servers, Fits(r, t)
        PROVE  Fits(r, u)
    BY <2>4, <2>5 DEF SameOthers, Matches
  <2>6. \A r \in Servers : u.names[r] = {} \/ Fits(r, u)
    BY <2>2, <2>4, <2>5 DEF SameOthers
  <2>7. \A j \in 1..i : Fits(Order[j], u)
    <3>1. \A j \in 1..i : j = i \/ j \in 1..(i - 1)
      BY <1>1
    <3>2. \A j \in 1..i : Order[j] \in Servers
      BY <1>1
    <3>. HIDE DEF Fits
    <3>. QED
      BY <2>3, <2>4, <2>5, <3>1, <3>2 DEF s
  <2>. QED
    BY <2>4, <2>6, <2>7 DEF u
<1>4. bad = {}
  <2>. SUFFICES ASSUME bad # {}
                PROVE  FALSE
    OBVIOUS
  <2>1. bad \in SUBSET Nat
    OBVIOUS
  <2>2. PICK i \in bad : \A m \in bad : ~(<<m, i>> \in OpToRel(<, Nat))
    <3>. HIDE DEF bad
    <3>. QED
      BY <2>1, NatLessThanWellFounded, WFMin
  <2>3. i \in 0..N /\ ~Good(i)
    OBVIOUS
  <2>. HIDE DEF Good
  <2>4. i # 0 /\ i \in 1..N
    BY <1>1, <1>2, <2>3
  <2>5. i - 1 \in 0..N /\ i - 1 < i /\ i - 1 \in Nat
    BY <1>1, <2>4
  <2>6. i - 1 \notin bad
    <3>. HIDE DEF bad
    <3>. QED
      BY <2>1, <2>2, <2>5 DEF OpToRel
  <2>. QED
    BY <1>3, <2>3, <2>4, <2>5, <2>6
<1>5. Good(N)
  <2>1. N \in 0..N /\ N \notin bad
    BY <1>1, <1>4
  <2>. QED
    BY <2>1
<1>6. ASSUME NEW s \in Servers
      PROVE  Fits(s, listed[N])
  <2>1. PICK i \in 1..N : s = Order[i]
    BY <1>1
  <2>. QED
    BY <1>5, <2>1
<1>. QED
  BY <1>5, <1>6

\* Where the current attempt of a server stands, as long as the session lasts: it has not
\* been superseded, it has decided on a status before it awaits the close of its client,
\* and when it is over the tools show the status and the client of the entry.
Stands(s) ==
    LET here == at[s][attemptId[s]]
    IN  /\ here \in {"closing", "starting", "failing", "done"}
        /\ here = "failing" => status[s] \in {"failed", "needs-auth"}
        /\ here = "done" =>
            /\ status[s] # "pending"
            /\ status[s] = "connected" =>
                   client[s] = attemptId[s] /\ conn[s][attemptId[s]] = "listed"
            /\ attached => Matches(tools, s, status[s], client[s])

\* The inductive invariant of the tools.
ToolInv ==
    /\ status \in [Servers -> Statuses] /\ attached \in BOOLEAN
    /\ Consistent(tools)
    /\ ~attached => \A s \in Servers : tools.names[s] = {}
    /\ ~shut => \A s \in Servers : Stands(s)

LEMMA InitToolInv == Init => ToolInv
<1>. SUFFICES ASSUME Init
              PROVE  ToolInv
  OBVIOUS
<1>1. PICK ok \in SUBSET Servers :
        /\ shut = FALSE /\ attached = FALSE
        /\ attemptId = [s \in Servers |-> 1]
        /\ status = [s \in Servers |-> IF s \in ok THEN "pending" ELSE "failed"]
        /\ at = [s \in Servers |-> [a \in Attempts |->
                    IF a > 1 THEN "idle" ELSE IF s \in ok THEN "starting" ELSE "failing"]]
        /\ tools = [table |-> [n \in Names |-> None], names |-> [s \in Servers |-> {}]]
  BY DEF Init
<1>2. status \in [Servers -> Statuses] /\ attached \in BOOLEAN
  BY <1>1 DEF Statuses
<1>3. Consistent(tools)
  BY <1>1 DEF Consistent, Toolset
<1>4. \A s \in Servers : Stands(s)
  <2>1. 1 \in Attempts /\ ~(1 > 1)
    BY McpAssumption DEF Attempts
  <2>. QED
    BY <1>1, <2>1 DEF Stands
<1>. QED
  BY <1>1, <1>2, <1>3, <1>4 DEF ToolInv

\* A step of one server leaves the others where they stand.
LEMMA OneServer ==
    ASSUME ToolInv, NEW s \in Servers,
           UNCHANGED <<shut, attached>>, status' \in [Servers -> Statuses],
           Consistent(tools'), SameOthers(tools, tools', s), ~attached => tools' = tools,
           \A r \in Servers \ {s} :
              /\ status'[r] = status[r] /\ client'[r] = client[r]
              /\ attemptId'[r] = attemptId[r] /\ at'[r] = at[r] /\ conn'[r] = conn[r],
           ~shut => Stands(s)'
    PROVE  ToolInv'
<1>1. ASSUME NEW r \in Servers \ {s}, ~shut
      PROVE  Stands(r)'
  <2>1. Stands(r)
    BY <1>1 DEF ToolInv
  <2>2. Matches(tools, r, status[r], client[r]) => Matches(tools', r, status[r], client[r])
    BY DEF SameOthers, Matches
  <2>. QED
    BY <2>1, <2>2 DEF Stands
<1>2. ~shut' => \A r \in Servers : Stands(r)'
  BY <1>1
<1>. QED
  BY <1>2 DEF ToolInv

LEMMA ToolsSame ==
    ASSUME ToolInv, UNCHANGED tools, NEW s \in Servers
    PROVE  Consistent(tools') /\ SameOthers(tools, tools', s)
BY DEF ToolInv, SameOthers

LEMMA EmitFacts ==
    ASSUME ToolInv, NEW s \in Servers, NEW st \in Statuses,
           NEW c \in Attempts \union {None}, emit(s, st, c)
    PROVE  /\ Consistent(tools') /\ SameOthers(tools, tools', s)
           /\ attached => Matches(tools', s, st, c)
           /\ ~attached => tools' = tools
<1>1. CASE attached
  <2>1. tools' = handleMcpServerStatusChange(tools, s, st, c)
    BY <1>1 DEF emit
  <2>. QED
    BY <1>1, <2>1, HandleMatches DEF ToolInv
<1>2. CASE ~attached
  <2>1. tools' = tools
    BY <1>2 DEF emit
  <2>. QED
    BY <1>2, <2>1, ToolsSame
<1>. QED
  BY <1>1, <1>2

\* Nor does the step of a superseded attempt move its own server.
LEMMA OldAttempt ==
    ASSUME ClientInv, ToolInv, NEW s \in Servers, NEW a \in Attempts, ~isCurrent(s, a),
           UNCHANGED <<shut, attached, status, client, attemptId, tools>>,
           NEW p \in Places, at' = [at EXCEPT ![s][a] = p],
           NEW c \in Conns, conn' \in {conn, [conn EXCEPT ![s][a] = c]}
    PROVE  ToolInv'
<1>1. \A r \in Servers, b \in Attempts : ~(r = s /\ b = a) => at'[r][b] = at[r][b]
  BY OneAt DEF ClientInv
<1>2. \A r \in Servers, b \in Attempts : ~(r = s /\ b = a) => conn'[r][b] = conn[r][b]
  BY OneConn DEF ClientInv
<1>3. \A r \in Servers \ {s} : at'[r] = at[r] /\ conn'[r] = conn[r]
  BY DEF ClientInv, Typing
<1>4. attemptId[s] \in Attempts
  BY DEF ClientInv, Typing
<1>5. ~shut => Stands(s)'
  <2>. SUFFICES ASSUME ~shut
                PROVE  Stands(s)'
    OBVIOUS
  <2>1. attemptId[s] # a /\ Stands(s)
    BY DEF isCurrent, ToolInv
  <2>2. at'[s][attemptId[s]] = at[s][attemptId[s]] /\ conn'[s][attemptId[s]] = conn[s][attemptId[s]]
    BY <1>1, <1>2, <1>4, <2>1
  <2>. QED
    BY <2>1, <2>2 DEF Stands
<1>6. Consistent(tools') /\ SameOthers(tools, tools', s) /\ status' \in [Servers -> Statuses]
  BY ToolsSame DEF ToolInv
<1>. QED
  BY <1>3, <1>5, <1>6, OneServer

LEMMA ExternalTools ==
    ASSUME ClientInv, ToolInv, NEW s \in Servers, NEW a \in Attempts,
           External(s, a)
    PROVE  ToolInv'
<1>1. ASSUME NEW c \in Conns, conn' = [conn EXCEPT ![s][a] = c],
             ~shut => Stands(s)',
             UNCHANGED <<shut, attached, status, client, attemptId, at, tools>>
      PROVE  ToolInv'
  <2>1. \A r \in Servers \ {s} : conn'[r] = conn[r]
    BY <1>1 DEF ClientInv, Typing
  <2>2. Consistent(tools') /\ SameOthers(tools, tools', s) /\ status' \in [Servers -> Statuses]
    BY <1>1, ToolsSame DEF ToolInv
  <2>. QED
    BY <1>1, <2>1, <2>2, OneServer
<1>2. attemptId[s] \in Attempts
  BY DEF ClientInv, Typing
<1>3. ASSUME NEW c \in Conns, conn' = [conn EXCEPT ![s][a] = c],
             conn[s][a] = "listed" =>
                 ~(at[s][a] = "done" /\ isCurrent(s, a) /\ client[s] = a),
             UNCHANGED <<shut, attached, status, client, attemptId, at, tools>>
      PROVE  ToolInv'
  <2>1. \A b \in Attempts : conn'[s][b] = IF b = a THEN c ELSE conn[s][b]
    BY <1>3, OneConn DEF ClientInv
  <2>2. ASSUME ~shut
        PROVE  Stands(s)'
    <3>1. Stands(s)
      BY <2>2 DEF ToolInv
    <3>2. at[s][attemptId[s]] = "done" /\ status[s] = "connected" => attemptId[s] # a
      BY <1>3, <2>2, <3>1 DEF Stands, isCurrent
    <3>. QED
      BY <1>2, <1>3, <2>1, <3>1, <3>2 DEF Stands
  <2>. QED
    BY <1>1, <1>3, <2>2
<1>4. CASE Die(s, a) /\ UnexpectedClose(s, a) /\ Watched(s, a) /\ isCurrent(s, a)
  <2>1. /\ status' = [status EXCEPT ![s] = "failed"]
        /\ client' = [client EXCEPT ![s] = None]
        /\ conn' = [conn EXCEPT ![s][a] = "closed"]
        /\ emit(s, "failed", None)
        /\ UNCHANGED <<shut, attemptId, at, attached>>
        /\ at[s][a] = "done" /\ a = attemptId[s]
    BY <1>4 DEF Die, UnexpectedClose, Watched, isCurrent
  <2>2. /\ Consistent(tools') /\ SameOthers(tools, tools', s)
        /\ attached => Matches(tools', s, "failed", None)
        /\ ~attached => tools' = tools
    BY <2>1, EmitFacts DEF Statuses
  <2>3. /\ status' \in [Servers -> Statuses] /\ status'[s] = "failed" /\ client'[s] = None
        /\ \A r \in Servers \ {s} :
              status'[r] = status[r] /\ client'[r] = client[r] /\ conn'[r] = conn[r]
    BY <2>1 DEF ToolInv, ClientInv, Typing, Statuses
  <2>4. Stands(s)'
    BY <2>1, <2>2, <2>3 DEF Stands
  <2>. QED
    BY <2>1, <2>2, <2>3, <2>4, OneServer
<1>5. CASE Handshake(s, a) \/ ListTools(s, a) \/ Refuse(s, a)
  <2>1. PICK c \in {"ready", "listed", "broken"} :
          /\ conn[s][a] \in {"connecting", "ready"} /\ conn' = [conn EXCEPT ![s][a] = c]
          /\ UNCHANGED <<shut, attached, status, client, attemptId, at, tools>>
    BY <1>5 DEF Handshake, ListTools, Refuse, Server, entry
  <2>2. c \in Conns
    BY DEF Conns
  <2>. QED
    BY <1>3, <2>1, <2>2
<1>6. CASE /\ ~(Watched(s, a) /\ isCurrent(s, a) /\ client[s] = a)
           /\ conn' = [conn EXCEPT ![s][a] = "lost"]
           /\ UNCHANGED <<shut, attached, status, client, attemptId, at, tools>>
  <2>1. "lost" \in Conns
    BY DEF Conns
  <2>. QED
    BY <1>3, <1>6, <2>1 DEF Watched
<1>. QED
  BY <1>4, <1>5, <1>6 DEF External, Die

LEMMA ReconnectTools ==
    ASSUME ClientInv, ToolInv, NEW s \in Servers, reconnect(s)
    PROVE  ToolInv'
<1> DEFINE a == attemptId[s] + 1
<1>1. /\ attemptId' = [attemptId EXCEPT ![s] = a]
      /\ at' = [at EXCEPT ![s][a] = "closing"]
      /\ conn' = Closed(conn, s, client[s])
      /\ client' = [client EXCEPT ![s] = None]
      /\ UNCHANGED <<shut, attached, status, tools>>
  BY DEF reconnect
<1>2. a \in Attempts
  <2>1. /\ reconnects < MaxReconnects /\ reconnects \in Nat
        /\ attemptId[s] \in Nat /\ attemptId[s] <= reconnects + 1
    BY DEF reconnect, ClientInv, Typing, Attempts
  <2>. QED
    BY <2>1, McpAssumption DEF Attempts
<1>. HIDE DEF a
<1>3. attemptId'[s] = a /\ at'[s][a] = "closing"
  BY <1>1, <1>2 DEF ClientInv, Typing
<1>4. /\ conn \in [Servers -> [Attempts -> Conns]]
      /\ client[s] \in Attempts \union {None}
  BY DEF ClientInv, Typing
<1>5. \A r \in Servers \ {s} : conn'[r] = conn[r]
  BY <1>1, <1>4 DEF Closed
<1>6. \A r \in Servers \ {s} :
          attemptId'[r] = attemptId[r] /\ at'[r] = at[r] /\ client'[r] = client[r]
  BY <1>1 DEF ClientInv, Typing
<1>7. Stands(s)'
  BY <1>3 DEF Stands
<1>8. Consistent(tools') /\ SameOthers(tools, tools', s) /\ status' \in [Servers -> Statuses]
  BY <1>1, ToolsSame DEF ToolInv
<1>. QED
  BY <1>1, <1>5, <1>6, <1>7, <1>8, OneServer

LEMMA ReopenTools ==
    ASSUME ClientInv, ToolInv, NEW s \in Servers, NEW a \in Attempts,
           Reopen(s, a)
    PROVE  ToolInv'
<1>1. CASE isCurrent(s, a)
  <2>1. /\ emit(s, "pending", None) /\ connectOne(s, a)
        /\ UNCHANGED <<shut, attemptId, attached>>
        /\ a = attemptId[s]
    BY <1>1 DEF Reopen, isCurrent
  <2>2. /\ Consistent(tools') /\ SameOthers(tools, tools', s)
        /\ ~attached => tools' = tools
    BY <2>1, EmitFacts DEF Statuses
  <2>3. CASE /\ conn' = [conn EXCEPT ![s][a] = "connecting"]
             /\ client' = [client EXCEPT ![s] = a]
             /\ status' = [status EXCEPT ![s] = "pending"]
             /\ at' = [at EXCEPT ![s][a] = "starting"]
    <3>1. /\ status' \in [Servers -> Statuses] /\ at'[s][a] = "starting"
          /\ \A r \in Servers \ {s} :
                /\ status'[r] = status[r] /\ client'[r] = client[r]
                /\ at'[r] = at[r] /\ conn'[r] = conn[r]
      BY <2>3 DEF ToolInv, ClientInv, Typing, Statuses
    <3>2. Stands(s)'
      BY <2>1, <3>1 DEF Stands
    <3>. QED
      BY <2>1, <2>2, <3>1, <3>2, OneServer
  <2>4. CASE /\ status' = [status EXCEPT ![s] = "failed"]
             /\ at' = [at EXCEPT ![s][a] = "failing"]
             /\ UNCHANGED <<conn, client>>
    <3>1. /\ status' \in [Servers -> Statuses] /\ at'[s][a] = "failing" /\ status'[s] = "failed"
          /\ \A r \in Servers \ {s} : status'[r] = status[r] /\ at'[r] = at[r]
      BY <2>4 DEF ToolInv, ClientInv, Typing, Statuses
    <3>2. Stands(s)'
      BY <2>1, <3>1 DEF Stands
    <3>. QED
      BY <2>1, <2>2, <2>4, <3>1, <3>2, OneServer
  <2>. QED
    BY <2>1, <2>3, <2>4 DEF connectOne
<1>2. CASE ~isCurrent(s, a)
  <2>1. /\ at' = [at EXCEPT ![s][a] = "done"]
        /\ UNCHANGED <<shut, attemptId, attached, status, client, conn, tools>>
    BY <1>2 DEF Reopen
  <2>2. "done" \in Places /\ "none" \in Conns
    BY DEF Places, Conns
  <2>. QED
    BY <1>2, <2>1, <2>2, OldAttempt
<1>. QED
  BY <1>1, <1>2

LEMMA ConnectTools ==
    ASSUME ClientInv, ToolInv, NEW s \in Servers, NEW a \in Attempts,
           Connect(s, a)
    PROVE  ToolInv'
<1>1. /\ at' = [at EXCEPT ![s][a] = "done"] /\ a = attemptId[s]
      /\ UNCHANGED <<shut, attemptId, attached>>
  BY DEF Connect, isCurrent
<1>2. /\ at'[s][a] = "done"
      /\ \A r \in Servers \ {s} : at'[r] = at[r]
  BY <1>1 DEF ClientInv, Typing
<1>3. CASE /\ conn[s][a] = "listed"
           /\ status' = [status EXCEPT ![s] = "connected"]
           /\ emit(s, "connected", client[s])
           /\ UNCHANGED <<client, conn>>
  <2>1. client[s] = a
    BY <1>3 DEF ClientInv, NoOrphanClient, Open
  <2>2. /\ Consistent(tools') /\ SameOthers(tools, tools', s)
        /\ attached => Matches(tools', s, "connected", a)
        /\ ~attached => tools' = tools
    BY <1>3, <2>1, EmitFacts DEF Statuses
  <2>3. /\ status' \in [Servers -> Statuses] /\ status'[s] = "connected"
        /\ \A r \in Servers \ {s} : status'[r] = status[r]
    BY <1>3 DEF ToolInv, Statuses
  <2>4. Stands(s)'
    BY <1>1, <1>2, <1>3, <2>1, <2>2, <2>3 DEF Stands
  <2>. QED
    BY <1>1, <1>2, <1>3, <2>2, <2>3, <2>4, OneServer
<1>4. CASE UnexpectedClose(s, a)
  <2>1. /\ status' = [status EXCEPT ![s] = "failed"]
        /\ client' = [client EXCEPT ![s] = None]
        /\ conn' = [conn EXCEPT ![s][a] = "closed"]
        /\ emit(s, "failed", None)
    BY <1>4 DEF UnexpectedClose
  <2>2. /\ Consistent(tools') /\ SameOthers(tools, tools', s)
        /\ attached => Matches(tools', s, "failed", None)
        /\ ~attached => tools' = tools
    BY <2>1, EmitFacts DEF Statuses
  <2>3. /\ status' \in [Servers -> Statuses] /\ status'[s] = "failed" /\ client'[s] = None
        /\ \A r \in Servers \ {s} :
              status'[r] = status[r] /\ client'[r] = client[r] /\ conn'[r] = conn[r]
    BY <2>1 DEF ToolInv, ClientInv, Typing, Statuses
  <2>4. Stands(s)'
    BY <1>1, <1>2, <2>2, <2>3 DEF Stands
  <2>. QED
    BY <1>1, <1>2, <2>2, <2>3, <2>4, OneServer
<1>. QED
  BY <1>3, <1>4 DEF Connect

\* connectOne's catch: the status is decided, and told after the close.
LEMMA CaughtTools ==
    ASSUME ClientInv, ToolInv, NEW s \in Servers, NEW a \in Attempts,
           NEW st \in {"failed", "needs-auth"}, Caught(s, a, st)
    PROVE  ToolInv'
<1>1. /\ status' = [status EXCEPT ![s] = st]
      /\ conn' = Closed(Closed(conn, s, a), s, client[s])
      /\ client' = [client EXCEPT ![s] = None]
      /\ at' = [at EXCEPT ![s][a] = "failing"]
      /\ UNCHANGED <<shut, attemptId, attached, tools>>
      /\ a = attemptId[s]
  BY DEF Caught, isCurrent
<1>2. /\ status' \in [Servers -> Statuses] /\ status'[s] = st /\ at'[s][a] = "failing"
      /\ \A r \in Servers \ {s} :
            status'[r] = status[r] /\ client'[r] = client[r] /\ at'[r] = at[r]
  BY <1>1 DEF ToolInv, ClientInv, Typing, Statuses
<1>3. \A r \in Servers \ {s} : conn'[r] = conn[r]
  <2>1. \A c : \A r \in Servers \ {s} : Closed(conn, s, c)[r] = conn[r]
    BY DEF ClientInv, Typing, Closed
  <2>2. \A c, d : \A r \in Servers \ {s} : Closed(Closed(conn, s, c), s, d)[r] = conn[r]
    BY <2>1 DEF ClientInv, Typing, Closed
  <2>. QED
    BY <1>1, <2>2
<1>4. Stands(s)'
  BY <1>1, <1>2 DEF Stands
<1>5. Consistent(tools') /\ SameOthers(tools, tools', s)
  BY <1>1, ToolsSame
<1>. QED
  BY <1>1, <1>2, <1>3, <1>4, <1>5, OneServer

LEMMA SupersededTools ==
    ASSUME ClientInv, ToolInv, NEW s \in Servers, NEW a \in Attempts, Superseded(s, a)
    PROVE  ToolInv'
<1>1. /\ ~isCurrent(s, a)
      /\ conn' \in {conn, [conn EXCEPT ![s][a] = "closed"]}
      /\ at' = [at EXCEPT ![s][a] = "dropping"]
      /\ UNCHANGED <<shut, attached, status, client, attemptId, tools>>
  BY DEF Superseded, Closed, entry
<1>2. "dropping" \in Places /\ "closed" \in Conns
  BY DEF Places, Conns
<1>. QED
  BY <1>1, <1>2, OldAttempt

\* The end of connectOne: the attempt that is still current tells its status.
LEMMA FinishTools ==
    ASSUME ClientInv, ToolInv, NEW s \in Servers, NEW a \in Attempts,
           Finish(s, a)
    PROVE  ToolInv'
<1>1. /\ at' = [at EXCEPT ![s][a] = "done"]
      /\ at[s][a] \in {"dropping", "failing"}
      /\ UNCHANGED <<shut, attemptId, attached, status, client, conn>>
  BY DEF Finish, entry
<1>2. CASE ~isCurrent(s, a)
  <2>1. tools' = tools
    BY <1>2 DEF Finish
  <2>2. "done" \in Places /\ "none" \in Conns
    BY DEF Places, Conns
  <2>. QED
    BY <1>1, <1>2, <2>1, <2>2, OldAttempt
<1>3. CASE isCurrent(s, a)
  <2>1. ~shut /\ a = attemptId[s] /\ Stands(s)
    BY <1>3 DEF isCurrent, ToolInv
  <2>2. at[s][a] = "failing" /\ status[s] \in {"failed", "needs-auth"}
    BY <1>1, <2>1 DEF Stands
  <2>3. emit(s, status[s], client[s])
    BY <1>3, <2>2 DEF Finish
  <2>4. status[s] \in Statuses /\ client[s] \in Attempts \union {None}
    BY DEF ToolInv, ClientInv, Typing
  <2>5. /\ Consistent(tools') /\ SameOthers(tools, tools', s)
        /\ attached => Matches(tools', s, status[s], client[s])
        /\ ~attached => tools' = tools
    BY <2>3, <2>4, EmitFacts
  <2>6. /\ at'[s][a] = "done"
        /\ \A r \in Servers \ {s} : at'[r] = at[r]
    BY <1>1 DEF ClientInv, Typing
  <2>7. Stands(s)'
    BY <1>1, <2>1, <2>2, <2>5, <2>6 DEF Stands
  <2>8. status' \in [Servers -> Statuses]
    BY <1>1 DEF ToolInv
  <2>. QED
    BY <1>1, <2>5, <2>6, <2>7, <2>8, OneServer
<1>. QED
  BY <1>2, <1>3

LEMMA NextToolInv == ClientInv /\ ToolInv /\ [Next]_vars => ToolInv'
<1>. SUFFICES ASSUME ClientInv, ToolInv, [Next]_vars
              PROVE  ToolInv'
  OBVIOUS
<1>1. CASE attachMcpTools
  <2>1. /\ ~attached /\ attached' = TRUE
        /\ tools' = listed[IF shut THEN 0 ELSE Len(Order)]
        /\ UNCHANGED <<shut, attemptId, status, client, at, conn>>
    BY <1>1 DEF attachMcpTools, entry
  <2>2. CASE shut
    BY <2>1, <2>2, ListedUnfolds DEF ToolInv
  <2>3. CASE ~shut
    <3>1. Consistent(tools') /\ \A s \in Servers : Matches(tools', s, status[s], client[s])
      BY <2>1, <2>3, ListedMatches DEF ToolInv, ClientInv, Typing
    <3>2. \A s \in Servers : Stands(s)'
      BY <2>1, <2>3, <3>1 DEF ToolInv, Stands
    <3>. QED
      BY <2>1, <3>1, <3>2 DEF ToolInv
  <2>. QED
    BY <2>2, <2>3
<1>2. CASE shutdown
  BY <1>2 DEF shutdown, ToolInv
<1>3. CASE UNCHANGED vars
  BY <1>3 DEF vars, ToolInv, Stands
<1>4. ASSUME NEW s \in Servers, reconnect(s)
      PROVE  ToolInv'
  BY <1>4, ReconnectTools
<1>5. ASSUME NEW s \in Servers, NEW a \in Attempts,
             Resume(s, a) \/ TimeOut(s, a) \/ External(s, a)
      PROVE  ToolInv'
  <2>1. CASE StartFails(s, a)
    <3>1. PICK st \in {"failed", "needs-auth"} : Caught(s, a, st)
      BY <2>1 DEF StartFails
    <3>. QED
      BY <3>1, CaughtTools
  <2>2. CASE TimeOut(s, a) \/ GiveUp(s, a)
    BY <2>2, CaughtTools, SupersededTools DEF TimeOut, GiveUp
  <2>. QED
    BY <1>5, <2>1, <2>2, ExternalTools, ReopenTools, ConnectTools, FinishTools DEF Resume
<1>. QED
  BY <1>1, <1>2, <1>3, <1>4, <1>5 DEF Next

\* ToolManager: whatever the order of reconnects, late answers, collisions and closes, and
\* whenever the agent attached, the tools it offers from a server without an attempt under
\* way are those of its live client, its authenticate tool, or none, under every name that
\* is not disputed.
THEOREM ToolsMatchStatus == Spec => []ToolsFollowStatus
<1>1. ClientInv /\ ToolInv => ToolsFollowStatus
  <2>. SUFFICES ASSUME ClientInv, ToolInv, attached, ~shut, NEW s \in Servers, Settled(s)
                PROVE  CASE status[s] = "connected" ->
                              /\ client[s] # None /\ conn[s][client[s]] = "listed"
                              /\ \A n \in Shown(s) :
                                    n \in Offers[s] /\ tools.table[n].by = client[s]
                              /\ \A n \in Offers[s] \ (Shown(s) \union Disputed) :
                                    HeldByAnother(n, s)
                         [] status[s] = "needs-auth" -> Shown(s) = {AuthTool[s]} \ Disputed
                         [] OTHER -> status[s] = "failed" /\ Shown(s) = {}
    BY DEF ToolsFollowStatus
  <2>1. attemptId[s] \in Attempts /\ attemptId[s] # None /\ Stands(s)
    BY McpAssumption DEF ClientInv, Typing, ToolInv
  <2>2. at[s][attemptId[s]] = "done"
    BY <2>1 DEF Settled, Stands
  <2>3. /\ status[s] \in {"connected", "failed", "needs-auth"}
        /\ status[s] = "connected" =>
              client[s] = attemptId[s] /\ conn[s][attemptId[s]] = "listed"
        /\ Matches(tools, s, status[s], client[s])
    BY <2>1, <2>2 DEF ToolInv, Stands, Statuses
  <2>4. Shown(s) = tools.names[s] \ Disputed
    <3>1. tools.names[s] \subseteq Names
      BY DEF ToolInv, Consistent, Toolset
    <3>. QED
      BY <3>1 DEF ToolInv, Consistent, Shown
  <2>5. CASE status[s] = "connected"
    BY <2>1, <2>3, <2>4, <2>5 DEF Matches
  <2>6. CASE status[s] = "needs-auth"
    BY <2>3, <2>4, <2>6 DEF Matches
  <2>7. CASE status[s] = "failed"
    BY <2>3, <2>4, <2>7 DEF Matches
  <2>. QED
    BY <2>3, <2>5, <2>6, <2>7
<1>2. ClientInv /\ ToolInv /\ [Next]_vars => ToolInv'
  BY NextToolInv
<1>3. Spec => []ToolInv
  BY <1>2, InitToolInv, InductiveInvariant, PTL DEF Spec
<1>. QED
  BY <1>1, <1>3, InductiveInvariant, PTL
=============================================================================
