--------------------------- MODULE McpConnections ---------------------------
(***************************************************************************)
(* The MCP servers of a session and the tools an agent offers from them:   *)
(* packages/agent-core/src/mcp/connection-manager.ts (McpConnectionManager)*)
(* with the runtime clients client-stdio.ts and client-http.ts, and the    *)
(* part of agent/tool/index.ts (ToolManager) that listens to it.           *)
(*                                                                         *)
(* An attempt to connect is a call of connectOne.  Attempts of one server  *)
(* overlap: a reconnect may come while an earlier one waits for a close,   *)
(* for the handshake, for tools/list or for its timer, and the session may *)
(* shut the manager down under all of them.  An attempt makes at most one  *)
(* client, so the attempt's number names its client.                       *)
(*                                                                         *)
(* An action is what the event loop runs between two awaits.  Listeners    *)
(* are called inside emit, so what ToolManager does is part of the action. *)
(* Servers with enabled = false never leave "disabled" and are left out;   *)
(* connect and remove have no caller outside the tests.                    *)
(***************************************************************************)
EXTENDS Naturals, Sequences, SequencesExt

CONSTANTS
    Order,         \* the servers, as the configuration lists them
    Http,          \* those reached over http with an OAuth service behind them
    Offers,        \* the qualified tool names each server offers
    AuthTool,      \* the name of each server's synthetic authenticate tool
    MaxReconnects, \* bound: reconnects, over all servers
    None

Servers  == Range(Order)
Attempts == 1..(MaxReconnects + 1)
Names    == (UNION {Offers[s] : s \in Servers}) \union {AuthTool[s] : s \in Servers}

Owners   == [server : Servers, by : Attempts \union {None}]

ASSUME McpAssumption ==
    /\ Order \in Seq(Servers)
    /\ Http \subseteq Servers
    /\ MaxReconnects \in Nat
    /\ None \notin Attempts \union Owners

VARIABLES
    shut,       \* shutdown has cleared the entries
    attemptId,  \* entry.attemptId, the last attempt begun
    status,     \* entry.status
    client,     \* entry.client: the attempt that made it, or None
    at,         \* where each attempt is: see Places
    conn,       \* what each attempt's client is doing: see Conns
    attached,   \* an agent's ToolManager listens
    tools,      \* its mcpTools (table) and mcpToolsByServer (names)
    reconnects  \* reconnects so far, for the bound

vars == <<shut, attemptId, status, client, at, conn, attached, tools, reconnects>>
entry == <<shut, attemptId, status, client, reconnects>>

(* "closing": reconnect awaits the old client's close; "starting": awaits   *)
(* connect and listTools under the timer; "dropping": a superseded attempt  *)
(* awaits its own client's close; "failing": awaits closeClient after an    *)
(* error.                                                                   *)
Places == {"idle", "closing", "starting", "dropping", "failing", "done"}

(* "broken": the start will reject; "lost": the transport closed after      *)
(* tools/list and before anyone listens (pendingUnexpectedClose).           *)
Conns == {"none", "connecting", "ready", "listed", "broken", "lost", "closed"}

Statuses == {"pending", "connected", "failed", "needs-auth"}

(* One type invariant: the clients named by entries are attempts' clients. *)
TypeOK ==
    /\ shut \in BOOLEAN /\ attached \in BOOLEAN
    /\ attemptId \in [Servers -> Attempts]
    /\ status \in [Servers -> Statuses]
    /\ client \in [Servers -> Attempts \union {None}]
    /\ at \in [Servers -> [Attempts -> Places]]
    /\ conn \in [Servers -> [Attempts -> Conns]]
    /\ tools.table \in [Names -> Owners \union {None}]
    /\ tools.names \in [Servers -> SUBSET Names]

isCurrent(s, a) == ~shut /\ attemptId[s] = a

-----------------------------------------------------------------------------
(* ToolManager                                                             *)

unregisterMcpServer(t, s) ==
    [table |-> [n \in Names |-> IF n \in t.names[s] THEN None ELSE t.table[n]],
     names |-> [t.names EXCEPT ![s] = {}]]

(* A name another server holds is a collision and is skipped. *)
registerMcpServer(t, s, a) ==
    LET u    == unregisterMcpServer(t, s)
        free == {n \in Offers[s] : u.table[n] = None}
    IN  [table |-> [n \in Names |-> IF n \in free THEN [server |-> s, by |-> a]
                                                  ELSE u.table[n]],
         names |-> [u.names EXCEPT ![s] = free]]

registerNeedsAuthMcpServer(t, s) ==
    LET u == unregisterMcpServer(t, s)
    IN  [table |-> [u.table EXCEPT ![AuthTool[s]] = [server |-> s, by |-> None]],
         names |-> [u.names EXCEPT ![s] = {AuthTool[s]}]]

(* The event names a status; the client registered is resolved()'s, the    *)
(* one the entry holds now.                                                *)
handleMcpServerStatusChange(t, s, st, c) ==
    CASE st = "connected"  -> IF c = None THEN t ELSE registerMcpServer(t, s, c)
      [] st = "needs-auth" -> registerNeedsAuthMcpServer(t, s)
      [] OTHER             -> unregisterMcpServer(t, s)

emit(s, st, c) ==
    tools' = IF attached THEN handleMcpServerStatusChange(tools, s, st, c) ELSE tools

(* The tools after the first i servers that list() shows. *)
listed[i \in 0..Len(Order)] ==
    IF i = 0 THEN tools
    ELSE LET s == Order[i]
         IN  IF status[s] \in {"connected", "needs-auth"}
             THEN handleMcpServerStatusChange(listed[i - 1], s, status[s], client[s])
             ELSE listed[i - 1]

(* attachMcpTools: what list() shows, which is nothing after the shutdown, *)
(* then the subscription.                                                  *)
attachMcpTools ==
    /\ ~attached
    /\ attached' = TRUE
    /\ tools' = listed[IF shut THEN 0 ELSE Len(Order)]
    /\ UNCHANGED <<entry, at, conn>>

-----------------------------------------------------------------------------
(* The runtime clients                                                     *)

Server(s, a, from, to) ==
    /\ conn[s][a] \in from
    /\ conn' = [conn EXCEPT ![s][a] = to]

(* The server completes the handshake, then answers tools/list. *)
Handshake(s, a) == Server(s, a, {"connecting"}, "ready")  /\ UNCHANGED <<entry, at, attached, tools>>
ListTools(s, a) == Server(s, a, {"ready"}, "listed")      /\ UNCHANGED <<entry, at, attached, tools>>

(* It refuses, or its transport goes away, before that. *)
Refuse(s, a) ==
    /\ Server(s, a, {"connecting", "ready"}, "broken")
    /\ UNCHANGED <<entry, at, attached, tools>>

(* connectOne with its listener in place is past "starting". *)
Watched(s, a) == at[s][a] = "done"

(* watchForUnexpectedClose's callback, for an attempt that is current and   *)
(* whose client the entry still holds.                                      *)
UnexpectedClose(s, a) ==
    /\ status' = [status EXCEPT ![s] = "failed"]
    /\ client' = [client EXCEPT ![s] = None]
    /\ conn' = [conn EXCEPT ![s][a] = "closed"]
    /\ emit(s, "failed", None)

(* onclose, or a terminal onerror, of a client that has listed its tools.   *)
Die(s, a) ==
    /\ conn[s][a] = "listed"
    /\ \/ /\ Watched(s, a) /\ isCurrent(s, a) /\ client[s] = a
          /\ UnexpectedClose(s, a)
       \/ /\ ~(Watched(s, a) /\ isCurrent(s, a) /\ client[s] = a)
          /\ conn' = [conn EXCEPT ![s][a] = "lost"]
          /\ UNCHANGED <<status, client, tools>>
    /\ UNCHANGED <<shut, attemptId, reconnects, at, attached>>

(* close is idempotent and ends a start that is under way. *)
Closed(cs, s, c) ==
    IF c = None \/ cs[s][c] = "none" THEN cs ELSE [cs EXCEPT ![s][c] = "closed"]

-----------------------------------------------------------------------------
(* The manager                                                             *)

(* connectOne up to its first await.  createClient throws when the          *)
(* configuration names a bearer token the environment does not have.        *)
connectOne(s, a) ==
    \/ /\ conn' = [conn EXCEPT ![s][a] = "connecting"]
       /\ client' = [client EXCEPT ![s] = a]
       /\ status' = [status EXCEPT ![s] = "pending"]
       /\ at' = [at EXCEPT ![s][a] = "starting"]
    \/ /\ status' = [status EXCEPT ![s] = "failed"]
       /\ at' = [at EXCEPT ![s][a] = "failing"]
       /\ UNCHANGED <<conn, client>>

(* A bug: reconnect closes the client only of a server that is connected. *)
reconnect_KeepsStarting(s) ==
    /\ ~shut
    /\ reconnects < MaxReconnects /\ reconnects' = reconnects + 1
    /\ LET a == attemptId[s] + 1
       IN  /\ attemptId' = [attemptId EXCEPT ![s] = a]
           /\ at' = [at EXCEPT ![s][a] = "closing"]
    /\ conn' = IF status[s] = "connected" THEN Closed(conn, s, client[s]) ELSE conn
    /\ client' = [client EXCEPT ![s] = None]
    /\ UNCHANGED <<shut, status, attached, tools>>

(* reconnect up to its await: the old client is closed whatever it is doing. *)
reconnect(s) ==
    /\ ~shut
    /\ reconnects < MaxReconnects /\ reconnects' = reconnects + 1
    /\ LET a == attemptId[s] + 1
       IN  /\ attemptId' = [attemptId EXCEPT ![s] = a]
           /\ at' = [at EXCEPT ![s][a] = "closing"]
    /\ conn' = Closed(conn, s, client[s])
    /\ client' = [client EXCEPT ![s] = None]
    /\ UNCHANGED <<shut, status, attached, tools>>

(* reconnect once the old client is closed. *)
Reopen(s, a) ==
    /\ at[s][a] = "closing"
    /\ \/ /\ isCurrent(s, a)
          /\ emit(s, "pending", None)
          /\ connectOne(s, a)
       \/ /\ ~isCurrent(s, a)
          /\ at' = [at EXCEPT ![s][a] = "done"]
          /\ UNCHANGED <<status, client, conn, tools>>
    /\ UNCHANGED <<shut, attemptId, reconnects, attached>>

(* A bug: connected is set after the watch, over the close it replays. *)
Connect_WatchFirst(s, a) ==
    /\ at[s][a] = "starting" /\ isCurrent(s, a)
    /\ conn[s][a] \in {"listed", "lost"}
    /\ status' = [status EXCEPT ![s] = "connected"]
    /\ emit(s, "connected", client[s])
    /\ at' = [at EXCEPT ![s][a] = "done"]
    /\ UNCHANGED <<shut, attemptId, reconnects, client, conn, attached>>

(* connectOne's success; a close that was buffered is replayed at once. *)
Connect(s, a) ==
    /\ at[s][a] = "starting" /\ isCurrent(s, a)
    /\ \/ /\ conn[s][a] = "listed"
          /\ status' = [status EXCEPT ![s] = "connected"]
          /\ emit(s, "connected", client[s])
          /\ UNCHANGED <<client, conn>>
       \/ /\ conn[s][a] = "lost" /\ client[s] = a
          /\ UnexpectedClose(s, a)
    /\ at' = [at EXCEPT ![s][a] = "done"]
    /\ UNCHANGED <<shut, attemptId, reconnects, attached>>

(* connectOne's catch, current: closeClient closes what the entry holds. *)
Caught(s, a, st) ==
    /\ isCurrent(s, a)
    /\ status' = [status EXCEPT ![s] = st]
    /\ conn' = Closed(Closed(conn, s, a), s, client[s])
    /\ client' = [client EXCEPT ![s] = None]
    /\ at' = [at EXCEPT ![s][a] = "failing"]
    /\ UNCHANGED <<shut, attemptId, reconnects, attached, tools>>

StartFails(s, a) ==
    /\ at[s][a] = "starting" /\ conn[s][a] = "broken"
    /\ \E st \in {"failed"} \union (IF s \in Http THEN {"needs-auth"} ELSE {}) : Caught(s, a, st)

(* connectOne superseded, by success or by error: it closes its own client. *)
Superseded(s, a) ==
    /\ ~isCurrent(s, a)
    /\ conn' = Closed(conn, s, a)
    /\ at' = [at EXCEPT ![s][a] = "dropping"]
    /\ UNCHANGED <<entry, attached, tools>>

GiveUp(s, a) ==
    /\ at[s][a] = "starting" /\ conn[s][a] \notin {"connecting", "ready"}
    /\ Superseded(s, a)

(* A bug: the timer closes the client without rejecting the start. *)
TimeOut_OnlyCloses(s, a) ==
    /\ at[s][a] = "starting"
    /\ conn' = Closed(conn, s, a)
    /\ UNCHANGED <<entry, at, attached, tools>>

(* withTimeout's timer: the start is closed and rejected. *)
TimeOut(s, a) ==
    /\ at[s][a] = "starting"
    /\ Caught(s, a, "failed") \/ Superseded(s, a)

(* connectOne after its last await: an attempt still current tells. *)
Finish(s, a) ==
    /\ at[s][a] \in {"dropping", "failing"}
    /\ at' = [at EXCEPT ![s][a] = "done"]
    /\ IF at[s][a] = "failing" /\ isCurrent(s, a)
       THEN emit(s, status[s], client[s])
       ELSE UNCHANGED tools
    /\ UNCHANGED <<entry, conn, attached>>

(* shutdown, when the session closes: nothing is emitted. *)
shutdown ==
    /\ ~shut
    /\ shut' = TRUE
    /\ conn' = [s \in Servers |-> Closed(conn, s, client[s])[s]]
    /\ client' = [s \in Servers |-> None]
    /\ UNCHANGED <<attemptId, reconnects, status, at, attached, tools>>

(* connectAll has run its synchronous part in the session's constructor;    *)
(* any of the createClient calls may have thrown.                           *)
Init ==
    \E ok \in SUBSET Servers :
        /\ shut = FALSE /\ attached = FALSE /\ reconnects = 0
        /\ attemptId = [s \in Servers |-> 1]
        /\ status = [s \in Servers |-> IF s \in ok THEN "pending" ELSE "failed"]
        /\ client = [s \in Servers |-> IF s \in ok THEN 1 ELSE None]
        /\ at = [s \in Servers |-> [a \in Attempts |->
                    IF a > 1 THEN "idle" ELSE IF s \in ok THEN "starting" ELSE "failing"]]
        /\ conn = [s \in Servers |-> [a \in Attempts |->
                    IF a = 1 /\ s \in ok THEN "connecting" ELSE "none"]]
        /\ tools = [table |-> [n \in Names |-> None], names |-> [s \in Servers |-> {}]]

(* What the manager does next by itself, once it can. *)
Resume(s, a) ==
    Reopen(s, a) \/ Connect(s, a) \/ StartFails(s, a) \/ GiveUp(s, a) \/ Finish(s, a)

External(s, a) == Handshake(s, a) \/ ListTools(s, a) \/ Refuse(s, a) \/ Die(s, a)

Next ==
    \/ attachMcpTools
    \/ shutdown
    \/ \E s \in Servers : reconnect(s)
    \/ \E s \in Servers, a \in Attempts : Resume(s, a) \/ TimeOut(s, a) \/ External(s, a)

(* Awaited promises settle and the timer of a start fires; a server owes    *)
(* nothing.                                                                 *)
Fairness ==
    \A s \in Servers, a \in Attempts : WF_vars(Resume(s, a)) /\ WF_vars(TimeOut(s, a))

Spec == Init /\ [][Next]_vars /\ Fairness

-----------------------------------------------------------------------------
(* Properties                                                              *)

Open(s, a) == conn[s][a] \notin {"none", "closed"}

(* Whatever the order of reconnects, answers, timeouts and the shutdown, a  *)
(* client that has not been closed is the one the entry holds: no attempt   *)
(* leaves a process or a connection behind, none lives on after the         *)
(* session, and a server never has two.                                     *)
NoOrphanClient ==
    \A s \in Servers, a \in Attempts : Open(s, a) => ~shut /\ client[s] = a /\ isCurrent(s, a)

Settled(s) == \A a \in Attempts : at[s][a] \in {"idle", "done"}

(* Names under which a server offers a tool, or its authenticate tool, and   *)
(* another one its authenticate tool.  Sanitising maps several server names  *)
(* to one, and an authenticate tool is set without a look at who holds the   *)
(* name: the last one set is offered, and the end of either removes it.      *)
Disputed ==
    {n \in Names : \E s, r \in Servers :
        s # r /\ n = AuthTool[s] /\ n \in Offers[r] \union {AuthTool[r]}}

HeldByAnother(n, s) == \E r \in Servers \ {s} : n \in Offers[r]

Shown(s) == {n \in Names \ Disputed : tools.table[n] # None /\ tools.table[n].server = s}

(* When no attempt of a server is under way, the tools the agent offers     *)
(* from it are those of the client that is connected now and alive, all of  *)
(* them that no other server offers too; or its authenticate tool; or none. *)
(* A late answer of an older attempt, a close nobody listened for yet, an   *)
(* agent that attached late and another server's collision change nothing,  *)
(* except that nothing is said of disputed names.                           *)
ToolsFollowStatus ==
    (attached /\ ~shut) => \A s \in Servers : Settled(s) =>
        CASE status[s] = "connected" ->
                  /\ client[s] # None /\ conn[s][client[s]] = "listed"
                  /\ \A n \in Shown(s) : n \in Offers[s] /\ tools.table[n].by = client[s]
                  /\ \A n \in Offers[s] \ (Shown(s) \union Disputed) : HeldByAnother(n, s)
          [] status[s] = "needs-auth" -> Shown(s) = {AuthTool[s]} \ Disputed
          [] OTHER -> status[s] = "failed" /\ Shown(s) = {}

(* The initial load, which the first step of a turn waits for, ends, and a  *)
(* server that is pending is told connected, failed or needs-auth in the    *)
(* end, or the session is over, whatever the servers do not answer.         *)
Settles ==
    \A s \in Servers :
        /\ <>(at[s][1] = "done")
        /\ status[s] = "pending" ~> (shut \/ (status[s] # "pending" /\ Settled(s)))

=============================================================================
