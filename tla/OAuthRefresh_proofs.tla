------------------------- MODULE OAuthRefresh_proofs -------------------------
(***************************************************************************)
(* For any number of processes, tokens, retries and crashes: the stored    *)
(* token stays one the server accepts, a caller that had its token         *)
(* rejected never gets it back, a stored token is given up only when the   *)
(* server would refuse it, and the processes, seen from outside, are the   *)
(* one client of TokenClient.                                              *)
(***************************************************************************)
EXTENDS OAuthRefresh, TLAPS

Section == {"request", "save", "recover", "tombstone", "release"}

RefRecord ==
    [pc : Section \cup {"idle", "lock", "settle"}, force : BOOLEAN, forced : BOOLEAN,
     token : Tokens \cup {None, Missing, Revoked}, active : Tokens \cup {None},
     tries : 0..(MaxTries - 1), result : Tokens \cup {None, Error}]

Typing ==
    /\ file \in Tokens \cup {Missing, Revoked}
    /\ lock \in Procs \cup {None, Stale}
    /\ granted \in Tokens /\ live \subseteq 1..granted
    /\ expiring \in BOOLEAN /\ mishap \in BOOLEAN /\ withdrawn \in BOOLEAN
    /\ file \in Tokens => file <= granted
    /\ ref \in [Procs -> RefRecord]

\* The lock file: whoever is between its creation and its removal is its holder.
LockHeld == \A p \in Procs : ref[p].pc \in Section => lock = p

\* What a refresh knows: the token it set out from and the one it presents are tokens
\* the server has granted; a forced one presents the token its caller rejected, and gets
\* another; a token that was refused is one the server will not take again.
Informed ==
    \A p \in Procs :
        LET r == ref[p] IN
        /\ r.forced = r.force
        /\ r.pc \in {"lock", "request", "recover", "save"} => r.token \in 1..granted
        /\ r.pc \in {"request", "recover"} =>
               r.active \in 1..granted /\ (r.forced => r.active = r.token)
        /\ r.pc = "recover" => r.active \notin live
        /\ r.pc = "save" => r.result \in 1..granted /\ r.result # r.token
        /\ r.pc \in {"settle", "release"} /\ r.forced /\ r.result # Error
               => r.result # r.token

\* As long as nothing excepted has happened, no refresh is refused, and the token about
\* to be saved is the one the server just granted.
Kept ==
    \/ mishap \/ withdrawn
    \/ /\ \A p \in Procs :
             /\ ref[p].pc = "request" => ref[p].active \in live
             /\ ref[p].pc = "save" => ref[p].result \in live
             /\ ref[p].pc \notin {"recover", "tombstone"}
       /\ file \in live \/ \E p \in Procs : ref[p].pc = "save"

\* The inductive invariant.
OAuthInv == Typing /\ LockHeld /\ Informed /\ Kept

LEMMA InitOAuthInv == Init => OAuthInv
<1>. SUFFICES ASSUME Init
              PROVE  OAuthInv
  OBVIOUS
<1>. USE OAuthAssumption DEF Init, Tokens
<1>1. NoRefresh \in RefRecord /\ NoRefresh.pc = "idle" /\ NoRefresh.forced = NoRefresh.force
  BY DEF NoRefresh, RefRecord
<1>2. Typing
  <2>1. 1 \in Tokens /\ {1} \subseteq 1..1
    OBVIOUS
  <2>2. ref \in [Procs -> RefRecord]
    BY <1>1
  <2>3. mishap \in BOOLEAN /\ withdrawn \in BOOLEAN /\ expiring \in BOOLEAN
    OBVIOUS
  <2>4. live \subseteq 1..granted /\ file <= granted
    OBVIOUS
  <2>. QED
    BY <2>1, <2>2, <2>3, <2>4 DEF Typing
<1>3. LockHeld /\ Informed /\ Kept
  BY <1>1 DEF LockHeld, Informed, Kept, Section
<1>. QED
  BY <1>2, <1>3 DEF OAuthInv

LEMMA BeginKeeps ==
    ASSUME OAuthInv, NEW p \in Procs, NEW force \in BOOLEAN, Begin(p, force),
           ref[p].pc = "idle",
           UNCHANGED <<file, lock, granted, live, expiring, mishap, withdrawn>>
    PROVE  OAuthInv'
<1> DEFINE new == ref'[p]
<1>1. /\ ref' = [ref EXCEPT ![p] = new] /\ new \in RefRecord
      /\ new.forced = new.force
      /\ new.pc = "lock" => new.token = file /\ file \in Tokens
      /\ new.pc = "settle" /\ new.forced => new.result = Error
      /\ new.pc \in {"lock", "settle"}
  <2>1. ref \in [Procs -> RefRecord] /\ file \in Tokens \cup {Missing, Revoked}
    BY DEF OAuthInv, Typing
  <2>2. 0 \in 0..(MaxTries - 1)
    BY OAuthAssumption
  <2>3. CASE IsValid(file) /\ shouldRefreshToken(force)
    <3>1. new = [NoRefresh EXCEPT !.pc = "lock", !.force = force, !.forced = force,
                                  !.token = file]
      BY <2>1, <2>3 DEF Begin, Step
    <3>. HIDE DEF new
    <3>2. new \in RefRecord /\ new.pc = "lock" /\ new.token = file /\ new.forced = new.force
      BY <2>1, <2>2, <3>1 DEF NoRefresh, RefRecord
    <3>. QED
      BY <2>1, <2>3, <3>2 DEF Begin, Step, IsValid, new
  <2>4. CASE ~(IsValid(file) /\ shouldRefreshToken(force))
    <3>1. new = [NoRefresh EXCEPT !.pc = "settle", !.force = force, !.forced = force,
                                  !.token = file,
                                  !.result = IF IsValid(file) THEN file ELSE Error]
      BY <2>1, <2>4 DEF Begin, Step
    <3>. HIDE DEF new
    <3>2. /\ new \in RefRecord /\ new.pc = "settle" /\ new.forced = new.force
          /\ new.forced => new.result = Error
      BY <2>1, <2>2, <2>4, <3>1 DEF NoRefresh, RefRecord, IsValid, shouldRefreshToken
    <3>. QED
      BY <2>1, <2>4, <3>2 DEF Begin, Step, new
  <2>. QED
    BY <2>3, <2>4
<1>. HIDE DEF new
<1>2. Typing'
  BY <1>1 DEF OAuthInv, Typing
<1>3. \A q \in Procs : ref'[q] = IF q = p THEN new ELSE ref[q]
  BY <1>1 DEF OAuthInv, Typing
<1>4. LockHeld'
  BY <1>1, <1>3 DEF OAuthInv, LockHeld, Section
<1>5. Informed'
  BY <1>1, <1>3 DEF OAuthInv, Informed, Typing, Tokens
<1>6. Kept'
  BY <1>1, <1>3 DEF OAuthInv, Kept
<1>. QED
  BY <1>2, <1>4, <1>5, <1>6 DEF OAuthInv
\* What Step does to the processes.
LEMMA StepFacts ==
    ASSUME OAuthInv, NEW p \in Procs, NEW new \in RefRecord, Step(p, new)
    PROVE  /\ ref' \in [Procs -> RefRecord]
           /\ ref'[p] = new /\ \A q \in Procs \ {p} : ref'[q] = ref[q]
BY DEF Step, OAuthInv, Typing

\* A process in the critical section is alone there.
LEMMA Alone ==
    ASSUME OAuthInv, NEW p \in Procs, ref[p].pc \in Section, NEW q \in Procs \ {p}
    PROVE  ref[q].pc \notin Section
BY DEF OAuthInv, LockHeld

\* A step of a process that changes none of the shared variables but the lock.
LEMMA LocalStep ==
    ASSUME OAuthInv, NEW p \in Procs, NEW new \in RefRecord, Step(p, new),
           UNCHANGED <<file, granted, live, expiring, mishap, withdrawn>>,
           lock' \in Procs \cup {None, Stale},
           \A q \in Procs \ {p} : ref[q].pc \in Section => lock' = lock,
           new.pc \in Section => lock' = p,
           new.forced = new.force,
           new.pc \in {"lock", "request", "recover", "save"} => new.token \in 1..granted,
           new.pc \in {"request", "recover"} =>
               new.active \in 1..granted /\ (new.forced => new.active = new.token),
           new.pc = "recover" => new.active \notin live,
           new.pc \in {"settle", "release"} /\ new.forced /\ new.result # Error
               => new.result # new.token,
           ref[p].pc # "save", new.pc # "save",
           \/ mishap \/ withdrawn
           \/ /\ new.pc = "request" => new.active \in live
              /\ new.pc \notin {"recover", "tombstone"}
    PROVE  OAuthInv'
<1>1. /\ ref' \in [Procs -> RefRecord]
      /\ ref'[p] = new /\ \A q \in Procs \ {p} : ref'[q] = ref[q]
  BY StepFacts
<1>2. Typing'
  BY <1>1 DEF OAuthInv, Typing
<1>3. LockHeld'
  BY <1>1 DEF OAuthInv, LockHeld
<1>4. Informed'
  BY <1>1 DEF OAuthInv, Informed
<1>5. Kept'
  BY <1>1 DEF OAuthInv, Kept
<1>. QED
  BY <1>2, <1>3, <1>4, <1>5 DEF OAuthInv

\* To, the record a process leaves a stage with.
LEMMA ToFacts ==
    ASSUME NEW r \in RefRecord, NEW pc \in Section, NEW result \in Tokens \cup {None, Error}
    PROVE  /\ To(r, pc, result) \in RefRecord
           /\ To(r, pc, result).pc = pc /\ To(r, pc, result).result = result
           /\ To(r, pc, result).token = r.token /\ To(r, pc, result).force = r.force
           /\ To(r, pc, result).forced = r.forced
<1>1. 0 \in 0..(MaxTries - 1)
  BY OAuthAssumption
<1>. QED
  BY <1>1 DEF RefRecord, To

\* The record of a process, spelled out.
LEMMA Current ==
    ASSUME OAuthInv, NEW p \in Procs
    PROVE  /\ ref[p] \in RefRecord /\ ref[p].forced = ref[p].force
           /\ ref[p].pc \in {"lock", "request", "recover", "save"} =>
                  ref[p].token \in 1..granted
           /\ granted \in Tokens /\ 1..granted \subseteq Tokens /\ live \subseteq 1..granted
BY OAuthAssumption DEF OAuthInv, Typing, Informed, Tokens

LEMMA AcquireKeeps ==
    ASSUME OAuthInv, NEW p \in Procs, acquireRefreshLock(p)
    PROVE  OAuthInv'
<1> DEFINE r == ref[p]
<1>1. /\ r.pc = "lock" /\ lock \in {None, Stale} /\ lock' = p /\ Reread(p)
      /\ UNCHANGED <<file, granted, live, expiring, mishap, withdrawn>>
  BY DEF acquireRefreshLock, UnchangedServer
<1>2. \A q \in Procs : ref[q].pc \notin Section
  BY <1>1, OAuthAssumption DEF OAuthInv, LockHeld
<1>3. /\ r \in RefRecord /\ r.token \in 1..granted /\ r.forced = r.force
      /\ 1..granted \subseteq Tokens /\ file \in Tokens \cup {Missing, Revoked}
      /\ file \in Tokens => file \in 1..granted
  BY <1>1, Current DEF OAuthInv, Typing, Tokens
<1>4. mishap \/ withdrawn \/ file \in live
  BY <1>2 DEF OAuthInv, Kept, Section
<1>5. live \subseteq Tokens /\ Missing \notin Tokens /\ Revoked \notin Tokens
  BY OAuthAssumption, Current DEF Tokens
<1>6. ASSUME NEW result \in Tokens \cup {Error}, Leave(p, result),
             r.forced /\ result # Error => result # r.token
      PROVE  OAuthInv'
  <2> DEFINE new == To(r, "release", result)
  <2>1. /\ new \in RefRecord /\ new.pc = "release" /\ new.result = result
        /\ new.token = r.token /\ new.force = r.force /\ new.forced = r.forced
    <3>1. result \in Tokens \cup {None, Error} /\ "release" \in Section
      BY DEF Section
    <3>. QED
      BY <1>3, <3>1, ToFacts
  <2>2. Step(p, new)
    BY <1>6 DEF Leave
  <2>. HIDE DEF new
  <2>. QED
    BY <1>1, <1>2, <1>3, <1>6, <2>1, <2>2, LocalStep DEF Section
<1>7. ASSUME NEW token \in 1..granted,
             Step(p, [r EXCEPT !.pc = "request", !.active = token]),
             r.forced => token = r.token, mishap \/ withdrawn \/ token \in live
      PROVE  OAuthInv'
  <2> DEFINE new == [r EXCEPT !.pc = "request", !.active = token]
  <2>1. /\ new \in RefRecord /\ new.pc = "request" /\ new.active = token
        /\ new.token = r.token /\ new.force = r.force /\ new.forced = r.forced
    BY <1>3 DEF RefRecord, Section
  <2>2. Step(p, new)
    BY <1>7
  <2>. HIDE DEF new
  <2>. QED
    BY <1>1, <1>2, <1>3, <1>7, <2>1, <2>2, LocalStep DEF Section
<1>8. CASE file = Revoked /\ Leave(p, Error)
  BY <1>6, <1>8
<1>9. CASE file = Missing /\ Step(p, [r EXCEPT !.pc = "request", !.active = r.token])
  BY <1>3, <1>4, <1>5, <1>7, <1>9
<1>10. CASE /\ IsValid(file) /\ Leave(p, file)
            /\ ~shouldRefreshToken(r.force) \/ (r.force /\ file # r.token)
  BY <1>3, <1>6, <1>10 DEF IsValid, shouldRefreshToken
<1>11. CASE /\ IsValid(file) /\ Step(p, [r EXCEPT !.pc = "request", !.active = file])
            /\ ~(~shouldRefreshToken(r.force) \/ (r.force /\ file # r.token))
  BY <1>3, <1>4, <1>7, <1>11 DEF IsValid, shouldRefreshToken
<1>. QED
  BY <1>1, <1>8, <1>9, <1>10, <1>11 DEF Reread
\* The server grants a token to the only process in the critical section.
LEMMA GrantKeeps ==
    ASSUME OAuthInv, NEW p \in Procs, ref[p].pc = "request", Grant(p),
           NEW new \in RefRecord, Step(p, new), UNCHANGED <<file, lock>>,
           mishap' \in BOOLEAN,
           new.token = ref[p].token, new.forced = new.force, new.forced = ref[p].forced,
           \/ /\ mishap'
              /\ \/ new.pc = "request" /\ new.active = ref[p].active
                 \/ new.pc = "release" /\ new.result = Error
           \/ /\ mishap' = mishap
              /\ new.pc = "save" /\ new.result = granted + 1
    PROVE  OAuthInv'
<1>1. /\ ref' \in [Procs -> RefRecord]
      /\ ref'[p] = new /\ \A q \in Procs \ {p} : ref'[q] = ref[q]
  BY StepFacts
<1>2. \A q \in Procs \ {p} : ref[q].pc \notin Section
  BY Alone DEF Section
<1>3. /\ granted' = granted + 1 /\ granted' \in Tokens /\ granted \in Nat
      /\ live' = (live \ {ref[p].active}) \cup {granted + 1} /\ live \subseteq 1..granted
      /\ UNCHANGED <<expiring, withdrawn>>
  BY OAuthAssumption DEF Grant, Tokens, OAuthInv, Typing
<1>a. /\ 1..granted \subseteq 1..granted' /\ granted + 1 \in 1..granted'
      /\ granted + 1 \notin 1..granted
  BY <1>3
<1>4. Typing'
  <2>1. live' \subseteq 1..granted'
    <3>1. live' \subseteq live \cup {granted + 1} /\ live \subseteq 1..granted
      BY <1>3
    <3>. QED
      BY <1>a, <3>1
  <2>2. file' \in Tokens => file' <= granted'
    BY <1>3, OAuthAssumption DEF OAuthInv, Typing, Tokens
  <2>. QED
    BY <1>1, <1>3, <2>1, <2>2 DEF OAuthInv, Typing
<1>5. LockHeld'
  BY <1>1, <1>2 DEF OAuthInv, LockHeld, Section
<1>6. /\ ref[p].token \in 1..granted /\ ref[p].active \in 1..granted
      /\ ref[p].forced => ref[p].active = ref[p].token
  BY DEF OAuthInv, Informed
<1>7. Informed'
  <2> SUFFICES ASSUME NEW q \in Procs
               PROVE  LET r == ref'[q] IN
                      /\ r.forced = r.force
                      /\ r.pc \in {"lock", "request", "recover", "save"} =>
                             r.token \in 1..granted'
                      /\ r.pc \in {"request", "recover"} =>
                             r.active \in 1..granted' /\ (r.forced => r.active = r.token)
                      /\ r.pc = "recover" => r.active \notin live'
                      /\ r.pc = "save" => r.result \in 1..granted' /\ r.result # r.token
                      /\ r.pc \in {"settle", "release"} /\ r.forced /\ r.result # Error
                             => r.result # r.token
    BY DEF Informed
  <2>1. CASE q = p
    <3>1. new.token \in 1..granted' /\ ref'[q] = new
      BY <1>1, <1>6, <1>a, <2>1
    <3>2. CASE new.pc = "save" /\ new.result = granted + 1
      BY <1>a, <1>6, <3>1, <3>2
    <3>3. CASE new.pc = "request" /\ new.active = ref[p].active
      BY <1>a, <1>6, <3>1, <3>3
    <3>4. CASE new.pc = "release" /\ new.result = Error
      BY <3>1, <3>4
    <3>. QED
      BY <3>2, <3>3, <3>4
  <2>2. CASE q # p
    BY <1>1, <1>2, <1>3, <2>2 DEF OAuthInv, Informed, Section
  <2>. QED
    BY <2>1, <2>2
<1>8. Kept'
  BY <1>1, <1>2, <1>3 DEF OAuthInv, Kept, Section
<1>. QED
  BY <1>4, <1>5, <1>7, <1>8 DEF OAuthInv

LEMMA RequestKeeps ==
    ASSUME OAuthInv, NEW p \in Procs, Refreshed(p) \/ Refused(p) \/ RequestFails(p)
    PROVE  OAuthInv'
<1> DEFINE r == ref[p]
<1>1. /\ r \in RefRecord /\ r.pc = "request" /\ r.forced = r.force
      /\ r.token \in 1..granted /\ r.active \in 1..granted
      /\ r.forced => r.active = r.token
      /\ lock = p /\ \A q \in Procs \ {p} : ref[q].pc \notin Section
      /\ mishap \/ withdrawn \/ r.active \in live
  BY Current, Alone
  DEF Refreshed, Refused, RequestFails, OAuthInv, LockHeld, Informed, Kept, Section
<1>2. /\ mishap \in BOOLEAN /\ withdrawn \in BOOLEAN /\ UNCHANGED <<file, lock>>
      /\ lock \in Procs \cup {None, Stale}
  BY DEF OAuthInv, Typing, Refreshed, Refused, RequestFails
<1>3. CASE Refreshed(p)
  <2> DEFINE new == To(r, "save", granted + 1)
  <2>1. granted + 1 \in Tokens \cup {None, Error} /\ "save" \in Section
    BY <1>3, OAuthAssumption DEF Refreshed, Grant, OAuthInv, Typing, Tokens, Section
  <2>2. /\ new \in RefRecord /\ new.pc = "save" /\ new.result = granted + 1
        /\ new.token = r.token /\ new.force = r.force /\ new.forced = r.forced
    BY <1>1, <2>1, ToFacts
  <2>3. Step(p, new) /\ Grant(p) /\ mishap' = mishap
    BY <1>3 DEF Refreshed
  <2>. HIDE DEF new
  <2>. QED
    BY <1>1, <1>2, <2>2, <2>3, GrantKeeps
<1>4. CASE Refused(p)
  <2> DEFINE new == [r EXCEPT !.pc = "recover"]
  <2>1. /\ new \in RefRecord /\ new.pc = "recover" /\ new.active = r.active
        /\ new.token = r.token /\ new.force = r.force /\ new.forced = r.forced
    BY <1>1 DEF RefRecord, Section
  <2>2. /\ Step(p, new) /\ r.active \notin live
        /\ UNCHANGED <<file, granted, live, expiring, mishap, withdrawn>>
    BY <1>4 DEF Refused, UnchangedServer
  <2>. HIDE DEF new
  <2>. QED
    BY <1>1, <1>2, <2>1, <2>2, LocalStep
<1>5. CASE RequestFails(p)
  <2> DEFINE again == [r EXCEPT !.tries = @ + 1]
             over == To(r, "release", Error)
  <2>1. CASE r.tries + 1 < MaxTries /\ Step(p, again)
    <3>1. /\ again \in RefRecord /\ again.pc = "request" /\ again.active = r.active
          /\ again.token = r.token /\ again.force = r.force /\ again.forced = r.forced
      BY <1>1, <2>1, OAuthAssumption DEF RefRecord
    <3>. HIDE DEF again
    <3>2. CASE UnchangedServer /\ UNCHANGED mishap
      BY <1>1, <1>2, <2>1, <3>1, <3>2, LocalStep DEF UnchangedServer
    <3>3. CASE Grant(p) /\ mishap' = TRUE
      BY <1>1, <1>2, <2>1, <3>1, <3>3, GrantKeeps
    <3>. QED
      BY <1>5, <3>2, <3>3 DEF RequestFails
  <2>2. CASE Step(p, over)
    <3>1. Error \in Tokens \cup {None, Error} /\ "release" \in Section
      BY DEF Section
    <3>2. /\ over \in RefRecord /\ over.pc = "release" /\ over.result = Error
          /\ over.token = r.token /\ over.force = r.force /\ over.forced = r.forced
      BY <1>1, <3>1, ToFacts
    <3>. HIDE DEF over
    <3>3. CASE UnchangedServer /\ UNCHANGED mishap
      BY <1>1, <1>2, <2>2, <3>2, <3>3, LocalStep DEF UnchangedServer
    <3>4. CASE Grant(p) /\ mishap' = TRUE
      BY <1>1, <1>2, <2>2, <3>2, <3>4, GrantKeeps
    <3>. QED
      BY <1>5, <3>3, <3>4 DEF RequestFails
  <2>. QED
    BY <1>5, <2>1, <2>2 DEF RequestFails, Leave
<1>. QED
  BY <1>3, <1>4, <1>5
\* The two writes of the critical section: the granted token, or the tombstone.
LEMMA WriteKeeps ==
    ASSUME OAuthInv, NEW p \in Procs, Save(p) \/ Tombstone(p)
    PROVE  OAuthInv'
<1> DEFINE r == ref[p]
           result == IF Save(p) THEN r.result ELSE Error
           new == To(r, "release", result)
<1>1. /\ r \in RefRecord /\ r.pc \in {"save", "tombstone"} /\ r.forced = r.force
      /\ \A q \in Procs \ {p} : ref[q].pc \notin Section
      /\ r.pc = "save" => r.result \in 1..granted /\ r.result # r.token
      /\ r.pc = "tombstone" => mishap \/ withdrawn
      /\ mishap \/ withdrawn \/ (r.pc = "save" => r.result \in live)
      /\ 1..granted \subseteq Tokens
  BY Current, Alone DEF Save, Tombstone, OAuthInv, Informed, Kept, Section
<1>2. Save(p) => r.pc = "save"
  BY DEF Save
<1>3. /\ UNCHANGED <<lock, granted, live, mishap, withdrawn>> /\ Step(p, new)
      /\ file' = (IF r.pc = "save" THEN result ELSE Revoked) /\ expiring' = FALSE
      /\ r.pc = "save" => result = r.result
      /\ result \in Tokens \cup {None, Error}
  BY <1>1, <1>2 DEF Save, Tombstone, Store, Leave
<1>4. "release" \in Section
  BY DEF Section
<1>5. /\ new \in RefRecord /\ new.pc = "release" /\ new.result = result
      /\ new.token = r.token /\ new.force = r.force /\ new.forced = r.forced
  BY <1>1, <1>3, <1>4, ToFacts
<1>6. ~Save(p) => result = Error
  OBVIOUS
<1>7. r.pc = "tombstone" => result = Error
  BY <1>2, <1>6
<1>. HIDE DEF new, result
<1>8. /\ ref' \in [Procs -> RefRecord]
      /\ ref'[p] = new /\ \A q \in Procs \ {p} : ref'[q] = ref[q]
  BY <1>3, <1>5, StepFacts
<1>9. Typing'
  <2>1. file' \in Tokens \cup {Missing, Revoked} /\ (file' \in Tokens => file' <= granted)
    BY <1>1, <1>3, OAuthAssumption DEF OAuthInv, Typing, Tokens
  <2>. QED
    BY <1>3, <1>8, <2>1 DEF OAuthInv, Typing
<1>10. LockHeld'
  BY <1>1, <1>3, <1>5, <1>8 DEF OAuthInv, LockHeld, Section
<1>11. Informed'
  BY <1>1, <1>3, <1>5, <1>7, <1>8 DEF OAuthInv, Informed
<1>12. Kept'
  BY <1>1, <1>3, <1>5, <1>8 DEF OAuthInv, Kept, Section
<1>. QED
  BY <1>9, <1>10, <1>11, <1>12 DEF OAuthInv

LEMMA RecoverKeeps ==
    ASSUME OAuthInv, NEW p \in Procs, Recover(p)
    PROVE  OAuthInv'
<1> DEFINE r == ref[p]
<1>1. /\ r \in RefRecord /\ r.pc = "recover" /\ r.forced = r.force
      /\ r.forced => r.active = r.token
      /\ lock \in Procs \cup {None, Stale} /\ lock = p
      /\ mishap \/ withdrawn
      /\ UNCHANGED <<file, lock, granted, live, expiring, mishap, withdrawn>>
  BY Current
  DEF Recover, UnchangedServer, OAuthInv, Typing, Informed, Kept, LockHeld, Section
<1>2. ASSUME NEW pc \in {"release", "tombstone"}, NEW result \in Tokens \cup {Error},
             Step(p, To(r, pc, result)), r.forced /\ result # Error => result # r.token
      PROVE  OAuthInv'
  <2> DEFINE new == To(r, pc, result)
  <2>1. pc \in Section /\ result \in Tokens \cup {None, Error}
    BY DEF Section
  <2>2. /\ new \in RefRecord /\ new.pc = pc /\ new.result = result
        /\ new.token = r.token /\ new.force = r.force /\ new.forced = r.forced
    BY <1>1, <2>1, ToFacts
  <2>. HIDE DEF new
  <2>3. Step(p, new)
    BY <1>2 DEF new
  <2>. QED
    BY <1>1, <1>2, <2>2, <2>3, LocalStep
<1>3. CASE IsValid(file) /\ file # r.active /\ Leave(p, file)
  BY <1>1, <1>2, <1>3 DEF Leave, IsValid
<1>4. CASE Step(p, To(r, "tombstone", Error))
  BY <1>2, <1>4
<1>. QED
  BY <1>3, <1>4 DEF Recover

\* The ends of a refresh, and the death of its process.
LEMMA EndKeeps ==
    ASSUME OAuthInv, NEW p \in Procs, Release(p) \/ Settle(p) \/ AcquireFails(p)
    PROVE  OAuthInv'
<1>1. /\ NoRefresh \in RefRecord /\ NoRefresh.pc = "idle"
      /\ NoRefresh.forced = NoRefresh.force
  BY OAuthAssumption DEF NoRefresh, RefRecord
<1>2. lock \in Procs \cup {None, Stale} /\ ref[p].pc \in Section => lock = p
  BY DEF OAuthInv, Typing, LockHeld
<1>3. CASE Release(p)
  BY <1>1, <1>3, Alone, LocalStep DEF Release, UnchangedServer, Section
<1>4. CASE Settle(p)
  <2>1. lock \in Procs \cup {None, Stale}
    BY DEF OAuthInv, Typing
  <2>. QED
    BY <1>1, <1>4, <2>1, LocalStep DEF Settle, UnchangedServer, Section
<1>5. CASE AcquireFails(p)
  <2> DEFINE new == [ref[p] EXCEPT !.pc = "settle", !.result = Error]
  <2>1. /\ new \in RefRecord /\ new.pc = "settle" /\ new.result = Error
        /\ new.forced = new.force
    BY Current DEF RefRecord
  <2>2. /\ Step(p, new) /\ ref[p].pc = "lock"
        /\ UNCHANGED <<file, lock, granted, live, expiring, mishap, withdrawn>>
    BY <1>5 DEF AcquireFails, UnchangedServer
  <2>3. lock \in Procs \cup {None, Stale}
    BY DEF OAuthInv, Typing
  <2>. HIDE DEF new
  <2>. QED
    BY <2>1, <2>2, <2>3, LocalStep DEF Section
<1>. QED
  BY <1>3, <1>4, <1>5

LEMMA CrashKeeps ==
    ASSUME OAuthInv, NEW p \in Procs, Crash(p)
    PROVE  OAuthInv'
<1>1. /\ NoRefresh \in RefRecord /\ NoRefresh.pc = "idle"
      /\ NoRefresh.forced = NoRefresh.force
  BY OAuthAssumption DEF NoRefresh, RefRecord
<1>2. /\ ref' \in [Procs -> RefRecord]
      /\ ref'[p] = NoRefresh /\ \A q \in Procs \ {p} : ref'[q] = ref[q]
  BY <1>1, StepFacts DEF Crash
<1>3. /\ lock' = IF lock = p THEN Stale ELSE lock
      /\ mishap' = (mishap \/ ref[p].pc = "save")
      /\ UNCHANGED <<file, granted, live, expiring, withdrawn>>
  BY DEF Crash, UnchangedServer
<1>4. Typing'
  BY <1>2, <1>3 DEF OAuthInv, Typing
<1>5. LockHeld'
  BY <1>1, <1>2, <1>3 DEF OAuthInv, LockHeld, Section
<1>6. Informed'
  BY <1>1, <1>2, <1>3 DEF OAuthInv, Informed
<1>7. Kept'
  BY <1>1, <1>2, <1>3 DEF OAuthInv, Kept, Typing
<1>. QED
  BY <1>4, <1>5, <1>6, <1>7 DEF OAuthInv

\* The user, time and the server.
LEMMA WorldKeeps ==
    ASSUME OAuthInv, login \/ logout \/ Expire \/ Withdraw
    PROVE  OAuthInv'
<1>. USE OAuthAssumption DEF Tokens
<1>1. granted \in Nat /\ live \subseteq 1..granted
  BY DEF OAuthInv, Typing
<1>2. CASE login
  <2>1. /\ granted' = granted + 1 /\ granted' \in Tokens /\ live' = live \cup {granted + 1}
        /\ file' = granted + 1 /\ expiring' = FALSE
        /\ UNCHANGED <<lock, ref, mishap, withdrawn>>
    BY <1>1, <1>2 DEF login, Store
  <2>2. /\ 1..granted \subseteq 1..granted' /\ granted + 1 \in 1..granted'
        /\ granted + 1 \notin 1..granted
    BY <1>1, <2>1
  <2>3. Typing'
    <3>1. live' \subseteq 1..granted' /\ file' <= granted'
      BY <1>1, <2>1, <2>2
    <3>. QED
      BY <2>1, <3>1 DEF OAuthInv, Typing
  <2>4. Informed'
    BY <2>1, <2>2 DEF OAuthInv, Informed
  <2>5. LockHeld' /\ Kept'
    BY <2>1 DEF OAuthInv, LockHeld, Kept
  <2>. QED
    BY <2>3, <2>4, <2>5 DEF OAuthInv
<1>3. CASE logout
  BY <1>3 DEF logout, Store, OAuthInv, Typing, LockHeld, Informed, Kept
<1>4. CASE Expire
  BY <1>4 DEF Expire, OAuthInv, Typing, LockHeld, Informed, Kept
<1>5. CASE Withdraw
  BY <1>1, <1>5 DEF Withdraw, OAuthInv, Typing, LockHeld, Informed, Kept
<1>. QED
  BY <1>2, <1>3, <1>4, <1>5

LEMMA CallKeeps ==
    ASSUME OAuthInv, NEW p \in Procs,
           Requeued(p) \/ \E force \in BOOLEAN : ensureFresh(p, force)
    PROVE  OAuthInv'
<1>1. UNCHANGED <<file, lock, granted, live, expiring, mishap, withdrawn>>
  BY DEF Requeued, ensureFresh, UnchangedServer
<1>2. ASSUME NEW force \in BOOLEAN, Begin(p, force), ref[p].pc = "idle"
      PROVE  OAuthInv'
  BY <1>1, <1>2, BeginKeeps
<1>3. CASE ref' = ref
  BY <1>1, <1>3 DEF OAuthInv, Typing, LockHeld, Informed, Kept
<1>. QED
  BY <1>2, <1>3 DEF Requeued, ensureFresh

LEMMA NextOAuthInv == OAuthInv /\ [Next]_vars => OAuthInv'
<1>. SUFFICES ASSUME OAuthInv, [Next]_vars
              PROVE  OAuthInv'
  OBVIOUS
<1>1. ASSUME NEW p \in Procs, Proceed(p)
      PROVE  OAuthInv'
  BY <1>1, AcquireKeeps, RequestKeeps, WriteKeeps, RecoverKeeps, EndKeeps DEF Proceed
<1>2. CASE UNCHANGED vars
  BY <1>2 DEF vars, OAuthInv, Typing, LockHeld, Informed, Kept
<1>. QED
  BY <1>1, <1>2, CallKeeps, CrashKeeps, WorldKeeps DEF Next

\* What every step of the processes, the user and the server preserves.
THEOREM InductiveInvariant == Spec => []OAuthInv
BY InitOAuthInv, NextOAuthInv, PTL DEF Spec

\* OAuthManager under its lock: whatever processes refresh, sign in or die, the stored
\* token is one the server accepts, or its successor is about to be saved, and no process
\* presents a spent one; unless the user signed out, an answer was lost, a process died
\* before the save, or the server revoked a token.
THEOREM SessionIsKept == Spec => []SessionKept
<1>1. OAuthInv => SessionKept
  BY DEF OAuthInv, Kept, SessionKept
<1>. QED
  BY <1>1, InductiveInvariant, PTL

\* ensureFresh(force) and the reread under the lock: a caller that had its token rejected
\* gets another or an error, whatever refresh it joins or waits for.
THEOREM ForcedGetsNew == Spec => []ForcedIsNew
<1>1. OAuthInv => ForcedIsNew
  BY DEF OAuthInv, Informed, ForcedIsNew
<1>. QED
  BY <1>1, InductiveInvariant, PTL

\* No other step decides on a tombstone.
LEMMA OnlyRecoverCondemns ==
    ASSUME OAuthInv, Next, NEW p \in Procs,
           ref'[p].pc = "tombstone", ref[p].pc # "tombstone"
    PROVE  Recover(p)
<1>1. ref \in [Procs -> RefRecord] /\ ref'[p] # ref[p]
  BY DEF OAuthInv, Typing
<1>2. ASSUME NEW q \in Procs, NEW new, Step(q, new)
      PROVE  q = p /\ new.pc = "tombstone"
  BY <1>1, <1>2 DEF Step
<1>3. ~login /\ ~logout /\ ~Expire /\ ~Withdraw
  BY <1>1 DEF login, logout, Expire, Withdraw
<1>4. ASSUME NEW q \in Procs, NEW force \in BOOLEAN, Begin(q, force)
      PROVE  FALSE
  <2>1. /\ [NoRefresh EXCEPT !.pc = "lock", !.force = force, !.forced = force,
                              !.token = file].pc = "lock"
        /\ [NoRefresh EXCEPT !.pc = "settle", !.force = force, !.forced = force,
                              !.token = file,
                              !.result = IF IsValid(file) THEN file ELSE Error].pc
              = "settle"
    BY DEF NoRefresh
  <2>. QED
    BY <1>2, <1>4, <2>1 DEF Begin
<1>5. \A q \in Procs : ~Requeued(q) /\ \A force \in BOOLEAN : ~ensureFresh(q, force)
  BY <1>1, <1>4 DEF Requeued, ensureFresh
<1>6. \A q \in Procs : ~Crash(q) /\ ~Release(q) /\ ~Settle(q)
  <2>1. NoRefresh.pc = "idle"
    BY DEF NoRefresh
  <2>. QED
    BY <1>2, <2>1 DEF Crash, Release, Settle
<1>7. ASSUME NEW q \in Procs, NEW pc, NEW result, Step(q, To(ref[q], pc, result))
      PROVE  pc = "tombstone"
  <2>1. To(ref[q], pc, result).pc = pc
    BY <1>1 DEF RefRecord, To
  <2>. QED
    BY <1>2, <1>7, <2>1
<1>8. \A q \in Procs : \A result : ~Leave(q, result)
  BY <1>7 DEF Leave
<1>9. ASSUME NEW q \in Procs
      PROVE  ~AcquireFails(q) /\ ~Refused(q) /\ ~Refreshed(q)
  <2>1. /\ [ref[q] EXCEPT !.pc = "settle", !.result = Error].pc = "settle"
        /\ [ref[q] EXCEPT !.pc = "recover"].pc = "recover"
    BY <1>1 DEF RefRecord
  <2>. QED
    BY <1>2, <1>7, <2>1 DEF AcquireFails, Refused, Refreshed
<1>10. ASSUME NEW q \in Procs, acquireRefreshLock(q)
       PROVE  FALSE
  <2>1. \A token : [ref[q] EXCEPT !.pc = "request", !.active = token].pc = "request"
    BY <1>1 DEF RefRecord
  <2>. QED
    BY <1>2, <1>8, <1>10, <2>1 DEF acquireRefreshLock, Reread
<1>11. ASSUME NEW q \in Procs
       PROVE  ~RequestFails(q) /\ ~Save(q) /\ ~Tombstone(q)
  <2>1. [ref[q] EXCEPT !.tries = @ + 1].pc = ref[q].pc
    BY <1>1 DEF RefRecord
  <2>. QED
    BY <1>2, <1>8, <2>1 DEF RequestFails, Save, Tombstone
<1>12. PICK q \in Procs : Recover(q)
  BY <1>3, <1>5, <1>6, <1>9, <1>10, <1>11 DEF Next, Proceed
<1>13. \E new : Step(q, new)
  BY <1>12 DEF Recover, Leave
<1>. QED
  BY <1>2, <1>12, <1>13

\* The reread after a refusal: a tombstone is decided on only when the server would
\* refuse the stored token.
THEOREM GivenUpRightly == Spec => GivesUpRightly
<1>1. OAuthInv /\ [Next]_vars =>
         [\A p \in Procs :
            ref'[p].pc = "tombstone" /\ ref[p].pc # "tombstone" => file \notin live]_vars
  <2> SUFFICES ASSUME OAuthInv, Next, NEW p \in Procs,
                      ref'[p].pc = "tombstone", ref[p].pc # "tombstone"
               PROVE  file \notin live
    BY DEF vars
  <2>1. Recover(p)
    BY OnlyRecoverCondemns
  <2>3. ref[p].active \notin live /\ live \subseteq Tokens
    BY <2>1, Current DEF Recover, OAuthInv, Informed
  <2>4. CASE IsValid(file) /\ file # ref[p].active
    <3>1. Step(p, To(ref[p], "release", file))
      BY <2>1, <2>4 DEF Recover, Leave
    <3>2. ref'[p].pc = "release"
      BY <3>1 DEF Step, To, OAuthInv, Typing, RefRecord, Section
    <3>. QED
      BY <3>2
  <2>5. CASE ~(IsValid(file) /\ file # ref[p].active)
    BY <2>3, <2>5 DEF IsValid
  <2>. QED
    BY <2>4, <2>5
<1>. QED
  BY <1>1, InductiveInvariant, PTL DEF Spec, GivesUpRightly

\* The token file, the lock file and what every process remembers of its refresh stay
\* among the values the code can hold; a request is tried MaxTries times at most.
THEOREM TypeCorrect == Spec => []TypeOK
<1>1. OAuthInv => TypeOK
  <2>. SUFFICES ASSUME OAuthInv, NEW p \in Procs
                PROVE  /\ DOMAIN ref[p] = DOMAIN NoRefresh
                       /\ ref[p].tries \in 0..(MaxTries - 1)
                       /\ ref[p].active \in Tokens \cup {None}
    BY DEF OAuthInv, Typing, TypeOK
  <2>1. ref[p] \in RefRecord
    BY DEF OAuthInv, Typing
  <2>2. DOMAIN ref[p] = DOMAIN NoRefresh
    BY <2>1 DEF RefRecord, NoRefresh
  <2>. QED
    BY <2>1, <2>2 DEF RefRecord
<1>. QED
  BY <1>1, InductiveInvariant, PTL

-----------------------------------------------------------------------------
(* Many processes, one client *)

\* What one process shows of its refresh.
Shown(r) == IF Underway(r) THEN Presented(r) ELSE Client!Idle

\* While no other process is between reread and end, the client is the process that moves.
LEMMA OneMoves ==
    ASSUME NEW p \in Procs, \A q \in Procs \ {p} : ~Underway(ref[q]),
           \A q \in Procs \ {p} : ref'[q] = ref[q]
    PROVE  OneClient = Shown(ref[p]) /\ OneClient' = Shown(ref'[p])
<1>1. Busy = (IF Underway(ref[p]) THEN {p} ELSE {})
  BY DEF Busy
<1>2. Busy' = (IF Underway(ref'[p]) THEN {p} ELSE {})
  BY DEF Busy, Underway
<1>3. (CHOOSE q \in {p} : TRUE) = p
  OBVIOUS
<1>4. OneClient = Shown(ref[p])
  BY <1>1, <1>3 DEF OneClient, Shown, Client!Idle
<1>5. OneClient' = Shown(ref'[p])
  <2>1. CASE Underway(ref'[p])
    <3>1. Busy' = {p}
      BY <1>2, <2>1
    <3>2. OneClient' = Presented(ref'[p])
      BY <1>3, <3>1 DEF OneClient, Presented
    <3>. QED
      BY <2>1, <3>2 DEF Shown
  <2>2. CASE ~Underway(ref'[p])
    <3>1. Busy' = {}
      BY <1>2, <2>2
    <3>. QED
      BY <2>2, <3>1 DEF OneClient, Shown, Client!Idle
  <2>. QED
    BY <2>1, <2>2
<1>. QED
  BY <1>4, <1>5

\* A process that shows nothing before and after its step leaves the client alone.
LEMMA Unseen ==
    ASSUME NEW p \in Procs, ~Underway(ref[p]), ~Underway(ref'[p]),
           \A q \in Procs \ {p} : ref'[q] = ref[q]
    PROVE  OneClient' = OneClient
<1>1. Busy' = Busy
  BY DEF Busy, Underway
<1>2. CASE Busy = {}
  BY <1>1, <1>2 DEF OneClient
<1>3. CASE Busy # {}
  <2> DEFINE q == CHOOSE x \in Busy : TRUE
  <2>1. q \in Procs \ {p}
    BY <1>3 DEF Busy
  <2>2. ref'[q] = ref[q]
    BY <2>1
  <2>3. OneClient' = Presented(ref'[q])
    BY <1>1, <1>3 DEF OneClient, Presented
  <2>4. OneClient = Presented(ref[q])
    BY <1>3 DEF OneClient
  <2>. QED
    BY <2>2, <2>3, <2>4
<1>. QED
  BY <1>2, <1>3

LEMMA UnseenStep ==
    ASSUME OAuthInv, NEW p \in Procs, NEW new \in RefRecord, Step(p, new),
           ~Underway(ref[p]), ~Underway(new), UNCHANGED <<file, granted, live>>
    PROVE  UNCHANGED Client!vars
<1>1. ref'[p] = new /\ \A q \in Procs \ {p} : ref'[q] = ref[q]
  BY StepFacts
<1>2. OneClient' = OneClient
  BY <1>1, Unseen
<1>. QED
  BY <1>2 DEF Client!vars

LEMMA NoRefreshTyped == NoRefresh \in RefRecord /\ NoRefresh.pc = "idle"
BY OAuthAssumption DEF NoRefresh, RefRecord

\* Calls, and refreshes that end without a request.
LEMMA QuietIsUnseen ==
    ASSUME OAuthInv, NEW p \in Procs,
           \/ Requeued(p) \/ AcquireFails(p) \/ Release(p) \/ Settle(p)
           \/ \E force \in BOOLEAN : ensureFresh(p, force)
    PROVE  UNCHANGED Client!vars
<1>1. UNCHANGED <<file, granted, live>>
  BY DEF Requeued, AcquireFails, Release, Settle, ensureFresh, UnchangedServer
<1>2. ASSUME NEW force \in BOOLEAN, Begin(p, force), ref[p].pc = "idle"
      PROVE  UNCHANGED Client!vars
  <2>1. file \in Tokens \cup {Missing, Revoked} /\ 0 \in 0..(MaxTries - 1)
    BY OAuthAssumption DEF OAuthInv, Typing
  <2>2. ~Underway(ref[p])
    BY <1>2 DEF Underway
  <2>3. CASE IsValid(file) /\ shouldRefreshToken(force)
    <3> DEFINE new == [NoRefresh EXCEPT !.pc = "lock", !.force = force, !.forced = force,
                                        !.token = file]
    <3>1. new \in RefRecord /\ new.pc = "lock"
      BY <2>1 DEF NoRefresh, RefRecord
    <3>2. Step(p, new)
      BY <1>2, <2>3 DEF Begin
    <3>. HIDE DEF new
    <3>3. ~Underway(new)
      BY <3>1 DEF Underway
    <3>. QED
      BY <1>1, <2>2, <3>1, <3>2, <3>3, UnseenStep
  <2>4. CASE ~(IsValid(file) /\ shouldRefreshToken(force))
    <3> DEFINE new == [NoRefresh EXCEPT !.pc = "settle", !.force = force, !.forced = force,
                                        !.token = file,
                                        !.result = IF IsValid(file) THEN file ELSE Error]
    <3>1. new \in RefRecord /\ new.pc = "settle"
      BY <2>1 DEF NoRefresh, RefRecord, IsValid
    <3>2. Step(p, new)
      BY <1>2, <2>4 DEF Begin
    <3>. HIDE DEF new
    <3>3. ~Underway(new)
      BY <3>1 DEF Underway
    <3>. QED
      BY <1>1, <2>2, <3>1, <3>2, <3>3, UnseenStep
  <2>. QED
    BY <2>3, <2>4
<1>3. CASE ref' = ref
  BY <1>1, <1>3 DEF OneClient, Busy, Underway, Presented, Client!vars
<1>4. CASE Release(p) \/ Settle(p)
  <2>1. Step(p, NoRefresh) /\ ref[p].pc \in {"release", "settle"}
    BY <1>4 DEF Release, Settle
  <2>. QED
    BY <1>1, <2>1, NoRefreshTyped, UnseenStep DEF Underway
<1>5. CASE AcquireFails(p)
  <2> DEFINE new == [ref[p] EXCEPT !.pc = "settle", !.result = Error]
  <2>1. new \in RefRecord /\ new.pc = "settle"
    BY Current DEF RefRecord
  <2>2. Step(p, new) /\ ref[p].pc = "lock"
    BY <1>5 DEF AcquireFails
  <2>. HIDE DEF new
  <2>. QED
    BY <1>1, <2>1, <2>2, UnseenStep DEF Underway
<1>. QED
  BY <1>2, <1>3, <1>4, <1>5 DEF Requeued, ensureFresh

\* The reread under the lock chooses the token to present.
LEMMA AcquireIsClient ==
    ASSUME OAuthInv, NEW p \in Procs, acquireRefreshLock(p)
    PROVE  Client!Present \/ UNCHANGED Client!vars
<1> DEFINE r == ref[p]
<1>1. r.pc = "lock" /\ lock \in {None, Stale} /\ Reread(p) /\ UNCHANGED <<file, granted, live>>
  BY DEF acquireRefreshLock, UnchangedServer
<1>2. \A q \in Procs : ~Underway(ref[q])
  BY <1>1, OAuthAssumption DEF OAuthInv, LockHeld, Underway, Section
<1>3. /\ r \in RefRecord /\ r.token \in 1..granted /\ 1..granted \subseteq Tokens
      /\ file \in Tokens \cup {Missing, Revoked} /\ (file \in Tokens => file \in 1..granted)
  BY <1>1, Current DEF OAuthInv, Typing, Tokens
<1>4. ASSUME NEW result \in Tokens \cup {Error}, Leave(p, result)
      PROVE  UNCHANGED Client!vars
  <2> DEFINE new == To(r, "release", result)
  <2>1. "release" \in Section /\ result \in Tokens \cup {None, Error}
    BY DEF Section
  <2>2. new \in RefRecord /\ new.pc = "release"
    BY <1>3, <2>1, ToFacts
  <2>3. Step(p, new)
    BY <1>4 DEF Leave
  <2>. HIDE DEF new
  <2>4. ~Underway(new)
    BY <2>2 DEF Underway
  <2>. QED
    BY <1>1, <1>2, <2>2, <2>3, <2>4, UnseenStep
<1>5. ASSUME NEW token \in 1..granted, file \in {token, Missing},
             Step(p, [r EXCEPT !.pc = "request", !.active = token])
      PROVE  Client!Present
  <2> DEFINE new == [r EXCEPT !.pc = "request", !.active = token]
  <2>1. new \in RefRecord /\ new.pc = "request" /\ new.active = token
    BY <1>3 DEF RefRecord, Section
  <2>2. Step(p, new)
    BY <1>5
  <2>. HIDE DEF new
  <2>3. ref'[p] = new /\ \A q \in Procs \ {p} : ref'[q] = ref[q]
    BY <2>1, <2>2, StepFacts
  <2>4. OneClient = Shown(ref[p]) /\ OneClient' = Shown(new)
    BY <1>2, <2>3, OneMoves
  <2>5. Shown(new) = [at |-> "request", token |-> token] /\ Shown(ref[p]).at = "idle"
    BY <1>2, <2>1 DEF Shown, Underway, Presented, Client!Idle
  <2>. QED
    BY <1>1, <1>5, <2>4, <2>5 DEF Client!Present, Client!Goto, Client!Server
<1>6. CASE file = Revoked /\ Leave(p, Error)
  BY <1>4, <1>6
<1>7. CASE file = Missing /\ Step(p, [r EXCEPT !.pc = "request", !.active = r.token])
  BY <1>3, <1>5, <1>7
<1>8. CASE IsValid(file) /\ Leave(p, file)
  BY <1>4, <1>8 DEF IsValid
<1>9. CASE IsValid(file) /\ Step(p, [r EXCEPT !.pc = "request", !.active = file])
  BY <1>3, <1>5, <1>9 DEF IsValid
<1>. QED
  BY <1>1, <1>6, <1>7, <1>8, <1>9 DEF Reread

\* The process between reread and end moves: it is the client.
LEMMA ClientMoves ==
    ASSUME OAuthInv, NEW p \in Procs, Underway(ref[p]), NEW new \in RefRecord, Step(p, new)
    PROVE  OneClient = Presented(ref[p]) /\ OneClient' = Shown(new)
<1>1. ref'[p] = new /\ \A q \in Procs \ {p} : ref'[q] = ref[q]
  BY StepFacts
<1>2. ref[p].pc \in Section
  BY DEF Underway, Section
<1>3. \A q \in Procs \ {p} : ~Underway(ref[q])
  BY <1>2, Alone DEF Underway, Section
<1>4. OneClient = Shown(ref[p]) /\ OneClient' = Shown(ref'[p])
  BY <1>1, <1>3, OneMoves
<1>. QED
  BY <1>1, <1>4 DEF Shown

\* What is shown of a record that To makes.
LEMMA ToShown ==
    ASSUME OAuthInv, NEW p \in Procs, NEW pc \in Section, NEW result \in Tokens \cup {None, Error}
    PROVE  /\ To(ref[p], pc, result) \in RefRecord
           /\ pc = "release" => Shown(To(ref[p], pc, result)) = Client!Idle
           /\ pc = "save" => Shown(To(ref[p], pc, result)) = [at |-> "save", token |-> result]
           /\ pc = "tombstone" =>
                  Shown(To(ref[p], pc, result)) = [at |-> "tombstone", token |-> None]
<1> DEFINE new == To(ref[p], pc, result)
<1>1. new \in RefRecord /\ new.pc = pc /\ new.result = result
  BY Current, ToFacts
<1>. HIDE DEF new
<1>2. /\ pc = "release" => Shown(new) = Client!Idle
      /\ pc = "save" => Shown(new) = [at |-> "save", token |-> result]
      /\ pc = "tombstone" => Shown(new) = [at |-> "tombstone", token |-> None]
  BY <1>1 DEF Shown, Underway, Presented
<1>. QED
  BY <1>1, <1>2 DEF new

\* The server answers, or does not.
LEMMA RequestIsClient ==
    ASSUME OAuthInv, NEW p \in Procs, Refreshed(p) \/ Refused(p) \/ RequestFails(p)
    PROVE  \/ Client!Refreshed \/ Client!Refused \/ Client!AnswerLost \/ Client!GiveUp
           \/ UNCHANGED Client!vars
<1> DEFINE r == ref[p]
<1>1. r.pc = "request" /\ r \in RefRecord /\ Underway(r) /\ file' = file
  BY Current DEF Refreshed, Refused, RequestFails, Underway
<1>2. Presented(r) = [at |-> "request", token |-> r.active]
  BY <1>1 DEF Presented
<1>3. granted + 1 \in Tokens \/ ~Grant(p)
  BY OAuthAssumption DEF Grant, OAuthInv, Typing, Tokens
<1>4. CASE Refreshed(p)
  <2>1. granted + 1 \in Tokens \cup {None, Error} /\ "save" \in Section
    BY <1>3, <1>4 DEF Refreshed, Section
  <2>2. Step(p, To(r, "save", granted + 1))
    BY <1>4 DEF Refreshed
  <2>3. OneClient = Presented(r) /\ OneClient' = [at |-> "save", token |-> granted + 1]
    BY <1>1, <2>1, <2>2, ToShown, ClientMoves
  <2>. QED
    BY <1>1, <1>2, <1>4, <2>3 DEF Refreshed, Grant, Client!Refreshed, Client!Spend, Client!Goto
<1>5. CASE Refused(p)
  <2> DEFINE new == [r EXCEPT !.pc = "recover"]
  <2>1. new \in RefRecord /\ new.pc = "recover" /\ new.active = r.active
    BY <1>1 DEF RefRecord, Section
  <2>2. Step(p, new)
    BY <1>5 DEF Refused
  <2>. HIDE DEF new
  <2>3. OneClient = Presented(r) /\ OneClient' = Shown(new)
    BY <1>1, <2>1, <2>2, ClientMoves
  <2>4. Shown(new) = [at |-> "recover", token |-> r.active]
    BY <2>1 DEF Shown, Underway, Presented
  <2>. QED
    BY <1>1, <1>2, <1>5, <2>3, <2>4
    DEF Refused, UnchangedServer, Client!Refused, Client!Goto, Client!Server
<1>6. CASE RequestFails(p)
  <2>1. OneClient = Presented(r) /\ (OneClient' = OneClient \/ OneClient' = Client!Idle)
    <3>1. CASE r.tries + 1 < MaxTries /\ Step(p, [r EXCEPT !.tries = @ + 1])
      <4> DEFINE new == [r EXCEPT !.tries = @ + 1]
      <4>1. r.tries + 1 \in 0..(MaxTries - 1)
        BY <1>1, <3>1, OAuthAssumption DEF RefRecord
      <4>2. new \in RefRecord /\ new.pc = "request" /\ new.active = r.active
        BY <1>1, <4>1 DEF RefRecord
      <4>3. Step(p, new)
        BY <3>1
      <4>. HIDE DEF new
      <4>4. OneClient = Presented(r) /\ OneClient' = Shown(new)
        BY <1>1, <4>2, <4>3, ClientMoves
      <4>. QED
        BY <1>2, <4>2, <4>4 DEF Shown, Underway, Presented
    <3>2. CASE Leave(p, Error)
      <4>1. Step(p, To(r, "release", Error)) /\ "release" \in Section
            /\ Error \in Tokens \cup {None, Error}
        BY <3>2 DEF Leave, Section
      <4>. QED
        BY <1>1, <4>1, ToShown, ClientMoves
    <3>. QED
      BY <1>6, <3>1, <3>2 DEF RequestFails
  <2>2. CASE UnchangedServer
    BY <1>1, <1>2, <2>1, <2>2
    DEF UnchangedServer, Client!vars, Client!GiveUp, Client!Rest, Client!Server
  <2>3. CASE r.active \in live /\ Grant(p)
    BY <1>1, <1>2, <2>1, <2>3 DEF Grant, Client!AnswerLost, Client!Spend, Client!Rest
  <2>. QED
    BY <1>6, <2>2, <2>3 DEF RequestFails
<1>. QED
  BY <1>4, <1>5, <1>6

LEMMA WriteIsClient ==
    ASSUME OAuthInv, NEW p \in Procs, Save(p) \/ Tombstone(p)
    PROVE  Client!Save \/ Client!Condemn
<1> DEFINE r == ref[p]
           result == IF Save(p) THEN r.result ELSE Error
<1>1. /\ r \in RefRecord /\ Underway(r) /\ r.pc \in {"save", "tombstone"}
      /\ UNCHANGED <<granted, live>>
      /\ Step(p, To(r, "release", result))
  BY Current DEF Save, Tombstone, Leave, Underway
<1>2. "release" \in Section /\ result \in Tokens \cup {None, Error}
  BY <1>1 DEF Section, RefRecord
<1>3. OneClient = Presented(r) /\ OneClient' = Client!Idle
  <2>. HIDE DEF result
  <2>. QED
    BY <1>1, <1>2, ToShown, ClientMoves
<1>4. CASE Save(p)
  <2>1. Presented(r) = [at |-> "save", token |-> r.result] /\ file' = r.result
    BY <1>4 DEF Save, Store, Presented
  <2>. QED
    BY <1>1, <1>3, <2>1 DEF Client!Save, Client!Rest, Client!Server
<1>5. CASE Tombstone(p)
  <2>1. Presented(r) = [at |-> "tombstone", token |-> None] /\ file' = Revoked
    BY <1>5 DEF Tombstone, Store, Presented
  <2>. QED
    BY <1>1, <1>3, <2>1 DEF Client!Condemn, Client!Rest, Client!Server
<1>. QED
  BY <1>4, <1>5

LEMMA RecoverIsClient ==
    ASSUME OAuthInv, NEW p \in Procs, Recover(p)
    PROVE  Client!Recover
<1> DEFINE r == ref[p]
<1>1. /\ r \in RefRecord /\ r.pc = "recover" /\ Underway(r) /\ UNCHANGED <<file, granted, live>>
      /\ Presented(r) = [at |-> "recover", token |-> r.active]
  BY Current DEF Recover, UnchangedServer, Underway, Presented
<1>2. IsValid(file) <=> file \in 1..granted
  BY OAuthAssumption, Current DEF OAuthInv, Typing, IsValid, Tokens
<1>3. "release" \in Section /\ "tombstone" \in Section
  BY DEF Section
<1>4. CASE IsValid(file) /\ file # r.active
  <2>1. Step(p, To(r, "release", file)) /\ file \in Tokens \cup {None, Error}
    BY <1>4 DEF Recover, Leave, IsValid
  <2>2. OneClient = Presented(r) /\ OneClient' = Client!Idle
    BY <1>1, <1>3, <2>1, ToShown, ClientMoves
  <2>. QED
    BY <1>1, <1>2, <1>4, <2>2 DEF Client!Recover, Client!Rest, Client!Server
<1>5. CASE ~(IsValid(file) /\ file # r.active)
  <2>1. Step(p, To(r, "tombstone", Error)) /\ Error \in Tokens \cup {None, Error}
    BY <1>5 DEF Recover
  <2>2. OneClient = Presented(r) /\ OneClient' = [at |-> "tombstone", token |-> None]
    BY <1>1, <1>3, <2>1, ToShown, ClientMoves, ZenonT(60)
  <2>. QED
    BY <1>1, <1>2, <1>5, <2>2 DEF Client!Recover, Client!Goto, Client!Server
<1>. QED
  BY <1>4, <1>5

LEMMA CrashIsClient ==
    ASSUME OAuthInv, NEW p \in Procs, Crash(p)
    PROVE  Client!GiveUp \/ UNCHANGED Client!vars
<1>1. Step(p, NoRefresh) /\ UNCHANGED <<file, granted, live>>
  BY DEF Crash, UnchangedServer
<1>2. ~Underway(NoRefresh)
  BY NoRefreshTyped DEF Underway
<1>3. CASE Underway(ref[p])
  <2>1. OneClient = Presented(ref[p]) /\ OneClient' = Client!Idle
    BY <1>1, <1>2, <1>3, NoRefreshTyped, ClientMoves DEF Shown
  <2>2. Presented(ref[p]).at # "idle"
    BY <1>3 DEF Underway, Presented
  <2>. QED
    BY <1>1, <2>1, <2>2 DEF Client!GiveUp, Client!Rest, Client!Server
<1>4. CASE ~Underway(ref[p])
  BY <1>1, <1>2, <1>4, NoRefreshTyped, UnseenStep
<1>. QED
  BY <1>3, <1>4

LEMMA WorldIsClient ==
    ASSUME OAuthInv, login \/ logout \/ Expire \/ Withdraw
    PROVE  Client!login \/ Client!logout \/ Client!Withdraw \/ UNCHANGED Client!vars
<1>1. ref' = ref
  BY DEF login, logout, Expire, Withdraw
<1>2. OneClient' = OneClient
  BY <1>1 DEF OneClient, Busy, Underway, Presented
<1>3. CASE login
  BY <1>2, <1>3 DEF login, Store, Client!login
<1>4. CASE logout
  BY <1>2, <1>4 DEF logout, Store, Client!logout, Client!Server
<1>5. CASE Expire
  BY <1>2, <1>5 DEF Expire, Client!vars
<1>6. CASE Withdraw
  BY <1>2, <1>6 DEF Withdraw, Client!Withdraw
<1>. QED
  BY <1>3, <1>4, <1>5, <1>6

\* ensureFresh under the lock: however many processes refresh, sign in or die, and however
\* their steps interleave, the server and the token file see one client.
THEOREM RefinesTokenClient == Spec => ImplementsTokenClient
<1>1. Init => Client!Init
  <2>. SUFFICES ASSUME Init PROVE Client!Init
    OBVIOUS
  <2>1. \A p \in Procs : ref[p] = NoRefresh
    BY DEF Init
  <2>2. Busy = {}
    BY <2>1, NoRefreshTyped DEF Busy, Underway
  <2>. QED
    BY <2>2 DEF Init, OneClient, Client!Init, Client!Idle
<1>2. OAuthInv /\ [Next]_vars => [Client!Next]_(Client!vars)
  <2>. SUFFICES ASSUME OAuthInv, [Next]_vars
                PROVE  Client!Next \/ UNCHANGED Client!vars
    OBVIOUS
  <2>1. CASE UNCHANGED vars
    BY <2>1 DEF vars, OneClient, Busy, Underway, Presented, Client!vars
  <2>2. ASSUME NEW p \in Procs, Proceed(p)
        PROVE  Client!Next \/ UNCHANGED Client!vars
    BY <2>2, AcquireIsClient, RequestIsClient, WriteIsClient, RecoverIsClient, QuietIsUnseen
    DEF Proceed, Client!Next
  <2>3. ASSUME NEW p \in Procs, \/ Requeued(p) \/ Crash(p)
                                \/ \E force \in BOOLEAN : ensureFresh(p, force)
        PROVE  Client!Next \/ UNCHANGED Client!vars
    BY <2>3, QuietIsUnseen, CrashIsClient DEF Client!Next
  <2>4. CASE login \/ logout \/ Expire \/ Withdraw
    BY <2>4, WorldIsClient DEF Client!Next
  <2>. QED
    BY <2>1, <2>2, <2>3, <2>4 DEF Next
<1>. QED
  BY <1>1, <1>2, InductiveInvariant, PTL DEF Spec, ImplementsTokenClient, Client!Spec
=============================================================================
