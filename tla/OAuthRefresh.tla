---------------------------- MODULE OAuthRefresh ----------------------------
(***************************************************************************)
(* The account token: OAuthManager (packages/oauth/src/oauth-manager.ts)   *)
(* in several processes that share one token file and one lock file, and   *)
(* the authorization server, which gives each refresh token out once: a    *)
(* refresh spends it and grants the next.                                  *)
(*                                                                         *)
(* A token stands for its access and its refresh token; tokens are         *)
(* numbered as the server grants them.  Every token has a refresh token,   *)
(* and locking is configured (it is not on Windows).                       *)
(***************************************************************************)
EXTENDS Naturals, FiniteSets

CONSTANTS
    Procs,
    MaxTokens,    \* bound: tokens the server grants
    MaxTries,     \* attempts of refreshAccessToken, maxRetries
    MaxCrashes,   \* bound: processes that die
    None, Stale, Missing, Revoked, Error

ASSUME OAuthAssumption ==
    /\ MaxTokens \in Nat \ {0} /\ MaxTries \in Nat \ {0}
    /\ {None, Stale} \cap Procs = {}
    /\ {None, Missing, Revoked, Error} \cap 1..MaxTokens = {}

VARIABLES
    file,      \* the stored token, Missing, or the tombstone Revoked
    lock,      \* the process that holds the lock file; Stale when its holder died
    granted,   \* tokens granted so far
    live,      \* tokens the server would refresh
    expiring,  \* whether the stored token is within the refresh threshold of its end
    ref,       \* per process: the refresh in flight, inFlightRefresh
    queued,    \* per process: a forced call waits for a plain one in flight
    mishap,    \* history: an answer was lost, its receiver died, or the user signed out
    withdrawn, \* history: the server revoked a token
    crashes

vars == <<file, lock, granted, live, expiring, ref, queued, mishap, withdrawn, crashes>>

Tokens == 1..MaxTokens
IsValid(state) == state \in Tokens

NoRefresh == [pc |-> "idle", force |-> FALSE, forced |-> FALSE, token |-> None,
              active |-> None, tries |-> 0, result |-> None]

Init ==
    /\ file = 1 /\ granted = 1 /\ live = {1} /\ expiring = FALSE
    /\ lock = None
    /\ ref = [p \in Procs |-> NoRefresh]
    /\ queued = [p \in Procs |-> FALSE]
    /\ mishap = FALSE /\ withdrawn = FALSE /\ crashes = 0

-----------------------------------------------------------------------------
(* ensureFresh and its coalescing *)

shouldRefreshToken(force) == force \/ expiring

\* A write of the file: what is stored is fresh.
Store(state) == file' = state /\ expiring' = FALSE

Step(p, r) == ref' = [ref EXCEPT ![p] = r]
UnchangedServer == UNCHANGED <<granted, live, expiring, withdrawn>>

\* doEnsureFresh reads the file: the token needs no refresh, there is none, or the lock
\* is sought.  The answer of a call that needs no refresh settles a moment later.
Begin(p, force) ==
    Step(p, IF IsValid(file) /\ shouldRefreshToken(force)
            THEN [NoRefresh EXCEPT !.pc = "lock", !.force = force, !.forced = force,
                                   !.token = file]
            ELSE [NoRefresh EXCEPT !.pc = "settle", !.force = force, !.forced = force,
                                   !.token = file,
                                   !.result = IF IsValid(file) THEN file ELSE Error])

\* Mutant: every call joins the refresh in flight.
ensureFresh_JoinsAny(p, force) ==
    /\ IF ref[p].pc = "idle" THEN Begin(p, force)
       ELSE Step(p, [ref[p] EXCEPT !.forced = @ \/ force])
    /\ UNCHANGED <<file, lock, queued, mishap, crashes>> /\ UnchangedServer

\* A call starts a refresh, joins the one in flight, or, forced on top of a plain one,
\* waits for that to settle.
ensureFresh(p, force) ==
    /\ IF ref[p].pc = "idle" THEN Begin(p, force) /\ UNCHANGED queued
       ELSE IF force /\ ~ref[p].force
       THEN queued' = [queued EXCEPT ![p] = TRUE] /\ UNCHANGED ref
       ELSE UNCHANGED <<ref, queued>>
    /\ UNCHANGED <<file, lock, mishap, crashes>> /\ UnchangedServer

\* The plain refresh has settled: the queued call starts over.
Requeued(p) ==
    /\ queued[p] /\ ref[p].pc = "idle"
    /\ Begin(p, TRUE)
    /\ queued' = [queued EXCEPT ![p] = FALSE]
    /\ UNCHANGED <<file, lock, mishap, crashes>> /\ UnchangedServer

-----------------------------------------------------------------------------
(* The critical section *)

To(r, pc, result) == [r EXCEPT !.pc = pc, !.result = result, !.active = None, !.tries = 0]
Leave(p, result) == Step(p, To(ref[p], "release", result))

\* Mutant: the token read before the lock is refreshed, whatever the file says now.
Reread_Skipped(p) == Step(p, [ref[p] EXCEPT !.pc = "request", !.active = ref[p].token])

\* The file is read again under the lock.
Reread(p) ==
    LET r == ref[p]
    IN  \/ file = Revoked /\ Leave(p, Error)
        \/ file = Missing /\ Step(p, [r EXCEPT !.pc = "request", !.active = r.token])
        \/ /\ IsValid(file)
           /\ IF ~shouldRefreshToken(r.force) \/ (r.force /\ file # r.token)
              THEN Leave(p, file)
              ELSE Step(p, [r EXCEPT !.pc = "request", !.active = file])

\* Mutant: a lock whose holder waits for the server is taken for stale.
acquireRefreshLock_TakesOver(p) ==
    /\ ref[p].pc = "lock"
    /\ lock' = p
    /\ Reread(p)
    /\ UNCHANGED <<file, queued, mishap, crashes>> /\ UnchangedServer

\* The lock is free, or its holder has died and it has gone stale.
acquireRefreshLock(p) ==
    /\ ref[p].pc = "lock" /\ lock \in {None, Stale}
    /\ lock' = p
    /\ Reread(p)
    /\ UNCHANGED <<file, queued, mishap, crashes>> /\ UnchangedServer

\* The file to lock cannot be prepared, or the retries of the lock are used up.
AcquireFails(p) ==
    /\ ref[p].pc = "lock"
    /\ Step(p, [ref[p] EXCEPT !.pc = "settle", !.result = Error])
    /\ UNCHANGED <<file, lock, queued, mishap, crashes>> /\ UnchangedServer

\* The server handles a refresh: it spends a token and grants the next, or refuses.
Grant(p) ==
    /\ granted < MaxTokens
    /\ granted' = granted + 1
    /\ live' = (live \ {ref[p].active}) \cup {granted + 1}
    /\ UNCHANGED <<expiring, withdrawn>>

Refreshed(p) ==
    /\ ref[p].pc = "request" /\ ref[p].active \in live
    /\ Grant(p)
    /\ Step(p, To(ref[p], "save", granted + 1))
    /\ UNCHANGED <<file, lock, queued, mishap, crashes>>

Refused(p) ==
    /\ ref[p].pc = "request" /\ ref[p].active \notin live
    /\ Step(p, [ref[p] EXCEPT !.pc = "recover"])
    /\ UNCHANGED <<file, lock, queued, mishap, crashes>> /\ UnchangedServer

\* The request or its answer is lost, or the server cannot answer now: the same token is
\* presented again, until the tries are used up or an answer leaves no hope.
RequestFails(p) ==
    /\ ref[p].pc = "request"
    /\ \/ ref[p].tries + 1 < MaxTries /\ Step(p, [ref[p] EXCEPT !.tries = @ + 1])
       \/ Leave(p, Error)
    /\ \/ UnchangedServer /\ UNCHANGED mishap
       \/ ref[p].active \in live /\ Grant(p) /\ mishap' = TRUE
    /\ UNCHANGED <<file, lock, queued, crashes>>

Save(p) ==
    /\ ref[p].pc = "save"
    /\ Store(ref[p].result)
    /\ Leave(p, ref[p].result)
    /\ UNCHANGED <<lock, granted, live, queued, mishap, withdrawn, crashes>>

\* A moment after the refusal the file is read once more, for a token that was stored in
\* the meantime.
Recover(p) ==
    /\ ref[p].pc = "recover"
    /\ IF IsValid(file) /\ file # ref[p].active THEN Leave(p, file)
       ELSE Step(p, To(ref[p], "tombstone", Error))
    /\ UNCHANGED <<file, lock, queued, mishap, crashes>> /\ UnchangedServer

Tombstone(p) ==
    /\ ref[p].pc = "tombstone"
    /\ Store(Revoked)
    /\ Leave(p, Error)
    /\ UNCHANGED <<lock, granted, live, queued, mishap, withdrawn, crashes>>

\* finally: the lock is released, and the refresh settles.
Release(p) ==
    /\ ref[p].pc = "release"
    /\ lock' = None
    /\ Step(p, NoRefresh)
    /\ UNCHANGED <<file, queued, mishap, crashes>> /\ UnchangedServer

Settle(p) ==
    /\ ref[p].pc = "settle"
    /\ Step(p, NoRefresh)
    /\ UNCHANGED <<file, lock, queued, mishap, crashes>> /\ UnchangedServer

-----------------------------------------------------------------------------
(* The user, time, the server's own decisions, and crashes *)

\* login: the device flow ends with a token of a session of its own, stored without
\* the lock.
login ==
    /\ granted < MaxTokens
    /\ granted' = granted + 1 /\ live' = live \cup {granted + 1}
    /\ Store(granted + 1)
    /\ UNCHANGED <<lock, ref, queued, mishap, withdrawn, crashes>>

logout ==
    /\ Store(Missing) /\ mishap' = TRUE
    /\ UNCHANGED <<lock, granted, live, ref, queued, withdrawn, crashes>>

Expire ==
    /\ IsValid(file) /\ ~expiring
    /\ expiring' = TRUE
    /\ UNCHANGED <<file, lock, granted, live, ref, queued, mishap, withdrawn, crashes>>

\* The server revokes a token, once (a bound).
Withdraw ==
    /\ ~withdrawn /\ withdrawn' = TRUE
    /\ \E token \in live : live' = live \ {token}
    /\ UNCHANGED <<file, lock, granted, expiring, ref, queued, mishap, crashes>>

\* The process dies and another takes its place.
Crash(p) ==
    /\ crashes < MaxCrashes /\ ref[p].pc # "idle"
    /\ crashes' = crashes + 1
    /\ lock' = IF lock = p THEN Stale ELSE lock
    /\ mishap' = (mishap \/ ref[p].pc = "save")
    /\ Step(p, NoRefresh)
    /\ queued' = [queued EXCEPT ![p] = FALSE]
    /\ UNCHANGED file /\ UnchangedServer

Proceed(p) ==
    \/ acquireRefreshLock(p) \/ AcquireFails(p)
    \/ Refreshed(p) \/ Refused(p) \/ RequestFails(p) \/ Save(p) \/ Recover(p) \/ Tombstone(p)
    \/ Release(p) \/ Settle(p)

Next ==
    \/ \E p \in Procs :
           \/ \E force \in BOOLEAN : ensureFresh(p, force)
           \/ Requeued(p) \/ Proceed(p) \/ Crash(p)
    \/ login \/ logout \/ Expire \/ Withdraw

\* A refresh under way makes progress: files are read and written, requests are answered
\* or fail, and the attempts on the lock are limited.
Fairness == \A p \in Procs : WF_vars(Proceed(p))

Spec == Init /\ [][Next]_vars /\ Fairness

-----------------------------------------------------------------------------
(* Properties *)

TypeOK ==
    /\ file \in Tokens \cup {Missing, Revoked}
    /\ lock \in Procs \cup {None, Stale}
    /\ granted \in Tokens /\ live \subseteq 1..granted /\ expiring \in BOOLEAN
    /\ \A p \in Procs : /\ DOMAIN ref[p] = DOMAIN NoRefresh
                        /\ ref[p].tries \in 0..(MaxTries - 1)
                        /\ ref[p].active \in Tokens \cup {None}

\* However many processes refresh the token at once, and whenever the user signs in again,
\* the stored token is one the server accepts, except between a refresh and its save: no
\* process presents a token another one has spent, and none takes a spent token for a
\* revoked one.  Signing out, a lost answer and a crash before the save are excepted, and
\* so is a token the server itself revokes.
SessionKept ==
    \/ mishap \/ withdrawn
    \/ /\ \A p \in Procs : ref[p].pc = "request" => ref[p].active \in live
       /\ file \in live \/ \E p \in Procs : ref[p].pc = "save"

\* A process gives up on the stored token only when the server would refuse it: an answer
\* that concerned an older token, and a login or a refresh that came before it, never
\* condemn the token that is stored.
GivesUpRightly ==
    [][\A p \in Procs :
          ref'[p].pc = "tombstone" /\ ref[p].pc # "tombstone" => file \notin live]_vars

\* A caller that had its token rejected and asks for another by force never gets the
\* stored one back, not even by joining a refresh that found it good.
ForcedIsNew ==
    \A p \in Procs :
        ref[p].pc \in {"settle", "release"} /\ ref[p].forced /\ ref[p].result # Error
        => ref[p].result # ref[p].token

\* What the server and the token file see of a process, from the reread under the lock to
\* the end of its refresh, and of them all.
Underway(r) == r.pc \in {"request", "save", "recover", "tombstone"}

Presented(r) ==
    [at |-> r.pc,
     token |-> IF r.pc \in {"request", "recover"} THEN r.active
               ELSE IF r.pc = "save" THEN r.result ELSE None]

Busy == {p \in Procs : Underway(ref[p])}

OneClient ==
    IF Busy = {} THEN [at |-> "idle", token |-> None]
    ELSE Presented(ref[CHOOSE p \in Busy : TRUE])

Client == INSTANCE TokenClient WITH client <- OneClient

\* However many processes refresh, sign in or die, they are one client: never is a token
\* presented while the answer to another is awaited, stored or given up, and what is
\* presented is what is stored.
ImplementsTokenClient == Client!Spec

=============================================================================
