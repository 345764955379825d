---------------------------- MODULE ToolScheduler ----------------------------
(***************************************************************************)
(* The execution scheduler for the tool calls of one model step            *)
(* (packages/agent-core/src/loop/tool-scheduler.ts).                       *)
(*                                                                         *)
(* A task is named by its position in the order of `add`, which is the     *)
(* provider order of the calls.  queuedTasks is only ever appended to by   *)
(* `add` and filtered by `startQueuedTasks`, so it is always sorted by     *)
(* that position and is kept as a set; activeTasks is searched and spliced *)
(* by identity, so it is a set as well.                                    *)
(*                                                                         *)
(* A task's result promise is settled in one microtask and `finish` runs   *)
(* in a later one, so that other tasks may be added, settled or finished   *)
(* in between: Settle and Finish are two actions.                          *)
(***************************************************************************)
EXTENDS ToolAccess, FiniteSets

CONSTANTS
    Access,     \* the access lists tasks may declare
    MaxTasks    \* bound: how many tasks one step adds

ASSUME SchedulerAssumption ==
    /\ Access \subseteq ToolAccesses
    /\ MaxTasks \in Nat

VARIABLES
    accesses,     \* accesses[t]: task t's declared accesses; one per added task
    activeTasks,  \* tasks started whose `finish` has not run
    queuedTasks,  \* tasks added and not started
    result        \* result[t]: the state of task t's result promise

vars == <<accesses, activeTasks, queuedTasks, result>>

Settlements == {"resolved", "rejected"}

Tasks == DOMAIN accesses

TypeOK ==
    /\ accesses \in Seq(Access)
    /\ Len(accesses) <= MaxTasks
    /\ activeTasks \subseteq Tasks
    /\ queuedTasks \subseteq Tasks
    /\ result \in [Tasks -> {"pending"} \cup Settlements]

-----------------------------------------------------------------------------
ConflictsWithAny(acc, candidates) ==
    \E c \in candidates : Conflict(acc, accesses[c])

\* Mutant: a new task is held back by the queue only.
IsBlocked_IgnoringActive(acc, active, queuedBefore) ==
    ConflictsWithAny(acc, queuedBefore)

IsBlocked(acc, active, queuedBefore) ==
    \/ ConflictsWithAny(acc, active)
    \/ ConflictsWithAny(acc, queuedBefore)

\* startQueuedTasks: the queue is scanned in order, and a task that is not
\* blocked starts.  When t is looked at, every task queued before it has
\* either just been started (it is active) or is still queued, so t is
\* blocked exactly when it conflicts with a task active before the scan or
\* with any task queued before it.
StillQueued(active) ==
    {t \in queuedTasks :
        IsBlocked(accesses[t], active, {u \in queuedTasks : u < t})}

Init ==
    /\ accesses = << >>
    /\ activeTasks = {}
    /\ queuedTasks = {}
    /\ result = << >>

\* Mutant: a new task overtakes those it should wait behind.
Add_PastQueue(acc) ==
    LET t == Len(accesses) + 1 IN
    /\ Len(accesses) < MaxTasks
    /\ accesses' = Append(accesses, acc)
    /\ result' = Append(result, "pending")
    /\ IF ConflictsWithAny(acc, activeTasks)
       THEN /\ queuedTasks' = queuedTasks \cup {t}
            /\ UNCHANGED activeTasks
       ELSE /\ activeTasks' = activeTasks \cup {t}
            /\ UNCHANGED queuedTasks

\* add: queue the task behind what it conflicts with, or start it at once.
Add(acc) ==
    LET t == Len(accesses) + 1 IN
    /\ Len(accesses) < MaxTasks
    /\ accesses' = Append(accesses, acc)
    /\ result' = Append(result, "pending")
    /\ IF IsBlocked(acc, activeTasks, queuedTasks)
       THEN /\ queuedTasks' = queuedTasks \cup {t}
            /\ UNCHANGED activeTasks
       ELSE /\ activeTasks' = activeTasks \cup {t}
            /\ UNCHANGED queuedTasks

\* The promise of a started task settles (start, lines 75-77).
Settle(t) ==
    /\ t \in activeTasks
    /\ result[t] = "pending"
    /\ \E outcome \in Settlements : result' = [result EXCEPT ![t] = outcome]
    /\ UNCHANGED <<accesses, activeTasks, queuedTasks>>

\* Mutant: the queue is not scanned.
Finish_NoScan(t) ==
    /\ t \in activeTasks
    /\ result[t] # "pending"
    /\ activeTasks' = activeTasks \ {t}
    /\ UNCHANGED <<accesses, queuedTasks, result>>

\* finish: leave the active list, then start what is no longer blocked.
Finish(t) ==
    /\ t \in activeTasks
    /\ result[t] # "pending"
    /\ LET active == activeTasks \ {t}
           still  == StillQueued(active)
       IN  /\ activeTasks' = active \cup (queuedTasks \ still)
           /\ queuedTasks' = still
    /\ UNCHANGED <<accesses, result>>

Next ==
    \/ \E acc \in Access : Add(acc)
    \/ \E t \in Tasks : Settle(t) \/ Finish(t)

\* Fairness is left to the batch that uses the scheduler (ToolCallBatch).
Behavior == Init /\ [][Next]_vars

-----------------------------------------------------------------------------
(* Properties *)

\* Tasks that run at the same time never conflict: two writers of one file, a
\* writer under a tree being searched, or anything beside an undeclared
\* access, are never active together (header, "tasks with conflicting resource
\* accesses wait for the conflicting active tasks").
NoConflictingActive ==
    \A t, u \in activeTasks : t # u => ~Conflict(accesses[t], accesses[u])

\* A task never overtakes an earlier task it conflicts with, whatever is
\* finished in between: at the moment it is active no such task is active or
\* queued (isBlocked looks at the queue as well as at the active tasks).
NoOvertaking ==
    \A t \in activeTasks : \A u \in activeTasks \cup queuedTasks :
        u < t => ~Conflict(accesses[t], accesses[u])

\* No wake-up is lost: a queued task waits for a reason, an earlier task it
\* conflicts with that is active or itself queued (startQueuedTasks runs in
\* every `finish` and looks at the whole queue).
NoStrandedTask ==
    \A t \in queuedTasks : \E u \in activeTasks \cup queuedTasks :
        u < t /\ Conflict(accesses[t], accesses[u])

\* A task is active, queued or finished, never two of them, and a queued task
\* has no result: nothing is started twice or settled without having run.
OncePerTask ==
    /\ activeTasks \cap queuedTasks = {}
    /\ \A t \in Tasks \ activeTasks :
            t \in queuedTasks <=> result[t] = "pending"

\* The scheduler keeps the order the abstract specification promises.
phase ==
    [t \in Tasks |->
        IF t \in activeTasks THEN "running"
        ELSE IF t \in queuedTasks THEN "waiting" ELSE "over"]

Order == INSTANCE ProviderOrder
    WITH Clash <- Conflict, declared <- accesses

ImplementsProviderOrder == Order!Spec
=============================================================================
