------------------------------- MODULE TaskPool -------------------------------
(***************************************************************************)
(* What a swarm of subagents promises, without its timers, its capacity    *)
(* and its attempts: every task is queued, attempted or has its one        *)
(* result; an attempt ends with a result or puts the task back, and is     *)
(* not repeated on the spot; the pool resolves when, and only when, every  *)
(* task has a result, unless it is cancelled, which reports the tasks      *)
(* without one as aborted, or rejects.  (The results of SubagentBatch.run, *)
(* packages/agent-core/src/session/subagent-batch.ts.)                     *)
(***************************************************************************)
CONSTANTS Tasks, Results, NoResult

VARIABLES
    phase,
    queued, attempted,   \* the tasks that wait, and those that are under way
    results

vars == <<phase, queued, attempted, results>>

Over == phase \in {"resolved", "rejected"}

Init ==
    /\ phase = "created"
    /\ queued = Tasks /\ attempted = {}
    /\ results = [t \in Tasks |-> NoResult]

\* The pool is left with the results r, the tasks in rest under way, and those in back
\* waiting again; some that waited before are attempted.
Pass(r, rest, back) ==
    /\ results' = r
    /\ IF \A t \in Tasks : r[t] # NoResult
       THEN phase' = "resolved" /\ queued' = {} /\ attempted' = {}
       ELSE /\ phase' = "running"
            /\ \E S \in SUBSET queued :
                /\ queued' = (queued \cup back) \ S
                /\ attempted' = rest \cup S

\* The pool is started, or looks at its queue again.
Launch ==
    /\ ~Over
    /\ Pass(results, attempted, {})

Finish(t) ==
    /\ phase = "running" /\ t \in attempted
    /\ \E r \in Results : Pass([results EXCEPT ![t] = r], attempted \ {t}, {})

GiveBack(t) ==
    /\ phase = "running" /\ t \in attempted
    /\ Pass(results, attempted \ {t}, {t})

Stop == queued' = {} /\ attempted' = {}

\* Tasks that have their result keep it.
Cancel ==
    /\ ~Over
    /\ phase' = "resolved" /\ Stop
    /\ results' \in [Tasks -> Results]
    /\ \A t \in Tasks : IF results[t] # NoResult THEN results'[t] = results[t]
                        ELSE results'[t].status = "aborted"

Reject ==
    /\ ~Over
    /\ phase' = "rejected" /\ Stop
    /\ UNCHANGED results

Next ==
    \/ Launch \/ Cancel \/ Reject
    \/ \E t \in Tasks : Finish(t) \/ GiveBack(t)

Spec == Init /\ [][Next]_vars
=============================================================================
