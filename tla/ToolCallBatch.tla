---------------------------- MODULE ToolCallBatch ----------------------------
(***************************************************************************)
(* The tool calls of one model step (packages/agent-core/src/loop/         *)
(* tool-call.ts) with the hooks the turn installs (agent/turn/index.ts)    *)
(* and the same-step half of agent/turn/tool-dedup.ts.                     *)
(*                                                                         *)
(* The calls are prepared one by one in provider order, each handed to the *)
(* scheduler as soon as it is prepared, so that earlier calls execute      *)
(* while later ones wait for a hook or for the user's approval.  Then the  *)
(* results are drained in provider order.  The turn may be aborted at any  *)
(* point.  The scheduler's state and actions are those of ToolScheduler;   *)
(* call number i is its task i.                                            *)
(***************************************************************************)
EXTENDS ToolScheduler

CONSTANTS
    Key,          \* a tool name with its arguments
    Rejected,     \* stands for a call preflight rejects
    AccessOf      \* AccessOf[k]: what the resolved execution of k declares

ASSUME BatchAssumption ==
    /\ Rejected \notin Key
    /\ AccessOf \in [Key -> Access]
    /\ None \in Access

VARIABLES
    calls,        \* response.toolCalls: the key of each call, in provider order
    stage,        \* the await the batch is at
    at,           \* the loop index, in the prepare loop and in the drain loop
    plan,         \* what preparing calls[at] has decided so far
    skipping,     \* the inner loop that skips the calls after a stopping one
    stopTurn,     \* the flag the batch returns
    failed,       \* an exception is on its way out of the batch
    recorded,     \* how many tool.call events were dispatched
    results,      \* the finalized results dispatched as tool.result events
    planned,      \* planned[i]: the plan call i was handed to the scheduler with
    exec,         \* exec[i]: where the execution of call i is
    outcome,      \* outcome[i]: what the pending result of call i holds
    aborted,      \* signal.aborted
    stepDeferreds \* the deduplicator's deferred per key: "open" or a result

schedulerVars == vars
prepareVars == <<calls, at, plan, skipping>>
drainVars == <<stopTurn, failed, recorded, results, stepDeferreds>>
execVars == <<planned, exec, outcome>>
batchVars == <<schedulerVars, prepareVars, stage, drainVars, execVars, aborted>>

\* "done" is an output of the tool or an error: both go to the model alike.
Outcomes == {"done", "stop", "aborted", "grace", "skipped", "placeholder"}

\* The executions that are touching files: a tool whose result was given up on
\* after the grace period may run on.
Running == {i \in Tasks : exec[i] \in {"running", "abandoned"}}

Plan(kind, o, stop) == [kind |-> kind, outcome |-> o, stopBatch |-> stop]

BatchInit ==
    /\ Init
    /\ \E n \in 1..MaxTasks : calls \in [1..n -> Key \cup {Rejected}]
    /\ stage = "prepare" /\ at = 1 /\ plan = Plan("none", "none", FALSE)
    /\ skipping = FALSE /\ stopTurn = FALSE /\ failed = FALSE
    /\ recorded = 0 /\ results = << >>
    /\ planned = << >> /\ exec = << >> /\ outcome = << >>
    /\ aborted = FALSE
    /\ stepDeferreds = << >>

-----------------------------------------------------------------------------
(* Preparing one call *)

\* The call needs no execution: its result is known.
Settled(o, stop) == plan' = Plan("resolved", o, stop) /\ stage' = "record"

\* A skipped call and one preflight rejected have an error result at once; the
\* prepare hook turns a repetition of an earlier call of the step into a
\* placeholder and registers a first occurrence (checkSameStep).
PrepareHook ==
    /\ stage = "prepare"
    /\ IF skipping \/ calls[at] = Rejected
       THEN /\ Settled(IF skipping THEN "skipped" ELSE "done", FALSE)
            /\ UNCHANGED stepDeferreds
       ELSE IF calls[at] \in DOMAIN stepDeferreds
       THEN /\ Settled("placeholder", FALSE)
            /\ UNCHANGED stepDeferreds
       ELSE /\ stepDeferreds' = [k \in DOMAIN stepDeferreds \cup {calls[at]} |->
                                    IF k = calls[at] THEN "open" ELSE stepDeferreds[k]]
            /\ stage' = "resolve"
            /\ UNCHANGED plan
    /\ UNCHANGED <<schedulerVars, calls, at, skipping, stopTurn, failed,
                   recorded, results, execVars, aborted>>

\* resolveExecution throws, or returns: an error result, or an execution that
\* may ask to stop the batch after itself.
ResolveExecution ==
    /\ stage = "resolve"
    /\ \/ Settled("done", FALSE)
       \/ aborted /\ Settled("aborted", FALSE)
       \/ /\ ~aborted
          /\ \/ \E stop \in BOOLEAN : Settled(IF stop THEN "stop" ELSE "done", stop)
             \/ \E stop \in BOOLEAN :
                    plan' = Plan("run", "none", stop) /\ stage' = "authorize"
    /\ UNCHANGED <<schedulerVars, calls, at, skipping, drainVars, execVars, aborted>>

\* The permission check answers, perhaps after asking the user: an abort seen
\* after it wins over the answer; else the call is blocked, or answered without
\* being run, or allowed.
AuthorizeExecution ==
    /\ stage = "authorize"
    /\ IF aborted
       THEN Settled("aborted", FALSE)
       ELSE \/ \E stop \in BOOLEAN : Settled(IF stop THEN "stop" ELSE "done", stop)
            \/ stage' = "record" /\ UNCHANGED plan
    /\ UNCHANGED <<schedulerVars, calls, at, skipping, drainVars, execVars, aborted>>

\* dispatchToolCall: the tool.call event is recorded, or recording it throws
\* (the record log keeps its first write error) and the batch fails.
RecordCall ==
    /\ stage = "record"
    /\ \/ /\ recorded' = recorded + 1
          /\ stage' = "add"
          /\ UNCHANGED failed
       \/ /\ failed' = TRUE
          /\ stage' = "settleAll"
          /\ UNCHANGED recorded
    /\ UNCHANGED <<schedulerVars, prepareVars, stopTurn, results, stepDeferreds,
                   execVars, aborted>>

-----------------------------------------------------------------------------
(* Execution *)

\* Mutant: a task that leaves the queue after the abort is executed.
StartTasks_NoAbortCheck(plans) ==
    LET started == activeTasks' \ activeTasks
        runs(i) == plans[i].kind = "run"
    IN  /\ exec' = [i \in Tasks' |->
                       IF i \in started
                       THEN IF runs(i) THEN "running" ELSE "none"
                       ELSE IF i \in Tasks THEN exec[i] ELSE "none"]
        /\ outcome' = [i \in Tasks' |->
                       IF i \in started /\ ~runs(i) THEN plans[i].outcome
                       ELSE IF i \in Tasks THEN outcome[i] ELSE "none"]

\* The tasks a step of the scheduler has just started run synchronously up to
\* their first await: an execution begins there and then unless the turn is
\* aborted (runRunnableToolCall), a resolved task has its result.
StartTasks(plans) ==
    LET started == activeTasks' \ activeTasks
        runs(i) == plans[i].kind = "run" /\ ~aborted
    IN  /\ exec' = [i \in Tasks' |->
                       IF i \in started
                       THEN IF runs(i) THEN "running" ELSE "none"
                       ELSE IF i \in Tasks THEN exec[i] ELSE "none"]
        /\ outcome' = [i \in Tasks' |->
                       IF i \in started /\ ~runs(i)
                       THEN IF plans[i].kind = "run" THEN "aborted" ELSE plans[i].outcome
                       ELSE IF i \in Tasks THEN outcome[i] ELSE "none"]

\* scheduler.add, and the loop goes to the next call: the calls after one that
\* stops the batch are prepared as skipped ones.
AddTask ==
    /\ stage = "add"
    /\ Add(IF plan.kind = "run" THEN AccessOf[calls[at]] ELSE None)
    /\ planned' = Append(planned, plan)
    /\ StartTasks(planned')
    /\ skipping' = (skipping \/ plan.stopBatch)
    /\ stopTurn' = (stopTurn \/ plan.stopBatch)
    /\ plan' = Plan("none", "none", FALSE)
    /\ IF at < Len(calls)
       THEN at' = at + 1 /\ stage' = "prepare"
       ELSE at' = 1 /\ stage' = "drain"
    /\ UNCHANGED <<calls, failed, recorded, results, stepDeferreds, aborted>>

\* A tool returns.  If the grace period is over its result is dropped.
ToolReturns(i) ==
    /\ i \in Running
    /\ exec' = [exec EXCEPT ![i] = "returned"]
    /\ IF exec[i] = "running"
       THEN \E o \in {"done", "stop"} \cup (IF aborted THEN {"aborted"} ELSE {}) :
                outcome' = [outcome EXCEPT ![i] = o]
       ELSE UNCHANGED outcome
    /\ UNCHANGED <<schedulerVars, prepareVars, stage, drainVars, planned, aborted>>

\* Mutant: there is no grace timer.
GraceExpires_Never(i) == FALSE /\ UNCHANGED batchVars

\* Two seconds after the abort the result of a tool that is still running is
\* given up on; nothing stops the tool itself (raceExecuteWithGraceTimeout).
GraceExpires(i) ==
    /\ aborted
    /\ i \in Tasks /\ exec[i] = "running"
    /\ exec' = [exec EXCEPT ![i] = "abandoned"]
    /\ outcome' = [outcome EXCEPT ![i] = "grace"]
    /\ UNCHANGED <<schedulerVars, prepareVars, stage, drainVars, planned, aborted>>

\* Every error was turned into a result, so a task's promise never rejects.
SettleTask(i) ==
    /\ Settle(i)
    /\ result'[i] = "resolved"
    /\ outcome[i] # "none"
    /\ UNCHANGED <<prepareVars, stage, drainVars, execVars, aborted>>

FinishTask(i) ==
    /\ Finish(i)
    /\ StartTasks(planned)
    /\ UNCHANGED <<prepareVars, stage, drainVars, planned, aborted>>

\* The user presses stop, or whatever started the turn cancels it.
Abort ==
    /\ ~aborted
    /\ stage \notin {"returned", "thrown"}
    /\ aborted' = TRUE
    /\ UNCHANGED <<schedulerVars, prepareVars, stage, drainVars, execVars>>

-----------------------------------------------------------------------------
(* Draining the results *)

\* Mutant: a duplicate keeps the placeholder it was given.
Finalized_Placeholder(i) == {outcome[i]}

\* finalizeResult: a duplicate waits for the deferred of its original and takes
\* its result; an original whose call has been repeated too often is made to
\* stop the turn.  Returns the set of results call i may be finalized with.
Finalized(i) ==
    IF outcome[i] = "placeholder"
    THEN {stepDeferreds[calls[i]]} \ {"open"}
    ELSE IF planned[i].outcome # "skipped" /\ calls[i] # Rejected
    THEN {outcome[i], "stop"}
    ELSE {outcome[i]}

\* Mutant: an aborted batch returns without draining the rest.
DrainResult_StopsOnAbort ==
    /\ stage = "drain"
    /\ IF aborted
       THEN stage' = "settleAll" /\ UNCHANGED <<at, results, stopTurn, stepDeferreds>>
       ELSE /\ result[at] # "pending"
            /\ \E r \in Finalized(at) :
                 /\ results' = Append(results, r)
                 /\ stopTurn' = (stopTurn \/ r = "stop")
                 /\ stepDeferreds' = [k \in DOMAIN stepDeferreds |->
                        IF k = calls[at] /\ stepDeferreds[k] = "open" THEN r
                        ELSE stepDeferreds[k]]
            /\ IF at < Len(calls)
               THEN at' = at + 1 /\ UNCHANGED stage
               ELSE stage' = "settleAll" /\ UNCHANGED at
    /\ UNCHANGED <<schedulerVars, calls, plan, skipping, failed, recorded,
                   execVars, aborted>>

\* Await the result of the call, finalize it, dispatch tool.result; dispatching
\* may throw.
DrainResult ==
    /\ stage = "drain"
    /\ result[at] # "pending"
    /\ \E r \in Finalized(at) :
        /\ stepDeferreds' = [k \in DOMAIN stepDeferreds |->
                IF k = calls[at] /\ stepDeferreds[k] = "open" THEN r
                ELSE stepDeferreds[k]]
        /\ stopTurn' = (stopTurn \/ r = "stop")
        /\ \/ /\ results' = Append(results, r)
              /\ UNCHANGED failed
              /\ IF at < Len(calls)
                 THEN at' = at + 1 /\ UNCHANGED stage
                 ELSE stage' = "settleAll" /\ UNCHANGED at
           \/ /\ failed' = TRUE
              /\ stage' = "settleAll"
              /\ UNCHANGED <<results, at>>
    /\ UNCHANGED <<schedulerVars, calls, plan, skipping, recorded, execVars, aborted>>

\* Mutant: an exception leaves the batch at once.
LeaveBatch_NoWait ==
    /\ stage = "settleAll"
    /\ stage' = IF failed THEN "thrown" ELSE "returned"
    /\ UNCHANGED <<schedulerVars, prepareVars, drainVars, execVars, aborted>>

\* Promise.allSettled in the `finally`, then the batch returns or throws.
LeaveBatch ==
    /\ stage = "settleAll"
    /\ \A i \in Tasks : result[i] # "pending"
    /\ stage' = IF failed THEN "thrown" ELSE "returned"
    /\ UNCHANGED <<schedulerVars, prepareVars, drainVars, execVars, aborted>>

BatchStep ==
    \/ PrepareHook \/ ResolveExecution \/ AuthorizeExecution
    \/ RecordCall \/ AddTask \/ DrainResult \/ LeaveBatch

BatchNext ==
    \/ BatchStep
    \/ Abort
    \/ \E i \in Tasks :
        ToolReturns(i) \/ GraceExpires(i) \/ SettleTask(i) \/ FinishTask(i)

\* The batch's own code and the timers run.  The user need not answer an
\* approval request, which an abort drops, and a tool need not return.
BatchFairness ==
    /\ WF_batchVars(BatchStep /\ (aborted \/ stage # "authorize"))
    /\ \A i \in 1..MaxTasks :
        /\ WF_batchVars(GraceExpires(i))
        /\ WF_batchVars(SettleTask(i))
        /\ WF_batchVars(FinishTask(i))

BatchBehavior == BatchInit /\ [][BatchNext]_batchVars
BatchSpec == BatchBehavior /\ BatchFairness

-----------------------------------------------------------------------------
(* Properties *)

Over == stage \in {"returned", "thrown"}

BatchTypeOK ==
    /\ TypeOK
    /\ stage \in {"prepare", "resolve", "authorize", "record", "add", "drain",
                  "settleAll", "returned", "thrown"}
    /\ at \in DOMAIN calls
    /\ planned \in Seq([kind : {"run", "resolved"},
                        outcome : Outcomes \cup {"none"}, stopBatch : BOOLEAN])
    /\ exec \in [Tasks -> {"none", "running", "abandoned", "returned"}]
    /\ outcome \in [Tasks -> Outcomes \cup {"none"}]
    /\ results \in Seq(Outcomes)
    /\ Len(results) <= recorded /\ recorded <= Len(calls)

\* Two tools that conflict never really run at the same time, although after an
\* abort the scheduler is told that a call is over while its tool may run on
\* (raceExecuteWithGraceTimeout resolves, the tool is not stopped).
NoConflictingExecution ==
    \A i, j \in Running : i # j => ~Conflict(accesses[i], accesses[j])

\* Once the turn is aborted no tool starts: not one that was waiting for the
\* user's approval, nor one that leaves the scheduler's queue afterwards.
NothingStartsAborted ==
    [][aborted => \A i \in Tasks' :
            exec'[i] = "running" => i \in Tasks /\ exec[i] = "running"]_batchVars

\* When the batch returns, every call of the response has been recorded and has
\* its result, in provider order, also when the turn was aborted or a call
\* stopped the batch ("each recorded tool.call gets a paired tool.result").
PairedWhenReturned ==
    stage = "returned" => recorded = Len(calls) /\ Len(results) = Len(calls)

\* However the batch ends, no task is left behind: nothing is queued and no tool
\* runs on except one given up on after an abort.
NoDetachedTask ==
    Over => /\ queuedTasks = {}
            /\ \A i \in Running : aborted /\ exec[i] = "abandoned"

\* A repetition of a call within the step is not executed, and the model is
\* shown the result of its original, whichever way that one was settled.
DuplicatesShareResult ==
    \A i, j \in DOMAIN results :
        /\ i < j /\ calls[i] = calls[j]
        /\ planned[j].outcome = "placeholder"
        => results[j] = results[i] /\ exec[j] = "none"

\* An aborted batch ends, even if no running tool ever returns.
AbortEndsBatch == aborted ~> Over
=============================================================================
