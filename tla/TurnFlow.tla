------------------------------ MODULE TurnFlow ------------------------------
(***************************************************************************)
(* How an agent's turns are launched, steered, driven by a goal, cancelled *)
(* and ended (packages/agent-core/src/agent/turn/index.ts), with the goal  *)
(* lifecycle the driver reads (agent/goal/index.ts) and the hook points of *)
(* the turn loop (loop/run-turn.ts).                                       *)
(*                                                                         *)
(* A worker is one call of turnWorker, an async function that lives until  *)
(* its promise settles; it is named by the input that launched it.  A      *)
(* cancel forgets the active turn at once, while the worker runs on until  *)
(* it notices, so several workers may be in flight.  Each action is the    *)
(* code between two awaits.  A step of the turn loop is one action: what   *)
(* its tools do is the subject of ToolCallBatch.                           *)
(***************************************************************************)
EXTENDS Naturals, Integers, Sequences, FiniteSets

CONSTANTS
    MaxInputs,     \* bound: prompts and steers accepted
    MaxGoals,      \* bound: goals created
    MaxTurns,      \* bound: turns counted for a goal; then another budget of it is used up
    TurnBudgets,   \* the turn budgets the model may set
    NoBudget,
    GoalAtStart,   \* the statuses a session may start with ("none": no goal)
    NoTurn         \* activeTurn = null

ASSUME TurnFlowAssumption ==
    /\ MaxInputs \in Nat /\ MaxGoals \in Nat
    /\ GoalAtStart \subseteq {"none", "active", "paused", "blocked"}
    /\ NoTurn \notin 1..MaxInputs

Workers == 1..MaxInputs

VARIABLES
    turnId,        \* the id allocated last, -1 before the first
    activeTurn,    \* the worker whose turn is the active one, or NoTurn
    steerBuffer,   \* steers waiting for a step to begin
    worker,        \* worker[w]: the state of one call of turnWorker
    context,       \* context[i]: how often input i was appended to the context
    inputs,        \* how many inputs were accepted
    goal,          \* [status, turnsUsed, turnBudget]
    goals          \* how many goals were created

vars == <<turnId, activeTurn, steerBuffer, worker, context, inputs, goal, goals>>

Statuses == {"none", "active", "paused", "blocked"}

\* Where a worker awaits.  budgetEnd: markBlocked before a turn without the
\* model; startTurn: incrementTurn; promptHook: the UserPromptSubmit hook;
\* beforeStep: the head of the turn loop; stepping: the model and its tools;
\* stopHook: the Stop hook; turnEnded: runOneTurn has returned; returning: the
\* driver's last goal update.
InTurn == {"promptHook", "beforeStep", "stepping", "stopHook"}
Awaits == InTurn \cup {"budgetEnd", "startTurn", "turnEnded", "returning"}

NewWorker(t, input) ==
    [pc |-> "startTurn", turn |-> t, input |-> input, aborted |-> FALSE,
     driving |-> FALSE, firstGoal |-> goal.status, end |-> "none",
     stopHookUsed |-> FALSE]

NotLaunched == [NewWorker(-1, 0) EXCEPT !.pc = "idle", !.firstGoal = "none"]

Init ==
    /\ turnId = -1 /\ activeTurn = NoTurn /\ steerBuffer = << >>
    /\ context = [i \in Workers |-> 0] /\ inputs = 0 /\ goals = 0
    /\ goal \in [status : GoalAtStart, turnsUsed : {0}, turnBudget : TurnBudgets \cup {NoBudget}]
    /\ goal.status = "none" => goal.turnBudget = NoBudget
    /\ worker = [w \in Workers |-> NotLaunched]

-----------------------------------------------------------------------------
(* The goal (agent/goal/index.ts) *)

\* The turn budget.  The token and wall-clock budgets are not counted: they may
\* turn out to be reached wherever the driver looks at the budget.
TurnBudgetReached == goal.turnBudget # NoBudget /\ goal.turnsUsed >= goal.turnBudget

NoGoal == [status |-> "none", turnsUsed |-> 0, turnBudget |-> NoBudget]

\* A new goal, also in the place of one that exists (`replace`).
CreateGoal ==
    /\ goals < MaxGoals
    /\ goals' = goals + 1
    /\ goal' = [NoGoal EXCEPT !.status = "active"]

SetStatus(from, to) ==
    /\ goal.status \in from
    /\ goal' = [goal EXCEPT !.status = to]
    /\ UNCHANGED goals

PauseGoal   == SetStatus({"active"}, "paused")
ResumeGoal  == SetStatus({"paused", "blocked"}, "active")
MarkBlocked == SetStatus({"active"}, "blocked")

\* setBudgetLimits, of a goal in any status; the budget may be below the turns used.
SetBudgetLimits ==
    /\ goal.status # "none"
    /\ \E limit \in TurnBudgets : goal' = [goal EXCEPT !.turnBudget = limit]
    /\ UNCHANGED goals

\* A goal that is completed, and one the user cancels, is cleared.
ClearGoal(from) == goal.status \in from /\ goal' = NoGoal /\ UNCHANGED goals
CancelGoal   == ClearGoal(Statuses \ {"none"})
MarkComplete == ClearGoal({"active"})

\* pauseActiveGoal and markBlocked, as the driver calls them, leave alone a goal
\* that is not active.
LeaveActive(status) ==
    goal' = IF goal.status = "active" THEN [goal EXCEPT !.status = status] ELSE goal

\* incrementTurn
IncrementTurn ==
    goal' = IF goal.status = "active" THEN [goal EXCEPT !.turnsUsed = @ + 1] ELSE goal

-----------------------------------------------------------------------------
(* Pieces of the worker *)

\* The inputs of a sequence are appended to the context.  A continuation prompt
\* (input 0) and a Stop hook's reason are appended as well, but not counted.
AppendUserMessage(seq) ==
    context' = [i \in Workers |->
                    context[i] + Cardinality({n \in DOMAIN seq : seq[n] = i})]

\* The head of runOneTurn up to its first await: turn.started, and the prompt is
\* appended.
RunOneTurn(w, rec) ==
    /\ worker' = [worker EXCEPT ![w] =
            [rec EXCEPT !.pc = "promptHook", !.end = "none", !.stopHookUsed = FALSE]]
    /\ AppendUserMessage(<<rec.input>>)

\* The head of driveGoal's loop: an exhausted budget blocks the goal and the
\* turn is ended without the model; else the turn is counted.
DriveGoal(w, rec) ==
    /\ \/ /\ goal.status = "active"
          /\ LeaveActive("blocked")
          /\ worker' = [worker EXCEPT ![w] = [rec EXCEPT !.pc = "budgetEnd", !.driving = TRUE]]
       \/ /\ ~(goal.status = "active" /\ TurnBudgetReached) /\ goal.turnsUsed < MaxTurns
          /\ IncrementTurn
          /\ worker' = [worker EXCEPT ![w] = [rec EXCEPT !.pc = "startTurn", !.driving = TRUE]]
    /\ UNCHANGED context

\* launch when no turn is active: turnWorker runs up to its first await, then
\* the active turn is set.
Launch(w) ==
    /\ turnId' = turnId + 1
    /\ activeTurn' = w
    /\ IF goal.status = "active"
       THEN DriveGoal(w, NewWorker(turnId', w))
       ELSE RunOneTurn(w, NewWorker(turnId', w)) /\ UNCHANGED goal

\* Mutant: every turn of a drive releases the active turn.
EndTurn_ReleasesDrive(w, reason) ==
    /\ worker' = [worker EXCEPT ![w].pc = "turnEnded", ![w].end = reason]
    /\ activeTurn' = IF turnId = worker[w].turn THEN NoTurn ELSE activeTurn
    /\ UNCHANGED steerBuffer

\* Mutant: steers still buffered when a turn ends are dropped with it.
EndTurn_DropsSteers(w, reason) ==
    /\ worker' = [worker EXCEPT ![w].pc = "turnEnded", ![w].end = reason]
    /\ activeTurn' = IF ~worker[w].driving /\ turnId = worker[w].turn
                     THEN NoTurn ELSE activeTurn
    /\ steerBuffer' = << >>

\* The end of runOneTurn: turn.ended, and a standalone turn that is still the
\* current one releases the active turn in the same frame.
EndTurn(w, reason) ==
    /\ worker' = [worker EXCEPT ![w].pc = "turnEnded", ![w].end = reason]
    /\ activeTurn' = IF ~worker[w].driving /\ turnId = worker[w].turn
                     THEN NoTurn ELSE activeTurn
    /\ UNCHANGED steerBuffer

FlushSteerBuffer == AppendUserMessage(steerBuffer) /\ steerBuffer' = << >>

Goto(w, pc) == worker' = [worker EXCEPT ![w].pc = pc]

-----------------------------------------------------------------------------
(* What the outside does *)

\* A prompt while a turn is active is answered with turn.agent_busy.
Prompt ==
    /\ inputs < MaxInputs
    /\ activeTurn = NoTurn
    /\ inputs' = inputs + 1
    /\ Launch(inputs')
    /\ UNCHANGED <<steerBuffer, goals>>

\* The user's Ctrl-S, a background task's notification, a cron job: buffered
\* while a turn is active, launching one otherwise.
Steer ==
    /\ inputs < MaxInputs
    /\ inputs' = inputs + 1
    /\ IF activeTurn # NoTurn
       THEN /\ steerBuffer' = Append(steerBuffer, inputs')
            /\ UNCHANGED <<turnId, activeTurn, worker, context, goal>>
       ELSE Launch(inputs') /\ UNCHANGED steerBuffer
    /\ UNCHANGED goals

\* cancel without a turn id, or with the current one; any other is ignored.
Cancel ==
    /\ activeTurn # NoTurn
    /\ worker' = [worker EXCEPT ![activeTurn].aborted = TRUE]
    /\ activeTurn' = NoTurn
    /\ UNCHANGED <<turnId, steerBuffer, context, inputs, goal, goals>>

UserGoalUpdate ==
    /\ CreateGoal \/ PauseGoal \/ ResumeGoal \/ CancelGoal
    /\ UNCHANGED <<turnId, activeTurn, steerBuffer, worker, context, inputs>>

-----------------------------------------------------------------------------
(* The worker *)

\* incrementTurn has returned.
StartTurn(w) ==
    /\ worker[w].pc = "startTurn"
    /\ RunOneTurn(w, worker[w])
    /\ UNCHANGED <<turnId, activeTurn, steerBuffer, inputs, goal, goals>>

\* endGoalTurnWithoutModel: started, the prompt appended, ended, in one frame.
EndGoalTurnWithoutModel(w) ==
    /\ worker[w].pc = "budgetEnd"
    /\ AppendUserMessage(<<worker[w].input>>)
    /\ worker' = [worker EXCEPT ![w].pc = "returning", ![w].end = "completed"]
    /\ UNCHANGED <<turnId, activeTurn, steerBuffer, inputs, goal, goals>>

\* applyUserPromptHook returns: the hook may block a user's prompt.
PromptHookReturns(w) ==
    /\ worker[w].pc = "promptHook"
    /\ \/ worker[w].aborted /\ EndTurn(w, "cancelled")
       \/ ~worker[w].aborted /\ worker[w].input # 0 /\ EndTurn(w, "blocked")
       \/ /\ ~worker[w].aborted
          /\ Goto(w, "beforeStep")
          /\ UNCHANGED <<activeTurn, steerBuffer>>
    /\ UNCHANGED <<turnId, context, inputs, goal, goals>>

\* Mutant: the abort is not looked at.
BeforeStep_Unchecked(w) ==
    /\ worker[w].pc = "beforeStep"
    /\ FlushSteerBuffer
    /\ Goto(w, "stepping")
    /\ UNCHANGED <<activeTurn, turnId, inputs, goal, goals>>

\* The head of runTurn's loop (an abort, then the limit on steps) and the
\* beforeStep hook up to its first await.
BeforeStep(w) ==
    /\ worker[w].pc = "beforeStep"
    /\ \/ worker[w].aborted /\ EndTurn(w, "cancelled") /\ UNCHANGED context
       \/ ~worker[w].aborted /\ EndTurn(w, "failed") /\ UNCHANGED context
       \/ /\ ~worker[w].aborted
          /\ FlushSteerBuffer
          /\ Goto(w, "stepping")
          /\ UNCHANGED activeTurn
    /\ UNCHANGED <<turnId, inputs, goal, goals>>

\* The model's CreateGoal, UpdateGoal and SetGoalBudget tools, which do not look at the
\* signal.
ModelGoalUpdate(w) ==
    /\ worker[w].pc = "stepping"
    /\ CreateGoal \/ PauseGoal \/ ResumeGoal \/ MarkBlocked \/ MarkComplete \/ SetBudgetLimits
    /\ UNCHANGED <<turnId, activeTurn, steerBuffer, worker, context, inputs>>

\* The step ends the loop with an abort or an error, or it asked for tools and
\* the loop goes round.
StepContinues(w) ==
    /\ worker[w].pc = "stepping"
    /\ \/ worker[w].aborted /\ EndTurn(w, "cancelled")
       \/ ~worker[w].aborted /\ EndTurn(w, "failed")
       \/ Goto(w, "beforeStep") /\ UNCHANGED <<activeTurn, steerBuffer>>
    /\ UNCHANGED <<turnId, context, inputs, goal, goals>>

\* The model stopped (shouldContinueAfterStop): steers flushed now are a reason
\* to continue, whatever the signal says; the Stop hook is asked once.
StepStops(w) ==
    /\ worker[w].pc = "stepping"
    /\ IF steerBuffer # << >>
       THEN FlushSteerBuffer /\ Goto(w, "beforeStep") /\ UNCHANGED activeTurn
       ELSE /\ \/ worker[w].aborted /\ EndTurn(w, "cancelled")
               \/ ~worker[w].aborted /\ worker[w].stopHookUsed /\ EndTurn(w, "completed")
               \/ /\ ~worker[w].aborted /\ ~worker[w].stopHookUsed
                  /\ Goto(w, "stopHook")
                  /\ UNCHANGED <<activeTurn, steerBuffer>>
            /\ UNCHANGED context
    /\ UNCHANGED <<turnId, inputs, goal, goals>>

\* The Stop hook returns; it may ask for one continuation.
StopHookReturns(w) ==
    /\ worker[w].pc = "stopHook"
    /\ \/ worker[w].aborted /\ EndTurn(w, "cancelled") /\ UNCHANGED context
       \/ ~worker[w].aborted /\ EndTurn(w, "completed") /\ UNCHANGED context
       \/ /\ ~worker[w].aborted
          /\ worker' = [worker EXCEPT ![w].pc = "beforeStep", ![w].stopHookUsed = TRUE]
          /\ UNCHANGED <<context, activeTurn, steerBuffer>>
    /\ UNCHANGED <<turnId, inputs, goal, goals>>

AllocateTurnId(w) == turnId' = turnId + 1

\* The worker goes on to a continuation turn.
ContinueGoal(w) ==
    /\ AllocateTurnId(w)
    /\ DriveGoal(w, [worker[w] EXCEPT !.turn = turnId', !.input = 0])

\* runOneTurn has returned to turnWorker: a goal resumed during the turn is
\* driven from here on, otherwise the worker is done.
StandaloneReturns(w) ==
    /\ worker[w].pc = "turnEnded" /\ ~worker[w].driving
    /\ IF /\ worker[w].firstGoal \in {"paused", "blocked"}
          /\ goal.status = "active"
          /\ worker[w].end \notin {"cancelled", "failed"}
       THEN ContinueGoal(w)
       ELSE Goto(w, "returning") /\ UNCHANGED <<turnId, goal, context>>
    /\ UNCHANGED <<activeTurn, steerBuffer, inputs, goals>>

\* runOneTurn has returned to driveGoal: an interrupted or failed turn pauses
\* the goal, a blocked prompt or an exhausted budget blocks it, a goal that is
\* still active is continued.
DrivenReturns(w) ==
    /\ worker[w].pc = "turnEnded" /\ worker[w].driving
    /\ \/ /\ worker[w].end = "completed" /\ goal.status = "active" /\ ~TurnBudgetReached
          /\ ContinueGoal(w)
       \/ /\ LeaveActive(IF worker[w].end \in {"cancelled", "failed"}
                         THEN "paused" ELSE "blocked")
          /\ Goto(w, "returning")
          /\ UNCHANGED <<turnId, context>>
    /\ UNCHANGED <<activeTurn, steerBuffer, inputs, goals>>

\* Mutant: it is cleared whosever it is.
WorkerReturns_ClearsAny(w) ==
    /\ worker[w].pc = "returning"
    /\ worker' = [worker EXCEPT ![w] =
            [NotLaunched EXCEPT !.pc = "done", !.aborted = worker[w].aborted]]
    /\ activeTurn' = NoTurn
    /\ UNCHANGED <<turnId, steerBuffer, context, inputs, goal, goals>>

\* turnWorker's `finally`: the active turn is cleared if it is this worker's.
WorkerReturns(w) ==
    /\ worker[w].pc = "returning"
    /\ worker' = [worker EXCEPT ![w] =
            [NotLaunched EXCEPT !.pc = "done", !.aborted = worker[w].aborted]]
    /\ activeTurn' = IF activeTurn = w THEN NoTurn ELSE activeTurn
    /\ UNCHANGED <<turnId, steerBuffer, context, inputs, goal, goals>>

WorkerStep(w) ==
    \/ StartTurn(w) \/ EndGoalTurnWithoutModel(w) \/ PromptHookReturns(w)
    \/ BeforeStep(w) \/ StepContinues(w) \/ StepStops(w) \/ StopHookReturns(w)
    \/ StandaloneReturns(w) \/ DrivenReturns(w) \/ WorkerReturns(w)

Next ==
    \/ Prompt \/ Steer \/ Cancel \/ UserGoalUpdate
    \/ \E w \in Workers : WorkerStep(w) \/ ModelGoalUpdate(w)

\* The model, a hook or a tool answers an aborted worker (their requests take
\* its signal, tools have the grace timer); nothing is assumed of the others.
Fairness == \A w \in Workers : WF_vars(worker[w].aborted /\ WorkerStep(w))

Spec == Init /\ [][Next]_vars /\ Fairness

-----------------------------------------------------------------------------
(* Properties *)

TypeOK ==
    /\ turnId \in Int /\ turnId >= -1
    /\ activeTurn \in Workers \cup {NoTurn}
    /\ steerBuffer \in Seq(1..inputs)
    /\ context \in [Workers -> Nat]
    /\ goal \in [status : Statuses, turnsUsed : Nat, turnBudget : TurnBudgets \cup {NoBudget}]
    /\ \A w \in Workers :
        /\ worker[w].pc \in Awaits \cup {"idle", "done"}
        /\ worker[w].pc = "idle" => activeTurn # w

\* A worker that was given up on never takes the active turn away from the one
\* that replaced it: the active turn is cleared only by cancelling it or by its
\* own worker reaching the end of its turn ("so a superseding turn is never
\* clobbered", turn/index.ts:286).
NeverClobbered ==
    [][\A w \in Workers : activeTurn = w /\ activeTurn' # w =>
            worker'[w].aborted \/ worker'[w].pc \in {"turnEnded", "done"}]_vars

\* A worker that was not cancelled holds the active turn while it is in a turn,
\* so that a second prompt is refused and a cancel reaches it; the one exception
\* is a worker that drives a goal resumed during its own standalone turn.
ActiveTurnHeld ==
    \A w \in Workers :
        /\ worker[w].pc \in InTurn \cup {"startTurn", "budgetEnd"}
        /\ ~worker[w].aborted
        /\ ~(worker[w].driving /\ worker[w].firstGoal # "active")
        => activeTurn = w

\* What the comment says ("A goal drive keeps the active turn across its continuation
\* turns", turn/index.ts:487), of every drive that was not cancelled.
DriveKeepsActiveTurn ==
    \A w \in Workers :
        worker[w].driving /\ worker[w].pc \in InTurn /\ ~worker[w].aborted => activeTurn = w

\* Every accepted input is in exactly one place, once: appended, buffered, or
\* held by a worker about to append it; no end, cancel or flush drops or
\* repeats one.
InputsKeptOnce ==
    \A i \in 1..inputs :
        context[i]
        + Cardinality({n \in DOMAIN steerBuffer : steerBuffer[n] = i})
        + Cardinality({w \in Workers : /\ worker[w].pc \in {"startTurn", "budgetEnd"}
                                       /\ worker[w].input = i}) = 1

\* A cancelled worker ends, also in the middle of a goal drive.
CancelledWorkerEnds ==
    \A w \in Workers : worker[w].aborted ~> worker[w].pc = "done"
=============================================================================
