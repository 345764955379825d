---------------------------- MODULE SubagentBatch ----------------------------
(***************************************************************************)
(* A swarm of subagents run as one batch                                   *)
(* (packages/agent-core/src/session/subagent-batch.ts): a ramp of launches *)
(* until the first provider rate limit, then a capacity that shrinks and   *)
(* recovers, with rate-limited tasks put back in the queue.                *)
(*                                                                         *)
(* Each action is one callback of the event loop.  Time stamps are kept as *)
(* what remains of them: x - now, and 0 once they are past, which is all   *)
(* the comparisons and minima of the code see of them.  The units are so   *)
(* long (hundreds of milliseconds) that a due timer fires before the next. *)
(* The child agents (session/subagent-host.ts) are the environment: an     *)
(* attempt is launched, may report that it is ready, and ends.             *)
(***************************************************************************)
EXTENDS Naturals, Sequences, FiniteSets, SequencesExt

CONSTANTS
    TaskCount,            \* how many tasks the batch has
    InitialLaunchLimit, InitialLaunchInterval,
    RetryBase, CapacityShrinkInterval, CapacityRecoveryInterval,
    MaxRateLimits,        \* bound: attempts that end with a rate limit
    NoTimer, NoResult

Results == [status : {"completed", "failed", "aborted"}, state : {"started", "not_started"}]

\* The powers are spelled out for the provers, which know nothing of 2^n.
ASSUME BatchAssumption ==
    /\ TaskCount \in Nat \ {0}
    /\ InitialLaunchLimit \in Nat \ {0}
    /\ InitialLaunchInterval \in Nat \ {0} /\ CapacityShrinkInterval \in Nat \ {0}
    /\ RetryBase \in Nat \ {0} /\ CapacityRecoveryInterval \in Nat \ {0}
    /\ CapacityShrinkInterval < RetryBase /\ RetryBase < CapacityRecoveryInterval
    /\ MaxRateLimits \in Nat
    /\ NoTimer \notin Nat /\ NoResult \notin Results
    /\ \A n \in 0..MaxRateLimits : 2^n \in Nat \ {0}

\* In input order.
Tasks == 1..TaskCount

VARIABLES
    batch,        \* the fields of SubagentBatch; batch.task[t] is a TaskState
    attempt,      \* attempt[t]: its latest ActiveAttempt, released or not
    rateLimits    \* how many attempts ended with a rate limit

vars == <<batch, attempt, rateLimits>>

Result(status, state) == [status |-> status, state |-> state]

\* pc: none, launching (spawn, resume or retry is awaited), running (the
\* completion is awaited), ended.
NotAttempted == [pc |-> "none", ready |-> FALSE, aborted |-> FALSE]
Fresh == [NotAttempted EXCEPT !.pc = "launching"]

NewTask == [agent |-> FALSE, started |-> FALSE, retryCount |-> 0, readyIn |-> 0]

NewBatch ==
    [phase |-> "created", pending |-> [i \in Tasks |-> i], active |-> {},
     results |-> [t \in Tasks |-> NoResult], task |-> [t \in Tasks |-> NewTask],
     normalLaunchCount |-> 0, normalTimer |-> NoTimer, wakeTimer |-> NoTimer,
     rateLimitMode |-> FALSE, startedSuccessCount |-> 0, capacity |-> 1,
     interval |-> RetryBase, launchIn |-> 0, recoverIn |-> 0, shrinkIn |-> 0]

Init ==
    /\ batch = NewBatch
    /\ attempt = [t \in Tasks |-> NotAttempted]
    /\ rateLimits = 0

Finished(b) == b.phase \in {"resolved", "rejected"}

Least(S) == CHOOSE x \in S : \A y \in S : x <= y
Most(x, y) == IF x >= y THEN x ELSE y

-----------------------------------------------------------------------------
(* Scheduling.  Each operator takes the fields of the batch to what they are *)
(* afterwards.                                                               *)

\* cleanup, common to finish and fail.  Of a finished batch only the results are
\* read again: the rest is forgotten.
End(b, phase) ==
    [NewBatch EXCEPT !.phase = phase, !.pending = << >>, !.results = b.results]

\* Mutant: a batch with a failed task is never complete.
Complete_NoneFailed(b) ==
    \A t \in Tasks : b.results[t] # NoResult /\ b.results[t].status = "completed"

Complete(b) == \A t \in Tasks : b.results[t] # NoResult

\* scheduleNormalLaunch: up to the initial limit at once, then a timer.
ScheduleNormalLaunch(b) ==
    LET room == IF b.normalLaunchCount < InitialLaunchLimit
                THEN InitialLaunchLimit - b.normalLaunchCount ELSE 0
        n    == Least({room, Len(b.pending)})
        rest == SubSeq(b.pending, n + 1, Len(b.pending))
    IN  [b EXCEPT !.pending = rest,
                  !.active = @ \cup {b.pending[i] : i \in 1..n},
                  !.normalLaunchCount = @ + n,
                  !.normalTimer = IF rest # << >> /\ @ = NoTimer
                                  THEN InitialLaunchInterval ELSE @]

\* recoverRateLimitCapacity, with work queued.
Recover(b) ==
    IF b.recoverIn > 0 THEN b
    ELSE [b EXCEPT !.capacity = @ + 1, !.recoverIn = CapacityRecoveryInterval,
                   !.launchIn = 0]

HasCapacity(b) == Cardinality(b.active) < b.capacity

\* nextPendingReadyAt
NextPendingReady(b) == Least({b.task[b.pending[i]].readyIn : i \in DOMAIN b.pending})

\* When something can next be launched: the global delay and those of the tasks,
\* or the next recovery.
NextWakeup(b) == Least({Most(b.launchIn, NextPendingReady(b)), b.recoverIn})

\* Mutant: no timer when the next launch is held up by the capacity only.
ScheduleWakeup_NotWhenFull(b) ==
    IF b.pending = << >> \/ ~HasCapacity(b) THEN b
    ELSE [b EXCEPT !.wakeTimer = NextWakeup(b)]

\* scheduleRateLimitWakeup, at the time the queue must be looked at again.
ScheduleWakeup(b) ==
    IF b.pending = << >> THEN b
    ELSE [b EXCEPT !.wakeTimer = IF HasCapacity(b) THEN NextWakeup(b) ELSE b.recoverIn]

FirstEligible(b) == Least({i \in DOMAIN b.pending : b.task[b.pending[i]].readyIn = 0})

StartFirstEligible(b) ==
    [b EXCEPT !.pending = RemoveAt(@, FirstEligible(b)),
              !.active = @ \cup {b.pending[FirstEligible(b)]},
              !.launchIn = b.interval]

\* scheduleRateLimitLaunch: at most one launch, and a timer for the next.
ScheduleRateLimitLaunch(b) ==
    LET quiet == [b EXCEPT !.wakeTimer = NoTimer]
        grown == IF b.pending = << >> THEN quiet ELSE Recover(quiet)
    IN  IF grown.pending # << >> /\ HasCapacity(grown) /\ NextWakeup(grown) = 0
        THEN ScheduleWakeup(StartFirstEligible(grown))
        ELSE ScheduleWakeup(grown)

Schedule(b) ==
    IF Finished(b) THEN b
    ELSE IF Complete(b) THEN End(b, "resolved")
    ELSE IF b.rateLimitMode THEN ScheduleRateLimitLaunch(b)
    ELSE ScheduleNormalLaunch(b)

\* A callback leaves the batch at b and the attempts at att; the tasks it made
\* active are started (startAttempt).
Becomes(b, att) ==
    LET started == b.active \ batch.active
    IN  /\ batch' = b
        /\ attempt' = [t \in Tasks |-> IF t \in started THEN Fresh ELSE att[t]]

-----------------------------------------------------------------------------
(* The batch is run, and aborted *)

Run ==
    /\ batch.phase = "created"
    /\ Becomes(Schedule([batch EXCEPT !.phase = "running"]), attempt)
    /\ UNCHANGED rateLimits

\* Mutant: the attempts are unlinked before the signal is aborted.
AbortAttempts_AfterCleanup == UNCHANGED attempt

\* The batch's controller aborts every linked attempt.
AbortAttempts ==
    attempt' = [t \in Tasks |-> IF t \in batch.active
                                THEN [attempt[t] EXCEPT !.aborted = TRUE] ELSE attempt[t]]

\* Mutant: a cancelled batch reports all its tasks as aborted.
CancelledResult_All(t) == Result("aborted", "not_started")

\* What a task is reported as when the user cancels.
CancelledResult(t) ==
    IF batch.results[t] # NoResult THEN batch.results[t]
    ELSE Result("aborted", IF batch.task[t].started \/ batch.task[t].agent
                           THEN "started" ELSE "not_started")

\* The user cancels: the batch resolves with what it has.
CancelByUser ==
    /\ ~Finished(batch)
    /\ AbortAttempts
    /\ batch' = End([batch EXCEPT !.results = [t \in Tasks |-> CancelledResult(t)]],
                    "resolved")
    /\ UNCHANGED rateLimits

\* The turn of the parent is aborted for another reason: the batch rejects.
Abort ==
    /\ ~Finished(batch)
    /\ AbortAttempts
    /\ batch' = End(batch, "rejected")
    /\ UNCHANGED rateLimits

-----------------------------------------------------------------------------
(* An attempt *)

\* releaseAttempt: an attempt the batch has given up on is not listened to.
\* Otherwise it is released with the task's result, or requeued, and the next
\* launch is scheduled.
Settle(t, b) ==
    LET att == [attempt EXCEPT ![t] = [NotAttempted EXCEPT !.pc = "ended"]]
    IN  IF t \in batch.active
        THEN Becomes(Schedule([b EXCEPT !.active = @ \ {t}]), att)
        ELSE attempt' = att /\ UNCHANGED batch

Settled(status, t) ==
    [batch EXCEPT !.results[t] =
        Result(status, IF batch.task[t].agent THEN "started" ELSE "not_started")]

\* spawn, resume or retry returns a handle, or fails.
Launched(t) ==
    /\ attempt[t].pc = "launching"
    /\ batch' = IF Finished(batch) THEN batch ELSE [batch EXCEPT !.task[t].agent = TRUE]
    /\ attempt' = [attempt EXCEPT ![t].pc = "running"]
    /\ UNCHANGED rateLimits

LaunchFails(t) ==
    /\ attempt[t].pc = "launching"
    /\ Settle(t, Settled("failed", t))
    /\ UNCHANGED rateLimits

\* markAttemptReady, from the child's first request to the model.
Ready(t) ==
    /\ attempt[t].pc = "running" /\ ~attempt[t].ready
    /\ t \in batch.active
    /\ LET b == [batch EXCEPT !.task[t].started = TRUE]
       IN  Becomes(IF b.rateLimitMode
                   THEN Schedule([b EXCEPT !.interval = RetryBase, !.launchIn = RetryBase])
                   ELSE [b EXCEPT !.startedSuccessCount = @ + 1],
                   [attempt EXCEPT ![t].ready = TRUE])
    /\ UNCHANGED rateLimits

\* The child completes or fails, at the latest when the task's timeout aborts it.
AttemptEnds(t) ==
    /\ attempt[t].pc = "running"
    /\ \E status \in {"completed", "failed"} : Settle(t, Settled(status, t))
    /\ UNCHANGED rateLimits

IsOnlyUnfinishedTask(t) == \A u \in Tasks \ {t} : batch.results[u] # NoResult

\* shrinkRateLimitCapacity
Shrink(b, force) ==
    IF force \/ b.shrinkIn = 0
    THEN [b EXCEPT !.capacity = Most(1, @ - 1), !.shrinkIn = CapacityShrinkInterval]
    ELSE b

\* enterRateLimitMode
EnterRateLimitMode(b) ==
    IF b.rateLimitMode THEN Shrink(b, FALSE)
    ELSE Shrink([b EXCEPT !.rateLimitMode = TRUE, !.normalTimer = NoTimer,
                          !.capacity = Most(1, b.startedSuccessCount),
                          !.launchIn = Most(@, RetryBase)], TRUE)

RetryDelay(n) == RetryBase * 2^(n - 1)

\* requeueRateLimited
Requeue(t) ==
    LET delay == RetryDelay(batch.task[t].retryCount + 1)
        task == [batch.task[t] EXCEPT !.agent = TRUE, !.retryCount = @ + 1,
                                      !.readyIn = delay]
        b == EnterRateLimitMode(
                [batch EXCEPT !.task[t] = task, !.pending = <<t>> \o @,
                              !.recoverIn = CapacityRecoveryInterval])
        interval == Most(b.interval * 2, delay)
    IN  IF attempt[t].ready
        THEN [b EXCEPT !.launchIn = Most(@, RetryBase)]
        ELSE [b EXCEPT !.interval = interval, !.launchIn = Most(@, interval)]

\* The provider refuses the child for its rate.
RateLimited(t) ==
    /\ attempt[t].pc = "running" /\ ~attempt[t].aborted
    /\ rateLimits < MaxRateLimits
    /\ rateLimits' = rateLimits + 1
    /\ Settle(t, IF IsOnlyUnfinishedTask(t)
                 THEN [batch EXCEPT !.results[t] = Result("failed", "started")]
                 ELSE Requeue(t))

-----------------------------------------------------------------------------
(* Time *)

NormalTimerFires ==
    /\ batch.normalTimer = 0
    /\ LET b == [batch EXCEPT !.normalTimer = NoTimer]
       IN  Becomes(IF b.pending = << >> THEN b
                   ELSE Schedule([b EXCEPT !.pending = Tail(@),
                                           !.active = @ \cup {Head(b.pending)},
                                           !.normalLaunchCount = @ + 1]),
                   attempt)
    /\ UNCHANGED rateLimits

WakeTimerFires ==
    /\ batch.wakeTimer = 0
    /\ Becomes(Schedule([batch EXCEPT !.wakeTimer = NoTimer]), attempt)
    /\ UNCHANGED rateLimits

Less(x) == IF x \in Nat \ {0} THEN x - 1 ELSE x

Tick ==
    /\ batch.phase = "running" /\ batch.normalTimer # 0 /\ batch.wakeTimer # 0
    /\ batch' = [batch EXCEPT !.normalTimer = Less(@), !.wakeTimer = Less(@),
                              !.launchIn = Less(@), !.recoverIn = Less(@), !.shrinkIn = Less(@),
                              !.task = [t \in Tasks |->
                                  [batch.task[t] EXCEPT !.readyIn = Less(@)]]]
    /\ batch' # batch
    /\ UNCHANGED <<attempt, rateLimits>>

AttemptStep(t) ==
    Launched(t) \/ LaunchFails(t) \/ Ready(t) \/ AttemptEnds(t) \/ RateLimited(t)

Next ==
    \/ Run \/ CancelByUser \/ Abort \/ NormalTimerFires \/ WakeTimerFires \/ Tick
    \/ \E t \in Tasks : AttemptStep(t)

\* What goes on by itself: time passes and due timers fire, a launch returns, an
\* attempt ends, since every task of a swarm has a timeout (tools/builtin/
\* collaboration/agent-swarm.ts:148).
Progress ==
    \/ Run \/ NormalTimerFires \/ WakeTimerFires \/ Tick
    \/ \E t \in Tasks : Launched(t) \/ LaunchFails(t) \/ AttemptEnds(t)

Fairness == WF_vars(Progress)

Spec == Init /\ [][Next]_vars /\ Fairness

-----------------------------------------------------------------------------
(* Properties *)

TypeOK ==
    /\ batch.phase \in {"created", "running", "resolved", "rejected"}
    /\ batch.pending \in Seq(Tasks) /\ batch.active \subseteq Tasks
    /\ batch.results \in [Tasks -> Results \cup {NoResult}]
    /\ batch.normalTimer \in 0..InitialLaunchInterval \cup {NoTimer}
    /\ batch.wakeTimer \in 0..CapacityRecoveryInterval \cup {NoTimer}
    /\ batch.capacity \in Nat \ {0} /\ batch.interval >= RetryBase
    /\ \A t \in batch.active : attempt[t].pc \in {"launching", "running"}

\* While the batch runs, every task is in exactly one place: once in the queue,
\* in one attempt, or finished.  None is lost or launched twice, whatever is
\* rate-limited, released late or picked out of the middle of the queue.
EachTaskInOnePlace ==
    batch.phase = "running" =>
        \A t \in Tasks :
            Cardinality({i \in DOMAIN batch.pending : batch.pending[i] = t})
            + (IF t \in batch.active THEN 1 ELSE 0)
            + (IF batch.results[t] # NoResult THEN 1 ELSE 0) = 1

\* A running batch is never stuck: one without a queue has an attempt under way, whose end
\* goes on with it or resolves it, and a queue is watched by the timer of its mode, also
\* after the change of modes and while all the capacity is taken.
NeverStuck ==
    batch.phase = "running" =>
        IF batch.pending = << >> THEN batch.active # {}
        ELSE IF batch.rateLimitMode THEN batch.wakeTimer # NoTimer
        ELSE batch.normalTimer # NoTimer

\* When the batch is over no child is left running, except ones told to stop.
NoChildLeftRunning ==
    Finished(batch) =>
        \A t \in Tasks : attempt[t].pc \in {"launching", "running"} =>
            attempt[t].aborted

\* A batch that runs ends, whenever the provider refuses its tasks (MaxRateLimits times in
\* all), whatever is requeued, throttled or cancelled on the way.
BatchEnds == batch.phase = "running" ~> Finished(batch)

\* The batch is a pool of tasks: none is dropped, attempted twice or attempted again
\* after its result, a result is never changed or lost, and the batch resolves with the
\* last of them, whatever its timers, rate limits and late attempts do.
Pool == INSTANCE TaskPool
    WITH phase <- batch.phase, queued <- ToSet(batch.pending),
         attempted <- batch.active, results <- batch.results

ImplementsTaskPool == Pool!Spec
=============================================================================
