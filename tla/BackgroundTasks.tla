--------------------------- MODULE BackgroundTasks ---------------------------
(***************************************************************************)
(* The background tasks of an agent: BackgroundManager                     *)
(* (packages/agent-core/src/agent/background/index.ts), the three kinds of *)
(* task it runs, its callers (TaskStop, TaskOutput, the client), the file  *)
(* of each task, and what a restart makes of it.  The end of a task        *)
(* reaches the model as a notification: a steer while the process lives, a *)
(* message appended on resume otherwise.  What is appended while calls of  *)
(* tools are open is held until their results are there.                   *)
(*                                                                         *)
(* A task is registered once (ids are random).  The notification of a task *)
(* is named by the task and the status it reports, the key of the code.    *)
(***************************************************************************)
EXTENDS Naturals, Sequences, FiniteSets, SequencesExt

CONSTANTS
    Tasks,
    Callers,      \* calls of stop and wait that may be under way at once
    MaxRunning,   \* the configured limit, maxRunningTasks
    MaxCrashes, MaxFailedWrites,   \* bounds: processes that die, task files not written
    MaxExchanges,  \* bound: exchanges of tool calls and results in the context
    None

Terminal == {"completed", "failed", "timed_out", "killed", "lost"}

\* What a task's file holds.
File == [status : Terminal \cup {"running"}, suppressed : BOOLEAN]

ASSUME BackgroundAssumption == None \notin File /\ None \notin Tasks

VARIABLES
    proc,       \* up, loading (reconcile under way) or down
    mem,        \* ManagedTask.status; new, ghost (known from its file only), forgotten
    entry,      \* the other fields of ManagedTask
    disk,       \* the task's file: status and suppression flag, or None
    calls,      \* the calls under way: where each awaits, and how many writes it awaits
    scheduled, delivered,   \* scheduledNotificationKeys, deliveredNotificationKeys
    steers,     \* notifications in the turn's steer buffer
    history,    \* what was recorded for the context: notifications, exchanges, oldest first
    durable,    \* how much of it the last restart found in the record log
    told,       \* history: statuses returned to callers of stop and wait
    glimpsed,   \* history: statuses this process gave away without awaiting the file
    hushed,     \* history: tasks whose end TaskStop returned
    unsaved,    \* history: tasks with a write that failed
    crashes, failures

vars == <<proc, mem, entry, disk, calls, scheduled, delivered, steers, history, durable,
          told, glimpsed, hushed, unsaved, crashes, failures>>

\* A shell command, or a subagent or question.
Kinds == {"process", "agent"}

NewEntry == [kind |-> "agent", aborted |-> FALSE, suppressed |-> FALSE, fired |-> FALSE,
             ended |-> FALSE,     \* task.start has settled
             queue |-> << >>,     \* persistWriteQueue: what is still to be written
             reading |-> FALSE]   \* the notification waits for the tail of the output
NoCall == [pc |-> "idle", task |-> None, due |-> 0, quiet |-> FALSE]

Init ==
    /\ proc = "up"
    /\ mem = [t \in Tasks |-> "new"]
    /\ entry = [t \in Tasks |-> NewEntry]
    /\ disk = [t \in Tasks |-> None]
    /\ calls = [c \in Callers |-> NoCall]
    /\ scheduled = {} /\ delivered = {} /\ steers = << >> /\ history = << >> /\ durable = 0
    /\ told = [t \in Tasks |-> {}] /\ glimpsed = [t \in Tasks |-> {}]
    /\ hushed = {} /\ unsaved = {}
    /\ crashes = 0 /\ failures = 0

-----------------------------------------------------------------------------
(* Helpers *)

Key(t, status) == [task |-> t, status |-> status]
IsLive(t) == mem[t] \in Terminal \cup {"running"}
activeTaskCount == Cardinality({t \in Tasks : mem[t] = "running"})
isSuppressed(t) == \/ IsLive(t) /\ entry[t].suppressed
                   \/ mem[t] = "ghost" /\ disk[t].suppressed

\* The first tool call of an exchange that is recorded, and the last result.
Call == [task |-> None, status |-> "call"]
Result == [task |-> None, status |-> "result"]

\* The call recorded at k in h has not been answered; what follows it is held back.
Unanswered(h, k) == h[k] = Call /\ \A m \in k..Len(h) : h[m] # Result
Held(h, i) == \E k \in 1..(i - 1) : Unanswered(h, k)
hasOpenToolExchange == \E k \in DOMAIN history : Unanswered(history, k)

\* The notifications that pushHistory has seen.
Heard(h) == {h[i] : i \in {j \in DOMAIN h : h[j].task \in Tasks /\ ~Held(h, j)}}

\* appendMessage, of each of a sequence.
appendToContext(entries) ==
    /\ history' = history \o entries
    /\ delivered' = Heard(history \o entries)

\* getTask: the status of a task as the process knows it.
Status(t) == IF mem[t] = "ghost" THEN disk[t].status ELSE mem[t]

\* Mutant: toInfo drops the suppression flag.
Persist_NoFlag(e, status, settles) ==
    [e EXCEPT !.queue = Append(@, [status |-> status, suppressed |-> FALSE,
                                   settles |-> settles])]

\* persistLive: the file as it is now joins the queue of the task.  The last field says
\* that a settleTask awaits the write.
Persist(e, status, settles) ==
    [e EXCEPT !.queue = Append(@, [status |-> status, suppressed |-> e.suppressed,
                                   settles |-> settles])]

\* settleTask up to its await, from the fields and the status of a task to the new ones:
\* the first end wins, and killed may be recorded again.
Settled(e, old, new) ==
    IF old = "running" THEN <<Persist(e, new, TRUE), new>>
    ELSE IF old = "killed" /\ new = "killed" THEN <<Persist(e, new, TRUE), old>>
    ELSE <<e, old>>

Settle(t, e, status) ==
    LET s == Settled(e, mem[t], status)
    IN  entry' = [entry EXCEPT ![t] = s[1]] /\ mem' = [mem EXCEPT ![t] = s[2]]

\* What a task may report of its end.  A process that was told to stop was killed; an
\* agent may finish, fail or run out of time all the same.
Outcomes(t) ==
    IF entry[t].kind = "process"
    THEN IF entry[t].aborted THEN {"killed"} ELSE {"completed", "failed"}
    ELSE {"completed", "failed", "timed_out"}
         \cup (IF entry[t].aborted THEN {"killed"} ELSE {})

Return(c, t) ==
    /\ calls' = [calls EXCEPT ![c] = NoCall]
    /\ told' = IF mem[t] \in Terminal THEN [told EXCEPT ![t] = @ \cup {mem[t]}] ELSE told
    /\ hushed' = IF calls[c].quiet THEN hushed \cup {t} ELSE hushed

Goto(c, pc, due) ==
    /\ calls' = [calls EXCEPT ![c].pc = pc, ![c].due = due]
    /\ UNCHANGED <<told, glimpsed, hushed>>

\* await entry.persistWriteQueue: the writes queued by now.
AwaitQueue(c, t) == Goto(c, "flush", Len(entry[t].queue))

-----------------------------------------------------------------------------
(* Tasks and their files *)

registerTask(t) ==
    /\ proc = "up" /\ mem[t] = "new" /\ activeTaskCount < MaxRunning
    /\ mem' = [mem EXCEPT ![t] = "running"]
    /\ \E k \in Kinds :
           entry' = [entry EXCEPT ![t] = Persist([NewEntry EXCEPT !.kind = k], "running", FALSE)]
    /\ UNCHANGED <<proc, disk, calls, scheduled, delivered, steers, history, durable, told,
                   glimpsed, hushed, unsaved, crashes, failures>>

\* task.start settles, whatever has become of the task.
TaskEnds(t) ==
    /\ proc = "up" /\ IsLive(t) /\ ~entry[t].ended
    /\ \E status \in Outcomes(t) : Settle(t, [entry[t] EXCEPT !.ended = TRUE], status)
    /\ UNCHANGED <<proc, disk, calls, scheduled, delivered, steers, history, durable, told,
                   glimpsed, hushed, unsaved, crashes, failures>>

\* fireTerminalEffects, and the first half of the notification.
Fired(t, e) ==
    IF e.fired \/ e.suppressed \/ Key(t, mem[t]) \in scheduled \cup delivered
    THEN [e EXCEPT !.fired = TRUE]
    ELSE [e EXCEPT !.fired = TRUE, !.reading = TRUE]

\* The write at the head of the queue succeeds, or fails and is forgotten; whoever
\* awaits it goes on, and the end of a task wakes its waiters.
WriteTask(t) ==
    /\ IsLive(t) /\ entry[t].queue # << >>
    /\ LET w == Head(entry[t].queue)
           e == [entry[t] EXCEPT !.queue = Tail(@)]
           left == Len(e.queue)
       IN  /\ \/ /\ disk' = [disk EXCEPT ![t] = [status |-> w.status, suppressed |-> w.suppressed]]
                 /\ UNCHANGED <<unsaved, failures>>
              \/ /\ failures < MaxFailedWrites
                 /\ failures' = failures + 1 /\ unsaved' = unsaved \cup {t}
                 /\ disk' = disk
           /\ entry' = [entry EXCEPT ![t] = IF w.settles THEN Fired(t, e) ELSE e]
           /\ scheduled' = IF w.settles /\ Fired(t, e).reading
                           THEN scheduled \cup {Key(t, mem[t])} ELSE scheduled
           /\ calls' = [c \in Callers |->
                  IF calls[c].task # t THEN calls[c]
                  ELSE IF calls[c].pc = "wait"
                  THEN IF w.settles THEN [calls[c] EXCEPT !.pc = "flush", !.due = left]
                       ELSE calls[c]
                  ELSE [calls[c] EXCEPT !.due = IF @ = 0 THEN 0 ELSE @ - 1]]
    /\ UNCHANGED <<proc, mem, delivered, steers, history, durable, told, glimpsed, hushed,
                   crashes>>

\* The tail of the output has been read: the notification becomes a steer, unless it was
\* suppressed in the meantime.  The turn flow buffers a steer when a turn is active, and
\* launches a turn with it otherwise, which appends it at once.
NotifyTask(t) ==
    /\ entry[t].reading
    /\ entry' = [entry EXCEPT ![t].reading = FALSE]
    /\ IF entry[t].suppressed THEN UNCHANGED <<steers, history, delivered>>
       ELSE \/ steers' = Append(steers, Key(t, mem[t])) /\ UNCHANGED <<history, delivered>>
            \/ appendToContext(<<Key(t, mem[t])>>) /\ steers' = steers
    /\ UNCHANGED <<proc, mem, disk, calls, scheduled, durable, told, glimpsed, hushed,
                   unsaved, crashes, failures>>

-----------------------------------------------------------------------------
(* Calls *)

\* stop, up to its race against the grace period.
BeginStop(c, t) ==
    IF mem[t] \in Terminal
    THEN /\ calls' = [calls EXCEPT ![c] = [@ EXCEPT !.pc = "flush", !.task = t,
                                                    !.due = Len(entry[t].queue)]]
         /\ UNCHANGED entry
    ELSE /\ calls' = [calls EXCEPT ![c] = [@ EXCEPT !.pc = "grace", !.task = t]]
         /\ entry' = [entry EXCEPT ![t].aborted = TRUE]

\* The client, the deadline of a command, or the end of the session stops a task.
stop(c, t) ==
    /\ proc = "up" /\ calls[c].pc = "idle" /\ IsLive(t)
    /\ BeginStop(c, t)
    /\ UNCHANGED <<proc, mem, disk, scheduled, delivered, steers, history, durable, told,
                   glimpsed, hushed, unsaved, crashes, failures>>

\* The status as it is, without a look at the writes that are queued.
AnswerAtOnce(t) ==
    /\ proc = "up" /\ Status(t) \in Terminal
    /\ glimpsed' = [glimpsed EXCEPT ![t] = @ \cup {Status(t)}]

\* TaskStop.  Of a running task: suppressTerminalNotification, and stop when that is
\* written.  Of one that has ended: its status, and the notification takes its course.
TaskStop(c, t) ==
    /\ proc = "up" /\ calls[c].pc = "idle"
    /\ \/ /\ mem[t] = "running"
          /\ LET e == IF entry[t].suppressed THEN entry[t]
                      ELSE Persist([entry[t] EXCEPT !.suppressed = TRUE], mem[t], FALSE)
             IN  /\ entry' = [entry EXCEPT ![t] = e]
                 /\ calls' = [calls EXCEPT ![c] =
                        [pc |-> "suppress", task |-> t, quiet |-> TRUE,
                         due |-> IF entry[t].suppressed THEN 0 ELSE Len(e.queue)]]
          /\ UNCHANGED glimpsed
       \/ AnswerAtOnce(t) /\ UNCHANGED <<entry, calls>>
    /\ UNCHANGED <<proc, mem, disk, scheduled, delivered, steers, history, durable, told,
                   hushed, unsaved, crashes, failures>>

\* TaskOutput: after its wait, if it waits at all, it asks for the task again.
TaskOutput(t) ==
    /\ AnswerAtOnce(t)
    /\ UNCHANGED <<proc, mem, entry, disk, calls, scheduled, delivered, steers, history,
                   durable, told, hushed, unsaved, crashes, failures>>

Suppressed(c) ==
    /\ calls[c].pc = "suppress" /\ calls[c].due = 0
    /\ BeginStop(c, calls[c].task)
    /\ UNCHANGED <<proc, mem, disk, scheduled, delivered, steers, history, durable, told,
                   glimpsed, hushed, unsaved, crashes, failures>>

\* The task has settled or the grace timer fires: a task that is still running is stopped
\* by force.
GraceOver(c) ==
    /\ calls[c].pc = "grace"
    /\ IF mem[calls[c].task] \in Terminal THEN AwaitQueue(c, calls[c].task)
       ELSE Goto(c, "force", 0)
    /\ UNCHANGED <<proc, mem, entry, disk, scheduled, delivered, steers, history, durable,
                   glimpsed, unsaved, crashes, failures>>

\* forceStop has returned: the manager settles a task that has not done so.
Forced(c) ==
    /\ calls[c].pc = "force"
    /\ LET t == calls[c].task
       IN  IF mem[t] \in Terminal
           THEN AwaitQueue(c, t) /\ UNCHANGED <<mem, entry>>
           ELSE Settle(t, entry[t], "killed") /\ Goto(c, "flush", Len(entry[t].queue) + 1)
    /\ UNCHANGED <<proc, disk, scheduled, delivered, steers, history, durable, glimpsed,
                   unsaved, crashes, failures>>

\* wait, with a timeout.
wait(c, t) ==
    /\ proc = "up" /\ calls[c].pc = "idle" /\ IsLive(t)
    /\ calls' = [calls EXCEPT ![c] =
           [@ EXCEPT !.pc = IF mem[t] \in Terminal THEN "flush" ELSE "wait",
                     !.task = t, !.due = Len(entry[t].queue)]]
    /\ UNCHANGED <<proc, mem, entry, disk, scheduled, delivered, steers, history, durable,
                   told, glimpsed, hushed, unsaved, crashes, failures>>

WaitTimesOut(c) ==
    /\ calls[c].pc = "wait"
    /\ IF mem[calls[c].task] \in Terminal THEN AwaitQueue(c, calls[c].task)
       ELSE Return(c, calls[c].task)
    /\ UNCHANGED <<proc, mem, entry, disk, scheduled, delivered, steers, history, durable,
                   glimpsed, unsaved, crashes, failures>>

\* Mutant: a caller gets the status before it is written.
Returns_AtOnce(c) ==
    /\ calls[c].pc = "flush"
    /\ Return(c, calls[c].task)
    /\ UNCHANGED <<proc, mem, entry, disk, scheduled, delivered, steers, history, durable,
                   glimpsed, unsaved, crashes, failures>>

Returns(c) ==
    /\ calls[c].pc = "flush" /\ calls[c].due = 0
    /\ Return(c, calls[c].task)
    /\ UNCHANGED <<proc, mem, entry, disk, scheduled, delivered, steers, history, durable,
                   glimpsed, unsaved, crashes, failures>>

-----------------------------------------------------------------------------
(* The context, a crash and a restart *)

\* A step of a turn begins, or a turn is about to stop: it appends the steers in its buffer.
flushSteerBuffer ==
    /\ steers # << >>
    /\ appendToContext(steers) /\ steers' = << >>
    /\ UNCHANGED <<proc, mem, entry, disk, calls, scheduled, durable, told, glimpsed, hushed,
                   unsaved, crashes, failures>>

\* A turn records the first call of a step, and later the last result it lacked, with
\* which everything held back is pushed.  An exchange the process did not begin itself
\* gets no results.
ToolCall ==
    /\ proc = "up" /\ ~hasOpenToolExchange
    /\ Cardinality({k \in DOMAIN history : history[k] = Call}) < MaxExchanges
    /\ appendToContext(<<Call>>)
    /\ UNCHANGED <<proc, mem, entry, disk, calls, scheduled, steers, durable, told, glimpsed,
                   hushed, unsaved, crashes, failures>>

ToolResults ==
    /\ proc = "up" /\ hasOpenToolExchange
    /\ \A k \in 1..durable : ~Unanswered(history, k)
    /\ appendToContext(<<Result>>)
    /\ UNCHANGED <<proc, mem, entry, disk, calls, scheduled, steers, durable, told, glimpsed,
                   hushed, unsaved, crashes, failures>>

\* The process dies; the record log has reached the disk up to some point.
Crash ==
    /\ proc # "down" /\ crashes < MaxCrashes
    /\ proc' = "down" /\ crashes' = crashes + 1
    /\ mem' = [t \in Tasks |-> IF disk[t] # None THEN "ghost"
                               ELSE IF mem[t] = "new" THEN "new" ELSE "forgotten"]
    /\ entry' = [t \in Tasks |-> NewEntry]
    /\ calls' = [c \in Callers |-> NoCall]
    /\ scheduled' = {} /\ delivered' = {} /\ steers' = << >>
    /\ glimpsed' = [t \in Tasks |-> {}]
    /\ \E n \in durable..Len(history) : durable' = n /\ history' = SubSeq(history, 1, n)
    /\ UNCHANGED <<disk, told, hushed, unsaved, failures>>

\* The log is replayed and the task files are loaded.
Resume ==
    /\ proc = "down" /\ proc' = "loading"
    /\ delivered' = Heard(history)
    /\ UNCHANGED <<mem, entry, disk, calls, scheduled, steers, history, durable, told,
                   glimpsed, hushed, unsaved, crashes, failures>>

MarkLost(t) ==
    /\ proc = "loading" /\ mem[t] = "ghost" /\ disk[t].status \notin Terminal
    /\ disk' = [disk EXCEPT ![t].status = "lost"]
    /\ UNCHANGED <<proc, mem, entry, calls, scheduled, delivered, steers, history, durable,
                   told, glimpsed, hushed, unsaved, crashes, failures>>

AllLoadedTerminal == \A t \in Tasks : mem[t] = "ghost" => disk[t].status \in Terminal

\* Mutant: the keys that the replay found delivered are not consulted.
ToRestore_Ignorant(t) ==
    /\ mem[t] = "ghost" /\ ~isSuppressed(t)
    /\ Key(t, disk[t].status) \notin scheduled

ToRestore(t) ==
    /\ mem[t] = "ghost" /\ ~isSuppressed(t)
    /\ Key(t, disk[t].status) \notin scheduled \cup delivered

\* restoreBackgroundTaskNotification, when every loaded task has an end.
Restore(t) ==
    /\ proc = "loading" /\ AllLoadedTerminal /\ ToRestore(t)
    /\ LET key == Key(t, disk[t].status)
       IN  /\ scheduled' = scheduled \cup {key}
           /\ appendToContext(<<key>>)
    /\ UNCHANGED <<proc, mem, entry, disk, calls, steers, durable, told, glimpsed, hushed,
                   unsaved, crashes, failures>>

\* Mutant: the ends that a crash kept from the context are not made up for.
Resumed_NoRestore ==
    /\ proc = "loading" /\ AllLoadedTerminal
    /\ proc' = "up"
    /\ UNCHANGED <<mem, entry, disk, calls, scheduled, delivered, steers, history, durable,
                   told, glimpsed, hushed, unsaved, crashes, failures>>

Resumed ==
    /\ proc = "loading" /\ AllLoadedTerminal /\ \A t \in Tasks : ~ToRestore(t)
    /\ proc' = "up"
    /\ UNCHANGED <<mem, entry, disk, calls, scheduled, delivered, steers, history, durable,
                   told, glimpsed, hushed, unsaved, crashes, failures>>

Next ==
    \/ \E t \in Tasks :
           registerTask(t) \/ TaskEnds(t) \/ WriteTask(t) \/ NotifyTask(t)
           \/ TaskOutput(t) \/ MarkLost(t) \/ Restore(t)
    \/ \E c \in Callers, t \in Tasks : stop(c, t) \/ TaskStop(c, t) \/ wait(c, t)
    \/ \E c \in Callers : Suppressed(c) \/ GraceOver(c) \/ Forced(c) \/ WaitTimesOut(c) \/ Returns(c)
    \/ flushSteerBuffer \/ ToolCall \/ ToolResults \/ Crash \/ Resume \/ Resumed

\* File operations and timers make progress, and a session whose process died is resumed;
\* a task need never end, nobody need stop it, and no turn need take a step.
Fairness ==
    /\ \A t \in Tasks : /\ WF_vars(WriteTask(t)) /\ WF_vars(NotifyTask(t))
                        /\ WF_vars(MarkLost(t)) /\ WF_vars(Restore(t))
    /\ \A c \in Callers : /\ WF_vars(Suppressed(c)) /\ WF_vars(GraceOver(c)) /\ WF_vars(Forced(c))
                          /\ WF_vars(WaitTimesOut(c)) /\ WF_vars(Returns(c))
    /\ WF_vars(Resume) /\ WF_vars(Resumed)

Spec == Init /\ [][Next]_vars /\ Fairness

-----------------------------------------------------------------------------
(* Properties *)

TypeOK ==
    /\ proc \in {"up", "loading", "down"}
    /\ mem \in [Tasks -> Terminal \cup {"new", "running", "ghost", "forgotten"}]
    /\ \A t \in Tasks : /\ DOMAIN entry[t] = DOMAIN NewEntry
                        /\ mem[t] = "ghost" => disk[t] # None
    /\ \A c \in Callers : calls[c].pc \in {"idle", "suppress", "grace", "force", "flush", "wait"}
    /\ delivered \subseteq ToSet(history)
    /\ durable \in 0..Len(history)

\* The open exchange was begun by a process that has died: what is held behind its call
\* is never read, unless the user undoes or clears it.
HeldForEver(i) == \E k \in 1..durable : k < i /\ Unanswered(history, k)

\* The end of a task is told to the model at most once, whatever races (it ends while it is
\* stopped, or the process dies between its end, its file, the notification and the log)
\* and however often the session is resumed.  It is recorded twice only behind calls that a
\* crash kept from their results, where the model reads neither.
ReportedOnce ==
    \A i, j \in DOMAIN history :
        history[i].task = history[j].task /\ history[i].task \in Tasks \ unsaved =>
            i = j \/ (HeldForEver(i) /\ HeldForEver(j))

\* What the context and the callers of stop and wait were told about the end of a task is
\* what its file says: nobody who awaited it hears of an end that a crash could still
\* change.  What TaskStop of an ended task and TaskOutput say at once, ahead of the file,
\* is no other end: the process stays with it, and no caller is told differently.
ToldAsRecorded ==
    \A t \in Tasks \ unsaved :
        /\ \A s \in told[t] \cup {history[i].status : i \in {j \in DOMAIN history :
                                                             history[j].task = t}} :
               disk[t] # None /\ disk[t].status = s
        /\ \A s \in glimpsed[t] : Status(t) = s

\* A task that TaskStop found running, and whose end it returned to the model, is not
\* reported to it a second time by a notification, not even by the restart that finds the
\* task's file.
StoppedQuietly ==
    \A t \in hushed \ unsaved : \A i \in DOMAIN history : history[i].task # t

Ended(t) == mem[t] \in Terminal \/ mem[t] = "ghost"
Steered(t) == \E i \in DOMAIN steers : steers[i].task = t
Reported(t) == \E i \in DOMAIN history : history[i].task = t

\* The end of a task is never forgotten on its way to the context: until it is there it is
\* with the write that settles it, with the read of its output or in the steer buffer, and
\* a resumed session has caught up with the ends its files hold.
EndOnItsWay ==
    /\ \A t \in Tasks : mem[t] \in Terminal /\ ~isSuppressed(t) =>
           \/ \E i \in DOMAIN entry[t].queue : entry[t].queue[i].settles
           \/ entry[t].reading
           \/ Steered(t)
           \/ Reported(t)
    /\ \A t \in Tasks : proc = "up" /\ mem[t] = "ghost" /\ ~isSuppressed(t) => Reported(t)

\* The end of a task reaches the turn flow or the context in the end, in this process or by
\* a later one, unless it is suppressed or no file of the task had been written when the
\* process died.  A steer that comes after the last flush of a turn is left to the next one.
EndIsHandedOver ==
    \A t \in Tasks :
        Ended(t) ~> (Steered(t) \/ Reported(t) \/ isSuppressed(t) \/ mem[t] = "forgotten")

=============================================================================
