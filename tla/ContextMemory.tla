---------------------------- MODULE ContextMemory ----------------------------
(***************************************************************************)
(* The conversation an agent sends to the model                            *)
(* (packages/agent-core/src/agent/context/index.ts), written by the steps  *)
(* of its turns (loop/turn-step.ts), by user edits and reminders, and      *)
(* rewritten by an asynchronous compaction (agent/compaction/full.ts).     *)
(*                                                                         *)
(* A message is named by its kind and id; an assistant message is the      *)
(* object its step fills in place.  BusyCalls says which calls the client  *)
(* makes while a turn runs: the core refuses none of them, the terminal UI *)
(* offers some.  A crash loses the workers; replaying the records rebuilds *)
(* the memory: every operation logs itself and replay calls it again.      *)
(***************************************************************************)
EXTENDS Naturals, Sequences, FiniteSets, SequencesExt

CONSTANTS
    MaxTurns,        \* bound: prompts
    MaxReminders,    \* bound: reminders and injections
    MaxSteps,        \* bound: steps begun
    MaxCalls,        \* bound: tool calls of a step
    MaxCompactions,  \* bound: compactions begun
    MaxEdits,        \* bound: undo and clear
    MaxRestarts,     \* bound: crashes
    BusyCalls,       \* calls the client makes while the agent is busy
    NoTurn           \* no active turn

ASSUME ContextAssumption ==
    /\ MaxTurns \in Nat /\ MaxReminders \in Nat /\ MaxSteps \in Nat /\ MaxCalls \in Nat
    /\ MaxCompactions \in Nat /\ MaxEdits \in Nat /\ MaxRestarts \in Nat
    /\ BusyCalls \subseteq {"prompt", "undo", "clear", "compact", "cancelGoal"}
    /\ NoTurn \notin 1..MaxTurns

Turns == 1..MaxTurns
Compactions == 1..MaxCompactions

VARIABLES
    history,               \* the messages, in order
    openSteps,             \* steps begun and not ended
    pendingToolResultIds,  \* calls recorded whose result is not
    deferredMessages,      \* messages held back while an exchange is open
    worker,                \* worker[w]: the turn prompt w launched
    activeTurn,            \* the turn that refuses further prompts
    compacting,            \* the compaction under way, 0 when there is none
    compactor,             \* compactor[c]: one call of compactionWorker
    used,                  \* [turns, reminders, steps, compactions, edits, restarts]
    unknownStep,           \* an event of a step was recorded that is not open
    crossed                \* history variable: something came between a call and its result

memory == <<history, openSteps, pendingToolResultIds, deferredMessages>>
compaction == <<compacting, compactor>>
contextVars == <<memory, worker, activeTurn, compaction, used, unknownStep, crossed>>

Message(kind, id) == [kind |-> kind, id |-> id, calls |-> {}, text |-> kind # "assistant"]

\* The messages at some of the positions, in order: SelectSeq, written so that its
\* values can be reasoned about.
Pick(messages, positions) ==
    LET picked[n \in 0..Len(messages)] ==
            IF n = 0 THEN << >>
            ELSE IF n \in positions THEN Append(picked[n - 1], messages[n])
            ELSE picked[n - 1]
    IN  picked[Len(messages)]

\* Object identity: an assistant message keeps it while its step fills it.
Name(m) == <<m.kind, m.id>>

NotLaunched == [pc |-> "idle", step |-> 0, calls |-> 0, results |-> 0, aborted |-> FALSE]
Ended == [NotLaunched EXCEPT !.pc = "ended"]
NotBegun == [pc |-> "idle", aborted |-> FALSE, snapshot |-> << >>, count |-> 0]

ContextInit ==
    /\ history = << >> /\ openSteps = {} /\ pendingToolResultIds = {}
    /\ deferredMessages = << >>
    /\ worker = [w \in Turns |-> NotLaunched] /\ activeTurn = NoTurn
    /\ compacting = 0 /\ compactor = [c \in Compactions |-> NotBegun]
    /\ used = [turns |-> 0, reminders |-> 0, steps |-> 0, compactions |-> 0,
               edits |-> 0, restarts |-> 0]
    /\ unknownStep = FALSE /\ crossed = FALSE

Running(w) == worker[w].pc \notin {"idle", "ended"}
Idle == (\A w \in Turns : ~Running(w)) /\ compacting = 0
Allowed(call) == Idle \/ call \in BusyCalls

\* From step.begin to step.end an exchange may open.
InStep == \E w \in Turns : worker[w].pc = "step"

-----------------------------------------------------------------------------
(* The memory *)

\* appendMessage: a message that would fall between a tool call and its result
\* waits.
AppendMessage(m) ==
    IF pendingToolResultIds # {}
    THEN deferredMessages' = Append(deferredMessages, m) /\ UNCHANGED history
    ELSE history' = Append(history, m) /\ UNCHANGED deferredMessages

\* Mutant: the flushed messages stay in the list.
FlushDeferred_Keeps(messages) ==
    IF pendingToolResultIds' # {}
    THEN history' = messages /\ UNCHANGED deferredMessages
    ELSE history' = messages \o deferredMessages /\ UNCHANGED deferredMessages

\* flushDeferredMessagesIfToolExchangeClosed, on a history about to be stored.
FlushDeferred(messages) ==
    IF pendingToolResultIds' # {}
    THEN history' = messages /\ UNCHANGED deferredMessages
    ELSE history' = messages \o deferredMessages /\ deferredMessages' = << >>

\* A step writes into its own message, wherever the history holds it.
Fill(step, text, calls) ==
    [i \in DOMAIN history |->
        IF Name(history[i]) = <<"assistant", step>>
        THEN [history[i] EXCEPT !.text = @ \/ text, !.calls = @ \cup calls]
        ELSE history[i]]

-----------------------------------------------------------------------------
(* What the outside does *)

\* A prompt launches a turn and appends the user's message in the same frame.
Prompt ==
    /\ used.turns < MaxTurns /\ activeTurn = NoTurn /\ Allowed("prompt")
    /\ used' = [used EXCEPT !.turns = @ + 1]
    /\ activeTurn' = used'.turns
    /\ worker' = [worker EXCEPT ![used'.turns].pc = "ready"]
    /\ AppendMessage(Message("prompt", used'.turns))
    /\ crossed' = (crossed \/ InStep)
    /\ UNCHANGED <<openSteps, pendingToolResultIds, compaction, unknownStep>>

\* A reminder (removed by undo) or an injection (kept): from the turn itself
\* before a step, from a tool that runs, from the user cancelling a goal.
Remind(kind) ==
    /\ used.reminders < MaxReminders
    /\ \/ \E w \in Turns : \/ worker[w].pc = "ready"
                           \/ worker[w].pc = "step" /\ worker[w].results < worker[w].calls
       \/ Allowed("cancelGoal")
    /\ used' = [used EXCEPT !.reminders = @ + 1]
    /\ AppendMessage(Message(kind, used'.reminders))
    /\ crossed' = (crossed \/ (InStep /\ pendingToolResultIds = {}))
    /\ UNCHANGED <<openSteps, pendingToolResultIds, worker, activeTurn, compaction, unknownStep>>

\* The abort of a turn that blocks on the compaction under way cancels that too.
Cancel ==
    /\ activeTurn # NoTurn
    /\ worker' = [worker EXCEPT ![activeTurn].aborted = TRUE]
    /\ activeTurn' = NoTurn
    /\ LET w == worker[activeTurn] IN
       IF w.pc = "blocked" /\ compacting = w.step
       THEN /\ compacting' = 0
            /\ compactor' = [compactor EXCEPT ![w.step].aborted = TRUE]
       ELSE UNCHANGED compaction
    /\ UNCHANGED <<memory, used, unknownStep, crossed>>

\* undo(1): everything after the last prompt goes, and the prompt, but no
\* injection, and nothing up to a compaction's summary.
Undo ==
    /\ used.edits < MaxEdits /\ Allowed("undo") /\ history # << >>
    /\ used' = [used EXCEPT !.edits = @ + 1]
    /\ LET Stops == {i \in DOMAIN history : history[i].kind \in {"prompt", "summary"}}
           last  == IF Stops = {} THEN 0 ELSE CHOOSE i \in Stops : \A j \in Stops : j <= i
           kept  == IF last > 0 /\ history[last].kind = "prompt" THEN last - 1 ELSE last
       IN  history' = Pick(history, {i \in DOMAIN history :
                            i <= kept \/ history[i].kind = "injection"})
    /\ openSteps' = {} /\ pendingToolResultIds' = {} /\ deferredMessages' = << >>
    /\ crossed' = (crossed \/ InStep)
    /\ UNCHANGED <<worker, activeTurn, compaction, unknownStep>>

Clear ==
    /\ used.edits < MaxEdits /\ Allowed("clear") /\ history # << >>
    /\ used' = [used EXCEPT !.edits = @ + 1]
    /\ history' = << >> /\ openSteps' = {} /\ pendingToolResultIds' = {}
    /\ deferredMessages' = << >>
    /\ crossed' = (crossed \/ InStep)
    /\ UNCHANGED <<worker, activeTurn, compaction, unknownStep>>

\* The process dies and the session is resumed.  Replay throws on a record of a
\* step that is not open, as the live call did.
Restart ==
    /\ used.restarts < MaxRestarts /\ ~unknownStep
    /\ used' = [used EXCEPT !.restarts = @ + 1]
    /\ worker' = [w \in Turns |-> IF Running(w) THEN Ended ELSE worker[w]]
    /\ activeTurn' = NoTurn
    /\ compacting' = 0
    /\ compactor' = [c \in Compactions |->
            IF compactor[c].pc = "idle" THEN NotBegun ELSE [NotBegun EXCEPT !.pc = "done"]]
    /\ crossed' = (crossed \/ pendingToolResultIds # {})
    /\ UNCHANGED <<memory, unknownStep>>

-----------------------------------------------------------------------------
(* Compaction *)

\* Mutant: a split between the results of one exchange is thought safe.
CanSplitAfter_Orphans(messages, n) ==
    /\ messages[n].kind \notin {"prompt", "reminder", "injection"}
    /\ messages[n].kind = "assistant" => messages[n].calls = {}

\* canSplitAfter: the prefix of length n ends neither with a user message nor
\* with an assistant message that called tools, and no result follows it.
CanSplitAfter(messages, n) ==
    /\ messages[n].kind \notin {"prompt", "reminder", "injection"}
    /\ messages[n].kind = "assistant" => messages[n].calls = {}
    /\ n < Len(messages) => messages[n + 1].kind # "tool"

\* computeCompactCount: a manual compaction takes the longest prefix of two or
\* more messages; which one an automatic compaction takes depends on sizes, but
\* it leaves a message over.
ManualCounts ==
    LET Safe == {n \in 2..Len(history) : CanSplitAfter(history, n)}
    IN  {n \in Safe : \A m \in Safe : m <= n}
AutoCounts == {n \in 1..(Len(history) - 1) : CanSplitAfter(history, n)}

\* begin, with a prefix to compact.
Begin(count) ==
    /\ used' = [used EXCEPT !.compactions = @ + 1]
    /\ compacting' = used'.compactions
    /\ compactor' = [compactor EXCEPT ![used'.compactions] =
            [pc |-> "generating", aborted |-> FALSE, snapshot |-> history, count |-> count]]

BeginManual ==
    /\ used.compactions < MaxCompactions /\ Allowed("compact") /\ compacting = 0
    /\ \E n \in ManualCounts : Begin(n)
    /\ crossed' = (crossed \/ InStep)
    /\ UNCHANGED <<memory, worker, activeTurn, unknownStep>>

CancelCompaction ==
    /\ compacting # 0
    /\ compactor' = [compactor EXCEPT ![compacting].aborted = TRUE]
    /\ compacting' = 0
    /\ UNCHANGED <<memory, worker, activeTurn, used, unknownStep, crossed>>

\* The prefix was too long for the model or its summary truncated:
\* reduceCompactOnOverflow.
Shrink(c) ==
    /\ compactor[c].pc = "generating" /\ ~compactor[c].aborted
    /\ \E n \in 2..(compactor[c].count - 1) :
        /\ CanSplitAfter(compactor[c].snapshot, n)
        /\ compactor' = [compactor EXCEPT ![c].count = n]
    /\ UNCHANGED <<memory, worker, activeTurn, compacting, used, unknownStep, crossed>>

\* Mutant: only the length is compared.
PrefixIntact_Length(c) == Len(compactor[c].snapshot) <= Len(history)

\* The messages there were when the compaction began are still the first ones.
PrefixIntact(c) ==
    /\ Len(compactor[c].snapshot) <= Len(history)
    /\ \A i \in DOMAIN compactor[c].snapshot :
        Name(compactor[c].snapshot[i]) = Name(history[i])

\* The worker is over.
Finish(c, outcome) ==
    compactor' = [compactor EXCEPT ![c] = [NotBegun EXCEPT !.pc = outcome]]

\* cancel, markCanceled: whichever compaction is under way is aborted.
FinishAndCancel(c, outcome) ==
    /\ compacting' = 0
    /\ compactor' = [d \in Compactions |->
            IF d = c THEN [NotBegun EXCEPT !.pc = outcome]
            ELSE [compactor[d] EXCEPT !.aborted = @ \/ d = compacting]]

\* The summary has come; nobody looks at the signal again.  The summary replaces
\* the prefix, whichever compaction is under way being marked as completed, or
\* the history changed meanwhile and the one under way is cancelled.  Where none
\* is, reading it throws, and the summary is lost.
ApplyCompaction(c) ==
    /\ compactor[c].pc = "generating"
    /\ \/ /\ ~PrefixIntact(c)
          /\ FinishAndCancel(c, "done")
          /\ UNCHANGED <<memory, crossed>>
       \/ /\ PrefixIntact(c) /\ compacting = 0
          /\ Finish(c, "done")
          /\ UNCHANGED <<memory, compacting, crossed>>
       \/ /\ PrefixIntact(c) /\ compacting # 0
          /\ Finish(c, "done")
          /\ compacting' = 0
          /\ UNCHANGED pendingToolResultIds
          /\ FlushDeferred(<<Message("summary", c)>> \o
                 SubSeq(history, compactor[c].count + 1, Len(history)))
          /\ openSteps' = {}
          /\ crossed' = (crossed \/ InStep)
    /\ UNCHANGED <<worker, activeTurn, used, unknownStep>>

\* The compaction notices that it was cancelled, or fails otherwise: then the one
\* under way is cancelled, and the failure is thrown if a turn waits for that one.
FailCompaction(c) ==
    /\ compactor[c].pc = "generating"
    /\ \/ /\ compactor[c].aborted
          /\ Finish(c, "done")
          /\ UNCHANGED compacting
       \/ FinishAndCancel(c,
              IF \E w \in Turns : worker[w].pc = "blocked" /\ worker[w].step = compacting
              THEN "failed" ELSE "done")
    /\ UNCHANGED <<memory, worker, activeTurn, used, unknownStep, crossed>>

-----------------------------------------------------------------------------
(* A turn's steps *)

EndTurn(w) ==
    /\ worker' = [worker EXCEPT ![w] = Ended]
    /\ activeTurn' = IF activeTurn = w THEN NoTurn ELSE activeTurn

\* An abort noticed where the turn awaits with no exchange of its own open, or
\* an error of the model.
LeaveTurn(w) ==
    /\ \/ worker[w].pc = "ready" /\ worker[w].aborted
       \/ worker[w].pc = "step" /\ worker[w].calls = 0
       \/ worker[w].pc = "step" /\ worker[w].aborted /\ worker[w].results = worker[w].calls
    /\ EndTurn(w)
    /\ UNCHANGED <<memory, compaction, used, unknownStep, crossed>>

\* fullCompaction.beforeStep and handleOverflowError: the turn blocks on the
\* compaction under way, or on one begun now; it fails when nothing can be
\* compacted.
BlockOnCompaction(w) ==
    /\ \/ worker[w].pc = "ready" /\ ~worker[w].aborted
       \/ worker[w].pc = "step" /\ worker[w].calls = 0 /\ ~worker[w].aborted
    /\ LET block(c) == worker' = [worker EXCEPT ![w] =
                        [NotLaunched EXCEPT !.pc = "blocked", !.step = c]]
       IN  \/ /\ compacting # 0
              /\ block(compacting)
              /\ UNCHANGED <<activeTurn, compaction, used>>
           \/ /\ compacting = 0 /\ used.compactions < MaxCompactions
              /\ \E n \in AutoCounts : Begin(n) /\ block(used'.compactions)
              /\ UNCHANGED activeTurn
           \/ /\ compacting = 0 /\ AutoCounts = {}
              /\ EndTurn(w)
              /\ UNCHANGED <<compaction, used>>
    /\ UNCHANGED <<memory, unknownStep, crossed>>

\* The compaction is over; one that failed fails the turn.
Unblock(w) ==
    /\ worker[w].pc = "blocked"
    /\ \/ compactor[worker[w].step].pc = "failed" /\ EndTurn(w)
       \/ /\ compactor[worker[w].step].pc = "done"
          /\ worker' = [worker EXCEPT ![w].pc = "ready", ![w].step = 0]
          /\ UNCHANGED activeTurn
    /\ UNCHANGED <<memory, compaction, used, unknownStep, crossed>>

\* The request is built from the history and step.begin is recorded.
BeginStep(w) ==
    /\ worker[w].pc = "ready" /\ ~worker[w].aborted /\ used.steps < MaxSteps
    /\ used' = [used EXCEPT !.steps = @ + 1]
    /\ worker' = [worker EXCEPT ![w].pc = "step", ![w].step = used'.steps,
                                ![w].calls = 0, ![w].results = 0]
    /\ history' = Append(history, Message("assistant", used'.steps))
    /\ openSteps' = openSteps \cup {used'.steps}
    /\ UNCHANGED <<pendingToolResultIds, deferredMessages, activeTurn, compaction, unknownStep,
                   crossed>>

\* An event of a step that is not open is recorded, then throws: the turn fails.
UnknownStep(w) ==
    /\ unknownStep' = TRUE
    /\ EndTurn(w)
    /\ UNCHANGED <<memory, crossed>>

ContentPart(w) ==
    /\ worker[w].pc = "step" /\ worker[w].calls = 0 /\ ~worker[w].aborted
    /\ IF worker[w].step \in openSteps
       THEN /\ history' = Fill(worker[w].step, TRUE, {})
            /\ history' # history
            /\ UNCHANGED <<openSteps, pendingToolResultIds, deferredMessages, worker,
                           activeTurn, unknownStep, crossed>>
       ELSE UnknownStep(w)
    /\ UNCHANGED <<compaction, used>>

\* tool.call: the calls of a step are recorded before the first of its results.
ToolCall(w) ==
    /\ worker[w].pc = "step" /\ worker[w].calls < MaxCalls /\ worker[w].results = 0
    /\ LET call == <<worker[w].step, worker[w].calls + 1>> IN
       IF worker[w].step \in openSteps
       THEN /\ history' = Fill(worker[w].step, FALSE, {call})
            /\ pendingToolResultIds' = pendingToolResultIds \cup {call}
            /\ worker' = [worker EXCEPT ![w].calls = @ + 1]
            /\ UNCHANGED <<openSteps, deferredMessages, activeTurn, unknownStep, crossed>>
       ELSE UnknownStep(w)
    /\ UNCHANGED <<compaction, used>>

\* tool.result: results are recorded in the order of the calls, also after an
\* abort.
ToolResult(w) ==
    /\ worker[w].pc = "step" /\ worker[w].results < worker[w].calls
    /\ LET call == <<worker[w].step, worker[w].results + 1>> IN
       /\ pendingToolResultIds' = pendingToolResultIds \ {call}
       /\ FlushDeferred(Append(history, Message("tool", call)))
    /\ worker' = [worker EXCEPT ![w].results = @ + 1]
    /\ UNCHANGED <<openSteps, activeTurn, compaction, used, unknownStep, crossed>>

\* step.end; the turn goes on with another step or ends.
EndStep(w) ==
    /\ worker[w].pc = "step" /\ ~worker[w].aborted /\ worker[w].results = worker[w].calls
    /\ openSteps' = openSteps \ {worker[w].step}
    /\ UNCHANGED pendingToolResultIds
    /\ FlushDeferred(history)
    /\ \/ worker' = [worker EXCEPT ![w] = [NotLaunched EXCEPT !.pc = "ready"]]
          /\ UNCHANGED activeTurn
       \/ EndTurn(w)
    /\ UNCHANGED <<compaction, used, unknownStep, crossed>>

TurnStep(w) ==
    \/ LeaveTurn(w) \/ BlockOnCompaction(w) \/ Unblock(w)
    \/ BeginStep(w) \/ ContentPart(w) \/ ToolCall(w) \/ ToolResult(w) \/ EndStep(w)

CompactionStep(c) == Shrink(c) \/ ApplyCompaction(c) \/ FailCompaction(c)

ContextNext ==
    \/ Prompt \/ Cancel \/ Undo \/ Clear \/ Restart \/ BeginManual \/ CancelCompaction
    \/ \E kind \in {"reminder", "injection"} : Remind(kind)
    \/ \E w \in Turns : TurnStep(w)
    \/ \E c \in Compactions : CompactionStep(c)

ContextSpec == ContextInit /\ [][ContextNext]_contextVars

-----------------------------------------------------------------------------
(* Properties *)

Messages ==
    [kind : {"prompt", "reminder", "injection", "summary"}, id : Nat,
     calls : {{}}, text : {TRUE}]

IsMessage(m) ==
    \/ m \in Messages
    \/ /\ m.kind = "assistant" /\ m.id \in 1..used.steps
       /\ m.calls \subseteq {m.id} \X (1..MaxCalls)
    \/ m.kind = "tool" /\ m.id \in (1..used.steps) \X (1..MaxCalls)

ContextTypeOK ==
    /\ \A i \in DOMAIN history : IsMessage(history[i])
    /\ \A i \in DOMAIN deferredMessages : deferredMessages[i] \in Messages
    /\ openSteps \subseteq 1..used.steps
    /\ pendingToolResultIds \subseteq (1..used.steps) \X (1..MaxCalls)
    /\ activeTurn \in Turns \cup {NoTurn}
    /\ compacting \in Compactions \cup {0}
    /\ compacting # 0 => compactor[compacting].pc = "generating"

\* The messages that reach the model: project drops an assistant message that
\* is still empty.
Project(messages) ==
    Pick(messages, {i \in DOMAIN messages :
        messages[i].kind = "assistant" => messages[i].text \/ messages[i].calls # {}})

\* i follows j with nothing but tool results between them.
SameExchange(messages, j, i) ==
    j < i /\ \A k \in (j + 1)..i : messages[k].kind = "tool"

\* "The history is well-formed: tool results only appear after their owning
\* asst_w_tc and all tool results for one exchange land consecutively before
\* the next non-tool message" (compaction/strategy.ts:156).
ResultsFollowTheirCall(messages) ==
    \A i \in DOMAIN messages : messages[i].kind = "tool" =>
        \E j \in DOMAIN messages :
            /\ messages[j].kind = "assistant" /\ messages[i].id \in messages[j].calls
            /\ SameExchange(messages, j, i)

\* Every call has its result in the exchange, as providers demand.
CallsHaveResults(messages) ==
    \A j \in DOMAIN messages : messages[j].kind = "assistant" =>
        \A call \in messages[j].calls : \E i \in DOMAIN messages :
            /\ messages[i].kind = "tool" /\ messages[i].id = call
            /\ SameExchange(messages, j, i)

WellFormed(messages) == ResultsFollowTheirCall(messages) /\ CallsHaveResults(messages)

\* The request a turn is about to build pairs every call with its result, and so
\* does the prefix a compaction sends to the model.  Violated: a turn launched
\* after a cancel finds the exchange of the old one open.
RequestsWellFormed ==
    /\ \A w \in Turns : worker[w].pc = "ready" /\ ~worker[w].aborted =>
        WellFormed(Project(history))
    /\ \A c \in Compactions : compactor[c].pc = "generating" =>
        WellFormed(Project(SubSeq(compactor[c].snapshot, 1, compactor[c].count)))

\* A turn about to build its request finds no prompt held back: what the user
\* typed reaches the model.  Violated after a crash inside an exchange.
PromptInRequest ==
    \A w \in Turns : worker[w].pc = "ready" /\ ~worker[w].aborted =>
        \A i \in DOMAIN deferredMessages : deferredMessages[i].kind # "prompt"

\* These are the only ways to lose either.  As long as no prompt, edit or
\* compaction came between the begin of a step and its end, no reminder between
\* its begin and its first call, and no crash between a call and its result,
\* every request is well-formed and holds all that was appended, whatever else
\* was cancelled, undone, compacted, interrupted or resumed, and whenever.
OrderlyRequests ==
    ~crossed =>
        /\ RequestsWellFormed
        /\ \A w \in Turns : worker[w].pc = "ready" /\ ~worker[w].aborted =>
            deferredMessages = << >>

\* A compaction never swallows a message that came after it began, and never
\* one beyond the prefix it summarised.
CompactionKeepsTheRest ==
    [][\A c \in Compactions :
        compactor[c].pc = "generating" /\ compactor'[c].pc = "done" =>
            {Name(history[i]) : i \in DOMAIN history}
            \ {Name(compactor[c].snapshot[i]) : i \in 1..compactor[c].count}
            \subseteq {Name(history'[i]) : i \in DOMAIN history'}]_contextVars

\* No message is in the history twice, or both there and held back.
NothingTwice ==
    LET all == history \o deferredMessages
    IN  \A i, j \in DOMAIN all : Name(all[i]) = Name(all[j]) => i = j
=============================================================================
