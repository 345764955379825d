# A verification project for the agent core

This directory holds TLA+ models of the agent core of the repository
(`packages/agent-core`) and of the account token it depends on (`packages/oauth`),
TLC configurations that check them on small instances,
and proofs that TLAPS checks for every value of the constants.

The rest of the repository is a terminal client (`apps/kimi-code`), a session
viewer (`apps/vis`) and libraries around the core (`packages/kosong`: model
providers; `kaos`: files and processes; `node-sdk`, `acp-adapter`, `protocol`:
ways to call the core; `oauth`, `telemetry`, `migration-legacy`). The logic that
is hard to get right lives in the core: many `async` functions interleave at their
awaits, a user cancels at any point, tools run in parallel, and what
happened must survive in an append-only log. That is what is modelled.

## 1. Inventory

| Part | State it keeps | Operations | Talks to |
|---|---|---|---|
| Tool accesses (`loop/tool-access.ts`) | none | conflict of two declarations | scheduler |
| Tool scheduler (`loop/tool-scheduler.ts`) | active and queued tasks | add, start, finish, scan of the queue | batch |
| Tool-call batch (`loop/tool-call.ts`) | prepared calls, pending results | prepare, authorize, record, execute, drain | hooks, permission, deduplicator, record log |
| Deduplicator (`agent/turn/tool-dedup.ts`) | calls of the step, streak over steps | checkSameStep, finalizeResult | batch |
| Turn flow (`agent/turn/index.ts`) | active turn, turn id, steer buffer, workers | prompt, steer, cancel, worker, goal drive | turn loop, goal, context |
| Turn loop (`loop/run-turn.ts`, `turn-step.ts`, `retry.ts`) | step count | beforeStep, step, afterStep, stop | model, batch |
| Goal (`agent/goal/index.ts`) | status, budgets | create, pause, resume, block, complete, cancel | turn flow, record log, context |
| Context (`agent/context/index.ts`) | history, open steps, pending calls, deferred messages | loop events, append, undo, clear, apply compaction | record log, projector |
| Compaction (`agent/compaction`) | the compaction under way | begin, cancel, worker, block | context, model |
| Records (`agent/records`) | pending records, flush in progress, the file | append, rewrite, flush, replay | every part that has state |
| Subagent batch (`session/subagent-batch.ts`) | pending and active attempts, rate-limit state, timers | launch, requeue, recover, cancel | subagent host |
| Subagent host (`session/subagent-host.ts`) | children that are being run | spawn, resume, retry, cancelAll | session, child agents |
| Background tasks (`agent/background`) | tasks, a file per task, notification keys | register, settle, stop, wait, suppress, reconcile | turn flow (steer), context |
| Cron (`agent/cron`, `tools/cron`) | jobs, their cursors, a file per job | tick, fire, create, delete, persist, load | turn flow (steer) |
| Permission (`agent/permission`) | rules, mode, approvals | decide, ask | client |
| Hooks (`session/hooks`) | none | trigger | turn flow, batch |
| MCP (`mcp`) | servers, connection attempts, clients | connectAll, reconnect, unexpected close, shutdown | the agent's tool table |
| Account OAuth (`packages/oauth`) | token file, lock file, refresh in flight | ensureFresh, refresh, login, logout | providers, other processes |
| Session, RPC (`session/index.ts`, `rpc`) | table of agents, metadata | create, load, close, fork | client, subagent host |
| Plan, swarm, injections, micro compaction | a mode each | enter, exit, inject | context |
| Plugins, skills, profiles, configuration, flags, logging | static data | load | everything |

### How the parts interact

A client calls the core over an in-process RPC (`rpc/core-impl.ts`): `prompt`,
`steer`, `cancel`, the goal calls, `undoHistory`, `beginCompaction`, `clearContext`.
Each is a short synchronous function: it writes records, changes state, and may
launch a *worker* (an `async` function whose promise nobody awaits). A worker runs
the turn loop: it flushes the steer buffer into the context, blocks on a running
compaction, asks the model, and hands the tool calls of the answer to a batch, which
runs them through the scheduler and records every call and result in the context.
Background tasks, cron jobs and hooks come back in as steers. Everything that
changes the agent's state goes through the record log, and a restart replays it.
An agent may run a swarm of child agents as one tool call.

### What is hard

- **Interleaving at awaits.** All of it is one event loop: no data races, but
  every `await` is a point where any other callback may run, and state read before
  it may be stale after it. A cancelled worker lives on beside its successor.
- **Cancellation** at any point: while a hook or the user is asked, while a tool
  ignores the signal, between the records of a call and of its result.
- **Shared structures written from several places**: the history is written by steps,
  by the user's edits and by a compaction that worked on a snapshot.
- **Crashes**: the log ends anywhere, and the replay must put the agent into a state
  it was in and can go on from.
- **Time**: grace periods, launch intervals, retry delays and capacity recovery of
  the subagent batch race with the ends of attempts; cron jobs are slept through,
  coalesced, and seen under a clock that was set back.
- **Other processes**: several of them refresh one rotating token, with a file and a
  lock file between them; an MCP server answers late, never, or dies.

### What makes each part correct

| Part | Properties |
|---|---|
| Tool accesses | two declarations conflict exactly when one may change a file the other may touch |
| Scheduler | conflicting calls neither overlap nor overtake one another; nothing waits without a reason |
| Batch | one result per recorded call, in order; conflicting tools apart even after the grace period; nothing starts in an aborted turn; nothing is left behind; an aborted batch ends |
| Turn flow | one active turn, held by its worker; not taken by another; inputs kept exactly once; a cancelled worker ends |
| Context | as long as nothing came between a call and its result, every request pairs calls with results and contains all that was appended; in any case nothing is doubled, or swallowed by a compaction |
| Record log | the disk holds a prefix of what the process did; a flush that returned is durable; a restart can replay |
| Subagent batch | no task lost or run twice; no wake-up missed; launches throttled; no child left behind; the batch ends |
| Subagent host | a run waits for a turn it launched, and no turn outlives its run; an agent is loaded once; a stopped run returns |
| Background tasks | the model reads of the end of a task once, in this process or the next; whoever awaits it hears of it only as the file has it; nothing more is reported after a TaskStop that ended it; no end is forgotten |
| Cron | an occurrence is counted once, in order, not early; a removed job stays away; a due job fires |
| MCP connections | no client outlives its attempt, its server's entry or the session; the tools offered are those of the live client; every start ends |
| Account OAuth | no token is spent twice; a good one is never given up; a forced call gets another token |
| Session | `close` waits for the agents' turns, within a bound (not modelled) |

## 2. Modules

| Module | Models | State and actions |
|---|---|---|
| `ToolAccess` | `loop/tool-access.ts` | Pure operators. A path is a sequence of segments with a case-folding function; `Conflict` is the code's pairwise comparison, `Interfere` the reference definition by the files each declaration reaches. |
| `ProviderOrder` | the contract of the scheduler | Abstract specification: calls are submitted in order, and one runs only when every earlier call it clashes with is over. No queue. |
| `TaskPool` | what a batch of subagents promises | Abstract specification: a task is launched from the queue, may be put back, ends once and keeps its result; the pool resolves with all results, is cancelled or rejects. No timers, no capacity. |
| `TokenClient` | what the lock around a refresh promises | Abstract specification: the one client of the authorization server that the processes are. It presents the stored token, one at a time, and stores or gives up the answer before it presents another. No lock, no processes. |
| `ToolScheduler` | `loop/tool-scheduler.ts` | `activeTasks`, `queuedTasks`, the declarations and the result promises. `Add`, `Settle` (the task's promise), `Finish` (leaves the active list and scans the queue). |
| `ToolCallBatch` | `loop/tool-call.ts`, the batch hooks of `agent/turn/index.ts`, the same-step half of `tool-dedup.ts` | Extends `ToolScheduler` and composes with it: `AddTask` is `Add` plus the batch's own state, `FinishTask` is `Finish` plus the tasks it starts. One action per await of the prepare loop and the drain loop; `Abort` and `GraceExpires` at any point. |
| `TurnFlow` | `agent/turn/index.ts`, `agent/goal/index.ts`, the hook points of `loop/run-turn.ts` | `activeTurn`, `turnId`, `steerBuffer`, the goal, and one record per worker that says where it awaits. |
| `ContextMemory` | `agent/context/index.ts`, `agent/compaction/full.ts` and `strategy.ts`, the recording in `loop/turn-step.ts` | History, open steps, pending results, deferred messages, the snapshot of each compaction, and a short worker per turn. |
| `SubagentBatch` | `session/subagent-batch.ts` | The fields of the class in one record, `batch`, and the attempts. Scheduling is an operator from record to record; each action is one callback. Time stamps are kept as the time that remains. |
| `SubagentHost` | `session/subagent-host.ts`, the table of agents in `session/index.ts`, `waitForCurrentTurn` of `agent/turn/index.ts`, `utils/abort.ts` | The table (absent, a load, ready), the keys of `activeChildren`, the active turn of each child and who launched it, and per run where it awaits and which of its two signals are aborted. `Abort` stops any set of runs, so that it is a deadline, a stopped task or the parent's cancel. |
| `RecordsLog` | `agent/records/persistence.ts`, `agent/records/index.ts` | The file (complete lines, and what follows the last newline), the in-memory queue with the writer's position, and the process that replays, logs, flushes and dies. |
| `BackgroundTasks` | `agent/background/index.ts` and `persist.ts`, the three kinds of task, `TaskStop`, `TaskOutput` | The status of each task, its other fields, its file behind a queue of writes, the calls of stop and wait and where each awaits, what is answered at once, the notification on its way from `scheduled` over the steer buffer to the context (which holds it back while an exchange of tool calls is open), the process that dies and reconciles. |
| `McpConnections` | `mcp/connection-manager.ts`, `client-stdio.ts`, `client-http.ts`, the listener in `agent/tool/index.ts` | Per server the entry (attempt id, status, client), per attempt where it awaits and what its client is doing, and the agent's tool table. One action per await of `connectOne`, one per outcome of the transport; a reconnect, a close and the shutdown may come at any of them. |
| `Cron` | `agent/cron/manager.ts`, `tools/cron/scheduler.ts`, `session-store.ts`, `jitter.ts`, `utils/per-id-json-store.ts` | The store, each job's file behind its chain of writes, the scheduler's `lastSeenAt`, the clock, the process. `tick` is one action that handles every job in order. |
| `OAuthRefresh` | `packages/oauth/src/oauth-manager.ts`, the retries of `oauth.ts` | The token file, the lock file, and per process where the refresh in flight awaits; the server grants each token once. |
| `ToolCallBatch_proofs` | | the theorems about `ToolAccess`, `ToolScheduler` and `ToolCallBatch`, which build on each other |
| `Subagents_proofs` | | the theorems about `SubagentBatch`, and about `SubagentHost`, the host its attempts run on (whose `HostInit`, `HostNext`, `HostSpec` are named apart from the batch's for this) |
| `AgentMemory_proofs` | | the theorems about what an agent keeps, `ContextMemory` in memory and `RecordsLog` on disk (the names `ContextInit`, `ContextNext`, `ContextSpec` are apart from the log's for this) |
| `TurnFlow_proofs`, `BackgroundTasks_proofs`, `OAuthRefresh_proofs`, `McpConnections_proofs`, `Cron_proofs` | | the theorems about the module each is named after (section 5) |

The `MC*` modules give constants their values where a `.cfg` cannot, and hold the
definitions only TLC uses. Definitions whose comment starts with "Mutant:" are
altered forms of the one that follows them; no specification uses them. Each was
substituted for the original once, and the property named beside it in
`PROJECT.json` was then violated.

Abstractions worth knowing: messages, tools and files are small sets of values;
the contents of messages, prompts and results are left out; the model, the tools,
hooks and child agents are environments that do anything they may. The queue scan of
the scheduler is a closed form (`StillQueued`), and the theorem `ScanIsTheLoop` says that
it is what the loop as written computes. `ContextMemory` logs nothing: each operation
logs itself before it changes anything and replay calls it again, so the log is the
sequence of operations and a crash keeps the memory and loses the workers. What a
log may lose on disk is `RecordsLog`. In `OAuthRefresh` a token is a number in the order
of its grant, and "about to expire" a bit that may be set at any time. In `Cron` an expression is
the set of its occurrences, and jitter a fixed offset.

## 3. Runs

| Run | Bounds | What it shows |
|---|---|---|
| `tool_batch` | batches of up to 3 calls from three keys: a read and a write of one file under two spellings and a search of the tree above it, repeated or rejected; of two responses that differ in read and search being exchanged, one | `NoConflictingExecution`, `NoStrandedTask`, `PairedWhenReturned`, `NoDetachedTask`, `DuplicatesShareResult`, refinement of `ProviderOrder` (`ImplementsProviderOrder`), `NothingStartsAborted`, `AbortEndsBatch`; as an assumption TLC evaluates, `ConflictIsInterference` for six declarations |
| `turn_flow` | 2 inputs, one goal created on top of one that may be paused, a turn budget of 1 the model may set at any time, up to 2 turns counted | `ActiveTurnHeld`, `InputsKeptOnce`, `NeverClobbered`, `CancelledWorkerEnds` |
| `context` | 2 turns; one step of two calls or two of one; two of a reminder, an edit, a crash and two compactions; the client calls whenever it likes | `OrderlyRequests`, `NothingTwice`, `CompactionKeepsTheRest` |
| `context_prompt` | 2 turns, 2 steps of one call, a client that prompts when it likes | `RequestsWellFormed` is **violated** (section 4) |
| `context_crash` | 2 turns, one step of one call, one crash | `PromptInRequest` is **violated** (section 4) |
| `subagent_batch` | 3 tasks, initial limit 2, two rate limits, intervals of 1, 2 and 3 ticks | `NeverStuck`, `NoChildLeftRunning`, `BatchEnds`, refinement of `TaskPool` (`ImplementsTaskPool`) |
| `subagent_host` | 2 runs, 3 children (one new, two of profile explore), one longer-summary turn, 2 turns that no run launched, 2 failing loads | `TurnsHaveRuns`, `LoadedOnce`, `StoppedRunsReturn` |
| `records` | an empty log or one of an older version, 3 new records, 2 crashes, any failing write | `DiskIsAPrefix`, `FlushedIsDurable`, `EveryRecordWritten` |
| `background` | one task of either kind, 2 calls at once, 2 exchanges of tool calls, 2 crashes, one failed write | `ReportedOnce`, `ToldAsRecorded`, `StoppedQuietly`, `EndIsHandedOver` |
| `mcp` | 2 servers over http that offer one tool under one name, one of which also offers one under the name of the other's authenticate tool, 2 reconnects, one shutdown | `NoOrphanClient`, `ToolsFollowStatus`, `Settles` |
| `cron` | a recurring job with 3 occurrences and a one-shot, jitter 1, a cap of 2, a clock up to 6, jobs stale after 5, one fault (crash, failed write, throwing fire or set-back), any number of stops and resumes | `CountedOnce`, `GoneStaysGone`, `FiresInOrder`, `DueFires` |
| `oauth` | 2 processes, 3 tokens, 2 tries of a request, one crash | `SessionKept`, `ForcedIsNew`, refinement of `TokenClient` (`ImplementsTokenClient`) |

Four invariants are proved and not among the checked properties, being a half or a consequence of
what the runs check: `EachTaskInOnePlace` (`TasksHaveOnePlace`, next to `ImplementsTaskPool`),
`GivesUpRightly` (`GivenUpRightly`, next to `ImplementsTokenClient`), `IdleMeansWritten`
(`RestingMeansWritten`, the safety half of `EveryRecordWritten`) and `EndOnItsWay`
(`EndsAreNotForgotten`, that of `EndIsHandedOver`). TLC finds them true on the instances of those runs
when they are added to a configuration.

The type invariants (`TypeOK`, `BatchTypeOK`) are not among the checked properties, which
are kept for what could really be wrong; TLC finds them true on the same instances when they
are added to a configuration. Those of the scheduler, the batch, the turn flow, the subagent host,
the record log, cron, the account token, the background tasks and the subagent batch are proved (`TypeCorrect`,
`BatchTypeCorrect`, `HostTypes`, `CronTypes`, `BatchTypes`).

Why the bounds are enough. In the scheduler and the batch every property relates at
most three calls: two that conflict, and one between them whose end triggers the
scan; the search is there because a call must exist that waits behind a queued one (the write) and
behind none that runs (the read). In `turn_flow` two workers in flight are what a cancel followed by
a prompt makes; a steer that crosses both is a third input, and with three TLC does not end in time:
there `InputsKeptOnce` and `NeverClobbered` rest on their proofs, which are for any number of inputs (with a goal that is paused at first, none
created, no budgets and no liveness property, TLC finishes three inputs, too). In `context` two turns and a
compaction suffice to have a snapshot that is stale in each way (extended, undone, cleared), and a
second compaction to have the first end late beside it; a second call in a step is needed for an exchange that is half
answered, a second step for two exchanges that are open together. The constraint `Small` bounds
these together; all three properties of the run are proved without bounds. In `subagent_batch` three tasks with capacity one leave two in the queue,
so that the scan must skip a task that is not yet eligible, and two rate limits
put the same task back twice or two tasks at once. In `subagent_host` two runs are the two
that may meet on one child, a third can only wait behind them; three children are a stored one
of either kind and a new one. In `records` two crashes are a
restart that crashes again on what the first one left, and four records leave one in each of
file, batch and queue. In `background` one task suffices, since tasks share only the steer
buffer and the limit; two callers are a stop that meets a TaskStop or a wait; the second
crash falls into the reconciliation of the first; two exchanges are one that a crash cuts short
and one that is answered. In `mcp` two servers are what a collision of
tool names needs, and two reconnects give three attempts of one server in flight: one that is dropped, one
that fails and one that stays. In `cron` three occurrences and a cap of two leave one beyond
the cap; a clock of six passes the age at which the recurring job is stale, so that its last
delivery removes it. In `oauth` two processes are the refresh and the one that waits for its lock; the
third token is the login or second refresh that comes in between.

`CHECK_DEADLOCK FALSE` is said in every configuration: each of these systems really
comes to rest (a batch returns, a client falls silent, the bounds are used up).

Fairness, and why the code justifies it:

- `ToolCallBatch`: the batch's own code and its timers run. A tool need never return
  and a user need never answer; `AbortEndsBatch` holds because approval
  requests take the turn's signal and the grace timer is armed for every running tool.
- `TurnFlow`: only workers that were cancelled make progress, since model requests and
  hooks take the signal.
- `SubagentBatch`: time passes, due timers fire, launches return and attempts end (every
  task of a swarm has a timeout, `agent-swarm.ts:148`).
- `SubagentHost`: creating, loading and configuring a child, its hooks (which have a time limit), git
  (five seconds a command) and the worker of a cancelled turn come to an end. A child's turn need not.
- `RecordsLog`: the writer's promises settle.
- `BackgroundTasks`: writes and reads settle, timers of stop and wait fire, a session whose process
  has died is resumed and its reconciliation goes on. A task need never end, and no turn need take
  a step: a steer that comes after a turn's last flush waits for the next turn, so
  `EndIsHandedOver` ends at the steer buffer.
- `McpConnections`: an awaited promise of the manager settles, and the timer of a start
  fires. A server need never answer.
- `Cron`: the poll repeats, and turns end. The user starts finitely many turns; with an agent
  that is always busy nothing fires, and the code means it so.
- `OAuthRefresh`: none of its properties needs any.

## 4. Observations

Two runs are expected to fail, `context_prompt` and `context_crash`: each checks what the repository
says of the requests and finds the code to violate it. The other observations below are states the code
can reach as well; the properties of the passing runs say in their comments where they make an exception
for one of them.

Turn flow and context:

- `abortTurn` forgets the active turn at once, while its worker still records the results of its
  tools. A prompt accepted in between builds its request from a history with an open exchange,
  which `test/loop/abort.e2e.test.ts:246` says the provider rejects: `RequestsWellFormed`, violated in
  `context_prompt`.
- `docs/en/guides/sessions.md:3` says that "you can close the terminal and pick up right where you
  left off". A process that dies between a recorded call and its result leaves a log whose replay ends
  with the call pending. Nothing ever answers it, so every later prompt is deferred and no
  request contains it: `PromptInRequest`, violated in `context_crash`.
- `cancelGoal` appends its reminder at once. Between `step.begin` and the first
  `tool.call` nothing is pending yet, so the reminder is not deferred and lands
  between the assistant message and its results. `RequestsWellFormed` fails in this way, too, with
  `"cancelGoal"` for the only one of the `BusyCalls` and one reminder.
- `OrderlyRequests` says that these are the ways to lose a request, together with an edit or a compaction begun
  during a step: it promises nothing once one of them has happened (`crossed`), and everything
  otherwise, for a client that calls whenever it likes and a process that dies elsewhere.
- The comment at `agent/turn/index.ts:487` says that a goal drive keeps the active turn. When a
  tool resumes a paused goal during a standalone turn, `runOneTurn` has cleared it before
  `turnWorker` starts to drive: the drive runs without an active turn, a prompt is accepted beside
  it and a cancel does not reach it. `ActiveTurnHeld` excepts this drive; `DriveKeepsActiveTurn` does not, and
  TLC finds it violated when it is added to `MCTurnFlow.cfg`.
- A steer buffered between the last flush of a turn and its end stays in the buffer until
  the next turn begins (`TurnFlow` keeps it: `InputsKeptOnce`).
- `undo` and `clear` during a step make the step's next event throw "unknown step_uuid"
  (`UnknownStep`): the turn fails, and the replay of the log throws, too.
- A compaction that was cancelled and fails late with an error other than the abort cancels the one that followed
  it (`compaction/full.ts:358`), and one whose summary comes late marks that one as completed
  (`FailCompaction`, `ApplyCompaction`).
- Further hazards of this part without a property: `popMatchedMessage` removes a message without
  a record (`context/index.ts:62`, called at `turn/index.ts:637`), so a replay brings it back; a steer
  is recorded when it arrives, but lost to the context if the process dies before a step takes it
  (`turn/index.ts:279`).

Subagents:

- The last look at the abort comes before the git context of an explorer is collected
  (`session/subagent-host.ts:302`). A run stopped during the collection prompts its child all the same,
  and its wait for the turn throws at once: the turn goes on with no run, `cancelAll` does not
  find the child, and a resume is rejected because it is "already running".
  `test/session/subagent-host.test.ts:471` ("cancels the child turn when the caller signal aborts") aborts
  later. `TurnsHaveRuns` excepts this case (`late`).
- `ensureIdleSubagent` answers one microtask before its caller enters the child into the map.
  Two resumes that run in step both pass the check and both enter; the prompt of the second is
  refused, and its end deletes the key of the first. The Agent tool
  never starts two calls that close: one declares no access, and starts before the next is prepared.

- A load that fails before its replay (because its parent's does) leaves the rejected promise in the table
  (`session/index.ts:636`): that child cannot be loaded again while the session lives.

Record log:

- The reader tolerates a torn last line ("everything before is still well-formed",
  `records/persistence.ts`), but the writer of the next process appends right behind the torn bytes. The
  two become one corrupt line inside the file, and the next resume throws. `FlushedIsDurable`
  excepts logs that were resumed in this state.
- A rewrite after a migration truncates the log before it writes it again; a crash in
  between loses it. `DiskIsAPrefix` still holds (a shorter prefix), and
  `FlushedIsDurable` takes back its promise at the truncation.

Background tasks:

- A failed write of a task file is swallowed (`background/index.ts:529`): after a restart a task
  whose end was reported is lost, and reported again. The properties except tasks with a failed write.
- A task is forgotten if its process dies before its file is first written.
- A notification held back behind an open exchange when the process dies is deferred again by the
  replay, unseen by the resume, which appends it a second time. Nothing answers the call of that
  exchange any more, so neither copy is ever read, as long as the user does not undo or clear what
  stands before them (which drops both): `ReportedOnce` allows two records there (`HeldForEver`) and nowhere else.
- TaskStop of a task that has ended, and TaskOutput, answer with the status in memory
  (`task-stop.ts:58`, `task-output.ts:113`): ahead of the file, without an effect on a
  notification that is on its way. If the process dies then, the next one may say of the task that it was
  lost. `ToldAsRecorded` asks for the file only where the code awaits it, and of these answers that the
  process stays with them; `StoppedQuietly` speaks of tasks TaskStop found running.
- A process that dies after TaskStop has set the flag and before it has returned leaves an end
  that nobody is told.

MCP:

- A tool name lost to another server's tool is not registered when that server goes away, until the
  next change of status of the server that lost it. `ToolsFollowStatus` asks only for names no
  other server offers.
- Tools of a client that is being closed stay listed until `pending` is emitted, after
  the close. `ToolsFollowStatus` speaks of servers without an attempt under way.
- The authenticate tool of a server overwrites a tool of the same name without a collision being reported, and
  the end of either removes it (server names are sanitised, and several become one: `tool-naming.ts:17`).
  `ToolsFollowStatus` says nothing of such a name (`Disputed`), and everything of the other names of the
  servers concerned. Nothing is emitted on shutdown.

Cron:

- Delivery is at least once: a crash that loses the write of a cursor or of a removal repeats
  the delivery (`excused` in the model).
- An agent that is always busy fires nothing. A job created after `stop` has taken its snapshot of the
  write chains may be lost. With a clock set back behind its cursor, a resumed job fires again
  from its creation.

Account OAuth:

- Login and logout take no lock. A login during a refresh is overwritten by the token of the older
  session, and a logout during a refresh is undone by its save.
- The process that finds its refresh refused reads the file once more before it writes the tombstone; a
  login between the two is overwritten.
- An answer lost after the server has spent the token makes the retry present it again; it is
  refused, and a good session becomes a tombstone. The code cannot tell this from a revoked token.

Session: `close` (`session/index.ts:313`) waits for the turns it has cancelled with a timeout; a
turn that outlives it records into a closed session. It stops the background tasks after the turns, so that
the notification of a stopped task can launch a turn of an agent that has come to rest. Not modelled.

## 5. Proofs

TLC checks the small instances of section 3. The theorems hold for every value of the
constants the named assumptions allow: any number of calls, inputs, tasks, servers, processes,
crashes and retries.

| Module | Theorems |
|---|---|
| `ToolCallBatch_proofs` | of the conflict test: `ConflictSymmetric`, `ConflictExact`; of the scheduler: `TypeCorrect`, `OvertakingExcluded`, `ConflictsExcluded`, `NothingStranded`, `ScanIsTheLoop`, `RefinesProviderOrder`; of the batch: `BatchTypeCorrect`, `ExecutionsApart`, `NoStartAfterAbort`, `Paired`, `NothingDetached`, `DuplicatesAgree`, `BatchRefinesProviderOrder` |
| `TurnFlow_proofs` | `TypeCorrect`, `TurnIsHeld`, `ActiveTurnIsNeverClobbered`, `InputsAreKeptOnce` |
| `Subagents_proofs` | of the batch: `TasksHaveOnePlace`, `ChildrenAreStopped`, `BatchIsNeverStuck`, `BatchTypes`, `RefinesTaskPool`; of the host: `HostTypes`, `TurnsBelongToRuns`, `OneLoadEach` |
| `AgentMemory_proofs` | of the log: `TypeCorrect`, `DiskNeverDiverges`, `FlushKeepsItsWord`, `RestingMeansWritten`; of the conversation: `NothingTwiceHolds`, `CompactionKeepsTheRestHolds`, `OrderlyRequestsHold` |
| `BackgroundTasks_proofs` | `TypeCorrect`, `EndsAreReportedOnce`, `ToldIsRecorded`, `StopsAreQuiet`, `EndsAreNotForgotten` |
| `OAuthRefresh_proofs` | `TypeCorrect`, `SessionIsKept`, `ForcedGetsNew`, `GivenUpRightly`, `RefinesTokenClient` |
| `McpConnections_proofs` | `NoClientOrphaned`, `ToolsMatchStatus` |
| `Cron_proofs` | `CronTypes`, `OccurrencesCountedOnce`, `RemovedJobsStayGone`, `FiresNeverSkip` |

Every module has the same shape: the inductive invariant as a conjunction of named parts, a
lemma for the initial states, one lemma per action (or per group of actions that do the
same to the invariant), and `InductiveInvariant`, from which the properties follow. The
invariants were first checked by TLC on the instances of the runs. None of the properties is
inductive alone; what each needs beyond itself is the substance of its proof.

**Scheduler.** That a started call conflicts with nothing active says nothing of a call that
was queued before it; so `NoOvertaking` is stated over active *and* queued earlier calls, which
is what `isBlocked` tests. `Finish` turns queued calls into active ones, and the proof that they
do not overtake needs that the two sets are disjoint (`OncePerTask`) and that the scan compares
with every earlier queued call, started in this scan or not. `NoStrandedTask` survives `Finish`
because a call that stays queued is blocked by something that is still there. `IInv` is the
conjunction of these. Conflicting calls are kept apart because one of the two is the earlier
(`ConflictSymmetric`). For the refinement, `phase` maps active to running, queued to waiting, and
the rest to over: `Add` is `Submit`, `Settle` a stutter, `Finish` is `Complete`.

**Batch.** Each of its steps is an `Add`, a `Settle` or a `Finish`, or leaves the scheduler alone, so
`IInv` stays invariant and the refinement carries over. `BatchInv` adds where the two loops are
(`Progress`), what the plans hold (`Planning`), and where the executions are (`Executing`). The
scheduler's promise is about active tasks, `NoConflictingExecution` about tools that really run:
a running tool's task is active with its result pending, unless the grace timer gave up on it,
which needs an abort; and after an abort nothing starts. For repeated calls `DedupInv` says that
the first call of a key registers it and every later one is a placeholder of it (`DedupPlans`,
`DedupCurrent`), that a placeholder is never executed (`DedupOutcomes`), and that a deferred is
settled by the first call of its key that is drained, with its result (`DedupResults`).

**Turn flow.** `NeverClobbered` needs that a worker whose turn is the last allocated meets no other active
turn (`Latest`): `runOneTurn` clears the active turn when the id is still its own. `Launched` bounds who can be at work, `Held` says until when
a worker that was not cancelled holds the turn. For the inputs a second invariant, `Kept`, counts the places of an input: in
the context, in the steer buffer, in the hands of the worker launched for it. Every step
moves one and the sum stays 1.

**Subagent batch.** Scheduling is an operator from record to record, and so are the lemmas: each
scheduling step keeps the types and `Placed` (no task twice in the queue, none both queued and in
an attempt, a result exactly when in neither), and the actions combine them. `Attended` ties the attempts to
the batch: it listens to every attempt under way, or it is over and has told it to stop.
For `RefinesTaskPool` the queue maps to the pool's queue as a set, the attempts the batch listens to
to the running tasks, and the results to themselves: one `Schedule` is a set of launches in one step, a
requeue with the launch it triggers is one step, too, and what an attempt answers to a batch
that is over is a stutter. `Watched` is inductive beside `BatchInv` and says that
whatever calls `schedule` leaves a timer for the queue, or an attempt if there is no queue;
it needs that the next recovery lies ahead of a queue that waits (`RecoverKeeps`) and that a batch which is not complete
has a task in the queue or in an attempt (`Placed`). `Paced` bounds the timers by their
intervals and the capacity from below (`BatchTypes`).

**Subagent host.** `TableInv`: a load is under way exactly while the table holds its promise, so that
a second call finds it. `TurnInv`: the turn a run waits for is the active one of its child and
bears the run's name; a turn whose run is over was launched by one that was stopped while its
git context was collected.

**Record log.** `DiskIsAPrefix` holds because what can be read, followed by what the writer has still
to write, is the log (`NothingMissing`), or, before a truncation, what is to be
written is. After an error or in a dead process nothing is written any more (`Quiet`), and what
is on disk stays a prefix (`DiskBeginsLog`). `RestingMeansWritten` is the safety half of
`EveryRecordWritten`: a writer that is idle has an empty queue, because the drain looks at the queue
again before it settles, and then what can be read is the log. Half of the module is about what is read from a
file whose last write was torn.

**Conversation.** Two invariants. `NamesInv` says where names come from: `Spent` is the set of
the names given out, read off the counters, the workers and the finished compactions, and every message has one of them, in one place;
what an action appends has a name that is not in `Spent` yet. `NothingTwice` follows whatever the client does
while a turn runs, and across restarts; so does `CompactionKeepsTheRest`, since every
step but `ApplyCompaction` leaves the compactions or the memory alone (`MemoryOrCompaction`), and
`ApplyCompaction` replaces a prefix that is still the one it summarised (`PrefixIntact`).

`RequestInv` is what the requests need. `OneAtATime`: at most one turn is at work, and none while a
compaction is, except one that waits for it. `Exchange`: the pending calls are those of the one
worker in its step (`Serving`: the message of the step has the calls made so far, the first of them
are answered, and only results stand behind it), and nothing is held back when no call is pending.
`Paired`: a result follows its call within one exchange, and a call has its result or is pending.
`Snapshots`: what a compaction works on is paired, is split where it may be, and is still the history.
The lemmas say of each change of a history that it keeps `Paired`: plain messages before or
after (`PaddedPaired`), a call (`CalledPaired`), its result (`AnsweredPaired`), a cut at a safe split
(`CutPaired`), the loss of messages when a call goes or stays together with its results (`SelectedPaired`,
for `undo` and for the projection of the history to a request). `RequestInv` does not
survive what `crossed` records, so the invariant is `OrderlyInv`, `crossed` or `RequestInv`: a step that keeps
`crossed` FALSE is one of those the lemmas speak of, also a prompt, an edit, a compaction or a crash that comes
between two steps, and a reminder among calls that are pending. `OrderlyRequestsHold` makes no assumption about the
client or the process.

**Background tasks.** The writes of a task's file wait in a queue, and the report of its end is sent
from the callback of one of them. `Entries` says of the fields of a task that the writes which carry its
end follow all others and agree with the fields, and that one is queued until the effects of the end
have been fired; `CallsInOrder` that a call which awaits the queue has such a write among those it awaits;
`Process` what a process that loads may know; and `Recorded` relates all that was ever said
(the context of this process and of the earlier ones, then the steer buffer) to the file:
notifications have the status of the file, there is none of a task whose end a stop returned, and one a task at
most (`Once`), or several that stand behind a call of a dead process and are never read: what is read is in
`delivered`, which keeps the next resume from saying it again, and what is held back by a call of this
process will be. `Glimpses` is apart: an answer given at once is the status of the task, which
has ended and does not change while the process lives.
A second invariant, `WayInv`, proves that no end is forgotten (`EndsAreNotForgotten`, the safety half of
`EndIsHandedOver`): an end that has fired its effects is being read, in the steer buffer or in the context
(`FiredIsOnItsWay`); a key that stands for an earlier report never meets a task whose end has not fired,
which would swallow its notification (`SpokenHaveFired`); and what a resumed process counts as
delivered is in the context it replayed (`DeliveredIsInContext`).

**Account token.** `LockHeld`: between the creation of the lock file and its removal a process is its
holder. `Informed`: what a refresh knows is what the server has granted,
and a refused token is not live; `Kept`: until something excepted happens, nobody is refused, and the stored
token is live or its successor is about to be saved. A refresh that reads the file before the
lock would break `Kept`: the second read under the lock is what the proof rests on.
For `RefinesTokenClient` the client of the abstract specification is the process between its request and the end of its
refresh, or idle if there is none. There is one at most by `LockHeld`, so that
each step of a process is a step of the client or a stutter; taking turns for the lock, and giving it back, are
stutters, a crash under way and a request whose tries are used up are both `GiveUp`. What is presented is the stored token unless a logout came between the two
reads, and the abstract `Present` says so.

**MCP.** `NoOrphanClient` is inductive together with `NotBegun` (an attempt whose number has not been
given out has no client, nor one that awaits the close of the old one): an attempt becomes the current one only
with the close of the client the entry held. For `ToolsFollowStatus`, `Consistent` says that the two tables of the
agent agree and that a server holds no names but its own, `Matches` that its tools are what a status calls
for, `Stands` where the current attempt is: it has decided on a status before it awaits the close of
its client, and tells it after. All three leave out the disputed names, for
which the code promises nothing (section 4), so that the theorem needs no assumption about names.

**Cron.** `SavedInv`: the chain of writes of a job that has no excuse ends with what the memory has of
it, so that a restart after the chain reads the same cursor; a stop awaits the whole chain.
`CursorInv`: everything counted lies at or before that cursor, and the next fire counts only what lies
beyond it, whence `CountedOnce`. For `FiresInOrder`, `OrderInv` says of every cursor there is, in memory, in a
file or queued for one, that nothing between the creation of the job and the cursor was passed
over; the lemma `Covers` says that a fire takes the due occurrences from its base on
without a gap, also when the cap cuts it short. That a job without an excuse only is counted once, but
every job is fired in order, is why the two parts are apart.

The loop of `attachMcpTools` is a recursive function over the positions of the servers. That such
a function has the values its definition says, and that a fact about the tools is carried from one position
to the next, are proved without an induction rule: of the positions that fail there would be a
least one (`WFMin` with `NatLessThanWellFounded`), and it cannot be the least. `AgentMemory_proofs` (the
first corrupt line of a file, the last message an undo keeps), `Subagents_proofs` (the next wake-up) and `Cron_proofs` (the
next occurrence) find their minima in this way.

The assumptions are the `ASSUME`s of the modules, which TLC evaluates in the runs: bounds are natural
numbers, positive where the code's constant is; the values that stand for "none" are not among
the others; declarations are sets of accesses, the folding of case is idempotent, every key
declares one of the accesses; the configuration lists servers; the three intervals of the subagent batch are in the order the code's
constants have. One of them is arithmetic: `2^n` is a positive natural number, which is true and
spelled out because the provers know nothing of exponentiation.

Only model-checked:

- all liveness (`AbortEndsBatch`, `CancelledWorkerEnds`, `BatchEnds`, `StoppedRunsReturn`,
  `EveryRecordWritten`, `EndIsHandedOver`, `Settles`, `DueFires`): the prover does not reason about
  fairness. Of three of them the safety half is proved: what waits has something that will
  move it (`NeverStuck` of `BatchEnds`, `IdleMeansWritten` of `EveryRecordWritten`, `EndOnItsWay` of
  `EndIsHandedOver`);
- the type invariants of `McpConnections` and `ContextMemory`, whose proofs use types of their own
  (`Typing`, `ContextTyped`).

## 6. What is not modelled

`PROJECT.json` lists every part. Left out for good: presentation (`apps/*`), wire
formats, provider clients, loading of plugins, skills and configuration. Left out within
modelled parts: validation and shaping of tool arguments and results, token and
wall-clock budgets of a goal as numbers (they may be reached at any look), the
text of reminders, micro compaction, blob offloading (a way for a write to fail), logs of a newer
version, the output of a background task, MCP servers that are disabled or added later, the
parser of cron expressions, the polling of the device login and platforms without a lock file (a live
process that holds its lock for so long that it goes stale, `oauth-manager.ts:218`, is left out, too: `SessionKept` and
`ImplementsTokenClient` are about processes that are not suspended for five seconds under the lock), and the streak of repeated calls over steps in the deduplicator (a result may be
turned into a stop).

## 7. Sources of nondeterminism

Every choice of the environment is a disjunct or an existential in an action: what the
client calls and when, what hooks decide, what tools return and when, whether a write
fails and what it leaves, when the process dies, when the provider refuses a child, and
in which order ready callbacks run.

## 8. Plan

Built so far, in this order: the scheduler and the batch with their proofs, turn flow, context,
subagent batch, record log; then background tasks, the account token, MCP connections, cron and the
subagent host.

Modules still worth writing: `ToolDedup` (the streak over steps), `SessionLifecycle` (close with
its timeout, fork, the parent chain of a load), micro compaction as an operator on histories,
the matching of permission rules as an operator.

Compositions: `SubagentBatch` with `SubagentHost` (an attempt is a run), `ContextMemory` with `RecordsLog` (what a replay of a prefix rebuilds), `TurnFlow`
with the crash of its steer buffer and with the open exchanges of `ContextMemory`.

Abstract specifications, each with its refinement to prove: the record log as an append-only sequence that
a crash cuts; the turn flow as a queue of inputs; an MCP server as a slot that holds at most one
client. Of a bound on launches: that `TaskPool` with a capacity is implemented in rate-limit mode.
