---------------------------- MODULE SubagentHost ----------------------------
(***************************************************************************)
(* How an agent's tools run its subagents: SessionSubagentHost             *)
(* (packages/agent-core/src/session/subagent-host.ts), the table of agents *)
(* that Session keeps (session/index.ts), and the wait for a turn of the   *)
(* child (waitForCurrentTurn, agent/turn/index.ts).                        *)
(*                                                                         *)
(* A run is one call of spawn, resume or retry by the Agent tool or by a   *)
(* batch; its signal is the tool's, with a deadline, or that of its        *)
(* background task.  A child has at most one active turn, launched by a    *)
(* run, or by a client or a notification that reaches the child itself.    *)
(* An action is what the event loop runs between two awaits; of the awaits *)
(* that take microtasks only, the one between the check that a child is    *)
(* idle and its entry into the map is kept.  A run that is over has given  *)
(* up its fields, which nobody reads again.                                *)
(***************************************************************************)
EXTENDS Naturals, FiniteSets

CONSTANTS
    Children,      \* ids of subagents
    Stored,        \* those the metadata names when the session is opened
    Explorers,     \* those of the explore profile
    Runs,          \* bound: calls of spawn, resume and retry
    Continuations, \* SUMMARY_CONTINUATION_ATTEMPTS
    MaxOwnTurns, MaxFailedLoads,   \* bounds
    Own,           \* launched by nobody's run
    None

ASSUME HostAssumption ==
    /\ Stored \subseteq Children /\ Explorers \subseteq Children
    /\ Continuations \in Nat /\ Own # None /\ {Own, None} \cap Runs = {}

VARIABLES
    metadata,        \* ids in session.metadata.agents
    agents,          \* session.agents: absent, loading (a promise), rejected or ready
    loads,           \* resumePersistedAgent calls under way, per child
    activeChildren,  \* the keys of the host's map
    turn,            \* the child's active turn: who launched it, or None
    run,             \* per run: see NewRun
    ownTurns, failedLoads

table == <<metadata, agents, loads, failedLoads>>
hostVars  == <<table, activeChildren, turn, run, ownTurns>>

\* create, load: spawn waits for the new agent, resume and retry for the stored one;
\* enter: the child was found idle, ensureIdleSubagent returns; configure: the profile
\* is applied; hook: SubagentStart; git: the git context of an explorer; turn:
\* waitForCurrentTurn; ending: the same, of a turn a client cancelled.
Entered == {"configure", "hook", "git", "turn", "ending"}
Places  == Entered \cup {"idle", "create", "load", "enter", "done"}

NewRun == [pc |-> "idle", child |-> None, background |-> FALSE, retry |-> FALSE,
           signal |-> FALSE,    \* options.signal.aborted
           aborted |-> FALSE,   \* controller.signal.aborted
           left |-> Continuations,
           late |-> FALSE]      \* history: aborted while the git context was collected

Over(r) == [NewRun EXCEPT !.pc = "done", !.late = run[r].late]

HostTypeOK ==
    /\ metadata \subseteq Children
    /\ agents \in [Children -> {"absent", "loading", "rejected", "ready"}]
    /\ loads \in [Children -> Nat]
    /\ activeChildren \subseteq Children
    /\ turn \in [Children -> Runs \cup {Own, None}]
    /\ \A r \in Runs : run[r].pc \in Places /\ run[r].child \in Children \cup {None}

HostInit ==
    /\ metadata = Stored
    /\ agents = [c \in Children |-> "absent"] /\ loads = [c \in Children |-> 0]
    /\ activeChildren = {}
    /\ turn = [c \in Children |-> None]
    /\ run = [r \in Runs |-> NewRun]
    /\ ownTurns = 0 /\ failedLoads = 0

-----------------------------------------------------------------------------
(* The table of agents *)

\* Mutant: the promise is put into the table only when it has settled.
EnsureResumed_LateEntry(c) ==
    /\ loads' = [loads EXCEPT ![c] = IF agents[c] = "absent" /\ @ < 2 THEN @ + 1 ELSE @]
    /\ UNCHANGED <<agents, metadata, failedLoads>>

\* ensureAgentResumed: an entry, ready, loading or rejected, is shared; the promise of a
\* new load is put into the table at once.
EnsureResumed(c) ==
    /\ IF agents[c] = "absent"
       THEN agents' = [agents EXCEPT ![c] = "loading"] /\ loads' = [loads EXCEPT ![c] = @ + 1]
       ELSE UNCHANGED <<agents, loads>>
    /\ UNCHANGED <<metadata, failedLoads>>

\* An RPC call of a client for the child, or the Agent tool that looks up its profile.
TouchAgent(c) ==
    /\ c \in metadata /\ agents[c] = "absent"
    /\ EnsureResumed(c)
    /\ UNCHANGED <<activeChildren, turn, run, ownTurns>>

\* The agent has replayed its log.
AgentLoaded(c) ==
    /\ loads[c] > 0
    /\ loads' = [loads EXCEPT ![c] = @ - 1]
    /\ agents' = [agents EXCEPT ![c] = "ready"]
    /\ UNCHANGED <<metadata, failedLoads, activeChildren, turn, run, ownTurns>>

\* The replay throws, and the entry is deleted; or the load of the parent fails before
\* that, and the rejected promise stays in the table.  Whoever waits for it fails.
LoadFails(c) ==
    /\ loads[c] > 0 /\ failedLoads < MaxFailedLoads
    /\ failedLoads' = failedLoads + 1
    /\ loads' = [loads EXCEPT ![c] = @ - 1]
    /\ \E left \in {"absent", "rejected"} : agents' = [agents EXCEPT ![c] = left]
    /\ run' = [r \in Runs |-> IF run[r].pc = "load" /\ run[r].child = c THEN Over(r) ELSE run[r]]
    /\ UNCHANGED <<metadata, activeChildren, turn, ownTurns>>

-----------------------------------------------------------------------------
(* Pieces of a run *)

Goto(r, pc) == run' = [run EXCEPT ![r].pc = pc]

Reject(r) == run' = [run EXCEPT ![r] = Over(r)]

\* A run that entered its child settles: the key is deleted, whoever set it last.
SettleRun(r) == Reject(r) /\ activeChildren' = activeChildren \ {run[r].child}

\* Mutant: a signal that is aborted already is only listened to.
Linked_Listens(r) == FALSE

\* linkAbortSignal: the new controller is aborted with a signal that was.
Linked(r) == run[r].signal

\* runWithActiveChild, up to the first await of what it runs.
Enter(r, c, pc) ==
    /\ activeChildren' = activeChildren \cup {c}
    /\ run' = [run EXCEPT ![r].pc = pc, ![r].child = c, ![r].aborted = Linked(r)]

\* Mutant: the turn id that prompt returns is not looked at.
PromptChild_AnyTurn(r) ==
    LET c == run[r].child IN
    /\ turn' = [turn EXCEPT ![c] = IF @ = None THEN r ELSE @]
    /\ IF run[r].aborted THEN SettleRun(r) ELSE Goto(r, "turn") /\ UNCHANGED activeChildren

\* child.turn.prompt, which launches nothing while a turn is active, then
\* waitForCurrentTurn, which throws when the signal is aborted already.
PromptChild(r) ==
    LET c == run[r].child IN
    \/ /\ turn[c] # None
       /\ SettleRun(r) /\ UNCHANGED turn
    \/ /\ turn[c] = None
       /\ turn' = [turn EXCEPT ![c] = r]
       /\ IF run[r].aborted THEN SettleRun(r) ELSE Goto(r, "turn") /\ UNCHANGED activeChildren

-----------------------------------------------------------------------------
(* What the tools and the batch call *)

\* spawn: throwIfAborted, then the parent and the new agent are awaited.  (Bound: there
\* is an id left for it.)
Spawn(r, background) ==
    /\ run[r].pc = "idle"
    /\ Cardinality({s \in Runs : run[s].pc = "create"}) < Cardinality(Children \ metadata)
    /\ run' = [run EXCEPT ![r].pc = "create", ![r].background = background]
    /\ UNCHANGED <<table, activeChildren, turn, ownTurns>>

\* createAgent returns an agent with an unused id, and the child is entered.
Created(r, c) ==
    /\ run[r].pc = "create" /\ c \notin metadata
    /\ metadata' = metadata \cup {c}
    /\ agents' = [agents EXCEPT ![c] = "ready"]
    /\ Enter(r, c, "configure")
    /\ UNCHANGED <<loads, failedLoads, turn, ownTurns>>

\* resume and retry: ensureIdleSubagent awaits the child.
Resume(r, c, background, retry) ==
    /\ run[r].pc = "idle" /\ c \in metadata
    /\ EnsureResumed(c)
    /\ run' = [run EXCEPT ![r].pc = "load", ![r].child = c,
                          ![r].background = background, ![r].retry = retry]
    /\ UNCHANGED <<activeChildren, turn, ownTurns>>

\* ensureIdleSubagent: the child is there, and must be idle; an earlier load that was
\* rejected rejects this one.
CheckIdle(r) ==
    LET c == run[r].child IN
    /\ run[r].pc = "load" /\ agents[c] \in {"ready", "rejected"}
    /\ IF agents[c] = "rejected" \/ c \in activeChildren \/ turn[c] # None THEN Reject(r)
       ELSE Goto(r, "enter")
    /\ UNCHANGED <<table, activeChildren, turn, ownTurns>>

\* Its caller goes on: a resume to the hook, a retry to a turn, which a turn that is
\* active by now refuses; both look at the controller first.
EnterChild(r) ==
    LET c == run[r].child IN
    /\ run[r].pc = "enter"
    /\ \/ Linked(r) /\ SettleRun(r) /\ UNCHANGED turn
       \/ ~Linked(r) /\ ~run[r].retry /\ Enter(r, c, "hook") /\ UNCHANGED turn
       \/ ~Linked(r) /\ run[r].retry /\ turn[c] # None /\ SettleRun(r) /\ UNCHANGED turn
       \/ /\ ~Linked(r) /\ run[r].retry /\ turn[c] = None
          /\ Enter(r, c, "turn") /\ turn' = [turn EXCEPT ![c] = r]
    /\ UNCHANGED <<table, ownTurns>>

-----------------------------------------------------------------------------
(* The run *)

\* configureChild returns, or throws.
Configured(r) ==
    /\ run[r].pc = "configure"
    /\ \/ SettleRun(r)
       \/ ~run[r].aborted /\ Goto(r, "hook") /\ UNCHANGED activeChildren
    /\ UNCHANGED <<table, turn, ownTurns>>

\* The SubagentStart hooks are over, and the abort is looked at once more.
HookReturns(r) ==
    /\ run[r].pc = "hook"
    /\ \/ run[r].aborted /\ SettleRun(r) /\ UNCHANGED turn
       \/ /\ ~run[r].aborted /\ run[r].child \in Explorers
          /\ Goto(r, "git") /\ UNCHANGED <<activeChildren, turn>>
       \/ ~run[r].aborted /\ run[r].child \notin Explorers /\ PromptChild(r)
    /\ UNCHANGED <<table, ownTurns>>

\* collectGitContext returns; the abort is not looked at.
GitReturns(r) ==
    /\ run[r].pc = "git"
    /\ PromptChild(r)
    /\ UNCHANGED <<table, ownTurns>>

\* The child's turn ends.  A run it belongs to settles, or asks once more for a longer
\* summary; the next turn is launched before anyone else can.
TurnEnds(c) ==
    LET r == turn[c] IN
    /\ r # None
    /\ IF r \in Runs /\ run[r].pc = "turn"
       THEN \/ SettleRun(r) /\ turn' = [turn EXCEPT ![c] = None]
            \/ /\ run[r].left > 0
               /\ run' = [run EXCEPT ![r].left = @ - 1]
               /\ UNCHANGED <<activeChildren, turn>>
       ELSE turn' = [turn EXCEPT ![c] = None] /\ UNCHANGED <<activeChildren, run>>
    /\ UNCHANGED <<table, ownTurns>>

\* A client cancels the child's turn; the run hears of it when the worker returns.
ClientCancels(c) ==
    /\ turn[c] # None
    /\ turn' = [turn EXCEPT ![c] = None]
    /\ IF turn[c] \in Runs /\ run[turn[c]].pc = "turn" THEN Goto(turn[c], "ending")
       ELSE UNCHANGED run
    /\ UNCHANGED <<table, activeChildren, ownTurns>>

CancelledWorkerReturns(r) ==
    /\ run[r].pc = "ending"
    /\ SettleRun(r)
    /\ UNCHANGED <<table, turn, ownTurns>>

\* A client prompts the child, or one of its own background tasks steers it.
OwnTurn(c) ==
    /\ agents[c] = "ready" /\ turn[c] = None /\ ownTurns < MaxOwnTurns
    /\ turn' = [turn EXCEPT ![c] = Own] /\ ownTurns' = ownTurns + 1
    /\ UNCHANGED <<table, activeChildren, run>>

\* The signals of some runs are aborted.  A run that waits for a turn cancels it, by its
\* id, and rejects at once; the others notice later.
AbortRuns(aborted) ==
    /\ \A r \in aborted : run[r].pc \notin {"idle", "done"} /\ ~run[r].signal
    /\ LET rejects == {r \in aborted : run[r].pc \in {"turn", "ending"}}
       IN  /\ run' = [r \in Runs |->
                 IF r \in rejects THEN Over(r)
                 ELSE IF r \in aborted
                 THEN [run[r] EXCEPT !.signal = TRUE, !.aborted = run[r].pc \in Entered,
                                     !.late = run[r].pc = "git"]
                 ELSE run[r]]
           /\ turn' = [c \in Children |-> IF turn[c] \in rejects THEN None ELSE turn[c]]
           /\ activeChildren' = activeChildren \ {run[r].child : r \in rejects}
    /\ UNCHANGED <<table, ownTurns>>

\* A deadline, a batch that gives up an attempt, or a background task that is stopped,
\* times out or cannot be registered.
AbortOne(r) == AbortRuns({r})

\* The parent's turn is cancelled: its tools' signals, and cancelAll.
CancelParent ==
    LET foreground == {r \in Runs : /\ run[r].pc \notin {"idle", "done"}
                                    /\ ~run[r].background /\ ~run[r].signal}
    IN  foreground # {} /\ AbortRuns(foreground)

RunStep(r) ==
    \/ \E c \in Children : Created(r, c)
    \/ CheckIdle(r) \/ EnterChild(r) \/ Configured(r) \/ HookReturns(r) \/ GitReturns(r)
    \/ CancelledWorkerReturns(r)

HostNext ==
    \/ \E r \in Runs, b \in BOOLEAN :
            Spawn(r, b) \/ \E c \in Children, retry \in BOOLEAN : Resume(r, c, b, retry)
    \/ \E r \in Runs : RunStep(r) \/ AbortOne(r)
    \/ \E c \in Children : \/ TouchAgent(c) \/ AgentLoaded(c) \/ LoadFails(c)
                            \/ TurnEnds(c) \/ ClientCancels(c) \/ OwnTurn(c)
    \/ CancelParent

\* Awaited promises settle: a replay, a profile, hooks (which have a time limit), git,
\* the worker of a cancelled turn.  A turn of the child need not end.
HostFairness ==
    /\ \A r \in Runs : WF_hostVars(RunStep(r))
    /\ \A c \in Children : WF_hostVars(AgentLoaded(c))

HostSpec == HostInit /\ [][HostNext]_hostVars /\ HostFairness

-----------------------------------------------------------------------------
(* Properties *)

\* A run that waits for a turn waits for one it launched, so that it reports what it
\* asked for; and a turn that a run launched is active only while the run waits for it,
\* so that whoever stops the run stops the child.  One exception: an explorer whose run
\* was aborted while the git context was collected is prompted nevertheless.
TurnsHaveRuns ==
    /\ \A r \in Runs : run[r].pc = "turn" => turn[run[r].child] = r
    /\ \A c \in Children : turn[c] \in Runs =>
            LET r == turn[c] IN run[r].pc = "turn" \/ run[r].late

\* A stored agent exists once, so that its log has one writer: however many calls ask
\* for it at once and whatever replay fails, it is loaded by one call, or is there.
LoadedOnce == \A c \in Children : loads[c] + (IF agents[c] = "ready" THEN 1 ELSE 0) <= 1

\* A run that is stopped returns to the tool that waits for it, wherever it is and
\* although its child may never end its turn.
StoppedRunsReturn == \A r \in Runs : run[r].signal ~> run[r].pc = "done"
=============================================================================
