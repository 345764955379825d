--------------------------- MODULE TurnFlow_proofs ---------------------------
(***************************************************************************)
(* For any number of inputs, goals and workers and any budgets: a worker   *)
(* that was given up on never takes the active turn from another, one that *)
(* was not holds it while it is in a turn, and no input is dropped or      *)
(* repeated.                                                               *)
(***************************************************************************)
EXTENDS TurnFlow, FiniteSetTheorems, TLAPS

Ends == {"none", "cancelled", "failed", "blocked", "completed"}

WorkerRecord ==
    [pc : Awaits \cup {"idle", "done"}, turn : Int, input : Workers \cup {0},
     aborted : BOOLEAN, driving : BOOLEAN, firstGoal : Statuses, end : Ends,
     stopHookUsed : BOOLEAN]

GoalRecord == [status : Statuses, turnsUsed : Nat, turnBudget : TurnBudgets \cup {NoBudget}]

Typing ==
    /\ turnId \in Int /\ turnId >= -1
    /\ activeTurn \in Workers \cup {NoTurn}
    /\ inputs \in Nat /\ inputs <= MaxInputs
    /\ steerBuffer \in Seq(1..inputs)
    /\ context \in [Workers -> Nat]
    /\ goal \in GoalRecord
    /\ worker \in [Workers -> WorkerRecord]

\* Workers are launched in the order of the inputs, their turns are among those that
\* were allocated, and the active turn's worker has not returned.
Launched ==
    \A w \in Workers :
        /\ w > inputs => worker[w].pc = "idle"
        /\ worker[w].turn <= turnId
        /\ activeTurn = w => worker[w].pc \notin {"idle", "done"}

Under(r) == r.pc \notin {"idle", "done"}

\* The turn that was allocated last, if a standalone turn of w, was launched with w and
\* no other worker has become the active one since.
Latest ==
    \A w \in Workers :
        Under(worker[w]) /\ ~worker[w].driving /\ worker[w].turn = turnId
        => activeTurn \in {w, NoTurn}

\* Until its standalone turn has ended, or its drive, a worker that was not cancelled
\* holds the active turn.
Holds(r) ==
    /\ ~r.aborted
    /\ r.pc \in InTurn \cup {"startTurn", "budgetEnd"} \/ (r.pc = "turnEnded" /\ r.driving)
    /\ ~(r.driving /\ r.firstGoal # "active")

Held == \A w \in Workers : Holds(worker[w]) => activeTurn = w

\* The inductive invariant of the turns.
FlowInv == Typing /\ Launched /\ Latest /\ Held

-----------------------------------------------------------------------------
(* The pieces of the worker *)

LEMMA NewWorkerTyped ==
    ASSUME NEW t \in Int, NEW input \in Workers \cup {0}, goal \in GoalRecord
    PROVE  /\ NewWorker(t, input) \in WorkerRecord
           /\ NewWorker(t, input).turn = t /\ NewWorker(t, input).input = input
           /\ NewWorker(t, input).pc = "startTurn" /\ ~NewWorker(t, input).driving
           /\ ~NewWorker(t, input).aborted /\ NewWorker(t, input).firstGoal = goal.status
BY DEF NewWorker, WorkerRecord, GoalRecord, Awaits, Ends

LEMMA NotLaunchedTyped ==
    ASSUME goal \in GoalRecord
    PROVE  /\ NotLaunched \in WorkerRecord /\ NotLaunched.pc = "idle"
           /\ NotLaunched.turn = -1 /\ NotLaunched.input = 0
           /\ \A a \in BOOLEAN :
                LET r == [NotLaunched EXCEPT !.pc = "done", !.aborted = a]
                IN  r \in WorkerRecord /\ r.pc = "done" /\ r.turn = -1 /\ r.aborted = a
<1> DEFINE first == NewWorker(-1, 0)
<1>1. first \in WorkerRecord /\ first.turn = -1 /\ first.input = 0
  <2>1. -1 \in Int /\ 0 \in Workers \cup {0}
    OBVIOUS
  <2>. QED
    BY <2>1, NewWorkerTyped
<1>2. NotLaunched = [first EXCEPT !.pc = "idle", !.firstGoal = "none"]
  BY DEF NotLaunched
<1>. HIDE DEF first
<1>3. /\ NotLaunched \in WorkerRecord /\ NotLaunched.pc = "idle"
      /\ NotLaunched.turn = -1 /\ NotLaunched.input = 0
  BY <1>1, <1>2 DEF WorkerRecord, Statuses
<1>. QED
  BY <1>3 DEF WorkerRecord

\* A sequence holds an item at finitely many places.
LEMMA PlacesFinite ==
    ASSUME NEW S, NEW seq \in Seq(S), NEW i
    PROVE  /\ IsFiniteSet({n \in DOMAIN seq : seq[n] = i})
           /\ Cardinality({n \in DOMAIN seq : seq[n] = i}) \in Nat
<1>1. IsFiniteSet(1..Len(seq))
  BY FS_Interval
<1>2. {n \in DOMAIN seq : seq[n] = i} \subseteq 1..Len(seq)
  OBVIOUS
<1>. QED
  BY <1>1, <1>2, FS_Subset, FS_CardinalityType

LEMMA AppendTyped ==
    ASSUME context \in [Workers -> Nat], NEW S, NEW seq \in Seq(S), AppendUserMessage(seq)
    PROVE  context' \in [Workers -> Nat]
<1>1. \A i \in Workers : Cardinality({n \in DOMAIN seq : seq[n] = i}) \in Nat
  BY PlacesFinite
<1>. QED
  BY <1>1 DEF AppendUserMessage

LEMMA IncrementTyped ==
    ASSUME goal \in GoalRecord, IncrementTurn
    PROVE  goal' \in GoalRecord
BY DEF GoalRecord, IncrementTurn

LEMMA LeaveActiveTyped ==
    ASSUME goal \in GoalRecord, NEW status \in Statuses, LeaveActive(status)
    PROVE  goal' \in GoalRecord
BY DEF GoalRecord, LeaveActive

LEMMA InitFlowInv == Init => FlowInv
<1>. SUFFICES ASSUME Init
              PROVE  FlowInv
  OBVIOUS
<1>1. goal \in GoalRecord /\ goal.turnsUsed = 0
  <2>1. goal \in [status : GoalAtStart, turnsUsed : {0},
                       turnBudget : TurnBudgets \cup {NoBudget}]
           /\ GoalAtStart \subseteq Statuses
    BY TurnFlowAssumption DEF Init, Statuses
  <2>. QED
    BY <2>1 DEF GoalRecord
<1>2. Typing
  <2>1. << >> \in Seq(1..0)
    OBVIOUS
  <2>. QED
    <3>1. worker \in [Workers -> WorkerRecord] /\ context \in [Workers -> Nat]
      BY <1>1, NotLaunchedTyped DEF Init
    <3>2. turnId \in Int /\ turnId >= -1 /\ inputs \in Nat /\ inputs <= MaxInputs
      BY TurnFlowAssumption DEF Init
    <3>. QED
      BY <1>1, <2>1, <3>1, <3>2 DEF Init, Typing
<1>3. Launched /\ Latest /\ Held
  <2>1. \A w \in Workers : worker[w].pc = "idle" /\ worker[w].turn = -1
    BY <1>1, NotLaunchedTyped DEF Init
  <2>2. turnId = -1 /\ \A w \in Workers : activeTurn # w
    BY TurnFlowAssumption DEF Init, Workers
  <2>. QED
    BY <2>1, <2>2 DEF Launched, Latest, Held, Holds, Under, InTurn
<1>. QED
  BY <1>2, <1>3 DEF FlowInv

\* A step of one worker that is under way.
LEMMA WorkerMoves ==
    ASSUME FlowInv, NEW w \in Workers, NEW new \in WorkerRecord,
           worker' = [worker EXCEPT ![w] = new],
           Under(worker[w]), new.pc # "idle", inputs' = inputs,
           turnId' \in {turnId, turnId + 1}, new.turn <= turnId',
           activeTurn' = activeTurn \/ (activeTurn' = NoTurn /\ activeTurn = w),
           Holds(new) => activeTurn' = w,
           Under(new) /\ ~new.driving /\ new.turn = turnId' => activeTurn' \in {w, NoTurn},
           new.pc = "done" => activeTurn' # w,
           goal' \in GoalRecord',
           context' \in [Workers -> Nat], steerBuffer' \in Seq(1..inputs)
    PROVE  FlowInv'
<1>1. /\ worker' \in [Workers -> WorkerRecord] /\ worker'[w] = new
      /\ \A v \in Workers \ {w} : worker'[v] = worker[v]
  BY DEF FlowInv, Typing
<1>2. /\ turnId \in Int /\ turnId >= -1 /\ inputs \in Nat
      /\ \A v \in Workers : worker[v].turn \in Int /\ worker[v].turn <= turnId
  BY DEF FlowInv, Typing, Launched, WorkerRecord
<1>3. Typing'
  BY <1>1, <1>2 DEF FlowInv, Typing
<1>4. Launched'
  <2> SUFFICES ASSUME NEW v \in Workers
               PROVE  /\ v > inputs' => worker'[v].pc = "idle"
                      /\ worker'[v].turn <= turnId'
                      /\ activeTurn' = v => worker'[v].pc \notin {"idle", "done"}
    BY DEF Launched
  <2>1. CASE v = w
    BY <1>1, <2>1 DEF FlowInv, Launched, Under
  <2>2. CASE v # w
    BY <1>1, <1>2, <2>2, TurnFlowAssumption DEF FlowInv, Launched, Workers
  <2>. QED
    BY <2>1, <2>2
<1>5. Latest'
  <2> SUFFICES ASSUME NEW v \in Workers, Under(worker'[v]), ~worker'[v].driving,
                      worker'[v].turn = turnId'
               PROVE  activeTurn' \in {v, NoTurn}
    BY DEF Latest, Under
  <2>1. CASE v = w
    BY <1>1, <2>1
  <2>2. CASE v # w
    BY <1>1, <1>2, <2>2 DEF FlowInv, Latest
  <2>. QED
    BY <2>1, <2>2
<1>6. Held'
  <2> SUFFICES ASSUME NEW v \in Workers, Holds(worker'[v])
               PROVE  activeTurn' = v
    BY DEF Held, Holds
  <2>1. CASE v = w
    BY <1>1, <2>1
  <2>2. CASE v # w
    BY <1>1, <2>2, TurnFlowAssumption DEF FlowInv, Held
  <2>. QED
    BY <2>1, <2>2
<1>. QED
  BY <1>3, <1>4, <1>5, <1>6 DEF FlowInv
\* A buffer of inputs stays one when more inputs are accepted.
LEMMA BufferGrows ==
    ASSUME inputs \in Nat, NEW seq \in Seq(1..inputs)
    PROVE  seq \in Seq(1..(inputs + 1))
<1>1. 1..inputs \subseteq 1..(inputs + 1)
  OBVIOUS
<1>. QED
  BY <1>1

\* A worker is launched, by the input just accepted, when no turn is active.
LEMMA LaunchMoves ==
    ASSUME FlowInv, NEW w \in Workers, w = inputs + 1, inputs' = w, activeTurn = NoTurn,
           NEW new \in WorkerRecord, worker' = [worker EXCEPT ![w] = new],
           Under(new), new.turn = turnId + 1, turnId' = turnId + 1, activeTurn' = w,
           goal' \in GoalRecord',
           context' \in [Workers -> Nat], steerBuffer' = steerBuffer
    PROVE  FlowInv'
<1>1. /\ worker' \in [Workers -> WorkerRecord] /\ worker'[w] = new
      /\ \A v \in Workers \ {w} : worker'[v] = worker[v]
  BY DEF FlowInv, Typing
<1>2. /\ turnId \in Int /\ turnId >= -1 /\ inputs \in Nat
      /\ \A v \in Workers : worker[v].turn \in Int /\ worker[v].turn <= turnId
      /\ \A v \in Workers : v \in Int /\ v # NoTurn
  BY TurnFlowAssumption, SMTT(30) DEF FlowInv, Typing, Launched, WorkerRecord, Workers
<1>3. Typing'
  <2>1. steerBuffer' \in Seq(1..inputs')
    BY BufferGrows DEF FlowInv, Typing
  <2>2. inputs' \in Nat /\ inputs' <= MaxInputs
    BY <1>2, TurnFlowAssumption DEF Workers
  <2>. QED
    BY <1>1, <1>2, <2>1, <2>2 DEF FlowInv, Typing
<1>4. Launched'
  <2> SUFFICES ASSUME NEW v \in Workers
               PROVE  /\ v > inputs' => worker'[v].pc = "idle"
                      /\ worker'[v].turn <= turnId'
                      /\ activeTurn' = v => worker'[v].pc \notin {"idle", "done"}
    BY DEF Launched
  <2>1. CASE v = w
    BY <1>1, <1>2, <2>1 DEF Under
  <2>2. CASE v # w
    BY <1>1, <1>2, <2>2 DEF FlowInv, Launched
  <2>. QED
    BY <2>1, <2>2
<1>5. Latest'
  BY <1>1, <1>2 DEF Latest, Under
<1>6. Held'
  <2> SUFFICES ASSUME NEW v \in Workers, Holds(worker'[v])
               PROVE  activeTurn' = v
    BY DEF Held, Holds
  <2>1. CASE v = w
    BY <2>1
  <2>2. CASE v # w
    BY <1>1, <1>2, <2>2 DEF FlowInv, Held
  <2>. QED
    BY <2>1, <2>2
<1>. QED
  BY <1>3, <1>4, <1>5, <1>6 DEF FlowInv

\* Where RunOneTurn and DriveGoal leave a worker's record, the goal and the context.
LEMMA RunOneTurnFacts ==
    ASSUME context \in [Workers -> Nat], NEW w \in Workers, NEW rec \in WorkerRecord,
           RunOneTurn(w, rec)
    PROVE  /\ context' \in [Workers -> Nat]
           /\ \E new \in WorkerRecord :
                /\ worker' = [worker EXCEPT ![w] = new]
                /\ new.pc = "promptHook" /\ new.turn = rec.turn /\ new.driving = rec.driving
                /\ new.aborted = rec.aborted /\ new.firstGoal = rec.firstGoal
<1>1. context' \in [Workers -> Nat]
  <2>1. rec.input \in Workers \cup {0}
    BY DEF WorkerRecord
  <2>2. <<rec.input>> \in Seq(Workers \cup {0})
    BY <2>1
  <2>. QED
    BY <2>2, AppendTyped DEF RunOneTurn
<1> DEFINE new == [rec EXCEPT !.pc = "promptHook", !.end = "none", !.stopHookUsed = FALSE]
<1>2. new \in WorkerRecord /\ new.pc = "promptHook" /\ new.turn = rec.turn
      /\ new.driving = rec.driving /\ new.aborted = rec.aborted
      /\ new.firstGoal = rec.firstGoal
  BY DEF WorkerRecord, Awaits, InTurn, Ends
<1>3. worker' = [worker EXCEPT ![w] = new]
  BY DEF RunOneTurn
<1>. QED
  BY <1>1, <1>2, <1>3

LEMMA DriveGoalFacts ==
    ASSUME goal \in GoalRecord, context \in [Workers -> Nat],
           NEW w \in Workers, NEW rec \in WorkerRecord, DriveGoal(w, rec)
    PROVE  /\ goal' \in GoalRecord /\ context' = context
           /\ \E new \in WorkerRecord :
                /\ worker' = [worker EXCEPT ![w] = new]
                /\ new.pc \in {"budgetEnd", "startTurn"} /\ new.turn = rec.turn
                /\ new.driving /\ new.input = rec.input
                /\ new.aborted = rec.aborted /\ new.firstGoal = rec.firstGoal
<1>1. goal' \in GoalRecord
  BY IncrementTyped, LeaveActiveTyped DEF DriveGoal, Statuses
<1>2. \A pc \in {"budgetEnd", "startTurn"} :
        LET new == [rec EXCEPT !.pc = pc, !.driving = TRUE]
        IN  /\ new \in WorkerRecord /\ new.pc = pc /\ new.turn = rec.turn
            /\ new.driving /\ new.input = rec.input
            /\ new.aborted = rec.aborted /\ new.firstGoal = rec.firstGoal
  BY DEF WorkerRecord, Awaits
<1>3. \/ worker' = [worker EXCEPT ![w] = [rec EXCEPT !.pc = "budgetEnd", !.driving = TRUE]]
      \/ worker' = [worker EXCEPT ![w] = [rec EXCEPT !.pc = "startTurn", !.driving = TRUE]]
  BY DEF DriveGoal
<1>4. context' = context
  BY DEF DriveGoal
<1>. QED
  BY <1>1, <1>2, <1>3, <1>4

LEMMA LaunchKeeps ==
    ASSUME FlowInv, inputs < MaxInputs, activeTurn = NoTurn, inputs' = inputs + 1,
           Launch(inputs + 1), steerBuffer' = steerBuffer
    PROVE  FlowInv'
<1> DEFINE w == inputs + 1
           rec == NewWorker(turnId + 1, w)
<1>1. /\ w \in Workers /\ turnId + 1 \in Int /\ goal \in GoalRecord
      /\ context \in [Workers -> Nat]
  BY TurnFlowAssumption DEF FlowInv, Typing, Workers
<1>2. rec \in WorkerRecord /\ rec.turn = turnId + 1
  BY <1>1, NewWorkerTyped
<1>3. /\ turnId' = turnId + 1 /\ activeTurn' = w
      /\ IF goal.status = "active"
         THEN DriveGoal(w, NewWorker(turnId', w))
         ELSE RunOneTurn(w, NewWorker(turnId', w)) /\ UNCHANGED goal
  BY DEF Launch
<1>4. IF goal.status = "active" THEN DriveGoal(w, rec)
      ELSE RunOneTurn(w, rec) /\ UNCHANGED goal
  <2>1. NewWorker(turnId', w) = rec
    BY <1>3 DEF NewWorker
  <2>. QED
    BY <1>3, <2>1
<1>. HIDE DEF w, rec
<1>5. CASE goal.status = "active"
  <2>1. PICK new \in WorkerRecord :
          /\ worker' = [worker EXCEPT ![w] = new]
          /\ new.pc \in {"budgetEnd", "startTurn"} /\ new.turn = turnId + 1
    BY <1>1, <1>2, <1>4, <1>5, DriveGoalFacts
  <2>2. goal' \in GoalRecord /\ context' = context
    BY <1>1, <1>2, <1>4, <1>5, DriveGoalFacts
  <2>3. w = inputs + 1 /\ inputs' = w
    BY DEF w
  <2>. QED
    BY <1>1, <1>3, <2>1, <2>2, <2>3, LaunchMoves DEF Under
<1>6. CASE goal.status # "active"
  <2>1. PICK new \in WorkerRecord :
          /\ worker' = [worker EXCEPT ![w] = new]
          /\ new.pc = "promptHook" /\ new.turn = turnId + 1
    BY <1>1, <1>2, <1>4, <1>6, RunOneTurnFacts
  <2>2. goal' = goal /\ context' \in [Workers -> Nat]
    BY <1>1, <1>2, <1>4, <1>6, RunOneTurnFacts
  <2>3. w = inputs + 1 /\ inputs' = w
    BY DEF w
  <2>. QED
    BY <1>1, <1>3, <2>1, <2>2, <2>3, LaunchMoves DEF Under
<1>. QED
  BY <1>5, <1>6
-----------------------------------------------------------------------------
(* What the outside does *)

LEMMA OutsideKeeps ==
    ASSUME FlowInv, Prompt \/ Steer \/ Cancel \/ UserGoalUpdate
    PROVE  FlowInv'
<1>1. CASE Prompt
  BY <1>1, LaunchKeeps DEF Prompt
<1>2. CASE Steer
  <2>1. CASE activeTurn = NoTurn
    BY <1>2, <2>1, LaunchKeeps DEF Steer
  <2>2. CASE activeTurn # NoTurn
    <3>1. /\ inputs' = inputs + 1 /\ steerBuffer' = Append(steerBuffer, inputs + 1)
          /\ UNCHANGED <<turnId, activeTurn, worker, context, goal>>
      BY <1>2, <2>2 DEF Steer
    <3>2. inputs \in Nat /\ steerBuffer \in Seq(1..(inputs + 1)) /\ inputs + 1 \in 1..(inputs + 1)
      BY BufferGrows DEF FlowInv, Typing
    <3>3. steerBuffer' \in Seq(1..inputs') /\ inputs' \in Nat /\ inputs' <= MaxInputs
      <4>1. inputs < MaxInputs
        BY <1>2 DEF Steer
      <4>. QED
        BY <3>1, <3>2, <4>1, TurnFlowAssumption
    <3>4. Typing'
      BY <3>1, <3>2, <3>3 DEF FlowInv, Typing
    <3>5. \A w \in Workers : w > inputs' => w > inputs
      BY <3>1, <3>2 DEF Workers
    <3>6. Launched' /\ Latest' /\ Held'
      BY <3>1, <3>5 DEF FlowInv, Launched, Latest, Held, Holds, Under
    <3>. QED
      BY <3>4, <3>6 DEF FlowInv
  <2>. QED
    BY <2>1, <2>2
<1>3. CASE Cancel
  <2> DEFINE w == activeTurn
             new == [worker[w] EXCEPT !.aborted = TRUE]
  <2>1. /\ w \in Workers /\ worker[w] \in WorkerRecord /\ Under(worker[w])
        /\ worker[w].turn <= turnId
    BY <1>3 DEF Cancel, FlowInv, Typing, Launched, Under
  <2>2. /\ new \in WorkerRecord /\ new.pc = worker[w].pc /\ new.aborted
        /\ new.turn = worker[w].turn /\ new.driving = worker[w].driving
    BY <2>1 DEF WorkerRecord
  <2>3. /\ worker' = [worker EXCEPT ![w] = new] /\ activeTurn' = NoTurn
        /\ UNCHANGED <<turnId, steerBuffer, context, inputs, goal>>
    BY <1>3 DEF Cancel
  <2>4. /\ ~Holds(new) /\ new.pc \notin {"idle", "done"}
    BY <2>1, <2>2 DEF Holds, Under
  <2>5. goal' \in GoalRecord /\ context' \in [Workers -> Nat]
        /\ steerBuffer' \in Seq(1..inputs)
    BY <2>3 DEF FlowInv, Typing
  <2>. HIDE DEF new
  <2>. QED
    BY <2>1, <2>2, <2>3, <2>4, <2>5, WorkerMoves
<1>4. CASE UserGoalUpdate
  <2>1. goal' \in GoalRecord
    BY <1>4, TurnFlowAssumption
    DEF UserGoalUpdate, CreateGoal, PauseGoal, ResumeGoal, CancelGoal, SetStatus, ClearGoal,
        NoGoal, FlowInv, Typing, GoalRecord, Statuses
  <2>2. UNCHANGED <<turnId, activeTurn, steerBuffer, worker, context, inputs>>
    BY <1>4 DEF UserGoalUpdate
  <2>. QED
    BY <2>1, <2>2 DEF FlowInv, Typing, Launched, Latest, Held, Holds, Under
<1>. QED
  BY <1>1, <1>2, <1>3, <1>4

-----------------------------------------------------------------------------
(* The worker *)

LEMMA Facts ==
    ASSUME FlowInv, NEW w \in Workers
    PROVE  /\ worker[w] \in WorkerRecord /\ worker[w].turn <= turnId
           /\ turnId \in Int /\ inputs \in Nat /\ activeTurn \in Workers \cup {NoTurn}
           /\ goal \in GoalRecord /\ context \in [Workers -> Nat]
           /\ steerBuffer \in Seq(1..inputs)
           /\ worker[w].turn \in Int
BY DEF FlowInv, Typing, Launched, WorkerRecord

\* The end of runOneTurn.
LEMMA EndTurnKeeps ==
    ASSUME FlowInv, NEW w \in Workers, NEW reason \in Ends, EndTurn(w, reason),
           worker[w].pc \in InTurn, UNCHANGED <<turnId, context, inputs, goal>>
    PROVE  FlowInv'
<1> DEFINE new == [worker[w] EXCEPT !.pc = "turnEnded", !.end = reason]
<1>1. /\ new \in WorkerRecord /\ new.pc = "turnEnded" /\ new.turn = worker[w].turn
      /\ new.driving = worker[w].driving /\ new.aborted = worker[w].aborted
      /\ new.firstGoal = worker[w].firstGoal
  BY Facts DEF WorkerRecord, Awaits
<1>2. /\ worker' = [worker EXCEPT ![w] = new] /\ steerBuffer' = steerBuffer
      /\ activeTurn' = IF ~worker[w].driving /\ turnId = worker[w].turn
                       THEN NoTurn ELSE activeTurn
  BY DEF EndTurn
<1>. HIDE DEF new
<1>3. Under(worker[w]) /\ new.pc \notin {"idle", "done"}
  BY <1>1 DEF Under, InTurn
<1>4. activeTurn' = activeTurn \/ (activeTurn' = NoTurn /\ activeTurn = w)
  BY <1>2, <1>3 DEF FlowInv, Latest
<1>5. Holds(new) => activeTurn' = w
  <2>1. Holds(new) => Holds(worker[w]) /\ worker[w].driving
    BY <1>1 DEF Holds, InTurn
  <2>. QED
    BY <1>2, <2>1 DEF FlowInv, Held
<1>6. Under(new) /\ ~new.driving /\ new.turn = turnId' => activeTurn' \in {w, NoTurn}
  BY <1>1, <1>2
<1>7. goal' \in GoalRecord /\ context' \in [Workers -> Nat]
      /\ steerBuffer' \in Seq(1..inputs) /\ new.turn <= turnId'
  BY <1>1, <1>2, Facts
<1>. QED
  BY <1>1, <1>2, <1>3, <1>4, <1>5, <1>6, <1>7, WorkerMoves

\* A worker goes on within its turn, or leaves a turn that is over.
LEMMA GotoKeeps ==
    ASSUME FlowInv, NEW w \in Workers, NEW new \in WorkerRecord,
           worker' = [worker EXCEPT ![w] = new], Under(worker[w]),
           \/ worker[w].pc \in InTurn \cup {"startTurn"} /\ new.pc \in InTurn
           \/ new.pc = "returning",
           new.turn = worker[w].turn, new.driving = worker[w].driving,
           new.aborted = worker[w].aborted, new.firstGoal = worker[w].firstGoal,
           context' \in [Workers -> Nat], steerBuffer' \in Seq(1..inputs),
           goal' \in GoalRecord',
           UNCHANGED <<turnId, activeTurn, inputs>>
    PROVE  FlowInv'
<1>1. Holds(new) => Holds(worker[w])
  BY DEF Holds, InTurn
<1>2. Holds(new) => activeTurn' = w
  BY <1>1 DEF FlowInv, Held
<1>3. Under(new) /\ ~new.driving /\ new.turn = turnId' => activeTurn' \in {w, NoTurn}
  BY DEF FlowInv, Latest
<1>4. new.pc \notin {"idle", "done"} /\ new.turn <= turnId' /\ turnId' \in {turnId, turnId + 1}
  BY Facts DEF InTurn
<1>. QED
  BY <1>2, <1>3, <1>4, WorkerMoves

\* Goto: only the place changes.
LEMMA GotoFacts ==
    ASSUME FlowInv, NEW w \in Workers, NEW pc \in Awaits, Goto(w, pc)
    PROVE  \E new \in WorkerRecord :
             /\ worker' = [worker EXCEPT ![w] = new] /\ new.pc = pc
             /\ new.turn = worker[w].turn /\ new.driving = worker[w].driving
             /\ new.aborted = worker[w].aborted /\ new.firstGoal = worker[w].firstGoal
<1> DEFINE new == [worker[w] EXCEPT !.pc = pc]
<1>1. /\ new \in WorkerRecord /\ new.pc = pc
      /\ new.turn = worker[w].turn /\ new.driving = worker[w].driving
      /\ new.aborted = worker[w].aborted /\ new.firstGoal = worker[w].firstGoal
  BY Facts DEF WorkerRecord
<1>2. worker' = [worker EXCEPT ![w] = new]
  BY DEF Goto
<1>. QED
  BY <1>1, <1>2

LEMMA FlushFacts ==
    ASSUME FlowInv, FlushSteerBuffer
    PROVE  context' \in [Workers -> Nat] /\ steerBuffer' \in Seq(1..inputs)
<1>1. context \in [Workers -> Nat] /\ steerBuffer \in Seq(1..inputs)
  BY DEF FlowInv, Typing
<1>. QED
  BY <1>1, AppendTyped DEF FlushSteerBuffer
\* incrementTurn, the hooks and the steps of the loop.
LEMMA InTurnKeeps ==
    ASSUME FlowInv, NEW w \in Workers,
           \/ StartTurn(w) \/ EndGoalTurnWithoutModel(w) \/ PromptHookReturns(w)
           \/ BeforeStep(w) \/ StepContinues(w) \/ StepStops(w) \/ StopHookReturns(w)
    PROVE  FlowInv'
<1>. USE Facts
<1>a. /\ goal' = goal => goal' \in GoalRecord
      /\ {"cancelled", "blocked", "failed", "completed"} \subseteq Ends
      /\ Awaits = InTurn \cup {"budgetEnd", "startTurn", "turnEnded", "returning"}
      /\ InTurn = {"promptHook", "beforeStep", "stepping", "stopHook"}
  BY DEF Ends, InTurn, Awaits
<1>1. CASE StartTurn(w)
  <2>1. worker[w].pc = "startTurn" /\ UNCHANGED <<turnId, activeTurn, steerBuffer, inputs, goal>>
    BY <1>1 DEF StartTurn
  <2>2. PICK new \in WorkerRecord :
                /\ worker' = [worker EXCEPT ![w] = new]
                /\ new.pc = "promptHook" /\ new.turn = worker[w].turn
                /\ new.driving = worker[w].driving /\ new.aborted = worker[w].aborted
                /\ new.firstGoal = worker[w].firstGoal
    BY <1>1, RunOneTurnFacts DEF StartTurn
  <2>3. context' \in [Workers -> Nat]
    BY <1>1, RunOneTurnFacts DEF StartTurn
  <2>. QED
    BY <1>a, <2>1, <2>2, <2>3, GotoKeeps DEF Under
<1>2. CASE EndGoalTurnWithoutModel(w)
  <2> DEFINE new == [worker[w] EXCEPT !.pc = "returning", !.end = "completed"]
  <2>1. /\ worker[w].pc = "budgetEnd" /\ worker' = [worker EXCEPT ![w] = new]
        /\ AppendUserMessage(<<worker[w].input>>)
        /\ UNCHANGED <<turnId, activeTurn, steerBuffer, inputs, goal>>
    BY <1>2 DEF EndGoalTurnWithoutModel
  <2>2. /\ new \in WorkerRecord /\ new.pc = "returning" /\ new.turn = worker[w].turn
        /\ new.driving = worker[w].driving /\ new.aborted = worker[w].aborted
        /\ new.firstGoal = worker[w].firstGoal
    BY DEF WorkerRecord, Awaits, Ends
  <2>3. <<worker[w].input>> \in Seq(Workers \cup {0})
    BY DEF WorkerRecord
  <2>4. context' \in [Workers -> Nat]
    BY <2>1, <2>3, AppendTyped
  <2>. HIDE DEF new
  <2>. QED
    BY <1>a, <2>1, <2>2, <2>4, GotoKeeps DEF Under
<1>b. ASSUME worker[w].pc \in InTurn, NEW pc \in InTurn, Goto(w, pc),
             context' \in [Workers -> Nat], steerBuffer' \in Seq(1..inputs),
             UNCHANGED <<turnId, activeTurn, inputs, goal>>
      PROVE  FlowInv'
  <2>1. pc \in Awaits /\ Under(worker[w])
    BY <1>a, <1>b DEF Under
  <2>2. PICK new \in WorkerRecord :
             /\ worker' = [worker EXCEPT ![w] = new] /\ new.pc = pc
             /\ new.turn = worker[w].turn /\ new.driving = worker[w].driving
             /\ new.aborted = worker[w].aborted /\ new.firstGoal = worker[w].firstGoal
    BY <1>b, <2>1, GotoFacts
  <2>. QED
    BY <1>a, <1>b, <2>1, <2>2, GotoKeeps
<1>3. CASE PromptHookReturns(w)
  <2>1. worker[w].pc \in InTurn /\ UNCHANGED <<turnId, context, inputs, goal>>
    BY <1>3, <1>a DEF PromptHookReturns
  <2>2. CASE EndTurn(w, "cancelled") \/ EndTurn(w, "blocked")
    BY <1>a, <2>1, <2>2, EndTurnKeeps
  <2>3. CASE Goto(w, "beforeStep") /\ UNCHANGED <<activeTurn, steerBuffer>>
    BY <1>a, <1>b, <2>1, <2>3
  <2>. QED
    BY <1>3, <2>2, <2>3 DEF PromptHookReturns
<1>4. CASE BeforeStep(w)
  <2>1. worker[w].pc \in InTurn /\ UNCHANGED <<turnId, inputs, goal>>
    BY <1>4, <1>a DEF BeforeStep
  <2>2. CASE (EndTurn(w, "cancelled") \/ EndTurn(w, "failed")) /\ UNCHANGED context
    BY <1>a, <2>1, <2>2, EndTurnKeeps
  <2>3. CASE FlushSteerBuffer /\ Goto(w, "stepping") /\ UNCHANGED activeTurn
    BY <1>a, <1>b, <2>1, <2>3, FlushFacts
  <2>. QED
    BY <1>4, <2>2, <2>3 DEF BeforeStep
<1>5. CASE StepContinues(w)
  <2>1. worker[w].pc \in InTurn /\ UNCHANGED <<turnId, context, inputs, goal>>
    BY <1>5, <1>a DEF StepContinues
  <2>2. CASE EndTurn(w, "cancelled") \/ EndTurn(w, "failed")
    BY <1>a, <2>1, <2>2, EndTurnKeeps
  <2>3. CASE Goto(w, "beforeStep") /\ UNCHANGED <<activeTurn, steerBuffer>>
    BY <1>a, <1>b, <2>1, <2>3
  <2>. QED
    BY <1>5, <2>2, <2>3 DEF StepContinues
<1>6. CASE StepStops(w)
  <2>1. worker[w].pc \in InTurn /\ UNCHANGED <<turnId, inputs, goal>>
    BY <1>6, <1>a DEF StepStops
  <2>2. CASE (EndTurn(w, "cancelled") \/ EndTurn(w, "completed")) /\ UNCHANGED context
    BY <1>a, <2>1, <2>2, EndTurnKeeps
  <2>3. CASE FlushSteerBuffer /\ Goto(w, "beforeStep") /\ UNCHANGED activeTurn
    BY <1>a, <1>b, <2>1, <2>3, FlushFacts
  <2>4. CASE Goto(w, "stopHook") /\ UNCHANGED <<activeTurn, steerBuffer, context>>
    BY <1>a, <1>b, <2>1, <2>4
  <2>. QED
    BY <1>6, <2>2, <2>3, <2>4 DEF StepStops
<1>7. CASE StopHookReturns(w)
  <2>1. worker[w].pc \in InTurn /\ UNCHANGED <<turnId, inputs, goal>>
    BY <1>7, <1>a DEF StopHookReturns
  <2>2. CASE (EndTurn(w, "cancelled") \/ EndTurn(w, "completed")) /\ UNCHANGED context
    BY <1>a, <2>1, <2>2, EndTurnKeeps
  <2>3. CASE /\ worker' = [worker EXCEPT ![w].pc = "beforeStep", ![w].stopHookUsed = TRUE]
             /\ UNCHANGED <<context, activeTurn, steerBuffer>>
    <3> DEFINE new == [worker[w] EXCEPT !.pc = "beforeStep", !.stopHookUsed = TRUE]
    <3>1. /\ new \in WorkerRecord /\ new.pc = "beforeStep" /\ new.turn = worker[w].turn
          /\ new.driving = worker[w].driving /\ new.aborted = worker[w].aborted
          /\ new.firstGoal = worker[w].firstGoal
      BY <1>a DEF WorkerRecord
    <3>2. worker' = [worker EXCEPT ![w] = new]
      BY <2>3
    <3>. HIDE DEF new
    <3>. QED
      BY <1>a, <2>1, <2>3, <3>1, <3>2, GotoKeeps DEF Under
  <2>. QED
    BY <1>7, <2>2, <2>3 DEF StopHookReturns
<1>. QED
  BY <1>1, <1>2, <1>3, <1>4, <1>5, <1>6, <1>7
\* The driver goes on to a continuation turn, which no standalone turn has anymore.
LEMMA ContinueGoalKeeps ==
    ASSUME FlowInv, NEW w \in Workers, worker[w].pc = "turnEnded", ContinueGoal(w),
           worker[w].driving \/ worker[w].firstGoal # "active",
           UNCHANGED <<activeTurn, steerBuffer, inputs>>
    PROVE  FlowInv'
<1>. USE Facts
<1> DEFINE rec == [worker[w] EXCEPT !.turn = turnId + 1, !.input = 0]
<1>1. /\ rec \in WorkerRecord /\ rec.turn = turnId + 1 /\ rec.driving = worker[w].driving
      /\ rec.aborted = worker[w].aborted /\ rec.firstGoal = worker[w].firstGoal
  <2>1. worker[w] \in WorkerRecord /\ turnId + 1 \in Int /\ 0 \in Workers \cup {0}
    OBVIOUS
  <2>. QED
    BY <2>1 DEF WorkerRecord
<1>2. turnId' = turnId + 1 /\ DriveGoal(w, rec)
  <2>1. turnId' = turnId + 1 /\ DriveGoal(w, [worker[w] EXCEPT !.turn = turnId', !.input = 0])
    BY DEF ContinueGoal, AllocateTurnId
  <2>. QED
    BY <2>1
<1>. HIDE DEF rec
<1>3. PICK new \in WorkerRecord :
        /\ worker' = [worker EXCEPT ![w] = new]
        /\ new.pc \in {"budgetEnd", "startTurn"} /\ new.turn = turnId + 1
        /\ new.driving /\ new.aborted = worker[w].aborted
        /\ new.firstGoal = worker[w].firstGoal
  BY <1>1, <1>2, DriveGoalFacts
<1>4. goal' \in GoalRecord /\ context' \in [Workers -> Nat]
  BY <1>1, <1>2, DriveGoalFacts
<1>5. Holds(new) => activeTurn' = w
  <2>1. Holds(new) => Holds(worker[w])
    BY <1>3 DEF Holds
  <2>. QED
    BY <2>1 DEF FlowInv, Held
<1>6. Under(worker[w]) /\ new.pc \notin {"idle", "done"} /\ new.turn <= turnId'
  BY <1>2, <1>3 DEF Under
<1>7. turnId' \in {turnId, turnId + 1} /\ steerBuffer' \in Seq(1..inputs)
  BY <1>2
<1>. QED
  BY <1>3, <1>4, <1>5, <1>6, <1>7, WorkerMoves

LEMMA ReturnsKeep ==
    ASSUME FlowInv, NEW w \in Workers,
           StandaloneReturns(w) \/ DrivenReturns(w) \/ WorkerReturns(w)
    PROVE  FlowInv'
<1>. USE Facts
<1>a. ASSUME worker[w].pc = "turnEnded", Goto(w, "returning"),
             goal' \in GoalRecord',
             UNCHANGED <<turnId, context, activeTurn, steerBuffer, inputs>>
      PROVE  FlowInv'
  <2>1. "returning" \in Awaits
    BY DEF Awaits
  <2>2. PICK new \in WorkerRecord :
             /\ worker' = [worker EXCEPT ![w] = new] /\ new.pc = "returning"
             /\ new.turn = worker[w].turn /\ new.driving = worker[w].driving
             /\ new.aborted = worker[w].aborted /\ new.firstGoal = worker[w].firstGoal
    BY <1>a, <2>1, GotoFacts
  <2>. QED
    BY <1>a, <2>2, GotoKeeps DEF Under
<1>1. CASE StandaloneReturns(w)
  <2>1. worker[w].pc = "turnEnded" /\ UNCHANGED <<activeTurn, steerBuffer, inputs>>
    BY <1>1 DEF StandaloneReturns
  <2>2. CASE worker[w].firstGoal \in {"paused", "blocked"} /\ ContinueGoal(w)
    BY <2>1, <2>2, ContinueGoalKeeps
  <2>3. CASE Goto(w, "returning") /\ UNCHANGED <<turnId, goal, context>>
    BY <1>a, <2>1, <2>3
  <2>. QED
    BY <1>1, <2>2, <2>3 DEF StandaloneReturns
<1>2. CASE DrivenReturns(w)
  <2>1. /\ worker[w].pc = "turnEnded" /\ worker[w].driving
        /\ UNCHANGED <<activeTurn, steerBuffer, inputs>>
    BY <1>2 DEF DrivenReturns
  <2>2. CASE ContinueGoal(w)
    BY <2>1, <2>2, ContinueGoalKeeps
  <2>3. ASSUME NEW status \in {"paused", "blocked"}, LeaveActive(status),
               Goto(w, "returning"), UNCHANGED <<turnId, context>>
        PROVE  FlowInv'
    BY <1>a, <2>1, <2>3, LeaveActiveTyped DEF Statuses
  <2>. QED
    BY <1>2, <2>2, <2>3 DEF DrivenReturns
<1>3. CASE WorkerReturns(w)
  <2> DEFINE new == [NotLaunched EXCEPT !.pc = "done", !.aborted = worker[w].aborted]
  <2>1. /\ worker[w].pc = "returning" /\ worker' = [worker EXCEPT ![w] = new]
        /\ activeTurn' = IF activeTurn = w THEN NoTurn ELSE activeTurn
        /\ UNCHANGED <<turnId, steerBuffer, context, inputs, goal>>
    BY <1>3 DEF WorkerReturns
  <2>2. worker[w].aborted \in BOOLEAN /\ turnId >= -1
    BY DEF WorkerRecord, FlowInv, Typing
  <2>3. new \in WorkerRecord /\ new.pc = "done" /\ new.turn = -1
    BY <2>2, NotLaunchedTyped
  <2>. HIDE DEF new
  <2>4. ~Holds(new) /\ ~Under(new) /\ Under(worker[w])
    BY <2>1, <2>3 DEF Holds, Under, InTurn
  <2>5. activeTurn' # w /\ (activeTurn' = activeTurn \/ (activeTurn' = NoTurn /\ activeTurn = w))
    BY <2>1, TurnFlowAssumption DEF Workers
  <2>6. /\ goal' \in GoalRecord /\ context' \in [Workers -> Nat]
        /\ steerBuffer' \in Seq(1..inputs) /\ new.turn <= turnId'
    BY <2>1, <2>2, <2>3
  <2>. QED
    BY <2>1, <2>3, <2>4, <2>5, <2>6, WorkerMoves
<1>. QED
  BY <1>1, <1>2, <1>3

LEMMA ModelGoalKeeps ==
    ASSUME FlowInv, NEW w \in Workers, ModelGoalUpdate(w)
    PROVE  FlowInv'
<1>1. goal' \in GoalRecord
  BY Facts, TurnFlowAssumption
  DEF ModelGoalUpdate, CreateGoal, PauseGoal, ResumeGoal, MarkBlocked, MarkComplete, SetStatus,
      SetBudgetLimits, ClearGoal, NoGoal, GoalRecord, Statuses
<1>2. UNCHANGED <<turnId, activeTurn, steerBuffer, worker, context, inputs>>
  BY DEF ModelGoalUpdate
<1>. QED
  BY <1>1, <1>2 DEF FlowInv, Typing, Launched, Latest, Held, Holds, Under

LEMMA NextFlowInv == FlowInv /\ [Next]_vars => FlowInv'
<1>. SUFFICES ASSUME FlowInv, [Next]_vars
              PROVE  FlowInv'
  OBVIOUS
<1>1. ASSUME NEW w \in Workers, WorkerStep(w)
      PROVE  FlowInv'
  BY <1>1, InTurnKeeps, ReturnsKeep DEF WorkerStep
<1>2. CASE UNCHANGED vars
  BY <1>2 DEF vars, FlowInv, Typing, Launched, Latest, Held, Holds, Under
<1>. QED
  BY <1>1, <1>2, OutsideKeeps, ModelGoalKeeps DEF Next

\* What every step of the outside and of the workers preserves.
THEOREM InductiveInvariant == Spec => []FlowInv
BY InitFlowInv, NextFlowInv, PTL DEF Spec

\* The turn ids, the buffer, the goal and the workers stay among the values the code can
\* hold.
THEOREM TypeCorrect == Spec => []TypeOK
<1>1. FlowInv => TypeOK
  BY DEF FlowInv, Typing, Launched, TypeOK, WorkerRecord, GoalRecord
<1>. QED
  BY <1>1, InductiveInvariant, PTL

\* launch and runOneTurn: a worker that was not cancelled holds the active turn while it
\* is in a turn, so that a second prompt is refused and a cancel reaches it, unless it
\* drives a goal resumed in its own standalone turn.
THEOREM TurnIsHeld == Spec => []ActiveTurnHeld
<1>1. FlowInv => ActiveTurnHeld
  BY DEF FlowInv, Held, Holds, ActiveTurnHeld
<1>. QED
  BY <1>1, InductiveInvariant, PTL

-----------------------------------------------------------------------------
(* The active turn is never taken from a worker *)

\* EndTurn releases the active turn of its own worker at most.
LEMMA EndTurnReleasesOwn ==
    ASSUME FlowInv, NEW v \in Workers, worker[v].pc \in InTurn, NEW reason \in Ends,
           EndTurn(v, reason)
    PROVE  /\ activeTurn' # activeTurn => activeTurn \in {v, NoTurn}
           /\ worker'[v].pc = "turnEnded"
<1>1. worker \in [Workers -> WorkerRecord]
  BY DEF FlowInv, Typing
<1>2. worker'[v].pc = "turnEnded"
  BY <1>1 DEF EndTurn, WorkerRecord
<1>3. Under(worker[v])
  BY DEF Under, InTurn
<1>. QED
  BY <1>2, <1>3 DEF EndTurn, FlowInv, Latest

LEMMA StepReleasesOwn ==
    ASSUME FlowInv, NEW v \in Workers, WorkerStep(v), activeTurn' # activeTurn,
           activeTurn \in Workers
    PROVE  activeTurn = v /\ worker'[v].pc \in {"turnEnded", "done"}
<1>1. ASSUME NEW reason \in Ends, EndTurn(v, reason), worker[v].pc \in InTurn
      PROVE  activeTurn = v /\ worker'[v].pc \in {"turnEnded", "done"}
  BY <1>1, EndTurnReleasesOwn, TurnFlowAssumption DEF Workers
<1>2. CASE StartTurn(v) \/ EndGoalTurnWithoutModel(v) \/ StandaloneReturns(v) \/ DrivenReturns(v)
  BY <1>2 DEF StartTurn, EndGoalTurnWithoutModel, StandaloneReturns, DrivenReturns
<1>3. CASE PromptHookReturns(v)
  BY <1>1, <1>3 DEF PromptHookReturns, InTurn, Ends
<1>4. CASE BeforeStep(v)
  BY <1>1, <1>4 DEF BeforeStep, InTurn, Ends
<1>5. CASE StepContinues(v)
  BY <1>1, <1>5 DEF StepContinues, InTurn, Ends
<1>6. CASE StepStops(v)
  BY <1>1, <1>6 DEF StepStops, InTurn, Ends
<1>7. CASE StopHookReturns(v)
  BY <1>1, <1>7 DEF StopHookReturns, InTurn, Ends
<1>8. CASE WorkerReturns(v)
  <2>1. worker \in [Workers -> WorkerRecord] /\ goal \in GoalRecord
    BY DEF FlowInv, Typing
  <2>2. worker[v].aborted \in BOOLEAN
    BY <2>1 DEF WorkerRecord
  <2>3. worker'[v].pc = "done"
    BY <1>8, <2>1, <2>2, NotLaunchedTyped DEF WorkerReturns
  <2>. QED
    BY <1>8, <2>3 DEF WorkerReturns
<1>. QED
  BY <1>2, <1>3, <1>4, <1>5, <1>6, <1>7, <1>8 DEF WorkerStep

\* cancel, the end of runOneTurn and turnWorker's `finally`: nothing else clears the
\* active turn, and the last two clear only the worker's own.
THEOREM ActiveTurnIsNeverClobbered == Spec => NeverClobbered
<1>1. ASSUME FlowInv, [Next]_vars, NEW w \in Workers, activeTurn = w, activeTurn' # w
      PROVE  worker'[w].aborted \/ worker'[w].pc \in {"turnEnded", "done"}
  <2>1. w # NoTurn /\ activeTurn' # activeTurn
    BY <1>1, TurnFlowAssumption DEF Workers
  <2>2. CASE Prompt \/ Steer
    BY <1>1, <2>1, <2>2 DEF Prompt, Steer
  <2>3. CASE Cancel
    BY <1>1, <2>3 DEF Cancel, FlowInv, Typing, WorkerRecord
  <2>4. CASE UNCHANGED vars \/ UserGoalUpdate \/ \E v \in Workers : ModelGoalUpdate(v)
    BY <2>1, <2>4 DEF vars, UserGoalUpdate, ModelGoalUpdate
  <2>5. ASSUME NEW v \in Workers, WorkerStep(v)
        PROVE  w = v /\ worker'[v].pc \in {"turnEnded", "done"}
    BY <1>1, <2>1, <2>5, StepReleasesOwn
  <2>. QED
    BY <1>1, <2>2, <2>3, <2>4, <2>5 DEF Next
<1>2. FlowInv /\ [Next]_vars =>
        \A w \in Workers : activeTurn = w /\ activeTurn' # w =>
            worker'[w].aborted \/ worker'[w].pc \in {"turnEnded", "done"}
  BY <1>1
<1>. QED
  BY <1>2, InductiveInvariant, PTL DEF Spec, NeverClobbered

-----------------------------------------------------------------------------
(* No input is dropped or repeated *)

\* How often a sequence holds an input.
Places(seq, i) == Cardinality({n \in DOMAIN seq : seq[n] = i})

Pending(r) == r.pc \in {"startTurn", "budgetEnd"}

HoldsInput(r, w) == Pending(r) /\ r.input = w

\* A worker about to append an input holds its own or none; an input that was accepted is
\* in the context, the buffer or its worker's hands, once, and no other is.
Kept ==
    \A i \in Workers :
        /\ Pending(worker[i]) => worker[i].input \in {0, i}
        /\ context[i] + Places(steerBuffer, i) + (IF HoldsInput(worker[i], i) THEN 1 ELSE 0)
             = IF i <= inputs THEN 1 ELSE 0

LEMMA PlacesOfEmpty == \A i : Places(<< >>, i) = 0
  BY FS_EmptySet DEF Places

LEMMA PlacesTyped ==
    ASSUME NEW S, NEW seq \in Seq(S)
    PROVE  \A i : Places(seq, i) \in Nat
BY PlacesFinite DEF Places

LEMMA PlacesOfOne ==
    ASSUME NEW x, NEW i
    PROVE  Places(<<x>>, i) = IF x = i THEN 1 ELSE 0
<1>1. CASE x = i
  <2>1. {n \in DOMAIN <<x>> : <<x>>[n] = i} = {1}
    BY <1>1
  <2>. QED
    BY <1>1, <2>1, FS_Singleton DEF Places
<1>2. CASE x # i
  <2>1. {n \in DOMAIN <<x>> : <<x>>[n] = i} = {}
    BY <1>2
  <2>. QED
    BY <1>2, <2>1, FS_EmptySet DEF Places
<1>. QED
  BY <1>1, <1>2

LEMMA PlacesOfAppend ==
    ASSUME NEW S, NEW seq \in Seq(S), NEW x \in S, NEW i
    PROVE  Places(Append(seq, x), i) = Places(seq, i) + (IF x = i THEN 1 ELSE 0)
<1> DEFINE old == {n \in DOMAIN seq : seq[n] = i}
           new == {n \in DOMAIN Append(seq, x) : Append(seq, x)[n] = i}
<1>1. IsFiniteSet(old) /\ Cardinality(old) \in Nat
  BY PlacesFinite
<1>2. Len(seq) \in Nat /\ Len(seq) + 1 \notin old
  OBVIOUS
<1>3. CASE x = i
  <2>1. new = old \cup {Len(seq) + 1}
    BY <1>3
  <2>2. Cardinality(new) = Cardinality(old) + 1
    BY <1>1, <1>2, <2>1, FS_AddElement
  <2>. QED
    BY <1>3, <2>2 DEF Places
<1>4. CASE x # i
  <2>1. new = old
    BY <1>4
  <2>2. Places(Append(seq, x), i) = Cardinality(old) /\ Places(seq, i) = Cardinality(old)
    BY <2>1 DEF Places
  <2>. HIDE DEF old
  <2>. QED
    BY <1>1, <1>4, <2>2
<1>. QED
  BY <1>3, <1>4

\* Only the worker named by an input can hold it.
LEMMA Holder ==
    ASSUME Kept, NEW i \in Workers
    PROVE  Cardinality({w \in Workers : /\ worker[w].pc \in {"startTurn", "budgetEnd"}
                                        /\ worker[w].input = i})
             = IF HoldsInput(worker[i], i) THEN 1 ELSE 0
<1> DEFINE holders == {w \in Workers : /\ worker[w].pc \in {"startTurn", "budgetEnd"}
                                       /\ worker[w].input = i}
<1>1. i # 0
  BY TurnFlowAssumption DEF Workers
<1>2. CASE HoldsInput(worker[i], i)
  <2>1. holders = {i}
    BY <1>1, <1>2 DEF Kept, HoldsInput, Pending
  <2>. QED
    BY <1>2, <2>1, FS_Singleton
<1>3. CASE ~HoldsInput(worker[i], i)
  <2>1. holders = {}
    BY <1>1, <1>3 DEF Kept, HoldsInput, Pending
  <2>. QED
    BY <1>3, <2>1, FS_EmptySet
<1>. QED
  BY <1>2, <1>3

LEMMA InitKept == Init => Kept
<1>. SUFFICES ASSUME Init
              PROVE  Kept
  OBVIOUS
<1>1. goal \in GoalRecord
  BY InitFlowInv DEF FlowInv, Typing
<1>2. \A i \in Workers : worker[i].pc = "idle"
  BY <1>1, NotLaunchedTyped DEF Init
<1>3. inputs = 0 /\ steerBuffer = << >> /\ \A i \in Workers : context[i] = 0
  BY DEF Init
<1>4. \A i \in Workers : ~(i <= 0)
  BY TurnFlowAssumption DEF Workers
<1>5. \A i \in Workers : Places(steerBuffer, i) = 0
  BY <1>3, PlacesOfEmpty
<1>6. \A i \in Workers : ~Pending(worker[i]) /\ ~HoldsInput(worker[i], i)
  BY <1>2 DEF HoldsInput, Pending
<1>. QED
  BY <1>3, <1>4, <1>5, <1>6 DEF Kept

\* A worker that holds no input moves on and takes none, while the steers stay in the
\* buffer or move from there to the context.
LEMMA NoInputMoves ==
    ASSUME FlowInv, Kept, NEW w \in Workers, inputs' = inputs,
           \A v \in Workers \ {w} : worker'[v] = worker[v],
           HoldsInput(worker'[w], w) <=> HoldsInput(worker[w], w),
           Pending(worker'[w]) => worker'[w].input \in {0, w},
           UNCHANGED <<context, steerBuffer>> \/ FlushSteerBuffer
    PROVE  Kept'
<1> SUFFICES ASSUME NEW i \in Workers
             PROVE  /\ Pending(worker'[i]) => worker'[i].input \in {0, i}
                    /\ context'[i] + Places(steerBuffer', i)
                         + (IF HoldsInput(worker'[i], i) THEN 1 ELSE 0)
                         = IF i <= inputs' THEN 1 ELSE 0
  BY DEF Kept, Places, HoldsInput, Pending
<1>1. Pending(worker'[i]) => worker'[i].input \in {0, i}
  BY DEF Kept
<1>2. HoldsInput(worker'[i], i) <=> HoldsInput(worker[i], i)
  OBVIOUS
<1>3. context[i] \in Nat /\ Places(steerBuffer, i) \in Nat
  BY PlacesTyped DEF FlowInv, Typing
<1>4. context'[i] + Places(steerBuffer', i) = context[i] + Places(steerBuffer, i)
  <2>1. CASE UNCHANGED <<context, steerBuffer>>
    BY <2>1
  <2>2. CASE FlushSteerBuffer
    <3>1. context'[i] = context[i] + Places(steerBuffer, i) /\ steerBuffer' = << >>
      BY <2>2 DEF FlushSteerBuffer, AppendUserMessage, Places
    <3>. QED
      BY <1>3, <3>1, PlacesOfEmpty
  <2>. QED
    BY <2>1, <2>2
<1>5. context[i] + Places(steerBuffer, i) + (IF HoldsInput(worker[i], i) THEN 1 ELSE 0)
        = IF i <= inputs THEN 1 ELSE 0
  BY DEF Kept
<1>. QED
  BY <1>1, <1>2, <1>3, <1>4, <1>5

\* The outside: an input that is accepted goes to its worker, the context or the buffer.
LEMMA LaunchKeepsInput ==
    ASSUME FlowInv, Kept, inputs < MaxInputs, inputs' = inputs + 1, Launch(inputs + 1),
           steerBuffer' = steerBuffer
    PROVE  Kept'
<1> DEFINE w == inputs + 1
           rec == NewWorker(turnId + 1, w)
<1>1. /\ w \in Workers /\ turnId + 1 \in Int /\ goal \in GoalRecord /\ inputs \in Nat
      /\ context \in [Workers -> Nat]
      /\ worker \in [Workers -> WorkerRecord]
      /\ \A i \in Workers : Places(steerBuffer, i) \in Nat
  BY TurnFlowAssumption, PlacesTyped DEF FlowInv, Typing, Workers
<1>2. rec \in WorkerRecord /\ rec.input = w
  BY <1>1, NewWorkerTyped
<1>3. \/ DriveGoal(w, rec)
      \/ RunOneTurn(w, rec)
  <2>1. NewWorker(turnId', w) = rec
    BY DEF Launch, NewWorker
  <2>. QED
    BY <2>1 DEF Launch
<1>4. ~HoldsInput(worker[w], w)
  BY <1>1 DEF FlowInv, Launched, HoldsInput, Pending
<1>5. w = inputs + 1 /\ inputs' = w
  OBVIOUS
<1>6. w # 0 /\ \A i \in Workers : i # w => (i <= inputs' <=> i <= inputs)
  BY <1>1 DEF Workers
<1>7. context[w] = 0 /\ Places(steerBuffer, w) = 0
  <2>1. context[w] + Places(steerBuffer, w) + 0 = 0 /\ context[w] \in Nat
    BY <1>1, <1>4, <1>5 DEF Kept
  <2>2. Places(steerBuffer, w) \in Nat
    BY <1>1
  <2>. QED
    BY <2>1, <2>2
<1>. HIDE DEF w, rec
<1>8. /\ \A i \in Workers \ {w} : worker'[i] = worker[i]
      /\ Pending(worker'[w]) => worker'[w].input = w
      /\ \A i \in Workers :
            context'[i] = context[i] + (IF i = w /\ ~Pending(worker'[w]) THEN 1 ELSE 0)
  <2>1. CASE DriveGoal(w, rec)
    <3>1. PICK new \in WorkerRecord : /\ worker' = [worker EXCEPT ![w] = new]
                                      /\ new.pc \in {"budgetEnd", "startTurn"}
                                      /\ new.input = rec.input
      BY <1>1, <1>2, <2>1, DriveGoalFacts
    <3>2. context' = context
      BY <1>1, <1>2, <2>1, DriveGoalFacts
    <3>. QED
      BY <1>1, <1>2, <3>1, <3>2 DEF Pending
  <2>2. CASE RunOneTurn(w, rec)
    <3>1. PICK new \in WorkerRecord : /\ worker' = [worker EXCEPT ![w] = new]
                                      /\ new.pc = "promptHook"
      BY <1>1, <1>2, <2>2, RunOneTurnFacts
    <3>2. AppendUserMessage(<<w>>)
      BY <1>2, <2>2 DEF RunOneTurn
    <3>3. \A i \in Workers : context'[i] = context[i] + Places(<<w>>, i)
      BY <3>2 DEF AppendUserMessage, Places
    <3>4. ~Pending(worker'[w]) /\ \A i \in Workers \ {w} : worker'[i] = worker[i]
      BY <1>1, <3>1 DEF Pending
    <3>. QED
      BY <1>1, <3>3, <3>4, PlacesOfOne
  <2>. QED
    BY <1>3, <2>1, <2>2
<1> SUFFICES ASSUME NEW i \in Workers
             PROVE  /\ Pending(worker'[i]) => worker'[i].input \in {0, i}
                    /\ context'[i] + Places(steerBuffer, i)
                         + (IF HoldsInput(worker'[i], i) THEN 1 ELSE 0)
                         = IF i <= inputs' THEN 1 ELSE 0
  BY DEF Kept, Places, HoldsInput, Pending
<1>9. CASE i = w
  <2>1. context'[w] = IF Pending(worker'[w]) THEN 0 ELSE 1
    BY <1>1, <1>7, <1>8
  <2>2. HoldsInput(worker'[w], w) <=> Pending(worker'[w])
    BY <1>8 DEF HoldsInput
  <2>3. w <= inputs'
    BY <1>1, <1>5 DEF Workers
  <2>. QED
    BY <1>7, <1>8, <1>9, <2>1, <2>2, <2>3
<1>10. CASE i # w
  <2>1. worker'[i] = worker[i] /\ context'[i] = context[i]
    BY <1>1, <1>8, <1>10
  <2>2. i <= inputs' <=> i <= inputs
    BY <1>6, <1>10
  <2>. QED
    BY <2>1, <2>2 DEF Kept
<1>. QED
  BY <1>9, <1>10

LEMMA OutsideKeepsInputs ==
    ASSUME FlowInv, Kept, Prompt \/ Steer \/ Cancel \/ UserGoalUpdate
    PROVE  Kept'
<1>1. CASE Prompt
  BY <1>1, LaunchKeepsInput DEF Prompt
<1>2. CASE Steer /\ activeTurn = NoTurn
  BY <1>2, LaunchKeepsInput DEF Steer
<1>3. CASE Steer /\ activeTurn # NoTurn
  <2>1. /\ inputs' = inputs + 1 /\ steerBuffer' = Append(steerBuffer, inputs + 1)
        /\ UNCHANGED <<worker, context>> /\ inputs < MaxInputs
    BY <1>3 DEF Steer
  <2>2. inputs \in Nat /\ steerBuffer \in Seq(1..(inputs + 1)) /\ inputs + 1 \in 1..(inputs + 1)
    BY BufferGrows DEF FlowInv, Typing
  <2> SUFFICES ASSUME NEW i \in Workers
               PROVE  /\ Pending(worker[i]) => worker[i].input \in {0, i}
                      /\ context[i] + Places(steerBuffer', i)
                           + (IF HoldsInput(worker[i], i) THEN 1 ELSE 0)
                           = IF i <= inputs' THEN 1 ELSE 0
    BY <2>1 DEF Kept, Places, HoldsInput, Pending
  <2>3. Places(steerBuffer', i) = Places(steerBuffer, i) + (IF inputs + 1 = i THEN 1 ELSE 0)
    BY <2>1, <2>2, PlacesOfAppend
  <2>4. context[i] \in Nat /\ Places(steerBuffer, i) \in Nat /\ i \in Int
    BY PlacesTyped DEF FlowInv, Typing, Workers
  <2>5. context[i] + Places(steerBuffer, i) + (IF HoldsInput(worker[i], i) THEN 1 ELSE 0)
          = IF i <= inputs THEN 1 ELSE 0
    BY DEF Kept
  <2>6. (i <= inputs' <=> i <= inputs \/ i = inputs + 1) /\ ~(inputs + 1 <= inputs)
    BY <2>1, <2>2, <2>4
  <2>7. Pending(worker[i]) => worker[i].input \in {0, i}
    BY DEF Kept
  <2>8. CASE i = inputs + 1
    BY <2>3, <2>4, <2>5, <2>6, <2>7, <2>8
  <2>9. CASE i # inputs + 1
    <3>1. Places(steerBuffer', i) = Places(steerBuffer, i)
      BY <2>3, <2>4, <2>9
    <3>. QED
      BY <2>5, <2>6, <2>7, <2>9, <3>1
  <2>. QED
    BY <2>8, <2>9
<1>4. CASE Cancel
  <2>1. activeTurn \in Workers /\ worker \in [Workers -> WorkerRecord]
    BY <1>4 DEF Cancel, FlowInv, Typing
  <2>2. /\ worker'[activeTurn].pc = worker[activeTurn].pc
        /\ worker'[activeTurn].input = worker[activeTurn].input
        /\ \A v \in Workers \ {activeTurn} : worker'[v] = worker[v]
        /\ UNCHANGED <<context, steerBuffer, inputs>>
    BY <1>4, <2>1 DEF Cancel, WorkerRecord
  <2>. QED
    BY <2>1, <2>2, NoInputMoves DEF HoldsInput, Pending, Kept
<1>5. CASE UserGoalUpdate
  BY <1>5 DEF UserGoalUpdate, Kept, HoldsInput, Pending, Places
<1>. QED
  BY <1>1, <1>2, <1>3, <1>4, <1>5

\* The input a worker holds is appended as its turn begins.
LEMMA HeldInputIsAppended ==
    ASSUME FlowInv, Kept, NEW w \in Workers, StartTurn(w) \/ EndGoalTurnWithoutModel(w)
    PROVE  Kept'
<1>1. /\ Pending(worker[w]) /\ AppendUserMessage(<<worker[w].input>>)
      /\ UNCHANGED <<steerBuffer, inputs>>
  BY DEF StartTurn, RunOneTurn, EndGoalTurnWithoutModel, Pending
<1>2. worker \in [Workers -> WorkerRecord] /\ context \in [Workers -> Nat]
  BY DEF FlowInv, Typing
<1>3. /\ ~Pending(worker'[w])
      /\ \A v \in Workers \ {w} : worker'[v] = worker[v]
  <2>1. worker[w] \in WorkerRecord
    BY <1>2
  <2>2. CASE StartTurn(w)
    <3> DEFINE new == [worker[w] EXCEPT !.pc = "promptHook", !.end = "none",
                                        !.stopHookUsed = FALSE]
    <3>1. worker' = [worker EXCEPT ![w] = new]
      BY <2>2 DEF StartTurn, RunOneTurn
    <3>2. new.pc = "promptHook"
      BY <2>1 DEF WorkerRecord
    <3>. HIDE DEF new
    <3>. QED
      BY <1>2, <3>1, <3>2 DEF Pending
  <2>3. CASE EndGoalTurnWithoutModel(w)
    <3> DEFINE new == [worker[w] EXCEPT !.pc = "returning", !.end = "completed"]
    <3>1. worker' = [worker EXCEPT ![w] = new]
      BY <1>2, <2>3 DEF EndGoalTurnWithoutModel
    <3>2. new.pc = "returning"
      BY <2>1 DEF WorkerRecord
    <3>. HIDE DEF new
    <3>. QED
      BY <1>2, <3>1, <3>2 DEF Pending
  <2>. QED
    BY <2>2, <2>3
<1>4. worker[w].input \in {0, w} /\ 0 \notin Workers
  BY <1>1, TurnFlowAssumption DEF Kept, Workers
<1>5. \A i \in Workers :
        context'[i] = context[i] + (IF i = w /\ HoldsInput(worker[w], w) THEN 1 ELSE 0)
  <2>1. \A i \in Workers : context'[i] = context[i] + Places(<<worker[w].input>>, i)
    BY <1>1 DEF AppendUserMessage, Places
  <2>2. \A i \in Workers : worker[w].input = i <=> i = w /\ HoldsInput(worker[w], w)
    BY <1>1, <1>4 DEF HoldsInput
  <2>. QED
    BY <2>1, <2>2, PlacesOfOne
<1> SUFFICES ASSUME NEW i \in Workers
             PROVE  /\ Pending(worker'[i]) => worker'[i].input \in {0, i}
                    /\ context'[i] + Places(steerBuffer, i)
                         + (IF HoldsInput(worker'[i], i) THEN 1 ELSE 0)
                         = IF i <= inputs THEN 1 ELSE 0
  BY <1>1 DEF Kept, Places, HoldsInput, Pending
<1>6. /\ context[i] \in Nat /\ Places(steerBuffer, i) \in Nat
      /\ context[i] + Places(steerBuffer, i) + (IF HoldsInput(worker[i], i) THEN 1 ELSE 0)
           = IF i <= inputs THEN 1 ELSE 0
  BY PlacesTyped DEF FlowInv, Typing, Kept
<1>7. CASE i = w
  BY <1>3, <1>5, <1>6, <1>7 DEF HoldsInput
<1>8. CASE i # w
  BY <1>3, <1>5, <1>6, <1>8 DEF Kept
<1>. QED
  BY <1>7, <1>8

\* Every other step of a worker takes no input; a flush moves the steers on.
LEMMA StepKeepsInputs ==
    ASSUME FlowInv, Kept, NEW w \in Workers, WorkerStep(w)
    PROVE  Kept'
<1>1. worker \in [Workers -> WorkerRecord] /\ 0 \notin Workers
  BY TurnFlowAssumption DEF FlowInv, Typing, Workers
<1>2. ASSUME ~Pending(worker[w]), NEW new, worker' = [worker EXCEPT ![w] = new],
             Pending(new) => new.input = 0, inputs' = inputs,
             UNCHANGED <<context, steerBuffer>> \/ FlushSteerBuffer
      PROVE  Kept'
  <2>1. worker'[w] = new /\ \A v \in Workers \ {w} : worker'[v] = worker[v]
    BY <1>1, <1>2
  <2>2. ~HoldsInput(worker[w], w) /\ ~HoldsInput(worker'[w], w)
    BY <1>1, <1>2, <2>1 DEF HoldsInput
  <2>. QED
    BY <1>2, <2>1, <2>2, NoInputMoves
<1>3. ASSUME worker[w].pc \in InTurn \cup {"turnEnded"},
             NEW pc \in InTurn \cup {"turnEnded", "returning"}, Goto(w, pc), inputs' = inputs,
             UNCHANGED <<context, steerBuffer>> \/ FlushSteerBuffer
      PROVE  Kept'
  <2> DEFINE new == [worker[w] EXCEPT !.pc = pc]
  <2>1. ~Pending(worker[w]) /\ new.pc = pc /\ ~Pending(new)
    BY <1>1, <1>3 DEF Pending, InTurn, WorkerRecord
  <2>2. worker' = [worker EXCEPT ![w] = new]
    BY <1>3 DEF Goto
  <2>. HIDE DEF new
  <2>. QED
    BY <1>2, <1>3, <2>1, <2>2
<1>4. ASSUME worker[w].pc \in InTurn, NEW reason, EndTurn(w, reason),
             inputs' = inputs, context' = context
      PROVE  Kept'
  <2> DEFINE new == [worker[w] EXCEPT !.pc = "turnEnded", !.end = reason]
  <2>1. ~Pending(worker[w]) /\ ~Pending(new)
    BY <1>1, <1>4 DEF Pending, InTurn, WorkerRecord
  <2>2. worker' = [worker EXCEPT ![w] = new] /\ steerBuffer' = steerBuffer
    BY <1>4 DEF EndTurn
  <2>. HIDE DEF new
  <2>. QED
    BY <1>2, <1>4, <2>1, <2>2
<1>5. ASSUME worker[w].pc = "turnEnded", ContinueGoal(w), UNCHANGED <<steerBuffer, inputs>>
      PROVE  Kept'
  <2> DEFINE rec == [worker[w] EXCEPT !.turn = turnId', !.input = 0]
  <2>1. rec \in WorkerRecord /\ rec.input = 0
    <3>1. worker[w] \in WorkerRecord /\ turnId' \in Int /\ 0 \in Workers \cup {0}
      BY <1>1, <1>5 DEF ContinueGoal, AllocateTurnId, FlowInv, Typing
    <3>. QED
      BY <3>1 DEF WorkerRecord
  <2>2. DriveGoal(w, rec)
    BY <1>5 DEF ContinueGoal
  <2>. HIDE DEF rec
  <2>3. PICK new \in WorkerRecord : /\ worker' = [worker EXCEPT ![w] = new]
                                    /\ new.input = rec.input
    BY <2>1, <2>2, DriveGoalFacts DEF FlowInv, Typing
  <2>4. context' = context
    BY <2>2 DEF DriveGoal
  <2>. QED
    BY <1>2, <1>5, <2>1, <2>3, <2>4 DEF Pending
<1>6. CASE StartTurn(w) \/ EndGoalTurnWithoutModel(w)
  BY <1>6, HeldInputIsAppended
<1>7. CASE PromptHookReturns(w)
  BY <1>3, <1>4, <1>7 DEF PromptHookReturns, InTurn
<1>8. CASE BeforeStep(w)
  BY <1>3, <1>4, <1>8 DEF BeforeStep, InTurn
<1>9. CASE StepContinues(w)
  BY <1>3, <1>4, <1>9 DEF StepContinues, InTurn
<1>10. CASE StepStops(w)
  BY <1>3, <1>4, <1>10 DEF StepStops, InTurn
<1>11. CASE StopHookReturns(w)
  <2> DEFINE new == [worker[w] EXCEPT !.pc = "beforeStep", !.stopHookUsed = TRUE]
  <2>1. worker[w].pc = "stopHook" /\ inputs' = inputs
    BY <1>11 DEF StopHookReturns
  <2>2. ~Pending(worker[w]) /\ ~Pending(new)
    BY <1>1, <2>1 DEF Pending, WorkerRecord
  <2>3. \/ (EndTurn(w, "cancelled") \/ EndTurn(w, "completed")) /\ context' = context
        \/ worker' = [worker EXCEPT ![w] = new] /\ UNCHANGED <<context, steerBuffer>>
    BY <1>11 DEF StopHookReturns
  <2>. HIDE DEF new
  <2>. QED
    BY <1>2, <1>4, <2>1, <2>2, <2>3 DEF InTurn
<1>12. CASE StandaloneReturns(w)
  BY <1>3, <1>5, <1>12 DEF StandaloneReturns
<1>13. CASE DrivenReturns(w)
  BY <1>3, <1>5, <1>13 DEF DrivenReturns
<1>14. CASE WorkerReturns(w)
  <2> DEFINE new == [NotLaunched EXCEPT !.pc = "done", !.aborted = worker[w].aborted]
  <2>1. worker[w].aborted \in BOOLEAN /\ goal \in GoalRecord
    BY <1>1 DEF WorkerRecord, FlowInv, Typing
  <2>2. new.pc = "done"
    BY <2>1, NotLaunchedTyped
  <2>3. /\ worker[w].pc = "returning" /\ worker' = [worker EXCEPT ![w] = new]
        /\ UNCHANGED <<context, steerBuffer, inputs>>
    BY <1>14 DEF WorkerReturns
  <2>. HIDE DEF new
  <2>. QED
    BY <1>2, <2>2, <2>3 DEF Pending
<1>. QED
  BY <1>6, <1>7, <1>8, <1>9, <1>10, <1>11, <1>12, <1>13, <1>14 DEF WorkerStep

\* steer, the flushes and the head of runOneTurn: an accepted input is appended to the
\* context, waits in the buffer or is held by the worker about to append it, in one of
\* them and once; no end, cancel or flush drops or repeats one.
THEOREM InputsAreKeptOnce == Spec => []InputsKeptOnce
<1>1. FlowInv /\ Kept /\ [Next]_vars => Kept'
  <2>. SUFFICES ASSUME FlowInv, Kept, [Next]_vars
                PROVE  Kept'
    OBVIOUS
  <2>1. ASSUME NEW w \in Workers, WorkerStep(w)
        PROVE  Kept'
    BY <2>1, StepKeepsInputs
  <2>2. CASE UNCHANGED vars \/ \E w \in Workers : ModelGoalUpdate(w)
    BY <2>2 DEF vars, ModelGoalUpdate, Kept, HoldsInput, Pending, Places
  <2>. QED
    BY <2>1, <2>2, OutsideKeepsInputs DEF Next
<1>2. FlowInv /\ Kept => InputsKeptOnce
  <2>. SUFFICES ASSUME FlowInv, Kept, NEW i \in 1..inputs
                PROVE  context[i] + Places(steerBuffer, i)
                         + Cardinality({w \in Workers :
                                          /\ worker[w].pc \in {"startTurn", "budgetEnd"}
                                          /\ worker[w].input = i}) = 1
    BY DEF InputsKeptOnce, Places
  <2>1. i \in Workers /\ i <= inputs
    BY TurnFlowAssumption DEF FlowInv, Typing, Workers
  <2>. QED
    BY <2>1, Holder DEF Kept
<1>. QED
  BY <1>1, <1>2, InitKept, InductiveInvariant, PTL DEF Spec
=============================================================================
