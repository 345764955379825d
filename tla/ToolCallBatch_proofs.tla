------------------------ MODULE ToolCallBatch_proofs ------------------------
(***************************************************************************)
(* The tool calls of a step, from the declarations up to the batch.        *)
(*                                                                         *)
(* For paths of every length over every set of segments: the conflict test *)
(* of ToolAccess is symmetric and exact.  For every set of declarations    *)
(* and every number of calls: the scheduler keeps conflicting calls apart, *)
(* lets none overtake another, strands none and implements ProviderOrder.  *)
(*                                                                         *)
(* For every response and every moment of an abort: the executions of one  *)
(* batch never conflict, none starts after the abort, a batch that returns *)
(* leaves every call with its result and nothing behind, and a repeated    *)
(* call shows the result of its original.  The argument rests on the one   *)
(* about the scheduler: every step of the batch is a step of the scheduler *)
(* or leaves its state alone.                                              *)
(***************************************************************************)
EXTENDS ToolCallBatch, TLAPS

-----------------------------------------------------------------------------
(* The conflict test *)

\* Every file the normalized paths of the model can name.
AllFiles == {NormalizePath(p) : p \in Path}

\* The two kinds of access, and the fields the conflict test reads.
LEMMA AccessShape ==
    ASSUME NEW a \in ResourceAccess
    PROVE  /\ a.path \in Path
           /\ a.recursive \in BOOLEAN
           /\ a.kind = "all" => a = AllAccess
<1>1. CASE a \in FileAccess
  <2>1. a.kind = "file"
    BY <1>1 DEF FileAccess
  <2>2. a.path \in Path /\ a.recursive \in BOOLEAN
    BY <1>1 DEF FileAccess
  <2>. QED
    BY <2>1, <2>2
<1>2. CASE a = AllAccess
  BY <1>2 DEF AllAccess, Path
<1>. QED
  BY <1>1, <1>2 DEF ResourceAccess

\* Normalizing keeps a path a path (normalizePath).
LEMMA NormalizeType ==
    ASSUME NEW p \in Path
    PROVE  NormalizePath(p) \in Path
BY FoldAssumption DEF NormalizePath, Path

\* Two ancestors of one file are the same path or one is above the other.
LEMMA AncestorsComparable ==
    ASSUME NEW x \in Path, NEW y \in Path, NEW f \in Path,
           ProperPrefix(x, f), ProperPrefix(y, f)
    PROVE  x = y \/ ProperPrefix(x, y) \/ ProperPrefix(y, x)
<1>1. CASE Len(x) < Len(y)
  BY <1>1 DEF ProperPrefix, Path
<1>2. CASE Len(y) < Len(x)
  BY <1>2 DEF ProperPrefix, Path
<1>3. CASE Len(x) = Len(y)
  <2>1. \A i \in 1..Len(x) : x[i] = y[i]
    BY <1>3 DEF ProperPrefix, Path
  <2>. QED
    BY <1>3, <2>1 DEF Path
<1>. QED
  BY <1>1, <1>2, <1>3 DEF Path

\* It does not matter which of two calls the scheduler passes first
\* (conflictsWithAny passes the newer one).
THEOREM ConflictSymmetric ==
    ASSUME NEW left, NEW right
    PROVE  Conflict(left, right) <=> Conflict(right, left)
BY DEF Conflict, ResourceAccessesConflict, FileOperationsConflict,
       FileAccessesOverlap

\* One pair of accesses conflicts exactly when both touch some file and one of
\* them writes (resourceAccessesConflict).
LEMMA AccessConflictExact ==
    ASSUME NEW l \in ResourceAccess, NEW r \in ResourceAccess
    PROVE  ResourceAccessesConflict(l, r) <=>
             \E f \in AllFiles :
                /\ Touches(l, f) /\ Touches(r, f)
                /\ FileOperationWrites(l.operation) \/ FileOperationWrites(r.operation)
<1> DEFINE lp == NormalizePath(l.path)
           rp == NormalizePath(r.path)
<1>1. lp \in AllFiles /\ rp \in AllFiles /\ AllFiles \subseteq Path
  BY AccessShape, NormalizeType DEF AllFiles
<1>2. Touches(l, lp) /\ Touches(r, rp)
  BY DEF Touches
<1>3. CASE l.kind = "all"
  BY <1>1, <1>2, <1>3, AccessShape
     DEF ResourceAccessesConflict, Touches, FileOperationWrites, AllAccess
<1>4. CASE r.kind = "all"
  BY <1>1, <1>2, <1>4, AccessShape
     DEF ResourceAccessesConflict, Touches, FileOperationWrites, AllAccess
<1>5. CASE l.kind # "all" /\ r.kind # "all"
  <2>1. ASSUME FileAccessesOverlap(l, r)
        PROVE  \E f \in AllFiles : Touches(l, f) /\ Touches(r, f)
    BY <1>1, <1>2, <2>1 DEF FileAccessesOverlap, Touches
  <2>2. ASSUME NEW f \in AllFiles, Touches(l, f), Touches(r, f)
        PROVE  FileAccessesOverlap(l, r)
    <3>1. \/ lp = rp
          \/ l.recursive /\ ProperPrefix(lp, rp)
          \/ r.recursive /\ ProperPrefix(rp, lp)
          \/ /\ l.recursive /\ ProperPrefix(lp, f)
             /\ r.recursive /\ ProperPrefix(rp, f)
      BY <1>5, <2>2 DEF Touches
    <3>2. ASSUME ProperPrefix(lp, f), ProperPrefix(rp, f)
          PROVE  lp = rp \/ ProperPrefix(lp, rp) \/ ProperPrefix(rp, lp)
      BY <1>1, <3>2, AncestorsComparable
    <3>. QED
      BY <3>1, <3>2 DEF FileAccessesOverlap
  <2>. QED
    BY <1>5, <2>1, <2>2 DEF ResourceAccessesConflict, FileOperationsConflict
<1>. QED
  BY <1>3, <1>4, <1>5

\* Two declarations conflict exactly when one call may change a file that the
\* other may touch: nothing is missed and nothing is serialised for nothing
\* (ToolAccesses.conflict).
THEOREM ConflictExact ==
    ASSUME NEW left \in ToolAccesses, NEW right \in ToolAccesses
    PROVE  Conflict(left, right) <=> Interfere(left, right, AllFiles)
<1>1. Interfere(left, right, AllFiles) <=>
        \E l \in left, r \in right : \E f \in AllFiles :
            /\ Touches(l, f) /\ Touches(r, f)
            /\ FileOperationWrites(l.operation) \/ FileOperationWrites(r.operation)
  BY DEF Interfere, Changes, Reach
<1>2. \A l \in left, r \in right : l \in ResourceAccess /\ r \in ResourceAccess
  BY DEF ToolAccesses
<1>. QED
  BY <1>1, <1>2, AccessConflictExact DEF Conflict

-----------------------------------------------------------------------------
(* The scheduler *)

\* Conflicting tasks are kept apart because none overtakes an earlier one, and
\* a started task's predecessors stay out of the way because a queued task
\* blocks later ones as an active task does.  The parts need one another:
\* NoOvertaking is not preserved by Finish without OncePerTask.
IInv ==
    /\ TypeOK
    /\ OncePerTask
    /\ NoOvertaking
    /\ NoStrandedTask

LEMMA TasksAreIndices ==
    ASSUME TypeOK
    PROVE  /\ Len(accesses) \in Nat
           /\ Tasks = 1..Len(accesses)
           /\ \A t \in Tasks : t \in Nat /\ accesses[t] \in Access
BY DEF TypeOK, Tasks

\* Adding a task leaves the declarations and results of the others alone.
LEMMA AddShape ==
    ASSUME TypeOK, NEW acc \in Access, Add(acc)
    PROVE  LET n == Len(accesses) + 1 IN
           /\ n \notin Tasks
           /\ Tasks' = Tasks \cup {n}
           /\ accesses'[n] = acc
           /\ \A t \in Tasks : accesses'[t] = accesses[t] /\ t < n
           /\ result' \in [Tasks' -> {"pending"} \cup Settlements]
           /\ result'[n] = "pending"
           /\ \A t \in Tasks : result'[t] = result[t]
<1> DEFINE n == Len(accesses) + 1
           V == {"pending"} \cup Settlements
<1>1. /\ accesses \in Seq(Access) /\ Tasks = 1..Len(accesses) /\ Len(accesses) \in Nat
      /\ result \in Seq(V) /\ Len(result) = Len(accesses)
  BY DEF TypeOK, Tasks
<1>2. accesses' = Append(accesses, acc) /\ result' = Append(result, "pending")
  BY DEF Add
<1>3. accesses' \in Seq(Access) /\ Len(accesses') = n /\ accesses'[n] = acc
  BY <1>1, <1>2
<1>4. Tasks' = 1..n
  BY <1>3 DEF Tasks
<1>5. \A t \in Tasks : accesses'[t] = accesses[t] /\ t < n
  BY <1>1, <1>2
<1>6. result' \in Seq(V) /\ Len(result') = n /\ result'[n] = "pending"
  BY <1>1, <1>2
<1>7. \A t \in Tasks : result'[t] = result[t]
  BY <1>1, <1>2
<1>8. result' \in [Tasks' -> V]
  BY <1>4, <1>6
<1>9. n \notin Tasks /\ Tasks' = Tasks \cup {n}
  BY <1>1, <1>4
<1>. QED
  BY <1>3, <1>5, <1>6, <1>7, <1>8, <1>9

LEMMA InitIInv == Init => IInv
BY SchedulerAssumption
   DEF Init, IInv, TypeOK, OncePerTask, NoOvertaking, NoStrandedTask, Tasks

LEMMA AddIInv ==
    ASSUME IInv, NEW acc \in Access, Add(acc)
    PROVE  IInv'
<1> DEFINE n == Len(accesses) + 1
<1>. USE DEF IInv
<1>1. /\ n \notin Tasks /\ Tasks' = Tasks \cup {n}
      /\ accesses'[n] = acc
      /\ \A t \in Tasks : accesses'[t] = accesses[t] /\ t < n
      /\ result' \in [Tasks' -> {"pending"} \cup Settlements]
      /\ result'[n] = "pending"
      /\ \A t \in Tasks : result'[t] = result[t]
  BY AddShape
<1>2. /\ activeTasks \subseteq Tasks /\ queuedTasks \subseteq Tasks
      /\ \A t \in Tasks : t \in Nat
      /\ n \in Nat
  BY TasksAreIndices DEF TypeOK
<1>3. \/ /\ IsBlocked(acc, activeTasks, queuedTasks)
         /\ queuedTasks' = queuedTasks \cup {n} /\ activeTasks' = activeTasks
      \/ /\ ~IsBlocked(acc, activeTasks, queuedTasks)
         /\ activeTasks' = activeTasks \cup {n} /\ queuedTasks' = queuedTasks
  BY DEF Add
<1>4. TypeOK'
  <2>1. accesses' \in Seq(Access) /\ Len(accesses') <= MaxTasks
    BY SchedulerAssumption DEF TypeOK, Add
  <2>. QED
    BY <1>1, <1>2, <1>3, <2>1 DEF TypeOK
<1>5. OncePerTask'
  BY <1>1, <1>2, <1>3 DEF OncePerTask
<1>6. NoOvertaking'
  BY <1>1, <1>2, <1>3 DEF NoOvertaking, IsBlocked, ConflictsWithAny
<1>7. NoStrandedTask'
  BY <1>1, <1>2, <1>3 DEF NoStrandedTask, IsBlocked, ConflictsWithAny
<1>. QED
  BY <1>4, <1>5, <1>6, <1>7

LEMMA SettleIInv ==
    ASSUME IInv, NEW t \in Tasks, Settle(t)
    PROVE  IInv'
<1>. USE DEF IInv
<1>1. PICK o \in Settlements : result' = [result EXCEPT ![t] = o]
  BY DEF Settle
<1>2. TypeOK'
  BY <1>1 DEF Settle, TypeOK, Tasks
<1>3. OncePerTask'
  BY <1>1 DEF Settle, TypeOK, OncePerTask, Tasks
<1>4. NoOvertaking' /\ NoStrandedTask'
  BY DEF Settle, NoOvertaking, NoStrandedTask
<1>. QED
  BY <1>2, <1>3, <1>4

LEMMA FinishIInv ==
    ASSUME IInv, NEW t \in Tasks, Finish(t)
    PROVE  IInv'
<1>. USE DEF IInv
<1> DEFINE active == activeTasks \ {t}
           still  == StillQueued(active)
<1>1. /\ t \in activeTasks /\ result[t] # "pending"
      /\ activeTasks' = active \cup (queuedTasks \ still)
      /\ queuedTasks' = still
      /\ accesses' = accesses /\ result' = result /\ Tasks' = Tasks
  BY DEF Finish, Tasks
<1>2. still \subseteq queuedTasks
  BY DEF StillQueued
<1>3. /\ \A u \in Tasks : u \in Nat
      /\ activeTasks \subseteq Tasks /\ queuedTasks \subseteq Tasks
  BY TasksAreIndices DEF TypeOK
<1>4. TypeOK'
  BY <1>1, <1>2 DEF TypeOK
<1>5. OncePerTask'
  BY <1>1, <1>2 DEF OncePerTask
<1>6. \A u \in queuedTasks :
        u \in still <=> \E v \in active \cup queuedTasks :
                            /\ Conflict(accesses[u], accesses[v])
                            /\ v \in active \/ v < u
  BY <1>1 DEF StillQueued, IsBlocked, ConflictsWithAny
<1>7. NoOvertaking'
  <2>. SUFFICES ASSUME NEW a \in activeTasks', NEW b \in activeTasks' \cup queuedTasks',
                       b < a, Conflict(accesses[a], accesses[b])
                PROVE  FALSE
    BY <1>1 DEF NoOvertaking
  <2>1. b \in active \cup queuedTasks /\ b \in activeTasks \cup queuedTasks
    BY <1>1, <1>2
  <2>2. CASE a \in active
    BY <2>1, <2>2 DEF NoOvertaking
  <2>3. CASE a \in queuedTasks \ still
    BY <1>6, <2>1, <2>3
  <2>. QED
    BY <1>1, <2>2, <2>3
<1>8. NoStrandedTask'
  <2>. SUFFICES ASSUME NEW a \in still
                PROVE  \E b \in activeTasks' \cup queuedTasks' :
                          b < a /\ Conflict(accesses[a], accesses[b])
    BY <1>1 DEF NoStrandedTask
  <2>1. PICK b \in active \cup queuedTasks :
            Conflict(accesses[a], accesses[b]) /\ (b \in active \/ b < a)
    BY <1>2, <1>6
  <2>2. b \in activeTasks' \cup queuedTasks'
    BY <1>1, <2>1
  <2>3. b < a
    \* An active task that conflicts with a queued one was added before it: the
    \* queued one would else have been overtaken.
    <3>1. CASE b \in active /\ ~(b < a)
      <4>1. a # b /\ a \in Nat /\ b \in Nat
        BY <1>2, <1>3, <3>1 DEF OncePerTask
      <4>2. a < b /\ Conflict(accesses[b], accesses[a])
        BY <2>1, <3>1, <4>1, ConflictSymmetric
      <4>. QED
        BY <1>2, <3>1, <4>2 DEF NoOvertaking
    <3>. QED
      BY <2>1, <3>1
  <2>. QED
    BY <2>1, <2>2, <2>3
<1>. QED
  BY <1>4, <1>5, <1>7, <1>8

LEMMA NextIInv == IInv /\ [Next]_vars => IInv'
<1>. SUFFICES ASSUME IInv, [Next]_vars
              PROVE  IInv'
  OBVIOUS
<1>1. ASSUME NEW acc \in Access, Add(acc)
      PROVE  IInv'
  BY <1>1, AddIInv
<1>2. ASSUME NEW t \in Tasks, Settle(t)
      PROVE  IInv'
  BY <1>2, SettleIInv
<1>3. ASSUME NEW t \in Tasks, Finish(t)
      PROVE  IInv'
  BY <1>3, FinishIInv
<1>4. CASE UNCHANGED vars
  BY <1>4 DEF IInv, TypeOK, OncePerTask, NoOvertaking, NoStrandedTask, Tasks, vars
<1>. QED
  BY <1>1, <1>2, <1>3, <1>4 DEF Next

THEOREM InductiveInvariant == Behavior => []IInv
BY InitIInv, NextIInv, PTL DEF Behavior

\* The closed form of the scan is what the loop of startQueuedTasks computes: a
\* task stays queued exactly when it conflicts with a task that is active when
\* the loop reaches it, the earlier ones it has started included, or with an
\* earlier one it has left in the queue.
THEOREM ScanIsTheLoop ==
    ASSUME NEW active, NEW t \in queuedTasks
    PROVE  LET still   == StillQueued(active)
               started == {u \in queuedTasks \ still : u < t}
           IN  t \in still <=>
                   IsBlocked(accesses[t], active \cup started, {u \in still : u < t})
BY DEF StillQueued, IsBlocked, ConflictsWithAny

\* Every state is well typed.
THEOREM TypeCorrect == Behavior => []TypeOK
<1>1. IInv => TypeOK
  BY DEF IInv
<1>. QED
  BY <1>1, InductiveInvariant, PTL

\* A running call never has an earlier conflicting call still to come.
THEOREM OvertakingExcluded == Behavior => []NoOvertaking
<1>1. IInv => NoOvertaking
  BY DEF IInv
<1>. QED
  BY <1>1, InductiveInvariant, PTL

\* Two active calls are in some order, and the later one has not overtaken.
LEMMA ActiveApart == IInv => NoConflictingActive
<1>. SUFFICES ASSUME IInv, NEW t \in activeTasks, NEW u \in activeTasks, t # u
              PROVE  ~Conflict(accesses[t], accesses[u])
  BY DEF NoConflictingActive
<1>1. t \in Nat /\ u \in Nat
  BY TasksAreIndices DEF IInv, TypeOK
<1>2. t < u \/ u < t
  BY <1>1
<1>. QED
  BY <1>2, ConflictSymmetric DEF IInv, NoOvertaking

\* No two calls that conflict run at the same time.
THEOREM ConflictsExcluded == Behavior => []NoConflictingActive
BY ActiveApart, InductiveInvariant, PTL

\* Whatever waits, waits for an earlier conflicting call.
THEOREM NothingStranded == Behavior => []NoStrandedTask
<1>1. IInv => NoStrandedTask
  BY DEF IInv
<1>. QED
  BY <1>1, InductiveInvariant, PTL

\* The scheduler implements the abstract provider order: every state maps to
\* one of ProviderOrder by forgetting the queue, every add to a Submit, every
\* finish to a Complete that starts what the scan started.
THEOREM RefinesProviderOrder == Behavior => ImplementsProviderOrder
<1>1. Init => Order!Init
  BY DEF Init, Order!Init, phase, Tasks
<1>2. IInv /\ IInv' /\ [Next]_vars => [Order!Next]_(Order!vars)
  <2>. SUFFICES ASSUME IInv, IInv', [Next]_vars
                PROVE  [Order!Next]_(Order!vars)
    OBVIOUS
  <2>. USE DEF IInv
  <2>1. phase \in Seq(Order!Phases) /\ Len(phase) = Len(accesses) /\ DOMAIN phase = Tasks
    BY TasksAreIndices DEF phase, Order!Phases
  <2>2. ASSUME NEW acc \in Access, Add(acc)
        PROVE  Order!Submit(acc)
    <3> DEFINE n == Len(accesses) + 1
               start == phase'[n]
    <3>1. /\ n \notin Tasks /\ Tasks' = Tasks \cup {n} /\ Tasks = 1..Len(accesses)
          /\ activeTasks \subseteq Tasks /\ queuedTasks \subseteq Tasks
      BY <2>2, AddShape, TasksAreIndices DEF TypeOK
    <3>2. n \in activeTasks' \cup queuedTasks'
      BY <2>2 DEF Add
    <3>3. start \in {"waiting", "running"} /\ (start = "running" => n \in activeTasks')
      BY <3>1, <3>2 DEF phase
    <3>4. \A t \in Tasks : phase'[t] = phase[t]
      BY <2>2, <3>1 DEF phase, Add
    <3>5. phase' = [t \in 1..n |-> phase'[t]]
      BY <3>1 DEF phase
    <3>6. phase' = Append(phase, start)
      BY <2>1, <3>1, <3>4, <3>5
    <3>7. ASSUME start = "running"
          PROVE  Order!ClearToRun(n, accesses', phase')
      BY <3>1, <3>3, <3>7 DEF Order!ClearToRun, NoOvertaking, phase
    <3>. QED
      BY <2>2, <3>3, <3>6, <3>7 DEF Order!Submit, Add
  <2>3. ASSUME NEW t \in Tasks, Finish(t)
        PROVE  Order!Complete(t)
    <3> DEFINE S == queuedTasks \ queuedTasks'
    <3>1. /\ t \in activeTasks /\ accesses' = accesses /\ Tasks' = Tasks
          /\ queuedTasks' \subseteq queuedTasks
          /\ activeTasks' = (activeTasks \ {t}) \cup S
      BY <2>3 DEF Finish, StillQueued, Tasks
    <3>2. /\ activeTasks \cap queuedTasks = {}
          /\ queuedTasks \subseteq Tasks /\ activeTasks \subseteq Tasks
      BY DEF OncePerTask, TypeOK
    <3>3. phase[t] = "running"
      BY <3>1 DEF phase
    <3>4. S \in SUBSET {u \in DOMAIN phase : phase[u] = "waiting"}
      BY <2>1, <3>2 DEF phase
    <3>5. phase' = [u \in DOMAIN phase |->
                      IF u = t THEN "over"
                      ELSE IF u \in S THEN "running" ELSE phase[u]]
      BY <2>1, <3>1, <3>2 DEF phase
    <3>6. \A u \in S : Order!ClearToRun(u, accesses, phase')
      <4>. SUFFICES ASSUME NEW u \in S, NEW v \in 1..(u - 1),
                           Conflict(accesses[u], accesses[v])
                    PROVE  phase'[v] = "over"
        BY DEF Order!ClearToRun
      <4>1. u \in Tasks /\ v \in Tasks /\ v < u
        BY <3>2, TasksAreIndices
      <4>2. v \notin activeTasks' \cup queuedTasks'
        BY <3>1, <4>1 DEF NoOvertaking
      <4>. QED
        BY <3>1, <4>1, <4>2 DEF phase
    <3>. QED
      BY <3>1, <3>3, <3>4, <3>5, <3>6 DEF Order!Complete
  <2>4. ASSUME NEW t \in Tasks, Settle(t)
        PROVE  UNCHANGED Order!vars
    BY <2>4 DEF Settle, Order!vars, phase, Tasks
  <2>5. CASE UNCHANGED vars
    BY <2>5 DEF vars, Order!vars, phase, Tasks
  <2>. QED
    BY <2>1, <2>2, <2>3, <2>4, <2>5 DEF Next, Order!Next
<1>. QED
  BY <1>1, <1>2, InductiveInvariant, PTL DEF Behavior, ImplementsProviderOrder, Order!Spec

-----------------------------------------------------------------------------
(* The batch *)

Preparing == {"prepare", "resolve", "authorize", "record", "add"}
Stages == Preparing \cup {"drain", "settleAll", "returned", "thrown"}
PlansOf(kinds) ==
    [kind : kinds, outcome : Outcomes \cup {"none"}, stopBatch : BOOLEAN]

\* Where the two loops are: call number `at` is the next task to be added while
\* the calls are prepared, and the next result to be dispatched afterwards.
Progress ==
    /\ calls \in Seq(Key \cup {Rejected})
    /\ at \in 1..Len(calls)
    /\ stage \in Stages
    /\ results \in Seq(Outcomes)
    /\ recorded \in Nat /\ recorded <= Len(calls) /\ Len(results) <= recorded
    /\ stage \in Preparing =>
            Len(accesses) = at - 1 /\ Len(results) = 0
    /\ stage \in Preparing \ {"add"} => recorded = at - 1
    /\ stage = "add" => recorded = at
    /\ stage = "drain" =>
            Len(accesses) = Len(calls) /\ recorded = Len(calls) /\ Len(results) = at - 1
    /\ stage \in {"settleAll", "returned"} /\ ~failed =>
            recorded = Len(calls) /\ Len(results) = Len(calls)
    /\ stage = "returned" => ~failed

\* What the preparation of a call has decided: a call that will run has a key,
\* one that will not has its result, a placeholder has its original.
Planning ==
    /\ plan \in PlansOf({"none", "run", "resolved"})
    /\ planned \in Seq(PlansOf({"run", "resolved"}))
    /\ Len(planned) = Len(accesses)
    /\ stepDeferreds \in [DOMAIN stepDeferreds -> {"open"} \cup Outcomes]
    /\ stage \in {"resolve", "authorize"} => calls[at] \in Key
    /\ stage = "authorize" => plan.kind = "run"
    /\ stage \in {"record", "add"} => plan.kind \in {"run", "resolved"}
    /\ stage = "drain" => plan = Plan("none", "none", FALSE)
    /\ plan.kind = "run" => calls[at] \in Key
    /\ plan.kind = "resolved" => plan.outcome # "none"
    /\ plan.outcome = "placeholder" => calls[at] \in DOMAIN stepDeferreds
    /\ \A i \in Tasks :
        /\ planned[i].kind = "resolved" => planned[i].outcome # "none"
        /\ planned[i].outcome = "placeholder" => calls[i] \in DOMAIN stepDeferreds

\* Where the executions are: a tool runs while its task is active and has no
\* result; only an abort lets a result come before the tool's return.
Executing ==
    /\ exec \in [Tasks -> {"none", "running", "abandoned", "returned"}]
    /\ outcome \in [Tasks -> Outcomes \cup {"none"}]
    /\ aborted \in BOOLEAN
    /\ \A i \in queuedTasks : exec[i] = "none" /\ outcome[i] = "none"
    /\ \A i \in Tasks :
        /\ exec[i] = "running" =>
                i \in activeTasks /\ result[i] = "pending" /\ outcome[i] = "none"
        /\ exec[i] = "abandoned" => aborted
        /\ result[i] # "pending" => outcome[i] # "none"
        /\ outcome[i] = "placeholder" => calls[i] \in DOMAIN stepDeferreds

\* The batch waits for its tasks before it ends, and none is added afterwards.
AllSettledWhenOver == Over => \A i \in Tasks : result[i] # "pending"

\* The inductive invariant.
BatchInv ==
    /\ IInv
    /\ Progress
    /\ Planning
    /\ Executing
    /\ NoConflictingExecution
    /\ AllSettledWhenOver

LEMMA InitBatchInv == BatchInit => BatchInv
<1>. SUFFICES ASSUME BatchInit
              PROVE  BatchInv
  OBVIOUS
<1>1. IInv /\ Tasks = {} /\ activeTasks = {} /\ queuedTasks = {} /\ Len(accesses) = 0
  BY InitIInv DEF BatchInit, Init, Tasks
<1>2. PICK n \in 1..MaxTasks : calls \in [1..n -> Key \cup {Rejected}]
  BY DEF BatchInit
<1>3. n \in Nat /\ Len(calls) = n /\ calls \in Seq(Key \cup {Rejected})
  BY <1>2, SchedulerAssumption
<1>4. Progress
  BY <1>1, <1>2, <1>3 DEF BatchInit, Progress, Stages, Preparing
<1>5. Planning
  BY <1>1 DEF BatchInit, Planning, PlansOf, Plan
<1>6. exec = << >> /\ outcome = << >> /\ aborted = FALSE /\ stage = "prepare"
  BY DEF BatchInit
<1>7. Executing
  <2>1. \A V : << >> \in [{} -> V]
    OBVIOUS
  <2>. QED
    BY <1>1, <1>6, <2>1 DEF Executing
<1>8. NoConflictingExecution /\ AllSettledWhenOver
  BY <1>1, <1>6 DEF NoConflictingExecution, Running, AllSettledWhenOver, Over
<1>. QED
  BY <1>1, <1>4, <1>5, <1>7, <1>8 DEF BatchInv

\* The loops and plans do not move while none of their variables does.
LEMMA LoopsKept ==
    ASSUME Progress, Planning, accesses' = accesses, Tasks' = Tasks,
           calls' = calls, at' = at, plan' = plan, planned' = planned,
           results' = results, recorded' = recorded, failed' = failed,
           stepDeferreds' = stepDeferreds, stage' = stage
    PROVE  Progress' /\ Planning'
<1>1. Progress'
  BY DEF Progress
<1>2. Planning'
  BY DEF Planning
<1>. QED
  BY <1>1, <1>2

\* A step of the batch that is not one of the scheduler keeps its invariant.
LEMMA SchedulerIdle ==
    ASSUME IInv, UNCHANGED schedulerVars
    PROVE  IInv' /\ Tasks' = Tasks
BY NextIInv DEF schedulerVars, vars, Tasks

\* A scan of the scheduler starts tasks that were queued or are new.  None of
\* their executions begins after the abort; before it every execution belongs to
\* an active task, and active tasks do not conflict.
LEMMA StartsKeepExecuting ==
    ASSUME IInv, IInv', Executing, NoConflictingExecution,
           Tasks \subseteq Tasks',
           \A i \in Tasks : accesses'[i] = accesses[i] /\ result'[i] = result[i],
           \A i \in Tasks' \ Tasks : result'[i] = "pending",
           \A i \in activeTasks' \ activeTasks : i \in queuedTasks \/ i \notin Tasks,
           \A i \in queuedTasks' : i \in queuedTasks \/ i \notin Tasks,
           \A i \in activeTasks : i \in activeTasks' \/ result[i] # "pending",
           aborted' = aborted, calls' = calls, stepDeferreds' = stepDeferreds,
           NEW plans \in Seq(PlansOf({"run", "resolved"})),
           DOMAIN plans = Tasks',
           \A i \in Tasks' :
              plans[i].outcome = "placeholder" => calls[i] \in DOMAIN stepDeferreds,
           StartTasks(plans)
    PROVE  /\ Executing'
           /\ NoConflictingExecution'
           /\ aborted => \A i \in Tasks' :
                  exec'[i] = "running" => i \in Tasks /\ exec[i] = "running"
<1> DEFINE started == activeTasks' \ activeTasks
           runs(i) == plans[i].kind = "run" /\ ~aborted
<1>1. \A i \in Tasks' : plans[i] \in PlansOf({"run", "resolved"})
  OBVIOUS
<1>2. \A i \in Tasks' :
        /\ exec'[i] = IF i \in started
                      THEN IF runs(i) THEN "running" ELSE "none"
                      ELSE IF i \in Tasks THEN exec[i] ELSE "none"
        /\ outcome'[i] = IF i \in started /\ ~runs(i)
                         THEN IF plans[i].kind = "run" THEN "aborted" ELSE plans[i].outcome
                         ELSE IF i \in Tasks THEN outcome[i] ELSE "none"
  BY DEF StartTasks
<1>3. exec' \in [Tasks' -> {"none", "running", "abandoned", "returned"}]
  BY <1>2 DEF StartTasks, Executing
<1>4. outcome' \in [Tasks' -> Outcomes \cup {"none"}]
  <2>1. \A i \in Tasks' : outcome'[i] \in Outcomes \cup {"none"}
    BY <1>1, <1>2 DEF PlansOf, Outcomes, Executing
  <2>. QED
    BY <2>1 DEF StartTasks
<1>5. /\ activeTasks' \subseteq Tasks' /\ queuedTasks' \subseteq Tasks'
      /\ activeTasks \subseteq Tasks /\ queuedTasks \subseteq Tasks
      /\ activeTasks' \cap queuedTasks' = {}
      /\ activeTasks \cap queuedTasks = {}
      /\ \A i \in queuedTasks : result[i] = "pending"
  BY DEF IInv, TypeOK, OncePerTask
<1>6. \A i \in queuedTasks' : exec'[i] = "none" /\ outcome'[i] = "none"
  BY <1>2, <1>5 DEF Executing
<1>7. ASSUME NEW i \in Tasks'
      PROVE  /\ exec'[i] = "running" =>
                    i \in activeTasks' /\ result'[i] = "pending" /\ outcome'[i] = "none"
             /\ exec'[i] = "abandoned" => aborted'
             /\ result'[i] # "pending" => outcome'[i] # "none"
             /\ outcome'[i] = "placeholder" => calls'[i] \in DOMAIN stepDeferreds'
  <2>1. CASE i \in started
    <3>1. result'[i] = "pending"
      BY <1>5, <2>1
    <3>2. i \in Tasks => outcome[i] = "none"
      BY <1>5, <2>1 DEF Executing
    <3>. QED
      BY <1>2, <2>1, <3>1, <3>2
  <2>2. CASE i \notin started /\ i \in Tasks
    <3>1. exec'[i] = exec[i] /\ outcome'[i] = outcome[i] /\ result'[i] = result[i]
      BY <1>2, <2>2
    <3>. QED
      BY <2>2, <3>1 DEF Executing
  <2>3. CASE i \notin started /\ i \notin Tasks
    BY <1>2, <2>3
  <2>. QED
    BY <2>1, <2>2, <2>3
<1>8. Executing'
  BY <1>3, <1>4, <1>6, <1>7 DEF Executing
<1>9. ASSUME aborted
      PROVE  \A i \in Tasks' : exec'[i] \in {"running", "abandoned"} =>
                i \in Tasks /\ exec'[i] = exec[i]
  BY <1>2, <1>9
<1>10. NoConflictingExecution'
  <2>. SUFFICES ASSUME NEW i \in Running', NEW j \in Running', i # j
                PROVE  ~Conflict(accesses'[i], accesses'[j])
    BY DEF NoConflictingExecution
  <2>1. CASE aborted
    <3>1. i \in Running /\ j \in Running
      BY <1>9, <2>1 DEF Running
    <3>. QED
      BY <3>1 DEF NoConflictingExecution, Running
  <2>2. CASE ~aborted
    <3>1. i \in activeTasks' /\ j \in activeTasks'
      BY <1>7, <2>2 DEF Running, Executing
    <3>2. NoConflictingActive'
      BY ActiveApart, PTL
    <3>. QED
      BY <3>1, <3>2 DEF NoConflictingActive
  <2>. QED
    BY <2>1, <2>2
<1>. QED
  BY <1>8, <1>9, <1>10

\* Nothing happens to the executions.
LEMMA ExecutionsIdle ==
    ASSUME Executing, NoConflictingExecution,
           UNCHANGED <<schedulerVars, execVars, aborted, calls>>,
           DOMAIN stepDeferreds \subseteq DOMAIN stepDeferreds'
    PROVE  Executing' /\ NoConflictingExecution'
<1>1. /\ Tasks' = Tasks /\ accesses' = accesses /\ activeTasks' = activeTasks
      /\ queuedTasks' = queuedTasks /\ result' = result /\ aborted' = aborted
      /\ exec' = exec /\ outcome' = outcome /\ calls' = calls
  BY DEF schedulerVars, vars, execVars, Tasks
<1>2. Executing'
  BY <1>1 DEF Executing
<1>3. NoConflictingExecution'
  BY <1>1 DEF NoConflictingExecution, Running
<1>. QED
  BY <1>2, <1>3

-----------------------------------------------------------------------------
(* Preparing *)

LEMMA PrepareHookInv ==
    ASSUME BatchInv, PrepareHook
    PROVE  BatchInv'
<1>. USE DEF BatchInv
<1>1. IInv' /\ Tasks' = Tasks /\ accesses' = accesses /\ result' = result
  BY SchedulerIdle DEF PrepareHook, schedulerVars, vars
<1>2. /\ calls' = calls /\ at' = at /\ results' = results /\ recorded' = recorded
      /\ planned' = planned /\ failed' = failed
      /\ stage = "prepare" /\ stage' \in {"resolve", "record"}
  BY DEF PrepareHook, execVars, Settled
<1>3. calls[at] \in Key \cup {Rejected}
  BY DEF Progress
<1>4. \/ /\ plan'.kind = "resolved" /\ plan' \in PlansOf({"resolved"})
         /\ plan'.outcome # "none" /\ stage' = "record"
         /\ stepDeferreds' = stepDeferreds
         /\ plan'.outcome = "placeholder" => calls[at] \in DOMAIN stepDeferreds
      \/ /\ plan' = plan /\ stage' = "resolve" /\ calls[at] \in Key
         /\ DOMAIN stepDeferreds \subseteq DOMAIN stepDeferreds'
         /\ stepDeferreds' \in [DOMAIN stepDeferreds' -> {"open"} \cup Outcomes]
  <2>1. CASE skipping \/ calls[at] = Rejected
    <3>1. PICK o \in {"skipped", "done"} :
              Settled(o, FALSE) /\ stepDeferreds' = stepDeferreds
      BY <2>1 DEF PrepareHook
    <3>. QED
      BY <3>1 DEF Settled, Plan, PlansOf, Outcomes
  <2>2. CASE ~(skipping \/ calls[at] = Rejected) /\ calls[at] \in DOMAIN stepDeferreds
    <3>1. Settled("placeholder", FALSE) /\ stepDeferreds' = stepDeferreds
      BY <2>2 DEF PrepareHook
    <3>. QED
      BY <2>2, <3>1 DEF Settled, Plan, PlansOf, Outcomes
  <2>3. CASE ~(skipping \/ calls[at] = Rejected) /\ calls[at] \notin DOMAIN stepDeferreds
    <3>1. /\ stepDeferreds' = [k \in DOMAIN stepDeferreds \cup {calls[at]} |->
                                 IF k = calls[at] THEN "open" ELSE stepDeferreds[k]]
          /\ stage' = "resolve" /\ plan' = plan
      BY <2>3 DEF PrepareHook
    <3>2. stepDeferreds \in [DOMAIN stepDeferreds -> {"open"} \cup Outcomes]
      BY DEF Planning
    <3>3. /\ DOMAIN stepDeferreds' = DOMAIN stepDeferreds \cup {calls[at]}
          /\ stepDeferreds' \in [DOMAIN stepDeferreds' -> {"open"} \cup Outcomes]
      BY <3>1, <3>2
    <3>. QED
      BY <1>3, <2>3, <3>1, <3>3
  <2>. QED
    BY <2>1, <2>2, <2>3
<1>5. Progress'
  BY <1>1, <1>2 DEF Progress, Stages, Preparing
<1>6. DOMAIN stepDeferreds \subseteq DOMAIN stepDeferreds'
  BY <1>4
<1>7. Planning'
  BY <1>1, <1>2, <1>4, <1>6 DEF Planning, PlansOf
<1>8. Executing' /\ NoConflictingExecution'
  BY <1>6, ExecutionsIdle DEF PrepareHook
<1>9. AllSettledWhenOver'
  BY <1>2 DEF AllSettledWhenOver, Over
<1>. QED
  BY <1>1, <1>5, <1>7, <1>8, <1>9

\* Resolving and authorizing decide the plan and touch nothing else.
LEMMA PlanInv ==
    ASSUME BatchInv, ResolveExecution \/ AuthorizeExecution
    PROVE  BatchInv'
<1>. USE DEF BatchInv
<1>1. /\ UNCHANGED <<schedulerVars, calls, at, skipping, drainVars, execVars, aborted>>
      /\ stage \in {"resolve", "authorize"}
      /\ \/ \E o \in Outcomes \ {"placeholder"}, stop \in BOOLEAN : Settled(o, stop)
         \/ stage' = "authorize" /\ \E stop \in BOOLEAN : plan' = Plan("run", "none", stop)
         \/ stage = "authorize" /\ stage' = "record" /\ plan' = plan
  BY DEF ResolveExecution, AuthorizeExecution, Outcomes
<1>2. IInv' /\ Tasks' = Tasks /\ accesses' = accesses
  BY <1>1, SchedulerIdle DEF schedulerVars, vars
<1>3. /\ calls' = calls /\ at' = at /\ results' = results /\ recorded' = recorded
      /\ planned' = planned /\ failed' = failed /\ stepDeferreds' = stepDeferreds
      /\ stage' \in {"authorize", "record"}
  BY <1>1 DEF drainVars, execVars, Settled
<1>4. calls[at] \in Key
  BY <1>1 DEF Planning
<1>5. \/ /\ plan' \in PlansOf({"resolved"}) /\ stage' = "record"
         /\ plan'.outcome \notin {"none", "placeholder"}
      \/ plan' \in PlansOf({"run"}) /\ plan'.outcome = "none"
      \/ stage = "authorize" /\ stage' = "record" /\ plan' = plan
  BY <1>1 DEF Settled, Plan, PlansOf, Outcomes
<1>6. Progress'
  BY <1>1, <1>2, <1>3 DEF Progress, Stages, Preparing
<1>7. Planning'
  BY <1>2, <1>3, <1>4, <1>5 DEF Planning, PlansOf
<1>8. Executing' /\ NoConflictingExecution'
  BY <1>1, <1>3, ExecutionsIdle
<1>9. AllSettledWhenOver'
  BY <1>3 DEF AllSettledWhenOver, Over
<1>. QED
  BY <1>2, <1>6, <1>7, <1>8, <1>9

LEMMA RecordCallInv ==
    ASSUME BatchInv, RecordCall
    PROVE  BatchInv'
<1>. USE DEF BatchInv
<1>1. IInv' /\ Tasks' = Tasks /\ accesses' = accesses
  BY SchedulerIdle DEF RecordCall, schedulerVars, vars
<1>2. /\ calls' = calls /\ at' = at /\ plan' = plan /\ results' = results
      /\ planned' = planned /\ stepDeferreds' = stepDeferreds
      /\ stage = "record"
      /\ \/ recorded' = recorded + 1 /\ stage' = "add" /\ failed' = failed
         \/ failed' = TRUE /\ stage' = "settleAll" /\ recorded' = recorded
  BY DEF RecordCall, prepareVars, execVars
<1>3. Progress'
  BY <1>1, <1>2 DEF Progress, Stages, Preparing
<1>4. Planning'
  BY <1>1, <1>2 DEF Planning
<1>5. Executing' /\ NoConflictingExecution'
  BY <1>2, ExecutionsIdle DEF RecordCall, prepareVars
<1>6. AllSettledWhenOver'
  BY <1>2 DEF AllSettledWhenOver, Over
<1>. QED
  BY <1>1, <1>3, <1>4, <1>5, <1>6

-----------------------------------------------------------------------------
(* Executing *)

LEMMA AddTaskInv ==
    ASSUME BatchInv, AddTask
    PROVE  /\ BatchInv'
           /\ aborted => \A i \in Tasks' :
                  exec'[i] = "running" => i \in Tasks /\ exec[i] = "running"
<1>. USE DEF BatchInv
<1> DEFINE n == Len(accesses) + 1
           acc == IF plan.kind = "run" THEN AccessOf[calls[at]] ELSE None
<1>1. /\ stage = "add" /\ Add(acc)
      /\ planned' = Append(planned, plan) /\ StartTasks(planned')
      /\ plan' = Plan("none", "none", FALSE)
      /\ \/ at < Len(calls) /\ at' = at + 1 /\ stage' = "prepare"
         \/ ~(at < Len(calls)) /\ at' = 1 /\ stage' = "drain"
      /\ calls' = calls /\ recorded' = recorded /\ results' = results
      /\ failed' = failed /\ stepDeferreds' = stepDeferreds /\ aborted' = aborted
  BY DEF AddTask
<1>2. acc \in Access
  BY <1>1, BatchAssumption DEF Planning
<1>3. IInv'
  BY <1>1, <1>2, AddIInv
<1>4. /\ n \notin Tasks /\ Tasks' = Tasks \cup {n}
      /\ \A t \in Tasks : accesses'[t] = accesses[t]
      /\ result'[n] = "pending"
      /\ \A t \in Tasks : result'[t] = result[t]
  BY <1>1, <1>2, AddShape DEF IInv
<1>5. Tasks = 1..Len(accesses) /\ Len(accesses) \in Nat /\ Len(accesses') = n
  BY <1>1, TasksAreIndices DEF IInv, TypeOK, Add
<1>6. /\ activeTasks' \subseteq activeTasks \cup {n} /\ activeTasks \subseteq activeTasks'
      /\ queuedTasks' \subseteq queuedTasks \cup {n}
  BY <1>1 DEF Add
<1>7. /\ plan \in PlansOf({"run", "resolved"})
      /\ planned' \in Seq(PlansOf({"run", "resolved"}))
      /\ Len(planned') = n /\ DOMAIN planned' = Tasks'
      /\ planned'[n] = plan
      /\ \A i \in Tasks : planned'[i] = planned[i]
  <2>1. plan \in PlansOf({"run", "resolved"})
    BY <1>1 DEF Planning, PlansOf
  <2>2. planned \in Seq(PlansOf({"run", "resolved"})) /\ Len(planned) = Len(accesses)
    BY DEF Planning
  <2>. QED
    BY <1>1, <1>4, <1>5, <2>1, <2>2
<1>8. n = at
  BY <1>1 DEF Progress, Preparing
<1>9. Progress'
  BY <1>1, <1>5, <1>8 DEF Progress, Stages, Preparing
<1>10. \A i \in Tasks' :
          /\ planned'[i].kind = "resolved" => planned'[i].outcome # "none"
          /\ planned'[i].outcome = "placeholder" => calls[i] \in DOMAIN stepDeferreds
  BY <1>4, <1>7, <1>8 DEF Planning
<1>11. Planning'
  BY <1>1, <1>5, <1>7, <1>10 DEF Planning, Plan, PlansOf
<1>12. /\ Executing' /\ NoConflictingExecution'
       /\ aborted => \A i \in Tasks' :
              exec'[i] = "running" => i \in Tasks /\ exec[i] = "running"
  BY <1>1, <1>3, <1>4, <1>6, <1>7, <1>10, StartsKeepExecuting
<1>13. AllSettledWhenOver'
  BY <1>1 DEF AllSettledWhenOver, Over
<1>. QED
  BY <1>3, <1>9, <1>11, <1>12, <1>13

LEMMA FinishTaskInv ==
    ASSUME BatchInv, NEW t \in Tasks, FinishTask(t)
    PROVE  /\ BatchInv'
           /\ aborted => \A i \in Tasks' :
                  exec'[i] = "running" => i \in Tasks /\ exec[i] = "running"
<1>. USE DEF BatchInv
<1>1. /\ Finish(t) /\ StartTasks(planned)
      /\ UNCHANGED <<prepareVars, stage, drainVars, planned, aborted>>
  BY DEF FinishTask
<1>2. IInv'
  BY <1>1, FinishIInv
<1>3. /\ accesses' = accesses /\ result' = result /\ Tasks' = Tasks
      /\ queuedTasks' \subseteq queuedTasks
      /\ activeTasks' \subseteq activeTasks \cup queuedTasks
      /\ \A i \in activeTasks : i \in activeTasks' \/ result[i] # "pending"
  BY <1>1 DEF Finish, StillQueued, Tasks
<1>4. /\ calls' = calls /\ at' = at /\ plan' = plan /\ planned' = planned
      /\ results' = results /\ recorded' = recorded /\ failed' = failed
      /\ stepDeferreds' = stepDeferreds /\ stage' = stage /\ aborted' = aborted
  BY <1>1 DEF prepareVars, drainVars
<1>5. planned \in Seq(PlansOf({"run", "resolved"})) /\ DOMAIN planned = Tasks'
  BY <1>3, TasksAreIndices DEF Planning, IInv
<1>6. Progress' /\ Planning'
  BY <1>3, <1>4, LoopsKept
<1>7. \A i \in Tasks' :
          planned[i].outcome = "placeholder" => calls[i] \in DOMAIN stepDeferreds
  BY <1>3 DEF Planning
<1>8. /\ Executing' /\ NoConflictingExecution'
      /\ aborted => \A i \in Tasks' :
             exec'[i] = "running" => i \in Tasks /\ exec[i] = "running"
  BY <1>1, <1>2, <1>3, <1>4, <1>5, <1>7, StartsKeepExecuting
<1>9. AllSettledWhenOver'
  BY <1>3, <1>4 DEF AllSettledWhenOver, Over
<1>. QED
  BY <1>2, <1>6, <1>8, <1>9

LEMMA SettleTaskInv ==
    ASSUME BatchInv, NEW t \in Tasks, SettleTask(t)
    PROVE  BatchInv'
<1>. USE DEF BatchInv
<1>1. /\ Settle(t) /\ outcome[t] # "none"
      /\ UNCHANGED <<prepareVars, stage, drainVars, execVars, aborted>>
  BY DEF SettleTask
<1>2. IInv'
  BY <1>1, SettleIInv
<1>3. /\ accesses' = accesses /\ Tasks' = Tasks /\ queuedTasks' = queuedTasks
      /\ activeTasks' = activeTasks
      /\ \A i \in Tasks : i # t => result'[i] = result[i]
      /\ result'[t] # "pending"
  BY <1>1 DEF Settle, Tasks, IInv, TypeOK, Settlements
<1>4. /\ calls' = calls /\ at' = at /\ plan' = plan /\ planned' = planned
      /\ results' = results /\ recorded' = recorded /\ failed' = failed
      /\ stepDeferreds' = stepDeferreds /\ stage' = stage /\ aborted' = aborted
      /\ exec' = exec /\ outcome' = outcome
  BY <1>1 DEF prepareVars, drainVars, execVars
<1>5. Progress' /\ Planning'
  BY <1>3, <1>4, LoopsKept
<1>6. Executing'
  BY <1>1, <1>3, <1>4 DEF Executing
<1>7. NoConflictingExecution'
  BY <1>3, <1>4 DEF NoConflictingExecution, Running
<1>8. AllSettledWhenOver'
  BY <1>3, <1>4 DEF AllSettledWhenOver, Over
<1>. QED
  BY <1>2, <1>5, <1>6, <1>7, <1>8

\* A tool ends, or its result is given up on: it stops running or keeps to the
\* files it had.
LEMMA ToolEndsInv ==
    ASSUME BatchInv, NEW t \in Tasks, ToolReturns(t) \/ GraceExpires(t)
    PROVE  BatchInv'
<1>. USE DEF BatchInv
<1>1. UNCHANGED <<schedulerVars, prepareVars, stage, drainVars, planned, aborted>>
  BY DEF ToolReturns, GraceExpires
<1>2. IInv'
  BY <1>1, SchedulerIdle
<1>3. /\ accesses' = accesses /\ Tasks' = Tasks /\ queuedTasks' = queuedTasks
      /\ activeTasks' = activeTasks /\ result' = result
      /\ calls' = calls /\ at' = at /\ plan' = plan /\ planned' = planned
      /\ results' = results /\ recorded' = recorded /\ failed' = failed
      /\ stepDeferreds' = stepDeferreds /\ stage' = stage /\ aborted' = aborted
  BY <1>1 DEF schedulerVars, vars, prepareVars, drainVars, Tasks
<1>4. PICK e \in {"returned", "abandoned"}, o \in Outcomes :
        /\ exec' = [exec EXCEPT ![t] = e]
        /\ outcome' = [outcome EXCEPT ![t] = o] \/ outcome' = outcome
        /\ e = "abandoned" => aborted /\ exec[t] = "running"
        /\ o # "placeholder"
        /\ exec[t] \in {"running", "abandoned"}
  <2>1. CASE ToolReturns(t) /\ exec[t] = "running"
    <3>1. PICK o \in Outcomes \ {"placeholder"} : outcome' = [outcome EXCEPT ![t] = o]
      BY <2>1 DEF ToolReturns, Outcomes
    <3>2. exec' = [exec EXCEPT ![t] = "returned"]
      BY <2>1 DEF ToolReturns
    <3>. QED
      BY <2>1, <3>1, <3>2
  <2>2. CASE ToolReturns(t) /\ exec[t] = "abandoned"
    <3>1. exec' = [exec EXCEPT ![t] = "returned"] /\ outcome' = outcome
      BY <2>2 DEF ToolReturns
    <3>2. "done" \in Outcomes
      BY DEF Outcomes
    <3>. QED
      BY <2>2, <3>1, <3>2
  <2>3. CASE GraceExpires(t)
    BY <2>3 DEF GraceExpires, Outcomes
  <2>4. ToolReturns(t) => exec[t] \in {"running", "abandoned"}
    BY DEF ToolReturns, Running
  <2>. QED
    BY <2>1, <2>2, <2>3, <2>4
<1>5. Progress' /\ Planning'
  BY <1>3, LoopsKept
<1>6. /\ exec' \in [Tasks -> {"none", "running", "abandoned", "returned"}]
      /\ outcome' \in [Tasks -> Outcomes \cup {"none"}]
      /\ exec'[t] = e
      /\ outcome'[t] \notin {"none", "placeholder"} \/ outcome'[t] = outcome[t]
      /\ \A i \in Tasks \ {t} : exec'[i] = exec[i] /\ outcome'[i] = outcome[i]
  BY <1>4 DEF Executing, Outcomes
<1>7. t \notin queuedTasks /\ queuedTasks \subseteq Tasks
  BY <1>4 DEF Executing, IInv, TypeOK
<1>8. Executing'
  BY <1>3, <1>4, <1>6, <1>7 DEF Executing
<1>9. Running' \subseteq Running
  BY <1>3, <1>4, <1>6 DEF Running
<1>10. NoConflictingExecution'
  BY <1>3, <1>9 DEF NoConflictingExecution
<1>11. AllSettledWhenOver'
  BY <1>3 DEF AllSettledWhenOver, Over
<1>. QED
  BY <1>2, <1>5, <1>8, <1>10, <1>11

LEMMA AbortInv ==
    ASSUME BatchInv, Abort
    PROVE  BatchInv'
<1>. USE DEF BatchInv
<1>1. /\ UNCHANGED <<schedulerVars, prepareVars, stage, drainVars, execVars>>
      /\ aborted' = TRUE
  BY DEF Abort
<1>2. IInv'
  BY <1>1, SchedulerIdle
<1>3. /\ accesses' = accesses /\ Tasks' = Tasks /\ queuedTasks' = queuedTasks
      /\ activeTasks' = activeTasks /\ result' = result
      /\ calls' = calls /\ at' = at /\ plan' = plan /\ planned' = planned
      /\ results' = results /\ recorded' = recorded /\ failed' = failed
      /\ stepDeferreds' = stepDeferreds /\ stage' = stage
      /\ exec' = exec /\ outcome' = outcome
  BY <1>1 DEF schedulerVars, vars, prepareVars, drainVars, execVars, Tasks
<1>4. Progress' /\ Planning' /\ Executing'
  <2>1. Progress' /\ Planning'
    BY <1>3, LoopsKept
  <2>2. Executing'
    BY <1>1, <1>3 DEF Executing
  <2>. QED
    BY <2>1, <2>2
<1>5. NoConflictingExecution' /\ AllSettledWhenOver'
  BY <1>3 DEF NoConflictingExecution, Running, AllSettledWhenOver, Over
<1>. QED
  BY <1>2, <1>4, <1>5

-----------------------------------------------------------------------------
(* Draining *)

\* A settled call has a result to be finalized with, a duplicate that of its
\* original.
LEMMA FinalizedType ==
    ASSUME Planning, Executing, NEW i \in Tasks, result[i] # "pending"
    PROVE  Finalized(i) \subseteq Outcomes
<1>1. outcome[i] \in Outcomes
  BY DEF Executing
<1>2. CASE outcome[i] = "placeholder"
  BY <1>2 DEF Finalized, Planning, Executing
<1>3. CASE outcome[i] # "placeholder"
  <2>1. Finalized(i) \subseteq {outcome[i], "stop"}
    BY <1>3 DEF Finalized
  <2>. QED
    BY <1>1, <2>1 DEF Outcomes
<1>. QED
  BY <1>2, <1>3

LEMMA DrainResultInv ==
    ASSUME BatchInv, DrainResult
    PROVE  BatchInv'
<1>. USE DEF BatchInv
<1>1. /\ UNCHANGED <<schedulerVars, calls, plan, skipping, recorded, execVars, aborted>>
      /\ stage = "drain" /\ result[at] # "pending"
  BY DEF DrainResult
<1>2. PICK r \in Finalized(at) :
        /\ stepDeferreds' = [k \in DOMAIN stepDeferreds |->
                IF k = calls[at] /\ stepDeferreds[k] = "open" THEN r
                ELSE stepDeferreds[k]]
        /\ \/ /\ results' = Append(results, r)
              /\ failed' = failed
              /\ \/ at < Len(calls) /\ at' = at + 1 /\ stage' = stage
                 \/ ~(at < Len(calls)) /\ stage' = "settleAll" /\ at' = at
           \/ /\ failed' = TRUE /\ stage' = "settleAll"
              /\ results' = results /\ at' = at
  BY DEF DrainResult
<1>3. IInv' /\ accesses' = accesses /\ Tasks' = Tasks /\ Tasks = 1..Len(accesses)
  BY <1>1, SchedulerIdle, TasksAreIndices DEF schedulerVars, vars, IInv
<1>4. /\ calls' = calls /\ plan' = plan /\ planned' = planned /\ recorded' = recorded
  BY <1>1 DEF execVars
<1>5. at \in Tasks
  BY <1>1, <1>3 DEF Progress
<1>6. r \in Outcomes
  BY <1>1, <1>2, <1>5, FinalizedType
<1>7. /\ results' \in Seq(Outcomes)
      /\ \/ Len(results') = Len(results) + 1 /\ failed' = failed
         \/ Len(results') = Len(results) /\ failed' = TRUE
  <2>1. results \in Seq(Outcomes)
    BY DEF Progress
  <2>2. Append(results, r) \in Seq(Outcomes) /\ Len(Append(results, r)) = Len(results) + 1
    BY <1>6, <2>1
  <2>. QED
    BY <1>2, <2>1, <2>2
<1>8. Progress'
  <2>1. \/ /\ Len(results') = Len(results) + 1 /\ failed' = failed
           /\ \/ at < Len(calls) /\ at' = at + 1 /\ stage' = "drain"
              \/ ~(at < Len(calls)) /\ stage' = "settleAll" /\ at' = at
        \/ /\ Len(results') = Len(results) /\ failed' = TRUE
           /\ stage' = "settleAll" /\ at' = at
    BY <1>1, <1>2, <1>6, <1>7 DEF Progress
  <2>. QED
    BY <1>1, <1>3, <1>4, <1>7, <2>1 DEF Progress, Stages, Preparing
<1>9. /\ DOMAIN stepDeferreds' = DOMAIN stepDeferreds
      /\ stepDeferreds' \in [DOMAIN stepDeferreds' -> {"open"} \cup Outcomes]
  BY <1>2, <1>6 DEF Planning
<1>10. Planning'
  BY <1>1, <1>2, <1>3, <1>4, <1>9 DEF Planning, Plan
<1>11. Executing' /\ NoConflictingExecution'
  BY <1>1, <1>9, ExecutionsIdle
<1>12. AllSettledWhenOver'
  BY <1>1, <1>2 DEF AllSettledWhenOver, Over
<1>. QED
  BY <1>3, <1>8, <1>10, <1>11, <1>12

LEMMA LeaveBatchInv ==
    ASSUME BatchInv, LeaveBatch
    PROVE  BatchInv'
<1>. USE DEF BatchInv
<1>1. /\ UNCHANGED <<schedulerVars, prepareVars, drainVars, execVars, aborted>>
      /\ stage = "settleAll" /\ stage' = IF failed THEN "thrown" ELSE "returned"
      /\ \A i \in Tasks : result[i] # "pending"
  BY DEF LeaveBatch
<1>2. IInv' /\ Tasks' = Tasks
  BY <1>1, SchedulerIdle
<1>3. /\ accesses' = accesses /\ result' = result
      /\ calls' = calls /\ at' = at /\ plan' = plan /\ planned' = planned
      /\ results' = results /\ recorded' = recorded /\ failed' = failed
      /\ stepDeferreds' = stepDeferreds
  BY <1>1 DEF schedulerVars, vars, prepareVars, drainVars, execVars
<1>4. Progress'
  BY <1>1, <1>3 DEF Progress, Stages, Preparing
<1>5. Planning'
  BY <1>1, <1>2, <1>3 DEF Planning
<1>6. Executing' /\ NoConflictingExecution'
  BY <1>1, <1>3, ExecutionsIdle
<1>7. AllSettledWhenOver'
  BY <1>1, <1>2, <1>3 DEF AllSettledWhenOver
<1>. QED
  BY <1>2, <1>4, <1>5, <1>6, <1>7

-----------------------------------------------------------------------------
(* The theorems *)

LEMMA BatchNextInv == BatchInv /\ [BatchNext]_batchVars => BatchInv'
<1>. SUFFICES ASSUME BatchInv, [BatchNext]_batchVars
              PROVE  BatchInv'
  OBVIOUS
<1>1. CASE BatchStep
  BY <1>1, PrepareHookInv, PlanInv, RecordCallInv, AddTaskInv, DrainResultInv,
     LeaveBatchInv DEF BatchStep
<1>2. CASE Abort
  BY <1>2, AbortInv
<1>3. ASSUME NEW t \in Tasks,
             ToolReturns(t) \/ GraceExpires(t) \/ SettleTask(t) \/ FinishTask(t)
      PROVE  BatchInv'
  BY <1>3, ToolEndsInv, SettleTaskInv, FinishTaskInv
<1>4. CASE UNCHANGED batchVars
  <2>1. /\ UNCHANGED <<schedulerVars, execVars, aborted>> /\ calls' = calls /\ at' = at
        /\ plan' = plan /\ planned' = planned /\ results' = results
        /\ recorded' = recorded /\ failed' = failed
        /\ stepDeferreds' = stepDeferreds /\ stage' = stage
    BY <1>4 DEF batchVars, prepareVars, drainVars, execVars
  <2>2. IInv' /\ Tasks' = Tasks /\ accesses' = accesses /\ result' = result
    BY <2>1, SchedulerIdle DEF BatchInv, schedulerVars, vars
  <2>3. Progress' /\ Planning'
    BY <2>1, <2>2, LoopsKept DEF BatchInv
  <2>4. Executing' /\ NoConflictingExecution'
    BY <2>1, ExecutionsIdle DEF BatchInv
  <2>5. AllSettledWhenOver'
    BY <2>1, <2>2 DEF BatchInv, AllSettledWhenOver, Over
  <2>. QED
    BY <2>2, <2>3, <2>4, <2>5 DEF BatchInv
<1>. QED
  BY <1>1, <1>2, <1>3, <1>4 DEF BatchNext

THEOREM BatchInductiveInvariant == BatchBehavior => []BatchInv
BY InitBatchInv, BatchNextInv, PTL DEF BatchBehavior

\* Two tools that conflict never really run at the same time, also after an
\* abort, when the scheduler takes a tool that still runs to be over.
THEOREM ExecutionsApart == BatchBehavior => []NoConflictingExecution
<1>1. BatchInv => NoConflictingExecution
  BY DEF BatchInv
<1>. QED
  BY <1>1, BatchInductiveInvariant, PTL

\* A batch that returns has recorded every call and dispatched every result.
THEOREM Paired == BatchBehavior => []PairedWhenReturned
<1>1. BatchInv => PairedWhenReturned
  BY DEF BatchInv, Progress, PairedWhenReturned
<1>. QED
  BY <1>1, BatchInductiveInvariant, PTL

\* A batch that has ended left nothing queued, and nothing running except what
\* an abort gave up on.
THEOREM NothingDetached == BatchBehavior => []NoDetachedTask
<1>1. BatchInv => NoDetachedTask
  <2>. SUFFICES ASSUME BatchInv, Over
                PROVE  /\ queuedTasks = {}
                       /\ \A i \in Running : aborted /\ exec[i] = "abandoned"
    BY DEF NoDetachedTask
  <2>1. \A i \in Tasks : result[i] # "pending"
    BY DEF BatchInv, AllSettledWhenOver
  <2>2. queuedTasks = {}
    BY <2>1 DEF BatchInv, IInv, TypeOK, OncePerTask
  <2>3. \A i \in Running : aborted /\ exec[i] = "abandoned"
    BY <2>1 DEF BatchInv, Executing, Running
  <2>. QED
    BY <2>2, <2>3
<1>. QED
  BY <1>1, BatchInductiveInvariant, PTL

\* After the abort no tool starts: only AddTask and FinishTask start any.
THEOREM NoStartAfterAbort == BatchBehavior => NothingStartsAborted
<1> DEFINE Quiet == aborted => \A i \in Tasks' :
                      exec'[i] = "running" => i \in Tasks /\ exec[i] = "running"
<1>1. BatchInv /\ [BatchNext]_batchVars => [Quiet]_batchVars
  <2>. SUFFICES ASSUME BatchInv, BatchNext
                PROVE  Quiet
    OBVIOUS
  <2>1. CASE PrepareHook \/ ResolveExecution \/ AuthorizeExecution \/ RecordCall
             \/ DrainResult \/ LeaveBatch \/ Abort
    <3>1. UNCHANGED <<schedulerVars, execVars>>
      BY <2>1 DEF PrepareHook, ResolveExecution, AuthorizeExecution, RecordCall,
                  DrainResult, LeaveBatch, Abort
    <3>. QED
      BY <3>1 DEF schedulerVars, vars, execVars, Tasks
  <2>2. CASE AddTask
    BY <2>2, AddTaskInv
  <2>3. ASSUME NEW t \in Tasks, ToolReturns(t) \/ GraceExpires(t)
        PROVE  Quiet
    <3>1. PICK e \in {"returned", "abandoned"} :
            exec' = [exec EXCEPT ![t] = e] /\ Tasks' = Tasks
      BY <2>3 DEF ToolReturns, GraceExpires, schedulerVars, vars, Tasks
    <3>2. DOMAIN exec = Tasks
      BY DEF BatchInv, Executing
    <3>. QED
      BY <3>1, <3>2
  <2>4. ASSUME NEW t \in Tasks, SettleTask(t)
        PROVE  Quiet
    BY <2>4 DEF SettleTask, Settle, execVars, Tasks
  <2>5. ASSUME NEW t \in Tasks, FinishTask(t)
        PROVE  Quiet
    BY <2>5, FinishTaskInv
  <2>. QED
    BY <2>1, <2>2, <2>3, <2>4, <2>5 DEF BatchNext, BatchStep
<1>. QED
  BY <1>1, BatchInductiveInvariant, PTL DEF BatchBehavior, NothingStartsAborted

\* Every step of the batch is one of the scheduler's or leaves its state alone, so a
\* whole batch implements ProviderOrder too: to the model, conflicting calls of one
\* response run one after another in the order it named them, whatever hooks, approvals,
\* aborts and failing dispatches do around the scheduler.
THEOREM BatchRefinesProviderOrder == BatchBehavior => ImplementsProviderOrder
<1>1. BatchInit => Init
  BY DEF BatchInit
<1>2. BatchInv /\ [BatchNext]_batchVars => [Next]_vars
  <2>. SUFFICES ASSUME BatchInv, [BatchNext]_batchVars
                PROVE  [Next]_vars
    OBVIOUS
  <2>1. CASE AddTask
    <3> DEFINE acc == IF plan.kind = "run" THEN AccessOf[calls[at]] ELSE None
    <3>1. stage = "add" /\ Add(acc)
      BY <2>1 DEF AddTask
    <3>2. acc \in Access
      BY <3>1, BatchAssumption DEF BatchInv, Planning
    <3>. HIDE DEF acc
    <3>. QED
      BY <3>1, <3>2 DEF Next
  <2>2. ASSUME NEW i \in Tasks, SettleTask(i) \/ FinishTask(i)
        PROVE  Next
    BY <2>2 DEF SettleTask, FinishTask, Next
  <2>3. CASE \/ PrepareHook \/ ResolveExecution \/ AuthorizeExecution \/ RecordCall
             \/ DrainResult \/ LeaveBatch \/ Abort \/ UNCHANGED batchVars
             \/ \E i \in Tasks : ToolReturns(i) \/ GraceExpires(i)
    <3>1. UNCHANGED schedulerVars
      BY <2>3 DEF PrepareHook, ResolveExecution, AuthorizeExecution, RecordCall, DrainResult,
                  LeaveBatch, Abort, ToolReturns, GraceExpires, batchVars
    <3>. QED
      BY <3>1 DEF schedulerVars
  <2>. QED
    BY <2>1, <2>2, <2>3 DEF BatchNext, BatchStep
<1>3. BatchBehavior => Behavior
  BY <1>1, <1>2, BatchInductiveInvariant, PTL DEF BatchBehavior, Behavior
<1>. QED
  BY <1>3, RefinesProviderOrder, PTL

-----------------------------------------------------------------------------
(* Repeated calls *)

\* How the calls of a step are told apart: once one is skipped all are; the first call
\* of a key registers it, and every later one is a placeholder of it.
DedupPlans ==
    /\ DOMAIN stepDeferreds \subseteq Key
    /\ plan.kind # "resolved" => plan.outcome = "none"
    /\ stage \in {"prepare", "resolve"} => plan = Plan("none", "none", FALSE)
    /\ stage \in {"resolve", "authorize"} => ~skipping
    /\ stage \in {"record", "add"} => (plan.outcome = "skipped" <=> skipping)
    /\ \A i \in Tasks :
        /\ planned[i].kind = "run" => planned[i].outcome = "none"
        /\ planned[i].outcome = "skipped" => skipping
        /\ calls[i] \in Key /\ planned[i].outcome # "skipped" =>
               calls[i] \in DOMAIN stepDeferreds
    /\ \A i, j \in Tasks : i < j /\ planned[j].outcome # "skipped" =>
        /\ planned[i].outcome # "skipped"
        /\ calls[i] = calls[j] /\ calls[j] \in Key => planned[j].outcome = "placeholder"

\* The call that is being prepared: it is registered, and one that is to have a result
\* of its own is the first of its key.
DedupCurrent ==
    stage \in Preparing \ {"prepare"} /\ calls[at] \in Key /\ ~skipping =>
        /\ calls[at] \in DOMAIN stepDeferreds
        /\ plan.outcome # "placeholder" => \A i \in Tasks : calls[i] # calls[at]

\* A placeholder is not executed, and nothing else has a placeholder for its outcome.
DedupOutcomes ==
    \A i \in Tasks :
        /\ planned[i].kind = "resolved" =>
               exec[i] = "none" /\ outcome[i] \in {"none", planned[i].outcome}
        /\ planned[i].kind = "run" => outcome[i] # "placeholder"

\* A deferred is settled by the first call of its key that is drained, with its result.
DedupResults ==
    /\ DOMAIN results \subseteq Tasks
    /\ stage \in Preparing \cup {"drain"} =>
        \A k \in DOMAIN stepDeferreds : stepDeferreds[k] # "open" =>
            \E i \in DOMAIN results : calls[i] = k
    /\ \A i \in DOMAIN results : calls[i] \in Key /\ planned[i].outcome # "skipped" =>
            stepDeferreds[calls[i]] = results[i]

DedupInv == DedupPlans /\ DedupCurrent /\ DedupOutcomes /\ DedupResults

\* A call that was handed over was either settled or is to be executed.
LEMMA PlannedKinds ==
    ASSUME BatchInv
    PROVE  \A i \in Tasks : planned[i].kind \in {"run", "resolved"}
<1>1. planned \in Seq(PlansOf({"run", "resolved"})) /\ Len(planned) = Len(accesses)
      /\ Tasks = 1..Len(accesses)
  BY TasksAreIndices DEF BatchInv, IInv, Planning
<1>2. \A i \in Tasks : planned[i] \in PlansOf({"run", "resolved"})
  BY <1>1
<1>. QED
  BY <1>2 DEF PlansOf

LEMMA InitDedup == BatchInit => DedupInv
<1>. SUFFICES ASSUME BatchInit PROVE DedupInv
  OBVIOUS
<1>1. /\ Tasks = {} /\ results = << >> /\ stepDeferreds = << >> /\ stage = "prepare"
      /\ plan = Plan("none", "none", FALSE)
  BY DEF BatchInit, Init, Tasks
<1>2. DOMAIN results = {} /\ DOMAIN stepDeferreds = {}
  BY <1>1
<1>. QED
  BY <1>1, <1>2 DEF DedupInv, DedupPlans, DedupCurrent, DedupOutcomes, DedupResults, Plan

\* A step that touches neither the plans, nor the outcomes, nor the results.
LEMMA DedupIdle ==
    ASSUME DedupInv, Tasks' = Tasks,
           UNCHANGED <<calls, at, plan, skipping, stage, results, stepDeferreds,
                       planned, exec, outcome>>
    PROVE  DedupInv'
BY DEF DedupInv, DedupPlans, DedupCurrent, DedupOutcomes, DedupResults

\* What a task is planned for decides what its start can make of it.
LEMMA StartsKeepDedup ==
    ASSUME DedupInv, Tasks \subseteq Tasks', StartTasks(planned'),
           \A i \in Tasks : planned'[i] = planned[i],
           \A i \in Tasks' : planned'[i].kind \in {"run", "resolved"}
                             /\ (planned'[i].kind = "run" => planned'[i].outcome = "none")
    PROVE  DedupOutcomes'
<1> DEFINE started == activeTasks' \ activeTasks
           runs(i) == planned'[i].kind = "run" /\ ~aborted
<1>1. \A i \in Tasks' :
        /\ exec'[i] = IF i \in started
                      THEN IF runs(i) THEN "running" ELSE "none"
                      ELSE IF i \in Tasks THEN exec[i] ELSE "none"
        /\ outcome'[i] = IF i \in started /\ ~runs(i)
                         THEN IF planned'[i].kind = "run" THEN "aborted" ELSE planned'[i].outcome
                         ELSE IF i \in Tasks THEN outcome[i] ELSE "none"
  BY DEF StartTasks
<1>. SUFFICES ASSUME NEW i \in Tasks'
              PROVE  /\ planned'[i].kind = "resolved" =>
                            exec'[i] = "none" /\ outcome'[i] \in {"none", planned'[i].outcome}
                     /\ planned'[i].kind = "run" => outcome'[i] # "placeholder"
  BY DEF DedupOutcomes
<1>2. i \in Tasks =>
        /\ planned'[i].kind = "resolved" =>
              exec[i] = "none" /\ outcome[i] \in {"none", planned'[i].outcome}
        /\ planned'[i].kind = "run" => outcome[i] # "placeholder"
  BY DEF DedupInv, DedupOutcomes
<1>3. CASE planned'[i].kind = "run"
  BY <1>1, <1>2, <1>3
<1>4. CASE planned'[i].kind = "resolved"
  BY <1>1, <1>2, <1>4
<1>. QED
  BY <1>3, <1>4

LEMMA PrepareHookDedup ==
    ASSUME BatchInv, DedupInv, PrepareHook
    PROVE  DedupInv'
<1>1. /\ UNCHANGED <<calls, at, skipping, results, planned, exec, outcome>> /\ Tasks' = Tasks
      /\ stage = "prepare" /\ plan = Plan("none", "none", FALSE)
  BY DEF PrepareHook, execVars, schedulerVars, vars, Tasks, DedupInv, DedupPlans
<1>2. results = << >> /\ DOMAIN results = {}
  BY <1>1 DEF BatchInv, Progress, Preparing
<1>3. calls[at] \in Key \cup {Rejected} /\ Rejected \notin Key
  BY BatchAssumption DEF BatchInv, Progress
<1>4. DedupOutcomes'
  BY <1>1 DEF DedupInv, DedupOutcomes
<1>5. CASE skipping \/ calls[at] = Rejected
  <2>1. /\ stage' = "record" /\ stepDeferreds' = stepDeferreds
        /\ plan' = Plan("resolved", IF skipping THEN "skipped" ELSE "done", FALSE)
    BY <1>5 DEF PrepareHook, Settled
  <2>2. plan'.kind = "resolved" /\ (plan'.outcome = "skipped" <=> skipping)
    BY <2>1 DEF Plan
  <2>3. DedupPlans'
    BY <1>1, <2>1, <2>2 DEF DedupInv, DedupPlans
  <2>4. DedupCurrent'
    BY <1>1, <1>3, <1>5 DEF DedupCurrent
  <2>5. DedupResults'
    BY <1>1, <1>2, <2>1 DEF DedupInv, DedupResults, Preparing
  <2>. QED
    BY <1>4, <2>3, <2>4, <2>5 DEF DedupInv
<1>6. CASE ~(skipping \/ calls[at] = Rejected) /\ calls[at] \in DOMAIN stepDeferreds
  <2>1. /\ stage' = "record" /\ stepDeferreds' = stepDeferreds
        /\ plan' = Plan("resolved", "placeholder", FALSE)
    BY <1>6 DEF PrepareHook, Settled
  <2>2. plan'.kind = "resolved" /\ plan'.outcome = "placeholder"
    BY <2>1 DEF Plan
  <2>3. DedupPlans'
    BY <1>1, <1>6, <2>1, <2>2 DEF DedupInv, DedupPlans
  <2>4. DedupCurrent'
    BY <1>1, <1>6, <2>1, <2>2 DEF DedupCurrent
  <2>5. DedupResults'
    BY <1>1, <1>2, <2>1 DEF DedupInv, DedupResults, Preparing
  <2>. QED
    BY <1>4, <2>3, <2>4, <2>5 DEF DedupInv
<1>7. CASE ~(skipping \/ calls[at] = Rejected) /\ calls[at] \notin DOMAIN stepDeferreds
  <2>1. /\ stepDeferreds' = [k \in DOMAIN stepDeferreds \cup {calls[at]} |->
                               IF k = calls[at] THEN "open" ELSE stepDeferreds[k]]
        /\ stage' = "resolve" /\ plan' = plan
    BY <1>7 DEF PrepareHook
  <2>2. /\ DOMAIN stepDeferreds' = DOMAIN stepDeferreds \cup {calls[at]}
        /\ \A k \in DOMAIN stepDeferreds : stepDeferreds'[k] = stepDeferreds[k]
        /\ stepDeferreds'[calls[at]] = "open"
    BY <1>7, <2>1
  <2>3. \A i \in Tasks : calls[i] # calls[at]
    <3>. SUFFICES ASSUME NEW i \in Tasks, calls[i] = calls[at] PROVE FALSE
      OBVIOUS
    <3>1. calls[i] \in Key /\ planned[i].outcome # "skipped"
      BY <1>3, <1>7 DEF DedupInv, DedupPlans
    <3>. QED
      BY <1>7, <3>1 DEF DedupInv, DedupPlans
  <2>4. plan.kind = "none" /\ plan.outcome = "none"
    BY <1>1 DEF Plan
  <2>5. DedupPlans'
    BY <1>1, <1>3, <1>7, <2>1, <2>2, <2>4 DEF DedupInv, DedupPlans
  <2>6. DedupCurrent'
    BY <1>1, <2>1, <2>2, <2>3 DEF DedupCurrent
  <2>7. DedupResults'
    BY <1>1, <1>2, <2>1, <2>2 DEF DedupInv, DedupResults, Preparing
  <2>. QED
    BY <1>4, <2>5, <2>6, <2>7 DEF DedupInv
<1>. QED
  BY <1>5, <1>6, <1>7

LEMMA PlanDedup ==
    ASSUME BatchInv, DedupInv, ResolveExecution \/ AuthorizeExecution
    PROVE  DedupInv'
<1>1. /\ UNCHANGED <<calls, at, skipping, results, stepDeferreds, planned, exec, outcome>>
      /\ Tasks' = Tasks /\ stage \in {"resolve", "authorize"} /\ ~skipping
      /\ \/ \E o \in {"done", "stop", "aborted"}, stop \in BOOLEAN :
                plan' = Plan("resolved", o, stop) /\ stage' = "record"
         \/ stage' = "authorize" /\ \E stop \in BOOLEAN : plan' = Plan("run", "none", stop)
         \/ stage = "authorize" /\ stage' = "record" /\ plan' = plan
  BY DEF ResolveExecution, AuthorizeExecution, Settled, execVars, drainVars, schedulerVars,
         vars, Tasks, DedupInv, DedupPlans
<1>2. plan.outcome = "none"
  BY <1>1 DEF BatchInv, Planning, DedupInv, DedupPlans, Plan
<1>3. /\ plan'.outcome \in {"none", "done", "stop", "aborted"}
      /\ plan'.kind # "resolved" => plan'.outcome = "none"
  BY <1>1, <1>2 DEF Plan
<1>4. DedupOutcomes' /\ DedupResults'
  BY <1>1 DEF DedupInv, DedupOutcomes, DedupResults, Preparing
<1>5. DedupPlans'
  BY <1>1, <1>3 DEF DedupInv, DedupPlans
<1>6. DedupCurrent'
  BY <1>1, <1>2 DEF DedupInv, DedupCurrent, Preparing
<1>. QED
  BY <1>4, <1>5, <1>6 DEF DedupInv

LEMMA RecordCallDedup ==
    ASSUME DedupInv, RecordCall
    PROVE  DedupInv'
<1>1. /\ UNCHANGED <<calls, at, plan, skipping, results, stepDeferreds, planned, exec, outcome>>
      /\ Tasks' = Tasks /\ stage = "record" /\ stage' \in {"add", "settleAll"}
  BY DEF RecordCall, prepareVars, execVars, schedulerVars, vars, Tasks
<1>2. DedupPlans' /\ DedupCurrent' /\ DedupOutcomes' /\ DedupResults'
  BY <1>1 DEF DedupInv, DedupPlans, DedupCurrent, DedupOutcomes, DedupResults, Preparing
<1>. QED
  BY <1>2 DEF DedupInv

LEMMA AddTaskDedup ==
    ASSUME BatchInv, DedupInv, AddTask
    PROVE  DedupInv'
<1> DEFINE n == Len(accesses) + 1
           acc == IF plan.kind = "run" THEN AccessOf[calls[at]] ELSE None
<1>1. /\ stage = "add" /\ Add(acc) /\ stage' \in {"prepare", "drain"}
      /\ planned' = Append(planned, plan) /\ StartTasks(planned')
      /\ plan' = Plan("none", "none", FALSE) /\ skipping' = (skipping \/ plan.stopBatch)
      /\ calls' = calls /\ results' = results /\ stepDeferreds' = stepDeferreds
  BY DEF AddTask
<1>2. acc \in Access
  BY <1>1, BatchAssumption DEF BatchInv, Planning
<1>3. n \notin Tasks /\ Tasks' = Tasks \cup {n} /\ \A t \in Tasks : t < n /\ t \in Nat
  BY <1>1, <1>2, AddShape, TasksAreIndices DEF BatchInv, IInv
<1>4. /\ n = at /\ results = << >> /\ n \in Nat
      /\ plan.kind \in {"run", "resolved"}
      /\ planned'[n] = plan /\ \A i \in Tasks : planned'[i] = planned[i]
      /\ \A i \in Tasks : planned[i].kind \in {"run", "resolved"}
  <2>1. planned \in Seq(PlansOf({"run", "resolved"})) /\ Len(planned) = Len(accesses)
        /\ Tasks = 1..Len(accesses) /\ Len(accesses) \in Nat
    BY TasksAreIndices DEF BatchInv, IInv, Planning
  <2>2. \A i \in Tasks : planned[i].kind \in {"run", "resolved"}
    BY PlannedKinds
  <2>3. n = at /\ results = << >> /\ plan.kind \in {"run", "resolved"}
    BY <1>1 DEF BatchInv, Progress, Planning, Preparing
  <2>4. planned'[n] = plan /\ \A i \in Tasks : planned'[i] = planned[i]
    BY <1>1, <2>1
  <2>. QED
    BY <2>1, <2>2, <2>3, <2>4
<1>. HIDE DEF n, acc
<1>5. plan.kind = "run" => plan.outcome = "none"
  BY DEF DedupInv, DedupPlans
<1>6. DedupOutcomes'
  <2>1. \A i \in Tasks' : planned'[i].kind \in {"run", "resolved"}
                          /\ (planned'[i].kind = "run" => planned'[i].outcome = "none")
    BY <1>3, <1>4, <1>5 DEF DedupInv, DedupPlans
  <2>. QED
    BY <1>1, <1>3, <1>4, <2>1, StartsKeepDedup
<1>7. /\ plan.outcome = "skipped" <=> skipping
      /\ calls[n] \in Key /\ ~skipping =>
            calls[n] \in DOMAIN stepDeferreds
            /\ (plan.outcome # "placeholder" => \A i \in Tasks : calls[i] # calls[n])
  BY <1>1, <1>4 DEF DedupInv, DedupPlans, DedupCurrent, Preparing
<1>8. \A i \in Tasks' :
        /\ planned'[i].kind = "run" => planned'[i].outcome = "none"
        /\ planned'[i].outcome = "skipped" => skipping'
        /\ calls[i] \in Key /\ planned'[i].outcome # "skipped" => calls[i] \in DOMAIN stepDeferreds
  <2>1. ASSUME NEW i \in Tasks
        PROVE  /\ planned'[i].kind = "run" => planned'[i].outcome = "none"
               /\ planned'[i].outcome = "skipped" => skipping'
               /\ calls[i] \in Key /\ planned'[i].outcome # "skipped" =>
                      calls[i] \in DOMAIN stepDeferreds
    <3>1. planned'[i] = planned[i] /\ (skipping => skipping')
      BY <1>1, <1>4, <2>1, Zenon
    <3>2. /\ planned[i].kind = "run" => planned[i].outcome = "none"
          /\ planned[i].outcome = "skipped" => skipping
          /\ calls[i] \in Key /\ planned[i].outcome # "skipped" =>
                 calls[i] \in DOMAIN stepDeferreds
      BY <2>1 DEF DedupInv, DedupPlans
    <3>. QED
      BY <3>1, <3>2
  <2>2. /\ planned'[n].kind = "run" => planned'[n].outcome = "none"
        /\ planned'[n].outcome = "skipped" => skipping'
        /\ calls[n] \in Key /\ planned'[n].outcome # "skipped" => calls[n] \in DOMAIN stepDeferreds
    BY <1>1, <1>4, <1>5, <1>7
  <2>. QED
    BY <1>3, <2>1, <2>2
<1>9. ASSUME NEW i \in Tasks', NEW j \in Tasks', i < j, planned'[j].outcome # "skipped"
      PROVE  /\ planned'[i].outcome # "skipped"
             /\ calls[i] = calls[j] /\ calls[j] \in Key => planned'[j].outcome = "placeholder"
  <2>1. i \in Tasks
    BY <1>3, <1>4, <1>9
  <2>2. CASE j \in Tasks
    BY <1>4, <1>9, <2>1, <2>2 DEF DedupInv, DedupPlans
  <2>3. CASE j = n
    BY <1>4, <1>7, <1>9, <2>1, <2>3 DEF DedupInv, DedupPlans
  <2>. QED
    BY <1>3, <2>2, <2>3
<1>10. DedupPlans'
  <2>1. plan'.kind # "resolved" => plan'.outcome = "none"
    BY <1>1 DEF Plan
  <2>. QED
    BY <1>1, <1>8, <1>9, <2>1 DEF DedupInv, DedupPlans
<1>11. DedupCurrent'
  BY <1>1 DEF DedupCurrent, Preparing
<1>12. DedupResults'
  BY <1>1, <1>3, <1>4 DEF DedupInv, DedupResults, Preparing
<1>. QED
  BY <1>6, <1>10, <1>11, <1>12 DEF DedupInv

LEMMA FinishTaskDedup ==
    ASSUME BatchInv, DedupInv, NEW t \in Tasks, FinishTask(t)
    PROVE  DedupInv'
<1>1. /\ Finish(t) /\ StartTasks(planned)
      /\ UNCHANGED <<calls, at, plan, skipping, stage, results, stepDeferreds, planned>>
  BY DEF FinishTask, prepareVars, drainVars
<1>2. Tasks' = Tasks
  BY <1>1 DEF Finish, Tasks
<1>3. \A i \in Tasks : planned[i].kind \in {"run", "resolved"}
  BY PlannedKinds
<1>4. DedupOutcomes'
  BY <1>1, <1>2, <1>3, StartsKeepDedup DEF DedupInv, DedupPlans
<1>5. DedupPlans' /\ DedupCurrent' /\ DedupResults'
  BY <1>1, <1>2 DEF DedupInv, DedupPlans, DedupCurrent, DedupResults
<1>. QED
  BY <1>4, <1>5 DEF DedupInv

LEMMA ToolEndsDedup ==
    ASSUME BatchInv, DedupInv, NEW t \in Tasks, ToolReturns(t) \/ GraceExpires(t)
    PROVE  DedupInv'
<1>1. /\ UNCHANGED <<calls, at, plan, skipping, stage, results, stepDeferreds, planned>>
      /\ Tasks' = Tasks /\ exec[t] \in {"running", "abandoned"}
      /\ \E e : exec' = [exec EXCEPT ![t] = e]
      /\ \/ outcome' = outcome
         \/ \E o \in {"done", "stop", "aborted", "grace"} : outcome' = [outcome EXCEPT ![t] = o]
  BY DEF ToolReturns, GraceExpires, prepareVars, drainVars, schedulerVars, vars, Tasks, Running
<1>2. planned[t].kind # "resolved"
  BY <1>1 DEF DedupInv, DedupOutcomes
<1>3. /\ \A i \in Tasks \ {t} : exec'[i] = exec[i] /\ outcome'[i] = outcome[i]
      /\ outcome'[t] = outcome[t] \/ outcome'[t] # "placeholder"
  BY <1>1 DEF BatchInv, Executing
<1>4. DedupOutcomes'
  BY <1>1, <1>2, <1>3 DEF DedupInv, DedupOutcomes
<1>5. DedupPlans' /\ DedupCurrent' /\ DedupResults'
  BY <1>1, ZenonT(60) DEF DedupInv, DedupPlans, DedupCurrent, DedupResults
<1>. QED
  BY <1>4, <1>5 DEF DedupInv

LEMMA LeaveBatchDedup ==
    ASSUME DedupInv, LeaveBatch
    PROVE  DedupInv'
<1>1. /\ UNCHANGED <<calls, at, plan, skipping, results, stepDeferreds, planned, exec, outcome>>
      /\ Tasks' = Tasks /\ stage' \in {"returned", "thrown"}
  BY DEF LeaveBatch, prepareVars, drainVars, execVars, schedulerVars, vars, Tasks
<1>2. DedupPlans' /\ DedupCurrent' /\ DedupOutcomes' /\ DedupResults'
  BY <1>1 DEF DedupInv, DedupPlans, DedupCurrent, DedupOutcomes, DedupResults, Preparing
<1>. QED
  BY <1>2 DEF DedupInv

\* Draining: a placeholder takes the result its original has settled the deferred with;
\* a call with a result of its own finds the deferred of its key open, since the call
\* that had settled it would be an earlier one of the same key.
LEMMA DrainResultDedup ==
    ASSUME BatchInv, DedupInv, DrainResult
    PROVE  DedupInv'
<1>1. /\ UNCHANGED <<schedulerVars, calls, plan, skipping, execVars>>
      /\ stage = "drain" /\ result[at] # "pending"
      /\ planned' = planned /\ exec' = exec /\ outcome' = outcome /\ Tasks' = Tasks
  BY DEF DrainResult, execVars, schedulerVars, vars, Tasks
<1>2. PICK r \in Finalized(at) :
        /\ stepDeferreds' = [k \in DOMAIN stepDeferreds |->
                IF k = calls[at] /\ stepDeferreds[k] = "open" THEN r
                ELSE stepDeferreds[k]]
        /\ \/ /\ results' = Append(results, r)
              /\ stage' \in {"drain", "settleAll"}
           \/ results' = results /\ stage' = "settleAll"
  BY <1>1 DEF DrainResult
<1>3. /\ Tasks = 1..Len(accesses) /\ at \in Tasks /\ at \in Nat /\ at >= 1
      /\ Len(results) = at - 1 /\ results \in Seq(Outcomes)
      /\ DOMAIN results = 1..(at - 1) /\ Len(accesses) \in Nat
  BY <1>1, TasksAreIndices DEF BatchInv, IInv, Progress
<1>4. r \in Outcomes /\ "open" \notin Outcomes
  BY <1>1, <1>2, <1>3, FinalizedType DEF BatchInv, Outcomes
<1>5. /\ DOMAIN stepDeferreds' = DOMAIN stepDeferreds
      /\ \A k \in DOMAIN stepDeferreds : stepDeferreds[k] # "open" =>
            stepDeferreds'[k] = stepDeferreds[k]
      /\ \A k \in DOMAIN stepDeferreds : k # calls[at] => stepDeferreds'[k] = stepDeferreds[k]
      /\ calls[at] \in DOMAIN stepDeferreds /\ stepDeferreds[calls[at]] = "open" =>
            stepDeferreds'[calls[at]] = r
  BY <1>2
<1>6. DedupPlans' /\ DedupCurrent' /\ DedupOutcomes'
  BY <1>1, <1>2, <1>5 DEF DedupInv, DedupPlans, DedupCurrent, DedupOutcomes, Preparing
<1>7. \A i \in DOMAIN results : calls[i] \in Key /\ planned[i].outcome # "skipped" =>
        stepDeferreds'[calls[i]] = results[i]
  <2>. SUFFICES ASSUME NEW i \in DOMAIN results, calls[i] \in Key, planned[i].outcome # "skipped"
                PROVE  stepDeferreds'[calls[i]] = results[i]
    OBVIOUS
  <2>1. stepDeferreds[calls[i]] = results[i] /\ calls[i] \in DOMAIN stepDeferreds
    BY <1>3 DEF DedupInv, DedupResults, DedupPlans
  <2>2. results[i] # "open"
    BY <1>3, <1>4
  <2>. QED
    BY <1>5, <2>1, <2>2
<1>8. calls[at] \in Key /\ planned[at].outcome # "skipped" => stepDeferreds'[calls[at]] = r
  <2>. SUFFICES ASSUME calls[at] \in Key, planned[at].outcome # "skipped"
                PROVE  stepDeferreds'[calls[at]] = r
    OBVIOUS
  <2>1. calls[at] \in DOMAIN stepDeferreds
    BY <1>3 DEF DedupInv, DedupPlans
  <2>2. planned[at].kind \in {"run", "resolved"}
    BY <1>3, PlannedKinds
  <2>3. outcome[at] = "placeholder" <=> planned[at].outcome = "placeholder"
    BY <1>1, <1>3, <2>2 DEF BatchInv, Executing, DedupInv, DedupOutcomes, DedupPlans
  <2>4. CASE outcome[at] = "placeholder"
    <3>1. r = stepDeferreds[calls[at]] /\ r # "open"
      BY <1>2, <2>4 DEF Finalized
    <3>. QED
      BY <1>5, <2>1, <3>1
  <2>5. CASE outcome[at] # "placeholder"
    <3>1. stepDeferreds[calls[at]] = "open"
      <4>. SUFFICES ASSUME stepDeferreds[calls[at]] # "open" PROVE FALSE
        OBVIOUS
      <4>1. PICK i \in DOMAIN results : calls[i] = calls[at]
        BY <1>1, <2>1 DEF DedupInv, DedupResults, Preparing
      <4>2. i \in Tasks /\ i < at
        BY <1>3, <4>1 DEF DedupInv, DedupResults
      <4>. QED
        BY <1>3, <2>3, <2>5, <4>1, <4>2 DEF DedupInv, DedupPlans
    <3>. QED
      BY <1>5, <2>1, <3>1
  <2>. QED
    BY <2>4, <2>5
<1>9. CASE results' = Append(results, r) /\ stage' \in {"drain", "settleAll"}
  <2>1. /\ DOMAIN results' = DOMAIN results \cup {at} /\ results'[at] = r
        /\ \A i \in DOMAIN results : results'[i] = results[i]
    BY <1>3, <1>4, <1>9
  <2>2. ASSUME NEW k \in DOMAIN stepDeferreds', stepDeferreds'[k] # "open"
        PROVE  \E i \in DOMAIN results' : calls[i] = k
    <3>1. CASE k = calls[at]
      BY <2>1, <3>1
    <3>2. CASE k # calls[at]
      BY <1>1, <1>5, <2>1, <2>2, <3>2 DEF DedupInv, DedupResults, Preparing
    <3>. QED
      BY <3>1, <3>2
  <2>3. DedupResults'
    BY <1>1, <1>3, <1>7, <1>8, <2>1, <2>2 DEF DedupInv, DedupResults
  <2>. QED
    BY <1>6, <2>3 DEF DedupInv
<1>10. CASE results' = results /\ stage' = "settleAll"
  <2>1. DedupResults'
    BY <1>1, <1>7, <1>10 DEF DedupInv, DedupResults, Preparing
  <2>. QED
    BY <1>6, <2>1 DEF DedupInv
<1>. QED
  BY <1>2, <1>9, <1>10

\* A repeated call of a step is not executed, and shows the result of its original.
THEOREM DuplicatesAgree == BatchBehavior => []DuplicatesShareResult
<1>1. BatchInv /\ DedupInv /\ [BatchNext]_batchVars => DedupInv'
  <2>. SUFFICES ASSUME BatchInv, DedupInv, [BatchNext]_batchVars
                PROVE  DedupInv'
    OBVIOUS
  <2>1. CASE BatchStep
    BY <2>1, PrepareHookDedup, PlanDedup, RecordCallDedup, AddTaskDedup, DrainResultDedup,
       LeaveBatchDedup DEF BatchStep
  <2>2. CASE Abort
    <3>1. Tasks' = Tasks /\ UNCHANGED <<calls, at, plan, skipping, stage, results,
                                        stepDeferreds, planned, exec, outcome>>
      BY <2>2 DEF Abort, prepareVars, drainVars, execVars, schedulerVars, vars, Tasks
    <3>. QED
      BY <3>1, DedupIdle
  <2>3. ASSUME NEW t \in Tasks, SettleTask(t)
        PROVE  DedupInv'
    <3>1. Tasks' = Tasks /\ UNCHANGED <<calls, at, plan, skipping, stage, results,
                                        stepDeferreds, planned, exec, outcome>>
      BY <2>3 DEF SettleTask, Settle, prepareVars, drainVars, execVars, Tasks
    <3>. QED
      BY <3>1, DedupIdle
  <2>4. ASSUME NEW t \in Tasks, ToolReturns(t) \/ GraceExpires(t) \/ FinishTask(t)
        PROVE  DedupInv'
    BY <2>4, ToolEndsDedup, FinishTaskDedup
  <2>5. CASE UNCHANGED batchVars
    <3>1. Tasks' = Tasks /\ UNCHANGED <<calls, at, plan, skipping, stage, results,
                                        stepDeferreds, planned, exec, outcome>>
      BY <2>5 DEF batchVars, prepareVars, drainVars, execVars, schedulerVars, vars, Tasks
    <3>. QED
      BY <3>1, DedupIdle
  <2>. QED
    BY <2>1, <2>2, <2>3, <2>4, <2>5 DEF BatchNext
<1>2. BatchInv /\ DedupInv => DuplicatesShareResult
  <2>. SUFFICES ASSUME BatchInv, DedupInv, NEW i \in DOMAIN results, NEW j \in DOMAIN results,
                       i < j, calls[i] = calls[j], planned[j].outcome = "placeholder"
                PROVE  results[j] = results[i] /\ exec[j] = "none"
    BY DEF DuplicatesShareResult
  <2>1. i \in Tasks /\ j \in Tasks
    BY DEF DedupInv, DedupResults
  <2>2. planned[j].kind = "resolved"
    <3>1. planned[j].kind \in {"run", "resolved"}
      BY <2>1, PlannedKinds
    <3>. QED
      BY <2>1, <3>1 DEF DedupInv, DedupPlans
  <2>3. calls[j] \in Key
    BY <2>1 DEF BatchInv, Planning, DedupInv, DedupPlans
  <2>4. planned[i].outcome # "skipped"
    BY <2>1 DEF DedupInv, DedupPlans
  <2>. QED
    BY <2>1, <2>2, <2>3, <2>4 DEF DedupInv, DedupResults, DedupOutcomes
<1>. QED
  BY <1>1, <1>2, InitDedup, BatchInductiveInvariant, PTL DEF BatchBehavior

\* The state of the batch is well typed: where the loops are, what was planned, what runs,
\* and as many results at most as calls were recorded.
THEOREM BatchTypeCorrect == BatchBehavior => []BatchTypeOK
<1>1. BatchInv => BatchTypeOK
  BY DEF BatchInv, IInv, Progress, Planning, Executing, PlansOf, Stages, Preparing, BatchTypeOK
<1>. QED
  BY <1>1, BatchInductiveInvariant, PTL
=============================================================================
