--------------------------- MODULE Subagents_proofs ---------------------------
(***************************************************************************)
(* Subagents, the batch that launches them and the host that runs them.    *)
(*                                                                         *)
(* For any number of tasks, any limits and intervals and any answers of    *)
(* the provider: a task of a running batch is queued once, in one attempt, *)
(* or finished, a batch with work left never waits without a timer or an   *)
(* attempt to wake it, no child outlives its batch without being told to   *)
(* stop, and the batch implements TaskPool.                                *)
(*                                                                         *)
(* For any set of children, calls and signals: the turn a run waits for is *)
(* the one it launched, no turn outlives the run that launched it except   *)
(* that of an explorer stopped while its git context was collected, and a  *)
(* stored agent is loaded once.                                            *)
(***************************************************************************)
EXTENDS SubagentBatch, SubagentHost, FiniteSetTheorems, TLAPS

-----------------------------------------------------------------------------
(* THE BATCH *)

Phases == {"created", "running", "resolved", "rejected"}

TaskRecord == [agent : BOOLEAN, started : BOOLEAN, retryCount : Nat, readyIn : Nat]

BatchRecord ==
    [phase : Phases, pending : Seq(Tasks), active : SUBSET Tasks,
     results : [Tasks -> Results \cup {NoResult}], task : [Tasks -> TaskRecord],
     normalLaunchCount : Nat, normalTimer : Nat \cup {NoTimer},
     wakeTimer : Nat \cup {NoTimer}, rateLimitMode : BOOLEAN,
     startedSuccessCount : Nat, capacity : Nat, interval : Nat, launchIn : Nat,
     recoverIn : Nat, shrinkIn : Nat]

AttemptRecord ==
    [pc : {"none", "launching", "running", "ended"}, ready : BOOLEAN, aborted : BOOLEAN]

Queued(b) == {b.pending[i] : i \in DOMAIN b.pending}

Distinct(s) == \A i, j \in DOMAIN s : s[i] = s[j] => i = j

\* The queue holds no task twice and none that is in an attempt; a task has no result as
\* long as it is in one of them.
Placed(b) ==
    /\ Distinct(b.pending)
    /\ Queued(b) \cap b.active = {}
    /\ \A t \in Tasks : t \in Queued(b) \cup b.active <=> b.results[t] = NoResult

Sane(b) == b \in BatchRecord /\ Placed(b)

-----------------------------------------------------------------------------
(* Minima and queues *)

LEMMA LeastExists ==
    ASSUME NEW S \in SUBSET Nat, S # {}
    PROVE  Least(S) \in S /\ \A y \in S : Least(S) <= y
<1>1. PICK x \in S : \A y \in S : ~(<<y, x>> \in OpToRel(<, Nat))
  BY NatLessThanWellFounded, WFMin
<1>2. \A y \in S : ~(y < x)
  BY <1>1 DEF OpToRel
<1>3. \A y \in S : x <= y
  BY <1>2
<1>. QED
  BY <1>3 DEF Least

LEMMA LeastOfTwo ==
    ASSUME NEW m \in Nat, NEW n \in Nat
    PROVE  Least({m, n}) \in Nat /\ Least({m, n}) <= m /\ Least({m, n}) <= n
           /\ (Least({m, n}) = m \/ Least({m, n}) = n)
BY LeastExists

LEMMA MostOfTwo ==
    ASSUME NEW m \in Nat, NEW n \in Nat
    PROVE  Most(m, n) \in Nat /\ m <= Most(m, n) /\ n <= Most(m, n)
BY DEF Most

\* What is left of a queue from some place on.
LEMMA Rest ==
    ASSUME NEW s \in Seq(Tasks), Distinct(s), NEW n \in 0..Len(s)
    PROVE  LET rest == SubSeq(s, n + 1, Len(s))
           IN  /\ rest \in Seq(Tasks) /\ Distinct(rest)
               /\ {rest[i] : i \in DOMAIN rest}
                    = {s[i] : i \in DOMAIN s} \ {s[i] : i \in 1..n}
               /\ {s[i] : i \in 1..n} \subseteq {s[i] : i \in DOMAIN s}
<1> DEFINE rest == SubSeq(s, n + 1, Len(s))
<1>1. /\ rest \in Seq(Tasks) /\ DOMAIN rest = 1..(Len(s) - n) /\ DOMAIN s = 1..Len(s)
      /\ Len(s) \in Nat /\ \A i \in DOMAIN rest : rest[i] = s[n + i]
  OBVIOUS
<1>. HIDE DEF rest
<1>2. Distinct(rest)
  BY <1>1 DEF Distinct
<1>3. ASSUME NEW t \in {s[i] : i \in DOMAIN s} \ {s[i] : i \in 1..n}
      PROVE  t \in {rest[i] : i \in DOMAIN rest}
  <2>1. PICK i \in DOMAIN s : t = s[i] /\ i \notin 1..n
    BY <1>1, <1>3
  <2>2. i - n \in DOMAIN rest /\ rest[i - n] = s[i]
    BY <1>1, <2>1
  <2>. QED
    BY <2>1, <2>2
<1>4. ASSUME NEW i \in DOMAIN rest
      PROVE  rest[i] \in {s[j] : j \in DOMAIN s} \ {s[j] : j \in 1..n}
  <2>1. n + i \in DOMAIN s /\ n + i \notin 1..n /\ rest[i] = s[n + i]
    BY <1>1, <1>4
  <2>2. \A j \in 1..n : j \in DOMAIN s /\ s[j] # s[n + i]
    BY <1>1, <2>1 DEF Distinct
  <2>. QED
    BY <2>1, <2>2
<1>5. {s[i] : i \in 1..n} \subseteq {s[i] : i \in DOMAIN s}
  BY <1>1
<1>6. {rest[i] : i \in DOMAIN rest} = {s[i] : i \in DOMAIN s} \ {s[i] : i \in 1..n}
  BY <1>3, <1>4
<1>. QED
  BY <1>1, <1>2, <1>5, <1>6 DEF rest

LEMMA Removed ==
    ASSUME NEW s \in Seq(Tasks), Distinct(s), NEW n \in DOMAIN s
    PROVE  LET rest == RemoveAt(s, n)
           IN  /\ rest \in Seq(Tasks) /\ Distinct(rest)
               /\ {rest[i] : i \in DOMAIN rest} = {s[i] : i \in DOMAIN s} \ {s[n]}
<1> DEFINE rest == RemoveAt(s, n)
           low == SubSeq(s, 1, n - 1)
           high == SubSeq(s, n + 1, Len(s))
           at(i) == IF i < n THEN i ELSE i + 1
<1>1. /\ DOMAIN s = 1..Len(s) /\ Len(s) \in Nat
      /\ low \in Seq(Tasks) /\ Len(low) = n - 1 /\ \A i \in 1..(n - 1) : low[i] = s[i]
      /\ high \in Seq(Tasks) /\ Len(high) = Len(s) - n
      /\ \A i \in 1..(Len(s) - n) : high[i] = s[n + i]
  OBVIOUS
<1>2. rest = low \o high
  BY DEF RemoveAt
<1>. HIDE DEF low, high, rest
<1>3. /\ rest \in Seq(Tasks) /\ DOMAIN rest = 1..(Len(s) - 1)
      /\ \A i \in 1..(Len(s) - 1) : rest[i] = s[at(i)]
  <2>1. rest \in Seq(Tasks) /\ Len(rest) = Len(s) - 1
    <3>1. Len(rest) = Len(low) + Len(high) /\ rest \in Seq(Tasks)
      <4>1. low \in Seq(Tasks) /\ high \in Seq(Tasks)
        BY <1>1
      <4>. QED
        BY <1>2, <4>1
    <3>. QED
      BY <1>1, <3>1
  <2>2. ASSUME NEW i \in 1..(Len(s) - 1)
        PROVE  rest[i] = s[at(i)]
    <3>1. CASE i < n
      BY <1>1, <1>2, <3>1
    <3>2. CASE ~(i < n)
      <4>1. rest[i] = high[i - (n - 1)] /\ i - (n - 1) \in 1..(Len(s) - n)
        BY <1>1, <1>2, <3>2, SMTT(30)
      <4>2. high[i - (n - 1)] = s[n + (i - (n - 1))] /\ n + (i - (n - 1)) = i + 1
        BY <1>1, <4>1
      <4>. QED
        BY <3>2, <4>1, <4>2
    <3>. QED
      BY <3>1, <3>2
  <2>. QED
    BY <1>1, <2>1, <2>2
<1>4. \A i \in DOMAIN rest : at(i) \in DOMAIN s \ {n}
  BY <1>1, <1>3
<1>5. \A i, j \in DOMAIN rest : at(i) = at(j) => i = j
  BY <1>1, <1>3, SMTT(30)
<1>6. \A k \in DOMAIN s \ {n} : \E i \in DOMAIN rest : at(i) = k
  <2> SUFFICES ASSUME NEW k \in DOMAIN s, k # n
               PROVE  \E i \in DOMAIN rest : at(i) = k
    OBVIOUS
  <2>1. CASE k < n
    BY <1>1, <1>3, <2>1
  <2>2. CASE k > n
    <3>1. k - 1 \in DOMAIN rest /\ at(k - 1) = k
      BY <1>1, <1>3, <2>2
    <3>. QED
      BY <3>1
  <2>. QED
    BY <1>1, <2>1, <2>2
<1>. HIDE DEF at
<1>7. Distinct(rest)
  BY <1>3, <1>4, <1>5 DEF Distinct
<1>8. {rest[i] : i \in DOMAIN rest} = {s[i] : i \in DOMAIN s} \ {s[n]}
  <2>1. \A i \in DOMAIN rest : rest[i] \in {s[k] : k \in DOMAIN s} \ {s[n]}
    BY <1>3, <1>4 DEF Distinct
  <2>2. ASSUME NEW k \in DOMAIN s, s[k] # s[n]
        PROVE  s[k] \in {rest[i] : i \in DOMAIN rest}
    BY <1>3, <1>6, <2>2
  <2>. QED
    BY <2>1, <2>2
<1>. QED
  BY <1>3, <1>7, <1>8 DEF rest

-----------------------------------------------------------------------------
(* Scheduling *)

\* What scheduling may do to a batch: tasks move from the queue into attempts, in
\* rate-limit mode only those whose retry is due.
Launches(b, c) ==
    /\ Sane(c)
    /\ c.phase = b.phase /\ c.results = b.results /\ c.task = b.task
    /\ b.active \subseteq c.active
    /\ \A t \in c.active \ b.active :
        t \in Queued(b) /\ (b.rateLimitMode => b.task[t].readyIn = 0)

LEMMA NormalLaunches ==
    ASSUME NEW b, Sane(b), ~b.rateLimitMode
    PROVE  Launches(b, ScheduleNormalLaunch(b))
<1> DEFINE room == IF b.normalLaunchCount < InitialLaunchLimit
                   THEN InitialLaunchLimit - b.normalLaunchCount ELSE 0
           n    == Least({room, Len(b.pending)})
           rest == SubSeq(b.pending, n + 1, Len(b.pending))
           head == {b.pending[i] : i \in 1..n}
           timer == IF rest # << >> /\ b.normalTimer = NoTimer
                    THEN InitialLaunchInterval ELSE b.normalTimer
           c == [b EXCEPT !.pending = rest, !.active = b.active \cup head,
                          !.normalLaunchCount = b.normalLaunchCount + n,
                          !.normalTimer = timer]
<1>1. ScheduleNormalLaunch(b) = c
  BY DEF ScheduleNormalLaunch
<1>2. /\ b \in BatchRecord /\ b.pending \in Seq(Tasks) /\ Distinct(b.pending)
      /\ b.normalLaunchCount \in Nat /\ b.normalTimer \in Nat \cup {NoTimer}
      /\ b.active \subseteq Tasks /\ Len(b.pending) \in Nat
  BY DEF Sane, Placed, BatchRecord
<1>3. n \in Nat /\ n \in 0..Len(b.pending)
  <2>1. room \in Nat
    BY <1>2, BatchAssumption
  <2>. HIDE DEF room
  <2>. QED
    BY <1>2, <2>1, LeastOfTwo
<1>4. timer \in Nat \cup {NoTimer}
  BY <1>2, BatchAssumption
<1>. HIDE DEF n, timer
<1>5. /\ rest \in Seq(Tasks) /\ Distinct(rest)
      /\ {rest[i] : i \in DOMAIN rest} = Queued(b) \ head
      /\ head \subseteq Queued(b)
  BY <1>2, <1>3, Rest DEF Queued
<1>6. Queued(b) \subseteq Tasks
  BY <1>2 DEF Queued
<1>. HIDE DEF rest, head
<1>7. c \in BatchRecord
  <2>1. b.active \cup head \in SUBSET Tasks /\ b.normalLaunchCount + n \in Nat
    BY <1>2, <1>3, <1>5, <1>6
  <2>. QED
    BY <1>2, <1>4, <1>5, <2>1 DEF BatchRecord
<1>8. /\ c.pending = rest /\ c.active = b.active \cup head /\ c.phase = b.phase
      /\ c.results = b.results /\ c.task = b.task
  BY <1>2 DEF BatchRecord
<1>. HIDE DEF c
<1>9. Queued(c) = Queued(b) \ head
  BY <1>5, <1>8 DEF Queued
<1>10. Placed(c)
  <2>1. Queued(c) \cap c.active = {}
    BY <1>8, <1>9 DEF Sane, Placed
  <2>2. Queued(c) \cup c.active = Queued(b) \cup b.active
    BY <1>5, <1>8, <1>9
  <2>. QED
    BY <1>5, <1>8, <2>1, <2>2 DEF Sane, Placed
<1>. QED
  BY <1>1, <1>5, <1>7, <1>8, <1>10 DEF Launches, Sane

\* The wake-up time is a time, and it is now only when a retry is due, or a recovery.
LEMMA WakeupTyped ==
    ASSUME NEW b \in BatchRecord, b.pending # << >>
    PROVE  /\ NextWakeup(b) \in Nat
           /\ NextWakeup(b) = 0 /\ b.recoverIn # 0 =>
                \E i \in DOMAIN b.pending : b.task[b.pending[i]].readyIn = 0
<1> DEFINE times == {b.task[b.pending[i]].readyIn : i \in DOMAIN b.pending}
<1>1. /\ b.pending \in Seq(Tasks) /\ b.task \in [Tasks -> TaskRecord]
      /\ b.launchIn \in Nat /\ b.recoverIn \in Nat
  BY DEF BatchRecord
<1>2. times \in SUBSET Nat
  BY <1>1 DEF TaskRecord
<1>3. times # {}
  <2>1. 1 \in DOMAIN b.pending
    BY <1>1
  <2>. QED
    BY <2>1
<1>4. NextPendingReady(b) \in times
  BY <1>2, <1>3, LeastExists DEF NextPendingReady
<1>5. Most(b.launchIn, NextPendingReady(b)) \in Nat
      /\ NextPendingReady(b) <= Most(b.launchIn, NextPendingReady(b))
  BY <1>1, <1>2, <1>4, MostOfTwo
<1>6. /\ NextWakeup(b) \in Nat
      /\ \/ NextWakeup(b) = Most(b.launchIn, NextPendingReady(b))
         \/ NextWakeup(b) = b.recoverIn
  BY <1>1, <1>5, LeastOfTwo DEF NextWakeup
<1>7. NextWakeup(b) = 0 /\ b.recoverIn # 0 => NextPendingReady(b) = 0
  <2>1. NextPendingReady(b) \in Nat
    BY <1>2, <1>4
  <2>. QED
    BY <1>5, <1>6, <2>1
<1>. QED
  BY <1>4, <1>6, <1>7

LEMMA EligibleIsQueued ==
    ASSUME NEW b \in BatchRecord,
           \E i \in DOMAIN b.pending : b.task[b.pending[i]].readyIn = 0
    PROVE  /\ FirstEligible(b) \in DOMAIN b.pending
           /\ b.task[b.pending[FirstEligible(b)]].readyIn = 0
<1> DEFINE due == {i \in DOMAIN b.pending : b.task[b.pending[i]].readyIn = 0}
<1>1. due \in SUBSET Nat /\ due # {}
  <2>1. b.pending \in Seq(Tasks)
    BY DEF BatchRecord
  <2>. QED
    BY <2>1
<1>. QED
  BY <1>1, LeastExists DEF FirstEligible

LEMMA StartLaunches ==
    ASSUME NEW b, Sane(b),
           \E i \in DOMAIN b.pending : b.task[b.pending[i]].readyIn = 0
    PROVE  Launches(b, StartFirstEligible(b))
<1> DEFINE n == FirstEligible(b)
           t == b.pending[n]
           rest == RemoveAt(b.pending, n)
           c == [b EXCEPT !.pending = rest, !.active = b.active \cup {t},
                          !.launchIn = b.interval]
<1>1. StartFirstEligible(b) = c
  BY DEF StartFirstEligible
<1>2. /\ b \in BatchRecord /\ b.pending \in Seq(Tasks) /\ Distinct(b.pending)
      /\ b.active \subseteq Tasks /\ b.interval \in Nat
  BY DEF Sane, Placed, BatchRecord
<1>3. n \in DOMAIN b.pending /\ t \in Tasks /\ t \in Queued(b) /\ b.task[t].readyIn = 0
  <2>1. n \in DOMAIN b.pending /\ b.task[b.pending[n]].readyIn = 0
    BY <1>2, EligibleIsQueued
  <2>. QED
    BY <1>2, <2>1 DEF Queued
<1>. HIDE DEF n
<1>4. /\ rest \in Seq(Tasks) /\ Distinct(rest)
      /\ {rest[i] : i \in DOMAIN rest} = Queued(b) \ {t}
  BY <1>2, <1>3, Removed DEF Queued
<1>. HIDE DEF rest, t
<1>5. c \in BatchRecord
  <2>1. b.active \cup {t} \in SUBSET Tasks
    BY <1>2, <1>3
  <2>. QED
    BY <1>2, <1>4, <2>1 DEF BatchRecord
<1>6. /\ c.pending = rest /\ c.active = b.active \cup {t} /\ c.phase = b.phase
      /\ c.results = b.results /\ c.task = b.task
  BY <1>2 DEF BatchRecord
<1>. HIDE DEF c
<1>7. Queued(c) = Queued(b) \ {t}
  BY <1>4, <1>6 DEF Queued
<1>8. Placed(c)
  <2>1. Queued(c) \cap c.active = {}
    BY <1>6, <1>7 DEF Sane, Placed
  <2>2. Queued(c) \cup c.active = Queued(b) \cup b.active
    BY <1>3, <1>6, <1>7
  <2>. QED
    BY <1>4, <1>6, <2>1, <2>2 DEF Sane, Placed
<1>. QED
  BY <1>1, <1>3, <1>5, <1>6, <1>8 DEF Launches, Sane

\* Setting a timer, or recovering capacity, moves no task.
LEMMA SetWakeTimer ==
    ASSUME NEW b, Sane(b), NEW timer \in Nat \cup {NoTimer}
    PROVE  LET c == [b EXCEPT !.wakeTimer = timer]
           IN  /\ Launches(b, c) /\ c.pending = b.pending
               /\ c.rateLimitMode = b.rateLimitMode /\ c.active = b.active
<1> DEFINE c == [b EXCEPT !.wakeTimer = timer]
<1>1. /\ c \in BatchRecord /\ c.pending = b.pending /\ c.active = b.active
      /\ c.phase = b.phase /\ c.results = b.results /\ c.task = b.task
      /\ c.rateLimitMode = b.rateLimitMode
  BY DEF Sane, BatchRecord
<1>. QED
  BY <1>1 DEF Launches, Sane, Placed, Queued

LEMMA RecoverKeeps ==
    ASSUME NEW b, Sane(b)
    PROVE  /\ Launches(b, Recover(b)) /\ Recover(b).pending = b.pending
           /\ Recover(b).rateLimitMode = b.rateLimitMode /\ Recover(b).active = b.active
           /\ Recover(b).recoverIn # 0
<1>1. b \in BatchRecord /\ b.capacity \in Nat /\ b.recoverIn \in Nat
  BY DEF Sane, BatchRecord
<1>2. CASE b.recoverIn > 0
  BY <1>1, <1>2 DEF Recover, Launches
<1>3. CASE ~(b.recoverIn > 0)
  <2> DEFINE c == [b EXCEPT !.capacity = b.capacity + 1,
                            !.recoverIn = CapacityRecoveryInterval, !.launchIn = 0]
  <2>1. Recover(b) = c
    BY <1>3 DEF Recover
  <2>2. /\ c \in BatchRecord /\ c.pending = b.pending /\ c.active = b.active
        /\ c.phase = b.phase /\ c.results = b.results /\ c.task = b.task
        /\ c.rateLimitMode = b.rateLimitMode /\ c.recoverIn = CapacityRecoveryInterval
    <3>1. b.capacity + 1 \in Nat /\ CapacityRecoveryInterval \in Nat /\ 0 \in Nat
      BY <1>1, BatchAssumption
    <3>. QED
      BY <1>1, <3>1 DEF BatchRecord
  <2>. HIDE DEF c
  <2>. QED
    BY <2>1, <2>2, BatchAssumption DEF Launches, Sane, Placed, Queued
<1>. QED
  BY <1>2, <1>3

LEMMA WakeupLaunches ==
    ASSUME NEW b, Sane(b)
    PROVE  Launches(b, ScheduleWakeup(b))
<1>1. CASE b.pending = << >>
  BY <1>1 DEF ScheduleWakeup, Launches
<1>2. CASE b.pending # << >>
  <2> DEFINE timer == IF HasCapacity(b) THEN NextWakeup(b) ELSE b.recoverIn
  <2>1. timer \in Nat
    BY <1>2, WakeupTyped DEF Sane, BatchRecord
  <2>2. ScheduleWakeup(b) = [b EXCEPT !.wakeTimer = timer]
    BY <1>2 DEF ScheduleWakeup
  <2>. HIDE DEF timer
  <2>. QED
    BY <2>1, <2>2, SetWakeTimer
<1>. QED
  BY <1>1, <1>2

LEMMA RateLimitLaunches ==
    ASSUME NEW b, Sane(b)
    PROVE  Launches(b, ScheduleRateLimitLaunch(b))
<1> DEFINE quiet == [b EXCEPT !.wakeTimer = NoTimer]
           grown == IF b.pending = << >> THEN quiet ELSE Recover(quiet)
<1>1. /\ Launches(b, quiet) /\ quiet.pending = b.pending /\ quiet.active = b.active
      /\ quiet.rateLimitMode = b.rateLimitMode
  BY SetWakeTimer
<1>. HIDE DEF quiet
<1>2. /\ Launches(b, grown) /\ grown.pending = b.pending /\ grown.active = b.active
      /\ grown.rateLimitMode = b.rateLimitMode
      /\ b.pending # << >> => grown.recoverIn # 0
  <2>1. CASE b.pending = << >>
    BY <1>1, <2>1
  <2>2. CASE b.pending # << >>
    <3>1. grown = Recover(quiet) /\ Sane(quiet)
      BY <1>1, <2>2 DEF Launches
    <3>2. /\ Launches(quiet, grown) /\ grown.pending = quiet.pending
          /\ grown.active = quiet.active /\ grown.rateLimitMode = quiet.rateLimitMode
          /\ grown.recoverIn # 0
      BY <3>1, RecoverKeeps
    <3>. HIDE DEF grown
    <3>. QED
      BY <1>1, <3>2 DEF Launches
  <2>. QED
    BY <2>1, <2>2
<1>3. ScheduleRateLimitLaunch(b)
        = IF grown.pending # << >> /\ HasCapacity(grown) /\ NextWakeup(grown) = 0
          THEN ScheduleWakeup(StartFirstEligible(grown)) ELSE ScheduleWakeup(grown)
  BY DEF ScheduleRateLimitLaunch, quiet
<1>. HIDE DEF grown
<1>4. CASE grown.pending # << >> /\ NextWakeup(grown) = 0
  <2> DEFINE c == StartFirstEligible(grown)
             d == ScheduleWakeup(c)
  <2>1. Launches(grown, c)
    BY <1>2, <1>4, WakeupTyped, StartLaunches DEF Launches, Sane
  <2>. HIDE DEF c
  <2>2. Launches(c, d) /\ d.active = c.active
    <3>1. Launches(c, d)
      BY <2>1, WakeupLaunches DEF Launches
    <3>2. d.active = c.active
      BY <2>1 DEF ScheduleWakeup, Launches, Sane, BatchRecord
    <3>. QED
      BY <3>1, <3>2
  <2>. HIDE DEF d
  <2>3. Launches(b, d)
    BY <1>2, <2>1, <2>2 DEF Launches, Queued
  <2>4. Launches(b, ScheduleWakeup(grown))
    <3>1. Launches(grown, ScheduleWakeup(grown))
      BY <1>2, WakeupLaunches DEF Launches
    <3>. QED
      BY <1>2, <3>1 DEF Launches, Queued
  <2>. QED
    BY <1>3, <2>3, <2>4 DEF d, c
<1>5. CASE ~(grown.pending # << >> /\ NextWakeup(grown) = 0)
  <2>1. Launches(grown, ScheduleWakeup(grown))
    BY <1>2, WakeupLaunches DEF Launches
  <2>. QED
    BY <1>2, <1>3, <1>5, <2>1 DEF Launches, Queued
<1>. QED
  BY <1>4, <1>5

LEMMA NewBatchTyped ==
    /\ NewBatch \in BatchRecord
    /\ NewBatch.phase = "created" /\ NewBatch.active = {}
    /\ NewBatch.pending = [i \in Tasks |-> i]
    /\ NewBatch.results = [t \in Tasks |-> NoResult]
    /\ NewBatch.normalTimer = NoTimer /\ NewBatch.wakeTimer = NoTimer
    /\ \A t \in Tasks : NewBatch.task[t].retryCount = 0
<1>1. NewTask \in TaskRecord /\ NewTask.retryCount = 0
  BY DEF NewTask, TaskRecord
<1>2. /\ [t \in Tasks |-> NewTask] \in [Tasks -> TaskRecord]
      /\ [i \in Tasks |-> i] \in Seq(Tasks)
      /\ [t \in Tasks |-> NoResult] \in [Tasks -> Results \cup {NoResult}]
      /\ {} \in SUBSET Tasks /\ NoTimer \in Nat \cup {NoTimer}
  <2>1. Tasks = 1..TaskCount /\ TaskCount \in Nat
    BY BatchAssumption DEF Tasks
  <2>. QED
    BY <1>1, <2>1
<1>3. RetryBase \in Nat /\ 0 \in Nat /\ 1 \in Nat
  BY BatchAssumption
<1>4. NewBatch \in BatchRecord
  BY <1>2, <1>3 DEF NewBatch, BatchRecord, Phases
<1>. QED
  BY <1>1, <1>4 DEF NewBatch

LEMMA EndTyped ==
    ASSUME NEW b \in BatchRecord, NEW phase \in Phases
    PROVE  LET c == End(b, phase)
           IN  /\ c \in BatchRecord /\ c.phase = phase /\ c.active = {} /\ c.results = b.results
               /\ c.pending = << >> /\ c.normalTimer = NoTimer /\ c.wakeTimer = NoTimer
               /\ \A t \in Tasks : c.task[t].retryCount = 0
<1>1. End(b, phase) = [NewBatch EXCEPT !.phase = phase, !.pending = << >>, !.results = b.results]
  BY DEF End
<1>2. << >> \in Seq(Tasks) /\ b.results \in [Tasks -> Results \cup {NoResult}]
  BY DEF BatchRecord
<1>3. /\ [t \in Tasks |-> NewTask] \in [Tasks -> TaskRecord]
      /\ \A t \in Tasks : [u \in Tasks |-> NewTask][t].retryCount = 0
  BY DEF NewTask, TaskRecord
<1>4. /\ End(b, phase) \in BatchRecord
      /\ End(b, phase).phase = phase /\ End(b, phase).results = b.results
      /\ End(b, phase).active = {} /\ End(b, phase).task = [t \in Tasks |-> NewTask]
      /\ End(b, phase).normalTimer = NoTimer /\ End(b, phase).wakeTimer = NoTimer
      /\ End(b, phase).pending = << >>
  <2> DEFINE new == NewBatch
             c == [new EXCEPT !.phase = phase, !.pending = << >>, !.results = b.results]
  <2>1. /\ new \in BatchRecord /\ new.active = {} /\ new.task = [t \in Tasks |-> NewTask]
        /\ new.normalTimer = NoTimer /\ new.wakeTimer = NoTimer
    BY NewBatchTyped DEF NewBatch
  <2>2. End(b, phase) = c
    BY <1>1
  <2>. HIDE DEF new
  <2>3. c \in BatchRecord
    BY <1>2, <2>1 DEF BatchRecord
  <2>4. /\ c.phase = phase /\ c.results = b.results /\ c.active = new.active
        /\ c.task = new.task /\ c.normalTimer = new.normalTimer /\ c.wakeTimer = new.wakeTimer
        /\ c.pending = << >>
    BY <2>1 DEF BatchRecord
  <2>. QED
    BY <2>1, <2>2, <2>3, <2>4
<1>. QED
  BY <1>3, <1>4

\* A pass of the scheduler launches tasks, or ends a batch in which none is left.
LEMMA ScheduleLaunches ==
    ASSUME NEW b, Sane(b), ~Finished(b)
    PROVE  \/ ~Complete(b) /\ Launches(b, Schedule(b))
           \/ Complete(b) /\ Schedule(b) = End(b, "resolved") /\ b.active = {}
<1>1. CASE Complete(b)
  <2>1. b.active \subseteq Tasks
    BY DEF Sane, BatchRecord
  <2>2. b.active = {}
    BY <1>1, <2>1 DEF Complete, Sane, Placed
  <2>. QED
    BY <1>1, <2>2 DEF Schedule
<1>2. CASE ~Complete(b) /\ b.rateLimitMode
  BY <1>2, RateLimitLaunches DEF Schedule
<1>3. CASE ~Complete(b) /\ ~b.rateLimitMode
  BY <1>3, NormalLaunches DEF Schedule
<1>. QED
  BY <1>1, <1>2, <1>3

-----------------------------------------------------------------------------
(* The invariant *)

Going == {"launching", "running"}

\* The batch listens to the attempts that are under way, and when it is over those it
\* gave up on were told to stop.
Attended ==
    \A t \in Tasks :
        /\ t \in batch.active => attempt[t].pc \in Going
        /\ attempt[t].pc \in Going =>
            t \in batch.active \/ (Finished(batch) /\ attempt[t].aborted)

\* The inductive invariant of the batch.
BatchInv ==
    /\ batch \in BatchRecord
    /\ attempt \in [Tasks -> AttemptRecord]
    /\ rateLimits \in 0..MaxRateLimits
    /\ \A t \in Tasks : batch.task[t].retryCount <= rateLimits
    /\ ~Finished(batch) => Placed(batch)
    /\ batch.phase # "running" =>
        batch.active = {} /\ batch.normalTimer = NoTimer /\ batch.wakeTimer = NoTimer
    /\ Attended

LEMMA AttemptsTyped ==
    /\ NotAttempted \in AttemptRecord /\ NotAttempted.pc = "none"
    /\ Fresh \in AttemptRecord /\ Fresh.pc = "launching"
    /\ LET ended == [NotAttempted EXCEPT !.pc = "ended"]
       IN  ended \in AttemptRecord /\ ended.pc = "ended"
BY DEF NotAttempted, Fresh, AttemptRecord

LEMMA InitBatchInv == Init => BatchInv
<1>. SUFFICES ASSUME Init
              PROVE  BatchInv
  OBVIOUS
<1>1. batch = NewBatch /\ attempt = [t \in Tasks |-> NotAttempted] /\ rateLimits = 0
  BY DEF Init
<1>2. Placed(batch)
  <2>1. [i \in Tasks |-> i] \in Seq(Tasks) /\ DOMAIN [i \in Tasks |-> i] = Tasks
    BY BatchAssumption DEF Tasks
  <2>. QED
    BY <1>1, <2>1, NewBatchTyped DEF Placed, Distinct, Queued
<1>3. Attended
  BY <1>1, NewBatchTyped, AttemptsTyped DEF Attended, Going
<1>. QED
  BY <1>1, <1>2, <1>3, NewBatchTyped, AttemptsTyped, BatchAssumption DEF BatchInv

\* A callback takes tasks out of the queue or out of their attempts, then the queue is
\* scheduled.  A task that has just left its attempt is not launched again at once.
LEMMA CallbackKeeps ==
    ASSUME BatchInv, NEW b, Sane(b), b.phase = "running", NEW att \in [Tasks -> AttemptRecord],
           \A t \in Tasks : t \in b.active /\ t \in batch.active => att[t].pc \in Going,
           \A t \in Tasks : att[t].pc \in Going => t \in b.active,
           \A t \in Tasks : t \in batch.active \ b.active =>
                t \notin Queued(b) \/ (b.rateLimitMode /\ b.task[t].readyIn # 0),
           \A t \in Tasks : b.task[t].retryCount <= rateLimits',
           rateLimits' \in 0..MaxRateLimits,
           Becomes(Schedule(b), att)
    PROVE  BatchInv'
<1> DEFINE c == Schedule(b)
<1>1. /\ batch' = c
      /\ attempt' = [t \in Tasks |-> IF t \in c.active \ batch.active THEN Fresh ELSE att[t]]
  BY DEF Becomes
<1>2. Launches(b, c) \/ (c = End(b, "resolved") /\ b.active = {})
  BY ScheduleLaunches DEF Finished
<1>. HIDE DEF c
<1>3. attempt' \in [Tasks -> AttemptRecord]
  BY <1>1, AttemptsTyped
<1>4. CASE Launches(b, c)
  <2>1. /\ c \in BatchRecord /\ Placed(c) /\ c.phase = "running" /\ c.task = b.task
        /\ b.active \subseteq c.active
    BY <1>4 DEF Launches, Sane
  <2>2. ASSUME NEW t \in Tasks
        PROVE  /\ t \in c.active => attempt'[t].pc \in Going
               /\ attempt'[t].pc \in Going => t \in c.active
    <3>1. CASE t \in c.active \ batch.active
      BY <1>1, <3>1, AttemptsTyped DEF Going
    <3>2. CASE t \in c.active \cap batch.active
      <4>1. t \in b.active
        BY <1>4, <3>2 DEF Launches
      <4>. QED
        BY <1>1, <3>2, <4>1
    <3>3. CASE t \notin c.active
      BY <1>1, <2>1, <3>3
    <3>. QED
      BY <3>1, <3>2, <3>3
  <2>3. Attended'
    BY <1>1, <2>2 DEF Attended
  <2>. QED
    BY <1>1, <1>3, <2>1, <2>3 DEF BatchInv, Placed, Distinct, Queued
<1>5. CASE c = End(b, "resolved") /\ b.active = {}
  <2>1. /\ c \in BatchRecord /\ c.phase = "resolved" /\ c.active = {}
        /\ c.normalTimer = NoTimer /\ c.wakeTimer = NoTimer
        /\ \A t \in Tasks : c.task[t].retryCount = 0
    BY <1>5, EndTyped DEF Sane, Phases
  <2>2. Attended'
    BY <1>1, <1>5, <2>1 DEF Attended
  <2>. QED
    BY <1>1, <1>3, <2>1, <2>2 DEF BatchInv, Finished
<1>. QED
  BY <1>2, <1>4, <1>5

\* A callback that moves no task.
LEMMA QuietKeeps ==
    ASSUME BatchInv, batch' \in BatchRecord, batch.phase = "running",
           batch'.phase = batch.phase, batch'.pending = batch.pending,
           batch'.active = batch.active, batch'.results = batch.results,
           \A t \in Tasks : batch'.task[t].retryCount = batch.task[t].retryCount,
           attempt' \in [Tasks -> AttemptRecord],
           \A t \in Tasks : attempt'[t].pc \in Going <=> attempt[t].pc \in Going,
           rateLimits' = rateLimits
    PROVE  BatchInv'
<1>1. Placed(batch')
  BY DEF BatchInv, Placed, Distinct, Queued, Finished
<1>2. Attended'
  BY DEF BatchInv, Attended, Finished
<1>. QED
  BY <1>1, <1>2 DEF BatchInv, Placed, Distinct, Queued

\* A batch that is over, however it ends, leaves its attempts alone from then on.
LEMMA OverKeeps ==
    ASSUME BatchInv, batch' \in BatchRecord, Finished(batch'), batch'.active = {},
           batch'.normalTimer = NoTimer, batch'.wakeTimer = NoTimer,
           \A t \in Tasks : batch'.task[t].retryCount <= rateLimits',
           attempt' \in [Tasks -> AttemptRecord],
           \A t \in Tasks : attempt'[t].pc \in Going => attempt'[t].aborted,
           rateLimits' = rateLimits
    PROVE  BatchInv'
<1>1. Attended' /\ batch'.phase # "running"
  BY DEF Attended, Finished
<1>. QED
  BY <1>1 DEF BatchInv, Finished

-----------------------------------------------------------------------------
(* The batch is run, and aborted *)

LEMMA RunKeeps == BatchInv /\ Run => BatchInv'
<1>. SUFFICES ASSUME BatchInv, Run
              PROVE  BatchInv'
  OBVIOUS
<1> DEFINE b == [batch EXCEPT !.phase = "running"]
<1>1. batch.phase = "created" /\ Becomes(Schedule(b), attempt) /\ rateLimits' = rateLimits
  BY DEF Run
<1>2. /\ b \in BatchRecord /\ b.phase = "running" /\ b.pending = batch.pending
      /\ b.active = batch.active /\ b.results = batch.results /\ b.task = batch.task
  BY DEF BatchInv, BatchRecord, Phases
<1>. HIDE DEF b
<1>3. Sane(b)
  BY <1>1, <1>2 DEF BatchInv, Sane, Placed, Queued, Distinct, Finished
<1>4. attempt \in [Tasks -> AttemptRecord] /\ rateLimits' \in 0..MaxRateLimits
      /\ \A t \in Tasks : b.task[t].retryCount <= rateLimits'
  BY <1>1, <1>2 DEF BatchInv
<1>5. \A t \in Tasks : /\ t \in b.active => attempt[t].pc \in Going
                       /\ attempt[t].pc \in Going => t \in b.active
  BY <1>1, <1>2 DEF BatchInv, Attended, Finished
<1>. QED
  BY <1>1, <1>2, <1>3, <1>4, <1>5, CallbackKeeps

LEMMA AbortKeeps == BatchInv /\ (CancelByUser \/ Abort) => BatchInv'
<1>. SUFFICES ASSUME BatchInv, CancelByUser \/ Abort
              PROVE  BatchInv'
  OBVIOUS
<1>1. ~Finished(batch) /\ AbortAttempts /\ rateLimits' = rateLimits
  BY DEF CancelByUser, Abort
<1>2. /\ attempt' \in [Tasks -> AttemptRecord]
      /\ \A t \in Tasks : attempt'[t].pc \in Going => attempt'[t].aborted
  <2>1. \A t \in Tasks :
          LET r == [attempt[t] EXCEPT !.aborted = TRUE]
          IN  r \in AttemptRecord /\ r.pc = attempt[t].pc /\ r.aborted
    BY DEF BatchInv, AttemptRecord
  <2>. QED
    BY <1>1, <2>1 DEF BatchInv, AbortAttempts, Attended
<1>3. PICK b \in BatchRecord, phase \in {"resolved", "rejected"} : batch' = End(b, phase)
  <2>1. CASE Abort
    BY <2>1 DEF Abort, BatchInv
  <2>2. CASE CancelByUser
    <3> DEFINE results == [t \in Tasks |-> CancelledResult(t)]
               b == [batch EXCEPT !.results = results]
    <3>1. \A t \in Tasks : CancelledResult(t) \in Results \cup {NoResult}
      BY DEF CancelledResult, Result, Results, BatchInv, BatchRecord
    <3>2. results \in [Tasks -> Results \cup {NoResult}]
      BY <3>1
    <3>. HIDE DEF results
    <3>3. b \in BatchRecord
      BY <3>2 DEF BatchInv, BatchRecord
    <3>. QED
      BY <2>2, <3>3 DEF CancelByUser, results
  <2>. QED
    BY <2>1, <2>2
<1>4. /\ batch' \in BatchRecord /\ Finished(batch') /\ batch'.active = {}
      /\ batch'.normalTimer = NoTimer /\ batch'.wakeTimer = NoTimer
      /\ \A t \in Tasks : batch'.task[t].retryCount = 0
  BY <1>3, EndTyped DEF Finished, Phases
<1>5. \A t \in Tasks : batch'.task[t].retryCount <= rateLimits'
  BY <1>1, <1>4 DEF BatchInv
<1>. QED
  BY <1>1, <1>2, <1>4, <1>5, OverKeeps

-----------------------------------------------------------------------------
(* An attempt *)

\* An attempt is released into the batch b; one the batch has given up on just ends.
LEMMA SettleKeeps ==
    ASSUME BatchInv, NEW t \in Tasks, attempt[t].pc \in Going, NEW b, Settle(t, b),
           rateLimits' \in {rateLimits, rateLimits + 1}, rateLimits' <= MaxRateLimits,
           t \in batch.active =>
                LET r == [b EXCEPT !.active = @ \ {t}]
                IN  /\ Sane(r) /\ r.phase = batch.phase /\ r.active = batch.active \ {t}
                    /\ t \notin Queued(r) \/ (r.rateLimitMode /\ r.task[t].readyIn # 0)
                    /\ \A u \in Tasks : r.task[u].retryCount <= rateLimits'
    PROVE  BatchInv'
<1> DEFINE ended == [NotAttempted EXCEPT !.pc = "ended"]
           att == [attempt EXCEPT ![t] = ended]
           r == [b EXCEPT !.active = @ \ {t}]
<1>1. ended \in AttemptRecord /\ ended.pc \notin Going
  BY AttemptsTyped DEF Going
<1>2. IF t \in batch.active THEN Becomes(Schedule(r), att)
      ELSE attempt' = att /\ UNCHANGED batch
  BY DEF Settle
<1>. HIDE DEF ended
<1>3. /\ att \in [Tasks -> AttemptRecord] /\ att[t] = ended
      /\ \A u \in Tasks \ {t} : att[u] = attempt[u]
  BY <1>1 DEF BatchInv
<1>4. rateLimits \in Nat /\ MaxRateLimits \in Nat /\ rateLimits' \in 0..MaxRateLimits
  BY BatchAssumption DEF BatchInv
<1>. HIDE DEF att, r
<1>5. CASE t \in batch.active
  <2>1. /\ Sane(r) /\ r.phase = batch.phase /\ r.active = batch.active \ {t}
        /\ t \notin Queued(r) \/ (r.rateLimitMode /\ r.task[t].readyIn # 0)
        /\ \A u \in Tasks : r.task[u].retryCount <= rateLimits'
    BY <1>5 DEF r
  <2>2. batch.phase = "running"
    BY <1>5 DEF BatchInv
  <2>3. \A u \in Tasks : /\ u \in r.active => att[u].pc \in Going
                         /\ att[u].pc \in Going => u \in r.active
    BY <1>1, <1>3, <2>1, <2>2 DEF BatchInv, Attended, Finished
  <2>4. \A u \in Tasks : u \in batch.active \ r.active =>
            u \notin Queued(r) \/ (r.rateLimitMode /\ r.task[u].readyIn # 0)
    BY <2>1
  <2>. QED
    BY <1>2, <1>3, <1>4, <1>5, <2>1, <2>2, <2>3, <2>4, CallbackKeeps
<1>6. CASE t \notin batch.active
  <2>1. attempt' = att /\ batch' = batch
    BY <1>2, <1>6
  <2>2. Attended'
    <3> SUFFICES ASSUME NEW u \in Tasks
                 PROVE  /\ u \in batch'.active => attempt'[u].pc \in Going
                        /\ attempt'[u].pc \in Going =>
                            u \in batch'.active \/ (Finished(batch') /\ attempt'[u].aborted)
      BY DEF Attended, Finished
    <3>1. CASE u = t
      BY <1>1, <1>3, <1>6, <2>1, <3>1
    <3>2. CASE u # t
      <4>1. attempt'[u] = attempt[u]
        BY <1>3, <2>1, <3>2
      <4>. QED
        BY <2>1, <4>1 DEF BatchInv, Attended
    <3>. QED
      BY <3>1, <3>2
  <2>3. \A u \in Tasks : batch.task[u].retryCount <= rateLimits'
    BY <1>4, SMTT(30) DEF BatchInv, BatchRecord, TaskRecord
  <2>. QED
    BY <1>3, <1>4, <2>1, <2>2, <2>3 DEF BatchInv, Placed, Distinct, Queued
<1>. QED
  BY <1>5, <1>6

\* The attempt's task is finished.
LEMMA FinishedIsReleased ==
    ASSUME BatchInv, NEW t \in batch.active, NEW result \in Results
    PROVE  LET r == [[batch EXCEPT !.results[t] = result] EXCEPT !.active = @ \ {t}]
           IN  /\ Sane(r) /\ r.phase = batch.phase /\ r.active = batch.active \ {t}
               /\ t \notin Queued(r) /\ Queued(r) = Queued(batch)
               /\ r.results = [batch.results EXCEPT ![t] = result]
               /\ \A u \in Tasks : r.task[u].retryCount <= rateLimits
<1> DEFINE results == [batch.results EXCEPT ![t] = result]
           r == [[batch EXCEPT !.results[t] = result] EXCEPT !.active = @ \ {t}]
<1>1. /\ batch \in BatchRecord /\ t \in Tasks /\ Placed(batch)
      /\ batch.results \in [Tasks -> Results \cup {NoResult}]
  BY DEF BatchInv, BatchRecord, Finished
<1>2. /\ results \in [Tasks -> Results \cup {NoResult}] /\ results[t] # NoResult
      /\ \A u \in Tasks \ {t} : results[u] = batch.results[u]
  BY <1>1, BatchAssumption
<1>3. r = [batch EXCEPT !.results = results, !.active = batch.active \ {t}]
  BY <1>1 DEF BatchRecord
<1>. HIDE DEF results, r
<1>4. /\ r \in BatchRecord /\ r.results = results /\ r.active = batch.active \ {t}
      /\ r.phase = batch.phase /\ r.pending = batch.pending /\ r.task = batch.task
  BY <1>1, <1>2, <1>3 DEF BatchRecord
<1>5. Queued(r) = Queued(batch) /\ t \notin Queued(batch)
  BY <1>1, <1>4 DEF Queued, Placed
<1>6. Placed(r)
  BY <1>1, <1>2, <1>4, <1>5 DEF Placed
<1>. QED
  BY <1>4, <1>5, <1>6 DEF Sane, BatchInv, r, results

LEMMA Queueing ==
    ASSUME NEW s \in Seq(Tasks), Distinct(s), NEW t \in Tasks, t \notin {s[i] : i \in DOMAIN s}
    PROVE  LET q == <<t>> \o s
           IN  /\ q \in Seq(Tasks) /\ Distinct(q)
               /\ {q[i] : i \in DOMAIN q} = {t} \cup {s[i] : i \in DOMAIN s}
<1> DEFINE q == <<t>> \o s
<1>1. /\ q \in Seq(Tasks) /\ Len(q) = Len(s) + 1 /\ Len(s) \in Nat /\ DOMAIN s = 1..Len(s)
      /\ q[1] = t /\ \A i \in 1..Len(s) : q[i + 1] = s[i]
  OBVIOUS
<1>. HIDE DEF q
<1>2. \A i \in DOMAIN q : i = 1 \/ (i - 1 \in DOMAIN s /\ q[i] = s[i - 1])
  BY <1>1
<1>3. Distinct(q)
  <2> SUFFICES ASSUME NEW i \in DOMAIN q, NEW j \in DOMAIN q, q[i] = q[j]
               PROVE  i = j
    BY DEF Distinct
  <2>1. CASE i # 1 /\ j # 1
    <3>1. i - 1 = j - 1
      BY <1>2, <2>1 DEF Distinct
    <3>. QED
      BY <1>1, <3>1
  <2>2. CASE i = 1 \/ j = 1
    BY <1>1, <1>2, <2>2
  <2>. QED
    BY <2>1, <2>2
<1>4. {q[i] : i \in DOMAIN q} = {t} \cup {s[i] : i \in DOMAIN s}
  <2>1. \A i \in DOMAIN q : q[i] \in {t} \cup {s[k] : k \in DOMAIN s}
    BY <1>1, <1>2
  <2>2. 1 \in DOMAIN q /\ \A k \in DOMAIN s : k + 1 \in DOMAIN q /\ q[k + 1] = s[k]
    BY <1>1
  <2>. QED
    BY <1>1, <2>1, <2>2
<1>. QED
  BY <1>1, <1>3, <1>4 DEF q

\* A rate-limited task is put back, to be retried later.
LEMMA RequeueTyped ==
    ASSUME BatchInv, NEW t \in batch.active, rateLimits < MaxRateLimits
    PROVE  LET b == Requeue(t)
           IN  /\ b \in BatchRecord /\ b.phase = batch.phase /\ b.active = batch.active
               /\ b.pending = <<t>> \o batch.pending /\ b.results = batch.results
               /\ b.rateLimitMode /\ b.task[t].readyIn # 0
               /\ \A u \in Tasks : b.task[u].retryCount <= rateLimits + 1
<1> DEFINE count == batch.task[t].retryCount
           delay == RetryDelay(count + 1)
           record == [batch.task[t] EXCEPT !.agent = TRUE, !.retryCount = @ + 1,
                                           !.readyIn = delay]
           tasks == [batch.task EXCEPT ![t] = record]
           queue == <<t>> \o batch.pending
           first == [batch EXCEPT !.task = tasks, !.pending = queue,
                                  !.recoverIn = CapacityRecoveryInterval]
           b == EnterRateLimitMode(first)
           interval == Most(b.interval * 2, delay)
           c == Requeue(t)
<1>1. /\ batch \in BatchRecord /\ t \in Tasks /\ batch.pending \in Seq(Tasks)
      /\ batch.task \in [Tasks -> TaskRecord] /\ batch.task[t] \in TaskRecord
      /\ count \in 0..rateLimits /\ rateLimits \in Nat /\ MaxRateLimits \in Nat
  BY BatchAssumption DEF BatchInv, BatchRecord, TaskRecord
<1>2. delay \in Nat /\ delay # 0
  <2>1. 2^count \in Nat \ {0} /\ RetryBase \in Nat \ {0}
    BY <1>1, BatchAssumption
  <2>2. delay = RetryBase * 2^count
    <3>1. (count + 1) - 1 = count
      BY <1>1
    <3>. QED
      BY <3>1 DEF RetryDelay
  <2> DEFINE power == 2^count
  <2>. HIDE DEF power
  <2>3. RetryBase * power \in Nat /\ RetryBase * power # 0
    BY <2>1 DEF power
  <2>. QED
    BY <2>2, <2>3 DEF power
<1>3. /\ record \in TaskRecord /\ record.readyIn = delay /\ record.retryCount = count + 1
  <2>1. batch.task[t] \in TaskRecord /\ count + 1 \in Nat /\ delay \in Nat
    BY <1>1, <1>2
  <2>. HIDE DEF delay
  <2>. QED
    BY <2>1 DEF TaskRecord
<1>. HIDE DEF delay, record
<1>4. /\ tasks \in [Tasks -> TaskRecord] /\ tasks[t] = record
      /\ \A u \in Tasks \ {t} : tasks[u] = batch.task[u]
  BY <1>1, <1>3
<1>5. \A u \in Tasks : tasks[u].retryCount <= rateLimits + 1
  BY <1>1, <1>3, <1>4 DEF BatchInv, TaskRecord, count
<1>6. queue \in Seq(Tasks)
  BY <1>1
<1>. HIDE DEF tasks, queue
<1>7. /\ first \in BatchRecord /\ first.phase = batch.phase /\ first.active = batch.active
      /\ first.pending = queue /\ first.results = batch.results /\ first.task = tasks
  BY <1>1, <1>4, <1>6, BatchAssumption DEF BatchRecord
<1>. HIDE DEF first
<1>8. /\ b \in BatchRecord /\ b.phase = first.phase /\ b.active = first.active
      /\ b.pending = first.pending /\ b.results = first.results /\ b.task = first.task
      /\ b.rateLimitMode
  <2>1. ASSUME NEW x \in BatchRecord, NEW force \in BOOLEAN
        PROVE  LET y == Shrink(x, force)
               IN  /\ y \in BatchRecord /\ y.phase = x.phase /\ y.active = x.active
                   /\ y.pending = x.pending /\ y.results = x.results /\ y.task = x.task
                   /\ y.rateLimitMode = x.rateLimitMode
    <3>1. Most(1, x.capacity - 1) \in Nat /\ CapacityShrinkInterval \in Nat
      BY BatchAssumption DEF BatchRecord, Most
    <3>. QED
      BY <3>1 DEF Shrink, BatchRecord
  <2>2. CASE first.rateLimitMode
    BY <1>7, <2>1, <2>2 DEF EnterRateLimitMode
  <2>3. CASE ~first.rateLimitMode
    <3> DEFINE x == [first EXCEPT !.rateLimitMode = TRUE, !.normalTimer = NoTimer,
                                  !.capacity = Most(1, first.startedSuccessCount),
                                  !.launchIn = Most(first.launchIn, RetryBase)]
    <3>1. Most(1, first.startedSuccessCount) \in Nat /\ Most(first.launchIn, RetryBase) \in Nat
      BY <1>7, BatchAssumption, MostOfTwo DEF BatchRecord
    <3>2. /\ x \in BatchRecord /\ x.phase = first.phase /\ x.active = first.active
          /\ x.pending = first.pending /\ x.results = first.results /\ x.task = first.task
          /\ x.rateLimitMode
      BY <1>7, <3>1 DEF BatchRecord
    <3>3. b = Shrink(x, TRUE)
      BY <2>3 DEF EnterRateLimitMode
    <3>. HIDE DEF x, b
    <3>. QED
      BY <2>1, <3>2, <3>3
  <2>. QED
    BY <2>2, <2>3
<1>9. \/ c = [b EXCEPT !.launchIn = Most(b.launchIn, RetryBase)]
      \/ c = [b EXCEPT !.interval = interval, !.launchIn = Most(b.launchIn, interval)]
  <2>1. first = [batch EXCEPT !.task[t] = record, !.pending = <<t>> \o @,
                              !.recoverIn = CapacityRecoveryInterval]
    BY DEF first, tasks, queue
  <2>. QED
    BY <2>1 DEF Requeue, delay, record
<1>. HIDE DEF b, c
<1>10. interval \in Nat /\ Most(b.launchIn, RetryBase) \in Nat
       /\ Most(b.launchIn, interval) \in Nat
  <2>1. b.interval \in Nat /\ b.launchIn \in Nat /\ RetryBase \in Nat
    BY <1>8, BatchAssumption DEF BatchRecord
  <2>2. b.interval * 2 \in Nat
    BY <2>1
  <2>3. interval \in Nat
    BY <1>2, <2>2, MostOfTwo
  <2>. HIDE DEF interval
  <2>. QED
    BY <2>1, <2>3, MostOfTwo
<1>11. /\ c \in BatchRecord /\ c.phase = b.phase /\ c.active = b.active
       /\ c.pending = b.pending /\ c.results = b.results /\ c.task = b.task
       /\ c.rateLimitMode = b.rateLimitMode
  BY <1>8, <1>9, <1>10, ZenonT(60) DEF BatchRecord
<1>. QED
  BY <1>2, <1>3, <1>4, <1>5, <1>7, <1>8, <1>11 DEF queue, c

LEMMA ResultKeeps ==
    ASSUME BatchInv, NEW t \in Tasks, attempt[t].pc \in Going, NEW result \in Results,
           Settle(t, [batch EXCEPT !.results[t] = result]),
           rateLimits' \in {rateLimits, rateLimits + 1}, rateLimits' <= MaxRateLimits
    PROVE  BatchInv'
<1> DEFINE b == [batch EXCEPT !.results[t] = result]
           r == [b EXCEPT !.active = @ \ {t}]
<1>1. Settle(t, b)
  OBVIOUS
<1>2. ASSUME t \in batch.active
      PROVE  /\ Sane(r) /\ r.phase = batch.phase /\ r.active = batch.active \ {t}
             /\ t \notin Queued(r)
             /\ \A u \in Tasks : r.task[u].retryCount <= rateLimits'
  <2>1. /\ Sane(r) /\ r.phase = batch.phase /\ r.active = batch.active \ {t}
        /\ t \notin Queued(r) /\ \A u \in Tasks : r.task[u].retryCount <= rateLimits
    BY <1>2, FinishedIsReleased
  <2>. HIDE DEF r
  <2>2. \A u \in Tasks : r.task[u].retryCount \in Nat
    BY <2>1 DEF Sane, BatchRecord, TaskRecord
  <2>3. rateLimits \in Nat
    BY BatchAssumption DEF BatchInv
  <2>. QED
    BY <2>1, <2>2, <2>3
<1>. HIDE DEF b
<1>. QED
  BY <1>1, <1>2, SettleKeeps

LEMMA SettledKeeps ==
    ASSUME BatchInv, NEW t \in Tasks, attempt[t].pc \in Going,
           NEW status \in {"completed", "failed"},
           Settle(t, Settled(status, t)), rateLimits' = rateLimits
    PROVE  BatchInv'
<1> DEFINE result == Result(status, IF batch.task[t].agent THEN "started" ELSE "not_started")
<1>1. result \in Results
  BY DEF Result, Results
<1>2. Settled(status, t) = [batch EXCEPT !.results[t] = result]
  BY DEF Settled
<1>. HIDE DEF result
<1>3. rateLimits' \in {rateLimits, rateLimits + 1} /\ rateLimits' <= MaxRateLimits
  BY BatchAssumption DEF BatchInv
<1>. QED
  BY <1>1, <1>2, <1>3, ResultKeeps

\* The attempt's task is back at the head of the queue.
LEMMA RequeuedIsReleased ==
    ASSUME BatchInv, NEW t \in batch.active, rateLimits < MaxRateLimits
    PROVE  LET r == [Requeue(t) EXCEPT !.active = @ \ {t}]
           IN  /\ Sane(r) /\ r.phase = batch.phase /\ r.active = batch.active \ {t}
               /\ r.rateLimitMode /\ r.task[t].readyIn # 0
               /\ Queued(r) = {t} \cup Queued(batch) /\ r.results = batch.results
               /\ \A u \in Tasks : r.task[u].retryCount <= rateLimits + 1
<1> DEFINE b == Requeue(t)
           r == [b EXCEPT !.active = @ \ {t}]
           q == <<t>> \o batch.pending
<1>1. /\ b \in BatchRecord /\ b.phase = batch.phase /\ b.active = batch.active
      /\ b.pending = <<t>> \o batch.pending /\ b.results = batch.results
      /\ b.rateLimitMode /\ b.task[t].readyIn # 0
      /\ \A u \in Tasks : b.task[u].retryCount <= rateLimits + 1
  BY RequeueTyped
<1>. HIDE DEF b
<1>2. /\ r \in BatchRecord /\ r.phase = b.phase /\ r.active = b.active \ {t}
      /\ r.pending = b.pending /\ r.results = b.results /\ r.task = b.task
      /\ r.rateLimitMode = b.rateLimitMode
  BY <1>1 DEF BatchRecord
<1>. HIDE DEF r
<1>3. /\ Placed(batch) /\ batch.pending \in Seq(Tasks) /\ t \in Tasks
  BY DEF BatchInv, BatchRecord, Finished
<1>4. t \notin Queued(batch) /\ Distinct(batch.pending)
  BY <1>3 DEF Placed
<1>5. t \notin {batch.pending[i] : i \in DOMAIN batch.pending}
  BY <1>4 DEF Queued
<1>6. /\ Distinct(q)
      /\ {q[i] : i \in DOMAIN q}
           = {t} \cup {batch.pending[i] : i \in DOMAIN batch.pending}
  BY <1>3, <1>4, <1>5, Queueing
<1>7. r.pending = q
  BY <1>1, <1>2
<1>. HIDE DEF q
<1>8. Distinct(r.pending) /\ Queued(r) = {t} \cup Queued(batch)
  BY <1>6, <1>7 DEF Queued
<1>9. Queued(r) \cap r.active = {}
  BY <1>1, <1>2, <1>3, <1>8 DEF Placed
<1>10. Queued(r) \cup r.active = Queued(batch) \cup batch.active
  BY <1>1, <1>2, <1>8
<1>11. Placed(r)
  BY <1>1, <1>2, <1>3, <1>8, <1>9, <1>10 DEF Placed
<1>. QED
  BY <1>1, <1>2, <1>8, <1>11 DEF Sane, r, b

LEMMA RateLimitedKeeps ==
    ASSUME BatchInv, NEW t \in Tasks, RateLimited(t)
    PROVE  BatchInv'
<1>1. /\ attempt[t].pc \in Going /\ rateLimits < MaxRateLimits /\ rateLimits' = rateLimits + 1
      /\ Settle(t, IF IsOnlyUnfinishedTask(t)
                   THEN [batch EXCEPT !.results[t] = Result("failed", "started")]
                   ELSE Requeue(t))
  BY DEF RateLimited, Going
<1>2. /\ rateLimits' \in {rateLimits, rateLimits + 1} /\ rateLimits' <= MaxRateLimits
      /\ rateLimits \in Nat
  BY <1>1, BatchAssumption DEF BatchInv
<1>3. CASE IsOnlyUnfinishedTask(t)
  <2>1. Result("failed", "started") \in Results
    BY DEF Result, Results
  <2>. QED
    BY <1>1, <1>2, <1>3, <2>1, ResultKeeps
<1>4. CASE ~IsOnlyUnfinishedTask(t)
  <2> DEFINE b == Requeue(t)
             r == [b EXCEPT !.active = @ \ {t}]
  <2>1. Settle(t, b)
    BY <1>1, <1>4
  <2>2. ASSUME t \in batch.active
        PROVE  /\ Sane(r) /\ r.phase = batch.phase /\ r.active = batch.active \ {t}
               /\ r.rateLimitMode /\ r.task[t].readyIn # 0
               /\ \A u \in Tasks : r.task[u].retryCount <= rateLimits'
    BY <1>1, <2>2, RequeuedIsReleased
  <2>. HIDE DEF b
  <2>. QED
    BY <1>1, <1>2, <2>1, <2>2, SettleKeeps
<1>. QED
  BY <1>3, <1>4

LEMMA LaunchedKeeps ==
    ASSUME BatchInv, NEW t \in Tasks, Launched(t)
    PROVE  BatchInv'
<1> DEFINE new == [attempt[t] EXCEPT !.pc = "running"]
<1>1. attempt[t].pc = "launching" /\ rateLimits' = rateLimits
  BY DEF Launched
<1>2. new \in AttemptRecord /\ new.pc = "running" /\ new.aborted = attempt[t].aborted
  BY DEF BatchInv, AttemptRecord
<1>3. attempt' = [attempt EXCEPT ![t] = new]
  BY DEF Launched
<1>. HIDE DEF new
<1>4. /\ attempt' \in [Tasks -> AttemptRecord]
      /\ \A u \in Tasks : /\ attempt'[u].pc \in Going <=> attempt[u].pc \in Going
                          /\ attempt'[u].aborted = attempt[u].aborted
  BY <1>1, <1>2, <1>3 DEF BatchInv, Going
<1>5. CASE Finished(batch)
  <2>1. batch' = batch
    BY <1>5 DEF Launched
  <2>2. Attended'
    BY <1>4, <2>1 DEF BatchInv, Attended
  <2>. QED
    BY <1>1, <1>4, <2>1, <2>2 DEF BatchInv, Placed, Distinct, Queued
<1>6. CASE ~Finished(batch)
  <2> DEFINE record == [batch.task[t] EXCEPT !.agent = TRUE]
             tasks == [batch.task EXCEPT ![t] = record]
  <2>1. batch \in BatchRecord /\ batch.task \in [Tasks -> TaskRecord]
    BY DEF BatchInv, BatchRecord
  <2>2. record \in TaskRecord /\ record.retryCount = batch.task[t].retryCount
    BY <2>1 DEF TaskRecord
  <2>3. batch' = [batch EXCEPT !.task = tasks]
    BY <1>6, <2>1 DEF Launched, BatchRecord
  <2>. HIDE DEF record
  <2>4. /\ tasks \in [Tasks -> TaskRecord]
        /\ \A u \in Tasks : tasks[u].retryCount = batch.task[u].retryCount
    BY <2>1, <2>2
  <2>. HIDE DEF tasks
  <2>5. /\ batch' \in BatchRecord /\ batch'.phase = batch.phase
        /\ batch'.pending = batch.pending /\ batch'.active = batch.active
        /\ batch'.results = batch.results /\ batch'.task = tasks
    BY <2>1, <2>3, <2>4 DEF BatchRecord
  <2>6. batch.phase = "running"
    BY <1>1, <1>6 DEF BatchInv, Attended, Going
  <2>. QED
    BY <1>1, <1>4, <2>4, <2>5, <2>6, QuietKeeps
<1>. QED
  BY <1>5, <1>6

\* A ready child is counted, or in rate-limit mode has the queue scheduled.
LEMMA ReadyIsHeard ==
    ASSUME BatchInv, NEW t \in Tasks, Ready(t)
    PROVE  \E b \in BatchRecord, att \in [Tasks -> AttemptRecord] :
                /\ b.phase = "running" /\ b.pending = batch.pending
                /\ b.active = batch.active /\ b.results = batch.results
                /\ b.rateLimitMode = batch.rateLimitMode
                /\ b.normalTimer = batch.normalTimer /\ b.wakeTimer = batch.wakeTimer
                /\ b.recoverIn = batch.recoverIn /\ b.capacity = batch.capacity
                /\ b.interval \in {batch.interval, RetryBase}
                /\ \A u \in Tasks : /\ b.task[u].retryCount = batch.task[u].retryCount
                                    /\ att[u].pc = attempt[u].pc
                /\ Becomes(Schedule(b), att) \/ Becomes(b, att)
<1> DEFINE new == [attempt[t] EXCEPT !.ready = TRUE]
           att == [attempt EXCEPT ![t].ready = TRUE]
           record == [batch.task[t] EXCEPT !.started = TRUE]
           tasks == [batch.task EXCEPT ![t] = record]
           b == [batch EXCEPT !.task[t].started = TRUE]
           reset == [b EXCEPT !.interval = RetryBase, !.launchIn = RetryBase]
           count == [b EXCEPT !.startedSuccessCount = @ + 1]
<1>1. /\ t \in batch.active
      /\ Becomes(IF b.rateLimitMode THEN Schedule(reset) ELSE count, att)
  BY DEF Ready
<1>2. new \in AttemptRecord /\ new.pc = attempt[t].pc /\ att = [attempt EXCEPT ![t] = new]
  BY DEF BatchInv, AttemptRecord
<1>. HIDE DEF new, att
<1>3. /\ att \in [Tasks -> AttemptRecord]
      /\ \A u \in Tasks : att[u].pc = attempt[u].pc
  BY <1>2 DEF BatchInv
<1>4. /\ batch \in BatchRecord /\ batch.task \in [Tasks -> TaskRecord]
      /\ batch.phase = "running"
  BY <1>1 DEF BatchInv, BatchRecord
<1>5. record \in TaskRecord /\ record.retryCount = batch.task[t].retryCount
  BY <1>4 DEF TaskRecord
<1>6. b = [batch EXCEPT !.task = tasks]
  BY <1>4 DEF BatchRecord
<1>. HIDE DEF record, b
<1>7. /\ tasks \in [Tasks -> TaskRecord]
      /\ \A u \in Tasks : tasks[u].retryCount = batch.task[u].retryCount
  BY <1>4, <1>5
<1>. HIDE DEF tasks
<1>8. /\ b \in BatchRecord /\ b.phase = batch.phase
      /\ b.pending = batch.pending /\ b.active = batch.active
      /\ b.results = batch.results /\ b.task = tasks
      /\ b.rateLimitMode = batch.rateLimitMode
      /\ b.normalTimer = batch.normalTimer /\ b.wakeTimer = batch.wakeTimer
      /\ b.recoverIn = batch.recoverIn /\ b.capacity = batch.capacity
      /\ b.interval = batch.interval
  BY <1>4, <1>6, <1>7 DEF BatchRecord
<1>9. /\ reset \in BatchRecord /\ reset.phase = b.phase
      /\ reset.pending = b.pending /\ reset.active = b.active
      /\ reset.results = b.results /\ reset.task = b.task
      /\ reset.rateLimitMode = b.rateLimitMode
      /\ reset.normalTimer = b.normalTimer /\ reset.wakeTimer = b.wakeTimer
      /\ reset.recoverIn = b.recoverIn /\ reset.capacity = b.capacity
      /\ reset.interval = RetryBase
  <2>1. RetryBase \in Nat
    BY BatchAssumption
  <2>. QED
    BY <1>8, <2>1 DEF BatchRecord
<1>10. /\ count \in BatchRecord /\ count.phase = b.phase
       /\ count.pending = b.pending /\ count.active = b.active
       /\ count.results = b.results /\ count.task = b.task
       /\ count.rateLimitMode = b.rateLimitMode
       /\ count.normalTimer = b.normalTimer /\ count.wakeTimer = b.wakeTimer
       /\ count.recoverIn = b.recoverIn /\ count.capacity = b.capacity
       /\ count.interval = b.interval
  <2>1. b.startedSuccessCount + 1 \in Nat
    BY <1>8 DEF BatchRecord
  <2>. QED
    BY <1>8, <2>1 DEF BatchRecord
<1>11. Becomes(Schedule(reset), att) \/ Becomes(count, att)
  BY <1>1
<1>. HIDE DEF reset, count
<1>12. CASE Becomes(Schedule(reset), att)
  BY <1>3, <1>4, <1>7, <1>8, <1>9, <1>12
<1>13. CASE Becomes(count, att)
  BY <1>3, <1>4, <1>7, <1>8, <1>10, <1>13
<1>. QED
  BY <1>11, <1>12, <1>13

LEMMA ReadyKeeps ==
    ASSUME BatchInv, NEW t \in Tasks, Ready(t)
    PROVE  BatchInv'
<1>1. PICK b \in BatchRecord, att \in [Tasks -> AttemptRecord] :
            /\ b.phase = "running" /\ b.pending = batch.pending
            /\ b.active = batch.active /\ b.results = batch.results
            /\ \A u \in Tasks : /\ b.task[u].retryCount = batch.task[u].retryCount
                                /\ att[u].pc = attempt[u].pc
            /\ Becomes(Schedule(b), att) \/ Becomes(b, att)
  BY ReadyIsHeard
<1>2. /\ batch.phase = "running" /\ rateLimits' = rateLimits
      /\ rateLimits' \in 0..MaxRateLimits
  BY DEF Ready, BatchInv
<1>3. CASE Becomes(Schedule(b), att)
  <2>1. Sane(b)
    BY <1>1, <1>2 DEF BatchInv, Sane, Placed, Queued, Distinct, Finished
  <2>2. \A u \in Tasks : /\ u \in b.active => att[u].pc \in Going
                         /\ att[u].pc \in Going => u \in b.active
                         /\ u \in batch.active => u \in b.active
    BY <1>1, <1>2 DEF BatchInv, Attended, Finished
  <2>3. \A u \in Tasks : b.task[u].retryCount <= rateLimits'
    BY <1>1, <1>2 DEF BatchInv
  <2>. QED
    BY <1>1, <1>2, <1>3, <2>1, <2>2, <2>3, CallbackKeeps
<1>4. CASE Becomes(b, att)
  <2>1. batch' = b /\ \A u \in Tasks : attempt'[u] = att[u]
    BY <1>1, <1>4 DEF Becomes
  <2>2. attempt' \in [Tasks -> AttemptRecord]
    BY <1>1, <1>4, AttemptsTyped DEF Becomes
  <2>. QED
    BY <1>1, <1>2, <2>1, <2>2, QuietKeeps
<1>. QED
  BY <1>1, <1>3, <1>4

-----------------------------------------------------------------------------
(* Time *)

\* The timer of the ramp launches the head of the queue, and has the rest scheduled.
LEMMA HeadIsLaunched ==
    ASSUME BatchInv, NormalTimerFires, batch.pending # << >>
    PROVE  \E c : /\ Sane(c) /\ c.phase = "running" /\ c.results = batch.results
                 /\ c.task = batch.task /\ batch.active \subseteq c.active
                 /\ Queued(c) \cup c.active = Queued(batch) \cup batch.active
                 /\ c.normalTimer = NoTimer /\ c.wakeTimer = batch.wakeTimer
                 /\ c.recoverIn = batch.recoverIn /\ c.capacity = batch.capacity
                 /\ c.interval = batch.interval
                 /\ Becomes(Schedule(c), attempt)
<1> DEFINE b == [batch EXCEPT !.normalTimer = NoTimer]
           c == [b EXCEPT !.pending = Tail(@), !.active = @ \cup {Head(b.pending)},
                          !.normalLaunchCount = @ + 1]
<1>1. Becomes(IF b.pending = << >> THEN b ELSE Schedule(c), attempt)
  BY DEF NormalTimerFires
<1>2. batch.phase = "running" /\ batch \in BatchRecord /\ Placed(batch)
  BY BatchAssumption DEF NormalTimerFires, BatchInv, Finished
<1>3. /\ b \in BatchRecord /\ b.phase = batch.phase
      /\ b.pending = batch.pending /\ b.active = batch.active
      /\ b.results = batch.results /\ b.task = batch.task
      /\ b.normalTimer = NoTimer /\ b.wakeTimer = batch.wakeTimer
      /\ b.recoverIn = batch.recoverIn /\ b.capacity = batch.capacity
      /\ b.interval = batch.interval
  BY <1>2 DEF BatchRecord
<1>. HIDE DEF b
<1> DEFINE s == b.pending
           t == Head(s)
           rest == Tail(s)
<1>5. /\ s \in Seq(Tasks) /\ t \in Tasks /\ t = s[1] /\ 1 \in DOMAIN s
      /\ rest = SubSeq(s, 1 + 1, Len(s)) /\ 1 \in 0..Len(s)
  BY <1>3 DEF BatchRecord
<1>6. Distinct(s) /\ t \in Queued(b) /\ Queued(b) = Queued(batch) /\ {s[i] : i \in 1..1} = {t}
  BY <1>2, <1>3, <1>5 DEF Placed, Queued
<1>7. /\ rest \in Seq(Tasks) /\ Distinct(rest)
      /\ {rest[i] : i \in DOMAIN rest} = Queued(b) \ {t}
  <2> DEFINE n == 1
  <2>1. /\ s \in Seq(Tasks) /\ Distinct(s) /\ n \in 0..Len(s)
        /\ rest = SubSeq(s, n + 1, Len(s)) /\ {s[i] : i \in 1..n} = {t}
    BY <1>5, <1>6
  <2> DEFINE tail == SubSeq(s, n + 1, Len(s))
  <2>. HIDE DEF n, rest, s, t
  <2>2. /\ tail \in Seq(Tasks) /\ Distinct(tail)
        /\ {tail[i] : i \in DOMAIN tail}
             = {s[i] : i \in DOMAIN s} \ {s[i] : i \in 1..n}
    BY <2>1, Rest
  <2>. HIDE DEF tail
  <2>3. rest = tail
    BY <2>1 DEF tail
  <2>. QED
    BY <2>1, <2>2, <2>3 DEF Queued, s
<1>8. /\ c \in BatchRecord /\ c.phase = b.phase /\ c.pending = rest
      /\ c.active = b.active \cup {t} /\ c.results = b.results /\ c.task = b.task
      /\ c.normalTimer = b.normalTimer /\ c.wakeTimer = b.wakeTimer
      /\ c.recoverIn = b.recoverIn /\ c.capacity = b.capacity /\ c.interval = b.interval
  <2>1. b.active \cup {t} \in SUBSET Tasks /\ b.normalLaunchCount + 1 \in Nat
    BY <1>3, <1>5 DEF BatchRecord
  <2>. QED
    BY <1>3, <1>7, <2>1 DEF BatchRecord
<1>9. Becomes(Schedule(c), attempt)
  BY <1>1, <1>3
<1>. HIDE DEF c, rest, t, s
<1>10. Queued(c) = Queued(b) \ {t}
  BY <1>7, <1>8 DEF Queued
<1>11. Queued(c) \cap c.active = {}
  BY <1>2, <1>3, <1>6, <1>8, <1>10 DEF Placed
<1>12. Queued(c) \cup c.active = Queued(batch) \cup batch.active
  BY <1>3, <1>6, <1>8, <1>10
<1>13. Sane(c)
  BY <1>2, <1>3, <1>7, <1>8, <1>11, <1>12 DEF Sane, Placed
<1>. QED
  BY <1>2, <1>3, <1>8, <1>9, <1>12, <1>13

LEMMA NormalTimerKeeps == BatchInv /\ NormalTimerFires => BatchInv'
<1>. SUFFICES ASSUME BatchInv, NormalTimerFires
              PROVE  BatchInv'
  OBVIOUS
<1>1. /\ batch.phase = "running" /\ batch \in BatchRecord /\ rateLimits' = rateLimits
      /\ attempt \in [Tasks -> AttemptRecord] /\ rateLimits' \in 0..MaxRateLimits
  BY BatchAssumption DEF NormalTimerFires, BatchInv
<1>2. CASE batch.pending = << >>
  <2> DEFINE b == [batch EXCEPT !.normalTimer = NoTimer]
  <2>1. /\ b \in BatchRecord /\ b.phase = batch.phase
        /\ b.pending = batch.pending /\ b.active = batch.active
        /\ b.results = batch.results /\ b.task = batch.task
    BY <1>1 DEF BatchRecord
  <2>2. Becomes(b, attempt)
    BY <1>2, <2>1 DEF NormalTimerFires
  <2>. HIDE DEF b
  <2>3. batch' = b /\ \A u \in Tasks : attempt'[u] = attempt[u]
    BY <2>1, <2>2 DEF Becomes
  <2>4. attempt' \in [Tasks -> AttemptRecord]
    BY <1>1, <2>2, AttemptsTyped DEF Becomes
  <2>. QED
    BY <1>1, <2>1, <2>3, <2>4, QuietKeeps
<1>3. CASE batch.pending # << >>
  <2>1. PICK c : /\ Sane(c) /\ c.phase = "running" /\ c.results = batch.results
                 /\ c.task = batch.task /\ batch.active \subseteq c.active
                 /\ Queued(c) \cup c.active = Queued(batch) \cup batch.active
                 /\ Becomes(Schedule(c), attempt)
    BY <1>3, HeadIsLaunched
  <2>2. \A u \in Tasks : /\ u \in c.active /\ u \in batch.active => attempt[u].pc \in Going
                         /\ attempt[u].pc \in Going => u \in c.active
                         /\ u \in batch.active => u \in c.active
    BY <1>1, <2>1 DEF BatchInv, Attended, Finished
  <2>3. \A u \in Tasks : c.task[u].retryCount <= rateLimits'
    BY <1>1, <2>1 DEF BatchInv
  <2>. QED
    BY <1>1, <2>1, <2>2, <2>3, CallbackKeeps
<1>. QED
  BY <1>2, <1>3

LEMMA WakeTimerKeeps == BatchInv /\ WakeTimerFires => BatchInv'
<1>. SUFFICES ASSUME BatchInv, WakeTimerFires
              PROVE  BatchInv'
  OBVIOUS
<1> DEFINE b == [batch EXCEPT !.wakeTimer = NoTimer]
<1>1. /\ batch.wakeTimer = 0 /\ rateLimits' = rateLimits /\ Becomes(Schedule(b), attempt)
  BY DEF WakeTimerFires
<1>2. /\ batch.phase = "running" /\ batch \in BatchRecord /\ Placed(batch)
      /\ attempt \in [Tasks -> AttemptRecord] /\ rateLimits' \in 0..MaxRateLimits
  BY <1>1, BatchAssumption DEF BatchInv, Finished
<1>3. Launches(batch, b) /\ b.active = batch.active
  BY <1>2, SetWakeTimer DEF Sane
<1>. HIDE DEF b
<1>4. /\ Sane(b) /\ b.phase = "running"
      /\ \A u \in Tasks : b.task[u].retryCount <= rateLimits'
  BY <1>1, <1>2, <1>3 DEF Launches, BatchInv
<1>5. \A u \in Tasks : /\ u \in b.active => attempt[u].pc \in Going
                       /\ attempt[u].pc \in Going => u \in b.active
  BY <1>2, <1>3 DEF BatchInv, Attended, Finished
<1>. QED
  BY <1>1, <1>2, <1>3, <1>4, <1>5, CallbackKeeps

LEMMA TickKeeps == BatchInv /\ Tick => BatchInv'
<1>. SUFFICES ASSUME BatchInv, Tick
              PROVE  BatchInv'
  OBVIOUS
<1> DEFINE record(t) == [batch.task[t] EXCEPT !.readyIn = Less(batch.task[t].readyIn)]
           tasks == [t \in Tasks |-> record(t)]
<1>1. /\ batch \in BatchRecord /\ batch.task \in [Tasks -> TaskRecord]
      /\ batch.phase = "running" /\ UNCHANGED <<attempt, rateLimits>>
  BY DEF Tick, BatchInv, BatchRecord
<1>2. \A x \in Nat : Less(x) \in Nat
  BY DEF Less
<1>3. \A x \in Nat \cup {NoTimer} : Less(x) \in Nat \cup {NoTimer}
  BY DEF Less
<1>4. \A t \in Tasks : /\ record(t) \in TaskRecord
                       /\ record(t).retryCount = batch.task[t].retryCount
  BY <1>1, <1>2 DEF TaskRecord
<1>5. batch' = [batch EXCEPT !.normalTimer = Less(batch.normalTimer),
                             !.wakeTimer = Less(batch.wakeTimer),
                             !.launchIn = Less(batch.launchIn),
                             !.recoverIn = Less(batch.recoverIn),
                             !.shrinkIn = Less(batch.shrinkIn), !.task = tasks]
  BY DEF Tick
<1>. HIDE DEF record
<1>6. /\ tasks \in [Tasks -> TaskRecord]
      /\ \A t \in Tasks : tasks[t].retryCount = batch.task[t].retryCount
  BY <1>4
<1>7. /\ Less(batch.normalTimer) \in Nat \cup {NoTimer}
      /\ Less(batch.wakeTimer) \in Nat \cup {NoTimer}
      /\ Less(batch.launchIn) \in Nat /\ Less(batch.recoverIn) \in Nat
      /\ Less(batch.shrinkIn) \in Nat
  BY <1>1, <1>2, <1>3 DEF BatchRecord
<1>. HIDE DEF tasks
<1>8. /\ batch' \in BatchRecord /\ batch'.phase = batch.phase
      /\ batch'.pending = batch.pending /\ batch'.active = batch.active
      /\ batch'.results = batch.results /\ batch'.task = tasks
  BY <1>1, <1>5, <1>6, <1>7 DEF BatchRecord
<1>. QED
  BY <1>1, <1>6, <1>8, QuietKeeps DEF BatchInv

-----------------------------------------------------------------------------

LEMMA NextBatchInv == BatchInv /\ [Next]_vars => BatchInv'
<1>. SUFFICES ASSUME BatchInv, [Next]_vars
              PROVE  BatchInv'
  OBVIOUS
<1>1. ASSUME NEW t \in Tasks, AttemptStep(t)
      PROVE  BatchInv'
  <2>1. CASE LaunchFails(t) \/ AttemptEnds(t)
    BY <2>1, SettledKeeps DEF LaunchFails, AttemptEnds, Going
  <2>. QED
    BY <1>1, <2>1, LaunchedKeeps, ReadyKeeps, RateLimitedKeeps DEF AttemptStep
<1>2. CASE UNCHANGED vars
  BY <1>2 DEF vars, BatchInv, Attended, Placed, Distinct, Queued, Finished
<1>. QED
  BY <1>1, <1>2, RunKeeps, AbortKeeps, NormalTimerKeeps, WakeTimerKeeps, TickKeeps DEF Next

\* What every callback of the batch preserves.
THEOREM InductiveInvariant == Spec => []BatchInv
BY InitBatchInv, NextBatchInv, PTL DEF Spec

\* scheduleNormalLaunch, startFirstEligible, requeueRateLimited, releaseAttempt: while the
\* batch runs a task is once in the queue, or in one attempt, or has its result.
THEOREM TasksHaveOnePlace == Spec => []EachTaskInOnePlace
<1>1. BatchInv => EachTaskInOnePlace
  <2>. SUFFICES ASSUME BatchInv, batch.phase = "running", NEW t \in Tasks
                PROVE  Cardinality({i \in DOMAIN batch.pending : batch.pending[i] = t})
                       + (IF t \in batch.active THEN 1 ELSE 0)
                       + (IF batch.results[t] # NoResult THEN 1 ELSE 0) = 1
    BY DEF EachTaskInOnePlace
  <2> DEFINE at == {i \in DOMAIN batch.pending : batch.pending[i] = t}
  <2>1. Placed(batch)
    BY DEF BatchInv, Finished
  <2>2. CASE t \in Queued(batch)
    <3>1. PICK i \in DOMAIN batch.pending : batch.pending[i] = t
      BY <2>2 DEF Queued
    <3>2. at = {i}
      BY <2>1, <3>1 DEF Placed, Distinct
    <3>3. Cardinality(at) = 1
      BY <3>2, FS_Singleton
    <3>. QED
      BY <2>1, <2>2, <3>3 DEF Placed
  <2>3. CASE t \notin Queued(batch)
    <3>1. at = {}
      BY <2>3 DEF Queued
    <3>2. Cardinality(at) = 0
      BY <3>1, FS_EmptySet
    <3>. QED
      BY <2>1, <2>3, <3>2 DEF Placed
  <2>. QED
    BY <2>2, <2>3
<1>. QED
  BY <1>1, InductiveInvariant, PTL

\* finish and fail, and abortAttempts before them: a child that still runs when its batch is
\* over has been told to stop.
THEOREM ChildrenAreStopped == Spec => []NoChildLeftRunning
<1>1. BatchInv => NoChildLeftRunning
  BY DEF BatchInv, Attended, NoChildLeftRunning, Finished, Going
<1>. QED
  BY <1>1, InductiveInvariant, PTL

-----------------------------------------------------------------------------
(* The batch implements the pool *)

\* What the queue and the attempts of a scheduled batch are: back has joined the queue,
\* only rest is left of the attempts, and some tasks that were queued are launched.
LEMMA SchedulePasses ==
    ASSUME NEW b, Sane(b), b.phase = "running", batch' = Schedule(b),
           NEW rest \in SUBSET b.active, NEW back,
           Queued(b) \cup b.active = Queued(batch) \cup back \cup rest,
           (Queued(batch) \cup back) \cap rest = {},
           b.active \ rest \subseteq Queued(batch),
           \A t \in Queued(b) : t \in Queued(batch) \/ (b.rateLimitMode /\ b.task[t].readyIn # 0)
    PROVE  Pool!Pass(b.results, rest, back)
<1> DEFINE c == Schedule(b)
<1>1. \/ ~Complete(b) /\ Launches(b, c)
      \/ Complete(b) /\ c = End(b, "resolved")
  BY ScheduleLaunches DEF Finished
<1>2. batch' = c
  OBVIOUS
<1>. HIDE DEF c
<1>3. CASE Complete(b) /\ c = End(b, "resolved")
  <2>1. /\ c.phase = "resolved" /\ c.active = {} /\ c.results = b.results
        /\ Queued(c) = {}
    <3>1. "resolved" \in Phases /\ b \in BatchRecord
      BY DEF Phases, Sane
    <3>2. c.pending = << >> /\ c.phase = "resolved" /\ c.active = {} /\ c.results = b.results
      BY <1>3, <3>1, EndTyped
    <3>. QED
      BY <3>2 DEF Queued
  <2>. QED
    BY <1>2, <1>3, <2>1 DEF Pool!Pass, Complete, Queued, ToSet
<1>4. CASE ~Complete(b) /\ Launches(b, c)
  <2> DEFINE S == c.active \ rest
  <2>1. /\ c.phase = "running" /\ c.results = b.results /\ b.active \subseteq c.active
        /\ Placed(c) /\ Queued(c) \cap c.active = {}
        /\ \A t \in c.active \ b.active :
                t \in Queued(b) /\ (b.rateLimitMode => b.task[t].readyIn = 0)
    BY <1>4 DEF Launches, Sane, Placed
  <2>2. S \in SUBSET Queued(batch)
    BY <2>1
  <2>3. Queued(c) \cup c.active = Queued(b) \cup b.active
    <3>1. /\ \A t \in Tasks : t \in Queued(b) \cup b.active <=> b.results[t] = NoResult
          /\ \A t \in Tasks : t \in Queued(c) \cup c.active <=> c.results[t] = NoResult
      BY <2>1 DEF Sane, Placed
    <3>2. /\ Queued(b) \subseteq Tasks /\ b.active \subseteq Tasks
          /\ Queued(c) \subseteq Tasks /\ c.active \subseteq Tasks
      BY <1>4, SMTT(30) DEF Launches, Sane, BatchRecord, Queued
    <3>. QED
      BY <2>1, <3>1, <3>2
  <2>4. Queued(c) = (Queued(batch) \cup back) \ S /\ c.active = rest \cup S
    BY <2>1, <2>3
  <2>. HIDE DEF S
  <2>. QED
    BY <1>2, <1>4, <2>1, <2>2, <2>4 DEF Pool!Pass, Complete, Queued, ToSet
<1>. QED
  BY <1>1, <1>3, <1>4

\* A callback that has moved tasks out of the queue only, before it has it scheduled.
LEMMA QueuePasses ==
    ASSUME BatchInv, ~Finished(batch), NEW b, Sane(b), b.phase = "running",
           b.results = batch.results, batch.active \subseteq b.active,
           Queued(b) \cup b.active = Queued(batch) \cup batch.active,
           batch' = Schedule(b)
    PROVE  Pool!Next
<1>1. Placed(batch) /\ Placed(b)
  BY DEF BatchInv, Sane
<1>2. Pool!Pass(b.results, batch.active, {})
  <2>1. (Queued(batch) \cup {}) \cap batch.active = {} /\ Queued(b) \cap b.active = {}
    BY <1>1 DEF Placed
  <2>2. b.active \ batch.active \subseteq Queued(batch)
    OBVIOUS
  <2>3. \A t \in Queued(b) : t \in Queued(batch)
    BY <2>1
  <2>. QED
    BY <2>1, <2>2, <2>3, SchedulePasses
<1>3. ~Pool!Over
  BY DEF Pool!Over, Finished
<1>. QED
  BY <1>2, <1>3 DEF Pool!Next, Pool!Launch

\* A callback that touches neither the tasks' places nor their results.
LEMMA QuietStutters ==
    ASSUME batch'.phase = batch.phase, batch'.pending = batch.pending,
           batch'.active = batch.active, batch'.results = batch.results
    PROVE  UNCHANGED Pool!vars
BY DEF Pool!vars, ToSet

LEMMA RunIsPool ==
    ASSUME BatchInv, Run
    PROVE  Pool!Next
<1> DEFINE b == [batch EXCEPT !.phase = "running"]
<1>1. batch.phase = "created" /\ batch' = Schedule(b)
  BY DEF Run, Becomes
<1>2. /\ b \in BatchRecord /\ b.phase = "running" /\ b.pending = batch.pending
      /\ b.active = batch.active /\ b.results = batch.results
  BY DEF BatchInv, BatchRecord, Phases
<1>. HIDE DEF b
<1>3. Sane(b) /\ ~Finished(batch) /\ Queued(b) = Queued(batch)
  BY <1>1, <1>2 DEF BatchInv, Sane, Placed, Queued, Distinct, Finished
<1>. QED
  BY <1>1, <1>2, <1>3, QueuePasses

LEMMA EndIsPool ==
    ASSUME BatchInv, CancelByUser \/ Abort
    PROVE  Pool!Next
<1>1. ~Finished(batch) /\ ~Pool!Over
  BY DEF CancelByUser, Abort, Finished, Pool!Over
<1>2. /\ batch \in BatchRecord /\ batch.results \in [Tasks -> Results \cup {NoResult}]
      /\ "resolved" \in Phases /\ "rejected" \in Phases
  BY DEF BatchInv, BatchRecord, Phases
<1>3. CASE Abort
  <2>1. batch' = End(batch, "rejected")
    BY <1>3 DEF Abort
  <2>2. /\ batch'.phase = "rejected" /\ batch'.results = batch.results
        /\ batch'.active = {} /\ batch'.pending = << >>
    BY <1>2, <2>1, EndTyped
  <2>. QED
    BY <1>1, <2>2 DEF Pool!Next, Pool!Reject, Pool!Stop, ToSet
<1>4. CASE CancelByUser
  <2> DEFINE results == [t \in Tasks |-> CancelledResult(t)]
             b == [batch EXCEPT !.results = results]
  <2>1. \A t \in Tasks : /\ results[t] \in Results
                         /\ IF batch.results[t] # NoResult THEN results[t] = batch.results[t]
                            ELSE results[t].status = "aborted"
    BY <1>2 DEF CancelledResult, Result, Results
  <2>2. results \in [Tasks -> Results]
    BY <2>1
  <2>3. batch' = End(b, "resolved")
    BY <1>4 DEF CancelByUser
  <2>. HIDE DEF results
  <2>4. b \in BatchRecord /\ b.results = results
    BY <1>2, <2>2 DEF BatchRecord
  <2>. HIDE DEF b
  <2>5. /\ batch'.phase = "resolved" /\ batch'.results = results
        /\ batch'.active = {} /\ batch'.pending = << >>
    BY <1>2, <2>3, <2>4, EndTyped
  <2>. QED
    BY <1>1, <2>1, <2>2, <2>5 DEF Pool!Next, Pool!Cancel, Pool!Stop, ToSet
<1>. QED
  BY <1>3, <1>4

\* An attempt the batch listens to is released into the batch b, and its task has a
\* result or is back in the queue.
LEMMA SettleIsPool ==
    ASSUME BatchInv, NEW t \in batch.active, NEW b, Settle(t, b),
           LET r == [b EXCEPT !.active = @ \ {t}]
           IN  /\ Sane(r) /\ r.phase = batch.phase /\ r.active = batch.active \ {t}
               /\ \/ /\ \E result \in Results :
                            r.results = [batch.results EXCEPT ![t] = result]
                     /\ Queued(r) = Queued(batch)
                  \/ /\ r.results = batch.results /\ Queued(r) = {t} \cup Queued(batch)
                     /\ r.rateLimitMode /\ r.task[t].readyIn # 0
    PROVE  Pool!Next
<1> DEFINE r == [b EXCEPT !.active = @ \ {t}]
<1>1. /\ batch.phase = "running" /\ Placed(batch) /\ t \in Tasks
      /\ Queued(batch) \cap batch.active = {}
  BY DEF BatchInv, BatchRecord, Finished, Placed
<1>2. batch' = Schedule(r)
  BY DEF Settle, Becomes
<1>3. /\ Sane(r) /\ r.phase = "running" /\ r.active = batch.active \ {t}
      /\ \/ /\ \E result \in Results : r.results = [batch.results EXCEPT ![t] = result]
            /\ Queued(r) = Queued(batch)
         \/ /\ r.results = batch.results /\ Queued(r) = {t} \cup Queued(batch)
            /\ r.rateLimitMode /\ r.task[t].readyIn # 0
  BY <1>1
<1>. HIDE DEF r
<1> DEFINE rest == batch.active \ {t}
<1>4. rest \in SUBSET r.active /\ r.active \ rest \subseteq Queued(batch)
  BY <1>3
<1>5. ASSUME NEW result \in Results, r.results = [batch.results EXCEPT ![t] = result],
             Queued(r) = Queued(batch)
      PROVE  Pool!Next
  <2>1. /\ Queued(r) \cup r.active = Queued(batch) \cup {} \cup rest
        /\ (Queued(batch) \cup {}) \cap rest = {}
        /\ \A u \in Queued(r) : u \in Queued(batch)
    BY <1>1, <1>3, <1>5
  <2>2. Pool!Pass(r.results, rest, {})
    BY <1>2, <1>3, <1>4, <2>1, SchedulePasses
  <2>3. Pool!Finish(t)
    BY <1>1, <1>5, <2>2 DEF Pool!Finish
  <2>. QED
    BY <1>1, <2>3 DEF Pool!Next
<1>6. ASSUME r.results = batch.results, Queued(r) = {t} \cup Queued(batch),
             r.rateLimitMode, r.task[t].readyIn # 0
      PROVE  Pool!Next
  <2>1. /\ Queued(r) \cup r.active = Queued(batch) \cup {t} \cup rest
        /\ (Queued(batch) \cup {t}) \cap rest = {}
        /\ \A u \in Queued(r) : u \in Queued(batch) \/ (r.rateLimitMode /\ r.task[u].readyIn # 0)
    BY <1>1, <1>3, <1>6
  <2>2. Pool!Pass(r.results, rest, {t})
    BY <1>2, <1>3, <1>4, <2>1, SchedulePasses
  <2>3. Pool!GiveBack(t)
    BY <1>1, <1>6, <2>2 DEF Pool!GiveBack
  <2>. QED
    BY <1>1, <2>3 DEF Pool!Next
<1>. QED
  BY <1>3, <1>5, <1>6

\* An attempt ends with a result.
LEMMA ResultIsPool ==
    ASSUME BatchInv, NEW t \in Tasks, NEW result \in Results,
           Settle(t, [batch EXCEPT !.results[t] = result])
    PROVE  [Pool!Next]_(Pool!vars)
<1>1. CASE t \in batch.active
  <2> DEFINE b == [batch EXCEPT !.results[t] = result]
             r == [b EXCEPT !.active = @ \ {t}]
  <2>1. /\ Sane(r) /\ r.phase = batch.phase /\ r.active = batch.active \ {t}
        /\ r.results = [batch.results EXCEPT ![t] = result] /\ Queued(r) = Queued(batch)
    BY <1>1, FinishedIsReleased
  <2>2. Settle(t, b)
    OBVIOUS
  <2>. HIDE DEF b
  <2>. QED
    BY <1>1, <2>1, <2>2, SettleIsPool
<1>2. CASE t \notin batch.active
  <2>1. batch' = batch
    BY <1>2 DEF Settle
  <2>. QED
    BY <2>1, QuietStutters
<1>. QED
  BY <1>1, <1>2

LEMMA AttemptIsPool ==
    ASSUME BatchInv, NEW t \in Tasks, AttemptStep(t)
    PROVE  [Pool!Next]_(Pool!vars)
<1>1. CASE Launched(t)
  <2> DEFINE tasks == [batch.task EXCEPT ![t] = [@ EXCEPT !.agent = TRUE]]
  <2>1. batch' = batch \/ batch' = [batch EXCEPT !.task = tasks]
    BY <1>1 DEF Launched, BatchInv, BatchRecord
  <2>. HIDE DEF tasks
  <2>2. /\ batch'.phase = batch.phase /\ batch'.pending = batch.pending
        /\ batch'.active = batch.active /\ batch'.results = batch.results
    BY <2>1 DEF BatchInv, BatchRecord
  <2>. QED
    BY <2>2, QuietStutters
<1>2. CASE LaunchFails(t) \/ AttemptEnds(t)
  <2>1. PICK status \in {"completed", "failed"} : Settle(t, Settled(status, t))
    BY <1>2 DEF LaunchFails, AttemptEnds
  <2> DEFINE result == Result(status, IF batch.task[t].agent THEN "started" ELSE "not_started")
  <2>2. result \in Results
    BY DEF Result, Results
  <2>3. Settled(status, t) = [batch EXCEPT !.results[t] = result]
    BY DEF Settled
  <2>. HIDE DEF result
  <2>. QED
    BY <2>1, <2>2, <2>3, ResultIsPool
<1>3. CASE Ready(t)
  <2>1. PICK b \in BatchRecord, att \in [Tasks -> AttemptRecord] :
              /\ b.phase = "running" /\ b.pending = batch.pending
              /\ b.active = batch.active /\ b.results = batch.results
              /\ Becomes(Schedule(b), att) \/ Becomes(b, att)
    BY <1>3, ReadyIsHeard
  <2>2. batch.phase = "running" /\ Placed(batch)
    BY <1>3 DEF Ready, BatchInv, Finished
  <2>3. CASE batch' = b
    BY <2>1, <2>2, <2>3, QuietStutters
  <2>4. CASE batch' = Schedule(b)
    <3>1. Sane(b) /\ Queued(b) = Queued(batch)
      BY <2>1, <2>2 DEF Sane, Placed, Queued, Distinct
    <3>. QED
      BY <2>1, <2>2, <2>4, <3>1, QueuePasses DEF Finished
  <2>. QED
    BY <2>1, <2>3, <2>4 DEF Becomes
<1>4. CASE RateLimited(t)
  <2>1. /\ rateLimits < MaxRateLimits
        /\ Settle(t, IF IsOnlyUnfinishedTask(t)
                     THEN [batch EXCEPT !.results[t] = Result("failed", "started")]
                     ELSE Requeue(t))
    BY <1>4 DEF RateLimited
  <2>2. CASE IsOnlyUnfinishedTask(t)
    <3>1. Result("failed", "started") \in Results
      BY DEF Result, Results
    <3>. QED
      BY <2>1, <2>2, <3>1, ResultIsPool
  <2>3. CASE ~IsOnlyUnfinishedTask(t) /\ t \in batch.active
    <3> DEFINE b == Requeue(t)
               r == [b EXCEPT !.active = @ \ {t}]
    <3>1. /\ Sane(r) /\ r.phase = batch.phase /\ r.active = batch.active \ {t}
          /\ r.rateLimitMode /\ r.task[t].readyIn # 0
          /\ Queued(r) = {t} \cup Queued(batch) /\ r.results = batch.results
      BY <2>1, <2>3, RequeuedIsReleased
    <3>2. Settle(t, b)
      BY <2>1, <2>3
    <3>. HIDE DEF b
    <3>. QED
      BY <2>3, <3>1, <3>2, SettleIsPool
  <2>4. CASE ~IsOnlyUnfinishedTask(t) /\ t \notin batch.active
    <3>1. batch' = batch
      BY <2>1, <2>4 DEF Settle
    <3>. QED
      BY <3>1, QuietStutters
  <2>. QED
    BY <2>2, <2>3, <2>4
<1>. QED
  BY <1>1, <1>2, <1>3, <1>4 DEF AttemptStep

LEMMA TimeIsPool ==
    ASSUME BatchInv, NormalTimerFires \/ WakeTimerFires \/ Tick
    PROVE  [Pool!Next]_(Pool!vars)
<1>1. /\ batch \in BatchRecord /\ batch.phase = "running" /\ ~Finished(batch)
      /\ Placed(batch)
  BY BatchAssumption DEF NormalTimerFires, WakeTimerFires, Tick, BatchInv, Finished
<1>2. CASE NormalTimerFires /\ batch.pending = << >>
  <2> DEFINE b == [batch EXCEPT !.normalTimer = NoTimer]
  <2>1. /\ b.phase = batch.phase /\ b.pending = batch.pending
        /\ b.active = batch.active /\ b.results = batch.results
    BY <1>1 DEF BatchRecord
  <2>2. batch' = b
    BY <1>2, <2>1 DEF NormalTimerFires, Becomes
  <2>. HIDE DEF b
  <2>. QED
    BY <2>1, <2>2, QuietStutters
<1>3. CASE NormalTimerFires /\ batch.pending # << >>
  <2>1. PICK c : /\ Sane(c) /\ c.phase = "running" /\ c.results = batch.results
                 /\ batch.active \subseteq c.active
                 /\ Queued(c) \cup c.active = Queued(batch) \cup batch.active
                 /\ Becomes(Schedule(c), attempt)
    BY <1>3, HeadIsLaunched
  <2>. QED
    BY <1>1, <2>1, QueuePasses DEF Becomes
<1>4. CASE WakeTimerFires
  <2> DEFINE b == [batch EXCEPT !.wakeTimer = NoTimer]
  <2>1. batch' = Schedule(b)
    BY <1>4 DEF WakeTimerFires, Becomes
  <2>2. Launches(batch, b) /\ b.pending = batch.pending /\ b.active = batch.active
    BY <1>1, SetWakeTimer DEF Sane
  <2>. HIDE DEF b
  <2>3. /\ Sane(b) /\ b.phase = "running" /\ b.results = batch.results
        /\ Queued(b) = Queued(batch)
    BY <1>1, <2>2 DEF Launches, Queued
  <2>. QED
    BY <1>1, <2>1, <2>2, <2>3, QueuePasses
<1>5. CASE Tick
  <2> DEFINE tasks == [t \in Tasks |->
                          [batch.task[t] EXCEPT !.readyIn = Less(batch.task[t].readyIn)]]
  <2>1. batch' = [batch EXCEPT !.normalTimer = Less(@), !.wakeTimer = Less(@),
                               !.launchIn = Less(@), !.recoverIn = Less(@),
                               !.shrinkIn = Less(@), !.task = tasks]
    BY <1>5 DEF Tick
  <2>. HIDE DEF tasks
  <2>2. /\ batch'.phase = batch.phase /\ batch'.pending = batch.pending
        /\ batch'.active = batch.active /\ batch'.results = batch.results
    BY <1>1, <2>1 DEF BatchRecord
  <2>. QED
    BY <2>2, QuietStutters
<1>. QED
  BY <1>2, <1>3, <1>4, <1>5

\* The whole of SubagentBatch, seen as tasks that wait, are under way or have a result:
\* whatever the timers, the refusals and the late ends of attempts do, a task is launched
\* only from the queue, ends once, keeps its result, and the batch resolves with the last.
THEOREM RefinesTaskPool == Spec => ImplementsTaskPool
<1>1. Init => Pool!Init
  <2>1. [i \in Tasks |-> i] \in Seq(Tasks) /\ DOMAIN [i \in Tasks |-> i] = Tasks
    BY BatchAssumption DEF Tasks
  <2>2. ToSet([i \in Tasks |-> i]) = Tasks
    BY <2>1 DEF ToSet
  <2>. QED
    BY <2>2 DEF Init, NewBatch, Pool!Init
<1>2. BatchInv /\ [Next]_vars => [Pool!Next]_(Pool!vars)
  <2>. SUFFICES ASSUME BatchInv, [Next]_vars
                PROVE  [Pool!Next]_(Pool!vars)
    OBVIOUS
  <2>1. CASE UNCHANGED vars
    BY <2>1, QuietStutters DEF vars
  <2>. QED
    BY <2>1, RunIsPool, EndIsPool, AttemptIsPool, TimeIsPool DEF Next
<1>. QED
  BY <1>1, <1>2, InductiveInvariant, PTL DEF Spec, ImplementsTaskPool, Pool!Spec

-----------------------------------------------------------------------------
(* The batch is never stuck *)

Watched(b) ==
    b.phase = "running" =>
        IF b.pending = << >> THEN b.active # {}
        ELSE IF b.rateLimitMode THEN b.wakeTimer # NoTimer
        ELSE b.normalTimer # NoTimer

LEMMA WakeupWatches ==
    ASSUME NEW b, Sane(b), b.rateLimitMode
    PROVE  LET c == ScheduleWakeup(b)
           IN  c.rateLimitMode /\ (c.pending # << >> => c.wakeTimer # NoTimer)
<1>1. b \in BatchRecord /\ NoTimer \notin Nat
  BY BatchAssumption DEF Sane
<1>2. CASE b.pending = << >>
  BY <1>2 DEF ScheduleWakeup
<1>3. CASE b.pending # << >>
  <2> DEFINE timer == IF HasCapacity(b) THEN NextWakeup(b) ELSE b.recoverIn
  <2>1. timer \in Nat
    BY <1>1, <1>3, WakeupTyped DEF BatchRecord
  <2>2. ScheduleWakeup(b) = [b EXCEPT !.wakeTimer = timer]
    BY <1>3 DEF ScheduleWakeup
  <2>. HIDE DEF timer
  <2>. QED
    BY <1>1, <2>1, <2>2 DEF BatchRecord
<1>. QED
  BY <1>2, <1>3

LEMMA RateLimitWatches ==
    ASSUME NEW b, Sane(b), b.rateLimitMode
    PROVE  LET c == ScheduleRateLimitLaunch(b)
           IN  c.rateLimitMode /\ (c.pending # << >> => c.wakeTimer # NoTimer)
<1> DEFINE quiet == [b EXCEPT !.wakeTimer = NoTimer]
           grown == IF b.pending = << >> THEN quiet ELSE Recover(quiet)
<1>1. Sane(quiet) /\ quiet.rateLimitMode /\ quiet.pending = b.pending
  BY SetWakeTimer DEF Launches
<1>2. ScheduleRateLimitLaunch(b)
        = IF grown.pending # << >> /\ HasCapacity(grown) /\ NextWakeup(grown) = 0
          THEN ScheduleWakeup(StartFirstEligible(grown)) ELSE ScheduleWakeup(grown)
  BY DEF ScheduleRateLimitLaunch
<1>. HIDE DEF quiet
<1>3. Sane(grown) /\ grown.rateLimitMode /\ (grown.pending # << >> => grown.recoverIn # 0)
  BY <1>1, RecoverKeeps DEF Launches
<1>. HIDE DEF grown
<1>4. CASE grown.pending # << >> /\ NextWakeup(grown) = 0
  <2> DEFINE c == StartFirstEligible(grown)
  <2>1. Sane(c)
    BY <1>3, <1>4, WakeupTyped, StartLaunches DEF Launches, Sane
  <2>2. c.rateLimitMode = grown.rateLimitMode
    BY <1>3 DEF StartFirstEligible, Sane, BatchRecord
  <2>. HIDE DEF c
  <2>3. LET d == ScheduleWakeup(c)
        IN  d.rateLimitMode /\ (d.pending # << >> => d.wakeTimer # NoTimer)
    BY <1>3, <2>1, <2>2, WakeupWatches
  <2>. QED
    BY <1>2, <1>3, <2>3, WakeupWatches DEF c
<1>5. CASE ~(grown.pending # << >> /\ NextWakeup(grown) = 0)
  BY <1>2, <1>3, <1>5, WakeupWatches
<1>. QED
  BY <1>4, <1>5

LEMMA NormalWatches ==
    ASSUME NEW b, Sane(b), ~b.rateLimitMode
    PROVE  LET c == ScheduleNormalLaunch(b)
           IN  ~c.rateLimitMode /\ (c.pending # << >> => c.normalTimer # NoTimer)
<1>1. /\ b \in BatchRecord /\ InitialLaunchInterval \in Nat /\ NoTimer \notin Nat
  BY BatchAssumption DEF Sane
<1> DEFINE room == IF b.normalLaunchCount < InitialLaunchLimit
                   THEN InitialLaunchLimit - b.normalLaunchCount ELSE 0
           n    == Least({room, Len(b.pending)})
           rest == SubSeq(b.pending, n + 1, Len(b.pending))
           head == {b.pending[i] : i \in 1..n}
           timer == IF rest # << >> /\ b.normalTimer = NoTimer
                    THEN InitialLaunchInterval ELSE b.normalTimer
           c == [b EXCEPT !.pending = rest, !.active = b.active \cup head,
                          !.normalLaunchCount = b.normalLaunchCount + n,
                          !.normalTimer = timer]
<1>2. ScheduleNormalLaunch(b) = c
  BY DEF ScheduleNormalLaunch
<1>3. rest # << >> => timer # NoTimer
  BY <1>1
<1>. HIDE DEF n, rest, head, timer
<1>4. c.pending = rest /\ c.normalTimer = timer /\ c.rateLimitMode = b.rateLimitMode
  BY <1>1 DEF BatchRecord
<1>. QED
  BY <1>2, <1>3, <1>4

LEMMA ScheduleWatches ==
    ASSUME NEW b, Sane(b), b.phase = "running"
    PROVE  Watched(Schedule(b))
<1> DEFINE c == Schedule(b)
<1>1. CASE Complete(b)
  <2>1. c = End(b, "resolved")
    BY <1>1 DEF Schedule, Finished
  <2>2. c.phase = "resolved"
    BY <2>1, EndTyped DEF Sane, Phases
  <2>. HIDE DEF c
  <2>. QED
    BY <2>2 DEF Watched, c
<1>2. CASE ~Complete(b)
  <2>1. Launches(b, c)
    BY <1>2, ScheduleLaunches DEF Finished
  <2>2. IF c.rateLimitMode THEN c.pending # << >> => c.wakeTimer # NoTimer
        ELSE c.pending # << >> => c.normalTimer # NoTimer
    <3>1. CASE b.rateLimitMode
      <4>1. c = ScheduleRateLimitLaunch(b)
        BY <1>2, <3>1 DEF Schedule, Finished
      <4>. HIDE DEF c
      <4>2. c.rateLimitMode /\ (c.pending # << >> => c.wakeTimer # NoTimer)
        BY <3>1, <4>1, RateLimitWatches
      <4>. QED
        BY <4>2
    <3>2. CASE ~b.rateLimitMode
      <4>1. c = ScheduleNormalLaunch(b)
        BY <1>2, <3>2 DEF Schedule, Finished
      <4>. HIDE DEF c
      <4>2. ~c.rateLimitMode /\ (c.pending # << >> => c.normalTimer # NoTimer)
        BY <3>2, <4>1, NormalWatches
      <4>. QED
        BY <4>2
    <3>. QED
      BY <3>1, <3>2
  <2>. HIDE DEF c
  <2>3. c.pending = << >> => c.active # {}
    <3>1. PICK t \in Tasks : b.results[t] = NoResult
      BY <1>2 DEF Complete
    <3>2. t \in Queued(c) \cup c.active
      BY <2>1, <3>1 DEF Launches, Sane, Placed
    <3>3. c.pending = << >> => Queued(c) = {}
      BY DEF Queued
    <3>. QED
      BY <3>2, <3>3
  <2>. QED
    BY <2>2, <2>3 DEF Watched, c
<1>. QED
  BY <1>1, <1>2

\* A callback that leaves the queue, the attempts and the timers alone.
LEMMA StillWatched ==
    ASSUME Watched(batch), batch'.phase = batch.phase, batch'.pending = batch.pending,
           batch'.active = batch.active, batch'.rateLimitMode = batch.rateLimitMode,
           batch.normalTimer # NoTimer => batch'.normalTimer # NoTimer,
           batch.wakeTimer # NoTimer => batch'.wakeTimer # NoTimer
    PROVE  Watched(batch')
BY DEF Watched

LEMMA ResultWatched ==
    ASSUME BatchInv, Watched(batch), NEW t \in Tasks, NEW result \in Results,
           Settle(t, [batch EXCEPT !.results[t] = result])
    PROVE  Watched(batch')
<1>1. CASE t \in batch.active
  <2> DEFINE b == [batch EXCEPT !.results[t] = result]
             r == [b EXCEPT !.active = @ \ {t}]
  <2>1. Sane(r) /\ r.phase = batch.phase
    BY <1>1, FinishedIsReleased
  <2>2. batch' = Schedule(r) /\ batch.phase = "running"
    BY <1>1 DEF Settle, Becomes, BatchInv
  <2>. HIDE DEF r
  <2>. QED
    BY <2>1, <2>2, ScheduleWatches
<1>2. CASE t \notin batch.active
  BY <1>2 DEF Settle
<1>. QED
  BY <1>1, <1>2

LEMMA AttemptWatched ==
    ASSUME BatchInv, Watched(batch), NEW t \in Tasks, AttemptStep(t)
    PROVE  Watched(batch')
<1>1. CASE Launched(t)
  <2> DEFINE tasks == [batch.task EXCEPT ![t] = [@ EXCEPT !.agent = TRUE]]
  <2>1. batch' = batch \/ batch' = [batch EXCEPT !.task = tasks]
    BY <1>1 DEF Launched, BatchInv, BatchRecord
  <2>. HIDE DEF tasks
  <2>2. /\ batch'.phase = batch.phase /\ batch'.pending = batch.pending
        /\ batch'.active = batch.active /\ batch'.rateLimitMode = batch.rateLimitMode
        /\ batch'.normalTimer = batch.normalTimer /\ batch'.wakeTimer = batch.wakeTimer
    BY <2>1 DEF BatchInv, BatchRecord
  <2>. QED
    BY <2>2, StillWatched
<1>2. CASE LaunchFails(t) \/ AttemptEnds(t)
  <2>1. PICK status \in {"completed", "failed"} : Settle(t, Settled(status, t))
    BY <1>2 DEF LaunchFails, AttemptEnds
  <2> DEFINE result == Result(status, IF batch.task[t].agent THEN "started" ELSE "not_started")
  <2>2. result \in Results
    BY DEF Result, Results
  <2>3. Settled(status, t) = [batch EXCEPT !.results[t] = result]
    BY DEF Settled
  <2>. HIDE DEF result
  <2>. QED
    BY <2>1, <2>2, <2>3, ResultWatched
<1>3. CASE Ready(t)
  <2>1. PICK b \in BatchRecord, att \in [Tasks -> AttemptRecord] :
              /\ b.phase = "running" /\ b.pending = batch.pending
              /\ b.active = batch.active /\ b.results = batch.results
              /\ b.rateLimitMode = batch.rateLimitMode
              /\ b.normalTimer = batch.normalTimer /\ b.wakeTimer = batch.wakeTimer
              /\ Becomes(Schedule(b), att) \/ Becomes(b, att)
    BY <1>3, ReadyIsHeard
  <2>2. batch.phase = "running" /\ Placed(batch)
    BY <1>3 DEF Ready, BatchInv, Finished
  <2>3. CASE batch' = b
    BY <2>1, <2>2, <2>3, StillWatched
  <2>4. CASE batch' = Schedule(b)
    <3>1. Sane(b)
      BY <2>1, <2>2 DEF Sane, Placed, Queued, Distinct
    <3>. QED
      BY <2>1, <2>4, <3>1, ScheduleWatches
  <2>. QED
    BY <2>1, <2>3, <2>4 DEF Becomes
<1>4. CASE RateLimited(t)
  <2>1. /\ rateLimits < MaxRateLimits
        /\ Settle(t, IF IsOnlyUnfinishedTask(t)
                     THEN [batch EXCEPT !.results[t] = Result("failed", "started")]
                     ELSE Requeue(t))
    BY <1>4 DEF RateLimited
  <2>2. CASE IsOnlyUnfinishedTask(t)
    <3>1. Result("failed", "started") \in Results
      BY DEF Result, Results
    <3>. QED
      BY <2>1, <2>2, <3>1, ResultWatched
  <2>3. CASE ~IsOnlyUnfinishedTask(t) /\ t \in batch.active
    <3> DEFINE b == Requeue(t)
               r == [b EXCEPT !.active = @ \ {t}]
    <3>1. Sane(r) /\ r.phase = batch.phase
      BY <2>1, <2>3, RequeuedIsReleased
    <3>2. batch' = Schedule(r) /\ batch.phase = "running"
      BY <2>1, <2>3 DEF Settle, Becomes, BatchInv
    <3>. HIDE DEF r
    <3>. QED
      BY <3>1, <3>2, ScheduleWatches
  <2>4. CASE ~IsOnlyUnfinishedTask(t) /\ t \notin batch.active
    BY <2>1, <2>4 DEF Settle
  <2>. QED
    BY <2>2, <2>3, <2>4
<1>. QED
  BY <1>1, <1>2, <1>3, <1>4 DEF AttemptStep

LEMMA TimeWatched ==
    ASSUME BatchInv, Watched(batch), NormalTimerFires \/ WakeTimerFires \/ Tick
    PROVE  Watched(batch')
<1>1. /\ batch \in BatchRecord /\ batch.phase = "running" /\ Placed(batch)
  BY BatchAssumption DEF NormalTimerFires, WakeTimerFires, Tick, BatchInv, Finished
<1>2. CASE NormalTimerFires /\ batch.pending = << >>
  <2> DEFINE b == [batch EXCEPT !.normalTimer = NoTimer]
  <2>1. b.phase = batch.phase /\ b.pending = batch.pending /\ b.active = batch.active
    BY <1>1 DEF BatchRecord
  <2>2. batch' = b
    BY <1>2, <2>1 DEF NormalTimerFires, Becomes
  <2>. HIDE DEF b
  <2>. QED
    BY <1>2, <2>1, <2>2 DEF Watched
<1>3. CASE NormalTimerFires /\ batch.pending # << >>
  <2>1. PICK c : Sane(c) /\ c.phase = "running" /\ Becomes(Schedule(c), attempt)
    BY <1>3, HeadIsLaunched
  <2>. QED
    BY <2>1, ScheduleWatches DEF Becomes
<1>4. CASE WakeTimerFires
  <2> DEFINE b == [batch EXCEPT !.wakeTimer = NoTimer]
  <2>1. batch' = Schedule(b)
    BY <1>4 DEF WakeTimerFires, Becomes
  <2>2. Launches(batch, b)
    BY <1>1, SetWakeTimer DEF Sane
  <2>. HIDE DEF b
  <2>3. Sane(b) /\ b.phase = "running"
    BY <1>1, <2>2 DEF Launches
  <2>. QED
    BY <2>1, <2>3, ScheduleWatches
<1>5. CASE Tick
  <2> DEFINE tasks == [t \in Tasks |->
                          [batch.task[t] EXCEPT !.readyIn = Less(batch.task[t].readyIn)]]
  <2>1. batch' = [batch EXCEPT !.normalTimer = Less(@), !.wakeTimer = Less(@),
                               !.launchIn = Less(@), !.recoverIn = Less(@),
                               !.shrinkIn = Less(@), !.task = tasks]
    BY <1>5 DEF Tick
  <2>. HIDE DEF tasks
  <2>2. /\ batch'.phase = batch.phase /\ batch'.pending = batch.pending
        /\ batch'.active = batch.active /\ batch'.rateLimitMode = batch.rateLimitMode
        /\ batch'.normalTimer = Less(batch.normalTimer)
        /\ batch'.wakeTimer = Less(batch.wakeTimer)
    BY <1>1, <2>1 DEF BatchRecord
  <2>3. \A x \in Nat \cup {NoTimer} : x # NoTimer => Less(x) # NoTimer
    BY BatchAssumption DEF Less
  <2>4. batch.normalTimer \in Nat \cup {NoTimer} /\ batch.wakeTimer \in Nat \cup {NoTimer}
    BY <1>1 DEF BatchRecord
  <2>. QED
    BY <2>2, <2>3, <2>4, StillWatched
<1>. QED
  BY <1>2, <1>3, <1>4, <1>5

\* schedule, from every callback: while the batch runs there is an attempt whose end will
\* be heard, or the timer of its mode is set for what is queued.
THEOREM BatchIsNeverStuck == Spec => []NeverStuck
<1>1. Init => Watched(batch)
  BY NewBatchTyped DEF Init, Watched
<1>2. BatchInv /\ Watched(batch) /\ [Next]_vars => Watched(batch)'
  <2>. SUFFICES ASSUME BatchInv, Watched(batch), [Next]_vars
                PROVE  Watched(batch')
    OBVIOUS
  <2>1. CASE UNCHANGED vars
    BY <2>1 DEF vars
  <2>2. CASE Run
    <3> DEFINE b == [batch EXCEPT !.phase = "running"]
    <3>1. batch.phase = "created" /\ batch' = Schedule(b)
      BY <2>2 DEF Run, Becomes
    <3>2. /\ b \in BatchRecord /\ b.phase = "running" /\ b.pending = batch.pending
          /\ b.active = batch.active /\ b.results = batch.results
      BY DEF BatchInv, BatchRecord, Phases
    <3>. HIDE DEF b
    <3>3. Sane(b)
      BY <3>1, <3>2 DEF BatchInv, Sane, Placed, Queued, Distinct, Finished
    <3>. QED
      BY <3>1, <3>2, <3>3, ScheduleWatches
  <2>3. CASE CancelByUser \/ Abort
    <3>1. batch'.phase # "running"
      <4>1. \A b : \A phase \in Phases : End(b, phase).phase = phase
        BY NewBatchTyped DEF End, BatchRecord
      <4>. QED
        BY <2>3, <4>1 DEF CancelByUser, Abort, Phases
    <3>. QED
      BY <3>1 DEF Watched
  <2>. QED
    BY <2>1, <2>2, <2>3, AttemptWatched, TimeWatched DEF Next
<1>3. Watched(batch) => NeverStuck
  BY DEF Watched, NeverStuck
<1>. QED
  BY <1>1, <1>2, <1>3, InductiveInvariant, PTL DEF Spec

-----------------------------------------------------------------------------
(* The timers and the limits of the batch *)

\* No timer is set further ahead than its interval, the next recovery is never further away
\* than one, there is room for one attempt at least, and the launch interval never shrinks
\* below the base.
Paced(b) ==
    /\ b.normalTimer \in 0..InitialLaunchInterval \cup {NoTimer}
    /\ b.wakeTimer \in 0..CapacityRecoveryInterval \cup {NoTimer}
    /\ b.recoverIn <= CapacityRecoveryInterval
    /\ b.capacity # 0
    /\ b.interval >= RetryBase

\* The fields that pace a batch.
SamePace(b, c) ==
    /\ c.normalTimer = b.normalTimer /\ c.wakeTimer = b.wakeTimer
    /\ c.recoverIn = b.recoverIn /\ c.capacity = b.capacity /\ c.interval = b.interval

LEMMA SamePacePaced ==
    ASSUME NEW b, NEW c, Paced(b), SamePace(b, c)
    PROVE  Paced(c)
BY DEF Paced, SamePace

LEMMA NewBatchPaced ==
    /\ Paced(NewBatch)
    /\ \A b, phase : Paced(End(b, phase))
<1>1. /\ NewBatch.normalTimer = NoTimer /\ NewBatch.wakeTimer = NoTimer
      /\ NewBatch.recoverIn = 0 /\ NewBatch.capacity = 1 /\ NewBatch.interval = RetryBase
  BY DEF NewBatch
<1>2. Paced(NewBatch)
  BY <1>1, BatchAssumption DEF Paced
<1>3. ASSUME NEW b, NEW phase
      PROVE  SamePace(NewBatch, End(b, phase))
  BY DEF End, SamePace, NewBatch
<1>. QED
  BY <1>2, <1>3, SamePacePaced

LEMMA WakeupPaced ==
    ASSUME NEW b \in BatchRecord, Paced(b)
    PROVE  Paced(ScheduleWakeup(b))
<1>1. CASE b.pending = << >>
  BY <1>1 DEF ScheduleWakeup
<1>2. CASE b.pending # << >>
  <2> DEFINE timer == IF HasCapacity(b) THEN NextWakeup(b) ELSE b.recoverIn
             times == {b.task[b.pending[i]].readyIn : i \in DOMAIN b.pending}
             soonest == Most(b.launchIn, NextPendingReady(b))
  <2>1. soonest \in Nat /\ b.recoverIn \in Nat
    <3>1. /\ b.pending \in Seq(Tasks) /\ b.task \in [Tasks -> TaskRecord]
          /\ b.launchIn \in Nat /\ b.recoverIn \in Nat
      BY DEF BatchRecord
    <3>2. times \in SUBSET Nat /\ times # {}
      BY <1>2, <3>1, SMTT(30) DEF TaskRecord
    <3>3. NextPendingReady(b) \in Nat
      BY <3>2, LeastExists DEF NextPendingReady
    <3>. QED
      BY <3>1, <3>3, MostOfTwo
  <2>2. NextWakeup(b) \in Nat /\ NextWakeup(b) <= b.recoverIn
    <3>1. NextWakeup(b) = Least({soonest, b.recoverIn})
      BY DEF NextWakeup
    <3>. HIDE DEF soonest
    <3>. QED
      BY <2>1, <3>1, LeastOfTwo
  <2>3. timer \in 0..CapacityRecoveryInterval
    BY <2>1, <2>2, BatchAssumption DEF Paced
  <2>4. ScheduleWakeup(b) = [b EXCEPT !.wakeTimer = timer]
    BY <1>2 DEF ScheduleWakeup
  <2>. HIDE DEF timer
  <2> DEFINE c == [b EXCEPT !.wakeTimer = timer]
  <2>5. /\ c.normalTimer = b.normalTimer /\ c.wakeTimer = timer
        /\ c.recoverIn = b.recoverIn /\ c.capacity = b.capacity /\ c.interval = b.interval
    BY DEF BatchRecord
  <2>. HIDE DEF c
  <2>. QED
    BY <2>3, <2>4, <2>5 DEF Paced, c
<1>. QED
  BY <1>1, <1>2

LEMMA RecoverPaced ==
    ASSUME NEW b \in BatchRecord, Paced(b)
    PROVE  Paced(Recover(b))
<1>1. CASE b.recoverIn > 0
  BY <1>1 DEF Recover
<1>2. CASE ~(b.recoverIn > 0)
  <2> DEFINE c == [b EXCEPT !.capacity = b.capacity + 1,
                            !.recoverIn = CapacityRecoveryInterval, !.launchIn = 0]
  <2>1. Recover(b) = c
    BY <1>2 DEF Recover
  <2>2. /\ c.normalTimer = b.normalTimer /\ c.wakeTimer = b.wakeTimer
        /\ c.recoverIn = CapacityRecoveryInterval /\ c.capacity = b.capacity + 1
        /\ c.interval = b.interval
    BY DEF BatchRecord
  <2>3. b.capacity \in Nat /\ CapacityRecoveryInterval \in Nat
    BY BatchAssumption DEF BatchRecord
  <2>. HIDE DEF c
  <2>. QED
    BY <2>1, <2>2, <2>3 DEF Paced
<1>. QED
  BY <1>1, <1>2

LEMMA RateLimitPaced ==
    ASSUME NEW b, Sane(b), Paced(b)
    PROVE  Paced(ScheduleRateLimitLaunch(b))
<1> DEFINE quiet == [b EXCEPT !.wakeTimer = NoTimer]
           grown == IF b.pending = << >> THEN quiet ELSE Recover(quiet)
           c == StartFirstEligible(grown)
<1>1. Sane(quiet) /\ quiet.pending = b.pending
  BY SetWakeTimer DEF Launches
<1>2. Paced(quiet)
  <2>1. /\ quiet.normalTimer = b.normalTimer /\ quiet.wakeTimer = NoTimer
        /\ quiet.recoverIn = b.recoverIn /\ quiet.capacity = b.capacity
        /\ quiet.interval = b.interval
    BY DEF Sane, BatchRecord
  <2>. HIDE DEF quiet
  <2>. QED
    BY <2>1 DEF Paced
<1>3. ScheduleRateLimitLaunch(b)
        = IF grown.pending # << >> /\ HasCapacity(grown) /\ NextWakeup(grown) = 0
          THEN ScheduleWakeup(c) ELSE ScheduleWakeup(grown)
  BY DEF ScheduleRateLimitLaunch
<1>. HIDE DEF quiet
<1>4. Sane(grown) /\ Paced(grown) /\ (grown.pending # << >> => grown.recoverIn # 0)
  BY <1>1, <1>2, RecoverKeeps, RecoverPaced DEF Launches, Sane
<1>. HIDE DEF grown
<1>5. CASE grown.pending # << >> /\ NextWakeup(grown) = 0
  <2>1. c \in BatchRecord
    BY <1>4, <1>5, WakeupTyped, StartLaunches DEF Launches, Sane
  <2>2. SamePace(grown, c)
    BY <1>4 DEF StartFirstEligible, Sane, BatchRecord, SamePace
  <2>. HIDE DEF c
  <2>. QED
    BY <1>3, <1>4, <2>1, <2>2, SamePacePaced, WakeupPaced DEF Sane
<1>6. CASE ~(grown.pending # << >> /\ NextWakeup(grown) = 0)
  BY <1>3, <1>4, <1>6, WakeupPaced DEF Sane
<1>. QED
  BY <1>5, <1>6

LEMMA NormalPaced ==
    ASSUME NEW b, Sane(b), Paced(b)
    PROVE  Paced(ScheduleNormalLaunch(b))
<1> DEFINE room == IF b.normalLaunchCount < InitialLaunchLimit
                   THEN InitialLaunchLimit - b.normalLaunchCount ELSE 0
           n    == Least({room, Len(b.pending)})
           rest == SubSeq(b.pending, n + 1, Len(b.pending))
           head == {b.pending[i] : i \in 1..n}
           timer == IF rest # << >> /\ b.normalTimer = NoTimer
                    THEN InitialLaunchInterval ELSE b.normalTimer
           c == [b EXCEPT !.pending = rest, !.active = b.active \cup head,
                          !.normalLaunchCount = b.normalLaunchCount + n,
                          !.normalTimer = timer]
<1>1. ScheduleNormalLaunch(b) = c
  BY DEF ScheduleNormalLaunch
<1>2. timer \in 0..InitialLaunchInterval \cup {NoTimer}
  BY BatchAssumption DEF Paced
<1>. HIDE DEF n, rest, head, timer
<1>3. /\ c.normalTimer = timer /\ c.wakeTimer = b.wakeTimer
      /\ c.recoverIn = b.recoverIn /\ c.capacity = b.capacity /\ c.interval = b.interval
  BY DEF Sane, BatchRecord
<1>. HIDE DEF c
<1>. QED
  BY <1>1, <1>2, <1>3 DEF Paced

LEMMA SchedulePaced ==
    ASSUME NEW b, Sane(b), Paced(b)
    PROVE  Paced(Schedule(b))
BY NewBatchPaced, RateLimitPaced, NormalPaced DEF Schedule

LEMMA ShrinkPaced ==
    ASSUME NEW b \in BatchRecord, Paced(b), NEW force \in BOOLEAN
    PROVE  Shrink(b, force) \in BatchRecord /\ Paced(Shrink(b, force))
<1> DEFINE less == Most(1, b.capacity - 1)
           c == [b EXCEPT !.capacity = less, !.shrinkIn = CapacityShrinkInterval]
<1>1. less \in Nat /\ less # 0 /\ CapacityShrinkInterval \in Nat
  BY BatchAssumption DEF BatchRecord, Most
<1>. HIDE DEF less
<1>2. c \in BatchRecord
  BY <1>1 DEF BatchRecord
<1>3. /\ c.normalTimer = b.normalTimer /\ c.wakeTimer = b.wakeTimer
      /\ c.recoverIn = b.recoverIn /\ c.capacity = less /\ c.interval = b.interval
  BY DEF BatchRecord
<1>4. Shrink(b, force) \in {b, c}
  BY DEF Shrink, less
<1>. HIDE DEF c
<1>. QED
  BY <1>1, <1>2, <1>3, <1>4 DEF Paced

\* The provider refuses an attempt: the capacity shrinks, but not to nothing, and the
\* interval grows.
LEMMA RequeuePaced ==
    ASSUME BatchInv, Paced(batch), NEW t \in batch.active, rateLimits < MaxRateLimits
    PROVE  Paced(Requeue(t))
<1> DEFINE count == batch.task[t].retryCount
           delay == RetryDelay(count + 1)
           record == [batch.task[t] EXCEPT !.agent = TRUE, !.retryCount = @ + 1,
                                           !.readyIn = delay]
           tasks == [batch.task EXCEPT ![t] = record]
           queue == <<t>> \o batch.pending
           first == [batch EXCEPT !.task = tasks, !.pending = queue,
                                  !.recoverIn = CapacityRecoveryInterval]
           limited == [first EXCEPT !.rateLimitMode = TRUE, !.normalTimer = NoTimer,
                                    !.capacity = Most(1, first.startedSuccessCount),
                                    !.launchIn = Most(first.launchIn, RetryBase)]
           b == EnterRateLimitMode(first)
           interval == Most(b.interval * 2, delay)
           c == Requeue(t)
<1>1. /\ batch \in BatchRecord /\ t \in Tasks /\ batch.pending \in Seq(Tasks)
      /\ batch.task \in [Tasks -> TaskRecord] /\ batch.task[t] \in TaskRecord
      /\ count \in 0..rateLimits /\ rateLimits \in Nat /\ MaxRateLimits \in Nat
  BY BatchAssumption DEF BatchInv, BatchRecord, TaskRecord
<1>2. delay \in Nat
  <2>1. 2^count \in Nat /\ RetryBase \in Nat /\ (count + 1) - 1 = count
    BY <1>1, BatchAssumption
  <2>2. delay = RetryBase * 2^count
    BY <2>1 DEF RetryDelay
  <2> DEFINE power == 2^count
  <2>. HIDE DEF power
  <2>3. RetryBase * power \in Nat
    BY <2>1 DEF power
  <2>. QED
    BY <2>2, <2>3 DEF power
<1>3. record \in TaskRecord
  <2>1. batch.task[t] \in TaskRecord /\ count + 1 \in Nat /\ delay \in Nat
    BY <1>1, <1>2
  <2>. HIDE DEF delay
  <2>. QED
    BY <2>1 DEF TaskRecord
<1>. HIDE DEF delay, record
<1>4. tasks \in [Tasks -> TaskRecord] /\ queue \in Seq(Tasks)
  BY <1>1, <1>3
<1>. HIDE DEF tasks, queue
<1>5. first \in BatchRecord /\ Paced(first)
  <2>1. CapacityRecoveryInterval \in Nat
    BY BatchAssumption
  <2>2. /\ first \in BatchRecord
        /\ first.normalTimer = batch.normalTimer /\ first.wakeTimer = batch.wakeTimer
        /\ first.recoverIn = CapacityRecoveryInterval /\ first.capacity = batch.capacity
        /\ first.interval = batch.interval
    BY <1>1, <1>4, <2>1 DEF BatchRecord
  <2>. HIDE DEF first
  <2>. QED
    BY <2>1, <2>2 DEF Paced
<1>6. first = [batch EXCEPT !.task[t] = record, !.pending = <<t>> \o @,
                            !.recoverIn = CapacityRecoveryInterval]
  BY DEF tasks, queue
<1>7. \/ c = [b EXCEPT !.launchIn = Most(b.launchIn, RetryBase)]
      \/ c = [b EXCEPT !.interval = interval, !.launchIn = Most(b.launchIn, interval)]
  BY <1>6 DEF Requeue, delay, record
<1>. HIDE DEF first, c
<1>8. b \in BatchRecord /\ Paced(b)
  <2>1. CASE first.rateLimitMode
    BY <1>5, <2>1, ShrinkPaced DEF EnterRateLimitMode
  <2>2. CASE ~first.rateLimitMode
    <3>1. /\ Most(1, first.startedSuccessCount) \in Nat \ {0}
          /\ Most(first.launchIn, RetryBase) \in Nat
      BY <1>5, BatchAssumption DEF BatchRecord, Most
    <3>2. /\ limited \in BatchRecord
          /\ limited.normalTimer = NoTimer /\ limited.wakeTimer = first.wakeTimer
          /\ limited.recoverIn = first.recoverIn
          /\ limited.capacity = Most(1, first.startedSuccessCount)
          /\ limited.interval = first.interval
      BY <1>5, <3>1 DEF BatchRecord
    <3>3. b = Shrink(limited, TRUE)
      BY <2>2 DEF EnterRateLimitMode
    <3>. HIDE DEF limited, b
    <3>4. Paced(limited)
      BY <1>5, <3>1, <3>2 DEF Paced
    <3>. QED
      BY <3>2, <3>3, <3>4, ShrinkPaced
  <2>. QED
    BY <2>1, <2>2
<1>. HIDE DEF b
<1>9. interval >= RetryBase
  <2>1. b.interval \in Nat /\ RetryBase \in Nat /\ b.interval >= RetryBase
    BY <1>8, BatchAssumption DEF BatchRecord, Paced
  <2>. QED
    BY <1>2, <2>1 DEF Most
<1>. HIDE DEF interval
<1>10. /\ c.normalTimer = b.normalTimer /\ c.wakeTimer = b.wakeTimer
       /\ c.recoverIn = b.recoverIn /\ c.capacity = b.capacity
       /\ c.interval \in {b.interval, interval}
  BY <1>7, <1>8 DEF BatchRecord
<1>. QED
  BY <1>8, <1>9, <1>10 DEF Paced, c

LEMMA ResultPaced ==
    ASSUME BatchInv, Paced(batch), NEW t \in Tasks, NEW result \in Results,
           Settle(t, [batch EXCEPT !.results[t] = result])
    PROVE  Paced(batch')
<1>1. CASE t \in batch.active
  <2> DEFINE results == [batch.results EXCEPT ![t] = result]
             active == batch.active \ {t}
             b == [batch EXCEPT !.results[t] = result]
             r == [b EXCEPT !.active = @ \ {t}]
  <2>1. Sane(r)
    BY <1>1, FinishedIsReleased
  <2>2. batch' = Schedule(r)
    BY <1>1 DEF Settle, Becomes
  <2>3. SamePace(batch, r)
    BY DEF BatchInv, BatchRecord, SamePace
  <2>. HIDE DEF r
  <2>. QED
    BY <2>1, <2>2, <2>3, SamePacePaced, SchedulePaced
<1>2. CASE t \notin batch.active
  BY <1>2 DEF Settle
<1>. QED
  BY <1>1, <1>2

LEMMA AttemptPaced ==
    ASSUME BatchInv, Paced(batch), NEW t \in Tasks, AttemptStep(t)
    PROVE  Paced(batch')
<1>1. CASE Launched(t)
  <2> DEFINE tasks == [batch.task EXCEPT ![t] = [@ EXCEPT !.agent = TRUE]]
  <2>1. batch' = batch \/ batch' = [batch EXCEPT !.task = tasks]
    BY <1>1 DEF Launched, BatchInv, BatchRecord
  <2>. HIDE DEF tasks
  <2>2. SamePace(batch, batch')
    BY <2>1 DEF BatchInv, BatchRecord, SamePace
  <2>. QED
    BY <2>2, SamePacePaced
<1>2. CASE LaunchFails(t) \/ AttemptEnds(t)
  <2>1. PICK status \in {"completed", "failed"} : Settle(t, Settled(status, t))
    BY <1>2 DEF LaunchFails, AttemptEnds
  <2> DEFINE result == Result(status, IF batch.task[t].agent THEN "started" ELSE "not_started")
  <2>2. result \in Results
    BY DEF Result, Results
  <2>3. Settled(status, t) = [batch EXCEPT !.results[t] = result]
    BY DEF Settled
  <2>. HIDE DEF result
  <2>. QED
    BY <2>1, <2>2, <2>3, ResultPaced
<1>3. CASE Ready(t)
  <2>1. PICK b \in BatchRecord, att \in [Tasks -> AttemptRecord] :
              /\ b.phase = "running" /\ b.pending = batch.pending
              /\ b.active = batch.active /\ b.results = batch.results
              /\ b.normalTimer = batch.normalTimer /\ b.wakeTimer = batch.wakeTimer
              /\ b.recoverIn = batch.recoverIn /\ b.capacity = batch.capacity
              /\ b.interval \in {batch.interval, RetryBase}
              /\ Becomes(Schedule(b), att) \/ Becomes(b, att)
    BY <1>3, ReadyIsHeard
  <2>2. Paced(b)
    BY <2>1, BatchAssumption DEF Paced
  <2>3. Sane(b)
    <3>1. batch.phase = "running" /\ Placed(batch)
      BY <1>3 DEF Ready, BatchInv, Finished
    <3>. QED
      BY <2>1, <3>1 DEF Sane, Placed, Queued, Distinct
  <2>. QED
    BY <2>1, <2>2, <2>3, SchedulePaced DEF Becomes
<1>4. CASE RateLimited(t)
  <2>1. /\ rateLimits < MaxRateLimits
        /\ Settle(t, IF IsOnlyUnfinishedTask(t)
                     THEN [batch EXCEPT !.results[t] = Result("failed", "started")]
                     ELSE Requeue(t))
    BY <1>4 DEF RateLimited
  <2>2. CASE IsOnlyUnfinishedTask(t)
    <3>1. Result("failed", "started") \in Results
      BY DEF Result, Results
    <3>. QED
      BY <2>1, <2>2, <3>1, ResultPaced
  <2>3. CASE ~IsOnlyUnfinishedTask(t) /\ t \in batch.active
    <3> DEFINE b == Requeue(t)
               r == [b EXCEPT !.active = @ \ {t}]
    <3>1. Sane(r) /\ b \in BatchRecord /\ Paced(b)
      BY <2>1, <2>3, RequeuedIsReleased, RequeueTyped, RequeuePaced
    <3>2. batch' = Schedule(r)
      BY <2>1, <2>3 DEF Settle, Becomes
    <3>. HIDE DEF b
    <3>3. SamePace(b, r)
      BY <3>1 DEF BatchRecord, SamePace
    <3>. HIDE DEF r
    <3>. QED
      BY <3>1, <3>2, <3>3, SamePacePaced, SchedulePaced
  <2>4. CASE ~IsOnlyUnfinishedTask(t) /\ t \notin batch.active
    BY <2>1, <2>4 DEF Settle
  <2>. QED
    BY <2>2, <2>3, <2>4
<1>. QED
  BY <1>1, <1>2, <1>3, <1>4 DEF AttemptStep

LEMMA TimePaced ==
    ASSUME BatchInv, Paced(batch), NormalTimerFires \/ WakeTimerFires \/ Tick
    PROVE  Paced(batch')
<1>1. /\ batch \in BatchRecord /\ batch.phase = "running" /\ Placed(batch)
  BY BatchAssumption DEF NormalTimerFires, WakeTimerFires, Tick, BatchInv, Finished
<1>2. CASE NormalTimerFires /\ batch.pending = << >>
  <2> DEFINE b == [batch EXCEPT !.normalTimer = NoTimer]
  <2>1. /\ b.normalTimer = NoTimer /\ b.wakeTimer = batch.wakeTimer
        /\ b.recoverIn = batch.recoverIn /\ b.capacity = batch.capacity
        /\ b.interval = batch.interval /\ b.pending = batch.pending
    BY <1>1 DEF BatchRecord
  <2>2. batch' = b
    BY <1>2, <2>1 DEF NormalTimerFires, Becomes
  <2>. HIDE DEF b
  <2>. QED
    BY <2>1, <2>2 DEF Paced
<1>3. CASE NormalTimerFires /\ batch.pending # << >>
  <2>1. PICK c : Sane(c) /\ Becomes(Schedule(c), attempt) /\ c.normalTimer = NoTimer
                 /\ c.wakeTimer = batch.wakeTimer /\ c.recoverIn = batch.recoverIn
                 /\ c.capacity = batch.capacity /\ c.interval = batch.interval
    BY <1>3, HeadIsLaunched
  <2>2. Paced(c)
    BY <2>1 DEF Paced
  <2>. QED
    BY <2>1, <2>2, SchedulePaced DEF Becomes
<1>4. CASE WakeTimerFires
  <2> DEFINE b == [batch EXCEPT !.wakeTimer = NoTimer]
  <2>1. batch' = Schedule(b)
    BY <1>4 DEF WakeTimerFires, Becomes
  <2>2. Sane(b)
    BY <1>1, SetWakeTimer DEF Sane, Launches
  <2>3. /\ b.normalTimer = batch.normalTimer /\ b.wakeTimer = NoTimer
        /\ b.recoverIn = batch.recoverIn /\ b.capacity = batch.capacity
        /\ b.interval = batch.interval
    BY <1>1 DEF BatchRecord
  <2>. HIDE DEF b
  <2>4. Paced(b)
    BY <2>3 DEF Paced
  <2>. QED
    BY <2>1, <2>2, <2>4, SchedulePaced
<1>5. CASE Tick
  <2> DEFINE tasks == [t \in Tasks |->
                          [batch.task[t] EXCEPT !.readyIn = Less(batch.task[t].readyIn)]]
  <2>1. batch' = [batch EXCEPT !.normalTimer = Less(@), !.wakeTimer = Less(@),
                               !.launchIn = Less(@), !.recoverIn = Less(@),
                               !.shrinkIn = Less(@), !.task = tasks]
    BY <1>5 DEF Tick
  <2>. HIDE DEF tasks
  <2>2. /\ batch'.normalTimer = Less(batch.normalTimer)
        /\ batch'.wakeTimer = Less(batch.wakeTimer)
        /\ batch'.recoverIn = Less(batch.recoverIn)
        /\ batch'.capacity = batch.capacity /\ batch'.interval = batch.interval
    BY <1>1, <2>1 DEF BatchRecord
  <2>3. ASSUME NEW n \in Nat, NEW x \in 0..n \cup {NoTimer}
        PROVE  Less(x) \in 0..n \cup {NoTimer}
    BY BatchAssumption DEF Less
  <2>4. Less(batch.recoverIn) <= CapacityRecoveryInterval
    <3>1. batch.recoverIn \in Nat /\ CapacityRecoveryInterval \in Nat
          /\ batch.recoverIn <= CapacityRecoveryInterval
      BY <1>1, BatchAssumption DEF BatchRecord, Paced
    <3>. QED
      BY <3>1 DEF Less
  <2>5. /\ batch'.normalTimer \in 0..InitialLaunchInterval \cup {NoTimer}
        /\ batch'.wakeTimer \in 0..CapacityRecoveryInterval \cup {NoTimer}
    <3>1. /\ Less(batch.normalTimer) \in 0..InitialLaunchInterval \cup {NoTimer}
          /\ Less(batch.wakeTimer) \in 0..CapacityRecoveryInterval \cup {NoTimer}
      <4>1. /\ batch.normalTimer \in 0..InitialLaunchInterval \cup {NoTimer}
            /\ batch.wakeTimer \in 0..CapacityRecoveryInterval \cup {NoTimer}
            /\ InitialLaunchInterval \in Nat /\ CapacityRecoveryInterval \in Nat
        BY BatchAssumption DEF Paced
      <4>2. Less(batch.normalTimer) \in 0..InitialLaunchInterval \cup {NoTimer}
        BY <2>3, <4>1
      <4>3. Less(batch.wakeTimer) \in 0..CapacityRecoveryInterval \cup {NoTimer}
        BY <2>3, <4>1
      <4>. QED
        BY <4>2, <4>3
    <3>. QED
      BY <2>2, <3>1
  <2>6. batch'.capacity # 0 /\ batch'.interval >= RetryBase
    BY <2>2 DEF Paced
  <2>. QED
    BY <2>2, <2>4, <2>5, <2>6 DEF Paced
<1>. QED
  BY <1>2, <1>3, <1>4, <1>5

\* Timers lie within their intervals, the capacity is never shrunk to nothing, and the task
\* of every attempt the batch listens to is under way.
THEOREM BatchTypes == Spec => []TypeOK
<1>1. Init => Paced(batch)
  BY NewBatchPaced DEF Init
<1>2. BatchInv /\ Paced(batch) /\ [Next]_vars => Paced(batch)'
  <2>. SUFFICES ASSUME BatchInv, Paced(batch), [Next]_vars
                PROVE  Paced(batch')
    OBVIOUS
  <2>1. CASE UNCHANGED vars
    BY <2>1 DEF vars
  <2>2. CASE Run
    <3> DEFINE b == [batch EXCEPT !.phase = "running"]
    <3>1. batch.phase = "created" /\ batch' = Schedule(b)
      BY <2>2 DEF Run, Becomes
    <3>2. /\ b \in BatchRecord /\ b.pending = batch.pending
          /\ b.active = batch.active /\ b.results = batch.results /\ SamePace(batch, b)
      BY DEF BatchInv, BatchRecord, Phases, SamePace
    <3>. HIDE DEF b
    <3>3. Sane(b)
      BY <3>1, <3>2 DEF BatchInv, Sane, Placed, Queued, Distinct, Finished
    <3>. QED
      BY <3>1, <3>2, <3>3, SamePacePaced, SchedulePaced
  <2>3. CASE CancelByUser \/ Abort
    BY <2>3, NewBatchPaced DEF CancelByUser, Abort
  <2>. QED
    BY <2>1, <2>2, <2>3, AttemptPaced, TimePaced DEF Next
<1>3. BatchInv /\ Paced(batch) => TypeOK
  BY BatchAssumption DEF BatchInv, BatchRecord, Phases, Paced, Attended, Going, TypeOK
<1>. QED
  BY <1>1, <1>2, <1>3, InductiveInvariant, PTL DEF Spec

-----------------------------------------------------------------------------
(* THE HOST *)

RunRecord ==
    [pc : Places, child : Children \cup {None}, background : BOOLEAN, retry : BOOLEAN,
     signal : BOOLEAN, aborted : BOOLEAN, left : Nat, late : BOOLEAN]

Typing == HostTypeOK /\ run \in [Runs -> RunRecord]

\* An id without metadata has no agent yet; a load is under way exactly while the
\* table holds its promise.
TableInv ==
    \A c \in Children :
        /\ c \notin metadata => agents[c] = "absent"
        /\ loads[c] = IF agents[c] = "loading" THEN 1 ELSE 0

\* A run beyond the choice of its child has one; the active turn that bears a run's
\* name is the one it waits for, or was launched by a run that is over.
TurnInv ==
    /\ \A r \in Runs :
        /\ run[r].pc \in Entered \cup {"load", "enter"} => run[r].child \in Children
        /\ run[r].pc = "turn" => turn[run[r].child] = r
        /\ run[r].pc = "git" /\ run[r].aborted => run[r].late
    /\ \A c \in Children, r \in Runs :
        turn[c] = r => \/ run[r].pc = "turn" /\ run[r].child = c
                       \/ run[r].pc = "done" /\ run[r].late

\* The inductive invariant.
HostInv == Typing /\ TableInv /\ TurnInv

LEMMA OverTyped ==
    ASSUME Typing, NEW r \in Runs
    PROVE  Over(r) \in RunRecord /\ Over(r).pc = "done" /\ Over(r).late = run[r].late
BY HostAssumption DEF Typing, RunRecord, Over, NewRun, Places, Entered

LEMMA InitHostInv ==
    ASSUME HostInit
    PROVE  HostInv
<1>1. NewRun \in RunRecord /\ NewRun.pc = "idle"
  BY HostAssumption DEF NewRun, RunRecord, Places
<1>2. Typing
  BY <1>1, HostAssumption DEF HostInit, Typing, HostTypeOK, RunRecord
<1>3. TableInv
  BY DEF HostInit, TableInv
<1>4. TurnInv
  BY <1>1, HostAssumption DEF HostInit, TurnInv, Entered
<1>. QED
  BY <1>2, <1>3, <1>4 DEF HostInv

LEMMA SignalledTyped ==
    ASSUME NEW r \in RunRecord
    PROVE  LET s == [r EXCEPT !.signal = TRUE, !.aborted = r.pc \in Entered,
                              !.late = r.pc = "git"]
           IN  s \in RunRecord /\ s.pc = r.pc /\ s.child = r.child /\ s.late = (r.pc = "git")
<1> DEFINE entered == r.pc \in Entered
<1>1. entered \in BOOLEAN
  OBVIOUS
<1>. HIDE DEF entered
<1>2. LET s == [r EXCEPT !.signal = TRUE, !.aborted = entered, !.late = r.pc = "git"]
      IN  s \in RunRecord /\ s.pc = r.pc /\ s.child = r.child /\ s.late = (r.pc = "git")
  BY <1>1 DEF RunRecord
<1>. QED
  BY <1>2 DEF entered

LEMMA AbortKeepsHostInv ==
    ASSUME HostInv, NEW aborted \in SUBSET Runs, AbortRuns(aborted)
    PROVE  HostInv'
<1>. USE DEF HostInv
<1> DEFINE rejects == {r \in aborted : run[r].pc \in {"turn", "ending"}}
<1>1. \A r \in Runs : 
        /\ r \in rejects => run'[r] = Over(r)
        /\ r \in aborted \ rejects =>
              run'[r] = [run[r] EXCEPT !.signal = TRUE, !.aborted = run[r].pc \in Entered,
                                       !.late = run[r].pc = "git"]
        /\ r \notin aborted => run'[r] = run[r]
  BY DEF AbortRuns
<1>2. /\ DOMAIN run' = Runs /\ run' = [r \in Runs |-> run'[r]]
      /\ turn' = [c \in Children |-> IF turn[c] \in rejects THEN None ELSE turn[c]]
      /\ activeChildren' \subseteq activeChildren
      /\ UNCHANGED <<metadata, agents, loads>>
      /\ \A r \in aborted : run[r].pc \notin {"idle", "done"}
  BY DEF AbortRuns, table
<1>a. \A c \in Children : turn'[c] = IF turn[c] \in rejects THEN None ELSE turn[c]
  <2> HIDE DEF rejects
  <2>. QED BY <1>2
<1>3. \A r \in Runs : run'[r] \in RunRecord
  <2> SUFFICES ASSUME NEW r \in Runs
               PROVE  run'[r] \in RunRecord
    OBVIOUS
  <2>1. run[r] \in RunRecord /\ (run[r].pc \in Entered) \in BOOLEAN
    BY DEF Typing
  <2>2. CASE r \in rejects
    BY <1>1, <2>2, OverTyped
  <2>3. CASE r \in aborted \ rejects
    <3>1. run'[r] = [run[r] EXCEPT !.signal = TRUE, !.aborted = run[r].pc \in Entered,
                                   !.late = run[r].pc = "git"]
      BY <1>1, <2>3, Zenon
    <3>. QED
      BY <2>1, <3>1, SignalledTyped
  <2>4. CASE r \notin aborted
    BY <1>1, <2>1, <2>4
  <2>. QED
    BY <2>2, <2>3, <2>4
<1>4. Typing'
  BY <1>2, <1>3 DEF Typing, HostTypeOK, RunRecord
<1>5. TableInv'
  BY <1>2 DEF TableInv
<1>6. ASSUME NEW r \in Runs
      PROVE  /\ run'[r].pc \in Entered \cup {"load", "enter"} => run'[r].child \in Children
             /\ run'[r].pc = "turn" => turn'[run'[r].child] = r
             /\ run'[r].pc = "git" /\ run'[r].aborted => run'[r].late
  <2>1. run[r] \in RunRecord /\ run'[r] \in RunRecord
    BY <1>3 DEF Typing
  <2>2. CASE r \in rejects
    BY <1>1, <2>2, OverTyped DEF Entered
  <2>3. CASE r \in aborted \ rejects
    <3>1. /\ run'[r].pc = run[r].pc /\ run'[r].child = run[r].child
          /\ run'[r].late = (run[r].pc = "git")
      <4>1. run'[r] = [run[r] EXCEPT !.signal = TRUE, !.aborted = run[r].pc \in Entered,
                                     !.late = run[r].pc = "git"]
        BY <1>1, <2>3, Zenon
      <4>. QED
        BY <2>1, <4>1, SignalledTyped
    <3>2. run[r].pc # "turn"
      BY <2>3
    <3>. QED
      BY <3>1, <3>2 DEF TurnInv
  <2>4. CASE r \notin aborted
    <3>1. run[r].pc = "turn" => turn'[run[r].child] = turn[run[r].child]
      <4>1. ASSUME run[r].pc = "turn"
            PROVE  run[r].child \in Children /\ turn[run[r].child] = r
        BY <4>1 DEF TurnInv, Entered
      <4>2. r \notin rejects
        BY <2>4
      <4> HIDE DEF rejects
      <4>. QED BY <1>a, <4>1, <4>2
    <3>2. run'[r] = run[r]
      BY <1>1, <2>4
    <3>3. /\ run[r].pc \in Entered \cup {"load", "enter"} => run[r].child \in Children
          /\ run[r].pc = "turn" => turn[run[r].child] = r
          /\ run[r].pc = "git" /\ run[r].aborted => run[r].late
      BY DEF TurnInv
    <3>. HIDE DEF rejects
    <3>. QED
      BY <3>1, <3>2, <3>3
  <2>. QED
    BY <2>2, <2>3, <2>4
<1>7. ASSUME NEW c \in Children, NEW r \in Runs, turn'[c] = r
      PROVE  \/ run'[r].pc = "turn" /\ run'[r].child = c
             \/ run'[r].pc = "done" /\ run'[r].late
  <2>1. turn[c] = r /\ r \notin rejects
    <3> HIDE DEF rejects
    <3>. QED  BY <1>a, <1>7, HostAssumption
  <2>2. run[r] \in RunRecord
    BY DEF Typing
  <2>3. CASE run[r].pc = "turn" /\ run[r].child = c
    BY <1>1, <2>1, <2>2, <2>3
  <2>4. CASE run[r].pc = "done" /\ run[r].late
    BY <1>1, <1>2, <2>1, <2>2, <2>4
  <2>. QED
    BY <2>1, <2>3, <2>4 DEF TurnInv
<1>. QED
  BY <1>4, <1>5, <1>6, <1>7 DEF TurnInv
\* The table after a step that does not create an agent.
TableTyped ==
    /\ metadata \subseteq Children
    /\ agents \in [Children -> {"absent", "loading", "rejected", "ready"}]
    /\ loads \in [Children -> Nat]

\* A step of one run keeps the invariant if that run's new record agrees with the turns
\* that bear its name; turns that bear another name are left alone.
LEMMA RunStepKeepsTurns ==
    ASSUME HostInv, NEW r \in Runs, NEW new \in RunRecord,
           run' = [run EXCEPT ![r] = new],
           TableTyped', TableInv', activeChildren' \subseteq Children,
           turn' \in [Children -> Runs \cup {Own, None}],
           \A c \in Children, s \in Runs \ {r} : turn'[c] = s <=> turn[c] = s,
           new.pc \in Entered \cup {"load", "enter"} => new.child \in Children,
           new.pc = "turn" => turn'[new.child] = r,
           new.pc = "git" /\ new.aborted => new.late,
           \A c \in Children :
              turn'[c] = r => \/ new.pc = "turn" /\ new.child = c
                              \/ new.pc = "done" /\ new.late
    PROVE  HostInv'
<1>1. run \in [Runs -> RunRecord] /\ TurnInv
  BY DEF HostInv, Typing
<1>2. /\ run' \in [Runs -> RunRecord]
      /\ run'[r] = new
      /\ \A s \in Runs \ {r} : run'[s] = run[s]
  BY <1>1
<1>3. Typing'
  BY <1>2 DEF Typing, HostTypeOK, TableTyped, RunRecord
<1>4. ASSUME NEW s \in Runs
      PROVE  /\ run'[s].pc \in Entered \cup {"load", "enter"} => run'[s].child \in Children
             /\ run'[s].pc = "turn" => turn'[run'[s].child] = s
             /\ run'[s].pc = "git" /\ run'[s].aborted => run'[s].late
  <2>1. CASE s = r
    BY <1>2, <2>1
  <2>2. CASE s # r
    <3>1. run[s].pc = "turn" => run[s].child \in Children
      BY <1>1 DEF TurnInv, Entered
    <3>. QED
      BY <1>1, <1>2, <2>2, <3>1 DEF TurnInv
  <2>. QED
    BY <2>1, <2>2
<1>5. ASSUME NEW c \in Children, NEW s \in Runs, turn'[c] = s
      PROVE  \/ run'[s].pc = "turn" /\ run'[s].child = c
             \/ run'[s].pc = "done" /\ run'[s].late
  BY <1>1, <1>2, <1>5 DEF TurnInv
<1>. QED
  BY <1>3, <1>4, <1>5 DEF HostInv, TurnInv

\* No active turn bears the name of a run that has not launched one.
LEMMA NoTurnYet ==
    ASSUME HostInv, NEW r \in Runs, run[r].pc \notin {"turn", "done"}, NEW c \in Children
    PROVE  turn[c] # r
BY DEF HostInv, TurnInv

\* A step of a run that leaves the turns alone.
LEMMA RunMoves ==
    ASSUME HostInv, NEW r \in Runs, NEW new \in RunRecord,
           run' = [run EXCEPT ![r] = new], run[r].pc \notin {"turn", "done"},
           TableTyped', TableInv', activeChildren' \subseteq Children, turn' = turn,
           new.pc \in Entered \cup {"load", "enter"} => new.child \in Children,
           new.pc # "turn", new.pc = "git" => ~new.aborted
    PROVE  HostInv'
<1>1. turn \in [Children -> Runs \cup {Own, None}]
  BY DEF HostInv, Typing, HostTypeOK
<1>. QED
  BY <1>1, NoTurnYet, RunStepKeepsTurns
LEMMA Facts ==
    ASSUME HostInv
    PROVE  /\ TableTyped /\ TableInv /\ activeChildren \subseteq Children
           /\ turn \in [Children -> Runs \cup {Own, None}]
           /\ run \in [Runs -> RunRecord]
           /\ \A r \in Runs : run[r].pc \in Entered \cup {"load", "enter"} =>
                                 run[r].child \in Children
BY DEF HostInv, Typing, HostTypeOK, TableTyped, TurnInv

\* Reject and Settle, of a run whose name no turn bears.
LEMMA RejectKeeps ==
    ASSUME HostInv, NEW r \in Runs, run[r].pc \notin {"turn", "done"}, Reject(r),
           TableTyped', TableInv', activeChildren' \subseteq Children, turn' = turn
    PROVE  HostInv'
<1>1. Over(r) \in RunRecord /\ Over(r).pc = "done"
  BY OverTyped DEF HostInv
<1>2. "done" \notin Entered \cup {"load", "enter", "turn", "git"}
  BY DEF Entered
<1>. QED
  BY <1>1, <1>2, RunMoves DEF Reject

LEMMA GotoKeeps ==
    ASSUME HostInv, NEW r \in Runs, run[r].pc \notin {"turn", "done"},
           NEW pc \in Places \ {"turn"}, Goto(r, pc),
           run[r].child \in Children, pc = "git" => ~run[r].aborted,
           TableTyped', TableInv', activeChildren' \subseteq Children, turn' = turn
    PROVE  HostInv'
<1> DEFINE new == [run[r] EXCEPT !.pc = pc]
<1>1. run[r] \in RunRecord /\ run \in [Runs -> RunRecord]
  BY Facts
<1>2. /\ new \in RunRecord /\ new.pc = pc
      /\ new.child = run[r].child /\ new.aborted = run[r].aborted
  BY <1>1 DEF RunRecord
<1>3. run' = [run EXCEPT ![r] = new]
  BY DEF Goto
<1>. HIDE DEF new
<1>. QED
  BY <1>2, <1>3, RunMoves

\* What the steps that start or leave a load do to the table.
LEMMA EnsureResumedKeepsTable ==
    ASSUME TableTyped, TableInv, NEW c \in metadata, EnsureResumed(c)
    PROVE  TableTyped' /\ TableInv'
<1>1. c \in Children /\ metadata' = metadata
  BY DEF TableTyped, EnsureResumed
<1>2. CASE agents[c] = "absent"
  BY <1>1, <1>2 DEF TableTyped, TableInv, EnsureResumed
<1>3. CASE agents[c] # "absent"
  BY <1>1, <1>3 DEF TableTyped, TableInv, EnsureResumed
<1>. QED
  BY <1>2, <1>3

\* PromptChild, of a run that has not prompted yet.
LEMMA PromptKeeps ==
    ASSUME HostInv, NEW r \in Runs, run[r].pc \in {"hook", "git"}, PromptChild(r),
           run[r].aborted => run[r].late, UNCHANGED table
    PROVE  HostInv'
<1> DEFINE c == run[r].child
<1>1. /\ c \in Children /\ run[r] \in RunRecord /\ TableTyped' /\ TableInv'
      /\ turn \in [Children -> Runs \cup {Own, None}]
      /\ activeChildren \subseteq Children
  BY Facts DEF Entered, TableTyped, TableInv, table
<1>2. CASE turn[c] # None
  BY <1>1, <1>2, RejectKeeps DEF PromptChild, SettleRun
<1>3. CASE turn[c] = None
  <2>1. turn' = [turn EXCEPT ![c] = r] /\ activeChildren' \subseteq Children
    BY <1>1, <1>3 DEF PromptChild, SettleRun
  <2>2. /\ turn' \in [Children -> Runs \cup {Own, None}]
        /\ \A d \in Children, s \in Runs \ {r} : turn'[d] = s <=> turn[d] = s
        /\ turn'[c] = r /\ \A d \in Children : turn'[d] = r => d = c
    BY <1>1, <1>3, <2>1, NoTurnYet, HostAssumption
  <2>3. CASE run[r].aborted
    <3>1. run' = [run EXCEPT ![r] = Over(r)]
      BY <1>3, <2>3 DEF PromptChild, SettleRun, Reject
    <3>2. Over(r) \in RunRecord /\ Over(r).pc = "done" /\ Over(r).late
      BY <2>3, OverTyped DEF HostInv
    <3>3. Over(r).pc \notin Entered \cup {"load", "enter", "turn", "git"}
      BY <3>2 DEF Entered
    <3>4. TableTyped' /\ TableInv' /\ activeChildren' \subseteq Children
      BY <1>1, <2>1
    <3>5. \A d \in Children :
              turn'[d] = r => \/ Over(r).pc = "turn" /\ Over(r).child = d
                              \/ Over(r).pc = "done" /\ Over(r).late
      BY <3>2
    <3>. QED
      BY <2>2, <3>1, <3>2, <3>3, <3>4, <3>5, RunStepKeepsTurns
  <2>4. CASE ~run[r].aborted
    <3> DEFINE new == [run[r] EXCEPT !.pc = "turn"]
    <3>1. run' = [run EXCEPT ![r] = new]
      BY <1>3, <2>4 DEF PromptChild, Goto
    <3>2. new \in RunRecord /\ new.pc = "turn" /\ new.child = c
      BY <1>1 DEF RunRecord, Places, Entered
    <3>3. TableTyped' /\ TableInv' /\ activeChildren' \subseteq Children
      BY <1>1, <2>1
    <3>4. \A d \in Children :
              turn'[d] = r => \/ new.pc = "turn" /\ new.child = d
                              \/ new.pc = "done" /\ new.late
      BY <2>2, <3>2
    <3>5. /\ new.pc \in Entered \cup {"load", "enter"} => new.child \in Children
          /\ new.pc = "turn" => turn'[new.child] = r
          /\ new.pc = "git" /\ new.aborted => new.late
      BY <1>1, <2>2, <3>2
    <3>. HIDE DEF new
    <3>. QED
      BY <2>2, <3>1, <3>2, <3>3, <3>4, <3>5, RunStepKeepsTurns
  <2>. QED
    BY <2>3, <2>4
<1>. QED
  BY <1>2, <1>3
\* Enter: the run's new record.
LEMMA EnterRecord ==
    ASSUME NEW r \in Runs, NEW c \in Children, NEW pc \in Places, Enter(r, c, pc),
           run \in [Runs -> RunRecord]
    PROVE  \E new \in RunRecord :
             /\ run' = [run EXCEPT ![r] = new]
             /\ new.pc = pc /\ new.child = c /\ new.aborted = run[r].signal
             /\ activeChildren' = activeChildren \cup {c}
<1> DEFINE new == [run[r] EXCEPT !.pc = pc, !.child = c, !.aborted = run[r].signal]
<1>1. new \in RunRecord /\ new.pc = pc /\ new.child = c /\ new.aborted = run[r].signal
  BY DEF RunRecord
<1>2. run' = [run EXCEPT ![r] = new] /\ activeChildren' = activeChildren \cup {c}
  BY DEF Enter, Linked
<1>. QED
  BY <1>1, <1>2

\* The steps of clients, of the table and of the child's own turns.
LEMMA TableSteps ==
    ASSUME HostInv, NEW c \in Children, TouchAgent(c) \/ AgentLoaded(c) \/ LoadFails(c)
    PROVE  HostInv'
<1>. USE Facts
<1>1. CASE TouchAgent(c)
  <2>1. TableTyped' /\ TableInv' /\ UNCHANGED <<activeChildren, turn, run>>
    BY <1>1, EnsureResumedKeepsTable DEF TouchAgent
  <2>. QED
    BY <2>1 DEF HostInv, Typing, HostTypeOK, TableTyped, TurnInv
<1>2. CASE AgentLoaded(c)
  <2>1. TableTyped' /\ TableInv' /\ UNCHANGED <<activeChildren, turn, run>>
    BY <1>2 DEF AgentLoaded, TableTyped, TableInv
  <2>. QED
    BY <2>1 DEF HostInv, Typing, HostTypeOK, TableTyped, TurnInv
<1>3. CASE LoadFails(c)
  <2>1. TableTyped' /\ TableInv' /\ UNCHANGED <<activeChildren, turn>>
    BY <1>3 DEF LoadFails, TableTyped, TableInv
  <2>2. \A r \in Runs :
          \/ run'[r] = run[r]
          \/ run[r].pc = "load" /\ run'[r] = Over(r)
    BY <1>3 DEF LoadFails
  <2>3. run' \in [Runs -> RunRecord]
    <3>1. run' = [r \in Runs |-> run'[r]]
      BY <1>3 DEF LoadFails
    <3>2. \A r \in Runs : run'[r] \in RunRecord
      BY <2>2, OverTyped DEF HostInv
    <3>. QED
      BY <3>1, <3>2
  <2>4. Typing'
    BY <2>1, <2>3 DEF Typing, HostTypeOK, TableTyped, RunRecord
  <2>5. TurnInv'
    BY <2>1, <2>2, OverTyped DEF HostInv, TurnInv, Entered
  <2>. QED
    BY <2>1, <2>4, <2>5 DEF HostInv
<1>. QED
  BY <1>1, <1>2, <1>3

LEMMA TurnSteps ==
    ASSUME HostInv, NEW c \in Children, TurnEnds(c) \/ ClientCancels(c) \/ OwnTurn(c)
    PROVE  HostInv'
<1>. USE Facts
<1>a. TableTyped' /\ TableInv'
  BY DEF TurnEnds, ClientCancels, OwnTurn, table, TableTyped, TableInv
<1>b. ASSUME UNCHANGED <<run, activeChildren>>,
             turn' = [turn EXCEPT ![c] = None] \/ turn' = [turn EXCEPT ![c] = Own],
             turn[c] \in Runs => run[turn[c]].pc # "turn"
      PROVE  HostInv'
  <2>1. turn' \in [Children -> Runs \cup {Own, None}]
    BY <1>b
  <2>2. Typing'
    BY <1>a, <1>b, <2>1 DEF HostInv, Typing, HostTypeOK, TableTyped
  <2>3. TurnInv'
    BY <1>b, HostAssumption DEF HostInv, TurnInv, Entered
  <2>. QED
    BY <1>a, <2>2, <2>3 DEF HostInv
<1>1. CASE turn[c] \in Runs /\ run[turn[c]].pc = "turn"
  <2> DEFINE r == turn[c]
  <2>1. r \in Runs /\ run[r].pc = "turn" /\ run[r].child = c /\ run[r] \in RunRecord
    BY <1>1 DEF HostInv, TurnInv
  <2>2. \A d \in Children : turn[d] = r => d = c
    BY <2>1 DEF HostInv, TurnInv
  <2>3. ASSUME NEW new \in RunRecord, run' = [run EXCEPT ![r] = new],
               turn' = [turn EXCEPT ![c] = None], activeChildren' \subseteq Children,
               new.pc # "turn", new.child = c \/ new.pc = "done", new.pc # "git"
        PROVE  HostInv'
    <3>1. /\ turn' \in [Children -> Runs \cup {Own, None}]
          /\ \A d \in Children : turn'[d] # r
      BY <2>1, <2>2, <2>3, HostAssumption
    <3>2. \A d \in Children, s \in Runs \ {r} : turn'[d] = s <=> turn[d] = s
      BY <2>3, HostAssumption
    <3>3. new.pc \in Entered \cup {"load", "enter"} => new.child \in Children
      BY <2>3 DEF Entered
    <3>. HIDE DEF r
    <3>. QED
      BY <1>a, <2>1, <2>3, <3>1, <3>2, <3>3, RunStepKeepsTurns
  <2>4. CASE TurnEnds(c) /\ SettleRun(r) /\ turn' = [turn EXCEPT ![c] = None]
    <3>1. run' = [run EXCEPT ![r] = Over(r)] /\ activeChildren' \subseteq Children
      BY <2>4 DEF SettleRun, Reject
    <3>2. Over(r) \in RunRecord /\ Over(r).pc = "done"
      BY <2>1, OverTyped DEF HostInv
    <3>. QED
      BY <2>3, <2>4, <3>1, <3>2
  <2>5. CASE TurnEnds(c) /\ turn' = turn
    <3> DEFINE new == [run[r] EXCEPT !.left = @ - 1]
    <3>1. /\ run' = [run EXCEPT ![r] = new] /\ run[r].left > 0
          /\ activeChildren' = activeChildren
      BY <1>1, <2>5, HostAssumption DEF TurnEnds
    <3>2. new \in RunRecord /\ new.pc = "turn" /\ new.child = c
      BY <2>1, <3>1 DEF RunRecord
    <3>3. /\ new.pc = "turn" => turn'[new.child] = r
          /\ new.pc = "git" /\ new.aborted => new.late
          /\ new.pc \in Entered \cup {"load", "enter"} => new.child \in Children
          /\ \A d \in Children :
              turn'[d] = r => \/ new.pc = "turn" /\ new.child = d
                              \/ new.pc = "done" /\ new.late
          /\ \A d \in Children, s \in Runs \ {r} : turn'[d] = s <=> turn[d] = s
      BY <2>2, <2>5, <3>2
    <3>4. turn' \in [Children -> Runs \cup {Own, None}] /\ activeChildren' \subseteq Children
      BY <2>5, <3>1
    <3>. HIDE DEF new, r
    <3>. QED
      BY <1>a, <2>1, <3>1, <3>2, <3>3, <3>4, RunStepKeepsTurns
  <2>6. CASE ClientCancels(c)
    <3> DEFINE new == [run[r] EXCEPT !.pc = "ending"]
    <3>1. /\ run' = [run EXCEPT ![r] = new] /\ activeChildren' = activeChildren
          /\ turn' = [turn EXCEPT ![c] = None]
      BY <1>1, <2>6 DEF ClientCancels, Goto
    <3>2. new \in RunRecord /\ new.pc = "ending" /\ new.child = c
      BY <2>1 DEF RunRecord, Places, Entered
    <3>. HIDE DEF new
    <3>. QED
      BY <2>3, <3>1, <3>2
  <2>7. ~OwnTurn(c)
    BY <2>1, HostAssumption DEF OwnTurn
  <2>. QED
    BY <1>1, <2>4, <2>5, <2>6, <2>7 DEF TurnEnds
<1>2. CASE ~(turn[c] \in Runs /\ run[turn[c]].pc = "turn")
  <2>1. UNCHANGED <<run, activeChildren>>
    BY <1>2 DEF TurnEnds, ClientCancels, OwnTurn
  <2>2. turn' = [turn EXCEPT ![c] = None] \/ turn' = [turn EXCEPT ![c] = Own]
    BY <1>2 DEF TurnEnds, ClientCancels, OwnTurn
  <2>. QED
    BY <1>2, <1>b, <2>1, <2>2
<1>. QED
  BY <1>1, <1>2
\* The steps of a run, from its call to the turn of its child.
LEMMA RunSteps ==
    ASSUME HostInv, NEW r \in Runs, RunStep(r)
    PROVE  HostInv'
<1>. USE Facts
<1>a. /\ run[r] \in RunRecord
      /\ UNCHANGED table => TableTyped' /\ TableInv'
      /\ activeChildren \ {run[r].child} \subseteq Children
  BY DEF table, TableTyped, TableInv
<1>b. "done" \notin Entered \cup {"load", "enter", "turn", "git"}
  BY DEF Entered
<1>1. ASSUME NEW c \in Children, Created(r, c)
      PROVE  HostInv'
  <2>1. PICK new \in RunRecord :
          /\ run' = [run EXCEPT ![r] = new]
          /\ new.pc = "configure" /\ new.child = c
          /\ activeChildren' = activeChildren \cup {c}
    BY <1>1, EnterRecord DEF Created, Places, Entered
  <2>2. TableTyped' /\ TableInv' /\ turn' = turn /\ run[r].pc = "create"
    BY <1>1 DEF Created, TableTyped, TableInv
  <2>. QED
    BY <2>1, <2>2, RunMoves
<1>2. CASE CheckIdle(r)
  <2>1. /\ run[r].pc = "load" /\ run[r].child \in Children
        /\ UNCHANGED <<table, activeChildren, turn>>
    BY <1>2 DEF CheckIdle
  <2>2. Reject(r) \/ Goto(r, "enter")
    BY <1>2 DEF CheckIdle
  <2>. QED
    BY <1>a, <2>1, <2>2, RejectKeeps, GotoKeeps DEF Places
<1>3. CASE EnterChild(r)
  <2> DEFINE c == run[r].child
  <2>1. run[r].pc = "enter" /\ c \in Children /\ UNCHANGED table /\ TableTyped' /\ TableInv'
    BY <1>a, <1>3 DEF EnterChild
  <2>2. CASE SettleRun(r) /\ UNCHANGED turn
    BY <1>a, <2>1, <2>2, RejectKeeps DEF SettleRun
  <2>3. CASE Enter(r, c, "hook") /\ UNCHANGED turn
    <3>1. PICK new \in RunRecord :
            /\ run' = [run EXCEPT ![r] = new]
            /\ new.pc = "hook" /\ new.child = c
            /\ activeChildren' = activeChildren \cup {c}
      BY <2>1, <2>3, EnterRecord DEF Places, Entered
    <3>. QED
      BY <2>1, <2>3, <3>1, RunMoves
  <2>4. CASE turn[c] = None /\ Enter(r, c, "turn") /\ turn' = [turn EXCEPT ![c] = r]
    <3>1. PICK new \in RunRecord :
            /\ run' = [run EXCEPT ![r] = new]
            /\ new.pc = "turn" /\ new.child = c
            /\ activeChildren' = activeChildren \cup {c}
      BY <2>1, <2>4, EnterRecord DEF Places, Entered
    <3>2. /\ turn' \in [Children -> Runs \cup {Own, None}]
          /\ \A d \in Children, s \in Runs \ {r} : turn'[d] = s <=> turn[d] = s
      BY <2>1, <2>4, HostAssumption
    <3>3. /\ new.pc = "turn" => turn'[new.child] = r
          /\ new.pc = "git" /\ new.aborted => new.late
          /\ new.pc \in Entered \cup {"load", "enter"} => new.child \in Children
          /\ \A d \in Children :
              turn'[d] = r => \/ new.pc = "turn" /\ new.child = d
                              \/ new.pc = "done" /\ new.late
      BY <2>1, <2>4, <3>1, NoTurnYet
    <3>4. activeChildren' \subseteq Children
      BY <2>1, <3>1
    <3>. QED
      BY <2>1, <3>1, <3>2, <3>3, <3>4, RunStepKeepsTurns, ZenonT(60)
  <2>. QED
    BY <1>3, <2>2, <2>3, <2>4 DEF EnterChild
<1>4. CASE Configured(r)
  <2>1. run[r].pc = "configure" /\ run[r].child \in Children /\ UNCHANGED <<table, turn>>
    BY <1>4 DEF Configured, Entered
  <2>2. CASE SettleRun(r)
    BY <1>a, <2>1, <2>2, RejectKeeps DEF SettleRun
  <2>3. CASE Goto(r, "hook") /\ UNCHANGED activeChildren
    BY <1>a, <2>1, <2>3, GotoKeeps DEF Places, Entered
  <2>. QED
    BY <1>4, <2>2, <2>3 DEF Configured
<1>5. CASE HookReturns(r)
  <2>1. run[r].pc = "hook" /\ run[r].child \in Children /\ UNCHANGED table
    BY <1>5 DEF HookReturns, Entered
  <2>2. CASE SettleRun(r) /\ UNCHANGED turn
    BY <1>a, <2>1, <2>2, RejectKeeps DEF SettleRun
  <2>3. CASE ~run[r].aborted /\ Goto(r, "git") /\ UNCHANGED <<activeChildren, turn>>
    BY <1>a, <2>1, <2>3, GotoKeeps DEF Places, Entered
  <2>4. CASE ~run[r].aborted /\ PromptChild(r)
    BY <2>1, <2>4, PromptKeeps
  <2>. QED
    BY <1>5, <2>2, <2>3, <2>4 DEF HookReturns
<1>6. CASE GitReturns(r)
  BY <1>6, PromptKeeps DEF GitReturns, HostInv, TurnInv
<1>7. CASE CancelledWorkerReturns(r)
  <2>1. run[r].pc = "ending" /\ SettleRun(r) /\ UNCHANGED <<table, turn>>
    BY <1>7 DEF CancelledWorkerReturns
  <2>. QED
    BY <1>a, <2>1, RejectKeeps DEF SettleRun
<1>. QED
  BY <1>1, <1>2, <1>3, <1>4, <1>5, <1>6, <1>7 DEF RunStep

\* What the tools call.
LEMMA Calls ==
    ASSUME HostInv, NEW r \in Runs, NEW b \in BOOLEAN,
           Spawn(r, b) \/ \E c \in Children, retry \in BOOLEAN : Resume(r, c, b, retry)
    PROVE  HostInv'
<1>. USE Facts
<1>1. CASE Spawn(r, b)
  <2> DEFINE new == [run[r] EXCEPT !.pc = "create", !.background = b]
  <2>1. /\ run' = [run EXCEPT ![r] = new] /\ run[r].pc = "idle"
        /\ UNCHANGED <<table, activeChildren, turn>>
    BY <1>1 DEF Spawn
  <2>2. /\ new \in RunRecord /\ new.pc = "create"
        /\ "create" \notin Entered \cup {"load", "enter"}
    BY DEF RunRecord, Places, Entered
  <2>3. TableTyped' /\ TableInv'
    BY <2>1 DEF table, TableTyped, TableInv
  <2>. HIDE DEF new
  <2>. QED
    BY <2>1, <2>2, <2>3, RunMoves
<1>2. ASSUME NEW c \in Children, NEW retry \in BOOLEAN, Resume(r, c, b, retry)
      PROVE  HostInv'
  <2> DEFINE new == [run[r] EXCEPT !.pc = "load", !.child = c,
                                   !.background = b, !.retry = retry]
  <2>1. /\ run' = [run EXCEPT ![r] = new] /\ run[r].pc = "idle"
        /\ UNCHANGED <<activeChildren, turn>>
    BY <1>2 DEF Resume
  <2>2. new \in RunRecord /\ new.pc = "load" /\ new.child = c
    BY DEF RunRecord, Places
  <2>3. TableTyped' /\ TableInv'
    BY <1>2, EnsureResumedKeepsTable DEF Resume
  <2>. HIDE DEF new
  <2>. QED
    BY <2>1, <2>2, <2>3, RunMoves
<1>. QED
  BY <1>1, <1>2

LEMMA NextHostInv ==
    ASSUME HostInv, [HostNext]_hostVars
    PROVE  HostInv'
<1>1. ASSUME NEW r \in Runs, AbortOne(r)
      PROVE  HostInv'
  BY <1>1, AbortKeepsHostInv DEF AbortOne
<1>2. CASE CancelParent
  BY <1>2, AbortKeepsHostInv DEF CancelParent
<1>3. CASE UNCHANGED hostVars
  BY <1>3 DEF HostInv, Typing, HostTypeOK, TableInv, TurnInv, hostVars, table
<1>. QED
  BY <1>1, <1>2, <1>3, Calls, RunSteps, TableSteps, TurnSteps DEF HostNext

\* The strengthening that every step of the host, of the table and of the clients
\* preserves.
THEOREM HostInvariant == HostSpec => []HostInv
<1>1. HostInit => HostInv
  BY InitHostInv
<1>2. HostInv /\ [HostNext]_hostVars => HostInv'
  BY NextHostInv
<1>. QED
  BY <1>1, <1>2, PTL DEF HostSpec

\* Every child, turn and run stays among the values the code can hold.
THEOREM HostTypes == HostSpec => []HostTypeOK
<1>1. HostInv => HostTypeOK
  BY DEF HostInv, Typing
<1>. QED
  BY <1>1, HostInvariant, PTL

\* runWithActiveChild and waitForCurrentTurn: a run waits for the turn it launched and
\* for no other, and no turn outlives the run that launched it, except the one that
\* collectGitContext lets an aborted explorer start.
THEOREM TurnsBelongToRuns == HostSpec => []TurnsHaveRuns
<1>1. HostInv => TurnsHaveRuns
  BY DEF HostInv, TurnInv, TurnsHaveRuns
<1>. QED
  BY <1>1, HostInvariant, PTL

\* ensureAgentResumed: of all the calls that ask for a stored agent at once, one replays
\* its log, whatever fails in between; so the log has one writer.
THEOREM OneLoadEach == HostSpec => []LoadedOnce
<1>1. HostInv => LoadedOnce
  BY DEF HostInv, Typing, HostTypeOK, TableInv, LoadedOnce
<1>. QED
  BY <1>1, HostInvariant, PTL
=============================================================================
