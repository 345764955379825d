----------------------------- MODULE Cron_proofs -----------------------------
(***************************************************************************)
(* For any jobs, expressions, jitter, caps and ages: no occurrence of a    *)
(* job is counted twice, what is gone stays gone, and no fire passes over  *)
(* an occurrence.                                                          *)
(***************************************************************************)
EXTENDS Cron, FiniteSetTheorems, WellFoundedInduction, TLAPS

\* A job as the memory of the process has it, or its file when there is none.
Kept(t) == IF phase = "down" THEN disk[t] ELSE store[t]

\* The file once its chain has run.
Saved(t) == IF queue[t] = <<>> THEN disk[t] ELSE queue[t][Len(queue[t])]

\* What the scheduler keeps belongs to the process; a stop awaits a part of each
\* chain.
PhaseInv ==
    /\ phase \in {"stopping", "down"} => seeded = {}
    /\ phase = "down" => \A t \in Tasks : queue[t] = <<>> /\ store[t] = None
    /\ \A t \in Tasks : lastSeen[t] # None => t \in seeded
    /\ \A t \in seeded : store[t] # None \/ t \in removed

\* The chain of a job with no excuse ends with what the memory has.
SavedInv ==
    \A t \in Tasks \ excused :
        /\ Kept(t) = Saved(t)
        /\ phase = "stopping" => awaited[t] = Len(queue[t])
        /\ t \in removed => Kept(t) = None

\* Everything counted of a job that is still there is behind its cursor.
CursorInv ==
    \A t \in Tasks \ excused :
        /\ t \in seeded /\ store[t] # None => lastSeen[t] = store[t].lastFiredAt
        /\ t \notin removed => \A o \in Times : counted[t][o] > 0 =>
               /\ Kept(t) # None
               /\ Kept(t).lastFiredAt # None /\ o <= Kept(t).lastFiredAt

\* Nothing between the creation of a job and a cursor was passed over.
CoveredTo(t, job, last) ==
    last # None => \A p \in Occurrences[t] :
        job.createdAt < p /\ p <= last => counted[t][p] > 0

\* So for every cursor there is, in memory, in a file or on its way to one.
OrderInv ==
    \A t \in Tasks :
        /\ store[t] # None => /\ CoveredTo(t, store[t], store[t].lastFiredAt)
                              /\ CoveredTo(t, store[t], lastSeen[t])
        /\ disk[t] # None => CoveredTo(t, disk[t], disk[t].lastFiredAt)
        /\ \A i \in DOMAIN queue[t] : queue[t][i] # None =>
               CoveredTo(t, queue[t][i], queue[t][i].lastFiredAt)

\* The inductive invariant.
CronInv == TypeOK /\ PhaseInv /\ SavedInv /\ CursorInv /\ OrderInv

-----------------------------------------------------------------------------
(* Extremes                                                                *)

LEMMA MinOf ==
    ASSUME NEW S \in SUBSET Nat, S # {}
    PROVE  Min(S) \in S /\ \A y \in S : Min(S) <= y
<1>1. PICK x \in S : \A y \in S : ~(<<y, x>> \in OpToRel(<, Nat))
  BY NatLessThanWellFounded, WFMin
<1>2. \A y \in S : ~(y < x)
  BY <1>1 DEF OpToRel
<1>3. \A y \in S : x <= y
  BY <1>2
<1>. QED
  BY <1>3 DEF Min

LEMMA MaxOf ==
    ASSUME NEW S \in SUBSET Times, S # {}
    PROVE  Max(S) \in S /\ \A y \in S : y <= Max(S)
<1> DEFINE above == {u \in Nat : \A y \in S : y <= u}
<1>1. S \subseteq Nat /\ MaxTime \in above
  BY CronAssumption DEF Times
<1>2. PICK u \in above : \A v \in above : u <= v
  BY <1>1, MinOf
<1>3. u \in S
  <2>. SUFFICES ASSUME u \notin S
                PROVE  FALSE
    OBVIOUS
  <2>1. u \in Nat /\ \A y \in S : y < u
    BY <1>1, <1>2
  <2>2. PICK y \in S : y < u
    BY <2>1
  <2>3. u - 1 \in above
    <3>1. u - 1 \in Nat
      BY <1>1, <2>1, <2>2
    <3>2. \A z \in S : z <= u - 1
      BY <1>1, <2>1
    <3>. QED
      BY <3>1, <3>2
  <2>. QED
    BY <1>2, <2>1, <2>3
<1>4. \A y \in S : u >= y
  BY <1>1, <1>2
<1>. QED
  BY <1>1, <1>3, <1>4 DEF Max

-----------------------------------------------------------------------------
(* What a fire covers                                                      *)

\* A fire covers due occurrences beyond the base, from the next one on without a gap.
LEMMA Covers ==
    ASSUME TypeOK, NEW t \in Tasks, store[t] # None
    PROVE  /\ BaseFrom(t) \in Nat /\ store[t].createdAt <= BaseFrom(t)
           /\ Seen(t) \in Times \union {None}
           /\ Seen(t) # None => Seen(t) <= BaseFrom(t)
           /\ BaseFrom(t) \in {store[t].createdAt, Seen(t)}
           /\ countCoalesced(t) \in SUBSET Times
           /\ \A o \in countCoalesced(t) :
                 /\ o \in Occurrences[t] /\ BaseFrom(t) < o /\ Jittered(t, o) <= now
                 /\ \A p \in Occurrences[t] :
                       BaseFrom(t) < p /\ p < o => p \in countCoalesced(t)
<1>1. store[t] \in Jobs /\ now \in Nat /\ Times \subseteq Nat /\ lastSeen[t] \in Times \union {None}
  BY DEF TypeOK, Times
<1>2. Seen(t) \in Times \union {None}
  BY <1>1 DEF Seen, Believed, Jobs
<1>3. /\ BaseFrom(t) \in Nat /\ store[t].createdAt <= BaseFrom(t)
      /\ Seen(t) # None => Seen(t) <= BaseFrom(t)
      /\ BaseFrom(t) \in {store[t].createdAt, Seen(t)}
  <2>1. store[t].createdAt \in Nat
    BY <1>1 DEF Jobs
  <2>2. Seen(t) # None => Seen(t) \in Nat
    BY <1>1, <1>2
  <2>. HIDE DEF Seen
  <2>. QED
    BY <2>1, <2>2 DEF BaseFrom
<1> DEFINE rest == After(t, BaseFrom(t))
           due  == {o \in rest : Jittered(t, o) <= now}
<1>4. Occurrences[t] \in SUBSET Times /\ rest \in SUBSET Times
  BY CronAssumption DEF After
<1>5. \A o : o \in rest <=> o \in Occurrences[t] /\ o > BaseFrom(t)
  BY DEF After
<1>. HIDE DEF rest
<1>6. CASE rest = {} \/ Jittered(t, Min(rest)) > now
  <2>1. countCoalesced(t) = {}
    BY <1>6 DEF countCoalesced, rest
  <2>. QED
    BY <1>2, <1>3, <2>1
<1>7. CASE rest # {} /\ ~(Jittered(t, Min(rest)) > now) /\ t \notin Recurring
  <2>1. countCoalesced(t) = {Min(rest)}
    BY <1>7 DEF countCoalesced, rest
  <2>2. Min(rest) \in rest /\ \A y \in rest : Min(rest) <= y
    BY <1>1, <1>4, <1>7, MinOf
  <2>3. Jittered(t, Min(rest)) \in Nat
    <3>1. Min(rest) \in Nat /\ Offset[t] \in Nat
      BY <1>1, <1>4, <2>2, CronAssumption
    <3>. QED
      BY <1>7, <3>1 DEF Jittered
  <2>4. Jittered(t, Min(rest)) <= now
    BY <1>1, <1>7, <2>3
  <2>5. \A p \in Occurrences[t] : ~(BaseFrom(t) < p /\ p < Min(rest))
    <3>. SUFFICES ASSUME NEW p \in Occurrences[t], BaseFrom(t) < p, p < Min(rest)
                  PROVE  FALSE
      OBVIOUS
    <3>1. p \in Nat /\ Min(rest) \in Nat
      BY <1>1, <1>4, <2>2
    <3>2. p \in rest
      BY <1>3, <1>5, <3>1
    <3>. QED
      BY <2>2, <3>1, <3>2
  <2>. QED
    BY <1>1, <1>2, <1>3, <1>4, <1>5, <2>1, <2>2, <2>4, <2>5
<1>8. CASE rest # {} /\ ~(Jittered(t, Min(rest)) > now) /\ t \in Recurring
  <2>1. countCoalesced(t) = {o \in due : Cardinality({p \in due : p < o}) < MaxCoalesce}
    BY <1>8 DEF countCoalesced, rest
  <2>2. due \in SUBSET Times /\ due \subseteq rest
    BY <1>4
  <2>3. ASSUME NEW o \in countCoalesced(t), NEW p \in Occurrences[t], BaseFrom(t) < p, p < o
        PROVE  p \in countCoalesced(t)
    <3>1. o \in due /\ Cardinality({q \in due : q < o}) < MaxCoalesce
      BY <2>1, <2>3
    <3>2. p \in rest /\ p \in Nat /\ o \in Nat /\ o \in Occurrences[t]
      BY <1>1, <1>3, <1>4, <1>5, <2>2, <2>3, <3>1
    <3>3. p \in due
      <4>1. Jittered(t, o) = o + Offset[t] /\ Jittered(t, p) = p + Offset[t]
        BY <1>8 DEF Jittered
      <4>2. Offset[t] \in Nat /\ o + Offset[t] <= now
        BY <3>1, <4>1, CronAssumption
      <4>3. p + Offset[t] <= now
        BY <1>1, <2>3, <3>2, <4>2
      <4>. QED
        BY <3>2, <4>1, <4>3
    <3> DEFINE A == {q \in due : q < p}
               B == {q \in due : q < o}
    <3>4. A \in SUBSET B
      <4>1. \A q \in due : q \in Nat
        BY <1>1, <2>2
      <4>2. p \in Nat /\ o \in Nat /\ p < o
        BY <2>3, <3>2
      <4>. HIDE DEF due
      <4>. QED
        BY <4>1, <4>2
    <3>5. IsFiniteSet(B)
      <4>1. B \in SUBSET (0..MaxTime) /\ MaxTime \in Nat
        BY <2>2, CronAssumption DEF Times
      <4>2. IsFiniteSet(0..MaxTime)
        BY <4>1, FS_Interval
      <4>. HIDE DEF B
      <4>. QED
        BY <4>1, <4>2, FS_Subset
    <3>6. Cardinality(A) < MaxCoalesce
      <4>. HIDE DEF A, B
      <4>1. IsFiniteSet(A) /\ Cardinality(A) <= Cardinality(B)
        BY <3>4, <3>5, FS_Subset
      <4>2. Cardinality(A) \in Nat /\ Cardinality(B) \in Nat
        BY <3>5, <4>1, FS_CardinalityType
      <4>3. Cardinality(B) < MaxCoalesce
        BY <3>1 DEF B
      <4>. QED
        BY <4>1, <4>2, <4>3, CronAssumption
    <3>. QED
      BY <2>1, <3>3, <3>6
  <2>4. \A o \in countCoalesced(t) :
            o \in Times /\ o \in Occurrences[t] /\ BaseFrom(t) < o /\ Jittered(t, o) <= now
    BY <1>1, <1>3, <1>4, <1>5, <2>1, <2>2
  <2>. QED
    BY <1>2, <1>3, <2>3, <2>4
<1>. QED
  BY <1>6, <1>7, <1>8

-----------------------------------------------------------------------------
(* A tick                                                                  *)

\* What is left of a job that was delivered.
Left(t) ==
    IF t \notin Recurring \/ isStale(t) THEN None
    ELSE [store[t] EXCEPT !.lastFiredAt = Max(countCoalesced(t))]

\* A tick that fires the jobs F.
TickOf(F) ==
    /\ phase = "up" /\ UNCHANGED <<now, phase, disk, awaited>> /\ busy' \in BOOLEAN
    /\ \A t \in F : t \in Tasks /\ store[t] # None /\ countCoalesced(t) # {}
    /\ seeded' = (seeded \union {t \in Tasks : store[t] # None}) \ (F \ Recurring)
    /\ lastSeen' = [t \in Tasks |->
           IF t \in F THEN IF t \in Recurring THEN Max(countCoalesced(t)) ELSE None
           ELSE IF store[t] # None THEN Seen(t) ELSE lastSeen[t]]
    /\ store' = [t \in Tasks |-> IF t \in F THEN Left(t) ELSE store[t]]
    /\ queue' = [t \in Tasks |-> IF t \in F THEN queue[t] \o <<Left(t)>> ELSE queue[t]]
    /\ counted' = [t \in Tasks |-> IF t \notin F THEN counted[t] ELSE
           [o \in Times |-> IF o \in countCoalesced(t) THEN counted[t][o] + 1 ELSE counted[t][o]]]
    /\ removed' = removed \union {t \in F : Left(t) = None}
    /\ excused' = excused \union {t \in Tasks :
           /\ store[t] # None /\ t \notin seeded
           /\ store[t].lastFiredAt # None /\ ~Believed(t) /\ lastSeen[t] = None}

LEMMA TickFires ==
    ASSUME NEW failed, tick(failed)
    PROVE  \E F : TickOf(F)
<1> DEFINE present == {t \in Tasks : store[t] # None}
           covered == [t \in present |-> countCoalesced(t)]
           due     == DueJobs(covered)
           fired   == due \ failed
           writes  == [t \in fired |-> advanceCursor(t, Max(covered[t]))]
<1>1. /\ phase = "up" /\ UNCHANGED <<now, phase, disk, awaited>>
      /\ seeded' = (seeded \union present) \ (fired \ Recurring)
      /\ lastSeen' = [t \in Tasks |->
             IF t \in fired THEN IF t \in Recurring THEN Max(covered[t]) ELSE None
             ELSE IF t \in present THEN Seen(t) ELSE lastSeen[t]]
      /\ store' = [t \in Tasks |-> IF t \in fired THEN Head(writes[t]) ELSE store[t]]
      /\ queue' = [t \in Tasks |-> IF t \in fired THEN queue[t] \o writes[t] ELSE queue[t]]
      /\ busy' = (fired # {})
      /\ counted' = [t \in Tasks |-> IF t \notin fired THEN counted[t] ELSE
             [o \in Times |-> IF o \in covered[t] THEN counted[t][o] + 1 ELSE counted[t][o]]]
      /\ removed' = removed \union {t \in fired : Head(writes[t]) = None}
      /\ excused' = excused \union {t \in present \ seeded :
             store[t].lastFiredAt # None /\ ~Believed(t) /\ lastSeen[t] = None}
  BY Zenon DEF tick
<1>2. \A t \in fired : /\ t \in Tasks /\ store[t] # None /\ countCoalesced(t) # {}
                       /\ covered[t] = countCoalesced(t)
  BY DEF DueJobs
<1>3. \A t \in fired : writes[t] = <<Left(t)>> /\ Head(writes[t]) = Left(t)
  <2>. SUFFICES ASSUME NEW t \in fired
                PROVE  writes[t] = <<Left(t)>> /\ Head(writes[t]) = Left(t)
    BY Zenon
  <2>1. writes[t] = advanceCursor(t, Max(countCoalesced(t)))
    BY <1>2
  <2>. HIDE DEF writes, fired
  <2>2. writes[t] = <<Left(t)>>
    BY <2>1 DEF advanceCursor, Left
  <2>. QED
    BY <2>2
<1>. HIDE DEF fired, writes, covered
<1>4. \A t : t \in present <=> t \in Tasks /\ store[t] # None
  OBVIOUS
<1>. QED
  <2>1. busy' \in BOOLEAN
    BY <1>1
  <2>2. lastSeen' = [t \in Tasks |->
           IF t \in fired THEN IF t \in Recurring THEN Max(countCoalesced(t)) ELSE None
           ELSE IF store[t] # None THEN Seen(t) ELSE lastSeen[t]]
    BY <1>1, <1>2
  <2>3. store' = [t \in Tasks |-> IF t \in fired THEN Left(t) ELSE store[t]]
    BY <1>1, <1>3
  <2>4. queue' = [t \in Tasks |-> IF t \in fired THEN queue[t] \o <<Left(t)>> ELSE queue[t]]
    BY <1>1, <1>3
  <2>5. counted' = [t \in Tasks |-> IF t \notin fired THEN counted[t] ELSE
           [o \in Times |-> IF o \in countCoalesced(t) THEN counted[t][o] + 1 ELSE counted[t][o]]]
    BY <1>1, <1>2
  <2>6. removed' = removed \union {t \in fired : Left(t) = None}
    BY <1>1, <1>3
  <2>7. excused' = excused \union {t \in Tasks :
           /\ store[t] # None /\ t \notin seeded
           /\ store[t].lastFiredAt # None /\ ~Believed(t) /\ lastSeen[t] = None}
    BY <1>1
  <2>8. TickOf(fired)
    BY <1>1, <1>2, <2>1, <2>2, <2>3, <2>4, <2>5, <2>6, <2>7 DEF TickOf
  <2>. QED
    BY <2>8

\* What is left of a delivered job: the cursor has come up to what was counted.
LEMMA LeftTyped ==
    ASSUME TypeOK, NEW t \in Tasks, store[t] # None, countCoalesced(t) # {}
    PROVE  /\ Left(t) \in Jobs \union {None}
           /\ Max(countCoalesced(t)) \in countCoalesced(t)
           /\ \A o \in countCoalesced(t) : o <= Max(countCoalesced(t))
           /\ Left(t) # None => /\ Left(t).createdAt = store[t].createdAt
                                /\ Left(t).lastFiredAt = Max(countCoalesced(t))
                                /\ t \in Recurring
<1>1. countCoalesced(t) \in SUBSET Times
  BY Covers
<1>2. /\ Max(countCoalesced(t)) \in countCoalesced(t)
      /\ \A o \in countCoalesced(t) : o <= Max(countCoalesced(t))
  BY <1>1, MaxOf
<1>3. store[t] \in Jobs
  BY DEF TypeOK
<1>. QED
  BY <1>1, <1>2, <1>3 DEF Left, Jobs

LEMMA TickKeepsTypes ==
    ASSUME TypeOK, NEW F, TickOf(F)
    PROVE  TypeOK'
<1>1. \A t \in F : t \in Tasks /\ store[t] # None /\ countCoalesced(t) # {}
  BY DEF TickOf
<1>2. \A t \in F : Left(t) \in Jobs \union {None}
  BY <1>1, LeftTyped
<1>3. \A t \in Tasks : store'[t] \in Jobs \union {None}
  BY <1>2 DEF TickOf, TypeOK
<1>4. \A t \in Tasks : queue'[t] \in Seq(Jobs \union {None})
  <2>. SUFFICES ASSUME NEW t \in Tasks
                PROVE  queue'[t] \in Seq(Jobs \union {None})
    OBVIOUS
  <2>1. queue[t] \in Seq(Jobs \union {None})
    BY DEF TypeOK
  <2>2. t \in F => queue[t] \o <<Left(t)>> \in Seq(Jobs \union {None})
    BY <1>2, <2>1
  <2>. QED
    BY <2>1, <2>2 DEF TickOf
<1>5. \A t \in Tasks : lastSeen'[t] \in Times \union {None}
  <2>. SUFFICES ASSUME NEW t \in Tasks
                PROVE  lastSeen'[t] \in Times \union {None}
    OBVIOUS
  <2>1. CASE t \in F
    <3>1. Max(countCoalesced(t)) \in Times
      BY <1>1, <2>1, Covers, LeftTyped
    <3>. QED
      BY <2>1, <3>1 DEF TickOf
  <2>2. CASE t \notin F
    <3>1. store[t] # None => Seen(t) \in Times \union {None}
      BY Covers
    <3>. QED
      BY <2>2, <3>1 DEF TickOf, TypeOK
  <2>. QED
    BY <2>1, <2>2
<1>6. \A t \in Tasks : counted'[t] \in [Times -> Nat]
  <2>. SUFFICES ASSUME NEW t \in Tasks
                PROVE  counted'[t] \in [Times -> Nat]
    OBVIOUS
  <2>1. counted[t] \in [Times -> Nat]
    BY DEF TypeOK
  <2>2. [o \in Times |-> IF o \in countCoalesced(t) THEN counted[t][o] + 1 ELSE counted[t][o]]
            \in [Times -> Nat]
    BY <2>1
  <2>. QED
    BY <2>1, <2>2 DEF TickOf
<1>7. /\ store' = [t \in Tasks |-> store'[t]] /\ queue' = [t \in Tasks |-> queue'[t]]
      /\ lastSeen' = [t \in Tasks |-> lastSeen'[t]] /\ counted' = [t \in Tasks |-> counted'[t]]
  BY DEF TickOf
<1>8. /\ store' \in [Tasks -> Jobs \union {None}] /\ queue' \in [Tasks -> Seq(Jobs \union {None})]
      /\ lastSeen' \in [Tasks -> Times \union {None}] /\ counted' \in [Tasks -> [Times -> Nat]]
  BY <1>3, <1>4, <1>5, <1>6, <1>7
<1>9. seeded' \subseteq Tasks /\ removed' \subseteq Tasks /\ excused' \subseteq Tasks
  BY <1>1 DEF TickOf, TypeOK
<1>. QED
  BY <1>8, <1>9 DEF TypeOK, TickOf

\* A chain that is added to ends with what was added.
LEMMA Added ==
    ASSUME NEW s \in Seq(Jobs \union {None}), NEW x
    PROVE  /\ s \o <<x>> # <<>> /\ (s \o <<x>>)[Len(s \o <<x>>)] = x
           /\ Len(s \o <<x>>) = Len(s) + 1
           /\ \A i \in DOMAIN (s \o <<x>>) : 
                 \/ (s \o <<x>>)[i] = x
                 \/ i \in DOMAIN s /\ (s \o <<x>>)[i] = s[i]
<1> DEFINE q == s \o <<x>>
<1>1. /\ Len(q) = Len(s) + 1 /\ Len(s) \in Nat
      /\ \A i \in 1..Len(q) : q[i] = IF i <= Len(s) THEN s[i] ELSE x
      /\ DOMAIN q = 1..Len(q) /\ DOMAIN s = 1..Len(s)
  OBVIOUS
<1>2. q # <<>>
  BY <1>1
<1>. HIDE DEF q
<1>3. q[Len(q)] = x
  BY <1>1
<1>4. \A i \in DOMAIN q : q[i] = x \/ (i \in DOMAIN s /\ q[i] = s[i])
  BY <1>1
<1>. QED
  BY <1>1, <1>2, <1>3, <1>4 DEF q

LEMMA TickKeepsSaved ==
    ASSUME TypeOK, PhaseInv, SavedInv, NEW F, TickOf(F)
    PROVE  PhaseInv' /\ SavedInv'
<1>1. \A t \in F : t \in Tasks /\ store[t] # None /\ countCoalesced(t) # {}
  BY DEF TickOf
<1>2. /\ phase = "up" /\ phase' = phase /\ disk' = disk /\ awaited' = awaited
      /\ seeded' = (seeded \union {t \in Tasks : store[t] # None}) \ (F \ Recurring)
      /\ removed' = removed \union {t \in F : Left(t) = None}
      /\ excused \subseteq excused'
  BY DEF TickOf
<1>3. \A t \in Tasks :
        /\ t \in F => /\ store'[t] = Left(t) /\ queue'[t] = queue[t] \o <<Left(t)>>
                      /\ t \notin Recurring => lastSeen'[t] = None
        /\ t \notin F => /\ store'[t] = store[t] /\ queue'[t] = queue[t]
                         /\ store[t] = None => lastSeen'[t] = lastSeen[t]
  BY DEF TickOf
<1>4. PhaseInv'
  <2>1. \A t \in Tasks : lastSeen'[t] # None => t \in seeded'
    BY <1>1, <1>2, <1>3 DEF PhaseInv
  <2>2. \A t \in seeded' : store'[t] # None \/ t \in removed'
    BY <1>1, <1>2, <1>3 DEF PhaseInv, TypeOK
  <2>. QED
    BY <1>2, <2>1, <2>2 DEF PhaseInv
<1>5. SavedInv'
  <2>. SUFFICES ASSUME NEW t \in Tasks, t \notin excused'
                PROVE  /\ store'[t] = Saved(t)'
                       /\ t \in removed' => store'[t] = None
    BY <1>2 DEF SavedInv, Kept
  <2>1. t \notin excused /\ store[t] = Saved(t) /\ (t \in removed => store[t] = None)
    BY <1>2 DEF SavedInv, Kept
  <2>2. CASE t \in F
    <3>1. queue[t] \in Seq(Jobs \union {None})
      BY DEF TypeOK
    <3>2. Saved(t)' = Left(t)
      <4> DEFINE s == queue[t]
      <4>1. s \o <<Left(t)>> # <<>> /\ (s \o <<Left(t)>>)[Len(s \o <<Left(t)>>)] = Left(t)
        <5>. HIDE DEF s
        <5>. QED
          BY <3>1, Added DEF s
      <4>2. queue'[t] = s \o <<Left(t)>>
        BY <1>3, <2>2
      <4>. QED
        BY <4>1, <4>2, Zenon DEF Saved
    <3>3. t \in removed' => Left(t) = None
      BY <1>1, <1>2, <2>1, <2>2
    <3>. QED
      BY <1>3, <2>2, <3>2, <3>3
  <2>3. CASE t \notin F
    BY <1>2, <1>3, <2>1, <2>3 DEF Saved
  <2>. QED
    BY <2>2, <2>3
<1>. QED
  BY <1>4, <1>5

\* A tick counts only what lies beyond the cursor, and nothing twice.
LEMMA TickKeepsCursor ==
    ASSUME TypeOK, PhaseInv, SavedInv, CursorInv, CountedOnce, NEW F, TickOf(F)
    PROVE  CursorInv' /\ CountedOnce'
<1>. SUFFICES ASSUME NEW t \in Tasks, t \notin excused'
              PROVE  /\ t \in seeded' /\ store'[t] # None => lastSeen'[t] = store'[t].lastFiredAt
                     /\ t \notin removed' => \A o \in Times : counted'[t][o] > 0 =>
                            /\ store'[t] # None
                            /\ store'[t].lastFiredAt # None /\ o <= store'[t].lastFiredAt
                     /\ \A o \in Times : counted'[t][o] <= 1
  BY DEF TickOf, CursorInv, CountedOnce, Kept
<1>1. /\ phase = "up"
      /\ seeded' = (seeded \union {u \in Tasks : store[u] # None}) \ (F \ Recurring)
      /\ removed' = removed \union {u \in F : Left(u) = None}
      /\ \A u \in F : u \in Tasks /\ store[u] # None /\ countCoalesced(u) # {}
      /\ t \notin excused
      /\ store[t] # None /\ t \notin seeded /\ store[t].lastFiredAt # None /\ lastSeen[t] = None
            => Believed(t)
  BY DEF TickOf
<1>2. /\ t \in F => /\ store'[t] = Left(t)
                    /\ lastSeen'[t] = IF t \in Recurring THEN Max(countCoalesced(t)) ELSE None
                    /\ counted'[t] = [o \in Times |->
                          IF o \in countCoalesced(t) THEN counted[t][o] + 1 ELSE counted[t][o]]
      /\ t \notin F => /\ store'[t] = store[t] /\ counted'[t] = counted[t]
                       /\ lastSeen'[t] = IF store[t] # None THEN Seen(t) ELSE lastSeen[t]
  BY DEF TickOf
<1>3. /\ t \in seeded /\ store[t] # None => lastSeen[t] = store[t].lastFiredAt
      /\ t \notin removed => \A o \in Times : counted[t][o] > 0 =>
             /\ store[t] # None
             /\ store[t].lastFiredAt # None /\ o <= store[t].lastFiredAt
      /\ t \in removed => store[t] = None
      /\ \A o \in Times : counted[t][o] <= 1
  BY <1>1 DEF CursorInv, CountedOnce, SavedInv, Kept
<1>4. store[t] # None => Seen(t) = store[t].lastFiredAt
  <2>1. lastSeen[t] # None => t \in seeded
    BY DEF PhaseInv
  <2>. QED
    BY <1>1, <1>3, <2>1 DEF Seen, Believed
<1>5. CASE t \notin F
  BY <1>1, <1>2, <1>3, <1>4, <1>5
<1>6. CASE t \in F
  <2>1. store[t] # None /\ countCoalesced(t) # {} /\ t \notin removed
    BY <1>1, <1>3, <1>6
  <2>2. /\ Left(t) # None => /\ Left(t).lastFiredAt = Max(countCoalesced(t))
                             /\ t \in Recurring
        /\ Max(countCoalesced(t)) \in countCoalesced(t)
        /\ \A o \in countCoalesced(t) : o <= Max(countCoalesced(t))
    BY <2>1, LeftTyped
  <2>3. /\ countCoalesced(t) \in SUBSET Times /\ BaseFrom(t) \in Nat
        /\ Seen(t) # None => Seen(t) \in Nat /\ Seen(t) <= BaseFrom(t)
        /\ \A o \in countCoalesced(t) : BaseFrom(t) < o
    <3>1. Times \subseteq Nat
      BY DEF Times
    <3>. QED
      BY <2>1, <3>1, Covers
  <2>4. \A o \in Times : o \in Nat /\ counted[t][o] \in Nat
    <3>1. counted[t] \in [Times -> Nat]
      BY DEF TypeOK
    <3>2. Times \subseteq Nat
      BY DEF Times
    <3>. QED
      BY <3>1, <3>2
  <2>5. \A o \in countCoalesced(t) : counted[t][o] = 0
    <3>. SUFFICES ASSUME NEW o \in countCoalesced(t), counted[t][o] # 0
                  PROVE  FALSE
      OBVIOUS
    <3>1. o \in Times /\ o \in Nat /\ counted[t][o] > 0
      BY <2>3, <2>4
    <3>2. Seen(t) # None /\ o <= Seen(t)
      BY <1>3, <1>4, <2>1, <3>1
    <3>3. Seen(t) \in Nat /\ Seen(t) <= BaseFrom(t) /\ BaseFrom(t) < o
      BY <2>3, <3>2
    <3>. QED
      BY <2>3, <3>1, <3>2, <3>3
  <2>6. \A o \in Times : counted'[t][o] <= 1
    BY <1>2, <1>3, <1>6, <2>4, <2>5
  <2>7. t \in seeded' /\ store'[t] # None => lastSeen'[t] = store'[t].lastFiredAt
    BY <1>2, <1>6, <2>2
  <2>8. ASSUME t \notin removed', NEW o \in Times, counted'[t][o] > 0
        PROVE  /\ store'[t] # None
               /\ store'[t].lastFiredAt # None /\ o <= store'[t].lastFiredAt
    <3>1. Left(t) # None /\ store'[t] = Left(t)
      BY <1>1, <1>2, <1>6, <2>8
    <3>2. Left(t).lastFiredAt = Max(countCoalesced(t)) /\ Max(countCoalesced(t)) \in Nat
      BY <2>2, <2>3, <2>4, <3>1
    <3>3. Max(countCoalesced(t)) # None
      BY <3>2, CronAssumption
    <3>4. o <= Max(countCoalesced(t))
      <4>1. CASE o \in countCoalesced(t)
        BY <2>2, <4>1
      <4>2. CASE o \notin countCoalesced(t)
        <5>1. counted[t][o] > 0
          BY <1>2, <1>6, <2>8, <4>2
        <5>2. Seen(t) # None /\ o <= Seen(t)
          BY <1>3, <1>4, <2>1, <5>1
        <5>3. Seen(t) \in Nat /\ Seen(t) <= BaseFrom(t) /\ BaseFrom(t) < Max(countCoalesced(t))
          BY <2>2, <2>3, <5>2
        <5>4. o \in Nat
          BY <2>4
        <5>. QED
          BY <2>3, <3>2, <5>2, <5>3, <5>4
      <4>. QED
        BY <4>1, <4>2
    <3>. QED
      BY <3>1, <3>2, <3>3, <3>4
  <2>. QED
    BY <2>6, <2>7, <2>8
<1>. QED
  BY <1>5, <1>6

\* What a tick counts is due, and with it all that comes before it since the creation
\* of the job is counted.
FiredInOrder(t, o) ==
    /\ Jittered(t, o) <= now
    /\ \A p \in Occurrences[t] : (store[t].createdAt < p /\ p < o) => counted'[t][p] > 0

\* Neither a clock nor a process takes back what was counted.
CountsKept == \A t \in Tasks : \A o \in Times : counted[t][o] > 0 => counted'[t][o] > 0

LEMMA TickCounts ==
    ASSUME TypeOK, NEW F, TickOf(F)
    PROVE  /\ CountsKept
           /\ \A t \in Tasks : \A o \in Times : counted'[t][o] > counted[t][o] =>
                  t \in F /\ o \in countCoalesced(t)
           /\ \A t \in F : \A o \in countCoalesced(t) : counted'[t][o] > 0
<1>1. /\ \A t \in F : t \in Tasks /\ store[t] # None /\ countCoalesced(t) # {}
      /\ \A t \in Tasks \ F : counted'[t] = counted[t]
      /\ \A t \in F : counted'[t] = [o \in Times |->
             IF o \in countCoalesced(t) THEN counted[t][o] + 1 ELSE counted[t][o]]
  BY DEF TickOf
<1>2. \A t \in Tasks : counted[t] \in [Times -> Nat]
  BY DEF TypeOK
<1>3. \A t \in Tasks, o \in Times : counted[t][o] \in Nat
  BY <1>2
<1>4. \A t \in F : countCoalesced(t) \in SUBSET Times
  BY <1>1, Covers
<1>5. \A t \in F, o \in Times :
         counted'[t][o] = IF o \in countCoalesced(t) THEN counted[t][o] + 1 ELSE counted[t][o]
  BY <1>1, ZenonT(60)
<1>6. CountsKept
  <2>. SUFFICES ASSUME NEW t \in Tasks, NEW o \in Times, counted[t][o] > 0
                PROVE  counted'[t][o] > 0
    BY DEF CountsKept
  <2>. QED
    BY <1>1, <1>3, <1>5
<1>7. ASSUME NEW t \in Tasks, NEW o \in Times, counted'[t][o] > counted[t][o]
      PROVE  t \in F /\ o \in countCoalesced(t)
  <2>1. counted[t][o] \in Nat
    BY <1>3
  <2>. QED
    BY <1>1, <1>5, <1>7, <2>1
<1>8. ASSUME NEW t \in F, NEW o \in countCoalesced(t)
      PROVE  counted'[t][o] > 0
  <2>1. counted[t][o] \in Nat /\ o \in Times
    BY <1>1, <1>3, <1>4
  <2>. QED
    BY <1>5, <2>1
<1>. QED
  BY <1>6, <1>7, <1>8

\* Below an occurrence that a tick covers, everything since the creation is counted.
LEMMA TickLeavesNoGap ==
    ASSUME TypeOK, OrderInv, NEW F, TickOf(F), NEW t \in F, NEW o \in countCoalesced(t),
           NEW p \in Occurrences[t], store[t].createdAt < p, p <= o
    PROVE  counted'[t][p] > 0
<1>1. t \in Tasks /\ store[t] # None /\ countCoalesced(t) # {}
  BY DEF TickOf
<1>2. p \in Times /\ o \in Times /\ p \in Nat /\ o \in Nat
  <2>1. countCoalesced(t) \in SUBSET Times /\ Occurrences[t] \in SUBSET Times
    BY <1>1, Covers, CronAssumption
  <2>. QED
    BY <2>1 DEF Times
<1>3. CASE p \in countCoalesced(t)
  BY <1>3, TickCounts
<1>4. CASE p \notin countCoalesced(t)
  <2>1. p # o /\ p < o
    BY <1>2, <1>4
  <2>2. BaseFrom(t) \in Nat /\ ~(BaseFrom(t) < p)
    BY <1>1, <1>4, <2>1, Covers
  <2>3. p <= BaseFrom(t)
    BY <1>2, <2>2
  <2>4. BaseFrom(t) # store[t].createdAt
    BY <1>2, <2>2, <2>3
  <2>5. BaseFrom(t) = Seen(t)
    BY <1>1, <2>4, Covers
  <2>6. Seen(t) # None
    BY <2>2, <2>5, CronAssumption
  <2>7. CoveredTo(t, store[t], Seen(t))
    BY <1>1 DEF OrderInv, Seen
  <2>8. counted[t][p] > 0
    BY <2>3, <2>5, <2>6, <2>7 DEF CoveredTo
  <2>. QED
    BY <1>1, <1>2, <2>8, TickCounts DEF CountsKept
<1>. QED
  BY <1>3, <1>4

LEMMA TickFiresInOrder ==
    ASSUME TypeOK, OrderInv, NEW F, TickOf(F), NEW t \in Tasks, NEW o \in Times,
           counted'[t][o] > counted[t][o]
    PROVE  FiredInOrder(t, o)
<1>1. t \in F /\ o \in countCoalesced(t)
  BY TickCounts
<1>2. store[t] # None
  BY <1>1 DEF TickOf
<1>3. Jittered(t, o) <= now
  BY <1>1, <1>2, Covers
<1>4. ASSUME NEW p \in Occurrences[t], store[t].createdAt < p, p < o
      PROVE  counted'[t][p] > 0
  <2>1. p \in Nat /\ o \in Nat
    BY CronAssumption DEF Times
  <2>. QED
    BY <1>1, <1>4, <2>1, TickLeavesNoGap
<1>. QED
  BY <1>3, <1>4 DEF FiredInOrder

\* A cursor that covers keeps covering.
LEMMA StaysCovered ==
    ASSUME CountsKept, NEW t \in Tasks, NEW job, NEW last, CoveredTo(t, job, last)
    PROVE  CoveredTo(t, job, last)'
BY CronAssumption DEF CountsKept, CoveredTo

LEMMA TickKeepsOrder ==
    ASSUME TypeOK, OrderInv, NEW F, TickOf(F)
    PROVE  OrderInv'
<1>. SUFFICES ASSUME NEW t \in Tasks
              PROVE  /\ store'[t] # None =>
                            /\ CoveredTo(t, store[t], store[t].lastFiredAt)'
                            /\ CoveredTo(t, store[t], lastSeen[t])'
                     /\ disk'[t] # None => CoveredTo(t, disk[t], disk[t].lastFiredAt)'
                     /\ \A i \in DOMAIN queue'[t] : queue'[t][i] # None =>
                            CoveredTo(t, queue[t][i], queue[t][i].lastFiredAt)'
  BY DEF OrderInv
<1>1. CountsKept /\ disk' = disk
  BY TickCounts DEF TickOf
<1>2. /\ store[t] # None => /\ CoveredTo(t, store[t], store[t].lastFiredAt)
                            /\ CoveredTo(t, store[t], lastSeen[t])
      /\ disk[t] # None => CoveredTo(t, disk[t], disk[t].lastFiredAt)
      /\ \A i \in DOMAIN queue[t] : queue[t][i] # None =>
             CoveredTo(t, queue[t][i], queue[t][i].lastFiredAt)
  BY DEF OrderInv
<1>3. disk'[t] # None => CoveredTo(t, disk[t], disk[t].lastFiredAt)'
  BY <1>1, <1>2, CronAssumption DEF CoveredTo, CountsKept
<1>4. \A i \in DOMAIN queue[t] : queue[t][i] # None =>
          \A p \in Occurrences[t] :
              queue[t][i].lastFiredAt # None /\ queue[t][i].createdAt < p
                  /\ p <= queue[t][i].lastFiredAt => counted'[t][p] > 0
  BY <1>1, <1>2, CronAssumption DEF CoveredTo, CountsKept
<1>5. CASE t \notin F
  <2>1. /\ store'[t] = store[t] /\ queue'[t] = queue[t]
        /\ lastSeen'[t] = IF store[t] # None THEN Seen(t) ELSE lastSeen[t]
    BY <1>5 DEF TickOf
  <2>2. store'[t] # None => /\ CoveredTo(t, store[t], store[t].lastFiredAt)'
                            /\ CoveredTo(t, store[t], lastSeen[t])'
    <3>1. lastSeen'[t] # store[t].lastFiredAt /\ store[t] # None => lastSeen'[t] = lastSeen[t]
      BY <2>1 DEF Seen
    <3>. QED
      BY <1>1, <1>2, <2>1, <3>1, CronAssumption DEF CoveredTo, CountsKept
  <2>3. \A i \in DOMAIN queue'[t] : queue'[t][i] # None =>
            CoveredTo(t, queue[t][i], queue[t][i].lastFiredAt)'
    BY <1>4, <2>1 DEF CoveredTo
  <2>. QED
    BY <1>3, <2>2, <2>3
<1>6. CASE t \in F
  <2> DEFINE last == Max(countCoalesced(t))
  <2>1. /\ store[t] # None /\ countCoalesced(t) # {} /\ store'[t] = Left(t)
        /\ queue'[t] = queue[t] \o <<Left(t)>>
        /\ lastSeen'[t] = IF t \in Recurring THEN last ELSE None
    BY <1>6 DEF TickOf
  <2>2. /\ last \in countCoalesced(t)
        /\ Left(t) # None => /\ Left(t).createdAt = store[t].createdAt
                             /\ Left(t).lastFiredAt = last
    BY <2>1, LeftTyped
  <2>3. \A p \in Occurrences[t] : store[t].createdAt < p /\ p <= last => counted'[t][p] > 0
    <3>. HIDE DEF last
    <3>. QED
      BY <1>6, <2>2, TickLeavesNoGap
  <2>. HIDE DEF last
  <2>4. Left(t) # None => \A p \in Occurrences[t] :
            Left(t).createdAt < p /\ p <= last => counted'[t][p] > 0
    BY <2>2, <2>3
  <2>5. store'[t] # None => /\ CoveredTo(t, store[t], store[t].lastFiredAt)'
                            /\ CoveredTo(t, store[t], lastSeen[t])'
    BY <2>1, <2>2, <2>4 DEF CoveredTo
  <2>6. ASSUME NEW i \in DOMAIN queue'[t], queue'[t][i] # None
        PROVE  CoveredTo(t, queue[t][i], queue[t][i].lastFiredAt)'
    <3>1. queue[t] \in Seq(Jobs \union {None})
      BY DEF TypeOK
    <3>2. queue'[t][i] = Left(t) \/ (i \in DOMAIN queue[t] /\ queue'[t][i] = queue[t][i])
      <4> DEFINE s == queue[t]
      <4>1. queue'[t] = s \o <<Left(t)>> /\ i \in DOMAIN (s \o <<Left(t)>>)
        BY <2>1, <2>6
      <4>2. \/ (s \o <<Left(t)>>)[i] = Left(t)
            \/ i \in DOMAIN s /\ (s \o <<Left(t)>>)[i] = s[i]
        <5>. HIDE DEF s
        <5>. QED
          BY <3>1, <4>1, Added DEF s
      <4>. QED
        BY <4>1, <4>2
    <3>3. CASE queue'[t][i] = Left(t)
      BY <2>2, <2>4, <2>6, <3>3 DEF CoveredTo
    <3>4. CASE i \in DOMAIN queue[t] /\ queue'[t][i] = queue[t][i]
      BY <1>4, <2>6, <3>4 DEF CoveredTo
    <3>. QED
      BY <3>2, <3>3, <3>4
  <2>. QED
    BY <1>3, <2>5, <2>6
<1>. QED
  BY <1>5, <1>6

-----------------------------------------------------------------------------
(* The other steps                                                         *)

\* A chain without its first write ends as before, and holds nothing new.
LEMMA Rest ==
    ASSUME NEW s \in Seq(Jobs \union {None}), s # <<>>
    PROVE  /\ Head(s) = s[1] /\ 1 \in DOMAIN s /\ Tail(s) \in Seq(Jobs \union {None})
           /\ Len(Tail(s)) = Len(s) - 1
           /\ Tail(s) = <<>> => s[Len(s)] = Head(s)
           /\ Tail(s) # <<>> => Tail(s)[Len(Tail(s))] = s[Len(s)]
           /\ \A i \in DOMAIN Tail(s) : i + 1 \in DOMAIN s /\ Tail(s)[i] = s[i + 1]
<1>1. /\ Len(s) \in Nat \ {0} /\ DOMAIN s = 1..Len(s) /\ Head(s) = s[1]
      /\ Tail(s) \in Seq(Jobs \union {None}) /\ Len(Tail(s)) = Len(s) - 1
      /\ \A i \in 1..(Len(s) - 1) : Tail(s)[i] = s[i + 1]
      /\ DOMAIN Tail(s) = 1..Len(Tail(s))
  OBVIOUS
<1>2. Tail(s) = <<>> => Len(s) = 1
  <2> DEFINE r == Tail(s)
  <2>1. Len(r) = Len(s) - 1 /\ Len(s) \in Nat
    BY <1>1
  <2>. HIDE DEF r
  <2>2. r = <<>> => Len(r) = 0
    OBVIOUS
  <2>3. r = <<>> => Len(s) = 1
    BY <2>1, <2>2
  <2>. QED
    BY <2>3 DEF r
<1>3. Tail(s) # <<>> => Len(s) - 1 \in 1..(Len(s) - 1)
  BY <1>1
<1>. QED
  BY <1>1, <1>2, <1>3

LEMMA PersistKeeps ==
    ASSUME CronInv, CountedOnce, NEW t \in Tasks, NEW ok \in BOOLEAN, Persist(t, ok)
    PROVE  CronInv' /\ CountedOnce'
<1>. USE DEF CronInv
<1>1. /\ phase # "down" /\ queue[t] # <<>> /\ queue[t] \in Seq(Jobs \union {None})
      /\ UNCHANGED <<now, phase, busy, store, lastSeen, seeded, counted, removed>>
      /\ queue' = [queue EXCEPT ![t] = Tail(queue[t])]
      /\ awaited' = [awaited EXCEPT ![t] = IF awaited[t] = 0 THEN 0 ELSE awaited[t] - 1]
      /\ disk' = IF ok THEN [disk EXCEPT ![t] = queue[t][1]] ELSE disk
      /\ excused' = IF ok THEN excused ELSE excused \union {t}
  <2>1. queue[t] # <<>> /\ queue[t] \in Seq(Jobs \union {None})
    BY DEF Persist, TypeOK
  <2>2. Head(queue[t]) = queue[t][1]
    BY <2>1, Rest
  <2>. QED
    BY <2>1, <2>2 DEF Persist, mem
<1>2. /\ 1 \in DOMAIN queue[t] /\ Tail(queue[t]) \in Seq(Jobs \union {None})
      /\ Len(Tail(queue[t])) = Len(queue[t]) - 1
      /\ Tail(queue[t]) = <<>> => queue[t][Len(queue[t])] = queue[t][1]
      /\ Tail(queue[t]) # <<>> => Tail(queue[t])[Len(Tail(queue[t]))] = queue[t][Len(queue[t])]
      /\ \A i \in DOMAIN Tail(queue[t]) :
             i + 1 \in DOMAIN queue[t] /\ Tail(queue[t])[i] = queue[t][i + 1]
  <2> DEFINE s == queue[t]
  <2>1. s \in Seq(Jobs \union {None}) /\ s # <<>>
    BY <1>1
  <2>. HIDE DEF s
  <2>2. /\ 1 \in DOMAIN s /\ Tail(s) \in Seq(Jobs \union {None})
        /\ Len(Tail(s)) = Len(s) - 1
        /\ Tail(s) = <<>> => s[Len(s)] = s[1]
        /\ Tail(s) # <<>> => Tail(s)[Len(Tail(s))] = s[Len(s)]
        /\ \A i \in DOMAIN Tail(s) : i + 1 \in DOMAIN s /\ Tail(s)[i] = s[i + 1]
    BY <2>1, Rest
  <2>. QED
    BY <2>2 DEF s
<1> DEFINE rest == Tail(queue[t])
<1>3. /\ \A u \in Tasks \ {t} : /\ queue'[u] = queue[u] /\ awaited'[u] = awaited[u]
                                /\ disk'[u] = disk[u]
      /\ queue'[t] = rest /\ disk'[t] = IF ok THEN queue[t][1] ELSE disk[t]
      /\ awaited'[t] = IF awaited[t] = 0 THEN 0 ELSE awaited[t] - 1
      /\ \A u \in Tasks : u \notin excused' => u \notin excused /\ (u = t => ok)
  BY <1>1 DEF TypeOK
<1>. HIDE DEF rest
<1>4. TypeOK'
  <2>1. queue' \in [Tasks -> Seq(Jobs \union {None})]
    BY <1>1, <1>2 DEF TypeOK
  <2>2. queue[t][1] \in Jobs \union {None}
    <3> DEFINE s == queue[t]
    <3>1. s \in Seq(Jobs \union {None}) /\ 1 \in DOMAIN s
      BY <1>1, <1>2
    <3>. HIDE DEF s
    <3>2. s[1] \in Jobs \union {None}
      BY <3>1
    <3>. QED
      BY <3>2 DEF s
  <2>3. disk' \in [Tasks -> Jobs \union {None}]
    BY <1>1, <2>2 DEF TypeOK
  <2>4. awaited' \in [Tasks -> Nat]
    <3>1. awaited[t] \in Nat /\ awaited \in [Tasks -> Nat]
      BY DEF TypeOK
    <3>2. (IF awaited[t] = 0 THEN 0 ELSE awaited[t] - 1) \in Nat
      BY <3>1
    <3>. QED
      BY <1>1, <3>1, <3>2
  <2>. QED
    BY <1>1, <2>1, <2>3, <2>4 DEF TypeOK
<1>5. PhaseInv'
  BY <1>1 DEF PhaseInv
<1>6. SavedInv'
  <2>. SUFFICES ASSUME NEW u \in Tasks, u \notin excused'
                PROVE  /\ store'[u] = Saved(u)'
                       /\ phase' = "stopping" => awaited'[u] = Len(queue'[u])
                       /\ u \in removed' => store'[u] = None
    BY <1>1 DEF SavedInv, Kept
  <2>1. /\ u \notin excused /\ store[u] = Saved(u)
        /\ phase = "stopping" => awaited[u] = Len(queue[u])
        /\ u \in removed => store[u] = None
    BY <1>1, <1>3 DEF SavedInv, Kept
  <2>2. Saved(u)' = Saved(u)
    <3>1. CASE u = t
      <4>1. Saved(t) = queue[t][Len(queue[t])]
        BY <1>1 DEF Saved
      <4>2. Saved(t)' = IF rest = <<>> THEN queue[t][1] ELSE rest[Len(rest)]
        BY <1>3, <3>1 DEF Saved
      <4>. QED
        BY <1>2, <3>1, <4>1, <4>2 DEF rest
    <3>2. CASE u # t
      BY <1>3, <3>2 DEF Saved
    <3>. QED
      BY <3>1, <3>2
  <2>3. phase' = "stopping" => awaited'[u] = Len(queue'[u])
    <3>1. CASE u = t
      <4>1. Len(queue[t]) \in Nat /\ Len(queue[t]) # 0
        BY <1>1
      <4>. QED
        BY <1>1, <1>2, <1>3, <2>1, <3>1, <4>1 DEF rest
    <3>2. CASE u # t
      BY <1>1, <1>3, <2>1, <3>2
    <3>. QED
      BY <3>1, <3>2
  <2>. QED
    BY <1>1, <2>1, <2>2, <2>3
<1>7. CursorInv' /\ CountedOnce'
  BY <1>1, <1>3 DEF CursorInv, CountedOnce, Kept
<1>8. OrderInv'
  <2>. SUFFICES ASSUME NEW u \in Tasks
                PROVE  /\ disk'[u] # None => CoveredTo(u, disk'[u], disk'[u].lastFiredAt)
                       /\ \A i \in DOMAIN queue'[u] : queue'[u][i] # None =>
                              CoveredTo(u, queue'[u][i], queue'[u][i].lastFiredAt)
    BY <1>1 DEF OrderInv, CoveredTo
  <2>1. /\ disk[u] # None => CoveredTo(u, disk[u], disk[u].lastFiredAt)
        /\ \A i \in DOMAIN queue[u] : queue[u][i] # None =>
               CoveredTo(u, queue[u][i], queue[u][i].lastFiredAt)
    BY DEF OrderInv
  <2>2. CASE u = t
    <3>1. disk'[t] # None => CoveredTo(t, disk'[t], disk'[t].lastFiredAt)
      <4>1. queue[t][1] # None => CoveredTo(t, queue[t][1], queue[t][1].lastFiredAt)
        BY <1>2, <2>1, <2>2
      <4>. QED
        BY <1>3, <2>1, <2>2, <4>1
    <3>2. ASSUME NEW i \in DOMAIN rest, rest[i] # None
          PROVE  CoveredTo(t, rest[i], rest[i].lastFiredAt)
      <4>1. i + 1 \in DOMAIN queue[t] /\ rest[i] = queue[t][i + 1]
        BY <1>2, <3>2 DEF rest
      <4>. QED
        BY <2>1, <2>2, <3>2, <4>1
    <3>. QED
      BY <1>3, <2>2, <3>1, <3>2
  <2>3. CASE u # t
    BY <1>3, <2>1, <2>3
  <2>. QED
    BY <2>2, <2>3
<1>. QED
  BY <1>4, <1>5, <1>6, <1>7, <1>8

\* What a call adds to the chain of a job that is there or was never written.
LEMMA EnqueueKeeps ==
    ASSUME CronInv, CountedOnce, NEW t \in Tasks, NEW job \in Jobs \union {None},
           phase # "down",
           store' = [store EXCEPT ![t] = job],
           queue' = [queue EXCEPT ![t] = Append(queue[t], job)],
           excused' = excused \union ({t} \intersect Late),
           removed' = IF job = None THEN removed \union {t} ELSE removed,
           UNCHANGED <<now, phase, busy, disk, awaited, lastSeen, seeded, counted>>,
           job # None => /\ store[t] = None /\ t \notin removed /\ job.lastFiredAt = None
    PROVE  CronInv' /\ CountedOnce'
<1>. USE DEF CronInv
<1>1. /\ \A u \in Tasks \ {t} : queue'[u] = queue[u] /\ store'[u] = store[u]
      /\ queue'[t] = queue[t] \o <<job>> /\ store'[t] = job
      /\ queue[t] \in Seq(Jobs \union {None}) /\ queue'[t] \in Seq(Jobs \union {None})
      /\ phase \in {"up", "stopping"}
  <2>1. queue[t] \in Seq(Jobs \union {None})
    BY DEF TypeOK
  <2>2. Append(queue[t], job) = queue[t] \o <<job>> /\ Append(queue[t], job) \in Seq(Jobs \union {None})
    BY <2>1
  <2>. QED
    BY <2>1, <2>2 DEF TypeOK
<1>2. /\ queue'[t] # <<>> /\ queue'[t][Len(queue'[t])] = job
      /\ \A i \in DOMAIN queue'[t] :
            \/ queue'[t][i] = job
            \/ i \in DOMAIN queue[t] /\ queue'[t][i] = queue[t][i]
  <2> DEFINE s == queue[t]
  <2>1. s \in Seq(Jobs \union {None}) /\ queue'[t] = s \o <<job>>
    BY <1>1
  <2>. HIDE DEF s
  <2>2. /\ s \o <<job>> # <<>> /\ (s \o <<job>>)[Len(s \o <<job>>)] = job
        /\ \A i \in DOMAIN (s \o <<job>>) :
              \/ (s \o <<job>>)[i] = job
              \/ i \in DOMAIN s /\ (s \o <<job>>)[i] = s[i]
    BY <2>1, Added
  <2>. QED
    BY <2>1, <2>2 DEF s
<1>3. \A u \in Tasks \ excused' : u \notin excused /\ (u = t => phase = "up")
  BY DEF Late
<1>4. TypeOK'
  BY <1>1 DEF TypeOK, Late
<1>5. PhaseInv'
  BY <1>1 DEF PhaseInv, TypeOK
<1>6. SavedInv'
  <2>. SUFFICES ASSUME NEW u \in Tasks, u \notin excused'
                PROVE  /\ store'[u] = Saved(u)'
                       /\ phase' = "stopping" => awaited'[u] = Len(queue'[u])
                       /\ u \in removed' => store'[u] = None
    BY <1>1 DEF SavedInv, Kept
  <2>1. /\ u \notin excused /\ store[u] = Saved(u)
        /\ phase = "stopping" => awaited[u] = Len(queue[u])
        /\ u \in removed => store[u] = None
    BY <1>1, <1>3 DEF SavedInv, Kept
  <2>2. CASE u = t
    <3>1. Saved(t)' = job
      BY <1>2 DEF Saved
    <3>. QED
      BY <1>1, <1>3, <2>1, <2>2, <3>1
  <2>3. CASE u # t
    BY <1>1, <2>1, <2>3 DEF Saved
  <2>. QED
    BY <2>2, <2>3
<1>7. CountedOnce'
  BY <1>3 DEF CountedOnce
<1>8. CursorInv'
  <2>. SUFFICES ASSUME NEW u \in Tasks, u \notin excused'
                PROVE  /\ u \in seeded' /\ store'[u] # None => lastSeen'[u] = store'[u].lastFiredAt
                       /\ u \notin removed' => \A o \in Times : counted'[u][o] > 0 =>
                            /\ store'[u] # None
                            /\ store'[u].lastFiredAt # None /\ o <= store'[u].lastFiredAt
    BY <1>1 DEF CursorInv, Kept
  <2>1. /\ u \notin excused
        /\ u \in seeded /\ store[u] # None => lastSeen[u] = store[u].lastFiredAt
        /\ u \notin removed => \A o \in Times : counted[u][o] > 0 =>
                            /\ store[u] # None
                            /\ store[u].lastFiredAt # None /\ o <= store[u].lastFiredAt
    BY <1>1, <1>3 DEF CursorInv, Kept
  <2>2. CASE u = t
    <3>1. CASE job = None
      BY <1>1, <2>2, <3>1
    <3>2. CASE job # None
      <4>1. t \notin seeded /\ (\A o \in Times : ~(counted[t][o] > 0))
        BY <2>1, <2>2, <3>2 DEF PhaseInv
      <4>. QED
        BY <2>2, <4>1
    <3>. QED
      BY <3>1, <3>2
  <2>3. CASE u # t
    BY <1>1, <2>1, <2>3
  <2>. QED
    BY <2>2, <2>3
<1>9. OrderInv'
  <2>. SUFFICES ASSUME NEW u \in Tasks
                PROVE  /\ store'[u] # None => /\ CoveredTo(u, store'[u], store'[u].lastFiredAt)
                                              /\ CoveredTo(u, store'[u], lastSeen[u])
                       /\ \A i \in DOMAIN queue'[u] : queue'[u][i] # None =>
                              CoveredTo(u, queue'[u][i], queue'[u][i].lastFiredAt)
    BY DEF OrderInv, CoveredTo
  <2>1. /\ store[u] # None => /\ CoveredTo(u, store[u], store[u].lastFiredAt)
                              /\ CoveredTo(u, store[u], lastSeen[u])
        /\ \A i \in DOMAIN queue[u] : queue[u][i] # None =>
               CoveredTo(u, queue[u][i], queue[u][i].lastFiredAt)
    BY DEF OrderInv
  <2>2. CASE u = t
    <3>1. job # None => CoveredTo(t, job, job.lastFiredAt) /\ CoveredTo(t, job, lastSeen[t])
      <4>1. job # None => lastSeen[t] = None
        BY DEF PhaseInv
      <4>. QED
        BY <4>1 DEF CoveredTo
    <3>2. \A i \in DOMAIN queue'[t] : queue'[t][i] # None =>
              CoveredTo(t, queue'[t][i], queue'[t][i].lastFiredAt)
      BY <1>2, <2>1, <2>2, <3>1
    <3>. QED
      BY <1>1, <2>2, <3>1, <3>2
  <2>3. CASE u # t
    BY <1>1, <2>1, <2>3
  <2>. QED
    BY <2>2, <2>3
<1>. QED
  BY <1>4, <1>5, <1>6, <1>7, <1>8, <1>9

LEMMA AddTaskKeeps ==
    ASSUME CronInv, CountedOnce, NEW t \in Tasks, addTask(t)
    PROVE  CronInv' /\ CountedOnce'
<1> DEFINE job == [createdAt |-> now, lastFiredAt |-> None]
<1>1. job \in Jobs \union {None} /\ job.lastFiredAt = None
  BY DEF CronInv, TypeOK, Jobs
<1>2. /\ phase # "down" /\ store' = [store EXCEPT ![t] = job]
      /\ queue' = [queue EXCEPT ![t] = Append(queue[t], job)]
      /\ excused' = excused \union ({t} \intersect Late)
      /\ store[t] = None /\ t \notin removed
      /\ UNCHANGED <<now, phase, busy, disk, awaited, lastSeen, seeded, counted, removed>>
  BY DEF addTask
<1>3. job # None
  <2>1. job \in Jobs
    BY DEF CronInv, TypeOK, Jobs
  <2>. HIDE DEF job
  <2>. QED
    BY <2>1, CronAssumption
<1>. HIDE DEF job
<1>. QED
  BY <1>1, <1>2, <1>3, EnqueueKeeps

LEMMA RemoveTasksKeeps ==
    ASSUME CronInv, CountedOnce, NEW t \in Tasks, removeTasks(t)
    PROVE  CronInv' /\ CountedOnce'
<1>1. /\ phase # "down" /\ store' = [store EXCEPT ![t] = None]
      /\ queue' = [queue EXCEPT ![t] = Append(queue[t], None)]
      /\ excused' = excused \union ({t} \intersect Late)
      /\ removed' = removed \union {t}
      /\ UNCHANGED <<now, phase, busy, disk, awaited, lastSeen, seeded, counted>>
  BY DEF removeTasks
<1>. QED
  BY <1>1, EnqueueKeeps

\* The process is over: what its chains had still to write is lost.
LEMMA GoneKeeps ==
    ASSUME CronInv, CountedOnce, Gone, excused \subseteq excused', excused' \subseteq Tasks,
           \A t \in Tasks \ excused' : queue[t] = <<>>, phase # "down"
    PROVE  CronInv' /\ CountedOnce'
<1>. USE DEF CronInv
<1>1. /\ phase' = "down" /\ busy' = FALSE /\ store' = [t \in Tasks |-> None]
      /\ queue' = [t \in Tasks |-> <<>>] /\ awaited' = [t \in Tasks |-> 0]
      /\ lastSeen' = [t \in Tasks |-> None] /\ seeded' = {}
      /\ UNCHANGED <<now, disk, turns, counted, removed>>
  BY DEF Gone
<1>2. TypeOK'
  <2>1. queue' \in [Tasks -> Seq(Jobs \union {None})]
    <3>1. <<>> \in Seq(Jobs \union {None})
      OBVIOUS
    <3>. QED
      BY <1>1, <3>1
  <2>2. store' \in [Tasks -> Jobs \union {None}] /\ lastSeen' \in [Tasks -> Times \union {None}]
    BY <1>1
  <2>. QED
    BY <1>1, <2>1, <2>2 DEF TypeOK
<1>3. PhaseInv'
  BY <1>1 DEF PhaseInv
<1>4. \A t \in Tasks \ excused' : t \notin excused /\ disk[t] = store[t]
  BY DEF SavedInv, Kept, Saved
<1>5. SavedInv'
  BY <1>1, <1>4 DEF SavedInv, Kept, Saved
<1>6. CursorInv' /\ CountedOnce'
  BY <1>1, <1>4 DEF CursorInv, CountedOnce, Kept
<1>7. OrderInv'
  <2>1. \A t \in Tasks : disk[t] # None => CoveredTo(t, disk[t], disk[t].lastFiredAt)
    BY DEF OrderInv
  <2>2. \A t \in Tasks : store'[t] = None /\ queue'[t] = <<>>
    BY <1>1
  <2>. QED
    BY <1>1, <2>1, <2>2 DEF OrderInv, CoveredTo
<1>. QED
  BY <1>2, <1>3, <1>5, <1>6, <1>7

LEMMA FlushPersistKeeps ==
    ASSUME CronInv, CountedOnce, flushPersist
    PROVE  CronInv' /\ CountedOnce'
<1>1. \A t \in Tasks \ excused' : queue[t] = <<>>
  <2>. SUFFICES ASSUME NEW t \in Tasks, t \notin excused
                PROVE  queue[t] = <<>>
    BY DEF flushPersist
  <2>1. Len(queue[t]) = 0 /\ queue[t] \in Seq(Jobs \union {None})
    BY DEF flushPersist, CronInv, SavedInv, TypeOK
  <2>. QED
    BY <2>1
<1>2. Gone /\ excused' = excused /\ excused \subseteq Tasks /\ phase # "down"
  BY DEF flushPersist, CronInv, TypeOK
<1>. QED
  BY <1>1, <1>2, GoneKeeps

LEMMA CrashKeeps ==
    ASSUME CronInv, CountedOnce, Crash
    PROVE  CronInv' /\ CountedOnce'
<1>1. /\ Gone /\ phase # "down"
      /\ excused' = excused \union {t \in Tasks : queue[t] # <<>>} /\ excused \subseteq Tasks
  BY DEF Crash, CronInv, TypeOK
<1>. QED
  BY <1>1, GoneKeeps

LEMMA StopKeeps ==
    ASSUME CronInv, CountedOnce, stop
    PROVE  CronInv' /\ CountedOnce'
<1>. USE DEF CronInv
<1>1. /\ phase = "up" /\ phase' = "stopping"
      /\ lastSeen' = [t \in Tasks |-> None] /\ seeded' = {}
      /\ awaited' = [t \in Tasks |-> Len(queue[t])]
      /\ UNCHANGED <<now, busy, store, disk, queue, counted, removed, excused>>
  BY DEF stop, hist
<1>2. \A t \in Tasks : Len(queue[t]) \in Nat
  BY DEF TypeOK
<1>3. TypeOK'
  BY <1>1, <1>2 DEF TypeOK
<1>4. PhaseInv'
  BY <1>1 DEF PhaseInv
<1>5. SavedInv'
  BY <1>1 DEF SavedInv, Kept, Saved
<1>6. CursorInv' /\ CountedOnce'
  BY <1>1 DEF CursorInv, CountedOnce, Kept
<1>7. OrderInv'
  BY <1>1 DEF OrderInv, CoveredTo
<1>. QED
  BY <1>3, <1>4, <1>5, <1>6, <1>7

LEMMA LoadKeeps ==
    ASSUME CronInv, CountedOnce, loadFromDisk
    PROVE  CronInv' /\ CountedOnce'
<1>. USE DEF CronInv
<1>1. /\ phase = "down" /\ phase' = "up" /\ store' = disk
      /\ UNCHANGED <<now, busy, disk, queue, awaited, lastSeen, seeded, counted, removed, excused>>
      /\ seeded = {} /\ \A t \in Tasks : queue[t] = <<>> /\ lastSeen[t] = None
  BY DEF loadFromDisk, hist, PhaseInv
<1>2. TypeOK'
  BY <1>1 DEF TypeOK
<1>3. PhaseInv'
  BY <1>1 DEF PhaseInv
<1>4. SavedInv'
  BY <1>1 DEF SavedInv, Kept, Saved
<1>5. CursorInv' /\ CountedOnce'
  BY <1>1 DEF CursorInv, CountedOnce, Kept
<1>6. OrderInv'
  BY <1>1 DEF OrderInv, CoveredTo
<1>. QED
  BY <1>2, <1>3, <1>4, <1>5, <1>6

\* The world around changes nothing the invariant is about but the clock.
LEMMA OthersKeep ==
    ASSUME CronInv, CountedOnce, now' \in Times, busy' \in BOOLEAN,
           UNCHANGED <<phase, store, disk, queue, awaited, lastSeen, seeded, hist>>
    PROVE  CronInv' /\ CountedOnce'
BY DEF CronInv, TypeOK, PhaseInv, SavedInv, CursorInv, OrderInv, CountedOnce, CoveredTo, Kept, Saved,
       hist

-----------------------------------------------------------------------------
(* The theorems                                                            *)

LEMMA InitCronInv == Init => CronInv /\ CountedOnce
<1>. SUFFICES ASSUME Init
              PROVE  CronInv /\ CountedOnce
  OBVIOUS
<1>1. TypeOK
  <2>1. 0 \in Times
    BY CronAssumption DEF Times
  <2>2. queue \in [Tasks -> Seq(Jobs \union {None})]
    <3>1. <<>> \in Seq(Jobs \union {None})
      OBVIOUS
    <3>. QED
      BY <3>1 DEF Init
  <2>3. counted \in [Tasks -> [Times -> Nat]]
    BY DEF Init
  <2>. QED
    BY <2>1, <2>2, <2>3 DEF Init, TypeOK
<1>2. PhaseInv /\ SavedInv /\ CursorInv /\ CountedOnce
  BY DEF Init, PhaseInv, SavedInv, CursorInv, CountedOnce, Kept, Saved
<1>3. OrderInv
  BY DEF Init, OrderInv, CoveredTo
<1>. QED
  BY <1>1, <1>2, <1>3 DEF CronInv

LEMMA NextKeepsCronInv ==
    ASSUME CronInv, CountedOnce, [Next]_vars
    PROVE  CronInv' /\ CountedOnce'
<1>1. ASSUME NEW failed \in SUBSET Tasks, tick(failed)
      PROVE  CronInv' /\ CountedOnce'
  <2>1. PICK F : TickOf(F)
    BY <1>1, TickFires
  <2>2. TypeOK' /\ PhaseInv' /\ SavedInv' /\ CursorInv' /\ CountedOnce' /\ OrderInv'
    BY <2>1, TickKeepsTypes, TickKeepsSaved, TickKeepsCursor, TickKeepsOrder DEF CronInv
  <2>. QED
    BY <2>2 DEF CronInv
<1>2. ASSUME NEW t \in Tasks, addTask(t)
      PROVE  CronInv' /\ CountedOnce'
  BY <1>2, AddTaskKeeps
<1>3. ASSUME NEW t \in Tasks, removeTasks(t)
      PROVE  CronInv' /\ CountedOnce'
  BY <1>3, RemoveTasksKeeps
<1>4. ASSUME NEW t \in Tasks, Persist(t, TRUE) \/ Persist(t, FALSE)
      PROVE  CronInv' /\ CountedOnce'
  BY <1>4, PersistKeeps
<1>5. CASE stop
  BY <1>5, StopKeeps
<1>6. CASE flushPersist
  BY <1>6, FlushPersistKeeps
<1>7. CASE Crash
  BY <1>7, CrashKeeps
<1>8. CASE loadFromDisk
  BY <1>8, LoadKeeps
<1>9. CASE StartTurn \/ EndTurn
  BY <1>9, OthersKeep DEF StartTurn, EndTurn, CronInv, TypeOK
<1>10. CASE Clock
  <2>1. now' \in Times
    <3>1. now \in 0..MaxTime /\ MaxTime \in Nat
      BY CronAssumption DEF CronInv, TypeOK, Times
    <3>. QED
      BY <1>10, <3>1 DEF Clock, Times
  <2>2. UNCHANGED <<phase, busy, store, disk, queue, awaited, lastSeen, seeded, hist>>
    BY <1>10 DEF Clock, mem
  <2>3. busy \in BOOLEAN
    BY DEF CronInv, TypeOK
  <2>. QED
    BY <2>1, <2>2, <2>3, OthersKeep
<1>11. CASE UNCHANGED vars
  BY <1>11, OthersKeep DEF vars, mem, CronInv, TypeOK
<1>. QED
  BY <1>1, <1>2, <1>3, <1>4, <1>5, <1>6, <1>7, <1>8, <1>9, <1>10, <1>11 DEF Next

LEMMA CronInvariant == Spec => [](CronInv /\ CountedOnce)
<1>1. CronInv /\ CountedOnce /\ [Next]_vars => (CronInv /\ CountedOnce)'
  BY NextKeepsCronInv
<1>. QED
  BY <1>1, InitCronInv, PTL DEF Spec

\* The fields of the manager, the scheduler and the store keep their types.
THEOREM CronTypes == Spec => []TypeOK
<1>1. CronInv => TypeOK
  BY DEF CronInv
<1>. QED
  BY <1>1, CronInvariant, PTL

\* An occurrence is part of one coalescedCount at most: the cursor, which a restart
\* reads from the file, is never behind what was counted (createCronScheduler's tick,
\* CronManager.advanceCursor, persistEnqueue, loadFromDisk).
THEOREM OccurrencesCountedOnce == Spec => []CountedOnce
BY CronInvariant, PTL

\* A job that is gone from the memory is gone from its file once its chain has run,
\* and is not there after a restart.
THEOREM RemovedJobsStayGone == Spec => []GoneStaysGone
<1>1. CronInv => GoneStaysGone
  <2>. SUFFICES ASSUME CronInv, NEW t \in removed \ excused
                PROVE  store[t] = None /\ (queue[t] = <<>> => disk[t] = None)
    BY DEF GoneStaysGone
  <2>1. t \in Tasks
    BY DEF CronInv, TypeOK
  <2>2. Kept(t) = Saved(t) /\ Kept(t) = None
    BY <2>1 DEF CronInv, SavedInv
  <2>3. store[t] = None
    BY <2>1, <2>2 DEF Kept, CronInv, PhaseInv
  <2>. QED
    BY <2>2, <2>3 DEF Saved
<1>. QED
  BY <1>1, CronInvariant, PTL

\* A fire covers only what is due, and never passes over an occurrence (countCoalesced).
THEOREM FiresNeverSkip == Spec => FiresInOrder
<1> DEFINE InOrder == \A t \in Tasks : \A o \in Times : counted'[t][o] > counted[t][o] =>
                /\ Jittered(t, o) <= now
                /\ \A p \in Occurrences[t] :
                      (store[t].createdAt < p /\ p < o) => counted'[t][p] > 0
<1>1. CronInv /\ [Next]_vars => [InOrder]_vars
  <2>. SUFFICES ASSUME CronInv, [Next]_vars
                PROVE  InOrder
    OBVIOUS
  <2>1. CASE counted' = counted
    <3>1. \A t \in Tasks : counted[t] \in [Times -> Nat]
      BY DEF CronInv, TypeOK
    <3>2. \A t \in Tasks, o \in Times : counted[t][o] \in Nat
      BY <3>1
    <3>3. \A t \in Tasks, o \in Times : ~(counted'[t][o] > counted[t][o])
      BY <2>1, <3>2
    <3>. QED
      BY <3>3
  <2>2. CASE counted' # counted
    <3>1. PICK failed \in SUBSET Tasks : tick(failed)
      BY <2>2 DEF Next, vars, addTask, removeTasks, Persist, stop, flushPersist, Crash, Gone,
                  loadFromDisk, StartTurn, EndTurn, Clock, hist
    <3>2. PICK F : TickOf(F)
      BY <3>1, TickFires
    <3>3. \A t \in Tasks : \A o \in Times :
              counted'[t][o] > counted[t][o] => FiredInOrder(t, o)
      BY <3>2, TickFiresInOrder DEF CronInv
    <3>. QED
      BY <3>3 DEF FiredInOrder
  <2>. QED
    BY <2>1, <2>2
<1>. QED
  BY <1>1, CronInvariant, PTL DEF Spec, FiresInOrder

=============================================================================
