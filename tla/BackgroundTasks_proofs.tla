------------------------ MODULE BackgroundTasks_proofs ------------------------
(***************************************************************************)
(* For any number of tasks, callers, crashes and failed writes: the end of *)
(* a task whose writes succeeded is told to the model at most once, only   *)
(* as the task's file has it, and not again after a TaskStop that found it *)
(* running; and, as long as the process lives, an end it is to be told of  *)
(* is on its way to it.                                                    *)
(***************************************************************************)
EXTENDS BackgroundTasks, SequenceTheorems, TLAPS

Statuses == Terminal \cup {"running"}

Write == [status : Statuses, suppressed : BOOLEAN, settles : BOOLEAN]

EntryRecord ==
    [kind : Kinds, aborted : BOOLEAN, suppressed : BOOLEAN, fired : BOOLEAN,
     ended : BOOLEAN, queue : Seq(Write), reading : BOOLEAN]

CallRecord ==
    [pc : {"idle", "suppress", "grace", "force", "flush", "wait"}, task : Tasks \cup {None},
     due : Nat, quiet : BOOLEAN]

Notification == [task : Tasks, status : Statuses]

\* What may be recorded for the context.
Item == Notification \cup {Call, Result}

Typing ==
    /\ proc \in {"up", "loading", "down"}
    /\ mem \in [Tasks -> Statuses \cup {"new", "ghost", "forgotten"}]
    /\ entry \in [Tasks -> EntryRecord]
    /\ disk \in [Tasks -> File \cup {None}]
    /\ calls \in [Callers -> CallRecord]
    /\ steers \in Seq(Notification) /\ history \in Seq(Item)
    /\ durable \in 0..Len(history)
    /\ told \in [Tasks -> SUBSET Terminal] /\ hushed \subseteq Tasks

\* The fields e of a task of status m: the writes that carry its end follow all others,
\* carry the flag it has kept since, and one of them is queued until the effects of the
\* end have been fired.  A notification is prepared only then, for a task that is not
\* suppressed.
Coherent(m, e) ==
    /\ e.fired => m \in Terminal
    /\ e.reading => e.fired /\ ~e.suppressed
    /\ \A k \in DOMAIN e.queue :
        IF e.queue[k].settles
        THEN m \in Terminal /\ e.queue[k].status = m /\ e.queue[k].suppressed = e.suppressed
        ELSE ~e.fired
    /\ \A k, l \in DOMAIN e.queue : k < l /\ e.queue[k].settles => e.queue[l].settles
    /\ m \in Terminal /\ ~e.fired => \E k \in DOMAIN e.queue : e.queue[k].settles

Entries ==
    \A t \in Tasks :
        IF mem[t] \in Statuses THEN Coherent(mem[t], entry[t]) ELSE entry[t] = NewEntry

\* A call is about a task of this process.  One that awaits the file awaits the write that
\* carries the end of the task, unless that has been written; TaskStop has suppressed the
\* notification before.
InOrder(r, M, E) ==
    /\ r \in CallRecord
    /\ r.pc = "idle" => r = NoCall
    /\ r.pc # "idle" => r.task \in Tasks /\ M[r.task] \in Statuses
    /\ r.quiet => r.pc # "wait" /\ r.task \in Tasks /\ E[r.task].suppressed
    /\ r.pc = "flush" =>
        /\ M[r.task] \in Terminal
        /\ ~E[r.task].fired =>
               \E k \in DOMAIN E[r.task].queue : k <= r.due /\ E[r.task].queue[k].settles

CallsInOrder == \A c \in Callers : InOrder(calls[c], mem, entry)

\* A process that is not up has no tasks, no steers and no exchange of its own; one that
\* has replayed the log knows what was delivered.
Process ==
    /\ proc # "up" =>
        /\ steers = << >> /\ \A t \in Tasks : mem[t] \notin Statuses
        /\ \A k \in DOMAIN history : history[k] = Call => k <= durable
    /\ proc # "down" => delivered = Heard(history)

\* The notifications of a task, of this process and of the earlier ones.
Said(t) == {history[i] : i \in {j \in DOMAIN history : history[j].task = t}}
           \cup {steers[i] : i \in {j \in DOMAIN steers : steers[j].task = t}}

\* There is one, or the model reads none of them.
Once(t) ==
    /\ \A i, j \in DOMAIN history : history[i].task = t /\ history[j].task = t =>
           i = j \/ (HeldForEver(i) /\ HeldForEver(j))
    /\ \A i, j \in DOMAIN steers : steers[i].task = t /\ steers[j].task = t => i = j
    /\ Steered(t) => ~Reported(t)

\* What was told of a task whose writes have succeeded.
Right(t) ==
    /\ mem[t] \in Statuses /\ entry[t].fired =>
           disk[t] = [status |-> mem[t], suppressed |-> entry[t].suppressed]
    /\ Once(t)
    /\ \A key \in Said(t) :
        /\ t \notin hushed
        /\ disk[t] # None /\ disk[t].status = key.status /\ key.status \in Terminal
        /\ mem[t] \in Statuses => entry[t].fired /\ ~entry[t].suppressed /\ ~entry[t].reading
    /\ \A s \in told[t] :
        /\ disk[t] # None /\ disk[t].status = s
        /\ mem[t] \in Statuses => entry[t].fired
    /\ t \in hushed =>
        /\ disk[t] # None /\ disk[t].suppressed
        /\ mem[t] \in Statuses => entry[t].fired /\ entry[t].suppressed

Recorded ==
    /\ \A t \in Tasks : mem[t] = "new" => disk[t] = None /\ t \notin unsaved
    /\ \A t \in Tasks : mem[t] = "ghost" => disk[t] # None
    /\ \A t \in Tasks \ unsaved : Right(t)

\* The inductive invariant.
TaskInv == Typing /\ Entries /\ CallsInOrder /\ Process /\ Recorded

-----------------------------------------------------------------------------
(* The fields of a task *)

LEMMA NewEntryShape ==
    /\ NewEntry \in EntryRecord
    /\ ~NewEntry.fired /\ ~NewEntry.reading /\ ~NewEntry.suppressed
    /\ NewEntry.queue = << >>
BY DEF NewEntry, EntryRecord, Kinds

\* persistLive adds one write at the end of the queue and leaves the rest alone.
LEMMA PersistShape ==
    ASSUME NEW e \in EntryRecord, NEW status \in Statuses, NEW settles \in BOOLEAN
    PROVE  LET p == Persist(e, status, settles)
               n == Len(e.queue) + 1
           IN  /\ p \in EntryRecord
               /\ p.fired = e.fired /\ p.reading = e.reading /\ p.suppressed = e.suppressed
               /\ n \in Nat \ {0} /\ DOMAIN e.queue = 1..(n - 1) /\ DOMAIN p.queue = 1..n
               /\ \A k \in 1..(n - 1) : p.queue[k] = e.queue[k]
               /\ p.queue[n] = [status |-> status, suppressed |-> e.suppressed,
                                settles |-> settles]
<1> DEFINE w == [status |-> status, suppressed |-> e.suppressed, settles |-> settles]
           queue == Seq(Write)
           q == Append(e.queue, w)
           p == Persist(e, status, settles)
<1>1. w \in Write /\ e.queue \in Seq(Write)
  BY DEF Write, EntryRecord
<1>2. /\ q \in Seq(Write)
      /\ Len(e.queue) + 1 \in Nat \ {0} /\ DOMAIN e.queue = 1..(Len(e.queue) + 1 - 1)
      /\ DOMAIN q = 1..(Len(e.queue) + 1)
      /\ \A k \in 1..(Len(e.queue) + 1 - 1) : q[k] = e.queue[k]
      /\ q[Len(e.queue) + 1] = w
  BY <1>1
<1>3. p = [e EXCEPT !.queue = q]
  BY DEF Persist
<1>4. q \in queue /\ e \in [kind : Kinds, aborted : BOOLEAN, suppressed : BOOLEAN,
                            fired : BOOLEAN, ended : BOOLEAN, queue : queue, reading : BOOLEAN]
  BY <1>2 DEF EntryRecord
<1>. HIDE DEF q, p, queue
<1>5. /\ p \in [kind : Kinds, aborted : BOOLEAN, suppressed : BOOLEAN,
                fired : BOOLEAN, ended : BOOLEAN, queue : queue, reading : BOOLEAN]
      /\ p.fired = e.fired /\ p.reading = e.reading /\ p.suppressed = e.suppressed
      /\ p.queue = q
  BY <1>3, <1>4
<1>6. p \in EntryRecord
  BY <1>5 DEF EntryRecord, queue
<1>. QED
  BY <1>2, <1>5, <1>6 DEF p

\* How the fields of a task may change between its effects: the queue grows, the first
\* end stays, the flag is set but not reset, and not after the effects.
Advance(m, e, n, f) ==
    /\ n \in Statuses /\ (m \in Terminal => n = m)
    /\ f.fired = e.fired /\ f.reading = e.reading
    /\ e.suppressed => f.suppressed
    /\ e.fired => f.suppressed = e.suppressed
    /\ \A k \in DOMAIN e.queue : k \in DOMAIN f.queue /\ f.queue[k] = e.queue[k]

\* settleTask makes the write that carries the end; a late end changes nothing, or, of a
\* killed task, repeats that write.
LEMMA SettledShape ==
    ASSUME NEW e \in EntryRecord, NEW m \in Statuses, NEW n \in Terminal, Coherent(m, e)
    PROVE  LET s == Settled(e, m, n)
           IN  /\ s[1] \in EntryRecord /\ s[2] \in Terminal
               /\ Coherent(s[2], s[1]) /\ Advance(m, e, s[2], s[1])
               /\ \A k \in DOMAIN s[1].queue : k <= Len(e.queue) + 1
<1> DEFINE p == Persist(e, n, TRUE)
           l == Len(e.queue) + 1
           w == [status |-> n, suppressed |-> e.suppressed, settles |-> TRUE]
<1>1. /\ p \in EntryRecord
      /\ p.fired = e.fired /\ p.reading = e.reading /\ p.suppressed = e.suppressed
      /\ l \in Nat \ {0} /\ DOMAIN e.queue = 1..(l - 1) /\ DOMAIN p.queue = 1..l
      /\ \A k \in 1..(l - 1) : p.queue[k] = e.queue[k]
      /\ p.queue[l] = w
  BY PersistShape DEF Statuses
<1>2. w.settles /\ w.status = n /\ w.suppressed = e.suppressed
  OBVIOUS
<1>3. "running" \notin Terminal /\ n \in Statuses /\ "killed" \in Terminal
  BY DEF Terminal, Statuses
<1>. HIDE DEF p, w
<1>0. (\A k \in DOMAIN e.queue : k <= Len(e.queue) + 1)
      /\ (\A k \in DOMAIN p.queue : k <= Len(e.queue) + 1)
  BY <1>1
<1>. HIDE DEF l
<1>4. \A k \in 1..l : k = l \/ k \in 1..(l - 1)
  BY <1>1
<1>5. CASE m = "running" \/ (m = "killed" /\ n = "killed")
  <2>1. Advance(m, e, n, p)
    BY <1>1, <1>3, <1>4, <1>5 DEF Advance
  <2>2. ASSUME NEW k \in DOMAIN p.queue
        PROVE  IF p.queue[k].settles
               THEN p.queue[k].status = n /\ p.queue[k].suppressed = p.suppressed
               ELSE ~p.fired
    <3>1. CASE k = l
      BY <1>1, <1>2, <3>1
    <3>2. CASE k \in 1..(l - 1)
      BY <1>1, <1>3, <1>5, <3>2 DEF Coherent
    <3>. QED
      BY <1>1, <1>4, <3>1, <3>2
  <2>3. ASSUME NEW j \in DOMAIN p.queue, NEW k \in DOMAIN p.queue, j < k, p.queue[j].settles
        PROVE  p.queue[k].settles
    <3>1. j \in 1..(l - 1)
      BY <1>1, <2>3
    <3>2. CASE k \in 1..(l - 1)
      BY <1>1, <2>3, <3>1, <3>2 DEF Coherent
    <3>. QED
      BY <1>1, <1>2, <1>4, <3>2
  <2>4. \E k \in DOMAIN p.queue : p.queue[k].settles
    BY <1>1, <1>2
  <2>5. Coherent(n, p)
    BY <1>1, <2>2, <2>3, <2>4 DEF Coherent
  <2>6. Settled(e, m, n) = <<p, n>>
    BY <1>3, <1>5 DEF Settled, p
  <2>. QED
    BY <1>0, <1>1, <2>1, <2>5, <2>6
<1>6. CASE ~(m = "running" \/ (m = "killed" /\ n = "killed"))
  <2>1. Settled(e, m, n) = <<e, m>> /\ m \in Terminal
    BY <1>6 DEF Settled, Statuses
  <2>. QED
    BY <1>0, <2>1 DEF Advance
<1>. QED
  BY <1>5, <1>6

-----------------------------------------------------------------------------
(* What a step leaves as it was *)

\* The context and the buffer are as they were.
LEMMA SaidSame ==
    ASSUME NEW t, UNCHANGED <<steers, history, durable>>
    PROVE  Said(t)' = Said(t) /\ Once(t)' = Once(t)
BY DEF Said, Once, Steered, Reported, HeldForEver, Unanswered

\* The task is told nothing new, its file is as it was, and so is its notification.
LEMMA RightSame ==
    ASSUME NEW t \in Tasks, Right(t), UNCHANGED <<steers, history, durable>>,
           disk'[t] = disk[t], told'[t] = told[t], t \in hushed' <=> t \in hushed,
           mem'[t] \in Statuses =>
               /\ mem[t] \in Statuses
               /\ entry'[t].fired = entry[t].fired /\ entry'[t].reading = entry[t].reading
               /\ entry[t].fired => mem'[t] = mem[t] /\ entry'[t].suppressed = entry[t].suppressed
    PROVE  Right(t)'
BY SaidSame DEF Right

\* One call goes on, and what the others await is still to come.
LEMMA CallMoves ==
    ASSUME TaskInv, NEW c \in Callers, NEW r, calls' = [calls EXCEPT ![c] = r],
           InOrder(r, mem', entry'),
           \A x : InOrder(x, mem, entry) => InOrder(x, mem', entry')
    PROVE  calls' \in [Callers -> CallRecord] /\ CallsInOrder'
<1>1. r \in CallRecord
  BY DEF InOrder
<1>2. \A d \in Callers : InOrder(calls'[d], mem', entry')
  BY DEF TaskInv, Typing, CallsInOrder
<1>. QED
  BY <1>1, <1>2 DEF TaskInv, Typing, CallsInOrder

\* The fields of one task advance.
LEMMA EntryAdvances ==
    ASSUME TaskInv, NEW t \in Tasks, NEW n, NEW f \in EntryRecord, mem[t] \in Statuses,
           Coherent(n, f), Advance(mem[t], entry[t], n, f),
           mem' = [mem EXCEPT ![t] = n], entry' = [entry EXCEPT ![t] = f],
           UNCHANGED <<proc, disk, scheduled, delivered, steers, history, durable, unsaved>>
    PROVE  /\ told' = told /\ hushed' = hushed /\ calls' \in [Callers -> CallRecord] => Typing'
           /\ Entries' /\ Process'
           /\ told' = told /\ hushed' = hushed => Recorded'
           /\ \A r : InOrder(r, mem, entry) => InOrder(r, mem', entry')
<1>. USE DEF TaskInv
<1>1. /\ mem'[t] = n /\ entry'[t] = f /\ n \in Statuses
      /\ \A u \in Tasks : u # t => mem'[u] = mem[u] /\ entry'[u] = entry[u]
  BY DEF Typing, Advance
<1>2. told' = told /\ hushed' = hushed /\ calls' \in [Callers -> CallRecord] => Typing'
  BY <1>1 DEF Typing
<1>3. Entries'
  BY <1>1 DEF Entries
<1>4. Process'
  BY <1>1 DEF Process
<1>5. ASSUME told' = told, hushed' = hushed
      PROVE  Recorded'
  <2>2. ASSUME NEW u \in Tasks \ unsaved
        PROVE  Right(u)'
    <3>1. entry[t].fired => mem[t] \in Terminal
      BY DEF Entries, Coherent
    <3>2. CASE u = t
      <4>1. /\ entry'[u].fired = entry[u].fired /\ entry'[u].reading = entry[u].reading
            /\ entry[u].fired => mem'[u] = mem[u] /\ entry'[u].suppressed = entry[u].suppressed
        BY <1>1, <3>1, <3>2 DEF Advance
      <4>. QED
        BY <1>5, <3>2, <4>1, RightSame DEF Recorded
    <3>3. CASE u # t
      BY <1>1, <1>5, <3>3, RightSame DEF Recorded
    <3>. QED
      BY <3>2, <3>3
  <2>3. "new" \notin Statuses /\ "ghost" \notin Statuses
    BY DEF Statuses, Terminal
  <2>. QED
    BY <1>1, <2>2, <2>3 DEF Recorded
<1>6. ASSUME NEW r, InOrder(r, mem, entry)
      PROVE  InOrder(r, mem', entry')
  <2>1. CASE r.pc = "idle"
    <3>1. r = NoCall
      BY <1>6, <2>1 DEF InOrder
    <3>. QED
      BY <1>6, <3>1 DEF InOrder, NoCall
  <2>2. CASE r.pc # "idle" /\ r.task # t
    <3>1. mem'[r.task] = mem[r.task] /\ entry'[r.task] = entry[r.task]
      BY <1>1, <1>6, <2>2 DEF InOrder
    <3>. QED
      BY <1>6, <2>2, <3>1 DEF InOrder
  <2>3. CASE r.pc # "idle" /\ r.task = t
    <3>1. r.quiet => r.pc # "wait" /\ f.suppressed
      BY <1>6, <2>3 DEF InOrder, Advance
    <3>2. ASSUME r.pc = "flush"
          PROVE  /\ n \in Terminal
                 /\ ~f.fired => \E k \in DOMAIN f.queue : k <= r.due /\ f.queue[k].settles
      <4>1. /\ mem[t] \in Terminal
            /\ ~entry[t].fired =>
                   \E k \in DOMAIN entry[t].queue : k <= r.due /\ entry[t].queue[k].settles
        BY <1>6, <2>3, <3>2 DEF InOrder
      <4>. QED
        BY <4>1 DEF Advance
    <3>. QED
      BY <1>1, <1>6, <2>3, <3>1, <3>2 DEF InOrder
  <2>. QED
    BY <2>1, <2>2, <2>3
<1>. QED
  BY <1>2, <1>3, <1>4, <1>5, <1>6

-----------------------------------------------------------------------------
(* Tasks and calls *)

LEMMA InitTaskInv == Init => TaskInv
<1>. SUFFICES ASSUME Init PROVE TaskInv
  OBVIOUS
<1>1. "new" \notin Statuses
  BY DEF Statuses, Terminal
<1>2. /\ DOMAIN history = {} /\ DOMAIN steers = {} /\ Heard(history) = {}
      /\ \A t : Said(t) = {} /\ Once(t)
  BY DEF Init, Heard, Said, Once, Steered, Reported
<1>3. NoCall \in CallRecord /\ NoCall.pc = "idle" /\ ~NoCall.quiet
  BY DEF NoCall, CallRecord
<1>4. Typing
  BY <1>3, NewEntryShape DEF Init, Typing
<1>5. Entries /\ Process
  BY <1>1, <1>2 DEF Init, Entries, Process
<1>6. CallsInOrder
  BY <1>3 DEF Init, CallsInOrder, InOrder
<1>7. Recorded
  BY <1>1, <1>2 DEF Init, Recorded, Right
<1>. QED
  BY <1>4, <1>5, <1>6, <1>7 DEF TaskInv

LEMMA RegisterInv ==
    ASSUME TaskInv, NEW t \in Tasks, registerTask(t)
    PROVE  TaskInv'
<1>. USE DEF TaskInv
<1>1. PICK k \in Kinds :
        entry' = [entry EXCEPT ![t] = Persist([NewEntry EXCEPT !.kind = k], "running", FALSE)]
  BY DEF registerTask
<1> DEFINE e == [NewEntry EXCEPT !.kind = k]
           f == Persist(e, "running", FALSE)
<1>2. e \in EntryRecord /\ ~e.fired /\ ~e.reading /\ Len(e.queue) + 1 = 1
  <2>1. /\ e \in EntryRecord
        /\ e.fired = NewEntry.fired /\ e.reading = NewEntry.reading
        /\ e.queue = NewEntry.queue
    BY NewEntryShape DEF EntryRecord
  <2>. QED
    BY <2>1, NewEntryShape
<1>3. "running" \in Statuses /\ "running" \notin Terminal /\ "new" \notin Statuses
      /\ "ghost" \notin Statuses
  BY DEF Statuses, Terminal
<1>. HIDE DEF e
<1>4. /\ f \in EntryRecord /\ ~f.fired /\ ~f.reading
      /\ DOMAIN f.queue = 1..1
      /\ f.queue[1] = [status |-> "running", suppressed |-> e.suppressed, settles |-> FALSE]
  <2> DEFINE n == Len(e.queue) + 1
  <2>1. /\ f \in EntryRecord /\ f.fired = e.fired /\ f.reading = e.reading
        /\ DOMAIN f.queue = 1..n
        /\ f.queue[n] = [status |-> "running", suppressed |-> e.suppressed, settles |-> FALSE]
    BY <1>2, <1>3, PersistShape
  <2>. HIDE DEF f
  <2>. QED
    BY <1>2, <2>1
<1>5. /\ mem' = [mem EXCEPT ![t] = "running"] /\ entry' = [entry EXCEPT ![t] = f]
      /\ mem[t] = "new" /\ proc = "up"
      /\ UNCHANGED <<proc, disk, calls, scheduled, delivered, steers, history, durable, told,
                     hushed, unsaved>>
  BY <1>1 DEF registerTask, e
<1>. HIDE DEF f
<1>6. /\ mem'[t] = "running" /\ entry'[t] = f
      /\ \A u \in Tasks : u # t => mem'[u] = mem[u] /\ entry'[u] = entry[u]
  BY <1>5 DEF Typing
<1>7. Typing'
  BY <1>3, <1>4, <1>5 DEF Typing
<1>8. Coherent("running", f)
  <2>1. \A j \in 1..1 : j = 1
    OBVIOUS
  <2>2. ~f.queue[1].settles
    BY <1>4
  <2>. QED
    BY <1>3, <1>4, <2>1, <2>2 DEF Coherent
<1>9. Entries' /\ Process'
  BY <1>3, <1>5, <1>6, <1>8 DEF Entries, Process
<1>10. CallsInOrder'
  <2>1. ASSUME NEW c \in Callers
        PROVE  InOrder(calls[c], mem', entry')
    <3>1. InOrder(calls[c], mem, entry)
      BY DEF CallsInOrder
    <3>2. CASE calls[c].pc = "idle"
      BY <3>1, <3>2 DEF InOrder, NoCall
    <3>3. CASE calls[c].pc # "idle"
      <4>1. calls[c].task \in Tasks /\ calls[c].task # t
        BY <1>3, <1>5, <3>1, <3>3 DEF InOrder
      <4>2. mem'[calls[c].task] = mem[calls[c].task] /\ entry'[calls[c].task] = entry[calls[c].task]
        BY <1>6, <4>1
      <4>. QED
        BY <3>1, <3>3, <4>1, <4>2 DEF InOrder
    <3>. QED
      BY <3>2, <3>3
  <2>. QED
    BY <1>5, <2>1 DEF CallsInOrder
<1>11. Recorded'
  <2>2. ASSUME NEW u \in Tasks \ unsaved
        PROVE  Right(u)'
    <3>1. CASE u # t
      BY <1>5, <1>6, <3>1, RightSame DEF Recorded
    <3>2. CASE u = t
      <4>1. disk[t] = None /\ Right(t)
        BY <1>5, <2>2, <3>2 DEF Recorded
      <4>. QED
        BY <1>4, <1>5, <1>6, <3>2, <4>1, SaidSame DEF Right
    <3>. QED
      BY <3>1, <3>2
  <2>. QED
    BY <1>3, <1>5, <1>6, <2>2 DEF Recorded
<1>. QED
  BY <1>7, <1>9, <1>10, <1>11

LEMMA TaskEndsInv ==
    ASSUME TaskInv, NEW t \in Tasks, TaskEnds(t)
    PROVE  TaskInv'
<1> DEFINE e == [entry[t] EXCEPT !.ended = TRUE]
<1>1. PICK status \in Outcomes(t) : Settle(t, e, status)
  BY DEF TaskEnds
<1>2. /\ IsLive(t)
      /\ UNCHANGED <<proc, disk, calls, scheduled, delivered, steers, history, durable, told,
                     hushed, unsaved>>
  BY DEF TaskEnds
<1>3. mem[t] \in Statuses /\ status \in Terminal
  BY <1>2 DEF IsLive, Statuses, Outcomes, Terminal
<1>4. /\ e \in EntryRecord
      /\ e.fired = entry[t].fired /\ e.reading = entry[t].reading
      /\ e.suppressed = entry[t].suppressed /\ e.queue = entry[t].queue
  BY DEF TaskInv, Typing, EntryRecord
<1>. HIDE DEF e
<1>5. Coherent(mem[t], e)
  BY <1>3, <1>4 DEF TaskInv, Entries, Coherent
<1> DEFINE s == Settled(e, mem[t], status)
<1>6. /\ s[1] \in EntryRecord /\ s[2] \in Terminal
      /\ Coherent(s[2], s[1]) /\ Advance(mem[t], e, s[2], s[1])
  BY <1>3, <1>4, <1>5, SettledShape
<1>7. entry' = [entry EXCEPT ![t] = s[1]] /\ mem' = [mem EXCEPT ![t] = s[2]]
  BY <1>1 DEF Settle
<1>. HIDE DEF s
<1>8. Advance(mem[t], entry[t], s[2], s[1])
  BY <1>4, <1>6 DEF Advance
<1>9. /\ calls' \in [Callers -> CallRecord] => Typing'
      /\ Entries' /\ Process' /\ Recorded'
      /\ \A r : InOrder(r, mem, entry) => InOrder(r, mem', entry')
  BY <1>2, <1>3, <1>6, <1>7, <1>8, EntryAdvances
<1>10. calls' \in [Callers -> CallRecord] /\ CallsInOrder'
  BY <1>2, <1>9 DEF TaskInv, Typing, CallsInOrder
<1>. QED
  BY <1>9, <1>10 DEF TaskInv

\* A call of stop begins: the write it awaits is the one that carries the end.
LEMMA BeginStopInv ==
    ASSUME TaskInv, NEW c \in Callers, NEW t \in Tasks, mem[t] \in Statuses,
           calls[c].quiet => entry[t].suppressed, BeginStop(c, t),
           UNCHANGED <<proc, mem, disk, scheduled, delivered, steers, history, durable, told,
                       hushed, unsaved>>
    PROVE  TaskInv'
<1>. USE DEF TaskInv
<1>1. calls[c] \in CallRecord /\ entry[t] \in EntryRecord /\ Coherent(mem[t], entry[t])
  BY DEF Typing, Entries
<1>2. CASE mem[t] \in Terminal
  <2> DEFINE r == [calls[c] EXCEPT !.pc = "flush", !.task = t, !.due = Len(entry[t].queue)]
  <2>1. calls' = [calls EXCEPT ![c] = r] /\ entry' = entry
    BY <1>2 DEF BeginStop
  <2>2. entry[t].queue \in Seq(Write)
    BY <1>1 DEF EntryRecord
  <2>3. Len(entry[t].queue) \in Nat /\ \A k \in DOMAIN entry[t].queue : k <= Len(entry[t].queue)
    BY <2>2
  <2>4. /\ r \in CallRecord /\ r.pc = "flush" /\ r.task = t
        /\ r.due = Len(entry[t].queue) /\ r.quiet = calls[c].quiet
    BY <1>1, <2>3 DEF CallRecord
  <2>. HIDE DEF r
  <2>5. InOrder(r, mem, entry)
    BY <1>1, <1>2, <2>3, <2>4 DEF InOrder, Coherent
  <2>6. calls' \in [Callers -> CallRecord] /\ CallsInOrder'
    BY <2>1, <2>5, CallMoves
  <2>. QED
    BY <2>1, <2>6, SaidSame DEF Typing, Entries, Process, Recorded, Right
<1>3. CASE mem[t] \notin Terminal
  <2> DEFINE r == [calls[c] EXCEPT !.pc = "grace", !.task = t]
             f == [entry[t] EXCEPT !.aborted = TRUE]
  <2>1. calls' = [calls EXCEPT ![c] = r] /\ entry' = [entry EXCEPT ![t] = f]
        /\ mem' = [mem EXCEPT ![t] = mem[t]]
    BY <1>3 DEF BeginStop, Typing
  <2>2. /\ f \in EntryRecord
        /\ f.fired = entry[t].fired /\ f.reading = entry[t].reading
        /\ f.suppressed = entry[t].suppressed /\ f.queue = entry[t].queue
    BY <1>1 DEF EntryRecord
  <2>3. r \in CallRecord /\ r.pc = "grace" /\ r.task = t /\ r.quiet = calls[c].quiet
    BY <1>1 DEF CallRecord
  <2>. HIDE DEF r, f
  <2>4. Coherent(mem[t], f) /\ Advance(mem[t], entry[t], mem[t], f)
    BY <1>1, <2>2 DEF Coherent, Advance
  <2>5. /\ calls' \in [Callers -> CallRecord] => Typing'
        /\ Entries' /\ Process' /\ Recorded'
        /\ \A x : InOrder(x, mem, entry) => InOrder(x, mem', entry')
    BY <2>1, <2>2, <2>4, EntryAdvances
  <2>6. InOrder(r, mem', entry')
    BY <2>1, <2>2, <2>3 DEF InOrder, Typing
  <2>7. calls' \in [Callers -> CallRecord] /\ CallsInOrder'
    BY <2>1, <2>5, <2>6, CallMoves
  <2>. QED
    BY <2>5, <2>7
<1>. QED
  BY <1>2, <1>3

LEMMA StopInv ==
    ASSUME TaskInv, NEW c \in Callers, NEW t \in Tasks, stop(c, t)
    PROVE  TaskInv'
<1>1. calls[c].pc = "idle" /\ mem[t] \in Statuses
  BY DEF stop, IsLive, Statuses
<1>2. ~calls[c].quiet
  BY <1>1 DEF TaskInv, CallsInOrder, InOrder, NoCall
<1>. QED
  BY <1>1, <1>2, BeginStopInv DEF stop

LEMMA SuppressedInv ==
    ASSUME TaskInv, NEW c \in Callers, Suppressed(c)
    PROVE  TaskInv'
<1>1. InOrder(calls[c], mem, entry) /\ calls[c].pc = "suppress"
  BY DEF TaskInv, CallsInOrder, Suppressed
<1>2. /\ calls[c].task \in Tasks /\ mem[calls[c].task] \in Statuses
      /\ calls[c].quiet => entry[calls[c].task].suppressed
  BY <1>1 DEF InOrder
<1>. QED
  BY <1>2, BeginStopInv DEF Suppressed

\* TaskStop sets the flag while the task runs, so that every write of its end carries it.
LEMMA TaskStopInv ==
    ASSUME TaskInv, NEW c \in Callers, NEW t \in Tasks, TaskStop(c, t), ~AnswerAtOnce(t)
    PROVE  TaskInv'
<1>. USE DEF TaskInv
<1> DEFINE m == entry[t]
           g == [m EXCEPT !.suppressed = TRUE]
           e == IF m.suppressed THEN m ELSE Persist(g, mem[t], FALSE)
           r == [pc |-> "suppress", task |-> t, quiet |-> TRUE,
                 due |-> IF m.suppressed THEN 0 ELSE Len(e.queue)]
<1>1. /\ calls[c].pc = "idle" /\ mem[t] = "running" /\ proc = "up"
      /\ entry' = [entry EXCEPT ![t] = e] /\ calls' = [calls EXCEPT ![c] = r]
      /\ UNCHANGED <<proc, mem, disk, scheduled, delivered, steers, history, durable, told,
                     hushed, unsaved>>
  BY DEF TaskStop
<1>2. "running" \in Statuses /\ "running" \notin Terminal
  BY DEF Statuses, Terminal
<1>3. m \in EntryRecord /\ Coherent(mem[t], m)
  BY <1>1, <1>2 DEF Typing, Entries
<1>4. ~m.fired /\ ~m.reading /\ \A k \in DOMAIN m.queue : ~m.queue[k].settles
  BY <1>1, <1>2, <1>3 DEF Coherent
<1>5. e \in EntryRecord /\ Coherent(mem[t], e) /\ Advance(mem[t], m, mem[t], e) /\ e.suppressed
  <2>1. CASE m.suppressed
    BY <1>1, <1>2, <1>3, <2>1 DEF Advance
  <2>2. CASE ~m.suppressed
    <3> DEFINE p == Persist(g, mem[t], FALSE)
               n == Len(g.queue) + 1
               w == [status |-> mem[t], suppressed |-> g.suppressed, settles |-> FALSE]
    <3>1. /\ g \in EntryRecord /\ g.fired = m.fired /\ g.reading = m.reading
          /\ g.suppressed = TRUE /\ g.queue = m.queue
      BY <1>3 DEF EntryRecord
    <3>. HIDE DEF g
    <3>0. g \in EntryRecord /\ mem[t] \in Statuses /\ FALSE \in BOOLEAN
      BY <1>1, <1>2, <3>1
    <3>2. /\ p \in EntryRecord
          /\ p.fired = g.fired /\ p.reading = g.reading /\ p.suppressed = g.suppressed
          /\ n \in Nat \ {0} /\ DOMAIN g.queue = 1..(n - 1) /\ DOMAIN p.queue = 1..n
          /\ \A k \in 1..(n - 1) : p.queue[k] = g.queue[k]
          /\ p.queue[n] = w
      BY <3>0, PersistShape
    <3>3. ~w.settles /\ \A k \in 1..n : k = n \/ k \in 1..(n - 1)
      BY <3>2
    <3>4. e = p
      BY <2>2
    <3>. HIDE DEF p, n, w, e
    <3>5. \A k \in DOMAIN p.queue : ~p.queue[k].settles
      BY <1>4, <3>1, <3>2, <3>3
    <3>6. Coherent(mem[t], p)
      BY <1>1, <1>2, <1>4, <3>1, <3>2, <3>5 DEF Coherent
    <3>7. Advance(mem[t], m, mem[t], p)
      BY <1>1, <1>2, <1>4, <3>1, <3>2 DEF Advance
    <3>. QED
      BY <3>1, <3>2, <3>4, <3>6, <3>7
  <2>. QED
    BY <2>1, <2>2
<1>. HIDE DEF e
<1>6. e.queue \in Seq(Write)
  BY <1>5 DEF EntryRecord
<1>7. r \in CallRecord /\ r.pc = "suppress" /\ r.task = t
  <2>1. Len(e.queue) \in Nat
    BY <1>6
  <2>. QED
    BY <2>1 DEF CallRecord
<1>. HIDE DEF r
<1>8. mem' = [mem EXCEPT ![t] = mem[t]]
  BY <1>1 DEF Typing
<1>9. /\ calls' \in [Callers -> CallRecord] => Typing'
      /\ Entries' /\ Process' /\ Recorded'
      /\ \A x : InOrder(x, mem, entry) => InOrder(x, mem', entry')
  BY <1>1, <1>2, <1>5, <1>8, EntryAdvances
<1>10. InOrder(r, mem', entry')
  BY <1>1, <1>2, <1>5, <1>7 DEF InOrder, Typing
<1>11. calls' \in [Callers -> CallRecord] /\ CallsInOrder'
  BY <1>1, <1>9, <1>10, CallMoves
<1>. QED
  BY <1>9, <1>11

\* An answer that changes nothing in the manager.
LEMMA OnlyAnAnswer ==
    ASSUME TaskInv,
           UNCHANGED <<proc, mem, entry, disk, calls, delivered, steers, history, durable,
                       told, hushed, unsaved>>
    PROVE  TaskInv'
BY SaidSame DEF TaskInv, Typing, Entries, CallsInOrder, Process, Recorded, Right

\* A call goes on, and nothing else changes.
LEMMA OnlyACall ==
    ASSUME TaskInv, NEW c \in Callers, NEW r, calls' = [calls EXCEPT ![c] = r],
           InOrder(r, mem, entry),
           UNCHANGED <<proc, mem, entry, disk, scheduled, delivered, steers, history, durable,
                       told, hushed, unsaved>>
    PROVE  TaskInv'
<1>1. calls' \in [Callers -> CallRecord] /\ CallsInOrder'
  BY CallMoves
<1>. QED
  BY <1>1, SaidSame DEF TaskInv, Typing, Entries, Process, Recorded, Right

\* Whoever awaits the queue of a task that has ended awaits the write of its end.
LEMMA AwaitQueueInv ==
    ASSUME TaskInv, NEW c \in Callers, NEW r, calls' = [calls EXCEPT ![c] = r], r \in CallRecord,
           r.pc = "flush", r.task \in Tasks, mem[r.task] \in Terminal,
           r.due = Len(entry[r.task].queue), r.quiet => entry[r.task].suppressed,
           UNCHANGED <<proc, mem, entry, disk, scheduled, delivered, steers, history, durable,
                       told, hushed, unsaved>>
    PROVE  TaskInv'
<1>1. entry[r.task].queue \in Seq(Write)
  BY DEF TaskInv, Typing, EntryRecord
<1>2. \A k \in DOMAIN entry[r.task].queue : k <= r.due
  BY <1>1
<1>3. InOrder(r, mem, entry)
  BY <1>2 DEF TaskInv, Entries, Coherent, InOrder, Statuses
<1>. QED
  BY <1>3, OnlyACall

LEMMA WaitInv ==
    ASSUME TaskInv, NEW c \in Callers, NEW t \in Tasks, wait(c, t)
    PROVE  TaskInv'
<1> DEFINE r == [calls[c] EXCEPT !.pc = IF mem[t] \in Terminal THEN "flush" ELSE "wait",
                                 !.task = t, !.due = Len(entry[t].queue)]
<1>1. /\ calls[c].pc = "idle" /\ mem[t] \in Statuses
      /\ calls' = [calls EXCEPT ![c] = r]
      /\ UNCHANGED <<proc, mem, entry, disk, scheduled, delivered, steers, history, durable,
                     told, hushed, unsaved>>
  BY DEF wait, IsLive, Statuses
<1>2. calls[c] \in CallRecord /\ ~calls[c].quiet /\ entry[t].queue \in Seq(Write)
  BY <1>1 DEF TaskInv, Typing, EntryRecord, CallsInOrder, InOrder, NoCall
<1>3. Len(entry[t].queue) \in Nat
  BY <1>2
<1>4. /\ r \in CallRecord /\ r.pc = IF mem[t] \in Terminal THEN "flush" ELSE "wait"
      /\ r.task = t /\ r.due = Len(entry[t].queue) /\ ~r.quiet
  BY <1>2, <1>3 DEF CallRecord
<1>. HIDE DEF r
<1>5. CASE mem[t] \in Terminal
  BY <1>1, <1>4, <1>5, AwaitQueueInv
<1>6. CASE mem[t] \notin Terminal
  <2>1. InOrder(r, mem, entry)
    BY <1>1, <1>4, <1>6 DEF InOrder
  <2>. QED
    BY <1>1, <2>1, OnlyACall
<1>. QED
  BY <1>5, <1>6

\* The two ways in which a call goes on without touching its task.
LEMMA GotoInv ==
    ASSUME TaskInv, NEW c \in Callers, calls[c].pc \in {"wait", "grace", "force"},
           \/ mem[calls[c].task] \in Terminal /\ AwaitQueue(c, calls[c].task)
           \/ calls[c].pc = "grace" /\ Goto(c, "force", 0),
           UNCHANGED <<proc, mem, entry, disk, scheduled, delivered, steers, history, durable,
                       unsaved>>
    PROVE  TaskInv'
<1>1. InOrder(calls[c], mem, entry) /\ calls[c] \in CallRecord
  BY DEF TaskInv, CallsInOrder, InOrder
<1>2. /\ calls[c].task \in Tasks /\ mem[calls[c].task] \in Statuses
      /\ calls[c].quiet => entry[calls[c].task].suppressed
  BY <1>1 DEF InOrder
<1>3. entry[calls[c].task].queue \in Seq(Write)
  BY <1>2 DEF TaskInv, Typing, EntryRecord
<1>4. Len(entry[calls[c].task].queue) \in Nat
  BY <1>3
<1>5. CASE mem[calls[c].task] \in Terminal /\ AwaitQueue(c, calls[c].task)
  <2> DEFINE r == [calls[c] EXCEPT !.pc = "flush", !.due = Len(entry[calls[c].task].queue)]
  <2>1. calls' = [calls EXCEPT ![c] = r] /\ told' = told /\ hushed' = hushed
    BY <1>5 DEF AwaitQueue, Goto, TaskInv, Typing
  <2>2. /\ r \in CallRecord /\ r.pc = "flush" /\ r.task = calls[c].task
        /\ r.due = Len(entry[r.task].queue) /\ r.quiet = calls[c].quiet
    BY <1>1, <1>4 DEF CallRecord
  <2>. HIDE DEF r
  <2>. QED
    BY <1>2, <1>5, <2>1, <2>2, AwaitQueueInv
<1>6. CASE calls[c].pc = "grace" /\ Goto(c, "force", 0)
  <2> DEFINE r == [calls[c] EXCEPT !.pc = "force", !.due = 0]
  <2>1. calls' = [calls EXCEPT ![c] = r] /\ told' = told /\ hushed' = hushed
    BY <1>6 DEF Goto, TaskInv, Typing
  <2>2. r \in CallRecord /\ r.pc = "force" /\ r.task = calls[c].task /\ r.quiet = calls[c].quiet
    BY <1>1 DEF CallRecord
  <2>. HIDE DEF r
  <2>3. InOrder(r, mem, entry)
    BY <1>2, <2>2 DEF InOrder
  <2>. QED
    BY <2>1, <2>3, OnlyACall
<1>. QED
  BY <1>5, <1>6

\* A task that did not settle is settled as killed; its stop awaits that write.
LEMMA ForcedInv ==
    ASSUME TaskInv, NEW c \in Callers, Forced(c)
    PROVE  TaskInv'
<1>. USE DEF TaskInv
<1> DEFINE t == calls[c].task
           e == entry[t]
           s == Settled(e, mem[t], "killed")
           r == [calls[c] EXCEPT !.pc = "flush", !.due = Len(e.queue) + 1]
<1>1. /\ calls[c].pc = "force"
      /\ UNCHANGED <<proc, disk, scheduled, delivered, steers, history, durable, unsaved>>
  BY DEF Forced
<1>2. CASE mem[t] \in Terminal
  BY <1>1, <1>2, GotoInv DEF Forced
<1>3. CASE mem[t] \notin Terminal
  <2>1. /\ entry' = [entry EXCEPT ![t] = s[1]] /\ mem' = [mem EXCEPT ![t] = s[2]]
        /\ calls' = [calls EXCEPT ![c] = r] /\ told' = told /\ hushed' = hushed
    BY <1>3 DEF Forced, Settle, Goto, Typing
  <2>2. InOrder(calls[c], mem, entry) /\ calls[c] \in CallRecord
    BY DEF CallsInOrder, InOrder
  <2>3. t \in Tasks /\ mem[t] \in Statuses /\ (calls[c].quiet => e.suppressed)
    BY <1>1, <2>2 DEF InOrder
  <2>4. e \in EntryRecord /\ Coherent(mem[t], e) /\ "killed" \in Terminal
    BY <2>3 DEF Typing, Entries, Terminal
  <2>5. /\ s[1] \in EntryRecord /\ s[2] \in Terminal
        /\ Coherent(s[2], s[1]) /\ Advance(mem[t], e, s[2], s[1])
        /\ \A k \in DOMAIN s[1].queue : k <= Len(e.queue) + 1
    BY <2>3, <2>4, SettledShape
  <2>6. e.queue \in Seq(Write)
    BY <2>4 DEF EntryRecord
  <2>7. Len(e.queue) + 1 \in Nat
    BY <2>6
  <2>8. /\ r \in CallRecord /\ r.pc = "flush" /\ r.task = t
        /\ r.due = Len(e.queue) + 1 /\ r.quiet = calls[c].quiet
    BY <2>2, <2>7 DEF CallRecord
  <2>. HIDE DEF r, s, t
  <2>9. /\ calls' \in [Callers -> CallRecord] => Typing'
        /\ Entries' /\ Process' /\ Recorded'
        /\ \A x : InOrder(x, mem, entry) => InOrder(x, mem', entry')
    BY <1>1, <2>1, <2>3, <2>5, EntryAdvances
  <2>10. mem'[t] = s[2] /\ entry'[t] = s[1]
    BY <2>1, <2>3 DEF Typing
  <2>11. InOrder(r, mem', entry')
    <3>1. ~s[1].fired => \E k \in DOMAIN s[1].queue : k <= r.due /\ s[1].queue[k].settles
      BY <2>5, <2>8 DEF Coherent
    <3>2. r.quiet => s[1].suppressed
      BY <2>3, <2>5, <2>8 DEF Advance
    <3>. QED
      BY <2>3, <2>5, <2>8, <2>10, <3>1, <3>2 DEF InOrder, Statuses
  <2>12. calls' \in [Callers -> CallRecord] /\ CallsInOrder'
    BY <2>1, <2>9, <2>11, CallMoves
  <2>. QED
    BY <2>9, <2>12
<1>. QED
  BY <1>2, <1>3

\* What a caller is told of an end is in the file, and TaskStop tells only of an end that
\* will not be reported.
LEMMA ReturnInv ==
    ASSUME TaskInv, NEW c \in Callers, calls[c].pc \in {"wait", "flush"},
           mem[calls[c].task] \in Terminal => entry[calls[c].task].fired,
           calls[c].quiet => mem[calls[c].task] \in Terminal,
           Return(c, calls[c].task),
           UNCHANGED <<proc, mem, entry, disk, scheduled, delivered, steers, history, durable,
                       unsaved>>
    PROVE  TaskInv'
<1>. USE DEF TaskInv
<1> DEFINE t == calls[c].task
<1>1. InOrder(calls[c], mem, entry)
  BY DEF CallsInOrder
<1>2. t \in Tasks /\ mem[t] \in Statuses /\ (calls[c].quiet => entry[t].suppressed)
  BY <1>1 DEF InOrder
<1>3. InOrder(NoCall, mem, entry)
  BY DEF InOrder, NoCall, CallRecord
<1>4. calls' = [calls EXCEPT ![c] = NoCall]
  BY DEF Return
<1>5. calls' \in [Callers -> CallRecord] /\ CallsInOrder'
  BY <1>3, <1>4, CallMoves
<1>6. /\ told' \in [Tasks -> SUBSET Terminal] /\ hushed' \subseteq Tasks
      /\ \A u \in Tasks : u # t => told'[u] = told[u] /\ (u \in hushed' <=> u \in hushed)
      /\ \A s \in told'[t] : s \in told[t] \/ (s = mem[t] /\ mem[t] \in Terminal)
      /\ t \in hushed' => t \in hushed \/ calls[c].quiet
  BY <1>2 DEF Return, Typing
<1>. HIDE DEF t
<1>7. Typing' /\ Entries' /\ Process'
  BY <1>5, <1>6 DEF Typing, Entries, Process
<1>9. ASSUME NEW u \in Tasks \ unsaved
      PROVE  Right(u)'
  <2>1. CASE u # t
    BY <1>6, <2>1, RightSame DEF Recorded
  <2>2. CASE u = t
    <3>1. Right(t) /\ disk[t] \in File \cup {None}
      BY <1>2, <1>9, <2>2 DEF Recorded, Typing
    <3>2. ASSUME mem[t] \in Terminal
          PROVE  /\ disk[t] # None /\ disk[t].status = mem[t]
                 /\ disk[t].suppressed = entry[t].suppressed
      <4>1. disk[t] = [status |-> mem[t], suppressed |-> entry[t].suppressed]
        BY <1>2, <3>1, <3>2 DEF Right, t
      <4>2. entry[t].suppressed \in BOOLEAN
        BY <1>2 DEF Typing, EntryRecord
      <4>3. disk[t] \in File
        BY <3>2, <4>1, <4>2 DEF File
      <4>. QED
        BY <4>1, <4>3, BackgroundAssumption
    <3>3. mem[t] \in Terminal => entry[t].fired
      BY DEF t
    <3>4. calls[c].quiet => mem[t] \in Terminal /\ entry[t].suppressed
      BY <1>2 DEF t
    <3>5. ASSUME NEW key \in Said(t)
          PROVE  t \notin hushed'
      BY <1>2, <1>6, <3>1, <3>4, <3>5 DEF Right
    <3>6. \A s \in told'[t] : disk[t] # None /\ disk[t].status = s
                              /\ (mem[t] \in Statuses => entry[t].fired)
      BY <1>6, <3>1, <3>2, <3>3 DEF Right
    <3>7. t \in hushed' => /\ disk[t] # None /\ disk[t].suppressed
                           /\ mem[t] \in Statuses => entry[t].fired /\ entry[t].suppressed
      BY <1>6, <3>1, <3>2, <3>3, <3>4 DEF Right
    <3>. QED
      BY <2>2, <3>1, <3>5, <3>6, <3>7, SaidSame DEF Right
  <2>. QED
    BY <2>1, <2>2
<1>10. Recorded'
  BY <1>9 DEF Recorded
<1>. QED
  BY <1>5, <1>7, <1>10

LEMMA GraceOverInv ==
    ASSUME TaskInv, NEW c \in Callers, GraceOver(c)
    PROVE  TaskInv'
BY GotoInv DEF GraceOver

LEMMA WaitTimesOutInv ==
    ASSUME TaskInv, NEW c \in Callers, WaitTimesOut(c)
    PROVE  TaskInv'
<1>1. CASE mem[calls[c].task] \in Terminal
  BY <1>1, GotoInv DEF WaitTimesOut
<1>2. CASE mem[calls[c].task] \notin Terminal
  <2>1. ~calls[c].quiet
    BY DEF WaitTimesOut, TaskInv, CallsInOrder, InOrder
  <2>. QED
    BY <1>2, <2>1, ReturnInv DEF WaitTimesOut
<1>. QED
  BY <1>1, <1>2

LEMMA ReturnsInv ==
    ASSUME TaskInv, NEW c \in Callers, Returns(c)
    PROVE  TaskInv'
<1> DEFINE t == calls[c].task
<1>1. InOrder(calls[c], mem, entry) /\ calls[c].pc = "flush" /\ calls[c].due = 0
  BY DEF TaskInv, CallsInOrder, Returns
<1>2. /\ t \in Tasks /\ mem[t] \in Terminal
      /\ ~entry[t].fired => \E k \in DOMAIN entry[t].queue : k <= 0
  BY <1>1 DEF InOrder
<1>3. entry[t].queue \in Seq(Write)
  BY <1>2 DEF TaskInv, Typing, EntryRecord
<1>4. \A k \in DOMAIN entry[t].queue : ~(k <= 0)
  BY <1>3
<1>. QED
  BY <1>1, <1>2, <1>4, ReturnInv DEF Returns

-----------------------------------------------------------------------------
(* Notifications *)

LEMMA ItemsOfTasks ==
    ASSUME NEW x \in Item
    PROVE  x.task \in Tasks => x \in Notification /\ x # Call /\ x # Result
BY BackgroundAssumption DEF Item, Call, Result

LEMMA NotificationsAreItems ==
    ASSUME NEW s \in Seq(Notification)
    PROVE  s \in Seq(Item) /\ \A i \in DOMAIN s : s[i] # Result
<1>1. ASSUME NEW i \in DOMAIN s
      PROVE  s[i] \in Item /\ s[i] # Result
  <2>1. s[i] \in Notification
    OBVIOUS
  <2>2. s[i] \in Item /\ s[i].task \in Tasks
    BY <2>1 DEF Item, Notification
  <2>. QED
    BY <2>2, ItemsOfTasks
<1>2. s \in [1..Len(s) -> Item] /\ Len(s) \in Nat
  <2>1. DOMAIN s = 1..Len(s) /\ Len(s) \in Nat /\ s = [i \in 1..Len(s) |-> s[i]]
    OBVIOUS
  <2>. QED
    BY <1>1, <2>1
<1>3. s \in Seq(Item)
  BY <1>2
<1>. QED
  BY <1>1, <1>3

\* What is appended goes behind what was recorded; as long as the exchange of an earlier
\* process gets no results, what is held behind its call stays there.
LEMMA Appended ==
    ASSUME Typing, NEW entries \in Seq(Item), history' = history \o entries, durable' = durable,
           \/ \A i \in DOMAIN entries : entries[i] # Result
           \/ \A k \in 1..durable : ~Unanswered(history, k)
    PROVE  /\ history' \in Seq(Item) /\ durable \in 0..Len(history')
           /\ DOMAIN history \subseteq DOMAIN history'
           /\ \A i \in DOMAIN history : history'[i] = history[i]
           /\ \A i \in DOMAIN history' : i \notin DOMAIN history =>
                  i - Len(history) \in DOMAIN entries /\ history'[i] = entries[i - Len(history)]
           /\ \A i : HeldForEver(i) => HeldForEver(i)'
<1>1. history \in Seq(Item) /\ durable \in 0..Len(history)
  BY DEF Typing
<1>2. /\ history' \in Seq(Item) /\ Len(history') = Len(history) + Len(entries)
      /\ Len(history) \in Nat /\ Len(entries) \in Nat
      /\ DOMAIN history = 1..Len(history) /\ DOMAIN entries = 1..Len(entries)
      /\ DOMAIN history' = 1..(Len(history) + Len(entries))
      /\ \A i \in 1..Len(history) : history'[i] = history[i]
      /\ \A i \in 1..(Len(history) + Len(entries)) :
             i \notin 1..Len(history) => history'[i] = entries[i - Len(history)]
  BY <1>1, ConcatProperties
<1>3. \A i \in DOMAIN history' : i \notin DOMAIN history =>
          i - Len(history) \in DOMAIN entries /\ history'[i] = entries[i - Len(history)]
  BY <1>2
<1>4. ASSUME NEW i, HeldForEver(i)
      PROVE  HeldForEver(i)'
  <2>1. PICK k \in 1..durable : k < i /\ Unanswered(history, k)
    BY <1>4 DEF HeldForEver
  <2>2. \A j \in DOMAIN entries : entries[j] # Result
    BY <2>1
  <2>3. k \in DOMAIN history /\ history'[k] = Call
    BY <1>1, <1>2, <2>1 DEF Unanswered
  <2>4. ASSUME NEW m \in k..Len(history')
        PROVE  history'[m] # Result
    <3>1. CASE m \in DOMAIN history
      BY <1>2, <2>1, <3>1 DEF Unanswered
    <3>2. CASE m \notin DOMAIN history
      <4>1. m \in DOMAIN history'
        BY <1>2, <2>3, <2>4
      <4>. QED
        BY <1>3, <2>2, <3>2, <4>1
    <3>. QED
      BY <3>1, <3>2
  <2>. QED
    BY <2>1, <2>3, <2>4 DEF HeldForEver, Unanswered
<1>. QED
  BY <1>1, <1>2, <1>3, <1>4

\* The task has no part in what is appended.
LEMMA OnceAppended ==
    ASSUME Typing, NEW entries \in Seq(Item), history' = history \o entries, durable' = durable,
           \/ \A i \in DOMAIN entries : entries[i] # Result
           \/ \A k \in 1..durable : ~Unanswered(history, k),
           steers' = steers, NEW t \in Tasks, \A i \in DOMAIN entries : entries[i].task # t, Once(t)
    PROVE  Once(t)' /\ Said(t)' \subseteq Said(t)
<1>1. /\ DOMAIN history \subseteq DOMAIN history'
      /\ \A i \in DOMAIN history : history'[i] = history[i]
      /\ \A i \in DOMAIN history' : history'[i].task = t => i \in DOMAIN history
      /\ \A i : HeldForEver(i) => HeldForEver(i)'
  BY Appended
<1>2. Once(t)'
  BY <1>1 DEF Once, Steered, Reported
<1>3. Said(t)' \subseteq Said(t)
  BY <1>1 DEF Said
<1>. QED
  BY <1>2, <1>3

\* The task is told nothing new; its process may have died.
LEMMA RightKept ==
    ASSUME NEW t \in Tasks, Right(t), Once(t)', Said(t)' \subseteq Said(t), disk'[t] = disk[t],
           told' = told, hushed' = hushed,
           mem'[t] \in Statuses => mem'[t] = mem[t] /\ entry'[t] = entry[t]
    PROVE  Right(t)'
BY DEF Right

\* A notification of a task is added, as the task's file has its end.
LEMMA RightTold ==
    ASSUME NEW t \in Tasks, Right(t), Once(t)', NEW key, Said(t)' \subseteq Said(t) \cup {key},
           disk[t] # None, disk[t].status = key.status, key.status \in Terminal, t \notin hushed,
           mem[t] \in Statuses => entry[t].fired /\ ~entry[t].suppressed /\ ~entry'[t].reading,
           entry'[t].fired = entry[t].fired, entry'[t].suppressed = entry[t].suppressed,
           disk' = disk, told' = told, hushed' = hushed, mem' = mem
    PROVE  Right(t)'
BY DEF Right

\* The tail of the output has been read, for a task whose end has not been told.
LEMMA NotifyTaskInv ==
    ASSUME TaskInv, NEW t \in Tasks, NotifyTask(t)
    PROVE  TaskInv'
<1>. USE DEF TaskInv
<1> DEFINE f == [entry[t] EXCEPT !.reading = FALSE]
           key == Key(t, mem[t])
           one == <<key>>
<1>1. entry[t].reading /\ entry' = [entry EXCEPT ![t] = f]
      /\ UNCHANGED <<proc, mem, disk, calls, scheduled, durable, told, hushed, unsaved>>
  BY DEF NotifyTask, Typing
<1>2. mem[t] \in Statuses /\ Coherent(mem[t], entry[t]) /\ entry[t] \in EntryRecord
  BY <1>1, NewEntryShape DEF Entries, Typing
<1>3. entry[t].fired /\ ~entry[t].suppressed /\ mem[t] \in Terminal
  BY <1>1, <1>2 DEF Coherent
<1>4. /\ proc = "up"
      /\ \/ steers' = Append(steers, key) /\ UNCHANGED <<history, delivered>>
         \/ steers' = steers /\ history' = history \o one /\ delivered' = Heard(history')
  BY <1>2, <1>3 DEF NotifyTask, Process, appendToContext
<1>5. /\ f \in EntryRecord /\ ~f.reading /\ f.fired = entry[t].fired
      /\ f.suppressed = entry[t].suppressed /\ f.queue = entry[t].queue
  BY <1>2 DEF EntryRecord
<1>6. key \in Notification /\ key.task = t /\ key.status = mem[t]
  BY <1>2 DEF Key, Notification
<1>. HIDE DEF f, key
<1>7. /\ one \in Seq(Item) /\ DOMAIN one = 1..1
      /\ \A i \in DOMAIN one : i = 1 /\ one[i] = key /\ one[i] # Result
  BY <1>6, ItemsOfTasks DEF Item
<1>. HIDE DEF one
<1>8. entry'[t] = f /\ \A u \in Tasks : u # t => entry'[u] = entry[u]
  BY <1>1 DEF Typing
<1>9. Typing'
  <2>1. /\ steers' \in Seq(Notification)
        /\ history' \in Seq(Item) /\ durable' \in 0..Len(history')
    <3>1. CASE steers' = Append(steers, key) /\ UNCHANGED <<history, delivered>>
      BY <1>1, <1>6, <3>1 DEF Typing
    <3>2. CASE steers' = steers /\ history' = history \o one
      BY <1>1, <1>7, <3>2, Appended DEF Typing
    <3>. QED
      BY <1>4, <3>1, <3>2
  <2>. QED
    BY <1>1, <1>5, <2>1 DEF Typing
<1>10. Entries' /\ Process'
  <2>1. Coherent(mem[t], f)
    BY <1>2, <1>5 DEF Coherent
  <2>. QED
    BY <1>1, <1>2, <1>4, <1>8, <2>1 DEF Entries, Process
<1>11. CallsInOrder'
  <2>1. \A u \in Tasks : /\ entry'[u].fired = entry[u].fired
                         /\ entry'[u].suppressed = entry[u].suppressed
                         /\ entry'[u].queue = entry[u].queue
    BY <1>5, <1>8
  <2>. QED
    BY <1>1, <2>1 DEF CallsInOrder, InOrder
<1>12. ASSUME NEW u \in Tasks \ unsaved
       PROVE  Right(u)'
  <2>1. Right(u)
    BY DEF Recorded
  <2>2. CASE u # t
    <3>1. Once(u)' /\ Said(u)' \subseteq Said(u)
      <4>1. CASE steers' = Append(steers, key) /\ UNCHANGED <<history, delivered>>
        <5>1. \A i \in DOMAIN steers' : steers'[i].task = u =>
                  i \in DOMAIN steers /\ steers'[i] = steers[i]
          BY <1>6, <2>2, <4>1 DEF Typing
        <5>2. \A i : HeldForEver(i)' = HeldForEver(i)
          BY <1>1, <4>1 DEF HeldForEver, Unanswered
        <5>. QED
          BY <2>1, <4>1, <5>1, <5>2 DEF Right, Once, Said, Steered, Reported
      <4>2. CASE steers' = steers /\ history' = history \o one
        BY <1>1, <1>6, <1>7, <2>1, <2>2, <4>2, OnceAppended DEF Right
      <4>. QED
        BY <1>4, <4>1, <4>2
    <3>. QED
      BY <1>1, <1>8, <2>1, <2>2, <3>1, RightKept
  <2>3. CASE u = t
    <3>1. /\ disk[t] = [status |-> mem[t], suppressed |-> entry[t].suppressed]
          /\ Said(t) = {} /\ t \notin hushed
      BY <1>1, <1>2, <1>3, <2>1, <2>3 DEF Right
    <3>2. disk[t] \in File
      BY <1>2, <3>1 DEF File, Statuses, EntryRecord
    <3>3. disk[t] # None /\ disk[t].status = mem[t]
      BY <3>1, <3>2, BackgroundAssumption
    <3>4. /\ \A i \in DOMAIN history : history[i].task # t
          /\ \A i \in DOMAIN steers : steers[i].task # t
      BY <3>1 DEF Said
    <3>5. Once(t)' /\ Said(t)' \subseteq {key}
      <4>1. CASE steers' = Append(steers, key) /\ UNCHANGED <<history, delivered>>
        <5>1. \A i \in DOMAIN steers' : steers'[i].task = t =>
                  i = Len(steers) + 1 /\ steers'[i] = key
          BY <1>6, <3>4, <4>1 DEF Typing
        <5>. QED
          BY <3>4, <4>1, <5>1 DEF Once, Said, Steered, Reported
      <4>2. CASE steers' = steers /\ history' = history \o one
        <5>1. \A i \in DOMAIN history' : i \in DOMAIN history =>  history'[i] = history[i]
          BY <1>1, <1>7, <4>2, Appended
        <5>2. \A i \in DOMAIN history' : i \notin DOMAIN history =>
                  i - Len(history) = 1 /\ history'[i] = key
          BY <1>1, <1>7, <4>2, Appended
        <5>3. /\ \A i \in DOMAIN history' : history'[i].task = t => i - Len(history) = 1
              /\ Len(history) \in Nat /\ DOMAIN history' \subseteq Nat
          BY <1>9, <3>4, <5>1, <5>2 DEF Typing
        <5>4. \A i, j \in DOMAIN history' : history'[i].task = t /\ history'[j].task = t => i = j
          BY <5>3
        <5>. QED
          BY <3>4, <4>2, <5>1, <5>2, <5>4 DEF Once, Said, Steered
      <4>. QED
        BY <1>4, <4>1, <4>2
    <3>6. /\ disk[t].status = key.status /\ key.status \in Terminal
          /\ Said(t)' \subseteq Said(t) \cup {key}
      BY <1>3, <1>6, <3>3, <3>5
    <3>7. /\ entry[t].fired /\ ~entry[t].suppressed /\ ~entry'[t].reading
          /\ entry'[t].fired = entry[t].fired /\ entry'[t].suppressed = entry[t].suppressed
      BY <1>3, <1>5, <1>8, <2>3
    <3>8. Right(t)'
      BY <1>1, <2>1, <2>3, <3>1, <3>3, <3>5, <3>6, <3>7, RightTold
    <3>. QED
      BY <2>3, <3>8
  <2>. QED
    BY <2>2, <2>3
<1>13. Recorded'
  BY <1>1, <1>12 DEF Recorded
<1>. QED
  BY <1>9, <1>10, <1>11, <1>13

\* The steers are appended to the context in their order.
LEMMA FlushInv ==
    ASSUME TaskInv, flushSteerBuffer
    PROVE  TaskInv'
<1>. USE DEF TaskInv
<1>1. /\ history' = history \o steers /\ steers' = << >> /\ steers # << >>
      /\ delivered' = Heard(history')
      /\ UNCHANGED <<proc, mem, entry, disk, calls, scheduled, durable, told, hushed, unsaved>>
  BY DEF flushSteerBuffer, appendToContext
<1>2. steers \in Seq(Notification) /\ history \in Seq(Item)
  BY DEF Typing
<1>3. steers \in Seq(Item) /\ \A i \in DOMAIN steers : steers[i] # Result
  BY <1>2, NotificationsAreItems
<1>4. Typing'
  <2>1. history' \in Seq(Item) /\ durable' \in 0..Len(history') /\ steers' \in Seq(Notification)
    BY <1>1, <1>3, Appended
  <2>. QED
    BY <1>1, <2>1 DEF Typing
<1>5. Entries' /\ CallsInOrder' /\ Process'
  BY <1>1 DEF Entries, CallsInOrder, Process
<1>6. ASSUME NEW t \in Tasks \ unsaved
      PROVE  Right(t)'
  <2>1. Right(t) /\ Once(t)
    BY DEF Recorded, Right
  <2>2. /\ DOMAIN history \subseteq DOMAIN history'
        /\ \A i \in DOMAIN history : history'[i] = history[i]
        /\ \A i \in DOMAIN history' : i \notin DOMAIN history =>
               i - Len(history) \in DOMAIN steers /\ history'[i] = steers[i - Len(history)]
        /\ \A i : HeldForEver(i) => HeldForEver(i)'
    BY <1>1, <1>3, Appended
  <2>3. DOMAIN history' \subseteq Nat /\ Len(history) \in Nat
    BY <1>2, <1>4 DEF Typing
  <2>4. ASSUME NEW i \in DOMAIN history', NEW j \in DOMAIN history',
               history'[i].task = t, history'[j].task = t
        PROVE  i = j \/ (HeldForEver(i)' /\ HeldForEver(j)')
    <3>1. CASE i \in DOMAIN history /\ j \in DOMAIN history
      BY <2>1, <2>2, <2>4, <3>1 DEF Once
    <3>2. CASE i \notin DOMAIN history /\ j \notin DOMAIN history
      <4>1. i - Len(history) = j - Len(history)
        BY <2>1, <2>2, <2>4, <3>2 DEF Once
      <4>. QED
        BY <2>3, <4>1
    <3>3. CASE ~(i \in DOMAIN history <=> j \in DOMAIN history)
      BY <2>1, <2>2, <2>4, <3>3 DEF Once, Steered, Reported
    <3>. QED
      BY <3>1, <3>2, <3>3
  <2>5. Once(t)'
    BY <1>1, <2>4 DEF Once, Steered
  <2>6. Said(t)' \subseteq Said(t)
    BY <1>1, <2>2 DEF Said
  <2>. QED
    BY <1>1, <2>1, <2>5, <2>6, RightKept
<1>7. Recorded'
  BY <1>1, <1>6 DEF Recorded
<1>. QED
  BY <1>4, <1>5, <1>7

\* An exchange begins or ends.
LEMMA ExchangeInv ==
    ASSUME TaskInv, ToolCall \/ ToolResults
    PROVE  TaskInv'
<1>. USE DEF TaskInv
<1>1. PICK x \in {Call, Result} :
        /\ history' = history \o <<x>> /\ delivered' = Heard(history') /\ proc = "up"
        /\ x = Call \/ \A k \in 1..durable : ~Unanswered(history, k)
        /\ UNCHANGED <<proc, mem, entry, disk, calls, scheduled, steers, durable, told, hushed,
                       unsaved>>
  BY DEF ToolCall, ToolResults, appendToContext
<1>2. x \in Item /\ x.task = None /\ Call # Result
  BY DEF Item, Call, Result
<1> DEFINE one == <<x>>
<1>3. /\ one \in Seq(Item) /\ DOMAIN one = 1..1 /\ \A i \in DOMAIN one : one[i] = x
  BY <1>2
<1>. HIDE DEF one
<1>4. \/ \A i \in DOMAIN one : one[i] # Result
      \/ \A k \in 1..durable : ~Unanswered(history, k)
  BY <1>1, <1>2, <1>3
<1>5. history' = history \o one
  BY <1>1 DEF one
<1>6. Typing'
  <2>1. history' \in Seq(Item) /\ durable' \in 0..Len(history')
    BY <1>1, <1>3, <1>4, <1>5, Appended
  <2>. QED
    BY <1>1, <2>1 DEF Typing
<1>7. Entries' /\ CallsInOrder' /\ Process'
  BY <1>1 DEF Entries, CallsInOrder, Process
<1>8. ASSUME NEW t \in Tasks \ unsaved
      PROVE  Right(t)'
  <2>1. Right(t) /\ Once(t)
    BY DEF Recorded, Right
  <2>2. \A i \in DOMAIN one : one[i].task # t
    BY <1>2, <1>3, BackgroundAssumption
  <2>3. Once(t)' /\ Said(t)' \subseteq Said(t)
    BY <1>1, <1>3, <1>4, <1>5, <2>1, <2>2, OnceAppended
  <2>. QED
    BY <1>1, <2>1, <2>3, RightKept
<1>9. Recorded'
  BY <1>1, <1>8 DEF Recorded
<1>. QED
  BY <1>6, <1>7, <1>9

\* A crash takes the tasks, and the notifications that are not yet in the log.
LEMMA CrashInv ==
    ASSUME TaskInv, Crash
    PROVE  TaskInv'
<1>. USE DEF TaskInv
<1>1. /\ proc' = "down" /\ entry' = [t \in Tasks |-> NewEntry]
      /\ mem' = [t \in Tasks |-> IF disk[t] # None THEN "ghost"
                                 ELSE IF mem[t] = "new" THEN "new" ELSE "forgotten"]
      /\ calls' = [c \in Callers |-> NoCall] /\ steers' = << >>
      /\ UNCHANGED <<disk, told, hushed, unsaved>>
  BY DEF Crash
<1>2. PICK n \in durable..Len(history) : durable' = n /\ history' = SubSeq(history, 1, n)
  BY DEF Crash
<1>3. "new" \notin Statuses /\ "ghost" \notin Statuses /\ "forgotten" \notin Statuses
  BY DEF Statuses, Terminal
<1>4. NoCall \in CallRecord /\ NoCall.pc = "idle" /\ ~NoCall.quiet
  BY DEF NoCall, CallRecord
<1>5. /\ history \in Seq(Item)
      /\ Len(history) \in Nat /\ durable \in Nat /\ durable <= n /\ n \in Nat /\ n <= Len(history)
  <2>1. history \in Seq(Item) /\ durable \in 0..Len(history)
    BY DEF Typing
  <2>2. Len(history) \in Nat
    BY <2>1
  <2>. QED
    BY <1>2, <2>1, <2>2
<1>6. /\ history' \in Seq(Item) /\ Len(history') = n /\ DOMAIN history' = 1..n
      /\ 1..n \subseteq DOMAIN history /\ \A i \in 1..n : history'[i] = history[i]
  BY <1>2, <1>5
<1>7. Typing'
  <2>1. durable' \in 0..Len(history') /\ steers' \in Seq(Notification)
    BY <1>1, <1>2, <1>5, <1>6
  <2>. QED
    BY <1>1, <1>4, <1>6, <2>1, NewEntryShape DEF Typing
<1>8. \A t \in Tasks : mem'[t] \notin Statuses
  BY <1>1, <1>3
<1>9. Entries' /\ Process'
  <2>1. \A k \in DOMAIN history' : k <= durable'
    BY <1>2, <1>5, <1>6
  <2>. QED
    BY <1>1, <1>8, <2>1 DEF Entries, Process
<1>10. CallsInOrder'
  BY <1>1, <1>4 DEF CallsInOrder, InOrder
<1>11. ASSUME NEW i, HeldForEver(i)
       PROVE  HeldForEver(i)'
  <2>1. PICK k \in 1..durable : k < i /\ Unanswered(history, k)
    BY <1>11 DEF HeldForEver
  <2>2. k \in 1..n /\ k \in 1..durable' /\ k..n \subseteq k..Len(history) /\ k..n \subseteq 1..n
    BY <1>2, <1>5
  <2>3. Unanswered(history', k)
    BY <1>6, <2>1, <2>2 DEF Unanswered
  <2>. QED
    BY <2>1, <2>2, <2>3 DEF HeldForEver
<1>12. ASSUME NEW t \in Tasks \ unsaved
       PROVE  Right(t)'
  <2>1. Right(t) /\ disk' = disk /\ told' = told /\ hushed' = hushed /\ mem'[t] \notin Statuses
    BY <1>1, <1>8 DEF Recorded
  <2>2. Once(t)' /\ Said(t)' \subseteq Said(t)
    BY <1>1, <1>6, <1>11, <2>1 DEF Right, Once, Said, Steered
  <2>. QED
    BY <2>1, <2>2, RightKept
<1>13. Recorded'
  BY <1>1, <1>12 DEF Recorded
<1>. QED
  BY <1>7, <1>9, <1>10, <1>13

LEMMA ResumeInv ==
    ASSUME TaskInv, Resume \/ Resumed
    PROVE  TaskInv'
<1>1. /\ UNCHANGED <<mem, entry, disk, calls, steers, history, durable, told, hushed, unsaved>>
      /\ \/ proc = "down" /\ proc' = "loading" /\ delivered' = Heard(history)
         \/ proc = "loading" /\ proc' = "up" /\ delivered' = delivered
  BY DEF Resume, Resumed
<1>2. Typing' /\ Entries' /\ CallsInOrder' /\ Recorded'
  BY <1>1, SaidSame DEF TaskInv, Typing, Entries, CallsInOrder, Recorded, Right
<1>3. Process'
  BY <1>1 DEF TaskInv, Process
<1>. QED
  BY <1>2, <1>3 DEF TaskInv

\* A task whose file has no end has not been reported.
LEMMA MarkLostInv ==
    ASSUME TaskInv, NEW t \in Tasks, MarkLost(t)
    PROVE  TaskInv'
<1>. USE DEF TaskInv
<1> DEFINE lost == [disk[t] EXCEPT !.status = "lost"]
<1>1. /\ mem[t] = "ghost" /\ disk[t].status \notin Terminal
      /\ disk' = [disk EXCEPT ![t] = lost]
      /\ UNCHANGED <<proc, mem, entry, calls, scheduled, delivered, steers, history, durable,
                     told, hushed, unsaved>>
  BY DEF MarkLost, Typing
<1>2. disk[t] \in File
  BY <1>1 DEF Recorded, Typing
<1>3. lost \in File /\ lost.suppressed = disk[t].suppressed /\ lost # None
  <2>1. lost \in File /\ lost.suppressed = disk[t].suppressed
    BY <1>2 DEF File, Terminal
  <2>. QED
    BY <2>1, BackgroundAssumption
<1>. HIDE DEF lost
<1>4. disk'[t] = lost /\ \A u \in Tasks : u # t => disk'[u] = disk[u]
  BY <1>1 DEF Typing
<1>5. Typing' /\ Entries' /\ CallsInOrder' /\ Process'
  BY <1>1, <1>3 DEF Typing, Entries, CallsInOrder, Process
<1>6. "ghost" \notin Statuses
  BY DEF Statuses, Terminal
<1>8. ASSUME NEW u \in Tasks \ unsaved
      PROVE  Right(u)'
  <2>1. CASE u # t
    BY <1>1, <1>4, <2>1, RightSame DEF Recorded
  <2>2. CASE u = t
    <3>1. Right(t) /\ told[t] \subseteq Terminal
      BY <1>8, <2>2 DEF Recorded, Typing
    <3>2. told[t] = {} /\ Said(t) = {}
      BY <1>1, <3>1 DEF Right
    <3>. QED
      BY <1>1, <1>3, <1>4, <1>6, <2>2, <3>1, <3>2, SaidSame DEF Right
  <2>. QED
    BY <2>1, <2>2
<1>9. Recorded'
  BY <1>1, <1>3, <1>4, <1>6, <1>8 DEF Recorded
<1>. QED
  BY <1>5, <1>9

\* The end of a task of an earlier process is told unless the log has it.
LEMMA RestoreInv ==
    ASSUME TaskInv, NEW t \in Tasks, Restore(t)
    PROVE  TaskInv'
<1>. USE DEF TaskInv
<1> DEFINE key == Key(t, disk[t].status)
<1>1. /\ proc = "loading" /\ AllLoadedTerminal /\ mem[t] = "ghost" /\ ~isSuppressed(t)
      /\ key \notin delivered /\ history' = history \o <<key>> /\ delivered' = Heard(history')
      /\ UNCHANGED <<proc, mem, entry, disk, calls, steers, durable, told, hushed, unsaved>>
  BY DEF Restore, ToRestore, appendToContext
<1>2. "ghost" \notin Statuses
  BY DEF Statuses, Terminal
<1>3. /\ steers = << >> /\ delivered = Heard(history)
      /\ \A k \in DOMAIN history : history[k] = Call => k <= durable
      /\ disk[t] # None /\ disk[t].status \in Terminal /\ ~disk[t].suppressed
  BY <1>1, <1>2 DEF Process, Recorded, AllLoadedTerminal, isSuppressed
<1>4. key \in Notification /\ key.task = t /\ key.status = disk[t].status
  BY <1>3 DEF Key, Notification, Statuses
<1> DEFINE one == <<key>>
<1>5. /\ one \in Seq(Item) /\ DOMAIN one = 1..1 /\ history' = history \o one
      /\ \A i \in DOMAIN one : i = 1 /\ one[i] = key /\ one[i] # Result
  BY <1>1, <1>4, ItemsOfTasks DEF Item
<1>. HIDE DEF one
<1>6. ASSUME NEW i \in DOMAIN history, history[i].task = t, history[i].status = disk[t].status
      PROVE  \E k \in 1..durable : k < i /\ Unanswered(history, k)
  <2>1. history \in Seq(Item) /\ durable \in 0..Len(history)
    BY DEF Typing
  <2>2. history[i] \in Notification
    BY <1>6, <2>1, ItemsOfTasks
  <2>3. history[i] = key
    BY <1>6, <2>2 DEF Notification, Key
  <2>4. Held(history, i)
    BY <1>1, <1>3, <1>6, <2>3 DEF Heard
  <2>5. PICK k \in 1..(i - 1) : Unanswered(history, k)
    BY <2>4 DEF Held
  <2>6. k \in DOMAIN history /\ k \in Nat /\ 1 <= k /\ k < i
    BY <1>6, <2>1, <2>5
  <2>7. k <= durable
    BY <1>3, <2>5, <2>6 DEF Unanswered
  <2>. QED
    BY <2>1, <2>5, <2>6, <2>7
<1>. HIDE DEF key
<1>7. /\ history' \in Seq(Item) /\ durable \in 0..Len(history')
      /\ DOMAIN history \subseteq DOMAIN history'
      /\ \A i \in DOMAIN history : history'[i] = history[i]
      /\ \A i \in DOMAIN history' : i \notin DOMAIN history =>
             i - Len(history) = 1 /\ history'[i] = key
      /\ \A i : HeldForEver(i) => HeldForEver(i)'
  BY <1>1, <1>5, Appended
<1>8. Typing'
  BY <1>1, <1>7 DEF Typing
<1>9. Entries' /\ CallsInOrder'
  BY <1>1 DEF Entries, CallsInOrder
<1>10. Process'
  <2>1. key # Call
    BY <1>4, ItemsOfTasks DEF Item
  <2>. QED
    BY <1>1, <1>3, <1>7, <2>1 DEF Process
<1>11. ASSUME NEW u \in Tasks \ unsaved
       PROVE  Right(u)'
  <2>1. Right(u) /\ Once(u)
    BY DEF Recorded, Right
  <2>2. CASE u # t
    <3>1. Once(u)' /\ Said(u)' \subseteq Said(u)
      BY <1>1, <1>4, <1>5, <2>1, <2>2, OnceAppended
    <3>. QED
      BY <1>1, <2>1, <2>2, <3>1, RightKept
  <2>3. CASE u = t
    <3>1. Said(t)' \subseteq Said(t) \cup {key}
      BY <1>1, <1>7 DEF Said
    <3>2. ASSUME NEW i \in DOMAIN history, history[i].task = t
          PROVE  \E k \in 1..durable : k < i /\ Unanswered(history, k)
      <4>1. history[i] \in Said(t)
        BY <3>2 DEF Said
      <4>. QED
        BY <1>6, <2>1, <2>3, <3>2, <4>1 DEF Right
    <3>3. /\ DOMAIN history = 1..Len(history) /\ Len(history) \in Nat
          /\ DOMAIN history' \subseteq Nat
      BY <1>8 DEF Typing
    <3>4. ASSUME NEW i \in DOMAIN history', NEW j \in DOMAIN history',
                 i \in DOMAIN history, history'[i].task = t
          PROVE  HeldForEver(i)' /\ (j \notin DOMAIN history => HeldForEver(j)')
      <4>1. PICK k \in 1..durable : k < i /\ Unanswered(history, k)
        BY <1>7, <3>2, <3>4
      <4>2. HeldForEver(i)'
        BY <1>7, <4>1 DEF HeldForEver
      <4>3. ASSUME j \notin DOMAIN history
            PROVE  HeldForEver(j)
        <5>1. j = Len(history) + 1 /\ i <= Len(history) /\ k < j
          BY <1>7, <3>3, <3>4, <4>1, <4>3
        <5>. QED
          BY <4>1, <5>1 DEF HeldForEver
      <4>. QED
        BY <1>7, <4>2, <4>3
    <3>5. ASSUME NEW i \in DOMAIN history', NEW j \in DOMAIN history',
                 history'[i].task = t, history'[j].task = t
          PROVE  i = j \/ (HeldForEver(i)' /\ HeldForEver(j)')
      <4>1. CASE i \notin DOMAIN history /\ j \notin DOMAIN history
        BY <1>7, <3>3, <4>1
      <4>. QED
        BY <3>4, <3>5, <4>1
    <3>6. Once(t)'
      BY <1>1, <1>3, <3>5 DEF Once, Steered
    <3>7. t \notin hushed
      BY <1>3, <2>1, <2>3 DEF Right
    <3>. QED
      BY <1>1, <1>2, <1>3, <1>4, <2>1, <2>3, <3>1, <3>6, <3>7, RightTold
  <2>. QED
    BY <2>2, <2>3
<1>12. Recorded'
  BY <1>1, <1>11 DEF Recorded
<1>. QED
  BY <1>8, <1>9, <1>10, <1>12

-----------------------------------------------------------------------------
(* The files *)

\* What the end of a write leaves of the fields of its task: the effects are fired with the
\* write that carries the end, once.
LEMMA WriteShape ==
    ASSUME NEW t \in Tasks, NEW m \in EntryRecord, Coherent(mem[t], m), m.queue # << >>
    PROVE  LET w == Head(m.queue)
               e == [m EXCEPT !.queue = Tail(@)]
               f == IF w.settles THEN Fired(t, e) ELSE e
           IN  /\ w \in Write /\ w = m.queue[1] /\ 1 \in DOMAIN m.queue
               /\ f \in EntryRecord /\ Coherent(mem[t], f)
               /\ f.suppressed = m.suppressed /\ (m.fired => f.fired /\ f.reading = m.reading)
               /\ (f.fired <=> m.fired \/ w.settles)
               /\ f.queue = Tail(m.queue) /\ e.queue = f.queue /\ Len(f.queue) \in Nat
               /\ DOMAIN f.queue \subseteq Nat /\ DOMAIN m.queue \subseteq Nat \ {0}
               /\ \A k \in DOMAIN f.queue : k + 1 \in DOMAIN m.queue /\ f.queue[k] = m.queue[k + 1]
               /\ \A k \in DOMAIN m.queue : k = 1 \/ k - 1 \in DOMAIN f.queue
<1> DEFINE queue == Seq(Write)
           q == Tail(m.queue)
           w == Head(m.queue)
           e == [m EXCEPT !.queue = q]
           f == IF w.settles THEN Fired(t, e) ELSE e
<1>1. m.queue \in Seq(Write)
  BY DEF EntryRecord
<1>2. /\ w \in Write /\ w = m.queue[1] /\ 1 \in DOMAIN m.queue
      /\ q \in Seq(Write) /\ Len(q) \in Nat
      /\ DOMAIN q \subseteq Nat \ {0} /\ DOMAIN m.queue \subseteq Nat \ {0}
      /\ \A k \in DOMAIN q : k + 1 \in DOMAIN m.queue /\ q[k] = m.queue[k + 1]
      /\ \A k \in DOMAIN m.queue : k = 1 \/ k - 1 \in DOMAIN q
  BY <1>1
<1>3. w.settles \in BOOLEAN
  BY <1>2 DEF Write
<1>4. q \in queue /\ m \in [kind : Kinds, aborted : BOOLEAN, suppressed : BOOLEAN,
                            fired : BOOLEAN, ended : BOOLEAN, queue : queue, reading : BOOLEAN]
  BY <1>2 DEF EntryRecord
<1>. HIDE DEF q, w, queue
<1>5. /\ e \in [kind : Kinds, aborted : BOOLEAN, suppressed : BOOLEAN,
                fired : BOOLEAN, ended : BOOLEAN, queue : queue, reading : BOOLEAN]
      /\ e.fired = m.fired /\ e.reading = m.reading /\ e.suppressed = m.suppressed
      /\ e.queue = q
  BY <1>4
<1>. HIDE DEF e
<1>6. /\ f \in [kind : Kinds, aborted : BOOLEAN, suppressed : BOOLEAN,
                fired : BOOLEAN, ended : BOOLEAN, queue : queue, reading : BOOLEAN]
      /\ f.suppressed = m.suppressed /\ f.queue = q
      /\ f.fired = IF w.settles THEN TRUE ELSE m.fired
      /\ m.fired => f.reading = m.reading
      /\ f.reading => m.reading \/ (w.settles /\ ~m.suppressed)
  <2>1. CASE ~w.settles
    BY <1>5, <2>1
  <2>2. CASE w.settles
    BY <1>5, <2>2 DEF Fired
  <2>. QED
    BY <1>3, <2>1, <2>2
<1>7. f \in EntryRecord
  BY <1>6 DEF EntryRecord, queue
<1>. HIDE DEF f
<1>8. f.fired <=> m.fired \/ w.settles
  BY <1>3, <1>6
<1>9. w.settles => \A k \in DOMAIN q : q[k].settles
  <2>. SUFFICES ASSUME w.settles, NEW k \in DOMAIN q PROVE q[k].settles
    OBVIOUS
  <2>1. k + 1 \in DOMAIN m.queue /\ q[k] = m.queue[k + 1] /\ 1 < k + 1
    BY <1>2
  <2>2. m.queue[1].settles
    BY <1>2
  <2>. QED
    BY <1>2, <2>1, <2>2 DEF Coherent
<1>10. Coherent(mem[t], f)
  <2>1. f.fired => mem[t] \in Terminal
    BY <1>2, <1>8 DEF Coherent
  <2>2. f.reading => f.fired /\ ~f.suppressed
    BY <1>6, <1>8 DEF Coherent
  <2>3. ASSUME NEW k \in DOMAIN q
        PROVE  IF q[k].settles
               THEN /\ mem[t] \in Terminal /\ q[k].status = mem[t]
                    /\ q[k].suppressed = f.suppressed
               ELSE ~f.fired
    <3>1. k + 1 \in DOMAIN m.queue /\ q[k] = m.queue[k + 1]
      BY <1>2
    <3>. QED
      BY <1>6, <1>8, <1>9, <3>1 DEF Coherent
  <2>4. ASSUME NEW k \in DOMAIN q, NEW l \in DOMAIN q, k < l, q[k].settles
        PROVE  q[l].settles
    <3>1. /\ k + 1 \in DOMAIN m.queue /\ q[k] = m.queue[k + 1]
          /\ l + 1 \in DOMAIN m.queue /\ q[l] = m.queue[l + 1] /\ k + 1 < l + 1
      BY <1>2, <2>4
    <3>. QED
      BY <2>4, <3>1 DEF Coherent
  <2>5. ASSUME mem[t] \in Terminal, ~f.fired
        PROVE  \E k \in DOMAIN q : q[k].settles
    <3>1. PICK k \in DOMAIN m.queue : m.queue[k].settles
      BY <1>8, <2>5 DEF Coherent
    <3>2. k # 1
      BY <1>2, <1>8, <2>5, <3>1
    <3>3. k - 1 \in DOMAIN q /\ (k - 1) + 1 = k
      BY <1>2, <3>2
    <3>. QED
      BY <1>2, <3>1, <3>3
  <2>. QED
    BY <1>6, <2>1, <2>2, <2>3, <2>4, <2>5 DEF Coherent
<1>. QED
  BY <1>2, <1>5, <1>6, <1>7, <1>8, <1>10 DEF e, f, q, w

\* A call that awaits the write of an end sees it, or comes one write nearer to it.
LEMMA WriteTaskInv ==
    ASSUME TaskInv, NEW t \in Tasks, WriteTask(t)
    PROVE  TaskInv'
<1>. USE DEF TaskInv
<1> DEFINE m == entry[t]
           w == Head(m.queue)
           e == [m EXCEPT !.queue = Tail(@)]
           f == IF w.settles THEN Fired(t, e) ELSE e
           written == [status |-> w.status, suppressed |-> w.suppressed]
           moved(c) == IF calls[c].task # t THEN calls[c]
                       ELSE IF calls[c].pc = "wait"
                       THEN IF w.settles THEN [calls[c] EXCEPT !.pc = "flush", !.due = Len(e.queue)]
                            ELSE calls[c]
                       ELSE [calls[c] EXCEPT !.due = IF @ = 0 THEN 0 ELSE @ - 1]
<1>1. /\ IsLive(t) /\ m.queue # << >>
      /\ \/ disk' = [disk EXCEPT ![t] = written] /\ unsaved' = unsaved
         \/ disk' = disk /\ unsaved' = unsaved \cup {t}
      /\ entry' = [entry EXCEPT ![t] = f]
      /\ calls' = [c \in Callers |-> moved(c)]
      /\ UNCHANGED <<proc, mem, delivered, steers, history, durable, told, hushed>>
  BY DEF WriteTask
<1>2. mem[t] \in Statuses /\ m \in EntryRecord /\ Coherent(mem[t], m)
  BY <1>1, ZenonT(60) DEF IsLive, Statuses, Entries, Typing
<1>3. /\ w \in Write /\ w = m.queue[1] /\ 1 \in DOMAIN m.queue
      /\ f \in EntryRecord /\ Coherent(mem[t], f)
      /\ f.suppressed = m.suppressed /\ (m.fired => f.fired /\ f.reading = m.reading)
      /\ (f.fired <=> m.fired \/ w.settles)
      /\ f.queue = Tail(m.queue) /\ e.queue = f.queue /\ Len(f.queue) \in Nat
      /\ DOMAIN f.queue \subseteq Nat /\ DOMAIN m.queue \subseteq Nat \ {0}
      /\ \A k \in DOMAIN f.queue : k + 1 \in DOMAIN m.queue /\ f.queue[k] = m.queue[k + 1]
      /\ \A k \in DOMAIN m.queue : k = 1 \/ k - 1 \in DOMAIN f.queue
  BY <1>1, <1>2, WriteShape
<1>4. written \in File
  BY <1>3, SMTT(30) DEF Write, File, Statuses
<1>5. \A c \in Callers : calls'[c] = moved(c)
  BY <1>1
<1>. HIDE DEF m, w, e, f
<1>6. /\ IF w.settles THEN mem[t] \in Terminal /\ w.status = mem[t] /\ w.suppressed = m.suppressed
                      ELSE ~m.fired
      /\ m.fired => f.fired /\ w.settles
  BY <1>2, <1>3 DEF Coherent
<1>7. entry'[t] = f /\ entry[t] = m /\ \A u \in Tasks : u # t => entry'[u] = entry[u]
  BY <1>1 DEF Typing, m
<1>8. disk' \in [Tasks -> File \cup {None}] /\ \A u \in Tasks : u # t => disk'[u] = disk[u]
  BY <1>1, <1>4 DEF Typing
<1>9. Entries' /\ Process'
  <2>1. Entries'
    <3>1. \A u \in Tasks : IF mem[u] \in Statuses THEN Coherent(mem[u], entry'[u])
                           ELSE entry'[u] = NewEntry
      BY <1>2, <1>3, <1>7 DEF Entries
    <3>. QED
      BY <1>1, <3>1 DEF Entries
  <2>2. Process'
    BY <1>1 DEF Process
  <2>. QED
    BY <2>1, <2>2
<1>10. ASSUME NEW c \in Callers
       PROVE  InOrder(calls'[c], mem', entry')
  <2>1. InOrder(calls[c], mem, entry) /\ calls[c] \in CallRecord
    BY DEF CallsInOrder, InOrder
  <2>2. CASE calls[c].task # t
    <3>1. calls'[c] = calls[c]
      BY <1>5, <2>2
    <3>2. CASE calls[c].pc = "idle"
      BY <2>1, <3>1, <3>2, SMTT(30) DEF InOrder, NoCall
    <3>3. CASE calls[c].pc # "idle"
      <4>1. calls[c].task \in Tasks /\ entry'[calls[c].task] = entry[calls[c].task]
        BY <1>7, <2>1, <2>2, <3>3 DEF InOrder
      <4>. QED
        BY <1>1, <2>1, <3>1, <3>3, <4>1, ZenonT(60) DEF InOrder
    <3>. QED
      BY <3>2, <3>3
  <2>3. CASE calls[c].task = t /\ calls[c].pc = "wait"
    <3>1. CASE w.settles
      <4> DEFINE r == [calls[c] EXCEPT !.pc = "flush", !.due = Len(e.queue)]
      <4>1. calls'[c] = r
        BY <1>5, <2>3, <3>1
      <4>2. r \in CallRecord /\ r.pc = "flush" /\ r.task = t /\ r.quiet = calls[c].quiet
        BY <1>3, <2>1, <2>3 DEF CallRecord
      <4>. HIDE DEF r
      <4>3. ~r.quiet
        BY <2>1, <2>3, <4>2 DEF InOrder
      <4>4. f.fired /\ mem[t] \in Terminal
        BY <1>3, <1>6, <3>1
      <4>. QED
        BY <1>1, <1>2, <1>7, <4>1, <4>2, <4>3, <4>4 DEF InOrder
    <3>2. CASE ~w.settles
      <4>1. calls'[c] = calls[c]
        BY <1>5, <2>3, <3>2
      <4>. QED
        BY <1>1, <2>1, <2>3, <4>1 DEF InOrder
    <3>. QED
      BY <3>1, <3>2, SMTT(30)
  <2>4. CASE calls[c].task = t /\ calls[c].pc # "wait"
    <3> DEFINE d == IF calls[c].due = 0 THEN 0 ELSE calls[c].due - 1
               r == [calls[c] EXCEPT !.due = d]
    <3>1. calls'[c] = r
      BY <1>5, <2>4
    <3>2. d \in Nat /\ \A k \in Nat : k + 1 <= calls[c].due => k <= d
      BY <2>1 DEF CallRecord
    <3>. HIDE DEF d
    <3>3. /\ r \in CallRecord /\ r.pc = calls[c].pc /\ r.task = t /\ r.due = d
          /\ r.quiet = calls[c].quiet
      BY <2>1, <2>4, <3>2 DEF CallRecord
    <3>4. r.pc = "idle" => r = NoCall
      <4>. SUFFICES ASSUME calls[c].pc = "idle" PROVE r = NoCall
        BY <3>3
      <4>1. calls[c] = NoCall
        BY <2>1 DEF InOrder
      <4>2. d = 0
        BY <4>1 DEF d, NoCall
      <4>3. /\ NoCall \in CallRecord /\ NoCall.due = 0
            /\ r.pc = NoCall.pc /\ r.task = NoCall.task /\ r.quiet = NoCall.quiet
        BY <2>1, <2>4, <3>3, <4>1 DEF NoCall
      <4>. HIDE DEF r
      <4>. QED
        BY <3>3, <4>2, <4>3 DEF CallRecord
    <3>. HIDE DEF r
    <3>5. r.quiet => f.suppressed /\ r.pc # "wait"
      BY <1>3, <1>7, <2>1, <2>4, <3>3 DEF InOrder
    <3>6. ASSUME r.pc = "flush", ~f.fired
          PROVE  \E k \in DOMAIN f.queue : k <= d /\ f.queue[k].settles
      <4>1. PICK k \in DOMAIN m.queue : k <= calls[c].due /\ m.queue[k].settles
        BY <1>3, <1>7, <2>1, <2>4, <3>3, <3>6 DEF InOrder
      <4>2. k # 1
        BY <1>3, <3>6, <4>1
      <4>3. k \in Nat \ {0} /\ k - 1 \in DOMAIN f.queue
        BY <1>3, <4>2
      <4>4. k - 1 \in Nat /\ (k - 1) + 1 = k
        BY <4>3
      <4>5. k - 1 <= d
        BY <3>2, <4>1, <4>4
      <4>. QED
        BY <1>3, <4>1, <4>3, <4>4, <4>5
    <3>7. r.pc = "flush" => mem[t] \in Terminal
      BY <2>1, <2>4, <3>3 DEF InOrder
    <3>. QED
      BY <1>1, <1>2, <1>7, <3>1, <3>3, <3>4, <3>5, <3>6, <3>7 DEF InOrder
  <2>. QED
    BY <2>2, <2>3, <2>4
<1>11. CallsInOrder' /\ calls' \in [Callers -> CallRecord]
  <2>1. \A c \in Callers : calls'[c] \in CallRecord
    BY <1>10, SMTT(30) DEF InOrder
  <2>. QED
    BY <1>1, <1>10, <2>1 DEF CallsInOrder
<1>12. Typing'
  BY <1>1, <1>3, <1>8, <1>11 DEF Typing
<1>14. ASSUME NEW u \in Tasks \ unsaved'
       PROVE  Right(u)'
  <2>1. Right(u)
    BY <1>1, <1>14 DEF Recorded
  <2>2. CASE u # t
    BY <1>1, <1>7, <1>8, <2>1, <2>2, RightSame
  <2>3. CASE u = t
    <3>1. disk' = [disk EXCEPT ![t] = written]
      BY <1>1, <1>14, <2>3
    <3>2. disk'[t] = written /\ written # None
      BY <1>4, <3>1, BackgroundAssumption DEF Typing
    <3>3. w.settles => disk'[t] = [status |-> mem[t], suppressed |-> f.suppressed]
                       /\ disk'[t].status = mem[t] /\ disk'[t].suppressed = f.suppressed
      BY <1>3, <1>6, <3>2
    <3>4. m.fired => disk[t].status = mem[t]
      BY <1>2, <1>7, <2>1, <2>3 DEF Right
    <3>5. f.fired => disk'[t] = [status |-> mem[t], suppressed |-> f.suppressed]
      BY <1>3, <1>6, <3>3
    <3>6. ASSUME NEW key \in Said(t)
          PROVE  /\ t \notin hushed /\ key.status \in Terminal
                 /\ disk'[t] # None /\ disk'[t].status = key.status
                 /\ f.fired /\ ~f.suppressed /\ ~f.reading
      <4>1. /\ t \notin hushed /\ key.status \in Terminal /\ disk[t].status = key.status
            /\ m.fired /\ ~m.suppressed /\ ~m.reading
        BY <1>2, <1>7, <2>1, <2>3, <3>6 DEF Right
      <4>. QED
        BY <1>3, <1>6, <3>2, <3>3, <3>4, <4>1
    <3>7. \A s \in told[t] : disk'[t] # None /\ disk'[t].status = s /\ f.fired
      BY <1>2, <1>3, <1>6, <1>7, <2>1, <2>3, <3>2, <3>3, <3>4 DEF Right
    <3>8. t \in hushed => /\ disk'[t] # None /\ disk'[t].suppressed
                          /\ f.fired /\ f.suppressed
      BY <1>2, <1>3, <1>6, <1>7, <2>1, <2>3, <3>2, <3>3 DEF Right
    <3>9. Said(t)' = Said(t) /\ Once(t)'
      BY <1>1, <2>1, <2>3, SaidSame DEF Right
    <3>. QED
      BY <1>1, <1>7, <2>3, <3>5, <3>6, <3>7, <3>8, <3>9 DEF Right
  <2>. QED
    BY <2>2, <2>3
<1>15. Recorded'
  <2>1. "new" \notin Statuses /\ "ghost" \notin Statuses
    BY DEF Statuses, Terminal
  <2>. QED
    BY <1>1, <1>2, <1>8, <1>14, <2>1 DEF Recorded
<1>. QED
  BY <1>9, <1>11, <1>12, <1>15, SMTT(30)

-----------------------------------------------------------------------------
(* The theorems *)

LEMMA NextTaskInv == TaskInv /\ [Next]_vars => TaskInv'
<1>. SUFFICES ASSUME TaskInv, [Next]_vars
              PROVE  TaskInv'
  OBVIOUS
<1>1. CASE UNCHANGED vars
  BY <1>1, OnlyAnAnswer DEF vars
<1>2. ASSUME NEW t \in Tasks, \/ registerTask(t) \/ TaskEnds(t) \/ WriteTask(t)
                              \/ NotifyTask(t) \/ MarkLost(t) \/ Restore(t)
                              \/ TaskOutput(t)
      PROVE  TaskInv'
  <2>1. CASE TaskOutput(t)
    BY <2>1, OnlyAnAnswer DEF TaskOutput
  <2>. QED
    BY <1>2, <2>1, RegisterInv, TaskEndsInv, WriteTaskInv, NotifyTaskInv, MarkLostInv, RestoreInv
<1>3. ASSUME NEW c \in Callers, NEW t \in Tasks, stop(c, t) \/ TaskStop(c, t) \/ wait(c, t)
      PROVE  TaskInv'
  <2>1. CASE TaskStop(c, t) /\ AnswerAtOnce(t)
    <3>1. mem[t] # "running" \/ proc # "up"
      BY <2>1 DEF AnswerAtOnce, Status, Terminal
    <3>. QED
      BY <2>1, <3>1, OnlyAnAnswer DEF TaskStop
  <2>. QED
    BY <1>3, <2>1, StopInv, TaskStopInv, WaitInv
<1>4. ASSUME NEW c \in Callers, \/ Suppressed(c) \/ GraceOver(c) \/ Forced(c)
                                \/ WaitTimesOut(c) \/ Returns(c)
      PROVE  TaskInv'
  BY <1>4, SuppressedInv, GraceOverInv, ForcedInv, WaitTimesOutInv, ReturnsInv
<1>5. CASE flushSteerBuffer \/ ToolCall \/ ToolResults \/ Crash \/ Resume \/ Resumed
  BY <1>5, FlushInv, ExchangeInv, CrashInv, ResumeInv
<1>. QED
  BY <1>1, <1>2, <1>3, <1>4, <1>5 DEF Next

\* What every step of the manager, its callers, its tasks and a crash preserves.
THEOREM InductiveInvariant == Spec => []TaskInv
BY InitTaskInv, NextTaskInv, PTL DEF Spec

LEMMA HistoryIsSaid ==
    ASSUME NEW i \in DOMAIN history
    PROVE  history[i] \in Said(history[i].task)
BY DEF Said

\* The end of a task is told to the model at most once; it may stand in the record log twice
\* behind an exchange that a crash cut off, where neither is read.
THEOREM EndsAreReportedOnce == Spec => []ReportedOnce
<1>1. TaskInv => ReportedOnce
  BY DEF TaskInv, Recorded, Right, Once, ReportedOnce
<1>. QED
  BY <1>1, InductiveInvariant, PTL

\* What TaskStop of an ended task and TaskOutput have said is the end the process knows.
\* A process that has not finished loading has said nothing.
Glimpses ==
    /\ glimpsed \in [Tasks -> SUBSET Terminal]
    /\ \A t \in Tasks : \A s \in glimpsed[t] : proc = "up" /\ Status(t) = s

LEMMA AnsweredAtOnce ==
    ASSUME Glimpses, NEW t \in Tasks, AnswerAtOnce(t), UNCHANGED <<proc, mem, disk>>
    PROVE  Glimpses'
BY DEF Glimpses, AnswerAtOnce, Status

LEMMA GlimpsesKept == TaskInv /\ Glimpses /\ [Next]_vars => Glimpses'
<1>. SUFFICES ASSUME TaskInv, Glimpses, [Next]_vars PROVE Glimpses'
  OBVIOUS
<1>0. "running" \notin Terminal /\ "new" \notin Terminal /\ "ghost" \notin Terminal
      /\ "forgotten" \notin Terminal
  BY DEF Terminal
<1>1. ASSUME UNCHANGED <<proc, mem, disk, glimpsed>>
      PROVE  Glimpses'
  BY <1>1 DEF Glimpses, Status
<1>2. CASE UNCHANGED vars
  BY <1>1, <1>2 DEF vars
<1>3. ASSUME NEW t \in Tasks, NEW e, NEW status, Settle(t, e, status),
             UNCHANGED <<proc, disk, glimpsed>>
      PROVE  Glimpses'
  <2>1. mem[t] \in Terminal \/ mem[t] # "ghost" => mem'[t] = mem[t] \/ mem[t] = "running"
    BY <1>3 DEF Settle, Settled, TaskInv, Typing
  <2>2. \A u \in Tasks : u # t => mem'[u] = mem[u]
    BY <1>3 DEF Settle, TaskInv, Typing
  <2>3. mem[t] = "ghost" => mem'[t] = mem[t]
    BY <1>3 DEF Settle, Settled, TaskInv, Typing
  <2>. QED
    BY <1>0, <1>3, <2>1, <2>2, <2>3 DEF Glimpses, Status
<1>4. ASSUME NEW t \in Tasks, registerTask(t)
      PROVE  Glimpses'
  <2>1. /\ mem[t] = "new" /\ \A u \in Tasks : u # t => mem'[u] = mem[u]
        /\ UNCHANGED <<proc, disk, glimpsed>>
    BY <1>4 DEF registerTask, TaskInv, Typing
  <2>. QED
    BY <1>0, <2>1 DEF Glimpses, Status
<1>5. ASSUME NEW t \in Tasks, WriteTask(t)
      PROVE  Glimpses'
  <2>1. /\ IsLive(t) /\ UNCHANGED <<proc, mem, glimpsed>>
        /\ disk' = disk \/ \E d : disk' = [disk EXCEPT ![t] = d]
    BY <1>5 DEF WriteTask
  <2>2. mem[t] # "ghost" /\ \A u \in Tasks : u # t => disk'[u] = disk[u]
    BY <1>0, <2>1 DEF IsLive, TaskInv, Typing
  <2>. QED
    BY <2>1, <2>2 DEF Glimpses, Status
<1>6. ASSUME NEW t \in Tasks, MarkLost(t)
      PROVE  Glimpses'
  BY <1>6 DEF MarkLost, Glimpses
<1>7. ASSUME NEW t \in Tasks, \/ registerTask(t) \/ TaskEnds(t) \/ WriteTask(t)
                              \/ NotifyTask(t) \/ MarkLost(t) \/ Restore(t)
                              \/ TaskOutput(t)
      PROVE  Glimpses'
  <2>1. CASE TaskEnds(t)
    BY <1>3, <2>1 DEF TaskEnds
  <2>2. CASE NotifyTask(t) \/ Restore(t)
    BY <1>1, <2>2 DEF NotifyTask, Restore
  <2>3. CASE TaskOutput(t)
    BY <2>3, AnsweredAtOnce DEF TaskOutput
  <2>. QED
    BY <1>4, <1>5, <1>6, <1>7, <2>1, <2>2, <2>3
<1>8. ASSUME NEW c \in Callers, NEW t \in Tasks, stop(c, t) \/ TaskStop(c, t) \/ wait(c, t)
      PROVE  Glimpses'
  BY <1>1, <1>8, AnsweredAtOnce DEF stop, TaskStop, wait
<1>9. ASSUME NEW c \in Callers, \/ Suppressed(c) \/ GraceOver(c) \/ Forced(c)
                                \/ WaitTimesOut(c) \/ Returns(c)
      PROVE  Glimpses'
  <2>1. CASE Forced(c)
    <3>1. calls[c].task \in Tasks
      BY <2>1 DEF Forced, TaskInv, CallsInOrder, InOrder
    <3>. QED
      BY <1>1, <1>3, <2>1, <3>1 DEF Forced
  <2>. QED
    BY <1>1, <1>9, <2>1 DEF Suppressed, GraceOver, WaitTimesOut, Returns
<1>10. CASE flushSteerBuffer \/ ToolCall \/ ToolResults
  BY <1>1, <1>10 DEF flushSteerBuffer, ToolCall, ToolResults
<1>11. CASE Crash
  BY <1>11 DEF Crash, Glimpses
<1>12. CASE Resume \/ Resumed
  BY <1>12 DEF Resume, Resumed, Glimpses
<1>. QED
  BY <1>2, <1>7, <1>8, <1>9, <1>10, <1>11, <1>12 DEF Next

LEMMA GlimpsesInvariant == Spec => []Glimpses
<1>1. Init => Glimpses
  BY DEF Init, Glimpses
<1>. QED
  BY <1>1, GlimpsesKept, InductiveInvariant, PTL DEF Spec

\* What was told of the end of a task, by stop, wait or a notification, is what its file says;
\* what was told ahead of the file is the end the process stays with.
THEOREM ToldIsRecorded == Spec => []ToldAsRecorded
<1>1. TaskInv /\ Glimpses => ToldAsRecorded
  <2>. SUFFICES ASSUME TaskInv, Glimpses, NEW t \in Tasks \ unsaved
                PROVE  /\ \A s \in told[t] : disk[t] # None /\ disk[t].status = s
                       /\ \A i \in DOMAIN history : history[i].task = t =>
                              disk[t] # None /\ disk[t].status = history[i].status
                       /\ \A s \in glimpsed[t] : Status(t) = s
    BY DEF ToldAsRecorded
  <2>1. Right(t)
    BY DEF TaskInv, Recorded
  <2>. QED
    BY <2>1, HistoryIsSaid DEF Right, Glimpses
<1>. QED
  BY <1>1, InductiveInvariant, GlimpsesInvariant, PTL

\* A task that TaskStop found running is not reported once TaskStop has returned its end.
THEOREM StopsAreQuiet == Spec => []StoppedQuietly
<1>1. TaskInv => StoppedQuietly
  BY HistoryIsSaid DEF TaskInv, Typing, Recorded, Right, StoppedQuietly
<1>. QED
  BY <1>1, InductiveInvariant, PTL

-----------------------------------------------------------------------------
(* No end is forgotten on its way to the context *)

Spoken == scheduled \cup delivered \cup ToSet(history) \cup ToSet(steers)

\* A task of which a notification was scheduled or delivered has fired the effects of its
\* end, so that these never meet a key that stands for an earlier report.
SpokenHaveFired ==
    \A t \in Tasks : mem[t] \in Statuses \cup {"new"} /\ ~entry[t].fired =>
        \A key \in Spoken : key.task # t

\* A notification that was not suppressed is prepared, buffered or in the context.
FiredIsOnItsWay ==
    \A t \in Tasks : mem[t] \in Statuses /\ entry[t].fired /\ ~entry[t].suppressed =>
        entry[t].reading \/ (\E key \in ToSet(history) \cup ToSet(steers) : key.task = t)

\* What a resuming session takes for delivered is in the context; when it is up no end that
\* its files hold is missing.
DeliveredIsInContext ==
    /\ delivered \subseteq ToSet(history)
    /\ proc # "up" => scheduled \subseteq ToSet(history)
    /\ \A t \in Tasks : proc = "up" /\ mem[t] = "ghost" /\ ~disk[t].suppressed =>
           \E key \in ToSet(history) : key.task = t

WayInv == SpokenHaveFired /\ FiredIsOnItsWay /\ DeliveredIsInContext

\* What the context has heard is in its history.
LEMMA HeardIsThere == ASSUME NEW h PROVE Heard(h) \subseteq ToSet(h)
BY DEF Heard, ToSet

\* What is appended joins the history, and nothing else does.
LEMMA AppendedSet ==
    ASSUME Typing, NEW entries \in Seq(Item), history' = history \o entries
    PROVE  ToSet(history') = ToSet(history) \cup ToSet(entries)
<1>1. history \in Seq(Item)
  BY DEF Typing
<1>2. /\ Len(history) \in Nat /\ Len(entries) \in Nat
      /\ DOMAIN history = 1..Len(history) /\ DOMAIN entries = 1..Len(entries)
      /\ DOMAIN history' = 1..(Len(history) + Len(entries))
      /\ \A i \in 1..Len(history) : history'[i] = history[i]
      /\ \A i \in 1..Len(entries) : history'[Len(history) + i] = entries[i]
      /\ \A i \in 1..(Len(history) + Len(entries)) :
             i \notin 1..Len(history) => history'[i] = entries[i - Len(history)]
  BY <1>1, ConcatProperties
<1> DEFINE both == ToSet(history) \cup ToSet(entries)
<1>3. ASSUME NEW i \in DOMAIN history PROVE history[i] \in ToSet(history')
  <2>1. i \in DOMAIN history' /\ history'[i] = history[i]
    BY <1>2
  <2>. QED
    BY <2>1 DEF ToSet
<1>4. ASSUME NEW i \in DOMAIN entries PROVE entries[i] \in ToSet(history')
  <2>1. Len(history) + i \in DOMAIN history' /\ history'[Len(history) + i] = entries[i]
    BY <1>2
  <2>. QED
    BY <2>1 DEF ToSet
<1>5. ASSUME NEW i \in DOMAIN history' PROVE history'[i] \in both
  <2>1. CASE i \in DOMAIN history
    BY <1>2, <2>1 DEF ToSet
  <2>2. CASE i \notin DOMAIN history
    <3>1. i - Len(history) \in DOMAIN entries /\ history'[i] = entries[i - Len(history)]
      BY <1>2, <2>2
    <3>. QED
      BY <3>1 DEF ToSet
  <2>. QED
    BY <2>1, <2>2
<1>. HIDE DEF both
<1>6. ToSet(history') \subseteq both
  BY <1>5 DEF ToSet
<1>7. both \subseteq ToSet(history')
  BY <1>3, <1>4 DEF both, ToSet
<1>. QED
  BY <1>6, <1>7 DEF both

\* Something is appended that the task is not the first to be told by.
LEMMA AppendOnItsWay ==
    ASSUME TaskInv, WayInv, NEW entries \in Seq(Item), history' = history \o entries,
           delivered' = Heard(history'),
           \A key \in ToSet(entries) : key \in ToSet(steers) \/ key.task \notin Tasks,
           steers' = steers \/ (steers' = << >> /\ entries = steers),
           UNCHANGED <<proc, mem, entry, disk, scheduled>>
    PROVE  WayInv'
<1>1. ToSet(history') = ToSet(history) \cup ToSet(entries)
  BY AppendedSet DEF TaskInv
<1>2. delivered' \subseteq ToSet(history')
  BY HeardIsThere
<1>3. ToSet(<< >>) = {}
  BY DEF ToSet
<1>4. \A key \in Spoken' : key \in Spoken \/ key.task \notin Tasks
  BY <1>1, <1>2, <1>3 DEF Spoken
<1>5. SpokenHaveFired'
  BY <1>4 DEF WayInv, SpokenHaveFired
<1>6. FiredIsOnItsWay'
  BY <1>1, <1>3 DEF WayInv, FiredIsOnItsWay
<1>7. DeliveredIsInContext'
  BY <1>1, <1>2 DEF WayInv, DeliveredIsInContext
<1>. QED
  BY <1>5, <1>6, <1>7 DEF WayInv

\* The fields of one task advance, and nobody speaks.
LEMMA AdvanceOnItsWay ==
    ASSUME TaskInv, WayInv, NEW t \in Tasks, mem[t] \in Statuses,
           mem'[t] \in Statuses, entry'[t].fired = entry[t].fired,
           entry'[t].reading = entry[t].reading,
           entry[t].fired => entry'[t].suppressed = entry[t].suppressed,
           \A u \in Tasks : u # t => mem'[u] = mem[u] /\ entry'[u] = entry[u],
           UNCHANGED <<proc, disk, scheduled, delivered, steers, history>>
    PROVE  WayInv'
<1>1. "ghost" \notin Statuses /\ "new" \notin Statuses
  BY DEF Statuses, Terminal
<1>2. SpokenHaveFired'
  BY DEF WayInv, SpokenHaveFired, Spoken
<1>3. FiredIsOnItsWay'
  BY DEF WayInv, FiredIsOnItsWay
<1>4. DeliveredIsInContext'
  BY <1>1 DEF WayInv, DeliveredIsInContext
<1>. QED
  BY <1>2, <1>3, <1>4 DEF WayInv

LEMMA RegisterOnItsWay ==
    ASSUME TaskInv, WayInv, NEW t \in Tasks, registerTask(t)
    PROVE  WayInv'
<1>1. PICK k \in Kinds :
        entry' = [entry EXCEPT ![t] = Persist([NewEntry EXCEPT !.kind = k], "running", FALSE)]
  BY DEF registerTask
<1> DEFINE e == [NewEntry EXCEPT !.kind = k]
           f == Persist(e, "running", FALSE)
<1>2. e \in EntryRecord /\ ~e.fired
  <2>1. e \in EntryRecord /\ e.fired = NewEntry.fired
    BY NewEntryShape DEF EntryRecord
  <2>. QED
    BY <2>1, NewEntryShape
<1>3. "running" \in Statuses /\ "ghost" \notin Statuses /\ "new" \notin Statuses
  BY DEF Statuses, Terminal
<1>. HIDE DEF e
<1>4. ~f.fired
  BY <1>2, <1>3, PersistShape
<1>. HIDE DEF f
<1>5. /\ mem[t] = "new" /\ proc = "up"
      /\ mem' = [mem EXCEPT ![t] = "running"] /\ entry' = [entry EXCEPT ![t] = f]
      /\ UNCHANGED <<proc, disk, scheduled, delivered, steers, history>>
  BY <1>1 DEF registerTask, f, e
<1>6. /\ mem'[t] = "running" /\ entry'[t] = f
      /\ \A u \in Tasks : u # t => mem'[u] = mem[u] /\ entry'[u] = entry[u]
  BY <1>5 DEF TaskInv, Typing
<1>7. ~entry[t].fired
  BY <1>3, <1>5, NewEntryShape DEF TaskInv, Entries
<1>8. SpokenHaveFired'
  BY <1>5, <1>6, <1>7 DEF WayInv, SpokenHaveFired, Spoken
<1>9. FiredIsOnItsWay'
  BY <1>4, <1>5, <1>6 DEF WayInv, FiredIsOnItsWay
<1>10. DeliveredIsInContext'
  BY <1>3, <1>5, <1>6 DEF WayInv, DeliveredIsInContext
<1>. QED
  BY <1>8, <1>9, <1>10 DEF WayInv

\* A task ends, by itself or by force.
LEMMA SettleOnItsWay ==
    ASSUME TaskInv, WayInv, NEW t \in Tasks, mem[t] \in Statuses, NEW status \in Terminal,
           NEW e \in EntryRecord, Coherent(mem[t], e), e.fired = entry[t].fired,
           e.reading = entry[t].reading, e.suppressed = entry[t].suppressed,
           Settle(t, e, status),
           UNCHANGED <<proc, disk, scheduled, delivered, steers, history>>
    PROVE  WayInv'
<1> DEFINE s == Settled(e, mem[t], status)
<1>1. s[2] \in Terminal /\ Advance(mem[t], e, s[2], s[1])
  BY SettledShape
<1>2. entry' = [entry EXCEPT ![t] = s[1]] /\ mem' = [mem EXCEPT ![t] = s[2]]
  BY DEF Settle
<1>. HIDE DEF s
<1>3. /\ mem'[t] = s[2] /\ entry'[t] = s[1]
      /\ \A u \in Tasks : u # t => mem'[u] = mem[u] /\ entry'[u] = entry[u]
  BY <1>2 DEF TaskInv, Typing
<1>4. /\ s[2] \in Statuses /\ s[1].fired = e.fired /\ s[1].reading = e.reading
      /\ e.fired => s[1].suppressed = e.suppressed
  BY <1>1 DEF Advance
<1>. QED
  BY <1>3, <1>4, AdvanceOnItsWay

LEMMA TaskEndsOnItsWay ==
    ASSUME TaskInv, WayInv, NEW t \in Tasks, TaskEnds(t)
    PROVE  WayInv'
<1> DEFINE e == [entry[t] EXCEPT !.ended = TRUE]
<1>1. PICK status \in Outcomes(t) : Settle(t, e, status)
  BY DEF TaskEnds
<1>2. IsLive(t) /\ UNCHANGED <<proc, disk, scheduled, delivered, steers, history>>
  BY DEF TaskEnds
<1>3. mem[t] \in Statuses /\ status \in Terminal
  BY <1>2 DEF IsLive, Statuses, Outcomes, Terminal
<1>4. /\ e \in EntryRecord
      /\ e.fired = entry[t].fired /\ e.reading = entry[t].reading
      /\ e.suppressed = entry[t].suppressed /\ e.queue = entry[t].queue
  BY DEF TaskInv, Typing, EntryRecord
<1>. HIDE DEF e
<1>5. Coherent(mem[t], e)
  BY <1>3, <1>4 DEF TaskInv, Entries, Coherent
<1>. QED
  BY <1>1, <1>2, <1>3, <1>4, <1>5, SettleOnItsWay

LEMMA ForcedOnItsWay ==
    ASSUME TaskInv, WayInv, NEW c \in Callers, Forced(c)
    PROVE  WayInv'
<1> DEFINE t == calls[c].task
<1>1. UNCHANGED <<proc, disk, scheduled, delivered, steers, history>> /\ calls[c].pc = "force"
  BY DEF Forced
<1>2. CASE UNCHANGED <<mem, entry>>
  BY <1>1, <1>2 DEF WayInv, SpokenHaveFired, FiredIsOnItsWay, DeliveredIsInContext, Spoken
<1>3. CASE Settle(t, entry[t], "killed")
  <2>1. t \in Tasks /\ mem[t] \in Statuses
    BY <1>1 DEF TaskInv, CallsInOrder, InOrder
  <2>2. entry[t] \in EntryRecord /\ Coherent(mem[t], entry[t]) /\ "killed" \in Terminal
    BY <2>1 DEF TaskInv, Typing, Entries, Terminal
  <2>. HIDE DEF t
  <2>. QED
    BY <1>1, <1>3, <2>1, <2>2, SettleOnItsWay
<1>. QED
  BY <1>2, <1>3 DEF Forced

\* A write that carries the end has the notification prepared, unless it is suppressed.
LEMMA WriteOnItsWay ==
    ASSUME TaskInv, WayInv, NEW t \in Tasks, WriteTask(t)
    PROVE  WayInv'
<1> DEFINE m == entry[t]
           w == Head(m.queue)
           e == [m EXCEPT !.queue = Tail(@)]
           f == IF w.settles THEN Fired(t, e) ELSE e
<1>1. /\ IsLive(t) /\ m.queue # << >> /\ entry' = [entry EXCEPT ![t] = f]
      /\ scheduled' = IF w.settles /\ Fired(t, e).reading
                      THEN scheduled \cup {Key(t, mem[t])} ELSE scheduled
      /\ disk' = disk \/ \E d : disk' = [disk EXCEPT ![t] = d]
      /\ UNCHANGED <<proc, mem, delivered, steers, history>>
  BY DEF WriteTask
<1>2. mem[t] \in Statuses
  BY <1>1 DEF IsLive, Statuses
<1>3. m \in EntryRecord /\ Coherent(mem[t], m)
  BY <1>2 DEF TaskInv, Typing, Entries
<1>4. /\ f.suppressed = m.suppressed /\ (m.fired => f.fired /\ f.reading = m.reading)
      /\ (f.fired <=> m.fired \/ w.settles)
  BY <1>1, <1>3, WriteShape
<1>5. /\ e.fired = m.fired /\ e.suppressed = m.suppressed /\ e.reading = m.reading
      /\ e \in [kind : Kinds, aborted : BOOLEAN, suppressed : BOOLEAN, fired : BOOLEAN,
                ended : BOOLEAN, queue : {Tail(m.queue)}, reading : BOOLEAN]
  BY <1>3 DEF EntryRecord
<1>. HIDE DEF e, w
<1>6. w.settles /\ ~m.fired /\ ~m.suppressed => f.reading
  <2>. SUFFICES ASSUME w.settles, ~m.fired, ~m.suppressed PROVE f.reading
    OBVIOUS
  <2>1. Key(t, mem[t]) \notin scheduled \cup delivered
    BY <1>2 DEF WayInv, SpokenHaveFired, Spoken, Key
  <2>2. Fired(t, e) = [e EXCEPT !.fired = TRUE, !.reading = TRUE]
    BY <1>5, <2>1 DEF Fired
  <2>. QED
    BY <1>5, <2>2
<1>7. w.settles => f.fired
  BY <1>4
<1>. HIDE DEF f
<1>8. entry'[t] = f /\ \A u \in Tasks : u # t => entry'[u] = entry[u]
  BY <1>1 DEF TaskInv, Typing
<1>9. "ghost" \notin Statuses /\ Key(t, mem[t]).task = t
  BY DEF Statuses, Terminal, Key
<1>10. \A u \in Tasks : mem[u] = "ghost" => disk'[u] = disk[u]
  BY <1>1, <1>2, <1>9 DEF TaskInv, Typing
<1>11. SpokenHaveFired'
  <2>. SUFFICES ASSUME NEW u \in Tasks, mem[u] \in Statuses \cup {"new"}, ~entry'[u].fired,
                       NEW key \in Spoken'
                PROVE  key.task # u
    BY <1>1 DEF SpokenHaveFired
  <2>1. ~entry[u].fired
    BY <1>4, <1>8
  <2>2. CASE key \in Spoken
    BY <2>1, <2>2 DEF WayInv, SpokenHaveFired
  <2>3. CASE key \notin Spoken
    BY <1>1, <1>7, <1>8, <1>9, <2>3 DEF Spoken
  <2>. QED
    BY <2>2, <2>3
<1>12. FiredIsOnItsWay'
  <2>. SUFFICES ASSUME NEW u \in Tasks, mem[u] \in Statuses, entry'[u].fired,
                       ~entry'[u].suppressed
                PROVE  entry'[u].reading
                       \/ \E key \in ToSet(history) \cup ToSet(steers) : key.task = u
    BY <1>1 DEF FiredIsOnItsWay
  <2>1. CASE entry[u].fired
    BY <1>4, <1>8, <2>1 DEF WayInv, FiredIsOnItsWay
  <2>2. CASE ~entry[u].fired
    BY <1>4, <1>6, <1>8, <2>2
  <2>. QED
    BY <2>1, <2>2
<1>13. DeliveredIsInContext'
  <2>1. proc # "up" => FALSE
    BY <1>2 DEF TaskInv, Process
  <2>. QED
    BY <1>1, <1>10, <2>1 DEF WayInv, DeliveredIsInContext
<1>. QED
  BY <1>11, <1>12, <1>13, SMTT(30) DEF WayInv

LEMMA NotifyOnItsWay ==
    ASSUME TaskInv, WayInv, NEW t \in Tasks, NotifyTask(t)
    PROVE  WayInv'
<1> DEFINE f == [entry[t] EXCEPT !.reading = FALSE]
           key == Key(t, mem[t])
           one == <<key>>
<1>1. entry[t].reading /\ entry' = [entry EXCEPT ![t] = f]
      /\ UNCHANGED <<proc, mem, disk, scheduled>>
  BY DEF NotifyTask, TaskInv, Typing
<1>2. mem[t] \in Statuses /\ Coherent(mem[t], entry[t]) /\ entry[t] \in EntryRecord
  BY <1>1, NewEntryShape DEF TaskInv, Entries, Typing
<1>3. entry[t].fired /\ ~entry[t].suppressed
  BY <1>1, <1>2 DEF Coherent
<1>4. /\ key \in Notification /\ key.task = t /\ steers \in Seq(Notification)
      /\ \/ steers' = Append(steers, key) /\ history' = history /\ delivered' = delivered
         \/ steers' = steers /\ history' = history \o one /\ delivered' = Heard(history')
  BY <1>2, <1>3 DEF NotifyTask, TaskInv, Typing, Key, Notification, appendToContext
<1>5. f.fired
  BY <1>2, <1>3 DEF EntryRecord
<1>. HIDE DEF f, key
<1>6. one \in Seq(Item) /\ ToSet(one) = {key}
  BY <1>4 DEF Item, ToSet
<1>. HIDE DEF one
<1>7. /\ ToSet(history') \cup ToSet(steers') = ToSet(history) \cup ToSet(steers) \cup {key}
      /\ ToSet(history) \subseteq ToSet(history')
      /\ delivered' = delivered \/ delivered' \subseteq ToSet(history')
  <2>1. CASE steers' = Append(steers, key) /\ history' = history /\ delivered' = delivered
    <3>1. ToSet(steers') = ToSet(steers) \cup {key}
      BY <1>4, <2>1 DEF ToSet
    <3>. QED
      BY <2>1, <3>1
  <2>2. CASE steers' = steers /\ history' = history \o one /\ delivered' = Heard(history')
    <3>1. ToSet(history') = ToSet(history) \cup {key}
      BY <1>6, <2>2, AppendedSet DEF TaskInv
    <3>. QED
      BY <2>2, <3>1, HeardIsThere
  <2>. QED
    BY <1>4, <2>1, <2>2
<1>8. entry'[t] = f /\ \A u \in Tasks : u # t => entry'[u] = entry[u]
  BY <1>1 DEF TaskInv, Typing
<1>9. SpokenHaveFired'
  <2>1. \A k \in Spoken' : k \in Spoken \/ k = key
    BY <1>1, <1>7 DEF Spoken
  <2>. QED
    BY <1>1, <1>3, <1>4, <1>5, <1>8, <2>1 DEF WayInv, SpokenHaveFired
<1>10. FiredIsOnItsWay'
  BY <1>1, <1>4, <1>7, <1>8 DEF WayInv, FiredIsOnItsWay
<1>11. DeliveredIsInContext'
  BY <1>1, <1>7 DEF WayInv, DeliveredIsInContext
<1>. QED
  BY <1>9, <1>10, <1>11, Zenon DEF WayInv

LEMMA TaskStopOnItsWay ==
    ASSUME TaskInv, WayInv, NEW c \in Callers, NEW t \in Tasks, TaskStop(c, t), ~AnswerAtOnce(t)
    PROVE  WayInv'
<1> DEFINE g == [entry[t] EXCEPT !.suppressed = TRUE]
           e == IF entry[t].suppressed THEN entry[t] ELSE Persist(g, mem[t], FALSE)
<1>1. /\ mem[t] = "running" /\ entry' = [entry EXCEPT ![t] = e]
      /\ UNCHANGED <<proc, mem, disk, scheduled, delivered, steers, history>>
  BY DEF TaskStop
<1>2. "running" \in Statuses /\ "running" \notin Terminal
  BY DEF Statuses, Terminal
<1>3. entry[t] \in EntryRecord /\ ~entry[t].fired
  BY <1>1, <1>2 DEF TaskInv, Typing, Entries, Coherent
<1>4. g \in EntryRecord /\ g.fired = entry[t].fired /\ g.reading = entry[t].reading
  BY <1>3 DEF EntryRecord
<1>. HIDE DEF g
<1>5. e.fired = entry[t].fired /\ e.reading = entry[t].reading
  <2>1. FALSE \in BOOLEAN /\ mem[t] \in Statuses
    BY <1>1, <1>2
  <2>. QED
    BY <1>4, <2>1, PersistShape
<1>. HIDE DEF e
<1>6. entry'[t] = e /\ \A u \in Tasks : u # t => entry'[u] = entry[u]
  BY <1>1 DEF TaskInv, Typing
<1>. QED
  BY <1>1, <1>2, <1>3, <1>5, <1>6, AdvanceOnItsWay

LEMMA BeginStopOnItsWay ==
    ASSUME TaskInv, WayInv, NEW c \in Callers, NEW t \in Tasks, mem[t] \in Statuses,
           BeginStop(c, t), UNCHANGED <<proc, mem, disk, scheduled, delivered, steers, history>>
    PROVE  WayInv'
<1>1. CASE UNCHANGED entry
  BY <1>1 DEF WayInv, SpokenHaveFired, FiredIsOnItsWay, DeliveredIsInContext, Spoken
<1>2. CASE entry' = [entry EXCEPT ![t].aborted = TRUE]
  <2>1. entry[t] \in EntryRecord
    BY DEF TaskInv, Typing
  <2>2. /\ entry'[t] = [entry[t] EXCEPT !.aborted = TRUE]
        /\ \A u \in Tasks : u # t => entry'[u] = entry[u]
    BY <1>2 DEF TaskInv, Typing
  <2>3. /\ entry'[t].fired = entry[t].fired /\ entry'[t].reading = entry[t].reading
        /\ entry'[t].suppressed = entry[t].suppressed
    BY <2>1, <2>2 DEF EntryRecord
  <2>. QED
    BY <2>2, <2>3, AdvanceOnItsWay
<1>. QED
  BY <1>1, <1>2 DEF BeginStop

LEMMA FlushOnItsWay ==
    ASSUME TaskInv, WayInv, flushSteerBuffer
    PROVE  WayInv'
<1>1. /\ history' = history \o steers /\ steers' = << >> /\ delivered' = Heard(history')
      /\ UNCHANGED <<proc, mem, entry, disk, scheduled>>
  BY DEF flushSteerBuffer, appendToContext
<1>2. steers \in Seq(Item)
  BY NotificationsAreItems DEF TaskInv, Typing
<1>. QED
  BY <1>1, <1>2, AppendOnItsWay

\* An exchange of tool calls and results is no notification.
LEMMA ExchangeOnItsWay ==
    ASSUME TaskInv, WayInv, ToolCall \/ ToolResults
    PROVE  WayInv'
<1>1. PICK x \in {Call, Result} :
        /\ history' = history \o <<x>> /\ delivered' = Heard(history')
        /\ UNCHANGED <<proc, mem, entry, disk, scheduled, steers>>
  BY DEF ToolCall, ToolResults, appendToContext
<1>2. x \in Item /\ x.task \notin Tasks
  BY BackgroundAssumption DEF Item, Call, Result
<1> DEFINE one == <<x>>
<1>3. one \in Seq(Item) /\ ToSet(one) = {x}
  BY <1>2 DEF ToSet
<1>4. history' = history \o one
  BY <1>1
<1>. HIDE DEF one
<1>5. \A key \in ToSet(one) : key \in ToSet(steers) \/ key.task \notin Tasks
  BY <1>2, <1>3
<1>6. /\ delivered' = Heard(history')
      /\ steers' = steers \/ (steers' = << >> /\ one = steers)
      /\ UNCHANGED <<proc, mem, entry, disk, scheduled>>
  BY <1>1
<1>. QED
  BY <1>3, <1>4, <1>5, <1>6, AppendOnItsWay

LEMMA CrashOnItsWay ==
    ASSUME TaskInv, WayInv, Crash
    PROVE  WayInv'
<1>1. /\ proc' = "down" /\ entry' = [t \in Tasks |-> NewEntry]
      /\ mem' = [t \in Tasks |-> IF disk[t] # None THEN "ghost"
                                 ELSE IF mem[t] = "new" THEN "new" ELSE "forgotten"]
      /\ scheduled' = {} /\ delivered' = {} /\ steers' = << >>
  BY DEF Crash
<1>2. PICK n \in durable..Len(history) : history' = SubSeq(history, 1, n)
  BY DEF Crash
<1>3. history \in Seq(Item) /\ durable \in Nat /\ Len(history) \in Nat
  <2>1. history \in Seq(Item) /\ durable \in 0..Len(history)
    BY DEF TaskInv, Typing
  <2>. QED
    BY <2>1
<1>4. ToSet(history') \subseteq ToSet(history)
  <2>1. n \in Nat /\ n <= Len(history)
    BY <1>2, <1>3
  <2>2. history' \in Seq(Item) /\ Len(history') = n
        /\ \A i \in 1..n : i \in 1..Len(history) /\ history'[i] = history[i]
    BY <1>2, <1>3, <2>1
  <2>. QED
    BY <1>3, <2>2 DEF ToSet
<1>5. ToSet(steers') = {}
  BY <1>1 DEF ToSet
<1>6. "new" \notin Statuses /\ "ghost" \notin Statuses /\ "forgotten" \notin Statuses
  BY DEF Statuses, Terminal
<1>7. \A t \in Tasks : mem'[t] \notin Statuses /\ (mem'[t] = "new" => mem[t] = "new")
  BY <1>1, <1>6
<1>8. Spoken' \subseteq Spoken
  BY <1>1, <1>4, <1>5 DEF Spoken
<1>9. SpokenHaveFired'
  <2>. SUFFICES ASSUME NEW t \in Tasks, mem'[t] \in Statuses \cup {"new"}, NEW key \in Spoken
                PROVE  key.task # t
    BY <1>8 DEF SpokenHaveFired
  <2>1. mem[t] = "new"
    BY <1>7
  <2>2. ~entry[t].fired
    BY <1>6, <2>1, NewEntryShape DEF TaskInv, Entries
  <2>. QED
    BY <2>1, <2>2 DEF WayInv, SpokenHaveFired
<1>10. FiredIsOnItsWay' /\ DeliveredIsInContext'
  BY <1>1, <1>7 DEF FiredIsOnItsWay, DeliveredIsInContext
<1>. QED
  BY <1>9, <1>10 DEF WayInv

\* A restart takes the keys of the log for delivered, and goes on when every end that the
\* files hold is among them.
LEMMA ResumeOnItsWay ==
    ASSUME TaskInv, WayInv, Resume \/ Resumed
    PROVE  WayInv'
<1>1. UNCHANGED <<mem, entry, disk, scheduled, steers, history>>
  BY DEF Resume, Resumed
<1>2. \/ proc = "down" /\ delivered' = Heard(history) /\ proc' = "loading"
      \/ /\ proc = "loading" /\ delivered' = delivered /\ proc' = "up"
         /\ \A t \in Tasks : ~ToRestore(t)
  <2>1. CASE Resume
    BY <2>1 DEF Resume
  <2>2. CASE Resumed
    BY <2>2 DEF Resumed
  <2>. QED
    BY <2>1, <2>2
<1>3. delivered' = delivered \/ delivered' \subseteq ToSet(history)
  BY <1>2, HeardIsThere
<1>4. SpokenHaveFired' /\ FiredIsOnItsWay'
  BY <1>1, <1>3 DEF WayInv, SpokenHaveFired, FiredIsOnItsWay, Spoken
<1>5. ASSUME NEW t \in Tasks, proc' = "up", mem[t] = "ghost", ~disk[t].suppressed
      PROVE  \E key \in ToSet(history) : key.task = t
  <2>1. ~isSuppressed(t) /\ ~ToRestore(t) /\ proc = "loading"
    BY <1>2, <1>5 DEF isSuppressed, IsLive, Terminal
  <2>2. Key(t, disk[t].status) \in ToSet(history)
    BY <1>5, <2>1 DEF ToRestore, WayInv, DeliveredIsInContext
  <2>. QED
    BY <2>2 DEF Key
<1>6. DeliveredIsInContext'
  BY <1>1, <1>2, <1>3, <1>5 DEF WayInv, DeliveredIsInContext
<1>. QED
  BY <1>4, <1>6 DEF WayInv

LEMMA MarkLostOnItsWay ==
    ASSUME TaskInv, WayInv, NEW t \in Tasks, MarkLost(t)
    PROVE  WayInv'
<1>1. proc = "loading" /\ UNCHANGED <<proc, mem, entry, scheduled, delivered, steers, history>>
  BY DEF MarkLost
<1>. QED
  BY <1>1 DEF WayInv, SpokenHaveFired, FiredIsOnItsWay, DeliveredIsInContext, Spoken

LEMMA RestoreOnItsWay ==
    ASSUME TaskInv, WayInv, NEW t \in Tasks, Restore(t)
    PROVE  WayInv'
<1> DEFINE key == Key(t, disk[t].status)
           one == <<key>>
<1>1. /\ proc = "loading" /\ mem[t] = "ghost"
      /\ scheduled' = scheduled \cup {key} /\ delivered' = Heard(history')
      /\ history' = history \o one
      /\ UNCHANGED <<proc, mem, entry, disk, steers>>
  BY DEF Restore, ToRestore, appendToContext
<1>2. key.task = t /\ key \in Item
  <2>1. disk[t] \in File
    BY <1>1 DEF TaskInv, Typing, Recorded
  <2>. QED
    BY <2>1 DEF Key, Item, Notification, File, Statuses
<1>. HIDE DEF key
<1>3. one \in Seq(Item) /\ ToSet(one) = {key}
  BY <1>2 DEF ToSet
<1>. HIDE DEF one
<1>4. ToSet(history') = ToSet(history) \cup {key} /\ delivered' \subseteq ToSet(history')
  BY <1>1, <1>3, AppendedSet, HeardIsThere DEF TaskInv
<1>5. "ghost" \notin Statuses \cup {"new"}
  BY DEF Statuses, Terminal
<1>6. SpokenHaveFired'
  BY <1>1, <1>2, <1>4, <1>5 DEF WayInv, SpokenHaveFired, Spoken
<1>7. FiredIsOnItsWay' /\ DeliveredIsInContext'
  BY <1>1, <1>4 DEF WayInv, FiredIsOnItsWay, DeliveredIsInContext
<1>. QED
  BY <1>6, <1>7 DEF WayInv

LEMMA WayKept == TaskInv /\ WayInv /\ [Next]_vars => WayInv'
<1>. SUFFICES ASSUME TaskInv, WayInv, [Next]_vars
              PROVE  WayInv'
  OBVIOUS
<1>1. ASSUME UNCHANGED <<proc, mem, entry, disk, scheduled, delivered, steers, history>>
      PROVE  WayInv'
  BY <1>1 DEF WayInv, SpokenHaveFired, FiredIsOnItsWay, DeliveredIsInContext, Spoken
<1>2. CASE UNCHANGED vars
  BY <1>1, <1>2 DEF vars
<1>3. ASSUME NEW t \in Tasks, \/ registerTask(t) \/ TaskEnds(t) \/ WriteTask(t)
                              \/ NotifyTask(t) \/ TaskOutput(t) \/ MarkLost(t) \/ Restore(t)
      PROVE  WayInv'
  <2>1. CASE TaskOutput(t)
    BY <1>1, <2>1 DEF TaskOutput
  <2>. QED
    BY <1>3, <2>1, RegisterOnItsWay, TaskEndsOnItsWay, WriteOnItsWay, NotifyOnItsWay,
       MarkLostOnItsWay, RestoreOnItsWay
<1>4. ASSUME NEW c \in Callers, NEW t \in Tasks, stop(c, t) \/ TaskStop(c, t) \/ wait(c, t)
      PROVE  WayInv'
  <2>1. CASE stop(c, t)
    <3>1. mem[t] \in Statuses
      BY <2>1 DEF stop, IsLive, Statuses
    <3>. QED
      BY <2>1, <3>1, BeginStopOnItsWay DEF stop
  <2>2. CASE wait(c, t)
    BY <1>1, <2>2 DEF wait
  <2>3. CASE TaskStop(c, t)
    <3>1. CASE AnswerAtOnce(t)
      <4>1. mem[t] # "running"
        BY <3>1 DEF AnswerAtOnce, Status, Terminal
      <4>2. UNCHANGED <<proc, mem, entry, disk, scheduled, delivered, steers, history>>
        BY <2>3, <4>1 DEF TaskStop
      <4>. QED
        BY <1>1, <4>2
    <3>2. CASE ~AnswerAtOnce(t)
      BY <2>3, <3>2, TaskStopOnItsWay
    <3>. QED
      BY <3>1, <3>2
  <2>. QED
    BY <1>4, <2>1, <2>2, <2>3
<1>5. ASSUME NEW c \in Callers, \/ Suppressed(c) \/ GraceOver(c) \/ Forced(c)
                                \/ WaitTimesOut(c) \/ Returns(c)
      PROVE  WayInv'
  <2>1. CASE Suppressed(c)
    <3>1. calls[c].task \in Tasks /\ mem[calls[c].task] \in Statuses
      BY <2>1 DEF Suppressed, TaskInv, CallsInOrder, InOrder
    <3>. QED
      BY <2>1, <3>1, BeginStopOnItsWay DEF Suppressed
  <2>2. CASE GraceOver(c) \/ WaitTimesOut(c) \/ Returns(c)
    BY <1>1, <2>2 DEF GraceOver, WaitTimesOut, Returns
  <2>. QED
    BY <1>5, <2>1, <2>2, ForcedOnItsWay
<1>6. CASE flushSteerBuffer \/ ToolCall \/ ToolResults \/ Crash \/ Resume \/ Resumed
  BY <1>6, FlushOnItsWay, ExchangeOnItsWay, CrashOnItsWay, ResumeOnItsWay
<1>. QED
  BY <1>2, <1>3, <1>4, <1>5, <1>6 DEF Next

LEMMA WayInvariant == Spec => []WayInv
<1>1. Init => WayInv
  BY NewEntryShape DEF Init, WayInv, SpokenHaveFired, FiredIsOnItsWay, DeliveredIsInContext,
                       Spoken, ToSet, Statuses, Terminal
<1>. QED
  BY <1>1, WayKept, InductiveInvariant, PTL DEF Spec

\* The end of a task is never forgotten on its way to the context, in the process it ended
\* in or in one that resumes.
THEOREM EndsAreNotForgotten == Spec => []EndOnItsWay
<1>1. TaskInv /\ WayInv => EndOnItsWay
  <2>. SUFFICES ASSUME TaskInv, WayInv PROVE EndOnItsWay
    OBVIOUS
  <2>1. /\ history \in Seq(Item) /\ steers \in Seq(Notification)
    BY DEF TaskInv, Typing
  <2>2. ASSUME NEW t \in Tasks
        PROVE  /\ (\E key \in ToSet(history) : key.task = t) => Reported(t)
               /\ (\E key \in ToSet(steers) : key.task = t) => Steered(t)
    BY <2>1 DEF ToSet, Reported, Steered
  <2>3. ASSUME NEW t \in Tasks, mem[t] \in Terminal, ~isSuppressed(t)
        PROVE  \/ \E i \in DOMAIN entry[t].queue : entry[t].queue[i].settles
               \/ entry[t].reading
               \/ Steered(t)
               \/ Reported(t)
    <3>1. mem[t] \in Statuses /\ ~entry[t].suppressed
      BY <2>3 DEF isSuppressed, IsLive, Statuses
    <3>2. CASE entry[t].fired
      BY <2>2, <3>1, <3>2 DEF WayInv, FiredIsOnItsWay
    <3>3. CASE ~entry[t].fired
      BY <2>3, <3>1, <3>3 DEF TaskInv, Entries, Coherent
    <3>. QED
      BY <3>2, <3>3
  <2>4. ASSUME NEW t \in Tasks, proc = "up", mem[t] = "ghost", ~isSuppressed(t)
        PROVE  Reported(t)
    BY <2>2, <2>4 DEF isSuppressed, WayInv, DeliveredIsInContext
  <2>. QED
    BY <2>3, <2>4 DEF EndOnItsWay
<1>. QED
  BY <1>1, WayInvariant, InductiveInvariant, PTL

\* Statuses, the fields of the tasks and the places of the calls stay among the values the
\* code can hold; a notification counted as delivered is one the context has.
THEOREM TypeCorrect == Spec => []TypeOK
<1>1. TaskInv /\ WayInv => TypeOK
  <2>. SUFFICES ASSUME TaskInv, WayInv PROVE TypeOK
    OBVIOUS
  <2>1. ASSUME NEW t \in Tasks
        PROVE  DOMAIN entry[t] = DOMAIN NewEntry /\ (mem[t] = "ghost" => disk[t] # None)
    <3>1. entry[t] \in EntryRecord /\ NewEntry \in EntryRecord
      BY NewEntryShape DEF TaskInv, Typing
    <3>2. \A e \in EntryRecord :
              DOMAIN e = {"kind", "aborted", "suppressed", "fired", "ended", "queue", "reading"}
      BY DEF EntryRecord
    <3>. QED
      BY <3>1, <3>2 DEF TaskInv, Recorded
  <2>2. ASSUME NEW c \in Callers
        PROVE  calls[c].pc \in {"idle", "suppress", "grace", "force", "flush", "wait"}
    BY DEF TaskInv, Typing, CallRecord
  <2>3. mem \in [Tasks -> Terminal \cup {"new", "running", "ghost", "forgotten"}]
    BY DEF TaskInv, Typing, Statuses
  <2>. QED
    BY <2>1, <2>2, <2>3 DEF TypeOK, TaskInv, Typing, WayInv, DeliveredIsInContext
<1>. QED
  BY <1>1, WayInvariant, InductiveInvariant, PTL
=============================================================================
