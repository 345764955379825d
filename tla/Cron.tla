-------------------------------- MODULE Cron --------------------------------
(***************************************************************************)
(* The cron jobs of an agent: packages/agent-core/src/agent/cron/manager.ts*)
(* (CronManager), tools/cron/scheduler.ts (createCronScheduler),           *)
(* tools/cron/session-store.ts (SessionCronStore), tools/cron/jitter.ts,   *)
(* and the files under <session>/cron written by utils/per-id-json-store.  *)
(*                                                                         *)
(* The scheduler polls; a tick runs to its end without an await and        *)
(* handles every job.  Changes of the in-memory store queue writes per job *)
(* that nobody waits for.  A process may crash with writes in the queue,   *)
(* or be stopped, which waits for those queued before.  The next process   *)
(* loads the files.  The clock jumps forward (sleep) and back.             *)
(*                                                                         *)
(* A cron expression is the set of its occurrences; jitter delays those of *)
(* a recurring job by a fixed offset and pulls a one-shot forward by it.   *)
(***************************************************************************)
EXTENDS Naturals, Sequences, FiniteSets, FiniteSetsExt

CONSTANTS
    Tasks,            \* job ids; an id is used once
    Recurring,        \* those with recurring # false
    Occurrences,      \* the ideal fire times of each job's expression
    Offset,           \* each job's jitter
    MaxCoalesce,      \* MAX_COALESCE_ITERATIONS
    StaleAfter,       \* STALE_THRESHOLD_MS
    MaxTime,          \* bound: the clock
    MaxCreated,       \* bound: the clock when a job is created
    MaxTurns,         \* bound: turns the user starts
    MaxFaults,        \* bound: crashes, failed writes, fires that throw, set-backs
    None

Times == 0..MaxTime
Jobs == [createdAt : Times, lastFiredAt : Times \union {None}]

ASSUME CronAssumption ==
    /\ Recurring \subseteq Tasks
    /\ Occurrences \in [Tasks -> SUBSET Times]
    /\ Offset \in [Tasks -> Nat]
    /\ MaxCoalesce \in Nat \ {0} /\ MaxTime \in Nat
    /\ None \notin Nat /\ None \notin Jobs
    \* an offset is a fraction of the period
    /\ \A t \in Recurring : \A o, p \in Occurrences[t] : o < p => o + Offset[t] < p

VARIABLES
    now,        \* clocks.wallNow()
    phase,      \* of the process: "up", "stopping", "down"
    busy,       \* turn.hasActiveTurn
    store,      \* SessionCronStore: the job, or None
    disk,       \* the job's file, or None
    queue,      \* persistQueues: what each job's chain has still to write
    awaited,    \* flushPersist's snapshot: how much of each chain it awaits
    lastSeen,   \* the scheduler's lastSeenAt, or None
    seeded,     \* its seededFromDisk
    turns, faults,  \* bounds
    \* history, read by the properties only:
    counted,    \* how often each occurrence was part of a coalescedCount
    removed,    \* jobs removed by delete, delivery of a one-shot, or age
    excused     \* jobs with a write lost or failed, or whose cursor was not believed

mem  == <<phase, busy, store, lastSeen, seeded>>
hist == <<counted, removed, excused>>
vars == <<now, mem, disk, queue, awaited, turns, faults, hist>>

TypeOK ==
    /\ now \in Times /\ phase \in {"up", "stopping", "down"} /\ busy \in BOOLEAN
    /\ store \in [Tasks -> Jobs \union {None}] /\ disk \in [Tasks -> Jobs \union {None}]
    /\ queue \in [Tasks -> Seq(Jobs \union {None})] /\ awaited \in [Tasks -> Nat]
    /\ lastSeen \in [Tasks -> Times \union {None}] /\ seeded \subseteq Tasks
    /\ counted \in [Tasks -> [Times -> Nat]]
    /\ removed \subseteq Tasks /\ excused \subseteq Tasks

-----------------------------------------------------------------------------
(* The schedule                                                            *)

(* jitteredNextCronRunMs and oneShotJitteredNextCronRunMs: never earlier    *)
(* than the job was created.                                                *)
Jittered(t, o) ==
    IF t \in Recurring THEN o + Offset[t]
    ELSE IF o >= Offset[t] /\ o - Offset[t] >= store[t].createdAt THEN o - Offset[t]
    ELSE o

(* A cursor of the file that lies in the future is not believed. *)
Believed(t) == store[t].lastFiredAt # None /\ store[t].lastFiredAt <= now

(* A bug: the cursor of the file is not read after a restart. *)
Seen_Forgets(t) == lastSeen[t]

(* lastSeenAt as a tick sees it: seeded from the file the first time. *)
Seen(t) ==
    IF lastSeen[t] # None \/ t \in seeded \/ ~Believed(t) THEN lastSeen[t]
    ELSE store[t].lastFiredAt

BaseFrom(t) ==
    IF Seen(t) # None /\ Seen(t) > store[t].createdAt THEN Seen(t) ELSE store[t].createdAt

After(t, base) == {o \in Occurrences[t] : o > base}

(* A bug: the occurrences counted are those whose ideal time has passed. *)
countCoalesced_Ideal(t) ==
    LET rest == After(t, BaseFrom(t))
    IN  IF rest = {} \/ Jittered(t, Min(rest)) > now THEN {}
        ELSE IF t \in Recurring
             THEN {o \in rest : o <= now /\ Cardinality({p \in rest : p < o}) < MaxCoalesce}
             ELSE {Min(rest)}

(* What a fire covers: the next occurrence, and for a recurring job those   *)
(* after it that are due at their jittered time, up to the cap.             *)
countCoalesced(t) ==
    LET rest == After(t, BaseFrom(t))
        due  == {o \in rest : Jittered(t, o) <= now}
    IN  IF rest = {} \/ Jittered(t, Min(rest)) > now THEN {}
        ELSE IF t \in Recurring
             THEN {o \in due : Cardinality({p \in due : p < o}) < MaxCoalesce}
             ELSE {Min(rest)}

Due(t) == phase = "up" /\ store[t] # None /\ countCoalesced(t) # {}

isStale(t) == t \in Recurring /\ now >= store[t].createdAt + StaleAfter

-----------------------------------------------------------------------------
(* The manager                                                             *)

Late == IF phase = "up" THEN {} ELSE Tasks

(* addTask, by the CronCreate tool of a running turn. *)
addTask(t) ==
    /\ phase # "down" /\ busy /\ now <= MaxCreated
    /\ store[t] = None /\ disk[t] = None /\ queue[t] = <<>> /\ t \notin removed \union excused
    /\ LET job == [createdAt |-> now, lastFiredAt |-> None]
       IN  /\ store' = [store EXCEPT ![t] = job]
           /\ queue' = [queue EXCEPT ![t] = Append(@, job)]
    /\ excused' = excused \union ({t} \intersect Late)
    /\ UNCHANGED <<now, phase, busy, disk, awaited, lastSeen, seeded, turns, faults, counted, removed>>

(* removeTasks, by CronDelete; None in a queue is a removal of the file. *)
removeTasks(t) ==
    /\ phase # "down" /\ busy
    /\ store[t] # None
    /\ store' = [store EXCEPT ![t] = None]
    /\ queue' = [queue EXCEPT ![t] = Append(@, None)]
    /\ removed' = removed \union {t}
    /\ excused' = excused \union ({t} \intersect Late)
    /\ UNCHANGED <<now, phase, busy, disk, awaited, lastSeen, seeded, turns, faults, counted>>

(* A bug: the cursor of a job removed by its last delivery is written too. *)
advanceCursor_Blind(t, last) ==
    IF t \notin Recurring THEN <<None>>
    ELSE LET job == [store[t] EXCEPT !.lastFiredAt = last]
         IN  IF isStale(t) THEN <<None, job>> ELSE <<job>>

(* What the delivery of t leaves to write: a one-shot and a stale job are   *)
(* gone, and advanceCursor stamps only a job that is still there.           *)
advanceCursor(t, last) ==
    IF t \notin Recurring \/ isStale(t) THEN <<None>>
    ELSE <<[store[t] EXCEPT !.lastFiredAt = last]>>

(* The gate of a tick: no turn runs. *)
isIdle == ~busy

(* A bug: a job that is not due ends the tick. *)
DueJobs_All(covered) ==
    IF \E t \in DOMAIN covered : covered[t] = {} THEN {} ELSE DOMAIN covered

(* Every job is looked at, whatever is found of its neighbours. *)
DueJobs(covered) == {t \in DOMAIN covered : covered[t] # {}}

(* tick: each job that is due is fired, which steers the turn; failed are   *)
(* the jobs whose onFire threw: they stay as they were.                     *)
tick(failed) ==
    /\ phase = "up" /\ isIdle
    /\ UNCHANGED <<now, phase, disk, awaited, turns>>
    /\ LET present == {t \in Tasks : store[t] # None}
           covered == [t \in present |-> countCoalesced(t)]
           due     == DueJobs(covered)
           fired   == due \ failed
           writes  == [t \in fired |-> advanceCursor(t, Max(covered[t]))]
       IN  /\ failed \subseteq due
           /\ due # {} \/ ~(present \subseteq seeded)
           /\ seeded' = (seeded \union present) \ (fired \ Recurring)
           /\ lastSeen' = [t \in Tasks |->
                  IF t \in fired THEN IF t \in Recurring THEN Max(covered[t]) ELSE None
                  ELSE IF t \in present THEN Seen(t) ELSE lastSeen[t]]
           /\ store' = [t \in Tasks |-> IF t \in fired THEN Head(writes[t]) ELSE store[t]]
           /\ queue' = [t \in Tasks |-> IF t \in fired THEN queue[t] \o writes[t] ELSE queue[t]]
           /\ busy' = (fired # {})
           /\ counted' = [t \in Tasks |-> IF t \notin fired THEN counted[t] ELSE
                  [o \in Times |-> IF o \in covered[t] THEN counted[t][o] + 1 ELSE counted[t][o]]]
           /\ removed' = removed \union {t \in fired : Head(writes[t]) = None}
           /\ excused' = excused \union {t \in present \ seeded :
                  store[t].lastFiredAt # None /\ ~Believed(t) /\ lastSeen[t] = None}
           /\ faults' = faults + Cardinality(failed)
    /\ faults' <= MaxFaults

(* persistEnqueue: the chain of a job writes one thing after the other; an  *)
(* error is logged and forgotten.                                           *)
Persist(t, ok) ==
    /\ phase # "down" /\ queue[t] # <<>>
    /\ disk' = IF ok THEN [disk EXCEPT ![t] = Head(queue[t])] ELSE disk
    /\ excused' = IF ok THEN excused ELSE excused \union {t}
    /\ faults' = IF ok THEN faults ELSE faults + 1
    /\ faults' <= MaxFaults
    /\ queue' = [queue EXCEPT ![t] = Tail(@)]
    /\ awaited' = [awaited EXCEPT ![t] = IF @ = 0 THEN 0 ELSE @ - 1]
    /\ UNCHANGED <<now, mem, turns, counted, removed>>

(* stop: the timer is cleared, and what is queued now is awaited. *)
stop ==
    /\ phase = "up"
    /\ phase' = "stopping"
    /\ lastSeen' = [t \in Tasks |-> None]
    /\ seeded' = {}
    /\ awaited' = [t \in Tasks |-> Len(queue[t])]
    /\ UNCHANGED <<now, busy, store, disk, queue, turns, faults, hist>>

Gone ==
    /\ phase' = "down" /\ busy' = FALSE
    /\ store' = [t \in Tasks |-> None]
    /\ queue' = [t \in Tasks |-> <<>>]
    /\ awaited' = [t \in Tasks |-> 0]
    /\ lastSeen' = [t \in Tasks |-> None] /\ seeded' = {}
    /\ UNCHANGED <<now, disk, turns, counted, removed>>

(* flushPersist has awaited its snapshot and the process ends: what was     *)
(* queued since is lost.                                                    *)
flushPersist ==
    /\ phase = "stopping"
    /\ \A t \in Tasks : awaited[t] = 0
    /\ Gone
    /\ UNCHANGED <<faults, excused>>

Crash ==
    /\ phase # "down" /\ faults < MaxFaults
    /\ Gone
    /\ faults' = faults + 1
    /\ excused' = excused \union {t \in Tasks : queue[t] # <<>>}

(* The next process of the session: the store is what the files say. *)
loadFromDisk ==
    /\ phase = "down"
    /\ phase' = "up" /\ store' = disk
    /\ UNCHANGED <<now, busy, disk, queue, awaited, lastSeen, seeded, turns, faults, hist>>

(* The world around: turns, and the clock; a sleep is many steps of it.     *)
StartTurn ==
    /\ phase = "up" /\ ~busy /\ turns < MaxTurns
    /\ busy' = TRUE /\ turns' = turns + 1
    /\ UNCHANGED <<now, phase, store, disk, queue, awaited, lastSeen, seeded, faults, hist>>

EndTurn ==
    /\ busy
    /\ busy' = FALSE
    /\ UNCHANGED <<now, phase, store, disk, queue, awaited, lastSeen, seeded, turns, faults, hist>>

Clock ==
    /\ \/ now < MaxTime /\ now' = now + 1 /\ faults' = faults
       \/ now' \in 0..(now - 1) /\ faults < MaxFaults /\ faults' = faults + 1
    /\ UNCHANGED <<mem, disk, queue, awaited, turns, hist>>

Init ==
    /\ now = 0 /\ phase = "up" /\ busy = FALSE
    /\ store = [t \in Tasks |-> None] /\ disk = store
    /\ queue = [t \in Tasks |-> <<>>] /\ awaited = [t \in Tasks |-> 0]
    /\ lastSeen = [t \in Tasks |-> None] /\ seeded = {}
    /\ turns = 0 /\ faults = 0
    /\ counted = [t \in Tasks |-> [o \in Times |-> 0]]
    /\ removed = {} /\ excused = {}

Next ==
    \/ \E failed \in SUBSET Tasks : tick(failed)
    \/ \E t \in Tasks : addTask(t) \/ removeTasks(t) \/ Persist(t, TRUE) \/ Persist(t, FALSE)
    \/ stop \/ flushPersist \/ Crash \/ loadFromDisk
    \/ StartTurn \/ EndTurn \/ Clock

(* The poll comes again and again and turns end.  A user who never stops    *)
(* typing may keep every poll from finding the agent idle: MaxTurns is what *)
(* makes the weak fairness of tick enough.                                  *)
Fairness == WF_vars(tick({})) /\ WF_vars(EndTurn)

Spec == Init /\ [][Next]_vars /\ Fairness

-----------------------------------------------------------------------------
(* Properties                                                              *)

(* An occurrence is part of one coalescedCount at most, in one process and  *)
(* across restarts, unless a write of the job was lost or failed or the     *)
(* clock was set back behind its cursor.                                    *)
CountedOnce == \A t \in Tasks \ excused, o \in Times : counted[t][o] <= 1

(* A fire covers only occurrences that are due at their jittered time, and  *)
(* with each one all those before it since the job was created: none is     *)
(* ever passed over, whatever was slept through, coalesced, capped, lost in *)
(* a crash or seen under another clock.                                     *)
FiresInOrder ==
    [][\A t \in Tasks : \A o \in Times : counted'[t][o] > counted[t][o] =>
          /\ Jittered(t, o) <= now
          /\ \A p \in Occurrences[t] :
                (store[t].createdAt < p /\ p < o) => counted'[t][p] > 0]_vars

(* A job that was deleted, delivered once for all or dropped for its age    *)
(* never comes back, in this process or the next, unless its removal was    *)
(* lost: its file is gone when its chain has run.                           *)
GoneStaysGone ==
    \A t \in removed \ excused :
        store[t] = None /\ (queue[t] = <<>> => disk[t] = None)

(* A job that is due is delivered, or removed, or the process ends or the   *)
(* clock is set back, once the user leaves the agent idle.                  *)
DueFires == \A t \in Tasks : Due(t) ~> ~Due(t)
=============================================================================
