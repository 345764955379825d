------------------------------ MODULE RecordsLog ------------------------------
(***************************************************************************)
(* The record log of an agent, wire.jsonl: AgentRecords                    *)
(* (packages/agent-core/src/agent/records/index.ts) on top of              *)
(* FileSystemAgentRecordPersistence (records/persistence.ts).  Records are *)
(* queued in memory and drained to the file in batches by one asynchronous *)
(* writer; a process may die, and any step of the writer may fail, at any  *)
(* point; the next process replays the file, and rewrites it when an older *)
(* version of the program wrote it.                                        *)
(*                                                                         *)
(* A file is the records of its complete lines, and what stands after the  *)
(* last newline.  Write and sync are one step during which a crash or a    *)
(* failure leaves any prefix of the bytes.                                 *)
(***************************************************************************)
EXTENDS Naturals, Sequences, SequencesExt

CONSTANTS
    MaxRecords,   \* bound: records the agent logs, in all its processes
    MaxCrashes,   \* bound: processes that die
    None, Torn, Corrupt

AnyRecord == [id : 0..MaxRecords, version : {"old", "new"}]

ASSUME RecordsAssumption ==
    /\ MaxRecords \in Nat \ {0} /\ MaxCrashes \in Nat
    /\ None # Torn /\ None # Corrupt /\ Torn # Corrupt /\ None \notin Nat
    /\ {None, Torn, Corrupt} \cap AnyRecord = {}

VARIABLES
    file,      \* [lines, tail] of wire.jsonl
    proc,      \* down; migrating or stamping (replay awaits a flush); up; failed
    store,     \* the fields of FileSystemAgentRecordPersistence and of its drain
    metadataInitialized,
    flush,     \* the call of flush that is awaited: the length of the log at its start
    log,       \* the records this process has replayed or appended, in order
    promised,  \* history: how many of them the last returned flush covers
    logged, crashes

vars == <<file, proc, store, metadataInitialized, flush, log, promised, logged, crashes>>

\* A record: 0 is a metadata record, and the wire version it is written in.
Record(id, version) == [id |-> id, version |-> version]
Metadata == Record(0, "new")
IsMetadata(r) == r.id = 0

Ids(records) == [i \in DOMAIN records |-> records[i].id]

NewStore ==
    [pending |-> << >>, shouldClear |-> FALSE, error |-> FALSE,
     pc |-> "idle", batch |-> << >>, clear |-> FALSE]

OldLog == <<Record(0, "old"), Record(1, "old")>>

Init ==
    /\ file \in [lines : {<< >>, OldLog}, tail : {None}]
    /\ proc = "down" /\ store = NewStore /\ metadataInitialized = FALSE
    /\ flush = None /\ log = file.lines /\ promised = 0
    /\ logged = 1 /\ crashes = 0

-----------------------------------------------------------------------------
(* The file *)

\* The content is appended to whatever stands after the last newline.
Extend(f, records) ==
    IF records = << >> THEN f
    ELSE [lines |-> f.lines \o (IF f.tail = None THEN records
                                ELSE <<Corrupt>> \o Tail(records)),
          tail |-> None]

\* What may be left of a write that is cut short: some complete lines, and of the
\* next one nothing, a part, or all but its newline; a part that follows a torn
\* line spoils it.
CutShort(f, records) ==
    UNION {LET g == Extend(f, SubSeq(records, 1, k))
               tails == IF k = Len(records) THEN {g.tail}
                        ELSE IF g.tail = None THEN {None, Torn, records[k + 1]}
                        ELSE {g.tail, Corrupt}
           IN  {[g EXCEPT !.tail = t] : t \in tails}
           : k \in 0..Len(records)}

LinesParse(f) == \A i \in DOMAIN f.lines : f.lines[i] # Corrupt

\* The records of a file, up to a corrupt line.
Readable(f) ==
    LET bad == {i \in DOMAIN f.lines : f.lines[i] = Corrupt}
    IN  IF bad # {} THEN SubSeq(f.lines, 1, (CHOOSE i \in bad : \A j \in bad : i <= j) - 1)
        ELSE IF f.tail \in {None, Torn, Corrupt} THEN f.lines
        ELSE Append(f.lines, f.tail)

-----------------------------------------------------------------------------
(* FileSystemAgentRecordPersistence, in memory *)

More(s) == s.shouldClear \/ s.pending # << >>

\* The synchronous part of drainBatch.
Take(s) ==
    [s EXCEPT !.pc = "open", !.batch = s.pending, !.clear = s.shouldClear,
              !.pending = << >>, !.shouldClear = FALSE]

EnsureFlush(s) == IF s.pc = "idle" THEN Take(s) ELSE s

\* Mutant: the newest record is queued first.
AppendTo_InFront(s, record) ==
    EnsureFlush([s EXCEPT !.pending = <<record>> \o @])

AppendTo(s, record) == EnsureFlush([s EXCEPT !.pending = Append(@, record)])

Rewrite(s, records) ==
    EnsureFlush([s EXCEPT !.shouldClear = TRUE, !.pending = records])

\* Mutant: flush does not wait for the batch that is being written.
Drained_QueueOnly(s) == ~s.error /\ ~More(s)

\* flush returns.
Drained(s) == ~s.error /\ s.pc = "idle" /\ ~More(s)

-----------------------------------------------------------------------------
(* The writer *)

\* mkdir and open: a rewrite truncates the file.
Open ==
    /\ store.pc = "open"
    /\ file' = IF store.clear THEN [lines |-> << >>, tail |-> None] ELSE file
    /\ promised' = IF store.clear THEN 0 ELSE promised
    /\ store' = [store EXCEPT !.pc = "write"]
    /\ UNCHANGED <<proc, metadataInitialized, flush, log, logged, crashes>>

WriteAndSync ==
    /\ store.pc = "write"
    /\ file' = Extend(file, store.batch)
    /\ store' = [store EXCEPT !.pc = "close"]
    /\ UNCHANGED <<proc, metadataInitialized, flush, log, promised, logged, crashes>>

\* The directory is synced and drainPendingRecords looks for more.
EndBatch ==
    /\ store.pc = "close"
    /\ store' = IF More(store) THEN Take(store)
                ELSE [store EXCEPT !.pc = "drained", !.batch = << >>, !.clear = FALSE]
    /\ UNCHANGED <<file, proc, metadataInitialized, flush, log, promised, logged, crashes>>

\* Mutant: what was queued since the drain ended is left to the next append.
SettleDrain_NoReschedule ==
    /\ store.pc = "drained"
    /\ store' = [store EXCEPT !.pc = "idle"]
    /\ UNCHANGED <<file, proc, metadataInitialized, flush, log, promised, logged, crashes>>

\* The finally of ensureFlush, some microtasks after the drain ended.
SettleDrain ==
    /\ store.pc = "drained"
    /\ LET s == [store EXCEPT !.pc = "idle"]
       IN  store' = IF More(s) THEN EnsureFlush(s) ELSE s
    /\ UNCHANGED <<file, proc, metadataInitialized, flush, log, promised, logged, crashes>>

\* What a step of the writer that does not complete may leave on disk.
Remains == IF store.pc = "write" THEN CutShort(file, store.batch) ELSE {file}

\* A step of the writer fails: the error sticks.
DrainFails ==
    /\ store.pc \in {"open", "write", "close"}
    /\ file' \in Remains
    /\ store' = [store EXCEPT !.error = TRUE, !.pc = "idle", !.batch = << >>, !.clear = FALSE]
    /\ UNCHANGED <<proc, metadataInitialized, flush, log, promised, logged, crashes>>

-----------------------------------------------------------------------------
(* AgentRecords *)

\* logRecord: a log without metadata gets it first.  After an error append throws
\* and nothing changes.
LogRecord ==
    /\ proc = "up" /\ ~store.error /\ logged < MaxRecords
    /\ LET record  == Record(logged + 1, "new")
           started == IF metadataInitialized THEN store ELSE AppendTo(store, Metadata)
       IN  /\ store' = AppendTo(started, record)
           /\ log' = log \o (IF metadataInitialized THEN <<record>> ELSE <<Metadata, record>>)
    /\ metadataInitialized' = TRUE
    /\ logged' = logged + 1
    /\ UNCHANGED <<file, proc, flush, promised, crashes>>

\* A flush is asked for (session close, after /init), and returns or throws.
Flush ==
    /\ proc = "up" /\ ~store.error /\ flush = None
    /\ flush' = Len(log)
    /\ UNCHANGED <<file, proc, store, metadataInitialized, log, promised, logged, crashes>>

FlushReturns ==
    /\ flush # None /\ Drained(store)
    /\ promised' = flush /\ flush' = None
    /\ UNCHANGED <<file, proc, store, metadataInitialized, log, logged, crashes>>

FlushThrows ==
    /\ flush # None /\ store.error
    /\ flush' = None
    /\ UNCHANGED <<file, proc, store, metadataInitialized, log, promised, logged, crashes>>

Migrated(records) == [i \in DOMAIN records |-> Record(records[i].id, "new")]

\* The end of replay: a process whose program version is not the one of the first
\* record appends metadata and flushes it.
Stamp(records, s) ==
    \/ proc' = "up" /\ store' = s /\ log' = records
    \/ /\ records # << >>
       /\ proc' = "stamping" /\ store' = AppendTo(s, Metadata)
       /\ log' = Append(records, Metadata)

HasMetadata(records) == records # << >>

\* read refuses a corrupt line that is not the last, replay a log whose first
\* record is not metadata.
ReplayRefuses ==
    \/ ~LinesParse(file)
    \/ Readable(file) # << >> /\ ~IsMetadata(Readable(file)[1])

Replay ==
    /\ proc = "down"
    /\ LET records == Readable(file)
       IN  IF ReplayRefuses
           THEN proc' = "failed" /\ UNCHANGED <<store, metadataInitialized, log>>
           ELSE /\ metadataInitialized' = HasMetadata(records)
                /\ IF records # << >> /\ records[1].version = "old"
                   THEN /\ proc' = "migrating" /\ log' = Migrated(records)
                        /\ store' = Rewrite(store, Migrated(records))
                   ELSE Stamp(records, store)
    /\ UNCHANGED <<file, flush, promised, logged, crashes>>

\* The flush of the rewrite, then that of the stamp, returns.
MigrationFlushed ==
    /\ proc = "migrating" /\ Drained(store)
    /\ Stamp(log, store)
    /\ promised' = Len(log)
    /\ UNCHANGED <<file, metadataInitialized, flush, logged, crashes>>

StampFlushed ==
    /\ proc = "stamping" /\ Drained(store)
    /\ proc' = "up" /\ promised' = Len(log)
    /\ UNCHANGED <<file, store, metadataInitialized, flush, log, logged, crashes>>

ReplayThrows ==
    /\ proc \in {"migrating", "stamping"} /\ store.error
    /\ proc' = "failed"
    /\ UNCHANGED <<file, store, metadataInitialized, flush, log, promised, logged, crashes>>

\* The process dies, or just exits.
Crash ==
    /\ proc # "down" /\ crashes < MaxCrashes
    /\ file' \in Remains
    /\ proc' = "down" /\ store' = NewStore /\ metadataInitialized' = FALSE
    /\ flush' = None /\ crashes' = crashes + 1
    /\ UNCHANGED <<log, promised, logged>>

-----------------------------------------------------------------------------

Writer == Open \/ WriteAndSync \/ EndBatch \/ SettleDrain

Next ==
    \/ Open \/ WriteAndSync \/ EndBatch \/ SettleDrain \/ DrainFails
    \/ LogRecord \/ Flush \/ FlushReturns \/ FlushThrows
    \/ Replay \/ MigrationFlushed \/ StampFlushed \/ ReplayThrows \/ Crash

\* The event loop runs what is ready.
Fairness == WF_vars(Writer)

Spec == Init /\ [][Next]_vars /\ Fairness

-----------------------------------------------------------------------------
(* Properties *)

\* Nothing was appended to a torn line.
Intact(f) == LinesParse(f) /\ f.tail # Corrupt

TypeOK ==
    /\ file.lines \in Seq(AnyRecord \cup {Corrupt})
    /\ file.tail \in AnyRecord \cup {None, Torn, Corrupt}
    /\ proc \in {"down", "migrating", "stamping", "up", "failed"}
    /\ store.pc \in {"idle", "open", "write", "close", "drained"}
    /\ store.pending \in Seq(AnyRecord) /\ store.batch \in Seq(AnyRecord)
    /\ ~store.shouldClear   \* the one rewrite, of replay, finds the writer idle
    /\ flush \in Nat \cup {None} /\ promised \in Nat
    /\ log \in Seq(AnyRecord)

\* What a restart would replay is always a prefix of what this process has done:
\* no record is skipped, doubled or overtaken by another, whatever fails and
\* whenever the process dies, so an agent resumes in a state it was in.
DiskIsAPrefix == IsPrefix(Ids(Readable(file)), Ids(log))

\* A flush that has returned keeps its word: the records appended before it are
\* read back, after any later crash or failure too.  Two exceptions: a log that a
\* process resumed with a torn last line, which its first record spoils, and the
\* time between the truncation and the end of a rewrite.
FlushedIsDurable == Intact(file) => Len(Readable(file)) >= promised

\* The writer rests only when all that was recorded is on disk: no record that was queued
\* while a batch was written, or between the end of the drain and its settling, is left to
\* a later append.
IdleMeansWritten ==
    proc = "up" /\ store.pc = "idle" /\ ~store.error /\ Intact(file)
        => Ids(Readable(file)) = Ids(log)

\* Every record reaches the disk, unless a write fails or the process dies.
EveryRecordWritten ==
    \A n \in 1..(MaxRecords + 2 + MaxCrashes) :
        proc = "up" /\ Len(log) >= n
            ~> proc # "up" \/ store.error \/ ~Intact(file) \/ Len(Readable(file)) >= n

=============================================================================
