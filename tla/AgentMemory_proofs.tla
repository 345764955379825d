---------------------------- MODULE AgentMemory_proofs ----------------------------
(***************************************************************************)
(* What an agent keeps, in memory and on disk.                             *)
(*                                                                         *)
(* The record log, for any number of records, crashes and failed writes:   *)
(* what a restart would replay is a prefix of what the agent has done, a   *)
(* flush that has returned keeps its word, and the writer rests only when  *)
(* everything is written.                                                  *)
(*                                                                         *)
(* The conversation, for any number of prompts, steps, calls, compactions  *)
(* and edits: no message enters it twice, a compaction that is applied     *)
(* keeps the rest of it, and, as long as no call of the client and no      *)
(* crash falls inside an exchange, every request holds all that was        *)
(* appended and pairs every call with its result.                          *)
(***************************************************************************)
EXTENDS RecordsLog, ContextMemory, FiniteSetTheorems, SequenceTheorems,
        WellFoundedInduction, TLAPS

Line == AnyRecord \cup {Corrupt}

File == [lines : Seq(Line), tail : AnyRecord \cup {None, Torn, Corrupt}]

\* The records of s are, in order, those of t, whatever their version; or the first of
\* them.
SameIds(s, t) == Len(s) = Len(t) /\ \A i \in 1..Len(s) : s[i].id = t[i].id
Begins(s, t) == Len(s) <= Len(t) /\ \A i \in 1..Len(s) : s[i].id = t[i].id

-----------------------------------------------------------------------------
(* What is read from a file *)

\* A file that is not intact is read up to its first corrupt line.
LEMMA FirstCorrupt ==
    ASSUME NEW f \in File, ~LinesParse(f)
    PROVE  \E n \in DOMAIN f.lines :
             f.lines[n] = Corrupt /\ \A i \in DOMAIN f.lines : f.lines[i] = Corrupt => n <= i
<1> DEFINE bad == {i \in DOMAIN f.lines : f.lines[i] = Corrupt}
<1>1. bad \in SUBSET Nat /\ bad # {}
  BY DEF LinesParse, File
<1>2. PICK n \in bad : \A i \in bad : ~(<<i, n>> \in OpToRel(<, Nat))
  BY <1>1, NatLessThanWellFounded, WFMin
<1>3. \A i \in bad : ~(i < n)
  BY <1>1, <1>2 DEF OpToRel
<1>4. \A i \in bad : n <= i
  BY <1>1, <1>3
<1>. QED
  BY <1>4

LEMMA ReadUpTo ==
    ASSUME NEW f, NEW n \in Nat, n \in DOMAIN f.lines, DOMAIN f.lines \subseteq Nat,
           f.lines[n] = Corrupt,
           \A i \in DOMAIN f.lines : f.lines[i] = Corrupt => n <= i
    PROVE  Readable(f) = SubSeq(f.lines, 1, n - 1)
<1> DEFINE bad == {i \in DOMAIN f.lines : f.lines[i] = Corrupt}
<1>1. n \in bad /\ \A i \in bad : n <= i /\ i \in Nat
  OBVIOUS
<1>2. (CHOOSE i \in bad : \A j \in bad : i <= j) = n
  BY <1>1
<1>. QED
  BY <1>1, <1>2 DEF Readable

LEMMA ReadWhole ==
    ASSUME NEW f, LinesParse(f)
    PROVE  Readable(f) = IF f.tail \in {None, Torn, Corrupt} THEN f.lines
                         ELSE Append(f.lines, f.tail)
BY DEF Readable, LinesParse

LEMMA LinesAreRecords ==
    ASSUME NEW lines \in Seq(Line), \A i \in DOMAIN lines : lines[i] # Corrupt
    PROVE  lines \in Seq(AnyRecord)
BY DEF Line

LEMMA ReadableTyped ==
    ASSUME NEW f \in File
    PROVE  Readable(f) \in Seq(AnyRecord)
<1>1. f.lines \in Seq(Line)
  BY DEF File
<1>2. CASE LinesParse(f)
  <2>1. f.lines \in Seq(AnyRecord)
    BY <1>1, <1>2, LinesAreRecords DEF LinesParse
  <2>2. f.tail \notin {None, Torn, Corrupt} => f.tail \in AnyRecord
    BY DEF File
  <2>. QED
    BY <1>2, <2>1, <2>2, ReadWhole
<1>3. CASE ~LinesParse(f)
  <2>1. PICK n \in DOMAIN f.lines :
          f.lines[n] = Corrupt /\ \A i \in DOMAIN f.lines : f.lines[i] = Corrupt => n <= i
    BY <1>3, FirstCorrupt
  <2>2. n \in Nat /\ DOMAIN f.lines \subseteq Nat /\ n \in 1..Len(f.lines)
    BY <1>1
  <2>3. Readable(f) = SubSeq(f.lines, 1, n - 1)
    BY <2>1, <2>2, ReadUpTo
  <2>4. \A i \in 1..(n - 1) : f.lines[i] \in AnyRecord
    BY <1>1, <2>1, <2>2 DEF Line
  <2>. QED
    BY <2>2, <2>3, <2>4, SubSeqProperties
<1>. QED
  BY <1>2, <1>3

-----------------------------------------------------------------------------
(* What a write leaves *)

\* A file is clean when the next record starts a line of its own.
Clean(f) == LinesParse(f) /\ f.tail = None

\* What is appended to a file with a corrupt line is not read.
LEMMA CorruptIsFinal ==
    ASSUME NEW f \in File, ~LinesParse(f), NEW more \in Seq(Line), NEW g,
           g.lines = f.lines \o more
    PROVE  Readable(g) = Readable(f) /\ ~LinesParse(g)
<1>1. PICK n \in DOMAIN f.lines :
        f.lines[n] = Corrupt /\ \A i \in DOMAIN f.lines : f.lines[i] = Corrupt => n <= i
  BY FirstCorrupt
<1>2. /\ f.lines \in Seq(Line) /\ DOMAIN f.lines = 1..Len(f.lines) /\ n \in Nat /\ n >= 1
      /\ Len(f.lines) \in Nat /\ n <= Len(f.lines)
  BY <1>1 DEF File
<1>3. /\ g.lines \in Seq(Line) /\ DOMAIN g.lines = 1..(Len(f.lines) + Len(more))
      /\ \A i \in DOMAIN f.lines : g.lines[i] = f.lines[i] /\ i \in DOMAIN g.lines
      /\ Len(more) \in Nat
  BY <1>2
<1>4. n \in DOMAIN g.lines /\ g.lines[n] = Corrupt
  BY <1>1, <1>3
<1>5. \A i \in DOMAIN g.lines : g.lines[i] = Corrupt => n <= i
  <2> SUFFICES ASSUME NEW i \in DOMAIN g.lines, g.lines[i] = Corrupt
               PROVE  n <= i
    OBVIOUS
  <2>1. CASE i \in DOMAIN f.lines
    BY <1>1, <1>3, <2>1
  <2>2. CASE i \notin DOMAIN f.lines
    BY <1>2, <1>3, <2>2
  <2>. QED
    BY <2>1, <2>2
<1>6. Readable(f) = SubSeq(f.lines, 1, n - 1)
  <2>1. DOMAIN f.lines \subseteq Nat /\ n \in DOMAIN f.lines /\ n \in Nat
    BY <1>2
  <2>. QED
    BY <1>1, <2>1, ReadUpTo
<1>7. Readable(g) = SubSeq(g.lines, 1, n - 1)
  <2>1. DOMAIN g.lines \subseteq Nat /\ n \in Nat
    BY <1>2, <1>3
  <2>. QED
    BY <1>4, <1>5, <2>1, ReadUpTo
<1>8. SubSeq(g.lines, 1, n - 1) = SubSeq(f.lines, 1, n - 1)
  BY <1>2, <1>3
<1>. QED
  BY <1>4, <1>6, <1>7, <1>8 DEF LinesParse

\* A clean file reads as its lines, and one that parses as no fewer.
LEMMA CleanReads ==
    ASSUME NEW f, Clean(f)
    PROVE  Readable(f) = f.lines
BY ReadWhole DEF Clean

\* Of a file that is not clean, a write that changes it leaves less to read, and the
\* rest spoilt.
Spoils(f, g) ==
    /\ ~Intact(g)
    /\ \E k \in 0..Len(Readable(f)) : Readable(g) = SubSeq(Readable(f), 1, k)

LEMMA ExtendClean ==
    ASSUME NEW f \in File, Clean(f), NEW records \in Seq(AnyRecord)
    PROVE  /\ Extend(f, records) = [lines |-> f.lines \o records, tail |-> None]
           /\ Extend(f, records) \in File
           /\ LinesParse(Extend(f, records))
           /\ Readable(Extend(f, records)) = Readable(f) \o records
<1> DEFINE g == Extend(f, records)
<1>1. f.lines \in Seq(AnyRecord) /\ f = [lines |-> f.lines, tail |-> f.tail] /\ f.tail = None
  BY LinesAreRecords DEF Clean, LinesParse, File
<1>2. g = [lines |-> f.lines \o records, tail |-> None]
  <2>1. CASE records = << >>
    BY <1>1, <2>1, ConcatEmptySeq DEF Extend
  <2>2. CASE records # << >>
    BY <1>1, <2>2 DEF Extend
  <2>. QED
    BY <2>1, <2>2
<1>3. g.lines \in Seq(AnyRecord)
  BY <1>1, <1>2, ConcatProperties
<1>4. Corrupt \notin AnyRecord
  BY RecordsAssumption
<1>5. LinesParse(g)
  BY <1>3, <1>4 DEF LinesParse
<1>6. g \in File
  <2>1. g.lines \in Seq(Line)
    BY <1>3 DEF Line
  <2>2. f.lines \o records \in Seq(Line)
    BY <1>2, <2>1
  <2>. QED
    BY <1>2, <2>2 DEF File
<1>7. Readable(g) = Readable(f) \o records
  <2>1. g.tail = None /\ g.lines = f.lines \o records
    BY <1>2
  <2>2. Clean(g)
    BY <1>5, <2>1 DEF Clean
  <2>. QED
    BY <2>1, <2>2, CleanReads
<1>. QED
  BY <1>2, <1>5, <1>6, <1>7

\* The lines of a file are the beginning of what is read from it.
LEMMA LinesBegin ==
    ASSUME NEW f \in File, LinesParse(f)
    PROVE  \E k \in 0..Len(Readable(f)) : f.lines = SubSeq(Readable(f), 1, k)
<1>0. f.lines \in Seq(AnyRecord)
  BY LinesAreRecords DEF LinesParse, File
<1>1. CASE f.tail \in {None, Torn, Corrupt}
  <2>1. Readable(f) = f.lines
    BY <1>1, ReadWhole
  <2>2. Len(f.lines) \in 0..Len(f.lines) /\ SubSeq(f.lines, 1, Len(f.lines)) = f.lines
    BY <1>0
  <2>. QED
    BY <2>1, <2>2
<1>2. CASE f.tail \notin {None, Torn, Corrupt}
  <2>1. Readable(f) = Append(f.lines, f.tail) /\ f.tail \in AnyRecord
    BY <1>2, ReadWhole DEF File
  <2>2. Len(f.lines) \in 0..Len(Append(f.lines, f.tail))
        /\ SubSeq(Append(f.lines, f.tail), 1, Len(f.lines)) = f.lines
    BY <1>0, <2>1
  <2>. QED
    BY <2>1, <2>2
<1>. QED
  BY <1>1, <1>2

LEMMA ExtendSpoils ==
    ASSUME NEW f \in File, ~Clean(f), NEW records \in Seq(AnyRecord), records # << >>
    PROVE  /\ Extend(f, records) \in File
           /\ ~LinesParse(Extend(f, records))
           /\ Spoils(f, Extend(f, records))
<1> DEFINE g    == Extend(f, records)
           more == IF f.tail = None THEN records ELSE <<Corrupt>> \o Tail(records)
<1>1. g = [lines |-> f.lines \o more, tail |-> None]
  BY DEF Extend
<1>2. more \in Seq(Line) /\ f.lines \in Seq(Line)
  <2>1. Tail(records) \in Seq(AnyRecord)
    OBVIOUS
  <2>2. records \in Seq(Line) /\ Tail(records) \in Seq(Line) /\ <<Corrupt>> \in Seq(Line)
    BY <2>1 DEF Line
  <2>. QED
    BY <2>2 DEF File
<1>. HIDE DEF more
<1>3. g.lines = f.lines \o more /\ g.lines \in Seq(Line) /\ g.tail = None
  BY <1>1, <1>2
<1>4. g \in File
  BY <1>1, <1>3, SMTT(30) DEF File
<1>. HIDE DEF g
<1>5. CASE ~LinesParse(f)
  <2>1. Readable(g) = Readable(f) /\ ~LinesParse(g)
    BY <1>2, <1>3, <1>5, CorruptIsFinal
  <2>2. Readable(f) \in Seq(AnyRecord)
    BY ReadableTyped
  <2>3. Len(Readable(f)) \in 0..Len(Readable(f))
        /\ SubSeq(Readable(f), 1, Len(Readable(f))) = Readable(f)
    BY <2>2
  <2>. QED
    BY <1>4, <2>1, <2>3 DEF Spoils, Intact, g
<1>6. CASE LinesParse(f)
  <2>1. f.tail # None
    BY <1>6 DEF Clean
  <2>2. /\ more \in Seq(Line) /\ Len(more) >= 1 /\ more[1] = Corrupt
        /\ Len(f.lines) \in Nat
    <3>1. Tail(records) \in Seq(AnyRecord)
      OBVIOUS
    <3>2. Len(<<Corrupt>> \o Tail(records)) = 1 + Len(Tail(records))
          /\ (<<Corrupt>> \o Tail(records))[1] = Corrupt /\ Len(Tail(records)) \in Nat
      BY <3>1
    <3>. QED
      BY <1>2, <2>1, <3>2 DEF more
  <2> DEFINE n == Len(f.lines) + 1
  <2>3. /\ n \in Nat /\ n \in DOMAIN g.lines /\ DOMAIN g.lines \subseteq Nat
        /\ g.lines[n] = Corrupt
        /\ \A i \in 1..Len(f.lines) : g.lines[i] = f.lines[i]
    BY <1>2, <1>3, <2>2
  <2>4. \A i \in DOMAIN g.lines : g.lines[i] = Corrupt => n <= i
    <3>1. \A i \in 1..Len(f.lines) : f.lines[i] # Corrupt
      BY <1>2, <1>6 DEF LinesParse
    <3>2. DOMAIN g.lines = 1..Len(g.lines) /\ Len(g.lines) \in Nat
      BY <1>3
    <3>. QED
      BY <2>2, <2>3, <3>1, <3>2
  <2>5. Readable(g) = SubSeq(g.lines, 1, n - 1)
    BY <2>3, <2>4, ReadUpTo
  <2>6. SubSeq(g.lines, 1, n - 1) = f.lines
    BY <1>2, <1>3, <2>2, <2>3
  <2>7. ~LinesParse(g)
    BY <2>3 DEF LinesParse
  <2>9. \E k \in 0..Len(Readable(f)) : f.lines = SubSeq(Readable(f), 1, k)
    BY <1>6, LinesBegin
  <2>. QED
    BY <1>4, <2>5, <2>6, <2>7, <2>9 DEF Spoils, Intact, g
<1>. QED
  BY <1>5, <1>6

\* A write that is cut short stops after some record, with one of the tails
\* that can be left there.
WrittenTo(f, records, k) == Extend(f, SubSeq(records, 1, k))

TailsAt(f, records, k) ==
    IF k = Len(records) THEN {WrittenTo(f, records, k).tail}
    ELSE IF WrittenTo(f, records, k).tail = None THEN {None, Torn, records[k + 1]}
    ELSE {WrittenTo(f, records, k).tail, Corrupt}

LeftAfter(f, records, k) ==
    {[WrittenTo(f, records, k) EXCEPT !.tail = t] : t \in TailsAt(f, records, k)}

LEMMA CutShortUnfolds ==
    \A f, records : CutShort(f, records) = UNION {LeftAfter(f, records, k) : k \in 0..Len(records)}
BY Zenon DEF CutShort, LeftAfter, WrittenTo, TailsAt

\* What a write that is cut short leaves.
LEMMA CutShortClean ==
    ASSUME NEW f \in File, Clean(f), NEW records \in Seq(AnyRecord), NEW g \in CutShort(f, records)
    PROVE  /\ g \in File
           /\ \E k \in 0..Len(records) : Readable(g) = Readable(f) \o SubSeq(records, 1, k)
<1>1. PICK k \in 0..Len(records) : g \in LeftAfter(f, records, k)
  BY CutShortUnfolds, Zenon
<1> DEFINE written == SubSeq(records, 1, k)
           h == Extend(f, written)
<1>2. /\ written \in Seq(AnyRecord) /\ k \in Nat /\ Len(records) \in Nat
      /\ Readable(f) \in Seq(AnyRecord)
  BY ReadableTyped
<1>3. /\ h = [lines |-> f.lines \o written, tail |-> None] /\ h \in File
      /\ LinesParse(h) /\ Readable(h) = Readable(f) \o written
  <2>1. written \in Seq(AnyRecord)
    BY <1>2
  <2>. QED
    BY <2>1, ExtendClean
<1>4. PICK t : g = [h EXCEPT !.tail = t]
               /\ t \in (IF k = Len(records) THEN {h.tail}
                         ELSE IF h.tail = None THEN {None, Torn, records[k + 1]}
                         ELSE {h.tail, Corrupt})
  BY <1>1, Zenon DEF LeftAfter, WrittenTo, TailsAt
<1>. HIDE DEF h
<1>5. g = [lines |-> h.lines, tail |-> t] /\ LinesParse(g) /\ h.lines = Readable(f) \o written
  <2>1. g = [lines |-> h.lines, tail |-> t]
    BY <1>3, <1>4 DEF File
  <2>2. h.lines = Readable(f) \o written
    BY <1>3, CleanReads
  <2>. QED
    BY <1>3, <2>1, <2>2 DEF LinesParse
<1>6. CASE t \in {None, Torn}
  <2>1. Readable(g) = Readable(f) \o written
    <3>1. g.tail \in {None, Torn, Corrupt} /\ g.lines = Readable(f) \o written
      BY <1>5, <1>6
    <3>. QED
      BY <1>5, <3>1, ReadWhole
  <2>2. g \in File
    BY <1>3, <1>5, <1>6 DEF File
  <2>. QED
    BY <2>1, <2>2
<1>7. CASE t \notin {None, Torn}
  <2>1. k # Len(records) /\ t = records[k + 1] /\ k + 1 \in 1..Len(records)
    <3>1. h.tail = None
      BY <1>3
    <3>2. k # Len(records) /\ t = records[k + 1]
      BY <1>4, <1>7, <3>1
    <3>. QED
      BY <1>2, <3>2
  <2>2. t \in AnyRecord
    BY <1>2, <2>1
  <2>3. t \notin {None, Torn, Corrupt}
    BY <2>2, RecordsAssumption
  <2>4. Readable(g) = Append(Readable(f) \o written, t)
    <3>1. g.tail = t /\ g.lines = Readable(f) \o written
      BY <1>5
    <3>. QED
      BY <1>5, <2>3, <3>1, ReadWhole
  <2>5. Append(Readable(f) \o written, t) = Readable(f) \o (written \o <<t>>)
    <3>1. <<t>> \in Seq(AnyRecord) /\ Readable(f) \o written \in Seq(AnyRecord)
      BY <1>2, <2>2, ConcatProperties
    <3>2. Append(Readable(f) \o written, t) = (Readable(f) \o written) \o <<t>>
      BY <2>2, <3>1, AppendIsConcat
    <3>. QED
      BY <1>2, <3>1, <3>2, ConcatAssociative, SMTT(30)
  <2>6. written \o <<t>> = SubSeq(records, 1, k + 1)
    BY <1>2, <2>1
  <2>7. g \in File
    BY <1>3, <1>5, <2>2 DEF File
  <2>8. k + 1 \in 0..Len(records)
    BY <1>2, <2>1
  <2>9. Readable(g) = Readable(f) \o SubSeq(records, 1, k + 1)
    BY <2>4, <2>5, <2>6
  <2>. QED
    BY <2>7, <2>8, <2>9
<1>. QED
  BY <1>6, <1>7

LEMMA CutShortSpoils ==
    ASSUME NEW f \in File, ~Clean(f), NEW records \in Seq(AnyRecord), NEW g \in CutShort(f, records)
    PROVE  g \in File /\ (g = f \/ Spoils(f, g))
<1>1. PICK k \in 0..Len(records) : g \in LeftAfter(f, records, k)
  BY CutShortUnfolds, Zenon
<1> DEFINE written == SubSeq(records, 1, k)
           h == Extend(f, written)
<1>2. written \in Seq(AnyRecord) /\ Len(written) = k /\ k \in Nat /\ Len(records) \in Nat
  OBVIOUS
<1>3. h \in File
  <2>1. written = << >> => h = f
    BY DEF Extend
  <2>2. written # << >> => h \in File
    BY <1>2, ExtendSpoils
  <2>. QED
    BY <2>1, <2>2
<1>4. PICK t : g = [h EXCEPT !.tail = t]
               /\ t \in (IF k = Len(records) THEN {h.tail}
                         ELSE IF h.tail = None THEN {None, Torn, records[k + 1]}
                         ELSE {h.tail, Corrupt})
  BY <1>1, Zenon DEF LeftAfter, WrittenTo, TailsAt
<1>. HIDE DEF h
<1>5. g = [lines |-> h.lines, tail |-> t]
  BY <1>3, <1>4 DEF File
<1>6. t \in AnyRecord \cup {None, Torn, Corrupt}
  <2>1. k # Len(records) => records[k + 1] \in AnyRecord
    BY <1>2
  <2>2. h.tail \in AnyRecord \cup {None, Torn, Corrupt}
    BY <1>3 DEF File
  <2>. QED
    BY <1>4, <2>1, <2>2
<1>7. g \in File
  BY <1>3, <1>5, <1>6 DEF File
<1>8. ASSUME ~LinesParse(h)
      PROVE  ~LinesParse(g) /\ Readable(g) = Readable(h)
  <2>1. h.lines \in Seq(Line) /\ h.lines \o << >> = h.lines
    BY <1>3, ConcatEmptySeq DEF File
  <2>2. g.lines = h.lines \o << >> /\ << >> \in Seq(Line)
    BY <1>5, <2>1
  <2>. QED
    BY <1>3, <1>8, <2>2, CorruptIsFinal
<1>9. CASE written # << >>
  <2>1. ~LinesParse(h) /\ Spoils(f, h)
    BY <1>2, <1>9, ExtendSpoils DEF h
  <2>. QED
    BY <1>7, <1>8, <2>1 DEF Spoils, Intact
<1>10. CASE written = << >>
  <2>1. h = f
    BY <1>10 DEF Extend, h
  <2>2. CASE ~LinesParse(f)
    <3>1. ~LinesParse(g) /\ Readable(g) = Readable(f)
      BY <1>8, <2>1, <2>2
    <3>2. Readable(f) \in Seq(AnyRecord)
      BY ReadableTyped
    <3>3. Len(Readable(f)) \in 0..Len(Readable(f))
          /\ SubSeq(Readable(f), 1, Len(Readable(f))) = Readable(f)
      BY <3>2
    <3>. QED
      BY <1>7, <3>1, <3>3 DEF Spoils, Intact
  <2>3. CASE LinesParse(f) /\ t = f.tail
    BY <1>5, <1>7, <2>1, <2>3 DEF File
  <2>4. CASE LinesParse(f) /\ t # f.tail
    <3>1. f.tail # None
      BY <2>4 DEF Clean
    <3>2. t = Corrupt
      BY <1>4, <2>1, <2>4, <3>1
    <3>3. LinesParse(g) /\ g.lines = f.lines /\ g.tail = Corrupt
      BY <1>5, <2>1, <2>4, <3>2 DEF LinesParse
    <3>4. Readable(g) = f.lines
      BY <3>3, ReadWhole
    <3>5. \E j \in 0..Len(Readable(f)) : f.lines = SubSeq(Readable(f), 1, j)
      BY <2>4, LinesBegin
    <3>. QED
      BY <1>7, <3>3, <3>4, <3>5 DEF Spoils, Intact
  <2>. QED
    BY <2>2, <2>3, <2>4
<1>. QED
  BY <1>9, <1>10

-----------------------------------------------------------------------------
(* The inductive invariant *)

Live == proc \in {"migrating", "stamping", "up"}

StoreRecord ==
    [pending : Seq(AnyRecord), shouldClear : BOOLEAN, error : BOOLEAN,
     pc : {"idle", "open", "write", "close", "drained"}, batch : Seq(AnyRecord), clear : BOOLEAN]

\* What the writer has still to write, and whether it will truncate the file first.
Upcoming(s) == (IF s.pc \in {"open", "write"} THEN s.batch ELSE << >>) \o s.pending
Truncating(s) == s.pc = "open" /\ s.clear

Typed ==
    /\ file \in File /\ store \in StoreRecord /\ ~store.shouldClear /\ log \in Seq(AnyRecord)
    /\ proc \in {"down", "migrating", "stamping", "up", "failed"}
    /\ flush \in Nat \cup {None} /\ promised \in Nat /\ logged \in Nat

\* The writer works for a live process only, and not after an error; the process that
\* is to replay has nothing queued.
Quiet ==
    /\ store.error \/ ~Live => store.pc = "idle"
    /\ proc = "down" => store = NewStore

FlushInLog == flush # None => proc = "up" /\ flush <= Len(log)

DiskBeginsLog == Begins(Readable(file), log)

\* What is on disk and what is to be written are together what the process has done;
\* before a truncation, what is to be written is.
Complete(f, s, records) ==
    /\ Truncating(s) => SameIds(Upcoming(s), records)
    /\ ~Truncating(s) /\ Intact(f) => SameIds(Readable(f) \o Upcoming(s), records)

NothingMissing == Live /\ ~store.error => Complete(file, store, log)

LogInv == Typed /\ Quiet /\ FlushInLog /\ DiskBeginsLog /\ NothingMissing /\ FlushedIsDurable

-----------------------------------------------------------------------------
(* Sequences of records *)

LEMMA BeginsFirst ==
    ASSUME NEW s \in Seq(AnyRecord), NEW t \in Seq(AnyRecord), Begins(s, t),
           NEW k \in 0..Len(s)
    PROVE  Begins(SubSeq(s, 1, k), t)
BY SMTT(30) DEF Begins

LEMMA SameBegins ==
    ASSUME NEW s \in Seq(AnyRecord), NEW t \in Seq(AnyRecord), SameIds(s, t)
    PROVE  Begins(s, t)
BY DEF Begins, SameIds

LEMMA SameExtended ==
    ASSUME NEW s \in Seq(AnyRecord), NEW t \in Seq(AnyRecord), NEW u \in Seq(AnyRecord)
    PROVE  /\ SameIds(s, t) => SameIds(s \o u, t \o u)
           /\ Begins(s, t) => Begins(s, t \o u)
<1>1. /\ Len(s \o u) = Len(s) + Len(u) /\ Len(t \o u) = Len(t) + Len(u)
      /\ Len(s) \in Nat /\ Len(t) \in Nat /\ Len(u) \in Nat
      /\ \A i \in 1..Len(s) : (s \o u)[i] = s[i]
      /\ \A i \in 1..Len(t) : (t \o u)[i] = t[i]
      /\ \A i \in (Len(s) + 1)..(Len(s) + Len(u)) : (s \o u)[i] = u[i - Len(s)]
      /\ \A i \in (Len(t) + 1)..(Len(t) + Len(u)) : (t \o u)[i] = u[i - Len(t)]
  BY ConcatProperties
<1>2. ASSUME SameIds(s, t)
      PROVE  SameIds(s \o u, t \o u)
  <2>1. Len(s) = Len(t) /\ \A i \in 1..Len(s) : s[i].id = t[i].id
    BY <1>2 DEF SameIds
  <2>2. \A i \in 1..Len(s \o u) : (s \o u)[i].id = (t \o u)[i].id
    <3> SUFFICES ASSUME NEW i \in 1..Len(s \o u)
                 PROVE  (s \o u)[i].id = (t \o u)[i].id
      OBVIOUS
    <3>1. CASE i <= Len(s)
      BY <1>1, <2>1, <3>1
    <3>2. CASE ~(i <= Len(s))
      BY <1>1, <2>1, <3>2
    <3>. QED
      BY <3>1, <3>2
  <2>. QED
    BY <1>1, <2>1, <2>2 DEF SameIds
<1>3. ASSUME Begins(s, t)
      PROVE  Begins(s, t \o u)
  BY <1>1, <1>3 DEF Begins
<1>. QED
  BY <1>2, <1>3

\* Of what matches the log, any beginning is one of the log.
LEMMA PartBegins ==
    ASSUME NEW s \in Seq(AnyRecord), NEW b \in Seq(AnyRecord), NEW p \in Seq(AnyRecord),
           NEW t \in Seq(AnyRecord), SameIds(s \o (b \o p), t), NEW k \in 0..Len(b)
    PROVE  Begins(s \o SubSeq(b, 1, k), t)
<1>1. /\ SubSeq(b, 1, k) \in Seq(AnyRecord) /\ Len(SubSeq(b, 1, k)) = k /\ k \in Nat
      /\ \A i \in 1..k : SubSeq(b, 1, k)[i] = b[i]
      /\ Len(s) \in Nat /\ Len(b) \in Nat /\ Len(p) \in Nat /\ k <= Len(b)
  OBVIOUS
<1>2. /\ Len(b \o p) = Len(b) + Len(p) /\ b \o p \in Seq(AnyRecord)
      /\ \A i \in 1..Len(b) : (b \o p)[i] = b[i]
  BY <1>1, ConcatProperties
<1> DEFINE c == b \o p
           d == SubSeq(b, 1, k)
<1>3. /\ Len(d) <= Len(c) /\ \A i \in 1..Len(d) : d[i] = c[i]
      /\ c \in Seq(AnyRecord) /\ d \in Seq(AnyRecord) /\ Len(d) \in Nat /\ Len(c) \in Nat
  BY <1>1, <1>2
<1>. HIDE DEF c, d
<1>4. /\ Len(s \o c) = Len(s) + Len(c) /\ Len(s \o d) = Len(s) + Len(d)
      /\ \A i \in 1..(Len(s) + Len(c)) : (s \o c)[i] = IF i <= Len(s) THEN s[i] ELSE c[i - Len(s)]
      /\ \A i \in 1..(Len(s) + Len(d)) : (s \o d)[i] = IF i <= Len(s) THEN s[i] ELSE d[i - Len(s)]
  BY <1>3, ConcatProperties
<1>5. \A i \in 1..(Len(s) + Len(d)) : (s \o d)[i] = (s \o c)[i]
  <2> SUFFICES ASSUME NEW i \in 1..(Len(s) + Len(d))
               PROVE  (s \o d)[i] = (s \o c)[i]
    OBVIOUS
  <2>1. i \in 1..(Len(s) + Len(c))
    BY <1>1, <1>3
  <2>2. CASE i <= Len(s)
    BY <1>4, <2>1, <2>2
  <2>3. CASE ~(i <= Len(s))
    <3>1. i - Len(s) \in 1..Len(d)
      BY <1>1, <1>3, <2>3
    <3>. QED
      BY <1>3, <1>4, <2>1, <2>3, <3>1
  <2>. QED
    BY <2>2, <2>3
<1>6. SameIds(s \o c, t)
  BY DEF c
<1>7. Begins(s \o d, t)
  <2>1. Len(s \o d) <= Len(t) /\ Len(s \o d) \in Nat /\ Len(s \o d) <= Len(s \o c)
    BY <1>1, <1>3, <1>4, <1>6 DEF SameIds
  <2>2. \A i \in 1..Len(s \o d) : (s \o d)[i].id = t[i].id
    <3>1. \A i \in 1..Len(s \o c) : (s \o c)[i].id = t[i].id
      BY <1>6 DEF SameIds
    <3>2. Len(s \o c) \in Nat /\ Len(s \o d) = Len(s) + Len(d)
      BY <1>1, <1>3, <1>4
    <3>. QED
      <4> SUFFICES ASSUME NEW i \in 1..Len(s \o d)
                   PROVE  (s \o d)[i].id = t[i].id
        OBVIOUS
      <4>1. i \in 1..Len(s \o c)
        BY <2>1, <3>2
      <4>2. (s \o d)[i] = (s \o c)[i]
        BY <1>5, <3>2
      <4>. QED
        BY <3>1, <4>1, <4>2
  <2>. QED
    BY <2>1, <2>2 DEF Begins
<1>. QED
  BY <1>7 DEF d

-----------------------------------------------------------------------------
(* The queue *)

LEMMA UpcomingTyped ==
    ASSUME NEW s \in StoreRecord
    PROVE  Upcoming(s) \in Seq(AnyRecord)
<1>1. s.pending \in Seq(AnyRecord) /\ s.batch \in Seq(AnyRecord) /\ << >> \in Seq(AnyRecord)
  BY DEF StoreRecord
<1>. QED
  BY <1>1, ConcatProperties DEF Upcoming

\* Taking the queue as the next batch changes nothing of what is to be written.
LEMMA TakeKeeps ==
    ASSUME NEW s \in StoreRecord, ~s.shouldClear, s.pc \notin {"open", "write"}
    PROVE  /\ Take(s) \in StoreRecord /\ ~Take(s).shouldClear
           /\ Take(s).error = s.error /\ Take(s).pc = "open"
           /\ Upcoming(Take(s)) = Upcoming(s)
           /\ ~Truncating(Take(s))
<1>0. s.shouldClear = FALSE
  BY DEF StoreRecord
<1>1. /\ Take(s) \in StoreRecord /\ ~Take(s).shouldClear /\ Take(s).error = s.error /\ Take(s).pc = "open"
      /\ Take(s).batch = s.pending /\ Take(s).pending = << >> /\ ~Take(s).clear
  <2>. DEFINE queue  == Seq(AnyRecord)
             Stores == [pending : queue, shouldClear : BOOLEAN, error : BOOLEAN,
                        pc : {"idle", "open", "write", "close", "drained"}, batch : queue,
                        clear : BOOLEAN]
  <2>1. s \in Stores /\ << >> \in queue
    BY DEF StoreRecord
  <2>2. Stores = StoreRecord
    BY DEF StoreRecord
  <2>. HIDE DEF queue
  <2>3. Take(s) \in Stores
    BY <2>1 DEF Take
  <2>4. ~Take(s).shouldClear /\ ~Take(s).clear
    BY <1>0, <2>1 DEF Take
  <2>5. Take(s).error = s.error /\ Take(s).pc = "open" /\ Take(s).batch = s.pending
        /\ Take(s).pending = << >>
    BY <2>1 DEF Take
  <2>. QED
    BY <2>2, <2>3, <2>4, <2>5
<1>2. s.pending \in Seq(AnyRecord)
  BY DEF StoreRecord
<1>3. s.pending \o << >> = s.pending /\ << >> \o s.pending = s.pending
  BY <1>2, ConcatEmptySeq
<1>4. Upcoming(s) = s.pending
  BY <1>3 DEF Upcoming
<1>5. Upcoming(Take(s)) = s.pending
  BY <1>1, <1>3 DEF Upcoming
<1>. QED
  BY <1>1, <1>4, <1>5 DEF Truncating

LEMMA AppendToKeeps ==
    ASSUME NEW s \in StoreRecord, ~s.shouldClear, NEW r \in AnyRecord
    PROVE  /\ AppendTo(s, r) \in StoreRecord /\ ~AppendTo(s, r).shouldClear
           /\ AppendTo(s, r).error = s.error
           /\ AppendTo(s, r).pc # "idle"
           /\ Upcoming(AppendTo(s, r)) = Upcoming(s) \o <<r>>
           /\ Truncating(AppendTo(s, r)) = Truncating(s)
<1> DEFINE q == [s EXCEPT !.pending = Append(@, r)]
           b == IF s.pc \in {"open", "write"} THEN s.batch ELSE << >>
<1>1. s.pending \in Seq(AnyRecord) /\ b \in Seq(AnyRecord) /\ <<r>> \in Seq(AnyRecord)
  BY DEF StoreRecord
<1>2. /\ q \in StoreRecord /\ ~q.shouldClear /\ q.error = s.error /\ q.pc = s.pc /\ q.clear = s.clear
      /\ q.batch = s.batch /\ q.pending = Append(s.pending, r)
  <2>1. q = [pending |-> Append(s.pending, r), shouldClear |-> s.shouldClear, error |-> s.error,
             pc |-> s.pc, batch |-> s.batch, clear |-> s.clear]
    <3>1. s = [pending |-> s.pending, shouldClear |-> s.shouldClear, error |-> s.error,
               pc |-> s.pc, batch |-> s.batch, clear |-> s.clear]
      BY DEF StoreRecord
    <3>. QED
      BY <3>1
  <2>2. Append(s.pending, r) \in Seq(AnyRecord)
    BY <1>1, AppendProperties
  <2>3. /\ s.batch \in Seq(AnyRecord) /\ s.error \in BOOLEAN /\ s.clear \in BOOLEAN
        /\ s.shouldClear \in BOOLEAN /\ s.pc \in {"idle", "open", "write", "close", "drained"}
    BY DEF StoreRecord
  <2>. QED
    BY <2>1, <2>2, <2>3 DEF StoreRecord
<1>3. Append(s.pending, r) = s.pending \o <<r>>
  BY <1>1, AppendIsConcat
<1>4. b \o (s.pending \o <<r>>) = (b \o s.pending) \o <<r>>
  <2>. DEFINE p == s.pending
             u == <<r>>
  <2>1. b \in Seq(AnyRecord) /\ p \in Seq(AnyRecord) /\ u \in Seq(AnyRecord)
    BY <1>1
  <2>. HIDE DEF b, p, u
  <2>2. (b \o p) \o u = b \o (p \o u)
    BY <2>1, ConcatAssociative
  <2>. QED
    BY <2>2 DEF p, u
<1>5. Upcoming(q) = Upcoming(s) \o <<r>> /\ Truncating(q) = Truncating(s)
  BY <1>2, <1>3, <1>4 DEF Upcoming, Truncating
<1>6. AppendTo(s, r) = IF q.pc = "idle" THEN Take(q) ELSE q
  BY DEF AppendTo, EnsureFlush
<1>. HIDE DEF q
<1>7. CASE q.pc = "idle"
  <2>1. /\ Take(q) \in StoreRecord /\ ~Take(q).shouldClear /\ Take(q).error = q.error /\ Take(q).pc = "open"
        /\ Upcoming(Take(q)) = Upcoming(q) /\ ~Truncating(Take(q))
    BY <1>2, <1>7, TakeKeeps
  <2>2. ~Truncating(s)
    BY <1>2, <1>7 DEF Truncating
  <2>. QED
    BY <1>2, <1>5, <1>6, <1>7, <2>1, <2>2 DEF Truncating
<1>8. CASE q.pc # "idle"
  BY <1>2, <1>5, <1>6, <1>8
<1>. QED
  BY <1>7, <1>8

LEMMA AppendCompletes ==
    ASSUME NEW f \in File, NEW s \in StoreRecord, ~s.shouldClear,
           NEW records \in Seq(AnyRecord), NEW r \in AnyRecord, Complete(f, s, records)
    PROVE  Complete(f, AppendTo(s, r), Append(records, r))
<1> DEFINE u == <<r>>
           a == AppendTo(s, r)
           up == Upcoming(s)
           onDisk == Readable(f)
<1>1. up \in Seq(AnyRecord) /\ onDisk \in Seq(AnyRecord) /\ u \in Seq(AnyRecord)
  BY UpcomingTyped, ReadableTyped
<1>2. Append(records, r) = records \o u
  BY AppendIsConcat
<1>3. Upcoming(a) = up \o u /\ Truncating(a) = Truncating(s)
  BY AppendToKeeps
<1>4. /\ Truncating(s) => SameIds(up, records)
      /\ ~Truncating(s) /\ Intact(f) => SameIds(onDisk \o up, records)
  BY DEF Complete
<1>. HIDE DEF u, a, up, onDisk
<1>5. (onDisk \o up) \o u = onDisk \o (up \o u) /\ onDisk \o up \in Seq(AnyRecord)
  BY <1>1, ConcatAssociative, ConcatProperties, SMTT(30)
<1>6. Truncating(a) => SameIds(Upcoming(a), records \o u)
  BY <1>1, <1>3, <1>4, SameExtended
<1>7. ~Truncating(a) /\ Intact(f) => SameIds(onDisk \o Upcoming(a), records \o u)
  BY <1>1, <1>3, <1>4, <1>5, SameExtended
<1>. QED
  BY <1>2, <1>6, <1>7 DEF Complete, a, onDisk

\* What depends on nothing but the file, the queue and the log is kept where they are
\* replaced by equals.
LEMMA CompleteKept ==
    ASSUME NEW f, NEW s, NEW c, NEW records, Complete(f, s, records),
           Upcoming(c) = Upcoming(s), Truncating(c) = Truncating(s)
    PROVE  Complete(f, c, records)
BY DEF Complete

\* What a step of the writer that does not complete leaves on disk.
LEMMA RemainsKept ==
    ASSUME LogInv, NEW g \in Remains
    PROVE  /\ g \in File /\ Begins(Readable(g), log)
           /\ Intact(g) => Len(Readable(g)) >= promised
<1>1. CASE store.pc # "write"
  BY <1>1 DEF Remains, LogInv, Typed, DiskBeginsLog, FlushedIsDurable
<1>2. CASE store.pc = "write"
  <2> DEFINE b == store.batch
             p == store.pending
             onDisk == Readable(file)
  <2>1. /\ b \in Seq(AnyRecord) /\ p \in Seq(AnyRecord) /\ file \in File /\ log \in Seq(AnyRecord)
        /\ promised \in Nat
    BY DEF LogInv, Typed, StoreRecord
  <2>2. onDisk \in Seq(AnyRecord) /\ Begins(onDisk, log) /\ (Intact(file) => Len(onDisk) >= promised)
    BY <2>1, ReadableTyped DEF LogInv, DiskBeginsLog, FlushedIsDurable
  <2>3. g \in CutShort(file, b)
    BY <1>2 DEF Remains
  <2>4. Intact(file) => SameIds(onDisk \o (b \o p), log)
    <3>1. Live /\ ~store.error
      BY <1>2 DEF LogInv, Quiet
    <3>2. ~Truncating(store) /\ Upcoming(store) = b \o p
      BY <1>2 DEF Truncating, Upcoming
    <3>. QED
      BY <3>1, <3>2 DEF LogInv, NothingMissing, Complete
  <2>. HIDE DEF b, p
  <2>5. CASE Clean(file)
    <3>1. PICK k \in 0..Len(b) : Readable(g) = onDisk \o SubSeq(b, 1, k)
      BY <2>1, <2>3, <2>5, CutShortClean
    <3>2. g \in File
      BY <2>1, <2>3, <2>5, CutShortClean
    <3>3. Intact(file)
      BY <2>5, RecordsAssumption DEF Clean, Intact
    <3>. HIDE DEF onDisk
    <3>4. Begins(onDisk \o SubSeq(b, 1, k), log)
      BY <2>1, <2>2, <2>4, <3>3, PartBegins
    <3>5. SubSeq(b, 1, k) \in Seq(AnyRecord)
      BY <2>1
    <3>6. Len(onDisk \o SubSeq(b, 1, k)) >= Len(onDisk) /\ Len(onDisk) \in Nat
      BY <2>2, <3>5
    <3>7. Len(Readable(g)) >= promised
      BY <2>1, <2>2, <3>1, <3>3, <3>6
    <3>. QED
      BY <3>1, <3>2, <3>4, <3>7
  <2>6. CASE ~Clean(file)
    <3>1. g \in File /\ (g = file \/ Spoils(file, g))
      BY <2>1, <2>3, <2>6, CutShortSpoils
    <3>2. CASE g = file
      BY <2>1, <2>2, <3>2
    <3>3. CASE Spoils(file, g)
      <4>1. PICK k \in 0..Len(onDisk) : Readable(g) = SubSeq(onDisk, 1, k)
        BY <3>3 DEF Spoils
      <4>. HIDE DEF onDisk
      <4>2. Begins(SubSeq(onDisk, 1, k), log)
        BY <2>1, <2>2, BeginsFirst
      <4>. QED
        BY <3>1, <3>3, <4>1, <4>2 DEF Spoils
    <3>. QED
      BY <3>1, <3>2, <3>3
  <2>. QED
    BY <2>5, <2>6
<1>. QED
  BY <1>1, <1>2

-----------------------------------------------------------------------------
(* The steps of the writer *)

LEMMA InitLog == Init => LogInv
<1> SUFFICES ASSUME Init PROVE LogInv
  OBVIOUS
<1>1. /\ file.tail = None /\ file.lines \in {<< >>, OldLog}
      /\ file \in [lines : {<< >>, OldLog}, tail : {None}]
      /\ log = file.lines /\ store = NewStore /\ proc = "down" /\ flush = None
      /\ promised = 0 /\ logged = 1
  BY DEF Init
<1>2. << >> \in Seq(AnyRecord) /\ OldLog \in Seq(AnyRecord)
  <2>1. 0 \in 0..MaxRecords /\ 1 \in 0..MaxRecords
    BY RecordsAssumption
  <2>2. Record(0, "old") \in AnyRecord /\ Record(1, "old") \in AnyRecord
    BY <2>1 DEF Record, AnyRecord
  <2>. QED
    BY <2>2 DEF OldLog
<1>3. file.lines \in Seq(AnyRecord)
  BY <1>1, <1>2
<1>4. file \in File
  <2>1. file.lines \in Seq(Line)
    BY <1>3 DEF Line
  <2>. QED
    BY <1>1, <2>1 DEF File
<1>5. Clean(file)
  BY <1>1, <1>3, RecordsAssumption DEF Clean, LinesParse
<1>6. Readable(file) = log
  BY <1>1, <1>5, CleanReads
<1>7. Begins(Readable(file), log)
  BY <1>1, <1>3, <1>6 DEF Begins
<1>8. store \in StoreRecord /\ ~store.shouldClear /\ store.pc = "idle"
  BY <1>1 DEF NewStore, StoreRecord
<1>. QED
  BY <1>1, <1>3, <1>4, <1>7, <1>8
     DEF LogInv, Typed, Quiet, FlushInLog, DiskBeginsLog, NothingMissing, FlushedIsDurable, Live

LEMMA OpenKeeps == LogInv /\ Open => LogInv'
<1> SUFFICES ASSUME LogInv, Open PROVE LogInv'
  OBVIOUS
<1>1. /\ Typed /\ Live /\ ~store.error /\ store.pc = "open" /\ Complete(file, store, log)
      /\ proc # "down"
  BY DEF LogInv, Quiet, NothingMissing, Open, Live
<1>2. /\ store' = [store EXCEPT !.pc = "write"] /\ store \in StoreRecord /\ ~store.shouldClear
      /\ log' = log /\ proc' = proc /\ flush' = flush /\ logged' = logged
  BY <1>1 DEF Open, Typed
<1>3. /\ store' \in StoreRecord /\ ~store'.shouldClear /\ ~store'.error /\ store'.pc = "write"
      /\ store'.batch = store.batch /\ store'.pending = store.pending
  BY <1>1, <1>2 DEF StoreRecord
<1>4. Upcoming(store') = Upcoming(store) /\ ~Truncating(store') /\ Upcoming(store) \in Seq(AnyRecord)
  BY <1>1, <1>2, <1>3, UpcomingTyped DEF Upcoming, Truncating
<1>5. /\ Live' /\ Quiet' /\ FlushInLog'
  BY <1>1, <1>2, <1>3 DEF LogInv, Quiet, FlushInLog, Live
<1>6. CASE store.clear
  <2>1. file' = [lines |-> << >>, tail |-> None] /\ promised' = 0
    BY <1>6 DEF Open
  <2>2. file' \in File
    BY <2>1 DEF File
  <2>3. Readable(file') = << >>
    <3>1. Clean(file')
      BY <2>1 DEF Clean, LinesParse
    <3>. QED
      BY <2>1, <3>1, CleanReads
  <2>4. SameIds(Upcoming(store), log)
    BY <1>1, <1>6 DEF Complete, Truncating
  <2>5. Complete(file', store', log)
    BY <1>4, <2>3, <2>4, ConcatEmptySeq DEF Complete
  <2>6. Begins(Readable(file'), log)
    BY <1>1, <2>3 DEF Begins, Typed
  <2>7. Typed'
    BY <1>1, <1>2, <1>3, <2>1, <2>2 DEF Typed
  <2>8. FlushedIsDurable'
    BY <2>1, <2>3 DEF FlushedIsDurable
  <2>. QED
    BY <1>2, <1>5, <2>5, <2>6, <2>7, <2>8 DEF LogInv, DiskBeginsLog, NothingMissing
<1>7. CASE ~store.clear
  <2>1. file' = file /\ promised' = promised
    BY <1>7 DEF Open
  <2>2. Truncating(store') = Truncating(store)
    BY <1>4, <1>7 DEF Truncating
  <2>3. Complete(file, store', log)
    BY <1>1, <1>4, <2>2, CompleteKept
  <2>4. Typed'
    BY <1>1, <1>2, <1>3, <2>1 DEF Typed
  <2>. QED
    BY <1>2, <1>5, <2>1, <2>3, <2>4 DEF LogInv, DiskBeginsLog, NothingMissing, FlushedIsDurable
<1>. QED
  BY <1>6, <1>7

LEMMA WriteKeeps == LogInv /\ WriteAndSync => LogInv'
<1> SUFFICES ASSUME LogInv, WriteAndSync PROVE LogInv'
  OBVIOUS
<1> DEFINE b == store.batch
           p == store.pending
           onDisk == Readable(file)
<1>1. /\ Typed /\ Live /\ ~store.error /\ store.pc = "write" /\ Complete(file, store, log)
      /\ proc # "down"
  BY DEF LogInv, Quiet, NothingMissing, WriteAndSync, Live
<1>2. /\ store' = [store EXCEPT !.pc = "close"] /\ store \in StoreRecord /\ ~store.shouldClear
      /\ log' = log /\ proc' = proc /\ flush' = flush /\ logged' = logged /\ promised' = promised
      /\ file' = Extend(file, b) /\ file \in File /\ log \in Seq(AnyRecord) /\ promised \in Nat
  BY <1>1 DEF WriteAndSync, Typed
<1>3. /\ store' \in StoreRecord /\ ~store'.shouldClear /\ ~store'.error /\ store'.pc = "close"
      /\ store'.pending = p /\ b \in Seq(AnyRecord) /\ p \in Seq(AnyRecord)
  BY <1>1, <1>2 DEF StoreRecord
<1>4. /\ Upcoming(store') = p /\ ~Truncating(store')
      /\ Upcoming(store) = b \o p /\ ~Truncating(store)
  BY <1>1, <1>3, ConcatEmptySeq DEF Upcoming, Truncating
<1>5. Quiet' /\ FlushInLog'
  BY <1>1, <1>2, <1>3 DEF LogInv, Quiet, FlushInLog, Live
<1>6. /\ onDisk \in Seq(AnyRecord) /\ Begins(onDisk, log)
      /\ Intact(file) => SameIds(onDisk \o (b \o p), log) /\ Len(onDisk) >= promised
  BY <1>1, <1>2, <1>4, ReadableTyped DEF LogInv, DiskBeginsLog, Complete, FlushedIsDurable
<1>. SUFFICES /\ file' \in File /\ Begins(Readable(file'), log)
              /\ Intact(file') => SameIds(Readable(file') \o p, log)
                                  /\ Len(Readable(file')) >= promised
  <2>1. Complete(file', store', log) \/ ~Intact(file')
    BY <1>4 DEF Complete
  <2>2. Complete(file', store', log)
    BY <1>4, <2>1 DEF Complete
  <2>3. Typed'
    BY <1>1, <1>2, <1>3 DEF Typed
  <2>. QED
    BY <1>2, <1>5, <2>2, <2>3 DEF LogInv, DiskBeginsLog, NothingMissing, FlushedIsDurable
<1>. HIDE DEF b, p
<1>7. CASE Clean(file)
  <2>1. file' \in File /\ Readable(file') = onDisk \o b
    BY <1>2, <1>3, <1>7, ExtendClean
  <2>2. Intact(file)
    BY <1>7, RecordsAssumption DEF Clean, Intact
  <2>. HIDE DEF onDisk
  <2>3. Begins(onDisk \o SubSeq(b, 1, Len(b)), log) /\ SubSeq(b, 1, Len(b)) = b
    <3>1. Len(b) \in 0..Len(b) /\ SubSeq(b, 1, Len(b)) = b
      BY <1>3
    <3>. QED
      BY <1>2, <1>3, <1>6, <2>2, <3>1, PartBegins
  <2>4. (onDisk \o b) \o p = onDisk \o (b \o p)
    BY <1>3, <1>6, ConcatAssociative
  <2>5. Len(onDisk \o b) >= Len(onDisk) /\ Len(onDisk) \in Nat /\ Len(onDisk \o b) \in Nat
    BY <1>3, <1>6
  <2>6. Len(onDisk \o b) >= promised
    BY <1>2, <1>6, <2>2, <2>5
  <2>. QED
    BY <1>6, <2>1, <2>2, <2>3, <2>4, <2>6
<1>8. CASE ~Clean(file) /\ b = << >>
  <2>1. file' = file
    BY <1>2, <1>8 DEF Extend
  <2>2. b \o p = p
    BY <1>3, <1>8, ConcatEmptySeq
  <2>. QED
    BY <1>2, <1>6, <2>1, <2>2
<1>9. CASE ~Clean(file) /\ b # << >>
  <2>1. file' \in File /\ Spoils(file, file')
    BY <1>2, <1>3, <1>9, ExtendSpoils
  <2>2. PICK k \in 0..Len(onDisk) : Readable(file') = SubSeq(onDisk, 1, k)
    BY <2>1 DEF Spoils
  <2>. HIDE DEF onDisk
  <2>3. Begins(SubSeq(onDisk, 1, k), log)
    BY <1>2, <1>6, BeginsFirst
  <2>. QED
    BY <2>1, <2>2, <2>3 DEF Spoils
<1>. QED
  BY <1>7, <1>8, <1>9

\* The writer stops, with or without an error.
LEMMA Stopped ==
    ASSUME NEW s \in StoreRecord, NEW e \in BOOLEAN, NEW pc \in {"idle", "drained"}
    PROVE  LET c == [s EXCEPT !.error = e, !.pc = pc, !.batch = << >>, !.clear = FALSE]
           IN  /\ c \in StoreRecord /\ c.shouldClear = s.shouldClear /\ c.error = e /\ c.pc = pc
               /\ c.pending = s.pending
<1> DEFINE queue  == Seq(AnyRecord)
           Stores == [pending : queue, shouldClear : BOOLEAN, error : BOOLEAN,
                      pc : {"idle", "open", "write", "close", "drained"}, batch : queue,
                      clear : BOOLEAN]
           c == [s EXCEPT !.error = e, !.pc = pc, !.batch = << >>, !.clear = FALSE]
<1>1. s \in Stores /\ << >> \in queue /\ Stores = StoreRecord
  BY DEF StoreRecord
<1>. HIDE DEF queue
<1>2. c \in Stores
  BY <1>1
<1>3. c.shouldClear = s.shouldClear /\ c.error = e /\ c.pc = pc /\ c.pending = s.pending
  BY <1>1
<1>. QED
  BY <1>1, <1>2, <1>3

\* A step that changes the store of a live process, and nothing of what it has still to
\* write.
LEMMA QueueStepKeeps ==
    ASSUME LogInv, Live, ~store.error, store' \in StoreRecord, ~store'.shouldClear,
           ~store'.error, Upcoming(store') = Upcoming(store),
           Truncating(store') = Truncating(store),
           UNCHANGED <<file, proc, flush, log, promised, logged>>
    PROVE  LogInv'
<1>1. Typed'
  BY DEF LogInv, Typed
<1>2. Quiet' /\ FlushInLog'
  BY DEF LogInv, Quiet, FlushInLog, Live
<1>3. Complete(file, store', log)
  BY CompleteKept DEF LogInv, NothingMissing
<1>. QED
  BY <1>1, <1>2, <1>3 DEF LogInv, DiskBeginsLog, NothingMissing, FlushedIsDurable

LEMMA EndBatchKeeps == LogInv /\ EndBatch => LogInv'
<1> SUFFICES ASSUME LogInv, EndBatch PROVE LogInv'
  OBVIOUS
<1>1. /\ store \in StoreRecord /\ ~store.shouldClear /\ store.pc = "close"
      /\ Live /\ ~store.error /\ ~Truncating(store)
      /\ UNCHANGED <<file, proc, flush, log, promised, logged>>
  BY DEF LogInv, Typed, Quiet, EndBatch, Truncating
<1>2. CASE More(store)
  <2>1. store' = Take(store)
    BY <1>2 DEF EndBatch
  <2>2. /\ Take(store) \in StoreRecord /\ ~Take(store).shouldClear
        /\ Take(store).error = store.error /\ Upcoming(Take(store)) = Upcoming(store)
        /\ ~Truncating(Take(store))
    BY <1>1, TakeKeeps
  <2>3. Truncating(store') = Truncating(store)
    BY <1>1, <2>1, <2>2 DEF Truncating
  <2>4. /\ store' \in StoreRecord /\ ~store'.shouldClear /\ ~store'.error
        /\ Upcoming(store') = Upcoming(store)
    BY <1>1, <2>1, <2>2
  <2>. QED
    BY <1>1, <2>3, <2>4, QueueStepKeeps
<1>3. CASE ~More(store)
  <2>1. store' = [store EXCEPT !.pc = "drained", !.batch = << >>, !.clear = FALSE]
    BY <1>3 DEF EndBatch
  <2>2. /\ store' \in StoreRecord /\ ~store'.shouldClear /\ ~store'.error
        /\ store'.pc = "drained" /\ store'.pending = store.pending
    <3>. DEFINE c == [store EXCEPT !.error = FALSE, !.pc = "drained", !.batch = << >>,
                                   !.clear = FALSE]
    <3>1. /\ c \in StoreRecord /\ c.shouldClear = store.shouldClear /\ c.error = FALSE
          /\ c.pc = "drained" /\ c.pending = store.pending
      BY <1>1, Stopped
    <3>2. store.error = FALSE
      BY <1>1 DEF StoreRecord
    <3>3. store' = c
      BY <1>1, <2>1, <3>2 DEF StoreRecord
    <3>. HIDE DEF c
    <3>. QED
      BY <1>1, <3>1, <3>3
  <2>3. Upcoming(store') = Upcoming(store) /\ Truncating(store') = Truncating(store)
    BY <1>1, <2>2 DEF Upcoming, Truncating
  <2>. QED
    BY <1>1, <2>2, <2>3, QueueStepKeeps
<1>. QED
  BY <1>2, <1>3

LEMMA SettleDrainKeeps == LogInv /\ SettleDrain => LogInv'
<1> SUFFICES ASSUME LogInv, SettleDrain PROVE LogInv'
  OBVIOUS
<1> DEFINE s == [store EXCEPT !.pc = "idle"]
<1>1. /\ store \in StoreRecord /\ ~store.shouldClear /\ store.pc = "drained"
      /\ Live /\ ~store.error /\ ~Truncating(store)
      /\ UNCHANGED <<file, proc, flush, log, promised, logged>>
  BY DEF LogInv, Typed, Quiet, SettleDrain, Truncating
<1>2. /\ s \in StoreRecord /\ ~s.shouldClear /\ ~s.error /\ s.pc = "idle"
      /\ s.pending = store.pending
  BY <1>1 DEF StoreRecord
<1>3. Upcoming(s) = Upcoming(store) /\ ~Truncating(s)
  BY <1>1, <1>2 DEF Upcoming, Truncating
<1>4. store' = IF More(s) THEN EnsureFlush(s) ELSE s
  BY DEF SettleDrain
<1>. HIDE DEF s
<1>5. CASE More(s)
  <2>1. store' = Take(s)
    BY <1>2, <1>4, <1>5 DEF EnsureFlush
  <2>2. /\ Take(s) \in StoreRecord /\ ~Take(s).shouldClear /\ Take(s).error = s.error
        /\ Upcoming(Take(s)) = Upcoming(s) /\ ~Truncating(Take(s))
    BY <1>2, TakeKeeps
  <2>3. Truncating(store') = Truncating(store)
    BY <1>1, <2>1, <2>2 DEF Truncating
  <2>4. /\ store' \in StoreRecord /\ ~store'.shouldClear /\ ~store'.error
        /\ Upcoming(store') = Upcoming(store)
    BY <1>2, <1>3, <2>1, <2>2
  <2>. QED
    BY <1>1, <2>3, <2>4, QueueStepKeeps
<1>6. CASE ~More(s)
  <2>1. store' = s
    BY <1>4, <1>6
  <2>2. Truncating(store') = Truncating(store)
    BY <1>1, <1>3, <2>1 DEF Truncating
  <2>3. /\ store' \in StoreRecord /\ ~store'.shouldClear /\ ~store'.error
        /\ Upcoming(store') = Upcoming(store)
    BY <1>2, <1>3, <2>1
  <2>. QED
    BY <1>1, <2>2, <2>3, QueueStepKeeps
<1>. QED
  BY <1>5, <1>6

LEMMA DrainFailsKeeps == LogInv /\ DrainFails => LogInv'
<1> SUFFICES ASSUME LogInv, DrainFails PROVE LogInv'
  OBVIOUS
<1>1. /\ store \in StoreRecord /\ ~store.shouldClear /\ store.pc # "idle" /\ Live /\ Typed
      /\ UNCHANGED <<proc, flush, log, promised, logged>>
      /\ store' = [store EXCEPT !.error = TRUE, !.pc = "idle", !.batch = << >>, !.clear = FALSE]
      /\ file' \in Remains
  BY DEF LogInv, Typed, Quiet, DrainFails
<1>2. /\ store' \in StoreRecord /\ ~store'.shouldClear /\ store'.error /\ store'.pc = "idle"
  BY <1>1, Stopped
<1>3. /\ file' \in File /\ Begins(Readable(file'), log)
      /\ Intact(file') => Len(Readable(file')) >= promised
  BY <1>1, RemainsKept
<1>4. Typed'
  BY <1>1, <1>2, <1>3 DEF Typed
<1>5. Quiet' /\ FlushInLog'
  BY <1>1, <1>2 DEF LogInv, Quiet, FlushInLog, Live
<1>6. NothingMissing' /\ DiskBeginsLog' /\ FlushedIsDurable'
  BY <1>1, <1>2, <1>3 DEF NothingMissing, DiskBeginsLog, FlushedIsDurable
<1>. QED
  BY <1>4, <1>5, <1>6 DEF LogInv

-----------------------------------------------------------------------------
(* The steps of the agent *)

LEMMA MetadataTyped == Metadata \in AnyRecord
BY RecordsAssumption DEF Metadata, Record, AnyRecord

\* Logging one record, with nothing else changed.
LEMMA AppendStepKeeps ==
    ASSUME Typed, NEW s \in StoreRecord, ~s.shouldClear, ~s.error, NEW records \in Seq(AnyRecord),
           NEW r \in AnyRecord, Complete(file, s, records), Begins(Readable(file), records)
    PROVE  LET c == AppendTo(s, r)
               longer == Append(records, r)
           IN  /\ c \in StoreRecord /\ ~c.shouldClear /\ ~c.error /\ longer \in Seq(AnyRecord)
               /\ Complete(file, c, longer) /\ Begins(Readable(file), longer)
               /\ Len(longer) = Len(records) + 1
<1>1. file \in File /\ Readable(file) \in Seq(AnyRecord)
  BY ReadableTyped DEF Typed
<1>2. /\ AppendTo(s, r) \in StoreRecord /\ ~AppendTo(s, r).shouldClear /\ ~AppendTo(s, r).error
  BY AppendToKeeps
<1>3. Complete(file, AppendTo(s, r), Append(records, r))
  BY <1>1, AppendCompletes
<1>4. /\ Append(records, r) \in Seq(AnyRecord) /\ Len(Append(records, r)) = Len(records) + 1
      /\ Append(records, r) = records \o <<r>> /\ <<r>> \in Seq(AnyRecord)
  BY AppendProperties, AppendIsConcat
<1>5. Begins(Readable(file), records \o <<r>>)
  BY <1>1, <1>4, SameExtended
<1>. QED
  BY <1>2, <1>3, <1>4, <1>5

LEMMA LogRecordKeeps == LogInv /\ LogRecord => LogInv'
<1> SUFFICES ASSUME LogInv, LogRecord PROVE LogInv'
  OBVIOUS
<1> DEFINE record   == Record(logged + 1, "new")
           started  == IF metadataInitialized THEN store ELSE AppendTo(store, Metadata)
           before   == IF metadataInitialized THEN log ELSE Append(log, Metadata)
           appended == AppendTo(started, record)
           after    == Append(before, record)
<1>1. /\ Typed /\ Live /\ ~store.error /\ Complete(file, store, log) /\ proc = "up"
      /\ Begins(Readable(file), log) /\ logged < MaxRecords
      /\ UNCHANGED <<file, proc, flush, promised>> /\ logged' = logged + 1
      /\ store' = appended
      /\ log' = log \o (IF metadataInitialized THEN <<record>> ELSE <<Metadata, record>>)
  BY DEF LogInv, NothingMissing, DiskBeginsLog, LogRecord, Live
<1>2. /\ store \in StoreRecord /\ ~store.shouldClear /\ log \in Seq(AnyRecord)
      /\ logged + 1 \in 0..MaxRecords /\ logged + 1 \in Nat /\ Len(log) \in Nat
  BY <1>1, RecordsAssumption DEF Typed
<1>3. record \in AnyRecord
  BY <1>2 DEF Record, AnyRecord
<1>4. /\ started \in StoreRecord /\ ~started.shouldClear /\ ~started.error
      /\ before \in Seq(AnyRecord) /\ Complete(file, started, before)
      /\ Begins(Readable(file), before) /\ Len(before) >= Len(log)
  <2>1. CASE metadataInitialized
    BY <1>1, <1>2, <2>1
  <2>2. CASE ~metadataInitialized
    BY <1>1, <1>2, <2>2, MetadataTyped, AppendStepKeeps
  <2>. QED
    BY <2>1, <2>2
<1>5. log' = after
  <2>1. CASE metadataInitialized
    BY <1>1, <1>2, <1>3, <2>1, AppendIsConcat
  <2>2. CASE ~metadataInitialized
    <3>. DEFINE m == Metadata
    <3>1. m \in AnyRecord /\ log' = log \o <<m, record>> /\ after = Append(Append(log, m), record)
      BY <1>1, <2>2, MetadataTyped
    <3>. HIDE DEF m, record, after
    <3>2. log \o <<m, record>> = Append(Append(log, m), record)
      BY <1>2, <1>3, <3>1
    <3>. QED
      BY <3>1, <3>2
  <2>. QED
    BY <2>1, <2>2
<1>. HIDE DEF record, started, before
<1>6. /\ appended \in StoreRecord /\ ~appended.shouldClear /\ ~appended.error
      /\ after \in Seq(AnyRecord) /\ Complete(file, appended, after)
      /\ Begins(Readable(file), after) /\ Len(after) = Len(before) + 1
  BY <1>1, <1>3, <1>4, AppendStepKeeps
<1>7. Len(before) \in Nat
  BY <1>4
<1>. HIDE DEF appended, after
<1>8. Typed'
  BY <1>1, <1>2, <1>5, <1>6 DEF Typed
<1>9. Len(log') >= Len(log) /\ Len(log') \in Nat
  BY <1>2, <1>4, <1>5, <1>6, <1>7
<1>10. Quiet' /\ FlushInLog'
  <2>1. Quiet'
    BY <1>1, <1>6 DEF Quiet, Live
  <2>2. flush # None => flush \in Nat /\ flush <= Len(log)
    BY <1>1 DEF LogInv, FlushInLog, Typed
  <2>. QED
    BY <1>1, <1>2, <1>9, <2>1, <2>2 DEF FlushInLog
<1>11. NothingMissing' /\ DiskBeginsLog' /\ FlushedIsDurable'
  BY <1>1, <1>5, <1>6 DEF LogInv, NothingMissing, DiskBeginsLog, FlushedIsDurable
<1>. QED
  BY <1>8, <1>10, <1>11 DEF LogInv

LEMMA FlushKeeps == LogInv /\ Flush => LogInv'
<1> SUFFICES ASSUME LogInv, Flush PROVE LogInv'
  OBVIOUS
<1>1. /\ Typed /\ proc = "up" /\ flush' = Len(log) /\ Len(log) \in Nat
      /\ UNCHANGED <<file, proc, store, log, promised, logged>>
  BY DEF LogInv, Typed, Flush
<1>2. Typed' /\ FlushInLog' /\ Quiet'
  BY <1>1 DEF LogInv, Typed, FlushInLog, Quiet, Live
<1>. QED
  BY <1>1, <1>2 DEF LogInv, NothingMissing, DiskBeginsLog, FlushedIsDurable, Live

\* When the drain is over, what is on disk is what the process has done.
LEMMA DrainedIsComplete ==
    ASSUME LogInv, Live, Drained(store)
    PROVE  Intact(file) => Len(Readable(file)) = Len(log)
<1>1. store.pc = "idle" /\ store.pending = << >> /\ ~store.error
  BY DEF Drained, More
<1>2. Upcoming(store) = << >> /\ ~Truncating(store)
  BY <1>1, ConcatEmptySeq DEF Upcoming, Truncating
<1>3. Readable(file) \in Seq(AnyRecord)
  BY ReadableTyped DEF LogInv, Typed
<1>4. Readable(file) \o << >> = Readable(file)
  BY <1>3, ConcatEmptySeq
<1>. QED
  BY <1>1, <1>2, <1>4 DEF LogInv, NothingMissing, Complete, SameIds

LEMMA FlushReturnsKeeps == LogInv /\ FlushReturns => LogInv'
<1> SUFFICES ASSUME LogInv, FlushReturns PROVE LogInv'
  OBVIOUS
<1>1. /\ Typed /\ flush \in Nat /\ flush <= Len(log) /\ proc = "up" /\ Drained(store) /\ Live
      /\ promised' = flush /\ flush' = None /\ Len(log) \in Nat
      /\ UNCHANGED <<file, proc, store, log, logged>>
  BY DEF LogInv, Typed, FlushInLog, FlushReturns, Live
<1>2. Intact(file) => Len(Readable(file)) = Len(log)
  BY <1>1, DrainedIsComplete
<1>3. Typed' /\ FlushInLog' /\ Quiet'
  BY <1>1 DEF LogInv, Typed, FlushInLog, Quiet, Live
<1>4. FlushedIsDurable'
  BY <1>1, <1>2 DEF FlushedIsDurable
<1>. QED
  BY <1>1, <1>3, <1>4 DEF LogInv, NothingMissing, DiskBeginsLog, Live

LEMMA FlushThrowsKeeps == LogInv /\ FlushThrows => LogInv'
BY DEF LogInv, FlushThrows, Typed, FlushInLog, Quiet, Live, NothingMissing, DiskBeginsLog,
       FlushedIsDurable

\* The end of replay, whether it stamps the log or not.
LEMMA StampKeeps ==
    ASSUME Typed, flush = None, NEW s \in StoreRecord, ~s.shouldClear, ~s.error,
           NEW records \in Seq(AnyRecord), Complete(file, s, records),
           Begins(Readable(file), records), Stamp(records, s),
           UNCHANGED <<file, flush, logged>>, promised' \in Nat,
           Intact(file) => Len(Readable(file)) >= promised'
    PROVE  LogInv'
<1>1. CASE proc' = "up" /\ store' = s /\ log' = records
  <2>1. Typed' /\ FlushInLog' /\ Quiet'
    BY <1>1 DEF Typed, FlushInLog, Quiet, Live
  <2>. QED
    BY <1>1, <2>1 DEF LogInv, NothingMissing, DiskBeginsLog, FlushedIsDurable
<1>2. CASE proc' = "stamping" /\ store' = AppendTo(s, Metadata) /\ log' = Append(records, Metadata)
  <2> DEFINE c == AppendTo(s, Metadata)
             longer == Append(records, Metadata)
  <2>1. /\ c \in StoreRecord /\ ~c.shouldClear /\ ~c.error /\ longer \in Seq(AnyRecord)
        /\ Complete(file, c, longer) /\ Begins(Readable(file), longer)
    BY MetadataTyped, AppendStepKeeps
  <2>2. store' = c /\ log' = longer
    BY <1>2
  <2>. HIDE DEF c, longer
  <2>3. Typed' /\ FlushInLog' /\ Quiet'
    BY <1>2, <2>1, <2>2 DEF Typed, FlushInLog, Quiet, Live
  <2>. QED
    BY <2>1, <2>2, <2>3 DEF LogInv, NothingMissing, DiskBeginsLog, FlushedIsDurable
<1>. QED
  BY <1>1, <1>2 DEF Stamp

LEMMA MigratedTyped ==
    ASSUME NEW records \in Seq(AnyRecord)
    PROVE  /\ Migrated(records) \in Seq(AnyRecord)
           /\ SameIds(Migrated(records), records) /\ SameIds(records, Migrated(records))
<1> DEFINE m == Migrated(records)
<1>1. DOMAIN records = 1..Len(records) /\ Len(records) \in Nat
  OBVIOUS
<1>2. \A i \in 1..Len(records) : Record(records[i].id, "new") \in AnyRecord
                                 /\ Record(records[i].id, "new").id = records[i].id
  <2> SUFFICES ASSUME NEW i \in 1..Len(records)
               PROVE  Record(records[i].id, "new") \in AnyRecord
                      /\ Record(records[i].id, "new").id = records[i].id
    OBVIOUS
  <2>1. records[i] \in AnyRecord
    BY <1>1
  <2>. QED
    BY <2>1 DEF AnyRecord, Record
<1>3. m = [i \in 1..Len(records) |-> Record(records[i].id, "new")]
  BY <1>1 DEF Migrated
<1>. HIDE DEF m
<1>4. m \in Seq(AnyRecord) /\ Len(m) = Len(records)
  BY <1>1, <1>2, <1>3
<1>5. \A i \in 1..Len(records) : m[i].id = records[i].id
  BY <1>2, <1>3
<1>. QED
  BY <1>4, <1>5 DEF SameIds, m

LEMMA ReplayKeeps == LogInv /\ Replay => LogInv'
<1> SUFFICES ASSUME LogInv, Replay PROVE LogInv'
  OBVIOUS
<1> DEFINE records == Readable(file)
<1>1. /\ Typed /\ store = NewStore /\ flush = None /\ UNCHANGED <<file, flush, promised, logged>>
      /\ records \in Seq(AnyRecord)
  BY ReadableTyped DEF LogInv, Typed, Quiet, FlushInLog, Replay
<1>2. /\ store \in StoreRecord /\ ~store.shouldClear /\ ~store.error /\ store.pc = "idle"
      /\ Upcoming(store) = << >> /\ ~Truncating(store)
  BY <1>1, ConcatEmptySeq DEF LogInv, Typed, NewStore, Upcoming, Truncating
<1>3. CASE ReplayRefuses
  <2>1. proc' = "failed" /\ UNCHANGED <<store, log>>
    BY <1>3 DEF Replay
  <2>2. Typed' /\ FlushInLog' /\ Quiet'
    BY <1>1, <1>2, <2>1 DEF LogInv, Typed, FlushInLog, Quiet, Live
  <2>. QED
    BY <1>1, <2>1, <2>2 DEF LogInv, NothingMissing, DiskBeginsLog, FlushedIsDurable, Live
<1>4. CASE ~ReplayRefuses /\ records # << >> /\ records[1].version = "old"
  <2> DEFINE m == Migrated(records)
             c == Rewrite(store, m)
  <2>1. proc' = "migrating" /\ log' = m /\ store' = c
    BY <1>4 DEF Replay
  <2>2. m \in Seq(AnyRecord) /\ SameIds(m, records) /\ SameIds(records, m) /\ << >> \in Seq(AnyRecord)
    BY <1>1, MigratedTyped
  <2>. HIDE DEF m
  <2>3. c = [pending |-> << >>, shouldClear |-> FALSE, error |-> FALSE,
             pc |-> "open", batch |-> m, clear |-> TRUE]
    BY <1>1 DEF NewStore, Rewrite, EnsureFlush, Take
  <2>4. c \in StoreRecord /\ ~c.shouldClear /\ ~c.error /\ c.pc = "open"
    BY <2>2, <2>3 DEF StoreRecord
  <2>5. Upcoming(c) = m \o << >> /\ Truncating(c) /\ m \o << >> = m
    BY <2>2, <2>3, ConcatEmptySeq DEF Upcoming, Truncating
  <2>. HIDE DEF c
  <2>6. Complete(file, c, m)
    BY <2>2, <2>5 DEF Complete, SameIds
  <2>7. Begins(records, m)
    BY <1>1, <2>2, SameBegins
  <2>8. Typed' /\ FlushInLog' /\ Quiet'
    BY <1>1, <2>1, <2>2, <2>4 DEF LogInv, Typed, FlushInLog, Quiet, Live
  <2>. QED
    BY <1>1, <2>1, <2>4, <2>6, <2>7, <2>8 DEF LogInv, NothingMissing, DiskBeginsLog, FlushedIsDurable
<1>5. CASE ~ReplayRefuses /\ ~(records # << >> /\ records[1].version = "old")
  <2>1. Stamp(records, store)
    BY <1>5 DEF Replay
  <2>2. Complete(file, store, records) /\ Begins(Readable(file), records)
    BY <1>1, <1>2, ConcatEmptySeq DEF Complete, SameIds, Begins
  <2>3. promised' \in Nat /\ (Intact(file) => Len(Readable(file)) >= promised')
    BY <1>1 DEF LogInv, Typed, FlushedIsDurable
  <2>. HIDE DEF records
  <2>. QED
    BY <1>1, <1>2, <2>1, <2>2, <2>3, StampKeeps
<1>. QED
  BY <1>3, <1>4, <1>5

LEMMA MigrationFlushedKeeps == LogInv /\ MigrationFlushed => LogInv'
<1> SUFFICES ASSUME LogInv, MigrationFlushed PROVE LogInv'
  OBVIOUS
<1>1. /\ Typed /\ Live /\ proc = "migrating" /\ Drained(store) /\ Stamp(log, store)
      /\ promised' = Len(log) /\ UNCHANGED <<file, flush, logged>>
  BY DEF LogInv, MigrationFlushed, Live
<1>2. flush = None /\ store \in StoreRecord /\ ~store.shouldClear /\ ~store.error
      /\ log \in Seq(AnyRecord) /\ promised' \in Nat
  BY <1>1 DEF LogInv, Typed, FlushInLog, Drained
<1>3. Intact(file) => Len(Readable(file)) = Len(log)
  BY <1>1, DrainedIsComplete
<1>4. Complete(file, store, log) /\ Begins(Readable(file), log)
  BY <1>1, <1>2 DEF LogInv, NothingMissing, DiskBeginsLog
<1>5. Intact(file) => Len(Readable(file)) >= promised'
  BY <1>1, <1>2, <1>3
<1>. QED
  BY <1>1, <1>2, <1>4, <1>5, StampKeeps

LEMMA StampFlushedKeeps == LogInv /\ StampFlushed => LogInv'
<1> SUFFICES ASSUME LogInv, StampFlushed PROVE LogInv'
  OBVIOUS
<1>1. /\ Typed /\ Live /\ proc = "stamping" /\ Drained(store) /\ proc' = "up"
      /\ promised' = Len(log) /\ UNCHANGED <<file, store, flush, log, logged>>
  BY DEF LogInv, StampFlushed, Live
<1>2. Intact(file) => Len(Readable(file)) = Len(log)
  BY <1>1, DrainedIsComplete
<1>3. Typed' /\ FlushInLog' /\ Quiet' /\ Len(log) \in Nat
  BY <1>1 DEF LogInv, Typed, FlushInLog, Quiet, Live
<1>4. FlushedIsDurable'
  BY <1>1, <1>2, <1>3 DEF FlushedIsDurable
<1>. QED
  BY <1>1, <1>3, <1>4 DEF LogInv, NothingMissing, DiskBeginsLog, Live

LEMMA ReplayThrowsKeeps == LogInv /\ ReplayThrows => LogInv'
BY DEF LogInv, ReplayThrows, Typed, FlushInLog, Quiet, Live, NothingMissing, DiskBeginsLog,
       FlushedIsDurable

LEMMA CrashKeeps == LogInv /\ Crash => LogInv'
<1> SUFFICES ASSUME LogInv, Crash PROVE LogInv'
  OBVIOUS
<1>1. /\ Typed /\ proc' = "down" /\ store' = NewStore /\ flush' = None /\ file' \in Remains
      /\ UNCHANGED <<log, promised, logged>>
  BY DEF LogInv, Crash
<1>2. /\ file' \in File /\ Begins(Readable(file'), log)
      /\ Intact(file') => Len(Readable(file')) >= promised
  BY <1>1, RemainsKept
<1>3. store' \in StoreRecord /\ ~store'.shouldClear /\ store'.pc = "idle"
  BY <1>1 DEF NewStore, StoreRecord
<1>4. Typed' /\ FlushInLog' /\ Quiet'
  BY <1>1, <1>2, <1>3 DEF Typed, FlushInLog, Quiet, Live
<1>. QED
  BY <1>1, <1>2, <1>4 DEF LogInv, NothingMissing, DiskBeginsLog, FlushedIsDurable, Live

-----------------------------------------------------------------------------
(* The theorems *)

\* The inductive invariant: queue, file and log together.
THEOREM InductiveInvariant == Spec => []LogInv
<1>1. Init => LogInv
  BY InitLog
<1>2. LogInv /\ [Next]_vars => LogInv'
  <2> SUFFICES ASSUME LogInv, [Next]_vars PROVE LogInv'
    OBVIOUS
  <2>1. CASE UNCHANGED vars
    BY <2>1 DEF vars, LogInv, Typed, Quiet, FlushInLog, Live, NothingMissing, DiskBeginsLog,
                FlushedIsDurable
  <2>2. CASE Next
    BY <2>2, OpenKeeps, WriteKeeps, EndBatchKeeps, SettleDrainKeeps, DrainFailsKeeps,
       LogRecordKeeps, FlushKeeps, FlushReturnsKeeps, FlushThrowsKeeps, ReplayKeeps,
       MigrationFlushedKeeps, StampFlushedKeeps, ReplayThrowsKeeps, CrashKeeps DEF Next
  <2>. QED
    BY <2>1, <2>2
<1>. QED
  BY <1>1, <1>2, PTL DEF Spec

\* What a restart would replay is always a prefix of what the process has done.
THEOREM DiskNeverDiverges == Spec => []DiskIsAPrefix
<1>1. LogInv => DiskIsAPrefix
  <2> SUFFICES ASSUME LogInv PROVE DiskIsAPrefix
    OBVIOUS
  <2> DEFINE s == Readable(file)
             a == Ids(s)
             b == Ids(log)
  <2>1. s \in Seq(AnyRecord) /\ log \in Seq(AnyRecord) /\ Begins(s, log)
    BY ReadableTyped DEF LogInv, Typed, DiskBeginsLog
  <2>2. /\ a = [i \in 1..Len(s) |-> s[i].id] /\ b = [i \in 1..Len(log) |-> log[i].id]
        /\ Len(s) \in Nat /\ Len(log) \in Nat
    BY <2>1 DEF Ids
  <2>3. /\ \A i \in 1..Len(s) : s[i].id \in 0..MaxRecords
        /\ \A i \in 1..Len(log) : log[i].id \in 0..MaxRecords
    <3>1. (\A i \in 1..Len(s) : s[i] \in AnyRecord) /\ (\A i \in 1..Len(log) : log[i] \in AnyRecord)
      BY <2>1
    <3>. QED
      BY <3>1 DEF AnyRecord
  <2>. HIDE DEF a, b, s
  <2>4. /\ a \in Seq(0..MaxRecords) /\ b \in Seq(0..MaxRecords)
        /\ Len(a) = Len(s) /\ Len(b) = Len(log)
    BY <2>2, <2>3
  <2>5. Len(a) <= Len(b) /\ \A i \in 1..Len(a) : a[i] = b[i]
    BY <2>1, <2>2, <2>4 DEF Begins
  <2>6. SubSeq(a, 1, Len(a)) = SubSeq(b, 1, Len(a))
    BY <2>4, <2>5
  <2>. QED
    BY <2>5, <2>6 DEF DiskIsAPrefix, IsPrefix, a, b, s
<1>. QED
  BY <1>1, InductiveInvariant, PTL

\* The records appended before a flush that has returned are read back after any
\* later failure or crash.
THEOREM FlushKeepsItsWord == Spec => []FlushedIsDurable
<1>1. LogInv => FlushedIsDurable
  BY DEF LogInv
<1>. QED
  BY <1>1, InductiveInvariant, PTL

\* The file, the queues of the writer and the log hold records only, and a rewrite never
\* meets a writer at work.
THEOREM TypeCorrect == Spec => []TypeOK
<1>1. LogInv => TypeOK
  <2>1. LogInv => file \in File /\ store \in StoreRecord
    BY DEF LogInv, Typed
  <2>2. \A f \in File : f.lines \in Seq(AnyRecord \cup {Corrupt})
                        /\ f.tail \in AnyRecord \cup {None, Torn, Corrupt}
    BY DEF File, Line
  <2>3. \A s \in StoreRecord :
            /\ s.pc \in {"idle", "open", "write", "close", "drained"}
            /\ s.pending \in Seq(AnyRecord) /\ s.batch \in Seq(AnyRecord)
    BY DEF StoreRecord
  <2>. QED
    BY <2>1, <2>2, <2>3 DEF LogInv, Typed, TypeOK
<1>. QED
  BY <1>1, InductiveInvariant, PTL

\* A writer that rests without an error has nothing queued: whoever queues a record wakes
\* it, and a drain that settles looks once more.
RestIsEmpty == store.pc = "idle" /\ ~store.error => store.pending = << >>

LEMMA EnsureFlushWakes ==
    ASSUME NEW s \in StoreRecord
    PROVE  EnsureFlush(s).pc # "idle"
<1>1. Take(s).pc = "open"
  BY DEF Take, StoreRecord
<1>. QED
  BY <1>1 DEF EnsureFlush

LEMMA SettledRestsEmpty == LogInv /\ SettleDrain => RestIsEmpty'
<1> SUFFICES ASSUME LogInv, SettleDrain PROVE RestIsEmpty'
  OBVIOUS
<1> DEFINE s == [store EXCEPT !.pc = "idle"]
<1>1. store' = IF More(s) THEN EnsureFlush(s) ELSE s
  BY DEF SettleDrain
<1>2. s \in StoreRecord
  <2>1. store \in StoreRecord
    BY DEF LogInv, Typed
  <2>. QED
    BY <2>1 DEF StoreRecord
<1>. HIDE DEF s
<1>3. CASE More(s)
  BY <1>1, <1>2, <1>3, EnsureFlushWakes DEF RestIsEmpty
<1>4. CASE ~More(s)
  BY <1>1, <1>4 DEF More, RestIsEmpty
<1>. QED
  BY <1>3, <1>4

LEMMA LoggedWakes == LogInv /\ LogRecord => RestIsEmpty'
<1> SUFFICES ASSUME LogInv, LogRecord PROVE RestIsEmpty'
  OBVIOUS
<1> DEFINE record  == Record(logged + 1, "new")
           started == IF metadataInitialized THEN store ELSE AppendTo(store, Metadata)
<1>1. /\ store \in StoreRecord /\ ~store.shouldClear /\ logged < MaxRecords /\ logged \in Nat
      /\ store' = AppendTo(started, record)
  BY DEF LogInv, Typed, LogRecord
<1>2. record \in AnyRecord
  <2>1. logged + 1 \in 0..MaxRecords
    BY <1>1, RecordsAssumption
  <2>. QED
    BY <2>1 DEF Record, AnyRecord
<1>3. started \in StoreRecord /\ ~started.shouldClear
  BY <1>1, MetadataTyped, AppendToKeeps
<1>. HIDE DEF started, record
<1>4. AppendTo(started, record).pc # "idle"
  BY <1>2, <1>3, AppendToKeeps
<1>. QED
  BY <1>1, <1>4 DEF RestIsEmpty

LEMMA StampWakes ==
    ASSUME LogInv, RestIsEmpty, NEW records, Stamp(records, store)
    PROVE  RestIsEmpty'
<1>1. store \in StoreRecord /\ ~store.shouldClear
  BY DEF LogInv, Typed
<1>2. AppendTo(store, Metadata).pc # "idle"
  BY <1>1, MetadataTyped, AppendToKeeps
<1>. QED
  BY <1>2 DEF Stamp, RestIsEmpty

LEMMA ReplayRestsEmpty == LogInv /\ RestIsEmpty /\ Replay => RestIsEmpty'
<1> SUFFICES ASSUME LogInv, RestIsEmpty, Replay PROVE RestIsEmpty'
  OBVIOUS
<1> DEFINE records == Readable(file)
           m == Migrated(records)
<1>1. CASE UNCHANGED store
  BY <1>1 DEF RestIsEmpty
<1>2. CASE store' = Rewrite(store, m)
  <2>1. store = NewStore
    BY DEF LogInv, Quiet, Replay
  <2>2. Rewrite(store, m).pc = "open"
    BY <2>1 DEF NewStore, Rewrite, EnsureFlush, Take
  <2>. QED
    BY <1>2, <2>2 DEF RestIsEmpty
<1>3. CASE Stamp(records, store)
  BY <1>3, StampWakes
<1>. QED
  BY <1>1, <1>2, <1>3 DEF Replay

LEMMA RestsEmpty == LogInv /\ RestIsEmpty /\ [Next]_vars => RestIsEmpty'
<1> SUFFICES ASSUME LogInv, RestIsEmpty, [Next]_vars PROVE RestIsEmpty'
  OBVIOUS
<1>0. store \in StoreRecord
  BY DEF LogInv, Typed
<1>1. CASE UNCHANGED store
  BY <1>1 DEF RestIsEmpty
<1>2. CASE Open \/ WriteAndSync
  <2>1. store'.pc # "idle"
    BY <1>0, <1>2 DEF Open, WriteAndSync, StoreRecord
  <2>. QED
    BY <2>1 DEF RestIsEmpty
<1>3. CASE EndBatch
  <2>1. store'.pc # "idle"
    BY <1>0, <1>3 DEF EndBatch, Take, StoreRecord
  <2>. QED
    BY <2>1 DEF RestIsEmpty
<1>4. CASE DrainFails
  <2>1. store'.error
    BY <1>0, <1>4 DEF DrainFails, StoreRecord
  <2>. QED
    BY <2>1 DEF RestIsEmpty
<1>5. CASE Crash
  BY <1>5 DEF Crash, NewStore, RestIsEmpty
<1>6. CASE MigrationFlushed
  BY <1>6, StampWakes DEF MigrationFlushed
<1>7. CASE Flush \/ FlushReturns \/ FlushThrows \/ StampFlushed \/ ReplayThrows \/ UNCHANGED vars
  BY <1>1, <1>7 DEF Flush, FlushReturns, FlushThrows, StampFlushed, ReplayThrows, vars
<1>. QED
  BY <1>2, <1>3, <1>4, <1>5, <1>6, <1>7, SettledRestsEmpty, LoggedWakes, ReplayRestsEmpty DEF Next

\* The writer rests only when all that was recorded is on disk: no record waits for a
\* later append to be written.
THEOREM RestingMeansWritten == Spec => []IdleMeansWritten
<1>1. Init => RestIsEmpty
  BY DEF Init, NewStore, RestIsEmpty
<1>2. LogInv /\ RestIsEmpty /\ [Next]_vars => RestIsEmpty'
  BY RestsEmpty
<1>3. LogInv /\ RestIsEmpty => IdleMeansWritten
  <2> SUFFICES ASSUME LogInv, RestIsEmpty, proc = "up", store.pc = "idle", ~store.error,
                      Intact(file)
               PROVE  Ids(Readable(file)) = Ids(log)
    BY DEF IdleMeansWritten
  <2> DEFINE onDisk == Readable(file)
  <2>1. onDisk \in Seq(AnyRecord) /\ log \in Seq(AnyRecord)
    BY ReadableTyped DEF LogInv, Typed
  <2>2. Live /\ Upcoming(store) = << >> /\ ~Truncating(store)
    BY ConcatEmptySeq DEF Live, RestIsEmpty, Upcoming, Truncating
  <2>3. Complete(file, store, log)
    BY <2>2 DEF LogInv, NothingMissing
  <2>. HIDE DEF onDisk
  <2>4. onDisk \o << >> = onDisk
    BY <2>1, ConcatEmptySeq
  <2>5. SameIds(onDisk, log)
    BY <2>2, <2>3, <2>4 DEF Complete, onDisk
  <2>6. /\ DOMAIN onDisk = 1..Len(onDisk) /\ DOMAIN log = 1..Len(log)
        /\ Len(onDisk) = Len(log) /\ \A i \in 1..Len(onDisk) : onDisk[i].id = log[i].id
    BY <2>1, <2>5 DEF SameIds
  <2>7. Ids(onDisk) = Ids(log)
    BY <2>6 DEF Ids
  <2>. QED
    BY <2>7 DEF onDisk
<1>. QED
  BY <1>1, <1>2, <1>3, InductiveInvariant, PTL DEF Spec

-----------------------------------------------------------------------------
-----------------------------------------------------------------------------
(* The conversation: the names of its messages, and one request at a time *)

\* The name of a tool call: its step and its place among the calls of the step.
Pairs == Nat \X Nat

Kinds == {"prompt", "reminder", "injection", "summary", "assistant", "tool"}

AnyMessage == [kind : Kinds, id : Nat \cup Pairs, calls : SUBSET Pairs, text : BOOLEAN]

Worker ==
    [pc : {"idle", "ready", "step", "blocked", "ended"}, step : Nat, calls : Nat,
     results : Nat, aborted : BOOLEAN]

Compactor ==
    [pc : {"idle", "generating", "done", "failed"}, aborted : BOOLEAN,
     snapshot : Seq(AnyMessage), count : Nat]

ContextTyped ==
    /\ history \in Seq(AnyMessage) /\ deferredMessages \in Seq(AnyMessage)
    /\ openSteps \in SUBSET Nat /\ pendingToolResultIds \in SUBSET Pairs
    /\ worker \in [Turns -> Worker]
    /\ activeTurn \in Turns \cup {NoTurn}
    /\ compacting \in Compactions \cup {0}
    /\ compactor \in [Compactions -> Compactor]
    /\ used \in [turns : Nat, reminders : Nat, steps : Nat, compactions : Nat,
                 edits : Nat, restarts : Nat]
    /\ used.turns <= MaxTurns /\ used.compactions <= MaxCompactions
    /\ unknownStep \in BOOLEAN

\* The names of some messages.
Names(messages) == {Name(messages[i]) : i \in DOMAIN messages}

\* No two of them have the same.
Distinct(messages) ==
    \A i, j \in DOMAIN messages : Name(messages[i]) = Name(messages[j]) => i = j

Apart(messages, deferred) ==
    Distinct(messages) /\ Distinct(deferred) /\ Names(messages) \cap Names(deferred) = {}

\* The results that have been recorded, when a step that still runs has them.
Recorded ==
    {p \in (1..used.steps) \X Nat : \A w \in Turns :
        worker[w].pc = "step" /\ worker[w].step = p[1] => p[2] <= worker[w].results}

\* The names that have been given out.
Spent ==
    ({"prompt"} \X (1..used.turns)) \cup ({"reminder", "injection"} \X (1..used.reminders))
    \cup ({"summary"} \X {c \in Compactions : compactor[c].pc = "done"})
    \cup ({"assistant"} \X (1..used.steps)) \cup ({"tool"} \X Recorded)

\* Where the next names come from.
Counters ==
    /\ \A w \in Turns : worker[w].pc = "step" => worker[w].step \in 1..used.steps
    /\ \A v, w \in Turns :
          worker[v].pc = "step" /\ worker[w].pc = "step" /\ worker[v].step = worker[w].step => v = w
    /\ \A c \in Compactions : compactor[c].pc # "idle" => c <= used.compactions
    /\ \A c \in Compactions : compactor[c].count <= Len(compactor[c].snapshot)

NamesInv ==
    /\ ContextTyped /\ Counters
    /\ Apart(history, deferredMessages)
    /\ Names(history) \cup Names(deferredMessages) \subseteq Spent

-----------------------------------------------------------------------------

\* One turn that is not aborted at a time, and one worker in a step: the others have
\* only to notice that they are aborted.
OneAtATime ==
    /\ \A w \in Turns : Running(w) /\ ~worker[w].aborted => activeTurn = w
    /\ \A v, w \in Turns : worker[v].pc = "step" /\ Running(w) /\ v # w =>
          worker[w].aborted /\ worker[w].pc # "step"

\* A worker in its step: the calls of its message, of which the first have results,
\* and where that message stands.
Serving(w) ==
    /\ worker[w].results <= worker[w].calls
    /\ worker[w].step \in openSteps
    /\ pendingToolResultIds =
          {<<worker[w].step, k>> : k \in (worker[w].results + 1)..worker[w].calls}
    /\ \E j \in DOMAIN history :
          /\ Name(history[j]) = <<"assistant", worker[w].step>>
          /\ history[j].calls = {<<worker[w].step, k>> : k \in 1..worker[w].calls}
          /\ worker[w].results = 0 => j = Len(history)
          /\ worker[w].results < worker[w].calls =>
                \A k \in (j + 1)..Len(history) : history[k].kind = "tool"

Plain(m) == m.kind # "tool" /\ (m.kind = "assistant" => m.calls = {})

Exchange ==
    /\ \A w \in Turns : worker[w].pc = "step" => Serving(w)
    /\ (\A w \in Turns : worker[w].pc # "step") => pendingToolResultIds = {}
    /\ pendingToolResultIds = {} => deferredMessages = << >>
    /\ \A i \in DOMAIN deferredMessages :
          Plain(deferredMessages[i]) /\ deferredMessages[i].kind # "assistant"

\* Every call is its message's own, and has its result or is awaited.
Paired(messages, open) ==
    /\ ResultsFollowTheirCall(messages)
    /\ \A j \in DOMAIN messages : messages[j].kind = "assistant" =>
        \A call \in messages[j].calls :
            /\ call[1] = messages[j].id
            /\ call \in open \/ \E i \in DOMAIN messages :
                /\ messages[i].kind = "tool" /\ messages[i].id = call
                /\ SameExchange(messages, j, i)

\* A step that is over: its message is filled no more.
Settled(id) ==
    id \in 1..used.steps /\ \A w \in Turns : worker[w].pc = "step" => worker[w].step # id

\* The messages a compaction works on: paired, and, where the history still has one of
\* them, as it was when the compaction began.
Snapshot(s, n) == Paired(s, {}) /\ n \in 1..Len(s) /\ CanSplitAfter(s, n)

Lasting(s) ==
    \A i \in DOMAIN s : s[i].kind = "assistant" =>
        /\ Settled(s[i].id)
        /\ \A j \in DOMAIN history : Name(history[j]) = Name(s[i]) => history[j].calls = s[i].calls

Snapshots ==
    \A c \in Compactions : compactor[c].pc = "generating" =>
        /\ Snapshot(compactor[c].snapshot, compactor[c].count)
        /\ Lasting(compactor[c].snapshot)

RequestInv == OneAtATime /\ Exchange /\ Paired(history, pendingToolResultIds) /\ Snapshots

-----------------------------------------------------------------------------
(* Messages and their names *)

LEMMA NewMessage ==
    ASSUME NEW kind \in Kinds, NEW id \in Nat \cup Pairs
    PROVE  /\ Message(kind, id) \in AnyMessage
           /\ Name(Message(kind, id)) = <<kind, id>>
           /\ Message(kind, id).kind = kind /\ Message(kind, id).id = id
           /\ Message(kind, id).calls = {}
BY DEF Message, Name, AnyMessage

LEMMA AppendedApart ==
    ASSUME NEW h \in Seq(AnyMessage), NEW d \in Seq(AnyMessage), Apart(h, d),
           NEW m \in AnyMessage, Name(m) \notin Names(h) \cup Names(d)
    PROVE  /\ Append(h, m) \in Seq(AnyMessage) /\ Names(Append(h, m)) = Names(h) \cup {Name(m)}
           /\ Apart(Append(h, m), d) /\ Apart(h, Append(d, m))
<1>1. ASSUME NEW s \in Seq(AnyMessage), Distinct(s), Name(m) \notin Names(s)
      PROVE  /\ Append(s, m) \in Seq(AnyMessage) /\ Distinct(Append(s, m))
             /\ Names(Append(s, m)) = Names(s) \cup {Name(m)}
  <2> DEFINE t == Append(s, m)
  <2>1. /\ t \in Seq(AnyMessage) /\ DOMAIN t = 1..(Len(s) + 1) /\ DOMAIN s = 1..Len(s)
        /\ Len(s) \in Nat /\ t[Len(s) + 1] = m /\ \A i \in 1..Len(s) : t[i] = s[i]
    BY AppendProperties, LenProperties
  <2>. HIDE DEF t
  <2>2. \A i \in DOMAIN t : i \in 1..Len(s) \/ i = Len(s) + 1
    BY <2>1
  <2>3. \A i \in 1..Len(s) : Name(t[i]) = Name(s[i]) /\ Name(t[i]) # Name(m)
    BY <1>1, <2>1 DEF Names
  <2>4. Distinct(t)
    BY <1>1, <2>1, <2>2, <2>3 DEF Distinct
  <2>5. Names(t) = Names(s) \cup {Name(m)}
    <3>1. ASSUME NEW n \in Names(t)
          PROVE  n \in Names(s) \cup {Name(m)}
      BY <2>1, <2>2, <2>3 DEF Names
    <3>2. ASSUME NEW n \in Names(s) \cup {Name(m)}
          PROVE  n \in Names(t)
      <4>1. Len(s) + 1 \in DOMAIN t /\ \A i \in DOMAIN s : i \in DOMAIN t
        BY <2>1
      <4>. QED
        BY <2>1, <2>3, <4>1 DEF Names
    <3>. QED
      BY <3>1, <3>2
  <2>. QED
    BY <2>1, <2>4, <2>5 DEF t
<1>. QED
  BY <1>1 DEF Apart

LEMMA JoinedApart ==
    ASSUME NEW h \in Seq(AnyMessage), NEW d \in Seq(AnyMessage), Apart(h, d)
    PROVE  /\ h \o d \in Seq(AnyMessage) /\ Names(h \o d) = Names(h) \cup Names(d)
           /\ Apart(h \o d, << >>) /\ Names(<< >>) = {}
<1> DEFINE t == h \o d
<1>1. /\ t \in Seq(AnyMessage) /\ DOMAIN t = 1..(Len(h) + Len(d))
      /\ DOMAIN h = 1..Len(h) /\ DOMAIN d = 1..Len(d) /\ Len(h) \in Nat /\ Len(d) \in Nat
      /\ \A i \in 1..(Len(h) + Len(d)) : t[i] = IF i <= Len(h) THEN h[i] ELSE d[i - Len(h)]
  BY ConcatProperties, LenProperties
<1>. HIDE DEF t
<1>2. \A i \in DOMAIN t : \/ i \in DOMAIN h /\ t[i] = h[i]
                          \/ i \notin DOMAIN h /\ i - Len(h) \in DOMAIN d /\ t[i] = d[i - Len(h)]
  BY <1>1
<1>3. Names(t) = Names(h) \cup Names(d)
  <2>1. ASSUME NEW n \in Names(h) \cup Names(d)
        PROVE  n \in Names(t)
    <3>1. CASE n \in Names(h)
      <4>1. PICK i \in DOMAIN h : n = Name(h[i])
        BY <3>1 DEF Names
      <4>. QED
        BY <1>1, <4>1 DEF Names
    <3>2. CASE n \in Names(d)
      <4>1. PICK i \in DOMAIN d : n = Name(d[i])
        BY <3>2 DEF Names
      <4>2. Len(h) + i \in DOMAIN t /\ t[Len(h) + i] = d[i]
        BY <1>1, <4>1
      <4>. QED
        BY <4>1, <4>2 DEF Names
    <3>. QED
      BY <2>1, <3>1, <3>2
  <2>2. Names(t) \subseteq Names(h) \cup Names(d)
    BY <1>2 DEF Names
  <2>. QED
    BY <2>1, <2>2
<1>4. Distinct(t)
  <2>. SUFFICES ASSUME NEW i \in DOMAIN t, NEW j \in DOMAIN t, Name(t[i]) = Name(t[j])
                PROVE  i = j
    BY DEF Distinct
  <2>1. CASE i \in DOMAIN h /\ j \in DOMAIN h
    BY <1>2, <2>1 DEF Apart, Distinct
  <2>2. CASE i \notin DOMAIN h /\ j \notin DOMAIN h
    <3>1. i - Len(h) = j - Len(h)
      BY <1>2, <2>2 DEF Apart, Distinct
    <3>. QED
      BY <1>1, <3>1
  <2>3. CASE i \in DOMAIN h /\ j \notin DOMAIN h
    BY <1>2, <2>3 DEF Apart, Names
  <2>4. CASE i \notin DOMAIN h /\ j \in DOMAIN h
    BY <1>2, <2>4 DEF Apart, Names
  <2>. QED
    BY <2>1, <2>2, <2>3, <2>4
<1>5. Names(<< >>) = {} /\ Distinct(<< >>)
  BY DEF Names, Distinct
<1>. QED
  BY <1>1, <1>3, <1>4, <1>5 DEF Apart, t

-----------------------------------------------------------------------------
(* Selections of messages                                                  *)

\* The loop behind Pick.
Chosen(messages, positions, n, before) ==
    IF n \in positions THEN Append(before, messages[n]) ELSE before

PickedUpTo(messages, positions, N, f) ==
    f = [n \in 0..N |-> IF n = 0 THEN << >> ELSE Chosen(messages, positions, n, f[n - 1])]

LEMMA PickedExists ==
    ASSUME NEW messages, NEW positions, NEW N \in Nat
    PROVE  \E f : PickedUpTo(messages, positions, N, f)
<1> DEFINE Good(n, f) == PickedUpTo(messages, positions, n, f)
           bad == {n \in 0..N : ~\E f : Good(n, f)}
<1>1. SUFFICES bad = {}
  <2>1. N \in 0..N
    OBVIOUS
  <2>. QED
    BY <1>1, <2>1
<1>2. SUFFICES ASSUME bad # {}
               PROVE  FALSE
  OBVIOUS
<1>3. bad \in SUBSET Nat
  OBVIOUS
<1>4. PICK n \in bad : \A m \in bad : ~(<<m, n>> \in OpToRel(<, Nat))
  <2>. HIDE DEF bad
  <2>. QED
    BY <1>2, <1>3, NatLessThanWellFounded, WFMin
<1>5. n \in 0..N /\ ~\E f : Good(n, f)
  OBVIOUS
<1>6. CASE n = 0
  <2> DEFINE f == [i \in {0} |-> << >>]
  <2>1. Good(0, f)
    BY 0..0 = {0} DEF PickedUpTo
  <2>. QED
    BY <1>5, <1>6, <2>1
<1>7. CASE n # 0
  <2>1. n - 1 \in 0..N /\ n - 1 < n /\ n - 1 \in Nat
    BY <1>5, <1>7
  <2>2. n - 1 \notin bad
    <3>. HIDE DEF bad
    <3>. QED
      BY <1>3, <1>4, <2>1 DEF OpToRel
  <2>3. PICK g : Good(n - 1, g)
    BY <2>1, <2>2
  <2> DEFINE Step(i, e) == IF i = 0 THEN << >> ELSE Chosen(messages, positions, i, e[i - 1])
             f == [i \in 0..n |-> IF i = n THEN Step(n, g) ELSE g[i]]
  <2>4. \A i \in 0..(n - 1) : g[i] = Step(i, g)
    BY <2>3 DEF PickedUpTo
  <2>5. ASSUME NEW i \in 0..n
        PROVE  f[i] = Step(i, f)
    <3>1. CASE i = n
      <4>1. f[n] = Step(n, g) /\ f[n - 1] = g[n - 1]
        BY <1>5, <1>7
      <4>. QED
        BY <1>7, <3>1, <4>1
    <3>2. CASE i # n
      <4>1. i \in 0..(n - 1) /\ f[i] = g[i] /\ (i # 0 => f[i - 1] = g[i - 1])
        BY <1>5, <3>2
      <4>. QED
        BY <2>4, <4>1
    <3>. QED
      BY <3>1, <3>2
  <2>6. f = [i \in 0..n |-> f[i]]
    OBVIOUS
  <2>7. Good(n, f)
    <3>. HIDE DEF f
    <3>. QED
      BY <2>5, <2>6 DEF PickedUpTo
  <2>. QED
    BY <1>5, <2>7
<1>. QED
  BY <1>6, <1>7

\* s are some messages of t, in their order: f says where each stands.
Selects(s, t, f) ==
    /\ f \in [DOMAIN s -> DOMAIN t]
    /\ \A a, b \in DOMAIN s : a < b => f[a] < f[b]
    /\ \A a \in DOMAIN s : s[a] = t[f[a]]

\* Pick selects exactly the given positions.
LEMMA Picks ==
    ASSUME NEW t \in Seq(AnyMessage), NEW positions \in SUBSET (DOMAIN t)
    PROVE  LET s == Pick(t, positions)
           IN  /\ s \in Seq(AnyMessage)
               /\ \E f : Selects(s, t, f) /\ {f[a] : a \in DOMAIN s} = positions
<1> DEFINE N == Len(t)
           picked == CHOOSE f : PickedUpTo(t, positions, N, f)
<1>1. Pick(t, positions) = picked[N]
  BY DEF Pick, PickedUpTo, Chosen
<1>2. PickedUpTo(t, positions, N, picked) /\ N \in Nat /\ DOMAIN t = 1..N
  BY PickedExists, LenProperties
<1>. HIDE DEF picked
<1>3. /\ picked[0] = << >>
      /\ \A n \in 1..N : picked[n] = Chosen(t, positions, n, picked[n - 1])
  BY <1>2 DEF PickedUpTo
<1> DEFINE Image(s, f) == {f[a] : a \in DOMAIN s}
           Good(n) == LET s == picked[n]
                      IN  /\ s \in Seq(AnyMessage)
                          /\ \E f : Selects(s, t, f) /\ Image(s, f) = positions \cap (1..n)
           bad == {n \in 0..N : ~Good(n)}
<1>4. Good(0)
  <2> DEFINE f == [a \in {} |-> a]
  <2>1. Selects(<< >>, t, f) /\ Image(<< >>, f) = positions \cap (1..0)
    BY DEF Selects
  <2>. QED
    BY <1>3, <2>1
<1>5. ASSUME NEW n \in 1..N, Good(n - 1)
      PROVE  Good(n)
  <2> DEFINE s == picked[n - 1]
             u == picked[n]
  <2>1. s \in Seq(AnyMessage) /\ u = Chosen(t, positions, n, s)
    BY <1>3, <1>5
  <2>2. PICK f : Selects(s, t, f) /\ Image(s, f) = positions \cap (1..(n - 1))
    BY <1>5
  <2>. HIDE DEF s, u
  <2>3. CASE n \notin positions
    <3>1. u = s
      BY <2>1, <2>3 DEF Chosen
    <3>2. positions \cap (1..n) = positions \cap (1..(n - 1))
      BY <2>3
    <3>. QED
      BY <2>1, <2>2, <3>1, <3>2 DEF s, u
  <2>4. CASE n \in positions
    <3> DEFINE g == [a \in DOMAIN u |-> IF a \in DOMAIN s THEN f[a] ELSE n]
    <3>1. t[n] \in AnyMessage /\ u = Append(s, t[n])
      BY <1>2, <2>1, <2>4, ElementOfSeq DEF Chosen
    <3>2. /\ u \in Seq(AnyMessage) /\ DOMAIN s = 1..Len(s) /\ Len(s) \in Nat
          /\ DOMAIN u = 1..(Len(s) + 1) /\ u[Len(s) + 1] = t[n]
          /\ \A a \in 1..Len(s) : u[a] = s[a]
      BY <2>1, <3>1, AppendProperties, LenProperties
    <3>3. \A a \in DOMAIN s : f[a] \in 1..(n - 1)
      BY <2>2
    <3>4. /\ \A a \in DOMAIN s : g[a] = f[a]
          /\ g[Len(s) + 1] = n
          /\ \A a \in DOMAIN u : a \in DOMAIN s \/ a = Len(s) + 1
      BY <3>2
    <3>. HIDE DEF g
    <3>5. Selects(u, t, g)
      <4>1. g \in [DOMAIN u -> DOMAIN t]
        <5>1. \A a \in DOMAIN u : g[a] \in DOMAIN t
          BY <1>2, <3>3, <3>4
        <5>. QED
          BY <5>1 DEF g
      <4>2. \A a, b \in DOMAIN u : a < b => g[a] < g[b]
        BY <2>2, <3>2, <3>3, <3>4 DEF Selects
      <4>3. \A a \in DOMAIN u : u[a] = t[g[a]]
        BY <2>2, <3>2, <3>4 DEF Selects
      <4>. QED
        BY <4>1, <4>2, <4>3 DEF Selects
    <3>6. Image(u, g) = positions \cap (1..n)
      <4>1. Image(u, g) \subseteq positions \cap (1..n)
        BY <2>2, <2>4, <3>4
      <4>2. ASSUME NEW k \in positions \cap (1..n)
            PROVE  k \in Image(u, g)
        <5>1. CASE k = n
          BY <3>2, <3>4, <5>1
        <5>2. CASE k # n
          <6>1. PICK a \in DOMAIN s : f[a] = k
            BY <2>2, <5>2
          <6>. QED
            BY <3>2, <3>4, <6>1
        <5>. QED
          BY <5>1, <5>2
      <4>. QED
        BY <4>1, <4>2
    <3>. QED
      BY <3>2, <3>5, <3>6 DEF u
  <2>. QED
    BY <2>3, <2>4
<1>6. bad = {}
  <2>. SUFFICES ASSUME bad # {}
                PROVE  FALSE
    OBVIOUS
  <2>1. bad \in SUBSET Nat
    OBVIOUS
  <2>2. PICK n \in bad : \A m \in bad : ~(<<m, n>> \in OpToRel(<, Nat))
    <3>. HIDE DEF bad
    <3>. QED
      BY <2>1, NatLessThanWellFounded, WFMin
  <2>3. n \in 0..N /\ ~Good(n)
    OBVIOUS
  <2>. HIDE DEF Good
  <2>4. n \in 1..N
    BY <1>2, <1>4, <2>3
  <2>5. n - 1 \in 0..N /\ n - 1 < n /\ n - 1 \in Nat
    BY <1>2, <2>4
  <2>6. n - 1 \notin bad
    <3>. HIDE DEF bad
    <3>. QED
      BY <2>1, <2>2, <2>5 DEF OpToRel
  <2>. QED
    BY <1>5, <2>3, <2>4, <2>5, <2>6
<1>7. Good(N)
  <2>1. N \in 0..N /\ N \notin bad
    BY <1>2, <1>6
  <2>. QED
    BY <2>1
<1>. QED
  BY <1>1, <1>2, <1>7

\* A selection of distinct messages is distinct.
LEMMA SelectedApart ==
    ASSUME NEW s \in Seq(AnyMessage), NEW t \in Seq(AnyMessage), Distinct(t),
           NEW f, Selects(s, t, f)
    PROVE  Distinct(s) /\ Names(s) \subseteq Names(t)
<1>1. DOMAIN s = 1..Len(s) /\ Len(s) \in Nat
  BY LenProperties
<1>2. ASSUME NEW i \in DOMAIN s, NEW j \in DOMAIN s, Name(s[i]) = Name(s[j])
      PROVE  i = j
  <2>1. f[i] = f[j] /\ f[i] \in DOMAIN t
    BY <1>2 DEF Selects, Distinct
  <2>2. ~(i < j) /\ ~(j < i)
    <3>1. f[i] \in Nat
      BY <2>1, LenProperties
    <3>. QED
      BY <2>1, <3>1 DEF Selects
  <2>. QED
    BY <1>1, <2>2
<1>. QED
  BY <1>2 DEF Distinct, Names, Selects

\* What is left of the messages after the first n.
LEMMA Suffix ==
    ASSUME NEW t \in Seq(AnyMessage), NEW n \in 0..Len(t)
    PROVE  LET s == SubSeq(t, n + 1, Len(t))
           IN  /\ s \in Seq(AnyMessage) /\ DOMAIN s = 1..(Len(t) - n)
               /\ \A a \in DOMAIN s : a + n \in DOMAIN t /\ s[a] = t[a + n]
               /\ Selects(s, t, [a \in DOMAIN s |-> a + n])
<1> DEFINE s == SubSeq(t, n + 1, Len(t))
<1>1. Len(t) \in Nat /\ DOMAIN t = 1..Len(t) /\ \A i \in (n + 1)..Len(t) : t[i] \in AnyMessage
  BY LenProperties, ElementOfSeq
<1>2. /\ s \in Seq(AnyMessage)
      /\ Len(s) = IF n + 1 <= Len(t) THEN Len(t) - (n + 1) + 1 ELSE 0
      /\ \A i \in 1..(Len(t) - (n + 1) + 1) : s[i] = t[(n + 1) + i - 1]
  BY <1>1, SubSeqProperties
<1>. HIDE DEF s
<1>3. DOMAIN s = 1..(Len(t) - n) /\ \A a \in DOMAIN s : a + n \in DOMAIN t /\ s[a] = t[a + n]
  <2>1. DOMAIN s = 1..(Len(t) - n)
    <3>1. Len(s) = Len(t) - n
      <4>1. CASE n + 1 <= Len(t)
        <5>1. Len(s) = Len(t) - (n + 1) + 1
          BY <1>2, <4>1
        <5>. QED
          BY <1>1, <5>1
      <4>2. CASE ~(n + 1 <= Len(t))
        <5>1. Len(s) = 0
          BY <1>2, <4>2
        <5>2. Len(t) \in Nat
          BY <1>1
        <5>3. n = Len(t)
          BY <4>2, <5>2
        <5>. QED
          BY <5>1, <5>2, <5>3
      <4>. QED
        BY <4>1, <4>2
    <3>2. DOMAIN s = 1..Len(s)
      BY <1>2, LenProperties
    <3>. QED
      BY <3>1, <3>2
  <2>2. ASSUME NEW a \in DOMAIN s
        PROVE  a + n \in DOMAIN t /\ s[a] = t[a + n]
    <3>1. a \in 1..(Len(t) - (n + 1) + 1) /\ (n + 1) + a - 1 = a + n
      BY <1>1, <2>1
    <3>2. s[a] = t[(n + 1) + a - 1]
      BY <1>2, <3>1
    <3>3. a + n \in DOMAIN t
      BY <1>1, <2>1
    <3>. QED
      BY <3>1, <3>2, <3>3
  <2>. QED
    BY <2>1, <2>2
<1>4. Selects(s, t, [a \in DOMAIN s |-> a + n])
  BY <1>1, <1>3 DEF Selects
<1>. QED
  BY <1>2, <1>3, <1>4 DEF s

\* A message in front of a suffix.
LEMMA SummarisedApart ==
    ASSUME NEW h \in Seq(AnyMessage), NEW d \in Seq(AnyMessage), Apart(h, d),
           NEW n \in 0..Len(h), NEW m \in AnyMessage, Name(m) \notin Names(h) \cup Names(d)
    PROVE  LET u == <<m>> \o SubSeq(h, n + 1, Len(h))
           IN  /\ u \in Seq(AnyMessage) /\ Apart(u, d)
               /\ Names(u) = {Name(m)} \cup Names(SubSeq(h, n + 1, Len(h)))
               /\ Names(u) \subseteq Names(h) \cup {Name(m)}
<1> DEFINE s == SubSeq(h, n + 1, Len(h))
           one == <<m>>
           f == [a \in DOMAIN s |-> a + n]
<1>0. s \in Seq(AnyMessage) /\ Selects(s, h, f)
  BY Suffix
<1>. HIDE DEF s, f
<1>1. s \in Seq(AnyMessage) /\ Distinct(s) /\ Names(s) \subseteq Names(h)
  BY <1>0, SelectedApart DEF Apart
<1>2. one \in Seq(AnyMessage) /\ Distinct(one) /\ Names(one) = {Name(m)}
  BY DEF Distinct, Names
<1>. HIDE DEF one
<1>3. Apart(one, s)
  BY <1>1, <1>2 DEF Apart
<1>4. /\ one \o s \in Seq(AnyMessage) /\ Apart(one \o s, << >>)
      /\ Names(one \o s) = {Name(m)} \cup Names(s)
  BY <1>1, <1>2, <1>3, JoinedApart
<1>5. Apart(one \o s, d)
  BY <1>1, <1>4 DEF Apart
<1>. QED
  BY <1>1, <1>4, <1>5 DEF s, one

\* A step fills messages in without renaming any.
LEMMA Filled ==
    ASSUME ContextTyped, NEW step \in Nat, NEW text \in BOOLEAN, NEW calls \in SUBSET Pairs
    PROVE  LET h == Fill(step, text, calls)
           IN  /\ h \in Seq(AnyMessage) /\ DOMAIN h = DOMAIN history
               /\ \A i \in DOMAIN history :
                     /\ Name(h[i]) = Name(history[i])
                     /\ h[i].kind = history[i].kind /\ h[i].id = history[i].id
                     /\ h[i].calls = IF Name(history[i]) = <<"assistant", step>>
                                     THEN history[i].calls \cup calls ELSE history[i].calls
<1> DEFINE h == Fill(step, text, calls)
           N == Len(history)
           new(i) == IF Name(history[i]) = <<"assistant", step>>
                     THEN [history[i] EXCEPT !.text = @ \/ text, !.calls = @ \cup calls]
                     ELSE history[i]
<1>1. history \in Seq(AnyMessage) /\ N \in Nat /\ DOMAIN history = 1..N
  BY LenProperties DEF ContextTyped
<1>2. ASSUME NEW i \in 1..N
      PROVE  /\ new(i) \in AnyMessage /\ Name(new(i)) = Name(history[i])
             /\ new(i).kind = history[i].kind /\ new(i).id = history[i].id
             /\ new(i).calls = IF Name(history[i]) = <<"assistant", step>>
                               THEN history[i].calls \cup calls ELSE history[i].calls
  <2> DEFINE m == history[i]
  <2>1. m \in AnyMessage
    BY <1>1, ElementOfSeq
  <2>. HIDE DEF m
  <2> DEFINE f == [m EXCEPT !.text = @ \/ text, !.calls = @ \cup calls]
  <2>2. f \in AnyMessage /\ f.kind = m.kind /\ f.id = m.id /\ f.calls = m.calls \cup calls
    <3>1. m.text \/ text \in BOOLEAN
      BY <2>1 DEF AnyMessage
    <3>. QED
      BY <2>1, <3>1 DEF AnyMessage
  <2>3. Name(f) = Name(m)
    BY <2>2 DEF Name
  <2>. HIDE DEF f
  <2>4. new(i) = IF Name(m) = <<"assistant", step>> THEN f ELSE m
    BY DEF m, f
  <2>. QED
    BY <2>1, <2>2, <2>3, <2>4 DEF m
<1>. HIDE DEF new
<1>3. h = [i \in 1..N |-> new(i)]
  BY <1>1 DEF Fill, new
<1>4. [i \in 1..N |-> new(i)] \in Seq(AnyMessage)
  <2>1. [i \in 1..N |-> new(i)] \in [1..N -> AnyMessage]
    BY <1>2
  <2>. QED
    BY <1>1, <2>1, SeqDef
<1>. HIDE DEF h
<1>5. h \in Seq(AnyMessage) /\ DOMAIN h = DOMAIN history /\ \A i \in 1..N : h[i] = new(i)
  BY <1>1, <1>3, <1>4
<1>. QED
  BY <1>1, <1>2, <1>5 DEF h

LEMMA FilledApart ==
    ASSUME ContextTyped, NEW step \in Nat, NEW text \in BOOLEAN, NEW calls \in SUBSET Pairs,
           Apart(history, deferredMessages)
    PROVE  LET h == Fill(step, text, calls)
           IN  Names(h) = Names(history) /\ Apart(h, deferredMessages)
<1> DEFINE h == Fill(step, text, calls)
<1>1. DOMAIN h = DOMAIN history /\ \A i \in DOMAIN history : Name(h[i]) = Name(history[i])
  BY Filled, ZenonT(60)
<1>. HIDE DEF h
<1>2. Names(h) = Names(history) /\ (Distinct(history) => Distinct(h))
  BY <1>1 DEF Names, Distinct
<1>. QED
  BY <1>2 DEF Apart, h

-----------------------------------------------------------------------------
(* No name is given out twice                                              *)

LEMMA WorkersTyped ==
    /\ NotLaunched \in Worker /\ NotLaunched.pc = "idle"
    /\ Ended \in Worker /\ Ended.pc = "ended"
BY DEF NotLaunched, Ended, Worker

LEMMA CompactorsTyped ==
    /\ NotBegun \in Compactor /\ NotBegun.pc = "idle"
    /\ NotBegun.count = 0 /\ NotBegun.snapshot = << >> /\ Len(NotBegun.snapshot) = 0
BY EmptySeq DEF NotBegun, Compactor

\* A name once given out stays so.
LEMMA SpentStays ==
    ASSUME ContextTyped, ContextTyped', used'.turns >= used.turns, used'.reminders >= used.reminders,
           used'.steps >= used.steps,
           \A c \in Compactions : compactor[c].pc = "done" => compactor'[c].pc = "done",
           \A w \in Turns : worker'[w].pc = "step" =>
               \/ worker'[w].step > used.steps
               \/ /\ worker[w].pc = "step" /\ worker'[w].step = worker[w].step
                  /\ worker[w].results <= worker'[w].results
    PROVE  Spent \subseteq Spent'
<1>1. /\ used.turns \in Nat /\ used.reminders \in Nat /\ used.steps \in Nat
      /\ used'.turns \in Nat /\ used'.reminders \in Nat /\ used'.steps \in Nat
  BY DEF ContextTyped
<1>2. Recorded \subseteq Recorded'
  <2>. SUFFICES ASSUME NEW p \in Recorded
                PROVE  p \in Recorded'
    OBVIOUS
  <2>1. p \in (1..used.steps) \X Nat /\ p[1] \in 1..used.steps /\ p[2] \in Nat
    BY DEF Recorded
  <2>2. ASSUME NEW w \in Turns, worker'[w].pc = "step", worker'[w].step = p[1]
        PROVE  p[2] <= worker'[w].results
    <3>1. ~(worker'[w].step > used.steps)
      BY <1>1, <2>1, <2>2
    <3>2. /\ worker[w].pc = "step" /\ worker[w].step = p[1]
          /\ worker[w].results <= worker'[w].results
      BY <2>2, <3>1
    <3>3. p[2] <= worker[w].results
      BY <3>2 DEF Recorded
    <3>4. worker[w].results \in Nat /\ worker'[w].results \in Nat
      BY DEF ContextTyped, Worker
    <3>. QED
      BY <2>1, <3>2, <3>3, <3>4
  <2>3. p \in (1..used'.steps) \X Nat
    BY <1>1, <2>1
  <2>. QED
    BY <2>2, <2>3 DEF Recorded
<1>3. /\ 1..used.turns \subseteq 1..used'.turns /\ 1..used.reminders \subseteq 1..used'.reminders
      /\ 1..used.steps \subseteq 1..used'.steps
  BY <1>1
<1>4. {c \in Compactions : compactor[c].pc = "done"} \subseteq
      {c \in Compactions : compactor'[c].pc = "done"}
  OBVIOUS
<1>. HIDE DEF Recorded
<1>. QED
  BY <1>2, <1>3, <1>4 DEF Spent

\* What a step does to the invariant: the names it has added are given out by it.
LEMMA NamesKept ==
    ASSUME NamesInv, ContextTyped', Counters', Spent \subseteq Spent',
           Apart(history, deferredMessages)',
           Names(history') \cup Names(deferredMessages') \subseteq
               Names(history) \cup Names(deferredMessages) \cup Spent'
    PROVE  NamesInv'
BY DEF NamesInv

\* The memory does not change, and what the workers have recorded stays.
LEMMA MemoryUnchanged ==
    ASSUME NamesInv, UNCHANGED memory, ContextTyped', Counters', Spent \subseteq Spent'
    PROVE  NamesInv'
<1>1. history' = history /\ deferredMessages' = deferredMessages
  BY DEF memory
<1>2. Apart(history, deferredMessages)'
  BY <1>1 DEF NamesInv, Apart, Distinct, Names, Name
<1>. QED
  BY <1>1, <1>2, NamesKept DEF NamesInv

\* A worker leaves its step, or is not in one before and after.
LEMMA CountersKept ==
    ASSUME NamesInv, ContextTyped', used'.steps = used.steps,
           used'.compactions >= used.compactions,
           \A w \in Turns : worker'[w].pc = "step" =>
               worker[w].pc = "step" /\ worker'[w].step = worker[w].step,
           \A c \in Compactions :
               /\ compactor'[c].pc # "idle" => compactor[c].pc # "idle" \/ c <= used'.compactions
               /\ compactor'[c].count <= Len(compactor'[c].snapshot)
    PROVE  Counters'
<1>1. used.compactions \in Nat /\ used'.compactions \in Nat /\ Compactions \subseteq Nat
  BY SMTT(30) DEF NamesInv, ContextTyped, Compactions
<1>2. ASSUME NEW c \in Compactions, compactor'[c].pc # "idle"
      PROVE  c <= used'.compactions
  <2>1. c <= used.compactions \/ c <= used'.compactions
    BY <1>2 DEF NamesInv, Counters
  <2>. QED
    BY <1>1, <2>1
<1>. QED
  BY <1>2 DEF NamesInv, Counters

LEMMA AbortedTyped ==
    ASSUME ContextTyped, NEW k, compactor' = [compactor EXCEPT ![k].aborted = TRUE]
    PROVE  /\ compactor' \in [Compactions -> Compactor]
           /\ \A c \in Compactions : /\ compactor'[c].pc = compactor[c].pc
                                     /\ compactor'[c].snapshot = compactor[c].snapshot
                                     /\ compactor'[c].count = compactor[c].count
                                     /\ IF c = k THEN compactor'[c].aborted
                                                 ELSE compactor'[c] = compactor[c]
<1>1. \A c \in Compactions : compactor'[c] = IF c = k THEN [compactor[c] EXCEPT !.aborted = TRUE]
                                            ELSE compactor[c]
  BY DEF ContextTyped
<1>2. \A c \in Compactions : compactor[c] \in Compactor
  BY DEF ContextTyped
<1>3. DOMAIN compactor' = Compactions /\ compactor' = [c \in Compactions |-> compactor'[c]]
  BY DEF ContextTyped
<1>4. ASSUME NEW c \in Compactions
      PROVE  /\ compactor'[c] \in Compactor /\ compactor'[c].pc = compactor[c].pc
             /\ compactor'[c].snapshot = compactor[c].snapshot
             /\ compactor'[c].count = compactor[c].count
             /\ IF c = k THEN compactor'[c].aborted ELSE compactor'[c] = compactor[c]
  <2>1. CASE c = k
    <3> DEFINE old == compactor[c]
               new == [old EXCEPT !.aborted = TRUE]
    <3>1. old \in Compactor /\ compactor'[c] = new
      BY <1>1, <1>2, <2>1
    <3>. HIDE DEF old
    <3>2. /\ new \in Compactor /\ new.pc = old.pc /\ new.snapshot = old.snapshot
          /\ new.count = old.count /\ new.aborted
      BY <3>1 DEF Compactor
    <3>. HIDE DEF new
    <3>. QED
      BY <2>1, <3>1, <3>2 DEF old
  <2>2. CASE c # k
    BY <1>1, <1>2, <2>2
  <2>. QED
    BY <2>1, <2>2
<1>5. compactor' \in [Compactions -> Compactor]
  BY <1>3, <1>4
<1>. QED
  BY <1>4, <1>5

LEMMA CancelKeepsNames == NamesInv /\ Cancel => NamesInv'
<1>. SUFFICES ASSUME NamesInv, Cancel
              PROVE  NamesInv'
  OBVIOUS
<1>1. activeTurn \in Turns
  BY DEF NamesInv, ContextTyped, Cancel
<1>2. /\ worker' \in [Turns -> Worker]
      /\ \A w \in Turns : /\ worker'[w].pc = worker[w].pc /\ worker'[w].step = worker[w].step
                          /\ worker'[w].results = worker[w].results
  BY <1>1, ZenonT(60) DEF NamesInv, ContextTyped, Cancel, Worker
<1>3. /\ compactor' \in [Compactions -> Compactor] /\ compacting' \in Compactions \cup {0}
      /\ \A c \in Compactions : /\ compactor'[c].pc = compactor[c].pc
                                /\ compactor'[c].snapshot = compactor[c].snapshot
                                /\ compactor'[c].count = compactor[c].count
  <2> DEFINE k == worker[activeTurn].step
  <2>1. CASE UNCHANGED compaction
    BY <2>1 DEF NamesInv, ContextTyped, compaction
  <2>2. CASE compacting' = 0 /\ compactor' = [compactor EXCEPT ![k].aborted = TRUE]
    BY <2>2, AbortedTyped DEF NamesInv
  <2>. QED
    BY <2>1, <2>2 DEF Cancel
<1>4. ContextTyped'
  BY <1>2, <1>3 DEF NamesInv, ContextTyped, Cancel, memory
<1>5. UNCHANGED <<memory, used>>
  BY DEF Cancel
<1>6. Counters'
  BY <1>2, <1>3, <1>5 DEF NamesInv, Counters
<1>7. Spent \subseteq Spent'
  <2>1. \A w \in Turns : worker[w].results \in Nat
    BY DEF NamesInv, ContextTyped, Worker
  <2>. QED
    BY <1>2, <1>3, <1>4, <1>5, <2>1, SpentStays DEF NamesInv, ContextTyped
<1>. QED
  BY <1>4, <1>5, <1>6, <1>7, MemoryUnchanged

LEMMA RestartKeepsNames == NamesInv /\ Restart => NamesInv'
<1>. SUFFICES ASSUME NamesInv, Restart
              PROVE  NamesInv'
  OBVIOUS
<1>1. /\ worker' \in [Turns -> Worker]
      /\ \A w \in Turns : worker'[w].pc # "step"
  BY WorkersTyped DEF NamesInv, ContextTyped, Restart, Running
<1>2. /\ compactor' \in [Compactions -> Compactor]
      /\ \A c \in Compactions : /\ compactor'[c].pc = IF compactor[c].pc = "idle" THEN "idle" ELSE "done"
                                /\ compactor'[c].count = 0 /\ compactor'[c].snapshot = << >>
  <2> DEFINE over == [NotBegun EXCEPT !.pc = "done"]
  <2>1. over \in Compactor /\ over.pc = "done" /\ over.count = 0 /\ over.snapshot = << >>
    BY CompactorsTyped DEF Compactor
  <2>. HIDE DEF over
  <2>2. compactor' = [c \in Compactions |-> IF compactor[c].pc = "idle" THEN NotBegun ELSE over]
    BY DEF Restart, over
  <2>. QED
    BY <2>1, <2>2, CompactorsTyped
<1>3. /\ UNCHANGED memory
      /\ used' \in [turns : Nat, reminders : Nat, steps : Nat, compactions : Nat,
                    edits : Nat, restarts : Nat]
      /\ used'.turns = used.turns /\ used'.reminders = used.reminders
      /\ used'.steps = used.steps /\ used'.compactions = used.compactions
  BY SMTT(30) DEF NamesInv, ContextTyped, Restart
<1>4. ContextTyped'
  BY <1>1, <1>2, <1>3 DEF NamesInv, ContextTyped, Restart, memory
<1>5. Counters'
  <2>1. Len(<< >>) = 0
    OBVIOUS
  <2>. QED
    BY <1>1, <1>2, <1>3, <2>1 DEF NamesInv, Counters
<1>6. Spent \subseteq Spent'
  BY <1>1, <1>2, <1>3, <1>4, SpentStays, SMTT(30) DEF NamesInv, ContextTyped
<1>. QED
  BY <1>3, <1>4, <1>5, <1>6, MemoryUnchanged

LEMMA CancelCompactionKeepsNames == NamesInv /\ CancelCompaction => NamesInv'
<1>. SUFFICES ASSUME NamesInv, CancelCompaction
              PROVE  NamesInv'
  OBVIOUS
<1>1. UNCHANGED <<memory, worker, activeTurn, used, unknownStep>> /\ compacting' = 0
  BY DEF CancelCompaction
<1>2. /\ compactor' \in [Compactions -> Compactor]
      /\ \A c \in Compactions : /\ compactor'[c].pc = compactor[c].pc
                                /\ compactor'[c].snapshot = compactor[c].snapshot
                                /\ compactor'[c].count = compactor[c].count
  BY AbortedTyped DEF CancelCompaction, NamesInv
<1>3. ContextTyped'
  BY <1>1, <1>2 DEF NamesInv, ContextTyped, memory
<1>4. Counters'
  BY <1>1, <1>2 DEF NamesInv, Counters
<1>5. Spent \subseteq Spent'
  BY <1>1, <1>2 DEF Spent, Recorded
<1>. QED
  BY <1>1, <1>3, <1>4, <1>5, MemoryUnchanged

\* The prefix a compaction begins with.
LEMMA CountsTyped ==
    ASSUME ContextTyped, NEW n \in ManualCounts \cup AutoCounts
    PROVE  n \in 1..Len(history) /\ CanSplitAfter(history, n)
<1>1. Len(history) \in Nat
  BY LenProperties DEF ContextTyped
<1>2. CASE n \in ManualCounts
  BY <1>1, <1>2 DEF ManualCounts
<1>3. CASE n \in AutoCounts
  BY <1>1, <1>3 DEF AutoCounts
<1>. QED
  BY <1>2, <1>3

LEMMA BeginTyped ==
    ASSUME NamesInv, used.compactions < MaxCompactions, NEW n \in 1..Len(history), Begin(n)
    PROVE  LET k == used.compactions + 1
           IN  /\ k \in Compactions /\ compactor[k].pc = "idle" /\ compacting' = k
               /\ compactor' \in [Compactions -> Compactor]
               /\ compactor'[k].pc = "generating" /\ ~compactor'[k].aborted
               /\ compactor'[k].snapshot = history /\ compactor'[k].count = n
               /\ \A c \in Compactions \ {k} : compactor'[c] = compactor[c]
               /\ used' \in [turns : Nat, reminders : Nat, steps : Nat, compactions : Nat,
                             edits : Nat, restarts : Nat]
               /\ used'.turns = used.turns /\ used'.reminders = used.reminders
               /\ used'.steps = used.steps /\ used'.compactions = k
               /\ used'.restarts = used.restarts
<1> DEFINE k == used.compactions + 1
           new == [pc |-> "generating", aborted |-> FALSE, snapshot |-> history, count |-> n]
<1>1. /\ used' \in [turns : Nat, reminders : Nat, steps : Nat, compactions : Nat,
                    edits : Nat, restarts : Nat]
      /\ used'.turns = used.turns /\ used'.reminders = used.reminders
      /\ used'.steps = used.steps /\ used'.compactions = k /\ used'.restarts = used.restarts
  <2>1. used' = [used EXCEPT !.compactions = @ + 1]
    BY DEF Begin
  <2>. QED
    BY <2>1, SMTT(30) DEF NamesInv, ContextTyped
<1>2. k \in Compactions /\ k \in Nat /\ ~(k <= used.compactions)
  BY ContextAssumption DEF NamesInv, ContextTyped, Compactions
<1>3. compactor[k].pc = "idle"
  BY <1>2 DEF NamesInv, Counters
<1>4. /\ new \in Compactor /\ new.pc = "generating" /\ ~new.aborted
      /\ new.snapshot = history /\ new.count = n
  BY DEF NamesInv, ContextTyped, Compactor
<1>5. compacting' = k /\ compactor' = [compactor EXCEPT ![k] = new]
  BY <1>1 DEF Begin
<1>. HIDE DEF new, k
<1>6. /\ compactor' \in [Compactions -> Compactor] /\ compactor'[k] = new
      /\ \A c \in Compactions \ {k} : compactor'[c] = compactor[c]
  BY <1>2, <1>4, <1>5 DEF NamesInv, ContextTyped
<1>. QED
  BY <1>1, <1>2, <1>3, <1>4, <1>5, <1>6 DEF k

\* A compaction begins, and the workers do not move but to wait.
LEMMA BeginKeepsNames ==
    ASSUME NamesInv, used.compactions < MaxCompactions, NEW n \in 1..Len(history), Begin(n),
           worker' \in [Turns -> Worker],
           \A w \in Turns : worker'[w].pc = "step" => worker'[w] = worker[w],
           UNCHANGED <<memory, activeTurn, unknownStep>>
    PROVE  NamesInv'
<1> DEFINE k == used.compactions + 1
<1>1. /\ k \in Compactions /\ compactor[k].pc = "idle" /\ compacting' = k
      /\ compactor' \in [Compactions -> Compactor]
      /\ compactor'[k].snapshot = history /\ compactor'[k].count = n
      /\ \A c \in Compactions \ {k} : compactor'[c] = compactor[c]
      /\ used' \in [turns : Nat, reminders : Nat, steps : Nat, compactions : Nat,
                    edits : Nat, restarts : Nat]
      /\ used'.turns = used.turns /\ used'.reminders = used.reminders
      /\ used'.steps = used.steps /\ used'.compactions = k
  BY BeginTyped
<1>. HIDE DEF k
<1>2. k \in 1..MaxCompactions /\ used.compactions \in Nat /\ k = used.compactions + 1
  BY <1>1 DEF k, Compactions, NamesInv, ContextTyped
<1>3. ContextTyped'
  BY <1>1, <1>2, SMTT(30) DEF NamesInv, ContextTyped, memory
<1>4. Len(history) \in Nat
  BY LenProperties DEF NamesInv, ContextTyped
<1>5. Counters'
  <2>1. \A c \in Compactions : compactor'[c].count <= Len(compactor'[c].snapshot)
    BY <1>1, <1>4 DEF NamesInv, Counters
  <2>2. \A c \in Compactions : c = k \/ compactor'[c].pc = compactor[c].pc
    BY <1>1
  <2>3. \A c \in Compactions : compactor'[c].pc # "idle" => compactor[c].pc # "idle" \/ c <= used'.compactions
    BY <1>1, <1>2, <2>2
  <2>4. used'.steps = used.steps /\ used'.compactions >= used.compactions
    BY <1>1, <1>2
  <2>5. \A w \in Turns : worker'[w].pc = "step" =>
            worker[w].pc = "step" /\ worker'[w].step = worker[w].step
    OBVIOUS
  <2>. QED
    BY <1>3, <2>1, <2>3, <2>4, <2>5, CountersKept
<1>6. Spent \subseteq Spent'
  <2>1. \A c \in Compactions : compactor[c].pc = "done" => compactor'[c].pc = "done"
    BY <1>1
  <2>2. \A w \in Turns : worker[w].results \in Nat
    BY DEF NamesInv, ContextTyped, Worker
  <2>3. /\ used'.turns >= used.turns /\ used'.reminders >= used.reminders
        /\ used'.steps >= used.steps
    BY <1>1 DEF NamesInv, ContextTyped
  <2>4. \A w \in Turns : worker'[w].pc = "step" =>
           /\ worker[w].pc = "step" /\ worker'[w].step = worker[w].step
           /\ worker[w].results <= worker'[w].results
    BY <2>2
  <2>. QED
    BY <1>3, <2>1, <2>3, <2>4, SpentStays DEF NamesInv
<1>. QED
  BY <1>3, <1>5, <1>6, MemoryUnchanged

LEMMA BeginManualKeepsNames == NamesInv /\ BeginManual => NamesInv'
<1>. SUFFICES ASSUME NamesInv, BeginManual
              PROVE  NamesInv'
  OBVIOUS
<1>1. PICK n \in ManualCounts : Begin(n)
  BY DEF BeginManual
<1>2. n \in 1..Len(history)
  BY CountsTyped DEF NamesInv
<1>3. worker' = worker /\ worker \in [Turns -> Worker]
  BY DEF BeginManual, NamesInv, ContextTyped
<1>. QED
  BY <1>1, <1>2, <1>3, BeginKeepsNames DEF BeginManual

\* Compactions that work change, and no name with them.
LEMMA CompactorsKeepNames ==
    ASSUME NamesInv, compactor' \in [Compactions -> Compactor],
           \A d \in Compactions :
               \/ /\ compactor'[d].pc = compactor[d].pc
                  /\ compactor'[d].snapshot = compactor[d].snapshot
                  /\ compactor'[d].count = compactor[d].count
               \/ /\ compactor[d].pc = "generating"
                  /\ compactor'[d].count <= Len(compactor'[d].snapshot),
           compacting' \in {0, compacting},
           UNCHANGED <<memory, worker, activeTurn, used, unknownStep>>
    PROVE  NamesInv'
<1>1. ContextTyped'
  BY DEF NamesInv, ContextTyped, memory
<1>2. Counters'
  <2>1. \A d \in Compactions : compactor'[d].count <= Len(compactor'[d].snapshot)
    BY DEF NamesInv, Counters
  <2>2. \A d \in Compactions : compactor'[d].pc # "idle" => d <= used.compactions
    BY DEF NamesInv, Counters
  <2>. QED
    BY <2>1, <2>2 DEF NamesInv, Counters
<1>3. Spent \subseteq Spent'
  <2>1. \A d \in Compactions : compactor[d].pc = "done" => compactor'[d].pc = "done"
    OBVIOUS
  <2>. QED
    BY <2>1 DEF Spent, Recorded
<1>. QED
  BY <1>1, <1>2, <1>3, MemoryUnchanged

\* One that is over, alone or with the one under way being cancelled.
LEMMA FinishTyped ==
    ASSUME NamesInv, NEW c \in Compactions, NEW outcome \in {"done", "failed"},
           Finish(c, outcome) \/ FinishAndCancel(c, outcome)
    PROVE  /\ compactor' \in [Compactions -> Compactor]
           /\ compactor'[c].pc = outcome /\ compactor'[c].count <= Len(compactor'[c].snapshot)
           /\ \A d \in Compactions \ {c} : /\ compactor'[d].pc = compactor[d].pc
                                           /\ compactor'[d].snapshot = compactor[d].snapshot
                                           /\ compactor'[d].count = compactor[d].count
<1> DEFINE new == [NotBegun EXCEPT !.pc = outcome]
           cut(d) == [compactor[d] EXCEPT !.aborted = @ \/ d = compacting]
<1>1. /\ new \in Compactor /\ new.pc = outcome /\ new.count <= Len(new.snapshot)
  BY CompactorsTyped DEF Compactor
<1>2. ASSUME NEW d \in Compactions
      PROVE  /\ cut(d) \in Compactor /\ cut(d).pc = compactor[d].pc
             /\ cut(d).snapshot = compactor[d].snapshot /\ cut(d).count = compactor[d].count
  <2> DEFINE old == compactor[d]
  <2>1. old \in Compactor /\ (old.aborted \/ d = compacting) \in BOOLEAN
    BY DEF NamesInv, ContextTyped, Compactor
  <2>. HIDE DEF old
  <2>2. LET f == [old EXCEPT !.aborted = @ \/ d = compacting]
        IN  f \in Compactor /\ f.pc = old.pc /\ f.snapshot = old.snapshot /\ f.count = old.count
    BY <2>1 DEF Compactor
  <2>. QED
    BY <2>2 DEF old
<1>. HIDE DEF new, cut
<1>3. CASE Finish(c, outcome)
  <2>1. compactor' = [compactor EXCEPT ![c] = new]
    BY <1>3 DEF Finish, new
  <2>. QED
    BY <1>1, <2>1 DEF NamesInv, ContextTyped
<1>4. CASE FinishAndCancel(c, outcome)
  <2>1. compactor' = [d \in Compactions |-> IF d = c THEN new ELSE cut(d)]
    BY <1>4 DEF FinishAndCancel, new, cut
  <2>. QED
    BY <1>1, <1>2, <2>1
<1>. QED
  BY <1>3, <1>4

LEMMA FinishKeepsNames ==
    ASSUME NamesInv, NEW c \in Compactions, NEW outcome \in {"done", "failed"},
           Finish(c, outcome) \/ FinishAndCancel(c, outcome),
           compactor[c].pc = "generating", compacting' \in {0, compacting},
           UNCHANGED <<memory, worker, activeTurn, used, unknownStep>>
    PROVE  NamesInv'
<1>1. /\ compactor' \in [Compactions -> Compactor]
      /\ compactor'[c].count <= Len(compactor'[c].snapshot)
      /\ \A d \in Compactions \ {c} : /\ compactor'[d].pc = compactor[d].pc
                                      /\ compactor'[d].snapshot = compactor[d].snapshot
                                      /\ compactor'[d].count = compactor[d].count
  BY FinishTyped
<1>. QED
  BY <1>1, CompactorsKeepNames

LEMMA ShrinkKeepsNames ==
    ASSUME NamesInv, NEW c \in Compactions, Shrink(c)
    PROVE  NamesInv'
<1>1. PICK n \in 2..(compactor[c].count - 1) : compactor' = [compactor EXCEPT ![c].count = n]
  BY DEF Shrink
<1> DEFINE old == compactor[c]
           new == [old EXCEPT !.count = n]
<1>2. old \in Compactor /\ old.count <= Len(old.snapshot) /\ Len(old.snapshot) \in Nat
  <2>1. old \in Compactor /\ old.count <= Len(old.snapshot)
    BY DEF NamesInv, ContextTyped, Counters
  <2>. HIDE DEF old
  <2>2. old.snapshot \in Seq(AnyMessage)
    BY <2>1 DEF Compactor
  <2>. QED
    BY <2>1, <2>2, LenProperties
<1>3. compactor' = [compactor EXCEPT ![c] = new]
  BY <1>1
<1>. HIDE DEF old
<1>4. n \in Nat /\ n <= old.count
  BY <1>1, <1>2 DEF Compactor, old
<1>5. new \in Compactor /\ new.count <= Len(new.snapshot)
  <2>1. new \in Compactor /\ new.count = n /\ new.snapshot = old.snapshot
    BY <1>2, <1>4 DEF Compactor
  <2>. QED
    BY <1>2, <1>4, <2>1 DEF Compactor
<1>. HIDE DEF new
<1>6. /\ compactor' \in [Compactions -> Compactor] /\ compactor'[c] = new
      /\ \A d \in Compactions \ {c} : compactor'[d] = compactor[d]
  BY <1>3, <1>5 DEF NamesInv, ContextTyped
<1>7. compactor[c].pc = "generating" /\ compacting' = compacting
      /\ UNCHANGED <<memory, worker, activeTurn, used, unknownStep>>
  BY DEF Shrink
<1>8. \A d \in Compactions : d # c => d \in Compactions \ {c}
  OBVIOUS
<1>. QED
  BY <1>5, <1>6, <1>7, <1>8, CompactorsKeepNames

LEMMA FailCompactionKeepsNames ==
    ASSUME NamesInv, NEW c \in Compactions, FailCompaction(c)
    PROVE  NamesInv'
<1>1. /\ compactor[c].pc = "generating"
      /\ UNCHANGED <<memory, worker, activeTurn, used, unknownStep>>
      /\ \/ Finish(c, "done") /\ compacting' = compacting
         \/ \E outcome \in {"done", "failed"} : FinishAndCancel(c, outcome)
  BY DEF FailCompaction
<1>2. \A outcome : FinishAndCancel(c, outcome) => compacting' = 0
  BY DEF FinishAndCancel
<1>. QED
  BY <1>1, <1>2, FinishKeepsNames

\* A worker changes outside a step, and nothing else does.
LEMMA WorkerKeepsNames ==
    ASSUME NamesInv, NEW w \in Turns, NEW new \in Worker, new.pc # "step",
           worker' = [worker EXCEPT ![w] = new],
           activeTurn' \in {activeTurn, NoTurn}, unknownStep' \in BOOLEAN,
           UNCHANGED <<memory, compaction, used>>
    PROVE  NamesInv'
<1>1. /\ worker' \in [Turns -> Worker]
      /\ \A v \in Turns : worker'[v].pc = "step" => worker'[v] = worker[v]
  BY DEF NamesInv, ContextTyped
<1>2. UNCHANGED <<compacting, compactor>>
  BY DEF compaction
<1>3. ContextTyped'
  BY <1>1, <1>2 DEF NamesInv, ContextTyped, memory
<1>4. Counters'
  BY <1>1, <1>2 DEF NamesInv, Counters
<1>5. Spent \subseteq Spent'
  <2>1. \A v \in Turns : worker[v].results \in Nat
    BY DEF NamesInv, ContextTyped, Worker
  <2>. QED
    BY <1>1, <1>2, <1>3, <2>1, SpentStays DEF NamesInv, ContextTyped
<1>. QED
  BY <1>3, <1>4, <1>5, MemoryUnchanged

LEMMA EndTurnKeepsNames ==
    ASSUME NamesInv, NEW w \in Turns, EndTurn(w), unknownStep' \in BOOLEAN,
           UNCHANGED <<memory, compaction, used>>
    PROVE  NamesInv'
<1>1. activeTurn' \in {activeTurn, NoTurn} /\ worker' = [worker EXCEPT ![w] = Ended]
  BY DEF EndTurn
<1>. QED
  BY <1>1, WorkersTyped, WorkerKeepsNames

LEMMA LeaveTurnKeepsNames ==
    ASSUME NamesInv, NEW w \in Turns, LeaveTurn(w)
    PROVE  NamesInv'
<1>1. EndTurn(w) /\ UNCHANGED <<memory, compaction, used>> /\ unknownStep' \in BOOLEAN
  BY DEF LeaveTurn, NamesInv, ContextTyped
<1>. QED
  BY <1>1, EndTurnKeepsNames

\* A turn that waits for a compaction.
LEMMA BlockedTyped ==
    ASSUME NEW c \in Nat
    PROVE  /\ [NotLaunched EXCEPT !.pc = "blocked", !.step = c] \in Worker
           /\ [NotLaunched EXCEPT !.pc = "blocked", !.step = c].pc = "blocked"
           /\ [NotLaunched EXCEPT !.pc = "blocked", !.step = c].step = c
BY DEF NotLaunched, Worker

LEMMA BlockKeepsNames ==
    ASSUME NamesInv, NEW w \in Turns, BlockOnCompaction(w)
    PROVE  NamesInv'
<1> DEFINE wait(c) == [NotLaunched EXCEPT !.pc = "blocked", !.step = c]
           block(c) == worker' = [worker EXCEPT ![w] = wait(c)]
<1>1. UNCHANGED <<memory, unknownStep>> /\ unknownStep' \in BOOLEAN
  BY DEF BlockOnCompaction, NamesInv, ContextTyped
<1>2. \A c \in Nat : wait(c) \in Worker /\ wait(c).pc = "blocked"
  BY BlockedTyped
<1>3. CASE compacting # 0 /\ block(compacting) /\ UNCHANGED <<activeTurn, compaction, used>>
  <2>1. compacting \in Nat
    BY DEF NamesInv, ContextTyped, Compactions
  <2>. HIDE DEF wait
  <2>2. wait(compacting) \in Worker /\ wait(compacting).pc # "step"
    BY <1>2, <2>1
  <2>. QED
    BY <1>1, <1>3, <2>2, WorkerKeepsNames
<1>4. ASSUME used.compactions < MaxCompactions, NEW n \in AutoCounts, Begin(n),
             block(used'.compactions), UNCHANGED activeTurn
      PROVE  NamesInv'
  <2>1. n \in 1..Len(history)
    BY CountsTyped DEF NamesInv
  <2>2. used'.compactions \in Nat
    BY <1>4, <2>1, BeginTyped
  <2>. HIDE DEF wait
  <2>3. /\ worker' \in [Turns -> Worker]
        /\ \A v \in Turns : worker'[v].pc = "step" => worker'[v] = worker[v]
    BY <1>2, <1>4, <2>2 DEF NamesInv, ContextTyped
  <2>. QED
    BY <1>1, <1>4, <2>1, <2>3, BeginKeepsNames
<1>5. CASE EndTurn(w) /\ UNCHANGED <<compaction, used>>
  BY <1>1, <1>5, EndTurnKeepsNames
<1>. QED
  BY <1>3, <1>4, <1>5 DEF BlockOnCompaction

LEMMA UnblockKeepsNames ==
    ASSUME NamesInv, NEW w \in Turns, Unblock(w)
    PROVE  NamesInv'
<1>1. UNCHANGED <<memory, compaction, used>> /\ unknownStep' \in BOOLEAN
  BY DEF Unblock, NamesInv, ContextTyped
<1>2. CASE EndTurn(w)
  BY <1>1, <1>2, EndTurnKeepsNames
<1>3. CASE worker' = [worker EXCEPT ![w].pc = "ready", ![w].step = 0] /\ UNCHANGED activeTurn
  <2> DEFINE new == [worker[w] EXCEPT !.pc = "ready", !.step = 0]
  <2>1. worker' = [worker EXCEPT ![w] = new]
    BY <1>3
  <2>2. new \in Worker /\ new.pc # "step"
    BY DEF NamesInv, ContextTyped, Worker
  <2>. HIDE DEF new
  <2>. QED
    BY <1>1, <1>3, <2>1, <2>2, WorkerKeepsNames
<1>. QED
  BY <1>2, <1>3 DEF Unblock

\* A new message is appended, or held back.
LEMMA NewAppended ==
    ASSUME NamesInv, NEW m \in AnyMessage, Name(m) \notin Spent, AppendMessage(m)
    PROVE  /\ history' \in Seq(AnyMessage) /\ deferredMessages' \in Seq(AnyMessage)
           /\ Apart(history, deferredMessages)'
           /\ Names(history') \cup Names(deferredMessages') \subseteq
                  Names(history) \cup Names(deferredMessages) \cup {Name(m)}
<1> DEFINE h == Append(history, m)
           d == Append(deferredMessages, m)
<1>1. /\ history \in Seq(AnyMessage) /\ deferredMessages \in Seq(AnyMessage)
      /\ Apart(history, deferredMessages) /\ Apart(deferredMessages, history)
      /\ Name(m) \notin Names(history) \cup Names(deferredMessages)
  BY DEF NamesInv, ContextTyped, Apart
<1>2. /\ h \in Seq(AnyMessage) /\ Apart(h, deferredMessages)
      /\ Names(h) = Names(history) \cup {Name(m)}
  BY <1>1, AppendedApart
<1>3. /\ d \in Seq(AnyMessage) /\ Apart(history, d)
      /\ Names(d) = Names(deferredMessages) \cup {Name(m)}
  BY <1>1, AppendedApart
<1>4. \/ history' = h /\ deferredMessages' = deferredMessages
      \/ history' = history /\ deferredMessages' = d
  BY DEF AppendMessage
<1>. HIDE DEF h, d
<1>5. (Apart(history, deferredMessages))' <=> Apart(history', deferredMessages')
  BY DEF Apart, Distinct, Names, Name
<1>. QED
  BY <1>1, <1>2, <1>3, <1>4, <1>5

LEMMA PromptKeepsNames == NamesInv /\ Prompt => NamesInv'
<1>. SUFFICES ASSUME NamesInv, Prompt
              PROVE  NamesInv'
  OBVIOUS
<1> DEFINE k == used.turns + 1
           m == Message("prompt", k)
<1>1. used' = [used EXCEPT !.turns = @ + 1]
  BY DEF Prompt
<1>2. /\ used' \in [turns : Nat, reminders : Nat, steps : Nat, compactions : Nat,
                    edits : Nat, restarts : Nat]
      /\ used'.turns = k /\ used'.reminders = used.reminders
      /\ used'.steps = used.steps /\ used'.compactions = used.compactions
  BY <1>1 DEF NamesInv, ContextTyped
<1>3. used.turns \in Nat /\ k \in Nat /\ k \in Turns
  BY ContextAssumption, SMTT(30) DEF NamesInv, ContextTyped, Turns, Prompt
<1>4. /\ activeTurn' = k /\ worker' = [worker EXCEPT ![k].pc = "ready"] /\ AppendMessage(m)
      /\ UNCHANGED <<openSteps, pendingToolResultIds, compaction, unknownStep>>
  BY <1>2 DEF Prompt
<1>5. m \in AnyMessage /\ Name(m) = <<"prompt", k>>
  BY <1>3, NewMessage DEF Kinds
<1>. HIDE DEF m, k
<1>6. Name(m) \notin Spent
  BY <1>3, <1>5 DEF Spent, k
<1>7. /\ history' \in Seq(AnyMessage) /\ deferredMessages' \in Seq(AnyMessage)
      /\ Apart(history, deferredMessages)'
      /\ Names(history') \cup Names(deferredMessages') \subseteq
             Names(history) \cup Names(deferredMessages) \cup {Name(m)}
  BY <1>4, <1>5, <1>6, NewAppended
<1>8. /\ worker' \in [Turns -> Worker]
      /\ \A w \in Turns : worker'[w].pc = "step" => worker'[w] = worker[w]
  BY <1>3, <1>4, ZenonT(60) DEF NamesInv, ContextTyped, Worker
<1>9. UNCHANGED <<compacting, compactor>>
  BY <1>4 DEF compaction
<1>10. ContextTyped'
  BY <1>2, <1>3, <1>4, <1>7, <1>8, <1>9 DEF NamesInv, ContextTyped, Turns
<1>11. Counters'
  BY <1>2, <1>8, <1>9 DEF NamesInv, Counters
<1>12. Spent \subseteq Spent'
  <2>1. \A v \in Turns : worker[v].results \in Nat
    BY DEF NamesInv, ContextTyped, Worker
  <2>2. used'.turns >= used.turns
    BY <1>2, <1>3 DEF k
  <2>. QED
    BY <1>2, <1>8, <1>9, <1>10, <2>1, <2>2, SpentStays, SMTT(30) DEF NamesInv, ContextTyped
<1>13. Name(m) \in Spent'
  <2>1. k \in 1..used'.turns
    BY <1>2, <1>3 DEF k
  <2>. QED
    BY <1>5, <2>1 DEF Spent
<1>. QED
  BY <1>7, <1>10, <1>11, <1>12, <1>13, NamesKept

LEMMA RemindKeepsNames ==
    ASSUME NamesInv, NEW kind \in {"reminder", "injection"}, Remind(kind)
    PROVE  NamesInv'
<1> DEFINE k == used.reminders + 1
           m == Message(kind, k)
<1>1. used' = [used EXCEPT !.reminders = @ + 1]
  BY DEF Remind
<1>2. /\ used' \in [turns : Nat, reminders : Nat, steps : Nat, compactions : Nat,
                    edits : Nat, restarts : Nat]
      /\ used'.turns = used.turns /\ used'.reminders = k
      /\ used'.steps = used.steps /\ used'.compactions = used.compactions
  BY <1>1 DEF NamesInv, ContextTyped
<1>3. used.reminders \in Nat /\ k \in Nat
  BY DEF NamesInv, ContextTyped
<1>4. /\ AppendMessage(m)
      /\ UNCHANGED <<openSteps, pendingToolResultIds, worker, activeTurn, compaction, unknownStep>>
  BY <1>2 DEF Remind
<1>5. m \in AnyMessage /\ Name(m) = <<kind, k>>
  BY <1>3, NewMessage DEF Kinds
<1>. HIDE DEF m, k
<1>6. Name(m) \notin Spent
  BY <1>3, <1>5 DEF Spent, k
<1>7. /\ history' \in Seq(AnyMessage) /\ deferredMessages' \in Seq(AnyMessage)
      /\ Apart(history, deferredMessages)'
      /\ Names(history') \cup Names(deferredMessages') \subseteq
             Names(history) \cup Names(deferredMessages) \cup {Name(m)}
  BY <1>4, <1>5, <1>6, NewAppended
<1>8. UNCHANGED <<compacting, compactor>>
  BY <1>4 DEF compaction
<1>9. ContextTyped'
  BY <1>2, <1>3, <1>4, <1>7, <1>8 DEF NamesInv, ContextTyped
<1>10. Counters'
  BY <1>2, <1>4, <1>8 DEF NamesInv, Counters
<1>11. Spent \subseteq Spent'
  <2>1. \A v \in Turns : worker[v].results \in Nat
    BY DEF NamesInv, ContextTyped, Worker
  <2>2. used'.reminders >= used.reminders
    BY <1>2, <1>3 DEF k
  <2>. QED
    BY <1>2, <1>4, <1>8, <1>9, <2>1, <2>2, SpentStays, SMTT(30) DEF NamesInv, ContextTyped
<1>12. Name(m) \in Spent'
  <2>1. k \in 1..used'.reminders
    BY <1>2, <1>3 DEF k
  <2>. QED
    BY <1>5, <2>1 DEF Spent
<1>. QED
  BY <1>7, <1>9, <1>10, <1>11, <1>12, NamesKept

LEMMA EditsCounted ==
    ASSUME ContextTyped, used' = [used EXCEPT !.edits = @ + 1]
    PROVE  /\ used' \in [turns : Nat, reminders : Nat, steps : Nat, compactions : Nat,
                         edits : Nat, restarts : Nat]
           /\ used'.turns = used.turns /\ used'.reminders = used.reminders
           /\ used'.steps = used.steps /\ used'.compactions = used.compactions
           /\ used'.restarts = used.restarts
BY DEF ContextTyped

\* Messages only go: what is left is apart, and what is held back goes as well.
LEMMA EditKeepsNames ==
    ASSUME NamesInv, history' \in Seq(AnyMessage), Distinct(history'),
           Names(history') \subseteq Names(history),
           openSteps' = {}, pendingToolResultIds' = {}, deferredMessages' = << >>,
           used' = [used EXCEPT !.edits = @ + 1],
           UNCHANGED <<worker, activeTurn, compaction, unknownStep>>
    PROVE  NamesInv'
<1>1. /\ used' \in [turns : Nat, reminders : Nat, steps : Nat, compactions : Nat,
                    edits : Nat, restarts : Nat]
      /\ used'.turns = used.turns /\ used'.reminders = used.reminders
      /\ used'.steps = used.steps /\ used'.compactions = used.compactions
  BY EditsCounted DEF NamesInv
<1>2. UNCHANGED <<compacting, compactor>>
  BY DEF compaction
<1>3. ContextTyped'
  BY <1>1, <1>2, SMTT(30) DEF NamesInv, ContextTyped
<1>4. Counters'
  BY <1>1, <1>2 DEF NamesInv, Counters
<1>5. Spent \subseteq Spent'
  BY <1>1, <1>2 DEF Spent, Recorded
<1>6. Distinct(<< >>) /\ Names(<< >>) = {}
  BY DEF Distinct, Names
<1>7. Apart(history', deferredMessages') /\ Names(deferredMessages') = {}
  BY <1>6 DEF Apart
<1>8. (Apart(history, deferredMessages))'
  BY <1>7, SMTT(30) DEF Apart, Distinct, Names, Name
<1>. QED
  BY <1>3, <1>4, <1>5, <1>7, <1>8, NamesKept

LEMMA UndoKeepsNames == NamesInv /\ Undo => NamesInv'
<1>. SUFFICES ASSUME NamesInv, Undo
              PROVE  NamesInv'
  OBVIOUS
<1> DEFINE Stops == {i \in DOMAIN history : history[i].kind \in {"prompt", "summary"}}
           last  == IF Stops = {} THEN 0 ELSE CHOOSE i \in Stops : \A j \in Stops : j <= i
           kept  == IF last > 0 /\ history[last].kind = "prompt" THEN last - 1 ELSE last
           positions == {i \in DOMAIN history : i <= kept \/ history[i].kind = "injection"}
           s == Pick(history, positions)
<1>1. history' = Pick(history, positions) /\ positions \in SUBSET (DOMAIN history)
  BY DEF Undo
<1>. HIDE DEF positions
<1>2. history \in Seq(AnyMessage) /\ Distinct(history)
  BY DEF NamesInv, ContextTyped, Apart
<1>3. s \in Seq(AnyMessage) /\ \E f : Selects(s, history, f)
  BY <1>1, <1>2, Picks
<1>. HIDE DEF s
<1>4. Distinct(s) /\ Names(s) \subseteq Names(history)
  BY <1>2, <1>3, SelectedApart
<1>5. history' = s
  BY <1>1 DEF s
<1>. QED
  BY <1>3, <1>4, <1>5, EditKeepsNames DEF Undo

LEMMA ClearKeepsNames == NamesInv /\ Clear => NamesInv'
<1>. SUFFICES ASSUME NamesInv, Clear
              PROVE  NamesInv'
  OBVIOUS
<1>1. history' = << >> /\ << >> \in Seq(AnyMessage)
  <2>1. history' = << >>
    BY DEF Clear
  <2>. QED
    BY <2>1, EmptySeq
<1>2. Distinct(<< >>) /\ Names(<< >>) = {}
  BY DEF Distinct, Names
<1>. QED
  BY <1>1, <1>2, EditKeepsNames DEF Clear

\* The messages held back follow, or wait on.
LEMMA FlushedApart ==
    ASSUME NEW h \in Seq(AnyMessage), deferredMessages \in Seq(AnyMessage),
           Apart(h, deferredMessages), FlushDeferred(h)
    PROVE  /\ history' \in Seq(AnyMessage) /\ deferredMessages' \in Seq(AnyMessage)
           /\ Apart(history, deferredMessages)'
           /\ Names(history') \cup Names(deferredMessages') = Names(h) \cup Names(deferredMessages)
           /\ Names(h) \subseteq Names(history')
<1> DEFINE t == h \o deferredMessages
<1>1. /\ t \in Seq(AnyMessage) /\ Names(t) = Names(h) \cup Names(deferredMessages)
      /\ Apart(t, << >>) /\ Names(<< >>) = {} /\ << >> \in Seq(AnyMessage)
  BY JoinedApart, EmptySeq
<1>2. \/ history' = h /\ deferredMessages' = deferredMessages
      \/ history' = t /\ deferredMessages' = << >>
  BY DEF FlushDeferred
<1>. HIDE DEF t
<1>3. (Apart(history, deferredMessages))' <=> Apart(history', deferredMessages')
  BY DEF Apart, Distinct, Names, Name
<1>4. CASE history' = h /\ deferredMessages' = deferredMessages
  BY <1>3, <1>4
<1>5. CASE history' = t /\ deferredMessages' = << >>
  BY <1>1, <1>3, <1>5
<1>. QED
  BY <1>2, <1>4, <1>5

\* What is left of the history after a compaction: PrefixIntact bounds the prefix.
LEMMA IntactPrefix ==
    ASSUME NamesInv, NEW c \in Compactions, PrefixIntact(c)
    PROVE  /\ compactor[c].count \in 0..Len(history)
           /\ \A i \in 1..compactor[c].count :
                 /\ i \in DOMAIN compactor[c].snapshot /\ i \in DOMAIN history
                 /\ Name(compactor[c].snapshot[i]) = Name(history[i])
<1> DEFINE old == compactor[c]
<1>1. old.snapshot \in Seq(AnyMessage) /\ old.count \in Nat /\ history \in Seq(AnyMessage)
  BY DEF NamesInv, ContextTyped, Compactor
<1>2. /\ old.count <= Len(old.snapshot) /\ Len(old.snapshot) <= Len(history)
      /\ \A i \in DOMAIN old.snapshot : Name(old.snapshot[i]) = Name(history[i])
  BY DEF NamesInv, Counters, PrefixIntact
<1>. HIDE DEF old
<1>3. /\ Len(old.snapshot) \in Nat /\ Len(history) \in Nat
      /\ DOMAIN old.snapshot = 1..Len(old.snapshot) /\ DOMAIN history = 1..Len(history)
  BY <1>1, LenProperties
<1>4. old.count \in 0..Len(history)
  BY <1>1, <1>2, <1>3
<1>5. ASSUME NEW i \in 1..old.count
      PROVE  i \in DOMAIN old.snapshot /\ i \in DOMAIN history
  BY <1>1, <1>2, <1>3
<1>. QED
  BY <1>2, <1>4, <1>5 DEF old

LEMMA SummaryIsNew ==
    ASSUME NamesInv, NEW c \in Compactions, compactor[c].pc = "generating"
    PROVE  /\ Message("summary", c) \in AnyMessage
           /\ Name(Message("summary", c)) = <<"summary", c>>
           /\ <<"summary", c>> \notin Spent
           /\ <<"summary", c>> \notin Names(history) \cup Names(deferredMessages)
<1>1. c \in Nat
  BY DEF Compactions
<1>2. <<"summary", c>> \notin Spent
  BY DEF Spent
<1>. QED
  BY <1>1, <1>2, NewMessage DEF Kinds, NamesInv

\* The memory once the summary is there.
LEMMA AppliedNames ==
    ASSUME NamesInv, NEW c \in Compactions, compactor[c].pc = "generating", PrefixIntact(c),
           FlushDeferred(<<Message("summary", c)>> \o
               SubSeq(history, compactor[c].count + 1, Len(history)))
    PROVE  /\ history' \in Seq(AnyMessage) /\ deferredMessages' \in Seq(AnyMessage)
           /\ Apart(history, deferredMessages)'
           /\ Names(history') \cup Names(deferredMessages') \subseteq
                  Names(history) \cup Names(deferredMessages) \cup {<<"summary", c>>}
           /\ Names(SubSeq(history, compactor[c].count + 1, Len(history))) \subseteq Names(history')
<1> DEFINE n == compactor[c].count
           m == Message("summary", c)
           s == SubSeq(history, n + 1, Len(history))
           u == <<m>> \o s
<1>1. /\ history \in Seq(AnyMessage) /\ deferredMessages \in Seq(AnyMessage)
      /\ Apart(history, deferredMessages) /\ n \in 0..Len(history)
  BY IntactPrefix DEF NamesInv, ContextTyped
<1>2. /\ m \in AnyMessage /\ Name(m) = <<"summary", c>>
      /\ Name(m) \notin Names(history) \cup Names(deferredMessages)
  BY SummaryIsNew
<1>3. FlushDeferred(u)
  OBVIOUS
<1>. HIDE DEF n, m
<1>4. /\ u \in Seq(AnyMessage) /\ Apart(u, deferredMessages)
      /\ Names(u) = {Name(m)} \cup Names(s)
      /\ Names(u) \subseteq Names(history) \cup {Name(m)}
  BY <1>1, <1>2, SummarisedApart
<1>. HIDE DEF u, s
<1>5. /\ history' \in Seq(AnyMessage) /\ deferredMessages' \in Seq(AnyMessage)
      /\ Apart(history, deferredMessages)'
      /\ Names(history') \cup Names(deferredMessages') = Names(u) \cup Names(deferredMessages)
      /\ Names(u) \subseteq Names(history')
  BY <1>1, <1>3, <1>4, FlushedApart
<1>6. Names(s) \subseteq Names(history')
  BY <1>4, <1>5
<1>. QED
  BY <1>2, <1>4, <1>5, <1>6 DEF n, s

LEMMA ApplyKeepsNames ==
    ASSUME NamesInv, NEW c \in Compactions, ApplyCompaction(c)
    PROVE  NamesInv'
<1>1. compactor[c].pc = "generating" /\ UNCHANGED <<worker, activeTurn, used, unknownStep>>
  BY DEF ApplyCompaction
<1>2. CASE FinishAndCancel(c, "done") /\ UNCHANGED memory
  <2>1. compacting' = 0
    BY <1>2 DEF FinishAndCancel
  <2>. QED
    BY <1>1, <1>2, <2>1, FinishKeepsNames
<1>3. CASE Finish(c, "done") /\ UNCHANGED <<memory, compacting>>
  BY <1>1, <1>3, FinishKeepsNames
<1>4. CASE /\ Finish(c, "done") /\ compacting' = 0
           /\ PrefixIntact(c) /\ UNCHANGED pendingToolResultIds /\ openSteps' = {}
           /\ FlushDeferred(<<Message("summary", c)>> \o
                   SubSeq(history, compactor[c].count + 1, Len(history)))
  <2>1. /\ history' \in Seq(AnyMessage) /\ deferredMessages' \in Seq(AnyMessage)
        /\ Apart(history, deferredMessages)'
        /\ Names(history') \cup Names(deferredMessages') \subseteq
               Names(history) \cup Names(deferredMessages) \cup {<<"summary", c>>}
    BY <1>1, <1>4, AppliedNames
  <2>2. /\ compactor' \in [Compactions -> Compactor] /\ compactor'[c].pc = "done"
        /\ compactor'[c].count <= Len(compactor'[c].snapshot)
        /\ \A d \in Compactions \ {c} : /\ compactor'[d].pc = compactor[d].pc
                                        /\ compactor'[d].snapshot = compactor[d].snapshot
                                        /\ compactor'[d].count = compactor[d].count
    BY <1>4, FinishTyped
  <2>3. ContextTyped'
    BY <1>1, <1>4, <2>1, <2>2 DEF NamesInv, ContextTyped
  <2>4. Counters'
    <3>1. \A d \in Compactions : compactor'[d].count <= Len(compactor'[d].snapshot)
      BY <2>2 DEF NamesInv, Counters
    <3>2. \A d \in Compactions : compactor'[d].pc # "idle" => d <= used.compactions
      BY <1>1, <2>2 DEF NamesInv, Counters
    <3>. QED
      BY <1>1, <3>1, <3>2 DEF NamesInv, Counters
  <2>5. \A d \in Compactions : compactor[d].pc = "done" => compactor'[d].pc = "done"
    BY <2>2
  <2>6. Spent \subseteq Spent' /\ <<"summary", c>> \in Spent'
    BY <1>1, <2>2, <2>5 DEF Spent, Recorded
  <2>. QED
    BY <2>1, <2>3, <2>4, <2>6, NamesKept
<1>. QED
  BY <1>2, <1>3, <1>4 DEF ApplyCompaction

\* A worker goes on with its step or leaves it.
LEMMA StepKeepsCounters ==
    ASSUME NamesInv, NEW w \in Turns, NEW new \in Worker, worker' = [worker EXCEPT ![w] = new],
           new.pc = "step" => /\ worker[w].pc = "step" /\ new.step = worker[w].step
                              /\ worker[w].results <= new.results,
           history' \in Seq(AnyMessage), deferredMessages' \in Seq(AnyMessage),
           openSteps' \in SUBSET Nat, pendingToolResultIds' \in SUBSET Pairs,
           activeTurn' \in {activeTurn, NoTurn}, unknownStep' = unknownStep,
           UNCHANGED <<compaction, used>>
    PROVE  ContextTyped' /\ Counters' /\ Spent \subseteq Spent'
<1>1. /\ worker' \in [Turns -> Worker] /\ worker'[w] = new
      /\ \A v \in Turns \ {w} : worker'[v] = worker[v]
  BY DEF NamesInv, ContextTyped
<1>2. UNCHANGED <<compacting, compactor>>
  BY DEF compaction
<1>3. ContextTyped'
  BY <1>1, <1>2 DEF NamesInv, ContextTyped
<1>4. \A v \in Turns : worker'[v].pc = "step" =>
        worker[v].pc = "step" /\ worker'[v].step = worker[v].step
  BY <1>1
<1>5. Counters'
  BY <1>2, <1>4 DEF NamesInv, Counters
<1>6. \A v \in Turns : worker[v].results \in Nat /\ worker[v].results <= worker[v].results
  <2>1. \A v \in Turns : worker[v] \in Worker
    BY DEF NamesInv, ContextTyped
  <2>. QED
    BY <2>1 DEF Worker
<1>7. \A v \in Turns : worker'[v].pc = "step" => worker[v].results <= worker'[v].results
  BY <1>1, <1>6
<1>8. Spent \subseteq Spent'
  <2>1. used.turns \in Nat /\ used.reminders \in Nat /\ used.steps \in Nat
    BY DEF NamesInv, ContextTyped
  <2>. QED
    BY <1>2, <1>3, <1>4, <1>7, <2>1, SpentStays DEF NamesInv
<1>. QED
  BY <1>3, <1>5, <1>8

LEMMA StepsCounted ==
    ASSUME ContextTyped, used' = [used EXCEPT !.steps = @ + 1]
    PROVE  /\ used' \in [turns : Nat, reminders : Nat, steps : Nat, compactions : Nat,
                         edits : Nat, restarts : Nat]
           /\ used.steps \in Nat /\ used'.steps = used.steps + 1
           /\ used'.turns = used.turns /\ used'.reminders = used.reminders
           /\ used'.compactions = used.compactions /\ used'.restarts = used.restarts
BY DEF ContextTyped

\* A worker that has begun a step.
LEMMA BegunTyped ==
    ASSUME NEW old \in Worker, NEW k \in Nat
    PROVE  LET new == [old EXCEPT !.pc = "step", !.step = k, !.calls = 0, !.results = 0]
           IN  /\ new \in Worker /\ new.pc = "step" /\ new.step = k
               /\ new.calls = 0 /\ new.results = 0 /\ new.aborted = old.aborted
BY DEF Worker

LEMMA BeginStepKeepsNames ==
    ASSUME NamesInv, NEW w \in Turns, BeginStep(w)
    PROVE  NamesInv'
<1> DEFINE k == used.steps + 1
           m == Message("assistant", k)
           old == worker[w]
           new == [old EXCEPT !.pc = "step", !.step = k, !.calls = 0, !.results = 0]
<1>1. used' = [used EXCEPT !.steps = @ + 1]
  BY DEF BeginStep
<1>2. /\ used' \in [turns : Nat, reminders : Nat, steps : Nat, compactions : Nat,
                    edits : Nat, restarts : Nat]
      /\ used.steps \in Nat /\ used'.steps = k /\ k \in Nat
      /\ used'.turns = used.turns /\ used'.reminders = used.reminders
      /\ used'.compactions = used.compactions
  BY <1>1, StepsCounted DEF NamesInv
<1>3. /\ worker' = [worker EXCEPT ![w] = new]
      /\ history' = Append(history, m) /\ openSteps' = openSteps \cup {k}
      /\ UNCHANGED <<pendingToolResultIds, deferredMessages, activeTurn, compaction, unknownStep>>
  BY <1>2 DEF BeginStep
<1>4. m \in AnyMessage /\ Name(m) = <<"assistant", k>>
  BY <1>2, NewMessage DEF Kinds
<1>5. old \in Worker
  BY DEF NamesInv, ContextTyped
<1>. HIDE DEF old
<1>6. new \in Worker /\ new.pc = "step" /\ new.step = k
  BY <1>2, <1>5, BegunTyped
<1>. HIDE DEF m, new, k
<1>7. Name(m) \notin Spent
  BY <1>2, <1>4 DEF Spent, k
<1>8. /\ history' \in Seq(AnyMessage) /\ Names(history') = Names(history) \cup {Name(m)}
      /\ Apart(history', deferredMessages)
  BY <1>3, <1>4, <1>7, AppendedApart DEF NamesInv, ContextTyped
<1>9. Apart(history, deferredMessages)'
  BY <1>3, <1>8 DEF Apart, Distinct, Names, Name
<1>10. /\ worker' \in [Turns -> Worker] /\ worker'[w] = new
       /\ \A v \in Turns \ {w} : worker'[v] = worker[v]
  BY <1>3, <1>6 DEF NamesInv, ContextTyped
<1>11. UNCHANGED <<compacting, compactor>>
  BY <1>3 DEF compaction
<1>12. ContextTyped'
  BY <1>2, <1>3, <1>8, <1>10, <1>11 DEF NamesInv, ContextTyped
<1>13. /\ k \in 1..k /\ k > used.steps /\ 1..used.steps \subseteq 1..k
       /\ k \notin 1..used.steps
  BY <1>2 DEF k
<1>14. Counters'
  <2>1. \A v \in Turns : worker'[v].pc = "step" => worker'[v].step \in 1..used'.steps
    BY <1>2, <1>6, <1>10, <1>13 DEF NamesInv, Counters
  <2>2. ASSUME NEW u \in Turns, NEW v \in Turns, worker'[u].pc = "step", worker'[v].pc = "step",
               worker'[u].step = worker'[v].step
        PROVE  u = v
    BY <1>6, <1>10, <1>13, <2>2 DEF NamesInv, Counters
  <2>. QED
    BY <1>2, <1>11, <2>1, <2>2 DEF NamesInv, Counters
<1>15. Spent \subseteq Spent'
  <2>1. \A v \in Turns : worker[v].results \in Nat
    BY DEF NamesInv, ContextTyped, Worker
  <2>2. \A v \in Turns : worker'[v].pc = "step" =>
          \/ worker'[v].step > used.steps
          \/ /\ worker[v].pc = "step" /\ worker'[v].step = worker[v].step
             /\ worker[v].results <= worker'[v].results
    BY <1>6, <1>10, <1>13, <2>1
  <2>3. /\ used'.turns >= used.turns /\ used'.reminders >= used.reminders
        /\ used'.steps >= used.steps
    BY <1>2, <1>13 DEF NamesInv, ContextTyped
  <2>. QED
    BY <1>11, <1>12, <2>2, <2>3, SpentStays DEF NamesInv
<1>16. Name(m) \in Spent'
  BY <1>2, <1>4, <1>13 DEF Spent
<1>. QED
  BY <1>3, <1>8, <1>9, <1>12, <1>14, <1>15, <1>16, NamesKept

LEMMA SpentUnchanged ==
    ASSUME worker' = worker, used' = used, compactor' = compactor
    PROVE  Spent' = Spent
BY DEF Spent, Recorded

LEMMA ContentPartKeepsNames ==
    ASSUME NamesInv, NEW w \in Turns, ContentPart(w)
    PROVE  NamesInv'
<1>1. UNCHANGED <<compaction, used>>
  BY DEF ContentPart
<1>2. CASE UnknownStep(w)
  BY <1>1, <1>2, EndTurnKeepsNames DEF UnknownStep
<1>3. CASE /\ history' = Fill(worker[w].step, TRUE, {})
           /\ UNCHANGED <<openSteps, pendingToolResultIds, deferredMessages, worker,
                          activeTurn, unknownStep>>
  <2> DEFINE h == Fill(worker[w].step, TRUE, {})
  <2>1. worker[w].step \in Nat /\ {} \in SUBSET Pairs /\ TRUE \in BOOLEAN
    BY DEF NamesInv, ContextTyped, Worker
  <2>2. h \in Seq(AnyMessage) /\ Names(h) = Names(history) /\ Apart(h, deferredMessages)
    BY <2>1, Filled, FilledApart DEF NamesInv
  <2>3. history' = h
    BY <1>3
  <2>. HIDE DEF h
  <2>0. ContextTyped /\ Counters
    BY DEF NamesInv
  <2>4. UNCHANGED <<compacting, compactor>>
    BY <1>1 DEF compaction
  <2>5. ContextTyped' /\ Counters'
    <3>1. UNCHANGED <<worker, used>>
      BY <1>1, <1>3
    <3>2. Counters'
      BY <2>0, <2>4, <3>1 DEF Counters
    <3>3. ContextTyped'
      BY <1>3, <2>0, <2>2, <2>3, <2>4, <3>1 DEF ContextTyped
    <3>. QED
      BY <3>2, <3>3
  <2>6. Spent \subseteq Spent'
    <3>1. worker' = worker /\ used' = used /\ compactor' = compactor
      BY <1>1, <1>3, <2>4
    <3>. QED
      BY <3>1, SpentUnchanged
  <2>7. Apart(history, deferredMessages)'
    <3>1. Apart(history', deferredMessages')
      BY <1>3, <2>2, <2>3
    <3>. QED
      BY <3>1 DEF Apart, Distinct, Names, Name
  <2>. QED
    BY <1>3, <2>2, <2>3, <2>5, <2>6, <2>7, NamesKept
<1>. QED
  BY <1>2, <1>3 DEF ContentPart

LEMMA ApartPrimed ==
    Apart(history', deferredMessages') => Apart(history, deferredMessages)'
BY DEF Apart, Distinct, Names, Name

LEMMA ToolCallKeepsNames ==
    ASSUME NamesInv, NEW w \in Turns, ToolCall(w)
    PROVE  NamesInv'
<1> DEFINE old == worker[w]
           call == <<old.step, old.calls + 1>>
           new == [old EXCEPT !.calls = @ + 1]
<1>1. UNCHANGED <<compaction, used>> /\ worker[w].pc = "step"
  BY DEF ToolCall
<1>2. CASE UnknownStep(w)
  BY <1>1, <1>2, EndTurnKeepsNames DEF UnknownStep
<1>3. CASE /\ history' = Fill(old.step, FALSE, {call})
           /\ pendingToolResultIds' = pendingToolResultIds \cup {call}
           /\ worker' = [worker EXCEPT ![w].calls = @ + 1]
           /\ UNCHANGED <<openSteps, deferredMessages, activeTurn, unknownStep>>
  <2> DEFINE h == Fill(old.step, FALSE, {call})
  <2>1. worker' = [worker EXCEPT ![w] = new]
    BY <1>3
  <2>2. old \in Worker
    BY DEF NamesInv, ContextTyped
  <2>. HIDE DEF old
  <2>3. /\ old.step \in Nat /\ call \in Pairs /\ new \in Worker
        /\ new.pc = old.pc /\ new.step = old.step /\ old.results <= new.results
    BY <2>2 DEF Worker, Pairs
  <2>. HIDE DEF new, call
  <2>4. h \in Seq(AnyMessage) /\ Names(h) = Names(history) /\ Apart(h, deferredMessages)
    <3>1. {call} \in SUBSET Pairs /\ FALSE \in BOOLEAN
      BY <2>3
    <3>. QED
      BY <2>3, <3>1, Filled, FilledApart DEF NamesInv
  <2>. HIDE DEF h
  <2>5. history' = h /\ deferredMessages' = deferredMessages
    BY <1>3 DEF h
  <2>6. /\ history' \in Seq(AnyMessage) /\ deferredMessages' \in Seq(AnyMessage)
        /\ openSteps' \in SUBSET Nat /\ pendingToolResultIds' \in SUBSET Pairs
        /\ activeTurn' = activeTurn /\ unknownStep' = unknownStep
    BY <1>3, <2>3, <2>4, <2>5 DEF NamesInv, ContextTyped
  <2>7. ContextTyped' /\ Counters' /\ Spent \subseteq Spent'
    BY <1>1, <2>1, <2>3, <2>6, StepKeepsCounters DEF old
  <2>8. Apart(history, deferredMessages)'
    BY <2>4, <2>5, ApartPrimed
  <2>. QED
    BY <2>4, <2>5, <2>7, <2>8, NamesKept
<1>. QED
  BY <1>2, <1>3 DEF ToolCall

LEMMA ToolResultKeepsNames ==
    ASSUME NamesInv, NEW w \in Turns, ToolResult(w)
    PROVE  NamesInv'
<1> DEFINE old == worker[w]
           call == <<old.step, old.results + 1>>
           m == Message("tool", call)
           new == [old EXCEPT !.results = @ + 1]
           h == Append(history, m)
<1>1. /\ old.pc = "step" /\ worker' = [worker EXCEPT ![w] = new]
      /\ pendingToolResultIds' = pendingToolResultIds \ {call} /\ FlushDeferred(h)
      /\ UNCHANGED <<openSteps, activeTurn, compaction, used, unknownStep>>
  BY DEF ToolResult
<1>2. /\ old \in Worker /\ old.step \in 1..used.steps
      /\ \A v \in Turns : worker[v].pc = "step" /\ worker[v].step = old.step => v = w
  BY <1>1 DEF NamesInv, ContextTyped, Counters
<1>. HIDE DEF old
<1>3. /\ call \in Pairs /\ call[1] = old.step /\ call[2] = old.results + 1 /\ old.results \in Nat
      /\ new \in Worker /\ new.pc = old.pc /\ new.step = old.step
      /\ new.results = old.results + 1
  BY <1>2 DEF Worker, Pairs
<1>4. m \in AnyMessage /\ Name(m) = <<"tool", call>>
  BY <1>3, NewMessage DEF Kinds
<1>5. call \notin Recorded
  <2>1. ~(call[2] <= old.results)
    BY <1>3
  <2>. QED
    BY <1>1, <1>3, <2>1 DEF Recorded, old
<1>. HIDE DEF m, new
<1>6. Name(m) \notin Spent
  BY <1>4, <1>5 DEF Spent
<1>7. /\ h \in Seq(AnyMessage) /\ Names(h) = Names(history) \cup {Name(m)}
      /\ Apart(h, deferredMessages) /\ deferredMessages \in Seq(AnyMessage)
  BY <1>4, <1>6, AppendedApart DEF NamesInv, ContextTyped
<1>. HIDE DEF h, call
<1>8. /\ history' \in Seq(AnyMessage) /\ deferredMessages' \in Seq(AnyMessage)
      /\ Apart(history, deferredMessages)'
      /\ Names(history') \cup Names(deferredMessages') = Names(h) \cup Names(deferredMessages)
  BY <1>1, <1>7, FlushedApart
<1>9. /\ openSteps' \in SUBSET Nat /\ pendingToolResultIds' \in SUBSET Pairs
      /\ activeTurn' = activeTurn /\ unknownStep' = unknownStep
  BY <1>1 DEF NamesInv, ContextTyped
<1>10. worker[w].results <= new.results
  BY <1>3 DEF old
<1>11. ContextTyped' /\ Counters' /\ Spent \subseteq Spent'
  BY <1>1, <1>3, <1>8, <1>9, <1>10, StepKeepsCounters DEF old
<1>12. Name(m) \in Spent'
  <2>1. call \in (1..used'.steps) \X Nat
    BY <1>1, <1>2, <1>3 DEF call
  <2>2. ASSUME NEW v \in Turns, worker'[v].pc = "step", worker'[v].step = call[1]
        PROVE  call[2] <= worker'[v].results
    <3>1. /\ worker'[w] = new /\ \A u \in Turns \ {w} : worker'[u] = worker[u]
      BY <1>1 DEF NamesInv, ContextTyped
    <3>2. v = w
      BY <1>2, <1>3, <2>2, <3>1
    <3>. QED
      BY <1>3, <3>1, <3>2
  <2>3. call \in Recorded'
    BY <2>1, <2>2 DEF Recorded
  <2>. QED
    BY <1>4, <2>3 DEF Spent
<1>. QED
  BY <1>7, <1>8, <1>11, <1>12, NamesKept

LEMMA EndStepKeepsNames ==
    ASSUME NamesInv, NEW w \in Turns, EndStep(w)
    PROVE  NamesInv'
<1>1. /\ openSteps' = openSteps \ {worker[w].step} /\ FlushDeferred(history)
      /\ UNCHANGED <<pendingToolResultIds, compaction, used, unknownStep>>
  BY DEF EndStep
<1>2. /\ history \in Seq(AnyMessage) /\ deferredMessages \in Seq(AnyMessage)
      /\ Apart(history, deferredMessages)
  BY DEF NamesInv, ContextTyped
<1>3. /\ history' \in Seq(AnyMessage) /\ deferredMessages' \in Seq(AnyMessage)
      /\ Apart(history, deferredMessages)'
      /\ Names(history') \cup Names(deferredMessages') = Names(history) \cup Names(deferredMessages)
  BY <1>1, <1>2, FlushedApart
<1> DEFINE ready == [NotLaunched EXCEPT !.pc = "ready"]
<1>4. ready \in Worker /\ ready.pc = "ready"
  BY WorkersTyped DEF Worker
<1>. HIDE DEF ready
<1>5. PICK new \in {ready, Ended} : worker' = [worker EXCEPT ![w] = new]
  BY DEF EndStep, EndTurn, ready
<1>6. activeTurn' \in {activeTurn, NoTurn}
  BY DEF EndStep, EndTurn
<1>7. /\ openSteps' \in SUBSET Nat /\ pendingToolResultIds' \in SUBSET Pairs
      /\ unknownStep' = unknownStep /\ UNCHANGED <<compaction, used>>
  BY <1>1 DEF NamesInv, ContextTyped
<1>8. new \in Worker /\ new.pc # "step"
  BY <1>4, WorkersTyped
<1>9. ContextTyped' /\ Counters' /\ Spent \subseteq Spent'
  BY <1>3, <1>5, <1>6, <1>7, <1>8, StepKeepsCounters
<1>. QED
  BY <1>3, <1>9, NamesKept

LEMMA NamesInitially == ContextInit => NamesInv
<1>. SUFFICES ASSUME ContextInit
              PROVE  NamesInv
  OBVIOUS
<1>1. << >> \in Seq(AnyMessage) /\ Distinct(<< >>) /\ Names(<< >>) = {} /\ Len(<< >>) = 0
  BY EmptySeq DEF Distinct, Names
<1>2. /\ \A w \in Turns : worker[w] = NotLaunched
      /\ \A c \in Compactions : compactor[c] = NotBegun
  BY DEF ContextInit
<1>3. ContextTyped
  <2>1. worker \in [Turns -> Worker] /\ compactor \in [Compactions -> Compactor]
    BY WorkersTyped, CompactorsTyped DEF ContextInit
  <2>2. /\ history \in Seq(AnyMessage) /\ deferredMessages \in Seq(AnyMessage)
        /\ openSteps \in SUBSET Nat /\ pendingToolResultIds \in SUBSET Pairs
        /\ activeTurn = NoTurn /\ compacting = 0 /\ unknownStep \in BOOLEAN
    BY <1>1 DEF ContextInit
  <2>3. /\ used \in [turns : Nat, reminders : Nat, steps : Nat, compactions : Nat,
                     edits : Nat, restarts : Nat]
        /\ used.turns = 0 /\ used.compactions = 0
    BY DEF ContextInit
  <2>. QED
    BY <2>1, <2>2, <2>3, ContextAssumption DEF ContextTyped
<1>4. Counters
  BY <1>2, WorkersTyped, CompactorsTyped DEF Counters
<1>5. /\ Apart(history, deferredMessages)
      /\ Names(history) \cup Names(deferredMessages) = {}
  BY <1>1 DEF ContextInit, Apart
<1>. QED
  BY <1>3, <1>4, <1>5 DEF NamesInv

LEMMA NamesSurvive == NamesInv /\ [ContextNext]_contextVars => NamesInv'
<1>. SUFFICES ASSUME NamesInv, [ContextNext]_contextVars
              PROVE  NamesInv'
  OBVIOUS
<1>1. ASSUME NEW w \in Turns, TurnStep(w)
      PROVE  NamesInv'
  BY <1>1, LeaveTurnKeepsNames, BlockKeepsNames, UnblockKeepsNames, BeginStepKeepsNames,
     ContentPartKeepsNames, ToolCallKeepsNames, ToolResultKeepsNames, EndStepKeepsNames
     DEF TurnStep
<1>2. ASSUME NEW c \in Compactions, CompactionStep(c)
      PROVE  NamesInv'
  BY <1>2, ShrinkKeepsNames, ApplyKeepsNames, FailCompactionKeepsNames DEF CompactionStep
<1>3. CASE UNCHANGED contextVars
  <2>1. ContextTyped' /\ Counters' /\ Spent' = Spent /\ UNCHANGED memory
    <3>1. UNCHANGED <<memory, compaction, worker, activeTurn, used, unknownStep>>
      BY <1>3 DEF contextVars
    <3>2. ContextTyped'
      BY <3>1 DEF NamesInv, ContextTyped, memory, compaction
    <3>3. Counters'
      BY <3>1 DEF NamesInv, Counters, compaction
    <3>4. Spent' = Spent
      BY <3>1, SpentUnchanged DEF compaction
    <3>. QED
      BY <3>1, <3>2, <3>3, <3>4
  <2>. QED
    BY <2>1, MemoryUnchanged
<1>. QED
  BY <1>1, <1>2, <1>3, PromptKeepsNames, CancelKeepsNames, UndoKeepsNames, ClearKeepsNames,
     RestartKeepsNames, BeginManualKeepsNames, CancelCompactionKeepsNames, RemindKeepsNames
     DEF ContextNext

\* The inductive invariant: a name is given out once, and every message has one given
\* out already.
THEOREM NamesInvariant == ContextSpec => []NamesInv
<1>. QED
  BY NamesInitially, NamesSurvive, PTL DEF ContextSpec

-----------------------------------------------------------------------------
(* What follows from it                                                    *)

LEMMA NamesImplyNothingTwice == NamesInv => NothingTwice
<1>. SUFFICES ASSUME NamesInv
              PROVE  NothingTwice
  OBVIOUS
<1> DEFINE all == history \o deferredMessages
<1>1. Apart(all, << >>)
  BY JoinedApart DEF NamesInv, ContextTyped
<1>. QED
  BY <1>1 DEF NothingTwice, Apart, Distinct

\* No message is in the history twice, or both there and held back, whatever the
\* client does while a turn runs and however often the agent is resumed: what
\* FlushDeferred appends has left the list, and a step fills its message in place.
THEOREM NothingTwiceHolds == ContextSpec => []NothingTwice
<1>. QED
  BY NamesInvariant, NamesImplyNothingTwice, PTL

\* Only a summary changes the memory and the compactions in one step.
LEMMA MemoryOrCompaction ==
    ContextNext => \/ UNCHANGED memory \/ UNCHANGED compaction
                   \/ \E d \in Compactions : ApplyCompaction(d)
<1>1. ASSUME NEW w \in Turns, TurnStep(w)
      PROVE  UNCHANGED memory \/ UNCHANGED compaction
  <2>1. LeaveTurn(w) \/ BlockOnCompaction(w) \/ Unblock(w) => UNCHANGED memory
    BY DEF LeaveTurn, BlockOnCompaction, Unblock
  <2>2. BeginStep(w) \/ ContentPart(w) \/ ToolCall(w) \/ ToolResult(w) \/ EndStep(w) =>
          UNCHANGED compaction
    BY Zenon DEF BeginStep, ContentPart, ToolCall, ToolResult, EndStep
  <2>. QED
    BY <1>1, <2>1, <2>2 DEF TurnStep
<1>2. ASSUME NEW c \in Compactions, CompactionStep(c)
      PROVE  UNCHANGED memory \/ ApplyCompaction(c)
  BY <1>2 DEF CompactionStep, Shrink, FailCompaction
<1>3. ASSUME NEW kind \in {"reminder", "injection"}, Remind(kind)
      PROVE  UNCHANGED compaction
  BY <1>3 DEF Remind
<1>4. Prompt \/ Undo \/ Clear => UNCHANGED compaction
  BY Zenon DEF Prompt, Undo, Clear
<1>5. Cancel \/ Restart \/ BeginManual \/ CancelCompaction => UNCHANGED memory
  BY Zenon DEF Cancel, Restart, BeginManual, CancelCompaction
<1>. QED
  BY <1>1, <1>2, <1>3, <1>4, <1>5 DEF ContextNext

LEMMA ApplyKeepsTheRest ==
    ASSUME NamesInv, NEW c \in Compactions, ApplyCompaction(c)
    PROVE  Names(history) \ {Name(compactor[c].snapshot[i]) : i \in 1..compactor[c].count}
               \subseteq Names(history')
<1> DEFINE n == compactor[c].count
           s == SubSeq(history, n + 1, Len(history))
<1>1. CASE UNCHANGED memory
  BY <1>1 DEF memory
<1>2. CASE /\ PrefixIntact(c)
           /\ FlushDeferred(<<Message("summary", c)>> \o
                   SubSeq(history, compactor[c].count + 1, Len(history)))
  <2>1. Names(s) \subseteq Names(history')
    BY <1>2, AppliedNames DEF ApplyCompaction
  <2>2. /\ history \in Seq(AnyMessage) /\ n \in 0..Len(history)
        /\ \A i \in 1..n : Name(compactor[c].snapshot[i]) = Name(history[i])
    BY <1>2, IntactPrefix DEF NamesInv, ContextTyped
  <2>. HIDE DEF n
  <2>3. DOMAIN s = 1..(Len(history) - n) /\ \A a \in DOMAIN s : s[a] = history[a + n]
    BY <2>2, Suffix
  <2>. HIDE DEF s
  <2>4. ASSUME NEW i \in DOMAIN history, i \notin 1..n
        PROVE  Name(history[i]) \in Names(s)
    <3>1. Len(history) \in Nat /\ DOMAIN history = 1..Len(history)
      BY <2>2, LenProperties
    <3>2. i - n \in DOMAIN s /\ (i - n) + n = i
      BY <2>2, <2>3, <2>4, <3>1
    <3>3. s[i - n] = history[i]
      BY <2>3, <3>2
    <3>. QED
      BY <3>2, <3>3 DEF Names
  <2>5. ASSUME NEW x \in Names(history), x \notin {Name(compactor[c].snapshot[i]) : i \in 1..n}
        PROVE  x \in Names(s)
    <3>1. PICK i \in DOMAIN history : x = Name(history[i])
      BY DEF Names
    <3>2. i \notin 1..n
      BY <2>2, <2>5, <3>1
    <3>. QED
      BY <2>4, <3>1, <3>2
  <2>. QED
    BY <2>1, <2>5 DEF n
<1>. QED
  BY <1>1, <1>2 DEF ApplyCompaction

\* A compaction whose summary has come never swallows a message that came after it
\* began, nor one beyond the prefix it summarised, even if the client undoes and
\* prompts while it works: PrefixIntact compares the messages, not their number.
THEOREM CompactionKeepsTheRestHolds == ContextSpec => CompactionKeepsTheRest
<1> DEFINE Kept ==
        \A c \in Compactions :
            compactor[c].pc = "generating" /\ compactor'[c].pc = "done" =>
                {Name(history[i]) : i \in DOMAIN history}
                \ {Name(compactor[c].snapshot[i]) : i \in 1..compactor[c].count}
                \subseteq {Name(history'[i]) : i \in DOMAIN history'}
<1>1. NamesInv /\ ContextNext => Kept
  <2>. SUFFICES ASSUME NamesInv, ContextNext, NEW c \in Compactions,
                       compactor[c].pc = "generating", compactor'[c].pc = "done"
                PROVE  Names(history)
                       \ {Name(compactor[c].snapshot[i]) : i \in 1..compactor[c].count}
                       \subseteq Names(history')
    BY DEF Names
  <2>1. CASE UNCHANGED memory
    BY <2>1 DEF memory
  <2>2. CASE UNCHANGED compaction
    BY <2>2 DEF compaction
  <2>3. ASSUME NEW d \in Compactions, ApplyCompaction(d)
        PROVE  d = c
    <3>1. d # c => compactor'[c].pc = compactor[c].pc
      BY <2>3, FinishTyped DEF ApplyCompaction
    <3>. QED
      BY <3>1
  <2>. QED
    BY <2>1, <2>2, <2>3, MemoryOrCompaction, ApplyKeepsTheRest
<1>2. NamesInv /\ [ContextNext]_contextVars => [Kept]_contextVars
  BY <1>1
<1>. QED
  BY <1>2, NamesInvariant, PTL DEF ContextSpec, CompactionKeepsTheRest

-----------------------------------------------------------------------------
(* Exchanges in parts of a history                                         *)

\* The positions of the original that a selection takes.
Reached(s, f) == {f[a] : a \in DOMAIN s}

\* Messages picked from a history are still paired when a call goes or stays
\* together with its results.
LEMMA SelectedPaired ==
    ASSUME NEW s \in Seq(AnyMessage), NEW t \in Seq(AnyMessage), NEW f, Selects(s, t, f),
           NEW open, Paired(t, open),
           \A j, i \in DOMAIN t :
               /\ t[j].kind = "assistant" /\ t[i].kind = "tool" /\ t[i].id \in t[j].calls
               /\ SameExchange(t, j, i)
               => (j \in Reached(s, f) <=> i \in Reached(s, f))
    PROVE  Paired(s, open)
<1>1. /\ DOMAIN s = 1..Len(s) /\ Len(s) \in Nat
      /\ DOMAIN t = 1..Len(t) /\ Len(t) \in Nat
  BY LenProperties
<1>2. /\ \A a \in DOMAIN s : f[a] \in DOMAIN t /\ s[a] = t[f[a]] /\ f[a] \in Reached(s, f)
      /\ \A a, b \in DOMAIN s : a < b => f[a] < f[b]
  BY DEF Selects, Reached
<1>3. ASSUME NEW a \in DOMAIN s, NEW b \in DOMAIN s, SameExchange(t, f[a], f[b])
      PROVE  SameExchange(s, a, b)
  <2>1. f[a] \in Nat /\ f[b] \in Nat /\ f[a] < f[b]
    BY <1>1, <1>2, <1>3 DEF SameExchange
  <2>2. a < b
    BY <1>1, <1>2, <2>1
  <2>3. ASSUME NEW k \in (a + 1)..b
        PROVE  s[k].kind = "tool"
    <3>1. k \in DOMAIN s /\ a < k /\ (k = b \/ k < b)
      BY <1>1
    <3>2. f[k] \in Nat /\ f[a] < f[k] /\ f[k] <= f[b]
      BY <1>1, <1>2, <2>1, <3>1
    <3>3. f[k] \in (f[a] + 1)..f[b]
      BY <2>1, <3>2
    <3>. QED
      BY <1>2, <1>3, <3>1, <3>3 DEF SameExchange
  <2>. QED
    BY <2>2, <2>3 DEF SameExchange
<1>4. ResultsFollowTheirCall(s)
  <2>. SUFFICES ASSUME NEW b \in DOMAIN s, s[b].kind = "tool"
                PROVE  \E a \in DOMAIN s : /\ s[a].kind = "assistant" /\ s[b].id \in s[a].calls
                                           /\ SameExchange(s, a, b)
    BY DEF ResultsFollowTheirCall
  <2>1. PICK j \in DOMAIN t : /\ t[j].kind = "assistant" /\ s[b].id \in t[j].calls
                              /\ SameExchange(t, j, f[b])
    BY <1>2 DEF Paired, ResultsFollowTheirCall
  <2>2. j \in Reached(s, f)
    BY <1>2, <2>1
  <2>3. PICK a \in DOMAIN s : f[a] = j
    BY <2>2 DEF Reached
  <2>. QED
    BY <1>2, <1>3, <2>1, <2>3
<1>5. ASSUME NEW a \in DOMAIN s, s[a].kind = "assistant", NEW call \in s[a].calls
      PROVE  /\ call[1] = s[a].id
             /\ call \in open \/ \E b \in DOMAIN s :
                 s[b].kind = "tool" /\ s[b].id = call /\ SameExchange(s, a, b)
  <2>1. /\ call[1] = s[a].id
        /\ call \in open \/ \E i \in DOMAIN t :
             t[i].kind = "tool" /\ t[i].id = call /\ SameExchange(t, f[a], i)
    BY <1>2, <1>5 DEF Paired
  <2>2. ASSUME NEW i \in DOMAIN t, t[i].kind = "tool", t[i].id = call, SameExchange(t, f[a], i)
        PROVE  \E b \in DOMAIN s :
                 s[b].kind = "tool" /\ s[b].id = call /\ SameExchange(s, a, b)
    <3>1. i \in Reached(s, f)
      BY <1>2, <1>5, <2>2
    <3>2. PICK b \in DOMAIN s : f[b] = i
      BY <3>1 DEF Reached
    <3>. QED
      BY <1>2, <1>3, <2>2, <3>2
  <2>. QED
    BY <2>1, <2>2
<1>. QED
  BY <1>4, <1>5 DEF Paired

\* Plain messages before and after do no harm.
LEMMA PaddedPaired ==
    ASSUME NEW s \in Seq(AnyMessage), NEW t \in Seq(AnyMessage), NEW f, Selects(s, t, f),
           NEW open, Paired(s, open),
           \A k \in DOMAIN t : k \notin Reached(s, f) => Plain(t[k]),
           \A a, b \in DOMAIN s, k \in DOMAIN t : f[a] < k /\ k < f[b] => k \in Reached(s, f)
    PROVE  Paired(t, open)
<1>1. /\ DOMAIN s = 1..Len(s) /\ Len(s) \in Nat
      /\ DOMAIN t = 1..Len(t) /\ Len(t) \in Nat
  BY LenProperties
<1>2. /\ \A a \in DOMAIN s : f[a] \in DOMAIN t /\ s[a] = t[f[a]] /\ f[a] \in Reached(s, f)
      /\ \A a, b \in DOMAIN s : a < b => f[a] < f[b]
  BY DEF Selects, Reached
<1>3. ASSUME NEW a \in DOMAIN s, NEW b \in DOMAIN s, SameExchange(s, a, b)
      PROVE  SameExchange(t, f[a], f[b])
  <2>1. a < b /\ f[a] < f[b] /\ f[a] \in Nat /\ f[b] \in Nat
    BY <1>1, <1>2, <1>3 DEF SameExchange
  <2>2. ASSUME NEW k \in (f[a] + 1)..f[b]
        PROVE  t[k].kind = "tool"
    <3>1. f[b] <= Len(t) /\ 1 <= f[a]
      BY <1>1, <1>2
    <3>2. k \in DOMAIN t /\ f[a] < k /\ (k = f[b] \/ k < f[b])
      BY <1>1, <2>1, <3>1
    <3>3. k \in Reached(s, f)
      BY <1>2, <3>2
    <3>4. PICK c \in DOMAIN s : f[c] = k
      BY <3>3 DEF Reached
    <3>5. a < c /\ c <= b
      <4>1. ~(c < a) /\ c # a
        BY <1>1, <1>2, <2>1, <3>2, <3>4
      <4>2. ~(b < c)
        BY <1>1, <1>2, <2>1, <3>2, <3>4
      <4>. QED
        BY <1>1, <4>1, <4>2
    <3>6. c \in (a + 1)..b
      BY <1>1, <3>5
    <3>. QED
      BY <1>2, <1>3, <3>4, <3>6 DEF SameExchange
  <2>. QED
    BY <2>1, <2>2 DEF SameExchange
<1>4. ResultsFollowTheirCall(t)
  <2>. SUFFICES ASSUME NEW i \in DOMAIN t, t[i].kind = "tool"
                PROVE  \E j \in DOMAIN t : /\ t[j].kind = "assistant" /\ t[i].id \in t[j].calls
                                           /\ SameExchange(t, j, i)
    BY DEF ResultsFollowTheirCall
  <2>1. i \in Reached(s, f)
    BY DEF Plain
  <2>2. PICK b \in DOMAIN s : f[b] = i
    BY <2>1 DEF Reached
  <2>3. PICK a \in DOMAIN s : /\ s[a].kind = "assistant" /\ s[b].id \in s[a].calls
                              /\ SameExchange(s, a, b)
    BY <1>2, <2>2 DEF Paired, ResultsFollowTheirCall
  <2>. QED
    BY <1>2, <1>3, <2>2, <2>3
<1>5. ASSUME NEW j \in DOMAIN t, t[j].kind = "assistant", NEW call \in t[j].calls
      PROVE  /\ call[1] = t[j].id
             /\ call \in open \/ \E i \in DOMAIN t :
                 t[i].kind = "tool" /\ t[i].id = call /\ SameExchange(t, j, i)
  <2>1. j \in Reached(s, f)
    BY <1>5 DEF Plain
  <2>2. PICK a \in DOMAIN s : f[a] = j
    BY <2>1 DEF Reached
  <2>3. /\ call[1] = s[a].id
        /\ call \in open \/ \E b \in DOMAIN s :
             s[b].kind = "tool" /\ s[b].id = call /\ SameExchange(s, a, b)
    BY <1>2, <1>5, <2>2 DEF Paired
  <2>4. ASSUME NEW b \in DOMAIN s,
               s[b].kind = "tool" /\ s[b].id = call /\ SameExchange(s, a, b)
        PROVE  \E i \in DOMAIN t : t[i].kind = "tool" /\ t[i].id = call /\ SameExchange(t, j, i)
    <3>1. f[b] \in DOMAIN t /\ t[f[b]] = s[b]
      BY <1>2
    <3>2. SameExchange(t, j, f[b])
      BY <1>3, <2>2, <2>4
    <3>. QED
      BY <2>4, <3>1, <3>2
  <2>. QED
    BY <1>2, <2>2, <2>3, <2>4
<1>. QED
  BY <1>4, <1>5 DEF Paired

\* Cutting a history where CanSplitAfter says so.
LEMMA CutPaired ==
    ASSUME NEW t \in Seq(AnyMessage), NEW n \in 1..Len(t), CanSplitAfter(t, n), Paired(t, {})
    PROVE  /\ SubSeq(t, 1, n) \in Seq(AnyMessage) /\ Paired(SubSeq(t, 1, n), {})
           /\ Paired(SubSeq(t, n + 1, Len(t)), {})
<1>1. DOMAIN t = 1..Len(t) /\ Len(t) \in Nat
  BY LenProperties
<1>2. ASSUME NEW j \in DOMAIN t, NEW i \in DOMAIN t, SameExchange(t, j, i), j <= n
      PROVE  i <= n
  <2>. SUFFICES ASSUME n < i
                PROVE  FALSE
    BY <1>1
  <2>1. n + 1 \in (j + 1)..i /\ n < Len(t)
    BY <1>1, <1>2
  <2>. QED
    BY <1>2, <2>1 DEF SameExchange, CanSplitAfter
<1>3. ASSUME NEW j \in DOMAIN t, NEW i \in DOMAIN t, SameExchange(t, j, i)
      PROVE  j <= n <=> i <= n
  <2>1. j < i
    BY <1>3 DEF SameExchange
  <2>2. i <= n => j <= n
    BY <1>1, <2>1
  <2>. QED
    BY <1>2, <1>3, <2>2
<1>4. SubSeq(t, 1, n) \in Seq(AnyMessage) /\ Paired(SubSeq(t, 1, n), {})
  <2> DEFINE s == SubSeq(t, 1, n)
             f == [a \in DOMAIN s |-> a]
  <2>1. \A i \in 1..n : t[i] \in AnyMessage
    BY <1>1, ElementOfSeq
  <2>2. s \in Seq(AnyMessage) /\ Len(s) = n /\ \A i \in 1..n : s[i] = t[i]
    BY <1>1, <2>1, SubSeqProperties
  <2>. HIDE DEF s
  <2>3. DOMAIN s = 1..n
    BY <2>2, LenProperties
  <2>4. Selects(s, t, f)
    BY <1>1, <2>2, <2>3 DEF Selects
  <2>5. \A i \in DOMAIN t : i \in Reached(s, f) <=> i <= n
    BY <1>1, <2>3 DEF Reached
  <2>. HIDE DEF f
  <2>6. Paired(s, {})
    BY <1>3, <2>2, <2>4, <2>5, SelectedPaired
  <2>. QED
    BY <2>2, <2>6 DEF s
<1>5. Paired(SubSeq(t, n + 1, Len(t)), {})
  <2> DEFINE s == SubSeq(t, n + 1, Len(t))
             f == [a \in DOMAIN s |-> a + n]
  <2>0. n \in 0..Len(t)
    OBVIOUS
  <2>1. s \in Seq(AnyMessage) /\ DOMAIN s = 1..(Len(t) - n) /\ Selects(s, t, f)
    BY <2>0, Suffix
  <2>. HIDE DEF s
  <2>2. \A i \in DOMAIN t : i \in Reached(s, f) <=> n < i
    <3>1. ASSUME NEW i \in DOMAIN t, n < i
          PROVE  i \in Reached(s, f)
      <4>1. i - n \in DOMAIN s /\ (i - n) + n = i
        BY <1>1, <2>1, <3>1
      <4>. QED
        BY <4>1 DEF Reached
    <3>2. ASSUME NEW i \in Reached(s, f)
          PROVE  n < i
      BY <1>1, <2>1 DEF Reached
    <3>. QED
      BY <3>1, <3>2
  <2>. HIDE DEF f
  <2>3. \A i \in DOMAIN t : i <= n <=> ~(n < i)
    BY <1>1
  <2>4. Paired(s, {})
    BY <1>3, <2>1, <2>2, <2>3, SelectedPaired
  <2>. QED
    BY <2>4 DEF s
<1>. QED
  BY <1>4, <1>5

LEMMA ProjectedPaired ==
    ASSUME NEW t \in Seq(AnyMessage), Paired(t, {})
    PROVE  WellFormed(Project(t))
<1> DEFINE P == {i \in DOMAIN t : t[i].kind = "assistant" => t[i].text \/ t[i].calls # {}}
           s == Pick(t, P)
<1>1. P \in SUBSET (DOMAIN t)
  OBVIOUS
<1>2. \A j, i \in DOMAIN t :
        /\ t[j].kind = "assistant" /\ t[i].kind = "tool" /\ t[i].id \in t[j].calls
        => j \in P /\ i \in P
  OBVIOUS
<1>. HIDE DEF P
<1>3. s \in Seq(AnyMessage) /\ \E f : Selects(s, t, f) /\ {f[a] : a \in DOMAIN s} = P
  BY <1>1, Picks
<1>. HIDE DEF s
<1>4. PICK f : Selects(s, t, f) /\ Reached(s, f) = P
  BY <1>3 DEF Reached
<1>5. Paired(s, {})
  BY <1>2, <1>3, <1>4, SelectedPaired
<1>6. WellFormed(s)
  BY <1>5 DEF Paired, WellFormed, CallsHaveResults
<1>. QED
  BY <1>6 DEF Project, s, P

LEMMA JoinedPaired ==
    ASSUME NEW h \in Seq(AnyMessage), NEW d \in Seq(AnyMessage), NEW open, Paired(h, open),
           \A i \in DOMAIN d : Plain(d[i])
    PROVE  h \o d \in Seq(AnyMessage) /\ Paired(h \o d, open)
<1> DEFINE t == h \o d
           f == [a \in DOMAIN h |-> a]
<1>1. /\ t \in Seq(AnyMessage) /\ DOMAIN t = 1..(Len(h) + Len(d))
      /\ DOMAIN h = 1..Len(h) /\ DOMAIN d = 1..Len(d) /\ Len(h) \in Nat /\ Len(d) \in Nat
      /\ \A i \in 1..(Len(h) + Len(d)) : t[i] = IF i <= Len(h) THEN h[i] ELSE d[i - Len(h)]
  BY ConcatProperties, LenProperties
<1>. HIDE DEF t
<1>2. Selects(h, t, f)
  BY <1>1 DEF Selects
<1>3. \A k \in DOMAIN t : k \in Reached(h, f) <=> k \in DOMAIN h
  BY DEF Reached
<1>4. ASSUME NEW k \in DOMAIN t, k \notin DOMAIN h
      PROVE  Plain(t[k])
  <2>1. k - Len(h) \in DOMAIN d /\ t[k] = d[k - Len(h)]
    BY <1>1, <1>4
  <2>. QED
    BY <2>1
<1>5. \A a, b \in DOMAIN h, k \in DOMAIN t : f[a] < k /\ k < f[b] => k \in DOMAIN h
  BY <1>1
<1>. HIDE DEF f
<1>. QED
  BY <1>1, <1>2, <1>3, <1>4, <1>5, PaddedPaired DEF t

LEMMA AppendedPaired ==
    ASSUME NEW t \in Seq(AnyMessage), NEW m \in AnyMessage, Plain(m), NEW open, Paired(t, open)
    PROVE  Paired(Append(t, m), open)
<1> DEFINE u == Append(t, m)
           f == [a \in DOMAIN t |-> a]
<1>1. /\ u \in Seq(AnyMessage) /\ DOMAIN u = 1..(Len(t) + 1) /\ DOMAIN t = 1..Len(t)
      /\ Len(t) \in Nat /\ u[Len(t) + 1] = m /\ \A i \in 1..Len(t) : u[i] = t[i]
  BY AppendProperties, LenProperties
<1>. HIDE DEF u
<1>2. Selects(t, u, f)
  BY <1>1 DEF Selects
<1>3. \A k \in DOMAIN u : k \in Reached(t, f) <=> k \in DOMAIN t
  BY DEF Reached
<1>4. \A k \in DOMAIN u : k \notin DOMAIN t => u[k] = m
  BY <1>1
<1>5. \A a, b \in DOMAIN t, k \in DOMAIN u : f[a] < k /\ k < f[b] => k \in DOMAIN t
  BY <1>1
<1>. HIDE DEF f
<1>. QED
  BY <1>1, <1>2, <1>3, <1>4, <1>5, PaddedPaired DEF u

LEMMA SummarisedPaired ==
    ASSUME NEW s \in Seq(AnyMessage), NEW m \in AnyMessage, Plain(m), Paired(s, {})
    PROVE  <<m>> \o s \in Seq(AnyMessage) /\ Paired(<<m>> \o s, {})
<1> DEFINE one == <<m>>
           t == one \o s
           f == [a \in DOMAIN s |-> a + 1]
<1>1. one \in Seq(AnyMessage) /\ Len(one) = 1 /\ one[1] = m
  OBVIOUS
<1>. HIDE DEF one
<1>0. one \in Seq(AnyMessage)
  BY <1>1
<1>2. /\ t \in Seq(AnyMessage) /\ DOMAIN t = 1..(Len(one) + Len(s))
      /\ DOMAIN s = 1..Len(s) /\ Len(s) \in Nat
      /\ \A i \in 1..(Len(one) + Len(s)) : t[i] = IF i <= Len(one) THEN one[i] ELSE s[i - Len(one)]
  BY <1>0, ConcatProperties, LenProperties
<1>. HIDE DEF t
<1>3. /\ DOMAIN t = 1..(1 + Len(s)) /\ t[1] = m
      /\ \A a \in DOMAIN s : a + 1 \in DOMAIN t /\ t[a + 1] = s[a]
      /\ \A k \in DOMAIN t : k = 1 \/ k - 1 \in DOMAIN s
  <2>1. DOMAIN t = 1..(1 + Len(s)) /\ 1 \in DOMAIN t /\ 1 <= Len(one)
    BY <1>1, <1>2
  <2>2. t[1] = m
    BY <1>1, <1>2, <2>1
  <2>3. ASSUME NEW a \in DOMAIN s
        PROVE  a + 1 \in DOMAIN t /\ t[a + 1] = s[a]
    <3>1. a + 1 \in 1..(1 + Len(s)) /\ ~(a + 1 <= 1) /\ (a + 1) - 1 = a
      BY <1>2
    <3>. QED
      BY <1>1, <1>2, <2>1, <3>1
  <2>4. \A k \in DOMAIN t : k = 1 \/ k - 1 \in DOMAIN s
    BY <1>2, <2>1
  <2>. QED
    BY <2>1, <2>2, <2>3, <2>4
<1>4. Selects(s, t, f)
  BY <1>2, <1>3 DEF Selects
<1>5. ASSUME NEW k \in DOMAIN t, k # 1
      PROVE  k \in Reached(s, f)
  <2>1. k - 1 \in DOMAIN s /\ (k - 1) + 1 = k
    BY <1>3, <1>5
  <2>. QED
    BY <2>1 DEF Reached
<1>6. \A k \in DOMAIN t : k \notin Reached(s, f) => Plain(t[k])
  BY <1>3, <1>5
<1>7. \A a, b \in DOMAIN s, k \in DOMAIN t : f[a] < k /\ k < f[b] => k \in Reached(s, f)
  <2>1. \A a \in DOMAIN s, k \in DOMAIN t : f[a] < k => k # 1
    BY <1>2, <1>3
  <2>. QED
    BY <1>5, <2>1
<1>. HIDE DEF f
<1>. QED
  BY <1>2, <1>4, <1>6, <1>7, PaddedPaired DEF t, one

\* The next result of the exchange that is open at the end of the history.
LEMMA AnsweredPaired ==
    ASSUME NEW t \in Seq(AnyMessage), Distinct(t), NEW open, Paired(t, open),
           NEW j \in DOMAIN t, t[j].kind = "assistant", NEW call \in t[j].calls,
           \A k \in (j + 1)..Len(t) : t[k].kind = "tool",
           NEW m \in AnyMessage, m.kind = "tool", m.id = call
    PROVE  Paired(Append(t, m), open \ {call})
<1> DEFINE u == Append(t, m)
           N == Len(t) + 1
<1>1. /\ u \in Seq(AnyMessage) /\ DOMAIN u = 1..N /\ DOMAIN t = 1..Len(t)
      /\ Len(t) \in Nat /\ u[N] = m /\ \A i \in 1..Len(t) : u[i] = t[i]
  BY AppendProperties, LenProperties
<1>. HIDE DEF u
<1>2. /\ N \in DOMAIN u /\ \A i \in DOMAIN t : i \in DOMAIN u /\ i < N /\ u[i] = t[i]
      /\ \A i \in DOMAIN u : i = N \/ i \in DOMAIN t
  <2>1. /\ N \in 1..N /\ \A i \in 1..Len(t) : i \in 1..N /\ i < N
        /\ \A i \in 1..N : i = N \/ i \in 1..Len(t)
    BY <1>1
  <2>. QED
    BY <1>1, <2>1
<1>3. ASSUME NEW a \in DOMAIN t, NEW b \in DOMAIN t, SameExchange(t, a, b)
      PROVE  SameExchange(u, a, b)
  <2>1. (a + 1)..b \subseteq DOMAIN t
    BY <1>1
  <2>. QED
    BY <1>2, <1>3, <2>1 DEF SameExchange
<1>4. SameExchange(u, j, N)
  <2>1. ASSUME NEW k \in (j + 1)..N
        PROVE  u[k].kind = "tool"
    <3>1. k = N \/ k \in (j + 1)..Len(t)
      BY <1>1
    <3>2. k \in (j + 1)..Len(t) => k \in DOMAIN t
      BY <1>1
    <3>. QED
      BY <1>1, <1>2, <3>1, <3>2
  <2>. QED
    BY <1>2, <2>1 DEF SameExchange
<1>5. ResultsFollowTheirCall(u)
  <2>. SUFFICES ASSUME NEW i \in DOMAIN u, u[i].kind = "tool"
                PROVE  \E a \in DOMAIN u : /\ u[a].kind = "assistant" /\ u[i].id \in u[a].calls
                                           /\ SameExchange(u, a, i)
    BY DEF ResultsFollowTheirCall
  <2>1. CASE i = N
    BY <1>1, <1>2, <1>4, <2>1
  <2>2. CASE i \in DOMAIN t
    <3>1. PICK a \in DOMAIN t : /\ t[a].kind = "assistant" /\ t[i].id \in t[a].calls
                                /\ SameExchange(t, a, i)
      BY <1>2, <2>2 DEF Paired, ResultsFollowTheirCall
    <3>. QED
      BY <1>2, <1>3, <2>2, <3>1
  <2>. QED
    BY <1>2, <2>1, <2>2
<1>6. ASSUME NEW a \in DOMAIN u, u[a].kind = "assistant", NEW x \in u[a].calls
      PROVE  /\ x[1] = u[a].id
             /\ x \in open \ {call} \/ \E i \in DOMAIN u :
                 u[i].kind = "tool" /\ u[i].id = x /\ SameExchange(u, a, i)
  <2>1. a \in DOMAIN t
    BY <1>1, <1>2, <1>6
  <2>2. /\ x[1] = t[a].id
        /\ x \in open \/ \E i \in DOMAIN t :
             t[i].kind = "tool" /\ t[i].id = x /\ SameExchange(t, a, i)
    BY <1>2, <1>6, <2>1 DEF Paired
  <2>3. CASE x = call
    <3>1. call[1] = t[j].id
      BY DEF Paired
    <3>2. Name(t[a]) = Name(t[j])
      BY <1>2, <1>6, <2>1, <2>2, <2>3, <3>1 DEF Name
    <3>3. a = j
      BY <2>1, <3>2 DEF Distinct
    <3>. QED
      BY <1>1, <1>2, <1>4, <2>1, <2>2, <2>3, <3>3
  <2>4. CASE x # call
    BY <1>2, <1>3, <2>1, <2>2, <2>4
  <2>. QED
    BY <2>3, <2>4
<1>. QED
  BY <1>5, <1>6 DEF Paired, u

\* Calls are added to messages, and are awaited.
LEMMA CalledPaired ==
    ASSUME NEW t \in Seq(AnyMessage), NEW h \in Seq(AnyMessage), DOMAIN h = DOMAIN t,
           NEW open, NEW more, Paired(t, open),
           \A i \in DOMAIN t :
              /\ h[i].kind = t[i].kind /\ h[i].id = t[i].id /\ t[i].calls \subseteq h[i].calls
              /\ \A x \in h[i].calls : x \in t[i].calls \/ (x \in more /\ x[1] = t[i].id)
    PROVE  Paired(h, open \cup more)
<1>1. ASSUME NEW a \in DOMAIN t, NEW b \in DOMAIN t, SameExchange(t, a, b)
      PROVE  SameExchange(h, a, b)
  <2>1. (a + 1)..b \subseteq DOMAIN t
    BY LenProperties
  <2>. QED
    BY <1>1, <2>1 DEF SameExchange
<1>2. ResultsFollowTheirCall(h)
  BY <1>1 DEF Paired, ResultsFollowTheirCall
<1>3. ASSUME NEW a \in DOMAIN h, h[a].kind = "assistant", NEW x \in h[a].calls
      PROVE  /\ x[1] = h[a].id
             /\ x \in open \cup more \/ \E i \in DOMAIN h :
                 h[i].kind = "tool" /\ h[i].id = x /\ SameExchange(h, a, i)
  <2>1. CASE x \in t[a].calls
    BY <1>1, <1>3, <2>1 DEF Paired
  <2>2. CASE x \in more /\ x[1] = t[a].id
    BY <1>3, <2>2
  <2>. QED
    BY <1>3, <2>1, <2>2
<1>. QED
  BY <1>2, <1>3 DEF Paired

-----------------------------------------------------------------------------
(* Requests are well-formed as long as nothing comes between a call and its result *)

LEMMA PairedPrimed ==
    Paired(history', pendingToolResultIds') => Paired(history, pendingToolResultIds)'
BY DEF Paired, ResultsFollowTheirCall, SameExchange

\* Nothing is awaited while no worker is in a step.
LEMMA NothingAwaited ==
    ASSUME RequestInv, \A w \in Turns : worker[w].pc # "step"
    PROVE  /\ pendingToolResultIds = {} /\ deferredMessages = << >> /\ Paired(history, {})
           /\ WellFormed(history)
<1>1. pendingToolResultIds = {} /\ deferredMessages = << >>
  BY DEF RequestInv, Exchange
<1>2. Paired(history, {})
  BY <1>1 DEF RequestInv
<1>. QED
  BY <1>1, <1>2 DEF Paired, WellFormed, CallsHaveResults

\* A worker in a step: no other is.
LEMMA StepIsAlone ==
    ASSUME RequestInv, NEW w \in Turns, worker[w].pc = "step"
    PROVE  Serving(w) /\ Running(w) /\ \A v \in Turns \ {w} : worker[v].pc # "step"
<1>1. Serving(w) /\ Running(w)
  BY DEF RequestInv, Exchange, Running
<1>2. ASSUME NEW v \in Turns \ {w}
      PROVE  worker[v].pc # "step"
  BY DEF RequestInv, OneAtATime, Running
<1>. QED
  BY <1>1, <1>2

\* A worker that goes on: the one not aborted, or the one in the step.
Resting(w) ==
    \/ worker[w].pc = "ready" /\ ~worker[w].aborted
    \/ worker[w].pc = "step" /\ (worker[w].calls = 0 \/ worker[w].results = worker[w].calls)

LEMMA RestingIsQuiet ==
    ASSUME NamesInv, RequestInv, NEW w \in Turns, Resting(w)
    PROVE  /\ pendingToolResultIds = {} /\ deferredMessages = << >> /\ Paired(history, {})
           /\ Running(w) /\ \A v \in Turns \ {w} : worker[v].pc # "step"
<1>1. Running(w) /\ \A v \in Turns \ {w} : worker[v].pc # "step"
  <2>1. Running(w)
    BY DEF Resting, Running
  <2>2. CASE worker[w].pc = "ready" /\ ~worker[w].aborted
    <3>1. \A v \in Turns \ {w} : worker[v].pc = "step" => worker[w].aborted
      BY <2>1 DEF RequestInv, OneAtATime
    <3>. QED
      BY <2>1, <2>2, <3>1
  <2>3. CASE worker[w].pc = "step"
    BY <2>1, <2>3, StepIsAlone
  <2>. QED
    BY <2>2, <2>3 DEF Resting
<1>2. pendingToolResultIds = {}
  <2>1. CASE worker[w].pc = "ready"
    <3>1. \A v \in Turns : worker[v].pc # "step"
      BY <1>1, <2>1
    <3>. QED
      BY <3>1, NothingAwaited
  <2>2. CASE worker[w].pc = "step" /\ (worker[w].calls = 0 \/ worker[w].results = worker[w].calls)
    <3>1. /\ worker[w].results <= worker[w].calls
          /\ pendingToolResultIds =
               {<<worker[w].step, k>> : k \in (worker[w].results + 1)..worker[w].calls}
      BY <2>2 DEF RequestInv, Exchange, Serving
    <3>2. worker[w].results \in Nat /\ worker[w].calls \in Nat
      BY DEF NamesInv, ContextTyped, Worker
    <3>3. (worker[w].results + 1)..worker[w].calls = {}
      BY <2>2, <3>1, <3>2
    <3>. QED
      BY <3>1, <3>3
  <2>. QED
    BY <2>1, <2>2 DEF Resting
<1>3. deferredMessages = << >> /\ Paired(history, {})
  BY <1>2 DEF RequestInv, Exchange
<1>. QED
  BY <1>1, <1>2, <1>3

LEMMA QuietExchange ==
    ASSUME pendingToolResultIds' = {}, deferredMessages' = << >>,
           \A w \in Turns : worker'[w].pc # "step"
    PROVE  Exchange'
BY DEF Exchange

LEMMA ExchangeKept ==
    ASSUME RequestInv, UNCHANGED memory,
           \A w \in Turns : worker'[w].pc = "step" =>
               /\ worker[w].pc = "step" /\ worker'[w].step = worker[w].step
               /\ worker'[w].calls = worker[w].calls /\ worker'[w].results = worker[w].results,
           (\A w \in Turns : worker'[w].pc # "step") => pendingToolResultIds = {}
    PROVE  Exchange' /\ Paired(history, pendingToolResultIds)'
<1>1. /\ history' = history /\ openSteps' = openSteps
      /\ pendingToolResultIds' = pendingToolResultIds /\ deferredMessages' = deferredMessages
  BY DEF memory
<1>2. ASSUME NEW w \in Turns, worker'[w].pc = "step"
      PROVE  Serving(w)'
  <2>1. Serving(w)
    BY <1>2 DEF RequestInv, Exchange
  <2>2. /\ worker'[w].step = worker[w].step
        /\ worker'[w].calls = worker[w].calls /\ worker'[w].results = worker[w].results
    BY <1>2
  <2>. QED
    BY <1>1, <2>1, <2>2 DEF Serving, Name
<1>3. Exchange'
  BY <1>1, <1>2 DEF RequestInv, Exchange, Plain
<1>. QED
  BY <1>1, <1>3, PairedPrimed DEF RequestInv

\* The assistant messages of the new history are those of the old one, but for the message
\* of a step that begins or runs.
Grows ==
    \A j \in DOMAIN history' : history'[j].kind = "assistant" =>
        \/ history'[j].id > used.steps
        \/ \E w \in Turns : worker[w].pc = "step" /\ worker[w].step = history'[j].id
        \/ \E i \in DOMAIN history : Name(history'[j]) = Name(history[i])
                                    /\ history'[j].calls = history[i].calls

\* No worker takes up a step that is over.
StepsGoOn ==
    /\ used'.steps \in Nat /\ used'.steps >= used.steps
    /\ \A w \in Turns : worker'[w].pc = "step" =>
          \/ worker[w].pc = "step" /\ worker'[w].step = worker[w].step
          \/ worker'[w].step > used.steps

LEMMA SameHistoryGrows == history' = history => Grows
BY DEF Grows

LEMMA SameWorkersGoOn ==
    ASSUME NamesInv, worker' = worker, used'.steps = used.steps
    PROVE  StepsGoOn
<1>1. used.steps \in Nat
  BY DEF NamesInv, ContextTyped
<1>. QED
  BY <1>1 DEF StepsGoOn

LEMMA LastingKept ==
    ASSUME NamesInv, Grows, StepsGoOn, NEW s, Lasting(s)
    PROVE  \A i \in DOMAIN s : s[i].kind = "assistant" =>
             /\ s[i].id \in 1..used'.steps
             /\ \A w \in Turns : worker'[w].pc = "step" => worker'[w].step # s[i].id
             /\ \A j \in DOMAIN history' :
                   Name(history'[j]) = Name(s[i]) => history'[j].calls = s[i].calls
<1>. SUFFICES ASSUME NEW i \in DOMAIN s, s[i].kind = "assistant"
              PROVE  /\ s[i].id \in 1..used'.steps
                     /\ \A w \in Turns : worker'[w].pc = "step" => worker'[w].step # s[i].id
                     /\ \A j \in DOMAIN history' :
                           Name(history'[j]) = Name(s[i]) => history'[j].calls = s[i].calls
  OBVIOUS
<1>1. /\ s[i].id \in 1..used.steps /\ used.steps \in Nat
      /\ \A w \in Turns : worker[w].pc = "step" => worker[w].step # s[i].id
      /\ \A j \in DOMAIN history : Name(history[j]) = Name(s[i]) => history[j].calls = s[i].calls
  BY DEF Lasting, Settled, NamesInv, ContextTyped
<1>2. s[i].id \in 1..used'.steps /\ ~(s[i].id > used.steps)
  BY <1>1 DEF StepsGoOn
<1>3. ASSUME NEW w \in Turns, worker'[w].pc = "step"
      PROVE  worker'[w].step # s[i].id
  BY <1>1, <1>2, <1>3 DEF StepsGoOn
<1>4. ASSUME NEW j \in DOMAIN history', Name(history'[j]) = Name(s[i])
      PROVE  history'[j].calls = s[i].calls
  <2>1. history'[j].kind = "assistant" /\ history'[j].id = s[i].id
    BY <1>4 DEF Name
  <2>2. PICK k \in DOMAIN history :
          Name(history'[j]) = Name(history[k]) /\ history'[j].calls = history[k].calls
    BY <1>1, <1>2, <2>1 DEF Grows
  <2>. QED
    BY <1>1, <1>4, <2>2
<1>. QED
  BY <1>2, <1>3, <1>4

LEMMA SnapshotPrimed ==
    ASSUME NEW c, Snapshot(compactor'[c].snapshot, compactor'[c].count)
    PROVE  Snapshot(compactor[c].snapshot, compactor[c].count)'
<1>1. Paired(compactor[c].snapshot, {})'
  BY SMTT(30) DEF Snapshot, Paired, ResultsFollowTheirCall, SameExchange
<1>2. CanSplitAfter(compactor[c].snapshot, compactor[c].count)'
  BY DEF Snapshot, CanSplitAfter
<1>. QED
  BY <1>1, <1>2 DEF Snapshot

LEMMA LastingPrimed ==
    ASSUME NEW c,
           \A i \in DOMAIN compactor'[c].snapshot : compactor'[c].snapshot[i].kind = "assistant" =>
             /\ compactor'[c].snapshot[i].id \in 1..used'.steps
             /\ \A w \in Turns : worker'[w].pc = "step" =>
                   worker'[w].step # compactor'[c].snapshot[i].id
             /\ \A j \in DOMAIN history' : Name(history'[j]) = Name(compactor'[c].snapshot[i]) =>
                   history'[j].calls = compactor'[c].snapshot[i].calls
    PROVE  Lasting(compactor[c].snapshot)'
BY DEF Lasting, Settled, Name

\* Compactions go on with the messages they began with.
LEMMA SnapshotsKept ==
    ASSUME NamesInv, RequestInv, Grows, StepsGoOn,
           \A c \in Compactions : compactor'[c].pc = "generating" =>
               /\ compactor[c].pc = "generating" /\ compactor'[c].snapshot = compactor[c].snapshot
               /\ compactor'[c].count = compactor[c].count
                  \/ Snapshot(compactor[c].snapshot, compactor'[c].count)
    PROVE  Snapshots'
<1>. SUFFICES ASSUME NEW c \in Compactions, compactor'[c].pc = "generating"
              PROVE  /\ Snapshot(compactor[c].snapshot, compactor[c].count)'
                     /\ Lasting(compactor[c].snapshot)'
  BY DEF Snapshots
<1>1. /\ compactor[c].pc = "generating" /\ compactor'[c].snapshot = compactor[c].snapshot
      /\ Snapshot(compactor[c].snapshot, compactor[c].count) /\ Lasting(compactor[c].snapshot)
  BY DEF RequestInv, Snapshots
<1>2. Snapshot(compactor'[c].snapshot, compactor'[c].count)
  BY <1>1
<1>. QED
  BY <1>1, <1>2, SnapshotPrimed, LastingKept, LastingPrimed

LEMMA SnapshotsSame ==
    ASSUME NamesInv, RequestInv, Grows, StepsGoOn, UNCHANGED compaction
    PROVE  Snapshots'
<1>1. compactor' = compactor
  BY DEF compaction
<1>. QED
  BY <1>1, SnapshotsKept

\* The workers do not move.
LEMMA OneUnchanged ==
    ASSUME RequestInv, UNCHANGED <<worker, activeTurn>>
    PROVE  OneAtATime'
BY DEF RequestInv, OneAtATime, Running

\* One worker moves.
LEMMA OneWorkerMoves ==
    ASSUME NamesInv, RequestInv, NEW w \in Turns,
           \A v \in Turns \ {w} : worker'[v] = worker[v],
           Running(w)' => /\ Running(w) /\ worker'[w].aborted = worker[w].aborted
                          /\ activeTurn' = activeTurn,
           worker'[w].pc = "step" => worker[w].pc = "step" \/ ~worker[w].aborted,
           activeTurn' = activeTurn \/ activeTurn = w
    PROVE  OneAtATime'
<1>1. /\ \A u \in Turns : Running(u) /\ ~worker[u].aborted => activeTurn = u
      /\ \A u, v \in Turns : worker[v].pc = "step" /\ Running(u) /\ v # u =>
            worker[u].aborted /\ worker[u].pc # "step"
  BY DEF RequestInv, OneAtATime
<1>2. \A u \in Turns \ {w} : Running(u)' <=> Running(u)
  BY DEF Running
<1>3. ASSUME NEW u \in Turns, Running(u)', ~worker'[u].aborted
      PROVE  activeTurn' = u
  <2>1. CASE u = w
    BY <1>1, <1>3, <2>1
  <2>2. CASE u # w
    BY <1>1, <1>2, <1>3, <2>2
  <2>. QED
    BY <2>1, <2>2
<1>4. ASSUME NEW u \in Turns, NEW v \in Turns, worker'[v].pc = "step", Running(u)', v # u
      PROVE  worker'[u].aborted /\ worker'[u].pc # "step"
  <2>1. CASE u # w /\ v # w
    BY <1>1, <1>2, <1>4, <2>1
  <2>2. CASE v = w
    <3>1. /\ u # w /\ Running(u) /\ worker'[u] = worker[u] /\ Running(w)
          /\ worker[w].pc = "step" \/ ~worker[w].aborted
      BY <1>2, <1>4, <2>2 DEF Running
    <3>2. CASE worker[w].pc = "step"
      BY <1>1, <3>1, <3>2
    <3>3. CASE ~worker[w].aborted
      BY <1>1, <3>1, <3>3
    <3>. QED
      BY <3>1, <3>2, <3>3
  <2>3. CASE u = w
    <3>1. /\ v # w /\ worker[v].pc = "step" /\ Running(w) /\ worker'[w].aborted = worker[w].aborted
      BY <1>4, <2>3
    <3>2. worker[w].aborted /\ worker[w].pc # "step"
      BY <1>1, <3>1
    <3>. QED
      BY <2>3, <3>1, <3>2
  <2>. QED
    BY <2>1, <2>2, <2>3
<1>. QED
  BY <1>3, <1>4 DEF OneAtATime

\* A worker that is in no exchange goes elsewhere than into a step.
LEMMA WorkerKeepsRequests ==
    ASSUME NamesInv, RequestInv, NEW w \in Turns,
           \A v \in Turns \ {w} : worker'[v] = worker[v], worker'[w].pc # "step",
           Running(w)' => /\ Running(w) /\ worker'[w].aborted = worker[w].aborted
                          /\ activeTurn' = activeTurn,
           activeTurn' = activeTurn \/ activeTurn = w,
           worker[w].pc = "step" => pendingToolResultIds = {},
           UNCHANGED memory
    PROVE  OneAtATime' /\ Exchange' /\ Paired(history, pendingToolResultIds)'
<1>1. OneAtATime'
  BY OneWorkerMoves
<1>2. \A v \in Turns : worker'[v].pc = "step" => v # w /\ worker'[v] = worker[v]
  OBVIOUS
<1>3. (\A v \in Turns : worker'[v].pc # "step") => pendingToolResultIds = {}
  <2>. SUFFICES ASSUME \A v \in Turns : worker'[v].pc # "step", worker[w].pc # "step"
                PROVE  pendingToolResultIds = {}
    OBVIOUS
  <2>1. \A v \in Turns : worker[v].pc # "step"
    OBVIOUS
  <2>. QED
    BY <2>1, NothingAwaited
<1>4. Exchange' /\ Paired(history, pendingToolResultIds)'
  BY <1>2, <1>3, ExchangeKept
<1>. QED
  BY <1>1, <1>4

LEMMA EndTurnKeepsRequests ==
    ASSUME NamesInv, RequestInv, NEW w \in Turns, worker[w].pc = "step" => Resting(w),
           EndTurn(w), UNCHANGED <<memory, compaction, used>>
    PROVE  RequestInv'
<1>1. /\ worker'[w] = Ended /\ \A v \in Turns \ {w} : worker'[v] = worker[v]
      /\ activeTurn' = activeTurn \/ activeTurn = w
  BY DEF NamesInv, ContextTyped, EndTurn
<1>2. worker[w].pc = "step" => pendingToolResultIds = {}
  BY RestingIsQuiet
<1>3. ~Running(w)' /\ worker'[w].pc # "step"
  BY <1>1, WorkersTyped DEF Running
<1>4. OneAtATime' /\ Exchange' /\ Paired(history, pendingToolResultIds)'
  BY <1>1, <1>2, <1>3, WorkerKeepsRequests
<1>5. history' = history /\ used' = used
  BY DEF memory
<1>6. StepsGoOn
  <2>1. used.steps \in Nat
    BY DEF NamesInv, ContextTyped
  <2>2. \A v \in Turns : worker'[v].pc = "step" => worker'[v] = worker[v]
    BY <1>1, <1>3
  <2>. QED
    BY <1>5, <2>1, <2>2 DEF StepsGoOn
<1>7. Snapshots'
  BY <1>5, <1>6, SameHistoryGrows, SnapshotsSame
<1>. QED
  BY <1>4, <1>7 DEF RequestInv

LEMMA LeaveTurnKeepsRequests ==
    ASSUME NamesInv, RequestInv, NEW w \in Turns, LeaveTurn(w)
    PROVE  RequestInv'
<1>1. /\ worker[w].pc = "step" => Resting(w)
      /\ EndTurn(w) /\ UNCHANGED <<memory, compaction, used>>
  BY DEF LeaveTurn, Resting
<1>. QED
  BY <1>1, EndTurnKeepsRequests

LEMMA UnblockKeepsRequests ==
    ASSUME NamesInv, RequestInv, NEW w \in Turns, Unblock(w)
    PROVE  RequestInv'
<1> DEFINE old == worker[w]
           new == [old EXCEPT !.pc = "ready", !.step = 0]
<1>1. UNCHANGED <<memory, compaction, used>> /\ worker[w].pc = "blocked"
  BY DEF Unblock
<1>2. CASE EndTurn(w)
  BY <1>1, <1>2, EndTurnKeepsRequests
<1>3. CASE worker' = [worker EXCEPT ![w] = new] /\ UNCHANGED activeTurn
  <2>0. old \in Worker /\ old.pc = "blocked"
    BY <1>1 DEF NamesInv, ContextTyped
  <2>. HIDE DEF old
  <2>1. new.pc = "ready" /\ new.aborted = old.aborted
    BY <2>0 DEF Worker
  <2>. HIDE DEF new
  <2>2. worker'[w] = new /\ \A v \in Turns \ {w} : worker'[v] = worker[v]
    BY <1>3 DEF NamesInv, ContextTyped
  <2>3. /\ worker'[w].pc # "step" /\ worker'[w].aborted = worker[w].aborted /\ Running(w)
        /\ worker[w].pc # "step"
    BY <1>1, <2>1, <2>2 DEF old, Running
  <2>4. OneAtATime' /\ Exchange' /\ Paired(history, pendingToolResultIds)'
    BY <1>1, <1>3, <2>2, <2>3, WorkerKeepsRequests
  <2>5. history' = history /\ used' = used
    BY <1>1 DEF memory
  <2>6. StepsGoOn
    <3>1. used.steps \in Nat
      BY DEF NamesInv, ContextTyped
    <3>2. \A v \in Turns : worker'[v].pc = "step" => worker'[v] = worker[v]
      BY <2>2, <2>3
    <3>. QED
      BY <2>5, <3>1, <3>2 DEF StepsGoOn
  <2>7. Snapshots'
    BY <1>1, <2>5, <2>6, SameHistoryGrows, SnapshotsSame
  <2>. QED
    BY <2>4, <2>7 DEF RequestInv
<1>. QED
  BY <1>2, <1>3 DEF Unblock

\* The turns stay where they are and nothing enters the memory.
LEMMA MemoryKeepsRequests ==
    ASSUME NamesInv, RequestInv, UNCHANGED <<memory, worker, activeTurn>>, used'.steps = used.steps
    PROVE  OneAtATime' /\ Exchange' /\ Paired(history, pendingToolResultIds)' /\ Grows /\ StepsGoOn
<1>1. (\A w \in Turns : worker'[w].pc # "step") => pendingToolResultIds = {}
  BY NothingAwaited
<1>2. history' = history
  BY DEF memory
<1>. QED
  BY <1>1, <1>2, OneUnchanged, ExchangeKept, SameHistoryGrows, SameWorkersGoOn

LEMMA CancelKeepsRequests == NamesInv /\ RequestInv /\ Cancel => RequestInv'
<1>. SUFFICES ASSUME NamesInv, RequestInv, Cancel
              PROVE  RequestInv'
  OBVIOUS
<1>1. activeTurn \in Turns /\ activeTurn' = NoTurn
  BY DEF NamesInv, ContextTyped, Cancel
<1>2. \A w \in Turns :
        /\ worker'[w].pc = worker[w].pc /\ worker'[w].step = worker[w].step
        /\ worker'[w].calls = worker[w].calls /\ worker'[w].results = worker[w].results
        /\ worker'[w].aborted = (worker[w].aborted \/ w = activeTurn)
  <2>1. \A w \in Turns : worker[w] \in Worker
    BY DEF NamesInv, ContextTyped
  <2>2. \A w \in Turns : worker'[w] = IF w = activeTurn THEN [worker[w] EXCEPT !.aborted = TRUE]
                                        ELSE worker[w]
    BY <1>1 DEF NamesInv, ContextTyped, Cancel
  <2>3. ASSUME NEW w \in Turns
        PROVE  /\ worker'[w].pc = worker[w].pc /\ worker'[w].step = worker[w].step
               /\ worker'[w].calls = worker[w].calls /\ worker'[w].results = worker[w].results
               /\ worker'[w].aborted = (worker[w].aborted \/ w = activeTurn)
    <3> DEFINE old == worker[w]
    <3>1. old \in Worker /\ worker'[w] = IF w = activeTurn THEN [old EXCEPT !.aborted = TRUE] ELSE old
      BY <2>1, <2>2
    <3>. HIDE DEF old
    <3>2. /\ worker'[w].pc = old.pc /\ worker'[w].step = old.step
          /\ worker'[w].calls = old.calls /\ worker'[w].results = old.results
          /\ worker'[w].aborted = (old.aborted \/ w = activeTurn)
      BY <3>1 DEF Worker
    <3>. QED
      BY <3>2 DEF old
  <2>. QED
    BY <2>3
<1>3. UNCHANGED memory /\ used' = used /\ history' = history
  BY DEF Cancel, memory
<1>4. OneAtATime'
  <2>1. \A w \in Turns : Running(w)' <=> Running(w)
    BY <1>2 DEF Running
  <2>2. \A w \in Turns : Running(w) => worker'[w].aborted
    BY <1>2 DEF RequestInv, OneAtATime
  <2>. QED
    BY <1>2, <2>1, <2>2 DEF RequestInv, OneAtATime
<1>5. Exchange' /\ Paired(history, pendingToolResultIds)'
  <2>1. (\A w \in Turns : worker'[w].pc # "step") => pendingToolResultIds = {}
    BY <1>2, NothingAwaited
  <2>. QED
    BY <1>2, <1>3, <2>1, ExchangeKept
<1>6. \A c \in Compactions : /\ compactor'[c].pc = compactor[c].pc
                             /\ compactor'[c].snapshot = compactor[c].snapshot
                             /\ compactor'[c].count = compactor[c].count
  <2> DEFINE k == worker[activeTurn].step
  <2>1. CASE compactor' = compactor
    BY <2>1
  <2>2. CASE compactor' = [compactor EXCEPT ![k].aborted = TRUE]
    BY <2>2, AbortedTyped DEF NamesInv
  <2>. QED
    BY <2>1, <2>2 DEF Cancel, compaction
<1>7. StepsGoOn
  <2>1. used.steps \in Nat
    BY DEF NamesInv, ContextTyped
  <2>. QED
    BY <1>2, <1>3, <2>1 DEF StepsGoOn
<1>8. Snapshots'
  BY <1>3, <1>6, <1>7, SameHistoryGrows, SnapshotsKept
<1>. QED
  BY <1>4, <1>5, <1>8 DEF RequestInv

LEMMA CancelCompactionKeepsRequests ==
    NamesInv /\ RequestInv /\ CancelCompaction => RequestInv'
<1>. SUFFICES ASSUME NamesInv, RequestInv, CancelCompaction
              PROVE  RequestInv'
  OBVIOUS
<1>1. /\ compactor' = [compactor EXCEPT ![compacting].aborted = TRUE]
      /\ UNCHANGED <<memory, worker, activeTurn>> /\ used' = used
  BY DEF CancelCompaction
<1>2. /\ OneAtATime' /\ Exchange' /\ Paired(history, pendingToolResultIds)'
      /\ Grows /\ StepsGoOn
  BY <1>1, MemoryKeepsRequests
<1>3. \A c \in Compactions : /\ compactor'[c].pc = compactor[c].pc
                             /\ compactor'[c].snapshot = compactor[c].snapshot
                             /\ compactor'[c].count = compactor[c].count
  BY <1>1, AbortedTyped DEF NamesInv
<1>4. Snapshots'
  BY <1>2, <1>3, SnapshotsKept
<1>. QED
  BY <1>2, <1>4 DEF RequestInv

LEMMA ShrinkKeepsRequests ==
    ASSUME NamesInv, RequestInv, NEW c \in Compactions, Shrink(c)
    PROVE  RequestInv'
<1>1. compactor[c].pc = "generating" /\ UNCHANGED <<memory, worker, activeTurn>> /\ used' = used
  BY DEF Shrink
<1>2. PICK n \in 2..(compactor[c].count - 1) :
        CanSplitAfter(compactor[c].snapshot, n) /\ compactor' = [compactor EXCEPT ![c].count = n]
  BY DEF Shrink
<1>3. /\ compactor'[c].pc = "generating"
      /\ compactor'[c].snapshot = compactor[c].snapshot /\ compactor'[c].count = n
      /\ \A d \in Compactions \ {c} : compactor'[d] = compactor[d]
  BY <1>1, <1>2 DEF NamesInv, ContextTyped, Compactor
<1>4. /\ OneAtATime' /\ Exchange' /\ Paired(history, pendingToolResultIds)'
      /\ Grows /\ StepsGoOn
  BY <1>1, MemoryKeepsRequests
<1>5. Snapshot(compactor[c].snapshot, n)
  <2> DEFINE old == compactor[c]
  <2>1. /\ old.snapshot \in Seq(AnyMessage) /\ old.count \in 1..Len(old.snapshot)
        /\ Paired(old.snapshot, {}) /\ CanSplitAfter(old.snapshot, n) /\ n \in 2..(old.count - 1)
    BY <1>1, <1>2 DEF NamesInv, ContextTyped, Compactor, RequestInv, Snapshots, Snapshot
  <2>. HIDE DEF old
  <2>2. Len(old.snapshot) \in Nat
    BY <2>1, LenProperties
  <2>3. n \in 1..Len(old.snapshot)
    BY <2>1, <2>2
  <2>. QED
    BY <2>1, <2>3 DEF old, Snapshot
<1>6. Snapshots'
  <2>1. \A d \in Compactions : d = c \/ compactor'[d] = compactor[d]
    BY <1>3
  <2>. QED
    BY <1>1, <1>3, <1>4, <1>5, <2>1, SnapshotsKept
<1>. QED
  BY <1>4, <1>6 DEF RequestInv

\* A compaction that is over takes no other's messages with it.
LEMMA FinishKeepsSnapshots ==
    ASSUME NamesInv, RequestInv, Grows, StepsGoOn, NEW c \in Compactions,
           NEW outcome \in {"done", "failed"}, Finish(c, outcome) \/ FinishAndCancel(c, outcome)
    PROVE  Snapshots'
<1>1. /\ compactor'[c].pc # "generating"
      /\ \A d \in Compactions \ {c} : /\ compactor'[d].pc = compactor[d].pc
                                      /\ compactor'[d].snapshot = compactor[d].snapshot
                                      /\ compactor'[d].count = compactor[d].count
  BY FinishTyped
<1>2. \A d \in Compactions : d = c \/ d \in Compactions \ {c}
  OBVIOUS
<1>. QED
  BY <1>1, <1>2, SnapshotsKept

LEMMA FailCompactionKeepsRequests ==
    ASSUME NamesInv, RequestInv, NEW c \in Compactions, FailCompaction(c)
    PROVE  RequestInv'
<1>1. /\ UNCHANGED <<memory, worker, activeTurn>> /\ used' = used
      /\ \E outcome \in {"done", "failed"} : Finish(c, outcome) \/ FinishAndCancel(c, outcome)
  BY DEF FailCompaction
<1>2. /\ OneAtATime' /\ Exchange' /\ Paired(history, pendingToolResultIds)'
      /\ Grows /\ StepsGoOn
  BY <1>1, MemoryKeepsRequests
<1>3. Snapshots'
  BY <1>1, <1>2, FinishKeepsSnapshots
<1>. QED
  BY <1>2, <1>3 DEF RequestInv

\* Every assistant message is that of a step that has begun.
LEMMA AssistantsCounted ==
    ASSUME NamesInv, NEW i \in DOMAIN history, history[i].kind = "assistant"
    PROVE  history[i].id \in 1..used.steps
<1>1. <<"assistant", history[i].id>> \in Spent
  BY DEF NamesInv, Names, Name
<1>. QED
  BY <1>1 DEF Spent

\* A compaction begins while no exchange is open.
LEMMA BeginKeepsSnapshots ==
    ASSUME NamesInv, RequestInv, used.compactions < MaxCompactions,
           NEW n \in ManualCounts \cup AutoCounts, Begin(n), UNCHANGED memory, Paired(history, {}),
           \A w \in Turns : worker'[w].pc # "step"
    PROVE  Snapshots'
<1> DEFINE k == used.compactions + 1
<1>1. n \in 1..Len(history) /\ CanSplitAfter(history, n)
  BY CountsTyped DEF NamesInv
<1>2. /\ k \in Compactions
      /\ compactor'[k].snapshot = history /\ compactor'[k].count = n
      /\ \A c \in Compactions \ {k} : compactor'[c] = compactor[c]
      /\ used'.steps = used.steps
  BY <1>1, BeginTyped
<1>. HIDE DEF k
<1>3. history' = history /\ used.steps \in Nat
  BY DEF memory, NamesInv, ContextTyped
<1>4. Grows /\ StepsGoOn
  BY <1>2, <1>3, SameHistoryGrows DEF StepsGoOn
<1>5. ASSUME NEW c \in Compactions, compactor'[c].pc = "generating"
      PROVE  /\ Snapshot(compactor[c].snapshot, compactor[c].count)'
             /\ Lasting(compactor[c].snapshot)'
  <2>1. CASE c = k
    <3>1. Snapshot(compactor'[c].snapshot, compactor'[c].count)
      BY <1>1, <1>2, <2>1 DEF Snapshot
    <3>2. \A i \in DOMAIN history : history[i].kind = "assistant" =>
            /\ history[i].id \in 1..used'.steps
            /\ \A j \in DOMAIN history : Name(history[j]) = Name(history[i]) =>
                  history[j].calls = history[i].calls
      BY <1>2, AssistantsCounted DEF NamesInv, Apart, Distinct
    <3>3. Lasting(compactor[c].snapshot)'
      BY <1>2, <1>3, <2>1, <3>2, LastingPrimed
    <3>. QED
      BY <3>1, <3>3, SnapshotPrimed
  <2>2. CASE c # k
    <3>1. compactor'[c] = compactor[c] /\ compactor[c].pc = "generating"
      BY <1>2, <1>5, <2>2
    <3>2. Snapshot(compactor'[c].snapshot, compactor'[c].count) /\ Lasting(compactor'[c].snapshot)
      BY <3>1 DEF RequestInv, Snapshots
    <3>. QED
      BY <1>4, <3>2, SnapshotPrimed, LastingKept, LastingPrimed
  <2>. QED
    BY <2>1, <2>2
<1>. QED
  BY <1>5 DEF Snapshots

LEMMA BeginManualKeepsRequests ==
    ASSUME NamesInv, RequestInv, BeginManual, ~InStep
    PROVE  RequestInv'
<1>1. /\ used.compactions < MaxCompactions /\ UNCHANGED <<memory, worker, activeTurn>>
      /\ worker' = worker
  BY DEF BeginManual
<1>2. PICK n \in ManualCounts : Begin(n)
  BY DEF BeginManual
<1>3. \A w \in Turns : worker[w].pc # "step"
  BY DEF InStep
<1>4. used'.steps = used.steps
  <2>1. n \in 1..Len(history)
    BY CountsTyped DEF NamesInv
  <2>. QED
    BY <1>1, <1>2, <2>1, BeginTyped
<1>5. OneAtATime' /\ Exchange' /\ Paired(history, pendingToolResultIds)'
  BY <1>1, <1>4, MemoryKeepsRequests
<1>6. Paired(history, {})
  BY <1>3, NothingAwaited
<1>7. \A w \in Turns : worker'[w].pc # "step"
  BY <1>1, <1>3
<1>8. Snapshots'
  BY <1>1, <1>2, <1>6, <1>7, BeginKeepsSnapshots
<1>. QED
  BY <1>5, <1>8 DEF RequestInv

LEMMA BlockKeepsRequests ==
    ASSUME NamesInv, RequestInv, NEW w \in Turns, BlockOnCompaction(w)
    PROVE  RequestInv'
<1> DEFINE wait(c) == [NotLaunched EXCEPT !.pc = "blocked", !.step = c]
           block(c) == worker' = [worker EXCEPT ![w] = wait(c)]
<1>1. Resting(w) /\ UNCHANGED memory /\ ~worker[w].aborted
  BY DEF BlockOnCompaction, Resting
<1>2. /\ pendingToolResultIds = {} /\ Paired(history, {}) /\ Running(w)
      /\ \A v \in Turns \ {w} : worker[v].pc # "step"
  BY <1>1, RestingIsQuiet
<1>3. CASE EndTurn(w) /\ UNCHANGED <<compaction, used>>
  BY <1>1, <1>3, EndTurnKeepsRequests
<1>4. ASSUME NEW c \in Nat, block(c), UNCHANGED activeTurn
      PROVE  /\ \A v \in Turns : worker'[v].pc # "step"
             /\ OneAtATime' /\ Exchange' /\ Paired(history, pendingToolResultIds)'
  <2>1. wait(c).pc = "blocked" /\ wait(c).aborted = FALSE
    BY DEF NotLaunched
  <2>. HIDE DEF wait
  <2>2. worker'[w] = wait(c) /\ \A v \in Turns \ {w} : worker'[v] = worker[v]
    BY <1>4 DEF NamesInv, ContextTyped
  <2>3. worker[w].aborted = FALSE
    BY <1>1 DEF NamesInv, ContextTyped, Worker
  <2>4. \A v \in Turns : worker'[v].pc # "step"
    BY <1>2, <2>1, <2>2
  <2>5. worker'[w].aborted = worker[w].aborted
    BY <2>1, <2>2, <2>3
  <2>. QED
    BY <1>1, <1>2, <1>4, <2>2, <2>4, <2>5, WorkerKeepsRequests
<1>5. CASE block(compacting) /\ UNCHANGED <<activeTurn, compaction, used>>
  <2>1. compacting \in Nat
    BY DEF NamesInv, ContextTyped, Compactions
  <2>2. /\ \A v \in Turns : worker'[v].pc # "step"
        /\ OneAtATime' /\ Exchange' /\ Paired(history, pendingToolResultIds)'
    BY <1>4, <1>5, <2>1
  <2>3. Grows /\ StepsGoOn
    <3>1. history' = history /\ used' = used /\ used.steps \in Nat
      BY <1>1, <1>5 DEF memory, NamesInv, ContextTyped
    <3>. QED
      BY <2>2, <3>1, SameHistoryGrows DEF StepsGoOn
  <2>4. Snapshots'
    BY <1>5, <2>3, SnapshotsSame
  <2>. QED
    BY <2>2, <2>4 DEF RequestInv
<1>6. ASSUME used.compactions < MaxCompactions, NEW n \in AutoCounts, Begin(n),
             block(used'.compactions), UNCHANGED activeTurn
      PROVE  RequestInv'
  <2>1. used'.compactions \in Nat
    <3>1. n \in 1..Len(history)
      BY CountsTyped DEF NamesInv
    <3>. QED
      BY <1>6, <3>1, BeginTyped
  <2>2. /\ \A v \in Turns : worker'[v].pc # "step"
        /\ OneAtATime' /\ Exchange' /\ Paired(history, pendingToolResultIds)'
    BY <1>4, <1>6, <2>1
  <2>3. Snapshots'
    BY <1>1, <1>2, <1>6, <2>2, BeginKeepsSnapshots
  <2>. QED
    BY <2>2, <2>3 DEF RequestInv
<1>. QED
  BY <1>3, <1>5, <1>6 DEF BlockOnCompaction

-----------------------------------------------------------------------------
(* The memory changes *)

\* Messages from elsewhere than a step are added.
LEMMA AppendedGrows ==
    ASSUME NamesInv, NEW m \in AnyMessage, m.kind # "assistant", history' = Append(history, m)
    PROVE  Grows
<1>1. /\ DOMAIN history' = 1..(Len(history) + 1) /\ DOMAIN history = 1..Len(history)
      /\ Len(history) \in Nat /\ history'[Len(history) + 1] = m
      /\ \A i \in 1..Len(history) : history'[i] = history[i]
  BY AppendProperties, LenProperties DEF NamesInv, ContextTyped
<1>2. \A j \in DOMAIN history' : j \in DOMAIN history \/ j = Len(history) + 1
  BY <1>1
<1>. QED
  BY <1>1, <1>2 DEF Grows

\* What was held back follows.
LEMMA JoinedGrows ==
    ASSUME NamesInv, RequestInv, NEW h \in Seq(AnyMessage),
           history' = h \/ history' = h \o deferredMessages,
           \A j \in DOMAIN h : h[j].kind = "assistant" =>
              \/ h[j].id > used.steps
              \/ \E w \in Turns : worker[w].pc = "step" /\ worker[w].step = h[j].id
              \/ \E i \in DOMAIN history : Name(h[j]) = Name(history[i])
                                          /\ h[j].calls = history[i].calls
    PROVE  Grows
<1>1. CASE history' = h
  BY <1>1 DEF Grows
<1>2. CASE history' = h \o deferredMessages
  <2> DEFINE u == h \o deferredMessages
  <2>1. /\ DOMAIN u = 1..(Len(h) + Len(deferredMessages)) /\ DOMAIN h = 1..Len(h)
        /\ DOMAIN deferredMessages = 1..Len(deferredMessages)
        /\ Len(h) \in Nat /\ Len(deferredMessages) \in Nat
        /\ \A i \in 1..(Len(h) + Len(deferredMessages)) :
              u[i] = IF i <= Len(h) THEN h[i] ELSE deferredMessages[i - Len(h)]
    BY ConcatProperties, LenProperties DEF NamesInv, ContextTyped
  <2>. HIDE DEF u
  <2>2. ASSUME NEW i \in DOMAIN u
        PROVE  (i \in DOMAIN h /\ u[i] = h[i]) \/ u[i].kind # "assistant"
    <3>1. CASE i <= Len(h)
      BY <2>1, <3>1
    <3>2. CASE ~(i <= Len(h))
      <4>1. i - Len(h) \in DOMAIN deferredMessages /\ u[i] = deferredMessages[i - Len(h)]
        BY <2>1, <3>2
      <4>. QED
        BY <4>1 DEF RequestInv, Exchange
    <3>. QED
      BY <3>1, <3>2
  <2>3. history' = u
    BY <1>2 DEF u
  <2>. QED
    BY <2>2, <2>3 DEF Grows
<1>. QED
  BY <1>1, <1>2

LEMMA PromptKeepsRequests ==
    ASSUME NamesInv, RequestInv, Prompt, ~InStep
    PROVE  RequestInv'
<1> DEFINE k == used.turns + 1
           m == Message("prompt", k)
<1>1. used' = [used EXCEPT !.turns = @ + 1] /\ activeTurn = NoTurn
  BY DEF Prompt
<1>2. used'.turns = k /\ used'.steps = used.steps /\ used.steps \in Nat /\ k \in Nat
  BY <1>1 DEF NamesInv, ContextTyped
<1>3. /\ worker' = [worker EXCEPT ![k].pc = "ready"] /\ AppendMessage(m) /\ activeTurn' = k
      /\ UNCHANGED <<pendingToolResultIds, compaction>>
  BY <1>2 DEF Prompt
<1>4. k \in Turns
  BY <1>2, ContextAssumption, SMTT(30) DEF NamesInv, ContextTyped, Turns, Prompt
<1>5. \A w \in Turns : worker[w].pc # "step"
  BY DEF InStep
<1>6. pendingToolResultIds = {} /\ deferredMessages = << >> /\ Paired(history, {})
  BY <1>5, NothingAwaited
<1>7. m \in AnyMessage /\ Plain(m) /\ m.kind # "assistant"
  BY <1>2, NewMessage DEF Kinds, Plain
<1>8. \A w \in Turns : Running(w) => worker[w].aborted
  BY <1>1, ContextAssumption DEF RequestInv, OneAtATime, Turns
<1>. HIDE DEF k, m
<1>9. history' = Append(history, m) /\ deferredMessages' = << >> /\ pendingToolResultIds' = {}
  BY <1>3, <1>6 DEF AppendMessage
<1>10. Paired(history', pendingToolResultIds')
  BY <1>6, <1>7, <1>9, AppendedPaired DEF NamesInv, ContextTyped
<1>11. worker'[k].pc = "ready" /\ \A w \in Turns \ {k} : worker'[w] = worker[w]
  BY <1>3, <1>4 DEF NamesInv, ContextTyped, Worker
<1>12. \A w \in Turns : worker'[w].pc # "step"
  BY <1>5, <1>11
<1>13. Exchange'
  BY <1>9, <1>12, QuietExchange
<1>14. OneAtATime'
  <2>1. \A w \in Turns \ {k} : Running(w)' => worker'[w].aborted
    BY <1>8, <1>11 DEF Running
  <2>. QED
    BY <1>3, <1>12, <2>1 DEF OneAtATime
<1>15. Grows /\ StepsGoOn
  BY <1>2, <1>7, <1>9, <1>12, AppendedGrows DEF StepsGoOn
<1>16. Snapshots'
  BY <1>3, <1>15, SnapshotsSame
<1>. QED
  BY <1>10, <1>13, <1>14, <1>16, PairedPrimed DEF RequestInv

LEMMA EditKeepsRequests ==
    ASSUME NamesInv, RequestInv, ~InStep, Paired(history', {}), Grows,
           pendingToolResultIds' = {}, deferredMessages' = << >>,
           used' = [used EXCEPT !.edits = @ + 1], UNCHANGED <<worker, activeTurn, compaction>>
    PROVE  RequestInv'
<1>1. used'.steps = used.steps
  BY EditsCounted DEF NamesInv
<1>2. \A w \in Turns : worker'[w].pc # "step"
  BY DEF InStep
<1>3. Exchange'
  BY <1>2, QuietExchange
<1>4. OneAtATime' /\ StepsGoOn
  BY <1>1, OneUnchanged, SameWorkersGoOn
<1>5. Snapshots'
  BY <1>4, SnapshotsSame
<1>6. Paired(history', pendingToolResultIds')
  OBVIOUS
<1>. QED
  BY <1>3, <1>4, <1>5, <1>6, PairedPrimed DEF RequestInv

LEMMA ClearKeepsRequests ==
    ASSUME NamesInv, RequestInv, Clear, ~InStep
    PROVE  RequestInv'
<1>1. Paired(<< >>, {})
  BY DEF Paired, ResultsFollowTheirCall
<1>2. history' = << >>
  BY DEF Clear
<1>3. Paired(history', {}) /\ Grows
  BY <1>1, <1>2 DEF Grows
<1>. QED
  BY <1>3, EditKeepsRequests DEF Clear

\* A nonempty set of positions has a largest.
LEMMA Largest ==
    ASSUME NEW N \in Nat, NEW S \in SUBSET (1..N), S # {}
    PROVE  \E i \in S : \A j \in S : j <= i
<1> DEFINE D == {N - i : i \in S}
<1>1. D \in SUBSET Nat /\ D # {}
  <2>1. \A i \in S : N - i \in Nat
    OBVIOUS
  <2>. QED
    BY <2>1
<1>2. PICK d \in D : \A e \in D : ~(<<e, d>> \in OpToRel(<, Nat))
  <2>. HIDE DEF D
  <2>. QED
    BY <1>1, NatLessThanWellFounded, WFMin
<1>3. PICK i \in S : d = N - i
  OBVIOUS
<1>4. ASSUME NEW j \in S
      PROVE  j <= i
  <2>1. N - j \in D
    OBVIOUS
  <2>2. ~(N - j < d)
    <3>. HIDE DEF D
    <3>. QED
      BY <1>1, <1>2, <2>1 DEF OpToRel
  <2>. QED
    BY <1>3, <2>2
<1>. QED
  BY <1>4

LEMMA UndoKeepsRequests ==
    ASSUME NamesInv, RequestInv, Undo, ~InStep
    PROVE  RequestInv'
<1> DEFINE Stops == {i \in DOMAIN history : history[i].kind \in {"prompt", "summary"}}
           last  == IF Stops = {} THEN 0 ELSE CHOOSE i \in Stops : \A j \in Stops : j <= i
           kept  == IF last > 0 /\ history[last].kind = "prompt" THEN last - 1 ELSE last
           positions == {i \in DOMAIN history : i <= kept \/ history[i].kind = "injection"}
           s == Pick(history, positions)
<1>1. history' = s
  BY DEF Undo
<1>2. \A w \in Turns : worker[w].pc # "step"
  BY DEF InStep
<1>3. Paired(history, {}) /\ history \in Seq(AnyMessage)
  BY <1>2, NothingAwaited DEF NamesInv, ContextTyped
<1>4. DOMAIN history = 1..Len(history) /\ Len(history) \in Nat
  BY <1>3, LenProperties, SMTT(30)
<1>5. \/ last = 0 /\ kept = 0
      \/ /\ last \in DOMAIN history /\ history[last].kind \in {"prompt", "summary"}
         /\ kept = last - 1 \/ kept = last
         /\ history[last].kind = "prompt" => kept = last - 1
  <2>1. CASE Stops = {}
    BY <2>1
  <2>2. CASE Stops # {}
    <3>1. last \in Stops
      <4>1. \E i \in Stops : \A j \in Stops : j <= i
        <5>1. Stops \in SUBSET (1..Len(history))
          BY <1>4
        <5>. HIDE DEF Stops
        <5>. QED
          BY <1>4, <2>2, <5>1, Largest
      <4>2. last = CHOOSE i \in Stops : \A j \in Stops : j <= i
        BY <2>2
      <4>. HIDE DEF Stops, last
      <4>. QED
        BY <4>1, <4>2
    <3>2. last \in DOMAIN history /\ history[last].kind \in {"prompt", "summary"}
      BY <3>1
    <3>. HIDE DEF Stops, last
    <3>. QED
      BY <1>4, <3>2
  <2>. QED
    BY <2>1, <2>2
<1>. HIDE DEF last, kept
<1>6. positions \in SUBSET (DOMAIN history)
  OBVIOUS
<1>7. ASSUME NEW j \in DOMAIN history, NEW i \in DOMAIN history,
             history[j].kind = "assistant", history[i].kind = "tool", SameExchange(history, j, i)
      PROVE  j \in positions <=> i \in positions
  <2>1. (j \in positions <=> j <= kept) /\ (i \in positions <=> i <= kept)
    BY <1>7
  <2>2. j < i
    BY <1>7 DEF SameExchange
  <2>3. ASSUME j <= kept, ~(i <= kept)
        PROVE  FALSE
    <3>1. last \in DOMAIN history /\ history[last].kind \in {"prompt", "summary"}
      BY <1>4, <1>5, <2>3
    <3>2. j < last /\ last <= i
      BY <1>4, <1>5, <1>7, <2>3, <3>1
    <3>3. last \in (j + 1)..i
      BY <1>4, <3>1, <3>2
    <3>. QED
      BY <1>7, <3>1, <3>3 DEF SameExchange
  <2>4. i <= kept => j <= kept
    BY <1>4, <1>5, <2>2
  <2>. QED
    BY <2>1, <2>3, <2>4
<1>. HIDE DEF positions
<1>8. s \in Seq(AnyMessage) /\ \E f : Selects(s, history, f) /\ {f[a] : a \in DOMAIN s} = positions
  BY <1>3, <1>6, Picks
<1>. HIDE DEF s
<1>9. PICK f : Selects(s, history, f) /\ Reached(s, f) = positions
  BY <1>8 DEF Reached
<1>10. Paired(s, {})
  BY <1>3, <1>7, <1>8, <1>9, SelectedPaired
<1>11. Grows
  <2>1. \A a \in DOMAIN s : f[a] \in DOMAIN history /\ s[a] = history[f[a]]
    BY <1>9 DEF Selects
  <2>. QED
    BY <1>1, <2>1 DEF Grows
<1>. QED
  BY <1>1, <1>10, <1>11, EditKeepsRequests DEF Undo

LEMMA RemindKeepsRequests ==
    ASSUME NamesInv, RequestInv, NEW kind \in {"reminder", "injection"}, Remind(kind),
           ~(InStep /\ pendingToolResultIds = {})
    PROVE  RequestInv'
<1> DEFINE k == used.reminders + 1
           m == Message(kind, k)
<1>1. used' = [used EXCEPT !.reminders = @ + 1]
  BY DEF Remind
<1>2. used'.reminders = k /\ used'.steps = used.steps /\ k \in Nat
  BY <1>1 DEF NamesInv, ContextTyped
<1>3. /\ AppendMessage(m) /\ UNCHANGED <<openSteps, pendingToolResultIds, compaction>>
      /\ UNCHANGED <<worker, activeTurn>>
  BY <1>2 DEF Remind
<1>4. m \in AnyMessage /\ Plain(m) /\ m.kind # "assistant"
  BY <1>2, NewMessage DEF Kinds, Plain
<1>. HIDE DEF k, m
<1>5. OneAtATime' /\ StepsGoOn
  BY <1>2, <1>3, OneUnchanged, SameWorkersGoOn
<1>6. CASE pendingToolResultIds = {}
  <2>0. \A w \in Turns : worker[w].pc # "step"
    BY <1>6 DEF InStep
  <2>1. deferredMessages = << >> /\ Paired(history, {})
    BY <2>0, NothingAwaited
  <2>2. history' = Append(history, m) /\ deferredMessages' = << >> /\ pendingToolResultIds' = {}
    BY <1>3, <1>6, <2>1 DEF AppendMessage
  <2>3. Paired(history', pendingToolResultIds')
    BY <1>4, <2>1, <2>2, AppendedPaired DEF NamesInv, ContextTyped
  <2>4. Exchange'
    BY <1>3, <2>0, <2>2, QuietExchange
  <2>5. Snapshots'
    BY <1>3, <1>4, <1>5, <2>2, AppendedGrows, SnapshotsSame
  <2>. QED
    BY <1>5, <2>3, <2>4, <2>5, PairedPrimed DEF RequestInv
<1>7. CASE pendingToolResultIds # {}
  <2>1. \E w \in Turns : worker[w].pc = "step"
    BY <1>7, NothingAwaited
  <2>2. history' = history /\ deferredMessages' = Append(deferredMessages, m)
    BY <1>3, <1>7 DEF AppendMessage
  <2>3. \A i \in DOMAIN deferredMessages' :
          Plain(deferredMessages'[i]) /\ deferredMessages'[i].kind # "assistant"
    <3> DEFINE d == Append(deferredMessages, m)
    <3>1. deferredMessages \in Seq(AnyMessage)
      BY DEF NamesInv, ContextTyped
    <3>2. /\ DOMAIN d = 1..(Len(deferredMessages) + 1)
          /\ DOMAIN deferredMessages = 1..Len(deferredMessages) /\ Len(deferredMessages) \in Nat
          /\ d[Len(deferredMessages) + 1] = m
          /\ \A i \in 1..Len(deferredMessages) : d[i] = deferredMessages[i]
      BY <1>4, <3>1, AppendProperties, LenProperties
    <3>. HIDE DEF d
    <3>3. \A i \in DOMAIN d : i \in DOMAIN deferredMessages \/ i = Len(deferredMessages) + 1
      BY <3>2
    <3>4. \A i \in DOMAIN d : Plain(d[i]) /\ d[i].kind # "assistant"
      BY <1>4, <3>2, <3>3 DEF RequestInv, Exchange
    <3>. QED
      BY <2>2, <3>4 DEF d
  <2>4. ASSUME NEW v \in Turns, worker'[v].pc = "step"
        PROVE  Serving(v)'
    <3>1. Serving(v)
      BY <1>3, <2>4 DEF RequestInv, Exchange
    <3>. QED
      BY <1>3, <2>2, <3>1 DEF Serving, Name
  <2>5. Exchange'
    BY <1>3, <1>7, <2>1, <2>3, <2>4 DEF Exchange, Plain
  <2>6. Paired(history', pendingToolResultIds')
    BY <1>3, <2>2 DEF RequestInv
  <2>7. Snapshots'
    BY <1>3, <1>5, <2>2, SameHistoryGrows, SnapshotsSame
  <2>. QED
    BY <1>5, <2>5, <2>6, <2>7, PairedPrimed DEF RequestInv
<1>. QED
  BY <1>6, <1>7

\* The boundary of a prefix that is still there lies between exchanges: a result right
\* after it would answer a call of the prefix, whose results are all there already.
LEMMA IntactSplit ==
    ASSUME NamesInv, RequestInv, NEW c \in Compactions, compactor[c].pc = "generating",
           PrefixIntact(c)
    PROVE  compactor[c].count \in 1..Len(history) /\ CanSplitAfter(history, compactor[c].count)
<1> DEFINE s == compactor[c].snapshot
           n == compactor[c].count
<1>1. /\ Paired(s, {}) /\ n \in 1..Len(s) /\ CanSplitAfter(s, n) /\ Lasting(s)
      /\ Len(s) <= Len(history) /\ \A i \in DOMAIN s : Name(s[i]) = Name(history[i])
  BY DEF RequestInv, Snapshots, Snapshot, PrefixIntact
<1>2. s \in Seq(AnyMessage) /\ history \in Seq(AnyMessage)
  BY DEF NamesInv, ContextTyped, Compactor
<1>. HIDE DEF s, n
<1>3. /\ Len(s) \in Nat /\ DOMAIN s = 1..Len(s)
      /\ Len(history) \in Nat /\ DOMAIN history = 1..Len(history)
  BY <1>2, LenProperties
<1>4. \A i \in DOMAIN s : /\ i \in DOMAIN history /\ s[i].kind = history[i].kind
                          /\ s[i].id = history[i].id
                          /\ s[i].kind = "assistant" => s[i].calls = history[i].calls
  <2>. SUFFICES ASSUME NEW i \in DOMAIN s
                PROVE  /\ i \in DOMAIN history /\ s[i].kind = history[i].kind
                       /\ s[i].id = history[i].id
                       /\ s[i].kind = "assistant" => s[i].calls = history[i].calls
    OBVIOUS
  <2>1. i \in DOMAIN history
    BY <1>1, <1>3
  <2>2. Name(s[i]) = Name(history[i])
    BY <1>1
  <2>3. s[i].kind = history[i].kind /\ s[i].id = history[i].id
    BY <2>2 DEF Name
  <2>4. s[i].kind = "assistant" => s[i].calls = history[i].calls
    BY <1>1, <2>1, <2>2 DEF Lasting
  <2>. QED
    BY <2>1, <2>3, <2>4
<1>5. n \in DOMAIN s /\ n \in 1..Len(history)
  BY <1>1, <1>3
<1>6. /\ history[n].kind \notin {"prompt", "reminder", "injection"}
      /\ history[n].kind = "assistant" => history[n].calls = {}
  BY <1>1, <1>4, <1>5 DEF CanSplitAfter
<1>7. ASSUME n < Len(history), history[n + 1].kind = "tool"
      PROVE  FALSE
  <2>0. n \in Nat /\ Len(s) \in Nat /\ n <= Len(s)
    BY <1>3, <1>5
  <2>1. CASE n < Len(s)
    <3>1. n + 1 \in DOMAIN s
      BY <1>3, <1>5, <2>1
    <3>. QED
      BY <1>1, <1>4, <1>7, <2>1, <3>1 DEF CanSplitAfter
  <2>2. CASE n = Len(s)
    <3>1. n + 1 \in DOMAIN history
      BY <1>3, <1>5, <1>7
    <3>2. PICK j \in DOMAIN history :
            /\ history[j].kind = "assistant" /\ history[n + 1].id \in history[j].calls
            /\ j < n + 1
      BY <1>7, <3>1 DEF RequestInv, Paired, ResultsFollowTheirCall, SameExchange
    <3>3. j \in DOMAIN s
      BY <1>3, <1>5, <2>2, <3>2
    <3>4. s[j].kind = "assistant" /\ history[n + 1].id \in s[j].calls
      BY <1>4, <3>2, <3>3
    <3>5. PICK i \in DOMAIN s : s[i].kind = "tool" /\ s[i].id = history[n + 1].id
      BY <1>1, <3>3, <3>4 DEF Paired
    <3>6. i \in DOMAIN history /\ Name(history[i]) = Name(history[n + 1])
      BY <1>4, <1>7, <3>5 DEF Name
    <3>7. i = n + 1
      BY <3>1, <3>6 DEF NamesInv, Apart, Distinct
    <3>. QED
      BY <1>3, <2>2, <3>5, <3>7
  <2>. QED
    BY <2>0, <2>1, <2>2
<1>8. n \in 1..Len(history) /\ CanSplitAfter(history, n)
  BY <1>5, <1>6, <1>7 DEF CanSplitAfter
<1>. QED
  BY <1>8 DEF n

LEMMA ApplyKeepsRequests ==
    ASSUME NamesInv, RequestInv, NEW c \in Compactions, ApplyCompaction(c),
           UNCHANGED memory \/ ~InStep
    PROVE  RequestInv'
<1> DEFINE n == compactor[c].count
           m == Message("summary", c)
           s == SubSeq(history, n + 1, Len(history))
           u == <<m>> \o s
<1>1. /\ compactor[c].pc = "generating" /\ UNCHANGED <<worker, activeTurn>> /\ used' = used
      /\ Finish(c, "done") \/ FinishAndCancel(c, "done")
  BY DEF ApplyCompaction
<1>2. CASE UNCHANGED memory
  <2>1. /\ OneAtATime' /\ Exchange' /\ Paired(history, pendingToolResultIds)'
        /\ Grows /\ StepsGoOn
    BY <1>1, <1>2, MemoryKeepsRequests
  <2>2. Snapshots'
    BY <1>1, <2>1, FinishKeepsSnapshots
  <2>. QED
    BY <2>1, <2>2 DEF RequestInv
<1>3. CASE ~InStep /\ PrefixIntact(c) /\ UNCHANGED pendingToolResultIds /\ FlushDeferred(u)
  <2>1. \A w \in Turns : worker[w].pc # "step"
    BY <1>3 DEF InStep
  <2>2. pendingToolResultIds = {} /\ deferredMessages = << >> /\ Paired(history, {})
    BY <2>1, NothingAwaited
  <2>3. n \in 1..Len(history) /\ CanSplitAfter(history, n) /\ history \in Seq(AnyMessage)
    BY <1>1, <1>3, IntactSplit DEF NamesInv, ContextTyped
  <2>4. m \in AnyMessage /\ Plain(m) /\ m.kind # "assistant"
    BY <1>1, SummaryIsNew, NewMessage DEF Message, Plain
  <2>5. /\ s \in Seq(AnyMessage) /\ Paired(s, {}) /\ DOMAIN s = 1..(Len(history) - n)
        /\ \A a \in DOMAIN s : a + n \in DOMAIN history /\ s[a] = history[a + n]
    BY <2>2, <2>3, CutPaired, Suffix
  <2>. HIDE DEF m, s
  <2>6. u \in Seq(AnyMessage) /\ Paired(u, {})
    BY <2>4, <2>5, SummarisedPaired
  <2>7. \A j \in DOMAIN u : u[j].kind = "assistant" =>
          \E i \in DOMAIN history : Name(u[j]) = Name(history[i]) /\ u[j].calls = history[i].calls
    <3>1. <<m>> \in Seq(AnyMessage) /\ Len(<<m>>) = 1 /\ <<m>>[1] = m
      BY <2>4
    <3>2. /\ DOMAIN u = 1..(1 + Len(s)) /\ DOMAIN s = 1..Len(s) /\ Len(s) \in Nat
          /\ \A j \in 1..(1 + Len(s)) : u[j] = IF j <= 1 THEN <<m>>[j] ELSE s[j - 1]
      BY <2>5, <3>1, ConcatProperties, LenProperties
    <3>. HIDE DEF u
    <3>3. ASSUME NEW j \in DOMAIN u, u[j].kind = "assistant"
          PROVE  j - 1 \in DOMAIN s /\ u[j] = s[j - 1]
      <4>1. j # 1
        BY <2>4, <3>1, <3>2, <3>3
      <4>. QED
        BY <3>2, <4>1
    <3>. QED
      BY <2>5, <3>3
  <2>. HIDE DEF u
  <2>8. /\ history' = u \o deferredMessages /\ deferredMessages' = << >>
        /\ pendingToolResultIds' = {}
    BY <1>3, <2>2 DEF FlushDeferred
  <2>9. Paired(history', {})
    BY <2>2, <2>6, <2>8, JoinedPaired DEF NamesInv, ContextTyped
  <2>10. Exchange'
    BY <1>1, <2>1, <2>8, QuietExchange
  <2>11. Grows
    BY <2>6, <2>7, <2>8, JoinedGrows
  <2>12. OneAtATime' /\ StepsGoOn
    BY <1>1, OneUnchanged, SameWorkersGoOn
  <2>13. Snapshots'
    BY <1>1, <2>11, <2>12, FinishKeepsSnapshots
  <2>14. Paired(history', pendingToolResultIds')
    BY <2>8, <2>9
  <2>. QED
    BY <2>10, <2>12, <2>13, <2>14, PairedPrimed DEF RequestInv
<1>. QED
  BY <1>2, <1>3 DEF ApplyCompaction

LEMMA BeginStepKeepsRequests ==
    ASSUME NamesInv, RequestInv, NEW w \in Turns, BeginStep(w)
    PROVE  RequestInv'
<1> DEFINE k == used.steps + 1
           m == Message("assistant", k)
           old == worker[w]
           new == [old EXCEPT !.pc = "step", !.step = k, !.calls = 0, !.results = 0]
           h == Append(history, m)
<1>1. used' = [used EXCEPT !.steps = @ + 1] /\ Resting(w)
  BY DEF BeginStep, Resting
<1>2. used'.steps = k /\ used.steps \in Nat /\ k \in Nat
  BY <1>1, StepsCounted DEF NamesInv
<1>3. /\ worker' = [worker EXCEPT ![w] = new] /\ history' = h
      /\ openSteps' = openSteps \cup {k}
      /\ UNCHANGED <<pendingToolResultIds, deferredMessages, activeTurn, compaction>>
      /\ ~worker[w].aborted
  BY <1>2 DEF BeginStep
<1>4. /\ pendingToolResultIds = {} /\ deferredMessages = << >> /\ Paired(history, {})
      /\ Running(w) /\ \A v \in Turns \ {w} : worker[v].pc # "step"
  BY <1>1, RestingIsQuiet
<1>5. m \in AnyMessage /\ Plain(m) /\ Name(m) = <<"assistant", k>> /\ m.calls = {}
  BY <1>2, NewMessage DEF Kinds, Plain
<1>6. old \in Worker
  BY DEF NamesInv, ContextTyped
<1>. HIDE DEF old
<1>7. /\ new.pc = "step" /\ new.step = k /\ new.calls = 0 /\ new.results = 0
      /\ new.aborted = old.aborted
  BY <1>2, <1>6, BegunTyped
<1>. HIDE DEF new
<1>7a. k > used.steps /\ k >= used.steps
  BY <1>2
<1>. HIDE DEF m, new, k
<1>8. worker'[w] = new /\ \A v \in Turns \ {w} : worker'[v] = worker[v]
  BY <1>3 DEF NamesInv, ContextTyped
<1>9. Paired(h, {})
  BY <1>4, <1>5, AppendedPaired DEF NamesInv, ContextTyped
<1>10. /\ h \in Seq(AnyMessage) /\ DOMAIN h = 1..(Len(history) + 1) /\ Len(h) = Len(history) + 1
       /\ Len(history) \in Nat /\ h[Len(history) + 1] = m
       /\ DOMAIN history = 1..Len(history) /\ \A i \in 1..Len(history) : h[i] = history[i]
  BY <1>5, AppendProperties, LenProperties DEF NamesInv, ContextTyped
<1>. HIDE DEF h
<1>11. Serving(w)'
  <2>1. Len(h) \in DOMAIN h /\ h[Len(h)] = m
    BY <1>10
  <2>2. \A s : {<<s, i>> : i \in 1..0} = {} /\ {<<s, i>> : i \in (0 + 1)..0} = {}
    OBVIOUS
  <2>3. /\ Name(h[Len(h)]) = <<"assistant", k>>
        /\ h[Len(h)].calls = {<<k, i>> : i \in 1..0}
    BY <1>5, <2>1, <2>2
  <2>4. /\ worker'[w].results = 0 /\ worker'[w].calls = 0 /\ worker'[w].step = k
        /\ pendingToolResultIds' = {<<k, i>> : i \in (0 + 1)..0}
    BY <1>3, <1>4, <1>7, <1>8, <2>2
  <2>5. k \in openSteps'
    BY <1>3
  <2>. QED
    BY <1>3, <2>1, <2>3, <2>4, <2>5 DEF Serving, Name
<1>12. Exchange'
  <2>1. \A v \in Turns : worker'[v].pc = "step" <=> v = w
    BY <1>4, <1>7, <1>8
  <2>. QED
    BY <1>3, <1>4, <1>11, <2>1 DEF Exchange
<1>13. OneAtATime' /\ Snapshots'
  <2>1. worker'[w].aborted = worker[w].aborted
    BY <1>7, <1>8 DEF old
  <2>2. OneAtATime'
    BY <1>3, <1>4, <1>8, <2>1, OneWorkerMoves
  <2>3. \A v \in Turns : worker'[v].pc = "step" => worker'[v].step > used.steps
    BY <1>4, <1>7, <1>7a, <1>8
  <2>4. StepsGoOn
    BY <1>2, <1>7, <1>7a, <2>3 DEF StepsGoOn
  <2>5. m.id = k
    BY <1>5 DEF Name
  <2>6. \A i \in DOMAIN h : i \in DOMAIN history \/ i = Len(history) + 1
    BY <1>10
  <2>7. Grows
    BY <1>3, <1>7, <1>7a, <1>10, <2>5, <2>6 DEF Grows
  <2>. QED
    BY <1>3, <2>2, <2>4, <2>7, SnapshotsSame
<1>14. Paired(history', pendingToolResultIds')
  BY <1>3, <1>4, <1>9
<1>. QED
  BY <1>12, <1>13, <1>14, PairedPrimed DEF RequestInv

LEMMA SameLength ==
    ASSUME NEW s \in Seq(AnyMessage), NEW t \in Seq(AnyMessage), DOMAIN s = DOMAIN t
    PROVE  Len(s) = Len(t)
<1>1. Len(s) \in Nat /\ Len(t) \in Nat /\ 1..Len(s) = 1..Len(t)
  BY LenProperties
<1>2. \A i \in Nat : i \in 1..Len(s) <=> i \in 1..Len(t)
  BY <1>1
<1>3. ~(Len(s) < Len(t)) /\ ~(Len(t) < Len(s))
  BY <1>1, <1>2
<1>. QED
  BY <1>1, <1>3

LEMMA ContentPartKeepsRequests ==
    ASSUME NamesInv, RequestInv, NEW w \in Turns, ContentPart(w)
    PROVE  RequestInv'
<1> DEFINE h == Fill(worker[w].step, TRUE, {})
<1>1. /\ worker[w].pc = "step" /\ worker[w].calls = 0
      /\ UNCHANGED <<compaction, used>>
  BY DEF ContentPart
<1>2. /\ Serving(w)
      /\ \A v \in Turns \ {w} : worker[v].pc # "step"
  BY <1>1, StepIsAlone
<1>3. history' = h /\ UNCHANGED <<openSteps, pendingToolResultIds, deferredMessages, worker>>
      /\ activeTurn' = activeTurn /\ used' = used
  BY <1>2 DEF ContentPart, Serving
<1>4. worker[w].step \in Nat /\ {} \in SUBSET Pairs /\ TRUE \in BOOLEAN
  BY DEF NamesInv, ContextTyped, Worker
<1>5. /\ h \in Seq(AnyMessage) /\ DOMAIN h = DOMAIN history
      /\ \A i \in DOMAIN history :
            /\ Name(h[i]) = Name(history[i])
            /\ h[i].kind = history[i].kind /\ h[i].id = history[i].id
            /\ h[i].calls = history[i].calls
  <2>1. /\ h \in Seq(AnyMessage) /\ DOMAIN h = DOMAIN history
        /\ \A i \in DOMAIN history :
              /\ Name(h[i]) = Name(history[i])
              /\ h[i].kind = history[i].kind /\ h[i].id = history[i].id
              /\ h[i].calls = IF Name(history[i]) = <<"assistant", worker[w].step>>
                              THEN history[i].calls \cup {} ELSE history[i].calls
    BY <1>4, Filled DEF NamesInv
  <2>. HIDE DEF h
  <2>. QED
    BY <2>1
<1>. HIDE DEF h
<1>6. Len(h) = Len(history) /\ DOMAIN history = 1..Len(history) /\ Len(history) \in Nat
  <2>1. history \in Seq(AnyMessage)
    BY DEF NamesInv, ContextTyped
  <2>2. h \in Seq(AnyMessage) /\ DOMAIN h = DOMAIN history
    BY <1>5
  <2>. QED
    BY <2>1, <2>2, SameLength, LenProperties
<1>7. Paired(h, pendingToolResultIds \cup {})
  <2>1. history \in Seq(AnyMessage) /\ Paired(history, pendingToolResultIds)
    BY DEF NamesInv, ContextTyped, RequestInv
  <2>2. \A i \in DOMAIN history :
          /\ h[i].kind = history[i].kind /\ h[i].id = history[i].id
          /\ history[i].calls \subseteq h[i].calls
          /\ \A x \in h[i].calls :
                x \in history[i].calls \/ (x \in {} /\ x[1] = history[i].id)
    BY <1>5
  <2>3. h \in Seq(AnyMessage) /\ DOMAIN h = DOMAIN history
    BY <1>5
  <2>. QED
    BY <2>1, <2>2, <2>3, CalledPaired
<1>8. Serving(w)'
  <2>1. PICK j \in DOMAIN history :
          /\ Name(history[j]) = <<"assistant", worker[w].step>>
          /\ history[j].calls = {<<worker[w].step, k>> : k \in 1..worker[w].calls}
          /\ worker[w].results = 0 => j = Len(history)
          /\ worker[w].results < worker[w].calls =>
                \A k \in (j + 1)..Len(history) : history[k].kind = "tool"
    BY <1>2 DEF Serving
  <2>2. /\ Name(h[j]) = <<"assistant", worker[w].step>>
        /\ h[j].calls = {<<worker[w].step, k>> : k \in 1..worker[w].calls}
        /\ worker[w].results = 0 => j = Len(h)
    BY <1>5, <1>6, <2>1
  <2>3. worker[w].results < worker[w].calls => \A k \in (j + 1)..Len(h) : h[k].kind = "tool"
    <3>1. \A k \in (j + 1)..Len(h) : k \in DOMAIN history
      BY <1>6
    <3>. QED
      BY <1>5, <1>6, <2>1, <3>1
  <2>4. j \in DOMAIN h
    BY <1>5
  <2>. QED
    BY <1>2, <1>3, <2>2, <2>3, <2>4 DEF Serving, Name
<1>9. Exchange'
  <2>1. \A v \in Turns : worker'[v].pc = "step" <=> v = w
    BY <1>1, <1>2, <1>3
  <2>2. /\ pendingToolResultIds' = {} => deferredMessages' = << >>
        /\ \A i \in DOMAIN deferredMessages' :
              Plain(deferredMessages'[i]) /\ deferredMessages'[i].kind # "assistant"
    BY <1>3 DEF RequestInv, Exchange
  <2>. QED
    BY <1>8, <2>1, <2>2 DEF Exchange, Plain
<1>10. OneAtATime' /\ Snapshots'
  <2>1. Grows
    BY <1>3, <1>5 DEF Grows
  <2>2. OneAtATime' /\ StepsGoOn
    BY <1>3, OneUnchanged, SameWorkersGoOn
  <2>. QED
    BY <1>1, <2>1, <2>2, SnapshotsSame
<1>11. Paired(history', pendingToolResultIds')
  BY <1>3, <1>7
<1>. QED
  BY <1>9, <1>10, <1>11, PairedPrimed DEF RequestInv

LEMMA ToolCallKeepsRequests ==
    ASSUME NamesInv, RequestInv, NEW w \in Turns, ToolCall(w)
    PROVE  RequestInv'
<1> DEFINE old == worker[w]
           call == <<old.step, old.calls + 1>>
           new == [old EXCEPT !.calls = @ + 1]
           h == Fill(old.step, FALSE, {call})
<1>1. old.pc = "step" /\ old.results = 0 /\ UNCHANGED <<compaction, used>>
  BY DEF ToolCall
<1>2. /\ Serving(w) /\ Running(w)
      /\ \A v \in Turns \ {w} : worker[v].pc # "step"
  BY <1>1, StepIsAlone
<1>3. /\ history' = h /\ pendingToolResultIds' = pendingToolResultIds \cup {call}
      /\ worker' = [worker EXCEPT ![w] = new]
      /\ UNCHANGED <<openSteps, deferredMessages, activeTurn>>
  BY <1>2 DEF ToolCall, Serving
<1>4. PICK j \in DOMAIN history :
        /\ Name(history[j]) = <<"assistant", old.step>>
        /\ history[j].calls = {<<old.step, k>> : k \in 1..old.calls}
        /\ j = Len(history)
  BY <1>1, <1>2 DEF Serving
<1>5. /\ old.step \in openSteps
      /\ pendingToolResultIds = {<<old.step, k>> : k \in (0 + 1)..old.calls}
  BY <1>1, <1>2 DEF Serving
<1>6. old \in Worker
  BY DEF NamesInv, ContextTyped
<1>. HIDE DEF old
<1>7. /\ old.step \in Nat /\ old.calls \in Nat /\ call \in Pairs /\ call[1] = old.step
      /\ new.pc = "step" /\ new.step = old.step /\ new.calls = old.calls + 1 /\ new.results = 0
      /\ new.aborted = old.aborted
  BY <1>1, <1>6 DEF Worker, Pairs
<1>8. {<<old.step, k>> : k \in 1..(old.calls + 1)} = {<<old.step, k>> : k \in 1..old.calls} \cup {call}
  <2>1. \A k : k \in 1..(old.calls + 1) <=> k \in 1..old.calls \/ k = old.calls + 1
    BY <1>7
  <2>. QED
    BY <2>1
<1>. HIDE DEF new, call
<1>9. worker'[w] = new /\ \A v \in Turns \ {w} : worker'[v] = worker[v]
  BY <1>3 DEF NamesInv, ContextTyped
<1>10. /\ h \in Seq(AnyMessage) /\ DOMAIN h = DOMAIN history
       /\ \A i \in DOMAIN history :
             /\ Name(h[i]) = Name(history[i])
             /\ h[i].kind = history[i].kind /\ h[i].id = history[i].id
             /\ h[i].calls = IF Name(history[i]) = <<"assistant", old.step>>
                             THEN history[i].calls \cup {call} ELSE history[i].calls
  <2>1. {call} \in SUBSET Pairs /\ FALSE \in BOOLEAN
    BY <1>7
  <2>. QED
    BY <1>7, <2>1, Filled DEF NamesInv
<1>. HIDE DEF h
<1>11. Paired(h, pendingToolResultIds \cup {call})
  <2>1. history \in Seq(AnyMessage) /\ Paired(history, pendingToolResultIds)
    BY DEF NamesInv, ContextTyped, RequestInv
  <2>2. ASSUME NEW i \in DOMAIN history, Name(history[i]) = <<"assistant", old.step>>
        PROVE  call[1] = history[i].id
    BY <1>7, <2>2 DEF Name
  <2>3. \A i \in DOMAIN history :
          /\ h[i].kind = history[i].kind /\ h[i].id = history[i].id
          /\ history[i].calls \subseteq h[i].calls
          /\ \A x \in h[i].calls :
                x \in history[i].calls \/ (x \in {call} /\ x[1] = history[i].id)
    BY <1>10, <2>2
  <2>4. h \in Seq(AnyMessage) /\ DOMAIN h = DOMAIN history
    BY <1>10
  <2>. QED
    BY <2>1, <2>3, <2>4, CalledPaired
<1>12. Len(h) = Len(history) /\ Len(history) \in Nat
  <2>1. history \in Seq(AnyMessage) /\ h \in Seq(AnyMessage) /\ DOMAIN h = DOMAIN history
    BY <1>10 DEF NamesInv, ContextTyped
  <2>. QED
    BY <2>1, SameLength, LenProperties
<1>13. Serving(w)'
  <2>1. /\ Name(h[j]) = <<"assistant", old.step>> /\ j \in DOMAIN h /\ j = Len(h)
        /\ h[j].calls = {<<old.step, k>> : k \in 1..(old.calls + 1)}
    BY <1>4, <1>8, <1>10, <1>12
  <2>2. \A k \in (j + 1)..Len(h) : h[k].kind = "tool"
    BY <1>12, <2>1
  <2>3. pendingToolResultIds' = {<<old.step, k>> : k \in (0 + 1)..(old.calls + 1)}
    BY <1>3, <1>5, <1>8
  <2>4. /\ worker'[w].results = 0 /\ worker'[w].calls = old.calls + 1
        /\ worker'[w].step = old.step /\ 0 <= old.calls + 1
    BY <1>7, <1>9
  <2>5. old.step \in openSteps'
    BY <1>3, <1>5
  <2>. QED
    BY <1>3, <2>1, <2>2, <2>3, <2>4, <2>5 DEF Serving, Name
<1>14. Exchange'
  <2>1. \A v \in Turns : worker'[v].pc = "step" <=> v = w
    BY <1>2, <1>7, <1>9
  <2>2. /\ pendingToolResultIds' # {}
        /\ \A i \in DOMAIN deferredMessages' :
              Plain(deferredMessages'[i]) /\ deferredMessages'[i].kind # "assistant"
    BY <1>3 DEF RequestInv, Exchange
  <2>. QED
    BY <1>13, <2>1, <2>2 DEF Exchange, Plain
<1>15. OneAtATime' /\ Snapshots'
  <2>1. /\ worker'[w].aborted = worker[w].aborted /\ worker'[w].pc = "step" /\ worker[w].pc = "step"
        /\ worker'[w].step = worker[w].step /\ worker[w].step = old.step
    BY <1>1, <1>7, <1>9 DEF old
  <2>2. OneAtATime'
    BY <1>2, <1>3, <1>9, <2>1, OneWorkerMoves
  <2>3. StepsGoOn
    <3>1. used' = used /\ used.steps \in Nat
      BY <1>1 DEF NamesInv, ContextTyped
    <3>2. \A v \in Turns : v = w \/ worker'[v] = worker[v]
      BY <1>9
    <3>. QED
      BY <2>1, <3>1, <3>2 DEF StepsGoOn
  <2>4. ASSUME NEW i \in DOMAIN history
        PROVE  \/ worker[w].pc = "step" /\ worker[w].step = h[i].id
               \/ Name(h[i]) = Name(history[i]) /\ h[i].calls = history[i].calls
    <3>1. CASE Name(history[i]) = <<"assistant", old.step>>
      BY <1>10, <2>1, <3>1 DEF Name
    <3>2. CASE Name(history[i]) # <<"assistant", old.step>>
      BY <1>10, <3>2
    <3>. QED
      BY <3>1, <3>2
  <2>5. Grows
    BY <1>3, <1>10, <2>4 DEF Grows
  <2>. QED
    BY <1>1, <2>2, <2>3, <2>5, SnapshotsSame
<1>16. Paired(history', pendingToolResultIds')
  BY <1>3, <1>11
<1>. QED
  BY <1>14, <1>15, <1>16, PairedPrimed DEF RequestInv

LEMMA EndStepKeepsRequests ==
    ASSUME NamesInv, RequestInv, NEW w \in Turns, EndStep(w)
    PROVE  RequestInv'
<1> DEFINE ready == [NotLaunched EXCEPT !.pc = "ready"]
<1>1. Resting(w) /\ FlushDeferred(history) /\ UNCHANGED <<pendingToolResultIds, compaction, used>>
      /\ worker[w].pc = "step" /\ ~worker[w].aborted
  BY DEF EndStep, Resting
<1>2. /\ pendingToolResultIds = {} /\ deferredMessages = << >> /\ Paired(history, {})
      /\ Running(w) /\ \A v \in Turns \ {w} : worker[v].pc # "step"
  BY <1>1, RestingIsQuiet
<1>3. Paired(history \o deferredMessages, {})
  BY <1>2, JoinedPaired DEF NamesInv, ContextTyped
<1>4. history' = history \o deferredMessages /\ deferredMessages' = << >> /\ pendingToolResultIds' = {}
  BY <1>1, <1>2 DEF FlushDeferred
<1>5. \/ worker' = [worker EXCEPT ![w] = ready] /\ activeTurn' = activeTurn
      \/ /\ worker' = [worker EXCEPT ![w] = Ended]
         /\ activeTurn' = activeTurn \/ activeTurn = w
  BY DEF EndStep, EndTurn
<1>6. ready.pc = "ready" /\ ready.aborted = FALSE
  BY DEF NotLaunched
<1>. HIDE DEF ready
<1>7. worker'[w].pc # "step" /\ \A v \in Turns \ {w} : worker'[v] = worker[v]
  BY <1>5, <1>6, WorkersTyped DEF NamesInv, ContextTyped
<1>8. \A v \in Turns : worker'[v].pc # "step"
  BY <1>2, <1>7
<1>9. Exchange'
  BY <1>4, <1>8, QuietExchange
<1>10. OneAtATime' /\ Snapshots'
  <2>1. worker[w].aborted = FALSE
    BY <1>1 DEF NamesInv, ContextTyped, Worker
  <2>2. Running(w)' => worker'[w].aborted = worker[w].aborted /\ activeTurn' = activeTurn
    BY <1>5, <1>6, <2>1, WorkersTyped DEF Running, NamesInv, ContextTyped
  <2>3. OneAtATime'
    BY <1>2, <1>5, <1>7, <2>2, OneWorkerMoves
  <2>4. StepsGoOn
    <3>1. used' = used /\ used.steps \in Nat
      BY <1>1 DEF NamesInv, ContextTyped
    <3>. QED
      BY <1>8, <3>1 DEF StepsGoOn
  <2>5. Grows
    <3>1. history \in Seq(AnyMessage)
      BY DEF NamesInv, ContextTyped
    <3>. QED
      BY <1>4, <3>1, JoinedGrows
  <2>. QED
    BY <1>1, <2>3, <2>4, <2>5, SnapshotsSame
<1>11. Paired(history', pendingToolResultIds')
  BY <1>3, <1>4
<1>. QED
  BY <1>9, <1>10, <1>11, PairedPrimed DEF RequestInv

LEMMA ToolResultKeepsRequests ==
    ASSUME NamesInv, RequestInv, NEW w \in Turns, ToolResult(w)
    PROVE  RequestInv'
<1> DEFINE old == worker[w]
           call == <<old.step, old.results + 1>>
           m == Message("tool", call)
           new == [old EXCEPT !.results = @ + 1]
           h == Append(history, m)
<1>1. /\ old.pc = "step" /\ old.results < old.calls /\ worker' = [worker EXCEPT ![w] = new]
      /\ pendingToolResultIds' = pendingToolResultIds \ {call} /\ FlushDeferred(h)
      /\ UNCHANGED <<openSteps, activeTurn, compaction, used>>
  BY DEF ToolResult
<1>2. /\ Serving(w) /\ Running(w)
      /\ \A v \in Turns \ {w} : worker[v].pc # "step"
  BY <1>1, StepIsAlone
<1>3. PICK j \in DOMAIN history :
        /\ Name(history[j]) = <<"assistant", old.step>>
        /\ history[j].calls = {<<old.step, k>> : k \in 1..old.calls}
        /\ \A k \in (j + 1)..Len(history) : history[k].kind = "tool"
  BY <1>1, <1>2 DEF Serving
<1>4. /\ old.step \in openSteps
      /\ pendingToolResultIds = {<<old.step, k>> : k \in (old.results + 1)..old.calls}
  BY <1>2 DEF Serving
<1>5. old \in Worker
  BY DEF NamesInv, ContextTyped
<1>. HIDE DEF old
<1>6. /\ old.step \in Nat /\ old.calls \in Nat /\ old.results \in Nat
      /\ call \in Pairs /\ new.pc = "step" /\ new.step = old.step
      /\ new.calls = old.calls /\ new.results = old.results + 1 /\ new.aborted = old.aborted
  BY <1>1, <1>5 DEF Worker, Pairs
<1>7. m \in AnyMessage /\ m.kind = "tool" /\ m.id = call
  BY <1>6, NewMessage DEF Kinds
<1>8. call \in history[j].calls
  <2>1. old.results + 1 \in 1..old.calls
    BY <1>1, <1>6
  <2>. QED
    BY <1>3, <2>1
<1>9. pendingToolResultIds' = {<<old.step, k>> : k \in ((old.results + 1) + 1)..old.calls}
  <2>1. \A k : k \in ((old.results + 1) + 1)..old.calls <=>
                 k \in (old.results + 1)..old.calls /\ k # old.results + 1
    BY <1>6
  <2>2. \A k : <<old.step, k>> = call <=> k = old.results + 1
    OBVIOUS
  <2>. HIDE DEF call
  <2>. QED
    BY <1>1, <1>4, <2>1, <2>2
<1>. HIDE DEF new, call, m
<1>10. worker'[w] = new /\ \A v \in Turns \ {w} : worker'[v] = worker[v]
  BY <1>1 DEF NamesInv, ContextTyped
<1>11. /\ history \in Seq(AnyMessage) /\ Distinct(history) /\ history[j].kind = "assistant"
       /\ Paired(history, pendingToolResultIds) /\ deferredMessages \in Seq(AnyMessage)
       /\ \A i \in DOMAIN deferredMessages :
             Plain(deferredMessages[i]) /\ deferredMessages[i].kind # "assistant"
  BY <1>3 DEF NamesInv, ContextTyped, Apart, RequestInv, Exchange, Name
<1>12. Paired(h, pendingToolResultIds')
  BY <1>1, <1>3, <1>7, <1>8, <1>11, AnsweredPaired
<1>13. /\ h \in Seq(AnyMessage) /\ Len(h) = Len(history) + 1 /\ Len(history) \in Nat
       /\ DOMAIN history = 1..Len(history) /\ DOMAIN h = 1..(Len(history) + 1)
       /\ h[Len(history) + 1] = m /\ \A i \in 1..Len(history) : h[i] = history[i]
  BY <1>7, <1>11, AppendProperties, LenProperties
<1>. HIDE DEF h
<1>14. Paired(h \o deferredMessages, pendingToolResultIds')
  BY <1>11, <1>12, <1>13, JoinedPaired
<1>15. Paired(history', pendingToolResultIds')
  BY <1>1, <1>12, <1>14 DEF FlushDeferred
<1>16. j \in DOMAIN history' /\ history'[j] = history[j]
  <2>1. h[j] = history[j] /\ j \in 1..Len(h)
    BY <1>13
  <2>2. CASE history' = h
    BY <1>13, <2>1, <2>2
  <2>3. CASE history' = h \o deferredMessages
    <3>0. h \in Seq(AnyMessage) /\ deferredMessages \in Seq(AnyMessage)
      BY <1>11, <1>13
    <3>1. /\ DOMAIN (h \o deferredMessages) = 1..(Len(h) + Len(deferredMessages))
          /\ Len(h) \in Nat /\ Len(deferredMessages) \in Nat
          /\ \A i \in 1..(Len(h) + Len(deferredMessages)) :
                (h \o deferredMessages)[i] =
                    IF i <= Len(h) THEN h[i] ELSE deferredMessages[i - Len(h)]
      BY <3>0, ConcatProperties, LenProperties
    <3>2. j \in 1..(Len(h) + Len(deferredMessages)) /\ j <= Len(h)
      BY <2>1, <3>1
    <3>. QED
      BY <2>1, <2>3, <3>1, <3>2
  <2>. QED
    BY <1>1, <2>2, <2>3 DEF FlushDeferred
<1>17. old.results + 1 < old.calls =>
         \A k \in (j + 1)..Len(history') : history'[k].kind = "tool"
  <2>. SUFFICES ASSUME old.results + 1 < old.calls
                PROVE  \A k \in (j + 1)..Len(history') : history'[k].kind = "tool"
    OBVIOUS
  <2>1. (old.results + 1) + 1 \in ((old.results + 1) + 1)..old.calls
    BY <1>6
  <2>2. pendingToolResultIds' # {}
    BY <1>9, <2>1
  <2>3. history' = h
    BY <1>1, <2>2 DEF FlushDeferred
  <2>4. ASSUME NEW k \in (j + 1)..Len(h)
        PROVE  h[k].kind = "tool"
    <3>1. k = Len(history) + 1 \/ (k \in (j + 1)..Len(history) /\ k \in 1..Len(history))
      BY <1>13
    <3>. QED
      BY <1>3, <1>7, <1>13, <3>1
  <2>. QED
    BY <2>3, <2>4
<1>18. Serving(w)'
  <2>1. /\ Name(history'[j]) = <<"assistant", old.step>>
        /\ history'[j].calls = {<<old.step, k>> : k \in 1..old.calls}
    BY <1>3, <1>16
  <2>2. /\ worker'[w].results = old.results + 1 /\ worker'[w].calls = old.calls
        /\ worker'[w].step = old.step /\ old.results + 1 <= old.calls /\ old.results + 1 # 0
    BY <1>1, <1>6, <1>10 DEF old
  <2>3. old.step \in openSteps'
    BY <1>1, <1>4
  <2>. QED
    BY <1>9, <1>16, <1>17, <2>1, <2>2, <2>3 DEF Serving, Name
<1>19. Exchange'
  <2>1. \A v \in Turns : worker'[v].pc = "step" <=> v = w
    BY <1>2, <1>6, <1>10
  <2>2. /\ pendingToolResultIds' = {} => deferredMessages' = << >>
        /\ \A i \in DOMAIN deferredMessages' :
              Plain(deferredMessages'[i]) /\ deferredMessages'[i].kind # "assistant"
    BY <1>1, <1>11 DEF FlushDeferred
  <2>. QED
    BY <1>18, <2>1, <2>2 DEF Exchange, Plain
<1>20. OneAtATime' /\ Snapshots'
  <2>1. /\ worker'[w].aborted = worker[w].aborted /\ worker'[w].pc = "step" /\ worker[w].pc = "step"
        /\ worker'[w].step = worker[w].step
    BY <1>1, <1>6, <1>10 DEF old
  <2>2. OneAtATime'
    BY <1>1, <1>2, <1>10, <2>1, OneWorkerMoves
  <2>3. StepsGoOn
    <3>1. used' = used /\ used.steps \in Nat
      BY <1>1 DEF NamesInv, ContextTyped
    <3>2. \A v \in Turns : v = w \/ worker'[v] = worker[v]
      BY <1>10
    <3>. QED
      BY <2>1, <3>1, <3>2 DEF StepsGoOn
  <2>4. \A i \in DOMAIN h : i \in DOMAIN history \/ i = Len(history) + 1
    BY <1>13
  <2>5. \A i \in DOMAIN h : h[i].kind = "assistant" =>
          \E k \in DOMAIN history : Name(h[i]) = Name(history[k]) /\ h[i].calls = history[k].calls
    BY <1>7, <1>13, <2>4
  <2>6. history' = h \/ history' = h \o deferredMessages
    BY <1>1 DEF FlushDeferred
  <2>7. Grows
    BY <1>13, <2>5, <2>6, JoinedGrows
  <2>. QED
    BY <1>1, <2>2, <2>3, <2>7, SnapshotsSame
<1>. QED
  BY <1>15, <1>19, <1>20, PairedPrimed DEF RequestInv

\* The process dies between two exchanges.
LEMMA RestartKeepsRequests ==
    ASSUME NamesInv, RequestInv, Restart, pendingToolResultIds = {}
    PROVE  RequestInv'
<1>1. \A w \in Turns : ~Running(w)' /\ worker'[w].pc # "step"
  BY WorkersTyped DEF Restart, Running
<1>2. \A c \in Compactions : compactor'[c].pc # "generating"
  BY CompactorsTyped DEF Restart, NotBegun
<1>3. UNCHANGED memory
  BY DEF Restart
<1>4. OneAtATime' /\ Snapshots'
  BY <1>1, <1>2 DEF OneAtATime, Snapshots
<1>5. Exchange' /\ Paired(history, pendingToolResultIds)'
  BY <1>1, <1>3, ExchangeKept
<1>. QED
  BY <1>4, <1>5 DEF RequestInv

LEMMA RequestsInitially == ContextInit => RequestInv
<1>. SUFFICES ASSUME ContextInit
              PROVE  RequestInv
  OBVIOUS
<1>1. /\ \A w \in Turns : worker[w].pc = "idle"
      /\ \A c \in Compactions : compactor[c].pc = "idle"
  BY WorkersTyped, CompactorsTyped DEF ContextInit
<1>2. OneAtATime
  BY <1>1 DEF ContextInit, OneAtATime, Running
<1>3. Exchange
  BY <1>1 DEF ContextInit, Exchange
<1>4. Paired(history, pendingToolResultIds)
  BY DEF ContextInit, Paired, ResultsFollowTheirCall
<1>5. Snapshots
  BY <1>1 DEF Snapshots
<1>. QED
  BY <1>2, <1>3, <1>4, <1>5 DEF RequestInv

\* The inductive invariant: as long as nothing came between a call and its result, one
\* turn goes on at a time, the exchange is open only while its worker is in its step, and
\* calls and results are paired in the history and in every snapshot.
OrderlyInv == crossed \in BOOLEAN /\ (~crossed => RequestInv)

\* What has come between stays there.
LEMMA CrossedStays ==
    ASSUME crossed \in BOOLEAN, [ContextNext]_contextVars
    PROVE  crossed' \in BOOLEAN /\ (crossed => crossed')
<1>1. ASSUME NEW w \in Turns, TurnStep(w)
      PROVE  crossed' = crossed
  BY <1>1, Zenon DEF TurnStep, LeaveTurn, BlockOnCompaction, Unblock, BeginStep, ContentPart,
     ToolCall, ToolResult, EndStep, UnknownStep
<1>2. ASSUME NEW c \in Compactions, CompactionStep(c)
      PROVE  crossed' \in BOOLEAN /\ (crossed => crossed')
  BY <1>2 DEF CompactionStep, Shrink, ApplyCompaction, FailCompaction
<1>3. ASSUME NEW kind \in {"reminder", "injection"}, Remind(kind)
      PROVE  crossed' \in BOOLEAN /\ (crossed => crossed')
  BY <1>3 DEF Remind
<1>4. Prompt \/ Undo \/ Clear \/ Restart \/ BeginManual =>
        crossed' \in BOOLEAN /\ (crossed => crossed')
  BY DEF Prompt, Undo, Clear, Restart, BeginManual
<1>5. Cancel \/ CancelCompaction => crossed' = crossed
  BY DEF Cancel, CancelCompaction
<1>6. UNCHANGED contextVars => crossed' = crossed
  BY DEF contextVars
<1>. QED
  BY <1>1, <1>2, <1>3, <1>4, <1>5, <1>6 DEF ContextNext

LEMMA RequestsSurvive ==
    NamesInv /\ OrderlyInv /\ [ContextNext]_contextVars => OrderlyInv'
<1>. SUFFICES ASSUME NamesInv, OrderlyInv, [ContextNext]_contextVars, ~crossed'
              PROVE  RequestInv'
  BY CrossedStays DEF OrderlyInv
<1>0. RequestInv /\ ~crossed /\ crossed \in BOOLEAN
  BY CrossedStays DEF OrderlyInv
<1>1. ASSUME NEW w \in Turns, TurnStep(w)
      PROVE  RequestInv'
  BY <1>0, <1>1, LeaveTurnKeepsRequests, BlockKeepsRequests, UnblockKeepsRequests,
     BeginStepKeepsRequests, ContentPartKeepsRequests, ToolCallKeepsRequests,
     ToolResultKeepsRequests, EndStepKeepsRequests DEF TurnStep
<1>2. ASSUME NEW c \in Compactions, CompactionStep(c)
      PROVE  RequestInv'
  <2>1. ApplyCompaction(c) => UNCHANGED memory \/ ~InStep
    BY <1>0 DEF ApplyCompaction
  <2>. QED
    BY <1>0, <1>2, <2>1, ShrinkKeepsRequests, ApplyKeepsRequests, FailCompactionKeepsRequests
       DEF CompactionStep
<1>3. ASSUME NEW kind \in {"reminder", "injection"}, Remind(kind)
      PROVE  RequestInv'
  <2>1. ~(InStep /\ pendingToolResultIds = {})
    BY <1>0, <1>3 DEF Remind
  <2>. QED
    BY <1>0, <1>3, <2>1, RemindKeepsRequests
<1>4. Restart => RequestInv'
  <2>1. Restart => pendingToolResultIds = {}
    BY <1>0 DEF Restart
  <2>. QED
    BY <1>0, <2>1, RestartKeepsRequests
<1>5. Prompt \/ Undo \/ Clear \/ BeginManual => RequestInv'
  <2>1. Prompt \/ Undo \/ Clear \/ BeginManual => ~InStep
    BY <1>0 DEF Prompt, Undo, Clear, BeginManual
  <2>. QED
    BY <1>0, <2>1, PromptKeepsRequests, UndoKeepsRequests, ClearKeepsRequests,
       BeginManualKeepsRequests
<1>6. Cancel \/ CancelCompaction => RequestInv'
  BY <1>0, CancelKeepsRequests, CancelCompactionKeepsRequests
<1>7. CASE UNCHANGED contextVars
  <2>1. /\ UNCHANGED <<memory, worker, activeTurn>> /\ used' = used /\ UNCHANGED compaction
    BY <1>7 DEF contextVars
  <2>2. /\ OneAtATime' /\ Exchange' /\ Paired(history, pendingToolResultIds)'
        /\ Grows /\ StepsGoOn
    BY <1>0, <2>1, MemoryKeepsRequests
  <2>3. Snapshots'
    BY <1>0, <2>1, <2>2, SnapshotsSame
  <2>. QED
    BY <2>2, <2>3 DEF RequestInv
<1>. QED
  BY <1>1, <1>2, <1>3, <1>4, <1>5, <1>6, <1>7 DEF ContextNext

THEOREM RequestInvariant == ContextSpec => []OrderlyInv
<1>1. ContextInit => OrderlyInv
  BY RequestsInitially DEF ContextInit, OrderlyInv
<1>2. NamesInv /\ OrderlyInv /\ [ContextNext]_contextVars => OrderlyInv'
  BY RequestsSurvive
<1>. QED
  BY <1>1, <1>2, NamesInvariant, PTL DEF ContextSpec

\* A client may prompt, edit, compact and cancel whenever it likes, and the process may
\* die at any time: until one of these falls inside an exchange, every request pairs
\* each call with its result and holds all that was appended, and so does the prefix a
\* compaction sends to the model.
THEOREM OrderlyRequestsHold == ContextSpec => []OrderlyRequests
<1>1. NamesInv /\ OrderlyInv => OrderlyRequests
  <2>. SUFFICES ASSUME NamesInv, RequestInv
                PROVE  /\ RequestsWellFormed
                       /\ \A w \in Turns : worker[w].pc = "ready" /\ ~worker[w].aborted =>
                             deferredMessages = << >>
    BY DEF OrderlyInv, OrderlyRequests
  <2>1. ASSUME NEW w \in Turns, worker[w].pc = "ready", ~worker[w].aborted
        PROVE  WellFormed(Project(history)) /\ deferredMessages = << >>
    <3>1. Paired(history, {}) /\ deferredMessages = << >>
      BY <2>1, RestingIsQuiet DEF Resting
    <3>. QED
      BY <3>1, ProjectedPaired DEF NamesInv, ContextTyped
  <2>2. ASSUME NEW c \in Compactions, compactor[c].pc = "generating"
        PROVE  WellFormed(Project(SubSeq(compactor[c].snapshot, 1, compactor[c].count)))
    <3> DEFINE t == compactor[c].snapshot
               n == compactor[c].count
    <3>1. /\ t \in Seq(AnyMessage) /\ Paired(t, {})
          /\ n \in 1..Len(t) /\ CanSplitAfter(t, n)
      BY <2>2 DEF NamesInv, ContextTyped, Compactor, RequestInv, Snapshots, Snapshot
    <3>. HIDE DEF t, n
    <3>2. SubSeq(t, 1, n) \in Seq(AnyMessage) /\ Paired(SubSeq(t, 1, n), {})
      BY <3>1, CutPaired
    <3>3. WellFormed(Project(SubSeq(t, 1, n)))
      BY <3>2, ProjectedPaired
    <3>. QED
      BY <3>3 DEF t, n
  <2>. QED
    BY <2>1, <2>2 DEF RequestsWellFormed
<1>. QED
  BY <1>1, NamesInvariant, RequestInvariant, PTL

=============================================================================
