------------------------- MODULE SnapshotIndexProofs -------------------------
(***************************************************************************)
(* Proofs about SnapshotIndex, for files of any length and content.        *)
(*                                                                         *)
(* A snapshot that can be read has its own rows only, because the lines    *)
(* from snapshotStart on, those of the snapshot that is being counted, all *)
(* have its time or none (CurrentLines), and row_count never exceeds their *)
(* number; StartSnapshot and Finish turn them into an entry (EntryLines).  *)
(* A line without a time that stands inside an entry lacks columns, and    *)
(* makes the whole snapshot unreadable.                                    *)
(*                                                                         *)
(* For files that the simulation wrote, cut or whole, the index is exact   *)
(* (ExactInv, below).                                                      *)
(***************************************************************************)
EXTENDS SnapshotIndex, TLAPS

CurrentLines ==
  /\ \A i \in snapshotStart .. Len(lines) : lines[i].time \in {lastTimestamp, NoTime}
  /\ snapshotStart + rowCount <= Len(lines) + 1
  /\ lastTimestamp # NoTime => rowCount > 0
  /\ lastTimestamp = NoTime => rowCount = 0

EntryLines ==
  \A t \in DOMAIN index : \A i \in LinesOf(t) : lines[i].time \in {t, NoTime}

IndexEntries == [start : Nat \ {0}, count : Nat \ {0}]

IndexInv ==
  /\ IndexTypeOK
  /\ CurrentLines
  /\ EntryLines
  /\ index \in [DOMAIN index -> IndexEntries]

\* What reading a line leaves of the lines read before.
LEMMA ReadLineAppends ==
  ASSUME lines \in Seq(FileLine), NEW line \in FileLine, ReadLine(line)
  PROVE  /\ lines' \in Seq(FileLine)
         /\ Len(lines') = Len(lines) + 1
         /\ \A i \in 1 .. Len(lines) : lines'[i] = lines[i]
         /\ lines'[Len(lines) + 1] = line
         /\ DOMAIN lines = 1 .. Len(lines) /\ DOMAIN lines' = 1 .. Len(lines')
         /\ Len(lines) \in Nat
BY DEF ReadLine

LEMMA IndexInitHolds == IndexInit => IndexInv
BY DEF IndexInit, IndexInv, IndexTypeOK, CurrentLines, EntryLines, LinesOf, IndexEntries

\* The part of the invariant that is about the index.
EntriesHold ==
  /\ index \in [DOMAIN index -> IndexEntries]
  /\ DOMAIN index \subseteq Times
  /\ \A t \in DOMAIN index : index[t].count > 0 /\ LinesOf(t) \subseteq DOMAIN lines
  /\ EntryLines

\* The lines read before are still there.
LinesKept ==
  /\ lines \in Seq(FileLine) /\ lines' \in Seq(FileLine)
  /\ Len(lines) <= Len(lines')
  /\ \A i \in 1 .. Len(lines) : lines'[i] = lines[i]

LEMMA InvEntries == IndexInv => EntriesHold
BY DEF IndexInv, EntriesHold, IndexTypeOK

\* An index that is not touched keeps its entries while further lines are read.
LEMMA EntriesKept ==
  ASSUME EntriesHold, LinesKept, index' = index
  PROVE  EntriesHold'
<1>1. DOMAIN lines = 1 .. Len(lines) /\ DOMAIN lines' = 1 .. Len(lines')
      /\ Len(lines) \in Nat /\ Len(lines') \in Nat
  BY DEF LinesKept
<1>2. \A t \in DOMAIN index : LinesOf(t)' = LinesOf(t)
  BY DEF LinesOf
<1>3. ASSUME NEW t \in DOMAIN index
      PROVE  /\ index[t].count > 0 /\ LinesOf(t) \subseteq DOMAIN lines'
             /\ \A i \in LinesOf(t) : lines'[i].time \in {t, NoTime}
  <2>1. index[t].count > 0 /\ LinesOf(t) \subseteq DOMAIN lines
        /\ \A i \in LinesOf(t) : lines[i].time \in {t, NoTime}
    BY DEF EntriesHold, EntryLines
  <2>2. DOMAIN lines \subseteq DOMAIN lines' /\ \A i \in DOMAIN lines : lines'[i] = lines[i]
    BY <1>1 DEF LinesKept
  <2> QED BY <2>1, <2>2
<1> QED BY <1>2, <1>3 DEF EntriesHold, EntryLines

\* The current snapshot, stored in the index, is a good entry.
LEMMA EntryStored ==
  ASSUME IndexInv, LinesKept, rowCount > 0,
         index' = Indexed(lastTimestamp, Entry(snapshotStart, rowCount))
  PROVE  EntriesHold'
<1> DEFINE current == snapshotStart .. snapshotStart + rowCount - 1
<1>1. /\ DOMAIN lines = 1 .. Len(lines) /\ DOMAIN lines' = 1 .. Len(lines')
      /\ Len(lines) \in Nat /\ Len(lines') \in Nat
  BY DEF LinesKept
<1>2. /\ snapshotStart \in Nat \ {0} /\ rowCount \in Nat \ {0}
      /\ lastTimestamp \in Times
      /\ snapshotStart + rowCount <= Len(lines) + 1
  BY <1>1 DEF IndexInv, IndexTypeOK, CurrentLines
<1>3. /\ DOMAIN index' = DOMAIN index \cup {lastTimestamp}
      /\ index'[lastTimestamp] = Entry(snapshotStart, rowCount)
      /\ \A t \in DOMAIN index \ {lastTimestamp} : index'[t] = index[t]
  BY DEF Indexed
<1>4. Entry(snapshotStart, rowCount) \in IndexEntries
  BY <1>2 DEF Entry, IndexEntries
<1>5. index' \in [DOMAIN index' -> IndexEntries]
  <2>1. \A t \in DOMAIN index' : index'[t] \in IndexEntries
    BY <1>3, <1>4 DEF IndexInv
  <2>2. index' = [t \in DOMAIN index \cup {lastTimestamp} |->
                   IF t = lastTimestamp THEN Entry(snapshotStart, rowCount) ELSE index[t]]
    BY DEF Indexed
  <2> QED BY <2>1, <2>2
<1>6. DOMAIN lines \subseteq DOMAIN lines' /\ \A i \in DOMAIN lines : lines'[i] = lines[i]
  BY <1>1 DEF LinesKept
<1>7. current \subseteq DOMAIN lines /\ \A i \in current : lines[i].time \in {lastTimestamp, NoTime}
  BY <1>1, <1>2 DEF IndexInv, CurrentLines
<1>8. ASSUME NEW t \in DOMAIN index'
      PROVE  /\ index'[t].count > 0 /\ LinesOf(t)' \subseteq DOMAIN lines'
             /\ \A i \in LinesOf(t)' : lines'[i].time \in {t, NoTime}
  <2>1. CASE t = lastTimestamp
    <3>1. LinesOf(t)' = current /\ index'[t].count = rowCount
      BY <1>3, <2>1 DEF LinesOf, Entry
    <3> QED BY <1>2, <1>6, <1>7, <2>1, <3>1
  <2>2. CASE t # lastTimestamp
    <3>1. t \in DOMAIN index /\ index'[t] = index[t]
      BY <1>3, <2>2
    <3>2. LinesOf(t)' = LinesOf(t)
      BY <3>1 DEF LinesOf
    <3>3. index[t].count > 0 /\ LinesOf(t) \subseteq DOMAIN lines
          /\ \A i \in LinesOf(t) : lines[i].time \in {t, NoTime}
      BY <3>1 DEF IndexInv, IndexTypeOK, EntryLines
    <3> QED BY <1>6, <3>1, <3>2, <3>3
  <2> QED BY <2>1, <2>2
<1> QED BY <1>2, <1>3, <1>5, <1>8 DEF EntriesHold, EntryLines, IndexInv, IndexTypeOK

\* The part of the invariant that is about the current snapshot.
CurrentHolds ==
  /\ lines \in Seq(FileLine)
  /\ lastTimestamp \in Times \cup {NoTime}
  /\ snapshotStart \in 1 .. Len(lines) + 1 /\ rowCount \in 0 .. Len(lines)
  /\ outcome \in {"indexing", "indexed", "failed"}
  /\ CurrentLines

LEMMA InvParts == IndexInv <=> CurrentHolds /\ EntriesHold
BY DEF IndexInv, CurrentHolds, EntriesHold, IndexTypeOK

LEMMA ReadLineKeeps ==
  ASSUME lines \in Seq(FileLine), NEW line \in FileLine, ReadLine(line)
  PROVE  LinesKept
BY ReadLineAppends DEF LinesKept

LEMMA SkipLineHolds == ASSUME IndexInv, SkipLine PROVE IndexInv'
<1>1. PICK columns \in BOOLEAN : ReadLine([time |-> NoTime, columns |-> columns])
  BY DEF SkipLine
<1> DEFINE line == [time |-> NoTime, columns |-> columns]
<1>2. line \in FileLine /\ line.time = NoTime /\ lines \in Seq(FileLine)
  BY DEF FileLine, IndexInv, IndexTypeOK
<1>3. UNCHANGED <<lastTimestamp, snapshotStart, rowCount, index, outcome>>
  BY <1>1 DEF SkipLine, ReadLine
<1>4. LinesKept /\ EntriesHold
  BY <1>1, <1>2, ReadLineKeeps, InvEntries
<1>5. EntriesHold'
  BY <1>3, <1>4, EntriesKept
<1>6. /\ lines' \in Seq(FileLine) /\ Len(lines') = Len(lines) + 1 /\ Len(lines) \in Nat
      /\ \A i \in 1 .. Len(lines) : lines'[i] = lines[i]
      /\ lines'[Len(lines) + 1] = line
  BY <1>1, <1>2, ReadLineAppends
<1> HIDE DEF line
<1>7. CurrentHolds'
  BY <1>2, <1>3, <1>6 DEF IndexInv, IndexTypeOK, CurrentLines, CurrentHolds
<1> QED BY <1>5, <1>7, InvParts, PTL

LEMMA CountRowHolds == ASSUME IndexInv, CountRow PROVE IndexInv'
<1>1. PICK t \in Times, columns \in BOOLEAN :
        /\ lastTimestamp \in {t, NoTime}
        /\ ReadLine([time |-> t, columns |-> columns])
        /\ lastTimestamp' = t /\ rowCount' = rowCount + 1
        /\ UNCHANGED <<snapshotStart, index>>
  BY DEF CountRow
<1> DEFINE line == [time |-> t, columns |-> columns]
<1>2. line \in FileLine /\ line.time = t /\ lines \in Seq(FileLine) /\ t # NoTime
  BY IndexAssumption DEF FileLine, IndexInv, IndexTypeOK
<1>3. UNCHANGED <<snapshotStart, index, outcome>>
  BY <1>1 DEF ReadLine
<1>4. LinesKept /\ EntriesHold
  BY <1>1, <1>2, ReadLineKeeps, InvEntries
<1>5. EntriesHold'
  BY <1>3, <1>4, EntriesKept
<1>6. /\ lines' \in Seq(FileLine) /\ Len(lines') = Len(lines) + 1 /\ Len(lines) \in Nat
      /\ \A i \in 1 .. Len(lines) : lines'[i] = lines[i]
      /\ lines'[Len(lines) + 1] = line
  BY <1>1, <1>2, ReadLineAppends
<1> HIDE DEF line
<1>7. CurrentHolds'
  BY <1>1, <1>2, <1>3, <1>6 DEF IndexInv, IndexTypeOK, CurrentLines, CurrentHolds
<1> QED BY <1>5, <1>7, InvParts, PTL

LEMMA StartSnapshotHolds == ASSUME IndexInv, StartSnapshot PROVE IndexInv'
<1>1. PICK t \in Times \ {lastTimestamp}, columns \in BOOLEAN :
        /\ lastTimestamp # NoTime
        /\ ReadLine([time |-> t, columns |-> columns])
        /\ index' = Indexed(lastTimestamp, Entry(snapshotStart, rowCount))
        /\ lastTimestamp' = t /\ snapshotStart' = Len(lines) + 1 /\ rowCount' = 1
  BY DEF StartSnapshot
<1> DEFINE line == [time |-> t, columns |-> columns]
<1>2. line \in FileLine /\ line.time = t /\ lines \in Seq(FileLine) /\ t # NoTime
  BY IndexAssumption DEF FileLine, IndexInv, IndexTypeOK
<1>3. UNCHANGED outcome
  BY <1>1 DEF ReadLine
<1>4. LinesKept /\ rowCount > 0
  BY <1>1, <1>2, ReadLineKeeps DEF IndexInv, CurrentLines
<1>5. EntriesHold'
  BY <1>1, <1>4, EntryStored
<1>6. /\ lines' \in Seq(FileLine) /\ Len(lines') = Len(lines) + 1 /\ Len(lines) \in Nat
      /\ lines'[Len(lines) + 1] = line
  BY <1>1, <1>2, ReadLineAppends
<1> HIDE DEF line
<1>7. CurrentHolds'
  BY <1>1, <1>2, <1>3, <1>6 DEF IndexInv, IndexTypeOK, CurrentLines, CurrentHolds
<1> QED BY <1>5, <1>7, InvParts, PTL

LEMMA FinishHolds == ASSUME IndexInv, Finish \/ FinishHeaderOnly PROVE IndexInv'
<1>1. /\ UNCHANGED <<lines, lastTimestamp, snapshotStart, rowCount>>
      /\ outcome' \in {"indexing", "indexed", "failed"}
      /\ \/ index' = index
         \/ rowCount > 0 /\ index' = Indexed(lastTimestamp, Entry(snapshotStart, rowCount))
  BY DEF Finish, FinishHeaderOnly
<1>2. LinesKept /\ EntriesHold
  BY <1>1, InvEntries DEF LinesKept, IndexInv, IndexTypeOK
<1>3. EntriesHold'
  BY <1>1, <1>2, EntriesKept, EntryStored
<1>4. CurrentHolds'
  BY <1>1 DEF IndexInv, IndexTypeOK, CurrentLines, CurrentHolds
<1> QED BY <1>3, <1>4, InvParts, PTL

LEMMA IndexInvInductive == IndexInv /\ [IndexNext]_indexVars => IndexInv'
<1> SUFFICES ASSUME IndexInv, [IndexNext]_indexVars PROVE IndexInv'
  OBVIOUS
<1>1. CASE UNCHANGED indexVars
  BY <1>1 DEF indexVars, IndexInv, IndexTypeOK, CurrentLines, EntryLines, LinesOf
<1>2. CASE IndexBuilt
  BY <1>1, <1>2 DEF IndexBuilt
<1> QED
  BY <1>1, <1>2, SkipLineHolds, CountRowHolds, StartSnapshotHolds, FinishHolds DEF IndexNext

THEOREM IndexInvariant == IndexSpec => []IndexInv
BY IndexInitHolds, IndexInvInductive, PTL DEF IndexSpec

\* Every entry of the index lies inside the file, whatever the file holds.
THEOREM IndexTypeCorrect == IndexSpec => []IndexTypeOK
<1>1. IndexInv => IndexTypeOK
  BY DEF IndexInv
<1> QED BY <1>1, IndexInvariant, PTL

\* Unless the time of a whole row cannot be read, a snapshot that is returned
\* has rows of its time only, however the file was mangled.
THEOREM IndexSnapshotHasItsTime == IndexSpec => []SnapshotHasItsTime
<1>1. IndexInv => SnapshotHasItsTime
  BY DEF IndexInv, IndexTypeOK, EntryLines, SnapshotHasItsTime, Readable, RowsOf
<1> QED BY <1>1, IndexInvariant, PTL

-----------------------------------------------------------------------------
(* Files that the simulation wrote.  While only whole rows in the order of *)
(* their times have been read, the index holds every snapshot but the one  *)
(* that is being counted, each with its rows (WholeSnapshots).  One more   *)
(* line, whatever it holds, changes the entries of two times at most: the  *)
(* one before it and the one it seems to have (EarlierKept).               *)

Written == WrittenUpTo(Len(lines))

WholeSnapshots ==
  outcome = "indexing" /\ Written =>
    /\ snapshotStart + rowCount = Len(lines) + 1
    /\ lines # <<>> => lastTimestamp = lines[Len(lines)].time
    /\ \A i \in 1 .. snapshotStart - 1 : lines[i].time < lastTimestamp
    /\ DOMAIN index = {lines[i].time : i \in 1 .. snapshotStart - 1}
    /\ \A t \in DOMAIN index : LinesOf(t) = RowsOf(t)

Torn == Len(lines) > 1 /\ WrittenUpTo(Len(lines) - 1)

TornTimes == {lines[Len(lines) - 1].time, lines[Len(lines)].time}

EarlierKept ==
  Torn =>
    /\ lastTimestamp \in TornTimes
    /\ \A t \in Times \ TornTimes :
         RowsOf(t) # {} => t \in DOMAIN index /\ LinesOf(t) = RowsOf(t)

ExactInv == IndexInv /\ WholeSnapshots /\ EarlierKept /\ WrittenFileReadBack

LEMMA ExactInitHolds == IndexInit => ExactInv
<1> SUFFICES ASSUME IndexInit
             PROVE  ExactInv
  OBVIOUS
<1>1. lines = <<>> /\ Len(lines) = 0 /\ outcome = "indexing" /\ DOMAIN index = {}
      /\ snapshotStart = 1 /\ rowCount = 0
  BY DEF IndexInit
<1>2. WholeSnapshots
  BY <1>1 DEF WholeSnapshots
<1>3. EarlierKept
  BY <1>1 DEF EarlierKept, Torn
<1>4. WrittenFileReadBack
  BY <1>1 DEF WrittenFileReadBack
<1>5. QED
  BY <1>2, <1>3, <1>4, IndexInitHolds DEF ExactInv

\* What a line adds to the rows of the times.
LEMMA RowsGrow ==
  ASSUME lines \in Seq(FileLine), NEW line \in FileLine, ReadLine(line)
  PROVE  /\ \A u \in Times : u # line.time => RowsOf(u)' = RowsOf(u)
         /\ Torn' => lines # <<>> /\ Written
                     /\ TornTimes' = {lines[Len(lines)].time, line.time}
         /\ Written' => /\ Written /\ line.time \in Times
                        /\ \A i \in DOMAIN lines : lines[i].time <= line.time
<1>1. /\ lines' \in Seq(FileLine) /\ Len(lines') = Len(lines) + 1 /\ Len(lines) \in Nat
      /\ \A i \in 1 .. Len(lines) : lines'[i] = lines[i]
      /\ lines'[Len(lines) + 1] = line
      /\ DOMAIN lines = 1 .. Len(lines) /\ DOMAIN lines' = 1 .. Len(lines) + 1
  BY ReadLineAppends
<1>2. ASSUME NEW u \in Times, u # line.time
      PROVE  RowsOf(u)' = RowsOf(u)
  <2>1. \A i \in DOMAIN lines' : lines'[i].time = u <=> i \in DOMAIN lines /\ lines[i].time = u
    BY <1>1, <1>2
  <2>2. DOMAIN lines \subseteq DOMAIN lines'
    BY <1>1
  <2>3. QED
    BY <2>1, <2>2 DEF RowsOf
<1>3. ASSUME NEW n \in Nat, n <= Len(lines)
      PROVE  WrittenUpTo(n)' <=> WrittenUpTo(n)
  <2>1. \A i \in 1 .. n : lines'[i] = lines[i]
    BY <1>1, <1>3
  <2>2. QED
    BY <2>1 DEF WrittenUpTo
<1>4. ASSUME Torn'
      PROVE  lines # <<>> /\ Written /\ TornTimes' = {lines[Len(lines)].time, line.time}
  <2>1. Len(lines') - 1 = Len(lines) /\ Len(lines) > 0 /\ Len(lines) \in 1 .. Len(lines)
    BY <1>1, <1>4 DEF Torn
  <2>2. \A i \in 1 .. Len(lines) : lines'[i].time # NoTime /\ lines'[i].columns
    BY <1>4, <2>1 DEF Torn, WrittenUpTo
  <2>3. \A i, j \in 1 .. Len(lines) : i < j => lines'[i].time <= lines'[j].time
    BY <1>4, <2>1 DEF Torn, WrittenUpTo
  <2>4. Written
    BY <1>1, <2>2, <2>3 DEF Written, WrittenUpTo
  <2>5. QED
    BY <1>1, <2>1, <2>4 DEF TornTimes
<1>5. ASSUME Written'
      PROVE  Written /\ line.time \in Times /\ \A i \in DOMAIN lines : lines[i].time <= line.time
  <2>1. \A i \in 1 .. Len(lines) + 1 : lines'[i].time # NoTime /\ lines'[i].columns
    BY <1>1, <1>5 DEF Written, WrittenUpTo
  <2>2. \A i, j \in 1 .. Len(lines) + 1 : i < j => lines'[i].time <= lines'[j].time
    BY <1>1, <1>5 DEF Written, WrittenUpTo
  <2>3. Written
    BY <1>1, <2>1, <2>2 DEF Written, WrittenUpTo
  <2>4. line.time # NoTime
    BY <1>1, <2>1
  <2>5. line.time \in Times
    BY <2>4 DEF FileLine
  <2>6. \A i \in DOMAIN lines : lines[i].time <= line.time
    BY <1>1, <2>2
  <2>7. QED
    BY <2>3, <2>5, <2>6
<1>6. QED
  BY <1>2, <1>4, <1>5

\* The lines of a file as written, sorted by what has become of them.
LEMMA WhatIsIndexed ==
  ASSUME IndexInv, WholeSnapshots, outcome = "indexing", Written
  PROVE  /\ lines = <<>> => lastTimestamp = NoTime /\ DOMAIN index = {} /\ snapshotStart = 1
         /\ lines # <<>> =>
              /\ lastTimestamp \in Times /\ lastTimestamp = lines[Len(lines)].time
              /\ rowCount > 0
              /\ RowsOf(lastTimestamp) = snapshotStart .. snapshotStart + rowCount - 1
              /\ {lines[i].time : i \in DOMAIN lines} = DOMAIN index \cup {lastTimestamp}
         /\ \A u \in DOMAIN index : u < lastTimestamp /\ LinesOf(u) = RowsOf(u)
         /\ \A u \in Times \ {lastTimestamp} : RowsOf(u) # {} => u \in DOMAIN index
<1>1. /\ Len(lines) \in Nat /\ DOMAIN lines = 1 .. Len(lines)
      /\ \A i \in DOMAIN lines : lines[i] \in FileLine
      /\ snapshotStart \in Nat \ {0} /\ rowCount \in Nat
      /\ lastTimestamp \in Times \cup {NoTime}
  BY DEF IndexInv, IndexTypeOK
<1>2. /\ snapshotStart + rowCount = Len(lines) + 1
      /\ lines # <<>> => lastTimestamp = lines[Len(lines)].time
      /\ \A i \in 1 .. snapshotStart - 1 : lines[i].time < lastTimestamp
      /\ DOMAIN index = {lines[i].time : i \in 1 .. snapshotStart - 1}
      /\ \A t \in DOMAIN index : LinesOf(t) = RowsOf(t)
  BY DEF WholeSnapshots
<1>3. \A i \in DOMAIN lines : lines[i].time \in Times
  BY <1>1 DEF Written, WrittenUpTo, FileLine
<1>4. \A i \in snapshotStart .. Len(lines) : lines[i].time = lastTimestamp
  <2>1. \A i \in snapshotStart .. Len(lines) : i \in DOMAIN lines /\ lines[i].time # NoTime
    BY <1>1 DEF Written, WrittenUpTo
  <2>2. QED
    BY <2>1 DEF IndexInv, CurrentLines
<1>5. \A i \in DOMAIN lines : i \in 1 .. snapshotStart - 1 \/ i \in snapshotStart .. Len(lines)
  BY <1>1
<1>6. \A u \in DOMAIN index : u < lastTimestamp
  BY <1>2
<1>7. ASSUME NEW u \in Times \ {lastTimestamp}, RowsOf(u) # {}
      PROVE  u \in DOMAIN index
  <2>1. PICK i \in DOMAIN lines : lines[i].time = u
    BY <1>7 DEF RowsOf
  <2>2. i \in 1 .. snapshotStart - 1
    BY <1>4, <1>5, <1>7, <2>1
  <2>3. QED
    BY <1>2, <2>1, <2>2
<1>8. ASSUME lines = <<>>
      PROVE  lastTimestamp = NoTime /\ DOMAIN index = {} /\ snapshotStart = 1
  <2>1. Len(lines) = 0
    BY <1>8
  <2>2. snapshotStart = 1 /\ rowCount = 0
    BY <1>1, <1>2, <2>1
  <2>3. 1 .. snapshotStart - 1 = {}
    BY <2>2
  <2>4. QED
    BY <1>2, <2>2, <2>3 DEF IndexInv, CurrentLines
<1>9. ASSUME lines # <<>>
      PROVE  /\ lastTimestamp \in Times /\ lastTimestamp = lines[Len(lines)].time
             /\ rowCount > 0
             /\ RowsOf(lastTimestamp) = snapshotStart .. snapshotStart + rowCount - 1
             /\ {lines[i].time : i \in DOMAIN lines} = DOMAIN index \cup {lastTimestamp}
  <2>1. Len(lines) \in DOMAIN lines
    <3>1. lines \in Seq(FileLine)
      BY DEF IndexInv, IndexTypeOK
    <3>2. Len(lines) # 0
      BY <1>9, <3>1
    <3>3. QED
      BY <1>1, <3>2
  <2>2. lastTimestamp \in Times /\ lastTimestamp = lines[Len(lines)].time
    BY <1>2, <1>3, <1>9, <2>1
  <2>3. rowCount > 0
    BY <2>2, IndexAssumption DEF IndexInv, CurrentLines
  <2>4. snapshotStart .. snapshotStart + rowCount - 1 = snapshotStart .. Len(lines)
    BY <1>1, <1>2
  <2>5. \A i \in 1 .. snapshotStart - 1 : lines[i].time # lastTimestamp
    <3>1. lastTimestamp \in Nat
      BY <2>2, IndexAssumption
    <3>2. QED
      BY <1>2, <3>1
  <2>6. RowsOf(lastTimestamp) = snapshotStart .. Len(lines)
    <3>1. snapshotStart .. Len(lines) \subseteq DOMAIN lines
      BY <1>1
    <3>2. QED
      BY <1>4, <1>5, <2>5, <3>1 DEF RowsOf
  <2>7. 1 .. snapshotStart - 1 \subseteq DOMAIN lines /\ snapshotStart \in snapshotStart .. Len(lines)
        /\ snapshotStart \in DOMAIN lines
    BY <1>1, <1>2, <2>3
  <2>8. {lines[i].time : i \in DOMAIN lines} = DOMAIN index \cup {lastTimestamp}
    BY <1>2, <1>4, <1>5, <2>7
  <2>9. QED
    BY <2>2, <2>3, <2>4, <2>6, <2>8
<1>10. QED
  BY <1>2, <1>6, <1>7, <1>8, <1>9

\* A line disturbs only the snapshot before it and the one it seems to be of.
LEMMA KeptReading ==
  ASSUME IndexInv, WholeSnapshots, NEW line \in FileLine, ReadLine(line),
         lastTimestamp' \in {lastTimestamp, line.time},
         \A u \in DOMAIN index \ {lastTimestamp} : u \in DOMAIN index' /\ index'[u] = index[u]
  PROVE  EarlierKept'
<1> SUFFICES ASSUME Torn'
             PROVE  /\ lastTimestamp' \in TornTimes'
                    /\ \A t \in Times \ TornTimes' :
                         RowsOf(t)' # {} => t \in DOMAIN index' /\ LinesOf(t)' = RowsOf(t)'
  BY DEF EarlierKept
<1>1. lines \in Seq(FileLine) /\ outcome = "indexing"
  BY DEF IndexInv, IndexTypeOK, ReadLine
<1>2. lines # <<>> /\ Written /\ TornTimes' = {lines[Len(lines)].time, line.time}
  BY <1>1, RowsGrow
<1>3. lastTimestamp = lines[Len(lines)].time
  BY <1>1, <1>2, WhatIsIndexed
<1>4. ASSUME NEW t \in Times \ TornTimes', RowsOf(t)' # {}
      PROVE  t \in DOMAIN index' /\ LinesOf(t)' = RowsOf(t)'
  <2>1. t # line.time /\ t # lastTimestamp
    BY <1>2, <1>3, <1>4
  <2>2. RowsOf(t)' = RowsOf(t)
    BY <1>1, <2>1, RowsGrow
  <2>3. t \in DOMAIN index /\ LinesOf(t) = RowsOf(t)
    BY <1>1, <1>2, <1>4, <2>1, <2>2, WhatIsIndexed
  <2>4. QED
    BY <2>1, <2>2, <2>3 DEF LinesOf
<1>5. QED
  BY <1>2, <1>3, <1>4

LEMMA SkipLineExact == ASSUME ExactInv, SkipLine PROVE ExactInv'
<1>1. PICK columns \in BOOLEAN : ReadLine([time |-> NoTime, columns |-> columns])
  BY DEF SkipLine
<1>2. PICK line : line = [time |-> NoTime, columns |-> columns]
  OBVIOUS
<1>3. line \in FileLine /\ line.time = NoTime /\ ReadLine(line) /\ lines \in Seq(FileLine)
  BY <1>1, <1>2 DEF FileLine, ExactInv, IndexInv, IndexTypeOK
<1>4. UNCHANGED <<lastTimestamp, index, outcome>> /\ outcome = "indexing"
  BY <1>1 DEF SkipLine, ReadLine
<1>5. ~Written'
  BY <1>3, RowsGrow, IndexAssumption
<1>6. EarlierKept'
  BY <1>3, <1>4, KeptReading DEF ExactInv
<1>7. WholeSnapshots' /\ WrittenFileReadBack'
  BY <1>4, <1>5 DEF WholeSnapshots, WrittenFileReadBack, Written
<1>8. QED
  BY <1>6, <1>7, SkipLineHolds DEF ExactInv

LEMMA CountRowExact == ASSUME ExactInv, CountRow PROVE ExactInv'
<1>1. PICK t \in Times, columns \in BOOLEAN :
        /\ lastTimestamp \in {t, NoTime}
        /\ ReadLine([time |-> t, columns |-> columns])
        /\ lastTimestamp' = t /\ rowCount' = rowCount + 1
        /\ UNCHANGED <<snapshotStart, index>>
  BY DEF CountRow
<1>2. PICK line : line = [time |-> t, columns |-> columns]
  OBVIOUS
<1>3. line \in FileLine /\ line.time = t /\ ReadLine(line) /\ lines \in Seq(FileLine)
  BY <1>1, <1>2 DEF FileLine, ExactInv, IndexInv, IndexTypeOK
<1>4. /\ Len(lines') = Len(lines) + 1 /\ Len(lines) \in Nat
      /\ \A i \in 1 .. Len(lines) : lines'[i] = lines[i]
      /\ lines'[Len(lines) + 1] = line
      /\ snapshotStart \in 1 .. Len(lines) + 1 /\ rowCount \in Nat
  BY <1>3, ReadLineAppends DEF ExactInv, IndexInv, IndexTypeOK
<1>5. UNCHANGED <<snapshotStart, index, outcome>> /\ outcome = "indexing"
  BY <1>1 DEF ReadLine
<1>6. EarlierKept'
  BY <1>1, <1>3, <1>5, KeptReading DEF ExactInv
<1>7. WrittenFileReadBack'
  BY <1>5 DEF WrittenFileReadBack
<1>8. ASSUME Written'
      PROVE  /\ snapshotStart + rowCount' = Len(lines') + 1
             /\ \A i \in 1 .. snapshotStart - 1 : lines'[i].time < t
             /\ DOMAIN index = {lines'[i].time : i \in 1 .. snapshotStart - 1}
             /\ \A u \in DOMAIN index : LinesOf(u)' = RowsOf(u)'
  <2>1. Written
    BY <1>3, <1>8, RowsGrow
  <2>2. /\ snapshotStart + rowCount = Len(lines) + 1
        /\ \A i \in 1 .. snapshotStart - 1 : lines[i].time < lastTimestamp
        /\ DOMAIN index = {lines[i].time : i \in 1 .. snapshotStart - 1}
    BY <1>5, <2>1 DEF ExactInv, WholeSnapshots
  <2>3. \A i \in 1 .. snapshotStart - 1 : lines'[i] = lines[i]
    BY <1>4
  <2>4. lastTimestamp = t \/ (snapshotStart = 1 /\ DOMAIN index = {})
    <3>1. /\ lines = <<>> => snapshotStart = 1 /\ DOMAIN index = {}
          /\ lines # <<>> => lastTimestamp \in Times
      BY <1>5, <2>1, WhatIsIndexed DEF ExactInv
    <3>2. CASE lines = <<>>
      BY <3>1, <3>2
    <3>3. CASE lines # <<>>
      <4>1. lastTimestamp \in Times
        BY <3>1, <3>3
      <4>2. lastTimestamp = t \/ lastTimestamp \notin Times
        BY <1>1, IndexAssumption
      <4>3. QED
        BY <4>1, <4>2
    <3>4. QED
      BY <3>2, <3>3
  <2>5. \A i \in 1 .. snapshotStart - 1 : lines'[i].time < t
    BY <2>2, <2>3, <2>4
  <2>6. ASSUME NEW u \in DOMAIN index
        PROVE  LinesOf(u)' = RowsOf(u)'
    <3>1. u < t /\ LinesOf(u) = RowsOf(u) /\ u \in Times
      BY <1>5, <2>1, <2>4, WhatIsIndexed DEF ExactInv, IndexInv, IndexTypeOK
    <3>2. u # line.time
      BY <1>3, <3>1, IndexAssumption
    <3>3. RowsOf(u)' = RowsOf(u)
      BY <1>3, <3>1, <3>2, RowsGrow
    <3>4. QED
      BY <1>5, <3>1, <3>3 DEF LinesOf
  <2>7. QED
    BY <1>1, <1>4, <2>2, <2>3, <2>5, <2>6
<1>9. lines'[Len(lines')].time = t
  BY <1>3, <1>4
<1>10. WholeSnapshots'
  BY <1>1, <1>5, <1>8, <1>9 DEF WholeSnapshots
<1>11. QED
  BY <1>6, <1>7, <1>10, CountRowHolds DEF ExactInv

\* The snapshot that was counted, stored, has all of its rows.
LEMMA StoredExactly ==
  ASSUME IndexInv, WholeSnapshots, outcome = "indexing", Written, lines # <<>>,
         index' = Indexed(lastTimestamp, Entry(snapshotStart, rowCount))
  PROVE  /\ DOMAIN index' = {lines[i].time : i \in DOMAIN lines}
         /\ \A u \in DOMAIN index' : LinesOf(u)' = RowsOf(u)
<1>1. /\ RowsOf(lastTimestamp) = snapshotStart .. snapshotStart + rowCount - 1
      /\ {lines[i].time : i \in DOMAIN lines} = DOMAIN index \cup {lastTimestamp}
      /\ \A u \in DOMAIN index : LinesOf(u) = RowsOf(u)
  BY WhatIsIndexed
<1>2. /\ DOMAIN index' = DOMAIN index \cup {lastTimestamp}
      /\ index'[lastTimestamp] = Entry(snapshotStart, rowCount)
      /\ \A u \in DOMAIN index \ {lastTimestamp} : index'[u] = index[u]
  BY DEF Indexed
<1>3. ASSUME NEW u \in DOMAIN index'
      PROVE  LinesOf(u)' = RowsOf(u)
  <2>1. CASE u = lastTimestamp
    <3>1. index'[u].start = snapshotStart /\ index'[u].count = rowCount
      BY <1>2, <2>1 DEF Entry
    <3>2. RowsOf(u) = snapshotStart .. snapshotStart + rowCount - 1
      BY <1>1, <2>1
    <3>3. QED
      BY <3>1, <3>2 DEF LinesOf
  <2>2. CASE u # lastTimestamp
    <3>1. u \in DOMAIN index /\ index'[u] = index[u]
      BY <1>2, <2>2
    <3>2. LinesOf(u) = RowsOf(u)
      BY <1>1, <3>1
    <3>3. QED
      BY <3>1, <3>2 DEF LinesOf
  <2>3. QED
    BY <2>1, <2>2
<1>4. QED
  BY <1>1, <1>2, <1>3

LEMMA StartSnapshotExact == ASSUME ExactInv, StartSnapshot PROVE ExactInv'
<1>1. PICK t \in Times \ {lastTimestamp}, columns \in BOOLEAN :
        /\ lastTimestamp # NoTime
        /\ ReadLine([time |-> t, columns |-> columns])
        /\ index' = Indexed(lastTimestamp, Entry(snapshotStart, rowCount))
        /\ lastTimestamp' = t /\ snapshotStart' = Len(lines) + 1 /\ rowCount' = 1
  BY DEF StartSnapshot
<1>2. PICK line : line = [time |-> t, columns |-> columns]
  OBVIOUS
<1>3. line \in FileLine /\ line.time = t /\ ReadLine(line) /\ lines \in Seq(FileLine)
  BY <1>1, <1>2 DEF FileLine, ExactInv, IndexInv, IndexTypeOK
<1>4. /\ Len(lines') = Len(lines) + 1 /\ Len(lines) \in Nat
      /\ \A i \in 1 .. Len(lines) : lines'[i] = lines[i]
      /\ lines'[Len(lines) + 1] = line
      /\ DOMAIN lines = 1 .. Len(lines)
  BY <1>3, ReadLineAppends
<1>5. UNCHANGED outcome /\ outcome = "indexing"
  BY <1>1 DEF ReadLine
<1>6. \A u \in DOMAIN index \ {lastTimestamp} : u \in DOMAIN index' /\ index'[u] = index[u]
  BY <1>1 DEF Indexed
<1>7. EarlierKept'
  BY <1>1, <1>3, <1>6, KeptReading DEF ExactInv
<1>8. WrittenFileReadBack'
  BY <1>5 DEF WrittenFileReadBack
<1>9. ASSUME Written'
      PROVE  /\ \A i \in 1 .. Len(lines) : lines'[i].time < t
             /\ DOMAIN index' = {lines'[i].time : i \in 1 .. Len(lines)}
             /\ \A u \in DOMAIN index' : LinesOf(u)' = RowsOf(u)'
  <2>1. Written /\ \A i \in DOMAIN lines : lines[i].time <= t
    BY <1>3, <1>9, RowsGrow
  <2>2. /\ lines = <<>> => lastTimestamp = NoTime
        /\ lines # <<>> => {lines[i].time : i \in DOMAIN lines} = DOMAIN index \cup {lastTimestamp}
        /\ lines # <<>> => lastTimestamp = lines[Len(lines)].time
        /\ \A u \in DOMAIN index : u < lastTimestamp
        /\ DOMAIN index \subseteq Times /\ lastTimestamp \in Times
    BY <1>1, <1>5, <2>1, WhatIsIndexed DEF ExactInv, IndexInv, IndexTypeOK
  <2>3. lines # <<>>
    BY <1>1, <2>2
  <2>4. Len(lines) \in DOMAIN lines
    <3>1. Len(lines) # 0
      BY <1>3, <2>3
    <3>2. QED
      BY <1>4, <3>1
  <2>5. lastTimestamp < t
    <3>1. lastTimestamp <= t
      BY <2>1, <2>2, <2>3, <2>4
    <3>2. QED
      BY <1>1, <2>2, <3>1, IndexAssumption
  <2>6. \A u \in DOMAIN index \cup {lastTimestamp} : u < t /\ u \in Times
    <3>1. \A u \in Times : u \in Nat
      BY IndexAssumption
    <3>2. \A u \in DOMAIN index : u < t /\ u \in Times
      BY <1>1, <2>2, <2>5, <3>1
    <3>3. QED
      BY <2>2, <2>5, <3>2
  <2>7. DOMAIN index' = {lines[i].time : i \in DOMAIN lines}
        /\ \A u \in DOMAIN index' : LinesOf(u)' = RowsOf(u)
    BY <1>1, <1>5, <2>1, <2>3, StoredExactly DEF ExactInv
  <2>8. \A i \in 1 .. Len(lines) : lines'[i].time < t
    BY <1>4, <2>2, <2>3, <2>6
  <2>9. {lines[i].time : i \in DOMAIN lines} = {lines'[i].time : i \in 1 .. Len(lines)}
    BY <1>4
  <2>10. ASSUME NEW u \in DOMAIN index'
         PROVE  LinesOf(u)' = RowsOf(u)'
    <3>1. u < t /\ u \in Times
      BY <2>2, <2>3, <2>6, <2>7
    <3>2. u # line.time
      BY <1>3, <3>1, IndexAssumption
    <3>3. RowsOf(u)' = RowsOf(u)
      BY <1>3, <3>1, <3>2, RowsGrow
    <3>4. QED
      BY <2>7, <3>3
  <2>11. QED
    BY <2>7, <2>8, <2>9, <2>10
<1>10. lines'[Len(lines')].time = t
  BY <1>3, <1>4
<1>11. WholeSnapshots'
  <2>1. 1 .. snapshotStart' - 1 = 1 .. Len(lines) /\ snapshotStart' + rowCount' = Len(lines') + 1
    BY <1>1, <1>4
  <2>2. QED
    BY <1>1, <1>9, <1>10, <2>1 DEF WholeSnapshots
<1>12. QED
  BY <1>7, <1>8, <1>11, StartSnapshotHolds DEF ExactInv

LEMMA FinishExact == ASSUME ExactInv, Finish \/ FinishHeaderOnly PROVE ExactInv'
<1>1. /\ UNCHANGED <<lines, lastTimestamp, snapshotStart, rowCount>>
      /\ outcome = "indexing" /\ outcome' # "indexing"
      /\ \/ index' = index /\ (rowCount = 0 \/ lines = <<>>)
         \/ rowCount > 0 /\ index' = Indexed(lastTimestamp, Entry(snapshotStart, rowCount))
  <2>1. rowCount \in Nat
    BY DEF ExactInv, IndexInv, IndexTypeOK
  <2>2. QED
    BY <2>1 DEF Finish, FinishHeaderOnly
<1>2. \A u \in DOMAIN index \ {lastTimestamp} : u \in DOMAIN index' /\ index'[u] = index[u]
  BY <1>1 DEF Indexed
<1>3. WholeSnapshots'
  BY <1>1 DEF WholeSnapshots
<1>4. EarlierKept'
  <2> SUFFICES ASSUME Torn
               PROVE  /\ lastTimestamp \in TornTimes
                      /\ \A t \in Times \ TornTimes :
                           RowsOf(t) # {} => t \in DOMAIN index' /\ LinesOf(t)' = RowsOf(t)
    BY <1>1 DEF EarlierKept, Torn, TornTimes, WrittenUpTo, RowsOf
  <2>1. /\ lastTimestamp \in TornTimes
        /\ \A t \in Times \ TornTimes : RowsOf(t) # {} => t \in DOMAIN index /\ LinesOf(t) = RowsOf(t)
    BY DEF ExactInv, EarlierKept
  <2>2. ASSUME NEW t \in Times \ TornTimes, RowsOf(t) # {}
        PROVE  t \in DOMAIN index' /\ LinesOf(t)' = RowsOf(t)
    <3>1. t # lastTimestamp /\ t \in DOMAIN index /\ LinesOf(t) = RowsOf(t)
      BY <2>1, <2>2
    <3>2. t \in DOMAIN index' /\ index'[t] = index[t]
      BY <1>2, <3>1
    <3>3. QED
      BY <3>1, <3>2 DEF LinesOf
  <2>3. QED
    BY <2>1, <2>2
<1>5. WrittenFileReadBack'
  <2> SUFFICES ASSUME Written
               PROVE  /\ DOMAIN index' = {lines[i].time : i \in DOMAIN lines}
                      /\ \A t \in DOMAIN index' : LinesOf(t)' = RowsOf(t)
    BY <1>1 DEF WrittenFileReadBack, Written, WrittenUpTo, RowsOf
  <2>1. /\ lines = <<>> => DOMAIN index = {} /\ lastTimestamp = NoTime
        /\ lines # <<>> => rowCount > 0
    BY <1>1, WhatIsIndexed DEF ExactInv
  <2>2. CASE lines = <<>>
    <3>1. ~(rowCount > 0)
      BY <2>1, <2>2 DEF ExactInv, IndexInv, CurrentLines
    <3>2. index' = index /\ DOMAIN index = {}
      BY <1>1, <2>1, <2>2, <3>1
    <3>3. DOMAIN lines = {}
      BY <2>2
    <3>4. QED
      BY <3>2, <3>3
  <2>3. CASE lines # <<>>
    <3>1. rowCount \in Nat /\ rowCount # 0
      BY <2>1, <2>3 DEF ExactInv, IndexInv, IndexTypeOK
    <3>2. index' = Indexed(lastTimestamp, Entry(snapshotStart, rowCount))
      BY <1>1, <2>3, <3>1
    <3>3. QED
      BY <1>1, <2>3, <3>2, StoredExactly DEF ExactInv
  <2>4. QED
    BY <2>2, <2>3
<1>6. QED
  BY <1>3, <1>4, <1>5, FinishHolds DEF ExactInv

LEMMA ExactUnchanged == ASSUME ExactInv, UNCHANGED indexVars PROVE ExactInv'
<1>1. IndexInv'
  BY IndexInvInductive DEF ExactInv
<1>2. \A t : LinesOf(t)' = LinesOf(t) /\ RowsOf(t)' = RowsOf(t)
  BY DEF indexVars, LinesOf, RowsOf
<1>3. (Written' <=> Written) /\ (Torn' <=> Torn) /\ TornTimes' = TornTimes
  BY DEF indexVars, Written, Torn, TornTimes, WrittenUpTo
<1>4. WholeSnapshots' /\ EarlierKept' /\ WrittenFileReadBack'
  BY <1>2, <1>3 DEF indexVars, ExactInv, WholeSnapshots, EarlierKept, WrittenFileReadBack, Written
<1>5. QED
  BY <1>1, <1>4 DEF ExactInv

LEMMA ExactInvInductive == ExactInv /\ [IndexNext]_indexVars => ExactInv'
<1> SUFFICES ASSUME ExactInv, [IndexNext]_indexVars
             PROVE  ExactInv'
  OBVIOUS
<1>1. CASE IndexBuilt \/ UNCHANGED indexVars
  BY <1>1, ExactUnchanged DEF IndexBuilt
<1>2. QED
  BY <1>1, SkipLineExact, CountRowExact, StartSnapshotExact, FinishExact DEF IndexNext

THEOREM IndexExact == IndexSpec => []ExactInv
BY ExactInitHolds, ExactInvInductive, PTL DEF IndexSpec

\* A file that the simulation has closed is indexed exactly, whatever its
\* length: every snapshot, with all of its rows and no others.
THEOREM IndexWrittenFileReadBack == IndexSpec => []WrittenFileReadBack
<1>1. ExactInv => WrittenFileReadBack
  BY DEF ExactInv
<1>2. QED
  BY <1>1, IndexExact, PTL

\* A file whose last line was cut anywhere still yields every snapshot but the
\* last and the one whose time the cut line seems to have.
THEOREM IndexTornFileKeepsEarlier == IndexSpec => []TornFileKeepsEarlier
<1>1. ASSUME ExactInv
      PROVE  TornFileKeepsEarlier
  <2> SUFFICES ASSUME Torn, NEW t \in Times \ TornTimes, RowsOf(t) # {}
               PROVE  t \in DOMAIN index /\ LinesOf(t) = RowsOf(t) /\ Readable(t)
    BY DEF TornFileKeepsEarlier, Torn, TornTimes
  <2>1. t \in DOMAIN index /\ LinesOf(t) = RowsOf(t)
    BY <1>1 DEF ExactInv, EarlierKept
  <2>2. DOMAIN lines = 1 .. Len(lines) /\ Len(lines) \in Nat
    BY <1>1 DEF ExactInv, IndexInv, IndexTypeOK
  <2>3. ASSUME NEW i \in RowsOf(t)
        PROVE  lines[i].columns
    <3>1. i \in DOMAIN lines /\ lines[i].time = t
      BY DEF RowsOf
    <3>2. i # Len(lines)
      BY <3>1 DEF TornTimes
    <3>3. i \in 1 .. Len(lines) - 1
      BY <2>2, <3>1, <3>2
    <3>4. QED
      BY <3>3 DEF Torn, WrittenUpTo
  <2>4. QED
    BY <2>1, <2>3 DEF Readable
<1>2. QED
  BY <1>1, IndexExact, PTL

\* The stream and the file parser agree on the snapshots of a closed file: as
\* many, up to the same last time.
THEOREM IndexParserAgrees == IndexSpec => []ParserAgrees
<1>1. ASSUME ExactInv
      PROVE  ParserAgrees
  <2> SUFFICES ASSUME outcome = "indexed", lines # <<>>, Written
               PROVE  /\ CountedSnapshots = Cardinality(DOMAIN index)
                      /\ SimulationDuration \in DOMAIN index
                      /\ \A t \in DOMAIN index : t <= SimulationDuration
    BY DEF ParserAgrees, Written
  <2>1. DOMAIN index = {lines[i].time : i \in DOMAIN lines}
    BY <1>1 DEF ExactInv, WrittenFileReadBack, Written
  <2>2. lines \in Seq(FileLine) /\ DOMAIN lines = 1 .. Len(lines) /\ Len(lines) \in Nat
    BY <1>1 DEF ExactInv, IndexInv, IndexTypeOK
  <2>3. Len(lines) # 0
    BY <2>2
  <2>4. Len(lines) \in DOMAIN lines
    BY <2>2, <2>3
  <2>5. \A i \in DOMAIN lines : lines[i].time \in Nat
    <3>1. ASSUME NEW i \in DOMAIN lines
          PROVE  lines[i].time \in Nat
      <4>1. lines[i] \in FileLine /\ lines[i].time # NoTime
        BY <2>2 DEF Written, WrittenUpTo
      <4>2. lines[i].time \in Times
        BY <4>1 DEF FileLine
      <4>3. QED
        BY <4>2, IndexAssumption
    <3>2. QED
      BY <3>1
  <2>6. \A i \in DOMAIN lines : lines[i].time <= lines[Len(lines)].time
    <3>1. ASSUME NEW i \in DOMAIN lines
          PROVE  lines[i].time <= lines[Len(lines)].time
      <4>1. CASE i < Len(lines)
        BY <2>2, <2>4, <4>1 DEF Written, WrittenUpTo
      <4>2. CASE i = Len(lines)
        BY <2>5, <4>2
      <4>3. QED
        BY <2>2, <4>1, <4>2
    <3>2. QED
      BY <3>1
  <2>7. QED
    BY <2>1, <2>4, <2>6 DEF CountedSnapshots, SimulationDuration
<1>2. QED
  BY <1>1, IndexExact, PTL
===============================================================================
