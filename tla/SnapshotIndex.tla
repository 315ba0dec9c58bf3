----------------------------- MODULE SnapshotIndex -----------------------------
(***************************************************************************)
(* buildIndex of core/files/system_snapshot_stream.cpp: the lines of       *)
(* system.csv are read one by one and grouped into snapshots; the index    *)
(* maps a time to the first line and the number of rows of its snapshot,   *)
(* and parseSnapshotFromIndex reads that many lines from there.            *)
(*                                                                         *)
(* A line is known by its time and by whether its other columns can be     *)
(* read.  It may come from the simulation (CsvFileWriter), from a process  *)
(* that was killed inside a write, or from an editor.                      *)
(***************************************************************************)
EXTENDS Integers, Sequences, FiniteSets

CONSTANTS Times,    \* the times that occur in the file
          NoTime,   \* no number in the first column; as last_timestamp, -1.0
          MaxLines  \* bound on the length of the file

ASSUME IndexAssumption ==
  /\ Times \subseteq Nat /\ NoTime \notin Times
  /\ MaxLines \in Nat

FileLine == [time : Times \cup {NoTime}, columns : BOOLEAN]

VARIABLES
  lines,          \* the lines read so far
  lastTimestamp,  \* last_timestamp
  snapshotStart,  \* current_snapshot_start_pos, as the number of a line
  rowCount,       \* row_count
  index,          \* index_
  outcome         \* indexing; then what buildIndex returns: indexed, failed

indexVars == <<lines, lastTimestamp, snapshotStart, rowCount, index, outcome>>

Entry(start, count) == [start |-> start, count |-> count]

\* index_[t] = entry.
Indexed(t, entry) == [u \in DOMAIN index \cup {t} |-> IF u = t THEN entry ELSE index[u]]

IndexInit ==
  /\ lines = <<>> /\ lastTimestamp = NoTime
  /\ snapshotStart = 1 /\ rowCount = 0
  /\ index = [t \in {} |-> Entry(1, 0)] /\ outcome = "indexing"

ReadLine(line) ==
  /\ outcome = "indexing" /\ Len(lines) < MaxLines
  /\ lines' = Append(lines, line)
  /\ UNCHANGED outcome

\* A blank line or one without a time: continue, or the catch clauses.
SkipLine ==
  /\ \E columns \in BOOLEAN : ReadLine([time |-> NoTime, columns |-> columns])
  /\ UNCHANGED <<lastTimestamp, snapshotStart, rowCount, index>>

\* A further row of the current snapshot, or the first one of the file.
CountRow ==
  \E t \in Times, columns \in BOOLEAN :
    /\ lastTimestamp \in {t, NoTime}
    /\ ReadLine([time |-> t, columns |-> columns])
    /\ lastTimestamp' = t /\ rowCount' = rowCount + 1
    /\ UNCHANGED <<snapshotStart, index>>

\* Faulty variant: row_count goes on.
StartSnapshotCounting ==
  \E t \in Times \ {lastTimestamp}, columns \in BOOLEAN :
    /\ lastTimestamp # NoTime
    /\ ReadLine([time |-> t, columns |-> columns])
    /\ index' = Indexed(lastTimestamp, Entry(snapshotStart, rowCount))
    /\ lastTimestamp' = t /\ snapshotStart' = Len(lines) + 1 /\ rowCount' = rowCount + 1

\* Faulty variant: the next snapshot starts behind its first row.
StartSnapshotLate ==
  \E t \in Times \ {lastTimestamp}, columns \in BOOLEAN :
    /\ lastTimestamp # NoTime
    /\ ReadLine([time |-> t, columns |-> columns])
    /\ index' = Indexed(lastTimestamp, Entry(snapshotStart, rowCount))
    /\ lastTimestamp' = t /\ snapshotStart' = Len(lines) + 2 /\ rowCount' = 1

\* The first row of the next snapshot: the one before it is complete.
StartSnapshot ==
  \E t \in Times \ {lastTimestamp}, columns \in BOOLEAN :
    /\ lastTimestamp # NoTime
    /\ ReadLine([time |-> t, columns |-> columns])
    /\ index' = Indexed(lastTimestamp, Entry(snapshotStart, rowCount))
    /\ lastTimestamp' = t /\ snapshotStart' = Len(lines) + 1 /\ rowCount' = 1

\* Faulty variant: the end of the file ends no snapshot.
FinishWithoutLast ==
  /\ outcome = "indexing"
  /\ UNCHANGED index
  /\ outcome' = IF DOMAIN index' = {} THEN "failed" ELSE "indexed"
  /\ UNCHANGED <<lines, lastTimestamp, snapshotStart, rowCount>>

\* "Store the very last snapshot in the file".
Finish ==
  /\ outcome = "indexing"
  /\ index' = IF rowCount > 0 THEN Indexed(lastTimestamp, Entry(snapshotStart, rowCount))
                              ELSE index
  /\ outcome' = IF DOMAIN index' = {} THEN "failed" ELSE "indexed"
  /\ UNCHANGED <<lines, lastTimestamp, snapshotStart, rowCount>>

\* Only the header, without the end of its line: "Not an error, just an empty file".
FinishHeaderOnly ==
  /\ outcome = "indexing" /\ lines = <<>>
  /\ outcome' = "indexed"
  /\ UNCHANGED <<lines, lastTimestamp, snapshotStart, rowCount, index>>

IndexBuilt == outcome # "indexing" /\ UNCHANGED indexVars

IndexNext == SkipLine \/ CountRow \/ StartSnapshot \/ Finish \/ FinishHeaderOnly \/ IndexBuilt

IndexSpec == IndexInit /\ [][IndexNext]_indexVars
-----------------------------------------------------------------------------
(* What is read through the index.                                         *)

LinesOf(t) == index[t].start .. index[t].start + index[t].count - 1

\* parseSnapshotFromIndex returns a snapshot: the lines of the entry have all
\* columns.  Their times are not looked at.
Readable(t) == \A i \in LinesOf(t) : lines[i].columns

\* FileParser: countSnapshots and retrieveSimulationDuration.
CountedSnapshots == Cardinality({lines[i].time : i \in DOMAIN lines})
SimulationDuration == lines[Len(lines)].time

RowsOf(t) == {i \in DOMAIN lines : lines[i].time = t}

\* What the simulation writes: whole rows in the order of their times.
WrittenUpTo(n) ==
  /\ \A i \in 1 .. n : lines[i].time # NoTime /\ lines[i].columns
  /\ \A i, j \in 1 .. n : i < j => lines[i].time <= lines[j].time
-----------------------------------------------------------------------------
\* The entries lie inside the file.
IndexTypeOK ==
  /\ lines \in Seq(FileLine)
  /\ lastTimestamp \in Times \cup {NoTime}
  /\ snapshotStart \in 1 .. Len(lines) + 1 /\ rowCount \in 0 .. Len(lines)
  /\ DOMAIN index \subseteq Times
  /\ \A t \in DOMAIN index : index[t].count > 0 /\ LinesOf(t) \subseteq DOMAIN lines
  /\ outcome \in {"indexing", "indexed", "failed"}

\* A file that the simulation has closed is replayed as it was written: every
\* snapshot, with all of its rows and no others.
WrittenFileReadBack ==
  outcome # "indexing" /\ WrittenUpTo(Len(lines)) =>
    /\ DOMAIN index = {lines[i].time : i \in DOMAIN lines}
    /\ \A t \in DOMAIN index : LinesOf(t) = RowsOf(t)

\* A process killed inside a write leaves a last line cut somewhere: a time may
\* have lost its last digits, or columns are missing.  Every snapshot is read
\* back but the last, and one whose time the cut line seems to have.
TornFileKeepsEarlier ==
  LET n == Len(lines)
  IN  outcome # "indexing" /\ n > 1 /\ WrittenUpTo(n - 1) =>
        \A t \in Times \ {lines[n - 1].time, lines[n].time} :
          RowsOf(t) # {} => t \in DOMAIN index /\ LinesOf(t) = RowsOf(t) /\ Readable(t)

\* Whatever the file holds, unless a row's time cannot be read: a snapshot that
\* is returned consists of rows of its time.
SnapshotHasItsTime ==
  (\A i \in DOMAIN lines : lines[i].columns => lines[i].time # NoTime) =>
    \A t \in DOMAIN index : Readable(t) => LinesOf(t) \subseteq RowsOf(t)

\* The stream and the file parser, which feed the same playback bar, agree on
\* the number of snapshots and on the last one of a closed file.
ParserAgrees ==
  outcome = "indexed" /\ lines # <<>> /\ WrittenUpTo(Len(lines)) =>
    /\ CountedSnapshots = Cardinality(DOMAIN index)
    /\ SimulationDuration \in DOMAIN index
    /\ \A t \in DOMAIN index : t <= SimulationDuration
=============================================================================
