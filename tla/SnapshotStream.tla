---------------------------- MODULE SnapshotStream ----------------------------
(***************************************************************************)
(* core/files/system_snapshot_stream.cpp: the snapshots of a recorded file *)
(* in the order of their times, and an iterator to the one read last.  A   *)
(* snapshot is named by its place in the file, and so is its time.         *)
(***************************************************************************)
EXTENDS Integers

CONSTANT FrameCount  \* snapshots in the file

ASSUME StreamAssumption == FrameCount \in Nat \ {0}

VARIABLE position  \* current_index_iterator_

Nullopt == 0
First == 1
Last  == FrameCount
End   == FrameCount + 1  \* index_.end(); also "before the beginning"

StreamInit == position = End

NextPosition == IF position = End THEN First ELSE position + 1

\* getNextSnapshot: what it returns; it leaves the iterator at NextPosition.
NextSnapshot == IF NextPosition = End THEN Nullopt ELSE NextPosition

PrecedingSnapshot(time) == IF time = First THEN Nullopt ELSE time - 1

RetreatedPosition == IF position = First THEN End ELSE position - 1

\* The snapshot that follows in an endless replay of the file.
Following(frame) == IF frame = Last THEN First ELSE frame + 1
=============================================================================
