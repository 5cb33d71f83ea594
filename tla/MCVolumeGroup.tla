---------------------------- MODULE MCVolumeGroup ----------------------------
(***************************************************************************)
(* Instances of VolumeGroup for TLC.                                       *)
(***************************************************************************)
EXTENDS VolumeGroup, TLC

CONSTANTS w1, w2, v1, v2, d1, d2

\* Two disks: the group can lose one and keep volumes on the other.  d1 can
\* be enlarged by one.
MCPvSize == [d \in Disks |-> IF d = d1 THEN 3 ELSE 2]
MCDevSize == [d \in Disks |-> IF d = d1 THEN 4 ELSE 2]

\* Workers are interchangeable, and so are volumes.
MCSymmetry == Permutations(Workers) \cup Permutations(Vols)
=============================================================================
