----------------------------- MODULE VolumeStore -----------------------------
(***************************************************************************)
(* What the local volume manager of a node promises to its callers, as an  *)
(* abstract specification: a set of volumes that share one pool of free    *)
(* space.  A volume appears, changes size and disappears only by an        *)
(* operation on that volume, each operation moves exactly its size between *)
(* the volume and the pool, the pool is never overdrawn, and a change of   *)
(* the pool's capacity never touches a volume.                             *)
(*                                                                         *)
(* VolumeGroup (volume.go with its lock and the LVM commands) is shown to  *)
(* implement this specification.                                           *)
(***************************************************************************)
EXTENDS Integers

CONSTANTS
    Vols        \* names of logical volumes

VARIABLES
    lv,         \* size of each volume, 0 while it does not exist
    free        \* free space of the pool

vars == <<lv, free>>

Init ==
    /\ lv = [v \in Vols |-> 0]
    /\ free = 0

Create(v) ==
    /\ lv[v] = 0
    /\ \E s \in 1..free :
        /\ lv' = [lv EXCEPT ![v] = s]
        /\ free' = free - s

Expand(v) ==
    /\ lv[v] > 0
    /\ \E s \in 1..free :
        /\ lv' = [lv EXCEPT ![v] = lv[v] + s]
        /\ free' = free - s

Delete(v) ==
    /\ lv[v] > 0
    /\ lv' = [lv EXCEPT ![v] = 0]
    /\ free' = free + lv[v]

ChangeCapacity ==
    /\ free' \in Nat
    /\ UNCHANGED lv

Next ==
    \/ \E v \in Vols : Create(v) \/ Expand(v) \/ Delete(v)
    \/ ChangeCapacity

Spec == Init /\ [][Next]_vars
=============================================================================
