----------------------------- MODULE MCPartition -----------------------------
(***************************************************************************)
(* A small instance of Partition: the volume with a disk of its own asks   *)
(* for one unit, the other for two.                                        *)
(***************************************************************************)
EXTENDS Partition

MCWant == [n \in Names |-> IF n \in Exclusive THEN 1 ELSE 2]
=============================================================================
