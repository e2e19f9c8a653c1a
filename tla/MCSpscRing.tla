----------------------------- MODULE MCSpscRing -----------------------------
(***************************************************************************)
(* Instances of SpscRing for TLC: two slots, indices that wrap after a few *)
(* pushes, and batches up to the capacity and beyond it.                   *)
(***************************************************************************)
EXTENDS SpscRing
=============================================================================
