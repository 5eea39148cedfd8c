----------------------------- MODULE MCTunneler -----------------------------
(***************************************************************************)
(* Tunneler for TLC: forwarder objects and control blocks are              *)
(* interchangeable, so their permutations are symmetries of every safety   *)
(* run.                                                                    *)
(***************************************************************************)
EXTENDS Tunneler, TLC

Symmetry == Permutations(Slot) \cup Permutations(Pcb)
=============================================================================
