----------------------------- MODULE MCInspection -----------------------------
(***************************************************************************)
(* Inspection for TLC.                                                     *)
(***************************************************************************)
EXTENDS Inspection, TLC

AllStates == GitStates
TwoStates == {"Clean", "Merge"}

SameFiles == Permutations(Files)
=============================================================================
