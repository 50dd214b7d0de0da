----------------------------- MODULE MCResearch -----------------------------
(***************************************************************************)
(* Research with processes that are interchangeable.                       *)
(***************************************************************************)
EXTENDS Research, TLC

MCSymmetry == Permutations(Processes)
=============================================================================
