---------------------------- MODULE MCCausality ----------------------------
(***************************************************************************)
(* Instances of Causality: every document with up to MaxEvents events over *)
(* the ids, in every order, with duplicate, empty and dangling ids.        *)
(***************************************************************************)
EXTENDS Causality, TLC

IdSymmetry == Permutations(Ids)
=============================================================================
