---------------------------- MODULE MCNodeApply ----------------------------
(***************************************************************************)
(* TLC instances of NodeApply.  The goroutines are interchangeable.        *)
(***************************************************************************)
EXTENDS NodeApply, TLC

TaskSymmetry == Permutations(Tasks)
=============================================================================
