---------------------------- MODULE MCCollector ----------------------------
(***************************************************************************)
(* TLC instances of Collector.  Loops are interchangeable.                 *)
(***************************************************************************)
EXTENDS Collector, TLC

CollectorSymmetry == Permutations(Loops)
=============================================================================
