--------------------------- MODULE MCTrafficSync ---------------------------
(***************************************************************************)
(* TLC instances of TrafficSync.  Scopes are interchangeable; the run with *)
(* a liveness property uses no symmetry.                                   *)
(***************************************************************************)
EXTENDS TrafficSync, TLC

ScopeSymmetry == Permutations(Scopes)
=============================================================================
