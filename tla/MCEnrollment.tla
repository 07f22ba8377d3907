---------------------------- MODULE MCEnrollment ----------------------------
(***************************************************************************)
(* TLC instance of Enrollment.  A liveness property is checked, so no      *)
(* symmetry is declared.                                                   *)
(***************************************************************************)
EXTENDS Enrollment
=============================================================================
