----------------------------- MODULE MCGateway -----------------------------
(***************************************************************************)
(* Gateway with two connections of the machine, so that the handler of an  *)
(* old one overlaps with the new one.                                      *)
(***************************************************************************)
EXTENDS Gateway, TLC
=============================================================================
