---------------------------- MODULE MCEnforcers ----------------------------
(***************************************************************************)
(* Enforcers with two nodes, which may take each other's port over, and    *)
(* three addresses, the second of which nft does not take.  A limit is one *)
(* unit of traffic, or one address.                                        *)
(*                                                                         *)
(* At the start the first node is there: the nodes and the ports are       *)
(* interchangeable, so this saves states and loses no behaviour but those  *)
(* from no node at all.                                                    *)
(***************************************************************************)
EXTENDS Enforcers, TLC

CONSTANTS n1, n2, p1, p2

MCInit == BothInit /\ port[n1] = p1

MCSpec == MCInit /\ [][BothNext]_all /\ BothFairness
=============================================================================
