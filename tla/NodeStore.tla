----------------------------- MODULE NodeStore -----------------------------
(***************************************************************************)
(* What the Agent's node service promises, without saying how: its list of *)
(* nodes changes by one task at a time, and each task changes what is      *)
(* stored of one node, completely or not at all.                           *)
(***************************************************************************)
EXTENDS Integers

CONSTANT Nodes

VARIABLE list \* the nodes the Agent has: [id, node, on, ver] records

Others(n) == {e \in list : e.node # n}

Change(n) ==
  /\ \A e \in list' : e \in list \/ e.node = n
  /\ Others(n) \subseteq list'
  /\ \A d, e \in list' : d.node = e.node => d = e

StoreInit == list = {}
StoreNext == \E n \in Nodes : Change(n)
StoreSpec == StoreInit /\ [][StoreNext]_list
=============================================================================
