---------------------------- MODULE MCNodeTasks ----------------------------
(***************************************************************************)
(* TLC instances of NodeTasks.  Two tasks do not suffice to create a node  *)
(* and to set its limit twice: a node that is there from the start gets    *)
(* limits and restarts, a new one everything that moves its status.        *)
(***************************************************************************)
EXTENDS NodeTasks

VARIABLE old   \* the nodes that were there from the start

Asks(n) == IF n \in old THEN {"limit", "restart"}
                        ELSE {"create", "update", "delete", "disable"}

MCInit == Init /\ old = {n \in Nodes : Exists(n)}

MCNext ==
  /\ Next /\ old' = old
  /\ \A h \in Handlers : req'[h].pc # "idle" => req'[h].op \in Asks(req'[h].node)

MCSpec == MCInit /\ [][MCNext]_<<vars, old>> /\ Fairness
=============================================================================
