------------------------------- MODULE Quota -------------------------------
(***************************************************************************)
(* The traffic quota an Agent enforces by itself,                          *)
(* internal/agent/quota/quota.go: a loop that every 30 s compares the      *)
(* bytes a node has used with its limit, and keeps the ports of the nodes  *)
(* that have used theirs up in an nft set of blocked ports.                *)
(*                                                                         *)
(* A round reads the limits, judges one node after the other, in no        *)
(* particular order, and loads the set if it differs from the one that was *)
(* loaded last.  Meanwhile tasks change limits and nodes (module NodeApply *)
(* says how), and the Agent or the machine may restart.                    *)
(*                                                                         *)
(* Abstractions: bytes are counted in units; the totals are those that     *)
(* module Collector maintains.  One node is judged in one step.  Nobody    *)
(* but the Agent touches its nft table while the machine runs.             *)
(***************************************************************************)
EXTENDS Integers

CONSTANTS
  Nodes,      \* local ids of nodes, which are never used again
  Ports,
  None,       \* not a port: not created yet; not a set of ports: unknown
  Gone,       \* not a port: deleted
  MaxBytes,   \* bound: units a node may use
  MaxChanges, \* bound: tasks that set a limit or change nodes
  MaxFaults   \* bound: failed reads, failed nft calls and restarts

ASSUME QuotaAssumption ==
  /\ None \notin Ports /\ Gone \notin Ports /\ None # Gone
  /\ \A s \in SUBSET Ports : s # None
  /\ MaxBytes \in Nat /\ MaxChanges \in Nat /\ MaxFaults \in Nat

VARIABLES
  port,     \* nodes.json: port[n], None or Gone if there is no node n
  used,     \* totals, bytes of node:<n> in both directions
  limit,    \* quota_state: limit_bytes, 0 for no limit
  exceeded, \* quota_state: exceeded
  blocked,  \* the kernel: the ports in the set of table sbx_quota
  last,     \* Enforcer.lastBlocked, None after a start
  round,    \* check: [pc, limit, exceeded, left, ports]
  moved,    \* history: has anything changed or failed since the round began?
  count     \* history: how often each bounded event has happened

stored == <<port, used, limit, exceeded>>
vars   == <<stored, blocked, last, round, moved, count>>

NoLimit == [n \in Nodes |-> 0]
NoFlag  == [n \in Nodes |-> FALSE]
Waiting == [pc |-> "wait", limit |-> NoLimit, exceeded |-> NoFlag, left |-> {}, ports |-> {}]

Change == count.changes < MaxChanges /\ count' = [count EXCEPT !.changes = @ + 1]
Fault  == count.faults < MaxFaults /\ count' = [count EXCEPT !.faults = @ + 1]

-----------------------------------------------------------------------------
(***************************************************************************)
(* Variants of definitions below with a plausible mistake in them; the     *)
(* properties are shown to notice each.  They are not part of the model.   *)
(***************************************************************************)
SameAsEmpty       == last = round.ports \/ (last = None /\ round.ports = {})
PortOfAny(n)      == {port[n]}
LimitedForgetful  == {n \in Nodes : limit[n] > 0 /\ ~exceeded[n]}

-----------------------------------------------------------------------------
\* used >= limit, by the limits read at the beginning of the round.
UsedUp(n) == used[n] >= round.limit[n]

\* check skips the nodes without a limit.
Limited == {n \in Nodes : limit[n] > 0}

\* Port: a limit may outlive its node, and then there is no port to block.
PortOf(n) == {port[n]} \cap Ports

\* sameSet; nothing is the same as what is not known.
Same == last = round.ports

\* What lastBlocked is when the rules were refused: as before.
Remembered == last

Init ==
  /\ port \in [Nodes -> Ports \cup {None}]
  /\ \A n, k \in Nodes : n # k /\ port[n] # None => port[n] # port[k]
  /\ used = NoLimit /\ limit = NoLimit /\ exceeded = NoFlag
  /\ blocked = {} /\ last = None /\ round = Waiting
  /\ moved = TRUE /\ count = [changes |-> 0, faults |-> 0]

-----------------------------------------------------------------------------
(***************************************************************************)
(* A round of the enforcer.                                                *)
(***************************************************************************)
Begin ==
  /\ round.pc = "wait"
  /\ round' = [pc |-> "judge", limit |-> limit, exceeded |-> exceeded,
               left |-> Limited, ports |-> {}]
  /\ moved' = FALSE
  /\ UNCHANGED <<stored, blocked, last, count>>

\* MarkExceeded, when the flag that was read disagrees.
Marked(n) == IF round.exceeded[n] = UsedUp(n) THEN exceeded
             ELSE [exceeded EXCEPT ![n] = UsedUp(n)]

\* Used, Port and MarkExceeded for one node.
Judge(n) ==
  /\ round.pc = "judge" /\ n \in round.left
  /\ round' = [round EXCEPT !.left = @ \ {n},
                              !.ports = IF UsedUp(n) THEN @ \cup PortOf(n) ELSE @]
  /\ exceeded' = Marked(n)
  /\ UNCHANGED <<port, used, limit, blocked, last, moved, count>>

\* Of these calls, Used fails (the node is passed over), or Port, or MarkExceeded:
\* the round goes on with what it has.
JudgeFails(n) ==
  /\ round.pc = "judge" /\ n \in round.left /\ Fault
  /\ \E blind \in BOOLEAN :
       round' = [round EXCEPT !.left = @ \ {n},
                              !.ports = IF UsedUp(n) /\ ~blind THEN @ \cup PortOf(n) ELSE @]
  /\ exceeded' \in {exceeded, Marked(n)}
  /\ moved' = TRUE
  /\ UNCHANGED <<port, used, limit, blocked, last>>

Judged == round.pc = "judge" /\ round.left = {}

\* ApplyBlock: nft replaces the table in one transaction.
Apply ==
  /\ Judged /\ ~Same
  /\ blocked' = round.ports /\ last' = round.ports
  /\ round' = Waiting
  /\ UNCHANGED <<stored, moved, count>>

\* nft fails, and the old table stays.
ApplyFails ==
  /\ Judged /\ ~Same /\ Fault
  /\ last' = Remembered
  /\ round' = Waiting /\ moved' = TRUE
  /\ UNCHANGED <<stored, blocked>>

Skip ==
  /\ Judged /\ Same
  /\ round' = Waiting
  /\ UNCHANGED <<stored, blocked, last, moved, count>>

-----------------------------------------------------------------------------
(***************************************************************************)
(* What happens meanwhile.                                                 *)
(***************************************************************************)

\* The collector adds bytes of node n to the totals.  It runs every 5 s, so bytes from
\* before the block, or of a deleted node, may still come.
Traffic(n) ==
  /\ port[n] # None /\ used[n] < MaxBytes
  /\ used' = [used EXCEPT ![n] = @ + 1]
  /\ moved' = TRUE
  /\ UNCHANGED <<port, limit, exceeded, blocked, last, round, count>>

\* set_quota, or reset_quota with 0, for a node that existed when it was looked up:
\* SetLimit leaves exceeded alone.
SetLimit(n) ==
  /\ port[n] # None /\ Change
  /\ limit' \in {[limit EXCEPT ![n] = b] : b \in 0..MaxBytes}
  /\ moved' = TRUE
  /\ UNCHANGED <<port, used, exceeded, blocked, last, round>>

\* A task moves node n to another port, creates it or deletes it.
ChangeNode(n) ==
  /\ Change
  /\ port[n] # Gone
  /\ \E p \in Ports \cup (IF port[n] = None THEN {} ELSE {Gone}) :
       /\ \A k \in Nodes : port[k] # p \/ p = Gone
       /\ port' = [port EXCEPT ![n] = p]
  /\ moved' = TRUE
  /\ UNCHANGED <<used, limit, exceeded, blocked, last, round>>

\* The Agent starts again; after a reboot of the machine the table is gone too.
Restart ==
  /\ Fault
  /\ blocked' \in {blocked, {}}
  /\ last' = None /\ round' = Waiting /\ moved' = TRUE
  /\ UNCHANGED stored

RoundStep ==
  \/ Begin \/ Apply \/ Skip
  \/ \E n \in Nodes : Judge(n)

Next ==
  \/ RoundStep \/ ApplyFails \/ Restart
  \/ \E n \in Nodes : JudgeFails(n) \/ Traffic(n) \/ SetLimit(n) \/ ChangeNode(n)

Spec == Init /\ [][Next]_vars
-----------------------------------------------------------------------------
(***************************************************************************)
(* Properties.                                                             *)
(***************************************************************************)
TypeOK ==
  /\ port \in [Nodes -> Ports \cup {None, Gone}]
  /\ used \in [Nodes -> Nat] /\ limit \in [Nodes -> Nat]
  /\ exceeded \in [Nodes -> BOOLEAN]
  /\ blocked \subseteq Ports /\ last \in {None} \cup SUBSET Ports
  /\ round \in [pc : {"wait", "judge"}, limit : [Nodes -> Nat],
                exceeded : [Nodes -> BOOLEAN], left : SUBSET Nodes, ports : SUBSET Ports]
  /\ moved \in BOOLEAN
  /\ count \in [changes : 0..MaxChanges, faults : 0..MaxFaults]

\* The ports that should be blocked: those of the nodes that have used up their limit.
Due == {port[n] : n \in {k \in Nodes : limit[k] > 0 /\ used[k] >= limit[k]}} \cap Ports

\* The enforcer never skips the rules because of a set that is not in the kernel,
\* although loading may fail and the Agent may restart with the old table loaded.
MemoryIsKernel == last # None => last = blocked

\* A round during which nothing changed and nothing failed leaves exactly the due
\* ports blocked, whatever earlier rounds, failures and restarts left behind.
RoundIsExact == round.pc = "wait" /\ ~moved => blocked = Due

\* README: at the limit a node is blocked, and a raised or reset limit frees it: the
\* due ports are blocked, no others, and the flags say so.
QuotaEnforced ==
  /\ blocked = Due
  /\ \A n \in Nodes : limit[n] > 0 => (exceeded[n] <=> used[n] >= limit[n])
=============================================================================
