------------------------------ MODULE IPLimit ------------------------------
(***************************************************************************)
(* The limit on the addresses that use a node at a time, which an Agent    *)
(* enforces by itself, internal/agent/iplimit/iplimit.go.  Every 30 s      *)
(* Check lists, from /proc/net, the remote addresses connected to the port *)
(* of each limited node, keeps as many as the limit allows, in the order   *)
(* of their text, and puts the others into an nft set of addresses whose   *)
(* packets are dropped, to whatever port they go.  LastError says whether  *)
(* the set was refused.                                                    *)
(*                                                                         *)
(* A blocked address opens no connection; one it has stays ESTABLISHED     *)
(* until either side gives it up.  An address is a number: its rank in the *)
(* order of the texts.  The set holds IPv4 addresses only, and nft refuses *)
(* the whole file when another one is in it.                               *)
(*                                                                         *)
(* Abstractions: one node is judged in one step, reading its port and its  *)
(* connections.  Nobody but the Agent touches its nft table while the      *)
(* machine runs.                                                           *)
(***************************************************************************)
EXTENDS Integers, FiniteSets

CONSTANTS
  Nodes,      \* local ids of nodes, which are never used again
  Ports,
  None,       \* not a port: not created yet; not a set of addresses: unknown
  Gone,       \* not a port: deleted
  Addresses,  \* remote addresses, by the order of their texts
  Refused,    \* those nft does not take: IPv6, and IPv4 clients of a socket on "::"
  MaxLimit    \* bound: the highest limit

\* What is assumed of the constants.
Constants ==
  /\ None \notin Ports /\ Gone \notin Ports /\ None # Gone
  /\ \A s \in SUBSET Addresses : s # None
  /\ IsFiniteSet(Addresses) /\ Addresses \subseteq Nat
  /\ Refused \subseteq Addresses /\ MaxLimit \in Nat

VARIABLES
  port,    \* nodes.json: port[n], None or Gone if there is no node n
  limit,   \* ip_limit_state: limit[n], 0 for no limit
  online,  \* the kernel: established connections, <<port, address>>
  blocked, \* the kernel: the addresses in the set of table sbx_iplimit
  last,    \* Enforcer.lastBlocked, None after a start
  lastErr, \* Enforcer.lastErr: is there an error?
  round,   \* Check: [pc, limit, left, addresses]
  moved    \* history: since the round began, has anything changed, a read failed, or
           \* nft failed for another reason than an address it does not take?

vars == <<port, limit, online, blocked, last, lastErr, round, moved>>

Waiting == [pc |-> "wait", limit |-> [n \in Nodes |-> 0], left |-> {}, addresses |-> {}]

-----------------------------------------------------------------------------
(***************************************************************************)
(* Variants of definitions below with a plausible mistake in them; the     *)
(* properties are shown to notice each.  They are not part of the model.   *)
(***************************************************************************)
NotAppliedUnnoticed ==
  /\ last' = round.addresses /\ lastErr' = FALSE
  /\ round' = Waiting
  /\ UNCHANGED <<port, limit, online, blocked>>

-----------------------------------------------------------------------------
\* sortedIPs, ips[limit:]: the addresses beyond the first m.
Beyond(A, m) == {a \in A : Cardinality({b \in A : b < a}) >= m}

\* ActiveIPs: the addresses connected to a port, each once.
Active(p) == {a \in Addresses : <<p, a>> \in online}

\* The addresses of node n over a limit m; a node that is gone has none.
Over(n, m) == IF port[n] \in Ports THEN Beyond(Active(port[n]), m) ELSE {}

\* Check skips the nodes without a limit.
Limited == {n \in Nodes : limit[n] > 0}

\* What Check has collected once it has judged n.
Collected(n) == round.addresses \cup Over(n, round.limit[n])

\* sameSetString; nothing is the same as what is not known.
Same == last = round.addresses

\* The Agent starts, with the limits there are.
Init ==
  /\ port \in [Nodes -> Ports \cup {None}]
  /\ \A n, k \in Nodes : n # k /\ port[n] # None => port[n] # port[k]
  /\ limit \in [Nodes -> 0..MaxLimit] /\ \A n \in Nodes : port[n] = None => limit[n] = 0
  /\ online = {}
  /\ blocked = {} /\ last = None /\ lastErr = FALSE /\ round = Waiting
  /\ moved = TRUE

-----------------------------------------------------------------------------
(***************************************************************************)
(* A round of the enforcer.                                                *)
(***************************************************************************)
Begin ==
  /\ round.pc = "wait"
  /\ round' = [pc |-> "judge", limit |-> limit, left |-> Limited, addresses |-> {}]
  /\ moved' = FALSE
  /\ UNCHANGED <<port, limit, online, blocked, last, lastErr>>

Judge(n) ==
  /\ round.pc = "judge" /\ n \in round.left
  /\ round' = [round EXCEPT !.left = @ \ {n}, !.addresses = Collected(n)]
  /\ UNCHANGED <<port, limit, online, blocked, last, lastErr, moved>>

\* nodes.json cannot be read, and the node is passed over; or a file of /proc
\* cannot, and its connections are not counted.
JudgeFails(n) ==
  /\ round.pc = "judge" /\ n \in round.left
  /\ \E A \in SUBSET Active(port[n]) :
       round' = [round EXCEPT !.left = @ \ {n},
                              !.addresses = @ \cup Beyond(A, round.limit[n])]
  /\ moved' = TRUE
  /\ UNCHANGED <<port, limit, online, blocked, last, lastErr>>

Judged == round.pc = "judge" /\ round.left = {}

\* applyBlockTo: nft replaces the table in one transaction.
Apply ==
  /\ Judged /\ ~Same /\ round.addresses \cap Refused = {}
  /\ blocked' = round.addresses /\ last' = round.addresses /\ lastErr' = FALSE
  /\ round' = Waiting
  /\ UNCHANGED <<port, limit, online, moved>>

\* The file is not loaded: the old table stays, lastBlocked too, and the next round
\* tries again.
NotApplied ==
  /\ last' = last /\ lastErr' = TRUE
  /\ round' = Waiting
  /\ UNCHANGED <<port, limit, online, blocked>>

\* nft refuses every file with an address it does not take; or it fails.
Refuse ==
  /\ Judged /\ ~Same /\ round.addresses \cap Refused # {}
  /\ NotApplied /\ UNCHANGED moved
ApplyFails == Judged /\ ~Same /\ NotApplied /\ moved' = TRUE

Skip ==
  /\ Judged /\ Same
  /\ round' = Waiting
  /\ UNCHANGED <<port, limit, online, blocked, last, lastErr, moved>>

RoundStep ==
  \/ Begin \/ Apply \/ Refuse \/ Skip
  \/ \E n \in Nodes : Judge(n)

-----------------------------------------------------------------------------
(***************************************************************************)
(* What happens meanwhile.                                                 *)
(***************************************************************************)

\* A client at address a connects to the port of a node.
Connect(n, a) ==
  /\ port[n] \in Ports /\ a \notin blocked /\ <<port[n], a>> \notin online
  /\ online' = online \cup {<<port[n], a>>}
  /\ moved' = TRUE
  /\ UNCHANGED <<port, limit, blocked, last, lastErr, round>>

\* The last connection of a client is closed, or times out.
Disconnect(n, a) ==
  /\ <<port[n], a>> \in online
  /\ online' = online \ {<<port[n], a>>}
  /\ moved' = TRUE
  /\ UNCHANGED <<port, limit, blocked, last, lastErr, round>>

\* set_ip_limit, for a node that existed when it was looked up.
SetLimit(n) ==
  /\ port[n] # None
  /\ limit' \in {[limit EXCEPT ![n] = m] : m \in 0..MaxLimit}
  /\ moved' = TRUE
  /\ UNCHANGED <<port, online, blocked, last, lastErr, round>>

\* A task changes nodes.json, and sing-box is restarted: every connection ends.
ChangeNode ==
  /\ port' \in [Nodes -> Ports \cup {None, Gone}]
  /\ online' = {}
  /\ moved' = TRUE
  /\ UNCHANGED <<limit, blocked, last, lastErr, round>>

\* The Agent starts again; after a reboot of the machine the table is gone too,
\* and so are the connections.
Restart(reboot) ==
  /\ IF reboot THEN blocked' = {} /\ online' = {} ELSE UNCHANGED <<blocked, online>>
  /\ last' = None /\ lastErr' = FALSE /\ round' = Waiting /\ moved' = TRUE
  /\ UNCHANGED <<port, limit>>

Meanwhile ==
  \/ \E n \in Nodes :
       \/ JudgeFails(n) \/ SetLimit(n)
       \/ \E a \in Addresses : Connect(n, a) \/ Disconnect(n, a)
  \/ ApplyFails

Next == RoundStep \/ Meanwhile \/ ChangeNode \/ \E reboot \in BOOLEAN : Restart(reboot)

Spec == Init /\ [][Next]_vars
-----------------------------------------------------------------------------
(***************************************************************************)
(* Properties.                                                             *)
(***************************************************************************)
TypeOK ==
  /\ port \in [Nodes -> Ports \cup {None, Gone}]
  /\ limit \in [Nodes -> 0..MaxLimit]
  /\ online \subseteq Ports \X Addresses
  /\ blocked \subseteq Addresses \ Refused
  /\ last \in {None} \cup SUBSET Addresses
  /\ round \in [pc : {"wait", "judge"}, limit : [Nodes -> 0..MaxLimit],
                left : SUBSET Nodes, addresses : SUBSET Addresses]
  /\ moved \in BOOLEAN /\ lastErr \in BOOLEAN

\* The addresses that Check finds too many: on some node they come, in the order of
\* their texts, after as many others as its limit allows.
Due == UNION {Over(n, limit[n]) : n \in Limited}

\* What the enforcer remembers to have loaded is what the kernel has.
MemoryIsKernel == last # None => last = blocked

\* The addresses that use node n.
Clients(n) == IF port[n] \in Ports THEN Active(port[n]) ELSE {}

\* The limits are in force: each limited node keeps as many of its clients as its limit
\* allows, all of them if it may, and exactly the others are blocked.  Which clients a
\* node keeps is left open.
InForce ==
  \E kept \in [Limited -> SUBSET Addresses] :
    /\ \A n \in Limited :
         /\ kept[n] \subseteq Clients(n) /\ Cardinality(kept[n]) <= limit[n]
         /\ kept[n] = Clients(n) \/ Cardinality(kept[n]) = limit[n]
    /\ blocked = UNION {Clients(n) \ kept[n] : n \in Limited}

\* Has a node more clients than its limit, and one among them that nft does not take?
Unenforceable ==
  \E n \in Limited : Cardinality(Clients(n)) > limit[n] /\ Clients(n) \cap Refused # {}

\* LastError: "nil means that the current set is in force".  After a round during which
\* nothing changed the limits are in force, whatever earlier rounds, failures and
\* restarts left behind; or the clients of a node that has too many include one that
\* nft does not take, and then LastError says that they are not.
LimitsInForce ==
  round.pc = "wait" /\ ~moved => InForce \/ (lastErr /\ Unenforceable)

\* The due addresses are blocked, unless one of them is one that nft does not take.
Enforced == Due \cap Refused = {} => blocked = Due
=============================================================================
