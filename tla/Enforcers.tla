----------------------------- MODULE Enforcers -----------------------------
(***************************************************************************)
(* The two loops by which an Agent enforces its limits without the         *)
(* Manager, as runAgent of cmd/sbx-agent/main.go starts them: the traffic  *)
(* quota (module Quota) and the limit on addresses (module IPLimit).       *)
(*                                                                         *)
(* They run in goroutines of their own, at the same pace, and share the    *)
(* list of nodes, the process and the kernel.  A task that changes a node  *)
(* changes it for both, and ends every connection; the Agent restarts, and *)
(* the machine reboots, for both.                                          *)
(***************************************************************************)
EXTENDS Quota

CONSTANTS
  Addresses, Refused, MaxLimit, \* as in IPLimit
  MaxEvents                     \* bound: tasks, clients and faults, in either loop

VARIABLES ipLimit, online, ipBlocked, ipLast, ipErr, ipRound, ipMoved,
          events   \* history: how many tasks, clients and faults so far

IP == INSTANCE IPLimit WITH limit <- ipLimit, blocked <- ipBlocked, last <- ipLast,
                            lastErr <- ipErr, round <- ipRound, moved <- ipMoved

ASSUME EnforcersAssumption == IP!Constants /\ MaxEvents \in Nat

quotaOnly == <<used, limit, exceeded, blocked, last, round, moved, count>>
ipOnly    == <<ipLimit, online, ipBlocked, ipLast, ipErr, ipRound, ipMoved>>
all       == <<vars, ipOnly, events>>

Event == events < MaxEvents /\ events' = events + 1

BothInit == Init /\ IP!Init /\ events = 0

\* Steps of one loop, and of what concerns it alone.
QuotaRound == RoundStep /\ UNCHANGED <<ipOnly, events>>
QuotaEvent ==
  /\ Event
  /\ ApplyFails \/ \E n \in Nodes : JudgeFails(n) \/ Traffic(n) \/ SetLimit(n)
  /\ UNCHANGED ipOnly
IPRound == IP!RoundStep /\ UNCHANGED <<quotaOnly, events>>
IPEvent == Event /\ IP!Meanwhile /\ UNCHANGED quotaOnly

\* Steps of both.
NodeChanges ==
  /\ Event
  /\ \E n \in Nodes : ChangeNode(n)
  /\ IP!ChangeNode
Restarts ==
  /\ Event
  /\ Restart
  /\ \E reboot \in BOOLEAN :
       IP!Restart(reboot) /\ blocked' = IF reboot THEN {} ELSE blocked

BothNext == QuotaRound \/ QuotaEvent \/ IPRound \/ IPEvent \/ NodeChanges \/ Restarts

\* The two tickers fire for ever.
BothFairness == WF_all(QuotaRound) /\ WF_all(IPRound)

BothSpec == BothInit /\ [][BothNext]_all /\ BothFairness
-----------------------------------------------------------------------------
(***************************************************************************)
(* Properties.                                                             *)
(***************************************************************************)

\* Types of both loops: the one set only ever holds ports, the other only addresses
\* that nft accepts.
BothTypeOK == TypeOK /\ IP!TypeOK

\* After an undisturbed round the limits on addresses are in force, or LastError says
\* that they are not, and only for an address that nft does not take.
IPLimitsInForce == IP!LimitsInForce

\* README: both limits hold on the Agent alone, also after a restart; a raised or
\* reset quota frees its port, and an address that has left makes room for another.
\* Once nothing changes any more, both sets are the due ones for good.
EnforcersSettle == <>[](QuotaEnforced /\ IP!Enforced)
=============================================================================
