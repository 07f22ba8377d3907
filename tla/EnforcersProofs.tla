-------------------------- MODULE EnforcersProofs --------------------------
(***************************************************************************)
(* Theorems about modules Quota and Enforcers, for any nodes, ports,       *)
(* addresses and bounds.                                                   *)
(*                                                                         *)
(* RoundIsExact is not inductive: that the set loaded at the end of an     *)
(* undisturbed round is the due one follows from what the round has        *)
(* collected so far, RoundSoFar, and, when the rules are not loaded, from  *)
(* MemoryIsKernel.                                                         *)
(*                                                                         *)
(* A behavior of both loops is a behavior of each, so what is shown of     *)
(* each alone, here and in IPLimitProofs, holds of the Agent that runs     *)
(* both.                                                                   *)
(***************************************************************************)
EXTENDS Enforcers, TLAPS

-----------------------------------------------------------------------------
(***************************************************************************)
(* The quota alone.                                                        *)
(***************************************************************************)

\* The due ports of the limited nodes in S.
DueOf(S) == {port[n] : n \in {k \in S : limit[k] > 0 /\ used[k] >= limit[k]}} \cap Ports

\* What an undisturbed round has collected: the due ports of the nodes it has judged.
RoundSoFar ==
  round.pc = "judge" /\ ~moved =>
    /\ round.limit = limit /\ round.left \subseteq Limited
    /\ round.ports = DueOf(Nodes \ round.left)

IInv == TypeOK /\ MemoryIsKernel /\ RoundSoFar /\ RoundIsExact

-----------------------------------------------------------------------------
LEMMA DueOfAll == Due = DueOf(Nodes)
  BY DEF Due, DueOf

LEMMA InitIInv == Init => IInv
  <1> SUFFICES ASSUME Init PROVE IInv
    OBVIOUS
  <1>1. TypeOK
    BY QuotaAssumption DEF Init, TypeOK, NoLimit, NoFlag, Waiting
  <1>2. MemoryIsKernel /\ RoundSoFar /\ RoundIsExact
    BY DEF Init, MemoryIsKernel, RoundSoFar, RoundIsExact, Waiting
  <1> QED BY <1>1, <1>2 DEF IInv

\* The flags stay Boolean whatever is marked.
LEMMA MarkedType ==
  ASSUME TypeOK, NEW n \in Nodes
  PROVE  Marked(n) \in [Nodes -> BOOLEAN]
  BY DEF TypeOK, Marked, UsedUp

LEMMA NextTypeOK == TypeOK /\ [Next]_vars => TypeOK'
  <1> SUFFICES ASSUME TypeOK, [Next]_vars PROVE TypeOK'
    OBVIOUS
  <1> USE QuotaAssumption DEF TypeOK
  <1>1. CASE Begin
    BY <1>1 DEF Begin, stored, Limited
  <1>2. ASSUME NEW n \in Nodes, Judge(n) PROVE TypeOK'
    BY <1>2, MarkedType DEF Judge, PortOf
  <1>3. ASSUME NEW n \in Nodes, JudgeFails(n) PROVE TypeOK'
    <2>1. count' \in [changes : 0..MaxChanges, faults : 0..MaxFaults]
      BY <1>3 DEF JudgeFails, Fault
    <2>2. exceeded' \in [Nodes -> BOOLEAN]
      BY <1>3, MarkedType DEF JudgeFails
    <2>3. PICK blind \in BOOLEAN :
            round' = [round EXCEPT !.left = @ \ {n},
                        !.ports = IF UsedUp(n) /\ ~blind THEN @ \cup PortOf(n) ELSE @]
      BY <1>3 DEF JudgeFails
    <2>4. UNCHANGED <<port, used, limit, blocked, last>> /\ moved' = TRUE
      BY <1>3 DEF JudgeFails
    <2> QED BY <2>1, <2>2, <2>3, <2>4 DEF PortOf
  <1>4. CASE Apply
    BY <1>4 DEF Apply, Judged, Waiting, NoLimit, NoFlag, stored
  <1>5. CASE ApplyFails
    <2>1. count' \in [changes : 0..MaxChanges, faults : 0..MaxFaults]
      BY <1>5 DEF ApplyFails, Fault
    <2> QED BY <1>5, <2>1 DEF ApplyFails, Remembered, Waiting, NoLimit, NoFlag, stored
  <1>6. CASE Skip
    BY <1>6 DEF Skip, Waiting, NoLimit, NoFlag, stored
  <1>7. ASSUME NEW n \in Nodes, Traffic(n) PROVE TypeOK'
    BY <1>7 DEF Traffic
  <1>8. ASSUME NEW n \in Nodes, SetLimit(n) PROVE TypeOK'
    <2>1. count' \in [changes : 0..MaxChanges, faults : 0..MaxFaults]
      BY <1>8 DEF SetLimit, Change
    <2>2. PICK b \in 0..MaxBytes : limit' = [limit EXCEPT ![n] = b]
      BY <1>8 DEF SetLimit
    <2> QED BY <1>8, <2>1, <2>2 DEF SetLimit
  <1>9. ASSUME NEW n \in Nodes, ChangeNode(n) PROVE TypeOK'
    <2>1. count' \in [changes : 0..MaxChanges, faults : 0..MaxFaults]
      BY <1>9 DEF ChangeNode, Change
    <2>2. PICK p \in Ports \cup {Gone} : port' = [port EXCEPT ![n] = p]
      BY <1>9 DEF ChangeNode
    <2> QED BY <1>9, <2>1, <2>2 DEF ChangeNode
  <1>10. CASE Restart
    <2>1. count' \in [changes : 0..MaxChanges, faults : 0..MaxFaults]
      BY <1>10 DEF Restart, Fault
    <2> QED BY <1>10, <2>1 DEF Restart, Waiting, NoLimit, NoFlag, stored
  <1>11. CASE UNCHANGED vars
    BY <1>11 DEF vars, stored
  <1> QED
    BY <1>1, <1>2, <1>3, <1>4, <1>5, <1>6, <1>7, <1>8, <1>9, <1>10, <1>11
    DEF Next, RoundStep

LEMMA NextMemory ==
  TypeOK /\ MemoryIsKernel /\ [Next]_vars => MemoryIsKernel'
  BY DEF MemoryIsKernel, Next, RoundStep, Begin, Judge, JudgeFails, Apply, ApplyFails, Skip,
         Traffic, SetLimit, ChangeNode, Restart, Remembered, vars, stored

-----------------------------------------------------------------------------
\* One judged node adds its port to what the round has collected, if it is due.
LEMMA JudgeCollects ==
  ASSUME TypeOK, RoundSoFar, ~moved, NEW n \in Nodes, Judge(n)
  PROVE  round'.ports = DueOf(Nodes \ round'.left)
  <1>1. round.limit = limit /\ n \in round.left /\ limit[n] > 0
    BY DEF RoundSoFar, Judge, Limited
  <1>2. Nodes \ round'.left = (Nodes \ round.left) \cup {n}
    BY <1>1 DEF Judge, TypeOK
  <1>3. DueOf(Nodes \ round'.left)
          = DueOf(Nodes \ round.left) \cup (IF UsedUp(n) THEN PortOf(n) ELSE {})
    BY <1>1, <1>2 DEF DueOf, UsedUp, PortOf
  <1> QED BY <1>3 DEF Judge, RoundSoFar, TypeOK

\* A round without interference that has judged every node has collected what is due.
LEMMA CollectedIsDue ==
  ASSUME RoundSoFar, Judged, ~moved
  PROVE  round.ports = Due
  BY DueOfAll DEF RoundSoFar, Judged

LEMMA NextRound == IInv /\ [Next]_vars => (RoundSoFar /\ RoundIsExact)'
  <1> SUFFICES ASSUME IInv, [Next]_vars PROVE (RoundSoFar /\ RoundIsExact)'
    OBVIOUS
  <1> USE DEF IInv
  <1>1. CASE Begin
    <2>1. DueOf(Nodes \ Limited) = {}
      BY DEF DueOf, Limited
    <2> QED BY <1>1, <2>1 DEF Begin, RoundSoFar, RoundIsExact, stored, DueOf, Limited
  <1>2. ASSUME NEW n \in Nodes, Judge(n) PROVE (RoundSoFar /\ RoundIsExact)'
    <2>1. round'.pc = "judge" /\ round'.limit = round.limit /\ round'.left \subseteq round.left
      BY <1>2 DEF Judge, TypeOK
    <2>2. ~moved => round'.ports = DueOf(Nodes \ round'.left)
      BY <1>2, JudgeCollects
    <2>3. UNCHANGED <<port, used, limit, moved>>
      BY <1>2 DEF Judge
    <2> QED BY <1>2, <2>1, <2>2, <2>3 DEF Judge, RoundSoFar, RoundIsExact, DueOf, Limited
  <1>3. CASE Apply
    <2>1. ~moved => blocked' = Due
      BY <1>3, CollectedIsDue DEF Apply
    <2> QED BY <1>3, <2>1 DEF Apply, RoundSoFar, RoundIsExact, Due, stored, Waiting
  <1>4. CASE Skip
    <2>1. round.ports # None
      BY QuotaAssumption DEF TypeOK
    <2>2. ~moved => blocked = Due
      BY <1>4, <2>1, CollectedIsDue DEF Skip, Same, MemoryIsKernel
    <2> QED BY <1>4, <2>2 DEF Skip, RoundSoFar, RoundIsExact, Due, stored, Waiting
  <1>5. CASE moved'
    BY <1>5 DEF RoundSoFar, RoundIsExact
  <1>6. CASE UNCHANGED vars
    BY <1>6 DEF vars, stored, RoundSoFar, RoundIsExact, Due, DueOf, Limited
  <1> QED
    BY <1>1, <1>2, <1>3, <1>4, <1>5, <1>6
    DEF Next, RoundStep, ApplyFails, Restart, JudgeFails, Traffic, SetLimit, ChangeNode

LEMMA NextIInv == IInv /\ [Next]_vars => IInv'
  BY NextTypeOK, NextMemory, NextRound DEF IInv

LEMMA SpecIInv == Spec => []IInv
  BY InitIInv, NextIInv, PTL DEF Spec

-----------------------------------------------------------------------------
\* Every variable keeps its type: the set holds ports, and never the value that stands
\* for a node that is missing.
THEOREM TypeCorrect == Spec => []TypeOK
  <1>1. IInv => TypeOK
    BY DEF IInv
  <1> QED BY <1>1, SpecIInv, PTL

\* What the enforcer remembers to have loaded is what the kernel has.
THEOREM MemoryTrue == Spec => []MemoryIsKernel
  <1>1. IInv => MemoryIsKernel
    BY DEF IInv
  <1> QED BY <1>1, SpecIInv, PTL

\* A round during which nothing changed or failed leaves exactly the due ports
\* blocked, with any nodes and ports and after any number of failures and restarts.
THEOREM RoundExact == Spec => []RoundIsExact
  <1>1. IInv => RoundIsExact
    BY DEF IInv
  <1> QED BY <1>1, SpecIInv, PTL

-----------------------------------------------------------------------------
(***************************************************************************)
(* Both loops.                                                             *)
(***************************************************************************)

IPProofs == INSTANCE IPLimitProofs WITH limit <- ipLimit, blocked <- ipBlocked,
              last <- ipLast, lastErr <- ipErr, round <- ipRound, moved <- ipMoved

-----------------------------------------------------------------------------
\* What concerns one loop alone does not change the nodes.
LEMMA SamePort == [BothNext]_all /\ ~NodeChanges => UNCHANGED port
  <1> SUFFICES ASSUME [BothNext]_all, ~NodeChanges PROVE UNCHANGED port
    OBVIOUS
  <1>1. CASE IPRound
    BY <1>1 DEF IPRound, IP!RoundStep, IP!Begin, IP!Judge, IP!Apply, IP!Skip,
                IP!Refuse, IP!NotApplied
  <1>2. CASE IPEvent
    BY <1>2 DEF IPEvent, IP!Meanwhile, IP!JudgeFails, IP!ApplyFails, IP!NotApplied,
                IP!Connect, IP!Disconnect, IP!SetLimit
  <1>3. CASE QuotaRound
    BY <1>3 DEF QuotaRound, RoundStep, Begin, Judge, Apply, Skip, stored
  <1>4. CASE QuotaEvent
    BY <1>4 DEF QuotaEvent, ApplyFails, JudgeFails, Traffic, SetLimit, stored
  <1>5. CASE Restarts
    BY <1>5 DEF Restarts, Restart, stored
  <1>6. CASE UNCHANGED all
    BY <1>6 DEF all, vars, stored
  <1> QED BY <1>1, <1>2, <1>3, <1>4, <1>5, <1>6 DEF BothNext

\* A step of both is a step of the quota, or none.
LEMMA QuotaStep == [BothNext]_all => [Next]_vars
  <1> SUFFICES ASSUME [BothNext]_all PROVE [Next]_vars
    OBVIOUS
  <1>1. CASE QuotaRound
    BY <1>1 DEF QuotaRound, Next
  <1>2. CASE QuotaEvent
    BY <1>2 DEF QuotaEvent, Next
  <1>3. CASE (IPRound \/ IPEvent) /\ ~NodeChanges
    BY <1>3, SamePort DEF IPRound, IPEvent, quotaOnly, vars, stored
  <1>4. CASE NodeChanges \/ Restarts
    BY <1>4 DEF NodeChanges, Restarts, Next
  <1>5. CASE UNCHANGED all
    BY <1>5 DEF all
  <1> QED BY <1>1, <1>2, <1>3, <1>4, <1>5 DEF BothNext

\* A step of both is a step of the limit on addresses, or none.
LEMMA IPStep == [BothNext]_all => [IP!Next]_(IP!vars)
  <1> SUFFICES ASSUME [BothNext]_all PROVE [IP!Next]_(IP!vars)
    OBVIOUS
  <1>1. CASE (QuotaRound \/ QuotaEvent) /\ ~NodeChanges
    <2>1. UNCHANGED port
      BY <1>1, SamePort
    <2>2. UNCHANGED ipOnly
      BY <1>1 DEF QuotaRound, QuotaEvent
    <2> QED BY <2>1, <2>2 DEF ipOnly, IP!vars
  <1>2. CASE IPRound \/ IPEvent
    BY <1>2 DEF IPRound, IPEvent, IP!Next
  <1>3. CASE NodeChanges \/ Restarts
    BY <1>3 DEF NodeChanges, Restarts, IP!Next
  <1>4. CASE UNCHANGED all
    BY <1>4 DEF all, vars, stored, ipOnly, IP!vars
  <1> QED BY <1>1, <1>2, <1>3, <1>4 DEF BothNext

-----------------------------------------------------------------------------
\* The Agent that runs both loops runs each as its module says.
THEOREM BothAreEach == BothSpec => Spec /\ IP!Spec
  BY QuotaStep, IPStep, PTL DEF BothSpec, BothInit, Spec, IP!Spec

\* Next to the other loop too, an undisturbed round of the quota leaves exactly the due
\* ports blocked.
THEOREM QuotaExact == BothSpec => [](TypeOK /\ RoundIsExact)
  BY BothAreEach, TypeCorrect, RoundExact, PTL

\* Two instances of the same definitions agree.
LEMMA IPSame ==
  /\ IP!Init => IPProofs!Init
  /\ [IP!Next]_(IP!vars) => [IPProofs!Next]_(IPProofs!vars)
  /\ IPProofs!TypeOK /\ IPProofs!LimitsInForce => IP!TypeOK /\ IPLimitsInForce
  <1>1. \A S : IP!Cardinality(S) = IPProofs!Cardinality(S)
    BY DEF IP!Cardinality, IPProofs!Cardinality, IP!IsFiniteSet, IPProofs!IsFiniteSet
  <1>2. \A A, m : IP!Beyond(A, m) = IPProofs!Beyond(A, m)
    BY <1>1 DEF IP!Beyond, IPProofs!Beyond
  <1>3. \A n, m : IP!Over(n, m) = IPProofs!Over(n, m)
    BY <1>2 DEF IP!Over, IPProofs!Over, IP!Active, IPProofs!Active
  <1>4. IP!Init => IPProofs!Init
    BY DEF IP!Init, IPProofs!Init, IP!Waiting, IPProofs!Waiting
  <1>5. [IP!Next]_(IP!vars) => [IPProofs!Next]_(IPProofs!vars)
    <2>1. IP!RoundStep => IPProofs!RoundStep
      BY <1>3 DEF IP!RoundStep, IP!Begin, IP!Judge, IP!Apply, IP!Skip, IP!Judged, IP!Same,
         IP!Collected, IP!Waiting, IP!Limited, IP!Refuse, IP!NotApplied,
         IPProofs!RoundStep, IPProofs!Begin, IPProofs!Judge, IPProofs!Apply, IPProofs!Skip,
         IPProofs!Judged, IPProofs!Same, IPProofs!Collected, IPProofs!Waiting,
         IPProofs!Limited, IPProofs!Refuse, IPProofs!NotApplied
    <2>2. IP!Meanwhile => IPProofs!Meanwhile
      BY <1>2 DEF IP!Meanwhile, IP!JudgeFails, IP!ApplyFails, IP!NotApplied, IP!Connect,
         IP!Disconnect, IP!SetLimit, IP!Judged, IP!Same, IP!Waiting, IP!Active,
         IPProofs!Meanwhile, IPProofs!JudgeFails, IPProofs!ApplyFails, IPProofs!NotApplied,
         IPProofs!Connect, IPProofs!Disconnect, IPProofs!SetLimit, IPProofs!Judged,
         IPProofs!Same, IPProofs!Waiting, IPProofs!Active
    <2>3. IP!ChangeNode => IPProofs!ChangeNode
      BY DEF IP!ChangeNode, IPProofs!ChangeNode
    <2>4. ASSUME NEW reboot \in BOOLEAN, IP!Restart(reboot) PROVE IPProofs!Restart(reboot)
      BY <2>4 DEF IP!Restart, IPProofs!Restart, IP!Waiting, IPProofs!Waiting
    <2>5. IP!vars = IPProofs!vars /\ IP!vars' = IPProofs!vars'
      BY DEF IP!vars, IPProofs!vars
    <2> QED BY <2>1, <2>2, <2>3, <2>4, <2>5 DEF IP!Next, IPProofs!Next
  <1>6. IPProofs!TypeOK /\ IPProofs!LimitsInForce => IP!TypeOK /\ IPLimitsInForce
    <2>1. IPProofs!TypeOK => IP!TypeOK
      BY DEF IP!TypeOK, IPProofs!TypeOK
    <2>2. IP!Limited = IPProofs!Limited /\ \A n : IP!Clients(n) = IPProofs!Clients(n)
      BY DEF IP!Limited, IPProofs!Limited, IP!Clients, IPProofs!Clients, IP!Active,
             IPProofs!Active
    <2>3. IPProofs!InForce => IP!InForce
      BY <1>1, <2>2 DEF IP!InForce, IPProofs!InForce
    <2>4. IPProofs!Unenforceable => IP!Unenforceable
      BY <1>1, <2>2 DEF IP!Unenforceable, IPProofs!Unenforceable
    <2> QED BY <2>1, <2>3, <2>4 DEF IPLimitsInForce, IP!LimitsInForce, IPProofs!LimitsInForce
  <1> QED BY <1>4, <1>5, <1>6

\* Next to the other loop too, after an undisturbed round of the limit on addresses each
\* limited node keeps as many clients as its limit allows, unless an address that nft
\* refuses is among too many clients of one, which LastError then tells.
THEOREM IPInForce == BothSpec => [](IP!TypeOK /\ IPLimitsInForce)
  <1>1. IPProofs!Constants
    BY EnforcersAssumption
    DEF IP!Constants, IPProofs!Constants, IP!IsFiniteSet, IPProofs!IsFiniteSet
  <1>2. IPProofs!Spec => [](/\ IPProofs!TypeOK /\ IPProofs!MemoryIsKernel
                            /\ IPProofs!LimitsInForce)
    BY <1>1, IPProofs!RoundKeepsLimits, PTL
  <1> QED BY <1>2, IPSame, BothAreEach, PTL DEF IP!Spec, IPProofs!Spec

\* Both loops stay well typed next to each other.
THEOREM BothTyped == BothSpec => []BothTypeOK
  BY QuotaExact, IPInForce, PTL DEF BothTypeOK
=============================================================================
