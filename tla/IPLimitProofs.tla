--------------------------- MODULE IPLimitProofs ---------------------------
(***************************************************************************)
(* Theorems about module IPLimit, for any nodes, ports and addresses.      *)
(*                                                                         *)
(* As for the quota, what an undisturbed round leaves follows from what it *)
(* has collected so far and from what the enforcer remembers: exactly the  *)
(* addresses that Check finds too many are blocked, or one of them is not  *)
(* taken.  That each node then keeps as many clients as its limit allows   *)
(* needs an argument about order: were they more, the greatest of them     *)
(* would have too many before it; were they fewer, the least of the others *)
(* would have too few.                                                     *)
(***************************************************************************)
EXTENDS IPLimit, FiniteSetTheorems, WellFoundedInduction, TLAPS

\* What is due on the nodes in S.
DueOn(S) == UNION {Over(n, limit[n]) : n \in S}

\* What an undisturbed round has collected: what is due on the nodes it has judged.
RoundSoFar ==
  round.pc = "judge" /\ ~moved =>
    /\ round.limit = limit /\ round.left \subseteq Limited
    /\ round.addresses = DueOn(Limited \ round.left)

\* What an undisturbed round leaves.
RoundLeaves ==
  round.pc = "wait" /\ ~moved => blocked = Due \/ (lastErr /\ Due \cap Refused # {})

IInv == TypeOK /\ MemoryIsKernel /\ RoundSoFar /\ RoundLeaves

-----------------------------------------------------------------------------
\* Between two rounds the state of the round has its type.
LEMMA WaitingType ==
  ASSUME Constants
  PROVE  Waiting \in [pc : {"wait", "judge"}, limit : [Nodes -> 0..MaxLimit],
                      left : SUBSET Nodes, addresses : SUBSET Addresses]
  BY DEF Constants, Waiting

LEMMA InitIInv == Constants /\ Init => IInv
  <1> SUFFICES ASSUME Constants, Init PROVE IInv
    OBVIOUS
  <1>1. TypeOK
    BY WaitingType DEF Constants, Init, TypeOK
  <1>2. MemoryIsKernel /\ RoundSoFar /\ RoundLeaves
    BY DEF Init, MemoryIsKernel, RoundSoFar, RoundLeaves, Waiting
  <1> QED BY <1>1, <1>2 DEF IInv

\* Whatever is over a limit is an address.
LEMMA OverType ==
  ASSUME NEW n, NEW m
  PROVE  Over(n, m) \subseteq Addresses
  BY DEF Over, Beyond, Active

LEMMA NextTypeOK == Constants /\ TypeOK /\ [Next]_vars => TypeOK'
  <1> SUFFICES ASSUME Constants, TypeOK, [Next]_vars PROVE TypeOK'
    OBVIOUS
  <1> USE DEF Constants, TypeOK
  <1>1. CASE Begin
    BY <1>1 DEF Begin, Limited
  <1>2. ASSUME NEW n \in Nodes, Judge(n) PROVE TypeOK'
    BY <1>2, OverType DEF Judge, Collected
  <1>3. ASSUME NEW n \in Nodes, JudgeFails(n) PROVE TypeOK'
    <2>1. PICK A \in SUBSET Active(port[n]) :
            round' = [round EXCEPT !.left = @ \ {n},
                                   !.addresses = @ \cup Beyond(A, round.limit[n])]
      BY <1>3 DEF JudgeFails
    <2>2. Beyond(A, round.limit[n]) \subseteq Addresses
      BY <2>1 DEF Beyond, Active
    <2>3. UNCHANGED <<port, limit, online, blocked, last, lastErr>> /\ moved' = TRUE
      BY <1>3 DEF JudgeFails
    <2> QED BY <2>1, <2>2, <2>3
  <1>4. CASE Apply
    BY <1>4, WaitingType DEF Apply, Judged
  <1>5. CASE Refuse \/ ApplyFails
    <2>1. /\ round' = Waiting /\ moved' \in {moved, TRUE} /\ lastErr' = TRUE
          /\ UNCHANGED <<port, limit, online, blocked, last>>
      BY <1>5 DEF Refuse, ApplyFails, NotApplied
    <2> QED BY <2>1, WaitingType
  <1>6. CASE Skip
    BY <1>6, WaitingType DEF Skip
  <1>7. ASSUME NEW n \in Nodes, NEW a \in Addresses, Connect(n, a) \/ Disconnect(n, a)
        PROVE  TypeOK'
    <2>1. moved' = TRUE /\ UNCHANGED <<port, limit, blocked, last, lastErr, round>>
      BY <1>7 DEF Connect, Disconnect
    <2>2. online' \subseteq Ports \X Addresses
      BY <1>7 DEF Connect, Disconnect
    <2> QED BY <2>1, <2>2
  <1>8. ASSUME NEW n \in Nodes, SetLimit(n) PROVE TypeOK'
    <2>1. PICK m \in 0..MaxLimit : limit' = [limit EXCEPT ![n] = m]
      BY <1>8 DEF SetLimit
    <2> QED BY <1>8, <2>1 DEF SetLimit
  <1>9. CASE ChangeNode
    BY <1>9 DEF ChangeNode
  <1>10. ASSUME NEW reboot \in BOOLEAN, Restart(reboot) PROVE TypeOK'
    <2>1. blocked' \in {blocked, {}} /\ online' \in {online, {}}
      BY <1>10 DEF Restart
    <2>2. /\ last' = None /\ lastErr' = FALSE /\ round' = Waiting /\ moved' = TRUE
          /\ UNCHANGED <<port, limit>>
      BY <1>10 DEF Restart
    <2> QED BY <2>1, <2>2, WaitingType
  <1>11. CASE UNCHANGED vars
    BY <1>11 DEF vars
  <1> QED
    BY <1>1, <1>2, <1>3, <1>4, <1>5, <1>6, <1>7, <1>8, <1>9, <1>10, <1>11
    DEF Next, RoundStep, Meanwhile

LEMMA NextMemory == MemoryIsKernel /\ [Next]_vars => MemoryIsKernel'
  BY DEF MemoryIsKernel, Next, RoundStep, Meanwhile, Begin, Judge, JudgeFails, Apply, Refuse,
         ApplyFails, NotApplied, Skip, Connect, Disconnect, SetLimit, ChangeNode, Restart,
         vars

-----------------------------------------------------------------------------
\* One judged node adds what is due on it to what the round has collected.
LEMMA JudgeCollects ==
  ASSUME TypeOK, RoundSoFar, ~moved, NEW n \in Nodes, Judge(n)
  PROVE  round'.addresses = DueOn(Limited \ round'.left)
  <1>1. round.limit = limit /\ n \in round.left /\ n \in Limited
    BY DEF RoundSoFar, Judge
  <1>2. Limited \ round'.left = (Limited \ round.left) \cup {n}
    BY <1>1 DEF Judge, TypeOK
  <1>3. DueOn(Limited \ round'.left) = DueOn(Limited \ round.left) \cup Over(n, limit[n])
    BY <1>2 DEF DueOn
  <1> QED BY <1>1, <1>3 DEF Judge, RoundSoFar, TypeOK, Collected

\* A round without interference that has judged every node has collected what is due.
LEMMA CollectedIsDue ==
  ASSUME RoundSoFar, Judged, ~moved
  PROVE  round.addresses = Due
  BY DEF RoundSoFar, Judged, Due, DueOn

LEMMA NextRound == Constants /\ IInv /\ [Next]_vars => (RoundSoFar /\ RoundLeaves)'
  <1> SUFFICES ASSUME Constants, IInv, [Next]_vars PROVE (RoundSoFar /\ RoundLeaves)'
    OBVIOUS
  <1> USE DEF IInv
  <1>1. CASE Begin
    <2>1. DueOn(Limited \ Limited) = {}
      BY DEF DueOn
    <2>2. DueOn(Limited \ Limited)' = DueOn(Limited \ Limited)
      BY <1>1 DEF Begin, DueOn
    <2> QED BY <1>1, <2>1, <2>2 DEF Begin, RoundSoFar, RoundLeaves, Limited
  <1>2. ASSUME NEW n \in Nodes, Judge(n) PROVE (RoundSoFar /\ RoundLeaves)'
    <2>1. round'.pc = "judge" /\ round'.limit = round.limit /\ round'.left \subseteq round.left
      BY <1>2 DEF Judge, TypeOK
    <2>2. ~moved => round'.addresses = DueOn(Limited \ round'.left)
      BY <1>2, JudgeCollects
    <2>3. UNCHANGED <<port, limit, online, moved>>
      BY <1>2 DEF Judge
    <2>4. (DueOn(Limited \ round.left))' = DueOn(Limited \ round'.left)
      BY <2>3 DEF DueOn, Limited, Over, Active
    <2> QED BY <1>2, <2>1, <2>2, <2>3, <2>4 DEF Judge, RoundSoFar, RoundLeaves, Limited
  <1>3. CASE Apply
    <2>1. ~moved => blocked' = Due
      BY <1>3, CollectedIsDue DEF Apply
    <2>2. Due' = Due
      BY <1>3 DEF Apply, Due, Over, Active, Limited
    <2> QED BY <1>3, <2>1, <2>2 DEF Apply, RoundSoFar, RoundLeaves, Waiting
  <1>4. CASE Skip
    <2>1. round.addresses # None
      BY DEF TypeOK, Constants
    <2>2. ~moved => blocked = Due
      BY <1>4, <2>1, CollectedIsDue DEF Skip, Same, MemoryIsKernel
    <2>3. Due' = Due
      BY <1>4 DEF Skip, Due, Over, Active, Limited
    <2> QED BY <1>4, <2>2, <2>3 DEF Skip, RoundSoFar, RoundLeaves, Waiting
  <1>7. CASE Refuse
    <2>1. ~moved => Due \cap Refused # {}
      BY <1>7, CollectedIsDue DEF Refuse
    <2>2. Due' = Due
      BY <1>7 DEF Refuse, NotApplied, Due, Over, Active, Limited
    <2> QED BY <1>7, <2>1, <2>2 DEF Refuse, NotApplied, RoundSoFar, RoundLeaves, Waiting
  <1>5. CASE moved'
    BY <1>5 DEF RoundSoFar, RoundLeaves
  <1>6. CASE UNCHANGED vars
    <2>1. Due' = Due /\ DueOn(Limited \ round.left)' = DueOn(Limited \ round.left)
      BY <1>6 DEF vars, Due, DueOn, Over, Active, Limited
    <2> QED BY <1>6, <2>1 DEF vars, RoundSoFar, RoundLeaves, Limited
  <1> QED
    BY <1>1, <1>2, <1>3, <1>4, <1>5, <1>6, <1>7
    DEF Next, RoundStep, Meanwhile, ApplyFails, Restart, JudgeFails,
        Connect, Disconnect, SetLimit, ChangeNode

LEMMA NextIInv == Constants /\ IInv /\ [Next]_vars => IInv'
  BY NextTypeOK, NextMemory, NextRound DEF IInv

-----------------------------------------------------------------------------
\* A finite set of numbers that is not empty has a greatest one: the one with most
\* others before it.
LEMMA Greatest ==
  ASSUME NEW S \in SUBSET Nat, IsFiniteSet(S), S # {}
  PROVE  \E x \in S : \A y \in S : y <= x
  <1> DEFINE Before(x) == Cardinality({b \in S : b < x})
             After(x)  == Cardinality(S) - Before(x)
             T         == {After(x) : x \in S}
  <1>1. ASSUME NEW x PROVE /\ IsFiniteSet({b \in S : b < x}) /\ Before(x) \in Nat
                           /\ After(x) \in Nat
    <2>1. {b \in S : b < x} \in SUBSET S
      OBVIOUS
    <2>2. Before(x) <= Cardinality(S) /\ IsFiniteSet({b \in S : b < x})
      BY <2>1, FS_Subset
    <2>3. Before(x) \in Nat /\ Cardinality(S) \in Nat
      BY <2>2, FS_CardinalityType
    <2> QED BY <2>2, <2>3
  <1> HIDE DEF After
  <1>2. T \subseteq Nat /\ T # {}
    BY <1>1
  <1>3. PICK t \in T : \A u \in T : ~(<<u, t>> \in OpToRel(<, Nat))
    <2> HIDE DEF T
    <2> QED BY <1>2, NatLessThanWellFounded, WFMin
  <1>4. \A u \in T : ~(u < t)
    BY <1>2, <1>3 DEF OpToRel
  <1>5. PICK x \in S : t = After(x)
    BY <1>3
  <1>6. ASSUME NEW y \in S, x < y PROVE FALSE
    <2> HIDE DEF Before, After, T
    <2>1. {b \in S : b < x} \cup {x} \in SUBSET {b \in S : b < y}
      <3>1. x \in Nat /\ y \in Nat /\ S \subseteq Nat
        OBVIOUS
      <3>2. \A b \in S : b < x => b < y
        BY <1>6, <3>1
      <3> QED BY <1>6, <3>2
    <2>2. Cardinality({b \in S : b < x} \cup {x}) = Before(x) + 1
      <3>1. x \notin {b \in S : b < x}
        OBVIOUS
      <3> QED BY <3>1, <1>1, FS_AddElement DEF Before
    <2>3. Cardinality({b \in S : b < x} \cup {x}) <= Before(y)
      BY <2>1, <1>1, FS_Subset DEF Before
    <2>4. ~(After(y) < After(x))
      BY <1>4, <1>5 DEF T
    <2>5. Cardinality(S) \in Nat
      BY FS_CardinalityType
    <2>6. Before(x) \in Nat /\ Before(y) \in Nat
      BY <1>1
    <2> QED BY <2>2, <2>3, <2>4, <2>5, <2>6 DEF After
  <1> QED BY <1>6

\* Of a finite set, Beyond leaves at most m numbers.
LEMMA AtMost ==
  ASSUME NEW A \in SUBSET Nat, IsFiniteSet(A), NEW m \in Nat
  PROVE  Cardinality(A \ Beyond(A, m)) <= m
  <1> DEFINE S == A \ Beyond(A, m)
  <1>1. S \in SUBSET Nat /\ S \in SUBSET A /\ IsFiniteSet(S)
    BY FS_Subset
  <1>2. CASE S = {}
    BY <1>2, FS_EmptySet
  <1>3. CASE S # {}
    <2>1. PICK x \in S : \A y \in S : y <= x
      BY <1>1, <1>3, Greatest
    <2> DEFINE B == {b \in A : b < x}
    <2>2. B \in SUBSET A
      OBVIOUS
    <2>3. IsFiniteSet(B)
      BY <2>2, FS_Subset
    <2>4. Cardinality(B) \in Nat
      BY <2>3, FS_CardinalityType
    <2>5. ~(Cardinality(B) >= m)
      BY <2>1 DEF Beyond
    <2>6. S \in SUBSET (B \cup {x})
      BY <1>1, <2>1
    <2>7. IsFiniteSet(B \cup {x}) /\ Cardinality(B \cup {x}) = Cardinality(B) + 1
      <3>1. x \notin B
        BY <1>1
      <3> HIDE DEF B
      <3> QED BY <3>1, <2>3, FS_AddElement
    <2>8. Cardinality(S) <= Cardinality(B \cup {x}) /\ Cardinality(S) \in Nat
      <3> HIDE DEF B, S
      <3> QED BY <1>1, <2>6, <2>7, FS_Subset, FS_CardinalityType
    <2> HIDE DEF B
    <2> QED BY <2>4, <2>5, <2>7, <2>8
  <1> QED BY <1>2, <1>3

\* Of a finite set, Beyond takes nothing or leaves at least m numbers: those before the
\* least it takes.
LEMMA AtLeast ==
  ASSUME NEW A \in SUBSET Nat, IsFiniteSet(A), NEW m \in Nat, Beyond(A, m) # {}
  PROVE  Cardinality(A \ Beyond(A, m)) >= m
  <1> DEFINE T == Beyond(A, m)
             K == A \ T
  <1>1. T \subseteq A /\ T # {}
    BY DEF Beyond
  <1>2. PICK x \in T : \A y \in T : ~(<<y, x>> \in OpToRel(<, Nat))
    <2> HIDE DEF T
    <2> QED BY <1>1, NatLessThanWellFounded, WFMin
  <1>3. \A y \in T : ~(y < x)
    BY <1>1, <1>2 DEF OpToRel
  <1> DEFINE B == {b \in A : b < x}
  <1>4. x \in A /\ Cardinality(B) >= m
    BY <1>1, <1>2 DEF Beyond
  <1>5. B \in SUBSET K
    BY <1>3
  <1>6. IsFiniteSet(K) /\ Cardinality(K) \in Nat
    BY FS_Subset, FS_CardinalityType
  <1>7. IsFiniteSet(B) /\ Cardinality(B) \in Nat /\ Cardinality(B) <= Cardinality(K)
    <2> HIDE DEF B, K
    <2> QED BY <1>5, <1>6, FS_Subset, FS_CardinalityType
  <1> HIDE DEF B
  <1> QED BY <1>4, <1>6, <1>7

\* Where exactly the addresses that Check finds too many are blocked, each node keeps as
\* many clients as its limit allows.
LEMMA DueIsInForce == ASSUME Constants, TypeOK, blocked = Due PROVE InForce
  <1> DEFINE kept == [n \in Limited |-> Clients(n) \ Over(n, limit[n])]
  <1>1. ASSUME NEW n \in Limited
        PROVE  /\ limit[n] \in Nat /\ Clients(n) \in SUBSET Nat /\ IsFiniteSet(Clients(n))
               /\ Clients(n) \subseteq Addresses
               /\ Over(n, limit[n]) = Beyond(Clients(n), limit[n])
               /\ Over(n, limit[n]) \subseteq Clients(n)
    <2>1. limit[n] \in Nat
      BY DEF TypeOK, Limited, Constants
    <2>2. Clients(n) \in SUBSET Addresses
      BY DEF Clients, Active
    <2>3. Clients(n) \in SUBSET Nat /\ IsFiniteSet(Clients(n))
      BY <2>2, FS_Subset DEF Constants
    <2>4. Over(n, limit[n]) = Beyond(Clients(n), limit[n])
      BY DEF Over, Clients, Beyond
    <2> QED BY <2>1, <2>2, <2>3, <2>4 DEF Beyond
  <1>2. kept \in [Limited -> SUBSET Addresses]
    BY <1>1
  <1>3. ASSUME NEW n \in Limited
        PROVE  /\ kept[n] \subseteq Clients(n) /\ Cardinality(kept[n]) <= limit[n]
               /\ kept[n] = Clients(n) \/ Cardinality(kept[n]) = limit[n]
    <2>1. kept[n] = Clients(n) \ Beyond(Clients(n), limit[n])
      BY <1>1
    <2>2. Cardinality(kept[n]) <= limit[n]
      BY <1>1, <2>1, AtMost
    <2>3. CASE Beyond(Clients(n), limit[n]) = {}
      BY <2>1, <2>2, <2>3
    <2>4. CASE Beyond(Clients(n), limit[n]) # {}
      <3>1. Cardinality(kept[n]) >= limit[n]
        BY <1>1, <2>1, <2>4, AtLeast
      <3>2. Cardinality(kept[n]) \in Nat
        BY <1>1, <2>1, FS_Subset, FS_CardinalityType
      <3> HIDE DEF kept
      <3> QED BY <1>1, <2>1, <2>2, <3>1, <3>2
    <2> QED BY <2>3, <2>4
  <1>4. blocked = UNION {Clients(n) \ kept[n] : n \in Limited}
    <2>1. \A n \in Limited : Clients(n) \ kept[n] = Over(n, limit[n])
      BY <1>1
    <2> HIDE DEF kept
    <2> QED BY <2>1 DEF Due
  <1> HIDE DEF kept
  <1> QED BY <1>2, <1>3, <1>4 DEF InForce

\* An address found too many is one of too many clients.
LEMMA DueIsCrowded ==
  ASSUME Constants, TypeOK, Due \cap Refused # {}
  PROVE  Unenforceable
  <1>1. PICK n \in Limited : Over(n, limit[n]) \cap Refused # {}
    BY DEF Due
  <1> DEFINE A == Clients(n)
             m == limit[n]
  <1>2. PICK a \in A : a \in Refused /\ Cardinality({b \in A : b < a}) >= m
    BY <1>1 DEF Over, Beyond, Clients
  <1> DEFINE B == {b \in A : b < a}
  <1>3. A \in SUBSET Addresses /\ m \in Nat /\ a \in Nat
    <2>1. A \in SUBSET Addresses
      BY DEF Clients, Active
    <2>2. m \in Nat
      BY DEF TypeOK, Limited, Constants
    <2> QED BY <1>2, <2>1, <2>2 DEF Constants
  <1>4. IsFiniteSet(A) /\ Cardinality(A) \in Nat
    BY <1>3, FS_Subset, FS_CardinalityType DEF Constants
  <1>5. B \in SUBSET A /\ a \notin B
    BY <1>3
  <1>6. IsFiniteSet(B) /\ Cardinality(B) \in Nat
    <2> HIDE DEF B, A
    <2> QED BY <1>4, <1>5, FS_Subset, FS_CardinalityType
  <1>7. B \cup {a} \in SUBSET A /\ Cardinality(B \cup {a}) = Cardinality(B) + 1
    <2> HIDE DEF B, A
    <2> QED BY <1>2, <1>5, <1>6, FS_AddElement
  <1>8. Cardinality(B \cup {a}) <= Cardinality(A)
    <2> HIDE DEF B, A
    <2> QED BY <1>4, <1>7, FS_Subset
  <1>9. Cardinality(A) > m
    <2>1. Cardinality(B) >= m
      BY <1>2
    <2> HIDE DEF B, A, m
    <2> QED BY <1>3, <1>4, <1>6, <1>7, <1>8, <2>1
  <1> QED BY <1>2, <1>9 DEF Unenforceable

LEMMA LeavesInForce == Constants /\ TypeOK /\ RoundLeaves => LimitsInForce
  BY DueIsInForce, DueIsCrowded DEF RoundLeaves, LimitsInForce

-----------------------------------------------------------------------------
\* At every time the variables have their types (no address that nft refuses is in the
\* set), the enforcer remembers what the kernel has, and after an undisturbed round each
\* limited node keeps as many clients as its limit allows, unless an address that nft
\* refuses is among too many clients of one, which LastError then tells.
THEOREM RoundKeepsLimits ==
  ASSUME Constants
  PROVE  Spec => [](TypeOK /\ MemoryIsKernel /\ LimitsInForce)
  <1>1. Init => IInv
    BY InitIInv
  <1>2. IInv /\ [Next]_vars => IInv'
    BY NextIInv
  <1>3. IInv => TypeOK /\ MemoryIsKernel /\ LimitsInForce
    BY LeavesInForce DEF IInv
  <1> QED BY <1>1, <1>2, <1>3, PTL DEF Spec
=============================================================================
