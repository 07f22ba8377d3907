-------------------------- MODULE EnrollmentProofs --------------------------
(***************************************************************************)
(* Proofs about Enrollment, for any number of requests, tokens and hosts.  *)
(***************************************************************************)
EXTENDS Enrollment, TLAPS

(***************************************************************************)
(* Tokens and admitted machines name each other; what a registration that  *)
(* has come to some stage has written is there, unless the administrator   *)
(* has deleted it; every row has somebody who answers for it.              *)
(***************************************************************************)
TokenInv ==
  /\ \A a \in Attempts : Admitted(a) => usedBy[Token(a)] = a
  /\ \A t \in Tokens : usedBy[t] # None =>
       Admitted(usedBy[t]) /\ Token(usedBy[t]) = t
  /\ \A h \in Hosts : identity[h] # None => pc[identity[h]] = "accepted"

RowInv ==
  /\ \A a \in Attempts : pc[a] = "registered" => a \in machines \/ a \in deleted
  /\ \A a \in Attempts : pc[a] = "stored" \/ Admitted(a) =>
       a \in machines \cap agents \/ a \in deleted

Inv == TypeOK /\ TokenInv /\ RowInv /\ NoLeftovers

LEMMA InitInv == Init => Inv
<1> SUFFICES ASSUME Init PROVE Inv
  OBVIOUS
<1>1. NoRequest \in Request
  BY EnrollmentAssumption DEF NoRequest, Request
<1>2. TypeOK
  BY <1>1 DEF Init, TypeOK, Stages
<1>3. TokenInv /\ RowInv /\ NoLeftovers
  BY DEF Init, TokenInv, RowInv, NoLeftovers, Admitted
<1> QED
  BY <1>2, <1>3 DEF Inv

\* A handler at one stage goes to another: nobody else's stage changes.
LEMMA Moves ==
  ASSUME TypeOK, NEW a \in Attempts, NEW stage \in Stages, To(a, stage)
  PROVE  /\ pc' \in [Attempts -> Stages] /\ pc'[a] = stage
         /\ \A b \in Attempts : b # a => pc'[b] = pc[b]
BY DEF TypeOK, To

LEMMA TypeStep == TypeOK /\ [Next]_vars => TypeOK'
<1> SUFFICES ASSUME TypeOK, [Next]_vars PROVE TypeOK'
  OBVIOUS
<1> USE DEF TypeOK, tokens, history
<1>1. ASSUME NEW t \in Tokens, NewToken(t) \/ Expire(t) PROVE TypeOK'
  BY <1>1 DEF NewToken, Expire, Issued
<1>2. ASSUME NEW a \in Attempts, NEW h \in Hosts, NEW t \in Tokens, Enroll(a, h, t)
      PROVE  TypeOK'
  <2>1. pc' \in [Attempts -> Stages]
    BY <1>2, Moves DEF Enroll, Stages, Working, Unwritten
  <2> QED
    BY <1>2, <2>1 DEF Enroll, Request
<1>3. ASSUME NEW a \in Attempts, Handle(a) PROVE TypeOK'
  <2>1. pc' \in [Attempts -> Stages]
    BY <1>3, Moves DEF Handle, Consume, Register, StoreIdentity, MarkUsed, MarkFails, Undo,
       Answer, AfterError, Stages, Working, Unwritten, Writing, DeleteRows, Saved
  <2>2. usedBy' \in [Tokens -> Attempts \cup {None}]
    BY <1>3 DEF Handle, Consume, Register, StoreIdentity, MarkUsed, MarkFails, Undo,
       Answer, Used, Token, Request, DeleteRows, Saved
  <2>3. identity' \in [Hosts -> Attempts \cup {None}]
    BY <1>3 DEF Handle, Consume, Register, StoreIdentity, MarkUsed, MarkFails, Undo,
       Answer, Request, DeleteRows, Saved
  <2> QED
    BY <1>3, <2>1, <2>2, <2>3 DEF Handle, Consume, Register, StoreIdentity, MarkUsed,
       MarkFails, Undo, Answer, DeleteRows, Saved
<1>4. ASSUME NEW a \in Attempts, GiveUp(a) \/ DeleteMachine(a) PROVE TypeOK'
  BY <1>4 DEF GiveUp, DeleteMachine, DeleteRows
<1>5. ASSUME ManagerCrash PROVE TypeOK'
  BY <1>5 DEF ManagerCrash, Stages
<1>6. CASE UNCHANGED vars
  BY <1>6 DEF vars
<1> QED
  BY <1>1, <1>2, <1>3, <1>4, <1>5, <1>6 DEF Next

\* Tokens and admitted machines: only MarkUsed binds a token, and only one that is
\* not bound.
LEMMA TokenStep == TypeOK /\ TokenInv /\ [Next]_vars => TokenInv'
<1> SUFFICES ASSUME TypeOK, TokenInv, [Next]_vars PROVE TokenInv'
  OBVIOUS
<1> USE DEF Admitted, Token
\* A step that binds no token, admits nobody and moves no admitted request.
<1>a. ASSUME UNCHANGED usedBy,
             \A b \in Attempts : Admitted(b)' <=> Admitted(b),
             \A b \in Attempts : Admitted(b) => request'[b] = request[b],
             \A h \in Hosts : identity'[h] # None => pc'[identity'[h]] = "accepted"
      PROVE  TokenInv'
  BY <1>a, EnrollmentAssumption DEF TokenInv, TypeOK
<1>b. \A h \in Hosts : identity[h] # None =>
        identity[h] \in Attempts /\ pc[identity[h]] = "accepted"
  BY DEF TokenInv, TypeOK
<1>1. ASSUME NEW t \in Tokens, NewToken(t) \/ Expire(t) PROVE TokenInv'
  BY <1>1, <1>a, <1>b DEF NewToken, Expire, history, Issued
<1>2. ASSUME NEW a \in Attempts, NEW h \in Hosts, NEW t \in Tokens, Enroll(a, h, t)
      PROVE  TokenInv'
  <2>1. \A b \in Attempts : b # a => pc'[b] = pc[b] /\ request'[b] = request[b]
    BY <1>2 DEF Enroll, To, TypeOK
  <2>2. pc[a] = "none" /\ pc'[a] = "received"
    BY <1>2 DEF Enroll, To, TypeOK
  <2> QED
    BY <1>2, <1>a, <1>b, <2>1, <2>2 DEF Enroll, tokens
<1>3. ASSUME NEW a \in Attempts,
             Consume(a) \/ Register(a) \/ StoreIdentity(a) \/ MarkFails(a) \/ Undo(a)
      PROVE  TokenInv'
  <2>1. \A b \in Attempts : b # a => pc'[b] = pc[b]
    BY <1>3 DEF Consume, Register, StoreIdentity, MarkFails, Undo, To, TypeOK, DeleteRows
  <2>2. ~Admitted(a) /\ ~Admitted(a)'
    BY <1>3 DEF Consume, Register, StoreIdentity, MarkFails, Undo, To, TypeOK, AfterError, DeleteRows
  <2>3. UNCHANGED <<usedBy, request, identity>>
    BY <1>3 DEF Consume, Register, StoreIdentity, MarkFails, Undo, tokens, DeleteRows
  <2> QED
    BY <1>a, <1>b, <2>1, <2>2, <2>3
<1>4. ASSUME NEW a \in Attempts, MarkUsed(a) PROVE TokenInv'
  <2>1. /\ usedBy[Token(a)] = None /\ usedBy' = [usedBy EXCEPT ![Token(a)] = a]
        /\ UNCHANGED <<request, identity>>
    BY <1>4 DEF MarkUsed, Claimable, Used
  <2>2. /\ pc[a] = "stored" /\ pc'[a] = "marked"
        /\ \A b \in Attempts : b # a => pc'[b] = pc[b]
    BY <1>4 DEF MarkUsed, To, TypeOK
  <2>3. Token(a) \in Tokens
    BY DEF TypeOK, Request
  <2>4. \A b \in Attempts : Admitted(b) => Token(b) # Token(a)
    BY <2>1, EnrollmentAssumption DEF TokenInv
  <2>5. \A b \in Attempts : Admitted(b)' => usedBy'[Token(b)] = b
    BY <2>1, <2>2, <2>3, <2>4 DEF TokenInv, TypeOK, Request
  <2>6. ASSUME NEW t \in Tokens, usedBy'[t] # None
        PROVE  Admitted(usedBy[t])' /\ Token(usedBy[t])' = t
    <3>1. CASE t = Token(a)
      <4>1. usedBy'[t] = a
        BY <2>1, <2>3, <3>1 DEF TypeOK
      <4> QED
        BY <2>1, <2>2, <3>1, <4>1
    <3>2. CASE t # Token(a)
      <4>1. usedBy'[t] = usedBy[t] /\ usedBy[t] \in Attempts
        BY <2>1, <2>3, <2>6, <3>2 DEF TypeOK
      <4> QED
        BY <2>1, <2>2, <4>1, <2>6 DEF TokenInv
    <3> QED
      BY <3>1, <3>2
  <2>7. \A b \in Attempts : Admitted(b)' => usedBy'[Token(b)'] = b
    BY <2>1, <2>5 DEF Token
  <2>8. \A h \in Hosts : identity'[h] # None => pc'[identity'[h]] = "accepted"
    BY <1>b, <2>1, <2>2
  <2> QED
    BY <2>6, <2>7, <2>8 DEF TokenInv
<1>5. ASSUME NEW a \in Attempts, Answer(a) PROVE TokenInv'
  <2>1. /\ pc[a] = "marked" /\ pc'[a] = "accepted"
        /\ \A b \in Attempts : b # a => pc'[b] = pc[b]
    BY <1>5 DEF Answer, To, TypeOK, Saved
  <2>2. \A h \in Hosts : identity'[h] \in {identity[h], a}
    BY <1>5 DEF Answer, TypeOK, Saved
  <2> QED
    BY <1>5, <1>a, <1>b, <2>1, <2>2 DEF Answer, tokens, Saved
<1>6. ASSUME NEW a \in Attempts, GiveUp(a) \/ DeleteMachine(a) PROVE TokenInv'
  BY <1>6, <1>a, <1>b DEF GiveUp, DeleteMachine, tokens, DeleteRows
<1>7. ASSUME ManagerCrash PROVE TokenInv'
  <2>1. \A b \in Attempts : /\ Admitted(b)' <=> Admitted(b)
                            /\ pc[b] = "accepted" => pc'[b] = "accepted"
    BY <1>7 DEF ManagerCrash, Working, Unwritten, Writing
  <2> QED
    BY <1>7, <1>a, <1>b, <2>1 DEF ManagerCrash, tokens
<1>8. CASE UNCHANGED vars
  BY <1>8, <1>a, <1>b DEF vars, tokens
<1> QED
  BY <1>1, <1>2, <1>3, <1>4, <1>5, <1>6, <1>7, <1>8 DEF Next, Handle

\* The rows of a registration: written in order, removed only by its own undo, when
\* it is not admitted, and by the administrator.
LEMMA RowStep == TypeOK /\ RowInv /\ NoLeftovers /\ [Next]_vars => RowInv' /\ NoLeftovers'
<1> SUFFICES ASSUME TypeOK, RowInv, NoLeftovers, [Next]_vars PROVE RowInv' /\ NoLeftovers'
  OBVIOUS
<1> USE DEF RowInv, NoLeftovers, Admitted, Writing, TypeOK
<1>1. ASSUME NEW t \in Tokens, NewToken(t) \/ Expire(t) PROVE RowInv' /\ NoLeftovers'
  BY <1>1 DEF NewToken, Expire, history, Issued
<1>2. ASSUME NEW a \in Attempts, NEW h \in Hosts, NEW t \in Tokens, Enroll(a, h, t)
      PROVE  RowInv' /\ NoLeftovers'
  BY <1>2 DEF Enroll, To, history
<1>3. ASSUME NEW a \in Attempts, Consume(a) PROVE RowInv' /\ NoLeftovers'
  BY <1>3 DEF Consume, To, history
<1>4. ASSUME NEW a \in Attempts, Register(a) PROVE RowInv' /\ NoLeftovers'
  BY <1>4 DEF Register, To, history, AfterError
<1>5. ASSUME NEW a \in Attempts, StoreIdentity(a) PROVE RowInv' /\ NoLeftovers'
  BY <1>5 DEF StoreIdentity, To, history, AfterError
<1>6. ASSUME NEW a \in Attempts, MarkUsed(a) \/ MarkFails(a) PROVE RowInv' /\ NoLeftovers'
  BY <1>6 DEF MarkUsed, MarkFails, To, history, AfterError
<1>7. ASSUME NEW a \in Attempts, Undo(a) PROVE RowInv' /\ NoLeftovers'
  BY <1>7 DEF Undo, To, DeleteRows
<1>8. ASSUME NEW a \in Attempts, Answer(a) PROVE RowInv' /\ NoLeftovers'
  BY <1>8 DEF Answer, To, history, Saved
<1>9. ASSUME NEW a \in Attempts, GiveUp(a) PROVE RowInv' /\ NoLeftovers'
  BY <1>9 DEF GiveUp, history
<1>10. ASSUME NEW a \in Attempts, DeleteMachine(a) PROVE RowInv' /\ NoLeftovers'
  BY <1>10 DEF DeleteMachine, DeleteRows
<1>11. ASSUME ManagerCrash PROVE RowInv' /\ NoLeftovers'
  BY <1>11 DEF ManagerCrash, Working, Unwritten
<1>12. CASE UNCHANGED vars
  BY <1>12 DEF vars, history
<1> QED
  BY <1>1, <1>2, <1>3, <1>4, <1>5, <1>6, <1>7, <1>8, <1>9, <1>10, <1>11, <1>12
     DEF Next, Handle

LEMMA InvHolds == Spec => []Inv
<1>1. Inv /\ [Next]_vars => Inv'
  BY TypeStep, TokenStep, RowStep DEF Inv
<1> QED
  BY InitInv, <1>1, PTL DEF Spec

-----------------------------------------------------------------------------
\* The tables, the requests and the Agents' files stay well typed.
THEOREM TypeCorrect == Spec => []TypeOK
<1>1. Inv => TypeOK
  BY DEF Inv
<1> QED
  BY InvHolds, <1>1, PTL

\* However many requests present a token at a time, one of them gets a machine.
THEOREM OneMachine == Spec => []OneMachinePerToken
<1>1. Inv => OneMachinePerToken
  BY DEF Inv, TokenInv, OneMachinePerToken
<1> QED
  BY InvHolds, <1>1, PTL

\* A used token, and an identity an Agent has saved, is that of a machine the
\* Manager admitted and still knows unless the administrator has deleted it.
THEOREM UsedKnown == Spec => []UsedIsKnown
<1>1. Inv => UsedIsKnown
  <2> SUFFICES ASSUME Inv PROVE UsedIsKnown
    OBVIOUS
  <2>1. ASSUME NEW t \in Tokens, usedBy[t] # None
        PROVE  LET a == usedBy[t] IN
               Admitted(a) /\ Token(a) = t /\ (a \in machines \cap agents \/ a \in deleted)
    BY <2>1 DEF Inv, TokenInv, RowInv, TypeOK
  <2>2. ASSUME NEW h \in Hosts, identity[h] # None
        PROVE  usedBy[Token(identity[h])] = identity[h]
    BY <2>2 DEF Inv, TokenInv, TypeOK, Admitted
  <2> QED
    BY <2>1, <2>2 DEF UsedIsKnown
<1> QED
  BY InvHolds, <1>1, PTL

\* Rows without an admitted machine are those of a registration under way, of one
\* that a crash or a failed undo ended, or of a machine deleted meanwhile.
THEOREM NothingLeft == Spec => []NoLeftovers
<1>1. Inv => NoLeftovers
  BY DEF Inv
<1> QED
  BY InvHolds, <1>1, PTL
=============================================================================
