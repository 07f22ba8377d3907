------------------------- MODULE TrafficSyncProofs -------------------------
(***************************************************************************)
(* Proofs about TrafficSync, for every number of scopes, connections,      *)
(* restarts and faults, with overlapping rounds or without, except for     *)
(* NoOverReportHolds and NoRowLostHolds, which need rounds that do not     *)
(* overlap.                                                                *)
(*                                                                         *)
(* A row is not lost because everything under way is in order: whatever    *)
(* row is in a loop's list, on the connection in use or acknowledged, the  *)
(* rows with smaller numbers are further on (ReachInv).  An                *)
(* acknowledgement may therefore delete them too.                          *)
(***************************************************************************)
EXTENDS TrafficSync, SequenceTheorems, TLAPS

(***************************************************************************)
(* Types.                                                                  *)
(***************************************************************************)
LEMMA InitialTypes ==
  /\ Zero \in [Scopes -> Nat]
  /\ NoRow \in Row
BY ScopesAssumption DEF Zero, NoRow, Row

\* Counting one more bounded event keeps the counters in range.
LEMMA CountsUpdate ==
  ASSUME used \in Counts
  PROVE  /\ \A n \in 0..MaxConns : [used EXCEPT !.conns = n] \in Counts
         /\ used.ingest < MaxIngestErrors => [used EXCEPT !.ingest = @ + 1] \in Counts
         /\ DiskError => used' \in Counts
         /\ Lapse => used' \in Counts
<1>1. \A m \in Nat : \A k \in 0..m : k < m => k + 1 \in 0..m
  OBVIOUS
<1>2. /\ used.ingest < MaxIngestErrors => used.ingest + 1 \in 0..MaxIngestErrors
      /\ used.disk < MaxDiskErrors => used.disk + 1 \in 0..MaxDiskErrors
  BY <1>1, BoundsAssumption DEF Counts
<1>3. \A n \in 0..MaxDiskErrors, m \in Nat :
        /\ [used EXCEPT !.disk = n] \in Counts
        /\ [used EXCEPT !.disk = n, !.lapses = m] \in Counts
  BY DEF Counts
<1>4. used.lapses + 1 \in Nat
  BY DEF Counts
<1>5. DiskError => used' \in Counts
  BY <1>2, <1>3 DEF DiskError
<1>6. Lapse => used' \in Counts
  BY <1>2, <1>3, <1>4 DEF Lapse
<1> QED
  BY <1>2, <1>5, <1>6 DEF Counts

\* Adding to one scope of a table of amounts.
LEMMA CreditUpdate ==
  ASSUME NEW f \in [Scopes -> Nat], NEW s \in Scopes, NEW n \in Nat
  PROVE  [f EXCEPT ![s] = @ + n] \in [Scopes -> Nat]
<1>1. f[s] + n \in Nat
  OBVIOUS
<1> QED
  BY <1>1

LEMMA TypeInit == Init => TypeOK
<1> SUFFICES ASSUME Init PROVE TypeOK
  OBVIOUS
<1>1. up \in [Conns -> Seq(Row)] /\ down \in Seq(Ack)
  BY EmptySeq DEF Init
<1>2. used \in Counts /\ conn \in 0..MaxConns
  BY BoundsAssumption DEF Init, Counts
<1> QED
  BY <1>1, <1>2, InitialTypes DEF Init, TypeOK, PCs

LEMMA TypeStep == TypeOK /\ [Next]_vars => TypeOK'
<1> SUFFICES ASSUME TypeOK, [Next]_vars PROVE TypeOK'
  OBVIOUS
<1> USE InitialTypes, BoundsAssumption DEF TypeOK
<1>1. ASSUME NEW l \in Conns, Tick(l) PROVE TypeOK'
  <2>1. totals' \in [Scopes -> Nat]
    <3>1. PICK grown \in SUBSET {s \in Scopes : totals[s] < MaxBytes} :
            totals' = [s \in Scopes |-> IF s \in grown THEN totals[s] + 1 ELSE totals[s]]
      BY <1>1 DEF Tick
    <3> QED
      BY SMTT(30), <3>1
  <2>2. pc' \in [Conns -> PCs]
    BY <1>1 DEF Tick, Goto, PCs
  <2> QED
    BY <1>1, <2>1, <2>2 DEF Tick, link, manager, history
<1>2. ASSUME NEW l \in Conns, ReadTotals(l) PROVE TypeOK'
  BY <1>2 DEF ReadTotals, Goto, PCs, agentDisk, link, manager, history
<1>3. ASSUME NEW l \in Conns, NEW s \in Scopes, Diff(l, s) PROVE TypeOK'
  <2>1. ASSUME NEW b \in Nat, Cut(l, s, b)
        PROVE  pc' \in [Conns -> PCs] /\ cur' \in [Conns -> Row]
    <3> DEFINE delta == Clamp(snap[l][s] - b)
    <3>1. delta \in Nat
      BY SMTT(30) DEF Clamp
    <3>2. [seq |-> 0, scope |-> s, bytes |-> delta] \in Row
      BY <3>1 DEF Row
    <3> QED
      BY <2>1, <3>2 DEF Cut, Goto, PCs
  <2>2. pc' \in [Conns -> PCs] /\ cur' \in [Conns -> Row]
    BY <1>3, <2>1 DEF Diff
  <2>3. todo' \in [Conns -> SUBSET Scopes]
    BY <1>3 DEF Diff
  <2>4. used' \in Counts
    BY <1>3, CountsUpdate DEF Diff
  <2> QED
    BY <1>3, <2>2, <2>3, <2>4 DEF Diff, agentDisk, link, manager, history
<1>4. ASSUME NEW l \in Conns, AllocSeq(l) PROVE TypeOK'
  <2>1. seq' \in Nat /\ savedSeq' \in Nat
    BY <1>4 DEF AllocSeq
  <2>2. cur[l] \in Row
    OBVIOUS
  <2>3. [cur[l] EXCEPT !.seq = seq'] \in Row
    BY <2>1, <2>2 DEF Row
  <2>4. cur' \in [Conns -> Row]
    BY <1>4, <2>3 DEF AllocSeq
  <2>5. pc' \in [Conns -> PCs]
    BY <1>4 DEF AllocSeq, Goto, PCs
  <2>6. used' \in Counts
    BY <1>4, CountsUpdate DEF AllocSeq
  <2> QED
    BY <1>4, <2>1, <2>4, <2>5, <2>6 DEF AllocSeq, link, manager, history
<1>5. ASSUME NEW l \in Conns, InsertPending(l) PROVE TypeOK'
  <2>1. cur[l] \in Row /\ cur[l].scope \in Scopes /\ cur[l].bytes \in Nat
    BY DEF Row
  <2>2. reported' \in [Scopes -> Nat]
    BY <1>5, <2>1, CreditUpdate DEF InsertPending
  <2>3. pc' \in [Conns -> PCs]
    BY <1>5 DEF InsertPending, Goto, PCs
  <2> QED
    BY <1>5, <2>1, <2>2, <2>3 DEF InsertPending, link, manager
<1>6. ASSUME NEW l \in Conns, RoundFails(l) PROVE TypeOK'
  <2>1. pc' \in [Conns -> PCs]
    BY <1>6 DEF RoundFails, Goto, PCs
  <2>2. used' \in Counts
    BY <1>6, CountsUpdate DEF RoundFails
  <2> QED
    BY <1>6, <2>1, <2>2 DEF RoundFails, ForgetLocals, agentDisk, link, manager, history
<1>7. ASSUME NEW l \in Conns, SetBaseline(l) PROVE TypeOK'
  <2>1. base' \in [Scopes -> Nat]
    <3>1. snap[l][cur[l].scope] \in Nat
      BY DEF Row
    <3> QED
      BY <1>7, <3>1 DEF SetBaseline, NextBaseline
  <2>2. pc' \in [Conns -> PCs]
    BY <1>7 DEF SetBaseline, Goto, PCs
  <2>3. used' \in Counts
    BY <1>7, CountsUpdate DEF SetBaseline
  <2> QED
    BY <1>7, <2>1, <2>2, <2>3 DEF SetBaseline, link, manager, history
<1>8. ASSUME NEW l \in Conns, LoadPending(l) PROVE TypeOK'
  BY <1>8 DEF LoadPending, ForgetLocals, Goto, PCs, agentDisk, link, manager, history
<1>9. ASSUME NEW l \in Conns, NEW r \in items[l], SendDelta(l, r) PROVE TypeOK'
  <2>1. r \in Row /\ conn \in Conns
    <3>1. items[l] \subseteq Row /\ conn \in 0..MaxConns /\ conn # 0
      BY <1>9 DEF SendDelta
    <3> QED
      BY <3>1 DEF Conns
  <2>2. Append(up[conn], r) \in Seq(Row)
    BY <2>1
  <2> QED
    BY <1>9, <2>1, <2>2 DEF SendDelta, agentDisk, manager, history
<1>10. ASSUME NEW l \in Conns, SendFails(l) PROVE TypeOK'
  BY <1>10 DEF SendFails, Goto, PCs, agentDisk, link, manager, history
<1>11. ASSUME NEW l \in Conns, EndRound(l) PROVE TypeOK'
  BY <1>11 DEF EndRound, Goto, PCs, agentDisk, link, manager, history
<1>12. ASSUME NEW c \in Conns, NEW n \in Nat, NEW b \in BOOLEAN,
              up[c] # <<>>, Reply(c, n, b)
       PROVE  up' \in [Conns -> Seq(Row)] /\ down' \in Seq(Ack)
  <2>1. Tail(up[c]) \in Seq(Row)
    BY <1>12, EmptySeq
  <2>2. Append(down, [seq |-> n, accepted |-> b]) \in Seq(Ack)
    BY DEF Ack
  <2> QED
    BY <1>12, <2>1, <2>2 DEF Reply
<1>13. ASSUME NEW c \in Conns, up[c] # <<>> PROVE Head(up[c]) \in Row
  BY <1>13, EmptySeq
<1>14. ASSUME NEW c \in Conns, Ingest(c) PROVE TypeOK'
  <2>1. Head(up[c]) \in Row
    BY <1>13, <1>14 DEF Ingest
  <2>2. Head(up[c]).seq \in Nat /\ Head(up[c]).scope \in Scopes /\ Head(up[c]).bytes \in Nat
    BY <2>1 DEF Row
  <2>3. mgrTotal' \in [Scopes -> Nat]
    BY <1>14, <2>2, CreditUpdate DEF Ingest
  <2>4. up' \in [Conns -> Seq(Row)] /\ down' \in Seq(Ack)
    BY <1>12, <1>14, <2>2 DEF Ingest
  <2> QED
    BY <1>14, <2>1, <2>3, <2>4 DEF Ingest, agentDisk, loopVars, history
<1>15. ASSUME NEW c \in Conns, IngestDuplicate(c) PROVE TypeOK'
  BY <1>12, <1>13, <1>15 DEF IngestDuplicate, Row, agentDisk, loopVars, manager, history
<1>16. ASSUME NEW c \in Conns, IngestError(c) PROVE TypeOK'
  <2>1. up' \in [Conns -> Seq(Row)] /\ down' \in Seq(Ack)
    BY <1>12, <1>13, <1>16 DEF IngestError, Row
  <2>2. used' \in Counts
    BY <1>16, CountsUpdate DEF IngestError
  <2> QED
    BY <1>16, <2>1, <2>2 DEF IngestError, agentDisk, loopVars, manager, history
<1>17. ASSUME NEW c \in Conns, LoseQueue(c) PROVE TypeOK'
  BY <1>17, EmptySeq DEF LoseQueue, agentDisk, loopVars, manager, history
<1>18. ASSUME OnAck PROVE TypeOK'
  <2>1. Tail(down) \in Seq(Ack)
    BY <1>18, EmptySeq DEF OnAck
  <2>2. used' \in Counts
    BY <1>18, CountsUpdate DEF OnAck
  <2> QED
    BY <1>18, <2>1, <2>2 DEF OnAck, NotAcked, loopVars, manager, history
<1>19. ASSUME Connect PROVE TypeOK'
  <2>1. used.conns + 1 \in Conns
    BY <1>19 DEF Connect
  <2>2. \A k \in Conns : up[k] # <<>> => <<Head(up[k])>> \in Seq(Row)
    BY <1>13
  <2>3. up' \in [Conns -> Seq(Row)] /\ down' \in Seq(Ack)
    BY <1>19, <2>2, EmptySeq DEF Connect
  <2> QED
    <3>1. pc' \in [Conns -> PCs]
      BY <1>19 DEF Connect, Goto, PCs
    <3>2. used' \in Counts /\ conn' \in 0..MaxConns
      BY <1>19, <2>1, CountsUpdate DEF Connect, Conns
    <3> QED
      BY <1>19, <2>3, <3>1, <3>2 DEF Connect, agentDisk, manager, history
<1>20. ASSUME Disconnect PROVE TypeOK'
  BY <1>20, EmptySeq DEF Disconnect, agentDisk, loopVars, manager, history
<1>21. ASSUME Restart PROVE TypeOK'
  <2>1. down' \in Seq(Ack) /\ conn' \in 0..MaxConns
    BY <1>21, EmptySeq DEF Restart
  <2>2. pc' \in [Conns -> PCs]
    BY <1>21 DEF Restart, PCs
  <2>3. used' \in Counts
    <3>1. PICK failed \in BOOLEAN, torn \in BOOLEAN :
            /\ failed => used.disk < MaxDiskErrors
            /\ used' = [used EXCEPT !.restarts = @ + 1,
                                   !.disk = IF failed THEN @ + 1 ELSE @,
                                   !.lapses = IF torn THEN @ + 1 ELSE @]
      BY <1>21 DEF Restart
    <3>2. \A m \in Nat : \A k \in 0..m : k < m => k + 1 \in 0..m
      OBVIOUS
    <3> DEFINE d == IF failed THEN used.disk + 1 ELSE used.disk
               n == IF torn THEN used.lapses + 1 ELSE used.lapses
    <3>3. used.restarts + 1 \in 0..MaxRestarts
      BY <1>21, <3>2 DEF Restart, Counts
    <3>4. d \in 0..MaxDiskErrors /\ n \in Nat
      BY SMTT(30), <3>1, <3>2 DEF Counts
    <3>5. used' = [used EXCEPT !.restarts = used.restarts + 1, !.disk = d, !.lapses = n]
      BY <3>1
    <3> HIDE DEF d, n
    <3> QED
      BY <3>3, <3>4, <3>5 DEF Counts
  <2>4. seq' \in Nat /\ behind' \in BOOLEAN
    BY <1>21 DEF Restart, LoadSequence
  <2> QED
    BY <1>21, <2>1, <2>2, <2>3, <2>4 DEF Restart, agentDisk, manager, history
<1>22. CASE UNCHANGED vars
  BY <1>22 DEF vars, agentDisk, loopVars, link, manager, history
<1> QED
  BY <1>1, <1>2, <1>3, <1>4, <1>5, <1>6, <1>7, <1>8, <1>9, <1>10, <1>11, <1>14,
     <1>15, <1>16, <1>17, <1>18, <1>19, <1>20, <1>21, <1>22
     DEF Next, LoopStep, ManagerStep

\* TypeOK always holds, whatever the bounds: no reachable state of the pipeline
\* carries a negative amount or a value outside its table's columns.
THEOREM TypeCorrect == Spec => []TypeOK
<1> QED
  BY TypeInit, TypeStep, PTL DEF Spec

-----------------------------------------------------------------------------
(***************************************************************************)
(* Sequence numbers.  SequenceIdentity is not inductive: one must know     *)
(* that the number in memory is not below a row's, and that no two loops   *)
(* about to insert hold the same one, nor one that was inserted; and that  *)
(* a failed statement alone keeps the cursor on disk from the number in    *)
(* memory.                                                                 *)
(***************************************************************************)
Inserting(l) == pc[l] = "insert"

Numbered ==
  /\ \A r \in created : r.seq <= seq
  /\ \A a, b \in created : a.seq = b.seq => a = b
  /\ \A l \in Conns : Inserting(l) =>
       cur[l].seq <= seq /\ \A r \in created : r.seq # cur[l].seq
  /\ \A k, l \in Conns :
       Inserting(k) /\ Inserting(l) /\ cur[k].seq = cur[l].seq => k = l

SeqInv ==
  /\ ~behind => Numbered
  /\ used.disk = 0 => ~behind /\ savedSeq = seq

\* Every copy of a row, wherever it is, is a row that was recorded.
FlowInv ==
  /\ pending \subseteq created
  /\ events \subseteq created
  /\ \A l \in Conns : items[l] \subseteq created
  /\ \A c \in Conns : \A i \in 1..Len(up[c]) : up[c][i] \in created

IInv == TypeOK /\ SeqInv /\ FlowInv

LEMMA IInvInit == Init => IInv
<1> SUFFICES ASSUME Init PROVE IInv
  OBVIOUS
<1>1. TypeOK
  BY TypeInit
<1>2. SeqInv
  BY DEF Init, SeqInv, Numbered, Inserting
<1>3. FlowInv
  BY DEF Init, FlowInv
<1> QED
  BY <1>1, <1>2, <1>3 DEF IInv

\* Failures are only ever added to.
LEMMA DiskGrows ==
  ASSUME TypeOK, [Next]_vars
  PROVE  used'.disk = 0 => used.disk = 0
<1>1. used.disk \in Nat /\ used \in Counts
  BY BoundsAssumption DEF TypeOK, Counts
<1>2. CASE DiskError \/ Lapse
  <2>1. used'.disk = used.disk + 1
    BY <1>1, <1>2 DEF DiskError, Lapse, Counts
  <2> QED
    BY <1>1, <2>1
<1>3. CASE UNCHANGED used
  BY <1>3
<1>4. ASSUME NEW c \in Conns, IngestError(c) PROVE used'.disk = used.disk
  BY <1>1, <1>4 DEF IngestError, Counts
<1>5. CASE Connect
  BY <1>1, <1>5 DEF Connect, Counts
<1>6. CASE Restart
  <2>1. PICK failed \in BOOLEAN, torn \in BOOLEAN :
          used' = [used EXCEPT !.restarts = @ + 1,
                               !.disk = IF failed THEN @ + 1 ELSE @,
                               !.lapses = IF torn THEN @ + 1 ELSE @]
    BY <1>6 DEF Restart
  <2> QED
    BY <1>1, <2>1 DEF Counts
<1>7. ASSUME NEW l \in Conns, LoopStep(l) PROVE DiskError \/ Lapse \/ UNCHANGED used
  BY <1>7 DEF LoopStep, Tick, ReadTotals, Diff, AllocSeq, InsertPending, RoundFails,
     SetBaseline, LoadPending, SendDelta, SendFails, EndRound
<1>8. ASSUME NEW c \in Conns, ManagerStep(c) \/ LoseQueue(c), ~IngestError(c)
      PROVE  UNCHANGED used
  BY <1>8 DEF ManagerStep, Ingest, IngestDuplicate, LoseQueue
<1>9. CASE OnAck \/ Disconnect \/ UNCHANGED vars
  BY <1>2, <1>3, <1>9 DEF OnAck, Disconnect, vars
<1> QED
  BY <1>2, <1>3, <1>4, <1>5, <1>6, <1>7, <1>8, <1>9 DEF Next

\* Only AllocSeq, InsertPending and Restart touch what SeqInv speaks of; every
\* other step leaves it alone and lets no loop begin to insert.
LEMMA SeqFrame ==
  ASSUME SeqInv, UNCHANGED <<savedSeq, seq, created, behind>>,
         used'.disk = 0 => used.disk = 0,
         \A l \in Conns : pc'[l] = "insert" => pc[l] = "insert" /\ cur'[l] = cur[l]
  PROVE  SeqInv'
BY DEF SeqInv, Numbered, Inserting

LEMMA SeqStep == TypeOK /\ SeqInv /\ [Next]_vars => SeqInv'
<1> SUFFICES ASSUME TypeOK, SeqInv, [Next]_vars PROVE SeqInv'
  OBVIOUS
<1> USE DEF Goto, TypeOK, history
<1>d. used'.disk = 0 => used.disk = 0
  BY DiskGrows
<1>1. ASSUME NEW l \in Conns, Tick(l) PROVE SeqInv'
  BY <1>d, <1>1, SeqFrame DEF Tick
<1>2. ASSUME NEW l \in Conns, ReadTotals(l) PROVE SeqInv'
  BY <1>d, <1>2, SeqFrame DEF ReadTotals, agentDisk
<1>3. ASSUME NEW l \in Conns, NEW s \in Scopes, Diff(l, s) PROVE SeqInv'
  BY <1>d, <1>3, SeqFrame DEF Diff, Cut, agentDisk
<1>4. ASSUME NEW l \in Conns, AllocSeq(l) PROVE SeqInv'
  <2>1. seq' = seq + 1 /\ created' = created /\ behind' = behind
    BY <1>4 DEF AllocSeq
  <2>a. used'.disk = 0 => ~behind' /\ savedSeq' = seq'
    <3>1. CASE savedSeq' = seq' /\ UNCHANGED used
      BY <2>1, <3>1 DEF SeqInv
    <3>2. CASE DiskError
      <4>1. used.disk \in Nat /\ used'.disk = used.disk + 1
        BY <3>2, BoundsAssumption DEF DiskError, Counts
      <4> QED
        BY <4>1
    <3> QED
      BY <1>4, <3>1, <3>2 DEF AllocSeq
  <2> SUFFICES ASSUME ~behind, Numbered PROVE Numbered'
    BY <2>1, <2>a DEF SeqInv
  <2>2. cur'[l].seq = seq + 1 /\ \A k \in Conns : k # l => cur'[k] = cur[k] /\ pc'[k] = pc[k]
    BY <1>4, <2>1 DEF AllocSeq, Row
  <2>3. \A k \in Conns : cur[k].seq \in Nat
    BY DEF Row
  <2>4. \A r \in created : r.seq \in Nat
    BY DEF Row
  <2>5. \A r \in created : r.seq <= seq'
    BY <2>1, <2>4 DEF Numbered
  <2>6. \A k \in Conns : Inserting(k)' /\ k # l =>
          Inserting(k) /\ cur'[k] = cur[k] /\ cur[k].seq <= seq
    BY <2>2 DEF Numbered, Inserting
  <2>7. \A k \in Conns : Inserting(k)' =>
          cur'[k].seq <= seq' /\ \A r \in created' : r.seq # cur'[k].seq
    <3> SUFFICES ASSUME NEW k \in Conns, Inserting(k)'
                 PROVE  cur'[k].seq <= seq' /\ \A r \in created' : r.seq # cur'[k].seq
      OBVIOUS
    <3>1. CASE k = l
      <4>1. \A r \in created : r.seq <= seq
        BY DEF Numbered
      <4>2. \A r \in created : r.seq # seq + 1
        BY <2>4, <4>1
      <4> QED
        BY <2>1, <2>2, <3>1, <4>2
    <3>2. CASE k # l
      <4>1. cur'[k] = cur[k] /\ cur[k].seq <= seq /\ \A r \in created : r.seq # cur[k].seq
        BY <2>6, <3>2 DEF Numbered
      <4> QED
        BY <2>1, <2>3, <4>1
    <3> QED
      BY <3>1, <3>2
  <2>8. \A k, m \in Conns :
          Inserting(k)' /\ Inserting(m)' /\ cur'[k].seq = cur'[m].seq => k = m
    <3> SUFFICES ASSUME NEW k \in Conns, NEW m \in Conns, Inserting(k)', Inserting(m)',
                        cur'[k].seq = cur'[m].seq
                 PROVE  k = m
      OBVIOUS
    <3>1. k # l => cur'[k].seq # seq + 1
      BY <2>3, <2>6
    <3>2. m # l => cur'[m].seq # seq + 1
      BY <2>3, <2>6
    <3>3. k # l /\ m # l => k = m
      BY <2>6 DEF Numbered
    <3> QED
      BY <2>2, <3>1, <3>2, <3>3
  <2> QED
    BY <2>1, <2>5, <2>7, <2>8 DEF Numbered
<1>5. ASSUME NEW l \in Conns, InsertPending(l) PROVE SeqInv'
  <2>1. Inserting(l) /\ created' = created \cup {cur[l]}
    BY <1>5 DEF InsertPending, Inserting
  <2>2. \A k \in Conns : Inserting(k)' => k # l /\ Inserting(k)
    BY <1>5 DEF InsertPending, Inserting
  <2>3. UNCHANGED <<seq, savedSeq, cur, behind, used>>
    BY <1>5 DEF InsertPending
  <2>4. Numbered => Numbered'
    BY <2>1, <2>2, <2>3 DEF Numbered
  <2> QED
    BY <2>3, <2>4 DEF SeqInv
<1>6. ASSUME NEW l \in Conns, RoundFails(l) PROVE SeqInv'
  BY <1>d, <1>6, SeqFrame DEF RoundFails, agentDisk
<1>7. ASSUME NEW l \in Conns, SetBaseline(l) PROVE SeqInv'
  BY <1>d, <1>7, SeqFrame DEF SetBaseline
<1>8. ASSUME NEW l \in Conns, LoadPending(l) PROVE SeqInv'
  BY <1>d, <1>8, SeqFrame DEF LoadPending, agentDisk
<1>9. ASSUME NEW l \in Conns, NEW r \in items[l], SendDelta(l, r) PROVE SeqInv'
  BY <1>d, <1>9, SeqFrame DEF SendDelta, agentDisk
<1>10. ASSUME NEW l \in Conns, SendFails(l) PROVE SeqInv'
  BY <1>d, <1>10, SeqFrame DEF SendFails, agentDisk
<1>11. ASSUME NEW l \in Conns, EndRound(l) PROVE SeqInv'
  BY <1>d, <1>11, SeqFrame DEF EndRound, agentDisk
<1>12. ASSUME NEW c \in Conns, ManagerStep(c) \/ LoseQueue(c) PROVE SeqInv'
  BY <1>d, <1>12, SeqFrame DEF ManagerStep, Ingest, IngestDuplicate, IngestError, LoseQueue,
                         agentDisk, loopVars
<1>13. ASSUME OnAck PROVE SeqInv'
  BY <1>d, <1>13, SeqFrame DEF OnAck, loopVars
<1>14. ASSUME Connect PROVE SeqInv'
  BY <1>d, <1>14, SeqFrame DEF Connect, agentDisk
<1>15. ASSUME Disconnect PROVE SeqInv'
  BY <1>d, <1>15, SeqFrame DEF Disconnect, agentDisk, loopVars
<1>16. ASSUME Restart PROVE SeqInv'
  <2>1. /\ behind' = (behind \/ \E r \in created : r.seq > seq')
        /\ UNCHANGED <<savedSeq, created>>
        /\ \A l \in Conns : ~Inserting(l)'
        /\ seq' \in Nat
    BY <1>16 DEF Restart, LoadSequence, agentDisk, Inserting
  <2>2. \A r \in created : r.seq \in Nat
    BY DEF Row
  <2>3. ASSUME ~behind' PROVE Numbered'
    <3>a. ~behind /\ ~\E r \in created : r.seq > seq'
      BY <2>1, <2>3
    <3>b. \A r \in created : r.seq <= seq'
      BY <2>1, <2>2, <3>a
    <3>1. ~behind /\ \A r \in created : r.seq <= seq'
      BY <3>a, <3>b
    <3> QED
      BY <2>1, <3>1 DEF SeqInv, Numbered
  <2>4. ASSUME used'.disk = 0 PROVE ~behind' /\ savedSeq' = seq'
    <3>1. seq' = savedSeq
      <4>1. PICK failed \in BOOLEAN, torn \in BOOLEAN :
              /\ seq' = IF failed THEN 0 ELSE LoadSequence
              /\ used' = [used EXCEPT !.restarts = @ + 1,
                                     !.disk = IF failed THEN @ + 1 ELSE @,
                                     !.lapses = IF torn THEN @ + 1 ELSE @]
        BY <1>16 DEF Restart
      <4>2. used.disk \in Nat /\ (failed => used'.disk = used.disk + 1)
        BY <4>1, BoundsAssumption DEF Counts
      <4> QED
        BY <2>4, <4>1, <4>2 DEF LoadSequence
    <3>2. ~behind /\ savedSeq = seq /\ Numbered
      BY <1>d, <2>4 DEF SeqInv
    <3>3. \A r \in created : ~(r.seq > seq')
      BY <2>1, <2>2, <3>1, <3>2 DEF Numbered
    <3> QED
      BY <2>1, <3>1, <3>2, <3>3
  <2> QED
    BY <2>3, <2>4 DEF SeqInv
<1>17. CASE UNCHANGED vars
  BY <1>d, <1>17, SeqFrame DEF vars, agentDisk, loopVars
<1> QED
  BY <1>1, <1>2, <1>3, <1>4, <1>5, <1>6, <1>7, <1>8, <1>9, <1>10, <1>11, <1>12,
     <1>13, <1>14, <1>15, <1>16, <1>17 DEF Next, LoopStep

-----------------------------------------------------------------------------
(***************************************************************************)
(* Rows in flight.                                                         *)
(***************************************************************************)
LEMMA FlowFrame ==
  ASSUME FlowInv, created \subseteq created', UNCHANGED up,
         pending' \subseteq created', events' \subseteq created',
         \A l \in Conns : items'[l] \subseteq created'
  PROVE  FlowInv'
BY DEF FlowInv

\* Dropping the head of a sequence leaves elements of that sequence.
LEMMA TailElements ==
  ASSUME NEW S, NEW q \in Seq(S), q # <<>>
  PROVE  \A i \in 1..Len(Tail(q)) : \E j \in 1..Len(q) : Tail(q)[i] = q[j]
BY EmptySeq

LEMMA FlowReply ==
  ASSUME TypeOK, FlowInv, NEW c \in Conns, NEW n, NEW b, up[c] # <<>>, Reply(c, n, b)
  PROVE  /\ Head(up[c]) \in created
         /\ \A k \in Conns : \A i \in 1..Len(up'[k]) : up'[k][i] \in created
<1>1. up \in [Conns -> Seq(Row)]
  BY DEF TypeOK
<1>2. Head(up[c]) = up[c][1] /\ 1 \in 1..Len(up[c])
  BY <1>1, EmptySeq
<1>3. \A i \in 1..Len(Tail(up[c])) : Tail(up[c])[i] \in created
  BY <1>1, TailElements DEF FlowInv
<1>4. up' = [up EXCEPT ![c] = Tail(up[c])]
  BY DEF Reply
<1> QED
  BY <1>1, <1>2, <1>3, <1>4 DEF FlowInv

LEMMA FlowStep == TypeOK /\ FlowInv /\ [Next]_vars => FlowInv'
<1> SUFFICES ASSUME TypeOK, FlowInv, [Next]_vars PROVE FlowInv'
  OBVIOUS
<1>a. up \in [Conns -> Seq(Row)] /\ items \in [Conns -> SUBSET Row]
  BY DEF TypeOK
<1>b. /\ pending \subseteq created /\ events \subseteq created
      /\ \A l \in Conns : items[l] \subseteq created
  BY DEF FlowInv
<1>1. ASSUME NEW l \in Conns, Tick(l) PROVE FlowInv'
  BY <1>1, <1>b, FlowFrame DEF Tick, link, manager, history
<1>2. ASSUME NEW l \in Conns, ReadTotals(l) PROVE FlowInv'
  BY <1>2, <1>b, FlowFrame DEF ReadTotals, agentDisk, link, manager, history
<1>3. ASSUME NEW l \in Conns, NEW s \in Scopes, Diff(l, s) PROVE FlowInv'
  BY <1>3, <1>b, FlowFrame DEF Diff, agentDisk, link, manager, history
<1>4. ASSUME NEW l \in Conns, AllocSeq(l) PROVE FlowInv'
  BY <1>4, <1>b, FlowFrame DEF AllocSeq, link, manager, history
<1>5. ASSUME NEW l \in Conns, InsertPending(l) PROVE FlowInv'
  BY <1>5, <1>b, FlowFrame DEF InsertPending, link, manager
<1>6. ASSUME NEW l \in Conns, RoundFails(l) PROVE FlowInv'
  BY <1>6, <1>b, FlowFrame DEF RoundFails, agentDisk, link, manager, history
<1>7. ASSUME NEW l \in Conns, SetBaseline(l) PROVE FlowInv'
  BY <1>7, <1>b, FlowFrame DEF SetBaseline, link, manager, history
<1>8. ASSUME NEW l \in Conns, LoadPending(l) PROVE FlowInv'
  <2>1. \A k \in Conns : items'[k] \subseteq created
    BY <1>8, <1>a, <1>b DEF LoadPending
  <2> QED
    BY <1>8, <1>b, <2>1, FlowFrame DEF LoadPending, agentDisk, link, manager, history
<1>9. ASSUME NEW l \in Conns, NEW r \in items[l], SendDelta(l, r) PROVE FlowInv'
  <2>1. conn \in Conns /\ r \in created /\ r \in Row /\ created' = created
    BY <1>9, <1>a, <1>b DEF SendDelta, TypeOK, Conns, history
  <2>2. \A i \in 1..Len(Append(up[conn], r)) : Append(up[conn], r)[i] \in created
    BY <1>a, <2>1 DEF FlowInv
  <2>3. up' = [up EXCEPT ![conn] = Append(up[conn], r)]
    BY <1>9 DEF SendDelta
  <2>4. \A c \in Conns : \A i \in 1..Len(up'[c]) : up'[c][i] \in created
    BY <1>a, <2>1, <2>2, <2>3 DEF FlowInv
  <2>5. \A k \in Conns : items'[k] \subseteq created
    BY <1>9, <1>a, <1>b DEF SendDelta
  <2> QED
    BY <1>9, <1>b, <2>1, <2>4, <2>5 DEF SendDelta, FlowInv, agentDisk, manager
<1>10. ASSUME NEW l \in Conns, SendFails(l) PROVE FlowInv'
  BY <1>10, <1>a, <1>b, FlowFrame DEF SendFails, agentDisk, link, manager, history
<1>11. ASSUME NEW l \in Conns, EndRound(l) PROVE FlowInv'
  BY <1>11, <1>b, FlowFrame DEF EndRound, agentDisk, link, manager, history
<1>12. ASSUME NEW c \in Conns, ManagerStep(c) PROVE FlowInv'
  <2>1. up[c] # <<>> /\ \E n, b : Reply(c, n, b)
    BY <1>12 DEF ManagerStep, Ingest, IngestDuplicate, IngestError
  <2>2. /\ Head(up[c]) \in created
        /\ \A k \in Conns : \A i \in 1..Len(up'[k]) : up'[k][i] \in created
    BY <2>1, FlowReply
  <2>3. created' = created /\ pending' = pending /\ items' = items
    BY <1>12 DEF ManagerStep, Ingest, IngestDuplicate, IngestError, agentDisk, loopVars,
                 history
  <2>4. events' \subseteq events \cup {Head(up[c])}
    BY <1>12 DEF ManagerStep, Ingest, IngestDuplicate, IngestError, manager
  <2> QED
    BY <1>b, <2>2, <2>3, <2>4 DEF FlowInv
<1>13. ASSUME NEW c \in Conns, LoseQueue(c) PROVE FlowInv'
  BY <1>13, <1>a, <1>b DEF LoseQueue, FlowInv, agentDisk, loopVars, manager, history
<1>14. ASSUME OnAck PROVE FlowInv'
  BY <1>14, <1>b, FlowFrame DEF OnAck, NotAcked, loopVars, manager, history
<1>15. ASSUME Connect PROVE FlowInv'
  <2>1. \A k \in Conns : up[k] # <<>> => Head(up[k]) \in created
    BY <1>a, EmptySeq DEF FlowInv
  <2>2. \A k \in Conns : \A i \in 1..Len(up'[k]) : up'[k][i] \in created
    BY <1>15, <2>1 DEF Connect
  <2> QED
    BY <1>15, <1>b, <2>2 DEF Connect, FlowInv, agentDisk, manager, history
<1>16. ASSUME Disconnect PROVE FlowInv'
  BY <1>16, <1>b, FlowFrame DEF Disconnect, agentDisk, loopVars, manager, history
<1>17. ASSUME Restart PROVE FlowInv'
  BY <1>17, <1>b, FlowFrame DEF Restart, agentDisk, manager, history
<1>18. CASE UNCHANGED vars
  BY <1>18, <1>b, FlowFrame DEF vars, agentDisk, loopVars, link, manager, history
<1> QED
  BY <1>1, <1>2, <1>3, <1>4, <1>5, <1>6, <1>7, <1>8, <1>9, <1>10, <1>11, <1>12,
     <1>13, <1>14, <1>15, <1>16, <1>17, <1>18 DEF Next, LoopStep

LEMMA IInvHolds == Spec => []IInv
<1>1. IInv /\ [Next]_vars => IInv'
  BY TypeStep, SeqStep, FlowStep DEF IInv
<1> QED
  BY IInvInit, <1>1, PTL DEF Spec

\* A sequence number names one row, whatever loops overlap, inserts fail or
\* processes restart, until a start resumes below a number that a row carries;
\* and no start does as long as no statement of the Agent's database has failed.
THEOREM SequenceIdentityHolds == Spec => []SequenceIdentity
<1>1. IInv => SequenceIdentity
  <2> SUFFICES ASSUME IInv PROVE SequenceIdentity
    OBVIOUS
  <2>1. used.disk \in Nat
    BY BoundsAssumption DEF IInv, TypeOK, Counts
  <2> QED
    BY <2>1 DEF IInv, SeqInv, Numbered, SequenceIdentity
<1> QED
  BY <1>1, IInvHolds, PTL

-----------------------------------------------------------------------------
(***************************************************************************)
(* The pipeline implements the ledger.                                     *)
(***************************************************************************)
LEMMA LedgerStep ==
  IInv /\ IInv' /\ [Next]_vars => [Ledger!LedgerNext]_<<created, events, mgrTotal>>
<1> SUFFICES ASSUME IInv, IInv', [Next]_vars
             PROVE  [Ledger!LedgerNext]_<<created, events, mgrTotal>>
  OBVIOUS
<1> USE DEF IInv
<1>1. ASSUME NEW l \in Conns, InsertPending(l), created' # created
      PROVE  \E r \in created' \ created : Ledger!Record(r)
  <2>1. cur[l] \in Row
    BY DEF TypeOK
  <2>2. created' = created \cup {cur[l]} /\ UNCHANGED <<events, mgrTotal>>
    BY <1>1 DEF InsertPending, manager
  <2>3. cur[l] \in created' \ created
    BY <1>1, <2>2
  <2>4. Ledger!Record(cur[l])
    BY <2>1, <2>2 DEF Ledger!Record, Ledger!LedgerRow, Row
  <2> QED
    BY <2>3, <2>4
<1>a. ASSUME NEW l \in Conns, InsertPending(l) PROVE UNCHANGED <<events, mgrTotal>>
  BY <1>a DEF InsertPending, manager
<1>2. ASSUME NEW c \in Conns, Ingest(c)
      PROVE  \E r \in created : Ledger!Credit(r)
  <2>1. up[c] # <<>> /\ Reply(c, Head(up[c]).seq, TRUE)
    BY <1>2 DEF Ingest
  <2>2. Head(up[c]) \in created
    BY <2>1, FlowReply
  <2>3. \A x \in events : x.seq # Head(up[c]).seq
    BY <1>2 DEF Ingest, Stored
  <2>4. Ledger!Credit(Head(up[c]))
    BY <1>2, <2>2, <2>3 DEF Ingest, Ledger!Credit, history
  <2> QED
    BY <2>2, <2>4
<1>3. ASSUME NEW l \in Conns, LoopStep(l), ~InsertPending(l)
      PROVE  UNCHANGED <<created, events, mgrTotal>>
  BY <1>3 DEF LoopStep, Tick, ReadTotals, Diff, AllocSeq, RoundFails, SetBaseline,
              LoadPending, SendDelta, SendFails, EndRound, manager, history
<1>4. ASSUME NEW c \in Conns, ManagerStep(c) \/ LoseQueue(c), ~Ingest(c)
      PROVE  UNCHANGED <<created, events, mgrTotal>>
  BY <1>4 DEF ManagerStep, IngestDuplicate, IngestError, LoseQueue, manager, history
<1>5. ASSUME OnAck \/ Connect \/ Disconnect \/ Restart \/ UNCHANGED vars
      PROVE  UNCHANGED <<created, events, mgrTotal>>
  BY <1>5 DEF OnAck, Connect, Disconnect, Restart, vars, manager, history
<1> QED
  BY <1>1, <1>a, <1>2, <1>3, <1>4, <1>5 DEF Next, Ledger!LedgerNext

\* The whole pipeline, with every crash, replay, overlap and failed statement,
\* numbers handed out again included, is a ledger that credits at most one
\* recorded row for each number, once, with exactly the bytes recorded.
THEOREM RefinesLedger == Spec => ImplementsLedger
<1>1. Init => Ledger!LedgerInit
  BY DEF Init, Zero, Ledger!LedgerInit
<1>2. IInv /\ IInv' /\ [Next]_vars
        => [Ledger!LedgerNext]_<<created, events, mgrTotal>>
  BY LedgerStep
<1> QED
  BY <1>1, <1>2, IInvHolds, PTL DEF Spec, ImplementsLedger, Ledger!LedgerSpec

-----------------------------------------------------------------------------
(***************************************************************************)
(* No byte is skipped: the baseline a loop is about to write is the total  *)
(* it has read, and by then rows for that much have been recorded, by it   *)
(* or by others.  This survives overlap, because rows are only ever added. *)
(***************************************************************************)
SkipInv ==
  /\ NothingSkipped
  /\ \A l \in Conns : pc[l] \in {"alloc", "insert"} =>
       snap[l][cur[l].scope] <= reported[cur[l].scope] + cur[l].bytes
  /\ \A l \in Conns : pc[l] = "base" =>
       snap[l][cur[l].scope] <= reported[cur[l].scope]

\* A step that writes no amount and brings no loop to a row.
LEMMA SkipFrame ==
  ASSUME SkipInv, UNCHANGED <<base, reported>>,
         \A l \in Conns : pc'[l] \in {"alloc", "insert", "base"} =>
           pc'[l] = pc[l] /\ snap'[l] = snap[l] /\ cur'[l] = cur[l]
  PROVE  SkipInv'
BY DEF SkipInv, NothingSkipped

LEMMA SkipStep == TypeOK /\ SkipInv /\ [Next]_vars => SkipInv'
<1> SUFFICES ASSUME TypeOK, SkipInv, [Next]_vars PROVE SkipInv'
  OBVIOUS
<1> USE DEF Goto
<1>a. /\ pc \in [Conns -> PCs] /\ cur \in [Conns -> Row]
      /\ snap \in [Conns -> [Scopes -> Nat]]
      /\ base \in [Scopes -> Nat] /\ reported \in [Scopes -> Nat]
  BY DEF TypeOK
<1>b. \A l \in Conns : cur[l].scope \in Scopes /\ cur[l].bytes \in Nat
  BY <1>a DEF Row
<1>1. ASSUME NEW l \in Conns,
             Tick(l) \/ ReadTotals(l) \/ LoadPending(l) \/ SendFails(l) \/ EndRound(l)
             \/ RoundFails(l) \/ \E r \in items[l] : SendDelta(l, r)
      PROVE  SkipInv'
  <2>1. /\ UNCHANGED <<base, reported>>
        /\ \A k \in Conns : k # l => UNCHANGED <<pc[k], snap[k], cur[k]>>
        /\ pc'[l] \notin {"alloc", "insert", "base"}
    BY <1>1, <1>a DEF Tick, ReadTotals, LoadPending, ForgetLocals, SendFails, EndRound,
       RoundFails, SendDelta, agentDisk, history
  <2> QED
    BY <2>1, SkipFrame
<1>2. ASSUME NEW l \in Conns, NEW s \in Scopes, Diff(l, s) PROVE SkipInv'
  <2>1. UNCHANGED <<base, reported, snap>> /\ pc[l] = "diff"
    BY <1>2 DEF Diff, agentDisk, history
  <2>2. PICK b \in Nat : b <= reported[s] /\ Cut(l, s, b)
    <3>1. base[s] \in Nat /\ base[s] <= reported[s] /\ reported[s] \in Nat
      BY <1>a DEF SkipInv, NothingSkipped
    <3>2. Cut(l, s, base[s]) \/ Cut(l, s, 0)
      BY <1>2 DEF Diff
    <3> QED
      BY <3>1, <3>2
  <2>3. CASE UNCHANGED <<pc, cur>>
    BY <2>1, <2>3, SkipFrame
  <2>4. CASE ~UNCHANGED <<pc, cur>>
    <3>1. pc' = [pc EXCEPT ![l] = "alloc"]
          /\ cur' = [cur EXCEPT ![l] =
               [seq |-> 0, scope |-> s, bytes |-> Clamp(snap[l][s] - b)]]
      BY <2>2, <2>4 DEF Cut
    <3>2. /\ pc'[l] = "alloc" /\ cur'[l].scope = s
          /\ cur'[l].bytes = Clamp(snap[l][s] - b)
          /\ \A k \in Conns : k # l => pc'[k] = pc[k] /\ cur'[k] = cur[k]
      BY <1>a, <3>1
    <3>3. snap[l][s] <= reported[s] + Clamp(snap[l][s] - b)
      BY <1>a, <2>2 DEF Clamp
    <3> QED
      BY <2>1, <3>2, <3>3 DEF SkipInv, NothingSkipped
  <2> QED
    BY <2>3, <2>4
<1>3. ASSUME NEW l \in Conns, AllocSeq(l) PROVE SkipInv'
  <2>1. UNCHANGED <<base, reported, snap>> /\ pc[l] = "alloc" /\ pc'[l] = "insert"
    BY <1>3, <1>a DEF AllocSeq, history
  <2>2. \A k \in Conns : k # l => cur'[k] = cur[k] /\ pc'[k] = pc[k]
    BY <1>3, <1>a DEF AllocSeq
  <2>3. cur' = [cur EXCEPT ![l] = [cur[l] EXCEPT !.seq = seq']]
    BY <1>3 DEF AllocSeq
  <2>4. cur'[l].scope = cur[l].scope /\ cur'[l].bytes = cur[l].bytes
    BY <1>a, <2>3 DEF Row
  <2> QED
    BY <2>1, <2>2, <2>4 DEF SkipInv, NothingSkipped
<1>4. ASSUME NEW l \in Conns, InsertPending(l) PROVE SkipInv'
  <2> DEFINE sc == cur[l].scope
  <2>1. UNCHANGED <<base, snap, cur>> /\ pc[l] = "insert" /\ pc'[l] = "base"
        /\ \A k \in Conns : k # l => pc'[k] = pc[k]
    BY <1>4, <1>a DEF InsertPending
  <2>2. reported' = [reported EXCEPT ![sc] = reported[sc] + cur[l].bytes]
    BY <1>4 DEF InsertPending
  <2>3. /\ \A s \in Scopes : reported'[s] \in Nat /\ reported[s] <= reported'[s]
        /\ reported'[sc] = reported[sc] + cur[l].bytes
    BY <1>a, <1>b, <2>2
  <2>4. \A s \in Scopes : base[s] <= reported'[s]
    BY <1>a, <2>3 DEF SkipInv, NothingSkipped
  <2>5. ASSUME NEW k \in Conns, pc'[k] \in {"alloc", "insert"}
        PROVE  snap[k][cur[k].scope] <= reported'[cur[k].scope] + cur[k].bytes
    <3>1. k # l /\ snap[k][cur[k].scope] <= reported[cur[k].scope] + cur[k].bytes
      BY <2>1, <2>5 DEF SkipInv
    <3> QED
      BY <1>a, <1>b, <2>3, <3>1
  <2>6. ASSUME NEW k \in Conns, pc'[k] = "base"
        PROVE  snap[k][cur[k].scope] <= reported'[cur[k].scope]
    <3>1. CASE k = l
      BY <2>1, <2>3, <3>1 DEF SkipInv
    <3>2. CASE k # l
      <4>1. snap[k][cur[k].scope] <= reported[cur[k].scope]
        BY <2>1, <2>6, <3>2 DEF SkipInv
      <4> QED
        BY <1>a, <1>b, <2>3, <4>1
    <3> QED
      BY <3>1, <3>2
  <2> QED
    BY <2>1, <2>4, <2>5, <2>6 DEF SkipInv, NothingSkipped
<1>5. ASSUME NEW l \in Conns, SetBaseline(l) PROVE SkipInv'
  <2> DEFINE sc == cur[l].scope
  <2>1. UNCHANGED <<reported, snap>> /\ pc[l] = "base" /\ pc'[l] = "diff"
        /\ \A k \in Conns : k # l => pc'[k] = pc[k] /\ cur'[k] = cur[k]
    BY <1>5, <1>a DEF SetBaseline, history
  <2>2. \A s \in Scopes : base'[s] = base[s] \/ (s = sc /\ base'[s] = snap[l][sc])
    BY <1>5, <1>a, <1>b DEF SetBaseline, NextBaseline
  <2>3. snap[l][sc] <= reported[sc]
    BY <2>1 DEF SkipInv
  <2>4. \A s \in Scopes : base'[s] <= reported[s]
    BY <2>2, <2>3 DEF SkipInv, NothingSkipped
  <2> QED
    BY <2>1, <2>4 DEF SkipInv, NothingSkipped
<1>6. ASSUME (\E c \in Conns : ManagerStep(c) \/ LoseQueue(c))
             \/ OnAck \/ Disconnect \/ UNCHANGED vars
      PROVE  SkipInv'
  <2>1. UNCHANGED <<pc, snap, cur, base, reported>>
    BY <1>6 DEF ManagerStep, Ingest, IngestDuplicate, IngestError, LoseQueue, OnAck,
                Disconnect, vars, agentDisk, loopVars, history
  <2> QED
    BY <2>1, SkipFrame
<1>7. ASSUME Connect PROVE SkipInv'
  <2>1. UNCHANGED <<snap, cur, base, reported>>
        /\ \A k \in Conns : pc'[k] = pc[k] \/ pc'[k] = "idle"
    BY <1>7, <1>a DEF Connect, agentDisk, history
  <2> QED
    BY <2>1, SkipFrame
<1>8. ASSUME Restart PROVE SkipInv'
  <2>1. UNCHANGED <<base, reported>> /\ \A k \in Conns : pc'[k] = "off"
    BY <1>8 DEF Restart, agentDisk
  <2> QED
    BY <2>1, SkipFrame
<1> QED
  BY <1>1, <1>2, <1>3, <1>4, <1>5, <1>6, <1>7, <1>8 DEF Next, LoopStep

\* No byte is skipped: whatever loops overlap, statements fail and processes
\* die, the next round starts from a baseline that rows account for.
THEOREM NothingSkippedHolds == Spec => []NothingSkipped
<1>1. Init => SkipInv
  BY DEF Init, SkipInv, NothingSkipped, Zero
<1>2. TypeOK /\ SkipInv /\ [Next]_vars => (TypeOK /\ SkipInv)'
  BY TypeStep, SkipStep
<1>3. SkipInv => NothingSkipped
  BY DEF SkipInv
<1> QED
  BY TypeInit, <1>1, <1>2, <1>3, PTL DEF Spec

-----------------------------------------------------------------------------
(***************************************************************************)
(* Bytes are cut into rows once, and once more at most for every lapse,    *)
(* provided that rounds do not overlap: two loops that subtract one        *)
(* baseline would cut the same growth twice without any failure.           *)
(***************************************************************************)
BusyAlone == \A k, l \in Conns : ~Idle(k) /\ ~Idle(l) => k = l

Cutting(l) == pc[l] \in {"diff", "alloc", "insert", "base"}

\* What lapses may have added to the rows of scope s.
Slack(s) == used.lapses * totals[s]

CutInv ==
  /\ \A s \in Scopes : base[s] <= totals[s]
  /\ \A l \in Conns : Cutting(l) =>
       \A s \in Scopes : base[s] <= snap[l][s] /\ snap[l][s] <= totals[s]
  /\ \A l \in Conns : pc[l] \in {"alloc", "insert"} =>
       reported[cur[l].scope] + cur[l].bytes <= snap[l][cur[l].scope] + Slack(cur[l].scope)
  /\ \A s \in Scopes : \/ reported[s] <= base[s] + Slack(s)
                       \/ \E l \in Conns : pc[l] = "base" /\ cur[l].scope = s
  /\ \A l \in Conns : pc[l] = "base" =>
       reported[cur[l].scope] <= snap[l][cur[l].scope] + Slack(cur[l].scope)

LEMMA SlackType == TypeOK => \A s \in Scopes : Slack(s) \in Nat
<1>1. \A m, n \in Nat : m * n \in Nat
  OBVIOUS
<1> QED
  BY <1>1 DEF TypeOK, Counts, Slack

\* One more lapse is worth the whole of the total.
LEMMA SlackLapse ==
  ASSUME TypeOK, used'.lapses = used.lapses + 1, UNCHANGED totals, NEW s \in Scopes
  PROVE  Slack(s)' = Slack(s) + totals[s]
<1>1. \A m, n \in Nat : (m + 1) * n = m * n + n
  OBVIOUS
<1> QED
  BY <1>1 DEF TypeOK, Counts, Slack

LEMMA SlackGrows ==
  ASSUME TypeOK, used'.lapses = used.lapses, NEW s \in Scopes,
         totals'[s] \in Nat, totals[s] <= totals'[s]
  PROVE  Slack(s) <= Slack(s)'
<1>1. \A k, m, n \in Nat : m <= n => k * m <= k * n
  OBVIOUS
<1> QED
  BY <1>1 DEF TypeOK, Counts, Slack

LEMMA CutInit == Init => BusyAlone /\ CutInv
<1> SUFFICES ASSUME Init PROVE BusyAlone /\ CutInv
  OBVIOUS
<1>1. \A s \in Scopes : Slack(s) \in Nat
  BY TypeInit, SlackType
<1> QED
  BY <1>1 DEF Init, BusyAlone, CutInv, Cutting, Idle, Zero

\* A step that reads or writes no amount, keeps the loop that cuts where it is
\* or sends it away, and leaves the others alone.
LEMMA CutFrame ==
  ASSUME CutInv, UNCHANGED <<totals, base, reported>>, used'.lapses = used.lapses,
         \A l \in Conns : Cutting(l)' =>
           pc'[l] = pc[l] /\ snap'[l] = snap[l] /\ cur'[l] = cur[l],
         \A l \in Conns : pc[l] = "base" => pc'[l] = "base"
  PROVE  CutInv'
<1>1. \A s \in Scopes : Slack(s)' = Slack(s)
  BY DEF Slack
<1>2. \A l \in Conns : pc'[l] \in {"alloc", "insert", "base"} => Cutting(l)'
  BY DEF Cutting
<1>3. \A s : Slack(s)' = Slack(s)
  BY DEF Slack
<1> QED
  BY <1>2, <1>3 DEF CutInv, Cutting

LEMMA BusyFrame ==
  ASSUME BusyAlone, \A l \in Conns : Idle(l) => Idle(l)'
  PROVE  BusyAlone'
BY DEF BusyAlone

LEMMA CutStep ==
  ASSUME ~Overlap, TypeOK, BusyAlone, CutInv, [Next]_vars
  PROVE  BusyAlone' /\ CutInv'
<1> USE DEF Goto, PCs
<1>a. /\ pc \in [Conns -> PCs] /\ cur \in [Conns -> Row]
      /\ snap \in [Conns -> [Scopes -> Nat]]
      /\ totals \in [Scopes -> Nat] /\ base \in [Scopes -> Nat]
      /\ reported \in [Scopes -> Nat]
  BY DEF TypeOK
<1>b. \A l \in Conns : cur[l].scope \in Scopes /\ cur[l].bytes \in Nat
  BY <1>a DEF Row
<1>s. \A s \in Scopes : Slack(s) \in Nat
  BY SlackType
\* A step that is no lapse and moves no total.
<1>u. ASSUME used'.lapses = used.lapses, UNCHANGED totals
      PROVE  \A s : Slack(s)' = Slack(s)
  BY <1>u DEF Slack
<1>v. used.lapses \in Nat
  BY DEF TypeOK, Counts
\* A lapse leaves every amount but those of its own scope below its bound.
<1>w. ASSUME used'.lapses = used.lapses + 1, UNCHANGED totals, NEW s \in Scopes
      PROVE  Slack(s)' = Slack(s) + totals[s] /\ Slack(s)' \in Nat /\ Slack(s) <= Slack(s)'
  <2>1. Slack(s)' = Slack(s) + totals[s]
    BY <1>w, SlackLapse
  <2> QED
    BY <1>a, <1>s, <2>1
<1>x. used \in Counts
  BY DEF TypeOK
<1>1. ASSUME NEW l \in Conns, Tick(l) PROVE BusyAlone' /\ CutInv'
  <2>1. \A k \in Conns : Idle(k)
    BY <1>1 DEF Tick
  <2>2. \A k \in Conns : k # l => Idle(k)'
    BY <1>1, <1>a, <2>1 DEF Tick, Idle
  <2>3. \A k \in Conns : ~Cutting(k)' /\ ~Cutting(k)
    BY <1>1, <1>a, <2>1 DEF Tick, Idle, Cutting
  <2>4. \A s \in Scopes : totals'[s] >= totals[s] /\ totals'[s] \in Nat
    BY <1>1, <1>a DEF Tick
  <2>5. UNCHANGED <<base, reported, used>>
    BY <1>1 DEF Tick, history
  <2>6. \A s \in Scopes : base[s] <= totals'[s] /\ reported[s] <= base[s] + Slack(s)'
    <3> SUFFICES ASSUME NEW s \in Scopes
                 PROVE  base[s] <= totals'[s] /\ reported[s] <= base[s] + Slack(s)'
      OBVIOUS
    <3>1. base[s] <= totals[s] /\ reported[s] <= base[s] + Slack(s)
      BY <2>3 DEF CutInv, Cutting
    <3>2. Slack(s) <= Slack(s)' /\ Slack(s)' \in Nat
      <4>1. Slack(s) <= Slack(s)'
        BY <2>4, <2>5, SlackGrows
      <4>2. \A m, n \in Nat : m * n \in Nat
        OBVIOUS
      <4> QED
        BY <1>v, <2>4, <2>5, <4>1, <4>2 DEF Slack
    <3> QED
      BY <1>a, <1>s, <2>4, <3>1, <3>2
  <2> QED
    BY <2>2, <2>3, <2>5, <2>6 DEF BusyAlone, CutInv, Cutting
<1>2. ASSUME NEW l \in Conns, ReadTotals(l) PROVE BusyAlone' /\ CutInv'
  <2>1. \A k \in Conns : k # l => Idle(k)
    BY <1>2 DEF ReadTotals, BusyAlone, Idle
  <2>2. UNCHANGED <<totals, base, reported, cur, used>> /\ pc'[l] = "diff" /\ snap'[l] = totals
    BY <1>2, <1>a DEF ReadTotals, agentDisk, history
  <2>3. \A k \in Conns : k # l => Idle(k)' /\ ~Cutting(k)'
    BY <1>2, <1>a, <2>1 DEF ReadTotals, Idle, Cutting
  <2>4. \A k \in Conns : ~Cutting(k)
    BY <1>2, <2>1 DEF ReadTotals, Idle, Cutting
  <2>5. \A s \in Scopes : base[s] <= totals[s] /\ reported[s] <= base[s] + Slack(s)
    BY <2>4 DEF CutInv, Cutting
  <2>6. BusyAlone'
    BY <2>3 DEF BusyAlone
  <2>7. CutInv'
    BY <1>a, <1>u, <2>2, <2>3, <2>5 DEF CutInv, Cutting
  <2> QED
    BY <2>6, <2>7
<1>3. ASSUME NEW l \in Conns, NEW s \in Scopes, Diff(l, s) PROVE BusyAlone' /\ CutInv'
  <2>1. BusyAlone'
    BY <1>3, <1>a, BusyFrame DEF Diff, Cut, Idle
  <2>2. /\ UNCHANGED <<totals, base, reported, snap>> /\ pc[l] = "diff"
        /\ \A k \in Conns : k # l => Idle(k)
    BY <1>3 DEF Diff, agentDisk, history, BusyAlone, Idle
  <2>3. \A k \in Conns : k # l => ~Cutting(k) /\ pc[k] \notin {"alloc", "insert", "base"}
    BY <2>2 DEF Idle, Cutting
  <2>4. \A x \in Scopes : /\ reported[x] <= base[x] + Slack(x)
                          /\ base[x] <= snap[l][x] /\ snap[l][x] <= totals[x]
    BY <2>2, <2>3 DEF CutInv, Cutting
  <2>5. \A x \in Scopes : Slack(x)' \in Nat /\ Slack(x) <= Slack(x)'
    <3>1. CASE UNCHANGED used
      <4>1. \A x : Slack(x)' = Slack(x)
        BY <1>u, <2>2, <3>1
      <4> QED
        BY <1>s, <4>1
    <3>2. CASE Lapse
      <4>1. used'.lapses = used.lapses + 1
        BY <1>v, <1>x, <3>2 DEF Lapse, Counts
      <4> QED
        BY <1>w, <2>2, <4>1
    <3> QED
      BY <1>3, <3>1, <3>2 DEF Diff
  <2>6. \A x \in Scopes : reported[x] <= base[x] + Slack(x)'
    BY <1>a, <1>s, <2>4, <2>5
  <2>7. PICK b \in Nat : Cut(l, s, b) /\ reported[s] + (snap[l][s] - b) <= snap[l][s] + Slack(s)'
                         /\ b <= snap[l][s]
    <3>1. CASE Cut(l, s, base[s])
      BY <1>a, <2>4, <2>5, <2>6, <3>1
    <3>2. CASE Lapse /\ Cut(l, s, 0)
      <4>1. Slack(s)' = Slack(s) + totals[s]
        BY <1>v, <1>w, <1>x, <2>2, <3>2 DEF Lapse, Counts
      <4> QED
        BY <1>a, <1>s, <2>4, <3>2, <4>1
    <3> QED
      BY <1>3, <3>1, <3>2 DEF Diff
  <2>8. CASE UNCHANGED <<pc, cur>>
    BY <2>1, <2>2, <2>3, <2>4, <2>6, <2>8 DEF CutInv, Cutting
  <2>9. CASE ~UNCHANGED <<pc, cur>>
    <3>1. /\ pc' = [pc EXCEPT ![l] = "alloc"]
          /\ cur' = [cur EXCEPT ![l] =
               [seq |-> 0, scope |-> s, bytes |-> Clamp(snap[l][s] - b)]]
      BY <2>7, <2>9 DEF Cut
    <3>2. /\ pc'[l] = "alloc" /\ cur'[l].scope = s /\ cur'[l].bytes = Clamp(snap[l][s] - b)
          /\ \A k \in Conns : k # l => pc'[k] = pc[k] /\ cur'[k] = cur[k]
      BY <1>a, <3>1
    <3>3. cur'[l].bytes = snap[l][s] - b
      BY <1>a, <2>7, <3>2 DEF Clamp
    <3>4. reported[s] + cur'[l].bytes <= snap[l][s] + Slack(s)'
      BY <2>7, <3>3
    <3> QED
      BY <2>1, <2>2, <2>3, <2>4, <2>6, <3>2, <3>4 DEF CutInv, Cutting
  <2> QED
    BY <2>8, <2>9
<1>4. ASSUME NEW l \in Conns, AllocSeq(l) PROVE BusyAlone' /\ CutInv'
  <2>1. BusyAlone'
    BY <1>4, <1>a, BusyFrame DEF AllocSeq, Idle
  <2>2. UNCHANGED <<totals, base, reported, snap>> /\ pc[l] = "alloc" /\ pc'[l] = "insert"
    BY <1>4, <1>a DEF AllocSeq, history
  <2>3. \A k \in Conns : k # l => cur'[k] = cur[k] /\ pc'[k] = pc[k]
    BY <1>4, <1>a DEF AllocSeq
  <2>4. cur' = [cur EXCEPT ![l] = [cur[l] EXCEPT !.seq = seq']]
    BY <1>4 DEF AllocSeq
  <2>5. cur'[l].scope = cur[l].scope /\ cur'[l].bytes = cur[l].bytes
    BY <1>a, <2>4 DEF Row
  <2>6. used'.lapses = used.lapses
    BY <1>4, <1>x DEF AllocSeq, DiskError, Counts
  <2>7. \A x : Slack(x)' = Slack(x)
    BY <1>u, <2>2, <2>6
  <2> QED
    BY <2>1, <2>2, <2>3, <2>5, <2>7 DEF CutInv, Cutting
<1>5. ASSUME NEW l \in Conns, InsertPending(l) PROVE BusyAlone' /\ CutInv'
  <2> DEFINE sc == cur[l].scope
  <2>1. BusyAlone'
    BY <1>5, <1>a, BusyFrame DEF InsertPending, Idle
  <2>2. UNCHANGED <<totals, base, snap, cur, used>> /\ pc[l] = "insert" /\ pc'[l] = "base"
    BY <1>5, <1>a DEF InsertPending
  <2>3. \A k \in Conns : k # l => Idle(k) /\ pc'[k] = pc[k]
    BY <1>5, <1>a DEF InsertPending, BusyAlone, Idle
  <2>4. \A s \in Scopes : reported[s] <= base[s] + Slack(s)
    BY <2>2, <2>3 DEF CutInv, Idle
  <2>5. reported' = [reported EXCEPT ![sc] = reported[sc] + cur[l].bytes]
    BY <1>5 DEF InsertPending
  <2>6. reported[sc] + cur[l].bytes <= snap[l][sc] + Slack(sc)
    BY <2>2 DEF CutInv
  <2>7. \A x : Slack(x)' = Slack(x)
    BY <1>u, <2>2
  <2>8. /\ reported'[sc] <= snap[l][sc] + Slack(sc)
        /\ \A s \in Scopes : s # sc => reported'[s] = reported[s]
    BY <1>a, <1>b, <2>5, <2>6
  <2>9. \A k \in Conns : pc'[k] \in {"alloc", "insert", "base"} => k = l
    BY <2>3 DEF Idle
  <2>10. \A k \in Conns : Cutting(k)' => Cutting(k)
    BY <2>2, <2>3 DEF Cutting
  <2> QED
    BY <2>1, <2>2, <2>4, <2>7, <2>8, <2>9, <2>10 DEF CutInv
<1>6. ASSUME NEW l \in Conns, RoundFails(l) PROVE BusyAlone' /\ CutInv'
  <2>1. BusyAlone'
    BY <1>6, <1>a, BusyFrame DEF RoundFails, Idle
  <2>2. used'.lapses = used.lapses
    BY <1>6, <1>x DEF RoundFails, DiskError, Counts
  <2>3. CutInv'
    BY <1>6, <1>a, <2>2, CutFrame DEF RoundFails, ForgetLocals, Cutting, agentDisk, history
  <2> QED
    BY <2>1, <2>3
<1>7. ASSUME NEW l \in Conns, SetBaseline(l) PROVE BusyAlone' /\ CutInv'
  <2> DEFINE sc == cur[l].scope
  <2>1. BusyAlone'
    BY <1>7, <1>a, BusyFrame DEF SetBaseline, Idle
  <2>2. UNCHANGED <<totals, reported, snap>> /\ pc[l] = "base" /\ pc'[l] = "diff"
    BY <1>7, <1>a DEF SetBaseline, history
  <2>3. \A k \in Conns : k # l => Idle(k) /\ pc'[k] = pc[k]
    BY <1>7, <1>a DEF SetBaseline, BusyAlone, Idle
  <2>4. \A k \in Conns : (k # l => ~Cutting(k)') /\ pc'[k] \notin {"alloc", "insert", "base"}
    BY <2>2, <2>3 DEF Idle, Cutting
  <2>5. reported[sc] <= snap[l][sc] + Slack(sc)
    BY <2>2 DEF CutInv
  <2>6. \A s \in Scopes : s # sc => reported[s] <= base[s] + Slack(s)
    BY <2>2, <2>3 DEF CutInv, Idle
  <2>7. \A s \in Scopes : base[s] <= snap[l][s] /\ snap[l][s] <= totals[s]
    BY <2>2 DEF CutInv, Cutting
  <2>8. \A s \in Scopes : /\ base'[s] <= snap[l][s] /\ base'[s] <= totals[s]
                          /\ reported[s] <= base'[s] + Slack(s)'
    <3>1. CASE base' = [base EXCEPT ![sc] = NextBaseline(l)] /\ UNCHANGED used
      <4>1. base'[sc] = snap[l][sc] /\ \A s \in Scopes : s # sc => base'[s] = base[s]
        BY <1>a, <1>b, <3>1 DEF NextBaseline
      <4>2. \A s : Slack(s)' = Slack(s)
        BY <1>u, <2>2, <3>1
      <4>3. \A s \in Scopes : base'[s] <= snap[l][s] /\ base'[s] <= totals[s]
        BY <1>a, <2>7, <4>1
      <4>4. \A s \in Scopes : reported[s] <= base'[s] + Slack(s)
        BY <2>5, <2>6, <4>1
      <4> QED
        BY <4>2, <4>3, <4>4
    <3>2. CASE Lapse /\ UNCHANGED base
      <4>1. used'.lapses = used.lapses + 1
        BY <1>v, <1>x, <3>2 DEF Lapse, Counts
      <4>2. ASSUME NEW s \in Scopes PROVE reported[s] <= base[s] + Slack(s)'
        <5>1. Slack(s)' = Slack(s) + totals[s]
          BY <1>w, <2>2, <4>1
        <5>2. reported[s] <= snap[l][s] + Slack(s) \/ reported[s] <= base[s] + Slack(s)
          BY <2>5, <2>6
        <5> QED
          BY <1>a, <1>s, <2>7, <5>1, <5>2
      <4>3. base' = base
        BY <3>2
      <4>4. \A s \in Scopes : base'[s] <= snap[l][s] /\ base'[s] <= totals[s]
        BY <1>a, <2>7, <4>3
      <4>5. \A s \in Scopes : reported[s] <= base'[s] + Slack(s)'
        BY <4>2, <4>3
      <4> QED
        BY <4>4, <4>5
    <3> QED
      BY <1>7, <3>1, <3>2 DEF SetBaseline
  <2> QED
    BY <2>1, <2>2, <2>4, <2>7, <2>8 DEF CutInv, Cutting
<1>8. ASSUME NEW l \in Conns,
             LoadPending(l) \/ SendFails(l) \/ EndRound(l)
             \/ \E r \in items[l] : SendDelta(l, r)
      PROVE  BusyAlone' /\ CutInv'
  <2>1. BusyAlone'
    BY <1>8, <1>a, BusyFrame DEF LoadPending, SendFails, EndRound, SendDelta, Idle
  <2>2. UNCHANGED used
    BY <1>8 DEF LoadPending, SendFails, EndRound, SendDelta
  <2>3. CutInv'
    BY <1>8, <1>a, <2>2, CutFrame DEF LoadPending, ForgetLocals, SendFails, EndRound,
       SendDelta, Cutting, agentDisk, history
  <2> QED
    BY <2>1, <2>3
<1>9. ASSUME NEW c \in Conns, ManagerStep(c) \/ LoseQueue(c)
      PROVE  BusyAlone' /\ CutInv'
  <2>1. UNCHANGED <<pc, snap, cur, totals, base, reported>>
    BY <1>9 DEF ManagerStep, Ingest, IngestDuplicate, IngestError, LoseQueue, agentDisk,
                loopVars, history
  <2>2. used'.lapses = used.lapses
    BY <1>9, <1>x DEF ManagerStep, Ingest, IngestDuplicate, IngestError, LoseQueue, Counts
  <2> QED
    BY <2>1, <2>2, BusyFrame, CutFrame DEF Idle
<1>10. ASSUME OnAck \/ Disconnect \/ UNCHANGED vars PROVE BusyAlone' /\ CutInv'
  <2>1. UNCHANGED <<pc, snap, cur, totals, base, reported>>
    BY <1>10 DEF OnAck, Disconnect, vars, agentDisk, loopVars, history
  <2>2. used'.lapses = used.lapses
    BY <1>10, <1>x DEF OnAck, Disconnect, vars, DiskError, Counts
  <2> QED
    BY <2>1, <2>2, BusyFrame, CutFrame DEF Idle
<1>11. ASSUME Connect PROVE BusyAlone' /\ CutInv'
  <2>1. \A k \in Conns : Idle(k) /\ Idle(k)'
    BY <1>11, <1>a DEF Connect, Idle
  <2>2. \A k \in Conns : ~Cutting(k)' /\ pc[k] # "base"
    BY <2>1 DEF Idle, Cutting
  <2>3. UNCHANGED <<totals, base, reported>> /\ used'.lapses = used.lapses
    BY <1>11, <1>x DEF Connect, agentDisk, history, Counts
  <2> QED
    BY <2>1, <2>2, <2>3, CutFrame DEF BusyAlone
<1>12. ASSUME Restart PROVE BusyAlone' /\ CutInv'
  <2>1. \A k \in Conns : Idle(k)' /\ ~Cutting(k)'
                         /\ pc'[k] \notin {"alloc", "insert", "base"}
    BY <1>12 DEF Restart, Idle, Cutting
  <2>2. UNCHANGED <<totals, base, reported>>
    BY <1>12 DEF Restart, agentDisk
  <2>3. \/ used'.lapses = used.lapses /\ \A k \in Conns : pc[k] # "base"
        \/ used'.lapses = used.lapses + 1
    <3>1. PICK failed \in BOOLEAN :
            used' = [used EXCEPT !.restarts = @ + 1,
                                 !.disk = IF failed THEN @ + 1 ELSE @,
                                 !.lapses = IF \E k \in Conns : pc[k] = "base"
                                              THEN @ + 1 ELSE @]
      BY <1>12 DEF Restart
    <3> QED
      BY <1>x, <3>1 DEF Counts
  <2>4. CASE used'.lapses = used.lapses /\ \A k \in Conns : pc[k] # "base"
    BY <2>1, <2>2, <2>4, CutFrame DEF BusyAlone
  \* The row of the loop that was cut off from its baseline is cut again.
  <2>5. CASE used'.lapses = used.lapses + 1
    <3>1. ASSUME NEW s \in Scopes PROVE reported[s] <= base[s] + Slack(s)'
      <4>1. Slack(s)' = Slack(s) + totals[s]
        BY <1>w, <2>2, <2>5
      <4>2. reported[s] <= base[s] + Slack(s) \/ reported[s] <= totals[s] + Slack(s)
        <5>1. ASSUME NEW l \in Conns, pc[l] = "base", cur[l].scope = s
              PROVE  reported[s] <= totals[s] + Slack(s)
          <6>1. reported[s] <= snap[l][s] + Slack(s) /\ snap[l][s] <= totals[s]
            BY <5>1 DEF CutInv, Cutting
          <6> QED
            BY <1>a, <1>s, <6>1
        <5> QED
          BY <5>1 DEF CutInv
      <4> QED
        BY <1>a, <1>s, <4>1, <4>2
    <3> QED
      BY <2>1, <2>2, <3>1 DEF BusyAlone, CutInv
  <2> QED
    BY <2>3, <2>4, <2>5
<1> QED
  BY <1>1, <1>2, <1>3, <1>4, <1>5, <1>6, <1>7, <1>8, <1>9, <1>10, <1>11, <1>12
     DEF Next, LoopStep

\* What the Manager is told of a scope never exceeds what was counted locally,
\* but for one more time the total for every lapse: without one, not at all.
THEOREM NoOverReportHolds ==
  ASSUME ~Overlap
  PROVE  Spec => []NoOverReport
<1>1. TypeOK /\ BusyAlone /\ CutInv => NoOverReport
  <2> SUFFICES ASSUME TypeOK, CutInv, NEW s \in Scopes
               PROVE  reported[s] <= (1 + used.lapses) * totals[s]
    BY DEF NoOverReport
  <2>1. /\ reported[s] \in Nat /\ totals[s] \in Nat /\ base[s] \in Nat
        /\ used.lapses \in Nat /\ Slack(s) \in Nat
    BY SlackType DEF TypeOK, Counts
  <2>2. reported[s] <= totals[s] + Slack(s)
    <3>1. CASE reported[s] <= base[s] + Slack(s)
      <4>1. base[s] <= totals[s]
        BY DEF CutInv
      <4> QED
        BY <2>1, <3>1, <4>1
    <3>2. ASSUME NEW l \in Conns, pc[l] = "base", cur[l].scope = s
          PROVE  reported[s] <= totals[s] + Slack(s)
      <4>1. /\ reported[s] <= snap[l][s] + Slack(s) /\ snap[l][s] <= totals[s]
            /\ snap[l][s] \in Nat
        BY <3>2 DEF CutInv, Cutting, TypeOK
      <4> QED
        BY <2>1, <4>1
    <3> QED
      BY <3>1, <3>2 DEF CutInv
  <2>3. \A m, n \in Nat : (1 + m) * n = n + m * n
    OBVIOUS
  <2> QED
    BY <2>1, <2>2, <2>3 DEF Slack
<1>2. TypeOK /\ BusyAlone /\ CutInv /\ [Next]_vars => (TypeOK /\ BusyAlone /\ CutInv)'
  BY TypeStep, CutStep
<1> QED
  BY TypeInit, CutInit, <1>1, <1>2, PTL DEF Spec

-----------------------------------------------------------------------------
(***************************************************************************)
(* No row is lost, provided that rounds do not overlap and that no ingest  *)
(* transaction fails: an acknowledgement deletes every row up to its       *)
(* number, so all of them must have arrived before it was given.  They     *)
(* have, because rows are inserted in the order of their numbers, a round  *)
(* sends all that are pending, in that order, on one connection, and the   *)
(* Manager takes them from that connection in that order.                  *)
(***************************************************************************)
OrderInv ==
  /\ \A l \in Conns : Inserting(l) => \A a \in created : a.seq < cur[l].seq
  /\ \A l \in Conns : items[l] # {} => pc[l] = "send"
  /\ conn <= used.conns /\ \A c \in Conns : c > used.conns => up[c] = <<>>

\* Row a is at the Manager, or before place i of the connection in use.
Passed(a, i) == a \in events \/ \E j \in 1..(i - 1) : up[conn][j] = a

\* Whatever row is under way, every row with a smaller number is further.
SentInOrder ==
  /\ \A i \in 1..Len(up[conn]) : \A a \in created :
       a.seq < up[conn][i].seq => Passed(a, i)
  /\ \A l \in Conns : \A r \in items[l] : \A a \in created :
       a.seq < r.seq => a \in items[l] \/ Passed(a, Len(up[conn]) + 1)

AckedInOrder ==
  \A i \in 1..Len(down) : down[i].accepted =>
    /\ \E e \in events : e.seq = down[i].seq
    /\ \A a \in created : a.seq <= down[i].seq => a \in events

ReachInv == NoRowLost /\ (conn # 0 => SentInOrder) /\ AckedInOrder

LEMMA BusyStep ==
  ASSUME ~Overlap, TypeOK, BusyAlone, [Next]_vars
  PROVE  BusyAlone'
<1>a. pc \in [Conns -> PCs]
  BY DEF TypeOK
<1>1. CASE \E l \in Conns : Tick(l)
  BY <1>a, <1>1 DEF Tick, Goto, Idle, BusyAlone
<1>2. CASE Connect
  <2>1. \A k \in Conns : Idle(k)'
    BY <1>a, <1>2 DEF Connect, Goto, Idle
  <2> QED BY <2>1 DEF BusyAlone
<1>3. CASE Restart
  BY <1>3 DEF Restart, Idle, BusyAlone
<1>4. ASSUME NEW l \in Conns, ~Idle(l), \E p : Goto(l, p)
      PROVE  BusyAlone'
  <2>1. \A k \in Conns : k # l => Idle(k) /\ pc'[k] = pc[k]
    BY <1>a, <1>4 DEF BusyAlone, Goto
  <2> QED BY <2>1 DEF BusyAlone, Idle
<1>5. CASE pc' = pc
  BY <1>5 DEF BusyAlone, Idle
<1>6. ASSUME NEW l \in Conns, LoopStep(l), ~Tick(l)
      PROVE  pc' = pc \/ (~Idle(l) /\ \E p : Goto(l, p))
  BY <1>6 DEF LoopStep, ReadTotals, Diff, AllocSeq, InsertPending, RoundFails, SetBaseline,
     LoadPending, SendDelta, SendFails, EndRound, Idle, Cut
<1>7. ASSUME (\E c \in Conns : ManagerStep(c) \/ LoseQueue(c)) \/ OnAck \/ Disconnect \/ UNCHANGED vars
      PROVE  pc' = pc
  BY <1>7 DEF ManagerStep, Ingest, IngestDuplicate, IngestError, LoseQueue, OnAck, Disconnect,
     vars, loopVars
<1> QED BY <1>1, <1>2, <1>3, <1>4, <1>5, <1>6, <1>7 DEF Next

LEMMA OrderStep ==
  ASSUME ~Overlap, ~behind, IInv, BusyAlone, OrderInv, [Next]_vars
  PROVE  OrderInv'
<1> USE DEF Goto
<1>a. /\ pc \in [Conns -> PCs] /\ cur \in [Conns -> Row] /\ items \in [Conns -> SUBSET Row]
      /\ up \in [Conns -> Seq(Row)] /\ conn \in 0..MaxConns /\ used \in Counts
      /\ used.conns \in Nat /\ seq \in Nat
  BY DEF IInv, TypeOK, Counts
<1>s. \A r \in created : r.seq \in Nat /\ r.seq <= seq
  <2>1. \A r \in created : r \in Row
    BY DEF IInv, TypeOK
  <2> QED BY <2>1 DEF IInv, SeqInv, Numbered, Row
<1>b. MaxConns \in Nat
  BY BoundsAssumption
\* What leaves the numbers, the connections and the rows to send alone.
<1>f. ASSUME created' = created, \A l \in Conns : Inserting(l)' => Inserting(l) /\ cur'[l] = cur[l]
      PROVE  \A l \in Conns : Inserting(l)' => \A a \in created' : a.seq < cur'[l].seq
  BY <1>f DEF OrderInv
<1>g. ASSUME \A l \in Conns : items'[l] = {} \/ (items'[l] = items[l] /\ pc'[l] = pc[l])
      PROVE  \A l \in Conns : items'[l] # {} => pc'[l] = "send"
  BY <1>g DEF OrderInv
<1>h. ASSUME used'.conns = used.conns, conn' \in {0, conn},
             \A c \in Conns : c > used.conns /\ up[c] = <<>> => up'[c] = <<>>
      PROVE  conn' <= used'.conns /\ \A c \in Conns : c > used'.conns => up'[c] = <<>>
  BY <1>a, <1>h DEF OrderInv
<1>1. ASSUME NEW l \in Conns,
             \/ Tick(l) \/ ReadTotals(l) \/ (\E s \in Scopes : Diff(l, s))
             \/ SetBaseline(l)
      PROVE  OrderInv'
  <2>1. /\ UNCHANGED <<created, items, conn, up>> /\ used'.conns = used.conns
        /\ \A k \in Conns : k # l => pc'[k] = pc[k] /\ cur'[k] = cur[k]
        /\ pc'[l] # "insert" /\ pc[l] # "send"
    BY <1>1, <1>a DEF Tick, ReadTotals, Diff, Cut, SetBaseline, Lapse, Counts, history, link,
       agentDisk
  <2>2. items[l] = {}
    BY <2>1 DEF OrderInv
  <2> QED BY <1>f, <1>g, <1>h, <2>1, <2>2 DEF OrderInv, Inserting
<1>2. ASSUME NEW l \in Conns, AllocSeq(l) PROVE OrderInv'
  <2>1. /\ UNCHANGED <<created, items, conn, up>> /\ used'.conns = used.conns
        /\ \A k \in Conns : k # l => pc'[k] = pc[k] /\ cur'[k] = cur[k]
        /\ cur'[l] = [cur[l] EXCEPT !.seq = seq'] /\ seq' = seq + 1 /\ pc[l] = "alloc"
    BY <1>2, <1>a DEF AllocSeq, DiskError, Counts, history, link
  <2>2. cur'[l].seq = seq + 1
    BY <1>a, <2>1 DEF Row
  <2>3. items[l] = {}
    BY <2>1 DEF OrderInv
  <2>4. \A k \in Conns : Inserting(k)' => k = l
    BY <2>1 DEF BusyAlone, Idle, Inserting
  <2>5. \A k \in Conns : Inserting(k)' => \A a \in created' : a.seq < cur'[k].seq
    <3>1. \A a \in created : a.seq < seq + 1
      BY <1>a, <1>s
    <3> QED BY <2>1, <2>2, <2>4, <3>1
  <2> QED BY <1>g, <1>h, <2>1, <2>3, <2>5 DEF OrderInv
<1>3. ASSUME NEW l \in Conns, InsertPending(l) PROVE OrderInv'
  <2>1. /\ UNCHANGED <<items, used, conn, up>>
        /\ \A k \in Conns : k # l => pc'[k] = pc[k]
        /\ pc[l] = "insert" /\ pc'[l] = "base"
    BY <1>3, <1>a DEF InsertPending, link
  <2>2. items[l] = {} /\ \A k \in Conns : ~Inserting(k)'
    BY <2>1 DEF OrderInv, BusyAlone, Idle, Inserting
  <2> QED BY <1>g, <1>h, <2>1, <2>2 DEF OrderInv
<1>4. ASSUME NEW l \in Conns, RoundFails(l) PROVE OrderInv'
  <2>1. /\ UNCHANGED <<created, items, conn, up>> /\ used'.conns = used.conns
        /\ \A k \in Conns : k # l => pc'[k] = pc[k] /\ cur'[k] = cur[k]
        /\ pc[l] # "send" /\ pc'[l] = "idle"
    BY <1>4, <1>a DEF RoundFails, DiskError, ForgetLocals, history, link, Counts
  <2>2. items[l] = {}
    BY <2>1 DEF OrderInv
  <2> QED BY <1>f, <1>g, <1>h, <2>1, <2>2 DEF OrderInv, Inserting
<1>5. ASSUME NEW l \in Conns, LoadPending(l) PROVE OrderInv'
  <2>1. /\ UNCHANGED <<created, used, conn, up, cur>> /\ pc'[l] = "send"
        /\ \A k \in Conns : k # l => pc'[k] = pc[k] /\ items'[k] = items[k]
    BY <1>5, <1>a DEF LoadPending, history, link
  <2>2. \A k \in Conns : items'[k] # {} => pc'[k] = "send"
    BY <2>1 DEF OrderInv
  <2> QED BY <1>f, <1>h, <2>1, <2>2 DEF OrderInv, Inserting
<1>6. ASSUME NEW l \in Conns, NEW r \in items[l], SendDelta(l, r) PROVE OrderInv'
  <2>1. /\ UNCHANGED <<created, used, conn, pc, cur>> /\ pc[l] = "send"
        /\ \A k \in Conns : k # l => items'[k] = items[k]
        /\ \A c \in Conns : c # conn => up'[c] = up[c]
    BY <1>6, <1>a DEF SendDelta, history
  <2>2. \A k \in Conns : items'[k] # {} => pc'[k] = "send"
    BY <2>1 DEF OrderInv
  <2>3. \A c \in Conns : c > used.conns => c # conn
    BY <1>a, <1>b DEF OrderInv
  <2> QED BY <1>f, <1>h, <2>1, <2>2, <2>3 DEF OrderInv, Inserting
<1>7. ASSUME NEW l \in Conns, SendFails(l) \/ EndRound(l) PROVE OrderInv'
  <2>1. /\ UNCHANGED <<created, used, conn, cur, up>> /\ items'[l] = {} /\ pc'[l] = "idle"
        /\ \A k \in Conns : k # l => items'[k] = items[k] /\ pc'[k] = pc[k]
    BY <1>7, <1>a DEF SendFails, EndRound, history, link
  <2> QED BY <1>f, <1>g, <1>h, <2>1 DEF OrderInv, Inserting
<1>8. ASSUME NEW c \in Conns, ManagerStep(c) \/ LoseQueue(c) PROVE OrderInv'
  <2>1. /\ UNCHANGED <<created, conn, cur, items, pc>> /\ used'.conns = used.conns
        /\ up[c] # <<>> /\ \A k \in Conns : k # c => up'[k] = up[k]
    BY <1>8, <1>a DEF ManagerStep, Ingest, IngestDuplicate, IngestError, LoseQueue, Reply,
       history, loopVars, Counts
  <2> QED BY <1>f, <1>g, <1>h, <2>1 DEF OrderInv, Inserting
<1>9. CASE OnAck \/ Disconnect \/ UNCHANGED vars
  <2>1. /\ UNCHANGED <<created, cur, items, pc, up>> /\ used'.conns = used.conns
        /\ conn' \in {0, conn}
    BY <1>9, <1>a DEF OnAck, Disconnect, DiskError, Counts, vars, history, loopVars, link
  <2> QED BY <1>f, <1>g, <1>h, <2>1 DEF OrderInv, Inserting
<1>10. CASE Connect
  <2> DEFINE c == used.conns + 1
  <2>1. /\ UNCHANGED <<created, cur, items>> /\ c \in Conns /\ conn' = c
        /\ used' = [used EXCEPT !.conns = c]
        /\ \A k \in Conns : Idle(k)
        /\ pc' = [pc EXCEPT ![c] = "idle"]
        /\ \A k \in Conns : up[k] = <<>> => up'[k] = <<>>
    BY <1>10 DEF Connect, history
  <2>2. used'.conns = c /\ c \in Nat /\ \A k \in Conns : Idle(k)'
    BY <1>a, <2>1 DEF Counts, Idle
  <2>3. \A k \in Conns : items[k] = {}
    BY <2>1 DEF OrderInv, Idle
  <2>4. \A k \in Conns : k \in Nat /\ (k > c => up'[k] = <<>>)
    BY <1>a, <2>1 DEF OrderInv, Conns
  <2> QED BY <1>a, <1>f, <1>g, <2>1, <2>2, <2>3, <2>4 DEF OrderInv, Inserting, Idle
<1>11. CASE Restart
  <2>1. /\ UNCHANGED <<created, up>> /\ used'.conns = used.conns /\ conn' = 0
        /\ \A k \in Conns : items'[k] = {} /\ pc'[k] = "off"
    BY <1>11, <1>a DEF Restart, history, Counts
  <2> QED BY <1>f, <1>g, <1>h, <2>1 DEF OrderInv, Inserting
<1> QED
  BY <1>1, <1>2, <1>3, <1>4, <1>5, <1>6, <1>7, <1>8, <1>9, <1>10, <1>11 DEF Next, LoopStep

\* A step that stores and sends nothing new, and deletes nothing.
LEMMA ReachFrame ==
  ASSUME ~behind, ReachInv, UNCHANGED <<created, pending>>, events \subseteq events',
         conn' = 0 \/ (conn' = conn /\ up'[conn] = up[conn]),
         \A l \in Conns : items'[l] = items[l] \/ items'[l] = {},
         down' = down \/ down' = <<>>
  PROVE  ReachInv'
<1>1. NoRowLost'
  BY DEF ReachInv, NoRowLost
<1>2. AckedInOrder'
  BY DEF ReachInv, AckedInOrder
<1>3. ASSUME conn' # 0 PROVE SentInOrder'
  <2>1. SentInOrder /\ conn' = conn /\ up'[conn] = up[conn]
    BY <1>3 DEF ReachInv
  <2>2. \A a, i : Passed(a, i) => Passed(a, i)'
    BY <2>1 DEF Passed
  <2> QED BY <2>1, <2>2 DEF SentInOrder
<1> QED BY <1>1, <1>2, <1>3 DEF ReachInv

\* The Manager takes a row that has reached it: all before it are stored.
LEMMA ReachTaken ==
  ASSUME ~behind, IInv, ReachInv, NEW c \in Conns, c = conn, up[c] # <<>>,
         Reply(c, Head(up[c]).seq, TRUE), UNCHANGED <<created, pending, conn, items>>,
         events \subseteq events', Head(up[c]) \in events'
  PROVE  ReachInv'
<1> DEFINE r == Head(up[c])
<1>a. /\ up \in [Conns -> Seq(Row)] /\ down \in Seq(Ack) /\ conn # 0
      /\ conn \in Conns /\ up[c] \in Seq(Row) /\ created \subseteq Row
  <2>1. c \in Nat /\ c # 0
    BY BoundsAssumption DEF Conns
  <2> QED BY <2>1 DEF IInv, TypeOK
<1>1. r = up[c][1] /\ 1 \in 1..Len(up[c]) /\ r \in created
  <2>1. r = up[c][1] /\ 1 \in 1..Len(up[c])
    BY <1>a, EmptySeq
  <2> QED BY <1>a, <2>1 DEF IInv, FlowInv
<1>2. SentInOrder /\ AckedInOrder /\ NoRowLost
  BY <1>a DEF ReachInv
<1>3. \A a \in created : a.seq <= r.seq => a \in events'
  <2> SUFFICES ASSUME NEW a \in created, a.seq <= r.seq PROVE a \in events'
    OBVIOUS
  <2>1. CASE a.seq = r.seq
    BY <1>1, <2>1 DEF IInv, SeqInv, Numbered
  <2>2. CASE a.seq < r.seq
    BY <1>a, <1>1, <1>2, <2>2 DEF SentInOrder, Passed
  <2>3. a \in Row /\ r \in Row
    BY <1>a, <1>1
  <2> QED BY <2>1, <2>2, <2>3 DEF Row
<1>4. /\ up'[conn] = Tail(up[conn])
      /\ down' = down \/ down' = Append(down, [seq |-> r.seq, accepted |-> TRUE])
  BY <1>a DEF Reply
<1>5. /\ Len(up'[conn]) = Len(up[conn]) - 1 /\ Len(up[conn]) \in Nat /\ Len(up[conn]) >= 1
      /\ \A i \in 1..Len(up'[conn]) : up'[conn][i] = up[conn][i + 1]
  BY <1>a, <1>4, EmptySeq
<1>m. PICK m \in Nat : m = Len(up'[conn])
  BY <1>5
\* What came before place i + 1 comes before place i, or was taken.
<1>6. ASSUME NEW a \in created, NEW i \in Nat, i <= m + 1, Passed(a, i + 1)
      PROVE  Passed(a, i)'
  <2>1. CASE a \in events
    BY <2>1 DEF Passed
  <2>2. CASE \E j \in 1..i : up[conn][j] = a
    <3>1. PICK j \in 1..i : up[conn][j] = a
      BY <2>2
    <3>2. CASE j = 1
      BY <1>1, <3>1, <3>2 DEF Passed
    <3>3. CASE j # 1
      <4>1. j - 1 \in 1..(i - 1) /\ j - 1 \in 1..Len(up'[conn]) /\ (j - 1) + 1 = j
        BY <1>5, <1>m, <1>6, <3>1, <3>3
      <4>2. up'[conn][j - 1] = a
        BY <1>5, <3>1, <4>1
      <4> QED BY <4>1, <4>2 DEF Passed
    <3> QED BY <3>2, <3>3
  <2>3. (i + 1) - 1 = i
    OBVIOUS
  <2> QED BY <1>6, <2>1, <2>2, <2>3 DEF Passed
<1>7. SentInOrder'
  <2>1. ASSUME NEW i \in 1..Len(up'[conn]), NEW a \in created, a.seq < up'[conn][i].seq
        PROVE  Passed(a, i)'
    <3>1. i + 1 \in 1..Len(up[conn]) /\ up'[conn][i] = up[conn][i + 1] /\ i \in Nat
          /\ i <= m + 1
      BY <1>5, <1>m
    <3>2. Passed(a, i + 1)
      BY <1>2, <2>1, <3>1 DEF SentInOrder
    <3> QED BY <1>6, <3>1, <3>2
  <2>2. ASSUME NEW l \in Conns, NEW x \in items[l], NEW a \in created, a.seq < x.seq, a \notin items[l]
        PROVE  Passed(a, m + 1)'
    <3>1. Passed(a, Len(up[conn]) + 1)
      BY <1>2, <2>2 DEF SentInOrder
    <3>2. Len(up[conn]) + 1 = (m + 1) + 1 /\ m + 1 \in Nat /\ m + 1 <= m + 1
      BY <1>5, <1>m
    <3>3. Passed(a, (m + 1) + 1)
      BY <3>1, <3>2
    <3> QED BY <1>6, <3>2, <3>3
  <2>3. (Len(up[conn]) + 1)' = m + 1
    BY <1>m
  <2> QED BY <2>1, <2>2, <2>3 DEF SentInOrder
<1>8. AckedInOrder'
  <2> SUFFICES ASSUME NEW i \in 1..Len(down'), down'[i].accepted
               PROVE  /\ \E e \in events' : e.seq = down'[i].seq
                      /\ \A a \in created : a.seq <= down'[i].seq => a \in events'
    BY DEF AckedInOrder
  <2>1. CASE i \in 1..Len(down) /\ down'[i] = down[i]
    BY <1>2, <2>1 DEF AckedInOrder
  <2>2. CASE down'[i] = [seq |-> r.seq, accepted |-> TRUE]
    <3>1. down'[i].seq = r.seq
      BY <2>2
    <3> QED BY <1>3, <3>1
  <2>3. \/ i \in 1..Len(down) /\ down'[i] = down[i]
        \/ down'[i] = [seq |-> r.seq, accepted |-> TRUE]
    <3> DEFINE k == [seq |-> r.seq, accepted |-> TRUE]
    <3>1. down' = down \/ down' = Append(down, k)
      BY <1>4
    <3>4. k \in Ack
      BY <1>a, <1>1 DEF Row, Ack
    <3> HIDE DEF k
    <3>2. ASSUME down' = Append(down, k)
          PROVE  (i \in 1..Len(down) /\ down'[i] = down[i]) \/ down'[i] = k
      <4>1. /\ Len(down') = Len(down) + 1 /\ Len(down) \in Nat /\ down'[Len(down) + 1] = k
            /\ \A j \in 1..Len(down) : down'[j] = down[j]
        BY <1>a, <3>2, <3>4
      <4>2. i \in 1..Len(down) \/ i = Len(down) + 1
        BY <4>1
      <4> QED BY <4>1, <4>2
    <3>3. (i \in 1..Len(down) /\ down'[i] = down[i]) \/ down'[i] = k
      BY <3>1, <3>2
    <3> QED BY <3>3 DEF k
  <2> QED BY <2>1, <2>2, <2>3
<1>9. NoRowLost'
  BY <1>2 DEF NoRowLost
<1> QED BY <1>7, <1>8, <1>9 DEF ReachInv

LEMMA ReachStep ==
  ASSUME ~Overlap, MaxIngestErrors = 0, ~behind, IInv, BusyAlone, OrderInv, ReachInv,
         [Next]_vars
  PROVE  ReachInv'
<1>a. /\ pc \in [Conns -> PCs] /\ cur \in [Conns -> Row] /\ items \in [Conns -> SUBSET Row]
      /\ up \in [Conns -> Seq(Row)] /\ down \in Seq(Ack) /\ conn \in 0..MaxConns
      /\ created \subseteq Row /\ used.conns \in Nat /\ used.ingest \in 0..MaxIngestErrors
  BY DEF IInv, TypeOK, Counts
<1>1. ASSUME NEW l \in Conns,
             \/ Tick(l) \/ ReadTotals(l) \/ (\E s \in Scopes : Diff(l, s)) \/ AllocSeq(l)
             \/ RoundFails(l) \/ SetBaseline(l) \/ SendFails(l) \/ EndRound(l)
      PROVE  ReachInv'
  <2>1. /\ UNCHANGED <<created, pending, events, conn, up, down>>
        /\ items' = items \/ items' = [items EXCEPT ![l] = {}]
    BY <1>1 DEF Tick, ReadTotals, Diff, AllocSeq, RoundFails, SetBaseline, SendFails, EndRound,
       history, manager, link, agentDisk
  <2> QED BY <1>a, <2>1, ReachFrame
\* The new row has the largest number of all.
<1>2. ASSUME NEW l \in Conns, InsertPending(l) PROVE ReachInv'
  <2>1. /\ UNCHANGED <<events, conn, up, down, items>> /\ Inserting(l)
        /\ created' = created \cup {cur[l]} /\ pending' = pending \cup {cur[l]}
    BY <1>2 DEF InsertPending, manager, link, Inserting
  <2>2. /\ \A a \in created : a.seq < cur[l].seq /\ a.seq \in Nat
        /\ cur[l].seq \in Nat
    BY <1>a, <2>1 DEF OrderInv, Row
  <2>3. \A a \in created : ~(cur[l].seq < a.seq) /\ ~(cur[l].seq <= a.seq)
    BY <2>2
  <2>4. NoRowLost'
    BY <2>1 DEF ReachInv, NoRowLost
  <2>5. AckedInOrder'
    <3>1. \A e \in events : e \in created
      BY DEF IInv, FlowInv
    <3> QED BY <2>1, <2>3, <3>1 DEF ReachInv, AckedInOrder
  <2>6. ASSUME conn # 0 PROVE SentInOrder'
    <3>1. conn \in Conns
      BY <1>a, <2>6 DEF Conns
    <3>2. \A i \in 1..Len(up[conn]) : up[conn][i] \in created
      BY <3>1 DEF IInv, FlowInv
    <3>3. \A k \in Conns : items[k] \subseteq created
      BY DEF IInv, FlowInv
    <3>4. SentInOrder
      BY <2>6 DEF ReachInv
    <3>5. \A a, i : Passed(a, i) => Passed(a, i)'
      BY <2>1 DEF Passed
    <3>6. \A i \in 1..Len(up[conn]) : \A a \in created' :
            a.seq < up[conn][i].seq => Passed(a, i)'
      BY <2>1, <2>3, <3>2, <3>4, <3>5 DEF SentInOrder
    <3>7. \A k \in Conns : \A r \in items[k] : \A a \in created' :
            a.seq < r.seq => a \in items[k] \/ Passed(a, Len(up[conn]) + 1)'
      BY <2>1, <2>3, <3>3, <3>4, <3>5 DEF SentInOrder
    <3> QED BY <2>1, <3>6, <3>7 DEF SentInOrder
  <2> QED BY <2>1, <2>4, <2>5, <2>6 DEF ReachInv
<1>3. ASSUME NEW l \in Conns, LoadPending(l) PROVE ReachInv'
  <2>1. /\ UNCHANGED <<created, pending, events, conn, up, down>>
        /\ items'[l] = pending /\ \A k \in Conns : k # l => items'[k] = items[k]
    BY <1>3, <1>a DEF LoadPending, history, manager, link, agentDisk
  <2>2. NoRowLost' /\ AckedInOrder'
    BY <2>1 DEF ReachInv, NoRowLost, AckedInOrder
  <2>3. ASSUME conn # 0 PROVE SentInOrder'
    <3>1. SentInOrder
      BY <2>3 DEF ReachInv
    <3>2. \A a, i : Passed(a, i)' <=> Passed(a, i)
      BY <2>1 DEF Passed
    <3>3. \A a \in created : a \in items'[l] \/ a \in events
      BY <2>1 DEF ReachInv, NoRowLost
    <3>4. \A k \in Conns : \A r \in items'[k] : \A a \in created :
            a.seq < r.seq => a \in items'[k] \/ Passed(a, Len(up[conn]) + 1)
      BY <2>1, <3>1, <3>3 DEF SentInOrder, Passed
    <3> QED BY <2>1, <3>1, <3>2, <3>4 DEF SentInOrder
  <2> QED BY <2>1, <2>2, <2>3 DEF ReachInv
\* The row sent has the smallest number of those still to send.
<1>4. ASSUME NEW l \in Conns, NEW r \in items[l], SendDelta(l, r) PROVE ReachInv'
  <2>1. /\ UNCHANGED <<created, pending, events, conn, down>> /\ conn # 0 /\ conn \in Conns
        /\ up'[conn] = Append(up[conn], r) /\ up[conn] \in Seq(Row) /\ r \in Row
        /\ items'[l] = items[l] \ {r} /\ \A k \in Conns : k # l => items'[k] = items[k]
        /\ LeastUnsent(l, r) /\ pc[l] = "send"
    BY <1>4, <1>a DEF SendDelta, history, manager, link, agentDisk, Conns
  <2>2. NoRowLost' /\ AckedInOrder' /\ SentInOrder
    BY <2>1 DEF ReachInv, NoRowLost, AckedInOrder
  <2> DEFINE n == Len(up[conn])
  <2>3. /\ n \in Nat /\ Len(up'[conn]) = n + 1 /\ up'[conn][n + 1] = r
        /\ \A i \in 1..n : up'[conn][i] = up[conn][i]
    BY <2>1
  <2> HIDE DEF n
  <2>4. ASSUME NEW a, NEW i \in 1..(n + 1), Passed(a, i) PROVE Passed(a, i)'
    <3>1. \A j \in 1..(i - 1) : j \in 1..n
      BY <2>3
    <3> QED BY <2>1, <2>3, <2>4, <3>1 DEF Passed
  <2>m. PICK m \in Nat : m = n + 2
    BY <2>3
  <2>5. ASSUME NEW a, NEW i \in 1..(n + 1), Passed(a, i) PROVE Passed(a, m)'
    <3>1. \A j \in 1..(i - 1) : j \in 1..n /\ j \in 1..(m - 1)
      BY <2>3, <2>m
    <3> QED BY <2>1, <2>3, <2>5, <3>1 DEF Passed
  <2>6. Passed(r, m)'
    <3>1. n + 1 \in 1..(m - 1)
      BY <2>3, <2>m
    <3> QED BY <2>1, <2>3, <3>1 DEF Passed
  <2>7. ASSUME NEW a \in created, a.seq < r.seq PROVE Passed(a, n + 1)
    <3>1. a \notin items[l]
      <4>1. a \in Row
        BY <1>a
      <4> QED BY <2>1, <2>7, <4>1 DEF LeastUnsent, Row
    <3> QED BY <2>2, <2>7, <3>1 DEF SentInOrder, n
  <2>8. ASSUME NEW i \in 1..Len(up'[conn]), NEW a \in created, a.seq < up'[conn][i].seq
        PROVE  Passed(a, i)'
    <3>1. CASE i = n + 1
      <4>1. Passed(a, i) /\ i \in 1..(n + 1)
        BY <2>3, <2>7, <2>8, <3>1
      <4> QED BY <2>4, <4>1
    <3>2. CASE i # n + 1
      <4>1. i \in 1..n /\ i \in 1..(n + 1) /\ up'[conn][i] = up[conn][i]
        BY <2>3, <3>2
      <4>2. Passed(a, i)
        BY <2>2, <2>8, <4>1 DEF SentInOrder, n
      <4> QED BY <2>4, <4>1, <4>2
    <3> QED BY <3>1, <3>2
  <2>9. ASSUME NEW k \in Conns, NEW x \in items'[k], NEW a \in created, a.seq < x.seq,
               a \notin items'[k]
        PROVE  Passed(a, m)'
    <3>1. x \in items[k]
      BY <2>1
    <3>2. CASE a = r
      BY <2>6, <3>2
    <3>3. CASE a # r
      <4>1. a \notin items[k]
        BY <2>1, <2>9, <3>3
      <4>2. Passed(a, n + 1)
        BY <2>2, <2>9, <3>1, <4>1 DEF SentInOrder, n
      <4>3. n + 1 \in 1..(n + 1)
        BY <2>3
      <4> QED BY <2>5, <4>2, <4>3
    <3> QED BY <3>2, <3>3
  <2>10. (Len(up[conn]) + 1)' = m
    BY <2>1, <2>3, <2>m
  <2>11. SentInOrder'
    BY <2>1, <2>8, <2>9, <2>10 DEF SentInOrder
  <2> QED BY <2>1, <2>2, <2>11 DEF ReachInv
<1>5. ASSUME NEW c \in Conns, Ingest(c) \/ IngestDuplicate(c) PROVE ReachInv'
  <2>1. /\ UNCHANGED <<created, pending, conn, items>> /\ events \subseteq events' /\ up[c] # <<>>
        /\ Reply(c, Head(up[c]).seq, TRUE)
    BY <1>5 DEF Ingest, IngestDuplicate, history, manager, agentDisk, loopVars
  <2>2. CASE c # conn
    <3>1. down' = down /\ (conn # 0 => up'[conn] = up[conn])
      BY <1>a, <2>1, <2>2 DEF Reply, Conns
    <3> QED BY <2>1, <3>1, ReachFrame
  <2>3. CASE c = conn
    <3>1. Head(up[c]) \in events'
      <4>1. CASE Ingest(c)
        BY <4>1 DEF Ingest
      <4>2. CASE IngestDuplicate(c)
        <5>1. PICK e \in events : e.seq = Head(up[c]).seq
          BY <4>2 DEF IngestDuplicate, Stored
        <5>2. Head(up[c]) \in created /\ e \in created
          BY <2>1, FlowReply DEF IInv, FlowInv
        <5> QED BY <2>1, <5>1, <5>2 DEF IInv, SeqInv, Numbered
      <4> QED BY <1>5, <4>1, <4>2
    <3> QED BY <2>1, <2>3, <3>1, ReachTaken
  <2> QED BY <2>2, <2>3
<1>6. ASSUME NEW c \in Conns, IngestError(c) PROVE FALSE
  BY <1>6, <1>a DEF IngestError
<1>7. ASSUME NEW c \in Conns, LoseQueue(c) PROVE ReachInv'
  <2>1. /\ UNCHANGED <<created, pending, events, conn, items, down>>
        /\ c # conn /\ up' = [up EXCEPT ![c] = <<>>]
    BY <1>7 DEF LoseQueue, history, manager, agentDisk, loopVars
  <2>2. conn = 0 \/ conn \in Conns
    BY <1>a, BoundsAssumption DEF Conns
  <2>3. conn = 0 \/ up'[conn] = up[conn]
    BY <1>a, <2>1, <2>2
  <2> QED BY <2>1, <2>3, ReachFrame
\* What is deleted has been stored.
<1>8. CASE OnAck
  <2>1. /\ UNCHANGED <<created, events, conn, items, up>> /\ down # <<>> /\ down' = Tail(down)
        /\ \/ pending' = IF Head(down).accepted THEN NotAcked(Head(down).seq) ELSE pending
           \/ pending' = pending
    BY <1>8 DEF OnAck, history, manager, loopVars
  <2>2. Head(down) = down[1] /\ 1 \in 1..Len(down)
        /\ \A i \in 1..Len(down') : i + 1 \in 1..Len(down) /\ down'[i] = down[i + 1]
    BY <1>a, <2>1, EmptySeq
  <2>3. AckedInOrder'
    BY <2>1, <2>2 DEF ReachInv, AckedInOrder
  <2>4. NoRowLost'
    <3> SUFFICES ASSUME NEW a \in created, a \notin pending', a \notin events PROVE FALSE
      BY <2>1 DEF NoRowLost
    <3>1. a \in pending /\ a \in Row
      BY <1>a DEF ReachInv, NoRowLost
    <3>2. down[1].accepted /\ ~(a.seq > down[1].seq) /\ down[1] \in Ack
      BY <1>a, <2>1, <2>2, <3>1 DEF NotAcked
    <3>3. a.seq <= down[1].seq
      BY <3>1, <3>2 DEF Row, Ack
    <3> QED BY <2>2, <3>2, <3>3 DEF ReachInv, AckedInOrder
  <2>5. conn # 0 => SentInOrder'
    BY <2>1 DEF ReachInv, SentInOrder, Passed
  <2> QED BY <2>1, <2>3, <2>4, <2>5 DEF ReachInv
\* Nothing is under way on a new connection.
<1>9. CASE Connect
  <2> DEFINE c == used.conns + 1
  <2>1. /\ UNCHANGED <<created, pending, events, items>> /\ conn' = c /\ c \in Conns /\ down' = <<>>
        /\ \A k \in Conns : Idle(k)
        /\ up' = [k \in Conns |-> IF up[k] = <<>> THEN <<>> ELSE <<Head(up[k])>>]
    BY <1>9 DEF Connect, history, manager, agentDisk
  <2>2. c > used.conns
    BY <1>a
  <2> HIDE DEF c
  <2>3. up'[c] = <<>> /\ \A k \in Conns : items[k] = {}
    BY <2>1, <2>2 DEF OrderInv, Idle
  <2>4. SentInOrder' /\ AckedInOrder'
    BY <2>1, <2>3 DEF SentInOrder, AckedInOrder
  <2>5. NoRowLost'
    BY <2>1 DEF ReachInv, NoRowLost
  <2> QED BY <2>4, <2>5 DEF ReachInv
<1>10. CASE Disconnect \/ Restart \/ UNCHANGED vars
  <2>1. /\ UNCHANGED <<created, pending, events>>
        /\ conn' = 0 \/ (conn' = conn /\ up' = up)
        /\ down' = down \/ down' = <<>>
        /\ items' = items \/ items' = [l \in Conns |-> {}]
    BY <1>10 DEF Disconnect, Restart, vars, history, manager, agentDisk, loopVars, link
  <2> QED BY <2>1, ReachFrame
<1> QED
  BY <1>1, <1>2, <1>3, <1>4, <1>5, <1>6, <1>7, <1>8, <1>9, <1>10 DEF Next, LoopStep, ManagerStep

\* "pending is deleted only when the Manager has stored it": whatever connections are
\* lost, acknowledgements dropped, statements failed and processes restarted, a row is
\* at the Agent or at the Manager, until a start resumes below a number that a row
\* carries.  It needs rounds that do not overlap, and ingest transactions that do not
\* fail: the run TrafficAckLoss shows the row that a failed one loses.
THEOREM NoRowLostHolds ==
  ASSUME ~Overlap, MaxIngestErrors = 0
  PROVE  Spec => []NoRowLost
<1> DEFINE Inv == BusyAlone /\ (~behind => OrderInv /\ ReachInv)
<1>1. Init => Inv
  <2> SUFFICES ASSUME Init PROVE OrderInv /\ ReachInv
    BY CutInit
  <2>1. OrderInv
    BY DEF Init, OrderInv, Inserting
  <2>2. ReachInv
    BY DEF Init, ReachInv, NoRowLost, AckedInOrder
  <2> QED BY <2>1, <2>2
<1>2. IInv /\ Inv /\ [Next]_vars => Inv'
  <2> SUFFICES ASSUME IInv, Inv, [Next]_vars PROVE Inv'
    OBVIOUS
  <2>1. BusyAlone'
    BY BusyStep DEF IInv
  <2>2. ~behind' => ~behind
    BY DEF Next, LoopStep, Tick, ReadTotals, Diff, AllocSeq, InsertPending, RoundFails,
       SetBaseline, LoadPending, SendDelta, SendFails, EndRound, ManagerStep, Ingest,
       IngestDuplicate, IngestError, LoseQueue, OnAck, Connect, Disconnect, Restart, vars,
       history
  <2>3. ~behind' => OrderInv' /\ ReachInv'
    BY <2>2, OrderStep, ReachStep
  <2> QED BY <2>1, <2>3
<1>3. Inv => NoRowLost
  BY DEF ReachInv, NoRowLost
<1> QED
  BY <1>1, <1>2, <1>3, IInvHolds, PTL DEF Spec
=============================================================================
