-------------------------- MODULE CollectorProofs --------------------------
(***************************************************************************)
(* Theorems about module Collector, for any nodes, loops and bounds.       *)
(***************************************************************************)
EXTENDS Collector, TLAPS

-----------------------------------------------------------------------------
(***************************************************************************)
(* Types.                                                                  *)
(***************************************************************************)
Steps == {"off", "apply", "idle", "epoch", "state", "commit"}
Loop  == [pc : Steps, snap : Table, epoch : 0..MaxEpoch, prev : 0..MaxEpoch,
          state : Table, known : 0..MaxEpoch]

\* What a counter adds is a number, and at most one more after one more packet.
LEMMA GrowthFacts ==
  ASSUME NEW b \in Nat \cup {Absent}, NEW v \in Nat
  PROVE  /\ Growth(b, v) \in Nat
         /\ Growth(b, v + 1) <= Growth(b, v) + 1
         /\ Growth(b, 0) = 0 /\ Growth(v, v) = 0 /\ Growth(Absent, v) = v
         /\ b <= v => Growth(b, v + 1) = Growth(b, v) + 1
         /\ b # Absent /\ b <= v => Growth(b, v) = v - b
  BY DEF Growth, Absent

LEMMA LoopType == TypeOK => loop \in [Loops -> Loop] /\ \A l \in Loops : loop[l] \in Loop
  BY DEF TypeOK, Loop, Steps

LEMMA AddedNat ==
  ASSUME TypeOK, NEW l \in Loops, NEW s \in Scopes
  PROVE  Added(l, s) \in Nat
  <1>1. loop[l].snap[s] \in Nat \cup {Absent} /\ loop[l].state[s] \in Nat \cup {Absent}
    BY LoopType DEF Loop, Table
  <1> QED BY <1>1, GrowthFacts DEF Added

LEMMA UnreadNat ==
  ASSUME TypeOK, NEW s \in Scopes
  PROVE  Unread(s) \in Nat
  <1>1. kernel.bytes[s] \in Nat /\ base[s] \in Nat \cup {Absent}
    BY DEF TypeOK, Totals, Table
  <1> QED BY <1>1, GrowthFacts DEF Unread

LEMMA GoneType == ASSUME TypeOK, Gone PROVE lost' \in [Scopes -> Int]
  BY UnreadNat DEF Gone, TypeOK

\* A loop stays a loop when it moves on.
LEMMA LoopMoves ==
  ASSUME TypeOK, NEW l \in Loops
  PROVE  /\ \A pc \in Steps : Goto(l, pc) => loop' \in [Loops -> Loop]
         /\ \A rec \in Loop : Update(l, rec) => loop' \in [Loops -> Loop]
         /\ Return(l) => loop' \in [Loops -> Loop]
         /\ Off \in Loop
  <1>0. loop \in [Loops -> Loop] /\ loop[l] \in Loop /\ 0 \in 0..MaxEpoch
    BY LoopType, CollectorAssumption
  <1>1. Off \in Loop /\ [Off EXCEPT !.pc = "idle"] \in Loop
    BY <1>0 DEF Off, Loop, Unknown, Table, Steps
  <1>2. \A rec \in Loop : Update(l, rec) => loop' \in [Loops -> Loop]
    BY <1>0 DEF Update
  <1>3. ASSUME NEW pc \in Steps, Goto(l, pc) PROVE loop' \in [Loops -> Loop]
    <2>1. loop' = [loop EXCEPT ![l] = [loop[l] EXCEPT !.pc = pc]]
      BY <1>3 DEF Goto
    <2>2. [loop[l] EXCEPT !.pc = pc] \in Loop
      BY <1>0 DEF Loop
    <2> QED BY <1>0, <2>1, <2>2
  <1> QED BY <1>1, <1>2, <1>3 DEF Return

LEMMA TypeStep == TypeOK /\ [Next]_vars => TypeOK'
<1> SUFFICES ASSUME TypeOK, [Next]_vars PROVE TypeOK'
  OBVIOUS
<1> USE CollectorAssumption DEF TypeOK
<1>0. /\ Zero \in Totals /\ Unknown \in Table
      /\ NoTable \in [epoch : 0..MaxEpoch, scopes : SUBSET Scopes, bytes : Totals]
  BY DEF Zero, Totals, Unknown, Table, NoTable, Scopes
<1>t. ASSUME loop' \in [Loops -> Loop] PROVE
        loop' \in [Loops -> [pc : {"off", "apply", "idle", "epoch", "state", "commit"},
                         snap : Table, epoch : 0..MaxEpoch, prev : 0..MaxEpoch,
                         state : Table, known : 0..MaxEpoch]]
  BY <1>t DEF Loop, Steps
<1>1. ASSUME NEW l \in Loops,
             Start(l) \/ ApplyFails(l) \/ ReadMissing(l) \/ Refuse(l) \/ RoundFails(l)
      PROVE  TypeOK'
  <2>1. loop' \in [Loops -> Loop]
    <3>1. \/ \E pc \in Steps : Goto(l, pc)
          \/ Return(l)
      BY <1>1 DEF Start, ApplyFails, ReadMissing, Refuse, RoundFails, Steps
    <3> QED BY <3>1, LoopMoves
  <2> QED BY <1>1, <1>t, <2>1 DEF Start, ApplyFails, ReadMissing, Refuse, RoundFails,
                                 disk, history
<1>2. ASSUME NEW l \in Loops, ApplyRules(l) PROVE TypeOK'
  <2>1. loop' \in [Loops -> Loop]
    BY <1>2, LoopMoves DEF ApplyRules, Steps
  <2>2. lost' \in [Scopes -> Int]
    BY <1>2, GoneType DEF ApplyRules
  <2>3. used.epochs + 1 \in 0..MaxEpoch
    BY <1>2 DEF ApplyRules
  <2>4. kernel' \in [epoch : 0..MaxEpoch, scopes : SUBSET Scopes, bytes : Totals]
    BY <1>0, <1>2, <2>3 DEF ApplyRules, Scopes
  <2>5. used' \in [epochs : 0..MaxEpoch, resets : 0..MaxFaults,
                   flushes : 0..MaxFaults, crashes : 0..MaxFaults]
    BY <1>2, <2>3 DEF ApplyRules
  <2> QED BY <1>2, <1>t, <2>1, <2>2, <2>4, <2>5 DEF ApplyRules, disk
<1>3. ASSUME NEW l \in Loops, Read(l) PROVE TypeOK'
  <2> DEFINE snap == [s \in Scopes |-> IF s \in kernel.scopes
                                         THEN kernel.bytes[s] ELSE Absent]
  <2>1. snap \in Table /\ kernel.epoch \in 0..MaxEpoch /\ loop[l] \in Loop
    BY LoopType DEF Table, Totals
  <2>2. [loop[l] EXCEPT !.pc = "epoch", !.epoch = kernel.epoch, !.snap = snap] \in Loop
    BY <2>1 DEF Loop, Steps
  <2>3. loop' \in [Loops -> Loop]
    BY <1>3, <2>2, LoopMoves DEF Read
  <2> QED BY <1>3, <1>t, <2>3 DEF Read, disk, history
<1>4. ASSUME NEW l \in Loops, ReadEpoch(l) PROVE TypeOK'
  <2>1. PICK prev \in {epoch, 0} :
           Update(l, [loop[l] EXCEPT !.pc = "state", !.prev = prev])
    BY <1>4 DEF ReadEpoch
  <2>2. [loop[l] EXCEPT !.pc = "state", !.prev = prev] \in Loop
    <3>1. prev \in 0..MaxEpoch /\ loop[l] \in Loop
      BY LoopType
    <3> HIDE DEF TypeOK
    <3> QED BY <3>1 DEF Loop, Steps
  <2>3. loop' \in [Loops -> Loop]
    BY <2>1, <2>2, LoopMoves
  <2> QED BY <1>4, <1>t, <2>3 DEF ReadEpoch, disk, history
<1>5. ASSUME NEW l \in Loops, LoadState(l) PROVE TypeOK'
  <2>1. /\ [loop[l] EXCEPT !.pc = "commit"] \in Loop
        /\ [loop[l] EXCEPT !.pc = "commit", !.state = base, !.known = epoch] \in Loop
    BY LoopType DEF Loop, Steps
  <2>2. loop' \in [Loops -> Loop]
    BY <1>5, <2>1, LoopMoves DEF LoadState
  <2> QED BY <1>5, <1>t, <2>2 DEF LoadState, disk, history
<1>6. ASSUME NEW l \in Loops, Commit(l) PROVE TypeOK'
  <2>1. loop' \in [Loops -> Loop] /\ loop[l] \in Loop
    BY <1>6, LoopMoves, LoopType DEF Commit
  <2>2. totals' \in Totals
    BY <1>6, AddedNat DEF Commit, Totals
  <2>3. base' \in Table /\ epoch' \in 0..MaxEpoch
    BY <1>6, <2>1 DEF Commit, NextBaselines, Loop
  <2>4. lost' \in [Scopes -> Int]
    BY <1>6, AddedNat DEF Commit
  <2> QED BY <1>6, <1>t, <2>1, <2>2, <2>3, <2>4 DEF Commit
<1>7. ASSUME NEW s \in Scopes, Flow(s) PROVE TypeOK'
  <2>1. kernel.bytes[s] + 1 \in Nat /\ flowed[s] + 1 \in Nat
    BY DEF Totals
  <2>2. kernel' \in [epoch : 0..MaxEpoch, scopes : SUBSET Scopes, bytes : Totals]
    BY <1>7, <2>1 DEF Flow, Totals
  <2>3. flowed' \in Totals
    BY <1>7, <2>1 DEF Flow, Totals
  <2> QED BY <1>7, <2>2, <2>3 DEF Flow, disk
<1>8. CASE Reset \/ Flush
  <2>1. lost' \in [Scopes -> Int]
    BY <1>8, GoneType DEF Reset, Flush
  <2>2. kernel' \in [epoch : 0..MaxEpoch, scopes : SUBSET Scopes, bytes : Totals]
    BY <1>0, <1>8 DEF Reset, Flush
  <2>3. used' \in [epochs : 0..MaxEpoch, resets : 0..MaxFaults,
                   flushes : 0..MaxFaults, crashes : 0..MaxFaults]
    BY <1>8 DEF Reset, Flush, FaultsLeft
  <2> QED BY <1>8, <2>1, <2>2, <2>3 DEF Reset, Flush, disk
<1>9. CASE Crash
  <2>1. loop' \in [Loops -> Loop]
    <3>1. Off \in Loop
      BY <1>0, CollectorAssumption DEF Off, Loop, Steps
    <3> QED BY <1>9, <3>1 DEF Crash
  <2>2. used' \in [epochs : 0..MaxEpoch, resets : 0..MaxFaults,
                   flushes : 0..MaxFaults, crashes : 0..MaxFaults]
    BY <1>9 DEF Crash, FaultsLeft
  <2> QED BY <1>9, <1>t, <2>1, <2>2 DEF Crash, disk, history
<1>10. CASE NodesChange \/ UNCHANGED vars
  BY <1>10 DEF NodesChange, vars, disk, history
<1> QED
  BY <1>1, <1>2, <1>3, <1>4, <1>5, <1>6, <1>7, <1>8, <1>9, <1>10 DEF Next, LoopStep

\* Every variable keeps its type; a counter that a snapshot lacks is never added.
THEOREM TypeCorrect == Spec => []TypeOK
<1>1. Init => TypeOK
  <2> SUFFICES ASSUME Init PROVE TypeOK
    OBVIOUS
  <2>1. 0 \in 0..MaxEpoch /\ 0 \in 0..MaxFaults
    BY CollectorAssumption
  <2>2. /\ Zero \in Totals /\ Zero \in [Scopes -> Int] /\ Unknown \in Table
        /\ NoTable \in [epoch : 0..MaxEpoch, scopes : SUBSET Scopes, bytes : Totals]
    BY <2>1 DEF Zero, Totals, Unknown, Table, NoTable
  <2>3. Off \in Loop
    BY <2>1, <2>2 DEF Off, Loop, Steps
  <2>4. loop \in [Loops -> Loop]
    BY <2>3 DEF Init
  <2> QED BY <2>1, <2>2, <2>4 DEF Init, TypeOK, Loop, Steps
<1> QED BY <1>1, TypeStep, PTL DEF Spec

\* Totals only ever grow, whatever was reset, left out of a snapshot or loaded anew.
THEOREM TotalsOnlyGrow == Spec => TotalsGrow
<1>1. TypeOK /\ [Next]_vars => [\A s \in Scopes : totals'[s] >= totals[s]]_vars
  <2> SUFFICES ASSUME TypeOK, Next, NEW s \in Scopes PROVE totals'[s] >= totals[s]
    BY DEF vars
  <2>0. totals[s] \in Nat
    BY DEF TypeOK, Totals
  <2>1. ASSUME NEW l \in Loops, Commit(l) PROVE totals'[s] >= totals[s]
    <3>1. totals'[s] = totals[s] + Added(l, s) /\ Added(l, s) \in Nat
      BY <2>1, AddedNat DEF Commit
    <3> QED BY <2>0, <3>1
  <2>2. CASE UNCHANGED totals
    BY <2>0, <2>2
  <2>3. UNCHANGED totals \/ \E l \in Loops : Commit(l)
    BY DEF Next, Start, LoopStep, ApplyRules, ApplyFails, Read, ReadMissing, ReadEpoch,
           LoadState, Refuse, RoundFails, Flow, Reset, Flush, NodesChange, Crash, disk
  <2> QED BY <2>1, <2>2, <2>3
<1> QED BY <1>1, TypeCorrect, PTL DEF Spec, TotalsGrow

-----------------------------------------------------------------------------
(***************************************************************************)
(* Where a round is.                                                       *)
(***************************************************************************)

\* A round has a snapshot of the table that is loaded, or of one before it, and none
\* older than the last commit; what it has read from the database still holds, or it
\* has taken the rules for fresh and has no baselines.
RoundOK(l) ==
  /\ loop[l].epoch # 0 /\ epoch <= loop[l].epoch /\ loop[l].epoch <= used.epochs
  /\ loop[l].pc # "epoch" => loop[l].prev \in {epoch, 0}
  /\ loop[l].pc = "commit" =>
       \/ loop[l].known = epoch /\ loop[l].state = base
       \/ loop[l].known = 0 /\ loop[l].state = Unknown /\ loop[l].epoch # epoch

LoopOK(l) ==
  /\ InRound(l) => RoundOK(l)
  /\ loop[l].pc # "commit" => loop[l].known = 0 /\ loop[l].state = Unknown

Rounds == \A k, l \in Loops : k # l /\ InRound(k) => ~InRound(l)

KernelOK ==
  /\ kernel.epoch \in {0, used.epochs}
  /\ kernel.epoch = 0 => kernel.bytes = Zero /\ kernel.scopes = {}
  /\ \A s \in Scopes \ kernel.scopes : kernel.bytes[s] = 0
  /\ epoch <= used.epochs
  /\ epoch = 0 => base = Unknown

Control == KernelOK /\ Rounds /\ \A l \in Loops : LoopOK(l)

LoopAction(l) == Start(l) \/ LoopStep(l)

\* What a loop does leaves the other loops alone.
LEMMA OthersStay ==
  ASSUME TypeOK, NEW l \in Loops, LoopAction(l)
  PROVE  \A k \in Loops \ {l} : loop'[k] = loop[k]
<1>1. \E rec : loop' = [loop EXCEPT ![l] = rec]
  BY DEF LoopAction, Start, LoopStep, ApplyRules, ApplyFails, Read, ReadMissing, ReadEpoch,
         LoadState, Refuse, Commit, RoundFails, Goto, Update, Return
<1> QED BY <1>1 DEF TypeOK

\* A loop that moves on by itself keeps Control.
LEMMA LoopControl ==
  ASSUME TypeOK, Control, NEW l \in Loops, LoopAction(l),
         UNCHANGED <<kernel, base, epoch, used>>, LoopOK(l)',
         InRound(l)' => InRound(l) \/ \A k \in Loops \ {l} : ~InRound(k)
  PROVE  Control'
<1>1. \A k \in Loops \ {l} : loop'[k] = loop[k]
  BY OthersStay
<1>2. \A k \in Loops \ {l} : InRound(k)' = InRound(k) /\ (LoopOK(k) => LoopOK(k)')
  BY <1>1 DEF InRound, LoopOK, RoundOK
<1>3. Rounds'
  BY <1>2 DEF Rounds, Control
<1> QED BY <1>2, <1>3 DEF Control, KernelOK

\* A round ends.
LEMMA Ended ==
  ASSUME TypeOK, NEW l \in Loops, Return(l)
  PROVE  LoopOK(l)' /\ ~InRound(l)'
<1>1. loop' = [loop EXCEPT ![l] = [Off EXCEPT !.pc = "idle"]]
  BY DEF Return, Update
<1>2. loop'[l] = [Off EXCEPT !.pc = "idle"]
  BY <1>1, LoopType
<1>3. loop'[l].pc = "idle" /\ loop'[l].known = 0 /\ loop'[l].state = Unknown
  BY <1>2 DEF Off
<1> QED BY <1>3 DEF LoopOK, InRound

LEMMA ControlStep == ~Overlap /\ TypeOK /\ Control /\ [Next]_vars => Control'
<1> SUFFICES ASSUME ~Overlap, TypeOK, Control, [Next]_vars PROVE Control'
  OBVIOUS
<1>0. /\ used.epochs \in Nat /\ kernel.epoch \in Nat /\ epoch \in Nat
      /\ loop \in [Loops -> Loop] /\ \A l \in Loops : loop[l] \in Loop
      /\ KernelOK /\ Rounds /\ \A l \in Loops : LoopOK(l)
  BY CollectorAssumption, LoopType DEF TypeOK, Control
<1>1. ASSUME NEW l \in Loops,
             Start(l) \/ ApplyFails(l) \/ ReadMissing(l) \/ Refuse(l) \/ RoundFails(l)
      PROVE  Control'
  <2>1. LoopAction(l) /\ UNCHANGED <<kernel, base, epoch, used>>
    BY <1>1 DEF LoopAction, LoopStep, Start, ApplyFails, ReadMissing, Refuse, RoundFails, disk
  <2>2. LoopOK(l)' /\ ~InRound(l)'
    <3>1. CASE Start(l) \/ ApplyFails(l) \/ ReadMissing(l)
      <4>1. PICK pc \in {"apply", "idle"} : Goto(l, pc) /\ loop[l].pc # "commit"
        BY <3>1 DEF Start, ApplyFails, ReadMissing
      <4>2. /\ loop'[l].pc = pc /\ loop'[l].known = loop[l].known
            /\ loop'[l].state = loop[l].state
        BY <1>0, <4>1 DEF Goto, Loop
      <4> QED BY <1>0, <4>1, <4>2 DEF LoopOK, InRound
    <3>2. CASE Refuse(l) \/ RoundFails(l)
      BY <3>2, Ended DEF Refuse, RoundFails
    <3> QED BY <1>1, <3>1, <3>2
  <2> QED BY <2>1, <2>2, LoopControl
<1>2. ASSUME NEW l \in Loops, Read(l) PROVE Control'
  <2>1. /\ LoopAction(l) /\ UNCHANGED <<kernel, base, epoch, used>> /\ kernel.epoch # 0
        /\ \A k \in Loops \ {l} : ~InRound(k)
    BY <1>2 DEF LoopAction, LoopStep, Read, Alone, disk
  <2>2. /\ loop'[l].epoch = kernel.epoch /\ loop'[l].pc = "epoch"
        /\ loop'[l].known = loop[l].known /\ loop'[l].state = loop[l].state
        /\ loop[l].pc = "idle"
    BY <1>0, <1>2 DEF Read, Update, Loop
  <2>3. LoopOK(l)'
    BY <1>0, <2>1, <2>2 DEF LoopOK, RoundOK, KernelOK
  <2> QED BY <2>1, <2>3, LoopControl
<1>3. ASSUME NEW l \in Loops, ReadEpoch(l) PROVE Control'
  <2>1. /\ LoopAction(l) /\ UNCHANGED <<kernel, base, epoch, used>>
        /\ loop[l].pc = "epoch" /\ InRound(l)
    BY <1>3 DEF LoopAction, LoopStep, ReadEpoch, disk, InRound
  <2>2. /\ loop'[l].epoch = loop[l].epoch /\ loop'[l].pc = "state"
        /\ loop'[l].prev \in {epoch, 0}
        /\ loop'[l].known = loop[l].known /\ loop'[l].state = loop[l].state
    <3>1. PICK prev \in {epoch, 0} :
             loop' = [loop EXCEPT ![l] = [loop[l] EXCEPT !.pc = "state", !.prev = prev]]
      BY <1>3 DEF ReadEpoch, Update
    <3>2. loop'[l] = [loop[l] EXCEPT !.pc = "state", !.prev = prev]
      BY <1>0, <3>1
    <3> QED BY <1>0, <3>2 DEF Loop
  <2>3. LoopOK(l)'
    BY <1>0, <2>1, <2>2 DEF LoopOK, RoundOK
  <2> QED BY <2>1, <2>3, LoopControl
<1>4. ASSUME NEW l \in Loops, LoadState(l) PROVE Control'
  <2>1. /\ LoopAction(l) /\ UNCHANGED <<kernel, base, epoch, used>>
        /\ loop[l].pc = "state" /\ InRound(l)
    BY <1>4 DEF LoopAction, LoopStep, LoadState, disk, InRound
  <2>2. /\ loop'[l].epoch = loop[l].epoch /\ loop'[l].pc = "commit"
        /\ loop'[l].prev = loop[l].prev
        /\ IF Fresh(l) THEN loop'[l].known = loop[l].known /\ loop'[l].state = loop[l].state
           ELSE loop'[l].known = epoch /\ loop'[l].state = base
    BY <1>0, <1>4 DEF LoadState, Update, Loop
  <2>3. Fresh(l) => loop[l].epoch # epoch
    BY <1>0, <2>1 DEF Fresh, LoopOK, RoundOK
  <2>4. LoopOK(l)'
    BY <1>0, <2>1, <2>2, <2>3 DEF LoopOK, RoundOK
  <2> QED BY <2>1, <2>4, LoopControl
<1>5. ASSUME NEW l \in Loops, Commit(l) PROVE Control'
  <2>1. /\ LoopAction(l) /\ UNCHANGED <<kernel, used>> /\ epoch' = loop[l].epoch
        /\ RoundOK(l) /\ InRound(l)
    BY <1>0, <1>5 DEF LoopAction, LoopStep, Commit, LoopOK, InRound
  <2>2. LoopOK(l)' /\ ~InRound(l)'
    BY <1>5, Ended DEF Commit
  <2>3. \A k \in Loops \ {l} : loop'[k] = loop[k] /\ ~InRound(k)
    BY <1>0, <2>1, OthersStay DEF Rounds
  <2>4. \A k \in Loops : LoopOK(k)' /\ ~InRound(k)'
    BY <1>0, <2>2, <2>3 DEF LoopOK, InRound
  <2>5. KernelOK'
    BY <1>0, <2>1 DEF KernelOK, RoundOK
  <2> QED BY <2>4, <2>5 DEF Control, Rounds
<1>6. ASSUME NEW l \in Loops, ApplyRules(l) PROVE Control'
  <2>1. /\ LoopAction(l) /\ UNCHANGED <<base, epoch>>
        /\ used'.epochs = used.epochs + 1 /\ kernel'.epoch = used.epochs + 1
        /\ kernel'.bytes = Zero
    BY <1>6 DEF LoopAction, LoopStep, ApplyRules, disk, TypeOK
  <2>2. loop'[l].pc = "idle" /\ loop'[l].known = 0 /\ loop'[l].state = Unknown
    BY <1>0, <1>6 DEF ApplyRules, Goto, Loop, LoopOK
  <2>3. \A k \in Loops : LoopOK(k)' /\ (InRound(k)' => InRound(k))
    <3>1. \A k \in Loops \ {l} : loop'[k] = loop[k]
      BY <2>1, OthersStay
    <3>2. \A k \in Loops : loop[k].epoch \in Nat
      BY <1>0 DEF Loop
    <3>3. \A k \in Loops \ {l} : RoundOK(k) => RoundOK(k)'
      BY <1>0, <2>1, <3>1, <3>2 DEF RoundOK
    <3> QED BY <1>0, <2>2, <3>1, <3>3 DEF LoopOK, InRound
  <2>4. KernelOK'
    BY <1>0, <2>1 DEF KernelOK, Zero
  <2> QED BY <1>0, <2>3, <2>4 DEF Control, Rounds
<1>7. ASSUME UNCHANGED <<base, epoch, loop>>, used'.epochs = used.epochs, KernelOK'
      PROVE  Control'
  <2>1. \A l \in Loops : InRound(l)' = InRound(l) /\ (LoopOK(l) => LoopOK(l)')
    BY <1>7 DEF InRound, LoopOK, RoundOK
  <2> QED BY <1>0, <1>7, <2>1 DEF Control, Rounds
<1>8. ASSUME NEW s \in Scopes, Flow(s) PROVE Control'
  <2>1. /\ kernel'.epoch = kernel.epoch /\ kernel'.scopes = kernel.scopes
        /\ s \in kernel.scopes /\ \A n \in Scopes \ {s} : kernel'.bytes[n] = kernel.bytes[n]
        /\ UNCHANGED <<base, epoch, loop, used>>
    BY <1>8 DEF Flow, disk, TypeOK, Totals
  <2>2. KernelOK'
    BY <1>0, <2>1 DEF KernelOK
  <2> QED BY <1>7, <2>1, <2>2
<1>9. CASE Reset
  <2>1. /\ kernel'.epoch = kernel.epoch /\ kernel.epoch # 0 /\ kernel'.bytes = Zero
        /\ used'.epochs = used.epochs /\ UNCHANGED <<base, epoch, loop>>
    BY <1>9 DEF Reset, disk, TypeOK
  <2>2. KernelOK'
    BY <1>0, <2>1 DEF KernelOK, Zero
  <2> QED BY <1>7, <2>1, <2>2
<1>10. CASE Flush
  <2>1. /\ kernel' = NoTable
        /\ used'.epochs = used.epochs /\ UNCHANGED <<base, epoch, loop>>
    BY <1>10 DEF Flush, disk, TypeOK
  <2>2. KernelOK'
    BY <1>0, <2>1 DEF KernelOK, NoTable, Zero
  <2> QED BY <1>7, <2>1, <2>2
<1>11. CASE NodesChange \/ UNCHANGED vars
  <2>1. UNCHANGED <<kernel, base, epoch, loop, used>>
    BY <1>11 DEF NodesChange, vars, disk
  <2> QED BY <1>0, <1>7, <2>1 DEF KernelOK
<1>12. CASE Crash
  <2>1. \A l \in Loops : LoopOK(l)' /\ ~InRound(l)'
    BY <1>12 DEF Crash, LoopOK, InRound, Off
  <2>2. KernelOK'
    BY <1>0, <1>12 DEF Crash, disk, KernelOK, TypeOK
  <2> QED BY <2>1, <2>2 DEF Control, Rounds
<1> QED
  BY <1>1, <1>2, <1>3, <1>4, <1>5, <1>6, <1>8, <1>9, <1>10, <1>11, <1>12 DEF Next, LoopStep

LEMMA ControlInit == Init => Control
  BY CollectorAssumption
  DEF Init, Control, KernelOK, Rounds, LoopOK, Off, InRound, Unknown, NoTable, Zero

LEMMA Controlled == ASSUME ~Overlap PROVE Spec => [](TypeOK /\ Control)
<1> USE ~Overlap
<1>1. Init => Control
  BY ControlInit
<1>2. TypeOK /\ Control /\ [Next]_vars => Control'
  BY ControlStep
<1> QED BY <1>1, <1>2, TypeCorrect, PTL DEF Spec
-----------------------------------------------------------------------------
(***************************************************************************)
(* What a round adds, and what it leaves.                                  *)
(***************************************************************************)

\* The baseline of scope s for a snapshot of epoch e.
Known(e, s) == IF e = epoch THEN base[s] ELSE Absent

\* What the round of loop l will add for scope s, and what it leaves in the counters.
Adds(l, s)  == IF loop[l].snap[s] = Absent THEN 0
               ELSE Growth(Known(loop[l].epoch, s), loop[l].snap[s])
After(l, s) == IF loop[l].epoch = kernel.epoch
                 THEN Growth(loop[l].snap[s], kernel.bytes[s]) ELSE kernel.bytes[s]

LEMMA Fields ==
  ASSUME TypeOK, NEW s \in Scopes
  PROVE  /\ totals[s] \in Nat /\ flowed[s] \in Nat /\ lost[s] \in Int
         /\ kernel.bytes[s] \in Nat /\ base[s] \in Nat \cup {Absent}
         /\ epoch \in Nat /\ kernel.epoch \in Nat /\ used.epochs \in Nat
         /\ Unread(s) \in Nat
         /\ \A l \in Loops :
              /\ loop[l].snap[s] \in Nat \cup {Absent} /\ loop[l].epoch \in Nat
              /\ Known(loop[l].epoch, s) \in Nat \cup {Absent}
              /\ Adds(l, s) \in Nat /\ After(l, s) \in Nat
  <1>1. /\ totals[s] \in Nat /\ flowed[s] \in Nat /\ lost[s] \in Int
        /\ kernel.bytes[s] \in Nat /\ base[s] \in Nat \cup {Absent}
        /\ epoch \in Nat /\ kernel.epoch \in Nat /\ used.epochs \in Nat
    BY CollectorAssumption DEF TypeOK, Totals, Table
  <1>2. \A l \in Loops : loop[l].snap[s] \in Nat \cup {Absent} /\ loop[l].epoch \in Nat
    BY LoopType, CollectorAssumption DEF Loop, Table
  <1>3. \A l \in Loops : Known(loop[l].epoch, s) \in Nat \cup {Absent}
    BY <1>1 DEF Known
  <1> QED BY <1>1, <1>2, <1>3, UnreadNat, GrowthFacts DEF Adds, After

\* A commit adds what the round was going to add, and what it leaves is what the next
\* one finds unread.
LEMMA CommitFacts ==
  ASSUME TypeOK, Control, NEW l \in Loops, Commit(l), NEW s \in Scopes
  PROVE  /\ totals'[s] = totals[s] + Adds(l, s)
         /\ Unread(s)' = After(l, s)
         /\ lost'[s] = IF loop[l].epoch = kernel.epoch THEN lost[s] ELSE lost[s] - Adds(l, s)
         /\ Known(loop[l].epoch, s) # Absent => loop[l].snap[s] # Absent
  <1>1. /\ RoundOK(l) /\ KernelOK /\ loop[l].pc = "commit"
        /\ loop[l].known \in {0, loop[l].epoch}
        /\ loop[l].state[s] # Absent => loop[l].snap[s] # Absent
    BY DEF Control, LoopOK, InRound, Commit, Complete
  <1>2. loop[l].state[s] = Known(loop[l].epoch, s)
    <2>1. Unknown[s] = Absent /\ epoch \in Nat
      BY Fields DEF Unknown
    <2> QED BY <1>1, <2>1 DEF RoundOK, Known, KernelOK
  <1>3. Added(l, s) = Adds(l, s)
    BY <1>2 DEF Added, Adds
  <1>4. /\ epoch' = loop[l].epoch /\ base' = loop[l].snap /\ kernel' = kernel
        /\ totals'[s] = totals[s] + Added(l, s)
        /\ lost'[s] = IF loop[l].epoch = kernel.epoch THEN lost[s] ELSE lost[s] - Added(l, s)
    BY DEF Commit, NextBaselines
  <1>5. Unread(s)' = After(l, s)
    BY <1>4 DEF Unread, After
  <1> QED BY <1>1, <1>2, <1>3, <1>4, <1>5

\* The step of a loop that neither commits nor loads the rules changes no number, and
\* a loop that is in a round after it was there before, or has just read the counters.
LEMMA LoopFacts ==
  ASSUME TypeOK, Control, NEW l \in Loops, LoopAction(l), ~Commit(l), ~ApplyRules(l)
  PROVE  /\ UNCHANGED <<kernel, totals, base, epoch, flowed, lost, used>>
         /\ \A k \in Loops : InRound(k)' =>
              \/ /\ InRound(k)
                 /\ loop'[k].snap = loop[k].snap /\ loop'[k].epoch = loop[k].epoch
              \/ /\ loop'[k].epoch = kernel.epoch /\ kernel.epoch # 0
                 /\ loop'[k].snap = [s \in Scopes |-> IF s \in kernel.scopes
                                                         THEN kernel.bytes[s] ELSE Absent]
<1>0. loop \in [Loops -> Loop] /\ loop[l] \in Loop
  BY LoopType
<1>1. UNCHANGED <<kernel, totals, base, epoch, flowed, lost, used>>
  BY DEF LoopAction, Start, LoopStep, ApplyFails, Read, ReadMissing, ReadEpoch,
         LoadState, Refuse, RoundFails, disk, history
<1>2. \A k \in Loops \ {l} : loop'[k] = loop[k]
  BY OthersStay
<1>3. CASE Start(l) \/ ApplyFails(l) \/ ReadMissing(l)
  <2>1. PICK pc \in {"apply", "idle"} : Goto(l, pc)
    BY <1>3 DEF Start, ApplyFails, ReadMissing
  <2>2. ~InRound(l)'
    BY <1>0, <2>1 DEF Goto, InRound, Loop
  <2> QED BY <1>1, <1>2, <2>2 DEF InRound
<1>4. CASE Refuse(l) \/ RoundFails(l)
  <2>1. ~InRound(l)'
    BY <1>4, Ended DEF Refuse, RoundFails
  <2> QED BY <1>1, <1>2, <2>1 DEF InRound
<1>5. CASE ReadEpoch(l) \/ LoadState(l)
  <2>1. InRound(l)
    BY <1>5 DEF ReadEpoch, LoadState, InRound
  <2>2. loop'[l].snap = loop[l].snap /\ loop'[l].epoch = loop[l].epoch
    <3>1. PICK rec : /\ Update(l, rec)
                     /\ \/ \E v : rec = [loop[l] EXCEPT !.pc = "state", !.prev = v]
                        \/ rec = [loop[l] EXCEPT !.pc = "commit"]
                        \/ rec = [loop[l] EXCEPT !.pc = "commit", !.state = base, !.known = epoch]
      BY <1>5 DEF ReadEpoch, LoadState
    <3>2. rec.snap = loop[l].snap /\ rec.epoch = loop[l].epoch
      BY <1>0, <3>1 DEF Loop
    <3> QED BY <1>0, <3>1, <3>2 DEF Update
  <2> QED BY <1>1, <1>2, <2>1, <2>2 DEF InRound
<1>6. CASE Read(l)
  <2>1. /\ loop'[l].epoch = kernel.epoch /\ kernel.epoch # 0
        /\ loop'[l].snap = [s \in Scopes |-> IF s \in kernel.scopes
                                                THEN kernel.bytes[s] ELSE Absent]
    BY <1>0, <1>6 DEF Read, Update, Loop
  <2> QED BY <1>1, <1>2, <2>1 DEF InRound
<1> QED BY <1>3, <1>4, <1>5, <1>6 DEF LoopAction, LoopStep

\* A snapshot that has just been read has all that is unread, and leaves nothing.
LEMMA JustRead ==
  ASSUME TypeOK, Control, NEW l \in Loops, NEW s \in Scopes, kernel.epoch # 0,
         UNCHANGED <<kernel, base, epoch>>, loop'[l].epoch = kernel.epoch,
         loop'[l].snap = [n \in Scopes |-> IF n \in kernel.scopes
                                             THEN kernel.bytes[n] ELSE Absent]
  PROVE  /\ Adds(l, s)' = Unread(s) /\ After(l, s)' = 0
         /\ loop'[l].snap[s] <= kernel.bytes[s]
  <1>1. /\ kernel.bytes[s] \in Nat /\ base[s] \in Nat \cup {Absent}
        /\ s \notin kernel.scopes => kernel.bytes[s] = 0
    BY Fields DEF Control, KernelOK
  <1>2. loop'[l].snap[s] = IF s \in kernel.scopes THEN kernel.bytes[s] ELSE Absent
    OBVIOUS
  <1>3. \A b \in Nat \cup {Absent} : Growth(b, 0) = 0
    BY GrowthFacts
  <1>4. \A v \in Nat : Growth(v, v) = 0 /\ Growth(Absent, v) = v
    BY GrowthFacts
  <1>5. After(l, s)' = 0
    BY <1>1, <1>2, <1>3, <1>4 DEF After
  <1>6. Adds(l, s)' = Unread(s)
    <2>1. CASE s \notin kernel.scopes
      BY <1>1, <1>2, <1>3, <2>1 DEF Adds, Unread
    <2>2. CASE s \in kernel.scopes
      <3>1. loop'[l].snap[s] # Absent
        BY <1>1, <1>2, <2>2 DEF Absent
      <3> QED BY <1>1, <1>2, <1>4, <2>2, <3>1 DEF Adds, Unread, Known
    <2> QED BY <2>1, <2>2
  <1> QED BY <1>1, <1>2, <1>5, <1>6 DEF Absent

\* The counters are emptied, under the same epoch, under a new one, or with the table:
\* nothing is unread any more, and no round leaves anything.
LEMMA Emptied ==
  ASSUME TypeOK, Control, NEW s \in Scopes, kernel'.bytes = Zero, UNCHANGED <<base, epoch>>
  PROVE  /\ Unread(s)' = 0
         /\ \A l \in Loops : loop'[l].snap = loop[l].snap =>
               After(l, s)' = 0
         /\ \A l \in Loops : loop'[l].snap = loop[l].snap /\ loop'[l].epoch = loop[l].epoch =>
               Adds(l, s)' = Adds(l, s)
  <1>1. kernel'.bytes[s] = 0
    BY DEF Zero
  <1>2. \A b \in Nat \cup {Absent} : Growth(b, 0) = 0
    BY GrowthFacts
  <1> QED BY <1>1, <1>2, Fields DEF Unread, After, Adds, Known

\* Every step is of one of these kinds.
SameRounds == \A l \in Loops : InRound(l)' =>
                InRound(l) /\ loop'[l].snap = loop[l].snap /\ loop'[l].epoch = loop[l].epoch
Numbers    == <<totals, base, epoch, flowed>>

LEMMA StepKinds ==
  ASSUME TypeOK, Control, [Next]_vars
  PROVE  \/ \E l \in Loops : LoopAction(l) /\ ~Commit(l) /\ ~ApplyRules(l)
         \/ \E l \in Loops : Commit(l)
         \/ /\ kernel'.bytes = Zero /\ Gone /\ SameRounds /\ UNCHANGED Numbers
            /\ used'.resets = used.resets \/ used'.resets # 0
            /\ used.resets # 0 => used'.resets # 0
            /\ kernel'.epoch # kernel.epoch \/ used'.resets # 0
            /\ kernel'.epoch \in {0, kernel.epoch, used.epochs + 1}
         \/ \E s \in Scopes : Flow(s) /\ SameRounds
         \/ /\ UNCHANGED <<kernel, Numbers, lost>> /\ SameRounds
            /\ used'.resets = used.resets
<1>0. loop \in [Loops -> Loop] /\ \A l \in Loops : loop[l] \in Loop
  BY LoopType
<1>s. UNCHANGED loop => SameRounds
  BY DEF SameRounds, InRound
<1>1. ASSUME NEW l \in Loops, ApplyRules(l)
      PROVE  /\ kernel'.bytes = Zero /\ Gone /\ SameRounds /\ UNCHANGED Numbers
             /\ used'.resets = used.resets
             /\ kernel'.epoch # kernel.epoch /\ kernel'.epoch = used.epochs + 1
  <2>1. /\ kernel'.bytes = Zero /\ Gone /\ UNCHANGED Numbers
        /\ used'.resets = used.resets /\ kernel'.epoch = used.epochs + 1
        /\ Goto(l, "idle")
    BY <1>1 DEF ApplyRules, disk, Numbers, TypeOK
  <2>2. SameRounds
    BY <1>0, <2>1 DEF Goto, SameRounds, InRound, Loop
  <2>3. kernel'.epoch # kernel.epoch
    BY <2>1, CollectorAssumption DEF Control, KernelOK, TypeOK
  <2> QED BY <2>1, <2>2, <2>3
<1>2. CASE Reset
  <2>1. /\ kernel'.bytes = Zero /\ Gone /\ UNCHANGED Numbers /\ UNCHANGED loop
        /\ kernel'.epoch = kernel.epoch /\ used'.resets = used.resets + 1
        /\ used.resets \in Nat
    BY <1>2, CollectorAssumption DEF Reset, disk, Numbers, TypeOK
  <2>2. used'.resets # 0
    BY <2>1
  <2> QED BY <1>s, <2>1, <2>2
<1>3. CASE Flush
  <2>1. /\ kernel'.bytes = Zero /\ Gone /\ UNCHANGED Numbers /\ UNCHANGED loop
        /\ kernel'.epoch = 0 /\ kernel.epoch # 0 /\ used'.resets = used.resets
    BY <1>3 DEF Flush, NoTable, disk, Numbers, TypeOK
  <2> QED BY <1>s, <2>1
<1>4. ASSUME NEW s \in Scopes, Flow(s) PROVE SameRounds
  BY <1>s, <1>4 DEF Flow
<1>5. CASE Crash
  <2>1. UNCHANGED <<kernel, Numbers, lost>> /\ used'.resets = used.resets
    BY <1>5 DEF Crash, disk, history, Numbers, TypeOK
  <2>2. SameRounds
    BY <1>5 DEF Crash, SameRounds, InRound, Off
  <2> QED BY <2>1, <2>2
<1>6. CASE NodesChange \/ UNCHANGED vars
  <2>1. UNCHANGED <<kernel, Numbers, lost>> /\ used'.resets = used.resets /\ UNCHANGED loop
    BY <1>6 DEF NodesChange, vars, disk, history, Numbers
  <2> QED BY <1>s, <2>1
<1> QED
  BY <1>1, <1>2, <1>3, <1>4, <1>5, <1>6 DEF Next, LoopAction

-----------------------------------------------------------------------------
(***************************************************************************)
(* No byte is counted twice.                                               *)
(***************************************************************************)

\* What is accounted and what is still unread has passed a counter; and so it will be
\* once the round that is running has added its bytes.
CountOK(s) ==
  /\ totals[s] + Unread(s) <= flowed[s]
  /\ \A l \in Loops : InRound(l) => totals[s] + Adds(l, s) + After(l, s) <= flowed[s]

LEMMA CountStep ==
  ASSUME TypeOK, Control, TypeOK', Control', NEW s \in Scopes, CountOK(s), [Next]_vars
  PROVE  CountOK(s)'
<1>0. /\ totals[s] \in Nat /\ flowed[s] \in Nat /\ Unread(s) \in Nat
      /\ kernel.bytes[s] \in Nat /\ base[s] \in Nat \cup {Absent}
      /\ \A l \in Loops : /\ Adds(l, s) \in Nat /\ After(l, s) \in Nat
                           /\ loop[l].snap[s] \in Nat \cup {Absent}
  BY Fields
<1>1. ASSUME NEW l \in Loops, LoopAction(l), ~Commit(l), ~ApplyRules(l) PROVE CountOK(s)'
  <2>1. UNCHANGED <<kernel, totals, base, epoch, flowed>> /\ Unread(s)' = Unread(s)
    BY <1>1, LoopFacts DEF Unread
  <2>2. ASSUME NEW k \in Loops, InRound(k)'
        PROVE  totals[s] + Adds(k, s)' + After(k, s)' <= flowed[s]
    <3>1. CASE InRound(k) /\ loop'[k].snap = loop[k].snap /\ loop'[k].epoch = loop[k].epoch
      <4>1. Adds(k, s)' = Adds(k, s) /\ After(k, s)' = After(k, s)
        BY <2>1, <3>1 DEF Adds, After, Known
      <4> QED BY <3>1, <4>1 DEF CountOK
    <3>2. CASE ~(InRound(k) /\ loop'[k].snap = loop[k].snap /\ loop'[k].epoch = loop[k].epoch)
      <4>1. Adds(k, s)' = Unread(s) /\ After(k, s)' = 0
        BY <1>1, <2>1, <2>2, <3>2, LoopFacts, JustRead
      <4> QED BY <1>0, <4>1 DEF CountOK
    <3> QED BY <3>1, <3>2
  <2> QED BY <2>1, <2>2 DEF CountOK
<1>2. ASSUME NEW l \in Loops, Commit(l) PROVE CountOK(s)'
  <2>1. totals'[s] = totals[s] + Adds(l, s) /\ Unread(s)' = After(l, s) /\ flowed' = flowed
    BY <1>2, CommitFacts DEF Commit
  <2>2. InRound(l) /\ LoopAction(l)
    BY <1>2 DEF Commit, InRound, LoopAction, LoopStep
  <2>3. \A k \in Loops : ~InRound(k)'
    <3>1. ~InRound(l)'
      BY <1>2, Ended DEF Commit
    <3>2. \A k \in Loops \ {l} : loop'[k] = loop[k] /\ ~InRound(k)
      BY <2>2, OthersStay DEF Control, Rounds
    <3> QED BY <3>1, <3>2 DEF InRound
  <2> QED BY <1>0, <2>1, <2>2, <2>3 DEF CountOK
<1>3. CASE kernel'.bytes = Zero /\ SameRounds /\ UNCHANGED Numbers
  <2>1. UNCHANGED <<totals, base, epoch, flowed>>
    BY <1>3 DEF Numbers
  <2>2. Unread(s)' = 0
    BY <1>3, <2>1, Emptied
  <2>3. \A l \in Loops : InRound(l)' =>
          InRound(l) /\ Adds(l, s)' = Adds(l, s) /\ After(l, s)' = 0
    BY <1>3, <2>1, Emptied DEF SameRounds
  <2>4. totals[s] <= flowed[s]
    BY <1>0 DEF CountOK
  <2>5. ASSUME NEW l \in Loops, InRound(l)'
        PROVE  totals[s] + Adds(l, s)' + After(l, s)' <= flowed[s]
    <3>1. totals[s] + Adds(l, s) + After(l, s) <= flowed[s] /\ Adds(l, s) \in Nat
          /\ After(l, s) \in Nat /\ Adds(l, s)' = Adds(l, s) /\ After(l, s)' = 0
      BY <1>0, <2>3, <2>5 DEF CountOK
    <3> QED BY <1>0, <3>1
  <2> QED BY <1>0, <2>1, <2>2, <2>4, <2>5 DEF CountOK
<1>4. ASSUME NEW n \in Scopes, Flow(n), SameRounds PROVE CountOK(s)'
  <2>1. /\ UNCHANGED <<totals, base, epoch>> /\ kernel'.epoch = kernel.epoch
        /\ n # s => kernel'.bytes[s] = kernel.bytes[s] /\ flowed'[s] = flowed[s]
        /\ n = s => kernel'.bytes[s] = kernel.bytes[s] + 1 /\ flowed'[s] = flowed[s] + 1
    BY <1>4 DEF Flow, disk, TypeOK, Totals
  <2>2. \A b \in Nat \cup {Absent} :
          Growth(b, kernel.bytes[s] + 1) <= Growth(b, kernel.bytes[s]) + 1
    BY <1>0, GrowthFacts
  <2>3. /\ n # s => Unread(s)' = Unread(s)
        /\ n = s => Unread(s)' <= Unread(s) + 1
    <3>1. Unread(s)' = IF epoch = kernel.epoch THEN Growth(base[s], kernel'.bytes[s])
                       ELSE kernel'.bytes[s]
      BY <2>1 DEF Unread
    <3>2. CASE n # s
      BY <2>1, <3>1, <3>2 DEF Unread
    <3>3. CASE n = s
      <4>1. CASE epoch = kernel.epoch
        BY <1>0, <2>1, <2>2, <3>1, <3>3, <4>1 DEF Unread
      <4>2. CASE epoch # kernel.epoch
        BY <1>0, <2>1, <3>1, <3>3, <4>2 DEF Unread
      <4> QED BY <4>1, <4>2
    <3> QED BY <3>2, <3>3
  <2>4. Unread(s)' \in Nat
    <3>1. kernel'.bytes[s] \in Nat /\ base'[s] \in Nat \cup {Absent}
      BY <1>0, <2>1
    <3> QED BY <3>1, GrowthFacts DEF Unread
  <2>5. ASSUME NEW l \in Loops, InRound(l)'
        PROVE  /\ InRound(l) /\ Adds(l, s)' = Adds(l, s)
               /\ n # s => After(l, s)' = After(l, s)
               /\ n = s => After(l, s)' <= After(l, s) + 1
    <3>1. InRound(l) /\ loop'[l].snap = loop[l].snap /\ loop'[l].epoch = loop[l].epoch
      BY <1>4, <2>5 DEF SameRounds
    <3>2. Adds(l, s)' = Adds(l, s)
      BY <2>1, <3>1 DEF Adds, Known
    <3>3. After(l, s)' = IF loop[l].epoch = kernel.epoch
                           THEN Growth(loop[l].snap[s], kernel'.bytes[s]) ELSE kernel'.bytes[s]
      BY <2>1, <3>1 DEF After
    <3>4. CASE n # s
      BY <2>1, <3>1, <3>2, <3>3, <3>4 DEF After
    <3>5. CASE n = s
      <4>1. loop[l].epoch = kernel.epoch => After(l, s)' <= After(l, s) + 1
        BY <1>0, <2>1, <2>2, <3>3, <3>5 DEF After
      <4>2. loop[l].epoch # kernel.epoch => After(l, s)' <= After(l, s) + 1
        BY <1>0, <2>1, <3>3, <3>5 DEF After
      <4> QED BY <3>1, <3>2, <3>5, <4>1, <4>2
    <3> QED BY <3>4, <3>5
  <2>6. ASSUME NEW l \in Loops PROVE After(l, s)' \in Nat
    <3>1. /\ kernel'.bytes[s] \in Nat /\ loop'[l].snap[s] \in Nat \cup {Absent}
      BY <1>0, <1>4, <2>1 DEF Flow
    <3> QED BY <3>1, GrowthFacts DEF After
  <2>7. totals[s] + Unread(s)' <= flowed'[s]
    BY <1>0, <2>1, <2>3, <2>4 DEF CountOK
  <2>8. ASSUME NEW l \in Loops, InRound(l)'
        PROVE  totals[s] + Adds(l, s)' + After(l, s)' <= flowed'[s]
    <3>1. totals[s] + Adds(l, s) + After(l, s) <= flowed[s]
      BY <2>5, <2>8 DEF CountOK
    <3>2. After(l, s)' \in Nat /\ Adds(l, s) \in Nat /\ After(l, s) \in Nat
      BY <1>0, <2>6
    <3> QED BY <1>0, <2>1, <2>5, <2>8, <3>1, <3>2
  <2> QED BY <2>1, <2>7, <2>8 DEF CountOK
<1>5. CASE UNCHANGED <<kernel, Numbers>> /\ SameRounds
  <2>1. UNCHANGED <<kernel, totals, base, epoch, flowed>>
    BY <1>5 DEF Numbers
  <2>2. Unread(s)' = Unread(s)
    BY <2>1 DEF Unread
  <2>3. \A l \in Loops : InRound(l)' =>
          InRound(l) /\ Adds(l, s)' = Adds(l, s) /\ After(l, s)' = After(l, s)
    BY <1>5, <2>1 DEF SameRounds, Adds, After, Known
  <2> QED BY <2>1, <2>2, <2>3 DEF CountOK
<1> QED BY <1>1, <1>2, <1>3, <1>4, <1>5, StepKinds

LEMMA CountInit == Init => \A s \in Scopes : CountOK(s) /\ totals[s] = 0 /\ lost[s] = 0
                                           /\ flowed[s] = 0 /\ Unread(s) = 0
<1> SUFFICES ASSUME Init, NEW s \in Scopes
             PROVE  /\ CountOK(s) /\ totals[s] = 0 /\ lost[s] = 0
                    /\ flowed[s] = 0 /\ Unread(s) = 0
  OBVIOUS
<1>1. totals[s] = 0 /\ lost[s] = 0 /\ flowed[s] = 0 /\ \A l \in Loops : ~InRound(l)
  BY DEF Init, Zero, InRound, Off
<1>2. Unread(s) = 0
  BY DEF Init, Unread, Growth, Unknown, NoTable, Zero
<1> QED BY <1>1, <1>2 DEF CountOK

\* With one round at a time, however rebuilds, resets, flushes, misread epochs, failures
\* and crashes fall into it: what is accounted never exceeds what passed a counter.
THEOREM CountedOnce == ASSUME ~Overlap PROVE Spec => []NoDoubleCount
<1> USE ~Overlap
<1> DEFINE Inv == \A s \in Scopes : CountOK(s)
<1>1. Init => Inv
  BY CountInit
<1>2. (TypeOK /\ Control) /\ (TypeOK /\ Control)' /\ Inv /\ [Next]_vars => Inv'
  BY CountStep
<1>3. TypeOK /\ Inv => NoDoubleCount
  <2> SUFFICES ASSUME TypeOK, Inv, NEW s \in Scopes PROVE totals[s] <= flowed[s]
    BY DEF NoDoubleCount
  <2>1. totals[s] + Unread(s) <= flowed[s]
    BY DEF CountOK
  <2> QED BY <2>1, Fields
<1> HIDE DEF Inv
<1> QED BY <1>1, <1>2, <1>3, Controlled, PTL DEF Spec

-----------------------------------------------------------------------------
(***************************************************************************)
(* No byte is forgotten.                                                   *)
(***************************************************************************)

\* As long as no counter went back, baselines and snapshots of the table that is loaded
\* are at most what it shows, and a snapshot is at least the baseline of its own table.
InOrder(s) ==
  /\ epoch = kernel.epoch => base[s] <= kernel.bytes[s]
  /\ \A l \in Loops : InRound(l) =>
       /\ loop[l].epoch = kernel.epoch => loop[l].snap[s] <= kernel.bytes[s]
       /\ loop[l].epoch = epoch /\ loop[l].snap[s] # Absent => base[s] <= loop[l].snap[s]

Balance(s) == totals[s] + lost[s] + Unread(s) = flowed[s]
KeepOK(s)  == used.resets = 0 => InOrder(s) /\ Balance(s)

\* A commit splits what is unread in what it adds and what it leaves; when its table has
\* gone meanwhile, what it adds is no longer lost.
LEMMA CommitKeeps ==
  ASSUME TypeOK, Control, NEW s \in Scopes, InOrder(s), Balance(s),
         NEW l \in Loops, Commit(l)
  PROVE  Balance(s)' /\ InOrder(s)'
<1>0. /\ totals[s] \in Nat /\ flowed[s] \in Nat /\ lost[s] \in Int
      /\ kernel.bytes[s] \in Nat /\ base[s] \in Nat \cup {Absent} /\ epoch \in Nat
      /\ kernel.epoch \in Nat /\ used.epochs \in Nat /\ Unread(s) \in Nat
      /\ loop[l].snap[s] \in Nat \cup {Absent} /\ loop[l].epoch \in Nat
      /\ Adds(l, s) \in Nat /\ After(l, s) \in Nat
  BY Fields
<1>1. /\ totals'[s] = totals[s] + Adds(l, s) /\ Unread(s)' = After(l, s)
      /\ lost'[s] = IF loop[l].epoch = kernel.epoch THEN lost[s] ELSE lost[s] - Adds(l, s)
      /\ Known(loop[l].epoch, s) # Absent => loop[l].snap[s] # Absent
      /\ UNCHANGED <<kernel, flowed>> /\ base' = loop[l].snap /\ epoch' = loop[l].epoch
  BY CommitFacts DEF Commit, NextBaselines
<1>2. InRound(l) /\ LoopAction(l) /\ RoundOK(l) /\ KernelOK
  BY DEF Commit, InRound, LoopAction, LoopStep, Control, LoopOK
<1>3. \A k \in Loops : ~InRound(k)'
  <2>1. ~InRound(l)'
    BY Ended DEF Commit
  <2>2. \A k \in Loops \ {l} : loop'[k] = loop[k] /\ ~InRound(k)
    BY <1>2, OthersStay DEF Control, Rounds
  <2> QED BY <2>1, <2>2 DEF InRound
<1>4. InOrder(s)'
  BY <1>1, <1>2, <1>3 DEF InOrder
<1>5. CASE loop[l].epoch = kernel.epoch
  <2>1. loop[l].snap[s] <= kernel.bytes[s]
    BY <1>2, <1>5 DEF InOrder
  <2>2. Growth(loop[l].snap[s], kernel.bytes[s]) =
          IF loop[l].snap[s] = Absent THEN kernel.bytes[s]
          ELSE kernel.bytes[s] - loop[l].snap[s]
    BY <1>0, <2>1 DEF Growth
  <2>3. CASE epoch = kernel.epoch
    <3>1. base[s] <= kernel.bytes[s] /\ (loop[l].snap[s] # Absent => base[s] <= loop[l].snap[s])
      BY <1>2, <1>5, <2>3 DEF InOrder
    <3>2. base[s] # Absent => loop[l].snap[s] # Absent
      BY <1>1, <1>5, <2>3 DEF Known
    <3>3. Adds(l, s) = IF loop[l].snap[s] = Absent THEN 0
                       ELSE IF base[s] = Absent THEN loop[l].snap[s]
                       ELSE loop[l].snap[s] - base[s]
      BY <1>0, <1>5, <2>3, <3>1 DEF Adds, Known, Growth
    <3>4. Unread(s) = IF base[s] = Absent THEN kernel.bytes[s] ELSE kernel.bytes[s] - base[s]
      BY <1>0, <2>3, <3>1 DEF Unread, Growth
    <3>5. After(l, s) = IF loop[l].snap[s] = Absent THEN kernel.bytes[s]
                        ELSE kernel.bytes[s] - loop[l].snap[s]
      BY <1>5, <2>2 DEF After
    <3>6. Adds(l, s) + After(l, s) = Unread(s)
      BY <1>0, <3>2, <3>3, <3>4, <3>5
    <3> QED BY <1>0, <1>1, <1>4, <1>5, <3>6 DEF Balance
  <2>4. CASE epoch # kernel.epoch
    <3>1. Adds(l, s) = IF loop[l].snap[s] = Absent THEN 0 ELSE loop[l].snap[s]
      BY <1>5, <2>4 DEF Adds, Known, Growth
    <3>2. Unread(s) = kernel.bytes[s]
      BY <2>4 DEF Unread
    <3>3. After(l, s) = IF loop[l].snap[s] = Absent THEN kernel.bytes[s]
                        ELSE kernel.bytes[s] - loop[l].snap[s]
      BY <1>5, <2>2 DEF After
    <3>4. Adds(l, s) + After(l, s) = Unread(s)
      BY <1>0, <3>1, <3>2, <3>3
    <3> QED BY <1>0, <1>1, <1>4, <1>5, <3>4 DEF Balance
  <2> QED BY <2>3, <2>4
<1>6. CASE loop[l].epoch # kernel.epoch
  <2>1. After(l, s) = kernel.bytes[s]
    BY <1>6 DEF After
  <2>2. CASE epoch = kernel.epoch
    <3>1. kernel.epoch = 0 /\ kernel.bytes = Zero
      BY <1>0, <1>2, <1>6, <2>2 DEF RoundOK, KernelOK
    <3>2. kernel.bytes[s] = 0 /\ Growth(base[s], 0) = 0
      BY <1>0, <3>1, GrowthFacts DEF Zero
    <3>3. Unread(s) = kernel.bytes[s]
      BY <2>2, <3>2 DEF Unread
    <3> QED BY <1>0, <1>1, <1>4, <1>6, <2>1, <3>3 DEF Balance
  <2>3. CASE epoch # kernel.epoch
    <3>1. Unread(s) = kernel.bytes[s]
      BY <2>3 DEF Unread
    <3> QED BY <1>0, <1>1, <1>4, <1>6, <2>1, <3>1 DEF Balance
  <2> QED BY <2>2, <2>3
<1> QED BY <1>5, <1>6

LEMMA KeepStep ==
  ASSUME TypeOK, Control, NEW s \in Scopes, KeepOK(s), [Next]_vars
  PROVE  KeepOK(s)'
<1>0. /\ totals[s] \in Nat /\ flowed[s] \in Nat /\ lost[s] \in Int /\ Unread(s) \in Nat
      /\ kernel.bytes[s] \in Nat /\ base[s] \in Nat \cup {Absent}
      /\ epoch \in Nat /\ kernel.epoch \in Nat /\ used.epochs \in Nat
      /\ \A l \in Loops : loop[l].snap[s] \in Nat \cup {Absent} /\ loop[l].epoch \in Nat
  BY Fields
<1>1. ASSUME NEW l \in Loops, LoopAction(l), ~Commit(l), ~ApplyRules(l) PROVE KeepOK(s)'
  <2>1. UNCHANGED <<kernel, totals, base, epoch, flowed, lost, used>>
    BY <1>1, LoopFacts
  <2>2. Unread(s)' = Unread(s)
    BY <2>1 DEF Unread
  <2>3. ASSUME InOrder(s), NEW k \in Loops, InRound(k)'
        PROVE  /\ loop'[k].epoch = kernel.epoch => loop'[k].snap[s] <= kernel.bytes[s]
               /\ loop'[k].epoch = epoch /\ loop'[k].snap[s] # Absent =>
                    base[s] <= loop'[k].snap[s]
    <3>1. CASE InRound(k) /\ loop'[k].snap = loop[k].snap /\ loop'[k].epoch = loop[k].epoch
      BY <2>3, <3>1 DEF InOrder
    <3>2. CASE ~(InRound(k) /\ loop'[k].snap = loop[k].snap /\ loop'[k].epoch = loop[k].epoch)
      <4>1. /\ loop'[k].epoch = kernel.epoch
            /\ loop'[k].snap[s] = IF s \in kernel.scopes THEN kernel.bytes[s] ELSE Absent
        BY <1>1, <2>3, <3>2, LoopFacts
      <4> QED BY <1>0, <2>3, <4>1 DEF InOrder, Absent
    <3> QED BY <3>1, <3>2
  <2> QED BY <2>1, <2>2, <2>3 DEF KeepOK, InOrder, Balance
<1>2. ASSUME NEW l \in Loops, Commit(l) PROVE KeepOK(s)'
  <2>1. used' = used
    BY <1>2 DEF Commit
  <2> QED BY <1>2, <2>1, CommitKeeps DEF KeepOK
<1>3. ASSUME kernel'.bytes = Zero, Gone, SameRounds, UNCHANGED Numbers,
             used.resets # 0 => used'.resets # 0,
             kernel'.epoch # kernel.epoch \/ used'.resets # 0,
             kernel'.epoch \in {0, kernel.epoch, used.epochs + 1}
      PROVE  KeepOK(s)'
  <2> SUFFICES ASSUME used'.resets = 0 PROVE InOrder(s)' /\ Balance(s)'
    BY DEF KeepOK
  <2>1. UNCHANGED <<totals, base, epoch, flowed>> /\ lost'[s] = lost[s] + Unread(s)
    BY <1>3 DEF Numbers, Gone
  <2>2. Unread(s)' = 0
    BY <1>3, <2>1, Emptied
  <2>3. Balance(s)
    BY <1>3 DEF KeepOK
  <2>4. kernel'.epoch = 0 \/ kernel'.epoch = used.epochs + 1
    BY <1>3
  <2>5. epoch = kernel'.epoch => base[s] <= kernel'.bytes[s]
    BY <1>0, <1>3, <2>4 DEF Control, KernelOK, Unknown, Zero, Absent
  <2>6. ASSUME NEW l \in Loops, InRound(l)'
        PROVE  /\ loop'[l].epoch # kernel'.epoch
               /\ loop'[l].epoch = epoch /\ loop'[l].snap[s] # Absent =>
                    base[s] <= loop'[l].snap[s]
    <3>1. InRound(l) /\ loop'[l].snap = loop[l].snap /\ loop'[l].epoch = loop[l].epoch
      BY <1>3, <2>6 DEF SameRounds
    <3>2. loop[l].epoch # 0 /\ loop[l].epoch <= used.epochs
      BY <3>1 DEF Control, LoopOK, RoundOK
    <3>3. InOrder(s)
      BY <1>3 DEF KeepOK
    <3> QED BY <1>0, <2>4, <3>1, <3>2, <3>3 DEF InOrder
  <2> QED BY <1>0, <2>1, <2>2, <2>3, <2>5, <2>6 DEF InOrder, Balance
<1>4. ASSUME NEW n \in Scopes, Flow(n), SameRounds PROVE KeepOK(s)'
  <2> SUFFICES ASSUME used'.resets = 0 PROVE InOrder(s)' /\ Balance(s)'
    BY DEF KeepOK
  <2>1. /\ UNCHANGED <<totals, base, epoch, lost>> /\ kernel'.epoch = kernel.epoch
        /\ n # s => kernel'.bytes[s] = kernel.bytes[s] /\ flowed'[s] = flowed[s]
        /\ n = s => kernel'.bytes[s] = kernel.bytes[s] + 1 /\ flowed'[s] = flowed[s] + 1
    BY <1>4 DEF Flow, disk, TypeOK, Totals
  <2>2. InOrder(s) /\ Balance(s)
    BY <1>4 DEF KeepOK, Flow
  <2>3. kernel.bytes[s] <= kernel'.bytes[s] /\ kernel'.bytes[s] \in Nat
    BY <1>0, <2>1
  <2>4. epoch = kernel.epoch => base[s] <= kernel'.bytes[s]
    BY <1>0, <2>2, <2>3 DEF InOrder, Absent
  <2>5. ASSUME NEW l \in Loops, InRound(l)'
        PROVE  /\ loop'[l].epoch = kernel.epoch => loop'[l].snap[s] <= kernel'.bytes[s]
               /\ loop'[l].epoch = epoch /\ loop'[l].snap[s] # Absent =>
                    base[s] <= loop'[l].snap[s]
    <3>1. InRound(l) /\ loop'[l].snap = loop[l].snap /\ loop'[l].epoch = loop[l].epoch
      BY <1>4, <2>5 DEF SameRounds
    <3> QED BY <1>0, <2>2, <2>3, <3>1 DEF InOrder, Absent
  <2>6. Unread(s)' = Unread(s) + (IF n = s THEN 1 ELSE 0)
    <3>1. Unread(s)' = IF epoch = kernel.epoch THEN Growth(base[s], kernel'.bytes[s])
                       ELSE kernel'.bytes[s]
      BY <2>1 DEF Unread
    <3>2. CASE n # s
      BY <1>0, <2>1, <3>1, <3>2 DEF Unread
    <3>3. CASE n = s /\ epoch = kernel.epoch
      <4>1. Growth(base[s], kernel.bytes[s] + 1) = Growth(base[s], kernel.bytes[s]) + 1
        BY <1>0, <2>2, <3>3, GrowthFacts DEF InOrder
      <4> QED BY <2>1, <3>1, <3>3, <4>1 DEF Unread
    <3>4. CASE n = s /\ epoch # kernel.epoch
      BY <2>1, <3>1, <3>4 DEF Unread
    <3> QED BY <3>2, <3>3, <3>4
  <2>7. Balance(s)'
    BY <1>0, <2>1, <2>2, <2>6 DEF Balance
  <2> QED BY <2>1, <2>4, <2>5, <2>7 DEF InOrder
<1>5. CASE UNCHANGED <<kernel, Numbers, lost>> /\ SameRounds /\ used'.resets = used.resets
  <2>1. UNCHANGED <<kernel, totals, base, epoch, flowed, lost>>
    BY <1>5 DEF Numbers
  <2>2. Unread(s)' = Unread(s)
    BY <2>1 DEF Unread
  <2> QED BY <1>5, <2>1, <2>2 DEF KeepOK, InOrder, Balance, SameRounds
<1> QED BY <1>1, <1>2, <1>3, <1>4, <1>5, StepKinds

\* With one round at a time and no counter that goes back under its epoch, every byte is
\* accounted, still in a counter that the next round reads, or went with a table before a
\* round that commits had read it: wherever rebuilds, flushes, misread epochs, failures
\* and crashes fall.
THEOREM KeptOrLost == ASSUME ~Overlap PROVE Spec => []NothingForgotten
<1> USE ~Overlap
<1> DEFINE Inv == \A s \in Scopes : KeepOK(s)
<1>1. Init => Inv
  <2> SUFFICES ASSUME Init, NEW s \in Scopes PROVE InOrder(s) /\ Balance(s)
    BY DEF KeepOK
  <2>1. \A l \in Loops : ~InRound(l)
    BY DEF Init, InRound, Off
  <2>2. base[s] <= kernel.bytes[s]
    BY DEF Init, Unknown, NoTable, Zero, Absent
  <2> QED BY <2>1, <2>2, CountInit DEF InOrder, Balance
<1>2. (TypeOK /\ Control) /\ Inv /\ [Next]_vars => Inv'
  BY KeepStep
<1>3. Inv => NothingForgotten
  BY DEF KeepOK, Balance, NothingForgotten
<1> HIDE DEF Inv
<1> QED BY <1>1, <1>2, <1>3, Controlled, PTL DEF Spec
=============================================================================
