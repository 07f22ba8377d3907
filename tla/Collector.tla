----------------------------- MODULE Collector -----------------------------
(***************************************************************************)
(* The Agent's traffic collector, internal/traffic/collector.go: how the   *)
(* byte counters of the kernel become the local totals.                    *)
(*                                                                         *)
(* A round (Sync.SyncOnce, internal/agent/trafsync) reads all counters,    *)
(* reads the epoch and the baselines of the last round from the database,  *)
(* and commits differences, baselines and epoch in one transaction.  The   *)
(* rules carry an epoch in the name of one more counter; loading them anew *)
(* makes every counter zero under a new epoch.  Every command and every    *)
(* statement is a step.  Every connection starts one more loop, which      *)
(* loads the rules whatever the other loops are doing.                     *)
(*                                                                         *)
(* Abstractions: the two directions of a scope, which the code treats      *)
(* alike, are one counter; packets, days and rate samples are left out.    *)
(* The Agent pins the nft backend, which reads all counters at once.  What *)
(* computeDeltas does next is module TrafficSync.                          *)
(***************************************************************************)
EXTENDS Integers, FiniteSetsExt

CONSTANTS
  Nodes,      \* nodes that nodes.json may list
  System,     \* the scope of the whole machine, which always has a counter
  Loops,      \* sync loops, one per connection made
  MaxBytes,   \* bound: units that pass the counters
  MaxEpoch,   \* bound: times the rules are loaded
  MaxFaults,  \* bound: counters reset, tables flushed and crashes of the Agent
  Overlap     \* may rounds overlap?

ASSUME CollectorAssumption ==
  /\ System \notin Nodes
  /\ {MaxBytes, MaxEpoch, MaxFaults} \subseteq Nat
  /\ Overlap \in BOOLEAN

VARIABLES
  kernel,    \* the rules loaded: [epoch, scopes, bytes]; epoch 0: no table
  nodesFile, \* the nodes of nodes.json (module NodeApply changes them)
  totals,    \* on disk: totals[s], bytes accounted
  base,      \* on disk: counter_state, bytes of each counter at the last commit
  epoch,     \* on disk: the epoch of that commit, 0 before the first, in meta and
             \* as the name of a counter in counter_state
  loop,      \* loop[l]: what sync loop l is doing
  flowed,    \* history: bytes of a scope that passed a counter
  lost,      \* history: bytes that went with counters before a round had read them
  used       \* history: how often each bounded event has happened

disk    == <<totals, base, epoch>>
history == <<flowed, lost>>
vars    == <<kernel, nodesFile, disk, loop, history, used>>

Scopes  == Nodes \cup {System}
Absent  == -1
Unknown == [s \in Scopes |-> Absent]
Zero    == [s \in Scopes |-> 0]
NoTable == [epoch |-> 0, scopes |-> {}, bytes |-> Zero]
Off     == [pc |-> "off", snap |-> Unknown, epoch |-> 0,
            prev |-> 0, state |-> Unknown, known |-> 0]
InRound(l)     == loop[l].pc \in {"epoch", "state", "commit"}
Alone(l)       == Overlap \/ \A k \in Loops \ {l} : ~InRound(k)
Goto(l, pc)    == loop' = [loop EXCEPT ![l].pc = pc]
Update(l, rec) == loop' = [loop EXCEPT ![l] = rec]
Return(l)      == Update(l, [Off EXCEPT !.pc = "idle"])

-----------------------------------------------------------------------------
(***************************************************************************)
(* Variants of definitions below with a plausible mistake in them; the     *)
(* properties are shown to notice each.  They are not part of the model.   *)
(***************************************************************************)
CompleteAlways(l)      == TRUE
GrowthUnguarded(b, v)  == IF b = Absent THEN v ELSE v - b
GrowthOffByOne(b, v)   == IF b = Absent \/ v <= b THEN v ELSE v - b
AddedUnread(l, s)      == loop[l].snap[s] - Max({loop[l].state[s], 0})

-----------------------------------------------------------------------------
\* freshRuleset: the rules have been loaded anew since the last commit.
Fresh(l) == loop[l].prev # 0 /\ loop[l].epoch # loop[l].prev

\* Every counter that has a baseline is in the snapshot, the one that is named
\* after the epoch too.
Complete(l) ==
  /\ loop[l].known \in {0, loop[l].epoch}
  /\ \A s \in Scopes : loop[l].state[s] # Absent => loop[l].snap[s] # Absent

\* The bytes a counter with baseline b and value v adds: all of them when it
\* has no baseline or has gone back to zero.
Growth(b, v) == IF b = Absent \/ v < b THEN v ELSE v - b

Added(l, s) ==
  IF loop[l].snap[s] = Absent THEN 0 ELSE Growth(loop[l].state[s], loop[l].snap[s])

\* DELETE FROM counter_state, then one INSERT per counter of the snapshot.
NextBaselines(l) == loop[l].snap

Init ==
  /\ kernel = NoTable /\ nodesFile \in SUBSET Nodes
  /\ totals = Zero /\ base = Unknown /\ epoch = 0
  /\ loop = [l \in Loops |-> Off]
  /\ flowed = Zero /\ lost = Zero
  /\ used = [epochs |-> 0, resets |-> 0, flushes |-> 0, crashes |-> 0]

-----------------------------------------------------------------------------
(***************************************************************************)
(* What is still in the counters, and what goes with them.                 *)
(***************************************************************************)

\* Bytes of the counter of s, under the rules now loaded, that no commit has added.
Unread(s) ==
  IF epoch = kernel.epoch THEN Growth(base[s], kernel.bytes[s]) ELSE kernel.bytes[s]
Gone == lost' = [s \in Scopes |-> lost[s] + Unread(s)]

-----------------------------------------------------------------------------
(***************************************************************************)
(* A sync loop.                                                            *)
(***************************************************************************)

\* OnConnect: a new loop, which first applies the rules.
Start(l) ==
  /\ loop[l].pc = "off"
  /\ Goto(l, "apply")
  /\ UNCHANGED <<kernel, nodesFile, disk, history, used>>

\* ApplyRules: one nft transaction deletes the table and makes it anew, with
\* counters for the machine and for every node of nodes.json.
ApplyRules(l) ==
  /\ loop[l].pc = "apply" /\ used.epochs < MaxEpoch
  /\ used' = [used EXCEPT !.epochs = @ + 1]
  /\ Gone
  /\ kernel' = [epoch |-> used.epochs + 1, scopes |-> nodesFile \cup {System},
                bytes |-> Zero]
  /\ Goto(l, "idle")
  /\ UNCHANGED <<nodesFile, disk, flowed>>

\* nft refuses: the old rules stay.
ApplyFails(l) ==
  /\ loop[l].pc = "apply"
  /\ Goto(l, "idle")
  /\ UNCHANGED <<kernel, nodesFile, disk, history, used>>

\* Tick, with a new Collector: backend.Read.
Read(l) ==
  /\ loop[l].pc = "idle" /\ Alone(l) /\ kernel.epoch # 0
  /\ Update(l, [loop[l] EXCEPT !.pc = "epoch", !.epoch = kernel.epoch,
                  !.snap = [s \in Scopes |-> IF s \in kernel.scopes
                                               THEN kernel.bytes[s] ELSE Absent]])
  /\ UNCHANGED <<kernel, nodesFile, disk, history, used>>

\* ErrLookup: SyncOnce applies the rules and ends the round.
ReadMissing(l) ==
  /\ loop[l].pc = "idle" /\ kernel.epoch = 0
  /\ Goto(l, "apply")
  /\ UNCHANGED <<kernel, nodesFile, disk, history, used>>

\* metaGet: when the query fails it says that there is no epoch.
ReadEpoch(l) ==
  /\ loop[l].pc = "epoch"
  /\ \E prev \in {epoch, 0} : Update(l, [loop[l] EXCEPT !.pc = "state", !.prev = prev])
  /\ UNCHANGED <<kernel, nodesFile, disk, history, used>>

\* loadState, unless the rules are fresh.
LoadState(l) ==
  /\ loop[l].pc = "state"
  /\ Update(l, IF Fresh(l) THEN [loop[l] EXCEPT !.pc = "commit"]
               ELSE [loop[l] EXCEPT !.pc = "commit", !.state = base, !.known = epoch])
  /\ UNCHANGED <<kernel, nodesFile, disk, history, used>>

\* The snapshot lacks a counter that has a baseline: the round ends.
Refuse(l) ==
  /\ loop[l].pc = "commit" /\ ~Complete(l)
  /\ Return(l)
  /\ UNCHANGED <<kernel, nodesFile, disk, history, used>>

\* commitTick: totals, baselines and epoch in one transaction.  What the snapshot of
\* a table that has gone meanwhile adds has not been lost with it.
Commit(l) ==
  /\ loop[l].pc = "commit" /\ Complete(l)
  /\ totals' = [s \in Scopes |-> totals[s] + Added(l, s)]
  /\ base' = NextBaselines(l) /\ epoch' = loop[l].epoch
  /\ lost' = IF loop[l].epoch = kernel.epoch THEN lost
             ELSE [s \in Scopes |-> lost[s] - Added(l, s)]
  /\ Return(l)
  /\ UNCHANGED <<kernel, nodesFile, flowed, used>>

\* A query fails, or the transaction, which rolls back.
RoundFails(l) ==
  /\ loop[l].pc \in {"state", "commit"}
  /\ Return(l)
  /\ UNCHANGED <<kernel, nodesFile, disk, history, used>>

LoopStep(l) ==
  \/ ApplyRules(l) \/ ApplyFails(l)
  \/ Read(l) \/ ReadMissing(l) \/ ReadEpoch(l) \/ LoadState(l)
  \/ Refuse(l) \/ Commit(l) \/ RoundFails(l)

-----------------------------------------------------------------------------
(***************************************************************************)
(* The kernel, the node service and the administrator.                     *)
(***************************************************************************)
FaultsLeft == used.resets + used.flushes + used.crashes < MaxFaults

\* A packet passes a counter.
Flow(s) ==
  /\ s \in kernel.scopes
  /\ MapThenSumSet(LAMBDA n : flowed[n], Scopes) < MaxBytes
  /\ kernel' = [kernel EXCEPT !.bytes[s] = @ + 1]
  /\ flowed' = [flowed EXCEPT ![s] = @ + 1]
  /\ UNCHANGED <<nodesFile, disk, loop, lost, used>>

\* The counters go back to zero under the same epoch.
Reset ==
  /\ kernel.epoch # 0 /\ FaultsLeft
  /\ used' = [used EXCEPT !.resets = @ + 1]
  /\ Gone
  /\ kernel' = [kernel EXCEPT !.bytes = Zero]
  /\ UNCHANGED <<nodesFile, disk, loop, flowed>>

\* The table disappears.
Flush ==
  /\ kernel.epoch # 0 /\ FaultsLeft
  /\ used' = [used EXCEPT !.flushes = @ + 1]
  /\ Gone
  /\ kernel' = NoTable
  /\ UNCHANGED <<nodesFile, disk, loop, flowed>>

\* A task adds or removes nodes; nobody loads the rules because of it.
NodesChange ==
  /\ nodesFile' \in SUBSET Nodes
  /\ UNCHANGED <<kernel, disk, loop, history, used>>

\* The Agent dies: its loops are gone, kernel and database are not.
Crash ==
  /\ FaultsLeft
  /\ used' = [used EXCEPT !.crashes = @ + 1]
  /\ loop' = [l \in Loops |-> Off]
  /\ UNCHANGED <<kernel, nodesFile, disk, history>>

Next ==
  \/ \E l \in Loops : Start(l) \/ LoopStep(l)
  \/ \E s \in Scopes : Flow(s)
  \/ Reset \/ Flush \/ NodesChange \/ Crash

Spec == Init /\ [][Next]_vars
-----------------------------------------------------------------------------
(***************************************************************************)
(* Properties.                                                             *)
(***************************************************************************)
Table  == [Scopes -> Nat \cup {Absent}]
Totals == [Scopes -> Nat]

\* Types: in particular a counter that a snapshot lacks never takes part in the
\* totals as a number.
TypeOK ==
  /\ kernel \in [epoch : 0..MaxEpoch, scopes : SUBSET Scopes, bytes : Totals]
  /\ nodesFile \subseteq Nodes
  /\ totals \in Totals /\ base \in Table /\ epoch \in 0..MaxEpoch
  /\ loop \in [Loops -> [pc : {"off", "apply", "idle", "epoch", "state", "commit"},
                         snap : Table, epoch : 0..MaxEpoch, prev : 0..MaxEpoch,
                         state : Table, known : 0..MaxEpoch]]
  /\ flowed \in Totals /\ lost \in [Scopes -> Int]
  /\ used \in [epochs : 0..MaxEpoch, resets : 0..MaxFaults,
               flushes : 0..MaxFaults, crashes : 0..MaxFaults]

\* README: totals are carried over a rebuild or a reset "without doubling": the
\* bytes accounted never exceed the bytes that passed a counter, although rounds are
\* cut short, the epoch is misread, and tables come and go in the middle of a round.
NoDoubleCount == \A s \in Scopes : totals[s] <= flowed[s]

\* ... and "without losing": a byte that passed a counter is accounted, is still
\* in a counter that the next round will read, or went with a table before a round
\* that commits had read it: a round that read the old table just before the rules
\* were loaded anew still brings its bytes in, and baselines are never taken for
\* those of another table.  (A counter that is reset and then passes its old value
\* before the next round looks as if it had not been reset.)
NothingForgotten ==
  used.resets = 0 => \A s \in Scopes : totals[s] + lost[s] + Unread(s) = flowed[s]

\* Totals only ever grow: a counter that went back to zero takes nothing back.
TotalsGrow == [][\A s \in Scopes : totals'[s] >= totals[s]]_vars

\* README, on the epoch: when the rules are loaded anew the totals are carried on
\* and nothing is lost.  (Nobody but the Agent touches the counters here.)
RebuildLosesNothing == used.resets = 0 /\ used.flushes = 0 => lost = Zero
=============================================================================
