---------------------------- MODULE TrafficSync ----------------------------
(***************************************************************************)
(* How the bytes an Agent has accounted locally reach the Manager.         *)
(*                                                                         *)
(* The Agent (internal/agent/trafsync) cuts the growth of its local totals *)
(* into numbered rows, keeps them in traffic_pending, sends them over the  *)
(* WebSocket and deletes them when the Manager acknowledges.  The Manager  *)
(* (internal/manager/traffic, internal/manager/gateway) stores each row    *)
(* once, under UNIQUE(machine_id, sequence), and adds it to its totals.    *)
(*                                                                         *)
(* Every database statement of the Agent is a step of its own, because     *)
(* each is its own transaction and because cmd/sbx-agent starts one more   *)
(* sync goroutine per (re)connection and never stops the older ones: the   *)
(* loop started by connection c is process c below.                        *)
(*                                                                         *)
(* Abstractions: one machine; rx and tx, which the code handles alike, are *)
(* one number of units; times and node names are left out; the local       *)
(* totals are taken as the truth (the collector that feeds them is a       *)
(* component of its own), so a tick adds at most one unit to a scope.      *)
(***************************************************************************)
EXTENDS Integers, Sequences, FiniteSets, FiniteSetsExt

CONSTANTS
  Scopes,          \* rows of the table totals: a node, or the whole machine
  MaxBytes,        \* bound: units a scope may accumulate
  MaxSeq,          \* bound: sequence numbers handed out
  MaxConns,        \* bound: connections made, hence sync loops started
  MaxRestarts,     \* bound: crashes of the Agent process
  MaxIngestErrors, \* bound: ingest transactions that fail at the Manager
  MaxDiskErrors,   \* bound: statements of the Agent's database that fail
  LinkCap,         \* messages a connection holds in one direction
  Overlap          \* may rounds of SyncOnce overlap each other or a reconnect?

ASSUME BoundsAssumption ==
  /\ {MaxBytes, MaxSeq, MaxConns, MaxRestarts, MaxIngestErrors,
      MaxDiskErrors, LinkCap} \subseteq Nat
  /\ Overlap \in BOOLEAN

ASSUME ScopesAssumption == IsFiniteSet(Scopes) /\ Scopes # {}

VARIABLES
  totals,    \* Agent, on disk: totals[s], bytes accounted locally
  base,      \* Agent, on disk: meta sync_base:<s>, bytes already cut into rows
  savedSeq,  \* Agent, on disk: meta sync_sequence
  pending,   \* Agent, on disk: table traffic_pending
  seq,       \* Agent, memory: Sync.seq
  conn,      \* Agent: the connection in use, 0 when there is none
  pc,        \* pc[l]: where sync loop l is, "off" when it does not run
  snap,      \* snap[l]: the totals loop l has read
  todo,      \* todo[l]: the scopes of snap[l] loop l has not handled yet
  cur,       \* cur[l]: the row loop l is writing
  items,     \* items[l]: the rows loop l has read and not sent yet
  up,        \* up[c]: traffic_delta messages travelling on connection c
  down,      \* traffic_ack messages travelling on the current connection
  events,    \* Manager, on disk: table traffic_events
  mgrTotal,  \* Manager, on disk: traffic_total[s]
  created,   \* history: every row ever inserted into traffic_pending
  reported,  \* history: reported[s], the bytes of those rows
  behind,    \* history: has a start resumed below a sequence already in a row?
  used       \* history: how often each bounded event has happened, and how
             \* often a baseline was not read, or not written after its row

agentDisk == <<totals, base, savedSeq, pending>>
loopVars  == <<pc, snap, todo, cur, items>>
link      == <<up, down>>
manager   == <<events, mgrTotal>>
history   == <<created, reported, behind>>
vars      == <<agentDisk, seq, conn, loopVars, link, manager, history, used>>

Conns  == 1..MaxConns
Row    == [seq : Nat, scope : Scopes, bytes : Nat]
Ack    == [seq : Nat, accepted : BOOLEAN]
Counts == [conns : 0..MaxConns, restarts : 0..MaxRestarts,
           ingest : 0..MaxIngestErrors, disk : 0..MaxDiskErrors,
           lapses : Nat]
PCs    == {"off", "idle", "read", "diff", "alloc", "insert", "base", "send"}

Zero    == [s \in Scopes |-> 0]
NoRow   == [seq |-> 0, scope |-> CHOOSE s \in Scopes : TRUE, bytes |-> 0]
Idle(l) == pc[l] \in {"off", "idle"}
Goto(l, label) == pc' = [pc EXCEPT ![l] = label]

\* computeDeltas returns: what it has read is gone.
ForgetLocals(l) ==
  /\ snap' = [snap EXCEPT ![l] = Zero]
  /\ todo' = [todo EXCEPT ![l] = {}]

\* A statement of the Agent's database fails; a lapse is one that leaves a
\* scope to be cut from a baseline older than its rows.
DiskError ==
  /\ used.disk < MaxDiskErrors
  /\ used' = [used EXCEPT !.disk = @ + 1]
Lapse ==
  /\ used.disk < MaxDiskErrors
  /\ used' = [used EXCEPT !.disk = @ + 1, !.lapses = @ + 1]

-----------------------------------------------------------------------------
(***************************************************************************)
(* Variants of the definitions below with a plausible mistake in them; the *)
(* properties are shown to notice each.  They are not part of the model.   *)
(***************************************************************************)
ClampUnguarded(d)       == d
LoadSequenceForgotten   == 0
NextBaselineAsDelta(l)  == cur[l].bytes
NextBaselineReread(l)   == totals[cur[l].scope]
NotAckedOffByOne(n)     == {r \in pending : r.seq > n + 1}
StoredNever(r)          == FALSE
LeastUnsentNewest(l, r) == \A x \in items[l] : r.seq >= x.seq

-----------------------------------------------------------------------------
\* What a negative difference counts for.
Clamp(d) == IF d < 0 THEN 0 ELSE d

\* The sequence a starting process resumes from when the query succeeds.
LoadSequence == savedSeq

\* The baseline written after the row of loop l has been inserted.
NextBaseline(l) == snap[l][cur[l].scope]

\* The rows an acknowledgement of sequence n leaves in traffic_pending.
NotAcked(n) == {r \in pending : r.seq > n}

\* Is sequence n the PRIMARY KEY of a row still in traffic_pending?
Taken(n) == \E r \in pending : r.seq = n

\* Does traffic_events already hold the sequence of row r?
Stored(r) == \E e \in events : e.seq = r.seq

\* Is row r the next one that loop l sends (ORDER BY sequence)?
LeastUnsent(l, r) == \A x \in items[l] : r.seq <= x.seq

\* Bound: is there a sequence number left for one more row?
RoomForSeq == seq + Cardinality({l \in Conns : pc[l] = "alloc"}) < MaxSeq

Init ==
  /\ totals = Zero /\ base = Zero /\ savedSeq = 0 /\ pending = {}
  /\ seq = 0 /\ conn = 0
  /\ pc = [l \in Conns |-> "off"]
  /\ snap = [l \in Conns |-> Zero]
  /\ todo = [l \in Conns |-> {}]
  /\ cur = [l \in Conns |-> NoRow]
  /\ items = [l \in Conns |-> {}]
  /\ up = [c \in Conns |-> <<>>] /\ down = <<>>
  /\ events = {} /\ mgrTotal = Zero
  /\ created = {} /\ reported = Zero /\ behind = FALSE
  /\ used = [conns |-> 0, restarts |-> 0, ingest |-> 0, disk |-> 0, lapses |-> 0]

-----------------------------------------------------------------------------
(***************************************************************************)
(* One round of a sync loop: SyncOnce = Tick; computeDeltas; flushPending. *)
(***************************************************************************)

\* The ticker fires and Collector.Tick commits what the counters gained.
Tick(l) ==
  /\ pc[l] = "idle"
  /\ Overlap \/ \A k \in Conns : Idle(k)
  /\ \E grown \in SUBSET {s \in Scopes : totals[s] < MaxBytes} :
       totals' = [s \in Scopes |-> IF s \in grown THEN totals[s] + 1 ELSE totals[s]]
  /\ Goto(l, "read")
  /\ UNCHANGED <<base, savedSeq, pending, seq, conn, snap, todo, cur, items,
                 link, manager, history, used>>

\* SELECT scope, rx, tx FROM totals.
ReadTotals(l) ==
  /\ pc[l] = "read"
  /\ snap' = [snap EXCEPT ![l] = totals]
  /\ todo' = [todo EXCEPT ![l] = Scopes]
  /\ Goto(l, "diff")
  /\ UNCHANGED <<agentDisk, seq, conn, cur, items, link, manager, history, used>>

\* What is left of one scope above baseline b; no growth, no row.
Cut(l, s, b) ==
  LET delta == Clamp(snap[l][s] - b) IN
  IF delta = 0 \/ ~RoomForSeq
    THEN UNCHANGED <<pc, cur>>
    ELSE /\ cur' = [cur EXCEPT ![l] = [seq |-> 0, scope |-> s, bytes |-> delta]]
         /\ Goto(l, "alloc")

\* Read the baseline of one scope; a read that fails counts as 0, and the
\* whole history of the scope is cut again.
Diff(l, s) ==
  /\ pc[l] = "diff" /\ s \in todo[l]
  /\ todo' = [todo EXCEPT ![l] = @ \ {s}]
  /\ \/ Cut(l, s, base[s]) /\ UNCHANGED used
     \/ Lapse /\ Cut(l, s, 0)
  /\ UNCHANGED <<agentDisk, seq, conn, snap, items, link, manager, history>>

\* Under seqMu: seq++ and saveSequence, whose error is ignored.
AllocSeq(l) ==
  /\ pc[l] = "alloc"
  /\ seq' = seq + 1
  /\ \/ savedSeq' = seq' /\ UNCHANGED used
     \/ DiskError /\ UNCHANGED savedSeq
  /\ cur' = [cur EXCEPT ![l] = [@ EXCEPT !.seq = seq']]
  /\ Goto(l, "insert")
  /\ UNCHANGED <<totals, base, pending, conn, snap, todo, items, link, manager,
                 history>>

\* INSERT INTO traffic_pending.
InsertPending(l) ==
  /\ pc[l] = "insert" /\ ~Taken(cur[l].seq)
  /\ pending' = pending \cup {cur[l]}
  /\ created' = created \cup {cur[l]}
  /\ reported' = [reported EXCEPT ![cur[l].scope] = @ + cur[l].bytes]
  /\ Goto(l, "base")
  /\ UNCHANGED <<totals, base, savedSeq, seq, conn, snap, todo, cur, items,
                 link, manager, behind, used>>

\* The round ends with an error: on a query of totals or of traffic_pending
\* or an INSERT that fails, or on an INSERT whose sequence is still taken.
RoundFails(l) ==
  /\ \/ /\ pc[l] \in {"read", "insert"} \/ (pc[l] = "diff" /\ todo[l] = {})
        /\ DiskError
     \/ pc[l] = "insert" /\ Taken(cur[l].seq) /\ UNCHANGED used
  /\ Goto(l, "idle") /\ ForgetLocals(l)
  /\ cur' = [cur EXCEPT ![l] = NoRow]
  /\ UNCHANGED <<agentDisk, seq, conn, items, link, manager, history>>

\* setBaseline, a statement of its own whose error is ignored.
SetBaseline(l) ==
  /\ pc[l] = "base"
  /\ \/ base' = [base EXCEPT ![cur[l].scope] = NextBaseline(l)] /\ UNCHANGED used
     \/ Lapse /\ UNCHANGED base
  /\ cur' = [cur EXCEPT ![l] = NoRow]
  /\ Goto(l, "diff")
  /\ UNCHANGED <<totals, savedSeq, pending, seq, conn, snap, todo, items, link,
                 manager, history>>

\* SELECT ... FROM traffic_pending, once every scope is handled.
LoadPending(l) ==
  /\ pc[l] = "diff" /\ todo[l] = {}
  /\ items' = [items EXCEPT ![l] = pending]
  /\ Goto(l, "send") /\ ForgetLocals(l)
  /\ UNCHANGED <<agentDisk, seq, conn, cur, link, manager, history, used>>

\* Send the next row on whatever connection Sender holds now.
SendDelta(l, r) ==
  /\ pc[l] = "send" /\ r \in items[l] /\ LeastUnsent(l, r)
  /\ conn # 0 /\ Len(up[conn]) < LinkCap
  /\ up' = [up EXCEPT ![conn] = Append(@, r)]
  /\ items' = [items EXCEPT ![l] = @ \ {r}]
  /\ UNCHANGED <<agentDisk, seq, conn, pc, snap, todo, cur, down, manager,
                 history, used>>

\* The connection is closed, or the unsynchronised read of Sender still
\* returns the previous, closed one: the round ends with an error.
SendFails(l) ==
  /\ pc[l] = "send" /\ items[l] # {}
  /\ conn = 0 \/ (Overlap /\ used.conns > 1)
  /\ items' = [items EXCEPT ![l] = {}]
  /\ Goto(l, "idle")
  /\ UNCHANGED <<agentDisk, seq, conn, snap, todo, cur, link, manager, history,
                 used>>

EndRound(l) ==
  /\ pc[l] = "send" /\ items[l] = {}
  /\ Goto(l, "idle")
  /\ UNCHANGED <<agentDisk, seq, conn, snap, todo, cur, items, link, manager,
                 history, used>>

LoopStep(l) ==
  \/ Tick(l)
  \/ ReadTotals(l)
  \/ \E s \in Scopes : Diff(l, s)
  \/ AllocSeq(l)
  \/ InsertPending(l)
  \/ RoundFails(l)
  \/ SetBaseline(l)
  \/ LoadPending(l)
  \/ \E r \in items[l] : SendDelta(l, r)
  \/ SendFails(l)
  \/ EndRound(l)

-----------------------------------------------------------------------------
(***************************************************************************)
(* The Manager's read loop of connection c takes the next traffic_delta.   *)
(* The answer goes to the connection it came from: an Agent that has left  *)
(* that connection never sees it, and a full write queue drops it.         *)
(***************************************************************************)
Reply(c, n, accepted) ==
  /\ up' = [up EXCEPT ![c] = Tail(@)]
  /\ down' = IF c = conn /\ Len(down) < LinkCap
               THEN Append(down, [seq |-> n, accepted |-> accepted])
               ELSE down

\* IngestDelta commits: event and totals in one transaction.
Ingest(c) ==
  LET r == Head(up[c]) IN
  /\ up[c] # <<>> /\ ~Stored(r)
  /\ events' = events \cup {r}
  /\ mgrTotal' = [mgrTotal EXCEPT ![r.scope] = @ + r.bytes]
  /\ Reply(c, r.seq, TRUE)
  /\ UNCHANGED <<agentDisk, seq, conn, loopVars, history, used>>

\* The UNIQUE constraint rejects a replay, which is acknowledged all the same.
IngestDuplicate(c) ==
  LET r == Head(up[c]) IN
  /\ up[c] # <<>> /\ Stored(r)
  /\ Reply(c, r.seq, TRUE)
  /\ UNCHANGED <<agentDisk, seq, conn, loopVars, manager, history, used>>

\* The transaction fails and rolls back.
IngestError(c) ==
  /\ up[c] # <<>> /\ used.ingest < MaxIngestErrors
  /\ used' = [used EXCEPT !.ingest = @ + 1]
  /\ Reply(c, Head(up[c]).seq, FALSE)
  /\ UNCHANGED <<agentDisk, seq, conn, loopVars, manager, history>>

ManagerStep(c) == Ingest(c) \/ IngestDuplicate(c) \/ IngestError(c)

\* OnAck: an accepted sequence deletes every row up to it; a DELETE that
\* fails is logged.
OnAck ==
  /\ conn # 0 /\ down # <<>>
  /\ down' = Tail(down)
  /\ \/ /\ pending' = IF Head(down).accepted THEN NotAcked(Head(down).seq)
                                            ELSE pending
        /\ UNCHANGED used
     \/ Head(down).accepted /\ DiskError /\ UNCHANGED pending
  /\ UNCHANGED <<totals, base, savedSeq, seq, conn, loopVars, up, manager,
                 history>>

-----------------------------------------------------------------------------
(***************************************************************************)
(* Connections and crashes.                                                *)
(***************************************************************************)

\* Authenticated: OnConnect points Sender at the new connection and starts a
\* loop.  The Manager closes the connection it replaces, whose read loop may
\* still be handling the one message it has taken.
Connect ==
  LET c == used.conns + 1 IN
  /\ conn = 0 /\ c \in Conns
  /\ Overlap \/ \A k \in Conns : Idle(k)
  /\ conn' = c
  /\ used' = [used EXCEPT !.conns = c]
  /\ Goto(c, "idle")
  /\ up' = [k \in Conns |-> IF up[k] = <<>> THEN <<>> ELSE <<Head(up[k])>>]
  /\ down' = <<>>
  /\ UNCHANGED <<agentDisk, seq, snap, todo, cur, items, manager, history>>

\* The Agent's runOnce returns: acknowledgements not yet read are gone.
Disconnect ==
  /\ conn # 0 /\ used.conns < MaxConns
  /\ conn' = 0
  /\ down' = <<>>
  /\ UNCHANGED <<agentDisk, seq, loopVars, up, manager, history, used>>

\* A connection the Agent has left dies at the Manager with unread messages.
LoseQueue(c) ==
  /\ c # conn /\ up[c] # <<>>
  /\ up' = [up EXCEPT ![c] = <<>>]
  /\ UNCHANGED <<agentDisk, seq, conn, loopVars, down, manager, history, used>>

\* The Agent process dies and is started again: New reloads the sequence, or
\* keeps 0 when the query fails.  A crash between a row and its baseline is
\* a lapse.
Restart ==
  LET torn == \E l \in Conns : pc[l] = "base" IN
  /\ used.restarts < MaxRestarts /\ used.conns < MaxConns
  /\ \E failed \in BOOLEAN :
       /\ failed => used.disk < MaxDiskErrors
       /\ seq' = IF failed THEN 0 ELSE LoadSequence
       /\ used' = [used EXCEPT !.restarts = @ + 1,
                              !.disk = IF failed THEN @ + 1 ELSE @,
                              !.lapses = IF torn THEN @ + 1 ELSE @]
  /\ behind' = (behind \/ \E r \in created : r.seq > seq')
  /\ conn' = 0 /\ down' = <<>>
  /\ pc' = [l \in Conns |-> "off"]
  /\ snap' = [l \in Conns |-> Zero]
  /\ todo' = [l \in Conns |-> {}]
  /\ cur' = [l \in Conns |-> NoRow]
  /\ items' = [l \in Conns |-> {}]
  /\ UNCHANGED <<agentDisk, up, manager, created, reported>>

Next ==
  \/ \E l \in Conns : LoopStep(l)
  \/ \E c \in Conns : ManagerStep(c) \/ LoseQueue(c)
  \/ OnAck
  \/ Connect
  \/ Disconnect
  \/ Restart

Spec == Init /\ [][Next]_vars

(***************************************************************************)
(* Fairness: goroutines are scheduled and tickers fire, the Manager reads  *)
(* what has arrived, the Agent redials for ever (strong fairness, because  *)
(* without Overlap a connection is only made between two rounds).  Nothing *)
(* forces a crash, a disconnection or a lost queue to happen.              *)
(***************************************************************************)
Fairness ==
  /\ \A l \in Conns : WF_vars(LoopStep(l))
  /\ \A c \in Conns : WF_vars(ManagerStep(c))
  /\ WF_vars(OnAck)
  /\ SF_vars(Connect)

FairSpec == Spec /\ Fairness
-----------------------------------------------------------------------------
(***************************************************************************)
(* Properties.                                                             *)
(***************************************************************************)

\* Types: in particular no row ever carries a negative number of bytes, even
\* when a loop compares old totals with a baseline that another loop has
\* already moved past them.
TypeOK ==
  /\ totals \in [Scopes -> Nat] /\ base \in [Scopes -> Nat]
  /\ savedSeq \in Nat /\ seq \in Nat
  /\ pending \subseteq Row
  /\ conn \in 0..MaxConns
  /\ pc \in [Conns -> PCs]
  /\ snap \in [Conns -> [Scopes -> Nat]]
  /\ todo \in [Conns -> SUBSET Scopes]
  /\ cur \in [Conns -> Row]
  /\ items \in [Conns -> SUBSET Row]
  /\ up \in [Conns -> Seq(Row)] /\ down \in Seq(Ack)
  /\ events \subseteq Row /\ mgrTotal \in [Scopes -> Nat]
  /\ created \subseteq Row /\ reported \in [Scopes -> Nat]
  /\ behind \in BOOLEAN
  /\ used \in Counts

\* A sequence number names one row, across overlapping loops, failed inserts
\* and restarts, unless a start resumed below a sequence that a row already
\* carries (UNIQUE at the Manager then drops new bytes as a replay); and no
\* crash alone makes a start do so: it takes a statement on the cursor that
\* failed, whose error saveSequence and loadSequence ignore.
SequenceIdentity ==
  /\ behind => used.disk > 0
  /\ ~behind => \A a, b \in created : a.seq = b.seq => a = b

\* "pending is deleted only when the Manager has stored it": a row is either
\* still waiting at the Agent or in the Manager's traffic_events, as long as
\* no sequence has been handed out twice.
NoRowLost == ~behind => created \subseteq (pending \cup events)

\* Local growth is cut into rows once, and once more at most for every lapse:
\* a baseline that could not be read, or was not written after its row because
\* the statement failed or the process died between the two.
NoOverReport == \A s \in Scopes : reported[s] <= (1 + used.lapses) * totals[s]

\* No byte is skipped: whatever loops overlap, crash or fail, the baseline a
\* later round starts from never runs ahead of the rows already recorded.
NothingSkipped == \A s \in Scopes : base[s] <= reported[s]

\* No drift in the long run: once traffic stops, the Manager shows every byte
\* of every row, nothing the Agent counted is missing, and without a lapse
\* the two agree exactly.
Convergence ==
  <>[](~behind => /\ mgrTotal = reported
                  /\ \A s \in Scopes : totals[s] <= mgrTotal[s]
                  /\ used.lapses = 0 => mgrTotal = totals)

\* The pipeline implements the ledger: rows recorded are the rows inserted.
Ledger == INSTANCE TrafficLedger
            WITH recorded <- created, credited <- events, total <- mgrTotal
ImplementsLedger == Ledger!LedgerSpec
=============================================================================
