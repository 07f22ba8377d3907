# sbx-pro in TLA+

A Manager (control plane, one SQLite database) administers machines; an Agent on each machine
runs sing-box, counts traffic with nftables, enforces quotas, and keeps one
WebSocket to the Manager open. This directory models the parts of that system where order,
failure and concurrency decide whether it works, checks them with TLC and proves some of the
results with TLAPS. Every definition is translated from the Go sources under `src/`;
`PROJECT.json` maps each one to its lines.

    tlc -workers 2 -config EnrollmentRaces.cfg MCEnrollment   # model-check one run
    tlapm EnrollmentProofs.tla                                # check the proofs of one module

## 1. Inventory

### Components

| Component | State | Operations | What makes it correct |
|---|---|---|---|
| Agent traffic sync (`agent/trafsync`) | `traffic_pending`, `traffic_baseline`, next sequence | a round (`SyncOnce`): insert rows, move baselines, send; `OnAck` | a sequence names one row; bytes are cut into rows once; a row stays until the Manager has it |
| Manager traffic ingest (`manager/traffic`) | `traffic_events` (UNIQUE), totals, daily sums | `IngestDelta` in one transaction, then an acknowledgement | a replayed row is credited once |
| Collector (`traffic/collector`) | totals, counter baselines, epoch, samples | `Tick`: read, subtract, commit | no byte accounted twice, none forgotten |
| Firewall rules (`firewall/*`) | kernel counters, epoch in their names | load, read, repair | counters exist for the nodes listed |
| Tasks (`manager/tasks`) | table `tasks` | create, send, complete, time out | every task ends once |
| Node lifecycle (`manager/nodes`, `api/handlers_nodes`) | table `nodes`: desired state, limits, status | requests; callbacks of task results | a transient status always ends; nothing is claimed that is not so; the limit shown is the one enforced |
| Agent node service (`agent/nodesvc`, `nodes/store`, `nodes/inbound`) | `nodes.json`, `config.json`, candidates, backups, id cursor | add, replace, remove, enable; apply; rollback | a change happens completely or not at all |
| Task handlers, executor (`agent/handlers`, `agent/executor`) | stored results | one goroutine per task | a task has one result |
| Gateway (`manager/gateway`) | map of connections, challenges, send queues, `machines.status` | handshake, register, dispatch, send, unregister, offline sweep | the listed connection is the one that is served; status follows heartbeats |
| Agent connection (`agent/client`, `cmd/sbx-agent`) | one socket | dial, sign, receive, heartbeat, redial | gets connected again |
| Quota (`agent/quota`) | limits and flags in SQLite, blocked set in the kernel, a copy of it in memory | a round every 30 s | exactly the nodes at their limit are blocked, also after restarts |
| IP limit (`agent/iplimit`, `connection/*`) | limits in SQLite, blocked addresses in the kernel, a copy of them in memory | a round every 30 s that reads `/proc/net` | the addresses beyond the limit are blocked, and no others |
| Enrollment, machines (`manager/enrollment`, `manager/machines`, `api/handlers_machines`, `agent/client`, `agent/state`) | tokens, machines, keys; `agent.json` on the machine | issue, register in three statements, undo, delete | a token admits one machine; whoever has used one is known; a failure leaves no rows |
| Panel security (`api/hardening`, `api/auth`) | failed logins per address | throttle, sessions | wrong guesses are slowed down |
| Everything else | | online addresses, heartbeat contents, links, formatting, CLI, configuration, audit, static pages | read-only or pure formatting |

### How they interact

An administrator's HTTP request writes the desired state of a node, inserts a task and puts it
into the send queue of the machine's connection. The Agent's read loop starts a goroutine per
task, which edits `nodes.json` by way of the node service and answers with a result; the
Manager's handler completes the task and calls back into the node's state machine. A sweeper
times out what is never answered. Every connection the Agent makes starts one more sync loop
(`cmd/sbx-agent/main.go:294`), and the older ones are not stopped; a loop lets the collector read the
counters, cuts the growth of the totals into rows and sends them; acknowledgements come back on
the same socket. The quota enforcer reads the collector's totals and the node service's ports;
the address enforcer reads the same ports and the kernel's connections. Both work without the
Manager, and both lose their memory, but not their tables, when the Agent restarts. Before any of
this a machine enrols: one HTTP request with a one-time token, answered with its identity.

### What is hard to test here

- Sync loops overlap, and a baseline and its row are two transactions (TrafficSync).
- Acknowledgements are cumulative, ingests may fail, messages and connections are lost.
- Statements whose errors the code ignores: the cursor, the baselines, a callback's UPDATE, `markSeen`,
  the copies of a rollback. The model lets each of them fail (the fault is counted), and the
  properties say what then still holds.
- Requests, results, timeouts and crashes of the Manager meet between two SQL statements.
- Task goroutines of the Agent share two candidate paths and an unlocked id cursor.
- A crash between two renames, or in the middle of a rollback.
- Rules loaded anew while a round is between its read and its commit.
- Handlers of an earlier connection that are still running when the next one registers.
- Both enforcers compare what is due with a volatile copy of what the kernel has, while tasks
  move nodes to other ports and `nft` may refuse what it is given (Quota, IPLimit, Enforcers).
- Requests that present one token at a time; a registration that fails, or whose machine is
  deleted, between its statements (Enrollment).
- A limit that is written to the row before its task has been delivered (NodeTasks).

`PROJECT.json` lists each hazard at its line with the properties that cover it.

## 2. Modules

| Module | Models | State and actions in terms of the code |
|---|---|---|
| `TrafficLedger` | the promise of the traffic pipeline | rows recorded, rows credited, the Manager's total: one recorded row is credited for each number, once, with its own bytes |
| `TrafficSync` | Agent sync, link, Manager ingest | `totals`, `base`, `pending`, `savedSeq`/`seq` are the Agent's tables and memory; `pc[c]` is the loop that connection `c` started; `up`/`down` are the socket; `events`, `mgrTotal` are the Manager's tables; `behind` and `used.lapses` remember what failed statements did. One action per statement. |
| `NodeTasks` | HTTP handlers, tasks, dispatcher, sweeper, callbacks, Agent handlers | `row`, `want`, `tasks` are Manager tables; `req[h]` is a handler between two statements; `reader`, `sweep` are the result handler and the sweeper; `toAgent`, `results` are messages; `work`, `nodesFile`, `present`, `cand`, `held` (the limits) are the Agent. Create, update, delete, enable, disable, restart and the limits are operations |
| `NodeStore` | the promise of the node service | the list changes by one task at a time, one node at a time |
| `NodeApply` | node service, step by step | the six files as `none`, `torn` or a set of entries; `job[t]` is a task's goroutine; one action per file operation or `systemctl` call, and one for its failure |
| `Collector` | `Tick` and `commitTick`, loading of rules | `kernel` counters and epoch; `totals`, `base`, `epoch` in SQLite; `loop[l]` is a round with what it has read so far: the snapshot, then the epoch, then the baselines; `flowed`, `lost` are history |
| `Gateway` | `HandleWS`, register/unregister, `SendToMachine`, `writeLoop`, sweeper, `runOnce` | `wire[c]` is a TCP connection whose ends may close or vanish separately; `handler[c]` the goroutine; `queue[c]` the channel, `stuck` the connections whose writer has returned; `challenges`, `conns` the maps; `row` the machine's status and the age of its last heartbeat |
| `Quota` | `Enforcer.check`, limits, nft set | `limit`, `exceeded` in SQLite; `blocked` the kernel's set; `last` the copy in memory; `round` a running check with the limits it has read |
| `IPLimit` | `Enforcer.Check` of the limit on addresses, `ActiveIPs`, the nft set | `online` is what `/proc/net` shows; `limit` is in SQLite; `blocked`, `last`, `round` as in `Quota`, `lastErr` is `Enforcer.lastErr`. An address is its rank in the order of texts, `Refused` those an IPv4 set does not take |
| `Enforcers` | both enforcers in one Agent | EXTENDS `Quota`, INSTANCEs `IPLimit` on the same `port`; a change of a node, a restart and a reboot are one step of both |
| `Enrollment` | `sbx-agent enroll`, `handleRegister`, tokens, deletion of machines | `expiry`, `usedBy`, `machines`, `agents` are tables; `pc[a]` is the handler between two statements; `waiting` the Agents that have not given up; `identity[h]` is `agent.json` on host `h` |
| `MC*` | | instances for TLC: symmetry where used, and two restrictions of what happens first (section 3) |
| `*Proofs` | | theorems (section 5) |

`TrafficSync` starts where `Collector` ends (its `totals` grow by themselves), `NodeTasks` treats
as one step what `NodeApply` takes apart, `Gateway` is the link that the other two use, and
`Enrollment` makes the identity that its handshake checks.
Each module says which of its variables are history: they bound an instance or remember what a
property needs (`created`, `reported`, `flowed`, `moved`, `deleted`, `abandoned`, ...), and no
action reads one for anything else.

The first part of a module after its variables holds variants of definitions with a plausible mistake in them.
The model does not use them: `PROJECT.json` ("mutants") pairs each with a definition and a
property, and the property fails when the definition is replaced by the variant.

## 3. Runs

| Run | Instance | Shows |
|---|---|---|
| `TrafficSteady` | 1 scope, 2 units, 3 connections, 4 sequences, 1 restart between any two statements, 1 failing statement of the Agent's database; rounds do not overlap | rows are never lost; growth is cut once, and once more at most for every lapse of a baseline; in the end the Manager shows every row, and exactly the Agent's totals if there was no lapse (`Convergence`) |
| `TrafficFaults` | 2 connections whose loops overlap, 1 crash anywhere, 1 failing ingest, 1 failing statement of the Agent's database | a sequence names one row unless a failed statement left the cursor behind; no growth is skipped; the pipeline implements `TrafficLedger`, sequences handed out twice included |
| `TrafficAckLoss` | 2 scopes, 1 failing ingest | violation of `NoRowLost` |
| `NodeTasksFaults` | 1 node, new or there from the start, 2 concurrent requests, 2 tasks, create/update/delete/disable/limit/restart, failing handlers at the Agent, timeouts and late results, a machine with or without a first `nodes.json`, and 1 fault of any kind (a failing INSERT, a failing statement of a callback, a crash of the Manager, a lost connection or a crash of the Agent) | a verdict is final; a transient status always has an operation that will end it, and does end, unless the Manager itself failed; deleted means gone, active means real; limits set one after the other are the ones enforced; every task ends |
| `NodeTasksNoResend` | 1 create at an Agent that is offline | violation of `PendingIsResent` |
| `NodeApplyCrash` | 3 nodes (two want one port), a new machine or an installed one, any 2 faults: a file operation, check, restart or health check that fails, at any step and in the rollback too, or a crash | success is real, failure is undone, the files agree, ids are not recycled (each up to the cases it names); implements `NodeStore` |
| `NodeApplyFalseSuccess` | two concurrent adds | violation of `SuccessIsReal` |
| `CollectorFaults` | 2 sync loops, 1 node and the machine, 3 bytes, rules loaded 3 times at any point of a round, 2 faults (resets, flushes, crashes), an epoch misread and rounds that fail without bound | no double count, nothing forgotten, totals grow |
| `CollectorRebuild` | 2 sync loops, no faults | violation of `RebuildLosesNothing` |
| `GatewayReconnect` | 2 connections that are used again and again, 1 task and acknowledgements in a queue of 1, threshold 1, 2 faults (broken connections, missed deadlines, failed writes and UPDATEs, restarts) | the listed connection is served, statuses follow heartbeats, the Agent gets connected again, accepted tasks arrive or their writer has returned |
| `EnforcersTogether` | 2 nodes, 2 ports, 3 addresses of which nft refuses the second, limits of 1 unit and 1 address, 4 events (tasks, clients that come or go, failed reads, failed nft calls, restarts, reboots) in any order against both loops | an undisturbed round leaves exactly the due ports blocked, and on each limited node as many clients as its limit, unless an address that nft refuses is among too many, which `LastError` then tells; when events end, both sets settle (`EnforcersSettle`) |
| `EnrollmentRaces` | 2 attempts, 2 tokens, 2 hosts; any statement may fail, the Agent give up, the Manager crash, the administrator delete, at any step | a token admits one machine; a used token and a saved identity are known; a failed registration leaves nothing; every request ends |

**Why these bounds.** Each hazard needs at most two actors and one or two faults: two sync
loops, or a loop and a reconnect; two requests and the sweeper; an old connection and its
successor; a snapshot taken before the rules are loaded and committed after it. Sequences of four
rows hold a lost, a replayed and a new row, and one that is handed out again after a failed save. A
queue of one message is full as soon as its writer has returned, with a task or an acknowledgement in
it. Three epochs are the table of the last commit, the one of the snapshot and the one loaded
meanwhile; two loops are needed, because the loop that loads is never the one that reads. Two faults in
`NodeApply` are a failure and a second one in its rollback, or a failure and a crash. A limit of one or
two units is met, passed and raised. Two ports let a node move to the port of a blocked one. Three
addresses at a limit of one, the second refused, are one that stays, one that nft takes and one that
makes it refuse the set; four events are enough for a limit, two clients, and a fault between.
Two registrations race with one token, or the second retries the first. Counters are
bounded in the guards; nothing else is cut off.

Two instances restrict what happens first. `MCEnforcers` starts with the first node on the
first port: nodes and ports are interchangeable, so only starts without any node are left out.
`MCNodeTasks` sends limits and restarts to nodes that were there from the start and all else
to new ones: two tasks cannot both create a node and set its limit twice, and a restart or a
limit moves no status. `NodeTasks` itself has neither restriction, and its theorems hold without.

**Deadlock.** `NodeTasks*`, `NodeApply*` and `EnrollmentRaces` may stop, because nobody has to
send requests, and requests and tasks end; they say so. In all other runs TLC checks that
something can always happen.

**Parameters that restrict a run.** With `Overlap = FALSE` no two rounds run at a time, and in
`TrafficSync` a connection is only made between two of them: rounds that overlap break
`NoOverReport` and `NoDoubleCount` (section 4). With `Interleaved = FALSE` the Agent's task handlers run
one after the other: interleaved, they break `SuccessIsReal` (and with it `ActiveIsReal`).
`TrafficFaults` keeps `Overlap` TRUE, `NodeApplyFalseSuccess` keeps `Interleaved` TRUE; section 5 says
which theorems need one of these values, and why. In `Collector` the rules may be loaded in the
middle of a round whatever `Overlap` says.

**Fairness.** Weak fairness of every goroutine's next step (the Go scheduler runs it), of tickers
(sync, sweeper, both enforcers), of the reading side of an open connection, and of dialling, because
`client.Run` redials for ever with a bounded backoff. `TrafficSync` takes strong fairness for
dialling, since without `Overlap` it is enabled only between rounds. No fault, no
crash, no traffic, no client and no request is ever forced to happen. In `Gateway` a writer is fair
until it has returned, and then never moves again. In `Enforcers` one condition
per loop suffices, because a round cannot be held up for ever: events are bounded. In `Enrollment` each
running `handleRegister` is fair and nothing else: the Agent may give up while it goes on. The
Agent and the Manager are restarted by systemd.

## 4. What the runs found

Four statements of the repository are not kept; each has a run whose counterexample TLC prints.

- **`TrafficAckLoss`**: the acknowledgement is cumulative (`trafsync.go:254`), so it also
  deletes rows whose own ingest failed.
- **`NodeTasksNoResend`**: no code reads pending tasks again; a task made while the machine is
  offline waits for its timeout (`dispatcher.go:44`).
- **`NodeApplyFalseSuccess`**: two task goroutines share the candidate files; one installs the
  other's candidate and reports its own change as done (`nodesvc.go:364`).
- **`CollectorRebuild`**: every connection loads the rules before a round has read the old
  counters, so the bytes since the last round are gone (`cmd/sbx-agent/main.go:298`).

Also met while modelling, without a run of their own. Where a property holds in spite of one of these,
it is because its statement names the case; the history variables `behind`, `lapses`, `whole`,
`apart`, `unread`, `left`, `stuck` and `missed` stand for them.

*Traffic*

- The cursor of the sequences: `saveSequence` ignores its error (`trafsync.go:86-90`), and
  `loadSequence` starts from 0 when its query fails (`trafsync.go:77-84`). After either and a restart a
  number is handed out again (`behind`); the Manager takes the new row for a replay of the old one,
  acknowledges it, and its bytes are gone. `trafsync.go:10` calls the sequence strictly increasing.
  `SequenceIdentity` says that no crash alone does this, and `NoRowLost` and `Convergence` speak of
  behaviors in which it has not happened; `ImplementsLedger` holds also when it has.
- Bytes are cut more than once, against `trafsync.go:8-13` (no double report): overlapping loops read
  one baseline; a crash between row and baseline, or a `setBaseline` that fails, leaves the old one
  (`trafsync.go:184-205`); a baseline that cannot be read counts as 0, and the whole history of the
  scope is cut again (`trafsync.go:163`, `259-265`). `NoOverReport` bounds the excess: once the total for
  every lapse. With overlapping loops there is no such bound.
- A node created between two connections has no counter, so its traffic and its quota do not
  count until the next connection (`trafsync.go:92`, called at `main.go:298`).
- A counter that is reset and passes its old value before the next round looks as if it had not been
  reset (`collector.go:353`); `NothingForgotten` speaks of tables that go as a whole.

*Nodes and tasks*

- Nothing restores the first `nodes.json`: without a backup the rollback leaves the new
  list in place (`nodesvc.go:433`), so a first node whose creation failed is listed, and its id and port
  are taken. A crash between the two renames leaves the files
  different (`nodesvc.go:394`), and a rollback that is cut short, or whose copy fails, which nobody looks
  at, may leave a torn `nodes.json` and only the backup whole (`nodesvc.go:430-447`); from then on every
  task fails to read it. `FilesAgree` and `FailureUndone` name these cases.
- A `state.json` that cannot be read counts as an empty one (`store.go:229-243`, `254`), so ids of
  removed nodes are given out again, which `store.go:251` excludes. `IdsNotRecycled` holds until that
  happens. `NextID` also reads and writes the cursor unlocked.
- A crash of the Manager between a node's INSERT and its task's leaves it provisioning
  (`handlers_nodes.go:87`). So do a failing INSERT of the task of a delete, an enable or a disable
  (`handlers_nodes.go:219`), whose mark is not undone, and a failing UPDATE in a callback, whose error is
  ignored (`handlers_nodes.go:453-495`), for the status they leave. A create and an update do undo
  theirs. `sweepTimeout` uses the result of a failed UPDATE (`dispatcher.go:137`), which is nil: the Manager
  dies there, a case of `ManagerCrash`.
- An update whose row is deleted after `Get` has found it still dispatches its task
  (`handlers_nodes.go:139-198`).
- A node in `create_failed` cannot be deleted, because the Agent does not know it
  (`handlers_nodes.go:479`).
- A limit is written to the row before its task exists, and is not taken back when the task
  is not created, waits, fails or times out; two tasks that overlap may be executed in either order
  (`handlers_nodes.go:345`). `LimitIsReal` holds when neither happens.

*Connections*

- `writeLoop` returns on a failed write or after 10 s without progress and tells nobody
  (`gateway.go:225-228`): the connection stays listed and read, tasks are still accepted into its queue
  (`SendToMachine` says true), and none of them leaves it until the connection breaks.
  `AcceptedArrives` says that a task arrives unless that happens, and that the call itself ends; the
  task's row is ended by the sweeper (`TasksEnd`). The reader of such a connection waits on the full
  queue with every acknowledgement, so heartbeats are noted late (`missed`).
- The gateway sets no read deadline after the handshake: a half-open connection stays
  registered, and tasks put into its queue count as sent (`gateway.go:237`).

*Enforcers*

- The IP limit keeps the addresses that sort first as texts, not those that came first
  (`iplimit.go:119`), though `src/README.md:92` and `iplimit.go:4` say that new ones are blocked: a newcomer
  may push out an address that was there. Nothing about the order of arrival can hold, so
  `IPLimitsInForce` says how many clients a node keeps and leaves open which.
- The set holds IPv4 addresses, and with a listener on `::` `/proc/net/tcp6` yields others: one of
  them among the clients of a node that has too many and nft refuses the whole set, so the limits
  are suspended on every node until it is gone (`iplimit.go:184`). `IPLimitsInForce` counts an undisturbed
  round that ends so as correct only if `LastError` says so; `Enforced`, hence `EnforcersSettle`, leaves
  the case out.
- A blocked address is dropped on every port, not only on that of the node whose limit it is over
  (`iplimit.go:184`).
- A node whose totals cannot be read is left out of the blocked set for a round (`quota.go:204`).

*Enrollment*

- An answer to a registration that is lost, or later than the Agent's 30 s, leaves a used
  token and a machine nobody is (`client.go:32`): the retry is refused. `UsedIsKnown` holds, because
  the Manager's rows are complete; the Agent's side is not promised.
- A machine deleted between the INSERT of its row and of its key leaves the key
  (`handlers_machines.go:258`); so may a crash in the middle and a failed undo. `NoLeftovers` names
  the three cases. Nothing calls `PurgeExpired`, so tokens stay.

## 5. Proofs

Every safety property that a passing run checks (invariant, action property or refinement) is also
a theorem. The theorems hold for any values of the constants that satisfy the `ASSUME` of the module,
which TLC evaluates in its runs, and under the hypotheses in the last part of this section. The bounds
on faults are such constants: a theorem covers any number of them.
Inductive invariants that are not evident were checked with TLC on the instances of section 3
first.

| Theorem | Says | Argument |
|---|---|---|
| `TrafficSyncProofs!TypeCorrect` | `[]TypeOK` | inductive by itself: `cur.bytes` is a natural number because a row is only cut from growth |
| `TrafficSyncProofs!SequenceIdentityHolds` | `[]SequenceIdentity` | `SeqInv`: until a start resumes below a row's number, none is above the one in memory and no two loops about to insert hold the same; and while no statement has failed the cursor on disk is the number in memory, so no start does |
| `TrafficSyncProofs!RefinesLedger` | `Spec => ImplementsLedger` | `FlowInv`: every copy of a row, wherever it is, is a row that was recorded. An ingest of a number that is not stored is a credit, an insert is a recording, all else stutters. Needs nothing about numbers being fresh: that the Manager stores each once is the code's own check |
| `TrafficSyncProofs!NothingSkippedHolds` | `[]NothingSkipped` | `SkipInv`: a loop between its row and its baseline has recorded as much as it has read; rows are only ever added, so overlap does no harm |
| `TrafficSyncProofs!NoOverReportHolds` | `[]NoOverReport`, if `~Overlap` | `BusyAlone` (one loop at a time) and `CutInv` (what was reported is at most the baseline, but for the row just inserted, plus `Slack`: the total once for every lapse) |
| `TrafficSyncProofs!NoRowLostHolds` | `[]NoRowLost`, if `~Overlap` and `MaxIngestErrors = 0` | `ReachInv`: rows move in order. For every row in a loop's list, on the connection in use or in an acknowledgement, each row with a smaller number is further on: ahead of it on the connection, or stored. A cumulative acknowledgement then deletes stored rows only. `OrderInv`: a new row has the largest number, only a sending loop has a list, and a new connection is empty. All of it until `behind` |
| `NodeTasksProofs!TypeCorrect` | `[]TypeOK` | needs `RefInv`: every message, handler and callback names a task that exists |
| `NodeTasksProofs!FinalStaysHolds` | `FinalStays` | an action property from `TypeInv`, by the conditions of the UPDATEs |
| `NodeTasksProofs!TransientOwnedHolds` | `[]TransientOwned`, which speaks of the time before the Manager itself fails: crashes, cannot INSERT a task whose mark it does not undo, or not UPDATE a row in a callback | an open task is only closed by a step that remembers to call back, and a callback moves the status; so does a create or an update whose task cannot be INSERTed; once the Manager has failed it has for ever (`FailureStays`) |
| `NodeTasksProofs!CarriedOutOnce` | `[]OnceInv` | a task is in one place: with its request, on the way, at the Agent, or in a result; nothing sends it again. The three below rest on it |
| `NodeTasksProofs!DeletedStaysGone` | `[]DeletedIsGone`, if `~Interleaved` | `GoneInv`: a node is created once, and not in `nodes.json` before that; once its deletion has been carried out, no creation is still to come, and every other change needs it to be there. `CandInv`: the candidate of the handler that is about to apply is the change it would make now |
| `NodeTasksProofs!ActiveNodesExist` | `[]ActiveIsReal`, if `~Interleaved` | `RealInv`: a node that is active, or whose success is reported and not yet recorded, is in `nodes.json`, until a task to delete it exists; only such a task takes it out |
| `NodeTasksProofs!LimitsAreReal` | `[]LimitIsReal` | `EnforcedInv`: while a node's limits are set one after the other, the Agent holds what its last reported task says; `RecordedInv`: the row holds what that task asks for |
| `NodeApplyProofs!TypeCorrect`, `AlwaysValid` | `[]TypeOK`, `[]NodesValid` | `ListsInv`: every list written anywhere has passed `validateNodes` or comes from a file that holds one |
| `NodeApplyProofs!SuccessReal`, `IdsStay` | `[]SuccessIsReal`, `[]IdsNotRecycled`, if `~Interleaved` | `ApplyInv`: for each stage of a job, what the live files, candidates and backups hold (`Placed`, `Backed`), what it knows of the list it changes (`Reads`), and, until a cursor could not be read, that its new id is above all given ones (`NewId`, `Kept`) |
| `NodeApplyProofs!FilesStayTogether`, `FailuresUndone` | `[]FilesAgree`, `[]FailureUndone`, if `~Interleaved`; the second for one goroutine | from `ApplyInv`: `Undone` says for each stage of a rollback, after either failed rename, a failed restart or health check, what it has restored as long as its copies have not failed (`whole`), and that is what the task found; the two files agreed when it started, or something named in `apart` has happened since the last success (`AgreeInv`) |
| `NodeApplyProofs!ImplementsStore` | `Spec => ImplementsNodeStore`, if `~Interleaved` | the mapped list changes at one step of a job only, when the change can no longer fail, or at the crash or the failing copy that makes it final, and `AppliedOne` says that it changes one node's entry; `View`: the three cases of the mapping exclude each other |
| `CollectorProofs!TypeCorrect`, `TotalsOnlyGrow` | `[]TypeOK`, `TotalsGrow` | a counter that a snapshot lacks adds nothing, and a difference is added only if it is not negative |
| `CollectorProofs!CountedOnce` | `[]NoDoubleCount`, if `~Overlap` | `CountOK`: for each scope, totals plus what is unread is at most what passed; and so it would be if the round under way committed its snapshot. `Control`: a round's snapshot is of the table loaded or of one before it, none older than the last commit, and what it has read of the database still holds when it commits, or it takes the rules for fresh |
| `CollectorProofs!KeptOrLost` | `[]NothingForgotten`, if `~Overlap` | `Balance`: totals, what went with a table and what is unread make up what passed. `InOrder`: without a reset no counter is under its baseline or snapshot, so a commit splits what is unread into what it adds and what it leaves, or brings back what had gone with its table (`CommitKeeps`) |
| `GatewayProofs!TypeCorrect` | `[]TypeOK` | inductive by itself |
| `GatewayProofs!ListedCorrect` | `[]ListedIsServed` | `OpenInv`: a handler that has not registered yet has its connection open, so registering lists an open one; closing, replacing and unregistering compare the connection before they delete |
| `GatewayProofs!StatusCorrect` | `[]StatusFollowsHeartbeat`, which leaves out a machine whose last heartbeat could not be noted, or not in time | `LiveInv`: on the Agent's connection both ends are at the same stage of the handshake, and at most one heartbeat is in flight, so the age never exceeds it while someone reads; `SeenOrMissed`: a heartbeat is noted or missed; `SilentInv`: a period of silence does not end without a sweep |
| `EnforcersProofs!TypeCorrect`, `MemoryTrue`, `RoundExact` | `[]TypeOK`, `[]MemoryIsKernel`, `[]RoundIsExact` of `Quota` | `RoundSoFar`: an undisturbed round has collected the due ports of the nodes it has judged; when it skips loading, `MemoryIsKernel` says that the kernel has that set |
| `IPLimitProofs!RoundKeepsLimits` | `Constants /\ Spec => [](TypeOK /\ MemoryIsKernel /\ LimitsInForce)` | `RoundLeaves`: an undisturbed round leaves the addresses `Check` finds too many, or an error because one of them is refused. That these are the limits (`DueIsInForce`, `DueIsCrowded`) is a fact about orders: a finite nonempty set of numbers has a greatest member (`Greatest`), so at most `m` of its members have fewer than `m` below them (`AtMost`), and exactly `m` if it has that many (`AtLeast`), whatever the set |
| `EnforcersProofs!BothAreEach` | `BothSpec => Spec /\ IP!Spec` | every step of the composition is a step or a stutter of each module; `SamePort`: only a task moves a port |
| `EnforcersProofs!BothTyped`, `QuotaExact`, `IPInForce` | the invariants of both modules hold in the composition | from `BothAreEach`; `IPProofs` is `IPLimitProofs` instantiated with the same substitution, and `IPSame` says that its `Spec` is that of `IP` |
| `EnrollmentProofs!TypeCorrect`, `OneMachine`, `UsedKnown`, `NothingLeft` | `[]TypeOK`, `[]OneMachinePerToken`, `[]UsedIsKnown`, `[]NoLeftovers` | `TokenInv`: an attempt is admitted exactly when its token names it, so two admitted with one token are one; `RowInv`: between two statements a handler has the rows it has written, unless they were deleted |

**Hypotheses, and why each is needed.**

- `~Overlap` (`TrafficSync`, `Collector`): two rounds at a time cut and count the same bytes twice, and
  may insert a row after a larger sequence has been acknowledged. The code allows it when a
  connection is made during a round (section 4); what is proved is what the code gives otherwise.
  `SequenceIdentity`, `NothingSkipped`, `ImplementsLedger` and `TotalsGrow` need no such hypothesis.
- `MaxIngestErrors = 0`: a failed ingest leaves a gap that the next acknowledgement closes
  (`TrafficAckLoss`). The hypothesis excludes nothing else: connections, acknowledgements and
  statements at the Agent may fail without bound.
- `~Interleaved` (`NodeTasks`, `NodeApply`): handlers that interleave break `SuccessIsReal`
  (`NodeApplyFalseSuccess`); one installs or writes back what the other has prepared.
- One goroutine in `FailuresUndone`: `before` describes the task that started last, so a task that failed
  before it cannot be compared with it. With `~Interleaved` one goroutine that starts again and again is
  all there is.

What a property's own statement leaves out (`behind`, `ManagerFailed`, `before.whole`, `apart`,
`used.unread`, `missed`) is in section 4: each is a case in which the code does not keep what one would
want, and each is reached in the run that checks the property.

Only model-checked: liveness (`Convergence`, `TasksEnd`, `TransientResolves`, `Reconnects`,
`AcceptedArrives`, `EnforcersSettle`, `RequestEnds`), which the prover cannot treat under fairness. The
four violations of section 4 are counterexamples, not theorems.

## 6. Not modelled

- Wording of rules, configurations, links and messages; cryptography (a signature is right or
  wrong); quantities of time (a tick is a step).
- Rate samples of the collector (`collector.go:160-162`, merged by second): neither program reads them
  (`QRate` is called by `summary.go`, which nothing calls), and with an interval of 2 s
  (`cmd/sbx-agent/main.go:267`) a sample is valid only when its round follows the last within 6.5 s
  (`collector.go:318-323`), while the rounds of one loop are 30 s apart.
- The iptables backend, with two families that are read by separate commands: the agent pins nft
  (`cmd/sbx-agent/main.go:266`), whose counters come in one command.
- A network that is slow without failing: in `Gateway` a writer makes progress or returns. The reader's
  waits on a full queue are modelled where its writer has returned.
- The errors that `Complete` and `MarkSent` ignore (`dispatcher.go:82`): a task whose verdict could not
  be written is called back all the same, and again when the sweeper ends it.
- The executor's stored results: nothing sends a task twice (run `NodeTasksNoResend`), so they are
  written and never read in this system.
- The login throttle: one map under one mutex that nothing else reads; a state machine of it would
  repeat its code. Sessions and request filters keep no state that others change.
- Online addresses: the report of a machine replaces its rows in one transaction, and the panel
  shows them; no decision depends on them. `config_revision` is a counter nobody compares.
- The interactive CLI (`nodes/cli.go`): no binary calls it. Display, summaries, links,
  configuration, audit and static pages: no concurrent state.
- The sing-box process beyond "it runs with this file, or not"; the host's clock; backups of
  the databases.

## 7. Plan

Done: `TrafficSync` with `TrafficLedger` (the accounting that users are billed by), `NodeTasks`,
`NodeApply` with `NodeStore`, `Collector`, `Gateway`, `Quota`, `IPLimit`, their composition
`Enforcers`, and `Enrollment`; a theorem for every safety property of the runs. Left:

1. Theorems beyond the runs: the composed promise that bytes which passed a counter and were
   neither lost with a table nor are still at the Agent are those the Manager shows, from
   `Collector` and `TrafficSync` together.
2. A composition of `NodeTasks` with the steps of `Gateway`, so that "sent" is the queue of a real
   connection, and of `Gateway` with `Enrollment`, so that a machine is deleted while it is connected.
