----------------------------- MODULE NodeTasks -----------------------------
(***************************************************************************)
(* How an administrator's request on a node becomes a task, how the task   *)
(* reaches the Agent, and how its outcome moves the node's status.         *)
(*                                                                         *)
(* Manager: HTTP handlers (internal/manager/api/handlers_nodes.go) write   *)
(* the desired state and dispatch a task; internal/manager/tasks creates   *)
(* it, sends it, takes its result or times it out, and calls back into the *)
(* node's state machine.  Agent: one goroutine per task runs a handler of  *)
(* internal/agent/handlers, which writes candidate files from nodes.json   *)
(* and applies them.                                                       *)
(*                                                                         *)
(* Every SQL statement of the Manager is a step of its own (the pool holds *)
(* one connection, so statements are atomic, handlers are not).  Desired   *)
(* configurations are version numbers.  The candidate of config.json and   *)
(* the one of nodes.json are one file here; Apply is one step.  "limit" is *)
(* set_quota, reset_quota or set_ip_limit: each writes a column of the row *)
(* and one of the Agent's own tables, and moves no status.                 *)
(***************************************************************************)
EXTENDS Integers, Sequences, FiniteSets

CONSTANTS
  Nodes,              \* node_uuids
  Handlers,           \* HTTP requests the Manager serves at a time
  Ops,                \* operations the administrator uses
  MaxTasks,           \* bound: tasks ever created
  MaxFaults,          \* bound: failing statements, crashes, lost connections
  Unhealthy,          \* may a check, restart or validation at the Agent fail?
  Interleaved         \* may task handlers of the Agent interleave?

ASSUME ConstantsAssumption ==
  /\ Ops \subseteq {"create", "update", "delete", "enable", "disable", "limit", "restart"}
  /\ Ops # {}
  /\ Nodes # {}
  /\ {MaxTasks, MaxFaults} \subseteq Nat
  /\ Unhealthy \in BOOLEAN /\ Interleaved \in BOOLEAN

VARIABLES
  row,       \* Manager, on disk: nodes.status, "none" before, "deleted" after
  want,      \* Manager, on disk: versions of nodes.config and of its limit columns
  tasks,     \* Manager, on disk: table tasks, in order of creation
  req,       \* Manager: req[h], the request handler h serves
  reader,    \* Manager: outcome the read loop has stored, not yet called back
  sweep,     \* Manager: tasks the sweeper has selected
  swept,     \* Manager: task it has timed out, not yet called back; 0: none
  link,      \* "up", "stale" (the Agent has left, the Manager has not seen it), "down"
  toAgent,   \* tasks on their way to the Agent
  results,   \* task results on their way to the Manager
  work,      \* Agent: its task goroutines
  nodesFile, \* Agent, on disk: nodes.json, each node's version and switch
  present,   \* Agent, on disk: is there a nodes.json at all?
  cand,      \* Agent, on disk: the candidate files
  held,      \* Agent, on disk: version of the limit it enforces on each node
  used       \* history: failing INSERTs that are undone, statements whose failure leaves
             \* a status behind, crashes of the Manager, lost connections

managerDisk == <<row, want, tasks>>
managerRun  == <<req, reader, sweep, swept>>
network     == <<link, toAgent, results>>
agent       == <<work, nodesFile, present, cand, held>>
vars        == <<managerDisk, managerRun, network, agent, used>>

Ids        == 1..MaxTasks
Transient  == {"provisioning", "update_pending", "delete_pending"}
Settled    == {"active", "disabled", "create_failed", "config_error"}
Statuses   == Transient \cup Settled \cup {"none", "deleted"}
Unfinished == {"pending", "sent"}
Final      == {"success", "failed", "timeout"}
TaskRow    == [node : Nodes, type : Ops, ver : Nat, status : Unfinished \cup Final,
               alone : BOOLEAN]
Desired    == [config : Nat, limit : Nat]
LocalNode  == [ver : Nat, on : BOOLEAN]
Absent     == [ver |-> 0, on |-> FALSE]
NoCand     == [exists |-> FALSE, nodes |-> [n \in Nodes |-> Absent]]
Request    == [pc : {"idle", "read", "insert", "send", "mark"}, op : Ops,
               node : Nodes, seen : Statuses, ver : Nat, task : Nat]
Idle       == [pc |-> "idle", op |-> CHOOSE o \in Ops : TRUE,
               node |-> CHOOSE n \in Nodes : TRUE, seen |-> "none", ver |-> 0, task |-> 0]
NoOutcome  == [task |-> 0, ok |-> FALSE]
Outcome    == [task : Nat, ok : BOOLEAN]
Exists(n)  == row[n] \notin {"none", "deleted"}
Open(i)    == tasks[i].status \in Unfinished
MayFail    == used.undone + used.left + used.manager + used.link < MaxFaults

-----------------------------------------------------------------------------
(***************************************************************************)
(* Variants of definitions below with a plausible mistake in them; the     *)
(* properties are shown to notice each.  They are not part of the model.   *)
(***************************************************************************)
FinishedAlways(i, status)    == [tasks EXCEPT ![i].status = status]
VerdictAsReported(ok)        == IF ok THEN "success" ELSE "error"
AfterCreateOptimistic(n, ok) == IF Exists(n) THEN [row EXCEPT ![n] = "active"] ELSE row
AfterCreateSilent(n, ok)     ==
  IF ok /\ Exists(n) THEN [row EXCEPT ![n] = "active"] ELSE row
AfterDeleteAlways(n, ok)     == IF Exists(n) THEN [row EXCEPT ![n] = "deleted"] ELSE row
AfterDeleteSilent(n, ok)     ==
  IF ok /\ Exists(n) THEN [row EXCEPT ![n] = "deleted"] ELSE row
ExpiredSentOnly              == {i \in DOMAIN tasks : tasks[i].status = "sent"}
AskedBefore(n)               == want[n].limit

-----------------------------------------------------------------------------
\* A node may be there already; the tasks that brought it there have long ended.
\* An Agent that has never had one need not have a nodes.json.
Init ==
  /\ row \in [Nodes -> {"none", "active"}]
  /\ tasks = <<>>
  /\ req = [h \in Handlers |-> Idle]
  /\ reader = NoOutcome /\ sweep = {} /\ swept = 0
  /\ link = "down" /\ toAgent = {} /\ results = {}
  /\ work = {} /\ cand = NoCand
  /\ nodesFile = [n \in Nodes |-> IF row[n] = "active" THEN [ver |-> 1, on |-> TRUE]
                                                       ELSE Absent]
  /\ present \in BOOLEAN /\ ((\E n \in Nodes : row[n] = "active") => present)
  /\ want = [n \in Nodes |-> [config |-> nodesFile[n].ver, limit |-> 0]]
  /\ held = [n \in Nodes |-> 0]
  /\ used = [undone |-> 0, left |-> 0, manager |-> 0, link |-> 0]

\* nodes.Create: a row under a new node_uuid; nodes.Update: whatever the status was.
RowCreated(n) == [row EXCEPT ![n] = "provisioning"]
RowUpdated(n) == [row EXCEPT ![n] = "update_pending"]

\* UpdateStatus: UPDATE nodes SET status = to WHERE node_uuid = n AND status = from.
Moved(n, from, to) == IF row[n] = from THEN [row EXCEPT ![n] = to] ELSE row

\* Complete, and the sweeper's UPDATE: only an unfinished task gets a status.
Finished(i, status) ==
  IF Open(i) THEN [tasks EXCEPT ![i].status = status] ELSE tasks

\* What handleTaskResult stores for the status the Agent reports.
Verdict(ok) == IF ok THEN "success" ELSE "failed"

\* Tasks older than the limit, which a task some handler is still sending (for
\* five seconds at most) is not.
Expired == {i \in DOMAIN tasks : Open(i) /\ \A h \in Handlers : req[h].task # i}

\* What the payload of set_quota or set_ip_limit says: the limit asked for.
Asked(n) == want[n].limit + 1

\* SetQuota, SetIPLimit: an UPDATE that does not mind a row that has gone.
LimitRecorded(n) == IF Exists(n) THEN [want EXCEPT ![n].limit = @ + 1] ELSE want

\* The tasks that set a limit of node n.
LimitsOf(n) == {i \in DOMAIN tasks : tasks[i].node = n /\ tasks[i].type = "limit"}

-----------------------------------------------------------------------------
(***************************************************************************)
(* HTTP handlers: mark the row, INSERT the task, send it, mark it sent.    *)
(***************************************************************************)
Serve(h, r) == req' = [req EXCEPT ![h] = r]

\* Bound: is there a row left in tasks for one more request?
RoomForTask ==
  Len(tasks) + Cardinality({h \in Handlers : req[h].pc \in {"read", "insert"}})
    < MaxTasks

\* handleCreateNode.
CreateRow(h, n) ==
  /\ "create" \in Ops /\ req[h].pc = "idle" /\ RoomForTask /\ row[n] = "none"
  /\ row' = RowCreated(n)
  /\ want' = [want EXCEPT ![n].config = 1]
  /\ Serve(h, [Idle EXCEPT !.pc = "insert", !.op = "create", !.node = n, !.ver = 1])
  /\ UNCHANGED <<tasks, reader, sweep, swept, network, agent, used>>

\* The other handlers first read the row (nodes.Get); for handleUpdateNode this is the
\* read in nodes.Update: it finds no row that its own earlier one has not found.
ReadRow(h, n, op) ==
  /\ op # "create" /\ req[h].pc = "idle" /\ RoomForTask /\ Exists(n)
  /\ Serve(h, [Idle EXCEPT !.pc = "read", !.op = op, !.node = n, !.seen = row[n]])
  /\ UNCHANGED <<managerDisk, reader, sweep, swept, network, agent, used>>

\* handleUpdateNode: an UPDATE that does not mind a row that has gone; its task is
\* dispatched all the same.
MarkUpdate(h) ==
  LET n == req[h].node IN
  /\ req[h].pc = "read" /\ req[h].op = "update"
  /\ row' = IF Exists(n) THEN RowUpdated(n) ELSE row
  /\ want' = IF Exists(n) THEN [want EXCEPT ![n].config = @ + 1] ELSE want
  /\ Serve(h, [req[h] EXCEPT !.pc = "insert", !.ver = want[n].config + 1])
  /\ UNCHANGED <<tasks, reader, sweep, swept, network, agent, used>>

\* handleDeleteNode: 409 unless the status is still the one that was read.
MarkDelete(h) ==
  LET n == req[h].node IN
  /\ req[h].pc = "read" /\ req[h].op = "delete"
  /\ row' = Moved(n, req[h].seen, "delete_pending")
  /\ Serve(h, IF row[n] = req[h].seen THEN [req[h] EXCEPT !.pc = "insert"] ELSE Idle)
  /\ UNCHANGED <<want, tasks, reader, sweep, swept, network, agent, used>>

\* nodeAction (enable, disable): the same, but the failure is ignored; a restart
\* has no status of its own.
MarkToggle(h) ==
  /\ req[h].pc = "read" /\ req[h].op \in {"enable", "disable", "restart"}
  /\ row' = IF req[h].op = "restart" THEN row
            ELSE Moved(req[h].node, req[h].seen, "update_pending")
  /\ Serve(h, [req[h] EXCEPT !.pc = "insert"])
  /\ UNCHANGED <<want, tasks, reader, sweep, swept, network, agent, used>>

\* handleNodeQuota, handleNodeQuotaReset, handleNodeIPLimit: write what was asked
\* for, also when the row has gone.
MarkLimit(h) ==
  LET n == req[h].node IN
  /\ req[h].pc = "read" /\ req[h].op = "limit"
  /\ want' = LimitRecorded(n)
  /\ Serve(h, [req[h] EXCEPT !.pc = "insert", !.ver = Asked(n)])
  /\ UNCHANGED <<row, tasks, reader, sweep, swept, network, agent, used>>

\* History: has nobody else a limit of the same node under way, so that one comes
\* after the other?
Alone(h) ==
  req[h].op = "limit" =>
    /\ \A k \in Handlers \ {h} :
         ~(req[k].pc = "insert" /\ req[k].op = "limit" /\ req[k].node = req[h].node)
    /\ \A i \in LimitsOf(req[h].node) : tasks[i].status \in {"success", "failed"}

\* tasks.Create.
InsertTask(h) ==
  /\ req[h].pc = "insert"
  /\ tasks' = Append(tasks, [node |-> req[h].node, type |-> req[h].op, ver |-> req[h].ver,
                             status |-> "pending", alone |-> Alone(h)])
  /\ Serve(h, [req[h] EXCEPT !.pc = "send", !.task = Len(tasks) + 1])
  /\ UNCHANGED <<row, want, reader, sweep, swept, network, agent, used>>

\* Dispatch returns an error: create and update undo their mark, delete,
\* enable and disable do not.
InsertFails(h) ==
  LET n == req[h].node IN
  /\ req[h].pc = "insert" /\ MayFail
  /\ used' = IF req[h].op \in {"create", "update"} THEN [used EXCEPT !.undone = @ + 1]
                                                   ELSE [used EXCEPT !.left = @ + 1]
  /\ row' = CASE req[h].op = "create" -> Moved(n, "provisioning", "create_failed")
              [] req[h].op = "update" -> Moved(n, "update_pending", "config_error")
              [] OTHER -> row
  /\ Serve(h, Idle)
  /\ UNCHANGED <<want, tasks, reader, sweep, swept, network, agent>>

\* SendToMachine enqueues, also on a connection that is already dead.
Send(h) ==
  /\ req[h].pc = "send" /\ link # "down"
  /\ toAgent' = IF link = "up" THEN toAgent \cup {req[h].task} ELSE toAgent
  /\ Serve(h, [req[h] EXCEPT !.pc = "mark"])
  /\ UNCHANGED <<managerDisk, reader, sweep, swept, link, results, agent, used>>

\* The machine is offline, or the queue of a dead connection stays full for
\* five seconds: the request succeeds and the task stays pending.
SendOffline(h) ==
  /\ req[h].pc = "send" /\ link # "up"
  /\ Serve(h, Idle)
  /\ UNCHANGED <<managerDisk, reader, sweep, swept, network, agent, used>>

MarkSent(h) ==
  LET i == req[h].task IN
  /\ req[h].pc = "mark"
  /\ tasks' = IF tasks[i].status = "pending" THEN [tasks EXCEPT ![i].status = "sent"]
                                             ELSE tasks
  /\ Serve(h, Idle)
  /\ UNCHANGED <<row, want, reader, sweep, swept, network, agent, used>>

\* What a handler does once it has accepted a request.
Proceed(h) ==
  \/ MarkUpdate(h) \/ MarkDelete(h) \/ MarkToggle(h) \/ MarkLimit(h)
  \/ InsertTask(h) \/ InsertFails(h)
  \/ Send(h) \/ SendOffline(h) \/ MarkSent(h)

-----------------------------------------------------------------------------
(***************************************************************************)
(* The Agent.  A goroutine is [task, phase, live]; live says whether the   *)
(* connection the task came on is still the one in use.                    *)
(***************************************************************************)
Receive(i) ==
  /\ i \in toAgent /\ link = "up"
  /\ toAgent' = toAgent \ {i}
  /\ work' = work \cup {[task |-> i, phase |-> "prepare", live |-> TRUE]}
  /\ UNCHANGED <<managerDisk, managerRun, link, results, nodesFile, present, cand, held, used>>

\* What the handler of task i makes of one node of nodes.json.
Changed(i) ==
  LET t == tasks[i]
      old == nodesFile[t.node]
  IN [nodesFile EXCEPT ![t.node] =
       CASE t.type = "create"  -> [ver |-> t.ver, on |-> TRUE]
         [] t.type = "update"  -> [old EXCEPT !.ver = t.ver]
         [] t.type = "delete"  -> Absent
         [] t.type = "enable"  -> [old EXCEPT !.on = TRUE]
         [] t.type = "disable" -> [old EXCEPT !.on = FALSE]]

\* A new node need not be listed in nodes.json, and a restart asks for none.
Applicable(i) ==
  tasks[i].type \in {"create", "restart"} \/ nodesFile[tasks[i].node] # Absent

\* Tasks that change no file: the service is restarted, or a limit stored.
Direct(i) == tasks[i].type \in {"limit", "restart"}

\* SetLimit, an upsert.
Stored(i) ==
  IF tasks[i].type = "limit" THEN [held EXCEPT ![tasks[i].node] = tasks[i].ver] ELSE held

\* The result is saved, and sent on the connection the task came on.
Report(w, ok) ==
  /\ work' = work \ {w}
  /\ results' = IF w.live THEN results \cup {[task |-> w.task, ok |-> ok]} ELSE results

\* Read nodes.json, write the candidates.
Prepare(w) ==
  /\ w.phase = "prepare" /\ Applicable(w.task) /\ ~Direct(w.task)
  /\ Interleaved \/ \A v \in work : v.phase = "prepare"
  /\ cand' = [exists |-> TRUE, nodes |-> Changed(w.task)]
  /\ work' = (work \ {w}) \cup {[w EXCEPT !.phase = "apply"]}
  /\ UNCHANGED <<managerDisk, managerRun, network, nodesFile, present, held, used>>

\* Restart, or SetLimit.
Execute(w) ==
  /\ w.phase = "prepare" /\ Applicable(w.task) /\ Direct(w.task)
  /\ held' = Stored(w.task)
  /\ Report(w, TRUE)
  /\ UNCHANGED <<managerDisk, managerRun, link, toAgent, nodesFile, present, cand, used>>

\* The node is not found, the new list is not valid, or the service does not start.
Refuse(w) ==
  /\ w.phase = "prepare"
  /\ \/ ~Applicable(w.task)
     \/ Unhealthy /\ tasks[w.task].type \in {"create", "update", "limit", "restart"}
  /\ Report(w, FALSE)
  /\ UNCHANGED <<managerDisk, managerRun, link, toAgent, nodesFile, present, cand, held, used>>

\* Check, replace and restart succeed; what is applied is the candidate there is.
Apply(w) ==
  /\ w.phase = "apply" /\ cand.exists
  /\ nodesFile' = cand.nodes /\ present' = TRUE /\ cand' = NoCand
  /\ Report(w, TRUE)
  /\ UNCHANGED <<managerDisk, managerRun, link, toAgent, held, used>>

\* There is no candidate, or the check fails and leaves it.  Or the restart fails, and
\* the rollback removes it: what was there is back, but a first nodes.json, of which
\* there is no backup, stays.
ApplyFails(w) ==
  /\ w.phase = "apply"
  /\ ~cand.exists \/ Unhealthy
  /\ cand' \in {cand, NoCand}
  /\ \/ UNCHANGED <<nodesFile, present>>
     \/ /\ cand.exists /\ ~present /\ cand' = NoCand
        /\ nodesFile' = cand.nodes /\ present' = TRUE
  /\ Report(w, FALSE)
  /\ UNCHANGED <<managerDisk, managerRun, link, toAgent, held, used>>

AgentStep ==
  \/ \E i \in toAgent : Receive(i)
  \/ \E w \in work : Prepare(w) \/ Execute(w) \/ Refuse(w) \/ Apply(w) \/ ApplyFails(w)

-----------------------------------------------------------------------------
(***************************************************************************)
(* Results and timeouts, each a statement on tasks and then a callback.    *)
(***************************************************************************)
AfterCreate(n, ok) ==
  IF ok THEN (IF Exists(n) THEN [row EXCEPT ![n] = "active"] ELSE row)
        ELSE Moved(n, "provisioning", "create_failed")

AfterDelete(n, ok) ==
  IF ok THEN (IF Exists(n) THEN [row EXCEPT ![n] = "deleted"] ELSE row)
        ELSE Moved(n, "delete_pending", "config_error")

\* handleNodeTaskResult, the callback of both.
Converged(i, ok) ==
  LET n == tasks[i].node
      type == tasks[i].type
  IN CASE type = "create"  -> AfterCreate(n, ok)
       [] type = "delete"  -> AfterDelete(n, ok)
       [] type = "disable" ->
            Moved(n, "update_pending", IF ok THEN "disabled" ELSE "config_error")
       [] type \in {"update", "enable"} ->
            Moved(n, "update_pending", IF ok THEN "active" ELSE "config_error")
       [] OTHER -> row

\* handleTaskResult: Complete, ...
TakeResult(r) ==
  /\ reader = NoOutcome /\ r \in results
  /\ results' = results \ {r}
  /\ tasks' = Finished(r.task, Verdict(r.ok))
  /\ reader' = r
  /\ UNCHANGED <<row, want, req, sweep, swept, link, toAgent, agent, used>>

\* ... and the callback, also when Complete changed nothing.
ResultCallback ==
  /\ reader # NoOutcome
  /\ row' = Converged(reader.task, reader.ok)
  /\ reader' = NoOutcome
  /\ UNCHANGED <<want, tasks, req, sweep, swept, network, agent, used>>

\* sweepTimeout first selects the expired tasks, ...
SweepSelect ==
  /\ sweep = {} /\ swept = 0
  /\ sweep' \in (SUBSET Expired) \ {{}}
  /\ UNCHANGED <<managerDisk, req, reader, swept, network, agent, used>>

\* ... then marks each that is still unfinished and calls back.
SweepMark(i) ==
  /\ i \in sweep /\ swept = 0
  /\ sweep' = sweep \ {i}
  /\ tasks' = Finished(i, "timeout")
  /\ swept' = IF Open(i) THEN i ELSE 0
  /\ UNCHANGED <<row, want, req, reader, network, agent, used>>

SweepCallback ==
  /\ swept # 0
  /\ row' = Converged(swept, FALSE)
  /\ swept' = 0
  /\ UNCHANGED <<want, tasks, req, reader, sweep, network, agent, used>>

\* The statement of a callback fails, and the error is ignored.
CallbackFails ==
  /\ MayFail /\ used' = [used EXCEPT !.left = @ + 1]
  /\ \/ reader # NoOutcome /\ reader' = NoOutcome /\ UNCHANGED swept
     \/ swept # 0 /\ swept' = 0 /\ UNCHANGED reader
  /\ UNCHANGED <<managerDisk, req, sweep, network, agent>>

ManagerStep ==
  \/ \E r \in results : TakeResult(r)
  \/ ResultCallback \/ CallbackFails
  \/ SweepSelect
  \/ \E i \in sweep : SweepMark(i)
  \/ SweepCallback

-----------------------------------------------------------------------------
(***************************************************************************)
(* Connections and crashes.                                                *)
(***************************************************************************)
Orphaned == {[w EXCEPT !.live = FALSE] : w \in work}

\* The Agent dials again; what was travelling on the old connection is gone.
Connect ==
  /\ link # "up"
  /\ link' = "up" /\ toAgent' = {} /\ results' = {}
  /\ UNCHANGED <<managerDisk, managerRun, agent, used>>

\* The Agent's side of the connection dies.
Disconnect ==
  /\ link = "up" /\ MayFail
  /\ used' = [used EXCEPT !.link = @ + 1]
  /\ link' = "stale" /\ toAgent' = {}
  /\ work' = Orphaned
  /\ UNCHANGED <<managerDisk, managerRun, results, nodesFile, present, cand, held>>

\* The Manager's read loop fails and unregisters the connection.
Notice ==
  /\ link = "stale"
  /\ link' = "down" /\ results' = {}
  /\ UNCHANGED <<managerDisk, managerRun, toAgent, agent, used>>

\* The Agent process dies: its goroutines are gone, its files are not.
AgentCrash ==
  /\ link = "up" /\ MayFail
  /\ used' = [used EXCEPT !.link = @ + 1]
  /\ link' = "stale" /\ toAgent' = {} /\ work' = {}
  /\ UNCHANGED <<managerDisk, managerRun, results, nodesFile, present, cand, held>>

\* The Manager process dies and is started again.
ManagerCrash ==
  /\ MayFail
  /\ used' = [used EXCEPT !.manager = @ + 1]
  /\ req' = [h \in Handlers |-> Idle]
  /\ reader' = NoOutcome /\ sweep' = {} /\ swept' = 0
  /\ link' = "down" /\ toAgent' = {} /\ results' = {}
  /\ work' = Orphaned
  /\ UNCHANGED <<managerDisk, nodesFile, present, cand, held>>

Next ==
  \/ \E h \in Handlers, n \in Nodes : CreateRow(h, n) \/ \E op \in Ops : ReadRow(h, n, op)
  \/ \E h \in Handlers : Proceed(h)
  \/ AgentStep
  \/ ManagerStep
  \/ Connect \/ Disconnect \/ Notice \/ AgentCrash \/ ManagerCrash

Spec == Init /\ [][Next]_vars

(***************************************************************************)
(* Fairness: goroutines are scheduled, the sweeper's ticker fires, the     *)
(* Agent redials for ever.  Nobody is obliged to send requests.            *)
(***************************************************************************)
Fairness ==
  /\ \A h \in Handlers : WF_vars(Proceed(h))
  /\ WF_vars(AgentStep)
  /\ WF_vars(ManagerStep)
  /\ WF_vars(Connect)

FairSpec == Spec /\ Fairness
-----------------------------------------------------------------------------
(***************************************************************************)
(* Properties.                                                             *)
(***************************************************************************)

\* Types: in particular a timeout or a late result never gives a row a status
\* that the state machine of README.md does not have.
TypeOK ==
  /\ row \in [Nodes -> Statuses] /\ want \in [Nodes -> Desired]
  /\ tasks \in Seq(TaskRow)
  /\ req \in [Handlers -> Request]
  /\ reader \in Outcome /\ sweep \subseteq Nat /\ swept \in Nat
  /\ link \in {"up", "stale", "down"}
  /\ toAgent \subseteq Nat /\ results \subseteq Outcome
  /\ work \subseteq [task : Nat, phase : {"prepare", "apply"}, live : BOOLEAN]
  /\ nodesFile \in [Nodes -> LocalNode] /\ present \in BOOLEAN
  /\ cand \in [exists : BOOLEAN, nodes : [Nodes -> LocalNode]]
  /\ held \in [Nodes -> Nat]
  /\ used \in [undone : 0..MaxFaults, left : 0..MaxFaults, manager : 0..MaxFaults,
               link : 0..MaxFaults]

\* The verdict on a task is never revised: a result that arrives after the
\* timeout, or a MarkSent that runs after the result, changes nothing.
FinalStays ==
  [][\A i \in DOMAIN tasks : ~Open(i) => tasks'[i] = tasks[i]]_vars

\* The operations whose callback ends a transient status.
Ends(status) ==
  CASE status = "provisioning"   -> {"create"}
    [] status = "delete_pending" -> {"delete"}
    [] OTHER                     -> {"update", "enable", "disable"}

\* Is an operation of one of these types on node n still under way at the
\* Manager: in a handler, as an unfinished task, or about to be called back?
UnderWay(n, types) ==
  \/ \E h \in Handlers :
       req[h].pc = "insert" /\ req[h].node = n /\ req[h].op \in types
  \/ \E i \in DOMAIN tasks :
       /\ tasks[i].node = n /\ tasks[i].type \in types
       /\ Open(i) \/ swept = i \/ reader.task = i

\* Has the Manager itself failed: has it crashed, could it not INSERT a task whose mark
\* it does not undo, or not UPDATE a row in a callback?
ManagerFailed == used.left + used.manager > 0

\* No row waits for nobody: whoever else writes the row in between, a transient
\* status always has an operation under way whose callback will end it, whatever
\* is lost or crashes on the Agent's side.
TransientOwned ==
  ManagerFailed \/ \A n \in Nodes : row[n] \in Transient => UnderWay(n, Ends(row[n]))

\* README: "the Manager does not delete the record before the Agent has really
\* deleted the node": a deleted row means a node that nodes.json does not list.
DeletedIsGone == \A n \in Nodes : row[n] = "deleted" => nodesFile[n] = Absent

\* Success is never claimed falsely: a node shown active is one the Agent really
\* has, unless it was told to delete it.
ActiveIsReal ==
  \A n \in Nodes : row[n] = "active" =>
    \/ nodesFile[n] # Absent
    \/ \E i \in DOMAIN tasks : tasks[i].node = n /\ tasks[i].type = "delete"

\* The limit the Manager shows is the one the Agent enforces: at least when its tasks,
\* none of them under way together with another, have all succeeded.
LimitIsReal ==
  ManagerFailed \/ \A n \in Nodes :
    (/\ Exists(n) /\ ~UnderWay(n, {"limit"})
     /\ \A i \in LimitsOf(n) : tasks[i].status = "success" /\ tasks[i].alone)
      => held[n] = want[n].limit

\* Every task ends, whatever is lost or crashes.
TasksEnd ==
  \A i \in Ids : (i \in DOMAIN tasks) ~> (i \in DOMAIN tasks /\ ~Open(i))

\* A node does not stay in a transient status, whatever is lost between Manager
\* and Agent; only a failure of the Manager itself may leave it there.
TransientResolves ==
  \A n \in Nodes :
    (row[n] \in Transient) ~> (row[n] \notin Transient \/ ManagerFailed)

(***************************************************************************)
(* Statements of the repository that the code does not keep.               *)
(***************************************************************************)

\* Task i is pending at an Agent that is there, and no handler is sending it.
LeftPending(i) ==
  /\ i \in DOMAIN tasks /\ tasks[i].status = "pending"
  /\ link = "up" /\ \A h \in Handlers : req[h].task # i

\* Dispatch: "if the machine is offline the task stays pending and is sent when
\* the machine has reconnected".
PendingIsResent == \A i \in Ids : LeftPending(i) ~> (i \in toAgent)
=============================================================================
