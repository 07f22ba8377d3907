-------------------------- MODULE NodeTasksProofs --------------------------
(***************************************************************************)
(* Proofs about NodeTasks, for every number of nodes, requests, tasks and  *)
(* disconnections, whatever the Agent's handlers do.  DeletedStaysGone and *)
(* ActiveNodesExist are for handlers that run one after the other.         *)
(*                                                                         *)
(* What is said of nodes and limits rests on OnceInv: a task is in one     *)
(* place only, with its request, on the way, at the Agent or in its        *)
(* result, so the Agent carries it out at most once.                       *)
(***************************************************************************)
EXTENDS NodeTasks, SequenceTheorems, TLAPS

(***************************************************************************)
(* Types, together with the fact that whatever names a task names a row of *)
(* the table tasks; neither is inductive without the other.                *)
(***************************************************************************)
RefInv ==
  /\ reader = NoOutcome \/ reader.task \in DOMAIN tasks
  /\ sweep \subseteq DOMAIN tasks /\ swept \in DOMAIN tasks \cup {0}
  /\ toAgent \subseteq DOMAIN tasks
  /\ \A r \in results : r.task \in DOMAIN tasks
  /\ \A w \in work : w.task \in DOMAIN tasks
  /\ \A h \in Handlers : req[h].pc \in {"send", "mark"} => req[h].task \in DOMAIN tasks

LEMMA Constants ==
  /\ Idle \in Request /\ Idle.pc = "idle"
  /\ NoOutcome \in Outcome /\ NoOutcome.task = 0
  /\ NoCand \in [exists : BOOLEAN, nodes : [Nodes -> LocalNode]]
  /\ Absent \in LocalNode
BY ConstantsAssumption DEF Idle, Request, Statuses, NoOutcome, Outcome, NoCand, Absent,
                           LocalNode

\* A handler that only moves on.
LEMMA MovesOn ==
  ASSUME NEW r \in Request
  PROVE  \A p \in {"insert", "send", "mark"} :
           LET s == [r EXCEPT !.pc = p]
           IN s \in Request /\ s.pc = p /\ s.task = r.task
BY DEF Request

\* A status change keeps rows and tasks well typed, and loses no task.
LEMMA MovedType ==
  ASSUME row \in [Nodes -> Statuses], NEW n \in Nodes, NEW from, NEW to \in Statuses
  PROVE  Moved(n, from, to) \in [Nodes -> Statuses]
BY DEF Moved

LEMMA FinishedType ==
  ASSUME tasks \in Seq(TaskRow), NEW i \in DOMAIN tasks, NEW s \in Final
  PROVE  /\ Finished(i, s) \in Seq(TaskRow)
         /\ DOMAIN Finished(i, s) = DOMAIN tasks
<1>1. DOMAIN tasks = 1..Len(tasks) /\ tasks[i] \in TaskRow
  OBVIOUS
<1>2. [tasks[i] EXCEPT !.status = s] \in TaskRow
  BY <1>1 DEF TaskRow
<1>3. [tasks EXCEPT ![i] = [tasks[i] EXCEPT !.status = s]] \in Seq(TaskRow)
  BY <1>1, <1>2
<1> QED
  BY <1>1, <1>3 DEF Finished

LEMMA ConvergedType ==
  ASSUME TypeOK, NEW i \in DOMAIN tasks, NEW ok \in BOOLEAN
  PROVE  Converged(i, ok) \in [Nodes -> Statuses]
<1>1. tasks[i].node \in Nodes
  <2>1. tasks \in Seq(TaskRow) /\ i \in 1..Len(tasks)
    BY DEF TypeOK
  <2>2. tasks[i] \in TaskRow
    BY <2>1
  <2> QED
    BY <2>2 DEF TaskRow
<1> QED
  BY <1>1, MovedType DEF Converged, AfterCreate, AfterDelete, TypeOK, Statuses, Settled

TypeInv == TypeOK /\ RefInv

LEMMA TypeInit == Init => TypeInv
<1> SUFFICES ASSUME Init PROVE TypeInv
  OBVIOUS
<1>1. tasks \in Seq(TaskRow) /\ DOMAIN tasks = {}
  BY EmptySeq DEF Init
<1>2. used \in [undone : 0..MaxFaults, left : 0..MaxFaults, manager : 0..MaxFaults,
                link : 0..MaxFaults]
  BY ConstantsAssumption DEF Init
<1>3. row \in [Nodes -> Statuses] /\ nodesFile \in [Nodes -> LocalNode]
  BY Constants DEF Init, Statuses, Settled, LocalNode
<1>5. want \in [Nodes -> Desired]
  BY <1>3 DEF Init, Desired, LocalNode
<1>6. TypeOK
  BY <1>1, <1>2, <1>3, <1>5, Constants DEF Init, TypeOK
<1>4. RefInv
  BY Constants DEF Init, RefInv
<1> QED
  BY <1>4, <1>6 DEF TypeInv

\* Counting one more bounded event.
Counts == [undone : 0..MaxFaults, left : 0..MaxFaults, manager : 0..MaxFaults,
           link : 0..MaxFaults]

LEMMA CountsUpdate ==
  ASSUME used \in Counts
  PROVE  /\ \A n \in 0..MaxFaults : /\ [used EXCEPT !.undone = n] \in Counts
                                   /\ [used EXCEPT !.left = n] \in Counts
                                   /\ [used EXCEPT !.manager = n] \in Counts
                                   /\ [used EXCEPT !.link = n] \in Counts
         /\ used.undone \in 0..MaxFaults /\ used.left \in 0..MaxFaults
         /\ used.manager \in 0..MaxFaults /\ used.link \in 0..MaxFaults
BY DEF Counts

LEMMA TypeStep == TypeInv /\ [Next]_vars => TypeInv'
<1> SUFFICES ASSUME TypeInv, [Next]_vars PROVE TypeInv'
  OBVIOUS
<1> USE DEF TypeInv, Serve
<1>a. /\ row \in [Nodes -> Statuses] /\ want \in [Nodes -> Desired]
      /\ req \in [Handlers -> Request] /\ tasks \in Seq(TaskRow)
      /\ DOMAIN tasks = 1..Len(tasks) /\ Len(tasks) \in Nat
  BY DEF TypeOK
<1>b. \A h \in Handlers : /\ req[h] \in Request /\ req[h].node \in Nodes
                          /\ req[h].op \in Ops /\ req[h].ver \in Nat
                          /\ req[h].seen \in Statuses /\ req[h].task \in Nat
  BY <1>a DEF Request
<1>u. used \in Counts
  BY DEF TypeOK, Counts
\* A handler moves on without touching the tasks it may refer to.
<1>c. ASSUME NEW h \in Handlers, NEW r \in Request,
             r.pc \in {"send", "mark"} => r.task \in DOMAIN tasks,
             req' = [req EXCEPT ![h] = r],
             UNCHANGED <<tasks, reader, sweep, swept, results, work>>,
             toAgent' \subseteq DOMAIN tasks
      PROVE  RefInv' /\ req' \in [Handlers -> Request]
  BY <1>a, <1>c DEF RefInv
<1>1. ASSUME NEW h \in Handlers, NEW n \in Nodes, CreateRow(h, n) PROVE TypeInv'
  <2> DEFINE r == [Idle EXCEPT !.pc = "insert", !.op = "create", !.node = n, !.ver = 1]
  <2>1. r \in Request /\ r.pc = "insert"
    BY <1>1, Constants DEF CreateRow, Request, RowCreated
  <2>2. RefInv' /\ req' \in [Handlers -> Request]
    BY <1>1, <1>c, <2>1 DEF CreateRow, network, agent, RefInv, RowCreated
  <2>3. row' \in [Nodes -> Statuses] /\ want' \in [Nodes -> Desired]
    BY <1>1, <1>a DEF CreateRow, Statuses, Transient, RowCreated, Desired
  <2> QED
    BY <1>1, <2>2, <2>3 DEF CreateRow, TypeOK, network, agent, RowCreated
<1>2. ASSUME NEW h \in Handlers, NEW n \in Nodes, NEW op \in Ops, ReadRow(h, n, op)
      PROVE  TypeInv'
  <2> DEFINE r == [Idle EXCEPT !.pc = "read", !.op = op, !.node = n, !.seen = row[n]]
  <2>1. r \in Request /\ r.pc = "read"
    <3>1. row[n] \in Statuses
      BY <1>a
    <3> QED
      BY <3>1, Constants DEF Request
  <2>2. RefInv' /\ req' \in [Handlers -> Request]
    BY <1>2, <1>c, <2>1 DEF ReadRow, managerDisk, network, agent, RefInv
  <2> QED
    BY <1>2, <2>2 DEF ReadRow, TypeOK, managerDisk, network, agent
<1>3. ASSUME NEW h \in Handlers, MarkUpdate(h) PROVE TypeInv'
  <2> DEFINE n == req[h].node
  <2>1. PICK v \in Nat : v = want[n].config + 1
    BY <1>a, <1>b DEF Desired
  <2> DEFINE r == [req[h] EXCEPT !.pc = "insert", !.ver = v]
  <2>2. r \in Request /\ r.pc = "insert"
    BY <1>b DEF Request
  <2>3. CASE Exists(n)
    <3>1. RefInv' /\ req' \in [Handlers -> Request]
      BY <1>3, <1>c, <2>1, <2>2, <2>3 DEF MarkUpdate, network, agent, RefInv, RowUpdated
    <3>2. row' \in [Nodes -> Statuses]
      BY <1>3, <1>a, <2>3 DEF MarkUpdate, Statuses, Transient, RowUpdated
    <3>3. want' = [want EXCEPT ![n].config = v]
      BY <1>3, <2>1, <2>3 DEF MarkUpdate, RowUpdated
    <3>4. want' \in [Nodes -> Desired]
      BY <1>a, <3>3 DEF Desired
    <3> QED
      BY <1>3, <3>1, <3>2, <3>4 DEF MarkUpdate, TypeOK, network, agent, RowUpdated
  <2>4. CASE ~Exists(n)
    <3>1. RefInv' /\ req' \in [Handlers -> Request]
      BY <1>3, <1>c, <2>1, <2>2, <2>4 DEF MarkUpdate, network, agent, RefInv
    <3> QED
      BY <1>3, <2>4, <3>1 DEF MarkUpdate, TypeOK, network, agent
  <2> QED
    BY <2>3, <2>4
<1>4. ASSUME NEW h \in Handlers, MarkDelete(h) \/ MarkToggle(h) PROVE TypeInv'
  <2>1. row' \in [Nodes -> Statuses]
    BY <1>4, <1>a, <1>b, MovedType DEF MarkDelete, MarkToggle, Statuses, Transient
  <2>2. [req[h] EXCEPT !.pc = "insert"] \in Request
        /\ [req[h] EXCEPT !.pc = "insert"].pc = "insert"
    BY <1>b, MovesOn
  <2>3. req' = [req EXCEPT ![h] = [req[h] EXCEPT !.pc = "insert"]]
        \/ req' = [req EXCEPT ![h] = Idle]
    BY <1>4 DEF MarkDelete, MarkToggle
  <2>4. UNCHANGED <<want, tasks, reader, sweep, swept, network, agent, used>>
    BY <1>4 DEF MarkDelete, MarkToggle
  <2>5. RefInv' /\ req' \in [Handlers -> Request]
    BY <1>c, <2>2, <2>3, <2>4, Constants DEF network, agent, RefInv
  <2> QED
    BY <2>1, <2>4, <2>5 DEF TypeOK, network, agent
<1>25. ASSUME NEW h \in Handlers, MarkLimit(h) PROVE TypeInv'
  <2> DEFINE n == req[h].node
  <2>1. want[n].limit \in Nat /\ want[n] \in Desired
    BY <1>a, <1>b DEF Desired
  <2>2. PICK v \in Nat : v = want[n].limit + 1
    BY <2>1
  <2>3. want' = [want EXCEPT ![n].limit = v] \/ want' = want
    BY <1>25, <2>2 DEF MarkLimit, LimitRecorded
  <2>4. want' \in [Nodes -> Desired]
    BY <1>a, <1>b, <2>3 DEF Desired
  <2> DEFINE r == [req[h] EXCEPT !.pc = "insert", !.ver = v]
  <2>5. r \in Request /\ r.pc = "insert" /\ req' = [req EXCEPT ![h] = r]
    BY <1>25, <1>b, <2>2 DEF MarkLimit, Asked, Request
  <2>6. RefInv' /\ req' \in [Handlers -> Request]
    BY <1>25, <1>c, <2>5 DEF MarkLimit, network, agent, RefInv
  <2> QED
    BY <1>25, <2>4, <2>6 DEF MarkLimit, TypeOK, network, agent
<1>5. ASSUME NEW h \in Handlers, InsertTask(h) PROVE TypeInv'
  <2> DEFINE t == [node |-> req[h].node, type |-> req[h].op, ver |-> req[h].ver,
                   status |-> "pending", alone |-> Alone(h)]
  <2>a. Alone(h) \in BOOLEAN
    BY DEF Alone
  <2>1. t \in TaskRow
    BY <1>b, <2>a DEF TaskRow, Unfinished
  <2>2. tasks' = Append(tasks, t)
    BY <1>5 DEF InsertTask
  <2>3. tasks' \in Seq(TaskRow) /\ DOMAIN tasks' = 1..Len(tasks) + 1
    BY <1>a, <2>1, <2>2
  <2>4. Len(tasks) + 1 \in Nat /\ Len(tasks) + 1 \in DOMAIN tasks'
        /\ DOMAIN tasks \subseteq DOMAIN tasks'
    BY <1>a, <2>3
  <2> DEFINE i == Len(tasks) + 1
             r == [req[h] EXCEPT !.pc = "send", !.task = i]
  <2>6. req' = [req EXCEPT ![h] = r]
    BY <1>5 DEF InsertTask
  <2>i. i \in Nat /\ i \in DOMAIN tasks'
    BY <2>4
  <2> HIDE DEF i
  <2>5. r \in Request /\ r.task = i
    BY <1>b, <2>i DEF Request
  <2>7. UNCHANGED <<row, want, reader, sweep, swept, link, toAgent, results, work,
                    nodesFile, present, cand, held, used>>
    BY <1>5 DEF InsertTask, network, agent
  <2>8. RefInv'
    BY <1>a, <2>4, <2>5, <2>6, <2>7, <2>i DEF RefInv
  <2>9. req' \in [Handlers -> Request]
    BY <1>a, <2>5, <2>6
  <2> QED
    BY <2>3, <2>7, <2>8, <2>9 DEF TypeOK
<1>6. ASSUME NEW h \in Handlers, InsertFails(h) PROVE TypeInv'
  <2>1. RefInv' /\ req' \in [Handlers -> Request]
    BY <1>6, <1>c, Constants DEF InsertFails, network, agent, RefInv
  <2>2. row' \in [Nodes -> Statuses]
    BY <1>6, <1>a, <1>b, MovedType DEF InsertFails, Statuses, Settled
  <2>3. MayFail
    BY <1>6 DEF InsertFails
  <2>4. used.undone + 1 \in 0..MaxFaults /\ used.left + 1 \in 0..MaxFaults
    BY <2>3, <1>u, CountsUpdate, ConstantsAssumption DEF MayFail
  <2>5. used' \in Counts
    BY <1>6, <2>4, <1>u, CountsUpdate DEF InsertFails
  <2> QED
    BY <1>6, <2>1, <2>2, <2>5 DEF InsertFails, TypeOK, Counts, network, agent
<1>7. ASSUME NEW h \in Handlers, Send(h) PROVE TypeInv'
  <2>1. req[h].task \in DOMAIN tasks
    BY <1>7 DEF Send, RefInv
  <2>2. [req[h] EXCEPT !.pc = "mark"] \in Request
        /\ [req[h] EXCEPT !.pc = "mark"].task = req[h].task
    BY <1>b, MovesOn
  <2>3. toAgent' \subseteq DOMAIN tasks /\ toAgent' \subseteq Nat
    BY <1>7, <1>a, <2>1 DEF Send, RefInv
  <2>4. RefInv' /\ req' \in [Handlers -> Request]
    BY <1>7, <1>c, <2>1, <2>2, <2>3 DEF Send, managerDisk, agent
  <2> QED
    BY <1>7, <2>3, <2>4 DEF Send, TypeOK, managerDisk, agent
<1>8. ASSUME NEW h \in Handlers, SendOffline(h) PROVE TypeInv'
  <2>1. RefInv' /\ req' \in [Handlers -> Request]
    BY <1>8, <1>c, Constants DEF SendOffline, managerDisk, network, agent, RefInv
  <2> QED
    BY <1>8, <2>1 DEF SendOffline, TypeOK, managerDisk, network, agent
<1>9. ASSUME NEW h \in Handlers, MarkSent(h) PROVE TypeInv'
  <2> DEFINE i == req[h].task
  <2>1. i \in 1..Len(tasks) /\ tasks[i] \in TaskRow
    BY <1>9, <1>a DEF MarkSent, RefInv
  <2>2. [tasks[i] EXCEPT !.status = "sent"] \in TaskRow
    BY <2>1 DEF TaskRow, Unfinished
  <2>3. [tasks EXCEPT ![i] = [tasks[i] EXCEPT !.status = "sent"]] \in Seq(TaskRow)
    BY <1>a, <2>1, <2>2
  <2>4. tasks' \in Seq(TaskRow) /\ DOMAIN tasks' = DOMAIN tasks
    BY <1>9, <1>a, <2>3 DEF MarkSent
  <2>5. req' \in [Handlers -> Request]
    BY <1>9, <1>a, Constants DEF MarkSent
  <2>6. RefInv'
    BY <1>9, <1>a, <2>4, Constants DEF MarkSent, RefInv, network, agent
  <2> QED
    BY <1>9, <2>4, <2>5, <2>6 DEF MarkSent, TypeOK, network, agent
\* The Agent's steps, and the network's, change neither tasks nor requests.
<1>d. ASSUME UNCHANGED <<tasks, req>>,
             reader' = NoOutcome \/ reader' = reader,
             sweep' \subseteq DOMAIN tasks, swept' \in DOMAIN tasks \cup {0},
             toAgent' \subseteq DOMAIN tasks,
             \A r \in results' : r.task \in DOMAIN tasks,
             \A w \in work' : w.task \in DOMAIN tasks
      PROVE  RefInv'
  BY <1>d DEF RefInv, NoOutcome
<1>e. /\ toAgent \subseteq DOMAIN tasks /\ sweep \subseteq DOMAIN tasks
      /\ swept \in DOMAIN tasks \cup {0}
      /\ \A r \in results : r.task \in DOMAIN tasks
      /\ \A w \in work : w.task \in DOMAIN tasks
  BY DEF RefInv
<1>f. ASSUME NEW w \in work, NEW ok \in BOOLEAN, Report(w, ok)
      PROVE  /\ work' \subseteq work
             /\ results' \subseteq Outcome
             /\ \A r \in results' : r.task \in DOMAIN tasks
  <2>1. w.task \in Nat /\ w.task \in DOMAIN tasks /\ w.live \in BOOLEAN
    BY <1>e DEF TypeOK
  <2>2. [task |-> w.task, ok |-> ok] \in Outcome
    BY <2>1 DEF Outcome
  <2> QED
    BY <1>e, <1>f, <2>1, <2>2 DEF Report, TypeOK
<1>10. ASSUME NEW i \in toAgent, Receive(i) PROVE TypeInv'
  <2> DEFINE g == [task |-> i, phase |-> "prepare", live |-> TRUE]
  <2>1. i \in DOMAIN tasks /\ i \in Nat
    BY <1>e DEF TypeOK
  <2>2. g \in [task : Nat, phase : {"prepare", "apply"}, live : BOOLEAN]
    BY <2>1
  <2>3. work' = work \cup {g} /\ toAgent' \subseteq toAgent
    BY <1>10 DEF Receive
  <2>4. RefInv'
    BY <1>10, <1>d, <1>e, <2>1, <2>3 DEF Receive, managerDisk, managerRun
  <2> QED
    BY <1>10, <2>2, <2>3, <2>4 DEF Receive, TypeOK, managerDisk, managerRun
<1>11. ASSUME NEW w \in work, Prepare(w) PROVE TypeInv'
  <2> DEFINE i == w.task
             g == [w EXCEPT !.phase = "apply"]
  <2>1. i \in 1..Len(tasks) /\ tasks[i] \in TaskRow
    BY <1>a, <1>e
  <2>2. tasks[i].node \in Nodes /\ tasks[i].ver \in Nat
        /\ tasks[i].type \in {"create", "update", "delete", "enable", "disable"}
    BY <1>11, <2>1, ConstantsAssumption DEF TaskRow, Prepare, Direct
  <2>3. nodesFile \in [Nodes -> LocalNode] /\ nodesFile[tasks[i].node] \in LocalNode
    BY <2>2 DEF TypeOK
  <2>4. Changed(i) \in [Nodes -> LocalNode]
    BY <2>2, <2>3 DEF Changed, LocalNode, Absent
  <2>5. cand' \in [exists : BOOLEAN, nodes : [Nodes -> LocalNode]]
    BY <1>11, <2>4 DEF Prepare
  <2>6. w \in [task : Nat, phase : {"prepare", "apply"}, live : BOOLEAN]
    BY DEF TypeOK
  <2>7. g \in [task : Nat, phase : {"prepare", "apply"}, live : BOOLEAN] /\ g.task = i
    BY <2>6
  <2>8. work' = (work \ {w}) \cup {g}
    BY <1>11 DEF Prepare
  <2>9. RefInv'
    BY <1>11, <1>d, <1>e, <2>7, <2>8 DEF Prepare, managerDisk, managerRun, network
  <2> QED
    BY <1>11, <2>5, <2>7, <2>8, <2>9 DEF Prepare, TypeOK, managerDisk, managerRun, network
<1>24. ASSUME NEW w \in work, Execute(w) PROVE TypeInv'
  <2>1. /\ work' \subseteq work /\ results' \subseteq Outcome
        /\ \A r \in results' : r.task \in DOMAIN tasks
    BY <1>24, <1>f DEF Execute
  <2>2. tasks[w.task] \in TaskRow
    BY <1>a, <1>e
  <2>3. tasks[w.task].node \in Nodes /\ tasks[w.task].ver \in Nat
    BY <2>2 DEF TaskRow
  <2>4. held' \in [Nodes -> Nat]
    BY <1>24, <2>3 DEF Execute, Stored, TypeOK
  <2>5. RefInv'
    BY <1>24, <1>d, <1>e, <2>1 DEF Execute, managerDisk, managerRun
  <2> QED
    BY <1>24, <2>1, <2>4, <2>5 DEF Execute, TypeOK, managerDisk, managerRun
<1>12. ASSUME NEW w \in work, Refuse(w) PROVE TypeInv'
  <2>1. /\ work' \subseteq work /\ results' \subseteq Outcome
        /\ \A r \in results' : r.task \in DOMAIN tasks
    BY <1>12, <1>f DEF Refuse
  <2>2. RefInv'
    BY <1>12, <1>d, <1>e, <2>1 DEF Refuse, managerDisk, managerRun
  <2> QED
    BY <1>12, <2>1, <2>2 DEF Refuse, TypeOK, managerDisk, managerRun
<1>13. ASSUME NEW w \in work, Apply(w) PROVE TypeInv'
  <2>1. /\ work' \subseteq work /\ results' \subseteq Outcome
        /\ \A r \in results' : r.task \in DOMAIN tasks
    BY <1>13, <1>f DEF Apply
  <2>2. RefInv'
    BY <1>13, <1>d, <1>e, <2>1 DEF Apply, managerDisk, managerRun
  <2> QED
    BY <1>13, <2>1, <2>2, Constants DEF Apply, TypeOK, managerDisk, managerRun
<1>14. ASSUME NEW w \in work, ApplyFails(w) PROVE TypeInv'
  <2>1. /\ work' \subseteq work /\ results' \subseteq Outcome
        /\ \A r \in results' : r.task \in DOMAIN tasks
    BY <1>14, <1>f DEF ApplyFails
  <2>2. RefInv'
    BY <1>14, <1>d, <1>e, <2>1 DEF ApplyFails, managerDisk, managerRun
  <2> QED
    BY <1>14, <2>1, <2>2, Constants DEF ApplyFails, TypeOK, managerDisk, managerRun
<1>15. ASSUME NEW r \in results, TakeResult(r) PROVE TypeInv'
  <2>1. r.task \in DOMAIN tasks /\ r \in Outcome /\ Verdict(r.ok) \in Final
    BY <1>e DEF TypeOK, Verdict, Final
  <2>2. tasks' = Finished(r.task, Verdict(r.ok)) /\ reader' = r
    BY <1>15 DEF TakeResult
  <2>3. tasks' \in Seq(TaskRow) /\ DOMAIN tasks' = DOMAIN tasks
    BY <1>a, <2>1, <2>2, FinishedType
  <2>4. RefInv'
    BY <1>15, <2>1, <2>2, <2>3 DEF TakeResult, RefInv, agent
  <2> QED
    BY <1>15, <2>1, <2>2, <2>3, <2>4 DEF TakeResult, TypeOK, agent
<1>16. ASSUME ResultCallback PROVE TypeInv'
  <2>1. reader.task \in DOMAIN tasks /\ reader.ok \in BOOLEAN
    BY <1>16 DEF ResultCallback, RefInv, TypeOK, Outcome
  <2>2. row' \in [Nodes -> Statuses]
    BY <1>16, <2>1, ConvergedType DEF ResultCallback
  <2>3. RefInv'
    BY <1>16, <1>d, <1>e DEF ResultCallback, network, agent
  <2> QED
    BY <1>16, <2>2, <2>3, Constants DEF ResultCallback, TypeOK, network, agent
<1>17. ASSUME SweepSelect PROVE TypeInv'
  <2>1. sweep' \subseteq DOMAIN tasks /\ sweep' \subseteq Nat
    BY <1>17, <1>a DEF SweepSelect, Expired
  <2>2. RefInv'
    BY <1>17, <1>d, <1>e, <2>1 DEF SweepSelect, managerDisk, network, agent
  <2> QED
    BY <1>17, <2>1, <2>2 DEF SweepSelect, TypeOK, managerDisk, network, agent
<1>18. ASSUME NEW i \in sweep, SweepMark(i) PROVE TypeInv'
  <2>1. i \in DOMAIN tasks /\ i \in Nat /\ "timeout" \in Final
    BY <1>e DEF TypeOK, Final
  <2>2. tasks' \in Seq(TaskRow) /\ DOMAIN tasks' = DOMAIN tasks
    BY <1>18, <1>a, <2>1, FinishedType DEF SweepMark
  <2>3. RefInv'
    BY <1>18, <2>1, <2>2 DEF SweepMark, RefInv, network, agent
  <2> QED
    BY <1>18, <2>1, <2>2, <2>3 DEF SweepMark, TypeOK, network, agent
<1>19. ASSUME SweepCallback PROVE TypeInv'
  <2>1. row' \in [Nodes -> Statuses]
    BY <1>19, <1>e, ConvergedType DEF SweepCallback
  <2>2. RefInv'
    BY <1>19, <1>d, <1>e DEF SweepCallback, network, agent
  <2> QED
    BY <1>19, <2>1, <2>2 DEF SweepCallback, TypeOK, network, agent
<1>26. ASSUME CallbackFails PROVE TypeInv'
  <2>1. used.left + 1 \in 0..MaxFaults
    BY <1>26, <1>u, CountsUpdate, ConstantsAssumption DEF CallbackFails, MayFail
  <2>2. used' \in Counts
    BY <1>26, <2>1, <1>u, CountsUpdate DEF CallbackFails
  <2>3. RefInv'
    BY <1>26, <1>d, <1>e DEF CallbackFails, managerDisk, network, agent
  <2>4. /\ reader' = reader \/ reader' = NoOutcome
        /\ swept' = swept \/ swept' = 0
        /\ UNCHANGED <<managerDisk, req, sweep, network, agent>>
    BY <1>26 DEF CallbackFails
  <2>5. reader' \in Outcome /\ swept' \in Nat
    BY <2>4, Constants DEF TypeOK
  <2> QED
    BY <2>2, <2>3, <2>4, <2>5 DEF TypeOK, Counts, managerDisk, network, agent
<1>g. /\ Orphaned \subseteq [task : Nat, phase : {"prepare", "apply"}, live : BOOLEAN]
      /\ \A w \in Orphaned : w.task \in DOMAIN tasks
  <2>1. \A w \in work : /\ [w EXCEPT !.live = FALSE] \in
                             [task : Nat, phase : {"prepare", "apply"}, live : BOOLEAN]
                        /\ [w EXCEPT !.live = FALSE].task = w.task
    BY ZenonT(40) DEF TypeOK
  <2> QED
    BY <1>e, <2>1 DEF Orphaned
<1>20. ASSUME Connect \/ Notice PROVE TypeInv'
  <2>1. RefInv'
    BY <1>20, <1>d, <1>e DEF Connect, Notice, managerDisk, managerRun, agent
  <2> QED
    BY <1>20, <2>1 DEF Connect, Notice, TypeOK, managerDisk, managerRun, agent
<1>21. ASSUME Disconnect \/ AgentCrash PROVE TypeInv'
  <2>1. MayFail
    BY <1>21 DEF Disconnect, AgentCrash
  <2>2. used.link + 1 \in 0..MaxFaults
    BY <2>1, <1>u, CountsUpdate, ConstantsAssumption DEF MayFail
  <2>3. used' \in Counts
    BY <1>21, <2>2, <1>u, CountsUpdate DEF Disconnect, AgentCrash
  <2>4. RefInv'
    BY <1>21, <1>d, <1>e, <1>g DEF Disconnect, AgentCrash, managerDisk, managerRun
  <2> QED
    BY <1>21, <1>g, <2>3, <2>4 DEF Disconnect, AgentCrash, TypeOK, Counts, managerDisk, managerRun
<1>22. ASSUME ManagerCrash PROVE TypeInv'
  <2>1. MayFail
    BY <1>22 DEF ManagerCrash
  <2>2. used.manager + 1 \in 0..MaxFaults
    BY <2>1, <1>u, CountsUpdate, ConstantsAssumption DEF MayFail
  <2>3. used' \in Counts
    BY <1>22, <2>2, <1>u, CountsUpdate DEF ManagerCrash
  <2>4. RefInv'
    BY <1>22, <1>g, Constants DEF ManagerCrash, RefInv, managerDisk
  <2> QED
    BY <1>22, <1>g, <2>3, <2>4, Constants DEF ManagerCrash, TypeOK, Counts, managerDisk
<1>23. CASE UNCHANGED vars
  BY <1>23 DEF vars, managerDisk, managerRun, network, agent, TypeOK, RefInv
<1> QED
  BY <1>1, <1>2, <1>3, <1>4, <1>5, <1>6, <1>7, <1>8, <1>9, <1>10, <1>11, <1>12, <1>13,
     <1>14, <1>15, <1>16, <1>17, <1>18, <1>19, <1>20, <1>21, <1>22, <1>23,
     <1>24, <1>25, <1>26 DEF Next, Proceed, AgentStep, ManagerStep

\* Every status a row or a task ever has is one of the state machine's, and every
\* message, callback and goroutine is about a task that exists.
LEMMA Types == Spec => []TypeInv
<1> QED
  BY TypeInit, TypeStep, PTL DEF Spec

\* Whatever crashes, times out or arrives late, the statuses of rows and tasks stay
\* within those the Manager's state machine has.
THEOREM TypeCorrect == Spec => []TypeOK
<1>1. TypeInv => TypeOK
  BY DEF TypeInv
<1> QED
  BY <1>1, Types, PTL

-----------------------------------------------------------------------------
(***************************************************************************)
(* A task's verdict is final.                                              *)
(***************************************************************************)
LEMMA FinishedKeeps ==
  ASSUME tasks \in Seq(TaskRow), NEW i \in DOMAIN tasks, NEW s \in Final
  PROVE  \A j \in DOMAIN tasks :
           /\ Finished(i, s)[j].node = tasks[j].node /\ Finished(i, s)[j].type = tasks[j].type
           /\ j # i \/ ~Open(j) => Finished(i, s)[j] = tasks[j]
<1>1. DOMAIN tasks = 1..Len(tasks) /\ tasks[i] \in TaskRow
  OBVIOUS
<1>2. CASE ~Open(i)
  BY <1>2 DEF Finished
<1>3. CASE Open(i)
  <2>1. Finished(i, s) = [tasks EXCEPT ![i] = [tasks[i] EXCEPT !.status = s]]
    BY <1>3 DEF Finished
  <2>2. [tasks[i] EXCEPT !.status = s].node = tasks[i].node
        /\ [tasks[i] EXCEPT !.status = s].type = tasks[i].type
    BY <1>1 DEF TaskRow
  <2> QED
    BY <1>1, <1>3, <2>1, <2>2
<1> QED
  BY <1>2, <1>3

\* What MarkSent makes of the table.
LEMMA SentKeeps ==
  ASSUME tasks \in Seq(TaskRow), NEW h \in Handlers, MarkSent(h),
         req[h].task \in DOMAIN tasks
  PROVE  /\ DOMAIN tasks' = DOMAIN tasks
         /\ \A j \in DOMAIN tasks :
              /\ tasks'[j].node = tasks[j].node /\ tasks'[j].type = tasks[j].type
              /\ Open(j) => Open(j)'
              /\ ~Open(j) => tasks'[j] = tasks[j]
<1> DEFINE i == req[h].task
<1>1. DOMAIN tasks = 1..Len(tasks) /\ tasks[i] \in TaskRow
  OBVIOUS
<1>2. CASE tasks[i].status # "pending"
  BY <1>2 DEF MarkSent, Open
<1>3. CASE tasks[i].status = "pending"
  <2> DEFINE t == [tasks[i] EXCEPT !.status = "sent"]
  <2>1. tasks' = [tasks EXCEPT ![i] = t]
    BY <1>3 DEF MarkSent
  <2>2. t.node = tasks[i].node /\ t.type = tasks[i].type /\ t.status = "sent"
    BY <1>1 DEF TaskRow
  <2>3. Open(i)
    BY <1>3 DEF Open, Unfinished
  <2> HIDE DEF t
  <2> QED
    BY <1>1, <2>1, <2>2, <2>3 DEF Open, Unfinished
<1> QED
  BY <1>2, <1>3

LEMMA FinalStep == TypeInv /\ [Next]_vars =>
  \A i \in DOMAIN tasks : ~Open(i) => tasks'[i] = tasks[i]
<1> SUFFICES ASSUME TypeInv, [Next]_vars, NEW j \in DOMAIN tasks, ~Open(j)
             PROVE  tasks'[j] = tasks[j]
  OBVIOUS
<1>a. tasks \in Seq(TaskRow) /\ DOMAIN tasks = 1..Len(tasks) /\ Len(tasks) \in Nat
  BY DEF TypeInv, TypeOK
<1>1. ASSUME NEW h \in Handlers, InsertTask(h) PROVE tasks'[j] = tasks[j]
  <2> DEFINE t == [node |-> req[h].node, type |-> req[h].op, ver |-> req[h].ver,
                   status |-> "pending", alone |-> Alone(h)]
  <2>1. tasks' = Append(tasks, t)
    BY <1>1 DEF InsertTask
  <2> HIDE DEF t
  <2> QED
    BY <1>a, <2>1
<1>2. ASSUME NEW h \in Handlers, MarkSent(h) PROVE tasks'[j] = tasks[j]
  <2>1. req[h].task \in DOMAIN tasks
    BY <1>2 DEF MarkSent, TypeInv, RefInv
  <2> QED
    BY <1>2, <1>a, <2>1, SentKeeps
<1>3. ASSUME NEW r \in results, TakeResult(r) PROVE tasks'[j] = tasks[j]
  <2>1. r.task \in DOMAIN tasks /\ Verdict(r.ok) \in Final
    BY DEF TypeInv, RefInv, Verdict, Final
  <2> QED
    BY <1>3, <1>a, <2>1, FinishedKeeps DEF TakeResult
<1>4. ASSUME NEW i \in sweep, SweepMark(i) PROVE tasks'[j] = tasks[j]
  <2>1. i \in DOMAIN tasks /\ "timeout" \in Final
    BY DEF TypeInv, RefInv, Final
  <2> QED
    BY <1>4, <1>a, <2>1, FinishedKeeps DEF SweepMark
<1>5. CASE UNCHANGED tasks
  BY <1>5
<1>6. ASSUME [Next]_vars, tasks' # tasks
      PROVE  \/ \E h \in Handlers : InsertTask(h) \/ MarkSent(h)
             \/ \E r \in results : TakeResult(r)
             \/ \E i \in sweep : SweepMark(i)
  BY <1>6 DEF Next, Proceed, AgentStep, ManagerStep, CreateRow, ReadRow, MarkUpdate, MarkLimit,
     LimitRecorded, MarkDelete, MarkToggle, InsertFails, Send, SendOffline, Receive, Prepare,
     Execute, Refuse, Apply, ApplyFails, ResultCallback, CallbackFails, SweepSelect,
     SweepCallback, Connect, Disconnect, Notice, AgentCrash, ManagerCrash, vars, managerDisk,
     RowCreated, RowUpdated
<1> QED
  BY <1>1, <1>2, <1>3, <1>4, <1>5, <1>6

\* A result that comes after the timeout, a timeout that races the result and a
\* MarkSent that is later than both never change a task that has its verdict.
THEOREM FinalStaysHolds == Spec => FinalStays
<1>1. TypeInv /\ [Next]_vars => [\A i \in DOMAIN tasks : ~Open(i) => tasks'[i] = tasks[i]]_vars
  BY FinalStep
<1> QED
  BY <1>1, Types, PTL DEF Spec, FinalStays

-----------------------------------------------------------------------------
(***************************************************************************)
(* No node is left in a transient status by requests, results and timeouts *)
(* that overlap.  TransientOwned is inductive on top of the types: each    *)
(* step that takes an operation from one stage to the next keeps it under  *)
(* way, and the callback that ends it moves the row on.                    *)
(***************************************************************************)

\* What a callback leaves transient it did not touch, and was not the one to end.
LEMMA ConvergedEnds ==
  ASSUME TypeOK, NEW i \in DOMAIN tasks, NEW ok \in BOOLEAN, NEW n \in Nodes,
         Converged(i, ok)[n] \in Transient
  PROVE  /\ Converged(i, ok)[n] = row[n]
         /\ tasks[i].node = n => tasks[i].type \notin Ends(row[n])
<1>1. tasks[i].node \in Nodes /\ tasks[i].type \in Ops /\ row \in [Nodes -> Statuses]
  <2>1. tasks \in Seq(TaskRow) /\ i \in 1..Len(tasks)
    BY DEF TypeOK
  <2>2. tasks[i] \in TaskRow
    BY <2>1
  <2> QED
    BY <2>2 DEF TaskRow, TypeOK
<1>2. CASE tasks[i].node # n
  BY <1>1, <1>2 DEF Converged, AfterCreate, AfterDelete, Moved
<1>3. CASE tasks[i].node = n /\ tasks[i].type = "create"
  BY <1>1, <1>3 DEF Converged, AfterCreate, Moved, Ends, Transient, Exists
<1>4. CASE tasks[i].node = n /\ tasks[i].type = "delete"
  BY <1>1, <1>4 DEF Converged, AfterDelete, Moved, Ends, Transient, Exists
<1>5. CASE tasks[i].node = n /\ tasks[i].type \in {"update", "enable", "disable"}
  BY <1>1, <1>5 DEF Converged, Moved, Ends, Transient
<1>6. CASE tasks[i].node = n /\ tasks[i].type \in {"limit", "restart"}
  BY <1>1, <1>6 DEF Converged, Ends
<1> QED
  BY <1>1, <1>2, <1>3, <1>4, <1>5, <1>6, ConstantsAssumption

\* The part of an operation's life in the table tasks.
InTable(n, types) ==
  \E i \in DOMAIN tasks :
    /\ tasks[i].node = n /\ tasks[i].type \in types
    /\ Open(i) \/ swept = i \/ reader.task = i

\* What leaves a status behind is a failure of the Manager, and is never forgotten.
LEMMA FailureStays ==
  ASSUME TypeInv, [Next]_vars, ~ManagerFailed'
  PROVE  /\ ~ManagerFailed /\ ~ManagerCrash /\ ~CallbackFails
         /\ \A h \in Handlers : InsertFails(h) => req[h].op \in {"create", "update"}
<1>1. used \in Counts /\ used.undone \in Nat /\ used.left \in Nat /\ used.manager \in Nat
  BY CountsUpdate DEF TypeInv, TypeOK, Counts
<1>2. ~ManagerCrash
  <2> SUFFICES ASSUME ManagerCrash PROVE ManagerFailed'
    OBVIOUS
  <2>1. used'.left = used.left /\ used'.manager = used.manager + 1
    BY <1>1 DEF ManagerCrash, Counts
  <2> QED
    BY <1>1, <2>1 DEF ManagerFailed
<1>3. ~CallbackFails
  <2> SUFFICES ASSUME CallbackFails PROVE ManagerFailed'
    OBVIOUS
  <2>1. used'.left = used.left + 1 /\ used'.manager = used.manager
    BY <1>1 DEF CallbackFails, Counts
  <2> QED
    BY <1>1, <2>1 DEF ManagerFailed
<1>4. ASSUME NEW h \in Handlers, InsertFails(h), req[h].op \notin {"create", "update"}
      PROVE  FALSE
  <2>1. used'.left = used.left + 1 /\ used'.manager = used.manager
    BY <1>1, <1>4 DEF InsertFails, Counts
  <2> QED
    BY <1>1, <2>1 DEF ManagerFailed
<1>5. \/ used' = used \/ used' = [used EXCEPT !.link = @ + 1]
      \/ used' = [used EXCEPT !.undone = @ + 1]
  BY <1>2, <1>3, <1>4 DEF Next, Proceed, AgentStep, ManagerStep, CreateRow, ReadRow, MarkUpdate,
     MarkDelete, MarkToggle, MarkLimit, InsertTask, InsertFails, Send, SendOffline, MarkSent,
     Receive, Prepare, Execute, Refuse, Apply, ApplyFails, TakeResult, ResultCallback,
     SweepSelect, SweepMark, SweepCallback, Connect, Disconnect, Notice, AgentCrash, vars,
     RowCreated, RowUpdated
<1>6. used'.left = used.left /\ used'.manager = used.manager
  BY <1>1, <1>5 DEF Counts
<1> QED
  BY <1>2, <1>3, <1>4, <1>6 DEF ManagerFailed

LEMMA OwnedStep == TypeInv /\ TransientOwned /\ [Next]_vars => TransientOwned'
<1> SUFFICES ASSUME TypeInv, TransientOwned, [Next]_vars, ~ManagerFailed', NEW n \in Nodes,
                    NEW status \in Transient, row'[n] = status
             PROVE  UnderWay(n, Ends(status))'
  BY DEF TransientOwned
<1>s. ~ManagerFailed
  BY FailureStays
<1>T. PICK T : T = Ends(status)
  OBVIOUS
<1>a. /\ tasks \in Seq(TaskRow) /\ DOMAIN tasks = 1..Len(tasks) /\ Len(tasks) \in Nat
      /\ req \in [Handlers -> Request] /\ row \in [Nodes -> Statuses]
      /\ TypeOK
  BY DEF TypeInv, TypeOK
<1>b. row'[n] = row[n] => \/ InTable(n, T)
                          \/ \E h \in Handlers : /\ req[h].pc = "insert"
                                                 /\ req[h].node = n /\ req[h].op \in T
  BY <1>s, <1>T DEF TransientOwned, UnderWay, InTable
<1>c. SUFFICES \/ InTable(n, T)'
               \/ \E h \in Handlers : /\ req'[h].pc = "insert"
                                      /\ req'[h].node = n /\ req'[h].op \in T
  BY <1>T DEF UnderWay, InTable
\* A request that is not at "insert" can change without an owner being lost.
<1>d. ASSUME NEW h \in Handlers, NEW r, req' = [req EXCEPT ![h] = r],
             req[h].pc # "insert", row'[n] = row[n],
             InTable(n, T) => InTable(n, T)'
      PROVE  \/ InTable(n, T)'
             \/ \E g \in Handlers : /\ req'[g].pc = "insert"
                                    /\ req'[g].node = n /\ req'[g].op \in T
  BY <1>a, <1>b, <1>d
<1>e. ASSUME UNCHANGED <<tasks, reader, swept>> PROVE InTable(n, T) <=> InTable(n, T)'
  BY <1>e DEF InTable, Open
<1>f. ASSUME row'[n] = row[n], req' = req, InTable(n, T) => InTable(n, T)'
      PROVE  \/ InTable(n, T)'
             \/ \E g \in Handlers : /\ req'[g].pc = "insert"
                                    /\ req'[g].node = n /\ req'[g].op \in T
  BY <1>b, <1>f
<1>1. ASSUME NEW h \in Handlers, NEW m \in Nodes, CreateRow(h, m)
      PROVE  \/ InTable(n, T)'
             \/ \E g \in Handlers : /\ req'[g].pc = "insert"
                                    /\ req'[g].node = n /\ req'[g].op \in T
  <2> DEFINE r == [Idle EXCEPT !.pc = "insert", !.op = "create", !.node = m, !.ver = 1]
  <2>1. req' = [req EXCEPT ![h] = r] /\ req[h].pc = "idle"
        /\ UNCHANGED <<tasks, reader, swept>>
    BY <1>1 DEF CreateRow, Serve, RowCreated
  <2>2. CASE n # m
    <3>1. row'[n] = row[n]
      BY <1>1, <1>a, <2>2 DEF CreateRow, RowCreated
    <3> QED
      BY <1>d, <1>e, <2>1, <3>1
  <2>3. CASE n = m
    <3>1. r.pc = "insert" /\ r.node = n /\ r.op = "create"
      BY <2>3, Constants DEF Request
    <3>2. "create" \in T
      BY <1>1, <1>a, <1>T, <2>3 DEF CreateRow, Ends, RowCreated
    <3>3. req'[h] = r
      BY <1>a, <2>1
    <3> QED
      BY <3>1, <3>2, <3>3
  <2> QED
    BY <2>2, <2>3
<1>2. ASSUME NEW h \in Handlers, NEW m \in Nodes, NEW op \in Ops, ReadRow(h, m, op)
      PROVE  \/ InTable(n, T)'
             \/ \E g \in Handlers : /\ req'[g].pc = "insert"
                                    /\ req'[g].node = n /\ req'[g].op \in T
  <2> DEFINE r == [Idle EXCEPT !.pc = "read", !.op = op, !.node = m, !.seen = row[m]]
  <2>1. req' = [req EXCEPT ![h] = r] /\ req[h].pc = "idle"
        /\ UNCHANGED <<row, tasks, reader, swept>>
    BY <1>2 DEF ReadRow, Serve, managerDisk
  <2> QED
    BY <1>d, <1>e, <2>1
\* Update, delete, enable and disable mark the row and are then about to insert.
<1>3. ASSUME NEW h \in Handlers, MarkUpdate(h) \/ MarkDelete(h) \/ MarkToggle(h)
      PROVE  \/ InTable(n, T)'
             \/ \E g \in Handlers : /\ req'[g].pc = "insert"
                                    /\ req'[g].node = n /\ req'[g].op \in T
  <2>1. req[h] \in Request /\ req[h].pc = "read" /\ UNCHANGED <<tasks, reader, swept>>
    BY <1>3, <1>a DEF MarkUpdate, MarkDelete, MarkToggle, RowUpdated
  <2>2. PICK r : req' = [req EXCEPT ![h] = r]
    BY <1>3 DEF MarkUpdate, MarkDelete, MarkToggle, Serve, RowUpdated
  <2>3. CASE row'[n] = row[n]
    BY <1>d, <1>e, <2>1, <2>2, <2>3
  <2>4. CASE row'[n] # row[n]
    <3>1. /\ req'[h].pc = "insert" /\ req'[h].node = req[h].node /\ req'[h].op = req[h].op
          /\ n = req[h].node
      <4>1. CASE MarkUpdate(h)
        <5>1. Exists(req[h].node)
          BY <2>4, <4>1 DEF MarkUpdate, RowUpdated
        <5>2. PICK v : req' = [req EXCEPT ![h] = [req[h] EXCEPT !.pc = "insert", !.ver = v]]
          BY <4>1, <5>1 DEF MarkUpdate, Serve, RowUpdated
        <5>3. req'[h] = [req[h] EXCEPT !.pc = "insert", !.ver = v]
          BY <1>a, <5>2
        <5>4. row' = [row EXCEPT ![req[h].node] = "update_pending"]
          BY <4>1, <5>1 DEF MarkUpdate, RowUpdated
        <5> QED
          BY <1>a, <2>1, <2>4, <5>3, <5>4 DEF Request
      <4>2. CASE MarkDelete(h) \/ MarkToggle(h)
        <5>1. /\ req' = [req EXCEPT ![h] = [req[h] EXCEPT !.pc = "insert"]]
              /\ n = req[h].node
          BY <1>a, <2>4, <4>2 DEF MarkDelete, MarkToggle, Moved, Serve
        <5>2. req'[h] = [req[h] EXCEPT !.pc = "insert"]
          BY <1>a, <5>1
        <5> QED
          BY <2>1, <5>1, <5>2 DEF Request
      <4> QED
        BY <1>3, <4>1, <4>2
    <3>2. req[h].op \in T
      BY <1>3, <1>a, <1>T, <2>4, <3>1 DEF MarkUpdate, MarkDelete, MarkToggle, Moved, Ends,
         Transient, RowUpdated
    <3> QED
      BY <3>1, <3>2
  <2> QED
    BY <2>3, <2>4
\* Asking for a limit marks no row.
<1>15. ASSUME NEW h \in Handlers, MarkLimit(h)
       PROVE  \/ InTable(n, T)'
              \/ \E g \in Handlers : /\ req'[g].pc = "insert"
                                     /\ req'[g].node = n /\ req'[g].op \in T
  <2>1. req[h].pc = "read" /\ UNCHANGED <<row, tasks, reader, swept>>
    BY <1>15 DEF MarkLimit
  <2>2. PICK r : req' = [req EXCEPT ![h] = r]
    BY <1>15 DEF MarkLimit, Serve
  <2> QED
    BY <1>d, <1>e, <2>1, <2>2
<1>4. ASSUME NEW h \in Handlers, InsertTask(h)
      PROVE  \/ InTable(n, T)'
             \/ \E g \in Handlers : /\ req'[g].pc = "insert"
                                    /\ req'[g].node = n /\ req'[g].op \in T
  <2> DEFINE t == [node |-> req[h].node, type |-> req[h].op, ver |-> req[h].ver,
                   status |-> "pending", alone |-> Alone(h)]
             k == Len(tasks) + 1
  <2>1. /\ tasks' = Append(tasks, t) /\ UNCHANGED <<row, reader, swept>>
        /\ \A g \in Handlers : g # h => req'[g] = req[g]
    BY <1>4, <1>a DEF InsertTask, Serve
  <2>2. t.node = req[h].node /\ t.type = req[h].op /\ t.status = "pending"
    OBVIOUS
  <2> HIDE DEF t
  <2>3. /\ DOMAIN tasks' = 1..k /\ tasks'[k] = t
        /\ \A i \in DOMAIN tasks : i \in 1..k /\ tasks'[i] = tasks[i]
    BY <1>a, <2>1
  <2>4. k \in 1..k
    BY <1>a
  <2> HIDE DEF k
  <2>5. CASE req[h].node = n /\ req[h].op \in T
    BY <2>2, <2>3, <2>4, <2>5 DEF InTable, Open, Unfinished
  <2>6. CASE ~(req[h].node = n /\ req[h].op \in T)
    <3>1. InTable(n, T) => InTable(n, T)'
      BY <2>1, <2>3 DEF InTable, Open
    <3> QED
      BY <1>b, <2>1, <2>6, <3>1
  <2> QED
    BY <2>5, <2>6
\* An INSERT that fails ends the status its handler had set.
<1>5. ASSUME NEW h \in Handlers, InsertFails(h)
      PROVE  \/ InTable(n, T)'
             \/ \E g \in Handlers : /\ req'[g].pc = "insert"
                                    /\ req'[g].node = n /\ req'[g].op \in T
  <2>1. /\ UNCHANGED <<tasks, reader, swept>> /\ req[h].op \in {"create", "update"}
        /\ req[h].node \in Nodes /\ \A g \in Handlers : g # h => req'[g] = req[g]
    BY <1>5, <1>a, FailureStays DEF InsertFails, Serve, Request
  <2>2. \/ row' = Moved(req[h].node, "provisioning", "create_failed") /\ req[h].op = "create"
        \/ row' = Moved(req[h].node, "update_pending", "config_error") /\ req[h].op = "update"
    BY <1>5, <2>1 DEF InsertFails
  <2>3. row'[n] = row[n]
    BY <1>a, <2>1, <2>2 DEF Moved, Transient
  <2>4. req[h].node = n => req[h].op \notin T
    BY <1>a, <1>T, <2>1, <2>2, <2>3 DEF Moved, Transient, Ends
  <2> QED
    BY <1>b, <1>e, <2>1, <2>3, <2>4
<1>6. ASSUME NEW h \in Handlers, Send(h) \/ SendOffline(h)
      PROVE  \/ InTable(n, T)'
             \/ \E g \in Handlers : /\ req'[g].pc = "insert"
                                    /\ req'[g].node = n /\ req'[g].op \in T
  <2>1. req[h].pc = "send" /\ UNCHANGED <<row, tasks, reader, swept>>
    BY <1>6 DEF Send, SendOffline, managerDisk
  <2>2. PICK r : req' = [req EXCEPT ![h] = r]
    BY <1>6 DEF Send, SendOffline, Serve
  <2> QED
    BY <1>d, <1>e, <2>1, <2>2
<1>7. ASSUME NEW h \in Handlers, MarkSent(h)
      PROVE  \/ InTable(n, T)'
             \/ \E g \in Handlers : /\ req'[g].pc = "insert"
                                    /\ req'[g].node = n /\ req'[g].op \in T
  <2>1. /\ req[h].pc = "mark" /\ UNCHANGED <<row, reader, swept>>
        /\ req' = [req EXCEPT ![h] = Idle] /\ req[h].task \in DOMAIN tasks
    BY <1>7 DEF MarkSent, Serve, TypeInv, RefInv
  <2>2. InTable(n, T) => InTable(n, T)'
    BY <1>7, <1>a, <2>1, SentKeeps DEF InTable
  <2> QED
    BY <1>d, <2>1, <2>2
<1>8. ASSUME AgentStep \/ Connect \/ Disconnect \/ Notice \/ AgentCrash \/ UNCHANGED vars
      PROVE  \/ InTable(n, T)'
             \/ \E g \in Handlers : /\ req'[g].pc = "insert"
                                    /\ req'[g].node = n /\ req'[g].op \in T
  <2>1. UNCHANGED <<row, req, tasks, reader, swept>>
    BY <1>8 DEF AgentStep, Receive, Prepare, Execute, Refuse, Apply, ApplyFails, Connect,
       Disconnect, Notice, AgentCrash, vars, managerDisk, managerRun
  <2> QED
    BY <1>e, <1>f, <2>1
<1>9. ASSUME NEW r \in results, TakeResult(r)
      PROVE  \/ InTable(n, T)'
             \/ \E g \in Handlers : /\ req'[g].pc = "insert"
                                    /\ req'[g].node = n /\ req'[g].op \in T
  <2>1. r.task \in DOMAIN tasks /\ Verdict(r.ok) \in Final /\ r \in Outcome
    BY <1>a DEF TypeInv, RefInv, Verdict, Final, TypeOK
  <2>2. /\ tasks' = Finished(r.task, Verdict(r.ok)) /\ reader' = r
        /\ reader = NoOutcome /\ UNCHANGED <<row, req, swept>>
    BY <1>9 DEF TakeResult
  <2>3. reader.task \notin DOMAIN tasks
    BY <1>a, <2>2, Constants
  <2>4. DOMAIN tasks' = DOMAIN tasks
    BY <1>a, <2>1, <2>2, FinishedType
  <2>5. \A j \in DOMAIN tasks :
          /\ tasks'[j].node = tasks[j].node /\ tasks'[j].type = tasks[j].type
          /\ j = r.task \/ tasks'[j] = tasks[j]
    BY <1>a, <2>1, <2>2, FinishedKeeps
  <2>6. InTable(n, T) => InTable(n, T)'
    BY <2>2, <2>3, <2>4, <2>5 DEF InTable, Open
  <2> QED
    BY <1>f, <2>2, <2>6
<1>10. ASSUME ResultCallback
       PROVE  \/ InTable(n, T)'
              \/ \E g \in Handlers : /\ req'[g].pc = "insert"
                                     /\ req'[g].node = n /\ req'[g].op \in T
  <2>1. reader.task \in DOMAIN tasks /\ reader.ok \in BOOLEAN
    BY <1>10, <1>a DEF ResultCallback, TypeInv, RefInv, TypeOK, Outcome
  <2>2. row' = Converged(reader.task, reader.ok) /\ UNCHANGED <<req, tasks, swept>>
    BY <1>10 DEF ResultCallback
  <2>3. row'[n] = row[n] /\ (tasks[reader.task].node = n => tasks[reader.task].type \notin T)
    BY <1>a, <1>T, <2>1, <2>2, ConvergedEnds
  <2>4. InTable(n, T) => InTable(n, T)'
    BY <2>2, <2>3 DEF InTable, Open
  <2> QED
    BY <1>f, <2>2, <2>3, <2>4
<1>11. ASSUME SweepSelect
       PROVE  \/ InTable(n, T)'
              \/ \E g \in Handlers : /\ req'[g].pc = "insert"
                                     /\ req'[g].node = n /\ req'[g].op \in T
  BY <1>11, <1>e, <1>f DEF SweepSelect, managerDisk
<1>12. ASSUME NEW i \in sweep, SweepMark(i)
       PROVE  \/ InTable(n, T)'
              \/ \E g \in Handlers : /\ req'[g].pc = "insert"
                                     /\ req'[g].node = n /\ req'[g].op \in T
  <2>1. i \in DOMAIN tasks /\ "timeout" \in Final
    BY DEF TypeInv, RefInv, Final
  <2>2. /\ tasks' = Finished(i, "timeout") /\ swept = 0 /\ UNCHANGED <<row, req, reader>>
        /\ Open(i) => swept' = i
    BY <1>12 DEF SweepMark
  <2>3. swept \notin DOMAIN tasks
    BY <1>a, <2>2
  <2>4. InTable(n, T) => InTable(n, T)'
    BY <1>a, <2>1, <2>2, <2>3, FinishedType, FinishedKeeps DEF InTable, Open
  <2> QED
    BY <1>f, <2>2, <2>4
<1>13. ASSUME SweepCallback
       PROVE  \/ InTable(n, T)'
              \/ \E g \in Handlers : /\ req'[g].pc = "insert"
                                     /\ req'[g].node = n /\ req'[g].op \in T
  <2>1. swept \in DOMAIN tasks
    BY <1>13 DEF SweepCallback, TypeInv, RefInv
  <2>2. row' = Converged(swept, FALSE) /\ UNCHANGED <<req, tasks, reader>>
    BY <1>13 DEF SweepCallback
  <2>3. row'[n] = row[n] /\ (tasks[swept].node = n => tasks[swept].type \notin T)
    BY <1>a, <1>T, <2>1, <2>2, ConvergedEnds
  <2>4. InTable(n, T) => InTable(n, T)'
    BY <2>2, <2>3 DEF InTable, Open
  <2> QED
    BY <1>f, <2>2, <2>3, <2>4
<1>14. ASSUME ManagerCrash \/ CallbackFails PROVE FALSE
  BY <1>14, FailureStays
<1> QED
  BY <1>1, <1>2, <1>3, <1>4, <1>5, <1>6, <1>7, <1>8, <1>9, <1>10, <1>11, <1>12, <1>13,
     <1>14, <1>15 DEF Next, Proceed, ManagerStep

\* No overlap of requests, results, timeouts, lost connections and crashes of the
\* Agent, and no create or update whose task cannot be INSERTed, leaves a node
\* provisioning, update_pending or delete_pending with nothing to end it: only a crash
\* of the Manager, a failing statement of a callback and the INSERT of a delete, an
\* enable or a disable can.
THEOREM TransientOwnedHolds == Spec => []TransientOwned
<1>1. Init => TransientOwned
  BY DEF Init, TransientOwned, Transient
<1>2. TypeInv /\ TransientOwned /\ [Next]_vars => TransientOwned'
  BY OwnedStep
<1> QED
  BY <1>1, <1>2, Types, PTL DEF Spec

-----------------------------------------------------------------------------
(***************************************************************************)
(* Every task is carried out at most once: a task is with the handler that *)
(* sends it, on its way, in one goroutine, or on its way back, and nowhere *)
(* else; the Manager has not heard of it before.                           *)
(***************************************************************************)
Told == {"success", "failed"}   \* the verdicts the Agent gives

\* May the Agent yet carry out task i?
Ahead(i) ==
  \/ \E h \in Handlers : req[h].pc = "send" /\ req[h].task = i
  \/ i \in toAgent
  \/ \E w \in work : w.task = i

OnceInv ==
  /\ \A g, h \in Handlers :
       req[g].pc \in {"send", "mark"} /\ req[h].pc \in {"send", "mark"}
         /\ req[g].task = req[h].task => g = h
  /\ \A h \in Handlers : req[h].pc = "send" =>
       req[h].task \notin toAgent /\ \A w \in work : w.task # req[h].task
  /\ \A v, w \in work : v.task = w.task => v = w
  /\ \A w \in work : w.task \notin toAgent
  /\ \A i \in DOMAIN tasks : Ahead(i) =>
       tasks[i].status \notin Told /\ \A r \in results : r.task # i
  /\ \A q, r \in results : q.task = r.task => q = r
  /\ \A r \in results : tasks[r.task].status \notin Told

\* What a step makes of the table tasks: only a result gives a verdict.
LEMMA TasksGrow ==
  ASSUME TypeInv, [Next]_vars
  PROVE  /\ DOMAIN tasks \subseteq DOMAIN tasks'
         /\ \A i \in DOMAIN tasks :
              /\ tasks'[i].node = tasks[i].node /\ tasks'[i].type = tasks[i].type
              /\ tasks'[i].ver = tasks[i].ver /\ tasks'[i].alone = tasks[i].alone
              /\ tasks'[i].status \in Told =>
                   \/ tasks[i].status = tasks'[i].status
                   \/ \E r \in results : /\ TakeResult(r) /\ r.task = i
                                         /\ tasks'[i].status = Verdict(r.ok)
         /\ DOMAIN tasks' = DOMAIN tasks \/ \E h \in Handlers : InsertTask(h)
<1>a. tasks \in Seq(TaskRow) /\ DOMAIN tasks = 1..Len(tasks) /\ Len(tasks) \in Nat
      /\ \A i \in DOMAIN tasks : tasks[i] \in TaskRow
  BY DEF TypeInv, TypeOK
<1> DEFINE Touches(i, s) == tasks' = tasks \/ tasks' = [tasks EXCEPT ![i].status = s]
<1>b. ASSUME NEW i \in DOMAIN tasks, NEW s \in Final \cup {"sent"}, Touches(i, s)
      PROVE  /\ DOMAIN tasks' = DOMAIN tasks
             /\ \A j \in DOMAIN tasks :
                  /\ tasks'[j].node = tasks[j].node /\ tasks'[j].type = tasks[j].type
                  /\ tasks'[j].ver = tasks[j].ver /\ tasks'[j].alone = tasks[j].alone
                  /\ tasks'[j].status = tasks[j].status \/ (j = i /\ tasks'[j].status = s)
  BY SMTT(30), <1>a, <1>b DEF TaskRow
<1>1. ASSUME NEW h \in Handlers, InsertTask(h)
      PROVE  /\ DOMAIN tasks \subseteq DOMAIN tasks'
             /\ \A i \in DOMAIN tasks : tasks'[i] = tasks[i]
  <2> DEFINE t == [node |-> req[h].node, type |-> req[h].op, ver |-> req[h].ver,
                   status |-> "pending", alone |-> Alone(h)]
  <2>1. tasks' = Append(tasks, t)
    BY <1>1 DEF InsertTask
  <2> HIDE DEF t
  <2> QED BY <1>a, <2>1
<1>2. ASSUME NEW h \in Handlers, MarkSent(h)
      PROVE  req[h].task \in DOMAIN tasks
             /\ Touches(req[h].task, "sent")
  BY <1>2 DEF MarkSent, TypeInv, RefInv
<1>3. ASSUME NEW r \in results, TakeResult(r)
      PROVE  r.task \in DOMAIN tasks /\ Verdict(r.ok) \in Final
             /\ Touches(r.task, Verdict(r.ok))
  BY <1>3 DEF TakeResult, Finished, TypeInv, RefInv, Verdict, Final
<1>4. ASSUME NEW i \in sweep, SweepMark(i)
      PROVE  i \in DOMAIN tasks /\ Touches(i, "timeout")
  BY <1>4 DEF SweepMark, Finished, TypeInv, RefInv
<1>5. \/ tasks' = tasks
      \/ \E h \in Handlers : InsertTask(h) \/ MarkSent(h)
      \/ \E r \in results : TakeResult(r)
      \/ \E i \in sweep : SweepMark(i)
  BY DEF Next, Proceed, AgentStep, ManagerStep, CreateRow, ReadRow, MarkUpdate, MarkLimit,
     MarkDelete, MarkToggle, InsertFails, Send, SendOffline, Receive, Prepare, Execute, Refuse,
     Apply, ApplyFails, ResultCallback, CallbackFails, SweepSelect, SweepCallback, Connect,
     Disconnect, Notice, AgentCrash, ManagerCrash, vars, managerDisk
<1>6. "timeout" \in Final /\ "timeout" \notin Told /\ "sent" \notin Told
  BY DEF Final, Told
<1>7. CASE \E h \in Handlers : InsertTask(h)
  BY <1>1, <1>7
<1> HIDE DEF Touches
<1>8. CASE \E h \in Handlers : MarkSent(h)
  <2>1. PICK h \in Handlers : MarkSent(h)
    BY <1>8
  <2>2. /\ DOMAIN tasks' = DOMAIN tasks
        /\ \A j \in DOMAIN tasks :
             /\ tasks'[j].node = tasks[j].node /\ tasks'[j].type = tasks[j].type
             /\ tasks'[j].ver = tasks[j].ver /\ tasks'[j].alone = tasks[j].alone
             /\ tasks'[j].status = tasks[j].status \/ tasks'[j].status = "sent"
    BY <1>2, <1>b, <2>1
  <2> QED BY <1>6, <2>2
<1>9. CASE \E r \in results : TakeResult(r)
  <2>1. PICK r \in results : TakeResult(r)
    BY <1>9
  <2>2. /\ DOMAIN tasks' = DOMAIN tasks
        /\ \A j \in DOMAIN tasks :
             /\ tasks'[j].node = tasks[j].node /\ tasks'[j].type = tasks[j].type
             /\ tasks'[j].ver = tasks[j].ver /\ tasks'[j].alone = tasks[j].alone
             /\ tasks'[j].status = tasks[j].status
                  \/ (j = r.task /\ tasks'[j].status = Verdict(r.ok))
    BY <1>3, <1>b, <2>1
  <2> QED BY <2>1, <2>2
<1>10. CASE \E i \in sweep : SweepMark(i)
  <2>1. PICK i \in sweep : SweepMark(i)
    BY <1>10
  <2> QED BY <1>4, <1>6, <1>b, <2>1
<1> QED BY <1>5, <1>7, <1>8, <1>9, <1>10

\* No verdict without a result.
LEMMA NoVerdict ==
  ASSUME TypeInv, [Next]_vars, results' = results \/ tasks' = tasks
  PROVE  \A i \in DOMAIN tasks : tasks'[i].status \in Told => tasks[i].status = tasks'[i].status
<1>1. CASE results' = results
  <2>1. \A r \in results : ~TakeResult(r)
    BY <1>1 DEF TakeResult
  <2> QED BY <2>1, TasksGrow
<1> QED BY <1>1

\* A goroutine that has lost its connection is otherwise what it was.
LEMMA OrphanIs ==
  ASSUME TypeInv, NEW w \in Orphaned
  PROVE  \E v \in work : /\ v.task = w.task /\ v.phase = w.phase
                         /\ w = [v EXCEPT !.live = FALSE]
<1>1. PICK v \in work : w = [v EXCEPT !.live = FALSE]
  BY DEF Orphaned
<1>2. v \in [task : Nat, phase : {"prepare", "apply"}, live : BOOLEAN]
  BY DEF TypeInv, TypeOK
<1>3. w.task = v.task /\ w.phase = v.phase
  BY <1>1, <1>2
<1> QED BY <1>1, <1>3

\* Losing things, and moving on, doubles nothing.
LEMMA OnceLess ==
  ASSUME TypeInv, OnceInv, [Next]_vars, DOMAIN tasks' = DOMAIN tasks,
         results' = results \/ tasks' = tasks,
         \A h \in Handlers : req'[h] = req[h] \/ req'[h].pc \notin {"send", "mark"},
         toAgent' \subseteq toAgent, results' \subseteq results,
         \A w \in work' : \E v \in work : v.task = w.task,
         \A v, w \in work' : v.task = w.task => v = w
  PROVE  OnceInv'
<1>1. \A i \in DOMAIN tasks : tasks'[i].status \in Told => tasks[i].status \in Told
  BY NoVerdict
<1>2. \A r \in results : r.task \in DOMAIN tasks
  BY DEF TypeInv, RefInv
<1>3. ASSUME NEW i, Ahead(i)' PROVE Ahead(i)
  BY <1>3 DEF Ahead
<1>4. /\ \A g, h \in Handlers :
           req'[g].pc \in {"send", "mark"} /\ req'[h].pc \in {"send", "mark"}
             /\ req'[g].task = req'[h].task => g = h
      /\ \A h \in Handlers : req'[h].pc = "send" =>
           req'[h].task \notin toAgent' /\ \A w \in work' : w.task # req'[h].task
      /\ \A w \in work' : w.task \notin toAgent'
  BY DEF OnceInv
<1>5. \A i \in DOMAIN tasks' : Ahead(i)' =>
        tasks'[i].status \notin Told /\ \A r \in results' : r.task # i
  BY <1>1, <1>3 DEF OnceInv
<1>6. /\ \A q, r \in results' : q.task = r.task => q = r
      /\ \A r \in results' : tasks'[r.task].status \notin Told
  BY <1>1, <1>2 DEF OnceInv
<1> QED BY <1>4, <1>5, <1>6 DEF OnceInv

LEMMA OnceStep == TypeInv /\ OnceInv /\ [Next]_vars => OnceInv'
<1> SUFFICES ASSUME TypeInv, OnceInv, [Next]_vars PROVE OnceInv'
  OBVIOUS
<1> USE DEF Serve
<1>a. /\ req \in [Handlers -> Request] /\ DOMAIN tasks = 1..Len(tasks) /\ Len(tasks) \in Nat
      /\ tasks \in Seq(TaskRow)
      /\ \A w \in work : w \in [task : Nat, phase : {"prepare", "apply"}, live : BOOLEAN]
                         /\ w.task \in DOMAIN tasks
      /\ toAgent \subseteq DOMAIN tasks /\ \A r \in results : r.task \in DOMAIN tasks
      /\ \A h \in Handlers : req[h].pc \in {"send", "mark"} => req[h].task \in DOMAIN tasks
  BY DEF TypeInv, TypeOK, RefInv
<1>b. Idle.pc = "idle"
  BY Constants
\* Steps of a handler that sends nothing.
<1>1. ASSUME NEW h \in Handlers, req'[h].pc \notin {"send", "mark"},
             \A g \in Handlers \ {h} : req'[g] = req[g],
             UNCHANGED <<toAgent, work, results>>, DOMAIN tasks' = DOMAIN tasks
      PROVE  OnceInv'
  BY <1>a, <1>1, OnceLess DEF OnceInv
<1>2. ASSUME NEW h \in Handlers, NEW n \in Nodes,
             CreateRow(h, n) \/ \E op \in Ops : ReadRow(h, n, op)
      PROVE  OnceInv'
  <2>1. UNCHANGED <<tasks, toAgent, work, results>>
    BY <1>2 DEF CreateRow, ReadRow, managerDisk, network, agent
  <2>2. req'[h].pc \in {"insert", "read"} /\ \A g \in Handlers \ {h} : req'[g] = req[g]
    <3>1. CASE CreateRow(h, n)
      <4> DEFINE r == [Idle EXCEPT !.pc = "insert", !.op = "create", !.node = n, !.ver = 1]
      <4>1. r.pc = "insert" /\ req' = [req EXCEPT ![h] = r]
        BY <3>1 DEF CreateRow, Idle
      <4> HIDE DEF r
      <4> QED BY <1>a, <4>1
    <3>2. CASE \E op \in Ops : ReadRow(h, n, op)
      <4>1. PICK op \in Ops : ReadRow(h, n, op)
        BY <3>2
      <4> DEFINE r == [Idle EXCEPT !.pc = "read", !.op = op, !.node = n, !.seen = row[n]]
      <4>2. r.pc = "read" /\ req' = [req EXCEPT ![h] = r]
        BY <4>1 DEF ReadRow, Idle
      <4> HIDE DEF r
      <4> QED BY <1>a, <4>2
    <3> QED BY <1>2, <3>1, <3>2
  <2> QED BY <1>1, <2>1, <2>2
<1>3. ASSUME NEW h \in Handlers,
             \/ MarkUpdate(h) \/ MarkDelete(h) \/ MarkToggle(h) \/ MarkLimit(h)
             \/ InsertFails(h) \/ SendOffline(h)
      PROVE  OnceInv'
  <2>1. UNCHANGED <<tasks, toAgent, work, results>>
    BY <1>3 DEF MarkUpdate, MarkDelete, MarkToggle, MarkLimit, InsertFails, SendOffline,
       managerDisk, network, agent
  <2>2. req'[h].pc \in {"insert", "idle"} /\ \A g \in Handlers \ {h} : req'[g] = req[g]
    <3>1. \/ req' = [req EXCEPT ![h] = Idle]
          \/ req' = [req EXCEPT ![h] = [req[h] EXCEPT !.pc = "insert"]]
          \/ \E v : req' = [req EXCEPT ![h] = [req[h] EXCEPT !.pc = "insert", !.ver = v]]
      BY <1>3 DEF MarkUpdate, MarkDelete, MarkToggle, MarkLimit, InsertFails, SendOffline
    <3>2. [req[h] EXCEPT !.pc = "insert"].pc = "insert"
      BY <1>a DEF Request
    <3>3. ASSUME NEW v PROVE [req[h] EXCEPT !.pc = "insert", !.ver = v].pc = "insert"
      BY <1>a DEF Request
    <3> QED BY <1>a, <1>b, <3>1, <3>2, <3>3
  <2> QED BY <1>1, <2>1, <2>2
<1>13. ASSUME NEW h \in Handlers, MarkSent(h) PROVE OnceInv'
  <2>1. UNCHANGED <<toAgent, work, results>> /\ req' = [req EXCEPT ![h] = Idle]
        /\ req'[h].pc = "idle"
    BY <1>13, <1>a, <1>b DEF MarkSent, network, agent
  <2>2. DOMAIN tasks' = DOMAIN tasks
    BY <1>13 DEF MarkSent
  <2> QED BY <1>1, <1>b, <2>1, <2>2
\* The new task is nowhere yet.
<1>4. ASSUME NEW h \in Handlers, InsertTask(h) PROVE OnceInv'
  <2> DEFINE i == Len(tasks) + 1
             t == [node |-> req[h].node, type |-> req[h].op, ver |-> req[h].ver,
                   status |-> "pending", alone |-> Alone(h)]
             r == [req[h] EXCEPT !.pc = "send", !.task = i]
  <2>1. tasks' = Append(tasks, t) /\ req' = [req EXCEPT ![h] = r]
        /\ UNCHANGED <<toAgent, work, results>>
    BY <1>4 DEF InsertTask, network, agent
  <2>2. i \notin DOMAIN tasks /\ DOMAIN tasks' = DOMAIN tasks \cup {i} /\ tasks'[i] = t
        /\ \A j \in DOMAIN tasks : tasks'[j] = tasks[j]
    <3> HIDE DEF t
    <3> QED BY <1>a, <2>1
  <2>3. r.pc = "send" /\ r.task = i /\ t.status \notin Told
    BY <1>a DEF Request, Told
  <2> HIDE DEF i, t, r
  <2>4. \A g \in Handlers : g # h => req'[g] = req[g]
    BY <1>a, <2>1
  <2>5. req'[h] = r
    BY <1>a, <2>1
  <2>6. \A g, k \in Handlers :
           req'[g].pc \in {"send", "mark"} /\ req'[k].pc \in {"send", "mark"}
             /\ req'[g].task = req'[k].task => g = k
    BY <1>a, <2>2, <2>3, <2>4, <2>5 DEF OnceInv
  <2>7. \A g \in Handlers : req'[g].pc = "send" =>
           req'[g].task \notin toAgent' /\ \A w \in work' : w.task # req'[g].task
    BY <1>a, <2>1, <2>2, <2>3, <2>4, <2>5 DEF OnceInv
  <2>8. ASSUME NEW j \in DOMAIN tasks', Ahead(j)'
        PROVE  tasks'[j].status \notin Told /\ \A q \in results' : q.task # j
    <3>1. CASE j = i
      BY <1>a, <2>1, <2>2, <2>3, <3>1
    <3>2. CASE j # i
      <4>1. Ahead(j)
        BY <2>1, <2>3, <2>4, <2>5, <2>8, <3>2 DEF Ahead
      <4> QED BY <2>1, <2>2, <3>2, <4>1 DEF OnceInv
    <3> QED BY <3>1, <3>2
  <2>9. \A q \in results' : tasks'[q.task].status \notin Told
    BY <1>a, <2>1, <2>2 DEF OnceInv
  <2> QED BY <2>1, <2>6, <2>7, <2>8, <2>9 DEF OnceInv
<1>5. ASSUME NEW h \in Handlers, Send(h) PROVE OnceInv'
  <2> DEFINE i == req[h].task
             r == [req[h] EXCEPT !.pc = "mark"]
  <2>1. /\ req[h].pc = "send" /\ req' = [req EXCEPT ![h] = r] /\ UNCHANGED <<tasks, work, results>>
        /\ toAgent' \subseteq toAgent \cup {i}
    BY <1>5 DEF Send, managerDisk, agent
  <2>2. r.pc = "mark" /\ r.task = i /\ i \in DOMAIN tasks
    BY <1>a, <2>1 DEF Request
  <2>3. Ahead(i)
    BY <2>1 DEF Ahead
  <2> HIDE DEF r
  <2>4. req'[h] = r /\ \A g \in Handlers : g # h => req'[g] = req[g]
    BY <1>a, <2>1
  <2>5. \A g, k \in Handlers :
           req'[g].pc \in {"send", "mark"} /\ req'[k].pc \in {"send", "mark"}
             /\ req'[g].task = req'[k].task => g = k
    BY <2>1, <2>2, <2>4 DEF OnceInv
  <2>6. \A g \in Handlers : req'[g].pc = "send" =>
           req'[g].task \notin toAgent' /\ \A w \in work' : w.task # req'[g].task
    BY <2>1, <2>2, <2>4 DEF OnceInv
  <2>7. \A w \in work' : w.task \notin toAgent'
    BY <2>1 DEF OnceInv
  <2>8. ASSUME NEW j, Ahead(j)' PROVE Ahead(j)
    BY <2>1, <2>2, <2>3, <2>4, <2>8 DEF Ahead
  <2> QED BY <2>1, <2>5, <2>6, <2>7, <2>8 DEF OnceInv
<1>6. ASSUME NEW i \in toAgent, Receive(i) PROVE OnceInv'
  <2> DEFINE g == [task |-> i, phase |-> "prepare", live |-> TRUE]
  <2>1. /\ toAgent' = toAgent \ {i} /\ work' = work \cup {g} /\ UNCHANGED <<req, tasks, results>>
        /\ g.task = i
    BY <1>6 DEF Receive, managerDisk, managerRun
  <2> HIDE DEF g
  <2>2. \A w \in work : w.task # i
    BY DEF OnceInv
  <2>3. ASSUME NEW j, Ahead(j)' PROVE Ahead(j)
    BY <2>1, <2>3 DEF Ahead
  <2>4. \A h \in Handlers : req'[h].pc = "send" =>
           req'[h].task \notin toAgent' /\ \A w \in work' : w.task # req'[h].task
    BY <2>1 DEF OnceInv
  <2>5. /\ \A v, w \in work' : v.task = w.task => v = w
        /\ \A w \in work' : w.task \notin toAgent'
    BY <2>1, <2>2 DEF OnceInv
  <2> QED BY <2>1, <2>3, <2>4, <2>5 DEF OnceInv
<1>7. ASSUME NEW w \in work, Prepare(w) PROVE OnceInv'
  <2> DEFINE g == [w EXCEPT !.phase = "apply"]
  <2>1. work' = (work \ {w}) \cup {g} /\ UNCHANGED <<req, tasks, toAgent, results>> /\ g.task = w.task
    BY <1>7, <1>a DEF Prepare, managerDisk, managerRun, network
  <2> HIDE DEF g
  <2>2. \A u, v \in work' : u.task = v.task => u = v
    BY <2>1 DEF OnceInv
  <2> QED BY <2>1, <2>2, OnceLess
\* The goroutine ends, and its result travels in its place.
<1>8. ASSUME NEW w \in work, Execute(w) \/ Refuse(w) \/ Apply(w) \/ ApplyFails(w) PROVE OnceInv'
  <2>1. /\ UNCHANGED <<req, tasks, toAgent>> /\ work' = work \ {w}
        /\ results' = results \/ \E ok \in BOOLEAN : results' = results \cup {[task |-> w.task, ok |-> ok]}
    BY <1>8 DEF Execute, Refuse, Apply, ApplyFails, Report, managerDisk, managerRun
  <2>2. PICK q : q.task = w.task /\ results' \subseteq results \cup {q}
    <3>1. CASE results' = results
      BY <3>1
    <3>2. CASE \E ok \in BOOLEAN : results' = results \cup {[task |-> w.task, ok |-> ok]}
      BY <3>2
    <3> QED BY <2>1, <3>1, <3>2
  <2>3. w.task \in DOMAIN tasks /\ Ahead(w.task)
    BY <1>a DEF Ahead
  <2>4. tasks[w.task].status \notin Told /\ (\A r \in results : r.task # w.task)
        /\ w.task \notin toAgent /\ (\A v \in work' : v.task # w.task)
        /\ \A h \in Handlers : req[h].pc = "send" => req[h].task # w.task
    BY <2>1, <2>3 DEF OnceInv
  <2>5. ASSUME NEW j, Ahead(j)' PROVE Ahead(j) /\ j # w.task
    BY <2>1, <2>4, <2>5 DEF Ahead
  <2>6. \A j \in DOMAIN tasks' : Ahead(j)' =>
           tasks'[j].status \notin Told /\ \A r \in results' : r.task # j
    BY <2>1, <2>2, <2>5 DEF OnceInv
  <2>7. /\ \A p, r \in results' : p.task = r.task => p = r
        /\ \A r \in results' : tasks'[r.task].status \notin Told
    BY <2>1, <2>2, <2>4 DEF OnceInv
  <2>8. \A h \in Handlers : req'[h].pc = "send" =>
           req'[h].task \notin toAgent' /\ \A v \in work' : v.task # req'[h].task
    BY <2>1 DEF OnceInv
  <2> QED BY <2>1, <2>6, <2>7, <2>8 DEF OnceInv
<1>9. ASSUME NEW r \in results, TakeResult(r) PROVE OnceInv'
  <2>1. UNCHANGED <<req, toAgent, work>> /\ results' = results \ {r}
    BY <1>9 DEF TakeResult, agent
  <2>2. \A q \in results' : q.task # r.task
    BY <2>1 DEF OnceInv
  <2>3. ASSUME NEW j \in DOMAIN tasks, j # r.task, tasks'[j].status \in Told
        PROVE  tasks[j].status \in Told
    <3>1. \A q \in results : TakeResult(q) => q = r
      BY <1>9 DEF TakeResult
    <3> QED BY <2>3, <3>1, TasksGrow
  <2>4. DOMAIN tasks' = DOMAIN tasks
    <3>1. r.task \in DOMAIN tasks /\ Verdict(r.ok) \in Final
      BY <1>a DEF Verdict, Final
    <3> QED BY <1>a, <1>9, <3>1, FinishedType DEF TakeResult
  <2>5. ASSUME NEW j \in DOMAIN tasks', Ahead(j)'
        PROVE  tasks'[j].status \notin Told /\ \A q \in results' : q.task # j
    <3>1. Ahead(j) /\ j \in DOMAIN tasks
      BY <2>1, <2>4, <2>5 DEF Ahead
    <3>2. j # r.task
      BY <3>1 DEF OnceInv
    <3> QED BY <2>1, <2>3, <3>1, <3>2 DEF OnceInv
  <2>6. \A q \in results' : tasks'[q.task].status \notin Told
    BY <1>a, <2>1, <2>2, <2>3 DEF OnceInv
  <2>7. \A q, p \in results' : q.task = p.task => q = p
    BY <2>1 DEF OnceInv
  <2> QED BY <2>1, <2>5, <2>6, <2>7 DEF OnceInv
<1>10. CASE ResultCallback \/ CallbackFails \/ SweepSelect \/ SweepCallback \/ UNCHANGED vars
  <2>1. UNCHANGED <<req, tasks, toAgent, work, results>>
    BY <1>10 DEF ResultCallback, CallbackFails, SweepSelect, SweepCallback, vars, managerDisk,
       managerRun, network, agent
  <2> QED BY <2>1, OnceLess DEF OnceInv
<1>11. ASSUME NEW i \in sweep, SweepMark(i) PROVE OnceInv'
  <2>1. UNCHANGED <<req, toAgent, work, results>>
    BY <1>11 DEF SweepMark, network, agent
  <2>2. DOMAIN tasks' = DOMAIN tasks
    BY <1>11 DEF SweepMark, Finished
  <2> QED BY <2>1, <2>2, OnceLess DEF OnceInv
<1>12. CASE Connect \/ Disconnect \/ Notice \/ AgentCrash \/ ManagerCrash
  <2>1. /\ tasks' = tasks /\ toAgent' \subseteq toAgent /\ results' \subseteq results
        /\ req' = req \/ req' = [h \in Handlers |-> Idle]
        /\ work' \in {work, {}, Orphaned}
    BY <1>12 DEF Connect, Disconnect, Notice, AgentCrash, ManagerCrash, managerDisk, managerRun, agent
  <2>2. \A w \in work' : \E v \in work : v.task = w.task /\ (w = v \/ w = [v EXCEPT !.live = FALSE])
    <3>1. ASSUME NEW w \in Orphaned
          PROVE  \E v \in work : v.task = w.task /\ w = [v EXCEPT !.live = FALSE]
      BY OrphanIs
    <3> QED BY <2>1, <3>1
  <2>3. \A v, w \in work' : v.task = w.task => v = w
    <3>1. CASE work' \in {work, {}}
      BY <3>1 DEF OnceInv
    <3>2. CASE work' = Orphaned
      <4> SUFFICES ASSUME NEW v \in Orphaned, NEW w \in Orphaned, v.task = w.task PROVE v = w
        BY <3>2
      <4>1. PICK a \in work : a.task = v.task /\ v = [a EXCEPT !.live = FALSE]
        BY OrphanIs
      <4>2. PICK b \in work : b.task = w.task /\ w = [b EXCEPT !.live = FALSE]
        BY OrphanIs
      <4>3. a = b
        BY <4>1, <4>2 DEF OnceInv
      <4> QED BY <4>1, <4>2, <4>3
    <3> QED BY <2>1, <3>1, <3>2
  <2>4. \A h \in Handlers : req'[h] = req[h] \/ req'[h].pc \notin {"send", "mark"}
    BY <1>b, <2>1
  <2> QED BY <2>1, <2>2, <2>3, <2>4, OnceLess
<1> QED
  BY <1>2, <1>3, <1>4, <1>5, <1>6, <1>7, <1>8, <1>9, <1>10, <1>11, <1>12, <1>13
     DEF Next, Proceed, AgentStep, ManagerStep

-----------------------------------------------------------------------------
(***************************************************************************)
(* What one step may do to a request, a row, a message and a file.         *)
(***************************************************************************)

\* A request that has only read its row is about a row that was there.
SeenInv ==
  \A h \in Handlers : req[h].pc = "read" =>
    req[h].seen \notin {"none", "deleted"} /\ req[h].op # "create"

LEMMA ReqStep ==
  ASSUME TypeInv, [Next]_vars, NEW h \in Handlers
  PROVE  \/ req'[h] = req[h]
         \/ req'[h].pc = "idle"
         \/ \E n \in Nodes : /\ CreateRow(h, n) /\ req'[h].pc = "insert"
                             /\ req'[h].op = "create" /\ req'[h].node = n /\ req'[h].ver = 1
         \/ \E n \in Nodes, op \in Ops :
              /\ ReadRow(h, n, op) /\ req'[h].pc = "read"
              /\ req'[h].op = op /\ req'[h].node = n /\ req'[h].seen = row[n]
         \/ /\ req[h].pc = "read" /\ req'[h].pc = "insert"
            /\ req'[h].op = req[h].op /\ req'[h].node = req[h].node
            /\ \/ MarkUpdate(h) /\ req'[h].ver = want[req[h].node].config + 1
               \/ MarkLimit(h) /\ req'[h].ver = want[req[h].node].limit + 1
               \/ MarkDelete(h) \/ MarkToggle(h)
         \/ /\ InsertTask(h) /\ req'[h].pc = "send" /\ req'[h].task = Len(tasks) + 1
            /\ req'[h].op = req[h].op /\ req'[h].node = req[h].node
         \/ /\ Send(h) /\ req'[h].pc = "mark" /\ req'[h].task = req[h].task
            /\ req'[h].op = req[h].op /\ req'[h].node = req[h].node
<1>a. req \in [Handlers -> Request] /\ Idle \in Request /\ Idle.pc = "idle"
      /\ \A g \in Handlers : req[g] \in Request
  BY Constants DEF TypeInv, TypeOK
<1>b. ASSUME NEW g \in Handlers, NEW r, req' = [req EXCEPT ![g] = r]
      PROVE  req'[g] = r /\ (g # h => req'[h] = req[h])
  BY <1>a, <1>b
<1>1. ASSUME NEW g \in Handlers, NEW n \in Nodes, CreateRow(g, n)
      PROVE  /\ req'[g].pc = "insert" /\ req'[g].op = "create"
             /\ req'[g].node = n /\ req'[g].ver = 1 /\ (g # h => req'[h] = req[h])
  <2> DEFINE r == [Idle EXCEPT !.pc = "insert", !.op = "create", !.node = n, !.ver = 1]
  <2>1. r.pc = "insert" /\ r.op = "create" /\ r.node = n /\ r.ver = 1
    BY DEF Idle
  <2>2. req' = [req EXCEPT ![g] = r]
    BY <1>1 DEF CreateRow, Serve
  <2> HIDE DEF r
  <2> QED BY <1>b, <2>1, <2>2
<1>2. ASSUME NEW g \in Handlers, NEW n \in Nodes, NEW op \in Ops, ReadRow(g, n, op)
      PROVE  /\ req'[g].pc = "read" /\ req'[g].op = op
             /\ req'[g].node = n /\ req'[g].seen = row[n] /\ (g # h => req'[h] = req[h])
  <2> DEFINE r == [Idle EXCEPT !.pc = "read", !.op = op, !.node = n, !.seen = row[n]]
  <2>1. r.pc = "read" /\ r.op = op /\ r.node = n /\ r.seen = row[n]
    BY DEF Idle
  <2>2. req' = [req EXCEPT ![g] = r]
    BY <1>2 DEF ReadRow, Serve
  <2> HIDE DEF r
  <2> QED BY <1>b, <2>1, <2>2
<1>3. ASSUME NEW g \in Handlers, NEW v, req' = [req EXCEPT ![g] = [req[g] EXCEPT !.pc = "insert", !.ver = v]]
      PROVE  /\ req'[g].pc = "insert" /\ req'[g].op = req[g].op /\ req'[g].node = req[g].node
             /\ req'[g].ver = v /\ (g # h => req'[h] = req[h])
  <2> DEFINE r == [req[g] EXCEPT !.pc = "insert", !.ver = v]
  <2>1. r.pc = "insert" /\ r.op = req[g].op /\ r.node = req[g].node /\ r.ver = v
    BY <1>a DEF Request
  <2>2. req' = [req EXCEPT ![g] = r]
    BY <1>3
  <2> HIDE DEF r
  <2> QED BY <1>b, <2>1, <2>2
<1>4. ASSUME NEW g \in Handlers, NEW p, req' = [req EXCEPT ![g] = [req[g] EXCEPT !.pc = p]]
      PROVE  /\ req'[g].pc = p /\ req'[g].op = req[g].op /\ req'[g].node = req[g].node
             /\ req'[g].task = req[g].task /\ (g # h => req'[h] = req[h])
  <2> DEFINE r == [req[g] EXCEPT !.pc = p]
  <2>1. r.pc = p /\ r.op = req[g].op /\ r.node = req[g].node /\ r.task = req[g].task
    BY <1>a DEF Request
  <2>2. req' = [req EXCEPT ![g] = r]
    BY <1>4
  <2> HIDE DEF r
  <2> QED BY <1>b, <2>1, <2>2
<1>5. ASSUME NEW g \in Handlers, req' = [req EXCEPT ![g] = Idle]
      PROVE  req'[g].pc = "idle" /\ (g # h => req'[h] = req[h])
  BY <1>a, <1>b, <1>5
<1>6. ASSUME NEW g \in Handlers, InsertTask(g)
      PROVE  /\ req'[g].pc = "send" /\ req'[g].op = req[g].op /\ req'[g].node = req[g].node
             /\ req'[g].task = Len(tasks) + 1 /\ (g # h => req'[h] = req[h])
  <2> DEFINE r == [req[g] EXCEPT !.pc = "send", !.task = Len(tasks) + 1]
  <2>1. r.pc = "send" /\ r.op = req[g].op /\ r.node = req[g].node /\ r.task = Len(tasks) + 1
    BY <1>a DEF Request
  <2>2. req' = [req EXCEPT ![g] = r]
    BY <1>6 DEF InsertTask, Serve
  <2> HIDE DEF r
  <2> QED BY <1>b, <2>1, <2>2
<1>7. CASE \E g \in Handlers, n \in Nodes : CreateRow(g, n) \/ \E op \in Ops : ReadRow(g, n, op)
  BY <1>1, <1>2, <1>7
<1>8. CASE \E g \in Handlers : MarkUpdate(g)
  <2>1. PICK g \in Handlers : MarkUpdate(g)
    BY <1>8
  <2>2. req[g].pc = "read"
    BY <2>1 DEF MarkUpdate
  <2>3. \/ req' = [req EXCEPT ![g] = Idle]
        \/ \E v : /\ v = want[req[g].node].config + 1
                  /\ req' = [req EXCEPT ![g] = [req[g] EXCEPT !.pc = "insert", !.ver = v]]
    BY <2>1 DEF MarkUpdate, Serve
  <2>4. CASE req' = [req EXCEPT ![g] = Idle]
    BY <1>5, <2>4
  <2>5. CASE \E v : /\ v = want[req[g].node].config + 1
                    /\ req' = [req EXCEPT ![g] = [req[g] EXCEPT !.pc = "insert", !.ver = v]]
    <3>1. PICK v : /\ v = want[req[g].node].config + 1
                   /\ req' = [req EXCEPT ![g] = [req[g] EXCEPT !.pc = "insert", !.ver = v]]
      BY <2>5
    <3>2. /\ req'[g].pc = "insert" /\ req'[g].op = req[g].op /\ req'[g].node = req[g].node
          /\ req'[g].ver = v /\ (g # h => req'[h] = req[h])
      BY <1>3, <3>1
    <3> QED BY <2>1, <2>2, <3>1, <3>2
  <2> QED BY <2>3, <2>4, <2>5
<1>9. CASE \E g \in Handlers : MarkLimit(g)
  <2>1. PICK g \in Handlers : MarkLimit(g)
    BY <1>9
  <2>2. req' = [req EXCEPT ![g] = [req[g] EXCEPT !.pc = "insert", !.ver = Asked(req[g].node)]]
        /\ req[g].pc = "read"
    BY <2>1 DEF MarkLimit, Serve
  <2>3. Asked(req[g].node) = want[req[g].node].limit + 1
    BY DEF Asked
  <2> QED BY ZenonT(40), <1>3, <2>1, <2>2, <2>3
<1>10. CASE \E g \in Handlers : MarkDelete(g) \/ MarkToggle(g)
  <2>1. PICK g \in Handlers : MarkDelete(g) \/ MarkToggle(g)
    BY <1>10
  <2>2. \/ req' = [req EXCEPT ![g] = Idle]
        \/ req' = [req EXCEPT ![g] = [req[g] EXCEPT !.pc = "insert"]]
    BY <2>1 DEF MarkDelete, MarkToggle, Serve
  <2>3. req[g].pc = "read"
    BY <2>1 DEF MarkDelete, MarkToggle
  <2> QED BY SMTT(30), <1>4, <1>5, <2>1, <2>2, <2>3
<1>11. CASE \E g \in Handlers : InsertTask(g)
  BY <1>6, <1>11
<1>12. CASE \E g \in Handlers : Send(g)
  <2>1. PICK g \in Handlers : Send(g)
    BY <1>12
  <2>2. req' = [req EXCEPT ![g] = [req[g] EXCEPT !.pc = "mark"]]
    BY <2>1 DEF Send, Serve
  <2> QED BY <1>4, <2>1, <2>2
<1>13. CASE \E g \in Handlers : InsertFails(g) \/ SendOffline(g) \/ MarkSent(g)
  <2>1. PICK g \in Handlers : InsertFails(g) \/ SendOffline(g) \/ MarkSent(g)
    BY <1>13
  <2>2. req' = [req EXCEPT ![g] = Idle]
    BY <2>1 DEF InsertFails, SendOffline, MarkSent, Serve
  <2> QED BY <1>5, <2>2
<1>14. CASE ManagerCrash
  BY <1>a, <1>14 DEF ManagerCrash
<1>15. CASE AgentStep \/ ManagerStep \/ Connect \/ Disconnect \/ Notice \/ AgentCrash \/ UNCHANGED vars
  BY <1>15 DEF AgentStep, ManagerStep, Receive, Prepare, Execute, Refuse, Apply, ApplyFails,
     TakeResult, ResultCallback, CallbackFails, SweepSelect, SweepMark, SweepCallback, Connect,
     Disconnect, Notice, AgentCrash, vars, managerRun
<1> QED
  BY <1>7, <1>8, <1>9, <1>10, <1>11, <1>12, <1>13, <1>14, <1>15 DEF Next, Proceed

\* Only the Agent's word makes a row active or deleted, and no row comes back.
LEMMA RowStep ==
  ASSUME TypeInv, SeenInv, [Next]_vars, NEW n \in Nodes
  PROVE  \/ row'[n] = row[n]
         \/ \E h \in Handlers : CreateRow(h, n) /\ row'[n] = "provisioning"
         \/ Exists(n) /\ row'[n] \notin {"none", "active", "deleted", "provisioning"}
         \/ /\ ResultCallback /\ Exists(n)
            /\ reader.ok /\ reader.task \in DOMAIN tasks /\ tasks[reader.task].node = n
            /\ \/ row'[n] = "active" /\ tasks[reader.task].type \in {"create", "update", "enable"}
               \/ row'[n] = "deleted" /\ tasks[reader.task].type = "delete"
<1>a. row \in [Nodes -> Statuses] /\ \A h \in Handlers : req[h] \in Request /\ req[h].node \in Nodes
  BY DEF TypeInv, TypeOK, Request
<1>m. ASSUME NEW m \in Nodes, NEW from, NEW to, row' = Moved(m, from, to)
      PROVE  row'[n] = row[n] \/ (m = n /\ row[n] = from /\ row'[n] = to)
  BY <1>a, <1>m DEF Moved
<1>1. CASE \E h \in Handlers, m \in Nodes : CreateRow(h, m)
  BY <1>a, <1>1 DEF CreateRow, RowCreated
<1>2. CASE \E h \in Handlers : MarkUpdate(h)
  BY <1>a, <1>2 DEF MarkUpdate, RowUpdated, Exists
<1>3. CASE \E h \in Handlers : MarkDelete(h) \/ MarkToggle(h)
  <2>1. PICK h \in Handlers : MarkDelete(h) \/ MarkToggle(h)
    BY <1>3
  <2>2. \/ row' = row
        \/ \E to \in {"delete_pending", "update_pending"} : row' = Moved(req[h].node, req[h].seen, to)
    BY <2>1 DEF MarkDelete, MarkToggle
  <2>3. req[h].seen \notin {"none", "deleted"}
    BY <2>1 DEF MarkDelete, MarkToggle, SeenInv
  <2> QED BY <1>a, <1>m, <2>2, <2>3 DEF Exists
<1>4. CASE \E h \in Handlers : InsertFails(h)
  <2>1. PICK h \in Handlers : InsertFails(h)
    BY <1>4
  <2>2. \/ row' = row
        \/ row' = Moved(req[h].node, "provisioning", "create_failed")
        \/ row' = Moved(req[h].node, "update_pending", "config_error")
    BY <2>1 DEF InsertFails
  <2> QED BY <1>a, <1>m, <2>2 DEF Exists
<1>c. ASSUME NEW i \in DOMAIN tasks, NEW ok \in BOOLEAN, row' = Converged(i, ok)
      PROVE  \/ row'[n] = row[n]
             \/ Exists(n) /\ row'[n] \notin {"none", "active", "deleted", "provisioning"}
             \/ /\ ok /\ tasks[i].node = n /\ Exists(n)
                /\ \/ row'[n] = "active" /\ tasks[i].type \in {"create", "update", "enable"}
                   \/ row'[n] = "deleted" /\ tasks[i].type = "delete"
  <2> DEFINE m == tasks[i].node
  <2>1. m \in Nodes
    <3>1. tasks \in Seq(TaskRow)
      BY DEF TypeInv, TypeOK
    <3>2. tasks[i] \in TaskRow
      BY <3>1
    <3> QED BY <3>2 DEF TaskRow
  <2>2. CASE tasks[i].type = "create"
    <3>1. row' = AfterCreate(m, ok)
      BY <1>c, <2>2 DEF Converged
    <3>2. CASE ok
      BY <1>a, <2>1, <2>2, <3>1, <3>2 DEF AfterCreate
    <3>3. CASE ~ok
      <4>1. row' = Moved(m, "provisioning", "create_failed")
        BY <3>1, <3>3 DEF AfterCreate
      <4> QED BY <1>m, <2>1, <4>1 DEF Exists
    <3> QED BY <3>2, <3>3
  <2>3. CASE tasks[i].type = "delete"
    <3>1. row' = AfterDelete(m, ok)
      BY <1>c, <2>3 DEF Converged
    <3>2. CASE ok
      BY <1>a, <2>1, <2>3, <3>1, <3>2 DEF AfterDelete
    <3>3. CASE ~ok
      <4>1. row' = Moved(m, "delete_pending", "config_error")
        BY <3>1, <3>3 DEF AfterDelete
      <4> QED BY <1>m, <2>1, <4>1 DEF Exists
    <3> QED BY <3>2, <3>3
  <2>4. CASE tasks[i].type = "disable"
    <3>1. \E to \in {"disabled", "config_error"} : row' = Moved(m, "update_pending", to)
      BY <1>c, <2>4 DEF Converged
    <3> QED BY <1>m, <2>1, <3>1 DEF Exists
  <2>5. CASE tasks[i].type \in {"update", "enable"}
    <3>1. row' = Moved(m, "update_pending", IF ok THEN "active" ELSE "config_error")
      BY <1>c, <2>5 DEF Converged
    <3> QED BY <1>m, <2>1, <2>5, <3>1 DEF Exists
  <2>6. CASE tasks[i].type \notin {"create", "delete", "disable", "update", "enable"}
    BY <1>c, <2>6 DEF Converged
  <2> QED BY <2>2, <2>3, <2>4, <2>5, <2>6
<1>5. CASE ResultCallback
  <2>1. /\ row' = Converged(reader.task, reader.ok)
        /\ reader.task \in DOMAIN tasks /\ reader.ok \in BOOLEAN
    BY <1>5 DEF ResultCallback, TypeInv, RefInv, TypeOK, Outcome
  <2> QED BY <1>5, <1>c, <2>1
<1>6. CASE SweepCallback
  <2>1. row' = Converged(swept, FALSE) /\ swept \in DOMAIN tasks
    BY <1>6 DEF SweepCallback, TypeInv, RefInv
  <2> QED BY <1>c, <2>1
<1>7. \/ row' = row
      \/ \E h \in Handlers, m \in Nodes : CreateRow(h, m)
      \/ \E h \in Handlers : \/ MarkUpdate(h) \/ MarkDelete(h) \/ MarkToggle(h) \/ InsertFails(h)
      \/ ResultCallback \/ SweepCallback
  BY DEF Next, Proceed, AgentStep, ManagerStep, ReadRow, MarkLimit, InsertTask, Send,
     SendOffline, MarkSent, Receive, Prepare, Execute, Refuse, Apply, ApplyFails, TakeResult,
     CallbackFails, SweepSelect, SweepMark, Connect, Disconnect, Notice, AgentCrash,
     ManagerCrash, vars,
     managerDisk
<1> QED BY <1>1, <1>2, <1>3, <1>4, <1>5, <1>6, <1>7

LEMMA SeenStep == TypeInv /\ SeenInv /\ [Next]_vars => SeenInv'
<1> SUFFICES ASSUME TypeInv, SeenInv, [Next]_vars, NEW h \in Handlers, req'[h].pc = "read"
             PROVE  req'[h].seen \notin {"none", "deleted"} /\ req'[h].op # "create"
  BY DEF SeenInv
<1>1. req'[h] = req[h] \/ \E n \in Nodes, op \in Ops : /\ ReadRow(h, n, op)
                                                         /\ req'[h].op = op /\ req'[h].seen = row[n]
  BY ReqStep
<1>2. CASE req'[h] = req[h]
  BY <1>2 DEF SeenInv
<1>3. CASE \E n \in Nodes, op \in Ops : ReadRow(h, n, op) /\ req'[h].op = op /\ req'[h].seen = row[n]
  BY <1>3 DEF ReadRow, Exists
<1> QED BY <1>1, <1>2, <1>3

\* What a step makes of the versions asked for, and of those the Agent holds.
LEMMA WantStep ==
  ASSUME TypeInv, [Next]_vars, NEW n \in Nodes
  PROVE  \/ want'[n].limit = want[n].limit
         \/ \E h \in Handlers : /\ MarkLimit(h) /\ req[h].node = n /\ Exists(n)
                                /\ want'[n].limit = want[n].limit + 1
<1>a. want \in [Nodes -> Desired] /\ \A m \in Nodes : want[m] \in Desired
  BY DEF TypeInv, TypeOK
<1>1. ASSUME NEW m \in Nodes, NEW v, want' = [want EXCEPT ![m].config = v]
      PROVE  want'[n].limit = want[n].limit
  BY <1>a, <1>1 DEF Desired
<1>2. CASE \E h \in Handlers, m \in Nodes : CreateRow(h, m)
  BY <1>1, <1>2 DEF CreateRow
<1>3. CASE \E h \in Handlers : MarkUpdate(h)
  <2>1. PICK h \in Handlers : MarkUpdate(h)
    BY <1>3
  <2>2. want' = want \/ want' = [want EXCEPT ![req[h].node].config = @ + 1]
    BY <2>1 DEF MarkUpdate
  <2>3. want' = want \/ want' = [want EXCEPT ![req[h].node].config = want[req[h].node].config + 1]
    BY <1>a, <2>2
  <2>4. req[h].node \in Nodes
    BY DEF TypeInv, TypeOK, Request
  <2> QED BY <1>1, <2>3, <2>4
<1>4. CASE \E h \in Handlers : MarkLimit(h)
  <2>1. PICK h \in Handlers : MarkLimit(h)
    BY <1>4
  <2> DEFINE m == req[h].node
  <2>2. want' = want \/ (Exists(m) /\ want' = [want EXCEPT ![m].limit = @ + 1])
    BY <2>1 DEF MarkLimit, LimitRecorded
  <2>3. m \in Nodes
    BY DEF TypeInv, TypeOK, Request
  <2>4. CASE m = n /\ Exists(m) /\ want' = [want EXCEPT ![m].limit = @ + 1]
    BY <1>a, <2>1, <2>4 DEF Desired
  <2>5. CASE m # n \/ want' = want
    BY <1>a, <2>2, <2>5
  <2> QED BY <2>2, <2>4, <2>5
<1>5. \/ want' = want
      \/ \E h \in Handlers, m \in Nodes : CreateRow(h, m)
      \/ \E h \in Handlers : MarkUpdate(h) \/ MarkLimit(h)
  BY DEF Next, Proceed, AgentStep, ManagerStep, ReadRow, MarkDelete, MarkToggle, InsertTask,
     InsertFails, Send, SendOffline, MarkSent, Receive, Prepare, Execute, Refuse, Apply,
     ApplyFails, TakeResult, ResultCallback, CallbackFails, SweepSelect, SweepMark,
     SweepCallback, Connect, Disconnect, Notice, AgentCrash, ManagerCrash, vars, managerDisk
<1> QED BY <1>2, <1>3, <1>4, <1>5

LEMMA HeldStep ==
  ASSUME TypeInv, [Next]_vars, NEW n \in Nodes
  PROVE  \/ held'[n] = held[n]
         \/ \E w \in work : /\ Execute(w) /\ w.task \in LimitsOf(n)
                            /\ held'[n] = tasks[w.task].ver
<1>1. \/ held' = held
      \/ \E w \in work : Execute(w)
  BY DEF Next, Proceed, AgentStep, ManagerStep, CreateRow, ReadRow, MarkUpdate, MarkLimit,
     MarkDelete, MarkToggle, InsertTask, InsertFails, Send, SendOffline, MarkSent, Receive,
     Prepare, Refuse, Apply, ApplyFails, TakeResult, ResultCallback, CallbackFails, SweepSelect,
     SweepMark, SweepCallback, Connect, Disconnect, Notice, AgentCrash, ManagerCrash, vars,
     agent
<1>2. CASE \E w \in work : Execute(w)
  <2>1. PICK w \in work : Execute(w)
    BY <1>2
  <2>2. w.task \in DOMAIN tasks /\ held \in [Nodes -> Nat]
    BY DEF TypeInv, TypeOK, RefInv
  <2>3. held' = Stored(w.task)
    BY <2>1 DEF Execute
  <2>4. CASE tasks[w.task].type = "limit" /\ tasks[w.task].node = n
    BY <2>1, <2>2, <2>3, <2>4 DEF Stored, LimitsOf
  <2>5. CASE ~(tasks[w.task].type = "limit" /\ tasks[w.task].node = n)
    BY <2>2, <2>3, <2>5 DEF Stored
  <2> QED BY <2>4, <2>5
<1> QED BY <1>1, <1>2

\* The new task says what its request says.
LEMMA InsertIs ==
  ASSUME TypeInv, NEW h \in Handlers, InsertTask(h)
  PROVE  LET i == Len(tasks) + 1
         IN /\ DOMAIN tasks' = DOMAIN tasks \cup {i} /\ i \notin DOMAIN tasks
            /\ i \in Nat /\ \A j \in DOMAIN tasks : j < i /\ j \in Nat
            /\ tasks'[i].node = req[h].node /\ tasks'[i].type = req[h].op
            /\ tasks'[i].ver = req[h].ver /\ tasks'[i].status = "pending"
            /\ tasks'[i].alone = Alone(h)
            /\ \A j \in DOMAIN tasks : tasks'[j] = tasks[j]
<1> DEFINE t == [node |-> req[h].node, type |-> req[h].op, ver |-> req[h].ver,
                 status |-> "pending", alone |-> Alone(h)]
<1>1. tasks' = Append(tasks, t)
  BY DEF InsertTask
<1>2. tasks \in Seq(TaskRow) /\ DOMAIN tasks = 1..Len(tasks) /\ Len(tasks) \in Nat
  BY DEF TypeInv, TypeOK
<1>3. /\ t.node = req[h].node /\ t.type = req[h].op /\ t.ver = req[h].ver
      /\ t.status = "pending" /\ t.alone = Alone(h)
  OBVIOUS
<1> HIDE DEF t
<1> QED BY <1>1, <1>2, <1>3

(***************************************************************************)
(* Nothing is about a node whose row has not been created.                 *)
(***************************************************************************)
NoneInv ==
  \A n \in Nodes : row[n] = "none" =>
    /\ want[n].limit = 0 /\ held[n] = 0
    /\ \A h \in Handlers : req[h].pc # "idle" => req[h].node # n
    /\ \A i \in DOMAIN tasks : tasks[i].node # n

LEMMA NoneStep == TypeInv /\ SeenInv /\ NoneInv /\ [Next]_vars => NoneInv'
<1> SUFFICES ASSUME TypeInv, SeenInv, NoneInv, [Next]_vars, NEW n \in Nodes, row'[n] = "none"
             PROVE  /\ want'[n].limit = 0 /\ held'[n] = 0
                    /\ \A h \in Handlers : req'[h].pc # "idle" => req'[h].node # n
                    /\ \A i \in DOMAIN tasks' : tasks'[i].node # n
  BY DEF NoneInv
<1>1. row[n] = "none" /\ ~Exists(n) /\ \A h \in Handlers : ~CreateRow(h, n)
  <2>1. row[n] = "none"
    BY RowStep
  <2>2. ASSUME NEW h \in Handlers, CreateRow(h, n) PROVE FALSE
    BY <2>2 DEF CreateRow, RowCreated, TypeInv, TypeOK
  <2> QED BY <2>1, <2>2 DEF Exists
<1>2. /\ want[n].limit = 0 /\ held[n] = 0
      /\ \A h \in Handlers : req[h].pc # "idle" => req[h].node # n
      /\ \A i \in DOMAIN tasks : tasks[i].node # n
  BY <1>1 DEF NoneInv
<1>3. want'[n].limit = 0
  BY <1>1, <1>2, WantStep
<1>4. held'[n] = 0
  BY <1>2, HeldStep DEF LimitsOf
<1>5. ASSUME NEW h \in Handlers, req'[h].pc # "idle" PROVE req'[h].node # n
  <2>1. CASE req'[h] = req[h]
    BY <1>2, <1>5, <2>1
  <2>2. CASE \E m \in Nodes : CreateRow(h, m) /\ req'[h].node = m
    BY <1>1, <2>2
  <2>3. CASE \E m \in Nodes, op \in Ops : ReadRow(h, m, op) /\ req'[h].node = m
    BY <1>1, <2>3 DEF ReadRow
  <2>4. CASE req[h].pc = "read" /\ req'[h].node = req[h].node
    BY <1>2, <2>4
  <2>5. CASE InsertTask(h) /\ req'[h].node = req[h].node
    BY <1>2, <2>5 DEF InsertTask
  <2>6. CASE Send(h) /\ req'[h].node = req[h].node
    BY <1>2, <2>6 DEF Send
  <2> QED BY <1>5, <2>1, <2>2, <2>3, <2>4, <2>5, <2>6, ReqStep
<1>6. ASSUME NEW i \in DOMAIN tasks' PROVE tasks'[i].node # n
  <2>1. CASE i \in DOMAIN tasks
    BY <1>2, <2>1, TasksGrow
  <2>2. CASE i \notin DOMAIN tasks
    <3>1. PICK h \in Handlers : InsertTask(h)
      BY <2>2, TasksGrow
    <3>2. tasks'[i].node = req[h].node /\ req[h].pc # "idle"
      BY <2>2, <3>1, InsertIs DEF InsertTask
    <3> QED BY <1>2, <3>2
  <2> QED BY <2>1, <2>2
<1> QED BY <1>3, <1>4, <1>5, <1>6

-----------------------------------------------------------------------------
(***************************************************************************)
(* When the Agent's handlers do not interleave, what is applied is what    *)
(* the task asked for: at most one goroutine has candidates, and they are  *)
(* still what it made of the nodes.json it has read.                       *)
(***************************************************************************)
CandInv ==
  /\ \A v, w \in work : v.phase = "apply" /\ w.phase = "apply" => v = w
  /\ \A w \in work : w.phase = "apply" =>
       /\ cand.exists /\ cand.nodes = Changed(w.task)
       /\ Applicable(w.task) /\ ~Direct(w.task)

LEMMA SameChange ==
  ASSUME TypeInv, [Next]_vars, nodesFile' = nodesFile, NEW i \in DOMAIN tasks
  PROVE  /\ Changed(i)' = Changed(i) /\ Applicable(i)' = Applicable(i)
         /\ Direct(i)' = Direct(i)
<1>1. /\ tasks'[i].node = tasks[i].node /\ tasks'[i].type = tasks[i].type
      /\ tasks'[i].ver = tasks[i].ver
  BY TasksGrow
<1>2. Changed(i)' = Changed(i)
  BY <1>1 DEF Changed
<1> QED BY <1>1, <1>2 DEF Applicable, Direct

LEMMA CandStep ==
  ASSUME TypeInv, CandInv, [Next]_vars, ~Interleaved
  PROVE  CandInv'
<1>a. \A w \in work : w.task \in DOMAIN tasks
      /\ w \in [task : Nat, phase : {"prepare", "apply"}, live : BOOLEAN]
  BY DEF TypeInv, TypeOK, RefInv
\* No new goroutine has candidates, and nothing has touched those there are.
<1>1. ASSUME UNCHANGED <<nodesFile, cand>>,
             \A w \in work' : w.phase = "apply" => w \in work
      PROVE  CandInv'
  <2>1. \A i \in DOMAIN tasks :
          Changed(i)' = Changed(i) /\ Applicable(i)' = Applicable(i) /\ Direct(i)' = Direct(i)
    BY <1>1, SameChange
  <2> QED BY <1>a, <1>1, <2>1 DEF CandInv
<1>2. ASSUME NEW i \in toAgent, Receive(i) PROVE CandInv'
  BY <1>1, <1>2 DEF Receive
<1>3. ASSUME NEW w \in work, Prepare(w) PROVE CandInv'
  <2> DEFINE g == [w EXCEPT !.phase = "apply"]
  <2>1. /\ work' = (work \ {w}) \cup {g} /\ cand' = [exists |-> TRUE, nodes |-> Changed(w.task)]
        /\ Applicable(w.task) /\ ~Direct(w.task) /\ nodesFile' = nodesFile
        /\ \A v \in work : v.phase = "prepare"
    BY <1>3 DEF Prepare
  <2>2. g.task = w.task /\ g.phase = "apply"
    BY <1>a
  <2>3. Changed(w.task)' = Changed(w.task) /\ Applicable(w.task)' /\ ~Direct(w.task)'
    BY <1>a, <2>1, SameChange
  <2> HIDE DEF g
  <2>4. \A v \in work' : v.phase = "apply" => v = g
    BY <2>1
  <2>5. cand'.exists /\ cand'.nodes = Changed(w.task)
    BY <2>1
  <2>6. ASSUME NEW v \in work', v.phase = "apply"
        PROVE  /\ cand'.exists /\ cand'.nodes = Changed(v.task)'
               /\ Applicable(v.task)' /\ ~Direct(v.task)'
    <3>1. v.task = w.task
      BY <2>2, <2>4, <2>6
    <3> QED BY <2>3, <2>5, <3>1
  <2> QED BY <2>4, <2>6 DEF CandInv
<1>4. ASSUME NEW w \in work, Apply(w) \/ ApplyFails(w) PROVE CandInv'
  <2>1. w.phase = "apply" /\ work' = work \ {w}
    BY <1>4 DEF Apply, ApplyFails, Report
  <2>2. \A v \in work' : v.phase # "apply"
    BY <2>1 DEF CandInv
  <2> QED BY <2>2 DEF CandInv
<1>5. ASSUME NEW w \in work, Execute(w) \/ Refuse(w) PROVE CandInv'
  BY <1>1, <1>5 DEF Execute, Refuse, Report
<1>6. CASE AgentCrash
  BY <1>6 DEF AgentCrash, CandInv
<1>7. CASE Disconnect \/ ManagerCrash
  <2>1. UNCHANGED <<nodesFile, cand>> /\ work' = Orphaned
    BY <1>7 DEF Disconnect, ManagerCrash
  <2>2. \A w \in Orphaned : \E v \in work : v.phase = w.phase /\ v.task = w.task
                                              /\ w = [v EXCEPT !.live = FALSE]
    BY OrphanIs
  <2>3. \A i \in DOMAIN tasks :
          Changed(i)' = Changed(i) /\ Applicable(i)' = Applicable(i) /\ Direct(i)' = Direct(i)
    BY <2>1, SameChange
  <2>4. ASSUME NEW w \in work', w.phase = "apply"
        PROVE  /\ cand'.exists /\ cand'.nodes = Changed(w.task)'
               /\ Applicable(w.task)' /\ ~Direct(w.task)'
    <3>1. PICK v \in work : v.phase = "apply" /\ v.task = w.task
      BY <2>1, <2>2, <2>4
    <3> QED BY <1>a, <2>1, <2>3, <3>1 DEF CandInv
  <2>5. ASSUME NEW v \in work', NEW w \in work', v.phase = "apply", w.phase = "apply"
        PROVE  v = w
    <3>1. PICK a \in work : a.phase = "apply" /\ v = [a EXCEPT !.live = FALSE]
      BY <2>1, <2>2, <2>5
    <3>2. PICK b \in work : b.phase = "apply" /\ w = [b EXCEPT !.live = FALSE]
      BY <2>1, <2>2, <2>5
    <3>3. a = b
      BY <3>1, <3>2 DEF CandInv
    <3> QED BY <3>1, <3>2, <3>3
  <2> QED BY <2>4, <2>5 DEF CandInv
<1>8. CASE UNCHANGED <<work, nodesFile, cand>>
  BY <1>1, <1>8
<1>9. \/ UNCHANGED <<work, nodesFile, cand>> \/ AgentStep
      \/ Disconnect \/ AgentCrash \/ ManagerCrash
  BY DEF Next, Proceed, ManagerStep, CreateRow, ReadRow, MarkUpdate, MarkLimit, MarkDelete,
     MarkToggle, InsertTask, InsertFails, Send, SendOffline, MarkSent, TakeResult,
     ResultCallback, CallbackFails, SweepSelect, SweepMark, SweepCallback, Connect, Notice,
     vars, agent
<1> QED
  BY <1>2, <1>3, <1>4, <1>5, <1>6, <1>7, <1>8, <1>9 DEF AgentStep

\* What one step makes of a node of nodes.json.
LEMMA FilesStep ==
  ASSUME TypeInv, CandInv, [Next]_vars, NEW n \in Nodes
  PROVE  \/ nodesFile'[n] = nodesFile[n]
         \/ \E w \in work :
              /\ Apply(w) \/ ApplyFails(w)
              /\ w.task \in DOMAIN tasks /\ tasks[w.task].node = n
              /\ Applicable(w.task) /\ ~Direct(w.task)
              /\ nodesFile'[n] = Changed(w.task)[n]
<1>1. \/ nodesFile' = nodesFile
      \/ \E w \in work : (Apply(w) \/ ApplyFails(w)) /\ nodesFile' # nodesFile
  BY DEF Next, Proceed, AgentStep, ManagerStep, CreateRow, ReadRow, MarkUpdate, MarkLimit,
     MarkDelete, MarkToggle, InsertTask,
     InsertFails, Send, SendOffline, MarkSent, Receive, Prepare, Execute, Refuse,
     TakeResult, ResultCallback, CallbackFails, SweepSelect, SweepMark, SweepCallback, Connect,
     Disconnect, Notice, AgentCrash, ManagerCrash, vars, agent
<1>2. CASE \E w \in work : (Apply(w) \/ ApplyFails(w)) /\ nodesFile' # nodesFile
  <2>1. PICK w \in work : (Apply(w) \/ ApplyFails(w)) /\ nodesFile' # nodesFile
    BY <1>2
  <2>2. w.phase = "apply" /\ nodesFile' = cand.nodes
    BY <2>1 DEF Apply, ApplyFails
  <2>3. /\ w.task \in DOMAIN tasks /\ nodesFile' = Changed(w.task)
        /\ Applicable(w.task) /\ ~Direct(w.task)
    BY <2>2 DEF CandInv, TypeInv, RefInv
  <2>4. nodesFile \in [Nodes -> LocalNode]
    BY DEF TypeInv, TypeOK
  <2>5. CASE tasks[w.task].node = n
    BY <2>1, <2>3, <2>5
  <2>6. CASE tasks[w.task].node # n
    BY <2>3, <2>4, <2>6 DEF Changed
  <2> QED BY <2>5, <2>6
<1> QED BY <1>1, <1>2

\* The outcomes on their way to the Manager come from the Agent.
LEMMA ResultsStep ==
  ASSUME TypeInv, [Next]_vars
  PROVE  /\ reader' \in results \cup {reader, NoOutcome}
         /\ \A r \in results' :
              \/ r \in results
              \/ \E w \in work : /\ w.task = r.task
                                 /\ \/ Execute(w) /\ r.ok
                                    \/ Apply(w) /\ r.ok
                                    \/ ~r.ok
<1>1. ASSUME NEW w \in work, NEW ok \in BOOLEAN, Report(w, ok), NEW r \in results', r \notin results
      PROVE  r.task = w.task /\ r.ok = ok
  <2>1. r = [task |-> w.task, ok |-> ok]
    BY <1>1 DEF Report
  <2> QED BY <2>1
<1>2. ASSUME NEW w \in work, \/ Execute(w) \/ Apply(w) \/ Refuse(w) \/ ApplyFails(w),
             NEW r \in results', r \notin results
      PROVE  w.task = r.task /\ ((Execute(w) /\ r.ok) \/ (Apply(w) /\ r.ok) \/ ~r.ok)
  <2>1. CASE Execute(w) \/ Apply(w)
    <3>1. Report(w, TRUE)
      BY <2>1 DEF Execute, Apply
    <3> QED BY <1>1, <1>2, <2>1, <3>1
  <2>2. CASE Refuse(w) \/ ApplyFails(w)
    <3>1. Report(w, FALSE)
      BY <2>2 DEF Refuse, ApplyFails
    <3> QED BY <1>1, <1>2, <3>1
  <2> QED BY <1>2, <2>1, <2>2
<1>3. \/ results' \subseteq results /\ reader' \in results \cup {reader, NoOutcome}
      \/ /\ reader' = reader
         /\ \E w \in work : \/ Execute(w) \/ Apply(w) \/ Refuse(w) \/ ApplyFails(w)
  BY DEF Next, Proceed, AgentStep, ManagerStep, CreateRow, ReadRow, MarkUpdate, MarkLimit,
     MarkDelete, MarkToggle, InsertTask, InsertFails, Send, SendOffline, MarkSent, Receive,
     Prepare, Execute, Refuse, Apply, ApplyFails, TakeResult, ResultCallback, CallbackFails,
     SweepSelect, SweepMark, SweepCallback, Connect, Disconnect, Notice, AgentCrash,
     ManagerCrash, vars, network, managerRun
<1> QED BY <1>2, <1>3

\* A task the Agent may yet carry out was so before, or is new.
LEMMA AheadStep ==
  ASSUME TypeInv, [Next]_vars, NEW i, Ahead(i)'
  PROVE  Ahead(i) \/ (i \notin DOMAIN tasks /\ i \in DOMAIN tasks')
<1>1. CASE \E h \in Handlers : req'[h].pc = "send" /\ req'[h].task = i
  <2>1. PICK h \in Handlers : req'[h].pc = "send" /\ req'[h].task = i
    BY <1>1
  <2>2. \/ req'[h] = req[h] \/ (InsertTask(h) /\ req'[h].task = Len(tasks) + 1)
    BY <2>1, ReqStep
  <2>3. CASE req'[h] = req[h]
    BY <2>1, <2>3 DEF Ahead
  <2>4. CASE InsertTask(h) /\ req'[h].task = Len(tasks) + 1
    BY <2>1, <2>4, InsertIs
  <2> QED BY <2>2, <2>3, <2>4
<1>2. CASE i \in toAgent'
  <2>1. toAgent' \subseteq toAgent \/ \E h \in Handlers : Send(h)
    BY DEF Next, Proceed, AgentStep, ManagerStep, CreateRow, ReadRow, MarkUpdate, MarkLimit,
       MarkDelete, MarkToggle, InsertTask, InsertFails, SendOffline, MarkSent, Receive, Prepare,
       Execute, Refuse, Apply, ApplyFails, TakeResult, ResultCallback, CallbackFails,
       SweepSelect, SweepMark, SweepCallback, Connect, Disconnect, Notice, AgentCrash,
       ManagerCrash, vars, network
  <2> QED BY <1>2, <2>1 DEF Send, Ahead
<1>3. CASE \E w \in work' : w.task = i
  <2>1. PICK w \in work' : w.task = i
    BY <1>3
  <2>2. ASSUME w \in Orphaned PROVE \E v \in work : v.task = i
    BY <2>1, <2>2, OrphanIs
  <2>3. \/ work' \subseteq work \/ work' = Orphaned
        \/ \E j \in toAgent : work' = work \cup {[task |-> j, phase |-> "prepare", live |-> TRUE]}
        \/ \E v \in work : work' = (work \ {v}) \cup {[v EXCEPT !.phase = "apply"]}
    BY DEF Next, Proceed, AgentStep, ManagerStep, CreateRow, ReadRow, MarkUpdate, MarkLimit,
       MarkDelete, MarkToggle, InsertTask, InsertFails, Send, SendOffline, MarkSent, Receive,
       Prepare, Execute, Refuse, Apply, Report, ApplyFails, TakeResult, ResultCallback,
       CallbackFails, SweepSelect, SweepMark, SweepCallback, Connect, Disconnect, Notice,
       AgentCrash, ManagerCrash, vars, agent
  <2>4. CASE \E j \in toAgent : work' = work \cup {[task |-> j, phase |-> "prepare", live |-> TRUE]}
    BY <2>1, <2>4 DEF Ahead
  <2>5. CASE \E v \in work : work' = (work \ {v}) \cup {[v EXCEPT !.phase = "apply"]}
    <3>1. PICK v \in work : work' = (work \ {v}) \cup {[v EXCEPT !.phase = "apply"]}
      BY <2>5
    <3>2. v \in [task : Nat, phase : {"prepare", "apply"}, live : BOOLEAN]
      BY DEF TypeInv, TypeOK
    <3>3. [v EXCEPT !.phase = "apply"].task = v.task
      BY <3>2
    <3> QED BY <2>1, <3>1, <3>3 DEF Ahead
  <2> QED BY <2>1, <2>2, <2>3, <2>4, <2>5 DEF Ahead
<1> QED BY <1>1, <1>2, <1>3 DEF Ahead

-----------------------------------------------------------------------------
(***************************************************************************)
(* A deleted row means a node that is gone.  A row is created once, and so *)
(* is its node: before the one creation of a node has been carried out,    *)
(* nodes.json does not list it; once a deletion has, no creation of it is  *)
(* to come any more.                                                       *)
(***************************************************************************)
Creating(n) == {h \in Handlers : req[h].pc = "insert" /\ req[h].op = "create" /\ req[h].node = n}
Creates(n)  == {i \in DOMAIN tasks : tasks[i].type = "create" /\ tasks[i].node = n}
Coming(n)   == Creating(n) # {} \/ \E i \in Creates(n) : Ahead(i)

\* Has the Agent said, and the Manager not yet acted on it, that an operation of one
\* of these types on node n has been carried out?
Said(n, types) ==
  \E r \in results \cup {reader} :
    r.ok /\ tasks[r.task].node = n /\ tasks[r.task].type \in types

OnceCreated(n) ==
  /\ \A g, h \in Creating(n) : g = h
  /\ \A i, j \in Creates(n) : i = j
  /\ Creating(n) # {} => Creates(n) = {}

GoneInv ==
  \A n \in Nodes :
    /\ OnceCreated(n)
    /\ row[n] = "none" \/ Coming(n) => nodesFile[n] = Absent
    /\ row[n] = "deleted" \/ Said(n, {"delete"}) => nodesFile[n] = Absent /\ ~Coming(n)

LEMMA SaidStep ==
  ASSUME TypeInv, [Next]_vars, NEW n \in Nodes,
         NEW T \in SUBSET {"create", "update", "delete", "enable", "disable"}, Said(n, T)'
  PROVE  \/ Said(n, T)
         \/ \E w \in work : /\ Apply(w) /\ w.task \in DOMAIN tasks
                            /\ tasks[w.task].node = n /\ tasks[w.task].type \in T
<1>1. PICK r \in results' \cup {reader'} : r.ok /\ tasks'[r.task].node = n /\ tasks'[r.task].type \in T
  BY DEF Said
<1>2. r # NoOutcome
  BY <1>1 DEF NoOutcome
<1>3. r \in results \cup {reader} \/ \E w \in work : w.task = r.task /\ (Execute(w) \/ Apply(w))
  BY <1>1, <1>2, ResultsStep
<1>4. r.task \in DOMAIN tasks
  BY <1>2, <1>3 DEF TypeInv, RefInv
<1>5. tasks[r.task].node = n /\ tasks[r.task].type \in T
  BY <1>1, <1>4, TasksGrow
<1>6. CASE r \in results \cup {reader}
  BY <1>1, <1>5, <1>6 DEF Said
<1>7. CASE \E w \in work : w.task = r.task /\ Execute(w)
  <2>1. tasks[r.task].type \in {"limit", "restart"}
    BY <1>7 DEF Execute, Direct
  <2> QED BY <1>5, <2>1
<1>8. CASE \E w \in work : w.task = r.task /\ Apply(w)
  BY <1>4, <1>5, <1>8
<1> QED BY <1>3, <1>6, <1>7, <1>8

LEMMA AheadIn ==
  ASSUME TypeInv, NEW i, Ahead(i)
  PROVE  i \in DOMAIN tasks
BY DEF TypeInv, RefInv, Ahead

LEMMA CreatingStep ==
  ASSUME TypeInv, SeenInv, [Next]_vars, NEW n \in Nodes, NEW h \in Creating(n)'
  PROVE  h \in Handlers /\ (h \in Creating(n) \/ CreateRow(h, n))
<1>1. h \in Handlers /\ req'[h].pc = "insert" /\ req'[h].op = "create" /\ req'[h].node = n
  BY DEF Creating
<1>2. \/ req'[h] = req[h]
      \/ \E m \in Nodes : CreateRow(h, m) /\ req'[h].node = m
      \/ req[h].pc = "read" /\ req'[h].op = req[h].op
  BY <1>1, ReqStep
<1> QED BY <1>1, <1>2 DEF Creating, SeenInv

LEMMA CreatesStep ==
  ASSUME TypeInv, [Next]_vars, NEW n \in Nodes, NEW i \in Creates(n)'
  PROVE  \/ i \in Creates(n)
         \/ i = Len(tasks) + 1 /\ \E h \in Creating(n) : InsertTask(h)
<1>1. i \in DOMAIN tasks' /\ tasks'[i].type = "create" /\ tasks'[i].node = n
  BY DEF Creates
<1>2. CASE i \in DOMAIN tasks
  BY <1>1, <1>2, TasksGrow DEF Creates
<1>3. CASE i \notin DOMAIN tasks
  <2>1. PICK h \in Handlers : InsertTask(h)
    BY <1>1, <1>3, TasksGrow
  <2>2. i = Len(tasks) + 1 /\ req[h].op = "create" /\ req[h].node = n
    BY <1>1, <1>3, <2>1, InsertIs
  <2>3. req[h].pc = "insert"
    BY <2>1 DEF InsertTask
  <2> QED BY <2>1, <2>2, <2>3 DEF Creating
<1> QED BY <1>2, <1>3

LEMMA ComingStep ==
  ASSUME TypeInv, SeenInv, [Next]_vars, NEW n \in Nodes, Coming(n)'
  PROVE  Coming(n) \/ \E h \in Handlers : CreateRow(h, n)
<1>1. CASE Creating(n)' # {}
  BY <1>1, CreatingStep DEF Coming
<1>2. CASE \E i \in Creates(n)' : Ahead(i)'
  <2>1. PICK i \in Creates(n)' : Ahead(i)'
    BY <1>2
  <2>2. Ahead(i) \/ i \notin DOMAIN tasks
    BY <2>1, AheadStep
  <2>3. i \in Creates(n) \/ \E h \in Creating(n) : InsertTask(h)
    BY CreatesStep
  <2>4. CASE i \in Creates(n)
    BY <2>2, <2>4 DEF Creates, Coming
  <2>5. CASE \E h \in Creating(n) : InsertTask(h)
    BY <2>5 DEF Coming
  <2> QED BY <2>3, <2>4, <2>5
<1> QED BY <1>1, <1>2 DEF Coming

LEMMA OnceCreatedStep ==
  ASSUME TypeInv, SeenInv, NoneInv, [Next]_vars, NEW n \in Nodes, OnceCreated(n)
  PROVE  OnceCreated(n)'
<1>1. CASE \E h \in Handlers : CreateRow(h, n)
  <2>1. PICK h \in Handlers : CreateRow(h, n)
    BY <1>1
  <2>2. row[n] = "none" /\ tasks' = tasks
    BY <2>1 DEF CreateRow
  <2>3. Creating(n) = {} /\ Creates(n) = {}
    BY <2>2 DEF NoneInv, Creating, Creates
  <2>4. \A g \in Handlers : g # h => req'[g] = req[g]
    BY <2>1 DEF CreateRow, Serve, TypeInv, TypeOK
  <2>5. Creates(n)' = {}
    BY <2>2, <2>3 DEF Creates
  <2>6. \A g \in Creating(n)' : g = h
    BY <2>3, <2>4 DEF Creating
  <2> QED BY <2>5, <2>6 DEF OnceCreated
<1>2. CASE ~\E h \in Handlers : CreateRow(h, n)
  <2>1. Creating(n)' \subseteq Creating(n)
    BY <1>2, CreatingStep
  <2>2. CASE \E h \in Creating(n) : InsertTask(h)
    <3>1. PICK h \in Creating(n) : InsertTask(h)
      BY <2>2
    <3>2. h \in Handlers /\ Creates(n) = {} /\ \A g \in Creating(n) : g = h
      BY <3>1 DEF OnceCreated, Creating
    <3>3. req'[h].pc = "send"
      <4>1. req' = [req EXCEPT ![h] = [req[h] EXCEPT !.pc = "send", !.task = Len(tasks) + 1]]
        BY <3>1 DEF InsertTask, Serve
      <4>2. req[h] \in Request
        BY <3>2 DEF TypeInv, TypeOK
      <4>3. [req[h] EXCEPT !.pc = "send", !.task = Len(tasks) + 1].pc = "send"
        BY <4>2 DEF Request
      <4> QED BY <3>2, <4>1, <4>3 DEF TypeInv, TypeOK
    <3>4. Creating(n)' = {}
      BY <2>1, <3>2, <3>3 DEF Creating
    <3>5. \A i \in Creates(n)' : i = Len(tasks) + 1
      BY <3>2, CreatesStep
    <3> QED BY <3>4, <3>5 DEF OnceCreated
  <2>3. CASE ~\E h \in Creating(n) : InsertTask(h)
    <3>1. Creates(n)' \subseteq Creates(n)
      BY <2>3, CreatesStep
    <3> QED BY <2>1, <3>1 DEF OnceCreated
  <2> QED BY <2>2, <2>3
<1> QED BY <1>1, <1>2

\* What has been carried out is not carried out again.
LEMMA ApplyEnds ==
  ASSUME TypeInv, OnceInv, NEW w \in work, Apply(w) \/ ApplyFails(w)
  PROVE  ~Ahead(w.task)'
<1>1. /\ work' = work \ {w} /\ toAgent' = toAgent /\ req' = req
  BY DEF Apply, ApplyFails, Report, managerRun
<1> QED BY <1>1 DEF OnceInv, Ahead

LEMMA GoneStep ==
  ASSUME TypeInv, SeenInv, NoneInv, OnceInv, CandInv, GoneInv, [Next]_vars
  PROVE  GoneInv'
<1> SUFFICES ASSUME NEW n \in Nodes
             PROVE  /\ OnceCreated(n)'
                    /\ row'[n] = "none" \/ Coming(n)' => nodesFile'[n] = Absent
                    /\ row'[n] = "deleted" \/ Said(n, {"delete"})'
                         => nodesFile'[n] = Absent /\ ~Coming(n)'
  BY DEF GoneInv
<1>a. /\ OnceCreated(n)
      /\ row[n] = "none" \/ Coming(n) => nodesFile[n] = Absent
      /\ row[n] = "deleted" \/ Said(n, {"delete"}) => nodesFile[n] = Absent /\ ~Coming(n)
  BY DEF GoneInv
<1>b. row[n] = "none" => ~Coming(n) /\ ~Said(n, {"delete"})
  <2> SUFFICES ASSUME row[n] = "none" PROVE ~Coming(n) /\ ~Said(n, {"delete"})
    OBVIOUS
  <2>1. ~Coming(n)
    BY DEF NoneInv, Coming, Creating, Creates
  <2>2. \A r \in results \cup {reader} : r.ok => r.task \in DOMAIN tasks
    BY DEF TypeInv, RefInv, NoOutcome
  <2> QED BY <2>1, <2>2 DEF NoneInv, Said
<1>1. OnceCreated(n)'
  BY <1>a, OnceCreatedStep
<1>2. CASE \E h \in Handlers : CreateRow(h, n)
  <2>1. PICK h \in Handlers : CreateRow(h, n)
    BY <1>2
  <2>2. /\ row[n] = "none" /\ row'[n] = "provisioning"
        /\ UNCHANGED <<nodesFile, tasks, results, reader>>
    BY <2>1 DEF CreateRow, RowCreated, network, agent, TypeInv, TypeOK
  <2>3. ~Said(n, {"delete"})'
    BY <1>b, <2>2 DEF Said
  <2> QED BY <1>1, <1>a, <2>2, <2>3
<1>3. CASE ~\E h \in Handlers : CreateRow(h, n)
  <2>1. Coming(n)' => Coming(n)
    BY <1>3, ComingStep
  <2>2. row'[n] = "none" => row[n] = "none"
    BY RowStep
  <2>3. CASE nodesFile'[n] = nodesFile[n]
    <3>1. ASSUME Said(n, {"delete"})' PROVE nodesFile'[n] = Absent /\ ~Coming(n)'
      <4>1. CASE Said(n, {"delete"})
        BY <1>a, <2>1, <2>3, <4>1
      <4>2. CASE \E w \in work : /\ Apply(w) /\ w.task \in DOMAIN tasks
                                 /\ tasks[w.task].node = n /\ tasks[w.task].type = "delete"
        <5>1. PICK w \in work : /\ Apply(w) /\ w.task \in DOMAIN tasks
                                /\ tasks[w.task].node = n /\ tasks[w.task].type = "delete"
          BY <4>2
        <5>2. nodesFile'[n] = Changed(w.task)[n] /\ Applicable(w.task)
          BY <5>1 DEF Apply, CandInv
        <5>3. Changed(w.task)[n] = Absent /\ nodesFile[n] # Absent
          BY <5>1, <5>2 DEF Changed, Applicable, TypeInv, TypeOK
        <5> QED BY <2>3, <5>2, <5>3
      <4> QED BY <3>1, <4>1, <4>2, SaidStep
    <3>2. ASSUME row'[n] = "deleted" PROVE nodesFile'[n] = Absent /\ ~Coming(n)'
      <4>1. row[n] = "deleted" \/ Said(n, {"delete"})
        BY <1>3, <3>2, RowStep DEF Said
      <4> QED BY <1>a, <2>1, <2>3, <4>1
    <3> QED BY <1>1, <1>a, <2>1, <2>2, <2>3, <3>1, <3>2
  <2>4. CASE \E w \in work : /\ Apply(w) \/ ApplyFails(w)
                             /\ w.task \in DOMAIN tasks /\ tasks[w.task].node = n
                             /\ Applicable(w.task) /\ ~Direct(w.task)
                             /\ nodesFile'[n] = Changed(w.task)[n]
    <3>1. PICK w \in work : /\ Apply(w) \/ ApplyFails(w)
                            /\ w.task \in DOMAIN tasks /\ tasks[w.task].node = n
                            /\ Applicable(w.task) /\ ~Direct(w.task)
                            /\ nodesFile'[n] = Changed(w.task)[n]
      BY <2>4
    <3>2. Ahead(w.task) /\ ~Ahead(w.task)' /\ row' = row /\ tasks' = tasks /\ req' = req
      BY <3>1, ApplyEnds DEF Ahead, Apply, ApplyFails, managerDisk, managerRun
    <3>3. row[n] # "none"
      BY <3>1 DEF NoneInv
    <3>4. CASE tasks[w.task].type = "create"
      <4>1. w.task \in Creates(n) /\ Coming(n)
        BY <3>1, <3>2, <3>4 DEF Creates, Coming
      <4>2. Creating(n) = {} /\ \A i \in Creates(n) : i = w.task
        BY <1>a, <4>1 DEF OnceCreated
      <4>3. ~Coming(n)'
        BY <3>2, <4>2 DEF Coming, Creating, Creates
      <4>4. ~(row[n] = "deleted" \/ Said(n, {"delete"}))
        BY <1>a, <4>1
      <4>5. ~Said(n, {"delete"})'
        <5> SUFFICES ASSUME Said(n, {"delete"})' PROVE FALSE
          OBVIOUS
        <5>1. PICK v \in work : /\ Apply(v) /\ tasks[v.task].type = "delete"
          BY <4>4, SaidStep
        <5>2. v.task = w.task
          BY <3>1, <5>1 DEF Apply, ApplyFails, CandInv
        <5> QED BY <3>4, <5>1, <5>2
      <4> QED BY <1>1, <3>2, <3>3, <4>3, <4>4, <4>5
    <3>5. CASE tasks[w.task].type # "create"
      <4>1. nodesFile[n] # Absent
        BY <3>1, <3>5 DEF Applicable, Direct
      <4>2. ~Coming(n) /\ row[n] # "deleted" /\ ~Said(n, {"delete"})
        BY <1>a, <4>1
      <4>3. ASSUME Said(n, {"delete"})' PROVE nodesFile'[n] = Absent
        <5>1. PICK v \in work : /\ Apply(v) /\ tasks[v.task].type = "delete"
          BY <4>2, <4>3, SaidStep
        <5>2. v.task = w.task
          BY <3>1, <5>1 DEF Apply, ApplyFails, CandInv
        <5> QED BY <3>1, <5>1, <5>2 DEF Changed, TypeInv, TypeOK
      <4> QED BY <1>1, <2>1, <3>2, <3>3, <4>2, <4>3
    <3> QED BY <3>4, <3>5
  <2> QED BY <2>3, <2>4, FilesStep
<1> QED BY <1>2, <1>3

\* What holds of every run, and what holds when the Agent's handlers do not interleave.
BaseInv == TypeInv /\ SeenInv /\ NoneInv /\ OnceInv

LEMMA BaseInit == Init => BaseInv
<1> SUFFICES ASSUME Init PROVE BaseInv
  OBVIOUS
<1>1. TypeInv
  BY TypeInit
<1>2. SeenInv /\ NoneInv /\ OnceInv
  <2>1. \A h \in Handlers : req[h].pc = "idle"
    BY Constants DEF Init
  <2>2. DOMAIN tasks = {} /\ toAgent = {} /\ results = {} /\ work = {}
    BY EmptySeq DEF Init
  <2>3. \A n \in Nodes : want[n].limit = 0 /\ held[n] = 0
    BY DEF Init
  <2> QED BY <2>1, <2>2, <2>3 DEF SeenInv, NoneInv, OnceInv
<1> QED BY <1>1, <1>2 DEF BaseInv

LEMMA Base == Spec => []BaseInv
<1>1. BaseInv /\ [Next]_vars => BaseInv'
  BY TypeStep, SeenStep, NoneStep, OnceStep DEF BaseInv
<1> QED BY <1>1, BaseInit, PTL DEF Spec

\* No task is carried out twice and no result is reported twice, although connections are
\* made again and the Agent restarts: nothing sends a task a second time, and a verdict
\* of the Agent is only recorded after it has finished with the task.
THEOREM CarriedOutOnce == Spec => []OnceInv
<1>1. BaseInv => OnceInv
  BY DEF BaseInv
<1> QED BY <1>1, Base, PTL

LEMMA GoneInit == Init => CandInv /\ GoneInv
<1> SUFFICES ASSUME Init PROVE CandInv /\ GoneInv
  OBVIOUS
<1>1. \A h \in Handlers : req[h].pc = "idle"
  BY Constants DEF Init
<1>2. DOMAIN tasks = {} /\ toAgent = {} /\ results = {} /\ work = {} /\ reader.ok = FALSE
  BY EmptySeq DEF Init, NoOutcome
<1>3. \A n \in Nodes : row[n] # "deleted" /\ (row[n] = "none" => nodesFile[n] = Absent)
  BY DEF Init
<1> QED BY <1>1, <1>2, <1>3 DEF CandInv, GoneInv, OnceCreated, Coming, Creating, Creates, Said

\* As long as the Agent's handlers do not interleave, a node whose row is deleted is
\* no longer in nodes.json, and stays so: no creation or change of it that was
\* delayed and is carried out after the deletion brings it back, whatever is lost or
\* crashes.  With handlers that interleave, one writes back what another has
\* removed.
THEOREM DeletedStaysGone == ASSUME ~Interleaved PROVE Spec => []DeletedIsGone
<1>1. BaseInv /\ CandInv /\ GoneInv /\ [Next]_vars => CandInv' /\ GoneInv'
  BY CandStep, GoneStep DEF BaseInv
<1>2. GoneInv => DeletedIsGone
  BY DEF GoneInv, DeletedIsGone
<1> QED BY <1>1, <1>2, GoneInit, Base, PTL DEF Spec

-----------------------------------------------------------------------------
(***************************************************************************)
(* An active row means a node that is there.  Versions of a definition     *)
(* start at 1, so that no change of a node that is there is mistaken for   *)
(* its absence; only a deletion takes a node away.                         *)
(***************************************************************************)
Deletes(n) == {i \in DOMAIN tasks : tasks[i].node = n /\ tasks[i].type = "delete"}
Brings     == {"create", "update", "enable"}   \* the types whose success makes a row active

RealInv ==
  /\ \A i \in DOMAIN tasks : tasks[i].type \in {"create", "update"} => tasks[i].ver >= 1
  /\ \A h \in Handlers :
       req[h].pc = "insert" /\ req[h].op \in {"create", "update"} => req[h].ver >= 1
  /\ \A n \in Nodes :
       /\ nodesFile[n] # Absent => nodesFile[n].ver >= 1
       /\ row[n] = "active" \/ Said(n, Brings) => nodesFile[n] # Absent \/ Deletes(n) # {}

LEMMA ChangedIs ==
  ASSUME TypeInv, RealInv, NEW i \in DOMAIN tasks, NEW n \in Nodes, tasks[i].node = n,
         Applicable(i), ~Direct(i)
  PROVE  /\ Changed(i)[n] # Absent => Changed(i)[n].ver >= 1
         /\ Changed(i)[n] = Absent => tasks[i].type = "delete"
<1>1. /\ nodesFile \in [Nodes -> LocalNode] /\ nodesFile[n] \in LocalNode
      /\ tasks[i].ver \in Nat
      /\ tasks[i].type \in {"create", "update", "delete", "enable", "disable"}
  <2>1. tasks \in Seq(TaskRow) /\ i \in 1..Len(tasks)
    BY DEF TypeInv, TypeOK
  <2>2. tasks[i] \in TaskRow
    BY <2>1
  <2>3. tasks[i].type \in Ops /\ tasks[i].ver \in Nat
    BY <2>2 DEF TaskRow
  <2> QED BY <2>3, ConstantsAssumption DEF TypeInv, TypeOK, Direct
<1>2. CASE tasks[i].type = "create"
  <2>1. Changed(i)[n] = [ver |-> tasks[i].ver, on |-> TRUE]
    BY <1>1, <1>2 DEF Changed
  <2> QED BY <1>2, <2>1 DEF RealInv, Absent
<1>3. CASE tasks[i].type = "delete"
  BY <1>1, <1>3 DEF Changed
<1>4. CASE tasks[i].type = "update"
  <2>1. Changed(i)[n] = [nodesFile[n] EXCEPT !.ver = tasks[i].ver] /\ tasks[i].ver >= 1
    BY <1>1, <1>4 DEF Changed, RealInv
  <2>2. Changed(i)[n].ver = tasks[i].ver
    BY <1>1, <2>1 DEF LocalNode
  <2> QED BY <1>1, <2>1, <2>2 DEF Absent
<1>5. CASE tasks[i].type \in {"enable", "disable"}
  <2>1. \E b \in BOOLEAN : Changed(i)[n] = [nodesFile[n] EXCEPT !.on = b]
    BY <1>1, <1>5 DEF Changed
  <2>2. Changed(i)[n].ver = nodesFile[n].ver
    BY <1>1, <2>1 DEF LocalNode
  <2>3. nodesFile[n] # Absent
    BY <1>5 DEF Applicable
  <2> QED BY <1>1, <2>2, <2>3 DEF RealInv, Absent
<1> QED BY <1>1, <1>2, <1>3, <1>4, <1>5

LEMMA RealStep ==
  ASSUME TypeInv, SeenInv, CandInv, RealInv, [Next]_vars
  PROVE  RealInv'
<1>1. ASSUME NEW i \in DOMAIN tasks', tasks'[i].type \in {"create", "update"}
      PROVE  tasks'[i].ver >= 1
  <2>1. CASE i \in DOMAIN tasks
    BY <1>1, <2>1, TasksGrow DEF RealInv
  <2>2. CASE i \notin DOMAIN tasks
    <3>1. PICK h \in Handlers : InsertTask(h)
      BY <2>2, TasksGrow
    <3>2. tasks'[i].ver = req[h].ver /\ tasks'[i].type = req[h].op /\ req[h].pc = "insert"
      BY <2>2, <3>1, InsertIs DEF InsertTask
    <3> QED BY <1>1, <3>2 DEF RealInv
  <2> QED BY <2>1, <2>2
<1>2. ASSUME NEW h \in Handlers, req'[h].pc = "insert", req'[h].op \in {"create", "update"}
      PROVE  req'[h].ver >= 1
  <2>1. CASE req'[h] = req[h]
    BY <1>2, <2>1 DEF RealInv
  <2>2. CASE req'[h].ver = 1
    BY <2>2
  <2>3. CASE MarkUpdate(h) /\ req'[h].ver = want[req[h].node].config + 1
    <3>1. req[h].node \in Nodes
      BY DEF TypeInv, TypeOK, Request
    <3>2. want[req[h].node].config \in Nat
      BY <3>1 DEF TypeInv, TypeOK, Desired
    <3> QED BY <2>3, <3>2
  <2>4. CASE /\ MarkLimit(h) \/ MarkDelete(h) \/ MarkToggle(h)
             /\ req'[h].op = req[h].op
    BY <1>2, <2>4 DEF MarkLimit, MarkDelete, MarkToggle
  <2> QED BY <1>2, <2>1, <2>2, <2>3, <2>4, ReqStep
<1>3. ASSUME NEW n \in Nodes, nodesFile'[n] # Absent PROVE nodesFile'[n].ver >= 1
  BY <1>3, FilesStep, ChangedIs DEF RealInv
<1>4. ASSUME NEW n \in Nodes, row'[n] = "active" \/ Said(n, Brings)'
      PROVE  nodesFile'[n] # Absent \/ Deletes(n)' # {}
  <2>1. Deletes(n) # {} => Deletes(n)' # {}
    BY TasksGrow DEF Deletes
  <2>2. CASE nodesFile'[n] = nodesFile[n]
    <3>1. CASE row[n] = "active" \/ Said(n, Brings)
      BY <2>1, <2>2, <3>1 DEF RealInv
    <3>2. CASE Said(n, Brings)' /\ ~Said(n, Brings)
      <4>1. PICK w \in work : /\ Apply(w) /\ w.task \in DOMAIN tasks
                              /\ tasks[w.task].node = n /\ tasks[w.task].type \in Brings
        <5>1. Brings \in SUBSET {"create", "update", "delete", "enable", "disable"}
          BY DEF Brings
        <5> QED BY <3>2, <5>1, SaidStep
      <4>2. nodesFile' = Changed(w.task) /\ Applicable(w.task) /\ ~Direct(w.task)
        BY <4>1 DEF Apply, CandInv
      <4>3. nodesFile'[n] # Absent
        BY <4>1, <4>2, ChangedIs DEF Brings
      <4> QED BY <4>3
    <3>3. CASE row'[n] = "active" /\ row[n] # "active"
      <4>1. Said(n, Brings)
        BY <3>3, RowStep DEF Said, Brings
      <4> QED BY <2>1, <2>2, <4>1 DEF RealInv
    <3> QED BY <1>4, <3>1, <3>2, <3>3
  <2>3. CASE \E w \in work : /\ Apply(w) \/ ApplyFails(w)
                             /\ w.task \in DOMAIN tasks /\ tasks[w.task].node = n
                             /\ Applicable(w.task) /\ ~Direct(w.task)
                             /\ nodesFile'[n] = Changed(w.task)[n]
    <3>1. PICK w \in work : /\ w.task \in DOMAIN tasks /\ tasks[w.task].node = n
                            /\ Applicable(w.task) /\ ~Direct(w.task)
                            /\ nodesFile'[n] = Changed(w.task)[n]
      BY <2>3
    <3>2. nodesFile'[n] = Absent => w.task \in Deletes(n)
      BY <3>1, ChangedIs DEF Deletes
    <3> QED BY <2>1, <3>2
  <2> QED BY <2>2, <2>3, FilesStep
<1> QED BY <1>1, <1>2, <1>3, <1>4 DEF RealInv

\* As long as the Agent's handlers do not interleave, a node shown active is one
\* nodes.json lists, unless a task to delete it exists: a success reported late,
\* after a timeout or to a Manager that was restarted, never shows a node that the
\* Agent does not have.
THEOREM ActiveNodesExist == ASSUME ~Interleaved PROVE Spec => []ActiveIsReal
<1>1. Init => CandInv /\ RealInv
  <2> SUFFICES ASSUME Init PROVE RealInv
    BY GoneInit
  <2>1. \A h \in Handlers : req[h].pc = "idle"
    BY Constants DEF Init
  <2>2. DOMAIN tasks = {} /\ results = {} /\ reader.ok = FALSE
    BY EmptySeq DEF Init, NoOutcome
  <2>3. \A n \in Nodes : /\ nodesFile[n] # Absent => nodesFile[n].ver >= 1
                         /\ row[n] = "active" => nodesFile[n] # Absent
    BY DEF Init, Absent
  <2> QED BY <2>1, <2>2, <2>3 DEF RealInv, Said
<1>2. BaseInv /\ CandInv /\ RealInv /\ [Next]_vars => CandInv' /\ RealInv'
  BY CandStep, RealStep DEF BaseInv
<1>3. RealInv => ActiveIsReal
  BY DEF RealInv, ActiveIsReal, Deletes
<1> QED BY <1>1, <1>2, <1>3, Base, PTL DEF Spec

-----------------------------------------------------------------------------
(***************************************************************************)
(* The limit shown is the limit enforced.  When none of a node's limit     *)
(* tasks was created while another was under way, the Agent carries them   *)
(* out in the order of the table, and the last one asks for the version    *)
(* that the Manager has on record.                                         *)
(***************************************************************************)
Asking(n)   == {h \in Handlers : req[h].pc = "insert" /\ req[h].op = "limit" /\ req[h].node = n}
AllAlone(n) == \A i \in LimitsOf(n) : tasks[i].alone
Last(n, i)  == i \in LimitsOf(n) /\ \A j \in LimitsOf(n) : j <= i
Reported(i) == tasks[i].status = "success" \/ [task |-> i, ok |-> TRUE] \in results

\* The Agent's side: tasks are told of in order, and it holds what the last one said.
EnforcedInv ==
  \A n \in Nodes :
    /\ \A i, j \in LimitsOf(n) : tasks[i].alone /\ j < i => tasks[j].status \in Told
    /\ LimitsOf(n) = {} => held[n] = 0
    /\ AllAlone(n) =>
         \A i \in LimitsOf(n) : Last(n, i) /\ Reported(i) => held[n] = tasks[i].ver

\* The Manager's side: what it has on record is what is being asked for, or what the
\* last task asks for.
RecordedInv ==
  \A n \in Nodes : ~ManagerFailed /\ Exists(n) /\ AllAlone(n) =>
    /\ \A h \in Asking(n) : Asking(n) = {h} => req[h].ver = want[n].limit
    /\ Asking(n) = {} =>
         \/ LimitsOf(n) = {} /\ want[n].limit = 0
         \/ \E i \in LimitsOf(n) : Last(n, i) /\ want[n].limit = tasks[i].ver

\* What a step makes of the limit tasks of a node.
LEMMA LimitsStep ==
  ASSUME TypeInv, [Next]_vars, NEW n \in Nodes
  PROVE  /\ LimitsOf(n) \subseteq LimitsOf(n)' /\ LimitsOf(n) \subseteq DOMAIN tasks
         /\ \A i \in LimitsOf(n) : tasks'[i].ver = tasks[i].ver /\ tasks'[i].alone = tasks[i].alone
         /\ AllAlone(n)' => AllAlone(n)
         /\ \/ LimitsOf(n)' = LimitsOf(n)
            \/ \E h \in Asking(n) : /\ InsertTask(h)
                                    /\ LimitsOf(n)' = LimitsOf(n) \cup {Len(tasks) + 1}
<1>1. /\ LimitsOf(n) \subseteq LimitsOf(n)' /\ LimitsOf(n) \subseteq DOMAIN tasks
      /\ \A i \in LimitsOf(n) : tasks'[i].ver = tasks[i].ver /\ tasks'[i].alone = tasks[i].alone
  BY TasksGrow DEF LimitsOf
<1>2. AllAlone(n)' => AllAlone(n)
  BY <1>1 DEF AllAlone
<1>3. CASE LimitsOf(n)' \subseteq LimitsOf(n)
  BY <1>1, <1>2, <1>3
<1>4. CASE ~(LimitsOf(n)' \subseteq LimitsOf(n))
  <2>1. PICK i \in LimitsOf(n)' : i \notin LimitsOf(n)
    BY <1>4
  <2>2. i \in DOMAIN tasks' /\ i \notin DOMAIN tasks
        /\ tasks'[i].node = n /\ tasks'[i].type = "limit"
    BY <2>1, TasksGrow DEF LimitsOf
  <2>3. PICK h \in Handlers : InsertTask(h)
    BY <2>2, TasksGrow
  <2>4. i = Len(tasks) + 1 /\ req[h].op = "limit" /\ req[h].node = n
    BY <2>2, <2>3, InsertIs
  <2>5. h \in Asking(n)
    BY <2>3, <2>4 DEF Asking, InsertTask
  <2>6. DOMAIN tasks' = DOMAIN tasks \cup {i}
    BY <2>3, <2>4, InsertIs
  <2>7. LimitsOf(n)' = LimitsOf(n) \cup {i}
    BY <2>2, <2>6, TasksGrow DEF LimitsOf
  <2> QED BY <1>1, <1>2, <2>3, <2>4, <2>5, <2>7
<1> QED BY <1>3, <1>4

LEMMA AskingStep ==
  ASSUME TypeInv, [Next]_vars, NEW n \in Nodes, NEW h \in Asking(n)'
  PROVE  /\ h \in Handlers
         /\ \/ h \in Asking(n) /\ req'[h] = req[h]
            \/ MarkLimit(h) /\ req[h].node = n /\ req'[h].ver = want[n].limit + 1
<1>1. h \in Handlers /\ req'[h].pc = "insert" /\ req'[h].op = "limit" /\ req'[h].node = n
  BY DEF Asking
<1>2. \/ req'[h] = req[h]
      \/ /\ req'[h].op = req[h].op /\ req'[h].node = req[h].node
         /\ \/ MarkUpdate(h) \/ MarkDelete(h) \/ MarkToggle(h)
            \/ MarkLimit(h) /\ req'[h].ver = want[req[h].node].limit + 1
  BY <1>1, ReqStep
<1> QED
  BY <1>1, <1>2 DEF Asking, MarkUpdate, MarkDelete, MarkToggle

\* A handler whose mark is not undone INSERTs its task, unless the Manager fails.
LEMMA InsertsOrWaits ==
  ASSUME TypeInv, [Next]_vars, ~ManagerFailed', NEW h \in Handlers, req[h].pc = "insert",
         req[h].op \notin {"create", "update"}
  PROVE  req'[h] = req[h] \/ InsertTask(h)
<1>1. /\ ~ManagerCrash /\ ~CallbackFails
      /\ \A g \in Handlers : InsertFails(g) => req[g].op \in {"create", "update"}
  BY FailureStays
<1>2. req \in [Handlers -> Request]
  BY DEF TypeInv, TypeOK
<1>3. ASSUME NEW g \in Handlers, NEW r, req[g].pc # "insert", Serve(g, r)
      PROVE  req'[h] = req[h]
  BY <1>2, <1>3 DEF Serve
<1>4. CASE \E g \in Handlers, n \in Nodes : CreateRow(g, n) \/ \E op \in Ops : ReadRow(g, n, op)
  BY <1>3, <1>4 DEF CreateRow, ReadRow
<1>5. CASE \E g \in Handlers : \/ MarkUpdate(g) \/ MarkDelete(g) \/ MarkToggle(g) \/ MarkLimit(g)
                               \/ Send(g) \/ SendOffline(g) \/ MarkSent(g)
  <2>1. PICK g \in Handlers : \/ MarkUpdate(g) \/ MarkDelete(g) \/ MarkToggle(g) \/ MarkLimit(g)
                              \/ Send(g) \/ SendOffline(g) \/ MarkSent(g)
    BY <1>5
  <2>2. req[g].pc # "insert" /\ \E r : Serve(g, r)
    BY <2>1 DEF MarkUpdate, MarkDelete, MarkToggle, MarkLimit, Send, SendOffline, MarkSent
  <2> QED BY <1>3, <2>2
<1>6. CASE \E g \in Handlers : InsertTask(g)
  <2>1. PICK g \in Handlers : InsertTask(g)
    BY <1>6
  <2>2. g # h => req'[h] = req[h]
    BY <1>2, <2>1 DEF InsertTask, Serve
  <2> QED BY <2>1, <2>2
<1>8. CASE \E g \in Handlers : InsertFails(g)
  BY <1>1, <1>2, <1>8 DEF InsertFails, Serve
<1>7. CASE AgentStep \/ ManagerStep \/ Connect \/ Disconnect \/ Notice \/ AgentCrash \/ UNCHANGED vars
  BY <1>7 DEF AgentStep, ManagerStep, Receive, Prepare, Execute, Refuse, Apply, ApplyFails,
     TakeResult, ResultCallback, CallbackFails, SweepSelect, SweepMark, SweepCallback, Connect,
     Disconnect, Notice, AgentCrash, vars, managerRun
<1> QED BY <1>1, <1>4, <1>5, <1>6, <1>7, <1>8 DEF Next, Proceed

\* Only tasks that change nodes.json have candidates.
FileTasks == \A w \in work : w.phase = "apply" => ~Direct(w.task)

LEMMA FileTasksStep == TypeInv /\ FileTasks /\ [Next]_vars => FileTasks'
<1> SUFFICES ASSUME TypeInv, FileTasks, [Next]_vars, NEW w \in work', w.phase = "apply"
             PROVE  ~Direct(w.task)'
  BY DEF FileTasks
<1>1. \E v \in work : w.task = v.task /\ ~Direct(v.task)
  <2>1. CASE w \in work
    BY <2>1 DEF FileTasks
  <2>2. CASE w \in Orphaned
    BY <2>2, OrphanIs DEF FileTasks
  <2>3. ASSUME NEW v \in work, Prepare(v), w = [v EXCEPT !.phase = "apply"]
        PROVE  w.task = v.task /\ ~Direct(v.task)
    BY <2>3 DEF Prepare, TypeInv, TypeOK
  <2>4. \/ work' \subseteq work \/ work' = Orphaned
        \/ \E j \in toAgent : work' = work \cup {[task |-> j, phase |-> "prepare", live |-> TRUE]}
        \/ \E v \in work : Prepare(v) /\ work' = (work \ {v}) \cup {[v EXCEPT !.phase = "apply"]}
    BY DEF Next, Proceed, AgentStep, ManagerStep, CreateRow, ReadRow, MarkUpdate, MarkLimit,
       MarkDelete, MarkToggle, InsertTask, InsertFails, Send, SendOffline, MarkSent, Receive,
       Prepare, Execute, Refuse, Apply, Report, ApplyFails, TakeResult, ResultCallback,
       CallbackFails, SweepSelect, SweepMark, SweepCallback, Connect, Disconnect, Notice,
       AgentCrash, ManagerCrash, vars, agent
  <2> QED BY <2>1, <2>2, <2>3, <2>4
<1>2. PICK v \in work : w.task = v.task /\ ~Direct(v.task)
  BY <1>1
<1>3. v.task \in DOMAIN tasks
  BY DEF TypeInv, RefInv
<1> QED BY <1>2, <1>3, TasksGrow DEF Direct

LEMMA EnforcedStep ==
  ASSUME TypeInv, OnceInv, FileTasks, EnforcedInv, [Next]_vars
  PROVE  EnforcedInv'
<1> SUFFICES ASSUME NEW n \in Nodes
             PROVE  /\ \A i, j \in LimitsOf(n)' :
                         tasks'[i].alone /\ j < i => tasks'[j].status \in Told
                    /\ LimitsOf(n)' = {} => held'[n] = 0
                    /\ AllAlone(n)' =>
                         \A i \in LimitsOf(n)' : Last(n, i)' /\ Reported(i)' => held'[n] = tasks'[i].ver
  BY DEF EnforcedInv
<1>a. /\ \A i, j \in LimitsOf(n) : tasks[i].alone /\ j < i => tasks[j].status \in Told
      /\ LimitsOf(n) = {} => held[n] = 0
      /\ AllAlone(n) =>
           \A i \in LimitsOf(n) : Last(n, i) /\ Reported(i) => held[n] = tasks[i].ver
  BY DEF EnforcedInv
<1>b. \A i \in LimitsOf(n) : i \in Nat
  BY DEF LimitsOf, TypeInv, TypeOK
<1>c. \A i \in DOMAIN tasks : tasks[i].status \in Told => tasks'[i].status \in Told
  BY FinalStep DEF Told, Open, Unfinished
<1>1. ASSUME NEW i \in LimitsOf(n)', NEW j \in LimitsOf(n)', tasks'[i].alone, j < i
      PROVE  tasks'[j].status \in Told
  <2>1. CASE i \in LimitsOf(n)
    <3>1. j \in LimitsOf(n)
      <4>1. CASE LimitsOf(n)' = LimitsOf(n)
        BY <4>1
      <4>2. CASE \E h \in Asking(n) : /\ InsertTask(h)
                                      /\ LimitsOf(n)' = LimitsOf(n) \cup {Len(tasks) + 1}
        <5>1. i < Len(tasks) + 1 /\ i \in Nat /\ Len(tasks) + 1 \in Nat
          BY <1>b, <2>1, <4>2, InsertIs DEF LimitsOf, Asking
        <5> QED BY <1>1, <4>2, <5>1
      <4> QED BY <4>1, <4>2, LimitsStep
    <3> QED BY <1>1, <1>a, <1>c, <2>1, <3>1, LimitsStep
  <2>2. CASE i \notin LimitsOf(n)
    <3>1. PICK h \in Asking(n) : /\ InsertTask(h)
                                 /\ LimitsOf(n)' = LimitsOf(n) \cup {Len(tasks) + 1}
      BY <2>2, LimitsStep
    <3>2. h \in Handlers /\ req[h].op = "limit" /\ req[h].node = n
      BY DEF Asking
    <3>3. /\ i = Len(tasks) + 1 /\ i \in Nat /\ tasks'[i].alone = Alone(h)
          /\ \A k \in DOMAIN tasks : tasks'[k] = tasks[k]
      BY <2>2, <3>1, <3>2, InsertIs
    <3>4. j \in LimitsOf(n)
      BY <1>1, <3>1, <3>3
    <3>5. tasks[j].status \in Told
      BY <1>1, <3>2, <3>3, <3>4 DEF Alone, Told
    <3> QED BY <1>c, <3>4, <3>5, LimitsStep
  <2> QED BY <2>1, <2>2
<1>2. ASSUME LimitsOf(n)' = {} PROVE held'[n] = 0
  BY <1>2, <1>a, LimitsStep, HeldStep
<1>3. ASSUME AllAlone(n)', NEW i \in LimitsOf(n)', Last(n, i)', Reported(i)'
      PROVE  held'[n] = tasks'[i].ver
  <2>1. i \in LimitsOf(n)
    <3> SUFFICES ASSUME i \notin LimitsOf(n) PROVE FALSE
      OBVIOUS
    <3>1. PICK h \in Asking(n) : /\ InsertTask(h)
                                 /\ LimitsOf(n)' = LimitsOf(n) \cup {Len(tasks) + 1}
      BY LimitsStep
    <3>2. h \in Handlers
      BY DEF Asking
    <3>3. i = Len(tasks) + 1 /\ tasks'[i].status = "pending" /\ i \notin DOMAIN tasks
      BY <3>1, <3>2, InsertIs
    <3>4. results' = results
      BY <3>1 DEF InsertTask, network
    <3>5. [task |-> i, ok |-> TRUE] \notin results
      <4>1. [task |-> i, ok |-> TRUE].task = i
        OBVIOUS
      <4> QED BY <3>3, <4>1 DEF TypeInv, RefInv
    <3> QED BY <1>3, <3>3, <3>4, <3>5 DEF Reported
  <2>2. AllAlone(n) /\ Last(n, i) /\ tasks[i].alone /\ tasks'[i].ver = tasks[i].ver /\ i \in DOMAIN tasks
    <3>1. AllAlone(n) /\ LimitsOf(n) \subseteq LimitsOf(n)' /\ tasks'[i].ver = tasks[i].ver
          /\ i \in DOMAIN tasks
      BY <1>3, <2>1, LimitsStep
    <3> QED BY <1>3, <2>1, <3>1 DEF Last, AllAlone
  \* Only the last task is carried out, as it is told of all the others.
  <2>3. ASSUME NEW w \in work, Execute(w), w.task \in LimitsOf(n) PROVE w.task = i
    <3>1. Ahead(w.task) /\ w.task \in DOMAIN tasks
      BY <2>3 DEF Ahead, TypeInv, RefInv
    <3>2. tasks[w.task].status \notin Told
      BY <3>1 DEF OnceInv
    <3>3. ~(w.task < i)
      BY <1>a, <2>1, <2>2, <2>3, <3>2
    <3>4. w.task <= i /\ w.task \in Nat /\ i \in Nat
      BY <1>b, <2>1, <2>2, <2>3 DEF Last
    <3> QED BY <3>3, <3>4
  <2>4. CASE \E w \in work : /\ Execute(w) /\ w.task \in LimitsOf(n)
                             /\ held'[n] = tasks[w.task].ver
    BY <2>2, <2>3, <2>4
  <2>5. CASE held'[n] = held[n]
    <3>1. CASE Reported(i)
      BY <1>a, <2>1, <2>2, <2>5, <3>1
    <3>2. CASE tasks'[i].status = "success" /\ ~Reported(i)
      <4>1. tasks'[i].status \in Told
        BY <3>2 DEF Told
      <4>2. PICK r \in results : r.task = i /\ tasks'[i].status = Verdict(r.ok)
        BY <2>2, <3>2, <4>1, TasksGrow DEF Reported
      <4>3. r \in Outcome
        BY DEF TypeInv, TypeOK
      <4>4. r = [task |-> i, ok |-> TRUE]
        BY <3>2, <4>2, <4>3 DEF Verdict, Outcome
      <4> QED BY <3>2, <4>4 DEF Reported
    <3>3. CASE [task |-> i, ok |-> TRUE] \in results' /\ ~Reported(i)
      <4> DEFINE r == [task |-> i, ok |-> TRUE]
      <4>1. r.task = i /\ r.ok /\ r \notin results /\ r \in results'
        BY <3>3 DEF Reported
      <4>2. PICK w \in work : w.task = i /\ (Execute(w) \/ Apply(w))
        BY <4>1, ResultsStep
      <4>3. tasks[i].type = "limit" /\ tasks[i].node = n
        BY <2>1 DEF LimitsOf
      <4>4. Execute(w)
        BY <4>2, <4>3 DEF Apply, FileTasks, Direct
      <4>5. held' = [held EXCEPT ![n] = tasks[i].ver] /\ held \in [Nodes -> Nat]
        BY <4>2, <4>3, <4>4 DEF Execute, Stored, TypeInv, TypeOK
      <4> QED BY <2>2, <4>5
    <3> QED BY <1>3, <3>1, <3>2, <3>3 DEF Reported
  <2> QED BY <2>4, <2>5, HeldStep
<1> QED BY <1>1, <1>2, <1>3

LEMMA RecordedStep ==
  ASSUME TypeInv, SeenInv, NoneInv, RecordedInv, [Next]_vars
  PROVE  RecordedInv'
<1> SUFFICES ASSUME NEW n \in Nodes, ~ManagerFailed', Exists(n)', AllAlone(n)'
             PROVE  /\ \A h \in Asking(n)' : Asking(n)' = {h} => req'[h].ver = want'[n].limit
                    /\ Asking(n)' = {} =>
                         \/ LimitsOf(n)' = {} /\ want'[n].limit = 0
                         \/ \E i \in LimitsOf(n)' : Last(n, i)' /\ want'[n].limit = tasks'[i].ver
  BY DEF RecordedInv
<1>a. ~ManagerFailed /\ AllAlone(n)
  BY FailureStays, LimitsStep
<1>1. CASE row[n] = "none"
  <2>1. want[n].limit = 0 /\ Asking(n) = {} /\ LimitsOf(n) = {}
    BY <1>1 DEF NoneInv, Asking, LimitsOf
  <2>2. ~Exists(n) /\ \A h \in Handlers : ~(MarkLimit(h) /\ req[h].node = n)
    BY <1>1 DEF Exists, NoneInv, MarkLimit
  <2>3. want'[n].limit = 0
    BY <2>1, <2>2, WantStep
  <2>4. Asking(n)' = {}
    BY <2>1, <2>2, AskingStep
  <2>5. LimitsOf(n)' = {}
    BY <2>1, LimitsStep
  <2> QED BY <2>3, <2>4, <2>5
<1>2. CASE row[n] # "none"
  <2>1. Exists(n)
    <3>1. \A h \in Handlers : ~CreateRow(h, n)
      BY <1>2 DEF CreateRow
    <3> QED BY <3>1, RowStep DEF Exists
  <2>2. /\ \A h \in Asking(n) : Asking(n) = {h} => req[h].ver = want[n].limit
        /\ Asking(n) = {} =>
             \/ LimitsOf(n) = {} /\ want[n].limit = 0
             \/ \E i \in LimitsOf(n) : Last(n, i) /\ want[n].limit = tasks[i].ver
    BY <1>a, <2>1 DEF RecordedInv
  \* A limit is asked for.
  <2>3. CASE \E h \in Handlers : MarkLimit(h) /\ req[h].node = n
    <3>1. PICK h \in Handlers : MarkLimit(h) /\ req[h].node = n
      BY <2>3
    <3>2. want'[n].limit = want[n].limit + 1
      BY <2>1, <3>1 DEF MarkLimit, LimitRecorded, TypeInv, TypeOK, Desired
    <3>3. req[h] \in Request /\ req[h].pc = "read" /\ req[h].op = "limit"
          /\ req' = [req EXCEPT ![h] = [req[h] EXCEPT !.pc = "insert", !.ver = Asked(n)]]
      BY <3>1 DEF MarkLimit, Serve, TypeInv, TypeOK
    <3>4. LET r == [req[h] EXCEPT !.pc = "insert", !.ver = Asked(n)]
          IN r.pc = "insert" /\ r.op = "limit" /\ r.node = n /\ r.ver = Asked(n)
      BY <3>1, <3>3 DEF Request
    <3>5. req'[h].pc = "insert" /\ req'[h].op = "limit" /\ req'[h].node = n
          /\ req'[h].ver = Asked(n)
      BY <3>3, <3>4 DEF TypeInv, TypeOK
    <3>6. h \in Asking(n)'
      BY <3>5 DEF Asking
    <3> QED BY <3>2, <3>5, <3>6 DEF Asked
  <2>4. CASE ~\E h \in Handlers : MarkLimit(h) /\ req[h].node = n
    <3>1. want'[n].limit = want[n].limit
      BY <2>4, WantStep
    <3>2. \A h \in Asking(n)' : h \in Asking(n) /\ req'[h] = req[h]
      BY <2>4, AskingStep
    \* It becomes a task.
    <3>3. CASE \E h \in Asking(n) : InsertTask(h)
      <4>1. PICK h \in Asking(n) : InsertTask(h)
        BY <3>3
      <4> DEFINE i == Len(tasks) + 1
      <4>2. h \in Handlers /\ req[h].op = "limit" /\ req[h].node = n
        BY DEF Asking
      <4>3. /\ DOMAIN tasks' = DOMAIN tasks \cup {i} /\ \A j \in DOMAIN tasks : j < i /\ j \in Nat
            /\ tasks'[i].node = n /\ tasks'[i].type = "limit" /\ tasks'[i].ver = req[h].ver
            /\ tasks'[i].alone = Alone(h) /\ i \in Nat
        BY <4>1, <4>2, InsertIs
      <4> HIDE DEF i
      <4>4. i \in LimitsOf(n)' /\ \A j \in LimitsOf(n)' : j <= i
        BY <4>3 DEF LimitsOf
      <4>5. Alone(h)
        BY <4>3, <4>4 DEF AllAlone
      <4>6. \A k \in Handlers \ {h} :
              ~(req[k].pc = "insert" /\ req[k].op = "limit" /\ req[k].node = n)
        BY <4>2, <4>5 DEF Alone
      <4>7. Asking(n) = {h}
        BY <4>1, <4>6 DEF Asking
      <4>8. want'[n].limit = tasks'[i].ver
        BY <2>2, <3>1, <4>3, <4>7
      <4>9. h \notin Asking(n)'
        <5>1. \/ req'[h].pc = "send"
          <6>1. req[h] \in Request /\ req \in [Handlers -> Request]
                /\ req' = [req EXCEPT ![h] = [req[h] EXCEPT !.pc = "send", !.task = Len(tasks) + 1]]
            BY <4>1, <4>2 DEF InsertTask, Serve, TypeInv, TypeOK
          <6>2. [req[h] EXCEPT !.pc = "send", !.task = Len(tasks) + 1].pc = "send"
            BY <6>1 DEF Request
          <6> QED BY <4>2, <6>1, <6>2
        <5> QED BY <5>1 DEF Asking
      <4>10. Asking(n)' = {}
        BY <3>2, <4>7, <4>9
      <4> QED BY <4>4, <4>8, <4>10 DEF Last
    <3>4. CASE ~\E h \in Asking(n) : InsertTask(h)
      <4>1. \A h \in Asking(n) : h \in Asking(n)'
        BY <3>4, InsertsOrWaits DEF Asking
      <4>2. Asking(n)' = Asking(n)
        BY <3>2, <4>1
      <4>3. LimitsOf(n)' = LimitsOf(n) /\ \A i \in LimitsOf(n) : tasks'[i].ver = tasks[i].ver
        BY <3>4, LimitsStep
      <4>4. \A i : Last(n, i) => Last(n, i)'
        BY <4>3 DEF Last
      <4> QED BY <2>2, <3>1, <3>2, <4>2, <4>3, <4>4
    <3> QED BY <3>3, <3>4
  <2> QED BY <2>3, <2>4
<1> QED BY <1>1, <1>2

\* Once the limits set on a node, none of them under way together with another, have
\* all been carried out, the Agent enforces the one the Manager shows: with requests,
\* results, timeouts and restarts of the Agent in any order, as long as the Manager
\* itself does not fail.
THEOREM LimitsAreReal == Spec => []LimitIsReal
<1>1. Init => FileTasks /\ EnforcedInv /\ RecordedInv
  <2> SUFFICES ASSUME Init PROVE FileTasks /\ EnforcedInv /\ RecordedInv
    OBVIOUS
  <2>1. \A n \in Nodes : LimitsOf(n) = {}
    BY EmptySeq DEF Init, LimitsOf
  <2>2. \A n \in Nodes : Asking(n) = {} /\ want[n].limit = 0 /\ held[n] = 0
    BY Constants DEF Init, Asking
  <2> QED BY <2>1, <2>2 DEF Init, FileTasks, EnforcedInv, RecordedInv
<1>2. /\ BaseInv /\ FileTasks /\ EnforcedInv /\ RecordedInv /\ [Next]_vars
        => FileTasks' /\ EnforcedInv' /\ RecordedInv'
  BY FileTasksStep, EnforcedStep, RecordedStep DEF BaseInv
<1>3. BaseInv /\ EnforcedInv /\ RecordedInv => LimitIsReal
  <2> SUFFICES ASSUME EnforcedInv, RecordedInv, ~ManagerFailed, NEW n \in Nodes, Exists(n),
                      ~UnderWay(n, {"limit"}),
                      \A i \in LimitsOf(n) : tasks[i].status = "success" /\ tasks[i].alone
               PROVE  held[n] = want[n].limit
    BY DEF LimitIsReal
  <2>1. AllAlone(n) /\ \A i \in LimitsOf(n) : Reported(i)
    BY DEF AllAlone, Reported
  <2>2. Asking(n) = {}
    BY DEF UnderWay, Asking
  <2> QED BY <2>1, <2>2 DEF EnforcedInv, RecordedInv
<1> QED BY <1>1, <1>2, <1>3, Base, PTL DEF Spec

=============================================================================
