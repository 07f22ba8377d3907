----------------------------- MODULE NodeApply -----------------------------
(***************************************************************************)
(* The Agent's node service, internal/agent/nodesvc: how one task changes  *)
(* nodes.json and the configuration of sing-box.                           *)
(*                                                                         *)
(* A task reads nodes.json, writes candidates of config.json and of        *)
(* nodes.json, has sing-box check the candidate, backs both files up,      *)
(* renames both candidates, restarts sing-box and rolls back if that       *)
(* fails.  Every file operation and every systemctl call is a step; the    *)
(* client starts one goroutine per task and nothing locks the files.       *)
(*                                                                         *)
(* A nodes.json is a set of entries; a config.json is the set of entries   *)
(* that are enabled.  Files that are written atomically (a temporary file, *)
(* a rename, fsync of the directory) have the old content or the new one   *)
(* when the write fails; those that copyFile writes may be left torn.      *)
(***************************************************************************)
EXTENDS Integers, FiniteSets, FiniteSetsExt

CONSTANTS
  Nodes,       \* node_uuids
  Clash,       \* nodes that ask for the same port
  Tasks,       \* goroutines that serve a task
  Ops,         \* operations the Manager sends
  MaxId,       \* bound: local ids handed out
  MaxFaults,   \* bound: file operations, checks and restarts that fail, and
               \* crashes of the Agent, or of the machine
  Interleaved  \* may tasks run at the same time?

ASSUME ApplyAssumption ==
  /\ Nodes # {} /\ Clash \subseteq Nodes
  /\ Ops \subseteq {"add", "update", "enable", "disable", "remove"} /\ Ops # {}
  /\ {MaxId, MaxFaults} \subseteq Nat
  /\ Interleaved \in BOOLEAN

VARIABLES
  conf, confCand, confBak,     \* config.json, .candidate, .bak
  nodes, nodesCand, nodesBak,  \* nodes.json, .candidate, .bak
  cursor,                      \* next_node_id of state.json
  running,                     \* the configuration sing-box runs, or Down
  job,                         \* job[t]: what goroutine t is doing
  given,                       \* history: <<id, node>> pairs ever in nodes.json
  before,                      \* history: both files when the only task started, and
                               \* whether its rollback has copied whatever it tried to
  apart,                       \* history: have the files been left different since the
                               \* last task that succeeded?
  used                         \* history: how many faults there were, and whether one was
                               \* a cursor that could not be read

files == <<conf, confCand, confBak, nodes, nodesCand, nodesBak>>
rest  == <<cursor, running, given, before, apart, used>>
vars  == <<files, rest, job>>

Entry == [id : 1..MaxId, node : Nodes, on : BOOLEAN, ver : {0, 1}]
None  == [kind |-> "none", list |-> {}]  \* there is no such file
Torn  == [kind |-> "torn", list |-> {}]  \* truncated or half written
Down  == None                            \* sing-box does not run
File(list) == [kind |-> "file", list |-> list]
Working    == {"resolve", "read", "cursor", "save", "confCand", "nodesCand", "check",
               "backupConf", "backupNodes", "renameConf", "renameNodes", "restart",
               "health", "clean", "undoConf", "undoNodes", "undoClean", "undoRestart"}
\* The steps between the first rename and the verdict.
Replacing  == {"renameNodes", "restart", "health", "undoConf", "undoNodes", "undoClean"}
Idle       == [pc |-> "idle", op |-> CHOOSE o \in Ops : TRUE,
               node |-> CHOOSE n \in Nodes : TRUE, id |-> 0, list |-> {},
               backup |-> FALSE, restart |-> FALSE]
NotStarted     == [conf |-> None, nodes |-> None, whole |-> TRUE]
Goto(t, pc)    == job' = [job EXCEPT ![t].pc = pc]
Update(t, rec) == job' = [job EXCEPT ![t] = rec]
Finish(t, pc)  == Update(t, [Idle EXCEPT !.pc = pc])
Active(list)   == {e \in list : e.on}
Busy           == {t \in Tasks : job[t].pc \in Working}

-----------------------------------------------------------------------------
(***************************************************************************)
(* Variants of definitions below with a plausible mistake in them; the     *)
(* properties are shown to notice each.  They are not part of the model.   *)
(***************************************************************************)
NextIdLast(list, c)   == Max({e.id : e \in list} \cup {c})
NextIdOfList(list, c) == Max({e.id : e \in list} \cup {0}) + 1
InboundsOfAll(list)   == list
ValidAnyPort(list)    == \A d, e \in list : d.id = e.id => d = e
AppliedAlone(j)       == \* rebuilds the list from the task alone
  {[id |-> j.id, node |-> j.node, on |-> j.op # "disable",
    ver |-> IF j.op = "update" THEN 1 ELSE 0] : x \in IF j.op = "remove" THEN {} ELSE {1}}
BootNever             == running
RestoredNever(t)      == nodes

-----------------------------------------------------------------------------
Init ==
  /\ conf = File({}) /\ confCand = None /\ confBak = None
  /\ nodes \in {None, File({})} /\ nodesCand = None /\ nodesBak = None
  /\ cursor = 0 /\ running = File({})
  /\ job = [t \in Tasks |-> Idle]
  /\ given = {} /\ before = NotStarted /\ apart = FALSE
  /\ used = [faults |-> 0, unread |-> FALSE]

\* NextID: one more than every id remembered and every id in use.
NextId(list, c) == Max({e.id : e \in list} \cup {c}) + 1

\* writeCandidates: disabled nodes get no inbound.
Inbounds(list) == Active(list)

\* validateNodes: ids and ports are unique.
Valid(list) ==
  /\ \A d, e \in list : d.id = e.id => d = e
  /\ Cardinality({e \in list : e.node \in Clash}) <= 1

\* The list with the task's change made.
Applied(j) ==
  LET old == {e \in j.list : e.id = j.id} IN
  CASE j.op = "add"     -> j.list \cup {[id |-> j.id, node |-> j.node, on |-> TRUE, ver |-> 0]}
    [] j.op = "update"  -> (j.list \ old) \cup {[e EXCEPT !.ver = 1] : e \in old}
    [] j.op = "enable"  -> (j.list \ old) \cup {[e EXCEPT !.on = TRUE] : e \in old}
    [] j.op = "disable" -> (j.list \ old) \cup {[e EXCEPT !.on = FALSE] : e \in old}
    [] j.op = "remove"  -> j.list \ old

\* A file operation or a command fails, or the Agent dies.
Fails == /\ used.faults < MaxFaults
         /\ used' = [used EXCEPT !.faults = @ + 1]

-----------------------------------------------------------------------------
(***************************************************************************)
(* From the task to the candidates.                                        *)
(***************************************************************************)

\* A task arrives.  The Manager creates a node_uuid once; one that has never
\* been in nodes.json is as good as a new one.
Start(t, op, n) ==
  /\ job[t].pc \notin Working /\ (Interleaved \/ Busy = {})
  /\ op = "add" => /\ n \notin {p[2] : p \in given}
                   /\ \A u \in Busy : job[u].op # "add" \/ job[u].node # n
  /\ Update(t, [Idle EXCEPT !.pc = IF op \in {"add", "update"} THEN "read" ELSE "resolve",
                            !.op = op, !.node = n])
  /\ before' = IF Interleaved THEN NotStarted
                ELSE [conf |-> conf, nodes |-> nodes, whole |-> TRUE]
  /\ UNCHANGED <<files, cursor, running, given, apart, used>>

\* resolveNodeID reads nodes.json, leniently, for the node's local id.
Resolve(t) ==
  LET found == {e \in nodes.list : e.node = job[t].node} IN
  /\ job[t].pc = "resolve"
  /\ IF found = {} THEN Finish(t, "failed")
     ELSE \E e \in found : Update(t, [job[t] EXCEPT !.pc = "read", !.id = e.id])
  /\ UNCHANGED <<files, rest>>

\* LoadToolNodesStrict: no file is an empty list, a torn one is an error.  An
\* update looks for the node_uuid, the others for the local id.
ReadList(t) ==
  LET j == job[t]
      hit == {e.id : e \in {f \in nodes.list : IF j.op = "update" THEN f.node = j.node
                                                                 ELSE f.id = j.id}}
  IN
  /\ j.pc = "read"
  /\ IF nodes = Torn \/ (j.op # "add" /\ hit = {})
       THEN Finish(t, "failed")
       ELSE \E id \in IF j.op = "add" THEN {0} ELSE hit :
              Update(t, [j EXCEPT !.pc = IF j.op = "add" THEN "cursor" ELSE "confCand",
                                  !.id = id, !.list = nodes.list])
  /\ UNCHANGED <<files, rest>>

\* nodes.json cannot be read.
ReadFails(t) ==
  /\ job[t].pc \in {"resolve", "read"}
  /\ Fails
  /\ Finish(t, "failed")
  /\ UNCHANGED <<files, cursor, running, given, before, apart>>

\* NextID and LoadState: a state.json that cannot be read is an empty one.
ReadCursor(t) ==
  \E known \in {cursor, 0} :
    /\ job[t].pc = "cursor" /\ NextId(job[t].list, known) <= MaxId
    /\ \/ known = cursor /\ UNCHANGED used
       \/ /\ known = 0 /\ used.faults < MaxFaults
          /\ used' = [used EXCEPT !.faults = @ + 1, !.unread = TRUE]
    /\ Update(t, [job[t] EXCEPT !.pc = "save", !.id = NextId(job[t].list, known)])
    /\ UNCHANGED <<files, cursor, running, given, before, apart>>

SaveCursor(t) ==
  /\ job[t].pc = "save"
  /\ \/ cursor' = job[t].id /\ Goto(t, "confCand") /\ UNCHANGED used
     \/ cursor' \in {cursor, job[t].id} /\ Finish(t, "failed") /\ Fails
  /\ UNCHANGED <<files, running, given, before, apart>>

\* RebuildConfig keeps what else the old config.json holds, so it must be readable.
WriteConfCandidate(t) ==
  LET list == Applied(job[t])
      new  == File(Inbounds(list))
  IN
  /\ job[t].pc = "confCand"
  /\ IF Valid(list) /\ conf # Torn
       THEN \/ confCand' = new /\ Goto(t, "nodesCand") /\ UNCHANGED used
            \/ confCand' \in {confCand, new} /\ Finish(t, "failed") /\ Fails
       ELSE Finish(t, "failed") /\ UNCHANGED <<confCand, used>>
  /\ UNCHANGED <<conf, confBak, nodes, nodesCand, nodesBak, cursor, running, given, before, apart>>

WriteNodesCandidate(t) ==
  LET new == File(Applied(job[t])) IN
  /\ job[t].pc = "nodesCand"
  /\ \/ nodesCand' = new /\ Goto(t, "check") /\ UNCHANGED used
     \/ nodesCand' \in {nodesCand, new} /\ Finish(t, "failed") /\ Fails
  /\ UNCHANGED <<conf, confCand, confBak, nodes, nodesBak, cursor, running, given, before, apart>>

-----------------------------------------------------------------------------
(***************************************************************************)
(* Apply.                                                                  *)
(***************************************************************************)
Check(t) ==
  /\ job[t].pc = "check" /\ confCand # None
  /\ Goto(t, "backupConf")
  /\ UNCHANGED <<files, rest>>

\* The candidate is gone, or sing-box refuses it; it stays where it is.
CheckFails(t) ==
  /\ job[t].pc = "check"
  /\ IF confCand = None THEN UNCHANGED used ELSE Fails
  /\ Finish(t, "failed")
  /\ UNCHANGED <<files, cursor, running, given, before, apart>>

BackupConf(t) ==
  /\ job[t].pc = "backupConf"
  /\ confBak' = conf
  /\ Goto(t, "backupNodes")
  /\ UNCHANGED <<conf, confCand, nodes, nodesCand, nodesBak, rest>>

BackupNodes(t) ==
  /\ job[t].pc = "backupNodes"
  /\ nodesBak' = IF nodes = None THEN nodesBak ELSE nodes
  /\ Update(t, [job[t] EXCEPT !.pc = "renameConf", !.backup = nodes # None])
  /\ UNCHANGED <<conf, confCand, confBak, nodes, nodesCand, rest>>

\* Fail-closed: without a backup the task ends, and has changed nothing.
BackupFails(t) ==
  /\ \/ job[t].pc = "backupConf" /\ confBak' \in {confBak, Torn} /\ UNCHANGED nodesBak
     \/ /\ job[t].pc = "backupNodes" /\ nodes # None
        /\ nodesBak' \in {nodesBak, Torn} /\ UNCHANGED confBak
  /\ Fails
  /\ Finish(t, "failed")
  /\ UNCHANGED <<conf, confCand, nodes, nodesCand, cursor, running, given, before, apart>>

MoveConf  == conf' = confCand /\ confCand' = None
MoveNodes == /\ nodes' = nodesCand /\ nodesCand' = None
             /\ given' = given \cup {<<e.id, e.node>> : e \in nodesCand.list}

RenameConf(t) ==
  /\ job[t].pc = "renameConf" /\ confCand # None
  /\ MoveConf
  /\ Goto(t, "renameNodes")
  /\ UNCHANGED <<confBak, nodes, nodesCand, nodesBak, rest>>

\* A missing candidate of nodes.json is no error.
RenameNodes(t) ==
  /\ job[t].pc = "renameNodes"
  /\ IF nodesCand = None THEN UNCHANGED <<nodes, nodesCand, given>> ELSE MoveNodes
  /\ Goto(t, "restart")
  /\ UNCHANGED <<conf, confCand, confBak, nodesBak, cursor, running, before, apart, used>>

\* Either rename fails, or the fsync after it, or another task has taken the
\* candidate of config.json away: rollback, without a restart.
RenameFails(t) ==
  /\ \/ /\ job[t].pc = "renameConf"
        /\ IF confCand = None THEN UNCHANGED <<conf, confCand, used>>
           ELSE Fails /\ (MoveConf \/ UNCHANGED <<conf, confCand>>)
        /\ UNCHANGED <<nodes, nodesCand, given>>
     \/ /\ job[t].pc = "renameNodes" /\ nodesCand # None
        /\ Fails /\ (MoveNodes \/ UNCHANGED <<nodes, nodesCand, given>>)
        /\ UNCHANGED <<conf, confCand>>
  /\ Goto(t, "undoConf")
  /\ UNCHANGED <<confBak, nodesBak, cursor, running, before, apart>>

\* What systemctl restart makes run.
Boot == IF conf = Torn THEN Down ELSE conf

Restart(t) ==
  /\ job[t].pc = "restart" /\ conf # Torn
  /\ running' = Boot
  /\ Goto(t, "health")
  /\ UNCHANGED <<files, cursor, given, before, apart, used>>

\* The restart fails, or sing-box is not active after it.
RestartFails(t) ==
  /\ job[t].pc \in {"restart", "health"}
  /\ IF conf = Torn THEN UNCHANGED used ELSE Fails
  /\ running' = Down
  /\ Update(t, [job[t] EXCEPT !.pc = "undoConf", !.restart = TRUE])
  /\ UNCHANGED <<files, cursor, given, before, apart>>

Healthy(t) ==
  /\ job[t].pc = "health" /\ running # Down
  /\ Goto(t, "clean")
  /\ UNCHANGED <<files, rest>>

Clean(t) ==
  /\ job[t].pc = "clean"
  /\ confBak' = None /\ nodesBak' = None /\ nodesCand' = None
  /\ apart' = FALSE
  /\ Finish(t, "succeeded")
  /\ UNCHANGED <<conf, confCand, nodes, cursor, running, given, before, used>>

\* rollback: what it makes of config.json and, if this task has backed it up,
\* of nodes.json.
RestoredConf     == IF confBak = None THEN conf ELSE confBak
RestoredNodes(t) == IF job[t].backup /\ nodesBak # None THEN nodesBak ELSE nodes

UndoConf(t) ==
  /\ job[t].pc = "undoConf"
  /\ conf' = RestoredConf
  /\ Goto(t, "undoNodes")
  /\ UNCHANGED <<confCand, confBak, nodes, nodesCand, nodesBak, rest>>

\* A nodes.json that this task was the first to write stays.
UndoNodes(t) ==
  /\ job[t].pc = "undoNodes"
  /\ nodes' = RestoredNodes(t)
  /\ apart' = (apart \/ (~job[t].backup /\ nodes # None))
  /\ Goto(t, "undoClean")
  /\ UNCHANGED <<conf, confCand, confBak, nodesCand, nodesBak,
                 cursor, running, given, before, used>>

\* The errors of rollback's copies are ignored.
UndoFails(t) ==
  /\ \/ /\ job[t].pc = "undoConf" /\ confBak # None
        /\ conf' \in {conf, Torn} /\ UNCHANGED nodes
        /\ Goto(t, "undoNodes")
     \/ /\ job[t].pc = "undoNodes" /\ job[t].backup /\ nodesBak # None
        /\ nodes' \in {nodes, Torn} /\ UNCHANGED conf
        /\ Goto(t, "undoClean")
  /\ Fails
  /\ before' = [before EXCEPT !.whole = FALSE] /\ apart' = TRUE
  /\ UNCHANGED <<confCand, confBak, nodesCand, nodesBak, cursor, running, given>>

UndoClean(t) ==
  /\ job[t].pc = "undoClean"
  /\ confCand' = None /\ nodesCand' = None
  /\ IF job[t].restart THEN Goto(t, "undoRestart") ELSE Finish(t, "failed")
  /\ UNCHANGED <<conf, confBak, nodes, nodesBak, rest>>

\* The service is restarted with the old configuration; an error is ignored.
UndoRestart(t) ==
  /\ job[t].pc = "undoRestart"
  /\ \/ running' = Boot /\ UNCHANGED used
     \/ running' = Down /\ Fails
  /\ Finish(t, "failed")
  /\ UNCHANGED <<files, cursor, given, before, apart>>

Step(t) ==
  \/ Resolve(t) \/ ReadList(t) \/ ReadFails(t) \/ ReadCursor(t) \/ SaveCursor(t)
  \/ WriteConfCandidate(t) \/ WriteNodesCandidate(t)
  \/ Check(t) \/ CheckFails(t) \/ BackupConf(t) \/ BackupNodes(t) \/ BackupFails(t)
  \/ RenameConf(t) \/ RenameNodes(t) \/ RenameFails(t)
  \/ Restart(t) \/ RestartFails(t) \/ Healthy(t) \/ Clean(t)
  \/ UndoConf(t) \/ UndoNodes(t) \/ UndoFails(t) \/ UndoClean(t) \/ UndoRestart(t)

-----------------------------------------------------------------------------
\* The Agent dies, alone or with its machine, and starts again: it neither
\* removes nor completes what it finds.  A copy that rollback was making with
\* os.WriteFile may be left torn.
Crash ==
  /\ Fails
  /\ job' = [t \in Tasks |-> Idle]
  /\ conf'  \in {conf}  \cup {Torn : t \in {u \in Tasks : job[u].pc = "undoConf"}}
  /\ nodes' \in {nodes} \cup {Torn : t \in {u \in Tasks : job[u].pc = "undoNodes"
                                                       /\ job[u].backup}}
  /\ running' \in {running, IF conf' = Torn THEN Down ELSE conf'}
  /\ apart' = (apart \/ \E t \in Tasks : job[t].pc \in {"renameNodes", "undoConf", "undoNodes"})
  /\ UNCHANGED <<confCand, confBak, nodesCand, nodesBak, cursor, given, before>>

Next ==
  \/ \E t \in Tasks, op \in Ops, n \in Nodes : Start(t, op, n)
  \/ \E t \in Tasks : Step(t)
  \/ Crash

Spec == Init /\ [][Next]_vars

-----------------------------------------------------------------------------
(***************************************************************************)
(* Properties.                                                             *)
(***************************************************************************)
Content == [kind : {"none", "torn", "file"}, list : SUBSET Entry]

\* Types: in particular no candidate list ever holds an id beyond those handed out.
TypeOK ==
  /\ {conf, confCand, confBak, nodes, nodesCand, nodesBak, running} \subseteq Content
  /\ cursor \in 0..MaxId
  /\ job \in [Tasks -> [pc : Working \cup {"idle", "succeeded", "failed"}, op : Ops, node : Nodes,
                       id : 0..MaxId, list : SUBSET Entry,
                       backup : BOOLEAN, restart : BOOLEAN]]
  /\ before \in [conf : Content, nodes : Content, whole : BOOLEAN] /\ apart \in BOOLEAN
  /\ given \subseteq (1..MaxId) \X Nodes
  /\ used \in [faults : 0..MaxFaults, unread : BOOLEAN]

\* Is the change of task t in this list?
Done(t, list) ==
  LET mine == {e \in list : e.node = job[t].node} IN
  CASE job[t].op = "remove"  -> mine = {}
    [] job[t].op = "add"     -> mine # {}
    [] job[t].op = "update"  -> \E e \in mine : e.ver = 1
    [] job[t].op = "enable"  -> \E e \in mine : e.on
    [] job[t].op = "disable" -> \A e \in mine : ~e.on

\* nodesvc: "never claims success falsely": when a task is about to report
\* success its change is in nodes.json, config.json says the same, and that is
\* what sing-box runs.
SuccessIsReal ==
  \A t \in Tasks : job[t].pc = "clean" =>
    /\ Done(t, nodes.list)
    /\ conf = File(Active(nodes.list)) /\ running = conf

\* Apply: "1 = failed and rolled back": a task that has failed at whatever step
\* leaves both files as it found them, unless a copy of its own rollback failed too.
\* (A nodes.json that was not there has no backup, and a rollback leaves the new one.)
FailureUndone ==
  \A t \in Tasks : job[t].pc = "failed" /\ before.whole =>
    /\ conf = before.conf
    /\ before.nodes # None => nodes = before.nodes

\* Apply: "atomically replaces the configuration and the node data": between
\* tasks the two files describe the same nodes.  The two renames are not one, so
\* a crash between the first rename and the verdict may leave them different, and so do
\* a failed copy of a rollback and a failed first installation; nothing else does, and the
\* next task that succeeds makes them agree again.
FilesAgree == Busy = {} /\ ~apart => conf = File(Active(nodes.list))

\* NextID: "ids grow and are never recycled": an id that nodes.json has given to
\* one node, and under which its traffic is counted, is never given to another, wherever
\* a write fails or the Agent dies between the cursor and nodes.json.  (A cursor that could
\* not be read starts again from the ids in use, and those of removed nodes return.)
IdsNotRecycled == ~used.unread => \A p, q \in given : p[1] = q[1] => p = q

\* validateNodes guards every path to nodes.json: whatever tasks overlap and
\* wherever the Agent dies, it never lists an id or a port twice.
NodesValid ==
  \A d, e \in nodes.list : d # e => d.id # e.id /\ ~({d.node, e.node} \subseteq Clash)

\* The service implements the store: seen from outside, a task's change of
\* nodes.json happens at once, when it is known to stay; and when a crash or an error
\* tears nodes.json in the middle of a rollback, its backup still has the nodes.
Committed ==
  IF \E t \in Tasks : job[t].pc \in Replacing THEN before.nodes.list
  ELSE (IF nodes = Torn THEN nodesBak ELSE nodes).list
Store == INSTANCE NodeStore WITH list <- Committed
ImplementsNodeStore == Store!StoreSpec
=============================================================================
