-------------------------- MODULE NodeApplyProofs --------------------------
(***************************************************************************)
(* Theorems about module NodeApply, for any nodes, tasks, ids and faults.  *)
(*                                                                         *)
(* NodesValid holds with handlers that interleave, because every list that *)
(* is ever written has passed validateNodes (ListsInv).  The others are    *)
(* for handlers that run one after the other.  ApplyInv says of each stage *)
(* of a job which of the six files hold what: before the first rename the  *)
(* live ones are as the task found them, between the renames only          *)
(* config.json is new, after them both; from then on the backups hold what *)
(* was replaced.  A rollback writes back what the backups hold, unless one *)
(* of its copies fails, which before.whole and apart remember.             *)
(***************************************************************************)
EXTENDS NodeApply, FiniteSetTheorems, WellFoundedInduction, TLAPS

-----------------------------------------------------------------------------
(***************************************************************************)
(* Types.                                                                  *)
(***************************************************************************)
States == Working \cup {"idle", "succeeded", "failed"}
Job    == [pc : States, op : Ops, node : Nodes, id : 0..MaxId, list : SUBSET Entry,
           backup : BOOLEAN, restart : BOOLEAN]

\* An add has an id once it has read the cursor.
IdChosen ==
  \A t \in Tasks :
    job[t].op = "add" /\ job[t].pc \in Working \ {"resolve", "read", "cursor"} => job[t].id >= 1

LEMMA MaxIs ==
  ASSUME NEW b \in Nat, NEW S, S \subseteq 0..b, S # {}
  PROVE  Max(S) \in S /\ \A y \in S : Max(S) >= y
<1> DEFINE T == {n \in Nat : b - n \in S}
<1>1. T # {} /\ T \subseteq Nat
  <2>1. PICK y \in S : TRUE
    OBVIOUS
  <2>2. b - y \in Nat /\ b - (b - y) = y
    BY <2>1
  <2>3. b - y \in T
    BY <2>1, <2>2
  <2> QED BY <2>3
<1>2. PICK m \in T : \A n \in T : ~(<<n, m>> \in OpToRel(<, Nat))
  <2> HIDE DEF T
  <2> QED BY <1>1, NatLessThanWellFounded, WFMin
<1>3. \A n \in T : m <= n
  <2>1. \A n \in T : ~(n < m)
    BY <1>2 DEF OpToRel
  <2> QED BY <2>1
<1>4. ASSUME NEW y \in S PROVE b - m >= y
  <2>1. b - y \in Nat /\ b - (b - y) = y
    OBVIOUS
  <2>2. b - y \in T
    BY <2>1
  <2>3. m <= b - y /\ m \in Nat
    BY <1>3, <2>2
  <2> QED BY <2>1, <2>3
<1> QED BY <1>2, <1>4 DEF Max

\* A new id is above every id remembered and every id in use.
LEMMA NextIdIs ==
  ASSUME NEW list \in SUBSET Entry, NEW c \in 0..MaxId
  PROVE  NextId(list, c) \in Nat /\ NextId(list, c) > c /\ \A e \in list : NextId(list, c) > e.id
<1> DEFINE S == {e.id : e \in list} \cup {c}
<1>1. MaxId \in Nat
  BY ApplyAssumption
<1>2. S \subseteq 0..MaxId /\ S # {} /\ c \in S /\ \A e \in list : e.id \in S
  BY <1>1 DEF Entry
<1> HIDE DEF S
<1> DEFINE m == Max(S)
<1>3. m \in S /\ \A y \in S : m >= y
  BY <1>1, <1>2, MaxIs
<1>4. NextId(list, c) = m + 1
  BY DEF NextId, S
<1> HIDE DEF m
<1>5. m \in Nat /\ \A y \in S : y \in Nat
  BY <1>1, <1>2, <1>3
<1>6. m + 1 \in Nat /\ \A y \in S : m + 1 > y
  BY <1>3, <1>5
<1> QED BY <1>2, <1>4, <1>6

LEMMA Image ==
  ASSUME NEW S, IsFiniteSet(S), NEW f, DOMAIN f = S
  PROVE  IsFiniteSet({f[x] : x \in S})
<1> DEFINE T == {f[x] : x \in S}
<1>1. [x \in S |-> f[x]] \in Surjection(S, T)
  BY DEF Surjection
<1> HIDE DEF T
<1>2. IsFiniteSet(T)
  BY <1>1, FS_Surjection
<1> QED BY <1>2 DEF T

\* The entry that an add makes.
NewEntry(j) == [id |-> j.id, node |-> j.node, on |-> TRUE, ver |-> 0]

\* The change, as a set: every entry of the new list is an old one of another id, or has
\* the id and the node of an old one with the task's id, or is the new one.
LEMMA AppliedIs ==
  ASSUME NEW j \in Job
  PROVE  LET old == {e \in j.list : e.id = j.id} IN
         /\ j.op = "add"     => Applied(j) = j.list \cup {NewEntry(j)}
         /\ j.op = "update"  => Applied(j) = (j.list \ old) \cup {[e EXCEPT !.ver = 1] : e \in old}
         /\ j.op = "enable"  => Applied(j) = (j.list \ old) \cup {[e EXCEPT !.on = TRUE] : e \in old}
         /\ j.op = "disable" => Applied(j) = (j.list \ old) \cup {[e EXCEPT !.on = FALSE] : e \in old}
         /\ j.op = "remove"  => Applied(j) = j.list \ old
         /\ j.op \in {"add", "update", "enable", "disable", "remove"}
  BY ApplyAssumption DEF Applied, NewEntry, Job

LEMMA AppliedType ==
  ASSUME NEW j \in Job, j.op = "add" => j.id >= 1
  PROVE  /\ Applied(j) \subseteq Entry
         /\ IsFiniteSet(j.list) => IsFiniteSet(Applied(j))
<1> DEFINE old == {e \in j.list : e.id = j.id}
<1>1. j.list \subseteq Entry /\ old \subseteq j.list /\ j.node \in Nodes /\ j.id \in 0..MaxId
  BY DEF Job
<1>2. j.op = "add" => NewEntry(j) \in Entry
  BY <1>1, ApplyAssumption DEF NewEntry, Entry
<1>3. \A e \in old : /\ [e EXCEPT !.ver = 1] \in Entry /\ [e EXCEPT !.on = TRUE] \in Entry
                     /\ [e EXCEPT !.on = FALSE] \in Entry
  BY <1>1 DEF Entry
<1>4. Applied(j) \subseteq Entry
  <2>1. CASE j.op = "add"
    BY <1>1, <1>2, <2>1, AppliedIs
  <2>2. CASE j.op = "update"
    <3>1. Applied(j) = (j.list \ old) \cup {[e EXCEPT !.ver = 1] : e \in old}
      BY <2>2, AppliedIs
    <3> QED BY <1>1, <1>3, <3>1
  <2>3. CASE j.op = "enable"
    <3>1. Applied(j) = (j.list \ old) \cup {[e EXCEPT !.on = TRUE] : e \in old}
      BY <2>3, AppliedIs
    <3> QED BY <1>1, <1>3, <3>1
  <2>4. CASE j.op = "disable"
    <3>1. Applied(j) = (j.list \ old) \cup {[e EXCEPT !.on = FALSE] : e \in old}
      BY <2>4, AppliedIs
    <3> QED BY <1>1, <1>3, <3>1
  <2>5. CASE j.op = "remove"
    BY <1>1, <2>5, AppliedIs
  <2> QED BY <2>1, <2>2, <2>3, <2>4, <2>5, AppliedIs
<1>5. ASSUME IsFiniteSet(j.list) PROVE IsFiniteSet(Applied(j))
  <2>1. IsFiniteSet(j.list \ old) /\ IsFiniteSet(old)
    BY <1>5, FS_Subset
  <2>2. IsFiniteSet(j.list \cup {NewEntry(j)})
    BY <1>5, FS_AddElement
  <2>3. /\ IsFiniteSet({[e EXCEPT !.ver = 1] : e \in old})
        /\ IsFiniteSet({[e EXCEPT !.on = TRUE] : e \in old})
        /\ IsFiniteSet({[e EXCEPT !.on = FALSE] : e \in old})
    <3> DEFINE v == [e \in old |-> [e EXCEPT !.ver = 1]]
               o == [e \in old |-> [e EXCEPT !.on = TRUE]]
               d == [e \in old |-> [e EXCEPT !.on = FALSE]]
    <3>1. /\ {v[e] : e \in old} = {[e EXCEPT !.ver = 1] : e \in old}
          /\ {o[e] : e \in old} = {[e EXCEPT !.on = TRUE] : e \in old}
          /\ {d[e] : e \in old} = {[e EXCEPT !.on = FALSE] : e \in old}
          /\ DOMAIN v = old /\ DOMAIN o = old /\ DOMAIN d = old
      OBVIOUS
    <3> HIDE DEF old, v, o, d
    <3>2. /\ IsFiniteSet({v[e] : e \in old}) /\ IsFiniteSet({o[e] : e \in old})
          /\ IsFiniteSet({d[e] : e \in old})
      BY <2>1, <3>1, Image
    <3> QED BY <3>1, <3>2
  <2>4. /\ IsFiniteSet((j.list \ old) \cup {[e EXCEPT !.ver = 1] : e \in old})
        /\ IsFiniteSet((j.list \ old) \cup {[e EXCEPT !.on = TRUE] : e \in old})
        /\ IsFiniteSet((j.list \ old) \cup {[e EXCEPT !.on = FALSE] : e \in old})
    <3> HIDE DEF old
    <3> QED BY <2>1, <2>3, FS_Union
  <2> QED BY <2>1, <2>2, <2>4, AppliedIs
<1> QED BY <1>4, <1>5

\* What a step of a task makes of the task.
LEMMA JobTypes ==
  ASSUME TypeOK, NEW t \in Tasks
  PROVE  /\ job \in [Tasks -> Job] /\ job[t] \in Job
         /\ Idle \in Job /\ \A pc \in States : [Idle EXCEPT !.pc = pc] \in Job
         /\ \A pc \in States : Goto(t, pc) =>
              job' = [job EXCEPT ![t] = [job[t] EXCEPT !.pc = pc]] /\ job' \in [Tasks -> Job]
         /\ \A rec \in Job : Update(t, rec) => job' = [job EXCEPT ![t] = rec] /\ job' \in [Tasks -> Job]
         /\ \A pc \in States : Finish(t, pc) =>
              job' = [job EXCEPT ![t] = [Idle EXCEPT !.pc = pc]] /\ job' \in [Tasks -> Job]
<1>1. job \in [Tasks -> Job]
  BY DEF TypeOK, Job, States
<1>2. Idle \in Job
  BY ApplyAssumption DEF Idle, Job, States
<1>3. job[t] \in Job /\ \A pc \in States : [Idle EXCEPT !.pc = pc] \in Job /\ [job[t] EXCEPT !.pc = pc] \in Job
  BY <1>1, <1>2 DEF Job
<1>4. ASSUME NEW pc \in States, Goto(t, pc)
      PROVE  job' = [job EXCEPT ![t] = [job[t] EXCEPT !.pc = pc]] /\ job' \in [Tasks -> Job]
  <2>1. job' = [job EXCEPT ![t] = [job[t] EXCEPT !.pc = pc]]
    BY <1>4 DEF Goto
  <2> QED BY <1>1, <1>3, <2>1
<1>5. ASSUME NEW rec \in Job, Update(t, rec)
      PROVE  job' = [job EXCEPT ![t] = rec] /\ job' \in [Tasks -> Job]
  BY <1>1, <1>5 DEF Update
<1>6. \A pc \in States : Finish(t, pc) =>
        job' = [job EXCEPT ![t] = [Idle EXCEPT !.pc = pc]] /\ job' \in [Tasks -> Job]
  BY <1>3, <1>5 DEF Finish
<1> QED BY <1>1, <1>2, <1>3, <1>4, <1>5, <1>6

TypeInv == TypeOK /\ IdChosen

LEMMA Contents ==
  /\ None \in Content /\ Torn \in Content /\ Down \in Content
  /\ \A list \in SUBSET Entry : File(list) \in Content
  /\ \A f \in Content : f.list \subseteq Entry
  BY DEF None, Torn, Down, File, Content

\* A job goes on, with the same task; or it ends.
LEMMA IdStep ==
  ASSUME TypeInv, NEW t \in Tasks, NEW j \in Job, job' = [job EXCEPT ![t] = j],
         j.op = "add" /\ j.pc \in Working \ {"resolve", "read", "cursor"} => j.id >= 1
  PROVE  IdChosen'
  BY JobTypes DEF TypeInv, IdChosen

LEMMA EndStep ==
  ASSUME TypeInv, NEW t \in Tasks, NEW pc \in {"idle", "succeeded", "failed"}, Finish(t, pc)
  PROVE  job' \in [Tasks -> Job] /\ IdChosen'
<1>1. pc \in States /\ pc \notin Working
  BY DEF States, Working
<1>2. job' = [job EXCEPT ![t] = [Idle EXCEPT !.pc = pc]] /\ [Idle EXCEPT !.pc = pc] \in Job
      /\ job' \in [Tasks -> Job]
  BY <1>1, JobTypes DEF TypeInv
<1>3. [Idle EXCEPT !.pc = pc].pc = pc
  BY DEF Idle
<1> QED BY <1>1, <1>2, <1>3, IdStep

LEMMA GoStep ==
  ASSUME TypeInv, NEW t \in Tasks, NEW pc \in States, Goto(t, pc),
         job[t].op = "add" /\ pc \in Working \ {"resolve", "read", "cursor"} => job[t].id >= 1
  PROVE  job' \in [Tasks -> Job] /\ IdChosen'
<1>1. job' = [job EXCEPT ![t] = [job[t] EXCEPT !.pc = pc]] /\ job' \in [Tasks -> Job]
      /\ job[t] \in Job
  BY JobTypes DEF TypeInv
<1>2. [job[t] EXCEPT !.pc = pc] \in Job
  BY <1>1 DEF Job
<1> QED BY <1>1, <1>2, IdStep DEF Job

LEMMA TypeStep == TypeInv /\ [Next]_vars => TypeInv'
<1> SUFFICES ASSUME TypeInv, [Next]_vars PROVE TypeInv'
  OBVIOUS
<1>0. /\ {conf, confCand, confBak, nodes, nodesCand, nodesBak, running} \subseteq Content
      /\ cursor \in 0..MaxId /\ given \subseteq (1..MaxId) \X Nodes
      /\ before \in [conf : Content, nodes : Content, whole : BOOLEAN]
      /\ used \in [faults : 0..MaxFaults, unread : BOOLEAN]
      /\ MaxId \in Nat /\ MaxFaults \in Nat /\ apart \in BOOLEAN
      /\ job \in [Tasks -> Job] /\ Idle \in Job
  <2>1. Idle \in Job
    BY ApplyAssumption DEF Idle, Job, States
  <2>2. {MaxId, MaxFaults} \subseteq Nat
    BY ApplyAssumption
  <2> QED BY <2>1, <2>2 DEF TypeInv, TypeOK, Job, States
<1>i. \A t \in Tasks : job[t].op = "add" /\ job[t].pc \in Working \ {"resolve", "read", "cursor"}
                         => job[t].id >= 1
  BY DEF TypeInv, IdChosen
<1>t. ASSUME {conf', confCand', confBak', nodes', nodesCand', nodesBak', running'} \subseteq Content,
             cursor' \in 0..MaxId, given' \subseteq (1..MaxId) \X Nodes,
             before' \in [conf : Content, nodes : Content, whole : BOOLEAN],
             used' \in [faults : 0..MaxFaults, unread : BOOLEAN],
             job' \in [Tasks -> Job], apart' \in BOOLEAN, IdChosen'
      PROVE  TypeInv'
  BY <1>t DEF TypeInv, TypeOK, Job, States
<1>f. ASSUME Fails
      PROVE  used' \in [faults : 0..MaxFaults, unread : BOOLEAN]
  <2>1. used.faults + 1 \in 0..MaxFaults
    BY <1>0, <1>f DEF Fails
  <2> QED BY <1>0, <1>f, <2>1 DEF Fails
<1>1. ASSUME NEW t \in Tasks, NEW op \in Ops, NEW n \in Nodes, Start(t, op, n) PROVE TypeInv'
  <2> DEFINE rec == [Idle EXCEPT !.pc = IF op \in {"add", "update"} THEN "read" ELSE "resolve",
                                 !.op = op, !.node = n]
  <2>1. rec \in Job /\ rec.pc \in {"resolve", "read"}
    BY <1>0 DEF Job, States, Working
  <2>2. job' = [job EXCEPT ![t] = rec]
    BY <1>1 DEF Start, Update
  <2> HIDE DEF rec
  <2>3. job' \in [Tasks -> Job] /\ IdChosen'
    BY <1>0, <2>1, <2>2, IdStep
  <2>4. before' \in [conf : Content, nodes : Content, whole : BOOLEAN]
    BY <1>0, <1>1, Contents DEF Start, NotStarted
  <2> QED BY <1>0, <1>1, <1>t, <2>3, <2>4 DEF Start, files
<1>2. ASSUME NEW t \in Tasks, Resolve(t) PROVE TypeInv'
  <2>1. UNCHANGED <<files, rest>>
    BY <1>2 DEF Resolve
  <2>2. CASE Finish(t, "failed")
    BY <1>0, <1>t, <2>1, <2>2, EndStep DEF files, rest
  <2>3. CASE ~Finish(t, "failed")
    <3>1. PICK e \in {f \in nodes.list : f.node = job[t].node} :
            Update(t, [job[t] EXCEPT !.pc = "read", !.id = e.id])
      BY <1>2, <2>3 DEF Resolve
    <3>2. e.id \in 0..MaxId /\ job[t] \in Job
      <4>1. e \in Entry
        BY <1>0, Contents
      <4> QED BY <1>0, <4>1 DEF Entry
    <3> DEFINE rec == [job[t] EXCEPT !.pc = "read", !.id = e.id]
    <3>3. rec \in Job /\ rec.pc = "read"
      BY <3>2 DEF Job, States, Working
    <3> HIDE DEF rec
    <3>4. job' \in [Tasks -> Job] /\ IdChosen'
      <4>1. Update(t, rec)
        BY <3>1 DEF rec
      <4> QED BY <3>3, <4>1, IdStep, JobTypes DEF TypeInv
    <3> QED BY <1>0, <1>t, <2>1, <3>4 DEF files, rest
  <2> QED BY <2>2, <2>3
<1>3. ASSUME NEW t \in Tasks, ReadList(t) PROVE TypeInv'
  <2> DEFINE j   == job[t]
             hit == {e.id : e \in {f \in nodes.list : IF j.op = "update" THEN f.node = j.node
                                                                     ELSE f.id = j.id}}
  <2>1. UNCHANGED <<files, rest>> /\ j \in Job /\ nodes.list \subseteq Entry
    BY <1>0, <1>3, Contents DEF ReadList
  <2>2. CASE Finish(t, "failed")
    BY <1>0, <1>t, <2>1, <2>2, EndStep DEF files, rest
  <2>3. CASE ~Finish(t, "failed")
    <3>1. PICK id \in IF j.op = "add" THEN {0} ELSE hit :
            Update(t, [j EXCEPT !.pc = IF j.op = "add" THEN "cursor" ELSE "confCand",
                                !.id = id, !.list = nodes.list])
      BY <1>3, <2>3 DEF ReadList
    <3>2. id \in 0..MaxId
      BY <1>0, <2>1, <3>1 DEF Entry
    <3> DEFINE rec == [j EXCEPT !.pc = IF j.op = "add" THEN "cursor" ELSE "confCand",
                                !.id = id, !.list = nodes.list]
    <3>3. rec \in Job /\ (rec.op = "add" => rec.pc = "cursor")
      BY <2>1, <3>2 DEF Job, States, Working
    <3> HIDE DEF rec
    <3>4. Update(t, rec)
      BY <3>1 DEF rec
    <3>5. job' \in [Tasks -> Job] /\ IdChosen'
      BY <3>3, <3>4, IdStep, JobTypes DEF TypeInv
    <3> QED BY <1>0, <1>t, <2>1, <3>5 DEF files, rest
  <2> QED BY <2>2, <2>3
<1>4. ASSUME NEW t \in Tasks, ReadCursor(t) PROVE TypeInv'
  <2>0. PICK known \in {cursor, 0} :
          /\ NextId(job[t].list, known) <= MaxId
          /\ \/ known = cursor /\ UNCHANGED used
             \/ /\ known = 0 /\ used.faults < MaxFaults
                /\ used' = [used EXCEPT !.faults = @ + 1, !.unread = TRUE]
          /\ Update(t, [job[t] EXCEPT !.pc = "save", !.id = NextId(job[t].list, known)])
          /\ UNCHANGED <<files, cursor, running, given, before, apart>>
    BY <1>4 DEF ReadCursor
  <2> DEFINE id == NextId(job[t].list, known)
  <2>1. job[t] \in Job /\ job[t].list \in SUBSET Entry /\ known \in 0..MaxId
    BY <1>0 DEF Job
  <2>2. id \in 0..MaxId /\ id >= 1
    <3>1. id \in Nat /\ id > known /\ id <= MaxId
      BY <2>0, <2>1, NextIdIs
    <3> HIDE DEF id
    <3> QED BY <1>0, <2>1, <3>1
  <2>3. Update(t, [job[t] EXCEPT !.pc = "save", !.id = id])
    BY <2>0
  <2>u. used' \in [faults : 0..MaxFaults, unread : BOOLEAN]
    <3>1. used.faults \in 0..MaxFaults /\ (used.faults < MaxFaults => used.faults + 1 \in 0..MaxFaults)
      BY <1>0
    <3> HIDE DEF id
    <3> QED BY <1>0, <2>0, <3>1
  <2> HIDE DEF id
  <2> DEFINE rec == [job[t] EXCEPT !.pc = "save", !.id = id]
  <2>4. rec \in Job /\ rec.id = id
    BY <2>1, <2>2 DEF Job, States, Working
  <2> HIDE DEF rec
  <2>5. Update(t, rec)
    BY <2>3 DEF rec
  <2>6. job' \in [Tasks -> Job] /\ IdChosen'
    BY <2>2, <2>4, <2>5, IdStep, JobTypes DEF TypeInv
  <2>7. UNCHANGED <<files, cursor, running, given, before, apart>>
    BY <2>0
  <2> QED BY <1>0, <1>t, <2>6, <2>7, <2>u DEF files
<1>5. ASSUME NEW t \in Tasks, NEW pc \in States, Goto(t, pc),
             job[t].pc \in Working \ {"resolve", "read", "cursor"}
      PROVE  job' \in [Tasks -> Job] /\ IdChosen'
  BY <1>5, <1>i, GoStep
<1>6. ASSUME NEW t \in Tasks, SaveCursor(t) PROVE TypeInv'
  <2>1. job' \in [Tasks -> Job] /\ IdChosen'
    BY <1>5, <1>6, EndStep DEF SaveCursor, Working, States
  <2>2. cursor' \in 0..MaxId
    BY <1>0, <1>6 DEF SaveCursor, Job
  <2>3. used' \in [faults : 0..MaxFaults, unread : BOOLEAN]
    BY <1>0, <1>6, <1>f DEF SaveCursor
  <2> QED BY <1>0, <1>6, <1>t, <2>1, <2>2, <2>3 DEF SaveCursor, files
<1>7. ASSUME NEW t \in Tasks, WriteConfCandidate(t) \/ WriteNodesCandidate(t) PROVE TypeInv'
  <2>1. job[t] \in Job /\ job[t].pc \in {"confCand", "nodesCand"}
    BY <1>0, <1>7 DEF WriteConfCandidate, WriteNodesCandidate
  <2>2. Applied(job[t]) \subseteq Entry
    BY <1>i, <2>1, AppliedType DEF Working
  <2>3. File(Applied(job[t])) \in Content /\ File(Inbounds(Applied(job[t]))) \in Content
    BY <2>2, Contents DEF Inbounds, Active
  <2>4. job' \in [Tasks -> Job] /\ IdChosen'
    <3>1. Goto(t, "nodesCand") \/ Goto(t, "check") \/ Finish(t, "failed")
      BY <1>7 DEF WriteConfCandidate, WriteNodesCandidate
    <3> QED BY <1>5, <2>1, <3>1, EndStep DEF Working, States
  <2>5. UNCHANGED <<conf, confBak, nodes, nodesBak, cursor, running, given, before, apart>>
    BY <1>7 DEF WriteConfCandidate, WriteNodesCandidate
  <2>6. confCand' \in Content /\ nodesCand' \in Content
    <3>1. confCand' \in {confCand, File(Inbounds(Applied(job[t])))}
          /\ nodesCand' \in {nodesCand, File(Applied(job[t]))}
      BY <1>7 DEF WriteConfCandidate, WriteNodesCandidate
    <3> QED BY <1>0, <2>3, <3>1
  <2>7. used' \in [faults : 0..MaxFaults, unread : BOOLEAN]
    <3>1. UNCHANGED used \/ Fails
      BY <1>7 DEF WriteConfCandidate, WriteNodesCandidate
    <3> QED BY <1>0, <1>f, <3>1
  <2> QED BY <1>0, <1>t, <2>4, <2>5, <2>6, <2>7
<1>8. ASSUME NEW t \in Tasks, Check(t) \/ Healthy(t) PROVE TypeInv'
  <2>1. job' \in [Tasks -> Job] /\ IdChosen'
    BY <1>5, <1>8 DEF Check, Healthy, Working, States
  <2> QED BY <1>0, <1>8, <1>t, <2>1 DEF Check, Healthy, files, rest
<1>9. ASSUME NEW t \in Tasks, CheckFails(t) \/ ReadFails(t) PROVE TypeInv'
  <2>1. used' \in [faults : 0..MaxFaults, unread : BOOLEAN]
    BY <1>0, <1>9, <1>f DEF CheckFails, ReadFails
  <2>2. job' \in [Tasks -> Job] /\ IdChosen'
    BY <1>9, EndStep DEF CheckFails, ReadFails
  <2> QED BY <1>0, <1>9, <1>t, <2>1, <2>2 DEF CheckFails, ReadFails, files
<1>10. ASSUME NEW t \in Tasks, BackupConf(t) \/ UndoConf(t) \/ UndoNodes(t) PROVE TypeInv'
  <2>1. job' \in [Tasks -> Job] /\ IdChosen'
    BY <1>5, <1>10 DEF BackupConf, UndoConf, UndoNodes, Working, States
  <2>2. {conf', confCand', confBak', nodes', nodesCand', nodesBak'} \subseteq Content
    BY <1>0, <1>10 DEF BackupConf, UndoConf, UndoNodes, RestoredConf, RestoredNodes
  <2>3. UNCHANGED <<cursor, running, given, before, used>> /\ apart' \in BOOLEAN
    BY <1>0, <1>10 DEF BackupConf, UndoConf, UndoNodes, rest
  <2> QED BY <1>0, <1>t, <2>1, <2>2, <2>3
<1>21. ASSUME NEW t \in Tasks, BackupFails(t) PROVE TypeInv'
  <2>1. used' \in [faults : 0..MaxFaults, unread : BOOLEAN]
    BY <1>0, <1>21, <1>f DEF BackupFails
  <2>2. job' \in [Tasks -> Job] /\ IdChosen'
    BY <1>21, EndStep DEF BackupFails
  <2>3. confBak' \in {confBak, Torn} /\ nodesBak' \in {nodesBak, Torn}
    BY <1>21 DEF BackupFails
  <2> QED BY <1>0, <1>21, <1>t, <2>1, <2>2, <2>3, Contents DEF BackupFails
<1>22. ASSUME NEW t \in Tasks, RenameFails(t) PROVE TypeInv'
  <2>1. used' \in [faults : 0..MaxFaults, unread : BOOLEAN]
    BY <1>0, <1>22, <1>f DEF RenameFails
  <2>2. job' \in [Tasks -> Job] /\ IdChosen'
    BY <1>5, <1>22 DEF RenameFails, Working, States
  <2>3. /\ conf' \in {conf, confCand} /\ confCand' \in {confCand, None}
        /\ nodes' \in {nodes, nodesCand} /\ nodesCand' \in {nodesCand, None}
    BY <1>22 DEF RenameFails, MoveConf, MoveNodes
  <2>4. given' \subseteq (1..MaxId) \X Nodes
    BY <1>0, <1>22, Contents DEF RenameFails, MoveNodes, Entry
  <2> QED BY <1>0, <1>22, <1>t, <2>1, <2>2, <2>3, <2>4, Contents DEF RenameFails
<1>23. ASSUME NEW t \in Tasks, UndoFails(t) PROVE TypeInv'
  <2>1. used' \in [faults : 0..MaxFaults, unread : BOOLEAN]
    BY <1>0, <1>23, <1>f DEF UndoFails
  <2>2. job' \in [Tasks -> Job] /\ IdChosen'
    BY <1>5, <1>23 DEF UndoFails, Working, States
  <2>3. conf' \in {conf, Torn} /\ nodes' \in {nodes, Torn}
    BY <1>23 DEF UndoFails
  <2>4. before' \in [conf : Content, nodes : Content, whole : BOOLEAN] /\ apart' \in BOOLEAN
    BY <1>0, <1>23 DEF UndoFails
  <2> QED BY <1>0, <1>23, <1>t, <2>1, <2>2, <2>3, <2>4, Contents DEF UndoFails
<1>11. ASSUME NEW t \in Tasks, BackupNodes(t) PROVE TypeInv'
  <2>1. job[t] \in Job
    BY <1>0
  <2> DEFINE rec == [job[t] EXCEPT !.pc = "renameConf", !.backup = nodes # None]
  <2>2. rec \in Job /\ rec.op = job[t].op /\ rec.id = job[t].id
    BY <2>1 DEF Job, States, Working
  <2>3. Update(t, rec) /\ job[t].pc = "backupNodes"
    BY <1>11 DEF BackupNodes
  <2> HIDE DEF rec
  <2>4. job[t].op = "add" => job[t].id >= 1
    BY <1>i, <2>3 DEF Working
  <2>5. job' \in [Tasks -> Job] /\ IdChosen'
    BY <2>2, <2>3, <2>4, IdStep, JobTypes DEF TypeInv
  <2> QED BY <1>0, <1>11, <1>t, <2>5 DEF BackupNodes, rest
<1>12. ASSUME NEW t \in Tasks, RenameConf(t) PROVE TypeInv'
  <2>1. job' \in [Tasks -> Job] /\ IdChosen'
    BY <1>5, <1>12 DEF RenameConf, Working, States
  <2> QED BY <1>0, <1>12, <1>t, <2>1, Contents DEF RenameConf, MoveConf, rest
<1>13. ASSUME NEW t \in Tasks, RenameNodes(t) PROVE TypeInv'
  <2>1. job' \in [Tasks -> Job] /\ IdChosen'
    BY <1>5, <1>13 DEF RenameNodes, Working, States
  <2>2. given' \subseteq (1..MaxId) \X Nodes
    BY <1>0, <1>13, Contents DEF RenameNodes, MoveNodes, Entry
  <2> QED BY <1>0, <1>13, <1>t, <2>1, <2>2, Contents DEF RenameNodes, MoveNodes
<1>14. ASSUME NEW t \in Tasks, Restart(t) PROVE TypeInv'
  <2>1. job' \in [Tasks -> Job] /\ IdChosen'
    BY <1>5, <1>14 DEF Restart, Working, States
  <2> QED BY <1>0, <1>14, <1>t, <2>1, Contents DEF Restart, Boot, files
<1>15. ASSUME NEW t \in Tasks, RestartFails(t) PROVE TypeInv'
  <2>1. used' \in [faults : 0..MaxFaults, unread : BOOLEAN]
    BY <1>0, <1>15, <1>f DEF RestartFails
  <2>2. job[t] \in Job
    BY <1>0
  <2> DEFINE rec == [job[t] EXCEPT !.pc = "undoConf", !.restart = TRUE]
  <2>3. rec \in Job /\ rec.op = job[t].op /\ rec.id = job[t].id
    BY <2>2 DEF Job, States, Working
  <2>4. Update(t, rec) /\ job[t].pc \in {"restart", "health"}
    BY <1>15 DEF RestartFails
  <2> HIDE DEF rec
  <2>5. job[t].op = "add" => job[t].id >= 1
    BY <1>i, <2>4 DEF Working
  <2>6. job' \in [Tasks -> Job] /\ IdChosen'
    BY <2>3, <2>4, <2>5, IdStep, JobTypes DEF TypeInv
  <2> QED BY <1>0, <1>15, <1>t, <2>1, <2>6, Contents DEF RestartFails, files
<1>16. ASSUME NEW t \in Tasks, Clean(t) PROVE TypeInv'
  BY <1>0, <1>16, <1>t, EndStep, Contents DEF Clean, rest
<1>17. ASSUME NEW t \in Tasks, UndoClean(t) PROVE TypeInv'
  <2>1. job' \in [Tasks -> Job] /\ IdChosen'
    BY <1>5, <1>17, EndStep DEF UndoClean, Working, States
  <2> QED BY <1>0, <1>17, <1>t, <2>1, Contents DEF UndoClean, rest
<1>18. ASSUME NEW t \in Tasks, UndoRestart(t) PROVE TypeInv'
  <2>1. used' \in [faults : 0..MaxFaults, unread : BOOLEAN]
    BY <1>0, <1>18, <1>f DEF UndoRestart
  <2>2. job' \in [Tasks -> Job] /\ IdChosen'
    BY <1>18, EndStep DEF UndoRestart
  <2> QED BY <1>0, <1>18, <1>t, <2>1, <2>2, Contents DEF UndoRestart, Boot, files
<1>19. CASE Crash
  <2>1. job' \in [Tasks -> Job] /\ IdChosen'
    BY <1>0, <1>19 DEF Crash, IdChosen, Idle, Working
  <2>3. used' \in [faults : 0..MaxFaults, unread : BOOLEAN] /\ apart' \in BOOLEAN
    BY <1>0, <1>19, <1>f DEF Crash
  <2>4. conf' \in Content /\ nodes' \in Content /\ running' \in Content
    <3>1. conf' \in {conf, Torn} /\ nodes' \in {nodes, Torn}
          /\ running' \in {running, Down, conf'}
      BY <1>19 DEF Crash
    <3> QED BY <1>0, <3>1, Contents
  <2> QED BY <1>0, <1>19, <1>t, <2>1, <2>3, <2>4 DEF Crash
<1>20. CASE UNCHANGED vars
  BY <1>20 DEF vars, files, rest, TypeInv, TypeOK, IdChosen
<1> QED
  BY <1>1, <1>2, <1>3, <1>4, <1>6, <1>7, <1>8, <1>9, <1>10, <1>11, <1>12, <1>13, <1>14, <1>15,
     <1>16, <1>17, <1>18, <1>19, <1>20, <1>21, <1>22, <1>23 DEF Next, Step

LEMMA TypeInit == Init => TypeInv
<1> SUFFICES ASSUME Init PROVE TypeInv
  OBVIOUS
<1>1. Idle \in Job
  BY ApplyAssumption DEF Idle, Job, States
<1>2. job \in [Tasks -> Job] /\ \A t \in Tasks : job[t].pc = "idle"
  BY <1>1 DEF Init, Idle
<1>3. /\ {conf, confCand, confBak, nodes, nodesCand, nodesBak, running} \subseteq Content
      /\ before \in [conf : Content, nodes : Content, whole : BOOLEAN]
  <2> File({}) \in Content
    BY Contents
  <2> QED BY Contents DEF Init, NotStarted
<1>4. cursor \in 0..MaxId /\ used \in [faults : 0..MaxFaults, unread : BOOLEAN]
  BY ApplyAssumption DEF Init
<1>5. given \subseteq (1..MaxId) \X Nodes /\ apart \in BOOLEAN
  BY DEF Init
<1>6. IdChosen
  BY <1>2 DEF IdChosen, Working
<1> QED BY <1>2, <1>3, <1>4, <1>5, <1>6 DEF TypeInv, TypeOK, Job, States

\* Types hold at any time: no list and no job ever holds an id beyond those handed out.
THEOREM TypeCorrect == Spec => []TypeOK
<1>1. TypeInv => TypeOK
  BY DEF TypeInv
<1> QED BY <1>1, TypeInit, TypeStep, PTL DEF Spec

-----------------------------------------------------------------------------
(***************************************************************************)
(* Every path to nodes.json is guarded, whatever tasks overlap.            *)
(***************************************************************************)

\* What validateNodes promises of a list.
Lawful(list) ==
  /\ IsFiniteSet(list)
  /\ \A d, e \in list : d # e => d.id # e.id /\ ~({d.node, e.node} \subseteq Clash)

\* Every file that may become nodes.json holds a lawful list, and so does what a task is
\* about to write.
ListsInv ==
  /\ Lawful(nodes.list) /\ Lawful(nodesCand.list) /\ Lawful(nodesBak.list)
  /\ \A t \in Tasks : /\ IsFiniteSet(job[t].list)
                      /\ job[t].pc = "nodesCand" => Valid(Applied(job[t]))

LEMMA ValidIsLawful ==
  ASSUME NEW list, IsFiniteSet(list), Valid(list)
  PROVE  Lawful(list)
<1> SUFFICES ASSUME NEW d \in list, NEW e \in list, d # e, {d.node, e.node} \subseteq Clash
             PROVE  FALSE
  BY DEF Valid, Lawful
<1> DEFINE S == {x \in list : x.node \in Clash}
<1>1. {d, e} \subseteq S /\ IsFiniteSet(S) /\ Cardinality(S) <= 1
  BY FS_Subset DEF Valid
<1>2. Cardinality({d, e}) = 2 /\ IsFiniteSet({d, e})
  <2>1. IsFiniteSet({d}) /\ Cardinality({d}) = 1
    BY FS_Singleton
  <2>2. {d} \cup {e} = {d, e} /\ e \notin {d}
    OBVIOUS
  <2>3. IsFiniteSet({d} \cup {e}) /\ Cardinality({d} \cup {e}) = Cardinality({d}) + 1
    BY <2>1, <2>2, FS_AddElement
  <2> QED BY <2>1, <2>2, <2>3
<1>3. Cardinality({d, e}) <= Cardinality(S)
  BY <1>1, FS_Subset
<1>4. Cardinality(S) \in Nat
  BY <1>1, FS_CardinalityType
<1> QED BY <1>1, <1>2, <1>3, <1>4

LEMMA JobLists ==
  ASSUME TypeInv, ListsInv, NEW t \in Tasks, NEW j \in Job, job' = [job EXCEPT ![t] = j],
         IsFiniteSet(j.list), j.pc # "nodesCand" \/ Valid(Applied(j)),
         NEW u \in Tasks
  PROVE  IsFiniteSet(job'[u].list) /\ (job'[u].pc = "nodesCand" => Valid(Applied(job'[u])))
  BY JobTypes DEF TypeInv, ListsInv

LEMMA ListsStep == TypeInv /\ ListsInv /\ [Next]_vars => ListsInv'
<1> SUFFICES ASSUME TypeInv, ListsInv, [Next]_vars PROVE ListsInv'
  OBVIOUS
<1>0. job \in [Tasks -> Job] /\ \A t \in Tasks : job[t] \in Job /\ IsFiniteSet(job[t].list)
  BY JobTypes DEF ListsInv, TypeInv, TypeOK, Job, States
<1>1. Lawful({})
  BY FS_EmptySet DEF Lawful
<1>2. ASSUME NEW t \in Tasks, job[t].pc = "nodesCand" PROVE Lawful(Applied(job[t]))
  <2>1. job[t].op = "add" => job[t].id >= 1
    BY <1>2 DEF TypeInv, IdChosen, Working
  <2>2. IsFiniteSet(Applied(job[t]))
    BY <1>0, <2>1, AppliedType
  <2> QED BY <1>2, <2>2, ValidIsLawful DEF ListsInv
<1>3. /\ nodes' \in {nodes, nodesCand, nodesBak, Torn} /\ nodesBak' \in {nodesBak, nodes, None, Torn}
      /\ \/ nodesCand' \in {nodesCand, None}
         \/ \E t \in Tasks : job[t].pc = "nodesCand" /\ nodesCand' = File(Applied(job[t]))
  <2>1. CASE \E t \in Tasks : Step(t)
    BY <2>1 DEF Step, Resolve, ReadList, ReadCursor, SaveCursor, WriteConfCandidate,
         WriteNodesCandidate, Check, CheckFails, ReadFails, BackupFails, RenameFails, UndoFails,
         BackupConf, BackupNodes, RenameConf, RenameNodes, Restart, RestartFails, Healthy,
         Clean, UndoConf, UndoNodes, UndoClean, UndoRestart, RestoredNodes, MoveNodes, files,
         rest
  <2>2. CASE Crash
    BY <2>2 DEF Crash
  <2> QED BY <2>1, <2>2 DEF Next, Start, vars, files
<1>4. Lawful(nodes'.list) /\ Lawful(nodesCand'.list) /\ Lawful(nodesBak'.list)
  <2>1. /\ Lawful(nodes.list) /\ Lawful(nodesCand.list) /\ Lawful(nodesBak.list)
        /\ Lawful(Torn.list) /\ Lawful(None.list)
    BY <1>1 DEF ListsInv, Torn, None
  <2>2. Lawful(nodes'.list) /\ Lawful(nodesBak'.list)
    BY <1>3, <2>1
  <2>3. CASE nodesCand' \in {nodesCand, None}
    BY <2>1, <2>2, <2>3
  <2>4. ASSUME NEW t \in Tasks, job[t].pc = "nodesCand", nodesCand' = File(Applied(job[t]))
        PROVE  Lawful(nodesCand'.list)
    BY <1>2, <2>4 DEF File
  <2> QED BY <1>3, <2>2, <2>3, <2>4
<1>5. ASSUME NEW u \in Tasks
      PROVE  IsFiniteSet(job'[u].list) /\ (job'[u].pc = "nodesCand" => Valid(Applied(job'[u])))
  <2> DEFINE Sound == IsFiniteSet(job'[u].list) /\ (job'[u].pc = "nodesCand" => Valid(Applied(job'[u])))
  <2>g. ASSUME NEW t \in Tasks, NEW pc \in States \ {"nodesCand"}, Goto(t, pc)
        PROVE  Sound
    <3> DEFINE j == [job[t] EXCEPT !.pc = pc]
    <3>1. j \in Job /\ j.pc = pc /\ j.list = job[t].list
      BY <1>0 DEF Job
    <3>2. job' = [job EXCEPT ![t] = j]
      BY <2>g, JobTypes DEF TypeInv
    <3> HIDE DEF j
    <3> QED BY <1>0, <3>1, <3>2, JobLists
  <2>f. ASSUME NEW t \in Tasks, NEW pc \in {"failed", "succeeded"}, Finish(t, pc)
        PROVE  Sound
    <3> DEFINE j == [Idle EXCEPT !.pc = pc]
    <3>1. j \in Job /\ j.pc = pc /\ j.list = {}
      BY JobTypes DEF States, Idle, TypeInv
    <3>2. job' = [job EXCEPT ![t] = j]
      BY <2>f, JobTypes DEF TypeInv, States
    <3> HIDE DEF j
    <3> QED BY <3>1, <3>2, JobLists, FS_EmptySet
  <2>u. ASSUME NEW t \in Tasks, NEW j \in Job, Update(t, j), IsFiniteSet(j.list), j.pc # "nodesCand"
        PROVE  Sound
    BY <2>u, JobLists DEF Update
  <2>1. ASSUME NEW t \in Tasks, WriteConfCandidate(t)
        PROVE  Sound
    <3>1. CASE Finish(t, "failed")
      BY <2>f, <3>1
    <3>2. CASE Valid(Applied(job[t])) /\ Goto(t, "nodesCand")
      <4> DEFINE j == [job[t] EXCEPT !.pc = "nodesCand"]
      <4>1. /\ j \in Job /\ j.list = job[t].list /\ j.op = job[t].op /\ j.id = job[t].id
            /\ j.node = job[t].node
        BY <1>0 DEF Job, States, Working
      <4>2. job' = [job EXCEPT ![t] = j]
        BY <3>2 DEF Goto
      <4> HIDE DEF j
      <4>3. Applied(j) = Applied(job[t])
        BY <4>1 DEF Applied
      <4> QED BY <1>0, <3>2, <4>1, <4>2, <4>3, JobLists
    <3> QED BY <2>1, <3>1, <3>2 DEF WriteConfCandidate
  <2>2. ASSUME NEW t \in Tasks, ReadList(t)
        PROVE  Sound
    <3>1. CASE Finish(t, "failed")
      BY <2>f, <3>1
    <3>2. CASE \E id \in IF job[t].op = "add" THEN {0}
                         ELSE {e.id : e \in {f \in nodes.list :
                                               IF job[t].op = "update" THEN f.node = job[t].node
                                                                      ELSE f.id = job[t].id}} :
                 Update(t, [job[t] EXCEPT !.pc = IF job[t].op = "add" THEN "cursor" ELSE "confCand",
                                          !.id = id, !.list = nodes.list])
      <4>1. nodes.list \subseteq Entry
        BY Contents DEF TypeInv, TypeOK
      <4>2. PICK id \in 0..MaxId :
              Update(t, [job[t] EXCEPT !.pc = IF job[t].op = "add" THEN "cursor" ELSE "confCand",
                                       !.id = id, !.list = nodes.list])
        <5>1. \A e \in nodes.list : e.id \in 0..MaxId
          BY <4>1 DEF Entry
        <5>2. 0 \in 0..MaxId
          BY ApplyAssumption
        <5> QED BY <3>2, <5>1, <5>2
      <4> DEFINE j == [job[t] EXCEPT !.pc = IF job[t].op = "add" THEN "cursor" ELSE "confCand",
                                     !.id = id, !.list = nodes.list]
      <4>3. j \in Job /\ j.list = nodes.list /\ j.pc # "nodesCand"
        BY <1>0, <4>1 DEF Job, States, Working
      <4>4. Update(t, j)
        BY <4>2
      <4>5. IsFiniteSet(nodes.list)
        BY DEF ListsInv, Lawful
      <4> HIDE DEF j
      <4> QED BY <2>u, <4>3, <4>4, <4>5
    <3> QED BY <2>2, <3>1, <3>2 DEF ReadList
  <2>3. ASSUME NEW t \in Tasks, NEW j, Update(t, j),
               \/ \E id \in Nat : j = [job[t] EXCEPT !.pc = "read", !.id = id] /\ id \in 0..MaxId
               \/ \E id \in Nat : j = [job[t] EXCEPT !.pc = "save", !.id = id] /\ id \in 0..MaxId
               \/ j = [job[t] EXCEPT !.pc = "renameConf", !.backup = nodes # None]
               \/ j = [job[t] EXCEPT !.pc = "undoConf", !.restart = TRUE]
        PROVE  Sound
    <3>1. j \in Job /\ j.list = job[t].list /\ j.pc # "nodesCand"
      BY <1>0, <2>3 DEF Job, States, Working
    <3> QED BY <1>0, <2>3, <2>u, <3>1
  <2>4. ASSUME NEW t \in Tasks, Resolve(t)
        PROVE  Sound
    <3>1. \A e \in nodes.list : e.id \in Nat /\ e.id \in 0..MaxId
      BY Contents DEF TypeInv, TypeOK, Entry
    <3> QED BY <2>3, <2>4, <2>f, <3>1 DEF Resolve
  <2>5. ASSUME NEW t \in Tasks, ReadCursor(t)
        PROVE  Sound
    <3>0. PICK known \in {cursor, 0} :
            /\ NextId(job[t].list, known) <= MaxId
            /\ Update(t, [job[t] EXCEPT !.pc = "save", !.id = NextId(job[t].list, known)])
      BY <2>5 DEF ReadCursor
    <3> DEFINE id == NextId(job[t].list, known)
    <3>1. id \in Nat /\ id <= MaxId
      <4>1. known \in 0..MaxId /\ job[t].list \in SUBSET Entry
        BY <1>0, <3>0, ApplyAssumption DEF TypeInv, TypeOK, Job
      <4> QED BY <3>0, <4>1, NextIdIs
    <3>2. Update(t, [job[t] EXCEPT !.pc = "save", !.id = id])
      BY <3>0
    <3> HIDE DEF id
    <3>3. id \in 0..MaxId
      BY <3>1, ApplyAssumption
    <3> QED BY <2>3, <3>1, <3>2, <3>3
  <2>6. ASSUME NEW t \in Tasks, BackupNodes(t) \/ RestartFails(t)
        PROVE  Sound
    BY <2>3, <2>6 DEF BackupNodes, RestartFails
  <2>7. ASSUME NEW t \in Tasks,
               \/ ReadFails(t) \/ SaveCursor(t) \/ WriteNodesCandidate(t) \/ Check(t)
               \/ CheckFails(t) \/ BackupFails(t) \/ RenameFails(t) \/ UndoFails(t)
               \/ BackupConf(t) \/ RenameConf(t) \/ RenameNodes(t) \/ Restart(t) \/ Healthy(t)
               \/ Clean(t) \/ UndoConf(t) \/ UndoNodes(t) \/ UndoClean(t) \/ UndoRestart(t)
        PROVE  Sound
    <3>1. \/ \E pc \in States \ {"nodesCand"} : Goto(t, pc)
          \/ \E pc \in {"failed", "succeeded"} : Finish(t, pc)
      BY <2>7 DEF SaveCursor, WriteNodesCandidate, Check, CheckFails, ReadFails, BackupFails,
           RenameFails, UndoFails, BackupConf, RenameConf, RenameNodes, Restart, Healthy, Clean,
           UndoConf, UndoNodes, UndoClean, UndoRestart, States, Working
    <3> QED BY <2>f, <2>g, <3>1
  <2>8. ASSUME NEW t \in Tasks, NEW op \in Ops, NEW n \in Nodes, Start(t, op, n)
        PROVE  Sound
    <3> DEFINE j == [Idle EXCEPT !.pc = IF op \in {"add", "update"} THEN "read" ELSE "resolve",
                                 !.op = op, !.node = n]
    <3>1. j \in Job /\ j.list = {} /\ j.pc # "nodesCand"
      <4>1. Idle \in Job /\ Idle.list = {}
        BY JobTypes DEF TypeInv, Idle
      <4> QED BY <4>1 DEF Job, States, Working
    <3>2. Update(t, j)
      BY <2>8 DEF Start
    <3> HIDE DEF j
    <3> QED BY <2>u, <3>1, <3>2, FS_EmptySet
  <2>9. CASE Crash
    BY <2>9, FS_EmptySet DEF Crash, Idle
  <2>10. CASE UNCHANGED vars
    BY <2>10 DEF vars, ListsInv
  <2> QED
    BY <2>1, <2>2, <2>4, <2>5, <2>6, <2>7, <2>8, <2>9, <2>10 DEF Next, Step
<1> QED BY <1>4, <1>5 DEF ListsInv

LEMMA TypesAndLists == Spec => [](TypeInv /\ ListsInv)
<1>1. Init => TypeInv /\ ListsInv
  <2>1. Init => TypeInv
    BY TypeInit
  <2>2. ASSUME Init PROVE ListsInv
    <3>1. \A t \in Tasks : job[t].list = {} /\ job[t].pc = "idle"
      BY <2>2 DEF Init, Idle
    <3>2. nodes.list = {} /\ nodesCand.list = {} /\ nodesBak.list = {}
      BY <2>2 DEF Init, File, None
    <3> QED BY <3>1, <3>2, FS_EmptySet DEF ListsInv, Lawful
  <2> QED BY <2>1, <2>2
<1> QED BY <1>1, TypeStep, ListsStep, PTL DEF Spec

\* Whatever tasks overlap, whatever fails and wherever the Agent dies, nodes.json never
\* lists an id or a port twice.
THEOREM AlwaysValid == Spec => []NodesValid
<1>1. ListsInv => NodesValid
  BY DEF ListsInv, Lawful, NodesValid
<1> QED BY <1>1, TypesAndLists, PTL

-----------------------------------------------------------------------------
(***************************************************************************)
(* What a task makes of a list.                                            *)
(***************************************************************************)

Pairs(list)  == {<<e.id, e.node>> : e \in list}
Single(list) == \A d, e \in list : d.node = e.node => d = e

\* The task asks for something that can be done to its list.
Fits(j) ==
  IF j.op = "add" THEN \A e \in j.list : e.node # j.node
                  ELSE \E e \in j.list : e.id = j.id /\ e.node = j.node

\* A task that does not add replaces or removes the one entry of its node.
LEMMA AppliedOne ==
  ASSUME NEW j \in Job, Lawful(j.list), Single(j.list), Fits(j), j.op # "add"
  PROVE  \E e \in j.list :
           /\ e.id = j.id /\ e.node = j.node
           /\ \A d \in j.list : d.node = j.node => d = e
           /\ \/ j.op = "remove" /\ Applied(j) = j.list \ {e}
              \/ \E f : /\ Applied(j) = (j.list \ {e}) \cup {f} /\ f.id = e.id /\ f.node = e.node
                        /\ j.op \in {"update", "enable", "disable"}
                        /\ (j.op = "update" => f.ver = 1) /\ (j.op = "enable" => f.on)
                        /\ (j.op = "disable" => ~f.on)
<1> DEFINE old == {e \in j.list : e.id = j.id}
<1>1. PICK e \in j.list : e.id = j.id /\ e.node = j.node
  BY DEF Fits
<1>2. \A d \in j.list : d.node = j.node => d = e
  BY <1>1 DEF Single
<1>3. old = {e}
  BY <1>1 DEF Lawful
<1>4. e \in Entry
  BY DEF Job
<1>5. /\ [e EXCEPT !.ver = 1].id = e.id /\ [e EXCEPT !.ver = 1].node = e.node
      /\ [e EXCEPT !.ver = 1].ver = 1
      /\ [e EXCEPT !.on = TRUE].id = e.id /\ [e EXCEPT !.on = TRUE].node = e.node
      /\ [e EXCEPT !.on = TRUE].on
      /\ [e EXCEPT !.on = FALSE].id = e.id /\ [e EXCEPT !.on = FALSE].node = e.node
      /\ ~[e EXCEPT !.on = FALSE].on
  BY <1>4 DEF Entry
<1>6. CASE j.op = "remove"
  <2>1. Applied(j) = j.list \ {e}
    BY <1>3, <1>6, AppliedIs
  <2> QED BY <1>1, <1>2, <1>6, <2>1
<1> DEFINE Result(f) == Applied(j) = (j.list \ {e}) \cup {f}
<1>7. CASE j.op = "update"
  <2>1. Applied(j) = (j.list \ old) \cup {[d EXCEPT !.ver = 1] : d \in old}
    BY <1>7, AppliedIs
  <2>2. Result([e EXCEPT !.ver = 1])
    BY <1>3, <2>1
  <2> QED BY <1>1, <1>2, <1>5, <1>7, <2>2
<1>8. CASE j.op = "enable"
  <2>1. Applied(j) = (j.list \ old) \cup {[d EXCEPT !.on = TRUE] : d \in old}
    BY <1>8, AppliedIs
  <2>2. Result([e EXCEPT !.on = TRUE])
    BY <1>3, <2>1
  <2> QED BY <1>1, <1>2, <1>5, <1>8, <2>2
<1>9. CASE j.op = "disable"
  <2>1. Applied(j) = (j.list \ old) \cup {[d EXCEPT !.on = FALSE] : d \in old}
    BY <1>9, AppliedIs
  <2>2. Result([e EXCEPT !.on = FALSE])
    BY <1>3, <2>1
  <2> QED BY <1>1, <1>2, <1>5, <1>9, <2>2
<1> QED BY <1>6, <1>7, <1>8, <1>9, AppliedIs

\* Is the change of job j in this list?
DoneIn(j, list) ==
  LET mine == {e \in list : e.node = j.node} IN
  /\ j.op = "remove"  => mine = {}
  /\ j.op = "add"     => mine # {}
  /\ j.op = "update"  => \E e \in mine : e.ver = 1
  /\ j.op = "enable"  => \E e \in mine : e.on
  /\ j.op = "disable" => \A e \in mine : ~e.on

\* What a task writes: its change, and what was there of other nodes.
LEMMA AppliedFits ==
  ASSUME NEW j \in Job, Lawful(j.list), Single(j.list), Fits(j)
  PROVE  /\ Single(Applied(j)) /\ DoneIn(j, Applied(j))
         /\ j.op # "add" => Pairs(Applied(j)) \subseteq Pairs(j.list)
         /\ j.op = "add" => Pairs(Applied(j)) \subseteq Pairs(j.list) \cup {<<j.id, j.node>>}
         /\ \A e \in Applied(j) : e \in j.list \/ e.node = j.node
         /\ \A e \in j.list : e.node # j.node => e \in Applied(j)
<1>1. CASE j.op = "add"
  <2>1. Applied(j) = j.list \cup {NewEntry(j)}
    BY <1>1, AppliedIs
  <2>2. NewEntry(j).id = j.id /\ NewEntry(j).node = j.node
    BY DEF NewEntry
  <2>3. \A e \in j.list : e.node # j.node
    BY <1>1 DEF Fits
  <2> QED BY <1>1, <2>1, <2>2, <2>3 DEF Single, Pairs, DoneIn
<1>2. CASE j.op # "add"
  <2>1. PICK e \in j.list :
           /\ e.id = j.id /\ e.node = j.node
           /\ \A d \in j.list : d.node = j.node => d = e
           /\ \/ j.op = "remove" /\ Applied(j) = j.list \ {e}
              \/ \E f : /\ Applied(j) = (j.list \ {e}) \cup {f} /\ f.id = e.id /\ f.node = e.node
                        /\ j.op \in {"update", "enable", "disable"}
                        /\ (j.op = "update" => f.ver = 1) /\ (j.op = "enable" => f.on)
                        /\ (j.op = "disable" => ~f.on)
    BY <1>2, AppliedOne
  <2>2. CASE j.op = "remove" /\ Applied(j) = j.list \ {e}
    BY <2>1, <2>2 DEF Single, Pairs, DoneIn
  <2>3. ASSUME NEW f, Applied(j) = (j.list \ {e}) \cup {f}, f.id = e.id, f.node = e.node,
               j.op \in {"update", "enable", "disable"},
               j.op = "update" => f.ver = 1, j.op = "enable" => f.on, j.op = "disable" => ~f.on
        PROVE  /\ Single(Applied(j)) /\ DoneIn(j, Applied(j))
               /\ Pairs(Applied(j)) \subseteq Pairs(j.list)
               /\ \A d \in Applied(j) : d \in j.list \/ d.node = j.node
               /\ \A d \in j.list : d.node # j.node => d \in Applied(j)
    <3>1. Single(Applied(j))
      BY <2>1, <2>3 DEF Single
    <3>2. DoneIn(j, Applied(j))
      BY <2>1, <2>3 DEF DoneIn
    <3>3. Pairs(Applied(j)) \subseteq Pairs(j.list)
      BY <2>1, <2>3 DEF Pairs
    <3> QED BY <2>1, <2>3, <3>1, <3>2, <3>3
  <2> QED BY <1>2, <2>1, <2>2, <2>3
<1> QED BY <1>1, <1>2

-----------------------------------------------------------------------------
(***************************************************************************)
(* One task at a time.  While a task works, before says what both files    *)
(* were when it started, and from its program counter follows what every   *)
(* file holds now: the old content, the new one, or a backup of the old.   *)
(***************************************************************************)
Early     == {"resolve", "read"}
PreRename == Early \cup {"cursor", "save", "confCand", "nodesCand", "check", "backupConf",
                         "backupNodes", "renameConf"}
PreNodes  == PreRename \cup {"renameNodes"}

\* What a task knows of the list it is to change.
Reads(j) ==
  /\ before.conf # None
  /\ j.pc = "resolve" => j.op \notin {"add", "update"}
  /\ j.pc = "read" /\ j.op \notin {"add", "update"} =>
       \E e \in nodes.list : e.id = j.id /\ e.node = j.node
  /\ j.pc \in {"cursor", "save"} => j.op = "add"
  /\ j.pc \notin Early =>
       /\ before.nodes # Torn /\ j.list = before.nodes.list
       /\ Lawful(j.list) /\ Single(j.list) /\ Pairs(j.list) \subseteq given /\ Fits(j)

\* The node of an add is new, and so is its id, if every cursor could be read.
NewId(j) ==
  /\ j.pc \in PreNodes /\ j.op = "add" => \A p \in given : p[2] # j.node
  /\ j.pc = "save" /\ ~used.unread => \A p \in given : p[1] < j.id
  /\ j.pc \in PreNodes \ (Early \cup {"cursor", "save"}) /\ j.op = "add" /\ ~used.unread =>
       j.id <= cursor /\ \A p \in given : p[1] # j.id

\* What the files hold.
Placed(j) ==
  /\ j.pc \in PreRename => conf = before.conf
  /\ j.pc \in PreNodes => nodes = before.nodes
  /\ j.pc \in {"nodesCand", "check", "backupConf", "backupNodes", "renameConf"} =>
       confCand = File(Active(Applied(j)))
  /\ j.pc \in {"check", "backupConf", "backupNodes", "renameConf", "renameNodes"} =>
       nodesCand = File(Applied(j))
  /\ j.pc \in {"renameNodes", "restart", "health", "clean"} => conf = File(Active(Applied(j)))
  /\ j.pc \in {"restart", "health", "clean"} => nodes = File(Applied(j))
  /\ j.pc \in {"health", "clean"} => running = conf

\* What a rollback has restored, if its copies have not failed.
Undone(j) ==
  /\ j.pc \in {"undoConf", "undoNodes"} => nodes \in {before.nodes, File(Applied(j))}
  /\ j.pc \in {"undoNodes", "undoClean", "undoRestart"} /\ before.whole => conf = before.conf
  /\ j.pc \in {"undoClean", "undoRestart"} =>
       /\ nodes \in {before.nodes, File(Applied(j))} \/ (j.backup /\ nodes = Torn)
       /\ before.whole /\ j.backup => nodes = before.nodes
       /\ ~apart => nodes = before.nodes

\* What a rollback would restore.
Backed(j) ==
  /\ j.pc \in {"backupNodes", "renameConf", "renameNodes", "restart", "health", "undoConf",
               "undoNodes"} => confBak = before.conf
  /\ j.pc \in {"renameConf", "renameNodes", "restart", "health", "undoConf", "undoNodes",
               "undoClean", "undoRestart"} =>
       (j.backup <=> before.nodes # None) /\ (j.backup => nodesBak = before.nodes)

Alone == \A t, u \in Tasks : job[t].pc \in Working /\ job[u].pc \in Working => t = u

\* What holds between tasks as well.
Kept ==
  /\ conf # None
  /\ ~used.unread => /\ \A p, q \in given : p[1] = q[1] => p = q
                     /\ \A p \in given : p[1] <= cursor
  /\ Single(nodes.list) /\ Pairs(nodes.list) \subseteq given

JobsInv == \A t \in Tasks : job[t].pc \in Working =>
             Reads(job[t]) /\ NewId(job[t]) /\ Placed(job[t]) /\ Undone(job[t]) /\ Backed(job[t])

ApplyInv == TypeInv /\ ListsInv /\ Alone /\ Kept /\ JobsInv

LEMMA SameChange ==
  ASSUME NEW i \in Job, NEW j \in Job, i.op = j.op, i.node = j.node, i.id = j.id, i.list = j.list
  PROVE  Applied(i) = Applied(j) /\ (Fits(i) <=> Fits(j))
  BY DEF Applied, Fits

LEMMA FileIs ==
  ASSUME NEW l
  PROVE  File(l) # None /\ File(l) # Torn /\ File(l).list = l /\ None # Torn
         /\ None.list = {} /\ Torn.list = {}
  BY DEF File, None, Torn

\* What a job is after a step, field by field.
LEMMA GoIs ==
  ASSUME TypeInv, NEW t \in Tasks, NEW pc \in States, Goto(t, pc)
  PROVE  /\ job'[t].pc = pc /\ job'[t].op = job[t].op /\ job'[t].node = job[t].node
         /\ job'[t].id = job[t].id /\ job'[t].list = job[t].list
         /\ job'[t].backup = job[t].backup /\ job'[t].restart = job[t].restart
         /\ \A u \in Tasks \ {t} : job'[u] = job[u]
  BY JobTypes DEF TypeInv, Job

LEMMA EndIs ==
  ASSUME TypeInv, NEW t \in Tasks, NEW pc \in {"failed", "succeeded"}, Finish(t, pc)
  PROVE  /\ job'[t].pc = pc /\ pc \notin Working
         /\ \A u \in Tasks \ {t} : job'[u] = job[u]
<1>1. pc \in States /\ pc \notin Working
  BY DEF States, Working
<1>2. job \in [Tasks -> Job] /\ job' = [job EXCEPT ![t] = [Idle EXCEPT !.pc = pc]] /\ Idle \in Job
  BY <1>1, JobTypes DEF TypeInv
<1>3. [Idle EXCEPT !.pc = pc].pc = pc
  BY <1>2 DEF Job
<1> QED BY <1>1, <1>2, <1>3

LEMMA UpdateIs ==
  ASSUME TypeInv, NEW t \in Tasks, NEW j, Update(t, j)
  PROVE  job'[t] = j /\ \A u \in Tasks \ {t} : job'[u] = job[u]
  BY JobTypes DEF TypeInv, Update

\* A task either ends, or chooses what it is to change, or goes on with the same change.
LEMMA Moves ==
  ASSUME TypeInv, NEW t \in Tasks, Step(t)
  PROVE  /\ job[t].pc \in Working /\ job[t] \in Job /\ job'[t] \in Job
         /\ \A u \in Tasks \ {t} : job'[u] = job[u]
         /\ before'.conf = before.conf /\ before'.nodes = before.nodes
         /\ before' = before \/ UndoFails(t)
         /\ used.unread => used'.unread
         /\ \/ Resolve(t) \/ ReadList(t) \/ ReadCursor(t)
            \/ job'[t].pc \notin Working
            \/ /\ job[t].pc \notin Early \cup {"cursor"} /\ job'[t].pc \notin Early \cup {"cursor", "save"}
               /\ job'[t].op = job[t].op /\ job'[t].node = job[t].node
               /\ job'[t].id = job[t].id /\ job'[t].list = job[t].list
<1>0. TypeInv' /\ job \in [Tasks -> Job] /\ job[t] \in Job /\ job'[t] \in Job
  <2>1. TypeInv'
    BY TypeStep DEF Next
  <2> QED BY <2>1, JobTypes DEF TypeInv, TypeOK, Job, States
<1>1. /\ job[t].pc \in Working /\ (before' = before \/ UndoFails(t))
      /\ before'.conf = before.conf /\ before'.nodes = before.nodes
      /\ used.unread => used'.unread
  <2>1. /\ used \in [faults : 0..MaxFaults, unread : BOOLEAN]
        /\ before \in [conf : Content, nodes : Content, whole : BOOLEAN]
    BY DEF TypeInv, TypeOK
  <2>2. Fails => used'.unread = used.unread
    BY <2>1 DEF Fails
  <2>3. before' = before \/ UndoFails(t)
    BY DEF Step, Resolve, ReadList, ReadCursor, SaveCursor, WriteConfCandidate,
      WriteNodesCandidate, Check, CheckFails, ReadFails, BackupFails, RenameFails, UndoFails,
      BackupConf, BackupNodes, RenameConf, RenameNodes, Restart, RestartFails, Healthy, Clean,
      UndoConf, UndoNodes, UndoClean, UndoRestart, files, rest
  <2>4. before'.conf = before.conf /\ before'.nodes = before.nodes
    BY <2>1, <2>3 DEF UndoFails
  <2>5. \/ used' = used \/ Fails
        \/ used' = [used EXCEPT !.faults = @ + 1, !.unread = TRUE]
    BY DEF Step, Resolve, ReadList, ReadCursor, SaveCursor, WriteConfCandidate,
      WriteNodesCandidate, Check, CheckFails, ReadFails, BackupFails, RenameFails, UndoFails,
      BackupConf, BackupNodes, RenameConf, RenameNodes, Restart, RestartFails, Healthy, Clean,
      UndoConf, UndoNodes, UndoClean, UndoRestart, files, rest
  <2>6. used.unread => used'.unread
    BY <2>1, <2>2, <2>5
  <2>7. job[t].pc \in Working
    BY DEF Step, Resolve, ReadList, ReadCursor, SaveCursor, WriteConfCandidate,
      WriteNodesCandidate, Check, CheckFails, ReadFails, BackupFails, RenameFails, UndoFails,
      BackupConf, BackupNodes, RenameConf, RenameNodes, Restart, RestartFails, Healthy, Clean,
      UndoConf, UndoNodes, UndoClean, UndoRestart, Working
  <2> QED BY <2>3, <2>4, <2>6, <2>7
<1>2. \A u \in Tasks \ {t} : job'[u] = job[u]
  <2>1. \E j : job' = [job EXCEPT ![t] = j]
    BY DEF Step, Resolve, ReadList, ReadCursor, SaveCursor, WriteConfCandidate,
      WriteNodesCandidate, Check, CheckFails, ReadFails, BackupFails, RenameFails, UndoFails,
      BackupConf, BackupNodes, RenameConf, RenameNodes, Restart, RestartFails, Healthy, Clean,
      UndoConf, UndoNodes, UndoClean, UndoRestart, Goto, Update, Finish
  <2> QED BY <1>0, <2>1
<1> DEFINE Goes == /\ job[t].pc \notin Early \cup {"cursor"}
                   /\ job'[t].pc \notin Early \cup {"cursor", "save"}
                   /\ job'[t].op = job[t].op /\ job'[t].node = job[t].node
                   /\ job'[t].id = job[t].id /\ job'[t].list = job[t].list
<1>3. ASSUME NEW pc \in States \ (Early \cup {"cursor", "save"}), Goto(t, pc),
             job[t].pc \notin Early \cup {"cursor"}
      PROVE  Goes
  BY <1>3, GoIs
<1>4. ASSUME NEW pc \in {"failed", "succeeded"}, Finish(t, pc)
      PROVE  job'[t].pc \notin Working
  BY <1>4, EndIs
<1>5. ASSUME BackupNodes(t) \/ RestartFails(t)
      PROVE  Goes
  <2>1. \/ Update(t, [job[t] EXCEPT !.pc = "renameConf", !.backup = nodes # None])
        \/ Update(t, [job[t] EXCEPT !.pc = "undoConf", !.restart = TRUE])
    BY <1>5 DEF BackupNodes, RestartFails
  <2>2. job[t].pc \notin Early \cup {"cursor"}
    BY <1>5 DEF BackupNodes, RestartFails, Early
  <2>3. job'[t].pc \in {"renameConf", "undoConf"} /\ job'[t].op = job[t].op
        /\ job'[t].node = job[t].node /\ job'[t].id = job[t].id /\ job'[t].list = job[t].list
    <3>1. CASE Update(t, [job[t] EXCEPT !.pc = "renameConf", !.backup = nodes # None])
      <4>1. job'[t] = [job[t] EXCEPT !.pc = "renameConf", !.backup = nodes # None]
        BY <3>1, UpdateIs
      <4> QED BY <1>0, <4>1 DEF Job
    <3>2. CASE Update(t, [job[t] EXCEPT !.pc = "undoConf", !.restart = TRUE])
      <4>1. job'[t] = [job[t] EXCEPT !.pc = "undoConf", !.restart = TRUE]
        BY <3>2, UpdateIs
      <4> QED BY <1>0, <4>1 DEF Job
    <3> QED BY <2>1, <3>1, <3>2
  <2> QED BY <2>2, <2>3 DEF Early
<1>6. CASE \/ SaveCursor(t) \/ WriteConfCandidate(t) \/ WriteNodesCandidate(t)
           \/ Check(t) \/ CheckFails(t) \/ BackupConf(t)
           \/ ReadFails(t) \/ BackupFails(t) \/ RenameFails(t) \/ UndoFails(t)
           \/ RenameConf(t) \/ RenameNodes(t) \/ Restart(t) \/ Healthy(t)
           \/ Clean(t) \/ UndoConf(t) \/ UndoNodes(t) \/ UndoClean(t) \/ UndoRestart(t)
  <2>1. \/ \E pc \in {"failed", "succeeded"} : Finish(t, pc)
        \/ /\ \E pc \in States \ (Early \cup {"cursor", "save"}) : Goto(t, pc)
           /\ job[t].pc \notin Early \cup {"cursor"}
    BY <1>6 DEF SaveCursor, WriteConfCandidate, WriteNodesCandidate, Check, CheckFails,
      ReadFails, BackupFails, RenameFails, UndoFails, BackupConf, RenameConf, RenameNodes,
      Restart, Healthy, Clean, UndoConf, UndoNodes, UndoClean, UndoRestart, Early, States,
      Working
  <2> HIDE DEF Goes
  <2>2. Goes \/ job'[t].pc \notin Working
    BY <1>3, <1>4, <2>1
  <2> QED BY <1>0, <1>1, <1>2, <2>2 DEF Goes
<1> QED BY <1>0, <1>1, <1>2, <1>5, <1>6 DEF Step

LEMMA GivenGrows ==
  ASSUME NEW t \in Tasks, Step(t)
  PROVE  /\ given \subseteq given'
         /\ \/ given' = given /\ ~(job[t].pc = "renameNodes" /\ MoveNodes)
            \/ job[t].pc = "renameNodes" /\ MoveNodes /\ (RenameNodes(t) \/ RenameFails(t))
<1>1. CASE RenameNodes(t) \/ RenameFails(t)
  BY <1>1 DEF RenameNodes, RenameFails, MoveNodes
<1>2. CASE ~RenameNodes(t) /\ ~RenameFails(t)
  <2>1. given' = given
    BY <1>2 DEF Step, Resolve, ReadList, ReadCursor, SaveCursor, WriteConfCandidate,
      WriteNodesCandidate, Check, CheckFails, ReadFails, BackupFails, UndoFails, BackupConf,
      BackupNodes, RenameConf, Restart, RestartFails, Healthy, Clean, UndoConf, UndoNodes,
      UndoClean, UndoRestart, files, rest
  <2>2. job[t].pc # "renameNodes"
    BY <1>2 DEF Step, Resolve, ReadList, ReadCursor, SaveCursor, WriteConfCandidate,
      WriteNodesCandidate, Check, CheckFails, ReadFails, BackupFails, UndoFails, BackupConf,
      BackupNodes, RenameConf, Restart, RestartFails, Healthy, Clean, UndoConf, UndoNodes,
      UndoClean, UndoRestart
  <2> QED BY <2>1, <2>2
<1> QED BY <1>1, <1>2

\* No task goes back to before its second rename.
Late == {"restart", "health", "clean", "undoConf", "undoNodes", "undoClean", "undoRestart"}

LEMMA LateStays ==
  ASSUME TypeInv, NEW t \in Tasks, Step(t), job[t].pc \in Late
  PROVE  job'[t].pc \notin PreNodes
<1>1. \/ \E pc \in Late : Goto(t, pc)
      \/ \E pc \in {"failed", "succeeded"} : Finish(t, pc)
      \/ Update(t, [job[t] EXCEPT !.pc = "undoConf", !.restart = TRUE])
  BY DEF Step, Resolve, ReadList, ReadCursor, SaveCursor, WriteConfCandidate,
    WriteNodesCandidate, Check, CheckFails, ReadFails, BackupFails, RenameFails, UndoFails,
    BackupConf, BackupNodes, RenameConf, RenameNodes, Restart, RestartFails, Healthy, Clean,
    UndoConf, UndoNodes, UndoClean, UndoRestart, Late
<1>2. Late \subseteq States /\ PreNodes \subseteq Working /\ Late \cap PreNodes = {}
  BY DEF Late, States, Working, PreNodes, PreRename, Early
<1>3. CASE \E pc \in Late : Goto(t, pc)
  BY <1>2, <1>3, GoIs
<1>4. CASE \E pc \in {"failed", "succeeded"} : Finish(t, pc)
  BY <1>2, <1>4, EndIs
<1>5. CASE Update(t, [job[t] EXCEPT !.pc = "undoConf", !.restart = TRUE])
  <2>1. job'[t] = [job[t] EXCEPT !.pc = "undoConf", !.restart = TRUE] /\ job[t] \in Job
    BY <1>5, UpdateIs, JobTypes DEF TypeInv
  <2>2. job'[t].pc = "undoConf"
    BY <2>1 DEF Job
  <2> QED BY <2>2 DEF PreNodes, PreRename, Early
<1> QED BY <1>1, <1>3, <1>4, <1>5

\* The three steps that choose what is to be changed.
LEMMA ResolveIs ==
  ASSUME TypeInv, NEW t \in Tasks, Resolve(t), job'[t].pc \in Working
  PROVE  /\ job[t].pc = "resolve" /\ UNCHANGED <<files, rest>>
         /\ job'[t].pc = "read" /\ job'[t].op = job[t].op /\ job'[t].node = job[t].node
         /\ \E e \in nodes.list : e.id = job'[t].id /\ e.node = job[t].node
<1>1. ~Finish(t, "failed")
  BY EndIs
<1>2. PICK e \in nodes.list : /\ e.node = job[t].node
                              /\ Update(t, [job[t] EXCEPT !.pc = "read", !.id = e.id])
  BY <1>1 DEF Resolve
<1>3. job'[t] = [job[t] EXCEPT !.pc = "read", !.id = e.id] /\ job[t] \in Job
  BY <1>2, UpdateIs, JobTypes DEF TypeInv
<1>4. /\ job'[t].pc = "read" /\ job'[t].id = e.id
      /\ job'[t].op = job[t].op /\ job'[t].node = job[t].node
  BY <1>3 DEF Job
<1> QED BY <1>2, <1>4 DEF Resolve

LEMMA ReadListIs ==
  ASSUME TypeInv, NEW t \in Tasks, ReadList(t), job'[t].pc \in Working
  PROVE  /\ job[t].pc = "read" /\ UNCHANGED <<files, rest>> /\ nodes # Torn
         /\ job'[t].pc = IF job[t].op = "add" THEN "cursor" ELSE "confCand"
         /\ job'[t].op = job[t].op /\ job'[t].node = job[t].node /\ job'[t].list = nodes.list
         /\ job[t].op # "add" => \E e \in nodes.list :
              e.id = job'[t].id /\ IF job[t].op = "update" THEN e.node = job[t].node
                                                           ELSE e.id = job[t].id
<1> DEFINE hit == {e.id : e \in {f \in nodes.list : IF job[t].op = "update" THEN f.node = job[t].node
                                                                           ELSE f.id = job[t].id}}
<1>1. ~Finish(t, "failed")
  BY EndIs
<1>2. /\ nodes # Torn
      /\ \E id \in IF job[t].op = "add" THEN {0} ELSE hit :
           Update(t, [job[t] EXCEPT !.pc = IF job[t].op = "add" THEN "cursor" ELSE "confCand",
                                    !.id = id, !.list = nodes.list])
  BY <1>1 DEF ReadList
<1>3. PICK id \in IF job[t].op = "add" THEN {0} ELSE hit :
         Update(t, [job[t] EXCEPT !.pc = IF job[t].op = "add" THEN "cursor" ELSE "confCand",
                                  !.id = id, !.list = nodes.list])
  BY <1>2
<1>4. /\ job'[t] = [job[t] EXCEPT !.pc = IF job[t].op = "add" THEN "cursor" ELSE "confCand",
                                  !.id = id, !.list = nodes.list]
      /\ job[t] \in Job
  BY <1>3, UpdateIs, JobTypes DEF TypeInv
<1>5. /\ job'[t].pc = IF job[t].op = "add" THEN "cursor" ELSE "confCand"
      /\ job'[t].id = id /\ job'[t].list = nodes.list
      /\ job'[t].op = job[t].op /\ job'[t].node = job[t].node
  BY <1>4 DEF Job
<1>6. job[t].op # "add" => \E e \in nodes.list :
        e.id = id /\ IF job[t].op = "update" THEN e.node = job[t].node ELSE e.id = job[t].id
  BY <1>3
<1> QED BY <1>2, <1>5, <1>6 DEF ReadList

LEMMA ReadCursorIs ==
  ASSUME TypeInv, NEW t \in Tasks, ReadCursor(t)
  PROVE  /\ job[t].pc = "cursor" /\ UNCHANGED <<files, cursor, running, given, before, apart>>
         /\ job'[t].pc = "save" /\ job'[t].op = job[t].op /\ job'[t].node = job[t].node
         /\ job'[t].list = job[t].list /\ job'[t].id \in Nat
         /\ job'[t].id > cursor \/ used'.unread
<1>0. PICK known \in {cursor, 0} :
        /\ \/ known = cursor /\ UNCHANGED used
           \/ /\ known = 0 /\ used.faults < MaxFaults
              /\ used' = [used EXCEPT !.faults = @ + 1, !.unread = TRUE]
        /\ Update(t, [job[t] EXCEPT !.pc = "save", !.id = NextId(job[t].list, known)])
  BY DEF ReadCursor
<1> DEFINE id == NextId(job[t].list, known)
<1>1. job[t] \in Job /\ job[t].list \in SUBSET Entry /\ known \in 0..MaxId
      /\ used \in [faults : 0..MaxFaults, unread : BOOLEAN]
  BY <1>0, JobTypes, ApplyAssumption DEF TypeInv, TypeOK, Job
<1>2. id \in Nat /\ id > known
  BY <1>1, NextIdIs
<1>3. Update(t, [job[t] EXCEPT !.pc = "save", !.id = id])
  BY <1>0
<1> HIDE DEF id
<1>4. job'[t] = [job[t] EXCEPT !.pc = "save", !.id = id]
  BY <1>3, UpdateIs
<1>5. /\ job'[t].pc = "save" /\ job'[t].id = id /\ job'[t].list = job[t].list
      /\ job'[t].op = job[t].op /\ job'[t].node = job[t].node
  BY <1>1, <1>4 DEF Job
<1>6. id > cursor \/ used'.unread
  BY <1>0, <1>1, <1>2
<1> QED BY <1>2, <1>5, <1>6 DEF ReadCursor

LEMMA ReadsStep ==
  ASSUME ApplyInv, NEW t \in Tasks, Step(t), job'[t].pc \in Working
  PROVE  Reads(job[t])'
<1>1. /\ Reads(job[t]) /\ NewId(job[t]) /\ Placed(job[t])
      /\ job[t] \in Job /\ job'[t] \in Job /\ given \subseteq given'
      /\ before'.conf = before.conf /\ before'.nodes = before.nodes
  BY Moves, GivenGrows DEF ApplyInv, JobsInv
<1>2. CASE Resolve(t)
  <2>1. /\ job[t].pc = "resolve" /\ UNCHANGED <<files, rest>>
        /\ job'[t].pc = "read" /\ job'[t].op = job[t].op /\ job'[t].node = job[t].node
        /\ \E e \in nodes.list : e.id = job'[t].id /\ e.node = job[t].node
    BY <1>2, ResolveIs DEF ApplyInv
  <2> QED BY <1>1, <2>1 DEF Reads, Early, files
<1>3. CASE ReadList(t)
  <2>1. /\ job[t].pc = "read" /\ UNCHANGED <<files, rest>> /\ nodes # Torn
        /\ job'[t].pc = IF job[t].op = "add" THEN "cursor" ELSE "confCand"
        /\ job'[t].op = job[t].op /\ job'[t].node = job[t].node /\ job'[t].list = nodes.list
        /\ job[t].op # "add" => \E e \in nodes.list :
             e.id = job'[t].id /\ IF job[t].op = "update" THEN e.node = job[t].node
                                                          ELSE e.id = job[t].id
    BY <1>3, ReadListIs DEF ApplyInv
  <2>2. nodes = before.nodes /\ Lawful(nodes.list) /\ Single(nodes.list)
        /\ Pairs(nodes.list) \subseteq given
    BY <1>1, <2>1 DEF Placed, PreNodes, PreRename, Early, ApplyInv, ListsInv, Kept
  <2>3. Fits(job'[t])
    <3>1. CASE job[t].op = "add"
      <4>1. \A p \in given : p[2] # job[t].node
        BY <1>1, <2>1, <3>1 DEF NewId, PreNodes, PreRename, Early
      <4>2. ASSUME NEW e \in nodes.list PROVE e.node # job[t].node
        <5>1. <<e.id, e.node>> \in given
          BY <2>2 DEF Pairs
        <5> QED BY <4>1, <5>1
      <4> QED BY <2>1, <3>1, <4>2 DEF Fits
    <3>2. CASE job[t].op = "update"
      BY <2>1, <3>2 DEF Fits
    <3>3. CASE job[t].op \notin {"add", "update"}
      BY <1>1, <2>1, <3>3 DEF Fits, Reads
    <3> QED BY <3>1, <3>2, <3>3
  <2> QED BY <1>1, <2>1, <2>2, <2>3 DEF Reads, Early, files
<1>4. CASE ReadCursor(t)
  <2>1. /\ job[t].pc = "cursor" /\ job'[t].pc = "save" /\ job'[t].op = job[t].op
        /\ job'[t].node = job[t].node /\ job'[t].list = job[t].list
    BY <1>4, ReadCursorIs DEF ApplyInv
  <2>2. job[t].op = "add"
    BY <1>1, <2>1 DEF Reads
  <2>3. Fits(job'[t])
    BY <1>1, <2>1, <2>2 DEF Reads, Fits, Early
  <2> QED BY <1>1, <2>1, <2>2, <2>3 DEF Reads, Early
<1>5. CASE /\ job[t].pc \notin Early \cup {"cursor"} /\ job'[t].pc \notin Early \cup {"cursor", "save"}
           /\ job'[t].op = job[t].op /\ job'[t].node = job[t].node
           /\ job'[t].id = job[t].id /\ job'[t].list = job[t].list
  <2>1. Fits(job'[t]) <=> Fits(job[t])
    BY <1>1, <1>5, SameChange
  <2> QED BY <1>1, <1>5, <2>1 DEF Reads, Early
<1> QED BY <1>2, <1>3, <1>4, <1>5, Moves DEF ApplyInv

LEMMA NewIdStep ==
  ASSUME ApplyInv, NEW t \in Tasks, Step(t), job'[t].pc \in Working
  PROVE  NewId(job[t])'
<1>1. /\ Reads(job[t]) /\ NewId(job[t]) /\ job[t] \in Job /\ job'[t] \in Job
      /\ given' = given \/ RenameNodes(t) \/ RenameFails(t)
      /\ used.unread => used'.unread
  BY Moves, GivenGrows DEF ApplyInv, JobsInv
<1>0. /\ cursor \in Nat /\ \A p \in given : p[1] \in Nat
      /\ ~used.unread => \A p \in given : p[1] <= cursor
  BY ApplyAssumption DEF ApplyInv, TypeInv, TypeOK, Kept
<1>2. CASE Resolve(t)
  <2>1. /\ job[t].pc = "resolve" /\ UNCHANGED <<files, rest>> /\ job'[t].pc = "read"
        /\ job'[t].op = job[t].op
    BY <1>2, ResolveIs DEF ApplyInv
  <2> QED BY <1>1, <2>1 DEF NewId, Reads, Early, rest
<1>3. CASE ReadList(t)
  <2>1. /\ job[t].pc = "read" /\ UNCHANGED <<files, rest>>
        /\ job'[t].pc = IF job[t].op = "add" THEN "cursor" ELSE "confCand"
        /\ job'[t].op = job[t].op /\ job'[t].node = job[t].node
    BY <1>3, ReadListIs DEF ApplyInv
  <2> QED BY <1>1, <2>1 DEF NewId, Early, PreNodes, PreRename, rest
<1>4. CASE ReadCursor(t)
  <2>1. /\ job[t].pc = "cursor" /\ given' = given /\ job'[t].pc = "save"
        /\ job'[t].op = job[t].op /\ job'[t].node = job[t].node
        /\ job'[t].id > cursor \/ used'.unread
        /\ job'[t].id \in Nat
    BY <1>4, ReadCursorIs DEF ApplyInv
  <2>2. ~used'.unread => \A p \in given : p[1] < job'[t].id
    BY <1>0, <1>1, <2>1
  <2> QED BY <1>1, <2>1, <2>2 DEF NewId, Early, PreNodes, PreRename
<1>5. CASE /\ job[t].pc \notin Early \cup {"cursor"} /\ job'[t].pc \notin Early \cup {"cursor", "save"}
           /\ job'[t].op = job[t].op /\ job'[t].node = job[t].node
           /\ job'[t].id = job[t].id /\ job'[t].list = job[t].list
  <2>1. CASE SaveCursor(t)
    <3>1. cursor' = job[t].id /\ given' = given /\ job[t].pc = "save"
      <4>1. ~Finish(t, "failed")
        BY EndIs DEF ApplyInv
      <4> QED BY <2>1, <4>1 DEF SaveCursor
    <3>2. job[t].id \in Nat /\ (~used.unread => \A p \in given : p[1] < job[t].id)
      BY <1>1, <3>1, ApplyAssumption DEF NewId, Job
    <3>3. /\ cursor' = job'[t].id /\ job'[t].id <= cursor'
          /\ ~used'.unread => \A p \in given : p[1] # job'[t].id
      BY <1>0, <1>1, <1>5, <3>1, <3>2
    <3> QED BY <1>1, <1>5, <3>1, <3>3 DEF NewId, Early, PreNodes, PreRename, Reads
  <2>2. CASE RenameNodes(t) \/ RenameFails(t)
    <3>1. job'[t].pc \in {"restart", "undoConf"}
      BY <2>2, GoIs DEF RenameNodes, RenameFails, ApplyInv, States, Working
    <3> QED BY <3>1 DEF NewId, PreNodes, PreRename, Early
  <2>3. CASE ~SaveCursor(t) /\ ~RenameNodes(t) /\ ~RenameFails(t)
    <3>1. cursor' = cursor /\ given' = given
      BY <1>1, <2>3 DEF Step, Resolve, ReadList, ReadCursor, WriteConfCandidate,
        WriteNodesCandidate, Check, CheckFails, ReadFails, BackupFails, UndoFails, BackupConf,
        BackupNodes, RenameConf, Restart, RestartFails, Healthy, Clean, UndoConf, UndoNodes,
        UndoClean, UndoRestart, rest
    <3>2. job'[t].pc \in PreNodes => job[t].pc \in PreNodes \ (Early \cup {"cursor", "save"})
      <4>1. job[t].pc # "save"
        BY <2>3 DEF Step, Resolve, ReadList, ReadCursor, WriteConfCandidate,
          WriteNodesCandidate, Check, CheckFails, ReadFails, BackupFails, UndoFails, BackupConf,
          BackupNodes, RenameConf, Restart, RestartFails, Healthy, Clean, UndoConf, UndoNodes,
          UndoClean, UndoRestart
      <4>2. job[t].pc \in Late => job'[t].pc \notin PreNodes
        BY LateStays DEF ApplyInv
      <4> QED BY <1>5, <4>1, <4>2, Moves DEF ApplyInv, PreNodes, PreRename, Early, Working, Late
    <3> QED BY <1>1, <1>5, <3>1, <3>2 DEF NewId, Early
  <2> QED BY <2>1, <2>2, <2>3
<1> QED BY <1>2, <1>3, <1>4, <1>5, Moves DEF ApplyInv

LEMMA FilesStep ==
  ASSUME ApplyInv, NEW t \in Tasks, Step(t), job'[t].pc \in Working
  PROVE  Placed(job[t])' /\ Undone(job[t])' /\ Backed(job[t])'
<1>1. /\ Reads(job[t]) /\ Placed(job[t]) /\ Undone(job[t]) /\ Backed(job[t])
      /\ job[t] \in Job /\ job'[t] \in Job /\ TypeInv
      /\ before'.conf = before.conf /\ before'.nodes = before.nodes
      /\ before' = before \/ UndoFails(t)
  BY Moves DEF ApplyInv, JobsInv
<1>2. ASSUME job'[t].op = job[t].op, job'[t].node = job[t].node,
             job'[t].id = job[t].id, job'[t].list = job[t].list
      PROVE  Applied(job'[t]) = Applied(job[t])
  BY <1>1, <1>2, SameChange
<1>3. ASSUME NEW pc \in States, Goto(t, pc)
      PROVE  /\ job'[t].pc = pc /\ Applied(job'[t]) = Applied(job[t])
             /\ job'[t].backup = job[t].backup
  BY <1>1, <1>2, <1>3, GoIs
<1>4. ASSUME NEW pc \in {"failed", "succeeded"}, Finish(t, pc)
      PROVE  FALSE
  BY <1>1, <1>4, EndIs
<1>5. CASE Resolve(t)
  <2>1. /\ job[t].pc = "resolve" /\ job'[t].pc = "read" /\ UNCHANGED <<files, rest>>
    BY <1>5, <1>1, ResolveIs
  <2> QED BY <1>1, <2>1 DEF Placed, Undone, Backed, PreNodes, PreRename, Early, files
<1>6. CASE ReadList(t)
  <2>1. /\ job[t].pc = "read" /\ job'[t].pc \in {"cursor", "confCand"} /\ UNCHANGED <<files, rest>>
    BY <1>6, <1>1, ReadListIs
  <2> QED BY <1>1, <2>1 DEF Placed, Undone, Backed, PreNodes, PreRename, Early, files
<1>7. CASE ReadCursor(t)
  <2>1. /\ job[t].pc = "cursor" /\ job'[t].pc = "save" /\ UNCHANGED files
    BY <1>7, <1>1, ReadCursorIs
  <2> QED BY <1>1, <2>1 DEF Placed, Undone, Backed, PreNodes, PreRename, Early, files
<1>8. CASE SaveCursor(t)
  <2>1. job[t].pc = "save" /\ job'[t].pc = "confCand" /\ Applied(job'[t]) = Applied(job[t])
        /\ job'[t].backup = job[t].backup
    BY <1>8, <1>3, <1>4 DEF SaveCursor, States, Working
  <2>2. UNCHANGED <<conf, nodes>>
    BY <1>8, <1>1, <2>1 DEF SaveCursor, files
  <2> QED BY <1>1, <2>1, <2>2 DEF Placed, Undone, Backed, PreNodes, PreRename, Early
<1>9. CASE WriteConfCandidate(t)
  <2>1. job[t].pc = "confCand" /\ job'[t].pc = "nodesCand" /\ Applied(job'[t]) = Applied(job[t])
        /\ job'[t].backup = job[t].backup
    BY <1>9, <1>3, <1>4 DEF WriteConfCandidate, States, Working
  <2>2. UNCHANGED <<conf, nodes>> /\ confCand' = File(Active(Applied(job[t])))
    BY <1>9, <1>1, <2>1, <1>4 DEF WriteConfCandidate, Inbounds
  <2> QED BY <1>1, <2>1, <2>2 DEF Placed, Undone, Backed, PreNodes, PreRename, Early
<1>10. CASE WriteNodesCandidate(t)
  <2>1. job[t].pc = "nodesCand" /\ job'[t].pc = "check" /\ Applied(job'[t]) = Applied(job[t])
        /\ job'[t].backup = job[t].backup
    BY <1>10, <1>3, <1>4 DEF WriteNodesCandidate, States, Working
  <2>2. UNCHANGED <<conf, nodes, confCand>> /\ nodesCand' = File(Applied(job[t]))
    BY <1>10, <1>4 DEF WriteNodesCandidate
  <2> QED BY <1>1, <2>1, <2>2 DEF Placed, Undone, Backed, PreNodes, PreRename, Early
<1>11. CASE Check(t)
  <2>1. job[t].pc = "check" /\ job'[t].pc = "backupConf" /\ Applied(job'[t]) = Applied(job[t])
        /\ job'[t].backup = job[t].backup
    BY <1>11, <1>3, <1>4 DEF Check, States, Working
  <2>2. UNCHANGED <<conf, nodes, confCand, nodesCand>>
    BY <1>11, <1>1, <2>1 DEF Check, files
  <2> QED BY <1>1, <2>1, <2>2 DEF Placed, Undone, Backed, PreNodes, PreRename, Early
<1>12. CASE CheckFails(t) \/ ReadFails(t) \/ BackupFails(t)
  BY <1>12, <1>4 DEF CheckFails, ReadFails, BackupFails
<1>13. CASE BackupConf(t)
  <2>1. job[t].pc = "backupConf" /\ job'[t].pc = "backupNodes" /\ Applied(job'[t]) = Applied(job[t])
        /\ job'[t].backup = job[t].backup
    BY <1>13, <1>3, <1>4 DEF BackupConf, States, Working
  <2>2. UNCHANGED <<conf, nodes, confCand, nodesCand>> /\ confBak' = before.conf
    BY <1>13, <1>1, <2>1 DEF BackupConf, Placed, PreRename, Early
  <2> QED BY <1>1, <2>1, <2>2 DEF Placed, Undone, Backed, PreNodes, PreRename, Early
<1>14. CASE BackupNodes(t)
  <2>1. job[t].pc = "backupNodes"
        /\ job'[t] = [job[t] EXCEPT !.pc = "renameConf", !.backup = nodes # None]
    BY <1>14, <1>1, UpdateIs DEF BackupNodes
  <2>2. job'[t].pc = "renameConf" /\ (job'[t].backup <=> nodes # None)
        /\ Applied(job'[t]) = Applied(job[t])
    BY <1>1, <1>2, <2>1 DEF Job
  <2>3. UNCHANGED <<conf, nodes, confCand, nodesCand, confBak>> /\ nodes = before.nodes
        /\ nodesBak' = IF nodes = None THEN nodesBak ELSE nodes
    BY <1>14, <1>1, <2>1 DEF BackupNodes, Placed, PreNodes, PreRename, Early
  <2> QED BY <1>1, <2>1, <2>2, <2>3 DEF Placed, Undone, Backed, PreNodes, PreRename, Early
<1>15. CASE RenameConf(t)
  <2>1. job[t].pc = "renameConf" /\ confCand = File(Active(Applied(job[t]))) /\ confCand # None
    BY <1>15, <1>1, FileIs DEF RenameConf, Placed
  <2>2. conf' = confCand /\ Goto(t, "renameNodes") /\ UNCHANGED <<confBak, nodes, nodesCand, nodesBak>>
    BY <1>15, <2>1 DEF RenameConf, MoveConf
  <2>3. job'[t].pc = "renameNodes" /\ Applied(job'[t]) = Applied(job[t])
        /\ job'[t].backup = job[t].backup
    BY <1>3, <2>2 DEF States, Working
  <2> QED BY <1>1, <2>1, <2>2, <2>3 DEF Placed, Undone, Backed, PreNodes, PreRename, Early
<1>16. CASE RenameNodes(t)
  <2>1. job[t].pc = "renameNodes" /\ nodesCand = File(Applied(job[t])) /\ nodesCand # None
    BY <1>16, <1>1, FileIs DEF RenameNodes, Placed
  <2>2. nodes' = nodesCand /\ Goto(t, "restart") /\ UNCHANGED <<conf, confBak, nodesBak>>
    BY <1>16, <2>1 DEF RenameNodes, MoveNodes
  <2>3. job'[t].pc = "restart" /\ Applied(job'[t]) = Applied(job[t])
        /\ job'[t].backup = job[t].backup
    BY <1>3, <2>2 DEF States, Working
  <2> QED BY <1>1, <2>1, <2>2, <2>3 DEF Placed, Undone, Backed, PreNodes, PreRename, Early
<1>17. CASE Restart(t)
  <2>1. job[t].pc = "restart" /\ job'[t].pc = "health" /\ Applied(job'[t]) = Applied(job[t])
        /\ job'[t].backup = job[t].backup
    BY <1>17, <1>3, <1>4 DEF Restart, States, Working
  <2>2. UNCHANGED <<conf, nodes, confBak, nodesBak>> /\ running' = conf
    BY <1>17, <1>1, <2>1 DEF Restart, Boot, files
  <2> QED BY <1>1, <2>1, <2>2 DEF Placed, Undone, Backed, PreNodes, PreRename, Early
<1>18. CASE RestartFails(t)
  <2>1. job[t].pc \in {"restart", "health"}
        /\ job'[t] = [job[t] EXCEPT !.pc = "undoConf", !.restart = TRUE]
    BY <1>18, <1>1, UpdateIs DEF RestartFails
  <2>2. job'[t].pc = "undoConf" /\ job'[t].backup = job[t].backup
        /\ Applied(job'[t]) = Applied(job[t])
    BY <1>1, <1>2, <2>1 DEF Job
  <2>3. UNCHANGED files
    BY <1>18 DEF RestartFails
  <2> QED BY <1>1, <2>1, <2>2, <2>3 DEF Placed, Undone, Backed, PreNodes, PreRename, Early, files
<1>19. CASE Healthy(t)
  <2>1. job[t].pc = "health" /\ job'[t].pc = "clean" /\ Applied(job'[t]) = Applied(job[t])
        /\ job'[t].backup = job[t].backup
    BY <1>19, <1>3, <1>4 DEF Healthy, States, Working
  <2>2. UNCHANGED <<conf, nodes, running>>
    BY <1>19, <1>1, <2>1 DEF Healthy, files, rest
  <2> QED BY <1>1, <2>1, <2>2 DEF Placed, Undone, Backed, PreNodes, PreRename, Early
<1>20. CASE Clean(t)
  BY <1>20, <1>4 DEF Clean
<1>25. CASE RenameFails(t)
  <2>1. /\ job[t].pc \in {"renameConf", "renameNodes"} /\ nodesCand = File(Applied(job[t]))
        /\ nodes = before.nodes
    BY <1>25, <1>1 DEF RenameFails, Placed, PreNodes, PreRename
  <2>2. job'[t].pc = "undoConf" /\ Applied(job'[t]) = Applied(job[t])
        /\ job'[t].backup = job[t].backup
    BY <1>25, <1>3 DEF RenameFails, States, Working
  <2>3. UNCHANGED <<confBak, nodesBak>> /\ nodes' \in {nodes, nodesCand}
    BY <1>25 DEF RenameFails, MoveNodes
  <2> QED BY <1>1, <2>1, <2>2, <2>3 DEF Placed, Undone, Backed, PreNodes, PreRename, Early
<1>21. CASE UndoConf(t)
  <2>1. job[t].pc = "undoConf" /\ job'[t].pc = "undoNodes" /\ Applied(job'[t]) = Applied(job[t])
        /\ job'[t].backup = job[t].backup
    BY <1>21, <1>3 DEF UndoConf, States, Working
  <2>2. UNCHANGED <<nodes, confBak, nodesBak>> /\ conf' = before.conf
    BY <1>21, <1>1, <2>1 DEF UndoConf, RestoredConf, Backed, Reads
  <2> QED BY <1>1, <2>1, <2>2 DEF Placed, Undone, Backed, PreNodes, PreRename, Early
<1>22. CASE UndoNodes(t)
  <2>1. job[t].pc = "undoNodes" /\ job'[t].pc = "undoClean" /\ Applied(job'[t]) = Applied(job[t])
        /\ job'[t].backup = job[t].backup
    BY <1>22, <1>3 DEF UndoNodes, States, Working
  <2>2. /\ conf' = conf /\ before' = before /\ nodesBak' = nodesBak
        /\ nodes \in {before.nodes, File(Applied(job[t]))}
        /\ (job[t].backup <=> before.nodes # None) /\ (job[t].backup => nodesBak = before.nodes)
    BY <1>22, <1>1, <2>1 DEF UndoNodes, Undone, Backed
  <2>3. CASE job[t].backup
    <3>1. nodes' = before.nodes
      BY <1>22, <2>2, <2>3 DEF UndoNodes, RestoredNodes
    <3> QED BY <1>1, <2>1, <2>2, <2>3, <3>1 DEF Placed, Undone, Backed, PreNodes, PreRename, Early
  <2>4. CASE ~job[t].backup
    <3>1. nodes' = nodes /\ (~apart' => nodes = None)
      BY <1>22, <2>4 DEF UndoNodes, RestoredNodes
    <3>2. ~apart' => nodes' = before'.nodes
      BY <2>2, <2>4, <3>1
    <3> QED BY <1>1, <2>1, <2>2, <2>4, <3>1, <3>2 DEF Placed, Undone, Backed, PreNodes, PreRename, Early
  <2> QED BY <2>3, <2>4
<1>26. CASE UndoFails(t)
  <2>0. /\ apart' = TRUE /\ before'.whole = FALSE /\ UNCHANGED <<confBak, nodesBak>>
        /\ nodes' \in {nodes, Torn}
    BY <1>26, <1>1 DEF UndoFails, TypeInv, TypeOK
  <2>1. CASE job[t].pc = "undoConf"
    <3>1. job'[t].pc = "undoNodes" /\ Applied(job'[t]) = Applied(job[t])
          /\ job'[t].backup = job[t].backup
      BY <1>26, <1>3, <2>1 DEF UndoFails, States, Working
    <3>2. nodes' = nodes /\ nodes \in {before.nodes, File(Applied(job[t]))}
      BY <1>1, <1>26, <2>1 DEF UndoFails, Undone
    <3> QED BY <1>1, <2>0, <2>1, <3>1, <3>2 DEF Placed, Undone, Backed, PreNodes, PreRename, Early
  <2>2. CASE job[t].pc = "undoNodes"
    <3>1. job'[t].pc = "undoClean" /\ Applied(job'[t]) = Applied(job[t])
          /\ job'[t].backup = job[t].backup
      BY <1>26, <1>3, <2>2 DEF UndoFails, States, Working
    <3>2. job[t].backup /\ nodes \in {before.nodes, File(Applied(job[t]))}
      BY <1>1, <1>26, <2>2 DEF UndoFails, Undone
    <3> QED BY <1>1, <2>0, <2>2, <3>1, <3>2 DEF Placed, Undone, Backed, PreNodes, PreRename, Early
  <2> QED BY <1>26, <2>1, <2>2 DEF UndoFails
<1>23. CASE UndoClean(t)
  <2>1. job[t].pc = "undoClean" /\ job'[t].pc = "undoRestart" /\ Applied(job'[t]) = Applied(job[t])
        /\ job'[t].backup = job[t].backup
    BY <1>23, <1>3, <1>4 DEF UndoClean, States, Working
  <2>2. UNCHANGED <<conf, nodes, nodesBak, before, apart>>
    BY <1>23, <1>1, <2>1 DEF UndoClean, rest
  <2> QED BY <1>1, <2>1, <2>2 DEF Placed, Undone, Backed, PreNodes, PreRename, Early
<1>24. CASE UndoRestart(t)
  BY <1>24, <1>4 DEF UndoRestart
<1> QED
  BY <1>5, <1>6, <1>7, <1>8, <1>9, <1>10, <1>11, <1>12, <1>13, <1>14, <1>15, <1>16, <1>17, <1>18,
     <1>19, <1>20, <1>21, <1>22, <1>23, <1>24, <1>25, <1>26 DEF Step

\* The id that an add puts into nodes.json is new, and every other entry was there.
LEMMA KeptStep ==
  ASSUME ApplyInv, NEW t \in Tasks, Step(t)
  PROVE  Kept'
<1>1. /\ Reads(job[t]) /\ NewId(job[t]) /\ Placed(job[t]) /\ Undone(job[t]) /\ Backed(job[t])
      /\ Kept /\ job[t].pc \in Working /\ job[t] \in Job /\ TypeInv
      /\ used.unread => used'.unread
  BY Moves DEF ApplyInv, JobsInv
<1>2. conf' # None
  <2>1. conf' \in {conf, before.conf, Torn} \/ (confCand # None /\ conf' = confCand)
    <3>1. CASE UndoConf(t)
      BY <1>1, <3>1 DEF UndoConf, RestoredConf, Backed
    <3>2. CASE RenameConf(t) \/ RenameFails(t)
      BY <3>2 DEF RenameConf, RenameFails, MoveConf
    <3>3. CASE ~UndoConf(t) /\ ~RenameConf(t) /\ ~RenameFails(t)
      BY <3>3 DEF Step, Resolve, ReadList, ReadCursor, SaveCursor, WriteConfCandidate,
        WriteNodesCandidate, Check, CheckFails, ReadFails, BackupFails, UndoFails, BackupConf,
        BackupNodes, RenameNodes, Restart, RestartFails, Healthy, Clean, UndoNodes, UndoClean,
        UndoRestart, files, rest
    <3> QED BY <3>1, <3>2, <3>3
  <2> QED BY <1>1, <2>1, FileIs DEF Kept, Reads
<1>3. cursor \in Nat /\ \A p \in given : p[1] \in Nat
  BY <1>1, ApplyAssumption DEF TypeInv, TypeOK
<1>4. CASE job[t].pc = "renameNodes" /\ MoveNodes /\ (RenameNodes(t) \/ RenameFails(t))
  <2>1. nodesCand = File(Applied(job[t])) /\ nodesCand.list = Applied(job[t]) /\ cursor' = cursor
    BY <1>1, <1>4, FileIs DEF RenameNodes, RenameFails, Placed
  <2>2. nodes' = nodesCand /\ given' = given \cup Pairs(Applied(job[t]))
    BY <1>4, <2>1 DEF MoveNodes, Pairs
  <2>3. /\ job[t].list = before.nodes.list /\ Lawful(job[t].list) /\ Single(job[t].list)
        /\ Pairs(job[t].list) \subseteq given /\ Fits(job[t])
    BY <1>1, <1>4 DEF Reads, Early
  <2>4. /\ Single(Applied(job[t]))
        /\ job[t].op # "add" => Pairs(Applied(job[t])) \subseteq Pairs(job[t].list)
        /\ job[t].op = "add" =>
             Pairs(Applied(job[t])) \subseteq Pairs(job[t].list) \cup {<<job[t].id, job[t].node>>}
    BY <1>1, <2>3, AppliedFits
  <2>5. CASE job[t].op # "add"
    <3>1. given' = given
      BY <2>2, <2>3, <2>4, <2>5
    <3> QED BY <1>1, <1>2, <2>1, <2>2, <2>4, <3>1 DEF Kept
  <2>6. CASE job[t].op = "add"
    <3>1. ~used.unread => job[t].id <= cursor /\ \A p \in given : p[1] # job[t].id
      BY <1>1, <1>4, <2>6 DEF NewId, PreNodes, PreRename, Early
    <3>2. given' \subseteq given \cup {<<job[t].id, job[t].node>>}
      BY <2>2, <2>3, <2>4, <2>6
    <3>3. ~used'.unread => \A p, q \in given' : p[1] = q[1] => p = q
      BY <1>1, <3>1, <3>2 DEF Kept
    <3>4. ~used'.unread => \A p \in given' : p[1] <= cursor'
      BY <1>1, <2>1, <3>1, <3>2 DEF Kept
    <3> QED BY <1>2, <2>1, <2>2, <2>4, <3>3, <3>4 DEF Kept
  <2> QED BY <2>5, <2>6
<1>5. CASE given' = given /\ ~(job[t].pc = "renameNodes" /\ MoveNodes)
  <2>2. Single(nodes'.list) /\ Pairs(nodes'.list) \subseteq given
    <3>1. CASE UndoNodes(t) \/ UndoFails(t)
      <4>1. nodes' \in {nodes, before.nodes, Torn}
        BY <1>1, <3>1 DEF UndoNodes, UndoFails, RestoredNodes, Backed
      <4>2. Single(before.nodes.list) /\ Pairs(before.nodes.list) \subseteq given
        BY <1>1, <3>1 DEF Reads, Early, UndoNodes, UndoFails
      <4>3. Single(Torn.list) /\ Pairs(Torn.list) \subseteq given
        BY FileIs DEF Single, Pairs
      <4> QED BY <1>1, <4>1, <4>2, <4>3 DEF Kept
    <3>2. CASE RenameNodes(t) \/ RenameFails(t)
      <4>1. nodes' = nodes
        BY <1>5, <3>2 DEF RenameNodes, RenameFails
      <4> QED BY <1>1, <4>1 DEF Kept
    <3>3. CASE ~UndoNodes(t) /\ ~UndoFails(t) /\ ~RenameNodes(t) /\ ~RenameFails(t)
      <4>1. nodes' = nodes
        BY <3>3 DEF Step, Resolve, ReadList, ReadCursor, SaveCursor, WriteConfCandidate,
          WriteNodesCandidate, Check, CheckFails, ReadFails, BackupFails, BackupConf, BackupNodes,
          RenameConf, Restart, RestartFails, Healthy, Clean, UndoConf, UndoClean, UndoRestart,
          files, rest
      <4> QED BY <1>1, <4>1 DEF Kept
    <3> QED BY <3>1, <3>2, <3>3
  <2>3. ~used'.unread => \A p \in given : p[1] <= cursor'
    <3>1. CASE SaveCursor(t)
      <4>1. cursor' \in {cursor, job[t].id} /\ job[t].pc = "save"
        BY <3>1 DEF SaveCursor
      <4>2. job[t].id \in Nat /\ (~used.unread => \A p \in given : p[1] < job[t].id)
        BY <1>1, <4>1, ApplyAssumption DEF NewId, Job
      <4>3. ~used.unread => \A p \in given : p[1] <= cursor
        BY <1>1 DEF Kept
      <4> QED BY <1>1, <1>3, <4>1, <4>2, <4>3
    <3>2. CASE ~SaveCursor(t)
      <4>1. cursor' = cursor
        BY <3>2 DEF Step, Resolve, ReadList, ReadCursor, WriteConfCandidate,
          WriteNodesCandidate, Check, CheckFails, ReadFails, BackupFails, RenameFails, UndoFails,
          BackupConf, BackupNodes, RenameConf, RenameNodes, Restart, RestartFails, Healthy,
          Clean, UndoConf, UndoNodes, UndoClean, UndoRestart, rest
      <4> QED BY <1>1, <4>1 DEF Kept
    <3> QED BY <3>1, <3>2
  <2> QED BY <1>1, <1>2, <1>5, <2>2, <2>3 DEF Kept
<1> QED BY <1>4, <1>5, GivenGrows

LEMMA StartIs ==
  ASSUME TypeInv, ~Interleaved, NEW t \in Tasks, NEW op \in Ops, NEW n \in Nodes, Start(t, op, n)
  PROVE  /\ job'[t].pc = (IF op \in {"add", "update"} THEN "read" ELSE "resolve")
         /\ job'[t].op = op /\ job'[t].node = n /\ job'[t].pc \in Early /\ job'[t].pc \in Working
         /\ \A u \in Tasks \ {t} : job'[u] = job[u]
         /\ \A u \in Tasks : job[u].pc \notin Working
         /\ before' = [conf |-> conf, nodes |-> nodes, whole |-> TRUE]
<1> DEFINE j == [Idle EXCEPT !.pc = IF op \in {"add", "update"} THEN "read" ELSE "resolve",
                             !.op = op, !.node = n]
<1>1. j.pc = (IF op \in {"add", "update"} THEN "read" ELSE "resolve") /\ j.op = op /\ j.node = n
  BY DEF Idle
<1>2. Update(t, j)
  BY DEF Start
<1> HIDE DEF j
<1>3. job'[t] = j /\ \A u \in Tasks \ {t} : job'[u] = job[u]
  BY <1>2, UpdateIs
<1>4. /\ \A u \in Tasks : job[u].pc \notin Working
      /\ before' = [conf |-> conf, nodes |-> nodes, whole |-> TRUE]
  BY DEF Start, Busy
<1> QED BY <1>1, <1>3, <1>4 DEF Early, Working

LEMMA ApplyStep == ~Interleaved /\ ApplyInv /\ [Next]_vars => ApplyInv'
<1> SUFFICES ASSUME ~Interleaved, ApplyInv, [Next]_vars PROVE ApplyInv'
  OBVIOUS
<1>0. TypeInv' /\ ListsInv' /\ TypeInv /\ Kept
  BY TypeStep, ListsStep DEF ApplyInv
<1>1. ASSUME NEW t \in Tasks, Step(t) PROVE ApplyInv'
  <2>1. /\ job[t].pc \in Working /\ \A u \in Tasks \ {t} : job'[u] = job[u]
    BY <1>0, <1>1, Moves
  <2>2. \A u \in Tasks \ {t} : job'[u].pc \notin Working
    BY <2>1 DEF ApplyInv, Alone
  <2>3. Alone'
    BY <2>2 DEF Alone
  <2>4. JobsInv'
    BY <1>1, <2>2, ReadsStep, NewIdStep, FilesStep DEF JobsInv
  <2> QED BY <1>0, <1>1, <2>3, <2>4, KeptStep DEF ApplyInv
<1>2. ASSUME NEW t \in Tasks, NEW op \in Ops, NEW n \in Nodes, Start(t, op, n) PROVE ApplyInv'
  <2>1. /\ job'[t].pc = (IF op \in {"add", "update"} THEN "read" ELSE "resolve")
        /\ job'[t].op = op /\ job'[t].node = n
        /\ \A u \in Tasks \ {t} : job'[u] = job[u]
        /\ \A u \in Tasks : job[u].pc \notin Working
        /\ before' = [conf |-> conf, nodes |-> nodes, whole |-> TRUE]
    BY <1>0, <1>2, StartIs
  <2>2. \A u \in Tasks \ {t} : job'[u].pc \notin Working
    BY <2>1
  <2>3. UNCHANGED <<files, cursor, given, used>> /\ (op = "add" => n \notin {p[2] : p \in given})
    BY <1>2 DEF Start
  <2>4. Alone' /\ Kept'
    BY <1>0, <2>2, <2>3 DEF Alone, Kept, files
  <2>5. Reads(job[t])'
    BY <1>0, <2>1, <2>3 DEF Reads, Kept, Early, files
  <2>6. NewId(job[t])'
    BY <2>1, <2>3 DEF NewId, Early
  <2>7. Placed(job[t])' /\ Undone(job[t])' /\ Backed(job[t])'
    BY <2>1, <2>3 DEF Placed, Undone, Backed, Early, files
  <2>8. JobsInv'
    BY <2>2, <2>5, <2>6, <2>7 DEF JobsInv
  <2> QED BY <1>0, <2>4, <2>8 DEF ApplyInv
<1>3. CASE Crash
  <2>1. \A t \in Tasks : job'[t].pc \notin Working
    BY <1>3 DEF Crash, Idle, Working
  <2>2. conf' \in {conf, Torn} /\ nodes' \in {nodes, Torn} /\ UNCHANGED <<cursor, given>>
        /\ used'.unread = used.unread
    BY <1>0, <1>3 DEF Crash, Fails, TypeInv, TypeOK
  <2>3. Single(nodes'.list) /\ Pairs(nodes'.list) \subseteq given
    BY <1>0, <2>2, FileIs DEF Kept, Single, Pairs
  <2>4. Kept'
    BY <1>0, <2>2, <2>3, FileIs DEF Kept
  <2> QED BY <1>0, <2>1, <2>4 DEF ApplyInv, Alone, JobsInv
<1>4. CASE UNCHANGED vars
  BY <1>0, <1>4 DEF ApplyInv, Alone, Kept, JobsInv, Reads, NewId, Placed, Undone, Backed, vars, files, rest
<1> QED BY <1>1, <1>2, <1>3, <1>4 DEF Next

LEMMA ApplyInit == Init => ApplyInv
<1> SUFFICES ASSUME Init PROVE ApplyInv
  OBVIOUS
<1>1. \A t \in Tasks : job[t].pc = "idle" /\ job[t].list = {}
  BY DEF Init, Idle
<1>2. nodes.list = {} /\ nodesCand.list = {} /\ nodesBak.list = {} /\ given = {}
      /\ conf = File({})
  BY FileIs DEF Init
<1>3. ListsInv
  BY <1>1, <1>2, FS_EmptySet DEF ListsInv, Lawful
<1>4. Kept
  BY <1>2, FileIs DEF Kept, Single, Pairs
<1>5. Alone /\ JobsInv
  BY <1>1 DEF Alone, JobsInv, Working
<1> QED BY <1>3, <1>4, <1>5, TypeInit DEF ApplyInv

LEMMA Applies == ASSUME ~Interleaved PROVE Spec => []ApplyInv
<1>1. ApplyInv /\ [Next]_vars => ApplyInv'
  BY ApplyStep
<1> QED BY <1>1, ApplyInit, PTL DEF Spec

\* With one task at a time, a task that is about to report success has its change in
\* nodes.json, config.json says the same, and sing-box runs that.
THEOREM SuccessReal == ASSUME ~Interleaved PROVE Spec => []SuccessIsReal
<1>1. ASSUME ApplyInv PROVE SuccessIsReal
  <2> SUFFICES ASSUME NEW t \in Tasks, job[t].pc = "clean"
               PROVE  /\ Done(t, nodes.list)
                      /\ conf = File(Active(nodes.list)) /\ running = conf
    BY DEF SuccessIsReal
  <2>1. Reads(job[t]) /\ Placed(job[t]) /\ job[t] \in Job
    <3>1. job[t].pc \in Working
      BY DEF Working
    <3> QED BY <1>1, <3>1, JobTypes DEF ApplyInv, JobsInv, TypeInv
  <2>2. nodes = File(Applied(job[t])) /\ conf = File(Active(Applied(job[t]))) /\ running = conf
    BY <2>1 DEF Placed
  <2>3. nodes.list = Applied(job[t])
    BY <2>2, FileIs
  <2>4. Lawful(job[t].list) /\ Single(job[t].list) /\ Fits(job[t])
    BY <2>1 DEF Reads, Early
  <2>5. DoneIn(job[t], nodes.list)
    BY <2>1, <2>3, <2>4, AppliedFits
  <2>6. job[t].op \in {"add", "update", "enable", "disable", "remove"}
    BY <2>1, AppliedIs
  <2>7. Done(t, nodes.list)
    BY <2>5, <2>6 DEF Done, DoneIn
  <2> QED BY <2>2, <2>3, <2>7
<1> QED BY <1>1, Applies, PTL

\* With one task at a time, wherever a write fails and wherever the Agent dies, an id that
\* nodes.json has given to one node is never given to another, until a cursor cannot be read.
THEOREM IdsStay == ASSUME ~Interleaved PROVE Spec => []IdsNotRecycled
<1>1. ApplyInv => IdsNotRecycled
  BY DEF ApplyInv, Kept, IdsNotRecycled
<1> QED BY <1>1, Applies, PTL

\* As long as nothing has left the two files different, they agree between tasks, agreed
\* when the task started, and no copy of its rollback has failed.
AgreeInv ==
  ~apart =>
    /\ (\A t \in Tasks : job[t].pc \notin Working) => conf = File(Active(nodes.list))
    /\ \A t \in Tasks : job[t].pc \in Working =>
         before.whole /\ before.conf = File(Active(before.nodes.list))

\* Where a task may fail.
Failing == {"resolve", "read", "save", "confCand", "nodesCand", "check", "backupConf",
            "backupNodes", "undoClean", "undoRestart"}

\* The last step of a task: it changes neither file.
LEMMA Ends ==
  ASSUME TypeInv, NEW t \in Tasks, Step(t), job'[t].pc \notin Working
  PROVE  /\ UNCHANGED <<conf, nodes, before>>
         /\ \/ /\ job'[t].pc = "failed" /\ apart' = apart
               /\ job[t].pc \in Failing
            \/ job'[t].pc = "succeeded" /\ job[t].pc = "clean"
<1>1. job[t] \in Job
  BY JobTypes DEF TypeInv
<1>2. ASSUME NEW pc \in Working, Goto(t, pc) PROVE FALSE
  BY <1>2, GoIs DEF States
<1>3. ASSUME NEW pc \in Working, NEW j, j.pc = pc, Update(t, j) PROVE FALSE
  BY <1>3, UpdateIs
<1>4. ASSUME Finish(t, "failed")
      PROVE  job'[t].pc = "failed"
  BY <1>4, EndIs
<1>5. CASE Clean(t)
  <2>1. job'[t].pc = "succeeded"
    BY <1>5, EndIs DEF Clean
  <2> QED BY <1>5, <2>1 DEF Clean
<1>6. CASE \/ Resolve(t) \/ ReadList(t) \/ WriteConfCandidate(t) \/ CheckFails(t)
           \/ ReadFails(t) \/ SaveCursor(t) \/ WriteNodesCandidate(t) \/ BackupFails(t)
           \/ UndoClean(t) \/ UndoRestart(t)
  <2>1. job[t].pc \in Failing /\ UNCHANGED <<conf, nodes, before, apart>>
    BY <1>6 DEF Resolve, ReadList, WriteConfCandidate, CheckFails, ReadFails, SaveCursor,
      WriteNodesCandidate, BackupFails, UndoClean, UndoRestart, Failing, files, rest
  <2>2. \/ Finish(t, "failed")
        \/ \E pc \in Working : Goto(t, pc)
        \/ \E id : Update(t, [job[t] EXCEPT !.pc = "read", !.id = id])
        \/ \E id, list : Update(t, [job[t] EXCEPT !.pc = IF job[t].op = "add" THEN "cursor" ELSE "confCand",
                                                  !.id = id, !.list = list])
    BY <1>6 DEF Resolve, ReadList, WriteConfCandidate, CheckFails, ReadFails, SaveCursor,
      WriteNodesCandidate, BackupFails, UndoClean, UndoRestart, Working
  <2>3. ASSUME NEW id, Update(t, [job[t] EXCEPT !.pc = "read", !.id = id]) PROVE FALSE
    <3>1. [job[t] EXCEPT !.pc = "read", !.id = id].pc = "read" /\ "read" \in Working
      BY <1>1 DEF Job, Working
    <3> QED BY <1>3, <2>3, <3>1
  <2>4. ASSUME NEW id, NEW list,
               Update(t, [job[t] EXCEPT !.pc = IF job[t].op = "add" THEN "cursor" ELSE "confCand",
                                        !.id = id, !.list = list])
        PROVE  FALSE
    <3> DEFINE j == [job[t] EXCEPT !.pc = IF job[t].op = "add" THEN "cursor" ELSE "confCand",
                                   !.id = id, !.list = list]
    <3>1. j.pc \in Working
      BY <1>1 DEF Job, Working
    <3> HIDE DEF j
    <3>2. Update(t, j)
      BY <2>4 DEF j
    <3> QED BY <1>3, <3>1, <3>2
  <2>5. Finish(t, "failed")
    BY <1>2, <2>2, <2>3, <2>4
  <2> QED BY <1>4, <2>1, <2>5
<1>7. CASE ReadCursor(t) \/ BackupNodes(t) \/ RestartFails(t)
  <2>1. \/ \E id : Update(t, [job[t] EXCEPT !.pc = "save", !.id = id])
        \/ \E b : Update(t, [job[t] EXCEPT !.pc = "renameConf", !.backup = b])
        \/ Update(t, [job[t] EXCEPT !.pc = "undoConf", !.restart = TRUE])
    BY <1>7 DEF ReadCursor, BackupNodes, RestartFails
  <2>2. \A id, b : /\ [job[t] EXCEPT !.pc = "save", !.id = id].pc \in Working
                   /\ [job[t] EXCEPT !.pc = "renameConf", !.backup = b].pc \in Working
                   /\ [job[t] EXCEPT !.pc = "undoConf", !.restart = TRUE].pc \in Working
    BY <1>1 DEF Job, Working
  <2> QED BY <1>3, <2>1, <2>2
<1>8. CASE \/ Check(t) \/ BackupConf(t) \/ RenameConf(t) \/ RenameNodes(t) \/ RenameFails(t)
           \/ Restart(t) \/ Healthy(t) \/ UndoConf(t) \/ UndoNodes(t) \/ UndoFails(t)
  <2>1. \E pc \in Working : Goto(t, pc)
    BY <1>8 DEF Check, BackupConf, RenameConf, RenameNodes, RenameFails, Restart, Healthy,
      UndoConf, UndoNodes, UndoFails, Working
  <2> QED BY <1>2, <2>1
<1> QED BY <1>5, <1>6, <1>7, <1>8 DEF Step

\* What the files are when a task ends: both old, if its rollback could copy, or both new.
LEMMA EndFiles ==
  ASSUME ApplyInv, NEW t \in Tasks, Step(t), job'[t].pc \notin Working
  PROVE  /\ conf' = conf /\ nodes' = nodes /\ before' = before
         /\ \/ /\ job'[t].pc = "failed" /\ apart' = apart
               /\ before.whole => /\ conf = before.conf
                                  /\ before.nodes # None \/ ~apart => nodes = before.nodes
            \/ /\ job'[t].pc = "succeeded"
               /\ conf = File(Active(Applied(job[t]))) /\ nodes = File(Applied(job[t]))
<1>1. Placed(job[t]) /\ Undone(job[t]) /\ Backed(job[t]) /\ TypeInv
  BY Moves DEF ApplyInv, JobsInv
<1>2. CASE job'[t].pc = "failed" /\ apart' = apart /\ job[t].pc \in Failing
  <2>1. CASE job[t].pc \in PreRename
    BY <1>1, <1>2, <2>1, Ends DEF Placed, PreNodes
  <2>2. CASE job[t].pc \in {"undoClean", "undoRestart"}
    BY <1>1, <1>2, <2>2, Ends DEF Undone, Backed
  <2> QED BY <1>2, <2>1, <2>2 DEF Failing, PreRename, Early
<1>3. CASE job'[t].pc = "succeeded" /\ job[t].pc = "clean"
  BY <1>1, <1>3, Ends DEF Placed
<1> QED BY <1>1, <1>2, <1>3, Ends

\* What a crash finds of the two files, if it does not leave them different.
LEMMA CrashFiles ==
  ASSUME ApplyInv, NEW t \in Tasks, job[t].pc \in Working \ {"renameNodes", "undoConf", "undoNodes"}
  PROVE  \/ before.whole /\ ~apart => conf = before.conf /\ nodes = before.nodes
         \/ conf = File(Active(Applied(job[t]))) /\ nodes = File(Applied(job[t]))
<1>1. Placed(job[t]) /\ Undone(job[t])
  BY DEF ApplyInv, JobsInv
<1>2. CASE job[t].pc \in PreRename
  BY <1>1, <1>2 DEF Placed, PreNodes
<1>3. CASE job[t].pc \in {"restart", "health", "clean"}
  BY <1>1, <1>3 DEF Placed
<1>4. CASE job[t].pc \in {"undoClean", "undoRestart"}
  BY <1>1, <1>4 DEF Undone
<1> QED BY <1>2, <1>3, <1>4 DEF Working, PreRename, Early

\* Only a failing copy makes a rollback incomplete, and it leaves the files different.
LEMMA ApartStays ==
  ASSUME TypeInv, NEW t \in Tasks, Step(t), ~Clean(t)
  PROVE  /\ apart => apart'
         /\ before' = before \/ apart'
<1>1. CASE UndoFails(t)
  BY <1>1 DEF UndoFails
<1>2. CASE UndoNodes(t)
  BY <1>2 DEF UndoNodes, TypeInv, TypeOK
<1>3. CASE ~UndoFails(t) /\ ~UndoNodes(t)
  <2>1. apart' = apart /\ before' = before
    BY <1>3 DEF Step, Resolve, ReadList, ReadCursor, SaveCursor, WriteConfCandidate,
      WriteNodesCandidate, Check, CheckFails, ReadFails, BackupFails, RenameFails,
      BackupConf, BackupNodes, RenameConf, RenameNodes, Restart, RestartFails, Healthy, UndoConf,
      UndoClean, UndoRestart, rest
  <2> QED BY <2>1 DEF TypeInv, TypeOK
<1> QED BY <1>1, <1>2, <1>3

LEMMA AgreeStep ==
  ASSUME ~Interleaved, ApplyInv, AgreeInv, [Next]_vars
  PROVE  AgreeInv'
<1> SUFFICES ASSUME ~apart'
             PROVE  /\ (\A t \in Tasks : job'[t].pc \notin Working) => conf' = File(Active(nodes'.list))
                    /\ \A t \in Tasks : job'[t].pc \in Working =>
                         before'.whole /\ before'.conf = File(Active(before'.nodes.list))
  BY DEF AgreeInv
<1>1. ASSUME NEW t \in Tasks, Step(t)
      PROVE  /\ (\A u \in Tasks : job'[u].pc \notin Working) => conf' = File(Active(nodes'.list))
             /\ \A u \in Tasks : job'[u].pc \in Working =>
                  before'.whole /\ before'.conf = File(Active(before'.nodes.list))
  <2>1. /\ job[t].pc \in Working /\ job'[t] \in Job
        /\ \A u \in Tasks \ {t} : job'[u] = job[u] /\ job'[u].pc \notin Working
    BY <1>1, Moves DEF ApplyInv, Alone
  <2>2. CASE job'[t].pc \notin Working
    <3>1. conf' = conf /\ nodes' = nodes /\ before' = before
      BY <1>1, <2>2, EndFiles
    <3>2. CASE job'[t].pc = "failed" /\ apart' = apart
      <4>1. before.whole /\ before.conf = File(Active(before.nodes.list))
        BY <2>1, <3>2 DEF AgreeInv
      <4>2. "failed" # "succeeded"
        OBVIOUS
      <4>3. conf = before.conf /\ nodes = before.nodes
        BY <1>1, <2>2, <3>2, <4>1, <4>2, EndFiles
      <4> QED BY <2>1, <2>2, <3>1, <4>1, <4>3
    <3>3. CASE conf = File(Active(Applied(job[t]))) /\ nodes = File(Applied(job[t]))
      <4>1. nodes.list = Applied(job[t])
        BY <3>3, FileIs
      <4> QED BY <2>1, <2>2, <3>1, <3>3, <4>1
    <3> QED BY <1>1, <2>2, <3>2, <3>3, EndFiles
  <2>3. CASE job'[t].pc \in Working
    <3>1. ~Clean(t)
      BY <2>3, EndIs DEF Clean, ApplyInv
    <3>2. ~apart /\ before' = before
      BY <1>1, <3>1, ApartStays DEF ApplyInv
    <3> QED BY <2>1, <2>3, <3>2 DEF AgreeInv
  <2> QED BY <2>2, <2>3
<1>2. ASSUME NEW t \in Tasks, NEW op \in Ops, NEW n \in Nodes, Start(t, op, n)
      PROVE  /\ (\A u \in Tasks : job'[u].pc \notin Working) => conf' = File(Active(nodes'.list))
             /\ \A u \in Tasks : job'[u].pc \in Working =>
                  before'.whole /\ before'.conf = File(Active(before'.nodes.list))
  <2>1. job'[t].pc \in Working /\ (\A u \in Tasks : job[u].pc \notin Working)
        /\ before' = [conf |-> conf, nodes |-> nodes, whole |-> TRUE]
    BY <1>2, StartIs DEF ApplyInv
  <2>2. apart' = apart
    BY <1>2 DEF Start
  <2> QED BY <2>1, <2>2 DEF AgreeInv
<1>3. CASE Crash
  <2>1. ~apart /\ \A t \in Tasks : job[t].pc \notin {"renameNodes", "undoConf", "undoNodes"}
    BY <1>3 DEF Crash
  <2>2. conf' = conf /\ nodes' = nodes /\ \A t \in Tasks : job'[t].pc \notin Working
    BY <1>3, <2>1 DEF Crash, Idle, Working
  <2>3. CASE \A t \in Tasks : job[t].pc \notin Working
    BY <2>1, <2>2, <2>3 DEF AgreeInv
  <2>4. ASSUME NEW t \in Tasks, job[t].pc \in Working PROVE conf = File(Active(nodes.list))
    <3>1. before.whole /\ before.conf = File(Active(before.nodes.list))
      BY <2>1, <2>4 DEF AgreeInv
    <3>2. CASE conf = before.conf /\ nodes = before.nodes
      BY <3>1, <3>2
    <3>3. CASE conf = File(Active(Applied(job[t]))) /\ nodes = File(Applied(job[t]))
      BY <3>3, FileIs
    <3> QED BY <2>1, <2>4, <3>1, <3>2, <3>3, CrashFiles
  <2> QED BY <2>2, <2>3, <2>4
<1>4. CASE UNCHANGED vars
  BY <1>4 DEF AgreeInv, vars, files, rest
<1> QED BY <1>1, <1>2, <1>3, <1>4 DEF Next

\* With one task at a time the two files describe the same nodes between tasks, whatever
\* fails, until a crash between the renames or in a rollback, a failing copy of a rollback
\* or a failed first installation; and again after the next task that succeeds.
THEOREM FilesStayTogether == ASSUME ~Interleaved PROVE Spec => []FilesAgree
<1>1. Init => AgreeInv
  <2> SUFFICES ASSUME Init PROVE AgreeInv
    OBVIOUS
  <2>1. \A t \in Tasks : job[t].pc \notin Working
    BY DEF Init, Idle, Working
  <2>2. conf = File({}) /\ nodes.list = {} /\ Active({}) = {}
    BY FileIs DEF Init, Active
  <2> QED BY <2>1, <2>2 DEF AgreeInv
<1>2. ApplyInv /\ AgreeInv /\ [Next]_vars => AgreeInv'
  BY AgreeStep
<1>3. AgreeInv => FilesAgree
  BY DEF AgreeInv, FilesAgree, Busy
<1> QED BY <1>1, <1>2, <1>3, Applies, PTL DEF Spec

\* With one task at a time, a task that has failed, at whatever step and however often,
\* leaves both files as it found them, if its rollback could copy the backups.  (With more
\* goroutines than one, before describes the last task of any of them, and not the one that
\* failed.)
THEOREM FailuresUndone ==
  ASSUME NEW t \in Tasks, Tasks = {t}, ~Interleaved
  PROVE  Spec => []FailureUndone
<1>1. Init => FailureUndone
  BY DEF Init, Idle, FailureUndone
<1>2. ASSUME ApplyInv, FailureUndone, [Next]_vars PROVE FailureUndone'
  <2> SUFFICES ASSUME job'[t].pc = "failed", before'.whole
               PROVE  conf' = before'.conf /\ (before'.nodes # None => nodes' = before'.nodes)
    BY DEF FailureUndone
  <2>1. "failed" \notin Working /\ "failed" # "idle" /\ "failed" # "succeeded"
    BY DEF Working
  <2>2. CASE Step(t)
    BY <1>2, <2>1, <2>2, EndFiles
  <2>3. ASSUME NEW op \in Ops, NEW n \in Nodes, Start(t, op, n) PROVE FALSE
    BY <1>2, <2>1, <2>3, StartIs DEF ApplyInv
  <2>4. CASE Crash
    BY <2>1, <2>4 DEF Crash, Idle
  <2>5. CASE UNCHANGED vars
    BY <1>2, <2>5 DEF FailureUndone, vars, files, rest
  <2> QED BY <1>2, <2>2, <2>3, <2>4, <2>5 DEF Next
<1> QED BY <1>1, <1>2, Applies, PTL DEF Spec

-----------------------------------------------------------------------------
(***************************************************************************)
(* With one task at a time the service implements NodeStore.               *)
(***************************************************************************)
Replaces == \E t \in Tasks : job[t].pc \in Replacing

\* The three ways to see what is stored exclude each other.
View ==
  /\ Replaces => Committed = before.nodes.list
  /\ ~Replaces /\ nodes = Torn => Committed = nodesBak.list
  /\ ~Replaces /\ nodes # Torn => Committed = nodes.list

LEMMA ViewIs == View
<1>1. CASE Replaces
  BY <1>1 DEF Replaces, View, Committed
<1>2. CASE ~Replaces
  BY <1>2 DEF Replaces, View, Committed
<1> QED BY <1>1, <1>2

\* The replacement begins with the first rename, and ends with the verdict or the rollback.
LEMMA Enters ==
  ASSUME TypeInv, NEW t \in Tasks, Step(t), job[t].pc \notin Replacing, job'[t].pc \in Replacing
  PROVE  job[t].pc = "renameConf"
<1> SUFFICES ASSUME job[t].pc # "renameConf" PROVE FALSE
  OBVIOUS
<1>1. job[t] \in Job /\ "failed" \notin Replacing /\ "succeeded" \notin Replacing
  BY JobTypes DEF TypeInv, Replacing
<1>2. \/ \E pc \in {"failed", "succeeded"} : Finish(t, pc)
      \/ \E pc \in States \ Replacing : Goto(t, pc)
      \/ \E id, list, b : \E pc \in States \ Replacing :
           \/ Update(t, [job[t] EXCEPT !.pc = pc, !.id = id])
           \/ Update(t, [job[t] EXCEPT !.pc = pc, !.id = id, !.list = list])
           \/ Update(t, [job[t] EXCEPT !.pc = pc, !.backup = b])
  BY DEF Step, Resolve, ReadList, ReadCursor, SaveCursor, WriteConfCandidate,
    WriteNodesCandidate, Check, CheckFails, ReadFails, BackupFails, RenameFails, UndoFails,
    BackupConf, BackupNodes, RenameConf, RenameNodes, Restart, RestartFails, Healthy, Clean,
    UndoConf, UndoNodes, UndoClean, UndoRestart, States, Working, Replacing
<1>3. ASSUME NEW pc \in States \ Replacing, NEW id, NEW list, NEW b,
             \/ Update(t, [job[t] EXCEPT !.pc = pc, !.id = id])
             \/ Update(t, [job[t] EXCEPT !.pc = pc, !.id = id, !.list = list])
             \/ Update(t, [job[t] EXCEPT !.pc = pc, !.backup = b])
      PROVE  FALSE
  <2>1. /\ [job[t] EXCEPT !.pc = pc, !.id = id].pc = pc
        /\ [job[t] EXCEPT !.pc = pc, !.id = id, !.list = list].pc = pc
        /\ [job[t] EXCEPT !.pc = pc, !.backup = b].pc = pc
    BY <1>1 DEF Job
  <2> QED BY <1>3, <2>1, UpdateIs
<1> QED BY <1>1, <1>2, <1>3, GoIs, EndIs

LEMMA Leaves ==
  ASSUME TypeInv, NEW t \in Tasks, Step(t), job[t].pc \in Replacing, job'[t].pc \notin Replacing
  PROVE  nodes' = nodes /\ nodesBak' = nodesBak
<1>1. ASSUME RenameNodes(t) \/ RenameFails(t) \/ UndoNodes(t) \/ UndoFails(t) PROVE FALSE
  <2>1. Goto(t, "restart") \/ Goto(t, "undoConf") \/ Goto(t, "undoNodes") \/ Goto(t, "undoClean")
    BY <1>1 DEF RenameNodes, RenameFails, UndoNodes, UndoFails
  <2> QED BY <2>1, GoIs DEF States, Working, Replacing
<1>2. ~BackupNodes(t) /\ ~BackupFails(t) /\ ~Clean(t)
  BY DEF BackupNodes, BackupFails, Clean, Replacing
<1> QED BY <1>1, <1>2 DEF Step, Resolve, ReadList, ReadCursor, SaveCursor, WriteConfCandidate,
    WriteNodesCandidate, Check, CheckFails, ReadFails, BackupConf, RenameConf, Restart,
    RestartFails, Healthy, UndoConf, UndoClean, UndoRestart, files, rest

\* From what was stored to what a task makes of it is a change of its node.
LEMMA IsChange ==
  ASSUME ApplyInv, NEW t \in Tasks, job[t].pc \in Working \ Early,
         Committed = before.nodes.list, Committed' = Applied(job[t])
  PROVE  Store!StoreNext
<1>1. /\ Reads(job[t]) /\ job[t] \in Job
  BY JobTypes DEF ApplyInv, TypeInv, JobsInv
<1>2. /\ job[t].list = before.nodes.list /\ Lawful(job[t].list) /\ Single(job[t].list) /\ Fits(job[t])
      /\ job[t].node \in Nodes
  BY <1>1 DEF Reads, Job
<1>3. /\ Single(Applied(job[t]))
      /\ \A e \in Applied(job[t]) : e \in job[t].list \/ e.node = job[t].node
      /\ \A e \in job[t].list : e.node # job[t].node => e \in Applied(job[t])
  BY <1>1, <1>2, AppliedFits
<1>4. Store!Change(job[t].node)
  BY <1>2, <1>3 DEF Single, Store!Change, Store!Others
<1> QED BY <1>2, <1>4 DEF Store!StoreNext

LEMMA StoreStep ==
  ASSUME ~Interleaved, ApplyInv, View, View', [Next]_vars
  PROVE  Store!StoreNext \/ Committed' = Committed
<1>0. TypeInv /\ View /\ View'
  BY DEF ApplyInv
<1>1. ASSUME NEW t \in Tasks, job[t].pc \in Replacing
      PROVE  /\ Committed = before.nodes.list /\ job[t].pc \in Working \ Early
             /\ \/ nodes.list = Applied(job[t]) /\ nodes # Torn
                \/ nodes = before.nodes /\ nodes # Torn
                \/ nodes = Torn /\ nodesBak = before.nodes
  <2>1. job[t].pc \in Working \ Early
    BY <1>1 DEF Replacing, Working, Early
  <2>2. /\ Placed(job[t]) /\ Undone(job[t]) /\ Backed(job[t])
        /\ before.nodes # Torn /\ Committed = before.nodes.list
    BY <1>0, <1>1, <2>1 DEF ApplyInv, JobsInv, Reads, View, Replaces
  <2>3. /\ File(Applied(job[t])) # Torn /\ File(Applied(job[t])).list = Applied(job[t])
    BY FileIs
  <2>4. CASE job[t].pc \in {"renameNodes", "restart", "health"}
    BY <2>1, <2>2, <2>3, <2>4 DEF Placed, PreNodes
  <2>5. CASE job[t].pc \in {"undoConf", "undoNodes", "undoClean"}
    BY <2>1, <2>2, <2>3, <2>5 DEF Undone, Backed
  <2> QED BY <1>1, <2>4, <2>5 DEF Replacing
<1>2. ASSUME NEW t \in Tasks, Step(t)
      PROVE  Store!StoreNext \/ Committed' = Committed
  <2>1. /\ job[t].pc \in Working /\ \A u \in Tasks \ {t} : job'[u] = job[u] /\ job[u].pc \notin Working
        /\ before'.nodes = before.nodes /\ Reads(job[t]) /\ Placed(job[t]) /\ Replacing \subseteq Working
    BY <1>2, Moves DEF ApplyInv, Alone, JobsInv, Replacing, Working
  <2>2. /\ Replaces  <=> job[t].pc  \in Replacing
        /\ Replaces' <=> job'[t].pc \in Replacing
    BY <2>1 DEF Replaces
  <2>3. CASE ~Replaces /\ ~Replaces'
    <3>1. CASE nodes' = nodes /\ nodesBak' = nodesBak
      BY <1>0, <2>3, <3>1 DEF View
    <3>2. CASE nodes' = nodes /\ nodes # Torn
      BY <1>0, <2>3, <3>2 DEF View
    <3>3. nodes' = nodes
      <4>1. ~RenameNodes(t) /\ ~UndoNodes(t) /\ ~UndoFails(t)
            /\ job[t].pc # "renameNodes"
        BY <2>2, <2>3 DEF RenameNodes, UndoNodes, UndoFails, Replacing
      <4> QED BY <1>2, <4>1 DEF Step, Resolve, ReadList, ReadCursor, SaveCursor,
          WriteConfCandidate, WriteNodesCandidate, Check, CheckFails, ReadFails, BackupFails,
          RenameFails, UndoFails, BackupConf, BackupNodes, RenameConf, Restart, RestartFails,
          Healthy, Clean, UndoConf, UndoClean, UndoRestart, files, rest
    <3>4. nodesBak' = nodesBak \/ nodes # Torn
      <4>1. CASE BackupNodes(t) \/ Clean(t) \/ BackupFails(t)
        <5>1. job[t].pc \in {"backupConf", "backupNodes", "clean"}
          BY <4>1 DEF BackupNodes, BackupFails, Clean
        <5>2. before.nodes # Torn /\ File(Applied(job[t])) # Torn
          BY <2>1, <5>1, FileIs DEF Reads, Early
        <5> QED BY <2>1, <5>1, <5>2 DEF Placed, PreNodes, PreRename, Early
      <4>2. CASE ~(BackupNodes(t) \/ Clean(t) \/ BackupFails(t))
        BY <1>2, <4>2 DEF Step, Resolve, ReadList, ReadCursor, SaveCursor, WriteConfCandidate,
          WriteNodesCandidate, Check, CheckFails, ReadFails, RenameFails, UndoFails, BackupConf,
          RenameConf, RenameNodes, Restart, RestartFails, Healthy, UndoConf, UndoNodes,
          UndoClean, UndoRestart, files, rest
      <4> QED BY <4>1, <4>2
    <3> QED BY <3>1, <3>2, <3>3, <3>4
  <2>4. CASE ~Replaces /\ Replaces'
    <3>1. job[t].pc = "renameConf" /\ nodes = before.nodes /\ before.nodes # Torn
      <4>1. job[t].pc = "renameConf"
        BY <1>0, <1>2, <2>2, <2>4, Enters
      <4> QED BY <2>1, <4>1 DEF Reads, Placed, PreNodes, PreRename, Early
    <3> QED BY <1>0, <2>1, <2>4, <3>1 DEF View
  <2>5. CASE Replaces /\ Replaces'
    BY <1>0, <2>1, <2>5 DEF View
  <2>6. CASE Replaces /\ ~Replaces'
    <3>1. nodes' = nodes /\ nodesBak' = nodesBak
      BY <1>0, <1>2, <2>2, <2>6, Leaves
    <3>3. CASE nodes.list = Applied(job[t]) /\ nodes # Torn
      <4>1. Committed' = nodes.list
        BY <1>0, <2>6, <3>1, <3>3 DEF View
      <4> QED BY <1>1, <2>2, <2>6, <3>3, <4>1, IsChange
    <3>4. CASE nodes = before.nodes /\ nodes # Torn
      BY <1>0, <1>1, <2>2, <2>6, <3>1, <3>4 DEF View
    <3>5. CASE nodes = Torn /\ nodesBak = before.nodes
      BY <1>0, <1>1, <2>2, <2>6, <3>1, <3>5 DEF View
    <3> QED BY <1>1, <2>2, <2>6, <3>3, <3>4, <3>5
  <2> QED BY <2>3, <2>4, <2>5, <2>6
<1>3. ASSUME NEW t \in Tasks, NEW op \in Ops, NEW n \in Nodes, Start(t, op, n)
      PROVE  Committed' = Committed
  <2>1. /\ job'[t].pc \in Early /\ \A u \in Tasks \ {t} : job'[u] = job[u]
        /\ \A u \in Tasks : job[u].pc \notin Working
    BY <1>0, <1>3, StartIs
  <2>2. ~Replaces /\ ~Replaces'
    BY <2>1 DEF Replaces, Replacing, Early, Working
  <2>3. UNCHANGED files
    BY <1>3 DEF Start
  <2> QED BY <1>0, <2>2, <2>3 DEF View, files
<1>4. CASE Crash
  <2>1. ~Replaces' /\ nodesBak' = nodesBak /\ Torn.list = {}
        /\ nodes' \in {nodes} \cup {Torn : t \in {u \in Tasks : job[u].pc = "undoNodes" /\ job[u].backup}}
    BY <1>4 DEF Crash, Replaces, Idle, Replacing, Torn
  <2>2. CASE ~Replaces
    <3>1. nodes' = nodes
      BY <2>1, <2>2 DEF Replaces, Replacing
    <3> QED BY <1>0, <2>1, <2>2, <3>1 DEF View
  <2>3. CASE Replaces
    <3>1. PICK t \in Tasks : job[t].pc \in Replacing
      BY <2>3 DEF Replaces
    <3>2. CASE nodes' = nodes
      <4>1. CASE nodes.list = Applied(job[t]) /\ nodes # Torn
        <5>1. Committed' = nodes.list
          BY <1>0, <2>1, <3>2, <4>1 DEF View
        <5> QED BY <1>1, <3>1, <4>1, <5>1, IsChange
      <4>2. CASE nodes = before.nodes /\ nodes # Torn
        BY <1>0, <1>1, <2>1, <3>1, <3>2, <4>2 DEF View
      <4>3. CASE nodes = Torn /\ nodesBak = before.nodes
        BY <1>0, <1>1, <2>1, <3>1, <3>2, <4>3 DEF View
      <4> QED BY <1>1, <3>1, <4>1, <4>2, <4>3
    <3>3. CASE nodes' # nodes
      <4>1. PICK u \in Tasks : job[u].pc = "undoNodes" /\ job[u].backup
        BY <2>1, <3>3
      <4>2. nodes' = Torn /\ nodesBak = before.nodes
        <5>1. Backed(job[u])
          BY <4>1 DEF ApplyInv, JobsInv, Working
        <5> QED BY <2>1, <3>3, <4>1, <5>1 DEF Backed
      <4> QED BY <1>0, <2>1, <2>3, <4>2 DEF View
    <3> QED BY <3>2, <3>3
  <2> QED BY <2>2, <2>3
<1>5. CASE UNCHANGED vars
  BY <1>5 DEF Committed, vars, files, rest
<1> QED BY <1>2, <1>3, <1>4, <1>5 DEF Next

\* With one task at a time the service implements the store: a task's change of nodes.json
\* happens at once or not at all, and touches no other node, wherever the Agent dies.
THEOREM ImplementsStore == ASSUME ~Interleaved PROVE Spec => ImplementsNodeStore
<1>1. Init => Store!StoreInit
  <2> SUFFICES ASSUME Init PROVE Store!StoreInit
    OBVIOUS
  <2>1. ~Replaces
    BY DEF Init, Idle, Replaces, Replacing
  <2>2. nodes # Torn /\ nodes.list = {}
    BY FileIs DEF Init
  <2>3. View
    BY ViewIs
  <2> QED BY <2>1, <2>2, <2>3 DEF View, Store!StoreInit
<1>2. ApplyInv /\ View /\ View' /\ [Next]_vars => [Store!StoreNext]_Committed
  BY StoreStep
<1> QED BY <1>1, <1>2, Applies, ViewIs, PTL DEF Spec, ImplementsNodeStore, Store!StoreSpec
=============================================================================
