----------------------------- MODULE Enrollment -----------------------------
(***************************************************************************)
(* How a machine gets its identity: `sbx-agent enroll` (cmd/sbx-agent),    *)
(* handleRegister of the Manager (internal/manager/api), and the tables    *)
(* enrollment_tokens, machines and agents.                                 *)
(*                                                                         *)
(* An attempt is one run of `sbx-agent enroll`.  It makes a key pair, and  *)
(* the Manager makes a machine_id for it; both are fresh, and one name     *)
(* stands for the attempt, its key and its machine.  The Manager's handler *)
(* goes on when the Agent has left.  Every SQL statement is a step, the    *)
(* transaction of machines.Delete is one.  A token presented is one the    *)
(* Manager has issued: an unknown one is refused like one that is used.    *)
(***************************************************************************)
EXTENDS FiniteSets

CONSTANTS Attempts, Tokens, Hosts, None

ASSUME EnrollmentAssumption == None \notin Attempts /\ Tokens # {} /\ Hosts # {}

VARIABLES
  expiry,    \* Manager, on disk: expiry[t], whether token t has been issued, has expired
  usedBy,    \* Manager, on disk: the machine token t was used for, None while unused
  machines,  \* Manager, on disk: rows of machines
  agents,    \* Manager, on disk: rows of agents, the public keys
  pc,        \* pc[a]: where handleRegister is
  request,   \* request[a]: the token presented, the host it comes from
  waiting,   \* attempts whose Agent still waits for the answer
  identity,  \* Agents, on disk: identity[h], the machine of agent.json
  deleted,   \* history: machines the administrator has deleted
  abandoned  \* history: attempts ended by a crash or a failed machines.Delete

tokens  == <<expiry, usedBy>>
history == <<deleted, abandoned>>
vars    == <<tokens, machines, agents, pc, request, waiting, identity, history>>

\* Before its request; in handleRegister, with nothing written, with rows written;
\* answered with an error, or with the machine's identity.
Unwritten == {"received", "valid"}
Writing   == {"registered", "stored", "undo"}
Working   == Unwritten \cup Writing \cup {"marked"}
Stages    == {"none"} \cup Working \cup {"refused", "accepted"}
Request   == [token : Tokens, host : Hosts]
NoRequest == [token |-> CHOOSE t \in Tokens : TRUE, host |-> CHOOSE h \in Hosts : TRUE]
Admitted(a) == pc[a] \in {"marked", "accepted"}
Token(a)    == request[a].token

-----------------------------------------------------------------------------
(***************************************************************************)
(* Variants of definitions below with a plausible mistake in them; the     *)
(* properties are shown to notice each.  They are not part of the model.   *)
(***************************************************************************)
ClaimableAlways(a)      == TRUE
UsedByItself(a)         == [usedBy EXCEPT ![Token(a)] = Token(a)]
AfterErrorKept(stage)   == IF stage = "stored" THEN "undo" ELSE "refused"
AfterErrorIgnored(stage) ==
  CASE stage = "valid" -> "refused" [] stage = "registered" -> "stored" [] OTHER -> "undo"

-----------------------------------------------------------------------------
Init ==
  /\ expiry = [t \in Tokens |-> "none"] /\ usedBy = [t \in Tokens |-> None]
  /\ machines = {} /\ agents = {}
  /\ pc = [a \in Attempts |-> "none"]
  /\ request = [a \in Attempts |-> NoRequest]
  /\ waiting = {}
  /\ identity = [h \in Hosts |-> None]
  /\ deleted = {} /\ abandoned = {}

\* Consume: the token is there, unused and not expired.
Consumable(t) == expiry[t] = "open" /\ usedBy[t] = None

\* MarkUsed: UPDATE ... WHERE token = t AND used = 0, whether it has expired or not.
Claimable(a) == usedBy[Token(a)] = None
Used(a)      == [usedBy EXCEPT ![Token(a)] = a]

\* Where handleRegister goes from a statement that fails: once a row has been
\* written it calls machines.Delete.
AfterError(stage) == IF stage = "valid" THEN "refused" ELSE "undo"

-----------------------------------------------------------------------------
To(a, stage) == pc' = [pc EXCEPT ![a] = stage]

\* enrollment.New: a row for a token of 32 random bytes.
Issued(t) == [expiry EXCEPT ![t] = "open"]

\* machines.Delete, one transaction.
DeleteRows(a) == machines' = machines \ {a} /\ agents' = agents \ {a}

\* State.Save: agent.json is replaced as a whole.
Saved(a) == [identity EXCEPT ![request[a].host] = a]

\* handleEnrollmentToken.
NewToken(t) ==
  /\ expiry[t] = "none"
  /\ expiry' = Issued(t)
  /\ UNCHANGED <<usedBy, machines, agents, pc, request, waiting, identity, history>>

Expire(t) ==
  /\ expiry[t] = "open"
  /\ expiry' = [expiry EXCEPT ![t] = "past"]
  /\ UNCHANGED <<usedBy, machines, agents, pc, request, waiting, identity, history>>

\* runEnroll on host h.
Enroll(a, h, t) ==
  /\ pc[a] = "none" /\ expiry[t] # "none"
  /\ request' = [request EXCEPT ![a] = [token |-> t, host |-> h]]
  /\ waiting' = waiting \cup {a}
  /\ To(a, "received")
  /\ UNCHANGED <<tokens, machines, agents, identity, history>>

\* Consume reads the token, and consumes nothing; a SELECT that fails refuses
\* a good token as well.
Consume(a) ==
  /\ pc[a] = "received"
  /\ \/ Consumable(Token(a)) /\ To(a, "valid")
     \/ To(a, "refused")
  /\ UNCHANGED <<tokens, machines, agents, request, waiting, identity, history>>

\* machines.Register, under a new machine_id.
Register(a) ==
  /\ pc[a] = "valid"
  /\ \/ machines' = machines \cup {a} /\ To(a, "registered")
     \/ UNCHANGED machines /\ To(a, AfterError("valid"))
  /\ UNCHANGED <<tokens, agents, request, waiting, identity, history>>

\* auth.StoreIdentity.
StoreIdentity(a) ==
  /\ pc[a] = "registered"
  /\ \/ agents' = agents \cup {a} /\ To(a, "stored")
     \/ UNCHANGED agents /\ To(a, AfterError("registered"))
  /\ UNCHANGED <<tokens, machines, request, waiting, identity, history>>

\* MarkUsed ...
MarkUsed(a) ==
  /\ pc[a] = "stored" /\ Claimable(a)
  /\ usedBy' = Used(a)
  /\ To(a, "marked")
  /\ UNCHANGED <<expiry, machines, agents, request, waiting, identity, history>>

\* ... or it finds the token used meanwhile, or fails.
MarkFails(a) ==
  /\ pc[a] = "stored"
  /\ To(a, AfterError("stored"))
  /\ UNCHANGED <<tokens, machines, agents, request, waiting, identity, history>>

\* The error of machines.Delete is ignored.
Undo(a) ==
  /\ pc[a] = "undo"
  /\ \/ DeleteRows(a) /\ UNCHANGED abandoned
     \/ abandoned' = abandoned \cup {a} /\ UNCHANGED <<machines, agents>>
  /\ To(a, "refused")
  /\ UNCHANGED <<tokens, request, waiting, identity, deleted>>

\* The answer; an Agent that still waits for it saves its identity, in the place
\* of the one it had.
Answer(a) ==
  /\ pc[a] = "marked"
  /\ identity' = IF a \in waiting THEN Saved(a) ELSE identity
  /\ waiting' = waiting \ {a}
  /\ To(a, "accepted")
  /\ UNCHANGED <<tokens, machines, agents, request, history>>

\* What handleRegister does once it has a request.
Handle(a) ==
  \/ Consume(a) \/ Register(a) \/ StoreIdentity(a) \/ MarkUsed(a) \/ MarkFails(a)
  \/ Undo(a) \/ Answer(a)

\* The Agent is killed, loses its connection, or has waited for 30 seconds.
GiveUp(a) ==
  /\ a \in waiting
  /\ waiting' = waiting \ {a}
  /\ UNCHANGED <<tokens, machines, agents, pc, request, identity, history>>

\* handleDeleteMachine, for a machine the panel lists.
DeleteMachine(a) ==
  /\ a \in machines
  /\ DeleteRows(a)
  /\ deleted' = deleted \cup {a}
  /\ UNCHANGED <<tokens, pc, request, waiting, identity, abandoned>>

\* The Manager dies and is started again; the Agents' requests fail.
ManagerCrash ==
  /\ pc' = [a \in Attempts |-> IF pc[a] = "marked" THEN "accepted"
                               ELSE IF pc[a] \in Working THEN "refused" ELSE pc[a]]
  /\ waiting' = {}
  /\ abandoned' = abandoned \cup {a \in Attempts : pc[a] \in Writing}
  /\ UNCHANGED <<tokens, machines, agents, request, identity, deleted>>

Next ==
  \/ \E t \in Tokens : NewToken(t) \/ Expire(t)
  \/ \E a \in Attempts :
       \/ \E h \in Hosts, t \in Tokens : Enroll(a, h, t)
       \/ Handle(a) \/ GiveUp(a) \/ DeleteMachine(a)
  \/ ManagerCrash

Spec == Init /\ [][Next]_vars

(***************************************************************************)
(* Fairness: net/http runs the handlers, and a statement of SQLite returns *)
(* (busy_timeout).  Nobody is obliged to enrol, and tokens need not expire.*)
(***************************************************************************)
Fairness == \A a \in Attempts : WF_vars(Handle(a))

FairSpec == Spec /\ Fairness
-----------------------------------------------------------------------------
(***************************************************************************)
(* Properties.                                                             *)
(***************************************************************************)

\* Types.
TypeOK ==
  /\ expiry \in [Tokens -> {"none", "open", "past"}]
  /\ usedBy \in [Tokens -> Attempts \cup {None}]
  /\ machines \subseteq Attempts /\ agents \subseteq Attempts
  /\ pc \in [Attempts -> Stages] /\ request \in [Attempts -> Request]
  /\ waiting \subseteq Attempts
  /\ identity \in [Hosts -> Attempts \cup {None}]
  /\ deleted \subseteq Attempts /\ abandoned \subseteq Attempts

\* A token admits one machine, however many requests present it at a time: all of
\* them pass Consume, and the conditional UPDATE lets one through.
OneMachinePerToken ==
  \A a, b \in Attempts : Admitted(a) /\ Admitted(b) /\ Token(a) = Token(b) => a = b

\* "No failure consumes the token": a used token has admitted a machine, and the
\* machine has its row and its key, unless the administrator has deleted it.  So
\* has the machine an Agent has saved, whatever has crashed.
UsedIsKnown ==
  /\ \A t \in Tokens : usedBy[t] # None =>
       LET a == usedBy[t] IN
       Admitted(a) /\ Token(a) = t /\ (a \in machines \cap agents \/ a \in deleted)
  /\ \A h \in Hosts : identity[h] # None => usedBy[Token(identity[h])] = identity[h]

\* A registration that failed leaves no row behind ("avoid dirty data"), unless the
\* Manager died in the middle of it or could not undo it, or the administrator
\* deleted the machine while its key was being stored.
NoLeftovers ==
  \A a \in machines \cup agents :
    Admitted(a) \/ pc[a] \in Writing \/ a \in abandoned \/ a \in deleted

\* Every request is answered, and what it wrote is then either an admitted machine
\* or gone.
RequestEnds ==
  \A a \in Attempts :
    (pc[a] \in Working) ~>
      \/ Admitted(a) \/ a \in abandoned \/ a \in deleted
      \/ pc[a] = "refused" /\ a \notin machines \cup agents
=============================================================================
