------------------------------ MODULE Gateway ------------------------------
(***************************************************************************)
(* The websocket gateway of the Manager, internal/manager/gateway, and the *)
(* connection of one Agent to it, internal/agent/client/run.go.            *)
(*                                                                         *)
(* A connection has a handler (a goroutine of HandleWS) that greets,       *)
(* verifies, registers and reads, and a writer (writeLoop) that empties    *)
(* its queue until the connection is closed or a write fails.  The map of  *)
(* challenges and the map of connections are read and written under a      *)
(* mutex, once per step.  The Agent keeps one connection at a time, but    *)
(* handlers of its earlier connections may still be at any of their steps. *)
(*                                                                         *)
(* Abstractions: there is one machine (the maps are indexed by machine);   *)
(* the challenge of a connection is the connection itself; signatures are  *)
(* those of the machine.  Time is counted in heartbeat periods of 15 s.    *)
(* What tasks and results do is module NodeTasks; of the traffic deltas    *)
(* (module TrafficSync) there are only the acknowledgements, which go      *)
(* through the same queue as the tasks.                                    *)
(***************************************************************************)
EXTENDS Integers, SequencesExt

CONSTANTS
  Conns,      \* network connections; one that is over may be used again
  Tasks,      \* messages for the Agent; one is not sent again while on its way
  QueueCap,   \* capacity of the send channel (32 in the code)
  Threshold,  \* OfflineThreshold, in heartbeat periods (60 s: 4)
  MaxFaults,  \* bound: connections broken, deadlines missed, failed writes, crashes
  None

ASSUME GatewayAssumption ==
  /\ None \notin Conns
  /\ QueueCap \in Nat \ {0} /\ Threshold \in Nat \ {0} /\ MaxFaults \in Nat

VARIABLES
  agent,      \* the Agent: [pc, conn]
  wire,       \* wire[c]: [agent, manager, up, down], the ends and what is in flight
  handler,    \* handler[c]: where HandleWS is
  queue,      \* queue[c]: the send channel
  stuck,      \* connections that are served although their writer has returned
  challenges, \* the connection whose challenge is stored
  conns,      \* the connection registered
  sender,     \* a call of SendToMachine: [task, conn]
  row,        \* the row of machines: [status, age], periods since last_seen
  swept,      \* has the offline sweeper run in this period?
  missed,     \* history: was the Agent's last heartbeat not noted in its period?
  used        \* history: faults so far

tables == <<challenges, conns>>
time   == <<row, swept, missed>>
vars   == <<agent, wire, handler, queue, stuck, tables, sender, time, used>>

Late    == Threshold + 2
Down    == [pc |-> "down", conn |-> None]
NoSend  == [task |-> None, conn |-> None]
Over    == [agent |-> "closed", manager |-> "closed", up |-> <<>>, down |-> <<>>]
Serving == {"registered", "reading"}
Queued  == Tasks \cup {"ack"}
Greeting == {"hello", "signed"}
Fault   == used < MaxFaults /\ used' = used + 1

\* Connection w with one end closed; once both sides have left nothing of it
\* matters any more.
Closing(w, end, how) ==
  LET other == IF end = "agent" THEN "manager" ELSE "agent" IN
  IF w[other] = "open" THEN [w EXCEPT ![end] = how] ELSE Over
Shut(c) == [wire EXCEPT ![c] = Closing(@, "manager", "closed")]

Arrived(c, end, msg) == wire[c][end] # <<>> /\ Head(wire[c][end]) = msg
\* The Manager's end of c can no longer be read.
Broken(c) == wire[c].manager = "closed" \/ wire[c].agent = "closed"

-----------------------------------------------------------------------------
(***************************************************************************)
(* Variants of definitions below with a plausible mistake in them; the     *)
(* properties are shown to notice each.  They are not part of the model.   *)
(***************************************************************************)
UnlistedAlways(c)  == None
ListedFirst(c)     == IF conns = None THEN c ELSE conns
ChallengedFirst(c) == IF challenges = None THEN c ELSE challenges
SilentNever        == row.age > Late
RoomForOneMore(c)  == Len(queue[c]) <= QueueCap

-----------------------------------------------------------------------------
\* storeChallenge overwrites the challenge of an earlier handshake.
Challenged(c) == c

\* authenticate: the challenge signed must still be the one stored.  (It is
\* stored for 30 s, and the signature must come within 15 s.)
Verified(c) == challenges = c

\* register puts the new connection in the place of the old one.
Listed(c) == c

\* unregister removes only the connection of its own handler.
Unlisted(c) == IF conns = c THEN None ELSE conns

\* The send channel takes one more message.
Room(c) == Len(queue[c]) < QueueCap

\* sweepOffline: last_seen is more than the threshold ago.
Silent == row.age > Threshold

\* A connection that both sides have left, and that no call refers to.
Free(c) == wire[c] = Over /\ handler[c] = "none" /\ sender.conn # c

OnItsWay(t, c) ==
  t \in ToSet(queue[c]) \cup ToSet(wire[c].down)

Init ==
  /\ agent = Down /\ wire = [c \in Conns |-> Over]
  /\ handler = [c \in Conns |-> "none"]
  /\ queue = [c \in Conns |-> <<>>] /\ stuck = {}
  /\ challenges = None /\ conns = None
  /\ sender = NoSend
  /\ row = [status |-> "offline", age |-> 0] /\ swept = FALSE
  /\ missed = FALSE /\ used = 0

-----------------------------------------------------------------------------
(***************************************************************************)
(* The Agent: dial, hello, sign the challenge, heartbeats.                 *)
(***************************************************************************)
Dial(c) ==
  /\ agent.pc = "down" /\ Free(c)
  /\ agent' = [Down EXCEPT !.pc = "greeted", !.conn = c]
  /\ wire' = [wire EXCEPT ![c] =
                [agent |-> "open", manager |-> "open", up |-> <<"hello">>, down |-> <<>>]]
  /\ handler' = [handler EXCEPT ![c] = "hello"]
  /\ queue' = [queue EXCEPT ![c] = <<>>]
  /\ UNCHANGED <<stuck, tables, sender, time, used>>

Sign(c) ==
  /\ agent.pc = "greeted" /\ agent.conn = c /\ Arrived(c, "down", "challenge")
  /\ agent' = [agent EXCEPT !.pc = "signed"]
  /\ wire' = [wire EXCEPT ![c].down = Tail(@), ![c].up = Append(@, "signed")]
  /\ UNCHANGED <<handler, queue, stuck, tables, sender, time, used>>

Accepted(c) ==
  /\ agent.pc = "signed" /\ agent.conn = c /\ Arrived(c, "down", "accepted")
  /\ agent' = [agent EXCEPT !.pc = "up"]
  /\ wire' = [wire EXCEPT ![c].down = Tail(@)]
  /\ UNCHANGED <<handler, queue, stuck, tables, sender, time, used>>

Receive(c) ==
  /\ agent.pc = "up" /\ agent.conn = c
  /\ \E t \in Queued : Arrived(c, "down", t)
  /\ wire' = [wire EXCEPT ![c].down = Tail(@)]
  /\ UNCHANGED <<agent, handler, queue, stuck, tables, sender, time, used>>

\* runOnce ends, when it was refused or when its connection broke, and Run
\* dials again after a delay of at most 60 s.
HangUp(c) ==
  /\ agent.conn = c /\ wire[c].manager = "closed"
  /\ agent' = Down
  /\ wire' = [wire EXCEPT ![c] = Closing(@, "agent", "closed")]
  /\ UNCHANGED <<handler, queue, stuck, tables, sender, time, used>>

\* The Agent misses a deadline or restarts ("closed"), or its machine goes
\* without a word ("gone").
Leave(c) ==
  /\ agent.conn = c /\ Fault
  /\ agent' = Down
  /\ \E how \in {"closed", "gone"} : wire' = [wire EXCEPT ![c] = Closing(@, "agent", how)]
  /\ UNCHANGED <<handler, queue, stuck, tables, sender, time>>

AgentStep(c) == Sign(c) \/ Accepted(c) \/ Receive(c) \/ HangUp(c)

-----------------------------------------------------------------------------
(***************************************************************************)
(* The handler of a connection, HandleWS.                                  *)
(***************************************************************************)
To(c, pc) == handler' = [handler EXCEPT ![c] = pc]

Greet(c) ==
  /\ handler[c] = "hello" /\ Arrived(c, "up", "hello")
  /\ challenges' = Challenged(c)
  /\ wire' = [wire EXCEPT ![c].up = Tail(@), ![c].down = Append(@, "challenge")]
  /\ To(c, "signed")
  /\ UNCHANGED <<agent, queue, stuck, conns, sender, time, used>>

Accept(c) ==
  /\ handler[c] = "signed" /\ Arrived(c, "up", "signed") /\ Verified(c)
  /\ wire' = [wire EXCEPT ![c].up = Tail(@), ![c].down = Append(@, "accepted")]
  /\ To(c, "accepted")
  /\ UNCHANGED <<agent, queue, stuck, tables, sender, time, used>>

\* A later handshake of the machine has stored its own challenge, an earlier
\* one has deleted it.
Reject(c) ==
  /\ handler[c] = "signed" /\ Arrived(c, "up", "signed") /\ ~Verified(c)
  /\ wire' = Shut(c)
  /\ To(c, "none")
  /\ UNCHANGED <<agent, queue, stuck, tables, sender, time, used>>

\* The read of a hello fails or meets its deadline.
GiveUp(c) ==
  /\ handler[c] \in Greeting
  /\ \/ wire[c].agent # "open" /\ UNCHANGED used
     \/ wire[c].agent = "open" /\ Fault
  /\ wire' = Shut(c)
  /\ To(c, "none")
  /\ UNCHANGED <<agent, queue, stuck, tables, sender, time>>

\* deleteChallenge deletes whichever challenge the map has.
DeleteChallenge(c) ==
  /\ handler[c] = "accepted"
  /\ challenges' = None
  /\ To(c, "deleted")
  /\ UNCHANGED <<agent, wire, queue, stuck, conns, sender, time, used>>

\* register closes the connection that was registered, and the writer starts.
Register(c) ==
  /\ handler[c] = "deleted"
  /\ conns' = Listed(c)
  /\ wire' = IF conns = None THEN wire ELSE Shut(conns)
  /\ To(c, "registered")
  /\ UNCHANGED <<agent, queue, stuck, challenges, sender, time, used>>

\* markSeen: an error of its UPDATE is ignored.
Seen(c) ==
  \/ row' = [status |-> "online", age |-> 0] /\ missed' = FALSE /\ UNCHANGED used
  \/ Fault /\ missed' = (missed \/ agent.conn = c) /\ UNCHANGED row

MarkSeen(c) ==
  /\ handler[c] = "registered"
  /\ Seen(c)
  /\ To(c, "reading")
  /\ UNCHANGED <<agent, wire, queue, stuck, tables, sender, swept>>

\* dispatch: markSeen and updateFromHeartbeat, which write the same.
Heartbeat(c) ==
  /\ handler[c] = "reading" /\ Arrived(c, "up", "beat")
  /\ Seen(c)
  /\ wire' = [wire EXCEPT ![c].up = Tail(@)]
  /\ UNCHANGED <<agent, handler, queue, stuck, tables, sender, swept>>

\* dispatch: a traffic delta is acknowledged through the send channel, unless that
\* stays full for 5 s.
Acknowledge(c) ==
  /\ handler[c] = "reading" /\ ~Broken(c)
  /\ Room(c) /\ ~OnItsWay("ack", c)
  /\ queue' = [queue EXCEPT ![c] = Append(@, "ack")]
  /\ UNCHANGED <<agent, wire, handler, stuck, tables, sender, time, used>>

\* The read fails; unregister.  For a connection that was replaced it closes
\* done a second time: the panic ends the handler, and net/http recovers it.
Unregister(c) ==
  /\ handler[c] = "reading" /\ Broken(c)
  /\ conns' = Unlisted(c)
  /\ wire' = Shut(c)
  /\ To(c, "none")
  /\ stuck' = stuck \ {c}
  /\ UNCHANGED <<agent, queue, challenges, sender, time, used>>

HandlerStep(c) ==
  \/ Greet(c) \/ Accept(c) \/ Reject(c) \/ GiveUp(c)
  \/ DeleteChallenge(c) \/ Register(c) \/ MarkSeen(c) \/ Heartbeat(c) \/ Unregister(c)

-----------------------------------------------------------------------------
(***************************************************************************)
(* Sending a task.                                                         *)
(***************************************************************************)

\* SendToMachine: looks the connection up, under the mutex.
Lookup(t) ==
  /\ sender = NoSend /\ conns # None /\ ~OnItsWay(t, conns)
  /\ sender' = [task |-> t, conn |-> conns]
  /\ UNCHANGED <<agent, wire, handler, queue, stuck, tables, time, used>>

\* ... and then, without it, puts the message in the queue: true.
Enqueue ==
  /\ sender # NoSend /\ Room(sender.conn)
  /\ queue' = [queue EXCEPT ![sender.conn] = Append(@, sender.task)]
  /\ sender' = NoSend
  /\ UNCHANGED <<agent, wire, handler, stuck, tables, time, used>>

\* The queue stays full for 5 s: an error.
QueueFull ==
  /\ sender # NoSend /\ ~Room(sender.conn)
  /\ sender' = NoSend
  /\ UNCHANGED <<agent, wire, handler, queue, stuck, tables, time, used>>

Writes(c) ==
  handler[c] \in Serving /\ c \notin stuck /\ queue[c] # <<>> /\ wire[c].manager = "open"

\* writeLoop: one message; whether it arrives is up to the network.
Write(c) ==
  /\ Writes(c)
  /\ queue' = [queue EXCEPT ![c] = Tail(@)]
  /\ wire' = [wire EXCEPT ![c].down = Append(@, Head(queue[c]))]
  /\ UNCHANGED <<agent, handler, stuck, tables, sender, time, used>>

\* ... or an error, or none of it taken in 10 s: writeLoop returns, and nobody is
\* told.  The connection stays listed and read.
WriteFails(c) ==
  /\ Writes(c) /\ Fault
  /\ queue' = [queue EXCEPT ![c] = Tail(@)]
  /\ stuck' = stuck \cup {c}
  /\ UNCHANGED <<agent, wire, handler, tables, sender, time>>

-----------------------------------------------------------------------------
(***************************************************************************)
(* Time, the sweeper, and a restart of the Manager.                        *)
(***************************************************************************)

\* RunOfflineSweeper, every 10 s.
Sweep ==
  /\ row' = [row EXCEPT !.status = IF Silent THEN "offline" ELSE @]
  /\ swept' = TRUE
  /\ UNCHANGED <<agent, wire, handler, queue, stuck, tables, sender, missed, used>>

\* The reader waits up to 5 s with each acknowledgement while nobody empties the
\* queue, so that it may come late to the heartbeats.
Delayed(c) == c \in stuck /\ ~Room(c)

\* A heartbeat period passes, and the Agent sends its heartbeat if it is
\* connected.  Before that the sweeper has run, the Agent has read what was sent
\* to it, and the Manager, unless it is delayed, has read the heartbeat before.
Tick ==
  /\ swept /\ swept' = FALSE
  /\ agent.pc # "down" => wire[agent.conn].down = <<>>
  /\ agent.pc = "up" =>
       /\ wire[agent.conn].manager = "open" /\ handler[agent.conn] = "reading"
       /\ wire[agent.conn].up = <<>> \/ Delayed(agent.conn)
  /\ missed' = (missed \/ (agent.pc = "up" /\ wire[agent.conn].up # <<>>))
  /\ wire' = IF agent.pc = "up" THEN [wire EXCEPT ![agent.conn].up = <<"beat">>] ELSE wire
  /\ row' = [row EXCEPT !.age = IF @ < Late THEN @ + 1 ELSE @]
  /\ UNCHANGED <<agent, handler, queue, stuck, tables, sender, used>>

\* The Manager dies and starts again; machines is on disk.
Restart ==
  /\ Fault
  /\ wire' = [c \in Conns |-> Closing(wire[c], "manager", "closed")]
  /\ handler' = [c \in Conns |-> "none"]
  /\ queue' = [c \in Conns |-> <<>>] /\ stuck' = {}
  /\ challenges' = None /\ conns' = None /\ sender' = NoSend
  /\ UNCHANGED <<agent, time>>

Next ==
  \/ \E c \in Conns : Dial(c) \/ AgentStep(c) \/ Leave(c)
  \/ \E c \in Conns : HandlerStep(c) \/ Acknowledge(c) \/ Write(c) \/ WriteFails(c)
  \/ \E t \in Tasks : Lookup(t)
  \/ Enqueue \/ QueueFull \/ Sweep \/ Tick \/ Restart

Spec == Init /\ [][Next]_vars

\* Goroutines are scheduled, what was sent on a connection that lives arrives,
\* and the Agent dials again after every break.
Fairness ==
  /\ WF_vars(\E c \in Conns : Dial(c))
  /\ \A c \in Conns : WF_vars(AgentStep(c)) /\ WF_vars(HandlerStep(c))
                      /\ WF_vars(Write(c))
  /\ WF_vars(Enqueue \/ QueueFull)
FairSpec == Spec /\ Fairness
-----------------------------------------------------------------------------
(***************************************************************************)
(* Properties.                                                             *)
(***************************************************************************)
Messages == {"hello", "signed", "challenge", "accepted", "beat", "ack"} \cup Tasks
Ends     == {"open", "closed", "gone"}

\* Types; in particular no queue grows beyond the channel's capacity.
TypeOK ==
  /\ agent \in {Down} \cup [pc : {"greeted", "signed", "up"}, conn : Conns]
  /\ wire \in [Conns -> [agent : Ends, manager : Ends \ {"gone"},
                        up : Seq(Messages), down : Seq(Messages)]]
  /\ handler \in [Conns -> Greeting \cup Serving \cup {"none", "accepted", "deleted"}]
  /\ queue \in [Conns -> Seq(Queued)] /\ \A c \in Conns : Len(queue[c]) <= QueueCap
  /\ stuck \subseteq {c \in Conns : handler[c] \in Serving}
  /\ challenges \in Conns \cup {None} /\ conns \in Conns \cup {None}
  /\ sender \in {NoSend} \cup [task : Tasks, conn : Conns]
  /\ row \in [status : {"online", "offline"}, age : 0..Late]
  /\ swept \in BOOLEAN /\ missed \in BOOLEAN /\ used \in 0..MaxFaults

\* The connection that tasks are sent to is the one that is served: one whose
\* handler has gone or that the Manager has closed is never listed, and the late
\* cleanup of an earlier connection never hides the one that replaced it.
ListedIsServed ==
  \A c \in Conns :
    conns = c <=> (handler[c] \in Serving /\ wire[c].manager = "open")

\* The status follows the heartbeats: a machine whose Agent is connected is never
\* shown offline, whatever reconnections went before, unless its last heartbeat could
\* not be noted, or not in time, because the UPDATE failed or the reader waited on the
\* queue of a writer that has gone; and one that has been silent for the threshold and
\* a sweep is not shown online, although nobody may have noticed that its connection
\* is dead.
StatusFollowsHeartbeat ==
  /\ agent.pc = "up" /\ handler[agent.conn] = "reading" /\ wire[agent.conn].manager = "open"
     /\ ~missed => row.status = "online"
  /\ row.age = Late => row.status = "offline"

\* After the last fault the Agent is connected again, for good, although late
\* handlers of earlier connections delete its challenge or take its place.
Reconnects == <>[](agent.pc = "up" /\ conns = agent.conn)

\* A task that was accepted into the queue of a connection reaches the Agent, unless
\* the connection is replaced or breaks, or its writer returns, after which nothing
\* leaves the queue although the connection goes on.  A call that offers a task to
\* the queue ends, with or without a writer.
AcceptedArrives ==
  /\ \A t \in Tasks, c \in Conns :
       (conns = c /\ OnItsWay(t, c)) ~> (conns # c \/ c \in stuck \/ ~OnItsWay(t, c))
  /\ sender # NoSend ~> sender = NoSend
=============================================================================
