--------------------------- MODULE GatewayProofs ---------------------------
(***************************************************************************)
(* Theorems about module Gateway, for any number of connections, tasks and *)
(* faults, and for any capacity and threshold.                             *)
(***************************************************************************)
EXTENDS Gateway, TLAPS

Wire == [agent : Ends, manager : Ends \ {"gone"}, up : Seq(Messages), down : Seq(Messages)]

-----------------------------------------------------------------------------
(***************************************************************************)
(* Types.                                                                  *)
(***************************************************************************)

\* Closing an end of a connection leaves the other end as it is.
LEMMA ClosingEnd ==
  ASSUME NEW w \in Wire, NEW how \in {"closed", "gone"}
  PROVE  /\ Closing(w, "manager", "closed") \in Wire
         /\ Closing(w, "manager", "closed").manager = "closed"
         /\ w.agent = "open" =>
              Closing(w, "manager", "closed") = [w EXCEPT !.manager = "closed"]
         /\ Closing(w, "agent", how) \in Wire
         /\ Closing(w, "agent", how).manager = w.manager
  <1>1. Over \in Wire /\ Over.manager = "closed"
    BY DEF Over, Wire, Ends
  <1>2. \A x : \A end \in {"agent", "manager"} :
          Closing(w, end, x) = IF w[IF end = "agent" THEN "manager" ELSE "agent"] = "open"
                                 THEN [w EXCEPT ![end] = x] ELSE Over
    BY DEF Closing
  <1>3. /\ Closing(w, "manager", "closed") = IF w.agent = "open"
                                 THEN [w EXCEPT !.manager = "closed"] ELSE Over
        /\ Closing(w, "agent", how) = IF w.manager = "open"
                                 THEN [w EXCEPT !.agent = how] ELSE Over
    BY <1>2
  <1>4. /\ [w EXCEPT !.manager = "closed"] \in Wire
        /\ [w EXCEPT !.manager = "closed"].manager = "closed"
        /\ [w EXCEPT !.agent = how] \in Wire
        /\ [w EXCEPT !.agent = how].manager = w.manager
        /\ w.manager \in {"open", "closed"}
    BY DEF Wire, Ends
  <1> QED BY <1>1, <1>3, <1>4

\* What is sent on an end, or read from it, is a message.
LEMMA Channel ==
  ASSUME NEW M, NEW s \in Seq(M), NEW m \in M
  PROVE  /\ Append(s, m) \in Seq(M) /\ Len(Append(s, m)) = Len(s) + 1
         /\ <<m>> \in Seq(M) /\ Len(<<m>>) = 1 /\ <<>> \in Seq(M) /\ Len(<<>>) = 0
         /\ s # <<>> => /\ Head(s) \in M /\ Tail(s) \in Seq(M)
                        /\ Len(Tail(s)) = Len(s) - 1 /\ Len(s) > 0
         /\ s = <<>> <=> Len(s) = 0
  OBVIOUS

\* What is in flight on a connection is replaced by other messages.
LEMMA Carries ==
  ASSUME wire \in [Conns -> Wire], NEW c \in Conns,
         NEW u \in Seq(Messages), NEW d \in Seq(Messages)
  PROVE  /\ [wire EXCEPT ![c].up = u] \in [Conns -> Wire]
         /\ [wire EXCEPT ![c].down = d] \in [Conns -> Wire]
         /\ [wire EXCEPT ![c].up = u, ![c].down = d] \in [Conns -> Wire]
  <1>1. /\ [wire[c] EXCEPT !.up = u] \in Wire
        /\ [wire[c] EXCEPT !.down = d] \in Wire
        /\ [wire[c] EXCEPT !.up = u, !.down = d] \in Wire
    BY DEF Wire
  <1>2. /\ [wire EXCEPT ![c].up = u] = [wire EXCEPT ![c] = [wire[c] EXCEPT !.up = u]]
        /\ [wire EXCEPT ![c].down = d] = [wire EXCEPT ![c] = [wire[c] EXCEPT !.down = d]]
        /\ [wire EXCEPT ![c].up = u, ![c].down = d] =
              [wire EXCEPT ![c] = [wire[c] EXCEPT !.up = u, !.down = d]]
    BY DEF Wire
  <1>3. \A w \in Wire : [wire EXCEPT ![c] = w] \in [Conns -> Wire]
    OBVIOUS
  <1> QED BY <1>1, <1>2, <1>3

\* One message in flight, or none.
LEMMA Single == \A M : <<>> \in Seq(M) /\ \A m \in M : <<m>> \in Seq(M)
  OBVIOUS

LEMMA TypeStep == TypeOK /\ [Next]_vars => TypeOK'
<1> SUFFICES ASSUME TypeOK, [Next]_vars PROVE TypeOK'
  OBVIOUS
<1> USE GatewayAssumption DEF TypeOK
<1>0. /\ {"hello", "signed", "challenge", "accepted", "beat", "ack"} \subseteq Messages
      /\ Tasks \subseteq Queued /\ "ack" \in Queued /\ Queued \subseteq Messages
      /\ wire \in [Conns -> Wire] /\ \A c \in Conns : wire[c] \in Wire
  BY DEF Messages, Queued, Wire
<1>t. ASSUME wire' \in [Conns -> Wire] PROVE
        wire' \in [Conns -> [agent : Ends, manager : Ends \ {"gone"},
                            up : Seq(Messages), down : Seq(Messages)]]
  BY <1>t DEF Wire
<1>h. ASSUME NEW c \in Conns, NEW pc \in Greeting \cup Serving \cup {"none", "accepted", "deleted"},
             To(c, pc)
      PROVE  handler' \in [Conns -> Greeting \cup Serving \cup {"none", "accepted", "deleted"}]
  BY <1>h DEF To
<1>s. ASSUME NEW c \in Conns PROVE Shut(c) \in [Conns -> Wire]
  BY <1>0, ClosingEnd DEF Shut
<1>c. \A c \in Conns :
        /\ wire[c].up \in Seq(Messages) /\ wire[c].down \in Seq(Messages)
        /\ wire[c].up # <<>> => Tail(wire[c].up) \in Seq(Messages)
        /\ wire[c].down # <<>> => Tail(wire[c].down) \in Seq(Messages)
  OBVIOUS
<1>1. ASSUME NEW c \in Conns, Dial(c) PROVE TypeOK'
  <2>1. <<"hello">> \in Seq(Messages) /\ <<>> \in Seq(Messages) /\ <<>> \in Seq(Queued)
        /\ Len(<<>>) = 0
    BY <1>0
  <2>2. [agent |-> "open", manager |-> "open", up |-> <<"hello">>, down |-> <<>>] \in Wire
    BY <2>1 DEF Wire, Ends
  <2>3. wire' \in [Conns -> Wire]
    BY <1>0, <1>1, <2>2 DEF Dial
  <2>4. queue' \in [Conns -> Seq(Queued)] /\ \A d \in Conns : Len(queue'[d]) <= QueueCap
    BY <1>1, <2>1 DEF Dial
  <2>5. agent' \in {Down} \cup [pc : {"greeted", "signed", "up"}, conn : Conns]
        /\ handler' \in [Conns -> Greeting \cup Serving \cup {"none", "accepted", "deleted"}]
    BY <1>1 DEF Dial, Down, Greeting
  <2>6. stuck' \subseteq {d \in Conns : handler'[d] \in Serving}
    BY <1>1 DEF Dial, Free, Serving
  <2> QED BY <1>1, <1>t, <2>3, <2>4, <2>5, <2>6 DEF Dial, tables, time
<1>2. ASSUME NEW c \in Conns, AgentStep(c) \/ Leave(c) PROVE TypeOK'
  <2>1. wire' \in [Conns -> Wire]
    <3>1. CASE Sign(c)
      <4>1. /\ Tail(wire[c].down) \in Seq(Messages)
            /\ Append(wire[c].up, "signed") \in Seq(Messages)
        BY <3>1, <1>0, <1>c DEF Sign, Arrived
      <4>2. wire' = [wire EXCEPT ![c].up = Append(wire[c].up, "signed"),
                                 ![c].down = Tail(wire[c].down)]
        BY <3>1 DEF Sign
      <4> QED BY <4>1, <4>2, <1>0, Carries
    <3>2. CASE Accepted(c)
      <4>1. /\ Tail(wire[c].down) \in Seq(Messages)
            /\ wire' = [wire EXCEPT ![c].down = Tail(wire[c].down)]
        BY <3>2, <1>0, <1>c DEF Accepted, Arrived
      <4> QED BY <4>1, <1>0, <1>c, Carries
    <3>3. CASE Receive(c)
      <4>1. /\ Tail(wire[c].down) \in Seq(Messages)
            /\ wire' = [wire EXCEPT ![c].down = Tail(wire[c].down)]
        BY <3>3, <1>0, <1>c DEF Receive, Arrived
      <4> QED BY <4>1, <1>0, <1>c, Carries
    <3>4. CASE HangUp(c)
      BY <3>4, <1>0, ClosingEnd DEF HangUp
    <3>5. CASE Leave(c)
      <4>1. PICK how \in {"closed", "gone"} :
               wire' = [wire EXCEPT ![c] = Closing(wire[c], "agent", how)]
        BY <3>5 DEF Leave
      <4>2. Closing(wire[c], "agent", how) \in Wire
        BY <1>0, ClosingEnd
      <4> QED BY <4>1, <4>2, <1>0
    <3> QED BY <1>2, <3>1, <3>2, <3>3, <3>4, <3>5 DEF AgentStep
  <2>2. agent' \in {Down} \cup [pc : {"greeted", "signed", "up"}, conn : Conns]
    <3>1. \/ agent' \in {Down, agent}
          \/ /\ agent.pc # "down"
             /\ \E pc \in {"signed", "up"} : agent' = [agent EXCEPT !.pc = pc]
      BY <1>2 DEF AgentStep, Sign, Accepted, Receive, HangUp, Leave
    <3>2. ASSUME agent.pc # "down", NEW pc \in {"signed", "up"}
          PROVE  [agent EXCEPT !.pc = pc] \in [pc : {"greeted", "signed", "up"}, conn : Conns]
      <4>1. agent \in [pc : {"greeted", "signed", "up"}, conn : Conns]
        BY <3>2 DEF Down
      <4> QED BY <4>1
    <3> QED BY <3>1, <3>2
  <2>3. used' \in 0..MaxFaults
    BY <1>2 DEF AgentStep, Sign, Accepted, Receive, HangUp, Leave, Fault
  <2>4. UNCHANGED <<handler, queue, stuck, tables, sender, time>>
    BY <1>2 DEF AgentStep, Sign, Accepted, Receive, HangUp, Leave
  <2> QED BY <1>t, <2>1, <2>2, <2>3, <2>4 DEF tables, time
<1>3. ASSUME NEW c \in Conns, HandlerStep(c) PROVE TypeOK'
  <2>1. wire' \in [Conns -> Wire]
    <3>1. CASE Greet(c)
      <4>1. /\ Tail(wire[c].up) \in Seq(Messages)
            /\ Append(wire[c].down, "challenge") \in Seq(Messages)
        BY <3>1, <1>0, <1>c DEF Greet, Arrived
      <4>2. wire' = [wire EXCEPT ![c].up = Tail(wire[c].up),
                                 ![c].down = Append(wire[c].down, "challenge")]
        BY <3>1 DEF Greet
      <4> QED BY <4>1, <4>2, <1>0, Carries
    <3>2. CASE Accept(c)
      <4>1. /\ Tail(wire[c].up) \in Seq(Messages)
            /\ Append(wire[c].down, "accepted") \in Seq(Messages)
        BY <3>2, <1>0, <1>c DEF Accept, Arrived
      <4>2. wire' = [wire EXCEPT ![c].up = Tail(wire[c].up),
                                 ![c].down = Append(wire[c].down, "accepted")]
        BY <3>2 DEF Accept
      <4> QED BY <4>1, <4>2, <1>0, Carries
    <3>3. CASE Reject(c) \/ GiveUp(c) \/ Unregister(c)
      BY <3>3, <1>s DEF Reject, GiveUp, Unregister
    <3>4. CASE DeleteChallenge(c) \/ MarkSeen(c)
      BY <3>4, <1>0 DEF DeleteChallenge, MarkSeen
    <3>5. CASE Register(c)
      BY <3>5, <1>0, <1>s DEF Register
    <3>6. CASE Heartbeat(c)
      <4>1. /\ Tail(wire[c].up) \in Seq(Messages)
            /\ wire' = [wire EXCEPT ![c].up = Tail(wire[c].up)]
        BY <3>6, <1>0, <1>c DEF Heartbeat, Arrived
      <4> QED BY <4>1, <1>0, <1>c, Carries
    <3> QED BY <1>3, <3>1, <3>2, <3>3, <3>4, <3>5, <3>6 DEF HandlerStep
  <2>2. handler' \in [Conns -> Greeting \cup Serving \cup {"none", "accepted", "deleted"}]
    <3>1. PICK pc \in Greeting \cup Serving \cup {"none", "accepted", "deleted"} :
             To(c, pc) \/ handler' = handler
      BY <1>3 DEF HandlerStep, Greet, Accept, Reject, GiveUp, DeleteChallenge, Register,
                  MarkSeen, Heartbeat, Unregister, Greeting, Serving
    <3> QED BY <1>h, <3>1
  <2>3. challenges' \in Conns \cup {None} /\ conns' \in Conns \cup {None}
    BY <1>3 DEF HandlerStep, Greet, Accept, Reject, GiveUp, DeleteChallenge, Register,
                MarkSeen, Heartbeat, Unregister, Challenged, Listed, Unlisted, tables
  <2>4. row' \in [status : {"online", "offline"}, age : 0..Late]
    <3>1. row' = row \/ row' = [status |-> "online", age |-> 0]
      BY <1>3 DEF HandlerStep, Greet, Accept, Reject, GiveUp, DeleteChallenge, Register,
                  MarkSeen, Heartbeat, Unregister, Seen, time
    <3>2. [status |-> "online", age |-> 0] \in [status : {"online", "offline"}, age : 0..Late]
      BY DEF Late
    <3> QED BY <3>1, <3>2
  <2>5. used' \in 0..MaxFaults
    BY <1>3 DEF HandlerStep, Greet, Accept, Reject, GiveUp, DeleteChallenge, Register,
                MarkSeen, Heartbeat, Unregister, Seen, Fault
  <2>6. UNCHANGED <<agent, queue, sender, swept>> /\ missed' \in BOOLEAN
    <3>1. UNCHANGED <<agent, queue, sender, swept>>
      BY <1>3 DEF HandlerStep, Greet, Accept, Reject, GiveUp, DeleteChallenge, Register,
                  MarkSeen, Heartbeat, Unregister, tables, time
    <3>2. missed' \in {FALSE, missed, (missed \/ agent.conn = c)}
      BY <1>3 DEF HandlerStep, Greet, Accept, Reject, GiveUp, DeleteChallenge, Register,
                  MarkSeen, Heartbeat, Unregister, Seen, tables, time
    <3> QED BY <3>1, <3>2
  <2>7. stuck' \subseteq {d \in Conns : handler'[d] \in Serving}
    <3>1. /\ \A d \in Conns \ {c} : handler'[d] = handler[d]
          /\ stuck' \subseteq stuck
          /\ c \in stuck' => handler[c] \in Serving /\ handler'[c] \in Serving
      BY <1>3 DEF HandlerStep, To, Greet, Accept, Reject, GiveUp, DeleteChallenge,
                  Register, MarkSeen, Heartbeat, Unregister, Serving, Greeting
    <3> QED BY <3>1
  <2> QED BY <1>t, <2>1, <2>2, <2>3, <2>4, <2>5, <2>6, <2>7
<1>4. ASSUME NEW c \in Conns, Write(c) PROVE TypeOK'
  <2>1. /\ Tail(queue[c]) \in Seq(Queued) /\ Len(Tail(queue[c])) <= QueueCap
        /\ Head(queue[c]) \in Messages
    BY <1>4, <1>0 DEF Write, Writes
  <2>2. Append(wire[c].down, Head(queue[c])) \in Seq(Messages)
    BY <2>1
  <2>3. wire' \in [Conns -> Wire]
    <3>1. wire' = [wire EXCEPT ![c].down = Append(wire[c].down, Head(queue[c]))]
      BY <1>4 DEF Write
    <3> QED BY <3>1, <2>2, <1>0, <1>c, Carries
  <2>4. queue' \in [Conns -> Seq(Queued)] /\ \A d \in Conns : Len(queue'[d]) <= QueueCap
    BY <1>4, <2>1 DEF Write
  <2> QED BY <1>4, <1>t, <2>3, <2>4 DEF Write, tables, time
<1>12. ASSUME NEW c \in Conns, Acknowledge(c) PROVE TypeOK'
  <2>1. LET q == Append(queue[c], "ack") IN q \in Seq(Queued) /\ Len(q) <= QueueCap
    BY <1>0, <1>12 DEF Acknowledge, Room
  <2>2. queue' \in [Conns -> Seq(Queued)] /\ \A d \in Conns : Len(queue'[d]) <= QueueCap
    BY <1>12, <2>1 DEF Acknowledge
  <2> QED BY <1>12, <2>2 DEF Acknowledge, tables, time
<1>13. ASSUME NEW c \in Conns, WriteFails(c) PROVE TypeOK'
  <2>1. Tail(queue[c]) \in Seq(Queued) /\ Len(Tail(queue[c])) <= QueueCap
    BY <1>13 DEF WriteFails, Writes
  <2>2. queue' \in [Conns -> Seq(Queued)] /\ \A d \in Conns : Len(queue'[d]) <= QueueCap
    BY <1>13, <2>1 DEF WriteFails
  <2>3. stuck' \subseteq {d \in Conns : handler'[d] \in Serving} /\ used' \in 0..MaxFaults
    BY <1>13 DEF WriteFails, Writes, Fault
  <2> QED BY <1>13, <2>2, <2>3 DEF WriteFails, tables, time
<1>5. ASSUME NEW t \in Tasks, Lookup(t) PROVE TypeOK'
  BY <1>5 DEF Lookup, tables, time
<1>6. CASE Enqueue
  <2>1. sender \in [task : Tasks, conn : Conns]
    BY <1>6 DEF Enqueue
  <2>2. LET q == Append(queue[sender.conn], sender.task) IN
        q \in Seq(Queued) /\ Len(q) <= QueueCap
    BY <1>0, <1>6, <2>1 DEF Enqueue, Room
  <2> QED BY <1>6, <2>1, <2>2 DEF Enqueue, tables, time
<1>7. CASE QueueFull
  BY <1>7 DEF QueueFull, tables, time
<1>8. CASE Sweep
  BY <1>8 DEF Sweep, tables, time
<1>9. CASE Tick
  <2>1. wire' \in [Conns -> Wire]
    <3>1. <<"beat">> \in Seq(Messages)
      BY <1>0, Single
    <3>2. agent.pc = "up" => agent.conn \in Conns
      BY DEF Down
    <3>3. \/ wire' = wire
          \/ agent.conn \in Conns /\ wire' = [wire EXCEPT ![agent.conn].up = <<"beat">>]
      BY <1>9, <3>2 DEF Tick
    <3>4. ASSUME agent.conn \in Conns
          PROVE  [wire EXCEPT ![agent.conn].up = <<"beat">>] \in [Conns -> Wire]
      <4> HIDE DEF TypeOK
      <4>1. wire[agent.conn].down \in Seq(Messages)
        BY <1>c, <3>4
      <4> QED BY <3>1, <3>4, <4>1, <1>0, Carries
    <3> QED BY <3>3, <3>4, <1>0
  <2>2. row' \in [status : {"online", "offline"}, age : 0..Late]
    <3>1. row.age \in 0..Late /\ Late \in Nat
      BY DEF Late
    <3>2. (IF row.age < Late THEN row.age + 1 ELSE row.age) \in 0..Late
      BY <3>1
    <3> QED BY <1>9, <3>2 DEF Tick
  <2>3. missed' \in BOOLEAN
    BY <1>9 DEF Tick
  <2> QED BY <1>9, <1>t, <2>1, <2>2, <2>3 DEF Tick, tables, time
<1>10. CASE Restart
  <2>1. wire' \in [Conns -> Wire]
    BY <1>10, <1>0, ClosingEnd DEF Restart
  <2> QED BY <1>10, <1>t, <2>1 DEF Restart, Fault, NoSend, time
<1>11. CASE UNCHANGED vars
  BY <1>11 DEF vars, tables, time
<1> QED
  BY <1>1, <1>2, <1>3, <1>4, <1>5, <1>6, <1>7, <1>8, <1>9, <1>10, <1>11, <1>12, <1>13
     DEF Next

\* Every variable keeps its type; no queue grows beyond its capacity.
THEOREM TypeCorrect == Spec => []TypeOK
<1>1. Init => TypeOK
  <2> SUFFICES ASSUME Init PROVE TypeOK
    OBVIOUS
  <2>1. wire \in [Conns -> Wire]
    BY Single DEF Init, Over, Wire, Ends
  <2>2. queue \in [Conns -> Seq(Queued)] /\ \A c \in Conns : Len(queue[c]) <= QueueCap
    BY Single, GatewayAssumption DEF Init
  <2>3. 0 \in 0..Late
    BY GatewayAssumption DEF Late
  <2>4. row \in [status : {"online", "offline"}, age : 0..Late]
    BY <2>3 DEF Init
  <2>5. handler \in [Conns -> Greeting \cup Serving \cup {"none", "accepted", "deleted"}]
    BY DEF Init
  <2>6. /\ agent = Down /\ challenges = None /\ conns = None /\ sender = NoSend
        /\ swept = FALSE /\ missed = FALSE /\ stuck = {} /\ used \in 0..MaxFaults
    BY GatewayAssumption DEF Init
  <2> QED BY <2>1, <2>2, <2>4, <2>5, <2>6 DEF TypeOK, Wire
<1> QED BY <1>1, TypeStep, PTL DEF Spec
-----------------------------------------------------------------------------
(***************************************************************************)
(* What a step does to the Manager's ends of the connections.              *)
(***************************************************************************)
LEMMA WireIs == TypeOK => wire \in [Conns -> Wire] /\ \A c \in Conns : wire[c] \in Wire
  BY DEF TypeOK, Wire

\* What is in flight does not change the ends.
LEMMA Carried ==
  ASSUME TypeOK, NEW c \in Conns, NEW u, NEW v,
         \/ wire' = [wire EXCEPT ![c].up = u]
         \/ wire' = [wire EXCEPT ![c].down = v]
         \/ wire' = [wire EXCEPT ![c].up = u, ![c].down = v]
  PROVE  /\ \A d \in Conns : wire'[d].manager = wire[d].manager
         /\ \A d \in Conns \ {c} : wire'[d] = wire[d]
  <1>0. wire \in [Conns -> Wire] /\ wire[c] \in Wire
    BY WireIs
  <1>1. PICK w : /\ wire' = [wire EXCEPT ![c] = w]
                 /\ \/ w = [wire[c] EXCEPT !.up = u]
                    \/ w = [wire[c] EXCEPT !.down = v]
                    \/ w = [wire[c] EXCEPT !.up = u, !.down = v]
    <2>1. CASE wire' = [wire EXCEPT ![c].up = u]
      BY <1>0, <2>1
    <2>2. CASE wire' = [wire EXCEPT ![c].down = v]
      BY <1>0, <2>2
    <2>3. CASE wire' = [wire EXCEPT ![c].up = u, ![c].down = v]
      BY <1>0, <2>3
    <2> QED BY <2>1, <2>2, <2>3
  <1>2. w.manager = wire[c].manager
    BY <1>0, <1>1 DEF Wire
  <1> QED BY <1>0, <1>1, <1>2

\* Only the Manager closes its end, and a connection is dialled anew only when both
\* ends have left it.
LEMMA ManagerEnd ==
  ASSUME TypeOK
  PROVE  /\ \A c \in Conns : AgentStep(c) \/ Leave(c) \/ Write(c) =>
                \A d \in Conns : wire'[d].manager = wire[d].manager
         /\ Tick => \A d \in Conns : wire'[d].manager = wire[d].manager
         /\ \A c \in Conns : Shut(c)[c].manager = "closed"
         /\ \A c, d \in Conns : c # d => Shut(c)[d] = wire[d]
<1>0. wire \in [Conns -> Wire] /\ \A c \in Conns : wire[c] \in Wire
  BY WireIs
<1>1. ASSUME NEW c \in Conns, NEW d \in Conns, Sign(c) \/ Accepted(c) \/ Receive(c) \/ Write(c)
      PROVE  wire'[d].manager = wire[d].manager
  <2>1. \E u, v : \/ wire' = [wire EXCEPT ![c].down = v]
                  \/ wire' = [wire EXCEPT ![c].up = u, ![c].down = v]
    BY <1>1 DEF Sign, Accepted, Receive, Write
  <2> QED BY <2>1, Carried
<1>2. ASSUME NEW c \in Conns, NEW d \in Conns, HangUp(c) \/ Leave(c)
      PROVE  wire'[d].manager = wire[d].manager
  <2>1. PICK how \in {"closed", "gone"} :
           wire' = [wire EXCEPT ![c] = Closing(wire[c], "agent", how)]
    BY <1>2 DEF HangUp, Leave
  <2>2. Closing(wire[c], "agent", how).manager = wire[c].manager
    BY <1>0, ClosingEnd
  <2> QED BY <1>0, <2>1, <2>2
<1>3. ASSUME Tick, NEW d \in Conns PROVE wire'[d].manager = wire[d].manager
  BY <1>0, <1>3 DEF Tick, Wire
<1>4. ASSUME NEW c \in Conns PROVE Shut(c)[c].manager = "closed"
  BY <1>0, ClosingEnd DEF Shut
<1>5. ASSUME NEW c \in Conns, NEW d \in Conns, c # d PROVE Shut(c)[d] = wire[d]
  BY <1>0, <1>5 DEF Shut
<1> QED BY <1>1, <1>2, <1>3, <1>4, <1>5 DEF AgentStep

-----------------------------------------------------------------------------
(***************************************************************************)
(* The connection that is listed.                                          *)
(***************************************************************************)

\* The Manager closes a connection before register only when its handler ends.
OpenInv ==
  \A c \in Conns : handler[c] \notin Serving \cup {"none"} => wire[c].manager = "open"

ListedInv == ListedIsServed /\ OpenInv

LEMMA ListedStep == TypeOK /\ ListedInv /\ [Next]_vars => ListedInv'
<1> SUFFICES ASSUME TypeOK, ListedInv, [Next]_vars PROVE ListedInv'
  OBVIOUS
<1>0. /\ wire \in [Conns -> Wire] /\ DOMAIN handler = Conns
      /\ \A c \in Conns : wire[c] \in Wire
      /\ conns \in Conns \cup {None} /\ None \notin Conns
  BY WireIs, GatewayAssumption DEF TypeOK
<1>u. ASSUME UNCHANGED <<handler, conns>>,
             \A d \in Conns : wire'[d].manager = wire[d].manager
      PROVE  ListedInv'
  BY <1>u DEF ListedInv, ListedIsServed, OpenInv
<1>1. ASSUME NEW c \in Conns, Dial(c) PROVE ListedInv'
  <2>1. wire'[c].manager = "open" /\ handler'[c] = "hello" /\ handler[c] = "none"
    BY <1>1, <1>0 DEF Dial, Free
  <2>2. \A d \in Conns \ {c} : wire'[d] = wire[d] /\ handler'[d] = handler[d]
    BY <1>1, <1>0 DEF Dial
  <2>3. conns' = conns
    BY <1>1 DEF Dial, tables
  <2> QED BY <2>1, <2>2, <2>3 DEF ListedInv, ListedIsServed, OpenInv, Serving
<1>2. ASSUME NEW c \in Conns, AgentStep(c) \/ Leave(c) \/ Write(c) PROVE ListedInv'
  <2>1. UNCHANGED <<handler, conns>>
    BY <1>2 DEF AgentStep, Sign, Accepted, Receive, HangUp, Leave, Write, tables
  <2> QED BY <1>2, <1>u, <2>1, ManagerEnd
<1>3. ASSUME NEW c \in Conns, HandlerStep(c) PROVE ListedInv'
  <2>0. \A d \in Conns \ {c} : handler'[d] = handler[d]
    BY <1>3, <1>0 DEF HandlerStep, To, Greet, Accept, Reject, GiveUp, DeleteChallenge,
                      Register, MarkSeen, Heartbeat, Unregister
  <2>1. CASE Greet(c) \/ Accept(c) \/ DeleteChallenge(c) \/ MarkSeen(c) \/ Heartbeat(c)
    <3>1. \A d \in Conns : wire'[d].manager = wire[d].manager
      <4>1. \/ wire' = wire
            \/ \E u, v : \/ wire' = [wire EXCEPT ![c].up = u]
                        \/ wire' = [wire EXCEPT ![c].up = u, ![c].down = v]
        BY <2>1 DEF Greet, Accept, DeleteChallenge, MarkSeen, Heartbeat
      <4> QED BY <4>1, Carried
    <3>2. conns' = conns
      BY <2>1 DEF Greet, Accept, DeleteChallenge, MarkSeen, Heartbeat, tables
    <3>3. \/ handler[c] \in Serving /\ handler'[c] \in Serving
          \/ /\ handler[c] \notin Serving \cup {"none"}
             /\ handler'[c] \notin Serving \cup {"none"}
      BY <2>1, <1>0 DEF Greet, Accept, DeleteChallenge, MarkSeen, Heartbeat, To, Serving
    <3> QED BY <2>0, <3>1, <3>2, <3>3 DEF ListedInv, ListedIsServed, OpenInv
  <2>2. CASE Reject(c) \/ GiveUp(c)
    <3>1. wire' = Shut(c) /\ conns' = conns /\ handler'[c] = "none" /\ handler[c] \in Greeting
      BY <2>2, <1>0 DEF Reject, GiveUp, To, tables, Greeting
    <3>2. wire'[c].manager = "closed" /\ \A d \in Conns \ {c} : wire'[d] = wire[d]
      BY <3>1, ManagerEnd
    <3> QED BY <2>0, <3>1, <3>2 DEF ListedInv, ListedIsServed, OpenInv, Serving, Greeting
  <2>3. CASE Unregister(c)
    <3>1. /\ wire' = Shut(c) /\ handler'[c] = "none" /\ handler[c] \in Serving
          /\ conns' = IF conns = c THEN None ELSE conns
      BY <2>3, <1>0 DEF Unregister, Unlisted, To, Serving
    <3>2. wire'[c].manager = "closed" /\ \A d \in Conns \ {c} : wire'[d] = wire[d]
      BY <3>1, ManagerEnd
    <3> QED BY <1>0, <2>0, <3>1, <3>2 DEF ListedInv, ListedIsServed, OpenInv, Serving
  <2>4. CASE Register(c)
    <3>1. /\ conns' = c /\ handler'[c] = "registered" /\ handler[c] = "deleted"
          /\ wire' = IF conns = None THEN wire ELSE Shut(conns)
      BY <2>4, <1>0 DEF Register, Listed, To
    <3>2. wire[c].manager = "open" /\ conns # c
      BY <3>1 DEF ListedInv, ListedIsServed, OpenInv, Serving
    <3>3. \A d \in Conns : IF d = conns THEN wire'[d].manager = "closed" ELSE wire'[d] = wire[d]
      BY <1>0, <3>1, ManagerEnd
    <3>4. conns \in Conns => handler[conns] \in Serving
      BY DEF ListedInv, ListedIsServed
    <3> QED BY <2>0, <3>1, <3>2, <3>3, <3>4 DEF ListedInv, ListedIsServed, OpenInv, Serving
  <2> QED BY <1>3, <2>1, <2>2, <2>3, <2>4 DEF HandlerStep
<1>4. ASSUME \/ \E t \in Tasks : Lookup(t)
             \/ \E c \in Conns : Acknowledge(c) \/ WriteFails(c)
             \/ Enqueue \/ QueueFull \/ Sweep \/ UNCHANGED vars
      PROVE  ListedInv'
  BY <1>4, <1>u DEF Lookup, Acknowledge, WriteFails, Enqueue, QueueFull, Sweep, vars, tables
<1>5. CASE Tick
  <2>1. UNCHANGED <<handler, conns>>
    BY <1>5 DEF Tick, tables
  <2> QED BY <1>5, <1>u, <2>1, ManagerEnd
<1>6. CASE Restart
  <2>1. /\ conns' = None /\ \A d \in Conns : handler'[d] = "none"
    BY <1>6 DEF Restart
  <2> QED BY <1>0, <2>1 DEF ListedInv, ListedIsServed, OpenInv, Serving
<1> QED BY <1>1, <1>2, <1>3, <1>4, <1>5, <1>6 DEF Next

\* The connection that tasks are sent to is the one that is served, and open.
THEOREM ListedCorrect == Spec => []ListedIsServed
<1>1. Init => ListedInv
  BY GatewayAssumption DEF Init, ListedInv, ListedIsServed, OpenInv, Serving
<1> QED BY <1>1, TypeCorrect, ListedStep, PTL DEF Spec, ListedInv
-----------------------------------------------------------------------------
(***************************************************************************)
(* The status and the heartbeats.                                          *)
(***************************************************************************)
Past == {"accepted", "deleted"} \cup Serving

\* The Agent's connection is open at both ends.
Live == agent.pc # "down" /\ wire[agent.conn].manager = "open"

\* How far the handshake is at the Agent (pc) and at the Manager (h), with u and d
\* messages in flight.
Stage(pc, h, u, d) ==
  \/ pc = "greeted" /\ h = "hello"  /\ u = 1 /\ d = 0
  \/ pc = "greeted" /\ h = "signed" /\ u = 0 /\ d = 1
  \/ pc = "signed"  /\ h = "signed" /\ u = 1 /\ d = 0
  \/ pc = "signed"  /\ h \in Past   /\ u = 0 /\ d > 0
  \/ pc = "up"      /\ h \in Past   /\ u = 0
  \/ pc = "up"      /\ h = "reading" /\ u = 1

\* The Agent does not leave its connection open at its end; the two sides are at the
\* same stage; a machine whose last heartbeat was noted is online, and at most one period
\* has passed since then, the one whose heartbeat is in flight.
LiveInv ==
  /\ agent.pc # "down" => wire[agent.conn].agent = "open"
  /\ Live => Stage(agent.pc, handler[agent.conn],
                   Len(wire[agent.conn].up), Len(wire[agent.conn].down))
  /\ Live /\ handler[agent.conn] = "reading" /\ ~missed =>
       row.status = "online" /\ row.age <= Len(wire[agent.conn].up)

\* A period of silence beyond the threshold does not end without a sweep.
SilentInv ==
  /\ swept /\ Silent => row.status = "offline"
  /\ row.age = Late => row.status = "offline"

StatusInv == LiveInv /\ SilentInv

\* markSeen notes a heartbeat, or the history says that the Agent's was not noted.
LEMMA SeenOrMissed ==
  ASSUME NEW c \in Conns, Seen(c)
  PROVE  /\ \/ row' = row /\ (missed => missed')
            \/ row' = [status |-> "online", age |-> 0]
         /\ agent.conn = c => missed' \/ row' = [status |-> "online", age |-> 0]
  BY Zenon DEF Seen

\* A step of another connection leaves the Agent's one alone, or closes the Manager's end
\* of it.
LEMMA Elsewhere ==
  ASSUME TypeOK, LiveInv, agent' = agent,
         agent.pc # "down" =>
           \/ /\ wire'[agent.conn] = wire[agent.conn]
              /\ handler'[agent.conn] = handler[agent.conn]
           \/ /\ wire'[agent.conn].agent = "open"
              /\ wire'[agent.conn].manager = "closed",
         \/ row' = row /\ (missed => missed')
         \/ row' = [status |-> "online", age |-> 0]
  PROVE  LiveInv'
<1>1. CASE agent.pc = "down"
  BY <1>1 DEF LiveInv, Live
<1>2. CASE agent.pc # "down" /\ wire'[agent.conn] # wire[agent.conn]
  BY <1>2 DEF LiveInv, Live
<1>3. CASE agent.pc # "down" /\ wire'[agent.conn] = wire[agent.conn]
                            /\ handler'[agent.conn] # handler[agent.conn]
  BY <1>3 DEF LiveInv, Live
<1>4. CASE /\ agent.pc # "down" /\ wire'[agent.conn] = wire[agent.conn]
           /\ handler'[agent.conn] = handler[agent.conn]
  <2>1. agent.conn \in Conns /\ Len(wire[agent.conn].up) \in Nat
    BY <1>4 DEF TypeOK, Down
  <2>2. \/ row'.status = "online" /\ row'.age <= Len(wire[agent.conn].up)
        \/ row' = row
    BY <2>1
  <2> QED BY <1>4, <2>2 DEF LiveInv, Live
<1> QED BY <1>1, <1>2, <1>3, <1>4

LEMMA SilentStep == TypeOK /\ SilentInv /\ [Next]_vars => SilentInv'
<1> SUFFICES ASSUME TypeOK, SilentInv, [Next]_vars PROVE SilentInv'
  OBVIOUS
<1>0. /\ row \in [status : {"online", "offline"}, age : 0..Late]
      /\ Threshold \in Nat \ {0} /\ Late = Threshold + 2
  BY GatewayAssumption DEF TypeOK, Late
<1>1. CASE Sweep
  <2>1. row' = [row EXCEPT !.status = IF Silent THEN "offline" ELSE row.status]
    BY <1>1 DEF Sweep
  <2>2. row'.age = row.age /\ row'.status = IF Silent THEN "offline" ELSE row.status
    BY <1>0, <2>1
  <2> QED BY <1>0, <2>2 DEF SilentInv, Silent, Late
<1>2. CASE Tick
  <2>1. /\ swept /\ ~swept' /\ row'.status = row.status
        /\ row'.age = IF row.age < Late THEN row.age + 1 ELSE row.age
    BY <1>0, <1>2 DEF Tick
  <2> QED BY <1>0, <2>1 DEF SilentInv, Silent, Late
<1>3. CASE row' = [status |-> "online", age |-> 0] /\ swept' = swept
  BY <1>0, <1>3 DEF SilentInv, Silent, Late
<1>4. CASE row' = row /\ swept' = swept
  BY <1>4 DEF SilentInv, Silent, Late
<1>5. CASE \E c \in Conns : HandlerStep(c)
  BY <1>3, <1>4, <1>5 DEF HandlerStep, Greet, Accept, Reject, GiveUp, DeleteChallenge,
                         Register, MarkSeen, Heartbeat, Unregister, Seen, time
<1>6. CASE \E c \in Conns : Dial(c) \/ AgentStep(c) \/ Leave(c) \/ Write(c)
                           \/ Acknowledge(c) \/ WriteFails(c)
  BY <1>4, <1>6 DEF Dial, AgentStep, Sign, Accepted, Receive, HangUp, Leave, Write,
                    Acknowledge, WriteFails, time
<1>7. CASE \/ \E t \in Tasks : Lookup(t)
           \/ Enqueue \/ QueueFull \/ Restart \/ UNCHANGED vars
  BY <1>4, <1>7 DEF Lookup, Enqueue, QueueFull, Restart, vars, time
<1> QED BY <1>1, <1>2, <1>5, <1>6, <1>7 DEF Next

LEMMA LiveStep == TypeOK /\ ListedInv /\ StatusInv /\ [Next]_vars => LiveInv'
<1> SUFFICES ASSUME TypeOK, ListedInv, StatusInv, [Next]_vars PROVE LiveInv'
  OBVIOUS
<1>0. /\ wire \in [Conns -> Wire] /\ DOMAIN handler = Conns
      /\ \A c \in Conns : wire[c] \in Wire
      /\ agent.pc # "down" => agent.conn \in Conns
      /\ agent.pc = "down" => agent = Down
      /\ LiveInv
  BY WireIs DEF TypeOK, StatusInv, Down
<1>l. \A c \in Conns :
        /\ wire[c].up \in Seq(Messages) /\ wire[c].down \in Seq(Messages)
        /\ Len(wire[c].up) \in Nat /\ Len(wire[c].down) \in Nat
        /\ wire[c].up # <<>> => Len(Tail(wire[c].up)) = Len(wire[c].up) - 1
        /\ wire[c].down # <<>> => Len(Tail(wire[c].down)) = Len(wire[c].down) - 1
        /\ \A m : /\ Len(Append(wire[c].down, m)) = Len(wire[c].down) + 1
                  /\ Len(Append(wire[c].up, m)) = Len(wire[c].up) + 1
        /\ wire[c].up # <<>> <=> Len(wire[c].up) > 0
        /\ wire[c].down # <<>> <=> Len(wire[c].down) > 0
  BY <1>0, Channel DEF Wire
<1>d. ASSUME agent' = Down PROVE LiveInv'
  BY <1>d DEF LiveInv, Live, Down
<1>1. ASSUME NEW c \in Conns, Dial(c) PROVE LiveInv'
  <2>1. /\ agent'.pc = "greeted" /\ agent'.conn = c /\ handler'[c] = "hello"
        /\ wire'[c] = [agent |-> "open", manager |-> "open", up |-> <<"hello">>, down |-> <<>>]
    BY <1>0, <1>1 DEF Dial, Down
  <2> QED BY <2>1 DEF LiveInv, Live, Stage
<1>2. ASSUME NEW c \in Conns, AgentStep(c) \/ Leave(c) PROVE LiveInv'
  <2>1. CASE HangUp(c) \/ Leave(c)
    BY <1>d, <2>1 DEF HangUp, Leave
  <2>2. CASE Sign(c)
    <3>1. /\ agent.pc = "greeted" /\ agent.conn = c /\ wire[c].down # <<>>
          /\ agent'.pc = "signed" /\ agent'.conn = c /\ handler' = handler
      BY <2>2, <1>0 DEF Sign, Arrived, TypeOK
    <3>2. /\ wire'[c].agent = wire[c].agent /\ wire'[c].manager = wire[c].manager
          /\ wire'[c].up = Append(wire[c].up, "signed") /\ wire'[c].down = Tail(wire[c].down)
      BY <2>2, <1>0 DEF Sign, Wire
    <3> QED BY <3>1, <3>2, <1>0, <1>l DEF LiveInv, Live, Stage
  <2>3. CASE Accepted(c)
    <3>1. /\ agent.pc = "signed" /\ agent.conn = c /\ wire[c].down # <<>>
          /\ agent'.pc = "up" /\ agent'.conn = c /\ UNCHANGED <<handler, row, missed>>
      BY <2>3, <1>0 DEF Accepted, Arrived, TypeOK, time
    <3>2. /\ wire'[c].agent = wire[c].agent /\ wire'[c].manager = wire[c].manager
          /\ wire'[c].up = wire[c].up
      BY <2>3, <1>0 DEF Accepted, Wire
    <3> QED BY <3>1, <3>2, <1>0, <1>l DEF LiveInv, Live, Stage
  <2>4. CASE Receive(c)
    <3>1. agent.pc = "up" /\ agent.conn = c /\ UNCHANGED <<agent, handler, row, missed>>
      BY <2>4 DEF Receive, time
    <3>2. /\ wire'[c].agent = wire[c].agent /\ wire'[c].manager = wire[c].manager
          /\ wire'[c].up = wire[c].up
      BY <2>4, <1>0 DEF Receive, Wire
    <3> QED BY <3>1, <3>2, <1>0, <1>l DEF LiveInv, Live, Stage
  <2> QED BY <1>2, <2>1, <2>2, <2>3, <2>4 DEF AgentStep
<1>s. agent.pc # "down" =>
        /\ Closing(wire[agent.conn], "manager", "closed").agent = "open"
        /\ Closing(wire[agent.conn], "manager", "closed").manager = "closed"
        /\ Shut(agent.conn)[agent.conn].agent = "open"
        /\ Shut(agent.conn)[agent.conn].manager = "closed"
  <2> SUFFICES ASSUME agent.pc # "down"
               PROVE  /\ Closing(wire[agent.conn], "manager", "closed").agent = "open"
                      /\ Closing(wire[agent.conn], "manager", "closed").manager = "closed"
    BY <1>0 DEF Shut
  <2>1. wire[agent.conn] \in Wire /\ wire[agent.conn].agent = "open"
    BY <1>0 DEF LiveInv
  <2>2. Closing(wire[agent.conn], "manager", "closed") =
          [wire[agent.conn] EXCEPT !.manager = "closed"]
    BY <2>1, ClosingEnd
  <2> QED BY <2>1, <2>2 DEF Wire
<1>3. ASSUME NEW c \in Conns, HandlerStep(c), agent.pc = "down" \/ agent.conn # c
      PROVE  LiveInv'
  <2>1. /\ agent' = agent
        /\ \/ row' = row /\ (missed => missed')
           \/ row' = [status |-> "online", age |-> 0]
    <3>1. agent' = agent /\ (UNCHANGED time \/ Seen(c))
      BY <1>3 DEF HandlerStep, Greet, Accept, Reject, GiveUp, DeleteChallenge, Register,
                  MarkSeen, Heartbeat, Unregister
    <3> QED BY <3>1, SeenOrMissed DEF time
  <2>2. agent.pc # "down" => handler'[agent.conn] = handler[agent.conn]
    BY <1>0, <1>3 DEF HandlerStep, To, Greet, Accept, Reject, GiveUp, DeleteChallenge,
                      Register, MarkSeen, Heartbeat, Unregister
  <2>3. agent.pc # "down" =>
          \/ wire'[agent.conn] = wire[agent.conn]
          \/ wire'[agent.conn].agent = "open" /\ wire'[agent.conn].manager = "closed"
    <3> SUFFICES ASSUME agent.pc # "down"
                 PROVE  \/ wire'[agent.conn] = wire[agent.conn]
                        \/ /\ wire'[agent.conn].agent = "open"
                           /\ wire'[agent.conn].manager = "closed"
      OBVIOUS
    <3>1. CASE Register(c)
      BY SMTT(30), <1>0, <1>s, <3>1, ManagerEnd DEF Register, TypeOK
    <3>2. CASE Reject(c) \/ GiveUp(c) \/ Unregister(c)
      BY <1>0, <1>3, <3>2, ManagerEnd DEF Reject, GiveUp, Unregister
    <3>3. CASE Greet(c) \/ Accept(c) \/ DeleteChallenge(c) \/ MarkSeen(c) \/ Heartbeat(c)
      <4>1. \/ wire' = wire
            \/ \E u, v : \/ wire' = [wire EXCEPT ![c].up = u]
                        \/ wire' = [wire EXCEPT ![c].up = u, ![c].down = v]
        BY <3>3 DEF Greet, Accept, DeleteChallenge, MarkSeen, Heartbeat
      <4> QED BY <1>0, <1>3, <4>1, Carried
    <3> QED BY <1>3, <3>1, <3>2, <3>3 DEF HandlerStep
  <2> QED BY <1>0, <2>1, <2>2, <2>3, Elsewhere
<1>4. ASSUME NEW c \in Conns, HandlerStep(c), agent.pc # "down", agent.conn = c
      PROVE  LiveInv'
  <2>1. agent' = agent
    BY <1>4 DEF HandlerStep, Greet, Accept, Reject, GiveUp, DeleteChallenge, Register,
                MarkSeen, Heartbeat, Unregister
  <2>2. CASE Reject(c) \/ GiveUp(c) \/ Unregister(c)
    <3>1. wire'[c].agent = "open" /\ wire'[c].manager = "closed"
      BY <1>4, <1>s, <2>2 DEF Reject, GiveUp, Unregister
    <3> QED BY <1>4, <2>1, <3>1 DEF LiveInv, Live
  <2>3. CASE Greet(c)
    <3>1. /\ handler[c] = "hello" /\ wire[c].up # <<>> /\ handler'[c] = "signed" /\ row' = row
      BY <1>0, <2>3 DEF Greet, Arrived, To, time
    <3>2. /\ wire'[c].agent = wire[c].agent /\ wire'[c].manager = wire[c].manager
          /\ wire'[c].up = Tail(wire[c].up)
          /\ wire'[c].down = Append(wire[c].down, "challenge")
      BY <1>0, <2>3 DEF Greet, Wire
    <3>3. /\ Len(wire'[c].up) = Len(wire[c].up) - 1 /\ Len(wire[c].up) \in Nat
          /\ Len(wire'[c].down) = Len(wire[c].down) + 1 /\ Len(wire[c].down) \in Nat
      BY <1>l, <3>1, <3>2
    <3>4. Live' = Live
      BY <1>4, <2>1, <3>2 DEF Live
    <3>5. Live => agent.pc = "greeted" /\ Len(wire[c].up) = 1 /\ Len(wire[c].down) = 0
      BY <1>0, <1>4, <1>l, <3>1 DEF LiveInv, Stage, Past, Serving
    <3>6. Live => Stage(agent.pc, handler'[c], Len(wire'[c].up), Len(wire'[c].down))
      BY <3>1, <3>3, <3>5 DEF Stage, Past, Serving
    <3>7. wire'[c].agent = "open"
      BY <1>0, <1>4, <3>2 DEF LiveInv
    <3> QED BY <1>4, <2>1, <3>1, <3>3, <3>4, <3>5, <3>6, <3>7 DEF LiveInv
  <2>4. CASE Accept(c)
    <3>1. /\ handler[c] = "signed" /\ wire[c].up # <<>> /\ handler'[c] = "accepted" /\ row' = row
      BY <1>0, <2>4 DEF Accept, Arrived, To, time
    <3>2. /\ wire'[c].agent = wire[c].agent /\ wire'[c].manager = wire[c].manager
          /\ wire'[c].up = Tail(wire[c].up)
          /\ wire'[c].down = Append(wire[c].down, "accepted")
      BY <1>0, <2>4 DEF Accept, Wire
    <3>3. /\ Len(wire'[c].up) = Len(wire[c].up) - 1 /\ Len(wire[c].up) \in Nat
          /\ Len(wire'[c].down) = Len(wire[c].down) + 1 /\ Len(wire[c].down) \in Nat
      BY <1>l, <3>1, <3>2
    <3>4. Live' = Live
      BY <1>4, <2>1, <3>2 DEF Live
    <3>5. Live => agent.pc = "signed" /\ Len(wire[c].up) = 1 /\ Len(wire[c].down) = 0
      BY <1>0, <1>4, <1>l, <3>1 DEF LiveInv, Stage, Past, Serving
    <3>6. Live => Stage(agent.pc, handler'[c], Len(wire'[c].up), Len(wire'[c].down))
      BY <3>1, <3>3, <3>5 DEF Stage, Past, Serving
    <3>7. wire'[c].agent = "open"
      BY <1>0, <1>4, <3>2 DEF LiveInv
    <3> QED BY <1>4, <2>1, <3>1, <3>3, <3>4, <3>5, <3>6, <3>7 DEF LiveInv
  <2>5. CASE DeleteChallenge(c) \/ Register(c)
    <3>1. /\ handler[c] \in {"accepted", "deleted"} /\ handler'[c] \in {"deleted", "registered"}
          /\ row' = row
      BY <1>0, <2>5 DEF DeleteChallenge, Register, To, time
    <3>2. wire'[c] = wire[c]
      <4>1. conns = None \/ conns \in Conns \ {c}
        BY <3>1 DEF TypeOK, ListedInv, ListedIsServed, Serving
      <4> QED BY <2>5, <4>1, ManagerEnd DEF DeleteChallenge, Register
    <3> QED BY <1>0, <1>4, <2>1, <3>1, <3>2 DEF LiveInv, Live, Stage, Past, Serving
  <2>6. CASE MarkSeen(c)
    <3>1. /\ handler[c] = "registered" /\ handler'[c] = "reading" /\ wire' = wire
          /\ missed' \/ (row'.status = "online" /\ row'.age = 0)
      BY <1>0, <1>4, <2>6, SeenOrMissed DEF MarkSeen, To
    <3> QED BY <1>0, <1>4, <1>l, <2>1, <3>1 DEF LiveInv, Live, Stage, Past, Serving
  <2>7. CASE Heartbeat(c)
    <3>1. /\ handler[c] = "reading" /\ handler' = handler /\ wire[c].up # <<>>
          /\ missed' \/ (row'.status = "online" /\ row'.age = 0)
      BY <1>0, <1>4, <2>7, SeenOrMissed DEF Heartbeat, Arrived
    <3>2. /\ wire'[c].agent = wire[c].agent /\ wire'[c].manager = wire[c].manager
          /\ wire'[c].up = Tail(wire[c].up) /\ wire'[c].down = wire[c].down
      BY <1>0, <2>7 DEF Heartbeat, Wire
    <3>3. /\ Len(wire'[c].up) = Len(wire[c].up) - 1 /\ Len(wire[c].up) \in Nat
          /\ Len(wire'[c].down) = Len(wire[c].down) /\ Len(wire[c].down) \in Nat
      BY <1>l, <3>1, <3>2
    <3>4. Live' = Live
      BY <1>4, <2>1, <3>2 DEF Live
    <3>5. Live => agent.pc = "up" /\ Len(wire[c].up) = 1
      BY <1>0, <1>4, <1>l, <3>1 DEF LiveInv, Stage, Past, Serving
    <3>6. Live => Stage(agent.pc, handler'[c], Len(wire'[c].up), Len(wire'[c].down))
      BY <3>1, <3>3, <3>5 DEF Stage, Past, Serving
    <3>7. wire'[c].agent = "open"
      BY <1>0, <1>4, <3>2 DEF LiveInv
    <3>8. Live => missed' \/ (row'.status = "online" /\ row'.age <= Len(wire'[c].up))
      BY <3>1, <3>3, <3>5
    <3> QED BY <1>4, <2>1, <3>4, <3>6, <3>7, <3>8 DEF LiveInv
  <2> QED BY <1>4, <2>2, <2>3, <2>4, <2>5, <2>6, <2>7 DEF HandlerStep
<1>5. ASSUME NEW c \in Conns, Write(c) PROVE LiveInv'
  <2>1. /\ handler[c] \in Serving /\ UNCHANGED <<agent, handler, row, missed>>
        /\ wire' = [wire EXCEPT ![c].down = Append(wire[c].down, Head(queue[c]))]
    BY <1>5 DEF Write, Writes, time
  <2>2. CASE agent.pc = "down" \/ agent.conn # c
    <3>1. agent.pc # "down" => wire'[agent.conn] = wire[agent.conn]
      BY <1>0, <2>1, <2>2, Carried
    <3> QED BY <1>0, <2>1, <3>1, Elsewhere
  <2>3. CASE agent.pc # "down" /\ agent.conn = c
    <3>1. /\ wire'[c].agent = wire[c].agent /\ wire'[c].manager = wire[c].manager
          /\ wire'[c].up = wire[c].up
          /\ wire'[c].down = Append(wire[c].down, Head(queue[c]))
      BY <1>0, <2>1 DEF Wire
    <3> QED BY <1>0, <1>l, <2>1, <2>3, <3>1 DEF LiveInv, Live, Stage, Past, Serving
  <2> QED BY <2>2, <2>3
<1>6. ASSUME \/ \E t \in Tasks : Lookup(t)
             \/ \E c \in Conns : Acknowledge(c) \/ WriteFails(c)
             \/ Enqueue \/ QueueFull \/ UNCHANGED vars
      PROVE  LiveInv'
  <2>1. UNCHANGED <<agent, wire, handler, row, missed>>
    BY <1>6 DEF Lookup, Acknowledge, WriteFails, Enqueue, QueueFull, vars, time
  <2> QED BY <1>0, <2>1, Elsewhere
<1>7. CASE Sweep
  <2>1. /\ UNCHANGED <<agent, wire, handler, missed>> /\ row'.age = row.age
        /\ row'.status = IF Silent THEN "offline" ELSE row.status
    BY <1>7 DEF Sweep, TypeOK
  <2>2. Live /\ handler[agent.conn] = "reading" /\ ~missed => ~Silent
    <3> SUFFICES ASSUME Live, handler[agent.conn] = "reading", ~missed PROVE ~Silent
      OBVIOUS
    <3>1. /\ Len(wire[agent.conn].up) = 0 \/ Len(wire[agent.conn].up) = 1
          /\ row.age <= Len(wire[agent.conn].up)
      BY <1>0 DEF LiveInv, Stage
    <3>2. row.age \in Nat /\ Threshold \in Nat \ {0}
      BY GatewayAssumption DEF TypeOK, Late
    <3>3. row.age <= 1
      <4> DEFINE k == Len(wire[agent.conn].up)
      <4>1. (k = 0 \/ k = 1) /\ row.age <= k
        BY <3>1
      <4> HIDE DEF k
      <4> QED BY <3>2, <4>1
    <3>4. Threshold >= 1
      BY <3>2
    <3>5. ~(row.age > Threshold)
      BY <3>2, <3>3, <3>4
    <3> QED BY <3>5 DEF Silent
  <2> QED BY <1>0, <2>1, <2>2 DEF LiveInv, Live
<1>8. CASE Tick
  <2>1. /\ UNCHANGED <<agent, handler>> /\ row'.status = row.status
        /\ row'.age = IF row.age < Late THEN row.age + 1 ELSE row.age
    BY <1>8 DEF Tick, TypeOK
  <2>2. CASE agent.pc = "up"
    <3>1. /\ handler[agent.conn] = "reading"
          /\ (wire[agent.conn].up = <<>> /\ (missed => missed')) \/ missed'
          /\ wire[agent.conn].manager = "open"
          /\ wire'[agent.conn].up = <<"beat">>
          /\ wire'[agent.conn].agent = wire[agent.conn].agent
          /\ wire'[agent.conn].manager = wire[agent.conn].manager
      BY <1>0, <1>8, <2>2 DEF Tick, Wire
    <3>2. /\ Len(wire'[agent.conn].up) = 1
          /\ (Len(wire[agent.conn].up) = 0 /\ (missed => missed')) \/ missed'
      BY <3>1
    <3>3. row.age \in Nat /\ Late \in Nat
      BY GatewayAssumption DEF TypeOK, Late
    <3> QED BY <1>0, <2>1, <2>2, <3>1, <3>2, <3>3 DEF LiveInv, Live, Stage, Past, Serving
  <2>3. CASE agent.pc # "up"
    <3>1. wire' = wire /\ (agent.pc # "down" => wire[agent.conn].down = <<>>)
      BY <1>8, <2>3 DEF Tick
    <3>2. ~(Live /\ handler[agent.conn] = "reading")
      BY <1>0, <1>l, <2>3, <3>1 DEF LiveInv, Live, Stage
    <3> QED BY <1>0, <2>1, <3>1, <3>2 DEF LiveInv, Live
  <2> QED BY <2>2, <2>3
<1>9. CASE Restart
  <2>1. /\ agent' = agent /\ row' = row /\ missed' = missed
        /\ agent.pc # "down" =>
             wire'[agent.conn] = Closing(wire[agent.conn], "manager", "closed")
    BY <1>0, <1>9 DEF Restart, time
  <2> QED BY <1>0, <1>s, <2>1, Elsewhere
<1> QED
  BY <1>1, <1>2, <1>3, <1>4, <1>5, <1>6, <1>7, <1>8, <1>9 DEF Next

\* A machine whose Agent's last heartbeat was noted in its period is online, and one that
\* has been silent through the threshold is not, after any reconnections and faults.
THEOREM StatusCorrect == Spec => []StatusFollowsHeartbeat
<1>1. Init => StatusInv
  BY GatewayAssumption DEF Init, StatusInv, LiveInv, SilentInv, Live, Down, Late, Silent
<1>2. TypeOK /\ ListedInv /\ StatusInv /\ [Next]_vars => StatusInv'
  BY LiveStep, SilentStep DEF StatusInv
<1>3. Init => ListedInv
  BY GatewayAssumption DEF Init, ListedInv, ListedIsServed, OpenInv, Serving
<1>4. TypeOK /\ StatusInv => StatusFollowsHeartbeat
  BY DEF StatusInv, LiveInv, SilentInv, Live, StatusFollowsHeartbeat
<1> QED BY <1>1, <1>2, <1>3, <1>4, TypeCorrect, ListedStep, PTL DEF Spec
=============================================================================
