-------------------------- MODULE SessionProperties --------------------------
(***************************************************************************)
(* What makes a session correct.  The numbers of a session are 16 bits on  *)
(* the wire and int in both programs; the properties are about sessions in *)
(* which they have not outgrown the wire, SeqInRange and ElevInRange.      *)
(***************************************************************************)
EXTENDS Session

\* Every number used so far is one the codec carries unchanged.
SeqInRange == seqNum <= SignLimit
ElevInRange == elevSeq <= SignLimit

-----------------------------------------------------------------------------
\* Types of the variables of Session: a buffer never holds a message without a
\* number, a thread never has more than one command built and not yet sent.
TypeOK ==
  /\ seqNum \in Nat \ {0}
  /\ outgoing \in [Threads -> Seq(CommandMsg)]
  /\ \A t \in Threads : Len(outgoing[t]) <= 1
  /\ todo \in Seq(Items)
  /\ elevReqId \in Nat
  /\ lastProcessedAckNum \in Nat
  /\ responseMessageBuffer \subseteq Response
  /\ lastProcessedSeqNum \in Nat
  /\ requestMessageBuffer \subseteq CommandMsg
  /\ elevSeq \in Nat \ {0, 1}
  /\ elevPc \in {"recv", "insert", "spoiled", "send"}
  /\ receivedPacket \in Packets \cup {NoPacket}
  /\ elevPc # "recv" => receivedPacket \in Packets
  /\ DOMAIN elevationPackets \subseteq Nat
  /\ \A e \in DOMAIN elevationPackets : elevationPackets[e] \in Packets
  /\ raced \in BOOLEAN
  /\ toAgent \in Seq(CommandMsg \cup ElevResponse)
  /\ toController \in Seq(Response \cup ElevRequest)
  /\ issued \in Seq(Command)
  /\ executed \in Seq(Command)
  /\ shown \in Seq(Command)
  /\ captured \in Seq(Packets)
  /\ resolved \in Seq(Resolution)

-----------------------------------------------------------------------------
(* Commands *)

Service == INSTANCE CommandService WITH reported <- shown

\* However sendCommand's callers and the sends interleave, the reordering on
\* both sides gives back the order of the numbers: the session implements
\* CommandService, its fairness included.
SequencedCommands == Service!Spec

\* The safety half of it, for runs without a temporal part.
InOrder == Service!SafeSpec

\* A message carries the command that was given its number, a response the
\* command that was executed under its number.
NumberedRight(m) == m.seq \in DOMAIN issued /\ m.cmd = issued[m.seq]
AnswersRight(m) == m.ack \in DOMAIN executed /\ m.cmd = executed[m.ack]

NumberedCommands ==
  /\ Len(issued) = seqNum - 1
  /\ \A t \in Threads : outgoing[t] # <<>> => NumberedRight(Head(outgoing[t]))
  /\ \A i \in DOMAIN toAgent : toAgent[i].seq # 0 => NumberedRight(toAgent[i])
  /\ \A m \in requestMessageBuffer : NumberedRight(m)

ExecutedInOrder ==
  /\ lastProcessedSeqNum = Len(executed)
  /\ Len(executed) <= Len(issued)
  /\ \A i \in DOMAIN executed : executed[i] = issued[i]

AnsweredCommands ==
  /\ \A i \in DOMAIN toController :
       toController[i].ack # 0 => AnswersRight(toController[i])
  /\ \A m \in responseMessageBuffer : AnswersRight(m)

ShownInOrder ==
  /\ lastProcessedAckNum = Len(shown)
  /\ Len(shown) <= Len(executed)
  /\ \A i \in DOMAIN shown : shown[i] = executed[i]

\* Why the order comes back: numbers and commands stay together on every way
\* they take, and both counters say how far the two sides have come.
SequencingInv ==
  SeqInRange =>
    NumberedCommands /\ ExecutedInOrder /\ AnsweredCommands /\ ShownInOrder

\* How many times a command of this session exists, anywhere.
Copies(c) ==
  LET sentOnce(m) == m \in CommandMsg /\ m.cmd = c IN
    Cardinality({t \in Threads : outgoing[t] # <<>> /\ sentOnce(Head(outgoing[t]))})
  + Cardinality({i \in DOMAIN toAgent : sentOnce(toAgent[i])})
  + Cardinality({m \in requestMessageBuffer : m.cmd = c})
  + Cardinality({i \in DOMAIN executed : executed[i] = c})

\* The numbers that do not arrive as they were sent, or arrive like another one.
Mistaken(n) ==
  \/ OnWire(n) = 0
  \/ \E i \in DOMAIN issued : issued[i].num # n /\ OnWire(issued[i].num) = OnWire(n)

\* No command is lost or doubled between sendCommand's lock, the socket, the
\* agent's buffer and its execution.  This also holds of the numbers that have
\* outgrown the wire, as long as the agent can tell them apart.
EachCommandInOnePlace ==
  \A i \in DOMAIN issued :
    \/ Copies(issued[i]) = 1
    \/ Copies(issued[i]) = 0 /\ Mistaken(issued[i].num)

\* The agent answers from one thread, in the order it executes: the reordering
\* of responses in processConnectedHost never has anything to reorder.
ResponsesArriveInOrder == SeqInRange => responseMessageBuffer = {}

\* The responses in the queue q have the numbers a + 1, a + 2, ..., n.
Consecutive(q, a, n) ==
  /\ \A i \in DOMAIN q : q[i].ack # 0 =>
       /\ q[i].ack <= n
       /\ \/ q[i].ack = a + 1
          \/ \E j \in 1..(i - 1) : q[j].ack # 0 /\ q[j].ack = q[i].ack - 1
  /\ \A i, j \in DOMAIN q : i < j /\ q[i].ack # 0 /\ q[j].ack # 0 => q[i].ack < q[j].ack
  /\ n = a \/ \E i \in DOMAIN q : q[i].ack # 0 /\ q[i].ack = n

\* Why: the responses on their way go from the one Handler waits for up to the
\* last command executed.
ResponsesInv ==
  SeqInRange =>
    /\ responseMessageBuffer = {}
    /\ Consecutive(toController, lastProcessedAckNum, Len(executed))

-----------------------------------------------------------------------------
(* Elevation *)

IsAnswer(item) == item \in {"retry", "drop"}

\* A record of configDb as it is meant to be: retry or drop once, at the end.
EndsInItsAnswer(s) == \A i \in DOMAIN s : IsAnswer(s[i]) <=> i = Len(s)
RecordsAnswerOnce == \A p \in Packets : EndsInItsAnswer(Plan[p])

\* Where elevation e is: with the agent's elevation thread, on its way to the
\* controller, with Handler, on its way back, or resolved.
Whereabouts(e) ==
    (IF elevPc # "recv" /\ elevSeq = e THEN 1 ELSE 0)
  + Cardinality({i \in DOMAIN toController :
                   toController[i].ack = 0 /\ toController[i].seq = e})
  + (IF elevReqId = e
     THEN Cardinality({i \in DOMAIN todo : IsAnswer(todo[i])}) ELSE 0)
  + Cardinality({i \in DOMAIN toAgent : toAgent[i].ack = e})
  + Cardinality({i \in DOMAIN resolved : resolved[i].elev = e})

\* No elevated packet is forgotten or answered twice on its way through the
\* controller, as long as each record of configDb ends in its only answer.
EachElevationInOnePlace ==
  ElevInRange => \A e \in 2..(Len(captured) + 1) : Whereabouts(e) = 1

\* handleElevationResponse acts on the packet this elevation captured, and the
\* answers come in the order of the packets, unless the two threads of the
\* agent met in elevationPackets.
AnswerFindsItsPacket ==
  ElevInRange /\ ~raced =>
    \A i \in DOMAIN resolved :
      resolved[i].elev = i + 1 /\ resolved[i].packet = captured[i]

\* A packet is in elevationPackets from the time it is stored until its answer
\* is handled: the map neither leaks nor loses an entry.
PacketHeldUntilAnswered ==
  ElevInRange /\ ~raced =>
    DOMAIN elevationPackets =
      { e \in 2..(Len(captured) + 1) :
          /\ e = elevSeq => elevPc = "send"
          /\ \A i \in DOMAIN resolved : resolved[i].elev # e }

\* Commands the record for this packet has for this host.
CommandsFor(p) == Cardinality({i \in DOMAIN Plan[p] : Plan[p][i] = "command"})

\* When an elevation is answered all commands of its record are numbered, and the
\* agent has executed them, but for those that wait for an earlier number: only
\* another thread that sends to this host can leave a packet without its route.
RouteUnlessOvertaken ==
  [][\A i \in DOMAIN resolved' \ DOMAIN resolved :
       LET e == resolved'[i].elev
           ours == {j \in DOMAIN issued : issued[j].elev = e}
       IN  /\ Cardinality(ours) = CommandsFor(captured[e - 1])
           /\ \A j \in ours :
                j > Len(executed) => issued[Len(executed) + 1].elev # e]_vars

\* Every packet that enters the tunnel is resent or dropped in the end, and it
\* is this packet and no other, unless the agent's threads met in the map.
EveryPacketAnswered ==
  \A e \in 2..(MaxElevs + 1) :
    (Len(captured) >= e - 1) ~>
      \E i \in DOMAIN resolved :
        resolved[i].elev = e /\ (resolved[i].packet = captured[e - 1] \/ raced)

-----------------------------------------------------------------------------
\* DESIGN.md:36, "Once the controller is finished, it sends a response to the
\* elevation request": when the agent resends a packet it has executed every
\* command that the controller sent on account of it, and the route is there.
\* Another thread that holds an earlier number breaks this.
RouteBeforeRetry ==
  \A i \in DOMAIN resolved :
    Cardinality({j \in DOMAIN executed : executed[j].elev = resolved[i].elev})
      = CommandsFor(captured[resolved[i].elev - 1])

=============================================================================
