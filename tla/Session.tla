------------------------------- MODULE Session -------------------------------
(***************************************************************************)
(* One authenticated connection between the controller and the agent of    *)
(* one host: the commands the controller numbers and sends, the agent's    *)
(* reordering and execution of them, their responses, and the elevation of *)
(* packets for which the host has no route.                                *)
(*                                                                         *)
(* Threads of the controller: Handler runs processConnectedHost for this   *)
(* host; Others are the console thread and the handlers of other hosts     *)
(* whose configuration names this host.  All of them call sendCommand.     *)
(* Threads of the agent: the command thread (listenForCommands) and the    *)
(* elevation thread (listenForElevation).                                  *)
(*                                                                         *)
(* A send() is one step and TCP is a FIFO queue of whole messages.  The    *)
(* host stays connected; the life cycle of the record in hostDb belongs to *)
(* another module.                                                         *)
(*                                                                         *)
(* A definition named X_Slip is X with a mistake a programmer could make;  *)
(* nothing uses it: it is what a property is expected to notice.           *)
(***************************************************************************)
EXTENDS ProtocolMessage, FiniteSets, Functions

CONSTANTS
  Others,     \* controller threads, other than Handler, that send commands
  Handler,    \* the thread that runs processConnectedHost for this host
  MaxCmds,    \* bound: commands sent by Others
  Packets,    \* packets the tunnel delivers
  NoPacket,   \* the empty string operator[] creates for a missing key
  MaxElevs,   \* bound: packets elevated
  Plan        \* the commands configDb holds for each packet (<<>>: no record)

Threads == Others \cup {Handler}

\* An entry of a record of configDb: a command for this host, one that sends
\* nothing to it (another host's, or refused by processCmd), or an answer.
Items == {"command", "elsewhere", "retry", "drop"}

ASSUME SessionAssumption ==
  /\ Handler \notin Others
  /\ MaxCmds \in Nat
  /\ MaxElevs \in Nat
  /\ NoPacket \notin Packets
  /\ Plan \in [Packets -> Seq(Items)]

VARIABLES
  \* hostDb[host] of the controller and the state of its threads
  seqNum,                 \* number of the next command
  outgoing,               \* [Threads -> the message built and not yet sent]
  todo,                   \* the entries Handler still has to go through
  elevReqId,              \* the elevation request they belong to
  lastProcessedAckNum,
  responseMessageBuffer,
  \* the agent
  lastProcessedSeqNum,
  requestMessageBuffer,
  elevSeq,                \* the agent's own seqNum
  elevPc,                 \* where the elevation thread is
  receivedPacket,         \* the packet it is elevating
  elevationPackets,       \* [sequence number -> packet], shared by its threads
  \* the connection
  toAgent, toController,
  \* history
  issued,                 \* commands, in the order they were numbered
  executed,               \* commands, in the order the agent ran them
  shown,                  \* commands whose response the controller printed
  captured,               \* captured[i] is the packet of elevation i + 1
  resolved,               \* elevations the agent resent or dropped
  raced                   \* both threads of the agent were in the map at once

numbering == <<seqNum, outgoing, issued>>
answering == <<todo, elevReqId>>
reporting == <<lastProcessedAckNum, responseMessageBuffer, shown>>
executing == <<lastProcessedSeqNum, requestMessageBuffer, executed>>
capturing == <<elevSeq, receivedPacket, captured>>
mapping == <<elevPc, elevationPackets, raced>>
vars == <<numbering, answering, reporting, executing, capturing, mapping,
          resolved, toAgent, toController>>

Command == [num : Nat, elev : Nat]
CommandMsg == [seq : Nat, ack : {0}, cmd : Command]
ElevResponse == [seq : {0}, ack : Nat, command : {"retry", "drop"}]
Response == [seq : {0}, ack : Nat, cmd : Command]
ElevRequest == [seq : Nat, ack : {0}, packet : Packets]
Resolution == [elev : Nat, how : {"retry", "drop"}, packet : Packets \cup {NoPacket}]

-----------------------------------------------------------------------------
\* The agent has used number 1 for its authentication request.
Init ==
  /\ seqNum = 1
  /\ outgoing = [t \in Threads |-> <<>>]
  /\ todo = <<>>
  /\ elevReqId = 0
  /\ lastProcessedAckNum = 0
  /\ responseMessageBuffer = {}
  /\ lastProcessedSeqNum = 0
  /\ requestMessageBuffer = {}
  /\ elevSeq = 2
  /\ elevPc = "recv"
  /\ receivedPacket = NoPacket
  /\ elevationPackets = <<>>
  /\ raced = FALSE
  /\ toAgent = <<>>
  /\ toController = <<>>
  /\ issued = <<>>
  /\ executed = <<>>
  /\ shown = <<>>
  /\ captured = <<>>
  /\ resolved = <<>>

Buffered_Lost(buffer, m) == buffer

\* map[key(m)] = m of a message buffer: the buffer is the set of its messages.
Buffered(buffer, m) == {b \in buffer : <<b.seq, b.ack>> # <<m.seq, m.ack>>} \cup {m}

-----------------------------------------------------------------------------
(* The controller *)

\* sendCommand up to send(): the number is taken under the host's write lock.
NumberCommand(t, elev) ==
  LET cmd == [num |-> seqNum, elev |-> elev] IN
  /\ outgoing[t] = <<>>
  /\ outgoing' = [outgoing EXCEPT
                    ![t] = <<[seq |-> OnWire(seqNum), ack |-> 0, cmd |-> cmd]>>]
  /\ seqNum' = seqNum + 1
  /\ issued' = Append(issued, cmd)

\* A command typed at the console or found in the record of another host.
OtherCommand(t) ==
  /\ Cardinality({i \in DOMAIN issued : issued[i].elev = 0}) < MaxCmds
  /\ NumberCommand(t, 0)
  /\ UNCHANGED <<answering, reporting, executing, capturing, mapping, resolved,
                 toAgent, toController>>

\* send() in sendCommand, after the lock was released.
SendCommand(t) ==
  /\ outgoing[t] # <<>>
  /\ toAgent' = Append(toAgent, Head(outgoing[t]))
  /\ outgoing' = [outgoing EXCEPT ![t] = <<>>]
  /\ UNCHANGED <<seqNum, issued, answering, reporting, executing, capturing,
                 mapping, resolved, toController>>

Show_NoAdvance(m) == shown' = Append(shown, m.cmd) /\ UNCHANGED lastProcessedAckNum

\* processCommandResponse of m, and the advance of lastProcessedAckNum.
Show(m) ==
  /\ shown' = Append(shown, m.cmd)
  /\ lastProcessedAckNum' = lastProcessedAckNum + 1

\* Handler waits in getNextMessageFromHost: no loop of its is unfinished.
HandlerIdle ==
  /\ todo = <<>>
  /\ outgoing[Handler] = <<>>
  /\ \A b \in responseMessageBuffer : b.ack # lastProcessedAckNum + 1

\* A response.  A response in turn is deleted before the code reads its seq
\* again; what the freed memory holds does not matter, because isElev, which
\* the allocator leaves alone, is false, and both branches return to the loop.
HandlerResponse ==
  /\ HandlerIdle
  /\ toController # <<>>
  /\ LET m == Head(toController) IN
     /\ m.ack # 0
     /\ \/ /\ m.ack = lastProcessedAckNum + 1
           /\ Show(m)
           /\ UNCHANGED responseMessageBuffer
        \/ /\ m.ack # lastProcessedAckNum + 1
           /\ responseMessageBuffer' = Buffered(responseMessageBuffer, m)
           /\ UNCHANGED <<shown, lastProcessedAckNum>>
  /\ toController' = Tail(toController)
  /\ UNCHANGED <<numbering, answering, executing, capturing, mapping, resolved,
                 toAgent>>

\* One turn of the loop over the buffered responses.
HandlerDrain ==
  /\ \E m \in responseMessageBuffer :
       /\ m.ack = lastProcessedAckNum + 1
       /\ Show(m)
       /\ responseMessageBuffer' = responseMessageBuffer \ {m}
  /\ UNCHANGED <<numbering, answering, executing, capturing, mapping, resolved,
                 toAgent, toController>>

HandlerRequest_NoRecordNoAnswer ==
  /\ HandlerIdle
  /\ toController # <<>> /\ Head(toController).ack = 0
  /\ elevReqId' = Head(toController).seq
  /\ todo' = Plan[Head(toController).packet]
  /\ toController' = Tail(toController)
  /\ UNCHANGED <<numbering, reporting, executing, capturing, mapping, resolved,
                 toAgent>>

HandlerRequest_AnswerFirst ==
  /\ HandlerIdle
  /\ toController # <<>> /\ Head(toController).ack = 0
  /\ elevReqId' = Head(toController).seq
  /\ LET plan == Plan[Head(toController).packet] IN
     todo' = [i \in DOMAIN plan |-> plan[Len(plan) + 1 - i]]
  /\ toController' = Tail(toController)
  /\ UNCHANGED <<numbering, reporting, executing, capturing, mapping, resolved,
                 toAgent>>

\* An elevation request: the record is looked up, and without one the packet
\* is to be dropped.  A request whose number reads as 0 is not noticed at all.
HandlerRequest ==
  /\ HandlerIdle
  /\ toController # <<>>
  /\ LET m == Head(toController) IN
     /\ m.ack = 0
     /\ \/ /\ m.seq # 0
           /\ elevReqId' = m.seq
           /\ todo' = IF Plan[m.packet] = <<>> THEN <<"drop">> ELSE Plan[m.packet]
        \/ /\ m.seq = 0
           /\ UNCHANGED <<elevReqId, todo>>
  /\ toController' = Tail(toController)
  /\ UNCHANGED <<numbering, reporting, executing, capturing, mapping, resolved,
                 toAgent>>

HandlerItem_RetryOnly ==
  /\ todo # <<>>
  /\ outgoing[Handler] = <<>>
  /\ todo' = Tail(todo)
  /\ IF Head(todo) = "retry"
     THEN toAgent' = Append(toAgent, [seq |-> 0, ack |-> OnWire(elevReqId),
                                      command |-> "retry"])
     ELSE UNCHANGED toAgent
  /\ IF Head(todo) = "command"
     THEN NumberCommand(Handler, elevReqId)
     ELSE UNCHANGED <<seqNum, outgoing, issued>>
  /\ UNCHANGED <<elevReqId, reporting, executing, capturing, mapping, resolved,
                 toController>>

\* One turn of the loop over the record's commands: processCmd, or sendElevResp.
HandlerItem ==
  /\ todo # <<>>
  /\ outgoing[Handler] = <<>>
  /\ todo' = Tail(todo)
  /\ \/ /\ Head(todo) = "command"
        /\ NumberCommand(Handler, elevReqId)
        /\ UNCHANGED toAgent
     \/ /\ Head(todo) \in {"retry", "drop"}
        /\ toAgent' = Append(toAgent,
             [seq |-> 0, ack |-> OnWire(elevReqId), command |-> Head(todo)])
        /\ UNCHANGED <<seqNum, outgoing, issued>>
     \/ /\ Head(todo) = "elsewhere"
        /\ UNCHANGED <<toAgent, seqNum, outgoing, issued>>
  /\ UNCHANGED <<elevReqId, reporting, executing, capturing, mapping, resolved,
                 toController>>

-----------------------------------------------------------------------------
(* The command thread of the agent *)

ProcessCommand_NoSwap(m) ==
  /\ executed' = Append(executed, m.cmd)
  /\ toController' = Append(toController, [seq |-> OnWire(m.seq), ack |-> 0, cmd |-> m.cmd])
  /\ lastProcessedSeqNum' = lastProcessedSeqNum + 1

\* processCommand of m, and the advance of lastProcessedSeqNum.  The response
\* carries the number as it was read; its body and isError are not modelled.
ProcessCommand(m) ==
  /\ executed' = Append(executed, m.cmd)
  /\ toController' = Append(toController,
       [seq |-> 0, ack |-> OnWire(m.seq), cmd |-> m.cmd])
  /\ lastProcessedSeqNum' = lastProcessedSeqNum + 1

\* The command thread waits in getNextMessageFromController.
AgentIdle == \A b \in requestMessageBuffer : b.seq # lastProcessedSeqNum + 1

AgentRequest_AsTheyCome ==
  /\ AgentIdle
  /\ toAgent # <<>> /\ Head(toAgent).ack = 0
  /\ ProcessCommand(Head(toAgent))
  /\ toAgent' = Tail(toAgent)
  /\ UNCHANGED <<requestMessageBuffer, numbering, answering, reporting, capturing,
                 mapping, resolved>>

\* A command.  One whose number reads as 0 is ignored.
AgentRequest ==
  /\ AgentIdle
  /\ toAgent # <<>>
  /\ LET m == Head(toAgent) IN
     /\ m.ack = 0
     /\ \/ /\ m.seq = lastProcessedSeqNum + 1
           /\ ProcessCommand(m)
           /\ UNCHANGED requestMessageBuffer
        \/ /\ m.seq \notin {0, lastProcessedSeqNum + 1}
           /\ requestMessageBuffer' = Buffered(requestMessageBuffer, m)
           /\ UNCHANGED <<executed, toController, lastProcessedSeqNum>>
        \/ /\ m.seq = 0
           /\ UNCHANGED <<executing, toController>>
  /\ toAgent' = Tail(toAgent)
  /\ UNCHANGED <<numbering, answering, reporting, capturing, mapping, resolved>>

AgentDrain_NoErase ==
  /\ \E m \in requestMessageBuffer : m.seq = lastProcessedSeqNum + 1 /\ ProcessCommand(m)
  /\ UNCHANGED <<requestMessageBuffer, numbering, answering, reporting, capturing,
                 mapping, resolved, toAgent>>

\* One turn of the loop over the buffered commands.
AgentDrain ==
  /\ \E m \in requestMessageBuffer :
       /\ m.seq = lastProcessedSeqNum + 1
       /\ ProcessCommand(m)
       /\ requestMessageBuffer' = requestMessageBuffer \ {m}
  /\ UNCHANGED <<numbering, answering, reporting, capturing, mapping, resolved,
                 toAgent>>

\* The map is not locked.  While the elevation thread is inserting, a lookup
\* may miss its key and the insertion itself may be lost.
MayMiss == IF elevPc = "insert" THEN BOOLEAN ELSE {FALSE}
TouchMap ==
  \/ /\ elevPc = "insert"
     /\ elevPc' \in {"insert", "spoiled"}
     /\ raced' = TRUE
  \/ /\ elevPc # "insert"
     /\ UNCHANGED <<elevPc, raced>>

AgentElevResponse_NoErase ==
  /\ AgentIdle
  /\ toAgent # <<>> /\ Head(toAgent).ack # 0
  /\ LET m == Head(toAgent) IN
     resolved' = Append(resolved,
       [elev |-> m.ack, how |-> m.command,
        packet |-> IF m.ack \in DOMAIN elevationPackets
                   THEN elevationPackets[m.ack] ELSE NoPacket])
  /\ TouchMap
  /\ toAgent' = Tail(toAgent)
  /\ UNCHANGED <<elevationPackets, numbering, answering, reporting, executing,
                 capturing, toController>>

\* handleElevationResponse: the packet is resent or dropped, and erased.  For a
\* missing key a retry resends the empty string.
AgentElevResponse ==
  /\ AgentIdle
  /\ toAgent # <<>>
  /\ Head(toAgent).ack # 0
  /\ \E missed \in MayMiss :
       LET m == Head(toAgent)
           found == ~missed /\ m.ack \in DOMAIN elevationPackets
       IN  /\ resolved' = Append(resolved,
                [elev |-> m.ack, how |-> m.command,
                 packet |-> IF found THEN elevationPackets[m.ack] ELSE NoPacket])
           /\ elevationPackets' =
                IF found
                THEN Restrict(elevationPackets, DOMAIN elevationPackets \ {m.ack})
                ELSE elevationPackets
  /\ TouchMap
  /\ toAgent' = Tail(toAgent)
  /\ UNCHANGED <<numbering, answering, reporting, executing, capturing,
                 toController>>

-----------------------------------------------------------------------------
(* The elevation thread of the agent *)

\* A packet comes out of the tunnel; its insertion into the map begins.
ElevCapture(p) ==
  /\ elevPc = "recv"
  /\ Len(captured) < MaxElevs
  /\ receivedPacket' = p
  /\ captured' = Append(captured, p)
  /\ elevPc' = "insert"
  /\ UNCHANGED <<numbering, answering, reporting, executing, elevSeq,
                 elevationPackets, raced, resolved, toAgent, toController>>

\* elevationPackets[seqNum] = receivedPacket is done, or was lost.
ElevStore ==
  /\ elevPc \in {"insert", "spoiled"}
  /\ elevationPackets' =
       IF elevPc = "insert"
       THEN [e \in DOMAIN elevationPackets \cup {elevSeq} |->
               IF e = elevSeq THEN receivedPacket ELSE elevationPackets[e]]
       ELSE elevationPackets
  /\ elevPc' = "send"
  /\ UNCHANGED <<numbering, answering, reporting, executing, capturing, raced,
                 resolved, toAgent, toController>>

ElevSend_SameNumber ==
  /\ elevPc = "send"
  /\ toController' = Append(toController,
       [seq |-> OnWire(elevSeq), ack |-> 0, packet |-> receivedPacket])
  /\ receivedPacket' = NoPacket
  /\ elevPc' = "recv"
  /\ UNCHANGED <<numbering, answering, reporting, executing, captured, elevSeq,
                 elevationPackets, raced, resolved, toAgent>>

\* The request is numbered and sent.
ElevSend ==
  /\ elevPc = "send"
  /\ toController' = Append(toController,
       [seq |-> OnWire(elevSeq), ack |-> 0, packet |-> receivedPacket])
  /\ elevSeq' = elevSeq + 1
  /\ receivedPacket' = NoPacket
  /\ elevPc' = "recv"
  /\ UNCHANGED <<numbering, answering, reporting, executing, captured,
                 elevationPackets, raced, resolved, toAgent>>

-----------------------------------------------------------------------------
\* Every thread waits for input, and the bounds allow none: not a deadlock.
Quiescent ==
  /\ \A t \in Threads : outgoing[t] = <<>>
  /\ HandlerIdle /\ AgentIdle
  /\ toAgent = <<>> /\ toController = <<>>
  /\ elevPc = "recv"
  /\ UNCHANGED vars

Input ==
  \/ \E t \in Others : OtherCommand(t)
  \/ \E p \in Packets : ElevCapture(p)

HandlerStep == HandlerResponse \/ HandlerDrain \/ HandlerRequest \/ HandlerItem
AgentStep == AgentRequest \/ AgentDrain \/ AgentElevResponse
ElevStep == ElevStore \/ ElevSend

Next ==
  \/ Input
  \/ \E t \in Threads : SendCommand(t)
  \/ HandlerStep
  \/ AgentStep
  \/ ElevStep
  \/ Quiescent

\* The kernel schedules every thread that can run; users and packets may stop.
Fairness ==
  /\ \A t \in Threads : WF_vars(SendCommand(t))
  /\ WF_vars(HandlerStep)
  /\ WF_vars(AgentStep)
  /\ WF_vars(ElevStep)

Spec == Init /\ [][Next]_vars /\ Fairness

=============================================================================
