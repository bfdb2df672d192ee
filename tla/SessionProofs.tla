---------------------------- MODULE SessionProofs ----------------------------
(***************************************************************************)
(* Theorems about Session for every value of its constants: any number of  *)
(* threads, commands, packets and elevations, any configuration, any Base. *)
(***************************************************************************)
EXTENDS SessionProperties, ProtocolMessageProofs, SequenceTheorems, FiniteSetTheorems,
        WellFoundedInduction

-----------------------------------------------------------------------------
(* Type correctness *)

\* A sequence keeps its type when its head is taken and when one is appended.
LEMMA SeqStep ==
  ASSUME NEW S, NEW s \in Seq(S)
  PROVE  /\ \A e \in S : Append(s, e) \in Seq(S)
         /\ s # <<>> => Head(s) \in S /\ Tail(s) \in Seq(S)
<1>1. \A e \in S : Append(s, e) \in Seq(S)
  BY AppendProperties
<1>2. s # <<>> => Head(s) \in S /\ Tail(s) \in Seq(S)
  BY HeadTailProperties
<1> QED BY <1>1, <1>2

LEMMA InitTypeOK == Init => TypeOK
<1> SUFFICES ASSUME Init PROVE TypeOK
  OBVIOUS
<1>1. /\ outgoing \in [Threads -> Seq(CommandMsg)]
      /\ \A t \in Threads : Len(outgoing[t]) <= 1
  BY DEF Init
<1>2. DOMAIN elevationPackets = {}
  BY DEF Init
<1>3. /\ toAgent \in Seq(CommandMsg \cup ElevResponse)
      /\ toController \in Seq(Response \cup ElevRequest)
      /\ issued \in Seq(Command) /\ executed \in Seq(Command)
      /\ shown \in Seq(Command) /\ captured \in Seq(Packets)
      /\ resolved \in Seq(Resolution) /\ todo \in Seq(Items)
  BY DEF Init
<1>4. /\ seqNum \in Nat \ {0} /\ elevReqId \in Nat /\ lastProcessedAckNum \in Nat
      /\ lastProcessedSeqNum \in Nat /\ elevSeq \in Nat \ {0, 1}
      /\ responseMessageBuffer \subseteq Response
      /\ requestMessageBuffer \subseteq CommandMsg
  BY DEF Init
<1>5. /\ elevPc = "recv" /\ raced \in BOOLEAN
      /\ receivedPacket \in Packets \cup {NoPacket}
  BY DEF Init
<1> QED BY <1>1, <1>2, <1>3, <1>4, <1>5 DEF TypeOK

\* Numbering a command keeps the types of what it changes.
LEMMA NumberCommandType ==
  ASSUME TypeOK, NEW t \in Threads, NEW elev \in Nat, NumberCommand(t, elev)
  PROVE  /\ seqNum' \in Nat \ {0}
         /\ outgoing' \in [Threads -> Seq(CommandMsg)]
         /\ \A u \in Threads : Len(outgoing'[u]) <= 1
         /\ issued' \in Seq(Command)
<1> DEFINE cmd == [num |-> seqNum, elev |-> elev]
           m == [seq |-> OnWire(seqNum), ack |-> 0, cmd |-> cmd]
<1>1. cmd \in Command
  BY DEF TypeOK, Command
<1>2. m \in CommandMsg
  BY <1>1, OnWireType DEF TypeOK, CommandMsg
<1>3. <<m>> \in Seq(CommandMsg) /\ Len(<<m>>) = 1
  BY <1>2
<1>4. outgoing' = [outgoing EXCEPT ![t] = <<m>>]
  BY DEF NumberCommand
<1> HIDE DEF m
<1>5. /\ outgoing' \in [Threads -> Seq(CommandMsg)]
      /\ \A u \in Threads : Len(outgoing'[u]) <= 1
  BY <1>3, <1>4 DEF TypeOK
<1>6. issued' \in Seq(Command)
  BY <1>1, SeqStep DEF TypeOK, NumberCommand
<1>7. seqNum' \in Nat \ {0}
  BY DEF TypeOK, NumberCommand
<1> QED BY <1>5, <1>6, <1>7

\* Every message in a channel is of one of the four kinds, told apart by ack.
LEMMA ToControllerKinds ==
  ASSUME TypeOK, toController # <<>>
  PROVE  /\ Tail(toController) \in Seq(Response \cup ElevRequest)
         /\ Head(toController).ack \in Nat
         /\ Head(toController).seq \in Nat
         /\ Head(toController).ack # 0 => Head(toController) \in Response
         /\ Head(toController).seq # 0 => Head(toController) \in ElevRequest
<1>1. Head(toController) \in Response \cup ElevRequest
  BY SeqStep DEF TypeOK
<1>2. Tail(toController) \in Seq(Response \cup ElevRequest)
  BY SeqStep DEF TypeOK
<1> QED BY <1>1, <1>2 DEF Response, ElevRequest

LEMMA ToAgentKinds ==
  ASSUME TypeOK, toAgent # <<>>
  PROVE  /\ Tail(toAgent) \in Seq(CommandMsg \cup ElevResponse)
         /\ Head(toAgent).ack \in Nat
         /\ Head(toAgent).seq \in Nat
         /\ Head(toAgent).ack # 0 => Head(toAgent) \in ElevResponse
         /\ Head(toAgent).seq # 0 => Head(toAgent) \in CommandMsg
<1>1. Head(toAgent) \in CommandMsg \cup ElevResponse
  BY SeqStep DEF TypeOK
<1>2. Tail(toAgent) \in Seq(CommandMsg \cup ElevResponse)
  BY SeqStep DEF TypeOK
<1> QED BY <1>1, <1>2 DEF CommandMsg, ElevResponse

\* Showing a response keeps the types of what it changes.
LEMMA ShowType ==
  ASSUME TypeOK, NEW m \in Response, Show(m)
  PROVE  shown' \in Seq(Command) /\ lastProcessedAckNum' \in Nat
<1>1. m.cmd \in Command
  BY DEF Response
<1> QED BY <1>1, SeqStep DEF TypeOK, Show

\* Processing a command keeps the types of what it changes.
LEMMA ProcessCommandType ==
  ASSUME TypeOK, NEW m \in CommandMsg, ProcessCommand(m)
  PROVE  /\ executed' \in Seq(Command)
         /\ toController' \in Seq(Response \cup ElevRequest)
         /\ lastProcessedSeqNum' \in Nat
<1>1. m.cmd \in Command /\ m.seq \in Nat
  BY DEF CommandMsg
<1>2. [seq |-> 0, ack |-> OnWire(m.seq), cmd |-> m.cmd] \in Response \cup ElevRequest
  BY <1>1, OnWireType DEF Response
<1>3. toController' \in Seq(Response \cup ElevRequest)
  BY <1>2, SeqStep DEF TypeOK, ProcessCommand
<1>4. executed' \in Seq(Command)
  BY <1>1, SeqStep DEF TypeOK, ProcessCommand
<1>5. lastProcessedSeqNum' \in Nat
  BY DEF TypeOK, ProcessCommand
<1> QED BY <1>3, <1>4, <1>5

\* One step of any thread keeps the types.
LEMMA NextTypeOK == TypeOK /\ [Next]_vars => TypeOK'
<1> SUFFICES ASSUME TypeOK, [Next]_vars PROVE TypeOK'
  OBVIOUS
<1> USE DEF numbering, answering, reporting, executing, capturing, mapping
<1>1. ASSUME NEW t \in Others, OtherCommand(t) PROVE TypeOK'
  <2>1. NumberCommand(t, 0) /\ t \in Threads
    BY <1>1 DEF OtherCommand, Threads
  <2> QED BY <1>1, <2>1, NumberCommandType DEF OtherCommand, TypeOK
<1>2. ASSUME NEW p \in Packets, ElevCapture(p) PROVE TypeOK'
  <2>1. captured' \in Seq(Packets)
    BY <1>2, SeqStep DEF TypeOK, ElevCapture
  <2> QED BY <1>2, <2>1 DEF TypeOK, ElevCapture
<1>3. ASSUME NEW t \in Threads, SendCommand(t) PROVE TypeOK'
  <2>1. Head(outgoing[t]) \in CommandMsg
    BY <1>3, SeqStep DEF TypeOK, SendCommand
  <2>2. toAgent' \in Seq(CommandMsg \cup ElevResponse)
    BY <1>3, <2>1, SeqStep DEF TypeOK, SendCommand
  <2>3. outgoing' \in [Threads -> Seq(CommandMsg)]
    BY <1>3 DEF TypeOK, SendCommand
  <2>4. \A u \in Threads : Len(outgoing'[u]) <= 1
    BY <1>3 DEF TypeOK, SendCommand
  <2> QED BY <1>3, <2>2, <2>3, <2>4 DEF TypeOK, SendCommand
<1>4. CASE HandlerResponse
  <2>1. /\ Tail(toController) \in Seq(Response \cup ElevRequest)
        /\ Head(toController) \in Response
    BY <1>4, ToControllerKinds DEF HandlerResponse
  <2>2. /\ shown' \in Seq(Command)
        /\ lastProcessedAckNum' \in Nat
        /\ responseMessageBuffer' \subseteq Response
    <3>1. CASE Show(Head(toController)) /\ UNCHANGED responseMessageBuffer
      BY <3>1, <2>1, ShowType DEF TypeOK
    <3>2. CASE /\ responseMessageBuffer' = Buffered(responseMessageBuffer, Head(toController))
               /\ UNCHANGED <<shown, lastProcessedAckNum>>
      BY <3>2, <2>1 DEF TypeOK, Buffered
    <3> QED BY <1>4, <3>1, <3>2 DEF HandlerResponse
  <2> QED BY <1>4, <2>1, <2>2 DEF TypeOK, HandlerResponse
<1>5. CASE HandlerDrain
  <2>1. PICK m \in responseMessageBuffer :
          Show(m) /\ responseMessageBuffer' = responseMessageBuffer \ {m}
    BY <1>5 DEF HandlerDrain
  <2>2. m \in Response
    BY <2>1 DEF TypeOK
  <2>3. shown' \in Seq(Command) /\ lastProcessedAckNum' \in Nat
    BY <2>1, <2>2, ShowType
  <2> QED BY <1>5, <2>1, <2>3 DEF TypeOK, HandlerDrain
<1>6. CASE HandlerRequest
  <2>1. Tail(toController) \in Seq(Response \cup ElevRequest)
    BY <1>6, ToControllerKinds DEF HandlerRequest
  <2>2. elevReqId' \in Nat /\ todo' \in Seq(Items)
    <3>1. CASE UNCHANGED <<elevReqId, todo>>
      BY <3>1 DEF TypeOK
    <3>2. CASE Head(toController).seq # 0
      <4>1. Head(toController) \in ElevRequest
        BY <1>6, <3>2, ToControllerKinds DEF HandlerRequest
      <4>2. Head(toController).packet \in Packets /\ Head(toController).seq \in Nat
        BY <4>1 DEF ElevRequest
      <4>3. Plan[Head(toController).packet] \in Seq(Items) /\ <<"drop">> \in Seq(Items)
        BY <4>2, SessionAssumption DEF Items
      <4> QED BY <1>6, <3>2, <4>2, <4>3 DEF HandlerRequest
    <3> QED BY <1>6, <3>1, <3>2 DEF HandlerRequest
  <2> QED BY <1>6, <2>1, <2>2 DEF TypeOK, HandlerRequest
<1>7. CASE HandlerItem
  <2>1. todo' \in Seq(Items) /\ Head(todo) \in Items
    BY <1>7, SeqStep DEF TypeOK, HandlerItem
  <2>2. CASE NumberCommand(Handler, elevReqId) /\ UNCHANGED toAgent
    BY <1>7, <2>1, <2>2, NumberCommandType DEF TypeOK, HandlerItem, Threads
  <2>3. CASE /\ Head(todo) \in {"retry", "drop"}
             /\ toAgent' = Append(toAgent,
                  [seq |-> 0, ack |-> OnWire(elevReqId), command |-> Head(todo)])
             /\ UNCHANGED <<seqNum, outgoing, issued>>
    <3>1. [seq |-> 0, ack |-> OnWire(elevReqId), command |-> Head(todo)]
            \in CommandMsg \cup ElevResponse
      BY <2>3, OnWireType DEF TypeOK, ElevResponse
    <3>2. toAgent' \in Seq(CommandMsg \cup ElevResponse)
      BY <2>3, <3>1, SeqStep DEF TypeOK
    <3> QED BY <1>7, <2>1, <2>3, <3>2 DEF TypeOK, HandlerItem
  <2>4. CASE UNCHANGED <<toAgent, seqNum, outgoing, issued>>
    BY <1>7, <2>1, <2>4 DEF TypeOK, HandlerItem
  <2> QED BY <1>7, <2>2, <2>3, <2>4 DEF HandlerItem
<1>8. CASE AgentRequest
  <2>1. Tail(toAgent) \in Seq(CommandMsg \cup ElevResponse)
    BY <1>8, ToAgentKinds DEF AgentRequest
  <2>2. CASE /\ Head(toAgent).seq = lastProcessedSeqNum + 1
             /\ ProcessCommand(Head(toAgent))
             /\ UNCHANGED requestMessageBuffer
    <3>1. Head(toAgent) \in CommandMsg
      BY <1>8, <2>2, ToAgentKinds DEF TypeOK, AgentRequest
    <3> QED BY <1>8, <2>1, <2>2, <3>1, ProcessCommandType DEF TypeOK, AgentRequest
  <2>3. CASE /\ Head(toAgent).seq \notin {0, lastProcessedSeqNum + 1}
             /\ requestMessageBuffer' = Buffered(requestMessageBuffer, Head(toAgent))
             /\ UNCHANGED <<executed, toController, lastProcessedSeqNum>>
    <3>1. Head(toAgent) \in CommandMsg
      BY <1>8, <2>3, ToAgentKinds DEF AgentRequest
    <3> QED BY <1>8, <2>1, <2>3, <3>1 DEF TypeOK, AgentRequest, Buffered
  <2>4. CASE UNCHANGED <<executing, toController>>
    BY <1>8, <2>1, <2>4 DEF TypeOK, AgentRequest
  <2> QED BY <1>8, <2>2, <2>3, <2>4 DEF AgentRequest
<1>9. CASE AgentDrain
  <2>1. PICK m \in requestMessageBuffer :
          ProcessCommand(m) /\ requestMessageBuffer' = requestMessageBuffer \ {m}
    BY <1>9 DEF AgentDrain
  <2>2. m \in CommandMsg
    BY <2>1 DEF TypeOK
  <2> QED BY <1>9, <2>1, <2>2, ProcessCommandType DEF TypeOK, AgentDrain
<1>10. CASE AgentElevResponse
  <2> DEFINE m == Head(toAgent)
  <2>1. m \in ElevResponse /\ Tail(toAgent) \in Seq(CommandMsg \cup ElevResponse)
    BY <1>10, ToAgentKinds DEF AgentElevResponse
  <2>2. PICK missed \in MayMiss :
          LET found == ~missed /\ m.ack \in DOMAIN elevationPackets
          IN  /\ resolved' = Append(resolved,
                   [elev |-> m.ack, how |-> m.command,
                    packet |-> IF found THEN elevationPackets[m.ack] ELSE NoPacket])
              /\ elevationPackets' =
                   IF found
                   THEN Restrict(elevationPackets, DOMAIN elevationPackets \ {m.ack})
                   ELSE elevationPackets
    BY <1>10 DEF AgentElevResponse
  <2> DEFINE found == ~missed /\ m.ack \in DOMAIN elevationPackets
             r == [elev |-> m.ack, how |-> m.command,
                   packet |-> IF found THEN elevationPackets[m.ack] ELSE NoPacket]
  <2>3. m.ack \in Nat /\ m.command \in {"retry", "drop"}
    BY <2>1 DEF ElevResponse
  <2>4. (IF found THEN elevationPackets[m.ack] ELSE NoPacket) \in Packets \cup {NoPacket}
    BY DEF TypeOK
  <2>5. r \in Resolution
    BY <2>3, <2>4 DEF Resolution
  <2>6. resolved' \in Seq(Resolution)
    BY <2>2, <2>5, SeqStep DEF TypeOK
  <2>7. /\ DOMAIN elevationPackets' \subseteq Nat
        /\ \A e \in DOMAIN elevationPackets' : elevationPackets'[e] \in Packets
    <3>1. CASE found
      BY <2>2, <3>1 DEF TypeOK, Restrict
    <3>2. CASE ~found
      BY <2>2, <3>2 DEF TypeOK
    <3> QED BY <3>1, <3>2
  <2>8. /\ elevPc' \in {"recv", "insert", "spoiled", "send"}
        /\ elevPc' # "recv" => elevPc # "recv"
        /\ raced' \in BOOLEAN
    BY <1>10 DEF AgentElevResponse, TouchMap, TypeOK
  <2>9. toAgent' \in Seq(CommandMsg \cup ElevResponse)
    BY <1>10, <2>1 DEF AgentElevResponse
  <2> HIDE DEF m
  <2> QED BY <1>10, <2>6, <2>7, <2>8, <2>9 DEF TypeOK, AgentElevResponse
<1>11. CASE ElevStore
  <2>1. receivedPacket \in Packets
    BY <1>11 DEF TypeOK, ElevStore
  <2>2. /\ DOMAIN elevationPackets' \subseteq Nat
        /\ \A e \in DOMAIN elevationPackets' : elevationPackets'[e] \in Packets
    BY <1>11, <2>1 DEF TypeOK, ElevStore
  <2> QED BY <1>11, <2>1, <2>2 DEF TypeOK, ElevStore
<1>12. CASE ElevSend
  <2>1. [seq |-> OnWire(elevSeq), ack |-> 0, packet |-> receivedPacket]
          \in Response \cup ElevRequest
    BY <1>12, OnWireType DEF TypeOK, ElevSend, ElevRequest
  <2>2. toController' \in Seq(Response \cup ElevRequest)
    BY <1>12, <2>1, SeqStep DEF TypeOK, ElevSend
  <2> QED BY <1>12, <2>2 DEF TypeOK, ElevSend
<1>13. CASE UNCHANGED vars
  BY <1>13 DEF TypeOK, vars
<1>14. CASE Quiescent
  BY <1>14, <1>13 DEF Quiescent
<1> QED BY <1>1, <1>2, <1>3, <1>4, <1>5, <1>6, <1>7, <1>8, <1>9, <1>10, <1>11,
           <1>12, <1>13, <1>14 DEF Next, Input, HandlerStep, AgentStep, ElevStep

\* Every variable of a session keeps its type, whatever numbers it reaches.
THEOREM TypeCorrect == Spec => []TypeOK
BY InitTypeOK, NextTypeOK, PTL DEF Spec

-----------------------------------------------------------------------------
(* Commands are executed, and their responses shown, in the order of their
   numbers *)

\* Numbers never decrease, so a session in range was always in range.
LEMMA RangeBackwards == TypeOK /\ [Next]_vars /\ SeqInRange' => SeqInRange
<1> SUFFICES ASSUME TypeOK, [Next]_vars, SeqInRange' PROVE SeqInRange
  OBVIOUS
<1>1. seqNum' = seqNum \/ seqNum' = seqNum + 1
  BY DEF Next, vars, Input, HandlerStep, AgentStep, ElevStep, Quiescent,
         numbering, OtherCommand, ElevCapture, SendCommand, HandlerResponse,
         HandlerDrain, HandlerRequest, HandlerItem, AgentRequest, AgentDrain,
         AgentElevResponse, ElevStore, ElevSend, NumberCommand
<1>2. SignLimit \in Nat
  BY BaseAssumption DEF SignLimit
<1> QED BY <1>1, <1>2 DEF SeqInRange, TypeOK

\* In range the codec changes no number in use.
LEMMA InRangeOnWire ==
  ASSUME TypeOK, SeqInRange, NEW n \in Nat, n < seqNum
  PROVE  OnWire(n) = n
<1>1. SignLimit \in Nat /\ n \in 0..(SignLimit - 1)
  BY BaseAssumption DEF SignLimit, SeqInRange, TypeOK
<1> QED BY <1>1, WireIdentity

\* What a sequence holds after its head is taken or one is appended.
LEMMA TailFacts ==
  ASSUME NEW S, NEW s \in Seq(S), s # <<>>
  PROVE  /\ Len(s) \in Nat \ {0} /\ Head(s) = s[1] /\ 1 \in DOMAIN s
         /\ \A i \in DOMAIN Tail(s) : i + 1 \in DOMAIN s /\ Tail(s)[i] = s[i + 1]
BY HeadTailProperties, LenProperties

LEMMA AppendFacts ==
  ASSUME NEW S, NEW s \in Seq(S), NEW e \in S
  PROVE  /\ Len(Append(s, e)) = Len(s) + 1 /\ Len(s) \in Nat
         /\ DOMAIN Append(s, e) = 1..(Len(s) + 1) /\ DOMAIN s = 1..Len(s)
         /\ \A i \in DOMAIN s : Append(s, e)[i] = s[i]
         /\ Append(s, e)[Len(s) + 1] = e
BY AppendProperties, LenProperties

\* A numbered command is what its number says, and those before it still are.
LEMMA NumberCommandInv ==
  ASSUME TypeOK, TypeOK', SeqInRange', NumberedCommands, ExecutedInOrder,
         NEW t \in Threads, NEW elev \in Nat, NumberCommand(t, elev),
         UNCHANGED <<executing, toAgent>>
  PROVE  NumberedCommands' /\ ExecutedInOrder'
<1> DEFINE cmd == [num |-> seqNum, elev |-> elev]
           m == [seq |-> OnWire(seqNum), ack |-> 0, cmd |-> cmd]
<1>1. cmd \in Command /\ issued' = Append(issued, cmd)
  BY DEF TypeOK, Command, NumberCommand
<1>2. OnWire(seqNum) = seqNum
  <2>1. SignLimit \in Nat
    BY BaseAssumption DEF SignLimit
  <2>2. seqNum \in Nat
    BY DEF TypeOK
  <2>3. seqNum + 1 <= SignLimit
    BY DEF SeqInRange, NumberCommand
  <2>4. seqNum \in 0..(SignLimit - 1)
    BY <2>1, <2>2, <2>3
  <2> QED BY <2>4, WireIdentity
<1>3. Len(issued) = seqNum - 1 /\ issued \in Seq(Command)
  BY DEF NumberedCommands, TypeOK
<1>4. /\ Len(issued') = seqNum' - 1
      /\ \A i \in DOMAIN issued : i \in DOMAIN issued' /\ issued'[i] = issued[i]
      /\ seqNum \in DOMAIN issued' /\ issued'[seqNum] = cmd
  <2> HIDE DEF cmd
  <2>1. /\ Len(issued') = Len(issued) + 1 /\ Len(issued) \in Nat
        /\ DOMAIN issued' = 1..(Len(issued) + 1) /\ DOMAIN issued = 1..Len(issued)
        /\ \A i \in DOMAIN issued : issued'[i] = issued[i]
        /\ issued'[Len(issued) + 1] = cmd
    BY <1>1, <1>3, AppendFacts
  <2>2. seqNum \in Nat /\ seqNum' = seqNum + 1
    BY DEF TypeOK, NumberCommand
  <2> QED BY <1>3, <2>1, <2>2
<1>5. \A x : NumberedRight(x) => x.seq \in DOMAIN issued' /\ x.cmd = issued'[x.seq]
  BY <1>4 DEF NumberedRight
<1>6. m.seq \in DOMAIN issued' /\ m.cmd = issued'[m.seq]
  BY <1>2, <1>4
<1>7. outgoing' = [outgoing EXCEPT ![t] = <<m>>]
  BY DEF NumberCommand
<1> HIDE DEF m
<1>8. \A u \in Threads : outgoing'[u] # <<>> => NumberedRight(Head(outgoing[u]))'
  <2> SUFFICES ASSUME NEW u \in Threads, outgoing'[u] # <<>>
               PROVE  NumberedRight(Head(outgoing[u]))'
    OBVIOUS
  <2>1. CASE u = t
    <3>1. Head(outgoing'[u]) = m
      BY <2>1, <1>7 DEF TypeOK
    <3> QED BY <3>1, <1>6 DEF NumberedRight
  <2>2. CASE u # t
    <3>1. outgoing'[u] = outgoing[u]
      BY <2>2, <1>7 DEF TypeOK
    <3> QED BY <3>1, <1>5 DEF NumberedRight, NumberedCommands
  <2> QED BY <2>1, <2>2
<1>9. NumberedCommands'
  <2>1. \A i \in DOMAIN toAgent' : toAgent'[i].seq # 0 => NumberedRight(toAgent[i])'
    BY <1>5 DEF NumberedCommands, NumberedRight
  <2>2. \A x \in requestMessageBuffer' : NumberedRight(x)'
    BY <1>5 DEF NumberedCommands, NumberedRight, executing
  <2> QED BY <1>4, <1>8, <2>1, <2>2 DEF NumberedCommands
<1>10. ExecutedInOrder'
  <2>1. /\ DOMAIN executed = 1..Len(executed) /\ Len(executed) \in Nat
        /\ DOMAIN issued = 1..Len(issued) /\ Len(issued) \in Nat
    BY LenProperties DEF TypeOK
  <2>2. Len(issued') = Len(issued) + 1
    BY <1>1, <1>3, AppendFacts
  <2> QED BY <1>4, <2>1, <2>2 DEF ExecutedInOrder, executing
<1> QED BY <1>9, <1>10

\* The agent executes the command that is next in the order of the numbers.
LEMMA ProcessCommandInv ==
  ASSUME TypeOK, SeqInRange, NumberedCommands, ExecutedInOrder, AnsweredCommands,
         ShownInOrder, NEW m \in CommandMsg, NumberedRight(m),
         m.seq = lastProcessedSeqNum + 1, ProcessCommand(m),
         UNCHANGED <<numbering, reporting>>
  PROVE  /\ ExecutedInOrder' /\ AnsweredCommands' /\ ShownInOrder'
         /\ Len(executed) < Len(issued)
         /\ executed' = Append(executed, issued[Len(executed) + 1])
<1> DEFINE r == [seq |-> 0, ack |-> OnWire(m.seq), cmd |-> m.cmd]
<1>1. /\ DOMAIN issued = 1..Len(issued) /\ Len(issued) \in Nat
      /\ DOMAIN shown = 1..Len(shown) /\ Len(shown) \in Nat
      /\ executed \in Seq(Command) /\ m.cmd \in Command
      /\ toController \in Seq(Response \cup ElevRequest)
  BY LenProperties DEF TypeOK, CommandMsg
<1>2. /\ executed' = Append(executed, m.cmd)
      /\ toController' = Append(toController, r)
      /\ lastProcessedSeqNum' = lastProcessedSeqNum + 1
  BY DEF ProcessCommand
<1>3. /\ Len(executed') = Len(executed) + 1 /\ Len(executed) \in Nat
      /\ DOMAIN executed' = 1..(Len(executed) + 1) /\ DOMAIN executed = 1..Len(executed)
      /\ \A i \in DOMAIN executed : executed'[i] = executed[i]
      /\ executed'[Len(executed) + 1] = m.cmd
  BY <1>1, <1>2, AppendFacts
<1>4. m.seq = Len(executed) + 1 /\ m.seq \in DOMAIN issued /\ m.cmd = issued[m.seq]
  BY DEF ExecutedInOrder, NumberedRight
<1>5. OnWire(m.seq) = m.seq
  <2>1. m.seq < seqNum /\ m.seq \in Nat
    BY <1>1, <1>3, <1>4 DEF NumberedCommands, TypeOK
  <2> QED BY <2>1, InRangeOnWire
<1>6. /\ toController' \in Seq(Response \cup ElevRequest) /\ r \in Response
      /\ Len(toController) \in Nat /\ DOMAIN toController' = 1..(Len(toController) + 1)
      /\ DOMAIN toController = 1..Len(toController)
      /\ \A i \in DOMAIN toController : toController'[i] = toController[i]
      /\ toController'[Len(toController) + 1] = r
  <2>1. r \in Response
    BY <1>1, <1>3, <1>4, <1>5 DEF Response
  <2> HIDE DEF r
  <2>2. r \in Response \cup ElevRequest
    BY <2>1
  <2> QED BY <2>1, <2>2, <1>1, <1>2, AppendFacts, AppendProperties
<1>7. ExecutedInOrder'
  BY <1>1, <1>2, <1>3, <1>4 DEF ExecutedInOrder, numbering
<1>8. \A x : AnswersRight(x) => x.ack \in DOMAIN executed' /\ x.cmd = executed'[x.ack]
  BY <1>3 DEF AnswersRight
<1>9. AnsweredCommands'
  <2>1. r.ack \in DOMAIN executed' /\ r.cmd = executed'[r.ack]
    BY <1>3, <1>4, <1>5
  <2> HIDE DEF r
  <2>2. \A i \in DOMAIN toController' :
          toController'[i].ack # 0 => AnswersRight(toController[i])'
    BY <1>6, <1>8, <2>1 DEF AnsweredCommands, AnswersRight
  <2>3. \A x \in responseMessageBuffer' : AnswersRight(x)'
    BY <1>8 DEF AnsweredCommands, AnswersRight, reporting
  <2> QED BY <2>2, <2>3 DEF AnsweredCommands
<1>10. ShownInOrder'
  BY <1>1, <1>3 DEF ShownInOrder, reporting
<1> QED BY <1>1, <1>2, <1>3, <1>4, <1>7, <1>9, <1>10

\* Handler prints the response that is next in the order of the numbers.
LEMMA ShowInv ==
  ASSUME TypeOK, ShownInOrder, NEW m \in Response, AnswersRight(m),
         m.ack = lastProcessedAckNum + 1, Show(m), UNCHANGED executing
  PROVE  /\ ShownInOrder'
         /\ Len(shown) < Len(executed)
         /\ shown' = Append(shown, executed[Len(shown) + 1])
<1>1. /\ DOMAIN executed = 1..Len(executed) /\ Len(executed) \in Nat
      /\ shown \in Seq(Command) /\ m.cmd \in Command
  BY LenProperties DEF TypeOK, Response
<1>2. shown' = Append(shown, m.cmd) /\ lastProcessedAckNum' = lastProcessedAckNum + 1
  BY DEF Show
<1>3. /\ Len(shown') = Len(shown) + 1 /\ Len(shown) \in Nat
      /\ DOMAIN shown' = 1..(Len(shown) + 1) /\ DOMAIN shown = 1..Len(shown)
      /\ \A i \in DOMAIN shown : shown'[i] = shown[i]
      /\ shown'[Len(shown) + 1] = m.cmd
  BY <1>1, <1>2, AppendFacts
<1>4. m.ack = Len(shown) + 1 /\ m.ack \in DOMAIN executed /\ m.cmd = executed[m.ack]
  BY DEF ShownInOrder, AnswersRight
<1>5. ShownInOrder'
  BY <1>1, <1>2, <1>3, <1>4 DEF ShownInOrder, executing
<1> QED BY <1>1, <1>2, <1>3, <1>4, <1>5

LEMMA AppendPrefix ==
  ASSUME NEW S, NEW s \in Seq(S), NEW e \in S
  PROVE  SubSeq(Append(s, e), 1, Len(s)) = s
<1> DEFINE t == Append(s, e)
           u == SubSeq(t, 1, Len(s))
<1>1. /\ t \in Seq(S) /\ Len(t) = Len(s) + 1 /\ Len(s) \in Nat
      /\ \A i \in 1..Len(s) : t[i] = s[i]
  BY AppendProperties, AppendFacts
<1> HIDE DEF t
<1>2. \A i \in 1..Len(s) : t[i] \in S
  BY <1>1, ElementOfSeq
<1>3. /\ u \in Seq(S) /\ Len(u) = Len(s)
      /\ \A i \in 1..Len(s) : u[i] = t[i]
  BY <1>1, <1>2, SubSeqProperties
<1> HIDE DEF u
<1>4. u = s
  BY <1>1, <1>3, SeqEqual
<1> QED BY <1>4 DEF u, t

\* The four parts of the invariant after a step that leaves commands alone but
\* may put an elevation response or request on the connection.
LEMMA OtherStepsInv ==
  ASSUME TypeOK, NumberedCommands, ExecutedInOrder, AnsweredCommands, ShownInOrder,
         UNCHANGED <<seqNum, issued, executing, reporting>>,
         \A t \in Threads : outgoing'[t] # <<>> => outgoing'[t] = outgoing[t],
         \A i \in DOMAIN toAgent' :
           \/ toAgent'[i].seq = 0
           \/ \E j \in DOMAIN toAgent : toAgent'[i] = toAgent[j]
           \/ \E t \in Threads : outgoing[t] # <<>> /\ toAgent'[i] = Head(outgoing[t]),
         \A i \in DOMAIN toController' :
           \/ toController'[i].ack = 0
           \/ \E j \in DOMAIN toController : toController'[i] = toController[j]
  PROVE  NumberedCommands' /\ ExecutedInOrder' /\ AnsweredCommands' /\ ShownInOrder'
<1> USE DEF executing, reporting
<1>1. \A x : NumberedRight(x) => x.seq \in DOMAIN issued' /\ x.cmd = issued'[x.seq]
  BY DEF NumberedRight
<1>2. \A x : AnswersRight(x) => x.ack \in DOMAIN executed' /\ x.cmd = executed'[x.ack]
  BY DEF AnswersRight
<1>3. NumberedCommands'
  <2>1. \A t \in Threads : outgoing'[t] # <<>> => NumberedRight(Head(outgoing[t]))'
    BY <1>1 DEF NumberedCommands, NumberedRight
  <2>2. \A i \in DOMAIN toAgent' : toAgent'[i].seq # 0 => NumberedRight(toAgent[i])'
    BY <1>1 DEF NumberedCommands, NumberedRight
  <2>3. \A m \in requestMessageBuffer' : NumberedRight(m)'
    BY <1>1 DEF NumberedCommands, NumberedRight
  <2> QED BY <2>1, <2>2, <2>3 DEF NumberedCommands
<1>4. AnsweredCommands'
  <2>1. \A i \in DOMAIN toController' :
          toController'[i].ack # 0 => AnswersRight(toController[i])'
    BY <1>2 DEF AnsweredCommands, AnswersRight
  <2>2. \A m \in responseMessageBuffer' : AnswersRight(m)'
    BY <1>2 DEF AnsweredCommands, AnswersRight
  <2> QED BY <2>1, <2>2 DEF AnsweredCommands
<1>5. ExecutedInOrder' /\ ShownInOrder'
  BY DEF ExecutedInOrder, ShownInOrder
<1> QED BY <1>3, <1>4, <1>5

\* The parts of SequencingInv.
Sequenced == NumberedCommands /\ ExecutedInOrder /\ AnsweredCommands /\ ShownInOrder

LEMMA InitSequenced == Init => Sequenced
<1> SUFFICES ASSUME Init PROVE Sequenced
  OBVIOUS
<1>1. NumberedCommands
  BY DEF Init, NumberedCommands
<1>2. ExecutedInOrder /\ ShownInOrder
  BY DEF Init, ExecutedInOrder, ShownInOrder
<1>3. AnsweredCommands
  BY DEF Init, AnsweredCommands
<1> QED BY <1>1, <1>2, <1>3 DEF Sequenced

\* Every step in range keeps the parts, and is a step of CommandService.
LEMMA SequencedStep ==
  ASSUME TypeOK, TypeOK', SeqInRange, SeqInRange', Sequenced, [Next]_vars
  PROVE  Sequenced' /\ [Service!Next]_(Service!vars)
<1> USE DEF numbering, answering, reporting, executing, capturing, mapping
<1>1. NumberedCommands /\ ExecutedInOrder /\ AnsweredCommands /\ ShownInOrder
  BY DEF Sequenced
<1>2. ASSUME NEW t \in Threads, NEW elev \in Nat, NumberCommand(t, elev),
             UNCHANGED <<executing, reporting, toAgent, toController>>
      PROVE  Sequenced' /\ [Service!Next]_(Service!vars)
  <2>1. NumberedCommands' /\ ExecutedInOrder'
    BY <1>1, <1>2, NumberCommandInv
  <2>2. AnsweredCommands' /\ ShownInOrder'
    BY <1>1, <1>2 DEF AnsweredCommands, ShownInOrder, AnswersRight
  <2>3. Service!Issue
    <3> DEFINE cmd == [num |-> seqNum, elev |-> elev]
    <3>1. cmd \in Command /\ issued \in Seq(Command) /\ issued' = Append(issued, cmd)
      BY <1>2 DEF NumberCommand, TypeOK, Command
    <3> HIDE DEF cmd
    <3>2. Len(issued') = Len(issued) + 1 /\ SubSeq(issued', 1, Len(issued)) = issued
      BY <3>1, AppendFacts, AppendPrefix
    <3> QED BY <1>2, <3>2 DEF Service!Issue
  <2> QED BY <2>1, <2>2, <2>3 DEF Sequenced, Service!Next
<1>3. ASSUME NEW m \in CommandMsg, NumberedRight(m),
             m.seq = lastProcessedSeqNum + 1, ProcessCommand(m),
             UNCHANGED <<numbering, reporting>>,
             \A i \in DOMAIN toAgent' :
               \E j \in DOMAIN toAgent : toAgent'[i] = toAgent[j],
             requestMessageBuffer' \subseteq requestMessageBuffer
      PROVE  Sequenced' /\ [Service!Next]_(Service!vars)
  <2>1. /\ ExecutedInOrder' /\ AnsweredCommands' /\ ShownInOrder'
        /\ Len(executed) < Len(issued)
        /\ executed' = Append(executed, issued[Len(executed) + 1])
    BY <1>1, <1>3, ProcessCommandInv
  <2>2. NumberedCommands'
    BY <1>1, <1>3 DEF NumberedCommands, NumberedRight
  <2>3. Service!Execute
    BY <1>3, <2>1 DEF Service!Execute
  <2> QED BY <2>1, <2>2, <2>3 DEF Sequenced, Service!Next
<1>4. ASSUME NEW m \in Response, AnswersRight(m), m.ack = lastProcessedAckNum + 1,
             Show(m), UNCHANGED <<numbering, executing, toAgent>>,
             \A i \in DOMAIN toController' :
               \E j \in DOMAIN toController : toController'[i] = toController[j],
             responseMessageBuffer' \subseteq responseMessageBuffer
      PROVE  Sequenced' /\ [Service!Next]_(Service!vars)
  <2>1. /\ ShownInOrder'
        /\ Len(shown) < Len(executed)
        /\ shown' = Append(shown, executed[Len(shown) + 1])
    BY <1>1, <1>4, ShowInv
  <2>2. NumberedCommands' /\ ExecutedInOrder'
    BY <1>1, <1>4 DEF NumberedCommands, NumberedRight, ExecutedInOrder
  <2>3. AnsweredCommands'
    BY <1>1, <1>4 DEF AnsweredCommands, AnswersRight
  <2>4. Service!Report
    BY <1>4, <2>1 DEF Service!Report
  <2> QED BY <2>1, <2>2, <2>3, <2>4 DEF Sequenced, Service!Next
<1>5. ASSUME UNCHANGED <<seqNum, issued, executing, reporting>>,
             \A t \in Threads : outgoing'[t] # <<>> => outgoing'[t] = outgoing[t],
             \A i \in DOMAIN toAgent' :
               \/ toAgent'[i].seq = 0
               \/ \E j \in DOMAIN toAgent : toAgent'[i] = toAgent[j]
               \/ \E t \in Threads : outgoing[t] # <<>> /\ toAgent'[i] = Head(outgoing[t]),
             \A i \in DOMAIN toController' :
               \/ toController'[i].ack = 0
               \/ \E j \in DOMAIN toController : toController'[i] = toController[j]
      PROVE  Sequenced' /\ [Service!Next]_(Service!vars)
  BY <1>1, <1>5, OtherStepsInv DEF Sequenced, Service!vars
<1>6. toAgent # <<>> =>
        \A i \in DOMAIN Tail(toAgent) :
          \E j \in DOMAIN toAgent : Tail(toAgent)[i] = toAgent[j]
  BY TailFacts DEF TypeOK
<1>7. toController # <<>> =>
        \A i \in DOMAIN Tail(toController) :
          \E j \in DOMAIN toController : Tail(toController)[i] = toController[j]
  BY TailFacts DEF TypeOK
<1>11. ASSUME NEW t \in Others, OtherCommand(t)
       PROVE  Sequenced' /\ [Service!Next]_(Service!vars)
  <2>1. t \in Threads /\ 0 \in Nat
    BY DEF Threads
  <2> QED BY <1>2, <1>11, <2>1 DEF OtherCommand
<1>12. ASSUME NEW p \in Packets, ElevCapture(p)
       PROVE  Sequenced' /\ [Service!Next]_(Service!vars)
  BY <1>5, <1>12 DEF ElevCapture
<1>13. ASSUME NEW t \in Threads, SendCommand(t)
       PROVE  Sequenced' /\ [Service!Next]_(Service!vars)
  <2>1. \A i \in DOMAIN toAgent' :
          \/ \E j \in DOMAIN toAgent : toAgent'[i] = toAgent[j]
          \/ toAgent'[i] = Head(outgoing[t])
    <3>1. Head(outgoing[t]) \in CommandMsg \cup ElevResponse
      BY <1>13, SeqStep DEF TypeOK, SendCommand
    <3> QED BY <1>13, <3>1, AppendFacts DEF TypeOK, SendCommand
  <2>2. \A u \in Threads : outgoing'[u] # <<>> => outgoing'[u] = outgoing[u]
    BY <1>13 DEF TypeOK, SendCommand
  <2> QED BY <1>5, <1>13, <2>1, <2>2 DEF SendCommand
<1>14. ASSUME HandlerResponse PROVE Sequenced' /\ [Service!Next]_(Service!vars)
  <2> PICK m : m = Head(toController)
    OBVIOUS
  <2>1. /\ m \in Response /\ AnswersRight(m)
        /\ toController # <<>>
    BY <1>1, <1>14, ToControllerKinds, TailFacts
       DEF HandlerResponse, AnsweredCommands, TypeOK
  <2>2. CASE m.ack = lastProcessedAckNum + 1
    BY <1>4, <1>7, <1>14, <2>1, <2>2 DEF HandlerResponse
  <2>3. CASE m.ack # lastProcessedAckNum + 1
    <3>1. /\ responseMessageBuffer' = Buffered(responseMessageBuffer, m)
          /\ UNCHANGED <<shown, lastProcessedAckNum>>
          /\ UNCHANGED <<numbering, executing, toAgent>>
          /\ toController' = Tail(toController)
      BY <1>14, <2>3 DEF HandlerResponse
    <3>2. AnsweredCommands'
      BY <1>1, <1>7, <2>1, <3>1 DEF AnsweredCommands, AnswersRight, Buffered
    <3>3. NumberedCommands' /\ ExecutedInOrder' /\ ShownInOrder'
      BY <1>1, <3>1 DEF NumberedCommands, NumberedRight, ExecutedInOrder, ShownInOrder
    <3> QED BY <3>1, <3>2, <3>3 DEF Sequenced, Service!vars
  <2> QED BY <2>2, <2>3
<1>15. ASSUME HandlerDrain PROVE Sequenced' /\ [Service!Next]_(Service!vars)
  <2>1. PICK m \in responseMessageBuffer :
          /\ m.ack = lastProcessedAckNum + 1
          /\ Show(m)
          /\ responseMessageBuffer' = responseMessageBuffer \ {m}
    BY <1>15 DEF HandlerDrain
  <2>2. m \in Response /\ AnswersRight(m)
    BY <1>1 DEF TypeOK, AnsweredCommands
  <2> QED BY <1>4, <1>15, <2>1, <2>2 DEF HandlerDrain
<1>16. ASSUME HandlerRequest PROVE Sequenced' /\ [Service!Next]_(Service!vars)
  BY <1>5, <1>7, <1>16 DEF HandlerRequest
<1>17. ASSUME HandlerItem PROVE Sequenced' /\ [Service!Next]_(Service!vars)
  <2>1. CASE NumberCommand(Handler, elevReqId) /\ UNCHANGED toAgent
    <3>1. Handler \in Threads /\ elevReqId \in Nat
      BY DEF Threads, TypeOK
    <3> QED BY <1>2, <1>17, <2>1, <3>1 DEF HandlerItem
  <2>2. CASE /\ toAgent' = Append(toAgent,
                  [seq |-> 0, ack |-> OnWire(elevReqId), command |-> Head(todo)])
             /\ Head(todo) \in {"retry", "drop"}
             /\ UNCHANGED <<seqNum, outgoing, issued>>
    <3> PICK r : r = [seq |-> 0, ack |-> OnWire(elevReqId), command |-> Head(todo)]
      OBVIOUS
    <3>1. r.seq = 0 /\ r \in CommandMsg \cup ElevResponse
      BY <2>2, OnWireType DEF TypeOK, ElevResponse
    <3>2. \A i \in DOMAIN toAgent' :
            \/ toAgent'[i].seq = 0
            \/ \E j \in DOMAIN toAgent : toAgent'[i] = toAgent[j]
      <4>1. toAgent' = Append(toAgent, r) /\ toAgent \in Seq(CommandMsg \cup ElevResponse)
        BY <2>2 DEF TypeOK
      <4> QED BY <3>1, <4>1, AppendFacts
    <3> QED BY <1>5, <1>17, <2>2, <3>2 DEF HandlerItem
  <2>3. CASE UNCHANGED <<toAgent, seqNum, outgoing, issued>>
    BY <1>5, <1>17, <2>3 DEF HandlerItem
  <2> QED BY <1>17, <2>1, <2>2, <2>3 DEF HandlerItem
<1>18. ASSUME AgentRequest PROVE Sequenced' /\ [Service!Next]_(Service!vars)
  <2> PICK m : m = Head(toAgent)
    OBVIOUS
  <2>1. m.seq # 0 => m \in CommandMsg /\ NumberedRight(m)
    <3>1. m.seq # 0 => m \in CommandMsg
      BY <1>18, ToAgentKinds DEF AgentRequest
    <3>2. m = toAgent[1] /\ 1 \in DOMAIN toAgent
      BY <1>18, TailFacts DEF AgentRequest, TypeOK
    <3> QED BY <1>1, <3>1, <3>2 DEF NumberedCommands
  <2>2. CASE /\ m.seq = lastProcessedSeqNum + 1
             /\ ProcessCommand(m)
             /\ UNCHANGED requestMessageBuffer
    <3>1. m \in CommandMsg /\ NumberedRight(m)
      <4>1. lastProcessedSeqNum + 1 # 0
        BY DEF TypeOK
      <4>2. m.seq # 0
        BY <2>2, <4>1
      <4> QED BY <2>1, <4>2
    <3>2. /\ UNCHANGED <<numbering, reporting>>
          /\ toAgent' = Tail(toAgent) /\ toAgent # <<>>
      BY <1>18 DEF AgentRequest
    <3>3. \A i \in DOMAIN toAgent' : \E j \in DOMAIN toAgent : toAgent'[i] = toAgent[j]
      BY <1>6, <3>2
    <3>4. requestMessageBuffer' \subseteq requestMessageBuffer
      BY <2>2
    <3> QED BY <1>3, <2>2, <3>1, <3>2, <3>3, <3>4
  <2>3. CASE /\ m.seq \notin {0, lastProcessedSeqNum + 1}
             /\ requestMessageBuffer' = Buffered(requestMessageBuffer, m)
             /\ UNCHANGED <<executed, toController, lastProcessedSeqNum>>
    <3>1. /\ UNCHANGED <<numbering, reporting>>
          /\ toAgent' = Tail(toAgent) /\ toAgent # <<>>
      BY <1>18 DEF AgentRequest
    <3>2. NumberedCommands'
      BY <1>1, <1>6, <2>1, <2>3, <3>1 DEF NumberedCommands, NumberedRight, Buffered
    <3>3. ExecutedInOrder' /\ AnsweredCommands' /\ ShownInOrder'
      BY <1>1, <2>3, <3>1
         DEF ExecutedInOrder, AnsweredCommands, AnswersRight, ShownInOrder
    <3> QED BY <2>3, <3>1, <3>2, <3>3 DEF Sequenced, Service!vars
  <2>4. CASE UNCHANGED <<executing, toController>>
    BY <1>5, <1>6, <1>18, <2>4 DEF AgentRequest
  <2> QED BY <1>18, <2>2, <2>3, <2>4 DEF AgentRequest
<1>19. ASSUME AgentDrain PROVE Sequenced' /\ [Service!Next]_(Service!vars)
  <2>1. PICK m \in requestMessageBuffer :
          /\ m.seq = lastProcessedSeqNum + 1
          /\ ProcessCommand(m)
          /\ requestMessageBuffer' = requestMessageBuffer \ {m}
    BY <1>19 DEF AgentDrain
  <2>2. m \in CommandMsg /\ NumberedRight(m)
    BY <1>1 DEF TypeOK, NumberedCommands
  <2> QED BY <1>3, <1>19, <2>1, <2>2 DEF AgentDrain
<1>20. ASSUME AgentElevResponse PROVE Sequenced' /\ [Service!Next]_(Service!vars)
  BY <1>5, <1>6, <1>20 DEF AgentElevResponse
<1>21. ASSUME ElevStore PROVE Sequenced' /\ [Service!Next]_(Service!vars)
  BY <1>5, <1>21 DEF ElevStore
<1>22. ASSUME ElevSend PROVE Sequenced' /\ [Service!Next]_(Service!vars)
  <2> PICK r : r = [seq |-> OnWire(elevSeq), ack |-> 0, packet |-> receivedPacket]
    OBVIOUS
  <2>1. r.ack = 0 /\ r \in Response \cup ElevRequest
    BY <1>22, OnWireType DEF TypeOK, ElevSend, ElevRequest
  <2>2. \A i \in DOMAIN toController' :
          \/ toController'[i].ack = 0
          \/ \E j \in DOMAIN toController : toController'[i] = toController[j]
    BY <1>22, <2>1, AppendFacts DEF TypeOK, ElevSend
  <2> QED BY <1>5, <1>22, <2>2 DEF ElevSend
<1>23. ASSUME UNCHANGED vars PROVE Sequenced' /\ [Service!Next]_(Service!vars)
  BY <1>5, <1>23 DEF vars
<1> QED BY <1>11, <1>12, <1>13, <1>14, <1>15, <1>16, <1>17, <1>18, <1>19, <1>20,
           <1>21, <1>22, <1>23 DEF Next, Input, HandlerStep, AgentStep, ElevStep, Quiescent

LEMMA SequencingInductive == TypeOK /\ TypeOK' /\ SequencingInv /\ [Next]_vars => SequencingInv'
<1> SUFFICES ASSUME TypeOK, TypeOK', SequencingInv, [Next]_vars, SeqInRange'
             PROVE  Sequenced'
  BY DEF SequencingInv, Sequenced
<1>1. SeqInRange
  BY RangeBackwards
<1>2. Sequenced
  BY <1>1 DEF SequencingInv, Sequenced
<1> QED BY <1>1, <1>2, SequencedStep

\* sendCommand, the two reordering buffers and the two counters keep numbers and
\* commands together in every session whose numbers fit the wire.
THEOREM SequencingCorrect == Spec => []SequencingInv
<1>1. Init => SequencingInv
  BY InitSequenced DEF SequencingInv, Sequenced
<1> QED BY <1>1, SequencingInductive, TypeCorrect, PTL DEF Spec

\* For every number of threads and commands, a session whose numbers fit the
\* wire executes the commands once each, in the order sendCommand numbered
\* them, and prints their responses in this order: it implements the safety
\* part of CommandService.
THEOREM CommandsInOrder == Spec /\ []SeqInRange => InOrder
<1>1. Init => Service!Init
  BY DEF Init, Service!Init
<1>2. TypeOK /\ TypeOK' /\ SeqInRange /\ SeqInRange' /\ SequencingInv /\ [Next]_vars
        => [Service!Next]_(Service!vars)
  BY SequencedStep DEF SequencingInv, Sequenced
<1> QED BY <1>1, <1>2, TypeCorrect, SequencingCorrect, PTL
        DEF Spec, InOrder, Service!SafeSpec

-----------------------------------------------------------------------------
(* The controller never has a response to reorder *)

\* Consecutive is kept when the head is taken, and when the next response or
\* something else is appended.
LEMMA ConsecutiveTail ==
  ASSUME NEW S, NEW q \in Seq(S), q # <<>>, NEW a \in Nat, NEW n \in Nat,
         \A e \in S : e.ack \in Nat, Consecutive(q, a, n)
  PROVE  /\ Head(q).ack # 0 => Head(q).ack = a + 1 /\ Consecutive(Tail(q), a + 1, n)
         /\ Head(q).ack = 0 => Consecutive(Tail(q), a, n)
<1>1. /\ Len(q) \in Nat \ {0} /\ Head(q) = q[1] /\ DOMAIN q = 1..Len(q)
      /\ DOMAIN Tail(q) = 1..(Len(q) - 1)
      /\ \A i \in DOMAIN Tail(q) : i + 1 \in DOMAIN q /\ Tail(q)[i] = q[i + 1]
  BY HeadTailProperties, LenProperties
<1>2. \A i \in DOMAIN q : q[i].ack \in Nat
  BY ElementOfSeq, <1>1
<1>3. \A i, j \in DOMAIN Tail(q) :
        i < j /\ Tail(q)[i].ack # 0 /\ Tail(q)[j].ack # 0 => Tail(q)[i].ack < Tail(q)[j].ack
  BY <1>1 DEF Consecutive
<1>4. ASSUME q[1].ack # 0
      PROVE  q[1].ack = a + 1 /\ Consecutive(Tail(q), a + 1, n)
  <2>1. q[1].ack = a + 1
    BY <1>1, <1>4 DEF Consecutive
  <2>2. ASSUME NEW i \in DOMAIN Tail(q), Tail(q)[i].ack # 0
        PROVE  /\ Tail(q)[i].ack <= n
               /\ \/ Tail(q)[i].ack = a + 1 + 1
                  \/ \E j \in 1..(i - 1) : /\ Tail(q)[j].ack # 0
                                           /\ Tail(q)[j].ack = Tail(q)[i].ack - 1
    <3>1. i + 1 \in DOMAIN q /\ Tail(q)[i] = q[i + 1] /\ i \in Nat \ {0} /\ 1 \in DOMAIN q
      BY <1>1
    <3>2. q[i + 1].ack <= n /\ q[1].ack < q[i + 1].ack
      BY <1>4, <2>2, <3>1 DEF Consecutive
    <3>3. PICK j \in 1..i : q[j].ack # 0 /\ q[j].ack = q[i + 1].ack - 1
      BY <1>2, <2>1, <2>2, <3>1, <3>2 DEF Consecutive
    <3>4. CASE j = 1
      BY <2>1, <3>1, <3>2, <3>3, <3>4, <1>2
    <3>5. CASE j # 1
      <4>1. j - 1 \in 1..(i - 1) /\ j - 1 \in DOMAIN Tail(q) /\ Tail(q)[j - 1] = q[j]
        BY <1>1, <3>1, <3>3, <3>5
      <4> QED BY <3>1, <3>2, <3>3, <4>1
    <3> QED BY <3>4, <3>5
  <2>3. n = a + 1 \/ \E i \in DOMAIN Tail(q) : Tail(q)[i].ack # 0 /\ Tail(q)[i].ack = n
    <3>1. n # a
      BY <1>1, <1>4, <2>1 DEF Consecutive
    <3>2. PICK i \in DOMAIN q : q[i].ack # 0 /\ q[i].ack = n
      BY <3>1 DEF Consecutive
    <3>3. i # 1 => i - 1 \in DOMAIN Tail(q) /\ Tail(q)[i - 1] = q[i]
      BY <1>1
    <3> QED BY <2>1, <3>2, <3>3
  <2> QED BY <2>1, <2>2, <2>3, <1>3 DEF Consecutive
<1>5. ASSUME q[1].ack = 0
      PROVE  Consecutive(Tail(q), a, n)
  <2>1. ASSUME NEW i \in DOMAIN Tail(q), Tail(q)[i].ack # 0
        PROVE  /\ Tail(q)[i].ack <= n
               /\ \/ Tail(q)[i].ack = a + 1
                  \/ \E j \in 1..(i - 1) : /\ Tail(q)[j].ack # 0
                                           /\ Tail(q)[j].ack = Tail(q)[i].ack - 1
    <3>1. i + 1 \in DOMAIN q /\ Tail(q)[i] = q[i + 1] /\ i \in Nat \ {0}
      BY <1>1
    <3>2. q[i + 1].ack <= n
      BY <2>1, <3>1 DEF Consecutive
    <3>3. CASE q[i + 1].ack = a + 1
      BY <3>1, <3>2, <3>3
    <3>4. CASE \E j \in 1..i : q[j].ack # 0 /\ q[j].ack = q[i + 1].ack - 1
      <4>1. PICK j \in 1..i : q[j].ack # 0 /\ q[j].ack = q[i + 1].ack - 1
        BY <3>4
      <4>2. j - 1 \in 1..(i - 1) /\ j - 1 \in DOMAIN Tail(q) /\ Tail(q)[j - 1] = q[j]
        BY <1>1, <1>5, <3>1, <4>1
      <4> QED BY <3>1, <3>2, <4>1, <4>2
    <3> QED BY <2>1, <3>1, <3>3, <3>4 DEF Consecutive
  <2>2. n = a \/ \E i \in DOMAIN Tail(q) : Tail(q)[i].ack # 0 /\ Tail(q)[i].ack = n
    <3>1. \A i \in DOMAIN q : i # 1 => i - 1 \in DOMAIN Tail(q) /\ Tail(q)[i - 1] = q[i]
      BY <1>1
    <3> QED BY <1>5, <3>1 DEF Consecutive
  <2> QED BY <2>1, <2>2, <1>3 DEF Consecutive
<1> QED BY <1>1, <1>4, <1>5

LEMMA ConsecutiveAppend ==
  ASSUME NEW S, NEW q \in Seq(S), NEW e \in S, NEW a \in Nat, NEW n \in Nat,
         \A x \in S : x.ack \in Nat, Consecutive(q, a, n)
  PROVE  /\ e.ack = n + 1 => Consecutive(Append(q, e), a, n + 1)
         /\ e.ack = 0 => Consecutive(Append(q, e), a, n)
<1> DEFINE r == Append(q, e)
<1>1. /\ Len(q) \in Nat /\ DOMAIN r = 1..(Len(q) + 1) /\ DOMAIN q = 1..Len(q)
      /\ \A i \in DOMAIN q : r[i] = q[i]
      /\ r[Len(q) + 1] = e
  BY AppendFacts
<1> HIDE DEF r
<1>2. \A i \in DOMAIN q : q[i].ack \in Nat
  BY ElementOfSeq, <1>1
<1>3. ASSUME e.ack = n + 1 PROVE Consecutive(r, a, n + 1)
  <2>1. ASSUME NEW i \in DOMAIN r, r[i].ack # 0
        PROVE  /\ r[i].ack <= n + 1
               /\ \/ r[i].ack = a + 1
                  \/ \E j \in 1..(i - 1) : r[j].ack # 0 /\ r[j].ack = r[i].ack - 1
    <3>1. CASE i \in DOMAIN q
      <4>1. /\ q[i].ack <= n /\ q[i].ack \in Nat
            /\ \/ q[i].ack = a + 1
               \/ \E j \in 1..(i - 1) : q[j].ack # 0 /\ q[j].ack = q[i].ack - 1
        BY <1>1, <1>2, <2>1, <3>1 DEF Consecutive
      <4>2. r[i] = q[i] /\ \A j \in 1..(i - 1) : r[j] = q[j]
        BY <1>1, <3>1
      <4> QED BY <4>1, <4>2
    <3>2. CASE i = Len(q) + 1
      <4>1. r[i].ack = n + 1
        BY <1>1, <1>3, <3>2
      <4>2. n = a \/ \E j \in 1..(i - 1) : q[j].ack # 0 /\ q[j].ack = n
        BY <1>1, <3>2 DEF Consecutive
      <4>3. \A j \in 1..(i - 1) : r[j] = q[j]
        BY <1>1, <3>2
      <4> QED BY <4>1, <4>2, <4>3
    <3> QED BY <1>1, <3>1, <3>2
  <2>2. \A i, j \in DOMAIN r : i < j /\ r[i].ack # 0 /\ r[j].ack # 0 => r[i].ack < r[j].ack
    <3> SUFFICES ASSUME NEW i \in DOMAIN r, NEW j \in DOMAIN r, i < j, r[i].ack # 0, r[j].ack # 0
                 PROVE  r[i].ack < r[j].ack
      OBVIOUS
    <3>1. i \in DOMAIN q /\ r[i] = q[i] /\ q[i].ack \in Nat
      BY <1>1, <1>2
    <3>2. CASE j \in DOMAIN q
      BY <1>1, <3>1, <3>2 DEF Consecutive
    <3>3. CASE j = Len(q) + 1
      <4>1. r[j].ack = n + 1 /\ q[i].ack <= n
        BY <1>1, <1>3, <3>1, <3>3 DEF Consecutive
      <4> QED BY <3>1, <4>1
    <3> QED BY <1>1, <3>2, <3>3
  <2>3. \E i \in DOMAIN r : r[i].ack # 0 /\ r[i].ack = n + 1
    BY <1>1, <1>3
  <2> QED BY <2>1, <2>2, <2>3 DEF Consecutive
<1>4. ASSUME e.ack = 0 PROVE Consecutive(r, a, n)
  <2>0. \A i \in DOMAIN r : r[i].ack # 0 =>
          i \in DOMAIN q /\ r[i] = q[i] /\ \A j \in 1..(i - 1) : r[j] = q[j]
    <3> SUFFICES ASSUME NEW i \in DOMAIN r, r[i].ack # 0
                 PROVE  i \in DOMAIN q /\ r[i] = q[i] /\ \A j \in 1..(i - 1) : r[j] = q[j]
      OBVIOUS
    <3>1. i # Len(q) + 1
      BY <1>1, <1>4
    <3>2. i \in DOMAIN q /\ 1..(i - 1) \subseteq DOMAIN q
      BY <1>1, <3>1
    <3> QED BY <1>1, <3>2
  <2>1. ASSUME NEW i \in DOMAIN r, r[i].ack # 0
        PROVE  /\ r[i].ack <= n
               /\ \/ r[i].ack = a + 1
                  \/ \E j \in 1..(i - 1) : r[j].ack # 0 /\ r[j].ack = r[i].ack - 1
    BY <2>0, <2>1 DEF Consecutive
  <2>2. \A i, j \in DOMAIN r : i < j /\ r[i].ack # 0 /\ r[j].ack # 0 => r[i].ack < r[j].ack
    BY <2>0 DEF Consecutive
  <2>3. n = a \/ \E i \in DOMAIN r : r[i].ack # 0 /\ r[i].ack = n
    BY <1>1 DEF Consecutive
  <2> QED BY <2>1, <2>2, <2>3 DEF Consecutive
<1> QED BY <1>3, <1>4 DEF r

LEMMA ResponsesInductive ==
  ASSUME TypeOK, TypeOK', SequencingInv, SequencingInv', ResponsesInv, [Next]_vars
  PROVE  ResponsesInv'
<1> SUFFICES ASSUME SeqInRange'
             PROVE  /\ responseMessageBuffer' = {}
                    /\ Consecutive(toController, lastProcessedAckNum, Len(executed))'
  BY DEF ResponsesInv
<1> DEFINE a == lastProcessedAckNum
           n == Len(executed)
           S == Response \cup ElevRequest
<1>1. /\ SeqInRange /\ Sequenced
      /\ responseMessageBuffer = {} /\ Consecutive(toController, a, n)
  BY RangeBackwards DEF ResponsesInv, SequencingInv, Sequenced
<1>2. /\ a \in Nat /\ n \in Nat /\ toController \in Seq(S)
      /\ executed \in Seq(Command)
      /\ \A e \in S : e.ack \in Nat
  <2>1. executed \in Seq(Command) /\ a \in Nat /\ toController \in Seq(S)
    BY DEF TypeOK
  <2>2. n \in Nat
    BY <2>1, LenProperties
  <2>3. \A e \in S : e.ack \in Nat
    BY DEF Response, ElevRequest
  <2> QED BY <2>1, <2>2, <2>3
<1> USE DEF numbering, answering, reporting, executing, capturing, mapping
<1>3. ASSUME UNCHANGED <<toController, reporting, executed>>
      PROVE  /\ responseMessageBuffer' = {}
             /\ Consecutive(toController, lastProcessedAckNum, Len(executed))'
  BY <1>1, <1>3 DEF Consecutive
<1>4. ASSUME NEW m \in CommandMsg, m.seq = lastProcessedSeqNum + 1, NumberedRight(m),
             ProcessCommand(m), UNCHANGED reporting
      PROVE  /\ responseMessageBuffer' = {}
             /\ Consecutive(toController, lastProcessedAckNum, Len(executed))'
  <2> DEFINE r == [seq |-> 0, ack |-> OnWire(m.seq), cmd |-> m.cmd]
  <2>1. m.seq = n + 1 /\ m.seq < seqNum /\ m.cmd \in Command
    <3>1. m.seq = n + 1 /\ m.seq \in DOMAIN issued
      BY <1>1, <1>4 DEF Sequenced, ExecutedInOrder, NumberedRight
    <3>2. DOMAIN issued = 1..Len(issued) /\ Len(issued) = seqNum - 1 /\ seqNum \in Nat
      BY <1>1, LenProperties DEF Sequenced, NumberedCommands, TypeOK
    <3> QED BY <3>1, <3>2, <1>4 DEF CommandMsg
  <2>2. OnWire(m.seq) = n + 1
    BY <1>1, <1>2, <2>1, InRangeOnWire
  <2>3. r \in S /\ r.ack = n + 1
    BY <1>2, <2>1, <2>2 DEF Response
  <2>4. Len(executed') = n + 1
    BY <1>2, <1>4, <2>1, AppendFacts DEF ProcessCommand
  <2>5. toController' = Append(toController, r)
    BY <1>4 DEF ProcessCommand
  <2> HIDE DEF r, S
  <2>6. Consecutive(Append(toController, r), a, n + 1)
    BY <1>1, <1>2, <2>3, ConsecutiveAppend
  <2> QED BY <1>1, <1>4, <2>4, <2>5, <2>6 DEF Consecutive
<1>11. ASSUME NEW t \in Others, OtherCommand(t)
       PROVE  /\ responseMessageBuffer' = {}
              /\ Consecutive(toController, lastProcessedAckNum, Len(executed))'
  BY <1>3, <1>11 DEF OtherCommand
<1>12. ASSUME NEW p \in Packets, ElevCapture(p)
       PROVE  /\ responseMessageBuffer' = {}
              /\ Consecutive(toController, lastProcessedAckNum, Len(executed))'
  BY <1>3, <1>12 DEF ElevCapture
<1>13. ASSUME NEW t \in Threads, SendCommand(t)
       PROVE  /\ responseMessageBuffer' = {}
              /\ Consecutive(toController, lastProcessedAckNum, Len(executed))'
  BY <1>3, <1>13 DEF SendCommand
<1>14. CASE HandlerResponse
  <2>1. toController # <<>> /\ Head(toController).ack # 0 /\ executed' = executed
        /\ toController' = Tail(toController)
    BY <1>14 DEF HandlerResponse
  <2>2. Head(toController).ack = a + 1 /\ Consecutive(Tail(toController), a + 1, n)
    <3> HIDE DEF S, a, n
    <3> QED BY <1>1, <1>2, <2>1, ConsecutiveTail
  <2>3. lastProcessedAckNum' = a + 1 /\ UNCHANGED responseMessageBuffer
    BY <1>14, <2>2 DEF HandlerResponse, Show
  <2> QED BY <1>1, <2>1, <2>2, <2>3 DEF Consecutive
<1>15. CASE HandlerDrain
  BY <1>1, <1>15 DEF HandlerDrain
<1>16. CASE HandlerRequest
  <2>1. toController # <<>> /\ Head(toController).ack = 0
        /\ toController' = Tail(toController) /\ UNCHANGED <<reporting, executed>>
    BY <1>16 DEF HandlerRequest
  <2>2. Consecutive(Tail(toController), a, n)
    <3> HIDE DEF S, a, n
    <3> QED BY <1>1, <1>2, <2>1, ConsecutiveTail
  <2> QED BY <1>1, <2>1, <2>2 DEF Consecutive
<1>17. CASE HandlerItem
  BY <1>3, <1>17 DEF HandlerItem
<1>18. CASE AgentRequest
  <2> PICK m : m = Head(toAgent)
    OBVIOUS
  <2>1. CASE /\ m.seq = lastProcessedSeqNum + 1
             /\ ProcessCommand(m)
             /\ UNCHANGED requestMessageBuffer
    <3>1. m.seq # 0
      <4>1. lastProcessedSeqNum + 1 # 0
        BY DEF TypeOK
      <4> QED BY <2>1, <4>1
    <3>2. m \in CommandMsg /\ NumberedRight(m)
      <4>1. m \in CommandMsg
        BY <1>18, <3>1, ToAgentKinds DEF AgentRequest
      <4>2. m = toAgent[1] /\ 1 \in DOMAIN toAgent
        BY <1>18, TailFacts DEF AgentRequest, TypeOK
      <4>3. NumberedCommands
        BY <1>1 DEF Sequenced
      <4> QED BY <3>1, <4>1, <4>2, <4>3 DEF NumberedCommands
    <3>3. UNCHANGED reporting
      BY <1>18 DEF AgentRequest
    <3> QED BY <1>4, <2>1, <3>2, <3>3
  <2>2. CASE UNCHANGED <<executed, toController, lastProcessedSeqNum>>
    BY <1>3, <1>18, <2>2 DEF AgentRequest
  <2> QED BY <1>18, <2>1, <2>2 DEF AgentRequest
<1>19. CASE AgentDrain
  <2>1. PICK m \in requestMessageBuffer :
          m.seq = lastProcessedSeqNum + 1 /\ ProcessCommand(m)
    BY <1>19 DEF AgentDrain
  <2>2. m \in CommandMsg /\ NumberedRight(m)
    BY <1>1 DEF TypeOK, Sequenced, NumberedCommands
  <2>3. UNCHANGED reporting
    BY <1>19 DEF AgentDrain
  <2> QED BY <1>4, <2>1, <2>2, <2>3
<1>20. CASE AgentElevResponse
  BY <1>3, <1>20 DEF AgentElevResponse
<1>21. CASE ElevStore
  BY <1>3, <1>21 DEF ElevStore
<1>22. CASE ElevSend
  <2> DEFINE r == [seq |-> OnWire(elevSeq), ack |-> 0, packet |-> receivedPacket]
  <2>1. r \in S /\ r.ack = 0
    BY <1>22, OnWireType DEF TypeOK, ElevSend, ElevRequest
  <2>2. toController' = Append(toController, r) /\ UNCHANGED <<reporting, executed>>
    BY <1>22 DEF ElevSend
  <2> HIDE DEF r, S
  <2>3. Consecutive(Append(toController, r), a, n)
    BY <1>1, <1>2, <2>1, ConsecutiveAppend
  <2> QED BY <1>1, <2>2, <2>3 DEF Consecutive
<1>23. CASE UNCHANGED vars
  BY <1>3, <1>23 DEF vars
<1> QED BY <1>11, <1>12, <1>13, <1>14, <1>15, <1>16, <1>17, <1>18, <1>19, <1>20,
           <1>21, <1>22, <1>23 DEF Next, Input, HandlerStep, AgentStep, ElevStep, Quiescent

\* processConnectedHost's buffer of responses stays empty: the agent answers in
\* order, so a response never waits for an earlier one.
THEOREM NothingToReorder == Spec => []ResponsesArriveInOrder
<1>1. Init => ResponsesInv
  BY DEF Init, ResponsesInv, Consecutive
<1>2. ResponsesInv => ResponsesArriveInOrder
  BY DEF ResponsesInv, ResponsesArriveInOrder
<1> QED BY <1>1, <1>2, ResponsesInductive, TypeCorrect, SequencingCorrect, PTL DEF Spec

-----------------------------------------------------------------------------
(* Counting in a queue *)

\* Where the members of M are in the sequence q.
Places(q, M) == {i \in DOMAIN q : q[i] \in M}

LEMMA PlacesFinite ==
  ASSUME NEW S, NEW q \in Seq(S), NEW M
  PROVE  IsFiniteSet(Places(q, M)) /\ Cardinality(Places(q, M)) \in Nat
<1>1. IsFiniteSet(DOMAIN q)
  BY LenProperties, FS_Interval
<1>2. Places(q, M) \in SUBSET DOMAIN q
  BY DEF Places
<1> HIDE DEF Places
<1> QED BY <1>1, <1>2, FS_Subset, FS_CardinalityType

LEMMA PlacesAppend ==
  ASSUME NEW S, NEW q \in Seq(S), NEW e \in S, NEW M
  PROVE  Cardinality(Places(Append(q, e), M))
           = Cardinality(Places(q, M)) + (IF e \in M THEN 1 ELSE 0)
<1> DEFINE n == Len(q) + 1
<1>1. /\ DOMAIN q = 1..Len(q) /\ Len(q) \in Nat
      /\ DOMAIN Append(q, e) = 1..n /\ Append(q, e)[n] = e
      /\ \A i \in DOMAIN q : Append(q, e)[i] = q[i]
  BY AppendFacts
<1>2. n \notin Places(q, M)
  BY <1>1 DEF Places
<1>3. Places(Append(q, e), M) = IF e \in M THEN Places(q, M) \cup {n} ELSE Places(q, M)
  BY <1>1 DEF Places
<1>4. IsFiniteSet(Places(q, M)) /\ Cardinality(Places(q, M)) \in Nat
  BY PlacesFinite
<1>5. Cardinality(Places(q, M) \cup {n}) = Cardinality(Places(q, M)) + 1
  <2> HIDE DEF n
  <2> QED BY <1>2, <1>4, FS_AddElement
<1> HIDE DEF n
<1> QED BY <1>3, <1>4, <1>5

LEMMA PlacesTail ==
  ASSUME NEW S, NEW q \in Seq(S), q # <<>>, NEW M
  PROVE  Cardinality(Places(q, M))
           = Cardinality(Places(Tail(q), M)) + (IF Head(q) \in M THEN 1 ELSE 0)
<1> DEFINE P == Places(Tail(q), M)
           Q == Places(q, M) \ {1}
           f == [i \in P |-> i + 1]
<1>1. /\ DOMAIN q = 1..Len(q) /\ Len(q) \in Nat \ {0} /\ Head(q) = q[1]
      /\ Tail(q) \in Seq(S) /\ DOMAIN Tail(q) = 1..(Len(q) - 1)
      /\ \A i \in 1..(Len(q) - 1) : Tail(q)[i] = q[i + 1]
  BY TailFacts, HeadTailProperties, LenProperties
<1>2. P = {i \in 1..(Len(q) - 1) : q[i + 1] \in M}
  BY <1>1 DEF Places
<1>3. Q = {i \in 2..Len(q) : q[i] \in M}
  BY <1>1 DEF Places
<1>4. 1 \in Places(q, M) <=> Head(q) \in M
  BY <1>1 DEF Places
<1>5. IsFiniteSet(P) /\ IsFiniteSet(Places(q, M)) /\ Cardinality(Places(q, M)) \in Nat
  BY <1>1, PlacesFinite
<1> HIDE DEF P, Q
<1>6. ExistsBijection(P, Q)
  <2>1. f \in [P -> Q]
    BY <1>1, <1>2, <1>3
  <2>2. \A i, j \in P : f[i] = f[j] => i = j
    BY <1>1, <1>2
  <2>3. \A k \in Q : \E i \in P : f[i] = k
    <3> TAKE k \in Q
    <3>1. k - 1 \in P /\ k - 1 + 1 = k
      BY <1>1, <1>2, <1>3
    <3> QED BY <3>1
  <2>4. f \in Bijection(P, Q)
    BY <2>1, <2>2, <2>3 DEF Bijection, Injection, Surjection, IsInjective
  <2> QED BY <2>4 DEF ExistsBijection
<1>7. Cardinality(Q) = Cardinality(P)
  BY <1>5, <1>6, FS_Bijection
<1>8. Cardinality(Q) = IF Head(q) \in M THEN Cardinality(Places(q, M)) - 1
                       ELSE Cardinality(Places(q, M))
  BY <1>4, <1>5, FS_RemoveElement DEF Q
<1> QED BY <1>5, <1>7, <1>8 DEF P

-----------------------------------------------------------------------------
(* No command is lost or doubled *)

\* Command c was numbered; message m has the number of its command.
Known(c) == c.num \in DOMAIN issued /\ c = issued[c.num]
Genuine(m) == m.seq = OnWire(m.cmd.num) /\ Known(m.cmd)

\* The messages that carry command c, and where it is.
Carrying(c) == {m \in CommandMsg : m.cmd = c}
BuiltBy(c) == {t \in Threads : outgoing[t] # <<>> /\ Head(outgoing[t]).cmd = c}
BufferedAs(c) == {m \in requestMessageBuffer : m.cmd = c}

Settled(c) == Copies(c) = 1 \/ (Copies(c) = 0 /\ Mistaken(c.num))

\* Commands are where their numbers put them, whatever these look like on the wire.
Traced ==
  /\ Len(issued) = seqNum - 1
  /\ \A j \in DOMAIN issued : issued[j].num = j
  /\ \A t \in Threads : outgoing[t] # <<>> => Genuine(Head(outgoing[t]))
  /\ \A t, u \in Threads :
       outgoing[t] # <<>> /\ outgoing[u] # <<>> /\ Head(outgoing[t]).cmd = Head(outgoing[u]).cmd
         => t = u
  /\ \A i \in DOMAIN toAgent : toAgent[i] \in CommandMsg => Genuine(toAgent[i])
  /\ \A m \in requestMessageBuffer : Genuine(m)
  /\ \A i \in DOMAIN executed : Known(executed[i])

LEMMA CopiesAre ==
  ASSUME TypeOK, NEW c
  PROVE  Copies(c) = Cardinality(BuiltBy(c)) + Cardinality(Places(toAgent, Carrying(c)))
                       + Cardinality(BufferedAs(c)) + Cardinality(Places(executed, {c}))
<1>1. \A t \in Threads : outgoing[t] # <<>> => Head(outgoing[t]) \in CommandMsg
  BY SeqStep DEF TypeOK
<1>2. BuiltBy(c) = {t \in Threads : outgoing[t] # <<>> /\ Head(outgoing[t]) \in CommandMsg
                                      /\ Head(outgoing[t]).cmd = c}
  BY <1>1 DEF BuiltBy
<1>3. Places(toAgent, Carrying(c))
        = {i \in DOMAIN toAgent : toAgent[i] \in CommandMsg /\ toAgent[i].cmd = c}
  BY DEF Places, Carrying
<1>4. Places(executed, {c}) = {i \in DOMAIN executed : executed[i] = c}
  BY DEF Places
<1> QED BY <1>2, <1>3, <1>4 DEF Copies, BufferedAs

\* In the threads and in the buffer a command is once or not at all.
LEMMA BuiltOnce ==
  ASSUME Traced, NEW c
  PROVE  Cardinality(BuiltBy(c)) = IF BuiltBy(c) = {} THEN 0 ELSE 1
<1>1. \A t, u \in BuiltBy(c) : t = u
  BY DEF BuiltBy, Traced
<1>2. ASSUME NEW t \in BuiltBy(c) PROVE Cardinality(BuiltBy(c)) = 1
  <2>1. BuiltBy(c) = {t}
    BY <1>1
  <2> QED BY <2>1, FS_Singleton
<1> QED BY <1>2, FS_EmptySet

LEMMA BufferedOnce ==
  ASSUME TypeOK, Traced, NEW c
  PROVE  Cardinality(BufferedAs(c)) = IF BufferedAs(c) = {} THEN 0 ELSE 1
<1>1. \A m, n \in BufferedAs(c) : m = n
  <2> TAKE m, n \in BufferedAs(c)
  <2>1. m.seq = OnWire(c.num) /\ n.seq = OnWire(c.num) /\ m.cmd = c /\ n.cmd = c
    BY DEF BufferedAs, Traced, Genuine
  <2>2. m \in CommandMsg /\ n \in CommandMsg
    BY DEF BufferedAs, TypeOK
  <2> QED BY <2>1, <2>2 DEF CommandMsg
<1>2. ASSUME NEW m \in BufferedAs(c) PROVE Cardinality(BufferedAs(c)) = 1
  <2>1. BufferedAs(c) = {m}
    BY <1>1
  <2> QED BY <2>1, FS_Singleton
<1> QED BY <1>2, FS_EmptySet

LEMMA PlacesNat ==
  ASSUME TypeOK, NEW c
  PROVE  /\ Cardinality(Places(toAgent, Carrying(c))) \in Nat
         /\ Cardinality(Places(executed, {c})) \in Nat
BY PlacesFinite DEF TypeOK

EachSettled == \A c \in Command : Known(c) => Settled(c)

\* What was settled is looked at one command at a time.
LEMMA EachIsSettled ==
  ASSUME TypeOK, Traced
  PROVE  EachCommandInOnePlace <=> EachSettled
<1>1. \A i \in DOMAIN issued : /\ issued[i] \in Command /\ issued[i].num = i
                               /\ Known(issued[i])
  BY LenProperties, ElementOfSeq DEF TypeOK, Traced, Known
<1>2. ASSUME EachCommandInOnePlace, NEW c \in Command, Known(c) PROVE Settled(c)
  BY <1>2 DEF EachCommandInOnePlace, Settled, Known
<1>3. ASSUME EachSettled PROVE EachCommandInOnePlace
  BY <1>1, <1>3 DEF EachCommandInOnePlace, EachSettled, Settled
<1> QED BY <1>2, <1>3 DEF EachSettled

\* Numbering another command takes nothing back.
LEMMA IssuedGrows ==
  ASSUME TypeOK, Traced, NEW x \in Command, issued' = Append(issued, x), NEW c \in Command
  PROVE  /\ Known(c) => Known(c)'
         /\ Mistaken(c.num) => Mistaken(c.num)'
         /\ x.num = seqNum => (Known(c)' => Known(c) \/ c = x)
<1>1. /\ DOMAIN issued = 1..Len(issued) /\ Len(issued) \in Nat
      /\ DOMAIN issued' = 1..(Len(issued) + 1) /\ issued'[Len(issued) + 1] = x
      /\ \A i \in DOMAIN issued : issued'[i] = issued[i]
  BY AppendFacts DEF TypeOK
<1>2. Known(c) => Known(c)'
  BY <1>1 DEF Known
<1>3. Mistaken(c.num) => Mistaken(c.num)'
  BY <1>1 DEF Mistaken
<1>4. ASSUME Known(c)' PROVE Known(c) \/ c = x
  BY <1>1, <1>4 DEF Known
<1> QED BY <1>2, <1>3, <1>4

\* The same after a step.
LEMMA CopiesAreNext ==
  TypeOK' => \A c : Copies(c)' = Cardinality(BuiltBy(c)') + Cardinality(Places(toAgent', Carrying(c)))
                       + Cardinality(BufferedAs(c)') + Cardinality(Places(executed', {c}))
<1>1. TypeOK => \A c : Copies(c) = Cardinality(BuiltBy(c)) + Cardinality(Places(toAgent, Carrying(c)))
                       + Cardinality(BufferedAs(c)) + Cardinality(Places(executed, {c}))
  BY CopiesAre
<1>2. (TypeOK => \A c : Copies(c) = Cardinality(BuiltBy(c)) + Cardinality(Places(toAgent, Carrying(c)))
                       + Cardinality(BufferedAs(c)) + Cardinality(Places(executed, {c})))'
  BY <1>1, PTL
<1> QED BY <1>2 DEF Carrying

LEMMA OnceNext ==
  TypeOK' /\ Traced' =>
    \A c : /\ Cardinality(BuiltBy(c)') = IF BuiltBy(c)' = {} THEN 0 ELSE 1
           /\ Cardinality(BufferedAs(c)') = IF BufferedAs(c)' = {} THEN 0 ELSE 1
<1>1. TypeOK /\ Traced =>
        \A c : /\ Cardinality(BuiltBy(c)) = IF BuiltBy(c) = {} THEN 0 ELSE 1
               /\ Cardinality(BufferedAs(c)) = IF BufferedAs(c) = {} THEN 0 ELSE 1
  BY BuiltOnce, BufferedOnce
<1>2. (TypeOK /\ Traced =>
        \A c : /\ Cardinality(BuiltBy(c)) = IF BuiltBy(c) = {} THEN 0 ELSE 1
               /\ Cardinality(BufferedAs(c)) = IF BufferedAs(c) = {} THEN 0 ELSE 1)'
  BY <1>1, PTL
<1> QED BY <1>2

-----------------------------------------------------------------------------
\* The commands on the way stay those that were numbered.
LEMMA TracedFrame ==
  ASSUME Traced, UNCHANGED <<seqNum, issued>>,
         \A t \in Threads : outgoing'[t] = outgoing[t] \/ outgoing'[t] = <<>>,
         \A i \in DOMAIN toAgent' : toAgent'[i] \in CommandMsg => Genuine(toAgent'[i]),
         \A m \in requestMessageBuffer' : Genuine(m),
         \A i \in DOMAIN executed' : Known(executed'[i])
  PROVE  Traced'
<1>1. \A t \in Threads : outgoing'[t] # <<>> => outgoing'[t] = outgoing[t]
  OBVIOUS
<1>2. \A t \in Threads : outgoing'[t] # <<>> => Genuine(Head(outgoing'[t]))
  BY <1>1 DEF Traced
<1>3. \A t, u \in Threads :
        outgoing'[t] # <<>> /\ outgoing'[u] # <<>> /\ Head(outgoing'[t]).cmd = Head(outgoing'[u]).cmd
          => t = u
  BY <1>1 DEF Traced
<1> QED BY <1>2, <1>3 DEF Traced, Genuine, Known

LEMMA NumberTraced ==
  ASSUME TypeOK, Traced, NEW t \in Threads, NEW elev \in Nat, NumberCommand(t, elev),
         UNCHANGED <<toAgent, executing>>
  PROVE  Traced'
<1> DEFINE x == [num |-> seqNum, elev |-> elev]
           m == [seq |-> OnWire(seqNum), ack |-> 0, cmd |-> x]
<1>1. /\ outgoing[t] = <<>> /\ outgoing' = [outgoing EXCEPT ![t] = <<m>>]
      /\ seqNum' = seqNum + 1 /\ issued' = Append(issued, x)
  BY DEF NumberCommand
<1>2. x \in Command /\ x.num = seqNum /\ m.cmd = x /\ m.seq = OnWire(x.num)
  BY DEF TypeOK, Command
<1>3. Head(<<m>>) = m /\ <<m>> # <<>>
  OBVIOUS
<1> HIDE DEF x, m
<1>4. outgoing'[t] = <<m>> /\ \A u \in Threads \ {t} : outgoing'[u] = outgoing[u]
  BY <1>1 DEF TypeOK
<1>5. /\ Len(issued') = seqNum' - 1 /\ issued'[seqNum] = x /\ seqNum \in DOMAIN issued'
      /\ \A j \in DOMAIN issued' : issued'[j].num = j
  <2>1. /\ Len(issued) = seqNum - 1 /\ seqNum \in Nat /\ Len(issued) \in Nat
        /\ DOMAIN issued = 1..Len(issued)
        /\ DOMAIN issued' = 1..(Len(issued) + 1) /\ issued'[Len(issued) + 1] = x
        /\ \A i \in DOMAIN issued : issued'[i] = issued[i]
        /\ Len(issued') = Len(issued) + 1
    <3>1. issued \in Seq(Command) /\ seqNum \in Nat /\ Len(issued) = seqNum - 1
      BY DEF TypeOK, Traced
    <3> QED BY <1>1, <1>2, <3>1, AppendFacts
  <2>2. \A j \in DOMAIN issued' : j \in DOMAIN issued \/ j = seqNum
    BY <2>1
  <2> QED BY <1>1, <1>2, <2>1, <2>2 DEF Traced
<1>6. \A c \in Command : Known(c) => Known(c)' /\ c.num < seqNum
  <2>1. \A c \in Command : Known(c) => c.num < seqNum
    <3>1. DOMAIN issued = 1..(seqNum - 1) /\ seqNum \in Nat
      BY LenProperties DEF TypeOK, Traced
    <3> QED BY <3>1 DEF Known
  <2> QED BY <1>1, <1>2, <2>1, IssuedGrows
<1>7. \A n \in CommandMsg : Genuine(n) => Genuine(n)' /\ n.cmd.num < seqNum
  BY <1>6 DEF Genuine, CommandMsg
<1>8. \A u \in Threads : outgoing[u] # <<>> => Head(outgoing[u]) \in CommandMsg
  BY SeqStep DEF TypeOK
<1>9. ASSUME NEW u \in Threads, outgoing'[u] # <<>>
      PROVE  \E n : n = Head(outgoing'[u]) /\ Genuine(n)'
  <2>1. CASE u = t
    <3>1. m.cmd.num \in DOMAIN issued' /\ m.cmd = issued'[m.cmd.num]
      BY <1>2, <1>5
    <3>2. PICK n : n = m
      OBVIOUS
    <3>3. Genuine(n)'
      BY <1>2, <3>1, <3>2 DEF Genuine, Known
    <3> QED BY <1>3, <1>4, <2>1, <3>2, <3>3
  <2>2. CASE u # t
    <3>1. PICK n : n = Head(outgoing[u])
      OBVIOUS
    <3>2. outgoing'[u] = outgoing[u] /\ outgoing[u] # <<>>
      BY <1>4, <1>9, <2>2
    <3>3. Genuine(n) /\ n \in CommandMsg
      BY <1>8, <3>1, <3>2 DEF Traced
    <3> QED BY <1>7, <3>1, <3>2, <3>3
  <2> QED BY <2>1, <2>2
<1>10. \A u, v \in Threads :
         outgoing'[u] # <<>> /\ outgoing'[v] # <<>> /\ Head(outgoing'[u]).cmd = Head(outgoing'[v]).cmd
           => u = v
  <2>1. \A u \in Threads \ {t} : outgoing[u] # <<>> => Head(outgoing[u]).cmd # x
    <3> TAKE u \in Threads \ {t}
    <3> HAVE outgoing[u] # <<>>
    <3>1. Head(outgoing[u]).cmd.num < seqNum
      BY <1>7, <1>8 DEF Traced
    <3>2. seqNum \in Nat
      BY DEF TypeOK
    <3> QED BY <1>2, <3>1, <3>2
  <2> QED BY <1>2, <1>3, <1>4, <2>1 DEF Traced
<1>11. ASSUME NEW i \in DOMAIN toAgent, toAgent[i] \in CommandMsg
       PROVE  \E n : n = toAgent[i] /\ Genuine(n)'
  BY <1>7, <1>11 DEF Traced
<1>12. ASSUME NEW n \in requestMessageBuffer PROVE Genuine(n)'
  BY <1>7 DEF Traced, TypeOK
<1>13. ASSUME NEW i \in DOMAIN executed PROVE \E c : c = executed[i] /\ Known(c)'
  <2>1. executed[i] \in Command
    BY LenProperties, ElementOfSeq DEF TypeOK
  <2> QED BY <1>6, <2>1 DEF Traced
<1>14. UNCHANGED <<toAgent, requestMessageBuffer, executed>>
  BY DEF executing
<1> QED BY <1>5, <1>9, <1>10, <1>11, <1>12, <1>13, <1>14 DEF Traced, Genuine, Known

\* What the agent has in hand, and what is behind it in the queue, is genuine.
LEMMA QueueGenuine ==
  ASSUME TypeOK, Traced
  PROVE  /\ toAgent # <<>> =>
              /\ Head(toAgent) \in CommandMsg => Genuine(Head(toAgent))
              /\ \A i \in DOMAIN Tail(toAgent) :
                   Tail(toAgent)[i] \in CommandMsg => Genuine(Tail(toAgent)[i])
         /\ \A m \in CommandMsg \cup ElevResponse :
              (m \in CommandMsg => Genuine(m)) =>
                \A i \in DOMAIN Append(toAgent, m) :
                  Append(toAgent, m)[i] \in CommandMsg => Genuine(Append(toAgent, m)[i])
<1>1. toAgent \in Seq(CommandMsg \cup ElevResponse)
  BY DEF TypeOK
<1>2. \A i \in DOMAIN toAgent : toAgent[i] \in CommandMsg => Genuine(toAgent[i])
  BY DEF Traced
<1>3. ASSUME toAgent # <<>>
      PROVE  /\ Head(toAgent) \in CommandMsg => Genuine(Head(toAgent))
             /\ \A i \in DOMAIN Tail(toAgent) :
                  Tail(toAgent)[i] \in CommandMsg => Genuine(Tail(toAgent)[i])
  BY <1>1, <1>2, <1>3, TailFacts
<1>4. ASSUME NEW m \in CommandMsg \cup ElevResponse, m \in CommandMsg => Genuine(m),
             NEW i \in DOMAIN Append(toAgent, m), Append(toAgent, m)[i] \in CommandMsg
      PROVE  Genuine(Append(toAgent, m)[i])
  <2> DEFINE S == CommandMsg \cup ElevResponse
  <2>1. /\ DOMAIN Append(toAgent, m) = 1..(Len(toAgent) + 1) /\ DOMAIN toAgent = 1..Len(toAgent)
        /\ Len(toAgent) \in Nat
        /\ \A j \in DOMAIN toAgent : Append(toAgent, m)[j] = toAgent[j]
        /\ Append(toAgent, m)[Len(toAgent) + 1] = m
    <3> HIDE DEF S
    <3>1. toAgent \in Seq(S) /\ m \in S
      BY <1>1 DEF S
    <3> QED BY <3>1, AppendFacts
  <2>2. CASE i = Len(toAgent) + 1
    BY <1>4, <2>1, <2>2
  <2>3. CASE i \in DOMAIN toAgent
    BY <1>2, <1>4, <2>1, <2>3
  <2> QED BY <2>1, <2>2, <2>3
<1> QED BY <1>3, <1>4

\* A message with a number is a command, and an answer is none.
LEMMA AnswerIsNoCommand == CommandMsg \cap ElevResponse = {}
<1> SUFFICES ASSUME NEW m \in CommandMsg, m \in ElevResponse PROVE FALSE
  OBVIOUS
<1>1. DOMAIN m = {"seq", "ack", "cmd"}
  BY DEF CommandMsg
<1>2. DOMAIN m = {"seq", "ack", "command"}
  BY DEF ElevResponse
<1>3. "cmd" \in DOMAIN m
  BY <1>1
<1>4. "cmd" \notin {"seq", "ack", "command"}
  OBVIOUS
<1> QED BY <1>2, <1>3, <1>4, Zenon

\* Executing a command that was numbered.
LEMMA ExecutedKnown ==
  ASSUME TypeOK, Traced, NEW m \in CommandMsg, Genuine(m), executed' = Append(executed, m.cmd)
  PROVE  \A i \in DOMAIN executed' : Known(executed'[i])
<1>1. m.cmd \in Command /\ Known(m.cmd)
  BY DEF CommandMsg, Genuine
<1>2. /\ DOMAIN executed' = 1..(Len(executed) + 1) /\ DOMAIN executed = 1..Len(executed)
      /\ Len(executed) \in Nat
      /\ \A j \in DOMAIN executed : executed'[j] = executed[j]
      /\ executed'[Len(executed) + 1] = m.cmd
  BY <1>1, AppendFacts DEF TypeOK
<1>3. ASSUME NEW i \in DOMAIN executed' PROVE Known(executed'[i])
  <2>1. i \in DOMAIN executed \/ i = Len(executed) + 1
    BY <1>2
  <2> QED BY <1>1, <1>2, <2>1 DEF Traced
<1> QED BY <1>3

LEMMA NextTraced ==
  ASSUME TypeOK, Traced, [Next]_vars
  PROVE  Traced'
<1> USE DEF numbering, answering, reporting, executing, capturing, mapping
<1>1. ASSUME UNCHANGED <<numbering, toAgent, requestMessageBuffer, executed>> PROVE Traced'
  BY <1>1, TracedFrame DEF Traced
<1>2. ASSUME NEW t \in Others, OtherCommand(t) PROVE Traced'
  <2>1. NumberCommand(t, 0) /\ t \in Threads
    BY <1>2 DEF OtherCommand, Threads
  <2> QED BY <1>2, <2>1, NumberTraced DEF OtherCommand
<1>3. ASSUME NEW t \in Threads, SendCommand(t) PROVE Traced'
  <2>1. Head(outgoing[t]) \in CommandMsg /\ Genuine(Head(outgoing[t]))
    BY <1>3, SeqStep DEF TypeOK, Traced, SendCommand
  <2>2. \A i \in DOMAIN toAgent' : toAgent'[i] \in CommandMsg => Genuine(toAgent'[i])
    BY <1>3, <2>1, QueueGenuine DEF SendCommand
  <2>3. \A u \in Threads : outgoing'[u] = outgoing[u] \/ outgoing'[u] = <<>>
    BY <1>3 DEF SendCommand, TypeOK
  <2> QED BY <1>3, <2>2, <2>3, TracedFrame DEF SendCommand, Traced
<1>4. CASE HandlerItem
  <2>1. CASE NumberCommand(Handler, elevReqId) /\ UNCHANGED toAgent
    BY <1>4, <2>1, NumberTraced DEF HandlerItem, Threads, TypeOK
  <2>2. CASE /\ Head(todo) \in {"retry", "drop"}
             /\ toAgent' = Append(toAgent,
                  [seq |-> 0, ack |-> OnWire(elevReqId), command |-> Head(todo)])
             /\ UNCHANGED <<seqNum, outgoing, issued>>
    <3>1. PICK m : m = [seq |-> 0, ack |-> OnWire(elevReqId), command |-> Head(todo)]
      OBVIOUS
    <3>2. m \in ElevResponse
      BY <2>2, <3>1, OnWireType DEF TypeOK, ElevResponse
    <3>3. \A i \in DOMAIN toAgent' : toAgent'[i] \in CommandMsg => Genuine(toAgent'[i])
      BY <2>2, <3>1, <3>2, AnswerIsNoCommand, QueueGenuine
    <3> QED BY <1>4, <2>2, <3>3, TracedFrame DEF HandlerItem, Traced
  <2> QED BY <1>1, <1>4, <2>1, <2>2 DEF HandlerItem
<1>5. CASE AgentRequest
  <2> PICK m : m = Head(toAgent)
    OBVIOUS
  <2>1. toAgent # <<>> /\ toAgent' = Tail(toAgent) /\ UNCHANGED <<seqNum, issued, outgoing>>
    BY <1>5 DEF AgentRequest
  <2>2. \A i \in DOMAIN toAgent' : toAgent'[i] \in CommandMsg => Genuine(toAgent'[i])
    BY <2>1, QueueGenuine
  <2>3. m.seq # 0 => m \in CommandMsg /\ Genuine(m)
    BY <2>1, ToAgentKinds, QueueGenuine
  <2>4. CASE m.seq = lastProcessedSeqNum + 1 /\ ProcessCommand(m) /\ UNCHANGED requestMessageBuffer
    <3>1. m.seq # 0
      BY <2>4 DEF TypeOK
    <3>2. \A i \in DOMAIN executed' : Known(executed'[i])
      BY <2>3, <2>4, <3>1, ExecutedKnown DEF ProcessCommand
    <3> QED BY <2>1, <2>2, <2>4, <3>2, TracedFrame DEF Traced
  <2>5. CASE /\ m.seq \notin {0, lastProcessedSeqNum + 1}
             /\ requestMessageBuffer' = Buffered(requestMessageBuffer, m)
             /\ UNCHANGED <<executed, toController, lastProcessedSeqNum>>
    <3>1. \A n \in requestMessageBuffer' : Genuine(n)
      BY <2>3, <2>5 DEF Buffered, Traced
    <3> QED BY <2>1, <2>2, <2>5, <3>1, TracedFrame DEF Traced
  <2>6. CASE UNCHANGED <<executing, toController>>
    BY <2>1, <2>2, <2>6, TracedFrame DEF Traced
  <2> QED BY <1>5, <2>4, <2>5, <2>6 DEF AgentRequest
<1>6. CASE AgentDrain
  <2>1. PICK m \in requestMessageBuffer :
          ProcessCommand(m) /\ requestMessageBuffer' = requestMessageBuffer \ {m}
    BY <1>6 DEF AgentDrain
  <2>2. m \in CommandMsg /\ Genuine(m)
    BY DEF TypeOK, Traced
  <2>3. \A i \in DOMAIN executed' : Known(executed'[i])
    BY <2>1, <2>2, ExecutedKnown DEF ProcessCommand
  <2> QED BY <1>6, <2>1, <2>3, TracedFrame DEF AgentDrain, Traced
<1>7. CASE AgentElevResponse
  <2>1. toAgent # <<>> /\ toAgent' = Tail(toAgent)
        /\ UNCHANGED <<seqNum, issued, outgoing, executed, requestMessageBuffer>>
    BY <1>7 DEF AgentElevResponse
  <2>2. \A i \in DOMAIN toAgent' : toAgent'[i] \in CommandMsg => Genuine(toAgent'[i])
    BY <2>1, QueueGenuine
  <2> QED BY <2>1, <2>2, TracedFrame DEF Traced
<1>8. CASE HandlerResponse \/ HandlerDrain \/ HandlerRequest \/ ElevStore \/ ElevSend
           \/ (\E p \in Packets : ElevCapture(p)) \/ UNCHANGED vars
  BY <1>1, <1>8 DEF HandlerResponse, HandlerDrain, HandlerRequest, ElevStore, ElevSend,
                    ElevCapture, vars
<1> QED BY <1>2, <1>3, <1>4, <1>5, <1>6, <1>7, <1>8
        DEF Next, Input, HandlerStep, AgentStep, ElevStep, Quiescent

-----------------------------------------------------------------------------
\* How many times the head of the queue and one that is appended count.
LEMMA QueueCounts ==
  ASSUME TypeOK, NEW c
  PROVE  /\ toAgent # <<>> =>
              Cardinality(Places(toAgent, Carrying(c)))
                = Cardinality(Places(Tail(toAgent), Carrying(c)))
                    + (IF Head(toAgent) \in Carrying(c) THEN 1 ELSE 0)
         /\ \A m \in CommandMsg \cup ElevResponse :
              Cardinality(Places(Append(toAgent, m), Carrying(c)))
                = Cardinality(Places(toAgent, Carrying(c)))
                    + (IF m \in Carrying(c) THEN 1 ELSE 0)
<1> DEFINE S == CommandMsg \cup ElevResponse
           M == Carrying(c)
<1>1. toAgent \in Seq(S)
  BY DEF TypeOK
<1> HIDE DEF S, M
<1>2. toAgent # <<>> =>
        Cardinality(Places(toAgent, M)) = Cardinality(Places(Tail(toAgent), M))
                                            + (IF Head(toAgent) \in M THEN 1 ELSE 0)
  BY <1>1, PlacesTail
<1>3. \A m \in S : Cardinality(Places(Append(toAgent, m), M))
                     = Cardinality(Places(toAgent, M)) + (IF m \in M THEN 1 ELSE 0)
  BY <1>1, PlacesAppend
<1> QED BY <1>2, <1>3 DEF S, M

\* A numbered command stays settled if no place of it changes.
LEMMA SettledFrame ==
  ASSUME TypeOK, TypeOK', NEW c \in Command, Settled(c), issued' = issued,
         BuiltBy(c)' = BuiltBy(c), BufferedAs(c)' = BufferedAs(c),
         Cardinality(Places(toAgent', Carrying(c))) = Cardinality(Places(toAgent, Carrying(c))),
         executed' = executed
  PROVE  Settled(c)'
<1>1. Copies(c)' = Copies(c)
  BY CopiesAre, CopiesAreNext
<1>2. Mistaken(c.num)' <=> Mistaken(c.num)
  BY DEF Mistaken
<1> QED BY <1>1, <1>2 DEF Settled

\* send() takes the command from the thread to the queue.
LEMMA SendSettled ==
  ASSUME TypeOK, TypeOK', Traced, Traced', NEW t \in Threads, SendCommand(t),
         NEW c \in Command, Settled(c)
  PROVE  Settled(c)'
<1> PICK m : m = Head(outgoing[t])
  OBVIOUS
<1>1. /\ outgoing[t] # <<>> /\ toAgent' = Append(toAgent, m)
      /\ outgoing' = [outgoing EXCEPT ![t] = <<>>]
      /\ UNCHANGED <<issued, requestMessageBuffer, executed>>
      /\ m \in CommandMsg /\ outgoing'[t] = <<>>
      /\ \A u \in Threads \ {t} : outgoing'[u] = outgoing[u]
  BY SeqStep DEF SendCommand, executing, TypeOK
<1>2. BufferedAs(c)' = BufferedAs(c)
  BY <1>1 DEF BufferedAs
<1>3. CASE m.cmd = c
  <2>1. t \in BuiltBy(c)
    BY <1>1, <1>3 DEF BuiltBy
  <2>2. BuiltBy(c)' = {}
    <3>1. \A u \in Threads \ {t} : outgoing[u] # <<>> => Head(outgoing[u]).cmd # c
      BY <1>1, <1>3 DEF Traced
    <3> QED BY <1>1, <3>1 DEF BuiltBy
  <2>3. Cardinality(BuiltBy(c)) = 1 /\ Cardinality(BuiltBy(c)') = 0
    BY <2>1, <2>2, BuiltOnce, OnceNext
  <2>4. m \in Carrying(c)
    BY <1>1, <1>3 DEF Carrying
  <2>5. Cardinality(Places(toAgent', Carrying(c))) = Cardinality(Places(toAgent, Carrying(c))) + 1
    BY <1>1, <2>4, QueueCounts
  <2>6. Copies(c)' = Copies(c)
    <3>1. Cardinality(BufferedAs(c)) \in Nat
      BY BufferedOnce
    <3>2. Copies(c) = 1 + Cardinality(Places(toAgent, Carrying(c)))
                        + Cardinality(BufferedAs(c)) + Cardinality(Places(executed, {c}))
      BY <2>3, CopiesAre
    <3>3. Copies(c)' = 0 + (Cardinality(Places(toAgent, Carrying(c))) + 1)
                         + Cardinality(BufferedAs(c)) + Cardinality(Places(executed, {c}))
      BY <1>1, <1>2, <2>3, <2>5, CopiesAreNext
    <3> QED BY <3>1, <3>2, <3>3, PlacesNat
  <2> QED BY <1>1, <2>6 DEF Settled, Mistaken
<1>4. CASE m.cmd # c
  <2>1. BuiltBy(c)' = BuiltBy(c)
    BY <1>1, <1>4 DEF BuiltBy
  <2>2. m \notin Carrying(c)
    BY <1>4 DEF Carrying
  <2>3. Cardinality(Places(toAgent', Carrying(c))) = Cardinality(Places(toAgent, Carrying(c))) + 0
    BY <1>1, <2>2, QueueCounts
  <2>4. Cardinality(Places(toAgent, Carrying(c))) \in Nat
    BY PlacesNat
  <2>5. Cardinality(Places(toAgent', Carrying(c))) = Cardinality(Places(toAgent, Carrying(c)))
    <3> PICK q : q = Cardinality(Places(toAgent, Carrying(c)))
      OBVIOUS
    <3> QED BY <2>3, <2>4
  <2> QED BY <1>1, <1>2, <2>1, <2>5, SettledFrame
<1> QED BY <1>3, <1>4

\* A new command is with its thread and nowhere else.
LEMMA NumberSettled ==
  ASSUME TypeOK, TypeOK', Traced, Traced', NEW t \in Threads, NEW elev \in Nat,
         NumberCommand(t, elev), UNCHANGED <<toAgent, executing>>,
         NEW c \in Command, Known(c) => Settled(c), Known(c)'
  PROVE  Settled(c)'
<1> PICK x : x = [num |-> seqNum, elev |-> elev]
  OBVIOUS
<1> PICK m : m = [seq |-> OnWire(seqNum), ack |-> 0, cmd |-> x]
  OBVIOUS
<1>1. /\ outgoing[t] = <<>> /\ outgoing' = [outgoing EXCEPT ![t] = <<m>>]
      /\ issued' = Append(issued, x) /\ x \in Command /\ x.num = seqNum /\ m.cmd = x
      /\ UNCHANGED <<requestMessageBuffer, executed, toAgent>>
  BY DEF NumberCommand, TypeOK, Command, executing
<1>2. Head(<<m>>) = m /\ <<m>> # <<>>
  OBVIOUS
<1>3. outgoing'[t] = <<m>> /\ \A u \in Threads \ {t} : outgoing'[u] = outgoing[u]
  BY <1>1 DEF TypeOK
<1>4. BufferedAs(c)' = BufferedAs(c)
  BY <1>1 DEF BufferedAs
<1>5. CASE c # x
  <2>1. Known(c)
    BY <1>1, <1>5, IssuedGrows
  <2>2. BuiltBy(c)' = BuiltBy(c)
    BY <1>1, <1>2, <1>3, <1>5 DEF BuiltBy
  <2>3. Copies(c)' = Copies(c)
    BY <1>1, <1>4, <2>2, CopiesAre, CopiesAreNext
  <2>4. Mistaken(c.num) => Mistaken(c.num)'
    BY <1>1, IssuedGrows
  <2> QED BY <2>1, <2>3, <2>4 DEF Settled
<1>6. CASE c = x
  <2>1. ~Known(c)
    <3>1. DOMAIN issued = 1..(seqNum - 1) /\ seqNum \in Nat
      BY LenProperties DEF TypeOK, Traced
    <3> QED BY <1>1, <1>6, <3>1 DEF Known
  <2>2. BuiltBy(c) = {}
    BY <2>1 DEF BuiltBy, Traced, Genuine
  <2>3. BufferedAs(c) = {}
    BY <2>1 DEF BufferedAs, Traced, Genuine
  <2>4. Places(toAgent, Carrying(c)) = {}
    BY <2>1 DEF Places, Carrying, Traced, Genuine
  <2>5. Places(executed, {c}) = {}
    BY <2>1 DEF Places, Traced
  <2>6. t \in BuiltBy(c)'
    BY <1>1, <1>2, <1>3, <1>6 DEF BuiltBy
  <2>7. Cardinality(BuiltBy(c)') = 1
    BY <2>6, OnceNext
  <2>8. Copies(c)' = 1
    <3>1. Cardinality({}) = 0
      BY FS_EmptySet
    <3>2. Cardinality(Places(toAgent', Carrying(c))) = 0
      BY <1>1, <2>4, <3>1
    <3>3. Cardinality(Places(executed', {c})) = 0
      BY <1>1, <2>5, <3>1
    <3>4. Cardinality(BufferedAs(c)') = 0
      BY <1>4, <2>3, <3>1
    <3>5. Copies(c)' = 1 + 0 + 0 + 0
      BY <2>7, <3>2, <3>3, <3>4, CopiesAreNext
    <3> QED BY <3>5
  <2> QED BY <2>8 DEF Settled
<1> QED BY <1>5, <1>6

\* Executing a command takes it out of the queue or of the buffer.
LEMMA ExecutedCounts ==
  ASSUME TypeOK, NEW m \in CommandMsg, ProcessCommand(m), NEW c
  PROVE  Cardinality(Places(executed', {c}))
           = Cardinality(Places(executed, {c})) + (IF m.cmd = c THEN 1 ELSE 0)
<1>1. m.cmd \in Command /\ executed \in Seq(Command) /\ executed' = Append(executed, m.cmd)
  BY DEF CommandMsg, TypeOK, ProcessCommand
<1>2. m.cmd \in {c} <=> m.cmd = c
  OBVIOUS
<1> QED BY <1>1, <1>2, PlacesAppend

\* The agent takes a command from the queue: it executes it, keeps it, where it
\* may take the place of one that looks like it, or takes it for no command.
LEMMA RequestSettled ==
  ASSUME TypeOK, TypeOK', Traced, Traced', AgentRequest, NEW c \in Command, Known(c), Settled(c)
  PROVE  Settled(c)'
<1> PICK m : m = Head(toAgent)
  OBVIOUS
<1> PICK b : b = Cardinality(BuiltBy(c))
  OBVIOUS
<1> PICK q : q = Cardinality(Places(toAgent', Carrying(c)))
  OBVIOUS
<1> PICK k : k = Cardinality(BufferedAs(c))
  OBVIOUS
<1> PICK e : e = Cardinality(Places(executed, {c}))
  OBVIOUS
<1>1. toAgent # <<>> /\ toAgent' = Tail(toAgent) /\ UNCHANGED <<seqNum, issued, outgoing>>
  BY DEF AgentRequest, numbering
<1>2. b \in {0, 1} /\ k \in {0, 1} /\ e \in Nat /\ q \in Nat
  <2>1. Cardinality(Places(toAgent', Carrying(c))) \in Nat
    BY PlacesFinite DEF TypeOK
  <2> QED BY <2>1, BuiltOnce, BufferedOnce, PlacesNat
<1>3. Cardinality(BuiltBy(c)') = b
  <2>1. BuiltBy(c)' = BuiltBy(c)
    BY <1>1 DEF BuiltBy
  <2> QED BY <2>1
<1>4. Mistaken(c.num)' <=> Mistaken(c.num)
  BY <1>1 DEF Mistaken
<1>5. Copies(c) = b + (q + (IF m \in Carrying(c) THEN 1 ELSE 0)) + k + e
  <2>1. Cardinality(Places(toAgent, Carrying(c))) = q + (IF m \in Carrying(c) THEN 1 ELSE 0)
    BY <1>1, QueueCounts
  <2> QED BY <2>1, CopiesAre
<1>6. Copies(c) \in {0, 1}
  BY DEF Settled
<1>7. m \in Carrying(c) => b = 0 /\ q = 0 /\ k = 0 /\ e = 0
  BY <1>2, <1>5, <1>6
<1>8. m.seq # 0 => m \in CommandMsg /\ Genuine(m)
  BY <1>1, ToAgentKinds, QueueGenuine
<1>9. m \in CommandMsg => (m \in Carrying(c) <=> m.cmd = c)
  BY DEF Carrying
<1>10. CASE m.seq = lastProcessedSeqNum + 1 /\ ProcessCommand(m) /\ UNCHANGED requestMessageBuffer
  <2>1. m \in CommandMsg
    <3>1. lastProcessedSeqNum \in Nat
      BY DEF TypeOK
    <3> QED BY <1>8, <1>10, <3>1
  <2>2. Cardinality(Places(executed', {c})) = e + (IF m \in Carrying(c) THEN 1 ELSE 0)
    BY <1>9, <1>10, <2>1, ExecutedCounts
  <2>3. Cardinality(BufferedAs(c)') = k
    BY <1>10 DEF BufferedAs
  <2>4. Copies(c)' = b + q + k + (e + (IF m \in Carrying(c) THEN 1 ELSE 0))
    BY <1>3, <2>2, <2>3, CopiesAreNext
  <2>5. Copies(c)' = Copies(c)
    BY <1>2, <1>5, <2>4
  <2> QED BY <1>4, <2>5 DEF Settled
<1>11. CASE /\ m.seq \notin {0, lastProcessedSeqNum + 1}
            /\ requestMessageBuffer' = Buffered(requestMessageBuffer, m)
            /\ UNCHANGED <<executed, toController, lastProcessedSeqNum>>
  <2>1. m \in CommandMsg /\ Genuine(m)
    BY <1>8, <1>11
  <2>2. Cardinality(Places(executed', {c})) = e
    BY <1>11
  <2>3. requestMessageBuffer' = {n \in requestMessageBuffer : <<n.seq, n.ack>> # <<m.seq, m.ack>>}
                                  \cup {m}
    BY <1>11 DEF Buffered
  <2>4. CASE m.cmd = c
    <3>1. m \in BufferedAs(c)'
      BY <2>3, <2>4 DEF BufferedAs
    <3>2. Cardinality(BufferedAs(c)') = 1
      BY <3>1, OnceNext
    <3>3. b = 0 /\ q = 0 /\ e = 0
      BY <1>7, <1>9, <2>1, <2>4
    <3>4. Copies(c)' = 0 + 0 + 1 + 0
      BY <1>3, <2>2, <3>2, <3>3, CopiesAreNext
    <3> QED BY <3>4 DEF Settled
  <2>5. CASE m.cmd # c /\ BufferedAs(c)' = BufferedAs(c)
    <3>1. m \notin Carrying(c)
      BY <1>9, <2>1, <2>5
    <3>2. Copies(c)' = b + q + k + e
      BY <1>3, <2>2, <2>5, CopiesAreNext
    <3>3. Copies(c) = b + (q + 0) + k + e
      BY <1>5, <3>1
    <3>4. Copies(c)' = Copies(c)
      BY <1>2, <3>2, <3>3
    <3> QED BY <1>4, <3>4 DEF Settled
  <2>6. CASE m.cmd # c /\ BufferedAs(c)' # BufferedAs(c)
    <3>1. BufferedAs(c)' \subseteq BufferedAs(c)
      BY <2>3, <2>6 DEF BufferedAs
    <3>2. PICK n \in requestMessageBuffer : n.cmd = c /\ n.seq = m.seq
      BY <2>3, <2>6 DEF BufferedAs
    <3>3. Mistaken(c.num)
      <4>1. OnWire(c.num) = OnWire(m.cmd.num) /\ Known(m.cmd)
        BY <2>1, <3>2 DEF Traced, Genuine
      <4>2. m.cmd.num # c.num
        BY <2>6, <4>1 DEF Known
      <4>3. m.cmd.num \in DOMAIN issued /\ issued[m.cmd.num].num = m.cmd.num
        BY <4>1 DEF Known
      <4> QED BY <4>1, <4>2, <4>3 DEF Mistaken
    <3>4. n \in BufferedAs(c)
      BY <3>2 DEF BufferedAs
    <3>5. k = 1
      BY <3>4, BufferedOnce
    <3>6. Cardinality(BufferedAs(c)') \in {0, 1}
      BY OnceNext
    <3>7. m \notin Carrying(c)
      BY <1>9, <2>1, <2>6
    <3>8. Copies(c) = b + (q + 0) + 1 + e
      BY <1>5, <3>5, <3>7
    <3>9. b = 0 /\ q = 0 /\ e = 0
      BY <1>2, <1>6, <3>8
    <3>10. Copies(c)' = 0 + 0 + Cardinality(BufferedAs(c)') + 0
      BY <1>3, <2>2, <3>9, CopiesAreNext
    <3>11. Copies(c)' \in {0, 1}
      BY <3>6, <3>10
    <3> QED BY <1>4, <3>3, <3>11 DEF Settled
  <2> QED BY <2>4, <2>5, <2>6
<1>12. CASE m.seq = 0 /\ UNCHANGED <<executing, toController>>
  <2>1. Cardinality(Places(executed', {c})) = e /\ Cardinality(BufferedAs(c)') = k
    BY <1>12 DEF executing, BufferedAs
  <2>2. Copies(c)' = b + q + k + e
    BY <1>3, <2>1, CopiesAreNext
  <2>3. CASE m \in Carrying(c)
    <3>1. Copies(c)' = 0
      BY <1>7, <2>2, <2>3
    <3>2. Genuine(m) /\ m.cmd = c
      BY <1>1, <2>3, QueueGenuine DEF Carrying
    <3>3. Mistaken(c.num)
      BY <1>12, <3>2 DEF Genuine, Mistaken
    <3> QED BY <1>4, <3>1, <3>3 DEF Settled
  <2>4. CASE m \notin Carrying(c)
    <3>1. Copies(c) = b + (q + 0) + k + e
      BY <1>5, <2>4
    <3>2. Copies(c)' = Copies(c)
      BY <1>2, <2>2, <3>1
    <3> QED BY <1>4, <3>2 DEF Settled
  <2> QED BY <2>3, <2>4
<1> QED BY <1>10, <1>11, <1>12 DEF AgentRequest

\* A buffered command is executed in its turn.
LEMMA DrainSettled ==
  ASSUME TypeOK, TypeOK', Traced, Traced', AgentDrain, NEW c \in Command, Settled(c)
  PROVE  Settled(c)'
<1>1. PICK m \in requestMessageBuffer :
        ProcessCommand(m) /\ requestMessageBuffer' = requestMessageBuffer \ {m}
  BY DEF AgentDrain
<1>2. m \in CommandMsg /\ UNCHANGED <<issued, outgoing, toAgent>>
  BY DEF TypeOK, AgentDrain, numbering
<1> PICK b : b = Cardinality(BuiltBy(c))
  OBVIOUS
<1> PICK q : q = Cardinality(Places(toAgent, Carrying(c)))
  OBVIOUS
<1> PICK k : k = Cardinality(BufferedAs(c))
  OBVIOUS
<1> PICK e : e = Cardinality(Places(executed, {c}))
  OBVIOUS
<1>3. b \in {0, 1} /\ k \in {0, 1} /\ e \in Nat /\ q \in Nat
  BY BuiltOnce, BufferedOnce, PlacesNat
<1>4. Cardinality(BuiltBy(c)') = b /\ Cardinality(Places(toAgent', Carrying(c))) = q
  <2>1. BuiltBy(c)' = BuiltBy(c)
    BY <1>2 DEF BuiltBy
  <2> QED BY <1>2, <2>1
<1>5. Mistaken(c.num)' <=> Mistaken(c.num)
  BY <1>2 DEF Mistaken
<1>6. Copies(c) = b + q + k + e
  BY CopiesAre
<1>7. CASE m.cmd = c
  <2>1. m \in BufferedAs(c)
    BY <1>7 DEF BufferedAs
  <2>2. k = 1
    BY <2>1, BufferedOnce
  <2>3. b = 0 /\ q = 0 /\ e = 0
    BY <1>3, <1>6, <2>2 DEF Settled
  <2>4. Cardinality(Places(executed', {c})) = 0 + 1
    BY <1>1, <1>2, <1>7, <2>3, ExecutedCounts
  <2>5. BufferedAs(c)' = {}
    <3>1. \A n \in BufferedAs(c) : n = m
      <4>1. TAKE n \in BufferedAs(c)
      <4>2. n.seq = OnWire(c.num) /\ m.seq = OnWire(c.num) /\ n.cmd = c
        BY <1>7 DEF BufferedAs, Traced, Genuine
      <4>3. n \in CommandMsg
        BY DEF BufferedAs, TypeOK
      <4> QED BY <1>2, <1>7, <4>2, <4>3 DEF CommandMsg
    <3> QED BY <1>1, <3>1 DEF BufferedAs
  <2>6. Cardinality(BufferedAs(c)') = 0
    BY <2>5, FS_EmptySet
  <2>7. Copies(c)' = 0 + 0 + 0 + (0 + 1)
    BY <1>4, <2>3, <2>4, <2>6, CopiesAreNext
  <2> QED BY <2>7 DEF Settled
<1>8. CASE m.cmd # c
  <2>1. BufferedAs(c)' = BufferedAs(c)
    BY <1>1, <1>8 DEF BufferedAs
  <2>2. Cardinality(Places(executed', {c})) = e + 0
    BY <1>1, <1>2, <1>8, ExecutedCounts
  <2>3. Copies(c)' = b + q + k + (e + 0)
    BY <1>4, <2>1, <2>2, CopiesAreNext
  <2>4. Copies(c)' = Copies(c)
    BY <1>3, <1>6, <2>3
  <2> QED BY <1>5, <2>4 DEF Settled
<1> QED BY <1>7, <1>8

\* An answer to an elevation is none of the commands counted.
LEMMA AnswerSettled ==
  ASSUME TypeOK, TypeOK', NEW c \in Command, Settled(c), UNCHANGED <<numbering, executing>>,
         \/ \E m \in ElevResponse : toAgent' = Append(toAgent, m)
         \/ toAgent # <<>> /\ Head(toAgent).ack # 0 /\ toAgent' = Tail(toAgent)
  PROVE  Settled(c)'
<1>1. \A m \in ElevResponse : m \notin Carrying(c)
  BY AnswerIsNoCommand DEF Carrying
<1>2. Cardinality(Places(toAgent', Carrying(c))) = Cardinality(Places(toAgent, Carrying(c)))
  <2>1. CASE \E m \in ElevResponse : toAgent' = Append(toAgent, m)
    <3>1. PICK m \in ElevResponse : toAgent' = Append(toAgent, m)
      BY <2>1
    <3>2. Cardinality(Places(toAgent', Carrying(c))) = Cardinality(Places(toAgent, Carrying(c))) + 0
      BY <1>1, <3>1, QueueCounts
    <3>3. Cardinality(Places(toAgent, Carrying(c))) \in Nat
      BY PlacesNat
    <3> PICK q : q = Cardinality(Places(toAgent, Carrying(c)))
      OBVIOUS
    <3> QED BY <3>2, <3>3
  <2>2. CASE toAgent # <<>> /\ Head(toAgent).ack # 0 /\ toAgent' = Tail(toAgent)
    <3>1. Head(toAgent) \notin Carrying(c)
      BY <2>2 DEF Carrying, CommandMsg
    <3>2. Cardinality(Places(toAgent, Carrying(c))) = Cardinality(Places(toAgent', Carrying(c))) + 0
      BY <2>2, <3>1, QueueCounts
    <3>3. Cardinality(Places(toAgent', Carrying(c))) \in Nat
      BY PlacesFinite DEF TypeOK
    <3> QED BY <3>2, <3>3
  <2> QED BY <2>1, <2>2
<1>3. BuiltBy(c)' = BuiltBy(c) /\ BufferedAs(c)' = BufferedAs(c) /\ UNCHANGED <<issued, executed>>
  BY DEF BuiltBy, BufferedAs, numbering, executing
<1> QED BY <1>2, <1>3, SettledFrame

LEMMA NextSettled ==
  ASSUME TypeOK, TypeOK', Traced, Traced', [Next]_vars,
         NEW c \in Command, Known(c) => Settled(c), Known(c)'
  PROVE  Settled(c)'
<1> USE DEF numbering, answering, reporting, executing, capturing, mapping
<1>1. issued' = issued => Settled(c)
  BY DEF Known
<1>2. ASSUME UNCHANGED <<numbering, toAgent, requestMessageBuffer, executed>> PROVE Settled(c)'
  <2>1. BuiltBy(c)' = BuiltBy(c) /\ BufferedAs(c)' = BufferedAs(c)
    BY <1>2 DEF BuiltBy, BufferedAs
  <2> QED BY <1>1, <1>2, <2>1, SettledFrame
<1>3. ASSUME NEW t \in Others, OtherCommand(t) PROVE Settled(c)'
  <2>1. NumberCommand(t, 0) /\ t \in Threads
    BY <1>3 DEF OtherCommand, Threads
  <2> QED BY <1>3, <2>1, NumberSettled DEF OtherCommand
<1>4. ASSUME NEW t \in Threads, SendCommand(t) PROVE Settled(c)'
  BY <1>1, <1>4, SendSettled DEF SendCommand
<1>5. CASE HandlerItem
  <2>1. CASE NumberCommand(Handler, elevReqId) /\ UNCHANGED toAgent
    BY <1>5, <2>1, NumberSettled DEF HandlerItem, Threads, TypeOK
  <2>2. CASE /\ Head(todo) \in {"retry", "drop"}
             /\ toAgent' = Append(toAgent,
                  [seq |-> 0, ack |-> OnWire(elevReqId), command |-> Head(todo)])
             /\ UNCHANGED <<seqNum, outgoing, issued>>
    <3>1. \E m \in ElevResponse : toAgent' = Append(toAgent, m)
      BY <2>2, OnWireType DEF TypeOK, ElevResponse
    <3> QED BY <1>1, <1>5, <2>2, <3>1, AnswerSettled DEF HandlerItem
  <2> QED BY <1>2, <1>5, <2>1, <2>2 DEF HandlerItem
<1>6. CASE AgentRequest
  <2>1. issued' = issued
    BY <1>6 DEF AgentRequest
  <2> QED BY <1>1, <1>6, <2>1, RequestSettled DEF Known
<1>7. CASE AgentDrain
  BY <1>1, <1>7, DrainSettled DEF AgentDrain
<1>8. CASE AgentElevResponse
  BY <1>1, <1>8, AnswerSettled DEF AgentElevResponse
<1>9. CASE HandlerResponse \/ HandlerDrain \/ HandlerRequest \/ ElevStore \/ ElevSend
           \/ (\E p \in Packets : ElevCapture(p)) \/ UNCHANGED vars
  BY <1>2, <1>9 DEF HandlerResponse, HandlerDrain, HandlerRequest, ElevStore, ElevSend,
                    ElevCapture, vars
<1> QED BY <1>3, <1>4, <1>5, <1>6, <1>7, <1>8, <1>9
        DEF Next, Input, HandlerStep, AgentStep, ElevStep, Quiescent

LEMMA SettledNext == TypeOK' /\ Traced' /\ EachSettled' => EachCommandInOnePlace'
<1>1. TypeOK /\ Traced /\ EachSettled => EachCommandInOnePlace
  BY EachIsSettled
<1> QED BY <1>1, PTL

LEMMA NextInOnePlace ==
  TypeOK /\ TypeOK' /\ Traced /\ EachCommandInOnePlace /\ [Next]_vars
    => Traced' /\ EachCommandInOnePlace'
<1> SUFFICES ASSUME TypeOK, TypeOK', Traced, EachCommandInOnePlace, [Next]_vars
             PROVE  Traced' /\ EachCommandInOnePlace'
  OBVIOUS
<1>1. Traced'
  BY NextTraced
<1>2. \A c \in Command : Known(c) => Settled(c)
  BY EachIsSettled DEF EachSettled
<1>3. \A c \in Command : Known(c)' => Settled(c)'
  BY <1>1, <1>2, NextSettled
<1> QED BY <1>1, <1>3, SettledNext DEF EachSettled, Command

\* However long the session: a command that was numbered is in the hands of one
\* thread, in the socket, in the agent's buffer or executed, in one place and
\* once.  It is lost only when its number reads as 0 or as the number of
\* another command; it never runs twice.
THEOREM CommandsInOnePlace == Spec => []EachCommandInOnePlace
<1>1. Init => Traced /\ EachCommandInOnePlace
  BY DEF Init, Traced, EachCommandInOnePlace
<1>2. TypeOK /\ TypeOK' /\ Traced /\ EachCommandInOnePlace /\ [Next]_vars
        => Traced' /\ EachCommandInOnePlace'
  BY NextInOnePlace
<1> QED BY <1>1, <1>2, TypeCorrect, PTL DEF Spec

-----------------------------------------------------------------------------
(* The elevation of packets, for any configuration whose records each end in *)
(* their only answer                                                        *)

\* The last elevation Handler has taken, and the last one it has answered; the
\* authentication request had number 1.
Taken == IF elevReqId = 0 THEN 1 ELSE elevReqId
Answered == IF todo = <<>> THEN Taken ELSE Taken - 1

\* The numbers of the requests in a queue, in the place of those of responses.
Requests(q) == [i \in DOMAIN q |-> [ack |-> q[i].seq]]

\* The elevations form one line: those resolved, those answered and on their way
\* back, the one Handler works on, those on their way to it, the one the
\* elevation thread has in hand.
Chain ==
  /\ elevReqId # 1
  /\ elevReqId = 0 => todo = <<>>
  /\ EndsInItsAnswer(todo)
  /\ \A i \in DOMAIN resolved : resolved[i].elev = i + 1
  /\ Len(resolved) + 1 <= Answered /\ Taken < elevSeq
  /\ Consecutive(toAgent, Len(resolved) + 1, Answered)
  /\ Consecutive(Requests(toController), Taken, elevSeq - 1)
  /\ Len(captured) = IF elevPc = "recv" THEN elevSeq - 2 ELSE elevSeq - 1
  /\ elevPc # "recv" => receivedPacket = captured[elevSeq - 1]

\* The elevations whose packets the agent has to keep.
Unresolved ==
  {e \in 2..(Len(captured) + 1) : e > Len(resolved) + 1 /\ (e = elevSeq => elevPc = "send")}

\* As long as the agent's threads have not met in it, the map has the packets of
\* the unresolved elevations, and each resolved one found its own.
MapInv ==
  ~raced =>
    /\ elevPc # "spoiled"
    /\ DOMAIN elevationPackets = Unresolved
    /\ \A e \in Unresolved : elevationPackets[e] = captured[e - 1]
    /\ \A i \in DOMAIN resolved : resolved[i].packet = captured[i]

ElevationInv == ElevInRange => Chain /\ MapInv

-----------------------------------------------------------------------------
(* The queues *)

\* What the queue of requests is, as a sequence.
LEMMA RequestsSeq ==
  ASSUME NEW S, NEW q \in Seq(S), \A e \in S : e.seq \in Nat
  PROVE  /\ Requests(q) \in Seq([ack : Nat])
         /\ q # <<>> => /\ Requests(q) # <<>> /\ Head(Requests(q)).ack = Head(q).seq
                        /\ Requests(Tail(q)) = Tail(Requests(q))
         /\ \A e \in S : Requests(Append(q, e)) = Append(Requests(q), [ack |-> e.seq])
<1>1. DOMAIN q = 1..Len(q) /\ Len(q) \in Nat /\ \A i \in DOMAIN q : q[i].seq \in Nat
  BY LenProperties, ElementOfSeq
<1>2. Requests(q) \in Seq([ack : Nat]) /\ Len(Requests(q)) = Len(q)
  BY <1>1 DEF Requests
<1>3. ASSUME q # <<>>
      PROVE  /\ Requests(q) # <<>> /\ Head(Requests(q)).ack = Head(q).seq
             /\ Requests(Tail(q)) = Tail(Requests(q))
  <2>1. Len(q) # 0 /\ Head(q) = q[1] /\ 1 \in DOMAIN q
    BY <1>1, <1>3, TailFacts
  <2>2. Requests(q) # <<>> /\ Head(Requests(q)) = Requests(q)[1]
    BY <1>2, <2>1
  <2>3. /\ Tail(q) \in Seq(S) /\ Len(Tail(q)) = Len(q) - 1 /\ DOMAIN Tail(q) = 1..(Len(q) - 1)
        /\ \A i \in 1..(Len(q) - 1) : Tail(q)[i] = q[i + 1]
    BY <1>3, HeadTailProperties, LenProperties
  <2>4. Tail(Requests(q)) = [i \in 1..(Len(q) - 1) |-> Requests(q)[i + 1]]
    <3> DEFINE T == [ack : Nat]
    <3> HIDE DEF T
    <3>1. PICK r \in Seq(T) : r = Requests(q)
      BY <1>2 DEF T
    <3>2. Len(r) = Len(q) /\ r # <<>>
      BY <1>2, <2>2, <3>1
    <3>3. Tail(r) \in Seq(T) /\ Len(Tail(r)) = Len(q) - 1
      BY <3>2, HeadTailProperties
    <3>4. \A i \in 1..(Len(q) - 1) : Tail(r)[i] = r[i + 1]
      BY <3>2, <3>3, HeadTailProperties
    <3>5. Tail(r) = [i \in 1..Len(Tail(r)) |-> Tail(r)[i]]
      <4>1. PICK t \in Seq(T) : t = Tail(r)
        BY <3>3
      <4>2. t = [i \in 1..Len(t) |-> t[i]]
        OBVIOUS
      <4> QED BY <4>1, <4>2
    <3>6. Tail(r) = [i \in 1..(Len(q) - 1) |-> r[i + 1]]
      BY <3>3, <3>4, <3>5
    <3> QED BY <3>1, <3>6
  <2> QED BY <1>1, <2>1, <2>2, <2>3, <2>4 DEF Requests
<1>4. ASSUME NEW e \in S
      PROVE  Requests(Append(q, e)) = Append(Requests(q), [ack |-> e.seq])
  <2> DEFINE r == [ack |-> e.seq]
             a == Requests(Append(q, e))
             b == Append(Requests(q), r)
  <2>1. DOMAIN a = 1..(Len(q) + 1) /\ DOMAIN b = 1..(Len(q) + 1)
    BY <1>2, AppendFacts DEF Requests
  <2>2. \A i \in 1..(Len(q) + 1) : a[i] = b[i]
    BY <1>1, <1>2, AppendFacts DEF Requests
  <2>3. /\ a = [i \in DOMAIN a |-> a[i]]
        /\ b = [i \in DOMAIN b |-> b[i]]
    <3>1. b \in Seq([ack : Nat])
      BY <1>2, AppendProperties
    <3> QED BY <3>1 DEF Requests
  <2> HIDE DEF a, b
  <2> QED BY <2>1, <2>2, <2>3 DEF a, b
<1> QED BY <1>2, <1>3, <1>4

\* The queue to the controller: responses do not count, a request is the next one.
LEMMA RequestQueue ==
  ASSUME TypeOK, NEW a \in Nat, NEW n \in Nat, Consecutive(Requests(toController), a, n)
  PROVE  /\ toController # <<>> =>
              /\ Head(toController).seq # 0 =>
                   /\ Head(toController).seq = a + 1 /\ a < n
                   /\ Consecutive(Requests(Tail(toController)), a + 1, n)
              /\ Head(toController).seq = 0 => Consecutive(Requests(Tail(toController)), a, n)
         /\ \A m \in Response \cup ElevRequest :
              /\ m.seq = n + 1 => Consecutive(Requests(Append(toController, m)), a, n + 1)
              /\ m.seq = 0 => Consecutive(Requests(Append(toController, m)), a, n)
<1> DEFINE S == Response \cup ElevRequest
           T == [ack : Nat]
           q == toController
           r == Requests(q)
<1>1. q \in Seq(S) /\ \A e \in S : e.seq \in Nat
  BY DEF TypeOK, Response, ElevRequest
<1>2. r \in Seq(T) /\ \A e \in T : e.ack \in Nat
  BY <1>1, RequestsSeq
<1>3. /\ q # <<>> => r # <<>> /\ Head(r).ack = Head(q).seq /\ Requests(Tail(q)) = Tail(r)
      /\ \A m \in S : Requests(Append(q, m)) = Append(r, [ack |-> m.seq])
  BY <1>1, RequestsSeq
<1>0. Consecutive(r, a, n)
  OBVIOUS
<1> HIDE DEF S, T, q, r
<1>4. ASSUME q # <<>>
      PROVE  /\ Head(q).seq # 0 =>
                   /\ Head(q).seq = a + 1 /\ a < n
                   /\ Consecutive(Requests(Tail(q)), a + 1, n)
             /\ Head(q).seq = 0 => Consecutive(Requests(Tail(q)), a, n)
  <2>1. /\ Head(r).ack # 0 => Head(r).ack = a + 1 /\ Consecutive(Tail(r), a + 1, n)
        /\ Head(r).ack = 0 => Consecutive(Tail(r), a, n)
    BY <1>0, <1>2, <1>3, <1>4, ConsecutiveTail
  <2>2. r # <<>> /\ Head(r) = r[1] /\ 1 \in DOMAIN r
    BY <1>2, <1>3, <1>4, TailFacts
  <2>3. Head(r).ack # 0 => Head(r).ack <= n
    BY <1>0, <2>2 DEF Consecutive
  <2>4. Head(q).seq = Head(r).ack /\ Requests(Tail(q)) = Tail(r)
    BY <1>3, <1>4
  <2>5. Head(q).seq # 0 => Head(q).seq = a + 1 /\ a < n
    BY <2>1, <2>3, <2>4
  <2> QED BY <2>1, <2>4, <2>5
<1>5. ASSUME NEW m \in S
      PROVE  /\ m.seq = n + 1 => Consecutive(Requests(Append(q, m)), a, n + 1)
             /\ m.seq = 0 => Consecutive(Requests(Append(q, m)), a, n)
  <2> DEFINE e == [ack |-> m.seq]
  <2>1. e \in T /\ e.ack = m.seq
    BY <1>1 DEF T
  <2> HIDE DEF e
  <2>2. /\ e.ack = n + 1 => Consecutive(Append(r, e), a, n + 1)
        /\ e.ack = 0 => Consecutive(Append(r, e), a, n)
    BY <1>0, <1>2, <2>1, ConsecutiveAppend
  <2>3. Requests(Append(q, m)) = Append(r, e)
    BY <1>3 DEF e
  <2> QED BY <2>1, <2>2, <2>3
<1> QED BY <1>4, <1>5 DEF q, S

\* The queue to the agent: commands do not count, an answer is the next one.
LEMMA AnswerQueue ==
  ASSUME TypeOK, NEW a \in Nat, NEW n \in Nat, Consecutive(toAgent, a, n)
  PROVE  /\ toAgent # <<>> =>
              /\ Head(toAgent).ack # 0 =>
                   /\ Head(toAgent).ack = a + 1 /\ a < n
                   /\ Consecutive(Tail(toAgent), a + 1, n)
              /\ Head(toAgent).ack = 0 => Consecutive(Tail(toAgent), a, n)
         /\ \A m \in CommandMsg \cup ElevResponse :
              /\ m.ack = n + 1 => Consecutive(Append(toAgent, m), a, n + 1)
              /\ m.ack = 0 => Consecutive(Append(toAgent, m), a, n)
<1> DEFINE S == CommandMsg \cup ElevResponse
<1>1. toAgent \in Seq(S) /\ \A e \in S : e.ack \in Nat
  BY DEF TypeOK, CommandMsg, ElevResponse
<1> HIDE DEF S
<1>2. ASSUME toAgent # <<>>
      PROVE  /\ Head(toAgent).ack # 0 =>
                   /\ Head(toAgent).ack = a + 1 /\ a < n
                   /\ Consecutive(Tail(toAgent), a + 1, n)
             /\ Head(toAgent).ack = 0 => Consecutive(Tail(toAgent), a, n)
  <2>1. /\ Head(toAgent).ack # 0
              => Head(toAgent).ack = a + 1 /\ Consecutive(Tail(toAgent), a + 1, n)
        /\ Head(toAgent).ack = 0 => Consecutive(Tail(toAgent), a, n)
    BY <1>1, <1>2, ConsecutiveTail
  <2>2. Head(toAgent).ack # 0 => Head(toAgent).ack <= n
    BY <1>1, <1>2, TailFacts DEF Consecutive
  <2> QED BY <2>1, <2>2
<1>3. ASSUME NEW m \in S
      PROVE  /\ m.ack = n + 1 => Consecutive(Append(toAgent, m), a, n + 1)
             /\ m.ack = 0 => Consecutive(Append(toAgent, m), a, n)
  BY <1>1, ConsecutiveAppend
<1> QED BY <1>2, <1>3 DEF S

-----------------------------------------------------------------------------
(* Every step keeps the line *)

LEMMA ChainNumbers ==
  ASSUME TypeOK, Chain
  PROVE  /\ Len(resolved) \in Nat /\ Len(resolved) + 1 \in Nat
         /\ Taken \in Nat \ {0} /\ Answered \in Nat
         /\ elevSeq \in Nat /\ elevSeq - 1 \in Nat
         /\ Len(captured) \in Nat
<1>1. elevReqId \in Nat /\ elevSeq \in Nat \ {0, 1}
  BY DEF TypeOK
<1>2. Len(resolved) \in Nat /\ Len(captured) \in Nat
  BY LenProperties DEF TypeOK
<1>3. Taken \in Nat \ {0} /\ Answered \in Nat
  BY <1>1 DEF Taken, Answered
<1> QED BY <1>1, <1>2, <1>3

\* The numbers of elevations never decrease either.
LEMMA ElevRangeBackwards == TypeOK /\ [Next]_vars /\ ElevInRange' => ElevInRange
<1> SUFFICES ASSUME TypeOK, [Next]_vars, ElevInRange' PROVE ElevInRange
  OBVIOUS
<1>1. elevSeq' = elevSeq \/ elevSeq' = elevSeq + 1
  BY DEF Next, vars, Input, HandlerStep, AgentStep, ElevStep, Quiescent, capturing,
         OtherCommand, ElevCapture, SendCommand, HandlerResponse, HandlerDrain,
         HandlerRequest, HandlerItem, AgentRequest, AgentDrain, AgentElevResponse,
         ElevStore, ElevSend
<1>2. SignLimit \in Nat
  BY BaseAssumption DEF SignLimit
<1> QED BY <1>1, <1>2 DEF ElevInRange, TypeOK

LEMMA ElevOnWire ==
  ASSUME NEW n \in Nat, NEW k \in Nat, n < k, k <= SignLimit
  PROVE  OnWire(n) = n
<1>1. SignLimit \in Nat /\ n \in 0..(SignLimit - 1)
  BY BaseAssumption DEF SignLimit
<1> QED BY <1>1, WireIdentity

\* What the elevations depend on, apart from the queues.
elevating == <<todo, elevReqId, elevSeq, elevPc, receivedPacket, captured,
               elevationPackets, raced, resolved>>

\* Steps of commands and their responses leave the line alone.
LEMMA CommandsPass ==
  ASSUME TypeOK, Chain, MapInv, UNCHANGED elevating,
         \/ toAgent' = toAgent
         \/ \E m \in CommandMsg : toAgent' = Append(toAgent, m)
         \/ toAgent # <<>> /\ Head(toAgent).ack = 0 /\ toAgent' = Tail(toAgent),
         \/ toController' = toController
         \/ \E m \in Response : toController' = Append(toController, m)
         \/ toController # <<>> /\ Head(toController).seq = 0
              /\ toController' = Tail(toController)
  PROVE  Chain' /\ MapInv'
<1>1. UNCHANGED <<Taken, Answered, Unresolved>>
  BY DEF elevating, Taken, Answered, Unresolved
<1>2. Consecutive(toAgent', Len(resolved) + 1, Answered)
  <2>1. \A m \in CommandMsg : m.ack = 0
    BY DEF CommandMsg
  <2>2. Consecutive(toAgent, Len(resolved) + 1, Answered)
    BY DEF Chain
  <2> QED BY <2>1, <2>2, ChainNumbers, AnswerQueue
<1>3. Consecutive(Requests(toController'), Taken, elevSeq - 1)
  <2>1. \A m \in Response : m.seq = 0
    BY DEF Response
  <2>2. Consecutive(Requests(toController), Taken, elevSeq - 1)
    BY DEF Chain
  <2> QED BY <2>1, <2>2, ChainNumbers, RequestQueue
<1>4. Chain'
  BY <1>1, <1>2, <1>3 DEF Chain, elevating
<1>5. MapInv'
  BY <1>1 DEF MapInv, elevating
<1> QED BY <1>4, <1>5

\* Handler takes the next request.
LEMMA TakeRequest ==
  ASSUME TypeOK, RecordsAnswerOnce, Chain, MapInv, HandlerRequest, Head(toController).seq # 0
  PROVE  Chain' /\ MapInv'
<1> PICK m : m = Head(toController)
  OBVIOUS
<1>1. /\ toController # <<>> /\ m.seq # 0 /\ todo = <<>>
      /\ elevReqId' = m.seq
      /\ todo' = IF Plan[m.packet] = <<>> THEN <<"drop">> ELSE Plan[m.packet]
      /\ toController' = Tail(toController)
      /\ UNCHANGED <<elevSeq, elevPc, receivedPacket, captured, elevationPackets, raced,
                     resolved, toAgent>>
  BY DEF HandlerRequest, HandlerIdle, capturing, mapping
<1>2. m \in ElevRequest
  BY <1>1, ToControllerKinds
<1>3. /\ m.seq = Taken + 1 /\ Taken < elevSeq - 1
      /\ Consecutive(Requests(toController'), Taken + 1, elevSeq - 1)
  <2>1. Consecutive(Requests(toController), Taken, elevSeq - 1)
    BY DEF Chain
  <2> QED BY <1>1, <2>1, ChainNumbers, RequestQueue
<1>4. todo' # <<>> /\ EndsInItsAnswer(todo')
  <2>1. CASE Plan[m.packet] = <<>>
    <3>1. todo' = <<"drop">>
      BY <1>1, <2>1
    <3> QED BY <3>1 DEF EndsInItsAnswer, IsAnswer
  <2>2. CASE Plan[m.packet] # <<>>
    BY <1>1, <1>2, <2>2 DEF RecordsAnswerOnce, ElevRequest
  <2> QED BY <2>1, <2>2
<1>5. Taken' = Taken + 1 /\ Answered' = Taken /\ Answered = Taken
  BY <1>1, <1>3, <1>4, ChainNumbers DEF Taken, Answered
<1>6. elevReqId' # 1 /\ elevReqId' # 0
  BY <1>1, <1>3, ChainNumbers
<1>7. Consecutive(toAgent', Len(resolved') + 1, Answered')
  BY <1>1, <1>5 DEF Chain
<1>8. Taken' < elevSeq' /\ Len(resolved') + 1 <= Answered'
  BY <1>1, <1>3, <1>5, ChainNumbers DEF Chain
<1>9. Chain'
  BY <1>1, <1>3, <1>4, <1>5, <1>6, <1>7, <1>8 DEF Chain
<1>10. MapInv'
  BY <1>1 DEF MapInv, Unresolved
<1> QED BY <1>9, <1>10

\* Handler goes on in the record, and the answer is the last entry.
LEMMA ItemStep ==
  ASSUME TypeOK, ElevInRange, Chain, MapInv, HandlerItem
  PROVE  Chain' /\ MapInv'
<1>1. /\ todo # <<>> /\ todo' = Tail(todo)
      /\ UNCHANGED <<elevReqId, elevSeq, elevPc, receivedPacket, captured, elevationPackets,
                     raced, resolved, toController>>
  BY DEF HandlerItem, capturing, mapping
<1>2. /\ todo \in Seq(Items) /\ Head(todo) = todo[1] /\ Len(todo) \in Nat \ {0}
      /\ 1 \in DOMAIN todo
      /\ Len(Tail(todo)) = Len(todo) - 1
      /\ \A i \in DOMAIN Tail(todo) : i \in Nat /\ i + 1 \in DOMAIN todo /\ Tail(todo)[i] = todo[i + 1]
  BY <1>1, TailFacts, HeadTailProperties, LenProperties DEF TypeOK
<1>3. elevReqId \in Nat \ {0, 1} /\ Taken = elevReqId /\ Answered = elevReqId - 1
  BY <1>1 DEF Chain, Taken, Answered, TypeOK
<1>4. EndsInItsAnswer(todo')
  BY <1>1, <1>2 DEF Chain, EndsInItsAnswer
<1>5. MapInv'
  BY <1>1 DEF MapInv, Unresolved
<1>6. Taken' = Taken
  BY <1>1 DEF Taken
<1>7. CASE IsAnswer(Head(todo))
  <2>1. todo' = <<>>
    <3>1. Len(todo) = 1
      BY <1>2, <1>7 DEF Chain, EndsInItsAnswer
    <3> QED BY <1>1, <1>2, <3>1
  <2>2. Answered' = elevReqId /\ Answered' = Answered + 1
    BY <1>1, <1>3, <1>6, <2>1 DEF Answered
  <2> DEFINE m == [seq |-> 0, ack |-> OnWire(elevReqId), command |-> Head(todo)]
  <2>3. toAgent' = Append(toAgent, m)
    BY <1>7 DEF HandlerItem, IsAnswer
  <2>4. OnWire(elevReqId) = elevReqId
    BY <1>3, ElevOnWire, ChainNumbers DEF Chain, ElevInRange
  <2>5. m \in ElevResponse /\ m.ack = Answered + 1
    BY <1>3, <1>7, <2>4 DEF ElevResponse, IsAnswer
  <2> HIDE DEF m
  <2>6. Consecutive(toAgent', Len(resolved) + 1, Answered + 1)
    <3>1. Consecutive(toAgent, Len(resolved) + 1, Answered)
      BY DEF Chain
    <3> QED BY <2>3, <2>5, <3>1, AnswerQueue, ChainNumbers
  <2>7. Len(resolved') + 1 <= Answered'
    BY <1>1, <2>2, ChainNumbers DEF Chain
  <2>8. Consecutive(toAgent', Len(resolved') + 1, Answered')
    BY <1>1, <2>2, <2>6
  <2>9. Chain'
    BY <1>1, <1>4, <1>6, <2>1, <2>7, <2>8 DEF Chain
  <2> QED BY <1>5, <2>9
<1>8. CASE ~IsAnswer(Head(todo))
  <2>1. todo' # <<>>
    <3>1. Len(todo) # 1
      BY <1>2, <1>8 DEF Chain, EndsInItsAnswer
    <3>2. Len(Tail(todo)) # 0
      BY <1>2, <3>1
    <3>3. Len(<<>>) = 0
      OBVIOUS
    <3> QED BY <1>1, <3>2, <3>3, Zenon
  <2>2. Answered' = Answered
    BY <1>1, <1>6, <2>1 DEF Answered
  <2>3. toAgent' = toAgent
    BY <1>8 DEF HandlerItem, IsAnswer
  <2>4. Chain'
    BY <1>1, <1>3, <1>4, <1>6, <2>2, <2>3 DEF Chain
  <2> QED BY <1>5, <2>4
<1> QED BY <1>7, <1>8

\* The agent handles the next answer: it finds the packet, unless its threads meet.
LEMMA AnswerStep ==
  ASSUME TypeOK, Chain, MapInv, AgentElevResponse
  PROVE  Chain' /\ MapInv'
<1> PICK m : m = Head(toAgent)
  OBVIOUS
<1> DEFINE R == Len(resolved)
<1>1. /\ toAgent # <<>> /\ m.ack # 0 /\ toAgent' = Tail(toAgent)
      /\ UNCHANGED <<todo, elevReqId, elevSeq, receivedPacket, captured, toController>>
  BY DEF AgentElevResponse, answering, capturing
<1>2. PICK missed \in MayMiss :
        /\ resolved' = Append(resolved,
             [elev |-> m.ack, how |-> m.command,
              packet |-> IF ~missed /\ m.ack \in DOMAIN elevationPackets
                         THEN elevationPackets[m.ack] ELSE NoPacket])
        /\ elevationPackets' =
             IF ~missed /\ m.ack \in DOMAIN elevationPackets
             THEN Restrict(elevationPackets, DOMAIN elevationPackets \ {m.ack})
             ELSE elevationPackets
  BY DEF AgentElevResponse
<1> DEFINE found == ~missed /\ m.ack \in DOMAIN elevationPackets
           packet == IF found THEN elevationPackets[m.ack] ELSE NoPacket
<1>3. /\ m.ack = R + 2 /\ R + 1 < Answered
      /\ Consecutive(toAgent', R + 2, Answered)
  <2>1. Consecutive(toAgent, R + 1, Answered)
    BY DEF Chain
  <2>2. R + 1 + 1 = R + 2
    BY ChainNumbers
  <2> HIDE DEF R
  <2>3. R + 1 \in Nat /\ Answered \in Nat
    BY ChainNumbers DEF R
  <2> QED BY <1>1, <2>1, <2>2, <2>3, AnswerQueue
<1>4. UNCHANGED <<Taken, Answered>>
  BY <1>1 DEF Taken, Answered
<1>5. /\ Len(resolved') = R + 1 /\ DOMAIN resolved' = 1..(R + 1)
      /\ \A i \in 1..R : resolved'[i] = resolved[i]
      /\ resolved'[R + 1].elev = m.ack /\ resolved'[R + 1].packet = packet
      /\ DOMAIN resolved = 1..R /\ R \in Nat
  <2>1. m \in ElevResponse
    BY <1>1, ToAgentKinds
  <2>2. packet \in Packets \cup {NoPacket}
    BY DEF TypeOK
  <2> PICK r : r = [elev |-> m.ack, how |-> m.command, packet |-> packet]
    OBVIOUS
  <2>3. r \in Resolution /\ r.elev = m.ack /\ r.packet = packet
    BY <2>1, <2>2 DEF ElevResponse, Resolution
  <2>4. resolved' = Append(resolved, r) /\ resolved \in Seq(Resolution)
    BY <1>2 DEF TypeOK
  <2> HIDE DEF packet
  <2> QED BY <2>3, <2>4, AppendFacts
<1>6. /\ elevPc = "recv" <=> elevPc' = "recv"
      /\ ~raced' => elevPc # "insert" /\ ~raced /\ elevPc' = elevPc
  BY DEF AgentElevResponse, TouchMap
<1>7. \A i \in DOMAIN resolved' : resolved'[i].elev = i + 1
  <2> SUFFICES ASSUME NEW i \in 1..(R + 1) PROVE resolved'[i].elev = i + 1
    BY <1>5
  <2> HIDE DEF packet, found
  <2>1. CASE i = R + 1
    BY <1>3, <1>5, <2>1
  <2>2. CASE i \in 1..R
    BY <1>5, <2>2 DEF Chain
  <2> QED BY <1>5, <2>1, <2>2
<1>8. Chain'
  <2>1. Len(resolved') + 1 <= Answered' /\ Len(resolved') + 1 = R + 2
    BY <1>3, <1>4, <1>5, ChainNumbers
  <2> HIDE DEF R, packet, found
  <2>2. Consecutive(toAgent', Len(resolved') + 1, Answered')
    BY <1>3, <1>4, <2>1
  <2> QED BY <1>1, <1>4, <1>6, <1>7, <2>1, <2>2 DEF Chain
<1>9. ASSUME ~raced' PROVE /\ elevPc' # "spoiled"
                           /\ DOMAIN elevationPackets' = Unresolved'
                           /\ \A e \in Unresolved' : elevationPackets'[e] = captured'[e - 1]
                           /\ \A i \in DOMAIN resolved' : resolved'[i].packet = captured'[i]
  <2>1. /\ elevPc' = elevPc /\ elevPc # "insert" /\ elevPc # "spoiled"
        /\ DOMAIN elevationPackets = Unresolved
        /\ \A e \in Unresolved : elevationPackets[e] = captured[e - 1]
        /\ \A i \in DOMAIN resolved : resolved[i].packet = captured[i]
    BY <1>6, <1>9 DEF MapInv
  <2>2. ~missed
    BY <1>2, <2>1 DEF MayMiss
  <2>3. R + 2 < elevSeq + 1 /\ R + 2 # elevSeq /\ elevSeq - 1 <= Len(captured) + 1
    <3>1. Answered <= Taken /\ Taken < elevSeq
      BY ChainNumbers DEF Chain, Answered
    <3>2. elevSeq - 1 <= Len(captured) + 1
      BY ChainNumbers DEF Chain
    <3> QED BY <1>3, <3>1, <3>2, ChainNumbers
  <2>4. R + 2 \in Unresolved
    BY <2>3, ChainNumbers DEF Unresolved
  <2>5. found /\ packet = captured[R + 1]
    BY <1>3, <1>5, <2>1, <2>2, <2>4
  <2>6. Unresolved' = Unresolved \ {R + 2}
    BY <1>1, <1>5, <2>1 DEF Unresolved
  <2>7. /\ DOMAIN elevationPackets' = Unresolved \ {R + 2}
        /\ \A e \in Unresolved \ {R + 2} : elevationPackets'[e] = captured[e - 1]
    BY <1>2, <1>3, <2>1, <2>5 DEF Restrict
  <2>8. \A i \in 1..(R + 1) : resolved'[i].packet = captured[i]
    <3> HIDE DEF packet, found
    <3> QED BY <1>5, <2>1, <2>5
  <2> QED BY <1>1, <1>5, <2>1, <2>6, <2>7, <2>8
<1> QED BY <1>8, <1>9 DEF MapInv

\* The elevation thread takes a packet out of the tunnel, keeps it and sends it.
LEMMA CaptureStep ==
  ASSUME TypeOK, Chain, MapInv, NEW p \in Packets, ElevCapture(p)
  PROVE  Chain' /\ MapInv'
<1>1. /\ elevPc = "recv" /\ elevPc' = "insert" /\ receivedPacket' = p
      /\ captured' = Append(captured, p)
      /\ UNCHANGED <<todo, elevReqId, elevSeq, elevationPackets, raced, resolved, toAgent,
                     toController>>
  BY DEF ElevCapture, answering
<1>2. /\ Len(captured') = Len(captured) + 1 /\ captured'[Len(captured) + 1] = p
      /\ \A i \in 1..Len(captured) : captured'[i] = captured[i]
  BY <1>1, AppendFacts DEF TypeOK
<1>3. Len(captured) = elevSeq - 2
  BY <1>1 DEF Chain
<1>4. Len(captured') = elevSeq - 1 /\ captured'[elevSeq - 1] = p
  BY <1>2, <1>3, ChainNumbers
<1>5. UNCHANGED <<Taken, Answered>>
  BY <1>1 DEF Taken, Answered
<1>6. Chain'
  BY <1>1, <1>4, <1>5 DEF Chain
<1>7. Unresolved' = Unresolved
  <2>1. \A e : e \in 2..(elevSeq - 1) <=> e \in 2..elevSeq /\ e # elevSeq
    BY ChainNumbers
  <2>2. /\ Len(captured) + 1 = elevSeq - 1 /\ Len(captured') + 1 = elevSeq
        /\ elevPc' # "send" /\ elevPc # "send" /\ UNCHANGED <<elevSeq, resolved>>
    BY <1>1, <1>2, <1>3, ChainNumbers
  <2> QED BY <2>1, <2>2 DEF Unresolved
<1>8. \A e \in Unresolved : captured'[e - 1] = captured[e - 1]
  <2>1. \A e \in Unresolved : e - 1 \in 1..Len(captured)
    BY ChainNumbers DEF Unresolved
  <2> QED BY <1>2, <2>1
<1>9. \A i \in DOMAIN resolved : captured'[i] = captured[i]
  <2>1. Len(resolved) <= Len(captured)
    BY <1>3, ChainNumbers DEF Chain, Answered
  <2>2. DOMAIN resolved = 1..Len(resolved)
    BY LenProperties DEF TypeOK
  <2> QED BY <1>2, <2>1, <2>2, ChainNumbers
<1>10. MapInv'
  BY <1>1, <1>7, <1>8, <1>9 DEF MapInv
<1> QED BY <1>6, <1>10

LEMMA StoreStep ==
  ASSUME TypeOK, Chain, MapInv, ElevStore
  PROVE  Chain' /\ MapInv'
<1>1. /\ elevPc \in {"insert", "spoiled"} /\ elevPc' = "send"
      /\ elevationPackets' =
           IF elevPc = "insert"
           THEN [e \in DOMAIN elevationPackets \cup {elevSeq} |->
                   IF e = elevSeq THEN receivedPacket ELSE elevationPackets[e]]
           ELSE elevationPackets
      /\ UNCHANGED <<todo, elevReqId, elevSeq, receivedPacket, captured, raced, resolved,
                     toAgent, toController>>
  BY DEF ElevStore, answering, capturing
<1>2. UNCHANGED <<Taken, Answered>>
  BY <1>1 DEF Taken, Answered
<1>3. Chain'
  BY <1>1, <1>2 DEF Chain
<1>4. ASSUME ~raced' PROVE /\ DOMAIN elevationPackets' = Unresolved'
                           /\ \A e \in Unresolved' : elevationPackets'[e] = captured[e - 1]
                           /\ \A i \in DOMAIN resolved : resolved[i].packet = captured[i]
  <2>1. /\ elevPc = "insert"
        /\ DOMAIN elevationPackets = Unresolved
        /\ \A e \in Unresolved : elevationPackets[e] = captured[e - 1]
        /\ \A i \in DOMAIN resolved : resolved[i].packet = captured[i]
    BY <1>1, <1>4 DEF MapInv
  <2>2. receivedPacket = captured[elevSeq - 1] /\ Len(captured) + 1 = elevSeq
    BY <2>1, ChainNumbers DEF Chain
  <2>3. elevSeq \in 2..(Len(captured) + 1) /\ elevSeq > Len(resolved) + 1
    <3>1. /\ Len(captured) \in Nat /\ Len(resolved) \in Nat /\ Taken \in Nat
          /\ elevSeq \in Nat \ {0, 1}
      BY ChainNumbers DEF TypeOK
    <3>2. Len(resolved) + 1 <= Answered /\ Taken < elevSeq /\ Answered \in {Taken, Taken - 1}
      BY DEF Chain, Answered
    <3> QED BY <2>2, <3>1, <3>2
  <2>4. Unresolved' = Unresolved \cup {elevSeq}
    BY <1>1, <2>1, <2>3 DEF Unresolved
  <2>5. elevSeq \notin Unresolved
    BY <2>1 DEF Unresolved
  <2> QED BY <1>1, <2>1, <2>2, <2>4, <2>5
<1>5. MapInv'
  BY <1>1, <1>4 DEF MapInv
<1> QED BY <1>3, <1>5

LEMMA SendStep ==
  ASSUME TypeOK, Chain, MapInv, ElevInRange', ElevSend
  PROVE  Chain' /\ MapInv'
<1> DEFINE m == [seq |-> OnWire(elevSeq), ack |-> 0, packet |-> receivedPacket]
<1>1. /\ elevPc = "send" /\ elevPc' = "recv" /\ elevSeq' = elevSeq + 1
      /\ toController' = Append(toController, m)
      /\ UNCHANGED <<todo, elevReqId, captured, elevationPackets, raced, resolved, toAgent>>
  BY DEF ElevSend, answering
<1>2. UNCHANGED <<Taken, Answered>>
  BY <1>1 DEF Taken, Answered
<1>3. m.seq = elevSeq - 1 + 1
  BY <1>1, ElevOnWire, ChainNumbers DEF ElevInRange
<1>4. m \in Response \cup ElevRequest
  BY <1>1, <1>3, ChainNumbers DEF TypeOK, ElevRequest
<1> HIDE DEF m
<1>5. Consecutive(Requests(toController'), Taken, elevSeq - 1 + 1)
  <2>1. Consecutive(Requests(toController), Taken, elevSeq - 1)
    BY DEF Chain
  <2> QED BY <1>1, <1>3, <1>4, <2>1, RequestQueue, ChainNumbers
<1>6. Len(captured) = elevSeq - 1
  BY <1>1 DEF Chain
<1>7. /\ elevSeq' - 1 = elevSeq - 1 + 1 /\ Len(captured) = elevSeq' - 2
      /\ Taken < elevSeq'
  BY <1>1, <1>6, ChainNumbers DEF Chain
<1>8. Chain'
  BY <1>1, <1>2, <1>5, <1>7 DEF Chain
<1>9. Unresolved' = Unresolved
  <2>1. elevSeq + 1 \notin 2..(Len(captured) + 1)
    BY <1>6, ChainNumbers
  <2> QED BY <1>1, <2>1 DEF Unresolved
<1>10. MapInv'
  BY <1>1, <1>9 DEF MapInv
<1> QED BY <1>8, <1>10

LEMMA InitElevation == Init => ElevationInv
<1> SUFFICES ASSUME Init PROVE Chain /\ MapInv
  BY DEF ElevationInv
<1>1. /\ todo = <<>> /\ elevReqId = 0 /\ elevSeq = 2 /\ elevPc = "recv" /\ captured = <<>>
      /\ resolved = <<>> /\ elevationPackets = <<>> /\ toAgent = <<>> /\ toController = <<>>
  BY DEF Init
<1>2. Taken = 1 /\ Answered = 1
  BY <1>1 DEF Taken, Answered
<1>3. Consecutive(toAgent, 1, 1) /\ Consecutive(Requests(toController), 1, 1)
  BY <1>1 DEF Consecutive, Requests
<1>4. EndsInItsAnswer(todo)
  BY <1>1 DEF EndsInItsAnswer
<1>5. Len(resolved) = 0 /\ Len(captured) = 0 /\ DOMAIN resolved = {} /\ DOMAIN elevationPackets = {}
  BY <1>1
<1>6. Chain
  BY <1>1, <1>2, <1>3, <1>4, <1>5 DEF Chain
<1>7. Unresolved = {}
  BY <1>5 DEF Unresolved
<1>8. MapInv
  BY <1>1, <1>5, <1>7 DEF MapInv
<1> QED BY <1>6, <1>8

LEMMA NextElevation ==
  RecordsAnswerOnce => (TypeOK /\ ElevationInv /\ [Next]_vars => ElevationInv')
<1> SUFFICES ASSUME RecordsAnswerOnce, TypeOK, ElevationInv, [Next]_vars, ElevInRange'
             PROVE  Chain' /\ MapInv'
  BY DEF ElevationInv
<1>1. ElevInRange /\ Chain /\ MapInv
  BY ElevRangeBackwards DEF ElevationInv
<1> USE <1>1 DEF elevating, answering, capturing, mapping, executing, reporting, numbering
<1>2. ASSUME NEW t \in Others, OtherCommand(t) PROVE Chain' /\ MapInv'
  BY <1>2, CommandsPass DEF OtherCommand
<1>3. ASSUME NEW t \in Threads, SendCommand(t) PROVE Chain' /\ MapInv'
  <2>1. Head(outgoing[t]) \in CommandMsg
    BY <1>3, SeqStep DEF TypeOK, SendCommand
  <2> QED BY <1>3, <2>1, CommandsPass DEF SendCommand
<1>4. CASE HandlerResponse
  <2>1. Head(toController).seq = 0
    <3>1. Head(toController) \in Response
      BY <1>4, ToControllerKinds DEF HandlerResponse
    <3> QED BY <3>1 DEF Response
  <2> QED BY <1>4, <2>1, CommandsPass DEF HandlerResponse
<1>5. CASE HandlerDrain
  BY <1>5, CommandsPass DEF HandlerDrain
<1>6. CASE HandlerRequest
  <2>1. CASE Head(toController).seq = 0
    BY <1>6, <2>1, CommandsPass DEF HandlerRequest
  <2> QED BY <1>6, <2>1, TakeRequest
<1>7. CASE HandlerItem
  BY <1>7, ItemStep
<1>8. ASSUME NEW m \in CommandMsg, ProcessCommand(m)
      PROVE  \E r \in Response : toController' = Append(toController, r)
  <2>1. [seq |-> 0, ack |-> OnWire(m.seq), cmd |-> m.cmd] \in Response
    BY OnWireType DEF CommandMsg, Response
  <2> QED BY <1>8, <2>1 DEF ProcessCommand
<1>9. CASE AgentRequest
  <2>1. Head(toAgent).ack = 0 /\ toAgent # <<>> /\ toAgent' = Tail(toAgent)
        /\ UNCHANGED elevating
    BY <1>9 DEF AgentRequest
  <2>2. toController' = toController \/ \E r \in Response : toController' = Append(toController, r)
    <3>1. CASE Head(toAgent).seq = lastProcessedSeqNum + 1 /\ ProcessCommand(Head(toAgent))
      <4>1. Head(toAgent).seq # 0
        BY <3>1 DEF TypeOK
      <4>2. Head(toAgent) \in CommandMsg
        BY <2>1, <4>1, ToAgentKinds
      <4> QED BY <1>8, <3>1, <4>2
    <3> QED BY <1>9, <3>1 DEF AgentRequest
  <2> QED BY <2>1, <2>2, CommandsPass
<1>10. CASE AgentDrain
  <2>1. PICK m \in requestMessageBuffer : ProcessCommand(m)
    BY <1>10 DEF AgentDrain
  <2>2. m \in CommandMsg
    BY DEF TypeOK
  <2>3. \E r \in Response : toController' = Append(toController, r)
    BY <1>8, <2>1, <2>2
  <2> QED BY <1>10, <2>3, CommandsPass DEF AgentDrain
<1>11. CASE AgentElevResponse
  BY <1>11, AnswerStep
<1>12. ASSUME NEW p \in Packets, ElevCapture(p) PROVE Chain' /\ MapInv'
  BY <1>12, CaptureStep
<1>13. CASE ElevStore
  BY <1>13, StoreStep
<1>14. CASE ElevSend
  BY <1>14, SendStep
<1>15. CASE UNCHANGED vars
  BY <1>15, CommandsPass DEF vars
<1> QED BY <1>2, <1>3, <1>4, <1>5, <1>6, <1>7, <1>9, <1>10, <1>11, <1>12, <1>13, <1>14,
           <1>15 DEF Next, Input, HandlerStep, AgentStep, ElevStep, Quiescent

LEMMA ElevationCorrect ==
  ASSUME RecordsAnswerOnce
  PROVE  Spec => []ElevationInv
<1>1. Init => ElevationInv
  BY InitElevation
<1>2. TypeOK /\ ElevationInv /\ [Next]_vars => ElevationInv'
  BY NextElevation
<1> QED BY <1>1, <1>2, TypeCorrect, PTL DEF Spec

-----------------------------------------------------------------------------
(* What it means *)

\* handleElevationResponse finds the packet it answers under the number the
\* packet was stored with, in the order of the packets.
THEOREM AnswersFindTheirPackets ==
  ASSUME RecordsAnswerOnce
  PROVE  Spec => []AnswerFindsItsPacket
<1>1. ElevationInv => AnswerFindsItsPacket
  BY DEF ElevationInv, Chain, MapInv, AnswerFindsItsPacket
<1> QED BY <1>1, ElevationCorrect, PTL

\* elevationPackets holds exactly the packets that wait for their answer.
THEOREM PacketsHeld ==
  ASSUME RecordsAnswerOnce
  PROVE  Spec => []PacketHeldUntilAnswered
<1>1. TypeOK /\ ElevationInv => PacketHeldUntilAnswered
  <2> SUFFICES ASSUME TypeOK, Chain, MapInv, ~raced
               PROVE  DOMAIN elevationPackets =
                        { e \in 2..(Len(captured) + 1) :
                            /\ e = elevSeq => elevPc = "send"
                            /\ \A i \in DOMAIN resolved : resolved[i].elev # e }
    BY DEF ElevationInv, PacketHeldUntilAnswered
  <2>1. DOMAIN resolved = 1..Len(resolved) /\ Len(resolved) \in Nat
    BY LenProperties DEF TypeOK
  <2>2. \A e \in 2..(Len(captured) + 1) :
          e > Len(resolved) + 1 <=> \A i \in DOMAIN resolved : resolved[i].elev # e
    <3> TAKE e \in 2..(Len(captured) + 1)
    <3>1. ASSUME e <= Len(resolved) + 1 PROVE \E i \in DOMAIN resolved : resolved[i].elev = e
      <4>1. e - 1 \in DOMAIN resolved /\ e - 1 + 1 = e
        BY <2>1, <3>1
      <4> QED BY <4>1 DEF Chain
    <3>2. ASSUME NEW i \in DOMAIN resolved, resolved[i].elev = e PROVE e <= Len(resolved) + 1
      BY <2>1, <3>2 DEF Chain
    <3> QED BY <2>1, <3>1, <3>2
  <2> QED BY <2>2 DEF MapInv, Unresolved
<1> QED BY <1>1, ElevationCorrect, TypeCorrect, PTL

-----------------------------------------------------------------------------
(* Every elevation is in one place *)

\* A set of numbers that is not empty has a least one.
LEMMA LeastNumber ==
  ASSUME NEW V \in SUBSET Nat, V # {}
  PROVE  \E v \in V : \A w \in V : v <= w
<1>1. PICK v \in V : \A w \in V : ~(<<w, v>> \in OpToRel(<, Nat))
  BY NatLessThanWellFounded, WFMin
<1>2. ASSUME NEW w \in V PROVE v <= w
  <2>1. v \in Nat /\ w \in Nat
    OBVIOUS
  <2> SUFFICES ASSUME w < v PROVE FALSE
    BY <2>1
  <2>2. <<w, v>> \in OpToRel(<, Nat)
    BY <2>1 DEF OpToRel
  <2> QED BY <1>1, <2>2
<1> QED BY <1>2

\* The queue that is Consecutive from a to n has each of these numbers once.
LEMMA OnceInQueue ==
  ASSUME NEW S, NEW q \in Seq(S), \A x \in S : x.ack \in Nat,
         NEW a \in Nat, NEW n \in Nat, Consecutive(q, a, n), NEW e \in Nat \ {0}
  PROVE  Cardinality({i \in DOMAIN q : q[i].ack = e}) = IF a < e /\ e <= n THEN 1 ELSE 0
<1> DEFINE Found == {i \in DOMAIN q : q[i].ack = e}
           V == {v \in Nat \ {0} : \E i \in DOMAIN q : q[i].ack = v}
<1>1. DOMAIN q = 1..Len(q) /\ Len(q) \in Nat /\ \A i \in DOMAIN q : q[i].ack \in Nat
  BY LenProperties, ElementOfSeq
<1>2. \A i, j \in Found : i = j
  <2> SUFFICES ASSUME NEW i \in Found, NEW j \in Found, i < j PROVE FALSE
    BY <1>1
  <2> QED BY <1>1 DEF Consecutive
<1>3. \A v \in V : v <= n /\ (v = a + 1 \/ v - 1 \in V)
  <2> TAKE v \in V
  <2>1. PICK i \in DOMAIN q : q[i].ack = v /\ v # 0 /\ v \in Nat
    OBVIOUS
  <2>2. /\ q[i].ack <= n
        /\ \/ q[i].ack = a + 1
           \/ \E j \in 1..(i - 1) : q[j].ack # 0 /\ q[j].ack = q[i].ack - 1
    BY <2>1 DEF Consecutive
  <2>3. ASSUME NEW j \in 1..(i - 1), q[j].ack # 0, q[j].ack = v - 1 PROVE v - 1 \in V
    <3>1. j \in DOMAIN q
      BY <1>1, <2>1
    <3> QED BY <1>1, <2>3, <3>1
  <2> QED BY <2>1, <2>2, <2>3
<1>4. n = a \/ n \in V
  BY <1>1 DEF Consecutive
<1> HIDE DEF V
<1>5. V \subseteq Nat \ {0}
  BY DEF V
<1>6. \A v \in V : a < v
  <2> SUFFICES ASSUME V # {} PROVE \A v \in V : a < v
    OBVIOUS
  <2>1. PICK l \in V : \A w \in V : l <= w
    BY <1>5, LeastNumber
  <2>2. l = a + 1
    <3>1. ASSUME l - 1 \in V PROVE FALSE
      BY <1>5, <2>1, <3>1
    <3> QED BY <1>3, <3>1
  <2> QED BY <1>5, <2>1, <2>2
<1>7. ASSUME a < e, e <= n PROVE e \in V
  <2> DEFINE U == {v \in V : e <= v}
  <2>1. n \in U
    BY <1>4, <1>7
  <2>2. U \in SUBSET Nat
    BY <1>5
  <2> HIDE DEF U
  <2>3. PICK l \in U : \A w \in U : l <= w
    BY <2>1, <2>2, LeastNumber
  <2>4. l \in V /\ e <= l /\ l \in Nat
    BY <1>5 DEF U
  <2>5. CASE l = e
    BY <2>4, <2>5
  <2>6. CASE l # e
    <3>1. e <= l - 1 /\ l # a + 1
      BY <1>7, <2>4, <2>6
    <3>2. l - 1 \in U
      BY <1>3, <2>4, <3>1 DEF U
    <3> QED BY <2>3, <2>4, <3>2
  <2> QED BY <2>5, <2>6
<1>8. e \in V <=> a < e /\ e <= n
  BY <1>3, <1>6, <1>7
<1>9. CASE e \in V
  <2>1. PICK i \in DOMAIN q : q[i].ack = e
    BY <1>9 DEF V
  <2>2. Found = {i}
    BY <1>2, <2>1
  <2> QED BY <1>8, <1>9, <2>2, FS_Singleton
<1>10. CASE e \notin V
  <2>1. Found = {}
    BY <1>10 DEF V
  <2> QED BY <1>8, <1>10, <2>1, FS_EmptySet
<1> QED BY <1>9, <1>10

\* From the tunnel to the answer, through both programs and both queues, an
\* elevated packet is never forgotten and never answered twice.
THEOREM ElevationsInOnePlace ==
  ASSUME RecordsAnswerOnce
  PROVE  Spec => []EachElevationInOnePlace
<1>1. TypeOK /\ ElevationInv => EachElevationInOnePlace
  <2> SUFFICES ASSUME TypeOK, Chain, NEW e \in 2..(Len(captured) + 1)
               PROVE  Whereabouts(e) = 1
    BY DEF ElevationInv, EachElevationInOnePlace
  <2> DEFINE R == Len(resolved)
             inHand == IF elevPc # "recv" /\ elevSeq = e THEN 1 ELSE 0
             asked == {i \in DOMAIN toController :
                         toController[i].ack = 0 /\ toController[i].seq = e}
             handled == IF elevReqId = e
                        THEN Cardinality({i \in DOMAIN todo : IsAnswer(todo[i])}) ELSE 0
             replied == {i \in DOMAIN toAgent : toAgent[i].ack = e}
             done == {i \in DOMAIN resolved : resolved[i].elev = e}
  <2>1. e \in Nat \ {0, 1}
    BY ChainNumbers
  <2>2. Cardinality(asked) = IF Taken < e /\ e <= elevSeq - 1 THEN 1 ELSE 0
    <3> DEFINE T == [ack : Nat]
               r == Requests(toController)
    <3>1. r \in Seq(T)
      <4>1. \A m \in Response \cup ElevRequest : m.seq \in Nat
        BY DEF Response, ElevRequest
      <4> QED BY <4>1, RequestsSeq DEF TypeOK
    <3>2. \A x \in T : x.ack \in Nat
      OBVIOUS
    <3>3. Consecutive(r, Taken, elevSeq - 1)
      BY DEF Chain
    <3>4. asked = {i \in DOMAIN r : r[i].ack = e}
      <4>1. DOMAIN r = DOMAIN toController /\ \A i \in DOMAIN r : r[i].ack = toController[i].seq
        BY DEF Requests
      <4>2. \A i \in DOMAIN toController : toController[i].seq = e => toController[i].ack = 0
        <5> TAKE i \in DOMAIN toController
        <5>1. toController[i] \in Response \cup ElevRequest
          BY ElementOfSeq, LenProperties DEF TypeOK
        <5> QED BY <2>1, <5>1 DEF Response, ElevRequest
      <4> QED BY <4>1, <4>2
    <3> HIDE DEF T, r
    <3> QED BY <2>1, <3>1, <3>2, <3>3, <3>4, ChainNumbers, OnceInQueue
  <2>3. Cardinality(replied) = IF R + 1 < e /\ e <= Answered THEN 1 ELSE 0
    <3> DEFINE S == CommandMsg \cup ElevResponse
    <3>1. toAgent \in Seq(S)
      BY DEF TypeOK
    <3>2. \A x \in S : x.ack \in Nat
      BY DEF CommandMsg, ElevResponse
    <3>3. Consecutive(toAgent, R + 1, Answered)
      BY DEF Chain
    <3>4. PICK a \in Nat : a = R + 1
      BY ChainNumbers
    <3> HIDE DEF S
    <3>5. Cardinality(replied) = IF a < e /\ e <= Answered THEN 1 ELSE 0
      BY <2>1, <3>1, <3>2, <3>3, <3>4, ChainNumbers, OnceInQueue
    <3> QED BY <3>4, <3>5
  <2>4. Cardinality(done) = IF e <= R + 1 THEN 1 ELSE 0
    <3>1. DOMAIN resolved = 1..R /\ R \in Nat
      BY LenProperties DEF TypeOK
    <3>2. \A i \in DOMAIN resolved : resolved[i].elev = i + 1
      BY DEF Chain
    <3>3. CASE e <= R + 1
      <4>1. done = {e - 1}
        BY <2>1, <3>1, <3>2, <3>3
      <4> QED BY <3>3, <4>1, FS_Singleton
    <3>4. CASE ~(e <= R + 1)
      <4>1. done = {}
        BY <2>1, <3>1, <3>2, <3>4
      <4> QED BY <3>4, <4>1, FS_EmptySet
    <3> QED BY <3>3, <3>4
  <2>5. handled = IF Answered < e /\ e <= Taken THEN 1 ELSE 0
    <3> DEFINE answers == {i \in DOMAIN todo : IsAnswer(todo[i])}
    <3>1. handled = IF elevReqId = e THEN Cardinality(answers) ELSE 0
      OBVIOUS
    <3>2. CASE todo = <<>>
      <4>1. answers = {} /\ Answered = Taken
        BY <3>2 DEF Answered
      <4>2. Cardinality(answers) = 0
        BY <4>1, FS_EmptySet
      <4> HIDE DEF answers, handled
      <4> QED BY <2>1, <3>1, <4>1, <4>2, ChainNumbers
    <3>3. CASE todo # <<>>
      <4>1. DOMAIN todo = 1..Len(todo) /\ Len(todo) \in Nat \ {0}
        BY <3>3, TailFacts, LenProperties DEF TypeOK
      <4>2. answers = {Len(todo)}
        BY <4>1 DEF Chain, EndsInItsAnswer
      <4>3. Cardinality(answers) = 1
        BY <4>2, FS_Singleton
      <4>4. elevReqId = Taken /\ Answered = Taken - 1
        BY <3>3 DEF Chain, Taken, Answered
      <4> HIDE DEF answers, handled
      <4> QED BY <2>1, <3>1, <4>3, <4>4, ChainNumbers
    <3> HIDE DEF answers, handled
    <3> QED BY <3>2, <3>3
  <2>6. inHand = IF elevSeq - 1 < e THEN 1 ELSE 0
    BY <2>1, ChainNumbers DEF Chain
  <2>7. Whereabouts(e) = inHand + Cardinality(asked) + handled + Cardinality(replied)
                           + Cardinality(done)
    BY DEF Whereabouts
  <2>8. R + 1 <= Answered /\ Answered <= Taken /\ Taken <= elevSeq - 1
    BY ChainNumbers DEF Chain, Answered
  <2> HIDE DEF R, inHand, asked, handled, replied, done
  <2>9. R \in Nat
    BY ChainNumbers DEF R
  <2> QED BY <2>1, <2>2, <2>3, <2>4, <2>5, <2>6, <2>7, <2>8, <2>9, ChainNumbers
<1> QED BY <1>1, ElevationCorrect, TypeCorrect, PTL

-----------------------------------------------------------------------------
(* The commands of a record go before its answer *)

\* A request has the packet that was captured under its number.
PacketsKnown ==
  \A i \in DOMAIN toController :
    toController[i].seq # 0 =>
      /\ toController[i].seq \in 2..(elevSeq - 1)
      /\ toController[i].packet = captured[toController[i].seq - 1]

\* The commands numbered on account of elevation e, and those still to be.
ElevCommands(e) == {c \in Command : c.elev = e}
Numbered(e) == Cardinality(Places(issued, ElevCommands(e)))
Left(e) == IF elevReqId = e THEN Cardinality(Places(todo, {"command"})) ELSE 0

\* Of an elevation Handler has taken, the commands of the record are numbered or
\* still to be.
Counted ==
  \A e \in Nat \ {0, 1} :
    Numbered(e) + Left(e) = IF e <= Taken THEN CommandsFor(captured[e - 1]) ELSE 0

\* Command j of an elevation is where the answer, which takes the same way later,
\* does not come before it: in the agent's buffer, in the queue before the answer,
\* or with Handler, which has not sent the answer.
Here(j) ==
  \/ \E m \in requestMessageBuffer : m.seq = j
  \/ \E k \in DOMAIN toAgent :
       /\ toAgent[k].seq = j
       /\ \A i \in DOMAIN toAgent : toAgent[i].ack = issued[j].elev => k < i
  \/ /\ outgoing[Handler] # <<>>
     /\ Head(outgoing[Handler]).seq = j
     /\ \A i \in DOMAIN toAgent : toAgent[i].ack # issued[j].elev

Placed == \A j \in DOMAIN issued : j > Len(executed) /\ issued[j].elev # 0 => Here(j)

RouteInv == PacketsKnown /\ Counted /\ Placed

-----------------------------------------------------------------------------
LEMMA NextPacketsKnown ==
  ASSUME TypeOK, Chain, ElevInRange', PacketsKnown, [Next]_vars
  PROVE  PacketsKnown'
<1> USE DEF numbering, answering, reporting, executing, capturing, mapping
<1> DEFINE S == Response \cup ElevRequest
           Good(m) == m.seq # 0 => m.seq \in 2..(elevSeq' - 1) /\ m.packet = captured'[m.seq - 1]
<1>0. /\ toController \in Seq(S) /\ DOMAIN toController = 1..Len(toController)
      /\ Len(toController) \in Nat /\ elevSeq \in Nat
  BY LenProperties DEF TypeOK
<1>1. \A i \in DOMAIN toController : Good(toController[i])
  <2>1. CASE UNCHANGED <<elevSeq, captured>>
    BY <2>1 DEF PacketsKnown
  <2>2. CASE \E p \in Packets : ElevCapture(p)
    <3>1. PICK p \in Packets : /\ elevPc = "recv" /\ captured' = Append(captured, p)
                               /\ elevSeq' = elevSeq
      BY <2>2 DEF ElevCapture
    <3>2. Len(captured) = elevSeq - 2
      BY <3>1 DEF Chain
    <3>3. \A n \in 1..Len(captured) : captured'[n] = captured[n]
      BY <3>1, AppendFacts DEF TypeOK
    <3>4. \A n \in 2..(elevSeq - 1) : captured'[n - 1] = captured[n - 1]
      BY <1>0, <3>2, <3>3
    <3> QED BY <3>1, <3>4 DEF PacketsKnown
  <2>3. CASE ElevSend
    <3>1. elevSeq' = elevSeq + 1 /\ captured' = captured
      BY <2>3 DEF ElevSend
    <3>2. \A n \in 2..(elevSeq - 1) : n \in 2..(elevSeq' - 1)
      BY <1>0, <3>1
    <3> QED BY <3>1, <3>2 DEF PacketsKnown
  <2> QED BY <2>1, <2>2, <2>3
          DEF Next, vars, Input, HandlerStep, AgentStep, ElevStep, Quiescent,
              OtherCommand, SendCommand, HandlerResponse, HandlerDrain, HandlerRequest,
              HandlerItem, AgentRequest, AgentDrain, AgentElevResponse, ElevStore
<1>2. \/ toController' = toController
      \/ toController # <<>> /\ toController' = Tail(toController)
      \/ \E m \in S : Good(m) /\ toController' = Append(toController, m)
  <2>1. ASSUME NEW m \in CommandMsg, ProcessCommand(m)
        PROVE  \E r \in S : Good(r) /\ toController' = Append(toController, r)
    <3>1. PICK r : r = [seq |-> 0, ack |-> OnWire(m.seq), cmd |-> m.cmd]
      OBVIOUS
    <3>2. r \in Response /\ r.seq = 0
      BY <3>1, OnWireType DEF CommandMsg, Response
    <3> QED BY <2>1, <3>1, <3>2 DEF ProcessCommand
  <2>2. CASE AgentRequest
    <3>1. CASE Head(toAgent).seq = lastProcessedSeqNum + 1 /\ ProcessCommand(Head(toAgent))
      <4>1. Head(toAgent).seq # 0
        BY <3>1 DEF TypeOK
      <4>2. Head(toAgent) \in CommandMsg
        BY <2>2, <4>1, ToAgentKinds DEF AgentRequest
      <4> QED BY <2>1, <3>1, <4>2
    <3> QED BY <2>2, <3>1 DEF AgentRequest
  <2>3. CASE AgentDrain
    <3>1. PICK m \in requestMessageBuffer : ProcessCommand(m)
      BY <2>3 DEF AgentDrain
    <3> QED BY <2>1, <3>1 DEF TypeOK
  <2>4. CASE ElevSend
    <3>1. PICK m : m = [seq |-> OnWire(elevSeq), ack |-> 0, packet |-> receivedPacket]
      OBVIOUS
    <3>2. /\ elevPc = "send" /\ elevSeq' = elevSeq + 1 /\ captured' = captured
          /\ toController' = Append(toController, m)
      BY <2>4, <3>1 DEF ElevSend
    <3>3. OnWire(elevSeq) = elevSeq
      BY <1>0, <3>2, ElevOnWire DEF ElevInRange
    <3>4. m.seq = elevSeq /\ m.packet = captured[elevSeq - 1]
      BY <3>1, <3>2, <3>3 DEF Chain
    <3>5. elevSeq \in 2..(elevSeq' - 1)
      BY <3>2 DEF TypeOK
    <3>6. m \in ElevRequest
      BY <3>1, <3>2, <3>3 DEF TypeOK, ElevRequest
    <3> QED BY <3>2, <3>4, <3>5, <3>6
  <2> QED BY <2>2, <2>3, <2>4
          DEF Next, vars, Input, HandlerStep, AgentStep, ElevStep, Quiescent,
              OtherCommand, SendCommand, HandlerResponse, HandlerDrain, HandlerRequest,
              HandlerItem, AgentElevResponse, ElevStore, ElevCapture
<1> HIDE DEF Good, S
<1>3. \A i \in DOMAIN toController' : Good(toController'[i])
  <2>1. CASE toController' = toController
    BY <1>1, <2>1
  <2>2. CASE toController # <<>> /\ toController' = Tail(toController)
    BY <1>0, <1>1, <2>2, TailFacts
  <2>3. CASE \E m \in S : Good(m) /\ toController' = Append(toController, m)
    <3>1. PICK m \in S : Good(m) /\ toController' = Append(toController, m)
      BY <2>3
    <3>2. /\ DOMAIN toController' = 1..(Len(toController) + 1)
          /\ \A i \in DOMAIN toController : toController'[i] = toController[i]
          /\ toController'[Len(toController) + 1] = m
      BY <1>0, <3>1, AppendFacts
    <3>3. \A i \in DOMAIN toController' : i \in DOMAIN toController \/ i = Len(toController) + 1
      BY <1>0, <3>2
    <3> QED BY <1>1, <3>1, <3>2, <3>3
  <2> QED BY <1>2, <2>1, <2>2, <2>3
<1> QED BY <1>3 DEF PacketsKnown, Good

-----------------------------------------------------------------------------
LEMMA CommandsForIs == \A p : CommandsFor(p) = Cardinality(Places(Plan[p], {"command"}))
<1> TAKE p
<1>1. Places(Plan[p], {"command"}) = {i \in DOMAIN Plan[p] : Plan[p][i] = "command"}
  BY DEF Places
<1> QED BY <1>1 DEF CommandsFor

LEMMA CountTypes ==
  ASSUME TypeOK, NEW e
  PROVE  /\ Numbered(e) \in Nat
         /\ Cardinality(Places(todo, {"command"})) \in Nat
         /\ Left(e) \in Nat
<1>1. Numbered(e) \in Nat
  BY PlacesFinite DEF TypeOK, Numbered
<1>2. Cardinality(Places(todo, {"command"})) \in Nat
  BY PlacesFinite DEF TypeOK
<1> QED BY <1>1, <1>2 DEF Left

\* Numbering a command counts for its own elevation.
LEMMA NumberedOne ==
  ASSUME TypeOK, NEW t \in Threads, NEW elev \in Nat, NumberCommand(t, elev), NEW e
  PROVE  Numbered(e)' = Numbered(e) + (IF elev = e THEN 1 ELSE 0)
<1>1. PICK x : x = [num |-> seqNum, elev |-> elev]
  OBVIOUS
<1>2. x \in Command /\ x.elev = elev /\ issued' = Append(issued, x) /\ issued \in Seq(Command)
  BY <1>1 DEF NumberCommand, TypeOK, Command
<1>3. x \in ElevCommands(e) <=> elev = e
  BY <1>2 DEF ElevCommands
<1>4. Cardinality(Places(issued', ElevCommands(e))) = Cardinality(Places(issued, ElevCommands(e)))
                                                       + (IF x \in ElevCommands(e) THEN 1 ELSE 0)
  BY <1>2, PlacesAppend
<1> QED BY <1>3, <1>4 DEF Numbered, ElevCommands

LEMMA CountedFrame ==
  ASSUME TypeOK, Chain, Counted, UNCHANGED <<issued, todo, elevReqId>>,
         \A n \in 1..Len(captured) : captured'[n] = captured[n]
  PROVE  Counted'
<1>1. UNCHANGED Taken
  BY DEF Taken
<1>2. \A e : Numbered(e)' = Numbered(e) /\ Left(e)' = Left(e)
  BY DEF Numbered, ElevCommands, Left
<1>3. \A e \in Nat \ {0, 1} : e <= Taken => e - 1 \in 1..Len(captured)
  <2>1. Taken < elevSeq /\ Len(captured) >= elevSeq - 2
    BY ChainNumbers DEF Chain
  <2> QED BY <2>1, ChainNumbers
<1>4. \A e \in Nat \ {0, 1} : Numbered(e)' + Left(e)' = IF e <= Taken' THEN CommandsFor(captured'[e - 1]) ELSE 0
  BY <1>1, <1>2, <1>3 DEF Counted
<1> QED BY <1>4 DEF Counted, Numbered, Left, ElevCommands, CommandsFor

LEMMA NextCounted ==
  ASSUME TypeOK, Chain, PacketsKnown, Counted, [Next]_vars
  PROVE  Counted'
<1> USE DEF numbering, answering, reporting, executing, capturing, mapping
<1>1. ASSUME NEW t \in Others, OtherCommand(t) PROVE Counted'
  <2>1. NumberCommand(t, 0) /\ t \in Threads /\ UNCHANGED <<todo, elevReqId, captured>>
    BY <1>1 DEF OtherCommand, Threads
  <2>2. \A e \in Nat \ {0, 1} : Numbered(e)' = Numbered(e) + 0
    BY <2>1, NumberedOne
  <2>3. \A e \in Nat \ {0, 1} : Numbered(e)' = Numbered(e)
    BY <2>2, CountTypes
  <2>4. UNCHANGED Taken /\ \A e : Left(e)' = Left(e)
    BY <2>1 DEF Taken, Left
  <2>5. \A e \in Nat \ {0, 1} :
          Numbered(e)' + Left(e)' = IF e <= Taken' THEN CommandsFor(captured'[e - 1]) ELSE 0
    BY <2>1, <2>3, <2>4 DEF Counted
  <2> QED BY <2>5 DEF Counted, Numbered, Left, ElevCommands, CommandsFor
<1>2. CASE HandlerItem
  <2>1. /\ todo # <<>> /\ todo' = Tail(todo) /\ UNCHANGED <<elevReqId, captured>>
        /\ elevReqId \in Nat
    BY <1>2 DEF HandlerItem, TypeOK
  <2>2. UNCHANGED Taken
    BY <2>1 DEF Taken
  <2> PICK old : old = Cardinality(Places(todo, {"command"}))
    OBVIOUS
  <2> PICK new : new = Cardinality(Places(todo', {"command"}))
    OBVIOUS
  <2>3. old = new + (IF Head(todo) = "command" THEN 1 ELSE 0) /\ old \in Nat /\ new \in Nat
    <3>1. todo \in Seq(Items) /\ todo' \in Seq(Items)
      BY <2>1, SeqStep DEF TypeOK
    <3> QED BY <2>1, <3>1, PlacesTail, PlacesFinite
  <2>4. ASSUME NEW e \in Nat \ {0, 1} PROVE Numbered(e)' + Left(e)' = Numbered(e) + Left(e)
    <3>1. Left(e) = (IF elevReqId = e THEN old ELSE 0) /\ Left(e)' = (IF elevReqId = e THEN new ELSE 0)
      BY <2>1 DEF Left
    <3>2. CASE Head(todo) = "command"
      <4>1. NumberCommand(Handler, elevReqId)
        BY <1>2, <3>2 DEF HandlerItem
      <4>2. Numbered(e)' = Numbered(e) + (IF elevReqId = e THEN 1 ELSE 0)
        BY <2>1, <4>1, NumberedOne DEF Threads
      <4> QED BY <2>3, <3>1, <3>2, <4>2, CountTypes
    <3>3. CASE Head(todo) # "command"
      <4>1. issued' = issued
        BY <1>2, <3>3 DEF HandlerItem
      <4>2. Numbered(e)' = Numbered(e)
        BY <4>1 DEF Numbered, ElevCommands
      <4>3. old = new
        BY <2>3, <3>3
      <4> QED BY <3>1, <4>2, <4>3
    <3> QED BY <3>2, <3>3
  <2>5. \A e \in Nat \ {0, 1} :
          Numbered(e)' + Left(e)' = IF e <= Taken' THEN CommandsFor(captured'[e - 1]) ELSE 0
    BY <2>1, <2>2, <2>4 DEF Counted
  <2> QED BY <2>5 DEF Counted, Numbered, Left, ElevCommands, CommandsFor
<1>3. CASE HandlerRequest /\ Head(toController).seq # 0
  <2> PICK m : m = Head(toController)
    OBVIOUS
  <2>1. /\ toController # <<>> /\ m.seq # 0 /\ todo = <<>> /\ elevReqId' = m.seq
        /\ todo' = IF Plan[m.packet] = <<>> THEN <<"drop">> ELSE Plan[m.packet]
        /\ UNCHANGED <<issued, captured>>
    BY <1>3 DEF HandlerRequest, HandlerIdle
  <2>2. m = toController[1] /\ 1 \in DOMAIN toController
    BY <2>1, TailFacts DEF TypeOK
  <2>3. m.packet = captured[m.seq - 1]
    BY <2>1, <2>2 DEF PacketsKnown
  <2>4. m.seq = Taken + 1
    <3>1. Consecutive(Requests(toController), Taken, elevSeq - 1)
      BY DEF Chain
    <3> QED BY <2>1, <3>1, ChainNumbers, RequestQueue
  <2>5. Taken' = Taken + 1
    BY <2>1, <2>4, ChainNumbers DEF Taken
  <2>6. Cardinality(Places(todo', {"command"})) = CommandsFor(captured[m.seq - 1])
    <3>1. CASE Plan[m.packet] = <<>>
      <4>1. Places(todo', {"command"}) = {}
        <5>1. todo' = <<"drop">>
          BY <2>1, <3>1
        <5>2. DOMAIN todo' = {1} /\ todo'[1] = "drop"
          BY <5>1
        <5> QED BY <5>2 DEF Places
      <4>2. Places(Plan[m.packet], {"command"}) = {}
        BY <3>1 DEF Places
      <4> QED BY <2>3, <4>1, <4>2, CommandsForIs
    <3>2. CASE Plan[m.packet] # <<>>
      BY <2>1, <2>3, <3>2, CommandsForIs
    <3> QED BY <3>1, <3>2
  <2>7. Cardinality(Places(todo, {"command"})) = 0
    <3>1. Places(todo, {"command"}) = {}
      BY <2>1 DEF Places
    <3> QED BY <3>1, FS_EmptySet
  <2>8. ASSUME NEW e \in Nat \ {0, 1}
        PROVE  Numbered(e)' + Left(e)' = IF e <= Taken' THEN CommandsFor(captured'[e - 1]) ELSE 0
    <3>1. Left(e) = 0 /\ Numbered(e)' = Numbered(e) /\ Numbered(e) \in Nat
      BY <2>1, <2>7, CountTypes DEF Left, Numbered, ElevCommands
    <3>2. Numbered(e) = IF e <= Taken THEN CommandsFor(captured[e - 1]) ELSE 0
      BY <3>1 DEF Counted
    <3>3. CASE e = m.seq
      <4>1. Left(e)' = CommandsFor(captured[e - 1])
        BY <2>1, <2>6, <3>3 DEF Left
      <4>2. Numbered(e) = 0
        BY <2>4, <3>2, <3>3, ChainNumbers
      <4>3. Left(e)' \in Nat
        <5>1. todo' \in Seq(Items)
          <6>1. m \in ElevRequest
            BY <2>1, ToControllerKinds
          <6>2. Plan[m.packet] \in Seq(Items)
            BY <6>1, SessionAssumption DEF ElevRequest
          <6>3. <<"drop">> \in Seq(Items)
            BY DEF Items
          <6> QED BY <2>1, <6>2, <6>3
        <5> QED BY <5>1, PlacesFinite DEF Left
      <4> QED BY <2>1, <2>4, <2>5, <3>1, <3>3, <4>1, <4>2, <4>3
    <3>4. CASE e # m.seq
      <4>1. Left(e)' = 0
        BY <2>1, <3>4 DEF Left
      <4>2. e <= Taken' <=> e <= Taken
        BY <2>4, <2>5, <3>4, ChainNumbers
      <4>3. Numbered(e)' + Left(e)' = Numbered(e)
        BY <3>1, <4>1
      <4> QED BY <2>1, <3>2, <4>2, <4>3
    <3> QED BY <3>3, <3>4
  <2> QED BY <2>8 DEF Counted, Numbered, Left, ElevCommands, CommandsFor
<1>4. ASSUME NEW p \in Packets, ElevCapture(p) PROVE Counted'
  <2>1. captured' = Append(captured, p) /\ UNCHANGED <<issued, todo, elevReqId>>
    BY <1>4 DEF ElevCapture
  <2>2. \A n \in 1..Len(captured) : captured'[n] = captured[n]
    BY <2>1, AppendFacts DEF TypeOK
  <2> QED BY <2>1, <2>2, CountedFrame
<1>5. CASE UNCHANGED <<issued, todo, elevReqId, captured>>
  BY <1>5, CountedFrame
<1> QED BY <1>1, <1>2, <1>3, <1>4, <1>5
        DEF Next, vars, Input, HandlerStep, AgentStep, ElevStep, Quiescent,
            SendCommand, HandlerResponse, HandlerDrain, HandlerRequest,
            AgentRequest, AgentDrain, AgentElevResponse, ElevStore, ElevSend

-----------------------------------------------------------------------------
\* An answer on its way is one that Handler has given.
LEMMA AnswersGiven ==
  ASSUME TypeOK, Chain
  PROVE  \A i \in DOMAIN toAgent : toAgent[i].ack <= Answered
BY ChainNumbers, LenProperties DEF Chain, Consecutive, TypeOK

\* The queue to the agent after a step.
LEMMA QueueMoves ==
  ASSUME TypeOK
  PROVE  /\ DOMAIN toAgent = 1..Len(toAgent) /\ Len(toAgent) \in Nat
         /\ toAgent # <<>> =>
              /\ Head(toAgent) = toAgent[1] /\ 1 \in DOMAIN toAgent
              /\ DOMAIN Tail(toAgent) = 1..(Len(toAgent) - 1)
              /\ \A i \in DOMAIN Tail(toAgent) :
                   i + 1 \in DOMAIN toAgent /\ Tail(toAgent)[i] = toAgent[i + 1]
         /\ \A m \in CommandMsg \cup ElevResponse :
              /\ DOMAIN Append(toAgent, m) = 1..(Len(toAgent) + 1)
              /\ \A i \in DOMAIN toAgent : Append(toAgent, m)[i] = toAgent[i]
              /\ Append(toAgent, m)[Len(toAgent) + 1] = m
<1> DEFINE S == CommandMsg \cup ElevResponse
<1>1. toAgent \in Seq(S)
  BY DEF TypeOK
<1> HIDE DEF S
<1>2. DOMAIN toAgent = 1..Len(toAgent) /\ Len(toAgent) \in Nat
  BY <1>1, LenProperties
<1>3. toAgent # <<>> =>
        /\ Head(toAgent) = toAgent[1] /\ 1 \in DOMAIN toAgent
        /\ DOMAIN Tail(toAgent) = 1..(Len(toAgent) - 1)
        /\ \A i \in DOMAIN Tail(toAgent) :
             i + 1 \in DOMAIN toAgent /\ Tail(toAgent)[i] = toAgent[i + 1]
  BY <1>1, TailFacts, HeadTailProperties, LenProperties
<1>4. \A m \in S : /\ DOMAIN Append(toAgent, m) = 1..(Len(toAgent) + 1)
                  /\ \A i \in DOMAIN toAgent : Append(toAgent, m)[i] = toAgent[i]
                  /\ Append(toAgent, m)[Len(toAgent) + 1] = m
  BY <1>1, AppendFacts
<1> QED BY <1>2, <1>3, <1>4 DEF S

\* Nothing happens to a command that is waiting.
LEMMA PlacedFrame ==
  ASSUME Placed, UNCHANGED <<issued, executed, requestMessageBuffer, toAgent, outgoing>>
  PROVE  Placed'
BY DEF Placed, Here

\* What is appended to the queue comes behind the commands in it.
LEMMA HereAppend ==
  ASSUME TypeOK, NEW j \in DOMAIN issued, Here(j), UNCHANGED requestMessageBuffer,
         NEW m \in CommandMsg \cup ElevResponse, toAgent' = Append(toAgent, m),
         issued' = issued,
         \/ outgoing[Handler] = <<>>
         \/ m.ack # issued[j].elev /\ outgoing'[Handler] = outgoing[Handler]
         \/ m = Head(outgoing[Handler]) /\ m.ack # issued[j].elev
  PROVE  Here(j)'
<1>1. /\ DOMAIN toAgent = 1..Len(toAgent) /\ Len(toAgent) \in Nat
      /\ DOMAIN toAgent' = 1..(Len(toAgent) + 1)
      /\ \A i \in DOMAIN toAgent : toAgent'[i] = toAgent[i]
      /\ toAgent'[Len(toAgent) + 1] = m
  BY QueueMoves
<1>2. \A i \in DOMAIN toAgent' : i \in DOMAIN toAgent \/ i = Len(toAgent) + 1
  BY <1>1
<1>3. CASE \E n \in requestMessageBuffer : n.seq = j
  BY <1>3 DEF Here
<1>4. CASE \E k \in DOMAIN toAgent :
             /\ toAgent[k].seq = j
             /\ \A i \in DOMAIN toAgent : toAgent[i].ack = issued[j].elev => k < i
  <2>1. PICK k \in DOMAIN toAgent :
          /\ toAgent[k].seq = j
          /\ \A i \in DOMAIN toAgent : toAgent[i].ack = issued[j].elev => k < i
    BY <1>4
  <2>2. k \in DOMAIN toAgent' /\ k < Len(toAgent) + 1 /\ toAgent'[k].seq = j
    BY <1>1, <2>1
  <2>3. \A i \in DOMAIN toAgent' : toAgent'[i].ack = issued'[j].elev => k < i
    BY <1>1, <1>2, <2>1, <2>2
  <2> QED BY <2>2, <2>3 DEF Here
<1>5. CASE /\ outgoing[Handler] # <<>>
           /\ Head(outgoing[Handler]).seq = j
           /\ \A i \in DOMAIN toAgent : toAgent[i].ack # issued[j].elev
  <2>1. m.ack # issued[j].elev
    BY <1>5
  <2>2. \A i \in DOMAIN toAgent' : toAgent'[i].ack # issued'[j].elev
    BY <1>1, <1>2, <1>5, <2>1
  <2>3. CASE outgoing'[Handler] = outgoing[Handler]
    BY <1>5, <2>2, <2>3 DEF Here
  <2>4. CASE m = Head(outgoing[Handler])
    <3>1. Len(toAgent) + 1 \in DOMAIN toAgent' /\ toAgent'[Len(toAgent) + 1].seq = j
      BY <1>1, <1>5, <2>4
    <3> QED BY <2>2, <3>1 DEF Here
  <2> QED BY <1>5, <2>3, <2>4
<1> QED BY <1>3, <1>4, <1>5 DEF Here

\* A command that is not the first in the queue is still there without the first.
LEMMA HereTail ==
  ASSUME TypeOK, NEW j \in DOMAIN issued, Here(j), toAgent # <<>>, Head(toAgent).seq # j,
         \A m \in requestMessageBuffer :
           m.seq = j => \E n \in requestMessageBuffer' : n.seq = j,
         toAgent' = Tail(toAgent), UNCHANGED <<issued, outgoing>>
  PROVE  Here(j)'
<1>1. /\ DOMAIN toAgent = 1..Len(toAgent) /\ Len(toAgent) \in Nat
      /\ Head(toAgent) = toAgent[1]
      /\ DOMAIN toAgent' = 1..(Len(toAgent) - 1)
      /\ \A i \in DOMAIN toAgent' : i + 1 \in DOMAIN toAgent /\ toAgent'[i] = toAgent[i + 1]
  BY QueueMoves
<1>2. CASE \E m \in requestMessageBuffer : m.seq = j
  BY <1>2 DEF Here
<1>3. CASE \E k \in DOMAIN toAgent :
             /\ toAgent[k].seq = j
             /\ \A i \in DOMAIN toAgent : toAgent[i].ack = issued[j].elev => k < i
  <2>1. PICK k \in DOMAIN toAgent :
          /\ toAgent[k].seq = j
          /\ \A i \in DOMAIN toAgent : toAgent[i].ack = issued[j].elev => k < i
    BY <1>3
  <2>2. k # 1
    BY <1>1, <2>1
  <2>3. k - 1 \in DOMAIN toAgent' /\ k - 1 + 1 = k
    BY <1>1, <2>1, <2>2
  <2>4. toAgent'[k - 1].seq = j
    BY <1>1, <2>1, <2>3
  <2>5. \A i \in DOMAIN toAgent' : toAgent'[i].ack = issued'[j].elev => k - 1 < i
    <3> TAKE i \in DOMAIN toAgent'
    <3> HAVE toAgent'[i].ack = issued'[j].elev
    <3>1. k < i + 1
      BY <1>1, <2>1
    <3>2. i \in Nat /\ k \in Nat
      BY <1>1, <2>1
    <3> QED BY <3>1, <3>2
  <2> QED BY <2>3, <2>4, <2>5 DEF Here
<1>4. CASE /\ outgoing[Handler] # <<>>
           /\ Head(outgoing[Handler]).seq = j
           /\ \A i \in DOMAIN toAgent : toAgent[i].ack # issued[j].elev
  <2>1. \A i \in DOMAIN toAgent' : toAgent'[i].ack # issued'[j].elev
    BY <1>1, <1>4
  <2> QED BY <1>4, <2>1 DEF Here
<1> QED BY <1>2, <1>3, <1>4 DEF Here

\* A command just numbered is with its thread, and if this is Handler the answer
\* is not given yet.
LEMMA PlacedNumber ==
  ASSUME TypeOK, Chain, SeqInRange', Len(issued) = seqNum - 1, Placed,
         NEW t \in Threads, NEW elev \in Nat, NumberCommand(t, elev),
         UNCHANGED <<executing, toAgent>>,
         t = Handler => elev = elevReqId /\ todo # <<>>,
         t # Handler => elev = 0
  PROVE  Placed'
<1> PICK k : k = seqNum
  OBVIOUS
<1> PICK x : x = [num |-> seqNum, elev |-> elev]
  OBVIOUS
<1> PICK m : m = [seq |-> OnWire(seqNum), ack |-> 0, cmd |-> x]
  OBVIOUS
<1>1. /\ outgoing[t] = <<>> /\ outgoing' = [outgoing EXCEPT ![t] = <<m>>]
      /\ seqNum' = seqNum + 1 /\ issued' = Append(issued, x) /\ x \in Command /\ x.elev = elev
      /\ UNCHANGED <<executed, requestMessageBuffer, toAgent>>
  BY DEF NumberCommand, executing, TypeOK, Command
<1>2. /\ DOMAIN issued' = 1..k /\ DOMAIN issued = 1..(k - 1) /\ k \in Nat \ {0}
      /\ \A i \in DOMAIN issued : issued'[i] = issued[i]
      /\ issued'[k] = x
  <2>1. /\ Len(issued) \in Nat /\ DOMAIN issued = 1..Len(issued)
        /\ DOMAIN Append(issued, x) = 1..(Len(issued) + 1)
        /\ \A i \in 1..Len(issued) : Append(issued, x)[i] = issued[i]
        /\ Append(issued, x)[Len(issued) + 1] = x
    BY <1>1, AppendFacts, LenProperties DEF TypeOK
  <2>2. Len(issued) = k - 1 /\ k \in Nat \ {0} /\ Len(issued) + 1 = k
    BY <2>1 DEF TypeOK
  <2> QED BY <1>1, <2>1, <2>2
<1>3. /\ outgoing'[t] = <<m>> /\ \A u \in Threads \ {t} : outgoing'[u] = outgoing[u]
      /\ Handler \in Threads
  BY <1>1 DEF TypeOK, Threads
<1>4. ASSUME NEW j \in DOMAIN issued, j > Len(executed), issued[j].elev # 0
      PROVE  Here(j)'
  <2>1. Here(j)
    BY <1>4 DEF Placed
  <2>2. issued'[j] = issued[j]
    BY <1>2
  <2>3. outgoing[Handler] # <<>> => outgoing'[Handler] = outgoing[Handler]
    BY <1>1, <1>3
  <2> QED BY <1>1, <2>1, <2>2, <2>3 DEF Here
<1>5. ASSUME elev # 0 PROVE Here(k)'
  <2>1. t = Handler /\ elev = elevReqId /\ todo # <<>>
    BY <1>5
  <2>2. OnWire(k) = k
    BY <1>1, <1>2, ElevOnWire DEF SeqInRange
  <2>3. outgoing'[Handler] # <<>> /\ Head(outgoing'[Handler]).seq = k
    <3>1. Head(<<m>>) = m /\ <<m>> # <<>> /\ m.seq = k
      BY <2>2
    <3> QED BY <1>3, <2>1, <3>1
  <2>4. Answered < elev
    BY <1>5, <2>1 DEF Answered, Taken, TypeOK
  <2>5. \A i \in DOMAIN toAgent : toAgent[i].ack # elev
    <3> TAKE i \in DOMAIN toAgent
    <3>1. toAgent[i].ack <= Answered
      BY AnswersGiven
    <3>2. toAgent[i].ack \in Nat
      <4>1. toAgent[i] \in CommandMsg \cup ElevResponse
        BY QueueMoves, ElementOfSeq DEF TypeOK
      <4> QED BY <4>1 DEF CommandMsg, ElevResponse
    <3> QED BY <2>4, <3>1, <3>2, ChainNumbers
  <2> QED BY <1>1, <1>2, <2>3, <2>5 DEF Here
<1>6. ASSUME NEW j \in DOMAIN issued', j > Len(executed'), issued'[j].elev # 0
      PROVE  Here(j)'
  <2>1. j \in DOMAIN issued \/ j = k
    BY <1>2
  <2> QED BY <1>1, <1>2, <1>4, <1>5, <1>6, <2>1
<1> QED BY <1>6 DEF Placed

\* The agent executes command n: the commands after it wait on.
LEMMA ExecutedNext ==
  ASSUME TypeOK, NEW m \in CommandMsg, ProcessCommand(m)
  PROVE  Len(executed') = Len(executed) + 1 /\ Len(executed) \in Nat
<1>1. m.cmd \in Command
  BY DEF CommandMsg
<1> QED BY <1>1, AppendFacts DEF TypeOK, ProcessCommand

LEMMA NextPlaced ==
  ASSUME TypeOK, Chain, SeqInRange', Sequenced, Placed, [Next]_vars
  PROVE  Placed'
<1> USE DEF numbering, answering, reporting, executing, capturing, mapping
<1>0. /\ DOMAIN issued = 1..Len(issued) /\ Len(issued) \in Nat /\ Len(issued) = seqNum - 1
      /\ lastProcessedSeqNum = Len(executed) /\ Len(executed) \in Nat
  BY LenProperties DEF TypeOK, Sequenced, NumberedCommands, ExecutedInOrder
<1>1. ASSUME NEW t \in Others, OtherCommand(t) PROVE Placed'
  <2>1. NumberCommand(t, 0) /\ t \in Threads /\ t # Handler
    BY <1>1, SessionAssumption DEF OtherCommand, Threads
  <2> QED BY <1>0, <1>1, <2>1, PlacedNumber DEF OtherCommand
<1>2. ASSUME NEW t \in Threads, SendCommand(t) PROVE Placed'
  <2> PICK m : m = Head(outgoing[t])
    OBVIOUS
  <2>1. /\ outgoing[t] # <<>> /\ toAgent' = Append(toAgent, m) /\ m \in CommandMsg
        /\ outgoing' = [outgoing EXCEPT ![t] = <<>>]
        /\ UNCHANGED <<issued, executed, requestMessageBuffer>>
    BY <1>2, SeqStep DEF SendCommand, TypeOK
  <2>2. t # Handler => outgoing'[Handler] = outgoing[Handler]
    BY <2>1 DEF TypeOK, Threads
  <2>3. m.ack = 0
    BY <2>1 DEF CommandMsg
  <2>4. ASSUME NEW j \in DOMAIN issued, j > Len(executed), issued[j].elev # 0 PROVE Here(j)'
    <3>1. Here(j)
      BY <2>4 DEF Placed
    <3> QED BY <2>1, <2>2, <2>3, <2>4, <3>1, HereAppend
  <2> QED BY <2>1, <2>4 DEF Placed
<1>3. CASE HandlerItem
  <2>1. CASE Head(todo) = "command"
    <3>1. NumberCommand(Handler, elevReqId) /\ Handler \in Threads /\ todo # <<>> /\ elevReqId \in Nat
      BY <1>3, <2>1 DEF HandlerItem, Threads, TypeOK
    <3>2. UNCHANGED <<executing, toAgent>>
      BY <1>3, <2>1 DEF HandlerItem
    <3> QED BY <1>0, <3>1, <3>2, PlacedNumber
  <2>2. CASE IsAnswer(Head(todo))
    <3> PICK m : m = [seq |-> 0, ack |-> OnWire(elevReqId), command |-> Head(todo)]
      OBVIOUS
    <3>1. /\ toAgent' = Append(toAgent, m) /\ outgoing[Handler] = <<>>
          /\ UNCHANGED <<issued, executed, requestMessageBuffer>>
      BY <1>3, <2>2 DEF HandlerItem, IsAnswer
    <3>2. m \in ElevResponse
      BY <2>2, OnWireType DEF TypeOK, ElevResponse, IsAnswer
    <3>3. ASSUME NEW j \in DOMAIN issued, j > Len(executed), issued[j].elev # 0 PROVE Here(j)'
      <4>1. Here(j)
        BY <3>3 DEF Placed
      <4> QED BY <3>1, <3>2, <4>1, HereAppend
    <3> QED BY <3>1, <3>3 DEF Placed
  <2>3. CASE Head(todo) = "elsewhere"
    BY <1>3, <2>3, PlacedFrame DEF HandlerItem
  <2> QED BY <1>3, <2>1, <2>2, <2>3 DEF HandlerItem, IsAnswer
<1>4. CASE AgentRequest
  <2> PICK m : m = Head(toAgent)
    OBVIOUS
  <2>1. toAgent # <<>> /\ toAgent' = Tail(toAgent) /\ UNCHANGED <<issued, outgoing>>
    BY <1>4 DEF AgentRequest
  <2>2. CASE m.seq = lastProcessedSeqNum + 1 /\ ProcessCommand(m) /\ UNCHANGED requestMessageBuffer
    <3>1. m.seq = Len(executed) + 1 /\ m.seq # 0
      BY <1>0, <2>2
    <3>2. m \in CommandMsg
      BY <2>1, <3>1, ToAgentKinds
    <3>3. Len(executed') = Len(executed) + 1
      BY <2>2, <3>2, ExecutedNext
    <3>4. ASSUME NEW j \in DOMAIN issued, j > Len(executed'), issued[j].elev # 0 PROVE Here(j)'
      <4>1. j > Len(executed) /\ j # m.seq
        BY <1>0, <3>1, <3>3, <3>4
      <4>2. Here(j)
        BY <3>4, <4>1 DEF Placed
      <4> QED BY <2>1, <2>2, <4>1, <4>2, HereTail
    <3> QED BY <2>1, <3>4 DEF Placed
  <2>3. CASE /\ m.seq \notin {0, lastProcessedSeqNum + 1}
             /\ requestMessageBuffer' = Buffered(requestMessageBuffer, m)
             /\ UNCHANGED <<executed, toController, lastProcessedSeqNum>>
    <3>1. /\ m \in requestMessageBuffer'
          /\ \A n \in requestMessageBuffer : n.seq = m.seq \/ n \in requestMessageBuffer'
      BY <2>3 DEF Buffered
    <3>2. ASSUME NEW j \in DOMAIN issued, j > Len(executed), issued[j].elev # 0 PROVE Here(j)'
      <4>1. CASE m.seq = j
        BY <3>1, <4>1 DEF Here
      <4>2. CASE m.seq # j
        <5>1. Here(j)
          BY <3>2 DEF Placed
        <5> QED BY <2>1, <3>1, <4>2, <5>1, HereTail
      <4> QED BY <4>1, <4>2
    <3> QED BY <2>1, <2>3, <3>2 DEF Placed
  <2>4. CASE m.seq = 0 /\ UNCHANGED <<executing, toController>>
    <3>1. ASSUME NEW j \in DOMAIN issued, j > Len(executed), issued[j].elev # 0 PROVE Here(j)'
      <4>1. Here(j) /\ j # 0
        BY <1>0, <3>1 DEF Placed
      <4> QED BY <2>1, <2>4, <4>1, HereTail
    <3> QED BY <2>1, <2>4, <3>1 DEF Placed
  <2> QED BY <1>4, <2>2, <2>3, <2>4 DEF AgentRequest
<1>5. CASE AgentDrain
  <2>1. PICK m \in requestMessageBuffer :
          /\ m.seq = lastProcessedSeqNum + 1 /\ ProcessCommand(m)
          /\ requestMessageBuffer' = requestMessageBuffer \ {m}
    BY <1>5 DEF AgentDrain
  <2>2. m \in CommandMsg
    BY DEF TypeOK
  <2>3. Len(executed') = Len(executed) + 1 /\ m.seq = Len(executed) + 1
    BY <1>0, <2>1, <2>2, ExecutedNext
  <2>4. UNCHANGED <<issued, outgoing, toAgent>>
    BY <1>5 DEF AgentDrain
  <2>5. ASSUME NEW j \in DOMAIN issued, j > Len(executed'), issued[j].elev # 0 PROVE Here(j)'
    <3>1. j > Len(executed) /\ j # m.seq
      BY <1>0, <2>3, <2>5
    <3>2. Here(j)
      BY <2>5, <3>1 DEF Placed
    <3>3. \A n \in requestMessageBuffer : n.seq = j => n \in requestMessageBuffer'
      BY <2>1, <3>1
    <3> QED BY <2>4, <3>2, <3>3 DEF Here
  <2> QED BY <2>4, <2>5 DEF Placed
<1>6. CASE AgentElevResponse
  <2>1. /\ toAgent # <<>> /\ Head(toAgent).ack # 0 /\ toAgent' = Tail(toAgent)
        /\ UNCHANGED <<issued, outgoing, executed, requestMessageBuffer>>
    BY <1>6 DEF AgentElevResponse
  <2>2. Head(toAgent).seq = 0
    <3>1. Head(toAgent) \in ElevResponse
      BY <2>1, ToAgentKinds
    <3> QED BY <3>1 DEF ElevResponse
  <2>3. ASSUME NEW j \in DOMAIN issued, j > Len(executed), issued[j].elev # 0 PROVE Here(j)'
    <3>1. Here(j) /\ j # 0
      BY <1>0, <2>3 DEF Placed
    <3> QED BY <2>1, <2>2, <3>1, HereTail
  <2> QED BY <2>1, <2>3 DEF Placed
<1>7. CASE HandlerResponse \/ HandlerDrain \/ HandlerRequest \/ ElevStore \/ ElevSend
           \/ (\E p \in Packets : ElevCapture(p)) \/ UNCHANGED vars
  BY <1>7, PlacedFrame DEF HandlerResponse, HandlerDrain, HandlerRequest, ElevStore, ElevSend,
                           ElevCapture, vars
<1> QED BY <1>1, <1>2, <1>3, <1>4, <1>5, <1>6, <1>7
        DEF Next, Input, HandlerStep, AgentStep, ElevStep, Quiescent

\* What follows when the agent handles an answer.
LEMMA AnswerAfterCommands ==
  ASSUME TypeOK, Chain, Sequenced, RouteInv, AgentElevResponse
  PROVE  \A i \in DOMAIN resolved' \ DOMAIN resolved :
           LET e == resolved'[i].elev
               ours == {j \in DOMAIN issued : issued[j].elev = e}
           IN  /\ Cardinality(ours) = CommandsFor(captured[e - 1])
               /\ \A j \in ours :
                    j > Len(executed) => issued[Len(executed) + 1].elev # e
<1> DEFINE R == Len(resolved)
<1> PICK m : m = Head(toAgent)
  OBVIOUS
<1>1. /\ toAgent # <<>> /\ m.ack # 0 /\ AgentIdle /\ m \in ElevResponse
      /\ \E packet \in Packets \cup {NoPacket} :
           resolved' = Append(resolved, [elev |-> m.ack, how |-> m.command, packet |-> packet])
  <2>1. toAgent # <<>> /\ m.ack # 0 /\ AgentIdle
    BY DEF AgentElevResponse
  <2>2. PICK packet :
          /\ resolved' = Append(resolved, [elev |-> m.ack, how |-> m.command, packet |-> packet])
          /\ \/ packet = NoPacket
             \/ m.ack \in DOMAIN elevationPackets /\ packet = elevationPackets[m.ack]
    BY DEF AgentElevResponse
  <2>3. packet \in Packets \cup {NoPacket}
    BY <2>2 DEF TypeOK
  <2> QED BY <2>1, <2>2, <2>3, ToAgentKinds
<1>2. m.ack = R + 2 /\ R + 2 <= Answered /\ R \in Nat
  <2>1. Consecutive(toAgent, R + 1, Answered)
    BY DEF Chain
  <2>2. R \in Nat /\ R + 1 \in Nat /\ Answered \in Nat
    BY ChainNumbers
  <2> HIDE DEF R
  <2>3. m.ack = R + 1 + 1 /\ R + 1 < Answered
    BY <1>1, <2>1, <2>2, AnswerQueue
  <2> QED BY <2>2, <2>3
<1>3. \A i \in DOMAIN resolved' \ DOMAIN resolved : resolved'[i].elev = m.ack
  <2>1. PICK packet \in Packets \cup {NoPacket} :
          resolved' = Append(resolved, [elev |-> m.ack, how |-> m.command, packet |-> packet])
    BY <1>1
  <2> PICK r : r = [elev |-> m.ack, how |-> m.command, packet |-> packet]
    OBVIOUS
  <2>2. r \in Resolution /\ r.elev = m.ack /\ resolved' = Append(resolved, r)
    BY <1>1, <2>1 DEF ElevResponse, Resolution
  <2>3. /\ DOMAIN resolved' = 1..(R + 1) /\ DOMAIN resolved = 1..R
        /\ resolved'[R + 1] = r
    BY <2>2, AppendFacts DEF TypeOK
  <2> QED BY <1>2, <2>2, <2>3
<1> PICK e : e = m.ack
  OBVIOUS
<1> DEFINE ours == {j \in DOMAIN issued : issued[j].elev = e}
<1>4. Cardinality(ours) = CommandsFor(captured[e - 1])
  <2>1. ours = Places(issued, ElevCommands(e))
    <3>1. \A j \in DOMAIN issued : issued[j] \in Command
      BY LenProperties, ElementOfSeq DEF TypeOK
    <3> QED BY <3>1 DEF Places, ElevCommands
  <2>2. e \in Nat \ {0, 1} /\ e <= Taken
    BY <1>2, ChainNumbers DEF Answered
  <2>3. Left(e) = 0
    <3>1. CASE elevReqId # e
      BY <3>1 DEF Left
    <3>2. CASE elevReqId = e
      <4>1. todo = <<>>
        BY <1>2, <2>2, <3>2 DEF Answered, Taken
      <4>2. Places(todo, {"command"}) = {}
        BY <4>1 DEF Places
      <4> QED BY <4>2, FS_EmptySet DEF Left
    <3> QED BY <3>1, <3>2
  <2>4. Numbered(e) + 0 = CommandsFor(captured[e - 1])
    BY <2>2, <2>3 DEF RouteInv, Counted
  <2>5. Numbered(e) \in Nat
    BY CountTypes
  <2>6. Numbered(e) = CommandsFor(captured[e - 1])
    BY <2>4, <2>5
  <2> HIDE DEF ours
  <2> QED BY <2>1, <2>6 DEF Numbered
<1>5. ASSUME NEW j \in ours, j > Len(executed) PROVE issued[Len(executed) + 1].elev # e
  <2> DEFINE n == Len(executed) + 1
  <2>1. /\ n \in DOMAIN issued /\ n > Len(executed) /\ lastProcessedSeqNum + 1 = n /\ n # 0
    <3>1. /\ DOMAIN issued = 1..Len(issued) /\ Len(issued) \in Nat /\ Len(executed) \in Nat
          /\ lastProcessedSeqNum = Len(executed)
      BY LenProperties DEF TypeOK, Sequenced, ExecutedInOrder
    <3> QED BY <1>5, <3>1
  <2> HIDE DEF n
  <2>2. SUFFICES ASSUME issued[n].elev = e PROVE FALSE
    BY DEF n
  <2>3. Here(n)
    BY <1>1, <2>1, <2>2 DEF RouteInv, Placed
  <2>4. ~\E b \in requestMessageBuffer : b.seq = n
    BY <1>1, <2>1 DEF AgentIdle
  <2>5. /\ DOMAIN toAgent = 1..Len(toAgent) /\ Len(toAgent) \in Nat
        /\ toAgent[1] = m /\ 1 \in DOMAIN toAgent
    BY <1>1, QueueMoves
  <2>6. \A k \in DOMAIN toAgent : ~(k < 1)
    BY <2>5
  <2> QED BY <2>2, <2>3, <2>4, <2>5, <2>6 DEF Here
<1> QED BY <1>3, <1>4, <1>5

\* While the numbers fit the wire: when an elevation is answered, the commands of
\* its record are numbered, and executed up to one that waits for a command of
\* another origin.  This is so for every interleaving of the threads that send
\* to the host, of both directions of the connection and of the agent's threads.
THEOREM RouteCorrect ==
  ASSUME RecordsAnswerOnce
  PROVE  Spec /\ []SeqInRange /\ []ElevInRange => RouteUnlessOvertaken
<1> DEFINE Step ==
      \A i \in DOMAIN resolved' \ DOMAIN resolved :
        LET e == resolved'[i].elev
            ours == {j \in DOMAIN issued : issued[j].elev = e}
        IN  /\ Cardinality(ours) = CommandsFor(captured[e - 1])
            /\ \A j \in ours :
                 j > Len(executed) => issued[Len(executed) + 1].elev # e
<1>1. Init => RouteInv
  <2> SUFFICES ASSUME Init PROVE PacketsKnown /\ Counted /\ Placed
    BY DEF RouteInv
  <2>1. toController = <<>> /\ issued = <<>> /\ todo = <<>> /\ elevReqId = 0
    BY DEF Init
  <2>2. PacketsKnown /\ Placed
    BY <2>1 DEF PacketsKnown, Placed
  <2>3. Taken = 1
    BY <2>1 DEF Taken
  <2>4. \A e \in Nat \ {0, 1} : Numbered(e) = 0 /\ Left(e) = 0 /\ ~(e <= Taken)
    <3> TAKE e \in Nat \ {0, 1}
    <3>1. Places(issued, ElevCommands(e)) = {}
      BY <2>1 DEF Places
    <3>2. Cardinality(Places(issued, ElevCommands(e))) = 0
      BY <3>1, FS_EmptySet
    <3> QED BY <2>1, <2>3, <3>2 DEF Numbered, Left
  <2>5. Counted
    BY <2>4 DEF Counted
  <2> QED BY <2>2, <2>5
<1>2. TypeOK /\ SequencingInv /\ ElevationInv /\ SeqInRange /\ SeqInRange' /\ ElevInRange
        /\ ElevInRange' /\ RouteInv /\ [Next]_vars => RouteInv'
  <2> SUFFICES ASSUME TypeOK, SequencingInv, ElevationInv, SeqInRange, SeqInRange',
                      ElevInRange, ElevInRange', RouteInv, [Next]_vars
               PROVE  RouteInv'
    OBVIOUS
  <2>1. Chain /\ Sequenced
    BY DEF ElevationInv, SequencingInv, Sequenced
  <2> QED BY <2>1, NextPacketsKnown, NextCounted, NextPlaced DEF RouteInv
<1>3. TypeOK /\ SequencingInv /\ ElevationInv /\ SeqInRange /\ ElevInRange /\ RouteInv
        /\ [Next]_vars => [Step]_vars
  <2> SUFFICES ASSUME TypeOK, SequencingInv, ElevationInv, SeqInRange, ElevInRange, RouteInv,
                      [Next]_vars
               PROVE  Step
    OBVIOUS
  <2>1. Chain /\ Sequenced
    BY DEF ElevationInv, SequencingInv, Sequenced
  <2>2. CASE AgentElevResponse
    BY <2>1, <2>2, AnswerAfterCommands
  <2>3. CASE resolved' = resolved
    BY <2>3
  <2> HIDE DEF Step
  <2> QED BY <2>2, <2>3
          DEF Next, vars, Input, HandlerStep, AgentStep, ElevStep, Quiescent,
              OtherCommand, SendCommand, HandlerResponse, HandlerDrain, HandlerRequest,
              HandlerItem, AgentRequest, AgentDrain, ElevStore, ElevSend, ElevCapture
<1> HIDE DEF Step
<1>4. [][Step]_vars => RouteUnlessOvertaken
  BY PTL DEF RouteUnlessOvertaken, Step
<1> QED BY <1>1, <1>2, <1>3, <1>4, TypeCorrect, SequencingCorrect, ElevationCorrect, PTL DEF Spec

=============================================================================
