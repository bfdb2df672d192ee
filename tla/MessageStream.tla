--------------------------- MODULE MessageStream ---------------------------
(***************************************************************************)
(* One direction of a connection as bytes: threads that send messages, the *)
(* buffers of the kernel, and the one thread at the other end that cuts    *)
(* the stream into messages again with getNextMessageFromController or     *)
(* getNextMessageFromHost, which are the same code.                        *)
(*                                                                         *)
(* A message is its length and the byte that fills the rest of it.  send() *)
(* is atomic while the kernel has room; when it has not, the thread sleeps *)
(* without the socket's lock and sends the rest later.                     *)
(*                                                                         *)
(* A definition named X_Slip is X with a mistake a programmer could make;  *)
(* nothing uses it: it is what a property is expected to notice.           *)
(***************************************************************************)
EXTENDS ProtocolMessage, FiniteSetsExt

CONSTANTS
  Senders,       \* threads that send on this connection
  Lengths,       \* lengths of their messages
  Capacity,      \* bytes the kernel holds between send() and recv()
  MaxData,       \* bytes asked of recv() at a time: MAXDATASIZE - 1
  MaxMsgs        \* bound: messages sent

LengthField == 4

ASSUME MessageStreamAssumption ==
  /\ Capacity \in Nat \ {0} /\ MaxData \in Nat \ {0}
  /\ MaxMsgs \in 1..(Base - 1)
  /\ \A l \in Lengths : l \in Nat /\ l > LengthField

VARIABLES
  outgoing,           \* [Senders -> bytes of the message send() still has to copy]
  stream,             \* bytes in the kernel
  open,               \* the sending end has not closed the connection
  reader,             \* where the receiving function is
  msgLength,
  cumulativeBuffer,
  receiveBuffer,
  sent, received,     \* history: messages in the order of their first byte
  spoiled             \* history: the first message that cannot arrive

sending == <<outgoing, open, sent, spoiled>>
reading == <<reader, msgLength, cumulativeBuffer, receiveBuffer, received>>
vars == <<sending, reading, stream>>

Bytes == 0..(Base - 1)
Encoded(l, fill) == PutLength(l) \o [i \in 1..(l - LengthField) |-> fill]

Init ==
  /\ outgoing = [t \in Senders |-> <<>>]
  /\ stream = <<>>
  /\ open = TRUE
  /\ reader = "idle"
  /\ msgLength = 0
  /\ cumulativeBuffer = <<>>
  /\ receiveBuffer = <<>>
  /\ sent = <<>>
  /\ received = <<>>
  /\ spoiled = MaxMsgs + 1

-----------------------------------------------------------------------------
Room == Capacity - Len(stream)

\* The kernel copies what it has room for.
Copy(t, bytes) ==
  LET n == Min({Room, Len(bytes)}) IN
  /\ Room > 0
  /\ stream' = stream \o SubSeq(bytes, 1, n)
  /\ outgoing' = [outgoing EXCEPT ![t] = SubSeq(bytes, n + 1, Len(bytes))]

\* A message is spoiled if send() of another begins inside it, or if its length
\* is misread: one with a byte, other than the lowest, that is negative as a char.
Spoils(l) ==
  IF \E u \in Senders : outgoing[u] # <<>> THEN Len(sent)
  ELSE IF GetLength(PutLength(l)) # l THEN Len(sent) + 1 ELSE MaxMsgs + 1

\* send() of another message.
Send(t, l) ==
  LET message == Encoded(l, Len(sent) + 1) IN
  /\ open
  /\ outgoing[t] = <<>>
  /\ Len(sent) < MaxMsgs
  /\ Copy(t, message)
  /\ sent' = Append(sent, message)
  /\ spoiled' = Min({spoiled, Spoils(l)})
  /\ UNCHANGED <<open, reading>>

\* send() goes on with its message.
SendRest(t) ==
  /\ open
  /\ outgoing[t] # <<>>
  /\ Copy(t, outgoing[t])
  /\ UNCHANGED <<open, sent, spoiled, reading>>

\* The sending program ends, in the middle of a message perhaps.
Close ==
  /\ open
  /\ open' = FALSE
  /\ UNCHANGED <<outgoing, sent, spoiled, stream, reading>>

-----------------------------------------------------------------------------
\* The function is called: it begins with what the last message left over.
NextMessage ==
  /\ reader = "idle"
  /\ reader' = "length"
  /\ cumulativeBuffer' = receiveBuffer
  /\ receiveBuffer' = <<>>
  /\ UNCHANGED <<msgLength, received, sending, stream>>

Hungry_OneMore ==
  \/ reader = "length" /\ Len(cumulativeBuffer) < LengthField
  \/ reader = "body" /\ msgLength >= Len(cumulativeBuffer)

\* One of its two loops needs more bytes.
Hungry ==
  \/ reader = "length" /\ Len(cumulativeBuffer) < LengthField
  \/ reader = "body" /\ msgLength > Len(cumulativeBuffer)

Receive ==
  /\ Hungry
  /\ \E n \in 1..Min({MaxData, Len(stream)}) :
       /\ cumulativeBuffer' = cumulativeBuffer \o SubSeq(stream, 1, n)
       /\ stream' = SubSeq(stream, n + 1, Len(stream))
  /\ UNCHANGED <<reader, msgLength, receiveBuffer, received, sending>>

\* recv() returns 0: the function throws, and is not called again.
EndOfStream ==
  /\ Hungry
  /\ stream = <<>> /\ ~open
  /\ reader' = "closed"
  /\ UNCHANGED <<msgLength, cumulativeBuffer, receiveBuffer, received, sending, stream>>

ReadLength ==
  /\ reader = "length" /\ ~Hungry
  /\ msgLength' = GetLength(SubSeq(cumulativeBuffer, 1, LengthField))
  /\ reader' = "body"
  /\ UNCHANGED <<cumulativeBuffer, receiveBuffer, received, sending, stream>>

Return_Uncut ==
  /\ reader = "body" /\ ~Hungry
  /\ received' = Append(received, cumulativeBuffer)
  /\ receiveBuffer' = <<>>
  /\ cumulativeBuffer' = <<>>
  /\ reader' = "idle"
  /\ UNCHANGED <<msgLength, sending, stream>>

\* The message is returned and the rest kept.
Return ==
  /\ reader = "body" /\ ~Hungry
  /\ received' = Append(received, SubSeq(cumulativeBuffer, 1, msgLength))
  /\ receiveBuffer' = SubSeq(cumulativeBuffer, msgLength + 1, Len(cumulativeBuffer))
  /\ cumulativeBuffer' = <<>>
  /\ reader' = "idle"
  /\ UNCHANGED <<msgLength, sending, stream>>

ReaderStep == NextMessage \/ Receive \/ EndOfStream \/ ReadLength \/ Return

Next ==
  \/ \E t \in Senders, l \in Lengths : Send(t, l)
  \/ \E t \in Senders : SendRest(t)
  \/ Close
  \/ ReaderStep

\* A send() that began goes on, and the reading thread reads; nobody has to
\* send or to close.
Fairness == WF_vars(ReaderStep) /\ \A t \in Senders : WF_vars(SendRest(t))

Spec == Init /\ [][Next]_vars /\ Fairness

-----------------------------------------------------------------------------
\* However recv() cuts the stream into pieces, and whatever the end of one
\* message brings along of the next, what the functions return are the messages
\* that were sent, in their order.  "Gets the next message from the host"
\* (Controller.cpp:385), "from the TCP buffer" (Agent.cpp:490).  It is so up to
\* the first message that two threads sent at a time into a full buffer of the
\* kernel, or whose length is misread.
Messages == INSTANCE Channel
ReturnsTheNextMessage ==
  Messages!Init /\ [][Messages!Next \/ Len(received') >= spoiled]_<<sent, received>>

\* Nor does the receiver ever wait for more than was sent: a message that was
\* copied to the end is returned, even if the connection closes behind it.
EveryMessageReturned ==
  \A n \in 1..MaxMsgs :
    (Len(sent) >= n /\ \A t \in Senders : outgoing[t] = <<>>)
      ~> (Len(received) >= n \/ spoiled <= n)

=============================================================================
