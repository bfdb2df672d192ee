------------------------ MODULE MessageStreamProofs ------------------------
(***************************************************************************)
(* The messages returned are those that were sent, in their order: a proof *)
(* for any number of threads and messages of any lengths, any capacity of  *)
(* the kernel and any number of bytes asked of recv().                     *)
(***************************************************************************)
EXTENDS MessageStream, SequenceTheorems, TLAPS

\* What a byte of a message may be.
Values == Nat \cup {PutLength(l)[i] : l \in Lengths, i \in 1..LengthField}

\* The bytes that were sent and are in no message returned, in the order in which
\* the receiver meets them: those it holds, then those in the kernel.
Held == IF reader = "idle" THEN receiveBuffer ELSE cumulativeBuffer
Count(held, kernel) == Len(held) + Len(kernel)
Byte(held, kernel, k) == IF k <= Len(held) THEN held[k] ELSE kernel[k - Len(held)]
Pending == Count(Held, stream)

\* The next message may still arrive.
Promised == Len(received) + 1 < spoiled

\* The message begins with its length, and one that is not spoiled is read so.
Histories ==
  /\ sent \in Seq(Seq(Values))
  /\ \E S : received \in Seq(S)
  /\ spoiled \in Nat
  /\ \A i \in 1..Len(sent) :
       /\ Len(sent[i]) > LengthField
       /\ i < spoiled => GetLength(SubSeq(sent[i], 1, LengthField)) = Len(sent[i])

\* Where the receiver is.
Reading ==
  /\ receiveBuffer \in Seq(Values) /\ cumulativeBuffer \in Seq(Values)
  /\ stream \in Seq(Values) /\ outgoing \in [Senders -> Seq(Values)]
  /\ reader = "idle" => cumulativeBuffer = <<>>
  /\ reader # "idle" => receiveBuffer = <<>>
  /\ reader = "body" => /\ Len(cumulativeBuffer) >= LengthField
                        /\ msgLength = GetLength(SubSeq(cumulativeBuffer, 1, LengthField))

\* What send() still has to copy of the last message.
Unfinished(t, end) ==
  LET last == sent[Len(sent)] IN
  /\ \A u \in Senders \ {t} : outgoing[u] = <<>>
  /\ Len(outgoing[t]) > 0 /\ Len(outgoing[t]) < Len(last)
  /\ Pending + Len(outgoing[t]) = end
  /\ \A j \in 1..Len(outgoing[t]) :
       outgoing[t][j] = last[Len(last) - Len(outgoing[t]) + j]

Finished(end) == (\A t \in Senders : outgoing[t] = <<>>) /\ Pending = end

\* at[i] is the number of pending bytes before those of message i: the messages
\* not returned lie behind each other ...
Offsets(at) ==
  /\ at[Len(received) + 1] = 0
  /\ \A i \in (Len(received) + 1)..Len(sent) : at[i + 1] = at[i] + Len(sent[i])
  /\ \A i, k \in (Len(received) + 1)..(Len(sent) + 1) : i <= k => at[i] <= at[k]

\* ... with their own bytes, up to the first that is spoiled ...
Contents(at) ==
  \A i \in (Len(received) + 1)..Len(sent) : i < spoiled =>
    \A j \in 1..Len(sent[i]) :
      at[i] + j <= Pending => Byte(Held, stream, at[i] + j) = sent[i][j]

\* ... which those before it do not wait for; if there is none, the last message
\* may not be copied to the end.
Ends(at) ==
  /\ spoiled <= Len(sent) => at[spoiled] <= Pending
  /\ spoiled > Len(sent) => \/ Finished(at[Len(sent) + 1])
                            \/ \E t \in Senders : Unfinished(t, at[Len(sent) + 1])

Aligned(at) == Offsets(at) /\ Contents(at) /\ Ends(at)

StreamInv ==
  /\ Histories
  /\ Promised => /\ Reading
                 /\ Len(received) <= Len(sent)
                 /\ \E at \in [Nat -> Nat] : Aligned(at)

-----------------------------------------------------------------------------
(* Sequences *)

LEMMA SumOfTwo ==
  \A a, b \in Nat : a + b \in Nat /\ \A c \in Nat : c <= a => c <= a + b
OBVIOUS

LEMMA Within ==
  \A a, b, c, p \in Nat : \A j \in 1..b :
    c = a + b /\ c <= p => a + j <= p /\ a + j \in 1..p
OBVIOUS

LEMMA OneToSum ==
  \A a, b, p \in Nat : \A j \in 1..b : a + j <= p => a + j \in 1..p
OBVIOUS

LEMMA ByteOfPiece ==
  ASSUME NEW a \in Nat, NEW b \in Nat, NEW c \in Nat, NEW d \in Nat, NEW n \in Nat,
         NEW m \in 1..c, a + b = d + c, ~(d + m <= a), d + m <= a + n, n <= b
  PROVE  \E k \in 1..n : a + k = d + m /\ c - b + k = m /\ k \in 1..b
<1>1. d + m - a \in 1..n /\ d + m - a \in 1..b
  OBVIOUS
<1>2. a + (d + m - a) = d + m /\ c - b + (d + m - a) = m
  OBVIOUS
<1> QED BY <1>1, <1>2

LEMMA MinOfTwo ==
  ASSUME NEW a \in Int, NEW b \in Int
  PROVE  /\ Min({a, b}) \in {a, b} /\ Min({a, b}) <= a /\ Min({a, b}) <= b
<1>1. \E x \in {a, b} : \A y \in {a, b} : x =< y
  <2>1. CASE a <= b
    BY <2>1
  <2>2. CASE ~(a <= b)
    BY <2>2
  <2> QED BY <2>1, <2>2
<1> QED BY <1>1 DEF Min

\* A sequence is cut in two.
LEMMA CutInTwo ==
  ASSUME NEW X, NEW s \in Seq(X), NEW n \in 0..Len(s)
  PROVE  /\ SubSeq(s, 1, n) \in Seq(X) /\ Len(SubSeq(s, 1, n)) = n
         /\ SubSeq(s, n + 1, Len(s)) \in Seq(X) /\ Len(SubSeq(s, n + 1, Len(s))) = Len(s) - n
         /\ \A j \in 1..n : SubSeq(s, 1, n)[j] = s[j]
         /\ \A j \in 1..(Len(s) - n) : SubSeq(s, n + 1, Len(s))[j] = s[n + j]
<1>1. Len(s) \in Nat /\ \A i \in 1..Len(s) : s[i] \in X
  OBVIOUS
<1> QED BY <1>1

LEMMA SamePrefix ==
  ASSUME NEW X, NEW s \in Seq(X), NEW t \in Seq(X), NEW n \in 0..Len(s), n \in 0..Len(t),
         \A j \in 1..n : s[j] = t[j]
  PROVE  SubSeq(s, 1, n) = SubSeq(t, 1, n)
<1>1. /\ SubSeq(s, 1, n) \in Seq(X) /\ Len(SubSeq(s, 1, n)) = n
      /\ \A j \in 1..n : SubSeq(s, 1, n)[j] = s[j]
  BY CutInTwo
<1>2. /\ SubSeq(t, 1, n) \in Seq(X) /\ Len(SubSeq(t, 1, n)) = n
      /\ \A j \in 1..n : SubSeq(t, 1, n)[j] = t[j]
  BY CutInTwo
<1> QED BY <1>1, <1>2, SeqEqual

Rest(s, n) == SubSeq(s, n + 1, Len(s))
Begun(h, s, n) == h \o SubSeq(s, 1, n)

LEMMA BegunProperties ==
  ASSUME NEW X, NEW s \in Seq(X), NEW h \in Seq(X), NEW n \in 0..Len(s)
  PROVE  /\ Begun(h, s, n) \in Seq(X) /\ Len(Begun(h, s, n)) = Len(h) + n
         /\ \A i \in 1..Len(h) : Begun(h, s, n)[i] = h[i]
         /\ \A i \in 1..n : Begun(h, s, n)[Len(h) + i] = s[i]
<1> DEFINE piece == SubSeq(s, 1, n)
<1>1. /\ piece \in Seq(X) /\ Len(piece) = n
      /\ \A i \in 1..n : piece[i] = s[i]
  BY CutInTwo
<1> HIDE DEF piece
<1>2. /\ Len(piece) \in Nat /\ Len(h) \in Nat
  BY <1>1
<1>3. /\ h \o piece \in Seq(X) /\ Len(h \o piece) = Len(h) + Len(piece)
      /\ \A i \in 1..Len(h) : (h \o piece)[i] = h[i]
      /\ \A i \in 1..Len(piece) : (h \o piece)[Len(h) + i] = piece[i]
  BY <1>1, <1>2
<1>4. Begun(h, s, n) = h \o piece
  BY DEF Begun, piece
<1> QED BY <1>1, <1>3, <1>4

LEMMA RestProperties ==
  ASSUME NEW X, NEW s \in Seq(X), NEW n \in 0..Len(s)
  PROVE  /\ Rest(s, n) \in Seq(X) /\ Len(Rest(s, n)) = Len(s) - n
         /\ \A i \in 1..(Len(s) - n) : Rest(s, n)[i] = s[n + i]
BY CutInTwo DEF Rest

\* Another send() puts its bytes behind those that are pending ...
LEMMA BytesCopied ==
  ASSUME NEW X, NEW h \in Seq(X), NEW s \in Seq(X), NEW b \in Seq(X), NEW n \in 0..Len(b)
  PROVE  LET t == Begun(s, b, n) IN
         /\ t \in Seq(X) /\ Count(h, t) = Count(h, s) + n
         /\ \A k \in 1..Count(h, s) : Byte(h, t, k) = Byte(h, s, k)
         /\ \A k \in 1..n : Byte(h, t, Count(h, s) + k) = b[k]
<1> DEFINE t == Begun(s, b, n)
<1>1. /\ t \in Seq(X) /\ Len(t) = Len(s) + n
      /\ \A i \in 1..Len(s) : t[i] = s[i]
      /\ \A i \in 1..n : t[Len(s) + i] = b[i]
      /\ Len(h) \in Nat /\ Len(s) \in Nat /\ n \in Nat
  <2>1. Len(h) \in Nat /\ Len(s) \in Nat /\ n \in Nat
    OBVIOUS
  <2>2. /\ Begun(s, b, n) \in Seq(X) /\ Len(Begun(s, b, n)) = Len(s) + n
        /\ \A i \in 1..Len(s) : Begun(s, b, n)[i] = s[i]
        /\ \A i \in 1..n : Begun(s, b, n)[Len(s) + i] = b[i]
    BY BegunProperties
  <2> QED BY <2>1, <2>2
<1> HIDE DEF t
<1>2. ASSUME NEW k \in 1..Count(h, s) PROVE Byte(h, t, k) = Byte(h, s, k)
  <2>1. k \in Nat /\ k >= 1 /\ k <= Len(h) + Len(s)
    BY <1>1 DEF Count
  <2>2. CASE k <= Len(h)
    BY <2>2 DEF Byte
  <2>3. CASE ~(k <= Len(h))
    <3>1. k - Len(h) \in 1..Len(s)
      BY <1>1, <2>1, <2>3
    <3> QED BY <1>1, <2>3, <3>1 DEF Byte
  <2> QED BY <2>2, <2>3
<1>3. ASSUME NEW k \in 1..n PROVE Byte(h, t, Count(h, s) + k) = b[k]
  <2>1. ~(Len(h) + Len(s) + k <= Len(h)) /\ Len(h) + Len(s) + k - Len(h) = Len(s) + k
    BY <1>1
  <2> QED BY <1>1, <2>1 DEF Byte, Count
<1> QED BY <1>1, <1>2, <1>3 DEF Count, t

\* ... recv() takes some from the kernel without changing their order ...
LEMMA BytesMoved ==
  ASSUME NEW X, NEW h \in Seq(X), NEW s \in Seq(X), NEW n \in 0..Len(s)
  PROVE  LET g == Begun(h, s, n)
             t == Rest(s, n)
         IN
         /\ g \in Seq(X) /\ Len(g) = Len(h) + n /\ t \in Seq(X) /\ Count(g, t) = Count(h, s)
         /\ \A k \in 1..Len(h) : g[k] = h[k]
         /\ \A k \in 1..Count(h, s) : Byte(g, t, k) = Byte(h, s, k)
<1> DEFINE g == Begun(h, s, n)
           t == Rest(s, n)
<1>1. /\ t \in Seq(X) /\ Len(t) = Len(s) - n
      /\ \A j \in 1..(Len(s) - n) : t[j] = s[n + j]
      /\ Len(h) \in Nat /\ Len(s) \in Nat /\ n \in Nat /\ n <= Len(s)
  BY RestProperties
<1>3. /\ g \in Seq(X) /\ Len(g) = Len(h) + n
      /\ \A i \in 1..Len(h) : g[i] = h[i]
      /\ \A i \in 1..n : g[Len(h) + i] = s[i]
  BY BegunProperties
<1> HIDE DEF g, t
<1>4. ASSUME NEW k \in 1..(Len(h) + Len(s)) PROVE Byte(g, t, k) = Byte(h, s, k)
  <2>1. CASE k <= Len(h)
    BY <1>1, <1>3, <2>1 DEF Byte
  <2>2. CASE k > Len(h) /\ k <= Len(h) + n
    <3>1. k - Len(h) \in 1..n /\ Len(h) + (k - Len(h)) = k
      BY <1>1, <2>2
    <3>2. g[k] = s[k - Len(h)]
      BY <1>1, <1>3, <3>1
    <3> QED BY <1>1, <1>3, <2>2, <3>2 DEF Byte
  <2>3. CASE k > Len(h) + n
    <3>1. k - (Len(h) + n) \in 1..(Len(s) - n) /\ n + (k - (Len(h) + n)) = k - Len(h)
      BY <1>1, <2>3
    <3>2. t[k - (Len(h) + n)] = s[k - Len(h)]
      BY <1>1, <3>1
    <3> QED BY <1>1, <1>3, <2>3, <3>2 DEF Byte
  <2> QED BY <1>1, <2>1, <2>2, <2>3
<1> QED BY <1>1, <1>3, <1>4 DEF Count, t, g

\* ... and a message that is returned leaves the rest.
LEMMA BytesReturned ==
  ASSUME NEW X, NEW h \in Seq(X), NEW s \in Seq(X), NEW n \in 0..Len(h)
  PROVE  LET g == Rest(h, n) IN
         /\ g \in Seq(X) /\ Count(g, s) = Count(h, s) - n
         /\ \A k \in 1..Count(g, s) : Byte(g, s, k) = Byte(h, s, n + k)
<1> DEFINE g == Rest(h, n)
<1>1. /\ g \in Seq(X) /\ Len(g) = Len(h) - n
      /\ \A j \in 1..(Len(h) - n) : g[j] = h[n + j]
      /\ Len(h) \in Nat /\ Len(s) \in Nat /\ n \in Nat /\ n <= Len(h)
  <2>1. Len(h) \in Nat /\ Len(s) \in Nat /\ n \in Nat /\ n <= Len(h)
    OBVIOUS
  <2> QED BY <2>1, RestProperties
<1> HIDE DEF g
<1>2. ASSUME NEW k \in 1..(Len(h) - n + Len(s)) PROVE Byte(g, s, k) = Byte(h, s, n + k)
  <2>1. CASE k <= Len(h) - n
    BY <1>1, <2>1 DEF Byte
  <2>2. CASE k > Len(h) - n
    <3>1. k - (Len(h) - n) = n + k - Len(h) /\ ~(n + k <= Len(h)) /\ ~(k <= Len(g))
      BY <1>1, <2>2
    <3> QED BY <1>1, <3>1 DEF Byte
  <2> QED BY <1>1, <2>1, <2>2
<1> QED BY <1>1, <1>2 DEF Count, g

-----------------------------------------------------------------------------
(* What the invariant says of the numbers of messages. *)

LEMMA Numbers ==
  ASSUME Histories
  PROVE  Len(received) \in Nat /\ Len(sent) \in Nat /\ spoiled \in Nat
<1> PICK S : received \in Seq(S)
  BY DEF Histories
<1> QED BY DEF Histories

LEMMA InitStreamInv == Init => StreamInv
<1> SUFFICES ASSUME Init PROVE StreamInv
  OBVIOUS
<1>1. Histories
  <2>1. sent \in Seq(Seq(Values)) /\ received \in Seq(Nat) /\ Len(sent) = 0
    BY DEF Init
  <2>2. spoiled \in Nat
    BY MessageStreamAssumption, BaseAssumption DEF Init
  <2> QED BY <2>1, <2>2 DEF Histories
<1>2. Reading
  BY DEF Init, Reading
<1>3. Len(received) = 0 /\ Len(sent) = 0 /\ Pending = 0 /\ spoiled \in Nat
  BY <1>1 DEF Init, Pending, Count, Held, Histories
<1>4. Aligned([n \in Nat |-> 0])
  <2>1. spoiled > 0
    BY MessageStreamAssumption, BaseAssumption DEF Init
  <2>2. \A t \in Senders : outgoing[t] = <<>>
    BY DEF Init
  <2> QED BY <1>3, <2>1, <2>2 DEF Aligned, Offsets, Contents, Ends, Finished
<1> QED BY <1>1, <1>2, <1>3, <1>4 DEF StreamInv

LEMMA PendingType ==
  ASSUME Reading
  PROVE  Pending \in Nat /\ Held \in Seq(Values) /\ stream \in Seq(Values)
<1>1. Held \in Seq(Values) /\ stream \in Seq(Values)
  BY DEF Reading, Held
<1> QED BY <1>1 DEF Pending, Count

-----------------------------------------------------------------------------
(* The receiver *)

\* A step that leaves the pending bytes as they are.
LEMMA SameBytes ==
  ASSUME StreamInv, UNCHANGED <<sent, received, spoiled, outgoing>>,
         Promised => /\ Reading' /\ Pending' = Pending
                     /\ \A k \in 1..Pending : Byte(Held', stream', k) = Byte(Held, stream, k)
  PROVE  StreamInv'
<1>1. Histories' /\ (Promised' <=> Promised)
  BY DEF StreamInv, Histories, Promised
<1>2. ASSUME Promised PROVE \E at \in [Nat -> Nat] : Aligned(at)'
  <2>1. PICK at \in [Nat -> Nat] : Aligned(at)
    BY <1>2 DEF StreamInv
  <2>2. Pending' = Pending /\ \A k \in 1..Pending : Byte(Held', stream', k) = Byte(Held, stream, k)
    BY <1>2
  <2>3. Offsets(at)'
    BY <2>1 DEF Aligned, Offsets
  <2>4. Contents(at)'
    <3> SUFFICES ASSUME NEW i \in (Len(received) + 1)..Len(sent), i < spoiled,
                        NEW j \in 1..Len(sent[i]), at[i] + j <= Pending
                 PROVE  Byte(Held', stream', at[i] + j) = sent[i][j]
      BY <2>2 DEF Contents
    <3>1. Byte(Held, stream, at[i] + j) = sent[i][j]
      BY <2>1 DEF Aligned, Contents
    <3>2. at[i] + j \in 1..Pending
      <4>1. i \in Nat
        BY Numbers DEF StreamInv
      <4>2. at[i] \in Nat /\ j \in Nat /\ j >= 1
        BY <4>1
      <4>3. Pending \in Nat
        BY <1>2, PendingType DEF StreamInv
      <4>4. \A a, b, c \in Nat : b >= 1 /\ a + b <= c => a + b \in 1..c
        OBVIOUS
      <4> QED BY <4>2, <4>3, <4>4, Zenon
    <3> QED BY <2>2, <3>1, <3>2
  <2>5. Ends(at)'
    BY <2>1, <2>2 DEF Aligned, Ends, Finished, Unfinished
  <2> QED BY <2>3, <2>4, <2>5 DEF Aligned
<1> QED BY <1>1, <1>2 DEF StreamInv

LEMMA NextMessageStep ==
  ASSUME StreamInv, NextMessage
  PROVE  StreamInv'
<1>1. UNCHANGED <<sent, received, spoiled, outgoing>>
  BY DEF NextMessage, sending
<1>2. Promised => Reading' /\ Held' = Held /\ stream' = stream
  BY DEF NextMessage, sending, StreamInv, Reading, Held
<1> QED BY <1>1, <1>2, SameBytes DEF Pending

LEMMA ReceiveStep ==
  ASSUME StreamInv, Receive
  PROVE  StreamInv'
<1>1. UNCHANGED <<sent, received, spoiled, outgoing, reader, msgLength, receiveBuffer>>
  BY DEF Receive, sending
<1>2. ASSUME Promised
      PROVE  /\ Reading' /\ Pending' = Pending
             /\ \A k \in 1..Pending : Byte(Held', stream', k) = Byte(Held, stream, k)
  <2>1. Reading /\ reader \in {"length", "body"}
    BY <1>2 DEF StreamInv, Receive, Hungry
  <2>2. PICK n \in 1..Min({MaxData, Len(stream)}) :
               /\ cumulativeBuffer' = cumulativeBuffer \o SubSeq(stream, 1, n)
               /\ stream' = SubSeq(stream, n + 1, Len(stream))
    BY DEF Receive
  <2>3. Len(stream) \in Nat /\ MaxData \in Int
    BY <2>1, MessageStreamAssumption DEF Reading
  <2>4. n \in 0..Len(stream)
    <3>1. Min({MaxData, Len(stream)}) \in Int /\ Min({MaxData, Len(stream)}) <= Len(stream)
      BY <2>3, MinOfTwo
    <3> QED BY <2>3, <3>1
  <2>5. cumulativeBuffer \in Seq(Values) /\ stream \in Seq(Values)
    BY <2>1 DEF Reading
  <2>6. /\ cumulativeBuffer' \in Seq(Values) /\ Len(cumulativeBuffer') = Len(cumulativeBuffer) + n
        /\ stream' \in Seq(Values)
        /\ Count(cumulativeBuffer', stream') = Count(cumulativeBuffer, stream)
        /\ \A k \in 1..Len(cumulativeBuffer) : cumulativeBuffer'[k] = cumulativeBuffer[k]
        /\ \A k \in 1..Count(cumulativeBuffer, stream) :
             Byte(cumulativeBuffer', stream', k) = Byte(cumulativeBuffer, stream, k)
    <3>1. cumulativeBuffer' = Begun(cumulativeBuffer, stream, n) /\ stream' = Rest(stream, n)
      BY <2>2 DEF Begun, Rest
    <3> QED BY <2>4, <2>5, <3>1, BytesMoved
  <2>7. Held = cumulativeBuffer /\ Held' = cumulativeBuffer'
    BY <1>1, <2>1 DEF Held
  <2>8. reader = "body" =>
          /\ Len(cumulativeBuffer') >= LengthField
          /\ SubSeq(cumulativeBuffer', 1, LengthField) = SubSeq(cumulativeBuffer, 1, LengthField)
    <3> SUFFICES ASSUME reader = "body"
                 PROVE  /\ Len(cumulativeBuffer') >= LengthField
                        /\ SubSeq(cumulativeBuffer', 1, LengthField)
                             = SubSeq(cumulativeBuffer, 1, LengthField)
      OBVIOUS
    <3>1. Len(cumulativeBuffer) >= LengthField /\ LengthField = 4
      BY <2>1 DEF Reading, LengthField
    <3>2. Len(cumulativeBuffer) \in Nat /\ Len(cumulativeBuffer') >= 4
      BY <2>4, <2>5, <2>6, <3>1
    <3>3. 4 \in 0..Len(cumulativeBuffer) /\ 4 \in 0..Len(cumulativeBuffer')
      BY <2>5, <2>6, <3>1, <3>2
    <3>4. SubSeq(cumulativeBuffer', 1, 4) = SubSeq(cumulativeBuffer, 1, 4)
      BY <2>5, <2>6, <3>3, SamePrefix
    <3> QED BY <3>1, <3>2, <3>4
  <2>9. Reading'
    BY <1>1, <2>1, <2>6, <2>8 DEF Reading
  <2> QED BY <2>6, <2>7, <2>9 DEF Pending
<1> QED BY <1>1, <1>2, SameBytes

LEMMA EndOfStreamStep ==
  ASSUME StreamInv, EndOfStream
  PROVE  StreamInv'
<1>1. UNCHANGED <<sent, received, spoiled, outgoing>>
  BY DEF EndOfStream, sending
<1>2. Promised => Reading' /\ Held' = Held /\ stream' = stream
  BY DEF EndOfStream, sending, StreamInv, Reading, Held, Hungry
<1> QED BY <1>1, <1>2, SameBytes DEF Pending

LEMMA ReadLengthStep ==
  ASSUME StreamInv, ReadLength
  PROVE  StreamInv'
<1>1. UNCHANGED <<sent, received, spoiled, outgoing>>
  BY DEF ReadLength, sending
<1>2. Promised => Reading' /\ Held' = Held /\ stream' = stream
  <2> SUFFICES ASSUME Promised PROVE Reading' /\ Held' = Held /\ stream' = stream
    OBVIOUS
  <2>1. Reading
    BY DEF StreamInv
  <2>2. Len(cumulativeBuffer) >= LengthField
    BY <2>1 DEF ReadLength, Hungry, Reading, LengthField
  <2> QED BY <2>1, <2>2 DEF ReadLength, sending, Reading, Held
<1> QED BY <1>1, <1>2, SameBytes DEF Pending

-----------------------------------------------------------------------------
(* The senders *)

\* What the kernel copies of some bytes.
LEMMA CopyEffect ==
  ASSUME NEW t \in Senders, NEW X, NEW bytes \in Seq(X), Len(bytes) > 0,
         stream \in Seq(X), Copy(t, bytes)
  PROVE  \E n \in 1..Len(bytes) :
           /\ stream' = Begun(stream, bytes, n)
           /\ outgoing' = [outgoing EXCEPT ![t] = Rest(bytes, n)]
<1> DEFINE n == Min({Room, Len(bytes)})
<1>1. Room \in Int /\ Room > 0 /\ Len(bytes) \in Int
  BY MessageStreamAssumption DEF Room, Copy
<1>2. n \in {Room, Len(bytes)} /\ n <= Len(bytes)
  BY <1>1, MinOfTwo
<1>3. n \in 1..Len(bytes)
  BY <1>1, <1>2
<1> QED BY <1>3 DEF Copy, Begun, Rest

\* A message as it is sent.
LEMMA EncodedProperties ==
  ASSUME NEW l \in Lengths, NEW fill \in Nat
  PROVE  /\ Encoded(l, fill) \in Seq(Values) /\ Len(Encoded(l, fill)) = l
         /\ l \in Nat /\ l > LengthField
         /\ SubSeq(Encoded(l, fill), 1, LengthField) = PutLength(l)
<1> DEFINE head == PutLength(l)
           body == [i \in 1..(l - LengthField) |-> fill]
<1>1. l \in Nat /\ l > LengthField /\ LengthField = 4
  BY MessageStreamAssumption DEF LengthField
<1>2. DOMAIN head = 1..4 /\ Len(head) = 4 /\ head = [i \in 1..4 |-> head[i]]
  BY DEF PutLength
<1>3. head \in Seq(Values)
  <2>1. \A i \in 1..4 : head[i] \in Values
    BY <1>1 DEF Values
  <2> QED BY <1>2, <2>1
<1>4. body \in Seq(Values) /\ Len(body) = l - 4
  <2>1. fill \in Values
    BY DEF Values
  <2> QED BY <1>1, <2>1
<1> HIDE DEF head, body
<1>5. /\ head \o body \in Seq(Values) /\ Len(head \o body) = l
      /\ \A i \in 1..4 : (head \o body)[i] = head[i]
  BY <1>1, <1>2, <1>3, <1>4
<1>6. Encoded(l, fill) = head \o body
  BY DEF Encoded, head, body
<1>7. SubSeq(head \o body, 1, 4) = head
  <2> DEFINE whole == head \o body
  <2>1. whole \in Seq(Values) /\ 4 \in 0..Len(whole)
    BY <1>1, <1>5
  <2>2. /\ SubSeq(whole, 1, 4) \in Seq(Values) /\ Len(SubSeq(whole, 1, 4)) = 4
        /\ \A i \in 1..4 : SubSeq(whole, 1, 4)[i] = whole[i]
    BY <2>1, CutInTwo
  <2>3. \A i \in 1..4 : SubSeq(whole, 1, 4)[i] = head[i]
    BY <1>5, <2>2
  <2> QED BY <1>2, <1>3, <2>2, <2>3, SeqEqual
<1> QED BY <1>1, <1>5, <1>6, <1>7 DEF head

\* The next message is behind the last one.
LEMMA Spoiling ==
  ASSUME Histories, NEW t \in Senders, NEW l \in Lengths, Send(t, l)
  PROVE  /\ spoiled' \in Nat /\ spoiled' <= spoiled /\ Histories'
         /\ (\E u \in Senders : outgoing[u] # <<>>) => spoiled' <= Len(sent)
<1> DEFINE M == Encoded(l, Len(sent) + 1)
<1>1. Len(sent) \in Nat /\ spoiled \in Nat /\ MaxMsgs \in Nat
  BY Numbers, MessageStreamAssumption, BaseAssumption
<1>2. /\ M \in Seq(Values) /\ Len(M) = l /\ l > LengthField
      /\ SubSeq(M, 1, LengthField) = PutLength(l)
  BY <1>1, EncodedProperties
<1>3. sent' = Append(sent, M) /\ spoiled' = Min({spoiled, Spoils(l)}) /\ received' = received
  BY DEF Send, reading
<1> HIDE DEF M
<1>4. Spoils(l) \in Nat
  BY <1>1 DEF Spoils
<1>5. spoiled' \in Nat /\ spoiled' <= spoiled /\ spoiled' <= Spoils(l)
  <2>1. spoiled \in Int /\ Spoils(l) \in Int
    BY <1>1, <1>4
  <2>2. /\ Min({spoiled, Spoils(l)}) \in {spoiled, Spoils(l)}
        /\ Min({spoiled, Spoils(l)}) <= spoiled /\ Min({spoiled, Spoils(l)}) <= Spoils(l)
    BY <2>1, MinOfTwo
  <2> QED BY <1>1, <1>3, <1>4, <2>2
<1>6. (\E u \in Senders : outgoing[u] # <<>>) => spoiled' <= Len(sent)
  BY <1>1, <1>5 DEF Spoils
<1>7. /\ sent' \in Seq(Seq(Values)) /\ Len(sent') = Len(sent) + 1
      /\ \A i \in 1..Len(sent) : sent'[i] = sent[i]
      /\ sent'[Len(sent) + 1] = M
  BY <1>2, <1>3 DEF Histories
<1>8. Histories'
  <2>1. ASSUME NEW i \in 1..Len(sent')
        PROVE  /\ Len(sent'[i]) > LengthField
               /\ i < spoiled' => GetLength(SubSeq(sent'[i], 1, LengthField)) = Len(sent'[i])
    <3>1. CASE i \in 1..Len(sent)
      <4>1. sent'[i] = sent[i] /\ (i < spoiled' => i < spoiled)
        BY <1>1, <1>5, <1>7, <3>1
      <4> QED BY <3>1, <4>1 DEF Histories
    <3>2. CASE i = Len(sent) + 1
      <4>1. sent'[i] = M
        BY <1>7, <3>2
      <4>2. i < spoiled' => GetLength(PutLength(l)) = l
        BY <1>1, <1>4, <1>5, <3>2 DEF Spoils
      <4> QED BY <1>2, <4>1, <4>2
    <3> QED BY <1>1, <1>7, <3>1, <3>2
  <2> QED BY <1>3, <1>5, <1>7, <2>1 DEF Histories
<1> QED BY <1>5, <1>6, <1>8

\* What lies between the messages: each begins where the one before it ends.
LEMMA OffsetsProperties ==
  ASSUME Histories, NEW at \in [Nat -> Nat], Offsets(at)
  PROVE  \A i \in (Len(received) + 1)..Len(sent) :
           /\ i \in Nat /\ at[i] \in Nat /\ Len(sent[i]) \in Nat /\ Len(sent[i]) > 0
           /\ at[i + 1] = at[i] + Len(sent[i])
           /\ \A k \in (Len(received) + 1)..(Len(sent) + 1) : i < k => at[i + 1] <= at[k]
<1>1. Len(received) \in Nat /\ Len(sent) \in Nat
  BY Numbers
<1> SUFFICES ASSUME NEW i \in (Len(received) + 1)..Len(sent)
             PROVE  /\ i \in Nat /\ at[i] \in Nat /\ Len(sent[i]) \in Nat /\ Len(sent[i]) > 0
                    /\ at[i + 1] = at[i] + Len(sent[i])
                    /\ \A k \in (Len(received) + 1)..(Len(sent) + 1) :
                         i < k => at[i + 1] <= at[k]
  OBVIOUS
<1>2. i \in Nat /\ i \in 1..Len(sent) /\ i + 1 \in (Len(received) + 1)..(Len(sent) + 1)
  BY <1>1
<1>3. sent[i] \in Seq(Values)
  <2>1. sent \in Seq(Seq(Values))
    BY DEF Histories
  <2> QED BY <1>2, <2>1
<1>4. ASSUME NEW k \in (Len(received) + 1)..(Len(sent) + 1), i < k
      PROVE  at[i + 1] <= at[k]
  <2>1. i + 1 <= k
    BY <1>1, <1>2, <1>4
  <2> QED BY <1>2, <2>1 DEF Offsets
<1>5. Len(sent[i]) \in Nat /\ Len(sent[i]) > 0
  <2>1. Len(sent[i]) > LengthField
    BY <1>2 DEF Histories
  <2>2. Len(sent[i]) \in Nat
    BY <1>3, LenProperties, Zenon
  <2>3. \A n \in Nat : n > LengthField => n > 0
    BY DEF LengthField
  <2> QED BY <2>1, <2>2, <2>3, Zenon
<1>6. at[i + 1] = at[i] + Len(sent[i])
  BY DEF Offsets
<1> QED BY <1>2, <1>4, <1>5, <1>6

\* What is copied comes behind the pending bytes, and the rest waits.
LEMMA MoreBytes ==
  ASSUME Reading, NEW t \in Senders, NEW bytes \in Seq(Values), Len(bytes) > 0,
         Copy(t, bytes), UNCHANGED reading
  PROVE  \E n \in Nat \ {0} :
           /\ n <= Len(bytes)
           /\ Reading' /\ Pending' = Pending + n
           /\ \A k \in 1..Pending : Byte(Held', stream', k) = Byte(Held, stream, k)
           /\ \A k \in 1..n : Byte(Held', stream', Pending + k) = bytes[k]
           /\ \A u \in Senders \ {t} : outgoing'[u] = outgoing[u]
           /\ outgoing'[t] \in Seq(Values) /\ Len(outgoing'[t]) = Len(bytes) - n
           /\ \A j \in 1..(Len(bytes) - n) : outgoing'[t][j] = bytes[n + j]
<1>1. /\ Held \in Seq(Values) /\ stream \in Seq(Values)
      /\ outgoing \in [Senders -> Seq(Values)]
  BY PendingType DEF Reading
<1>2. PICK n \in 1..Len(bytes) : /\ stream' = Begun(stream, bytes, n)
                                 /\ outgoing' = [outgoing EXCEPT ![t] = Rest(bytes, n)]
  BY <1>1, CopyEffect
<1>3. n \in 0..Len(bytes)
  BY <1>2
<1>4. /\ Rest(bytes, n) \in Seq(Values) /\ Len(Rest(bytes, n)) = Len(bytes) - n
      /\ \A j \in 1..(Len(bytes) - n) : Rest(bytes, n)[j] = bytes[n + j]
  BY <1>3, RestProperties
<1>5. /\ outgoing' \in [Senders -> Seq(Values)] /\ outgoing'[t] = Rest(bytes, n)
      /\ \A u \in Senders \ {t} : outgoing'[u] = outgoing[u]
  BY <1>1, <1>2, <1>4
<1>6. /\ stream' \in Seq(Values) /\ Count(Held, stream') = Count(Held, stream) + n
      /\ \A k \in 1..Count(Held, stream) : Byte(Held, stream', k) = Byte(Held, stream, k)
      /\ \A k \in 1..n : Byte(Held, stream', Count(Held, stream) + k) = bytes[k]
  BY <1>1, <1>2, <1>3, BytesCopied
<1>7. Held' = Held
  BY DEF Held, reading
<1>8. Reading'
  BY <1>5, <1>6 DEF Reading, reading
<1>9. n \in Nat \ {0} /\ n <= Len(bytes)
  BY <1>2
<1> QED BY <1>4, <1>5, <1>6, <1>7, <1>8, <1>9 DEF Pending

\* The messages that can arrive and that are not the last are pending whole.
LEMMA WholeBeforeLast ==
  ASSUME Histories, Reading, NEW at \in [Nat -> Nat], Offsets(at), Ends(at),
         Len(received) <= Len(sent)
  PROVE  \A i \in (Len(received) + 1)..Len(sent) :
           i < spoiled /\ (\/ spoiled <= Len(sent)
                           \/ Finished(at[Len(sent) + 1])
                           \/ i < Len(sent))
             => at[i + 1] <= Pending
<1> DEFINE r == Len(received)
           s == Len(sent)
           p == Pending
<1>1. r \in Nat /\ s \in Nat /\ spoiled \in Nat /\ p \in Nat /\ r <= s
  BY Numbers, PendingType
<1>2. /\ \A i \in (r + 1)..s : \A k \in (r + 1)..(s + 1) : i < k => at[i + 1] <= at[k]
      /\ s \in (r + 1)..s => /\ at[s + 1] = at[s] + Len(sent[s])
                             /\ Len(sent[s]) \in Nat
  BY OffsetsProperties
<1>3. ASSUME spoiled <= s PROVE at[spoiled] <= p
  BY <1>3, Zenon DEF Ends
<1>4. ASSUME Finished(at[s + 1]) PROVE p = at[s + 1]
  BY <1>4, Zenon DEF Finished
<1>5. ASSUME spoiled > s, ~Finished(at[s + 1])
      PROVE  \E o \in Nat : p + o = at[s + 1] /\ o < Len(sent[s])
  <2>1. PICK u \in Senders : Unfinished(u, at[s + 1])
    BY <1>5, Zenon DEF Ends
  <2>2. outgoing[u] \in Seq(Values)
    BY DEF Reading
  <2>3. Len(outgoing[u]) \in Nat
    BY <2>2, LenProperties, Zenon
  <2>4. p + Len(outgoing[u]) = at[s + 1] /\ Len(outgoing[u]) < Len(sent[s])
    BY <2>1, Zenon DEF Unfinished
  <2> QED BY <2>3, <2>4, Zenon
<1> DEFINE fin == Finished(at[s + 1])
           l == Len(sent[s])
<1> HIDE DEF r, s, p, fin, l
<1>6. ASSUME NEW i \in (r + 1)..s, i < spoiled, spoiled <= s \/ fin \/ i < s
      PROVE  at[i + 1] <= p
  <2>1. i \in Nat /\ r < i /\ i <= s
    BY <1>1
  <2>2. CASE spoiled <= s
    <3>1. spoiled \in (r + 1)..(s + 1)
      BY <1>1, <2>1, <2>2, <1>6
    <3>2. at[i + 1] <= at[spoiled]
      BY <1>2, <3>1, <1>6, Zenon
    <3>3. at[i + 1] \in Nat /\ at[spoiled] \in Nat
      BY <1>1, <2>1
    <3> QED BY <1>1, <1>3, <2>2, <3>2, <3>3
  <2>3. CASE fin
    <3>1. s + 1 \in (r + 1)..(s + 1) /\ i < s + 1
      BY <1>1, <2>1
    <3>2. at[i + 1] <= at[s + 1]
      BY <1>2, <3>1, Zenon
    <3> QED BY <1>4, <2>3, <3>2, Zenon DEF fin
  <2>4. CASE i < s /\ ~(spoiled <= s) /\ ~fin
    <3>1. PICK o \in Nat : p + o = at[s + 1] /\ o < l
      <4>1. spoiled > s
        BY <1>1, <2>4
      <4> QED BY <1>5, <2>4, <4>1, Zenon DEF fin, l
    <3>2. s \in (r + 1)..s /\ s \in (r + 1)..(s + 1)
      BY <1>1, <2>1
    <3>3. at[i + 1] <= at[s]
      BY <1>2, <2>4, <3>2, Zenon
    <3>4. at[s + 1] = at[s] + l /\ l \in Nat
      BY <1>2, <3>2, Zenon DEF l
    <3>5. at[i + 1] \in Nat /\ at[s] \in Nat
      BY <1>1, <2>1
    <3> QED BY <1>1, <3>1, <3>3, <3>4, <3>5
  <2> QED BY <1>6, <2>2, <2>3, <2>4
<1> QED BY <1>6, Zenon DEF r, s, p, fin

LEMMA UnfinishedWaits ==
  ASSUME NEW t \in Senders, NEW end, Unfinished(t, end)
  PROVE  outgoing[t] # <<>>
<1>1. Len(outgoing[t]) > 0
  BY Zenon DEF Unfinished
<1>2. ~(0 > 0) /\ Len(<<>>) = 0
  OBVIOUS
<1> QED BY <1>1, <1>2, Zenon

\* A message that begins behind the others takes its place among them.
LEMMA SendAligned ==
  ASSUME StreamInv, NEW t \in Senders, NEW l \in Lengths, Send(t, l), Promised'
  PROVE  /\ Reading' /\ Len(received') <= Len(sent')
         /\ \E at \in [Nat -> Nat] : Aligned(at)'
<1> DEFINE r == Len(received)
           s == Len(sent)
           p == Pending
           M == Encoded(l, s + 1)
<1>1. r \in Nat /\ s \in Nat /\ spoiled \in Nat /\ spoiled' \in Nat /\ spoiled' <= spoiled
  BY Numbers, Spoiling DEF StreamInv
<1>2. /\ M \in Seq(Values) /\ Len(M) = l /\ l \in Nat /\ l > 0
  <2>1. M \in Seq(Values) /\ Len(M) = l /\ l \in Nat /\ l > LengthField
    BY <1>1, EncodedProperties
  <2> QED BY <2>1 DEF LengthField
<1>3. /\ sent' = Append(sent, M) /\ received' = received /\ Copy(t, M) /\ UNCHANGED reading
      /\ outgoing[t] = <<>>
  BY DEF Send, reading
<1> HIDE DEF M
<1>4. /\ Len(received') = r /\ Len(sent') = s + 1 /\ sent'[s + 1] = M
      /\ \A i \in 1..s : sent'[i] = sent[i]
  BY <1>3 DEF StreamInv, Histories
<1>5. r + 1 < spoiled'
  BY <1>4 DEF Promised
<1>6. Promised /\ Reading /\ r <= s /\ Histories /\ p \in Nat
  BY <1>1, <1>5, PendingType DEF StreamInv, Promised
<1>7. PICK at \in [Nat -> Nat] : Offsets(at) /\ Contents(at) /\ Ends(at)
  BY <1>6 DEF StreamInv, Aligned
<1>8. PICK n \in Nat \ {0} :
           /\ n <= Len(M)
           /\ Reading' /\ Pending' = p + n
           /\ \A k \in 1..p : Byte(Held', stream', k) = Byte(Held, stream, k)
           /\ \A k \in 1..n : Byte(Held', stream', p + k) = M[k]
           /\ \A u \in Senders \ {t} : outgoing'[u] = outgoing[u]
           /\ outgoing'[t] \in Seq(Values) /\ Len(outgoing'[t]) = Len(M) - n
           /\ \A j \in 1..(Len(M) - n) : outgoing'[t][j] = M[n + j]
  BY <1>2, <1>3, <1>6, MoreBytes
<1>n. n \in Nat /\ n > 0 /\ n <= l
  <2>1. n \in Nat /\ n > 0
    OBVIOUS
  <2> QED BY <1>2, <1>8, <2>1, Zenon
<1>9. /\ at[r + 1] = 0
      /\ \A i \in (r + 1)..s : at[i + 1] = at[i] + Len(sent[i])
      /\ \A i, k \in (r + 1)..(s + 1) : i <= k => at[i] <= at[k]
  BY <1>7 DEF Offsets
<1>10. \A i \in (r + 1)..s : \A j \in 1..Len(sent[i]) :
         i < spoiled /\ at[i] + j <= p => Byte(Held, stream, at[i] + j) = sent[i][j]
  BY <1>7 DEF Contents
<1>11. \A i \in (r + 1)..s : i < spoiled' => at[i + 1] <= p
  <2> SUFFICES ASSUME NEW i \in (r + 1)..s, i < spoiled' PROVE at[i + 1] <= p
    OBVIOUS
  <2>1. spoiled <= s \/ Finished(at[s + 1]) \/ i < s
    <3>1. CASE \E u \in Senders : Unfinished(u, at[s + 1])
      <4>1. PICK u \in Senders : Unfinished(u, at[s + 1])
        BY <3>1
      <4>2. outgoing[u] # <<>>
        BY <4>1, UnfinishedWaits
      <4>3. spoiled' <= s
        BY <1>6, <4>2, Spoiling
      <4> QED BY <1>1, <4>3
    <3>2. spoiled <= s \/ spoiled > s
      BY <1>1
    <3> QED BY <1>7, <3>1, <3>2, Zenon DEF Ends
  <2>2. i < spoiled
    BY <1>1
  <2> QED BY <1>6, <1>7, <2>1, <2>2, WholeBeforeLast
<1>12. spoiled' > s => at[s + 1] = p /\ \A u \in Senders : outgoing[u] = <<>>
  <2> SUFFICES ASSUME spoiled' > s PROVE at[s + 1] = p /\ \A u \in Senders : outgoing[u] = <<>>
    OBVIOUS
  <2>1. spoiled > s
    BY <1>1
  <2>2. ~\E u \in Senders : outgoing[u] # <<>>
    <3>1. ~(spoiled' <= s)
      BY <1>1
    <3> QED BY <1>6, <3>1, Spoiling
  <2>3. \A u \in Senders : ~Unfinished(u, at[s + 1])
    BY <2>2, UnfinishedWaits
  <2>4. Finished(at[s + 1])
    BY <1>7, <2>1, <2>3, Zenon DEF Ends
  <2> QED BY <2>4, Zenon DEF Finished
<1>13. Promised' /\ Pending' = p + n
  BY <1>8
<1> HIDE DEF r, s, p
<1>14. PICK at2 \in [Nat -> Nat] :
         at2[s + 2] = at[s + 1] + l /\ \A i \in 0..(s + 1) : at2[i] = at[i]
  <2> DEFINE f == [at EXCEPT ![s + 2] = at[s + 1] + l]
  <2>1. s + 1 \in Nat /\ s + 2 \in Nat /\ \A i \in 0..(s + 1) : i \in Nat /\ i # s + 2
    BY <1>1
  <2>2. at[s + 1] \in Nat
    BY <2>1, Zenon
  <2>3. at[s + 1] + l \in Nat
    BY <1>2, <2>2, Zenon, SumOfTwo
  <2>4. f \in [Nat -> Nat] /\ f[s + 2] = at[s + 1] + l /\ \A i \in 0..(s + 1) : f[i] = at[i]
    BY <2>1, <2>3, Zenon
  <2> QED BY <2>4
<1>15. Offsets(at2)'
  <2>1. at2[r + 1] = 0
    <3>1. r + 1 \in 0..(s + 1)
      BY <1>1, <1>6
    <3> QED BY <1>9, <1>14, <3>1
  <2>2. ASSUME NEW i \in (r + 1)..(s + 1)
        PROVE  at2[i + 1] = at2[i] + Len(sent'[i])
    <3>1. CASE i = s + 1
      <4>1. i \in 0..(s + 1) /\ i + 1 = s + 2
        BY <1>1, <3>1
      <4> QED BY <1>2, <1>4, <1>14, <3>1, <4>1 DEF s
    <3>2. CASE i # s + 1
      <4>1. i \in (r + 1)..s /\ i \in 0..(s + 1) /\ i + 1 \in 0..(s + 1) /\ i \in 1..s
        BY <1>1, <3>2
      <4> QED BY <1>4, <1>9, <1>14, <4>1 DEF s
    <3> QED BY <3>1, <3>2
  <2>3. ASSUME NEW i \in (r + 1)..(s + 2), NEW k \in (r + 1)..(s + 2), i <= k
        PROVE  at2[i] <= at2[k]
    <3>1. CASE k \in (r + 1)..(s + 1)
      <4>1. i \in (r + 1)..(s + 1) /\ i \in 0..(s + 1) /\ k \in 0..(s + 1)
        BY <1>1, <2>3, <3>1
      <4>2. at[i] <= at[k]
        BY <1>9, <2>3, <3>1, <4>1
      <4> QED BY <1>14, <4>1, <4>2
    <3>2. CASE k = s + 2 /\ i \in (r + 1)..(s + 1)
      <4>1. i \in 0..(s + 1) /\ s + 1 \in (r + 1)..(s + 1) /\ i <= s + 1
        BY <1>1, <1>6, <3>2
      <4>2. at[i] <= at[s + 1] /\ at2[i] = at[i]
        BY <1>9, <1>14, <3>2, <4>1
      <4>3. at[i] \in Nat /\ at[s + 1] \in Nat
        <5>1. i \in Nat /\ s + 1 \in Nat
          BY <1>1, <4>1
        <5> QED BY <5>1, Zenon
      <4>4. at[i] <= at[s + 1] + l
        BY <1>2, <4>2, <4>3, Zenon, SumOfTwo
      <4> QED BY <1>14, <3>2, <4>2, <4>4, Zenon
    <3>3. CASE k = s + 2 /\ i = s + 2
      <4>1. at2[i] \in Nat /\ at2[i] = at2[k]
        <5>1. i \in Nat /\ i = k
          BY <1>1, <3>3
        <5> QED BY <1>14, <5>1, Zenon
      <4>2. \A m \in Nat : m <= m
        OBVIOUS
      <4> QED BY <4>1, <4>2, Zenon
    <3> QED BY <1>1, <3>1, <3>2, <3>3
  <2>4. s + 1 + 1 = s + 2
    BY <1>1
  <2>5. Len(sent') + 1 = s + 2 /\ Len(sent') = s + 1 /\ Len(received') = r
    BY <1>1, <1>4, <2>4, Zenon DEF s, r
  <2> QED BY <2>1, <2>2, <2>3, <2>5, Zenon DEF Offsets
<1>16. Contents(at2)'
  <2> SUFFICES ASSUME NEW i \in (r + 1)..(s + 1), i < spoiled',
                      NEW j \in 1..Len(sent'[i]), at2[i] + j <= p + n
               PROVE  Byte(Held', stream', at2[i] + j) = sent'[i][j]
    <3>1. Len(sent') = s + 1 /\ Len(received') = r
      BY <1>4
    <3> QED BY <1>13, <3>1, Zenon DEF Contents
  <2>1. i \in Nat /\ r < i
    BY <1>1
  <2>2. CASE i \in 1..s
    <3>1. sent'[i] = sent[i] /\ i \in (r + 1)..s /\ at2[i] = at[i] /\ i < spoiled
      <4>1. i \in 0..(s + 1) /\ i \in (r + 1)..s /\ i < spoiled
        BY <1>1, <2>1, <2>2
      <4> QED BY <1>4, <1>14, <2>2, <4>1, Zenon
    <3>2. /\ at[i + 1] = at[i] + Len(sent[i]) /\ at[i + 1] <= p
          /\ at[i] \in Nat /\ at[i + 1] \in Nat
      <4>1. i + 1 \in Nat
        BY <2>1
      <4> QED BY <1>9, <1>11, <2>1, <3>1, <4>1, Zenon
    <3>3. j \in 1..Len(sent[i])
      BY <3>1
    <3>4. at[i] + j <= p /\ at[i] + j \in 1..p
      <4>1. Len(sent[i]) \in Nat
        BY <1>6, <3>1, OffsetsProperties, <1>7, Zenon DEF r, s
      <4> HIDE DEF Contents
      <4> QED BY <1>6, <3>2, <3>3, <4>1, Within, Zenon
    <3> QED BY <1>8, <1>10, <3>1, <3>3, <3>4
  <2>3. CASE i = s + 1
    <3>1. at2[i] = p
      <4>1. spoiled' > s /\ i \in 0..(s + 1)
        BY <1>1, <2>3
      <4> QED BY <1>12, <1>14, <2>3, <4>1, Zenon
    <3>2. j \in 1..n
      <4>1. j \in 1..l
        BY <1>2, <1>4, <2>3, Zenon
      <4>2. \A a, b, c \in Nat : \A k \in 1..c : a + k <= a + b => k \in 1..b
        OBVIOUS
      <4>3. p + j <= p + n
        BY <3>1, Zenon
      <4>4. p \in Nat /\ l \in Nat
        BY <1>2, <1>6
      <4> QED BY <1>n, <4>1, <4>2, <4>3, <4>4, Zenon
    <3> QED BY <1>4, <1>8, <2>3, <3>1, <3>2
  <2>4. i \in 1..s \/ i = s + 1
    BY <1>1
  <2> QED BY <2>2, <2>3, <2>4
<1>17. Ends(at2)'
  <2>1. ASSUME spoiled' <= s + 1 PROVE at2[spoiled'] <= p + n
    <3>1. PICK i \in Nat : i = spoiled' - 1
      <4>1. spoiled' - 1 \in Nat
        <5>1. \A a, b \in Nat : a + 1 < b => b - 1 \in Nat
          OBVIOUS
        <5> QED BY <1>1, <1>5, <5>1, Zenon
      <4> QED BY <4>1, Zenon
    <3>2. i \in (r + 1)..s /\ i < spoiled' /\ i + 1 = spoiled' /\ i + 1 \in 0..(s + 1)
      <4>1. s \in Nat /\ r \in Nat /\ spoiled' \in Nat
        BY <1>1
      <4>6. \A a, k \in Nat : k = a - 1 => k < a /\ k + 1 = a
        OBVIOUS
      <4>2. i < spoiled'
        BY <3>1, <4>1, <4>6, Zenon
      <4>3. i + 1 = spoiled'
        BY <3>1, <4>1, <4>6, Zenon
      <4>4. i \in (r + 1)..s
        BY <1>5, <2>1, <4>1, <4>3
      <4>5. i + 1 \in 0..(s + 1)
        BY <1>5, <2>1, <4>1, <4>3
      <4> QED BY <4>2, <4>3, <4>4, <4>5
    <3>3. at[i + 1] <= p /\ at2[spoiled'] = at[i + 1] /\ at[i + 1] \in Nat
      BY <1>11, <1>14, <3>1, <3>2
    <3>4. \A a, b, c \in Nat : a <= b => a <= b + c
      OBVIOUS
    <3>5. p \in Nat /\ n \in Nat
      BY <1>6
    <3> QED BY <3>3, <3>4, <3>5, Zenon
  <2>2. ASSUME spoiled' > s + 1, NEW CONSTANT end, end = at2[s + 2]
        PROVE  Finished(end)' \/ \E u \in Senders : Unfinished(u, end)'
    <3>1. end = p + l /\ \A u \in Senders : outgoing[u] = <<>>
      <4>1. spoiled' > s
        BY <1>1, <2>2
      <4> QED BY <1>12, <1>14, <2>2, <4>1, Zenon
    <3>2. CASE n = l
      <4>1. outgoing'[t] = <<>>
        <5>1. \A k \in Nat : k - k = 0
          OBVIOUS
        <5>2. Len(outgoing'[t]) = 0
          BY <1>2, <1>8, <3>2, <5>1, Zenon
        <5> QED BY <1>8, <5>2, EmptySeq, Zenon
      <4>2. \A u \in Senders : outgoing'[u] = <<>>
        BY <1>8, <3>1, <4>1, Zenon
      <4> QED BY <1>13, <3>1, <3>2, <4>2, Zenon DEF Finished
    <3>3. CASE n # l
      <4>1. n \in Nat /\ n > 0 /\ n < l /\ l - n > 0 /\ l - n < l /\ p + n + (l - n) = p + l
        <5>1. \A a, b, c \in Nat : b > 0 /\ b <= c /\ b # c =>
                b < c /\ c - b > 0 /\ c - b < c /\ a + b + (c - b) = a + c
          OBVIOUS
        <5>2. p \in Nat /\ l \in Nat
          BY <1>2, <1>6
        <5> QED BY <1>n, <3>3, <5>1, <5>2, Zenon
      <4>2. /\ Len(sent') = s + 1 /\ sent'[Len(sent')] = M
            /\ \A u \in Senders \ {t} : outgoing'[u] = <<>>
        BY <1>4, <1>8, <3>1
      <4>3. /\ Len(outgoing'[t]) = l - n
            /\ \A j \in 1..(l - n) : outgoing'[t][j] = M[l - (l - n) + j]
        <5>1. l - (l - n) = n
          BY <1>2, <4>1
        <5> QED BY <1>2, <1>8, <5>1
      <4>4. Unfinished(t, end)'
        BY <1>2, <1>13, <3>1, <4>1, <4>2, <4>3, Zenon DEF Unfinished
      <4> QED BY <4>4
    <3> QED BY <3>2, <3>3
  <2>3. Len(sent') = s + 1 /\ s + 1 + 1 = s + 2
    BY <1>1, <1>4
  <2>4. PICK end : end = at2[s + 2]
    OBVIOUS
  <2>5. end = at2[Len(sent') + 1]
    BY <2>3, <2>4, Zenon
  <2> QED BY <1>13, <2>1, <2>2, <2>3, <2>4, <2>5, Zenon DEF Ends
<1>19. Len(received') <= Len(sent')
  <2>1. \A a, b \in Nat : a <= b => a <= b + 1
    OBVIOUS
  <2> QED BY <1>1, <1>4, <1>6, <2>1, Zenon
<1> QED BY <1>8, <1>15, <1>16, <1>17, <1>19 DEF Aligned

LEMMA SendStep ==
  ASSUME StreamInv, NEW t \in Senders, NEW l \in Lengths, Send(t, l)
  PROVE  StreamInv'
<1>1. Histories'
  BY Spoiling DEF StreamInv
<1> QED BY <1>1, SendAligned DEF StreamInv

\* What is copied of the last message is in its place.
LEMMA SendRestAligned ==
  ASSUME StreamInv, NEW t \in Senders, SendRest(t), Promised
  PROVE  Reading' /\ \E at \in [Nat -> Nat] : Aligned(at)'
<1> DEFINE r == Len(received)
           s == Len(sent)
           p == Pending
           O == outgoing[t]
           M == sent[s]
<1>1. r \in Nat /\ s \in Nat /\ spoiled \in Nat /\ r <= s
  BY Numbers DEF StreamInv
<1>2. Reading /\ Histories /\ p \in Nat
  BY PendingType DEF StreamInv
<1>3. /\ UNCHANGED <<sent, received, spoiled>> /\ Copy(t, O) /\ UNCHANGED reading
      /\ O \in Seq(Values) /\ Len(O) \in Nat /\ Len(O) > 0
  BY <1>2 DEF SendRest, reading, Reading
<1>4. PICK at \in [Nat -> Nat] : Offsets(at) /\ Contents(at) /\ Ends(at)
  BY DEF StreamInv, Aligned
<1>5. PICK n \in Nat \ {0} :
           /\ n <= Len(O)
           /\ Reading' /\ Pending' = p + n
           /\ \A k \in 1..p : Byte(Held', stream', k) = Byte(Held, stream, k)
           /\ \A k \in 1..n : Byte(Held', stream', p + k) = O[k]
           /\ \A u \in Senders \ {t} : outgoing'[u] = outgoing[u]
           /\ outgoing'[t] \in Seq(Values) /\ Len(outgoing'[t]) = Len(O) - n
           /\ \A j \in 1..(Len(O) - n) : outgoing'[t][j] = O[n + j]
  BY <1>2, <1>3, MoreBytes
<1>6. n \in Nat /\ n > 0
  OBVIOUS
<1>7. ~Finished(at[s + 1])
  <2>1. outgoing[t] # <<>>
    BY DEF SendRest
  <2> QED BY <2>1, Zenon DEF Finished
<1>8. ASSUME spoiled > s
      PROVE  /\ \A u \in Senders \ {t} : outgoing[u] = <<>>
             /\ Len(O) < Len(M) /\ p + Len(O) = at[s + 1]
             /\ \A j \in 1..Len(O) : O[j] = M[Len(M) - Len(O) + j]
  <2>1. PICK u \in Senders : Unfinished(u, at[s + 1])
    BY <1>4, <1>7, <1>8, Zenon DEF Ends
  <2>2. outgoing[t] # <<>>
    BY DEF SendRest
  <2>3. u = t
    BY <2>1, <2>2, Zenon DEF Unfinished
  <2> QED BY <2>1, <2>3, Zenon DEF Unfinished
<1>9. \A i \in (r + 1)..s :
        /\ at[i + 1] = at[i] + Len(sent[i])
        /\ Len(sent[i]) \in Nat /\ Len(sent[i]) > 0
  BY <1>2, <1>4, OffsetsProperties
<1>10. \A i \in (r + 1)..s :
         i < spoiled /\ (spoiled <= s \/ i < s) => at[i + 1] <= p
  BY <1>1, <1>2, <1>4, WholeBeforeLast
<1>11. \A i \in (r + 1)..s : \A j \in 1..Len(sent[i]) :
         i < spoiled /\ at[i] + j <= p => Byte(Held, stream, at[i] + j) = sent[i][j]
  BY <1>4 DEF Contents
<1> DEFINE o == Len(O)
           l == Len(M)
<1> HIDE DEF r, s, p, O, M, o, l
<1>12. o \in Nat /\ o > 0 /\ n <= o
  BY <1>3, <1>5, Zenon DEF o
<1>13. Offsets(at)'
  BY <1>3, <1>4, Zenon DEF Offsets
<1>14. Contents(at)'
  <2> SUFFICES ASSUME NEW i \in (r + 1)..s, i < spoiled,
                      NEW j \in 1..Len(sent[i]), at[i] + j <= p + n
               PROVE  Byte(Held', stream', at[i] + j) = sent[i][j]
    BY <1>3, <1>5, Zenon DEF Contents, r, s, p
  <2>1. i \in Nat /\ r < i /\ i <= s /\ i + 1 \in Nat
    BY <1>1
  <2>2. /\ at[i + 1] = at[i] + Len(sent[i]) /\ at[i] \in Nat /\ at[i + 1] \in Nat
        /\ Len(sent[i]) \in Nat
    BY <1>9, <2>1, Zenon
  <2>3. CASE spoiled <= s \/ i < s
    <3>1. at[i + 1] <= p
      BY <1>10, <2>3, Zenon
    <3>2. at[i] + j <= p /\ at[i] + j \in 1..p
      BY <1>2, <2>2, <3>1, Within, Zenon DEF p
    <3> QED BY <1>5, <1>11, <3>2, Zenon DEF p
  <2>4. CASE ~(spoiled <= s \/ i < s)
    <3>1. spoiled > s /\ i = s
      BY <1>1, <2>1, <2>4
    <3>2. at[s + 1] = at[s] + l /\ at[s] \in Nat /\ l \in Nat /\ j \in 1..l
      BY <2>2, <3>1, Zenon DEF l, M
    <3>3. o < l /\ p + o = at[s + 1] /\ \A k \in 1..o : O[k] = M[l - o + k]
      BY <1>8, <3>1, Zenon DEF o, l
    <3>4. CASE at[s] + j <= p
      <4>1. at[i] + j \in 1..p
        BY <1>2, <2>2, <3>1, <3>2, <3>4, OneToSum, Zenon DEF p
      <4> QED BY <1>5, <1>11, <3>1, <3>4, <4>1, Zenon DEF p
    <3>5. CASE ~(at[s] + j <= p)
      <4>1. PICK k \in 1..n : p + k = at[s] + j /\ l - o + k = j /\ k \in 1..o
        <5>2. at[s] + j <= p + n
          BY <3>1, Zenon
        <5>3. p \in Nat
          BY <1>2, Zenon DEF p
        <5>4. p + o = at[s] + l
          BY <3>2, <3>3, Zenon
        <5>5. at[s] \in Nat /\ l \in Nat /\ j \in 1..l /\ o \in Nat /\ n <= o
          BY <1>12, <3>2, Zenon
        <5>6. \E k \in 1..n : p + k = at[s] + j /\ l - o + k = j /\ k \in 1..o
          <6> DEFINE e == at[s]
          <6> HIDE DEF e
          <6>1. /\ p + o = e + l /\ ~(e + j <= p) /\ e + j <= p + n /\ n <= o
                /\ e \in Nat /\ l \in Nat /\ j \in 1..l /\ o \in Nat /\ p \in Nat /\ n \in Nat
            BY <1>6, <3>5, <5>2, <5>3, <5>4, <5>5, Zenon DEF e
          <6>2. \E k \in 1..n : p + k = e + j /\ l - o + k = j /\ k \in 1..o
            BY <6>1, ByteOfPiece
          <6> QED BY <6>2 DEF e
        <5> QED BY <5>6
      <4>2. Byte(Held', stream', at[i] + j) = O[k]
        BY <1>5, <3>1, <4>1, Zenon DEF p
      <4>3. O[k] = M[j]
        BY <3>3, <4>1, Zenon
      <4> QED BY <3>1, <4>2, <4>3, Zenon DEF M
    <3> QED BY <3>4, <3>5
  <2> QED BY <2>3, <2>4
<1>15. Ends(at)'
  <2>1. ASSUME spoiled <= s PROVE at[spoiled] <= p + n
    <3>1. at[spoiled] <= p
      BY <1>4, <2>1, Zenon DEF Ends, s, p
    <3>2. at[spoiled] \in Nat
      BY <1>1, Zenon
    <3>3. p \in Nat
      BY <1>2, Zenon DEF p
    <3> QED BY <1>6, <3>1, <3>2, <3>3, SumOfTwo, Zenon
  <2>2. ASSUME spoiled > s, NEW CONSTANT end, end = at[s + 1]
        PROVE  Finished(end)' \/ \E u \in Senders : Unfinished(u, end)'
    <3>1. /\ \A u \in Senders \ {t} : outgoing'[u] = <<>>
          /\ p + o = end /\ o < l /\ \A k \in 1..o : O[k] = M[l - o + k]
      BY <1>5, <1>8, <2>2, Zenon DEF p, o, l
    <3>2. outgoing'[t] \in Seq(Values) /\ Len(outgoing'[t]) = o - n /\ Pending' = p + n
      BY <1>5, Zenon DEF p, o
    <3>3. CASE n = o
      <4>1. outgoing'[t] = <<>>
        <5>1. \A k \in Nat : k - k = 0
          OBVIOUS
        <5>2. Len(outgoing'[t]) = 0
          BY <1>12, <3>2, <3>3, <5>1, Zenon
        <5> QED BY <3>2, <5>2, EmptySeq, Zenon
      <4>2. \A u \in Senders : outgoing'[u] = <<>>
        BY <3>1, <4>1, Zenon
      <4> QED BY <3>1, <3>2, <3>3, <4>2, Zenon DEF Finished
    <3>4. CASE n # o
      <4>1. s \in (r + 1)..s /\ s \in Nat
        <5>1. p + o = at[s + 1] /\ p \in Nat
          BY <1>2, <2>2, <3>1, Zenon DEF p
        <5>2. at[r + 1] = 0
          BY <1>4, Zenon DEF Offsets, r
        <5>3. r # s
          <6>1. \A a, b \in Nat : b > 0 => a + b # 0
            OBVIOUS
          <6> QED BY <1>12, <5>1, <5>2, <6>1, Zenon
        <5> QED BY <1>1, <5>3 DEF r, s
      <4>2. l \in Nat
        BY <1>9, <4>1, Zenon DEF l, M
      <4>3. p \in Nat
        BY <1>2, Zenon DEF p
      <4>4. o - n > 0 /\ o - n < l /\ p + n + (o - n) = end
        <5>1. \A a, b, c, d \in Nat : b > 0 /\ b <= c /\ b # c /\ c < d =>
                c - b > 0 /\ c - b < d /\ a + b + (c - b) = a + c
          OBVIOUS
        <5> QED BY <1>6, <1>12, <3>1, <3>4, <4>2, <4>3, <5>1, Zenon
      <4>5. \A j \in 1..(o - n) : outgoing'[t][j] = M[l - (o - n) + j]
        <5> SUFFICES ASSUME NEW j \in 1..(o - n) PROVE outgoing'[t][j] = M[l - (o - n) + j]
          OBVIOUS
        <5>1. outgoing'[t][j] = O[n + j]
          BY <1>5, Zenon DEF o
        <5>2. \A b, c \in Nat : b <= c => \A k \in 1..(c - b) : b + k \in 1..c /\ k \in Nat
          OBVIOUS
        <5>5. n + j \in 1..o /\ j \in Nat
          BY <1>6, <1>12, <5>2, Zenon
        <5>3. n + j \in 1..o /\ l - o + (n + j) = l - (o - n) + j
          BY <1>6, <1>12, <4>2, <5>5
        <5>4. O[n + j] = M[l - o + (n + j)]
          BY <3>1, <5>3, Zenon
        <5> QED BY <5>1, <5>3, <5>4, Zenon
      <4>6. sent'[Len(sent')] = M /\ Len(M) = l
        BY <1>3, Zenon DEF M, s, l
      <4>7. Unfinished(t, end)'
        BY <3>1, <3>2, <4>4, <4>5, <4>6, Zenon DEF Unfinished
      <4> QED BY <4>7
    <3> QED BY <3>3, <3>4
  <2>3. PICK end : end = at[s + 1]
    OBVIOUS
  <2>4. Len(sent') = s /\ spoiled' = spoiled /\ Pending' = p + n
    BY <1>3, <1>5, Zenon DEF s, p
  <2>5. end = at[Len(sent') + 1]
    BY <2>3, <2>4, Zenon
  <2> QED BY <2>1, <2>2, <2>3, <2>4, <2>5, Zenon DEF Ends
<1> QED BY <1>5, <1>13, <1>14, <1>15 DEF Aligned

LEMMA SendRestStep ==
  ASSUME StreamInv, NEW t \in Senders, SendRest(t)
  PROVE  StreamInv'
<1>1. UNCHANGED <<sent, received, spoiled>>
  BY DEF SendRest, reading
<1>2. Histories' /\ (Promised' <=> Promised)
  BY <1>1 DEF StreamInv, Histories, Promised
<1> QED BY <1>1, <1>2, SendRestAligned DEF StreamInv

LEMMA CloseStep ==
  ASSUME StreamInv, Close
  PROVE  StreamInv'
<1>1. UNCHANGED <<sent, received, spoiled, outgoing>>
  BY DEF Close, reading
<1>2. Promised => Reading' /\ Held' = Held /\ stream' = stream
  BY DEF Close, reading, StreamInv, Reading, Held
<1> QED BY <1>1, <1>2, SameBytes DEF Pending

-----------------------------------------------------------------------------
(* A message is returned *)

LEMMA ReceivedGrows ==
  ASSUME Histories, NEW x, received' = Append(received, x)
  PROVE  (\E S : received' \in Seq(S)) /\ Len(received') = Len(received) + 1
<1>1. PICK S : received \in Seq(S)
  BY DEF Histories
<1>2. received \in Seq(S \cup {x})
  BY <1>1
<1>3. received' \in Seq(S \cup {x}) /\ Len(received') = Len(received) + 1
  BY <1>2
<1> QED BY <1>3

\* The bytes that the receiver cuts off are those of the next message.
LEMMA ReturnedIsNext ==
  ASSUME StreamInv, Promised, Return
  PROVE  /\ Len(received) < Len(sent) /\ msgLength = Len(sent[Len(received) + 1])
         /\ msgLength \in 0..Len(cumulativeBuffer)
         /\ SubSeq(cumulativeBuffer, 1, msgLength) = sent[Len(received) + 1]
<1> DEFINE r == Len(received)
           s == Len(sent)
           p == Pending
           c == cumulativeBuffer
           M == sent[r + 1]
           L == Len(M)
<1>1. r \in Nat /\ s \in Nat /\ spoiled \in Nat /\ r <= s /\ r + 1 < spoiled
  BY Numbers DEF StreamInv, Promised
<1>2. Reading /\ Histories /\ p \in Nat
  BY PendingType DEF StreamInv
<1>3. /\ reader = "body" /\ ~(msgLength > Len(c)) /\ c \in Seq(Values) /\ stream \in Seq(Values)
      /\ Len(c) >= LengthField /\ msgLength = GetLength(SubSeq(c, 1, LengthField))
  BY <1>2 DEF Return, Hungry, Reading
<1>4. PICK at \in [Nat -> Nat] : Offsets(at) /\ Contents(at) /\ Ends(at)
  BY DEF StreamInv, Aligned
<1>5. Held = c /\ p = Len(c) + Len(stream) /\ Len(c) \in Nat /\ Len(stream) \in Nat
  <2>1. Held = c
    BY <1>3 DEF Held
  <2>2. Len(c) \in Nat /\ Len(stream) \in Nat
    BY <1>3, LenProperties, Zenon
  <2> QED BY <2>1, <2>2 DEF Pending, Count
<1>6. at[r + 1] = 0
  BY <1>4, Zenon DEF Offsets
<1>7. LengthField = 4
  BY DEF LengthField
<1>8. r < s
  <2> SUFFICES ASSUME ~(r < s) PROVE FALSE
    OBVIOUS
  <2>1. r = s /\ spoiled > s
    <3>1. \A a, b, d \in Nat : a <= b /\ a + 1 < d /\ ~(a < b) => a = b /\ d > b
      OBVIOUS
    <3> QED BY <1>1, <3>1, Zenon
  <2>2. p > 0
    BY <1>3, <1>5, <1>7
  <2>3. Finished(0) \/ \E t \in Senders : Unfinished(t, 0)
    BY <1>4, <1>6, <2>1, Zenon DEF Ends
  <2>4. ~Finished(0)
    <3>1. p # 0
      BY <2>2
    <3> QED BY <3>1, Zenon DEF Finished
  <2>5. ASSUME NEW t \in Senders, Unfinished(t, 0) PROVE FALSE
    <3>1. p + Len(outgoing[t]) = 0
      BY <2>5, Zenon DEF Unfinished
    <3>2. Len(outgoing[t]) \in Nat
      <4>1. outgoing[t] \in Seq(Values)
        BY <1>2 DEF Reading
      <4> QED BY <4>1, LenProperties, Zenon
    <3>3. \A a, b \in Nat : a > 0 => a + b # 0
      OBVIOUS
    <3> QED BY <1>2, <2>2, <3>1, <3>2, <3>3, Zenon
  <2> QED BY <2>3, <2>4, <2>5
<1>9. M \in Seq(Values) /\ L \in Nat /\ L > 4 /\ GetLength(SubSeq(M, 1, 4)) = L
  <2>1. r + 1 \in 1..s
    <3>1. \A a, b \in Nat : a < b => a + 1 \in 1..b
      OBVIOUS
    <3> QED BY <1>1, <1>8, <3>1, Zenon
  <2>2. M \in Seq(Values)
    <3>1. sent \in Seq(Seq(Values))
      BY <1>2 DEF Histories
    <3> QED BY <2>1, <3>1
  <2>3. L > LengthField /\ GetLength(SubSeq(M, 1, LengthField)) = L
    BY <1>1, <1>2, <2>1, Zenon DEF Histories
  <2> QED BY <1>7, <2>2, <2>3, LenProperties, Zenon
<1>10. \A j \in 1..L : j <= Len(c) => c[j] = M[j]
  <2> SUFFICES ASSUME NEW j \in 1..L, j <= Len(c) PROVE c[j] = M[j]
    OBVIOUS
  <2>1. r + 1 \in (r + 1)..s
    BY <1>1, <1>8
  <2>2. j \in Nat
    BY <1>9
  <2>3. 0 + j = j /\ j <= p
    BY <1>5, <2>2
  <2>4. Byte(c, stream, j) = M[j]
    BY <1>1, <1>4, <1>5, <1>6, <2>1, <2>3, Zenon DEF Contents
  <2> QED BY <2>4, Zenon DEF Byte
<1> HIDE DEF M, L
<1>11. msgLength = L
  <2>1. 4 \in 0..Len(c) /\ 4 \in 0..Len(M)
    BY <1>3, <1>5, <1>7, <1>9 DEF L
  <2>2. \A j \in 1..4 : c[j] = M[j]
    <3>1. \A a, b \in Nat : a > 4 /\ b >= 4 => \A j \in 1..4 : j \in 1..a /\ j <= b
      OBVIOUS
    <3> QED BY <1>3, <1>5, <1>7, <1>9, <1>10, <3>1, Zenon
  <2>3. SubSeq(c, 1, 4) = SubSeq(M, 1, 4)
    BY <1>3, <1>9, <2>1, <2>2, SamePrefix
  <2> QED BY <1>3, <1>7, <1>9, <2>3, Zenon
<1>12. msgLength \in 0..Len(c)
  <2>1. \A a, b \in Nat : ~(a > b) => a \in 0..b
    OBVIOUS
  <2> QED BY <1>3, <1>5, <1>9, <1>11, <2>1, Zenon
<1>13. SubSeq(c, 1, L) = M
  <2>1. L \in 0..Len(c)
    BY <1>11, <1>12
  <2>2. /\ SubSeq(c, 1, L) \in Seq(Values) /\ Len(SubSeq(c, 1, L)) = L
        /\ \A j \in 1..L : SubSeq(c, 1, L)[j] = c[j]
    BY <1>3, <2>1, CutInTwo
  <2>3. \A j \in 1..L : SubSeq(c, 1, L)[j] = M[j]
    <3>1. \A j \in 1..L : j <= Len(c)
      BY <1>5, <1>9, <2>1
    <3> QED BY <1>10, <2>2, <3>1, Zenon
  <2> QED BY <1>9, <2>2, <2>3, SeqEqual DEF L
<1> QED BY <1>8, <1>11, <1>12, <1>13 DEF M, L

\* Without its bytes the messages behind it are as many bytes nearer.
LEMMA ReturnAligned ==
  ASSUME StreamInv, Return, Promised'
  PROVE  /\ Reading' /\ Len(received') <= Len(sent')
         /\ \E at \in [Nat -> Nat] : Aligned(at)'
<1> DEFINE r == Len(received)
           s == Len(sent)
           p == Pending
           L == msgLength
<1>1. r \in Nat /\ s \in Nat /\ spoiled \in Nat /\ Histories
  BY Numbers DEF StreamInv
<1>2. /\ UNCHANGED <<sent, spoiled, stream, outgoing>>
      /\ received' = Append(received, SubSeq(cumulativeBuffer, 1, L))
      /\ receiveBuffer' = Rest(cumulativeBuffer, L)
      /\ cumulativeBuffer' = <<>> /\ reader' = "idle" /\ reader = "body"
  BY DEF Return, sending, Rest
<1>3. Len(received') = r + 1
  BY <1>1, <1>2, ReceivedGrows
<1>4. r + 1 + 1 < spoiled
  BY <1>2, <1>3, Zenon DEF Promised
<1>5. Promised
  <2>1. \A a, b \in Nat : a + 1 + 1 < b => a + 1 < b
    OBVIOUS
  <2> QED BY <1>1, <1>4, <2>1, Zenon DEF Promised
<1>6. Reading /\ p \in Nat /\ cumulativeBuffer \in Seq(Values) /\ stream \in Seq(Values)
  BY <1>5, PendingType DEF StreamInv, Reading
<1>7. r < s /\ L = Len(sent[r + 1]) /\ L \in 0..Len(cumulativeBuffer)
  BY <1>5, ReturnedIsNext
<1>8. L \in Nat
  <2>1. Len(cumulativeBuffer) \in Nat
    BY <1>6, LenProperties, Zenon
  <2> QED BY <1>7, <2>1
<1>9. PICK at \in [Nat -> Nat] : Offsets(at) /\ Contents(at) /\ Ends(at)
  BY <1>5 DEF StreamInv, Aligned
<1>10. /\ receiveBuffer' \in Seq(Values)
       /\ Count(receiveBuffer', stream) = Count(cumulativeBuffer, stream) - L
       /\ \A k \in 1..Count(receiveBuffer', stream) :
            Byte(receiveBuffer', stream, k) = Byte(cumulativeBuffer, stream, L + k)
  <2>1. /\ Rest(cumulativeBuffer, L) \in Seq(Values)
        /\ Count(Rest(cumulativeBuffer, L), stream) = Count(cumulativeBuffer, stream) - L
        /\ \A k \in 1..Count(Rest(cumulativeBuffer, L), stream) :
             Byte(Rest(cumulativeBuffer, L), stream, k) = Byte(cumulativeBuffer, stream, L + k)
    <3> HIDE DEF r, s, p, L
    <3>1. L \in 0..Len(cumulativeBuffer)
      BY <1>7
    <3>2. cumulativeBuffer \in Seq(Values) /\ stream \in Seq(Values)
      BY <1>6
    <3> QED BY <3>1, <3>2, BytesReturned
  <2> QED BY <1>2, <2>1
<1>11. Held = cumulativeBuffer /\ Held' = receiveBuffer' /\ stream' = stream
  BY <1>2 DEF Held
<1>12. /\ Pending' = p - L
       /\ \A k \in 1..(p - L) : Byte(Held', stream', k) = Byte(Held, stream, L + k)
  BY <1>10, <1>11 DEF Pending
<1>13. Reading'
  BY <1>2, <1>6, <1>10 DEF Reading
<1>14. /\ at[r + 1] = 0
       /\ \A i \in (r + 1)..s : at[i + 1] = at[i] + Len(sent[i])
       /\ \A i, k \in (r + 1)..(s + 1) : i <= k => at[i] <= at[k]
  BY <1>9 DEF Offsets
<1>15. \A i \in (r + 1)..s : \A j \in 1..Len(sent[i]) :
         i < spoiled /\ at[i] + j <= p => Byte(Held, stream, at[i] + j) = sent[i][j]
  BY <1>9 DEF Contents
<1>16. /\ \A i \in (r + 1)..s : Len(sent[i]) \in Nat
       /\ \A i \in (r + 1)..s : i < spoiled /\ (spoiled <= s \/ i < s) => at[i + 1] <= p
  <2>1. r <= s
    BY <1>1, <1>7
  <2>2. \A i \in (r + 1)..s : Len(sent[i]) \in Nat
    BY <1>1, <1>9, OffsetsProperties
  <2> QED BY <1>1, <1>6, <1>9, <2>1, <2>2, WholeBeforeLast
<1> HIDE DEF r, s, p, L
<1>17. r + 1 \in (r + 1)..s /\ r + 1 + 1 \in (r + 1)..(s + 1) /\ r + 1 + 1 \in Nat
  BY <1>1, <1>7
<1>18. at[r + 1 + 1] = L
  <2>1. at[r + 1 + 1] = 0 + L
    BY <1>7, <1>14, <1>17, Zenon DEF r
  <2>2. \A a \in Nat : 0 + a = a
    OBVIOUS
  <2> QED BY <1>8, <2>1, <2>2, Zenon
<1>19. \A i \in (r + 1 + 1)..(s + 1) :
         i \in Nat /\ i \in (r + 1)..(s + 1) /\ L <= at[i] /\ at[i] \in Nat
  <2> SUFFICES ASSUME NEW i \in (r + 1 + 1)..(s + 1)
               PROVE  i \in Nat /\ i \in (r + 1)..(s + 1) /\ L <= at[i] /\ at[i] \in Nat
    OBVIOUS
  <2>1. i \in Nat /\ i \in (r + 1)..(s + 1) /\ r + 1 + 1 <= i
    BY <1>1
  <2> QED BY <1>14, <1>17, <1>18, <2>1, Zenon
<1>20. PICK at2 \in [Nat -> Nat] : \A i \in (r + 1 + 1)..(s + 1) : at2[i] = at[i] - L
  <2> DEFINE f == [i \in Nat |-> IF i \in (r + 1 + 1)..(s + 1) THEN at[i] - L ELSE 0]
  <2>1. \A a, b \in Nat : a <= b => b - a \in Nat
    OBVIOUS
  <2>2. \A i \in (r + 1 + 1)..(s + 1) : at[i] - L \in Nat
    BY <1>8, <1>19, <2>1, Zenon
  <2>3. 0 \in Nat
    OBVIOUS
  <2>4. f \in [Nat -> Nat]
    BY <2>2, <2>3, Zenon
  <2> QED BY <1>19, <2>4, Zenon
<1>21. Offsets(at2)'
  <2>1. at2[r + 1 + 1] = 0
    <3>1. r + 1 + 1 \in (r + 1 + 1)..(s + 1)
      BY <1>1, <1>7
    <3>2. at2[r + 1 + 1] = L - L
      BY <1>18, <1>20, <3>1, Zenon
    <3>3. \A a \in Nat : a - a = 0
      OBVIOUS
    <3> QED BY <1>8, <3>2, <3>3, Zenon
  <2>2. ASSUME NEW i \in (r + 1 + 1)..s PROVE at2[i + 1] = at2[i] + Len(sent[i])
    <3>1. i \in (r + 1)..s /\ i \in (r + 1 + 1)..(s + 1) /\ i + 1 \in (r + 1 + 1)..(s + 1)
      BY <1>1
    <3>2. /\ at[i + 1] = at[i] + Len(sent[i]) /\ at[i] \in Nat /\ Len(sent[i]) \in Nat
          /\ at2[i + 1] = at[i + 1] - L /\ at2[i] = at[i] - L
      BY <1>14, <1>16, <1>19, <1>20, <3>1, Zenon
    <3> DEFINE a == at[i]
               b == Len(sent[i])
               d == at[i + 1]
    <3>3. a \in Nat /\ b \in Nat /\ d = a + b /\ at2[i + 1] = d - L /\ at2[i] = a - L
      BY <3>2, Zenon
    <3> HIDE DEF a, b, d
    <3>4. d - L = a - L + b
      BY <1>8, <3>3
    <3> QED BY <3>3, <3>4, Zenon DEF b
  <2>3. ASSUME NEW i \in (r + 1 + 1)..(s + 1), NEW k \in (r + 1 + 1)..(s + 1), i <= k
        PROVE  at2[i] <= at2[k]
    <3>1. at[i] <= at[k] /\ at[i] \in Nat /\ at[k] \in Nat
      BY <1>14, <1>19, <2>3, Zenon
    <3>2. \A a, b, c \in Nat : a <= b => a - c <= b - c
      OBVIOUS
    <3> QED BY <1>8, <1>20, <3>1, <3>2, Zenon
  <2>4. Len(sent') = s /\ Len(received') = r + 1 /\ sent' = sent
    BY <1>2, <1>3, Zenon DEF s
  <2> QED BY <2>1, <2>2, <2>3, <2>4, Zenon DEF Offsets
<1>22. Contents(at2)'
  <2> SUFFICES ASSUME NEW i \in (r + 1 + 1)..s, i < spoiled,
                      NEW j \in 1..Len(sent[i]), at2[i] + j <= p - L
               PROVE  Byte(Held', stream', at2[i] + j) = sent[i][j]
    BY <1>2, <1>3, <1>12, Zenon DEF Contents, s
  <2>1. i \in (r + 1)..s /\ i \in (r + 1 + 1)..(s + 1)
    BY <1>1
  <2>2. /\ at2[i] = at[i] - L /\ at[i] \in Nat /\ L <= at[i] /\ Len(sent[i]) \in Nat
    BY <1>16, <1>19, <1>20, <2>1, Zenon
  <2>4. p \in Nat
    BY <1>6, Zenon DEF p
  <2>5. at[i] - L + j <= p - L
    BY <2>2, Zenon
  <2>6. at[i] + j <= p /\ at[i] - L + j \in 1..(p - L) /\ L + (at[i] - L + j) = at[i] + j
    <3> DEFINE a == at[i]
               b == Len(sent[i])
    <3>1. a \in Nat /\ b \in Nat /\ L <= a /\ j \in 1..b /\ a - L + j <= p - L
      BY <2>2, <2>5, Zenon
    <3> HIDE DEF a, b
    <3>2. a + j <= p /\ a - L + j \in 1..(p - L) /\ L + (a - L + j) = a + j
      BY <1>8, <2>4, <3>1
    <3> QED BY <3>2, Zenon DEF a
  <2>7. Byte(Held', stream', at[i] - L + j) = Byte(Held, stream, at[i] + j)
    BY <1>12, <2>6, Zenon DEF L, p
  <2>8. Byte(Held, stream, at[i] + j) = sent[i][j]
    BY <1>15, <2>1, <2>6, Zenon
  <2> QED BY <2>2, <2>7, <2>8, Zenon
<1>23. Ends(at2)'
  <2>1. p \in Nat
    BY <1>6, Zenon DEF p
  <2>2. \A a, b, c \in Nat : a <= b => a - c <= b - c
    OBVIOUS
  <2>3. ASSUME spoiled <= s PROVE at2[spoiled] <= p - L
    <3>1. spoiled \in (r + 1 + 1)..(s + 1)
      <4>1. \A a, b, c \in Nat : a + 1 + 1 < b /\ b <= c => b \in (a + 1 + 1)..(c + 1)
        OBVIOUS
      <4> QED BY <1>1, <1>4, <2>3, <4>1, Zenon DEF r, s
    <3>2. at[spoiled] <= p
      BY <1>9, <2>3, Zenon DEF Ends, s, p
    <3> QED BY <1>8, <1>19, <1>20, <2>1, <2>2, <3>1, <3>2, Zenon
  <2>4. ASSUME spoiled > s, NEW CONSTANT end, end = at2[s + 1]
        PROVE  Finished(end)' \/ \E u \in Senders : Unfinished(u, end)'
    <3>1. end = at[s + 1] - L /\ at[s + 1] \in Nat
      <4>1. s + 1 \in (r + 1 + 1)..(s + 1)
        BY <1>1, <1>7
      <4> QED BY <1>19, <1>20, <2>4, <4>1, Zenon
    <3>2. CASE Finished(at[s + 1])
      <4>1. Pending' = end /\ \A u \in Senders : outgoing'[u] = <<>>
        BY <1>2, <1>12, <3>1, <3>2, Zenon DEF Finished, p, L
      <4> QED BY <4>1, Zenon DEF Finished
    <3>3. CASE \E u \in Senders : Unfinished(u, at[s + 1])
      <4>1. PICK u \in Senders : Unfinished(u, at[s + 1])
        BY <3>3
      <4>2. p + Len(outgoing[u]) = at[s + 1]
        BY <4>1, Zenon DEF Unfinished, p
      <4>3. Len(outgoing[u]) \in Nat
        <5>1. outgoing[u] \in Seq(Values)
          BY <1>6 DEF Reading
        <5> QED BY <5>1, LenProperties, Zenon
      <4>4. p - L + Len(outgoing[u]) = end
        <5> DEFINE a == at[s + 1]
                   b == Len(outgoing[u])
        <5>1. a \in Nat /\ b \in Nat /\ p + b = a /\ end = a - L
          BY <3>1, <4>2, <4>3, Zenon
        <5> HIDE DEF a, b
        <5>2. p - L + b = a - L
          BY <1>8, <2>1, <5>1
        <5> QED BY <5>1, <5>2, Zenon DEF b
      <4>5. Unfinished(u, end)'
        BY <1>2, <1>12, <4>1, <4>4, Zenon DEF Unfinished, p, L
      <4> QED BY <4>5
    <3> QED BY <1>9, <2>4, <3>2, <3>3, Zenon DEF Ends, s
  <2>5. PICK end : end = at2[s + 1]
    OBVIOUS
  <2>6. Len(sent') = s /\ spoiled' = spoiled /\ Pending' = p - L
    BY <1>2, <1>12, Zenon DEF s, p, L
  <2>7. end = at2[Len(sent') + 1]
    BY <2>5, <2>6, Zenon
  <2> QED BY <2>3, <2>4, <2>5, <2>6, <2>7, Zenon DEF Ends
<1>24. Len(received') <= Len(sent')
  <2>1. \A a, b \in Nat : a < b => a + 1 <= b
    OBVIOUS
  <2> QED BY <1>1, <1>2, <1>3, <1>7, <2>1, Zenon DEF r, s
<1> QED BY <1>13, <1>21, <1>22, <1>23, <1>24 DEF Aligned

LEMMA ReturnStep ==
  ASSUME StreamInv, Return
  PROVE  StreamInv'
<1>1. UNCHANGED <<sent, spoiled>> /\ \E x : received' = Append(received, x)
  BY DEF Return, sending
<1>2. \E S : received' \in Seq(S)
  BY <1>1, ReceivedGrows DEF StreamInv
<1>3. Histories'
  BY <1>1, <1>2 DEF StreamInv, Histories
<1> QED BY <1>3, ReturnAligned DEF StreamInv

LEMMA StutterStep ==
  ASSUME StreamInv, UNCHANGED vars
  PROVE  StreamInv'
<1>1. UNCHANGED <<sent, received, spoiled, outgoing>>
  BY DEF vars, sending, reading
<1>2. Promised => Reading' /\ Held' = Held /\ stream' = stream
  BY DEF vars, sending, reading, StreamInv, Reading, Held
<1> QED BY <1>1, <1>2, SameBytes DEF Pending

LEMMA NextStreamInv ==
  ASSUME StreamInv, [Next]_vars
  PROVE  StreamInv'
<1>1. ASSUME NEW t \in Senders, NEW l \in Lengths, Send(t, l) PROVE StreamInv'
  BY <1>1, SendStep
<1>2. ASSUME NEW t \in Senders, SendRest(t) PROVE StreamInv'
  BY <1>2, SendRestStep
<1>3. CASE Close
  BY <1>3, CloseStep
<1>4. CASE ReaderStep
  BY <1>4, NextMessageStep, ReceiveStep, EndOfStreamStep, ReadLengthStep, ReturnStep
     DEF ReaderStep
<1>5. CASE UNCHANGED vars
  BY <1>5, StutterStep
<1> QED BY <1>1, <1>2, <1>3, <1>4, <1>5 DEF Next

-----------------------------------------------------------------------------
(* The messages returned are those that were sent. *)

LEMMA InitMessages == Init => Messages!Init
BY DEF Init, Messages!Init

LEMMA NextMessages ==
  ASSUME StreamInv, [Next]_vars
  PROVE  [Messages!Next \/ Len(received') >= spoiled]_<<sent, received>>
<1>1. ASSUME NEW t \in Senders, NEW l \in Lengths, Send(t, l) PROVE Messages!Send
  <2> DEFINE M == Encoded(l, Len(sent) + 1)
  <2>1. Len(sent) \in Nat
    BY Numbers DEF StreamInv
  <2>2. M \in Seq(Values) /\ sent \in Seq(Seq(Values))
    BY <2>1, EncodedProperties DEF StreamInv, Histories
  <2>3. sent' = Append(sent, M) /\ received' = received
    BY <1>1 DEF Send, reading
  <2> HIDE DEF M
  <2>4. /\ sent' \in Seq(Seq(Values)) /\ Len(sent') = Len(sent) + 1
        /\ \A i \in 1..Len(sent) : sent'[i] = sent[i]
    BY <2>2, <2>3
  <2>5. SubSeq(sent', 1, Len(sent)) = sent
    <3>1. Len(sent) \in 0..Len(sent')
      BY <2>1, <2>4
    <3>2. /\ SubSeq(sent', 1, Len(sent)) \in Seq(Seq(Values))
          /\ Len(SubSeq(sent', 1, Len(sent))) = Len(sent)
          /\ \A i \in 1..Len(sent) : SubSeq(sent', 1, Len(sent))[i] = sent'[i]
      BY <2>4, <3>1, CutInTwo
    <3>3. \A i \in 1..Len(sent) : SubSeq(sent', 1, Len(sent))[i] = sent[i]
      BY <2>4, <3>2, Zenon
    <3> QED BY <2>2, <3>2, <3>3, SeqEqual
  <2> QED BY <2>3, <2>4, <2>5 DEF Messages!Send
<1>2. ASSUME Return PROVE Messages!Receive \/ Len(received') >= spoiled
  <2>1. CASE Promised
    <3>1. /\ Len(received) < Len(sent)
          /\ SubSeq(cumulativeBuffer, 1, msgLength) = sent[Len(received) + 1]
      BY <1>2, <2>1, ReturnedIsNext
    <3> QED BY <1>2, <3>1 DEF Return, sending, Messages!Receive
  <2>2. CASE ~Promised
    <3>1. Len(received') = Len(received) + 1
      BY <1>2, ReceivedGrows DEF Return, StreamInv
    <3>2. Len(received) \in Nat /\ spoiled \in Nat
      BY Numbers DEF StreamInv
    <3>3. \A a, b \in Nat : ~(a + 1 < b) => a + 1 >= b
      OBVIOUS
    <3> QED BY <2>2, <3>1, <3>2, <3>3, Zenon DEF Promised
  <2> QED BY <2>1, <2>2
<1>3. ASSUME Return \/ (\E t \in Senders, l \in Lengths : Send(t, l))
      PROVE  Messages!Next \/ Len(received') >= spoiled
  BY <1>1, <1>2, <1>3 DEF Messages!Next
<1>4. ASSUME ~Return, ~\E t \in Senders, l \in Lengths : Send(t, l)
      PROVE  UNCHANGED <<sent, received>>
  BY <1>4 DEF Next, SendRest, Close, ReaderStep, NextMessage, Receive, EndOfStream, ReadLength,
              sending, reading, vars
<1> QED BY <1>3, <1>4

\* However recv() cuts the stream and whichever thread sends, what the functions
\* return are the messages sent, in their order and whole, up to the first that
\* two threads sent at a time into a full buffer or whose length is misread.
THEOREM MessagesInOrder == Spec => ReturnsTheNextMessage
<1>1. Init /\ [][Next]_vars => []StreamInv
  BY InitStreamInv, NextStreamInv, PTL
<1>2. StreamInv /\ [Next]_vars => [Messages!Next \/ Len(received') >= spoiled]_<<sent, received>>
  BY NextMessages
<1> QED BY <1>1, <1>2, InitMessages, PTL DEF Spec, ReturnsTheNextMessage

=============================================================================
