------------------------ MODULE ProtocolMessageProofs ------------------------
(***************************************************************************)
(* What the codec of ProtocolMessage does, for every even Base: a 16-bit   *)
(* field below SignLimit arrives as it was sent, every other one as some   *)
(* 16-bit number, and a message with such fields arrives as it was sent.   *)
(***************************************************************************)
EXTENDS ProtocolMessage, SequenceTheorems, TLAPS

\* A number is put together from its bytes in one way only.
LEMMA DivModUnique ==
  ASSUME NEW q \in Nat, NEW r \in 0..(Base - 1)
  PROVE  (q * Base + r) \div Base = q /\ (q * Base + r) % Base = r
BY BaseAssumption, SMT

\* Every number has a quotient and a remainder by Base.
LEMMA Split ==
  ASSUME NEW n \in Nat
  PROVE  /\ n \div Base \in Nat
         /\ n % Base \in 0..(Base - 1)
         /\ n = (n \div Base) * Base + (n % Base)
BY BaseAssumption, SMT

\* Two bytes make a number that fits uint16_t ...
LEMMA TwoBytesFit ==
  ASSUME NEW q \in 0..(Base - 1), NEW r \in 0..(Base - 1)
  PROVE  (q * Base + r) % (Base * Base) = q * Base + r
BY BaseAssumption, SMT

\* ... and if the high one was read as negative, the conversion mends it.
LEMMA SignIsMended ==
  ASSUME NEW q \in 0..(Base - 1), NEW r \in 0..(Base - 1)
  PROVE  (q * Base + r - Base * Base) % (Base * Base) = q * Base + r
BY BaseAssumption, SMT

\* htons exchanges the bytes of a number.
LEMMA SwapPair ==
  ASSUME NEW q \in 0..(Base - 1), NEW r \in 0..(Base - 1)
  PROVE  Swap16(q * Base + r) = r * Base + q
BY DivModUnique, BaseAssumption DEF Swap16

\* A number below SignLimit has a high byte that is not negative as a char.
LEMMA LowHalf ==
  ASSUME NEW n \in 0..(SignLimit - 1)
  PROVE  \E q, r \in 0..(Base - 1) : n = q * Base + r /\ 2 * q < Base
<1> DEFINE q == n \div Base
           r == n % Base
<1>0. n \in Nat
  BY BaseAssumption DEF SignLimit
<1>1. q \in Nat /\ r \in 0..(Base - 1) /\ n = q * Base + r
  BY Split, <1>0
<1>2. 2 * q < Base
  <2>1. n < (Base \div 2) * Base
    BY BaseAssumption DEF SignLimit
  <2>2. q * Base < (Base \div 2) * Base
    BY <2>1, <1>1, BaseAssumption
  <2>3. q < Base \div 2
    BY <2>2, <1>1, BaseAssumption
  <2> QED BY <2>3, <1>1, BaseAssumption
<1> HIDE DEF q, r
<1>3. q \in 0..(Base - 1)
  BY <1>1, <1>2, BaseAssumption
<1> QED BY <1>1, <1>2, <1>3

\* A number whose top byte is not negative as a char arrives as it was sent:
\* convertToTransferableMessage and ProtocolMessage(string) are inverses below
\* SignLimit.  (Above it they are not: a session that numbers that far breaks.)
THEOREM WireIdentity ==
  ASSUME NEW n \in 0..(SignLimit - 1)
  PROVE  OnWire(n) = n
<1>1. PICK q, r \in 0..(Base - 1) : n = q * Base + r /\ 2 * q < Base
  BY LowHalf
<1>2. 2 * q < Base
  BY <1>1
<1>3. q \in 0..(Base - 1)
  BY <1>1
<1>4. U16(n) = n
  BY <1>1, <1>3, TwoBytesFit DEF U16
<1>5. PutU16(n) = <<r, q>>
  <2>1. Swap16(U16(n)) = r * Base + q
    BY <1>4, <1>1, <1>3, SwapPair
  <2> QED BY <2>1, <1>1, <1>3, DivModUnique DEF PutU16
<1>6. SignedChar(q) = q
  BY <1>2, <1>3, BaseAssumption DEF SignedChar
<1>7. U16(SignedChar(r) * Base + SignedChar(q)) = r * Base + q
  <2>1. CASE 2 * r >= Base
    <3>1. SignedChar(r) * Base + q = r * Base + q - Base * Base
      BY <2>1, <1>1, <1>3, BaseAssumption DEF SignedChar
    <3> QED BY <3>1, <1>6, SignIsMended, <1>1, <1>3 DEF U16
  <2>2. CASE ~(2 * r >= Base)
    BY <2>2, <1>6, TwoBytesFit, <1>1, <1>3 DEF U16, SignedChar
  <2> QED BY <2>1, <2>2
<1>8. GetU16(<<r, q>>) = q * Base + r
  BY <1>7, SwapPair, <1>1, <1>3 DEF GetU16
<1> QED BY <1>8, <1>5, <1>1 DEF OnWire

\* Whatever is sent, a natural number is read.
LEMMA OnWireType ==
  ASSUME NEW n \in Nat
  PROVE  OnWire(n) \in Nat
<1>1. \A m \in Int : U16(m) \in Nat
  <2>1. Base * Base \in Nat /\ Base * Base > 0
    BY BaseAssumption
  <2> HIDE DEF BaseAssumption
  <2> DEFINE BB == Base * Base
  <2>2. BB \in Nat /\ BB > 0 BY <2>1
  <2> HIDE DEF BB
  <2>3. \A m \in Int : m % BB \in Nat BY <2>2
  <2> QED BY <2>3 DEF BB, U16
<1>2. \A m \in Nat : Swap16(m) \in Nat
  BY Split, BaseAssumption DEF Swap16
<1>3. \A b \in Int : SignedChar(b) \in Int
  BY BaseAssumption DEF SignedChar
<1> DEFINE net == Swap16(U16(n))
<1>4. net \in Nat
  BY <1>1, <1>2
<1> HIDE DEF net
<1>5. net \div Base \in Nat /\ net % Base \in Nat
  BY <1>4, Split
<1>6. SignedChar(net \div Base) * Base + SignedChar(net % Base) \in Int
  BY <1>3, <1>5, BaseAssumption
<1> QED BY <1>6, <1>1, <1>2 DEF OnWire, GetU16, PutU16, net

\* A number from 1 to the last that fits 16 bits is never read as 0, the number of
\* what is no command.
LEMMA NeverReadAsZero ==
  ASSUME NEW n \in 1..(Base * Base - 1)
  PROVE  OnWire(n) # 0
<1> DEFINE q == n \div Base
           r == n % Base
           BB == Base * Base
<1>1. Base \in Nat /\ Base > 1 /\ BB \in Nat /\ BB > 0 /\ n \in Nat /\ n > 0 /\ n < BB
  BY BaseAssumption
<1>2. q \in Nat /\ r \in 0..(Base - 1) /\ n = q * Base + r
  BY <1>1, Split
<1> HIDE DEF q, r
<1>3. q < Base
  <2> SUFFICES ASSUME q >= Base PROVE FALSE
    BY <1>1, <1>2
  <2>1. q * Base >= Base * Base
    BY <1>1, <1>2
  <2> QED BY <2>1, <1>1, <1>2
<1>4. q \in 0..(Base - 1)
  BY <1>1, <1>2, <1>3
<1> DEFINE s == SignedChar(r)
           t == SignedChar(q)
           x == s * Base + t
<1>5. /\ s \in Int /\ 2 * s < Base /\ -Base <= 2 * s /\ (s = 0 <=> r = 0)
      /\ t \in Int /\ 2 * t < Base /\ -Base <= 2 * t /\ (t = 0 <=> q = 0)
  BY <1>1, <1>2, <1>4 DEF SignedChar
<1>6. s # 0 \/ t # 0
  BY <1>1, <1>2, <1>5
<1> HIDE DEF s, t
<1>7. x \in Int /\ x # 0
  <2>1. CASE s = 0
    BY <2>1, <1>1, <1>5, <1>6
  <2>2. CASE s > 0
    <3>1. s * Base >= Base
      BY <2>2, <1>1, <1>5
    <3> QED BY <3>1, <1>1, <1>5
  <2>3. CASE s < 0
    <3>1. s * Base <= -Base
      BY <2>3, <1>1, <1>5
    <3> QED BY <3>1, <1>1, <1>5
  <2> QED BY <2>1, <2>2, <2>3, <1>5
<1>8. x < BB /\ -BB < x
  <2>1. (2 * s) * Base <= (Base - 1) * Base /\ (-Base) * Base <= (2 * s) * Base
    BY <1>1, <1>5
  <2>2. (Base - 1) * Base = BB - Base /\ (-Base) * Base = -BB /\ (2 * s) * Base = 2 * (s * Base)
    BY <1>1, <1>5
  <2>3. 2 * Base <= BB
    BY <1>1
  <2> DEFINE y == s * Base
  <2>4. y \in Int
    BY <1>1, <1>5
  <2>5. 2 * y <= BB - Base /\ -BB <= 2 * y
    BY <2>1, <2>2
  <2> HIDE DEF y, BB
  <2>6. y + t < BB /\ -BB < y + t
    BY <2>3, <2>4, <2>5, <1>1, <1>5
  <2> QED BY <2>6 DEF y
<1> DEFINE net == U16(x)
<1>9. net \in Nat /\ net # 0
  <2>1. U16(x) = x % BB
    BY DEF U16
  <2> HIDE DEF x, BB
  <2>2. x % BB \in Nat /\ x % BB # 0
    BY <1>1, <1>7, <1>8
  <2> QED BY <2>1, <2>2
<1> HIDE DEF net
<1>10. Swap16(net) # 0
  <2>1. net \div Base \in Nat /\ net % Base \in 0..(Base - 1)
        /\ net = (net \div Base) * Base + (net % Base)
    BY <1>9, Split
  <2> DEFINE h == net \div Base
             l == net % Base
  <2>2. h \in Nat /\ l \in Nat /\ net = h * Base + l
    BY <2>1, <1>1
  <2>3. Swap16(net) = l * Base + h
    BY DEF Swap16
  <2> HIDE DEF h, l
  <2>4. l * Base \in Nat /\ (l # 0 => l * Base >= Base)
    BY <2>2, <1>1
  <2>5. h # 0 \/ l # 0
    BY <2>2, <1>9, <1>1
  <2> QED BY <2>2, <2>3, <2>4, <2>5, <1>1
<1>11. PutU16(n) = <<r, q>>
  <2>1. U16(n) = n
    BY <1>2, <1>4, TwoBytesFit DEF U16
  <2>2. Swap16(U16(n)) = r * Base + q
    BY <2>1, <1>2, <1>4, SwapPair
  <2> QED BY <2>2, <1>2, <1>4, DivModUnique DEF PutU16
<1>12. OnWire(n) = Swap16(net)
  BY <1>11 DEF OnWire, GetU16, net, s, t
<1> QED BY <1>10, <1>12

-----------------------------------------------------------------------------
(* The length *)

\* What of a word is its low byte and what are the others.
LEMMA LowByte ==
  ASSUME NEW h \in Nat, NEW d \in 0..(Base - 1)
  PROVE  Shift(h * Base + d) = h /\ Low(h * Base + d) = d
BY DivModUnique DEF Shift, Low

\* htonl of a number of two bytes.
LEMMA SwapLow ==
  ASSUME NEW q \in 0..(Base - 1), NEW r \in 0..(Base - 1)
  PROVE  Swap32(q * Base + r) = Word32(r, q, 0, 0)
<1> DEFINE w == q * Base + r
<1>1. q \in Nat /\ 0 \in 0..(Base - 1) /\ 0 \in Nat
  BY BaseAssumption
<1>2. Shift(w) = q /\ Low(w) = r
  BY <1>1, LowByte
<1>3. Shift(q) = 0 /\ Low(q) = q /\ Shift(0) = 0 /\ Low(0) = 0
  <2>1. 0 * Base + q = q /\ 0 * Base + 0 = 0
    BY BaseAssumption
  <2> QED BY <1>1, <2>1, LowByte
<1> HIDE DEF w
<1>4. Low(w) = r /\ Low(Shift(w)) = q /\ Low(Shift(Shift(w))) = 0 /\ Shift(Shift(Shift(w))) = 0
  BY <1>2, <1>3, Zenon
<1>5. Swap32(w) = Word32(r, q, 0, 0)
  BY <1>4, Zenon DEF Swap32
<1> QED BY <1>5 DEF w

\* Two bytes fit uint32_t ...
LEMMA SmallFits ==
  ASSUME NEW q \in 0..(Base - 1), NEW r \in 0..(Base - 1)
  PROVE  U32(q * Base + r) = q * Base + r
<1> DEFINE x == q * Base + r
           S == Base * Base
           M == Base * Base * Base * Base
<1>1. x \in Nat /\ S \in Nat /\ S > 0
  BY BaseAssumption
<1>2. x < S
  <2>1. q * Base <= (Base - 1) * Base
    BY BaseAssumption
  <2>2. (Base - 1) * Base = Base * Base - Base
    BY BaseAssumption
  <2> QED BY BaseAssumption, <2>1, <2>2
<1>3. M = S * S
  BY BaseAssumption
<1> HIDE DEF x, S, M
<1>4. S <= S * S /\ S * S \in Nat
  BY <1>1
<1>5. M \in Nat /\ M > 0 /\ x < M
  BY <1>1, <1>2, <1>3, <1>4
<1>6. x % M = x
  BY <1>1, <1>5
<1> QED BY <1>6 DEF U32, x, M

\* ... as four do, and if the high one was read as negative, the conversion mends it.
LEMMA WordFits ==
  ASSUME NEW q \in 0..(Base - 1), NEW r \in 0..(Base - 1)
  PROVE  /\ Word32(r, q, 0, 0) \in Nat
         /\ U32(Word32(r, q, 0, 0)) = Word32(r, q, 0, 0)
         /\ U32(Word32(r - Base, q, 0, 0)) = Word32(r, q, 0, 0)
<1> DEFINE x == r * Base + q
           S == Base * Base
           w == x * S
           M == S * S
<1>1. Base \in Nat /\ Base > 1 /\ r \in Nat /\ q \in Nat /\ r <= Base - 1 /\ q <= Base - 1
  BY BaseAssumption
<1>2. x \in Nat /\ S \in Nat /\ S > 0
  BY <1>1
<1>3. x < S
  <2>1. r * Base <= (Base - 1) * Base
    BY <1>1
  <2>2. (Base - 1) * Base = Base * Base - Base
    BY <1>1
  <2> QED BY <1>1, <2>1, <2>2
<1>4. /\ Word32(r, q, 0, 0) = w
      /\ Word32(r - Base, q, 0, 0) = w - M
      /\ Base * Base * Base * Base = M
  BY <1>1 DEF Word32
<1> HIDE DEF x, S
<1>5. w \in Nat /\ M \in Nat /\ M > 0 /\ w < M
  BY <1>2, <1>3
<1> HIDE DEF w, M
<1>6. w % M = w /\ (w - M) % M = w
  BY <1>5
<1> QED BY <1>4, <1>5, <1>6 DEF U32

\* The bytes of the word htonl makes of them, and what ntohl makes of it.
LEMMA HighBytes ==
  ASSUME NEW q \in 0..(Base - 1), NEW r \in 0..(Base - 1)
  PROVE  LET w == Word32(r, q, 0, 0) IN
         /\ Low(w) = 0 /\ Low(Shift(w)) = 0 /\ Low(Shift(Shift(w))) = q
         /\ Shift(Shift(Shift(w))) = r
         /\ Swap32(w) = q * Base + r
<1> DEFINE x == r * Base + q
           y == x * Base + 0
           w == y * Base + 0
<1>1. x \in Nat /\ y \in Nat /\ w \in Nat /\ 0 \in 0..(Base - 1) /\ r \in Nat
  BY BaseAssumption
<1>2. Shift(w) = y /\ Low(w) = 0
  BY <1>1, LowByte
<1>3. Shift(y) = x /\ Low(y) = 0
  BY <1>1, LowByte
<1>4. Shift(x) = r /\ Low(x) = q
  BY <1>1, LowByte
<1>5. w = Word32(r, q, 0, 0)
  BY DEF Word32
<1> HIDE DEF x, y, w
<1>6. /\ Low(w) = 0 /\ Low(Shift(w)) = 0 /\ Low(Shift(Shift(w))) = q
      /\ Shift(Shift(Shift(w))) = r
  BY <1>2, <1>3, <1>4, Zenon
<1>7. Swap32(w) = Word32(0, 0, q, r)
  BY <1>6, Zenon DEF Swap32
<1>8. Word32(0, 0, q, r) = q * Base + r
  BY <1>1, BaseAssumption DEF Word32
<1> QED BY <1>5, <1>6, <1>7, <1>8

\* A length below SignLimit is read as it was written.
LEMMA LengthRead ==
  ASSUME NEW n \in 0..(SignLimit - 1)
  PROVE  GetLength(PutLength(n)) = n
<1>1. PICK q, r \in 0..(Base - 1) : n = q * Base + r /\ 2 * q < Base
  BY LowHalf
<1> DEFINE w == Word32(r, q, 0, 0)
<1>2. U32(n) = n
  <2>1. 0 \in 0..(Base - 1)
    BY BaseAssumption
  <2> QED BY <1>1, <2>1, SmallFits
<1>3. Swap32(U32(n)) = w
  BY <1>1, <1>2, SwapLow
<1>4. /\ Low(w) = 0 /\ Low(Shift(w)) = 0 /\ Low(Shift(Shift(w))) = q
      /\ Shift(Shift(Shift(w))) = r
      /\ Swap32(w) = q * Base + r
  BY <1>1, HighBytes
<1> HIDE DEF w
<1>5. PutLength(n) = <<r, q, 0, 0>>
  BY <1>3, <1>4 DEF PutLength
<1>6. SignedChar(q) = q /\ SignedChar(0) = 0 /\ (SignedChar(r) = r \/ SignedChar(r) = r - Base)
  BY <1>1, BaseAssumption DEF SignedChar
<1>7. U32(Word32(SignedChar(r), SignedChar(q), SignedChar(0), SignedChar(0))) = w
  BY <1>1, <1>6, WordFits DEF w
<1>8. GetLength(<<r, q, 0, 0>>) = Swap32(w)
  BY <1>7 DEF GetLength
<1> QED BY <1>1, <1>4, <1>5, <1>8

-----------------------------------------------------------------------------
(* The whole message *)

\* The three flags are told apart whichever are set.
LEMMA FlagsRead ==
  ASSUME NEW m \in Message
  PROVE  /\ HasBit(Flags(m), 1) = m.isAuthentication
         /\ HasBit(Flags(m), 2) = m.isElev
         /\ HasBit(Flags(m), 4) = m.isError
<1> DEFINE a == m.isAuthentication
           e == m.isElev
           r == m.isError
<1>1. a \in BOOLEAN /\ e \in BOOLEAN /\ r \in BOOLEAN
  BY DEF Message
<1>2. Flags(m) = Bit(a, 1) + Bit(e, 2) + Bit(r, 4)
  BY DEF Flags
<1> HIDE DEF a, e, r
<1>3. \A x, y, z \in {0, 1} : /\ ((x + 2 * y + 4 * z) \div 1) % 2 = x
                              /\ ((x + 2 * y + 4 * z) \div 2) % 2 = y
                              /\ ((x + 2 * y + 4 * z) \div 4) % 2 = z
  OBVIOUS
<1> DEFINE x == Bit(a, 1)
           y == Bit(e, 1)
           z == Bit(r, 1)
<1>4. /\ x \in {0, 1} /\ (x = 1 <=> a)
      /\ y \in {0, 1} /\ (y = 1 <=> e)
      /\ z \in {0, 1} /\ (z = 1 <=> r)
  BY DEF Bit
<1>5. Bit(e, 2) = 2 * y /\ Bit(r, 4) = 4 * z
  BY DEF Bit
<1> HIDE DEF x, y, z
<1>6. Flags(m) = x + 2 * y + 4 * z
  BY <1>2, <1>5 DEF x
<1>7. /\ HasBit(Flags(m), 1) <=> x = 1
      /\ HasBit(Flags(m), 2) <=> y = 1
      /\ HasBit(Flags(m), 4) <=> z = 1
  BY <1>3, <1>4, <1>6 DEF HasBit
<1>8. /\ HasBit(Flags(m), 1) <=> a
      /\ HasBit(Flags(m), 2) <=> e
      /\ HasBit(Flags(m), 4) <=> r
  BY <1>4, <1>7
<1> QED BY <1>1, <1>8, Zenon DEF a, e, r, HasBit

\* Two bytes or fields behind a sequence of known length stand behind it.
LEMMA PairBehind ==
  ASSUME NEW X, NEW s \in Seq(X), NEW a \in X, NEW b \in X, NEW e, e = s \o <<a, b>>
  PROVE  /\ e \in Seq(X)
         /\ Len(e) = Len(s) + 2
         /\ \A i \in 1..Len(s) : e[i] = s[i]
         /\ e[Len(s) + 1] = a
         /\ e[Len(s) + 2] = b
<1>1. <<a, b>> \in Seq(X) /\ Len(<<a, b>>) = 2 /\ Len(s) \in Nat
  OBVIOUS
<1> QED BY <1>1, ConcatProperties

\* What follows a sequence is the rest behind its length.
LEMMA RestBehind ==
  ASSUME NEW X, NEW s \in Seq(X), NEW t \in Seq(X)
  PROVE  /\ Len(s \o t) = Len(s) + Len(t)
         /\ \A i \in 1..Len(s) : (s \o t)[i] = s[i]
         /\ SubSeq(s \o t, Len(s) + 1, Len(s \o t)) = t
<1>1. Len(s \o t) = Len(s) + Len(t) /\ s \o t \in Seq(X) /\ Len(s) \in Nat /\ Len(t) \in Nat
  OBVIOUS
<1>2. \A i \in 1..Len(s) : (s \o t)[i] = s[i]
  OBVIOUS
<1>3. \A i \in 1..Len(t) : (s \o t)[Len(s) + i] = t[i]
  OBVIOUS
<1>4. /\ SubSeq(s \o t, Len(s) + 1, Len(s \o t)) \in Seq(X)
      /\ Len(SubSeq(s \o t, Len(s) + 1, Len(s \o t))) = Len(t)
  BY <1>1
<1>5. \A i \in 1..Len(t) : SubSeq(s \o t, Len(s) + 1, Len(s \o t))[i] = t[i]
  BY <1>1, <1>3
<1>6. SubSeq(s \o t, Len(s) + 1, Len(s \o t)) = t
  BY <1>4, <1>5
<1> QED BY <1>1, <1>2, <1>6

\* A field of a message that is below SignLimit is read as it was written.
LEMMA FieldRead ==
  ASSUME NEW n \in Nat, n < SignLimit
  PROVE  PutU16(n) = <<PutU16(n)[1], PutU16(n)[2]>> /\ GetU16(PutU16(n)) = n
<1>1. SignLimit \in Nat
  BY BaseAssumption DEF SignLimit
<1>2. n \in 0..(SignLimit - 1)
  BY <1>1
<1>3. OnWire(n) = n
  BY <1>2, WireIdentity
<1> QED BY <1>3 DEF OnWire, PutU16

\* The fields stand where the constructor looks for them.
LEMMA Layout ==
  ASSUME NEW m \in Message, NEW e, e = Encode(m)
  PROVE  /\ Len(e) = HeaderLength + Len(m.body)
         /\ \A i \in 1..4 : e[i] = PutLength(HeaderLength + Len(m.body))[i]
         /\ e[5] = PutU16(m.seq)[1] /\ e[6] = PutU16(m.seq)[2]
         /\ e[7] = PutU16(m.ack)[1] /\ e[8] = PutU16(m.ack)[2]
         /\ e[9] = PutU16(m.elevId)[1] /\ e[10] = PutU16(m.elevId)[2]
         /\ e[11] = Flags(m) /\ e[12] = m.type /\ e[13] = m.command
         /\ SubSeq(e, 14, Len(e)) = m.body
<1> DEFINE L == PutLength(HeaderLength + Len(m.body))
           s1 == PutU16(m.seq)[1]
           s2 == PutU16(m.seq)[2]
           a1 == PutU16(m.ack)[1]
           a2 == PutU16(m.ack)[2]
           v1 == PutU16(m.elevId)[1]
           v2 == PutU16(m.elevId)[2]
           f == Flags(m)
           t == m.type
           c == m.command
           body == m.body
           X == STRING \cup {L[1], L[2], L[3], L[4], s1, s2, a1, a2, v1, v2, f, t, c}
           e1 == <<L[1], L[2], L[3], L[4]>>
           e2 == e1 \o <<s1, s2>>
           e3 == e2 \o <<a1, a2>>
           e4 == e3 \o <<v1, v2>>
           e5 == e4 \o <<f, t, c>>
<1>1. L = e1
  BY DEF PutLength
<1>2. /\ PutU16(m.seq) = <<s1, s2>> /\ PutU16(m.ack) = <<a1, a2>>
      /\ PutU16(m.elevId) = <<v1, v2>>
  BY DEF PutU16
<1>3. e = e5 \o body
  BY <1>1, <1>2 DEF Encode
<1>4. body \in Seq(STRING)
  BY DEF Message
<1>5. body \in Seq(X)
  BY <1>4
<1>6. /\ L[1] \in X /\ L[2] \in X /\ L[3] \in X /\ L[4] \in X
      /\ s1 \in X /\ s2 \in X /\ a1 \in X /\ a2 \in X /\ v1 \in X /\ v2 \in X
      /\ f \in X /\ t \in X /\ c \in X
  BY Zenon
<1> HIDE DEF X, L, s1, s2, a1, a2, v1, v2, f, t, c, body
<1>7. e1 \in Seq(X)
  BY <1>6
<1>8. Len(e1) = 4
  OBVIOUS
<1> HIDE DEF e1
<1>9. e2 \in Seq(X)
  BY <1>7, <1>6, PairBehind
<1>10. /\ Len(e2) = 6 /\ e2[5] = s1 /\ e2[6] = s2
      /\ \A i \in 1..4 : e2[i] = e1[i]
  <2>1. e2 = e1 \o <<s1, s2>>
    OBVIOUS
  <2> HIDE DEF e2
  <2>2. Len(e2) = Len(e1) + 2
    BY <2>1, <1>7, <1>6, PairBehind
  <2>3. \A i \in 1..Len(e1) : e2[i] = e1[i]
    BY <2>1, <1>7, <1>6, PairBehind
  <2>4. e2[Len(e1) + 1] = s1
    BY <2>1, <1>7, <1>6, PairBehind
  <2>5. e2[Len(e1) + 2] = s2
    BY <2>1, <1>7, <1>6, PairBehind
  <2>6. Len(e1) = 4 /\ Len(e1) + 1 = 5 /\ Len(e1) + 2 = 6
    BY <1>8
  <2> QED BY <2>2, <2>3, <2>4, <2>5, <2>6, Zenon
<1> HIDE DEF e2
<1>11. e3 \in Seq(X)
  BY <1>9, <1>6, PairBehind
<1>12. /\ Len(e3) = 8 /\ e3[7] = a1 /\ e3[8] = a2
      /\ \A i \in 1..6 : e3[i] = e2[i]
  <2>1. e3 = e2 \o <<a1, a2>>
    OBVIOUS
  <2> HIDE DEF e3
  <2>2. Len(e3) = Len(e2) + 2
    BY <2>1, <1>9, <1>6, PairBehind
  <2>3. \A i \in 1..Len(e2) : e3[i] = e2[i]
    BY <2>1, <1>9, <1>6, PairBehind
  <2>4. e3[Len(e2) + 1] = a1
    BY <2>1, <1>9, <1>6, PairBehind
  <2>5. e3[Len(e2) + 2] = a2
    BY <2>1, <1>9, <1>6, PairBehind
  <2>6. Len(e2) = 6 /\ Len(e2) + 1 = 7 /\ Len(e2) + 2 = 8
    BY <1>10
  <2> QED BY <2>2, <2>3, <2>4, <2>5, <2>6, Zenon
<1> HIDE DEF e3
<1>13. e4 \in Seq(X)
  BY <1>11, <1>6, PairBehind
<1>14. /\ Len(e4) = 10 /\ e4[9] = v1 /\ e4[10] = v2
      /\ \A i \in 1..8 : e4[i] = e3[i]
  <2>1. e4 = e3 \o <<v1, v2>>
    OBVIOUS
  <2> HIDE DEF e4
  <2>2. Len(e4) = Len(e3) + 2
    BY <2>1, <1>11, <1>6, PairBehind
  <2>3. \A i \in 1..Len(e3) : e4[i] = e3[i]
    BY <2>1, <1>11, <1>6, PairBehind
  <2>4. e4[Len(e3) + 1] = v1
    BY <2>1, <1>11, <1>6, PairBehind
  <2>5. e4[Len(e3) + 2] = v2
    BY <2>1, <1>11, <1>6, PairBehind
  <2>6. Len(e3) = 8 /\ Len(e3) + 1 = 9 /\ Len(e3) + 2 = 10
    BY <1>12
  <2> QED BY <2>2, <2>3, <2>4, <2>5, <2>6, Zenon
<1> HIDE DEF e4
<1>15. /\ e5 \in Seq(X) /\ Len(e5) = 13 /\ e5[11] = f /\ e5[12] = t /\ e5[13] = c
      /\ \A i \in 1..10 : e5[i] = e4[i]
  <2>1. <<f, t, c>> \in Seq(X) /\ Len(<<f, t, c>>) = 3
    BY <1>6
  <2> DEFINE w == <<f, t, c>>
  <2>2. w[1] = f /\ w[2] = t /\ w[3] = c /\ w \in Seq(X) /\ Len(w) = 3
    BY <2>1
  <2> HIDE DEF w
  <2>3. /\ e4 \o w \in Seq(X) /\ Len(e4 \o w) = Len(e4) + Len(w)
        /\ \A i \in 1..(Len(e4) + Len(w)) :
             (e4 \o w)[i] = IF i <= Len(e4) THEN e4[i] ELSE w[i - Len(e4)]
    BY <1>13, <2>2, ConcatProperties, Zenon
  <2>4. Len(e4) = 10 /\ Len(w) = 3 /\ Len(e4) + Len(w) = 13
    BY <1>14, <2>2
  <2>5. /\ e4 \o w \in Seq(X) /\ Len(e4 \o w) = 13
        /\ \A i \in 1..13 : (e4 \o w)[i] = IF i <= 10 THEN e4[i] ELSE w[i - 10]
    BY <2>3, <2>4, Zenon
  <2>6. /\ 11 \in 1..13 /\ ~(11 <= 10) /\ 11 - 10 = 1
        /\ 12 \in 1..13 /\ ~(12 <= 10) /\ 12 - 10 = 2
        /\ 13 \in 1..13 /\ ~(13 <= 10) /\ 13 - 10 = 3
    OBVIOUS
  <2>7. (e4 \o w)[11] = f /\ (e4 \o w)[12] = t /\ (e4 \o w)[13] = c
    BY <2>2, <2>5, <2>6, Zenon
  <2>8. \A i \in 1..10 : i \in 1..13 /\ i <= 10
    OBVIOUS
  <2>9. \A i \in 1..10 : (e4 \o w)[i] = e4[i]
    BY <2>5, <2>8, Zenon
  <2> QED BY <2>5, <2>7, <2>9, Zenon DEF w
<1> HIDE DEF e5
<1>16. /\ \A i \in 1..13 : e[i] = e5[i]
       /\ SubSeq(e, 14, Len(e)) = body
       /\ Len(e) = 13 + Len(body)
  <2>1. e5 \in Seq(X)
    BY <1>15
  <2>2. \A i \in 1..Len(e5) : e[i] = e5[i]
    BY <2>1, <1>3, <1>5, RestBehind
  <2>3. SubSeq(e, Len(e5) + 1, Len(e)) = body
    BY <2>1, <1>3, <1>5, RestBehind
  <2>4. Len(e5) = 13 /\ Len(e5) + 1 = 14
    BY <1>15
  <2>5. Len(e) = Len(e5) + Len(body)
    BY <2>1, <1>3, <1>5, RestBehind
  <2> QED BY <2>2, <2>3, <2>4, <2>5, Zenon
<1>17. /\ e[5] = s1 /\ e[6] = s2 /\ e[7] = a1 /\ e[8] = a2 /\ e[9] = v1 /\ e[10] = v2
       /\ e[11] = f /\ e[12] = t /\ e[13] = c
       /\ SubSeq(e, 14, Len(e)) = body
  BY <1>10, <1>12, <1>14, <1>15, <1>16
<1>18. \A i \in 1..4 : e[i] = L[i]
  <2>1. \A i \in 1..4 : e[i] = e1[i]
    <3> SUFFICES ASSUME NEW i \in 1..4 PROVE e[i] = e1[i]
      OBVIOUS
    <3>1. i \in 1..6 /\ i \in 1..8 /\ i \in 1..10 /\ i \in 1..13
      OBVIOUS
    <3>2. e[i] = e5[i] /\ e5[i] = e4[i]
      BY <1>15, <1>16, <3>1, Zenon
    <3>3. e4[i] = e3[i] /\ e3[i] = e2[i] /\ e2[i] = e1[i]
      BY <1>10, <1>12, <1>14, <3>1, Zenon
    <3> QED BY <3>2, <3>3, Zenon
  <2> QED BY <1>1, <2>1, Zenon
<1>19. Len(e) = 13 + Len(body)
  BY <1>16
<1> QED BY <1>17, <1>18, <1>19, Zenon DEF s1, s2, a1, a2, v1, v2, f, t, c, body, L, HeaderLength

\* convertToTransferableMessage and ProtocolMessage(string) are inverses: every
\* field of a message arrives as it was, while its three numbers are below
\* SignLimit, whatever its flags, type, command and body.
THEOREM MessageRoundTrip ==
  ASSUME NEW m \in Message,
         m.seq < SignLimit, m.ack < SignLimit, m.elevId < SignLimit
  PROVE  Decode(Encode(m)) = m
<1> DEFINE e == Encode(m)
<1>1. /\ PutU16(m.seq) = <<PutU16(m.seq)[1], PutU16(m.seq)[2]>> /\ GetU16(PutU16(m.seq)) = m.seq
      /\ PutU16(m.ack) = <<PutU16(m.ack)[1], PutU16(m.ack)[2]>> /\ GetU16(PutU16(m.ack)) = m.ack
      /\ PutU16(m.elevId) = <<PutU16(m.elevId)[1], PutU16(m.elevId)[2]>>
      /\ GetU16(PutU16(m.elevId)) = m.elevId
  BY FieldRead DEF Message
<1> HIDE DEF e
<1>2. /\ e[5] = PutU16(m.seq)[1] /\ e[6] = PutU16(m.seq)[2]
      /\ e[7] = PutU16(m.ack)[1] /\ e[8] = PutU16(m.ack)[2]
      /\ e[9] = PutU16(m.elevId)[1] /\ e[10] = PutU16(m.elevId)[2]
      /\ e[11] = Flags(m) /\ e[12] = m.type /\ e[13] = m.command
      /\ SubSeq(e, 14, Len(e)) = m.body
  BY Layout, Zenon DEF e
<1>3. m.type \in TypeNumbers /\ m.command \in CommandNumbers
  BY DEF Message
<1>4. Decode(e) =
        [seq |-> m.seq, ack |-> m.ack, elevId |-> m.elevId,
         isAuthentication |-> m.isAuthentication, isElev |-> m.isElev,
         isError |-> m.isError, type |-> m.type, command |-> m.command, body |-> m.body]
  <2>1. /\ GetU16(<<e[5], e[6]>>) = m.seq /\ GetU16(<<e[7], e[8]>>) = m.ack
        /\ GetU16(<<e[9], e[10]>>) = m.elevId
    BY <1>1, <1>2
  <2>2. /\ HasBit(e[11], 1) = m.isAuthentication /\ HasBit(e[11], 2) = m.isElev
        /\ HasBit(e[11], 4) = m.isError
    BY <1>2, FlagsRead
  <2>3. HeaderLength + 1 = 14
    BY DEF HeaderLength
  <2> QED BY <2>1, <2>2, <2>3, <1>2, <1>3 DEF Decode
<1> QED BY <1>4 DEF Message, e

\* Of a message of any number the type, the command and the body arrive.
LEMMA DecodedFields ==
  ASSUME NEW m \in Message, NEW d, d = Decode(Encode(m))
  PROVE  /\ d.seq = OnWire(m.seq) /\ d.type = m.type /\ d.command = m.command
         /\ d.body = m.body
<1> DEFINE e == Encode(m)
<1> HIDE DEF e
<1>1. /\ e[5] = PutU16(m.seq)[1] /\ e[6] = PutU16(m.seq)[2]
      /\ e[12] = m.type /\ e[13] = m.command /\ SubSeq(e, 14, Len(e)) = m.body
  BY Layout, Zenon DEF e
<1>2. PutU16(m.seq) = <<PutU16(m.seq)[1], PutU16(m.seq)[2]>>
  BY DEF PutU16
<1>3. <<e[5], e[6]>> = PutU16(m.seq)
  BY <1>1, <1>2, Zenon
<1>4. m.type \in TypeNumbers /\ m.command \in CommandNumbers
  BY DEF Message
<1>5. Decode(e) =
        [seq |-> GetU16(<<e[5], e[6]>>), ack |-> GetU16(<<e[7], e[8]>>),
         elevId |-> GetU16(<<e[9], e[10]>>), isAuthentication |-> HasBit(e[11], 1),
         isElev |-> HasBit(e[11], 2), isError |-> HasBit(e[11], 4),
         type |-> m.type, command |-> m.command, body |-> m.body]
  <2>1. HeaderLength + 1 = 14
    BY DEF HeaderLength
  <2> QED BY <2>1, <1>1, <1>4 DEF Decode
<1>6. d.seq = GetU16(<<e[5], e[6]>>) /\ d.type = m.type /\ d.command = m.command
      /\ d.body = m.body
  BY <1>5 DEF e
<1> QED BY <1>3, <1>6, Zenon DEF OnWire

\* The length at its head is that of the message, while it is below SignLimit.
LEMMA LengthIsRead ==
  ASSUME NEW m \in Message, HeaderLength + Len(m.body) < SignLimit
  PROVE  GetLength(Encode(m)) = Len(Encode(m))
<1> DEFINE e == Encode(m)
           n == HeaderLength + Len(m.body)
<1>1. Len(e) = n /\ \A i \in 1..4 : e[i] = PutLength(n)[i]
  BY Layout
<1>2. n \in 0..(SignLimit - 1)
  <2>1. m.body \in Seq(STRING)
    BY DEF Message
  <2>2. Len(m.body) \in Nat
    BY <2>1, LenProperties
  <2>3. SignLimit \in Nat
    BY BaseAssumption DEF SignLimit
  <2> QED BY <2>2, <2>3 DEF HeaderLength
<1> HIDE DEF e, n
<1>3. GetLength(PutLength(n)) = n
  BY <1>2, LengthRead
<1>4. e[1] = PutLength(n)[1] /\ e[2] = PutLength(n)[2] /\ e[3] = PutLength(n)[3]
      /\ e[4] = PutLength(n)[4]
  BY <1>1
<1>5. GetLength(e) = GetLength(PutLength(n))
  BY <1>4, Zenon DEF GetLength
<1> QED BY <1>1, <1>3, <1>5 DEF e

=============================================================================
