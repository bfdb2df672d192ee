---------------------------- MODULE ConsoleProofs ----------------------------
(***************************************************************************)
(* That the properties of ConsoleProperties hold for every set of lines,   *)
(* files, records and hosts, whatever the bounds on what is typed.         *)
(*                                                                         *)
(* Three invariants carry them: what became of the messages that were sent *)
(* (Delivered), which file each loop of the stack reads and who named it   *)
(* (Followed), and which lines the stack has still to hand out (Owed).     *)
(***************************************************************************)
EXTENDS ConsoleProperties, ProtocolMessageProofs, SequenceTheorems, FiniteSetTheorems,
        WellFoundedInduction, TLAPS

LineSeq == Seq(Seq(STRING))

\* The domains of the variables.
TypeOK ==
  /\ stack \in [Threads -> Seq(LineSeq)]
  /\ given \in [Threads -> LineSeq]
  /\ handled \in [Threads -> LineSeq]
  /\ input \in {"open", "ended"}
  /\ input = "ended" => given[Terminal] # <<>>
  /\ up \in {"running", "exited", "overflowed"}
  /\ seqNum \in [Hosts -> Nat \ {0}]

-----------------------------------------------------------------------------
(* What the agent runs for a message *)

\* The words that a command line starts with.
Opening(type, command) ==
  LET verb(add, remove) == IF command = CommandNumber.Add THEN add ELSE remove IN
  CASE type = TypeNumber.IP           -> <<"ip", "-6", "address", verb("add", "del")>>
    [] type = TypeNumber.NAT          -> <<"ip6tables", "-t", "nat", verb("-I", "-D")>>
    [] type = TypeNumber.Firewall     -> <<"ip6tables", verb("-I", "-D")>>
    [] type = TypeNumber.Neighbor     -> <<"ip", "-6", "neigh", verb("add", "del")>>
    [] type = TypeNumber.RoutingTable -> <<"Table", verb("add", "remove")>>
    [] type = TypeNumber.Rule         -> <<"ip", "-6", "rule", verb("add", "del")>>
    [] type = TypeNumber.Route        -> <<"ip", "-6", "route", verb("add", "del")>>
    [] OTHER                          -> <<>>

\* The words behind them.
Object(type, body) ==
  CASE type = TypeNumber.IP       -> Word(body, 1) \o <<"dev">> \o Word(body, 2)
    [] type = TypeNumber.Neighbor -> Word(body, 1) \o <<"lladdr">> \o Word(body, 2)
                                       \o <<"dev">> \o Word(body, 3)
    [] OTHER                      -> body

\* The numbers of enum type.
LEMMA Numbers ==
  /\ TypeNumber.NoType = 0 /\ TypeNumber.IP = 1 /\ TypeNumber.NAT = 2
  /\ TypeNumber.Firewall = 3 /\ TypeNumber.Neighbor = 4 /\ TypeNumber.RoutingTable = 5
  /\ TypeNumber.Route = 6 /\ TypeNumber.Rule = 7
  /\ CommandNumber.Show = 1 /\ CommandNumber.Add = 2 /\ CommandNumber.Remove = 3
  /\ CommandNumber.Retry = 4 /\ CommandNumber.Drop = 5
BY DEF TypeNumber, CommandNumber

\* The command lines of add and remove have the same two parts.
LEMMA OperationParts ==
  ASSUME NEW m, m.type \in 1..7, m.command \in {CommandNumber.Add, CommandNumber.Remove},
         m.body \in Seq(STRING)
  PROVE  Operation(m) = Opening(m.type, m.command) \o Object(m.type, m.body)
<1> DEFINE c == m.command
           b == m.body
<1>1. c = 2 \/ c = 3
  BY Numbers
<1>2. 2 # 1 /\ 3 # 1 /\ 3 # 2
  OBVIOUS
<1>3. CASE m.type = 1
  <2> DEFINE object == Word(b, 1) \o <<"dev">> \o Word(b, 2)
  <2>1. Operation(m) = IPv6(c, b)
    BY <1>3, Numbers DEF Operation
  <2>2. IPv6(2, b) = <<"ip", "-6", "address", "add">> \o object
    BY <1>2, Numbers DEF IPv6
  <2>3. IPv6(3, b) = <<"ip", "-6", "address", "del">> \o object
    BY <1>2, Numbers DEF IPv6
  <2>4. Opening(1, 2) = <<"ip", "-6", "address", "add">> /\ Opening(1, 3) = <<"ip", "-6", "address", "del">>
    BY Numbers DEF Opening
  <2>5. Object(1, b) = object
    BY Numbers DEF Object
  <2> QED BY <1>1, <1>3, <2>1, <2>2, <2>3, <2>4, <2>5, Zenon
<1>4. CASE m.type = 2
  <2>1. Operation(m) = NAT(c, b)
    BY <1>4, Numbers DEF Operation
  <2>2. NAT(2, b) = <<"ip6tables", "-t", "nat", "-I">> \o b
    BY <1>2, Numbers DEF NAT
  <2>3. NAT(3, b) = <<"ip6tables", "-t", "nat", "-D">> \o b
    BY <1>2, Numbers DEF NAT
  <2>4. Opening(2, 2) = <<"ip6tables", "-t", "nat", "-I">> /\ Opening(2, 3) = <<"ip6tables", "-t", "nat", "-D">>
    BY Numbers DEF Opening
  <2>5. Object(2, b) = b
    BY Numbers DEF Object
  <2> QED BY <1>1, <1>4, <2>1, <2>2, <2>3, <2>4, <2>5, Zenon
<1>5. CASE m.type = 3
  <2>1. Operation(m) = Firewall(c, b)
    BY <1>5, Numbers DEF Operation
  <2>2. Firewall(2, b) = <<"ip6tables", "-I">> \o b
    BY <1>2, Numbers DEF Firewall
  <2>3. Firewall(3, b) = <<"ip6tables", "-D">> \o b
    BY <1>2, Numbers DEF Firewall
  <2>4. Opening(3, 2) = <<"ip6tables", "-I">> /\ Opening(3, 3) = <<"ip6tables", "-D">>
    BY Numbers DEF Opening
  <2>5. Object(3, b) = b
    BY Numbers DEF Object
  <2> QED BY <1>1, <1>5, <2>1, <2>2, <2>3, <2>4, <2>5, Zenon
<1>6. CASE m.type = 4
  <2> DEFINE object == Word(b, 1) \o <<"lladdr">> \o Word(b, 2) \o <<"dev">> \o Word(b, 3)
  <2>1. Operation(m) = Neighbor(c, b)
    BY <1>6, Numbers DEF Operation
  <2>2. Neighbor(2, b) = <<"ip", "-6", "neigh", "add">> \o object
    BY <1>2, Numbers DEF Neighbor
  <2>3. Neighbor(3, b) = <<"ip", "-6", "neigh", "del">> \o object
    BY <1>2, Numbers DEF Neighbor
  <2>4. Opening(4, 2) = <<"ip", "-6", "neigh", "add">> /\ Opening(4, 3) = <<"ip", "-6", "neigh", "del">>
    BY Numbers DEF Opening
  <2>5. Object(4, b) = object
    BY Numbers DEF Object
  <2> QED BY <1>1, <1>6, <2>1, <2>2, <2>3, <2>4, <2>5, Zenon
<1>7. CASE m.type = 5
  <2>1. Operation(m) = RoutingTable(c, b)
    BY <1>7, Numbers DEF Operation
  <2>2. RoutingTable(2, b) = <<"Table", "add">> \o b
    BY <1>2, Numbers DEF RoutingTable
  <2>3. RoutingTable(3, b) = <<"Table", "remove">> \o b
    BY <1>2, Numbers DEF RoutingTable
  <2>4. Opening(5, 2) = <<"Table", "add">> /\ Opening(5, 3) = <<"Table", "remove">>
    BY Numbers DEF Opening
  <2>5. Object(5, b) = b
    BY Numbers DEF Object
  <2> QED BY <1>1, <1>7, <2>1, <2>2, <2>3, <2>4, <2>5, Zenon
<1>8. CASE m.type = 6
  <2>1. Operation(m) = Route(c, b)
    BY <1>8, Numbers DEF Operation
  <2>2. Route(2, b) = <<"ip", "-6", "route", "add">> \o b
    BY <1>2, Numbers DEF Route
  <2>3. Route(3, b) = <<"ip", "-6", "route", "del">> \o b
    BY <1>2, Numbers DEF Route
  <2>4. Opening(6, 2) = <<"ip", "-6", "route", "add">> /\ Opening(6, 3) = <<"ip", "-6", "route", "del">>
    BY Numbers DEF Opening
  <2>5. Object(6, b) = b
    BY Numbers DEF Object
  <2> QED BY <1>1, <1>8, <2>1, <2>2, <2>3, <2>4, <2>5, Zenon
<1>9. CASE m.type = 7
  <2>1. Operation(m) = Rule(c, b)
    BY <1>9, Numbers DEF Operation
  <2>2. Rule(2, b) = <<"ip", "-6", "rule", "add">> \o b
    BY <1>2, Numbers DEF Rule
  <2>3. Rule(3, b) = <<"ip", "-6", "rule", "del">> \o b
    BY <1>2, Numbers DEF Rule
  <2>4. Opening(7, 2) = <<"ip", "-6", "rule", "add">> /\ Opening(7, 3) = <<"ip", "-6", "rule", "del">>
    BY Numbers DEF Opening
  <2>5. Object(7, b) = b
    BY Numbers DEF Object
  <2> QED BY <1>1, <1>9, <2>1, <2>2, <2>3, <2>4, <2>5, Zenon
<1> QED BY <1>3, <1>4, <1>5, <1>6, <1>7, <1>8, <1>9
-----------------------------------------------------------------------------
(* Words that are kept *)

\* As in WordsAreKept: the words stand in ran, in their order, and what else stands
\* there are words of the handlers.
Kept(words, ran) ==
  \E at \in [DOMAIN words -> DOMAIN ran] :
    /\ \A j \in DOMAIN words : ran[at[j]] = words[j]
    /\ \A j, k \in DOMAIN words : j < k => at[j] < at[k]
    /\ \A k \in DOMAIN ran \ Range(at) : ran[k] \in OwnWords

LEMMA OwnAlone ==
  ASSUME NEW own \in Seq(OwnWords)
  PROVE  Kept(<<>>, own)
<1> DEFINE at == [j \in {} |-> 1]
<1>1. DOMAIN <<>> = {} /\ at \in [{} -> DOMAIN own]
  OBVIOUS
<1>2. \A k \in DOMAIN own : own[k] \in OwnWords
  BY LenProperties, ElementOfSeq
<1> QED BY <1>1, <1>2 DEF Kept

LEMMA AllAlone ==
  ASSUME NEW X, NEW words \in Seq(X)
  PROVE  Kept(words, words)
<1> DEFINE at == [j \in DOMAIN words |-> j]
<1>1. at \in [DOMAIN words -> DOMAIN words] /\ DOMAIN words \ Range(at) = {}
  BY DEF Range
<1>2. \A j \in DOMAIN words : at[j] = j
  OBVIOUS
<1> HIDE DEF at
<1>3. \A j, k \in DOMAIN words : j < k => at[j] < at[k]
  BY <1>2
<1> QED BY <1>1, <1>2, <1>3 DEF Kept

\* What is kept in two parts is kept in the whole.
LEMMA KeptBehind ==
  ASSUME NEW X, NEW v \in Seq(X), NEW w \in Seq(X),
         NEW p \in Seq(X), NEW r \in Seq(X), Kept(v, p), Kept(w, r)
  PROVE  Kept(v \o w, p \o r)
<1> DEFINE n == Len(v)
           m == Len(w)
           a == Len(p)
           b == Len(r)
           vw == v \o w
           pr == p \o r
<1>1. /\ n \in Nat /\ m \in Nat /\ a \in Nat /\ b \in Nat
      /\ DOMAIN v = 1..n /\ DOMAIN w = 1..m /\ DOMAIN p = 1..a /\ DOMAIN r = 1..b
  BY LenProperties
<1>2. /\ DOMAIN vw = 1..(n + m)
      /\ \A j \in 1..(n + m) : vw[j] = IF j <= n THEN v[j] ELSE w[j - n]
  BY ConcatProperties, LenProperties, <1>1
<1>3. /\ DOMAIN pr = 1..(a + b)
      /\ \A j \in 1..(a + b) : pr[j] = IF j <= a THEN p[j] ELSE r[j - a]
  BY ConcatProperties, LenProperties, <1>1
<1>4. PICK at \in [1..n -> 1..a] :
        /\ \A j \in 1..n : p[at[j]] = v[j]
        /\ \A j, k \in 1..n : j < k => at[j] < at[k]
        /\ \A k \in 1..a \ Range(at) : p[k] \in OwnWords
  BY <1>1 DEF Kept
<1>5. PICK au \in [1..m -> 1..b] :
        /\ \A j \in 1..m : r[au[j]] = w[j]
        /\ \A j, k \in 1..m : j < k => au[j] < au[k]
        /\ \A k \in 1..b \ Range(au) : r[k] \in OwnWords
  BY <1>1 DEF Kept
<1> HIDE DEF n, m, a, b, vw, pr
<1> DEFINE both == [j \in 1..(n + m) |-> IF j <= n THEN at[j] ELSE a + au[j - n]]
<1>6. \A j \in 1..(n + m) :
        \/ j \in 1..n /\ both[j] = at[j] /\ at[j] \in 1..a /\ j <= n
        \/ j - n \in 1..m /\ both[j] = a + au[j - n] /\ ~(j <= n) /\ au[j - n] \in 1..b
  BY <1>1
<1>7. both \in [1..(n + m) -> 1..(a + b)]
  <2>1. \A j \in 1..(n + m) : both[j] \in 1..(a + b)
    BY <1>6, <1>1
  <2> QED BY <2>1
<1>8. \A j \in 1..n : j \in 1..(n + m) /\ both[j] = at[j]
  BY <1>1
<1>9. \A j \in 1..m : n + j \in 1..(n + m) /\ both[n + j] = a + au[j]
  BY <1>1
<1>10. DOMAIN both = 1..(n + m)
  OBVIOUS
<1> HIDE DEF both
<1>11. ASSUME NEW j \in 1..(n + m) PROVE pr[both[j]] = vw[j]
  <2>1. CASE j \in 1..n /\ both[j] = at[j] /\ at[j] \in 1..a /\ j <= n
    <3>1. at[j] \in 1..(a + b) /\ at[j] <= a
      BY <2>1, <1>1
    <3>2. pr[both[j]] = p[at[j]] /\ vw[j] = v[j]
      BY <3>1, <2>1, <1>2, <1>3
    <3> QED BY <3>2, <2>1, <1>4
  <2>2. CASE j - n \in 1..m /\ both[j] = a + au[j - n] /\ ~(j <= n) /\ au[j - n] \in 1..b
    <3>1. both[j] \in 1..(a + b) /\ ~(both[j] <= a) /\ both[j] - a = au[j - n]
      BY <2>2, <1>1
    <3>2. pr[both[j]] = r[au[j - n]] /\ vw[j] = w[j - n]
      BY <3>1, <2>2, <1>2, <1>3
    <3> QED BY <3>2, <2>2, <1>5
  <2> QED BY <2>1, <2>2, <1>6
<1>12. ASSUME NEW j \in 1..(n + m), NEW k \in 1..(n + m), j < k PROVE both[j] < both[k]
  <2>1. CASE k <= n
    BY <2>1, <1>4, <1>6, <1>12, <1>1
  <2>2. CASE j <= n /\ ~(k <= n)
    BY <2>2, <1>6, <1>1
  <2>3. CASE ~(j <= n)
    <3>1. /\ j - n \in 1..m /\ both[j] = a + au[j - n] /\ au[j - n] \in 1..b
          /\ k - n \in 1..m /\ both[k] = a + au[k - n] /\ au[k - n] \in 1..b
          /\ j - n < k - n
      BY <2>3, <1>6, <1>12, <1>1
    <3>2. au[j - n] < au[k - n]
      BY <3>1, <1>5
    <3> QED BY <3>1, <3>2, <1>1
  <2> QED BY <2>1, <2>2, <2>3
<1>13. ASSUME NEW k \in 1..(a + b) \ Range(both) PROVE pr[k] \in OwnWords
  <2>1. CASE k <= a
    <3>1. k \in 1..a /\ pr[k] = p[k]
      BY <2>1, <1>1, <1>3
    <3>2. k \notin Range(at)
      <4> SUFFICES ASSUME NEW j \in 1..n, at[j] = k PROVE FALSE
        BY DEF Range
      <4> QED BY <1>8, <1>10 DEF Range
    <3> QED BY <3>1, <3>2, <1>4
  <2>2. CASE ~(k <= a)
    <3>1. k - a \in 1..b /\ pr[k] = r[k - a]
      BY <2>2, <1>1, <1>3
    <3>2. k - a \notin Range(au)
      <4> SUFFICES ASSUME NEW j \in 1..m, au[j] = k - a PROVE FALSE
        BY DEF Range
      <4>1. a + au[j] = k
        BY <1>1
      <4> QED BY <4>1, <1>9, <1>10 DEF Range
    <3> QED BY <3>1, <3>2, <1>5
  <2> QED BY <2>1, <2>2
<1>14. /\ both \in [DOMAIN vw -> DOMAIN pr]
       /\ \A j \in DOMAIN vw : pr[both[j]] = vw[j]
       /\ \A j, k \in DOMAIN vw : j < k => both[j] < both[k]
       /\ \A k \in DOMAIN pr \ Range(both) : pr[k] \in OwnWords
  BY <1>7, <1>11, <1>12, <1>13, <1>2, <1>3
<1>15. Kept(vw, pr)
  BY <1>14 DEF Kept
<1> QED BY <1>15 DEF vw, pr

-----------------------------------------------------------------------------
(* Words of a body *)

\* The first n words, or as many as there are.
First(body, n) == SubSeq(body, 1, IF n < Len(body) THEN n ELSE Len(body))

\* iss >> word reads them one by one.
LEMMA NextWord ==
  ASSUME NEW body \in Seq(STRING), NEW n \in Nat
  PROVE  /\ Word(body, n + 1) \in Seq(STRING) /\ First(body, n) \in Seq(STRING)
         /\ First(body, n) \o Word(body, n + 1) = First(body, n + 1)
<1>1. Len(body) \in Nat
  BY LenProperties
<1>2. CASE n < Len(body)
  <2>1. n + 1 \in 1..Len(body) /\ 1 \in 1..Len(body) /\ n + 1 \in 1..Len(body)
    BY <1>1, <1>2
  <2>2. Word(body, n + 1) = <<body[n + 1]>> /\ body[n + 1] \in STRING
    BY <2>1, ElementOfSeq DEF Word
  <2>3. First(body, n) = SubSeq(body, 1, n) /\ First(body, n + 1) = SubSeq(body, 1, n + 1)
    <3>1. n + 1 < Len(body) \/ n + 1 = Len(body)
      BY <1>1, <1>2
    <3> QED BY <3>1, <1>2 DEF First
  <2>4. SubSeq(body, 1, n + 1) = SubSeq(body, 1, n) \o <<body[n + 1]>>
    <3>1. SubSeq(body, 1, n + 1) = SubSeq(body, 1, n + 1 - 1) \o <<body[n + 1]>>
      BY <2>1, SubSeqRecursiveSecond
    <3> QED BY <3>1, n + 1 - 1 = n
  <2>5. <<body[n + 1]>> \in Seq(STRING)
    BY <2>2
  <2>6. SubSeq(body, 1, n) \in Seq(STRING)
    BY <1>1, <1>2, SubSeqProperties, ElementOfSeq
  <2> QED BY <2>2, <2>3, <2>4, <2>5, <2>6, Zenon
<1>3. CASE ~(n < Len(body))
  <2>1. Word(body, n + 1) = <<>>
    BY <1>1, <1>3 DEF Word
  <2>2. First(body, n) = body /\ First(body, n + 1) = body
    BY <1>1, <1>3, SubSeqFull DEF First
  <2>3. body \o <<>> = body /\ <<>> \in Seq(STRING)
    BY ConcatEmptySeq
  <2> QED BY <2>1, <2>2, <2>3, Zenon
<1> QED BY <1>2, <1>3

LEMMA NoWord ==
  ASSUME NEW body \in Seq(STRING)
  PROVE  First(body, 0) = <<>>
BY LenProperties, SubSeqEmpty DEF First

\* The words of command lines.
AnyWord == STRING \cup OwnWords

\* The words of a body that its type takes are kept, whatever their number.
LEMMA ObjectKept ==
  ASSUME NEW type \in 1..7, NEW body \in Seq(STRING)
  PROVE  /\ Object(type, body) \in Seq(AnyWord)
         /\ Taken(type, body) \in Seq(AnyWord)
         /\ Kept(Taken(type, body), Object(type, body))
<1> DEFINE a == Word(body, 1)
           b == Word(body, 2)
           c == Word(body, 3)
           dev == <<"dev">>
           lladdr == <<"lladdr">>
           empty == <<>>
<1>1. /\ a \in Seq(STRING) /\ b \in Seq(STRING) /\ c \in Seq(STRING)
      /\ a \in Seq(AnyWord) /\ b \in Seq(AnyWord) /\ c \in Seq(AnyWord)
      /\ body \in Seq(AnyWord)
  <2>1. STRING \subseteq AnyWord
    BY DEF AnyWord
  <2>2. a \in Seq(STRING) /\ b \in Seq(STRING) /\ c \in Seq(STRING)
    BY NextWord, 0 + 1 = 1, 1 + 1 = 2, 2 + 1 = 3
  <2> HIDE DEF a, b, c
  <2> QED BY <2>1, <2>2, SeqMonotonic
<1>2. First(body, 2) = a \o b /\ First(body, 3) = a \o b \o c
  <2>1. First(body, 0) = <<>>
    BY NoWord
  <2>2. First(body, 0) \o a = First(body, 1)
    BY NextWord, 0 + 1 = 1
  <2>3. First(body, 1) = a
    BY <1>1, <2>1, <2>2, ConcatEmptySeq
  <2>4. First(body, 1) \o b = First(body, 2)
    BY NextWord, 1 + 1 = 2
  <2>5. First(body, 2) \o c = First(body, 3)
    BY NextWord, 2 + 1 = 3
  <2> QED BY <2>3, <2>4, <2>5
<1>3. /\ dev \in Seq(AnyWord) /\ lladdr \in Seq(AnyWord) /\ empty \in Seq(AnyWord)
      /\ dev \in Seq(OwnWords) /\ lladdr \in Seq(OwnWords)
  <2>1. "dev" \in OwnWords /\ "lladdr" \in OwnWords
    BY Zenon DEF OwnWords
  <2>2. dev \in Seq(OwnWords)
    BY <2>1
  <2>3. lladdr \in Seq(OwnWords)
    BY <2>1
  <2>4. OwnWords \subseteq AnyWord
    BY DEF AnyWord
  <2> HIDE DEF dev, lladdr
  <2> QED BY <2>2, <2>3, <2>4, SeqMonotonic, EmptySeq
<1>4. Kept(empty, dev) /\ Kept(empty, lladdr)
  BY <1>3, OwnAlone
<1>5. Kept(a, a) /\ Kept(b, b) /\ Kept(c, c)
  BY <1>1, AllAlone
<1> DEFINE adev == a \o dev
           all == a \o lladdr
           allb == all \o b
           ab == a \o b
           allbdev == allb \o dev
<1>6. /\ adev \in Seq(AnyWord) /\ all \in Seq(AnyWord) /\ ab \in Seq(AnyWord)
  BY <1>1, <1>3, ConcatProperties
<1>7. Kept(a, adev) /\ Kept(a, all)
  <2>1. Kept(a \o empty, adev) /\ Kept(a \o empty, all)
    BY <1>1, <1>3, <1>4, <1>5, KeptBehind
  <2> QED BY <1>1, <2>1, ConcatEmptySeq
<1> HIDE DEF a, b, c, dev, lladdr, adev, all
<1>8. allb \in Seq(AnyWord) /\ Kept(ab, allb) /\ Kept(ab, adev \o b)
  BY <1>1, <1>5, <1>6, <1>7, KeptBehind, ConcatProperties
<1> HIDE DEF ab, allb
<1>9. allbdev \in Seq(AnyWord) /\ Kept(ab, allbdev)
  <2>1. Kept(ab \o empty, allbdev)
    BY <1>3, <1>4, <1>6, <1>8, KeptBehind
  <2>2. ab \o empty = ab
    BY <1>6, ConcatEmptySeq
  <2> QED BY <2>1, <2>2, <1>3, <1>8, ConcatProperties
<1> HIDE DEF allbdev
<1>10. Kept(ab \o c, allbdev \o c)
  BY <1>1, <1>5, <1>6, <1>9, KeptBehind
<1>11. CASE type = 1
  <2>1. Object(type, body) = adev \o b
    BY <1>11, Numbers DEF Object, adev, a, dev, b
  <2>2. Taken(type, body) = ab
    BY <1>11, <1>2, Numbers DEF Taken, First, ab
  <2> QED BY <2>1, <2>2, <1>8, <1>6, <1>1, ConcatProperties
<1>12. CASE type = 4
  <2>1. Object(type, body) = allbdev \o c
    BY <1>12, Numbers DEF Object, allbdev, allb, all, a, lladdr, dev, b, c
  <2>2. Taken(type, body) = ab \o c
    BY <1>12, <1>2, Numbers DEF Taken, First, ab
  <2> QED BY <2>1, <2>2, <1>10, <1>6, <1>9, <1>1, ConcatProperties
<1>13. CASE type # 1 /\ type # 4
  <2>1. Object(type, body) = body
    BY <1>13, Numbers DEF Object
  <2>2. Taken(type, body) = body
    <3>1. Taken(type, body) = SubSeq(body, 1, Len(body))
      BY <1>13, Numbers DEF Taken
    <3> QED BY <3>1, SubSeqFull
  <2> QED BY <2>1, <2>2, <1>1, AllAlone
<1> QED BY <1>11, <1>12, <1>13

\* The words before them are words of the handlers.
LEMMA OpeningOwn ==
  ASSUME NEW type \in 1..7, NEW command \in {2, 3}
  PROVE  Opening(type, command) \in Seq(OwnWords)
<1>1. \/ type = 1 \/ type = 2 \/ type = 3 \/ type = 4 \/ type = 5 \/ type = 6 \/ type = 7
  OBVIOUS
<1>2. /\ "ip" \in OwnWords /\ "-6" \in OwnWords /\ "address" \in OwnWords
      /\ "neigh" \in OwnWords /\ "rule" \in OwnWords /\ "route" \in OwnWords
      /\ "ip6tables" \in OwnWords /\ "-t" \in OwnWords /\ "nat" \in OwnWords
      /\ "Table" \in OwnWords /\ "add" \in OwnWords /\ "del" \in OwnWords
      /\ "remove" \in OwnWords /\ "-I" \in OwnWords /\ "-D" \in OwnWords
  BY Zenon DEF OwnWords
<1>3. CASE type = 1
  BY <1>2, <1>3, Numbers DEF Opening
<1>4. CASE type = 2
  BY <1>2, <1>4, Numbers DEF Opening
<1>5. CASE type = 3
  BY <1>2, <1>5, Numbers DEF Opening
<1>6. CASE type = 4
  BY <1>2, <1>6, Numbers DEF Opening
<1>7. CASE type = 5
  BY <1>2, <1>7, Numbers DEF Opening
<1>8. CASE type = 6
  BY <1>2, <1>8, Numbers DEF Opening
<1>9. CASE type = 7
  BY <1>2, <1>9, Numbers DEF Opening
<1> QED BY <1>1, <1>3, <1>4, <1>5, <1>6, <1>7, <1>8, <1>9

\* What is added or removed keeps the words of the body.
LEMMA OperationKept ==
  ASSUME NEW m, m.type \in 1..7, m.command \in {CommandNumber.Add, CommandNumber.Remove},
         m.body \in Seq(STRING)
  PROVE  Kept(Taken(m.type, m.body), Operation(m))
<1> DEFINE t == m.type
           c == m.command
           b == m.body
           p == Opening(t, c)
           o == Object(t, b)
           w == Taken(t, b)
           empty == <<>>
<1>1. Operation(m) = p \o o
  BY OperationParts
<1>2. t \in 1..7 /\ c \in {2, 3} /\ b \in Seq(STRING)
  BY Numbers
<1>3. p \in Seq(OwnWords)
  BY <1>2, OpeningOwn
<1>4. o \in Seq(AnyWord) /\ w \in Seq(AnyWord) /\ Kept(w, o)
  BY <1>2, ObjectKept
<1>5. p \in Seq(AnyWord) /\ empty \in Seq(AnyWord)
  <2>1. OwnWords \subseteq AnyWord
    BY DEF AnyWord
  <2> HIDE DEF p
  <2> QED BY <2>1, <1>3, SeqMonotonic, EmptySeq
<1>6. Kept(empty, p)
  BY <1>3, OwnAlone
<1> HIDE DEF p, o, w
<1>7. Kept(empty \o w, p \o o)
  BY <1>4, <1>5, <1>6, KeptBehind
<1>8. empty \o w = w
  BY <1>4, ConcatEmptySeq
<1> QED BY <1>1, <1>7, <1>8 DEF w

\* Where the verb stands.
Verb(type) == IF type \in {3, 5} THEN 2 ELSE 4

\* Add and remove start with the same words, up to the verb, by which Target can tell
\* ip6tables and Table from each other and from ip.
OpensWith(type, add, remove) ==
  LET n == Verb(type) IN
  /\ Len(add) = n /\ Len(remove) = n
  /\ \A j \in 1..(n - 1) : add[j] = remove[j]
  /\ add[1] = "Table" <=> type = 5
  /\ add[2] = "-I" <=> type = 3
  /\ remove[2] = "-D" <=> type = 3
  /\ add[2] = "add" <=> type = 5
  /\ add[n] = "-I" <=> type \in {2, 3}
  /\ add[2] # "-D" /\ remove[2] # "-I" /\ remove[2] # "add" /\ remove[n] # "-I"

\* The verb is the fourth word ...
LEMMA FourWords ==
  ASSUME NEW type \in {1, 2, 4, 6, 7}, NEW x, NEW y, NEW z, NEW v, NEW w,
         x # "Table", y # "-I", y # "-D", y # "add", w # "-I", v = "-I" <=> type = 2
  PROVE  OpensWith(type, <<x, y, z, v>>, <<x, y, z, w>>)
<1> PICK p, q : p = <<x, y, z, v>> /\ q = <<x, y, z, w>>
  OBVIOUS
<1>1. /\ p[1] = x /\ p[2] = y /\ p[3] = z /\ p[4] = v /\ Len(p) = 4
      /\ q[1] = x /\ q[2] = y /\ q[3] = z /\ q[4] = w /\ Len(q) = 4
  OBVIOUS
<1>2. Verb(type) = 4 /\ type # 3 /\ type # 5
  BY DEF Verb
<1>3. \A j \in 1..(4 - 1) : p[j] = q[j]
  <2>1. \A j \in 1..(4 - 1) : j = 1 \/ j = 2 \/ j = 3
    OBVIOUS
  <2> QED BY <2>1, <1>1
<1>4. type \in {2, 3} <=> type = 2
  BY <1>2
<1>5. OpensWith(type, p, q)
  BY <1>1, <1>2, <1>3, <1>4, Zenon DEF OpensWith
<1> QED BY <1>5

\* ... or the second.
LEMMA TwoWords ==
  ASSUME NEW type \in {3, 5}, NEW x, NEW v, NEW w,
         x = "Table" <=> type = 5, v = "-I" <=> type = 3, w = "-D" <=> type = 3,
         v = "add" <=> type = 5, v # "-D", w # "-I", w # "add"
  PROVE  OpensWith(type, <<x, v>>, <<x, w>>)
<1> PICK p, q : p = <<x, v>> /\ q = <<x, w>>
  OBVIOUS
<1>1. /\ p[1] = x /\ p[2] = v /\ Len(p) = 2
      /\ q[1] = x /\ q[2] = w /\ Len(q) = 2
  OBVIOUS
<1>2. Verb(type) = 2
  BY DEF Verb
<1>3. \A j \in 1..(2 - 1) : p[j] = q[j]
  <2>1. \A j \in 1..(2 - 1) : j = 1
    OBVIOUS
  <2> QED BY <2>1, <1>1
<1>4. type \in {2, 3} <=> type = 3
  OBVIOUS
<1>5. OpensWith(type, p, q)
  BY <1>1, <1>2, <1>3, <1>4, Zenon DEF OpensWith
<1> QED BY <1>5

LEMMA OpeningParts ==
  ASSUME NEW type \in 1..7
  PROVE  OpensWith(type, Opening(type, 2), Opening(type, 3))
<1>1. \/ type = 1 \/ type = 2 \/ type = 3 \/ type = 4 \/ type = 5 \/ type = 6 \/ type = 7
  OBVIOUS
<1>2. /\ "ip" # "Table" /\ "-6" # "-I" /\ "-6" # "-D" /\ "-6" # "add" /\ "del" # "-I"
      /\ "add" # "-I" /\ "ip6tables" # "Table" /\ "-t" # "-I" /\ "-t" # "-D" /\ "-t" # "add"
      /\ "-D" # "-I" /\ "-D" # "add" /\ "remove" # "-I" /\ "remove" # "-D" /\ "remove" # "add"
      /\ "add" # "-D" /\ "-I" # "add"
  OBVIOUS
<1>3. /\ 1 \in {1, 2, 4, 6, 7} /\ 2 \in {1, 2, 4, 6, 7} /\ 4 \in {1, 2, 4, 6, 7}
      /\ 6 \in {1, 2, 4, 6, 7} /\ 7 \in {1, 2, 4, 6, 7} /\ 3 \in {3, 5} /\ 5 \in {3, 5}
      /\ 1 # 2 /\ 4 # 2 /\ 6 # 2 /\ 7 # 2 /\ 3 # 5 /\ 5 # 3
  OBVIOUS
<1>4. OpensWith(1, Opening(1, 2), Opening(1, 3))
  <2>1. Opening(1, 2) = <<"ip", "-6", "address", "add">> /\ Opening(1, 3) = <<"ip", "-6", "address", "del">>
    BY Numbers DEF Opening
  <2>2. OpensWith(1, <<"ip", "-6", "address", "add">>, <<"ip", "-6", "address", "del">>)
    BY <1>2, <1>3, FourWords, Zenon
  <2> QED BY <2>1, <2>2
<1>5. OpensWith(2, Opening(2, 2), Opening(2, 3))
  <2>1. Opening(2, 2) = <<"ip6tables", "-t", "nat", "-I">> /\ Opening(2, 3) = <<"ip6tables", "-t", "nat", "-D">>
    BY Numbers DEF Opening
  <2>2. OpensWith(2, <<"ip6tables", "-t", "nat", "-I">>, <<"ip6tables", "-t", "nat", "-D">>)
    BY <1>2, <1>3, FourWords, Zenon
  <2> QED BY <2>1, <2>2
<1>6. OpensWith(3, Opening(3, 2), Opening(3, 3))
  <2>1. Opening(3, 2) = <<"ip6tables", "-I">> /\ Opening(3, 3) = <<"ip6tables", "-D">>
    BY Numbers DEF Opening
  <2>2. OpensWith(3, <<"ip6tables", "-I">>, <<"ip6tables", "-D">>)
    BY <1>2, <1>3, TwoWords, Zenon
  <2> QED BY <2>1, <2>2
<1>7. OpensWith(4, Opening(4, 2), Opening(4, 3))
  <2>1. Opening(4, 2) = <<"ip", "-6", "neigh", "add">> /\ Opening(4, 3) = <<"ip", "-6", "neigh", "del">>
    BY Numbers DEF Opening
  <2>2. OpensWith(4, <<"ip", "-6", "neigh", "add">>, <<"ip", "-6", "neigh", "del">>)
    BY <1>2, <1>3, FourWords, Zenon
  <2> QED BY <2>1, <2>2
<1>8. OpensWith(5, Opening(5, 2), Opening(5, 3))
  <2>1. Opening(5, 2) = <<"Table", "add">> /\ Opening(5, 3) = <<"Table", "remove">>
    BY Numbers DEF Opening
  <2>2. OpensWith(5, <<"Table", "add">>, <<"Table", "remove">>)
    BY <1>2, <1>3, TwoWords, Zenon
  <2> QED BY <2>1, <2>2
<1>9. OpensWith(6, Opening(6, 2), Opening(6, 3))
  <2>1. Opening(6, 2) = <<"ip", "-6", "route", "add">> /\ Opening(6, 3) = <<"ip", "-6", "route", "del">>
    BY Numbers DEF Opening
  <2>2. OpensWith(6, <<"ip", "-6", "route", "add">>, <<"ip", "-6", "route", "del">>)
    BY <1>2, <1>3, FourWords, Zenon
  <2> QED BY <2>1, <2>2
<1>10. OpensWith(7, Opening(7, 2), Opening(7, 3))
  <2>1. Opening(7, 2) = <<"ip", "-6", "rule", "add">> /\ Opening(7, 3) = <<"ip", "-6", "rule", "del">>
    BY Numbers DEF Opening
  <2>2. OpensWith(7, <<"ip", "-6", "rule", "add">>, <<"ip", "-6", "rule", "del">>)
    BY <1>2, <1>3, FourWords, Zenon
  <2> QED BY <2>1, <2>2
<1> QED BY <1>1, <1>4, <1>5, <1>6, <1>7, <1>8, <1>9, <1>10, Zenon

LEMMA OpeningFilled ==
  ASSUME NEW type \in 1..7, NEW command \in {2, 3}
  PROVE  Opening(type, command) # <<>>
<1>1. Len(<<>>) = 0 /\ Verb(type) # 0
  BY DEF Verb
<1>2. Len(Opening(type, 2)) = Verb(type) /\ Len(Opening(type, 3)) = Verb(type)
  BY OpeningParts DEF OpensWith
<1> QED BY <1>1, <1>2

\* A command line is cut at the verb again.
LEMMA CutAtVerb ==
  ASSUME NEW p \in Seq(AnyWord), NEW o \in Seq(AnyWord), p # <<>>
  PROVE  LET n == Len(p) ran == p \o o IN
         /\ n \in Nat \ {0}
         /\ SubSeq(ran, n + 1, Len(ran)) = o
         /\ SubSeq(ran, 1, n - 1) = SubSeq(p, 1, n - 1)
         /\ \A j \in 1..n : ran[j] = p[j]
<1> DEFINE n == Len(p)
           l == Len(o)
           ran == p \o o
<1>1. n \in Nat \ {0} /\ l \in Nat
  BY LenProperties, EmptySeq
<1>2. /\ ran \in Seq(AnyWord) /\ Len(ran) = n + l
      /\ \A j \in 1..(n + l) : ran[j] = IF j <= n THEN p[j] ELSE o[j - n]
  BY ConcatProperties
<1>3. SubSeq(ran, n + 1, n + l) = o
  <2>1. n + 1 \in (Len(p) + 1)..(Len(p) + Len(o) + 1) /\ n + l \in (n + 1 - 1)..(Len(p) + Len(o))
    BY <1>1
  <2>2. SubSeq(p \o o, n + 1, n + l) = SubSeq(o, n + 1 - Len(p), n + l - Len(p))
    BY <2>1, SubSeqOfConcat2
  <2>3. n + 1 - n = 1 /\ n + l - n = l
    BY <1>1
  <2> QED BY <2>2, <2>3, SubSeqFull
<1>4. SubSeq(ran, 1, n - 1) = SubSeq(p, 1, n - 1)
  <2>1. 1 \in 1..(Len(p) + 1) /\ n - 1 \in (1 - 1)..Len(p)
    BY <1>1
  <2> QED BY <2>1, SubSeqOfConcat1
<1>5. ASSUME NEW j \in 1..n PROVE ran[j] = p[j]
  <2>1. j \in 1..(n + l) /\ j <= n
    BY <1>1
  <2> QED BY <2>1, <1>2
<1> QED BY <1>1, <1>2, <1>3, <1>4, <1>5

\* What stands before the verb.
BeforeVerb(type) == SubSeq(Opening(type, 2), 1, Verb(type) - 1)

\* What is added of the words behind the verb.
Which(type, words) ==
  CASE type \in {2, 3} -> Unplaced(words)
    [] type = 5 -> Called(words)
    [] OTHER -> words

LEMMA Targets ==
  ASSUME NEW type \in 1..7, NEW o \in Seq(AnyWord)
  PROVE  /\ Target(Opening(type, 2) \o o) = [of |-> BeforeVerb(type), which |-> Which(type, o)]
         /\ Target(Opening(type, 3) \o o) = [of |-> BeforeVerb(type), which |-> o]
<1> DEFINE p == Opening(type, 2)
           q == Opening(type, 3)
           n == Verb(type)
<1>1. OpensWith(type, p, q)
  BY OpeningParts
<1>2. p \in Seq(AnyWord) /\ q \in Seq(AnyWord)
  <2>1. p \in Seq(OwnWords) /\ q \in Seq(OwnWords)
    BY OpeningOwn
  <2>2. OwnWords \subseteq AnyWord
    BY DEF AnyWord
  <2> HIDE DEF p, q
  <2> QED BY <2>1, <2>2, SeqMonotonic
<1>3. n \in {2, 4} /\ (n = 2 <=> type = 3 \/ type = 5)
  BY DEF Verb
<1>4. BeforeVerb(type) = SubSeq(p, 1, n - 1)
  BY DEF BeforeVerb
<1> HIDE DEF p, q, n
<1>5. /\ Len(p) = n /\ Len(q) = n /\ p # <<>> /\ q # <<>>
      /\ \A j \in 1..(n - 1) : p[j] = q[j]
      /\ p[1] = "Table" <=> type = 5
      /\ p[2] = "-I" <=> type = 3
      /\ q[2] = "-D" <=> type = 3
      /\ p[2] = "add" <=> type = 5
      /\ p[n] = "-I" <=> type \in {2, 3}
      /\ p[2] # "-D" /\ q[2] # "-I" /\ q[2] # "add" /\ q[n] # "-I"
  <2>1. Verb(type) = n
    BY DEF n
  <2>2. Len(<<>>) = 0
    OBVIOUS
  <2> QED BY <2>1, <2>2, <1>1, <1>3 DEF OpensWith
<1>6. SubSeq(q, 1, n - 1) = SubSeq(p, 1, n - 1)
  <2> DEFINE u == SubSeq(p, 1, n - 1)
             v == SubSeq(q, 1, n - 1)
  <2>1. /\ 1 \in Int /\ n - 1 \in Int /\ n - 1 - 1 + 1 = n - 1 /\ 1 <= n - 1
        /\ \A i \in 1..(n - 1) : 1 + i - 1 = i /\ i \in 1..n
    BY <1>3
  <2>2. \A i \in 1..(n - 1) : p[i] \in AnyWord /\ q[i] \in AnyWord
    BY <2>1, <1>2, <1>5, ElementOfSeq
  <2>3. /\ u \in Seq(AnyWord) /\ Len(u) = n - 1 /\ \A i \in 1..(n - 1) : u[i] = p[i]
    BY <2>1, <2>2, SubSeqProperties
  <2>4. /\ v \in Seq(AnyWord) /\ Len(v) = n - 1 /\ \A i \in 1..(n - 1) : v[i] = q[i]
    BY <2>1, <2>2, SubSeqProperties
  <2> HIDE DEF u, v
  <2>5. u = v
    BY <2>3, <2>4, <1>5, SeqEqual
  <2> QED BY <2>5 DEF u, v
<1> DEFINE pr == p \o o
           qr == q \o o
<1>7. /\ SubSeq(pr, n + 1, Len(pr)) = o /\ SubSeq(pr, 1, n - 1) = SubSeq(p, 1, n - 1)
      /\ \A j \in 1..n : pr[j] = p[j]
  BY <1>2, <1>5, CutAtVerb
<1>8. /\ SubSeq(qr, n + 1, Len(qr)) = o /\ SubSeq(qr, 1, n - 1) = SubSeq(q, 1, n - 1)
      /\ \A j \in 1..n : qr[j] = q[j]
  BY <1>2, <1>5, CutAtVerb
<1> HIDE DEF pr, qr
<1>9. 1 \in 1..n /\ 2 \in 1..n /\ n \in 1..n /\ 1 \in 1..(n - 1)
  BY <1>3
<1>10. pr[1] = p[1] /\ pr[2] = p[2] /\ pr[n] = p[n]
  BY <1>7, <1>9
<1>11. qr[1] = q[1] /\ qr[2] = q[2] /\ qr[n] = q[n] /\ q[1] = p[1]
  BY <1>5, <1>8, <1>9
<1>12. Target(pr) = [of |-> BeforeVerb(type), which |-> Which(type, o)]
  <2>1. n = IF pr[1] = "Table" \/ pr[2] = "-I" \/ pr[2] = "-D" THEN 2 ELSE 4
    BY <1>3, <1>5, <1>10
  <2>2. Which(type, o) = CASE pr[n] = "-I" -> Unplaced(o)
                           [] pr[1] = "Table" /\ pr[2] = "add" -> Called(o)
                           [] OTHER -> o
    <3>1. CASE type \in {2, 3}
      <4>1. pr[n] = "-I" /\ pr[1] # "Table" /\ type # 5
        BY <3>1, <1>5, <1>10
      <4> QED BY <3>1, <4>1 DEF Which
    <3>2. CASE type = 5
      <4>1. pr[n] # "-I" /\ pr[1] = "Table" /\ pr[2] = "add" /\ type \notin {2, 3}
        BY <3>2, <1>5, <1>10
      <4> QED BY <3>2, <4>1 DEF Which
    <3>3. CASE type \notin {2, 3, 5}
      <4>1. pr[n] # "-I" /\ pr[1] # "Table"
        BY <3>3, <1>5, <1>10
      <4> QED BY <3>3, <4>1 DEF Which
    <3> QED BY <3>1, <3>2, <3>3
  <2> QED BY <2>1, <2>2, <1>4, <1>7 DEF Target
<1>13. Target(qr) = [of |-> BeforeVerb(type), which |-> o]
  <2>1. n = IF qr[1] = "Table" \/ qr[2] = "-I" \/ qr[2] = "-D" THEN 2 ELSE 4
    BY <1>3, <1>5, <1>11
  <2>2. qr[n] # "-I" /\ qr[2] # "add"
    BY <1>5, <1>11
  <2>3. o = CASE qr[n] = "-I" -> Unplaced(o)
              [] qr[1] = "Table" /\ qr[2] = "add" -> Called(o)
              [] OTHER -> o
    BY <2>2
  <2> QED BY <2>1, <2>3, <1>4, <1>6, <1>8 DEF Target
<1> QED BY <1>12, <1>13 DEF pr, qr, p, q

LEMMA UndoingType ==
  ASSUME NEW type \in 1..7, NEW body \in Seq(STRING)
  PROVE  Undoing(type, body) \in Seq(STRING)
<1>1. Len(body) \in Nat /\ DOMAIN body = 1..Len(body) /\ \A i \in 1..Len(body) : body[i] \in STRING
  BY LenProperties, ElementOfSeq
<1>2. Unplaced(body) \in Seq(STRING)
  <2>1. CASE Len(body) > 1 /\ body[2] \in Positions
    <3>1. body[1] \in STRING /\ <<body[1]>> \in Seq(STRING)
      BY <1>1, <2>1
    <3>2. \A i \in 3..Len(body) : body[i] \in STRING
      BY <1>1
    <3>3. SubSeq(body, 3, Len(body)) \in Seq(STRING)
      BY <1>1, <3>2, SubSeqProperties
    <3> QED BY <2>1, <3>1, <3>3, ConcatProperties DEF Unplaced
  <2>2. CASE ~(Len(body) > 1 /\ body[2] \in Positions)
    BY <2>2 DEF Unplaced
  <2> QED BY <2>1, <2>2
<1>3. Called(body) \in Seq(STRING)
  <2>1. CASE body = <<>>
    BY <2>1 DEF Called
  <2>2. CASE body # <<>>
    <3>1. body[1] \in STRING
      BY <1>1, <2>2, EmptySeq
    <3> QED BY <2>2, <3>1 DEF Called
  <2> QED BY <2>1, <2>2
<1> QED BY <1>2, <1>3 DEF Undoing

\* The words behind "remove" that undo an addition are those the tool has added.
LEMMA UndoingWhich ==
  ASSUME NEW type \in 1..7, NEW body \in Seq(STRING)
  PROVE  /\ Object(type, Undoing(type, body)) = Which(type, Object(type, body))
         /\ Undoing(type, body) # body => Object(type, body) # Which(type, Object(type, body))
<1>1. CASE type \in {2, 3}
  <2>1. Undoing(type, body) = Unplaced(body)
    BY <1>1, Numbers DEF Undoing
  <2>2. \A b : Object(type, b) = b /\ Which(type, b) = Unplaced(b)
    BY <1>1, Numbers DEF Object, Which
  <2> QED BY <2>1, <2>2
<1>2. CASE type = 5
  <2>1. Undoing(type, body) = Called(body)
    BY <1>2, Numbers DEF Undoing
  <2>2. \A b : Object(type, b) = b /\ Which(type, b) = Called(b)
    BY <1>2, Numbers DEF Object, Which
  <2> QED BY <2>1, <2>2
<1>3. CASE type \notin {2, 3, 5}
  <2>1. Undoing(type, body) = body
    BY <1>3, Numbers DEF Undoing
  <2>2. \A b : Which(type, b) = b
    BY <1>3 DEF Which
  <2> QED BY <2>1, <2>2
<1> QED BY <1>1, <1>2, <1>3

\* The targets of messages that add and remove.
LEMMA OperationTarget ==
  ASSUME NEW m, m.type \in 1..7, m.command \in {CommandNumber.Add, CommandNumber.Remove},
         m.body \in Seq(STRING)
  PROVE  Target(Operation(m)) =
           [of    |-> BeforeVerb(m.type),
            which |-> IF m.command = CommandNumber.Add THEN Which(m.type, Object(m.type, m.body))
                      ELSE Object(m.type, m.body)]
<1> DEFINE o == Object(m.type, m.body)
<1>1. Operation(m) = Opening(m.type, m.command) \o o
  BY OperationParts
<1>2. o \in Seq(AnyWord)
  BY ObjectKept
<1> HIDE DEF o
<1>3. /\ Target(Opening(m.type, 2) \o o) = [of |-> BeforeVerb(m.type), which |-> Which(m.type, o)]
      /\ Target(Opening(m.type, 3) \o o) = [of |-> BeforeVerb(m.type), which |-> o]
  BY <1>2, Targets
<1>4. CASE m.command = 2
  BY <1>1, <1>3, <1>4, Numbers DEF o
<1>5. CASE m.command = 3
  BY <1>1, <1>3, <1>5, Numbers, 3 # 2 DEF o
<1> QED BY <1>4, <1>5, Numbers

\* For each type and command of users there is something to run.
LEMMA OperationRuns ==
  ASSUME NEW m, m.type \in 1..7, m.command \in 1..3, m.body \in Seq(STRING)
  PROVE  Operation(m) # NotACommand
<1> DEFINE b == m.body
<1>1. CASE m.command = 2 \/ m.command = 3
  <2> DEFINE p == Opening(m.type, m.command)
             o == Object(m.type, b)
  <2>1. Operation(m) = p \o o
    BY <1>1, OperationParts, Numbers
  <2>2. p \in Seq(OwnWords) /\ o \in Seq(AnyWord) /\ OwnWords \subseteq AnyWord
    BY <1>1, OpeningOwn, ObjectKept DEF AnyWord
  <2>3. p # <<>>
    BY <1>1, OpeningFilled
  <2> HIDE DEF p, o
  <2>4. p \o o # <<>>
    BY <2>2, <2>3, SeqMonotonic, ConcatEqualIffEmpty
  <2> QED BY <2>1, <2>4 DEF NotACommand
<1>2. CASE m.command = 1
  <2>1. \A v, w, x, y : /\ <<v>> # <<>> /\ <<v, w>> # <<>> /\ <<v, w, x>> # <<>>
                        /\ <<v, w, x, y>> # <<>>
    OBVIOUS
  <2>2. \/ m.type = 1 \/ m.type = 2 \/ m.type = 3 \/ m.type = 4 \/ m.type = 5
        \/ m.type = 6 \/ m.type = 7
    OBVIOUS
  <2>3. CASE m.type = 1
    <3>1. Operation(m) = <<"ifconfig">>
      BY <1>2, <2>3, Numbers DEF Operation, IPv6
    <3> QED BY <3>1, <2>1, Zenon DEF NotACommand
  <2>4. CASE m.type = 2
    <3>1. Operation(m) = <<"ip6tables", "-t", "nat", "-L">>
      BY <1>2, <2>4, Numbers DEF Operation, NAT
    <3> QED BY <3>1, <2>1, Zenon DEF NotACommand
  <2>5. CASE m.type = 3
    <3>1. Operation(m) = <<"ip6tables", "-L">>
      BY <1>2, <2>5, Numbers DEF Operation, Firewall
    <3> QED BY <3>1, <2>1, Zenon DEF NotACommand
  <2>6. CASE m.type = 4
    <3>1. Operation(m) = <<"ip", "-6", "neigh", "show">>
      BY <1>2, <2>6, Numbers DEF Operation, Neighbor
    <3> QED BY <3>1, <2>1, Zenon DEF NotACommand
  <2>7. CASE m.type = 5
    <3>1. Operation(m) = <<"Table", "show">>
      BY <1>2, <2>7, Numbers DEF Operation, RoutingTable
    <3> QED BY <3>1, <2>1, Zenon DEF NotACommand
  <2>8. CASE m.type = 6
    <3> DEFINE s == <<"ip", "-6", "route", "show">>
    <3>1. Operation(m) = Route(1, b)
      BY <1>2, <2>8, Numbers DEF Operation
    <3>2. Route(1, b) = s \o b
      BY Numbers DEF Route
    <3>3. s # <<>> /\ s \in Seq(STRING \cup {"ip", "-6", "route", "show"})
      OBVIOUS
    <3> HIDE DEF s
    <3>4. s \o b # <<>>
      BY <3>3, SeqMonotonic, ConcatEqualIffEmpty
    <3> QED BY <3>1, <3>2, <3>4, Zenon DEF NotACommand
  <2>9. CASE m.type = 7
    <3>1. Operation(m) = <<"ip", "-6", "rule", "show">>
      BY <1>2, <2>9, Numbers DEF Operation, Rule
    <3> QED BY <3>1, <2>1, Zenon DEF NotACommand
  <2> QED BY <2>2, <2>3, <2>4, <2>5, <2>6, <2>7, <2>8, <2>9
<1> QED BY <1>1, <1>2

-----------------------------------------------------------------------------
(* What becomes of the messages *)

\* The messages the controller sends here: an answer about a packet has number 0,
\* the others have a type and a command a user can give.
Sendable ==
  {m \in Message :
     /\ m.ack \in {0, 1} /\ m.elevId = 0
     /\ IF m.seq = 0 THEN m.command \in {CommandNumber.Retry, CommandNumber.Drop}
        ELSE m.type \in 1..7 /\ m.command \in 1..3}

\* What the agent does with m.
Answer(m) ==
  LET d == Decode(Encode(m)) IN
  [message |-> d, ran |-> IF d.seq = 0 THEN NotACommand ELSE Operation(d)]

\* Of the messages s of a connection the agent answered the first, and the others are
\* on their way, in this order.
Paired(a, w, s) ==
  /\ a \in Seq({Answer(m) : m \in Sendable}) /\ w \in Seq({Encode(m) : m \in Sendable})
  /\ s \in Seq(Sendable)
  /\ Len(s) = Len(a) + Len(w)
  /\ \A i \in 1..Len(a) : a[i] = Answer(s[i])
  /\ \A i \in 1..Len(w) : w[i] = Encode(s[Len(a) + i])

Delivered ==
  /\ wire = [h \in Hosts |-> wire[h]] /\ sent = [h \in Hosts |-> sent[h]]
  /\ answered = [h \in Hosts |-> answered[h]]
  /\ \A h \in Hosts : Paired(answered[h], wire[h], sent[h])

LEMMA PairedSend ==
  ASSUME NEW a, NEW w, NEW s, Paired(a, w, s), NEW m \in Sendable
  PROVE  Paired(a, Append(w, Encode(m)), Append(s, m))
<1> DEFINE A == {Answer(x) : x \in Sendable}
           W == {Encode(x) : x \in Sendable}
           e == Encode(m)
           p == Len(a)
           q == Len(w)
           n == Len(s)
           w2 == Append(w, e)
           s2 == Append(s, m)
<1>1. /\ a \in Seq(A) /\ w \in Seq(W) /\ s \in Seq(Sendable) /\ e \in W
      /\ n = p + q
      /\ \A i \in 1..p : a[i] = Answer(s[i])
      /\ \A i \in 1..q : w[i] = Encode(s[p + i])
  BY DEF Paired
<1>2. p \in Nat /\ q \in Nat /\ n \in Nat
  BY <1>1, LenProperties
<1>3. /\ s2 \in Seq(Sendable) /\ Len(s2) = n + 1 /\ s2[n + 1] = m
      /\ \A i \in 1..n : s2[i] = s[i]
  BY <1>1, AppendProperties
<1> HIDE DEF A, W, e
<1>4. /\ w2 \in Seq(W) /\ Len(w2) = q + 1 /\ w2[q + 1] = e
      /\ \A i \in 1..q : w2[i] = w[i]
  BY <1>1, AppendProperties
<1> HIDE DEF p, q, n, w2, s2
<1>5. n + 1 = p + (q + 1)
  BY <1>1, <1>2
<1>6. ASSUME NEW i \in 1..p PROVE a[i] = Answer(s2[i])
  <2>1. i \in 1..n
    BY <1>1, <1>2
  <2> QED BY <2>1, <1>1, <1>3
<1>7. ASSUME NEW i \in 1..(q + 1) PROVE w2[i] = Encode(s2[p + i])
  <2>1. CASE i \in 1..q
    <3>1. p + i \in 1..n
      BY <2>1, <1>1, <1>2
    <3>2. s2[p + i] = s[p + i] /\ w2[i] = w[i] /\ w[i] = Encode(s[p + i])
      BY <2>1, <3>1, <1>1, <1>3, <1>4
    <3> QED BY <3>2, Zenon
  <2>2. CASE i = q + 1
    <3>1. p + i = n + 1
      BY <2>2, <1>1, <1>2
    <3> QED BY <2>2, <3>1, <1>3, <1>4, Zenon DEF e
  <2> QED BY <2>1, <2>2, <1>2
<1> QED BY <1>1, <1>3, <1>4, <1>5, <1>6, <1>7, Zenon DEF Paired, A, W, p, q, w2, s2, e

LEMMA PairedReceive ==
  ASSUME NEW a, NEW w, NEW s, Paired(a, w, s), w # <<>>,
         NEW d, d = Decode(Head(w)),
         NEW b, b = [message |-> d, ran |-> IF d.seq = 0 THEN NotACommand ELSE Operation(d)]
  PROVE  Paired(Append(a, b), Tail(w), s)
<1> DEFINE A == {Answer(x) : x \in Sendable}
           W == {Encode(x) : x \in Sendable}
           p == Len(a)
           q == Len(w)
           n == Len(s)
           a2 == Append(a, b)
           w2 == Tail(w)
           m == s[p + 1]
<1>1. /\ a \in Seq(A) /\ w \in Seq(W) /\ s \in Seq(Sendable)
      /\ n = p + q
      /\ \A i \in 1..p : a[i] = Answer(s[i])
      /\ \A i \in 1..q : w[i] = Encode(s[p + i])
  BY DEF Paired
<1>2. p \in Nat /\ q \in Nat /\ n \in Nat /\ q > 0
  BY <1>1, LenProperties, EmptySeq
<1>3. /\ w2 \in Seq(W) /\ Len(w2) = q - 1 /\ \A i \in 1..(q - 1) : w2[i] = w[i + 1]
  <2> HIDE DEF W
  <2> QED BY <1>1, HeadTailProperties
<1>4. Head(w) = Encode(m)
  <2>1. Head(w) = w[1]
    BY <1>1
  <2>2. w[1] = Encode(s[p + 1])
    BY <1>1, <1>2
  <2> QED BY <2>1, <2>2
<1>5. m \in Sendable
  <2>1. p + 1 \in 1..Len(s)
    BY <1>1, <1>2
  <2> QED BY <2>1, <1>1, ElementOfSeq
<1>6. b = Answer(m)
  BY <1>4 DEF Answer
<1> HIDE DEF W
<1>7. b \in A
  BY <1>5, <1>6
<1> HIDE DEF A
<1>8. /\ a2 \in Seq(A) /\ Len(a2) = p + 1 /\ a2[p + 1] = b /\ \A i \in 1..p : a2[i] = a[i]
  BY <1>1, <1>7, AppendProperties
<1> HIDE DEF p, q, n, w2, a2
<1>9. n = p + 1 + (q - 1)
  BY <1>1, <1>2
<1>10. ASSUME NEW i \in 1..(p + 1) PROVE a2[i] = Answer(s[i])
  <2>1. CASE i \in 1..p
    BY <2>1, <1>1, <1>8, Zenon
  <2>2. CASE i = p + 1
    BY <2>2, <1>6, <1>8, Zenon
  <2> QED BY <2>1, <2>2, <1>2
<1>11. ASSUME NEW i \in 1..(q - 1) PROVE w2[i] = Encode(s[p + 1 + i])
  <2>1. i + 1 \in 1..q /\ p + (i + 1) = p + 1 + i
    BY <1>2
  <2>2. w2[i] = w[i + 1] /\ w[i + 1] = Encode(s[p + (i + 1)])
    BY <2>1, <1>1, <1>3, Zenon
  <2> QED BY <2>1, <2>2, Zenon
<1> QED BY <1>1, <1>3, <1>8, <1>9, <1>10, <1>11, Zenon DEF Paired, A, W, p, q, n, w2, a2

-----------------------------------------------------------------------------
(* What a step does to the loops of a thread *)

Top(frames) == frames[Len(frames)]
Below(frames) == SubSeq(frames, 1, Len(frames) - 1)

LEMMA StackShape ==
  ASSUME NEW frames \in Seq(LineSeq), frames # <<>>
  PROVE  /\ Len(frames) \in Nat \ {0}
         /\ Below(frames) \in Seq(LineSeq) /\ Len(Below(frames)) = Len(frames) - 1
         /\ Top(frames) \in LineSeq
         /\ frames = Append(Below(frames), Top(frames))
         /\ \A f \in LineSeq : [frames EXCEPT ![Len(frames)] = f] = Append(Below(frames), f)
<1> DEFINE n == Len(frames)
           b == Below(frames)
<1>1. n \in Nat \ {0} /\ DOMAIN frames = 1..n /\ \A i \in 1..n : frames[i] \in LineSeq
  BY EmptySeq, LenProperties, ElementOfSeq
<1>2. b \in Seq(LineSeq) /\ Len(b) = n - 1 /\ \A i \in 1..(n - 1) : b[i] = frames[i]
  <2>1. 1 \in Int /\ n - 1 \in Int /\ \A i \in 1..(n - 1) : frames[i] \in LineSeq
    BY <1>1
  <2> HIDE DEF n
  <2>2. /\ SubSeq(frames, 1, n - 1) \in Seq(LineSeq)
        /\ Len(SubSeq(frames, 1, n - 1)) = IF 1 <= n - 1 THEN n - 1 - 1 + 1 ELSE 0
        /\ \A i \in 1..(n - 1 - 1 + 1) : SubSeq(frames, 1, n - 1)[i] = frames[1 + i - 1]
    BY <2>1, SubSeqProperties
  <2>3. n - 1 - 1 + 1 = n - 1 /\ \A i \in 1..(n - 1) : 1 + i - 1 = i
    BY <1>1
  <2>4. (IF 1 <= n - 1 THEN n - 1 - 1 + 1 ELSE 0) = n - 1
    BY <1>1
  <2> QED BY <2>2, <2>3, <2>4, Zenon DEF Below, n
<1>3. Top(frames) \in LineSeq
  BY <1>1 DEF Top
<1>4. ASSUME NEW f \in LineSeq PROVE [frames EXCEPT ![n] = f] = Append(b, f)
  <2> DEFINE e == [frames EXCEPT ![n] = f]
             a == Append(b, f)
  <2>1. /\ e \in Seq(LineSeq) /\ Len(e) = n
        /\ \A j \in 1..n : e[j] = IF j = n THEN f ELSE frames[j]
    <3>1. n \in 1..Len(frames)
      BY <1>1
    <3> QED BY <3>1, ExceptSeq
  <2> HIDE DEF b, e
  <2>2. /\ a \in Seq(LineSeq) /\ Len(a) = n - 1 + 1
        /\ \A i \in 1..(n - 1) : a[i] = b[i] /\ a[n - 1 + 1] = f
    BY <1>2, AppendProperties
  <2>3. a[n] = f
    <3>1. a[Len(b) + 1] = f
      BY <1>2, AppendProperties
    <3>2. Len(b) + 1 = n
      BY <1>1, <1>2
    <3> QED BY <3>1, <3>2
  <2> HIDE DEF a, n
  <2>4. Len(a) = n
    BY <2>2, <1>1
  <2>5. \A j \in 1..n : e[j] = a[j]
    <3> SUFFICES ASSUME NEW j \in 1..n PROVE e[j] = a[j]
      OBVIOUS
    <3>1. CASE j = n
      BY <3>1, <2>1, <2>3
    <3>2. CASE j # n
      <4>1. j \in 1..(n - 1)
        BY <3>2, <1>1
      <4> QED BY <4>1, <3>2, <2>1, <2>2, <1>2, Zenon
    <3> QED BY <3>1, <3>2
  <2> QED BY <2>1, <2>2, <2>4, <2>5, SeqEqual DEF e, a
<1>5. frames = Append(b, Top(frames))
  <2>1. [frames EXCEPT ![n] = frames[n]] = frames
    BY <1>1
  <2> QED BY <2>1, <1>3, <1>4 DEF Top
<1> QED BY <1>1, <1>2, <1>3, <1>4, <1>5

\* The line a thread is about to handle.
LEMMA ReadyShape ==
  ASSUME TypeOK, NEW t \in Threads, Ready(t)
  PROVE  /\ stack[t] \in Seq(LineSeq) /\ stack[t] # <<>>
         /\ Top(stack[t]) \in LineSeq /\ Top(stack[t]) # <<>>
         /\ Line(t) = Head(Top(stack[t])) /\ Line(t) \in Seq(STRING)
         /\ Tail(Top(stack[t])) \in LineSeq
         /\ After(t) = Append(Below(stack[t]), Tail(Top(stack[t])))
         /\ After(t) \in Seq(LineSeq)
<1> DEFINE frames == stack[t]
           top == Top(frames)
<1>1. frames \in Seq(LineSeq)
  BY DEF TypeOK
<1>2. frames # <<>>
  BY EmptySeq DEF Ready, Depth
<1>3. top \in LineSeq /\ top # <<>> /\ Line(t) = Head(top)
  BY <1>1, <1>2, StackShape DEF Ready, Line, Depth, Top
<1>4. Head(top) \in Seq(STRING) /\ Tail(top) \in LineSeq
  <2> HIDE DEF top
  <2> QED BY <1>3, HeadTailProperties DEF LineSeq
<1>5. After(t) = [frames EXCEPT ![Len(frames)] = Tail(top)]
  BY DEF After, Depth, Top
<1>6. After(t) = Append(Below(frames), Tail(top))
  BY <1>1, <1>2, <1>4, <1>5, StackShape
<1>7. Below(frames) \in Seq(LineSeq)
  BY <1>1, <1>2, StackShape
<1>8. After(t) \in Seq(LineSeq)
  <2> HIDE DEF frames, top
  <2> QED BY <1>4, <1>6, <1>7, AppendProperties
<1> QED BY <1>1, <1>2, <1>3, <1>4, <1>6, <1>8

\* An idle thread starts with lines it is given; a thread handles a line that names
\* no file, or opens the file it names, or returns from a loop, or overflows.
Starts(t, lines) ==
  /\ up = "running" /\ stack[t] = <<>>
  /\ Give(t, lines)
  /\ UNCHANGED <<up, handled>>

Handles(t) ==
  /\ Ready(t) /\ ~NamedFile(Line(t))
  /\ Turn(t, After(t))
  /\ up' \in {"running", "exited"}
  /\ UNCHANGED given

Opens(t) ==
  /\ Ready(t) /\ NamedFile(Line(t)) /\ Depth(t) <= MaxDepth
  /\ Turn(t, Append(After(t), Contents[Line(t)[2]]))
  /\ UNCHANGED <<up, given>>

Moves(t) ==
  \/ \E lines \in LineSeq : Starts(t, lines)
  \/ Handles(t) \/ Opens(t) \/ Return(t) \/ Overflow(t)

Rests == UNCHANGED <<stack, given, handled, up>>

LEMMA StepMoves ==
  ASSUME TypeOK, [Next]_vars
  PROVE  (\E t \in Threads : Moves(t)) \/ Rests
<1>1. ASSUME NEW line \in Lines, TypeLine(line) PROVE Moves(Terminal)
  <2>1. <<line>> \in LineSeq
    BY ConsoleAssumption DEF LineSeq
  <2>2. Starts(Terminal, <<line>>)
    BY <1>1 DEF TypeLine, Starts, Idle
  <2> QED BY <2>1, <2>2 DEF Moves
<1>2. ASSUME RepeatLine PROVE Moves(Terminal)
  <2> DEFINE g == given[Terminal]
             lines == <<g[Len(g)]>>
  <2>1. g \in LineSeq /\ g # <<>>
    BY <1>2 DEF TypeOK, RepeatLine, Threads
  <2>2. g[Len(g)] \in Seq(STRING)
    <3> HIDE DEF g
    <3>1. Len(g) \in 1..Len(g)
      BY <2>1, EmptySeq DEF LineSeq
    <3> QED BY <3>1, <2>1, ElementOfSeq DEF LineSeq
  <2>3. lines \in LineSeq
    <3> HIDE DEF g
    <3> QED BY <2>2 DEF LineSeq
  <2>4. Starts(Terminal, lines)
    BY <1>2 DEF RepeatLine, Starts, Idle
  <2> QED BY <2>3, <2>4 DEF Moves
<1>3. ASSUME NEW h \in Elevating, NEW record \in Records, Elevate(h, record) PROVE Moves(h)
  <2> DEFINE lines == IF record = <<>> THEN << <<"drop">> >> ELSE record
  <2>1. lines \in LineSeq
    <3>1. <<"drop">> \in Seq(STRING)
      BY DropAssumption
    <3>2. << <<"drop">> >> \in LineSeq
      BY <3>1 DEF LineSeq
    <3>3. record \in LineSeq
      BY ConsoleAssumption DEF LineSeq
    <3> QED BY <3>2, <3>3
  <2>2. Starts(h, lines)
    BY <1>3 DEF Elevate, Starts, Idle
  <2> HIDE DEF lines
  <2> QED BY <2>1, <2>2 DEF Moves
<1>4. ASSUME NEW t \in Threads, ThreadStep(t) PROVE Moves(t)
  <2>1. CASE AnswerElevation(t)
    <3>1. Ready(t) /\ Line(t) # <<>> /\ Head(Line(t)) \in {"retry", "drop"}
      BY <2>1 DEF AnswerElevation, IsAnswer
    <3>2. Head(Line(t)) # "file"
      BY <3>1
    <3>3. ~NamedFile(Line(t))
      BY <3>2 DEF NamedFile
    <3> QED BY <2>1, <3>1, <3>3 DEF AnswerElevation, Moves, Handles, Ready
  <2>2. CASE IssueCommand(t)
    <3>1. Ready(t) /\ Len(Line(t)) >= 3
      BY <2>2 DEF IssueCommand, Accepted
    <3>2. ~NamedFile(Line(t))
      <4> DEFINE n == Len(Line(t))
      <4>1. n \in Nat /\ n >= 3
        BY <3>1, ReadyShape, LenProperties
      <4> HIDE DEF n
      <4>2. n # 2
        BY <4>1
      <4> QED BY <4>2 DEF NamedFile, n
    <3> QED BY <2>2, <3>1, <3>2 DEF IssueCommand, Moves, Handles, Ready
  <2>3. CASE Refuse(t)
    <3>1. Ready(t)
      BY <2>3 DEF Refuse
    <3>2. ~NamedFile(Line(t))
      <4> DEFINE line == Line(t)
                 n == Len(line)
      <4>1. \/ n >= 3
            \/ n = 2 /\ (line[1] # "file" \/ line[2] \notin Files)
            \/ n = 1
            \/ line = <<>>
        BY <2>3 DEF Refuse
      <4>2. n \in Nat
        BY <3>1, ReadyShape, LenProperties
      <4> HIDE DEF n
      <4>4. line = <<>> => n = 0
        BY DEF n
      <4> HIDE DEF line
      <4>3. n # 2 \/ line[1] # "file" \/ line[2] \notin Files
        BY <4>1, <4>2, <4>4
      <4> QED BY <4>3, Zenon DEF NamedFile, n, line
    <3> QED BY <2>3, <3>1, <3>2 DEF Refuse, Moves, Handles, Ready
  <2>4. CASE ReadFile(t)
    BY <2>4 DEF ReadFile, NamesFile, NamedFile, Moves, Opens
  <2>5. CASE Overflow(t)
    BY <2>5 DEF Moves
  <2>6. CASE Exit(t)
    <3>1. Ready(t) /\ Line(t) = <<"exit">>
      BY <2>6 DEF Exit
    <3>2. ~NamedFile(Line(t))
      BY <3>1 DEF NamedFile
    <3> QED BY <2>6, <3>1, <3>2 DEF Exit, Moves, Handles
  <2>7. CASE Return(t)
    BY <2>7 DEF Moves
  <2> QED BY <1>4, <2>1, <2>2, <2>3, <2>4, <2>5, <2>6, <2>7 DEF ThreadStep
<1>5. ASSUME NEW h \in Hosts, Receive(h) PROVE Rests
  BY <1>5 DEF Receive, Rests
<1>6. ASSUME UNCHANGED vars PROVE Rests
  BY <1>6 DEF vars, history, Rests
<1>7. Terminal \in Threads /\ \A h \in Elevating : h \in Threads
  BY DEF Threads
<1> QED BY <1>1, <1>2, <1>3, <1>4, <1>5, <1>6, <1>7 DEF Next

\* A file has lines.
LEMMA FileLines ==
  ASSUME TypeOK, NEW t \in Threads, Ready(t), NamedFile(Line(t))
  PROVE  Line(t)[2] \in Files /\ Contents[Line(t)[2]] \in LineSeq
BY ConsoleAssumption DEF NamedFile, LineSeq

LEMMA MovesType ==
  ASSUME TypeOK, NEW t \in Threads, Moves(t)
  PROVE  /\ stack' \in [Threads -> Seq(LineSeq)]
         /\ given' \in [Threads -> LineSeq]
         /\ handled' \in [Threads -> LineSeq]
         /\ up' \in {"running", "exited", "overflowed"}
<1>1. stack \in [Threads -> Seq(LineSeq)] /\ given \in [Threads -> LineSeq]
      /\ handled \in [Threads -> LineSeq]
  BY DEF TypeOK
<1>2. ASSUME NEW lines \in LineSeq, Starts(t, lines) PROVE
        /\ stack' \in [Threads -> Seq(LineSeq)] /\ given' \in [Threads -> LineSeq]
        /\ UNCHANGED <<handled, up>>
  <2>1. given[t] \o lines \in LineSeq
    BY <1>1, ConcatProperties DEF LineSeq
  <2>2. <<lines>> \in Seq(LineSeq)
    <3> HIDE DEF LineSeq
    <3> QED OBVIOUS
  <2> QED BY <1>1, <1>2, <2>1, <2>2 DEF Starts, Give
<1>3. ASSUME Ready(t), NEW frames \in Seq(LineSeq), Turn(t, frames) PROVE
        /\ stack' \in [Threads -> Seq(LineSeq)] /\ handled' \in [Threads -> LineSeq]
  <2>1. Append(handled[t], Line(t)) \in LineSeq
    BY <1>1, <1>3, ReadyShape, AppendProperties DEF LineSeq
  <2> QED BY <1>1, <1>3, <2>1 DEF Turn
<1>4. CASE \E lines \in LineSeq : Starts(t, lines)
  BY <1>1, <1>2, <1>4 DEF TypeOK
<1>5. CASE Handles(t)
  BY <1>1, <1>3, <1>5, ReadyShape DEF Handles
<1>6. CASE Opens(t)
  <2>1. Append(After(t), Contents[Line(t)[2]]) \in Seq(LineSeq)
    <3>1. After(t) \in Seq(LineSeq) /\ Contents[Line(t)[2]] \in LineSeq
      BY <1>6, ReadyShape, FileLines DEF Opens
    <3> QED BY <3>1, AppendProperties
  <2> QED BY <1>1, <1>3, <1>6, <2>1 DEF Opens, TypeOK
<1>7. CASE Return(t)
  <2>1. Below(stack[t]) \in Seq(LineSeq)
    BY <1>1, <1>7, StackShape, EmptySeq DEF Return, Depth
  <2>2. stack' = [stack EXCEPT ![t] = Below(stack[t])]
    BY <1>7 DEF Return, Below, Depth
  <2> QED BY <1>1, <1>7, <2>1, <2>2 DEF Return, TypeOK, history
<1>8. CASE Overflow(t)
  BY <1>1, <1>8 DEF Overflow, history
<1> QED BY <1>4, <1>5, <1>6, <1>7, <1>8 DEF Moves

LEMMA TypeInit == Init => TypeOK
<1> SUFFICES ASSUME Init PROVE TypeOK
  OBVIOUS
<1>1. <<>> \in Seq(LineSeq) /\ <<>> \in LineSeq
  BY EmptySeq DEF LineSeq
<1> QED BY <1>1 DEF Init, TypeOK, FirstNumber

LEMMA TypeStep == TypeOK /\ [Next]_vars => TypeOK'
<1> SUFFICES ASSUME TypeOK, [Next]_vars PROVE TypeOK'
  OBVIOUS
<1>1. /\ stack' \in [Threads -> Seq(LineSeq)]
      /\ given' \in [Threads -> LineSeq]
      /\ handled' \in [Threads -> LineSeq]
      /\ up' \in {"running", "exited", "overflowed"}
  BY StepMoves, MovesType DEF TypeOK, Rests
<1>2. seqNum' \in [Hosts -> Nat \ {0}] /\ input' \in {"open", "ended"}
  <2>1. CASE \E t \in Threads : IssueCommand(t)
    BY <2>1, ConsoleAssumption DEF IssueCommand, Accepted, TypeOK
  <2>2. CASE \E t \in Threads : ThreadStep(t) /\ ~IssueCommand(t)
    BY <2>2 DEF ThreadStep, AnswerElevation, Refuse, ReadFile, Overflow, Exit, Return, history,
                TypeOK
  <2>3. CASE \E line \in Lines : TypeLine(line)
    BY <2>3 DEF TypeLine, TypeOK
  <2>4. CASE RepeatLine \/ \E h \in Elevating, record \in Records : Elevate(h, record)
    BY <2>4 DEF RepeatLine, Elevate, TypeOK
  <2>5. CASE (\E h \in Hosts : Receive(h)) \/ UNCHANGED vars
    BY <2>5 DEF Receive, vars, TypeOK
  <2> QED BY <2>1, <2>2, <2>3, <2>4, <2>5 DEF Next
<1>3. input' = "ended" => given'[Terminal] # <<>>
  <2>1. Terminal \in Threads
    BY DEF Threads
  <2>2. given[Terminal] # <<>> => given'[Terminal] # <<>>
    <3>1. CASE UNCHANGED given
      BY <3>1
    <3>2. CASE \E t \in Threads, lines \in LineSeq : Starts(t, lines)
      <4>1. PICK t \in Threads, lines \in LineSeq : given' = [given EXCEPT ![t] = @ \o lines]
        BY <3>2 DEF Starts, Give
      <4>2. given \in [Threads -> LineSeq]
        BY DEF TypeOK
      <4>3. given'[Terminal] = given[Terminal] \/ given'[Terminal] = given[Terminal] \o lines
        BY <2>1, <4>1, <4>2
      <4>4. given[Terminal] \o lines = <<>> => given[Terminal] = <<>>
        BY <2>1, <4>2, ConcatEqualIffEmpty DEF LineSeq
      <4> QED BY <4>3, <4>4
    <3> QED BY <3>1, <3>2, StepMoves
            DEF Moves, Handles, Opens, Return, Overflow, Rests, history
  <2>3. CASE input' = input
    BY <2>2, <2>3 DEF TypeOK
  <2>4. CASE \E line \in Lines : TypeLine(line)
    <3>1. PICK line \in Lines : given' = [given EXCEPT ![Terminal] = @ \o <<line>>]
      BY <2>4 DEF TypeLine, Give
    <3>2. given[Terminal] \in Seq(Seq(STRING)) /\ <<line>> \in Seq(Seq(STRING)) /\ <<line>> # <<>>
      BY <2>1, ConsoleAssumption DEF TypeOK, LineSeq
    <3>3. given'[Terminal] = given[Terminal] \o <<line>>
      BY <2>1, <3>1 DEF TypeOK
    <3> HIDE DEF TypeOK
    <3> QED BY <3>2, <3>3, ConcatEqualIffEmpty
  <2> QED BY <2>3, <2>4
          DEF Next, ThreadStep, AnswerElevation, IssueCommand, Refuse, ReadFile, Overflow, Exit,
              Return, RepeatLine, Elevate, Receive, vars
<1> QED BY <1>1, <1>2, <1>3 DEF TypeOK

-----------------------------------------------------------------------------
(* The messages of a run *)

LEMMA DeliveredInit == Init => Delivered
<1> SUFFICES ASSUME Init PROVE Delivered
  OBVIOUS
<1>1. Paired(<<>>, <<>>, <<>>)
  <2>1. \A X : <<>> \in Seq(X)
    BY EmptySeq
  <2>2. Len(<<>>) = 0 /\ 0 + 0 = 0 /\ 1..0 = {}
    OBVIOUS
  <2> QED BY <2>1, <2>2, Zenon DEF Paired
<1> QED BY <1>1 DEF Init, Delivered

\* The answer of the configuration about a packet.
LEMMA AnswerSendable ==
  ASSUME NEW word \in {"retry", "drop"},
         NEW m, m = [seq |-> 0, ack |-> 1, elevId |-> 0, isAuthentication |-> FALSE,
                     isElev |-> TRUE, isError |-> FALSE, type |-> TypeNumber.NoType,
                     command |-> EnumCommand(word), body |-> <<>>]
  PROVE  m \in Sendable
<1>1. EnumCommand(word) \in {CommandNumber.Retry, CommandNumber.Drop}
  BY DEF EnumCommand
<1>2. <<>> \in Seq(STRING)
  BY EmptySeq
<1>3. EnumCommand(word) \in CommandNumbers /\ TypeNumber.NoType \in TypeNumbers
  BY <1>1, Numbers DEF CommandNumbers, TypeNumbers
<1>4. m \in Message
  BY <1>2, <1>3 DEF Message
<1> QED BY <1>1, <1>4 DEF Sendable

\* A command of a user.
LEMMA CommandSendable ==
  ASSUME NEW line \in Seq(STRING), Accepted(line), NEW n \in Nat \ {0},
         NEW m, m = [seq |-> n, ack |-> 0, elevId |-> 0, isAuthentication |-> FALSE,
                     isElev |-> FALSE, isError |-> FALSE, type |-> EnumType(line[2]),
                     command |-> EnumCommand(line[1]), body |-> SubSeq(line, 4, Len(line))]
  PROVE  m \in Sendable
<1>1. EnumType(line[2]) \in 1..7
  <2>1. line[2] \in ValidTypes
    BY DEF Accepted
  <2>2. \A w \in ValidTypes : EnumType(w) \in 1..7
    BY Numbers DEF ValidTypes, EnumType
  <2> QED BY <2>1, <2>2
<1>2. EnumCommand(line[1]) \in 1..3
  <2>1. line[1] \in ValidCommands
    BY DEF Accepted
  <2>2. \A w \in ValidCommands : EnumCommand(w) \in 1..3
    BY Numbers DEF ValidCommands, EnumCommand
  <2> QED BY <2>1, <2>2
<1>3. SubSeq(line, 4, Len(line)) \in Seq(STRING)
  <2>1. Len(line) \in Nat /\ \A i \in 4..Len(line) : line[i] \in STRING
    BY LenProperties, ElementOfSeq
  <2>2. 4 \in Int /\ Len(line) \in Int
    BY <2>1
  <2> QED BY <2>1, <2>2, SubSeqProperties
<1>4. EnumType(line[2]) \in TypeNumbers /\ EnumCommand(line[1]) \in CommandNumbers
  BY <1>1, <1>2 DEF TypeNumbers, CommandNumbers
<1>5. m \in Message
  BY <1>3, <1>4 DEF Message
<1> QED BY <1>1, <1>2, <1>5 DEF Sendable

LEMMA TransmitDelivers ==
  ASSUME Delivered, NEW h \in Hosts, NEW m \in Sendable, Transmit(h, m), UNCHANGED answered
  PROVE  Delivered'
<1>1. wire' = [wire EXCEPT ![h] = Append(@, Encode(m))]
      /\ sent' = [sent EXCEPT ![h] = Append(@, m)]
  BY DEF Transmit
<1>2. Paired(answered[h], Append(wire[h], Encode(m)), Append(sent[h], m))
  BY PairedSend DEF Delivered
<1>3. /\ wire' = [g \in Hosts |-> IF g = h THEN Append(wire[h], Encode(m)) ELSE wire[g]]
      /\ sent' = [g \in Hosts |-> IF g = h THEN Append(sent[h], m) ELSE sent[g]]
      /\ answered' = [g \in Hosts |-> answered[g]]
  BY <1>1 DEF Delivered
<1>4. /\ wire' = [g \in Hosts |-> wire'[g]] /\ sent' = [g \in Hosts |-> sent'[g]]
      /\ answered' = [g \in Hosts |-> answered'[g]]
  BY <1>3
<1>5. ASSUME NEW g \in Hosts PROVE Paired(answered'[g], wire'[g], sent'[g])
  <2>1. CASE g = h
    BY <2>1, <1>2, <1>3
  <2>2. CASE g # h
    BY <2>2, <1>3 DEF Delivered
  <2> QED BY <2>1, <2>2
<1> QED BY <1>4, <1>5 DEF Delivered

LEMMA DeliveredStep == TypeOK /\ Delivered /\ [Next]_vars => Delivered'
<1> SUFFICES ASSUME TypeOK, Delivered, [Next]_vars PROVE Delivered'
  OBVIOUS
<1>1. CASE \E t \in Threads : AnswerElevation(t)
  <2>1. PICK t \in Threads : AnswerElevation(t)
    BY <1>1
  <2>2. Head(Line(t)) \in {"retry", "drop"} /\ t \in Hosts
    BY <2>1, ConsoleAssumption DEF AnswerElevation, IsAnswer, Threads
  <2> DEFINE m == [seq |-> 0, ack |-> 1, elevId |-> 0, isAuthentication |-> FALSE,
                   isElev |-> TRUE, isError |-> FALSE, type |-> TypeNumber.NoType,
                   command |-> EnumCommand(Head(Line(t))), body |-> <<>>]
  <2>3. m \in Sendable
    BY <2>2, AnswerSendable
  <2>4. Transmit(t, m) /\ UNCHANGED answered
    BY <2>1 DEF AnswerElevation
  <2> HIDE DEF m
  <2> QED BY <2>2, <2>3, <2>4, TransmitDelivers
<1>2. CASE \E t \in Threads : IssueCommand(t)
  <2>1. PICK t \in Threads : IssueCommand(t)
    BY <1>2
  <2> DEFINE h == Line(t)[3]
             m == [seq |-> seqNum[h], ack |-> 0, elevId |-> 0, isAuthentication |-> FALSE,
                   isElev |-> FALSE, isError |-> FALSE, type |-> EnumType(Line(t)[2]),
                   command |-> EnumCommand(Line(t)[1]),
                   body |-> SubSeq(Line(t), 4, Len(Line(t)))]
  <2>2. Accepted(Line(t)) /\ Ready(t)
    BY <2>1 DEF IssueCommand
  <2>3. h \in Hosts /\ seqNum[h] \in Nat \ {0}
    BY <2>2, ConsoleAssumption DEF Accepted, TypeOK
  <2>4. m \in Sendable
    BY <2>2, <2>3, ReadyShape, CommandSendable
  <2>5. Transmit(h, m) /\ UNCHANGED answered
    BY <2>1 DEF IssueCommand
  <2> HIDE DEF m, h
  <2> QED BY <2>3, <2>4, <2>5, TransmitDelivers
<1>3. CASE \E h \in Hosts : Receive(h)
  <2>1. PICK h \in Hosts : Receive(h)
    BY <1>3
  <2> DEFINE d == Decode(Head(wire[h]))
             b == [message |-> d, ran |-> IF d.seq = 0 THEN NotACommand ELSE Operation(d)]
  <2>2. /\ wire[h] # <<>>
        /\ wire' = [wire EXCEPT ![h] = Tail(@)]
        /\ answered' = [answered EXCEPT ![h] = Append(@, b)]
        /\ sent' = sent
    BY <2>1 DEF Receive
  <2>3. Paired(Append(answered[h], b), Tail(wire[h]), sent[h])
    BY <2>2, PairedReceive DEF Delivered
  <2> HIDE DEF b
  <2>4. /\ wire' = [g \in Hosts |-> IF g = h THEN Tail(wire[h]) ELSE wire[g]]
        /\ answered' = [g \in Hosts |-> IF g = h THEN Append(answered[h], b) ELSE answered[g]]
        /\ sent' = [g \in Hosts |-> sent[g]]
    BY <2>2 DEF Delivered
  <2>5. /\ wire' = [g \in Hosts |-> wire'[g]] /\ sent' = [g \in Hosts |-> sent'[g]]
        /\ answered' = [g \in Hosts |-> answered'[g]]
    BY <2>4
  <2>6. ASSUME NEW g \in Hosts PROVE Paired(answered'[g], wire'[g], sent'[g])
    <3>1. CASE g = h
      BY <3>1, <2>3, <2>4
    <3>2. CASE g # h
      BY <3>2, <2>4 DEF Delivered
    <3> QED BY <3>1, <3>2
  <2> QED BY <2>5, <2>6 DEF Delivered
<1>4. CASE UNCHANGED <<wire, sent, answered>>
  BY <1>4 DEF Delivered
<1> QED BY <1>1, <1>2, <1>3, <1>4
        DEF Next, ThreadStep, Refuse, ReadFile, Overflow, Exit, Return, RepeatLine, Elevate,
            TypeLine, vars, history

\* What was answered is the answer to a message that was sent.
LEMMA Answered ==
  ASSUME Delivered, NEW h \in Hosts, NEW i \in DOMAIN answered[h]
  PROVE  /\ i \in DOMAIN sent[h] /\ sent[h][i] \in Sendable
         /\ answered[h][i] = Answer(sent[h][i])
<1> DEFINE a == answered[h]
           w == wire[h]
           s == sent[h]
<1>1. Paired(a, w, s)
  BY DEF Delivered
<1> HIDE DEF a, w, s
<1>2. /\ DOMAIN a = 1..Len(a) /\ Len(a) \in Nat /\ Len(w) \in Nat
      /\ DOMAIN s = 1..Len(s) /\ Len(s) = Len(a) + Len(w)
  BY <1>1, LenProperties DEF Paired
<1>3. i \in DOMAIN a
  BY DEF a
<1>4. i \in 1..Len(a) /\ i \in 1..Len(s)
  BY <1>2, <1>3
<1>5. s[i] \in Sendable /\ a[i] = Answer(s[i])
  BY <1>1, <1>4, ElementOfSeq DEF Paired
<1> QED BY <1>2, <1>4, <1>5 DEF a, s

\* Number 0 is read as 0.
LEMMA NoNumber == OnWire(0) = 0
<1>1. 0 \in 0..(SignLimit - 1)
  BY BaseAssumption DEF SignLimit
<1> QED BY <1>1, WireIdentity

\* The parts of an answer.
LEMMA AnswerParts ==
  ASSUME NEW m \in Sendable, NEW x, x = Answer(m)
  PROVE  /\ x.message = Decode(Encode(m))
         /\ x.message.seq = OnWire(m.seq) /\ x.message.type = m.type
         /\ x.message.command = m.command /\ x.message.body = m.body
         /\ x.ran = IF x.message.seq = 0 THEN NotACommand ELSE Operation(x.message)
<1> DEFINE d == Decode(Encode(m))
<1>1. m \in Message
  BY DEF Sendable
<1>2. d.seq = OnWire(m.seq) /\ d.type = m.type /\ d.command = m.command /\ d.body = m.body
  BY <1>1, DecodedFields
<1>3. x = [message |-> d, ran |-> IF d.seq = 0 THEN NotACommand ELSE Operation(d)]
  BY DEF Answer
<1> HIDE DEF d
<1>4. x.message = d /\ x.ran = IF d.seq = 0 THEN NotACommand ELSE Operation(d)
  BY <1>3
<1> QED BY <1>2, <1>4 DEF d

LEMMA DeliveredUnderstood == Delivered => AcceptedIsUnderstood
<1> SUFFICES ASSUME Delivered, NEW h \in Hosts, NEW i \in DOMAIN answered[h],
                    answered[h][i].message.seq # 0
             PROVE  answered[h][i].ran # NotACommand
  BY DEF AcceptedIsUnderstood
<1> DEFINE m == sent[h][i]
           x == answered[h][i]
           d == x.message
<1>1. m \in Sendable /\ x = Answer(m)
  BY Answered
<1> HIDE DEF m, x
<1>2. /\ d.seq = OnWire(m.seq) /\ d.type = m.type /\ d.command = m.command
      /\ d.body = m.body /\ x.ran = IF d.seq = 0 THEN NotACommand ELSE Operation(d)
  BY <1>1, AnswerParts
<1>3. d.seq # 0
  BY DEF x
<1>4. m.seq # 0
  BY <1>2, <1>3, NoNumber
<1>5. m.type \in 1..7 /\ m.command \in 1..3 /\ m.body \in Seq(STRING)
  BY <1>1, <1>4 DEF Sendable, Message
<1>6. Operation(d) # NotACommand
  <2> HIDE DEF d
  <2> QED BY <1>2, <1>5, OperationRuns
<1> QED BY <1>2, <1>3, <1>6 DEF x

\* No host got so many commands that their numbers do not fit 16 bits.
NumbersFit == \A h \in Hosts : \A i \in DOMAIN sent[h] : sent[h][i].seq < Base * Base

\* A command to add or remove something was run then.
LEMMA AddRuns ==
  ASSUME Delivered, NumbersFit, NEW h \in Hosts, NEW i \in DOMAIN answered[h],
         answered[h][i].message.command \in {CommandNumber.Add, CommandNumber.Remove}
  PROVE  LET d == answered[h][i].message IN
         /\ d.type \in 1..7 /\ d.body \in Seq(STRING)
         /\ answered[h][i].ran = Operation(d)
         /\ \E e : d = Decode(e)
<1> DEFINE m == sent[h][i]
           x == answered[h][i]
           d == x.message
<1>1. m \in Sendable /\ x = Answer(m) /\ m.seq < Base * Base
  BY Answered DEF NumbersFit
<1> HIDE DEF m, x
<1>2. /\ d.seq = OnWire(m.seq) /\ d.type = m.type /\ d.command = m.command
      /\ d.body = m.body /\ x.ran = IF d.seq = 0 THEN NotACommand ELSE Operation(d)
      /\ d = Decode(Encode(m))
  BY <1>1, AnswerParts
<1>3. m.command \in {CommandNumber.Add, CommandNumber.Remove}
  BY <1>2 DEF x
<1>4. m.seq # 0
  BY <1>1, <1>3, Numbers DEF Sendable
<1>5. m.type \in 1..7 /\ m.body \in Seq(STRING) /\ m.seq \in Nat
  BY <1>1, <1>4 DEF Sendable, Message
<1>6. m.seq \in 1..(Base * Base - 1)
  <2>1. Base * Base \in Nat
    BY BaseAssumption
  <2> QED BY <2>1, <1>1, <1>4, <1>5
<1>7. OnWire(m.seq) # 0
  BY <1>6, NeverReadAsZero
<1> QED BY <1>2, <1>5, <1>7 DEF x

LEMMA DeliveredKept == Delivered /\ NumbersFit => WordsAreKept
<1> SUFFICES ASSUME Delivered, NumbersFit, NEW h \in Hosts, NEW i \in DOMAIN answered[h],
                    answered[h][i].message.command \in {CommandNumber.Add, CommandNumber.Remove}
             PROVE  Kept(Taken(answered[h][i].message.type, answered[h][i].message.body),
                         answered[h][i].ran)
  BY DEF WordsAreKept, Kept
<1> QED BY AddRuns, OperationKept

LEMMA DeliveredUndone == Delivered /\ NumbersFit => RemoveUndoesAdd
<1> SUFFICES ASSUME Delivered, NumbersFit, NEW h \in Hosts, NEW i \in DOMAIN answered[h],
                    answered[h][i].message.command = CommandNumber.Add
             PROVE  LET m == answered[h][i].message
                        Removal(body) ==
                          Operation([m EXCEPT !.command = CommandNumber.Remove, !.body = body])
                        undoing == Undoing(m.type, m.body)
                        added == Target(answered[h][i].ran)
                    IN  /\ Target(Removal(undoing)) = added
                        /\ undoing # m.body => Target(Removal(m.body)) # added
  BY Zenon DEF RemoveUndoesAdd
<1> PICK d, ran : d = answered[h][i].message /\ ran = answered[h][i].ran
  OBVIOUS
<1> DEFINE t == d.type
           o == Object(t, d.body)
           undoing == Undoing(t, d.body)
<1>1. /\ t \in 1..7 /\ d.body \in Seq(STRING)
      /\ ran = Operation(d)
      /\ \E e : d = Decode(e)
  BY AddRuns
<1>2. \A body \in Seq(STRING) :
        Target(Operation([d EXCEPT !.command = CommandNumber.Remove, !.body = body]))
          = [of |-> BeforeVerb(t), which |-> Object(t, body)]
  <2> TAKE body \in Seq(STRING)
  <2> PICK u : u = [d EXCEPT !.command = CommandNumber.Remove, !.body = body]
    OBVIOUS
  <2>1. \A n1, n2, n3, f1, f2, f3, k, c, b, r, x :
          LET v == [seq |-> n1, ack |-> n2, elevId |-> n3, isAuthentication |-> f1,
                    isElev |-> f2, isError |-> f3, type |-> k, command |-> c, body |-> b]
              w == [v EXCEPT !.command = r, !.body = x]
          IN w.type = v.type /\ w.command = r /\ w.body = x
    OBVIOUS
  <2>2. PICK n1, n2, n3, f1, f2, f3, k, c, b :
          d = [seq |-> n1, ack |-> n2, elevId |-> n3, isAuthentication |-> f1,
               isElev |-> f2, isError |-> f3, type |-> k, command |-> c, body |-> b]
    BY <1>1, Zenon DEF Decode
  <2>3. u.type = t /\ u.command = CommandNumber.Remove /\ u.body = body
    BY <2>1, <2>2, Zenon
  <2>4. CommandNumber.Remove # CommandNumber.Add
    BY Numbers
  <2>5. Target(Operation(u)) = [of |-> BeforeVerb(t), which |-> Object(t, body)]
    BY <1>1, <2>3, <2>4, OperationTarget
  <2> QED BY <2>5
<1>3. Target(ran) = [of |-> BeforeVerb(t), which |-> Which(t, o)]
  BY <1>1, OperationTarget
<1>4. undoing \in Seq(STRING)
  BY <1>1, UndoingType
<1>5. /\ Object(t, undoing) = Which(t, o)
      /\ undoing # d.body => o # Which(t, o)
  BY <1>1, UndoingWhich
<1>6. Target(Operation([d EXCEPT !.command = CommandNumber.Remove, !.body = undoing]))
        = Target(ran)
  BY <1>2, <1>3, <1>4, <1>5, Zenon
<1>7. ASSUME undoing # d.body
      PROVE  Target(Operation([d EXCEPT !.command = CommandNumber.Remove, !.body = d.body]))
               # Target(ran)
  <2>1. Target(Operation([d EXCEPT !.command = CommandNumber.Remove, !.body = d.body]))
          = [of |-> BeforeVerb(t), which |-> o]
    BY <1>1, <1>2, Zenon
  <2>2. \A x, y, f : x # y => [of |-> f, which |-> x] # [of |-> f, which |-> y]
    <3> TAKE x, y, f
    <3>1. [of |-> f, which |-> x].which = x /\ [of |-> f, which |-> y].which = y
      OBVIOUS
    <3> QED BY <3>1, Zenon
  <2>3. o # Which(t, o)
    BY <1>5, <1>7
  <2> PICK x, y : x = o /\ y = Which(t, o)
    OBVIOUS
  <2>4. [of |-> BeforeVerb(t), which |-> x] # [of |-> BeforeVerb(t), which |-> y]
    BY <2>2, <2>3
  <2> QED BY <1>3, <2>1, <2>4
<1> QED BY <1>6, <1>7, Zenon DEF t, undoing

\* The numbers and lengths of all messages have a top byte below 128.
MessagesFit ==
  \A h \in Hosts : \A i \in DOMAIN sent[h] :
    sent[h][i].seq < SignLimit /\ HeaderLength + Len(sent[h][i].body) < SignLimit

\* Such a message arrives as it was.
LEMMA SentIsRead ==
  ASSUME NEW m \in Sendable, m.seq < SignLimit, HeaderLength + Len(m.body) < SignLimit
  PROVE  Decode(Encode(m)) = m /\ GetLength(Encode(m)) = Len(Encode(m))
<1>1. m \in Message /\ m.ack \in {0, 1} /\ m.elevId = 0
  BY DEF Sendable
<1>2. SignLimit \in Nat /\ 1 < SignLimit
  BY BaseAssumption DEF SignLimit
<1>3. m.ack < SignLimit /\ m.elevId < SignLimit
  BY <1>1, <1>2
<1> QED BY <1>1, <1>3, MessageRoundTrip, LengthIsRead

LEMMA DeliveredRead == Delivered /\ MessagesFit => ReadAsSent
<1> SUFFICES ASSUME Delivered, MessagesFit, NEW h \in Hosts,
                    NEW a, a = answered[h], NEW w, w = wire[h], NEW s, s = sent[h]
             PROVE  /\ [i \in DOMAIN a |-> a[i].message] \o [i \in DOMAIN w |-> Decode(w[i])] = s
                    /\ \A i \in DOMAIN w : GetLength(w[i]) = Len(w[i])
  BY DEF ReadAsSent
<1> DEFINE p == Len(a)
           q == Len(w)
           n == Len(s)
<1>1. Paired(a, w, s)
  BY DEF Delivered
<1>2. /\ p \in Nat /\ q \in Nat /\ n = p + q /\ DOMAIN a = 1..p /\ DOMAIN w = 1..q
      /\ DOMAIN s = 1..n /\ \A i \in 1..n : s[i] \in Sendable
      /\ s \in Seq(Sendable)
  BY <1>1, LenProperties, ElementOfSeq DEF Paired
<1>3. \A i \in 1..n : s[i].seq < SignLimit /\ HeaderLength + Len(s[i].body) < SignLimit
  BY <1>2 DEF MessagesFit
<1>4. \A i \in 1..n : /\ Decode(Encode(s[i])) = s[i]
                      /\ GetLength(Encode(s[i])) = Len(Encode(s[i]))
  BY <1>2, <1>3, SentIsRead
<1>5. (\A i \in 1..p : a[i] = Answer(s[i])) /\ \A i \in 1..q : w[i] = Encode(s[p + i])
  BY <1>1 DEF Paired
<1> HIDE DEF p, q, n
<1>6. ASSUME NEW i \in 1..p PROVE a[i].message = s[i] /\ s[i] \in Sendable
  <2>1. i \in 1..n
    BY <1>2
  <2>2. s[i] \in Sendable /\ a[i] = Answer(s[i])
    BY <2>1, <1>2, <1>5
  <2> QED BY <2>1, <2>2, <1>4, AnswerParts
<1>7. ASSUME NEW i \in 1..q
      PROVE  Decode(w[i]) = s[p + i] /\ GetLength(w[i]) = Len(w[i]) /\ s[p + i] \in Sendable
  <2>1. p + i \in 1..n
    BY <1>2
  <2> QED BY <2>1, <1>2, <1>4, <1>5
<1> DEFINE f == [i \in 1..p |-> a[i].message]
           g == [i \in 1..q |-> Decode(w[i])]
<1>8. f \in Seq(Sendable) /\ Len(f) = p /\ \A i \in 1..p : f[i] = s[i]
  <2>1. f \in [1..p -> Sendable]
    BY <1>6
  <2>2. f \in Seq(Sendable)
    BY <2>1, <1>2
  <2>3. Len(f) = p
    BY <1>2
  <2> QED BY <2>2, <2>3, <1>6
<1>9. g \in Seq(Sendable) /\ Len(g) = q /\ \A i \in 1..q : g[i] = s[p + i]
  <2>1. g \in [1..q -> Sendable]
    BY <1>7
  <2>2. g \in Seq(Sendable)
    BY <2>1, <1>2
  <2>3. Len(g) = q
    BY <1>2
  <2> QED BY <2>2, <2>3, <1>7
<1> HIDE DEF f, g
<1>10. f \o g = s
  <2> DEFINE fg == f \o g
  <2>1. /\ fg \in Seq(Sendable) /\ Len(fg) = Len(f) + Len(g)
        /\ \A i \in 1..(Len(f) + Len(g)) : fg[i] = IF i <= Len(f) THEN f[i] ELSE g[i - Len(f)]
    BY <1>8, <1>9, ConcatProperties
  <2>2. /\ Len(fg) = p + q
        /\ \A i \in 1..(p + q) : fg[i] = IF i <= p THEN f[i] ELSE g[i - p]
    BY <2>1, <1>8, <1>9, Zenon
  <2> HIDE DEF fg
  <2>3. ASSUME NEW i \in 1..(p + q) PROVE fg[i] = s[i]
    <3>1. CASE i <= p
      <4>1. i \in 1..p
        BY <3>1, <1>2
      <4> QED BY <3>1, <4>1, <2>2, <1>8, Zenon
    <3>2. CASE ~(i <= p)
      <4> DEFINE k == i - p
      <4>1. k \in 1..q /\ p + k = i
        BY <3>2, <1>2
      <4>2. fg[i] = g[k]
        BY <3>2, <2>2
      <4> HIDE DEF k
      <4>3. g[k] = s[p + k]
        BY <4>1, <1>9, Zenon
      <4> QED BY <4>1, <4>2, <4>3, Zenon
    <3> QED BY <3>1, <3>2
  <2>4. Len(s) = p + q /\ Len(fg) = Len(s)
    BY <2>2, <1>2 DEF n
  <2>5. \A i \in 1..Len(fg) : fg[i] = s[i]
    BY <2>2, <2>3, Zenon
  <2> QED BY <2>1, <2>4, <2>5, <1>2, SeqEqual DEF fg
<1> QED BY <1>2, <1>7, <1>10, Zenon DEF f, g

-----------------------------------------------------------------------------
(* Files that lead to each other *)

LEMMA NamedIsFile ==
  ASSUME NEW f
  PROVE  Named(f) \subseteq Files
BY DEF Named, NamedFile

LEMMA LeadsFirst ==
  ASSUME NEW f, NEW g \in Named(f)
  PROVE  Leads(f, g)
BY DEF Leads

LEMMA LeadsOn ==
  ASSUME NEW f, NEW g, NEW e \in Named(g), Leads(f, g)
  PROVE  Leads(f, e)
BY DEF Leads

\* The files that lines ask for.
AskedFor(lines) == {l[2] : l \in {l \in Range(lines) : NamedFile(l)}}

\* Where the lines of loop k come from, which reads file n[k] unless it is the first.
Source(lines, n, k) == IF k = 1 THEN Range(lines) ELSE Range(Contents[n[k]])

\* The loops read lines of files n[2], n[3], ..., each of which leads to all that
\* follow, and the first of which the lines asked for.
Trail(frames, lines, n) ==
  /\ n \in [2..Len(frames) -> Files]
  /\ \A k \in 1..Len(frames) : Range(frames[k]) \subseteq Source(lines, n, k)
  /\ 2 <= Len(frames) => n[2] \in AskedFor(lines)
  /\ \A i, k \in 2..Len(frames) : i < k => Leads(n[i], n[k])

\* A line that is left, the others stay.
LEMMA TrailChange ==
  ASSUME NEW frames \in Seq(LineSeq), frames # <<>>, NEW lines, NEW n, Trail(frames, lines, n),
         NEW f \in LineSeq, Range(f) \subseteq Range(Top(frames))
  PROVE  Trail(Append(Below(frames), f), lines, n)
<1> DEFINE b == Below(frames)
           r == Append(b, f)
           d == Len(frames)
<1>1. /\ d \in Nat \ {0} /\ b \in Seq(LineSeq) /\ Len(b) = d - 1
      /\ frames = Append(b, Top(frames)) /\ Top(frames) \in LineSeq
  BY StackShape
<1>2. Top(frames) = frames[d]
  BY DEF Top
<1> HIDE DEF b
<1>3. Len(r) = Len(b) + 1 /\ r[Len(b) + 1] = f /\ \A k \in 1..Len(b) : r[k] = b[k]
  BY <1>1, AppendProperties
<1>4. \A k \in 1..Len(b) : frames[k] = b[k]
  BY <1>1, AppendProperties
<1> HIDE DEF d, r
<1>5. Len(b) + 1 = d
  BY <1>1
<1>6. Len(r) = d /\ r[d] = f
  BY <1>3, <1>5, Zenon
<1>7. /\ n \in [2..d -> Files]
      /\ \A k \in 1..d : Range(frames[k]) \subseteq Source(lines, n, k)
      /\ 2 <= d => n[2] \in AskedFor(lines)
      /\ \A i, k \in 2..d : i < k => Leads(n[i], n[k])
  BY DEF Trail, d
<1>8. ASSUME NEW k \in 1..d PROVE Range(r[k]) \subseteq Source(lines, n, k)
  <2>1. CASE k = d
    BY <2>1, <1>2, <1>6, <1>7
  <2>2. CASE k # d
    <3>1. k \in 1..Len(b)
      BY <2>2, <1>1
    <3>2. r[k] = frames[k]
      BY <3>1, <1>3, <1>4, Zenon
    <3> QED BY <3>2, <1>7
  <2> QED BY <2>1, <2>2
<1>9. Trail(r, lines, n)
  BY <1>6, <1>7, <1>8, Zenon DEF Trail
<1> QED BY <1>9 DEF r, b

\* A file that is named is opened.
LEMMA TrailPush ==
  ASSUME NEW frames \in Seq(LineSeq), frames # <<>>, NEW lines, NEW n, Trail(frames, lines, n),
         NEW line \in Source(lines, n, Len(frames)), NamedFile(line),
         NEW f \in LineSeq, Range(f) \subseteq Range(Contents[line[2]])
  PROVE  \E m : Trail(Append(frames, f), lines, m)
<1> DEFINE d == Len(frames)
           r == Append(frames, f)
           g == line[2]
           m == [k \in 2..(d + 1) |-> IF k <= d THEN n[k] ELSE g]
<1>1. d \in Nat \ {0} /\ g \in Files
  BY EmptySeq DEF NamedFile
<1>2. Len(r) = d + 1 /\ r[d + 1] = f /\ \A k \in 1..d : r[k] = frames[k]
  BY AppendProperties
<1>3. /\ n \in [2..d -> Files]
      /\ \A k \in 1..d : Range(frames[k]) \subseteq Source(lines, n, k)
      /\ 2 <= d => n[2] \in AskedFor(lines)
      /\ \A i, k \in 2..d : i < k => Leads(n[i], n[k])
  BY DEF Trail
<1>4. line \in Source(lines, n, d)
  OBVIOUS
<1> HIDE DEF d, r, g
<1>5. /\ m \in [2..(d + 1) -> Files] /\ m[d + 1] = g /\ \A k \in 2..d : m[k] = n[k]
  <2>1. \A k \in 2..(d + 1) : k <= d => k \in 2..d
    BY <1>1
  <2>2. m \in [2..(d + 1) -> Files]
    BY <2>1, <1>1, <1>3
  <2>3. d + 1 \in 2..(d + 1) /\ ~(d + 1 <= d)
    BY <1>1
  <2>4. \A k \in 2..d : k \in 2..(d + 1) /\ k <= d
    BY <1>1
  <2> QED BY <2>2, <2>3, <2>4, Zenon
<1> HIDE DEF m
<1>6. \A k \in 1..(d + 1) : k \in 1..d \/ k = d + 1
  BY <1>1
<1>7. \A k \in 2..(d + 1) : k \in 2..d \/ k = d + 1
  BY <1>1
<1>8. \A k \in 1..d : Source(lines, m, k) = Source(lines, n, k)
  <2>1. \A k \in 1..d : k # 1 => k \in 2..d
    BY <1>1
  <2> QED BY <2>1, <1>5, Zenon DEF Source
<1>9. Source(lines, m, d + 1) = Range(Contents[g])
  <2>1. d + 1 # 1
    BY <1>1
  <2> QED BY <2>1, <1>5, Zenon DEF Source
<1>10. \A k \in 1..(d + 1) : Range(r[k]) \subseteq Source(lines, m, k)
  <2>1. Range(r[d + 1]) \subseteq Source(lines, m, d + 1)
    BY <1>2, <1>9 DEF g
  <2>2. \A k \in 1..d : Range(r[k]) \subseteq Source(lines, m, k)
    BY <1>2, <1>3, <1>8, Zenon
  <2> QED BY <2>1, <2>2, <1>6, Zenon
<1>11. m[2] \in AskedFor(lines)
  <2>1. CASE d = 1
    <3>1. line \in Range(lines) /\ m[2] = g
      BY <2>1, <1>4, <1>5 DEF Source
    <3> QED BY <3>1 DEF AskedFor, g
  <2>2. CASE d # 1
    <3>1. 2 <= d /\ 2 \in 2..d
      BY <2>2, <1>1
    <3> QED BY <3>1, <1>3, <1>5
  <2> QED BY <2>1, <2>2
<1>12. \A i \in 2..d : Leads(n[i], g)
  <2> SUFFICES ASSUME NEW i \in 2..d PROVE Leads(n[i], g)
    OBVIOUS
  <2>1. d # 1 /\ d \in 2..d /\ i \in Nat
    BY <1>1
  <2>2. g \in Named(n[d])
    BY <2>1, <1>4 DEF Source, Named, g
  <2>3. CASE i = d
    BY <2>2, <2>3, LeadsFirst
  <2>4. CASE i # d
    <3>1. i < d
      BY <2>4, <1>1
    <3>2. Leads(n[i], n[d])
      BY <3>1, <2>1, <1>3
    <3> QED BY <3>2, <2>2, LeadsOn
  <2> QED BY <2>3, <2>4
<1>13. \A i, k \in 2..(d + 1) : i < k => Leads(m[i], m[k])
  <2> SUFFICES ASSUME NEW i \in 2..(d + 1), NEW k \in 2..(d + 1), i < k
               PROVE  Leads(m[i], m[k])
    OBVIOUS
  <2>1. i \in 2..d
    BY <1>1
  <2>2. CASE k \in 2..d
    BY <2>1, <2>2, <1>3, <1>5
  <2>3. CASE k = d + 1
    BY <2>1, <2>3, <1>5, <1>12
  <2> QED BY <2>2, <2>3, <1>7
<1>14. Trail(r, lines, m)
  BY <1>2, <1>5, <1>10, <1>11, <1>13, Zenon DEF Trail
<1> QED BY <1>14 DEF r

\* The end of a file.
LEMMA TrailPop ==
  ASSUME NEW frames \in Seq(LineSeq), frames # <<>>, NEW lines, NEW n, Trail(frames, lines, n)
  PROVE  \E m : Trail(Below(frames), lines, m)
<1> DEFINE d == Len(frames)
           b == Below(frames)
           m == [k \in 2..(d - 1) |-> n[k]]
<1>1. /\ d \in Nat \ {0} /\ b \in Seq(LineSeq) /\ Len(b) = d - 1
      /\ frames = Append(b, Top(frames)) /\ Top(frames) \in LineSeq
  BY StackShape
<1> HIDE DEF b
<1>2. \A k \in 1..Len(b) : frames[k] = b[k]
  BY <1>1, AppendProperties
<1>3. /\ n \in [2..d -> Files]
      /\ \A k \in 1..d : Range(frames[k]) \subseteq Source(lines, n, k)
      /\ 2 <= d => n[2] \in AskedFor(lines)
      /\ \A i, k \in 2..d : i < k => Leads(n[i], n[k])
  BY DEF Trail
<1> HIDE DEF d
<1>4. m \in [2..(d - 1) -> Files] /\ \A k \in 2..(d - 1) : m[k] = n[k] /\ k \in 2..d
  <2>1. \A k \in 2..(d - 1) : k \in 2..d
    BY <1>1
  <2> QED BY <2>1, <1>3
<1> HIDE DEF m
<1>5. \A k \in 1..(d - 1) : k \in 1..d /\ Source(lines, m, k) = Source(lines, n, k)
  <2>1. \A k \in 1..(d - 1) : k \in 1..d /\ (k # 1 => k \in 2..(d - 1))
    BY <1>1
  <2> QED BY <2>1, <1>4, Zenon DEF Source
<1>6. \A k \in 1..(d - 1) : Range(b[k]) \subseteq Source(lines, m, k)
  BY <1>1, <1>2, <1>3, <1>5, Zenon
<1>7. 2 <= d - 1 => m[2] \in AskedFor(lines)
  <2>1. 2 <= d - 1 => 2 \in 2..(d - 1) /\ 2 <= d
    BY <1>1
  <2> QED BY <2>1, <1>3, <1>4, Zenon
<1>8. \A i, k \in 2..(d - 1) : i < k => Leads(m[i], m[k])
  BY <1>3, <1>4, Zenon
<1>9. Trail(b, lines, m)
  BY <1>1, <1>4, <1>6, <1>7, <1>8, Zenon DEF Trail
<1> QED BY <1>9 DEF b

\* Every thread has such a trail.
Followed == \A t \in Threads : \E n : Trail(stack[t], given[t], n)

\* A stack that overflowed stays as it was then.
Overflown ==
  up = "overflowed" =>
    \E t \in Threads : /\ stack[t] # <<>> /\ Top(stack[t]) # <<>>
                       /\ NamedFile(Head(Top(stack[t])))
                       /\ Len(stack[t]) > MaxDepth

LEMMA TrailNone ==
  ASSUME NEW lines
  PROVE  \E n : Trail(<<>>, lines, n)
<1> DEFINE n == [k \in {} |-> 1]
<1>1. n \in [2..0 -> Files] /\ 1..0 = {} /\ 2..0 = {} /\ Len(<<>>) = 0 /\ ~(2 <= 0)
  OBVIOUS
<1> HIDE DEF n
<1>2. Trail(<<>>, lines, n)
  BY <1>1, Zenon DEF Trail
<1> QED BY <1>2

LEMMA TrailStart ==
  ASSUME NEW lines, NEW f, Range(f) \subseteq Range(lines)
  PROVE  \E n : Trail(<<f>>, lines, n)
<1> DEFINE n == [k \in {} |-> 1]
           r == <<f>>
<1>1. n \in [2..1 -> Files] /\ 2..1 = {} /\ ~(2 <= 1) /\ \A k \in 1..1 : k = 1
  OBVIOUS
<1>2. Len(r) = 1 /\ r[1] = f
  OBVIOUS
<1> HIDE DEF n, r
<1>3. \A k \in 1..1 : Range(r[k]) \subseteq Source(lines, n, k)
  BY <1>1, <1>2, Zenon DEF Source
<1>4. Trail(r, lines, n)
  BY <1>1, <1>2, <1>3, Zenon DEF Trail
<1> QED BY <1>4 DEF r

\* The lines behind the first one are lines.
LEMMA LessLines ==
  ASSUME NEW f \in LineSeq, f # <<>>
  PROVE  /\ Tail(f) \in LineSeq /\ Range(Tail(f)) \subseteq Range(f)
         /\ Head(f) \in Range(f)
<1>1. /\ Tail(f) \in LineSeq /\ Len(Tail(f)) = Len(f) - 1 /\ Len(f) \in Nat \ {0}
      /\ \A i \in 1..Len(Tail(f)) : Tail(f)[i] = f[i + 1]
  BY HeadTailProperties, EmptySeq DEF LineSeq
<1>2. Range(f) = {f[i] : i \in 1..Len(f)} /\ Range(Tail(f)) = {Tail(f)[i] : i \in 1..Len(Tail(f))}
  BY <1>1, RangeEquality DEF LineSeq
<1>3. ASSUME NEW i \in 1..Len(Tail(f)) PROVE Tail(f)[i] \in Range(f)
  <2>1. i + 1 \in 1..Len(f)
    BY <1>1
  <2> QED BY <2>1, <1>1, <1>2, Zenon
<1>4. Head(f) \in Range(f)
  <2>1. 1 \in 1..Len(f) /\ Head(f) = f[1]
    BY <1>1 DEF LineSeq
  <2> QED BY <2>1, <1>2, Zenon
<1> QED BY <1>1, <1>2, <1>3, <1>4, Zenon

\* A thread that moves keeps a trail ...
LEMMA MovesFollowed ==
  ASSUME TypeOK, Followed, NEW t \in Threads, Moves(t)
  PROVE  \E n : Trail(stack'[t], given'[t], n)
<1> DEFINE frames == stack[t]
           lines == given[t]
<1>1. /\ frames \in Seq(LineSeq) /\ lines \in LineSeq
      /\ stack \in [Threads -> Seq(LineSeq)] /\ given \in [Threads -> LineSeq]
  BY DEF TypeOK
<1>2. PICK n : Trail(frames, lines, n)
  BY DEF Followed
<1>3. ASSUME Ready(t)
      PROVE  /\ frames # <<>> /\ After(t) = Append(Below(frames), Tail(Top(frames)))
             /\ After(t) \in Seq(LineSeq)
             /\ Trail(After(t), lines, n)
             /\ Line(t) \in Source(lines, n, Len(frames)) /\ Len(After(t)) = Len(frames)
  <2>1. /\ frames # <<>> /\ Top(frames) \in LineSeq /\ Top(frames) # <<>>
        /\ Line(t) = Head(Top(frames)) /\ Tail(Top(frames)) \in LineSeq
        /\ After(t) = Append(Below(frames), Tail(Top(frames)))
        /\ After(t) \in Seq(LineSeq)
    BY <1>3, ReadyShape
  <2> DEFINE f == Top(frames)
  <2> HIDE DEF frames, lines, f
  <2>2. Range(Tail(f)) \subseteq Range(f) /\ Head(f) \in Range(f)
    BY <2>1, LessLines DEF f
  <2>3. Trail(After(t), lines, n)
    BY <1>1, <1>2, <2>1, <2>2, TrailChange DEF f
  <2>4. Line(t) \in Source(lines, n, Len(frames))
    <3>1. Len(frames) \in 1..Len(frames)
      BY <1>1, <2>1, StackShape
    <3>2. Range(f) \subseteq Source(lines, n, Len(frames))
      BY <3>1, <1>2, Zenon DEF Trail, f, Top
    <3> QED BY <2>1, <2>2, <3>2 DEF f
  <2>5. Len(After(t)) = Len(frames)
    <3>1. /\ Below(frames) \in Seq(LineSeq) /\ Len(Below(frames)) = Len(frames) - 1
          /\ Len(frames) \in Nat
      BY <1>1, <2>1, StackShape
    <3>2. Len(Append(Below(frames), Tail(f))) = Len(Below(frames)) + 1
      BY <3>1, <2>1, AppendProperties DEF f
    <3>3. Len(Below(frames)) + 1 = Len(frames)
      BY <3>1
    <3> QED BY <3>2, <3>3, <2>1, Zenon DEF f
  <2> QED BY <2>1, <2>3, <2>4, <2>5 DEF f
<1>4. CASE \E more \in LineSeq : Starts(t, more)
  <2>1. PICK more \in LineSeq : Starts(t, more)
    BY <1>4
  <2>2. stack'[t] = <<more>> /\ given'[t] = lines \o more
    BY <1>1, <2>1 DEF Starts, Give
  <2>3. Range(more) \subseteq Range(lines \o more)
    <3> HIDE DEF lines
    <3> QED BY <1>1, RangeConcatenation DEF LineSeq
  <2> QED BY <2>2, <2>3, TrailStart
<1>5. CASE Handles(t)
  <2>1. Ready(t) /\ stack'[t] = After(t) /\ given' = given
    BY <1>1, <1>5 DEF Handles, Turn
  <2> QED BY <2>1, <1>3
<1>6. CASE Opens(t)
  <2> DEFINE f == Contents[Line(t)[2]]
  <2>1. Ready(t) /\ NamedFile(Line(t)) /\ stack'[t] = Append(After(t), f) /\ given' = given
    BY <1>1, <1>6 DEF Opens, Turn
  <2>2. f \in LineSeq
    BY <2>1, FileLines
  <2>3. After(t) # <<>>
    BY <1>3, <2>1, StackShape, EmptySeq
  <2> HIDE DEF frames, lines
  <2>4. Line(t) \in Source(lines, n, Len(After(t)))
    BY <1>3, <2>1
  <2>5. \E m : Trail(Append(After(t), f), lines, m)
    BY <1>3, <2>1, <2>2, <2>3, <2>4, TrailPush
  <2> QED BY <2>1, <2>5 DEF lines
<1>7. CASE Return(t)
  <2>1. frames # <<>>
    BY <1>7, EmptySeq DEF Return, Depth
  <2>2. stack'[t] = Below(frames) /\ given' = given
    BY <1>1, <1>7 DEF Return, Below, Depth, history
  <2> QED BY <1>1, <1>2, <2>1, <2>2, TrailPop
<1>8. CASE Overflow(t)
  BY <1>2, <1>8 DEF Overflow, history
<1> QED BY <1>4, <1>5, <1>6, <1>7, <1>8 DEF Moves

\* ... and the others keep theirs.
LEMMA MovesAlone ==
  ASSUME TypeOK, NEW t \in Threads, Moves(t)
  PROVE  /\ up = "running"
         /\ \A u \in Threads \ {t} :
              stack'[u] = stack[u] /\ given'[u] = given[u] /\ handled'[u] = handled[u]
<1>1. /\ stack \in [Threads -> Seq(LineSeq)]
      /\ given \in [Threads -> LineSeq]
      /\ handled \in [Threads -> LineSeq]
  BY DEF TypeOK
<1>2. CASE \E lines \in LineSeq : Starts(t, lines)
  BY <1>1, <1>2 DEF Starts, Give
<1>3. CASE Handles(t)
  BY <1>1, <1>3 DEF Handles, Ready, Turn
<1>4. CASE Opens(t)
  BY <1>1, <1>4 DEF Opens, Ready, Turn
<1>5. CASE Return(t)
  BY <1>1, <1>5 DEF Return, history
<1>6. CASE Overflow(t)
  BY <1>1, <1>6 DEF Overflow, NamesFile, Ready, history
<1> QED BY <1>2, <1>3, <1>4, <1>5, <1>6 DEF Moves

LEMMA FollowedInit == Init => Followed
<1> SUFFICES ASSUME Init, NEW t \in Threads PROVE \E n : Trail(stack[t], given[t], n)
  BY DEF Followed
<1>1. stack[t] = <<>>
  BY DEF Init
<1> QED BY <1>1, TrailNone

LEMMA FollowedStep == TypeOK /\ Followed /\ [Next]_vars => Followed'
<1> SUFFICES ASSUME TypeOK, Followed, [Next]_vars PROVE Followed'
  OBVIOUS
<1>1. CASE Rests
  BY <1>1 DEF Rests, Followed
<1>2. ASSUME NEW t \in Threads, Moves(t) PROVE Followed'
  <2>1. \E n : Trail(stack'[t], given'[t], n)
    BY <1>2, MovesFollowed
  <2>2. ASSUME NEW u \in Threads \ {t} PROVE \E n : Trail(stack'[u], given'[u], n)
    BY <1>2, MovesAlone DEF Followed
  <2>3. ASSUME NEW u \in Threads PROVE \E n : Trail(stack'[u], given'[u], n)
    BY <2>1, <2>2
  <2> QED BY <2>3 DEF Followed
<1> QED BY <1>1, <1>2, StepMoves

LEMMA OverflownStep == TypeOK /\ Overflown /\ [Next]_vars => Overflown'
<1> SUFFICES ASSUME TypeOK, Overflown, [Next]_vars, up' = "overflowed" PROVE Overflown'
  BY DEF Overflown
<1>1. CASE Rests
  BY <1>1 DEF Rests, Overflown
<1>2. ASSUME NEW t \in Threads, Moves(t) PROVE Overflown'
  <2>1. Overflow(t)
    BY <1>2, MovesAlone
       DEF Moves, Starts, Handles, Opens, Return
  <2>2. Ready(t) /\ NamedFile(Line(t)) /\ Depth(t) > MaxDepth /\ UNCHANGED stack
    BY <2>1 DEF Overflow, NamesFile, NamedFile
  <2>3. /\ stack[t] # <<>> /\ Top(stack[t]) # <<>> /\ Line(t) = Head(Top(stack[t]))
    BY <2>2, ReadyShape
  <2>4. /\ stack'[t] # <<>> /\ Top(stack'[t]) # <<>> /\ NamedFile(Head(Top(stack'[t])))
        /\ Len(stack'[t]) > MaxDepth
    BY <2>2, <2>3 DEF Depth
  <2> QED BY <2>4 DEF Overflown
<1> QED BY <1>1, <1>2, StepMoves

\* More files inside each other than there are: two of them are the same.
LEMMA LongTrail ==
  ASSUME NEW frames \in Seq(LineSeq), NEW lines, NEW n, Trail(frames, lines, n),
         IsFiniteSet(Files), Cardinality(Files) < Len(frames) - 1
  PROVE  \E f \in Files : \E i \in 2..Len(frames) :
           n[i] = f /\ Leads(f, f) /\ (i # 2 => Leads(n[2], f))
<1> DEFINE d == Len(frames)
           S == 2..d
<1>1. d \in Nat /\ Cardinality(Files) \in Nat
  BY FS_CardinalityType
<1>2. /\ n \in [S -> Files]
      /\ \A i, k \in S : i < k => Leads(n[i], n[k])
  BY DEF Trail
<1>3. Cardinality(Files) < d - 1
  OBVIOUS
<1> HIDE DEF d
<1>4. IsFiniteSet(S) /\ Cardinality(S) = d - 1
  <2>1. 2 \in Int /\ d \in Int /\ ~(2 > d)
    BY <1>1, <1>3
  <2>2. IsFiniteSet(2..d) /\ Cardinality(2..d) = IF 2 > d THEN 0 ELSE d - 2 + 1
    BY <2>1, FS_Interval
  <2>3. d - 2 + 1 = d - 1
    BY <1>1
  <2> QED BY <2>1, <2>2, <2>3
<1>5. \E x, y \in S : x # y /\ n[x] = n[y]
  BY <1>2, <1>3, <1>4, FS_PigeonHole
<1>6. PICK i \in S, k \in S : i < k /\ n[i] = n[k]
  <2>1. \A x, y \in S : x # y => x < y \/ y < x
    BY <1>1
  <2> QED BY <1>5, <2>1
<1>7. n[i] \in Files /\ Leads(n[i], n[i])
  BY <1>2, <1>6
<1>8. i # 2 => Leads(n[2], n[i])
  <2>1. i # 2 => 2 \in S /\ 2 < i
    BY <1>1
  <2> QED BY <1>2, <2>1
<1> QED BY <1>6, <1>7, <1>8 DEF d

LEMMA OverflownCycle ==
  ASSUME TypeOK, Followed, Overflown, IsFiniteSet(Files), Cardinality(Files) <= MaxDepth
  PROVE  OnlyCyclesOverflow
<1> SUFFICES ASSUME up = "overflowed"
             PROVE  \E t \in Threads : \E l \in Range(given[t]) :
                      NamedFile(l) /\ \E f \in Files : (f = l[2] \/ Leads(l[2], f)) /\ Leads(f, f)
  BY DEF OnlyCyclesOverflow
<1>1. PICK t \in Threads : /\ stack[t] # <<>> /\ Top(stack[t]) # <<>>
                           /\ NamedFile(Head(Top(stack[t])))
                           /\ Len(stack[t]) > MaxDepth
  BY DEF Overflown
<1> DEFINE frames == stack[t]
           lines == given[t]
           line == Head(Top(frames))
           g == Contents[line[2]]
           more == Append(frames, g)
<1>2. PICK n : Trail(frames, lines, n)
  BY DEF Followed
<1>3. frames \in Seq(LineSeq)
  BY DEF TypeOK
<1>4. Top(frames) \in LineSeq /\ Len(frames) \in Nat \ {0}
  BY <1>1, <1>3, StackShape
<1>5. line \in Source(lines, n, Len(frames))
  <2>1. line \in Range(Top(frames))
    BY <1>1, <1>4, LessLines
  <2>2. Len(frames) \in 1..Len(frames)
    BY <1>4
  <2> HIDE DEF frames, lines, line
  <2>3. Range(Top(frames)) \subseteq Source(lines, n, Len(frames))
    BY <1>2, <2>2, Zenon DEF Trail, Top
  <2> QED BY <2>1, <2>3
<1>6. g \in LineSeq /\ NamedFile(line)
  BY <1>1, ConsoleAssumption DEF NamedFile, LineSeq
<1>7. more \in Seq(LineSeq) /\ Len(more) = Len(frames) + 1
  <2> HIDE DEF frames, g
  <2> QED BY <1>3, <1>6, AppendProperties
<1>8. PICK m : Trail(more, lines, m)
  <2> HIDE DEF frames, line, lines
  <2>1. frames # <<>>
    BY <1>1 DEF frames
  <2> QED BY <1>2, <1>3, <1>5, <1>6, <2>1, TrailPush
<1>9. Cardinality(Files) < Len(more) - 1 /\ 2 <= Len(more) /\ MaxDepth \in Nat
  <2> DEFINE d == Len(frames)
  <2>1. d \in Nat \ {0} /\ d > MaxDepth /\ Len(more) = d + 1 /\ MaxDepth \in Nat
        /\ Cardinality(Files) \in Nat /\ Cardinality(Files) <= MaxDepth
    BY <1>1, <1>4, <1>7, ConsoleAssumption, FS_CardinalityType
  <2> HIDE DEF d, more
  <2> QED BY <2>1
<1> HIDE DEF more
<1>10. PICK f \in Files, i \in 2..Len(more) :
         m[i] = f /\ Leads(f, f) /\ (i # 2 => Leads(m[2], f))
  BY <1>7, <1>8, <1>9, LongTrail
<1>11. PICK l \in Range(lines) : NamedFile(l) /\ m[2] = l[2]
  BY <1>8, <1>9 DEF Trail, AskedFor
<1>12. f = l[2] \/ Leads(l[2], f)
  BY <1>10, <1>11
<1> QED BY <1>10, <1>11, <1>12

-----------------------------------------------------------------------------
(* What Typed is: a function that is defined by recursion has to be shown to be there *)

LEMMA LeastNumber ==
  ASSUME NEW V \in SUBSET Nat, V # {}
  PROVE  \E v \in V : \A w \in V : v <= w
<1>1. PICK v \in V : \A w \in V : ~(<<w, v>> \in OpToRel(<, Nat))
  BY NatLessThanWellFounded, WFMin
<1>2. ASSUME NEW w \in V PROVE v <= w
  <2>1. v \in Nat /\ w \in Nat
    OBVIOUS
  <2> SUFFICES ASSUME w < v PROVE FALSE
    BY <2>1
  <2>2. <<w, v>> \in OpToRel(<, Nat)
    BY <2>1 DEF OpToRel
  <2> QED BY <1>1, <2>2
<1> QED BY <1>2

\* A set with 0 and the successor of each of its numbers has all numbers.
LEMMA AllNumbers ==
  ASSUME NEW S, 0 \in S, \A n \in Nat : n \in S => n + 1 \in S
  PROVE  \A n \in Nat : n \in S
<1> DEFINE rest == {n \in Nat : n \notin S}
<1>1. CASE rest = {}
  BY <1>1
<1>2. CASE rest # {}
  <2>1. PICK v \in rest : \A w \in rest : v <= w
    BY <1>2, LeastNumber
  <2>2. v \in Nat /\ v # 0
    BY <2>1
  <2>3. v - 1 \in Nat /\ v - 1 + 1 = v /\ ~(v <= v - 1)
    BY <2>2
  <2>4. v - 1 \in S
    BY <2>1, <2>3
  <2>5. v - 1 + 1 \in S
    BY <2>3, <2>4
  <2> QED BY <2>1, <2>3, <2>5
<1> QED BY <1>1, <1>2

\* What is defined from a first value, step by step, is there.
Steps(V, b, F, g) == g \in [Nat -> V] /\ g[0] = b /\ \A n \in Nat : g[n + 1] = F[g[n]]

LEMMA StepByStep ==
  ASSUME NEW V, NEW b \in V, NEW F \in [V -> V]
  PROVE  \E g : Steps(V, b, F, g)
<1> DEFINE upTo(n) == {g \in [Nat -> V] : g[0] = b /\ \A i \in Nat : i < n => g[i + 1] = F[g[i]]}
           good == {n \in Nat : upTo(n) # {}}
<1>1. \A n \in Nat : n \in good
  <2>1. 0 \in good
    <3>1. [n \in Nat |-> b] \in upTo(0)
      <4>1. \A i \in Nat : ~(i < 0)
        OBVIOUS
      <4> QED BY <4>1
    <3> QED BY <3>1
  <2>2. ASSUME NEW n \in Nat, n \in good PROVE n + 1 \in good
    <3>1. PICK g \in upTo(n) : TRUE
      BY <2>2
    <3> DEFINE h == [i \in Nat |-> IF i = n + 1 THEN F[g[n]] ELSE g[i]]
    <3>2. h \in [Nat -> V]
      BY <3>1
    <3>3. h[0] = b
      BY <3>1
    <3>4. ASSUME NEW i \in Nat, i < n + 1 PROVE h[i + 1] = F[h[i]]
      <4>0. i # n + 1 /\ i + 1 \in Nat /\ n + 1 \in Nat
        BY <3>4
      <4>1. h[i] = g[i]
        BY <4>0
      <4>2. CASE i = n
        BY <4>1, <4>2, <4>0
      <4>3. CASE i # n
        <5>1. i < n /\ i + 1 # n + 1
          BY <3>4, <4>3
        <5>2. h[i + 1] = g[i + 1]
          BY <5>1, <4>0
        <5>3. g[i + 1] = F[g[i]]
          BY <5>1, <3>1
        <5> QED BY <4>1, <5>2, <5>3
      <4> QED BY <4>2, <4>3
    <3> HIDE DEF h
    <3>5. h \in upTo(n + 1)
      BY <3>2, <3>3, <3>4
    <3>6. n + 1 \in Nat
      OBVIOUS
    <3> QED BY <3>5, <3>6
  <2> HIDE DEF good
  <2> QED BY <2>1, <2>2, AllNumbers
<1>2. ASSUME NEW n \in Nat, NEW m \in Nat, NEW p \in upTo(n), NEW q \in upTo(m)
      PROVE  \A i \in Nat : i <= n /\ i <= m => p[i] = q[i]
  <2> DEFINE same == {i \in Nat : i <= n /\ i <= m => p[i] = q[i]}
  <2>1. 0 \in same
    OBVIOUS
  <2>2. ASSUME NEW i \in Nat, i \in same PROVE i + 1 \in same
    <3> SUFFICES ASSUME i + 1 <= n, i + 1 <= m PROVE p[i + 1] = q[i + 1]
      OBVIOUS
    <3>1. i < n /\ i < m /\ i <= n /\ i <= m
      OBVIOUS
    <3>2. p[i] = q[i]
      BY <2>2, <3>1
    <3>3. p[i + 1] = F[p[i]] /\ q[i + 1] = F[q[i]]
      BY <3>1
    <3> QED BY <3>2, <3>3, Zenon
  <2>3. \A i \in Nat : i \in same
    <3> HIDE DEF same
    <3> QED BY <2>1, <2>2, AllNumbers
  <2> QED BY <2>3
<1> DEFINE c(n) == CHOOSE p : p \in upTo(n)
           g == [n \in Nat |-> c(n)[n]]
<1>3. ASSUME NEW n \in Nat PROVE c(n) \in upTo(n)
  <2>1. \E p : p \in upTo(n)
    BY <1>1
  <2> HIDE DEF upTo
  <2> QED BY <2>1, Zenon
<1> HIDE DEF c
<1>4. g \in [Nat -> V]
  BY <1>3
<1>5. g[0] = b
  BY <1>3
<1>6. ASSUME NEW n \in Nat PROVE g[n + 1] = F[g[n]]
  <2>1. n + 1 \in Nat /\ n < n + 1 /\ n <= n + 1 /\ n <= n
    OBVIOUS
  <2>2. c(n + 1)[n + 1] = F[c(n + 1)[n]]
    BY <1>3, <2>1
  <2>3. c(n) \in upTo(n) /\ c(n + 1) \in upTo(n + 1)
    BY <1>3, <2>1
  <2> HIDE DEF upTo
  <2>4. c(n + 1)[n] = c(n)[n]
    BY <1>2, <2>1, <2>3
  <2>5. g[n + 1] = c(n + 1)[n + 1] /\ g[n] = c(n)[n]
    BY <2>1
  <2> QED BY <2>2, <2>4, <2>5, Zenon
<1> QED BY <1>4, <1>5, <1>6 DEF Steps

\* What is done with the lines one by one.
Lists(x, h) ==
  \A s \in LineSeq : h[s] = IF s = <<>> THEN <<>> ELSE x[Head(s)] \o h[Tail(s)]

LEMMA LineByLine ==
  ASSUME NEW x \in [Seq(STRING) -> LineSeq]
  PROVE  \E h \in [LineSeq -> LineSeq] : Lists(x, h)
<1> DEFINE W == [LineSeq -> LineSeq]
           more(v) == [s \in LineSeq |-> IF s = <<>> THEN <<>> ELSE x[Head(s)] \o v[Tail(s)]]
           none == [s \in LineSeq |-> <<>>]
           step == [v \in W |-> more(v)]
<1>1. <<>> \in LineSeq
  BY EmptySeq DEF LineSeq
<1>2. ASSUME NEW s \in LineSeq, s # <<>>
      PROVE  /\ x[Head(s)] \in LineSeq /\ Tail(s) \in LineSeq
             /\ Len(s) \in Nat /\ Len(s) - 1 \in Nat /\ Len(s) - 1 + 1 = Len(s)
             /\ Len(Tail(s)) = Len(s) - 1
  <2>1. Head(s) \in Seq(STRING) /\ Tail(s) \in LineSeq /\ Len(Tail(s)) = Len(s) - 1
        /\ Len(s) \in Nat \ {0}
    BY <1>2, HeadTailProperties, EmptySeq DEF LineSeq
  <2> QED BY <2>1
<1>3. none \in W
  BY <1>1
<1>4. ASSUME NEW v \in W PROVE more(v) \in W
  <2>1. ASSUME NEW s \in LineSeq, s # <<>> PROVE x[Head(s)] \o v[Tail(s)] \in LineSeq
    <3>1. x[Head(s)] \in LineSeq /\ v[Tail(s)] \in LineSeq
      BY <2>1, <1>2
    <3> QED BY <3>1, ConcatProperties DEF LineSeq
  <2> QED BY <1>1, <2>1
<1> HIDE DEF W, more, none, step
<1>5. none \in W /\ step \in [W -> W]
  <2>1. \A v \in W : more(v) \in W
    BY <1>4
  <2> QED BY <1>3, <2>1 DEF step
<1>6. PICK g : Steps(W, none, step, g)
  BY <1>5, StepByStep
<1>7. g \in [Nat -> W] /\ g[0] = none /\ \A n \in Nat : g[n + 1] = step[g[n]]
  BY <1>6 DEF Steps
<1> USE DEF W, more, step
<1> DEFINE h == [s \in LineSeq |-> g[Len(s)][s]]
<1>8. \A s \in LineSeq : Len(s) \in Nat
  BY LenProperties DEF LineSeq
<1>9. h \in W
  BY <1>7, <1>8
<1>10. ASSUME NEW s \in LineSeq PROVE h[s] = IF s = <<>> THEN <<>> ELSE x[Head(s)] \o h[Tail(s)]
  <2>1. CASE s = <<>>
    <3>1. h[s] = g[0][s]
      BY <2>1, EmptySeq
    <3> QED BY <2>1, <3>1, <1>7 DEF none
  <2>2. CASE s # <<>>
    <3> DEFINE n == Len(s) - 1
    <3>1. n \in Nat /\ n + 1 = Len(s) /\ Len(Tail(s)) = n /\ Tail(s) \in LineSeq
      BY <2>2, <1>2
    <3>2. h[s] = g[n + 1][s]
      BY <3>1
    <3>3. g[n + 1] = step[g[n]] /\ g[n] \in W
      BY <3>1, <1>7
    <3>4. step[g[n]] = more(g[n])
      <4> HIDE DEF W, more, n
      <4> QED BY <3>3
    <3>5. more(g[n])[s] = x[Head(s)] \o g[n][Tail(s)]
      BY <2>2
    <3>6. h[Tail(s)] = g[n][Tail(s)]
      BY <3>1
    <3> HIDE DEF h, step, more, n
    <3>7. h[s] = x[Head(s)] \o h[Tail(s)]
      BY <3>2, <3>3, <3>4, <3>5, <3>6, Zenon
    <3> QED BY <3>7, <2>2
  <2> QED BY <2>1, <2>2
<1> HIDE DEF h
<1>11. Lists(x, h)
  BY <1>10 DEF Lists
<1> QED BY <1>9, <1>11

\* What Typed is a solution of.
TypedBody(g) ==
  [depth \in Nat |->
     [lines \in Seq(Seq(STRING)) |->
        IF lines = <<>> THEN <<>>
        ELSE LET line == Head(lines) IN
             (<<line>> \o IF NamedFile(line) /\ depth > 0
                          THEN g[depth - 1][Contents[line[2]]] ELSE <<>>)
               \o g[depth][Tail(lines)]]]

LEMMA TypedExists == \E g : g = TypedBody(g)
<1> DEFINE V == [LineSeq -> LineSeq]
           plain == [line \in Seq(STRING) |-> <<line>>]
           inside(v) == [line \in Seq(STRING) |->
                           <<line>> \o IF NamedFile(line) THEN v[Contents[line[2]]] ELSE <<>>]
           G == [v \in V |-> CHOOSE h \in V : Lists(inside(v), h)]
<1>0. ASSUME NEW line \in Seq(STRING) PROVE <<line>> \in LineSeq
  BY DEF LineSeq
<1>1. plain \in [Seq(STRING) -> LineSeq]
  BY <1>0
<1>2. ASSUME NEW v \in V PROVE inside(v) \in [Seq(STRING) -> LineSeq]
  <2>1. ASSUME NEW line \in Seq(STRING)
        PROVE  <<line>> \o (IF NamedFile(line) THEN v[Contents[line[2]]] ELSE <<>>) \in LineSeq
    <3>1. (IF NamedFile(line) THEN v[Contents[line[2]]] ELSE <<>>) \in LineSeq
      <4>1. <<>> \in LineSeq
        BY EmptySeq DEF LineSeq
      <4>2. NamedFile(line) => Contents[line[2]] \in LineSeq
        BY ConsoleAssumption DEF NamedFile, LineSeq
      <4> QED BY <4>1, <4>2
    <3> QED BY <1>0, <3>1, ConcatProperties DEF LineSeq
  <2> QED BY <2>1
<1>3. PICK first \in V : Lists(plain, first)
  BY <1>1, LineByLine
<1>4. ASSUME NEW v \in V PROVE G[v] \in V /\ Lists(inside(v), G[v])
  <2>1. \E h \in V : Lists(inside(v), h)
    BY <1>2, LineByLine
  <2> HIDE DEF V, inside
  <2> QED BY <2>1
<1> HIDE DEF V, G
<1>5. G \in [V -> V]
  <2>1. \A v \in V : G[v] \in V
    BY <1>4
  <2> QED BY <2>1 DEF G
<1>6. PICK g : g \in [Nat -> V] /\ g[0] = first /\ \A n \in Nat : g[n + 1] = G[g[n]]
  BY <1>3, <1>5, StepByStep DEF Steps
<1> DEFINE line(s) == Head(s)
           behind(d, s) == IF NamedFile(line(s)) /\ d > 0
                           THEN g[d - 1][Contents[line(s)[2]]] ELSE <<>>
           value(d, s) == IF s = <<>> THEN <<>>
                          ELSE (<<line(s)>> \o behind(d, s)) \o g[d][Tail(s)]
<1>7. ASSUME NEW d \in Nat, NEW s \in LineSeq PROVE g[d][s] = value(d, s)
  <2>1. s # <<>> => Head(s) \in Seq(STRING)
    BY HeadTailProperties DEF LineSeq
  <2>2. CASE d = 0
    <3>1. Lists(plain, g[d])
      BY <2>2, <1>3, <1>6
    <3>2. s # <<>> => plain[Head(s)] = <<line(s)>> \o behind(d, s)
      <4>1. behind(d, s) = <<>>
        BY <2>2
      <4>2. s # <<>> => <<line(s)>> \o <<>> = <<line(s)>>
        BY <2>1, <1>0, ConcatEmptySeq DEF LineSeq
      <4> QED BY <4>1, <4>2, <2>1
    <3> HIDE DEF plain, behind
    <3> QED BY <3>1, <3>2, Zenon DEF Lists
  <2>3. CASE d # 0
    <3>1. d - 1 \in Nat /\ d - 1 + 1 = d /\ d > 0
      BY <2>3
    <3>2. g[d] = G[g[d - 1]] /\ g[d - 1] \in V
      BY <3>1, <1>6
    <3>3. Lists(inside(g[d - 1]), g[d])
      BY <3>2, <1>4
    <3>4. s # <<>> => inside(g[d - 1])[Head(s)] = <<line(s)>> \o behind(d, s)
      BY <2>1, <3>1
    <3> HIDE DEF inside, behind
    <3> QED BY <3>3, <3>4, Zenon DEF Lists
  <2> QED BY <2>2, <2>3
<1>8. ASSUME NEW d \in Nat PROVE g[d] = [s \in LineSeq |-> value(d, s)]
  <2>1. g[d] \in [LineSeq -> LineSeq]
    BY <1>6 DEF V
  <2> HIDE DEF value
  <2> QED BY <2>1, <1>7
<1>9. g = [d \in Nat |-> [s \in LineSeq |-> value(d, s)]]
  <2> HIDE DEF value
  <2> QED BY <1>6, <1>8
<1>10. g = TypedBody(g)
  BY <1>9, Zenon DEF TypedBody, LineSeq
<1> QED BY <1>10

LEMMA TypedSolves == Typed = TypedBody(Typed)
<1>1. Typed = CHOOSE g : g = TypedBody(g)
  BY Zenon DEF Typed, TypedBody
<1> QED BY <1>1, TypedExists, Zenon

\* What holds of no lines, and of lines if it holds of those behind the first, holds
\* of all lines.
LEMMA AllLines ==
  ASSUME NEW S, <<>> \in S, \A s \in LineSeq : s # <<>> /\ Tail(s) \in S => s \in S
  PROVE  \A s \in LineSeq : s \in S
<1> DEFINE good == {n \in Nat : \A s \in LineSeq : Len(s) = n => s \in S}
<1>1. 0 \in good
  <2>1. ASSUME NEW s \in LineSeq, Len(s) = 0 PROVE s = <<>>
    BY <2>1, EmptySeq DEF LineSeq
  <2> QED BY <2>1
<1>2. ASSUME NEW n \in Nat, n \in good PROVE n + 1 \in good
  <2>1. ASSUME NEW s \in LineSeq, Len(s) = n + 1 PROVE s \in S
    <3>1. s # <<>>
      BY <2>1, EmptySeq
    <3>2. Tail(s) \in LineSeq /\ Len(Tail(s)) = Len(s) - 1
      BY <3>1, HeadTailProperties DEF LineSeq
    <3>3. Len(s) - 1 = n
      BY <2>1
    <3>4. Tail(s) \in S
      BY <3>2, <3>3, <1>2, Zenon
    <3> QED BY <3>1, <3>4
  <2> QED BY <2>1
<1>3. \A n \in Nat : n \in good
  <2> HIDE DEF good
  <2> QED BY <1>1, <1>2, AllNumbers
<1>4. \A s \in LineSeq : Len(s) \in Nat
  BY LenProperties DEF LineSeq
<1> QED BY <1>3, <1>4

LEMMA LinesAssociate ==
  ASSUME NEW a \in LineSeq, NEW b \in LineSeq, NEW c \in LineSeq
  PROVE  a \o (b \o c) = (a \o b) \o c
<1> DEFINE T == Seq(STRING)
<1>1. a \in Seq(T) /\ b \in Seq(T) /\ c \in Seq(T)
  BY DEF LineSeq
<1> HIDE DEF T
<1>2. (a \o b) \o c = a \o (b \o c)
  BY <1>1, ConcatAssociative
<1> QED BY <1>2

LEMMA TailOfConcat ==
  ASSUME NEW a \in LineSeq, NEW b \in LineSeq, a # <<>>
  PROVE  a \o b # <<>> /\ Head(a \o b) = Head(a) /\ Tail(a \o b) = Tail(a) \o b
<1> DEFINE c == a \o b
           r == Tail(c)
           u == Tail(a)
           v == u \o b
           p == Len(a)
           q == Len(b)
<1>1. p \in Nat \ {0} /\ q \in Nat
  BY EmptySeq, LenProperties DEF LineSeq
<1>2. /\ c \in LineSeq /\ Len(c) = p + q
      /\ \A i \in 1..(p + q) : c[i] = IF i <= p THEN a[i] ELSE b[i - p]
  BY ConcatProperties DEF LineSeq
<1>3. u \in LineSeq /\ Len(u) = p - 1 /\ \A i \in 1..(p - 1) : u[i] = a[i + 1]
  <2>1. u \in LineSeq /\ Len(u) = p - 1 /\ \A i \in 1..Len(u) : u[i] = a[i + 1]
    BY HeadTailProperties DEF LineSeq
  <2> QED BY <2>1, Zenon
<1>4. c # <<>>
  BY ConcatEqualIffEmpty DEF LineSeq
<1>5. Head(c) = Head(a)
  <2>1. Head(c) = c[1] /\ Head(a) = a[1]
    BY <1>2, <1>4 DEF LineSeq
  <2> HIDE DEF c, p, q
  <2>2. c[1] = a[1]
    BY <1>1, <1>2
  <2> QED BY <2>1, <2>2
<1> HIDE DEF c, u, p
<1>6. v \in LineSeq /\ Len(v) = Len(u) + q
      /\ \A i \in 1..(Len(u) + q) : v[i] = IF i <= Len(u) THEN u[i] ELSE b[i - Len(u)]
  BY <1>3, ConcatProperties DEF LineSeq
<1>7. r \in LineSeq /\ Len(r) = Len(c) - 1 /\ \A i \in 1..Len(r) : r[i] = c[i + 1]
  BY <1>2, <1>4, HeadTailProperties DEF LineSeq
<1> HIDE DEF r, v, q
<1>8. Len(u) + q = p - 1 + q /\ Len(c) - 1 = p - 1 + q
  BY <1>1, <1>2, <1>3
<1> DEFINE n == p - 1 + q
<1>9. Len(r) = n /\ Len(v) = n
  BY <1>6, <1>7, <1>8, Zenon
<1>10. \A i \in 1..n : r[i] = v[i]
  <2> SUFFICES ASSUME NEW i \in 1..n PROVE r[i] = v[i]
    OBVIOUS
  <2>1. i + 1 \in 1..(p + q) /\ i \in Int
    BY <1>1
  <2>2. r[i] = c[i + 1]
    BY <1>7, <1>9, Zenon
  <2>3. v[i] = IF i <= p - 1 THEN u[i] ELSE b[i - (p - 1)]
    BY <1>3, <1>6, <1>8, Zenon
  <2>4. CASE i <= p - 1
    <3>1. i \in 1..(p - 1) /\ i + 1 <= p
      BY <2>4, <1>1
    <3>2. c[i + 1] = a[i + 1]
      BY <2>1, <3>1, <1>2
    <3> QED BY <2>2, <2>3, <2>4, <3>1, <3>2, <1>3, Zenon
  <2>5. CASE ~(i <= p - 1)
    <3>1. ~(i + 1 <= p) /\ (i + 1) - p = i - (p - 1)
      BY <2>5, <1>1
    <3>2. c[i + 1] = b[(i + 1) - p]
      BY <2>1, <3>1, <1>2
    <3> QED BY <2>2, <2>3, <2>5, <3>1, <3>2, Zenon
  <2> QED BY <2>4, <2>5
<1>11. r = v
  <2>1. Len(r) = Len(v) /\ \A i \in 1..Len(r) : r[i] = v[i]
    BY <1>9, <1>10, Zenon
  <2> QED BY <2>1, <1>6, <1>7, SeqEqual DEF LineSeq
<1> QED BY <1>4, <1>5, <1>11 DEF r, v, c, u

-----------------------------------------------------------------------------
\* The lines of the file that a line names, if files are still opened.
Inside(d, line) ==
  IF NamedFile(line) /\ d > 0 THEN Typed[d - 1][Contents[line[2]]] ELSE <<>>

LEMMA TypedParts ==
  ASSUME NEW d \in Nat
  PROVE  /\ Typed[d][<<>>] = <<>>
         /\ \A s \in LineSeq :
              s # <<>> => Typed[d][s] = (<<Head(s)>> \o Inside(d, Head(s))) \o Typed[d][Tail(s)]
<1> DEFINE value(s) == IF s = <<>> THEN <<>>
                       ELSE (<<Head(s)>> \o Inside(d, Head(s))) \o Typed[d][Tail(s)]
<1>1. TypedBody(Typed)[d] = [s \in LineSeq |-> value(s)]
  BY DEF TypedBody, Inside, LineSeq
<1>2. Typed[d] = [s \in LineSeq |-> value(s)]
  BY <1>1, TypedSolves, Zenon
<1> HIDE DEF value
<1>3. \A s \in LineSeq : Typed[d][s] = value(s)
  BY <1>2
<1>4. <<>> \in LineSeq
  BY EmptySeq DEF LineSeq
<1> QED BY <1>3, <1>4 DEF value

LEMMA TypedType ==
  ASSUME NEW d \in Nat
  PROVE  /\ \A s \in LineSeq : Typed[d][s] \in LineSeq
         /\ \A line \in Seq(STRING) : Inside(d, line) \in LineSeq
<1> DEFINE good == {n \in Nat : \A s \in LineSeq : Typed[n][s] \in LineSeq}
<1>0. <<>> \in LineSeq
  BY EmptySeq DEF LineSeq
<1>1. ASSUME NEW n \in Nat, \A line \in Seq(STRING) : Inside(n, line) \in LineSeq
      PROVE  n \in good
  <2> DEFINE S == {s \in LineSeq : Typed[n][s] \in LineSeq}
  <2>1. <<>> \in S
    BY <1>0, TypedParts
  <2>2. ASSUME NEW s \in LineSeq, s # <<>>, Tail(s) \in S PROVE s \in S
    <3>1. Head(s) \in Seq(STRING)
      BY <2>2, HeadTailProperties DEF LineSeq
    <3>2. <<Head(s)>> \in LineSeq
      BY <3>1 DEF LineSeq
    <3>3. <<Head(s)>> \o Inside(n, Head(s)) \in LineSeq
      BY <3>1, <3>2, <1>1, ConcatProperties DEF LineSeq
    <3>4. (<<Head(s)>> \o Inside(n, Head(s))) \o Typed[n][Tail(s)] \in LineSeq
      BY <2>2, <3>3, ConcatProperties DEF LineSeq
    <3> QED BY <2>2, <3>4, TypedParts
  <2>3. \A s \in LineSeq : s \in S
    <3> HIDE DEF S
    <3> QED BY <2>1, <2>2, AllLines
  <2> QED BY <2>3
<1>2. 0 \in good
  <2>1. \A line \in Seq(STRING) : Inside(0, line) \in LineSeq
    BY <1>0 DEF Inside
  <2> QED BY <1>1, <2>1
<1>3. ASSUME NEW n \in Nat, n \in good
      PROVE  \A line \in Seq(STRING) : Inside(n + 1, line) \in LineSeq
  <2> SUFFICES ASSUME NEW line \in Seq(STRING) PROVE Inside(n + 1, line) \in LineSeq
    OBVIOUS
  <2>1. NamedFile(line) => Contents[line[2]] \in LineSeq
    BY ConsoleAssumption DEF NamedFile, LineSeq
  <2>2. n + 1 - 1 = n
    OBVIOUS
  <2>3. NamedFile(line) => Typed[n + 1 - 1][Contents[line[2]]] \in LineSeq
    BY <1>3, <2>1, <2>2
  <2> QED BY <1>0, <2>3 DEF Inside
<1>4. ASSUME NEW n \in Nat, n \in good PROVE n + 1 \in good
  <2>1. n + 1 \in Nat
    OBVIOUS
  <2> HIDE DEF good
  <2> QED BY <2>1, <1>1, <1>3, <1>4
<1>5. \A n \in Nat : n \in good
  <2> HIDE DEF good
  <2> QED BY <1>2, <1>4, AllNumbers
<1>6. \A line \in Seq(STRING) : Inside(d, line) \in LineSeq
  <2>1. CASE d = 0
    BY <2>1, <1>0 DEF Inside
  <2>2. CASE d # 0
    <3>1. d - 1 \in Nat /\ d - 1 + 1 = d
      BY <2>2
    <3> QED BY <3>1, <1>3, <1>5
  <2> QED BY <2>1, <2>2
<1> QED BY <1>5, <1>6

LEMMA TypedConcat ==
  ASSUME NEW d \in Nat, NEW a \in LineSeq, NEW b \in LineSeq
  PROVE  Typed[d][a \o b] = Typed[d][a] \o Typed[d][b]
<1> DEFINE S == {s \in LineSeq : Typed[d][s \o b] = Typed[d][s] \o Typed[d][b]}
<1>1. <<>> \in S
  <2>1. <<>> \in LineSeq
    BY EmptySeq DEF LineSeq
  <2>2. <<>> \o b = b /\ <<>> \o Typed[d][b] = Typed[d][b]
    BY TypedType, ConcatEmptySeq DEF LineSeq
  <2> QED BY <2>1, <2>2, TypedParts
<1>2. ASSUME NEW s \in LineSeq, s # <<>>, Tail(s) \in S PROVE s \in S
  <2> DEFINE first == <<Head(s)>> \o Inside(d, Head(s))
             more == Typed[d][Tail(s)]
             then == Typed[d][b]
  <2>1. Head(s) \in Seq(STRING) /\ Tail(s) \in LineSeq
    BY <1>2, HeadTailProperties DEF LineSeq
  <2>2. <<Head(s)>> \in LineSeq
    BY <2>1 DEF LineSeq
  <2>3. first \in LineSeq
    BY <2>1, <2>2, TypedType, ConcatProperties DEF LineSeq
  <2>4. more \in LineSeq /\ then \in LineSeq
    BY <2>1, TypedType
  <2>5. s \o b \in LineSeq
    BY ConcatProperties DEF LineSeq
  <2>6. Typed[d][s \o b] = first \o Typed[d][Tail(s) \o b]
    <3>1. s \o b # <<>> /\ Head(s \o b) = Head(s) /\ Tail(s \o b) = Tail(s) \o b
      BY <1>2, TailOfConcat
    <3>2. Typed[d][s \o b] = (<<Head(s \o b)>> \o Inside(d, Head(s \o b))) \o Typed[d][Tail(s \o b)]
      BY <2>5, <3>1, TypedParts, Zenon
    <3> QED BY <3>1, <3>2, Zenon
  <2>7. Typed[d][Tail(s) \o b] = more \o then
    BY <1>2
  <2>8. Typed[d][s] = first \o more
    BY <1>2, TypedParts
  <2> HIDE DEF first, more, then
  <2>9. first \o (more \o then) = (first \o more) \o then
    BY <2>3, <2>4, LinesAssociate
  <2>10. Typed[d][s \o b] = Typed[d][s] \o then
    BY <2>6, <2>7, <2>8, <2>9
  <2> QED BY <2>10 DEF then
<1>3. \A s \in LineSeq : s \in S
  <2> HIDE DEF S
  <2> QED BY <1>1, <1>2, AllLines
<1> QED BY <1>3

-----------------------------------------------------------------------------
(* The lines the stack has still to hand out *)

\* Loop k hands out its lines and those of the files they name, then loop k - 1 goes on;
\* r[k] is what is left for the loops up to k.
Sums(frames, r) ==
  /\ r \in [0..Len(frames) -> LineSeq]
  /\ r[0] = <<>>
  /\ \A k \in 1..Len(frames) : r[k] = Typed[(MaxDepth + 1) - k][frames[k]] \o r[k - 1]

Owes(frames, rest) == \E r : Sums(frames, r) /\ rest = r[Len(frames)]

LEMMA OwesNone ==
  /\ Owes(<<>>, <<>>)
  /\ \A rest : Owes(<<>>, rest) => rest = <<>>
<1> DEFINE r == [k \in 0..0 |-> <<>>]
<1>1. Len(<<>>) = 0 /\ 1..0 = {} /\ 0 \in 0..0
  OBVIOUS
<1>2. r \in [0..0 -> LineSeq] /\ r[0] = <<>>
  BY EmptySeq DEF LineSeq
<1> HIDE DEF r
<1>3. Owes(<<>>, <<>>)
  <2>1. Sums(<<>>, r)
    BY <1>1, <1>2, Zenon DEF Sums
  <2> QED BY <2>1, <1>1, <1>2 DEF Owes
<1>4. ASSUME NEW rest, Owes(<<>>, rest) PROVE rest = <<>>
  BY <1>1, <1>4 DEF Owes, Sums
<1> QED BY <1>3, <1>4

LEMMA OwesPush ==
  ASSUME NEW b \in Seq(LineSeq), Len(b) <= MaxDepth, NEW rest \in LineSeq, Owes(b, rest),
         NEW f \in LineSeq
  PROVE  /\ Typed[MaxDepth - Len(b)][f] \o rest \in LineSeq
         /\ Owes(Append(b, f), Typed[MaxDepth - Len(b)][f] \o rest)
<1> DEFINE n == Len(b)
           a == Append(b, f)
           first == Typed[MaxDepth - n][f]
<1>1. PICK r : Sums(b, r) /\ rest = r[n]
  BY DEF Owes
<1>2. n \in Nat /\ MaxDepth \in Nat /\ n <= MaxDepth
  BY LenProperties, ConsoleAssumption
<1>3. Len(a) = n + 1 /\ a[n + 1] = f /\ \A k \in 1..n : a[k] = b[k]
  BY AppendProperties
<1>4. /\ r \in [0..n -> LineSeq] /\ r[0] = <<>>
      /\ \A k \in 1..n : r[k] = Typed[(MaxDepth + 1) - k][b[k]] \o r[k - 1]
  BY <1>1 DEF Sums
<1>5. rest = r[n]
  BY <1>1
<1> HIDE DEF n, a
<1>6. first \in LineSeq
  <2>1. MaxDepth - n \in Nat
    BY <1>2
  <2> QED BY <2>1, TypedType
<1>7. first \o rest \in LineSeq
  <2> HIDE DEF first
  <2> QED BY <1>6, ConcatProperties DEF LineSeq
<1> DEFINE m == [k \in 0..(n + 1) |-> IF k <= n THEN r[k] ELSE first \o rest]
<1>8. (MaxDepth + 1) - (n + 1) = MaxDepth - n /\ (n + 1) - 1 = n
  BY <1>2
<1> HIDE DEF first
<1>9. /\ m \in [0..(n + 1) -> LineSeq] /\ m[n + 1] = first \o rest
      /\ \A k \in 0..n : m[k] = r[k]
  <2>1. \A k \in 0..(n + 1) : k <= n => k \in 0..n
    BY <1>2
  <2>2. m \in [0..(n + 1) -> LineSeq]
    BY <2>1, <1>4, <1>7
  <2>3. n + 1 \in 0..(n + 1) /\ ~(n + 1 <= n)
    BY <1>2
  <2>4. \A k \in 0..n : k \in 0..(n + 1) /\ k <= n
    BY <1>2
  <2> QED BY <2>2, <2>3, <2>4, Zenon
<1> HIDE DEF m
<1>10. m[0] = <<>>
  <2>1. 0 \in 0..n
    BY <1>2
  <2> QED BY <2>1, <1>4, <1>9
<1>11. ASSUME NEW k \in 1..(n + 1)
       PROVE  m[k] = Typed[(MaxDepth + 1) - k][a[k]] \o m[k - 1]
  <2>1. CASE k = n + 1
    <3>1. m[n] = rest
      <4>1. n \in 0..n
        BY <1>2
      <4> QED BY <4>1, <1>5, <1>9, Zenon
    <3>2. Typed[(MaxDepth + 1) - (n + 1)][a[n + 1]] \o m[(n + 1) - 1] = first \o rest
      BY <3>1, <1>3, <1>8, Zenon DEF first
    <3> QED BY <3>2, <2>1, <1>9, Zenon
  <2>2. CASE k # n + 1
    <3>1. k \in 1..n /\ k \in 0..n /\ k - 1 \in 0..n
      BY <2>2, <1>2
    <3>2. m[k] = r[k] /\ m[k - 1] = r[k - 1] /\ a[k] = b[k]
      BY <3>1, <1>3, <1>9
    <3>3. r[k] = Typed[(MaxDepth + 1) - k][b[k]] \o r[k - 1]
      BY <3>1, <1>4
    <3> QED BY <3>2, <3>3, Zenon
  <2> QED BY <2>1, <2>2
<1>12. Sums(a, m)
  BY <1>3, <1>9, <1>10, <1>11, Zenon DEF Sums
<1>13. Owes(a, first \o rest)
  BY <1>3, <1>9, <1>12, Zenon DEF Owes
<1> QED BY <1>7, <1>13 DEF first, a, n

LEMMA OwesPop ==
  ASSUME NEW b \in Seq(LineSeq), Len(b) <= MaxDepth, NEW f \in LineSeq, NEW rest,
         Owes(Append(b, f), rest)
  PROVE  \E below \in LineSeq :
           Owes(b, below) /\ rest = Typed[MaxDepth - Len(b)][f] \o below
<1> DEFINE n == Len(b)
           a == Append(b, f)
<1>1. PICK r : Sums(a, r) /\ rest = r[Len(a)]
  BY DEF Owes
<1>2. n \in Nat /\ MaxDepth \in Nat /\ n <= MaxDepth
  BY LenProperties, ConsoleAssumption
<1>3. Len(a) = n + 1 /\ a[n + 1] = f /\ \A k \in 1..n : a[k] = b[k]
  BY AppendProperties
<1> HIDE DEF n, a
<1>4. /\ r \in [0..(n + 1) -> LineSeq] /\ r[0] = <<>> /\ rest = r[n + 1]
      /\ \A k \in 1..(n + 1) : r[k] = Typed[(MaxDepth + 1) - k][a[k]] \o r[k - 1]
  BY <1>1, <1>3, Zenon DEF Sums
<1> DEFINE m == [k \in 0..n |-> r[k]]
<1>5. m \in [0..n -> LineSeq] /\ \A k \in 0..n : m[k] = r[k]
  <2>1. \A k \in 0..n : k \in 0..(n + 1)
    BY <1>2
  <2> QED BY <2>1, <1>4
<1> HIDE DEF m
<1>6. 0 \in 0..n /\ n \in 0..n /\ n + 1 \in 1..(n + 1)
  BY <1>2
<1>7. ASSUME NEW k \in 1..n
      PROVE  m[k] = Typed[(MaxDepth + 1) - k][b[k]] \o m[k - 1]
  <2>1. k \in 0..n /\ k - 1 \in 0..n /\ k \in 1..(n + 1)
    BY <1>2
  <2>2. m[k] = r[k] /\ m[k - 1] = r[k - 1] /\ a[k] = b[k]
    BY <2>1, <1>3, <1>5
  <2>3. r[k] = Typed[(MaxDepth + 1) - k][a[k]] \o r[k - 1]
    BY <2>1, <1>4
  <2> QED BY <2>2, <2>3, Zenon
<1>8. m[0] = <<>>
  BY <1>4, <1>5, <1>6, Zenon
<1>9. Sums(b, m)
  BY <1>5, <1>7, <1>8, Zenon DEF Sums, n
<1>10. Owes(b, m[n]) /\ m[n] \in LineSeq
  BY <1>5, <1>6, <1>9, Zenon DEF Owes, n
<1>11. rest = Typed[MaxDepth - n][f] \o m[n]
  <2>1. (MaxDepth + 1) - (n + 1) = MaxDepth - n /\ (n + 1) - 1 = n
    BY <1>2
  <2>2. r[n + 1] = Typed[(MaxDepth + 1) - (n + 1)][a[n + 1]] \o r[(n + 1) - 1]
    BY <1>4, <1>6, Zenon
  <2> QED BY <2>1, <2>2, <1>3, <1>4, <1>5, <1>6, Zenon
<1> QED BY <1>10, <1>11 DEF n

\* What a thread has handled and what its stack has still to hand out are the lines as
\* they would be typed.
OwedBy(frames, done, lines) ==
  /\ Len(frames) <= MaxDepth + 1
  /\ \E rest \in LineSeq : Owes(frames, rest) /\ done \o rest = Typed[MaxDepth][lines]

Owed == \A t \in Threads : OwedBy(stack[t], handled[t], given[t])

LEMMA OwedTop ==
  ASSUME NEW frames \in Seq(LineSeq), frames # <<>>, NEW done, NEW lines,
         OwedBy(frames, done, lines)
  PROVE  /\ Len(Below(frames)) \in Nat /\ Len(Below(frames)) <= MaxDepth
         /\ MaxDepth - Len(Below(frames)) \in Nat
         /\ \E below \in LineSeq :
              /\ Owes(Below(frames), below)
              /\ done \o (Typed[MaxDepth - Len(Below(frames))][Top(frames)] \o below)
                   = Typed[MaxDepth][lines]
<1> DEFINE b == Below(frames)
           f == Top(frames)
<1>1. /\ b \in Seq(LineSeq) /\ f \in LineSeq /\ frames = Append(b, f)
      /\ Len(b) = Len(frames) - 1 /\ Len(frames) \in Nat \ {0}
  BY StackShape
<1>2. Len(b) \in Nat /\ Len(b) <= MaxDepth /\ MaxDepth - Len(b) \in Nat
  <2> DEFINE n == Len(frames)
             k == Len(b)
  <2>1. k = n - 1 /\ n \in Nat \ {0} /\ n <= MaxDepth + 1 /\ MaxDepth \in Nat
    BY <1>1, ConsoleAssumption DEF OwedBy
  <2> HIDE DEF n, k
  <2>2. k \in Nat /\ k <= MaxDepth /\ MaxDepth - k \in Nat
    BY <2>1
  <2> QED BY <2>2 DEF k
<1>3. PICK rest \in LineSeq : Owes(frames, rest) /\ done \o rest = Typed[MaxDepth][lines]
  BY DEF OwedBy
<1> HIDE DEF b, f
<1>4. PICK below \in LineSeq : Owes(b, below) /\ rest = Typed[MaxDepth - Len(b)][f] \o below
  BY <1>1, <1>2, <1>3, OwesPop
<1>5. done \o (Typed[MaxDepth - Len(b)][f] \o below) = Typed[MaxDepth][lines]
  BY <1>3, <1>4
<1> QED BY <1>2, <1>4, <1>5 DEF b, f

LEMMA OwedStart ==
  ASSUME NEW done \in LineSeq, NEW lines \in LineSeq, NEW more \in LineSeq,
         OwedBy(<<>>, done, lines)
  PROVE  OwedBy(<<more>>, done, lines \o more)
<1> DEFINE first == Typed[MaxDepth][more]
<1>1. MaxDepth \in Nat /\ Len(<<>>) = 0 /\ MaxDepth - 0 = MaxDepth /\ 0 <= MaxDepth
  BY ConsoleAssumption
<1>2. done = Typed[MaxDepth][lines]
  <2>1. PICK rest \in LineSeq : Owes(<<>>, rest) /\ done \o rest = Typed[MaxDepth][lines]
    BY DEF OwedBy
  <2>2. rest = <<>>
    BY <2>1, OwesNone
  <2> QED BY <2>1, <2>2, ConcatEmptySeq DEF LineSeq
<1>3. first \in LineSeq
  BY <1>1, TypedType
<1>4. Typed[MaxDepth][lines \o more] = done \o first
  BY <1>1, <1>2, TypedConcat
<1> HIDE DEF first
<1>5. Append(<<>>, more) = <<more>> /\ Len(<<more>>) = 1
  OBVIOUS
<1>6. <<>> \in Seq(LineSeq) /\ <<>> \in LineSeq
  BY EmptySeq DEF LineSeq
<1>7. first \o <<>> = first
  BY <1>3, ConcatEmptySeq DEF LineSeq
<1>8. Owes(<<more>>, first)
  <2>1. Owes(Append(<<>>, more), Typed[MaxDepth - Len(<<>>)][more] \o <<>>)
    BY <1>1, <1>6, OwesNone, OwesPush
  <2> QED BY <2>1, <1>1, <1>5, <1>7, Zenon DEF first
<1>9. 1 <= MaxDepth + 1
  BY <1>1
<1> QED BY <1>3, <1>4, <1>5, <1>8, <1>9, Zenon DEF OwedBy

LEMMA OwedHandle ==
  ASSUME NEW frames \in Seq(LineSeq), frames # <<>>, Top(frames) # <<>>,
         NEW done \in LineSeq, NEW lines, OwedBy(frames, done, lines),
         ~NamedFile(Head(Top(frames)))
  PROVE  OwedBy(Append(Below(frames), Tail(Top(frames))), Append(done, Head(Top(frames))), lines)
<1> DEFINE b == Below(frames)
           f == Top(frames)
           d == MaxDepth - Len(b)
           one == <<Head(f)>>
           more == Typed[d][Tail(f)]
           a == Append(b, Tail(f))
<1>1. b \in Seq(LineSeq) /\ f \in LineSeq /\ Len(b) = Len(frames) - 1 /\ Len(frames) \in Nat
  BY StackShape
<1>2. Len(b) \in Nat /\ Len(b) <= MaxDepth /\ d \in Nat
  BY OwedTop
<1>3. PICK below \in LineSeq :
        Owes(b, below) /\ done \o (Typed[d][f] \o below) = Typed[MaxDepth][lines]
  BY OwedTop
<1>4. f # <<>> /\ ~NamedFile(Head(f))
  OBVIOUS
<1> HIDE DEF b, f, d
<1>5. Head(f) \in Seq(STRING) /\ Tail(f) \in LineSeq
  BY <1>1, <1>4, HeadTailProperties DEF LineSeq
<1>6. one \in LineSeq
  BY <1>5 DEF LineSeq
<1>7. more \in LineSeq
  BY <1>2, <1>5, TypedType
<1>8. Typed[d][f] = one \o more
  <2>1. Typed[d][f] = (one \o Inside(d, Head(f))) \o more
    BY <1>1, <1>2, <1>4, TypedParts
  <2>2. Inside(d, Head(f)) = <<>>
    BY <1>4 DEF Inside
  <2>3. one \o <<>> = one
    BY <1>6, ConcatEmptySeq DEF LineSeq
  <2> QED BY <2>1, <2>2, <2>3
<1>9. Append(done, Head(f)) = done \o one
  BY <1>5, AppendIsConcat DEF LineSeq
<1>10. Len(a) <= MaxDepth + 1
  <2>1. Len(a) = Len(b) + 1
    BY <1>1, <1>5, AppendProperties
  <2>2. Len(b) + 1 <= MaxDepth + 1
    BY <1>2, ConsoleAssumption
  <2> QED BY <2>1, <2>2
<1>11. more \o below \in LineSeq /\ Owes(a, more \o below)
  BY <1>1, <1>2, <1>3, <1>5, OwesPush DEF d
<1> HIDE DEF one, more, a
<1>12. done \o ((one \o more) \o below) = (done \o one) \o (more \o below)
  <2>1. (one \o more) \o below = one \o (more \o below)
    BY <1>3, <1>6, <1>7, LinesAssociate
  <2>2. done \o (one \o (more \o below)) = (done \o one) \o (more \o below)
    BY <1>6, <1>11, LinesAssociate
  <2> QED BY <2>1, <2>2, Zenon
<1>13. Append(done, Head(f)) \o (more \o below) = Typed[MaxDepth][lines]
  BY <1>3, <1>8, <1>9, <1>12, Zenon
<1>14. OwedBy(a, Append(done, Head(f)), lines)
  BY <1>10, <1>11, <1>13, Zenon DEF OwedBy
<1> QED BY <1>14 DEF a, b, f

LEMMA OwedOpen ==
  ASSUME NEW frames \in Seq(LineSeq), frames # <<>>, Top(frames) # <<>>,
         NEW done \in LineSeq, NEW lines, OwedBy(frames, done, lines),
         NamedFile(Head(Top(frames))), Len(frames) <= MaxDepth
  PROVE  OwedBy(Append(Append(Below(frames), Tail(Top(frames))), Contents[Head(Top(frames))[2]]),
                Append(done, Head(Top(frames))), lines)
<1> DEFINE b == Below(frames)
           f == Top(frames)
           d == MaxDepth - Len(b)
           one == <<Head(f)>>
           file == Contents[Head(f)[2]]
           inner == Typed[d - 1][file]
           more == Typed[d][Tail(f)]
           a == Append(b, Tail(f))
           r == Append(a, file)
<1>1. b \in Seq(LineSeq) /\ f \in LineSeq /\ Len(b) = Len(frames) - 1 /\ Len(frames) \in Nat \ {0}
  BY StackShape
<1>2. /\ Len(b) \in Nat /\ Len(b) <= MaxDepth /\ d \in Nat
      /\ d > 0 /\ d - 1 \in Nat /\ Len(b) + 1 <= MaxDepth /\ MaxDepth - (Len(b) + 1) = d - 1
      /\ MaxDepth \in Nat
  <2> DEFINE n == Len(frames)
             k == Len(b)
  <2>1. k = n - 1 /\ n \in Nat \ {0} /\ n <= MaxDepth /\ MaxDepth \in Nat
    BY <1>1, ConsoleAssumption
  <2> HIDE DEF n, k, b
  <2>2. /\ k \in Nat /\ k <= MaxDepth /\ MaxDepth - k \in Nat
        /\ MaxDepth - k > 0 /\ MaxDepth - k - 1 \in Nat /\ k + 1 <= MaxDepth
        /\ MaxDepth - (k + 1) = MaxDepth - k - 1
    BY <2>1
  <2> QED BY <2>1, <2>2 DEF k
<1>3. PICK below \in LineSeq :
        Owes(b, below) /\ done \o (Typed[d][f] \o below) = Typed[MaxDepth][lines]
  BY OwedTop
<1>4. f # <<>> /\ NamedFile(Head(f))
  OBVIOUS
<1> HIDE DEF b, f, d
<1>5. Head(f) \in Seq(STRING) /\ Tail(f) \in LineSeq
  BY <1>1, <1>4, HeadTailProperties DEF LineSeq
<1>6. one \in LineSeq
  BY <1>5 DEF LineSeq
<1>7. more \in LineSeq
  BY <1>2, <1>5, TypedType
<1>8. file \in LineSeq
  BY <1>4, ConsoleAssumption DEF NamedFile, LineSeq
<1>9. inner \in LineSeq
  BY <1>2, <1>8, TypedType
<1>10. Typed[d][f] = (one \o inner) \o more
  <2>1. Typed[d][f] = (one \o Inside(d, Head(f))) \o more
    BY <1>1, <1>2, <1>4, TypedParts
  <2>2. Inside(d, Head(f)) = inner
    BY <1>2, <1>4 DEF Inside
  <2> QED BY <2>1, <2>2
<1>11. Append(done, Head(f)) = done \o one
  BY <1>5, AppendIsConcat DEF LineSeq
<1>12. a \in Seq(LineSeq) /\ Len(a) = Len(b) + 1
  BY <1>1, <1>5, AppendProperties
<1>13. more \o below \in LineSeq /\ Owes(a, more \o below)
  BY <1>1, <1>2, <1>3, <1>5, OwesPush DEF d
<1> HIDE DEF more, a, file
<1>14. inner \o (more \o below) \in LineSeq /\ Owes(r, inner \o (more \o below))
  <2>1. Len(a) <= MaxDepth /\ MaxDepth - Len(a) = d - 1
    BY <1>2, <1>12
  <2> HIDE DEF d
  <2>2. /\ Typed[MaxDepth - Len(a)][file] \o (more \o below) \in LineSeq
        /\ Owes(r, Typed[MaxDepth - Len(a)][file] \o (more \o below))
    BY <1>8, <1>12, <1>13, <2>1, OwesPush
  <2> QED BY <2>1, <2>2, Zenon
<1>15. Len(r) <= MaxDepth + 1
  <2>1. Len(r) = Len(a) + 1
    BY <1>8, <1>12, AppendProperties
  <2> HIDE DEF r
  <2> QED BY <2>1, <1>2, <1>12
<1> HIDE DEF one, inner, r
<1>16. done \o (((one \o inner) \o more) \o below) = (done \o one) \o (inner \o (more \o below))
  <2>1. one \o inner \in LineSeq
    BY <1>6, <1>9, ConcatProperties DEF LineSeq
  <2>2. ((one \o inner) \o more) \o below = (one \o inner) \o (more \o below)
    BY <1>3, <1>7, <2>1, LinesAssociate
  <2>3. (one \o inner) \o (more \o below) = one \o (inner \o (more \o below))
    BY <1>6, <1>9, <1>13, LinesAssociate
  <2>4. done \o (one \o (inner \o (more \o below))) = (done \o one) \o (inner \o (more \o below))
    BY <1>6, <1>14, LinesAssociate
  <2> QED BY <2>2, <2>3, <2>4, Zenon
<1>17. Append(done, Head(f)) \o (inner \o (more \o below)) = Typed[MaxDepth][lines]
  BY <1>3, <1>10, <1>11, <1>16, Zenon
<1>18. OwedBy(r, Append(done, Head(f)), lines)
  BY <1>14, <1>15, <1>17, Zenon DEF OwedBy
<1> QED BY <1>18 DEF r, a, b, f, file

LEMMA OwedReturn ==
  ASSUME NEW frames \in Seq(LineSeq), frames # <<>>, Top(frames) = <<>>,
         NEW done, NEW lines, OwedBy(frames, done, lines)
  PROVE  OwedBy(Below(frames), done, lines)
<1> DEFINE b == Below(frames)
           d == MaxDepth - Len(b)
<1>1. Len(b) \in Nat /\ Len(b) <= MaxDepth /\ d \in Nat
  BY OwedTop
<1>2. PICK below \in LineSeq :
        Owes(b, below) /\ done \o (Typed[d][<<>>] \o below) = Typed[MaxDepth][lines]
  BY OwedTop
<1>3. Typed[d][<<>>] \o below = below
  BY <1>1, TypedParts, ConcatEmptySeq DEF LineSeq
<1>4. Len(b) <= MaxDepth + 1
  BY <1>1, ConsoleAssumption
<1> QED BY <1>2, <1>3, <1>4 DEF OwedBy

LEMMA OwedInit == Init => Owed
<1> SUFFICES ASSUME Init, NEW t \in Threads PROVE OwedBy(stack[t], handled[t], given[t])
  BY DEF Owed
<1>1. stack[t] = <<>> /\ handled[t] = <<>> /\ given[t] = <<>>
  BY DEF Init
<1>2. <<>> \in LineSeq
  BY EmptySeq DEF LineSeq
<1>3. MaxDepth \in Nat /\ Len(<<>>) <= MaxDepth + 1
  BY ConsoleAssumption
<1>4. <<>> \o <<>> = <<>> /\ Typed[MaxDepth][<<>>] = <<>>
  BY <1>2, <1>3, TypedParts, ConcatEmptySeq DEF LineSeq
<1> QED BY <1>1, <1>2, <1>3, <1>4, OwesNone DEF OwedBy

LEMMA MovesOwed ==
  ASSUME TypeOK, Owed, NEW t \in Threads, Moves(t)
  PROVE  OwedBy(stack'[t], handled'[t], given'[t])
<1> DEFINE frames == stack[t]
           done == handled[t]
           lines == given[t]
<1>1. /\ frames \in Seq(LineSeq) /\ done \in LineSeq /\ lines \in LineSeq
      /\ stack \in [Threads -> Seq(LineSeq)] /\ given \in [Threads -> LineSeq]
      /\ handled \in [Threads -> LineSeq]
  BY DEF TypeOK
<1>2. OwedBy(frames, done, lines)
  BY DEF Owed
<1>3. CASE \E more \in LineSeq : Starts(t, more)
  <2>1. PICK more \in LineSeq : Starts(t, more)
    BY <1>3
  <2>2. stack'[t] = <<more>> /\ given'[t] = lines \o more /\ handled'[t] = done /\ frames = <<>>
    BY <1>1, <2>1 DEF Starts, Give
  <2>3. OwedBy(<<more>>, done, lines \o more)
    BY <1>1, <1>2, <2>2, OwedStart
  <2> QED BY <2>2, <2>3
<1>4. ASSUME Ready(t)
      PROVE  /\ frames # <<>> /\ Top(frames) # <<>> /\ Line(t) = Head(Top(frames))
             /\ After(t) = Append(Below(frames), Tail(Top(frames)))
  BY <1>4, ReadyShape
<1>5. CASE Handles(t)
  <2>1. /\ Ready(t) /\ ~NamedFile(Line(t)) /\ stack'[t] = After(t) /\ given'[t] = lines
        /\ handled'[t] = Append(done, Line(t))
    BY <1>1, <1>5 DEF Handles, Turn
  <2> HIDE DEF frames, done, lines
  <2>2. OwedBy(Append(Below(frames), Tail(Top(frames))), Append(done, Head(Top(frames))), lines)
    BY <1>1, <1>2, <1>4, <2>1, OwedHandle
  <2> QED BY <1>4, <2>1, <2>2
<1>6. CASE Opens(t)
  <2>1. /\ Ready(t) /\ NamedFile(Line(t)) /\ Len(frames) <= MaxDepth
        /\ stack'[t] = Append(After(t), Contents[Line(t)[2]]) /\ given'[t] = lines
        /\ handled'[t] = Append(done, Line(t))
    BY <1>1, <1>6 DEF Opens, Turn, Depth
  <2> HIDE DEF frames, done, lines
  <2>2. OwedBy(Append(Append(Below(frames), Tail(Top(frames))), Contents[Head(Top(frames))[2]]),
               Append(done, Head(Top(frames))), lines)
    BY <1>1, <1>2, <1>4, <2>1, OwedOpen
  <2> QED BY <1>4, <2>1, <2>2
<1>7. CASE Return(t)
  <2>1. frames # <<>> /\ Top(frames) = <<>>
    BY <1>7, EmptySeq DEF Return, Depth, Top
  <2>2. stack'[t] = Below(frames) /\ handled'[t] = done /\ given'[t] = lines
    BY <1>1, <1>7 DEF Return, Below, Depth, history
  <2> HIDE DEF frames, done, lines
  <2>3. OwedBy(Below(frames), done, lines)
    BY <1>1, <1>2, <2>1, OwedReturn
  <2> QED BY <2>2, <2>3
<1>8. CASE Overflow(t)
  BY <1>2, <1>8 DEF Overflow, history
<1> QED BY <1>3, <1>5, <1>6, <1>7, <1>8 DEF Moves

LEMMA OwedStep == TypeOK /\ Owed /\ [Next]_vars => Owed'
<1> SUFFICES ASSUME TypeOK, Owed, [Next]_vars PROVE Owed'
  OBVIOUS
<1>1. CASE Rests
  BY <1>1 DEF Rests, Owed
<1>2. ASSUME NEW t \in Threads, Moves(t) PROVE Owed'
  <2>1. OwedBy(stack'[t], handled'[t], given'[t])
    BY <1>2, MovesOwed
  <2>2. ASSUME NEW u \in Threads \ {t} PROVE OwedBy(stack'[u], handled'[u], given'[u])
    BY <1>2, MovesAlone DEF Owed
  <2>3. ASSUME NEW u \in Threads PROVE OwedBy(stack'[u], handled'[u], given'[u])
    BY <2>1, <2>2
  <2> QED BY <2>3 DEF Owed
<1> QED BY <1>1, <1>2, StepMoves

\* Both parts of a sequence that was put together can be read from it.
LEMMA FirstPart ==
  ASSUME NEW a \in LineSeq, NEW b \in LineSeq
  PROVE  IsPrefix(a, a \o b)
<1> DEFINE p == Len(a)
           q == Len(b)
           c == a \o b
           s == SubSeq(c, 1, p)
<1>1. p \in Nat /\ q \in Nat
  BY LenProperties DEF LineSeq
<1>2. /\ c \in LineSeq /\ Len(c) = p + q
      /\ \A i \in 1..(p + q) : c[i] = IF i <= p THEN a[i] ELSE b[i - p]
  BY ConcatProperties DEF LineSeq
<1>3. DOMAIN c = 1..(p + q) /\ \A i \in 1..(p + q) : c[i] \in Seq(STRING)
  BY <1>2, LenProperties, ElementOfSeq DEF LineSeq
<1> HIDE DEF c, p, q
<1>4. \A i \in 1..p : i \in 1..(p + q) /\ i <= p /\ 1 + i - 1 = i
  BY <1>1
<1>5. \A i \in 1..p : c[i] = a[i]
  BY <1>2, <1>4
<1>6. s \in LineSeq /\ Len(s) = p /\ \A i \in 1..p : s[i] = c[i]
  <2>1. 1 \in Int /\ p \in Int /\ \A i \in 1..p : c[i] \in Seq(STRING)
    BY <1>1, <1>3, <1>4
  <2>2. /\ SubSeq(c, 1, p) \in Seq(Seq(STRING))
        /\ Len(SubSeq(c, 1, p)) = IF 1 <= p THEN p - 1 + 1 ELSE 0
        /\ \A i \in 1..(p - 1 + 1) : SubSeq(c, 1, p)[i] = c[1 + i - 1]
    BY <2>1, SubSeqProperties
  <2>3. p - 1 + 1 = p /\ (IF 1 <= p THEN p - 1 + 1 ELSE 0) = p
    BY <1>1
  <2> QED BY <2>2, <2>3, <1>4, Zenon DEF LineSeq
<1> HIDE DEF s
<1>7. s = a
  <2>1. Len(s) = Len(a) /\ \A i \in 1..Len(s) : s[i] = a[i]
    BY <1>5, <1>6, Zenon DEF p
  <2> QED BY <2>1, <1>6, SeqEqual DEF LineSeq
<1>8. Len(a) <= Len(c)
  BY <1>1, <1>2 DEF p
<1> QED BY <1>7, <1>8 DEF IsPrefix, s, c, p

LEMMA OwedTyped == TypeOK /\ Owed => FileIsAsTyped
<1> SUFFICES ASSUME TypeOK, Owed, NEW t \in Threads
             PROVE  /\ IsPrefix(handled[t], Typed[MaxDepth][given[t]])
                    /\ Idle(t) => handled[t] = Typed[MaxDepth][given[t]]
  BY DEF FileIsAsTyped
<1>1. handled[t] \in LineSeq
  BY DEF TypeOK
<1>2. PICK rest \in LineSeq :
        Owes(stack[t], rest) /\ handled[t] \o rest = Typed[MaxDepth][given[t]]
  BY DEF Owed, OwedBy
<1>3. IsPrefix(handled[t], handled[t] \o rest)
  BY <1>1, FirstPart
<1>4. ASSUME Idle(t) PROVE handled[t] \o rest = handled[t]
  <2>1. rest = <<>>
    BY <1>2, <1>4, OwesNone DEF Idle
  <2> QED BY <1>1, <2>1, ConcatEmptySeq DEF LineSeq
<1> QED BY <1>2, <1>3, <1>4

-----------------------------------------------------------------------------
ConsoleInv == TypeOK /\ Delivered /\ Owed /\ Followed /\ Overflown

LEMMA ConsoleInductive == Spec => []ConsoleInv
<1>1. Init => ConsoleInv
  BY TypeInit, DeliveredInit, OwedInit, FollowedInit DEF ConsoleInv, Overflown, Init
<1>2. ConsoleInv /\ [Next]_vars => ConsoleInv'
  BY TypeStep, DeliveredStep, OwedStep, FollowedStep, OverflownStep DEF ConsoleInv
<1> QED BY <1>1, <1>2, PTL DEF Spec

\* The controller accepts no command for which the agent has no handler.
THEOREM CommandsAreUnderstood == Spec => []AcceptedIsUnderstood
<1>1. ConsoleInv => AcceptedIsUnderstood
  BY DeliveredUnderstood DEF ConsoleInv
<1> QED BY <1>1, ConsoleInductive, PTL

\* The agent reads every message as it was written and finds its end, as long as the
\* number and the length of none reaches SignLimit (32768 in the program).
THEOREM MessagesAreRead == Spec => [](MessagesFit => ReadAsSent)
<1>1. ConsoleInv => (MessagesFit => ReadAsSent)
  BY DeliveredRead DEF ConsoleInv
<1> QED BY <1>1, ConsoleInductive, PTL

\* What is added or removed are the words that were typed, as long as no host got so
\* many commands that their numbers do not fit 16 bits (one is read as 0 then).
THEOREM WordsArrive == Spec => [](NumbersFit => WordsAreKept)
<1>1. ConsoleInv => (NumbersFit => WordsAreKept)
  BY DeliveredKept DEF ConsoleInv
<1> QED BY <1>1, ConsoleInductive, PTL

\* For everything that was added there are words behind "remove" that remove just that,
\* and where these are not the words of the addition, those remove something else, as
\* long as no host got so many commands that their numbers do not fit 16 bits.
THEOREM AddIsUndone == Spec => [](NumbersFit => RemoveUndoesAdd)
<1>1. ConsoleInv => (NumbersFit => RemoveUndoesAdd)
  BY DeliveredUndone DEF ConsoleInv
<1> QED BY <1>1, ConsoleInductive, PTL

\* A file of commands does what its lines would do if they were typed, in their order,
\* to the last one: the calls of processCmd inside each other forget and repeat nothing.
THEOREM FilesAreTyped == Spec => []FileIsAsTyped
<1>1. ConsoleInv => FileIsAsTyped
  BY OwedTyped DEF ConsoleInv
<1> QED BY <1>1, ConsoleInductive, PTL

\* If files open inside each other overflow the stack, and not because it holds fewer
\* than there are files, then one names itself, directly or by way of others, and lines
\* that were given ask for it.
THEOREM OverflowMeansCycle ==
  ASSUME IsFiniteSet(Files), Cardinality(Files) <= MaxDepth
  PROVE  Spec => []OnlyCyclesOverflow
<1>1. ConsoleInv => OnlyCyclesOverflow
  BY OverflownCycle DEF ConsoleInv
<1> QED BY <1>1, ConsoleInductive, PTL

=============================================================================
