--------------------------- MODULE ConfigDbProofs ---------------------------
(***************************************************************************)
(* Theorems about ConfigDb: a file of any length, any hosts and addresses, *)
(* any lines that are cut into what their writer means.                    *)
(***************************************************************************)
EXTENDS ConfigDbProperties, SequenceTheorems, FiniteSetTheorems, WellFoundedInduction, TLAPS

Entry == [key : Keys, value : Seq(Seq(Tokens)), number : Nat \ {0}]
FileLine == [key : Keys \cup {Nobody}, commands : Seq(Seq(Tokens))]

DbTypeOK ==
  /\ configDb \in Seq(Entry)
  /\ file \in Seq(FileLine)
  /\ phase \in {"reading", "serving", "exited"}

\* What operator< is after all: the order of the keys by host, source and
\* destination, the largest first, in which keys for every source are equal.
Leads(a, b) ==
  \/ a.hostName > b.hostName
  \/ /\ a.hostName = b.hostName
     /\ \/ a.source > b.source
        \/ a.source = b.source /\ (a.source = Star \/ a.destination >= b.destination)

IsExact(key) == key.source # Star /\ key.destination # Star

\* Of equal keys without "*" the later line comes first, of others the earlier.
Precedes(e, f) ==
  /\ Leads(e.key, f.key)
  /\ Leads(f.key, e.key) =>
       IF IsExact(e.key) THEN e.number > f.number ELSE e.number < f.number

Ordered == \A i, j \in DOMAIN configDb : i < j => Precedes(configDb[i], configDb[j])

\* The record of line n.
RecordOf(n) == [key |-> file[n].key, value |-> file[n].commands, number |-> n]

\* Each line with a meaning has a record, and each record such a line.
Recorded ==
  /\ \A i \in DOMAIN configDb :
       /\ configDb[i].number \in DOMAIN file
       /\ configDb[i] = RecordOf(configDb[i].number)
  /\ \A i, j \in DOMAIN configDb : configDb[i].number = configDb[j].number => i = j
  /\ \A n \in DOMAIN file : file[n].key # Nobody => \E i \in DOMAIN configDb : configDb[i].number = n
  /\ phase = "exited" <=> \E n \in DOMAIN file : file[n].key = Nobody

DbInv == DbTypeOK /\ Ordered /\ Recorded

-----------------------------------------------------------------------------
(* The order of the keys *)

LEMMA KeyTypes ==
  /\ \A k \in Keys : k.hostName \in Nat \ {0} /\ k.source \in Nat /\ k.destination \in Nat
  /\ \A k \in Requests : /\ k.hostName \in Nat \ {0}
                         /\ k.source \in Nat \ {0} /\ k.destination \in Nat \ {0}
  /\ Nobody \notin Keys /\ Nobody.hostName = 0
<1>1. Hosts \subseteq Nat \ {0} /\ Addrs \subseteq Nat \ {0} /\ Patterns \subseteq Nat
  BY ConfigDbAssumption DEF Patterns, Star
<1>2. \A k \in Keys : k.hostName \in Nat \ {0} /\ k.source \in Nat /\ k.destination \in Nat
  BY <1>1 DEF Keys
<1>3. \A k \in Requests : /\ k.hostName \in Nat \ {0}
                          /\ k.source \in Nat \ {0} /\ k.destination \in Nat \ {0}
  BY <1>1 DEF Requests
<1>4. Nobody.hostName = 0
  BY DEF Nobody
<1> QED BY <1>2, <1>3, <1>4

\* A key is inserted behind the entries it is not before and ahead of the others.
LEMMA BeforeLeads ==
  ASSUME NEW k \in Keys, NEW a \in Keys
  PROVE  /\ Before(k, a) => Leads(k, a) /\ (Leads(a, k) => IsExact(k))
         /\ ~Before(k, a) => Leads(a, k) /\ (Leads(k, a) => ~IsExact(a))
BY KeyTypes DEF Before, Leads, IsExact, Star

LEMMA BeforeGoesOn ==
  ASSUME NEW k \in Keys, NEW a \in Keys, NEW b \in Keys, Before(k, a), Leads(a, b)
  PROVE  Before(k, b)
BY KeyTypes DEF Before, Leads, Star

\* A set of numbers that is not empty has a least one.
LEMMA LeastNumber ==
  ASSUME NEW V \in SUBSET Nat, V # {}
  PROVE  \E v \in V : \A w \in V : v <= w
<1>1. PICK v \in V : \A w \in V : ~(<<w, v>> \in OpToRel(<, Nat))
  BY NatLessThanWellFounded, WFMin
<1>2. ASSUME NEW w \in V PROVE v <= w
  <2>1. v \in Nat /\ w \in Nat
    OBVIOUS
  <2> SUFFICES ASSUME w < v PROVE FALSE
    BY <2>1
  <2>2. <<w, v>> \in OpToRel(<, Nat)
    BY <2>1 DEF OpToRel
  <2> QED BY <1>1, <2>2
<1> QED BY <1>2

LEMMA Entries ==
  ASSUME DbTypeOK
  PROVE  /\ DOMAIN configDb = 1..Len(configDb) /\ Len(configDb) \in Nat
         /\ DOMAIN file = 1..Len(file) /\ Len(file) \in Nat
         /\ \A i \in DOMAIN configDb : configDb[i] \in Entry /\ configDb[i].key \in Keys
         /\ \A n \in DOMAIN file : file[n] \in FileLine
<1>1. \A e \in Entry : e.key \in Keys
  BY DEF Entry
<1> QED BY <1>1, LenProperties, ElementOfSeq DEF DbTypeOK

\* The entries a key is not before come first.
LEMMA SearchesMeet ==
  ASSUME DbTypeOK, Ordered, NEW k \in Keys,
         NEW i \in DOMAIN configDb, NEW j \in DOMAIN configDb, i <= j,
         Before(k, configDb[i].key)
  PROVE  Before(k, configDb[j].key)
<1>1. i = j \/ i < j
  BY Entries
<1>2. i < j => Leads(configDb[i].key, configDb[j].key)
  BY DEF Ordered, Precedes
<1> QED BY <1>1, <1>2, Entries, BeforeGoesOn

\* A place for a key is right before the first entry the key is before.
LEMMA OnePlace ==
  ASSUME DbTypeOK, Ordered, NEW k \in Keys
  PROVE  \E p \in 0..Len(configDb) : Places(k) = {p}
<1> DEFINE V == {i \in DOMAIN configDb : Before(k, configDb[i].key)}
<1>1. DOMAIN configDb = 1..Len(configDb) /\ Len(configDb) \in Nat
  BY Entries
<1>2. \E p \in 0..Len(configDb) : \A i \in DOMAIN configDb : i \in V <=> p < i
  <2>1. CASE V = {}
    BY <1>1, <2>1
  <2>2. CASE V # {}
    <3>1. V \in SUBSET Nat
      BY <1>1
    <3> HIDE DEF V
    <3>2. PICK v \in V : \A w \in V : v <= w
      BY <2>2, <3>1, LeastNumber
    <3>3. v \in DOMAIN configDb /\ Before(k, configDb[v].key)
      BY DEF V
    <3>4. \A i \in DOMAIN configDb : v <= i => i \in V
      BY <3>3, SearchesMeet DEF V
    <3>5. v - 1 \in 0..Len(configDb) /\ \A i \in DOMAIN configDb : i \in V <=> v - 1 < i
      BY <1>1, <3>2, <3>3, <3>4
    <3> QED BY <3>5
  <2> QED BY <2>1, <2>2
<1>3. PICK p \in 0..Len(configDb) : \A i \in DOMAIN configDb : i \in V <=> p < i
  BY <1>2
<1>4. p \in Places(k)
  BY <1>1, <1>3 DEF Places
<1>5. ASSUME NEW q \in Places(k) PROVE q = p
  <2>1. /\ q \in 0..Len(configDb)
        /\ q > 0 => ~Before(k, configDb[q].key)
        /\ q < Len(configDb) => Before(k, configDb[q + 1].key)
    BY DEF Places
  <2>2. q > 0 => q <= p
    BY <1>1, <1>3, <2>1
  <2>3. q < Len(configDb) => p < q + 1
    BY <1>1, <1>3, <2>1
  <2> QED BY <1>1, <2>1, <2>2, <2>3
<1> QED BY <1>4, <1>5

-----------------------------------------------------------------------------
(* Reading the file *)

\* The entries after an insertion at place p.
InsertedAt(db, p, e) == SubSeq(db, 1, p) \o <<e>> \o SubSeq(db, p + 1, Len(db))

LEMMA Inserted ==
  ASSUME NEW S, NEW db \in Seq(S), NEW e \in S, NEW p \in 0..Len(db)
  PROVE  LET new == InsertedAt(db, p, e) IN
         /\ new \in Seq(S) /\ DOMAIN new = 1..(Len(db) + 1)
         /\ \A i \in 1..p : new[i] = db[i]
         /\ new[p + 1] = e
         /\ \A i \in (p + 2)..(Len(db) + 1) : new[i] = db[i - 1]
<1> PICK new : new = InsertedAt(db, p, e)
  OBVIOUS
<1>1. Len(db) \in Nat /\ \A i \in 1..Len(db) : db[i] \in S
  BY LenProperties, ElementOfSeq
<1>2. PICK l : l = SubSeq(db, 1, p)
  OBVIOUS
<1>3. PICK r : r = SubSeq(db, p + 1, Len(db))
  OBVIOUS
<1>4. PICK m : m = <<e>>
  OBVIOUS
<1>5. l \in Seq(S) /\ Len(l) = p /\ \A i \in 1..p : l[i] = db[i]
  BY <1>1, <1>2, SubSeqProperties
<1>6. r \in Seq(S) /\ Len(r) = Len(db) - p /\ \A i \in 1..(Len(db) - p) : r[i] = db[p + i]
  BY <1>1, <1>3, SubSeqProperties
<1>7. m \in Seq(S) /\ Len(m) = 1 /\ m[1] = e
  BY <1>4
<1>8. PICK x : x = l \o m
  OBVIOUS
<1>9. /\ x \in Seq(S) /\ Len(x) = p + 1 /\ p \in Nat /\ p <= Len(db)
      /\ \A i \in 1..p : x[i] = db[i]
      /\ x[p + 1] = e
  <2>1. /\ x \in Seq(S) /\ Len(x) = p + 1
        /\ \A i \in 1..(p + 1) : x[i] = IF i <= p THEN l[i] ELSE m[i - p]
    <3>1. /\ x \in Seq(S) /\ Len(x) = Len(l) + Len(m)
          /\ \A i \in 1..(Len(l) + Len(m)) : x[i] = IF i <= Len(l) THEN l[i] ELSE m[i - Len(l)]
      BY <1>5, <1>7, <1>8, ConcatProperties
    <3> QED BY <1>5, <1>7, <3>1
  <2>2. p \in Nat /\ p <= Len(db)
    BY <1>1
  <2>3. p + 1 \in 1..(p + 1) /\ ~(p + 1 <= p) /\ (p + 1) - p = 1
    BY <2>2
  <2>4. x[p + 1] = m[1]
    BY <2>1, <2>3
  <2>5. \A i \in 1..p : i \in 1..(p + 1) /\ i <= p
    BY <2>2
  <2> QED BY <1>5, <1>7, <2>1, <2>2, <2>4, <2>5
<1>10. new = x \o r
  BY <1>2, <1>3, <1>4, <1>8 DEF InsertedAt
<1>11. /\ new \in Seq(S) /\ Len(new) = Len(db) + 1
       /\ \A i \in 1..(Len(db) + 1) : new[i] = IF i <= p + 1 THEN x[i] ELSE r[i - (p + 1)]
  <2>1. /\ new \in Seq(S) /\ Len(new) = (p + 1) + (Len(db) - p)
        /\ \A i \in 1..((p + 1) + (Len(db) - p)) : new[i] = IF i <= p + 1 THEN x[i] ELSE r[i - (p + 1)]
    <3>1. /\ x \o r \in Seq(S) /\ Len(x \o r) = Len(x) + Len(r)
          /\ \A i \in 1..(Len(x) + Len(r)) : (x \o r)[i] = IF i <= Len(x) THEN x[i] ELSE r[i - Len(x)]
      BY <1>6, <1>9, ConcatProperties
    <3> QED BY <1>6, <1>9, <1>10, <3>1
  <2>2. (p + 1) + (Len(db) - p) = Len(db) + 1
    BY <1>1, <1>9
  <2> QED BY <2>1, <2>2
<1>12. \A i \in (p + 2)..(Len(db) + 1) : new[i] = db[i - 1]
  <2> TAKE i \in (p + 2)..(Len(db) + 1)
  <2>1. i - (p + 1) \in 1..(Len(db) - p) /\ p + (i - (p + 1)) = i - 1
    BY <1>1
  <2>2. ~(i <= p + 1) /\ i \in 1..(Len(db) + 1)
    BY <1>1
  <2> QED BY <1>6, <1>11, <2>1, <2>2
<1>13. \A i \in 1..p : new[i] = db[i]
  <2>1. \A i \in 1..p : i \in 1..(Len(db) + 1) /\ i <= p + 1
    BY <1>1, <1>9
  <2> QED BY <1>9, <1>11, <2>1
<1>14. new[p + 1] = e
  <2>1. p + 1 \in 1..(Len(db) + 1) /\ p + 1 <= p + 1
    BY <1>1, <1>9
  <2> QED BY <1>9, <1>11, <2>1
<1>15. DOMAIN new = 1..(Len(db) + 1)
  BY <1>11, LenProperties
<1> QED BY <1>11, <1>12, <1>13, <1>14, <1>15

\* What a line that is read does.
LEMMA LineRead ==
  ASSUME LinesReadAsMeant, DbTypeOK, NEW l \in Lines, ReadLine(l)
  PROVE  \E f \in FileLine :
           /\ file' = Append(file, f) /\ phase = "reading"
           /\ \/ f.key = Nobody /\ phase' = "exited" /\ configDb' = configDb
              \/ /\ f.key \in Keys /\ phase' = phase
                 /\ \E p \in Places(f.key) :
                      configDb' = SubSeq(configDb, 1, p)
                        \o <<[key |-> f.key, value |-> f.commands, number |-> Len(file) + 1]>>
                        \o SubSeq(configDb, p + 1, Len(configDb))
<1> DEFINE f == [key |-> l.key, commands |-> l.commands]
<1>1. /\ l.key \in Keys \cup {Nobody} /\ l.commands \in Seq(Seq(Tokens))
  BY ConfigDbAssumption
<1>2. f \in FileLine /\ f.key = l.key /\ f.commands = l.commands
  BY <1>1 DEF FileLine
<1>3. file' = Append(file, f) /\ phase = "reading"
  BY DEF ReadLine
<1> HIDE DEF f
<1>4. CASE Malformed(l.line)
  <2>1. l.key = Nobody
    BY <1>4 DEF LinesReadAsMeant
  <2> QED BY <1>2, <1>3, <1>4, <2>1 DEF ReadLine
<1>5. CASE ~Malformed(l.line)
  <2>1. l.key \in Keys
    BY <1>1, <1>5 DEF LinesReadAsMeant
  <2>2. Insert(l.key, l.commands) /\ phase' = phase
    BY <1>5 DEF LinesReadAsMeant, ReadLine
  <2> QED BY <1>2, <1>3, <2>1, <2>2 DEF Insert
<1> QED BY <1>4, <1>5

LEMMA NextDb ==
  ASSUME LinesReadAsMeant, DbInv, [Next]_vars
  PROVE  DbInv'
<1>1. CASE UNCHANGED vars
  BY <1>1 DEF vars, DbInv, DbTypeOK, Ordered, Recorded, RecordOf
<1>2. CASE EndOfFile
  BY <1>2 DEF EndOfFile, DbInv, DbTypeOK, Ordered, Recorded, RecordOf
<1>3. ASSUME NEW l \in Lines, ReadLine(l) PROVE DbInv'
  <2>1. PICK f \in FileLine :
          /\ file' = Append(file, f) /\ phase = "reading"
          /\ \/ f.key = Nobody /\ phase' = "exited" /\ configDb' = configDb
             \/ /\ f.key \in Keys /\ phase' = phase
                /\ \E p \in Places(f.key) :
                     configDb' = SubSeq(configDb, 1, p)
                       \o <<[key |-> f.key, value |-> f.commands, number |-> Len(file) + 1]>>
                       \o SubSeq(configDb, p + 1, Len(configDb))
    BY <1>3, LineRead DEF DbInv
  <2>2. /\ file' \in Seq(FileLine) /\ DOMAIN file' = 1..(Len(file) + 1) /\ DOMAIN file = 1..Len(file)
        /\ Len(file) \in Nat /\ file'[Len(file) + 1] = f
        /\ \A n \in DOMAIN file : file'[n] = file[n]
    BY <2>1, AppendProperties, LenProperties DEF DbInv, DbTypeOK
  <2>3. \A n \in DOMAIN file : file[n].key # Nobody
    BY <2>1 DEF DbInv, Recorded
  <2>4. CASE f.key = Nobody /\ phase' = "exited" /\ configDb' = configDb
    <3>1. DbTypeOK' /\ Ordered'
      BY <2>2, <2>4 DEF DbInv, DbTypeOK, Ordered
    <3>2. \A n \in DOMAIN file' : n \in DOMAIN file \/ n = Len(file) + 1
      BY <2>2
    <3>3. Recorded'
      BY <2>2, <2>4, <3>2 DEF DbInv, Recorded, RecordOf
    <3> QED BY <3>1, <3>3 DEF DbInv
  <2>5. CASE /\ f.key \in Keys /\ phase' = phase
             /\ \E p \in Places(f.key) :
                  configDb' = SubSeq(configDb, 1, p)
                    \o <<[key |-> f.key, value |-> f.commands, number |-> Len(file) + 1]>>
                    \o SubSeq(configDb, p + 1, Len(configDb))
    <3> DEFINE N == Len(file) + 1
               L == Len(configDb)
    <3>1. PICK e : e = [key |-> f.key, value |-> f.commands, number |-> N]
      OBVIOUS
    <3>2. PICK p \in Places(f.key) :
            configDb' = SubSeq(configDb, 1, p) \o <<e>> \o SubSeq(configDb, p + 1, L)
      BY <2>5, <3>1
    <3>3. e \in Entry /\ e.key = f.key /\ e.number = N /\ e.value = f.commands
      <4>1. f.key \in Keys /\ f.commands \in Seq(Seq(Tokens)) /\ N \in Nat \ {0}
        <5>1. f \in FileLine
          BY <2>2, ElementOfSeq
        <5> QED BY <2>2, <2>5, <5>1 DEF FileLine
      <4> QED BY <3>1, <4>1 DEF Entry
    <3>4. /\ L \in Nat /\ p \in 0..L /\ configDb \in Seq(Entry) /\ DOMAIN configDb = 1..L
          /\ p > 0 => ~Before(f.key, configDb[p].key)
          /\ p < L => Before(f.key, configDb[p + 1].key)
      BY Entries DEF Places, DbInv, DbTypeOK
    <3>5. /\ configDb' \in Seq(Entry) /\ DOMAIN configDb' = 1..(L + 1)
          /\ \A i \in 1..p : configDb'[i] = configDb[i]
          /\ configDb'[p + 1] = e
          /\ \A i \in (p + 2)..(L + 1) : configDb'[i] = configDb[i - 1]
      <4> PICK db : db = configDb
        OBVIOUS
      <4> PICK S : S = Entry
        OBVIOUS
      <4>1. configDb' = InsertedAt(db, p, e)
        BY <3>2 DEF InsertedAt
      <4>2. db \in Seq(S) /\ e \in S /\ p \in 0..Len(db)
        BY <3>3, <3>4
      <4>3. /\ InsertedAt(db, p, e) \in Seq(S) /\ DOMAIN InsertedAt(db, p, e) = 1..(Len(db) + 1)
            /\ \A i \in 1..p : InsertedAt(db, p, e)[i] = db[i]
            /\ InsertedAt(db, p, e)[p + 1] = e
            /\ \A i \in (p + 2)..(Len(db) + 1) : InsertedAt(db, p, e)[i] = db[i - 1]
        BY <4>2, Inserted
      <4> QED BY <4>1, <4>3
    <3>6. DbTypeOK'
      BY <2>1, <2>2, <2>5, <3>5 DEF DbInv, DbTypeOK
    <3>7. \A i \in DOMAIN configDb : /\ configDb[i].number \in 1..Len(file)
                                     /\ configDb[i].key \in Keys
      BY <2>2, Entries DEF DbInv, Recorded
    <3>8. \A i \in 1..p : Precedes(configDb[i], e)
      <4> TAKE i \in 1..p
      <4>1. i \in DOMAIN configDb /\ p \in DOMAIN configDb /\ i <= p /\ p > 0
        BY <3>4
      <4>2. ~Before(f.key, configDb[i].key)
        BY <2>5, <3>4, <4>1, SearchesMeet DEF DbInv
      <4>3. /\ Leads(configDb[i].key, f.key)
            /\ Leads(f.key, configDb[i].key) => ~IsExact(configDb[i].key)
        BY <2>5, <3>7, <4>1, <4>2, BeforeLeads
      <4>4. configDb[i].number < e.number
        BY <2>2, <3>3, <3>7, <4>1
      <4> QED BY <3>3, <4>3, <4>4 DEF Precedes
    <3>9. \A j \in (p + 1)..L : Precedes(e, configDb[j])
      <4> TAKE j \in (p + 1)..L
      <4>1. j \in DOMAIN configDb /\ p + 1 \in DOMAIN configDb /\ p + 1 <= j /\ p < L
        BY <3>4
      <4>2. Before(f.key, configDb[j].key)
        BY <2>5, <3>4, <4>1, SearchesMeet DEF DbInv
      <4>3. /\ Leads(f.key, configDb[j].key)
            /\ Leads(configDb[j].key, f.key) => IsExact(f.key)
        BY <2>5, <3>7, <4>1, <4>2, BeforeLeads
      <4>4. e.number > configDb[j].number
        BY <2>2, <3>3, <3>7, <4>1
      <4> QED BY <3>3, <4>3, <4>4 DEF Precedes
    <3>10. Ordered'
      <4> SUFFICES ASSUME NEW i \in 1..(L + 1), NEW j \in 1..(L + 1), i < j
                   PROVE  Precedes(configDb'[i], configDb'[j])
        BY <3>5 DEF Ordered
      <4>1. i \in 1..p \/ i = p + 1 \/ i \in (p + 2)..(L + 1)
        BY <3>4
      <4>2. CASE j \in 1..p
        <5>1. i \in 1..p /\ i \in DOMAIN configDb /\ j \in DOMAIN configDb
          BY <3>4, <4>2
        <5> QED BY <3>5, <4>2, <5>1 DEF DbInv, Ordered
      <4>3. CASE j = p + 1
        <5>1. i \in 1..p
          BY <3>4, <4>3
        <5> QED BY <3>5, <3>8, <4>3, <5>1
      <4>4. CASE j \in (p + 2)..(L + 1)
        <5>1. configDb'[j] = configDb[j - 1] /\ j - 1 \in (p + 1)..L /\ j - 1 \in DOMAIN configDb
          BY <3>4, <3>5, <4>4
        <5>2. CASE i \in 1..p
          <6>1. i \in DOMAIN configDb /\ i < j - 1 /\ configDb'[i] = configDb[i]
            BY <3>4, <3>5, <4>4, <5>2
          <6> QED BY <5>1, <6>1 DEF DbInv, Ordered
        <5>3. CASE i = p + 1
          BY <3>5, <3>9, <5>1, <5>3
        <5>4. CASE i \in (p + 2)..(L + 1)
          <6>1. i - 1 \in DOMAIN configDb /\ i - 1 < j - 1 /\ configDb'[i] = configDb[i - 1]
            BY <3>4, <3>5, <5>4
          <6> QED BY <5>1, <6>1 DEF DbInv, Ordered
        <5> QED BY <4>1, <5>2, <5>3, <5>4
      <4> QED BY <3>4, <4>2, <4>3, <4>4
    <3>11. \A i \in DOMAIN configDb' :
             i = p + 1 \/ \E k \in DOMAIN configDb :
                            /\ configDb'[i] = configDb[k]
                            /\ k = IF i <= p THEN i ELSE i - 1
      <4> TAKE i \in DOMAIN configDb'
      <4>1. i \in 1..p \/ i = p + 1 \/ i \in (p + 2)..(L + 1)
        BY <3>4, <3>5
      <4>2. CASE i \in 1..p
        BY <3>4, <3>5, <4>2
      <4>3. CASE i \in (p + 2)..(L + 1)
        <5>1. i - 1 \in DOMAIN configDb /\ ~(i <= p) /\ configDb'[i] = configDb[i - 1]
          BY <3>4, <3>5, <4>3
        <5> QED BY <5>1
      <4> QED BY <4>1, <4>2, <4>3
    <3>12. \A k \in DOMAIN configDb : \E i \in DOMAIN configDb' : configDb'[i] = configDb[k]
      <4> TAKE k \in DOMAIN configDb
      <4>1. CASE k \in 1..p
        BY <3>4, <3>5, <4>1
      <4>2. CASE k \in (p + 1)..L
        <5>1. k + 1 \in (p + 2)..(L + 1) /\ k + 1 \in 1..(L + 1) /\ (k + 1) - 1 = k
          BY <3>4, <4>2
        <5> QED BY <3>5, <5>1
      <4> QED BY <3>4, <4>1, <4>2
    <3>13. p + 1 \in DOMAIN configDb'
      BY <3>4, <3>5
    <3>14. \A i \in DOMAIN configDb' :
             /\ configDb'[i].number \in DOMAIN file'
             /\ configDb'[i] = [key |-> file'[configDb'[i].number].key,
                               value |-> file'[configDb'[i].number].commands,
                               number |-> configDb'[i].number]
      <4> TAKE i \in DOMAIN configDb'
      <4>1. CASE i = p + 1
        BY <2>2, <3>1, <3>3, <3>5, <4>1 DEF RecordOf
      <4>2. CASE i # p + 1
        <5>1. PICK k \in DOMAIN configDb : configDb'[i] = configDb[k]
          BY <3>11, <4>2
        <5>2. configDb[k].number \in DOMAIN file /\ configDb[k] = RecordOf(configDb[k].number)
          BY DEF DbInv, Recorded
        <5> QED BY <2>2, <5>1, <5>2 DEF RecordOf
      <4> QED BY <4>1, <4>2
    <3>15. \A i, j \in DOMAIN configDb' : configDb'[i].number = configDb'[j].number => i = j
      <4> TAKE i, j \in DOMAIN configDb'
      <4> HAVE configDb'[i].number = configDb'[j].number
      <4>1. i \in 1..(L + 1) /\ j \in 1..(L + 1)
        BY <3>5
      <4>2. CASE i = p + 1 \/ j = p + 1
        BY <2>2, <3>3, <3>5, <3>7, <3>11, <4>2
      <4>3. CASE i # p + 1 /\ j # p + 1
        <5>1. PICK k \in DOMAIN configDb : /\ configDb'[i] = configDb[k]
                                          /\ k = IF i <= p THEN i ELSE i - 1
          BY <3>11, <4>3
        <5>2. PICK m \in DOMAIN configDb : /\ configDb'[j] = configDb[m]
                                          /\ m = IF j <= p THEN j ELSE j - 1
          BY <3>11, <4>3
        <5>3. k = m
          BY <5>1, <5>2 DEF DbInv, Recorded
        <5> QED BY <3>4, <4>1, <4>3, <5>1, <5>2, <5>3
      <4> QED BY <4>2, <4>3
    <3>16. \A n \in DOMAIN file' :
             file'[n].key # Nobody => \E i \in DOMAIN configDb' : configDb'[i].number = n
      <4> TAKE n \in DOMAIN file'
      <4>1. CASE n = N
        BY <3>3, <3>5, <3>13, <4>1
      <4>2. CASE n # N
        <5>1. n \in DOMAIN file
          BY <2>2, <4>2
        <5>2. PICK k \in DOMAIN configDb : configDb[k].number = n
          BY <2>3, <5>1 DEF DbInv, Recorded
        <5> QED BY <3>12, <5>2
      <4> QED BY <4>1, <4>2
    <3>17. phase' = "exited" <=> \E n \in DOMAIN file' : file'[n].key = Nobody
      <4>1. \A n \in DOMAIN file' : n \in DOMAIN file \/ n = N
        BY <2>2
      <4>2. f.key # Nobody
        BY <2>5, KeyTypes
      <4>3. \A n \in DOMAIN file' : file'[n].key # Nobody
        BY <2>2, <2>3, <4>1, <4>2
      <4> QED BY <2>1, <2>5, <4>3
    <3>18. Recorded'
      BY <3>14, <3>15, <3>16, <3>17 DEF Recorded, RecordOf
    <3> QED BY <3>6, <3>10, <3>18 DEF DbInv
  <2> QED BY <2>1, <2>4, <2>5
<1> QED BY <1>1, <1>2, <1>3 DEF Next

LEMMA DbCorrect == ASSUME LinesReadAsMeant PROVE Spec => []DbInv
<1>1. Init => DbInv
  <2> SUFFICES ASSUME Init PROVE DbInv
    OBVIOUS
  <2>1. DOMAIN configDb = {} /\ DOMAIN file = {}
    BY DEF Init
  <2> QED BY <2>1 DEF Init, DbInv, DbTypeOK, Ordered, Recorded
<1>2. DbInv /\ [Next]_vars => DbInv'
  BY NextDb
<1> QED BY <1>1, <1>2, PTL DEF Spec

\* For every file and every key: the search of the tree for its place ends at the
\* same one whatever the shape of the tree, though operator< is no strict weak
\* order.
THEOREM TreeShapeCorrect == ASSUME LinesReadAsMeant PROVE Spec => []TreeShapeDoesNotMatter
<1>1. ASSUME DbInv PROVE TreeShapeDoesNotMatter
  <2> SUFFICES ASSUME NEW key \in Keys PROVE Cardinality(Places(key)) = 1
    BY DEF TreeShapeDoesNotMatter
  <2>1. PICK p \in 0..Len(configDb) : Places(key) = {p}
    BY <1>1, OnePlace DEF DbInv
  <2> QED BY <2>1, FS_Singleton
<1>2. Spec => []DbInv
  BY DbCorrect
<1> QED BY <1>1, <1>2, PTL

\* Whatever the order of the lines: each line with a meaning has its one record,
\* with what its writer means, and there are no others.
THEOREM EveryLineCorrect == ASSUME LinesReadAsMeant PROVE Spec => []EveryLineKept
<1>1. ASSUME DbInv PROVE EveryLineKept
  <2> DEFINE kept == {n \in DOMAIN file : file[n].key # Nobody}
             number == [i \in 1..Len(configDb) |-> configDb[i].number]
  <2>1. DOMAIN configDb = 1..Len(configDb) /\ Len(configDb) \in Nat
    BY <1>1, Entries DEF DbInv
  <2>2. \A i \in DOMAIN configDb : /\ configDb[i].number \in DOMAIN file
                                   /\ configDb[i] = RecordOf(configDb[i].number)
                                   /\ configDb[i].key \in Keys
    BY <1>1, Entries DEF DbInv, Recorded
  <2>3. \A i \in DOMAIN configDb : configDb[i].number \in kept
    <3> TAKE i \in DOMAIN configDb
    <3>1. PICK n : n = configDb[i].number
      OBVIOUS
    <3>2. configDb[i].key = file[n].key
      BY <2>2, <3>1 DEF RecordOf
    <3> QED BY <2>2, <3>1, <3>2, KeyTypes
  <2>4. \A n \in kept : \E i \in DOMAIN configDb : configDb[i].number = n
    BY <1>1 DEF DbInv, Recorded
  <2>5. Len(configDb) = Cardinality(kept)
    <3>1. \A i, j \in 1..Len(configDb) : number[i] = number[j] => i = j
      BY <1>1, <2>1 DEF DbInv, Recorded
    <3> HIDE DEF kept
    <3>2. number \in [1..Len(configDb) -> kept]
      BY <2>1, <2>3
    <3>3. \A n \in kept : \E i \in 1..Len(configDb) : number[i] = n
      BY <2>1, <2>4
    <3>4. number \in Bijection(1..Len(configDb), kept)
      BY <3>1, <3>2, <3>3 DEF Bijection, Injection, Surjection, IsInjective
    <3>5. ExistsBijection(1..Len(configDb), kept)
      BY <3>4 DEF ExistsBijection
    <3> QED BY <2>1, <3>5, FS_CountingElements
  <2>6. phase = "exited" <=> kept # DOMAIN file
    BY <1>1 DEF DbInv, Recorded
  <2>7. \A n \in kept :
          \E i \in DOMAIN configDb :
            configDb[i] = [key |-> file[n].key, value |-> file[n].commands, number |-> n]
    BY <2>2, <2>4 DEF RecordOf
  <2> QED BY <2>5, <2>6, <2>7 DEF EveryLineKept
<1>2. Spec => []DbInv
  BY DbCorrect
<1> QED BY <1>1, <1>2, PTL

-----------------------------------------------------------------------------
(* The record that is found *)

\* A record that leads another one which serves the same packet is more specific, or
\* both are equal in operator<: then they agree, or are for every source.
LEMMA Fits ==
  ASSUME NEW k \in Requests, NEW a \in Keys, NEW b \in Keys, Match(k, a), Match(k, b),
         Leads(a, b)
  PROVE  \/ MoreSpecific(a, b)
         \/ a = b /\ Leads(b, a)
         \/ a.source = Star /\ b.source = Star /\ Leads(b, a)
<1>1. /\ a.hostName = b.hostName /\ k.source # 0 /\ k.destination # 0
      /\ a.source \in {0, k.source} /\ b.source \in {0, k.source}
      /\ a.destination \in {0, k.destination} /\ b.destination \in {0, k.destination}
      /\ a.hostName \in Nat /\ k.source \in Nat /\ k.destination \in Nat
  BY KeyTypes DEF Match, Star
<1>2. a.source = b.source /\ a.destination = b.destination => a = b
  BY <1>1 DEF Keys
<1> QED BY <1>1, <1>2 DEF Leads, MoreSpecific, Star

LEMMA FoundIsAppropriate ==
  ASSUME DbInv, NEW k \in Requests
  PROVE  LET n == GetValue(k).number IN
         IF Serving(k) = {} THEN n = 0
         ELSE /\ n \in Serving(k)
              /\ \A m \in Serving(k) \ {n} :
                   LET found == file[n].key
                       other == file[m].key
                   IN  \/ MoreSpecific(found, other)
                       \/ found = other /\ IF Star \in {found.source, found.destination}
                                           THEN n < m ELSE n > m
                       \/ found.source = Star /\ other.source = Star /\ n < m
<1> DEFINE hits == {i \in DOMAIN configDb : Match(k, configDb[i].key)}
           any == Serving(k)
<1>1. /\ DOMAIN configDb = 1..Len(configDb) /\ Len(configDb) \in Nat
      /\ DOMAIN file = 1..Len(file) /\ Len(file) \in Nat
      /\ \A i \in DOMAIN configDb : configDb[i].key \in Keys
  BY Entries DEF DbInv
<1>2. \A i \in DOMAIN configDb : /\ configDb[i].number \in DOMAIN file
                                 /\ configDb[i].key = file[configDb[i].number].key
  BY DEF DbInv, Recorded, RecordOf
<1>3. \A n \in any : n \in DOMAIN file /\ file[n].key # Nobody
  BY KeyTypes DEF Serving, Match
<1>4. \A n \in any : \E i \in hits : configDb[i].number = n
  <2> TAKE n \in any
  <2>1. PICK i \in DOMAIN configDb : configDb[i].number = n
    BY <1>3 DEF DbInv, Recorded
  <2>2. Match(k, configDb[i].key)
    BY <1>2, <2>1 DEF Serving
  <2> QED BY <2>1, <2>2
<1>5. \A i \in hits : configDb[i].number \in any
  BY <1>2 DEF Serving
<1>6. any \in SUBSET Nat
  BY <1>1 DEF Serving
<1>7. CASE hits = {}
  <2>1. GetValue(k).number = 0
    BY <1>7 DEF GetValue, Found, NoRecord
  <2>2. any = {}
    BY <1>4, <1>7
  <2> QED BY <2>1, <2>2
<1>8. CASE hits # {}
  <2>1. hits \in SUBSET Nat
    BY <1>1
  <2>2. PICK h \in hits : \A j \in hits : h <= j
    <3> HIDE DEF hits
    <3> QED BY <1>8, <2>1, LeastNumber
  <2>3. h = CHOOSE i \in hits : \A j \in hits : i <= j
    <3>1. \A i \in hits : (\A j \in hits : i <= j) => i = h
      <4> HIDE DEF hits
      <4> TAKE i \in hits
      <4> HAVE \A j \in hits : i <= j
      <4>1. i <= h /\ h <= i /\ i \in Nat /\ h \in Nat
        BY <2>1, <2>2
      <4> QED BY <4>1
    <3> HIDE DEF hits
    <3> QED BY <2>2, <3>1
  <2> PICK a : a = configDb[h].key
    OBVIOUS
  <2> PICK n : n = configDb[h].number
    OBVIOUS
  <2>4. GetValue(k).number = n
    BY <1>8, <2>3 DEF GetValue, Found
  <2>5. /\ n \in any /\ a \in Keys /\ Match(k, a) /\ a = file[n].key
        /\ h \in DOMAIN configDb /\ n \in Nat
    BY <1>1, <1>2, <1>5, <1>6, <2>2
  \* What the search passes by is not better than what it finds.
  <2>6. ASSUME NEW m \in any, m # n
        PROVE  /\ file[m].key \in Keys /\ Match(k, file[m].key)
               /\ Leads(a, file[m].key)
               /\ Leads(file[m].key, a) => IF IsExact(a) THEN n > m ELSE n < m
    <3>1. PICK j \in hits : configDb[j].number = m
      BY <1>4, <2>6
    <3>2. h < j
      <4>1. h <= j /\ h # j /\ h \in Nat /\ j \in Nat
        BY <2>1, <2>2, <2>6, <3>1
      <4> QED BY <4>1
    <3>3. Precedes(configDb[h], configDb[j])
      BY <2>2, <3>1, <3>2 DEF DbInv, Ordered
    <3>4. configDb[j].key = file[m].key /\ configDb[j].key \in Keys
      BY <1>1, <1>2, <3>1
    <3> QED BY <3>1, <3>3, <3>4 DEF Precedes
  <2>7. ASSUME NEW m \in any, m # n
        PROVE  LET other == file[m].key IN
               \/ MoreSpecific(a, other)
               \/ a = other /\ IF Star \in {a.source, a.destination} THEN n < m ELSE n > m
               \/ a.source = Star /\ other.source = Star /\ n < m
    <3>1. /\ file[m].key \in Keys /\ Match(k, file[m].key) /\ Leads(a, file[m].key)
          /\ Leads(file[m].key, a) => IF IsExact(a) THEN n > m ELSE n < m
      BY <2>6, <2>7
    <3>2. \/ MoreSpecific(a, file[m].key)
          \/ a = file[m].key /\ Leads(file[m].key, a)
          \/ a.source = Star /\ file[m].key.source = Star /\ Leads(file[m].key, a)
      BY <2>5, <3>1, Fits
    <3>3. IsExact(a) <=> Star \notin {a.source, a.destination}
      BY DEF IsExact
    <3>4. a.source = Star => ~IsExact(a)
      BY DEF IsExact
    <3> QED BY <3>1, <3>2, <3>3, <3>4
  <2> QED BY <2>4, <2>5, <2>7
<1> QED BY <1>7, <1>8

\* For every file and every packet: no record that serves the packet is more specific
\* than the one getValueFromConfigDb finds, unless both are for every source and it
\* stands behind the one that is found.
THEOREM AppropriateCorrect == ASSUME LinesReadAsMeant PROVE Spec => []AppropriateRecordFound
<1>1. DbInv => AppropriateRecordFound
  BY FoundIsAppropriate DEF AppropriateRecordFound
<1>2. Spec => []DbInv
  BY DbCorrect
<1> QED BY <1>1, <1>2, PTL

=============================================================================
