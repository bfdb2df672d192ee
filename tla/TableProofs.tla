----------------------------- MODULE TableProofs -----------------------------
(***************************************************************************)
(* Proofs about Table, for any initial file that names no table twice, any *)
(* bodies given to add and remove, and deaths of the agent at any time.    *)
(***************************************************************************)
EXTENDS Table, FiniteSetTheorems, SequenceTheorems, TLAPS

LineSet == [id : Nat \cup {NoId}, words : Seq(STRING)]

\* The types, except that of tables, any set, and of answer, any record.
TypeOK ==
  /\ lines \in Seq(LineSet) /\ temp \in Seq(LineSet)
  /\ exists \in BOOLEAN /\ ended \in BOOLEAN /\ glued \in BOOLEAN
  /\ pc \in {"idle", "copy", "rename"}
  /\ next \in Nat \ {0}

\* No two of these lines are the same table, but for one with words behind its name.
Unique(ls) ==
  \A i, j \in Numbered(ls) :
    i < j => /\ ls[i].id # ls[j].id
             /\ Name(ls[i]) = Name(ls[j]) => Len(ls[j].words) > 1

\* The first n lines of the file, without those that have what is to be removed.
Copied(n) ==
  /\ \A k \in DOMAIN temp : /\ \E j \in 1..n : temp[k] = lines[j]
                            /\ ~Has(temp[k], tableName)
  /\ \A j \in 1..n : ~Has(lines[j], tableName) => \E k \in DOMAIN temp : temp[k] = lines[j]

\* remove makes such a copy, and says nothing before it is in the place of the file.
Removing ==
  /\ pc \in {"copy", "rename"} => answer = NoAnswer
  /\ pc = "copy" => exists /\ next <= Len(lines) + 1 /\ Copied(next - 1)
  /\ pc = "rename" => ~exists /\ Copied(Len(lines))

TableInv ==
  /\ TypeOK
  /\ Unique(lines) /\ Unique(temp)
  /\ Removing
  /\ TablesKept
  /\ AnswersTellTheTruth

-----------------------------------------------------------------------------
(* Lines and their names *)

\* A file with a line more.
LEMMA AppendLine ==
  ASSUME NEW ls \in Seq(LineSet), NEW l \in LineSet
  PROVE  /\ DOMAIN ls = 1..Len(ls) /\ Len(ls) \in Nat
         /\ DOMAIN Append(ls, l) = 1..(Len(ls) + 1)
         /\ \A i \in 1..Len(ls) : Append(ls, l)[i] = ls[i]
         /\ Append(ls, l)[Len(ls) + 1] = l
BY AppendProperties, LenProperties

\* Its tables.
LEMMA AppendTables ==
  ASSUME NEW ls \in Seq(LineSet), NEW l \in LineSet
  PROVE  /\ TablesIn(ls) \subseteq TablesIn(Append(ls, l))
         /\ l.id # NoId => l \in TablesIn(Append(ls, l))
<1> DEFINE app == Append(ls, l)
<1>1. /\ DOMAIN ls = 1..Len(ls) /\ Len(ls) \in Nat
      /\ DOMAIN app = 1..(Len(ls) + 1)
      /\ \A i \in 1..Len(ls) : app[i] = ls[i]
      /\ app[Len(ls) + 1] = l
  BY AppendLine
<1> HIDE DEF app
<1>2. \A i : i \in DOMAIN app <=> i \in DOMAIN ls \/ i = Len(ls) + 1
  BY <1>1
<1> QED BY <1>1, <1>2 DEF TablesIn, Numbered, app

\* A line with a number of its own, and a name of its own or words behind it.
LEMMA AppendUnique ==
  ASSUME NEW ls \in Seq(LineSet), NEW l \in LineSet, Unique(ls),
         l.id # NoId => \A i \in Numbered(ls) :
                          /\ ls[i].id # l.id
                          /\ Name(ls[i]) = Name(l) => Len(l.words) > 1
  PROVE  Unique(Append(ls, l))
<1> DEFINE app == Append(ls, l)
           n == Len(ls) + 1
<1>1. /\ DOMAIN ls = 1..Len(ls) /\ Len(ls) \in Nat
      /\ DOMAIN app = 1..n
      /\ \A i \in 1..Len(ls) : app[i] = ls[i]
      /\ app[n] = l
  BY AppendLine
<1> HIDE DEF app
<1>2. \A i \in Numbered(app) : (i \in Numbered(ls) /\ app[i] = ls[i])
                            \/ (i = n /\ app[i] = l /\ l.id # NoId)
  BY <1>1 DEF Numbered
<1>3. \A i \in Numbered(app) : i \in 1..n
  BY <1>1 DEF Numbered
<1> SUFFICES ASSUME NEW i \in Numbered(app), NEW j \in Numbered(app), i < j
             PROVE  /\ app[i].id # app[j].id
                    /\ Name(app[i]) = Name(app[j]) => Len(app[j].words) > 1
  BY DEF Unique, app
<1>4. i # n /\ i \in Numbered(ls) /\ app[i] = ls[i]
  BY <1>1, <1>2, <1>3
<1>5. CASE j \in Numbered(ls) /\ app[j] = ls[j]
  BY <1>4, <1>5 DEF Unique
<1>6. CASE j = n /\ app[j] = l /\ l.id # NoId
  BY <1>4, <1>6
<1> QED BY <1>2, <1>5, <1>6

-----------------------------------------------------------------------------
(* currentId *)

\* A number that no line begins with, as currentId finds it, exists: there are
\* more numbers up to the count of them than numbers taken.
LEMMA FreshIdExists ==
  ASSUME lines \in Seq(LineSet)
  PROVE  FreshId \in Nat /\ FreshId \notin Ids
<1>1. IsFiniteSet(Ids)
  <2>1. IsFiniteSet(DOMAIN lines)
    BY FS_Interval, LenProperties
  <2>2. IsFiniteSet(Numbered(lines))
    BY <2>1, FS_Subset DEF Numbered
  <2>3. [i \in Numbered(lines) |-> lines[i].id] \in Surjection(Numbered(lines), Ids)
    BY DEF Ids, Surjection
  <2> QED BY <2>2, <2>3, FS_Surjection
<1>2. Cardinality(Ids) \in Nat
  BY <1>1, FS_CardinalityType
<1> DEFINE Free == (0..Cardinality(Ids)) \ Ids
<1>3. Free # {}
  <2>1. SUFFICES ASSUME 0..Cardinality(Ids) \subseteq Ids PROVE FALSE
    OBVIOUS
  <2>2. Cardinality(0..Cardinality(Ids)) = Cardinality(Ids) + 1
    BY <1>2, FS_Interval
  <2>3. Cardinality(0..Cardinality(Ids)) <= Cardinality(Ids)
    BY <1>1, <2>1, FS_Subset
  <2> QED BY <1>2, <2>2, <2>3
<1>4. PICK n \in Free : \A m \in Free : ~(<<m, n>> \in OpToRel(<, Nat))
  <2>1. Free \subseteq Nat
    BY <1>2
  <2> HIDE DEF Free
  <2> QED BY <1>3, <2>1, NatLessThanWellFounded, WFMin
<1>5. \A m \in 0..(n - 1) : m \in Ids
  <2> SUFFICES ASSUME NEW m \in 0..(n - 1), m \notin Ids PROVE FALSE
    OBVIOUS
  <2>1. m \in Free /\ m \in Nat /\ n \in Nat /\ m < n
    BY <1>2
  <2>2. <<m, n>> \in OpToRel(<, Nat)
    BY <2>1 DEF OpToRel
  <2> QED BY <1>4, <2>1, <2>2
<1>6. FreshId \in 0..Cardinality(Ids) /\ FreshId \notin Ids
  BY <1>4, <1>5 DEF FreshId
<1> QED BY <1>2, <1>6

-----------------------------------------------------------------------------
(* Every operation keeps the invariant *)

\* The file the system comes with.
LEMMA InitTable == Init => TableInv
<1> SUFFICES ASSUME Init PROVE TableInv
  OBVIOUS
<1>1. InitialLines \in Seq(LineSet)
  BY TableAssumption DEF LineSet
<1>2. TypeOK
  <2>1. lines \in Seq(LineSet) /\ temp \in Seq(LineSet)
    BY <1>1, EmptySeq DEF Init
  <2>2. /\ exists \in BOOLEAN /\ ended \in BOOLEAN /\ glued \in BOOLEAN
        /\ pc \in {"idle", "copy", "rename"}
    BY DEF Init
  <2>3. next \in Nat \ {0}
    BY DEF Init
  <2> QED BY <2>1, <2>2, <2>3 DEF TypeOK
<1>3. Unique(lines)
  <2>1. \A i \in Numbered(lines) : i \in Nat
    BY <1>1, LenProperties DEF Init, Numbered
  <2> QED BY <2>1, TableAssumption DEF Init, Unique
<1>4. Unique(temp)
  BY DEF Init, Unique, Numbered
<1>5. Removing /\ TablesKept /\ AnswersTellTheTruth
  BY DEF Init, Removing, TablesKept, AnswersTellTheTruth, NoAnswer
<1> QED BY <1>2, <1>3, <1>4, <1>5 DEF TableInv

\* The line that swallows another keeps its number, if it has one, and has words more.
LEMMA SwallowingLine ==
  ASSUME NEW line \in LineSet, NEW body \in Seq(STRING), body # <<>>
  PROVE  /\ Swallowing(line, body) \in LineSet
         /\ Swallowing(line, body).id = line.id
         /\ Len(Swallowing(line, body).words) > 1
<1> DEFINE words == line.words
           front == SubSeq(words, 1, Len(words) - 1)
           glue == <<Glued>>
<1>1. words \in Seq(STRING) /\ line.id \in Nat \cup {NoId}
  BY DEF LineSet
<1>2. front \in Seq(STRING) /\ Len(front) \in Nat
  <2>1. Len(words) \in Nat
    BY <1>1, LenProperties
  <2>2. \A i \in 1..(Len(words) - 1) : words[i] \in STRING
    BY <1>1, <2>1, ElementOfSeq
  <2>3. front \in Seq(STRING)
    BY <1>1, <2>1, <2>2, SubSeqProperties
  <2> QED BY <2>3, LenProperties
<1>3. glue \in Seq(STRING) /\ Len(glue) = 1
  BY TableAssumption
<1>4. Len(body) \in Nat \ {0}
  BY LenProperties, EmptySeq
<1> HIDE DEF front, glue, words
<1>5. /\ (front \o glue) \o body \in Seq(STRING)
      /\ Len((front \o glue) \o body) = Len(front) + 1 + Len(body)
  <2> DEFINE S == STRING
  <2>1. front \in Seq(S) /\ glue \in Seq(S) /\ body \in Seq(S)
    BY <1>2, <1>3
  <2> HIDE DEF S
  <2>2. front \o glue \in Seq(S) /\ Len(front \o glue) = Len(front) + Len(glue)
    BY <2>1, ConcatProperties
  <2>3. /\ (front \o glue) \o body \in Seq(S)
        /\ Len((front \o glue) \o body) = Len(front \o glue) + Len(body)
    BY <2>1, <2>2, ConcatProperties
  <2>4. Seq(S) = Seq(STRING)
    BY DEF S
  <2> QED BY <1>3, <2>2, <2>3, <2>4
<1> DEFINE all == (front \o glue) \o body
<1>6. Swallowing(line, body) = [line EXCEPT !.words = all]
  BY DEF Swallowing, front, glue, words
<1> HIDE DEF all
<1>7. Swallowing(line, body) = [id |-> line.id, words |-> all]
  BY <1>6 DEF LineSet
<1>8. all \in Seq(STRING) /\ Len(all) > 1
  BY <1>2, <1>4, <1>5 DEF all
<1> QED BY <1>1, <1>7, <1>8 DEF LineSet

\* A table is added at the end, with a number of its own, or its line is swallowed
\* by the last one.
LEMMA AddTable ==
  ASSUME TableInv, NEW body \in Bodies, Add(body)
  PROVE  TableInv'
<1> USE DEF TableInv
<1>1. /\ pc = "idle" /\ UNCHANGED <<exists, temp, pc, tableName, next>>
      /\ body \in Seq(STRING)
  BY TableAssumption DEF Add
<1>2. Unique(temp)' /\ Removing'
  BY <1>1 DEF Unique, Removing
<1>3. CASE body = <<>> \/ ~exists \/ Taken(body)
  <2>1. /\ UNCHANGED <<lines, ended, tables, glued>>
        /\ answer' = [op |-> "add", body |-> body, ok |-> FALSE]
    BY <1>3 DEF Add, Answer
  <2>2. AnswersTellTheTruth'
    BY <1>1, <1>3, <2>1 DEF AnswersTellTheTruth, Taken
  <2> QED BY <1>1, <1>2, <2>1, <2>2 DEF TypeOK, Unique, TablesKept
<1>4. CASE body # <<>> /\ exists /\ ~Taken(body) /\ (ended \/ lines = <<>>)
  <2> DEFINE l == Line(FreshId, body)
  <2>1. /\ lines' = Append(lines, l) /\ ended' = TRUE /\ tables' = tables \cup {l}
        /\ glued' = glued /\ answer' = [op |-> "add", body |-> body, ok |-> TRUE]
    BY <1>4 DEF Add, Answer, TypeOK
  <2>2. FreshId \in Nat /\ FreshId \notin Ids
    BY FreshIdExists DEF TypeOK
  <2>3. l.id = FreshId /\ l.words = body /\ l.id # NoId
    BY <2>2 DEF Line, NoId
  <2>4. l \in LineSet
    BY <1>1, <1>4, <2>2 DEF Line, LineSet
  <2> HIDE DEF l
  <2>5. TypeOK'
    BY <1>1, <2>1, <2>4, AppendProperties DEF TypeOK
  <2>6. Unique(lines)'
    <3>1. ASSUME NEW i \in Numbered(lines)
          PROVE  lines[i].id # l.id /\ (Name(lines[i]) = Name(l) => Len(l.words) > 1)
      <4>1. lines[i].id # l.id
        BY <2>2, <2>3 DEF Ids
      <4>2. Len(body) = 1 => body = <<Name(l)>>
        BY <1>1, <2>3, LenProperties DEF Name
      <4>3. Name(lines[i]) \in NamesIn(lines)
        BY DEF NamesIn
      <4>4. Len(body) # 1 => Len(body) > 1
        <5>1. Len(body) \in Nat
          BY <1>1, LenProperties
        <5>2. Len(body) # 0
          BY <1>1, <1>4, EmptySeq
        <5>3. \A n \in Nat : n # 0 /\ n # 1 => n > 1
          OBVIOUS
        <5> QED BY <5>1, <5>2, <5>3, Zenon
      <4>5. Len(body) = 1 => Name(lines[i]) # Name(l)
        BY <1>4, <4>2, <4>3 DEF Taken
      <4> QED BY <2>3, <4>1, <4>4, <4>5
    <3>2. Unique(Append(lines, l))
      BY <2>4, <3>1, AppendUnique DEF TypeOK
    <3> QED BY <2>1, <3>2
  <2>7. TablesIn(lines) \subseteq TablesIn(lines') /\ l \in TablesIn(lines')
    BY <2>1, <2>3, <2>4, AppendTables DEF TypeOK
  <2>8. TablesKept'
    BY <1>1, <1>4, <2>1, <2>7 DEF TablesKept
  <2>9. AnswersTellTheTruth'
    BY <1>1, <1>4, <2>1, <2>3, <2>7 DEF AnswersTellTheTruth
  <2> QED BY <1>2, <2>5, <2>6, <2>8, <2>9
<1>5. CASE body # <<>> /\ exists /\ ~Taken(body) /\ ~(ended \/ lines = <<>>)
  <2> DEFINE n == Len(lines)
             l == Swallowing(lines[n], body)
  <2>1. /\ lines' = [lines EXCEPT ![n] = l] /\ ended' = TRUE
        /\ glued' = TRUE /\ answer' = [op |-> "add", body |-> body, ok |-> TRUE]
    BY <1>5 DEF Add, Answer
  <2>2. lines \in Seq(LineSet) /\ n \in 1..n /\ DOMAIN lines = 1..n /\ lines[n] \in LineSet
    BY <1>5, LenProperties, EmptySeq DEF TypeOK
  <2>3. l \in LineSet /\ l.id = lines[n].id /\ Len(l.words) > 1
    BY <1>1, <1>5, <2>2, SwallowingLine
  <2> HIDE DEF l
  <2>4. TypeOK'
    BY <1>1, <2>1, <2>2, <2>3, ExceptSeq DEF TypeOK
  <2>5. Unique(lines)'
    <3>1. /\ DOMAIN lines' = DOMAIN lines /\ lines'[n] = l
          /\ \A i \in DOMAIN lines : i # n => lines'[i] = lines[i]
      BY <2>1, <2>2
    <3>2. Numbered(lines') = Numbered(lines)
      BY <2>3, <3>1 DEF Numbered
    <3>3. \A i, j \in Numbered(lines) : i < j => i # n
      BY <2>2 DEF Numbered
    <3> SUFFICES ASSUME NEW i \in Numbered(lines), NEW j \in Numbered(lines), i < j
                 PROVE  /\ lines'[i].id # lines'[j].id
                        /\ Name(lines'[i]) = Name(lines'[j]) => Len(lines'[j].words) > 1
      BY <3>2 DEF Unique
    <3>4. lines[i].id # lines[j].id /\ lines'[i] = lines[i]
      BY <3>1, <3>3 DEF Unique, Numbered
    <3>5. CASE j = n
      BY <2>3, <3>1, <3>4, <3>5
    <3>6. CASE j # n
      BY <3>1, <3>4, <3>6 DEF Unique, Numbered
    <3> QED BY <3>5, <3>6
  <2>6. TablesKept'
    BY <2>1 DEF TablesKept
  <2>7. AnswersTellTheTruth'
    BY <1>1, <1>5, <2>1 DEF AnswersTellTheTruth
  <2> QED BY <1>2, <2>4, <2>5, <2>6, <2>7
<1> QED BY <1>3, <1>4, <1>5

\* remove begins with an empty copy.
LEMMA RemoveTable ==
  ASSUME TableInv, NEW body \in Bodies, Remove(body)
  PROVE  TableInv'
<1> USE DEF TableInv
<1>1. UNCHANGED <<exists, lines, ended, tables, glued>> /\ Unique(lines)'
  BY DEF Remove, Unique
<1>2. CASE body # <<>> /\ exists
  <2>1. temp' = <<>> /\ pc' = "copy" /\ next' = 1 /\ answer' = NoAnswer
    BY <1>2 DEF Remove
  <2>2. TypeOK'
    BY <1>1, <2>1, EmptySeq DEF TypeOK
  <2>3. Unique(temp)'
    BY <2>1 DEF Unique, Numbered
  <2>4. Removing'
    <3>1. Copied(0)'
      BY <2>1 DEF Copied
    <3>2. Len(lines) \in Nat
      BY LenProperties DEF TypeOK
    <3>3. next' - 1 = 0
      BY <2>1
    <3> QED BY <1>1, <1>2, <2>1, <3>1, <3>2, <3>3 DEF Removing, Copied
  <2>5. TablesKept' /\ AnswersTellTheTruth'
    BY <1>1, <1>2, <2>1 DEF TablesKept, AnswersTellTheTruth, NoAnswer
  <2> QED BY <1>1, <2>2, <2>3, <2>4, <2>5
<1>3. CASE body = <<>> \/ ~exists
  <2>1. /\ UNCHANGED <<temp, pc, next, tableName>> /\ pc = "idle"
        /\ answer' = [op |-> "remove", body |-> body, ok |-> FALSE]
    BY <1>3 DEF Remove, Answer
  <2>2. \A line : ~Has(line, <<>>)
    BY DEF Has
  <2>3. AnswersTellTheTruth'
    BY <1>1, <1>3, <2>1, <2>2 DEF AnswersTellTheTruth
  <2> QED BY <1>1, <2>1, <2>3 DEF TypeOK, Unique, Removing, TablesKept
<1> QED BY <1>2, <1>3

\* The copy grows by the next line, unless one of its words is what is to be removed.
LEMMA CopyTable ==
  ASSUME TableInv, CopyLine
  PROVE  TableInv'
<1> USE DEF TableInv
<1>1. /\ pc = "copy" /\ next \in 1..Len(lines) /\ next' = next + 1
      /\ UNCHANGED <<exists, lines, ended, pc, tableName, answer, tables, glued>>
  BY DEF CopyLine, TypeOK
<1>2. /\ exists /\ Copied(next - 1) /\ answer = NoAnswer
      /\ lines \in Seq(LineSet) /\ temp \in Seq(LineSet) /\ Len(lines) \in Nat
      /\ DOMAIN lines = 1..Len(lines) /\ lines[next] \in LineSet
  BY <1>1, LenProperties DEF Removing, TypeOK
<1>3. \A j \in 1..next : j \in 1..(next - 1) \/ j = next
  BY <1>1
<1>4. next' - 1 = next
  BY <1>1
<1>5. ASSUME \A k \in DOMAIN temp' : /\ \E j \in 1..next : temp'[k] = lines[j]
                                     /\ ~Has(temp'[k], tableName),
             \A j \in 1..next : ~Has(lines[j], tableName) =>
               \E k \in DOMAIN temp' : temp'[k] = lines[j],
             temp' \in Seq(LineSet), Unique(temp)'
      PROVE  TableInv'
  <2>1. Unique(lines)'
    BY <1>1 DEF Unique
  <2>2. TablesKept' /\ AnswersTellTheTruth'
    BY <1>1, <1>2 DEF TablesKept, AnswersTellTheTruth, NoAnswer
  <2>3. TypeOK'
    <3>1. next' \in Nat \ {0}
      BY <1>1
    <3> QED BY <1>1, <1>5, <3>1 DEF TypeOK
  <2>4. Copied(next - 1)'
    BY <1>1, <1>4, <1>5 DEF Copied
  <2>5. next' <= Len(lines) + 1
    BY <1>1, <1>2
  <2>6. Removing'
    BY <1>1, <1>2, <2>4, <2>5 DEF Removing
  <2> QED BY <1>5, <2>1, <2>2, <2>3, <2>6
<1>6. CASE Has(lines[next], tableName)
  <2>1. temp' = temp
    BY <1>6 DEF CopyLine
  <2>2. \A k \in DOMAIN temp : \E j \in 1..next : temp[k] = lines[j]
    <3>1. 1..(next - 1) \subseteq 1..next
      BY <1>1
    <3> QED BY <1>2, <3>1 DEF Copied
  <2>3. \A j \in 1..next : ~Has(lines[j], tableName) =>
          \E k \in DOMAIN temp : temp[k] = lines[j]
    BY <1>2, <1>3, <1>6 DEF Copied
  <2>4. \A k \in DOMAIN temp : ~Has(temp[k], tableName)
    BY <1>2 DEF Copied
  <2>5. Unique(temp)'
    BY <2>1 DEF Unique
  <2> QED BY <1>2, <1>5, <2>1, <2>2, <2>3, <2>4, <2>5
<1>7. CASE ~Has(lines[next], tableName)
  <2> DEFINE l == lines[next]
             n == Len(temp)
  <2>1. temp' = Append(temp, l)
    BY <1>7 DEF CopyLine
  <2>2. /\ DOMAIN temp = 1..n /\ n \in Nat /\ DOMAIN temp' = 1..(n + 1)
        /\ \A k \in 1..n : temp'[k] = temp[k]
        /\ temp'[n + 1] = l /\ temp' \in Seq(LineSet)
    BY <1>2, <2>1, AppendProperties, LenProperties
  <2>3. Unique(temp)'
    <3>1. ASSUME l.id # NoId, NEW k \in Numbered(temp)
          PROVE  temp[k].id # l.id /\ (Name(temp[k]) = Name(l) => Len(l.words) > 1)
      <4>1. PICK j \in 1..(next - 1) : temp[k] = lines[j]
        BY <1>2 DEF Copied, Numbered
      <4>2. j \in Numbered(lines) /\ next \in Numbered(lines) /\ j < next
        BY <1>1, <1>2, <3>1, <4>1 DEF Numbered
      <4> QED BY <4>1, <4>2 DEF Unique
    <3>2. Unique(Append(temp, l))
      BY <1>2, <3>1, AppendUnique
    <3> QED BY <2>1, <3>2
  <2>4. /\ \A k \in DOMAIN temp' : /\ \E j \in 1..next : temp'[k] = lines[j]
                                  /\ ~Has(temp'[k], tableName)
        /\ \A j \in 1..next : ~Has(lines[j], tableName) =>
             \E k \in DOMAIN temp' : temp'[k] = lines[j]
    <3>1. \A k \in DOMAIN temp' : k \in 1..n \/ k = n + 1
      BY <2>2
    <3>2. 1..n \subseteq DOMAIN temp' /\ n + 1 \in DOMAIN temp'
      BY <2>2
    <3>3. next \in 1..next /\ 1..(next - 1) \subseteq 1..next
      BY <1>1
    <3> HIDE DEF n, l
    <3>4. \A k \in DOMAIN temp' : /\ \E j \in 1..next : temp'[k] = lines[j]
                                 /\ ~Has(temp'[k], tableName)
      <4>1. ASSUME NEW k \in 1..n
            PROVE  (\E j \in 1..next : temp'[k] = lines[j]) /\ ~Has(temp'[k], tableName)
        <5>1. temp'[k] = temp[k] /\ k \in DOMAIN temp
          BY <2>2
        <5>2. (\E j \in 1..(next - 1) : temp[k] = lines[j]) /\ ~Has(temp[k], tableName)
          BY <1>2, <5>1 DEF Copied
        <5> QED BY <3>3, <5>1, <5>2
      <4>2. temp'[n + 1] = lines[next] /\ ~Has(temp'[n + 1], tableName)
        BY <1>7, <2>2 DEF l
      <4> QED BY <3>1, <3>3, <4>1, <4>2
    <3>5. \A j \in 1..next : ~Has(lines[j], tableName) =>
            \E k \in DOMAIN temp' : temp'[k] = lines[j]
      BY <1>2, <1>3, <2>2, <3>2 DEF Copied, l
    <3> QED BY <3>4, <3>5
  <2> QED BY <1>5, <2>2, <2>3, <2>4
<1> QED BY <1>6, <1>7

\* With the whole file copied, the file goes.
LEMMA RemoveFileTable ==
  ASSUME TableInv, RemoveFile
  PROVE  TableInv'
<1> USE DEF TableInv
<1>1. /\ pc = "copy" /\ next > Len(lines) /\ exists' = FALSE /\ pc' = "rename"
      /\ tables' = {line \in tables : ~Has(line, tableName)}
      /\ UNCHANGED <<lines, ended, temp, tableName, next, answer, glued>>
  BY DEF RemoveFile
<1>2. exists /\ Copied(Len(lines)) /\ answer = NoAnswer
  <2>1. Len(lines) \in Nat /\ next \in Nat
    BY LenProperties DEF TypeOK
  <2>2. exists /\ next <= Len(lines) + 1 /\ Copied(next - 1) /\ answer = NoAnswer
    BY <1>1 DEF Removing
  <2>3. next - 1 = Len(lines)
    BY <1>1, <2>1, <2>2
  <2> QED BY <2>2, <2>3
<1>3. TypeOK'
  BY <1>1 DEF TypeOK
<1>4. Unique(lines)' /\ Unique(temp)'
  BY <1>1 DEF Unique
<1>5. Removing'
  BY <1>1, <1>2 DEF Removing, Copied
<1>6. TablesKept'
  <2> SUFFICES ASSUME ~glued, NEW line \in tables, ~Has(line, tableName)
               PROVE  line \in TablesIn(temp)
    BY <1>1 DEF TablesKept
  <2>1. PICK i \in Numbered(lines) : lines[i] = line
    BY <1>2 DEF TablesKept, TablesIn
  <2>2. i \in 1..Len(lines)
    BY LenProperties DEF TypeOK, Numbered
  <2>3. PICK k \in DOMAIN temp : temp[k] = lines[i]
    BY <1>2, <2>1, <2>2 DEF Copied
  <2> QED BY <2>1, <2>3 DEF TablesIn, Numbered
<1>7. AnswersTellTheTruth'
  BY <1>1, <1>2 DEF AnswersTellTheTruth, NoAnswer
<1> QED BY <1>3, <1>4, <1>5, <1>6, <1>7

\* The copy becomes the file.
LEMMA RenameTable ==
  ASSUME TableInv, Rename
  PROVE  TableInv'
<1> USE DEF TableInv
<1>1. /\ pc = "rename" /\ exists' = TRUE /\ lines' = temp /\ ended' = TRUE /\ temp' = <<>>
      /\ pc' = "idle" /\ next' = 1 /\ UNCHANGED <<tables, glued>>
      /\ answer' = [op |-> "remove", body |-> tableName,
                    ok |-> \E i \in DOMAIN lines : Has(lines[i], tableName)]
  BY DEF Rename, Answer
<1>2. ~exists /\ Copied(Len(lines))
  BY <1>1 DEF Removing
<1>3. TypeOK'
  <2>1. <<>> \in Seq(LineSet)
    BY EmptySeq
  <2> QED BY <1>1, <2>1 DEF TypeOK
<1>4. Unique(lines)' /\ Unique(temp)' /\ Removing'
  BY <1>1 DEF Unique, Removing, Numbered
<1>5. TablesKept'
  BY <1>1, <1>2 DEF TablesKept
<1>6. AnswersTellTheTruth'
  <2>1. \A i \in DOMAIN temp : ~Has(temp[i], tableName)
    BY <1>2 DEF Copied
  <2>2. \A line : Has(line, tableName) => Len(tableName) = 1
    BY DEF Has
  <2> QED BY <1>1, <2>1, <2>2 DEF AnswersTellTheTruth
<1> QED BY <1>3, <1>4, <1>5, <1>6

\* Death leaves the files as they are.
LEMMA CrashTable ==
  ASSUME TableInv, Crash
  PROVE  TableInv'
<1>1. /\ pc' = "idle" /\ next' = 1 /\ answer' = NoAnswer
      /\ UNCHANGED <<exists, lines, ended, temp, tables, glued>>
  BY DEF Crash, files
<1> QED BY <1>1 DEF TableInv, TypeOK, Unique, Removing, TablesKept, AnswersTellTheTruth, NoAnswer

\* Every step keeps it.
LEMMA NextTable == TableInv /\ [Next]_vars => TableInv'
<1> SUFFICES ASSUME TableInv, [Next]_vars PROVE TableInv'
  OBVIOUS
<1>1. ASSUME NEW body \in Bodies, Add(body) \/ Remove(body) PROVE TableInv'
  BY <1>1, AddTable, RemoveTable
<1>2. CASE CopyLine \/ RemoveFile \/ Rename \/ Crash
  BY <1>2, CopyTable, RemoveFileTable, RenameTable, CrashTable
<1>3. CASE UNCHANGED vars
  BY <1>3 DEF vars, files, TableInv, TypeOK, Unique, Removing, Copied, TablesKept,
              AnswersTellTheTruth, Taken
<1> QED BY <1>1, <1>2, <1>3 DEF Next

-----------------------------------------------------------------------------
\* Whatever is given to add and remove, one word or several, and wherever the agent
\* dies: no two tables of rt_tables have the same number, and of two with the same
\* name the second was added with words behind it.
THEOREM UniqueTablesCorrect == Spec => []UniqueTables
<1>1. TableInv => UniqueTables
  BY DEF TableInv, Unique, UniqueTables
<1> QED BY <1>1, InitTable, NextTable, PTL DEF Spec

\* No table is lost by the removal of another, not even by one that the death of
\* the agent cuts short: its line is in rt_tables, or in temp if there is none.
THEOREM TablesKeptCorrect == Spec => []TablesKept
<1>1. TableInv => TablesKept
  BY DEF TableInv
<1> QED BY <1>1, InitTable, NextTable, PTL DEF Spec

\* What an operation reports done is done, and what it refuses could not be: of
\* several words, added a line of them, and removed nothing.
THEOREM AnswersCorrect == Spec => []AnswersTellTheTruth
<1>1. TableInv => AnswersTellTheTruth
  BY DEF TableInv
<1> QED BY <1>1, InitTable, NextTable, PTL DEF Spec

=============================================================================
