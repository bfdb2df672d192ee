------------------------------- MODULE Table -------------------------------
(***************************************************************************)
(* The routing tables the agent keeps in /etc/iproute2/rt_tables: Table::  *)
(* add, which appends a line, and Table::remove, which copies the file to  *)
(* /etc/iproute2/temp without some lines, removes it and renames the copy. *)
(* The agent may die between any two of these steps and be started again.  *)
(*                                                                         *)
(* A line is its number, if it begins with one, and the words behind it,   *)
(* of which the first is the name of the table; a comment has no number.   *)
(* What add and remove are given is the body of the message, in any number *)
(* of words, and they compare it as a whole with single words of a line.   *)
(*                                                                         *)
(* A definition named X_Slip is X with a mistake a programmer could make;  *)
(* nothing uses it: it is what a property is expected to notice.           *)
(***************************************************************************)
EXTENDS Integers, Sequences, FiniteSets, TLC

LOCAL INSTANCE Functions

CONSTANTS
  Bodies,         \* what add and remove are given, each a sequence of words
  Glued,          \* a word with the digits of another line behind it
  InitialLines,   \* the file before the agent is started for the first time
  MaxLines        \* bound: lines in the file to which another is added

NoId == -1   \* of a comment

\* Table::add writes the number and the whole body.
Line(id, body) == [id |-> id, words |-> body]

Name(line) == line.words[1]
Numbered(ls) == {i \in DOMAIN ls : ls[i].id # NoId}
NamesIn(ls) == {Name(ls[i]) : i \in Numbered(ls)}
TablesIn(ls) == {ls[i] : i \in Numbered(ls)}

\* The file the system comes with names no table twice.
ASSUME TableAssumption ==
  /\ Bodies \subseteq Seq(STRING) /\ Glued \in STRING /\ MaxLines \in Nat
  /\ InitialLines \in Seq([id : Nat \cup {NoId}, words : Seq(STRING)])
  /\ \A i \in Numbered(InitialLines) : InitialLines[i].words # <<>>
  /\ \A i, j \in Numbered(InitialLines) :
       i # j => /\ InitialLines[i].id # InitialLines[j].id
                /\ Name(InitialLines[i]) # Name(InitialLines[j])

VARIABLES
  exists,     \* there is a file rt_tables
  lines,      \* its lines
  ended,      \* its last line ends with a newline, or else with a word
  temp,       \* the lines of the file temp
  pc,         \* where remove is, or "idle"
  tableName,  \* its argument
  next,       \* the line it is at
  answer,     \* what the last operation reported
  tables,     \* history: the lines of tables that were there or added, and not removed
  glued       \* history: a line was added behind one that was not ended

files == <<exists, lines, ended, temp>>
vars == <<files, pc, tableName, next, answer, tables, glued>>

Ids == {lines[i].id : i \in Numbered(lines)}

NoAnswer == [op |-> "none", body |-> <<>>, ok |-> FALSE]
Answer(op, body, ok) == answer' = [op |-> op, body |-> body, ok |-> ok]

Init ==
  /\ exists = TRUE
  /\ lines = InitialLines
  /\ ended \in BOOLEAN
  /\ glued = FALSE
  /\ temp = <<>>
  /\ pc = "idle"
  /\ tableName = <<>>
  /\ next = 1
  /\ answer = NoAnswer
  /\ tables = TablesIn(InitialLines)

\* currentId: the first number no line begins with.
FreshId_Count == Cardinality(Ids)

FreshId == CHOOSE n \in 0..Cardinality(Ids) : n \notin Ids /\ \A m \in 0..(n - 1) : m \in Ids

\* tableName == currentTableName
Taken(body) == \E name \in NamesIn(lines) : body = <<name>>

\* The last line, without a newline, and a line behind it: the number becomes part
\* of its last word and the body further words of it.
Swallowing(line, body) ==
  [line EXCEPT !.words = SubSeq(@, 1, Len(@) - 1) \o <<Glued>> \o body]

\* Table::add
Add(body) ==
  /\ pc = "idle"
  /\ Len(lines) < MaxLines
  /\ \/ /\ body # <<>> /\ exists /\ ~Taken(body)
        /\ lines' = IF ended \/ lines = <<>>
                    THEN Append(lines, Line(FreshId, body))
                    ELSE [lines EXCEPT ![Len(lines)] = Swallowing(@, body)]
        /\ ended' = TRUE
        /\ tables' = tables \cup {Line(FreshId, body)}
        /\ glued' = (glued \/ ~(ended \/ lines = <<>>))
        /\ Answer("add", body, TRUE)
     \/ /\ body = <<>> \/ ~exists \/ Taken(body)
        /\ Answer("add", body, FALSE)
        /\ UNCHANGED <<lines, ended, tables, glued>>
  /\ UNCHANGED <<exists, temp, pc, tableName, next>>

\* wordInLine == tableName, for a word of the line: its number, its name, or any other.
Has(line, body) ==
  \/ line.id # NoId /\ body = <<ToString(line.id)>>
  \/ \E word \in Range(line.words) : body = <<word>>

\* Table::remove opens rt_tables and makes temp empty.
Remove(body) ==
  /\ pc = "idle"
  /\ \/ /\ body # <<>> /\ exists
        /\ temp' = <<>>
        /\ pc' = "copy" /\ next' = 1 /\ tableName' = body
        /\ answer' = NoAnswer
     \/ /\ body = <<>> \/ ~exists
        /\ Answer("remove", body, FALSE)
        /\ UNCHANGED <<temp, pc, next, tableName>>
  /\ UNCHANGED <<exists, lines, ended, tables, glued>>

CopyLine_FirstWord ==
  /\ pc = "copy" /\ next <= Len(lines)
  /\ temp' = IF tableName = <<ToString(lines[next].id)>> THEN temp ELSE Append(temp, lines[next])
  /\ next' = next + 1
  /\ UNCHANGED <<exists, lines, ended, pc, tableName, answer, tables, glued>>

\* A line is copied unless one of its words is what is to be removed.
CopyLine ==
  /\ pc = "copy" /\ next <= Len(lines)
  /\ temp' = IF Has(lines[next], tableName) THEN temp ELSE Append(temp, lines[next])
  /\ next' = next + 1
  /\ UNCHANGED <<exists, lines, ended, pc, tableName, answer, tables, glued>>

RemoveFile_TooSoon ==
  /\ pc = "copy"
  /\ exists' = FALSE
  /\ pc' = "rename"
  /\ tables' = {line \in tables : ~Has(line, tableName)}
  /\ UNCHANGED <<lines, ended, temp, tableName, next, answer, glued>>

\* std::remove
RemoveFile ==
  /\ pc = "copy" /\ next > Len(lines)
  /\ exists' = FALSE
  /\ pc' = "rename"
  /\ tables' = {line \in tables : ~Has(line, tableName)}
  /\ UNCHANGED <<lines, ended, temp, tableName, next, answer, glued>>

\* rename, and the exception if nothing was left out.
Rename ==
  /\ pc = "rename"
  /\ exists' = TRUE /\ lines' = temp /\ ended' = TRUE
  /\ temp' = <<>>
  /\ pc' = "idle" /\ next' = 1 /\ tableName' = <<>>
  /\ Answer("remove", tableName, \E i \in DOMAIN lines : Has(lines[i], tableName))
  /\ UNCHANGED <<tables, glued>>

\* The agent dies and is started again.
Crash ==
  /\ pc # "idle"
  /\ pc' = "idle" /\ next' = 1 /\ tableName' = <<>>
  /\ answer' = NoAnswer
  /\ UNCHANGED <<files, tables, glued>>

Next ==
  \/ \E body \in Bodies : Add(body) \/ Remove(body)
  \/ CopyLine \/ RemoveFile \/ Rename \/ Crash

Spec == Init /\ [][Next]_vars

-----------------------------------------------------------------------------
\* "Check all the IDs in the file before doing so in order to create a unique
\* id" (Table.cpp:62): no two tables have the same number.  "Check the next word
\* to make sure we don't create duplicates" (Table.cpp:88): of names this is true
\* only if they are given alone.  With a body of several words add looks for a
\* table named by all of them together, and so makes a second table of the name
\* of another, as often as it is asked to: that second one has words behind its name.
UniqueTables ==
  \A i, j \in Numbered(lines) :
    i < j => /\ lines[i].id # lines[j].id
             /\ Name(lines[i]) = Name(lines[j]) => Len(lines[j].words) > 1

\* The line of a table that was in the file or added is there, with its number and
\* its words, until one of its words is given to remove, even if the agent dies in
\* the middle of removing another: if not in rt_tables, then in temp, where it can
\* still be found, and no later operation spoils that.  Only a first line added
\* behind one that lacks its newline is lost, and the end of that one.
TablesKept == glued \/ tables \subseteq TablesIn(IF exists THEN lines ELSE temp)

\* "Adds a new table with the name specified" (Table.cpp:61), "Table ... was not
\* found" (Table.cpp:173), "already exists" (Table.cpp:94): an addition that
\* reported success has left a line with the words given, and one that was refused
\* found them to be a name in use, or no name.  A removal that reported success was
\* given one word and has left no line with it, be it a name, a number or another
\* word; one that was refused, in a file that is there, found no such line: of
\* several words, always, be they those of an addition.
AnswersTellTheTruth ==
  LET body == answer.body IN
  /\ answer.ok => exists
  /\ answer.op = "add" =>
       IF answer.ok THEN glued \/ body \in {line.words : line \in TablesIn(lines)}
       ELSE exists => body = <<>> \/ Taken(body)
  /\ answer.op = "remove" =>
       /\ answer.ok => Len(body) = 1
       /\ exists => \A i \in DOMAIN lines : ~Has(lines[i], body)

=============================================================================
