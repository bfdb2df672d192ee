----------------------------- MODULE ConfigFile -----------------------------
(***************************************************************************)
(* How populateConfigDb cuts a line of the configuration file into the     *)
(* name of the host, the two addresses and the commands:                   *)
(*                                                                         *)
(*   host1 source=A, dest=B, action=(add route ... ; retry packet)         *)
(*                                                                         *)
(* A line is a sequence of tokens: the texts the code looks for, among     *)
(* them the delimiter " ; " with its two spaces, and the names between     *)
(* them, which are numbers: of a name only its order counts.  A position   *)
(* that was not found is an int of -1 in the code.                         *)
(***************************************************************************)
EXTENDS Naturals, Sequences
SE == INSTANCE SequencesExt

Sign(text) == [text |-> text, name |-> 0]
Name(n) == [text |-> "", name |-> n]
Star == 0        \* the text "*", what a line without the parameter gets

NoPos == 0

Positions(line, text) == {i \in DOMAIN line : line[i].text = text}

\* line.find(text, from)
Find(line, text, from) ==
  LET found == {i \in Positions(line, text) : i >= from} IN
  IF found = {} THEN NoPos ELSE CHOOSE i \in found : \A j \in found : i <= j

\* substr from one position up to another.  One that was not found makes the
\* length negative, and negative is as good as endless.
Cut(line, first, end) ==
  SubSeq(line, first, IF end = NoPos THEN Len(line) ELSE end - 1)

\* The checks that end the program.
Malformed(line) ==
  \/ Find(line, " ", 1) \in {NoPos, 1}
  \/ Find(line, "action=", 1) = NoPos

HostName(line) == Cut(line, 1, Find(line, " ", 1))

\* What "source=" or "dest=" introduces, to the comma or the end of the line.
Parameter(line, name) ==
  LET at == Find(line, name, 1) IN
  IF at = NoPos THEN <<Name(Star)>> ELSE Cut(line, at + 1, Find(line, ",", at))

\* Without its bracket an action is the whole line.
Action(line) ==
  LET begin == Find(line, "(", Find(line, "action=", 1))
      end   == IF begin = NoPos THEN NoPos ELSE Find(line, ")", begin)
  IN  Cut(line, begin + 1, end)

\* extractCommands(action, " ; ")
ExtractCommands(action) ==
  LET cuts == SE!SetToSortSeq({0, Len(action) + 1} \cup Positions(action, " ; "), <) IN
  [i \in 1..(Len(cuts) - 1) |-> SubSeq(action, cuts[i] + 1, cuts[i + 1] - 1)]

=============================================================================
