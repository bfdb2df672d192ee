------------------------- MODULE ConsoleProperties -------------------------
(* What users may rely on when they give commands. *)
EXTENDS Console, SequencesExt

CONSTANT Positions   \* the words which ip6tables takes for the number of a rule

-----------------------------------------------------------------------------
NamedFile(line) == Len(line) = 2 /\ line[1] = "file" /\ line[2] \in Files

\* The lines as they would be typed one by one, with those of each file behind
\* the line that names it; of files that name each other, so many.
Typed[depth \in Nat] ==
  [lines \in Seq(Seq(STRING)) |->
     IF lines = <<>> THEN <<>>
     ELSE LET line == Head(lines) IN
          (<<line>> \o IF NamedFile(line) /\ depth > 0
                       THEN Typed[depth - 1][Contents[line[2]]] ELSE <<>>)
            \o Typed[depth][Tail(lines)]]

\* A file of commands does what its lines would do if they were typed, in their
\* order, to the last one: the calls of processCmd inside each other forget and
\* repeat nothing.
FileIsAsTyped ==
  \A t \in Threads :
    LET all == Typed[MaxDepth][given[t]] IN
    /\ IsPrefix(handled[t], all)
    /\ Idle(t) => handled[t] = all

\* What file f names, directly or by way of others, is in every set of files
\* that holds the files f names and those that its members name.
Named(f) == {line[2] : line \in {l \in Range(Contents[f]) : NamedFile(l)}}
Leads(f, g) ==
  \A files \in SUBSET Files :
    Named(f) \subseteq files /\ (\A n \in files : Named(n) \subseteq files) => g \in files

\* Only who asks for a file that names itself, directly or by way of another one,
\* makes processCmd call itself without end.
OnlyCyclesOverflow ==
  up = "overflowed" =>
    \E t \in Threads : \E l \in Range(given[t]) :
      NamedFile(l) /\ \E f \in Files : (f = l[2] \/ Leads(l[2], f)) /\ Leads(f, f)

-----------------------------------------------------------------------------
\* "the Controller can begin sending commands to the host" (DESIGN.md:20): the
\* agent reads every message as it was written, and finds its end.
ReadAsSent ==
  \A h \in Hosts :
    /\ [i \in DOMAIN answered[h] |-> answered[h][i].message]
         \o [i \in DOMAIN wire[h] |-> Decode(wire[h][i])] = sent[h]
    /\ \A i \in DOMAIN wire[h] : GetLength(wire[h][i]) = Len(wire[h][i])

\* The controller accepts no command for which the agent has no handler: the
\* responses "The type ... should have a command" are never seen.
AcceptedIsUnderstood ==
  \A h \in Hosts : \A i \in DOMAIN answered[h] :
    answered[h][i].message.seq # 0 => answered[h][i].ran # NotACommand

\* The words each type takes of those behind the name of the host.
Taken(type, words) ==
  LET most == CASE type = TypeNumber.IP -> 2
                [] type = TypeNumber.Neighbor -> 3
                [] OTHER -> Len(words)
  IN SubSeq(words, 1, IF most < Len(words) THEN most ELSE Len(words))

\* The words the handlers put into a command line themselves.
OwnWords == {"ip", "-6", "address", "neigh", "rule", "route", "ip6tables", "-t", "nat", "Table",
             "add", "del", "remove", "-I", "-D", "dev", "lladdr"}

\* What is added or removed on the host are the words that were typed, in their
\* order, with words of the tool's own before and between: "add neighbor h a b c"
\* speaks of a, b and c.  They are all there but for what ip and neighbor do not
\* take: words behind the second of ip and the third of neighbor are dropped, and
\* the response reports the whole of them added.
WordsAreKept ==
  \A h \in Hosts : \A i \in DOMAIN answered[h] :
    LET m == answered[h][i].message
        ran == answered[h][i].ran
        words == Taken(m.type, m.body)
    IN m.command \in {CommandNumber.Add, CommandNumber.Remove} =>
         \E at \in [DOMAIN words -> DOMAIN ran] :
           /\ \A j \in DOMAIN words : ran[at[j]] = words[j]
           /\ \A j, k \in DOMAIN words : j < k => at[j] < at[k]
           /\ \A k \in DOMAIN ran \ Range(at) : ran[k] \in OwnWords

\* A rule without the number it is to have in its chain.
Unplaced(words) ==
  IF Len(words) > 1 /\ words[2] \in Positions
  THEN <<words[1]>> \o SubSeq(words, 3, Len(words)) ELSE words

\* The name of the table whose line Table::add writes: the first word.
Called(words) == IF words = <<>> THEN <<>> ELSE <<words[1]>>

\* What a command line adds or removes: of which tool and kind, and which object.
\* ip names it by all the words behind the verb; ip6tables -I does so but for a
\* position, which is no part of the rule and none ip6tables -D looks for;
\* Table::remove looks for a line with all that it is given as one word.
Target(ran) ==
  LET verb == IF ran[1] = "Table" \/ ran[2] = "-I" \/ ran[2] = "-D" THEN 2 ELSE 4
      words == SubSeq(ran, verb + 1, Len(ran))
  IN  [of    |-> SubSeq(ran, 1, verb - 1),
       which |-> CASE ran[verb] = "-I" -> Unplaced(words)
                   [] ran[1] = "Table" /\ ran[2] = "add" -> Called(words)
                   [] OTHER -> words]

\* The words behind "remove" that undo the addition of body.
Undoing(type, body) ==
  CASE type \in {TypeNumber.NAT, TypeNumber.Firewall} -> Unplaced(body)
    [] type = TypeNumber.RoutingTable -> Called(body)
    [] OTHER -> body

\* For everything that was added there are words behind "remove" that remove just
\* that: those of the addition, but for the position of a rule of nat and firewall
\* and for what stands behind the name of a routing table.  With these words added
\* again, "remove" speaks of something else: ip6tables -D of another rule, Table of
\* a table whose name is all the words.
RemoveUndoesAdd ==
  \A h \in Hosts : \A i \in DOMAIN answered[h] :
    LET m == answered[h][i].message
        Removal(body) == Operation([m EXCEPT !.command = CommandNumber.Remove, !.body = body])
        undoing == Undoing(m.type, m.body)
    IN m.command = CommandNumber.Add =>
         LET added == Target(answered[h][i].ran) IN
         /\ Target(Removal(undoing)) = added
         /\ undoing # m.body => Target(Removal(m.body)) # added

=============================================================================
