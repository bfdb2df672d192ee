------------------------- MODULE ConfigDbProperties -------------------------
(* What the controller may rely on when it looks for a packet's record. *)
EXTENDS ConfigDb, FiniteSets

\* A line in the form of Config.txt is cut into what its writer means, and only
\* such a line passes the checks of populateConfigDb.
LinesReadAsMeant ==
  \A l \in Lines :
    /\ Malformed(l.line) <=> l.key = Nobody
    /\ ~Malformed(l.line) =>
         /\ l.key = [hostName |-> Text(HostName(l.line)),
                     source |-> Text(Parameter(l.line, "source=")),
                     destination |-> Text(Parameter(l.line, "dest="))]
         /\ l.commands = ExtractCommands(Action(l.line))

-----------------------------------------------------------------------------
\* operator< is no strict weak order, for it puts a key without "*" before
\* itself, and multimap promises nothing then.  Nevertheless the entries a key
\* is not before always come first, so that every search of the tree ends at
\* the same place: balancing the tree does not change what is found.
TreeShapeDoesNotMatter ==
  \A key \in Keys : Cardinality(Places(key)) = 1

\* Every line of the file is in the database, once, under the host and addresses
\* and with the commands its writer means, wherever the parameters stand, left
\* out or not, and with or without a comma at the end.  Only a line without a
\* meaning ends the program.
EveryLineKept ==
  LET kept == {n \in DOMAIN file : file[n].key # Nobody} IN
  /\ phase = "exited" <=> kept # DOMAIN file
  /\ Len(configDb) = Cardinality(kept)
  /\ \A n \in kept :
       \E i \in DOMAIN configDb :
         configDb[i] = [key |-> file[n].key, value |-> file[n].commands, number |-> n]

\* The lines of the file that serve k.
Serving(k) == {n \in DOMAIN file : Match(k, file[n].key)}

\* The record r is meant for fewer packets than s.
MoreSpecific(r, s) ==
  \/ r.source # Star /\ s.source = Star
  \/ r.source = s.source /\ r.destination # Star /\ s.destination = Star

\* "When an appropriate match is found" (DESIGN.md:32): a packet gets a record if
\* one serves it, and one than which no other that serves it is more specific: the
\* record for its source and destination, or else the one for its source, wherever
\* in the file they stand, so that no catch-all hides a record for the source.
\* The same does not hold of the records for every source, which operator< takes
\* for equal: the first of these in the file is found, and so a drop of everything
\* does hide a route to the packet's destination that stands behind it.  Of lines
\* that agree in both addresses the last counts if there is no "*" in them, or else
\* the first.
AppropriateRecordFound ==
  \A k \in Requests :
    LET n == GetValue(k).number IN
    IF Serving(k) = {} THEN n = 0
    ELSE /\ n \in Serving(k)
         /\ \A m \in Serving(k) \ {n} :
              LET found == file[n].key
                  other == file[m].key
              IN  \/ MoreSpecific(found, other)
                  \/ found = other /\ IF Star \in {found.source, found.destination}
                                      THEN n < m ELSE n > m
                  \/ found.source = Star /\ other.source = Star /\ n < m

=============================================================================
