------------------------------ MODULE ConfigDb ------------------------------
(***************************************************************************)
(* The configuration database of the controller: the multimap              *)
(* populateConfigDb fills from the configuration file, ordered by          *)
(* configDbKey::operator<, and the record getValueFromConfigDb finds in it *)
(* for an elevated packet.                                                 *)
(*                                                                         *)
(* A line comes with what its writer means, as far as it keeps to the form *)
(* of Config.txt.  A record remembers the number of its line.              *)
(*                                                                         *)
(* A definition named X_Slip is X with a mistake a programmer could make;  *)
(* nothing uses it: it is what a property is expected to notice.           *)
(***************************************************************************)
EXTENDS ConfigFile

CONSTANTS
  Hosts,        \* host names
  Addrs,        \* IPv6 addresses
  Lines,        \* lines of the configuration file, and what they mean
  MaxRecords    \* bound: lines of the configuration file

Nobody == [hostName |-> 0, source |-> 0, destination |-> 0]
Patterns == Addrs \cup {Star}
Keys == [hostName : Hosts, source : Patterns, destination : Patterns]
Requests == [hostName : Hosts, source : Addrs, destination : Addrs]
Tokens == [text : STRING, name : Nat]

\* A line without a meaning, with the key Nobody, is not of the form.
ASSUME ConfigDbAssumption ==
  /\ Hosts \subseteq Nat \ {0}
  /\ Addrs \subseteq Nat \ {Star}
  /\ Lines \subseteq [line : Seq(Tokens), key : Keys \cup {Nobody},
                     commands : Seq(Seq(Tokens))]
  /\ MaxRecords \in Nat

VARIABLES
  configDb,    \* the multimap, in the order of its iterator
  file,        \* history: what the lines read so far mean
  phase        \* "reading", "serving", or "exited" after a malformed line

vars == <<configDb, file, phase>>

\* The order with "*" first.
Before_StarFirst(a, b) ==
  \/ a.hostName > b.hostName
  \/ /\ a.hostName = b.hostName
     /\ \/ a.source = Star /\ b.source # Star
        \/ a.source > b.source /\ b.source # Star
        \/ a.source = b.source /\ a.destination >= b.destination

\* The order without its branch for param.source == "*".
Before_OneSided(a, b) ==
  \/ a.hostName > b.hostName
  \/ /\ a.hostName = b.hostName
     /\ a.source # Star
     /\ \/ a.source > b.source /\ b.source # Star
        \/ /\ a.source = b.source \/ b.source = Star
           /\ a.destination # Star
           /\ b.destination = Star \/ a.destination >= b.destination

\* configDbKey::operator<(a, b): larger names and addresses come first, and
\* addresses before "*".
Before(a, b) ==
  \/ a.hostName > b.hostName
  \/ /\ a.hostName = b.hostName
     /\ a.source # Star
     /\ \/ b.source = Star \/ a.source > b.source
        \/ /\ a.source = b.source
           /\ a.destination # Star
           /\ b.destination = Star \/ a.destination >= b.destination

\* configDbKey::match(k, r): does the record r serve the packet k?
Match(k, r) ==
  /\ k.hostName = r.hostName
  /\ r.source \in {Star, k.source}
  /\ r.destination \in {Star, k.destination}

Init == configDb = <<>> /\ file = <<>> /\ phase = "reading"

\* multimap::insert goes down the tree, to the left of the nodes the new key is
\* before and to the right of the others: with the tree's order that is a place
\* between an entry it is not before, or the beginning, and one it is before,
\* or the end.  The shape of the tree says which, if there are several.
Places(key) ==
  { p \in 0..Len(configDb) :
      /\ p > 0 => ~Before(key, configDb[p].key)
      /\ p < Len(configDb) => Before(key, configDb[p + 1].key) }

\* A map in place of the multimap: a key that is there keeps its first value.
Insert_AsMap(key, commands) ==
  IF \E i \in DOMAIN configDb : configDb[i].key = key
  THEN UNCHANGED configDb
  ELSE \E p \in Places(key) :
         configDb' = SubSeq(configDb, 1, p)
                       \o <<[key |-> key, value |-> commands, number |-> Len(file) + 1]>>
                       \o SubSeq(configDb, p + 1, Len(configDb))

\* insert.  The value is the commands; the number of the line is history.
Insert(key, commands) ==
  \E p \in Places(key) :
    configDb' = SubSeq(configDb, 1, p)
                  \o <<[key |-> key, value |-> commands, number |-> Len(file) + 1]>>
                  \o SubSeq(configDb, p + 1, Len(configDb))

\* The text is the one name that stands between the signs.
Text(tokens) == tokens[1].name

\* One line of populateConfigDb, which ends the program if it is malformed.
ReadLine(l) ==
  /\ phase = "reading"
  /\ Len(file) < MaxRecords
  /\ file' = Append(file, [key |-> l.key, commands |-> l.commands])
  /\ IF Malformed(l.line)
     THEN phase' = "exited" /\ UNCHANGED configDb
     ELSE /\ Insert([hostName |-> Text(HostName(l.line)),
                     source |-> Text(Parameter(l.line, "source=")),
                     destination |-> Text(Parameter(l.line, "dest="))],
                    ExtractCommands(Action(l.line)))
          /\ UNCHANGED phase

EndOfFile ==
  /\ phase = "reading"
  /\ phase' = "serving"
  /\ UNCHANGED <<configDb, file>>

NoRecord == [value |-> <<>>, number |-> 0]

\* getValueFromConfigDb: the first record that matches; no commands, if none.
Found(db, k) ==
  LET hits == {i \in DOMAIN db : Match(k, db[i].key)} IN
  IF hits = {} THEN NoRecord
  ELSE LET first == db[CHOOSE i \in hits : \A j \in hits : i <= j] IN
       [value |-> first.value, number |-> first.number]

GetValue(k) == Found(configDb, k)

Next == (\E l \in Lines : ReadLine(l)) \/ EndOfFile

Spec == Init /\ [][Next]_vars

=============================================================================
