----------------------------- MODULE MCConfigDb -----------------------------
(* A small instance of ConfigDb: lines in the form of Config.txt. *)
EXTENDS ConfigDbProperties

W(n) == <<Name(n)>>

\* As in Config.txt: what is for two addresses adds a route and a neighbor and
\* has the packet retried, what is for one adds a route, and the rest is dropped.
CommandsFor(key) ==
  IF key.source # Star /\ key.destination # Star THEN <<W(21), W(22), W(23)>>
  ELSE IF key.source # Star \/ key.destination # Star THEN <<W(21), W(23)>>
  ELSE <<W(24)>>

Comma == <<Sign(","), Sign(" ")>>
Param(name, addr) == IF addr = Star THEN <<>> ELSE <<Sign(name), Name(addr)>> \o Comma
Source(key) == Param("source=", key.source)
Dest(key) == Param("dest=", key.destination)

Listed(commands) ==
  CASE Len(commands) = 1 -> commands[1]
    [] Len(commands) = 2 -> commands[1] \o <<Sign(" ; ")>> \o commands[2]
    [] OTHER -> commands[1] \o <<Sign(" ; ")>> \o commands[2] \o <<Sign(" ; ")>> \o commands[3]

Act(key) == <<Sign("action="), Sign("(")>> \o Listed(CommandsFor(key)) \o <<Sign(")")>>

Untrailed(tokens) ==
  IF tokens[Len(tokens)] = Sign(" ") THEN SubSeq(tokens, 1, Len(tokens) - 2) ELSE tokens

\* The same record, written in several ways.
Written(key) ==
  { <<Name(key.hostName), Sign(" ")>> \o rest :
      rest \in { Source(key) \o Dest(key) \o Act(key),
                 Dest(key) \o Source(key) \o Act(key),
                 Source(key) \o Act(key) \o Comma \o Dest(key),
                 Untrailed(Act(key) \o Comma \o Source(key) \o Dest(key)) } }

Meant(key, line) == [line |-> line, key |-> key, commands |-> CommandsFor(key)]

\* A line of one word, one that begins with a space and one without an action.
Bad == { <<Name(1)>>,
         <<Sign(" "), Name(1), Sign(" ")>> \o Act(Nobody),
         <<Name(1), Sign(" "), Sign("source="), Name(1)>> }

MCLines ==
  UNION {{Meant(key, line) : line \in Written(key)} : key \in Keys}
    \cup {Meant(Nobody, line) : line \in Bad}

\* What the theorems suppose of the file holds of these lines.
ASSUME MCLinesAssumption == LinesReadAsMeant

=============================================================================
