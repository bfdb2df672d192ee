------------------------------ MODULE Handlers ------------------------------
(***************************************************************************)
(* What the agent executes for a command it received: the dispatch of      *)
(* processCommand on the type and the command of the message, and the      *)
(* methods of the classes IPv6, NAT, Firewall, NeighborDiscoveryCache,     *)
(* Rule and Route, each of which puts a command line together.             *)
(*                                                                         *)
(* The body of the message and the command line are sequences of words:    *)
(* Command::parseCmdIntoArgs cuts the line into words again, so that a     *)
(* word that is missing in the body is missing in the line.                *)
(*                                                                         *)
(* A definition named X_Slip is X with a mistake a programmer could make;  *)
(* nothing uses it: it is what a property is expected to notice.           *)
(***************************************************************************)
EXTENDS ProtocolMessage

\* iss >> word, for the i-th word: the empty string if there are not so many.
Word(body, i) == IF i <= Len(body) THEN <<body[i]>> ELSE <<>>

\* The command is none a type has: the response is an error and nothing is run.
NotACommand == <<>>

IPv6(command, body) ==
  LET object == Word(body, 1) \o <<"dev">> \o Word(body, 2) IN
  CASE command = CommandNumber.Show   -> <<"ifconfig">>
    [] command = CommandNumber.Add    -> <<"ip", "-6", "address", "add">> \o object
    [] command = CommandNumber.Remove -> <<"ip", "-6", "address", "del">> \o object
    [] OTHER                          -> NotACommand

\* Chain, position and rule, or chain and rule: all the words of the body.
NAT(command, body) ==
  CASE command = CommandNumber.Show   -> <<"ip6tables", "-t", "nat", "-L">>
    [] command = CommandNumber.Add    -> <<"ip6tables", "-t", "nat", "-I">> \o body
    [] command = CommandNumber.Remove -> <<"ip6tables", "-t", "nat", "-D">> \o body
    [] OTHER                          -> NotACommand

Firewall(command, body) ==
  CASE command = CommandNumber.Show   -> <<"ip6tables", "-L">>
    [] command = CommandNumber.Add    -> <<"ip6tables", "-I">> \o body
    [] command = CommandNumber.Remove -> <<"ip6tables", "-D">> \o body
    [] OTHER                          -> NotACommand

Neighbor_RemoveWithoutDev(command, body) ==
  LET entry == Word(body, 1) \o <<"lladdr">> \o Word(body, 2) \o <<"dev">> \o Word(body, 3) IN
  CASE command = CommandNumber.Show   -> <<"ip", "-6", "neigh", "show">>
    [] command = CommandNumber.Add    -> <<"ip", "-6", "neigh", "add">> \o entry
    [] command = CommandNumber.Remove -> <<"ip", "-6", "neigh", "del">> \o Word(body, 1)
                                       \o <<"lladdr">> \o Word(body, 2) \o Word(body, 3)
    [] OTHER                          -> NotACommand

Neighbor(command, body) ==
  LET entry == Word(body, 1) \o <<"lladdr">> \o Word(body, 2) \o <<"dev">> \o Word(body, 3) IN
  CASE command = CommandNumber.Show   -> <<"ip", "-6", "neigh", "show">>
    [] command = CommandNumber.Add    -> <<"ip", "-6", "neigh", "add">> \o entry
    [] command = CommandNumber.Remove -> <<"ip", "-6", "neigh", "del">> \o entry
    [] OTHER                          -> NotACommand

\* The methods of Table are modelled in Table: here only which one is called.  It
\* is given the body as a whole, however many words there are.
RoutingTable(command, body) ==
  CASE command = CommandNumber.Show   -> <<"Table", "show">>
    [] command = CommandNumber.Add    -> <<"Table", "add">> \o body
    [] command = CommandNumber.Remove -> <<"Table", "remove">> \o body
    [] OTHER                          -> NotACommand

Rule(command, body) ==
  CASE command = CommandNumber.Show   -> <<"ip", "-6", "rule", "show">>
    [] command = CommandNumber.Add    -> <<"ip", "-6", "rule", "add">> \o body
    [] command = CommandNumber.Remove -> <<"ip", "-6", "rule", "del">> \o body
    [] OTHER                          -> NotACommand

Route_FirstWord(command, body) ==
  CASE command = CommandNumber.Show   -> <<"ip", "-6", "route", "show">> \o body
    [] command = CommandNumber.Add    -> <<"ip", "-6", "route", "add">> \o Word(body, 1)
    [] command = CommandNumber.Remove -> <<"ip", "-6", "route", "del">> \o body
    [] OTHER                          -> NotACommand

Route(command, body) ==
  CASE command = CommandNumber.Show   -> <<"ip", "-6", "route", "show">> \o body
    [] command = CommandNumber.Add    -> <<"ip", "-6", "route", "add">> \o body
    [] command = CommandNumber.Remove -> <<"ip", "-6", "route", "del">> \o body
    [] OTHER                          -> NotACommand

\* switch (type) in processCommand
Operation(m) ==
  CASE m.type = TypeNumber.IP           -> IPv6(m.command, m.body)
    [] m.type = TypeNumber.NAT          -> NAT(m.command, m.body)
    [] m.type = TypeNumber.Firewall     -> Firewall(m.command, m.body)
    [] m.type = TypeNumber.Neighbor     -> Neighbor(m.command, m.body)
    [] m.type = TypeNumber.RoutingTable -> RoutingTable(m.command, m.body)
    [] m.type = TypeNumber.Rule         -> Rule(m.command, m.body)
    [] m.type = TypeNumber.Route        -> Route(m.command, m.body)
    [] OTHER                            -> NotACommand

=============================================================================
