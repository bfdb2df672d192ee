--------------------------- MODULE ProtocolMessage ---------------------------
(***************************************************************************)
(* The numbers in the header of the message both programs exchange, as the *)
(* class ProtocolMessage writes them to and reads them from the wire       *)
(* (Agent/ProtocolMessage.cpp and Controller/ProtocolMessage.cpp are the   *)
(* same file).                                                             *)
(*                                                                         *)
(* Base is the number of values of a byte: 256 in the program.  Small even *)
(* values keep the model finite and reach the same boundaries sooner.      *)
(* The build is the one the README of the repository describes: Linux on   *)
(* x86, little-endian, with a signed plain char.                           *)
(***************************************************************************)
EXTENDS Integers, Sequences

CONSTANT Base

ASSUME BaseAssumption == Base \in Nat /\ Base > 1 /\ Base % 2 = 0

\* The value of a byte read through message.c_str()[i]: plain char is signed.
SignedChar(b) == IF 2 * b >= Base THEN b - Base ELSE b

\* Conversion of an int to uint16_t.
U16(n) == n % (Base * Base)

\* htons and ntohs on a little-endian host: the two bytes change places.
Swap16(n) == (n % Base) * Base + (n \div Base)

\* A slip the properties of the sessions are expected to notice: no htons.
PutU16_HostOrder(n) == <<U16(n) \div Base, U16(n) % Base>>

\* convertToTransferableMessage: htons, then the high byte first.
PutU16(n) == LET net == Swap16(U16(n)) IN <<net \div Base, net % Base>>

\* ProtocolMessage(string): both bytes are sign-extended before they are added.
GetU16(bytes) == Swap16(U16(SignedChar(bytes[1]) * Base + SignedChar(bytes[2])))

\* What the receiver reads when the sender put n into a 16-bit field.
OnWire(n) == GetU16(PutU16(n))

\* The 32-bit length, in the same two ways: htonl and high byte first, then four
\* sign-extended bytes and ntohl.
Low(n) == n % Base
Shift(n) == n \div Base
Word32(a, b, c, d) == ((a * Base + b) * Base + c) * Base + d
U32(n) == n % (Base * Base * Base * Base)
Swap32(n) == Word32(Low(n), Low(Shift(n)), Low(Shift(Shift(n))), Shift(Shift(Shift(n))))

PutLength(n) ==
  LET net == Swap32(U32(n)) IN
  <<Shift(Shift(Shift(net))), Low(Shift(Shift(net))), Low(Shift(net)), Low(net)>>

GetLength(bytes) ==
  Swap32(U32(Word32(SignedChar(bytes[1]), SignedChar(bytes[2]),
                    SignedChar(bytes[3]), SignedChar(bytes[4]))))

\* The numbers below this one have a top byte that is not negative as a char.
SignLimit == (Base \div 2) * Base

-----------------------------------------------------------------------------
(* The whole message *)

\* enum type and enum command
TypeNumber == [NoType |-> 0, IP |-> 1, NAT |-> 2, Firewall |-> 3, Neighbor |-> 4,
               RoutingTable |-> 5, Route |-> 6, Rule |-> 7]
CommandNumber == [NoCommand |-> 0, Show |-> 1, Add |-> 2, Remove |-> 3, Retry |-> 4,
                  Drop |-> 5]

TypeNumbers == 0..7
CommandNumbers == 0..5

\* The words a user may give (getValidTypes, getValidCommands) ...
ValidTypes == {"nat", "ip", "firewall", "neighbor", "routingTable", "rule", "route"}
ValidCommands == {"add", "remove", "show"}

\* ... and their numbers: getEnumType and getEnumCommand.
EnumType(word) ==
  CASE word = "ip"           -> TypeNumber.IP
    [] word = "nat"          -> TypeNumber.NAT
    [] word = "firewall"     -> TypeNumber.Firewall
    [] word = "neighbor"     -> TypeNumber.Neighbor
    [] word = "routingTable" -> TypeNumber.RoutingTable
    [] word = "rule"         -> TypeNumber.Rule
    [] word = "route"        -> TypeNumber.Route
    [] OTHER                 -> TypeNumber.NoType

EnumCommand(word) ==
  CASE word = "add"    -> CommandNumber.Add
    [] word = "remove" -> CommandNumber.Remove
    [] word = "show"   -> CommandNumber.Show
    [] word = "retry"  -> CommandNumber.Retry
    [] word = "drop"   -> CommandNumber.Drop
    [] OTHER           -> CommandNumber.NoCommand

\* A body is a sequence of words here; each counts as one byte of the length.
Message == [seq : Nat, ack : Nat, elevId : Nat,
            isAuthentication : BOOLEAN, isElev : BOOLEAN, isError : BOOLEAN,
            type : TypeNumbers, command : CommandNumbers, body : Seq(STRING)]

HeaderLength == 13

Bit(set, value) == IF set THEN value ELSE 0

\* flags
Flags_ElevAsError(m) == Bit(m.isAuthentication, 1) + Bit(m.isElev, 4) + Bit(m.isError, 4)

Flags(m) == Bit(m.isAuthentication, 1) + Bit(m.isElev, 2) + Bit(m.isError, 4)

\* convertToTransferableMessage
Encode(m) ==
  PutLength(HeaderLength + Len(m.body))
    \o PutU16(m.seq) \o PutU16(m.ack) \o PutU16(m.elevId)
    \o <<Flags(m), m.type, m.command>> \o m.body

\* flags & value
HasBit(flags, value) == (flags \div value) % 2 = 1

\* ProtocolMessage(string); a number outside an enum is read as its 0.
Decode(bytes) ==
  [seq              |-> GetU16(<<bytes[5], bytes[6]>>),
   ack              |-> GetU16(<<bytes[7], bytes[8]>>),
   elevId           |-> GetU16(<<bytes[9], bytes[10]>>),
   isAuthentication |-> HasBit(bytes[11], 1),
   isElev           |-> HasBit(bytes[11], 2),
   isError          |-> HasBit(bytes[11], 4),
   type             |-> IF bytes[12] \in TypeNumbers THEN bytes[12] ELSE TypeNumber.NoType,
   command          |-> IF bytes[13] \in CommandNumbers THEN bytes[13]
                        ELSE CommandNumber.NoCommand,
   body             |-> SubSeq(bytes, HeaderLength + 1, Len(bytes))]

=============================================================================
