SPECIFICATION Spec
CONSTANTS
  Base = 4
  p1 = p1
  p2 = p2
  p3 = p3
  c1 = c1
  c2 = c2
  Others = {c1, c2}
  Handler = handler
  MaxCmds = 2
  Packets = {p1, p2, p3}
  NoPacket = none
  MaxElevs = 2
  Plan <- MCPlan
INVARIANTS
  TypeOK
  EachCommandInOnePlace
  SequencingInv
  ResponsesArriveInOrder
  EachElevationInOnePlace
  AnswerFindsItsPacket
  PacketHeldUntilAnswered
PROPERTIES
  SequencedCommands
  EveryPacketAnswered
  RouteUnlessOvertaken
