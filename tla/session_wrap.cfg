SPECIFICATION Spec
CONSTANTS
  Base = 2
  p1 = p1
  p2 = p2
  p3 = p3
  c1 = c1
  c2 = c2
  Others = {c1, c2}
  Handler = handler
  MaxCmds = 5
  Packets = {p2}
  NoPacket = none
  MaxElevs = 3
  Plan <- MCPlan
INVARIANT EachCommandInOnePlace
