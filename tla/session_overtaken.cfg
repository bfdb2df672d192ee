SPECIFICATION Spec
CONSTANTS
  Base = 4
  p1 = p1
  p2 = p2
  p3 = p3
  c1 = c1
  c2 = c2
  Others = {c1}
  Handler = handler
  MaxCmds = 1
  Packets = {p1}
  NoPacket = none
  MaxElevs = 1
  Plan <- MCPlan
INVARIANT RouteBeforeRetry
