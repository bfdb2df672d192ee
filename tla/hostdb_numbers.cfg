SPECIFICATION Spec
CONSTANTS
  h1 = h1
  h2 = h2
  console = console
  other = other
  Hosts = {h1}
  Senders = {console}
  MaxConns = 2
  MaxCmds = 1
  MaxInbox = 1
  Failures = {"fin"}
  ShortPackets = FALSE
INVARIANT ConnectionStartsAtOne
CHECK_DEADLOCK FALSE
