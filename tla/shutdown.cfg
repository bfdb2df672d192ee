SPECIFICATION ShutdownSpec
CONSTANTS
  h1 = h1
  h2 = h2
  Console = console
  Hosts = {h1}
  Senders = {console}
  MaxConns = 2
  MaxCmds = 0
  MaxInbox = 1
  Failures = {"fin", "rst", "silent"}
  ShortPackets = FALSE
  Descriptors = {1, 2}
INVARIANTS
  ShutdownTypeOK
  AtMostOneMore
  ReasonToStop
PROPERTIES
  SigtermStopsListening
  AgentIsAnswered
  ClosedIsNoticed
  RunningIsConnected
CHECK_DEADLOCK FALSE
