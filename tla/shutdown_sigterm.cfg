SPECIFICATION ShutdownSpec
CONSTANTS
  h1 = h1
  h2 = h2
  Console = console
  Hosts = {h1}
  Senders = {console}
  MaxConns = 1
  MaxCmds = 0
  MaxInbox = 0
  Failures = {"fin"}
  ShortPackets = FALSE
  Descriptors = {1}
PROPERTIES
  SigtermTerminates
CHECK_DEADLOCK FALSE
