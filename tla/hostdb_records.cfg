SPECIFICATION Spec
CONSTANTS
  h1 = h1
  h2 = h2
  console = console
  other = other
  Hosts = {h1}
  Senders = {console, other}
  MaxConns = 2
  MaxCmds = 2
  MaxInbox = 1
  Failures = {"fin", "rst", "silent"}
  ShortPackets = TRUE
SYMMETRY MCSymmetry
INVARIANTS
  OnlyAdmittedAreServed
  RecordAgreesWithThreads
  ThreadsReadTheirOwnSocket
  NumbersOfThisConnection
CHECK_DEADLOCK FALSE
