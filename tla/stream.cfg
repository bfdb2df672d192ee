SPECIFICATION Spec
CONSTANTS
  Base = 4
  Senders = {"t1", "t2"}
  Lengths = {5, 8}
  Capacity = 11
  MaxData = 10
  MaxMsgs = 3
PROPERTIES
  ReturnsTheNextMessage
  EveryMessageReturned
CHECK_DEADLOCK FALSE
