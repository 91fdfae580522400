SPECIFICATION Spec
CONSTANTS
  Machines = {0, 1}
  Extras = {0}
  numBoxes = 3
INVARIANTS
  MailInOrder
  OneSendAtATime
  AckMeansReceived
PROPERTIES
  TestEnds
CHECK_DEADLOCK FALSE
