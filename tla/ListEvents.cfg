\* Three requests for a queue of one place overflow it, three faults defeat the retry.
CONSTANTS
  r1 = r1
  r2 = r2
  r3 = r3
  NoEvent = NoEvent
  Requests <- MCRequests
  QueueSize = 1
  MaxFaults = 3
  FaultKinds = {"conn", "broker", "dial", "crash", "listdb"}
SPECIFICATION EventsFairSpec
INVARIANTS
  EventsTypeOK
  NoPhantomEvents
PROPERTIES
  IsLossyFifo
  AnsweredFirstComesFirst
  LossesExplained
  NobodyWaits
CHECK_DEADLOCK FALSE
