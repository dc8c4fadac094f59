\* A ring of three slots that wraps, two message ids, the test hook that
\* swallows the first ack.
SPECIFICATION Spec
CONSTANTS
  RingSize = 3
  BatchMax = 2
  CreditsMax = 1
  MsgIds = {1, 2}
  DropFirstPubAck = TRUE
  MaxCaptures = 4
  MaxBacklog = 2
INVARIANTS
  TypeOK
  NoSelfDeadlock
  NoLockCycle
  NothingForgotten
  BatchIsTheOldest
  HoldMatchesFlight
  BacklogIntact
PROPERTY ImplementsLaneDelivery
