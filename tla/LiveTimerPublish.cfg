\* One transition, the first ack swallowed: it is retired all the same.
SPECIFICATION FairSpec
CONSTANTS
  RingSize = 2
  BatchMax = 1
  CreditsMax = 1
  MsgIds = {1, 2}
  DropFirstPubAck = TRUE
  MaxCaptures = 1
  MaxBacklog = 1
PROPERTY EveryTransitionRetired
