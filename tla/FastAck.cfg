\* An ack that overtakes the recording of its publish.
SPECIFICATION Spec
CONSTANTS
  RingSize = 3
  BatchMax = 2
  CreditsMax = 1
  MsgIds = {1, 2}
  DropFirstPubAck = FALSE
  MaxCaptures = 2
  MaxBacklog = 2
PROPERTY FastAckCounts
