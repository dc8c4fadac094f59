\* testem() resets the extension under capture_main.
SPECIFICATION SelfTestSpec
CONSTANTS
  Quarter = 3
  PollPeriod = 2
  Grace = 1
  SoftWindow = 1
  QueueDepth = 2
  MaxLag = 1
  MaxTime = 12
INVARIANT ExtensionExact
