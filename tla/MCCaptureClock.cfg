\* Two wraps of the counter, a queue of two events, polls and grace as long
\* as the quarter allows.
SPECIFICATION Spec
CONSTANTS
  Quarter = 3
  PollPeriod = 2
  Grace = 1
  SoftWindow = 1
  QueueDepth = 2
  MaxLag = 1
  MaxTime = 27
INVARIANTS
  TypeOK
  ExtensionExact
  OutageCountedOnce
  PpsReportFresh
PROPERTY SoftIsNeverReal
