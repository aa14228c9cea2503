CONSTANTS
  c1 = c1
  c2 = c2
  Clients <- MCClients
SPECIFICATION Spec
CHECK_DEADLOCK FALSE
INVARIANTS
  MutualExclusion
  RunningIsAccurate
  StatusNeverEarly
  ClosedAfterCancel
PROPERTIES
  AcceptedScanRuns
  TickIsTaken
  SignalExits
