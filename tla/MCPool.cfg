CONSTANTS
  w1 = w1
  w2 = w2
  w3 = w3
  h1 = h1
  h2 = h2
  h3 = h3
  h4 = h4
  Workers <- MCWorkers
  Hosts <- MCHosts
SPECIFICATION Spec
CHECK_DEADLOCK FALSE
INVARIANTS
  NoSendOnClosed
  SuccessMeansComplete
PROPERTIES
  ImplementsCrew
  RunReturns
