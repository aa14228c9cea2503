CONSTANTS
  h1 = h1
  h2 = h2
  w1 = w1
  w2 = w2
  a = a
  b = b
  NoCert = NoCert
  serve = serve
  cron = cron
  tab1 = tab1
  tab2 = tab2
  Hosts <- MCOneHost
  Certs <- MCOneCert
  Workers <- MCOneWorker
  Processes <- MCServeOnly
  Server = serve
  Browsers <- MCOneBrowser
  ProcessOf <- MCServeAlone
  Warn <- MCWarn
  Alert <- MCAlert
  NotAfter <- MCNotAfter
  LifetimeDays <- MCLifetimeDays
  BadCerts <- MCNone
  Handles <- MCTwoNotifiers
  ChainOutcomes = {TRUE}
  Replacements <- MCNone
  Faults = {"refused"}
  Console = {}
  PurgeDuringScan = FALSE
  TimeStep = 100
  MaxTime = 0
  MaxId = 3
  MaxEvents = 4
  MaxStops = 1
SPECIFICATION Spec
CHECK_DEADLOCK FALSE
SYMMETRY Symmetry
INVARIANTS
  NoDuplicateNotification
