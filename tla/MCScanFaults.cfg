CONSTANTS
  h1 = h1
  h2 = h2
  w1 = w1
  w2 = w2
  a = a
  b = b
  NoCert = NoCert
  serve = serve
  cron = cron
  tab1 = tab1
  tab2 = tab2
  Hosts <- MCOneHost
  Certs <- MCOneCert
  Workers <- MCWorkers
  Processes <- MCServeAndCron
  Server = serve
  Browsers <- MCOneBrowser
  ProcessOf <- MCOneEach
  Warn <- MCWarn
  Alert <- MCAlert
  NotAfter <- MCNotAfter
  LifetimeDays <- MCLifetimeDays
  BadCerts <- MCNone
  Handles <- MCTwoNotifiers
  ChainOutcomes = {TRUE}
  Replacements <- MCNone
  Faults = {"error", "refused", "lost", "crash", "cancel"}
  Console = {"acknowledge"}
  PurgeDuringScan = FALSE
  TimeStep = 100
  MaxTime = 100
  MaxId = 3
  MaxEvents = 3
  MaxStops = 1
SPECIFICATION Spec
CHECK_DEADLOCK FALSE
SYMMETRY SwapProcesses
INVARIANTS
  TypeOK
  NotifiedMeansDelivered
PROPERTIES
  ImplementsOutbox
  LedgerOnlyGrows
