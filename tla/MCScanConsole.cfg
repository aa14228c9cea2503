CONSTANTS
  h1 = h1
  h2 = h2
  w1 = w1
  w2 = w2
  a = a
  b = b
  NoCert = NoCert
  serve = serve
  cron = cron
  tab1 = tab1
  tab2 = tab2
  Hosts <- MCHosts
  Certs <- MCCerts
  Workers <- MCWorkers
  Processes <- MCServeOnly
  Server = serve
  Browsers <- MCBrowsers
  ProcessOf <- MCServeAlone
  Warn <- MCWarn
  Alert <- MCAlert
  NotAfter <- MCNotAfter
  LifetimeDays <- MCLifetimeDays
  BadCerts <- MCNone
  Handles <- MCNoNotifier
  ChainOutcomes = {TRUE}
  Replacements <- MCRenewal
  Faults = {"console"}
  Console = {"suppress", "suppress all", "unsuppress", "purge"}
  PurgeDuringScan = FALSE
  TimeStep = 100
  MaxTime = 0
  MaxId = 3
  MaxEvents = 3
  MaxStops = 1
SPECIFICATION Spec
CHECK_DEADLOCK FALSE
SYMMETRY Symmetry
INVARIANTS
  OneSenderPerEvent
  OneWorkerPerHost
  ReferencesHold
  LinksAreOwn
  RenewedMeansChanged
PROPERTIES
  SuppressedIsLeftAlone
