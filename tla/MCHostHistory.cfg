CONSTANTS
  a = a
  b = b
  c = c
  NoCert = NoCert
  Hosts <- MCHosts
  Certs <- MCCerts
  Warn <- MCWarn
  Alert <- MCAlert
  NotAfter <- MCNotAfter
  LifetimeDays <- MCLifetimeDays
  BadCerts <- MCBadCerts
  ChainOutcomes = {TRUE, FALSE}
  TimeStep = 100
  MaxTime = 600
  MaxEvents = 6
SPECIFICATION Spec
CHECK_DEADLOCK FALSE
INVARIANTS
  DangerIsNamed
  NoRepeatedAnnouncement
PROPERTIES
  NeverRecovers
  RenewedMeansChanged
  ExpiryIsAnnounced
