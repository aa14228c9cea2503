CONSTANTS
  x = x
  y = y
  hx = hx
  hy = hy
  b1 = b1
  b2 = b2
  zone1 = zone1
  Apexes <- MCApexes
  Hostnames <- MCHostnames
  ApexOf <- MCApexOf
  Ports <- MCPorts
  DefaultPort = 443
  Files <- MCFiles
  Contents <- MCContents
  ConfigApexes <- MCConfigApexes
  ConfigHosts <- MCConfigHosts
  ConfigFiles <- MCNone
  ConfigSources = {"crtname"}
  Browsers <- MCBrowsers
  Ops = {"addApex", "deleteApex", "saveApexCrtName", "addHost", "deleteHost", "editHost", "saveCrtName", "addSelected", "addZone", "deleteZone"}
  Faults = {"scan", "console"}
  MaxRequests = 3
SPECIFICATION Spec
SYMMETRY Symmetry
INVARIANTS
  OnlyRegisteredFound
  CrtNameScoped
  ApexRowsExist
  ManualNeverRefused
  AddedWithinApex
  EditsKeepHosts
PROPERTIES
  SteadyIsScanned
