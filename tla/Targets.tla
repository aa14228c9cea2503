------------------------------ MODULE Targets ------------------------------
(***************************************************************************)
(* What a scan is about: the apexes, manual hosts, crt.name settings and   *)
(* zone files of config.yaml, overlaid by the tables the console manages;  *)
(* the console's handlers, which check one table and then write another;   *)
(* and Runner.run with Runner.discover, which read those tables one call   *)
(* at a time while the handlers change them.                               *)
(*                                                                         *)
(* An action is one call of the store or of a discovery source. Hosts are  *)
(* pairs <<hostname, port>>. Apexes are registrable domains (config.Load   *)
(* and validateApex both insist), so a hostname lies within at most one of *)
(* them and the order in which ApexFor tries them does not matter. What    *)
(* discover does with suppressed hosts, and the workers, are in Scan.      *)
(***************************************************************************)
EXTENDS Naturals, Sequences, FiniteSets

CONSTANTS
  Apexes,         \* registrable domains
  Hostnames,      \* names that sources and forms mention
  ApexOf,         \* ApexOf[h]: the registrable domain h lies within
  Ports,          \* port numbers
  DefaultPort,    \* 443
  Files,          \* zone files under allowed_dir, and those of config.yaml
  Contents,       \* Contents[f]: the names with an address or alias in f
  ConfigApexes, ConfigHosts, ConfigFiles,  \* lists of config.yaml
  ConfigSources,  \* discovery.sources
  Browsers,       \* concurrent console requests
  Ops,            \* the handlers in use
  Faults,         \* failures that happen: any of FaultKinds
  MaxRequests     \* bound: console requests made

Targets    == Hostnames \X Ports
FaultKinds == {"scan", "console"}
OpKinds    == {"addApex", "deleteApex", "saveApexCrtName", "addHost", "deleteHost", "editHost",
               "saveCrtName", "addSelected", "addZone", "deleteZone"}

\* What config.Load accepts. Managed hosts need not be within a registered
\* apex: deleting an apex leaves its hosts.
ValidConfig ==
  /\ ConfigApexes # {} /\ ConfigApexes \subseteq Apexes
  /\ ConfigHosts \subseteq Targets
  /\ \A t \in ConfigHosts : ApexOf[t[1]] \in ConfigApexes
  /\ ConfigSources \subseteq {"crtname", "manual", "zone"}
  /\ "zone" \in ConfigSources => ConfigFiles # {}

ASSUME TargetsAssumption ==
  /\ ApexOf \in [Hostnames -> Apexes] /\ DefaultPort \in Ports
  /\ Contents \in [Files -> SUBSET Hostnames] /\ ConfigFiles \subseteq Files
  /\ ValidConfig
  /\ Ops \subseteq OpKinds /\ Faults \subseteq FaultKinds
  /\ MaxRequests \in Nat

VARIABLES
  managedApexes, managedHosts, managedFiles,  \* managed_apexes, _manual_hosts, _zone_files
  crtName,      \* managed_crtname: the master switch, once saved
  crtNameOff,   \* managed_apex_crtname: apexes whose own setting is off
  apexes,       \* table apexes
  hosts,        \* keys of table hosts
  request,      \* request[b]: the handler of browser b and the calls it has left
  requests,     \* requests made so far
  step,         \* where Runner.run is
  left,         \* apexes, then names of sources, it still has to go through
  scope,        \* the apexes discover read first
  off,          \* the crt.name settings discover read
  queries,      \* apexes still to look up on crt.name
  zones,        \* zone files still to read
  found,        \* hosts found and not yet processed
  outcome,      \* what RecordScan was told of the latest scan
  registered,   \* history: apexes effective at some moment of the scan
  switchedOn,   \* history: apexes with crt.name on at some moment of the scan
  steady,       \* history: what was configured at every moment of the scan
  ever,         \* history: apexes effective at some moment
  late,         \* history: apexes that became effective while a scan ran
  owed          \* history: hostnames added, and not deleted or lost with an error since

managed == <<managedApexes, managedHosts, managedFiles, crtName, crtNameOff>>
runner  == <<step, left, scope, off, queries, zones, found, outcome>>
console == <<request, requests, owed>>
history == <<registered, switchedOn, steady, ever, late>>
vars    == <<managed, apexes, hosts, runner, console, history>>

-----------------------------------------------------------------------------
(* The configuration in force: config.yaml and the managed tables. *)

WithinApex(h, a) == ApexOf[h] = a
InScope(h, as)   == \E a \in as : WithinApex(h, a)

EffectiveApexes == ConfigApexes \cup managedApexes

CrtNameEnabled ==
  IF crtName = "unset" THEN "crtname" \in ConfigSources ELSE crtName = "on"

EffectiveFiles ==
  IF "zone" \in ConfigSources \/ managedFiles # {} THEN ConfigFiles \cup managedFiles ELSE {}

\* Mutant of EffectiveManualHosts: managed hosts are not compared with the apexes.
EffectiveManualHosts_All(as) == ConfigHosts \cup managedHosts
EffectiveManualHosts(as) == ConfigHosts \cup {t \in managedHosts : InScope(t[1], as)}

\* Mutant of FromCrtName: the names outside the apex are kept.
FromCrtName_All(a, names) == {<<h, DefaultPort>> : h \in names}
\* crt.name answers with any names at all; those outside the apex are dropped.
FromCrtName(a, names) == {<<h, DefaultPort>> : h \in {n \in names : WithinApex(n, a)}}

FromZone(f, as) == {<<h, DefaultPort>> : h \in {n \in Contents[f] : InScope(n, as)}}

SwitchedOn == IF CrtNameEnabled THEN Apexes \ crtNameOff ELSE {}

Configuration ==
  [apexes |-> EffectiveApexes, crtName |-> EffectiveApexes \cap SwitchedOn,
   files |-> EffectiveFiles, hosts |-> ConfigHosts \cup managedHosts]

-----------------------------------------------------------------------------
(* The handlers, each as the calls it makes. A check that fails ends the   *)
(* request, and so does a call that fails.                                 *)

Registered(a) == [call |-> "registered", apex |-> a]  \* selectedLookupApex
Within(t)     == [call |-> "within", host |-> t]      \* validateManualHost
Editable(t)   == [call |-> "editable", host |-> t]    \* hasManagedManualHost
AddHost(t)    == [call |-> "addHost", host |-> t]
DeleteHost(t) == [call |-> "deleteHost", host |-> t]

Calls ==
  [call: {"registered", "addApex", "deleteApex"}, apex: Apexes]
    \cup [call: {"within", "editable", "addHost", "deleteHost"}, host: Targets]
    \cup [call: {"saveApexCrtName"}, apex: Apexes, on: BOOLEAN]
    \cup [call: {"saveCrtName"}, on: BOOLEAN]
    \cup [call: {"addZone", "deleteZone"}, file: Files]

NoRequest == [op |-> "none", calls |-> <<>>]

ServeAddApex(a)    == <<[call |-> "addApex", apex |-> a]>>
ServeDeleteApex(a) == <<[call |-> "deleteApex", apex |-> a]>>
ServeSaveApexCrtName(a, on) ==
  <<Registered(a), [call |-> "saveApexCrtName", apex |-> a, on |-> on]>>
ServeAddManualHost(t)    == <<Within(t), AddHost(t)>>
ServeDeleteManualHost(t) == <<DeleteHost(t)>>
\* Mutant of ServeEditManualHost: the new row is added before the old one goes.
ServeEditManualHost_AddFirst(h, old, new) ==
  <<Editable(<<h, old>>), Within(<<h, new>>), AddHost(<<h, new>>), DeleteHost(<<h, old>>)>>
ServeEditManualHost(h, old, new) ==
  <<Editable(<<h, old>>), Within(<<h, new>>), DeleteHost(<<h, old>>), AddHost(<<h, new>>)>>
ServeSaveCrtName(on) == <<[call |-> "saveCrtName", on |-> on]>>
\* Mutant of ServeAddCrtNameSelected: the hosts after the first go in unchecked.
ServeAddCrtNameSelected_OneCheck(h, i) ==
  ServeAddManualHost(<<h, DefaultPort>>) \o <<AddHost(<<i, DefaultPort>>)>>
ServeAddCrtNameSelected(h, i) ==
  ServeAddManualHost(<<h, DefaultPort>>) \o ServeAddManualHost(<<i, DefaultPort>>)
ServeAddZoneFile(f)    == <<[call |-> "addZone", file |-> f]>>
ServeDeleteZoneFile(f) == <<[call |-> "deleteZone", file |-> f]>>

Handler(op) ==
  CASE op = "addApex"         -> {ServeAddApex(a) : a \in Apexes}
    [] op = "deleteApex"      -> {ServeDeleteApex(a) : a \in Apexes}
    [] op = "saveApexCrtName" -> {ServeSaveApexCrtName(a, on) : a \in Apexes, on \in BOOLEAN}
    [] op = "addHost"         -> {ServeAddManualHost(t) : t \in Targets}
    [] op = "deleteHost"      -> {ServeDeleteManualHost(t) : t \in Targets}
    [] op = "editHost" ->
         {ServeEditManualHost(h, old, new) : h \in Hostnames, old \in Ports, new \in Ports}
    [] op = "saveCrtName"     -> {ServeSaveCrtName(on) : on \in BOOLEAN}
    [] op = "addSelected" ->
         {ServeAddCrtNameSelected(h, i) : h \in Hostnames, i \in Hostnames}
    [] op = "addZone"         -> {ServeAddZoneFile(f) : f \in Files}
    [] op = "deleteZone"      -> {ServeDeleteZoneFile(f) : f \in Files}

-----------------------------------------------------------------------------
TypeOK ==
  /\ managedApexes \subseteq Apexes /\ managedHosts \subseteq Targets
  /\ managedFiles \subseteq Files
  /\ crtName \in {"unset", "on", "off"} /\ crtNameOff \subseteq Apexes
  /\ apexes \subseteq Apexes /\ hosts \subseteq Targets
  /\ request \in [Browsers -> [op: OpKinds \cup {"none"}, calls: Seq(Calls)]]
  /\ requests \in 0..MaxRequests
  /\ step \in {"idle", "apexes", "settings", "crtname", "sources", "process"}
  /\ left \subseteq Apexes /\ scope \subseteq Apexes /\ off \subseteq Apexes
  /\ queries \subseteq Apexes /\ zones \subseteq Files /\ found \subseteq Targets
  /\ outcome \in {"none", "success", "error", "outside"}
  /\ registered \subseteq Apexes /\ switchedOn \subseteq Apexes
  /\ steady \in [apexes: SUBSET Apexes, crtName: SUBSET Apexes, files: SUBSET Files,
                 hosts: SUBSET Targets]
  /\ ever \subseteq Apexes /\ late \subseteq Apexes
  /\ owed \subseteq Hostnames

Init ==
  /\ managedApexes = {} /\ managedHosts = {} /\ managedFiles = {}
  /\ crtName = "unset" /\ crtNameOff = {}
  /\ apexes = {} /\ hosts = {}
  /\ request = [b \in Browsers |-> NoRequest] /\ requests = 0
  /\ step = "idle" /\ left = {} /\ scope = {} /\ off = {} /\ queries = {} /\ zones = {}
  /\ found = {} /\ outcome = "none"
  /\ registered = EffectiveApexes /\ switchedOn = SwitchedOn /\ steady = Configuration
  /\ ever = EffectiveApexes /\ late = {}
  /\ owed = {}

-----------------------------------------------------------------------------
\* The history of the configuration, most of it since the scan started.
Observe ==
  LET since(old) == IF step' = "idle" THEN {} ELSE old IN
    /\ registered' = since(registered) \cup EffectiveApexes'
    /\ switchedOn' = since(switchedOn) \cup SwitchedOn'
    /\ steady' = IF step' = "idle" THEN Configuration'
                 ELSE [part \in DOMAIN steady |-> steady[part] \cap Configuration'[part]]
    /\ ever' = ever \cup EffectiveApexes'
    /\ late' = late \cup since(EffectiveApexes' \ EffectiveApexes)

-----------------------------------------------------------------------------
(* Requests. *)

Submit(b) ==
  /\ request[b] = NoRequest /\ requests < MaxRequests
  /\ \E op \in Ops : \E calls \in Handler(op) :
       request' = [request EXCEPT ![b] = [op |-> op, calls |-> calls]]
  /\ requests' = requests + 1
  /\ UNCHANGED <<managed, apexes, hosts, runner, owed>>
  /\ Observe

\* The next call of a request is of one kind, and the handler goes on after it.
Calling(b, kind) == request[b].calls # <<>> /\ Head(request[b].calls).call = kind
Call(b) == Head(request[b].calls)
EndRequest(b) == request' = [request EXCEPT ![b] = NoRequest]
GoOn(b) ==
  IF Len(request[b].calls) = 1 THEN EndRequest(b)
  ELSE request' = [request EXCEPT ![b].calls = Tail(@)]

Passes(check) ==
  \/ check.call = "registered" /\ check.apex \in EffectiveApexes
  \/ check.call = "within" /\ InScope(check.host[1], EffectiveApexes)
  \/ check.call = "editable" /\ check.host \in managedHosts

Check(b) ==
  /\ \E kind \in {"registered", "within", "editable"} : Calling(b, kind)
  /\ IF Passes(Call(b)) THEN GoOn(b) ELSE EndRequest(b)
  /\ UNCHANGED <<managed, apexes, hosts, runner, requests, owed>>
  /\ Observe

AddManagedApex(b) ==
  /\ Calling(b, "addApex")
  /\ managedApexes' = managedApexes \cup {Call(b).apex}
  /\ GoOn(b)
  /\ UNCHANGED <<managedHosts, managedFiles, crtName, crtNameOff, apexes, hosts, runner,
                 requests, owed>>
  /\ Observe

\* The managed hosts within the apex stay.
DeleteManagedApex(b) ==
  /\ Calling(b, "deleteApex")
  /\ managedApexes' = managedApexes \ {Call(b).apex}
  /\ GoOn(b)
  /\ UNCHANGED <<managedHosts, managedFiles, crtName, crtNameOff, apexes, hosts, runner,
                 requests, owed>>
  /\ Observe

SaveManagedApexCrtName(b) ==
  /\ Calling(b, "saveApexCrtName")
  /\ crtNameOff' = IF Call(b).on THEN crtNameOff \ {Call(b).apex}
                   ELSE crtNameOff \cup {Call(b).apex}
  /\ GoOn(b)
  /\ UNCHANGED <<managedApexes, managedHosts, managedFiles, crtName, apexes, hosts, runner,
                 requests, owed>>
  /\ Observe

AddManagedManualHost(b) ==
  /\ Calling(b, "addHost")
  /\ managedHosts' = managedHosts \cup {Call(b).host}
  /\ owed' = IF request[b].op = "editHost" THEN owed ELSE owed \cup {Call(b).host[1]}
  /\ GoOn(b)
  /\ UNCHANGED <<managedApexes, managedFiles, crtName, crtNameOff, apexes, hosts, runner,
                 requests>>
  /\ Observe

DeleteManagedManualHost(b) ==
  /\ Calling(b, "deleteHost")
  /\ managedHosts' = managedHosts \ {Call(b).host}
  /\ GoOn(b)
  /\ owed' = IF request[b].op = "deleteHost" THEN owed \ {Call(b).host[1]} ELSE owed
  /\ UNCHANGED <<managedApexes, managedFiles, crtName, crtNameOff, apexes, hosts, runner,
                 requests>>
  /\ Observe

SaveManagedCrtName(b) ==
  /\ Calling(b, "saveCrtName")
  /\ crtName' = IF Call(b).on THEN "on" ELSE "off"
  /\ GoOn(b)
  /\ UNCHANGED <<managedApexes, managedHosts, managedFiles, crtNameOff, apexes, hosts, runner,
                 requests, owed>>
  /\ Observe

AddManagedZoneFile(b) ==
  /\ Calling(b, "addZone")
  /\ managedFiles' = managedFiles \cup {Call(b).file}
  /\ GoOn(b)
  /\ UNCHANGED <<managedApexes, managedHosts, crtName, crtNameOff, apexes, hosts, runner,
                 requests, owed>>
  /\ Observe

DeleteManagedZoneFile(b) ==
  /\ Calling(b, "deleteZone")
  /\ managedFiles' = managedFiles \ {Call(b).file}
  /\ GoOn(b)
  /\ UNCHANGED <<managedApexes, managedHosts, crtName, crtNameOff, apexes, hosts, runner,
                 requests, owed>>
  /\ Observe

\* An edit that fails after its delete answers with an error: from then on the
\* operator knows that the host is gone.
CallFails(b) ==
  /\ "console" \in Faults /\ request[b].calls # <<>>
  /\ owed' = IF request[b].op = "editHost" /\ Calling(b, "addHost")
             THEN owed \ {Call(b).host[1]} ELSE owed
  /\ EndRequest(b)
  /\ UNCHANGED <<managed, apexes, hosts, runner, requests>>
  /\ Observe

-----------------------------------------------------------------------------
(* The scan. *)

\* Runner.run returns, and its deferred call tells the exporter how it went.
RecordScan(result) ==
  /\ step' = "idle" /\ outcome' = result
  /\ left' = {} /\ scope' = {} /\ off' = {} /\ queries' = {} /\ zones' = {} /\ found' = {}

\* Mutant of StartScan: only the apexes of config.yaml get their rows.
StartScan_ConfigOnly ==
  /\ step = "idle"
  /\ step' = "apexes" /\ left' = ConfigApexes
  /\ UNCHANGED <<managed, apexes, hosts, scope, off, queries, zones, found, outcome, console>>
  /\ Observe

StartScan ==
  /\ step = "idle"
  /\ step' = "apexes" /\ left' = EffectiveApexes
  /\ UNCHANGED <<managed, apexes, hosts, scope, off, queries, zones, found, outcome, console>>
  /\ Observe

UpsertApex(a) ==
  /\ step = "apexes" /\ a \in left
  /\ apexes' = apexes \cup {a} /\ left' = left \ {a}
  /\ UNCHANGED <<managed, hosts, step, scope, off, queries, zones, found, outcome, console>>
  /\ Observe

\* discover reads the apexes again; the rows of table apexes are not revisited.
ReadApexes ==
  /\ step = "apexes" /\ left = {}
  /\ scope' = EffectiveApexes /\ step' = "settings"
  /\ UNCHANGED <<managed, apexes, hosts, left, off, queries, zones, found, outcome, console>>
  /\ Observe

\* effectiveSources: the settings in one call, the apexes for crt.name in another.
ReadSettings ==
  /\ step = "settings"
  /\ off' = crtNameOff /\ zones' = EffectiveFiles
  /\ step' = IF CrtNameEnabled THEN "crtname" ELSE "sources"
  /\ UNCHANGED <<managed, apexes, hosts, left, scope, queries, found, outcome, console>>
  /\ Observe

\* Mutant of ReadCrtNameApexes: the settings of the apexes are not looked at.
ReadCrtNameApexes_All ==
  /\ step = "crtname"
  /\ queries' = EffectiveApexes /\ step' = "sources"
  /\ UNCHANGED <<managed, apexes, hosts, left, scope, off, zones, found, outcome, console>>
  /\ Observe

ReadCrtNameApexes ==
  /\ step = "crtname"
  /\ queries' = EffectiveApexes \ off /\ step' = "sources"
  /\ UNCHANGED <<managed, apexes, hosts, left, scope, off, zones, found, outcome, console>>
  /\ Observe

QueryCrtName(a, names) ==
  /\ step = "sources" /\ a \in queries
  /\ queries' = queries \ {a} /\ found' = found \cup FromCrtName(a, names)
  /\ UNCHANGED <<managed, apexes, hosts, step, left, scope, off, zones, outcome, console>>
  /\ Observe

\* Mutant of ReadZoneFile: a file that cannot be read is skipped.
ReadZoneFile_Skips(f) ==
  /\ step = "sources" /\ queries = {} /\ f \in zones
  /\ zones' = zones \ {f} /\ found' \in {found, found \cup FromZone(f, scope)}
  /\ UNCHANGED <<managed, apexes, hosts, step, left, scope, off, queries, outcome, console>>
  /\ Observe

ReadZoneFile(f) ==
  /\ step = "sources" /\ queries = {} /\ f \in zones
  /\ zones' = zones \ {f} /\ found' = found \cup FromZone(f, scope)
  /\ UNCHANGED <<managed, apexes, hosts, step, left, scope, off, queries, outcome, console>>
  /\ Observe

\* manual.Discover refuses the whole list for one host outside the apexes.
ReadManualHosts ==
  /\ step = "sources" /\ queries = {} /\ zones = {}
  /\ LET manual == EffectiveManualHosts(scope) IN
       IF \A t \in manual : InScope(t[1], scope)
       THEN /\ found' = found \cup manual /\ step' = "process"
            /\ UNCHANGED <<left, scope, off, queries, zones, outcome>>
       ELSE RecordScan("outside")
  /\ UNCHANGED <<managed, apexes, hosts, console>>
  /\ Observe

\* A worker stores the row of a host; what else it does is in module Scan.
UpsertHost(t) ==
  /\ step = "process" /\ t \in found
  /\ hosts' = hosts \cup {t} /\ found' = found \ {t}
  /\ UNCHANGED <<managed, apexes, step, left, scope, off, queries, zones, outcome, console>>
  /\ Observe

EndScan ==
  /\ step = "process" /\ found = {}
  /\ RecordScan("success")
  /\ UNCHANGED <<managed, apexes, hosts, console>>
  /\ Observe

\* The store, crt.name or a zone file fails, or the run is cancelled.
ScanFails ==
  /\ "scan" \in Faults /\ step # "idle"
  /\ RecordScan("error")
  /\ UNCHANGED <<managed, apexes, hosts, console>>
  /\ Observe

-----------------------------------------------------------------------------
Console(b) ==
  \/ Submit(b) \/ Check(b) \/ CallFails(b)
  \/ AddManagedApex(b) \/ DeleteManagedApex(b) \/ SaveManagedApexCrtName(b)
  \/ AddManagedManualHost(b) \/ DeleteManagedManualHost(b)
  \/ SaveManagedCrtName(b) \/ AddManagedZoneFile(b) \/ DeleteManagedZoneFile(b)

ScanStep ==
  \/ \E a \in Apexes : UpsertApex(a)
  \/ ReadApexes \/ ReadSettings \/ ReadCrtNameApexes
  \/ \E a \in Apexes, names \in SUBSET Hostnames : QueryCrtName(a, names)
  \/ \E f \in Files : ReadZoneFile(f)
  \/ ReadManualHosts
  \/ \E t \in Targets : UpsertHost(t)
  \/ EndScan

Next ==
  \/ \E b \in Browsers : Console(b)
  \/ StartScan \/ ScanStep \/ ScanFails

Spec == Init /\ [][Next]_vars

-----------------------------------------------------------------------------
(* Properties. *)

\* Only registered apexes are processed: whatever is found, from any source and
\* while apexes come and go, lies within an apex that config.yaml or the
\* console registered at some moment of this scan.
OnlyRegisteredFound ==
  step # "idle" => \A t \in found : InScope(t[1], registered)

\* crt.name is only asked about apexes that were registered at some moment of
\* this scan, and that at some moment of it both the master switch and their own
\* setting allowed.
CrtNameScoped == queries \subseteq registered /\ queries \subseteq switchedOn

\* hosts.apex REFERENCES apexes(apex), which SQLite does not enforce here: a scan
\* writes the rows of the apexes before anything else, so every stored host lies
\* within an apex that has a row, unless the apex was added while a scan ran.
ApexRowsExist == \A t \in hosts : InScope(t[1], apexes \cup late)

\* A scan that gets to processing leaves nothing out: every manual host, every
\* name of a zone file and every apex to look up that was configured at every
\* moment of the scan so far is covered, although the runner reads the tables one
\* by one while the console writes them, and although files cannot be read and
\* lookups fail (the scan fails then). The manual hosts of config.yaml are always
\* among them: the console cannot take them away.
SteadyTargets ==
  LET named == steady.hosts \cup UNION {FromZone(f, steady.apexes) : f \in steady.files} IN
    {t \in named : InScope(t[1], steady.apexes)}

SteadyIsScanned ==
  [][/\ step # "sources" /\ step' = "sources" => steady.crtName' \subseteq queries'
     /\ step # "process" /\ step' = "process" => SteadyTargets' \subseteq found']_vars

\* manual.Discover fails the scan for one host outside the apexes; the runner
\* never hands it one, whatever the console does between its reads, and however
\* many managed hosts outlived their apex.
ManualNeverRefused == outcome # "outside"

\* A form can name any host, and many at once; only hosts of apexes that were
\* registered at some moment get into the table of managed hosts.
AddedWithinApex == \A t \in managedHosts : InScope(t[1], ever)

\* Editing a managed host changes its port, and never loses the hostname without
\* an error: with no request under way, a hostname that was added, not deleted
\* on request since, and in no edit that failed, is there.
Registers(h) == \E p \in Ports : <<h, p>> \in managedHosts
EditsKeepHosts == (\A b \in Browsers : request[b] = NoRequest) => \A h \in owed : Registers(h)
=============================================================================
