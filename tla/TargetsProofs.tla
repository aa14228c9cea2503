--------------------------- MODULE TargetsProofs ---------------------------
(***************************************************************************)
(* What Targets is for: only registered apexes are scanned, the switches   *)
(* of crt.name are obeyed, what stays configured is scanned, and editing   *)
(* never loses a host. For any apexes, hosts, settings, number of          *)
(* concurrent requests and any handlers and failures.                      *)
(***************************************************************************)
EXTENDS Targets, SequenceTheorems, TLAPS

-----------------------------------------------------------------------------
(* Requests. *)

\* One call and two are sequences of calls.
LEMMA OneCall == \A c, d \in Calls : <<c>> \in Seq(Calls) /\ <<c, d>> \in Seq(Calls)
OBVIOUS

\* What a handler calls are calls of the store with arguments of the right type.
LEMMA HandlersTyped ==
  ASSUME NEW op \in OpKinds, NEW calls \in Handler(op)
  PROVE  calls \in Seq(Calls)
<1> USE TargetsAssumption
<1>1. \A t \in Targets : Within(t) \in Calls /\ Editable(t) \in Calls /\ AddHost(t) \in Calls
                         /\ DeleteHost(t) \in Calls
  BY DEF Within, Editable, AddHost, DeleteHost, Calls
<1>2. \A h \in Hostnames, p \in Ports : <<h, p>> \in Targets
  BY DEF Targets
<1>3. \A t \in Targets : ServeAddManualHost(t) \in Seq(Calls)
  BY <1>1 DEF ServeAddManualHost
<1>4. \A a \in Apexes, on \in BOOLEAN :
        /\ Registered(a) \in Calls
        /\ [call |-> "addApex", apex |-> a] \in Calls
        /\ [call |-> "deleteApex", apex |-> a] \in Calls
        /\ [call |-> "saveApexCrtName", apex |-> a, on |-> on] \in Calls
  BY DEF Registered, Calls
<1>5. \A on \in BOOLEAN : [call |-> "saveCrtName", on |-> on] \in Calls
  BY DEF Calls
<1>6. \A f \in Files : /\ [call |-> "addZone", file |-> f] \in Calls
                       /\ [call |-> "deleteZone", file |-> f] \in Calls
  BY DEF Calls
<1>7. /\ \A a \in Apexes : ServeAddApex(a) \in Seq(Calls) /\ ServeDeleteApex(a) \in Seq(Calls)
      /\ \A a \in Apexes, on \in BOOLEAN : ServeSaveApexCrtName(a, on) \in Seq(Calls)
      /\ \A on \in BOOLEAN : ServeSaveCrtName(on) \in Seq(Calls)
      /\ \A f \in Files : ServeAddZoneFile(f) \in Seq(Calls) /\ ServeDeleteZoneFile(f) \in Seq(Calls)
  <2>1. \A a \in Apexes : ServeAddApex(a) \in Seq(Calls) /\ ServeDeleteApex(a) \in Seq(Calls)
    BY <1>4, OneCall DEF ServeAddApex, ServeDeleteApex
  <2>2. \A a \in Apexes, on \in BOOLEAN : ServeSaveApexCrtName(a, on) \in Seq(Calls)
    BY <1>4, OneCall DEF ServeSaveApexCrtName
  <2>3. \A on \in BOOLEAN : ServeSaveCrtName(on) \in Seq(Calls)
    BY <1>5, OneCall DEF ServeSaveCrtName
  <2>4. \A f \in Files : ServeAddZoneFile(f) \in Seq(Calls) /\ ServeDeleteZoneFile(f) \in Seq(Calls)
    BY <1>6, OneCall DEF ServeAddZoneFile, ServeDeleteZoneFile
  <2> QED
    BY <2>1, <2>2, <2>3, <2>4
<1>8. \A t \in Targets : ServeDeleteManualHost(t) \in Seq(Calls)
  BY <1>1, OneCall DEF ServeDeleteManualHost
<1>9. \A h \in Hostnames, old, new \in Ports : ServeEditManualHost(h, old, new) \in Seq(Calls)
  <2> SUFFICES ASSUME NEW h \in Hostnames, NEW old \in Ports, NEW new \in Ports
               PROVE  ServeEditManualHost(h, old, new) \in Seq(Calls)
    OBVIOUS
  <2>1. /\ Editable(<<h, old>>) \in Calls /\ Within(<<h, new>>) \in Calls
        /\ DeleteHost(<<h, old>>) \in Calls /\ AddHost(<<h, new>>) \in Calls
    BY <1>1, <1>2
  <2> QED
    BY <2>1 DEF ServeEditManualHost
<1>10. \A h, i \in Hostnames : ServeAddCrtNameSelected(h, i) \in Seq(Calls)
  <2> SUFFICES ASSUME NEW h \in Hostnames, NEW i \in Hostnames
               PROVE  ServeAddCrtNameSelected(h, i) \in Seq(Calls)
    OBVIOUS
  <2>1. /\ ServeAddManualHost(<<h, DefaultPort>>) \in Seq(Calls)
        /\ ServeAddManualHost(<<i, DefaultPort>>) \in Seq(Calls)
    BY <1>2, <1>3
  <2> QED
    BY <2>1, ConcatProperties DEF ServeAddCrtNameSelected
<1>11. CASE op = "addApex"
  BY <1>7, <1>11 DEF Handler
<1>12. CASE op = "deleteApex"
  BY <1>7, <1>12 DEF Handler
<1>13. CASE op = "saveApexCrtName"
  BY <1>7, <1>13 DEF Handler
<1>14. CASE op = "addHost"
  BY <1>3, <1>14 DEF Handler
<1>15. CASE op = "deleteHost"
  BY <1>8, <1>15 DEF Handler
<1>16. CASE op = "editHost"
  BY <1>9, <1>16 DEF Handler
<1>17. CASE op = "saveCrtName"
  BY <1>7, <1>17 DEF Handler
<1>18. CASE op = "addSelected"
  BY <1>10, <1>18 DEF Handler
<1>19. CASE op = "addZone"
  BY <1>7, <1>19 DEF Handler
<1>20. CASE op = "deleteZone"
  BY <1>7, <1>20 DEF Handler
<1> QED
  BY <1>11, <1>12, <1>13, <1>14, <1>15, <1>16, <1>17, <1>18, <1>19, <1>20 DEF OpKinds

RequestTyped == request \in [Browsers -> [op: OpKinds \cup {"none"}, calls: Seq(Calls)]]

\* Ending a request or going on with it keeps the requests well typed.
LEMMA RequestsStayTyped ==
  ASSUME RequestTyped, NEW b \in Browsers, request[b].calls # <<>>, EndRequest(b) \/ GoOn(b)
  PROVE  RequestTyped'
<1>1. request[b].calls \in Seq(Calls) /\ request[b].op \in OpKinds \cup {"none"}
  BY DEF RequestTyped
<1>2. Tail(request[b].calls) \in Seq(Calls)
  BY <1>1
<1>3. CASE EndRequest(b)
  BY <1>3 DEF EndRequest, RequestTyped, NoRequest
<1>4. CASE request' = [request EXCEPT ![b].calls = Tail(@)]
  BY <1>1, <1>2, <1>4 DEF RequestTyped
<1> QED
  BY <1>3, <1>4 DEF GoOn

\* The next call is a call, and is gone through with its own arguments.
LEMMA NextCallTyped ==
  ASSUME RequestTyped, NEW b \in Browsers, request[b].calls # <<>>
  PROVE  Call(b) \in Calls
<1>1. request[b].calls \in Seq(Calls)
  BY DEF RequestTyped
<1> QED
  BY <1>1 DEF Call

LEMMA CallArguments ==
  ASSUME NEW c \in Calls
  PROVE  /\ c.call \in {"addApex", "deleteApex"} => c.apex \in Apexes
         /\ c.call \in {"addHost", "deleteHost"} => c.host \in Targets
         /\ c.call = "saveApexCrtName" => c.apex \in Apexes
         /\ c.call \in {"addZone", "deleteZone"} => c.file \in Files
BY DEF Calls

-----------------------------------------------------------------------------
(* Types. *)

\* What the sources report are hosts.
LEMMA ReportsTyped ==
  /\ \A a \in Apexes, names \in SUBSET Hostnames : FromCrtName(a, names) \subseteq Targets
  /\ \A f \in Files, as \in SUBSET Apexes : FromZone(f, as) \subseteq Targets
BY TargetsAssumption DEF FromCrtName, FromZone, Targets

ManagedTyped ==
  managedApexes \subseteq Apexes /\ managedHosts \subseteq Targets /\ managedFiles \subseteq Files

HistoryTyped ==
  /\ registered \subseteq Apexes /\ switchedOn \subseteq Apexes
  /\ steady \in [apexes: SUBSET Apexes, crtName: SUBSET Apexes, files: SUBSET Files,
                 hosts: SUBSET Targets]
  /\ ever \subseteq Apexes /\ late \subseteq Apexes

\* The configuration in force is one of apexes, files and hosts.
LEMMA ConfigurationTyped ==
  ASSUME ManagedTyped
  PROVE  /\ EffectiveApexes \subseteq Apexes /\ SwitchedOn \subseteq Apexes
         /\ EffectiveFiles \subseteq Files /\ ConfigHosts \cup managedHosts \subseteq Targets
BY TargetsAssumption
DEF ManagedTyped, EffectiveApexes, SwitchedOn, EffectiveFiles, ValidConfig

LEMMA ObserveTyped ==
  ASSUME HistoryTyped, Observe, ManagedTyped'
  PROVE  HistoryTyped'
<1>1. /\ EffectiveApexes' \subseteq Apexes /\ SwitchedOn' \subseteq Apexes
      /\ EffectiveFiles' \subseteq Files /\ (ConfigHosts \cup managedHosts') \subseteq Targets
  BY TargetsAssumption
  DEF ManagedTyped, EffectiveApexes, SwitchedOn, EffectiveFiles, ValidConfig
<1>2. Configuration' = [apexes |-> EffectiveApexes', crtName |-> EffectiveApexes' \cap SwitchedOn',
                        files |-> EffectiveFiles', hosts |-> ConfigHosts \cup managedHosts']
  BY DEF Configuration
<1>3. Configuration' \in [apexes: SUBSET Apexes, crtName: SUBSET Apexes, files: SUBSET Files,
                          hosts: SUBSET Targets]
  BY <1>1, <1>2
<1>4. steady' \in [apexes: SUBSET Apexes, crtName: SUBSET Apexes, files: SUBSET Files,
                   hosts: SUBSET Targets]
  <2>1. CASE step' = "idle"
    BY <1>3, <2>1 DEF Observe
  <2>2. CASE step' # "idle"
    <3>1. steady' = [part \in DOMAIN steady |-> steady[part] \cap Configuration'[part]]
      BY <2>2 DEF Observe
    <3>2. /\ DOMAIN steady = {"apexes", "crtName", "files", "hosts"}
          /\ steady.apexes \subseteq Apexes /\ steady.crtName \subseteq Apexes
          /\ steady.files \subseteq Files /\ steady.hosts \subseteq Targets
      BY DEF HistoryTyped
    <3>3. steady' = [apexes |-> steady.apexes \cap Configuration'.apexes,
                     crtName |-> steady.crtName \cap Configuration'.crtName,
                     files |-> steady.files \cap Configuration'.files,
                     hosts |-> steady.hosts \cap Configuration'.hosts]
      BY <3>1, <3>2
    <3> QED
      BY <3>2, <3>3
  <2> QED
    BY <2>1, <2>2
<1>5. registered' \subseteq Apexes /\ switchedOn' \subseteq Apexes
  BY <1>1 DEF Observe, HistoryTyped
<1>6. ever' \subseteq Apexes /\ late' \subseteq Apexes
  BY <1>1 DEF Observe, HistoryTyped
<1> QED
  BY <1>4, <1>5, <1>6 DEF HistoryTyped

\* The initial state is well typed.
LEMMA InitTyped == Init => TypeOK
<1> SUFFICES ASSUME Init PROVE TypeOK
  OBVIOUS
<1>1. ManagedTyped
  BY DEF Init, ManagedTyped
<1>2. HistoryTyped
  <2>1. /\ registered = EffectiveApexes /\ switchedOn = SwitchedOn /\ ever = EffectiveApexes
        /\ late = {}
        /\ steady = [apexes |-> EffectiveApexes, crtName |-> EffectiveApexes \cap SwitchedOn,
                     files |-> EffectiveFiles, hosts |-> ConfigHosts \cup managedHosts]
    BY DEF Init, Configuration
  <2> QED
    BY <1>1, <2>1, ConfigurationTyped DEF HistoryTyped
<1>3. request \in [Browsers -> [op: OpKinds \cup {"none"}, calls: Seq(Calls)]]
  BY DEF Init, NoRequest
<1>4. requests \in 0..MaxRequests
  BY TargetsAssumption DEF Init
<1> QED
  BY <1>1, <1>2, <1>3, <1>4 DEF Init, TypeOK, ManagedTyped, HistoryTyped

\* No console request leaves the types.
LEMMA ConsoleTyped ==
  ASSUME TypeOK, NEW b \in Browsers, Console(b)
  PROVE  TypeOK'
<1>1. RequestTyped /\ HistoryTyped /\ ManagedTyped
  BY DEF TypeOK, RequestTyped, HistoryTyped, ManagedTyped
<1>2. CASE Submit(b)
  <2>1. PICK op \in Ops : \E calls \in Handler(op) :
          request' = [request EXCEPT ![b] = [op |-> op, calls |-> calls]]
    BY <1>2 DEF Submit
  <2>2. op \in OpKinds
    BY TargetsAssumption
  <2>3. RequestTyped'
    BY <1>1, <2>1, <2>2, HandlersTyped DEF RequestTyped
  <2>4. requests' \in 0..MaxRequests
    BY <1>2, TargetsAssumption DEF Submit, TypeOK
  <2>5. HistoryTyped'
    BY <1>1, <1>2, ObserveTyped DEF Submit, managed, ManagedTyped
  <2> QED
    BY <1>2, <2>3, <2>4, <2>5 DEF Submit, TypeOK, RequestTyped, HistoryTyped, managed, runner
<1>3. ASSUME request[b].calls # <<>>, EndRequest(b) \/ GoOn(b)
      PROVE  RequestTyped' /\ Call(b) \in Calls
  BY <1>1, <1>3, RequestsStayTyped, NextCallTyped
<1>4. CASE Check(b) \/ CallFails(b)
  <2>1. HistoryTyped'
    BY <1>1, <1>4, ObserveTyped DEF Check, CallFails, managed, ManagedTyped
  <2>2. RequestTyped'
    BY <1>3, <1>4 DEF Check, CallFails, Calling
  <2> QED
    BY <1>4, <2>1, <2>2 DEF Check, CallFails, TypeOK, RequestTyped, HistoryTyped, managed, runner
<1>5. CASE AddManagedApex(b) \/ DeleteManagedApex(b)
  <2>1. RequestTyped' /\ Call(b).apex \in Apexes
    BY <1>3, <1>5, CallArguments DEF AddManagedApex, DeleteManagedApex, Calling, Call
  <2>2. ManagedTyped'
    BY <1>1, <1>5, <2>1 DEF AddManagedApex, DeleteManagedApex, ManagedTyped
  <2>3. HistoryTyped'
    BY <1>1, <1>5, <2>2, ObserveTyped DEF AddManagedApex, DeleteManagedApex
  <2> QED
    BY <1>5, <2>1, <2>2, <2>3
    DEF AddManagedApex, DeleteManagedApex, TypeOK, RequestTyped, HistoryTyped, ManagedTyped, runner
<1>6. CASE SaveManagedApexCrtName(b)
  <2>1. RequestTyped' /\ Call(b).apex \in Apexes
    BY <1>3, <1>6, CallArguments DEF SaveManagedApexCrtName, Calling, Call
  <2>2. HistoryTyped'
    BY <1>1, <1>6, ObserveTyped DEF SaveManagedApexCrtName, ManagedTyped
  <2> QED
    BY <1>6, <2>1, <2>2 DEF SaveManagedApexCrtName, TypeOK, RequestTyped, HistoryTyped, runner
<1>7. CASE AddManagedManualHost(b) \/ DeleteManagedManualHost(b)
  <2>1. RequestTyped' /\ Call(b).host \in Targets
    BY <1>3, <1>7, CallArguments DEF AddManagedManualHost, DeleteManagedManualHost, Calling, Call
  <2>2. Call(b).host[1] \in Hostnames
    BY <2>1 DEF Targets
  <2>3. ManagedTyped' /\ owed' \subseteq Hostnames
    BY <1>7, <2>1, <2>2 DEF AddManagedManualHost, DeleteManagedManualHost, TypeOK, ManagedTyped
  <2>4. HistoryTyped'
    BY <1>1, <1>7, <2>3, ObserveTyped DEF AddManagedManualHost, DeleteManagedManualHost
  <2> QED
    BY <1>7, <2>1, <2>3, <2>4
    DEF AddManagedManualHost, DeleteManagedManualHost, TypeOK, RequestTyped, HistoryTyped,
        ManagedTyped, runner
<1>8. CASE SaveManagedCrtName(b)
  <2>1. RequestTyped' /\ HistoryTyped'
    BY <1>1, <1>3, <1>8, ObserveTyped DEF SaveManagedCrtName, Calling, ManagedTyped
  <2> QED
    BY <1>8, <2>1 DEF SaveManagedCrtName, TypeOK, RequestTyped, HistoryTyped, runner
<1>9. CASE AddManagedZoneFile(b) \/ DeleteManagedZoneFile(b)
  <2>1. RequestTyped' /\ Call(b).file \in Files
    BY <1>3, <1>9, CallArguments DEF AddManagedZoneFile, DeleteManagedZoneFile, Calling, Call
  <2>2. ManagedTyped'
    BY <1>1, <1>9, <2>1 DEF AddManagedZoneFile, DeleteManagedZoneFile, ManagedTyped
  <2>3. HistoryTyped'
    BY <1>1, <1>9, <2>2, ObserveTyped DEF AddManagedZoneFile, DeleteManagedZoneFile
  <2> QED
    BY <1>9, <2>1, <2>2, <2>3
    DEF AddManagedZoneFile, DeleteManagedZoneFile, TypeOK, RequestTyped, HistoryTyped,
        ManagedTyped, runner
<1> QED
  BY <1>2, <1>4, <1>5, <1>6, <1>7, <1>8, <1>9 DEF Console

RunnerTyped ==
  /\ apexes \subseteq Apexes /\ hosts \subseteq Targets
  /\ step \in {"idle", "apexes", "settings", "crtname", "sources", "process"}
  /\ left \subseteq Apexes /\ scope \subseteq Apexes /\ off \subseteq Apexes
  /\ queries \subseteq Apexes /\ zones \subseteq Files /\ found \subseteq Targets
  /\ outcome \in {"none", "success", "error", "outside"}

\* No step of a scan leaves the types.
LEMMA ScanTyped ==
  ASSUME TypeOK, StartScan \/ ScanStep \/ ScanFails
  PROVE  TypeOK'
<1>1. HistoryTyped /\ ManagedTyped
  BY DEF TypeOK, HistoryTyped, ManagedTyped
<1>2. EffectiveApexes \subseteq Apexes
  BY <1>1, ConfigurationTyped
<1>3. EffectiveFiles \subseteq Files
  BY <1>1, ConfigurationTyped
<1>4. EffectiveManualHosts(scope) \subseteq Targets
  BY TargetsAssumption DEF TypeOK, EffectiveManualHosts, ValidConfig
<1>5. /\ UNCHANGED <<managed, console>> /\ Observe
  BY DEF StartScan, ScanStep, ScanFails, UpsertApex, ReadApexes, ReadSettings,
     ReadCrtNameApexes, QueryCrtName, ReadZoneFile, ReadManualHosts, UpsertHost, EndScan
<1>6. HistoryTyped'
  BY <1>1, <1>5, ObserveTyped DEF managed, ManagedTyped
<1>7. SUFFICES RunnerTyped'
  BY <1>5, <1>6 DEF TypeOK, RunnerTyped, HistoryTyped, managed, console
<1>8. CASE StartScan \/ ReadApexes \/ ReadSettings \/ ReadCrtNameApexes
  BY <1>2, <1>3, <1>8 DEF StartScan, ReadApexes, ReadSettings, ReadCrtNameApexes, TypeOK, RunnerTyped
<1>9. ASSUME NEW a \in Apexes, UpsertApex(a)
      PROVE  RunnerTyped'
  BY <1>9 DEF UpsertApex, TypeOK, RunnerTyped
<1>10. ASSUME NEW a \in Apexes, NEW names \in SUBSET Hostnames, QueryCrtName(a, names)
       PROVE  RunnerTyped'
  BY <1>10, ReportsTyped DEF QueryCrtName, TypeOK, RunnerTyped
<1>11. ASSUME NEW f \in Files, ReadZoneFile(f)
       PROVE  RunnerTyped'
  BY <1>11, ReportsTyped DEF ReadZoneFile, TypeOK, RunnerTyped
<1>12. CASE ReadManualHosts
  BY <1>4, <1>12 DEF ReadManualHosts, RecordScan, TypeOK, RunnerTyped
<1>13. ASSUME NEW t \in Targets, UpsertHost(t)
       PROVE  RunnerTyped'
  BY <1>13 DEF UpsertHost, TypeOK, RunnerTyped
<1>14. CASE EndScan \/ ScanFails
  BY <1>14 DEF EndScan, ScanFails, RecordScan, TypeOK, RunnerTyped
<1> QED
  BY <1>8, <1>9, <1>10, <1>11, <1>12, <1>13, <1>14 DEF ScanStep

\* Typing, for every configuration, any number of requests and all failures.
THEOREM TargetsTyping == Spec => []TypeOK
<1>1. TypeOK /\ [Next]_vars => TypeOK'
  <2> SUFFICES ASSUME TypeOK, [Next]_vars PROVE TypeOK'
    OBVIOUS
  <2>1. CASE UNCHANGED vars
    BY <2>1 DEF TypeOK, vars, managed, runner, console, history
  <2> QED
    BY <2>1, ConsoleTyped, ScanTyped DEF Next
<1> QED
  BY <1>1, InitTyped, PTL DEF Spec

-----------------------------------------------------------------------------
(* Scope of a scan: what the runner has read stays within what the history *)
(* saw, although the console changes the tables between any two reads.     *)

ScopeHolds ==
  /\ EffectiveApexes \subseteq registered /\ SwitchedOn \subseteq switchedOn
  /\ step \in {"idle", "apexes"} => scope = {} /\ queries = {} /\ found = {}
  /\ scope \subseteq registered
  /\ queries \subseteq registered /\ queries \subseteq switchedOn
  /\ step = "crtname" => Apexes \ off \subseteq switchedOn
  /\ \A t \in found : InScope(t[1], registered)

\* The history only grows while a scan runs, and is always up to date.
LEMMA HistoryGrows ==
  ASSUME Observe
  PROVE  /\ EffectiveApexes' \subseteq registered' /\ SwitchedOn' \subseteq switchedOn'
         /\ step' # "idle" => registered \subseteq registered' /\ switchedOn \subseteq switchedOn'
         /\ ever \subseteq ever' /\ EffectiveApexes' \subseteq ever' /\ late \subseteq late'
         /\ step' # "idle" => EffectiveApexes' \subseteq EffectiveApexes \cup late'
BY DEF Observe

LEMMA InScopeGrows ==
  ASSUME NEW h, NEW as, NEW bs, as \subseteq bs, InScope(h, as)
  PROVE  InScope(h, bs)
BY DEF InScope

\* The sources report hosts within the apexes they were asked about.
LEMMA ReportsInScope ==
  /\ \A a, names : \A t \in FromCrtName(a, names) : InScope(t[1], {a})
  /\ \A f, as : \A t \in FromZone(f, as) : InScope(t[1], as)
BY DEF FromCrtName, FromZone, InScope

\* A request changes no variable of the runner.
LEMMA ConsoleFrame ==
  ASSUME NEW b \in Browsers, Console(b)
  PROVE  UNCHANGED <<apexes, hosts, runner>> /\ Observe
BY DEF Console, Submit, Check, CallFails, AddManagedApex, DeleteManagedApex,
   SaveManagedApexCrtName, AddManagedManualHost, DeleteManagedManualHost,
   SaveManagedCrtName, AddManagedZoneFile, DeleteManagedZoneFile

\* A scan changes no variable of the configuration and of the requests.
LEMMA ScanFrame ==
  ASSUME StartScan \/ ScanStep \/ ScanFails
  PROVE  UNCHANGED <<managed, console>> /\ Observe
BY DEF StartScan, ScanStep, ScanFails, UpsertApex, ReadApexes, ReadSettings,
   ReadCrtNameApexes, QueryCrtName, ReadZoneFile, ReadManualHosts, UpsertHost, EndScan

LEMMA ScopeStep == TypeOK /\ ScopeHolds /\ [Next]_vars => ScopeHolds'
<1> SUFFICES ASSUME TypeOK, ScopeHolds, [Next]_vars PROVE ScopeHolds'
  OBVIOUS
<1>1. CASE UNCHANGED vars
  BY <1>1 DEF ScopeHolds, vars, managed, runner, console, history, EffectiveApexes,
     SwitchedOn, CrtNameEnabled, InScope
<1>2. ASSUME NEW b \in Browsers, Console(b) PROVE ScopeHolds'
  <2>1. UNCHANGED <<step, scope, off, queries, found>> /\ Observe
    BY <1>2, ConsoleFrame DEF runner
  <2>2. CASE step = "idle"
    BY <2>1, <2>2, HistoryGrows DEF ScopeHolds
  <2>3. CASE step # "idle"
    BY <2>1, <2>3, HistoryGrows, InScopeGrows DEF ScopeHolds
  <2> QED
    BY <2>2, <2>3
<1>3. ASSUME StartScan \/ ScanStep \/ ScanFails PROVE ScopeHolds'
  <2>1. Observe /\ UNCHANGED <<EffectiveApexes, SwitchedOn>>
    BY <1>3, ScanFrame DEF managed, EffectiveApexes, SwitchedOn, CrtNameEnabled
  <2>2. /\ EffectiveApexes \subseteq registered' /\ SwitchedOn \subseteq switchedOn'
        /\ EffectiveApexes' \subseteq registered' /\ SwitchedOn' \subseteq switchedOn'
        /\ step' # "idle" => registered \subseteq registered' /\ switchedOn \subseteq switchedOn'
    BY <2>1, HistoryGrows
  <2>3. CASE StartScan
    BY <2>2, <2>3 DEF StartScan, ScopeHolds
  <2>4. ASSUME step # "idle",
               scope' \subseteq registered',
               queries' \subseteq registered', queries' \subseteq switchedOn',
               step' = "crtname" => Apexes \ off' \subseteq switchedOn',
               step' \in {"idle", "apexes"} => scope' = {} /\ queries' = {} /\ found' = {},
               \A t \in found' : t \in found \/ InScope(t[1], registered')
        PROVE  ScopeHolds'
    BY <2>2, <2>4, InScopeGrows DEF ScopeHolds
  <2>5. ASSUME NEW a \in Apexes, UpsertApex(a) PROVE ScopeHolds'
    BY <2>2, <2>4, <2>5 DEF UpsertApex, ScopeHolds
  <2>6. CASE ReadApexes
    BY <2>2, <2>4, <2>6 DEF ReadApexes, ScopeHolds
  <2>7. CASE ReadSettings
    <3>1. step' = "crtname" => Apexes \ off' \subseteq switchedOn'
      BY <2>2, <2>7 DEF ReadSettings, SwitchedOn
    <3> QED
      BY <2>2, <2>4, <2>7, <3>1 DEF ReadSettings, ScopeHolds
  <2>8. CASE ReadCrtNameApexes
    <3>1. EffectiveApexes \subseteq Apexes
      BY ConfigurationTyped DEF TypeOK, ManagedTyped
    <3>2. queries' \subseteq registered' /\ queries' \subseteq switchedOn'
      BY <2>2, <2>8, <3>1 DEF ReadCrtNameApexes, ScopeHolds
    <3> QED
      BY <2>2, <2>4, <2>8, <3>2 DEF ReadCrtNameApexes, ScopeHolds
  <2>9. ASSUME NEW a \in Apexes, NEW names \in SUBSET Hostnames, QueryCrtName(a, names)
        PROVE  ScopeHolds'
    <3>1. a \in registered'
      BY <2>2, <2>9 DEF QueryCrtName, ScopeHolds
    <3>2. \A t \in FromCrtName(a, names) : InScope(t[1], registered')
      BY <3>1, ReportsInScope DEF InScope
    <3> QED
      BY <2>2, <2>4, <2>9, <3>2 DEF QueryCrtName, ScopeHolds
  <2>10. ASSUME NEW f \in Files, ReadZoneFile(f) PROVE ScopeHolds'
    <3>1. scope \subseteq registered'
      BY <2>2, <2>10 DEF ReadZoneFile, ScopeHolds
    <3>2. \A t \in FromZone(f, scope) : InScope(t[1], registered')
      BY <3>1, ReportsInScope, InScopeGrows
    <3> QED
      BY <2>2, <2>4, <2>10, <3>2 DEF ReadZoneFile, ScopeHolds
  <2>11. CASE ReadManualHosts
    <3>1. step' # "idle" => scope \subseteq registered'
      BY <2>2, <2>11 DEF ReadManualHosts, ScopeHolds
    <3>2. CASE \A t \in EffectiveManualHosts(scope) : InScope(t[1], scope)
      <4>0. step' # "idle"
        BY <2>11, <3>2 DEF ReadManualHosts
      <4>1. \A t \in EffectiveManualHosts(scope) : InScope(t[1], registered')
        BY <3>1, <3>2, <4>0, InScopeGrows
      <4> QED
        BY <2>2, <2>4, <2>11, <3>2, <4>1 DEF ReadManualHosts, ScopeHolds
    <3>3. CASE ~\A t \in EffectiveManualHosts(scope) : InScope(t[1], scope)
      BY <2>2, <2>4, <2>11, <3>3 DEF ReadManualHosts, RecordScan
    <3> QED
      BY <3>2, <3>3
  <2>12. ASSUME NEW t \in Targets, UpsertHost(t) PROVE ScopeHolds'
    BY <2>2, <2>4, <2>12 DEF UpsertHost, ScopeHolds
  <2>13. CASE EndScan \/ ScanFails
    BY <2>2, <2>4, <2>13 DEF EndScan, ScanFails, RecordScan
  <2> QED
    BY <1>3, <2>3, <2>5, <2>6, <2>7, <2>8, <2>9, <2>10, <2>11, <2>12, <2>13 DEF ScanStep
<1> QED
  BY <1>1, <1>2, <1>3 DEF Next

LEMMA ScopeInvariant == Spec => []ScopeHolds
<1>1. Init => ScopeHolds
  BY DEF Init, ScopeHolds
<1> QED
  BY <1>1, ScopeStep, TargetsTyping, PTL DEF Spec

\* Whatever is found lies within an apex registered during the scan.
THEOREM ScansKeepScope == Spec => []OnlyRegisteredFound
<1>1. ScopeHolds => OnlyRegisteredFound
  BY DEF ScopeHolds, OnlyRegisteredFound
<1> QED
  BY <1>1, ScopeInvariant, PTL

\* crt.name is only asked about apexes registered, and switched on, during the scan.
THEOREM SwitchesAreObeyed == Spec => []CrtNameScoped
<1>1. ScopeHolds => CrtNameScoped
  BY DEF ScopeHolds, CrtNameScoped
<1> QED
  BY <1>1, ScopeInvariant, PTL

-----------------------------------------------------------------------------
(* Rows of table apexes: the apexes in force never outgrow the rows that   *)
(* were written at the start of the scan and the apexes added since.       *)

RowsHold ==
  LET rows == apexes \cup late IN
    /\ step = "apexes" => EffectiveApexes \subseteq rows \cup left
    /\ step \notin {"idle", "apexes"} => EffectiveApexes \subseteq rows
    /\ scope \subseteq rows /\ queries \subseteq rows
    /\ \A t \in found \cup hosts : InScope(t[1], rows)

LEMMA RowsStep == RowsHold /\ [Next]_vars => RowsHold'
<1> SUFFICES ASSUME RowsHold, [Next]_vars PROVE RowsHold'
  OBVIOUS
<1>1. CASE UNCHANGED vars
  BY <1>1 DEF RowsHold, vars, managed, runner, history, EffectiveApexes, InScope
<1>2. ASSUME apexes \cup late \subseteq apexes' \cup late',
             scope' \subseteq apexes' \cup late', queries' \subseteq apexes' \cup late',
             \A t \in found' \cup hosts' :
               t \in found \cup hosts \/ InScope(t[1], apexes' \cup late'),
             step' = "apexes" => EffectiveApexes' \subseteq apexes' \cup late' \cup left',
             step' \notin {"idle", "apexes"} => EffectiveApexes' \subseteq apexes' \cup late'
      PROVE  RowsHold'
  <2>1. \A t \in found \cup hosts : InScope(t[1], apexes' \cup late')
    BY <1>2, InScopeGrows DEF RowsHold
  <2> QED
    BY <1>2, <2>1 DEF RowsHold
<1>3. ASSUME NEW b \in Browsers, Console(b) PROVE RowsHold'
  <2>1. UNCHANGED <<apexes, hosts, step, left, scope, queries, found>> /\ Observe
    BY <1>3, ConsoleFrame DEF runner
  <2>2. /\ late \subseteq late'
        /\ step' # "idle" => EffectiveApexes' \subseteq EffectiveApexes \cup late'
    BY <2>1, HistoryGrows
  <2> QED
    BY <1>2, <2>1, <2>2 DEF RowsHold
<1>4. ASSUME StartScan \/ ScanStep \/ ScanFails PROVE RowsHold'
  <2>1. UNCHANGED EffectiveApexes /\ late \subseteq late'
    BY <1>4, ScanFrame, HistoryGrows DEF managed, EffectiveApexes
  <2>2. CASE StartScan
    BY <1>2, <2>1, <2>2 DEF StartScan, RowsHold
  <2>3. ASSUME NEW a \in Apexes, UpsertApex(a) PROVE RowsHold'
    BY <1>2, <2>1, <2>3 DEF UpsertApex, RowsHold
  <2>4. CASE ReadApexes \/ ReadSettings \/ ReadCrtNameApexes
    BY <1>2, <2>1, <2>4 DEF ReadApexes, ReadSettings, ReadCrtNameApexes, RowsHold
  <2>5. ASSUME UNCHANGED <<apexes, hosts, scope>>, queries' \subseteq queries,
               step \notin {"idle", "apexes"}, step' \notin {"idle", "apexes"},
               \A t \in found' : t \in found \/ InScope(t[1], apexes' \cup late')
        PROVE  RowsHold'
    BY <1>2, <2>1, <2>5 DEF RowsHold
  <2>6. ASSUME NEW a \in Apexes, NEW names \in SUBSET Hostnames, QueryCrtName(a, names)
        PROVE  RowsHold'
    <3>1. a \in apexes' \cup late'
      BY <2>1, <2>6 DEF QueryCrtName, RowsHold
    <3>2. \A t \in FromCrtName(a, names) : InScope(t[1], apexes' \cup late')
      BY <3>1, ReportsInScope DEF InScope
    <3> QED
      BY <2>5, <2>6, <3>2 DEF QueryCrtName
  <2>7. ASSUME NEW f \in Files, ReadZoneFile(f) PROVE RowsHold'
    <3>1. scope \subseteq apexes' \cup late'
      BY <2>1, <2>7 DEF ReadZoneFile, RowsHold
    <3>2. \A t \in FromZone(f, scope) : InScope(t[1], apexes' \cup late')
      BY <3>1, ReportsInScope, InScopeGrows
    <3> QED
      BY <2>5, <2>7, <3>2 DEF ReadZoneFile
  <2>8. CASE ReadManualHosts
    <3>1. scope \subseteq apexes' \cup late'
      BY <2>1, <2>8 DEF ReadManualHosts, RowsHold
    <3>2. CASE \A t \in EffectiveManualHosts(scope) : InScope(t[1], scope)
      <4>1. \A t \in EffectiveManualHosts(scope) : InScope(t[1], apexes' \cup late')
        BY <3>1, <3>2, InScopeGrows
      <4> QED
        BY <2>5, <2>8, <3>2, <4>1 DEF ReadManualHosts
    <3>3. CASE ~\A t \in EffectiveManualHosts(scope) : InScope(t[1], scope)
      BY <1>2, <2>1, <2>8, <3>3 DEF ReadManualHosts, RecordScan
    <3> QED
      BY <3>2, <3>3
  <2>9. ASSUME NEW t \in Targets, UpsertHost(t) PROVE RowsHold'
    BY <1>2, <2>1, <2>9 DEF UpsertHost, RowsHold
  <2>10. CASE EndScan \/ ScanFails
    BY <1>2, <2>1, <2>10 DEF EndScan, ScanFails, RecordScan
  <2> QED
    BY <1>4, <2>2, <2>3, <2>4, <2>6, <2>7, <2>8, <2>9, <2>10 DEF ScanStep
<1> QED
  BY <1>1, <1>3, <1>4 DEF Next

\* Every stored host has its apex's row, unless that was added during a scan.
THEOREM HostsHaveApexRows == Spec => []ApexRowsExist
<1>1. Init => RowsHold
  BY DEF Init, RowsHold
<1>2. RowsHold => ApexRowsExist
  BY DEF RowsHold, ApexRowsExist
<1> QED
  BY <1>1, <1>2, RowsStep, PTL DEF Spec

-----------------------------------------------------------------------------
(* Coverage: what has been configured since the scan started has been read *)
(* by every read the scan has made.                                        *)

Reading == {"settings", "crtname", "sources"}

SteadyHolds ==
  /\ step \in Reading => steady.apexes \subseteq scope
  /\ step = "crtname" => steady.crtName \cap off = {}
  /\ step \in {"crtname", "sources"} =>
       \A f \in steady.files : f \in zones \/ FromZone(f, scope) \subseteq found

\* What is steady is configured, and only gets less while a scan runs.
LEMMA SteadyShrinks ==
  ASSUME TypeOK, Observe
  PROVE  /\ steady'.apexes \subseteq EffectiveApexes' /\ steady'.files \subseteq EffectiveFiles'
         /\ steady'.crtName \subseteq EffectiveApexes' \cap SwitchedOn'
         /\ steady'.hosts \subseteq ConfigHosts \cup managedHosts'
         /\ step' # "idle" => /\ steady'.apexes \subseteq steady.apexes
                              /\ steady'.crtName \subseteq steady.crtName
                              /\ steady'.files \subseteq steady.files
<1>1. Configuration' = [apexes |-> EffectiveApexes', crtName |-> EffectiveApexes' \cap SwitchedOn',
                        files |-> EffectiveFiles', hosts |-> ConfigHosts \cup managedHosts']
  BY DEF Configuration
<1>2. CASE step' = "idle"
  BY <1>1, <1>2 DEF Observe
<1>3. CASE step' # "idle"
  <2>1. DOMAIN steady = {"apexes", "crtName", "files", "hosts"}
    BY DEF TypeOK
  <2>2. steady' = [part \in DOMAIN steady |-> steady[part] \cap Configuration'[part]]
    BY <1>3 DEF Observe
  <2>3. \A part \in {"apexes", "crtName", "files", "hosts"} :
          steady'[part] \subseteq steady[part] /\ steady'[part] \subseteq Configuration'[part]
    BY <2>1, <2>2
  <2> QED
    BY <1>1, <2>3
<1> QED
  BY <1>2, <1>3

LEMMA SteadyStep == TypeOK /\ SteadyHolds /\ [Next]_vars => SteadyHolds'
<1> SUFFICES ASSUME TypeOK, SteadyHolds, [Next]_vars PROVE SteadyHolds'
  OBVIOUS
<1>1. CASE UNCHANGED vars
  BY <1>1 DEF SteadyHolds, vars, runner, history
<1>2. Observe /\ step' # "idle" =>
        /\ steady'.apexes \subseteq steady.apexes
        /\ steady'.crtName \subseteq steady.crtName
        /\ steady'.files \subseteq steady.files
  BY SteadyShrinks
<1>3. ASSUME Observe, UNCHANGED <<step, scope, off>>,
             \A f \in zones : f \in zones' \/ FromZone(f, scope) \subseteq found',
             found \subseteq found'
      PROVE  SteadyHolds'
  <2>1. step' \in Reading => steady'.apexes \subseteq scope'
    BY <1>2, <1>3 DEF SteadyHolds, Reading
  <2>2. step' = "crtname" => steady'.crtName \cap off' = {}
    BY <1>2, <1>3 DEF SteadyHolds
  <2>3. ASSUME step' \in {"crtname", "sources"}, NEW f \in steady'.files
        PROVE  f \in zones' \/ FromZone(f, scope) \subseteq found'
    <3>1. f \in zones \/ FromZone(f, scope) \subseteq found
      BY <1>2, <1>3, <2>3 DEF SteadyHolds
    <3> QED
      BY <1>3, <3>1
  <2>4. \A f : FromZone(f, scope') = FromZone(f, scope)
    BY <1>3
  <2>5. SteadyHolds' = (/\ step' \in Reading => steady'.apexes \subseteq scope'
                        /\ step' = "crtname" => steady'.crtName \cap off' = {}
                        /\ step' \in {"crtname", "sources"} =>
                             \A f \in steady'.files : f \in zones' \/ FromZone(f, scope') \subseteq found')
    BY DEF SteadyHolds, FromZone, InScope, WithinApex, Reading
  <2> QED
    BY <2>1, <2>2, <2>3, <2>4, <2>5
<1>4. ASSUME NEW b \in Browsers, Console(b) PROVE SteadyHolds'
  <2>1. UNCHANGED <<step, scope, off, zones, found>> /\ Observe
    BY <1>4, ConsoleFrame DEF runner
  <2> QED
    BY <1>3, <2>1
<1>5. ASSUME step' \notin Reading PROVE SteadyHolds'
  BY <1>5 DEF SteadyHolds, Reading
<1>6. ASSUME StartScan \/ ScanStep \/ ScanFails PROVE SteadyHolds'
  <2>1. Observe /\ UNCHANGED <<EffectiveApexes, EffectiveFiles, crtNameOff, CrtNameEnabled>>
    BY <1>6, ScanFrame DEF managed, EffectiveApexes, EffectiveFiles, CrtNameEnabled
  <2>2. CASE StartScan \/ EndScan \/ ScanFails \/ ReadManualHosts
    BY <1>5, <2>2 DEF StartScan, EndScan, ScanFails, ReadManualHosts, RecordScan, Reading
  <2>3. ASSUME NEW a \in Apexes, UpsertApex(a) PROVE SteadyHolds'
    BY <1>5, <2>3 DEF UpsertApex, Reading
  <2>4. ASSUME NEW t \in Targets, UpsertHost(t) PROVE SteadyHolds'
    BY <1>5, <2>4 DEF UpsertHost, Reading
  <2>5. CASE ReadApexes
    <3>1. steady'.apexes \subseteq scope' /\ step' = "settings"
      BY <2>1, <2>5, SteadyShrinks DEF ReadApexes
    <3> QED
      BY <3>1 DEF SteadyHolds
  <2>6. CASE ReadSettings
    <3>1. steady'.files \subseteq zones' /\ UNCHANGED scope /\ step' # "idle" /\ step \in Reading
      BY <2>1, <2>6, SteadyShrinks DEF ReadSettings, Reading
    <3>2. steady'.crtName \cap off' = {}
      <4>1. steady'.crtName \subseteq SwitchedOn' /\ off' = crtNameOff'
        BY <2>1, <2>6, SteadyShrinks DEF ReadSettings
      <4> QED
        BY <4>1 DEF SwitchedOn
    <3>3. steady'.apexes \subseteq scope'
      BY <1>2, <2>1, <3>1 DEF SteadyHolds
    <3> QED
      BY <3>1, <3>2, <3>3 DEF SteadyHolds
  <2>7. CASE ReadCrtNameApexes
    <3>1. /\ UNCHANGED <<scope, off, zones, found>> /\ step = "crtname" /\ step' = "sources"
      BY <2>7 DEF ReadCrtNameApexes
    <3>2. steady'.apexes \subseteq scope' /\ steady'.files \subseteq steady.files
      BY <1>2, <2>1, <3>1 DEF SteadyHolds, Reading
    <3>3. \A f \in steady.files : f \in zones \/ FromZone(f, scope) \subseteq found
      BY <3>1 DEF SteadyHolds
    <3> QED
      BY <3>1, <3>2, <3>3 DEF SteadyHolds, FromZone, InScope, WithinApex
  <2>8. ASSUME NEW a \in Apexes, NEW names \in SUBSET Hostnames, QueryCrtName(a, names)
        PROVE  SteadyHolds'
    BY <1>3, <2>1, <2>8 DEF QueryCrtName
  <2>9. ASSUME NEW f \in Files, ReadZoneFile(f) PROVE SteadyHolds'
    BY <1>3, <2>1, <2>9 DEF ReadZoneFile
  <2> QED
    BY <1>6, <2>2, <2>3, <2>4, <2>5, <2>6, <2>7, <2>8, <2>9 DEF ScanStep
<1> QED
  BY <1>1, <1>4, <1>6 DEF Next

\* The names of a file within fewer apexes are among those within more.
LEMMA FromZoneGrows ==
  ASSUME NEW f, NEW as, NEW bs, as \subseteq bs
  PROVE  FromZone(f, as) \subseteq FromZone(f, bs)
BY InScopeGrows DEF FromZone

\* When the sources are about to be asked, every steady apex is to be looked up.
LEMMA SteadyIsAsked ==
  ASSUME TypeOK, SteadyHolds, [Next]_vars, step # "sources", step' = "sources"
  PROVE  steady'.crtName \subseteq queries'
<1>1. \A b \in Browsers : ~Console(b)
  BY ConsoleFrame DEF runner
<1>2. CASE ReadSettings
  <2>1. ~CrtNameEnabled /\ UNCHANGED CrtNameEnabled /\ Observe
    BY <1>2 DEF ReadSettings, managed, CrtNameEnabled
  <2>2. SwitchedOn' = {}
    BY <2>1 DEF SwitchedOn
  <2> QED
    BY <2>1, <2>2, SteadyShrinks
<1>3. CASE ReadCrtNameApexes
  <2>1. /\ Observe /\ UNCHANGED EffectiveApexes /\ queries' = EffectiveApexes \ off
        /\ step = "crtname"
    BY <1>3 DEF ReadCrtNameApexes, managed, EffectiveApexes
  <2>2. steady'.crtName \subseteq steady.crtName /\ steady'.crtName \subseteq EffectiveApexes
    BY <2>1, SteadyShrinks
  <2> QED
    BY <2>1, <2>2 DEF SteadyHolds
<1>4. ReadSettings \/ ReadCrtNameApexes
  BY <1>1 DEF Next, vars, runner, StartScan, ScanStep, ScanFails, UpsertApex, ReadApexes,
     QueryCrtName, ReadZoneFile, ReadManualHosts, UpsertHost, EndScan, RecordScan
<1> QED
  BY <1>2, <1>3, <1>4

\* When processing is about to start, every steady target has been found.
LEMMA SteadyIsFound ==
  ASSUME TypeOK, SteadyHolds, [Next]_vars, step # "process", step' = "process"
  PROVE  SteadyTargets' \subseteq found'
<1>1. \A b \in Browsers : ~Console(b)
  BY ConsoleFrame DEF runner
<1>2. ReadManualHosts
  BY <1>1 DEF Next, vars, runner, StartScan, ScanStep, ScanFails, UpsertApex,
     ReadApexes, ReadSettings, ReadCrtNameApexes, QueryCrtName, ReadZoneFile, UpsertHost,
     EndScan, RecordScan
<1>3. /\ step = "sources" /\ zones = {} /\ found' = found \cup EffectiveManualHosts(scope)
      /\ Observe /\ UNCHANGED managedHosts
  BY <1>2 DEF ReadManualHosts, RecordScan, managed
<1>4. /\ steady'.apexes \subseteq scope /\ steady'.hosts \subseteq ConfigHosts \cup managedHosts
      /\ steady'.files \subseteq steady.files
  BY <1>3, SteadyShrinks DEF SteadyHolds, Reading
<1>5. \A t \in steady'.hosts : InScope(t[1], steady'.apexes) => t \in found'
  BY <1>3, <1>4, InScopeGrows DEF EffectiveManualHosts
<1>6. ASSUME NEW f \in steady'.files
      PROVE  FromZone(f, steady'.apexes) \subseteq found'
  <2>1. FromZone(f, scope) \subseteq found
    BY <1>3, <1>4, <1>6 DEF SteadyHolds
  <2> QED
    BY <1>3, <1>4, <2>1, FromZoneGrows
<1>7. SteadyTargets' = {t \in steady'.hosts \cup UNION {FromZone(f, steady'.apexes) : f \in steady'.files} :
                          InScope(t[1], steady'.apexes)}
  BY DEF SteadyTargets, FromZone, InScope, WithinApex
<1> QED
  BY <1>5, <1>6, <1>7

\* A scan that gets to processing covers all that stayed configured.
THEOREM NothingSteadyLeftOut == Spec => SteadyIsScanned
<1>1. Init => SteadyHolds
  BY DEF Init, SteadyHolds, Reading
<1>2. TypeOK /\ SteadyHolds /\ [Next]_vars =>
        /\ step # "sources" /\ step' = "sources" => steady.crtName' \subseteq queries'
        /\ step # "process" /\ step' = "process" => SteadyTargets' \subseteq found'
  BY SteadyIsAsked, SteadyIsFound
<1> QED
  BY <1>1, <1>2, SteadyStep, TargetsTyping, PTL DEF Spec, SteadyIsScanned

-----------------------------------------------------------------------------
(* Manual hosts: those of config.yaml are always in scope, the managed ones *)
(* are compared with the very apexes that discovery uses.                  *)

RefusalHolds ==
  /\ outcome # "outside"
  /\ step \in Reading => ConfigApexes \subseteq scope

\* No manual host makes discovery fail.
THEOREM ManualHostsAccepted == Spec => []ManualNeverRefused
<1>1. Init => RefusalHolds
  BY DEF Init, RefusalHolds, Reading
<1>2. RefusalHolds /\ [Next]_vars => RefusalHolds'
  <2> SUFFICES ASSUME RefusalHolds, [Next]_vars PROVE RefusalHolds'
    OBVIOUS
  <2>1. ASSUME NEW b \in Browsers, Console(b) PROVE RefusalHolds'
    BY <2>1, ConsoleFrame DEF runner, RefusalHolds
  <2>2. CASE ReadManualHosts
    <3>1. ConfigApexes \subseteq scope
      BY <2>2 DEF ReadManualHosts, RefusalHolds, Reading
    <3>2. \A t \in ConfigHosts : InScope(t[1], scope)
      BY <3>1, TargetsAssumption DEF ValidConfig, InScope, WithinApex
    <3>3. \A t \in EffectiveManualHosts(scope) : InScope(t[1], scope)
      BY <3>2 DEF EffectiveManualHosts
    <3> QED
      BY <2>2, <3>3 DEF ReadManualHosts, RefusalHolds, Reading
  <2>3. CASE ReadApexes
    BY <2>3 DEF ReadApexes, RefusalHolds, EffectiveApexes
  <2>4. CASE UNCHANGED vars
    BY <2>4 DEF vars, runner, RefusalHolds
  <2> QED
    BY <2>1, <2>2, <2>3, <2>4 DEF Next, StartScan, ScanStep, ScanFails, UpsertApex, ReadSettings,
       ReadCrtNameApexes, QueryCrtName, ReadZoneFile, UpsertHost, EndScan, RecordScan,
       RefusalHolds, Reading
<1>3. RefusalHolds => ManualNeverRefused
  BY DEF RefusalHolds, ManualNeverRefused
<1> QED
  BY <1>1, <1>2, <1>3, PTL DEF Spec

-----------------------------------------------------------------------------
(* Additions: a host still to be added was checked against an apex that was *)
(* registered, or its check is still to come.                              *)

CheckedFirst(calls, as) ==
  \A i \in DOMAIN calls : calls[i].call = "addHost" =>
    \/ InScope(calls[i].host[1], as)
    \/ \E j \in DOMAIN calls : /\ j < i /\ calls[j].call = "within"
                               /\ calls[j].host[1] = calls[i].host[1]

AddsHold ==
  /\ EffectiveApexes \subseteq ever
  /\ \A b \in Browsers : CheckedFirst(request[b].calls, ever)
  /\ \A t \in managedHosts : InScope(t[1], ever)

LEMMA CheckedFirstGrows ==
  ASSUME NEW calls, NEW as, NEW bs, as \subseteq bs, CheckedFirst(calls, as)
  PROVE  CheckedFirst(calls, bs)
BY InScopeGrows DEF CheckedFirst

\* What is left after a check that passed, or after any other call.
LEMMA CheckedFirstTail ==
  ASSUME NEW calls \in Seq(Calls), calls # <<>>, NEW as, CheckedFirst(calls, as),
         Head(calls).call = "within" => InScope(Head(calls).host[1], as)
  PROVE  CheckedFirst(Tail(calls), as)
<1>1. /\ Tail(calls) \in Seq(Calls) /\ Len(Tail(calls)) = Len(calls) - 1
      /\ \A i \in 1..Len(calls) - 1 : Tail(calls)[i] = calls[i + 1]
      /\ Head(calls) = calls[1] /\ Len(calls) \in Nat
  OBVIOUS
<1>2. DOMAIN Tail(calls) = 1..Len(calls) - 1 /\ DOMAIN calls = 1..Len(calls)
  BY <1>1
<1> SUFFICES ASSUME NEW i \in DOMAIN Tail(calls), Tail(calls)[i].call = "addHost",
                    ~InScope(Tail(calls)[i].host[1], as)
             PROVE  \E j \in DOMAIN Tail(calls) :
                      /\ j < i /\ Tail(calls)[j].call = "within"
                      /\ Tail(calls)[j].host[1] = Tail(calls)[i].host[1]
  BY DEF CheckedFirst
<1>3. i \in Nat /\ i + 1 \in DOMAIN calls /\ Tail(calls)[i] = calls[i + 1]
  BY <1>1, <1>2
<1>4. PICK j \in DOMAIN calls : /\ j < i + 1 /\ calls[j].call = "within"
                                 /\ calls[j].host[1] = calls[i + 1].host[1]
  BY <1>3 DEF CheckedFirst
<1>5. j # 1
  BY <1>1, <1>3, <1>4
<1>6. j - 1 \in DOMAIN Tail(calls) /\ j - 1 < i /\ Tail(calls)[j - 1] = calls[j]
  BY <1>1, <1>2, <1>3, <1>4, <1>5
<1> QED
  BY <1>3, <1>4, <1>6

\* A sequence of calls whose additions all come right after a check of the host.
LEMMA CheckedBefore ==
  ASSUME NEW calls, NEW as,
         \A i \in DOMAIN calls : calls[i].call = "addHost" =>
           \E j \in DOMAIN calls : /\ j < i /\ calls[j].call = "within"
                                  /\ calls[j].host[1] = calls[i].host[1]
  PROVE  CheckedFirst(calls, as)
BY DEF CheckedFirst

\* Every handler checks a host before it adds it.
LEMMA HandlersCheckFirst ==
  ASSUME NEW op \in OpKinds, NEW calls \in Handler(op), NEW as
  PROVE  CheckedFirst(calls, as)
<1>0. \A t : /\ Within(t).call = "within" /\ Within(t).host = t
             /\ AddHost(t).call = "addHost" /\ AddHost(t).host = t
             /\ Editable(t).call = "editable" /\ DeleteHost(t).call = "deleteHost"
  BY DEF Within, AddHost, Editable, DeleteHost
<1>1. CASE op = "addHost"
  <2>1. PICK t \in Targets : calls = <<Within(t), AddHost(t)>>
    BY <1>1 DEF Handler, ServeAddManualHost
  <2>2. DOMAIN calls = 1..2 /\ calls[1] = Within(t) /\ calls[2] = AddHost(t)
    BY <2>1
  <2>3. 1 \in DOMAIN calls /\ calls[1].call = "within" /\ calls[1].host[1] = calls[2].host[1]
    BY <1>0, <2>2
  <2>4. \A i \in DOMAIN calls : calls[i].call = "addHost" => i = 2
    BY <1>0, <2>2
  <2>5. 1 < 2
    OBVIOUS
  <2> QED
    BY <2>3, <2>4, <2>5, CheckedBefore, Zenon
<1>2. CASE op = "editHost"
  <2>1. PICK h \in Hostnames, old \in Ports, new \in Ports : calls = ServeEditManualHost(h, old, new)
    BY <1>2 DEF Handler
  <2>2. /\ DOMAIN calls = 1..4
        /\ calls[1] = Editable(<<h, old>>) /\ calls[2] = Within(<<h, new>>)
        /\ calls[3] = DeleteHost(<<h, old>>) /\ calls[4] = AddHost(<<h, new>>)
    BY <2>1 DEF ServeEditManualHost
  <2>3. 2 \in DOMAIN calls /\ calls[2].call = "within" /\ calls[2].host[1] = calls[4].host[1]
    BY <1>0, <2>2
  <2>4. \A i \in DOMAIN calls : calls[i].call = "addHost" => i = 4
    BY <1>0, <2>2
  <2>5. 2 < 4
    OBVIOUS
  <2> QED
    BY <2>3, <2>4, <2>5, CheckedBefore, Zenon
<1>3. CASE op = "addSelected"
  <2>1. PICK h \in Hostnames, i \in Hostnames : calls = ServeAddCrtNameSelected(h, i)
    BY <1>3 DEF Handler
  <2> DEFINE t == <<h, DefaultPort>>
             u == <<i, DefaultPort>>
  <2>2. calls = <<Within(t), AddHost(t)>> \o <<Within(u), AddHost(u)>>
    BY <2>1 DEF ServeAddCrtNameSelected, ServeAddManualHost
  <2>3. /\ DOMAIN calls = 1..4 /\ calls[1] = Within(t) /\ calls[2] = AddHost(t)
        /\ calls[3] = Within(u) /\ calls[4] = AddHost(u)
    BY <2>2
  <2> HIDE DEF t, u
  <2>4. /\ 1 \in DOMAIN calls /\ calls[1].call = "within" /\ calls[1].host[1] = calls[2].host[1]
        /\ 3 \in DOMAIN calls /\ calls[3].call = "within" /\ calls[3].host[1] = calls[4].host[1]
    BY <1>0, <2>3
  <2>5. \A k \in DOMAIN calls : calls[k].call = "addHost" => k = 2 \/ k = 4
    BY <1>0, <2>3
  <2>6. 1 < 2 /\ 3 < 4
    OBVIOUS
  <2> QED
    BY <2>4, <2>5, <2>6, CheckedBefore, Zenon
<1>4. CASE op \notin {"addHost", "editHost", "addSelected"}
  <2>1. \A i \in DOMAIN calls : calls[i].call # "addHost"
    <3>1. CASE op \in {"addApex", "deleteApex", "deleteHost"}
      BY <3>1 DEF Handler, ServeAddApex, ServeDeleteApex, ServeDeleteManualHost, DeleteHost
    <3>2. CASE op \in {"saveApexCrtName", "saveCrtName"}
      BY <3>2 DEF Handler, ServeSaveApexCrtName, ServeSaveCrtName, Registered
    <3>3. CASE op \in {"addZone", "deleteZone"}
      BY <3>3 DEF Handler, ServeAddZoneFile, ServeDeleteZoneFile
    <3> QED
      BY <1>4, <3>1, <3>2, <3>3 DEF OpKinds
  <2> QED
    BY <2>1 DEF CheckedFirst
<1> QED
  BY <1>1, <1>2, <1>3, <1>4

LEMMA AddsStep == TypeOK /\ AddsHold /\ [Next]_vars => AddsHold'
<1> SUFFICES ASSUME TypeOK, AddsHold, [Next]_vars PROVE AddsHold'
  OBVIOUS
<1>1. CASE UNCHANGED vars
  BY <1>1 DEF AddsHold, vars, managed, console, history, EffectiveApexes, InScope, CheckedFirst
<1>2. ASSUME Observe,
             \A b \in Browsers : CheckedFirst(request'[b].calls, ever),
             \A t \in managedHosts' : InScope(t[1], ever)
      PROVE  AddsHold'
  <2>1. ever \subseteq ever' /\ EffectiveApexes' \subseteq ever'
    BY <1>2, HistoryGrows
  <2>2. \A b \in Browsers : CheckedFirst(request'[b].calls, ever')
    BY <1>2, <2>1, CheckedFirstGrows
  <2>3. \A t \in managedHosts' : InScope(t[1], ever')
    BY <1>2, <2>1, InScopeGrows
  <2> QED
    BY <2>1, <2>2, <2>3 DEF AddsHold, CheckedFirst, InScope, WithinApex
<1>3. CASE StartScan \/ ScanStep \/ ScanFails
  BY <1>2, <1>3, ScanFrame DEF managed, console, AddsHold
<1>4. ASSUME NEW b \in Browsers, Submit(b) PROVE AddsHold'
  <2>1. PICK op \in Ops : \E calls \in Handler(op) :
          request' = [request EXCEPT ![b] = [op |-> op, calls |-> calls]]
    BY <1>4 DEF Submit
  <2>2. PICK calls \in Handler(op) :
          request' = [request EXCEPT ![b] = [op |-> op, calls |-> calls]]
    BY <2>1
  <2>3. op \in OpKinds
    BY TargetsAssumption
  <2>4. \A c \in Browsers : CheckedFirst(request'[c].calls, ever)
    BY <2>2, <2>3, HandlersCheckFirst DEF AddsHold, TypeOK
  <2> QED
    BY <1>2, <1>4, <2>4 DEF Submit, managed, AddsHold
<1>5. ASSUME NEW b \in Browsers, request[b].calls # <<>>,
             EndRequest(b) \/ (/\ GoOn(b)
                               /\ Calling(b, "within") => InScope(Call(b).host[1], ever))
      PROVE  \A c \in Browsers : CheckedFirst(request'[c].calls, ever)
  <2>1. CheckedFirst(<<>>, ever)
    BY DEF CheckedFirst
  <2>2. CASE EndRequest(b)
    BY <2>1, <2>2 DEF EndRequest, NoRequest, AddsHold, TypeOK
  <2>3. CASE /\ request' = [request EXCEPT ![b].calls = Tail(@)]
             /\ Calling(b, "within") => InScope(Call(b).host[1], ever)
    <3>1. request[b].calls \in Seq(Calls)
      BY DEF TypeOK
    <3>2. CheckedFirst(Tail(request[b].calls), ever)
      BY <1>5, <2>3, <3>1, CheckedFirstTail DEF AddsHold, Calling, Call
    <3> QED
      BY <2>3, <3>2 DEF AddsHold, TypeOK
  <2> QED
    BY <1>5, <2>2, <2>3 DEF GoOn
<1>6. ASSUME NEW b \in Browsers, Check(b) PROVE AddsHold'
  <2>1. Calling(b, "within") /\ GoOn(b) /\ ~EndRequest(b) => InScope(Call(b).host[1], ever)
    <3> SUFFICES ASSUME Calling(b, "within"), GoOn(b), ~EndRequest(b)
                 PROVE  InScope(Call(b).host[1], ever)
      OBVIOUS
    <3>1. Passes(Call(b)) /\ Call(b).call = "within"
      BY <1>6 DEF Check, Calling, Call
    <3>2. InScope(Call(b).host[1], EffectiveApexes)
      BY <3>1 DEF Passes
    <3> QED
      BY <3>2, InScopeGrows DEF AddsHold
  <2>2. \A c \in Browsers : CheckedFirst(request'[c].calls, ever)
    BY <1>5, <1>6, <2>1 DEF Check, Calling
  <2> QED
    BY <1>2, <1>6, <2>2 DEF Check, managed, AddsHold
<1>7. ASSUME NEW b \in Browsers, Console(b), ~Submit(b), ~Check(b) PROVE AddsHold'
  <2>1. request[b].calls # <<>> /\ (EndRequest(b) \/ GoOn(b)) /\ Observe
    BY <1>7 DEF Console, CallFails, AddManagedApex, DeleteManagedApex,
       SaveManagedApexCrtName, AddManagedManualHost, DeleteManagedManualHost,
       SaveManagedCrtName, AddManagedZoneFile, DeleteManagedZoneFile, Calling
  <2>2. GoOn(b) /\ ~EndRequest(b) => ~Calling(b, "within")
    BY <1>7 DEF Console, CallFails, AddManagedApex, DeleteManagedApex,
       SaveManagedApexCrtName, AddManagedManualHost, DeleteManagedManualHost,
       SaveManagedCrtName, AddManagedZoneFile, DeleteManagedZoneFile, Calling
  <2>3. \A c \in Browsers : CheckedFirst(request'[c].calls, ever)
    BY <1>5, <2>1, <2>2
  <2>4. CASE AddManagedManualHost(b)
    <3>1. /\ Calling(b, "addHost") /\ managedHosts' = managedHosts \cup {Call(b).host}
          /\ request[b].calls \in Seq(Calls)
      BY <2>4 DEF AddManagedManualHost, TypeOK
    <3>2. request[b].calls[1].call = "addHost" /\ Call(b) = request[b].calls[1]
          /\ 1 \in DOMAIN request[b].calls /\ \A j \in DOMAIN request[b].calls : ~(j < 1)
      BY <2>1, <3>1 DEF Calling, Call
    <3>3. InScope(Call(b).host[1], ever)
      BY <3>2 DEF AddsHold, CheckedFirst
    <3> QED
      BY <1>2, <2>1, <2>3, <3>1, <3>3 DEF AddsHold
  <2>5. CASE ~AddManagedManualHost(b)
    <3>1. managedHosts' \subseteq managedHosts
      BY <1>7, <2>5 DEF Console, CallFails, AddManagedApex, DeleteManagedApex,
         SaveManagedApexCrtName, DeleteManagedManualHost,
         SaveManagedCrtName, AddManagedZoneFile, DeleteManagedZoneFile, managed
    <3> QED
      BY <1>2, <2>1, <2>3, <3>1 DEF AddsHold
  <2> QED
    BY <2>4, <2>5
<1> QED
  BY <1>1, <1>3, <1>4, <1>6, <1>7 DEF Next

\* No form puts a host into the table whose apex was never registered.
THEOREM AdditionsAreChecked == Spec => []AddedWithinApex
<1>1. Init => AddsHold
  BY DEF Init, AddsHold, NoRequest, CheckedFirst
<1>2. AddsHold => AddedWithinApex
  BY DEF AddsHold, AddedWithinApex
<1> QED
  BY <1>1, <1>2, AddsStep, TargetsTyping, PTL DEF Spec

-----------------------------------------------------------------------------
(* Edits: between its two writes an edit owes the row it deleted.          *)

\* What is left of an edit.
EditLeft(calls) ==
  \E h \in Hostnames, old \in Ports, new \in Ports :
    \/ calls = ServeEditManualHost(h, old, new)
    \/ calls = <<Within(<<h, new>>), DeleteHost(<<h, old>>), AddHost(<<h, new>>)>>
    \/ calls = <<DeleteHost(<<h, old>>), AddHost(<<h, new>>)>>
    \/ calls = <<AddHost(<<h, new>>)>>

NoDelete(calls) == \A i \in DOMAIN calls : calls[i].call # "deleteHost"

ShapesHold ==
  \A b \in Browsers :
    /\ request[b].op = "editHost" => EditLeft(request[b].calls)
    /\ request[b].op \notin {"editHost", "deleteHost"} => NoDelete(request[b].calls)

Restoring(b, h) ==
  request[b].op = "editHost" /\ \E p \in Ports : request[b].calls = <<AddHost(<<h, p>>)>>

HostsKept == \A h \in owed : Registers(h) \/ \E b \in Browsers : Restoring(b, h)

\* The first call of what is left of an edit, and what is left after it.
LEMMA EditSteps ==
  ASSUME NEW calls, EditLeft(calls)
  PROVE  \E h \in Hostnames, old \in Ports, new \in Ports :
           \/ Head(calls) = Editable(<<h, old>>) /\ EditLeft(Tail(calls))
           \/ Head(calls) = Within(<<h, new>>) /\ EditLeft(Tail(calls))
           \/ /\ Head(calls) = DeleteHost(<<h, old>>) /\ Len(calls) = 2
              /\ Tail(calls) = <<AddHost(<<h, new>>)>> /\ EditLeft(Tail(calls))
           \/ Head(calls) = AddHost(<<h, new>>) /\ Len(calls) = 1
<1>1. PICK h \in Hostnames, old \in Ports, new \in Ports :
        \/ calls = ServeEditManualHost(h, old, new)
        \/ calls = <<Within(<<h, new>>), DeleteHost(<<h, old>>), AddHost(<<h, new>>)>>
        \/ calls = <<DeleteHost(<<h, old>>), AddHost(<<h, new>>)>>
        \/ calls = <<AddHost(<<h, new>>)>>
  BY DEF EditLeft
<1>2. CASE calls = ServeEditManualHost(h, old, new)
  <2>1. /\ Head(calls) = Editable(<<h, old>>)
        /\ Tail(calls) = <<Within(<<h, new>>), DeleteHost(<<h, old>>), AddHost(<<h, new>>)>>
    BY <1>2 DEF ServeEditManualHost
  <2> QED
    BY <2>1 DEF EditLeft
<1>3. CASE calls = <<Within(<<h, new>>), DeleteHost(<<h, old>>), AddHost(<<h, new>>)>>
  <2>1. /\ Head(calls) = Within(<<h, new>>)
        /\ Tail(calls) = <<DeleteHost(<<h, old>>), AddHost(<<h, new>>)>>
    BY <1>3
  <2> QED
    BY <2>1 DEF EditLeft
<1>4. CASE calls = <<DeleteHost(<<h, old>>), AddHost(<<h, new>>)>>
  <2>1. /\ Head(calls) = DeleteHost(<<h, old>>) /\ Len(calls) = 2
        /\ Tail(calls) = <<AddHost(<<h, new>>)>>
    BY <1>4
  <2> QED
    BY <2>1 DEF EditLeft
<1>5. CASE calls = <<AddHost(<<h, new>>)>>
  <2>1. Head(calls) = AddHost(<<h, new>>) /\ Len(calls) = 1
    BY <1>5
  <2> QED
    BY <2>1
<1> QED
  BY <1>1, <1>2, <1>3, <1>4, <1>5

\* A handler starts with the shape its calls keep.
LEMMA HandlersShaped ==
  ASSUME NEW op \in OpKinds, NEW calls \in Handler(op)
  PROVE  /\ op = "editHost" => EditLeft(calls)
         /\ op \notin {"editHost", "deleteHost"} => NoDelete(calls)
<1>1. CASE op = "editHost"
  BY <1>1 DEF Handler, EditLeft
<1>2. CASE op = "addApex"
  BY <1>2 DEF Handler, ServeAddApex, NoDelete
<1>3. CASE op = "deleteApex"
  BY <1>3 DEF Handler, ServeDeleteApex, NoDelete
<1>4. CASE op = "saveApexCrtName"
  BY <1>4 DEF Handler, ServeSaveApexCrtName, Registered, NoDelete
<1>5. CASE op = "addHost"
  BY <1>5 DEF Handler, ServeAddManualHost, Within, AddHost, NoDelete
<1>6. CASE op = "saveCrtName"
  BY <1>6 DEF Handler, ServeSaveCrtName, NoDelete
<1>7. CASE op = "addSelected"
  <2>1. PICK h \in Hostnames, i \in Hostnames : calls = ServeAddCrtNameSelected(h, i)
    BY <1>7 DEF Handler
  <2> DEFINE S == {Within(t) : t \in Targets} \cup {AddHost(t) : t \in Targets}
  <2>2. \A t \in Targets : ServeAddManualHost(t) \in Seq(S)
    BY DEF ServeAddManualHost
  <2>3. <<h, DefaultPort>> \in Targets /\ <<i, DefaultPort>> \in Targets
    BY TargetsAssumption DEF Targets
  <2>4. calls \in Seq(S)
    <3> HIDE DEF S
    <3> QED
      BY <2>1, <2>2, <2>3, ConcatProperties DEF ServeAddCrtNameSelected
  <2>5. \A c \in S : c.call # "deleteHost"
    BY DEF Within, AddHost
  <2> QED
    <3> HIDE DEF S
    <3> QED
      BY <1>7, <2>4, <2>5 DEF NoDelete
<1>8. CASE op = "addZone"
  BY <1>8 DEF Handler, ServeAddZoneFile, NoDelete
<1>9. CASE op = "deleteZone"
  BY <1>9 DEF Handler, ServeDeleteZoneFile, NoDelete
<1> QED
  BY <1>1, <1>2, <1>3, <1>4, <1>5, <1>6, <1>7, <1>8, <1>9 DEF OpKinds

\* Going on with a request, or ending it, keeps the shapes.
LEMMA ShapesKept ==
  ASSUME TypeOK, ShapesHold, NEW b \in Browsers, request[b].calls # <<>>,
         EndRequest(b) \/ GoOn(b)
  PROVE  ShapesHold'
<1>1. request[b].calls \in Seq(Calls)
  BY DEF TypeOK
<1>2. CASE EndRequest(b)
  BY <1>2 DEF EndRequest, NoRequest, ShapesHold, NoDelete, TypeOK
<1>3. CASE /\ request' = [request EXCEPT ![b].calls = Tail(@)]
           /\ Len(request[b].calls) # 1
  <2>1. request'[b].op = request[b].op /\ request'[b].calls = Tail(request[b].calls)
    BY <1>3 DEF TypeOK
  <2>2. \A c \in Browsers : c # b => request'[c] = request[c]
    BY <1>3 DEF TypeOK
  <2>3. request[b].op = "editHost" => EditLeft(Tail(request[b].calls))
    BY <1>3, EditSteps DEF ShapesHold
  <2>4. NoDelete(request[b].calls) => NoDelete(Tail(request[b].calls))
    BY <1>1 DEF NoDelete
  <2> QED
    BY <2>1, <2>2, <2>3, <2>4 DEF ShapesHold
<1> QED
  BY <1>2, <1>3 DEF GoOn

LEMMA ShapesStep == TypeOK /\ ShapesHold /\ [Next]_vars => ShapesHold'
<1> SUFFICES ASSUME TypeOK, ShapesHold, [Next]_vars PROVE ShapesHold'
  OBVIOUS
<1>1. CASE UNCHANGED request
  BY <1>1 DEF ShapesHold
<1>2. ASSUME NEW b \in Browsers, Submit(b) PROVE ShapesHold'
  <2>1. PICK op \in Ops : \E calls \in Handler(op) :
          request' = [request EXCEPT ![b] = [op |-> op, calls |-> calls]]
    BY <1>2 DEF Submit
  <2>2. PICK calls \in Handler(op) :
          request' = [request EXCEPT ![b] = [op |-> op, calls |-> calls]]
    BY <2>1
  <2>3. op \in OpKinds
    BY TargetsAssumption
  <2>4. /\ request'[b].op = op /\ request'[b].calls = calls
        /\ \A c \in Browsers : c # b => request'[c] = request[c]
    BY <2>2 DEF TypeOK
  <2> QED
    BY <2>3, <2>4, HandlersShaped DEF ShapesHold
<1>3. ASSUME NEW b \in Browsers, Console(b), ~Submit(b) PROVE ShapesHold'
  <2>1. request[b].calls # <<>> /\ (EndRequest(b) \/ GoOn(b))
    BY <1>3 DEF Console, Check, CallFails, AddManagedApex, DeleteManagedApex,
       SaveManagedApexCrtName, AddManagedManualHost, DeleteManagedManualHost,
       SaveManagedCrtName, AddManagedZoneFile, DeleteManagedZoneFile, Calling
  <2> QED
    BY <2>1, ShapesKept
<1>4. CASE StartScan \/ ScanStep \/ ScanFails
  BY <1>1, <1>4, ScanFrame DEF console
<1> QED
  BY <1>1, <1>2, <1>3, <1>4 DEF Next, vars, console

\* Between the calls of others an owed hostname stays registered or restored.
LEMMA KeptByOthers ==
  ASSUME TypeOK, HostsKept, UNCHANGED owed, managedHosts \subseteq managedHosts',
         NEW b \in Browsers, \A h \in Hostnames : ~Restoring(b, h),
         \A c \in Browsers : c # b => request'[c] = request[c]
  PROVE  HostsKept'
<1>1. owed \subseteq Hostnames
  BY DEF TypeOK
<1>2. \A h \in Hostnames : Registers(h) => Registers(h)'
  BY DEF Registers
<1>3. \A c \in Browsers, h \in Hostnames : Restoring(c, h) => Restoring(c, h)'
  BY DEF Restoring
<1> QED
  BY <1>1, <1>2, <1>3 DEF HostsKept

LEMMA KeptStep ==
  TypeOK /\ ShapesHold /\ HostsKept /\ [Next]_vars => HostsKept'
<1> SUFFICES ASSUME TypeOK, ShapesHold, HostsKept, [Next]_vars PROVE HostsKept'
  OBVIOUS
<1>1. CASE UNCHANGED <<request, owed, managedHosts>>
  BY <1>1 DEF HostsKept, Registers, Restoring
<1>2. \A b \in Browsers : EndRequest(b) \/ GoOn(b) =>
        \A c \in Browsers : c # b => request'[c] = request[c]
  BY DEF EndRequest, GoOn, TypeOK
<1>3. \A b \in Browsers, h \in Hostnames :
        Restoring(b, h) => Calling(b, "addHost") /\ request[b].op = "editHost"
  BY DEF Restoring, Calling, AddHost
<1>8. ASSUME NEW b \in Browsers, CallFails(b) PROVE HostsKept'
  <2>1. /\ UNCHANGED managedHosts /\ owed' \subseteq owed
        /\ \A c \in Browsers : c # b => request'[c] = request[c]
    BY <1>2, <1>8 DEF CallFails, managed
  <2>2. \A h \in owed', p \in Ports : ~(/\ request[b].op = "editHost"
                                       /\ request[b].calls = <<AddHost(<<h, p>>)>>)
    <3> SUFFICES ASSUME NEW h \in owed', NEW p \in Ports, request[b].op = "editHost",
                        request[b].calls = <<AddHost(<<h, p>>)>>
                 PROVE  FALSE
      OBVIOUS
    <3>1. Calling(b, "addHost") /\ Call(b).host[1] = h
      BY DEF Calling, Call, AddHost
    <3> QED
      BY <1>8, <3>1 DEF CallFails
  <2>3. \A c \in Browsers, h \in owed' : Restoring(c, h) => Restoring(c, h)'
    BY <2>1, <2>2 DEF Restoring
  <2> QED
    BY <2>1, <2>3 DEF HostsKept, Registers
<1>4. ASSUME NEW b \in Browsers, Console(b), ~AddManagedManualHost(b), ~DeleteManagedManualHost(b),
             ~CallFails(b)
      PROVE  HostsKept'
  <2>1. UNCHANGED <<owed, managedHosts>>
    BY <1>4 DEF Console, Submit, Check, AddManagedApex, DeleteManagedApex,
       SaveManagedApexCrtName, SaveManagedCrtName, AddManagedZoneFile, DeleteManagedZoneFile,
       managed
  <2>2. \A c \in Browsers : c # b => request'[c] = request[c]
    BY <1>2, <1>4 DEF Console, Submit, Check, AddManagedApex, DeleteManagedApex,
       SaveManagedApexCrtName, SaveManagedCrtName, AddManagedZoneFile, DeleteManagedZoneFile,
       TypeOK
  <2>3. ~Calling(b, "addHost")
    BY <1>4 DEF Console, Submit, Check, AddManagedApex, DeleteManagedApex,
       SaveManagedApexCrtName, SaveManagedCrtName, AddManagedZoneFile, DeleteManagedZoneFile,
       Calling, NoRequest
  <2> QED
    BY <1>3, <2>1, <2>2, <2>3, KeptByOthers
<1>5. ASSUME NEW b \in Browsers, AddManagedManualHost(b) PROVE HostsKept'
  <2>1. /\ managedHosts' = managedHosts \cup {Call(b).host}
        /\ owed' \subseteq owed \cup {Call(b).host[1]}
        /\ Calling(b, "addHost")
        /\ \A c \in Browsers : c # b => request'[c] = request[c]
    BY <1>2, <1>5 DEF AddManagedManualHost
  <2>2. Call(b).host \in Targets
    BY <2>1, NextCallTyped, CallArguments DEF TypeOK, RequestTyped, Calling, Call
  <2>3. PICK g \in Hostnames, p \in Ports : Call(b).host = <<g, p>>
    BY <2>2 DEF Targets
  <2>4. Registers(g)' /\ owed' \subseteq owed \cup {g}
    BY <2>1, <2>3 DEF Registers
  <2>5. \A h \in Hostnames : Registers(h) => Registers(h)'
    BY <2>1 DEF Registers
  <2>6. \A h \in Hostnames : Restoring(b, h) => h = g
    BY <2>3 DEF Restoring, Call, AddHost
  <2>7. \A c \in Browsers, h \in Hostnames : c # b /\ Restoring(c, h) => Restoring(c, h)'
    BY <2>1 DEF Restoring
  <2>8. owed \subseteq Hostnames
    BY DEF TypeOK
  <2> QED
    BY <2>4, <2>5, <2>6, <2>7, <2>8 DEF HostsKept
<1>6. ASSUME NEW b \in Browsers, DeleteManagedManualHost(b) PROVE HostsKept'
  <2>1. /\ managedHosts' = managedHosts \ {Call(b).host}
        /\ Calling(b, "deleteHost")
        /\ \A c \in Browsers : c # b => request'[c] = request[c]
        /\ request[b].calls \in Seq(Calls)
    BY <1>2, <1>6 DEF DeleteManagedManualHost, TypeOK
  <2>2. request[b].op \in {"editHost", "deleteHost"}
    BY <2>1 DEF ShapesHold, NoDelete, Calling
  <2>3. Call(b).host \in Targets
    BY <2>1, NextCallTyped, CallArguments DEF TypeOK, RequestTyped, Calling, Call
  <2>4. \A h \in Hostnames : h # Call(b).host[1] /\ Registers(h) => Registers(h)'
    BY <2>1, <2>3 DEF Registers, Targets
  <2>5. \A c \in Browsers, h \in Hostnames : c # b /\ Restoring(c, h) => Restoring(c, h)'
    BY <2>1 DEF Restoring
  <2>6. \A h \in Hostnames : ~Restoring(b, h)
    BY <1>3, <2>1 DEF Calling
  <2>7. owed \subseteq Hostnames
    BY DEF TypeOK
  <2>8. CASE request[b].op = "deleteHost"
    <3>1. owed' = owed \ {Call(b).host[1]}
      BY <1>6, <2>8 DEF DeleteManagedManualHost
    <3> QED
      BY <2>4, <2>5, <2>6, <2>7, <3>1 DEF HostsKept
  <2>9. CASE request[b].op = "editHost"
    <3>1. EditLeft(request[b].calls)
      BY <2>9 DEF ShapesHold
    <3>2. PICK h \in Hostnames, old \in Ports, new \in Ports :
            /\ Head(request[b].calls) = DeleteHost(<<h, old>>) /\ Len(request[b].calls) = 2
            /\ Tail(request[b].calls) = <<AddHost(<<h, new>>)>>
      <4>1. Head(request[b].calls).call = "deleteHost"
        BY <2>1 DEF Calling
      <4>2. \A t : /\ Editable(t).call # "deleteHost" /\ Within(t).call # "deleteHost"
                   /\ AddHost(t).call # "deleteHost"
        BY DEF Editable, Within, AddHost
      <4>3. PICK h \in Hostnames, old \in Ports, new \in Ports :
              \/ Head(request[b].calls) = Editable(<<h, old>>)
              \/ Head(request[b].calls) = Within(<<h, new>>)
              \/ /\ Head(request[b].calls) = DeleteHost(<<h, old>>)
                 /\ Len(request[b].calls) = 2
                 /\ Tail(request[b].calls) = <<AddHost(<<h, new>>)>>
              \/ Head(request[b].calls) = AddHost(<<h, new>>)
        BY <3>1, EditSteps
      <4> QED
        BY <4>1, <4>2, <4>3
    <3>3. request' = [request EXCEPT ![b].calls = Tail(@)]
      BY <1>6, <3>2 DEF DeleteManagedManualHost, GoOn
    <3>4. Call(b).host[1] = h
      BY <3>2 DEF Call, DeleteHost
    <3>5. Restoring(b, h)'
      BY <2>9, <3>2, <3>3 DEF Restoring, TypeOK
    <3>6. UNCHANGED owed
      BY <1>6, <2>9 DEF DeleteManagedManualHost
    <3> QED
      BY <2>4, <2>5, <2>6, <2>7, <3>4, <3>5, <3>6 DEF HostsKept
  <2> QED
    BY <2>2, <2>8, <2>9
<1>7. CASE StartScan \/ ScanStep \/ ScanFails
  BY <1>1, <1>7, ScanFrame DEF console, managed
<1> QED
  BY <1>1, <1>4, <1>5, <1>6, <1>7, <1>8 DEF Next, vars, console, managed

\* An edit that ends without an error never loses a host, however requests
\* interleave and whichever calls fail.
THEOREM EditsLoseNoHost == Spec => []EditsKeepHosts
<1>1. Init => ShapesHold /\ HostsKept
  <2> SUFFICES ASSUME Init PROVE ShapesHold /\ HostsKept
    OBVIOUS
  <2>1. ShapesHold
    BY DEF Init, NoRequest, ShapesHold, NoDelete
  <2> QED
    BY <2>1 DEF Init, HostsKept
<1>2. HostsKept => EditsKeepHosts
  BY DEF HostsKept, EditsKeepHosts, Restoring, NoRequest
<1>3. TypeOK /\ ShapesHold /\ HostsKept /\ [Next]_vars => ShapesHold' /\ HostsKept'
  BY ShapesStep, KeptStep
<1> QED
  BY <1>1, <1>2, <1>3, TargetsTyping, PTL DEF Spec
=============================================================================
