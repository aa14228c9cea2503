---------------------------- MODULE ViewsProofs -----------------------------
(***************************************************************************)
(* Proofs about what an operator is shown, for any number of workers,      *)
(* hosts, certificates and events and all faults. Only the reachable flag  *)
(* needs that no second process scans into the database.                   *)
(***************************************************************************)
EXTENDS Views, ScanInventoryProofs

\* Module Views watches Scan and changes nothing of it.
LEMMA ViewsWatch == ViewsSpec => Spec
<1>1. ViewsInit => Init
  BY DEF ViewsInit
<1>2. [ViewsNext]_<<vars, views>> => [Next]_vars
  BY DEF ViewsNext, OpenPage, ReadEvents, ReadSuppressed
<1> QED
  BY <1>1, <1>2, PTL DEF ViewsSpec, Spec

\* What is known of Scan in every state.
Known == TypeOK /\ ControlInv

LEMMA ViewsKnown == ViewsSpec => []Known
BY ViewsWatch, ScanTyping, ControlHolds, PTL DEF Known

-----------------------------------------------------------------------------
(* The page.                                                               *)

PageTyped ==
  /\ page \in [at: {"none", "events", "suppressed", "made"}, rows: SUBSET [host: Hosts,
                 status: {"unresolved", "active"}, cert: Certs \cup {NoCert},
                 state: States \cup {Unseen}],
               events: SUBSET Nat, suppressed: SUBSET Hosts]
  /\ steady \in [hosts: SUBSET Hosts, events: SUBSET Nat]

\* What the reads made so far have promised, while the page is not finished.
Promised ==
  /\ page.at \in {"events", "suppressed"} =>
       \A h \in steady.hosts : (\E row \in page.rows : row.host = h) <=> h \notin suppressed
  /\ page.at = "suppressed" => steady.events \subseteq page.events
  /\ page.at = "events" => steady.events \subseteq UnacknowledgedEvents(events)

PageInv == PageTyped /\ Promised /\ SteadyOnPage

\* Every stored host that is not suppressed has a row, and no other has.
LEMMA SnapshotHosts ==
  ASSUME TypeOK
  PROVE  LET rows == InventorySnapshot(hosts, links, states, certificates, suppressed)
         IN  /\ rows \subseteq [host: Hosts, status: {"unresolved", "active"},
                                cert: Certs \cup {NoCert}, state: States \cup {Unseen}]
             /\ \A h \in DOMAIN hosts : (\E row \in rows : row.host = h) <=> h \notin suppressed
<1> DEFINE own(h) == Joined(links, certificates, hosts[h].id)
           line(h, c) == [host |-> h, status |-> hosts[h].status, cert |-> c,
                          state |-> GetCertificateState(states, hosts[h].id, c)]
           rows == InventorySnapshot(hosts, links, states, certificates, suppressed)
<1>1. rows = UNION {{line(h, c) : c \in own(h)} : h \in DOMAIN hosts \ suppressed}
  BY DEF InventorySnapshot
<1>2. ASSUME NEW h \in DOMAIN hosts
      PROVE  own(h) # {} /\ own(h) \subseteq Certs \cup {NoCert}
  <2>1. LinkRows(links, hosts[h].id) \subseteq DOMAIN links
    BY DEF LinkRows
  <2>2. \A i \in DOMAIN links : links[i].cert \in Certs
    BY DEF TypeOK, LinkRow
  <2> QED
    BY <2>1, <2>2 DEF Joined
<1>3. ASSUME NEW h \in DOMAIN hosts, NEW c \in Certs \cup {NoCert}
      PROVE  line(h, c) \in [host: Hosts, status: {"unresolved", "active"},
                             cert: Certs \cup {NoCert}, state: States \cup {Unseen}]
  <2>1. hosts[h].status \in {"unresolved", "active"} /\ h \in Hosts
    BY DEF TypeOK, HostRow
  <2>2. GetCertificateState(states, hosts[h].id, c) \in States \cup {Unseen}
    BY DEF GetCertificateState, TypeOK
  <2> QED
    BY <2>1, <2>2
<1>4. \A row \in rows : \E h \in DOMAIN hosts \ suppressed, c \in Certs \cup {NoCert} :
        row = line(h, c)
  BY <1>1, <1>2
<1>5. \A h \in DOMAIN hosts \ suppressed : \E row \in rows : row.host = h
  <2> SUFFICES ASSUME NEW h \in DOMAIN hosts \ suppressed PROVE \E row \in rows : row.host = h
    OBVIOUS
  <2>1. PICK c \in own(h) : TRUE
    BY <1>2
  <2>2. line(h, c).host = h
    OBVIOUS
  <2> HIDE DEF rows, line, own
  <2>3. line(h, c) \in rows
    BY <1>1, <2>1
  <2> QED
    BY <2>2, <2>3
<1> HIDE DEF rows
<1>6. \A row \in rows : row.host \in DOMAIN hosts \ suppressed
  BY <1>4
<1>7. rows \subseteq [host: Hosts, status: {"unresolved", "active"},
                      cert: Certs \cup {NoCert}, state: States \cup {Unseen}]
  <2> SUFFICES ASSUME NEW row \in rows
               PROVE  row \in [host: Hosts, status: {"unresolved", "active"},
                               cert: Certs \cup {NoCert}, state: States \cup {Unseen}]
    OBVIOUS
  <2>1. PICK h \in DOMAIN hosts \ suppressed, c \in Certs \cup {NoCert} : row = line(h, c)
    BY <1>4
  <2> HIDE DEF line
  <2> QED
    BY <1>3, <2>1
<1> QED
  BY <1>5, <1>6, <1>7 DEF rows

LEMMA InitPage == ViewsInit => PageInv
BY DEF ViewsInit, NoPage, PageInv, PageTyped, Promised, SteadyOnPage

LEMMA PageStep == Known /\ PageInv /\ [ViewsNext]_<<vars, views>> => PageInv'
<1> SUFFICES ASSUME Known, PageInv, [ViewsNext]_<<vars, views>> PROVE PageInv'
  OBVIOUS
<1> USE DEF PageInv
<1>1. CASE UNCHANGED <<vars, views>>
  BY <1>1 DEF vars, views, tables, PageTyped, Promised, SteadyOnPage
<1>2. CASE Observe
  <2>1. CASE page.at = "made"
    <3>1. page' = page /\ steady' = steady
      BY <1>2, <2>1 DEF Observe
    <3> QED
      BY <2>1, <3>1 DEF PageTyped, Promised, SteadyOnPage
  <2>2. CASE page.at # "made"
    <3>1. steady' = [hosts  |-> {h \in steady.hosts \cap DOMAIN hosts' :
                                   h \in suppressed <=> h \in suppressed'},
                     events |-> steady.events \cap UnacknowledgedEvents(events')]
      BY <1>2, <2>2 DEF Observe
    <3>2. page' \in {page, NoPage} /\ NoPage.at = "none"
      BY <1>2 DEF Observe, NoPage
    <3>3. PageTyped'
      BY <3>1, <3>2 DEF PageTyped, NoPage
    <3>4. Promised'
      BY <3>1, <3>2 DEF Promised
    <3> QED
      BY <2>2, <3>2, <3>3, <3>4 DEF SteadyOnPage
  <2> QED
    BY <2>1, <2>2
<1>3. CASE OpenPage
  <2> DEFINE rows == InventorySnapshot(hosts, links, states, certificates, suppressed)
  <2>1. /\ page' = [at |-> "events", rows |-> rows, events |-> {}, suppressed |-> {}]
        /\ steady' = [hosts |-> DOMAIN hosts, events |-> UnacknowledgedEvents(events)]
        /\ UNCHANGED <<hosts, suppressed, events>>
    BY <1>3 DEF OpenPage, NoPage, vars, tables
  <2>2. /\ rows \subseteq [host: Hosts, status: {"unresolved", "active"},
                           cert: Certs \cup {NoCert}, state: States \cup {Unseen}]
        /\ \A h \in DOMAIN hosts : (\E row \in rows : row.host = h) <=> h \notin suppressed
    BY SnapshotHosts DEF Known
  <2> HIDE DEF rows
  <2>3. DOMAIN hosts \subseteq Hosts /\ UnacknowledgedEvents(events) \subseteq Nat
    BY DEF Known, TypeOK, UnacknowledgedEvents
  <2>4. PageTyped'
    BY <2>1, <2>2, <2>3 DEF PageTyped
  <2>5. Promised'
    BY <2>1, <2>2 DEF Promised
  <2> QED
    BY <2>1, <2>4, <2>5 DEF SteadyOnPage
<1>4. CASE ReadEvents
  <2>1. /\ page.at = "events"
        /\ page' = [page EXCEPT !.at = "suppressed", !.events = UnacknowledgedEvents(events)]
        /\ UNCHANGED <<steady, suppressed>>
    BY <1>4 DEF ReadEvents, vars, tables
  <2>2. UnacknowledgedEvents(events) \subseteq Nat
    BY DEF Known, TypeOK, UnacknowledgedEvents
  <2>3. page'.at = "suppressed" /\ page'.rows = page.rows
        /\ page'.events = UnacknowledgedEvents(events)
    BY <2>1 DEF PageTyped
  <2>4. PageTyped'
    BY <2>1, <2>2 DEF PageTyped
  <2> QED
    BY <2>1, <2>3, <2>4 DEF Promised, SteadyOnPage
<1>5. CASE ReadSuppressed
  <2>1. /\ page.at = "suppressed"
        /\ page' = [page EXCEPT !.at = "made", !.suppressed = suppressed]
        /\ UNCHANGED steady
    BY <1>5 DEF ReadSuppressed
  <2>2. page'.at = "made" /\ page'.rows = page.rows /\ page'.events = page.events
        /\ page'.suppressed = suppressed
    BY <2>1 DEF PageTyped
  <2>3. PageTyped'
    BY <2>1 DEF PageTyped, Known, TypeOK
  <2> QED
    BY <2>1, <2>2, <2>3 DEF Promised, SteadyOnPage
<1> QED
  BY <1>1, <1>2, <1>3, <1>4, <1>5 DEF ViewsNext

\* Whatever scans and other browsers do between the reads of a page, it shows every
\* host that stays as it is in exactly one of its lists, and every warn or alert
\* that stays unacknowledged.
THEOREM PagesAreComplete == ViewsSpec => []SteadyOnPage
<1>1. PageInv => SteadyOnPage
  BY DEF PageInv
<1> QED
  BY <1>1, InitPage, PageStep, ViewsKnown, PTL DEF ViewsSpec

-----------------------------------------------------------------------------
(* The success of a scan.                                                  *)

\* While a scan of serve goes on: what is not suppressed meanwhile has been handed
\* out or is in the queue.
Covering ==
  /\ phase[Server] # "idle" => spared \subseteq Hosts \ suppressed
  /\ phase[Server] = "scan" /\ ~cancelled[Server] => spared \subseteq tried \cup queue[Server]

SuccessInv == Covering /\ SuccessCoversHosts

\* What a step of Scan can do to the scan of serve: go on (perhaps told to stop),
\* start, get its hosts, or end.
LEMMA ScanSteps ==
  ASSUME Known, [Next]_vars
  PROVE  \/ /\ phase'[Server] = phase[Server]
            /\ cancelled'[Server] = cancelled[Server] \/ cancelled'[Server]
         \/ phase[Server] = "idle" /\ phase'[Server] = "start" /\ suppressed' = suppressed
         \/ /\ phase[Server] = "start" /\ phase'[Server] = "retry" /\ suppressed' = suppressed
         \/ /\ phase[Server] = "retry" /\ phase'[Server] = "scan"
            /\ ~cancelled[Server] /\ suppressed' = suppressed
            /\ queue'[Server] = Hosts \ suppressed
         \/ /\ phase[Server] # "idle" /\ phase'[Server] = "idle"
            /\ \/ stops' # stops
               \/ stops' = stops /\ phase[Server] \in {"start", "retry"}
               \/ stops' = stops /\ phase[Server] = "scan" /\ queue[Server] = {}
<1> USE DEF Known
<1>0. /\ Server \in Processes /\ stops \in Nat
      /\ phase \in [Processes -> {"idle", "start", "retry", "scan"}]
      /\ queue \in [Processes -> SUBSET Hosts]
      /\ cancelled \in [Processes -> BOOLEAN]
  BY ScanAssumption DEF TypeOK
<1> HIDE DEF Known
<1>1. CASE UNCHANGED <<phase, cancelled>>
  BY <1>1
<1>2. CASE UNCHANGED vars \/ Tick \/ (\E h \in Hosts : Replace(h)) \/ ConsoleNext
  BY <1>1, <1>2 DEF vars, Tick, Replace, runner, ConsoleNext, Suppress, Unsuppress,
                    SuppressNext, PurgeNext, OpenSuppressAll, OpenPurge, BulkFails, Acknowledge
<1>3. ASSUME NEW s \in Senders, NotifyNext(s) PROVE UNCHANGED <<phase, cancelled>>
  BY <1>3 DEF NotifyNext, Deliver, Refuse, LoseAnswer, MarkNotified, MarkFails, runner
<1>4. ASSUME NEW w \in Workers, WorkerNext(w) PROVE UNCHANGED <<phase, cancelled>>
  BY <1>3, <1>4 DEF WorkerNext, TakeHost, Resolve, Unresolved, Probe, UpsertCertificate, Link,
                    Evaluated, SetState, Record, GiveUp, runner, Senders
<1>5. ASSUME NEW p \in Processes, Cancel(p)
      PROVE  /\ phase'[Server] = phase[Server]
             /\ cancelled'[Server] = cancelled[Server] \/ cancelled'[Server]
  BY <1>0, <1>5 DEF Cancel
<1>6. ASSUME NEW p \in Processes, p # Server, RunnerNext(p) \/ Crash(p)
      PROVE  phase'[Server] = phase[Server] /\ cancelled'[Server] = cancelled[Server]
  BY <1>0, <1>6 DEF RunnerNext, StartScan, StartFails, ReadPending, RetryNext, Discover, DiscoverFails, EndScan,
                    StopFeeding, SkipHost, Crash, runner
<1>7. CASE Crash(Server)
  <2>1. /\ phase' = [phase EXCEPT ![Server] = "idle"] /\ phase[Server] # "idle"
        /\ stops' = stops + 1
    BY <1>7 DEF Crash
  <2>2. stops' # stops
    BY <1>0, <2>1
  <2> QED
    BY <1>0, <2>1, <2>2
<1>8. CASE StartScan(Server) \/ ReadPending(Server) \/ StartFails(Server)
  BY <1>0, <1>8 DEF StartScan, ReadPending, StartFails, tables
<1>9. CASE Discover(Server)
  BY <1>0, <1>9 DEF Discover, tables
<1>10. CASE DiscoverFails(Server) \/ EndScan(Server)
  BY <1>0, <1>10 DEF DiscoverFails, EndScan
<1>11. CASE RetryNext(Server) \/ StopFeeding(Server) \/ SkipHost(Server)
  BY <1>1, <1>11 DEF RetryNext, StopFeeding, SkipHost, runner
<1> QED
  BY <1>1, <1>2, <1>3, <1>4, <1>5, <1>6, <1>7, <1>8, <1>9, <1>10, <1>11
     DEF Next, RunnerNext, Senders

LEMMA InitSuccess == ViewsInit => SuccessInv
BY ScanAssumption DEF ViewsInit, Init, SuccessInv, Covering, SuccessCoversHosts, Collect

LEMMA SuccessStep == Known /\ SuccessInv /\ [ViewsNext]_<<vars, views>> => SuccessInv'
<1> SUFFICES ASSUME Known, SuccessInv, [ViewsNext]_<<vars, views>> PROVE SuccessInv'
  OBVIOUS
<1> USE DEF SuccessInv, Covering, SuccessCoversHosts, Collect
<1>1. CASE UNCHANGED <<phase, cancelled, queue, suppressed, success, tried, spared>>
  BY <1>1
<1>2. CASE UNCHANGED <<vars, views>> \/ OpenPage \/ ReadEvents \/ ReadSuppressed
  BY <1>1, <1>2 DEF OpenPage, ReadEvents, ReadSuppressed, vars, views, tables, runner
<1>3. CASE Next /\ Observe
  <2>0. suppressed \subseteq Hosts
    BY DEF Known, TypeOK
  <2>1. /\ tried' = IF Starts THEN {} ELSE tried \cup Handed
        /\ spared' = IF Starts THEN Hosts \ suppressed
                     ELSE IF phase[Server] = "idle" THEN spared ELSE spared \ suppressed'
        /\ RecordScan
    BY <1>3 DEF Observe
  <2>2. CASE phase[Server] = "idle" /\ phase'[Server] = "idle"
    BY <2>1, <2>2 DEF Starts, RecordScan, Dies
  <2>3. CASE phase[Server] = "idle" /\ phase'[Server] = "start" /\ suppressed' = suppressed
    BY <2>1, <2>3 DEF Starts
  <2>7. CASE phase[Server] = "start" /\ phase'[Server] = "retry" /\ suppressed' = suppressed
    BY <2>1, <2>7 DEF Starts, RecordScan, Dies
  <2>4. CASE /\ phase[Server] # "idle" /\ phase'[Server] = phase[Server]
             /\ cancelled'[Server] = cancelled[Server] \/ cancelled'[Server]
    BY <2>1, <2>4 DEF Starts, Handed
  <2>5. CASE /\ phase[Server] = "retry" /\ phase'[Server] = "scan"
             /\ ~cancelled[Server] /\ suppressed' = suppressed
             /\ queue'[Server] = Hosts \ suppressed
    BY <2>1, <2>5 DEF Starts
  <2>6. CASE /\ phase[Server] # "idle" /\ phase'[Server] = "idle"
             /\ \/ stops' # stops
                \/ stops' = stops /\ phase[Server] \in {"start", "retry"}
                \/ stops' = stops /\ phase[Server] = "scan" /\ queue[Server] = {}
    <3>1. ~Starts /\ spared' = spared \ suppressed' /\ tried \subseteq tried'
      BY <2>1, <2>6 DEF Starts
    <3>2. success' = "yes" => /\ phase[Server] = "scan" /\ ~cancelled[Server]
                              /\ queue[Server] = {}
      BY <2>1, <2>6 DEF RecordScan, Dies, Outcome
    <3> QED
      BY <2>6, <3>1, <3>2
  <2> QED
    BY <1>3, <2>2, <2>3, <2>4, <2>5, <2>6, <2>7, ScanSteps
<1> QED
  BY <1>2, <1>3 DEF ViewsNext

\* Whenever a signal, a crash or a suppression comes: the exporter is told of a
\* success only by a scan that handed out all the hosts it was to handle.
THEOREM SuccessIsHonest == ViewsSpec => []SuccessCoversHosts
<1>1. SuccessInv => SuccessCoversHosts
  BY DEF SuccessInv
<1> QED
  BY <1>1, InitSuccess, SuccessStep, ViewsKnown, PTL DEF ViewsSpec

-----------------------------------------------------------------------------
(* The reachable flag.                                                     *)

InResolve(w) == job[w].pc = "resolve"

\* What a step of Scan can do to lookups and to the hosts table: nothing, or
\* remove a host; begin a lookup; store that one succeeded; end one otherwise.
Untouched ==
  /\ \A w \in Workers : InResolve(w) \/ InResolve(w)' => job'[w] = job[w]
  /\ hosts' = hosts \/ \E h \in Hosts : hosts' = PurgedHosts(hosts, h)

Begins(w) ==
  /\ ~InResolve(w) /\ job'[w].pc = "resolve"
  /\ \A v \in Workers \ {w} : job'[v] = job[v]
  /\ \E id \in Ids : hosts' = UpsertHost(hosts, job'[w].host, id, "unresolved")

Succeeds(w) ==
  /\ InResolve(w) /\ job'[w].pc = "probe"
  /\ \A v \in Workers \ {w} : job'[v] = job[v]
  /\ hosts' = MarkHostResolved(hosts, job[w].host)

Breaks ==
  /\ hosts' = hosts
  /\ \A w \in Workers : InResolve(w)' => job'[w] = job[w]
  /\ \A w \in Workers : InResolve(w) => job'[w] \in {job[w], IdleJob}

LEMMA LookupSteps ==
  ASSUME Known, [Next]_vars
  PROVE  Untouched \/ Breaks \/ \E w \in Workers : Begins(w) \/ Succeeds(w)
<1> USE DEF InResolve, IdleJob
<1>0. /\ job \in [Workers -> Jobs]
      /\ \A w \in Workers : notify[w].event # 0 => job[w].pc = "notify"
      /\ \A j \in Jobs : j.pc = "resolve" => j.host \in Hosts
  BY CarriedTyped DEF Known, TypeOK, ControlInv, PhasesHold
<1>1. ASSUME NEW w \in Workers, NEW j, Proceed(w, j)
      PROVE  job'[w] = j /\ \A v \in Workers \ {w} : job'[v] = job[v]
  BY <1>0, <1>1 DEF Proceed
<1>2. CASE UNCHANGED <<hosts, job>>
  BY <1>2 DEF Untouched
<1>3. CASE UNCHANGED vars \/ Tick \/ (\E h \in Hosts : Replace(h))
  BY <1>2, <1>3 DEF vars, Tick, Replace, tables
<1>4. CASE ConsoleNext
  BY <1>4 DEF ConsoleNext, Suppress, Unsuppress, SuppressNext, PurgeNext, WorkOff, OpenSuppressAll, OpenPurge,
              BulkFails, Acknowledge, tables, Untouched
<1>5. ASSUME NEW s \in Senders, NotifyNext(s)
      PROVE  hosts' = hosts /\ \A w \in Workers : InResolve(w) \/ InResolve(w)' => job'[w] = job[w]
  <2>1. hosts' = hosts /\ (job' = job \/ (s \in Workers /\ job' = [job EXCEPT ![s] = IdleJob]))
    BY <1>5 DEF NotifyNext, Deliver, Refuse, LoseAnswer, MarkNotified, MarkFails, Return, tables
  <2>2. notify[s].event # 0
    BY <1>5 DEF NotifyNext, Deliver, Refuse, LoseAnswer, MarkNotified, MarkFails
  <2>3. s \in Workers => job[s].pc = "notify"
    BY <1>0, <2>2
  <2> QED
    BY <1>0, <2>1, <2>3
<1>6. ASSUME NEW p \in Processes, RunnerNext(p) \/ Cancel(p) PROVE UNCHANGED <<hosts, job>>
  BY <1>6 DEF RunnerNext, StartScan, StartFails, ReadPending, RetryNext, Discover, DiscoverFails, EndScan,
              StopFeeding, SkipHost, Cancel, tables
<1>7. ASSUME NEW p \in Processes, Crash(p) PROVE Breaks
  BY <1>7 DEF Crash, tables, Breaks
<1>8. ASSUME NEW w \in Workers, WorkerNext(w)
      PROVE  Untouched \/ Breaks \/ Begins(w) \/ Succeeds(w)
  <2>1. CASE TakeHost(w)
    <3>1. PICK h \in queue[ProcessOf[w]], id \in Ids :
            /\ hosts' = UpsertHost(hosts, h, id, "unresolved")
            /\ Proceed(w, [pc |-> "resolve", host |-> h, id |-> id, at |-> now])
      BY <2>1 DEF TakeHost, Ids
    <3>2. job[w].pc = "idle"
      BY <2>1 DEF TakeHost
    <3> QED
      BY <1>1, <3>1, <3>2 DEF Begins
  <2>2. CASE Resolve(w)
    <3>1. Proceed(w, [job[w] EXCEPT !.pc = "probe"]) /\ job[w].pc = "resolve"
          /\ hosts' = MarkHostResolved(hosts, job[w].host)
      BY <2>2 DEF Resolve
    <3>2. [job[w] EXCEPT !.pc = "probe"].pc = "probe"
      <4>1. job[w] \in [pc: {"resolve", "probe"}, host: Hosts, id: Ids, at: Nat]
        BY <1>0, <3>1, CarriedTyped
      <4> QED
        BY <4>1
    <3> QED
      BY <1>1, <3>1, <3>2 DEF Succeeds
  <2>3. CASE Unresolved(w) \/ GiveUp(w)
    <3>1. Proceed(w, IdleJob) /\ hosts' = hosts
      BY <2>3 DEF Unresolved, GiveUp, tables
    <3> QED
      BY <1>1, <3>1 DEF Breaks
  <2>4. CASE NotifyNext(w)
    BY <1>5, <2>4 DEF Untouched, Senders
  <2>5. CASE Probe(w) \/ UpsertCertificate(w) \/ Link(w) \/ Evaluated(w) \/ SetState(w) \/ Record(w)
    <3>1. hosts' = hosts /\ job[w].pc \in {"probe", "certificate", "link", "state", "save", "event"}
      BY <2>5 DEF Probe, UpsertCertificate, Link, Evaluated, SetState, Record, tables
    <3>2. PICK j : Proceed(w, j) /\ j.pc # "resolve"
      <4>1. \A x \in {"link", "state"} : job[w].pc \in {"certificate", "link"} =>
              [job[w] EXCEPT !.pc = x].pc = x
        BY <1>0, CarriedTyped
      <4>2. CASE Probe(w)
        BY <4>2 DEF Probe
      <4>3. CASE UpsertCertificate(w)
        BY <4>1, <4>3 DEF UpsertCertificate
      <4>4. CASE Link(w)
        BY <4>1, <4>4 DEF Link
      <4>5. CASE Evaluated(w)
        BY <4>5 DEF Evaluated
      <4>6. CASE SetState(w)
        <5>1. [job[w] EXCEPT !.pc = "event"].pc = "event"
          <6>1. job[w] \in Jobs /\ job[w].pc = "save"
            BY <1>0, <4>6 DEF SetState
          <6>2. job[w] \in [pc: {"save"}, host: Hosts, id: Ids, cert: Certs, state: States,
                            event: EventKinds \cup {NoEvent}]
            BY <6>1, CarriedTyped
          <6> QED
            BY <6>2
        <5>2. CASE Proceed(w, IdleJob)
          BY <5>2
        <5>3. CASE Proceed(w, [job[w] EXCEPT !.pc = "event"])
          BY <5>1, <5>3
        <5> QED
          BY <4>6, <5>2, <5>3 DEF SetState
      <4>7. CASE Record(w)
        BY <4>7 DEF Record
      <4> QED
        BY <2>5, <4>2, <4>3, <4>4, <4>5, <4>6, <4>7
    <3> QED
      BY <1>1, <3>1, <3>2 DEF Untouched
  <2> QED
    BY <1>8, <2>1, <2>2, <2>3, <2>4, <2>5 DEF WorkerNext
<1> QED
  BY <1>2, <1>3, <1>4, <1>5, <1>6, <1>7, <1>8 DEF Next, Untouched, Senders

LEMMA ReachableStep ==
  SingleProcess /\ Known /\ ReachableIsTrue /\ [ViewsNext]_<<vars, views>> => ReachableIsTrue'
<1> SUFFICES ASSUME SingleProcess, Known, ReachableIsTrue, [ViewsNext]_<<vars, views>>
             PROVE  ReachableIsTrue'
  OBVIOUS
<1>1. CASE UNCHANGED <<vars, views>> \/ OpenPage \/ ReadEvents \/ ReadSuppressed
  <2>1. UNCHANGED <<hosts, job, reached>>
    BY <1>1 DEF OpenPage, ReadEvents, ReadSuppressed, vars, views, tables
  <2> QED
    BY <2>1 DEF ReachableIsTrue, Collect, Reachable, InLookup
<1>2. CASE Next /\ Observe
  <2> DEFINE busy == {w \in Workers : InResolve(w)}
             in(w) == job[w].host
  <2>1. InLookup = {in(w) : w \in busy}
    BY DEF InLookup, InResolve
  <2>2. reached' = (reached \ Unanswered) \cup Answered
    BY <1>2 DEF Observe
  <2>3. /\ Answered = {in(w) : w \in {v \in busy : job'[v].pc = "probe"}}
        /\ Unanswered = {in(w) : w \in {v \in busy : job'[v] = IdleJob}}
    BY DEF Answered, Unanswered, InResolve
  <2>4. InLookup' = {job'[w].host : w \in {v \in Workers : job'[v].pc = "resolve"}}
    BY DEF InLookup
  <2>5. \A v, w \in busy : v # w => in(v) # in(w)
    <3>1. \A v, w \in Workers : ProcessOf[v] = ProcessOf[w]
      BY ScanAssumption DEF SingleProcess
    <3> QED
      BY <3>1 DEF Known, ControlInv, OneWorkerPerHost, InResolve, JobSteps
  <2>6. Reachable(hosts) = (DOMAIN hosts \cap reached) \ InLookup
    BY DEF ReachableIsTrue, Collect
  <2>7. CASE Untouched
    <3>1. Answered = {} /\ Unanswered = {} /\ InLookup' = InLookup
      BY <2>1, <2>3, <2>4, <2>7 DEF Untouched, InResolve, IdleJob
    <3>2. \/ hosts' = hosts
          \/ \E h \in Hosts : /\ DOMAIN hosts' = DOMAIN hosts \ {h}
                              /\ \A g \in DOMAIN hosts' : hosts'[g] = hosts[g]
      BY <2>7 DEF Untouched, PurgedHosts, Without
    <3>3. Reachable(hosts') = (DOMAIN hosts' \cap reached') \ InLookup'
      BY <2>2, <2>6, <3>1, <3>2 DEF Reachable
    <3> QED
      BY <3>3 DEF ReachableIsTrue, Collect, Reachable
  <2>8. CASE Breaks
    <3>1. Answered = {} /\ InLookup' = InLookup \ Unanswered
      BY <2>1, <2>3, <2>4, <2>5, <2>8 DEF Breaks, InResolve, IdleJob
    <3>2. Unanswered \subseteq InLookup
      BY <2>1, <2>3
    <3> QED
      BY <2>2, <2>6, <2>8, <3>1, <3>2 DEF Breaks, ReachableIsTrue, Collect, Reachable
  <2>9. ASSUME NEW w \in Workers, Begins(w) PROVE ReachableIsTrue'
    <3>1. /\ Answered = {} /\ Unanswered = {}
          /\ InLookup' = InLookup \cup {job'[w].host}
      BY <2>1, <2>3, <2>4, <2>9 DEF Begins, InResolve, IdleJob
    <3>2. /\ DOMAIN hosts' = DOMAIN hosts \cup {job'[w].host}
          /\ hosts'[job'[w].host].status = "unresolved"
          /\ \A g \in DOMAIN hosts \ {job'[w].host} : hosts'[g] = hosts[g]
      BY <2>9 DEF Begins, UpsertHost, Upserted
    <3> QED
      BY <2>2, <2>6, <3>1, <3>2 DEF ReachableIsTrue, Collect, Reachable
  <2>10. ASSUME NEW w \in Workers, Succeeds(w) PROVE ReachableIsTrue'
    <3>1. /\ Answered = {in(w)} /\ Unanswered = {}
          /\ InLookup' = InLookup \ {in(w)}
      BY <2>1, <2>3, <2>4, <2>5, <2>10 DEF Succeeds, InResolve, IdleJob
    <3>2. /\ DOMAIN hosts' = DOMAIN hosts
          /\ in(w) \in DOMAIN hosts => hosts'[in(w)].status = "active"
          /\ \A g \in DOMAIN hosts \ {in(w)} : hosts'[g] = hosts[g]
      BY <2>10 DEF Succeeds, MarkHostResolved, Known, TypeOK, HostRow
    <3> QED
      BY <2>2, <2>6, <3>1, <3>2 DEF ReachableIsTrue, Collect, Reachable
  <2> QED
    BY <1>2, <2>7, <2>8, <2>9, <2>10, LookupSteps
<1> QED
  BY <1>1, <1>2 DEF ViewsNext

LEMMA InitReachable == ViewsInit => ReachableIsTrue
BY DEF ViewsInit, Init, ReachableIsTrue, Collect, Reachable

\* As long as serve is the only process that scans, /metrics calls exactly those
\* hosts reachable whose last lookup succeeded, whatever was purged, failed or cut
\* short since.
THEOREM ReachableIsHonest == SingleProcess => (ViewsSpec => []ReachableIsTrue)
<1> SUFFICES ASSUME SingleProcess PROVE ViewsSpec => []ReachableIsTrue
  OBVIOUS
<1>1. Known /\ ReachableIsTrue /\ [ViewsNext]_<<vars, views>> => ReachableIsTrue'
  BY ReachableStep
<1> QED
  BY <1>1, InitReachable, ViewsKnown, PTL DEF ViewsSpec
=============================================================================
