--------------------------- MODULE ScanLedgerProofs --------------------------
(***************************************************************************)
(* Proofs about what the ledger of Scan says of the hosts: that suppressed *)
(* hosts are left alone and others not purged, that a renewal is one, that *)
(* a stored danger stays on record, that a certificate is discovered       *)
(* once, and when an event is sent once. The proofs follow a host through  *)
(* the worker that carries it, or an event through the call that sends it, *)
(* with whatever others do in between.                                     *)
(***************************************************************************)
EXTENDS ScanInventoryProofs

-----------------------------------------------------------------------------
(* The invariants.                                                         *)

\* The host was seen with another certificate that has an earlier end.
Outlived(seen, h, c) ==
  \E d \in Certs : <<h, d>> \in seen /\ d # c /\ NotAfter[d] < NotAfter[c]

\* What a worker compares with is a certificate of its host, so the renewal it
\* decides on is one, and stays one until it is recorded.
RenewalInv ==
  /\ \A w \in Workers :
       /\ job[w].pc \in {"certificate", "link", "state"} /\ job[w].previous # NoCert =>
            <<job[w].host, job[w].previous>> \in presented
       /\ job[w].pc \in {"save", "event"} /\ job[w].event = "renewed" =>
            Outlived(presented, job[w].host, job[w].cert)
  /\ RenewedMeansChanged

\* The state w is about to record an event for is the one it has stored.
Stored(w) ==
  /\ <<job[w].id, job[w].cert>> \in DOMAIN states
  /\ states[<<job[w].id, job[w].cert>>] = job[w].state

\* What a worker has decided on is an event of the state it found; it decides on
\* none only when there is no danger or the state is stored already.
VerdictsHold ==
  \A w \in Workers :
    /\ job[w].pc \in {"save", "event"} /\ job[w].event # NoEvent =>
         job[w].event \in {job[w].state, "discovered", "renewed"}
    /\ job[w].pc = "save" /\ job[w].event = NoEvent => job[w].state = "healthy" \/ Stored(w)
    /\ job[w].pc = "event" => Stored(w)

\* A record of discovery about the pair.
Discovery(e, id, c) ==
  e \in DOMAIN events /\ events[e].kind = "discovered" /\ events[e].id = id /\ events[e].cert = c

\* A discovery is decided on before the state is stored, and recorded after it.
DiscoveryInv ==
  /\ \A e \in DOMAIN events :
       events[e].kind = "discovered" => <<events[e].id, events[e].cert>> \in DOMAIN states
  /\ \A w \in Workers :
       /\ job[w].pc = "save" /\ job[w].event = "discovered" =>
            <<job[w].id, job[w].cert>> \notin DOMAIN states
       /\ job[w].pc = "event" /\ job[w].event = "discovered" =>
            /\ <<job[w].id, job[w].cert>> \in DOMAIN states
            /\ \A e \in DOMAIN events : ~Discovery(e, job[w].id, job[w].cert)
  /\ DiscoveredOnce

-----------------------------------------------------------------------------
(* Steps, seen from a worker and from the tables.                          *)

\* The steps that take w and its host further.
Advances(w) ==
  \/ TakeHost(w) \/ Resolve(w) \/ Probe(w) \/ UpsertCertificate(w) \/ Link(w)
  \/ Evaluated(w) \/ SetState(w) \/ Record(w)

\* The steps that end what w does: the name did not resolve, the notification is
\* over, a call failed, or the process crashed.
Stops(w) ==
  /\ job'[w] = IdleJob
  /\ \/ job[w].pc \in {"resolve", "notify"}
     \/ cancelled[ProcessOf[w]] \/ Faults \cap {"error", "crash"} # {}

LEMMA JobCases ==
  ASSUME TypeOK, ControlInv, [Next]_vars, NEW w \in Workers
  PROVE  job'[w] = job[w] \/ Advances(w) \/ Stops(w)
<1> USE DEF runner
<1>1. CASE UNCHANGED job
  BY <1>1
<1>2. CASE \E v \in Workers : WorkerNext(v) /\ ~NotifyNext(v)
  <2>1. PICK v \in Workers : WorkerNext(v) /\ ~NotifyNext(v)
    BY <1>2
  <2>2. CASE v # w
    <3>1. \E j : job' = [job EXCEPT ![v] = j]
      BY <2>1 DEF WorkerNext, TakeHost, Resolve, Unresolved, Probe, UpsertCertificate, Link,
                  Evaluated, SetState, Record, GiveUp, Proceed
    <3> QED
      BY <2>2, <3>1 DEF TypeOK
  <2>3. CASE v = w
    <3>1. CASE Unresolved(w) \/ GiveUp(w)
      BY <3>1 DEF Unresolved, GiveUp, Proceed, Stops, TypeOK
    <3> QED
      BY <2>1, <2>3, <3>1 DEF WorkerNext, Advances
  <2> QED
    BY <2>2, <2>3
<1>3. ASSUME NEW p \in Senders, NotifyNext(p) PROVE job'[w] = job[w] \/ Stops(w)
  <2>1. CASE UNCHANGED job
    BY <2>1
  <2>2. CASE Return(p) /\ notify[p].event # 0
    <3>1. job'[w] = job[w] \/ (w = p /\ job'[w] = IdleJob)
      BY <2>2 DEF Return, TypeOK
    <3> QED
      BY <2>2, <3>1 DEF Stops, ControlInv, PhasesHold
  <2> QED
    BY <1>3, <2>1, <2>2 DEF NotifyNext, Deliver, Refuse, LoseAnswer, MarkNotified, MarkFails
<1>4. ASSUME NEW p \in Processes, RunnerNext(p) \/ Cancel(p) PROVE UNCHANGED job
  BY <1>4 DEF RunnerNext, StartScan, StartFails, ReadPending, RetryNext, Discover, DiscoverFails, EndScan, StopFeeding,
              SkipHost, Cancel
<1>5. ASSUME NEW p \in Processes, Crash(p) PROVE job'[w] = job[w] \/ Stops(w)
  BY <1>5 DEF Crash, Stops
<1>6. CASE ConsoleNext
  BY <1>1, <1>6 DEF ConsoleNext, Suppress, Unsuppress, SuppressNext, PurgeNext, WorkOff, OpenSuppressAll, OpenPurge,
                    BulkFails, Acknowledge
<1>7. CASE UNCHANGED vars \/ Tick \/ \E h \in Hosts : Replace(h)
  BY <1>1, <1>7 DEF vars, Tick, Replace
<1> QED
  BY <1>1, <1>2, <1>3, <1>4, <1>5, <1>6, <1>7 DEF Next, Senders

\* States are stored by SetState and removed by a purge.
LEMMA StatesCases ==
  ASSUME [Next]_vars
  PROVE  \/ UNCHANGED states
         \/ \E w \in Workers : SetState(w)
         \/ /\ \E b \in Browsers : bulk[b].op = "purge"
            /\ PurgeDuringScan \/ Scanning = {}
            /\ DOMAIN states' \subseteq DOMAIN states
            /\ \A k \in DOMAIN states' : states'[k] = states[k]
<1> USE DEF tables
<1>1. ASSUME NEW p \in Senders, NotifyNext(p) PROVE UNCHANGED states
  BY <1>1 DEF NotifyNext, Deliver, Refuse, LoseAnswer, MarkNotified, MarkFails
<1>2. ASSUME NEW p \in Processes, RunnerNext(p) \/ Cancel(p) \/ Crash(p) PROVE UNCHANGED states
  BY <1>2 DEF RunnerNext, StartScan, StartFails, ReadPending, RetryNext, Discover, DiscoverFails, EndScan, StopFeeding,
              SkipHost, Cancel, Crash
<1>3. ASSUME NEW w \in Workers, WorkerNext(w) PROVE UNCHANGED states \/ SetState(w)
  <2>1. CASE NotifyNext(w)
    BY <1>1, <2>1 DEF Senders
  <2> QED
    BY <1>3, <2>1 DEF WorkerNext, TakeHost, Resolve, Unresolved, Probe, UpsertCertificate, Link,
                      Evaluated, Record, GiveUp
<1>4. ASSUME NEW b \in Browsers, NEW h \in Hosts, PurgeNext(b, h)
      PROVE  /\ bulk[b].op = "purge" /\ (PurgeDuringScan \/ Scanning = {})
             /\ DOMAIN states' \subseteq DOMAIN states
             /\ \A k \in DOMAIN states' : states'[k] = states[k]
  BY <1>4 DEF PurgeNext, PurgedStates, Without
<1>5. ASSUME NEW h \in Hosts, NEW b \in Browsers,
             Suppress(h) \/ Unsuppress(h) \/ SuppressNext(b, h)
      PROVE  UNCHANGED states
  BY <1>5 DEF Suppress, Unsuppress, SuppressNext
<1>8. ASSUME NEW h \in Hosts, Suppress(h) \/ Unsuppress(h) PROVE UNCHANGED states
  BY <1>8 DEF Suppress, Unsuppress
<1>6. CASE ConsoleNext
  BY <1>4, <1>5, <1>6, <1>8 DEF ConsoleNext, OpenSuppressAll, OpenPurge, BulkFails, Acknowledge
<1>7. CASE UNCHANGED vars \/ Tick \/ \E h \in Hosts : Replace(h)
  BY <1>7 DEF vars, Tick, Replace
<1> QED
  BY <1>1, <1>2, <1>3, <1>6, <1>7 DEF Next, Senders

\* Only Record writes what is remembered of the ledger.
LEMMA SubjectCases ==
  ASSUME [Next]_vars, \A w \in Workers : ~Record(w) PROVE UNCHANGED <<subject, stateAt>>
<1> USE DEF history, inboxes
<1>1. ASSUME NEW p \in Senders, NotifyNext(p) PROVE UNCHANGED <<subject, stateAt>>
  BY <1>1 DEF NotifyNext, Deliver, Refuse, LoseAnswer, MarkNotified, MarkFails, Receive
<1>2. ASSUME NEW p \in Processes, RunnerNext(p) \/ Cancel(p) \/ Crash(p) PROVE UNCHANGED <<subject, stateAt>>
  BY <1>2 DEF RunnerNext, StartScan, StartFails, ReadPending, RetryNext, Discover, DiscoverFails, EndScan, StopFeeding,
              SkipHost, Cancel, Crash
<1>3. ASSUME NEW w \in Workers, WorkerNext(w) PROVE UNCHANGED <<subject, stateAt>>
  <2>1. CASE NotifyNext(w)
    BY <1>1, <2>1 DEF Senders
  <2> QED
    BY <1>3, <2>1 DEF WorkerNext, TakeHost, Resolve, Unresolved, Probe, UpsertCertificate, Link,
                      Evaluated, SetState, GiveUp
<1>4. CASE ConsoleNext
  BY <1>4 DEF ConsoleNext, Suppress, Unsuppress, SuppressNext, PurgeNext, WorkOff, OpenSuppressAll, OpenPurge,
              BulkFails, Acknowledge
<1>5. CASE UNCHANGED vars \/ Tick \/ \E h \in Hosts : Replace(h)
  BY <1>5 DEF vars, Tick, Replace
<1> QED
  BY <1>1, <1>2, <1>3, <1>4, <1>5 DEF Next, Senders

\* A new record is made by the worker that carries the host it is about.
LEMMA RecordCases ==
  ASSUME TypeOK, [Next]_vars
  PROVE  \/ /\ DOMAIN events' = DOMAIN events /\ UNCHANGED <<subject, stateAt>>
            /\ \A w \in Workers : ~Record(w)
         \/ \E w \in Workers, n \in Nat :
              /\ Record(w) /\ n \notin DOMAIN events /\ DOMAIN events' = DOMAIN events \cup {n}
              /\ events'[n].kind = job[w].event /\ events'[n].cert = job[w].cert
              /\ events'[n].id = job[w].id /\ subject'[n] = job[w].host
              /\ stateAt'[n] = job[w].state
              /\ \A e \in DOMAIN events : /\ e < n /\ subject'[e] = subject[e]
                                          /\ stateAt'[e] = stateAt[e]
              /\ job'[w].pc = "notify" /\ \A v \in Workers \ {w} : job'[v] = job[v]
<1>0. /\ events \in Seq(EventRow) /\ subject \in Seq(Hosts) /\ Len(subject) = Len(events)
      /\ stateAt \in Seq(States) /\ Len(stateAt) = Len(events)
  BY DEF TypeOK
<1>1. ASSUME NEW w \in Workers, Record(w)
      PROVE  LET n == Len(events) + 1
             IN  /\ n \in Nat /\ n \notin DOMAIN events /\ DOMAIN events' = DOMAIN events \cup {n}
                 /\ events'[n].kind = job[w].event /\ events'[n].cert = job[w].cert
                 /\ events'[n].id = job[w].id /\ subject'[n] = job[w].host
                 /\ stateAt'[n] = job[w].state
                 /\ \A e \in DOMAIN events : /\ e < n /\ subject'[e] = subject[e]
                                             /\ stateAt'[e] = stateAt[e]
                 /\ job'[w].pc = "notify" /\ \A v \in Workers \ {w} : job'[v] = job[v]
  <2>1. job[w] \in [pc: {"event"}, host: Hosts, id: Ids, cert: Certs, state: States,
               event: EventKinds]
    BY <1>1, CarriedTyped DEF Record, TypeOK
  <2> DEFINE row == [kind |-> job[w].event, cert |-> job[w].cert, id |-> job[w].id,
                     notified |-> FALSE, acked |-> FALSE]
  <2>2. row \in EventRow /\ row.kind = job[w].event /\ row.cert = job[w].cert
        /\ row.id = job[w].id /\ job[w].host \in Hosts /\ job[w].state \in States
    BY <2>1 DEF EventRow
  <2>3. /\ events' = Append(events, row) /\ subject' = Append(subject, job[w].host)
        /\ stateAt' = Append(stateAt, job[w].state)
    BY <1>1 DEF Record, RecordEvent
  <2> HIDE DEF row
  <2>4. job'[w].pc = "notify" /\ \A v \in Workers \ {w} : job'[v] = job[v]
    BY <1>1 DEF Record, Proceed, TypeOK
  <2> QED
    BY <1>0, <2>2, <2>3, <2>4
<1>2. CASE \A w \in Workers : ~Record(w)
  <2>1. UNCHANGED <<subject, stateAt>>
    BY <1>2, SubjectCases
  <2>2. DOMAIN events' = DOMAIN events
    BY <1>0, <2>1, TypeStep DEF TypeOK
  <2> QED
    BY <1>2, <2>1, <2>2
<1> QED
  BY <1>1, <1>2

-----------------------------------------------------------------------------
(* Renewals.                                                               *)

LEMMA PresentedGrows ==
  ASSUME [Next]_vars PROVE presented \subseteq presented'
<1> USE DEF history, inboxes
<1>1. ASSUME NEW p \in Senders, NotifyNext(p) PROVE UNCHANGED presented
  BY <1>1 DEF NotifyNext, Deliver, Refuse, LoseAnswer, MarkNotified, MarkFails, Receive
<1>2. ASSUME NEW p \in Processes, RunnerNext(p) \/ Cancel(p) \/ Crash(p)
      PROVE  UNCHANGED presented
  BY <1>2 DEF RunnerNext, StartScan, StartFails, ReadPending, RetryNext, Discover, DiscoverFails, EndScan, StopFeeding,
              SkipHost, Cancel, Crash
<1>3. ASSUME NEW w \in Workers, WorkerNext(w) PROVE presented \subseteq presented'
  <2>1. CASE NotifyNext(w)
    BY <1>1, <2>1 DEF Senders
  <2>2. CASE Probe(w)
    BY <2>2 DEF Probe
  <2> QED
    BY <1>3, <2>1, <2>2 DEF WorkerNext, TakeHost, Resolve, Unresolved, UpsertCertificate, Link,
                            Evaluated, SetState, Record, GiveUp
<1>4. CASE ConsoleNext
  BY <1>4 DEF ConsoleNext, Suppress, Unsuppress, SuppressNext, PurgeNext, WorkOff, OpenSuppressAll, OpenPurge,
              BulkFails, Acknowledge
<1>5. CASE UNCHANGED vars \/ Tick \/ \E h \in Hosts : Replace(h)
  BY <1>5 DEF vars, Tick, Replace
<1> QED
  BY <1>1, <1>2, <1>3, <1>4, <1>5 DEF Next, Senders

\* What the renewal rule decides at "state" is decided on what the worker read.
LEMMA VerdictCarried ==
  ASSUME TypeOK, NEW w \in Workers, Evaluated(w)
  PROVE  /\ job[w].pc = "state" /\ job'[w].pc = "save" /\ UNCHANGED <<states, events>>
         /\ job'[w].host = job[w].host /\ job'[w].id = job[w].id /\ job'[w].cert = job[w].cert
         /\ job'[w].event = "renewed" => Renews(job[w].previous, job[w].cert)
         /\ job'[w].event = NoEvent =>
              \/ job'[w].state = "healthy"
              \/ job'[w].state = GetCertificateState(states, job[w].id, job[w].cert)
         /\ job'[w].event # NoEvent =>
              job'[w].event \in {job'[w].state, "discovered", "renewed"}
         /\ job'[w].state \in States
         /\ job'[w].event = "discovered" =>
              GetCertificateState(states, job[w].id, job[w].cert) = Unseen
<1> DEFINE s == StateOf(Metadata(job[w].cert, job[w].chain), job[w].at)
           r == Renews(job[w].previous, job[w].cert)
           u == GetCertificateState(states, job[w].id, job[w].cert)
           k == ScanEvent(r, s, u)
<1>1. job' = [job EXCEPT ![w] = [pc |-> "save", host |-> job[w].host, id |-> job[w].id,
                                 cert |-> job[w].cert, state |-> s, event |-> k]]
  BY DEF Evaluated, Proceed
<1>2. s \in States
  BY VerdictTyped
<1>3. r \in BOOLEAN
  BY DEF Renews
<1> HIDE DEF s, r, u
<1>4. /\ k = "renewed" => r
      /\ k = NoEvent => s = "healthy" \/ s = u
      /\ k # NoEvent => k \in {s, "discovered", "renewed"}
      /\ k = "discovered" => u = Unseen
  BY <1>2, <1>3 DEF ScanEvent, EventOf, States, NoEvent
<1> HIDE DEF k
<1>5. job'[w] = [pc |-> "save", host |-> job[w].host, id |-> job[w].id, cert |-> job[w].cert,
                 state |-> s, event |-> k]
  BY <1>1 DEF TypeOK
<1> QED
  BY <1>2, <1>4, <1>5 DEF Evaluated, tables, r, u

LEMMA RenewalWorkerStep ==
  ASSUME TypeOK, ControlInv, InventoryInv, RenewalInv, [Next]_vars, NEW w \in Workers
  PROVE  /\ job'[w].pc \in {"certificate", "link", "state"} /\ job'[w].previous # NoCert =>
              <<job'[w].host, job'[w].previous>> \in presented'
         /\ job'[w].pc \in {"save", "event"} /\ job'[w].event = "renewed" =>
              Outlived(presented', job'[w].host, job'[w].cert)
<1>0. job[w] \in Jobs /\ presented \subseteq presented'
  BY PresentedGrows DEF TypeOK
<1>1. ASSUME NEW h, NEW c, Outlived(presented, h, c)
      PROVE  Outlived(presented', h, c)
  BY <1>0, <1>1 DEF Outlived
<1>2. CASE job'[w] = job[w]
  BY <1>0, <1>1, <1>2 DEF RenewalInv
<1>3. CASE Stops(w)
  BY <1>3 DEF Stops, IdleJob
<1>4. CASE TakeHost(w) \/ Resolve(w) \/ Record(w)
  <2>1. job'[w].pc \in {"resolve", "probe", "notify"}
    BY <1>0, <1>4, CarriedTyped DEF TakeHost, Resolve, Record, Proceed, TypeOK
  <2> QED
    BY <2>1
<1>5. CASE Probe(w)
  <2>1. PICK chainComplete \in ChainOutcomes :
          Proceed(w, [pc |-> "certificate", host |-> job[w].host, id |-> job[w].id,
                      at |-> job[w].at, cert |-> served[job[w].host], chain |-> chainComplete,
                      previous |-> LatestHostCertificate(links, job[w].id)])
    BY <1>5 DEF Probe, ProbeResults
  <2>2. /\ job'[w].pc = "certificate" /\ job'[w].host = job[w].host
        /\ job'[w].previous = LatestHostCertificate(links, job[w].id)
    BY <2>1 DEF Proceed, TypeOK
  <2>3. job[w].host \in DOMAIN hosts /\ hosts[job[w].host].id = job[w].id
    BY <1>5 DEF Probe, InventoryInv, CarriedStored, Carrying, JobSteps
  <2>4. ASSUME LatestHostCertificate(links, job[w].id) # NoCert
        PROVE  \E i \in DOMAIN links : /\ links[i].id = job[w].id
                                       /\ links[i].cert = LatestHostCertificate(links, job[w].id)
    BY <2>4 DEF LatestHostCertificate, IsLatest, LinkRows
  <2> QED
    BY <1>0, <2>2, <2>3, <2>4 DEF InventoryInv, LinksAreOwn
<1>6. CASE UpsertCertificate(w) \/ Link(w)
  <2>1. job[w].pc \in {"certificate", "link"}
    BY <1>6 DEF UpsertCertificate, Link
  <2>2. /\ job'[w].pc \in {"link", "state"} /\ job'[w].host = job[w].host
        /\ job'[w].previous = job[w].previous
    BY <1>0, <1>6, <2>1, CarriedTyped DEF UpsertCertificate, Link, Proceed, TypeOK
  <2> QED
    BY <1>0, <2>1, <2>2 DEF RenewalInv
<1>7. CASE Evaluated(w)
  <2>1. /\ job[w].pc = "state" /\ job'[w].pc = "save"
        /\ job'[w].host = job[w].host /\ job'[w].cert = job[w].cert
        /\ job'[w].event = "renewed" => Renews(job[w].previous, job[w].cert)
    BY <1>7, VerdictCarried
  <2>2. job[w].previous \in Certs \cup {NoCert}
    BY <1>0, <2>1, CarriedTyped
  <2>3. ASSUME job'[w].event = "renewed" PROVE Outlived(presented, job[w].host, job[w].cert)
    BY <2>1, <2>2, <2>3 DEF RenewalInv, Outlived, Renews
  <2> QED
    BY <1>1, <2>1, <2>3
<1>8. CASE SetState(w)
  <2>1. /\ job[w].pc = "save"
        /\ \/ job'[w].pc = "idle"
           \/ /\ job'[w].pc = "event" /\ job'[w].host = job[w].host
              /\ job'[w].cert = job[w].cert /\ job'[w].event = job[w].event
    BY <1>8 DEF SetState, Proceed, TypeOK, IdleJob
  <2> QED
    BY <1>1, <2>1 DEF RenewalInv
<1> QED
  BY <1>2, <1>3, <1>4, <1>5, <1>6, <1>7, <1>8, JobCases DEF Advances

LEMMA RenewalStep ==
  TypeOK /\ ControlInv /\ InventoryInv /\ RenewalInv /\ [Next]_vars => RenewalInv'
<1> SUFFICES ASSUME TypeOK, ControlInv, InventoryInv, RenewalInv, [Next]_vars
             PROVE  RenewalInv'
  OBVIOUS
<1>0. presented \subseteq presented' /\ LedgerGrows
  BY PresentedGrows, LedgerStep
<1>1. RenewedMeansChanged'
  <2> SUFFICES ASSUME NEW e \in DOMAIN events', events'[e].kind = "renewed"
               PROVE  \E c \in Certs : /\ <<subject'[e], c>> \in presented'
                                       /\ c # events'[e].cert
                                       /\ NotAfter[c] < NotAfter[events'[e].cert]
    BY DEF RenewedMeansChanged
  <2>1. CASE e \in DOMAIN events
    <3>1. subject'[e] = subject[e]
      BY <2>1, RecordCases
    <3>2. events'[e].kind = events[e].kind /\ events'[e].cert = events[e].cert
      BY <1>0, <2>1 DEF LedgerGrows
    <3> QED
      BY <1>0, <2>1, <3>1, <3>2 DEF RenewalInv, RenewedMeansChanged
  <2>2. CASE e \notin DOMAIN events
    <3>1. PICK w \in Workers :
            /\ Record(w) /\ events'[e].kind = job[w].event /\ events'[e].cert = job[w].cert
            /\ subject'[e] = job[w].host
      BY <2>2, RecordCases
    <3>2. Outlived(presented, job[w].host, job[w].cert)
      BY <3>1 DEF RenewalInv, Record
    <3> QED
      BY <1>0, <3>1, <3>2 DEF Outlived
  <2> QED
    BY <2>1, <2>2
<1> QED
  BY <1>1, RenewalWorkerStep DEF RenewalInv

\* As long as hosts are purged between scans only, a record of renewal is about a
\* host that did present another certificate with an earlier end, whatever came
\* between the probe and the record.
THEOREM RenewalsAreTrue == PurgesApart => (Spec => []RenewedMeansChanged)
<1>1. Init => RenewalInv
  <2>1. Init => DOMAIN events = {} /\ \A w \in Workers : job[w].pc = "idle"
    BY DEF Init, IdleJob
  <2> QED
    BY <2>1 DEF RenewalInv, RenewedMeansChanged
<1>2. CASE PurgesApart
  <2>1. RenewalInv => RenewedMeansChanged
    BY DEF RenewalInv
  <2> QED
    BY <1>1, <1>2, <2>1, RenewalStep, ScanTyping, ControlHolds, InventoryHolds, PTL DEF Spec
<1> QED
  BY <1>2

-----------------------------------------------------------------------------
(* Dangers.                                                                *)

\* What a worker that stores a state carries afterwards.
LEMMA StateStored ==
  ASSUME TypeOK, NEW w \in Workers, SetState(w)
  PROVE  /\ job[w].pc = "save" /\ UNCHANGED events
         /\ DOMAIN states' = DOMAIN states \cup {<<job[w].id, job[w].cert>>}
         /\ states'[<<job[w].id, job[w].cert>>] = job[w].state
         /\ \A k \in DOMAIN states : k # <<job[w].id, job[w].cert>> => states'[k] = states[k]
         /\ \/ job[w].event = NoEvent /\ job'[w] = IdleJob
            \/ /\ job[w].event # NoEvent /\ job'[w].pc = "event"
               /\ job'[w].id = job[w].id /\ job'[w].cert = job[w].cert
               /\ job'[w].event = job[w].event /\ job'[w].state = job[w].state
         /\ \A v \in Workers \ {w} : job'[v] = job[v]
<1>1. job[w].pc = "save" /\ job[w] \in Jobs
  BY DEF SetState, TypeOK
<1>2. job[w] \in [pc: {"save"}, host: Hosts, id: Ids, cert: Certs, state: States,
                  event: EventKinds \cup {NoEvent}]
  BY <1>1, CarriedTyped
<1> QED
  BY <1>1, <1>2 DEF SetState, SetCertificateState, Upserted, Proceed, TypeOK

\* How a worker gets to the end of a host.
LEMMA Arrives ==
  ASSUME TypeOK, ControlInv, [Next]_vars, NEW w \in Workers
  PROVE  /\ job'[w].pc = "save" => job'[w] = job[w] \/ Evaluated(w)
         /\ job'[w].pc = "event" => job'[w] = job[w] \/ SetState(w)
<1>1. Stops(w) => job'[w].pc = "idle"
  BY DEF Stops, IdleJob
<1>2. job[w] \in Jobs
  BY DEF TypeOK
<1>3. TakeHost(w) \/ Resolve(w) \/ Probe(w) \/ UpsertCertificate(w) \/ Link(w) \/ Record(w)
        => job'[w].pc \in {"resolve", "probe", "certificate", "link", "state", "notify"}
  BY <1>2, CarriedTyped DEF TakeHost, Resolve, Probe, UpsertCertificate, Link, Record,
                            Proceed, TypeOK
<1>4. ASSUME SetState(w) PROVE job'[w].pc # "save"
  <2>1. job'[w] = IdleJob \/ job'[w].pc = "event"
    BY <1>4, StateStored
  <2> QED
    BY <2>1 DEF IdleJob
<1>5. ASSUME Evaluated(w) PROVE job'[w].pc # "event"
  BY <1>5, VerdictCarried
<1> QED
  BY <1>1, <1>3, <1>4, <1>5, JobCases DEF Advances

\* Workers that carry a host carry different ids.
LEMMA OwnId ==
  ASSUME SingleProcess, ControlInv, InventoryInv, NEW v \in Workers, NEW w \in Workers, v # w,
         job[v].pc \in {"save", "event"}, job[w].pc \in {"save", "event"}
  PROVE  job[v].id # job[w].id
<1>1. ProcessOf[v] = ProcessOf[w]
  BY ScanAssumption DEF SingleProcess
<1>2. Carrying(v) /\ Carrying(w)
  BY DEF Carrying, JobSteps
<1>3. job[v].host # job[w].host
  BY <1>1, <1>2 DEF ControlInv, OneWorkerPerHost, Carrying
<1> QED
  BY <1>2, <1>3 DEF InventoryInv, CarriedStored, IdsUnique

\* While a worker is between its verdict and its record, the stored states of its
\* pair are its own affair: others carry other ids, and no host is purged.
LEMMA StoredKept ==
  ASSUME SingleProcess, PurgesApart, TypeOK, ControlInv, PurgeRequested, InventoryInv,
         [Next]_vars, NEW w \in Workers, job'[w] = job[w], job[w].pc \in {"save", "event"},
         Stored(w)
  PROVE  Stored(w)'
<1> DEFINE k == <<job[w].id, job[w].cert>>
<1>1. CASE UNCHANGED states
  BY <1>1 DEF Stored
<1>2. ASSUME NEW v \in Workers, SetState(v) PROVE Stored(w)'
  <2>1. /\ job[v].pc = "save" /\ (job'[v] = IdleJob \/ job'[v].pc = "event")
        /\ DOMAIN states' = DOMAIN states \cup {<<job[v].id, job[v].cert>>}
        /\ \A l \in DOMAIN states : l # <<job[v].id, job[v].cert>> => states'[l] = states[l]
    BY <1>2, StateStored
  <2>2. v # w
    BY <2>1 DEF IdleJob
  <2>3. job[v].id # job[w].id
    BY <2>1, <2>2, OwnId
  <2>4. k # <<job[v].id, job[v].cert>>
    BY <2>3
  <2> QED
    BY <2>1, <2>4 DEF Stored
<1>3. CASE (\E b \in Browsers : bulk[b].op = "purge") /\ (PurgeDuringScan \/ Scanning = {})
  <2>1. Scanning = {}
    BY <1>3 DEF PurgesApart, PurgeRequested
  <2>2. job[w].pc = "idle"
    BY <2>1, ScanAssumption DEF ControlInv, PhasesHold, IdleJob, Scanning
  <2> QED
    BY <2>2
<1> QED
  BY <1>1, <1>2, <1>3, StatesCases

LEMMA VerdictsStep ==
  ASSUME SingleProcess, PurgesApart, TypeOK, ControlInv, PurgeRequested, InventoryInv,
         VerdictsHold, [Next]_vars
  PROVE  VerdictsHold'
<1>1. ASSUME NEW w \in Workers, job'[w].pc \in {"save", "event"}
      PROVE  /\ job'[w].event # NoEvent =>
                  job'[w].event \in {job'[w].state, "discovered", "renewed"}
             /\ job'[w].pc = "save" /\ job'[w].event = NoEvent =>
                  job'[w].state = "healthy" \/ Stored(w)'
             /\ job'[w].pc = "event" => Stored(w)'
  <2>1. CASE job'[w] = job[w]
    BY <1>1, <2>1, StoredKept DEF VerdictsHold
  <2>2. CASE Evaluated(w)
    <3>1. /\ job'[w].pc = "save" /\ UNCHANGED states
          /\ job'[w].id = job[w].id /\ job'[w].cert = job[w].cert
          /\ job'[w].event = NoEvent =>
               \/ job'[w].state = "healthy"
               \/ job'[w].state = GetCertificateState(states, job[w].id, job[w].cert)
          /\ job'[w].event # NoEvent =>
               job'[w].event \in {job'[w].state, "discovered", "renewed"}
          /\ job'[w].state \in States
      BY <2>2, VerdictCarried
    <3>2. job'[w].state = GetCertificateState(states, job[w].id, job[w].cert) => Stored(w)'
      BY <3>1 DEF GetCertificateState, Stored, Unseen, States
    <3> QED
      BY <3>1, <3>2
  <2>3. CASE SetState(w)
    <3>1. job'[w] # IdleJob
      BY <1>1 DEF IdleJob
    <3>2. /\ job[w].pc = "save" /\ job'[w].pc = "event" /\ job[w].event # NoEvent
          /\ job'[w].id = job[w].id /\ job'[w].cert = job[w].cert
          /\ job'[w].event = job[w].event /\ job'[w].state = job[w].state
          /\ DOMAIN states' = DOMAIN states \cup {<<job[w].id, job[w].cert>>}
          /\ states'[<<job[w].id, job[w].cert>>] = job[w].state
      BY <2>3, <3>1, StateStored
    <3>3. Stored(w)'
      BY <3>2 DEF Stored
    <3> QED
      BY <3>2, <3>3 DEF VerdictsHold
  <2> QED
    BY <1>1, <2>1, <2>2, <2>3, Arrives
<1> QED
  BY <1>1 DEF VerdictsHold

\* What a step may do about pair k.
Kept(k) ==
  \/ states'[k] \notin Dangers
  \/ OnRecord(k)'
  \/ k \in DOMAIN states /\ states'[k] = states[k] /\ ~OnRecord(k)
  \/ \E w \in Workers : AboutToRecord(w, k) /\ job'[w] = IdleJob

\* A record that is made is the last, and about what its worker has stored.
LEMMA RecordedLast ==
  ASSUME TypeOK, VerdictsHold, [Next]_vars, NEW k, NEW w \in Workers, Record(w),
         AboutToRecord(w, k), k \in DOMAIN states'
  PROVE  OnRecord(k)'
<1>1. job[w] \in [pc: {"event"}, host: Hosts, id: Ids, cert: Certs, state: States,
                  event: EventKinds]
  BY CarriedTyped DEF Record, TypeOK
<1>2. /\ <<job[w].id, job[w].cert>> = k /\ states[k] = job[w].state
      /\ job[w].event \in {job[w].state, "discovered", "renewed"}
  BY <1>1 DEF VerdictsHold, Stored, AboutToRecord, EventKinds, NoEvent
<1>3. PICK v \in Workers, n \in Nat :
        /\ Record(v) /\ DOMAIN events' = DOMAIN events \cup {n}
        /\ events'[n].kind = job[v].event /\ events'[n].cert = job[v].cert
        /\ events'[n].id = job[v].id /\ stateAt'[n] = job[v].state
        /\ \A e \in DOMAIN events : e < n
        /\ job'[v].pc = "notify" /\ \A u \in Workers \ {v} : job'[u] = job[u]
  BY RecordCases
<1>4. v = w
  <2>1. job'[w] # job[w]
    BY <1>1 DEF Record, Proceed, TypeOK
  <2> QED
    BY <1>3, <2>1
<1>5. states' = states
  BY DEF Record
<1>6. n \in About(k)' /\ Records(n, states[k])'
  BY <1>2, <1>3, <1>4, <1>5 DEF About, Records
<1>7. \A f \in About(k)' : f <= n
  BY <1>3 DEF About, TypeOK
<1> QED
  BY <1>5, <1>6, <1>7 DEF OnRecord

\* As long as its state stays, a pair on record stays on record.
LEMMA RecordKept ==
  ASSUME TypeOK, ControlInv, VerdictsHold, [Next]_vars, NEW k \in DOMAIN states',
         k \in DOMAIN states, states'[k] = states[k], OnRecord(k)
  PROVE  Kept(k)
<1>1. ASSUME NEW w \in Workers, AboutToRecord(w, k), job[w].state = states[k]
      PROVE  Kept(k)
  <2>1. CASE job'[w] = job[w]
    BY <1>1, <2>1 DEF Kept, OnRecord, AboutToRecord
  <2>2. CASE Stops(w)
    BY <1>1, <2>2 DEF Kept, Stops
  <2>3. CASE Record(w)
    BY <1>1, <2>3, RecordedLast DEF Kept
  <2>4. Advances(w) => Record(w)
    BY <1>1 DEF Advances, AboutToRecord, TakeHost, Resolve, Probe, UpsertCertificate, Link,
                Evaluated, SetState, IdleJob
  <2> QED
    BY <2>1, <2>2, <2>3, <2>4, JobCases
<1>2. ASSUME NEW e \in About(k), Records(e, states[k]), \A f \in About(k) : f <= e
      PROVE  Kept(k)
  <2>1. /\ e \in DOMAIN events' /\ events'[e].kind = events[e].kind
        /\ \A f \in DOMAIN events : /\ f \in DOMAIN events' /\ events'[f].id = events[f].id
                                    /\ events'[f].cert = events[f].cert
    BY <1>2, LedgerStep DEF LedgerGrows, About
  <2>2. ASSUME stateAt'[e] = stateAt[e], \A f \in About(k)' : f \in DOMAIN events
        PROVE  Kept(k)
    <3>1. e \in About(k)' /\ Records(e, states[k])'
      BY <1>2, <2>1, <2>2 DEF About, Records
    <3>2. \A f \in About(k)' : f <= e
      BY <1>2, <2>1, <2>2 DEF About
    <3> QED
      BY <3>1, <3>2 DEF Kept, OnRecord
  <2>3. CASE DOMAIN events' = DOMAIN events /\ UNCHANGED stateAt
    BY <2>2, <2>3 DEF About
  <2>4. ASSUME NEW w \in Workers, NEW n \in Nat,
               Record(w), DOMAIN events' = DOMAIN events \cup {n},
               events'[n].cert = job[w].cert, events'[n].id = job[w].id,
               \A f \in DOMAIN events : stateAt'[f] = stateAt[f]
        PROVE  Kept(k)
    <3>1. CASE AboutToRecord(w, k)
      BY <2>4, <3>1, RecordedLast DEF Kept
    <3>2. CASE ~AboutToRecord(w, k)
      <4>1. k = <<k[1], k[2]>>
        BY DEF TypeOK
      <4>2. ~(events'[n].id = k[1] /\ events'[n].cert = k[2])
        BY <2>4, <3>2, <4>1 DEF AboutToRecord, Record
      <4> QED
        BY <1>2, <2>2, <2>4, <4>2 DEF About
    <3> QED
      BY <3>1, <3>2
  <2> QED
    BY <2>3, <2>4, RecordCases
<1> QED
  BY <1>1, <1>2 DEF OnRecord

LEMMA DangerStep ==
  ASSUME TypeOK, ControlInv, VerdictsHold, [Next]_vars, NEW k \in DOMAIN states'
  PROVE  Kept(k)
<1>1. CASE k \in DOMAIN states /\ states'[k] = states[k]
  BY <1>1, RecordKept DEF Kept
<1>2. CASE ~(k \in DOMAIN states /\ states'[k] = states[k])
  <2>1. PICK w \in Workers : SetState(w)
    BY <1>2, StatesCases
  <2>2. /\ job[w].pc = "save" /\ k = <<job[w].id, job[w].cert>> /\ states'[k] = job[w].state
        /\ \/ job[w].event = NoEvent
           \/ /\ job'[w].pc = "event" /\ job'[w].id = job[w].id
              /\ job'[w].cert = job[w].cert /\ job'[w].state = job[w].state
    <3> DEFINE pair == <<job[w].id, job[w].cert>>
    <3>1. /\ DOMAIN states' = DOMAIN states \cup {pair}
          /\ \A l \in DOMAIN states : l # pair => states'[l] = states[l]
          /\ job[w].pc = "save" /\ states'[pair] = job[w].state
          /\ \/ job[w].event = NoEvent
             \/ /\ job'[w].pc = "event" /\ job'[w].id = job[w].id
                /\ job'[w].cert = job[w].cert /\ job'[w].state = job[w].state
      BY <2>1, StateStored
    <3> HIDE DEF pair
    <3>2. k = pair
      BY <1>2, <3>1
    <3> QED
      BY <3>1, <3>2 DEF pair
  <2>3. CASE job[w].event = NoEvent
    <3>1. job[w].state = "healthy" \/ Stored(w)
      BY <2>2, <2>3 DEF VerdictsHold
    <3>2. ~Stored(w)
      BY <1>2, <2>2 DEF Stored
    <3> QED
      BY <2>2, <3>1, <3>2 DEF Kept, Dangers
  <2>4. CASE job'[w].pc = "event" /\ job'[w].id = job[w].id
             /\ job'[w].cert = job[w].cert /\ job'[w].state = job[w].state
    BY <2>2, <2>4 DEF Kept, OnRecord, AboutToRecord
  <2> QED
    BY <2>2, <2>3, <2>4
<1> QED
  BY <1>1, <1>2

\* Within one process, and as long as hosts are purged between scans only, every
\* stored danger is, and stays, the last thing the ledger has on the pair: recorded
\* with the state that is stored, under its own name or as the discovery or renewal
\* that took its place. Whatever fails, is cancelled or crashes, only a worker that
\* stops between SetCertificateState and RecordEvent leaves one off the record.
THEOREM DangersAreOnRecord ==
  SingleProcess /\ PurgesApart => (Spec => DangersStayOnRecord)
<1> DEFINE AllKept == \A k \in DOMAIN states' : Kept(k)
<1>1. Init => VerdictsHold
  <2>1. Init => \A w \in Workers : job[w].pc = "idle"
    BY DEF Init, IdleJob
  <2> QED
    BY <2>1 DEF VerdictsHold
<1>2. TypeOK /\ ControlInv /\ VerdictsHold /\ [Next]_vars => [AllKept]_vars
  BY DangerStep
<1>3. CASE SingleProcess /\ PurgesApart
  <2>1. TypeOK /\ ControlInv /\ PurgeRequested /\ InventoryInv /\ VerdictsHold /\ [Next]_vars
          => VerdictsHold'
    BY <1>3, VerdictsStep
  <2>2. PurgesApart
    BY <1>3
  <2>3. Spec => [][AllKept]_vars
    BY <1>1, <1>2, <2>1, <2>2, ScanTyping, ControlHolds, PurgesAreRequested, InventoryHolds,
       PTL DEF Spec
  <2> QED
    BY <2>3 DEF DangersStayOnRecord, Kept
<1> QED
  BY <1>3

-----------------------------------------------------------------------------
(* Discoveries.                                                            *)

\* The verdict "discovered" is on a pair without a state; none gets one meanwhile,
\* since only the worker itself carries the host.
LEMMA DiscoverySaveStep ==
  ASSUME SingleProcess, TypeOK, ControlInv, InventoryInv, DiscoveryInv, [Next]_vars,
         NEW w \in Workers, job'[w].pc = "save", job'[w].event = "discovered"
  PROVE  <<job'[w].id, job'[w].cert>> \notin DOMAIN states'
<1>1. CASE job'[w] = job[w]
  <2>1. job[w].pc = "save" /\ <<job[w].id, job[w].cert>> \notin DOMAIN states
    BY <1>1 DEF DiscoveryInv
  <2>2. ASSUME NEW v \in Workers, SetState(v)
        PROVE  <<job[w].id, job[w].cert>> \notin DOMAIN states'
    <3>1. /\ job[v].pc = "save"
          /\ job'[v] = IdleJob \/ job'[v].pc = "event"
          /\ DOMAIN states' = DOMAIN states \cup {<<job[v].id, job[v].cert>>}
      BY <2>2, StateStored
    <3>2. v # w
      BY <1>1, <2>1, <3>1 DEF IdleJob
    <3>3. job[v].id # job[w].id
      BY <2>1, <3>1, <3>2, OwnId
    <3> QED
      BY <2>1, <3>1, <3>3
  <2> QED
    BY <1>1, <2>1, <2>2, StatesCases
<1>2. CASE Evaluated(w)
  <2>1. /\ UNCHANGED states /\ job'[w].id = job[w].id /\ job'[w].cert = job[w].cert
        /\ GetCertificateState(states, job[w].id, job[w].cert) = Unseen
    BY <1>2, VerdictCarried
  <2>2. \A k \in DOMAIN states : states[k] # Unseen
    BY DEF TypeOK, States, Unseen
  <2> QED
    BY <2>1, <2>2 DEF GetCertificateState
<1> QED
  BY <1>1, <1>2, Arrives

\* Once the state is stored nobody else decides on a discovery of the pair, and no
\* record of one was there before.
LEMMA DiscoveryEventStep ==
  ASSUME SingleProcess, TypeOK, ControlInv, InventoryInv, DiscoveryInv, [Next]_vars,
         DOMAIN states \subseteq DOMAIN states',
         NEW w \in Workers, job'[w].pc = "event", job'[w].event = "discovered"
  PROVE  /\ <<job'[w].id, job'[w].cert>> \in DOMAIN states'
         /\ \A e \in DOMAIN events' : ~Discovery(e, job[w].id, job[w].cert)'
<1>0. LedgerGrows
  BY LedgerStep
<1>1. CASE job'[w] = job[w]
  <2>1. /\ job[w].pc = "event" /\ <<job[w].id, job[w].cert>> \in DOMAIN states
        /\ \A e \in DOMAIN events : ~Discovery(e, job[w].id, job[w].cert)
    BY <1>1 DEF DiscoveryInv
  <2>2. ASSUME NEW e \in DOMAIN events' PROVE ~Discovery(e, job[w].id, job[w].cert)'
    <3>1. CASE e \in DOMAIN events
      BY <1>0, <1>1, <2>1, <3>1 DEF LedgerGrows, Discovery
    <3>2. CASE e \notin DOMAIN events
      <4>1. PICK v \in Workers : /\ Record(v) /\ events'[e].id = job[v].id
                                 /\ job'[v].pc = "notify"
        BY <3>2, RecordCases
      <4>2. v # w /\ job[v].pc = "event"
        BY <1>1, <2>1, <4>1 DEF Record
      <4>3. job[v].id # job[w].id
        BY <2>1, <4>2, OwnId
      <4> QED
        BY <1>1, <4>1, <4>3 DEF Discovery
    <3> QED
      BY <3>1, <3>2
  <2> QED
    BY <1>1, <2>1, <2>2
<1>2. CASE SetState(w)
  <2>0. job'[w] # IdleJob
    BY DEF IdleJob
  <2>1. /\ job[w].pc = "save" /\ UNCHANGED events /\ job'[w].id = job[w].id
        /\ job'[w].cert = job[w].cert /\ job'[w].event = job[w].event
        /\ <<job[w].id, job[w].cert>> \in DOMAIN states'
    BY <1>2, <2>0, StateStored
  <2>2. <<job[w].id, job[w].cert>> \notin DOMAIN states
    BY <2>1 DEF DiscoveryInv
  <2>3. \A e \in DOMAIN events : ~Discovery(e, job[w].id, job[w].cert)
    BY <2>2 DEF DiscoveryInv, Discovery
  <2>4. \A e \in DOMAIN events' : ~Discovery(e, job[w].id, job[w].cert)'
    BY <2>1, <2>3 DEF Discovery
  <2> QED
    BY <2>1, <2>4
<1> QED
  BY <1>1, <1>2, Arrives

LEMMA DiscoveryStep ==
  ASSUME SingleProcess, "purge" \notin Console, TypeOK, ControlInv, PurgeRequested, InventoryInv,
         DiscoveryInv, [Next]_vars
  PROVE  DiscoveryInv'
<1>1. LedgerGrows
  BY LedgerStep
<1>2. DOMAIN states \subseteq DOMAIN states'
  BY StatesCases, StateStored DEF PurgeRequested
<1>3. ASSUME NEW e \in DOMAIN events', e \notin DOMAIN events
      PROVE  /\ \A f \in DOMAIN events' \ {e} : f \in DOMAIN events
             /\ \E w \in Workers : /\ job[w].pc = "event" /\ events'[e].kind = job[w].event
                                   /\ events'[e].id = job[w].id /\ events'[e].cert = job[w].cert
  <2>1. PICK w \in Workers, n \in Nat :
          /\ Record(w) /\ DOMAIN events' = DOMAIN events \cup {n}
          /\ events'[n].kind = job[w].event /\ events'[n].cert = job[w].cert
          /\ events'[n].id = job[w].id
    BY <1>3, RecordCases
  <2>2. e = n /\ job[w].pc = "event"
    BY <1>3, <2>1 DEF Record
  <2> QED
    BY <2>1, <2>2
<1>4. ASSUME NEW e \in DOMAIN events', events'[e].kind = "discovered", e \notin DOMAIN events
      PROVE  /\ <<events'[e].id, events'[e].cert>> \in DOMAIN states
             /\ \A f \in DOMAIN events : ~Discovery(f, events'[e].id, events'[e].cert)
  BY <1>3, <1>4 DEF DiscoveryInv
<1>5. \A e \in DOMAIN events' :
        events'[e].kind = "discovered" => <<events'[e].id, events'[e].cert>> \in DOMAIN states'
  BY <1>1, <1>2, <1>4 DEF DiscoveryInv, LedgerGrows
<1>6. DiscoveredOnce'
  <2> SUFFICES ASSUME NEW e \in DOMAIN events', NEW f \in DOMAIN events',
                      events'[e].kind = "discovered", events'[f].kind = "discovered",
                      events'[e].cert = events'[f].cert, events'[e].id = events'[f].id
               PROVE  e = f
    BY DEF DiscoveredOnce
  <2>1. CASE e \in DOMAIN events /\ f \in DOMAIN events
    BY <1>1, <2>1 DEF DiscoveryInv, DiscoveredOnce, LedgerGrows
  <2>2. CASE e \notin DOMAIN events /\ f \in DOMAIN events
    BY <1>1, <1>4, <2>2 DEF Discovery, LedgerGrows
  <2>3. CASE e \in DOMAIN events /\ f \notin DOMAIN events
    BY <1>1, <1>4, <2>3 DEF Discovery, LedgerGrows
  <2>4. CASE e \notin DOMAIN events /\ f \notin DOMAIN events
    BY <1>3, <2>4
  <2> QED
    BY <2>1, <2>2, <2>3, <2>4
<1> QED
  BY <1>2, <1>5, <1>6, DiscoverySaveStep, DiscoveryEventStep DEF DiscoveryInv

\* Within one process and without purges, a certificate is discovered on a host at
\* most once, whatever fails, is cancelled, crashes or is scanned again: the state
\* that settles it is stored before the record is made, by the one worker that
\* carries the host.
THEOREM DiscoveriesAreUnique ==
  SingleProcess /\ "purge" \notin Console => (Spec => []DiscoveredOnce)
<1>1. Init => DiscoveryInv
  <2>1. Init => DOMAIN events = {} /\ \A w \in Workers : job[w].pc = "idle"
    BY DEF Init, IdleJob
  <2> QED
    BY <2>1 DEF DiscoveryInv, DiscoveredOnce
<1>2. CASE SingleProcess /\ "purge" \notin Console
  <2>1. TypeOK /\ ControlInv /\ PurgeRequested /\ InventoryInv /\ DiscoveryInv /\ [Next]_vars
          => DiscoveryInv'
    BY <1>2, DiscoveryStep
  <2>2. DiscoveryInv => DiscoveredOnce
    BY DEF DiscoveryInv
  <2>3. PurgesApart
    BY <1>2 DEF PurgesApart
  <2> QED
    BY <1>1, <2>1, <2>2, <2>3, ScanTyping, ControlHolds, PurgesAreRequested, InventoryHolds,
       PTL DEF Spec
<1> QED
  BY <1>2

-----------------------------------------------------------------------------
(* Suppression.                                                            *)

\* Hosts come into a queue by discovery only, which leaves out the suppressed ones.
LEMMA QueueCases ==
  ASSUME TypeOK, [Next]_vars, NEW p \in Processes
  PROVE  queue'[p] \subseteq queue[p] \/ queue'[p] \cap suppressed = {}
<1>1. CASE UNCHANGED queue
  BY <1>1
<1>2. ASSUME NEW q \in Senders, NotifyNext(q) PROVE UNCHANGED queue
  BY <1>2 DEF NotifyNext, Deliver, Refuse, LoseAnswer, MarkNotified, MarkFails, runner
<1>3. ASSUME NEW q \in Processes, RunnerNext(q) \/ Cancel(q) \/ Crash(q)
      PROVE  queue'[p] \subseteq queue[p] \/ queue'[p] \cap suppressed = {}
  BY <1>3 DEF RunnerNext, StartScan, StartFails, ReadPending, RetryNext, Discover, DiscoverFails, EndScan, StopFeeding,
              SkipHost, Cancel, Crash, TypeOK
<1>4. ASSUME NEW w \in Workers, WorkerNext(w) PROVE queue'[p] \subseteq queue[p]
  <2>1. CASE NotifyNext(w)
    BY <1>2, <2>1 DEF Senders
  <2>2. CASE TakeHost(w)
    BY <2>2 DEF TakeHost, TypeOK
  <2> QED
    BY <1>4, <2>1, <2>2 DEF WorkerNext, Resolve, Unresolved, Probe, UpsertCertificate, Link,
                            Evaluated, SetState, Record, GiveUp, runner
<1>5. CASE ConsoleNext
  BY <1>1, <1>5 DEF ConsoleNext, Suppress, Unsuppress, SuppressNext, PurgeNext, WorkOff, OpenSuppressAll, OpenPurge,
                    BulkFails, Acknowledge, runner
<1>6. CASE UNCHANGED vars \/ Tick \/ \E h \in Hosts : Replace(h)
  BY <1>1, <1>6 DEF vars, Tick, Replace, runner
<1> QED
  BY <1>1, <1>2, <1>3, <1>4, <1>5, <1>6 DEF Next, Senders

\* A worker carries the host it carried, or one it takes from the queue.
LEMMA HostCarried ==
  ASSUME TypeOK, ControlInv, [Next]_vars, NEW w \in Workers, Carrying(w)'
  PROVE  \/ Carrying(w) /\ job'[w].host = job[w].host
         \/ job'[w].host \in queue[ProcessOf[w]]
<1>1. CASE job'[w] = job[w]
  BY <1>1 DEF Carrying
<1>2. ~Stops(w)
  BY DEF Stops, Carrying, IdleJob, JobSteps
<1>3. CASE TakeHost(w)
  BY <1>3 DEF TakeHost, Proceed, TypeOK
<1>4. ~Record(w)
  BY DEF Record, Proceed, TypeOK, Carrying
<1>5. CASE Advances(w) /\ ~TakeHost(w)
  <2>1. WorkerNext(w)
    BY <1>5 DEF Advances, WorkerNext
  <2>2. CASE /\ Carrying(w)
             /\ \E j : /\ Proceed(w, j)
                       /\ j = IdleJob \/ (j.pc \in JobSteps \ {"notify"} /\ j.host = job[w].host)
    <3>1. job'[w] = IdleJob \/ job'[w].host = job[w].host
      BY <2>2 DEF Proceed, TypeOK
    <3>2. job'[w] # IdleJob
      BY DEF Carrying, IdleJob, JobSteps
    <3> QED
      BY <2>2, <3>1, <3>2
  <2>3. CASE NotifyNext(w)
    <3>1. UNCHANGED job \/ Return(w)
      BY <2>3 DEF NotifyNext, Deliver, Refuse, LoseAnswer, MarkNotified, MarkFails
    <3>2. job'[w] = job[w] \/ job'[w] = IdleJob
      BY <3>1 DEF Return, TypeOK
    <3> QED
      BY <1>1, <3>2 DEF Carrying, IdleJob, JobSteps
  <2> QED
    BY <1>4, <1>5, <2>1, <2>2, <2>3, WorkerCases
<1> QED
  BY <1>1, <1>2, <1>3, <1>5, JobCases

\* The row of a host is written by the worker that takes or carries it, and removed
\* by its purge, which lifts the suppression.
LEMMA RowCases ==
  ASSUME TypeOK, [Next]_vars, NEW h \in DOMAIN hosts
  PROVE  \/ h \in DOMAIN hosts' /\ hosts'[h] = hosts[h]
         \/ \E w \in Workers : Carrying(w) /\ job[w].host = h
         \/ \E p \in Processes : h \in queue[p]
         \/ h \notin suppressed'
<1> USE DEF tables
<1>1. CASE UNCHANGED hosts
  BY <1>1
<1>2. ASSUME NEW q \in Senders, NotifyNext(q) PROVE UNCHANGED hosts
  BY <1>2 DEF NotifyNext, Deliver, Refuse, LoseAnswer, MarkNotified, MarkFails
<1>3. ASSUME NEW q \in Processes, RunnerNext(q) \/ Cancel(q) \/ Crash(q) PROVE UNCHANGED hosts
  BY <1>3 DEF RunnerNext, StartScan, StartFails, ReadPending, RetryNext, Discover, DiscoverFails, EndScan, StopFeeding,
              SkipHost, Cancel, Crash
<1>4. ASSUME NEW w \in Workers, TakeHost(w)
      PROVE  \/ h \in DOMAIN hosts' /\ hosts'[h] = hosts[h]
             \/ h \in queue[ProcessOf[w]]
  BY <1>4 DEF TakeHost, UpsertHost, Upserted
<1>5. ASSUME NEW w \in Workers, Resolve(w)
      PROVE  \/ h \in DOMAIN hosts' /\ hosts'[h] = hosts[h]
             \/ Carrying(w) /\ job[w].host = h
  BY <1>5 DEF Resolve, MarkHostResolved, Carrying, JobSteps, TypeOK
<1>6. ASSUME NEW w \in Workers, WorkerNext(w) PROVE UNCHANGED hosts \/ TakeHost(w) \/ Resolve(w)
  <2>1. CASE NotifyNext(w)
    BY <1>2, <2>1 DEF Senders
  <2> QED
    BY <1>6, <2>1 DEF WorkerNext, Unresolved, Probe, UpsertCertificate, Link, Evaluated,
                      SetState, Record, GiveUp
<1>7. ASSUME NEW b \in Browsers, NEW g \in Hosts, PurgeNext(b, g)
      PROVE  \/ h \in DOMAIN hosts' /\ hosts'[h] = hosts[h]
             \/ h \notin suppressed'
  BY <1>7 DEF PurgeNext, PurgedHosts, Without
<1>8. ASSUME NEW g \in Hosts, Suppress(g) \/ Unsuppress(g) PROVE UNCHANGED hosts
  BY <1>8 DEF Suppress, Unsuppress
<1>12. ASSUME NEW b \in Browsers, NEW g \in Hosts, SuppressNext(b, g) PROVE UNCHANGED hosts
  BY <1>12 DEF SuppressNext
<1>9. CASE ConsoleNext
  BY <1>1, <1>7, <1>8, <1>9, <1>12 DEF ConsoleNext, OpenSuppressAll, OpenPurge, BulkFails, Acknowledge
<1>10. CASE UNCHANGED vars \/ Tick \/ \E g \in Hosts : Replace(g)
  BY <1>1, <1>10 DEF vars, Tick, Replace
<1>11. \A w \in Workers : ProcessOf[w] \in Processes
  BY ScanAssumption
<1> QED
  BY <1>1, <1>2, <1>3, <1>4, <1>5, <1>6, <1>9, <1>10, <1>11 DEF Next, Senders

LEMMA SuppressedStep ==
  ASSUME TypeOK, ControlInv, [Next]_vars,
         NEW h \in suppressed \cap suppressed', ~InFlight(h)
  PROVE  /\ ~InFlight(h)'
         /\ h \in DOMAIN hosts => h \in DOMAIN hosts' /\ hosts'[h] = hosts[h]
         /\ \A e \in DOMAIN events' \ DOMAIN events : subject'[e] # h
<1>0. /\ \A p \in Processes : h \notin queue[p]
      /\ \A w \in Workers : Carrying(w) => job[w].host # h
      /\ \A w \in Workers : ProcessOf[w] \in Processes
  BY ScanAssumption DEF InFlight, Carrying
<1>1. \A p \in Processes : h \notin queue'[p]
  BY <1>0, QueueCases
<1>2. \A w \in Workers : Carrying(w)' => job'[w].host # h
  BY <1>0, HostCarried
<1>3. ~InFlight(h)'
  BY <1>1, <1>2 DEF InFlight, Carrying
<1>4. ASSUME NEW e \in DOMAIN events' \ DOMAIN events PROVE subject'[e] # h
  <2>1. PICK w \in Workers : Record(w) /\ subject'[e] = job[w].host
    BY RecordCases
  <2>2. Carrying(w)
    BY <2>1 DEF Record, Carrying, JobSteps
  <2> QED
    BY <1>0, <2>1, <2>2
<1> QED
  BY <1>0, <1>3, <1>4, RowCases

\* A host that is suppressed and not in flight is left alone by everything that runs
\* then or later, as long as it is suppressed: no worker gets it, its row stays as
\* it is, and no event about it is recorded.
THEOREM SuppressionHolds == Spec => SuppressedIsLeftAlone
<1> DEFINE LeftAlone ==
      \A h \in suppressed \cap suppressed' :
        ~InFlight(h) =>
          /\ ~InFlight(h)'
          /\ h \in DOMAIN hosts => h \in DOMAIN hosts' /\ hosts'[h] = hosts[h]
          /\ \A e \in DOMAIN events' \ DOMAIN events : subject'[e] # h
<1>1. TypeOK /\ ControlInv /\ [Next]_vars => [LeftAlone]_vars
  BY SuppressedStep
<1>2. Spec => [][LeftAlone]_vars
  BY <1>1, ScanTyping, ControlHolds, PTL DEF Spec
<1> QED
  BY <1>2 DEF SuppressedIsLeftAlone

-----------------------------------------------------------------------------
(* Purges.                                                                 *)

\* The console serves at most one request over several hosts at a time.
OneRequest == \A b, c \in Browsers : b = c

\* What is still to be purged is suppressed.
PurgeListed ==
  \A b \in Browsers : bulk[b].op = "purge" => bulk[b].left \subseteq suppressed

\* The steps that change the list of a request or lift a suppression.
LEMMA SuppressionCases ==
  ASSUME TypeOK, [Next]_vars, "unsuppress" \notin Console
  PROVE  \/ /\ \A b \in Browsers : bulk'[b] = bulk[b] \/ bulk'[b].op # "purge"
            /\ suppressed \subseteq suppressed'
         \/ \E b \in Browsers : OpenPurge(b)
         \/ \E b \in Browsers, h \in Hosts : PurgeNext(b, h)
<1> USE DEF tables, runner
<1>1. CASE UNCHANGED <<bulk, suppressed>>
  BY <1>1
<1>2. ASSUME NEW p \in Senders, NotifyNext(p) PROVE UNCHANGED <<bulk, suppressed>>
  BY <1>2 DEF NotifyNext, Deliver, Refuse, LoseAnswer, MarkNotified, MarkFails
<1>3. ASSUME NEW p \in Processes, RunnerNext(p) \/ Cancel(p) \/ Crash(p)
      PROVE  UNCHANGED suppressed /\ (UNCHANGED bulk \/ bulk' = [b \in Browsers |-> NoBulk])
  BY <1>3 DEF RunnerNext, StartScan, StartFails, ReadPending, RetryNext, Discover, DiscoverFails, EndScan, StopFeeding,
              SkipHost, Cancel, Crash
<1>4. ASSUME NEW w \in Workers, WorkerNext(w) PROVE UNCHANGED <<bulk, suppressed>>
  <2>1. CASE NotifyNext(w)
    BY <1>2, <2>1 DEF Senders
  <2> QED
    BY <1>4, <2>1 DEF WorkerNext, TakeHost, Resolve, Unresolved, Probe, UpsertCertificate, Link,
                      Evaluated, SetState, Record, GiveUp
<1>5. NoBulk.op # "purge" /\ \A list : [op |-> "suppress", left |-> list].op # "purge"
  BY DEF NoBulk
<1>6. ASSUME NEW b \in Browsers, NEW x, bulk' = [bulk EXCEPT ![b] = x], x.op # "purge"
      PROVE  \A c \in Browsers : bulk'[c] = bulk[c] \/ bulk'[c].op # "purge"
  BY <1>6 DEF TypeOK
<1>7. ASSUME NEW b \in Browsers, NEW h \in Hosts, SuppressNext(b, h)
      PROVE  /\ \A c \in Browsers : bulk'[c] = bulk[c] \/ bulk'[c].op # "purge"
             /\ suppressed \subseteq suppressed'
  <2>1. bulk[b].op = "suppress" /\ suppressed' = SuppressHost(suppressed, h) /\ WorkOff(b, h)
    BY <1>7 DEF SuppressNext
  <2>2. CASE bulk' = [bulk EXCEPT ![b] = NoBulk]
    BY <1>5, <1>6, <2>1, <2>2 DEF SuppressHost
  <2>3. CASE bulk' = [bulk EXCEPT ![b] = [op |-> @.op, left |-> @.left \ {h}]]
    <3>1. [op |-> bulk[b].op, left |-> bulk[b].left \ {h}].op # "purge"
      BY <2>1
    <3> QED
      BY <1>6, <2>1, <2>3, <3>1 DEF SuppressHost
  <2> QED
    BY <2>1, <2>2, <2>3 DEF WorkOff
<1>8. ASSUME NEW h \in Hosts, Suppress(h) \/ Unsuppress(h)
      PROVE  UNCHANGED bulk /\ suppressed \subseteq suppressed'
  BY <1>8 DEF Suppress, Unsuppress, SuppressHost
<1>9. ASSUME NEW b \in Browsers, OpenSuppressAll(b) \/ BulkFails(b)
      PROVE  /\ \A c \in Browsers : bulk'[c] = bulk[c] \/ bulk'[c].op # "purge"
             /\ UNCHANGED suppressed
  BY <1>5, <1>6, <1>9 DEF OpenSuppressAll, BulkFails
<1>10. CASE ConsoleNext
  BY <1>1, <1>7, <1>8, <1>9, <1>10 DEF ConsoleNext, Acknowledge
<1>11. CASE UNCHANGED vars \/ Tick \/ \E h \in Hosts : Replace(h)
  BY <1>1, <1>11 DEF vars, Tick, Replace
<1> QED
  BY <1>1, <1>2, <1>3, <1>4, <1>5, <1>10, <1>11 DEF Next, Senders

\* Rows of hosts are removed by purges only.
LEMMA RowsRemoved ==
  ASSUME TypeOK, [Next]_vars, NEW h \in DOMAIN hosts \ DOMAIN hosts'
  PROVE  \E b \in Browsers : h \in bulk[b].left /\ bulk[b].op = "purge"
<1> USE DEF tables
<1>1. ~UNCHANGED hosts
  OBVIOUS
<1>2. ASSUME NEW q \in Senders, NotifyNext(q) PROVE FALSE
  BY <1>1, <1>2 DEF NotifyNext, Deliver, Refuse, LoseAnswer, MarkNotified, MarkFails
<1>3. ASSUME NEW q \in Processes, RunnerNext(q) \/ Cancel(q) \/ Crash(q) PROVE FALSE
  BY <1>1, <1>3 DEF RunnerNext, StartScan, StartFails, ReadPending, RetryNext, Discover, DiscoverFails, EndScan,
                    StopFeeding, SkipHost, Cancel, Crash
<1>4. ASSUME NEW w \in Workers, WorkerNext(w) PROVE FALSE
  <2>1. CASE NotifyNext(w)
    BY <1>2, <2>1 DEF Senders
  <2>2. CASE TakeHost(w)
    BY <2>2 DEF TakeHost, UpsertHost, Upserted
  <2>3. CASE Resolve(w)
    BY <2>3 DEF Resolve, MarkHostResolved
  <2> QED
    BY <1>1, <1>4, <2>1, <2>2, <2>3 DEF WorkerNext, Unresolved, Probe, UpsertCertificate, Link,
                                        Evaluated, SetState, Record, GiveUp
<1>5. ASSUME NEW b \in Browsers, NEW g \in Hosts, PurgeNext(b, g)
      PROVE  h \in bulk[b].left /\ bulk[b].op = "purge"
  BY <1>1, <1>5 DEF PurgeNext, WorkOff, PurgedHosts, Without
<1>6. ASSUME NEW g \in Hosts, Suppress(g) \/ Unsuppress(g) PROVE FALSE
  BY <1>1, <1>6 DEF Suppress, Unsuppress
<1>9. ASSUME NEW b \in Browsers, NEW g \in Hosts, SuppressNext(b, g) PROVE FALSE
  BY <1>1, <1>9 DEF SuppressNext
<1>7. CASE ConsoleNext
  BY <1>1, <1>5, <1>6, <1>7, <1>9 DEF ConsoleNext, OpenSuppressAll, OpenPurge, BulkFails, Acknowledge
<1>8. CASE UNCHANGED vars \/ Tick \/ \E g \in Hosts : Replace(g)
  BY <1>1, <1>8 DEF vars, Tick, Replace
<1> QED
  BY <1>2, <1>3, <1>4, <1>7, <1>8 DEF Next, Senders

LEMMA PurgeListedStep ==
  ASSUME "unsuppress" \notin Console, OneRequest, TypeOK, PurgeListed, [Next]_vars
  PROVE  PurgeListed'
<1>1. ASSUME NEW b \in Browsers, OpenPurge(b) PROVE PurgeListed'
  <2>1. PICK list \in {suppressed} \cup {{h} : h \in suppressed} :
          bulk' = [bulk EXCEPT ![b] = [op |-> "purge", left |-> list]]
    BY <1>1 DEF OpenPurge
  <2>2. UNCHANGED suppressed /\ list \subseteq suppressed
    BY <1>1 DEF OpenPurge, tables
  <2> QED
    BY <2>1, <2>2 DEF PurgeListed, TypeOK
<1>2. ASSUME NEW b \in Browsers, NEW h \in Hosts, PurgeNext(b, h) PROVE PurgeListed'
  <2>1. /\ bulk[b].op = "purge" /\ WorkOff(b, h)
        /\ suppressed' = suppressed \ {h} /\ bulk[b].left \subseteq suppressed
    BY <1>2 DEF PurgeNext, PurgeListed
  <2>2. \A c \in Browsers : c = b
    BY DEF OneRequest
  <2>3. bulk'[b].op = "purge" => bulk'[b].left = bulk[b].left \ {h}
    BY <2>1 DEF WorkOff, NoBulk, TypeOK
  <2> QED
    BY <2>1, <2>2, <2>3 DEF PurgeListed
<1> QED
  BY <1>1, <1>2, SuppressionCases DEF PurgeListed

\* As long as nobody restores a host and the console serves one request over several
\* hosts at a time, purges remove suppressed hosts only, also in the middle of scans.
\* (Both are needed: the list of a purge can be overtaken by a restore, or by a second
\* purge of the same host and a scan that finds it again.)
THEOREM PurgesAreOfSuppressed ==
  "unsuppress" \notin Console /\ OneRequest => (Spec => OnlySuppressedPurged)
<1> DEFINE Suppressed == \A h \in DOMAIN hosts \ DOMAIN hosts' : h \in suppressed
<1>1. TypeOK /\ PurgeListed /\ [Next]_vars => [Suppressed]_vars
  BY RowsRemoved DEF PurgeListed
<1>2. Init => PurgeListed
  BY DEF Init, PurgeListed, NoBulk
<1>3. CASE "unsuppress" \notin Console /\ OneRequest
  <2>1. TypeOK /\ PurgeListed /\ [Next]_vars => PurgeListed'
    BY <1>3, PurgeListedStep
  <2>2. Spec => [][Suppressed]_vars
    BY <1>1, <1>2, <2>1, ScanTyping, PTL DEF Spec
  <2> QED
    BY <2>2 DEF OnlySuppressedPurged
<1> QED
  BY <1>3

-----------------------------------------------------------------------------
(* Duplicates.                                                             *)

\* No call fails and nobody stops a process, so that whatever a worker has begun
\* it ends. Names need not resolve, and notifications may fail.
Unbroken == Faults \cap {"error", "crash", "cancel"} = {}

LEMMA NotCancelled ==
  ASSUME Unbroken, TypeOK, \A p \in Processes : ~cancelled[p], [Next]_vars
  PROVE  \A p \in Processes : ~cancelled'[p]
<1> USE DEF runner
<1>1. CASE UNCHANGED cancelled
  BY <1>1
<1>2. ASSUME NEW p \in Senders, NotifyNext(p) PROVE UNCHANGED cancelled
  BY <1>2 DEF NotifyNext, Deliver, Refuse, LoseAnswer, MarkNotified, MarkFails
<1>3. ASSUME NEW p \in Processes, RunnerNext(p) \/ Cancel(p) \/ Crash(p)
      PROVE  \A q \in Processes : ~cancelled'[q]
  <2>1. UNCHANGED cancelled \/ cancelled' = [cancelled EXCEPT ![p] = FALSE]
    BY <1>3 DEF RunnerNext, StartScan, StartFails, ReadPending, RetryNext, Discover, DiscoverFails, EndScan, StopFeeding,
                SkipHost, Cancel, Crash, Unbroken
  <2> QED
    BY <2>1 DEF TypeOK
<1>4. ASSUME NEW w \in Workers, WorkerNext(w) PROVE UNCHANGED cancelled
  <2>1. CASE NotifyNext(w)
    BY <1>2, <2>1 DEF Senders
  <2> QED
    BY <1>4, <2>1 DEF WorkerNext, TakeHost, Resolve, Unresolved, Probe, UpsertCertificate, Link,
                      Evaluated, SetState, Record, GiveUp
<1>5. CASE ConsoleNext
  BY <1>1, <1>5 DEF ConsoleNext, Suppress, Unsuppress, SuppressNext, PurgeNext, WorkOff, OpenSuppressAll, OpenPurge,
                    BulkFails, Acknowledge
<1>6. CASE UNCHANGED vars \/ Tick \/ \E h \in Hosts : Replace(h)
  BY <1>1, <1>6 DEF vars, Tick, Replace
<1> QED
  BY <1>1, <1>2, <1>3, <1>4, <1>5, <1>6 DEF Next, Senders

\* What makes a call of notifyEvent end after a notifier has received the event and
\* before the mark: an answer that is lost, a mark that fails, the end of the process,
\* or, if an event goes to several notifiers, a refusal by one of them.
Unfinished ==
  \/ Faults \cap {"error", "lost", "crash", "cancel"} # {}
  \/ /\ "refused" \in Faults
     /\ \E m, n \in Notifiers : m # n /\ Handles[m] \cap Handles[n] # {}

\* What a notifier has received is marked, or on its way to the mark in the one call
\* that sends it; what waits to be sent again was received by nobody.
OnceInv ==
  /\ \A p \in Processes : ~cancelled[p] /\ (phase[p] # "retry" => pending[p] = {})
  /\ \A p \in Processes : \A e \in pending[p] :
       /\ ~events[e].notified
       /\ \A s \in Senders : notify[s].event # e
       /\ \A d \in delivered : d[1] # e
  /\ \A s \in Senders : notify[s].event # 0 => ~events[notify[s].event].notified
  /\ \A d \in delivered :
       /\ d[1] \in DOMAIN events /\ d[2] \in Notifiers /\ HandledBy(d[1], d[2])
       /\ \/ events[d[1]].notified
          \/ \E s \in Senders : notify[s].event = d[1] /\ d[2] < notify[s].next
  /\ NoDuplicateNotification

LEMMA InitOnce == Init => OnceInv
BY DEF Init, OnceInv, NoCall, NoDuplicateNotification, Senders

\* Calls and lists of events to retry are about events of the ledger.
LEMMA EventsTyped ==
  ASSUME TypeOK
  PROVE  /\ 0 \notin DOMAIN events
         /\ \A p \in Processes : \A e \in pending[p] : e \in DOMAIN events
         /\ \A s \in Senders : notify[s].event # 0 => notify[s].event \in DOMAIN events
<1>1. events \in Seq(EventRow) /\ pending \in [Processes -> SUBSET DOMAIN events]
  BY DEF TypeOK
<1>2. \A s \in Senders : notify[s].event # 0 => notify[s].event \in DOMAIN events
  BY DEF TypeOK
<1> QED
  BY <1>1, <1>2

\* With one process, a call is the only one about its event.
LEMMA OneCall ==
  ASSUME SingleProcess, ControlInv, NEW s \in Senders, NEW t \in Senders,
         notify[s].event # 0, notify[s].event = notify[t].event
  PROVE  s = t
<1>1. Home(s) = Home(t)
  BY ScanAssumption DEF SingleProcess, Home, Senders
<1> QED
  BY <1>1 DEF ControlInv, OneSenderPerEvent

LEMMA OnceReceived ==
  ASSUME SingleProcess, ~Unfinished, TypeOK, ControlInv, OnceInv,
         NEW s \in Senders, NEW n \in Notifiers, Deliver(s, n)
  PROVE  OnceInv'
<1> DEFINE e == notify[s].event
<1>1. /\ e # 0 /\ e \in DOMAIN events /\ n >= notify[s].next /\ HandledBy(e, n)
      /\ delivered' = delivered \cup {<<e, n>>}
      /\ duplicated' = duplicated \cup ({<<e, n>>} \cap delivered)
      /\ notify' = [notify EXCEPT ![s].next = n + 1]
      /\ UNCHANGED <<events, phase, pending, cancelled>>
  BY DEF Deliver, Reaches, Receive, TypeOK, tables, runner
<1>2. n \in Nat /\ \A t \in Senders : notify[t].next \in Nat
  BY NotifierTyped DEF TypeOK
<1>3. <<e, n>> \notin delivered
  <2> SUFFICES ASSUME <<e, n>> \in delivered PROVE FALSE
    OBVIOUS
  <2>1. ~events[e].notified
    BY <1>1 DEF OnceInv
  <2>2. PICK t \in Senders : notify[t].event = e /\ n < notify[t].next
    BY <2>1 DEF OnceInv
  <2>3. t = s
    BY <1>1, <2>2, OneCall
  <2> QED
    BY <1>1, <1>2, <2>2, <2>3
<1>4. /\ \A t \in Senders : notify'[t].event = notify[t].event
      /\ \A t \in Senders \ {s} : notify'[t].next = notify[t].next
      /\ notify'[s].next = n + 1
  BY <1>1 DEF TypeOK
<1>6. ASSUME NEW d \in delivered
      PROVE  \/ events[d[1]].notified
             \/ \E t \in Senders : notify'[t].event = d[1] /\ d[2] < notify'[t].next
  <2>1. CASE events[d[1]].notified
    BY <2>1
  <2>2. ASSUME NEW t \in Senders, notify[t].event = d[1], d[2] < notify[t].next
        PROVE  notify'[t].event = d[1] /\ d[2] < notify'[t].next
    <3>1. d[2] \in Nat
      BY NotifierTyped DEF OnceInv
    <3> QED
      BY <1>1, <1>2, <1>4, <2>2, <3>1
  <2> QED
    BY <2>1, <2>2 DEF OnceInv
<1>7. \A d \in delivered' : d \in delivered \/ (d[1] = e /\ d[2] = n)
  BY <1>1
<1>8. notify'[s].event = e /\ n < notify'[s].next
  BY <1>2, <1>4
<1>9. \A f, m : HandledBy(f, m)' = HandledBy(f, m)
  BY <1>1 DEF HandledBy
<1>10. \A p \in Processes : \A f \in pending'[p] :
         /\ ~events'[f].notified
         /\ \A t \in Senders : notify'[t].event # f
         /\ \A d \in delivered' : d[1] # f
  BY <1>1, <1>4, <1>7 DEF OnceInv
<1>11. \A d \in delivered' :
         /\ d[1] \in DOMAIN events' /\ d[2] \in Notifiers /\ HandledBy(d[1], d[2])'
         /\ \/ events'[d[1]].notified
            \/ \E t \in Senders : notify'[t].event = d[1] /\ d[2] < notify'[t].next
  BY <1>1, <1>6, <1>7, <1>8, <1>9 DEF OnceInv
<1>12. NoDuplicateNotification'
  BY <1>1, <1>3 DEF OnceInv, NoDuplicateNotification
<1> QED
  BY <1>1, <1>4, <1>10, <1>11, <1>12 DEF OnceInv

\* A refusal ends a call that no notifier has answered.
LEMMA OnceRefused ==
  ASSUME SingleProcess, ~Unfinished, TypeOK, ControlInv, OnceInv,
         NEW s \in Senders, NEW n \in Notifiers, Refuse(s, n)
  PROVE  OnceInv'
<1> DEFINE e == notify[s].event
<1>1. /\ e # 0 /\ e \in DOMAIN events /\ n >= notify[s].next /\ HandledBy(e, n)
      /\ Return(s) /\ UNCHANGED <<events, phase, pending, cancelled, delivered, duplicated>>
  BY DEF Refuse, Reaches, TypeOK, tables, runner, history, inboxes
<1>2. ~cancelled[Home(s)]
  BY ScanAssumption DEF OnceInv, Home, Senders
<1>3. "refused" \in Faults
  BY <1>2 DEF Refuse
<1>4. /\ \A t \in Senders \ {s} : notify'[t] = notify[t]
      /\ notify'[s].event = 0
  BY <1>1 DEF Return, TypeOK, NoCall
<1>5. n \in Nat /\ notify[s].next \in Nat
  BY NotifierTyped DEF TypeOK
<1>6. \A d \in delivered : d[1] # e
  <2> SUFFICES ASSUME NEW d \in delivered, d[1] = e PROVE FALSE
    OBVIOUS
  <2>1. ~events[e].notified
    BY <1>1 DEF OnceInv
  <2>2. PICK t \in Senders : notify[t].event = e /\ d[2] < notify[t].next
    BY <2>1 DEF OnceInv
  <2>3. t = s
    BY <1>1, <2>2, OneCall
  <2>4. d[2] \in Notifiers /\ HandledBy(e, d[2])
    BY DEF OnceInv
  <2>5. d[2] = n
    BY <1>1, <1>3, <2>4 DEF Unfinished, HandledBy
  <2> QED
    BY <1>1, <1>5, <2>2, <2>3, <2>5
<1>7. \A f, m : HandledBy(f, m)' = HandledBy(f, m)
  BY <1>1 DEF HandledBy
<1>8. 0 \notin DOMAIN events /\ \A p \in Processes : \A f \in pending[p] : f \in DOMAIN events
  BY EventsTyped
<1>9. \A p \in Processes : \A f \in pending'[p] :
         /\ ~events'[f].notified
         /\ \A t \in Senders : notify'[t].event # f
         /\ \A d \in delivered' : d[1] # f
  BY <1>1, <1>4, <1>8 DEF OnceInv
<1>10. \A t \in Senders : notify'[t].event # 0 => ~events'[notify'[t].event].notified
  BY <1>1, <1>4 DEF OnceInv
<1>11. \A d \in delivered' :
         /\ d[1] \in DOMAIN events' /\ d[2] \in Notifiers /\ HandledBy(d[1], d[2])'
         /\ \/ events'[d[1]].notified
            \/ \E t \in Senders : notify'[t].event = d[1] /\ d[2] < notify'[t].next
  BY <1>1, <1>4, <1>6, <1>7 DEF OnceInv
<1> QED
  BY <1>1, <1>9, <1>10, <1>11 DEF OnceInv, NoDuplicateNotification

LEMMA OnceMarked ==
  ASSUME SingleProcess, TypeOK, ControlInv, OnceInv, NEW s \in Senders, MarkNotified(s)
  PROVE  OnceInv'
<1> DEFINE e == notify[s].event
<1>0. events \in Seq(EventRow)
  BY DEF TypeOK
<1>1. /\ e # 0 /\ e \in DOMAIN events /\ events' = MarkEventNotified(events, e)
      /\ Return(s) /\ UNCHANGED <<phase, pending, cancelled, delivered, duplicated>>
  BY DEF MarkNotified, TypeOK, runner, history, inboxes
<1>2. /\ \A t \in Senders \ {s} : notify'[t] = notify[t]
      /\ notify'[s].event = 0
  BY <1>1 DEF Return, TypeOK, NoCall
<1>3. /\ DOMAIN events' = DOMAIN events /\ events'[e].notified
      /\ \A f \in DOMAIN events : events'[f].kind = events[f].kind
      /\ \A f \in DOMAIN events \ {e} : events'[f] = events[f]
  <2>1. events' = [events EXCEPT ![e] = [events[e] EXCEPT !.notified = TRUE]]
    BY <1>1 DEF MarkEventNotified
  <2>2. events[e] \in EventRow
    BY <1>0, <1>1
  <2> QED
    BY <1>0, <1>1, <2>1, <2>2 DEF EventRow
<1>4. \A t \in Senders \ {s} : notify[t].event # e
  BY <1>1, OneCall
<1>5. \A f \in DOMAIN events : \A m : HandledBy(f, m)' = HandledBy(f, m)
  BY <1>3 DEF HandledBy
<1>6. 0 \notin DOMAIN events
  BY <1>0
<1>7. \A p \in Processes : \A f \in pending'[p] :
         /\ ~events'[f].notified
         /\ \A t \in Senders : notify'[t].event # f
         /\ \A d \in delivered' : d[1] # f
  <2>1. \A p \in Processes : \A f \in pending[p] : f \in DOMAIN events /\ f # e
    BY EventsTyped DEF OnceInv
  <2> QED
    BY <1>1, <1>2, <1>3, <1>6, <2>1 DEF OnceInv
<1>8. \A t \in Senders : notify'[t].event # 0 => ~events'[notify'[t].event].notified
  BY <1>2, <1>3, <1>4, EventsTyped DEF OnceInv
<1>9. \A d \in delivered' :
         /\ d[1] \in DOMAIN events' /\ d[2] \in Notifiers /\ HandledBy(d[1], d[2])'
         /\ \/ events'[d[1]].notified
            \/ \E t \in Senders : notify'[t].event = d[1] /\ d[2] < notify'[t].next
  BY <1>1, <1>2, <1>3, <1>5 DEF OnceInv
<1> QED
  BY <1>1, <1>7, <1>8, <1>9 DEF OnceInv, NoDuplicateNotification

LEMMA OnceRecorded ==
  ASSUME SingleProcess, TypeOK, ControlInv, OnceInv, [Next]_vars, NEW w \in Workers, Record(w)
  PROVE  OnceInv'
<1> DEFINE e == Len(events) + 1
<1>0. events \in Seq(EventRow)
  BY DEF TypeOK
<1>1. /\ events' = RecordEvent(events, job[w].event, job[w].cert, job[w].id)
      /\ notify' = [notify EXCEPT ![w] = [event |-> e, next |-> 1]]
      /\ UNCHANGED <<phase, pending, cancelled, delivered, duplicated>>
      /\ job[w].pc = "event"
  BY DEF Record, runner, inboxes
<1>2. /\ \A t \in Senders \ {w} : notify'[t] = notify[t]
      /\ notify'[w].event = e /\ w \in Senders
  BY <1>1 DEF TypeOK, Senders
<1>3. /\ DOMAIN events' = DOMAIN events \cup {e} /\ ~events'[e].notified
      /\ \A f \in DOMAIN events : events'[f] = events[f]
      /\ e \notin DOMAIN events
  <2>1. events' = Append(events, [kind |-> job[w].event, cert |-> job[w].cert, id |-> job[w].id,
                                  notified |-> FALSE, acked |-> FALSE])
    BY <1>1 DEF RecordEvent
  <2>2. Len(events') = e /\ events' \in Seq(EventRow)
    BY <2>1, <1>0, TypeStep DEF TypeOK
  <2> QED
    BY <1>0, <2>1, <2>2
<1>4. notify[w].event = 0
  BY <1>1 DEF ControlInv, PhasesHold
<1>5. \A p \in Processes : pending[p] = {}
  BY <1>1, ScanAssumption DEF SingleProcess, ControlInv, PhasesHold, OnceInv, IdleJob
<1>6. \A f \in DOMAIN events : \A m : HandledBy(f, m)' = HandledBy(f, m)
  BY <1>3 DEF HandledBy
<1>7. \A t \in Senders : notify'[t].event # 0 => ~events'[notify'[t].event].notified
  BY <1>2, <1>3, EventsTyped DEF OnceInv
<1>8. \A d \in delivered' :
         /\ d[1] \in DOMAIN events' /\ d[2] \in Notifiers /\ HandledBy(d[1], d[2])'
         /\ \/ events'[d[1]].notified
            \/ \E t \in Senders : notify'[t].event = d[1] /\ d[2] < notify'[t].next
  <2>1. 0 \notin DOMAIN events
    BY <1>0
  <2> QED
    BY <1>1, <1>2, <1>3, <1>4, <1>6, <2>1 DEF OnceInv
<1> QED
  BY <1>1, <1>5, <1>7, <1>8 DEF OnceInv, NoDuplicateNotification

\* Without a call in flight, what is not marked was received by nobody.
LEMMA OnceStarted ==
  ASSUME SingleProcess, TypeOK, ControlInv, OnceInv, NEW p \in Processes, ReadPending(p)
  PROVE  OnceInv'
<1>1. /\ phase[p] = "start" /\ phase' = [phase EXCEPT ![p] = "retry"]
      /\ pending' = [pending EXCEPT ![p] = PendingEvents(events)]
      /\ UNCHANGED <<events, notify, cancelled, delivered, duplicated>>
  BY DEF ReadPending, tables, history, inboxes
<1>2. \A s \in Senders : notify[s].event = 0
  BY <1>1, ScanAssumption DEF SingleProcess, ControlInv, PhasesHold, IdleJob, Senders
<1>3. \A q \in Processes : q = p
  BY DEF SingleProcess
<1>4. phase'[p] = "retry" /\ pending'[p] = {e \in DOMAIN events : ~events[e].notified}
  BY <1>1 DEF TypeOK, PendingEvents
<1>5. 0 \notin DOMAIN events
  BY DEF TypeOK
<1>6. \A d \in delivered : events[d[1]].notified
  BY <1>2, <1>5 DEF OnceInv
<1>7. \A f, m : HandledBy(f, m)' = HandledBy(f, m)
  BY <1>1 DEF HandledBy
<1>8. \A q \in Processes : \A f \in pending'[q] :
         /\ ~events'[f].notified
         /\ \A t \in Senders : notify'[t].event # f
         /\ \A d \in delivered' : d[1] # f
  BY <1>1, <1>2, <1>3, <1>4, <1>5, <1>6
<1> QED
  BY <1>1, <1>2, <1>3, <1>4, <1>6, <1>7, <1>8 DEF OnceInv, NoDuplicateNotification

LEMMA OnceRetried ==
  ASSUME SingleProcess, TypeOK, ControlInv, OnceInv, NEW p \in Processes, RetryNext(p)
  PROVE  OnceInv'
<1>1. PICK e \in pending[p] :
        /\ phase[p] = "retry" /\ notify[p] = NoCall
        /\ notify' = [notify EXCEPT ![p] = [event |-> e, next |-> 1]]
        /\ pending' = [pending EXCEPT ![p] = @ \ {e}]
        /\ UNCHANGED <<events, phase, cancelled, delivered, duplicated>>
  BY DEF RetryNext, tables, history, inboxes
<1>2. /\ \A t \in Senders \ {p} : notify'[t] = notify[t]
      /\ notify'[p].event = e /\ notify[p].event = 0
  BY <1>1 DEF TypeOK, Senders, NoCall
<1>3. \A q \in Processes : q = p
  BY DEF SingleProcess
<1>4. pending'[p] = pending[p] \ {e}
  BY <1>1 DEF TypeOK
<1>5. 0 \notin DOMAIN events
  BY DEF TypeOK
<1>6. \A f, m : HandledBy(f, m)' = HandledBy(f, m)
  BY <1>1 DEF HandledBy
<1>7. \A q \in Processes : \A f \in pending'[q] :
         /\ ~events'[f].notified
         /\ \A t \in Senders : notify'[t].event # f
         /\ \A d \in delivered' : d[1] # f
  BY <1>1, <1>2, <1>3, <1>4 DEF OnceInv
<1>8. \A t \in Senders : notify'[t].event # 0 => ~events'[notify'[t].event].notified
  BY <1>1, <1>2 DEF OnceInv
<1>9. \A d \in delivered' :
         /\ d[1] \in DOMAIN events' /\ d[2] \in Notifiers /\ HandledBy(d[1], d[2])'
         /\ \/ events'[d[1]].notified
            \/ \E t \in Senders : notify'[t].event = d[1] /\ d[2] < notify'[t].next
  BY <1>1, <1>2, <1>5, <1>6 DEF OnceInv
<1> QED
  BY <1>1, <1>3, <1>7, <1>8, <1>9 DEF OnceInv, NoDuplicateNotification

\* The steps that touch what OnceInv is about.
LEMMA OnceCases ==
  ASSUME ~Unfinished, TypeOK, OnceInv, [Next]_vars
  PROVE  \/ /\ UNCHANGED <<events, notify, delivered, duplicated, pending>>
            /\ \A p \in Processes : phase'[p] # "retry" => pending[p] = {}
         \/ \E s \in Senders : \/ \E n \in Notifiers : Deliver(s, n) \/ Refuse(s, n)
                               \/ MarkNotified(s)
         \/ \E p \in Processes : ReadPending(p) \/ RetryNext(p)
         \/ \E w \in Workers : Record(w)
         \/ \E e \in DOMAIN events : Acknowledge(e)
<1> USE DEF tables, runner, history, inboxes
<1>1. CASE UNCHANGED <<events, notify, delivered, duplicated, pending, phase>>
  BY <1>1 DEF OnceInv
<1>2. ASSUME NEW s \in Senders, NotifyNext(s)
      PROVE  MarkNotified(s) \/ \E n \in Notifiers : Deliver(s, n) \/ Refuse(s, n)
  <2>1. ~cancelled[Home(s)]
    BY ScanAssumption DEF OnceInv, Home, Senders
  <2> QED
    BY <1>2, <2>1 DEF NotifyNext, LoseAnswer, MarkFails, Unfinished
<1>3. ASSUME NEW p \in Processes, RunnerNext(p)
      PROVE  \/ ReadPending(p) \/ RetryNext(p)
             \/ /\ UNCHANGED <<events, notify, delivered, duplicated, pending>>
                /\ \A q \in Processes : phase'[q] # "retry" => pending[q] = {}
  <2>1. CASE StopFeeding(p) \/ SkipHost(p)
    BY <1>1, <2>1 DEF StopFeeding, SkipHost, OnceInv
  <2>2. CASE StartScan(p) \/ StartFails(p) \/ Discover(p) \/ DiscoverFails(p) \/ EndScan(p)
    <3>1. /\ UNCHANGED <<events, notify, delivered, duplicated, pending>> /\ pending[p] = {}
          /\ \E x \in {"idle", "start", "scan"} : phase' = [phase EXCEPT ![p] = x]
      BY <2>2 DEF StartScan, StartFails, Discover, DiscoverFails, EndScan, OnceInv
    <3>2. \A q \in Processes \ {p} : phase'[q] = phase[q]
      BY <3>1 DEF TypeOK
    <3> QED
      BY <3>1, <3>2 DEF OnceInv
  <2> QED
    BY <1>3, <2>1, <2>2 DEF RunnerNext
<1>4. ASSUME NEW w \in Workers, WorkerNext(w)
      PROVE  \/ NotifyNext(w) \/ Record(w)
             \/ UNCHANGED <<events, notify, delivered, duplicated, pending, phase>>
  BY <1>4 DEF WorkerNext, TakeHost, Resolve, Unresolved, Probe, UpsertCertificate, Link,
              Evaluated, SetState, GiveUp
<1>5. ASSUME NEW p \in Processes PROVE ~Cancel(p) /\ ~Crash(p)
  BY DEF Cancel, Crash, Unfinished
<1>6. CASE ConsoleNext
  <2>1. ASSUME NEW h \in Hosts, Suppress(h) \/ Unsuppress(h)
        PROVE  UNCHANGED <<events, notify, delivered, duplicated, pending, phase>>
    BY <2>1 DEF Suppress, Unsuppress
  <2>2. ASSUME NEW b \in Browsers, NEW h \in Hosts, SuppressNext(b, h) \/ PurgeNext(b, h)
        PROVE  UNCHANGED <<events, notify, delivered, duplicated, pending, phase>>
    BY <2>2 DEF SuppressNext, PurgeNext
  <2> QED
    BY <1>1, <1>6, <2>1, <2>2 DEF ConsoleNext, OpenSuppressAll, OpenPurge, BulkFails
<1>7. CASE UNCHANGED vars \/ Tick \/ \E h \in Hosts : Replace(h)
  BY <1>1, <1>7 DEF vars, Tick, Replace
<1> QED
  BY <1>1, <1>2, <1>3, <1>4, <1>5, <1>6, <1>7 DEF Next, Senders

LEMMA OnceStep ==
  ASSUME SingleProcess, ~Unfinished, TypeOK, ControlInv, OnceInv, [Next]_vars PROVE OnceInv'
<1>1. \A p \in Processes : ~cancelled'[p]
  BY NotCancelled DEF OnceInv, Unbroken, Unfinished
<1>2. CASE /\ UNCHANGED <<events, notify, delivered, duplicated, pending>>
           /\ \A p \in Processes : phase'[p] # "retry" => pending[p] = {}
  BY <1>1, <1>2 DEF OnceInv, NoDuplicateNotification, HandledBy
<1>3. ASSUME NEW e \in DOMAIN events, Acknowledge(e) PROVE OnceInv'
  <2>0. events \in Seq(EventRow)
    BY DEF TypeOK
  <2>1. /\ events' = AcknowledgeEvent(events, e)
        /\ UNCHANGED <<notify, delivered, duplicated, pending, phase>>
    BY <1>3 DEF Acknowledge, runner, history, inboxes
  <2>2. /\ DOMAIN events' = DOMAIN events
        /\ \A f \in DOMAIN events : /\ events'[f].kind = events[f].kind
                                    /\ events'[f].notified = events[f].notified
    <3>1. events' = [events EXCEPT ![e] = [events[e] EXCEPT !.acked = TRUE]]
      BY <2>1 DEF AcknowledgeEvent
    <3>2. events[e] \in EventRow
      BY <2>0
    <3> QED
      BY <2>0, <3>1, <3>2 DEF EventRow
  <2> QED
    BY <1>1, <2>1, <2>2, EventsTyped DEF OnceInv, NoDuplicateNotification, HandledBy
<1> QED
  BY <1>2, <1>3, OnceCases, OnceReceived, OnceRefused, OnceMarked, OnceRecorded, OnceStarted,
     OnceRetried

\* A notifier gets an event twice only where a call of notifyEvent can be left unfinished
\* or two processes share the database. Otherwise refused events are retried, through
\* whatever failures of lookups and discovery, and none is received twice.
THEOREM DuplicatesHaveCauses ==
  SingleProcess /\ ~Unfinished => (Spec => []NoDuplicateNotification)
<1>1. SingleProcess /\ ~Unfinished /\ TypeOK /\ ControlInv /\ OnceInv /\ [Next]_vars => OnceInv'
  BY OnceStep
<1>2. OnceInv => NoDuplicateNotification
  BY DEF OnceInv
<1>3. CASE SingleProcess /\ ~Unfinished
  <2>1. TypeOK /\ ControlInv /\ OnceInv /\ [Next]_vars => OnceInv'
    BY <1>1, <1>3
  <2> QED
    BY <1>2, <2>1, InitOnce, ScanTyping, ControlHolds, PTL DEF Spec
<1> QED
  BY <1>3
=============================================================================
