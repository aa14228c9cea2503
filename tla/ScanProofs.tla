----------------------------- MODULE ScanProofs -----------------------------
(***************************************************************************)
(* Proofs about Scan for any number of processes on the database, of       *)
(* workers, hosts, certificates and notifiers, all faults and all console  *)
(* requests. First typing. Then the delivery of events: the ledger only    *)
(* grows, the pipeline implements module Outbox, and a mark and a delivery *)
(* mean what Outbox says. What makes that inductive is that a call of      *)
(* notifyEvent remembers truthfully how far down the list it has got.      *)
(***************************************************************************)
EXTENDS Scan, SequenceTheorems, TLAPS

-----------------------------------------------------------------------------
(* Typing.                                                                 *)

\* The two updates of a ledger row set a mark and leave the rest alone.
LEMMA MarksTyped ==
  ASSUME NEW l \in Seq(EventRow), NEW e \in DOMAIN l, NEW m,
         m \in {MarkEventNotified(l, e), AcknowledgeEvent(l, e)}
  PROVE  m \in Seq(EventRow) /\ Len(m) = Len(l) /\ DOMAIN m = DOMAIN l
<1>1. l[e] \in EventRow /\ e \in 1..Len(l)
  OBVIOUS
<1>2. ASSUME NEW row \in EventRow
      PROVE  LET t == [l EXCEPT ![e] = row]
             IN  t \in Seq(EventRow) /\ Len(t) = Len(l) /\ DOMAIN t = DOMAIN l
  BY <1>1, ExceptSeq
<1>3. [l[e] EXCEPT !.notified = TRUE] \in EventRow /\ [l[e] EXCEPT !.acked = TRUE] \in EventRow
  BY <1>1 DEF EventRow
<1>4. /\ MarkEventNotified(l, e) = [l EXCEPT ![e] = [l[e] EXCEPT !.notified = TRUE]]
      /\ AcknowledgeEvent(l, e) = [l EXCEPT ![e] = [l[e] EXCEPT !.acked = TRUE]]
  BY DEF MarkEventNotified, AcknowledgeEvent
<1>5. CASE m = MarkEventNotified(l, e)
  BY <1>2, <1>3, <1>4, <1>5
<1>6. CASE m = AcknowledgeEvent(l, e)
  BY <1>2, <1>3, <1>4, <1>6
<1> QED
  BY <1>5, <1>6

\* What a scan of a host stores and raises is a state and an event of the schema,
\* whatever the probe reported and whatever was stored before.
LEMMA VerdictTyped ==
  ASSUME NEW certificate, NEW at, NEW renewed, NEW previousState
  PROVE  /\ StateOf(certificate, at) \in States
         /\ ScanEvent(renewed, StateOf(certificate, at), previousState)
              \in EventKinds \cup {NoEvent}
<1>1. StateOf(certificate, at) \in States
  BY DEF StateOf, States
<1>2. ASSUME NEW s \in States PROVE ScanEvent(renewed, s, previousState) \in EventKinds \cup {NoEvent}
  BY DEF ScanEvent, EventOf, States, EventKinds, NoEvent
<1> QED
  BY <1>1, <1>2

\* The initial state is well typed.
LEMMA InitTyped == Init => TypeOK
<1> SUFFICES ASSUME Init PROVE TypeOK
  OBVIOUS
<1>1. /\ hosts = <<>> /\ links = <<>> /\ states = <<>> /\ events = <<>> /\ subject = <<>>
      /\ stateAt = <<>>
      /\ DOMAIN hosts = {} /\ DOMAIN links = {} /\ DOMAIN states = {} /\ DOMAIN events = {}
  BY DEF Init
<1>2. /\ events \in Seq(EventRow) /\ subject \in Seq(Hosts) /\ Len(subject) = Len(events)
      /\ stateAt \in Seq(States) /\ Len(stateAt) = Len(events)
  BY <1>1
<1>3. /\ hosts \in [DOMAIN hosts -> HostRow] /\ links \in [DOMAIN links -> LinkRow]
      /\ states \in [DOMAIN states -> States]
  BY <1>1
<1>4. job \in [Workers -> Jobs] /\ notify \in [Senders -> [event: Nat, next: Nat]]
  BY DEF Init, IdleJob, NoCall, Jobs
<1>5. \A p \in Senders : notify[p].event = 0
  BY DEF Init, NoCall
<1>6. stops \in 0..MaxStops
  BY ScanAssumption DEF Init
<1>7. bulk \in [Browsers -> [op: {"none", "suppress", "purge"}, left: SUBSET Hosts]]
  BY DEF Init, NoBulk
<1>8. /\ certificates \subseteq Certs /\ suppressed \subseteq Hosts
      /\ queue \in [Processes -> SUBSET Hosts]
      /\ pending \in [Processes -> SUBSET DOMAIN events]
  BY DEF Init
<1>9. /\ now \in Nat /\ served \in [Hosts -> Certs]
      /\ cancelled \in [Processes -> BOOLEAN]
      /\ phase \in [Processes -> {"idle", "start", "retry", "scan"}]
  BY DEF Init
<1> QED
  BY <1>1, <1>2, <1>3, <1>4, <1>5, <1>6, <1>7, <1>8, <1>9 DEF TypeOK

-----------------------------------------------------------------------------
(* Typing is inductive. *)

LEMMA EnvironmentTyped ==
  ASSUME TypeOK, Tick \/ (\E h \in Hosts : Replace(h)) PROVE TypeOK'
<1>1. CASE Tick
  BY <1>1, ScanAssumption DEF TypeOK, Tick, tables, runner, history, inboxes
<1>2. ASSUME NEW h \in Hosts, Replace(h) PROVE TypeOK'
  BY <1>2 DEF TypeOK, Replace, tables, runner, history, inboxes
<1> QED
  BY <1>1, <1>2

LEMMA ReturnTyped ==
  ASSUME TypeOK, NEW p \in Senders, Return(p)
  PROVE  /\ job' \in [Workers -> Jobs]
         /\ notify' \in [Senders -> [event: Nat, next: Nat]]
         /\ \A q \in Senders : notify'[q].event # 0 => notify'[q] = notify[q]
<1>1. IdleJob \in Jobs /\ NoCall \in [event: Nat, next: Nat] /\ NoCall.event = 0
  BY DEF IdleJob, Jobs, NoCall
<1> QED
  BY <1>1 DEF TypeOK, Return

LEMMA NotifyTyped ==
  ASSUME TypeOK, NEW p \in Senders, NotifyNext(p) PROVE TypeOK'
<1>1. ASSUME NEW n \in Notifiers, Deliver(p, n) PROVE TypeOK'
  <2>1. n \in Nat
    BY ScanAssumption DEF Notifiers
  <2>2. /\ notify' \in [Senders -> [event: Nat, next: Nat]]
        /\ \A q \in Senders : notify'[q].event = notify[q].event
    BY <1>1, <2>1 DEF TypeOK, Deliver
  <2> QED
    BY <1>1, <2>2 DEF TypeOK, Deliver, Receive, tables, runner
<1>2. ASSUME NEW n \in Notifiers, Refuse(p, n) PROVE TypeOK'
  BY <1>2, ReturnTyped DEF TypeOK, Refuse, tables, runner, history, inboxes
<1>3. ASSUME NEW n \in Notifiers, LoseAnswer(p, n) PROVE TypeOK'
  BY <1>3, ReturnTyped DEF TypeOK, LoseAnswer, Receive, tables, runner
<1>4. CASE MarkNotified(p)
  <2>1. events' \in Seq(EventRow) /\ Len(events') = Len(events) /\ DOMAIN events' = DOMAIN events
    BY <1>4, MarksTyped DEF TypeOK, MarkNotified
  <2>2. UNCHANGED <<hosts, links, states, certificates, suppressed, now, served, runner,
                    bulk, subject, stateAt>>
    BY <1>4 DEF MarkNotified, history, inboxes
  <2>3. /\ job' \in [Workers -> Jobs] /\ notify' \in [Senders -> [event: Nat, next: Nat]]
        /\ \A q \in Senders : notify'[q].event # 0 => notify'[q].event \in DOMAIN events
    BY <1>4, ReturnTyped DEF MarkNotified, TypeOK
  <2> QED
    BY <2>1, <2>2, <2>3 DEF TypeOK, runner
<1>5. CASE MarkFails(p)
  BY <1>5, ReturnTyped DEF TypeOK, MarkFails, tables, runner, history, inboxes
<1> QED
  BY <1>1, <1>2, <1>3, <1>4, <1>5 DEF NotifyNext

LEMMA RunnerTyped ==
  ASSUME TypeOK, NEW p \in Processes, RunnerNext(p) PROVE TypeOK'
<1>0. CASE StartScan(p) \/ StartFails(p)
  BY <1>0 DEF TypeOK, StartScan, StartFails, tables, history, inboxes
<1>1. CASE ReadPending(p)
  <2>1. PendingEvents(events) \in SUBSET DOMAIN events
    BY DEF PendingEvents
  <2> QED
    BY <1>1, <2>1 DEF TypeOK, ReadPending, tables, history, inboxes
<1>2. CASE RetryNext(p)
  <2>1. PICK e \in pending[p] : /\ notify' = [notify EXCEPT ![p] = [event |-> e, next |-> 1]]
                                /\ pending' = [pending EXCEPT ![p] = @ \ {e}]
    BY <1>2 DEF RetryNext
  <2>2. e \in DOMAIN events /\ e \in Nat /\ p \in Senders
    BY DEF TypeOK, Senders
  <2>3. pending' \in [Processes -> SUBSET DOMAIN events]
    BY <2>1 DEF TypeOK
  <2> QED
    BY <1>2, <2>1, <2>2, <2>3 DEF TypeOK, RetryNext, tables, history, inboxes
<1>3. CASE Discover(p)
  BY <1>3 DEF TypeOK, Discover, tables, history, inboxes
<1>4. CASE DiscoverFails(p)
  BY <1>4 DEF TypeOK, DiscoverFails, tables, history, inboxes
<1>5. CASE EndScan(p)
  BY <1>5 DEF TypeOK, EndScan, tables, history, inboxes
<1>6. CASE StopFeeding(p)
  BY <1>6 DEF TypeOK, StopFeeding, tables, history, inboxes
<1>7. CASE SkipHost(p)
  BY <1>7 DEF TypeOK, SkipHost, tables, history, inboxes
<1> QED
  BY <1>0, <1>1, <1>2, <1>3, <1>4, <1>5, <1>6, <1>7 DEF RunnerNext

LEMMA StopTyped ==
  ASSUME TypeOK, NEW p \in Processes, Cancel(p) \/ Crash(p) PROVE TypeOK'
<1>1. CASE Cancel(p)
  BY <1>1, ScanAssumption DEF TypeOK, Cancel, tables, history, inboxes
<1>2. CASE Crash(p)
  <2>1. /\ job' \in [Workers -> Jobs] /\ notify' \in [Senders -> [event: Nat, next: Nat]]
        /\ \A s \in Senders : notify'[s].event = 0 \/ notify'[s] = notify[s]
        /\ bulk' \in [Browsers -> [op: {"none", "suppress", "purge"}, left: SUBSET Hosts]]
    BY <1>2 DEF Crash, IdleJob, NoCall, NoBulk, Jobs, TypeOK
  <2>2. /\ phase' \in [Processes -> {"idle", "start", "retry", "scan"}]
        /\ pending' \in [Processes -> SUBSET DOMAIN events]
        /\ queue' \in [Processes -> SUBSET Hosts] /\ cancelled' \in [Processes -> BOOLEAN]
    BY <1>2 DEF Crash, TypeOK
  <2>3. stops' \in 0..MaxStops
    BY <1>2, ScanAssumption DEF TypeOK, Crash
  <2> QED
    BY <1>2, <2>1, <2>2, <2>3 DEF TypeOK, Crash, tables, history, inboxes
<1> QED
  BY <1>1, <1>2

LEMMA ConsoleTyped ==
  ASSUME TypeOK, ConsoleNext PROVE TypeOK'
<1>1. ASSUME NEW h \in Hosts, Suppress(h) PROVE TypeOK'
  BY <1>1 DEF TypeOK, Suppress, SuppressHost, runner, history, inboxes
<1>2. ASSUME NEW h \in Hosts, Unsuppress(h) PROVE TypeOK'
  BY <1>2 DEF TypeOK, Unsuppress, UnsuppressHost, runner, history, inboxes
<1>3. ASSUME NEW b \in Browsers, NEW h \in Hosts, WorkOff(b, h)
      PROVE  bulk' \in [Browsers -> [op: {"none", "suppress", "purge"}, left: SUBSET Hosts]]
  <2> DEFINE Requests == [op: {"none", "suppress", "purge"}, left: SUBSET Hosts]
  <2>1. bulk[b] \in Requests /\ NoBulk \in Requests
    BY DEF TypeOK, NoBulk
  <2>2. [op |-> bulk[b].op, left |-> bulk[b].left \ {h}] \in Requests
    BY <2>1
  <2>3. \E request \in Requests : bulk' = [bulk EXCEPT ![b] = request]
    BY <1>3, <2>1, <2>2 DEF WorkOff
  <2> QED
    BY <2>3 DEF TypeOK
<1>4. ASSUME NEW b \in Browsers, NEW h \in Hosts, SuppressNext(b, h) PROVE TypeOK'
  BY <1>3, <1>4 DEF TypeOK, SuppressNext, SuppressHost, runner, history, inboxes
<1>5. ASSUME NEW b \in Browsers, NEW h \in Hosts, PurgeNext(b, h) PROVE TypeOK'
  <2>1. DOMAIN hosts' \subseteq Hosts /\ hosts' \in [DOMAIN hosts' -> HostRow]
    BY <1>5 DEF TypeOK, PurgeNext, PurgedHosts, Without
  <2>2. DOMAIN links' \subseteq Nat /\ links' \in [DOMAIN links' -> LinkRow]
    BY <1>5 DEF TypeOK, PurgeNext, PurgedLinks, Without
  <2>3. DOMAIN states' \subseteq Ids \X Certs /\ states' \in [DOMAIN states' -> States]
    BY <1>5 DEF TypeOK, PurgeNext, PurgedStates, Without
  <2> QED
    BY <1>3, <1>5, <2>1, <2>2, <2>3 DEF TypeOK, PurgeNext, runner, history, inboxes
<1>6. ASSUME NEW b \in Browsers, OpenSuppressAll(b) \/ OpenPurge(b) \/ BulkFails(b)
      PROVE  TypeOK'
  <2>1. bulk' \in [Browsers -> [op: {"none", "suppress", "purge"}, left: SUBSET Hosts]]
    <3> DEFINE Requests == [op: {"none", "suppress", "purge"}, left: SUBSET Hosts]
    <3>1. /\ NoBulk \in Requests
          /\ [op |-> "suppress", left |-> DOMAIN hosts \ suppressed] \in Requests
          /\ \A list \in {suppressed} \cup {{h} : h \in suppressed} :
               [op |-> "purge", left |-> list] \in Requests
      BY DEF TypeOK, NoBulk
    <3>2. \E request \in Requests : bulk' = [bulk EXCEPT ![b] = request]
      BY <1>6, <3>1 DEF OpenSuppressAll, OpenPurge, BulkFails
    <3> QED
      BY <3>2 DEF TypeOK
  <2> QED
    BY <1>6, <2>1 DEF TypeOK, OpenSuppressAll, OpenPurge, BulkFails, tables, runner, history,
                      inboxes
<1>7. ASSUME NEW e \in DOMAIN events, Acknowledge(e) PROVE TypeOK'
  <2>1. events' \in Seq(EventRow) /\ Len(events') = Len(events) /\ DOMAIN events' = DOMAIN events
    BY <1>7, MarksTyped DEF TypeOK, Acknowledge
  <2>2. UNCHANGED <<hosts, links, states, certificates, suppressed, now, served, runner,
                    job, notify, bulk, subject, stateAt>>
    BY <1>7 DEF Acknowledge, history, inboxes
  <2> QED
    BY <2>1, <2>2 DEF TypeOK, runner
<1> QED
  BY <1>1, <1>2, <1>3, <1>4, <1>5, <1>6, <1>7 DEF ConsoleNext

\* The control of a worker tells what it carries.
LEMMA CarriedTyped ==
  ASSUME NEW j \in Jobs
  PROVE  /\ j.pc \in {"resolve", "probe"} =>
              j \in [pc: {"resolve", "probe"}, host: Hosts, id: Ids, at: Nat]
         /\ j.pc \in {"certificate", "link", "state"} =>
              j \in [pc: {"certificate", "link", "state"}, host: Hosts, id: Ids, at: Nat,
                     cert: Certs, chain: BOOLEAN, previous: Certs \cup {NoCert}]
         /\ j.pc = "save" =>
              j \in [pc: {"save"}, host: Hosts, id: Ids, cert: Certs, state: States,
                     event: EventKinds \cup {NoEvent}]
         /\ j.pc = "event" =>
              j \in [pc: {"event"}, host: Hosts, id: Ids, cert: Certs, state: States,
               event: EventKinds]
BY DEF Jobs

LEMMA LatestTyped ==
  ASSUME TypeOK, NEW id
  PROVE  LatestHostCertificate(links, id) \in Certs \cup {NoCert}
BY DEF LatestHostCertificate, TypeOK, LinkRow

LEMMA WorkerTyped ==
  ASSUME TypeOK, NEW w \in Workers, WorkerNext(w) PROVE TypeOK'
<1>0. job[w] \in Jobs /\ IdleJob \in Jobs
  BY DEF TypeOK, Jobs, IdleJob
<1>1. ASSUME NEW j \in Jobs, Proceed(w, j) PROVE job' \in [Workers -> Jobs]
  BY <1>1 DEF TypeOK, Proceed
<1>2. CASE TakeHost(w)
  <2>0. ProcessOf[w] \in Processes
    BY ScanAssumption
  <2>1. PICK h \in queue[ProcessOf[w]], id \in Ids :
          /\ queue' = [queue EXCEPT ![ProcessOf[w]] = @ \ {h}]
          /\ hosts' = UpsertHost(hosts, h, id, "unresolved")
          /\ Proceed(w, [pc |-> "resolve", host |-> h, id |-> id, at |-> now])
    BY <1>2 DEF TakeHost, Ids
  <2>2. h \in Hosts /\ queue' \in [Processes -> SUBSET Hosts]
    BY <2>0, <2>1 DEF TypeOK
  <2>3. [pc |-> "resolve", host |-> h, id |-> id, at |-> now] \in Jobs
    BY <2>2 DEF Jobs, TypeOK
  <2>4. job' \in [Workers -> Jobs]
    BY <1>1, <2>1, <2>3
  <2>5. [id |-> id, status |-> "unresolved"] \in HostRow
    BY DEF HostRow
  <2>6. DOMAIN hosts' \subseteq Hosts /\ hosts' \in [DOMAIN hosts' -> HostRow]
    BY <2>1, <2>2, <2>5 DEF UpsertHost, Upserted, TypeOK
  <2>7. UNCHANGED <<links, states, events, certificates, suppressed, now, served,
                    phase, pending, cancelled, stops, notify, bulk, subject, stateAt>>
    BY <1>2 DEF TakeHost, history, inboxes
  <2> QED
    BY <2>2, <2>4, <2>6, <2>7 DEF TypeOK
<1>3. CASE Resolve(w)
  <2>1. job[w] \in [pc: {"resolve", "probe"}, host: Hosts, id: Ids, at: Nat]
    BY <1>0, <1>3, CarriedTyped DEF Resolve
  <2>2. [job[w] EXCEPT !.pc = "probe"] \in Jobs
    BY <2>1 DEF Jobs
  <2>3. job' \in [Workers -> Jobs]
    BY <1>1, <1>3, <2>2 DEF Resolve
  <2>4. DOMAIN hosts' \subseteq Hosts /\ hosts' \in [DOMAIN hosts' -> HostRow]
    <3>1. hosts' = MarkHostResolved(hosts, job[w].host)
      BY <1>3 DEF Resolve
    <3>2. ASSUME NEW row \in HostRow
          PROVE  [row EXCEPT !.status = "active"] \in HostRow
      BY DEF HostRow
    <3>3. CASE job[w].host \in DOMAIN hosts
      <4>1. hosts' = [hosts EXCEPT ![job[w].host] =
                        [hosts[job[w].host] EXCEPT !.status = "active"]]
        BY <3>1, <3>3 DEF MarkHostResolved
      <4> QED
        BY <3>2, <3>3, <4>1 DEF TypeOK
    <3>4. CASE job[w].host \notin DOMAIN hosts
      BY <3>1, <3>4 DEF MarkHostResolved, TypeOK
    <3> QED
      BY <3>3, <3>4
  <2>5. UNCHANGED <<links, states, events, certificates, suppressed, now, served, runner,
                    notify, bulk, subject, stateAt>>
    BY <1>3 DEF Resolve, history
  <2> QED
    BY <2>3, <2>4, <2>5 DEF TypeOK, runner
<1>4. CASE Unresolved(w)
  BY <1>0, <1>1, <1>4 DEF Unresolved, TypeOK, tables, runner, history, inboxes
<1>5. CASE Probe(w)
  <2>1. job[w] \in [pc: {"resolve", "probe"}, host: Hosts, id: Ids, at: Nat]
    BY <1>0, <1>5, CarriedTyped DEF Probe, ProbeResults
  <2>2. PICK chainComplete \in ChainOutcomes :
          Proceed(w, [pc |-> "certificate", host |-> job[w].host, id |-> job[w].id,
                      at |-> job[w].at, cert |-> served[job[w].host], chain |-> chainComplete,
                      previous |-> LatestHostCertificate(links, job[w].id)])
    BY <1>5 DEF Probe, ProbeResults
  <2>3. chainComplete \in BOOLEAN /\ served[job[w].host] \in Certs
    BY <2>1, ScanAssumption DEF TypeOK
  <2>4. job' \in [Workers -> Jobs]
    BY <1>1, <2>1, <2>2, <2>3, LatestTyped DEF Jobs
  <2> QED
    BY <1>5, <2>4 DEF Probe, ProbeResults, TypeOK, tables, runner
<1>6. CASE UpsertCertificate(w)
  <2>1. job[w] \in [pc: {"certificate", "link", "state"}, host: Hosts, id: Ids, at: Nat,
                    cert: Certs, chain: BOOLEAN, previous: Certs \cup {NoCert}]
    BY <1>0, <1>6, CarriedTyped DEF UpsertCertificate
  <2>2. [job[w] EXCEPT !.pc = "link"] \in Jobs
    BY <2>1 DEF Jobs
  <2>3. job' \in [Workers -> Jobs] /\ certificates' \subseteq Certs
    BY <1>1, <1>6, <2>1, <2>2 DEF UpsertCertificate, TypeOK
  <2> QED
    BY <1>6, <2>3 DEF UpsertCertificate, TypeOK, runner, history, inboxes
<1>7. CASE Link(w)
  <2>1. job[w] \in [pc: {"certificate", "link", "state"}, host: Hosts, id: Ids, at: Nat,
                    cert: Certs, chain: BOOLEAN, previous: Certs \cup {NoCert}]
    BY <1>0, <1>7, CarriedTyped DEF Link
  <2>2. [job[w] EXCEPT !.pc = "state"] \in Jobs
    BY <2>1 DEF Jobs
  <2>3. job' \in [Workers -> Jobs]
    BY <1>1, <1>7, <2>2 DEF Link
  <2>4. PICK row \in LinkRowRange(links) :
          links' = LinkHostCertificate(links, row, job[w].id, job[w].cert, job[w].at)
    BY <1>7 DEF Link
  <2>5. row \in Nat
    BY DEF LinkRowRange, TypeOK
  <2>6. [id |-> job[w].id, cert |-> job[w].cert, at |-> job[w].at] \in LinkRow
    BY <2>1 DEF LinkRow
  <2>7. DOMAIN links' \subseteq Nat /\ links' \in [DOMAIN links' -> LinkRow]
    BY <2>4, <2>5, <2>6 DEF LinkHostCertificate, Upserted, TypeOK
  <2> QED
    BY <1>7, <2>3, <2>7 DEF Link, TypeOK, runner, history, inboxes
<1>8. CASE Evaluated(w)
  <2>1. job[w] \in [pc: {"certificate", "link", "state"}, host: Hosts, id: Ids, at: Nat,
                    cert: Certs, chain: BOOLEAN, previous: Certs \cup {NoCert}]
    BY <1>0, <1>8, CarriedTyped DEF Evaluated
  <2>2. \E state \in States, event \in EventKinds \cup {NoEvent} :
          Proceed(w, [pc |-> "save", host |-> job[w].host, id |-> job[w].id,
                      cert |-> job[w].cert, state |-> state, event |-> event])
    BY <1>8, VerdictTyped DEF Evaluated
  <2>3. job' \in [Workers -> Jobs]
    BY <1>1, <2>1, <2>2 DEF Jobs
  <2> QED
    BY <1>8, <2>3 DEF Evaluated, TypeOK, tables, runner, history, inboxes
<1>9. CASE SetState(w)
  <2>1. job[w] \in [pc: {"save"}, host: Hosts, id: Ids, cert: Certs, state: States,
                    event: EventKinds \cup {NoEvent}]
    BY <1>0, <1>9, CarriedTyped DEF SetState
  <2>2. job[w].event # NoEvent => [job[w] EXCEPT !.pc = "event"] \in Jobs
    BY <2>1 DEF Jobs
  <2>3. job' \in [Workers -> Jobs]
    BY <1>0, <1>1, <1>9, <2>2 DEF SetState
  <2>4. <<job[w].id, job[w].cert>> \in Ids \X Certs /\ job[w].state \in States
    BY <2>1
  <2>5. DOMAIN states' \subseteq Ids \X Certs /\ states' \in [DOMAIN states' -> States]
    BY <1>9, <2>4 DEF SetState, SetCertificateState, Upserted, TypeOK
  <2> QED
    BY <1>9, <2>3, <2>5 DEF SetState, TypeOK, runner, history, inboxes
<1>10. CASE Record(w)
  <2>1. job[w] \in [pc: {"event"}, host: Hosts, id: Ids, cert: Certs, state: States,
               event: EventKinds]
    BY <1>0, <1>10, CarriedTyped DEF Record
  <2>2. [kind |-> job[w].event, cert |-> job[w].cert, id |-> job[w].id,
         notified |-> FALSE, acked |-> FALSE] \in EventRow
    BY <2>1 DEF EventRow
  <2>3. events' \in Seq(EventRow) /\ Len(events') = Len(events) + 1
    BY <1>10, <2>2, AppendProperties DEF Record, RecordEvent, TypeOK
  <2>4. subject' \in Seq(Hosts) /\ Len(subject') = Len(subject) + 1
    BY <1>10, <2>1, AppendProperties DEF Record, TypeOK
  <2>11. stateAt' \in Seq(States) /\ Len(stateAt') = Len(stateAt) + 1
    BY <1>10, <2>1, AppendProperties DEF Record, TypeOK
  <2>5. [pc |-> "notify"] \in Jobs
    BY DEF Jobs
  <2>6. job' \in [Workers -> Jobs]
    BY <1>1, <1>10, <2>5 DEF Record
  <2>7. /\ notify' \in [Senders -> [event: Nat, next: Nat]]
        /\ \A p \in Senders : notify'[p].event # 0 => notify'[p].event \in DOMAIN events'
    <3>1. /\ notify' = [notify EXCEPT ![w] = [event |-> Len(events) + 1, next |-> 1]]
          /\ w \in Senders
      BY <1>10 DEF Record, Senders
    <3>2. /\ DOMAIN events \subseteq DOMAIN events' /\ Len(events) + 1 \in DOMAIN events'
          /\ Len(events) + 1 \in Nat
      BY <2>3 DEF TypeOK
    <3> QED
      BY <3>1, <3>2 DEF TypeOK
  <2>8. pending \in [Processes -> SUBSET DOMAIN events']
    BY <2>3 DEF TypeOK
  <2>9. UNCHANGED <<hosts, links, states, certificates, suppressed, now, served, runner, bulk>>
    BY <1>10 DEF Record
  <2>10. Len(subject') = Len(events') /\ Len(stateAt') = Len(events')
    BY <2>3, <2>4, <2>11 DEF TypeOK
  <2> QED
    BY <2>3, <2>4, <2>6, <2>7, <2>8, <2>9, <2>10, <2>11 DEF TypeOK, runner
<1>11. CASE GiveUp(w)
  BY <1>0, <1>1, <1>11 DEF GiveUp, TypeOK, tables, runner, history, inboxes
<1>12. CASE NotifyNext(w)
  BY <1>12, NotifyTyped DEF Senders
<1> QED
  BY <1>2, <1>3, <1>4, <1>5, <1>6, <1>7, <1>8, <1>9, <1>10, <1>11, <1>12 DEF WorkerNext

LEMMA TypeStep == TypeOK /\ [Next]_vars => TypeOK'
<1> SUFFICES ASSUME TypeOK, [Next]_vars PROVE TypeOK'
  OBVIOUS
<1>1. CASE UNCHANGED vars
  BY <1>1 DEF TypeOK, vars, tables, runner, history, inboxes
<1> QED
  BY <1>1, EnvironmentTyped, RunnerTyped, NotifyTyped, WorkerTyped, StopTyped, ConsoleTyped
     DEF Next, Senders

\* Every reachable state is well typed, whatever fails and whatever the console
\* does: workers carry the fields their position implies, and every event that
\* is pending or being sent is on the ledger.
THEOREM ScanTyping == Spec => []TypeOK
BY InitTyped, TypeStep, PTL DEF Spec

-----------------------------------------------------------------------------
(* Delivery.                                                               *)

\* How far a call has got: whatever handles the event before the position of the
\* call in the list has received it.
ProgressDelivered ==
  \A p \in Senders : notify[p].event # 0 =>
    \A n \in Handlers(notify[p].event) :
      n < notify[p].next => <<notify[p].event, n>> \in delivered

-----------------------------------------------------------------------------
(* The ledger.                                                             *)

\* Setting a mark changes nothing else in the ledger.
LEMMA MarksGrow ==
  ASSUME NEW l \in Seq(EventRow), NEW e \in DOMAIN l, NEW m,
         m \in {MarkEventNotified(l, e), AcknowledgeEvent(l, e)}
  PROVE  \A f \in DOMAIN l :
           /\ m[f].kind = l[f].kind /\ m[f].cert = l[f].cert /\ m[f].id = l[f].id
           /\ l[f].notified => m[f].notified
           /\ l[f].acked => m[f].acked
           /\ m[f].notified => l[f].notified \/ (f = e /\ m = MarkEventNotified(l, e))
<1>1. l[e] \in EventRow
  OBVIOUS
<1>2. /\ MarkEventNotified(l, e) = [l EXCEPT ![e] = [l[e] EXCEPT !.notified = TRUE]]
      /\ AcknowledgeEvent(l, e) = [l EXCEPT ![e] = [l[e] EXCEPT !.acked = TRUE]]
  BY DEF MarkEventNotified, AcknowledgeEvent
<1>3. CASE m = MarkEventNotified(l, e)
  BY <1>1, <1>2, <1>3 DEF EventRow
<1>4. CASE m = AcknowledgeEvent(l, e)
  BY <1>1, <1>2, <1>4 DEF EventRow
<1> QED
  BY <1>3, <1>4

\* The steps that touch the ledger, and how.
LEMMA LedgerCases ==
  ASSUME [Next]_vars
  PROVE  \/ UNCHANGED events
         \/ \E p \in Senders : MarkNotified(p)
         \/ \E w \in Workers : Record(w)
         \/ \E e \in DOMAIN events : Acknowledge(e)
<1> USE DEF tables, runner, history, inboxes
<1>1. CASE UNCHANGED vars
  BY <1>1 DEF vars
<1>2. CASE Tick \/ \E p \in Processes : Cancel(p) \/ Crash(p)
  BY <1>2 DEF Tick, Cancel, Crash
<1>3. ASSUME NEW h \in Hosts, Replace(h) PROVE UNCHANGED events
  BY <1>3 DEF Replace
<1>4. CASE \E p \in Processes : RunnerNext(p)
  BY <1>4 DEF RunnerNext, StartScan, StartFails, ReadPending, RetryNext, Discover, DiscoverFails, EndScan,
              StopFeeding, SkipHost
<1>5. ASSUME NEW p \in Senders, NotifyNext(p)
      PROVE  UNCHANGED events \/ MarkNotified(p)
  BY <1>5 DEF NotifyNext, Deliver, Refuse, LoseAnswer, MarkFails
<1>6. ASSUME NEW w \in Workers, WorkerNext(w)
      PROVE  UNCHANGED events \/ MarkNotified(w) \/ Record(w)
  <2>1. CASE NotifyNext(w)
    BY <1>5, <2>1 DEF Senders
  <2> QED
    BY <1>6, <2>1 DEF WorkerNext, TakeHost, Resolve, Unresolved, Probe, UpsertCertificate,
                      Link, Evaluated, SetState, GiveUp
<1>7. CASE ConsoleNext
  BY <1>7 DEF ConsoleNext, Suppress, Unsuppress, SuppressNext, PurgeNext, WorkOff, OpenSuppressAll, OpenPurge, BulkFails
<1> QED
  BY <1>1, <1>2, <1>3, <1>4, <1>5, <1>6, <1>7 DEF Next, Senders

LEMMA LedgerStep == TypeOK /\ [Next]_vars => LedgerGrows
<1> SUFFICES ASSUME TypeOK, [Next]_vars PROVE LedgerGrows
  OBVIOUS
<1>0. events \in Seq(EventRow)
  BY DEF TypeOK
<1>1. CASE UNCHANGED events
  BY <1>1 DEF LedgerGrows
<1>2. ASSUME NEW p \in Senders, MarkNotified(p) PROVE LedgerGrows
  <2>1. notify[p].event \in DOMAIN events /\ events' = MarkEventNotified(events, notify[p].event)
    BY <1>2 DEF TypeOK, MarkNotified
  <2> QED
    BY <1>0, <2>1, MarksGrow, MarksTyped DEF LedgerGrows
<1>3. ASSUME NEW w \in Workers, Record(w) PROVE LedgerGrows
  <2>1. DOMAIN events' = 1..(Len(events) + 1) /\ \A e \in DOMAIN events : events'[e] = events[e]
    BY <1>3, TypeStep DEF Record, RecordEvent, TypeOK
  <2> QED
    BY <1>0, <2>1 DEF LedgerGrows
<1>4. ASSUME NEW e \in DOMAIN events, Acknowledge(e) PROVE LedgerGrows
  BY <1>0, <1>4, MarksGrow, MarksTyped DEF LedgerGrows, Acknowledge
<1> QED
  BY <1>1, <1>2, <1>3, <1>4, LedgerCases

\* No step removes or rewrites a record, or takes back a mark: in particular a
\* race between an acknowledgement and the marking of a retry loses neither.
THEOREM LedgerIsAppendOnly == Spec => LedgerOnlyGrows
<1>1. TypeOK /\ [Next]_vars => [LedgerGrows]_vars
  BY LedgerStep
<1> QED
  BY <1>1, ScanTyping, PTL DEF Spec, LedgerOnlyGrows

-----------------------------------------------------------------------------
(* Calls of notifyEvent.                                                   *)

\* The steps that begin, advance or end a call, and the others.
LEMMA CallCases ==
  ASSUME [Next]_vars
  PROVE  \/ UNCHANGED <<notify, delivered>>
         \/ \E p \in Processes : Crash(p) \/ RetryNext(p)
         \/ \E p \in Senders : NotifyNext(p)
         \/ \E w \in Workers : Record(w)
<1> USE DEF tables, runner, history, inboxes
<1>1. CASE UNCHANGED vars
  BY <1>1 DEF vars
<1>2. CASE Tick \/ \E p \in Processes : Cancel(p)
  BY <1>2 DEF Tick, Cancel
<1>3. ASSUME NEW h \in Hosts, Replace(h) PROVE UNCHANGED <<notify, delivered>>
  BY <1>3 DEF Replace
<1>4. CASE \E p \in Processes : RunnerNext(p)
  BY <1>4 DEF RunnerNext, StartScan, StartFails, ReadPending, Discover, DiscoverFails, EndScan, StopFeeding, SkipHost
<1>5. ASSUME NEW w \in Workers, WorkerNext(w)
      PROVE  UNCHANGED <<notify, delivered>> \/ NotifyNext(w) \/ Record(w)
  BY <1>5 DEF WorkerNext, TakeHost, Resolve, Unresolved, Probe, UpsertCertificate,
              Link, Evaluated, SetState, GiveUp
<1>6. CASE ConsoleNext
  BY <1>6 DEF ConsoleNext, Suppress, Unsuppress, SuppressNext, PurgeNext, WorkOff, OpenSuppressAll, OpenPurge,
              BulkFails, Acknowledge
<1> QED
  BY <1>1, <1>2, <1>3, <1>4, <1>5, <1>6 DEF Next, Senders

\* Notifiers are numbered from 1, so a call that has just begun has passed none.
LEMMA NotifierTyped == \A n \in Notifiers : n \in Nat /\ n >= 1
BY ScanAssumption DEF Notifiers

\* Who handles an event of the ledger is settled when it is recorded.
LEMMA HandlersStable ==
  ASSUME LedgerGrows, NEW e \in DOMAIN events, NEW n \in Notifiers
  PROVE  events'[e].kind \in Handles[n] <=> n \in Handlers(e)
BY DEF LedgerGrows, Handlers, HandledBy

\* Deliveries are never taken back.
LEMMA DeliveredGrows ==
  ASSUME [Next]_vars PROVE delivered \subseteq delivered'
<1>1. ASSUME NEW p \in Senders, NotifyNext(p) PROVE delivered \subseteq delivered'
  BY <1>1 DEF NotifyNext, Deliver, Refuse, LoseAnswer, MarkNotified, MarkFails, Receive, history, inboxes
<1> QED
  BY <1>1, CallCases DEF Crash, RetryNext, Record, history, inboxes

\* The loop position of a call stays truthful: it moves past a notifier only
\* when that notifier has the event, and past the ones in between because they
\* do not handle it.
LEMMA ProgressStep ==
  TypeOK /\ ProgressDelivered /\ [Next]_vars => ProgressDelivered'
<1> SUFFICES ASSUME TypeOK, ProgressDelivered, [Next]_vars,
                    NEW q \in Senders, notify'[q].event # 0,
                    NEW m \in Notifiers, events'[notify'[q].event].kind \in Handles[m],
                    m < notify'[q].next
             PROVE  <<notify'[q].event, m>> \in delivered'
  BY DEF ProgressDelivered, Handlers, HandledBy
<1>0. LedgerGrows /\ delivered \subseteq delivered' /\ m \in Nat /\ m >= 1
  BY LedgerStep, DeliveredGrows, NotifierTyped
<1>1. CASE notify'[q] = notify[q]
  <2>1. m \in Handlers(notify[q].event)
    BY <1>0, <1>1, HandlersStable DEF TypeOK
  <2> QED
    BY <1>0, <1>1, <2>1 DEF ProgressDelivered
<1>2. CASE notify'[q].next = 1
  BY <1>0, <1>2
<1>3. ASSUME NEW p \in Processes, Crash(p) PROVE <<notify'[q].event, m>> \in delivered'
  BY <1>1, <1>3 DEF Crash, NoCall
<1>4. ASSUME NEW p \in Processes, RetryNext(p) PROVE <<notify'[q].event, m>> \in delivered'
  <2>1. notify'[q].next = 1 \/ notify'[q] = notify[q]
    BY <1>4 DEF RetryNext, TypeOK
  <2> QED
    BY <1>1, <1>2, <2>1
<1>5. ASSUME NEW p \in Senders, NEW n \in Notifiers, Deliver(p, n)
      PROVE  <<notify'[q].event, m>> \in delivered'
  <2>1. CASE q = p
    <3>1. /\ notify'[q].event = notify[q].event /\ notify'[q].next = n + 1
          /\ n \in Nat /\ notify[q].next \in Nat
          /\ Reaches(q, n) /\ <<notify[q].event, n>> \in delivered'
      BY <1>5, <2>1, NotifierTyped DEF Deliver, Receive, TypeOK
    <3>2. m \in Handlers(notify[q].event)
      BY <3>1, <1>0, HandlersStable DEF TypeOK
    <3>3. m < notify[q].next \/ m = n
      BY <3>1, <3>2, <1>0 DEF Reaches, Handlers, HandledBy
    <3> QED
      BY <3>1, <3>2, <3>3, <1>0 DEF ProgressDelivered
  <2>2. CASE q # p
    BY <1>1, <1>5, <2>2 DEF Deliver, TypeOK
  <2> QED
    BY <2>1, <2>2
<1>6. ASSUME NEW p \in Senders, Return(p) PROVE <<notify'[q].event, m>> \in delivered'
  BY <1>1, <1>6, ReturnTyped
<1>7. ASSUME NEW p \in Senders, NotifyNext(p) PROVE <<notify'[q].event, m>> \in delivered'
  BY <1>5, <1>6, <1>7 DEF NotifyNext, Refuse, LoseAnswer, MarkNotified, MarkFails
<1>8. ASSUME NEW w \in Workers, Record(w) PROVE <<notify'[q].event, m>> \in delivered'
  <2>1. notify'[q].next = 1 \/ notify'[q] = notify[q]
    BY <1>8 DEF Record, TypeOK
  <2> QED
    BY <1>1, <1>2, <2>1
<1> QED
  BY <1>1, <1>3, <1>4, <1>7, <1>8, CallCases

-----------------------------------------------------------------------------
(* The pipeline implements Outbox.                                         *)

\* Under the refinement mapping the handlers of an event are the same.
LEMMA SameHandlers ==
  ASSUME NEW e \in DOMAIN events PROVE Promise!Handlers(e) = Handlers(e)
BY DEF Promise!Handlers, Handlers, HandledBy, Notifiers

\* A ledger whose kinds and marks did not change is the same ledger to Outbox.
LEMMA SameLedger ==
  ASSUME TypeOK, DOMAIN events' = DOMAIN events,
         \A e \in DOMAIN events :
           events'[e].kind = events[e].kind /\ events'[e].notified = events[e].notified
  PROVE  /\ [e \in DOMAIN events |-> events[e].kind]' = [e \in DOMAIN events |-> events[e].kind]
         /\ {e \in DOMAIN events : events[e].notified}' = {e \in DOMAIN events : events[e].notified}
OBVIOUS

\* A delivery of the loop is a delivery Outbox allows: the notifiers the loop has
\* skipped or passed before are those whose turn it is not.
LEMMA DeliveryInTurn ==
  ASSUME TypeOK, ProgressDelivered, NEW p \in Senders, NEW n \in Notifiers,
         notify[p].event # 0, Reaches(p, n)
  PROVE  /\ n \in Handlers(notify[p].event)
         /\ \A m \in Handlers(notify[p].event) : m < n => <<notify[p].event, m>> \in delivered
<1>1. n \in Handlers(notify[p].event)
  BY DEF Reaches, Handlers
<1>2. ASSUME NEW m \in Handlers(notify[p].event), m < n
      PROVE  <<notify[p].event, m>> \in delivered
  <2>1. /\ m \in Nat /\ n \in Nat /\ notify[p].next \in Nat
        /\ HandledBy(notify[p].event, m)
    BY NotifierTyped DEF Handlers, TypeOK
  <2>2. m < notify[p].next
    BY <1>2, <2>1 DEF Reaches
  <2> QED
    BY <2>2 DEF ProgressDelivered
<1> QED
  BY <1>1, <1>2

\* A loop that has run to its end has served every handler.
LEMMA ExhaustedDelivered ==
  ASSUME TypeOK, ProgressDelivered, NEW p \in Senders, notify[p].event # 0, Exhausted(p)
  PROVE  \A n \in Handlers(notify[p].event) : <<notify[p].event, n>> \in delivered
<1> SUFFICES ASSUME NEW n \in Handlers(notify[p].event)
             PROVE  <<notify[p].event, n>> \in delivered
  OBVIOUS
<1>1. /\ n \in Nat /\ notify[p].next \in Nat /\ n \in Notifiers
      /\ HandledBy(notify[p].event, n)
  BY NotifierTyped DEF Handlers, TypeOK
<1>2. n < notify[p].next
  BY <1>1 DEF Exhausted
<1> QED
  BY <1>2 DEF ProgressDelivered

\* Every step of the pipeline is a step of Outbox, or none.
LEMMA OutboxStep ==
  TypeOK /\ ProgressDelivered /\ [Next]_vars => [Promise!Next]_(Promise!vars)
<1> SUFFICES ASSUME TypeOK, ProgressDelivered, [Next]_vars
             PROVE  [Promise!Next]_(Promise!vars)
  OBVIOUS
<1>1. CASE UNCHANGED <<events, delivered>>
  BY <1>1 DEF Promise!vars
<1>2. ASSUME NEW p \in Senders, NEW n \in Notifiers, notify[p].event # 0, Reaches(p, n),
             Receive(notify[p].event, n), UNCHANGED events
      PROVE  Promise!Next
  <2>1. notify[p].event \in DOMAIN events
    BY <1>2 DEF TypeOK
  <2>2. Promise!Receive(notify[p].event, n)
    BY <1>2, <2>1, DeliveryInTurn, SameHandlers DEF Promise!Receive, Receive
  <2> QED
    BY <2>1, <2>2 DEF Promise!Next, Notifiers
<1>3. ASSUME NEW p \in Senders, MarkNotified(p) PROVE Promise!Next
  <2>1. /\ notify[p].event \in DOMAIN events /\ UNCHANGED delivered
        /\ events' = MarkEventNotified(events, notify[p].event)
        /\ Exhausted(p) /\ notify[p].event # 0
    BY <1>3 DEF MarkNotified, TypeOK, history, inboxes
  <2>2. DOMAIN events' = DOMAIN events /\ events \in Seq(EventRow)
    BY <2>1, MarksTyped DEF TypeOK
  <2>3. \A f \in DOMAIN events :
          /\ events'[f].kind = events[f].kind
          /\ events'[f].notified <=> (events[f].notified \/ f = notify[p].event)
    <3>1. events'[notify[p].event].notified
      <4>1. events' = [events EXCEPT ![notify[p].event] =
                         [events[notify[p].event] EXCEPT !.notified = TRUE]]
        BY <2>1 DEF MarkEventNotified
      <4>2. events[notify[p].event] \in EventRow
        BY <2>1, <2>2
      <4> QED
        BY <2>1, <2>2, <4>1, <4>2 DEF EventRow
    <3> QED
      BY <2>1, <2>2, <3>1, MarksGrow
  <2>4. PICK marked \in DOMAIN events : marked = notify[p].event
    BY <2>1
  <2>5. Promise!Mark(marked)
    <3>1. \A n \in Promise!Handlers(marked) : <<marked, n>> \in delivered
      BY <2>4, <2>1, ExhaustedDelivered, SameHandlers
    <3>2. [e \in DOMAIN events |-> events[e].kind]' = [e \in DOMAIN events |-> events[e].kind]
      BY <2>2, <2>3
    <3>3. {e \in DOMAIN events : events[e].notified}'
            = {e \in DOMAIN events : events[e].notified} \cup {marked}
      BY <2>4, <2>1, <2>2, <2>3
    <3> QED
      BY <2>1, <3>1, <3>2, <3>3 DEF Promise!Mark
  <2> QED
    BY <2>5 DEF Promise!Next
<1>4. ASSUME NEW w \in Workers, Record(w) PROVE Promise!Next
  <2>1. /\ events' = Append(events, [kind |-> job[w].event, cert |-> job[w].cert,
                                     id |-> job[w].id, notified |-> FALSE, acked |-> FALSE])
        /\ UNCHANGED delivered /\ job[w].pc = "event" /\ job[w] \in Jobs
    BY <1>4 DEF Record, RecordEvent, TypeOK, inboxes
  <2>2. job[w] \in [pc: {"event"}, host: Hosts, id: Ids, cert: Certs, state: States,
               event: EventKinds]
    BY <2>1, CarriedTyped
  <2>3. [kind |-> job[w].event, cert |-> job[w].cert, id |-> job[w].id,
         notified |-> FALSE, acked |-> FALSE] \in EventRow /\ events \in Seq(EventRow)
    BY <2>2 DEF EventRow, TypeOK
  <2>4. /\ events' \in Seq(EventRow) /\ Len(events') = Len(events) + 1
        /\ \A e \in 1..Len(events) : events'[e] = events[e]
        /\ events'[Len(events) + 1].kind = job[w].event
        /\ events'[Len(events) + 1].notified = FALSE
    BY <2>1, <2>3, AppendProperties
  <2>5. {e \in DOMAIN events : events[e].notified}' = {e \in DOMAIN events : events[e].notified}
    BY <2>4 DEF TypeOK
  <2>6. [e \in DOMAIN events |-> events[e].kind]'
          = Append([e \in DOMAIN events |-> events[e].kind], job[w].event)
    <3> DEFINE before == [e \in DOMAIN events |-> events[e].kind]
               after  == [e \in DOMAIN events' |-> events'[e].kind]
    <3>0. ASSUME NEW l \in Seq(EventRow)
          PROVE  /\ [e \in DOMAIN l |-> l[e].kind] \in Seq(EventKinds)
                 /\ Len([e \in DOMAIN l |-> l[e].kind]) = Len(l)
      <4>0. Len(l) \in Nat /\ DOMAIN l = 1..Len(l) /\ \A e \in DOMAIN l : l[e] \in EventRow
        OBVIOUS
      <4>1. Len(l) \in Nat /\ DOMAIN l = 1..Len(l) /\ \A e \in DOMAIN l : l[e].kind \in EventKinds
        BY <4>0 DEF EventRow
      <4>2. [e \in 1..Len(l) |-> l[e].kind] \in Seq(EventKinds)
        BY <4>1
      <4> QED
        BY <4>1, <4>2
    <3>1. before \in Seq(EventKinds) /\ Len(before) = Len(events)
      BY <2>3, <3>0
    <3>2. after \in Seq(EventKinds) /\ Len(after) = Len(events) + 1
      BY <2>4, <3>0
    <3>3. /\ Append(before, job[w].event) \in Seq(EventKinds)
          /\ Len(Append(before, job[w].event)) = Len(events) + 1
          /\ \A e \in 1..Len(events) : Append(before, job[w].event)[e] = before[e]
          /\ Append(before, job[w].event)[Len(events) + 1] = job[w].event
      BY <2>2, <3>1, AppendProperties
    <3>4. \A e \in 1..(Len(events) + 1) : after[e] = Append(before, job[w].event)[e]
      BY <2>3, <2>4, <3>3
    <3>5. after = Append(before, job[w].event)
      BY <3>2, <3>3, <3>4, SeqEqual
    <3> QED
      BY <3>5
  <2>7. Promise!Record
    BY <2>1, <2>2, <2>5, <2>6 DEF Promise!Record
  <2> QED
    BY <2>7 DEF Promise!Next
<1>5. ASSUME NEW e \in DOMAIN events, Acknowledge(e) PROVE UNCHANGED Promise!vars
  <2>1. UNCHANGED delivered /\ events' = AcknowledgeEvent(events, e) /\ events \in Seq(EventRow)
    BY <1>5 DEF Acknowledge, history, inboxes, TypeOK
  <2>2. DOMAIN events' = DOMAIN events
    BY <2>1, MarksTyped
  <2>3. \A f \in DOMAIN events :
          events'[f].kind = events[f].kind /\ events'[f].notified = events[f].notified
    BY <2>1 DEF AcknowledgeEvent, EventRow
  <2> QED
    BY <2>1, <2>2, <2>3, SameLedger DEF Promise!vars
<1>6. ASSUME NEW p \in Senders, NotifyNext(p) PROVE [Promise!Next]_(Promise!vars)
  BY <1>1, <1>2, <1>3, <1>6 DEF NotifyNext, Deliver, Refuse, LoseAnswer, MarkFails, tables, history, inboxes
<1>7. CASE UNCHANGED <<notify, delivered>>
  BY <1>1, <1>3, <1>4, <1>5, <1>7, LedgerCases
<1> QED
  BY <1>1, <1>4, <1>6, <1>7, CallCases DEF Crash, RetryNext, tables, history, inboxes

LEMMA InitProgress == Init => ProgressDelivered
BY DEF Init, ProgressDelivered, NoCall

LEMMA InitOutbox == Init => Promise!Init
<1> SUFFICES ASSUME Init PROVE Promise!Init
  OBVIOUS
<1>1. events = <<>> /\ DOMAIN events = {} /\ delivered = {}
  BY DEF Init
<1>2. [e \in DOMAIN events |-> events[e].kind] = <<>>
  BY <1>1
<1> QED
  BY <1>1, <1>2 DEF Promise!Init

\* Calls are truthful about their position in the list of notifiers, always.
THEOREM CallsAreTruthful == Spec => []ProgressDelivered
BY ScanTyping, InitProgress, ProgressStep, PTL DEF Spec

\* The pipeline implements Outbox: through refusals, lost answers, store errors,
\* crashes and cancellations, events reach the notifiers that handle them in the
\* order of the list, and a mark is set only when all of them have the event.
THEOREM ScanImplementsOutbox == Spec => ImplementsOutbox
<1>1. Spec => [](TypeOK /\ ProgressDelivered)
  BY ScanTyping, CallsAreTruthful, PTL
<1> QED
  BY <1>1, InitOutbox, OutboxStep, PTL DEF Spec, ImplementsOutbox, Promise!Spec

-----------------------------------------------------------------------------
(* What a mark and a delivery mean.                                        *)

\* A step of Outbox keeps the meaning of the marks.
LEMMA MarkStep ==
  /\ TypeOK /\ ProgressDelivered /\ NotifiedMeansDelivered /\ [Next]_vars
  => NotifiedMeansDelivered'
<1> SUFFICES ASSUME TypeOK, ProgressDelivered, NotifiedMeansDelivered, [Next]_vars,
                    NEW e \in DOMAIN events', events'[e].notified,
                    NEW n \in Notifiers, events'[e].kind \in Handles[n]
             PROVE  <<e, n>> \in delivered'
  BY DEF NotifiedMeansDelivered, Handlers, HandledBy
<1>0. LedgerGrows /\ delivered \subseteq delivered' /\ events \in Seq(EventRow)
  BY LedgerStep, DeliveredGrows DEF TypeOK
<1>1. ASSUME e \in DOMAIN events, events[e].notified PROVE <<e, n>> \in delivered'
  BY <1>0, <1>1, HandlersStable DEF NotifiedMeansDelivered
<1>2. CASE UNCHANGED events
  BY <1>1, <1>2
<1>3. ASSUME NEW p \in Senders, MarkNotified(p) PROVE <<e, n>> \in delivered'
  <2>1. /\ notify[p].event # 0 /\ notify[p].event \in DOMAIN events /\ Exhausted(p)
        /\ events' = MarkEventNotified(events, notify[p].event)
    BY <1>3 DEF MarkNotified, TypeOK
  <2>2. e \in DOMAIN events /\ (events[e].notified \/ e = notify[p].event)
    BY <1>0, <2>1, MarksGrow, MarksTyped
  <2>3. n \in Handlers(e)
    BY <1>0, <2>2, HandlersStable
  <2> QED
    BY <1>0, <1>1, <2>1, <2>2, <2>3, ExhaustedDelivered
<1>4. ASSUME NEW w \in Workers, Record(w) PROVE <<e, n>> \in delivered'
  <2>1. e \in DOMAIN events /\ events[e].notified
    BY <1>0, <1>4, TypeStep DEF Record, RecordEvent, TypeOK
  <2> QED
    BY <1>1, <2>1
<1>5. ASSUME NEW f \in DOMAIN events, Acknowledge(f) PROVE <<e, n>> \in delivered'
  <2>1. events' = AcknowledgeEvent(events, f) /\ DOMAIN events' = DOMAIN events
    BY <1>0, <1>5, MarksTyped DEF Acknowledge
  <2>2. events[e].notified
    BY <1>0, <2>1 DEF AcknowledgeEvent, EventRow
  <2> QED
    BY <1>1, <2>1, <2>2
<1> QED
  BY <1>2, <1>3, <1>4, <1>5, LedgerCases

\* notified_at is a promise kept: whatever fails or dies on the way, an event
\* marked as notified has been received by every notifier that handles it.
THEOREM MarksAreTruthful == Spec => []NotifiedMeansDelivered
<1>1. Init => NotifiedMeansDelivered
  BY DEF Init, NotifiedMeansDelivered
<1> QED
  BY <1>1, ScanTyping, CallsAreTruthful, MarkStep, PTL DEF Spec
=============================================================================
