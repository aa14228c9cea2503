------------------------ MODULE ScanInventoryProofs -------------------------
(***************************************************************************)
(* Proofs about the control of Scan and about its tables, for any number   *)
(* of processes, workers, hosts and notifiers and all faults: who works on *)
(* what at a time within a process, and, provided hosts are purged between *)
(* scans only or not at all, that the references between tables hold and   *)
(* that the rows of a host are its own, although ids are given out again.  *)
(***************************************************************************)
EXTENDS ScanProofs

SingleProcess == \A p \in Processes : p = Server

\* A worker that is still collecting data about its host.
Carrying(w) == job[w].pc \in JobSteps \ {"notify"}

\* In every process, retries happen before the workers get hosts, and the workers
\* are idle and the queue is empty outside the scan phase.
PhasesHold ==
  /\ \A p \in Processes : phase[p] # "retry" => notify[p].event = 0
  /\ \A p \in Processes : phase[p] # "scan" => queue[p] = {}
  /\ \A w \in Workers : phase[ProcessOf[w]] # "scan" => job[w] = IdleJob
  /\ \A w \in Workers : notify[w].event # 0 => job[w].pc = "notify"

\* A host taken from the queue is not in it any more.
TakenOnce == \A w \in Workers : Carrying(w) => job[w].host \notin queue[ProcessOf[w]]

ControlInv == PhasesHold /\ TakenOnce /\ OneSenderPerEvent /\ OneWorkerPerHost

LEMMA InitControl == Init => ControlInv
<1> SUFFICES ASSUME Init PROVE ControlInv
  OBVIOUS
<1>1. /\ \A p \in Senders : notify[p].event = 0
      /\ \A w \in Workers : job[w] = IdleJob /\ job[w].pc = "idle"
      /\ \A p \in Processes : phase[p] = "idle" /\ queue[p] = {}
  BY DEF Init, NoCall, IdleJob
<1>2. \A w \in Workers : ~Carrying(w)
  BY <1>1 DEF Carrying, JobSteps
<1>3. OneSenderPerEvent
  BY <1>1 DEF OneSenderPerEvent
<1>4. OneWorkerPerHost
  BY <1>2 DEF OneWorkerPerHost, Carrying
<1>5. PhasesHold /\ TakenOnce
  BY <1>1, <1>2 DEF PhasesHold, TakenOnce, Senders
<1> QED
  BY <1>3, <1>4, <1>5 DEF ControlInv

\* Steps of a worker before it enters notifyEvent: its call is not touched.
LEMMA WorkerCases ==
  ASSUME TypeOK, NEW w \in Workers, WorkerNext(w)
  PROVE  \/ TakeHost(w)
         \/ NotifyNext(w)
         \/ Record(w)
         \/ /\ Carrying(w) /\ UNCHANGED <<queue, phase, notify, events>>
            /\ \E j : /\ Proceed(w, j)
                      /\ j = IdleJob \/ (j.pc \in JobSteps \ {"notify"} /\ j.host = job[w].host)
<1> USE DEF Carrying, JobSteps, IdleJob, runner, tables, history, inboxes
<1>0. job[w] \in Jobs
  BY DEF TypeOK
<1>1. CASE Resolve(w)
  BY <1>0, <1>1, CarriedTyped DEF Resolve
<1>2. CASE Unresolved(w)
  BY <1>2 DEF Unresolved
<1>3. CASE Probe(w)
  BY <1>3 DEF Probe, ProbeResults
<1>4. CASE UpsertCertificate(w)
  BY <1>0, <1>4, CarriedTyped DEF UpsertCertificate
<1>5. CASE Link(w)
  BY <1>0, <1>5, CarriedTyped DEF Link
<1>6. CASE Evaluated(w)
  BY <1>6 DEF Evaluated
<1>7. CASE SetState(w)
  BY <1>0, <1>7, CarriedTyped DEF SetState
<1>8. CASE GiveUp(w)
  BY <1>8 DEF GiveUp
<1> QED
  BY <1>1, <1>2, <1>3, <1>4, <1>5, <1>6, <1>7, <1>8 DEF WorkerNext

LEMMA ControlStep == TypeOK /\ ControlInv /\ [Next]_vars => ControlInv'
<1> SUFFICES ASSUME TypeOK, ControlInv, [Next]_vars PROVE ControlInv'
  OBVIOUS
<1> USE DEF ControlInv, PhasesHold, TakenOnce, OneSenderPerEvent, OneWorkerPerHost, Carrying,
            Senders
<1>0. /\ Workers \cap Processes = {}
      /\ \A w \in Workers : ProcessOf[w] \in Processes /\ Home(w) = ProcessOf[w]
      /\ \A p \in Processes : Home(p) = p
  BY ScanAssumption DEF Home
<1>1. CASE UNCHANGED <<phase, queue, job, notify>>
  BY <1>1
<1>2. CASE UNCHANGED vars \/ Tick \/ \E p \in Processes : Cancel(p)
  BY <1>1, <1>2 DEF vars, Tick, Cancel, runner
<1>3. ASSUME NEW h \in Hosts, Replace(h) PROVE ControlInv'
  BY <1>1, <1>3 DEF Replace, runner
<1>4. CASE ConsoleNext
  BY <1>1, <1>4 DEF ConsoleNext, Suppress, Unsuppress, SuppressNext, PurgeNext, WorkOff, OpenSuppressAll, OpenPurge,
                    BulkFails, Acknowledge, runner
<1>5. ASSUME NEW p \in Processes, Crash(p) PROVE ControlInv'
  <2>1. /\ phase' = [phase EXCEPT ![p] = "idle"] /\ queue' = [queue EXCEPT ![p] = {}]
        /\ \A w \in Workers : job'[w] = IF ProcessOf[w] = p THEN IdleJob ELSE job[w]
        /\ \A s \in Senders : notify'[s] = IF Home(s) = p THEN NoCall ELSE notify[s]
    BY <1>5 DEF Crash
  <2>2. \A s \in Senders : notify'[s].event # 0 => notify'[s] = notify[s] /\ Home(s) # p
    BY <2>1 DEF NoCall
  <2>3. OneSenderPerEvent'
    BY <2>2
  <2>4. /\ \A q \in Processes \ {p} : phase'[q] = phase[q] /\ queue'[q] = queue[q]
        /\ phase'[p] = "idle" /\ queue'[p] = {}
    BY <2>1 DEF TypeOK
  <2>5. \A w \in Workers : job'[w] = IdleJob \/ (job'[w] = job[w] /\ ProcessOf[w] # p)
    BY <2>1
  <2>6. ~(IdleJob.pc \in JobSteps)
    BY DEF IdleJob, JobSteps
  <2>7. TakenOnce' /\ OneWorkerPerHost'
    BY <1>0, <2>4, <2>5, <2>6
  <2>8. PhasesHold'
    BY <1>0, <2>1, <2>2, <2>4
  <2> QED
    BY <2>3, <2>7, <2>8
<1>6. ASSUME NEW p \in Processes, RunnerNext(p) PROVE ControlInv'
  <2>0. ASSUME NEW x, phase' = [phase EXCEPT ![p] = x]
        PROVE  phase'[p] = x /\ \A q \in Processes \ {p} : phase'[q] = phase[q]
    BY <2>0 DEF TypeOK
  <2>1. CASE StartScan(p)
    <3>1. /\ phase' = [phase EXCEPT ![p] = "start"] /\ phase[p] = "idle"
          /\ UNCHANGED <<queue, job, notify>>
      BY <2>1 DEF StartScan
    <3> QED
      BY <1>0, <2>0, <3>1
  <2>7. CASE StartFails(p) \/ ReadPending(p)
    <3>1. /\ \E x \in {"idle", "retry"} : phase' = [phase EXCEPT ![p] = x]
          /\ phase[p] = "start" /\ UNCHANGED <<queue, job, notify>>
      BY <2>7 DEF StartFails, ReadPending
    <3> QED
      BY <1>0, <2>0, <3>1
  <2>2. CASE RetryNext(p)
    <3>1. \A w \in Workers : ProcessOf[w] = p => notify[w].event = 0
      BY <2>2 DEF RetryNext, IdleJob
    <3>2. \A s \in Senders \ {p} : notify'[s] = notify[s]
      BY <2>2 DEF RetryNext, TypeOK
    <3>3. UNCHANGED <<phase, queue, job>> /\ phase[p] = "retry"
      BY <2>2 DEF RetryNext
    <3>4. \A s \in Senders \ {p} : Home(s) = p => notify'[s].event = 0
      BY <1>0, <3>1, <3>2
    <3>5. OneSenderPerEvent'
      BY <1>0, <3>2, <3>4
    <3> QED
      BY <1>0, <3>2, <3>3, <3>5
  <2>3. CASE Discover(p)
    <3>1. /\ phase' = [phase EXCEPT ![p] = "scan"] /\ phase[p] = "retry"
          /\ notify[p].event = 0 /\ UNCHANGED <<job, notify>>
          /\ \A q \in Processes \ {p} : queue'[q] = queue[q]
      BY <2>3 DEF Discover, NoCall, TypeOK
    <3>2. \A w \in Workers : ProcessOf[w] = p => ~Carrying(w)
      BY <3>1 DEF IdleJob, JobSteps
    <3>3. TakenOnce'
      BY <1>0, <3>1, <3>2
    <3>4. phase'[p] = "scan" /\ \A q \in Processes \ {p} : phase'[q] = phase[q]
      BY <2>0, <3>1
    <3>5. PhasesHold'
      BY <1>0, <3>1, <3>4
    <3> QED
      BY <3>1, <3>3, <3>5
  <2>4. CASE DiscoverFails(p)
    <3>1. /\ phase' = [phase EXCEPT ![p] = "idle"] /\ phase[p] = "retry"
          /\ notify[p].event = 0 /\ UNCHANGED <<queue, job, notify>>
      BY <2>4 DEF DiscoverFails, NoCall
    <3> QED
      BY <1>0, <2>0, <3>1
  <2>5. CASE EndScan(p)
    <3>1. /\ phase' = [phase EXCEPT ![p] = "idle"] /\ phase[p] = "scan" /\ queue[p] = {}
          /\ UNCHANGED <<queue, job, notify>>
          /\ \A w \in Workers : ProcessOf[w] = p => job[w] = IdleJob
      BY <2>5 DEF EndScan, WorkersOf
    <3> QED
      BY <1>0, <2>0, <3>1
  <2>6. CASE StopFeeding(p) \/ SkipHost(p)
    <3>1. /\ phase[p] = "scan" /\ UNCHANGED <<phase, job, notify>>
          /\ queue'[p] \subseteq queue[p]
          /\ \A q \in Processes \ {p} : queue'[q] = queue[q]
      BY <2>6 DEF StopFeeding, SkipHost, TypeOK
    <3> QED
      BY <1>0, <3>1
  <2> QED
    BY <1>6, <2>1, <2>2, <2>3, <2>4, <2>5, <2>6, <2>7 DEF RunnerNext
<1>7. ASSUME NEW p \in Senders, NotifyNext(p) PROVE ControlInv'
  <2>1. UNCHANGED <<phase, queue>> /\ notify[p].event # 0
    BY <1>7 DEF NotifyNext, Deliver, Refuse, LoseAnswer, MarkNotified, MarkFails, runner
  <2>2. CASE \E n \in Notifiers : Deliver(p, n)
    <3>1. UNCHANGED job /\ \A q \in Senders : notify'[q].event = notify[q].event
      BY <2>2 DEF Deliver, TypeOK
    <3> QED
      BY <2>1, <3>1
  <2>3. CASE Return(p)
    <3>1. \A q \in Senders : notify'[q].event # 0 => notify'[q] = notify[q] /\ q # p
      BY <2>3, ReturnTyped DEF Return, TypeOK, NoCall
    <3>2. \A w \in Workers : job'[w] = job[w] \/ (w = p /\ job'[w] = IdleJob)
      BY <2>3 DEF Return, TypeOK
    <3>3. \A w \in Workers : phase[ProcessOf[w]] # "scan" => job'[w] = IdleJob
      BY <3>2
    <3>4. \A w \in Workers : notify'[w].event # 0 => job'[w].pc = "notify"
      BY <3>1, <3>2
    <3>5. OneWorkerPerHost' /\ TakenOnce'
      BY <2>1, <3>2 DEF IdleJob, JobSteps
    <3>6. \A q \in Processes : notify[q].event = 0 => notify'[q].event = 0
      BY <3>1
    <3>7. OneSenderPerEvent'
      BY <3>1
    <3> QED
      BY <2>1, <3>3, <3>4, <3>5, <3>6, <3>7
  <2> QED
    BY <1>7, <2>2, <2>3 DEF NotifyNext, Refuse, LoseAnswer, MarkNotified, MarkFails
<1>8. ASSUME NEW w \in Workers, WorkerNext(w) PROVE ControlInv'
  <2>1. CASE TakeHost(w)
    <3>1. PICK h \in queue[ProcessOf[w]], id \in Ids :
            /\ queue' = [queue EXCEPT ![ProcessOf[w]] = @ \ {h}]
            /\ Proceed(w, [pc |-> "resolve", host |-> h, id |-> id, at |-> now])
      BY <2>1 DEF TakeHost, Ids
    <3>2. phase[ProcessOf[w]] = "scan" /\ UNCHANGED <<phase, notify>> /\ job[w] = IdleJob
      BY <2>1 DEF TakeHost
    <3>3. /\ job'[w].pc = "resolve" /\ job'[w].host = h
          /\ \A v \in Workers \ {w} : job'[v] = job[v]
      BY <3>1 DEF Proceed, TypeOK
    <3>4. notify[w].event = 0
      BY <3>2 DEF IdleJob
    <3>5. /\ queue'[ProcessOf[w]] = queue[ProcessOf[w]] \ {h}
          /\ \A q \in Processes \ {ProcessOf[w]} : queue'[q] = queue[q]
      BY <1>0, <3>1 DEF TypeOK
    <3>6. TakenOnce'
      BY <1>0, <3>1, <3>3, <3>5
    <3>7. OneWorkerPerHost'
      BY <3>1, <3>3
    <3>8. PhasesHold'
      BY <1>0, <3>2, <3>3, <3>4, <3>5
    <3> QED
      BY <3>2, <3>6, <3>7, <3>8
  <2>2. CASE NotifyNext(w)
    BY <1>7, <2>2
  <2>3. CASE Record(w)
    <3>1. /\ UNCHANGED <<phase, queue>> /\ job[w].pc = "event"
          /\ notify' = [notify EXCEPT ![w] = [event |-> Len(events) + 1, next |-> 1]]
          /\ Proceed(w, [pc |-> "notify"])
      BY <2>3 DEF Record, runner
    <3>2. /\ job'[w] = [pc |-> "notify"]
          /\ \A v \in Workers \ {w} : job'[v] = job[v]
      BY <3>1 DEF Proceed, TypeOK
    <3>3. /\ notify'[w].event = Len(events) + 1
          /\ \A q \in Senders \ {w} : notify'[q] = notify[q]
      BY <3>1 DEF TypeOK
    <3>4. \A q \in Senders : notify[q].event # Len(events) + 1
      <4>1. events \in Seq(EventRow)
        BY DEF TypeOK
      <4>2. Len(events) \in Nat /\ DOMAIN events = 1..Len(events)
        BY <4>1
      <4>3. \A q \in Senders : notify[q].event # 0 => notify[q].event \in DOMAIN events
        BY DEF TypeOK
      <4> QED
        BY <4>2, <4>3
    <3>5. phase[ProcessOf[w]] = "scan"
      BY <3>1 DEF IdleJob
    <3>6. OneSenderPerEvent'
      BY <3>3, <3>4
    <3>7. OneWorkerPerHost' /\ TakenOnce'
      BY <3>1, <3>2 DEF JobSteps
    <3> QED
      BY <1>0, <3>1, <3>2, <3>3, <3>5, <3>6, <3>7
  <2>4. CASE /\ Carrying(w) /\ UNCHANGED <<queue, phase, notify, events>>
             /\ \E j : /\ Proceed(w, j)
                       /\ j = IdleJob \/ (j.pc \in JobSteps \ {"notify"} /\ j.host = job[w].host)
    <3>1. PICK j : /\ Proceed(w, j)
                   /\ j = IdleJob \/ (j.pc \in JobSteps \ {"notify"} /\ j.host = job[w].host)
      BY <2>4
    <3>2. job'[w] = j /\ \A v \in Workers \ {w} : job'[v] = job[v]
      BY <3>1 DEF Proceed, TypeOK
    <3>3. phase[ProcessOf[w]] = "scan" /\ notify[w].event = 0
      BY <2>4 DEF IdleJob, JobSteps
    <3>4. Carrying(w)' => job'[w].host = job[w].host
      BY <3>1, <3>2 DEF IdleJob, JobSteps
    <3> QED
      BY <2>4, <3>2, <3>3, <3>4
  <2> QED
    BY <1>8, <2>1, <2>2, <2>3, <2>4, WorkerCases
<1> QED
  BY <1>2, <1>3, <1>4, <1>5, <1>6, <1>7, <1>8 DEF Next

\* No event is ever being sent by two goroutines of a process at once: the retry
\* loop has ended before a worker gets a host, and every worker sends an event of
\* its own.
THEOREM SendersAreExclusive == Spec => []OneSenderPerEvent
<1>1. ControlInv => OneSenderPerEvent
  BY DEF ControlInv
<1> QED
  BY <1>1, InitControl, ControlStep, ScanTyping, PTL DEF Spec

\* No host is ever carried by two workers of a process at once, so within a process
\* nothing comes between a worker's reads of its host's previous certificate and
\* state and its writes.
THEOREM HostsAreExclusive == Spec => []OneWorkerPerHost
<1>1. ControlInv => OneWorkerPerHost
  BY DEF ControlInv
<1> QED
  BY <1>1, InitControl, ControlStep, ScanTyping, PTL DEF Spec

\* The control of scans is as the proofs below use it.
THEOREM ControlHolds == Spec => []ControlInv
BY InitControl, ControlStep, ScanTyping, PTL DEF Spec

-----------------------------------------------------------------------------
(* The tables, when purges and scans do not meet.                          *)

PurgesApart == ~PurgeDuringScan \/ "purge" \notin Console

\* A purge that is under way was asked for.
PurgeRequested == \A b \in Browsers : bulk[b].op = "purge" => "purge" \in Console

LEMMA PurgesAreRequested == Spec => []PurgeRequested
<1>1. Init => PurgeRequested
  BY DEF Init, NoBulk, PurgeRequested
<1>2. TypeOK /\ PurgeRequested /\ [Next]_vars => PurgeRequested'
  <2> SUFFICES ASSUME TypeOK, PurgeRequested, [Next]_vars PROVE PurgeRequested'
    OBVIOUS
  <2> USE DEF PurgeRequested, runner
  <2>1. CASE UNCHANGED bulk
    BY <2>1
  <2>2. CASE bulk' = [b \in Browsers |-> NoBulk]
    BY <2>2 DEF NoBulk
  <2>3. ASSUME NEW p \in Senders, NotifyNext(p) PROVE UNCHANGED bulk
    BY <2>3 DEF NotifyNext, Deliver, Refuse, LoseAnswer, MarkNotified, MarkFails
  <2>4. ASSUME NEW p \in Processes, RunnerNext(p) \/ Cancel(p) \/ Crash(p)
        PROVE  UNCHANGED bulk \/ bulk' = [b \in Browsers |-> NoBulk]
    BY <2>4 DEF RunnerNext, StartScan, StartFails, ReadPending, RetryNext, Discover,
                DiscoverFails, EndScan, StopFeeding, SkipHost, Cancel, Crash
  <2>5. ASSUME NEW w \in Workers, WorkerNext(w) PROVE UNCHANGED bulk
    <3>1. CASE NotifyNext(w)
      BY <2>3, <3>1 DEF Senders
    <3> QED
      BY <2>5, <3>1 DEF WorkerNext, TakeHost, Resolve, Unresolved, Probe, ProbeResults,
           UpsertCertificate, Link, Evaluated, SetState, Record, GiveUp
  <2>6. CASE ConsoleNext
    <3>0. ASSUME NEW b \in Browsers, NEW x, bulk' = [bulk EXCEPT ![b] = x],
                 x.op = "purge" => "purge" \in Console
          PROVE  PurgeRequested'
      BY <3>0 DEF TypeOK
    <3>1. ASSUME NEW b \in Browsers, NEW h \in Hosts, SuppressNext(b, h) \/ PurgeNext(b, h)
          PROVE  PurgeRequested'
      <4>1. WorkOff(b, h)
        BY <3>1 DEF SuppressNext, PurgeNext
      <4>2. CASE bulk' = [bulk EXCEPT ![b] = NoBulk]
        BY <3>0, <4>2 DEF NoBulk
      <4>3. CASE bulk' = [bulk EXCEPT ![b] = [op |-> @.op, left |-> @.left \ {h}]]
        BY <3>0, <4>3
      <4> QED
        BY <4>1, <4>2, <4>3 DEF WorkOff
    <3>2. ASSUME NEW h \in Hosts, Suppress(h) \/ Unsuppress(h) PROVE UNCHANGED bulk
      BY <3>2 DEF Suppress, Unsuppress
    <3>3. ASSUME NEW b \in Browsers, OpenSuppressAll(b) \/ OpenPurge(b) \/ BulkFails(b)
          PROVE  PurgeRequested'
      BY <3>0, <3>3 DEF OpenSuppressAll, OpenPurge, BulkFails, NoBulk
    <3> QED
      BY <2>1, <2>6, <3>1, <3>2, <3>3 DEF ConsoleNext, Acknowledge
  <2>7. CASE UNCHANGED vars \/ Tick \/ \E h \in Hosts : Replace(h)
    BY <2>7 DEF vars, Tick, Replace
  <2> QED
    BY <2>1, <2>2, <2>3, <2>4, <2>5, <2>6, <2>7 DEF Next, Senders
<1> QED
  BY <1>1, <1>2, ScanTyping, PTL DEF Spec

IdsUnique == \A g, h \in DOMAIN hosts : hosts[g].id = hosts[h].id => g = h

\* The id a worker carries is that of the row of its host.
CarriedStored ==
  \A w \in Workers : Carrying(w) =>
    job[w].host \in DOMAIN hosts /\ hosts[job[w].host].id = job[w].id

\* The certificate a worker carries is one its host presented, and stored before
\* anything refers to it.
CarriedKnown ==
  \A w \in Workers :
    /\ job[w].pc \in {"certificate", "link", "state", "save", "event"} =>
         <<job[w].host, job[w].cert>> \in presented
    /\ job[w].pc \in {"link", "state", "save", "event"} => job[w].cert \in certificates

InventoryInv == IdsUnique /\ CarriedStored /\ CarriedKnown /\ ReferencesHold /\ LinksAreOwn

LEMMA InitInventory == Init => InventoryInv
<1> SUFFICES ASSUME Init PROVE InventoryInv
  OBVIOUS
<1>1. /\ DOMAIN hosts = {} /\ DOMAIN links = {} /\ DOMAIN states = {}
      /\ \A w \in Workers : job[w].pc = "idle"
  BY DEF Init, IdleJob
<1> QED
  BY <1>1 DEF InventoryInv, IdsUnique, CarriedStored, CarriedKnown, ReferencesHold, LinksAreOwn,
              Carrying, JobSteps

\* Steps that leave the tables alone and at most make a worker idle.
LEMMA QuietStep ==
  ASSUME InventoryInv, UNCHANGED <<hosts, links, states, certificates, presented>>,
         \A w \in Workers : job'[w] = job[w] \/ job'[w] = IdleJob \/ job'[w].pc = "notify"
  PROVE  InventoryInv'
<1>1. \A w \in Workers : job'[w] = job[w] \/ job'[w].pc \in {"idle", "notify"}
  BY DEF IdleJob
<1> QED
  BY <1>1 DEF InventoryInv, IdsUnique, CarriedStored, CarriedKnown, ReferencesHold,
              LinksAreOwn, Carrying, JobSteps, HostIds

\* A step of w that leaves the tables alone and goes on with the same host, id
\* and, once there is one, certificate.
LEMMA HandOver ==
  ASSUME TypeOK, InventoryInv, NEW w \in Workers, Carrying(w),
         UNCHANGED <<hosts, links, states>>,
         certificates \subseteq certificates', presented \subseteq presented',
         NEW j, Proceed(w, j),
         j.host = job[w].host, j.id = job[w].id,
         j.pc \in {"certificate", "link", "state", "save", "event"} =>
           <<job[w].host, j.cert>> \in presented',
         j.pc \in {"link", "state", "save", "event"} => j.cert \in certificates'
  PROVE  InventoryInv'
<1>1. job'[w] = j /\ \A v \in Workers \ {w} : job'[v] = job[v]
  BY DEF Proceed, TypeOK
<1>2. IdsUnique' /\ ReferencesHold' /\ LinksAreOwn'
  BY DEF InventoryInv, IdsUnique, ReferencesHold, LinksAreOwn, HostIds
<1>3. CarriedStored'
  BY <1>1 DEF InventoryInv, CarriedStored, Carrying
<1>4. CarriedKnown'
  BY <1>1 DEF InventoryInv, CarriedKnown
<1> QED
  BY <1>2, <1>3, <1>4 DEF InventoryInv

LEMMA InventoryWorkerStep ==
  ASSUME TypeOK, ControlInv, InventoryInv, NEW w \in Workers, WorkerNext(w)
  PROVE  InventoryInv'
<1>0. job[w] \in Jobs
  BY DEF TypeOK
<1>1. CASE TakeHost(w)
  <2>1. PICK h \in queue[ProcessOf[w]], id \in Ids :
          /\ IsHostId(hosts, h, id)
          /\ hosts' = UpsertHost(hosts, h, id, "unresolved")
          /\ Proceed(w, [pc |-> "resolve", host |-> h, id |-> id, at |-> now])
    BY <1>1 DEF TakeHost, Ids
  <2>2. UNCHANGED <<links, states, certificates, presented>>
    BY <1>1 DEF TakeHost, history, inboxes
  <2>3. /\ job'[w] = [pc |-> "resolve", host |-> h, id |-> id, at |-> now]
        /\ \A v \in Workers \ {w} : job'[v] = job[v]
    BY <2>1 DEF Proceed, TypeOK
  <2>4. /\ DOMAIN hosts' = DOMAIN hosts \cup {h}
        /\ hosts'[h].id = id
        /\ \A g \in DOMAIN hosts : hosts'[g].id = hosts[g].id
        /\ h \in DOMAIN hosts => hosts[h].id = id
    BY <2>1 DEF UpsertHost, Upserted, IsHostId
  <2>5. h \notin DOMAIN hosts => \A g \in DOMAIN hosts : hosts[g].id < id /\ hosts[g].id \in Nat
    BY <2>1 DEF IsHostId, IsNext, HostIds, TypeOK, HostRow, Ids
  <2>6. IdsUnique'
    BY <2>4, <2>5 DEF InventoryInv, IdsUnique
  <2>7. CarriedStored'
    BY <2>3, <2>4 DEF InventoryInv, CarriedStored, Carrying
  <2>8. CarriedKnown'
    BY <2>2, <2>3 DEF InventoryInv, CarriedKnown
  <2>9. HostIds(hosts) \subseteq HostIds(hosts)'
    BY <2>4 DEF HostIds
  <2>10. ReferencesHold'
    BY <2>2, <2>9 DEF InventoryInv, ReferencesHold
  <2>11. LinksAreOwn'
    <3> SUFFICES ASSUME NEW g \in DOMAIN hosts', NEW i \in DOMAIN links,
                        links[i].id = hosts'[g].id
                 PROVE  <<g, links[i].cert>> \in presented
      BY <2>2 DEF LinksAreOwn
    <3>1. CASE g \in DOMAIN hosts
      BY <2>4, <3>1 DEF InventoryInv, LinksAreOwn
    <3>2. CASE g \notin DOMAIN hosts
      <4>1. links[i].id \in HostIds(hosts)
        BY DEF InventoryInv, ReferencesHold
      <4> QED
        BY <2>4, <2>5, <3>2, <4>1 DEF HostIds
    <3> QED
      BY <3>1, <3>2
  <2> QED
    BY <2>6, <2>7, <2>8, <2>10, <2>11 DEF InventoryInv
<1>2. CASE Resolve(w)
  <2>1. /\ hosts' = MarkHostResolved(hosts, job[w].host)
        /\ UNCHANGED <<links, states, certificates, presented>>
        /\ Proceed(w, [job[w] EXCEPT !.pc = "probe"]) /\ job[w].pc = "resolve"
    BY <1>2 DEF Resolve, history
  <2>2. /\ DOMAIN hosts' = DOMAIN hosts
        /\ \A g \in DOMAIN hosts : hosts'[g].id = hosts[g].id
    BY <2>1 DEF MarkHostResolved, TypeOK, HostRow
  <2>3. job[w] \in [pc: {"resolve", "probe"}, host: Hosts, id: Ids, at: Nat]
    BY <1>0, <2>1, CarriedTyped
  <2>4. /\ job'[w].host = job[w].host /\ job'[w].id = job[w].id /\ job'[w].pc = "probe"
        /\ \A v \in Workers \ {w} : job'[v] = job[v]
    BY <2>1, <2>3 DEF Proceed, TypeOK
  <2>5. HostIds(hosts)' = HostIds(hosts)
    BY <2>2 DEF HostIds
  <2>6. Carrying(w)
    BY <2>1 DEF Carrying, JobSteps
  <2>7. IdsUnique' /\ ReferencesHold' /\ LinksAreOwn'
    BY <2>1, <2>2, <2>5 DEF InventoryInv, IdsUnique, ReferencesHold, LinksAreOwn
  <2>8. CarriedStored' /\ CarriedKnown'
    BY <2>1, <2>2, <2>4, <2>6 DEF InventoryInv, CarriedStored, CarriedKnown, Carrying
  <2> QED
    BY <2>7, <2>8 DEF InventoryInv
<1>3. CASE Probe(w)
  <2>1. PICK chainComplete \in ChainOutcomes :
          Proceed(w, [pc |-> "certificate", host |-> job[w].host, id |-> job[w].id,
                      at |-> job[w].at, cert |-> served[job[w].host], chain |-> chainComplete,
                      previous |-> LatestHostCertificate(links, job[w].id)])
    BY <1>3 DEF Probe, ProbeResults
  <2>2. /\ UNCHANGED <<hosts, links, states, certificates>> /\ Carrying(w)
        /\ presented' = presented \cup {<<job[w].host, served[job[w].host]>>}
    BY <1>3 DEF Probe, ProbeResults, tables, Carrying, JobSteps
  <2> QED
    BY <2>1, <2>2, HandOver
<1>4. CASE UpsertCertificate(w)
  <2>1. /\ Carrying(w) /\ job[w].pc = "certificate"
        /\ certificates' = certificates \cup {job[w].cert}
        /\ UNCHANGED <<hosts, links, states, presented>>
    BY <1>4 DEF UpsertCertificate, Carrying, JobSteps, history, inboxes
  <2>2. PICK j : Proceed(w, j) /\ j.pc = "link" /\ j.host = job[w].host /\ j.id = job[w].id
                 /\ j.cert = job[w].cert
    BY <1>0, <1>4, <2>1, CarriedTyped DEF UpsertCertificate
  <2>3. <<job[w].host, job[w].cert>> \in presented
    BY <2>1 DEF InventoryInv, CarriedKnown
  <2> QED
    BY <2>1, <2>2, <2>3, HandOver
<1>5. CASE Link(w)
  <2>1. /\ Carrying(w) /\ job[w].pc = "link"
        /\ Proceed(w, [job[w] EXCEPT !.pc = "state"])
        /\ UNCHANGED <<hosts, states, certificates, presented>>
    BY <1>5 DEF Link, Carrying, JobSteps, history, inboxes
  <2>2. PICK row \in LinkRowRange(links) :
          links' = LinkHostCertificate(links, row, job[w].id, job[w].cert, job[w].at)
    BY <1>5 DEF Link
  <2>3. /\ DOMAIN links' = DOMAIN links \cup {row}
        /\ links'[row].id = job[w].id /\ links'[row].cert = job[w].cert
        /\ \A i \in DOMAIN links \ {row} : links'[i] = links[i]
    BY <2>2 DEF LinkHostCertificate, Upserted
  <2>4. /\ job[w].host \in DOMAIN hosts /\ hosts[job[w].host].id = job[w].id
        /\ <<job[w].host, job[w].cert>> \in presented /\ job[w].cert \in certificates
    BY <2>1 DEF InventoryInv, CarriedStored, CarriedKnown
  <2>5. ReferencesHold'
    BY <2>1, <2>3, <2>4 DEF InventoryInv, ReferencesHold, HostIds
  <2>6. LinksAreOwn'
    BY <2>1, <2>3, <2>4 DEF InventoryInv, LinksAreOwn, IdsUnique
  <2>7. /\ job'[w].host = job[w].host /\ job'[w].id = job[w].id /\ job'[w].cert = job[w].cert
        /\ job'[w].pc = "state" /\ \A v \in Workers \ {w} : job'[v] = job[v]
    BY <1>0, <2>1, CarriedTyped DEF Proceed, TypeOK
  <2>8. IdsUnique' /\ CarriedStored' /\ CarriedKnown'
    BY <2>1, <2>4, <2>7 DEF InventoryInv, IdsUnique, CarriedStored, CarriedKnown, Carrying
  <2> QED
    BY <2>5, <2>6, <2>8 DEF InventoryInv
<1>6. CASE Evaluated(w)
  <2>1. /\ Carrying(w) /\ job[w].pc = "state"
        /\ UNCHANGED <<hosts, links, states, certificates, presented>>
    BY <1>6 DEF Evaluated, Carrying, JobSteps, tables, history, inboxes
  <2>2. PICK j : Proceed(w, j) /\ j.host = job[w].host /\ j.id = job[w].id
                 /\ j.cert = job[w].cert
    BY <1>6 DEF Evaluated
  <2>3. <<job[w].host, job[w].cert>> \in presented /\ job[w].cert \in certificates
    BY <2>1 DEF InventoryInv, CarriedKnown
  <2> QED
    BY <2>1, <2>2, <2>3, HandOver
<1>7. CASE SetState(w)
  <2>1. /\ Carrying(w) /\ job[w].pc = "save"
        /\ states' = SetCertificateState(states, job[w].id, job[w].cert, job[w].state)
        /\ UNCHANGED <<hosts, links, certificates, presented>>
    BY <1>7 DEF SetState, Carrying, JobSteps, history, inboxes
  <2>2. PICK j : /\ Proceed(w, j)
                 /\ j = IdleJob \/ (j.pc = "event" /\ j.host = job[w].host /\ j.id = job[w].id
                                   /\ j.cert = job[w].cert)
    BY <1>0, <1>7, CarriedTyped DEF SetState
  <2>3. job'[w] = j /\ \A v \in Workers \ {w} : job'[v] = job[v]
    BY <2>2 DEF Proceed, TypeOK
  <2>4. /\ job[w].host \in DOMAIN hosts /\ hosts[job[w].host].id = job[w].id
        /\ <<job[w].host, job[w].cert>> \in presented /\ job[w].cert \in certificates
    BY <2>1 DEF InventoryInv, CarriedStored, CarriedKnown
  <2>5. DOMAIN states' = DOMAIN states \cup {<<job[w].id, job[w].cert>>}
    BY <2>1 DEF SetCertificateState, Upserted
  <2>6. ReferencesHold'
    BY <2>1, <2>4, <2>5 DEF InventoryInv, ReferencesHold, HostIds
  <2>7. IdsUnique' /\ LinksAreOwn' /\ CarriedStored' /\ CarriedKnown'
    BY <2>1, <2>2, <2>3, <2>4 DEF InventoryInv, IdsUnique, LinksAreOwn, CarriedStored,
                                  CarriedKnown, Carrying, IdleJob, JobSteps
  <2> QED
    BY <2>6, <2>7 DEF InventoryInv
<1>8. CASE Record(w)
  BY <1>8, QuietStep DEF Record, Proceed, TypeOK
<1>9. CASE Unresolved(w) \/ GiveUp(w)
  BY <1>9, QuietStep DEF Unresolved, GiveUp, Proceed, TypeOK, tables, history, inboxes
<1>10. CASE NotifyNext(w)
  BY <1>10, QuietStep DEF NotifyNext, Deliver, Refuse, LoseAnswer, MarkNotified, MarkFails,
                          Receive, Return, TypeOK, tables, history, inboxes
<1> QED
  BY <1>1, <1>2, <1>3, <1>4, <1>5, <1>6, <1>7, <1>8, <1>9, <1>10 DEF WorkerNext

\* Between scans a purge removes the host together with everything that refers to
\* its id, which can then be given to another host.
LEMMA PurgeStep ==
  ASSUME TypeOK, ControlInv, InventoryInv, PurgesApart, PurgeRequested,
         NEW b \in Browsers, NEW h \in Hosts, PurgeNext(b, h)
  PROVE  InventoryInv'
<1>1. UNCHANGED <<job, certificates, presented>>
  BY DEF PurgeNext, history, inboxes
<1>2. CASE /\ Scanning = {}
           /\ hosts' = PurgedHosts(hosts, h) /\ links' = PurgedLinks(hosts, links, h)
           /\ states' = PurgedStates(hosts, states, h)
  <2>1. \A w \in Workers : job[w].pc = "idle"
    BY <1>2, ScanAssumption DEF ControlInv, PhasesHold, IdleJob, Scanning
  <2>2. /\ DOMAIN hosts' = DOMAIN hosts \ {h} /\ DOMAIN links' \subseteq DOMAIN links
        /\ DOMAIN states' \subseteq DOMAIN states
        /\ \A g \in DOMAIN hosts' : hosts'[g] = hosts[g]
        /\ \A i \in DOMAIN links' : links'[i] = links[i]
    BY <1>2 DEF PurgedHosts, PurgedLinks, PurgedStates, Without
  <2>3. h \in DOMAIN hosts =>
          /\ \A i \in DOMAIN links' : links'[i].id # hosts[h].id
          /\ \A k \in DOMAIN states' : k[1] # hosts[h].id
    BY <1>2 DEF PurgedLinks, PurgedStates, Without, LinkRows
  <2>4. \A id \in HostIds(hosts) : id \in HostIds(hosts)' \/ (h \in DOMAIN hosts /\ id = hosts[h].id)
    BY <2>2 DEF HostIds
  <2>5. ReferencesHold'
    BY <1>1, <2>2, <2>3, <2>4 DEF InventoryInv, ReferencesHold
  <2>6. IdsUnique' /\ LinksAreOwn'
    BY <1>1, <2>2 DEF InventoryInv, IdsUnique, LinksAreOwn
  <2>7. CarriedStored' /\ CarriedKnown'
    BY <1>1, <2>1 DEF CarriedStored, CarriedKnown, Carrying, JobSteps
  <2> QED
    BY <2>5, <2>6, <2>7 DEF InventoryInv
<1> QED
  BY <1>2 DEF PurgeNext, PurgesApart, PurgeRequested

LEMMA InventoryStep ==
  ASSUME PurgesApart
  PROVE  TypeOK /\ ControlInv /\ PurgeRequested /\ InventoryInv /\ [Next]_vars => InventoryInv'
<1> SUFFICES ASSUME TypeOK, ControlInv, PurgeRequested, InventoryInv, [Next]_vars
             PROVE  InventoryInv'
  OBVIOUS
<1> USE DEF tables, runner, history, inboxes
<1>1. CASE UNCHANGED vars \/ Tick \/ \E p \in Processes : Cancel(p)
  BY <1>1, QuietStep DEF vars, Tick, Cancel
<1>2. ASSUME NEW h \in Hosts, Replace(h) PROVE InventoryInv'
  BY <1>2, QuietStep DEF Replace
<1>3. CASE \E p \in Processes : RunnerNext(p)
  BY <1>3, QuietStep DEF RunnerNext, StartScan, StartFails, ReadPending, RetryNext, Discover, DiscoverFails, EndScan,
                         StopFeeding, SkipHost
<1>4. CASE \E p \in Processes : NotifyNext(p)
  BY <1>4, QuietStep, ScanAssumption
     DEF NotifyNext, Deliver, Refuse, LoseAnswer, MarkNotified, MarkFails, Receive, Return
<1>5. CASE \E p \in Processes : Crash(p)
  BY <1>5, QuietStep DEF Crash
<1>6. CASE ConsoleNext
  <2>1. ASSUME NEW h \in Hosts, Suppress(h) \/ Unsuppress(h) PROVE InventoryInv'
    BY <2>1, QuietStep DEF Suppress, Unsuppress
  <2>2. ASSUME NEW e \in DOMAIN events, Acknowledge(e) PROVE InventoryInv'
    BY <2>2, QuietStep DEF Acknowledge
  <2>3. ASSUME NEW b \in Browsers, OpenSuppressAll(b) \/ OpenPurge(b) \/ BulkFails(b)
        PROVE  InventoryInv'
    BY <2>3, QuietStep DEF OpenSuppressAll, OpenPurge, BulkFails
  <2>4. ASSUME NEW b \in Browsers, NEW h \in Hosts, SuppressNext(b, h) PROVE InventoryInv'
    BY <2>4, QuietStep DEF SuppressNext
  <2> QED
    BY <1>6, <2>1, <2>2, <2>3, <2>4, PurgeStep DEF ConsoleNext
<1> QED
  BY <1>1, <1>2, <1>3, <1>4, <1>5, <1>6, InventoryWorkerStep DEF Next

LEMMA InventoryHolds == PurgesApart => (Spec => []InventoryInv)
<1>1. CASE PurgesApart
  BY <1>1, InitInventory, InventoryStep, ScanTyping, ControlHolds, PurgesAreRequested,
     PTL DEF Spec
<1> QED
  BY <1>1

\* As long as hosts are purged between scans only, the REFERENCES clauses of the
\* schema hold although SQLite does not enforce them: no link and no state is
\* ever about a host or a certificate that is not stored.
THEOREM ReferencesStay == PurgesApart => (Spec => []ReferencesHold)
<1>1. InventoryInv => ReferencesHold
  BY DEF InventoryInv
<1> QED
  BY <1>1, InventoryHolds, PTL

\* Under the same condition a host that is given the id of a purged one never
\* inherits its certificates.
THEOREM LinksStayOwn == PurgesApart => (Spec => []LinksAreOwn)
<1>1. InventoryInv => LinksAreOwn
  BY DEF InventoryInv
<1> QED
  BY <1>1, InventoryHolds, PTL
=============================================================================
