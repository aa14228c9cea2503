-------------------------------- MODULE Scan --------------------------------
(***************************************************************************)
(* The scanning pipeline of internal/core: Runner.run with its retry of    *)
(* pending notifications, discovery, and the workers that each carry one   *)
(* host at a time through processHost, on the tables of module Store, with *)
(* the web console changing the same tables meanwhile.                     *)
(*                                                                         *)
(* An action is one call of the store, one probe or one notification, with *)
(* the code around it; the store serialises its calls. Calls whose effect  *)
(* is on columns nothing here reads (SetHTTPStatus, MarkHostProbed,        *)
(* SetAutomationEstimate) are left out as effects; that they may fail is   *)
(* covered, since a worker may give up before every one of its actions.    *)
(*                                                                         *)
(* Several processes may scan into one database: serve, and the scan       *)
(* command that cron starts. A process runs at most one scan at a time     *)
(* (ScanGate is where that is established), but nothing keeps two processes*)
(* apart except SQLite, which runs one statement (or transaction) at a     *)
(* time; a call that meets another process's lock fails at once, since     *)
(* Open sets no busy timeout, and is an "error" here.                      *)
(***************************************************************************)
EXTENDS Store

CONSTANTS
  Workers,        \* the goroutines of the pool (probe.concurrency of them)
  Processes,      \* the processes on the database; in each, one goroutine runs Runner.run
  Server,         \* the one that also serves the console
  Browsers,       \* the requests over several hosts it may be serving at a time
  ProcessOf,      \* ProcessOf[w]: the process of worker w
  Handles,        \* Handles[n]: the event kinds notifier n is configured for
  ChainOutcomes,  \* outcomes of the chain check: a subset of BOOLEAN
  Replacements,   \* pairs <<c, d>>: a host may replace certificate c by d
  Faults,         \* failures that happen: any of FaultKinds
  Console,        \* requests the console makes: any of ConsoleKinds
  PurgeDuringScan,  \* the operator also purges while a scan is running
  TimeStep,       \* how far one step of the clock goes
  MaxTime,        \* bound: the clock stops here
  MaxId,          \* bound: host ids are at most this
  MaxEvents,      \* bound: no scan starts that could record more events
  MaxStops        \* bound: crashes and cancellations together

FaultKinds   == {"error", "unresolved", "discovery", "refused", "lost", "crash", "cancel",
                 "console"}
ConsoleKinds == {"suppress", "suppress all", "unsuppress", "purge", "acknowledge"}

ASSUME ScanAssumption ==
  /\ Workers \cap Processes = {} /\ Server \in Processes
  /\ ProcessOf \in [Workers -> Processes]
  /\ Handles \in Seq(SUBSET EventKinds)
  /\ ChainOutcomes \subseteq BOOLEAN
  /\ Replacements \subseteq Certs \X Certs
  /\ Faults \subseteq FaultKinds /\ Console \subseteq ConsoleKinds
  /\ PurgeDuringScan \in BOOLEAN
  /\ {TimeStep, MaxTime, MaxId, MaxEvents, MaxStops} \subseteq Nat

VARIABLES
  hosts, links, states, events,   \* tables of module Store
  certificates,                   \* fingerprints in the certificates table
  suppressed,                     \* suppressed_hosts
  now,                            \* the clock
  served,                         \* served[h]: the certificate h presents
  phase,                          \* phase[p]: where Runner.run of process p is
  pending,                        \* pending[p]: events its retryPendingEvents has left
  queue,                          \* queue[p]: its hosts not yet handed to a worker
  job,                            \* job[w]: what worker w carries
  notify,                         \* notify[s]: the notifyEvent call goroutine s is in
  cancelled,                      \* cancelled[p]: the context of its run is done
  stops,                          \* crashes and cancellations so far
  bulk,                           \* bulk[b]: the request over several hosts of browser b
  delivered,                      \* history: <<e, n>> that notifier n has received
  duplicated,                     \* history: <<e, n>> received more than once
  subject,                        \* history: subject[e] is the host event e is about
  stateAt,                        \* history: stateAt[e] is the state its scan stored
  presented                       \* history: <<h, c>> probed so far

tables  == <<hosts, links, states, events, certificates, suppressed>>
runner  == <<phase, pending, queue, cancelled, stops>>
inboxes == <<delivered, duplicated>>
history == <<inboxes, subject, stateAt, presented>>
vars    == <<tables, now, served, runner, job, notify, bulk, history>>

\* The goroutines that call notifyEvent: workers, and in each process the one
\* that runs Runner.run and retries pending events.
Senders   == Workers \cup Processes
Notifiers == DOMAIN Handles

\* The process goroutine s belongs to, and the workers of process p.
Home(s) == IF s \in Workers THEN ProcessOf[s] ELSE s
WorkersOf(p) == {w \in Workers : ProcessOf[w] = p}

\* The hosts a job may be about: a worker that carries none is "idle".
IdleJob == [pc |-> "idle"]
\* A goroutine outside notifyEvent has event 0.
NoCall == [event |-> 0, next |-> 1]
NoBulk == [op |-> "none", left |-> {}]

JobSteps == {"resolve", "probe", "certificate", "link", "state", "save", "event", "notify"}

Ids == 1..MaxId

HostRow  == [id: Ids, status: {"unresolved", "active"}]
LinkRow  == [id: Ids, cert: Certs, at: Nat]
EventRow == [kind: EventKinds, cert: Certs, id: Ids, notified: BOOLEAN, acked: BOOLEAN]

\* What a worker carries grows with what it has learnt about its host.
Jobs ==
  [pc: {"idle", "notify"}]
    \cup [pc: {"resolve", "probe"}, host: Hosts, id: Ids, at: Nat]
    \cup [pc: {"certificate", "link", "state"}, host: Hosts, id: Ids, at: Nat, cert: Certs,
          chain: BOOLEAN, previous: Certs \cup {NoCert}]
    \cup [pc: {"save"}, host: Hosts, id: Ids, cert: Certs, state: States,
          event: EventKinds \cup {NoEvent}]
    \cup [pc: {"event"}, host: Hosts, id: Ids, cert: Certs, state: States,
          event: EventKinds]

TypeOK ==
  /\ DOMAIN hosts \subseteq Hosts /\ hosts \in [DOMAIN hosts -> HostRow]
  /\ DOMAIN links \subseteq Nat /\ links \in [DOMAIN links -> LinkRow]
  /\ DOMAIN states \subseteq Ids \X Certs /\ states \in [DOMAIN states -> States]
  /\ events \in Seq(EventRow)
  /\ certificates \subseteq Certs /\ suppressed \subseteq Hosts
  /\ now \in Nat /\ served \in [Hosts -> Certs]
  /\ phase \in [Processes -> {"idle", "start", "retry", "scan"}]
  /\ pending \in [Processes -> SUBSET DOMAIN events]
  /\ queue \in [Processes -> SUBSET Hosts]
  /\ job \in [Workers -> Jobs]
  /\ notify \in [Senders -> [event: Nat, next: Nat]]
  /\ \A s \in Senders : notify[s].event # 0 => notify[s].event \in DOMAIN events
  /\ cancelled \in [Processes -> BOOLEAN] /\ stops \in 0..MaxStops
  /\ bulk \in [Browsers -> [op: {"none", "suppress", "purge"}, left: SUBSET Hosts]]
  /\ subject \in Seq(Hosts) /\ Len(subject) = Len(events)
  /\ stateAt \in Seq(States) /\ Len(stateAt) = Len(events)

Init ==
  /\ hosts = <<>> /\ links = <<>> /\ states = <<>> /\ events = <<>>
  /\ certificates = {} /\ suppressed = {}
  /\ now = 0
  /\ served \in [Hosts -> Certs]
  /\ phase = [p \in Processes |-> "idle"]
  /\ pending = [p \in Processes |-> {}] /\ queue = [p \in Processes |-> {}]
  /\ job = [w \in Workers |-> IdleJob]
  /\ notify = [s \in Senders |-> NoCall]
  /\ cancelled = [p \in Processes |-> FALSE] /\ stops = 0
  /\ bulk = [b \in Browsers |-> NoBulk]
  /\ delivered = {} /\ duplicated = {}
  /\ subject = <<>> /\ stateAt = <<>> /\ presented = {}

-----------------------------------------------------------------------------
(* The environment: time, and the hosts' administrators.                   *)

Tick ==
  /\ now + TimeStep <= MaxTime
  /\ now' = now + TimeStep
  /\ UNCHANGED <<tables, served, runner, job, notify, bulk, history>>

Replace(h) ==
  /\ \E c \in Certs : /\ <<served[h], c>> \in Replacements
                      /\ served' = [served EXCEPT ![h] = c]
  /\ UNCHANGED <<tables, now, runner, job, notify, bulk, history>>

-----------------------------------------------------------------------------
(* notifyEvent: s sends an event to the notifiers in their order, skipping *)
(* those that do not handle its kind, gives up at the first failure, and   *)
(* marks the event when the list is exhausted.                             *)

HandledBy(e, n) == events[e].kind \in Handles[n]

\* Mutant of Reaches: the loop may start anywhere in the list.
Reaches_Anywhere(s, n) ==
  n \in Notifiers /\ n >= notify[s].next /\ HandledBy(notify[s].event, n)

\* n is the notifier the loop of s reaches next.
Reaches(s, n) ==
  /\ n \in Notifiers /\ n >= notify[s].next /\ HandledBy(notify[s].event, n)
  /\ \A m \in notify[s].next..(n - 1) : ~HandledBy(notify[s].event, m)

Receive(e, n) ==
  /\ delivered' = delivered \cup {<<e, n>>}
  /\ duplicated' = duplicated \cup ({<<e, n>>} \cap delivered)
  /\ UNCHANGED <<subject, stateAt, presented>>

\* notifyEvent returns: a worker has finished its host, the retry loop goes on.
Return(s) ==
  /\ notify' = [notify EXCEPT ![s] = NoCall]
  /\ job' = IF s \in Workers THEN [job EXCEPT ![s] = IdleJob] ELSE job

\* Notify succeeded: the endpoint has the event and answered 2xx.
Deliver(s, n) ==
  /\ notify[s].event # 0 /\ ~cancelled[Home(s)]
  /\ Reaches(s, n)
  /\ Receive(notify[s].event, n)
  /\ notify' = [notify EXCEPT ![s].next = n + 1]
  /\ UNCHANGED <<tables, now, served, runner, job, bulk>>

\* Mutants of Refuse: the loop goes on to the next notifier; the retry of the
\* other events is abandoned.
Refuse_GoesOn(s, n) ==
  /\ notify[s].event # 0 /\ Reaches(s, n)
  /\ cancelled[Home(s)] \/ "refused" \in Faults
  /\ notify' = [notify EXCEPT ![s].next = n + 1]
  /\ UNCHANGED <<tables, now, served, runner, job, bulk, history>>

Refuse_StopsRetry(s, n) ==
  /\ notify[s].event # 0 /\ Reaches(s, n)
  /\ cancelled[Home(s)] \/ "refused" \in Faults
  /\ Return(s)
  /\ pending' = [pending EXCEPT ![Home(s)] = {}]
  /\ UNCHANGED <<tables, now, served, phase, queue, cancelled, stops, bulk, history>>

\* Notify failed and the endpoint never took the event.
Refuse(s, n) ==
  /\ notify[s].event # 0 /\ Reaches(s, n)
  /\ cancelled[Home(s)] \/ "refused" \in Faults
  /\ Return(s)
  /\ UNCHANGED <<tables, now, served, runner, bulk, history>>

\* Notify failed, by the timeout or the context, although the endpoint took it.
LoseAnswer(s, n) ==
  /\ notify[s].event # 0 /\ Reaches(s, n)
  /\ "lost" \in Faults
  /\ Receive(notify[s].event, n)
  /\ Return(s)
  /\ UNCHANGED <<tables, now, served, runner, bulk>>

Exhausted(s) ==
  \A n \in Notifiers : n >= notify[s].next => ~HandledBy(notify[s].event, n)

MarkNotified(s) ==
  /\ notify[s].event # 0 /\ Exhausted(s) /\ ~cancelled[Home(s)]
  /\ events' = MarkEventNotified(events, notify[s].event)
  /\ Return(s)
  /\ UNCHANGED <<hosts, links, states, certificates, suppressed,
                 now, served, runner, bulk, history>>

MarkFails(s) ==
  /\ notify[s].event # 0 /\ Exhausted(s)
  /\ cancelled[Home(s)] \/ "error" \in Faults
  /\ Return(s)
  /\ UNCHANGED <<tables, now, served, runner, bulk, history>>

NotifyNext(s) ==
  \/ \E n \in Notifiers : Deliver(s, n) \/ Refuse(s, n) \/ LoseAnswer(s, n)
  \/ MarkNotified(s)
  \/ MarkFails(s)

-----------------------------------------------------------------------------
(* Runner.run                                                              *)

\* The processes with a scan under way.
Scanning == {q \in Processes : phase[q] # "idle"}

\* The gate of p let a scan in: run begins by reading and storing the apexes
\* (module Targets has these calls).
StartScan(p) ==
  /\ phase[p] = "idle"
  /\ Len(events) + Cardinality(Hosts) * Cardinality(Scanning \cup {p}) <= MaxEvents
  /\ phase' = [phase EXCEPT ![p] = "start"]
  /\ UNCHANGED <<tables, now, served, pending, queue, cancelled, stops, job, notify, bulk,
                 history>>

\* One of the calls about the apexes, or PendingEvents, fails: run returns before
\* it has retried any event.
StartFails(p) ==
  /\ phase[p] = "start"
  /\ cancelled[p] \/ "error" \in Faults
  /\ phase' = [phase EXCEPT ![p] = "idle"]
  /\ cancelled' = [cancelled EXCEPT ![p] = FALSE]
  /\ UNCHANGED <<tables, now, served, pending, queue, stops, job, notify, bulk, history>>

\* retryPendingEvents reads PendingEvents once.
ReadPending(p) ==
  /\ phase[p] = "start" /\ ~cancelled[p]
  /\ phase' = [phase EXCEPT ![p] = "retry"]
  /\ pending' = [pending EXCEPT ![p] = PendingEvents(events)]
  /\ UNCHANGED <<tables, now, served, queue, cancelled, stops, job, notify, bulk, history>>

\* Mutant of RetryNext: an event is taken up again at once.
RetryNext_Keeps(p) ==
  /\ phase[p] = "retry" /\ notify[p] = NoCall
  /\ \E e \in pending[p] :
       /\ \A f \in pending[p] : e <= f
       /\ notify' = [notify EXCEPT ![p] = [event |-> e, next |-> 1]]
  /\ UNCHANGED <<tables, now, served, runner, job, bulk, history>>

\* retryPendingEvents: the next event of the list, in the order of the ids.
RetryNext(p) ==
  /\ phase[p] = "retry" /\ notify[p] = NoCall
  /\ \E e \in pending[p] :
       /\ \A f \in pending[p] : e <= f
       /\ notify' = [notify EXCEPT ![p] = [event |-> e, next |-> 1]]
       /\ pending' = [pending EXCEPT ![p] = @ \ {e}]
  /\ UNCHANGED <<tables, now, served, phase, queue, cancelled, stops, job, bulk, history>>

\* Mutant of Discover: suppressed hosts are not filtered out.
Discover_All(p) ==
  /\ phase[p] = "retry" /\ notify[p] = NoCall /\ pending[p] = {} /\ ~cancelled[p]
  /\ phase' = [phase EXCEPT ![p] = "scan"]
  /\ queue' = [queue EXCEPT ![p] = Hosts]
  /\ UNCHANGED <<tables, now, served, pending, cancelled, stops, job, notify, bulk, history>>

\* discover: the hosts of all sources, less those suppressed at this moment.
Discover(p) ==
  /\ phase[p] = "retry" /\ notify[p] = NoCall /\ pending[p] = {} /\ ~cancelled[p]
  /\ phase' = [phase EXCEPT ![p] = "scan"]
  /\ queue' = [queue EXCEPT ![p] = Hosts \ suppressed]
  /\ UNCHANGED <<tables, now, served, pending, cancelled, stops, job, notify, bulk, history>>

\* A source, a read of the store or the context fails: the scan ends with an error.
DiscoverFails(p) ==
  /\ phase[p] = "retry" /\ notify[p] = NoCall /\ pending[p] = {}
  /\ cancelled[p] \/ "discovery" \in Faults
  /\ phase' = [phase EXCEPT ![p] = "idle"]
  /\ cancelled' = [cancelled EXCEPT ![p] = FALSE]
  /\ UNCHANGED <<tables, now, served, pending, queue, stops, job, notify, bulk, history>>

\* The collector has seen every result. After a cancellation the process exits
\* and the next scan is that of its successor.
EndScan(p) ==
  /\ phase[p] = "scan" /\ queue[p] = {}
  /\ \A w \in WorkersOf(p) : job[w] = IdleJob
  /\ phase' = [phase EXCEPT ![p] = "idle"]
  /\ cancelled' = [cancelled EXCEPT ![p] = FALSE]
  /\ UNCHANGED <<tables, now, served, pending, queue, stops, job, notify, bulk, history>>

\* The feeder notices the cancellation and closes jobs.
StopFeeding(p) ==
  /\ phase[p] = "scan" /\ cancelled[p] /\ queue[p] # {}
  /\ queue' = [queue EXCEPT ![p] = {}]
  /\ UNCHANGED <<tables, now, served, phase, pending, cancelled, stops, job, notify,
                 bulk, history>>

-----------------------------------------------------------------------------
(* processHost, by worker w                                                *)

\* Every effect of a step of w: its next record, and what it leaves alone.
Proceed(w, record) == job' = [job EXCEPT ![w] = record]

\* Mutant of TakeHost: the host can be received a second time, as if Merge
\* left duplicates.
TakeHost_Kept(w) ==
  /\ phase[ProcessOf[w]] = "scan" /\ job[w] = IdleJob /\ ~cancelled[ProcessOf[w]]
  /\ \E h \in queue[ProcessOf[w]], id \in 1..MaxId :
       /\ IsHostId(hosts, h, id)
       /\ hosts' = UpsertHost(hosts, h, id, "unresolved")
       /\ Proceed(w, [pc |-> "resolve", host |-> h, id |-> id, at |-> now])
  /\ UNCHANGED <<links, states, events, certificates, suppressed, now, served,
                 runner, notify, bulk, history>>

\* A host is received from jobs and UpsertHost makes it "unresolved".
TakeHost(w) ==
  /\ phase[ProcessOf[w]] = "scan" /\ job[w] = IdleJob /\ ~cancelled[ProcessOf[w]]
  /\ \E h \in queue[ProcessOf[w]], id \in 1..MaxId :
       /\ IsHostId(hosts, h, id)
       /\ queue' = [queue EXCEPT ![ProcessOf[w]] = @ \ {h}]
       /\ hosts' = UpsertHost(hosts, h, id, "unresolved")
       /\ Proceed(w, [pc |-> "resolve", host |-> h, id |-> id, at |-> now])
  /\ UNCHANGED <<links, states, events, certificates, suppressed, now, served,
                 phase, pending, cancelled, stops, notify, bulk, history>>

\* UpsertHost fails: the host is skipped until the next scan.
SkipHost(p) ==
  /\ phase[p] = "scan"
  /\ cancelled[p] \/ "error" \in Faults
  /\ \E h \in queue[p] : queue' = [queue EXCEPT ![p] = @ \ {h}]
  /\ \E w \in WorkersOf(p) : job[w] = IdleJob
  /\ UNCHANGED <<tables, now, served, phase, pending, cancelled, stops, job, notify,
                 bulk, history>>

\* The name resolves and MarkHostResolved makes the host "active".
Resolve(w) ==
  /\ job[w].pc = "resolve" /\ ~cancelled[ProcessOf[w]]
  /\ hosts' = MarkHostResolved(hosts, job[w].host)
  /\ Proceed(w, [job[w] EXCEPT !.pc = "probe"])
  /\ UNCHANGED <<links, states, events, certificates, suppressed, now, served, runner,
                 notify, bulk, history>>

\* The name does not resolve, also because the lookup failed: no error, no more
\* to do for this host.
Unresolved(w) ==
  /\ job[w].pc = "resolve"
  /\ cancelled[ProcessOf[w]] \/ "unresolved" \in Faults
  /\ Proceed(w, IdleJob)
  /\ UNCHANGED <<tables, now, served, runner, notify, bulk, history>>

\* What a handshake with h can bring: its certificate, which is not verified
\* here, and the outcome of the chain check. (Failing, it ends in GiveUp.)
ProbeResults(h) == [cert: {served[h]}, chain: ChainOutcomes]

\* The probe, and LatestHostCertificate before anything of it is stored.
Probe(w) ==
  /\ job[w].pc = "probe" /\ ~cancelled[ProcessOf[w]]
  /\ LET h == job[w].host
     IN  \E result \in ProbeResults(h) :
           /\ Proceed(w, [pc |-> "certificate", host |-> h, id |-> job[w].id, at |-> job[w].at,
                          cert |-> result.cert, chain |-> result.chain,
                          previous |-> LatestHostCertificate(links, job[w].id)])
           /\ presented' = presented \cup {<<h, result.cert>>}
  /\ UNCHANGED <<tables, now, served, runner, notify, bulk,
                 inboxes, subject, stateAt>>

UpsertCertificate(w) ==
  /\ job[w].pc = "certificate" /\ ~cancelled[ProcessOf[w]]
  /\ certificates' = certificates \cup {job[w].cert}
  /\ Proceed(w, [job[w] EXCEPT !.pc = "link"])
  /\ UNCHANGED <<hosts, links, states, events, suppressed, now, served, runner, notify,
                 bulk, history>>

Link(w) ==
  /\ job[w].pc = "link" /\ ~cancelled[ProcessOf[w]]
  /\ \E row \in LinkRowRange(links) :
       /\ IsLinkRow(links, job[w].id, job[w].cert, row)
       /\ links' = LinkHostCertificate(links, row, job[w].id, job[w].cert, job[w].at)
  /\ Proceed(w, [job[w] EXCEPT !.pc = "state"])
  /\ UNCHANGED <<hosts, states, events, certificates, suppressed, now, served, runner,
                 notify, bulk, history>>

\* Mutant of Evaluated: the state is stored before the previous one is read.
Evaluated_StoresFirst(w) ==
  /\ job[w].pc = "state" /\ ~cancelled[ProcessOf[w]]
  /\ LET j == job[w]
         state == StateOf(Metadata(j.cert, j.chain), j.at)
     IN  Proceed(w, [pc |-> "save", host |-> j.host, id |-> j.id, cert |-> j.cert,
                     state |-> state, event |-> ScanEvent(Renews(j.previous, j.cert), state, state)])
  /\ UNCHANGED <<tables, now, served, runner, notify, bulk, history>>

\* GetCertificateState, then evaluate: the state to store and the event to raise.
Evaluated(w) ==
  /\ job[w].pc = "state" /\ ~cancelled[ProcessOf[w]]
  /\ LET j == job[w]
         state == StateOf(Metadata(j.cert, j.chain), j.at)
         event == ScanEvent(Renews(j.previous, j.cert), state,
                            GetCertificateState(states, j.id, j.cert))
     IN  Proceed(w, [pc |-> "save", host |-> j.host, id |-> j.id, cert |-> j.cert,
                     state |-> state, event |-> event])
  /\ UNCHANGED <<tables, now, served, runner, notify, bulk, history>>

\* Mutant of SetState: the state is not stored.
SetState_Lost(w) ==
  /\ job[w].pc = "save" /\ ~cancelled[ProcessOf[w]]
  /\ Proceed(w, IF job[w].event = NoEvent THEN IdleJob ELSE [job[w] EXCEPT !.pc = "event"])
  /\ UNCHANGED <<tables, now, served, runner, notify, bulk, history>>

\* SetCertificateState; without an event the host is finished.
SetState(w) ==
  /\ job[w].pc = "save" /\ ~cancelled[ProcessOf[w]]
  /\ states' = SetCertificateState(states, job[w].id, job[w].cert, job[w].state)
  /\ Proceed(w, IF job[w].event = NoEvent THEN IdleJob ELSE [job[w] EXCEPT !.pc = "event"])
  /\ UNCHANGED <<hosts, links, events, certificates, suppressed, now, served, runner,
                 notify, bulk, history>>

\* Mutants of Record: the id is one too large; the id is that of the row before.
Record_NextId(w) ==
  /\ job[w].pc = "event" /\ ~cancelled[ProcessOf[w]]
  /\ events' = RecordEvent(events, job[w].event, job[w].cert, job[w].id)
  /\ subject' = Append(subject, job[w].host)
  /\ stateAt' = Append(stateAt, job[w].state)
  /\ notify' = [notify EXCEPT ![w] = [event |-> Len(events) + 2, next |-> 1]]
  /\ Proceed(w, [pc |-> "notify"])
  /\ UNCHANGED <<hosts, links, states, certificates, suppressed, now, served, runner,
                 bulk, inboxes, presented>>

Record_PreviousId(w) ==
  /\ job[w].pc = "event" /\ ~cancelled[ProcessOf[w]]
  /\ events' = RecordEvent(events, job[w].event, job[w].cert, job[w].id)
  /\ subject' = Append(subject, job[w].host)
  /\ stateAt' = Append(stateAt, job[w].state)
  /\ notify' = [notify EXCEPT ![w] = [event |-> IF events = <<>> THEN 1 ELSE Len(events),
                                      next |-> 1]]
  /\ Proceed(w, [pc |-> "notify"])
  /\ UNCHANGED <<hosts, links, states, certificates, suppressed, now, served, runner,
                 bulk, inboxes, presented>>

\* RecordEvent; the worker enters notifyEvent with the id it got.
Record(w) ==
  /\ job[w].pc = "event" /\ ~cancelled[ProcessOf[w]]
  /\ events' = RecordEvent(events, job[w].event, job[w].cert, job[w].id)
  /\ subject' = Append(subject, job[w].host)
  /\ stateAt' = Append(stateAt, job[w].state)
  /\ notify' = [notify EXCEPT ![w] = [event |-> Len(events) + 1, next |-> 1]]
  /\ Proceed(w, [pc |-> "notify"])
  /\ UNCHANGED <<hosts, links, states, certificates, suppressed, now, served, runner,
                 bulk, inboxes, presented>>

\* Any call of processHost fails: it returns, and the host waits for the next
\* scan with whatever was stored so far.
GiveUp(w) ==
  /\ job[w].pc \in JobSteps \ {"notify"}
  /\ cancelled[ProcessOf[w]] \/ "error" \in Faults
  /\ Proceed(w, IdleJob)
  /\ UNCHANGED <<tables, now, served, runner, notify, bulk, history>>

WorkerNext(w) ==
  \/ TakeHost(w) \/ Resolve(w) \/ Unresolved(w) \/ Probe(w) \/ UpsertCertificate(w)
  \/ Link(w) \/ Evaluated(w) \/ SetState(w) \/ Record(w) \/ GiveUp(w)
  \/ NotifyNext(w)

-----------------------------------------------------------------------------
(* A process is told to stop, or dies.                                     *)

Cancel(p) ==
  /\ "cancel" \in Faults /\ stops < MaxStops
  /\ phase[p] # "idle" /\ ~cancelled[p]
  /\ cancelled' = [cancelled EXCEPT ![p] = TRUE]
  /\ stops' = stops + 1
  /\ UNCHANGED <<tables, now, served, phase, pending, queue, job, notify, bulk, history>>

\* Everything of p but the database is lost; its next scan is that of a new process.
Crash(p) ==
  /\ "crash" \in Faults /\ stops < MaxStops
  /\ phase[p] # "idle"
  /\ phase' = [phase EXCEPT ![p] = "idle"]
  /\ pending' = [pending EXCEPT ![p] = {}] /\ queue' = [queue EXCEPT ![p] = {}]
  /\ cancelled' = [cancelled EXCEPT ![p] = FALSE]
  /\ job' = [w \in Workers |-> IF ProcessOf[w] = p THEN IdleJob ELSE job[w]]
  /\ notify' = [s \in Senders |-> IF Home(s) = p THEN NoCall ELSE notify[s]]
  /\ bulk' = IF p = Server THEN [b \in Browsers |-> NoBulk] ELSE bulk
  /\ stops' = stops + 1
  /\ UNCHANGED <<tables, now, served, history>>

-----------------------------------------------------------------------------
(* The console. A request over several hosts reads a list, and then makes  *)
(* one call of the store for each of them; a request for one host comes    *)
(* from a page that listed it. Other requests and scans happen in between. *)

Suppress(h) ==
  /\ "suppress" \in Console /\ h \notin suppressed
  /\ suppressed' = SuppressHost(suppressed, h)
  /\ UNCHANGED <<hosts, links, states, events, certificates, now, served, runner, job,
                 notify, bulk, history>>

\* serveSuppressAllHosts reads the inventory, which leaves out suppressed hosts.
OpenSuppressAll(b) ==
  /\ "suppress all" \in Console /\ bulk[b] = NoBulk
  /\ DOMAIN hosts \ suppressed # {}
  /\ bulk' = [bulk EXCEPT ![b] = [op |-> "suppress", left |-> DOMAIN hosts \ suppressed]]
  /\ UNCHANGED <<tables, now, served, runner, job, notify, history>>

\* The request of b is done with host h, and with the last one ends.
WorkOff(b, h) ==
  /\ h \in bulk[b].left
  /\ bulk' = [bulk EXCEPT ![b] = IF @.left = {h} THEN NoBulk
                                          ELSE [op |-> @.op, left |-> @.left \ {h}]]

\* It suppresses the hosts of its list one by one.
SuppressNext(b, h) ==
  /\ bulk[b].op = "suppress" /\ WorkOff(b, h)
  /\ suppressed' = SuppressHost(suppressed, h)
  /\ UNCHANGED <<hosts, links, states, events, certificates, now, served, runner, job,
                 notify, history>>

Unsuppress(h) ==
  /\ "unsuppress" \in Console /\ h \in suppressed
  /\ suppressed' = UnsuppressHost(suppressed, h)
  /\ UNCHANGED <<hosts, links, states, events, certificates, now, served, runner, job,
                 notify, bulk, history>>

\* servePurgeAllHosts reads the suppressed hosts; a single purge is offered for
\* a host that was suppressed when the page was made.
OpenPurge(b) ==
  /\ "purge" \in Console /\ bulk[b] = NoBulk
  /\ PurgeDuringScan \/ Scanning = {}
  /\ \E list \in {suppressed} \cup {{h} : h \in suppressed} :
       list # {} /\ bulk' = [bulk EXCEPT ![b] = [op |-> "purge", left |-> list]]
  /\ UNCHANGED <<tables, now, served, runner, job, notify, history>>

\* It purges them one by one, without looking again whether they are suppressed
\* or, by now, even stored.
PurgeNext(b, h) ==
  /\ bulk[b].op = "purge" /\ WorkOff(b, h)
  /\ PurgeDuringScan \/ Scanning = {}
  /\ hosts' = PurgedHosts(hosts, h)
  /\ links' = PurgedLinks(hosts, links, h)
  /\ states' = PurgedStates(hosts, states, h)
  /\ suppressed' = suppressed \ {h}
  /\ UNCHANGED <<events, certificates, now, served, runner, job, notify, history>>

\* A call of the store fails: the request ends with hosts left over.
BulkFails(b) ==
  /\ bulk[b] # NoBulk /\ "console" \in Faults
  /\ bulk' = [bulk EXCEPT ![b] = NoBulk]
  /\ UNCHANGED <<tables, now, served, runner, job, notify, history>>

Acknowledge(e) ==
  /\ "acknowledge" \in Console /\ CanAcknowledge(events, e)
  /\ events' = AcknowledgeEvent(events, e)
  /\ UNCHANGED <<hosts, links, states, certificates, suppressed, now, served, runner, job,
                 notify, bulk, history>>

ConsoleNext ==
  \/ \E h \in Hosts : Suppress(h) \/ Unsuppress(h)
  \/ \E b \in Browsers :
       \/ OpenSuppressAll(b) \/ OpenPurge(b) \/ BulkFails(b)
       \/ \E h \in Hosts : SuppressNext(b, h) \/ PurgeNext(b, h)
  \/ \E e \in DOMAIN events : Acknowledge(e)

-----------------------------------------------------------------------------

RunnerNext(p) ==
  \/ StartScan(p) \/ StartFails(p) \/ ReadPending(p) \/ RetryNext(p)
  \/ Discover(p) \/ DiscoverFails(p) \/ EndScan(p) \/ StopFeeding(p) \/ SkipHost(p)

Next ==
  \/ Tick
  \/ \E h \in Hosts : Replace(h)
  \/ \E p \in Processes : RunnerNext(p) \/ NotifyNext(p) \/ Cancel(p) \/ Crash(p)
  \/ \E w \in Workers : WorkerNext(w)
  \/ ConsoleNext

Spec == Init /\ [][Next]_vars

\* Goroutines that can run do run, and the scheduler starts scan after scan.
\* Nothing is promised about failures, the console or the passing of time, and
\* nothing about notifiers: EventuallyNotified says itself what it needs of them.
FairSpec ==
  /\ Spec
  /\ \A p \in Processes :
       /\ WF_vars(StartScan(p)) /\ WF_vars(ReadPending(p) \/ StartFails(p))
       /\ WF_vars(RetryNext(p))
       /\ WF_vars(Discover(p) \/ DiscoverFails(p))
       /\ WF_vars(EndScan(p)) /\ WF_vars(StopFeeding(p))
       /\ WF_vars(NotifyNext(p))
  /\ \A w \in Workers : WF_vars(WorkerNext(w))

-----------------------------------------------------------------------------
(* Properties.                                                             *)

Handlers(e) == {n \in Notifiers : HandledBy(e, n)}

\* notified_at is a promise kept: an event marked as notified has been received
\* by every notifier configured for its kind, in whichever of worker or retry
\* loop, and through whatever partial failures, crashes and cancellations.
NotifiedMeansDelivered ==
  \A e \in DOMAIN events : events[e].notified => \A n \in Handlers(e) : <<e, n>> \in delivered

\* The whole of it: workers, retries, console, crashes and cancellations together
\* deliver as module Outbox promises, that is, in order, at least once, and with a
\* mark only at the end.
Promise ==
  INSTANCE Outbox WITH
    Kinds    <- EventKinds,
    kinds    <- [e \in DOMAIN events |-> events[e].kind],
    notified <- {e \in DOMAIN events : events[e].notified},
    received <- delivered

ImplementsOutbox == Promise!Spec

\* Within a process, retries and workers never send the same event at the same
\* time. (Two processes may: one retries what the other has just recorded.)
OneSenderPerEvent ==
  \A s, t \in Senders :
    s # t /\ Home(s) = Home(t) /\ notify[s].event # 0 => notify[s].event # notify[t].event

\* Without a purge and within one process, a certificate is announced as
\* discovered on a host at most once, whatever is retried, cancelled, crashed or
\* rescanned. (Two processes can both find a certificate unseen.)
DiscoveredOnce ==
  \A e, f \in DOMAIN events :
    /\ events[e].kind = "discovered" /\ events[f].kind = "discovered"
    /\ events[e].cert = events[f].cert /\ events[e].id = events[f].id
    => e = f

\* Two workers of a process never carry the same host: their read of the previous
\* certificate and state and their writes of the new ones would interleave.
OneWorkerPerHost ==
  \A v, w \in Workers :
    /\ v # w /\ ProcessOf[v] = ProcessOf[w]
    /\ job[v].pc \in JobSteps \ {"notify"} /\ job[w].pc \in JobSteps \ {"notify"}
    => job[v].host # job[w].host

\* The REFERENCES clauses of the schema, which SQLite does not enforce here:
\* every link and every state is about a stored host and a stored certificate.
ReferencesHold ==
  /\ \A i \in DOMAIN links :
       links[i].id \in HostIds(hosts) /\ links[i].cert \in certificates
  /\ \A k \in DOMAIN states : k[1] \in HostIds(hosts) /\ k[2] \in certificates

\* The certificates linked to a host are certificates that host presented.
LinksAreOwn ==
  \A h \in DOMAIN hosts, i \in DOMAIN links :
    links[i].id = hosts[h].id => <<h, links[i].cert>> \in presented

\* A renewed record is about a host that did present another certificate with
\* an earlier end before.
RenewedMeansChanged ==
  \A e \in DOMAIN events :
    events[e].kind = "renewed" =>
      \E c \in Certs : /\ <<subject[e], c>> \in presented
                       /\ c # events[e].cert /\ NotAfter[c] < NotAfter[events[e].cert]

\* Within one process a stored danger is on record, whatever fails or stops when:
\* the last event about the pair of host and certificate was recorded with that
\* very state and is of its kind, or is the record of the discovery or renewal
\* that took its place; or a worker is about to record it. The one step that
\* leaves a danger off the record, then and later, is that of a worker which
\* stops between SetCertificateState and RecordEvent.
Dangers == States \ {"healthy"}

About(k) == {e \in DOMAIN events : events[e].id = k[1] /\ events[e].cert = k[2]}

Records(e, state) ==
  stateAt[e] = state /\ events[e].kind \in {state, "discovered", "renewed"}

\* w has stored the state of pair k and has not recorded the event yet.
AboutToRecord(w, k) == job[w].pc = "event" /\ <<job[w].id, job[w].cert>> = k

OnRecord(k) ==
  \/ \E w \in Workers : AboutToRecord(w, k) /\ job[w].state = states[k]
  \/ \E e \in About(k) : Records(e, states[k]) /\ \A f \in About(k) : f <= e

DangersStayOnRecord ==
  [][\A k \in DOMAIN states' :
       \/ states'[k] \notin Dangers
       \/ OnRecord(k)'
       \/ k \in DOMAIN states /\ states'[k] = states[k] /\ ~OnRecord(k)
       \/ \E w \in Workers : AboutToRecord(w, k) /\ job'[w] = IdleJob]_vars

\* The ledger only grows, and its marks only get set: no step removes or changes
\* a record, clears notified_at (which would send it again) or takes back an
\* acknowledgement.
LedgerGrows ==
  \A e \in DOMAIN events :
    /\ e \in DOMAIN events'
    /\ events'[e].kind = events[e].kind
    /\ events'[e].cert = events[e].cert /\ events'[e].id = events[e].id
    /\ events[e].notified => events'[e].notified
    /\ events[e].acked => events'[e].acked

LedgerOnlyGrows == [][LedgerGrows]_vars

\* A host that stays suppressed is left alone by every scan that starts
\* discovery after the suppression: its row does not change and no event about
\* it is recorded. (A scan that has read the suppressed hosts before goes on.)
InFlight(h) ==
  \/ \E p \in Processes : h \in queue[p]
  \/ \E w \in Workers : job[w].pc \in JobSteps \ {"notify"} /\ job[w].host = h

SuppressedIsLeftAlone ==
  [][\A h \in suppressed \cap suppressed' :
       ~InFlight(h) =>
         /\ ~InFlight(h)'
         /\ h \in DOMAIN hosts => h \in DOMAIN hosts' /\ hosts'[h] = hosts[h]
         /\ \A e \in DOMAIN events' \ DOMAIN events : subject'[e] # h]_vars

\* Every scan ends: it never waits for ever on a worker, on a notifier or on
\* the retry of events.
ScanEnds == \A p \in Processes : phase[p] # "idle" ~> phase[p] = "idle"

\* Every recorded event is marked as notified in the end, provided only that the
\* store does not fail the beginning of every scan of one process, nor the store
\* and its own notifiers its retries there for ever: an event whose notifiers
\* never work does not hold up the others. (Room: the bound MaxEvents never keeps
\* the next scan from starting.)
Room == Len(events) + Cardinality(Hosts) * Cardinality(Processes) <= MaxEvents

Deliverable(e) ==
  /\ SF_vars(ReadPending(Server))
  /\ \A n \in Notifiers : SF_vars(notify[Server].event = e /\ Deliver(Server, n))
  /\ SF_vars(notify[Server].event = e /\ MarkNotified(Server))

Recorded(e) == e \in DOMAIN events
Notified(e) == Recorded(e) /\ events[e].notified

EventuallyNotified ==
  \A e \in 1..(MaxEvents - Cardinality(Hosts)) :
    []Room /\ Deliverable(e) => (Recorded(e) ~> Notified(e))

-----------------------------------------------------------------------------
(* What documentation, schema and help texts say and the code does not do. *)

\* docs/design.md: notified_at prevents duplicate notifications.
NoDuplicateNotification == duplicated = {}

\* README.en.md: Unsuppress restores a host, and Purge and Purge all permanently
\* remove suppressed host records. (No record of any other host is removed.)
OnlySuppressedPurged == [][\A h \in DOMAIN hosts \ DOMAIN hosts' : h \in suppressed]_vars
=============================================================================
