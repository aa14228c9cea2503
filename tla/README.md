# A TLA+ development of certinv

certinv discovers the hosts of a set of registered domains, looks at the TLS
certificate each of them presents, keeps an inventory in SQLite, and announces
what changes: a certificate that is new, renewed, about to end, ended or badly
installed. This directory holds TLA+ modules that model the program, the TLC
configurations that check them on small instances, and proofs that TLAPS checks
for all instances. Paths in this file are relative to the repository.

    tlasany Scan.tla                                     parse a module
    tlc -workers 2 -config MCScanFaults.cfg MCScan       run TLC
    tlapm PoolProofs.tla                                 check proofs

`PROJECT.json` lists the runs, the lines of source each definition stands for,
the hazards the properties are about, and for every property a mutation of the
model of the code that makes it fail.

## 1. Inventory of the system

`certinv serve` is one process over one SQLite file. `certinv scan` is the same
scan once, in a process of its own, on the same file: nothing but SQLite's locks
keeps the two apart.

| component | source | state it keeps | operations |
|---|---|---|---|
| serve process, scan gate | `cmd/certinv/main.go` | `running` behind a mutex, ticker, channel `errs`, context | scheduler loop, `TriggerScan`, `Running`, signal, `Shutdown`, deferred `stop` and `db.Close` |
| scan runner | `internal/core/core.go` | apexes, worker pool, channels `jobs` and `results` | `run`, `retryPendingEvents`, `discover`, `processHost`, `notifyEvent` |
| evaluation | `internal/evaluate` | none | `Certificate`: state and event of a certificate |
| store | `internal/store/sqlite` | tables of the inventory and of the console, one mutex | one transaction or statement per call |
| notification | `internal/notify` | list of notifiers with their event kinds | `Handles`, `Notify`: one HTTP request |
| discovery | `internal/discover` with `crtname`, `manual`, `zonefile` | none | names of one apex, or of all |
| console: hosts, events | `internal/ui` | none; it changes the store | suppress, unsuppress, purge (single, all), acknowledge |
| console: targets, sources | `internal/ui` | none; it changes the store | managed apexes, hosts, zone files, crt.name settings |
| configuration | `internal/config` | read once | `Load`, `Validate` |
| exporter | `internal/exporter` | outcome and duration of the last scan | `RecordScan`, `/metrics` |
| resolve, probe, cert | `internal/resolve`, `probe`, `cert` | none | lookup, TLS handshake, fields of a certificate |
| automation | `internal/report` | none | guesses whether a renewal is automatic |
| pages, CSV, auth | `internal/ui` | none | `pageData` (several reads of the store), rendering, filters, export |
| command line | `cmd/certinv` | none | `serve`, `scan`, `check`, `version` |

How they interact:

- The scheduler and every `POST /ui/scan` reach the runner only through the gate
  `serialScanRunner`, whose flag `/ui/scan/status` reports to the browsers.
- A scan reads the targets (config.yaml overlaid by the managed tables) in
  several calls of the store while handlers of the console change those tables.
- The runner hands hosts to its workers over `jobs` and collects `results`; the
  workers write the inventory one call at a time and then call the notifiers.
- The console writes `suppressed_hosts` and `events.acknowledged_at`, and deletes
  inventory rows, while the workers write.
- A page is made from several reads of the store, and `/metrics` from two reads and
  what the runner of this process last reported, while workers and handlers write.
- What a process leaves behind is the database alone: a successor sees events
  without `notified_at` and retries them at the start of its next scan.

What makes it hard, and what therefore should be true:

| where | hard because | correct means |
|---|---|---|
| gate | three kinds of callers, a flag set by one goroutine and cleared by another, shutdown in the middle | scans never overlap, the flag neither sticks nor lies, the database is closed last, a signal ends the process |
| worker pool | two unbuffered channels closed by others than their readers, a context that may end anywhere | no send on a closed channel, no deadlock, nothing left running, no success with hosts missing |
| processHost | up to nine store calls without a transaction over them; each may fail, the process may die between any two | tables refer to each other, states and events agree: a stored danger stays on record unless its worker stops right before recording it |
| notification | several notifiers with one mark; answers are lost; retry and first attempt | the mark is truthful, order is kept, nothing is forgotten, two senders never share an event |
| rules of evaluation | the previous state is per pair of host and certificate, the renewal rule replaces the evaluation's event | the last event about a certificate in danger names it, unless a discovery or renewal took its place; no noise; a renewal is one |
| inventory keys | ids of deleted rows are given out again; suppressing, purging and scanning interleave | a host never inherits another's certificates; suppression is obeyed |
| targets | check-then-act handlers in several browsers; a scan that reads the same table more than once; one failing source ends a scan | a scan stays within what was registered; what stays configured all the while is scanned; edits lose nothing silently |
| two processes | the gate is a flag in memory, and `scan` runs next to `serve` | delivery stays truthful, ordered and at least once; tables stay consistent |
| pages, metrics | a page is several reads with writes in between; the reachable flag is written by one of many steps of a worker; a scan ends in many ways | nothing steady is missing from a page, the flag follows the last lookup, a scan that left hosts out is no success |

## 2. The modules

    ScanGate      who may scan, and when            -> Scan's "StartScan"
      Pool        goroutines of one scan   implements   Crew (what Scan assumes)
      Targets     what a scan is about              -> Scan's "Discover"
      Scan        the scan itself          implements   Outbox (promise to notifiers)
        Store       the tables and their statements
          Evaluate    states and events
      Views       what an operator is shown (extends Scan)
      HostHistory one host through the years (on Store and Evaluate)

`ScanGate`, `Pool`, `Targets` and `Scan` cut the program where its parts meet in
one step. `ScanGate` lets a scan in and leaves it opaque. `Targets` says which
hosts `discover` may return; `Scan` takes any set of hosts instead, which
includes all of these. `Pool` shows that goroutines and channels amount to
workers that take hosts from a queue in one step (`Crew`), and `Scan` does just
that. `Scan` shows that its workers, retries and crashes amount to an `Outbox`.
`Views` is composed with `Scan` step by step: it adds the requests that only
read, and what `RecordScan` and the histories learn from each step of `Scan`.

### ScanGate

State: the flag (`running`), program counters of the scheduler (`sched`), of one
goroutine per accepted request (`manual`), of `runServe` (`main`), what each
browser has been told (`client`), the ticker's one-element channel (`tick`), the
context (`cancelled`), the buffered channel `errs`, the HTTP server and the
database handle. `SchedStart`, `SchedSkip`, `SchedReturn`, `SchedFinish` are
`serialScanRunner.Run` as called from `Scheduler.Run`; `SchedTick` and
`SchedDone` are the branches of its select. `TriggerAccepted`,
`TriggerRejected`, `ManualStart`, `ManualReturn`, `ManualFinish` are
`TriggerScan` and its goroutine; `PollIdle` is the answer of `/ui/scan/status`.
The `Main...` actions are `runServe` from its select to its deferred calls, in
the order Go runs them.

### Pool and Crew

`Pool` has an action per channel operation: an unbuffered send and its receive
are one step (`Feed`, `SendResult`), closing is a step (`StopFeeding`,
`CloseResults`), `Exit` is the end of `range jobs` with the deferred `wg.Done`,
`Return` the end of `range results` with the check of `ctx.Err()`. `Cancel` may
happen at any moment. `counted` says how often a host's result was collected.

`Crew` has a queue, workers that carry at most one host, a cancellation that
may drop the queue, and an end. The mapping: the queue is `unfed` until the
feeder stops, the host of a worker is carried until its result is sent, and the
scan is over when the collector has left.

### Evaluate, Store, HostHistory

`Evaluate` is `evaluate.Certificate` with its windows, and the renewal rule of
`processHost` (`ScanEvent`). Time is a natural number of hundredths of a day so
that a percentage of a lifetime in days is exact; the code's `Duration`
arithmetic does not overflow for lifetimes of certificates.

`Store` has the tables as functions and one operator per statement. What it
takes from the schema and not from the Go code: an id is one more than the
largest in use, because the primary keys are `INTEGER PRIMARY KEY` without
`AUTOINCREMENT`, so the id of a deleted last row is used again. What it takes
from the queries: the latest certificate of a host is the row with the greatest
time and, among equal times, the greatest row id (`LatestHostCertificate`), at
the resolution of a second.

`HostHistory` has a scan of one host as one step and asks what the rules amount
to over many scans, while the host changes its certificate and its chain and
the clock passes all thresholds. Its history `stateAt` is the state each event was
recorded with, which the ledger itself does not keep: an event names a danger by its
kind or not at all. Scans of the same host start in different
seconds, which is a guard of the model; see section 6.

### Scan and Outbox

State: the tables (`hosts`, `links`, `states`, `events`, `certificates`,
`suppressed`), for each process its runner (`phase`, `pending`, `queue`,
`cancelled`), one job per worker and one `notifyEvent` call per worker and per
retry loop, for each of the `Browsers` the request over several hosts it has open
(`bulk`), and five history variables no action reads: what was delivered, delivered
twice, which host an event was about and with which state it was recorded
(`subject`, `stateAt`), and which certificates a host has presented.

`Processes` are those on one database: `Server` is `serve`, the others are `scan`
commands, and `ProcessOf` says whose a worker is. Each process runs one scan at a
time (which `ScanGate` establishes for `serve`). They share the tables and nothing
else; a crash or a cancellation is of one process. SQLite runs one statement or
transaction at a time, and as `Open` sets no busy timeout, a call that meets the
lock of another process fails at once, which is one of the failures any call has.

A scan begins by reading and storing the apexes and reading the pending events
(phase "start"). If one of these calls fails, `run` returns before it has retried any
event (`StartFails`); otherwise `ReadPending` has the list and the retries begin.

A worker makes one step per call of the store, in the order of the code:
`TakeHost` (`UpsertHost`), `Resolve` or `Unresolved`, `Probe` (with
`LatestHostCertificate`, which is read before anything is written),
`UpsertCertificate`, `Link`, `Evaluated` (`GetCertificateState` and the pure
evaluation), `SetState`, `Record`. A job carries what the code has in local
variables, and only as long as it is used. `GiveUp` is the error return of any
of these calls. `notifyEvent` has an action per outcome of a request:
`Deliver`, `Refuse`, and `LoseAnswer` (the notifier has the event and the sender
believes it has not), and then `MarkNotified` or `MarkFails`.

`Crash` keeps the tables and forgets everything else. `Cancel` is the end of the
context: from then on calls may fail and the feeder may stop. The console's
requests over several hosts read a list (`OpenSuppressAll`, `OpenPurge`) and then
work it off, one call at a time (`SuppressNext`, `PurgeNext`, `BulkFails`). Each
browser may have one open, so that several interleave, as HTTP requests do; none
looks again at what its list was read from.

A handshake reports one of `ProbeResults`: a certificate with a chain that
checks or not; `Discover` takes any set of hosts or fails as a whole.

Two lines of reasoning shorten the model. The store makes each call atomic (its
mutex within a process, SQLite between processes), so interleavings exist only
between calls. And `Evaluated` joins `GetCertificateState` with the computation
that follows it, which touches nothing shared: another process may write the same
state before the step or after it, and both orders are behaviours of the model.

`Outbox` says what a notifier may rely on: events are never forgotten, each
notifier receives an event only after those before it in the list, and an event
is marked only when all have it. It knows nothing of workers, retries or crashes.

### Targets

State: the managed tables, the tables `apexes` and `hosts`, one request per
browser as the list of store calls it has left, and the scan's progress with
what it has read so far. A handler is a sequence of calls (`ServeEditManualHost`
and so on): checks that end the request when they fail, and writes. So each
handler is written down once, in the order of its code, and the actions are the
calls of the store. The scan reads what the code reads, call by call: apexes
twice (once in `run`, once in `discover`), the crt.name settings and the apexes
they apply to in two calls, zone files, then the manual hosts.

The histories are what the properties compare a scan with: `registered` and
`switchedOn` (apexes and settings in force at some moment of the scan), `steady`
(what was configured at every moment of it), `ever` and `late` (apexes that were
ever in force, and those that came into force while a scan ran) and `owed`
(hostnames the operator added and has not deleted, nor lost with an error message).

### Views

State: the page being made (`page`), what `RecordScan` was told last (`success`),
and four histories: hosts whose last lookup succeeded (`reached`), hosts and events
that did not change since the page was begun (`steady`), hosts the present or last
scan of `serve` handed to a worker (`tried`), and hosts not suppressed since it
began (`spared`). `OpenPage`, `ReadEvents` and `ReadSuppressed` are the three
calls of `pageData`, in its order. `Collect` is what a request for `/metrics` is
answered of hosts and scans. Every step of `Scan` is a step of `Views` in which
`RecordScan` sees whether a scan of `serve` ended, and how.

## 3. The runs

All counts are of distinct states. Deadlock is checked except where the system
really may stop; the configuration files then say `CHECK_DEADLOCK FALSE`: a
process that has exited, a pool that has returned, and histories and scans whose
bounds are used up.

| run | configuration | states | what it shows |
|---|---|---|---|
| gate | MCScanGate | 4.4 k | Scans never overlap; `running` is exact; a page never reloads before the scan it asked for; the database outlives the context. Accepted scans run, ticks are noticed, a signal ends the process. |
| pool | MCPool | 5.4 k | No send on a closed channel; a success has counted every host once; `Run` returns; the pool implements `Crew`. |
| history | MCHostHistory | 227 k | The last event about a certificate in danger names the danger, or is the discovery or renewal that took its place, also where the alert window is the wider one; no announcement is repeated without another in between; states only get worse; `renewed` is only said of a longer certificate; an expiry leaves an event in the end. |
| scan_faults | MCScanFaults | 1.7 M | `serve` and a `scan` command on one database: marks are truthful, and both together implement `Outbox` (delivery in order and at least once) under store errors, refused and unanswered notifications, crashes and cancellations; the ledger only grows, and acknowledgements that race with marking and retrying undo nothing. |
| scan_console | MCScanConsole | 1.1 M | Within a process no two senders have the same event and no two workers the same host. Tables stay consistent although ids are used again; links are a host's own; every renewal was one; a suppressed host is left alone, whatever two browsers do in between, each with a request over several hosts open. |
| scan_live | MCScanLive | 50 k | Every scan ends; every event is marked in the end although another event's notifiers may fail for ever; nothing is discovered twice; through errors and crashes a stored danger stays on record, unless its worker stops right before recording it. |
| targets | MCTargets | 2.1 M | A scan stays within what was registered and switched on while it ran, leaves out nothing that was configured all the while, and is not refused its own manual hosts; stored hosts have an apex row; added hosts lie within an apex; edits lose no hostname silently. All handlers in two browsers, with failing calls on both sides. |
| views | MCViews | 3.4 M | Nothing steady is missing from a page made from three reads; the reachable flag is that of the last lookup; no scan that left a host out is a success. |
| danger_on_return, duplicates, purge_race_renewed, purge_restored | | | the disagreements of section 6 |

The type invariants of `ScanGate`, `Pool`, `Targets` and `HostHistory`, and that a pool
leaves no goroutine behind, are proved (section 4) and have no run of their own.

### Bounds, and why they are enough

- **gate**: two browsers, the scheduler and the main goroutine. The flag has two
  values and every caller has the same code, so two browsers and the scheduler
  make every pair and one bystander; the theorem is for any number of browsers.
- **pool**: three workers, four hosts: a worker that waits to send, one that
  waits to receive and one that has left exist at once, and there are more hosts
  than workers. The theorems are for any numbers.
- **history**: three certificates with lifetimes of 4, 8 and 16 days that end at
  400, 500 and 500 hundredths of a day, warn at 25% but at least two days and
  alert at 20% but at least three. For the first two the floors decide and alert
  begins before warn, which `Validate` lets pass as it looks at each by itself; for
  the third the ratios decide and the order is the usual one. Two end at the same
  time, so that renewal in one direction and a change that is no renewal both
  occur. The clock passes all windows (`MaxTime` = 600). `MaxEvents` = 6 stops the
  scans of very restless hosts; `ExpiryIsAnnounced` says so in its premise.
- **scan_faults**: two processes with a worker and a retry loop each, exchanged by
  the symmetry; one host, so that both always work on the same row; two notifiers
  of which one handles only some kinds; a crash or a cancellation (`MaxStops`), in
  either process and at any step, also while it retries what was left before, with
  the other process going on; `MaxEvents` = 3 and one step of the clock: both
  discoveries, or one and a warning, which the operator may acknowledge at any moment.
- **scan_console**: one process with two workers (symmetric), two hosts, two
  certificates and renewals, no notifiers and no failures but those of the
  console's calls, and two browsers (symmetric), so that suppression, purging by
  two requests at once and id reuse meet every step of a worker. `MaxEvents` =
  3: a scan of both hosts may follow one that found one of them, so that a
  renewal of one meets the discovery of the other, under an id that was purged
  or not. `MaxId` = 3 for two hosts leaves room for an id nobody has. Purges
  happen between scans; purges during a scan are the run purge_race_renewed.
- **scan_live**: one host and one worker, as liveness is checked over the whole
  graph without symmetry; two notifiers, one crash, failed discovery and lookups,
  and two steps of the clock, so that a second event of the same host, a warning, is
  recorded while the first is retried, and a third state follows.
- **targets**: two apexes, one configured and one of the operator's, a hostname
  and two ports in each (an edit changes the port), a zone file with a name of
  either apex, two browsers (symmetric) and three requests: two race and meet a
  scan that a third has prepared. Any call of the scan or of a handler may fail.
- **views**: `serve` with one worker on one host: each property is about each host
  by itself, and the theorems are for any number. Store errors, failed lookups, a
  signal, a crash, and all requests of the console in between.

Bounds appear as guards and as constants named `Max...`. The initial states are
those of a new database.

### Fairness, and why the code justifies it

- `ScanGate`: weak fairness of each goroutine, because Go runs goroutines that
  can run, and a scan returns, since every probe, request and database call in
  it has a timeout or ends. Strong fairness of the two branches of the
  scheduler's select, because Go picks among ready branches at random. Nothing
  is assumed of clients, signals, server failures or the ticker.
- `Pool`: weak fairness of feeder, workers and collector; none of `Cancel`.
- `HostHistory`: weak fairness of the clock and of scanning, which is the
  scheduler's loop.
- `Scan` (`FairSpec`): weak fairness of the runner's steps, the retry loop and
  each worker. A worker's step may also be a failure: nothing promises that
  calls succeed. `EventuallyNotified` itself has as a premise that the beginning of
  the scans of `serve` (`ReadPending`), the event's own notifiers, and the write of
  its mark do not fail for ever (strong fairness of these steps); it thereby says
  that *other* events' notifiers may fail for ever without holding this one up. Its
  other premise, `Room`, is that the bound on the ledger does not stop the scans. In
  the run it never does: one host with one certificate that gets worse twice records
  three events, and `MaxEvents` is 4.

`Targets` and `Views` state no liveness: their steps are the scan's, and `ScanEnds`
is about those.

## 4. What is proved

The proof modules extend the modules they are about; TLAPS checks all steps. The
assumptions are those on the constants (`PoolAssumption`, `ThresholdsAssumption`,
`StoreAssumption`, `HistoryAssumption`, `ScanAssumption`, `TargetsAssumption`), which TLC evaluates in
the runs, and whatever a theorem names as its hypothesis. Every safety property a
passing run checks is a theorem; where one has a hypothesis, the property is wrong
without it, and what is said of each below tells why.

    ScanProofs            types, ledger, delivery (on Scan)
      ScanInventoryProofs   control of the processes, references between the tables
        ScanLedgerProofs    what the ledger says of the hosts
        ViewsProofs         pages and metrics (on Views)
    HostHistoryProofs, ScanGateProofs, PoolProofs, TargetsProofs

**ScanGateProofs.** Type correctness, `ScansNeverOverlap`, `RunningNeverSticks`,
`StatusIsHonest` and `DatabaseOutlivesContext`, for any set of browsers. The
first four come from one inductive invariant, `GateInv`: mutual exclusion alone
is not inductive, since the gate looks at the flag and not at the goroutines, so
it needs the flag's accuracy, and typing needs that `errs` never holds more than
its two senders have put there (`ErrsAccounted`). The order of the shutdown is
`StopBeforeClose`, an invariant of its own.

**PoolProofs.** For any numbers of workers and hosts: no send on a closed
channel, a success counted every host once, nothing is left behind, and
`PoolImplementsCrew`. The invariant is `Standing` (which channel is closed
follows from where the feeder is, and the feeder is done only when all workers
are) and `Accounts` (a host is unsent, carried by one worker, or counted).

**ScanProofs.** `ScanTyping`: all tables, jobs and calls keep their types. It
carries the facts the other proofs start from, for instance that what
`notifyEvent` sends is an event of the ledger.

`LedgerIsAppendOnly` (an action property of every step);
`MarksAreTruthful`; and `ScanImplementsOutbox`, which includes the order of
delivery. They rest on `ProgressDelivered`: whoever is at notifier *n* in its list
has delivered the event to all handlers before *n*. It is what the local variable
of the loop stands for, and why it can be forgotten in a crash: a retry starts at
the front.

**ScanInventoryProofs.** For any number of processes: `SendersAreExclusive` and
`HostsAreExclusive`, within each process, from `ControlInv`: a process retries
before it hands out hosts, its idle phases have idle workers, and a carried host is
no longer in the queue. `ReferencesStay` and `LinksStayOwn`, under the hypothesis
`PurgesApart` (hosts are purged between scans only, or not at all), from `InventoryInv`: ids are unique (`IdsUnique`), the id a
worker carries is that of its host's row (`CarriedStored`), and what it is about to
write is about a stored certificate that the host did present (`CarriedKnown`). The
hypothesis is needed: with purges during a scan, `CarriedStored` fails, and so do
both theorems (section 6).

**ScanLedgerProofs.** What the ledger says of the hosts, for any number of workers,
hosts and certificates. `JobCases`, `StatesCases`, `SubjectCases` and `RecordCases` say
once which steps touch a job, a state or the ledger; each proof then follows a host
through the worker that carries it.

- `SuppressionHolds` has no hypothesis and no invariant but `ControlInv`: whatever is
  about a host needs it in a queue (`QueueCases`) or with a worker (`HostCarried`), its
  row is touched by those steps and by purges (`RowCases`), and a purge lifts the
  suppression.
- `RenewalsAreTrue`, from `RenewalInv`: the certificate a worker compares with is one its
  host presented, and the renewal it decides on stays true until it is recorded, since
  what was presented is never taken back. It needs `LinksAreOwn` and so `PurgesApart`;
  the run purge_race_renewed is what happens otherwise.
- `DangersAreOnRecord`, from `VerdictsHold`: the event a worker has decided on is of the
  state it is about to store, or a discovery or renewal; it has decided on none only if
  there is no danger or that state is stored already; and what it is about to record is
  what is stored. So every step keeps the record of a stored danger up to date, with one
  exception, which the property states: the step of a worker that stops between
  `SetCertificateState` and `RecordEvent`. No failure, crash or cancellation is excluded.
  The hypotheses are `SingleProcess` and `PurgesApart`: another process may change the
  state between a worker's read and its write, and a purge may give the id away.
- `DiscoveriesAreUnique`, from `DiscoveryInv`: who is about to store a discovery has found
  no state, who is about to record it has stored one, and every recorded discovery has a
  state. The hypotheses are `SingleProcess` and no purge: two processes can both find no
  state, and a purge removes the state but not the event. No failure, crash or
  cancellation is excluded.
- `PurgesAreOfSuppressed`, from `PurgeListed`: what is left of a purge is suppressed, if
  nobody restores a host and at most one request over several hosts is open at a time
  (`OneRequest`). Both are needed: the run purge_restored is what happens without the
  first, and with two purges open, one may remove a host that the other has removed and a
  scan has found again (section 6).
- `DuplicatesHaveCauses`, from `OnceInv`: what a notifier has received is marked, or is in
  the one call that sends it and behind that call's place in the list; what waits to be
  sent again was received by nobody. So all ways to a duplicate are named: two processes,
  or `Unfinished` (an answer is lost, a mark fails, a process ends, or one of several
  notifiers of an event refuses it). The run duplicates has the last of these. Where none
  of them can happen, refused events are still retried, and the theorem covers that.

**HostHistoryProofs.** The rules of `evaluate` and of the renewal over any number of
scans of a host, for any certificates, lifetimes, chains and thresholds, in whichever
order the two windows begin. `HistoryInv` adds to the two properties what they rest on:
`StatesDated` (each stored state was computed at an earlier moment, so that
`StateMonotone`, states as a function of time, says how the next one compares),
`LastEventHolds` (the last event about a certificate is the state it is in, as long as
that is a warning of time), `EventsSeen` (who has an event has a state, so a discovery is
the first), `LedgerEnds` (there is such a last event) and `LastScanLinked` (the latest
link is that of the last scan, because scans start in different seconds).
`DangersAreNamed` and `AnnouncementsAreNotRepeated` are parts of it; the action
properties `StatesOnlyWorsen` and `RenewalsAreChanges` follow from `StatesDated` and from
`LastScanLinked`.

**TargetsProofs.** Type correctness, and for any number of
browsers, apexes, hosts and files:

- `ScansKeepScope` and `SwitchesAreObeyed` from `ScopeHolds`: whatever was read of
  apexes and settings is part of what was in force at some moment of this scan;
- `NothingSteadyLeftOut`, from `SteadyHolds`: what was configured at every moment is
  in everything read so far. It and the last are the two sides of a scan that reads
  its configuration piece by piece while it changes;
- `HostsHaveApexRows` from `RowsHold`: an apex in force has a row, is about to get
  it, or came into force during a scan (`late`);
- `ManualHostsAccepted` from `RefusalHolds`: `discover` compares managed hosts with
  the very apexes it hands to `manual`, and those always include config.yaml's;
- `AdditionsAreChecked` from `AddsHold`: a row still to be added was compared with
  an apex then in force, or the comparison is among the calls before it;
- `EditsLoseNoHost` from `HostsKept` (an owed hostname is there, or some edit is just
  about to add it) and `ShapesHold` (what is left of a request is the end of its
  handler).

**ViewsProofs.** `PagesAreComplete` from `PageInv`: what the reads made so far have
promised still holds of what is steady. `SuccessIsHonest` from `Covering`: whoever
has not been suppressed since the scan began is in its queue or was handed to a
worker, until a cancellation makes the scan a failure. Both for any number of
processes. `ReachableIsHonest` under the hypothesis `SingleProcess`, from
`ReachableIsTrue` itself and what is known of `Scan` (`Known`: its types and
`ControlInv`, so that no host is looked up by two workers). With two processes one's
`UpsertHost` clears the flag after the other's lookup has set it.

### Only model-checked

Liveness: `AcceptedScanRuns`, `TickIsTaken`, `SignalExits`, `RunReturns`,
`ExpiryIsAnnounced`, `ScanEnds` and `EventuallyNotified`. They rest on fairness, that is
on `ENABLED`, which is beyond the prover. And the four properties of section 6, which are false.

That a scan of `Scan` refines `Crew`, as the goroutines of `Pool` do, is not stated as a
theorem: `SkipHost` joins taking a host with giving it up, which `Crew` counts as two
steps. The two are connected by the guards of `TakeHost`, `EndScan` and `StopFeeding`,
which are those of `Crew`.

## 5. What is not modelled

- The Sources & Targets part of the page, which reads the managed tables three times
  (ui.go:926-1064); the inventory part is in `Views`, and the handlers behind the
  forms are in `Targets`.
- Templates, CSV export, filters, authentication: output that no step depends on.
- The certificate gauges and the text of `/metrics`: they render the store's rows and
  have no state of their own.
- `serveCrtNameLookup` and the `check` command: neither writes anything (`check` does
  not open the store).
- Automation estimate: a heuristic whose result is displayed only.
- DNS, TLS, chain building, ASN.1, HTTP: `Scan` has the outcomes that
  `processHost` tells apart. A resolved name may fail to connect, a chain may be
  complete or not, a certificate may be self-signed or for another name.
- Reading YAML, and the parsing of zone files and of crt.name's JSON: what comes
  out is any set of names; `Contents` fixes that of a zone file.
- Columns only a page displays (issuer, addresses, key type, automation guess).
- Schema migration: it runs before anything else, in one process.

## 6. Where code and documentation disagree

Four runs end in a violation, each of a property that states what the
documentation says.

- **danger_on_return** (`CrossingIsRaised`). docs/design.md:220 describes the events
  `warn` and `alert` as a threshold that was crossed. A renewal replaces the event of
  the evaluation after the new state has been stored (core.go:444). So when a
  certificate the inventory knows comes back while it is inside its window, in the
  place of one that ends earlier, its state becomes `warn` or `alert` and only
  `renewed` is recorded, which by docs/design.md:226 says that a warning is lifted;
  the next scan finds the state unchanged and raises nothing either.
- **duplicates** (`NoDuplicateNotification`). docs/design.md:374 says that
  `notified_at` reconciles retries with the prevention of duplicates. The mark is
  one for all notifiers: when the second fails, the first gets the event again
  at every retry (core.go:486). What does hold is order and at-least-once.
- **purge_race_renewed** (`RenewedMeansChanged`). docs/design.md:221 defines
  `renewed` as a change of the certificate of the same host. If a host is purged
  while a worker carries it, the worker writes links under an id that the next
  new host receives, and that host is then said to have renewed a certificate it
  never had (sqlite.go:970, core.go:411).

- **purge_restored** (`OnlySuppressedPurged`). README.en.md:121 says that Purge and
  Purge all remove suppressed host records, and README.en.md:119 that Unsuppress
  restores a host. Purge all lists the suppressed hosts and then purges them one by one
  (ui.go:634, 645): a host that was unsuppressed in between is purged all the same. The
  form for one host purges whatever host it names (ui.go:621).

Other observations made on the way. Each is reproduced by changing the named
constant of a configuration, or follows from an action of the model:

- A certificate that is first seen inside a window, or after its end, raises `discovered`
  and nothing else (evaluate.go:70): the state is stored, so no later scan announces it,
  although docs/design.md:222 describes `expired` as an expiry detected. With the renewals of danger_on_return these are the two exceptions that
  `DangerIsNamed` states, and its theorem shows that there is no third.
- A worker that stops between `SetCertificateState` and `RecordEvent` (core.go:426-456),
  because a call fails or the process ends, leaves a state whose event is never recorded:
  the next scan finds no change. It is the exception `DangersStayOnRecord` states.
- Two purges open at once (`Browsers` = two and no "unsuppress" in `MCScanPurgeRestored`)
  break `OnlySuppressedPurged` as well: both have listed a host, one purges it, a scan
  finds it again, and the other purges it, although nobody has suppressed it since.
- `PurgeDuringScan = TRUE` also breaks `ReferencesHold`: the worker's next call
  leaves a link or a state about a host that no longer exists.
- docs/design.md:137 says that names that do not resolve are not put on the ledger.
  The row is written before the lookup (core.go:384) and stays, with the status
  `unresolved`. `docs/design.md:139` has a status `retired`; no code sets it.
- The help text of `certinv_host_reachable` (exporter.go:133) speaks of the latest
  scan. While a host is looked up the flag is 0; a scan whose discovery failed, and
  the suppression of a host, leave the old value; and two processes may leave 0
  after a lookup that succeeded (`Processes` = two in `MCViews`).
- `certinv_scan_last_success_timestamp` knows nothing of the scans of the `scan`
  command and is lost in a restart. A scan in which every single host failed counts
  as a success: `SuccessCoversHosts` says handed to a worker, not reached.
- README.en.md:117 says that concurrent runs are rejected. That holds within `serve`.
  With a second process, both may find a certificate unseen and announce it as
  discovered (`Processes` = two breaks `DiscoveredOnce`); delivery stays at least
  once and in order, which is the run scan_faults. As `Open` sets no busy timeout, the
  two also make each other's calls fail.
- README.en.md:120 says that `All clear` suppresses the hosts displayed. The handler
  reads the inventory again, so a host that a scan has added since is suppressed as well.
- A host that is suppressed or unsuppressed while a page is made may be in both of its
  lists or in neither: `SteadyOnPage` speaks of the others.
- A host of an apex that is added during a scan may be stored before the apex has its
  row (`late` in `ApexRowsExist`): `discover` reads the apexes again, after `run` has
  written their rows (core.go:219). The next scan adds the row.
- An edit of a managed host deletes the old row and adds the new one in two calls
  (ui.go:329-333). If the second fails, the host is gone; the operator sees an error,
  which is why `EditsKeepHosts` does not count it.
- The crt.name settings and the apexes they apply to are read in two calls
  (core.go:286). `CrtNameScoped` therefore speaks of settings that were in force
  at some moment of the scan, not at one common moment.
- One unreadable zone file, or one failing lookup, fails the whole discovery
  (zonefile.go:31), so no host is scanned. Hence `SteadyIsScanned` is about scans that
  get past discovery.
- With an alert window that begins before the warn window, which `Validate` allows
  (config.go:231), `warn` is never announced; `alert` is, at its own time.
- Two scans of a host within one second are told apart only by row id when the
  latest certificate is asked for (sqlite.go:122). A host that returns to an
  earlier certificate within the second would break `RenewedMeansChanged`. The
  guard of `HostHistory!Scan` excludes it.

## 7. Plan

Done: the gate, the pool, the evaluation with all orders of its windows, the store's
inventory, the scan with its notifications, in one process and in several, the
console's handlers, the targets with all the failures of discovery, the inventory
page and the metrics, and a theorem for every safety property. What is left, in this
order:

1. **Sources & Targets page**: its three reads on `Targets`, with the property that what
   stays configured is shown with its setting.
2. **The safety behind the liveness properties**: for instance that a scan under way always
   has a step its fairness covers, which is the part of `ScanEnds` that can be proved.
