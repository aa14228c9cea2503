------------------------------ MODULE ScanGate ------------------------------
(***************************************************************************)
(* The process structure of `certinv serve` (cmd/certinv/main.go): the     *)
(* scan gate serialScanRunner, the two kinds of callers that go through it *)
(* (the scheduler loop, synchronously, and POST /ui/scan, which starts a   *)
(* goroutine of its own), the browser that polls /ui/scan/status, and the  *)
(* shutdown of the process while any of them is running.                   *)
(*                                                                         *)
(* The body of a scan is opaque here (module Scan models it): a goroutine  *)
(* whose control is at "scanning" is inside Runner.Run and may return at   *)
(* any time.                                                               *)
(***************************************************************************)
EXTENDS Naturals, Sequences

CONSTANT
  Clients   \* browsers that press "Run scan now"

VARIABLES
  running,    \* serialScanRunner.running, read and written under its mutex
  sched,      \* control of the scheduler goroutine
  tick,       \* the ticker's channel (capacity one) holds a tick
  manual,     \* manual[c]: control of the goroutine started for c's request
  client,     \* client[c]: what the browser of c believes
  cancelled,  \* the signal context ctx is done
  errs,       \* the buffered channel errs: "nil" or "error" values
  server,     \* the http server
  main,       \* control of runServe
  db          \* the database handle

vars == <<running, sched, tick, manual, client, cancelled, errs, server, main, db>>

SchedStates  == {"starting", "scanning", "finishing", "select", "done"}
ManualStates == {"none", "spawned", "scanning", "finishing"}
ClientStates == {"idle", "accepted", "finished"}
MainStates   == {"select", "shutdown", "stop", "close", "exited"}

TypeOK ==
  /\ running \in BOOLEAN
  /\ sched \in SchedStates
  /\ tick \in BOOLEAN
  /\ manual \in [Clients -> ManualStates]
  /\ client \in [Clients -> ClientStates]
  /\ cancelled \in BOOLEAN
  /\ errs \in Seq({"nil", "error"}) /\ Len(errs) <= 2   \* its capacity: no send blocks
  /\ server \in {"listening", "failed", "closed"}
  /\ main \in MainStates
  /\ db \in {"open", "closed"}

Init ==
  /\ running = FALSE
  /\ sched = "starting"
  /\ tick = FALSE
  /\ manual = [c \in Clients |-> "none"]
  /\ client = [c \in Clients |-> "idle"]
  /\ cancelled = FALSE
  /\ errs = <<>>
  /\ server = "listening"
  /\ main = "select"
  /\ db = "open"

Alive == main # "exited"

-----------------------------------------------------------------------------
(* The gate. Both operations hold the mutex for their whole body.          *)

\* start: take the gate if it is free.
Start  == ~running /\ running' = TRUE
\* finish: give it back, whatever the scan returned.
Finish == running' = FALSE

-----------------------------------------------------------------------------
(* The scheduler: one scan at once, then one for every tick it sees.       *)

\* RunOnce entered the gate.
SchedStart ==
  /\ Alive /\ sched = "starting"
  /\ Start
  /\ sched' = "scanning"
  /\ UNCHANGED <<tick, manual, client, cancelled, errs, server, main, db>>

\* Mutant of SchedSkip: the deferred finish() also runs when start() failed.
SchedSkip_Finishes ==
  /\ Alive /\ sched = "starting" /\ running
  /\ Finish
  /\ sched' = "select"
  /\ UNCHANGED <<tick, manual, client, cancelled, errs, server, main, db>>

\* The gate was taken: the scan is skipped and RunOnce returns nil.
SchedSkip ==
  /\ Alive /\ sched = "starting" /\ running
  /\ sched' = "select"
  /\ UNCHANGED <<running, tick, manual, client, cancelled, errs, server, main, db>>

\* Runner.Run returned, with or without an error; the deferred finish is next.
SchedReturn ==
  /\ Alive /\ sched = "scanning"
  /\ sched' = "finishing"
  /\ UNCHANGED <<running, tick, manual, client, cancelled, errs, server, main, db>>

\* Mutant of SchedFinish: a new scan is started without going through select.
SchedFinish_Rescans ==
  /\ Alive /\ sched = "finishing"
  /\ Finish
  /\ sched' = "starting"
  /\ UNCHANGED <<tick, manual, client, cancelled, errs, server, main, db>>

SchedFinish ==
  /\ Alive /\ sched = "finishing"
  /\ Finish
  /\ sched' = "select"
  /\ UNCHANGED <<tick, manual, client, cancelled, errs, server, main, db>>

\* The ticker fires; a tick nobody has taken yet absorbs the new one.
Tick ==
  /\ Alive /\ sched # "done" /\ ~tick
  /\ tick' = TRUE
  /\ UNCHANGED <<running, sched, manual, client, cancelled, errs, server, main, db>>

\* The two branches of the scheduler's select; with both ready, either is taken.
SchedTick ==
  /\ Alive /\ sched = "select" /\ tick
  /\ tick' = FALSE
  /\ sched' = "starting"
  /\ UNCHANGED <<running, manual, client, cancelled, errs, server, main, db>>

SchedDone ==
  /\ Alive /\ sched = "select" /\ cancelled
  /\ sched' = "done"
  /\ errs' = Append(errs, "nil")
  /\ UNCHANGED <<running, tick, manual, client, cancelled, server, main, db>>

-----------------------------------------------------------------------------
(* POST /ui/scan and the browser that follows it.                          *)

\* Mutant of TriggerAccepted: the flag is left to the goroutine.
TriggerAccepted_Late(c) ==
  /\ Alive /\ server = "listening" /\ client[c] # "accepted" /\ ~running
  /\ manual' = [manual EXCEPT ![c] = "spawned"]
  /\ client' = [client EXCEPT ![c] = "accepted"]
  /\ UNCHANGED <<running, sched, tick, cancelled, errs, server, main, db>>

\* TriggerScan: take the gate, start the goroutine and answer "scan accepted".
TriggerAccepted(c) ==
  /\ Alive /\ server = "listening" /\ client[c] # "accepted"
  /\ Start
  /\ manual' = [manual EXCEPT ![c] = "spawned"]
  /\ client' = [client EXCEPT ![c] = "accepted"]
  /\ UNCHANGED <<sched, tick, cancelled, errs, server, main, db>>

\* TriggerScan while a scan runs: "scan is already running".
TriggerRejected(c) ==
  /\ Alive /\ server = "listening" /\ client[c] # "accepted" /\ running
  /\ client' = [client EXCEPT ![c] = "idle"]
  /\ UNCHANGED <<running, sched, tick, manual, cancelled, errs, server, main, db>>

\* Mutant of ManualStart: the goroutine goes through the gate a second time.
ManualStart_Locks(c) ==
  /\ Alive /\ manual[c] = "spawned" /\ ~running
  /\ manual' = [manual EXCEPT ![c] = "scanning"]
  /\ UNCHANGED <<running, sched, tick, client, cancelled, errs, server, main, db>>

\* The goroutine is scheduled and calls Runner.Run.
ManualStart(c) ==
  /\ Alive /\ manual[c] = "spawned"
  /\ manual' = [manual EXCEPT ![c] = "scanning"]
  /\ UNCHANGED <<running, sched, tick, client, cancelled, errs, server, main, db>>

ManualReturn(c) ==
  /\ Alive /\ manual[c] = "scanning"
  /\ manual' = [manual EXCEPT ![c] = "finishing"]
  /\ UNCHANGED <<running, sched, tick, client, cancelled, errs, server, main, db>>

\* Mutant of ManualFinish: finish() is forgotten.
ManualFinish_Forgets(c) ==
  /\ Alive /\ manual[c] = "finishing"
  /\ manual' = [manual EXCEPT ![c] = "none"]
  /\ UNCHANGED <<running, sched, tick, client, cancelled, errs, server, main, db>>

ManualFinish(c) ==
  /\ Alive /\ manual[c] = "finishing"
  /\ Finish
  /\ manual' = [manual EXCEPT ![c] = "none"]
  /\ UNCHANGED <<sched, tick, client, cancelled, errs, server, main, db>>

\* The page polls /ui/scan/status and reloads once no scan is running.
PollIdle(c) ==
  /\ Alive /\ server = "listening" /\ client[c] = "accepted" /\ ~running
  /\ client' = [client EXCEPT ![c] = "finished"]
  /\ UNCHANGED <<running, sched, tick, manual, cancelled, errs, server, main, db>>

-----------------------------------------------------------------------------
(* Signal, server failure and the end of runServe.                         *)

Signal ==
  /\ Alive /\ ~cancelled
  /\ cancelled' = TRUE
  /\ UNCHANGED <<running, sched, tick, manual, client, errs, server, main, db>>

\* ListenAndServe fails, for instance because the address is in use.
ServerFails ==
  /\ Alive /\ server = "listening"
  /\ server' = "failed"
  /\ errs' = Append(errs, "error")
  /\ UNCHANGED <<running, sched, tick, manual, client, cancelled, main, db>>

\* select, case err := <-errs: both a nil and an error leave runServe at once.
MainErrs ==
  /\ main = "select" /\ errs # <<>>
  /\ errs' = Tail(errs)
  /\ main' = "stop"
  /\ UNCHANGED <<running, sched, tick, manual, client, cancelled, server, db>>

\* select, case <-ctx.Done(): Shutdown closes the listener ...
MainDone ==
  /\ main = "select" /\ cancelled
  /\ server' = IF server = "listening" THEN "closed" ELSE server
  /\ main' = "shutdown"
  /\ UNCHANGED <<running, sched, tick, manual, client, cancelled, errs, db>>

\* Mutant of MainShutdown: no timeout, and pages that still poll are waited for.
MainShutdown_Waits ==
  /\ main = "shutdown" /\ \A c \in Clients : client[c] # "accepted"
  /\ main' = "stop"
  /\ UNCHANGED <<running, sched, tick, manual, client, cancelled, errs, server, db>>

\* ... and returns when the requests are over or five seconds have passed.
MainShutdown ==
  /\ main = "shutdown"
  /\ main' = "stop"
  /\ UNCHANGED <<running, sched, tick, manual, client, cancelled, errs, server, db>>

\* Mutant of MainStop: db.Close() is deferred after stop() and so runs first.
MainStop_ClosesFirst ==
  /\ main = "stop"
  /\ db' = "closed"
  /\ main' = "close"
  /\ UNCHANGED <<running, sched, tick, manual, client, cancelled, errs, server>>

\* The deferred calls, last registered first: stop() ...
MainStop ==
  /\ main = "stop"
  /\ cancelled' = TRUE
  /\ main' = "close"
  /\ UNCHANGED <<running, sched, tick, manual, client, errs, server, db>>

\* ... then db.Close(), with scans possibly still running ...
MainClose ==
  /\ main = "close" /\ db = "open"
  /\ db' = "closed"
  /\ UNCHANGED <<running, sched, tick, manual, client, cancelled, errs, server, main>>

\* ... and the return of main, which ends every goroutine.
MainExit ==
  /\ main = "close" /\ db = "closed"
  /\ main' = "exited"
  /\ UNCHANGED <<running, sched, tick, manual, client, cancelled, errs, server, db>>

-----------------------------------------------------------------------------

SchedNext == SchedStart \/ SchedSkip \/ SchedReturn \/ SchedFinish \/ SchedTick \/ SchedDone
ManualNext(c) == ManualStart(c) \/ ManualReturn(c) \/ ManualFinish(c)
MainNext == MainErrs \/ MainDone \/ MainShutdown \/ MainStop \/ MainClose \/ MainExit
ClientNext(c) == TriggerAccepted(c) \/ TriggerRejected(c) \/ PollIdle(c)

Next ==
  \/ SchedNext
  \/ Tick
  \/ \E c \in Clients : ManualNext(c) \/ ClientNext(c)
  \/ Signal
  \/ ServerFails
  \/ MainNext

\* Goroutines that can run do run. The select of the scheduler picks among the
\* ready branches at random, so neither is passed over for ever; a scan returns
\* because every probe, HTTP request and database call in it has a timeout or
\* ends. Nothing is assumed of clients, signals, failures or the ticker.
Fairness ==
  /\ WF_vars(SchedNext)
  /\ SF_vars(SchedDone)
  /\ SF_vars(SchedTick)
  /\ \A c \in Clients : WF_vars(ManualNext(c))
  /\ WF_vars(MainNext)

Spec == Init /\ [][Next]_vars /\ Fairness

-----------------------------------------------------------------------------
(* Properties.                                                             *)

\* The goroutines between a successful start() and the matching finish().
ManualHolds(c) == manual[c] # "none"
SchedHolds     == sched \in {"scanning", "finishing"}

\* No two scans overlap: at most one goroutine of the scheduler and of all the
\* accepted POST /ui/scan requests is past the gate (serialScanRunner).
MutualExclusion ==
  /\ \A c, d \in Clients : ManualHolds(c) /\ ManualHolds(d) => c = d
  /\ \A c \in Clients : ~(ManualHolds(c) /\ SchedHolds)

\* The flag never sticks and never lies: it is set exactly while some goroutine
\* is past the gate, so no early return, skip or shutdown leaves it set for ever.
RunningIsAccurate == running <=> (SchedHolds \/ \E c \in Clients : ManualHolds(c))

\* A browser whose request was accepted and that then reads running = false
\* from /ui/scan/status reloads an inventory its own scan has finished with.
StatusNeverEarly == \A c \in Clients : client[c] = "finished" => manual[c] = "none"

\* The database is closed only after the context of every scan was cancelled
\* (order of runServe's deferred calls), whichever branch of select led there.
ClosedAfterCancel == db = "closed" => cancelled

\* Every accepted manual scan does run, and does end, unless the process exits.
AcceptedScanRuns ==
  \A c \in Clients :
    /\ manual[c] = "spawned" ~> (manual[c] = "scanning" \/ ~Alive)
    /\ manual[c] = "scanning" ~> (manual[c] = "none" \/ ~Alive)

\* A tick the scheduler has not seen yet is eventually acted upon: a long or
\* skipped scan never leaves the scheduler deaf.
TickIsTaken == tick ~> (~tick \/ sched = "done" \/ ~Alive)

\* After SIGINT or SIGTERM the process ends, however the select of runServe
\* races with the scheduler's own return and whatever scan is in progress.
SignalExits == cancelled ~> ~Alive
=============================================================================
