-------------------------------- MODULE Pool --------------------------------
(***************************************************************************)
(* The goroutines of one scan (second half of Runner.run): a feeder that   *)
(* sends the discovered hosts over the channel jobs, the workers that      *)
(* receive them, carry them through processHost and send a result over the *)
(* channel results, and the goroutine of Runner.run itself, which collects *)
(* the results until that channel is closed. Both channels are unbuffered: *)
(* a send and its receive are one step. The context may end at any time.   *)
(***************************************************************************)
EXTENDS Naturals

CONSTANTS
  Workers,   \* probe.concurrency goroutines
  Hosts      \* the discovered hosts, which Merge has made distinct

ASSUME PoolAssumption == Workers # {}

VARIABLES
  unfed,          \* hosts the feeder has still to send
  feeder,         \* control of the feeder
  worker,         \* worker[w]: control of worker w
  host,           \* host[w]: the hosts (at most one) w has received and not answered
  jobsClosed,     \* close(jobs) has been called
  resultsClosed,  \* close(results) has been called
  collector,      \* control of Runner.run
  counted,        \* counted[h]: results for h the summary has counted
  cancelled       \* ctx is done

vars == <<unfed, feeder, worker, host, jobsClosed, resultsClosed, collector, counted, cancelled>>

TypeOK ==
  /\ unfed \subseteq Hosts
  /\ feeder \in {"feeding", "waiting", "done"}
  /\ worker \in [Workers -> {"receiving", "processing", "sending", "done"}]
  /\ host \in [Workers -> {{}} \cup {{h} : h \in Hosts}]
  /\ jobsClosed \in BOOLEAN /\ resultsClosed \in BOOLEAN
  /\ collector \in {"collecting", "success", "error"}
  /\ counted \in [Hosts -> 0..1]
  /\ cancelled \in BOOLEAN

Init ==
  /\ unfed = Hosts
  /\ feeder = "feeding"
  /\ worker = [w \in Workers |-> "receiving"]
  /\ host = [w \in Workers |-> {}]
  /\ jobsClosed = FALSE /\ resultsClosed = FALSE
  /\ collector = "collecting"
  /\ counted = [h \in Hosts |-> 0]
  /\ cancelled = FALSE

-----------------------------------------------------------------------------

Cancel ==
  /\ ~cancelled
  /\ cancelled' = TRUE
  /\ UNCHANGED <<unfed, feeder, worker, host, jobsClosed, resultsClosed, collector, counted>>

\* `case jobs <- host` meets a worker's receive; select may choose it although
\* ctx is done too.
Feed(w, h) ==
  /\ feeder = "feeding" /\ h \in unfed /\ worker[w] = "receiving"
  /\ unfed' = unfed \ {h}
  /\ worker' = [worker EXCEPT ![w] = "processing"]
  /\ host' = [host EXCEPT ![w] = {h}]
  /\ UNCHANGED <<feeder, jobsClosed, resultsClosed, collector, counted, cancelled>>

\* Mutant of StopFeeding: the feeder returns without closing jobs.
StopFeeding_Open ==
  /\ feeder = "feeding"
  /\ unfed = {} \/ cancelled
  /\ feeder' = IF unfed = {} THEN "waiting" ELSE "done"
  /\ jobsClosed' = (unfed = {})
  /\ UNCHANGED <<unfed, worker, host, resultsClosed, collector, counted, cancelled>>

\* All hosts are sent, or select chose `case <-ctx.Done()`: close(jobs).
StopFeeding ==
  /\ feeder = "feeding"
  /\ unfed = {} \/ cancelled
  /\ feeder' = "waiting" /\ jobsClosed' = TRUE
  /\ UNCHANGED <<unfed, worker, host, resultsClosed, collector, counted, cancelled>>

\* Mutant of CloseResults: without wg.Wait().
CloseResults_AtOnce ==
  /\ feeder = "waiting"
  /\ feeder' = "done" /\ resultsClosed' = TRUE
  /\ UNCHANGED <<unfed, worker, host, jobsClosed, collector, counted, cancelled>>

\* wg.Wait() returns when every worker has called Done: close(results).
CloseResults ==
  /\ feeder = "waiting" /\ \A w \in Workers : worker[w] = "done"
  /\ feeder' = "done" /\ resultsClosed' = TRUE
  /\ UNCHANGED <<unfed, worker, host, jobsClosed, collector, counted, cancelled>>

\* processHost returns, one way or another.
Process(w) ==
  /\ worker[w] = "processing"
  /\ worker' = [worker EXCEPT ![w] = "sending"]
  /\ UNCHANGED <<unfed, feeder, host, jobsClosed, resultsClosed, collector, counted, cancelled>>

\* The worker's send meets the collector's receive.
SendResult(w) ==
  /\ worker[w] = "sending" /\ collector = "collecting"
  /\ worker' = [worker EXCEPT ![w] = "receiving"]
  /\ host' = [host EXCEPT ![w] = {}]
  /\ counted' = [h \in Hosts |-> IF h \in host[w] THEN counted[h] + 1 ELSE counted[h]]
  /\ UNCHANGED <<unfed, feeder, jobsClosed, resultsClosed, collector, cancelled>>

\* `range jobs` ends at the closed channel; the deferred wg.Done runs.
Exit(w) ==
  /\ worker[w] = "receiving" /\ jobsClosed
  /\ worker' = [worker EXCEPT ![w] = "done"]
  /\ UNCHANGED <<unfed, feeder, host, jobsClosed, resultsClosed, collector, counted, cancelled>>

\* Mutants of Return: ctx.Err() is not looked at; the collector leaves with the
\* context.
Return_Success ==
  /\ collector = "collecting" /\ resultsClosed
  /\ collector' = "success"
  /\ UNCHANGED <<unfed, feeder, worker, host, jobsClosed, resultsClosed, counted, cancelled>>

Return_Early ==
  /\ collector = "collecting" /\ (resultsClosed \/ cancelled)
  /\ collector' = IF cancelled THEN "error" ELSE "success"
  /\ UNCHANGED <<unfed, feeder, worker, host, jobsClosed, resultsClosed, counted, cancelled>>

\* `range results` ends at the closed channel, and ctx.Err() decides.
Return ==
  /\ collector = "collecting" /\ resultsClosed
  /\ collector' = IF cancelled THEN "error" ELSE "success"
  /\ UNCHANGED <<unfed, feeder, worker, host, jobsClosed, resultsClosed, counted, cancelled>>

-----------------------------------------------------------------------------

FeederNext == StopFeeding \/ CloseResults \/ \E w \in Workers, h \in Hosts : Feed(w, h)
WorkerNext(w) == Process(w) \/ SendResult(w) \/ Exit(w)

Next == Cancel \/ FeederNext \/ Return \/ \E w \in Workers : WorkerNext(w)

\* A goroutine that can go on does: what it waits for is a channel, the wait
\* group, or a call that a timeout ends.
Fairness ==
  /\ WF_vars(FeederNext) /\ WF_vars(Return)
  /\ \A w \in Workers : WF_vars(WorkerNext(w))

Spec == Init /\ [][Next]_vars /\ Fairness

-----------------------------------------------------------------------------
(* Properties. *)

\* No send ever meets a closed channel, which would panic and end the process:
\* jobs is closed by its only sender, and results only after the last worker.
NoSendOnClosed ==
  /\ jobsClosed => feeder # "feeding"
  /\ resultsClosed => \A w \in Workers : worker[w] \notin {"processing", "sending"}

\* RecordScan is told of a success only if the result of every discovered host
\* has been counted, exactly once, whenever the context ended.
SuccessMeansComplete == collector = "success" => \A h \in Hosts : counted[h] = 1

\* Runner.run returns to the gate, which lets the next scan in, only when
\* nothing of this scan is left: no worker with a host, no feeder that waits.
NothingLeftBehind ==
  collector # "collecting" =>
    /\ feeder = "done"
    /\ \A w \in Workers : worker[w] = "done" /\ host[w] = {}

\* Runner.run returns, whenever the context ends: feeder, workers and collector
\* never wait for one another in a circle.
RunReturns == <>(collector # "collecting")

\* What the other modules believe of the pool.
Believed ==
  INSTANCE Crew WITH
    queue   <- IF feeder = "feeding" THEN unfed ELSE {},
    carried <- host,
    over    <- collector # "collecting"

ImplementsCrew == Believed!Spec
=============================================================================
