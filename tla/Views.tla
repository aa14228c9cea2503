------------------------------- MODULE Views --------------------------------
(***************************************************************************)
(* What an operator is shown of the pipeline: a page of the console, which *)
(* internal/ui makes out of three reads of the store with scans and other  *)
(* requests in between, and the metrics of internal/exporter, which one    *)
(* read of the store and the last RecordScan of serve's runner make up.    *)
(*                                                                         *)
(* Module Scan goes on as it is; this module watches it.                   *)
(***************************************************************************)
EXTENDS Scan

VARIABLES
  page,      \* pageData of the request for /ui that is being served
  success,   \* the success RecordScan was told last, if it was told anything
  reached,   \* history: hosts whose last lookup succeeded and was stored
  steady,    \* history: hosts stored, and suppressed or not, all the time since the
             \* page began, and warn and alert events unacknowledged since then
  tried,     \* history: hosts serve's present or last scan has handed to a worker
  spared     \* history: hosts not suppressed since that scan began

views == <<page, success, reached, steady, tried, spared>>

NoPage == [at |-> "none", rows |-> {}, events |-> {}, suppressed |-> {}]

ViewsInit ==
  /\ Init
  /\ page = NoPage
  /\ success = "none"
  /\ reached = {} /\ tried = {} /\ spared = {}
  /\ steady = [hosts |-> {}, events |-> {}]

-----------------------------------------------------------------------------
(* The exporter and the histories follow the steps of Scan.                *)

\* Mutant of Outcome: a scan that was cut short by a signal counts.
Outcome_Always == "yes"

\* err == nil, as the deferred function of Runner.run sees it.
Outcome == IF phase[Server] = "scan" /\ ~cancelled[Server] THEN "yes" ELSE "no"

\* The serve process dies in a scan, and with it its metrics and its requests.
Dies == phase[Server] # "idle" /\ phase'[Server] = "idle" /\ stops' # stops

\* A scan of serve returns: RecordScan.
RecordScan ==
  success' = CASE Dies -> "none"
               [] phase[Server] # "idle" /\ phase'[Server] = "idle" /\ ~Dies -> Outcome
               [] OTHER -> success

\* The hosts whose lookup ends with this step.
Answered == {job[w].host : w \in {v \in Workers : job[v].pc = "resolve" /\ job'[v].pc = "probe"}}
Unanswered ==
  {job[w].host : w \in {v \in Workers : job[v].pc = "resolve" /\ job'[v] = IdleJob}}

\* What a worker of serve is handed with this step. (After a cancellation the
\* feeder may drop hosts as well; what it still hands out then does not matter.)
Handed == IF cancelled[Server] THEN {} ELSE queue[Server] \ queue'[Server]

Starts == phase[Server] = "idle" /\ phase'[Server] # "idle"

Observe ==
  /\ RecordScan
  /\ reached' = (reached \ Unanswered) \cup Answered
  /\ tried' = IF Starts THEN {} ELSE tried \cup Handed
  /\ spared' = IF Starts THEN Hosts \ suppressed
               ELSE IF phase[Server] = "idle" THEN spared ELSE spared \ suppressed'
  /\ steady' = IF page.at = "made" THEN steady
               ELSE [hosts  |-> {h \in steady.hosts \cap DOMAIN hosts' :
                                   h \in suppressed <=> h \in suppressed'},
                     events |-> steady.events \cap UnacknowledgedEvents(events')]
  /\ page' = IF Dies /\ page.at # "made" THEN NoPage ELSE page

\* What a request for /metrics is answered: one read of the store, and what
\* RecordScan left.
Collect == [reachable |-> Reachable(hosts), success |-> success]

-----------------------------------------------------------------------------
(* pageData: the three reads, in this order, each a call of the store.     *)

OpenPage ==
  /\ page.at \in {"none", "made"}
  /\ page' = [NoPage EXCEPT !.at = "events",
                !.rows = InventorySnapshot(hosts, links, states, certificates, suppressed)]
  /\ steady' = [hosts |-> DOMAIN hosts, events |-> UnacknowledgedEvents(events)]
  /\ UNCHANGED <<vars, success, reached, tried, spared>>

ReadEvents ==
  /\ page.at = "events"
  /\ page' = [page EXCEPT !.at = "suppressed", !.events = UnacknowledgedEvents(events)]
  /\ UNCHANGED <<vars, success, reached, steady, tried, spared>>

ReadSuppressed ==
  /\ page.at = "suppressed"
  /\ page' = [page EXCEPT !.at = "made", !.suppressed = suppressed]
  /\ UNCHANGED <<vars, success, reached, steady, tried, spared>>

ViewsNext ==
  \/ Next /\ Observe
  \/ OpenPage \/ ReadEvents \/ ReadSuppressed

ViewsSpec == ViewsInit /\ [][ViewsNext]_<<vars, views>>

-----------------------------------------------------------------------------
(* Properties.                                                             *)

\* certinv_host_reachable tells the truth within one process: of the stored
\* hosts exactly those are reachable whose last lookup ended well, less those
\* that are being looked up again at this moment. Purges, failing calls and
\* scans cut short in between leave no flag behind from an earlier lookup.
InLookup == {job[w].host : w \in {v \in Workers : job[v].pc = "resolve"}}

ReachableIsTrue == Collect.reachable = (DOMAIN hosts \cap reached) \ InLookup

\* Nothing slips through a page that is put together from three reads: a host
\* that was stored, and suppressed or not, all the while is in exactly one of the
\* two lists, also when it has no certificate (yet), and a warn or alert that was
\* unacknowledged all the while is listed.
SteadyOnPage ==
  page.at = "made" =>
    /\ \A h \in steady.hosts :
         (\E row \in page.rows : row.host = h) <=> h \notin page.suppressed
    /\ steady.events \subseteq page.events

\* certinv_scan_last_success_timestamp moves only after a scan that handed every
\* host to a worker that was not suppressed while the scan ran: no signal,
\* whenever it comes, makes a scan that left a host out a success.
SuccessCoversHosts == phase[Server] = "idle" /\ Collect.success = "yes" => spared \subseteq tried
=============================================================================
