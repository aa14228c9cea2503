------------------------------- MODULE MCScan -------------------------------
(* Instances of Scan. Times are in hundredths of a day; certificate a ends   *)
(* before b, and both pass through warn and alert as the clock runs.         *)
EXTENDS Scan, TLC

CONSTANTS h1, h2, w1, w2, a, b, serve, cron, tab1, tab2

MCHosts    == {h1, h2}
MCOneHost  == {h1}
MCCerts    == {a, b}
MCOneCert  == {a}
MCWorkers  == {w1, w2}
MCOneWorker == {w1}
MCBrowsers  == {tab1, tab2}
MCOneBrowser == {tab1}

\* Only serve, with all workers; or one worker for serve and one for a scan
\* command that cron starts again and again.
MCServeOnly  == {serve}
MCServeAlone == [w \in Workers |-> serve]
MCServeAndCron == {serve, cron}
MCOneEach      == [w \in Workers |-> IF w = w1 THEN serve ELSE cron]

MCWarn  == [ratio |-> 1, floorDays |-> 2]
MCAlert == [ratio |-> 1, floorDays |-> 1]
MCNotAfter     == [c \in Certs |-> IF c = a THEN 300 ELSE 500]
MCLifetimeDays == [c \in Certs |-> 4]

\* A host renews a by b and never goes back.
MCRenewal == {<<a, b>>}
MCNone    == {}

\* The first notifier takes every kind, the second only some.
MCTwoNotifiers == <<EventKinds, {"discovered", "alert"}>>
MCOneNotifier  == <<EventKinds>>
MCNoNotifier   == <<>>

Symmetry == Permutations(Workers) \cup Permutations(Browsers)

\* Without suppressions and purges, serve is a scanning process like any other (an
\* acknowledgement is one call, whoever makes it), so that the two processes can be
\* exchanged together with their workers.
SwapProcesses == {[x \in {w1, w2, serve, cron} |->
                     CASE x = w1 -> w2 [] x = w2 -> w1 [] x = serve -> cron [] x = cron -> serve]}
=============================================================================
