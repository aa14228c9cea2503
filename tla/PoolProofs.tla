----------------------------- MODULE PoolProofs -----------------------------
(***************************************************************************)
(* Proofs about module Pool, for any number of workers and hosts. The      *)
(* invariant has two halves: where the goroutines stand with respect to    *)
(* the channels (Standing), and where each host is (Accounts).             *)
(***************************************************************************)
EXTENDS Pool, TLAPS

\* A closed channel tells how far the feeder is, and the feeder how far the
\* workers are.
Standing ==
  /\ jobsClosed <=> feeder # "feeding"
  /\ resultsClosed <=> feeder = "done"
  /\ feeder = "done" => \A w \in Workers : worker[w] = "done"
  /\ \A w \in Workers : worker[w] \in {"processing", "sending"} <=> host[w] # {}
  /\ collector # "collecting" => feeder = "done"
  /\ feeder # "feeding" => unfed = {} \/ cancelled
  /\ collector = "success" => unfed = {}

\* Each host is in one place: unfed, with one worker, or counted.
Accounts ==
  /\ \A h \in unfed : counted[h] = 0 /\ \A w \in Workers : h \notin host[w]
  /\ \A w \in Workers : \A h \in host[w] : counted[h] = 0
  /\ \A v, w \in Workers : v # w => host[v] \cap host[w] = {}
  /\ \A h \in Hosts : counted[h] = 0 => h \in unfed \/ \E w \in Workers : h \in host[w]

PoolInv == TypeOK /\ Standing /\ Accounts

LEMMA InitPool == Init => PoolInv
<1> SUFFICES ASSUME Init
             PROVE  PoolInv
  OBVIOUS
<1>1. TypeOK
  <2>1. counted \in [Hosts -> 0..1]
    BY DEF Init
  <2>2. host \in [Workers -> {{}} \cup {{h} : h \in Hosts}]
    BY DEF Init
  <2> QED
    BY <2>1, <2>2 DEF Init, TypeOK
<1>2. Standing
  BY DEF Init, Standing
<1>3. Accounts
  BY DEF Init, Accounts
<1> QED
  BY <1>1, <1>2, <1>3 DEF PoolInv

\* A worker that is fed is one that carried nothing, and it carries h alone.
LEMMA FeedStep ==
  ASSUME PoolInv, NEW w \in Workers, NEW h \in Hosts, Feed(w, h)
  PROVE  PoolInv'
<1> USE DEF PoolInv
<1>1. host[w] = {}
  BY DEF Standing, Feed
<1>2. \A v \in Workers : host'[v] = IF v = w THEN {h} ELSE host[v]
  BY DEF Feed, TypeOK
<1>3. \A v \in Workers : worker'[v] = IF v = w THEN "processing" ELSE worker[v]
  BY DEF Feed, TypeOK
<1>4. TypeOK'
  BY DEF Feed, TypeOK
<1>5. Standing'
  BY <1>2, <1>3 DEF Feed, Standing
<1>6. Accounts'
  BY <1>1, <1>2 DEF Feed, Accounts, TypeOK
<1> QED
  BY <1>4, <1>5, <1>6

\* The result that is counted is that of the one host the worker carried.
LEMMA SendStep ==
  ASSUME PoolInv, NEW w \in Workers, SendResult(w)
  PROVE  PoolInv'
<1> USE DEF PoolInv
<1>1. PICK h \in Hosts : host[w] = {h}
  BY DEF SendResult, Standing, TypeOK
<1>2. counted[h] = 0 /\ h \notin unfed
  BY <1>1 DEF Accounts
<1>3. \A v \in Workers : host'[v] = IF v = w THEN {} ELSE host[v]
  BY DEF SendResult, TypeOK
<1>4. \A g \in Hosts : counted'[g] = IF g = h THEN 1 ELSE counted[g]
  BY <1>1, <1>2 DEF SendResult, TypeOK
<1>5. \A v \in Workers : worker'[v] = IF v = w THEN "receiving" ELSE worker[v]
  BY DEF SendResult, TypeOK
<1>6. counted' \in [Hosts -> 0..1]
  <2>1. counted' = [g \in Hosts |-> counted'[g]]
    BY DEF SendResult
  <2>2. \A g \in Hosts : counted'[g] \in 0..1
    BY <1>4 DEF TypeOK
  <2> QED
    BY <2>1, <2>2
<1>7. TypeOK'
  BY <1>6 DEF SendResult, TypeOK
<1>8. Standing'
  BY <1>3, <1>5 DEF SendResult, Standing
<1>9. Accounts'
  <2>1. \A g \in unfed' : counted'[g] = 0 /\ \A v \in Workers : g \notin host'[v]
    BY <1>2, <1>3, <1>4 DEF SendResult, Accounts, TypeOK
  <2>2. \A v \in Workers : \A g \in host'[v] : counted'[g] = 0
    BY <1>1, <1>3, <1>4 DEF Accounts, TypeOK
  <2>3. \A u, v \in Workers : u # v => host'[u] \cap host'[v] = {}
    BY <1>3 DEF Accounts
  <2>4. \A g \in Hosts : counted'[g] = 0 => g \in unfed' \/ \E v \in Workers : g \in host'[v]
    <3> SUFFICES ASSUME NEW g \in Hosts, counted'[g] = 0, g \notin unfed
                 PROVE  \E v \in Workers : g \in host'[v]
      BY DEF SendResult
    <3>1. g # h /\ counted[g] = 0
      BY <1>4
    <3>2. PICK v \in Workers : g \in host[v]
      BY <3>1 DEF Accounts
    <3>3. v # w
      BY <1>1, <3>1, <3>2
    <3> QED
      BY <1>3, <3>2, <3>3
  <2> QED
    BY <2>1, <2>2, <2>3, <2>4 DEF Accounts
<1> QED
  BY <1>7, <1>8, <1>9

LEMMA PoolStep == PoolInv /\ [Next]_vars => PoolInv'
<1> SUFFICES ASSUME PoolInv, [Next]_vars
             PROVE  PoolInv'
  OBVIOUS
<1> USE DEF PoolInv, TypeOK, Standing, Accounts
<1>1. CASE UNCHANGED vars
  BY <1>1 DEF vars
<1>2. CASE Cancel
  BY <1>2 DEF Cancel
<1>3. CASE StopFeeding
  BY <1>3 DEF StopFeeding
<1>4. CASE CloseResults
  BY <1>4 DEF CloseResults
<1>5. ASSUME NEW w \in Workers, NEW h \in Hosts, Feed(w, h)
      PROVE  PoolInv'
  BY <1>5, FeedStep
<1>6. CASE Return
  BY <1>6 DEF Return
<1>7. ASSUME NEW w \in Workers, Process(w)
      PROVE  PoolInv'
  <2>1. \A v \in Workers : worker'[v] = IF v = w THEN "sending" ELSE worker[v]
    BY <1>7 DEF Process
  <2> QED
    BY <1>7, <2>1 DEF Process
<1>8. ASSUME NEW w \in Workers, SendResult(w)
      PROVE  PoolInv'
  BY <1>8, SendStep
<1>9. ASSUME NEW w \in Workers, Exit(w)
      PROVE  PoolInv'
  <2>1. \A v \in Workers : worker'[v] = IF v = w THEN "done" ELSE worker[v]
    BY <1>9 DEF Exit
  <2> QED
    BY <1>9, <2>1 DEF Exit
<1> QED
  BY <1>1, <1>2, <1>3, <1>4, <1>5, <1>6, <1>7, <1>8, <1>9 DEF Next, FeederNext, WorkerNext

LEMMA PoolInvariant == Spec => []PoolInv
BY InitPool, PoolStep, PTL DEF Spec

-----------------------------------------------------------------------------

\* The pool's variables keep their types; above all no result is counted twice.
THEOREM PoolTyping == Spec => []TypeOK
<1>1. PoolInv => TypeOK
  BY DEF PoolInv
<1> QED
  BY <1>1, PoolInvariant, PTL

\* No worker and no feeder ever sends on a channel that is closed (core.go 160-175).
THEOREM SendsAreSafe == Spec => []NoSendOnClosed
<1>1. PoolInv => NoSendOnClosed
  BY DEF PoolInv, Standing, NoSendOnClosed
<1> QED
  BY <1>1, PoolInvariant, PTL

\* A scan that reports success has counted one result for every discovered host.
THEOREM SuccessIsComplete == Spec => []SuccessMeansComplete
<1>1. PoolInv => SuccessMeansComplete
  <2> SUFFICES ASSUME PoolInv, collector = "success", NEW h \in Hosts
               PROVE  counted[h] = 1
    BY DEF SuccessMeansComplete
  <2>1. unfed = {} /\ \A w \in Workers : host[w] = {}
    BY DEF PoolInv, Standing
  <2>2. counted[h] # 0
    BY <2>1 DEF PoolInv, Accounts
  <2> QED
    BY <2>2 DEF PoolInv, TypeOK
<1> QED
  BY <1>1, PoolInvariant, PTL

\* When Runner.run has returned, all goroutines of its pool have ended.
THEOREM PoolIsLeftEmpty == Spec => []NothingLeftBehind
<1>1. PoolInv => NothingLeftBehind
  BY DEF PoolInv, Standing, NothingLeftBehind
<1> QED
  BY <1>1, PoolInvariant, PTL

-----------------------------------------------------------------------------

LEMMA InitCrew == Init => Believed!Init
BY DEF Init, Believed!Init

LEMMA CrewStep == PoolInv /\ [Next]_vars => [Believed!Next]_(Believed!vars)
<1> SUFFICES ASSUME PoolInv, [Next]_vars
             PROVE  [Believed!Next]_(Believed!vars)
  OBVIOUS
<1> USE DEF Believed!vars, Believed!Next
<1>1. CASE UNCHANGED vars
  BY <1>1 DEF vars
<1>2. CASE Cancel
  BY <1>2 DEF Cancel, Believed!Cancel
<1>3. CASE StopFeeding
  BY <1>3 DEF StopFeeding, Believed!StopFeeding, PoolInv, Standing
<1>4. CASE CloseResults
  BY <1>4 DEF CloseResults
<1>5. ASSUME NEW w \in Workers, NEW h \in Hosts, Feed(w, h)
      PROVE  Believed!Take(w, h)
  BY <1>5 DEF Feed, Believed!Take, PoolInv, Standing
<1>6. CASE Return
  BY <1>6 DEF Return, Believed!End, PoolInv, Standing
<1>7. ASSUME NEW w \in Workers, Process(w)
      PROVE  UNCHANGED Believed!vars
  BY <1>7 DEF Process
<1>8. ASSUME NEW w \in Workers, SendResult(w)
      PROVE  Believed!Finish(w)
  BY <1>8 DEF SendResult, Believed!Finish, PoolInv, Standing
<1>9. ASSUME NEW w \in Workers, Exit(w)
      PROVE  UNCHANGED Believed!vars
  BY <1>9 DEF Exit
<1> QED
  BY <1>1, <1>2, <1>3, <1>4, <1>5, <1>6, <1>7, <1>8, <1>9 DEF Next, FeederNext, WorkerNext

\* Feeder, channels and workers together provide what module Scan assumes of
\* them: hosts taken in one step, and an end when nobody is busy.
THEOREM PoolImplementsCrew == Spec => ImplementsCrew
<1>1. Init /\ [][Next]_vars /\ []PoolInv => Believed!Spec
  BY InitCrew, CrewStep, PTL DEF Believed!Spec
<1> QED
  BY <1>1, PoolInvariant, PTL DEF Spec, ImplementsCrew
=============================================================================
