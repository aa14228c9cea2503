--------------------------- MODULE ScanGateProofs ---------------------------
(***************************************************************************)
(* Proofs about ScanGate, for every set of clients: typing, and the safety *)
(* of the gate. RunningIsAccurate is what makes MutualExclusion inductive: *)
(* start() only looks at the flag, so the flag has to account for every    *)
(* goroutine past the gate.                                                *)
(***************************************************************************)
EXTENDS ScanGate, TLAPS

\* Once the deferred stop() has run the context is cancelled, and db.Close()
\* comes after it: the strengthening that makes ClosedAfterCancel inductive.
StopBeforeClose ==
  /\ main \in {"close", "exited"} => cancelled
  /\ db = "closed" => main \in {"close", "exited"}

\* The scheduler sends to errs once, on its return, and the server once, when it
\* fails: what bounds the channel by its capacity.
ErrsAccounted ==
  Len(errs) <= (IF sched = "done" THEN 1 ELSE 0) + (IF server = "failed" THEN 1 ELSE 0)

GateInv == TypeOK /\ ErrsAccounted /\ MutualExclusion /\ RunningIsAccurate /\ StatusNeverEarly

-----------------------------------------------------------------------------

\* The initial state of runServe satisfies the invariants.
LEMMA InitEstablishes == Init => GateInv /\ StopBeforeClose
<1> SUFFICES ASSUME Init PROVE GateInv /\ StopBeforeClose
  OBVIOUS
<1>1. TypeOK
  <2>0. errs = <<>>
    BY DEF Init
  <2>1. errs \in Seq({"nil", "error"}) /\ Len(errs) <= 2
    BY <2>0
  <2>2. manual \in [Clients -> ManualStates] /\ client \in [Clients -> ClientStates]
    BY DEF Init, ManualStates, ClientStates
  <2> QED
    BY <2>1, <2>2 DEF Init, TypeOK, SchedStates, MainStates
<1>2. MutualExclusion /\ RunningIsAccurate /\ StatusNeverEarly
  BY DEF Init, MutualExclusion, RunningIsAccurate, StatusNeverEarly, ManualHolds, SchedHolds
<1>3. StopBeforeClose
  BY DEF Init, StopBeforeClose
<1>4. ErrsAccounted
  BY DEF Init, ErrsAccounted
<1> QED
  BY <1>1, <1>2, <1>3, <1>4 DEF GateInv

\* Typing is inductive together with the account of errs: every step of every
\* goroutine stays within the states the variables are declared to take, and
\* no third value is ever sent to errs.
LEMMA TypeStep == TypeOK /\ ErrsAccounted /\ [Next]_vars => TypeOK' /\ ErrsAccounted'
<1> SUFFICES ASSUME TypeOK, ErrsAccounted, [Next]_vars PROVE TypeOK' /\ ErrsAccounted'
  OBVIOUS
<1> USE DEF TypeOK, ErrsAccounted, SchedStates, ManualStates, ClientStates, MainStates,
            Start, Finish
<1>1. CASE SchedNext
  <2>1. CASE SchedDone
    <3>1. errs' \in Seq({"nil", "error"}) /\ Len(errs') = Len(errs) + 1
      BY <2>1 DEF SchedDone
    <3>2. Len(errs) <= (IF server = "failed" THEN 1 ELSE 0) /\ Len(errs) \in Nat
      BY <2>1 DEF SchedDone
    <3>3. ErrsAccounted' /\ Len(errs') <= 2
      BY <2>1, <3>1, <3>2 DEF SchedDone
    <3> QED
      BY <2>1, <3>1, <3>3 DEF SchedDone
  <2>2. CASE SchedStart \/ SchedSkip \/ SchedReturn \/ SchedFinish \/ SchedTick
    BY <2>2 DEF SchedStart, SchedSkip, SchedReturn, SchedFinish, SchedTick
  <2> QED
    BY <1>1, <2>1, <2>2 DEF SchedNext
<1>2. CASE Tick
  BY <1>2 DEF Tick
<1>3. ASSUME NEW c \in Clients, ManualNext(c) PROVE TypeOK' /\ ErrsAccounted'
  <2>1. CASE ManualStart(c)
    BY <2>1 DEF ManualStart
  <2>2. CASE ManualReturn(c)
    BY <2>2 DEF ManualReturn
  <2>3. CASE ManualFinish(c)
    BY <2>3 DEF ManualFinish
  <2> QED
    BY <1>3, <2>1, <2>2, <2>3 DEF ManualNext
<1>4. ASSUME NEW c \in Clients, ClientNext(c) PROVE TypeOK' /\ ErrsAccounted'
  <2>1. CASE TriggerAccepted(c)
    BY <2>1 DEF TriggerAccepted
  <2>2. CASE TriggerRejected(c)
    BY <2>2 DEF TriggerRejected
  <2>3. CASE PollIdle(c)
    BY <2>3 DEF PollIdle
  <2> QED
    BY <1>4, <2>1, <2>2, <2>3 DEF ClientNext
<1>5. CASE Signal
  BY <1>5 DEF Signal
<1>6. CASE ServerFails
  <2>1. errs' \in Seq({"nil", "error"}) /\ Len(errs') = Len(errs) + 1
    BY <1>6 DEF ServerFails
  <2> QED
    BY <1>6, <2>1 DEF ServerFails
<1>7. CASE MainNext
  <2>1. CASE MainErrs
    <3>1. errs' \in Seq({"nil", "error"}) /\ Len(errs') = Len(errs) - 1
      BY <2>1 DEF MainErrs
    <3> QED
      BY <2>1, <3>1 DEF MainErrs
  <2>2. CASE MainDone \/ MainShutdown \/ MainStop \/ MainClose \/ MainExit
    BY <2>2 DEF MainDone, MainShutdown, MainStop, MainClose, MainExit
  <2> QED
    BY <1>7, <2>1, <2>2 DEF MainNext
<1>8. CASE UNCHANGED vars
  BY <1>8 DEF vars
<1> QED
  BY <1>1, <1>2, <1>3, <1>4, <1>5, <1>6, <1>7, <1>8 DEF Next

\* The gate is safe step by step: only the goroutine that took it gives it
\* back, and nobody enters while the flag is set.
LEMMA GateStep == GateInv /\ [Next]_vars => GateInv'
<1> SUFFICES ASSUME GateInv, [Next]_vars PROVE GateInv'
  OBVIOUS
<1>0. TypeOK' /\ ErrsAccounted'
  BY TypeStep DEF GateInv
<1> USE <1>0 DEF GateInv, MutualExclusion, RunningIsAccurate, StatusNeverEarly,
                 ManualHolds, SchedHolds
<1>1. CASE SchedNext
  <2>1. CASE SchedStart
    BY <2>1 DEF SchedStart, Start
  <2>2. CASE SchedSkip
    BY <2>2 DEF SchedSkip
  <2>3. CASE SchedReturn
    BY <2>3 DEF SchedReturn
  <2>4. CASE SchedFinish
    BY <2>4 DEF SchedFinish, Finish
  <2>5. CASE SchedTick
    BY <2>5 DEF SchedTick
  <2>6. CASE SchedDone
    BY <2>6 DEF SchedDone
  <2> QED
    BY <1>1, <2>1, <2>2, <2>3, <2>4, <2>5, <2>6 DEF SchedNext
<1>2. CASE Tick
  BY <1>2 DEF Tick
<1>3. ASSUME NEW c \in Clients, ManualNext(c) PROVE GateInv'
  <2>1. CASE ManualStart(c)
    BY <2>1 DEF ManualStart, TypeOK
  <2>2. CASE ManualReturn(c)
    BY <2>2 DEF ManualReturn, TypeOK
  <2>3. CASE ManualFinish(c)
    BY <2>3 DEF ManualFinish, Finish, TypeOK
  <2> QED
    BY <1>3, <2>1, <2>2, <2>3 DEF ManualNext
<1>4. ASSUME NEW c \in Clients, ClientNext(c) PROVE GateInv'
  <2>1. CASE TriggerAccepted(c)
    BY <2>1 DEF TriggerAccepted, Start, TypeOK
  <2>2. CASE TriggerRejected(c)
    BY <2>2 DEF TriggerRejected, TypeOK
  <2>3. CASE PollIdle(c)
    BY <2>3 DEF PollIdle, TypeOK
  <2> QED
    BY <1>4, <2>1, <2>2, <2>3 DEF ClientNext
<1>5. CASE Signal
  BY <1>5 DEF Signal
<1>6. CASE ServerFails
  BY <1>6 DEF ServerFails
<1>7. CASE MainNext
  BY <1>7 DEF MainNext, MainErrs, MainDone, MainShutdown, MainStop, MainClose, MainExit
<1>8. CASE UNCHANGED vars
  BY <1>8 DEF vars
<1> QED
  BY <1>1, <1>2, <1>3, <1>4, <1>5, <1>6, <1>7, <1>8 DEF Next

\* No step closes the database before the context is cancelled, and nothing
\* ever revives a cancelled context.
LEMMA CloseStep == StopBeforeClose /\ [Next]_vars => StopBeforeClose'
<1> SUFFICES ASSUME StopBeforeClose, [Next]_vars PROVE StopBeforeClose'
  OBVIOUS
<1> USE DEF StopBeforeClose
<1>1. CASE SchedNext
  BY <1>1 DEF SchedNext, SchedStart, SchedSkip, SchedReturn, SchedFinish, SchedTick, SchedDone
<1>2. CASE Tick
  BY <1>2 DEF Tick
<1>3. ASSUME NEW c \in Clients, ManualNext(c) PROVE StopBeforeClose'
  BY <1>3 DEF ManualNext, ManualStart, ManualReturn, ManualFinish
<1>4. ASSUME NEW c \in Clients, ClientNext(c) PROVE StopBeforeClose'
  BY <1>4 DEF ClientNext, TriggerAccepted, TriggerRejected, PollIdle
<1>5. CASE Signal
  BY <1>5 DEF Signal
<1>6. CASE ServerFails
  BY <1>6 DEF ServerFails
<1>7. CASE MainNext
  BY <1>7 DEF MainNext, MainErrs, MainDone, MainShutdown, MainStop, MainClose, MainExit
<1>8. CASE UNCHANGED vars
  BY <1>8 DEF vars
<1> QED
  BY <1>1, <1>2, <1>3, <1>4, <1>5, <1>6, <1>7, <1>8 DEF Next

-----------------------------------------------------------------------------

\* Every reachable state of the serve process is well typed.
THEOREM GateTyping == Spec => []TypeOK
<1>1. GateInv => TypeOK
  BY DEF GateInv
<1> QED
  BY <1>1, InitEstablishes, GateStep, PTL DEF Spec

\* Whatever the number of browsers, two scans never overlap.
THEOREM ScansNeverOverlap == Spec => []MutualExclusion
<1>1. GateInv => MutualExclusion
  BY DEF GateInv
<1> QED
  BY <1>1, InitEstablishes, GateStep, PTL DEF Spec

\* The running flag is set exactly while a scan is past the gate.
THEOREM RunningNeverSticks == Spec => []RunningIsAccurate
<1>1. GateInv => RunningIsAccurate
  BY DEF GateInv
<1> QED
  BY <1>1, InitEstablishes, GateStep, PTL DEF Spec

\* A browser told that no scan is running never reloads before its own scan
\* has ended.
THEOREM StatusIsHonest == Spec => []StatusNeverEarly
<1>1. GateInv => StatusNeverEarly
  BY DEF GateInv
<1> QED
  BY <1>1, InitEstablishes, GateStep, PTL DEF Spec

\* No scan with a live context ever meets a closed database.
THEOREM DatabaseOutlivesContext == Spec => []ClosedAfterCancel
<1>1. StopBeforeClose => ClosedAfterCancel
  BY DEF StopBeforeClose, ClosedAfterCancel
<1> QED
  BY <1>1, InitEstablishes, CloseStep, PTL DEF Spec
=============================================================================
