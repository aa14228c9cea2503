-------------------------------- MODULE Crew --------------------------------
(***************************************************************************)
(* A scan's workers as module Scan sees them: idle workers take hosts from *)
(* a queue in one step, a cancellation may throw the rest of the queue     *)
(* away, and the scan is over when the queue is empty and nobody is busy.  *)
(* Module Pool shows that the goroutines and channels of Runner.run        *)
(* provide this.                                                           *)
(***************************************************************************)
CONSTANTS
  Workers,
  Hosts

VARIABLES
  queue,      \* hosts not yet taken
  carried,    \* carried[w]: the hosts (at most one) worker w is busy with
  cancelled,  \* the context of the scan is done
  over        \* the scan has returned

vars == <<queue, carried, cancelled, over>>

Init ==
  /\ queue \subseteq Hosts
  /\ carried = [w \in Workers |-> {}]
  /\ cancelled = FALSE /\ over = FALSE

Take(w, h) ==
  /\ h \in queue /\ carried[w] = {} /\ ~over
  /\ queue' = queue \ {h}
  /\ carried' = [carried EXCEPT ![w] = {h}]
  /\ UNCHANGED <<cancelled, over>>

Finish(w) ==
  /\ carried[w] # {}
  /\ carried' = [carried EXCEPT ![w] = {}]
  /\ UNCHANGED <<queue, cancelled, over>>

StopFeeding ==
  /\ cancelled
  /\ queue' = {}
  /\ UNCHANGED <<carried, cancelled, over>>

Cancel == cancelled' = TRUE /\ UNCHANGED <<queue, carried, over>>

End ==
  /\ queue = {} /\ \A w \in Workers : carried[w] = {}
  /\ over' = TRUE
  /\ UNCHANGED <<queue, carried, cancelled>>

Next ==
  \/ \E w \in Workers : Finish(w) \/ \E h \in Hosts : Take(w, h)
  \/ StopFeeding \/ Cancel \/ End

Spec == Init /\ [][Next]_vars
=============================================================================
