------------------------------- MODULE Outbox -------------------------------
(***************************************************************************)
(* What the ledger promises its notifiers, whoever sends: an event is never *)
(* forgotten, it reaches the notifiers that handle its kind in the order   *)
(* of their list, possibly several times, and it is marked as notified only *)
(* when all of them have it. Module Scan implements this with a worker's   *)
(* attempt at once and a retry at the start of every scan.                 *)
(***************************************************************************)
EXTENDS Naturals, Sequences

CONSTANTS
  Kinds,     \* the kinds of events
  Handles    \* Handles[n]: the kinds notifier n is configured for

VARIABLES
  kinds,     \* kinds[e]: the kind of the e-th event recorded
  notified,  \* the events marked as notified
  received   \* pairs <<e, n>>: notifier n has received event e

vars == <<kinds, notified, received>>

Handlers(e) == {n \in DOMAIN Handles : kinds[e] \in Handles[n]}

Init == kinds = <<>> /\ notified = {} /\ received = {}

Record ==
  /\ \E k \in Kinds : kinds' = Append(kinds, k)
  /\ UNCHANGED <<notified, received>>

Receive(e, n) ==
  /\ n \in Handlers(e)
  /\ \A m \in Handlers(e) : m < n => <<e, m>> \in received
  /\ received' = received \cup {<<e, n>>}
  /\ UNCHANGED <<kinds, notified>>

Mark(e) ==
  /\ \A n \in Handlers(e) : <<e, n>> \in received
  /\ notified' = notified \cup {e}
  /\ UNCHANGED <<kinds, received>>

Next ==
  \/ Record
  \/ \E e \in DOMAIN kinds : Mark(e) \/ \E n \in DOMAIN Handles : Receive(e, n)

Spec == Init /\ [][Next]_vars
=============================================================================
