------------------------------ MODULE Evaluate ------------------------------
(***************************************************************************)
(* internal/evaluate: the state of a certificate at a moment, and the      *)
(* event an evaluation raises, together with the renewal rule core adds to *)
(* it in processHost.                                                      *)
(*                                                                         *)
(* Times are natural numbers of hundredths of a day, so that a ratio in    *)
(* per cent of a lifetime in days is a whole number of them:               *)
(* lifetimeDays * ratio.                                                   *)
(***************************************************************************)
EXTENDS Integers

CONSTANTS
  Warn,   \* config.Thresholds.Warn: [ratio |-> per cent, floorDays |-> days]
  Alert   \* config.Thresholds.Alert

Threshold == [ratio: 1..100, floorDays: Nat]

ASSUME ThresholdsAssumption == Warn \in Threshold /\ Alert \in Threshold

States     == {"healthy", "warn", "alert", "expired", "misconfigured"}
EventKinds == {"discovered", "renewed", "warn", "alert", "expired", "misconfigured"}

\* The empty previous state: the pair (host, certificate) was never evaluated.
Unseen  == "unseen"
NoEvent == "none"

-----------------------------------------------------------------------------

\* The larger of the two windows; floorDays bounds the ratio from below.
ThresholdWindow(lifetimeDays, threshold) ==
  LET ratioWindow == lifetimeDays * threshold.ratio
      floorWindow == 100 * threshold.floorDays
  IN  IF ratioWindow < floorWindow THEN floorWindow ELSE ratioWindow

Misconfigured(cert) == ~cert.chainComplete \/ ~cert.hostnameMatch \/ cert.isSelfSigned

\* Mutant of StateOf: the TLS configuration is looked at before the expiry.
StateOf_MisconfiguredFirst(cert, now) ==
  LET remaining == cert.notAfter - now
      Within(threshold) == remaining <= ThresholdWindow(cert.lifetimeDays, threshold)
  IN  IF Misconfigured(cert) THEN "misconfigured"
      ELSE IF remaining <= 0 THEN "expired"
      ELSE IF Within(Alert) THEN "alert"
      ELSE IF Within(Warn) THEN "warn"
      ELSE "healthy"

\* The switch of evaluate.Certificate: the first case that applies. cert has
\* the fields of cert.Metadata the switch reads.
StateOf(cert, now) ==
  LET remaining == cert.notAfter - now
      Within(threshold) == remaining <= ThresholdWindow(cert.lifetimeDays, threshold)
  IN  IF remaining <= 0 THEN "expired"
      ELSE IF Misconfigured(cert) THEN "misconfigured"
      ELSE IF Within(Alert) THEN "alert"
      ELSE IF Within(Warn) THEN "warn"
      ELSE "healthy"

\* Mutants of EventOf: only the first step out of healthy is announced; every
\* scan announces; expiry is not announced.
EventOf_FromHealthy(state, previousState) ==
  IF previousState = Unseen THEN "discovered"
  ELSE IF previousState = "healthy" /\ state # "healthy" THEN state ELSE NoEvent

EventOf_EveryScan(state, previousState) ==
  IF previousState = Unseen THEN "discovered"
  ELSE IF state # "healthy" THEN state ELSE NoEvent

EventOf_NoExpiry(state, previousState) ==
  IF previousState = Unseen THEN "discovered"
  ELSE IF previousState # state /\ state \notin {"healthy", "expired"} THEN state ELSE NoEvent

\* A pair seen for the first time is "discovered" whatever its state; afterwards
\* only a change into a state that is not healthy raises an event.
EventOf(state, previousState) ==
  IF previousState = Unseen THEN "discovered"
  ELSE IF previousState # state /\ state # "healthy" THEN state
  ELSE NoEvent

\* The event of a scan of a host: in processHost a renewal, that is, another
\* certificate than the one last linked to the host, with a later notAfter,
\* replaces whatever the evaluation raises.
ScanEvent(renewed, state, previousState) ==
  IF renewed THEN "renewed" ELSE EventOf(state, previousState)
=============================================================================
