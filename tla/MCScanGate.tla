----------------------------- MODULE MCScanGate -----------------------------
(* Two browsers, the scheduler and the main goroutine: enough for every     *)
(* pair of callers to race for the gate.                                    *)
EXTENDS ScanGate, TLC

CONSTANTS c1, c2

MCClients == {c1, c2}
=============================================================================
