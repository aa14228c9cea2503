--------------------------- MODULE MCHostHistory ----------------------------
(* Three certificates with different ends and lifetimes, so that both the   *)
(* ratio and the floor of a window decide somewhere, on a clock that steps  *)
(* through every window. Time is in hundredths of a day, 100 a day.         *)
EXTENDS HostHistory, TLC

CONSTANTS a, b, c

MCCerts  == {a, b, c}
MCHosts  == {"h"}
MCWarn   == [ratio |-> 25, floorDays |-> 2]
MCAlert  == [ratio |-> 20, floorDays |-> 3]

\* Config.Validate looks at warn and alert one by one, so that the windows need not
\* be ordered. a: warn window 200, alert window 300 (both floors, warn is never
\* reached); b: 200 and 300; c: 400 and 320 (both ratios, in the usual order).
MCLifetimeDays == (a :> 4) @@ (b :> 8) @@ (c :> 16)
MCNotAfter     == (a :> 400) @@ (b :> 500) @@ (c :> 500)
MCBadCerts     == {}
=============================================================================
