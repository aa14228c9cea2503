----------------------------- MODULE MCTargets -----------------------------
(* Instances of Targets: apex x is in config.yaml, apex y is the operator's, *)
(* with one hostname each.                                                   *)
EXTENDS Targets, TLC

CONSTANTS x, y, hx, hy, b1, b2, zone1

MCApexes    == {x, y}
MCHostnames == {hx, hy}
MCApexOf    == [h \in Hostnames |-> IF h = hx THEN x ELSE y]
MCPorts     == {443, 8443}
MCFiles     == {zone1}
MCContents  == [f \in Files |-> {hx, hy}]

MCConfigApexes == {x}
MCConfigHosts  == {<<hx, 443>>}
MCNone         == {}
MCBrowsers     == {b1, b2}

Symmetry == Permutations(Browsers)
=============================================================================
