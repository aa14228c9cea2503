------------------------------- MODULE MCPool -------------------------------
(* More hosts than workers, so that workers come back for another one.      *)
EXTENDS Pool, TLC

CONSTANTS w1, w2, w3, h1, h2, h3, h4

MCWorkers == {w1, w2, w3}
MCHosts   == {h1, h2, h3, h4}
=============================================================================
