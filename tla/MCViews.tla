------------------------------ MODULE MCViews -------------------------------
(* An instance of Views over the values of MCScan.                          *)
EXTENDS Views, MCScan
=============================================================================
