----------------------------- MODULE MCWebServer -----------------------------
(* Instances of WebServer for TLC.                                          *)
EXTENDS WebServer, TLC

CONSTANTS t1, t2

TabSymmetry == Permutations(Tabs)
=============================================================================
