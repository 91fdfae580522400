----------------------------- MODULE MCMonitor -----------------------------
(* Small instances of Monitor for TLC.                                      *)
EXTENDS Monitor
=============================================================================
