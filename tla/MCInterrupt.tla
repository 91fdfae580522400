---------------------------- MODULE MCInterrupt ----------------------------
(***************************************************************************)
(* A small instance of Interrupt for TLC.  Tick lengths and delays keep the *)
(* order of stats.h, scaled down: the delays of devices are longer than a   *)
(* system tick; the timer's, which is random with -rs, can be shorter.      *)
(* Interrupts of different phase fall due in the same system tick.          *)
(***************************************************************************)
EXTENDS Interrupt, TLC

CONSTANTS disk, net, timer

MCDelays == (disk :> {5, 7}) @@ (net :> {4}) @@ (timer :> {1, 3, 5})
=============================================================================
