------------------------------ MODULE MCDrivers ------------------------------
(* Small instances of Drivers: both clients use the disk, one the console too. *)
EXTENDS Drivers

CONSTANTS a, eof, t1, t2

MCKeystrokes == {<<a, a>>, <<eof, a>>}

MCUses(t) == IF t = t1 THEN {"disk"} ELSE Devices

=============================================================================
