---------------------------- MODULE MCSynchList ----------------------------
(* Small instances of SynchList for TLC.                                    *)
EXTENDS SynchList
=============================================================================
