---------------------------- MODULE MCPostOffice ----------------------------
(* The two machines of NetworkTest, the first with a second sender. *)
EXTENDS PostOffice

=============================================================================
