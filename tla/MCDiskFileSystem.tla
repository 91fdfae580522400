-------------------------- MODULE MCDiskFileSystem --------------------------
(* A disk of nine sectors, five of which the system files take. *)
EXTENDS DiskFileSystem

MCTexts == {<<1>>, <<2, 1, 2, 1>>}

=============================================================================
