---------------------------- MODULE MCSaveFiles ----------------------------
(* Small instances of SaveFiles: the constants are numbers, given in the .cfg. *)
EXTENDS SaveFiles
=============================================================================
