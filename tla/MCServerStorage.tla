--------------------------- MODULE MCServerStorage ---------------------------
(* ServerStorage for TLC: its constants are plain values, given in the .cfg. *)
EXTENDS ServerStorage
=============================================================================
