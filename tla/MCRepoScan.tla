------------------------------ MODULE MCRepoScan ------------------------------
(* TLC instance of RepoScan: its constants are plain values, given in the .cfg. *)
EXTENDS RepoScan
=============================================================================
