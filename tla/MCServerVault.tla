---------------------------- MODULE MCServerVault ----------------------------
(* ServerVault for TLC: its constants are plain values, given in the .cfg.   *)
EXTENDS ServerVault
=============================================================================
