------------------------------- MODULE MCReadv -------------------------------
(* Instances of ReadvBroadcast for TLC; the constants are in the cfgs.      *)
EXTENDS ReadvBroadcast
==============================================================================
