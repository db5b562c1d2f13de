------------------------------ MODULE MCSplice -------------------------------
(* Instances of SpliceBroadcast for TLC; the constants are in the cfgs.     *)
EXTENDS SpliceBroadcast
==============================================================================
