-------------------------------- MODULE MCTee --------------------------------
(* Instances of TeeBroadcast for TLC; the constants are in the cfgs.        *)
EXTENDS TeeBroadcast
==============================================================================
