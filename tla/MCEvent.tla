------------------------------ MODULE MCEvent -------------------------------
(* Instances of EventBroadcaster for TLC; the constants are in the cfgs.    *)
EXTENDS EventBroadcaster
==============================================================================
