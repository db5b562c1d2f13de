-------------------------------- MODULE MCVec --------------------------------
(* Instances of VecBroadcast for TLC; the other constants are in the cfgs.  *)
EXTENDS VecBroadcast

(* What looking up the size returns while nobody else writes the source. *)
Stable == {SourceSize}
==============================================================================
