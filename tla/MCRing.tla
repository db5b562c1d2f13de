------------------------------- MODULE MCRing -------------------------------
(* Instances of RingBuffer for TLC; the constants are in the cfgs.          *)
EXTENDS RingBuffer
=============================================================================
