------------------------------ MODULE MCSender ------------------------------
(* Instances of SenderPipe for TLC; the constants are in the cfgs.          *)
EXTENDS SenderPipe
=============================================================================
