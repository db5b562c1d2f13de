------------------------------ MODULE MCDriver ------------------------------
(* Instances of Driver for TLC; the other constants are in the cfgs.        *)
EXTENDS Driver

(* Runs with and without FIFOs, that differ in mode only and in class only. *)
SomeJobs ==
    {[mode |-> 1, copies |-> 2], [mode |-> 3, copies |-> 1],
     [mode |-> 4, copies |-> 1], [mode |-> 4, copies |-> 2]}
=============================================================================
