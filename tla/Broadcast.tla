------------------------------ MODULE Broadcast ------------------------------
(***************************************************************************)
(* What every engine of the broadcaster promises its caller (main.cpp):    *)
(* one source, a fixed set of outputs; pieces of the source reach their    *)
(* place in an output and stay there; the call returns, and when it does   *)
(* every output that met no failure holds the whole source.                *)
(*                                                                         *)
(* The engines (modes 1 to 4) are shown, or shown not, to implement this   *)
(* specification under a mapping from their files to "held" and from their *)
(* failing operations to "failed".                                         *)
(***************************************************************************)
CONSTANTS
    Outputs,    \* the output files of one call
    Units       \* the places of the source: its offsets, or its windows

VARIABLES
    held,       \* held[d]: the places of output d that hold the source's data
    failed,     \* the outputs that a failure may have left incomplete
    returned    \* the call has returned

vars == <<held, failed, returned>>

TypeOK ==
    /\ held \in [Outputs -> SUBSET Units]
    /\ failed \in SUBSET Outputs
    /\ returned \in BOOLEAN

Init ==
    /\ held = [d \in Outputs |-> {}]
    /\ failed = {}
    /\ returned = FALSE

(* Some places of one output receive their data, none is ever undone; the  *)
(* step may be, or come with, a failure.                                   *)
Work(d) ==
    /\ ~returned
    /\ \E more \in SUBSET Units : held' = [held EXCEPT ![d] = @ \cup more]
    /\ \E more \in SUBSET Outputs : failed' = failed \cup more
    /\ UNCHANGED returned

(* The call returns; every output that is not failed is a complete copy.   *)
Return ==
    /\ ~returned
    /\ \E more \in SUBSET Outputs : failed' = failed \cup more
    /\ \A d \in Outputs \ failed' : held[d] = Units
    /\ returned' = TRUE
    /\ UNCHANGED held

(* Operations still under way when a failing call returns. *)
Late(d) ==
    /\ returned
    /\ d \in failed
    /\ \E more \in SUBSET Units : held' = [held EXCEPT ![d] = @ \cup more]
    /\ UNCHANGED <<failed, returned>>

Next == Return \/ \E d \in Outputs : Work(d) \/ Late(d)

Safety == Init /\ [][Next]_vars

Promise == Safety /\ <>returned
==============================================================================
