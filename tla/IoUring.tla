------------------------------- MODULE IoUring -------------------------------
(***************************************************************************)
(* What the engines rely on of io_uring: how the kernel cuts the           *)
(* submission queue into chains and what becomes of a chain.               *)
(*                                                                         *)
(* A queue entry is a record with a field link (IOSQE_IO_LINK).  A chain   *)
(* runs from an entry whose predecessor has no link to the first entry     *)
(* without one, or to the end of what one io_uring_submit hands over.      *)
(* Its entries are executed in turn; the first one that fails or transfers *)
(* less than was asked severs it, and the entries behind it complete with  *)
(* -ECANCELED without being executed.  Chains are not ordered among        *)
(* themselves.  The entries of a run are distinct, so chains form a set.   *)
(***************************************************************************)
EXTENDS Naturals, Sequences

ChainEnd(batch, i) ==
    CHOOSE j \in i .. Len(batch) :
        /\ \A k \in i .. (j - 1) : batch[k].link
        /\ batch[j].link => j = Len(batch)

Chains(batch) ==
    LET heads == {i \in DOMAIN batch : i = 1 \/ ~batch[i - 1].link}
    IN  {SubSeq(batch, i, ChainEnd(batch, i)) : i \in heads}

(* The chains left when the first entry of one of them has been executed.  *)
Advance(chains, chain, full) ==
    (chains \ {chain}) \cup
        (IF full /\ Len(chain) > 1 THEN {Tail(chain)} ELSE {})

(* The entries that are cancelled with it. *)
Severed(chain, full) ==
    IF full THEN {} ELSE {chain[i] : i \in 2 .. Len(chain)}
==============================================================================
