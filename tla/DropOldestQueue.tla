-------------------------- MODULE DropOldestQueue ---------------------------
(***************************************************************************)
(* What a RingBuffer promises: a queue of bounded length that makes room   *)
(* for a new item by dropping its oldest, and that refuses to be read      *)
(* while it is empty.                                                      *)
(***************************************************************************)
EXTENDS Naturals, Sequences

CONSTANTS Items, Capacity, Nothing

VARIABLES
    queue,
    answer     \* what the last call returned; Nothing also if it threw

Init == queue = <<>> /\ answer = Nothing

Put(item) ==
    /\ queue' = Append(IF Len(queue) = Capacity THEN Tail(queue) ELSE queue, item)
    /\ answer' = Nothing

Get ==
    /\ queue # <<>>
    /\ queue' = Tail(queue)
    /\ answer' = Head(queue)

Peek ==
    /\ queue # <<>>
    /\ answer' = Head(queue)
    /\ UNCHANGED queue

(* get and peek throw. *)
Refuse ==
    /\ queue = <<>>
    /\ answer' = Nothing
    /\ UNCHANGED queue

Next == Get \/ Peek \/ Refuse \/ \E item \in Items : Put(item)

Spec == Init /\ [][Next]_<<queue, answer>>
=============================================================================
