----------------------------- MODULE RingBuffer -----------------------------
(***************************************************************************)
(* RingBuffer (source/IOuring/RingBuffer.hpp): an array that put writes at *)
(* head and get reads at tail, both going round.  A put into a full buffer *)
(* overwrites the item at tail and pushes tail forward.                    *)
(***************************************************************************)
EXTENDS Naturals

CONSTANTS
    Items,
    Capacity,     \* capacity
    Nothing       \* no answer; T{} in a slot nothing was put into

(* A capacity of 0 would be divided by. *)
ASSUME RingAssumption ==
    /\ Capacity \in Nat \ {0}
    /\ Nothing \notin Items

Slots == 0 .. (Capacity - 1)

VARIABLES
    buffer, size, head, tail,
    answer     \* what the last call returned; Nothing also if it threw

ringVars == <<buffer, size, head, tail, answer>>

RingInit ==
    /\ buffer = [i \in Slots |-> Nothing]
    /\ size = 0 /\ head = 0 /\ tail = 0
    /\ answer = Nothing

(* Mutant: one slot is kept free. *)
FullButOne == size + 1 = Capacity

isFull == size = Capacity

isEmpty == size = 0

(* Mutant: the index is not taken round. *)
NextLinear(i) == IF i < Capacity THEN i + 1 ELSE 0

NextSlot(i) == (i + 1) % Capacity

(* Mutant: tail stays. *)
TailStays == tail

(* "The tail is pushed forward by the new head." *)
TailPushed == NextSlot(tail)

put(item) ==
    /\ buffer' = [buffer EXCEPT ![head] = item]
    /\ IF isFull THEN tail' = TailPushed /\ UNCHANGED size
                 ELSE size' = size + 1 /\ UNCHANGED tail
    /\ head' = NextSlot(head)
    /\ answer' = Nothing

get ==
    /\ ~isEmpty
    /\ answer' = buffer[tail]
    /\ tail' = NextSlot(tail)
    /\ size' = size - 1
    /\ UNCHANGED <<buffer, head>>

peek ==
    /\ ~isEmpty
    /\ answer' = buffer[tail]
    /\ UNCHANGED <<buffer, size, head, tail>>

(* get or peek of an empty buffer throws. *)
Throws ==
    /\ isEmpty
    /\ answer' = Nothing
    /\ UNCHANGED <<buffer, size, head, tail>>

RingNext == get \/ peek \/ Throws \/ \E item \in Items : put(item)

RingSpec == RingInit /\ [][RingNext]_ringVars

-----------------------------------------------------------------------------
(* Types, and what ties the three counters together: head is size slots    *)
(* ahead of tail, round the end of the array.                              *)
RingTypeOK ==
    /\ buffer \in [Slots -> Items \cup {Nothing}]
    /\ size \in 0 .. Capacity
    /\ head \in Slots /\ tail \in Slots
    /\ head = (tail + size) % Capacity
    /\ answer \in Items \cup {Nothing}

(* The items from tail on, round the end, are a queue that drops its       *)
(* oldest: every put, get and peek does to them what it does to the queue. *)
Queue == INSTANCE DropOldestQueue WITH
    queue <- [i \in 1 .. size |-> buffer[(tail + i - 1) % Capacity]]

DropsOldest == Queue!Spec
=============================================================================
