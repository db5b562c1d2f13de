-------------------------- MODULE EventBroadcaster --------------------------
(***************************************************************************)
(* The event loop: Network::broadcast, submit_read and submit_write        *)
(* (source/Network/broadcaster.hpp).                                       *)
(*                                                                         *)
(* One read of the input is outstanding, or the writes of what it returned *)
(* are, one per client, all from one shared buffer.  When the last write   *)
(* has completed the next read is started.  A client whose write fails is  *)
(* removed.  -EAGAIN is answered by submitting the request again, always   *)
(* as a read, also when it is a write.                                     *)
(*                                                                         *)
(* A Request is owned by the loop, given to the kernel when it is          *)
(* submitted (release) and taken back with its completion.  The class is   *)
(* modelled by what the loop asks of it; call is the operation prepared,   *)
(* which need not be the request's type.  The n-th message is the number   *)
(* n.  Completions form a set: the order of handling them does not matter. *)
(***************************************************************************)
EXTENDS Naturals, Sequences, FiniteSets

CONSTANTS
    Clients,       \* the handles that may be in outputFDs
    Duplex,        \* those of them that are open for reading too
    Input,         \* inputFD
    NumMessages,   \* what reads of the input return before its end
    Entries,       \* submission queue entries (Q_DEPTH, 64)
    MaxFaults,     \* bound on failing or short operations and failing waits
    Empty,         \* content of a new buffer
    Cut,           \* a message of which a client got a part only
    Chatter        \* what a client says, if it is asked

ASSUME EventAssumption ==
    /\ IsFiniteSet(Clients)
    /\ Duplex \subseteq Clients
    /\ Input \notin Clients
    /\ NumMessages \in Nat
    /\ Entries \in Nat \ {0}
    /\ MaxFaults \in Nat
    /\ Cardinality({Empty, Cut, Chatter}) = 3
    /\ {Empty, Cut, Chatter} \cap Nat = {}

VARIABLES
    pc,               \* "run", "done" after a break, "exited" by exit(1)
    outputFDs,
    writes_pending,
    buffers,          \* contents of the shared buffers, one per read started
    inflight,         \* requests the kernel has
    cq,               \* completions not seen: <<request, result>>
    said,             \* messages read from the input so far
    received,         \* received[c]: what client c was sent
    faults,
    answered,         \* a client has answered a read meant as its write (history)
    gaveUp            \* io_uring_wait_cqe failed (history)

loopVars == <<pc, outputFDs, writes_pending>>
dataVars == <<buffers, said, received>>
faultVars == <<faults, answered, gaveUp>>
vars == <<loopVars, dataVars, inflight, cq, faultVars>>

Messages == 1 .. NumMessages

Requests ==
    [type : {"read", "write"}, call : {"read", "write"},
     fd : Clients \cup {Input}, buf : DOMAIN buffers]

-----------------------------------------------------------------------------
ReadRequest(buf) == [type |-> "read", call |-> "read", fd |-> Input, buf |-> buf]

WriteRequest(c, buf) == [type |-> "write", call |-> "write", fd |-> c, buf |-> buf]

(* start_read: a request with a buffer of its own, submitted. *)
StartRead(requests) ==
    /\ buffers' = Append(buffers, Empty)
    /\ inflight' = requests \cup {ReadRequest(Len(buffers) + 1)}

(* The first read is started, or there is no ring and exit(1) is called. *)
Init ==
    /\ outputFDs \in SUBSET Clients
    /\ writes_pending = 0
    /\ buffers = <<Empty>>
    /\ \/ pc = "run" /\ inflight = {ReadRequest(1)}
       \/ pc = "exited" /\ inflight = {}
    /\ cq = {}
    /\ said = 0
    /\ received = [c \in Clients |-> <<>>]
    /\ faults = 0 /\ answered = FALSE /\ gaveUp = FALSE

-----------------------------------------------------------------------------
(* The loop takes the completion of request r.  All below start with this. *)
Take(r, res) ==
    /\ pc = "run"
    /\ <<r, res>> \in cq
    /\ cq' = cq \ {<<r, res>>}

(* -EAGAIN, "pipe is currently empty": submit_read, whatever the request   *)
(* is: getFile() of a write request is the client.                         *)
SubmitAgain(r) ==
    /\ Take(r, "again")
    /\ inflight' = inflight \cup {[r EXCEPT !.call = "read"]}
    /\ UNCHANGED <<loopVars, dataVars, faultVars>>

(* Mutant: remove_if keeps the client that failed and removes the others. *)
RemainingInverted(c) == outputFDs \cap {c}

(* outputFDs.erase *)
Remaining(c) == outputFDs \ {c}

(* Mutant: the write of a removed client stays pending. *)
PendingKept == writes_pending

PendingAfterRemoval == writes_pending - 1

(* Mutant: a removal does not start a read. *)
NeverRestarts(pending, clients) == FALSE

(* After a removal: writes_pending == 0 && !outputFDs.empty() *)
Restarts(pending, clients) == pending = 0 /\ clients # {}

(* A write failed: its client is dead. *)
RemoveClient(r) ==
    /\ r.type = "write"
    /\ Take(r, "err")
    /\ outputFDs' = Remaining(r.fd)
    /\ writes_pending' = PendingAfterRemoval
    /\ IF Restarts(writes_pending', outputFDs')
       THEN StartRead(inflight) ELSE UNCHANGED <<buffers, inflight>>
    /\ UNCHANGED <<pc, said, received, faultVars>>

(* The read failed, or returned 0: the loop is left. *)
EndOfInput(r) ==
    /\ r.type = "read"
    /\ Take(r, "err") \/ Take(r, "eof")
    /\ pc' = "done"
    /\ UNCHANGED <<outputFDs, writes_pending, dataVars, inflight, faultVars>>

(* A message was read: a write per client, submitted together.  There is   *)
(* an exit(1) if the ring has fewer entries than there are clients.        *)
FanOut(r) ==
    /\ r.type = "read"
    /\ Take(r, "ok")
    /\ writes_pending' = Cardinality(outputFDs)
    /\ IF Cardinality(outputFDs) > Entries
       THEN pc' = "exited" /\ UNCHANGED inflight
       ELSE /\ inflight' = inflight \cup {WriteRequest(c, r.buf) : c \in outputFDs}
            /\ UNCHANGED pc
    /\ UNCHANGED <<outputFDs, dataVars, faultVars>>

(* Mutant: the next read is started with a write still to come. *)
AllButOneWritten(pending) == pending <= 1

AllWritten(pending) == pending = 0

(* A write completed, however much it wrote; so did the read that a write  *)
(* request was turned into.                                                *)
WriteDone(r) ==
    /\ r.type = "write"
    /\ Take(r, "ok") \/ Take(r, "eof")
    /\ writes_pending' = writes_pending - 1
    /\ IF AllWritten(writes_pending')
       THEN StartRead(inflight) ELSE UNCHANGED <<buffers, inflight>>
    /\ UNCHANGED <<pc, outputFDs, said, received, faultVars>>

(* io_uring_wait_cqe fails: the loop is left. *)
WaitFails ==
    /\ pc = "run"
    /\ faults < MaxFaults
    /\ faults' = faults + 1
    /\ gaveUp' = TRUE
    /\ pc' = "done"
    /\ UNCHANGED <<outputFDs, writes_pending, dataVars, inflight, cq, answered>>

-----------------------------------------------------------------------------
(* The kernel completes request r. *)
Complete(r, res) ==
    /\ r \in inflight
    /\ inflight' = inflight \ {r}
    /\ cq' = cq \cup {<<r, res>>}
    /\ UNCHANGED loopVars

(* The next message, or the end of the input. *)
ReadInput(r) ==
    /\ r.fd = Input
    /\ IF said < NumMessages
       THEN /\ Complete(r, "ok")
            /\ said' = said + 1
            /\ buffers' = [buffers EXCEPT ![r.buf] = said']
       ELSE Complete(r, "eof") /\ UNCHANGED <<said, buffers>>
    /\ UNCHANGED <<received, faultVars>>

(* The client is sent what the buffer holds now, by a fault a part of it. *)
WriteClient(r) ==
    /\ r.call = "write"
    /\ Complete(r, "ok")
    /\ \/ /\ received' = [received EXCEPT ![r.fd] = Append(@, buffers[r.buf])]
          /\ UNCHANGED faults
       \/ /\ faults < MaxFaults
          /\ faults' = faults + 1
          /\ received' = [received EXCEPT ![r.fd] = Append(@, Cut)]
    /\ UNCHANGED <<buffers, said, answered, gaveUp>>

(* A client that cannot be read from: -EBADF. *)
RefuseRead(r) ==
    /\ r.call = "read" /\ r.fd \in Clients \ Duplex
    /\ Complete(r, "err")
    /\ UNCHANGED <<dataVars, faultVars>>

(* A client that can says something, or hangs up. *)
ReadClient(r) ==
    /\ r.call = "read" /\ r.fd \in Duplex
    /\ \/ Complete(r, "ok") /\ buffers' = [buffers EXCEPT ![r.buf] = Chatter]
       \/ Complete(r, "eof") /\ UNCHANGED buffers
    /\ answered' = TRUE
    /\ UNCHANGED <<said, received, faults, gaveUp>>

(* The operation fails, or would block (O_NONBLOCK). *)
Fail(r) ==
    /\ faults < MaxFaults
    /\ faults' = faults + 1
    /\ Complete(r, "again") \/ Complete(r, "err")
    /\ UNCHANGED <<dataVars, answered, gaveUp>>

(* What goes on by itself: waiting need not fail, and a client need not    *)
(* ever say anything.                                                      *)
Proceed ==
    \/ \E c \in cq : SubmitAgain(c[1])
    \/ \E c \in cq : RemoveClient(c[1])
    \/ \E c \in cq : EndOfInput(c[1])
    \/ \E c \in cq : FanOut(c[1])
    \/ \E c \in cq : WriteDone(c[1])
    \/ \E r \in inflight : ReadInput(r)
    \/ \E r \in inflight : WriteClient(r)
    \/ \E r \in inflight : RefuseRead(r)
    \/ \E r \in inflight : Fail(r)

Next == Proceed \/ WaitFails \/ \E r \in inflight : ReadClient(r)

Spec == Init /\ [][Next]_vars

(* The loop and the kernel go on as long as one of them can by itself. *)
FairSpec == Spec /\ WF_vars(Proceed)

-----------------------------------------------------------------------------
TypeOK ==
    /\ pc \in {"run", "done", "exited"}
    /\ outputFDs \subseteq Clients
    /\ writes_pending \in 0 .. Cardinality(Clients)
    /\ buffers \in Seq(Messages \cup {Empty, Chatter})
    /\ inflight \subseteq Requests
    /\ cq \subseteq Requests \X {"ok", "eof", "again", "err"}
    /\ said \in 0 .. NumMessages
    /\ \A c \in Clients : received[c] \in Seq(Messages \cup {Empty, Cut, Chatter})
    /\ faults \in 0 .. MaxFaults

Outstanding(type) ==
    {r \in inflight : r.type = type} \cup {c[1] : c \in {x \in cq : x[1].type = type}}

(* writes_pending counts the write requests that are out, also when some   *)
(* were resubmitted as reads or their clients removed.  Reading and        *)
(* writing alternate, so that a buffer is never read into while it is      *)
(* being written, and something is out unless the last client is gone.     *)
Alternation ==
    LET reads == Outstanding("read")
        writes == Outstanding("write")
    IN  pc = "run" =>
            /\ writes_pending = Cardinality(writes)
            /\ Cardinality(reads) <= 1
            /\ reads = {} \/ writes = {}
            /\ reads \cup writes = {} => outputFDs = {}

(* A client gets each message at most once, in order and without gaps up   *)
(* to its removal, whole or cut; until a client answers a read that was    *)
(* meant as a write, which overwrites what the others are being sent.      *)
InOrder ==
    ~answered =>
        \A c \in Clients : \A i \in DOMAIN received[c] : received[c][i] \in {i, Cut}

(* When the input has ended every client left has been sent every message, *)
(* and no request is left to the kernel.                                   *)
AllServed ==
    pc = "done" /\ ~gaveUp =>
        /\ inflight = {} /\ cq = {}
        /\ ~answered => \A c \in outputFDs : Len(received[c]) = said

(* A write request the loop has turned into a read waits for its client. *)
Stalled == \E r \in inflight : r.call = "read" /\ r.fd \in Duplex

(* The loop goes on to the end of the input, through failing clients and   *)
(* -EAGAIN, as long as it has a client; it stops before only where it      *)
(* waits for one to talk.  Without clients it waits for ever.              *)
EndsOrWaits == <>[](pc # "run" \/ outputFDs = {} \/ Stalled)
=============================================================================
