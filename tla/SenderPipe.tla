----------------------------- MODULE SenderPipe -----------------------------
(***************************************************************************)
(* The pipe sender: read_file_request with setup_uring and FdGetFileSize   *)
(* (source/Network/sender_pipe.h), called by send_pipe_data.               *)
(*                                                                         *)
(* A file opened with O_DIRECT is read block by block, up to Q_DEPTH reads *)
(* at a time, each into one of as many buffers.  idx counts the reads that *)
(* are out and is also taken for the index of a free buffer; completions   *)
(* come in any order, so the two agree only until a second read is queued  *)
(* behind a completion.  What is read is counted and not used.             *)
(*                                                                         *)
(* A byte is a unit.  A read is named by its offset, <<offset, buffer>>.   *)
(***************************************************************************)
EXTENDS Integers

CONSTANTS
    MaxSize,      \* the file has at most this size
    BLOCK,
    Q_DEPTH,
    MaxFaults,    \* bound on failing calls, failing and short reads
    None          \* content of a buffer nothing was read into

ASSUME SenderAssumption ==
    /\ MaxSize \in Nat
    /\ BLOCK \in Nat \ {0}
    /\ Q_DEPTH \in Nat \ {0}
    /\ MaxFaults \in Nat
    /\ None \notin Nat

VARIABLES
    pc,          \* "open", "queue", "wait", "clean", "done" (0 is returned),
                 \* "failed" (1 is returned), "exited", "crashed"
    fsize,
    offset,
    idx,
    total_read,
    sq,          \* reads prepared and not submitted
    inflight,    \* reads the kernel has
    cq,          \* completions not seen: <<offset, buffer, result>>, -1 if it failed
    buffer,      \* buffer[i]: the offset of the block it holds
    held,        \* what the call holds: "ring", "fd", "buffers"
    faults,
    erred        \* the loop was left by a read error (history)

readVars == <<offset, idx, total_read, sq, inflight, cq, buffer>>
vars == <<pc, fsize, readVars, held, faults, erred>>

Buffers == 0 .. (Q_DEPTH - 1)

(* Mutant: the size is rounded down to blocks. *)
AlignedDown == (fsize \div BLOCK) * BLOCK

aligned_size == ((fsize + BLOCK - 1) \div BLOCK) * BLOCK

(* Mutant: all reads go into the first buffer. *)
FirstBuffer == 0

(* The buffer of the next read: &iovecs[idx] *)
NextBuffer == idx

(* What it returns unless fstat fails. *)
FdGetFileSize == 0 .. MaxSize

Init ==
    /\ pc = "open"
    /\ fsize \in FdGetFileSize
    /\ offset = 0 /\ idx = 0 /\ total_read = 0
    /\ sq = {} /\ inflight = {} /\ cq = {}
    /\ buffer = [i \in Buffers |-> None]
    /\ held = {}
    /\ faults = 0 /\ erred = FALSE

Fault == faults < MaxFaults /\ faults' = faults + 1

-----------------------------------------------------------------------------
(* setup_uring without a ring: exit(1). *)
NoRing ==
    /\ pc = "open"
    /\ Fault
    /\ pc' = "exited"
    /\ UNCHANGED <<fsize, readVars, held, erred>>

Open ==
    /\ pc = "open"
    /\ pc' = "queue"
    /\ held' = {"ring", "fd", "buffers"}
    /\ UNCHANGED <<fsize, readVars, faults, erred>>

(* open, FdGetFileSize or a posix_memalign fails: the call returns 1, and  *)
(* what it has so far stays open.                                          *)
OpenFails ==
    /\ pc = "open"
    /\ Fault
    /\ pc' = "failed"
    /\ held' \in {{"ring"}, {"ring", "fd"}, {"ring", "fd", "buffers"}}
    /\ UNCHANGED <<fsize, readVars, erred>>

(* Mutant: one read more than there are buffers may be out. *)
RoomForOneMore == idx <= Q_DEPTH

Room == idx < Q_DEPTH

(* A turn of the inner loop.  The queue has Q_DEPTH entries and idx of     *)
(* them at most are out, so that io_uring_get_sqe does not fail.           *)
Queue ==
    /\ pc = "queue"
    /\ Room /\ offset < aligned_size
    /\ sq' = sq \cup {<<offset, NextBuffer>>}
    /\ offset' = offset + BLOCK
    /\ idx' = idx + 1
    /\ UNCHANGED <<pc, fsize, total_read, inflight, cq, buffer, held, faults, erred>>

(* Mutant: the loop ends when the last read is queued. *)
AllQueued == offset >= aligned_size

(* The outer loop ends. *)
AllSeen == idx = 0

(* Everything that fits is queued: io_uring_submit.  With nothing out (an  *)
(* empty file) or all read the loop ends.                                  *)
Submit ==
    /\ pc = "queue"
    /\ ~(Room /\ offset < aligned_size)
    /\ inflight' = inflight \cup sq
    /\ sq' = {}
    /\ pc' = IF AllSeen THEN "clean" ELSE "wait"
    /\ UNCHANGED <<fsize, offset, idx, total_read, cq, buffer, held, faults, erred>>

(* Mutant: a completion is counted as a whole block. *)
WholeBlock(res) == BLOCK

(* total_read += cqe->res *)
Counted(res) == res

(* A completion is seen.  A read error ends the loop. *)
See(c) ==
    /\ pc = "wait"
    /\ cq' = cq \ {c}
    /\ IF c[3] < 0
       THEN pc' = "clean" /\ erred' = TRUE /\ UNCHANGED <<idx, total_read>>
       ELSE /\ pc' = "queue"
            /\ total_read' = total_read + Counted(c[3])
            /\ idx' = idx - 1
            /\ UNCHANGED erred
    /\ UNCHANGED <<fsize, offset, sq, inflight, buffer, held, faults>>

(* io_uring_wait_cqe fails: that is printed, and the completion it did not *)
(* return is looked at all the same, through the null pointer it left.     *)
WaitFails ==
    /\ pc = "wait"
    /\ Fault
    /\ pc' = "crashed"
    /\ held' = {}
    /\ UNCHANGED <<fsize, readVars, erred>>

(* free, close and io_uring_queue_exit; 0 is returned, errors included. *)
CleanUp ==
    /\ pc = "clean"
    /\ held' = {}
    /\ pc' = "done"
    /\ UNCHANGED <<fsize, readVars, faults, erred>>

-----------------------------------------------------------------------------
(* What a read at an offset returns if nothing is wrong. *)
There(off) == IF fsize - off < BLOCK THEN fsize - off ELSE BLOCK

(* The kernel executes a read: in full, or by a fault short or not at all. *)
Execute(r) ==
    /\ pc # "crashed"
    /\ inflight' = inflight \ {r}
    /\ \/ /\ cq' = cq \cup {<<r[1], r[2], There(r[1])>>}
          /\ buffer' = [buffer EXCEPT ![r[2]] = r[1]]
          /\ UNCHANGED faults
       \/ /\ Fault
          /\ \E short \in 0 .. (There(r[1]) - 1) : cq' = cq \cup {<<r[1], r[2], short>>}
          /\ UNCHANGED buffer
       \/ /\ Fault
          /\ cq' = cq \cup {<<r[1], r[2], -1>>}
          /\ UNCHANGED buffer
    /\ UNCHANGED <<pc, fsize, offset, idx, total_read, sq, held, erred>>

Terminated == pc \in {"done", "failed", "exited", "crashed"} /\ UNCHANGED vars

Next ==
    \/ NoRing \/ Open \/ OpenFails \/ Queue \/ Submit
    \/ \E c \in cq : See(c)
    \/ WaitFails \/ CleanUp
    \/ \E r \in inflight : Execute(r)
    \/ Terminated

Spec == Init /\ [][Next]_vars

-----------------------------------------------------------------------------
Offsets == {off \in 0 .. MaxSize : off % BLOCK = 0}

Reads == Offsets \X Buffers

TypeOK ==
    /\ pc \in {"open", "queue", "wait", "clean",
              "done", "failed", "exited", "crashed"}
    /\ fsize \in FdGetFileSize
    /\ offset \in 0 .. (MaxSize + BLOCK - 1)
    /\ idx \in 0 .. Q_DEPTH
    /\ total_read \in 0 .. fsize
    /\ sq \subseteq Reads /\ inflight \subseteq Reads
    /\ \A c \in cq : <<c[1], c[2]>> \in Reads /\ c[3] \in -1 .. BLOCK
    /\ buffer \in [Buffers -> Offsets \cup {None}]
    /\ held \subseteq {"ring", "fd", "buffers"}
    /\ faults \in 0 .. MaxFaults

(* As long as no more reads were queued than there are buffers, a read has *)
(* a buffer of its own: the data of a completion is there when it is seen, *)
(* in whatever order the reads completed.  With the next read this ends.   *)
DataInPlace ==
    offset <= Q_DEPTH * BLOCK =>
        \A c \in cq : c[3] = There(c[1]) => buffer[c[2]] = c[1]

(* "Bytes read" is the size of the file if and only if nothing went wrong: *)
(* every block is read once and seen, a failing or short read shows.       *)
TotalExact == pc = "done" => (total_read = fsize <=> faults = 0)

(* The buffers are freed and the file is closed only when no read is out   *)
(* any more, unless a read error has ended the loop: then the kernel may   *)
(* still write into them.                                                  *)
BuffersAtRest ==
    pc = "done" /\ ~erred => sq = {} /\ inflight = {} /\ cq = {}

(* The loop never waits for a completion that does not come: while it      *)
(* waits a read is out or a completion is there.                           *)
NeverWaitsInVain == pc = "wait" => inflight # {} \/ cq # {}

(* The parts of the call in their order; the loop is between two of them.  *)
Part ==
    CASE pc = "open" -> 0 [] pc = "queue" -> 1 [] pc = "wait" -> 2 [] pc = "clean" -> 3
      [] OTHER -> 4

(* Every step brings the call nearer to its end: a block is queued, or a   *)
(* read completes, or is seen, or the call goes on, and none of these is   *)
(* undone.  As there are so many blocks, the call returns.                 *)
Advances ==
    [][\/ offset' > offset
       \/ /\ UNCHANGED offset
          /\ LET out == sq \cup inflight IN
             \/ out' \subseteq out /\ out' # out
             \/ out' = out /\ cq' \subseteq cq /\ cq' # cq
             \/ out' = out /\ cq' = cq /\ Part' > Part]_vars
=============================================================================
