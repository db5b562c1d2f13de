--------------------------- MODULE ReadvBroadcast ---------------------------
(***************************************************************************)
(* Mode 1: perform_readv_broadcast and submit_read_write                   *)
(* (source/IOuring/readv_broadcaster.hpp).                                 *)
(*                                                                         *)
(* A binomial tree of file copies.  Node 0 is the source, node k is        *)
(* output_files[k - 1].  In round r the nodes 0 .. 2^r - 1 each send to    *)
(* the node 2^r above them; the rounds are separated by the barrier that   *)
(* ends an OpenMP parallel loop, and inside a round up to NumThreads       *)
(* copies run at once.  A copy moves the sender's file window by window:   *)
(* preadv into fresh buffers, then pwritev of the same buffers at the same *)
(* offset.                                                                 *)
(*                                                                         *)
(* Bytes are units; the unit of the source at offset o is the number o.    *)
(* An output's unit is the offset it came from, Hole where nothing was     *)
(* written (beyond the end, or a gap that reads as zeros), or Junk where   *)
(* it came from a buffer that was never filled.                            *)
(*                                                                         *)
(* fstat, posix_memalign, preadv and pwritev may fail, and preadv and      *)
(* pwritev may transfer less than was asked, at most MaxFaults times.      *)
(***************************************************************************)
EXTENDS Integers, FiniteSets

CONSTANTS
    NumOutputs,   \* output_files.size()
    FileSize,     \* size of the source, in units
    ChunkSize,    \* CHUNK_SIZE: length of one iovec
    MaxBlocks,    \* MAX_BLOCKS: iovecs of one preadv or pwritev
    NumThreads,   \* num_threads of the parallel loop
    Modulus,      \* 2^64: data_transfer is a size_t
    MaxFaults,    \* bound on failing or short system calls
    Hole, Junk

ASSUME ReadvAssumption ==
    /\ NumOutputs \in Nat
    /\ FileSize \in Nat
    /\ ChunkSize \in Nat \ {0}
    /\ MaxBlocks \in Nat \ {0}
    /\ NumThreads \in Nat \ {0}
    /\ Modulus \in Nat \ {0}
    /\ MaxFaults \in Nat
    /\ Hole \notin Nat
    /\ Junk \notin Nat
    /\ Hole # Junk

TotalNodes == NumOutputs + 1
Nodes == 0 .. NumOutputs
Receivers == 1 .. NumOutputs
Offsets == 0 .. (FileSize - 1)
WindowSize == MaxBlocks * ChunkSize

(* int stride = 1 << round, for the rounds of the loop and one more *)
Strides[r \in 0 .. (TotalNodes + 1)] == IF r = 0 THEN 1 ELSE 2 * Strides[r - 1]

Stride(r) == Strides[r]

(* Mutant: the logarithm rounded down. *)
TotalRoundsFloor ==
    CHOOSE r \in 0 .. TotalNodes :
        Stride(r) <= TotalNodes /\ Stride(r + 1) > TotalNodes

(* std::ceil(std::log2(total_nodes)) *)
TotalRounds ==
    CHOOSE r \in 0 .. TotalNodes :
        /\ Stride(r) >= TotalNodes
        /\ \A s \in 0 .. TotalNodes : s < r => Stride(s) < TotalNodes

VARIABLES
    round,            \* the loop variable of perform_readv_broadcast
    pending,          \* iterations of this round's parallel loop not yet taken
    phase,            \* where each receiver's submit_read_write stands
    file_sz,          \* its local file_sz
    total_processed,  \* its local total_processed
    buf,              \* its iovec buffers, by the offset they will be written at
    content,          \* the files: content[n][o] is the unit of file n at offset o
    size,             \* st_size of each file
    data_transfer,    \* the reduction variable
    faults,           \* failing or short calls so far
    tainted,          \* receivers below a failing or short call (history)
    short             \* some call transferred less than was asked (history)

vars == <<round, pending, phase, file_sz, total_processed, buf, content, size,
          data_transfer, faults, tainted, short>>

copyVars == <<file_sz, total_processed, buf>>

(* Buffers that were freed, or allocated and not yet read into. *)
NoBuffers == [o \in Offsets |-> Junk]

-----------------------------------------------------------------------------
Stopped == round = TotalRounds

Sender(r) == r - Stride(round)

Busy == {r \in Receivers : phase[r] \in {"read", "write"}}

(* Mutant: a signed accumulator. *)
AddSigned(x) == data_transfer' = data_transfer + x

(* data_transfer += x, where x is converted to size_t. *)
Add(x) == data_transfer' = (data_transfer + x) % Modulus

(* A fault is allowed while the bound is not used up. *)
Fault == faults < MaxFaults /\ faults' = faults + 1

-----------------------------------------------------------------------------
(* The window a copy is at: its length, its iovecs and what they cover.    *)
Window(r) ==
    IF file_sz[r] - total_processed[r] < WindowSize
    THEN file_sz[r] - total_processed[r] ELSE WindowSize

(* Mutant: the block count rounded down. *)
BlocksFloor(w) == w \div ChunkSize

Blocks(w) == (w + ChunkSize - 1) \div ChunkSize

IovLen(w, i) ==
    IF w - i * ChunkSize < ChunkSize THEN w - i * ChunkSize ELSE ChunkSize

Covered(w) ==
    {x \in 0 .. (w - 1) :
        /\ x \div ChunkSize < Blocks(w)
        /\ x % ChunkSize < IovLen(w, x \div ChunkSize)}

(* The offsets reached by a call that transfers the first k units. *)
Reached(r, k) ==
    {o \in Offsets : /\ o - total_processed[r] \in Covered(Window(r))
                     /\ o - total_processed[r] < k}

-----------------------------------------------------------------------------
Init ==
    /\ round = 0
    /\ pending = IF TotalRounds > 0 THEN 0 .. (Stride(0) - 1) ELSE {}
    /\ phase = [r \in Receivers |-> "idle"]
    /\ file_sz = [r \in Receivers |-> 0]
    /\ total_processed = [r \in Receivers |-> 0]
    /\ buf = [r \in Receivers |-> NoBuffers]
    /\ content = [n \in Nodes |-> [o \in Offsets |-> IF n = 0 THEN o ELSE Hole]]
    /\ size = [n \in Nodes |-> IF n = 0 THEN FileSize ELSE 0]
    /\ data_transfer = 0
    /\ faults = 0
    /\ tainted = {}
    /\ short = FALSE

(* A thread takes iteration i; there is no node for it to send to. *)
SkipIteration(i) ==
    /\ Cardinality(Busy) < NumThreads
    /\ i + Stride(round) >= TotalNodes
    /\ pending' = pending \ {i}
    /\ UNCHANGED <<round, phase, copyVars, content, size, data_transfer,
                   faults, tainted, short>>

(* A thread takes iteration i and enters submit_read_write, which looks up *)
(* the size of the sender's file: 0 or an error (-1) ends the copy at once,*)
(* with nothing added.                                                     *)
StartCopy(i) ==
    LET r == i + Stride(round) IN
    /\ Cardinality(Busy) < NumThreads
    /\ r < TotalNodes
    /\ pending' = pending \ {i}
    /\ \/ /\ file_sz' = [file_sz EXCEPT ![r] = size[i]]
          /\ tainted' = IF i \in tainted THEN tainted \cup {r} ELSE tainted
          /\ UNCHANGED faults
       \/ /\ Fault
          /\ file_sz' = [file_sz EXCEPT ![r] = -1]
          /\ tainted' = tainted \cup {r}
    /\ phase' = [phase EXCEPT ![r] = IF file_sz'[r] <= 0 THEN "end" ELSE "read"]
    /\ UNCHANGED <<round, total_processed, buf, content, size, data_transfer,
                   short>>

(* Mutant: a failing copy returns the size like a finished one. *)
ReturnedSize(r) == file_sz[r]

(* What a copy returns when one of its calls fails. *)
ReturnedOnError(r) == -1

(* posix_memalign or preadv (phase "read") or pwritev (phase "write")      *)
(* fails: the copy ends at once, and the reduction adds what it returns.   *)
CopyFails(r) ==
    /\ r \in Busy
    /\ Fault
    /\ phase' = [phase EXCEPT ![r] = "end"]
    /\ Add(ReturnedOnError(r))
    /\ tainted' = tainted \cup {r}
    /\ buf' = [buf EXCEPT ![r] = NoBuffers]
    /\ UNCHANGED <<round, pending, file_sz, total_processed, content, size,
                   short>>

(* preadv fills the buffers from the sender's file.  Only a negative       *)
(* result is looked at: after a short read the rest of the buffers is      *)
(* memory that was never written.                                          *)
Preadv(r) ==
    /\ phase[r] = "read"
    /\ \E k \in 0 .. Window(r) :
          /\ IF k = Window(r)
             THEN UNCHANGED <<faults, tainted, short>>
             ELSE Fault /\ short' = TRUE /\ tainted' = tainted \cup {r}
          /\ buf' = [buf EXCEPT ![r] =
                        [o \in Offsets |-> IF o \in Reached(r, k)
                                           THEN content[Sender(r)][o] ELSE Junk]]
    /\ phase' = [phase EXCEPT ![r] = "write"]
    /\ UNCHANGED <<round, pending, file_sz, total_processed, content, size,
                   data_transfer>>

(* pwritev writes the buffers at the same offset; again only a negative    *)
(* result is looked at, and the window counts as done.  The last window    *)
(* ends the copy, which returns the size of the sender's file.             *)
Pwritev(r) ==
    LET next == total_processed[r] + Window(r) IN
    /\ phase[r] = "write"
    /\ \E k \in 0 .. Window(r) :
          /\ IF k = Window(r)
             THEN UNCHANGED <<faults, tainted, short>>
             ELSE Fault /\ short' = TRUE /\ tainted' = tainted \cup {r}
          /\ content' = [content EXCEPT ![r] =
                            [o \in Offsets |-> IF o \in Reached(r, k)
                                               THEN buf[r][o] ELSE @[o]]]
          /\ size' = [size EXCEPT ![r] =
                         IF k > 0 /\ total_processed[r] + k > @
                         THEN total_processed[r] + k ELSE @]
    /\ total_processed' = [total_processed EXCEPT ![r] = next]
    /\ IF next < file_sz[r]
       THEN /\ phase' = [phase EXCEPT ![r] = "read"]
            /\ UNCHANGED data_transfer
       ELSE /\ phase' = [phase EXCEPT ![r] = "end"]
            /\ Add(next)
    /\ buf' = [buf EXCEPT ![r] = NoBuffers]
    /\ UNCHANGED <<round, pending, file_sz>>

(* Mutant: nowait. *)
NoBarrier == TRUE

(* The parallel loop ends when all copies that were started have ended. *)
Barrier == Busy = {}

(* The barrier at the end of the parallel loop, and the next round. *)
NextRound ==
    /\ ~Stopped
    /\ pending = {}
    /\ Barrier
    /\ round' = round + 1
    /\ pending' = IF round' < TotalRounds THEN 0 .. (Stride(round') - 1) ELSE {}
    /\ UNCHANGED <<phase, copyVars, content, size, data_transfer, faults,
                   tainted, short>>

(* perform_readv_broadcast has returned. *)
Terminated == Stopped /\ UNCHANGED vars

Next ==
    \/ \E i \in pending : SkipIteration(i) \/ StartCopy(i)
    \/ \E r \in Receivers : CopyFails(r) \/ Preadv(r) \/ Pwritev(r)
    \/ NextRound
    \/ Terminated

Spec == Init /\ [][Next]_vars

(* A thread that can take an iteration or has a call outstanding goes on.  *)
FairSpec == Spec /\ WF_vars(Next)

-----------------------------------------------------------------------------
(* Types, and the ranges the loop variables keep to. *)
TypeOK ==
    /\ round \in 0 .. TotalRounds
    /\ pending \in SUBSET (0 .. (Stride(round) - 1))
    /\ phase \in [Receivers -> {"idle", "read", "write", "end"}]
    /\ file_sz \in [Receivers -> Nat \cup {-1}]
    /\ total_processed \in [Receivers -> Nat]
    /\ buf \in [Receivers -> [Offsets -> Offsets \cup {Hole, Junk}]]
    /\ content \in [Nodes -> [Offsets -> Offsets \cup {Hole, Junk}]]
    /\ size \in [Nodes -> 0 .. FileSize]
    /\ data_transfer \in 0 .. (Modulus - 1)
    /\ faults \in 0 .. MaxFaults
    /\ tainted \in SUBSET Receivers
    /\ short \in BOOLEAN

Complete(n) == size[n] = FileSize /\ \A o \in Offsets : content[n][o] = o

(* While a thread copies out of a node's file no other thread is writing   *)
(* that file: the barrier between rounds keeps senders and receivers of    *)
(* one parallel loop apart.                                                *)
SenderQuiescent ==
    \A r \in Busy : Sender(r) \notin Busy /\ Sender(r) \in 0 .. (r - 1)

(* Error isolation along the tree: a node whose round is over, and that    *)
(* has no failing or short call on its path from the source, is a complete *)
(* copy, whatever happened to the nodes beside it.                         *)
CleanPathComplete ==
    \A n \in Nodes : n < Stride(round) /\ n \notin tainted => Complete(n)

(* The totals printed at the end agree (data_transfer against file size    *)
(* times outputs) only if no copy ended early: an error return subtracts,  *)
(* a skipped or truncated copy adds less, and neither can be made up for.  *)
(* Short transfers are not among what the totals can show.                 *)
TotalsShowErrors ==
    Stopped /\ ~short /\ data_transfer = (FileSize * NumOutputs) % Modulus
        => \A n \in Receivers : Complete(n)

(* Where the copy to r stands: the steps of its loop go up. *)
Stage(r) ==
    CASE phase[r] = "idle"  -> 0
      [] phase[r] = "read"  -> 2 * total_processed[r] + 1
      [] phase[r] = "write" -> 2 * total_processed[r] + 2
      [] phase[r] = "end"   -> 2 * FileSize + 3

(* Every step brings the call nearer to its end, whatever fails: a round   *)
(* is over, or an iteration taken, or a copy goes on, and none goes back.  *)
(* As there are so many rounds, iterations and windows, the call returns.  *)
Advances ==
    [][\/ round' > round
       \/ round' = round /\ pending' \subseteq pending /\ pending' # pending
       \/ /\ UNCHANGED <<round, pending>>
          /\ \A r \in Receivers : Stage(r)' >= Stage(r)
          /\ \E r \in Receivers : Stage(r)' > Stage(r)]_vars

(* Mode 1 keeps the promise made to main, a node being failed if a fault   *)
(* is on its path from the source: it returns whatever calls fail, and     *)
(* without faults every output is complete.                                *)
Promised == INSTANCE Broadcast WITH
    Outputs <- Receivers, Units <- Offsets, failed <- tainted,
    held <- [r \in Receivers |-> {o \in Offsets : content[r][o] = o}],
    returned <- Stopped

KeepsPromise == Promised!Promise
=============================================================================
