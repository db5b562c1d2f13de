--------------------------- MODULE SpliceBroadcast ---------------------------
(***************************************************************************)
(* Mode 3: perform_splice_broadcast (source/Network/broadcastSplice.hpp).  *)
(*                                                                         *)
(* Every output has a pipe.  For each chunk and each output one thread     *)
(* queues a splice from the source file to the pipe (the fill) and, linked *)
(* to it, a splice from the pipe to the output file at the chunk's offset  *)
(* (the drain).  When 512 entries are out, or the file is done, it submits *)
(* and waits for all of them.                                              *)
(*                                                                         *)
(* Bytes are units, and the unit of the source at offset o is the number   *)
(* o; a pipe is the sequence of units in it.  The chains of different      *)
(* chunks are not ordered by the kernel, also those that share a pipe.  A  *)
(* fill blocks while the pipe is full and moves no more than it has room   *)
(* for; a drain blocks while the pipe is empty.  The completion queue is a *)
(* set: what the loop does with its entries commutes.                      *)
(***************************************************************************)
EXTENDS Integers, FiniteSets, IoUring

CONSTANTS
    NumOutputs,    \* output_files.size()
    FileSize,
    ChunkSize,     \* SPLICE_CHUNK_SIZE
    PipeSize,      \* what a pipe holds
    Entries,       \* 512: submission queue entries, and the threshold to submit
    MaxFaults,     \* bound on failing or short operations
    Hole           \* an offset of an output that was not written

ASSUME SpliceAssumption ==
    /\ NumOutputs \in Nat
    /\ FileSize \in Nat
    /\ ChunkSize \in Nat \ {0}
    /\ PipeSize \in Nat \ {0}
    /\ Entries \in Nat \ {0} /\ Entries % 2 = 0
    /\ MaxFaults \in Nat
    /\ Hole \notin Nat

Outputs == 1 .. NumOutputs
Offsets == 0 .. (FileSize - 1)

VARIABLES
    pc,                   \* "prepare", "reap" or "done"
    total_processed,
    expected_cqes,
    total_data_verified,
    sq,                   \* entries prepared and not submitted
    chains,               \* chains the kernel has
    cq,                   \* completions not seen
    pipe,                 \* pipe[d]: the units in the pipe of output d
    content,              \* content[d][o]: the unit of output d at offset o
    succeeded,            \* drains completed for their full length (history)
    dropped,              \* chunks of an output that were never queued (history)
    faults,
    faulted,              \* outputs with a failing or short operation (history)
    gaveUp                \* io_uring_wait_cqe_nr failed (history)

loopVars == <<total_processed, expected_cqes>>
kernelVars == <<chains, pipe, content, succeeded>>
faultVars == <<faults, faulted, gaveUp>>
vars == <<pc, loopVars, total_data_verified, sq, cq, kernelVars, dropped, faultVars>>

-----------------------------------------------------------------------------
(* Mutant: whole chunks only. *)
ChunkWhole == ChunkSize

(* to_splice *)
Chunk ==
    IF FileSize - total_processed < ChunkSize
    THEN FileSize - total_processed ELSE ChunkSize

(* Mutant: the fill without IOSQE_IO_LINK. *)
FillUnlinked(d) ==
    [op |-> "fill", d |-> d, off |-> total_processed, len |-> Chunk, link |-> FALSE]

Fill(d) ==
    [op |-> "fill", d |-> d, off |-> total_processed, len |-> Chunk, link |-> TRUE]

(* Mutant: the drain linked to the next output's fill. *)
DrainLinked(d) ==
    [op |-> "drain", d |-> d, off |-> total_processed, len |-> Chunk, link |-> TRUE]

Drain(d) ==
    [op |-> "drain", d |-> d, off |-> total_processed, len |-> Chunk, link |-> FALSE]

(* Mutant: nothing is submitted before the end of the file. *)
BatchFullAtEnd(expected, processed) == processed >= FileSize

(* The condition of the periodic submission. *)
BatchFull(expected, processed) == expected >= Entries \/ processed >= FileSize

(* The outputs whose pair still finds entries in the ring: the loop over   *)
(* them breaks at the first io_uring_get_sqe that returns NULL.            *)
Queued ==
    LET pairs == (Entries - Len(sq)) \div 2
    IN  {d \in Outputs : d <= pairs}

-----------------------------------------------------------------------------
Init ==
    /\ pc = IF FileSize > 0 THEN "prepare" ELSE "done"
    /\ total_processed = 0 /\ expected_cqes = 0 /\ total_data_verified = 0
    /\ sq = <<>>
    /\ chains = {}
    /\ cq = {}
    /\ pipe = [d \in Outputs |-> <<>>]
    /\ content = [d \in Outputs |-> [o \in Offsets |-> Hole]]
    /\ succeeded = {} /\ dropped = {}
    /\ faults = 0 /\ faulted = {} /\ gaveUp = FALSE

(* Mutant: entries are counted per output, queued or not. *)
PairsCountedAnyway == NumOutputs

(* Pairs added to expected_cqes, two completions each. *)
PairsCounted == Cardinality(Queued)

(* One turn of the outer loop: the pairs of one chunk, and the submission  *)
(* if the batch is full or the file at its end.                            *)
PrepareChunk ==
    LET queue == sq \o [i \in 1 .. 2 * Cardinality(Queued) |->
                          IF i % 2 = 1 THEN Fill((i + 1) \div 2) ELSE Drain(i \div 2)]
    IN
    /\ pc = "prepare"
    /\ expected_cqes' = expected_cqes + 2 * PairsCounted
    /\ total_processed' = total_processed + Chunk
    /\ dropped' = dropped \cup {<<d, total_processed>> : d \in Outputs \ Queued}
    /\ IF BatchFull(expected_cqes', total_processed')
       THEN /\ pc' = "reap"
            /\ sq' = <<>>
            /\ chains' = chains \cup Chains(queue)
       ELSE /\ sq' = queue
            /\ UNCHANGED <<pc, chains>>
    /\ UNCHANGED <<total_data_verified, cq, pipe, content, succeeded, faultVars>>

(* Mutants: completions of fills are not counted; a drain is counted with  *)
(* the length it was packed with.                                          *)
SeenDrains(c) == IF c.op = "drain" THEN 1 ELSE 0
VerifiedPacked(c) == IF c.op = "drain" /\ c.res > 0 THEN c.len ELSE 0

(* What one completion takes off expected_cqes. *)
Seen(c) == 1

(* What it adds to total_data_verified: only drains carry user data. *)
Verified(c) == IF c.op = "drain" /\ c.res > 0 THEN c.res ELSE 0

Reap(c) ==
    /\ pc = "reap"
    /\ expected_cqes > 0
    /\ cq' = cq \ {c}
    /\ expected_cqes' = expected_cqes - Seen(c)
    /\ total_data_verified' = total_data_verified + Verified(c)
    /\ UNCHANGED <<pc, total_processed, sq, kernelVars, dropped, faultVars>>

AfterBatch == pc' = IF total_processed < FileSize THEN "prepare" ELSE "done"

EndBatch ==
    /\ pc = "reap"
    /\ expected_cqes = 0
    /\ AfterBatch
    /\ UNCHANGED <<loopVars, total_data_verified, sq, cq, kernelVars, dropped,
                   faultVars>>

(* io_uring_wait_cqe_nr fails (a signal): the inner loop is left with what *)
(* is still expected; a next batch waits for that too.                     *)
WaitFails ==
    /\ pc = "reap"
    /\ expected_cqes > 0
    /\ faults < MaxFaults
    /\ faults' = faults + 1
    /\ gaveUp' = TRUE
    /\ AfterBatch
    /\ UNCHANGED <<loopVars, total_data_verified, sq, cq, kernelVars, dropped,
                   faulted>>

-----------------------------------------------------------------------------
Completion(e, res) == [op |-> e.op, d |-> e.d, off |-> e.off, len |-> e.len, res |-> res]

Smaller(a, b) == IF a < b THEN a ELSE b

(* What an entry can move at most: not the rest of a full pipe's room, nor *)
(* more than is in the pipe.  0 means it blocks.                           *)
Movable(e) ==
    Smaller(e.len, IF e.op = "fill" THEN PipeSize - Len(pipe[e.d]) ELSE Len(pipe[e.d]))

(* k units move, to the tail of the pipe or from its head to the file. *)
Move(e, k) ==
    IF e.op = "fill"
    THEN /\ pipe' = [pipe EXCEPT ![e.d] = @ \o [i \in 1 .. k |-> e.off + i - 1]]
         /\ UNCHANGED content
    ELSE /\ pipe' = [pipe EXCEPT ![e.d] = SubSeq(@, k + 1, Len(@))]
         /\ content' = [content EXCEPT ![e.d] =
                [o \in Offsets |-> IF o - e.off \in 0 .. (k - 1)
                                   THEN pipe[e.d][o - e.off + 1] ELSE @[o]]]

(* The kernel executes the first entry of a chain: it moves what it can,   *)
(* or by a fault less, or fails (-1).                                      *)
Execute(chain) ==
    LET e == chain[1]
        most == Movable(e)
    IN
    /\ most > 0
    /\ \E k \in -1 .. most :
        /\ k # 0
        /\ IF k = most THEN UNCHANGED faults
                       ELSE faults < MaxFaults /\ faults' = faults + 1
        /\ faulted' = IF k = e.len THEN faulted ELSE faulted \cup {e.d}
        /\ IF k > 0 THEN Move(e, k) ELSE UNCHANGED <<pipe, content>>
        /\ chains' = Advance(chains, chain, k = e.len)
        /\ cq' = cq \cup {Completion(e, k)}
                    \cup {Completion(x, -1) : x \in Severed(chain, k = e.len)}
        /\ succeeded' = IF e.op = "drain" /\ k = e.len
                        THEN succeeded \cup {<<e.d, e.off>>} ELSE succeeded
    /\ UNCHANGED <<pc, loopVars, total_data_verified, sq, dropped, gaveUp>>

Terminated == pc = "done" /\ UNCHANGED vars

Next ==
    \/ PrepareChunk
    \/ \E c \in cq : Reap(c)
    \/ EndBatch \/ WaitFails
    \/ \E chain \in chains : Execute(chain)
    \/ Terminated

Spec == Init /\ [][Next]_vars

(* The program and the kernel go on as long as one of them can. *)
FairSpec == Spec /\ WF_vars(Next)

-----------------------------------------------------------------------------
TypeOK ==
    /\ pc \in {"prepare", "reap", "done"}
    /\ total_processed \in 0 .. FileSize
    /\ expected_cqes \in Nat
    /\ Len(sq) <= Entries
    /\ \A d \in Outputs : pipe[d] \in Seq(Offsets) /\ Len(pipe[d]) <= PipeSize
    /\ content \in [Outputs -> [Offsets -> Offsets \cup {Hole}]]
    /\ faults \in 0 .. MaxFaults

(* The entries submitted that have not completed. *)
InKernel == UNION {{chain[i] : i \in DOMAIN chain} : chain \in chains}

(* The places that the drains which may run next are to write. *)
Ready(d) ==
    {o \in Offsets : \E chain \in chains :
        /\ chain[1].op = "drain" /\ chain[1].d = d
        /\ o \in chain[1].off .. (chain[1].off + chain[1].len - 1)}

(* The loop waits for exactly what is outstanding, also after a batch that *)
(* skipped outputs for want of entries and after a wait that failed: it    *)
(* never waits for a completion that will not come for want of an entry.   *)
ExpectedOutstanding ==
    expected_cqes = Len(sq) + Cardinality(cq) + Cardinality(InKernel)

(* "The kernel does not attempt to drain the pipe until the fill has       *)
(* successfully completed": the drains that may run find all they ask for  *)
(* in the pipe, together, whatever their order and whatever residue failed *)
(* operations have left.  So a drain never blocks and is never short for   *)
(* want of data.                                                           *)
NoStarvedDrain == \A d \in Outputs : Cardinality(Ready(d)) <= Len(pipe[d])

Written(d) == \A o \in Offsets : content[d][o] # Hole

(* The bytes reported are the bytes of the drains: they reach size times   *)
(* outputs only if no output has a hole.                                   *)
TotalMeansNoHole ==
    pc = "done" /\ total_data_verified = FileSize * NumOutputs =>
        \A d \in Outputs : Written(d)

(* A failing or short operation of one output leaves the others whole:     *)
(* when the call returns, an output has no hole unless one of its own      *)
(* operations failed or fell short, or one of its chunks was dropped.      *)
OutputIsolation ==
    pc = "done" /\ ~gaveUp =>
        \A d \in Outputs :
            d \notin faulted /\ (\A off \in Offsets : <<d, off>> \notin dropped) => Written(d)

(* Without failing or short operations the program never waits for a       *)
(* completion that cannot come: some splice has data and room, even when   *)
(* more chunks are in flight than the pipes hold.                          *)
NeverStuck ==
    pc = "reap" /\ expected_cqes > 0 /\ faulted = {} =>
        cq # {} \/ \E chain \in chains : Movable(chain[1]) > 0

(* Where the loop over the chunks stands. *)
Turn == IF pc = "reap" THEN 2 * total_processed - 1 ELSE 2 * total_processed

(* Every step brings the call nearer to its end: the loop goes on, or the  *)
(* kernel completes an entry, or a completion is seen, and none of these   *)
(* is undone.  As there are so many chunks, the call returns or some       *)
(* splice waits for ever.                                                  *)
Advances ==
    [][\/ Turn' > Turn
       \/ /\ UNCHANGED Turn
          /\ \/ InKernel' \subseteq InKernel /\ InKernel' # InKernel
             \/ InKernel' = InKernel /\ cq' \subseteq cq /\ cq' # cq]_vars

(* Every chunk has been queued for every output: the periodic submission   *)
(* "prevents SQE/CQE overflow".                                            *)
NoChunkDropped == dropped = {}

(* A chunk whose completion reports success is the source's chunk, at its  *)
(* place in its output: "track exactly which asynchronous chunk succeeded  *)
(* or failed".                                                             *)
SucceededChunksRight ==
    \A chunk \in succeeded : \A o \in Offsets :
        o \in chunk[2] .. (chunk[2] + ChunkSize - 1) => content[chunk[1]][o] = o

(* If a batch is no more than one chunk, mode 3 keeps the promise made to  *)
(* main, an output being failed if one of its operations failed, and all   *)
(* if waiting did.                                                         *)
Promised == INSTANCE Broadcast WITH
    Outputs <- Outputs, Units <- Offsets,
    held <- [d \in Outputs |-> {o \in Offsets : content[d][o] = o}],
    failed <- {d \in Outputs : gaveUp \/ d \in faulted},
    returned <- pc = "done"

KeepsPromise == Promised!Promise
=============================================================================
