---------------------------- MODULE TeeBroadcast ----------------------------
(***************************************************************************)
(* Mode 4: perform_tee_broadcast (source/Network/broadcastTee.hpp).        *)
(*                                                                         *)
(* Chunk by chunk one thread queues a single chain: the source file is     *)
(* spliced into the source pipe; for every output but the last the source  *)
(* pipe is teed into the output's pipe and that pipe spliced into the      *)
(* output file; the source pipe is spliced into the last output file,      *)
(* which empties it.  It submits the chain and waits for as many           *)
(* completions as the chain has entries.                                   *)
(*                                                                         *)
(* Bytes are units, and the unit of the source at offset o is the number   *)
(* o.  A tee copies from the head of its input without consuming it.       *)
(* Operations block while their input pipe is empty or their output pipe   *)
(* full, and move no more than there is and than fits.                     *)
(***************************************************************************)
EXTENDS Integers, FiniteSets, IoUring

CONSTANTS
    NumOutputs,    \* output_files.size()
    FileSize,
    ChunkSize,     \* CHUNK_SIZE
    PipeSize,      \* what a pipe holds
    Entries,       \* submission queue entries (1024)
    MaxFaults,     \* bound on failing or short operations and interrupted waits
    Hole           \* an offset of an output that was not written

(* The loop stops one short of output_files.size() and does not look at    *)
(* what io_uring_get_sqe returns: there is an output, and a chain fits the *)
(* ring.                                                                   *)
ASSUME TeeAssumption ==
    /\ NumOutputs \in Nat \ {0}
    /\ FileSize \in Nat
    /\ ChunkSize \in Nat \ {0}
    /\ PipeSize \in Nat \ {0}
    /\ Entries \in Nat /\ 2 * NumOutputs <= Entries
    /\ MaxFaults \in Nat
    /\ Hole \notin Nat

Outputs == 1 .. NumOutputs
Offsets == 0 .. (FileSize - 1)

(* The source pipe, and the pipes of the outputs but the last. *)
Pipes == 0 .. (NumOutputs - 1)

VARIABLES
    pc,                  \* "prepare", "wait" or "done"
    total_processed,
    total_data_moved,
    chains,              \* chains the kernel has
    cq,                  \* completions not seen
    pipe,                \* pipe[i]: the units in it
    content,             \* content[d][o]: the unit of output d at offset o
    faults,
    short,               \* a write to an output fell short (history)
    interrupted          \* a wait ended early (history)

faultVars == <<faults, short, interrupted>>
vars == <<pc, total_processed, total_data_moved, chains, cq, pipe, content, faultVars>>

-----------------------------------------------------------------------------
(* Mutant: whole chunks only. *)
ChunkWhole == ChunkSize

(* to_process *)
Chunk ==
    IF FileSize - total_processed < ChunkSize
    THEN FileSize - total_processed ELSE ChunkSize

(* d is the output the entry works for; the source splice works for all, 0. *)
Entry(op, d) ==
    [op |-> op, d |-> d, off |-> total_processed, len |-> Chunk, link |-> op # "last"]

(* Mutant: the source offset is advanced before it is used. *)
SourceEntryAhead == [Entry("source", 0) EXCEPT !.off = @ + Chunk]

SourceEntry == Entry("source", 0)

(* Mutant: the last splice leaves one unit behind. *)
LastEntryShort == [Entry("last", NumOutputs) EXCEPT !.len = @ - 1]

LastEntry == Entry("last", NumOutputs)

(* The chain of one chunk: source, (tee, drain) per output but one, last. *)
ChunkChain ==
    [j \in 1 .. 2 * NumOutputs |->
        IF j = 1 THEN SourceEntry
        ELSE IF j = 2 * NumOutputs THEN LastEntry
        ELSE IF j % 2 = 0 THEN Entry("tee", j \div 2)
        ELSE Entry("drain", j \div 2)]

-----------------------------------------------------------------------------
Init ==
    /\ pc = IF FileSize > 0 THEN "prepare" ELSE "done"
    /\ total_processed = 0 /\ total_data_moved = 0
    /\ chains = {}
    /\ cq = {}
    /\ pipe = [i \in Pipes |-> <<>>]
    /\ content = [d \in Outputs |-> [o \in Offsets |-> Hole]]
    /\ faults = 0 /\ short = FALSE /\ interrupted = FALSE

(* The chain of the next chunk is queued and submitted. *)
SubmitChunk ==
    /\ pc = "prepare"
    /\ chains' = chains \cup Chains(ChunkChain)
    /\ total_processed' = total_processed + Chunk
    /\ pc' = "wait"
    /\ UNCHANGED <<total_data_moved, cq, pipe, content, faultVars>>

(* Mutant: failed completions are counted too. *)
MovedAlways(c) == IF c.op \in {"drain", "last"} THEN c.len ELSE 0

(* What one completion adds to total_data_moved: the length it was packed  *)
(* with, whatever was moved.                                               *)
Moved(c) == IF c.op \in {"drain", "last"} /\ c.res >= 0 THEN c.len ELSE 0

(* What all of them add, counted unit by unit. *)
MovedBy(completions) ==
    Cardinality({u \in completions \X (1 .. ChunkSize) : u[2] <= Moved(u[1])})

(* Mutant: one completion more than was submitted is waited for. *)
AwaitedTooMany == 2 * NumOutputs + 1

(* submissions *)
Awaited == 2 * NumOutputs

(* All completions there are are seen; then the next chunk, or the end. *)
SeeCompletions ==
    /\ total_data_moved' = total_data_moved + MovedBy(cq)
    /\ cq' = {}
    /\ pc' = IF total_processed < FileSize THEN "prepare" ELSE "done"
    /\ UNCHANGED <<total_processed, chains, pipe, content>>

(* io_uring_submit_and_wait returns with what it waited for ... *)
WaitEnds ==
    /\ pc = "wait"
    /\ Cardinality(cq) >= Awaited
    /\ SeeCompletions
    /\ UNCHANGED faultVars

(* ... or early, by a signal, which nobody looks at. *)
WaitInterrupted ==
    /\ pc = "wait"
    /\ Cardinality(cq) < Awaited
    /\ faults < MaxFaults
    /\ faults' = faults + 1
    /\ interrupted' = TRUE
    /\ SeeCompletions
    /\ UNCHANGED short

-----------------------------------------------------------------------------
Completion(e, res) == [op |-> e.op, d |-> e.d, off |-> e.off, len |-> e.len, res |-> res]

Input(e) == IF e.op = "drain" THEN e.d ELSE 0
Output(e) == IF e.op = "tee" THEN e.d ELSE 0

(* What an entry can move at most; 0 means it blocks. *)
Movable(e) ==
    LET there == IF e.op = "source" THEN e.len ELSE Len(pipe[Input(e)])
        room == IF e.op \in {"source", "tee"} THEN PipeSize - Len(pipe[Output(e)])
                                              ELSE e.len
    IN  CHOOSE m \in {e.len, there, room} : m <= e.len /\ m <= there /\ m <= room

(* k units move: into the source pipe, by reference into an output's pipe, *)
(* or from the head of a pipe to the output's file at the chunk's offset.  *)
Move(e, k) ==
    \/ /\ e.op = "source"
       /\ pipe' = [pipe EXCEPT ![0] = @ \o [i \in 1 .. k |-> e.off + i - 1]]
       /\ UNCHANGED content
    \/ /\ e.op = "tee"
       /\ pipe' = [pipe EXCEPT ![e.d] = @ \o SubSeq(pipe[0], 1, k)]
       /\ UNCHANGED content
    \/ /\ e.op \in {"drain", "last"}
       /\ pipe' = [pipe EXCEPT ![Input(e)] = SubSeq(@, k + 1, Len(@))]
       /\ content' = [content EXCEPT ![e.d] =
              [o \in Offsets |-> IF o - e.off \in 0 .. (k - 1)
                                 THEN pipe[Input(e)][o - e.off + 1] ELSE @[o]]]

(* The kernel executes the first entry of a chain: it moves what it can,   *)
(* or by a fault less, or fails (-1).                                      *)
Execute(chain) ==
    LET e == chain[1]
        most == Movable(e)
    IN
    /\ most > 0
    /\ \E k \in -1 .. most :
        /\ k # 0
        /\ IF k = most
           THEN UNCHANGED faultVars
           ELSE /\ faults < MaxFaults
                /\ faults' = faults + 1
                /\ short' = (short \/ (k > 0 /\ e.op \in {"drain", "last"}))
                /\ UNCHANGED interrupted
        /\ IF k > 0 THEN Move(e, k) ELSE UNCHANGED <<pipe, content>>
        /\ chains' = Advance(chains, chain, k = e.len)
        /\ cq' = cq \cup {Completion(e, k)}
                    \cup {Completion(x, -1) : x \in Severed(chain, k = e.len)}
    /\ UNCHANGED <<pc, total_processed, total_data_moved>>

Terminated == pc = "done" /\ UNCHANGED vars

Next ==
    \/ SubmitChunk \/ WaitEnds \/ WaitInterrupted
    \/ \E chain \in chains : Execute(chain)
    \/ Terminated

Spec == Init /\ [][Next]_vars

(* The program and the kernel go on as long as one of them can. *)
FairSpec == Spec /\ WF_vars(Next)

-----------------------------------------------------------------------------
TypeOK ==
    /\ pc \in {"prepare", "wait", "done"}
    /\ total_processed \in 0 .. FileSize
    /\ total_data_moved \in Nat
    /\ \A i \in Pipes : pipe[i] \in Seq(Offsets) /\ Len(pipe[i]) <= PipeSize
    /\ content \in [Outputs -> [Offsets -> Offsets \cup {Hole}]]
    /\ faults \in 0 .. MaxFaults

Complete(d) == \A o \in Offsets : content[d][o] = o

(* The "terminal consumption splice" clears the drain: unless something    *)
(* failed no pipe holds anything of a chunk when the next one is queued.   *)
PipesCleared ==
    pc = "prepare" /\ faults = 0 => \A i \in Pipes : pipe[i] = <<>>

(* What failures leave in the pipes shifts the data behind it: an output   *)
(* may hold at an offset data of an earlier one, never of a later one.     *)
NeverAhead ==
    ~interrupted =>
        \A d \in Outputs, o \in Offsets :
            content[d][o] # Hole => content[d][o] <= o

(* The total reaches size times outputs only if every output is a copy or  *)
(* a write was short (which the total does not show).                      *)
TotalShowsErrors ==
    pc = "done" /\ ~short /\ ~interrupted
            /\ total_data_moved = FileSize * NumOutputs =>
        \A d \in Outputs : Complete(d)

(* The program never waits for a splice that cannot go on, as long as the  *)
(* pipes have room for a chunk beside those that faults have left in them. *)
NeverStuck ==
    pc = "wait" /\ ~interrupted /\ ChunkSize * (faults + 1) <= PipeSize =>
        Cardinality(cq) >= Awaited \/ \E chain \in chains : Movable(chain[1]) > 0

(* The entries submitted that have not completed. *)
InKernel == UNION {{chain[i] : i \in DOMAIN chain} : chain \in chains}

(* Where the loop over the chunks stands. *)
Turn == IF pc = "wait" THEN 2 * total_processed - 1 ELSE 2 * total_processed

(* Every step brings the call nearer to its end: the loop goes on, or the  *)
(* kernel completes an entry, and neither is undone.  As there are so many *)
(* chunks, the call returns or some splice waits for ever.                 *)
Advances ==
    [][\/ Turn' > Turn
       \/ UNCHANGED Turn /\ InKernel' \subseteq InKernel /\ InKernel' # InKernel]_vars

(* The call returns: no operation waits for ever on a pipe. *)
Termination == <>(pc = "done")

(* Mode 4 keeps the promise made to main, all outputs being failed if any  *)
(* operation failed: it returns while the pipes have room for the chunks   *)
(* that failures leave in them, and without failures the outputs are       *)
(* complete.                                                               *)
Promised == INSTANCE Broadcast WITH
    Outputs <- Outputs, Units <- Offsets,
    held <- [d \in Outputs |-> {o \in Offsets : content[d][o] = o}],
    failed <- {d \in Outputs : faults > 0},
    returned <- pc = "done"

KeepsPromise == Promised!Promise
=============================================================================
