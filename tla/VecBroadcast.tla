---------------------------- MODULE VecBroadcast ----------------------------
(***************************************************************************)
(* Mode 2: perform_uring_broadcast and submit_readV_writeV                 *)
(* (source/IOuring/uring_vec_broadcaster.hpp).                             *)
(*                                                                         *)
(* One thread queues, output by output and window by window, a readv and a *)
(* writev linked to it; the two share a RequestContext, allocated with the *)
(* pair, carried by the writev's user_data and deleted when that one       *)
(* completes.  When all is queued it waits for as many writev completions  *)
(* as there should be windows, a number computed from a size it looked up  *)
(* before the outputs looked it up again.                                  *)
(*                                                                         *)
(* A window of an output is a key <<output, window>>.  The completion      *)
(* queue is a set: what the loop does with its entries commutes.           *)
(***************************************************************************)
EXTENDS Integers, FiniteSets, IoUring

CONSTANTS
    NumOutputs,   \* output_files.size()
    SourceSize,   \* of the source; -1 if it is not a regular file
    Sizes,        \* what looking it up may return: {SourceSize} if it is stable
    WindowSize,   \* WINDOW_SIZE
    Entries,      \* submission queue entries (1024)
    Modulus,      \* 2^64: sizes and counts are size_t
    MaxFaults     \* bound on failing or short operations and failing waits

ASSUME VecAssumption ==
    /\ NumOutputs \in Nat
    /\ SourceSize \in Sizes
    /\ Sizes \subseteq Nat \cup {-1}
    /\ WindowSize \in Nat \ {0}
    /\ Entries \in Nat \ {0} /\ Entries % 2 = 0
    /\ Modulus \in Nat \ {0}
    /\ MaxFaults \in Nat

Outputs == 1 .. NumOutputs
Windows == 0 .. (Modulus \div WindowSize)
Keys == Outputs \X Windows

VARIABLES
    pc,               \* "open", "read", "write" of the submitting loops, "wait", "done"
    sz,               \* perform_uring_broadcast's sz
    dest,             \* the output being submitted
    file_sz,          \* submit_readV_writeV's file_sz
    total_processed,
    sq,               \* entries prepared and not submitted
    chains,           \* chains the kernel has
    cq,               \* completions not seen
    live,             \* contexts allocated and not deleted
    freed,            \* contexts deleted
    filled,           \* contexts whose buffers hold the source's window
    held,             \* windows of the outputs that hold the source's
    junk,             \* windows written from a buffer that was not read or was freed
    completed,
    total_data_out,
    faults,
    faulted,          \* windows one of whose operations failed or fell short (history)
    short,            \* some write fell short (history)
    gaveUp            \* io_uring_wait_cqe failed (history)

submitVars == <<sz, dest, file_sz, total_processed>>
memoryVars == <<live, freed>>
fileVars == <<filled, held, junk>>
countVars == <<completed, total_data_out>>
faultVars == <<faults, faulted, short, gaveUp>>
vars == <<pc, submitVars, sq, chains, cq, memoryVars, fileVars,
          countVars, faultVars>>

-----------------------------------------------------------------------------
(* get_file_size, converted to size_t. *)
Stat(size) == size % Modulus

(* Mutant: a partial last window is not counted. *)
ExpectedFloor == (sz \div WindowSize) * NumOutputs

(* total_expected_completions *)
Expected == (((sz + WindowSize - 1) % Modulus) \div WindowSize) * NumOutputs

Key == <<dest, total_processed \div WindowSize>>

(* bytes_to_process *)
Bytes ==
    IF file_sz - total_processed < WindowSize
    THEN file_sz - total_processed ELSE WindowSize

(* Mutant: no IOSQE_IO_LINK on the readv. *)
ReadEntryUnlinked ==
    [op |-> "readv", key |-> Key, bytes |-> Bytes, ctx |-> FALSE, link |-> FALSE]

(* Mutant: the readv carries the context too. *)
ReadEntryOwning ==
    [op |-> "readv", key |-> Key, bytes |-> Bytes, ctx |-> TRUE, link |-> TRUE]

ReadEntry ==
    [op |-> "readv", key |-> Key, bytes |-> Bytes, ctx |-> FALSE, link |-> TRUE]

WriteEntry ==
    [op |-> "writev", key |-> Key, bytes |-> Bytes, ctx |-> TRUE, link |-> FALSE]

(* Mutant: io_uring_get_sqe is taken to have succeeded. *)
QueueBlindly(e) == sq' = Append(sq, e) /\ UNCHANGED chains

(* io_uring_get_sqe, after an io_uring_submit if there was none left. *)
Queue(e) ==
    IF Len(sq) = Entries
    THEN sq' = <<e>> /\ chains' = chains \cup Chains(sq)
    ELSE sq' = Append(sq, e) /\ UNCHANGED chains

-----------------------------------------------------------------------------
Init ==
    /\ pc = "open"
    /\ \E s \in Sizes : sz = Stat(s)
    /\ dest = 1
    /\ file_sz = 0
    /\ total_processed = 0
    /\ sq = <<>>
    /\ chains = {}
    /\ cq = {}
    /\ live = {} /\ freed = {}
    /\ filled = {} /\ held = {} /\ junk = {}
    /\ completed = 0 /\ total_data_out = 0
    /\ faults = 0 /\ faulted = {} /\ short = FALSE /\ gaveUp = FALSE

(* submit_readV_writeV is entered for the next output; an empty source is  *)
(* returned from at once.                                                  *)
OpenDest ==
    /\ pc = "open"
    /\ dest <= NumOutputs
    /\ \E s \in Sizes : file_sz' = Stat(s)
    /\ total_processed' = 0
    /\ IF file_sz' <= 0 THEN dest' = dest + 1 /\ UNCHANGED pc
                        ELSE pc' = "read" /\ UNCHANGED dest
    /\ UNCHANGED <<sz, sq, chains, cq, memoryVars, fileVars,
                   countVars, faultVars>>

(* A context for the window, and its readv. *)
PrepReadv ==
    /\ pc = "read"
    /\ total_processed < file_sz
    /\ live' = live \cup {Key}
    /\ Queue(ReadEntry)
    /\ pc' = "write"
    /\ UNCHANGED <<submitVars, cq, freed, fileVars, countVars,
                   faultVars>>

PrepWritev ==
    /\ pc = "write"
    /\ Queue(WriteEntry)
    /\ total_processed' = total_processed + Bytes
    /\ pc' = "read"
    /\ UNCHANGED <<sz, dest, file_sz, cq, memoryVars, fileVars,
                   countVars, faultVars>>

(* All windows of the output are queued: the rest is submitted. *)
SubmitRest ==
    /\ pc = "read"
    /\ total_processed >= file_sz
    /\ chains' = chains \cup Chains(sq)
    /\ sq' = <<>>
    /\ dest' = dest + 1
    /\ pc' = "open"
    /\ UNCHANGED <<sz, file_sz, total_processed, cq, memoryVars,
                   fileVars, countVars, faultVars>>

StartWaiting ==
    /\ pc = "open"
    /\ dest > NumOutputs
    /\ pc' = "wait"
    /\ UNCHANGED <<submitVars, sq, chains, cq, memoryVars,
                   fileVars, countVars, faultVars>>

-----------------------------------------------------------------------------
(* Mutants: what the loop does with one completion, on its error path. *)
CountedIfOk(c) == c.ctx /\ c.res = "ok"
FreedIfOk(c) == IF c.ctx /\ c.res = "ok" THEN {c.key} ELSE {}
TransferredAlways(c) == c.bytes

(* completed++ *)
Counted(c) == c.ctx

(* delete ctx *)
Freed(c) == IF c.ctx THEN {c.key} ELSE {}

(* total_data_out += ctx->bytes *)
Transferred(c) == IF c.res = "ok" THEN c.bytes ELSE 0

(* Mutant: the loop is left at the first failing completion. *)
ReapStops(c) ==
    /\ pc = "wait"
    /\ completed < Expected
    /\ cq' = cq \ {c}
    /\ live' = live \ Freed(c)
    /\ freed' = freed \cup Freed(c)
    /\ completed' = IF Counted(c) THEN completed + 1 ELSE completed
    /\ total_data_out' = total_data_out + (IF c.ctx THEN Transferred(c) ELSE 0)
    /\ pc' = IF c.res = "err" THEN "done" ELSE pc
    /\ UNCHANGED <<submitVars, sq, chains, fileVars, faultVars>>

(* One turn of the loop that waits. *)
Reap(c) ==
    /\ pc = "wait"
    /\ completed < Expected
    /\ cq' = cq \ {c}
    /\ live' = live \ Freed(c)
    /\ freed' = freed \cup Freed(c)
    /\ completed' = IF Counted(c) THEN completed + 1 ELSE completed
    /\ total_data_out' = IF c.ctx THEN total_data_out + Transferred(c)
                                  ELSE total_data_out
    /\ UNCHANGED <<pc, submitVars, sq, chains, fileVars, faultVars>>

(* io_uring_wait_cqe fails (a signal): the loop is left. *)
WaitFails ==
    /\ pc = "wait"
    /\ completed < Expected
    /\ faults < MaxFaults
    /\ faults' = faults + 1
    /\ gaveUp' = TRUE
    /\ pc' = "done"
    /\ UNCHANGED <<submitVars, sq, chains, cq, memoryVars,
                   fileVars, countVars, faulted, short>>

Finish ==
    /\ pc = "wait"
    /\ completed >= Expected
    /\ pc' = "done"
    /\ UNCHANGED <<submitVars, sq, chains, cq, memoryVars,
                   fileVars, countVars, faultVars>>

-----------------------------------------------------------------------------
Completion(e, res) ==
    [op |-> e.op, key |-> e.key, ctx |-> e.ctx, bytes |-> e.bytes, res |-> res]

(* The kernel executes the first entry of a chain. *)
Execute(chain) ==
    LET e == chain[1] IN
    \E result \in {"full", "short", "err"} :
        /\ IF result = "full"
           THEN UNCHANGED faultVars
           ELSE /\ faults < MaxFaults
                /\ faults' = faults + 1
                /\ faulted' = faulted \cup {e.key}
                /\ short' = (short \/ (e.op = "writev" /\ result = "short"))
                /\ UNCHANGED gaveUp
        /\ chains' = Advance(chains, chain, result = "full")
        /\ cq' = cq \cup {Completion(e, IF result = "err" THEN "err" ELSE "ok")}
                    \cup {Completion(x, "err") : x \in Severed(chain, result = "full")}
        /\ IF e.op = "readv"
           THEN /\ filled' = IF result = "full" THEN filled \cup {e.key} ELSE filled
                /\ UNCHANGED <<held, junk>>
           ELSE LET good == e.key \in filled \ freed IN
                /\ held' = IF good /\ result = "full" THEN held \cup {e.key} ELSE held
                /\ junk' = IF ~good /\ result # "err" THEN junk \cup {e.key} ELSE junk
                /\ UNCHANGED filled
        /\ UNCHANGED <<pc, submitVars, sq, memoryVars, countVars>>

Terminated == pc = "done" /\ UNCHANGED vars

Next ==
    \/ OpenDest \/ PrepReadv \/ PrepWritev \/ SubmitRest \/ StartWaiting
    \/ \E c \in cq : Reap(c)
    \/ WaitFails \/ Finish
    \/ \E chain \in chains : Execute(chain)
    \/ Terminated

Spec == Init /\ [][Next]_vars

(* The submitting thread and the kernel go on as long as one of them can.  *)
FairSpec == Spec /\ WF_vars(Next)

-----------------------------------------------------------------------------
TypeOK ==
    /\ pc \in {"open", "read", "write", "wait", "done"}
    /\ Len(sq) <= Entries
    /\ dest \in 1 .. (NumOutputs + 1)
    /\ sz \in 0 .. (Modulus - 1) /\ file_sz \in 0 .. (Modulus - 1)
    /\ total_processed \in 0 .. file_sz
    /\ live \subseteq Keys /\ freed \subseteq Keys
    /\ filled \subseteq Keys /\ held \subseteq Keys /\ junk \subseteq Keys
    /\ completed \in 0 .. Expected
    /\ total_data_out \in Nat
    /\ faults \in 0 .. MaxFaults /\ faulted \subseteq Keys

(* The windows of the source as it was first seen. *)
SourceWindows == {w \in Windows : w * WindowSize < SourceSize}

InFlight ==
    {sq[i].key : i \in DOMAIN sq} \cup
        UNION {{chain[i].key : i \in DOMAIN chain} : chain \in chains}

(* "Link read to write": nothing reaches an output from a buffer that its  *)
(* readv has not filled, however the pairs of all outputs interleave and   *)
(* wherever the full queue makes the loop submit.                          *)
OnlyReadDataWritten == junk = {}

(* A context is deleted exactly once, and never while an operation that    *)
(* uses its iovecs is queued or running.                                   *)
FreedContextIdle ==
    /\ live \cap freed = {}
    /\ freed \cap InFlight = {}

(* The call frees every context it allocated, failed operations included,  *)
(* unless waiting itself failed.                                           *)
ContextsFreed == pc = "done" /\ ~gaveUp => live = {}

(* A failed or short operation costs its own window of its own output and  *)
(* no other.                                                               *)
WindowIsolation ==
    pc = "done" /\ ~gaveUp =>
        \A d \in Outputs, w \in SourceWindows :
            <<d, w>> \notin faulted => <<d, w>> \in held

(* The total printed by main reaches size times outputs only if every      *)
(* window arrived or a write was short (which the total does not show).    *)
TotalShowsErrors ==
    pc = "done" /\ ~short /\ total_data_out = SourceSize * NumOutputs =>
        held = Outputs \X SourceWindows

(* "Calculate exact number of windows": the completions waited for, from a *)
(* size looked up before, are the writevs submitted, from sizes looked up  *)
(* output by output.  This needs a source that has a size and keeps it:    *)
(* with -1 in Sizes, or two members, it fails.                             *)
ExactWindows == pc = "wait" => Expected = Cardinality(live \cup freed)

(* The loop never waits for a completion that does not come: as long as    *)
(* one is missing the kernel has an operation to execute, or there are     *)
(* completions to be seen, those of cancelled operations included.         *)
NeverWaitsInVain == pc = "wait" /\ completed < Expected => chains # {} \/ cq # {}

(* The entries submitted that have not completed. *)
InKernel == UNION {{chain[i] : i \in DOMAIN chain} : chain \in chains}

(* Where the loops over the windows of an output stand, and the waiting.   *)
Turn ==
    CASE pc = "open"  -> 0
      [] pc = "read"  -> 2 * total_processed + 1
      [] pc = "write" -> 2 * total_processed + 2
      [] pc = "wait"  -> 1
      [] pc = "done"  -> 2

(* Every step brings the call nearer to its end: the loops go on, or the   *)
(* kernel completes an entry, or a completion is seen, and none of these   *)
(* is undone.  As there are so many outputs and windows, the call returns. *)
Advances ==
    [][\/ dest' > dest
       \/ dest' = dest /\ Turn' > Turn
       \/ /\ UNCHANGED <<dest, Turn>>
          /\ \/ InKernel' \subseteq InKernel /\ InKernel' # InKernel
             \/ InKernel' = InKernel /\ cq' \subseteq cq /\ cq' # cq]_vars

(* Mode 2 keeps the promise made to main, an output being failed if one of *)
(* its operations failed, and all if waiting did: it returns, since the    *)
(* completion of a cancelled writev counts like that of an executed one.   *)
Promised == INSTANCE Broadcast WITH
    Outputs <- Outputs, Units <- SourceWindows,
    held <- [d \in Outputs |-> {w \in SourceWindows : <<d, w>> \in held}],
    failed <- {d \in Outputs : gaveUp \/ \E w \in Windows : <<d, w>> \in faulted},
    returned <- pc = "done"

KeepsPromise == Promised!Promise
=============================================================================
