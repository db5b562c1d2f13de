# Formal models of the broadcaster

This directory holds TLA+ models of the C++ broadcaster in `src/source`: a program
that copies one source file to N output files with one of four engines, and of the
parts around them. The models are checked with TLC on small instances. With TLAPS the
safety of all of them is proved for every instance, and that each engine implements
the abstract broadcast; only liveness rests on the model checker alone.

## The system

`main.cpp` opens the source and N outputs, for modes 3 and 4 also N + 1 FIFOs, and
calls one engine. An engine runs to its end in the calling thread and returns a
number of bytes that main prints. Nothing runs beside the engine except the OpenMP
threads of mode 1 and, for modes 2 to 4, the kernel's execution of io_uring requests.
Nothing is persisted but the FIFOs a killed run leaves behind. The event loop, the
pipe sender, the ring buffer and the MPI broadcast are not called by main.

| Component | State | Operations | Interacts with | Hard behaviour | Correct if |
|---|---|---|---|---|---|
| Mode 1, `IOuring/readv_broadcaster.hpp` | round, per-thread copy loop and buffers, the files | rounds of a binomial tree, window-wise preadv/pwritev | OpenMP threads; the files are its messages | threads reading and writing the same files, failing and short calls in a tree | nobody reads a file that is being written; a fault reaches only nodes below it |
| Mode 2, `IOuring/uring_vec_broadcaster.hpp` | submission queue, request contexts, completions counted | queue linked readv/writev pairs, reap | kernel, asynchronously | full queue in the middle of a pair, context freed by one of two operations, counts computed from two looks at the size | no buffer used unread or freed; all freed; waits for what it submitted |
| Mode 3, `Network/broadcastSplice.hpp` | submission queue, completions expected, a pipe per output | queue linked fill/drain pairs, submit in batches, reap | kernel; pipes shared by chunks | bounded pipes, unordered chunks, residue of failures, queue full in a chunk | every chunk of every output in its place |
| Mode 4, `Network/broadcastTee.hpp` | source pipe, a pipe per output but one | one chain per chunk, submit and wait | kernel; pipes kept from chunk to chunk | a chain is cancelled as a whole, residue, pipes full | pipes empty between chunks, outputs independent |
| Event loop, `Network/broadcaster.hpp` | clients, writes pending, shared buffers | read the input, fan out to the clients, remove dead clients, submit again | kernel | removal of the last client, writes failing in any order, -EAGAIN of a write answered by a read | reading and writing alternate; each client gets each message in order; the loop goes on while clients remain |
| Pipe sender, `Network/sender_pipe.h` | buffers, reads in flight | read a file with many reads in flight | kernel | completions out of order, early exits with reads in flight | every byte counted once, no buffer freed while it is read into |
| Ring buffer, `IOuring/RingBuffer.hpp` | array, head, tail, size | put (overwrites), get, peek | none | wrap-around while full | a queue that drops its oldest |
| File handles, `file_system/IO_Handle.*` | descriptor, name reference | move, close, size | every engine, driver | ownership across moves and failures | each descriptor closed once |
| FIFOs, `file_system/Manage_Pipe.hpp` | path | create, unlink | other processes | runs that were killed, runs that share paths | what a run used is gone when it returns |
| Requests, `Network/Request.*` | type, buffer, file | accessors | none | none | - |
| Driver, `main.cpp` | handles, FIFOs | open, dispatch, return | all | failing half-way in a function with five ways out | every descriptor has one owner; a run fails only by itself |
| MPI broadcast, `mpi/` | none | two collectives | MPI ranks | ranks disagree on root or size | all ranks return the root's string |

`Network/Server.h` is a few socket calls used by nothing, `IOuring/cat_uring_batch*`
are commented out, `openmp/` is empty. What can go wrong in each, with its line, is
the list "hazards" of `PROJECT.json`.

## Modules

`Broadcast` is the abstract specification that all engines share: places of the
source reach each output and are never undone (`Work`), the call returns (`Return`),
and when it does every output that met no failure is complete; only a failed output
may still be written to afterwards (`Late`). `Promise` is this and that the call
does return. Each engine's `KeepsPromise` is this formula under a mapping of its files
to `held` and of its failing operations to `failed`; how far a failure spreads is
the engine's, and the mapping says it: the nodes below it (mode 1), its output (modes
2 and 3), every output (mode 4).

`ReadvBroadcast` (mode 1). `round`, `file_sz`, `total_processed` and `data_transfer`
are the program's variables of these names. Copies are named by their receiver, since a node receives once.
`pending` holds the iterations of the parallel loop that no thread has taken, and
`phase` where each copy stands. Actions: a thread takes an iteration (`SkipIteration`,
`StartCopy`), `Preadv`, `Pwritev`, `CopyFails` for every `return -1`, and `NextRound`,
the loop's barrier. Any thread may take any iteration, so that every OpenMP schedule is
among the behaviours. Allocation, preadv and pwritev of a window are separate steps
of each thread.

`IoUring` is what modes 2 to 4 share of the kernel: cutting a submission into chains
(`Chains`), going on with a chain (`Advance`) or severing it (`Severed`). It models
code outside the repository and follows the documentation of `IOSQE_IO_LINK`: an entry
starts after its predecessor in the chain has succeeded in full, a failure or short
transfer cancels the rest, and chains are not ordered.

`VecBroadcast` (mode 2). `PrepReadv` and `PrepWritev` are the two halves of the
window loop, with the submission a full ring forces (`Queue`); `SubmitRest` ends an
output, `Reap` is a turn of the waiting loop, `WaitFails` its break. `live` and
`freed` are the request contexts, `filled` the buffers that were read. `Execute` is the
kernel. Each look at the source's size may return any member of `Sizes`.

`SpliceBroadcast` (mode 3). `PrepareChunk` is a turn of the outer loop: it queues the
pairs that find room and submits when the batch is full. `Reap`, `EndBatch` and
`WaitFails` are the inner loop. A pipe is a sequence of units, `Execute` moves units
through it, blocks on a full or empty pipe, and may fail or fall short.

`TeeBroadcast` (mode 4). `SubmitChunk` queues and submits the chain of a chunk;
`WaitEnds` and `WaitInterrupted` are the two ways io_uring_submit_and_wait returns,
with the loop over completions.

`EventBroadcaster` (event loop). `outputFDs` and `writes_pending` are the loop's;
`inflight` and `cq` are the requests that the kernel has and has completed. There is one
action per branch of the loop: `SubmitAgain` (-EAGAIN), `RemoveClient` (a write failed,
with the start of the next read), `EndOfInput`, `FanOut`, `WriteDone`, `WaitFails`.
A message is its number. A request keeps the type it was made with, and `call` is the
operation that was prepared for it: a write that is submitted again becomes a read from
the client, into the buffer the other clients are being sent (`ReadClient`, for a
client open for reading) or a failure that removes the client (`RefuseRead`).

`SenderPipe` (pipe sender). The variables are those of `read_file_request`; `sq`,
`inflight` and `cq` are its reads on their way, each named by offset and buffer, and
`held` is what an early return leaves open. `Queue` is a turn of the inner loop,
`Submit` and `See` the rest of the outer one, `OpenFails` and `NoRing` the early ends,
`WaitFails` the use of a completion that was not returned.

`RingBuffer` is the class, one action per method and one for the exceptions;
`DropOldestQueue` is what it promises, with the same interface over a sequence.

`Driver` (`main` with the handles and FIFOs). A process is a record of main's
vectors: descriptors in the order of their handles, the suffixes of its FIFOs, and
`pc`, the part of main it is in. There is one action per call that can fail, and
one per scope left (`DropHandles`, `Unlink`, `Return`); `Becomes` moves a process on. A
move is modelled by what the moved-from handle's destructor then closes
(`MovedFrom`, `Closed`), and a descriptor is the lowest free number, so that closing
twice would close another file. `fifos` is shared by all processes and survives
them; `Kill` ends one anywhere.

The components meet through what they leave to one another: the driver's model has
an engine return or exit, which is all main sees of it, and the engines' models start
from open outputs and empty pipes of their own, which is what `Ownership` and the
exclusive use of a FIFO in `Driver` are about.

Modules `MCReadv`, `MCVec`, `MCSplice`, `MCTee`, `MCEvent`, `MCSender`, `MCRing` and
`MCDriver` instantiate these for TLC. `ReadvBroadcastProofs`, `VecBroadcastProofs`,
`SpliceBroadcastProofs`, `TeeBroadcastProofs`, `EventBroadcasterProofs`,
`SenderPipeProofs` and `DriverProofs` hold the theorems about the module each is
named after, `SharedLemmas` the lemmas that several of them use. The theorems about
`RingBuffer` are the last section of `EventBroadcasterProofs`: the two classes are the
parts of the library that main does not use, and share no name. Definitions named "Mutant"
in a comment are not used by any specification: they are plausible mistakes, each of
which breaks a property when it replaces the definition next to it.

Abstractions. A byte is a unit, and a source's unit is its own offset, so that what
an output holds tells where it came from. A window is four units in mode 1 and two in
mode 2, a chunk two, a pipe two or three chunks, a block of the sender two. The completion queue is a set, since
the loops' treatment of completions commutes. io_uring_submit hands over all entries.
The code's choice of `break` on a failing get_sqe, return value and error path is kept.

## Runs

Expected to pass:

| Run | Question | Bounds |
|---|---|---|
| `readv` | Do the rounds keep readers and writers apart, do faults stay in their subtree and show in the total, does mode 1 keep the promise? | 4 outputs: 3 rounds, the last with one copy; 2 windows, the last of one partial block; 2 threads, so that an iteration waits; 2 faults |
| `vec` | Are buffers and contexts used safely and freed, do faults stay in their window and show in the total, are the windows waited for those that were submitted, does mode 2 keep the promise? | 2 outputs, 2 windows (one partial), a ring of one pair, full before every other pair; 2 faults or failing waits |
| `splice` | With more chunks in flight than a pipe holds, and a ring that chunks do not divide: is what is waited for what is outstanding, can a drain run short or everything block, does one output's failure touch another? | 2 outputs, 4 chunks (one partial), a ring of one chunk and a half, pipes of two chunks, 1 fault or failing wait |
| `splice_one_chunk` | When does mode 3 keep the promise, and what does its total say? | a ring of exactly one chunk of 2 outputs, 2 chunks (one partial), 2 faults or failing waits, pipes that hold what these leave behind |
| `tee` | Are the pipes cleared, what can failures do to data and total, does mode 4 keep the promise? | 2 outputs, 3 chunks (one partial), 2 faults or interrupted waits, pipes that hold what these leave behind |
| `event` | Do reads and writes alternate, who gets which message, and does the loop go on, while clients fail, would block, or answer a read meant as a write? | up to 4 clients (also more than the ring of 3 entries takes), one of them open for reading; 2 messages, so that a second round meets what the first left; 3 faults, so that all but one of the clients of a full ring, or all of a smaller set, can be lost |
| `sender` | Is the file read and counted exactly, when is a buffer private, is one freed while it is read into? | all file sizes up to 11, that is 6 blocks with and without a partial one, twice the 3 buffers; 2 faults |
| `ring` | Is the ring a queue that drops its oldest? | 4 slots, 3 items, any number of calls |
| `driver` | Has every descriptor one owner, is a run disturbed by a killed one or by one in another directory, is what it used gone when it returns? | 2 processes, 3 starts (a killed run, its successor, and one beside them); modes 1, 3 and 4, one and two outputs; 2 faults or kills |

In `splice` the second chunk of each batch finds room for one output only, so
that `OutputIsolation` speaks of output 1 there; `KeepsPromise` in `splice_one_chunk`
says it of both outputs.
Two chunks of output 1 are in flight at a time, after a failing wait four, twice what
its pipe holds.

Expected to be violated; each is a finding in `PROJECT.json`:

| Run | What it shows |
|---|---|
| `splice_dropped` | With 3 outputs a chunk is silently skipped for some of them when the ring is full. |
| `splice_order` | Two chunks in flight swap places in the output, and both completions report success. |
| `tee_deadlock` | Repeated failures of one output fill the source pipe and the call hangs. |

What else the models say of the code, without a run that is kept for it:

- `ExactWindows` holds in `vec` because every look at the source's size gives the same
  number. For a source that has none (-1, converted to size_t) or whose size changes
  between two looks mode 2 waits for a different number of windows than it submits:
  give `Sizes` the value -1, or two values, in `vec.cfg`.
- In mode 4 the chain of a chunk is cancelled behind the first failing operation, for
  all outputs that come after it: its mapping to `Broadcast` therefore counts a fault
  for every output, while modes 2 and 3 count it for the one it met.
- Pipes smaller than a chunk (F_SETPIPE_SZ refused, main.cpp:165): mode 3's first fill of
  an output is short, its drain is cancelled, and the fill of the second chunk waits
  for ever. With `PipeSize` below `ChunkSize` in `splice_one_chunk.cfg`, `KeepsPromise`
  fails without any fault.
- The event loop's writes that would block are submitted as reads. `InOrder` and
  `AllServed` hold up to the first such read that a client answers (`answered`): from
  then on the other clients may be sent what it said.
- The pipe sender gives two reads one buffer as soon as more were queued than there
  are buffers (`DataInPlace` ends there). It only counts what it reads, so that nothing
  wrong is delivered.
- Two runs of the same mode and class of COPIES (1, 2, more) share their FIFOs. What
  `FailsByItself` and `ReturnsClean` promise is promised to runs without such a
  neighbour (`clashed`).

The bounds are small because the interesting cases are: two windows or chunks show
whatever a boundary between them does, two outputs (three where the ring's division
matters, four in the tree) whatever one does to another, two faults the fault that
meets the residue of an earlier one. The size of a pipe decides whether mode 4
returns: each fault may leave a chunk in it, so `tee` gives it room for all of them
and `tee_deadlock` does not.

`CHECK_DEADLOCK FALSE` is set in `event`, whose loop waits for ever when its last
client is gone (`EndsOrWaits` and `Alternation` say that it does so only then or for a
client to talk), and in `splice` and `tee_deadlock`: their pipes are small
enough for the residue of failures to block every splice that is left, and the program
then waits for ever. Nothing else does this: in mode 3 it takes a fault, in mode 4 as many
as leave no room for a chunk (`NeverStuck` of each).

## Fairness

`KeepsPromise` includes that the call returns, and is checked, like `Termination`,
under WF(Next): as long as the program or the kernel can take a step, some step is
taken. No thread, chain or completion is preferred, and no stronger fairness is
needed because every execution has a bounded number of steps: `Advances` says of
the four engines and the sender that each step, also a failing one, takes a loop on, or
an entry from the kernel, or a completion from the queue, and none is undone (proved, see
"That calls return"). The code
justifies WF(Next): its loops have no step that is optional, and the kernel executes what
was submitted and is not blocked.

`EndsOrWaits` of the event loop is checked under WF(Proceed), which leaves out two
actions: a client that is read from need not ever talk (`ReadClient`), and waiting need
not fail (`WaitFails`). Everything else goes on by itself: the input has a next message or
ends, writes complete, and the loop handles what has completed. The other models have
no property that needs fairness.

## Proofs

Every invariant and every action property that a passing run checks is a theorem, for
all values of the constants that satisfy the module's assumption and for every
number of faults. The assumption only says what kind of number each constant is, that a
marker for "nothing" is not a datum, and, for mode 4, that there is an output and the
ring holds a chunk's chain. What a theorem needs beyond that is in its own ASSUME and
named below.

The argument is the same in each module. The checked invariant is not inductive, because
it speaks of what can be seen at the end (an output is complete, a context is freed, a
total is right) and not of where the work is in between. `IInv` says where: for every
window, chunk, client or block, in which queue its request is, and what must be true
there. `Invariance` proves `Spec => []IInv`, one lemma per action, and every other
theorem follows from `IInv`. Counts in the code become cardinalities in the
invariant, so that a counter is right because a set gains or loses one element.

| Module | Theorem | Property | Assumes |
|---|---|---|---|
| `ReadvBroadcastProofs` | `TypeCorrect` | `TypeOK` | |
| | `SendersAtRest` | `SenderQuiescent` | |
| | `ErrorIsolation` | `CleanPathComplete` | |
| | `TotalIsHonest` | `TotalsShowErrors` | (FileSize + 1) * NumOutputs < Modulus |
| | `CallAdvances` | `Advances` | |
| | `ImplementsBroadcast` | `Promised!Safety` | NumOutputs # 0 |
| `VecBroadcastProofs` | `TypeCorrect` | `TypeOK` | |
| | `OnlyReadDataIsWritten` | `OnlyReadDataWritten` | |
| | `FreedContextsAreIdle` | `FreedContextIdle` | |
| | `CountsWindows` | `ExactWindows` | `StableSource` |
| | `FreesContexts` | `ContextsFreed` | `StableSource` |
| | `IsolatesWindows` | `WindowIsolation` | `StableSource` |
| | `TotalIsHonest` | `TotalShowsErrors` | `StableSource` |
| | `CompletionsCome` | `NeverWaitsInVain` | `StableSource` |
| | `CallAdvances` | `Advances` | |
| | `ImplementsBroadcast` | `Promised!Safety` | `StableSource` |
| `SpliceBroadcastProofs` | `TypeCorrect` | `TypeOK` | |
| | `WaitsForOutstanding` | `ExpectedOutstanding` | |
| | `DrainsAreFed` | `NoStarvedDrain` | |
| | `AlwaysGoesOn` | `NeverStuck` | |
| | `OutputsAreIsolated` | `OutputIsolation` | |
| | `TotalIsHonest` | `TotalMeansNoHole` | |
| | `CallAdvances` | `Advances` | |
| | `ImplementsBroadcast` | `Promised!Safety` | `OneChunk`, FileSize > 0 |
| `TeeBroadcastProofs` | `TypeCorrect` | `TypeOK` | |
| | `NothingIsAhead` | `NeverAhead` | |
| | `DrainsAreCleared` | `PipesCleared` | ChunkSize <= PipeSize |
| | `TotalIsHonest` | `TotalShowsErrors` | |
| | `GoesOn` | `NeverStuck` | |
| | `CallAdvances` | `Advances` | |
| | `ImplementsBroadcast` | `Promised!Safety` | ChunkSize <= PipeSize, FileSize > 0 |
| `EventBroadcasterProofs` | `TypeCorrect` | `TypeOK` | |
| | `ReadsAndWritesAlternate` | `Alternation` | |
| | `MessagesInOrder` | `InOrder` | |
| | `EveryClientServed` | `AllServed` | |
| | `RingTypeCorrect` | `RingTypeOK` | |
| | `RingDropsOldest` | `DropsOldest` | |
| `SenderPipeProofs` | `TypeCorrect` | `TypeOK` | |
| | `FirstReadsInPlace` | `DataInPlace` | |
| | `FreesAtRest` | `BuffersAtRest` | |
| | `TotalIsExact` | `TotalExact` | |
| | `CompletionsCome` | `NeverWaitsInVain` | |
| | `CallAdvances` | `Advances` | |
| `DriverProofs` | `TypeCorrect` | `TypeOK` | |
| | `DescriptorsHaveOneOwner` | `Ownership` | |
| | `RunsFailByThemselves` | `FailsByItself` | |
| | `RunsReturnClean` | `ReturnsClean` | |

What the assumptions mean in the program:

- Mode 1 without outputs: the loop over rounds is empty and the call has returned in
  its first state, which `Broadcast` does not allow. `main` requires COPIES but would
  take 0.
- Mode 1's total is a size_t, `Modulus` is 2^64. If sizes add up to more than that, the
  sum of a run with holes may wrap round to the one expected.
- `StableSource` (mode 2): every look at the source's size gives the same number, and
  rounding it up to windows does not overflow. The types, and that no buffer is used
  unread or freed, are proved without it.
- `OneChunk` (mode 3): a batch is one chunk of every output, that is, a ring of exactly
  2 * NumOutputs entries, or one no smaller and a file of one chunk. Otherwise chunks may
  be dropped or swap places (`splice_dropped`, `splice_order`), and the promise is false.
- ChunkSize <= PipeSize (mode 4): F_SETPIPE_SZ was granted (main.cpp:165).
- An empty file: modes 3 and 4 return before doing anything, again a first state that
  `Broadcast` does not allow.

### That calls return

That a call returns under fairness is beyond the prover, but what it rests on is not.
One half is that steps cannot go round in circles: `Advances`, the theorems
`CallAdvances`. The other is that there is a step while the call has not returned, which
is hard only where the program waits: for completions (`NeverWaitsInVain`, the theorems
`CompletionsCome`) and, through pipes of a bounded size, for splices (`NeverStuck`,
the theorems `AlwaysGoesOn` and `GoesOn`). Both are proved for every size and, but for
`AlwaysGoesOn`, with faults. In mode 1 nothing waits for anything but the barrier, whose
condition is that every copy has ended. What is left to TLC is the conclusion from the
two: it is what `KeepsPromise` and the search for deadlocks check in `readv`, `vec`,
`splice_one_chunk`, `tee` and `sender`. The runs therefore do not list `Advances`,
`NeverWaitsInVain` and mode 4's `NeverStuck` beside it; added to `readv.cfg`, `vec.cfg`,
`splice.cfg`, `tee.cfg` or `sender.cfg` they hold there, as the theorems say.

`CallAdvances` needs that no loop handles an empty window, chunk or block (a last partial one
rounded down would make it go on for ever), and for modes 2 to 4 that executing an entry
takes one or more entries from the kernel and gives none back. `CompletionsCome` is
counting: the contexts that the loop of mode 2 has not freed are as many as the
completions it still expects, and each is in a chain or in the completion queue, as
nothing stays in the submission queue (`Flushed`); `idx` of the sender is the number of
reads out.

### Mode 1

`IInv` adds to the types where each receiver stands in the round. What keeps senders at
rest is that receivers below the stride have ended, those from twice the stride have not
begun, and those between wait exactly while their iteration is pending (`Schedule`);
only with that can the barrier double the stride. CleanPathComplete needs to know what a
copy that met no fault has done: `Copying` says that its file is the sender's up to
`total_processed` and that its buffers hold the window, `Ended` that a finished one is a
copy. `CoveredAll` shows that the iovecs of a window cover it, for every window and
chunk size. `OwnPart` is the frame argument: a step of one copy disturbs only its own
part of the invariant.

The total is a sum over threads that end in any order. `Balanced` says what it is the
sum of, up to a multiple of the modulus: one for each unit of each copy that came to the
end of the file it saw, less one for each copy that returned -1. `Prefixes` says that
without short transfers such a file is no longer than its sender's. A sum of exactly
size times outputs then leaves no room for a copy that is missing or short
(`SumStep` and `Wraps`).

A stride is a power of two, which the model defines as a function by recursion
(`Strides`). That the function exists up to any round and doubles there (`Doubling`,
`DoublingExists`), and that so some number of rounds reaches every node
(`StrideFacts`), is proved by `Induction`: this is stated for a set of numbers, not for a
predicate, and follows from `LeastNumber`.

### Mode 2

`IInv` has a place for each live context: the submission queue (`SqShape`, pairs of a
read and the write behind it), the kernel (`ChainShape`, the pair or only its write) or the
completion queue (`CqShape`), one place only (`OnePlace`), and windows are issued in
order (`IssueOrder`). A write that is first in its chain stands behind a read that
succeeded, so its buffer is filled. A context is freed when its write's completion is
reaped, and `completed` is the number of contexts freed. `StableInv` adds that the sizes
seen agree, that every window before the one at hand was issued, what each outcome left
in the outputs, and what the total is the sum of; the windows waited for are then all
windows, so that returning means that all contexts are freed.

### Mode 3

`IInv` says in which one place the pair of an output and a chunk is (`Queues`,
`Completed`), that what is waited for is the sum of the three queues (`Counts`), how the
loop has covered outputs and chunks (`Covered`, `Progress`) and what the total counts
(`Total`). `InPipe` is the counting invariant: a pipe holds at least the units that the
drains ready to run ask for, and exactly those if its output met no fault, whatever the
order of the chains. `AlwaysGoesOn` needs the exact part: if a drain is ready its pipe has
data for it; if none is, the pipe is empty and any fill finds room. It needs no
assumption on the sizes of pipe and chunk, since a short transfer counts as a fault here.
`OneInv` (one chunk per batch) adds that the chunk under way is alone in its pipe and that
what is written is right.

To be reasoned about, `Ready(d)` is a set of units in `SpliceBroadcast` (the offsets
that the ready drains of an output will take) and not a sum over chains.

### Mode 4

A chain is named by its chunk's start and the number of its entries that were executed
(`Suffix`). `Shape` says that at most one chain is under way and that it is the rest of
the chain of the last chunk queued. `Behind` carries NeverAhead through the pipes:
nothing in a pipe is ahead of its place there. `Clean` says exactly what each pipe holds
at each position of the chain, and that every place passed is right; `Conditions`, which
`PipeInvariance` proves, that an uninterrupted run without short transfers is clean or
has lost a whole chunk in its last output, and that with pipes of a chunk only faults end
cleanliness. The total needs the first half, for every size of pipe: a lost chunk is
missing from the total, since the counted completions are matched with places written,
no place twice (`MovedUnit`, `MovedOnce`). `GoesOn` rests on three facts: the pipe an entry
takes from was fed (`Fed`); a fault leaves at most a chunk in each pipe, so that there is
room for the one under way (`Spare`); and each entry of the chain has completed or is
still to come (`Reported`). `MovedBy` counts what a completion adds as a
number of units for this reason.

### Event loop, sender, ring

`OnePerFile`: each file has one request out at most. `Phase`: the input is alone, or only
clients have requests, and `writes_pending` is their number. So the last write
done is the point where the input is read again. `Data` says who has been sent what: a
client is behind by one message exactly while its write is not done (`Behind`).

The sender's `IInv` says of each block whose turn has passed that its read is in one
place or was seen (`InOnePlace`, `Passed`), that `idx` is the number of reads that are out
(`Queued`), and that `total_read` is the number of bytes of the blocks seen, or less if
a fault has shown (`Total`): an exact sum over reads that complete in any order.

For the ring: up to twice its divisor a remainder is one subtraction (`ModOnce`), so that
`At` says without it where the i-th item from a slot on is. Writing at the slot
behind the last item appends (`WriteAppends`); moving on by a slot drops the first
(`MoveDrops`). A put into a full ring is both: its head is at its tail, which by
`RingTypeOK` is the slot behind the last item that stays.

### Driver

`Sound` says what a process holds in each part of main, of its record alone, so that
each action needs one lemma about one record and none about the others. `Owned` is
stronger than `Ownership`: no descriptor is in two vectors or twice in one, the source's
is in none, and the open ones are those in the vectors and the source's. It has to except the
unassigned descriptor, which a failing dup leaves among the reading handles, and to say
that the source of a running process is not it. `LowestFreeIsFree` is a counting
argument: n + 1 numbers do not fit into a set of n. A moved-from handle closes nothing,
so that what is appended to a vector is all that is new.

What processes do to one another is `Overlap`, that two running processes of one
directory are both marked as clashed, and `Linked`, that the FIFO about to be opened by one
not marked is there and those it has unlinked are gone. `Moves` is the frame argument: a
step of one process that touches FIFOs of its own directory only keeps both for all
others. `StartKeeps` is the one step that marks others. `FailsByItself` then is `Excused`: an
open fails by itself only if the FIFO is gone, which `Linked` excludes for an unmarked run.
The FIFOs that killed runs left may be there or not; nothing in the invariant depends
on it, which is why a run does not either.

### Only model-checked

Liveness, which is out of the prover's reach: that an engine returns (the last part of
`KeepsPromise`), `Termination` and `EndsOrWaits`. The theorems `ImplementsBroadcast`
state the rest of `KeepsPromise`, and `CallAdvances`, `CompletionsCome`, `AlwaysGoesOn` and
`GoesOn` what its last part rests on.

## Plan

1. Done: the abstract specification, the four engines, the event loop, the pipe sender,
   the ring buffer, the driver with its handles and FIFOs; the safety of all of
   them, the engines' refinements of `Broadcast`, and what their termination rests on,
   proved.
2. If more is to be proved: mode 3's right data without `OneChunk` when the order of
   chains is the order of chunks.
3. If the models are extended again: the MPI broadcast with ranks that disagree on the
   root, a failing io_uring_submit in modes 2 and 3, pipes smaller than a chunk as a
   run of its own.

## Not modelled

- Not state of the program: wording of messages, timing and throughput, `print_stats`,
  the check of argc.
- Failures left out: memory exhaustion (posix_memalign's error return is modelled in mode
  1 and in the sender, a throwing `new` in mode 2 is not), a failing io_uring_submit, a
  directory that cannot be created, a negative COPIES (`reserve` throws).
- Inputs left out, all of which main allows: calls without outputs, and rings in which
  a chain does not fit (mode 4 with more than 512 outputs).
- Code that nothing calls: `prepare_splice` of mode 3; `pack_data`, `prepare_tee`,
  `prepare_splice` and `process_cqes` of mode 4, and with them `Request.hpp` (whose
  `getFile` returns the handle converted by its operator bool, 0 or 1); move assignment and the name
  reference of a handle; `get_system_pipe_limit`, `GetFileSize`, `close_uring`,
  `Network/Server.h`.
- Code that is commented out: `IOuring/cat_uring_batch*`, the second
  `perform_tee_broadcast`. These and the dead code above are most of the lines that no
  definition stands for.
- The MPI broadcast: two collective calls in a row, with the same root on every rank,
  that nothing links.
