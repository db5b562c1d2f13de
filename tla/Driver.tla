------------------------------- MODULE Driver -------------------------------
(***************************************************************************)
(* main (source/main.cpp) with its file handles (file_system/IO_Handle)    *)
(* and FIFOs (file_system/Manage_Pipe.hpp), for several processes in one   *)
(* directory tree.                                                         *)
(*                                                                         *)
(* A run opens the source and the outputs, for modes above 2 also COPIES+1 *)
(* FIFOs, each twice (open and dup), calls an engine and leaves: by        *)
(* returning, which destroys what was built, by exit, which does not, or   *)
(* killed.  FIFOs are files: those of a run that did not return are there  *)
(* when the next run makes its own, which accepts them.  Their paths name  *)
(* mode and class of COPIES only, so that two runs may share them.         *)
(*                                                                         *)
(* The engines are modelled in modules of their own: here one returns, or  *)
(* exits.  A descriptor is the lowest free number, from 1 on.              *)
(***************************************************************************)
EXTENDS Integers, Sequences, FiniteSets, Functions

CONSTANTS
    Procs,
    Jobs,         \* the command lines: [mode : Int, copies : Nat]
    MaxRuns,      \* bound on the starts of all processes
    MaxFaults     \* bound on failing calls and killed processes

ASSUME DriverAssumption ==
    /\ IsFiniteSet(Procs)
    /\ Jobs \subseteq [mode : Int, copies : Nat]
    /\ MaxRuns \in Nat /\ MaxFaults \in Nat

unassigned_fd == -1

VARIABLES
    proc,      \* the processes
    fifos,     \* the FIFOs that exist: <<directory, suffix>>
    runs,      \* starts so far
    faults

vars == <<proc, fifos, runs, faults>>

-----------------------------------------------------------------------------
Class(job) ==
    IF job.copies = 1 THEN "Single" ELSE IF job.copies = 2 THEN "Dual" ELSE "Multi"

(* Mutant: the directory does not name the mode. *)
DirOfClass(job) == <<0, Class(job)>>

(* dir *)
Dir(job) == <<job.mode, Class(job)>>

(* ManagedPipe::path *)
Path(job, i) == <<Dir(job), i>>

NoJob == [mode |-> 0, copies |-> 0]

(* A process that is not there.  files, w and r are the handles in         *)
(* destination_fds and the writing and reading ones of the FIFOs, input    *)
(* first; storage the suffixes in pipe_storage; made those of the run.     *)
Gone(result) ==
    [pc |-> "idle", job |-> NoJob, open |-> {}, source |-> unassigned_fd,
     files |-> <<>>, w |-> <<>>, r |-> <<>>, storage |-> {}, made |-> {},
     result |-> result, faulted |-> FALSE, clashed |-> FALSE]

Init ==
    /\ proc = [p \in Procs |-> Gone("none")]
    /\ fifos = {}
    /\ runs = 0 /\ faults = 0

Running == {p \in Procs : proc[p].pc # "idle"}

LowestFree(open) ==
    CHOOSE n \in 1 .. (Cardinality(open) + 1) :
        n \notin open /\ \A m \in 1 .. (n - 1) : m \in open

(* Mutant: the moved handle keeps its descriptor. *)
MovedFromKeeps(fd) == fd

(* What a move leaves in the handle that is moved from. *)
MovedFrom(fd) == unassigned_fd

(* What the destructor of a handle closes. *)
Closed(fd) == IF fd = unassigned_fd THEN {} ELSE {fd}

(* The process goes on with some fields changed. *)
Becomes(p, s) == proc' = [proc EXCEPT ![p] = s]

Fault == faults < MaxFaults /\ faults' = faults + 1

-----------------------------------------------------------------------------
(* The source is opened, the directory created.  Runs of the same mode and *)
(* class that are under way at a time are noted (history).                 *)
Start(p) ==
    /\ proc[p].pc = "idle"
    /\ runs < MaxRuns
    /\ runs' = runs + 1
    /\ \E job \in Jobs :
        LET others == {q \in Running : /\ proc[q].job.mode = job.mode
                                       /\ Class(proc[q].job) = Class(job)} IN
        proc' = [q \in Procs |->
            IF q = p THEN [Gone("none") EXCEPT
                               !.pc = "outputs", !.job = job, !.open = {1},
                               !.source = 1, !.clashed = others # {}]
            ELSE IF q \in others THEN [proc[q] EXCEPT !.clashed = TRUE]
            ELSE proc[q]]
    /\ UNCHANGED <<fifos, faults>>

(* The source cannot be opened: EBADFD is returned. *)
NoSource(p) ==
    /\ proc[p].pc = "idle"
    /\ runs < MaxRuns
    /\ runs' = runs + 1
    /\ Fault
    /\ Becomes(p, [Gone("error") EXCEPT !.faulted = TRUE])
    /\ UNCHANGED fifos

(* Mutant: one output more than COPIES. *)
MoreOutputsByOne(s) == Len(s.files) <= s.job.copies

MoreOutputs(s) == Len(s.files) < s.job.copies

(* A local handle is moved into the vector and destroyed. *)
OpenOutput(p) ==
    LET s == proc[p]
        fd == LowestFree(s.open)
    IN
    /\ s.pc = "outputs"
    /\ MoreOutputs(s)
    /\ Becomes(p, [s EXCEPT !.open = (@ \cup {fd}) \ Closed(MovedFrom(fd)),
                            !.files = Append(@, fd)])
    /\ UNCHANGED <<fifos, runs, faults>>

(* exit(EIO) *)
OutputFails(p) ==
    /\ proc[p].pc = "outputs"
    /\ MoreOutputs(proc[p])
    /\ Fault
    /\ Becomes(p, [Gone("exited") EXCEPT !.faulted = TRUE])
    /\ UNCHANGED <<fifos, runs>>

(* Other modes than 1 to 4 and up do nothing. *)
Dispatch(p) ==
    LET s == proc[p] IN
    /\ s.pc = "outputs"
    /\ ~MoreOutputs(s)
    /\ Becomes(p, [s EXCEPT !.pc = IF s.job.mode > 2 THEN "make"
                                   ELSE IF s.job.mode \in {1, 2} THEN "engine"
                                   ELSE "close"])
    /\ UNCHANGED <<fifos, runs, faults>>

-----------------------------------------------------------------------------
(* Scopes are left: handles are closed, FIFOs unlinked. *)
Unwinds(p, s) == Becomes(p, [s EXCEPT !.pc = "drop", !.result = "error"])

(* Mutant: a FIFO that exists is an error. *)
MayMakeNew(path) == path \notin fifos

(* mkfifo succeeds, or fails with EEXIST, which is as good. *)
MayMake(path) == TRUE

(* The next ManagedPipe: suffix 0 for the input, then 1 to COPIES. *)
MakePipe(p) ==
    LET s == proc[p]
        i == Len(s.w)
    IN
    /\ s.pc = "make"
    /\ MayMake(Path(s.job, i))
    /\ fifos' = fifos \cup {Path(s.job, i)}
    /\ Becomes(p, [s EXCEPT !.pc = "open", !.storage = @ \cup {i}, !.made = @ \cup {i}])
    /\ UNCHANGED <<runs, faults>>

(* mkfifo fails: the constructor throws, EIO is returned. *)
MakeFails(p) ==
    LET s == proc[p] IN
    /\ s.pc = "make"
    /\ IF MayMake(Path(s.job, Len(s.w)))
       THEN Fault /\ Unwinds(p, [s EXCEPT !.faulted = TRUE])
       ELSE Unwinds(p, s) /\ UNCHANGED faults
    /\ UNCHANGED <<fifos, runs>>

OpenPipe(p) ==
    LET s == proc[p]
        fd == LowestFree(s.open)
    IN
    /\ s.pc = "open"
    /\ Path(s.job, Len(s.w)) \in fifos
    /\ Becomes(p, [s EXCEPT !.pc = "dup", !.open = @ \cup {fd}, !.w = Append(@, fd)])
    /\ UNCHANGED <<fifos, runs, faults>>

(* The FIFO has gone, or cannot be opened: EBADFD is returned. *)
OpenPipeFails(p) ==
    LET s == proc[p] IN
    /\ s.pc = "open"
    /\ IF Path(s.job, Len(s.w)) \in fifos
       THEN Fault /\ Unwinds(p, [s EXCEPT !.faulted = TRUE])
       ELSE Unwinds(p, s) /\ UNCHANGED faults
    /\ UNCHANGED <<fifos, runs>>

(* dup, whose failure is not looked at: it gives an unassigned handle.     *)
(* The handles of an output's FIFO are moved into their vectors.           *)
DupPipe(p) ==
    LET s == proc[p]
        i == Len(s.r)
    IN
    /\ s.pc = "dup"
    /\ \E fd \in {LowestFree(s.open), unassigned_fd} :
        /\ IF fd = unassigned_fd THEN Fault ELSE UNCHANGED faults
        /\ Becomes(p, [s EXCEPT
               !.pc = IF i = s.job.copies THEN "engine" ELSE "make",
               !.open = (@ \cup Closed(fd)) \
                   (IF i = 0 THEN {}
                    ELSE Closed(MovedFrom(fd)) \cup Closed(MovedFrom(s.w[i + 1]))),
               !.r = Append(@, fd)])
    /\ UNCHANGED <<fifos, runs>>

-----------------------------------------------------------------------------
(* The engine returns, with whatever number of bytes. *)
Engine(p) ==
    LET s == proc[p] IN
    /\ s.pc = "engine"
    /\ Becomes(p, [s EXCEPT !.pc = IF s.job.mode > 2 THEN "drop" ELSE "close",
                            !.result = "ok"])
    /\ UNCHANGED <<fifos, runs, faults>>

(* Mode 4 (and above) without a ring: exit(EIO), and the FIFOs stay. *)
EngineExits(p) ==
    /\ proc[p].pc = "engine"
    /\ proc[p].job.mode > 3
    /\ Fault
    /\ Becomes(p, [Gone("exited") EXCEPT !.faulted = TRUE])
    /\ UNCHANGED <<fifos, runs>>

(* The handles of the FIFOs are destroyed. *)
DropHandles(p) ==
    LET s == proc[p] IN
    /\ s.pc = "drop"
    /\ Becomes(p, [s EXCEPT !.pc = "unlink", !.w = <<>>, !.r = <<>>,
                            !.open = @ \ (Range(s.w) \cup Range(s.r))])
    /\ UNCHANGED <<fifos, runs, faults>>

(* Mutant: the destructor forgets the file. *)
UnlinkedNone(path) == {}

(* What ~ManagedPipe unlinks. *)
Unlinked(path) == {path}

(* pipe_storage is destroyed, element by element. *)
Unlink(p) ==
    LET s == proc[p] IN
    /\ s.pc = "unlink"
    /\ \/ /\ s.storage = {}
          /\ Becomes(p, [s EXCEPT !.pc = "close"])
          /\ UNCHANGED fifos
       \/ \E i \in s.storage :
          /\ \A j \in s.storage : i <= j
          /\ fifos' = fifos \ Unlinked(Path(s.job, i))
          /\ Becomes(p, [s EXCEPT !.storage = @ \ {i}])
    /\ UNCHANGED <<runs, faults>>

(* The handles of the outputs and the source are destroyed; main returns. *)
Return(p) ==
    LET s == proc[p] IN
    /\ s.pc = "close"
    /\ Becomes(p, [s EXCEPT !.pc = "idle", !.files = <<>>, !.source = unassigned_fd,
                            !.open = @ \ (Range(s.files) \cup Closed(s.source))])
    /\ UNCHANGED <<fifos, runs, faults>>

(* SIGKILL, or a crash: descriptors are closed by the kernel, FIFOs stay. *)
Kill(p) ==
    /\ p \in Running
    /\ Fault
    /\ Becomes(p, Gone("killed"))
    /\ UNCHANGED <<fifos, runs>>

Terminated == Running = {} /\ UNCHANGED vars

Next ==
    \/ \E p \in Procs :
        \/ Start(p) \/ NoSource(p) \/ OpenOutput(p) \/ OutputFails(p) \/ Dispatch(p)
        \/ MakePipe(p) \/ MakeFails(p) \/ OpenPipe(p) \/ OpenPipeFails(p) \/ DupPipe(p)
        \/ Engine(p) \/ EngineExits(p)
        \/ DropHandles(p) \/ Unlink(p) \/ Return(p) \/ Kill(p)
    \/ Terminated

Spec == Init /\ [][Next]_vars

-----------------------------------------------------------------------------
TypeOK ==
    /\ \A p \in Procs : LET s == proc[p] IN
        /\ s.pc \in {"idle", "outputs", "make", "open", "dup", "engine",
                     "drop", "unlink", "close"}
        /\ s.open \subseteq Nat
        /\ Len(s.files) <= s.job.copies
        /\ Len(s.r) <= Len(s.w) /\ Len(s.w) <= s.job.copies + 1
        /\ s.storage \subseteq s.made /\ s.made \subseteq 0 .. s.job.copies
        /\ s.result \in {"none", "ok", "error", "exited", "killed"}
    /\ runs \in 0 .. MaxRuns /\ faults \in 0 .. MaxFaults

(* The handles of a process, by the place they are in, and their           *)
(* descriptors.                                                            *)
Handles(s) ==
    {<<"source", 1>>} \cup ({"files"} \X DOMAIN s.files)
        \cup ({"w"} \X DOMAIN s.w) \cup ({"r"} \X DOMAIN s.r)

Descriptor(s, h) == IF h[1] = "source" THEN s.source ELSE s[h[1]][h[2]]

(* Every descriptor a run has open belongs to exactly one of its handles,  *)
(* and every handle's descriptor is open, through all moves, failing calls *)
(* and returns in the middle: so each is closed once, none is left open,   *)
(* and none is closed when its number already means another file.          *)
Ownership ==
    \A p \in Procs : LET s == proc[p] IN
        /\ s.open = {Descriptor(s, h) : h \in Handles(s)} \ {unassigned_fd}
        /\ \A g, h \in Handles(s) :
               Descriptor(s, g) = Descriptor(s, h) /\ g # h =>
                   Descriptor(s, g) = unassigned_fd

(* A run fails only if a call of its own failed: the FIFOs that killed     *)
(* runs left and runs of another mode or class do not make it fail.  (One  *)
(* of the same mode and class may: it unlinks the other's FIFOs.)          *)
FailsByItself ==
    \A p \in Procs :
        proc[p].result \in {"error", "exited"} => proc[p].faulted \/ proc[p].clashed

(* A run that returns, early or not, leaves none of the FIFOs it used,     *)
(* also not those a killed run left, unless another run of its mode and    *)
(* class makes them meanwhile; one that succeeds has used all its paths.   *)
ReturnsClean ==
    [][\A p \in Procs :
        LET s == proc[p] IN
        s.pc = "close" /\ proc'[p].pc = "idle" =>
            /\ ~s.clashed => \A i \in s.made : Path(s.job, i) \notin fifos'
            /\ s.result = "ok" /\ s.job.mode > 2 => s.made = 0 .. s.job.copies]_vars
=============================================================================
