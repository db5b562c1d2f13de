---------------------------- MODULE DriverProofs ----------------------------
(***************************************************************************)
(* Theorems about the driver, for any processes, command lines and bounds  *)
(* on starts and faults: the types, that every descriptor has one owner,   *)
(* that a run fails only by itself, and that it leaves none of its FIFOs.  *)
(*                                                                         *)
(* The invariant has two parts: what a process holds in each part of main  *)
(* (Sound), and what processes do to one another, which is to unlink FIFOs *)
(* of the same path (Overlap, Linked).  The first is proved of a record    *)
(* alone, one lemma per action; Moves shows that a step of one process     *)
(* keeps the second.                                                       *)
(***************************************************************************)
EXTENDS Driver, SharedLemmas

PCs == {"idle", "outputs", "make", "open", "dup", "engine", "drop", "unlink", "close"}

Results == {"none", "ok", "error", "exited", "killed"}

Processes ==
    [pc : PCs, job : [mode : Int, copies : Nat], open : SUBSET Nat, source : Int,
     files : Seq(Nat), w : Seq(Nat), r : Seq(Int),
     storage : SUBSET Nat, made : SUBSET Nat,
     result : Results, faulted : BOOLEAN, clashed : BOOLEAN]

(* What a process has in each part of main. *)
Pipes(s) ==
    /\ Len(s.files) <= s.job.copies
    /\ Len(s.r) <= Len(s.w) /\ Len(s.w) <= s.job.copies + 1
    /\ s.storage \subseteq s.made /\ s.made \subseteq 0 .. s.job.copies
    /\ s.pc \in {"outputs", "unlink", "close", "idle"} => s.w = <<>> /\ s.r = <<>>
    /\ s.pc \in {"make", "open"} => Len(s.w) = Len(s.r) /\ Len(s.w) <= s.job.copies
    /\ s.pc = "dup" => Len(s.w) = Len(s.r) + 1
    /\ s.pc = "idle" => s.source = unassigned_fd /\ s.files = <<>>

Made(s) ==
    /\ s.pc \in {"make", "open", "dup"} => s.job.mode > 2
    /\ s.pc \in {"make", "dup"} => s.made = 0 .. (Len(s.w) - 1)
    /\ s.pc = "open" => s.made = 0 .. Len(s.w)
    /\ s.pc \in {"outputs", "make", "open", "dup", "engine", "drop"} => s.storage = s.made
    /\ s.pc \in {"close", "idle"} => s.storage = {}
    /\ s.pc = "outputs" \/ (s.pc = "engine" /\ s.job.mode <= 2) =>
           s.made = {} /\ s.w = <<>> /\ s.r = <<>>
    /\ s.pc = "engine" /\ s.job.mode > 2 => s.made = 0 .. s.job.copies
    /\ s.pc \in {"outputs", "make", "open", "dup", "engine"} => s.result = "none"
    /\ s.pc # "idle" /\ s.result = "ok" /\ s.job.mode > 2 => s.made = 0 .. s.job.copies

Excused(s) == s.result \in {"error", "exited"} => s.faulted \/ s.clashed

(* No descriptor is twice in a vector of handles. *)
Distinct(fds) ==
    \A i, j \in DOMAIN fds : fds[i] = fds[j] /\ i # j => fds[i] = unassigned_fd

Owned(s) ==
    /\ IsFiniteSet(s.open)
    /\ s.open = ({s.source} \cup Range(s.files) \cup Range(s.w) \cup Range(s.r))
                    \ {unassigned_fd}
    /\ Distinct(s.files) /\ Distinct(s.w) /\ Distinct(s.r)
    /\ s.source \notin Range(s.files) \cup Range(s.w) \cup Range(s.r)
    /\ Range(s.files) \cap (Range(s.w) \cup Range(s.r)) = {}
    /\ Range(s.w) \cap Range(s.r) = {}
    /\ s.pc # "idle" => s.source # unassigned_fd

Sound(s) == Pipes(s) /\ Made(s) /\ Excused(s) /\ Owned(s)

(* Two runs that share their paths are both marked. *)
Overlap ==
    \A p, q \in Running :
        p # q /\ Dir(proc[p].job) = Dir(proc[q].job) => proc[p].clashed

(* A run without such a neighbour finds what it made, and what it unlinked *)
(* stays away.                                                             *)
Links(s, files) ==
    ~s.clashed =>
        /\ s.pc = "open" => Path(s.job, Len(s.w)) \in files
        /\ \A i \in s.made \ s.storage : Path(s.job, i) \notin files

Linked == \A p \in Running : Links(proc[p], fifos)

IInv ==
    /\ proc \in [Procs -> Processes]
    /\ runs \in 0 .. MaxRuns /\ faults \in 0 .. MaxFaults
    /\ \A p \in Procs : Sound(proc[p])
    /\ Overlap
    /\ Linked

-----------------------------------------------------------------------------
(* The descriptor that open or dup return is a number that is not in use.  *)
LEMMA LowestFreeIsFree ==
    ASSUME NEW open \in SUBSET Nat, IsFiniteSet(open)
    PROVE  LowestFree(open) \in Nat \ {0} /\ LowestFree(open) \notin open
<1>. DEFINE n == Cardinality(open)
            free == {i \in 1 .. (n + 1) : i \notin open}
<1>1. n \in Nat
  BY FS_CardinalityType
<1>2. free # {}
  <2>. SUFFICES ASSUME free = {} PROVE FALSE
    OBVIOUS
  <2>1. 1 .. (n + 1) \subseteq open
    OBVIOUS
  <2>2. Cardinality(1 .. (n + 1)) = n + 1
    BY <1>1, FS_Interval
  <2>3. Cardinality(1 .. (n + 1)) <= n
    BY <2>1, FS_Subset
  <2>. QED
    BY <1>1, <2>2, <2>3
<1>3. PICK m \in free : \A i \in free : m <= i
  <2>1. free \in SUBSET Nat
    BY <1>1
  <2>. HIDE DEF free
  <2>. QED
    BY <1>2, <2>1, LeastNumber
<1>4. m \in 1 .. (n + 1) /\ m \notin open /\ \A i \in 1 .. (m - 1) : i \in open
  BY <1>1, <1>3
<1>5. LowestFree(open) \in 1 .. (n + 1) /\ LowestFree(open) \notin open
  BY <1>4 DEF LowestFree
<1>. QED
  BY <1>1, <1>5

(* A vector with one handle more. *)
LEMMA OneMore ==
    ASSUME NEW S, NEW fds \in Seq(S), NEW fd \in S
    PROVE  /\ Append(fds, fd) \in Seq(S) /\ Len(Append(fds, fd)) = Len(fds) + 1
           /\ Range(Append(fds, fd)) = Range(fds) \cup {fd}
           /\ Distinct(fds) /\ (fd \notin Range(fds) \/ fd = unassigned_fd) =>
                  Distinct(Append(fds, fd))
<1>. DEFINE more == Append(fds, fd)
            l == Len(fds)
<1>1. /\ more \in Seq(S) /\ Len(more) = l + 1 /\ l \in Nat
      /\ DOMAIN more = 1 .. (l + 1) /\ DOMAIN fds = 1 .. l
      /\ \A i \in 1 .. l : more[i] = fds[i]
      /\ more[l + 1] = fd
  BY AppendProperties, LenProperties
<1>. HIDE DEF more, l
<1>2. \A i \in DOMAIN more : i \in DOMAIN fds \/ i = l + 1
  BY <1>1
<1>3. \A i \in DOMAIN fds : i \in DOMAIN more
  BY <1>1
<1>4. Range(more) = Range(fds) \cup {fd}
  <2>1. \A x \in Range(more) : x \in Range(fds) \cup {fd}
    BY <1>1, <1>2 DEF Range
  <2>2. \A x \in Range(fds) : x \in Range(more)
    BY <1>1, <1>3 DEF Range
  <2>3. fd \in Range(more)
    BY <1>1 DEF Range
  <2>. QED
    BY <2>1, <2>2, <2>3
<1>5. ASSUME Distinct(fds), fd \notin Range(fds) \/ fd = unassigned_fd,
             NEW i \in DOMAIN more, NEW j \in DOMAIN more, more[i] = more[j], i # j
      PROVE  more[i] = unassigned_fd
  <2>1. CASE i \in DOMAIN fds /\ j \in DOMAIN fds
    BY <1>1, <1>5, <2>1 DEF Distinct
  <2>2. CASE i = l + 1 \/ j = l + 1
    <3>1. \A k \in DOMAIN fds : more[k] \in Range(fds)
      BY <1>1 DEF Range
    <3>2. more[i] = fd
      BY <1>1, <1>5, <2>2
    <3>. QED
      BY <1>2, <1>5, <2>2, <3>1, <3>2
  <2>. QED
    BY <1>2, <2>1, <2>2
<1>. QED
  BY <1>1, <1>4, <1>5 DEF more, l, Distinct

(* No handles. *)
LEMMA NoHandles == Range(<<>>) = {} /\ Distinct(<<>>) /\ <<>> \in Seq(Nat) /\ <<>> \in Seq(Int)
                   /\ Len(<<>>) = 0
  BY DEF Range, Distinct

(* A process by its fields. *)
Process(pc, job, open, source, files, w, r, storage, made, result, faulted, clashed) ==
    [pc |-> pc, job |-> job, open |-> open, source |-> source,
     files |-> files, w |-> w, r |-> r, storage |-> storage, made |-> made,
     result |-> result, faulted |-> faulted, clashed |-> clashed]

LEMMA IsProcess ==
    ASSUME NEW pc \in PCs, NEW job \in [mode : Int, copies : Nat],
           NEW open \in SUBSET Nat, NEW source \in Int,
           NEW files \in Seq(Nat), NEW w \in Seq(Nat), NEW r \in Seq(Int),
           NEW storage \in SUBSET Nat, NEW made \in SUBSET Nat,
           NEW result \in Results, NEW faulted \in BOOLEAN, NEW clashed \in BOOLEAN
    PROVE  Process(pc, job, open, source, files, w, r, storage, made, result, faulted, clashed)
               \in Processes
  BY DEF Process, Processes

(* A process that is not there: its fields. *)
LEMMA GoneFields ==
    ASSUME NEW result \in Results
    PROVE  /\ Gone(result) \in Processes /\ Gone(result).pc = "idle" /\ Gone(result).job = NoJob
           /\ Gone(result).open = {} /\ Gone(result).source = unassigned_fd
           /\ Gone(result).files = <<>> /\ Gone(result).w = <<>> /\ Gone(result).r = <<>>
           /\ Gone(result).storage = {} /\ Gone(result).made = {}
           /\ Gone(result).result = result
           /\ Gone(result).faulted = FALSE /\ Gone(result).clashed = FALSE
<1>. DEFINE g == Gone(result)
<1>1. g = Process("idle", NoJob, {}, unassigned_fd, <<>>, <<>>, <<>>, {}, {}, result, FALSE, FALSE)
  BY DEF Gone, Process
<1>2. "idle" \in PCs /\ NoJob \in [mode : Int, copies : Nat] /\ unassigned_fd \in Int
      /\ {} \in SUBSET Nat /\ FALSE \in BOOLEAN
  BY DEF PCs, NoJob, unassigned_fd
<1>3. g \in Processes
  <2>. HIDE DEF g
  <2>. QED
    BY <1>1, <1>2, NoHandles, IsProcess
<1>. QED
  BY <1>3 DEF Gone

(* A process that is not there has nothing. *)
LEMMA GoneIsSound ==
    ASSUME NEW result \in Results, NEW f \in BOOLEAN, result \in {"error", "exited"} => f
    PROVE  [Gone(result) EXCEPT !.faulted = f] \in Processes
           /\ Sound([Gone(result) EXCEPT !.faulted = f])
<1>. DEFINE g == Gone(result)
            t == [g EXCEPT !.faulted = f]
<1>1. /\ g \in Processes /\ g.pc = "idle" /\ g.job = NoJob /\ g.open = {}
      /\ g.source = unassigned_fd /\ g.files = <<>> /\ g.w = <<>> /\ g.r = <<>>
      /\ g.storage = {} /\ g.made = {} /\ g.result = result /\ g.clashed = FALSE
  BY GoneFields
<1>. HIDE DEF g
<1>2. /\ t \in Processes
      /\ t.pc = "idle" /\ t.job = NoJob /\ t.open = {} /\ t.source = unassigned_fd
      /\ t.files = <<>> /\ t.w = <<>> /\ t.r = <<>> /\ t.storage = {} /\ t.made = {}
      /\ t.result = result /\ t.faulted = f /\ t.clashed = FALSE
  BY <1>1 DEF Processes
<1>3. NoJob.copies = 0
  BY DEF NoJob
<1>. HIDE DEF t
<1>4. Pipes(t) /\ Made(t) /\ Excused(t)
  BY <1>2, <1>3, NoHandles DEF Pipes, Made, Excused
<1>5. Owned(t)
  BY <1>2, NoHandles, FS_EmptySet DEF Owned
<1>. QED
  BY <1>2, <1>4, <1>5 DEF g, t, Sound

(* A new descriptor keeps the files of a process apart from its pipes. *)
LEMMA NewIsApart ==
    ASSUME NEW x, NEW fd, NEW A, NEW B, NEW C, fd \notin {x} \cup A \cup B \cup C,
           x \notin A \cup B \cup C, A \cap (B \cup C) = {}, B \cap C = {}
    PROVE  /\ x \notin (A \cup {fd}) \cup B \cup C
           /\ (A \cup {fd}) \cap (B \cup C) = {}
           /\ x \notin A \cup (B \cup {fd}) \cup C
           /\ A \cap ((B \cup {fd}) \cup C) = {}
           /\ (B \cup {fd}) \cap C = {}
  OBVIOUS

(* The fields of a process. *)
LEMMA Fields ==
    ASSUME NEW s \in Processes
    PROVE  /\ s.pc \in PCs /\ s.job \in [mode : Int, copies : Nat]
           /\ s.job.mode \in Int /\ s.job.copies \in Nat
           /\ s.open \in SUBSET Nat /\ s.source \in Int
           /\ s.files \in Seq(Nat) /\ s.w \in Seq(Nat) /\ s.r \in Seq(Int)
           /\ Len(s.files) \in Nat /\ Len(s.w) \in Nat /\ Len(s.r) \in Nat
           /\ s.storage \in SUBSET Nat /\ s.made \in SUBSET Nat
           /\ s.result \in Results /\ s.faulted \in BOOLEAN /\ s.clashed \in BOOLEAN
  BY DEF Processes

(* A fault, or a neighbour, only excuses more. *)
LEMMA Marked ==
    ASSUME NEW s \in Processes, Sound(s)
    PROVE  /\ [s EXCEPT !.faulted = TRUE] \in Processes /\ Sound([s EXCEPT !.faulted = TRUE])
           /\ [s EXCEPT !.clashed = TRUE] \in Processes /\ Sound([s EXCEPT !.clashed = TRUE])
<1>. DEFINE f == [s EXCEPT !.faulted = TRUE]
            c == [s EXCEPT !.clashed = TRUE]
<1>1. f \in Processes /\ c \in Processes
  BY DEF Processes
<1>2. ASSUME NEW t \in {f, c}
      PROVE  /\ t.pc = s.pc /\ t.job = s.job /\ t.open = s.open /\ t.source = s.source
             /\ t.files = s.files /\ t.w = s.w /\ t.r = s.r
             /\ t.storage = s.storage /\ t.made = s.made /\ t.result = s.result
             /\ t.faulted \/ t.clashed
  BY DEF Processes
<1>. HIDE DEF f, c
<1>3. ASSUME NEW t \in {f, c} PROVE Sound(t)
  <2>1. Pipes(t)
    BY <1>2 DEF Sound, Pipes
  <2>2. Made(t)
    BY <1>2 DEF Sound, Made
  <2>3. Excused(t)
    BY <1>2 DEF Sound, Excused
  <2>4. Owned(t)
    BY <1>2 DEF Sound, Owned
  <2>. QED
    BY <2>1, <2>2, <2>3, <2>4 DEF Sound
<1>. QED
  BY <1>1, <1>3 DEF f, c

-----------------------------------------------------------------------------
(* The next output is opened. *)
LEMMA OpenOutputIsSound ==
    ASSUME NEW s \in Processes, Sound(s), s.pc = "outputs", MoreOutputs(s),
           NEW fd, fd = LowestFree(s.open),
           NEW t, t = [s EXCEPT !.open = (@ \cup {fd}) \ Closed(MovedFrom(fd)),
                                !.files = Append(@, fd)]
    PROVE  t \in Processes /\ Sound(t)
<1>1. fd \in Nat /\ fd \notin s.open
  BY LowestFreeIsFree, Fields DEF Sound, Owned
<1>2. (s.open \cup {fd}) \ Closed(MovedFrom(fd)) = s.open \cup {fd}
  BY DEF Closed, MovedFrom
<1>. DEFINE files == Append(s.files, fd)
            open == s.open \cup {fd}
<1>3. t = [s EXCEPT !.open = open, !.files = files]
  BY <1>2
<1>4. /\ files \in Seq(Nat) /\ Len(files) = Len(s.files) + 1
      /\ Range(files) = Range(s.files) \cup {fd}
      /\ Distinct(s.files) /\ fd \notin Range(s.files) => Distinct(files)
      /\ open \in SUBSET Nat
  BY <1>1, OneMore, Fields
<1>. HIDE DEF files
<1>5. t \in Processes
  BY <1>3, <1>4 DEF Processes
<1>6. /\ t.pc = s.pc /\ t.job = s.job /\ t.open = open /\ t.source = s.source
      /\ t.files = files /\ t.w = s.w /\ t.r = s.r
      /\ t.storage = s.storage /\ t.made = s.made /\ t.result = s.result
      /\ t.faulted = s.faulted /\ t.clashed = s.clashed
  BY <1>3 DEF Processes
<1>7. Pipes(t)
  <2>1. /\ s.w = <<>> /\ s.r = <<>> /\ Len(s.r) <= Len(s.w) /\ Len(s.w) <= s.job.copies + 1
        /\ s.storage \subseteq s.made /\ s.made \subseteq 0 .. s.job.copies
    BY DEF Sound, Pipes
  <2>2. Len(files) <= s.job.copies
    BY <1>4, Fields DEF MoreOutputs
  <2>. QED
    BY <1>6, <2>1, <2>2 DEF Pipes
<1>8. Made(t) /\ Excused(t)
  BY <1>6 DEF Sound, Made, Excused
<1>9. Owned(t)
  <2>1. fd # unassigned_fd
    BY <1>1 DEF unassigned_fd
  <2>2. fd \notin {s.source} \cup Range(s.files) \cup Range(s.w) \cup Range(s.r)
    BY <1>1, <2>1 DEF Sound, Owned
  <2>3. IsFiniteSet(open)
    BY FS_AddElement DEF Sound, Owned
  <2>4. open = ({s.source} \cup Range(files) \cup Range(s.w) \cup Range(s.r)) \ {unassigned_fd}
    BY <1>4, <2>1 DEF Sound, Owned
  <2>5. /\ s.source \notin Range(files) \cup Range(s.w) \cup Range(s.r)
        /\ Range(files) \cap (Range(s.w) \cup Range(s.r)) = {}
    <3>1. /\ s.source \notin Range(s.files) \cup Range(s.w) \cup Range(s.r)
          /\ Range(s.files) \cap (Range(s.w) \cup Range(s.r)) = {}
          /\ Range(s.w) \cap Range(s.r) = {}
      BY DEF Sound, Owned
    <3>2. Range(files) = Range(s.files) \cup {fd}
      BY <1>4
    <3>3. /\ s.source \notin (Range(s.files) \cup {fd}) \cup Range(s.w) \cup Range(s.r)
          /\ (Range(s.files) \cup {fd}) \cap (Range(s.w) \cup Range(s.r)) = {}
      BY <2>2, <3>1, NewIsApart
    <3>. QED
      BY <3>2, <3>3
  <2>. QED
    BY <1>4, <1>6, <2>2, <2>3, <2>4, <2>5 DEF Sound, Owned
<1>. QED
  BY <1>5, <1>7, <1>8, <1>9 DEF Sound

(* The last output is open: FIFOs are made, an engine is called, or none. *)
LEMMA DispatchIsSound ==
    ASSUME NEW s \in Processes, Sound(s), s.pc = "outputs",
           NEW t, t = [s EXCEPT !.pc = IF s.job.mode > 2 THEN "make"
                                       ELSE IF s.job.mode \in {1, 2} THEN "engine"
                                       ELSE "close"]
    PROVE  t \in Processes /\ Sound(t)
<1>1. t \in Processes
  BY DEF Processes, PCs
<1>2. /\ t.job = s.job /\ t.open = s.open /\ t.source = s.source
      /\ t.files = s.files /\ t.w = s.w /\ t.r = s.r
      /\ t.storage = s.storage /\ t.made = s.made /\ t.result = s.result
      /\ t.faulted = s.faulted /\ t.clashed = s.clashed
      /\ \/ t.pc = "make" /\ s.job.mode > 2
         \/ t.pc = "engine" /\ ~(s.job.mode > 2)
         \/ t.pc = "close"
  BY DEF Processes
<1>3. s.w = <<>> /\ s.r = <<>> /\ s.made = {} /\ s.storage = {} /\ s.result = "none"
  BY DEF Sound, Pipes, Made
<1>4. Pipes(t)
  BY <1>2, <1>3, Fields, NoHandles DEF Sound, Pipes
<1>5. Made(t)
  <2>1. 0 .. (Len(s.w) - 1) = {}
    BY <1>3, NoHandles
  <2>. QED
    BY <1>2, <1>3, <2>1 DEF Made
<1>6. Excused(t) /\ Owned(t)
  BY <1>2 DEF Sound, Excused, Owned
<1>. QED
  BY <1>1, <1>4, <1>5, <1>6 DEF Sound

(* The next FIFO is made. *)
LEMMA MakePipeIsSound ==
    ASSUME NEW s \in Processes, Sound(s), s.pc = "make",
           NEW i, i = Len(s.w),
           NEW t, t = [s EXCEPT !.pc = "open", !.storage = @ \cup {i}, !.made = @ \cup {i}]
    PROVE  t \in Processes /\ Sound(t) /\ t.made \ t.storage = {}
<1>1. i \in Nat
  BY Fields
<1>2. t \in Processes
  BY <1>1 DEF Processes, PCs
<1>3. /\ t.pc = "open" /\ t.job = s.job /\ t.open = s.open /\ t.source = s.source
      /\ t.files = s.files /\ t.w = s.w /\ t.r = s.r
      /\ t.storage = s.storage \cup {i} /\ t.made = s.made \cup {i} /\ t.result = s.result
      /\ t.faulted = s.faulted /\ t.clashed = s.clashed
  BY DEF Processes
<1>4. /\ Len(s.w) = Len(s.r) /\ Len(s.w) <= s.job.copies
      /\ s.made = 0 .. (i - 1) /\ s.storage = s.made
      /\ s.result = "none" /\ s.job.mode > 2
  BY DEF Sound, Pipes, Made
<1>5. t.made = 0 .. i /\ t.storage = t.made
  BY <1>1, <1>3, <1>4
<1>6. Pipes(t)
  BY <1>1, <1>3, <1>4, <1>5, Fields DEF Sound, Pipes
<1>7. Made(t) /\ Excused(t)
  BY <1>3, <1>4, <1>5 DEF Sound, Made, Excused
<1>8. Owned(t)
  BY <1>3 DEF Sound, Owned
<1>. QED
  BY <1>2, <1>5, <1>6, <1>7, <1>8 DEF Sound

(* A FIFO cannot be made or opened: the scopes are left. *)
LEMMA UnwoundIsSound ==
    ASSUME NEW s \in Processes, Sound(s), s.pc \in {"make", "open"}, s.faulted \/ s.clashed,
           NEW t, t = [s EXCEPT !.pc = "drop", !.result = "error"]
    PROVE  t \in Processes /\ Sound(t)
<1>1. t \in Processes
  BY DEF Processes, PCs, Results
<1>2. /\ t.pc = "drop" /\ t.job = s.job /\ t.open = s.open /\ t.source = s.source
      /\ t.files = s.files /\ t.w = s.w /\ t.r = s.r
      /\ t.storage = s.storage /\ t.made = s.made /\ t.result = "error"
      /\ t.faulted = s.faulted /\ t.clashed = s.clashed
  BY DEF Processes
<1>3. Pipes(t) /\ Made(t) /\ Excused(t)
  BY <1>2 DEF Sound, Pipes, Made, Excused
<1>4. Owned(t)
  BY <1>2 DEF Sound, Owned
<1>. QED
  BY <1>1, <1>3, <1>4 DEF Sound

(* The FIFO is opened for writing. *)
LEMMA OpenPipeIsSound ==
    ASSUME NEW s \in Processes, Sound(s), s.pc = "open",
           NEW fd, fd = LowestFree(s.open),
           NEW t, t = [s EXCEPT !.pc = "dup", !.open = @ \cup {fd}, !.w = Append(@, fd)]
    PROVE  t \in Processes /\ Sound(t)
<1>. DEFINE w == Append(s.w, fd)
            open == s.open \cup {fd}
<1>1. fd \in Nat /\ fd \notin s.open
  BY LowestFreeIsFree, Fields DEF Sound, Owned
<1>2. /\ w \in Seq(Nat) /\ Len(w) = Len(s.w) + 1
      /\ Range(w) = Range(s.w) \cup {fd}
      /\ Distinct(s.w) /\ fd \notin Range(s.w) => Distinct(w)
      /\ open \in SUBSET Nat
  BY <1>1, OneMore, Fields
<1>3. t = [s EXCEPT !.pc = "dup", !.open = open, !.w = w]
  OBVIOUS
<1>. HIDE DEF w
<1>4. t \in Processes
  BY <1>2, <1>3 DEF Processes, PCs
<1>5. /\ t.pc = "dup" /\ t.job = s.job /\ t.open = open /\ t.source = s.source
      /\ t.files = s.files /\ t.w = w /\ t.r = s.r
      /\ t.storage = s.storage /\ t.made = s.made /\ t.result = s.result
      /\ t.faulted = s.faulted /\ t.clashed = s.clashed
  BY <1>3 DEF Processes
<1>6. Len(s.w) = Len(s.r) /\ Len(s.w) <= s.job.copies
  BY DEF Sound, Pipes
<1>7. Pipes(t)
  <2>1. /\ Len(s.files) <= s.job.copies
        /\ s.storage \subseteq s.made /\ s.made \subseteq 0 .. s.job.copies
    BY DEF Sound, Pipes
  <2>2. Len(s.r) <= Len(w) /\ Len(w) <= s.job.copies + 1 /\ Len(w) = Len(s.r) + 1
    BY <1>2, <1>6, Fields
  <2>. QED
    BY <1>5, <2>1, <2>2 DEF Pipes
<1>8. Made(t) /\ Excused(t)
  <2>1. Len(w) - 1 = Len(s.w)
    BY <1>2, Fields
  <2>. QED
    BY <1>5, <2>1 DEF Sound, Made, Excused
<1>9. Owned(t)
  <2>1. fd # unassigned_fd
    BY <1>1 DEF unassigned_fd
  <2>2. fd \notin {s.source} \cup Range(s.files) \cup Range(s.w) \cup Range(s.r)
    BY <1>1, <2>1 DEF Sound, Owned
  <2>3. IsFiniteSet(open)
    BY FS_AddElement DEF Sound, Owned
  <2>4. open = ({s.source} \cup Range(s.files) \cup Range(w) \cup Range(s.r)) \ {unassigned_fd}
    BY <1>2, <2>1 DEF Sound, Owned
  <2>5. /\ s.source \notin Range(s.files) \cup Range(w) \cup Range(s.r)
        /\ Range(s.files) \cap (Range(w) \cup Range(s.r)) = {}
        /\ Range(w) \cap Range(s.r) = {}
    <3>1. /\ s.source \notin Range(s.files) \cup Range(s.w) \cup Range(s.r)
          /\ Range(s.files) \cap (Range(s.w) \cup Range(s.r)) = {}
          /\ Range(s.w) \cap Range(s.r) = {}
      BY DEF Sound, Owned
    <3>2. Range(w) = Range(s.w) \cup {fd}
      BY <1>2
    <3>3. /\ s.source \notin Range(s.files) \cup (Range(s.w) \cup {fd}) \cup Range(s.r)
          /\ Range(s.files) \cap ((Range(s.w) \cup {fd}) \cup Range(s.r)) = {}
          /\ (Range(s.w) \cup {fd}) \cap Range(s.r) = {}
      BY <2>2, <3>1, NewIsApart
    <3>. QED
      BY <3>2, <3>3
  <2>. QED
    BY <1>2, <1>5, <2>2, <2>3, <2>4, <2>5 DEF Sound, Owned
<1>. QED
  BY <1>4, <1>7, <1>8, <1>9 DEF Sound

(* It is duplicated for reading, or is not. *)
LEMMA DupPipeIsSound ==
    ASSUME NEW s \in Processes, Sound(s), s.pc = "dup",
           NEW i, i = Len(s.r),
           NEW fd \in {LowestFree(s.open), unassigned_fd},
           NEW t, t = [s EXCEPT
               !.pc = IF i = s.job.copies THEN "engine" ELSE "make",
               !.open = (@ \cup Closed(fd)) \
                   (IF i = 0 THEN {}
                    ELSE Closed(MovedFrom(fd)) \cup Closed(MovedFrom(s.w[i + 1]))),
               !.r = Append(@, fd)]
    PROVE  t \in Processes /\ Sound(t)
<1>. DEFINE r == Append(s.r, fd)
            open == s.open \cup Closed(fd)
            pc == IF i = s.job.copies THEN "engine" ELSE "make"
<1>1. LowestFree(s.open) \in Nat /\ LowestFree(s.open) \notin s.open
  BY LowestFreeIsFree, Fields DEF Sound, Owned
<1>2. /\ fd \in Int /\ Closed(fd) \in SUBSET Nat /\ IsFiniteSet(Closed(fd))
      /\ Closed(fd) = {fd} \ {unassigned_fd}
      /\ fd = unassigned_fd \/ fd \notin s.open
  <2>1. IsFiniteSet({}) /\ IsFiniteSet({fd})
    BY FS_EmptySet, FS_Singleton
  <2>. QED
    BY <1>1, <2>1 DEF Closed, unassigned_fd
<1>3. /\ r \in Seq(Int) /\ Len(r) = i + 1
      /\ Range(r) = Range(s.r) \cup {fd}
      /\ Distinct(s.r) /\ (fd \notin Range(s.r) \/ fd = unassigned_fd) => Distinct(r)
  BY <1>2, OneMore, Fields
<1>4. t = [s EXCEPT !.pc = pc, !.open = open, !.r = r]
  <2>1. Closed(MovedFrom(fd)) \cup Closed(MovedFrom(s.w[i + 1])) = {}
    BY DEF Closed, MovedFrom
  <2>2. (s.open \cup Closed(fd)) \
            (IF i = 0 THEN {} ELSE Closed(MovedFrom(fd)) \cup Closed(MovedFrom(s.w[i + 1])))
        = open
    BY <2>1
  <2>. QED
    BY <2>2
<1>5. open \in SUBSET Nat
  BY <1>2, Fields
<1>6. pc \in PCs
  BY DEF PCs
<1>7. i \in Nat /\ Len(s.w) = i + 1 /\ i <= s.job.copies /\ s.job.copies \in Nat
  BY Fields DEF Sound, Pipes
<1>. HIDE DEF r
<1>8. t \in Processes
  BY <1>3, <1>4, <1>5, <1>6 DEF Processes
<1>9. /\ t.pc = pc /\ t.job = s.job /\ t.open = open /\ t.source = s.source
      /\ t.files = s.files /\ t.w = s.w /\ t.r = r
      /\ t.storage = s.storage /\ t.made = s.made /\ t.result = s.result
      /\ t.faulted = s.faulted /\ t.clashed = s.clashed
  BY <1>4 DEF Processes
<1>10. Pipes(t)
  <2>1. /\ Len(s.files) <= s.job.copies
        /\ s.storage \subseteq s.made /\ s.made \subseteq 0 .. s.job.copies
    BY DEF Sound, Pipes
  <2>2. pc = "engine" \/ (pc = "make" /\ i # s.job.copies)
    OBVIOUS
  <2>. HIDE DEF pc
  <2>3. /\ Len(r) <= Len(s.w) /\ Len(s.w) <= s.job.copies + 1
        /\ pc = "make" => Len(s.w) = Len(r) /\ Len(s.w) <= s.job.copies
    BY <1>3, <1>7, <2>2
  <2>. QED
    BY <1>9, <2>1, <2>2, <2>3 DEF Pipes
<1>11. Made(t) /\ Excused(t)
  <2>1. /\ s.made = 0 .. (Len(s.w) - 1) /\ s.storage = s.made
        /\ s.job.mode > 2 /\ s.result = "none"
    BY DEF Sound, Made
  <2>2. Len(s.w) - 1 = i
    BY <1>7
  <2>. QED
    BY <1>7, <1>9, <2>1, <2>2, Fields DEF Made, Excused
<1>12. Owned(t)
  <2>1. fd = unassigned_fd \/ fd \notin {s.source} \cup Range(s.files) \cup Range(s.w) \cup Range(s.r)
    BY <1>2 DEF Sound, Owned
  <2>2. IsFiniteSet(open)
    BY <1>2, FS_Union DEF Sound, Owned
  <2>3. open = ({s.source} \cup Range(s.files) \cup Range(s.w) \cup Range(r)) \ {unassigned_fd}
    BY <1>2, <1>3 DEF Sound, Owned
  <2>4. unassigned_fd \notin {s.source} \cup Range(s.files) \cup Range(s.w)
    <3>1. \A x \in Range(s.files) \cup Range(s.w) : x \in Nat
      BY Fields DEF Range
    <3>. QED
      BY <3>1 DEF Sound, Owned, unassigned_fd
  <2>5. fd \notin {s.source} \cup Range(s.files) \cup Range(s.w)
    BY <2>1, <2>4
  <2>6. /\ s.source \notin Range(s.files) \cup Range(s.w) \cup Range(r)
        /\ Range(s.files) \cap (Range(s.w) \cup Range(r)) = {}
        /\ Range(s.w) \cap Range(r) = {}
    BY <1>3, <2>5 DEF Sound, Owned
  <2>7. Distinct(r)
    BY <1>3, <2>1 DEF Sound, Owned
  <2>. QED
    BY <1>9, <2>2, <2>3, <2>6, <2>7 DEF Sound, Owned
<1>. QED
  BY <1>8, <1>10, <1>11, <1>12 DEF Sound

(* The engine returns. *)
LEMMA EngineIsSound ==
    ASSUME NEW s \in Processes, Sound(s), s.pc = "engine",
           NEW t, t = [s EXCEPT !.pc = IF s.job.mode > 2 THEN "drop" ELSE "close",
                                !.result = "ok"]
    PROVE  t \in Processes /\ Sound(t)
<1>1. t \in Processes
  BY DEF Processes, PCs, Results
<1>2. /\ t.job = s.job /\ t.open = s.open /\ t.source = s.source
      /\ t.files = s.files /\ t.w = s.w /\ t.r = s.r
      /\ t.storage = s.storage /\ t.made = s.made /\ t.result = "ok"
      /\ t.faulted = s.faulted /\ t.clashed = s.clashed
      /\ t.pc = IF s.job.mode > 2 THEN "drop" ELSE "close"
  BY DEF Processes
<1>3. Pipes(t) /\ Made(t) /\ Excused(t)
  BY <1>2, Fields DEF Sound, Pipes, Made, Excused
<1>4. Owned(t)
  BY <1>2 DEF Sound, Owned
<1>. QED
  BY <1>1, <1>3, <1>4 DEF Sound

(* The handles of the FIFOs are destroyed. *)
LEMMA DropHandlesIsSound ==
    ASSUME NEW s \in Processes, Sound(s), s.pc = "drop",
           NEW t, t = [s EXCEPT !.pc = "unlink", !.w = <<>>, !.r = <<>>,
                                !.open = @ \ (Range(s.w) \cup Range(s.r))]
    PROVE  t \in Processes /\ Sound(t)
<1>. DEFINE open == s.open \ (Range(s.w) \cup Range(s.r))
<1>1. open \in SUBSET Nat
  BY Fields
<1>2. t \in Processes
  BY <1>1, NoHandles DEF Processes, PCs
<1>3. /\ t.pc = "unlink" /\ t.job = s.job /\ t.open = open /\ t.source = s.source
      /\ t.files = s.files /\ t.w = <<>> /\ t.r = <<>>
      /\ t.storage = s.storage /\ t.made = s.made /\ t.result = s.result
      /\ t.faulted = s.faulted /\ t.clashed = s.clashed
  BY DEF Processes
<1>4. Pipes(t) /\ Made(t) /\ Excused(t)
  BY <1>3, Fields, NoHandles DEF Sound, Pipes, Made, Excused
<1>5. Owned(t)
  <2>1. IsFiniteSet(open)
    BY FS_Difference DEF Sound, Owned
  <2>2. open = ({s.source} \cup Range(s.files)) \ {unassigned_fd}
    BY DEF Sound, Owned
  <2>. QED
    BY <1>3, <2>1, <2>2, NoHandles DEF Sound, Owned
<1>. QED
  BY <1>2, <1>4, <1>5 DEF Sound

(* One FIFO is unlinked, or all are. *)
LEMMA UnlinkIsSound ==
    ASSUME NEW s \in Processes, Sound(s), s.pc = "unlink",
           NEW t, \/ s.storage = {} /\ t = [s EXCEPT !.pc = "close"]
                  \/ \E i \in s.storage : t = [s EXCEPT !.storage = @ \ {i}]
    PROVE  t \in Processes /\ Sound(t)
<1>1. t \in Processes
  <2>1. CASE t = [s EXCEPT !.pc = "close"]
    BY <2>1 DEF Processes, PCs
  <2>2. ASSUME NEW i \in s.storage, t = [s EXCEPT !.storage = @ \ {i}] PROVE t \in Processes
    BY <2>2 DEF Processes
  <2>. QED
    BY <2>1, <2>2
<1>2. /\ t.job = s.job /\ t.open = s.open /\ t.source = s.source
      /\ t.files = s.files /\ t.w = s.w /\ t.r = s.r
      /\ t.made = s.made /\ t.result = s.result
      /\ t.faulted = s.faulted /\ t.clashed = s.clashed
      /\ t.storage \subseteq s.storage
      /\ t.pc = "unlink" \/ (t.pc = "close" /\ t.storage = {})
  BY DEF Processes
<1>3. Pipes(t) /\ Made(t) /\ Excused(t)
  BY <1>2 DEF Sound, Pipes, Made, Excused
<1>4. Owned(t)
  BY <1>2 DEF Sound, Owned
<1>. QED
  BY <1>1, <1>3, <1>4 DEF Sound

(* main returns. *)
LEMMA ReturnIsSound ==
    ASSUME NEW s \in Processes, Sound(s), s.pc = "close",
           NEW t, t = [s EXCEPT !.pc = "idle", !.files = <<>>, !.source = unassigned_fd,
                                !.open = @ \ (Range(s.files) \cup Closed(s.source))]
    PROVE  t \in Processes /\ Sound(t)
<1>1. s.open \ (Range(s.files) \cup Closed(s.source)) = {}
  BY NoHandles DEF Sound, Pipes, Owned, Closed
<1>2. t = [s EXCEPT !.pc = "idle", !.files = <<>>, !.source = unassigned_fd, !.open = {}]
  BY <1>1
<1>3. t \in Processes
  <2>1. {} \in SUBSET Nat /\ unassigned_fd \in Int /\ <<>> \in Seq(Nat)
    BY NoHandles DEF unassigned_fd
  <2>. QED
    BY <1>2, <2>1 DEF Processes, PCs
<1>4. /\ t.pc = "idle" /\ t.job = s.job /\ t.open = {} /\ t.source = unassigned_fd
      /\ t.files = <<>> /\ t.w = s.w /\ t.r = s.r
      /\ t.storage = s.storage /\ t.made = s.made /\ t.result = s.result
      /\ t.faulted = s.faulted /\ t.clashed = s.clashed
  BY <1>2 DEF Processes
<1>5. s.w = <<>> /\ s.r = <<>>
  BY DEF Sound, Pipes
<1>6. Pipes(t) /\ Made(t) /\ Excused(t)
  BY <1>4, Fields, NoHandles DEF Sound, Pipes, Made, Excused
<1>7. Owned(t)
  BY <1>4, <1>5, NoHandles, FS_EmptySet DEF Owned
<1>. QED
  BY <1>3, <1>6, <1>7 DEF Sound

(* A run that begins, next to others or not. *)
Started(job, others) ==
    [Gone("none") EXCEPT !.pc = "outputs", !.job = job, !.open = {1},
                         !.source = 1, !.clashed = others # {}]

LEMMA StartIsSound ==
    ASSUME NEW job \in [mode : Int, copies : Nat], NEW others
    PROVE  LET t == Started(job, others) IN
           /\ t \in Processes /\ Sound(t)
           /\ t.pc = "outputs" /\ t.job = job /\ t.made = {}
           /\ t.clashed <=> others # {}
<1>. DEFINE t == Started(job, others)
<1>. DEFINE c == others # {}
<1>. DEFINE g == Gone("none")
<1>1. /\ g \in Processes /\ g.files = <<>> /\ g.w = <<>> /\ g.r = <<>>
      /\ g.storage = {} /\ g.made = {} /\ g.result = "none"
  BY GoneFields DEF Results
<1>. HIDE DEF g
<1>2. t = [g EXCEPT !.pc = "outputs", !.job = job, !.open = {1}, !.source = 1, !.clashed = c]
  BY DEF g, Started
<1>. HIDE DEF t
<1>3. t \in Processes
  <2>. DEFINE h == [g EXCEPT !.clashed = c]
              o == {1}
  <2>1. h \in Processes
    BY <1>1 DEF Processes
  <2>2. t = [h EXCEPT !.pc = "outputs", !.job = job, !.open = o, !.source = 1]
    BY <1>1, <1>2 DEF Processes
  <2>3. o \in SUBSET Nat /\ 1 \in Int /\ "outputs" \in PCs
    BY DEF PCs
  <2>. HIDE DEF h, o, PCs
  <2>. QED
    BY <2>1, <2>2, <2>3 DEF Processes
<1>4. /\ t.pc = "outputs" /\ t.job = job /\ t.open = {1} /\ t.source = 1
      /\ t.files = <<>> /\ t.w = <<>> /\ t.r = <<>>
      /\ t.storage = {} /\ t.made = {} /\ t.result = "none" /\ t.clashed = c
  BY <1>1, <1>2 DEF Processes
<1>5. job.copies \in Nat
  OBVIOUS
<1>6. Pipes(t)
  BY <1>4, <1>5, NoHandles DEF Pipes
<1>7. Made(t) /\ Excused(t)
  BY <1>4 DEF Made, Excused
<1>8. Owned(t)
  <2>1. IsFiniteSet({1})
    BY FS_Singleton
  <2>. QED
    BY <1>4, <2>1, NoHandles DEF Owned, unassigned_fd
<1>. QED
  BY <1>3, <1>4, <1>6, <1>7, <1>8 DEF Sound, t

-----------------------------------------------------------------------------
(* Initially, nobody is there. *)
LEMMA InitIInv == Init => IInv
<1>. SUFFICES ASSUME Init PROVE IInv
  OBVIOUS
<1>. DEFINE g == Gone("none")
<1>1. g \in Processes /\ Sound(g) /\ g.pc = "idle"
  <2>1. "none" \in Results /\ FALSE \in BOOLEAN /\ ~("none" \in {"error", "exited"})
    BY DEF Results
  <2>2. g \in Processes /\ g.pc = "idle" /\ g.faulted = FALSE
    BY <2>1, GoneFields
  <2>3. Sound([g EXCEPT !.faulted = FALSE])
    BY <2>1, GoneIsSound
  <2>. HIDE DEF g
  <2>4. [g EXCEPT !.faulted = FALSE] = g
    BY <2>2 DEF Processes
  <2>. QED
    BY <2>2, <2>3, <2>4
<1>2. proc = [p \in Procs |-> g]
  BY DEF Init
<1>. HIDE DEF g
<1>3. \A p \in Procs : proc[p] = g
  BY <1>2
<1>4. Running = {}
  BY <1>1, <1>3 DEF Running
<1>5. runs \in 0 .. MaxRuns /\ faults \in 0 .. MaxFaults
  BY DriverAssumption DEF Init
<1>. QED
  BY <1>1, <1>2, <1>3, <1>4, <1>5 DEF IInv, Overlap, Linked

(* A process goes on, or leaves: the others are not disturbed, for only    *)
(* FIFOs of its own directory come and go.                                 *)
LEMMA Moves ==
    ASSUME IInv, NEW p \in Procs, NEW t \in Processes, Sound(t), Becomes(p, t),
           t.pc = "idle" \/ (/\ p \in Running /\ t.job = proc[p].job
                             /\ t.clashed = proc[p].clashed /\ Links(t, fifos')),
           \/ fifos' = fifos
           \/ p \in Running /\ \A d, i : d # Dir(proc[p].job) =>
                                     (<<d, i>> \in fifos' <=> <<d, i>> \in fifos),
           runs' \in 0 .. MaxRuns, faults' \in 0 .. MaxFaults
    PROVE  IInv'
<1>1. proc \in [Procs -> Processes]
  BY DEF IInv
<1>2. /\ proc' \in [Procs -> Processes] /\ proc'[p] = t
      /\ \A q \in Procs : q # p => proc'[q] = proc[q]
  BY <1>1 DEF Becomes
<1>3. \A q \in Procs : Sound(proc'[q])
  BY <1>2 DEF IInv
<1>4. Running' \subseteq Running /\ Running \subseteq Procs
  BY <1>2 DEF Running
<1>5. \A q \in Running' : proc'[q].job = proc[q].job /\ proc'[q].clashed = proc[q].clashed
  BY <1>2 DEF Running
<1>6. Overlap'
  <2>1. \A j : Dir(j)' = Dir(j)
    BY DEF Dir, Class
  <2>2. SUFFICES ASSUME NEW q \in Running', NEW r \in Running', q # r,
                        Dir(proc'[q].job) = Dir(proc'[r].job)
                 PROVE  proc'[q].clashed
    BY DEF Overlap, Dir, Class
  <2>3. proc[q].clashed
    BY <1>4, <1>5, <2>2 DEF IInv, Overlap
  <2>. QED
    BY <1>5, <2>3
<1>7. Linked'
  <2>1. SUFFICES ASSUME NEW q \in Running' PROVE Links(proc'[q], fifos')
    BY DEF Linked, Links, Path, Dir, Class
  <2>2. CASE q = p
    BY <1>2, <2>1, <2>2 DEF Running
  <2>3. CASE q # p
    <3>1. q \in Running /\ proc'[q] = proc[q] /\ Links(proc[q], fifos)
      BY <1>2, <1>4, <2>3 DEF IInv, Linked
    <3>2. CASE fifos' = fifos
      BY <3>1, <3>2
    <3>3. CASE p \in Running /\ \A d, i : d # Dir(proc[p].job) =>
                                     (<<d, i>> \in fifos' <=> <<d, i>> \in fifos)
      <4>1. SUFFICES ASSUME ~proc[q].clashed PROVE Links(proc[q], fifos')
        BY <3>1 DEF Links
      <4>2. Dir(proc[q].job) # Dir(proc[p].job)
        BY <2>3, <3>1, <3>3, <4>1 DEF IInv, Overlap
      <4>3. \A i : Path(proc[q].job, i) \in fifos' <=> Path(proc[q].job, i) \in fifos
        BY <3>3, <4>2 DEF Path
      <4>. QED
        BY <3>1, <4>3 DEF Links
    <3>. QED
      BY <3>2, <3>3
  <2>. QED
    BY <2>2, <2>3
<1>. QED
  BY <1>2, <1>3, <1>6, <1>7 DEF IInv

(* A process leaves on the spot. *)
LEMMA Leaves ==
    ASSUME IInv, NEW p \in Procs, NEW result \in Results, NEW f \in BOOLEAN,
           result \in {"error", "exited"} => f,
           Becomes(p, [Gone(result) EXCEPT !.faulted = f]), fifos' = fifos,
           runs' \in 0 .. MaxRuns, faults' \in 0 .. MaxFaults
    PROVE  IInv'
<1>. DEFINE t == [Gone(result) EXCEPT !.faulted = f]
<1>1. t \in Processes /\ Sound(t)
  BY GoneIsSound
<1>2. t.pc = "idle"
  BY DEF Gone
<1>3. Becomes(p, t)
  OBVIOUS
<1>. HIDE DEF t
<1>. QED
  BY <1>1, <1>2, <1>3, Moves

(* A process goes on and leaves the FIFOs alone. *)
LEMMA GoesOn ==
    ASSUME IInv, NEW p \in Running, NEW t \in Processes, Sound(t), Becomes(p, t),
           fifos' = fifos, t.pc # "open",
           t.job = proc[p].job, t.clashed = proc[p].clashed,
           t.made = proc[p].made, t.storage = proc[p].storage,
           runs' \in 0 .. MaxRuns, faults' \in 0 .. MaxFaults
    PROVE  IInv'
<1>1. p \in Procs /\ Links(proc[p], fifos)
  BY DEF Running, IInv, Linked
<1>2. Links(t, fifos')
  BY <1>1 DEF Links
<1>. QED
  BY <1>1, <1>2, Moves

(* Counting stays within its bounds. *)
LEMMA Counts ==
    ASSUME IInv
    PROVE  /\ Fault => faults' \in 0 .. MaxFaults
           /\ UNCHANGED faults => faults' \in 0 .. MaxFaults
           /\ runs < MaxRuns /\ runs' = runs + 1 => runs' \in 0 .. MaxRuns
           /\ UNCHANGED runs => runs' \in 0 .. MaxRuns
  BY DriverAssumption DEF IInv, Fault

(* A new run marks those it overlaps with, and itself. *)
LEMMA StartKeeps ==
    ASSUME IInv, NEW p \in Procs, Start(p)
    PROVE  IInv'
<1>1. PICK job \in Jobs :
        LET others == {q \in Running : /\ proc[q].job.mode = job.mode
                                       /\ Class(proc[q].job) = Class(job)} IN
        proc' = [q \in Procs |->
            IF q = p THEN [Gone("none") EXCEPT
                               !.pc = "outputs", !.job = job, !.open = {1},
                               !.source = 1, !.clashed = others # {}]
            ELSE IF q \in others THEN [proc[q] EXCEPT !.clashed = TRUE]
            ELSE proc[q]]
  BY DEF Start
<1>. DEFINE others == {q \in Running : /\ proc[q].job.mode = job.mode
                                       /\ Class(proc[q].job) = Class(job)}
            t == Started(job, others)
<1>2. proc' = [q \in Procs |->
            IF q = p THEN t
            ELSE IF q \in others THEN [proc[q] EXCEPT !.clashed = TRUE]
            ELSE proc[q]]
  BY <1>1 DEF Started
<1>3. /\ t \in Processes /\ Sound(t)
      /\ t.pc = "outputs" /\ t.job = job /\ t.made = {}
      /\ t.clashed <=> others # {}
  <2>1. job \in [mode : Int, copies : Nat]
    BY DriverAssumption
  <2>. HIDE DEF others
  <2>. QED
    BY <2>1, StartIsSound
<1>. HIDE DEF t
<1>4. proc \in [Procs -> Processes] /\ \A q \in Procs : Sound(proc[q])
  BY DEF IInv
<1>5. /\ others \subseteq Running /\ Running \subseteq Procs
      /\ \A q \in Running : q \in others <=> Dir(proc[q].job) = Dir(job)
  BY DEF Running, Dir
<1>6. p \notin Running
  BY DEF Start, Running
<1>. HIDE DEF others
<1>7. proc'[p] = t
  BY <1>2
<1>8. ASSUME NEW q \in Procs, q # p
      PROVE  /\ proc'[q] \in Processes /\ Sound(proc'[q])
             /\ proc'[q].pc = proc[q].pc /\ proc'[q].job = proc[q].job
             /\ proc'[q].w = proc[q].w /\ proc'[q].made = proc[q].made
             /\ proc'[q].storage = proc[q].storage
             /\ proc[q].clashed => proc'[q].clashed
             /\ q \in others => proc'[q].clashed
  <2>. DEFINE s == proc[q]
  <2>1. s \in Processes /\ Sound(s)
    BY <1>4
  <2>2. proc'[q] = IF q \in others THEN [s EXCEPT !.clashed = TRUE] ELSE s
    BY <1>2, <1>8
  <2>. HIDE DEF s
  <2>3. [s EXCEPT !.clashed = TRUE] \in Processes /\ Sound([s EXCEPT !.clashed = TRUE])
    BY <2>1, Marked
  <2>4. /\ [s EXCEPT !.clashed = TRUE].pc = s.pc /\ [s EXCEPT !.clashed = TRUE].job = s.job
        /\ [s EXCEPT !.clashed = TRUE].w = s.w /\ [s EXCEPT !.clashed = TRUE].made = s.made
        /\ [s EXCEPT !.clashed = TRUE].storage = s.storage
        /\ [s EXCEPT !.clashed = TRUE].clashed
    BY <2>1 DEF Processes
  <2>5. CASE q \in others
    BY <2>2, <2>3, <2>4, <2>5 DEF s
  <2>6. CASE q \notin others
    BY <2>1, <2>2, <2>6 DEF s
  <2>. QED
    BY <2>5, <2>6
<1>9. proc' \in [Procs -> Processes] /\ \A q \in Procs : Sound(proc'[q])
  <2>1. \A q \in Procs : proc'[q] \in Processes /\ Sound(proc'[q])
    BY <1>3, <1>7, <1>8
  <2>2. proc' = [q \in Procs |-> proc'[q]]
    BY <1>2
  <2>. QED
    BY <2>1, <2>2
<1>10. Running' = Running \cup {p} /\ p \in Procs
  <2>1. \A q \in Procs : q # p => (q \in Running' <=> q \in Running)
    BY <1>8 DEF Running
  <2>2. p \in Running'
    BY <1>3, <1>7 DEF Running
  <2>3. Running' \subseteq Procs
    BY DEF Running
  <2>. QED
    BY <1>5, <1>6, <2>1, <2>2, <2>3
<1>11. Overlap'
  <2>1. SUFFICES ASSUME NEW q \in Running', NEW r \in Running', q # r,
                        Dir(proc'[q].job) = Dir(proc'[r].job)
                 PROVE  proc'[q].clashed
    BY DEF Overlap, Dir, Class
  <2>2. CASE q = p
    <3>1. r \in Running /\ r # p /\ proc'[r].job = proc[r].job /\ proc'[q].job = job
      BY <1>3, <1>5, <1>7, <1>8, <1>10, <2>1, <2>2
    <3>2. r \in others
      BY <1>5, <2>1, <3>1
    <3>. QED
      BY <1>3, <1>7, <2>2, <3>2
  <2>3. CASE r = p
    <3>1. q \in Running /\ q # p /\ proc'[q].job = proc[q].job /\ proc'[r].job = job
      BY <1>3, <1>5, <1>7, <1>8, <1>10, <2>1, <2>3
    <3>2. q \in others
      BY <1>5, <2>1, <3>1
    <3>. QED
      BY <1>5, <1>8, <3>1, <3>2
  <2>4. CASE q # p /\ r # p
    <3>1. /\ q \in Running /\ proc'[q].job = proc[q].job
          /\ r \in Running /\ proc'[r].job = proc[r].job
      BY <1>5, <1>8, <1>10, <2>1, <2>4
    <3>2. proc[q].clashed
      BY <2>1, <3>1 DEF IInv, Overlap
    <3>. QED
      BY <1>5, <1>8, <2>4, <3>1, <3>2
  <2>. QED
    BY <2>2, <2>3, <2>4
<1>12. Linked'
  <2>1. SUFFICES ASSUME NEW q \in Running' PROVE Links(proc'[q], fifos')
    BY DEF Linked, Links, Path, Dir, Class
  <2>2. CASE q = p
    BY <1>3, <1>7, <2>2 DEF Links
  <2>3. CASE q # p
    <3>1. q \in Running /\ Links(proc[q], fifos)
      BY <1>10, <2>3 DEF IInv, Linked
    <3>2. fifos' = fifos
      BY DEF Start
    <3>. QED
      BY <1>5, <1>8, <2>3, <3>1, <3>2 DEF Links
  <2>. QED
    BY <2>2, <2>3
<1>13. runs' \in 0 .. MaxRuns /\ faults' \in 0 .. MaxFaults
  BY Counts DEF Start
<1>. QED
  BY <1>9, <1>11, <1>12, <1>13 DEF IInv

(* Every other step moves one process, which stays sound. *)
LEMMA StepKeeps ==
    ASSUME IInv, NEW p \in Procs,
           \/ NoSource(p) \/ OpenOutput(p) \/ OutputFails(p) \/ Dispatch(p)
           \/ MakePipe(p) \/ MakeFails(p) \/ OpenPipe(p) \/ OpenPipeFails(p) \/ DupPipe(p)
           \/ Engine(p) \/ EngineExits(p)
           \/ DropHandles(p) \/ Unlink(p) \/ Return(p) \/ Kill(p)
    PROVE  IInv'
<1>. DEFINE s == proc[p]
<1>1. s \in Processes /\ Sound(s)
  BY DEF IInv
<1>2. s.pc # "idle" => p \in Running /\ Links(s, fifos)
  BY DEF IInv, Linked, Running
<1>. HIDE DEF s
<1>3. CASE NoSource(p)
  BY <1>3, Counts, Leaves DEF NoSource, Results
<1>4. CASE OpenOutput(p)
  <2>. DEFINE fd == LowestFree(s.open)
              t == [s EXCEPT !.open = (@ \cup {fd}) \ Closed(MovedFrom(fd)),
                             !.files = Append(@, fd)]
  <2>1. /\ s.pc = "outputs" /\ MoreOutputs(s) /\ Becomes(p, t)
        /\ UNCHANGED <<fifos, runs, faults>>
    BY <1>4 DEF OpenOutput, s
  <2>2. t \in Processes /\ Sound(t)
    BY <1>1, <2>1, OpenOutputIsSound
  <2>3. /\ t.pc = s.pc /\ t.job = s.job /\ t.clashed = s.clashed
        /\ t.made = s.made /\ t.storage = s.storage
    BY <1>1 DEF Processes
  <2>. HIDE DEF t
  <2>. QED
    BY <1>2, <2>1, <2>2, <2>3, Counts, GoesOn DEF s
<1>5. CASE OutputFails(p)
  BY <1>5, Counts, Leaves DEF OutputFails, Results
<1>6. CASE Dispatch(p)
  <2>. DEFINE t == [s EXCEPT !.pc = IF s.job.mode > 2 THEN "make"
                                    ELSE IF s.job.mode \in {1, 2} THEN "engine"
                                    ELSE "close"]
  <2>1. /\ s.pc = "outputs" /\ Becomes(p, t) /\ UNCHANGED <<fifos, runs, faults>>
    BY <1>6 DEF Dispatch, s
  <2>2. t \in Processes /\ Sound(t)
    BY <1>1, <2>1, DispatchIsSound
  <2>3. /\ t.pc # "open" /\ t.job = s.job /\ t.clashed = s.clashed
        /\ t.made = s.made /\ t.storage = s.storage
    BY <1>1 DEF Processes
  <2>. HIDE DEF t
  <2>. QED
    BY <1>2, <2>1, <2>2, <2>3, Counts, GoesOn DEF s
<1>7. CASE MakePipe(p)
  <2>. DEFINE i == Len(s.w)
              t == [s EXCEPT !.pc = "open", !.storage = @ \cup {i}, !.made = @ \cup {i}]
  <2>1. /\ s.pc = "make" /\ Becomes(p, t) /\ UNCHANGED <<runs, faults>>
        /\ fifos' = fifos \cup {Path(s.job, i)}
    BY <1>7 DEF MakePipe, s
  <2>2. t \in Processes /\ Sound(t) /\ t.made \ t.storage = {}
    BY <1>1, <2>1, MakePipeIsSound
  <2>3. t.w = s.w /\ t.job = s.job /\ t.clashed = s.clashed
    BY <1>1 DEF Processes
  <2>. HIDE DEF t
  <2>4. Links(t, fifos')
    BY <2>1, <2>2, <2>3 DEF Links
  <2>5. \A d, j : d # Dir(s.job) => (<<d, j>> \in fifos' <=> <<d, j>> \in fifos)
    BY <2>1 DEF Path
  <2>. QED
    BY <1>2, <2>1, <2>2, <2>3, <2>4, <2>5, Counts, Moves DEF s
<1>8. CASE MakeFails(p)
  <2>. DEFINE u == [s EXCEPT !.faulted = TRUE]
              t == [u EXCEPT !.pc = "drop", !.result = "error"]
  <2>1. /\ s.pc = "make" /\ Becomes(p, t) /\ UNCHANGED <<fifos, runs>> /\ Fault
    BY <1>8 DEF MakeFails, MayMake, Unwinds, s
  <2>2. u \in Processes /\ Sound(u) /\ u.pc = s.pc /\ u.faulted
    BY <1>1, Marked DEF Processes
  <2>3. /\ t.pc = "drop" /\ t.job = s.job /\ t.clashed = s.clashed
        /\ t.made = s.made /\ t.storage = s.storage
    BY <1>1 DEF Processes
  <2>. HIDE DEF u
  <2>4. t \in Processes /\ Sound(t)
    BY <2>1, <2>2, UnwoundIsSound
  <2>. HIDE DEF t
  <2>. QED
    BY <1>2, <2>1, <2>3, <2>4, Counts, GoesOn DEF s
<1>9. CASE OpenPipe(p)
  <2>. DEFINE fd == LowestFree(s.open)
              t == [s EXCEPT !.pc = "dup", !.open = @ \cup {fd}, !.w = Append(@, fd)]
  <2>1. s.pc = "open" /\ Becomes(p, t) /\ UNCHANGED <<fifos, runs, faults>>
    BY <1>9 DEF OpenPipe, s
  <2>2. t \in Processes /\ Sound(t)
    BY <1>1, <2>1, OpenPipeIsSound
  <2>3. /\ t.pc = "dup" /\ t.job = s.job /\ t.clashed = s.clashed
        /\ t.made = s.made /\ t.storage = s.storage
    BY <1>1 DEF Processes
  <2>. HIDE DEF t
  <2>. QED
    BY <1>2, <2>1, <2>2, <2>3, Counts, GoesOn DEF s
<1>10. CASE OpenPipeFails(p)
  <2>1. CASE Path(s.job, Len(s.w)) \in fifos
    <3>. DEFINE u == [s EXCEPT !.faulted = TRUE]
                t == [u EXCEPT !.pc = "drop", !.result = "error"]
    <3>1. /\ s.pc = "open" /\ Becomes(p, t) /\ UNCHANGED <<fifos, runs>> /\ Fault
      BY <1>10, <2>1 DEF OpenPipeFails, Unwinds, s
    <3>2. u \in Processes /\ Sound(u) /\ u.pc = s.pc /\ u.faulted
      BY <1>1, Marked DEF Processes
    <3>3. /\ t.pc = "drop" /\ t.job = s.job /\ t.clashed = s.clashed
          /\ t.made = s.made /\ t.storage = s.storage
      BY <1>1 DEF Processes
    <3>. HIDE DEF u
    <3>4. t \in Processes /\ Sound(t)
      BY <3>1, <3>2, UnwoundIsSound
    <3>. HIDE DEF t
    <3>. QED
      BY <1>2, <3>1, <3>3, <3>4, Counts, GoesOn DEF s
  <2>2. CASE Path(s.job, Len(s.w)) \notin fifos
    <3>. DEFINE t == [s EXCEPT !.pc = "drop", !.result = "error"]
    <3>1. /\ s.pc = "open" /\ Becomes(p, t) /\ UNCHANGED <<fifos, runs, faults>>
      BY <1>10, <2>2 DEF OpenPipeFails, Unwinds, s
    <3>2. s.clashed
      BY <1>2, <2>2, <3>1 DEF Links
    <3>3. /\ t.pc = "drop" /\ t.job = s.job /\ t.clashed = s.clashed
          /\ t.made = s.made /\ t.storage = s.storage
      BY <1>1 DEF Processes
    <3>4. t \in Processes /\ Sound(t)
      BY <1>1, <3>1, <3>2, UnwoundIsSound
    <3>. HIDE DEF t
    <3>. QED
      BY <1>2, <3>1, <3>3, <3>4, Counts, GoesOn DEF s
  <2>. QED
    BY <2>1, <2>2
<1>11. CASE DupPipe(p)
  <2>. DEFINE i == Len(s.r)
              t(fd) == [s EXCEPT
               !.pc = IF i = s.job.copies THEN "engine" ELSE "make",
               !.open = (@ \cup Closed(fd)) \
                   (IF i = 0 THEN {}
                    ELSE Closed(MovedFrom(fd)) \cup Closed(MovedFrom(s.w[i + 1]))),
               !.r = Append(@, fd)]
  <2>1. PICK fd \in {LowestFree(s.open), unassigned_fd} :
            /\ IF fd = unassigned_fd THEN Fault ELSE UNCHANGED faults
            /\ Becomes(p, t(fd))
    BY <1>11 DEF DupPipe, s
  <2>2. s.pc = "dup" /\ UNCHANGED <<fifos, runs>>
    BY <1>11 DEF DupPipe, s
  <2>. DEFINE u == t(fd)
  <2>3. u \in Processes /\ Sound(u)
    BY <1>1, <2>2, DupPipeIsSound
  <2>4. /\ u.pc # "open" /\ u.job = s.job /\ u.clashed = s.clashed
        /\ u.made = s.made /\ u.storage = s.storage
    BY <1>1 DEF Processes
  <2>5. Becomes(p, u)
    BY <2>1
  <2>. HIDE DEF u
  <2>. QED
    BY <1>2, <2>1, <2>2, <2>3, <2>4, <2>5, Counts, GoesOn DEF s
<1>12. CASE Engine(p)
  <2>. DEFINE t == [s EXCEPT !.pc = IF s.job.mode > 2 THEN "drop" ELSE "close",
                             !.result = "ok"]
  <2>1. s.pc = "engine" /\ Becomes(p, t) /\ UNCHANGED <<fifos, runs, faults>>
    BY <1>12 DEF Engine, s
  <2>2. t \in Processes /\ Sound(t)
    BY <1>1, <2>1, EngineIsSound
  <2>3. /\ t.pc # "open" /\ t.job = s.job /\ t.clashed = s.clashed
        /\ t.made = s.made /\ t.storage = s.storage
    BY <1>1 DEF Processes
  <2>. HIDE DEF t
  <2>. QED
    BY <1>2, <2>1, <2>2, <2>3, Counts, GoesOn DEF s
<1>13. CASE EngineExits(p)
  BY <1>13, Counts, Leaves DEF EngineExits, Results
<1>14. CASE DropHandles(p)
  <2>. DEFINE t == [s EXCEPT !.pc = "unlink", !.w = <<>>, !.r = <<>>,
                             !.open = @ \ (Range(s.w) \cup Range(s.r))]
  <2>1. s.pc = "drop" /\ Becomes(p, t) /\ UNCHANGED <<fifos, runs, faults>>
    BY <1>14 DEF DropHandles, s
  <2>2. t \in Processes /\ Sound(t)
    BY <1>1, <2>1, DropHandlesIsSound
  <2>3. /\ t.pc = "unlink" /\ t.job = s.job /\ t.clashed = s.clashed
        /\ t.made = s.made /\ t.storage = s.storage
    BY <1>1 DEF Processes
  <2>. HIDE DEF t
  <2>. QED
    BY <1>2, <2>1, <2>2, <2>3, Counts, GoesOn DEF s
<1>15. CASE Unlink(p)
  <2>1. s.pc = "unlink" /\ UNCHANGED <<runs, faults>>
    BY <1>15 DEF Unlink, s
  <2>2. CASE s.storage = {} /\ Becomes(p, [s EXCEPT !.pc = "close"]) /\ UNCHANGED fifos
    <3>. DEFINE t == [s EXCEPT !.pc = "close"]
    <3>1. t \in Processes /\ Sound(t)
      BY <1>1, <2>1, <2>2, UnlinkIsSound
    <3>2. /\ t.pc = "close" /\ t.job = s.job /\ t.clashed = s.clashed
          /\ t.made = s.made /\ t.storage = s.storage
      BY <1>1 DEF Processes
    <3>3. Becomes(p, t)
      BY <2>2
    <3>. HIDE DEF t
    <3>. QED
      BY <1>2, <2>1, <2>2, <3>1, <3>2, <3>3, Counts, GoesOn DEF s
  <2>3. ASSUME NEW i \in s.storage, fifos' = fifos \ Unlinked(Path(s.job, i)),
               Becomes(p, [s EXCEPT !.storage = @ \ {i}])
        PROVE  IInv'
    <3>. DEFINE t == [s EXCEPT !.storage = @ \ {i}]
    <3>1. t \in Processes /\ Sound(t)
      BY <1>1, <2>1, <2>3, UnlinkIsSound
    <3>2. /\ t.pc = "unlink" /\ t.job = s.job /\ t.clashed = s.clashed
          /\ t.made = s.made /\ t.storage = s.storage \ {i}
      BY <1>1, <2>1 DEF Processes
    <3>3. Becomes(p, t)
      BY <2>3
    <3>. HIDE DEF t
    <3>4. Links(t, fifos')
      BY <1>2, <2>1, <2>3, <3>2 DEF Links, Unlinked
    <3>5. \A d, j : d # Dir(s.job) => (<<d, j>> \in fifos' <=> <<d, j>> \in fifos)
      BY <2>3 DEF Path, Unlinked
    <3>. QED
      BY <1>2, <2>1, <3>1, <3>2, <3>3, <3>4, <3>5, Counts, Moves DEF s
  <2>. QED
    BY <1>15, <2>2, <2>3 DEF Unlink, s
<1>16. CASE Return(p)
  <2>. DEFINE t == [s EXCEPT !.pc = "idle", !.files = <<>>, !.source = unassigned_fd,
                             !.open = @ \ (Range(s.files) \cup Closed(s.source))]
  <2>1. s.pc = "close" /\ Becomes(p, t) /\ UNCHANGED <<fifos, runs, faults>>
    BY <1>16 DEF Return, s
  <2>2. t \in Processes /\ Sound(t)
    BY <1>1, <2>1, ReturnIsSound
  <2>3. t.pc = "idle"
    BY <1>1 DEF Processes
  <2>. HIDE DEF t
  <2>. QED
    BY <2>1, <2>2, <2>3, Counts, Moves
<1>17. CASE Kill(p)
  <2>1. [Gone("killed") EXCEPT !.faulted = FALSE] = Gone("killed")
    <3>. DEFINE g == Gone("killed")
    <3>1. g \in Processes /\ g.faulted = FALSE
      BY GoneFields DEF Results
    <3>. HIDE DEF g
    <3>2. [g EXCEPT !.faulted = FALSE] = g
      BY <3>1 DEF Processes
    <3>. QED
      BY <3>2 DEF g
  <2>2. Becomes(p, [Gone("killed") EXCEPT !.faulted = FALSE])
    BY <1>17, <2>1 DEF Kill
  <2>. QED
    BY <1>17, <2>2, Counts, Leaves DEF Kill, Results
<1>. QED
  BY <1>3, <1>4, <1>5, <1>6, <1>7, <1>8, <1>9, <1>10, <1>11, <1>12, <1>13, <1>14, <1>15,
     <1>16, <1>17

(* The invariant is inductive. *)
LEMMA NextIInv == IInv /\ [Next]_vars => IInv'
<1>. SUFFICES ASSUME IInv, [Next]_vars PROVE IInv'
  OBVIOUS
<1>1. CASE UNCHANGED vars
  <2>1. Running' = Running
    BY <1>1 DEF Running, vars
  <2>. QED
    BY <1>1, <2>1 DEF IInv, Overlap, Linked, Links, Path, Dir, Class, vars
<1>2. ASSUME NEW p \in Procs, Start(p) PROVE IInv'
  BY <1>2, StartKeeps
<1>3. ASSUME NEW p \in Procs,
           \/ NoSource(p) \/ OpenOutput(p) \/ OutputFails(p) \/ Dispatch(p)
           \/ MakePipe(p) \/ MakeFails(p) \/ OpenPipe(p) \/ OpenPipeFails(p) \/ DupPipe(p)
           \/ Engine(p) \/ EngineExits(p)
           \/ DropHandles(p) \/ Unlink(p) \/ Return(p) \/ Kill(p)
      PROVE  IInv'
  BY <1>3, StepKeeps
<1>. QED
  BY <1>1, <1>2, <1>3 DEF Next, Terminated

-----------------------------------------------------------------------------
(* What main, its handles and its FIFOs hold in each part of every run,    *)
(* and that runs disturb one another only through shared paths.            *)
THEOREM Invariance == Spec => []IInv
  BY InitIInv, NextIInv, PTL DEF Spec

(* The fields of every process have their types: never more outputs than   *)
(* COPIES, never more FIFOs than COPIES + 1, the reading handle never      *)
(* before the writing one, and pipe_storage only holds what was made.      *)
THEOREM TypeCorrect == Spec => []TypeOK
<1>1. IInv => TypeOK
  <2>. SUFFICES ASSUME IInv, NEW p \in Procs
               PROVE  LET s == proc[p] IN
                      /\ s.pc \in PCs /\ s.open \subseteq Nat
                      /\ Len(s.files) <= s.job.copies
                      /\ Len(s.r) <= Len(s.w) /\ Len(s.w) <= s.job.copies + 1
                      /\ s.storage \subseteq s.made /\ s.made \subseteq 0 .. s.job.copies
                      /\ s.result \in Results
    BY DEF TypeOK, PCs, Results, IInv
  <2>. DEFINE s == proc[p]
  <2>1. s \in Processes /\ Sound(s)
    BY DEF IInv
  <2>. HIDE DEF s
  <2>. QED
    BY <2>1, Fields DEF Sound, Pipes, s
<1>. QED
  BY <1>1, Invariance, PTL

(* Each descriptor of a sound process has one handle. *)
LEMMA OneOwner ==
    ASSUME NEW s \in Processes, Sound(s)
    PROVE  /\ s.open = {Descriptor(s, h) : h \in Handles(s)} \ {unassigned_fd}
           /\ \A g, h \in Handles(s) :
                  Descriptor(s, g) = Descriptor(s, h) /\ g # h =>
                      Descriptor(s, g) = unassigned_fd
<1>. DEFINE H == Handles(s)
            D(h) == Descriptor(s, h)
<1>1. ASSUME NEW h \in H
      PROVE  \/ h = <<"source", 1>> /\ D(h) = s.source
             \/ \E i \in DOMAIN s.files : h = <<"files", i>> /\ D(h) = s.files[i]
             \/ \E i \in DOMAIN s.w : h = <<"w", i>> /\ D(h) = s.w[i]
             \/ \E i \in DOMAIN s.r : h = <<"r", i>> /\ D(h) = s.r[i]
  BY DEF Handles, Descriptor
<1>2. /\ <<"source", 1>> \in H /\ D(<<"source", 1>>) = s.source
      /\ \A i \in DOMAIN s.files : <<"files", i>> \in H /\ D(<<"files", i>>) = s.files[i]
      /\ \A i \in DOMAIN s.w : <<"w", i>> \in H /\ D(<<"w", i>>) = s.w[i]
      /\ \A i \in DOMAIN s.r : <<"r", i>> \in H /\ D(<<"r", i>>) = s.r[i]
  BY DEF Handles, Descriptor
<1>. HIDE DEF H, D
<1>3. /\ \A i \in DOMAIN s.files : s.files[i] \in Range(s.files)
      /\ \A i \in DOMAIN s.w : s.w[i] \in Range(s.w)
      /\ \A i \in DOMAIN s.r : s.r[i] \in Range(s.r)
      /\ \A x \in Range(s.files) : \E i \in DOMAIN s.files : x = s.files[i]
      /\ \A x \in Range(s.w) : \E i \in DOMAIN s.w : x = s.w[i]
      /\ \A x \in Range(s.r) : \E i \in DOMAIN s.r : x = s.r[i]
  BY DEF Range
<1>. DEFINE all == {s.source} \cup Range(s.files) \cup Range(s.w) \cup Range(s.r)
<1>4. {D(h) : h \in H} = all
  <2>1. \A h \in H : D(h) \in all
    BY <1>1, <1>3
  <2>2. ASSUME NEW x \in all PROVE \E h \in H : D(h) = x
    <3>1. CASE x = s.source
      BY <1>2, <3>1
    <3>2. CASE x \in Range(s.files)
      <4>1. PICK i \in DOMAIN s.files : x = s.files[i]
        BY <1>3, <3>2
      <4>. QED
        BY <1>2, <4>1
    <3>3. CASE x \in Range(s.w)
      <4>1. PICK i \in DOMAIN s.w : x = s.w[i]
        BY <1>3, <3>3
      <4>. QED
        BY <1>2, <4>1
    <3>4. CASE x \in Range(s.r)
      <4>1. PICK i \in DOMAIN s.r : x = s.r[i]
        BY <1>3, <3>4
      <4>. QED
        BY <1>2, <4>1
    <3>. QED
      BY <3>1, <3>2, <3>3, <3>4
  <2>. HIDE DEF all
  <2>. QED
    BY <2>1, <2>2
<1>5. s.open = {D(h) : h \in H} \ {unassigned_fd}
  BY <1>4 DEF Sound, Owned
<1>6. ASSUME NEW g \in H, NEW h \in H, D(g) = D(h), g # h
      PROVE  D(g) = unassigned_fd
  BY <1>1, <1>3, <1>6 DEF Sound, Owned, Distinct
<1>. QED
  BY <1>5, <1>6 DEF H, D

(* Every descriptor a run has open belongs to exactly one of its handles:  *)
(* whatever handles are moved, whatever calls fail and wherever the scopes *)
(* are left, no descriptor is closed twice and none is leaked.             *)
THEOREM DescriptorsHaveOneOwner == Spec => []Ownership
<1>1. IInv => Ownership
  BY OneOwner DEF IInv, Ownership
<1>. QED
  BY <1>1, Invariance, PTL

(* A run fails only by a call of its own or by a run of its mode and class *)
(* that is under way at the same time: FIFOs killed runs left do not harm. *)
THEOREM RunsFailByThemselves == Spec => []FailsByItself
<1>1. IInv => FailsByItself
  BY DEF IInv, Sound, Excused, FailsByItself
<1>. QED
  BY <1>1, Invariance, PTL

(* A run that returns has unlinked all the FIFOs it used, those it found   *)
(* included, unless a neighbour makes them; with result ok it used every   *)
(* path of its class.                                                      *)
THEOREM RunsReturnClean == Spec => ReturnsClean
<1>. DEFINE Clean == \A p \in Procs :
        LET s == proc[p] IN
        s.pc = "close" /\ proc'[p].pc = "idle" =>
            /\ ~s.clashed => \A i \in s.made : Path(s.job, i) \notin fifos'
            /\ s.result = "ok" /\ s.job.mode > 2 => s.made = 0 .. s.job.copies
<1>1. IInv /\ [Next]_vars => [Clean]_vars
  <2>. SUFFICES ASSUME IInv, Next, NEW p \in Procs,
                      proc[p].pc = "close", proc'[p].pc = "idle"
               PROVE  LET s == proc[p] IN
                      /\ ~s.clashed => \A i \in s.made : Path(s.job, i) \notin fifos'
                      /\ s.result = "ok" /\ s.job.mode > 2 => s.made = 0 .. s.job.copies
    OBVIOUS
  <2>. DEFINE s == proc[p]
  <2>1. s \in Processes /\ Sound(s) /\ Links(s, fifos) /\ s.pc = "close"
    BY DEF IInv, Linked, Running
  <2>2. fifos' = fifos
    <3>1. ASSUME NEW q \in Procs, MakePipe(q) \/ Unlink(q) PROVE FALSE
      <4>1. proc[q].pc # "close"
        BY <3>1 DEF MakePipe, Unlink
      <4>2. proc'[p] = proc[p]
        BY <3>1, <4>1 DEF MakePipe, Unlink, Becomes, IInv
      <4>. QED
        BY <4>2
    <3>2. ASSUME NEW q \in Procs,
           \/ Start(q) \/ NoSource(q) \/ OpenOutput(q) \/ OutputFails(q) \/ Dispatch(q)
           \/ MakeFails(q) \/ OpenPipe(q) \/ OpenPipeFails(q) \/ DupPipe(q)
           \/ Engine(q) \/ EngineExits(q)
           \/ DropHandles(q) \/ Return(q) \/ Kill(q)
          PROVE  fifos' = fifos
      BY <3>2 DEF Start, NoSource, OpenOutput, OutputFails, Dispatch, MakeFails, OpenPipe,
                  OpenPipeFails, DupPipe, Engine, EngineExits, DropHandles, Return, Kill
    <3>. QED
      BY <3>1, <3>2 DEF Next, Terminated, vars
  <2>3. s.storage = {}
    BY <2>1 DEF Sound, Made
  <2>. HIDE DEF s
  <2>4. ~s.clashed => \A i \in s.made : Path(s.job, i) \notin fifos'
    BY <2>1, <2>2, <2>3 DEF Links
  <2>5. s.result = "ok" /\ s.job.mode > 2 => s.made = 0 .. s.job.copies
    BY <2>1 DEF Sound, Made
  <2>. QED
    BY <2>4, <2>5 DEF s
<1>. QED
  BY <1>1, Invariance, PTL DEF Spec, ReturnsClean
=============================================================================
