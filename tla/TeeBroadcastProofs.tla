-------------------------- MODULE TeeBroadcastProofs --------------------------
(***************************************************************************)
(* Mode 4: type correctness, what residue does to the data, the clearing   *)
(* of the pipes, the refinement of the abstract broadcast, the total, that *)
(* the call never hangs while residue leaves room, and that every step     *)
(* brings it nearer to its end, for every number of outputs, size of file, *)
(* chunk and pipe, and every number of faults.                             *)
(*                                                                         *)
(* What is in the pipes depends on how far the chain of the chunk under    *)
(* way is.  A chain is therefore named by the start of its chunk and the   *)
(* number of its entries that have been executed.                          *)
(***************************************************************************)
EXTENDS TeeBroadcast, SharedLemmas

Starts == StartsIn(ChunkSize, FileSize)
LenAt(s) == LengthIn(ChunkSize, FileSize, s)
StartOf(o) == StartIn(ChunkSize, o)

(* The entries of a chain by their position. *)
Last == 2 * NumOutputs
Positions == 1 .. Last
OpAt(j) == IF j = 1 THEN "source" ELSE IF j = Last THEN "last"
           ELSE IF j % 2 = 0 THEN "tee" ELSE "drain"
ForAt(j) == IF j = 1 THEN 0 ELSE IF j = Last THEN NumOutputs ELSE j \div 2
EntryAt(s, j) ==
    [op |-> OpAt(j), d |-> ForAt(j), off |-> s, len |-> LenAt(s), link |-> j # Last]

(* What is left of the chain of the chunk at s after h entries. *)
Executed == 0 .. (Last - 1)
Suffix(s, h) == [i \in 1 .. (Last - h) |-> EntryAt(s, h + i)]

(* Where in a chain an output is written, and a pipe drained. *)
WriteAt(d) == IF d = NumOutputs THEN Last ELSE 2 * d + 1
DrainAt(p) == IF p = 0 THEN Last ELSE 2 * p + 1

(* The chunk has not been written to the output, and may still be. *)
Pending(s, d) == \E h \in Executed : Suffix(s, h) \in chains /\ h < WriteAt(d)

-----------------------------------------------------------------------------
(* The loop goes from chunk to chunk. *)
LoopState ==
    /\ total_processed < FileSize => total_processed \in Starts
    /\ pc = "prepare" => total_processed < FileSize
    /\ pc = "done" => total_processed = FileSize
    /\ pc = "wait" => total_processed > 0

(* Chains and completions are those of chunks that were submitted.         *)
Completions == {Completion(EntryAt(s, j), res) : s \in Starts, j \in Positions,
                                                 res \in -1 .. ChunkSize}

Shape ==
    /\ \A chain \in chains : \E s \in Starts, h \in Executed :
          chain = Suffix(s, h) /\ s < total_processed
    /\ \A s \in Starts, h \in Executed, g \in Executed :
          Suffix(s, h) \in chains /\ Suffix(s, g) \in chains => h = g
    /\ IsFiniteSet(cq) /\ cq \subseteq Completions

(* An output is written at an offset by the one entry there is for it. *)
Unwritten ==
    \A d \in Outputs, o \in Offsets :
        content[d][o] # Hole =>
            StartOf(o) < total_processed /\ ~Pending(StartOf(o), d)

PipeTypes == pipe \in [Pipes -> Seq(Offsets)]
Histories == interrupted \/ short => faults > 0
HistoryTypes == interrupted \in BOOLEAN /\ short \in BOOLEAN

(* Unless a wait was interrupted the loop sees the completions of a chunk  *)
(* all together, before it submits the next chunk.                         *)
OneAtATime ==
    ~interrupted =>
        /\ pc # "wait" => chains = {} /\ cq = {}
        /\ \A s \in Starts, h \in Executed : Suffix(s, h) \in chains =>
              /\ s + LenAt(s) = total_processed
              /\ Cardinality(cq) + (Last - h) <= Last

(* Nothing in a pipe is ahead of its place there. *)
Behind ==
    ~interrupted =>
        /\ \A p \in Pipes : \A j \in DOMAIN pipe[p] :
              pipe[p][j] <= total_processed + j - 1
        /\ \A s \in Starts, h \in Executed, p \in Pipes :
              Suffix(s, h) \in chains /\ h < DrainAt(p) =>
                  \A j \in DOMAIN pipe[p] : pipe[p][j] <= s + j - 1
        /\ \A d \in Outputs, o \in Offsets :
              content[d][o] # Hole => content[d][o] <= o

IInv == /\ TypeOK /\ PipeTypes /\ LoopState /\ Shape /\ Unwritten
        /\ Histories /\ HistoryTypes
        /\ OneAtATime /\ Behind

(* The units of a chunk, as they are in a pipe. *)
UnitsOf(s) == [i \in 1 .. LenAt(s) |-> s + i - 1]

(* The pipes hold the chunk under way where its chain has brought it, and  *)
(* the outputs what was written.                                           *)
Clean ==
    /\ chains = {} => \A p \in Pipes : pipe[p] = <<>>
    /\ \A s \in Starts, h \in Executed : Suffix(s, h) \in chains =>
          \A p \in Pipes :
              pipe[p] = IF (p = 0 /\ h >= 1) \/ (p # 0 /\ h = 2 * p)
                        THEN UnitsOf(s) ELSE <<>>
    /\ \A d \in Outputs, o \in Offsets :
          StartOf(o) < total_processed /\ ~Pending(StartOf(o), d) => content[d][o] = o

(* A chunk whose chain was cut: its last entry was not executed. *)
Lost ==
    \E s \in Starts :
        /\ s < total_processed
        /\ \A h \in Executed : Suffix(s, h) \notin chains
        /\ \A o \in Offsets : StartOf(o) = s => content[NumOutputs][o] = Hole

CleanOrLost == ~interrupted /\ ~short => Clean \/ Lost

(* With room for a chunk in a pipe, a chain is cut by faults only. *)
CleanUnlessFaults == ChunkSize <= PipeSize /\ faults = 0 => Clean

(* A chain has filled the pipe that its next entry but the first takes     *)
(* from.                                                                   *)
FedAt(p, h) == (p = 0 /\ h >= 1) \/ (p # 0 /\ h = 2 * p)

Fed ==
    ~interrupted =>
        \A s \in Starts, h \in Executed, p \in Pipes :
            Suffix(s, h) \in chains /\ FedAt(p, h) => LenAt(s) <= Len(pipe[p])

(* What the total counts: the offsets written of the chunks that have been *)
(* seen.                                                                   *)
Counted ==
    {u \in Outputs \X Offsets :
        /\ content[u[1]][u[2]] # Hole
        /\ pc = "wait" => StartOf(u[2]) + LenAt(StartOf(u[2])) < total_processed}

(* The completions to be seen are those of one chunk; the ones that will   *)
(* be counted wrote all of it.                                             *)
WroteAll(c) ==
    c.op \in {"drain", "last"} /\ c.res >= 0 =>
        /\ c.res = c.len
        /\ \A o \in Offsets : StartOf(o) = c.off => content[c.d][o] # Hole

Accounted ==
    ~interrupted /\ ~short =>
        /\ total_data_moved <= Cardinality(Counted)
        /\ \A c \in cq : c.off + c.len = total_processed /\ WroteAll(c)

(* Beside the chunk under way a pipe holds what faults have left there. *)
HasRoom == ~interrupted /\ ChunkSize * (faults + 1) <= PipeSize

Spare ==
    HasRoom =>
        /\ chains = {} => \A p \in Pipes : Len(pipe[p]) <= ChunkSize * faults
        /\ \A s \in Starts, h \in Executed, p \in Pipes : Suffix(s, h) \in chains =>
              Len(pipe[p]) <= ChunkSize * faults + (IF FedAt(p, h) THEN LenAt(s) ELSE 0)

(* Each entry of the chain waited for has completed or is still to come. *)
Reported ==
    pc = "wait" =>
        \A j \in Positions :
            \/ \E c \in cq : c.op = OpAt(j) /\ c.d = ForAt(j)
            \/ \E s \in Starts, h \in Executed : Suffix(s, h) \in chains /\ h < j

-----------------------------------------------------------------------------
(* What the constants are. *)
LEMMA Constants ==
    /\ NumOutputs \in Nat \ {0} /\ FileSize \in Nat
    /\ ChunkSize \in Nat \ {0} /\ PipeSize \in Nat \ {0} /\ MaxFaults \in Nat
    /\ Hole \notin Nat
    /\ Last \in Nat /\ Last >= 2
  BY TeeAssumption DEF Last

(* The chunks of the file. *)
LEMMA ChunkFacts ==
    ASSUME NEW s \in Starts
    PROVE  /\ s \in Nat /\ s < FileSize
           /\ LenAt(s) \in 1 .. ChunkSize /\ LenAt(s) \in Nat
           /\ s + LenAt(s) <= FileSize
           /\ s + LenAt(s) < FileSize => s + LenAt(s) \in Starts
           /\ \A t \in Starts : s < t => s + LenAt(s) <= t
           /\ \A i \in 1 .. LenAt(s) : s + i - 1 \in Offsets
           /\ StartOf(s) = s
<1>. DEFINE n == LengthIn(ChunkSize, FileSize, s)
<1>1. /\ s \in Nat /\ s < FileSize /\ n \in 1 .. ChunkSize
      /\ s + n <= FileSize /\ s = ChunkSize * (s \div ChunkSize)
  BY Constants, ChunkInFile DEF Starts
<1>2. /\ \A t \in StartsIn(ChunkSize, FileSize) : s < t => s + n <= t
      /\ s + n < FileSize => s + n \in StartsIn(ChunkSize, FileSize)
  BY Constants, NextChunk DEF Starts
<1>3. StartOf(s) = s
  BY <1>1 DEF StartOf, StartIn
<1>. HIDE DEF n
<1>4. \A i \in 1 .. n : s + i - 1 \in Offsets
  BY <1>1, Constants DEF Offsets
<1>5. n = LenAt(s)
  BY DEF n, LenAt
<1>. QED
  BY <1>1, <1>2, <1>3, <1>4, <1>5, Constants DEF Starts

(* The offsets of a chunk: those between its start and its end. *)
LEMMA OffsetFacts ==
    ASSUME NEW o \in Offsets
    PROVE  /\ StartOf(o) \in Starts /\ StartOf(o) <= o /\ o \in Nat
           /\ \A s \in Starts :
                /\ o \in s .. (s + LenAt(s) - 1) <=> StartOf(o) = s
                /\ o < s <=> StartOf(o) < s
                /\ o < s + LenAt(s) <=> StartOf(o) <= s
<1>1. o \in 0 .. (FileSize - 1)
  BY DEF Offsets
<1>2. StartOf(o) \in Starts /\ StartOf(o) <= o
  BY <1>1, Constants, StartInFile DEF StartOf, Starts
<1>3. ASSUME NEW s \in Starts
      PROVE  /\ o \in s .. (s + LenAt(s) - 1) <=> StartOf(o) = s
             /\ o < s <=> StartOf(o) < s
             /\ o < s + LenAt(s) <=> StartOf(o) <= s
  BY <1>1, Constants, InChunkOf DEF StartOf, Starts, LenAt
<1>4. o \in Nat
  BY <1>1
<1>. QED
  BY <1>2, <1>3, <1>4

(* A position in a chain and what its entry is for: the tees are the even  *)
(* positions between the first and the last, the drains the odd ones.      *)
LEMMA PositionFacts ==
    ASSUME NEW j \in Positions
    PROVE  /\ j \in Nat /\ j >= 1 /\ j <= Last
           /\ OpAt(j) \in {"source", "tee", "drain", "last"}
           /\ OpAt(j) = "source" <=> j = 1
           /\ OpAt(j) = "last" <=> j = Last
           /\ OpAt(j) = "tee" => ForAt(j) \in 1 .. (NumOutputs - 1) /\ j = 2 * ForAt(j)
           /\ OpAt(j) = "drain" =>
                ForAt(j) \in 1 .. (NumOutputs - 1) /\ j = 2 * ForAt(j) + 1
           /\ OpAt(j) = "last" => ForAt(j) = NumOutputs
<1>. DEFINE q == j \div 2
            m == j % 2
<1>1. j \in Nat /\ j >= 1 /\ j <= Last
  BY Constants DEF Positions
<1>2. q \in Nat /\ m \in 0 .. 1 /\ j = 2 * q + m
  <2>1. 2 \in Nat \ {0}
    OBVIOUS
  <2>. QED
    BY <1>1, <2>1, DivMod
<1>. HIDE DEF q, m
<1>3. /\ OpAt(j) = IF j = 1 THEN "source" ELSE IF j = Last THEN "last"
                   ELSE IF m = 0 THEN "tee" ELSE "drain"
      /\ ForAt(j) = IF j = 1 THEN 0 ELSE IF j = Last THEN NumOutputs ELSE q
  BY DEF OpAt, ForAt, q, m
<1>4. j # 1 /\ j # Last => q \in 1 .. (NumOutputs - 1)
  BY <1>1, <1>2, Constants DEF Last
<1>5. m # 0 => m = 1
  BY <1>2
<1>6. m = 0 => j = 2 * q
  BY <1>2
<1>. QED
  <2>1. CASE j = 1
    BY <2>1, <1>1, <1>3, Constants
  <2>2. CASE j = Last
    BY <2>2, <1>1, <1>3, Constants
  <2>3. CASE j # 1 /\ j # Last /\ m = 0
    BY <2>3, <1>1, <1>3, <1>4, <1>6
  <2>4. CASE j # 1 /\ j # Last /\ m # 0
    BY <2>4, <1>1, <1>2, <1>3, <1>4, <1>5
  <2>. QED
    BY <2>1, <2>2, <2>3, <2>4

(* Each output is written at one position, each pipe is drained at one.    *)
LEMMA PlaceFacts ==
    /\ \A d \in Outputs : /\ WriteAt(d) \in Positions /\ WriteAt(d) \in Nat
                          /\ OpAt(WriteAt(d)) \in {"drain", "last"}
                          /\ ForAt(WriteAt(d)) = d
    /\ \A p \in Pipes : DrainAt(p) \in Nat /\ DrainAt(p) <= Last
    /\ \A j \in Positions : OpAt(j) \in {"drain", "last"} =>
          /\ ForAt(j) \in Outputs /\ WriteAt(ForAt(j)) = j
    /\ \A j \in Positions : OpAt(j) = "tee" => ForAt(j) \in Pipes \ {0}
    /\ \A j \in Positions : OpAt(j) = "drain" =>
          /\ ForAt(j) \in Pipes \ {0} /\ DrainAt(ForAt(j)) = j
    /\ 0 \in Pipes /\ DrainAt(0) = Last /\ WriteAt(NumOutputs) = Last
    /\ NumOutputs \in Outputs
<1>1. ASSUME NEW d \in Outputs
      PROVE  /\ WriteAt(d) \in Positions /\ WriteAt(d) \in Nat
             /\ OpAt(WriteAt(d)) \in {"drain", "last"}
             /\ ForAt(WriteAt(d)) = d
  <2>1. d \in Nat /\ d >= 1 /\ d <= NumOutputs
    BY Constants DEF Outputs
  <2>2. CASE d = NumOutputs
    BY <2>1, <2>2, Constants DEF WriteAt, Positions, OpAt, ForAt
  <2>3. CASE d # NumOutputs
    <3>1. /\ WriteAt(d) = 2 * d + 1 /\ WriteAt(d) # 1 /\ WriteAt(d) # Last
          /\ WriteAt(d) \in Positions /\ WriteAt(d) \in Nat
      BY <2>1, <2>3, Constants DEF WriteAt, Positions, Last
    <3>2. (2 * d + 1) % 2 = 1 /\ (2 * d + 1) \div 2 = d
      BY <2>1
    <3>. QED
      BY <3>1, <3>2 DEF OpAt, ForAt
  <2>. QED
    BY <2>2, <2>3
<1>2. ASSUME NEW p \in Pipes
      PROVE  DrainAt(p) \in Nat /\ DrainAt(p) <= Last
  BY Constants DEF Pipes, DrainAt, Last
<1>3. ASSUME NEW j \in Positions, OpAt(j) \in {"drain", "last"}
      PROVE  ForAt(j) \in Outputs /\ WriteAt(ForAt(j)) = j
  <2>1. CASE OpAt(j) = "last"
    BY <2>1, PositionFacts, Constants DEF WriteAt, Outputs
  <2>2. CASE OpAt(j) = "drain"
    <3>1. ForAt(j) \in 1 .. (NumOutputs - 1) /\ j = 2 * ForAt(j) + 1
      BY <2>2, PositionFacts
    <3>. QED
      BY <3>1, Constants DEF WriteAt, Outputs
  <2>. QED
    BY <1>3, <2>1, <2>2
<1>4. ASSUME NEW j \in Positions, OpAt(j) = "tee"
      PROVE  ForAt(j) \in Pipes \ {0}
  <2>1. ForAt(j) \in 1 .. (NumOutputs - 1)
    BY <1>4, PositionFacts
  <2>. QED
    BY <2>1, Constants DEF Pipes
<1>5. ASSUME NEW j \in Positions, OpAt(j) = "drain"
      PROVE  ForAt(j) \in Pipes \ {0} /\ DrainAt(ForAt(j)) = j
  <2>1. ForAt(j) \in 1 .. (NumOutputs - 1) /\ j = 2 * ForAt(j) + 1
    BY <1>5, PositionFacts
  <2>. QED
    BY <2>1, Constants DEF Pipes, DrainAt
<1>6. 0 \in Pipes /\ DrainAt(0) = Last /\ WriteAt(NumOutputs) = Last
      /\ NumOutputs \in Outputs
  BY Constants DEF Pipes, DrainAt, WriteAt, Outputs
<1>. QED
  BY <1>1, <1>2, <1>3, <1>4, <1>5, <1>6

(* What is left of a chain: its length, its first entry, its rest. *)
LEMMA SuffixFacts ==
    ASSUME NEW s \in Starts, NEW h \in Executed
    PROVE  /\ h \in Nat /\ h + 1 \in Positions
           /\ Len(Suffix(s, h)) = Last - h
           /\ DOMAIN Suffix(s, h) = 1 .. (Last - h)
           /\ Suffix(s, h)[1] = EntryAt(s, h + 1)
           /\ \A i \in 1 .. (Last - h) : Suffix(s, h)[i] = EntryAt(s, h + i)
           /\ Len(Suffix(s, h)) > 1 <=> h + 1 \in Executed
           /\ Len(Suffix(s, h)) > 1 => Tail(Suffix(s, h)) = Suffix(s, h + 1)
<1>. DEFINE c == Suffix(s, h)
            n == Last - h
<1>1. h \in Nat /\ h < Last /\ n \in Nat /\ n >= 1 /\ h + 1 \in Positions
  BY Constants DEF Executed, Positions
<1>2. DOMAIN c = 1 .. n /\ \A i \in 1 .. n : c[i] = EntryAt(s, h + i)
  BY DEF Suffix
<1>. HIDE DEF n
<1>3. c = [i \in 1 .. n |-> EntryAt(s, h + i)]
  BY DEF Suffix, n
<1>4. Len(c) = n
  BY <1>1, <1>3
<1>5. n > 1 <=> h + 1 \in Executed
  BY <1>1, Constants DEF n, Executed
<1>6. ASSUME n > 1 PROVE Tail(c) = Suffix(s, h + 1)
  <2>1. Tail(c) = [i \in 1 .. (n - 1) |-> c[i + 1]]
    BY <1>1, <1>3, <1>4, <1>6
  <2>2. n - 1 = Last - (h + 1)
    BY <1>1, Constants DEF n
  <2>3. ASSUME NEW i \in 1 .. (n - 1)
        PROVE  c[i + 1] = EntryAt(s, (h + 1) + i)
    <3>1. i + 1 \in 1 .. n /\ h + (i + 1) = (h + 1) + i
      BY <1>1
    <3>2. c[i + 1] = EntryAt(s, h + (i + 1))
      BY <3>1, <1>2
    <3>. QED
      BY <3>1, <3>2
  <2>. HIDE DEF c
  <2>4. Tail(c) = [i \in 1 .. (n - 1) |-> EntryAt(s, (h + 1) + i)]
    BY <2>1, <2>3
  <2>. QED
    BY <2>2, <2>4 DEF Suffix
<1>7. 1 \in 1 .. n
  BY <1>1
<1>. QED
  BY <1>1, <1>2, <1>4, <1>5, <1>6, <1>7 DEF n

(* Chains have different names only if they are different. *)
LEMMA SuffixNames ==
    ASSUME NEW s \in Starts, NEW h \in Executed, NEW t \in Starts, NEW g \in Executed,
           Suffix(s, h) = Suffix(t, g)
    PROVE  s = t /\ h = g
<1>1. Last - h = Last - g /\ EntryAt(s, h + 1) = EntryAt(t, g + 1)
  <2>. DEFINE c == Suffix(s, h)
              e == Suffix(t, g)
  <2>1. /\ Len(c) = Last - h /\ c[1] = EntryAt(s, h + 1)
        /\ Len(e) = Last - g /\ e[1] = EntryAt(t, g + 1)
    BY SuffixFacts
  <2>2. c = e
    OBVIOUS
  <2>. HIDE DEF c, e
  <2>. QED
    BY <2>1, <2>2
<1>2. h = g
  BY <1>1, SuffixFacts, Constants
<1>. QED
  BY <1>1, <1>2 DEF EntryAt

(* Entries of a chunk at different positions are different. *)
LEMMA EntryNames ==
    ASSUME NEW s, NEW t, NEW i \in Positions, NEW j \in Positions, i # j
    PROVE  EntryAt(s, i) # EntryAt(t, j)
<1>1. OpAt(i) # OpAt(j) \/ ForAt(i) # ForAt(j)
  BY PositionFacts
<1>. QED
  BY <1>1, Zenon DEF EntryAt

(* What SubmitChunk hands over is one chain. *)
LEMMA ChunkChainFacts ==
    ASSUME total_processed \in Starts
    PROVE  /\ Chunk = LenAt(total_processed)
           /\ Chains(ChunkChain) = {Suffix(total_processed, 0)}
           /\ 0 \in Executed
<1>. DEFINE s == total_processed
            c == Suffix(s, 0)
            E == {EntryAt(s, j) : j \in Positions}
<1>1. Chunk = LenAt(s)
  BY DEF Chunk, LenAt, LengthIn
<1>2. 0 \in Executed
  BY Constants DEF Executed
<1>3. ASSUME NEW j \in Positions
      PROVE  (IF j = 1 THEN SourceEntry ELSE IF j = Last THEN LastEntry
              ELSE IF j % 2 = 0 THEN Entry("tee", j \div 2)
              ELSE Entry("drain", j \div 2)) = EntryAt(s, j)
  <2>1. j = 1 => j # Last
    BY Constants
  <2>. QED
    BY <1>1, <2>1 DEF SourceEntry, LastEntry, Entry, EntryAt, OpAt, ForAt
<1>4. Last - 0 = Last /\ \A j \in Positions : 0 + j = j
  BY Constants DEF Positions
<1>5. ChunkChain = [j \in Positions |-> EntryAt(s, j)]
  BY <1>3 DEF ChunkChain, Positions, Last
<1>6. c = [j \in Positions |-> EntryAt(s, j)]
  BY <1>4 DEF Suffix, Positions
<1>7. Chains(c) = {c}
  <2>1. c \in Seq(E)
    BY <1>6, Constants DEF Positions
  <2>2. Len(c) = Last
    BY <1>2, <1>4, SuffixFacts
  <2>3. c # <<>>
    <3>1. Len(c) # 0
      BY <2>2, Constants
    <3>. HIDE DEF c
    <3>. QED
      BY <3>1
  <2>4. \A i \in Positions : c[i].link <=> i # Last
    <3>1. \A i \in Positions : c[i] = EntryAt(s, i)
      BY <1>6
    <3>2. \A i \in Positions : EntryAt(s, i).link <=> i # Last
      BY Zenon DEF EntryAt
    <3>. HIDE DEF c
    <3>. QED
      BY <3>1, <3>2, Zenon
  <2>5. \A i \in 1 .. (Len(c) - 1) : c[i].link
    BY <2>2, <2>4, Constants DEF Positions
  <2>6. ~c[Len(c)].link
    BY <2>2, <2>4, Constants DEF Positions
  <2>. HIDE DEF c, E
  <2>. QED
    BY <2>1, <2>3, <2>5, <2>6, OneChain
<1>. QED
  BY <1>1, <1>2, <1>5, <1>6, <1>7

-----------------------------------------------------------------------------
(* The types, as the proofs use them. *)
LEMMA Types ==
    ASSUME TypeOK, PipeTypes, HistoryTypes
    PROVE  /\ pc \in {"prepare", "wait", "done"}
           /\ total_processed \in Nat /\ total_processed <= FileSize
           /\ total_data_moved \in Nat
           /\ \A p \in Pipes : /\ pipe[p] \in Seq(Offsets)
                               /\ Len(pipe[p]) \in Nat /\ Len(pipe[p]) <= PipeSize
                               /\ DOMAIN pipe[p] = 1 .. Len(pipe[p])
                               /\ \A j \in 1 .. Len(pipe[p]) : pipe[p][j] \in Nat
           /\ \A d \in Outputs, o \in Offsets :
                content[d][o] = Hole \/ content[d][o] \in Offsets
           /\ \A o \in Offsets : o \in Nat /\ o # Hole
           /\ faults \in Nat /\ faults <= MaxFaults
<1>1. \A o \in Offsets : o \in Nat /\ o # Hole
  BY Constants DEF Offsets
<1>2. ASSUME NEW p \in Pipes
      PROVE  /\ pipe[p] \in Seq(Offsets)
             /\ Len(pipe[p]) \in Nat /\ Len(pipe[p]) <= PipeSize
             /\ DOMAIN pipe[p] = 1 .. Len(pipe[p])
             /\ \A j \in 1 .. Len(pipe[p]) : pipe[p][j] \in Nat
  <2>1. pipe[p] \in Seq(Offsets) /\ Len(pipe[p]) <= PipeSize
    BY DEF TypeOK
  <2>2. /\ Len(pipe[p]) \in Nat /\ DOMAIN pipe[p] = 1 .. Len(pipe[p])
        /\ \A j \in 1 .. Len(pipe[p]) : pipe[p][j] \in Offsets
    BY <2>1
  <2>. QED
    BY <1>1, <2>1, <2>2
<1>3. \A d \in Outputs, o \in Offsets :
          content[d][o] = Hole \/ content[d][o] \in Offsets
  BY DEF TypeOK
<1>. QED
  BY <1>1, <1>2, <1>3, Constants DEF TypeOK

(* The chunk that is submitted. *)
LEMMA SubmitStep ==
    ASSUME IInv, SubmitChunk
    PROVE  /\ pc = "prepare" /\ pc' = "wait"
           /\ total_processed \in Starts
           /\ total_processed' = total_processed + LenAt(total_processed)
           /\ chains' = chains \cup {Suffix(total_processed, 0)}
           /\ 0 \in Executed
           /\ \A s \in Starts, h \in Executed :
                /\ Suffix(s, h) \in chains =>
                      s < total_processed /\ s + LenAt(s) <= total_processed
                /\ Suffix(s, h) \in chains' <=>
                      Suffix(s, h) \in chains \/ (s = total_processed /\ h = 0)
           /\ UNCHANGED <<total_data_moved, cq, pipe, content, faults, short, interrupted>>
<1>1. total_processed \in Starts
  BY DEF IInv, LoopState, SubmitChunk
<1>2. /\ Chunk = LenAt(total_processed)
      /\ Chains(ChunkChain) = {Suffix(total_processed, 0)}
      /\ 0 \in Executed
  BY <1>1, ChunkChainFacts
<1>3. /\ chains' = chains \cup {Suffix(total_processed, 0)}
      /\ total_processed' = total_processed + LenAt(total_processed)
      /\ pc = "prepare" /\ pc' = "wait"
      /\ UNCHANGED <<total_data_moved, cq, pipe, content, faults, short, interrupted>>
  BY <1>2 DEF SubmitChunk, faultVars
<1>4. ASSUME NEW s \in Starts, NEW h \in Executed, Suffix(s, h) \in chains
      PROVE  s < total_processed /\ s + LenAt(s) <= total_processed
  <2>1. PICK t \in Starts, g \in Executed : Suffix(s, h) = Suffix(t, g) /\ t < total_processed
    BY <1>4 DEF IInv, Shape
  <2>2. s < total_processed
    BY <2>1, SuffixNames
  <2>. QED
    BY <1>1, <2>2, ChunkFacts
<1>5. ASSUME NEW s \in Starts, NEW h \in Executed
      PROVE  Suffix(s, h) \in chains' <=>
                 Suffix(s, h) \in chains \/ (s = total_processed /\ h = 0)
  BY <1>1, <1>2, <1>3, SuffixNames
<1>. QED
  BY <1>1, <1>2, <1>3, <1>4, <1>5

(* What is left of the chains when one goes on, or is cut. *)
LEMMA ChainsAfter ==
    ASSUME Shape, NEW s \in Starts, NEW h \in Executed, Suffix(s, h) \in chains,
           NEW full \in BOOLEAN, NEW after, after = Advance(chains, Suffix(s, h), full)
    PROVE  /\ \A t \in Starts, g \in Executed :
                Suffix(t, g) \in after <=>
                    \/ t # s /\ Suffix(t, g) \in chains
                    \/ t = s /\ full /\ g = h + 1
           /\ \A chain \in after : chain \in chains \/
                (h + 1 \in Executed /\ chain = Suffix(s, h + 1))
<1>. DEFINE c == Suffix(s, h)
<1>1. /\ Len(c) > 1 <=> h + 1 \in Executed
      /\ Len(c) > 1 => Tail(c) = Suffix(s, h + 1)
  BY SuffixFacts
<1>2. after = (chains \ {c}) \cup
                  (IF full /\ Len(c) > 1 THEN {Tail(c)} ELSE {})
  BY DEF Advance
<1>3. /\ ~(full /\ h + 1 \in Executed) => after = chains \ {c}
      /\ full /\ h + 1 \in Executed => after = (chains \ {c}) \cup {Suffix(s, h + 1)}
  <2>. HIDE DEF c
  <2>. QED
    BY <1>1, <1>2, Zenon
<1>4. ASSUME NEW t \in Starts, NEW g \in Executed
      PROVE  Suffix(t, g) \in after <=>
                 \/ t # s /\ Suffix(t, g) \in chains
                 \/ t = s /\ full /\ g = h + 1
  <2>1. Suffix(t, g) \in chains \ {c} <=> t # s /\ Suffix(t, g) \in chains
    <3>1. ASSUME t = s, Suffix(t, g) \in chains PROVE Suffix(t, g) = c
      BY <3>1 DEF Shape
    <3>2. Suffix(t, g) = c => t = s
      BY SuffixNames
    <3>. QED
      BY <3>1, <3>2, Zenon
  <2>2. CASE full /\ h + 1 \in Executed
    <3>1. Suffix(t, g) = Suffix(s, h + 1) <=> t = s /\ g = h + 1
      BY <2>2, SuffixNames
    <3>. HIDE DEF c
    <3>. QED
      BY <1>3, <2>1, <2>2, <3>1, Zenon
  <2>3. CASE ~(full /\ h + 1 \in Executed)
    <3>. HIDE DEF c
    <3>. QED
      BY <1>3, <2>1, <2>3, Zenon
  <2>. QED
    BY <2>2, <2>3
<1>5. \A chain \in after : chain \in chains \/
          (h + 1 \in Executed /\ chain = Suffix(s, h + 1))
  <2>. HIDE DEF c
  <2>. QED
    BY <1>3, Zenon
<1>. QED
  BY <1>4, <1>5

(* The completions of the entry executed, and of those cancelled with it. *)
NewCompletions(s, h, k) ==
    {Completion(EntryAt(s, h + 1), k)} \cup
        {Completion(EntryAt(s, h + i), -1) :
            i \in IF k = LenAt(s) THEN {} ELSE 2 .. (Last - h)}

(* What moves, in terms of the pipes. *)
Filled(s, k) ==
    /\ k <= PipeSize - Len(pipe[0])
    /\ pipe' = [pipe EXCEPT ![0] = @ \o [i \in 1 .. k |-> s + i - 1]]
    /\ content' = content

Teed(p, k) ==
    /\ k <= Len(pipe[0]) /\ k <= PipeSize - Len(pipe[p])
    /\ pipe' = [pipe EXCEPT ![p] = @ \o SubSeq(pipe[0], 1, k)]
    /\ content' = content

Drained(s, p, d, k) ==
    /\ k <= Len(pipe[p])
    /\ pipe' = [pipe EXCEPT ![p] = SubSeq(@, k + 1, Len(@))]
    /\ content' = [content EXCEPT ![d] =
          [o \in Offsets |-> IF o - s \in 0 .. (k - 1)
                             THEN pipe[p][o - s + 1] ELSE @[o]]]

Moves(s, j, k) ==
    \/ k = -1 /\ pipe' = pipe /\ content' = content
    \/ k > 0 /\ OpAt(j) = "source" /\ Filled(s, k)
    \/ k > 0 /\ OpAt(j) = "tee" /\ Teed(ForAt(j), k)
    \/ /\ k > 0 /\ OpAt(j) \in {"drain", "last"}
       /\ \E p \in Pipes : DrainAt(p) = j /\ Drained(s, p, ForAt(j), k)

(* Whether by a fault it is less than what could be moved. *)
MaybeFaulty(j, k, most) ==
    \/ k = most /\ UNCHANGED <<faults, short, interrupted>>
    \/ /\ k # most /\ faults < MaxFaults /\ faults' = faults + 1
       /\ short' = (short \/ (k > 0 /\ OpAt(j) \in {"drain", "last"}))
       /\ interrupted' = interrupted

(* An entry moves what there is and what fits, at most. *)
LEMMA MovableFacts ==
    ASSUME IInv, NEW s \in Starts, NEW j \in Positions
    PROVE  LET most == Movable(EntryAt(s, j))
           IN  /\ most \in Nat /\ most <= LenAt(s)
               /\ OpAt(j) = "source" =>
                    /\ most <= PipeSize - Len(pipe[0])
                    /\ LenAt(s) <= PipeSize - Len(pipe[0]) => most = LenAt(s)
               /\ OpAt(j) = "tee" =>
                    /\ most <= Len(pipe[0]) /\ most <= PipeSize - Len(pipe[ForAt(j)])
                    /\ LenAt(s) <= Len(pipe[0])
                         /\ LenAt(s) <= PipeSize - Len(pipe[ForAt(j)]) => most = LenAt(s)
               /\ \A p \in Pipes : OpAt(j) \in {"drain", "last"} /\ DrainAt(p) = j =>
                    /\ most <= Len(pipe[p])
                    /\ LenAt(s) <= Len(pipe[p]) => most = LenAt(s)
<1>. DEFINE e == EntryAt(s, j)
            n == LenAt(s)
            there == IF OpAt(j) = "source" THEN n ELSE Len(pipe[Input(e)])
            room == IF OpAt(j) \in {"source", "tee"}
                    THEN PipeSize - Len(pipe[Output(e)]) ELSE n
            most == CHOOSE m \in {n, there, room} : m <= n /\ m <= there /\ m <= room
<1>1. /\ e.op = OpAt(j) /\ e.d = ForAt(j) /\ e.len = n
      /\ Input(e) = IF OpAt(j) = "drain" THEN ForAt(j) ELSE 0
      /\ Output(e) = IF OpAt(j) = "tee" THEN ForAt(j) ELSE 0
  BY DEF EntryAt, Input, Output
<1>2. Input(e) \in Pipes /\ Output(e) \in Pipes
  BY <1>1, PlaceFacts
<1>3. Movable(e) = most
  BY <1>1 DEF Movable
<1>4. n \in Nat /\ there \in Nat /\ room \in Nat
  <2>1. n \in Nat /\ PipeSize \in Nat
    BY ChunkFacts, Constants
  <2>2. \A p \in Pipes : Len(pipe[p]) \in Nat /\ Len(pipe[p]) <= PipeSize
    BY Types DEF IInv
  <2>. QED
    BY <1>2, <2>1, <2>2
<1>5. /\ most \in {n, there, room} /\ most <= n /\ most <= there /\ most <= room
  <2>. HIDE DEF n, there, room
  <2>1. \E m \in {n, there, room} : m <= n /\ m <= there /\ m <= room
    BY <1>4
  <2>. QED
    BY <2>1
<1>6. ASSUME NEW p \in Pipes, OpAt(j) \in {"drain", "last"}, DrainAt(p) = j
      PROVE  there = Len(pipe[p]) /\ room = n
  <2>1. Input(e) = p
    <3>1. CASE OpAt(j) = "drain"
      <4>1. ForAt(j) \in Pipes \ {0} /\ DrainAt(ForAt(j)) = j /\ ForAt(j) < NumOutputs
            /\ j < Last /\ j = 2 * ForAt(j) + 1
        BY <3>1, PlaceFacts, PositionFacts, Constants DEF Pipes, Last
      <4>. QED
        BY <1>1, <3>1, <4>1, <1>6, Constants DEF DrainAt, Pipes
    <3>2. CASE OpAt(j) = "last"
      <4>1. j = Last
        BY <3>2, PositionFacts
      <4>2. p = 0
        BY <4>1, <1>6, Constants DEF DrainAt, Pipes, Last
      <4>. QED
        BY <1>1, <3>2, <4>2
    <3>. QED
      BY <1>6, <3>1, <3>2
  <2>. QED
    BY <2>1, <1>6
<1>7. OpAt(j) = "source" => there = n /\ room = PipeSize - Len(pipe[0])
  BY <1>1
<1>8. OpAt(j) = "tee" => there = Len(pipe[0]) /\ room = PipeSize - Len(pipe[ForAt(j)])
  BY <1>1
<1>9. most \in Nat
  BY <1>4, <1>5
<1>10. n <= there /\ n <= room => most = n
  <2>. HIDE DEF n, there, room, most
  <2>. QED
    BY <1>4, <1>5
<1>11. \A p \in Pipes : OpAt(j) \in {"drain", "last"} /\ DrainAt(p) = j =>
           /\ most <= Len(pipe[p])
           /\ n <= Len(pipe[p]) => most = n
  <2>1. n <= n
    BY <1>4
  <2>. HIDE DEF n, there, room, most
  <2>. QED
    BY <1>5, <1>6, <1>10, <2>1
<1>12. OpAt(j) = "source" =>
           /\ most <= PipeSize - Len(pipe[0])
           /\ n <= PipeSize - Len(pipe[0]) => most = n
  <2>1. n <= n
    BY <1>4
  <2>. HIDE DEF n, there, room, most
  <2>. QED
    BY <1>5, <1>7, <1>10, <2>1
<1>13. OpAt(j) = "tee" =>
           /\ most <= Len(pipe[0]) /\ most <= PipeSize - Len(pipe[ForAt(j)])
           /\ n <= Len(pipe[0]) /\ n <= PipeSize - Len(pipe[ForAt(j)]) => most = n
  <2>. HIDE DEF n, there, room, most
  <2>. QED
    BY <1>5, <1>8, <1>10
<1>. HIDE DEF most, there, room
<1>. QED
  BY <1>3, <1>5, <1>9, <1>11, <1>12, <1>13

(* What the kernel does with a chain, by the chunk and the position. *)
Ran(s, h, k, chain) ==
    /\ chain = Suffix(s, h) /\ s < total_processed
    /\ k \in Int /\ k <= LenAt(s) /\ (k = -1 \/ k > 0)
    /\ Moves(s, h + 1, k)
    /\ MaybeFaulty(h + 1, k, Movable(EntryAt(s, h + 1)))
    /\ \A t \in Starts, g \in Executed :
          Suffix(t, g) \in chains' <=>
              \/ t # s /\ Suffix(t, g) \in chains
              \/ t = s /\ k = LenAt(s) /\ g = h + 1
    /\ \A c \in chains' : c \in chains \/ (h + 1 \in Executed /\ c = Suffix(s, h + 1))
    /\ cq' = cq \cup NewCompletions(s, h, k)
    /\ UNCHANGED <<pc, total_processed, total_data_moved>>

(* The step of the kernel on a chain is one of those. *)
LEMMA ExecuteStep ==
    ASSUME IInv, NEW chain \in chains, Execute(chain)
    PROVE  \E s \in Starts, h \in Executed, k \in Int : Ran(s, h, k, chain)
<1>1. PICK s \in Starts, h \in Executed : chain = Suffix(s, h) /\ s < total_processed
  BY DEF IInv, Shape
<1>. DEFINE j == h + 1
            e == EntryAt(s, j)
            most == Movable(e)
<1>2. /\ chain[1] = e /\ j \in Positions /\ h \in Nat
      /\ Len(chain) = Last - h
      /\ \A i \in 1 .. (Last - h) : chain[i] = EntryAt(s, h + i)
  BY <1>1, SuffixFacts
<1>3. /\ e.op = OpAt(j) /\ e.d = ForAt(j) /\ e.len = LenAt(s) /\ e.off = s
  BY DEF EntryAt
<1>4. most \in Nat /\ most <= LenAt(s) /\ LenAt(s) \in Nat
  BY <1>2, MovableFacts, ChunkFacts
<1>5. PICK k \in -1 .. most :
        /\ k # 0
        /\ IF k = most
           THEN UNCHANGED faultVars
           ELSE /\ faults < MaxFaults
                /\ faults' = faults + 1
                /\ short' = (short \/ (k > 0 /\ e.op \in {"drain", "last"}))
                /\ UNCHANGED interrupted
        /\ IF k > 0 THEN Move(e, k) ELSE UNCHANGED <<pipe, content>>
        /\ chains' = Advance(chains, chain, k = e.len)
        /\ cq' = cq \cup {Completion(e, k)}
                    \cup {Completion(x, -1) : x \in Severed(chain, k = e.len)}
  <2>1. Execute(chain) => \E k \in -1 .. most :
        /\ k # 0
        /\ IF k = most
           THEN UNCHANGED faultVars
           ELSE /\ faults < MaxFaults
                /\ faults' = faults + 1
                /\ short' = (short \/ (k > 0 /\ e.op \in {"drain", "last"}))
                /\ UNCHANGED interrupted
        /\ IF k > 0 THEN Move(e, k) ELSE UNCHANGED <<pipe, content>>
        /\ chains' = Advance(chains, chain, k = e.len)
        /\ cq' = cq \cup {Completion(e, k)}
                    \cup {Completion(x, -1) : x \in Severed(chain, k = e.len)}
    <3>. HIDE DEF e
    <3>. QED
      BY <1>2, Zenon DEF Execute
  <2>. QED
    BY <2>1
<1>6. k \in Int /\ k <= LenAt(s) /\ (k = -1 \/ k > 0) /\ (k <= 0 <=> k = -1)
  BY <1>4, <1>5
<1>7. MaybeFaulty(j, k, most)
  <2>. HIDE DEF most, j
  <2>. QED
    BY <1>3, <1>5 DEF MaybeFaulty, faultVars
<1>8. Moves(s, j, k)
  <2>1. CASE k = -1
    BY <2>1, <1>5 DEF Moves
  <2>2. CASE k > 0
    <3>1. Move(e, k)
      BY <1>5, <2>2
    <3>2. k <= most
      BY <1>4, <1>5
    <3>3. CASE OpAt(j) = "source"
      <4>1. Len(pipe[0]) \in Nat /\ PipeSize \in Nat
        BY Types, PlaceFacts, Constants DEF IInv
      <4>2. most <= PipeSize - Len(pipe[0])
        BY <1>2, <3>3, MovableFacts
      <4>3. k <= PipeSize - Len(pipe[0])
        <5>. HIDE DEF most
        <5>. QED
          BY <1>4, <1>6, <3>2, <4>1, <4>2
      <4>. HIDE DEF e, j
      <4>. QED
        BY <1>3, <2>2, <3>1, <3>3, <4>3 DEF Moves, Filled, Move
    <3>4. CASE OpAt(j) = "tee"
      <4>1. Len(pipe[0]) \in Nat /\ PipeSize \in Nat /\ Len(pipe[ForAt(j)]) \in Nat
        BY <1>2, <3>4, Types, PlaceFacts, Constants DEF IInv
      <4>2. most <= Len(pipe[0]) /\ most <= PipeSize - Len(pipe[ForAt(j)])
        BY <1>2, <3>4, MovableFacts
      <4>3. k <= Len(pipe[0]) /\ k <= PipeSize - Len(pipe[ForAt(j)])
        <5>. HIDE DEF most
        <5>. QED
          BY <1>4, <1>6, <3>2, <4>1, <4>2
      <4>. HIDE DEF e, j
      <4>. QED
        BY <1>3, <2>2, <3>1, <3>4, <4>3 DEF Moves, Teed, Move
    <3>5. CASE OpAt(j) \in {"drain", "last"}
      <4>. DEFINE p == Input(e)
      <4>1. p = IF OpAt(j) = "drain" THEN ForAt(j) ELSE 0
        BY <1>3 DEF Input
      <4>2. p \in Pipes /\ DrainAt(p) = j
        <5>1. OpAt(j) = "last" => j = Last
          BY <1>2, PositionFacts
        <5>. HIDE DEF p, j
        <5>. QED
          BY <1>2, <3>5, <4>1, <5>1, PlaceFacts DEF j
      <4>3. Len(pipe[p]) \in Nat
        BY <4>2, Types DEF IInv
      <4>4. most <= Len(pipe[p])
        BY <1>2, <3>5, <4>2, MovableFacts
      <4>5. k <= Len(pipe[p])
        <5>. HIDE DEF most
        <5>. QED
          BY <1>4, <1>6, <3>2, <4>3, <4>4
      <4>6. Drained(s, p, ForAt(j), k)
        <5>1. /\ pipe' = [pipe EXCEPT ![p] = SubSeq(@, k + 1, Len(@))]
              /\ content' = [content EXCEPT ![e.d] =
                    [o \in Offsets |-> IF o - e.off \in 0 .. (k - 1)
                                       THEN pipe[p][o - e.off + 1] ELSE @[o]]]
          <6>. HIDE DEF e, j
          <6>. QED
            BY <1>3, <3>1, <3>5 DEF Move, p
        <5>. HIDE DEF e, j, p
        <5>. QED
          BY <1>3, <4>5, <5>1 DEF Drained
      <4>. HIDE DEF j, p
      <4>. QED
        BY <2>2, <3>5, <4>2, <4>6 DEF Moves
    <3>. QED
      BY <1>2, <3>3, <3>4, <3>5, PositionFacts
  <2>. QED
    BY <1>6, <2>1, <2>2
<1>9. /\ \A t \in Starts, g \in Executed :
            Suffix(t, g) \in chains' <=>
                \/ t # s /\ Suffix(t, g) \in chains
                \/ t = s /\ k = LenAt(s) /\ g = h + 1
      /\ \A c \in chains' : c \in chains \/ (h + 1 \in Executed /\ c = Suffix(s, h + 1))
  <2>. DEFINE full == k = LenAt(s)
              after == chains'
  <2>1. Shape
    BY DEF IInv
  <2>2. after = Advance(chains, Suffix(s, h), full)
    BY <1>1, <1>3, <1>5
  <2>3. full \in BOOLEAN
    OBVIOUS
  <2>4. Suffix(s, h) \in chains
    BY <1>1
  <2>. HIDE DEF full, after
  <2>5. /\ \A t \in Starts, g \in Executed :
              Suffix(t, g) \in after <=>
                  \/ t # s /\ Suffix(t, g) \in chains
                  \/ t = s /\ full /\ g = h + 1
        /\ \A c \in after : c \in chains \/
              (h + 1 \in Executed /\ c = Suffix(s, h + 1))
    BY <2>1, <2>2, <2>3, <2>4, ChainsAfter
  <2>. QED
    BY <2>5, Zenon DEF full, after
<1>10. cq' = cq \cup NewCompletions(s, h, k)
  <2>1. {Completion(x, -1) : x \in Severed(chain, k = LenAt(s))} =
            {Completion(EntryAt(s, h + i), -1) :
                i \in IF k = LenAt(s) THEN {} ELSE 2 .. (Last - h)}
    <3>1. CASE k = LenAt(s)
      BY <3>1 DEF Severed
    <3>2. CASE k # LenAt(s)
      <4>1. Severed(chain, k = LenAt(s)) = {chain[i] : i \in 2 .. (Last - h)}
        BY <1>2, <3>2 DEF Severed
      <4>2. 2 .. (Last - h) \subseteq 1 .. (Last - h)
        BY <1>2, Constants
      <4>3. \A i \in 2 .. (Last - h) : chain[i] = EntryAt(s, h + i)
        BY <1>2, <4>2
      <4>4. {Completion(x, -1) : x \in Severed(chain, k = LenAt(s))} =
                {Completion(chain[i], -1) : i \in 2 .. (Last - h)}
        BY <4>1
      <4>5. {Completion(chain[i], -1) : i \in 2 .. (Last - h)} =
                {Completion(EntryAt(s, h + i), -1) : i \in 2 .. (Last - h)}
        BY <4>3
      <4>. QED
        BY <3>2, <4>4, <4>5
    <3>. QED
      BY <3>1, <3>2
  <2>2. /\ cq' = cq \cup {Completion(e, k)}
                    \cup {Completion(x, -1) : x \in Severed(chain, k = e.len)}
        /\ e.len = LenAt(s)
    BY <1>3, <1>5
  <2>. QED
    BY <2>1, <2>2 DEF NewCompletions
<1>11. UNCHANGED <<pc, total_processed, total_data_moved>>
  BY DEF Execute
<1>12. Ran(s, h, k, chain)
  BY <1>1, <1>6, <1>7, <1>8, <1>9, <1>10, <1>11 DEF Ran
<1>. QED
  BY <1>6, <1>12

-----------------------------------------------------------------------------
(* What is appended to a sequence and what is left of one. *)
LEMMA SequenceParts ==
    ASSUME NEW S, NEW q \in Seq(S), NEW k \in Nat
    PROVE  /\ \A r \in Seq(S) :
                /\ q \o r \in Seq(S) /\ Len(q \o r) = Len(q) + Len(r)
                /\ \A i \in 1 .. (Len(q) + Len(r)) :
                     (q \o r)[i] = IF i <= Len(q) THEN q[i] ELSE r[i - Len(q)]
           /\ k <= Len(q) =>
                /\ SubSeq(q, 1, k) \in Seq(S) /\ Len(SubSeq(q, 1, k)) = k
                /\ \A i \in 1 .. k : SubSeq(q, 1, k)[i] = q[i]
                /\ SubSeq(q, k + 1, Len(q)) \in Seq(S)
                /\ Len(SubSeq(q, k + 1, Len(q))) = Len(q) - k
                /\ \A i \in 1 .. (Len(q) - k) : SubSeq(q, k + 1, Len(q))[i] = q[i + k]
<1>1. ASSUME NEW r \in Seq(S)
      PROVE  /\ q \o r \in Seq(S) /\ Len(q \o r) = Len(q) + Len(r)
             /\ \A i \in 1 .. (Len(q) + Len(r)) :
                  (q \o r)[i] = IF i <= Len(q) THEN q[i] ELSE r[i - Len(q)]
  OBVIOUS
<1>2. ASSUME k <= Len(q)
      PROVE  /\ SubSeq(q, 1, k) \in Seq(S) /\ Len(SubSeq(q, 1, k)) = k
             /\ \A i \in 1 .. k : SubSeq(q, 1, k)[i] = q[i]
  BY <1>2
<1>3. ASSUME k <= Len(q)
      PROVE  /\ SubSeq(q, k + 1, Len(q)) \in Seq(S)
             /\ Len(SubSeq(q, k + 1, Len(q))) = Len(q) - k
             /\ \A i \in 1 .. (Len(q) - k) : SubSeq(q, k + 1, Len(q))[i] = q[i + k]
  BY <1>3
<1>. QED
  BY <1>1, <1>2, <1>3

(* A moved unit keeps its place from the chunk's start, or moves up in its *)
(* pipe by what was drained.                                               *)
Kept(p, i) == i \in DOMAIN pipe[p] /\ pipe'[p][i] = pipe[p][i]

Arrived(s, j, p, i) ==
    /\ j < DrainAt(p)
    /\ \E m \in 1 .. i : \/ pipe'[p][i] = s + m - 1
                         \/ m \in DOMAIN pipe[0] /\ j < Last /\ pipe'[p][i] = pipe[0][m]

MovedUp(j, k, p, i) ==
    DrainAt(p) = j /\ k > 0 /\ i + k \in DOMAIN pipe[p] /\ pipe'[p][i] = pipe[p][i + k]

(* Where the units of a pipe come from in a step. *)
LEMMA PipesAfter ==
    ASSUME IInv, NEW s \in Starts, NEW j \in Positions, NEW k \in Int,
           k <= LenAt(s), k = -1 \/ k > 0, Moves(s, j, k)
    PROVE  /\ pipe' \in [Pipes -> Seq(Offsets)]
           /\ \A p \in Pipes : Len(pipe'[p]) <= PipeSize
           /\ \A p \in Pipes : \A i \in DOMAIN pipe'[p] :
                Kept(p, i) \/ Arrived(s, j, p, i) \/ MovedUp(j, k, p, i)
<1>1. pipe \in [Pipes -> Seq(Offsets)] /\ 0 \in Pipes
  BY PlaceFacts DEF IInv, PipeTypes
<1>2. \A p \in Pipes : /\ pipe[p] \in Seq(Offsets)
                       /\ Len(pipe[p]) \in Nat /\ Len(pipe[p]) <= PipeSize
                       /\ DOMAIN pipe[p] = 1 .. Len(pipe[p])
  BY Types DEF IInv
<1>3. PipeSize \in Nat /\ Last \in Nat /\ Last >= 2
  BY Constants
<1>4. CASE pipe' = pipe
  BY <1>1, <1>2, <1>4 DEF Kept
<1>5. CASE k > 0 /\ OpAt(j) = "source" /\ Filled(s, k)
  <2>. DEFINE f == [i \in 1 .. k |-> s + i - 1]
              q == pipe[0]
              r == q \o f
  <2>1. f \in Seq(Offsets) /\ Len(f) = k
    <3>1. k \in Nat
      BY <1>5
    <3>2. \A i \in 1 .. k : s + i - 1 \in Offsets
      <4>1. \A i \in 1 .. LenAt(s) : s + i - 1 \in Offsets
        BY ChunkFacts
      <4>2. 1 .. k \subseteq 1 .. LenAt(s)
        BY ChunkFacts, <3>1
      <4>. QED
        BY <4>1, <4>2
    <3>. QED
      BY <3>1, <3>2
  <2>2. q \in Seq(Offsets) /\ Len(q) \in Nat /\ DOMAIN q = 1 .. Len(q)
    BY <1>1, <1>2
  <2>3. k <= PipeSize - Len(q) /\ pipe' = [pipe EXCEPT ![0] = r]
    BY <1>5 DEF Filled
  <2>. HIDE DEF f, q
  <2>4. r \in Seq(Offsets) /\ Len(r) = Len(q) + k /\ Len(r) \in Nat
    BY <1>5, <2>1, <2>2
  <2>5. ASSUME NEW i \in 1 .. (Len(q) + k)
        PROVE  /\ i <= Len(q) => r[i] = q[i]
               /\ ~(i <= Len(q)) => r[i] = s + (i - Len(q)) - 1
    <3>1. i <= Len(q) => r[i] = q[i]
      BY <2>1, <2>2
    <3>2. ASSUME ~(i <= Len(q)) PROVE r[i] = s + (i - Len(q)) - 1
      <4>1. i - Len(q) \in 1 .. k
        BY <2>2, <3>2, <1>5
      <4>2. f[i - Len(q)] = s + (i - Len(q)) - 1
        BY <4>1 DEF f
      <4>3. r[i] = f[i - Len(q)]
        BY <2>1, <2>2, <3>2
      <4>. QED
        BY <4>2, <4>3
    <3>. QED
      BY <3>1, <3>2
  <2>. HIDE DEF f, r, q
  <2>6. pipe' \in [Pipes -> Seq(Offsets)] /\ pipe'[0] = r
        /\ \A p \in Pipes \ {0} : pipe'[p] = pipe[p]
    BY <1>1, <2>3, <2>4
  <2>7. Len(pipe'[0]) <= PipeSize
    BY <1>3, <1>5, <2>2, <2>3, <2>4, <2>6
  <2>8. ASSUME NEW i \in DOMAIN pipe'[0]
        PROVE  Kept(0, i) \/ Arrived(s, j, 0, i)
    <3>1. i \in 1 .. (Len(q) + k)
      BY <2>4, <2>6
    <3>2. CASE i <= Len(q)
      BY <2>2, <2>5, <2>6, <3>1, <3>2 DEF Kept, q
    <3>3. CASE ~(i <= Len(q))
      <4>1. /\ i - Len(q) \in 1 .. i /\ r[i] = s + (i - Len(q)) - 1
        BY <2>2, <2>5, <3>1, <3>3
      <4>2. j < DrainAt(0)
        BY <1>3, <1>5, PositionFacts, PlaceFacts
      <4>. QED
        BY <2>6, <4>1, <4>2 DEF Arrived
    <3>. QED
      BY <3>2, <3>3
  <2>9. \A p \in Pipes \ {0} : \A i \in DOMAIN pipe'[p] : Kept(p, i)
    BY <2>6 DEF Kept
  <2>. QED
    BY <1>2, <2>6, <2>7, <2>8, <2>9
<1>6. CASE k > 0 /\ OpAt(j) = "tee" /\ Teed(ForAt(j), k)
  <2>. DEFINE d == ForAt(j)
              f == SubSeq(pipe[0], 1, k)
              q == pipe[d]
              r == q \o f
  <2>1. d \in Pipes \ {0} /\ j = 2 * d /\ d \in Nat /\ d < NumOutputs
    BY <1>6, PlaceFacts, PositionFacts, Constants DEF Pipes
  <2>2. k \in Nat /\ k <= Len(pipe[0]) /\ k <= PipeSize - Len(q)
        /\ pipe' = [pipe EXCEPT ![d] = r]
    BY <1>6 DEF Teed
  <2>3. /\ f \in Seq(Offsets) /\ Len(f) = k
        /\ \A i \in 1 .. k : f[i] = pipe[0][i]
    <3>1. pipe[0] \in Seq(Offsets)
      BY <1>1, <1>2
    <3>. QED
      BY <2>2, <3>1, SequenceParts
  <2>4. q \in Seq(Offsets) /\ Len(q) \in Nat /\ DOMAIN q = 1 .. Len(q)
    BY <1>2, <2>1
  <2>. HIDE DEF f, q, d
  <2>5. r \in Seq(Offsets) /\ Len(r) = Len(q) + k /\ Len(r) \in Nat
    BY <2>2, <2>3, <2>4
  <2>6. \A i \in 1 .. (Len(q) + k) :
            r[i] = IF i <= Len(q) THEN q[i] ELSE f[i - Len(q)]
    BY <2>2, <2>3, <2>4
  <2>. HIDE DEF r
  <2>7. pipe' \in [Pipes -> Seq(Offsets)] /\ pipe'[d] = r
        /\ \A p \in Pipes \ {d} : pipe'[p] = pipe[p]
    BY <1>1, <2>1, <2>2, <2>5
  <2>8. Len(pipe'[d]) <= PipeSize
    BY <1>3, <2>2, <2>4, <2>5, <2>7
  <2>9. ASSUME NEW i \in DOMAIN pipe'[d]
        PROVE  Kept(d, i) \/ Arrived(s, j, d, i)
    <3>1. i \in 1 .. (Len(q) + k)
      BY <2>5, <2>7
    <3>2. CASE i <= Len(q)
      BY <2>4, <2>6, <2>7, <3>1, <3>2 DEF Kept, q
    <3>3. CASE ~(i <= Len(q))
      <4>. DEFINE m == i - Len(q)
      <4>1. m \in 1 .. i /\ m \in 1 .. k
        BY <2>2, <2>4, <3>1, <3>3
      <4>2. r[i] = f[m] /\ f[m] = pipe[0][m]
        BY <2>3, <2>6, <3>1, <3>3, <4>1
      <4>3. m \in DOMAIN pipe[0]
        BY <1>1, <1>2, <2>2, <4>1
      <4>4. j < DrainAt(d) /\ j < Last
        BY <2>1, Constants DEF DrainAt, Last
      <4>. HIDE DEF m
      <4>. QED
        BY <2>7, <4>1, <4>2, <4>3, <4>4 DEF Arrived
    <3>. QED
      BY <3>2, <3>3
  <2>10. \A p \in Pipes \ {d} : \A i \in DOMAIN pipe'[p] : Kept(p, i)
    BY <2>7 DEF Kept
  <2>. QED
    BY <1>2, <2>7, <2>8, <2>9, <2>10
<1>7. ASSUME k > 0, NEW p \in Pipes, DrainAt(p) = j, Drained(s, p, ForAt(j), k)
      PROVE  /\ pipe' \in [Pipes -> Seq(Offsets)]
             /\ \A x \in Pipes : Len(pipe'[x]) <= PipeSize
             /\ \A x \in Pipes : \A i \in DOMAIN pipe'[x] :
                  Kept(x, i) \/ MovedUp(j, k, x, i)
  <2>. DEFINE q == pipe[p]
              r == SubSeq(q, k + 1, Len(q))
  <2>1. k \in Nat /\ k <= Len(q) /\ pipe' = [pipe EXCEPT ![p] = r]
    BY <1>7 DEF Drained
  <2>2. q \in Seq(Offsets) /\ Len(q) \in Nat /\ DOMAIN q = 1 .. Len(q)
        /\ Len(q) <= PipeSize
    BY <1>2
  <2>. HIDE DEF q
  <2>3. /\ r \in Seq(Offsets) /\ Len(r) = Len(q) - k
        /\ \A i \in 1 .. (Len(q) - k) : r[i] = q[i + k]
    BY <2>1, <2>2, SequenceParts
  <2>. HIDE DEF r
  <2>4. pipe' \in [Pipes -> Seq(Offsets)] /\ pipe'[p] = r
        /\ \A x \in Pipes \ {p} : pipe'[x] = pipe[x]
    BY <1>1, <2>1, <2>3
  <2>5. Len(pipe'[p]) <= PipeSize
    BY <1>3, <2>1, <2>2, <2>3, <2>4
  <2>6. ASSUME NEW i \in DOMAIN pipe'[p] PROVE MovedUp(j, k, p, i)
    <3>1. i \in 1 .. (Len(q) - k)
      BY <2>1, <2>2, <2>3, <2>4
    <3>2. i + k \in 1 .. Len(q)
      BY <2>1, <2>2, <3>1
    <3>. QED
      BY <1>7, <2>2, <2>3, <2>4, <3>1, <3>2 DEF MovedUp, q
  <2>7. \A x \in Pipes \ {p} : \A i \in DOMAIN pipe'[x] : Kept(x, i)
    BY <2>4 DEF Kept
  <2>. QED
    BY <1>2, <2>4, <2>5, <2>6, <2>7
<1>. QED
  BY <1>4, <1>5, <1>6, <1>7 DEF Moves

(* What an output holds after a step: what was written to it by the entry  *)
(* there is for it, and what it held.                                      *)
LEMMA ContentAfter ==
    ASSUME IInv, NEW s \in Starts, NEW j \in Positions, NEW k \in Int,
           k <= LenAt(s), k = -1 \/ k > 0, Moves(s, j, k)
    PROVE  /\ content' \in [Outputs -> [Offsets -> Offsets \cup {Hole}]]
           /\ \A d \in Outputs, o \in Offsets :
                LET writes == k > 0 /\ j = WriteAt(d) /\ o \in s .. (s + k - 1)
                IN  /\ ~writes => content'[d][o] = content[d][o]
                    /\ writes => \E p \in Pipes :
                          /\ DrainAt(p) = j /\ o - s + 1 \in DOMAIN pipe[p]
                          /\ content'[d][o] = pipe[p][o - s + 1]
                          /\ content'[d][o] \in Offsets
<1>1. content \in [Outputs -> [Offsets -> Offsets \cup {Hole}]]
  BY DEF IInv, TypeOK
<1>2. CASE content' = content /\ ~(k > 0 /\ OpAt(j) \in {"drain", "last"})
  <2>1. \A d \in Outputs : ~(k > 0 /\ j = WriteAt(d))
    BY <1>2, PlaceFacts
  <2>. QED
    BY <1>1, <1>2, <2>1
<1>3. ASSUME k > 0, OpAt(j) \in {"drain", "last"},
             NEW p \in Pipes, DrainAt(p) = j, Drained(s, p, ForAt(j), k)
      PROVE  /\ content' \in [Outputs -> [Offsets -> Offsets \cup {Hole}]]
             /\ \A d \in Outputs, o \in Offsets :
                LET writes == k > 0 /\ j = WriteAt(d) /\ o \in s .. (s + k - 1)
                IN  /\ ~writes => content'[d][o] = content[d][o]
                    /\ writes => /\ o - s + 1 \in DOMAIN pipe[p]
                                 /\ content'[d][o] = pipe[p][o - s + 1]
                                 /\ content'[d][o] \in Offsets
  <2>. DEFINE f == ForAt(j)
              q == pipe[p]
              new == [o \in Offsets |-> IF o - s \in 0 .. (k - 1)
                                        THEN q[o - s + 1] ELSE content[f][o]]
  <2>1. f \in Outputs /\ WriteAt(f) = j
    BY <1>3, PlaceFacts
  <2>2. k <= Len(q) /\ content' = [content EXCEPT ![f] = new]
    BY <1>1, <1>3, <2>1 DEF Drained
  <2>3. q \in Seq(Offsets) /\ Len(q) \in Nat /\ DOMAIN q = 1 .. Len(q)
    BY Types DEF IInv
  <2>4. ASSUME NEW o \in Offsets
        PROVE  /\ o - s \in 0 .. (k - 1) <=> o \in s .. (s + k - 1)
               /\ o - s \in 0 .. (k - 1) =>
                     o - s + 1 \in DOMAIN q /\ q[o - s + 1] \in Offsets
    <3>1. s \in Nat /\ o \in Nat
      BY ChunkFacts, OffsetFacts
    <3>2. o - s \in 0 .. (k - 1) => o - s + 1 \in 1 .. Len(q)
      BY <1>3, <2>2, <2>3, <3>1
    <3>. QED
      BY <1>3, <2>3, <3>1, <3>2
  <2>. HIDE DEF q
  <2>5. new \in [Offsets -> Offsets \cup {Hole}]
    BY <1>1, <2>1, <2>4
  <2>6. \A d \in Outputs : j = WriteAt(d) <=> d = f
    BY <2>1, PlaceFacts
  <2>7. \A o \in Offsets : new[o] = IF o - s \in 0 .. (k - 1)
                                    THEN q[o - s + 1] ELSE content[f][o]
    OBVIOUS
  <2>. HIDE DEF f, new
  <2>8. /\ content' \in [Outputs -> [Offsets -> Offsets \cup {Hole}]]
        /\ content'[f] = new
        /\ \A d \in Outputs \ {f} : content'[d] = content[d]
    BY <1>1, <2>1, <2>2, <2>5
  <2>9. ASSUME NEW d \in Outputs, NEW o \in Offsets
        PROVE  LET writes == k > 0 /\ j = WriteAt(d) /\ o \in s .. (s + k - 1)
                IN  /\ ~writes => content'[d][o] = content[d][o]
                    /\ writes => /\ o - s + 1 \in DOMAIN q
                                 /\ content'[d][o] = q[o - s + 1]
                                 /\ content'[d][o] \in Offsets
    <3>1. CASE d = f
      <4>1. content'[d][o] = IF o - s \in 0 .. (k - 1)
                                    THEN q[o - s + 1] ELSE content[d][o]
        BY <2>7, <2>8, <3>1
      <4>2. j = WriteAt(d)
        BY <2>6, <3>1
      <4>. QED
        BY <1>3, <2>4, <4>1, <4>2
    <3>2. CASE d # f
      <4>1. j # WriteAt(d) /\ content'[d] = content[d]
        BY <2>6, <2>8, <3>2
      <4>. QED
        BY <4>1
    <3>. QED
      BY <3>1, <3>2
  <2>. QED
    BY <2>8, <2>9 DEF q
<1>4. CASE k = -1 /\ content' = content
  BY <1>2, <1>4
<1>5. CASE k > 0 /\ OpAt(j) \in {"source", "tee"} /\ content' = content
  BY <1>2, <1>5
<1>6. CASE /\ k > 0 /\ OpAt(j) \in {"drain", "last"}
           /\ \E p \in Pipes : DrainAt(p) = j /\ Drained(s, p, ForAt(j), k)
  <2>1. PICK p \in Pipes : DrainAt(p) = j /\ Drained(s, p, ForAt(j), k)
    BY <1>6
  <2>. QED
    BY <1>3, <1>6, <2>1
<1>. QED
  BY <1>4, <1>5, <1>6 DEF Moves, Filled, Teed

-----------------------------------------------------------------------------
(* There are finitely many new completions, and one if nothing is cut. *)
LEMMA NewCompletionFacts ==
    ASSUME NEW s \in Starts, NEW h \in Executed, NEW k \in Int,
           k <= LenAt(s), k = -1 \/ k > 0
    PROVE  /\ IsFiniteSet(NewCompletions(s, h, k))
           /\ NewCompletions(s, h, k) \subseteq Completions
           /\ k = LenAt(s) => NewCompletions(s, h, k) = {Completion(EntryAt(s, h + 1), k)}
           /\ \A c \in NewCompletions(s, h, k) :
                c = Completion(EntryAt(s, h + 1), k) \/
                \E j \in Positions : c = Completion(EntryAt(s, j), -1) /\ j > h + 1
<1>. DEFINE cut == IF k = LenAt(s) THEN {} ELSE 2 .. (Last - h)
            F == {Completion(EntryAt(s, h + i), -1) : i \in cut}
<1>1. h \in Nat /\ h + 1 \in Positions /\ Last \in Nat /\ LenAt(s) \in 1 .. ChunkSize
      /\ ChunkSize \in Nat
  BY SuffixFacts, Constants, ChunkFacts
<1>2. cut \subseteq 2 .. (Last - h)
  OBVIOUS
<1>3. \A i \in cut : h + i \in Positions /\ h + i > h + 1
  BY <1>1, <1>2 DEF Positions
<1>4. IsFiniteSet(F)
  <2>1. IsFiniteSet(2 .. (Last - h))
    BY <1>1, FS_Interval
  <2>2. IsFiniteSet(cut)
    BY <1>2, <2>1, FS_Subset
  <2>. HIDE DEF cut
  <2>3. DEFINE f == [i \in cut |-> Completion(EntryAt(s, h + i), -1)]
  <2>4. f \in Surjection(cut, F)
    BY DEF Surjection
  <2>. HIDE DEF f, F
  <2>. QED
    BY <2>2, <2>4, FS_Surjection
<1>5. -1 \in -1 .. ChunkSize /\ k \in -1 .. ChunkSize
  BY <1>1
<1>6. Completion(EntryAt(s, h + 1), k) \in Completions
  BY <1>1, <1>5 DEF Completions
<1>7. F \subseteq Completions
  <2>. HIDE DEF cut
  <2>. QED
    BY <1>3, <1>5 DEF Completions
<1>8. NewCompletions(s, h, k) = {Completion(EntryAt(s, h + 1), k)} \cup F
  BY DEF NewCompletions
<1>9. k = LenAt(s) => F = {}
  OBVIOUS
<1>10. IsFiniteSet({Completion(EntryAt(s, h + 1), k)})
  BY FS_Singleton
<1>11. \A c \in F : \E j \in Positions : c = Completion(EntryAt(s, j), -1) /\ j > h + 1
  <2>. HIDE DEF cut
  <2>. QED
    BY <1>3
<1>. HIDE DEF F, cut
<1>12. IsFiniteSet({Completion(EntryAt(s, h + 1), k)} \cup F)
  BY <1>4, <1>10, FS_Union
<1>. QED
  BY <1>6, <1>7, <1>8, <1>9, <1>11, <1>12

(* What a step of the kernel keeps: the types. *)
LEMMA ExecuteTypes ==
    ASSUME IInv, NEW chain \in chains, NEW s \in Starts, NEW h \in Executed,
           NEW k \in Int, Ran(s, h, k, chain)
    PROVE  TypeOK' /\ PipeTypes' /\ HistoryTypes' /\ Histories' /\ LoopState'
<1>1. h + 1 \in Positions
  BY SuffixFacts
<1>2. /\ pipe' \in [Pipes -> Seq(Offsets)]
      /\ \A p \in Pipes : Len(pipe'[p]) <= PipeSize
      /\ content' \in [Outputs -> [Offsets -> Offsets \cup {Hole}]]
  BY <1>1, PipesAfter, ContentAfter DEF Ran
<1>3. UNCHANGED <<pc, total_processed, total_data_moved>>
  BY DEF Ran
<1>4. MaybeFaulty(h + 1, k, Movable(EntryAt(s, h + 1)))
  BY DEF Ran
<1>5. faults \in Nat /\ faults <= MaxFaults /\ MaxFaults \in Nat
  BY Types, Constants DEF IInv
<1>6. interrupted \in BOOLEAN /\ short \in BOOLEAN /\ (interrupted \/ short => faults > 0)
  BY DEF IInv, HistoryTypes, Histories
<1>7. /\ faults' \in 0 .. MaxFaults
      /\ faults' >= faults /\ (faults' # faults \/ short' = short) /\ interrupted' = interrupted
  BY <1>4, <1>5 DEF MaybeFaulty
<1>8. short' \in BOOLEAN
  BY <1>4, <1>6 DEF MaybeFaulty
<1>9. TypeOK'
  BY <1>2, <1>3, <1>7 DEF IInv, TypeOK
<1>10. Histories'
  <2>1. CASE faults' = faults
    <3>1. short' = short
      BY <1>7, <2>1
    <3>. QED
      BY <1>6, <1>7, <2>1, <3>1 DEF Histories
  <2>2. CASE faults' # faults
    <3>1. faults' > 0
      BY <1>5, <1>7, <2>2
    <3>. QED
      BY <3>1 DEF Histories
  <2>. QED
    BY <2>1, <2>2
<1>11. LoopState'
  BY <1>3 DEF IInv, LoopState
<1>. QED
  BY <1>2, <1>6, <1>7, <1>8, <1>9, <1>10, <1>11 DEF PipeTypes, HistoryTypes

(* ... the names of chains and completions ... *)
LEMMA ExecuteShape ==
    ASSUME IInv, NEW chain \in chains, NEW s \in Starts, NEW h \in Executed,
           NEW k \in Int, Ran(s, h, k, chain)
    PROVE  Shape'
<1>. USE DEF Ran
<1>1. Shape
  BY DEF IInv
<1>2. ASSUME NEW c \in chains'
      PROVE  \E t \in Starts, g \in Executed : c = Suffix(t, g) /\ t < total_processed'
  <2>1. CASE c \in chains
    BY <1>1, <2>1 DEF Shape
  <2>2. CASE h + 1 \in Executed /\ c = Suffix(s, h + 1)
    BY <2>2
  <2>. QED
    BY <2>1, <2>2
<1>3. ASSUME NEW t \in Starts, NEW f \in Executed, NEW g \in Executed,
             Suffix(t, f) \in chains', Suffix(t, g) \in chains'
      PROVE  f = g
  BY <1>1, <1>3 DEF Shape
<1>4. IsFiniteSet(NewCompletions(s, h, k)) /\ NewCompletions(s, h, k) \subseteq Completions
  BY NewCompletionFacts
<1>5. cq' = cq \cup NewCompletions(s, h, k) /\ IsFiniteSet(cq) /\ cq \subseteq Completions
  BY <1>1 DEF Shape
<1>6. IsFiniteSet(cq')
  BY <1>4, <1>5, FS_Union
<1>. QED
  BY <1>2, <1>3, <1>4, <1>5, <1>6 DEF Shape

(* ... what may still be written ... *)
LEMMA ExecutePending ==
    ASSUME IInv, NEW chain \in chains, NEW s \in Starts, NEW h \in Executed,
           NEW k \in Int, Ran(s, h, k, chain), NEW d \in Outputs, NEW t \in Starts
    PROVE  /\ Pending(t, d)' => Pending(t, d)
           /\ t # s => (Pending(t, d)' <=> Pending(t, d))
           /\ Pending(s, d) <=> h < WriteAt(d)
           /\ Pending(s, d)' <=> k = LenAt(s) /\ h + 1 < WriteAt(d)
<1>. USE DEF Ran
<1>1. /\ h \in Nat /\ WriteAt(d) \in Nat /\ Last \in Nat /\ WriteAt(d) <= Last
      /\ h + 1 < WriteAt(d) => h + 1 \in Executed
  BY SuffixFacts, PlaceFacts, PositionFacts, Constants DEF Executed
<1>2. Suffix(s, h) \in chains
  OBVIOUS
<1>3. \A g \in Executed : Suffix(s, g) \in chains => g = h
  BY <1>2 DEF IInv, Shape
<1>4. Pending(s, d) <=> h < WriteAt(d)
  BY <1>2, <1>3 DEF Pending
<1>5. Pending(s, d)' <=> k = LenAt(s) /\ h + 1 < WriteAt(d)
  BY <1>1 DEF Pending
<1>6. t # s => (Pending(t, d)' <=> Pending(t, d))
  BY DEF Pending
<1>7. h + 1 < WriteAt(d) => h < WriteAt(d)
  BY <1>1
<1>. QED
  BY <1>4, <1>5, <1>6, <1>7

(* ... that an output is written at a place by one entry only ... *)
LEMMA ExecuteUnwritten ==
    ASSUME IInv, NEW chain \in chains, NEW s \in Starts, NEW h \in Executed,
           NEW k \in Int, Ran(s, h, k, chain)
    PROVE  /\ Unwritten'
           /\ \A d \in Outputs, o \in Offsets :
                content[d][o] # Hole => content'[d][o] = content[d][o]
<1>. USE DEF Ran
<1>1. h + 1 \in Positions /\ h \in Nat
  BY SuffixFacts
<1>2. ASSUME NEW d \in Outputs, NEW o \in Offsets
      PROVE  /\ content'[d][o] # Hole =>
                  StartOf(o) < total_processed' /\ ~Pending(StartOf(o), d)'
             /\ content[d][o] # Hole => content'[d][o] = content[d][o]
  <2>1. StartOf(o) \in Starts
    BY OffsetFacts
  <2>2. content[d][o] # Hole => StartOf(o) < total_processed /\ ~Pending(StartOf(o), d)
    BY DEF IInv, Unwritten
  <2>3. total_processed' = total_processed
    OBVIOUS
  <2>4. Pending(StartOf(o), d)' => Pending(StartOf(o), d)
    BY <2>1, ExecutePending
  <2>5. CASE k > 0 /\ h + 1 = WriteAt(d) /\ o \in s .. (s + k - 1)
    <3>1. StartOf(o) = s
      <4>1. o \in s .. (s + LenAt(s) - 1)
        BY <2>5, ChunkFacts
      <4>. QED
        BY <4>1, OffsetFacts
    <3>2. Pending(s, d) /\ ~Pending(s, d)'
      BY <1>1, <2>5, ExecutePending
    <3>3. s < total_processed
      OBVIOUS
    <3>. QED
      BY <2>2, <2>3, <3>1, <3>2, <3>3
  <2>6. CASE ~(k > 0 /\ h + 1 = WriteAt(d) /\ o \in s .. (s + k - 1))
    <3>1. content'[d][o] = content[d][o]
      BY <1>1, <2>6, ContentAfter
    <3>. QED
      BY <2>2, <2>3, <2>4, <3>1
  <2>. QED
    BY <2>5, <2>6
<1>. QED
  BY <1>2 DEF Unwritten

(* ... that chunks come one at a time ... *)
LEMMA ExecuteOneAtATime ==
    ASSUME IInv, NEW chain \in chains, NEW s \in Starts, NEW h \in Executed,
           NEW k \in Int, Ran(s, h, k, chain)
    PROVE  OneAtATime'
<1>. USE DEF Ran
<1>1. SUFFICES ASSUME ~interrupted' PROVE OneAtATime'
  BY DEF OneAtATime
<1>2. ~interrupted
  BY <1>1 DEF MaybeFaulty
<1>3. /\ pc = "wait" /\ Suffix(s, h) \in chains
      /\ s + LenAt(s) = total_processed
      /\ Cardinality(cq) + (Last - h) <= Last
  BY <1>2 DEF IInv, OneAtATime
<1>4. ASSUME NEW t \in Starts, NEW g \in Executed, Suffix(t, g) \in chains
      PROVE  t = s
  <2>1. t + LenAt(t) = s + LenAt(s)
    BY <1>2, <1>3, <1>4 DEF IInv, OneAtATime
  <2>2. /\ s < t => s + LenAt(s) <= t
        /\ t < s => t + LenAt(t) <= s
        /\ s \in Nat /\ t \in Nat /\ LenAt(s) \in 1 .. ChunkSize /\ LenAt(t) \in 1 .. ChunkSize
        /\ ChunkSize \in Nat
    BY ChunkFacts, Constants
  <2>. QED
    BY <2>1, <2>2
<1>5. ASSUME NEW t \in Starts, NEW g \in Executed, Suffix(t, g) \in chains'
      PROVE  /\ t + LenAt(t) = total_processed'
             /\ Cardinality(cq') + (Last - g) <= Last
  <2>1. t = s /\ k = LenAt(s) /\ g = h + 1
    BY <1>4, <1>5
  <2>2. cq' = cq \cup {Completion(EntryAt(s, h + 1), k)}
    BY <2>1, NewCompletionFacts
  <2>3. /\ IsFiniteSet(cq) /\ Cardinality(cq) \in Nat
    BY FS_CardinalityType DEF IInv, Shape
  <2>. DEFINE x == Completion(EntryAt(s, h + 1), k)
              n == Cardinality(cq)
  <2>4. Cardinality(cq') \in Nat /\ Cardinality(cq') <= Cardinality(cq) + 1
    <3>1. cq' = cq \cup {x}
      BY <2>2
    <3>. HIDE DEF x
    <3>2. Cardinality(cq \cup {x}) = IF x \in cq THEN n ELSE n + 1
      BY <2>3, FS_AddElement
    <3>3. Cardinality(cq') = n \/ Cardinality(cq') = n + 1
      BY <3>1, <3>2
    <3>4. n \in Nat
      BY <2>3
    <3>. HIDE DEF n
    <3>5. Cardinality(cq') \in Nat /\ Cardinality(cq') <= n + 1
      BY <3>3, <3>4
    <3>. QED
      BY <3>5 DEF n
  <2>5. h \in Nat /\ Last \in Nat
    BY SuffixFacts, Constants
  <2>. HIDE DEF x, n
  <2>. QED
    BY <1>3, <2>1, <2>3, <2>4, <2>5
<1>. QED
  BY <1>3, <1>5 DEF OneAtATime

(* ... and that nothing is ahead of its place. *)
LEMMA ExecuteBehind ==
    ASSUME IInv, NEW chain \in chains, NEW s \in Starts, NEW h \in Executed,
           NEW k \in Int, Ran(s, h, k, chain)
    PROVE  Behind'
<1>. USE DEF Ran
<1>1. SUFFICES ASSUME ~interrupted' PROVE Behind'
  BY DEF Behind
<1>2. ~interrupted
  BY <1>1 DEF MaybeFaulty
<1>3. /\ pc = "wait" /\ Suffix(s, h) \in chains
      /\ s + LenAt(s) = total_processed
      /\ total_processed' = total_processed
  BY <1>2 DEF IInv, OneAtATime
<1>4. /\ h \in Nat /\ h + 1 \in Positions /\ s \in Nat /\ LenAt(s) \in Nat
      /\ total_processed \in Nat
      /\ \A p \in Pipes : DrainAt(p) \in Nat /\ DrainAt(p) <= Last
      /\ 0 \in Pipes /\ DrainAt(0) = Last /\ Last \in Nat
  BY SuffixFacts, ChunkFacts, PlaceFacts, Constants, Types DEF IInv
<1>5. /\ \A p \in Pipes : \A i \in DOMAIN pipe[p] :
            pipe[p][i] <= total_processed + i - 1
      /\ \A p \in Pipes : h < DrainAt(p) =>
            \A i \in DOMAIN pipe[p] : pipe[p][i] <= s + i - 1
      /\ \A d \in Outputs, o \in Offsets : content[d][o] # Hole => content[d][o] <= o
  BY <1>2, <1>3 DEF IInv, Behind
<1>6. \A p \in Pipes : /\ DOMAIN pipe[p] = 1 .. Len(pipe[p]) /\ Len(pipe[p]) \in Nat
                       /\ \A i \in DOMAIN pipe[p] : pipe[p][i] \in Nat
  BY Types DEF IInv
<1>7. ASSUME NEW p \in Pipes, NEW i \in DOMAIN pipe'[p]
      PROVE  /\ pipe'[p][i] <= total_processed + i - 1
             /\ h + 1 < DrainAt(p) => pipe'[p][i] <= s + i - 1
  <2>1. i \in Nat /\ i >= 1
    BY <1>4, PipesAfter
  <2>2. CASE Kept(p, i)
    <3>1. i \in DOMAIN pipe[p] /\ pipe'[p][i] = pipe[p][i]
      BY <2>2 DEF Kept
    <3>2. h + 1 < DrainAt(p) => h < DrainAt(p)
      BY <1>4
    <3>. QED
      BY <1>5, <3>1, <3>2
  <2>3. CASE Arrived(s, h + 1, p, i)
    <3>1. PICK m \in 1 .. i :
              \/ pipe'[p][i] = s + m - 1
              \/ m \in DOMAIN pipe[0] /\ h + 1 < Last /\ pipe'[p][i] = pipe[0][m]
      BY <2>3 DEF Arrived
    <3>2. pipe'[p][i] <= s + m - 1 /\ pipe'[p][i] \in Int
      <4>1. CASE pipe'[p][i] = s + m - 1
        BY <1>4, <2>1, <4>1
      <4>2. CASE m \in DOMAIN pipe[0] /\ h + 1 < Last /\ pipe'[p][i] = pipe[0][m]
        <5>1. h < DrainAt(0)
          BY <1>4, <4>2
        <5>2. pipe[0][m] <= s + m - 1 /\ pipe[0][m] \in Nat
          BY <1>4, <1>5, <1>6, <4>2, <5>1
        <5>. QED
          BY <4>2, <5>2
      <4>. QED
        BY <3>1, <4>1, <4>2
    <3>3. m \in Nat /\ m <= i
      BY <2>1
    <3>. QED
      BY <1>3, <1>4, <2>1, <3>2, <3>3
  <2>4. CASE MovedUp(h + 1, k, p, i)
    <3>1. /\ DrainAt(p) = h + 1 /\ k > 0 /\ i + k \in DOMAIN pipe[p]
          /\ pipe'[p][i] = pipe[p][i + k]
      BY <2>4 DEF MovedUp
    <3>2. h < DrainAt(p) /\ ~(h + 1 < DrainAt(p))
      BY <1>4, <3>1
    <3>3. pipe[p][i + k] <= s + (i + k) - 1 /\ pipe[p][i + k] \in Nat
      BY <1>5, <1>6, <3>1, <3>2
    <3>4. s + (i + k) - 1 <= total_processed + i - 1
      BY <1>3, <1>4, <2>1
    <3>. QED
      BY <1>4, <2>1, <3>1, <3>2, <3>3, <3>4
  <2>. QED
    BY <1>4, <2>2, <2>3, <2>4, PipesAfter
<1>8. ASSUME NEW t \in Starts, NEW g \in Executed, NEW p \in Pipes,
             Suffix(t, g) \in chains', g < DrainAt(p), NEW i \in DOMAIN pipe'[p]
      PROVE  pipe'[p][i] <= t + i - 1
  <2>1. t = s
    <3>1. ASSUME t # s PROVE FALSE
      <4>1. Suffix(t, g) \in chains
        BY <1>8, <3>1
      <4>2. t + LenAt(t) = s + LenAt(s)
        BY <1>2, <1>3, <4>1 DEF IInv, OneAtATime
      <4>3. /\ s < t => s + LenAt(s) <= t
            /\ t < s => t + LenAt(t) <= s
            /\ t \in Nat /\ LenAt(s) \in 1 .. ChunkSize /\ LenAt(t) \in 1 .. ChunkSize
            /\ ChunkSize \in Nat
        BY ChunkFacts, Constants
      <4>. QED
        BY <1>4, <3>1, <4>2, <4>3
    <3>. QED
      BY <3>1
  <2>2. g = h + 1
    BY <1>8, <2>1
  <2>. QED
    BY <1>7, <1>8, <2>1, <2>2
<1>9. ASSUME NEW d \in Outputs, NEW o \in Offsets, content'[d][o] # Hole
      PROVE  content'[d][o] <= o
  <2>1. CASE k > 0 /\ h + 1 = WriteAt(d) /\ o \in s .. (s + k - 1)
    <3>1. PICK p \in Pipes :
              /\ DrainAt(p) = h + 1 /\ o - s + 1 \in DOMAIN pipe[p]
              /\ content'[d][o] = pipe[p][o - s + 1]
      BY <1>4, <2>1, ContentAfter
    <3>2. h < DrainAt(p)
      BY <1>4, <3>1
    <3>3. pipe[p][o - s + 1] <= s + (o - s + 1) - 1
      BY <1>5, <3>1, <3>2
    <3>4. o \in Nat
      BY OffsetFacts
    <3>. QED
      BY <1>4, <3>1, <3>3, <3>4
  <2>2. CASE ~(k > 0 /\ h + 1 = WriteAt(d) /\ o \in s .. (s + k - 1))
    <3>1. content'[d][o] = content[d][o]
      BY <1>4, <2>2, ContentAfter
    <3>. QED
      BY <1>5, <1>9, <3>1
  <2>. QED
    BY <2>1, <2>2
<1>. QED
  BY <1>3, <1>7, <1>8, <1>9 DEF Behind

(* A step of the kernel keeps the invariant. *)
LEMMA ExecuteKeeps ==
    ASSUME IInv, NEW chain \in chains, Execute(chain)
    PROVE  IInv'
<1>1. PICK s \in Starts, h \in Executed, k \in Int : Ran(s, h, k, chain)
  BY ExecuteStep
<1>. QED
  BY <1>1, ExecuteTypes, ExecuteShape, ExecuteUnwritten, ExecuteOneAtATime, ExecuteBehind
     DEF IInv

-----------------------------------------------------------------------------
(* Submitting a chunk keeps the invariant. *)
LEMMA SubmitKeeps == ASSUME IInv, SubmitChunk PROVE IInv'
<1>. DEFINE s == total_processed
<1>1. /\ pc = "prepare" /\ pc' = "wait" /\ s \in Starts
      /\ total_processed' = s + LenAt(s)
      /\ chains' = chains \cup {Suffix(s, 0)}
      /\ 0 \in Executed
      /\ \A t \in Starts, g \in Executed :
           /\ Suffix(t, g) \in chains => t < s /\ t + LenAt(t) <= s
           /\ Suffix(t, g) \in chains' <=> Suffix(t, g) \in chains \/ (t = s /\ g = 0)
      /\ UNCHANGED <<total_data_moved, cq, pipe, content, faults, short, interrupted>>
  BY SubmitStep
<1>2. /\ s \in Nat /\ LenAt(s) \in 1 .. ChunkSize /\ LenAt(s) \in Nat
      /\ s + LenAt(s) <= FileSize
      /\ s + LenAt(s) < FileSize => s + LenAt(s) \in Starts
      /\ ChunkSize \in Nat /\ FileSize \in Nat
  BY <1>1, ChunkFacts, Constants
<1>3. ~interrupted => chains = {} /\ cq = {}
  BY <1>1 DEF IInv, OneAtATime
<1>4. TypeOK'
  BY <1>1, <1>2 DEF IInv, TypeOK
<1>5. PipeTypes' /\ HistoryTypes' /\ Histories'
  BY <1>1 DEF IInv, PipeTypes, HistoryTypes, Histories
<1>. HIDE DEF s
<1>6. LoopState'
  BY <1>1, <1>2 DEF LoopState
<1>7. s < total_processed' /\ s = total_processed
  BY <1>1, <1>2 DEF s
<1>8. Shape'
  <2>1. ASSUME NEW c \in chains'
        PROVE  \E t \in Starts, g \in Executed : c = Suffix(t, g) /\ t < total_processed'
    <3>1. CASE c \in chains
      <4>1. PICK t \in Starts, g \in Executed : c = Suffix(t, g)
        BY <3>1 DEF IInv, Shape
      <4>2. t < s
        BY <1>1, <3>1, <4>1
      <4>3. t \in Nat
        BY ChunkFacts
      <4>4. t < total_processed'
        BY <1>1, <1>2, <1>7, <4>2, <4>3
      <4>. QED
        BY <4>1, <4>4
    <3>2. CASE c = Suffix(s, 0)
      BY <1>1, <1>7, <3>2
    <3>. QED
      BY <1>1, <3>1, <3>2
  <2>2. ASSUME NEW t \in Starts, NEW f \in Executed, NEW g \in Executed,
               Suffix(t, f) \in chains', Suffix(t, g) \in chains'
        PROVE  f = g
    <3>1. ASSUME t = s PROVE f = 0 /\ g = 0
      <4>1. ~(s < s)
        BY <1>2
      <4>. QED
        BY <1>1, <2>2, <3>1, <4>1
    <3>2. ASSUME t # s PROVE Suffix(t, f) \in chains /\ Suffix(t, g) \in chains
      BY <1>1, <2>2, <3>2
    <3>. QED
      BY <3>1, <3>2 DEF IInv, Shape
  <2>. QED
    BY <1>1, <2>1, <2>2 DEF IInv, Shape
<1>9. Unwritten'
  <2>1. ASSUME NEW d \in Outputs, NEW o \in Offsets, content[d][o] # Hole
        PROVE  StartOf(o) < total_processed' /\ ~Pending(StartOf(o), d)'
    <3>1. StartOf(o) < s /\ ~Pending(StartOf(o), d) /\ StartOf(o) \in Starts
      BY <1>7, <2>1, OffsetFacts DEF IInv, Unwritten
    <3>2. StartOf(o) \in Nat /\ StartOf(o) # s
      <4>1. StartOf(o) \in Nat
        BY <3>1, ChunkFacts
      <4>. QED
        BY <1>2, <3>1, <4>1
    <3>3. StartOf(o) < total_processed'
      BY <1>1, <1>2, <1>7, <3>1, <3>2
    <3>4. ~Pending(StartOf(o), d)'
      BY <1>1, <3>1, <3>2 DEF Pending
    <3>. QED
      BY <3>3, <3>4
  <2>. QED
    BY <1>1, <2>1 DEF Unwritten
<1>10. OneAtATime'
  <2>1. SUFFICES ASSUME ~interrupted PROVE OneAtATime'
    BY <1>1 DEF OneAtATime
  <2>2. ASSUME NEW t \in Starts, NEW g \in Executed, Suffix(t, g) \in chains'
        PROVE  t = s /\ g = 0
    BY <1>1, <1>3, <2>1, <2>2
  <2>3. Cardinality(cq') = 0
    BY <1>1, <1>3, <2>1, FS_EmptySet
  <2>4. 0 + (Last - 0) <= Last
    BY Constants
  <2>. QED
    BY <1>1, <2>2, <2>3, <2>4 DEF OneAtATime
<1>11. Behind'
  <2>1. SUFFICES ASSUME ~interrupted PROVE Behind'
    BY <1>1 DEF Behind
  <2>2. /\ \A p \in Pipes : \A i \in DOMAIN pipe[p] : pipe[p][i] <= s + i - 1
        /\ \A d \in Outputs, o \in Offsets : content[d][o] # Hole => content[d][o] <= o
    BY <1>7, <2>1 DEF IInv, Behind
  <2>3. ASSUME NEW p \in Pipes, NEW i \in DOMAIN pipe[p]
        PROVE  pipe[p][i] <= total_processed' + i - 1
    <3>1. pipe[p][i] \in Nat /\ i \in Nat
      BY Types DEF IInv
    <3>. QED
      BY <1>1, <1>2, <2>2, <2>3, <3>1
  <2>4. ASSUME NEW t \in Starts, NEW g \in Executed, Suffix(t, g) \in chains'
        PROVE  t = s
    BY <1>1, <1>3, <2>1, <2>4
  <2>5. \A p \in Pipes, t \in Starts, g \in Executed :
            Suffix(t, g) \in chains' =>
                \A i \in DOMAIN pipe[p] : pipe[p][i] <= t + i - 1
    BY <2>2, <2>4
  <2>. QED
    BY <1>1, <2>2, <2>3, <2>5 DEF Behind
<1>. QED
  BY <1>4, <1>5, <1>6, <1>8, <1>9, <1>10, <1>11 DEF IInv

(* Each completion adds at most a chunk: what they add together is a       *)
(* number.                                                                 *)
LEMMA MovedByFacts ==
    ASSUME NEW S, IsFiniteSet(S)
    PROVE  /\ IsFiniteSet({u \in S \X (1 .. ChunkSize) : u[2] <= Moved(u[1])})
           /\ MovedBy(S) \in Nat
<1>. DEFINE U == {u \in S \X (1 .. ChunkSize) : u[2] <= Moved(u[1])}
<1>1. IsFiniteSet(1 .. ChunkSize)
  BY Constants, FS_Interval
<1>2. IsFiniteSet(S \X (1 .. ChunkSize))
  BY <1>1, FS_Product
<1>3. U \subseteq S \X (1 .. ChunkSize)
  OBVIOUS
<1>. HIDE DEF U
<1>4. IsFiniteSet(U) /\ Cardinality(U) \in Nat
  BY <1>2, <1>3, FS_Subset, FS_CardinalityType
<1>. QED
  BY <1>4 DEF U, MovedBy

(* At the end of a wait that was not interrupted no chain is left. *)
LEMMA WaitedForAll ==
    ASSUME IInv, WaitEnds, ~interrupted
    PROVE  chains = {}
<1>1. SUFFICES ASSUME chains # {} PROVE FALSE
  OBVIOUS
<1>2. PICK s \in Starts, h \in Executed : Suffix(s, h) \in chains
  BY <1>1 DEF IInv, Shape
<1>3. Cardinality(cq) + (Last - h) <= Last
  BY <1>2 DEF IInv, OneAtATime
<1>4. Cardinality(cq) \in Nat
  BY FS_CardinalityType DEF IInv, Shape
<1>5. Cardinality(cq) >= Last
  BY DEF WaitEnds, Awaited, Last
<1>6. h \in Nat /\ h < Last /\ Last \in Nat
  BY Constants DEF Executed
<1>. QED
  BY <1>3, <1>4, <1>5, <1>6

(* Seeing the completions keeps the invariant. *)
LEMMA SeeKeeps ==
    ASSUME IInv, WaitEnds \/ WaitInterrupted
    PROVE  /\ IInv' /\ pc = "wait"
           /\ total_data_moved' = total_data_moved + MovedBy(cq) /\ cq' = {}
           /\ UNCHANGED <<total_processed, chains, pipe, content, short>>
           /\ ~interrupted' => ~interrupted /\ chains = {} /\ WaitEnds
           /\ pc' \in {"prepare", "done"} /\ (pc' = "done" <=> total_processed = FileSize)
<1>1. /\ pc = "wait"
      /\ total_data_moved' = total_data_moved + MovedBy(cq) /\ cq' = {}
      /\ pc' = IF total_processed < FileSize THEN "prepare" ELSE "done"
      /\ UNCHANGED <<total_processed, chains, pipe, content, short>>
      /\ \/ WaitEnds /\ faults' = faults /\ interrupted' = interrupted
         \/ /\ faults < MaxFaults /\ faults' = faults + 1 /\ interrupted' = TRUE
  BY DEF WaitEnds, WaitInterrupted, SeeCompletions, faultVars
<1>2. /\ total_processed \in Nat /\ total_processed <= FileSize /\ FileSize \in Nat
      /\ faults \in Nat /\ faults <= MaxFaults /\ MaxFaults \in Nat
      /\ total_data_moved \in Nat
  BY Types, Constants DEF IInv
<1>3. ~interrupted' => ~interrupted /\ chains = {} /\ WaitEnds
  BY <1>1, WaitedForAll
<1>4. MovedBy(cq) \in Nat
  BY MovedByFacts DEF IInv, Shape
<1>5. /\ pc' \in {"prepare", "done"}
      /\ pc' = "done" <=> total_processed = FileSize
      /\ pc' = "prepare" => total_processed < FileSize
  BY <1>1, <1>2
<1>6. faults' \in 0 .. MaxFaults /\ faults' >= faults
  BY <1>1, <1>2
<1>7. TypeOK'
  BY <1>1, <1>2, <1>4, <1>5, <1>6 DEF IInv, TypeOK
<1>8. PipeTypes' /\ HistoryTypes'
  BY <1>1 DEF IInv, PipeTypes, HistoryTypes
<1>9. Histories'
  <2>1. interrupted' => interrupted \/ faults' = faults + 1
    BY <1>1
  <2>2. interrupted \/ short => faults > 0
    BY DEF IInv, Histories
  <2>. QED
    BY <1>1, <1>2, <1>6, <2>1, <2>2 DEF Histories
<1>10. LoopState'
  BY <1>1, <1>2, <1>5 DEF IInv, LoopState
<1>11. Shape'
  BY <1>1, FS_EmptySet DEF IInv, Shape
<1>12. Unwritten'
  BY <1>1 DEF IInv, Unwritten, Pending
<1>13. OneAtATime'
  BY <1>1, <1>3 DEF OneAtATime
<1>14. Behind'
  <2>1. ~interrupted' => ~interrupted
    BY <1>3
  <2>. QED
    BY <1>1, <2>1 DEF IInv, Behind
<1>. QED
  BY <1>1, <1>3, <1>5, <1>7, <1>8, <1>9, <1>10, <1>11, <1>12, <1>13, <1>14 DEF IInv

(* The invariant holds at the start. *)
LEMMA Initially == Init => IInv
<1>. SUFFICES ASSUME Init PROVE IInv
  OBVIOUS
<1>1. /\ pc = IF FileSize > 0 THEN "prepare" ELSE "done"
      /\ total_processed = 0 /\ total_data_moved = 0 /\ chains = {} /\ cq = {}
      /\ pipe = [i \in Pipes |-> <<>>]
      /\ content = [d \in Outputs |-> [o \in Offsets |-> Hole]]
      /\ faults = 0 /\ short = FALSE /\ interrupted = FALSE
  BY DEF Init
<1>2. \A p \in Pipes : pipe[p] = <<>> /\ DOMAIN pipe[p] = {}
  BY <1>1
<1>3. <<>> \in Seq(Offsets) /\ Len(<<>>) = 0
  OBVIOUS
<1>4. TypeOK
  BY <1>1, <1>2, <1>3, Constants DEF TypeOK
<1>5. PipeTypes /\ HistoryTypes /\ Histories
  BY <1>1, <1>3 DEF PipeTypes, HistoryTypes, Histories
<1>6. LoopState
  <2>1. 0 < FileSize => 0 \in Starts
    <3>1. ChunkSize \in Nat \ {0} /\ FileSize \in Nat
      BY Constants
    <3>2. 0 % ChunkSize = 0
      <4>1. ChunkSize * 0 = 0
        BY <3>1
      <4>2. 0 \in Nat
        OBVIOUS
      <4>3. (ChunkSize * 0) % ChunkSize = 0
        BY <3>1, <4>2, MulMod
      <4>. QED
        BY <4>1, <4>3
    <3>. QED
      BY <3>1, <3>2 DEF Starts, StartsIn
  <2>2. FileSize \in Nat
    BY Constants
  <2>. QED
    BY <1>1, <2>1, <2>2 DEF LoopState
<1>7. Shape
  BY <1>1, FS_EmptySet DEF Shape
<1>8. Unwritten
  BY <1>1 DEF Unwritten
<1>9. OneAtATime
  BY <1>1 DEF OneAtATime
<1>10. Behind
  BY <1>1, <1>2 DEF Behind
<1>. QED
  BY <1>4, <1>5, <1>6, <1>7, <1>8, <1>9, <1>10 DEF IInv

(* A step that changes nothing keeps it. *)
LEMMA StutterKeeps == ASSUME IInv, UNCHANGED vars PROVE IInv'
<1>1. UNCHANGED <<pc, total_processed, total_data_moved, chains, cq, pipe, content,
                  faults, short, interrupted>>
  BY DEF vars, faultVars
<1>. QED
  BY <1>1 DEF IInv, TypeOK, PipeTypes, HistoryTypes, Histories, LoopState, Shape,
              Unwritten, Pending, OneAtATime, Behind

(* Every step keeps it. *)
LEMMA NextKeeps == IInv /\ [Next]_vars => IInv'
<1>. SUFFICES ASSUME IInv, [Next]_vars PROVE IInv'
  OBVIOUS
<1>1. CASE SubmitChunk
  BY <1>1, SubmitKeeps
<1>2. CASE WaitEnds \/ WaitInterrupted
  BY <1>2, SeeKeeps
<1>3. CASE \E chain \in chains : Execute(chain)
  BY <1>3, ExecuteKeeps
<1>4. CASE Terminated \/ UNCHANGED vars
  BY <1>4, StutterKeeps DEF Terminated
<1>. QED
  BY <1>1, <1>2, <1>3, <1>4 DEF Next

-----------------------------------------------------------------------------
(* The invariant is inductive and holds for every value of the constants. *)
THEOREM Invariance == Spec => []IInv
<1>. QED
  BY Initially, NextKeeps, PTL DEF Spec

(* Variables keep their types: no pipe holds more than it can, and no unit *)
(* leaves the file.                                                        *)
THEOREM TypeCorrect == Spec => []TypeOK
<1>1. IInv => TypeOK
  BY DEF IInv
<1>. QED
  BY <1>1, Invariance, PTL

(* Whatever fails, falls short or stays in a pipe: as long as no wait was  *)
(* interrupted, an output holds at an offset data of the source's same     *)
(* offset or of an earlier one.                                            *)
THEOREM NothingIsAhead == Spec => []NeverAhead
<1>1. IInv => NeverAhead
  BY DEF IInv, Behind, NeverAhead
<1>. QED
  BY <1>1, Invariance, PTL

-----------------------------------------------------------------------------
(* What the pipes hold where the chain under way is. *)
LEMMA UnitsFacts ==
    ASSUME NEW s \in Starts
    PROVE  /\ UnitsOf(s) \in Seq(Offsets) /\ Len(UnitsOf(s)) = LenAt(s)
           /\ DOMAIN UnitsOf(s) = 1 .. LenAt(s)
           /\ \A i \in 1 .. LenAt(s) : UnitsOf(s)[i] = s + i - 1
           /\ <<>> \o UnitsOf(s) = UnitsOf(s)
           /\ SubSeq(UnitsOf(s), 1, LenAt(s)) = UnitsOf(s)
           /\ SubSeq(UnitsOf(s), LenAt(s) + 1, LenAt(s)) = <<>>
<1>. DEFINE n == LenAt(s)
            u == UnitsOf(s)
<1>1. n \in Nat /\ \A i \in 1 .. n : s + i - 1 \in Offsets
  BY ChunkFacts
<1>2. u = [i \in 1 .. n |-> s + i - 1]
  BY DEF UnitsOf
<1>. HIDE DEF n, u
<1>3. u \in [1 .. n -> Offsets]
  BY <1>1, <1>2
<1>4. u \in Seq(Offsets) /\ Len(u) = n
  BY <1>1, <1>3
<1>5. <<>> \o u = u /\ SubSeq(u, n + 1, n) = <<>>
  BY <1>1, <1>4
<1>6. SubSeq(u, 1, n) = u
  BY <1>4, SubSeqFull
<1>7. DOMAIN u = 1 .. n /\ \A i \in 1 .. n : u[i] = s + i - 1
  BY <1>2
<1>. QED
  BY <1>4, <1>5, <1>6, <1>7 DEF u, n

(* What the pipes hold when the entry behind the executed ones is next.    *)
LEMMA PipesUnderWay ==
    ASSUME IInv, Clean, NEW s \in Starts, NEW h \in Executed, Suffix(s, h) \in chains
    PROVE  /\ \A p \in Pipes : DrainAt(p) = h + 1 => pipe[p] = UnitsOf(s)
           /\ OpAt(h + 1) = "source" => pipe[0] = <<>>
           /\ OpAt(h + 1) = "tee" => pipe[0] = UnitsOf(s) /\ pipe[ForAt(h + 1)] = <<>>
<1>1. \A p \in Pipes : pipe[p] = IF (p = 0 /\ h >= 1) \/ (p # 0 /\ h = 2 * p)
                                 THEN UnitsOf(s) ELSE <<>>
  BY DEF Clean
<1>2. /\ h \in Nat /\ h + 1 \in Positions /\ Last \in Nat /\ Last >= 2 /\ 0 \in Pipes
      /\ \A p \in Pipes : p \in Nat
  BY SuffixFacts, Constants, PlaceFacts DEF Pipes
<1>3. ASSUME NEW p \in Pipes, DrainAt(p) = h + 1
      PROVE  pipe[p] = UnitsOf(s)
  <2>1. (p = 0 /\ h >= 1) \/ (p # 0 /\ h = 2 * p)
    BY <1>2, <1>3 DEF DrainAt
  <2>. QED
    BY <1>1, <2>1
<1>4. ASSUME OpAt(h + 1) = "source" PROVE pipe[0] = <<>>
  <2>1. h = 0
    BY <1>2, <1>4, PositionFacts
  <2>. QED
    BY <1>1, <1>2, <2>1
<1>5. ASSUME OpAt(h + 1) = "tee"
      PROVE  pipe[0] = UnitsOf(s) /\ pipe[ForAt(h + 1)] = <<>>
  <2>. DEFINE d == ForAt(h + 1)
  <2>1. d \in Pipes \ {0} /\ h + 1 = 2 * d /\ d \in Nat /\ d >= 1
    BY <1>2, <1>5, PositionFacts, PlaceFacts
  <2>. HIDE DEF d
  <2>2. h >= 1 /\ h # 2 * d
    BY <1>2, <2>1
  <2>3. pipe[0] = UnitsOf(s)
    BY <1>1, <1>2, <2>2
  <2>4. pipe[d] = <<>>
    BY <1>1, <2>1, <2>2
  <2>. QED
    BY <2>3, <2>4 DEF d
<1>. QED
  BY <1>3, <1>4, <1>5

(* No other chunk is under way. *)
LEMMA OneChunkUnderWay ==
    ASSUME IInv, ~interrupted, NEW s \in Starts, NEW h \in Executed,
           Suffix(s, h) \in chains, NEW t \in Starts, NEW g \in Executed,
           Suffix(t, g) \in chains
    PROVE  t = s /\ g = h
<1>1. s + LenAt(s) = total_processed /\ t + LenAt(t) = total_processed
  BY DEF IInv, OneAtATime
<1>2. /\ s < t => s + LenAt(s) <= t
      /\ t < s => t + LenAt(t) <= s
      /\ s \in Nat /\ t \in Nat /\ LenAt(s) \in 1 .. ChunkSize /\ LenAt(t) \in 1 .. ChunkSize
      /\ ChunkSize \in Nat
  BY ChunkFacts, Constants
<1>3. t = s
  BY <1>1, <1>2
<1>. QED
  BY <1>3 DEF IInv, Shape

(* An entry that moved its chunk in full leaves the pipes as the next one  *)
(* of the chain needs them, the last one leaves them empty.                *)
LEMMA FullPipes ==
    ASSUME IInv, Clean, ~interrupted, NEW chain \in chains,
           NEW s \in Starts, NEW h \in Executed, NEW k \in Int,
           Ran(s, h, k, chain), k = LenAt(s), NEW p \in Pipes
    PROVE  pipe'[p] = IF (p = 0 /\ h + 1 >= 1 /\ h + 1 < Last) \/ (p # 0 /\ h + 1 = 2 * p)
                      THEN UnitsOf(s) ELSE <<>>
<1>. USE DEF Ran
<1>. DEFINE j == h + 1
            u == UnitsOf(s)
            n == LenAt(s)
<1>1. /\ h \in Nat /\ j \in Positions /\ j \in Nat /\ j >= 1 /\ j <= Last
      /\ Last \in Nat /\ Last >= 2 /\ 0 \in Pipes /\ p \in Nat /\ NumOutputs \in Nat
      /\ p < NumOutputs /\ Last = 2 * NumOutputs
  BY SuffixFacts, Constants, PlaceFacts DEF Pipes, Positions, Last
<1>2. /\ pipe \in [Pipes -> Seq(Offsets)]
      /\ \A x \in Pipes : pipe[x] = IF (x = 0 /\ h >= 1) \/ (x # 0 /\ h = 2 * x)
                                    THEN u ELSE <<>>
  BY DEF IInv, PipeTypes, Clean
<1>3. /\ n \in Nat /\ n > 0 /\ k = n /\ Len(u) = n
      /\ <<>> \o u = u /\ SubSeq(u, 1, n) = u /\ SubSeq(u, n + 1, n) = <<>>
      /\ u = [i \in 1 .. n |-> s + i - 1]
  BY ChunkFacts, UnitsFacts DEF UnitsOf
<1>4. CASE OpAt(j) = "source" /\ Filled(s, k)
  <2>1. j = 1 /\ h = 0 /\ pipe[0] = <<>>
    BY <1>1, <1>4, PositionFacts, PipesUnderWay
  <2>2. pipe' = [pipe EXCEPT ![0] = @ \o [i \in 1 .. k |-> s + i - 1]]
    BY <1>4 DEF Filled
  <2>. HIDE DEF u, n
  <2>3. pipe' = [pipe EXCEPT ![0] = u]
    BY <1>1, <1>2, <1>3, <2>1, <2>2
  <2>4. pipe'[p] = IF p = 0 THEN u ELSE pipe[p]
    BY <1>1, <1>2, <2>3
  <2>5. p # 0 => h # 2 * p /\ j # 2 * p
    BY <1>1, <2>1
  <2>6. 1 < Last
    BY <1>1
  <2>. QED
    BY <1>2, <2>1, <2>4, <2>5, <2>6 DEF u
<1>5. CASE OpAt(j) = "tee" /\ Teed(ForAt(j), k)
  <2>. DEFINE d == ForAt(j)
  <2>1. d \in Pipes \ {0} /\ j = 2 * d /\ d \in Nat /\ d >= 1
        /\ pipe[0] = u /\ pipe[d] = <<>> /\ d < NumOutputs
    BY <1>1, <1>5, PositionFacts, PlaceFacts, PipesUnderWay DEF Pipes
  <2>2. pipe' = [pipe EXCEPT ![d] = @ \o SubSeq(pipe[0], 1, k)]
    BY <1>5 DEF Teed
  <2>. HIDE DEF u, n, d
  <2>3. pipe' = [pipe EXCEPT ![d] = u]
    BY <1>1, <1>2, <1>3, <2>1, <2>2
  <2>4. pipe'[p] = IF p = d THEN u ELSE pipe[p]
    BY <1>1, <1>2, <2>3
  <2>5. /\ p = 0 => h >= 1 /\ j < Last
        /\ p # 0 => h # 2 * p /\ (j = 2 * p <=> p = d)
    <3>1. j = 2 * d /\ j = h + 1
      BY <2>1
    <3>. HIDE DEF j
    <3>. QED
      BY <1>1, <2>1, <3>1
  <2>. QED
    BY <1>1, <1>2, <2>1, <2>4, <2>5 DEF u
<1>6. ASSUME OpAt(j) \in {"drain", "last"}, NEW x \in Pipes, DrainAt(x) = j,
             Drained(s, x, ForAt(j), k)
      PROVE  pipe'[p] = IF (p = 0 /\ j >= 1 /\ j < Last) \/ (p # 0 /\ j = 2 * p)
                        THEN u ELSE <<>>
  <2>1. pipe[x] = u /\ x \in Nat
    BY <1>6, PipesUnderWay, Constants DEF Pipes
  <2>2. pipe' = [pipe EXCEPT ![x] = SubSeq(@, k + 1, Len(@))]
    BY <1>6 DEF Drained
  <2>. HIDE DEF u, n
  <2>3. pipe' = [pipe EXCEPT ![x] = <<>>]
    BY <1>2, <1>3, <1>6, <2>1, <2>2
  <2>4. pipe'[p] = IF p = x THEN <<>> ELSE pipe[p]
    BY <1>1, <1>2, <2>3
  <2>5. CASE x = 0
    <3>1. j = Last /\ h = Last - 1
      BY <1>1, <1>6, <2>5 DEF DrainAt
    <3>2. p # 0 => h # 2 * p /\ j # 2 * p
      BY <1>1, <3>1
    <3>3. ~(j < Last)
      BY <1>1, <3>1
    <3>. QED
      BY <1>2, <2>4, <2>5, <3>2, <3>3
  <2>6. CASE x # 0
    <3>1. j = 2 * x + 1 /\ h = 2 * x
      BY <1>1, <1>6, <2>1, <2>6 DEF DrainAt
    <3>2. /\ p = 0 => h >= 1 /\ j >= 1 /\ j < Last /\ p # x
          /\ p # 0 => j # 2 * p /\ (h = 2 * p <=> p = x)
      <4>1. x < NumOutputs
        BY <1>6, Constants DEF Pipes
      <4>. QED
        BY <1>1, <2>1, <2>6, <3>1, <4>1
    <3>. QED
      BY <1>1, <1>2, <2>4, <3>2
  <2>. QED
    BY <2>5, <2>6
<1>7. Moves(s, j, k) /\ k > 0 /\ k # -1
  BY <1>3
<1>8. CASE OpAt(j) \in {"drain", "last"} /\ \E x \in Pipes : DrainAt(x) = j /\ Drained(s, x, ForAt(j), k)
  BY <1>6, <1>8
<1>. QED
  BY <1>4, <1>5, <1>7, <1>8 DEF Moves

(* ... and the outputs hold what was written. *)
LEMMA FullContent ==
    ASSUME IInv, Clean, ~interrupted, NEW chain \in chains,
           NEW s \in Starts, NEW h \in Executed, NEW k \in Int,
           Ran(s, h, k, chain), k = LenAt(s), NEW d \in Outputs, NEW o \in Offsets,
           StartOf(o) < total_processed', ~Pending(StartOf(o), d)'
    PROVE  content'[d][o] = o
<1>. USE DEF Ran
<1>. DEFINE j == h + 1
            n == LenAt(s)
<1>0. StartOf(o) \in Starts /\ o \in Nat
      /\ (o \in s .. (s + n - 1) <=> StartOf(o) = s)
  BY OffsetFacts
<1>1. /\ h \in Nat /\ j \in Positions /\ s \in Nat /\ n \in Nat /\ n > 0
      /\ WriteAt(d) \in Nat /\ StartOf(o) \in Starts /\ o \in Nat
      /\ o \in s .. (s + n - 1) <=> StartOf(o) = s
  BY <1>0, SuffixFacts, ChunkFacts, PlaceFacts
<1>2. StartOf(o) < total_processed
  OBVIOUS
<1>3. CASE j = WriteAt(d) /\ StartOf(o) = s
  <2>1. o \in s .. (s + k - 1) /\ k > 0
    BY <1>1, <1>3
  <2>2. PICK p \in Pipes : /\ DrainAt(p) = j /\ o - s + 1 \in DOMAIN pipe[p]
                           /\ content'[d][o] = pipe[p][o - s + 1]
    BY <1>1, <1>3, <2>1, ContentAfter
  <2>3. pipe[p] = UnitsOf(s)
    BY <2>2, PipesUnderWay
  <2>4. o - s + 1 \in 1 .. n
    BY <2>2, <2>3, UnitsFacts
  <2>5. UnitsOf(s)[o - s + 1] = s + (o - s + 1) - 1
    BY <2>4, UnitsFacts
  <2>. QED
    BY <1>1, <2>2, <2>3, <2>5
<1>4. CASE ~(j = WriteAt(d) /\ StartOf(o) = s)
  <2>1. ~(k > 0 /\ j = WriteAt(d) /\ o \in s .. (s + k - 1))
    BY <1>1, <1>4
  <2>2. content'[d][o] = content[d][o]
    BY <1>1, <2>1, ContentAfter
  <2>3. ~Pending(StartOf(o), d)
    <3>1. CASE StartOf(o) # s
      <4>1. ASSUME NEW t \in Starts, t # s
            PROVE  Pending(t, d)' <=> Pending(t, d)
        BY <4>1, ExecutePending
      <4>. QED
        BY <1>0, <3>1, <4>1
    <3>2. CASE StartOf(o) = s
      <4>1. ~(h + 1 < WriteAt(d)) /\ j # WriteAt(d)
        BY <1>4, <3>2, ExecutePending
      <4>2. ~(h < WriteAt(d))
        BY <1>1, <4>1
      <4>. QED
        BY <3>2, <4>2, ExecutePending
    <3>. QED
      BY <3>1, <3>2
  <2>. QED
    BY <1>2, <2>2, <2>3 DEF Clean
<1>. QED
  BY <1>3, <1>4

(* An entry that moves the whole chunk leaves the pipes as the rest of     *)
(* the chain expects them.                                                 *)
LEMMA FullIsClean ==
    ASSUME IInv, Clean, ~interrupted, NEW chain \in chains,
           NEW s \in Starts, NEW h \in Executed, NEW k \in Int,
           Ran(s, h, k, chain), k = LenAt(s)
    PROVE  Clean'
<1>. USE DEF Ran
<1>1. h \in Nat /\ Last \in Nat /\ (h + 1 \in Executed <=> h + 1 < Last)
      /\ h + 1 >= 1
  BY SuffixFacts, Constants DEF Executed
<1>2. \A p \in Pipes :
        pipe'[p] = IF (p = 0 /\ h + 1 >= 1 /\ h + 1 < Last) \/ (p # 0 /\ h + 1 = 2 * p)
                      THEN UnitsOf(s) ELSE <<>>
  BY FullPipes
<1>3. ASSUME chains' = {}, NEW p \in Pipes PROVE pipe'[p] = <<>>
  <2>1. ~(h + 1 < Last)
    BY <1>1, <1>3
  <2>2. p # 0 => h + 1 # 2 * p
    <3>1. p \in Nat /\ p < NumOutputs /\ NumOutputs \in Nat
      BY Constants DEF Pipes
    <3>. QED
      BY <1>1, <2>1, <3>1 DEF Last
  <2>. QED
    BY <1>2, <2>1, <2>2
<1>4. ASSUME NEW t \in Starts, NEW g \in Executed, Suffix(t, g) \in chains',
             NEW p \in Pipes
      PROVE  pipe'[p] = IF (p = 0 /\ g >= 1) \/ (p # 0 /\ g = 2 * p)
                        THEN UnitsOf(t) ELSE <<>>
  <2>1. t = s /\ g = h + 1
    BY <1>4, OneChunkUnderWay
  <2>2. h + 1 < Last
    BY <1>1, <1>4, <2>1
  <2>. QED
    BY <1>1, <1>2, <2>1, <2>2
<1>5. \A d \in Outputs, o \in Offsets :
          StartOf(o) < total_processed' /\ ~Pending(StartOf(o), d)' => content'[d][o] = o
  BY FullContent
<1>. QED
  BY <1>3, <1>4, <1>5 DEF Clean

(* With room for a chunk in each pipe nothing but a fault makes a transfer *)
(* fall short: what an entry needs is there and what it moves fits.        *)
LEMMA FullWithoutFault ==
    ASSUME IInv, Clean, NEW chain \in chains,
           NEW s \in Starts, NEW h \in Executed, NEW k \in Int,
           Ran(s, h, k, chain), faults' = faults, ChunkSize <= PipeSize
    PROVE  k = LenAt(s)
<1>. USE DEF Ran
<1>. DEFINE j == h + 1
            most == Movable(EntryAt(s, j))
<1>1. j \in Positions /\ LenAt(s) \in 1 .. ChunkSize /\ ChunkSize \in Nat /\ PipeSize \in Nat
      /\ faults \in Nat
  BY SuffixFacts, ChunkFacts, Constants, Types DEF IInv
<1>2. k = most
  BY <1>1 DEF MaybeFaulty
<1>3. Len(UnitsOf(s)) = LenAt(s) /\ Len(<<>>) = 0
  BY UnitsFacts
<1>4. CASE OpAt(j) = "source"
  <2>1. pipe[0] = <<>>
    BY <1>4, PipesUnderWay
  <2>2. LenAt(s) <= PipeSize - Len(pipe[0])
    BY <1>1, <1>3, <2>1
  <2>. QED
    BY <1>1, <1>2, <1>4, <2>2, MovableFacts
<1>5. CASE OpAt(j) = "tee"
  <2>1. pipe[0] = UnitsOf(s) /\ pipe[ForAt(j)] = <<>>
    BY <1>5, PipesUnderWay
  <2>2. LenAt(s) <= Len(pipe[0]) /\ LenAt(s) <= PipeSize - Len(pipe[ForAt(j)])
    BY <1>1, <1>3, <2>1
  <2>. QED
    BY <1>1, <1>2, <1>5, <2>2, MovableFacts
<1>6. CASE OpAt(j) \in {"drain", "last"}
  <2>1. PICK p \in Pipes : DrainAt(p) = j
    BY <1>1, <1>6, PositionFacts, PlaceFacts
  <2>2. pipe[p] = UnitsOf(s)
    BY <2>1, PipesUnderWay
  <2>3. LenAt(s) <= Len(pipe[p])
    BY <1>1, <1>3, <2>2
  <2>. QED
    BY <1>1, <1>2, <1>6, <2>1, <2>3, MovableFacts
<1>. QED
  BY <1>1, <1>4, <1>5, <1>6, PositionFacts

(* A chain that is cut leaves its chunk unwritten in the last output.      *)
LEMMA LostWhenCut ==
    ASSUME IInv, Clean, ~interrupted, ~short', NEW chain \in chains,
           NEW s \in Starts, NEW h \in Executed, NEW k \in Int,
           Ran(s, h, k, chain), k # LenAt(s)
    PROVE  Lost'
<1>. USE DEF Ran
<1>. DEFINE j == h + 1
            most == Movable(EntryAt(s, j))
<1>1. h \in Nat /\ j \in Positions /\ h < Last /\ Last \in Nat
      /\ WriteAt(NumOutputs) = Last /\ NumOutputs \in Outputs
  BY SuffixFacts, PlaceFacts, Constants DEF Executed
<1>2. \A g \in Executed : Suffix(s, g) \notin chains'
  OBVIOUS
<1>3. ~(k > 0 /\ j = Last)
  <2>1. SUFFICES ASSUME k > 0, j = Last PROVE FALSE
    OBVIOUS
  <2>2. OpAt(j) = "last"
    BY <1>1, <2>1, PositionFacts
  <2>3. k # most => short'
    BY <2>1, <2>2 DEF MaybeFaulty
  <2>4. 0 \in Pipes /\ DrainAt(0) = j
    BY <2>1, PlaceFacts
  <2>5. pipe[0] = UnitsOf(s) /\ Len(UnitsOf(s)) = LenAt(s) /\ LenAt(s) \in Nat
    BY <2>4, PipesUnderWay, UnitsFacts, ChunkFacts
  <2>6. LenAt(s) <= Len(pipe[0])
    BY <2>5
  <2>7. most = LenAt(s)
    BY <1>1, <2>2, <2>4, <2>6, MovableFacts
  <2>. QED
    BY <2>3, <2>7
<1>4. ASSUME NEW o \in Offsets, StartOf(o) = s
      PROVE  content'[NumOutputs][o] = Hole
  <2>1. Pending(s, NumOutputs)
    BY <1>1, ExecutePending
  <2>2. content[NumOutputs][o] = Hole
    BY <1>1, <1>4, <2>1 DEF IInv, Unwritten
  <2>3. content'[NumOutputs][o] = content[NumOutputs][o]
    BY <1>1, <1>3, ContentAfter
  <2>. QED
    BY <2>2, <2>3
<1>. QED
  BY <1>2, <1>4 DEF Lost

(* What is lost stays lost. *)
LEMMA LostStays ==
    ASSUME IInv, Lost, NEW chain \in chains,
           NEW s \in Starts, NEW h \in Executed, NEW k \in Int,
           Ran(s, h, k, chain)
    PROVE  Lost'
<1>. USE DEF Ran
<1>1. PICK t \in Starts : /\ t < total_processed
                          /\ \A g \in Executed : Suffix(t, g) \notin chains
                          /\ \A o \in Offsets : StartOf(o) = t => content[NumOutputs][o] = Hole
  BY DEF Lost
<1>2. t # s
  BY <1>1
<1>3. \A g \in Executed : Suffix(t, g) \notin chains'
  BY <1>1, <1>2
<1>4. ASSUME NEW o \in Offsets, StartOf(o) = t
      PROVE  content'[NumOutputs][o] = Hole
  <2>1. o \notin s .. (s + k - 1)
    <3>1. o \in s .. (s + k - 1) => o \in s .. (s + LenAt(s) - 1)
      BY ChunkFacts
    <3>. QED
      BY <1>2, <1>4, <3>1, OffsetFacts
  <2>2. h + 1 \in Positions /\ NumOutputs \in Outputs
    BY SuffixFacts, PlaceFacts
  <2>3. content'[NumOutputs][o] = content[NumOutputs][o]
    BY <2>1, <2>2, ContentAfter
  <2>. QED
    BY <1>1, <1>4, <2>3
<1>5. total_processed' = total_processed
  OBVIOUS
<1>. QED
  BY <1>1, <1>3, <1>4, <1>5 DEF Lost

(* Submitting a chunk into empty pipes, or after one that is lost. *)
LEMMA SubmitKeepsClean ==
    ASSUME IInv, SubmitChunk
    PROVE  /\ ~interrupted /\ Clean => Clean'
           /\ Lost => Lost'
<1>3. PICK s \in Starts : s = total_processed
  BY SubmitStep
<1>1. /\ pc = "prepare" /\ s \in Starts
      /\ total_processed' = s + LenAt(s)
      /\ 0 \in Executed
      /\ \A t \in Starts, g \in Executed :
           Suffix(t, g) \in chains' <=> Suffix(t, g) \in chains \/ (t = s /\ g = 0)
      /\ Suffix(s, 0) \in chains'
      /\ UNCHANGED <<pipe, content>>
  BY <1>3, SubmitStep
<1>2. s \in Nat /\ LenAt(s) \in Nat /\ s < s + LenAt(s)
      /\ \A t \in Starts : t \in Nat /\ (s < t => s + LenAt(s) <= t)
  BY <1>1, ChunkFacts
<1>4. ASSUME ~interrupted, Clean PROVE Clean'
  <2>1. chains = {} /\ \A p \in Pipes : pipe[p] = <<>>
    BY <1>1, <1>4 DEF IInv, OneAtATime, Clean
  <2>2. ASSUME NEW t \in Starts, NEW g \in Executed, Suffix(t, g) \in chains',
               NEW p \in Pipes
        PROVE  pipe'[p] = IF (p = 0 /\ g >= 1) \/ (p # 0 /\ g = 2 * p)
                          THEN UnitsOf(t) ELSE <<>>
    <3>1. g = 0 /\ p \in Nat
      BY <1>1, <2>1, <2>2 DEF Pipes
    <3>2. ~(p = 0 /\ g >= 1) /\ ~(p # 0 /\ g = 2 * p)
      BY <3>1
    <3>3. pipe'[p] = <<>>
      BY <1>1, <2>1
    <3>. QED
      BY <3>2, <3>3
  <2>3. ASSUME NEW d \in Outputs, NEW o \in Offsets,
               StartOf(o) < total_processed', ~Pending(StartOf(o), d)'
        PROVE  content'[d][o] = o
    <3>1. StartOf(o) \in Starts /\ StartOf(o) \in Nat
      BY <1>2, OffsetFacts
    <3>2. StartOf(o) # s
      <4>1. 0 < WriteAt(d)
        BY PlaceFacts, PositionFacts
      <4>2. Pending(s, d)'
        BY <1>1, <4>1 DEF Pending
      <4>. QED
        BY <2>3, <4>2
    <3>3. StartOf(o) < s
      BY <1>1, <1>2, <2>3, <3>1, <3>2
    <3>4. ~Pending(StartOf(o), d)
      BY <2>1 DEF Pending
    <3>. QED
      BY <1>1, <1>3, <1>4, <3>3, <3>4 DEF Clean
  <2>4. chains' # {}
    BY <1>1
  <2>. QED
    BY <2>2, <2>3, <2>4 DEF Clean
<1>5. ASSUME Lost PROVE Lost'
  <2>1. PICK t \in Starts : /\ t < s
                          /\ \A g \in Executed : Suffix(t, g) \notin chains
                          /\ \A o \in Offsets : StartOf(o) = t => content[NumOutputs][o] = Hole
    BY <1>3, <1>5 DEF Lost
  <2>2. t # s /\ t < total_processed'
    BY <1>1, <1>2, <2>1
  <2>3. \A g \in Executed : Suffix(t, g) \notin chains'
    BY <1>1, <2>1, <2>2
  <2>. QED
    BY <1>1, <2>1, <2>2, <2>3 DEF Lost
<1>. QED
  BY <1>4, <1>5

(* Each step keeps the pipes clean or loses a chunk. *)
Conditions == CleanOrLost /\ CleanUnlessFaults

(* Every step keeps both.                                                  *)
LEMMA ConditionsKeep == ASSUME IInv, Conditions, [Next]_vars PROVE Conditions'
<1>1. CASE SubmitChunk
  <2>1. UNCHANGED <<faults, short, interrupted>>
    BY <1>1, SubmitStep
  <2>2. /\ ~interrupted /\ Clean => Clean'
        /\ Lost => Lost'
    BY <1>1, SubmitKeepsClean
  <2>3. faults = 0 => ~interrupted
    BY DEF IInv, Histories
  <2>. QED
    BY <2>1, <2>2, <2>3 DEF Conditions, CleanOrLost, CleanUnlessFaults
<1>2. CASE WaitEnds \/ WaitInterrupted
  <2>1. /\ UNCHANGED <<total_processed, chains, pipe, content, short>>
        /\ ~interrupted' => ~interrupted
    BY <1>2, SeeKeeps
  <2>2. faults' = 0 => faults = 0
    <3>1. faults' = faults \/ faults' = faults + 1
      BY <1>2 DEF WaitEnds, WaitInterrupted, faultVars
    <3>2. faults \in Nat
      BY Types DEF IInv
    <3>. QED
      BY <3>1, <3>2
  <2>3. (Clean' <=> Clean) /\ (Lost' <=> Lost)
    BY <2>1 DEF Clean, Lost, Pending
  <2>. QED
    BY <2>1, <2>2, <2>3 DEF Conditions, CleanOrLost, CleanUnlessFaults
<1>3. ASSUME NEW chain \in chains, Execute(chain) PROVE Conditions'
  <2>1. PICK s \in Starts, h \in Executed, k \in Int : Ran(s, h, k, chain)
    BY <1>3, ExecuteStep
  <2>2. /\ interrupted' = interrupted
        /\ ~short' => ~short
        /\ faults' = faults \/ faults' = faults + 1
    <3>1. MaybeFaulty(h + 1, k, Movable(EntryAt(s, h + 1)))
      BY <2>1 DEF Ran
    <3>2. CASE UNCHANGED <<faults, short, interrupted>>
      BY <3>2
    <3>3. CASE /\ faults' = faults + 1 /\ interrupted' = interrupted
               /\ short' = (short \/ (k > 0 /\ OpAt(h + 1) \in {"drain", "last"}))
      <4>1. ~short' => ~short
        BY <3>3, Zenon
      <4>. QED
        BY <3>3, <4>1
    <3>. QED
      BY <3>1, <3>2, <3>3, Zenon DEF MaybeFaulty
  <2>3. faults \in Nat /\ (faults = 0 => ~interrupted)
    BY Types DEF IInv, Histories
  <2>4. CleanOrLost'
    <3>1. SUFFICES ASSUME ~interrupted, ~short' PROVE Clean' \/ Lost'
      BY <2>2 DEF CleanOrLost
    <3>2. Clean \/ Lost
      BY <2>2, <3>1 DEF Conditions, CleanOrLost
    <3>3. Lost => Lost'
      BY <2>1, LostStays
    <3>4. ASSUME Clean PROVE Clean' \/ Lost'
      BY <2>1, <3>1, <3>4, FullIsClean, LostWhenCut
    <3>. QED
      BY <3>2, <3>3, <3>4
  <2>5. CleanUnlessFaults'
    <3>1. SUFFICES ASSUME ChunkSize <= PipeSize, faults' = 0 PROVE Clean'
      BY DEF CleanUnlessFaults
    <3>2. faults' = faults /\ faults = 0
      BY <2>2, <2>3, <3>1
    <3>3. Clean /\ ~interrupted
      BY <2>3, <3>1, <3>2 DEF Conditions, CleanUnlessFaults
    <3>4. k = LenAt(s)
      BY <2>1, <3>1, <3>2, <3>3, FullWithoutFault
    <3>. QED
      BY <2>1, <3>3, <3>4, FullIsClean
  <2>. QED
    BY <2>4, <2>5 DEF Conditions
<1>4. CASE Terminated \/ UNCHANGED vars
  <2>1. UNCHANGED <<total_processed, chains, pipe, content, faults, short, interrupted>>
    BY <1>4 DEF Terminated, vars, faultVars
  <2>. QED
    BY <2>1 DEF Conditions, CleanOrLost, CleanUnlessFaults, Clean, Lost, Pending
<1>. QED
  BY <1>1, <1>2, <1>3, <1>4 DEF Next

(* The pipes are empty when the call begins.                               *)
LEMMA InitiallyClean == ASSUME Init PROVE Conditions
<1>1. /\ chains = {} /\ \A p \in Pipes : pipe[p] = <<>>
      /\ total_processed = 0
  BY DEF Init
<1>2. \A o \in Offsets : ~(StartOf(o) < 0)
  <2>1. ASSUME NEW o \in Offsets PROVE StartOf(o) \in Nat
    BY OffsetFacts, ChunkFacts
  <2>. QED
    BY <2>1
<1>3. Clean
  BY <1>1, <1>2 DEF Clean
<1>. QED
  BY <1>3 DEF Conditions, CleanOrLost, CleanUnlessFaults

(* The invariant of the pipes: what they hold is told by the chain under   *)
(* way, unless something failed.                                           *)
THEOREM PipeInvariance == Spec => [](IInv /\ Conditions)
<1>1. Init => IInv /\ Conditions
  BY Initially, InitiallyClean
<1>2. IInv /\ Conditions /\ [Next]_vars => (IInv /\ Conditions)'
  BY NextKeeps, ConditionsKeep
<1>. QED
  BY <1>1, <1>2, PTL DEF Spec

(* "This clears the drain": with pipes that can hold a chunk, and as long  *)
(* as nothing failed, the next chunk finds every pipe empty.               *)
THEOREM DrainsAreCleared == ASSUME ChunkSize <= PipeSize PROVE Spec => []PipesCleared
<1>1. IInv /\ Conditions => PipesCleared
  <2>. SUFFICES ASSUME IInv, Conditions, pc = "prepare", faults = 0
                PROVE  \A p \in Pipes : pipe[p] = <<>>
    BY DEF PipesCleared
  <2>1. Clean /\ ~interrupted
    BY DEF Conditions, CleanUnlessFaults, IInv, Histories
  <2>2. chains = {}
    BY <2>1 DEF IInv, OneAtATime
  <2>. QED
    BY <2>1, <2>2 DEF Clean
<1>. QED
  BY <1>1, PipeInvariance, PTL

-----------------------------------------------------------------------------
(* The abstract broadcast's variables, as Promised maps them. *)
HeldOffsets == [d \in Outputs |-> {o \in Offsets : content[d][o] = o}]
FailedOutputs == {d \in Outputs : faults > 0}
HasReturned == pc = "done"

(* A step that leaves the outputs alone, before the end. *)
LEMMA WorkOrReturn ==
    ASSUME ~HasReturned, content' = content,
           FailedOutputs' = FailedOutputs \/ FailedOutputs' = Outputs,
           HasReturned' =>
               \/ FailedOutputs' = Outputs
               \/ \A d \in Outputs \ FailedOutputs : HeldOffsets[d] = Offsets
    PROVE  Promised!Next
<1>1. HeldOffsets' = HeldOffsets
  BY DEF HeldOffsets
<1>2. FailedOutputs' = FailedOutputs \cup FailedOutputs' /\ FailedOutputs' \in SUBSET Outputs
  BY DEF FailedOutputs
<1>3. HasReturned = FALSE /\ HasReturned' \in BOOLEAN
  BY DEF HasReturned
<1>4. CASE HasReturned' = TRUE
  <2>1. \A d \in Outputs \ FailedOutputs' : HeldOffsets[d] = Offsets
    BY <1>2, <1>4
  <2>2. Promised!Return
    BY <1>1, <1>2, <1>3, <1>4, <2>1
       DEF Promised!Return, HeldOffsets, FailedOutputs, HasReturned
  <2>. QED
    BY <2>2 DEF Promised!Next
<1>5. CASE HasReturned' = FALSE
  <2>1. PICK d \in Outputs : TRUE
    BY PlaceFacts
  <2>2. HeldOffsets' = [HeldOffsets EXCEPT ![d] = @ \cup {}]
    BY <1>1 DEF HeldOffsets
  <2>3. \E more \in SUBSET Offsets : HeldOffsets' = [HeldOffsets EXCEPT ![d] = @ \cup more]
    BY <2>2
  <2>4. Promised!Work(d)
    BY <1>2, <1>3, <1>5, <2>3
       DEF Promised!Work, HeldOffsets, FailedOutputs, HasReturned
  <2>. QED
    BY <2>4 DEF Promised!Next
<1>. QED
  BY <1>3, <1>4, <1>5

(* An entry writes to one output at most, and only where it held nothing. *)
LEMMA ExecuteHolds ==
    ASSUME IInv, NEW chain \in chains, NEW s \in Starts, NEW h \in Executed,
           NEW k \in Int, Ran(s, h, k, chain)
    PROVE  \E d \in Outputs, more \in SUBSET Offsets :
              HeldOffsets' = [HeldOffsets EXCEPT ![d] = @ \cup more]
<1>1. h + 1 \in Positions
  BY SuffixFacts
<1>2. ASSUME NEW d \in Outputs, WriteAt(d) # h + 1, NEW o \in Offsets
      PROVE  content'[d][o] = content[d][o]
  BY <1>1, <1>2, ContentAfter DEF Ran
<1>3. PICK d \in Outputs : \A e \in Outputs \ {d} : WriteAt(e) # h + 1
  <2>1. CASE OpAt(h + 1) \in {"drain", "last"}
    <3>1. ForAt(h + 1) \in Outputs
      BY <1>1, <2>1, PlaceFacts
    <3>2. \A e \in Outputs : WriteAt(e) = h + 1 => e = ForAt(h + 1)
      BY PlaceFacts
    <3>. QED
      BY <3>1, <3>2
  <2>2. CASE OpAt(h + 1) \notin {"drain", "last"}
    <3>1. \A e \in Outputs : WriteAt(e) # h + 1
      BY <2>2, PlaceFacts
    <3>. QED
      BY <3>1, PlaceFacts
  <2>. QED
    BY <2>1, <2>2
<1>4. \A o \in Offsets : content[d][o] = o => content'[d][o] = o
  <2>1. \A o \in Offsets : o # Hole
    BY Constants DEF Offsets
  <2>. QED
    BY <2>1, ExecuteUnwritten
<1>. DEFINE more == {o \in Offsets : content'[d][o] = o}
<1>5. \A e \in Outputs \ {d} : HeldOffsets'[e] = HeldOffsets[e]
  BY <1>2, <1>3 DEF HeldOffsets
<1>6. HeldOffsets'[d] = HeldOffsets[d] \cup more
  BY <1>4 DEF HeldOffsets
<1>7. HeldOffsets' = [HeldOffsets EXCEPT ![d] = @ \cup more]
  <2>1. /\ HeldOffsets' = [e \in Outputs |-> HeldOffsets'[e]]
        /\ HeldOffsets = [e \in Outputs |-> HeldOffsets[e]]
    BY DEF HeldOffsets
  <2>. HIDE DEF more
  <2>. QED
    BY <1>5, <1>6, <2>1
<1>. QED
  BY <1>7

(* What the kernel does is work on one output, late if the loop was        *)
(* interrupted and has ended.                                              *)
LEMMA ExecuteMapped ==
    ASSUME IInv, NEW chain \in chains, Execute(chain)
    PROVE  Promised!Next
<1>1. PICK s \in Starts, h \in Executed, k \in Int : Ran(s, h, k, chain)
  BY ExecuteStep
<1>2. PICK d \in Outputs, more \in SUBSET Offsets :
          HeldOffsets' = [HeldOffsets EXCEPT ![d] = @ \cup more]
  BY <1>1, ExecuteHolds
<1>3. faults \in Nat /\ (faults' = faults \/ faults' = faults + 1)
  <2>1. faults' = faults \/ faults' = faults + 1
    BY <1>1, Zenon DEF Ran, MaybeFaulty
  <2>. QED
    BY <2>1, Types DEF IInv
<1>4. /\ FailedOutputs' \in SUBSET Outputs
      /\ FailedOutputs' = FailedOutputs \cup FailedOutputs'
      /\ HasReturned' = HasReturned
  BY <1>1, <1>3 DEF FailedOutputs, HasReturned, Ran
<1>5. CASE pc # "done"
  <2>1. HasReturned = FALSE
    BY <1>5 DEF HasReturned
  <2>2. Promised!Work(d)
    BY <1>2, <1>4, <2>1
       DEF Promised!Work, HeldOffsets, FailedOutputs, HasReturned
  <2>. QED
    BY <2>2 DEF Promised!Next
<1>6. CASE pc = "done"
  <2>1. HasReturned = TRUE
    BY <1>6 DEF HasReturned
  <2>2. faults > 0
    BY <1>6 DEF IInv, OneAtATime, Histories
  <2>3. FailedOutputs = Outputs /\ FailedOutputs' = Outputs
    BY <1>3, <2>2 DEF FailedOutputs
  <2>4. Promised!Late(d)
    BY <1>2, <1>4, <2>1, <2>3
       DEF Promised!Late, HeldOffsets, FailedOutputs, HasReturned
  <2>. QED
    BY <2>4 DEF Promised!Next
<1>. QED
  BY <1>5, <1>6

(* When a wait without faults before it ends the loop, every output is a   *)
(* copy.                                                                   *)
LEMMA WholeCopies ==
    ASSUME IInv, Conditions, ChunkSize <= PipeSize, faults = 0,
           chains = {}, total_processed = FileSize, NEW d \in Outputs
    PROVE  HeldOffsets[d] = Offsets
<1>1. Clean
  BY DEF Conditions, CleanUnlessFaults
<1>2. ASSUME NEW o \in Offsets PROVE content[d][o] = o
  <2>1. StartOf(o) < FileSize
    BY OffsetFacts, ChunkFacts
  <2>2. ~Pending(StartOf(o), d)
    BY DEF Pending
  <2>. QED
    BY <1>1, <2>1, <2>2 DEF Clean
<1>. QED
  BY <1>2 DEF HeldOffsets

(* Every step is one of the abstract broadcast, or a stutter. *)
LEMMA MappedSteps ==
    ASSUME ChunkSize <= PipeSize, IInv, Conditions, [Next]_vars
    PROVE  [Promised!Next]_(Promised!vars)
<1>1. CASE Terminated \/ UNCHANGED vars
  <2>1. UNCHANGED <<pc, content, faults>>
    BY <1>1 DEF Terminated, vars, faultVars
  <2>. QED
    BY <2>1 DEF Promised!vars
<1>2. CASE SubmitChunk
  <2>1. /\ UNCHANGED <<content, faults>>
        /\ pc = "prepare" /\ pc' = "wait"
    BY <1>2 DEF SubmitChunk, faultVars
  <2>2. HasReturned = FALSE /\ HasReturned' = FALSE /\ FailedOutputs' = FailedOutputs
    BY <2>1 DEF HasReturned, FailedOutputs
  <2>. QED
    BY <2>1, <2>2, WorkOrReturn
<1>3. CASE WaitInterrupted
  <2>1. pc = "wait" /\ content' = content /\ faults' = faults + 1
    BY <1>3 DEF WaitInterrupted, SeeCompletions
  <2>2. faults' > 0
    BY <2>1, Types DEF IInv
  <2>3. ~HasReturned /\ FailedOutputs' = Outputs
    BY <2>1, <2>2 DEF HasReturned, FailedOutputs
  <2>. QED
    BY <2>1, <2>3, WorkOrReturn
<1>4. CASE WaitEnds
  <2>1. pc = "wait" /\ UNCHANGED <<content, faults, interrupted>>
    BY <1>4 DEF WaitEnds, SeeCompletions, faultVars
  <2>2. ~HasReturned /\ FailedOutputs' = FailedOutputs
    BY <2>1 DEF HasReturned, FailedOutputs
  <2>3. ASSUME HasReturned', NEW d \in Outputs \ FailedOutputs
        PROVE  HeldOffsets[d] = Offsets
    <3>1. faults = 0 /\ ~interrupted
      BY <2>3, Types DEF FailedOutputs, IInv, Histories
    <3>2. chains = {}
      BY <1>4, <3>1, WaitedForAll
    <3>3. total_processed = FileSize
      BY <1>4, <2>3, SeeKeeps DEF HasReturned
    <3>. QED
      BY <3>1, <3>2, <3>3, WholeCopies
  <2>. QED
    BY <2>1, <2>2, <2>3, WorkOrReturn
<1>5. CASE \E chain \in chains : Execute(chain)
  BY <1>5, ExecuteMapped
<1>. QED
  BY <1>1, <1>2, <1>3, <1>4, <1>5 DEF Next

(* If a pipe can hold a chunk, and the file is not empty (the call on an   *)
(* empty one has returned before the first step), mode 4 implements the    *)
(* abstract broadcast.                                                     *)
THEOREM ImplementsBroadcast ==
    ASSUME ChunkSize <= PipeSize, FileSize > 0 PROVE Spec => Promised!Safety
<1>1. Init => Promised!Init
  <2>. SUFFICES ASSUME Init PROVE Promised!Init
    OBVIOUS
  <2>1. HeldOffsets = [d \in Outputs |-> {}]
    <3>1. \A d \in Outputs, o \in Offsets : content[d][o] = Hole /\ o # Hole
      BY Constants DEF Init, Offsets
    <3>. QED
      BY <3>1 DEF HeldOffsets
  <2>2. FailedOutputs = {} /\ HasReturned = FALSE
    BY DEF Init, FailedOutputs, HasReturned
  <2>. QED
    BY <2>1, <2>2 DEF Promised!Init, HeldOffsets, FailedOutputs, HasReturned
<1>2. IInv /\ Conditions /\ [Next]_vars => [Promised!Next]_(Promised!vars)
  BY MappedSteps
<1>. QED
  BY <1>1, <1>2, PipeInvariance, PTL DEF Spec, Promised!Safety

-----------------------------------------------------------------------------
(* An entry that moved its chunk has filled the pipe of the next one. *)
LEMMA PipesFilled ==
    ASSUME IInv, NEW s \in Starts, NEW j \in Positions, NEW k \in Nat,
           k > 0, k <= LenAt(s), Moves(s, j, k)
    PROVE  /\ j = 1 => k <= Len(pipe'[0])
           /\ j # 1 /\ j # Last => Len(pipe[0]) <= Len(pipe'[0])
           /\ OpAt(j) = "tee" => k <= Len(pipe'[ForAt(j)])
<1>1. /\ pipe \in [Pipes -> Seq(Offsets)] /\ 0 \in Pipes
      /\ j \in Nat /\ Last \in Nat /\ Last >= 2
  BY PlaceFacts, PositionFacts, Constants DEF IInv, PipeTypes
<1>2. \A p \in Pipes : pipe[p] \in Seq(Offsets) /\ Len(pipe[p]) \in Nat
  BY <1>1
<1>3. CASE OpAt(j) = "source" /\ Filled(s, k)
  <2>. DEFINE r == [i \in 1 .. k |-> s + i - 1]
  <2>1. j = 1 /\ OpAt(j) # "tee"
    BY <1>3, PositionFacts
  <2>2. pipe'[0] = pipe[0] \o r
    BY <1>1, <1>3 DEF Filled
  <2>3. r \in Seq(Offsets) /\ Len(r) = k
    <3>1. \A i \in 1 .. k : s + i - 1 \in Offsets
      <4>1. \A i \in 1 .. LenAt(s) : s + i - 1 \in Offsets
        BY ChunkFacts
      <4>2. 1 .. k \subseteq 1 .. LenAt(s)
        BY ChunkFacts
      <4>. QED
        BY <4>1, <4>2
    <3>. QED
      BY <3>1
  <2>. HIDE DEF r
  <2>4. Len(pipe[0] \o r) = Len(pipe[0]) + k
    <3>1. pipe[0] \in Seq(Offsets)
      BY <1>1, <1>2
    <3>. QED
      BY <2>3, <3>1
  <2>. QED
    BY <1>1, <1>2, <2>1, <2>2, <2>4
<1>4. CASE OpAt(j) = "tee" /\ Teed(ForAt(j), k)
  <2>. DEFINE d == ForAt(j)
              r == SubSeq(pipe[0], 1, k)
  <2>1. d \in Pipes \ {0} /\ j # 1
    BY <1>4, PlaceFacts, PositionFacts
  <2>2. pipe' = [pipe EXCEPT ![d] = pipe[d] \o r] /\ k <= Len(pipe[0])
    BY <1>4 DEF Teed
  <2>3. r \in Seq(Offsets) /\ Len(r) = k
    BY <1>1, <1>2, <2>2, SequenceParts
  <2>. HIDE DEF d, r
  <2>4. pipe'[d] = pipe[d] \o r /\ pipe'[0] = pipe[0]
    BY <1>1, <2>1, <2>2
  <2>5. pipe[d] \in Seq(Offsets) /\ Len(pipe[d]) \in Nat
    BY <1>2, <2>1
  <2>6. Len(pipe[d] \o r) = Len(pipe[d]) + k
    BY <2>3, <2>5
  <2>7. k <= Len(pipe'[d]) /\ Len(pipe[0]) <= Len(pipe'[0])
    BY <1>1, <1>2, <2>4, <2>5, <2>6
  <2>. QED
    BY <2>1, <2>7 DEF d
<1>5. ASSUME OpAt(j) \in {"drain", "last"}, NEW p \in Pipes, DrainAt(p) = j,
             Drained(s, p, ForAt(j), k)
      PROVE  /\ j # 1 /\ OpAt(j) # "tee"
             /\ j # Last => pipe'[0] = pipe[0]
  <2>1. j # 1 /\ OpAt(j) # "tee"
    BY <1>1, <1>5, PositionFacts
  <2>2. p = 0 => j = Last
    BY <1>5 DEF DrainAt
  <2>3. p # 0 => pipe'[0] = pipe[0]
    BY <1>1, <1>5 DEF Drained
  <2>. QED
    BY <2>1, <2>2, <2>3
<1>6. CASE OpAt(j) \in {"drain", "last"} /\ \E p \in Pipes : DrainAt(p) = j /\ Drained(s, p, ForAt(j), k)
  <2>1. /\ j # 1 /\ OpAt(j) # "tee"
        /\ j # Last => pipe'[0] = pipe[0]
    BY <1>5, <1>6
  <2>2. Len(pipe[0]) <= Len(pipe[0])
    BY <1>1, <1>2
  <2>. QED
    BY <2>1, <2>2
<1>. QED
  BY <1>3, <1>4, <1>6 DEF Moves

(* The kernel's steps leave the pipes filled for the rest of the chain. *)
LEMMA ExecuteFeeds ==
    ASSUME IInv, Fed, ~interrupted, NEW chain \in chains,
           NEW s \in Starts, NEW h \in Executed, NEW k \in Int, Ran(s, h, k, chain)
    PROVE  Fed'
<1>. USE DEF Ran
<1>1. SUFFICES ASSUME NEW t \in Starts, NEW g \in Executed, NEW p \in Pipes,
                      Suffix(t, g) \in chains', FedAt(p, g)
               PROVE  LenAt(t) <= Len(pipe'[p])
  BY DEF Fed
<1>2. t = s /\ k = LenAt(s) /\ g = h + 1
  BY <1>1, OneChunkUnderWay
<1>3. /\ h \in Nat /\ h + 1 \in Positions /\ h + 1 < Last /\ Last \in Nat
      /\ k \in Nat /\ k > 0 /\ p \in Nat /\ 0 \in Pipes
      /\ p < NumOutputs /\ NumOutputs \in Nat /\ Last = 2 * NumOutputs
  BY <1>1, <1>2, SuffixFacts, ChunkFacts, Constants, PlaceFacts DEF Executed, Pipes, Last
<1>4. /\ h + 1 = 1 => k <= Len(pipe'[0])
      /\ h + 1 # 1 /\ h + 1 # Last => Len(pipe[0]) <= Len(pipe'[0])
      /\ OpAt(h + 1) = "tee" => k <= Len(pipe'[ForAt(h + 1)])
  BY <1>3, PipesFilled
<1>5. CASE p = 0 /\ h = 0
  BY <1>2, <1>4, <1>5
<1>6. CASE p = 0 /\ h # 0
  <2>1. LenAt(s) <= Len(pipe[0])
    BY <1>3, <1>6 DEF Fed, FedAt
  <2>2. Len(pipe[0]) <= Len(pipe'[0])
    BY <1>3, <1>4, <1>6
  <2>3. Len(pipe[0]) \in Nat /\ Len(pipe'[0]) \in Nat
    <3>1. pipe' \in [Pipes -> Seq(Offsets)]
      BY <1>3, PipesAfter
    <3>. QED
      BY <1>3, <3>1 DEF IInv, PipeTypes
  <2>. QED
    BY <1>2, <1>3, <1>6, <2>1, <2>2, <2>3
<1>7. CASE p # 0
  <2>1. h + 1 = 2 * p
    BY <1>1, <1>2, <1>7 DEF FedAt
  <2>2. (2 * p) % 2 = 0 /\ (2 * p) \div 2 = p
    BY <1>3
  <2>3. 2 * p # 1 /\ 2 * p # Last
    BY <1>3, <1>7
  <2>4. OpAt(h + 1) = "tee" /\ ForAt(h + 1) = p
    BY <2>1, <2>2, <2>3 DEF OpAt, ForAt
  <2>. QED
    BY <1>2, <1>4, <2>4
<1>. QED
  BY <1>5, <1>6, <1>7

(* Each completion of a step names the chunk; if it will be counted it     *)
(* wrote all of it.                                                        *)
LEMMA NewWroteAll ==
    ASSUME IInv, Fed, ~interrupted, ~short', NEW chain \in chains,
           NEW s \in Starts, NEW h \in Executed, NEW k \in Int, Ran(s, h, k, chain),
           NEW c \in NewCompletions(s, h, k)
    PROVE  c.off + c.len = total_processed' /\ WroteAll(c)'
<1>. USE DEF Ran
<1>. DEFINE j == h + 1
<1>1. /\ h \in Nat /\ j \in Positions /\ s + LenAt(s) = total_processed
      /\ total_processed' = total_processed
      /\ LenAt(s) \in Nat
  BY SuffixFacts, ChunkFacts DEF IInv, OneAtATime
<1>2. CASE \E i \in Positions : c = Completion(EntryAt(s, i), -1) /\ i > h + 1
  <2>1. c.off = s /\ c.len = LenAt(s) /\ c.res = -1
    BY <1>2 DEF Completion, EntryAt
  <2>. QED
    BY <1>1, <2>1 DEF WroteAll
<1>3. CASE c = Completion(EntryAt(s, j), k)
  <2>1. /\ c.op = OpAt(j) /\ c.d = ForAt(j) /\ c.off = s /\ c.len = LenAt(s)
        /\ c.res = k
    BY <1>3 DEF Completion, EntryAt
  <2>2. ASSUME OpAt(j) \in {"drain", "last"}, k >= 0
        PROVE  /\ k = LenAt(s)
               /\ \A o \in Offsets : StartOf(o) = s => content'[ForAt(j)][o] # Hole
    <3>1. k > 0 /\ k \in Nat
      BY <2>2
    <3>2. PICK p \in Pipes : DrainAt(p) = j
      BY <1>1, <2>2, PositionFacts, PlaceFacts
    <3>3. FedAt(p, h)
      <4>1. p \in Nat /\ Last \in Nat /\ Last >= 2
        BY Constants DEF Pipes
      <4>. QED
        BY <1>1, <3>2, <4>1 DEF DrainAt, FedAt
    <3>4. LenAt(s) <= Len(pipe[p])
      BY <3>3 DEF Fed
    <3>5. Movable(EntryAt(s, j)) = LenAt(s)
      BY <1>1, <2>2, <3>2, <3>4, MovableFacts
    <3>6. k = Movable(EntryAt(s, j))
      BY <2>2, <3>1, Zenon DEF MaybeFaulty
    <3>7. ASSUME NEW o \in Offsets, StartOf(o) = s
          PROVE  content'[ForAt(j)][o] # Hole
      <4>1. o \in s .. (s + k - 1)
        BY <3>5, <3>6, <3>7, OffsetFacts
      <4>2. ForAt(j) \in Outputs /\ WriteAt(ForAt(j)) = j
        BY <1>1, <2>2, PlaceFacts
      <4>3. content'[ForAt(j)][o] \in Offsets
        BY <1>1, <3>1, <4>1, <4>2, ContentAfter
      <4>. QED
        BY <4>3, Constants DEF Offsets
    <3>. QED
      BY <3>5, <3>6, <3>7
  <2>. QED
    BY <1>1, <2>1, <2>2 DEF WroteAll
<1>. QED
  BY <1>2, <1>3, NewCompletionFacts

(* What is counted is finite, and not more than all the outputs hold. *)
LEMMA FiniteCounted ==
    /\ IsFiniteSet(Outputs \X Offsets)
    /\ Cardinality(Outputs \X Offsets) = NumOutputs * FileSize
    /\ IsFiniteSet(Counted) /\ Cardinality(Counted) \in Nat
    /\ Cardinality(Counted) <= NumOutputs * FileSize
<1>1. IsFiniteSet(Offsets) /\ Cardinality(Offsets) = FileSize
  BY Constants, FS_Interval DEF Offsets
<1>2. IsFiniteSet(Outputs) /\ Cardinality(Outputs) = NumOutputs
  BY Constants, FS_Interval DEF Outputs
<1>3. /\ IsFiniteSet(Outputs \X Offsets)
      /\ Cardinality(Outputs \X Offsets) = NumOutputs * FileSize
  BY <1>1, <1>2, FS_Product
<1>4. Counted \in SUBSET (Outputs \X Offsets)
  BY DEF Counted
<1>5. IsFiniteSet(Counted) /\ Cardinality(Counted) <= Cardinality(Outputs \X Offsets)
  BY <1>3, <1>4, FS_Subset
<1>. QED
  BY <1>3, <1>5, FS_CardinalityType

(* Submitting the next chunk: what was seen stays counted. *)
LEMMA SubmitAccounts == ASSUME IInv, Accounted, SubmitChunk PROVE Accounted'
<1>1. PICK s \in Starts : s = total_processed
  BY SubmitStep
<1>2. /\ pc = "prepare" /\ total_processed' = s + LenAt(s)
      /\ UNCHANGED <<cq, content, total_data_moved, short, interrupted>>
  BY <1>1, SubmitStep DEF SubmitChunk, faultVars
<1>3. SUFFICES ASSUME ~interrupted, ~short PROVE Accounted'
  BY <1>2 DEF Accounted
<1>4. cq' = {}
  BY <1>2, <1>3 DEF IInv, OneAtATime
<1>5. s \in Nat /\ LenAt(s) \in Nat /\ LenAt(s) > 0
  BY ChunkFacts
<1>6. ASSUME NEW u \in Counted PROVE u \in Counted'
  <2>1. u[1] \in Outputs /\ u[2] \in Offsets /\ content[u[1]][u[2]] # Hole
        /\ u \in Outputs \X Offsets
    BY DEF Counted
  <2>2. StartOf(u[2]) < s /\ StartOf(u[2]) \in Starts
    BY <1>1, <2>1, OffsetFacts DEF IInv, Unwritten
  <2>3. ASSUME NEW t \in Starts, t < s PROVE t + LenAt(t) < s + LenAt(s)
    <3>1. t + LenAt(t) <= s /\ t \in Nat /\ LenAt(t) \in Nat
      BY <2>3, ChunkFacts
    <3>. QED
      BY <1>5, <3>1
  <2>4. StartOf(u[2]) + LenAt(StartOf(u[2])) < total_processed'
    BY <1>2, <2>2, <2>3
  <2>. QED
    BY <1>2, <2>1, <2>4 DEF Counted
<1>7. Cardinality(Counted) <= Cardinality(Counted') /\ Cardinality(Counted') \in Nat
  <2>1. IsFiniteSet(Counted') /\ Counted \in SUBSET Counted'
    <3>1. Counted' \in SUBSET (Outputs \X Offsets)
      BY DEF Counted
    <3>2. IsFiniteSet(Counted')
      BY <3>1, FiniteCounted, FS_Subset
    <3>. QED
      BY <1>6, <3>2
  <2>. QED
    BY <2>1, FS_Subset, FS_CardinalityType
<1>8. total_data_moved <= Cardinality(Counted')
  <2>1. total_data_moved <= Cardinality(Counted)
    BY <1>2, <1>3 DEF Accounted
  <2>2. total_data_moved \in Nat /\ Cardinality(Counted) \in Nat
    BY FiniteCounted, Types DEF IInv
  <2>. QED
    BY <1>7, <2>1, <2>2
<1>. QED
  BY <1>2, <1>4, <1>8 DEF Accounted

(* The units that completions add to the total, as places of the outputs:  *)
(* each is one that the chunk just waited for has written, and no two are  *)
(* the same.                                                               *)
MovedUnits == {u \in cq \X (1 .. ChunkSize) : u[2] <= Moved(u[1])}
PlaceOf(u) == <<u[1].d, u[1].off + u[2] - 1>>
JustWritten ==
    {u \in Outputs \X Offsets :
        /\ content[u[1]][u[2]] # Hole
        /\ StartOf(u[2]) + LenAt(StartOf(u[2])) = total_processed}

(* A unit counted in this chunk's completions is one that its splice has   *)
(* just written.                                                           *)
LEMMA MovedUnit ==
    ASSUME IInv, Accounted, ~interrupted, ~short, NEW u \in MovedUnits
    PROVE  /\ PlaceOf(u) \in JustWritten
           /\ \E s \in Starts, j \in Positions :
                /\ s + LenAt(s) = total_processed
                /\ OpAt(j) \in {"drain", "last"}
                /\ u = <<Completion(EntryAt(s, j), LenAt(s)), u[2]>>
                /\ u[1].d = ForAt(j) /\ u[1].off = s /\ u[2] \in Nat
<1>1. u[1] \in cq /\ u[2] \in 1 .. ChunkSize /\ u[2] <= Moved(u[1]) /\ u = <<u[1], u[2]>>
  BY DEF MovedUnits
<1>. DEFINE c == u[1]
<1>2. PICK s \in Starts, j \in Positions, res \in -1 .. ChunkSize :
          c = Completion(EntryAt(s, j), res)
  BY <1>1 DEF IInv, Shape, Completions
<1>3. /\ c.op = OpAt(j) /\ c.d = ForAt(j) /\ c.off = s /\ c.len = LenAt(s) /\ c.res = res
  BY <1>2 DEF Completion, EntryAt
<1>4. c.off + c.len = total_processed /\ WroteAll(c)
  BY <1>1 DEF Accounted
<1>. HIDE DEF c
<1>5. u[2] \in Nat /\ u[2] >= 1
  BY <1>1, Constants
<1>6. c.op \in {"drain", "last"} /\ c.res >= 0 /\ u[2] <= c.len
  BY <1>1, <1>5 DEF Moved, c
<1>7. res = LenAt(s) /\ \A o \in Offsets : StartOf(o) = s => content[ForAt(j)][o] # Hole
  BY <1>3, <1>4, <1>6 DEF WroteAll
<1>. DEFINE o == s + u[2] - 1
<1>8. o \in Offsets /\ StartOf(o) = s
  <2>1. u[2] \in 1 .. LenAt(s) /\ s \in Nat /\ LenAt(s) \in Nat
    BY <1>3, <1>5, <1>6, ChunkFacts
  <2>2. o \in Offsets
    BY <2>1, ChunkFacts
  <2>3. o \in s .. (s + LenAt(s) - 1)
    BY <2>1
  <2>. HIDE DEF o
  <2>. QED
    BY <2>2, <2>3, OffsetFacts
<1>9. ForAt(j) \in Outputs
  BY <1>3, <1>6, PlaceFacts
<1>10. PlaceOf(u) = <<ForAt(j), o>>
  BY <1>3 DEF PlaceOf, c
<1>. HIDE DEF o
<1>11. PlaceOf(u) \in JustWritten
  BY <1>3, <1>4, <1>7, <1>8, <1>9, <1>10 DEF JustWritten
<1>12. u = <<Completion(EntryAt(s, j), LenAt(s)), u[2]>>
  BY <1>1, <1>2, <1>7 DEF c
<1>. QED
  BY <1>3, <1>4, <1>5, <1>6, <1>11, <1>12 DEF c

(* No place of an output is counted by two completions.                    *)
LEMMA MovedOnce ==
    ASSUME IInv, Accounted, ~interrupted, ~short, NEW u \in MovedUnits, NEW v \in MovedUnits,
           PlaceOf(u) = PlaceOf(v)
    PROVE  u = v
<1>1. PICK s \in Starts, j \in Positions :
        /\ s + LenAt(s) = total_processed
        /\ OpAt(j) \in {"drain", "last"}
        /\ u = <<Completion(EntryAt(s, j), LenAt(s)), u[2]>>
        /\ u[1].d = ForAt(j) /\ u[1].off = s /\ u[2] \in Nat
  BY MovedUnit
<1>2. PICK t \in Starts, i \in Positions :
        /\ t + LenAt(t) = total_processed
        /\ OpAt(i) \in {"drain", "last"}
        /\ v = <<Completion(EntryAt(t, i), LenAt(t)), v[2]>>
        /\ v[1].d = ForAt(i) /\ v[1].off = t /\ v[2] \in Nat
  BY MovedUnit
<1>3. s = t
  <2>1. /\ s < t => s + LenAt(s) <= t
        /\ t < s => t + LenAt(t) <= s
        /\ s \in Nat /\ t \in Nat /\ LenAt(s) \in 1 .. ChunkSize /\ LenAt(t) \in 1 .. ChunkSize
        /\ ChunkSize \in Nat
    BY ChunkFacts, Constants
  <2>2. s + LenAt(s) = t + LenAt(t)
    BY <1>1, <1>2
  <2>. QED
    BY <2>1, <2>2
<1>4. ForAt(i) = ForAt(j) /\ s + u[2] - 1 = t + v[2] - 1
  BY <1>1, <1>2 DEF PlaceOf
<1>5. i = j
  <2>1. WriteAt(ForAt(i)) = i /\ WriteAt(ForAt(j)) = j
    BY <1>1, <1>2, PlaceFacts
  <2>. QED
    BY <1>4, <2>1
<1>6. u[2] = v[2]
  <2>1. s \in Nat /\ t \in Nat
    BY ChunkFacts
  <2>. QED
    BY <1>1, <1>2, <1>3, <1>4, <2>1
<1>. QED
  BY <1>1, <1>2, <1>3, <1>5, <1>6

(* So what is added is not more than what was written. *)
LEMMA MovedIsWritten ==
    ASSUME IInv, Accounted, ~interrupted, ~short
    PROVE  /\ IsFiniteSet(JustWritten) /\ Cardinality(JustWritten) \in Nat
           /\ MovedBy(cq) <= Cardinality(JustWritten)
<1>1. IsFiniteSet(JustWritten) /\ Cardinality(JustWritten) \in Nat
  <2>1. JustWritten \in SUBSET (Outputs \X Offsets)
    BY DEF JustWritten
  <2>. QED
    BY <2>1, FiniteCounted, FS_Subset, FS_CardinalityType
<1>. DEFINE f == [u \in MovedUnits |-> PlaceOf(u)]
<1>2. f \in [MovedUnits -> JustWritten]
  BY MovedUnit
<1>3. \A u, v \in MovedUnits : f[u] = f[v] => u = v
  BY MovedOnce
<1>4. f \in Injection(MovedUnits, JustWritten)
  <2>. HIDE DEF f
  <2>. QED
    BY <1>2, <1>3 DEF Injection, IsInjective
<1>5. Cardinality(MovedUnits) <= Cardinality(JustWritten)
  <2>. HIDE DEF f
  <2>. QED
    BY <1>1, <1>4, FS_Injection
<1>6. MovedBy(cq) = Cardinality(MovedUnits)
  BY DEF MovedBy, MovedUnits
<1>. QED
  BY <1>1, <1>5, <1>6

(* The end of a wait: what was counted and what is added differ. *)
LEMMA SeeAccounts ==
    ASSUME IInv, Accounted, WaitEnds \/ WaitInterrupted
    PROVE  Accounted'
<1>1. /\ pc = "wait" /\ pc' # "wait"
      /\ total_data_moved' = total_data_moved + MovedBy(cq) /\ cq' = {}
      /\ UNCHANGED <<total_processed, content, short>>
      /\ ~interrupted' => ~interrupted
  BY SeeKeeps
<1>2. SUFFICES ASSUME ~interrupted, ~short PROVE Accounted'
  BY <1>1 DEF Accounted
<1>3. /\ IsFiniteSet(JustWritten) /\ Cardinality(JustWritten) \in Nat
      /\ MovedBy(cq) <= Cardinality(JustWritten)
  BY <1>2, MovedIsWritten
<1>4. MovedBy(cq) \in Nat
  BY MovedByFacts DEF IInv, Shape
<1>5. Counted \cap JustWritten = {}
  <2>1. SUFFICES ASSUME NEW u \in Counted \cap JustWritten PROVE FALSE
    OBVIOUS
  <2>. DEFINE n == StartOf(u[2]) + LenAt(StartOf(u[2]))
  <2>2. n < total_processed /\ n = total_processed
    BY <1>1, <2>1 DEF Counted, JustWritten
  <2>3. total_processed \in Nat
    BY Types DEF IInv
  <2>. HIDE DEF n
  <2>. QED
    BY <2>2, <2>3
<1>6. Counted \cup JustWritten \in SUBSET Counted'
  BY <1>1 DEF Counted, JustWritten
<1>7. IsFiniteSet(Counted') /\ Cardinality(Counted') \in Nat
  <2>1. Counted' \in SUBSET (Outputs \X Offsets)
    BY DEF Counted
  <2>. QED
    BY <2>1, FiniteCounted, FS_Subset, FS_CardinalityType
<1>8. Cardinality(Counted) + Cardinality(JustWritten) <= Cardinality(Counted')
  <2>1. /\ Cardinality(Counted \cup JustWritten)
           = Cardinality(Counted) + Cardinality(JustWritten)
             - Cardinality(Counted \cap JustWritten)
    BY <1>3, FiniteCounted, FS_Union
  <2>2. Cardinality(Counted \cap JustWritten) = 0
    BY <1>5, FS_EmptySet
  <2>3. Cardinality(Counted \cup JustWritten) <= Cardinality(Counted')
    BY <1>6, <1>7, FS_Subset
  <2>4. Cardinality(Counted) \in Nat
    BY FiniteCounted
  <2>. QED
    BY <1>3, <2>1, <2>2, <2>3, <2>4
<1>9. total_data_moved' <= Cardinality(Counted')
  <2>1. total_data_moved <= Cardinality(Counted) /\ total_data_moved \in Nat
    BY <1>2, Types DEF Accounted, IInv
  <2>2. Cardinality(Counted) \in Nat
    BY FiniteCounted
  <2>. QED
    BY <1>1, <1>3, <1>4, <1>7, <1>8, <2>1, <2>2
<1>. QED
  BY <1>1, <1>9 DEF Accounted

(* A step of the kernel: what is written stays written, and what completes *)
(* is accounted for.                                                       *)
LEMMA ExecuteAccounts ==
    ASSUME IInv, Fed, Accounted, NEW chain \in chains, Execute(chain)
    PROVE  Accounted'
<1>1. PICK s \in Starts, h \in Executed, k \in Int : Ran(s, h, k, chain)
  BY ExecuteStep
<1>2. /\ interrupted' = interrupted
      /\ ~short' => ~short
      /\ UNCHANGED <<pc, total_processed, total_data_moved>>
      /\ cq' = cq \cup NewCompletions(s, h, k)
  <2>1. MaybeFaulty(h + 1, k, Movable(EntryAt(s, h + 1)))
    BY <1>1 DEF Ran
  <2>2. CASE UNCHANGED <<faults, short, interrupted>>
    BY <1>1, <2>2 DEF Ran
  <2>3. CASE /\ interrupted' = interrupted
             /\ short' = (short \/ (k > 0 /\ OpAt(h + 1) \in {"drain", "last"}))
    <3>1. ~short' => ~short
      BY <2>3, Zenon
    <3>. QED
      BY <1>1, <2>3, <3>1 DEF Ran
  <2>. QED
    BY <2>1, <2>2, <2>3, Zenon DEF MaybeFaulty
<1>3. SUFFICES ASSUME ~interrupted, ~short' PROVE Accounted'
  BY <1>2 DEF Accounted
<1>4. \A d \in Outputs, o \in Offsets :
          content[d][o] # Hole => content'[d][o] = content[d][o]
  BY <1>1, ExecuteUnwritten
<1>5. Cardinality(Counted) <= Cardinality(Counted') /\ Cardinality(Counted') \in Nat
  <2>1. Counted \in SUBSET Counted'
    BY <1>2, <1>4 DEF Counted
  <2>2. Counted' \in SUBSET (Outputs \X Offsets)
    BY DEF Counted
  <2>3. IsFiniteSet(Counted')
    BY <2>2, FiniteCounted, FS_Subset
  <2>. QED
    BY <2>1, <2>3, FS_Subset, FS_CardinalityType
<1>6. total_data_moved' <= Cardinality(Counted')
  <2>1. total_data_moved <= Cardinality(Counted) /\ total_data_moved \in Nat
        /\ Cardinality(Counted) \in Nat
    BY <1>2, <1>3, FiniteCounted, Types DEF Accounted, IInv
  <2>. QED
    BY <1>2, <1>5, <2>1
<1>7. ASSUME NEW c \in cq PROVE c.off + c.len = total_processed' /\ WroteAll(c)'
  <2>1. c.off + c.len = total_processed /\ WroteAll(c)
    BY <1>2, <1>3 DEF Accounted
  <2>2. c.op \in {"drain", "last"} => c.d \in Outputs
    <3>1. PICK t \in Starts, j \in Positions, res \in -1 .. ChunkSize :
              c = Completion(EntryAt(t, j), res)
      BY DEF IInv, Shape, Completions
    <3>2. c.op = OpAt(j) /\ c.d = ForAt(j)
      BY <3>1 DEF Completion, EntryAt
    <3>. QED
      BY <3>2, PlaceFacts
  <2>. QED
    BY <1>2, <1>4, <2>1, <2>2 DEF WroteAll
<1>8. \A c \in NewCompletions(s, h, k) : c.off + c.len = total_processed' /\ WroteAll(c)'
  BY <1>1, <1>3, NewWroteAll
<1>. QED
  BY <1>2, <1>6, <1>7, <1>8 DEF Accounted

(* The steps of the total. *)
LEMMA AccountsKeep ==
    ASSUME IInv, Fed, Accounted, [Next]_vars PROVE Fed' /\ Accounted'
<1>1. CASE SubmitChunk
  <2>1. SUFFICES ASSUME ~interrupted' PROVE Fed'
    BY <1>1, SubmitAccounts DEF Fed
  <2>2. PICK s \in Starts : s = total_processed
    BY <1>1, SubmitStep
  <2>3. /\ ~interrupted /\ chains = {}
        /\ \A t \in Starts, g \in Executed :
              Suffix(t, g) \in chains' => Suffix(t, g) \in chains \/ (t = s /\ g = 0)
    BY <1>1, <2>1, <2>2, SubmitStep DEF SubmitChunk, faultVars, IInv, OneAtATime
  <2>4. ASSUME NEW p \in Pipes PROVE ~FedAt(p, 0)
    BY DEF FedAt, Pipes
  <2>. QED
    BY <2>3, <2>4 DEF Fed
<1>2. CASE WaitEnds \/ WaitInterrupted
  <2>1. UNCHANGED <<chains, pipe>> /\ (~interrupted' => ~interrupted)
    BY <1>2, SeeKeeps
  <2>2. Fed'
    BY <2>1 DEF Fed
  <2>. QED
    BY <1>2, <2>2, SeeAccounts
<1>3. ASSUME NEW chain \in chains, Execute(chain) PROVE Fed' /\ Accounted'
  <2>1. PICK s \in Starts, h \in Executed, k \in Int : Ran(s, h, k, chain)
    BY <1>3, ExecuteStep
  <2>2. interrupted' = interrupted
    BY <2>1, Zenon DEF Ran, MaybeFaulty
  <2>3. Fed'
    BY <2>1, <2>2, ExecuteFeeds DEF Fed
  <2>. QED
    BY <1>3, <2>3, ExecuteAccounts
<1>4. CASE Terminated \/ UNCHANGED vars
  <2>1. UNCHANGED vars
    BY <1>4 DEF Terminated
  <2>. QED
    BY <2>1 DEF vars, faultVars, Fed, Accounted, Counted, WroteAll
<1>. QED
  BY <1>1, <1>2, <1>3, <1>4 DEF Next

(* A total of size times outputs means complete copies: it counts no place *)
(* twice and none that was not written; and when every place is written no *)
(* chunk was cut, so what is written is clean.                             *)
THEOREM TotalIsHonest == Spec => []TotalShowsErrors
<1>1. Init => Fed /\ Accounted
  <2>. SUFFICES ASSUME Init PROVE Fed /\ Accounted
    OBVIOUS
  <2>1. chains = {} /\ cq = {} /\ total_data_moved = 0
    BY DEF Init
  <2>2. Cardinality(Counted) \in Nat
    BY FiniteCounted
  <2>. QED
    BY <2>1, <2>2 DEF Fed, Accounted
<1>2. IInv /\ Fed /\ Accounted /\ [Next]_vars => Fed' /\ Accounted'
  BY AccountsKeep
<1>3. IInv /\ Conditions /\ Accounted => TotalShowsErrors
  <2>. SUFFICES ASSUME IInv, Conditions, Accounted, pc = "done", ~short, ~interrupted,
                       total_data_moved = FileSize * NumOutputs,
                       NEW d \in Outputs, NEW o \in Offsets
                PROVE  content[d][o] = o
    BY DEF TotalShowsErrors, Complete
  <2>1. Counted = Outputs \X Offsets
    <3>. DEFINE all == Outputs \X Offsets
    <3>1. Cardinality(Counted) = NumOutputs * FileSize
      <4>1. total_data_moved <= Cardinality(Counted) /\ total_data_moved = NumOutputs * FileSize
        BY Constants DEF Accounted
      <4>. QED
        BY <4>1, FiniteCounted, Types DEF IInv
    <3>2. IsFiniteSet(all) /\ Cardinality(all) = Cardinality(Counted) /\ Counted \in SUBSET all
      BY <3>1, FiniteCounted DEF Counted
    <3>. HIDE DEF all
    <3>3. Counted = all
      BY <3>2, FS_Subset
    <3>. QED
      BY <3>3 DEF all
  <2>2. ASSUME NEW e \in Outputs, NEW x \in Offsets PROVE content[e][x] # Hole
    <3>1. <<e, x>> \in Counted
      BY <2>1
    <3>2. content[<<e, x>>[1]][<<e, x>>[2]] # Hole
      BY <3>1 DEF Counted
    <3>. QED
      BY <3>2
  <2>3. ~Lost
    <3>1. SUFFICES ASSUME NEW s \in Starts,
                          \A x \in Offsets : StartOf(x) = s => content[NumOutputs][x] = Hole
                   PROVE  FALSE
      BY DEF Lost
    <3>2. s \in Offsets /\ StartOf(s) = s
      <4>1. s \in Nat /\ s < FileSize /\ StartOf(s) = s
        BY ChunkFacts
      <4>. QED
        BY <4>1, Constants DEF Offsets
    <3>. QED
      BY <2>2, <3>1, <3>2, PlaceFacts
  <2>4. Clean
    BY <2>3 DEF Conditions, CleanOrLost
  <2>5. chains = {} /\ total_processed = FileSize
    BY DEF IInv, OneAtATime, LoopState
  <2>6. StartOf(o) < total_processed /\ ~Pending(StartOf(o), d)
    BY <2>5, OffsetFacts, ChunkFacts DEF Pending
  <2>. QED
    BY <2>4, <2>6 DEF Clean
<1>. QED
  BY <1>1, <1>2, <1>3, PipeInvariance, PTL DEF Spec

-----------------------------------------------------------------------------
(* How long a step makes a pipe: an entry fills one, or drains one. *)
Fills(j, p) == (j = 1 /\ p = 0) \/ (OpAt(j) = "tee" /\ p = ForAt(j))

LEMMA PipeLengths ==
    ASSUME IInv, NEW s \in Starts, NEW j \in Positions, NEW k \in Int,
           k <= LenAt(s), k = -1 \/ k > 0, Moves(s, j, k), NEW p \in Pipes
    PROVE  /\ Len(pipe'[p]) \in Nat
           /\ Fills(j, p) => Len(pipe'[p]) <= Len(pipe[p]) + LenAt(s)
           /\ ~Fills(j, p) => Len(pipe'[p]) <= Len(pipe[p])
           /\ k > 0 /\ DrainAt(p) = j => Len(pipe'[p]) = Len(pipe[p]) - k
<1>1. /\ pipe \in [Pipes -> Seq(Offsets)] /\ 0 \in Pipes
      /\ j \in Nat /\ Last \in Nat /\ Last >= 2 /\ NumOutputs \in Nat
      /\ LenAt(s) \in Nat /\ p \in 0 .. (NumOutputs - 1) /\ Last = 2 * NumOutputs
  BY PlaceFacts, PositionFacts, Constants, ChunkFacts DEF IInv, PipeTypes, Pipes, Last
<1>2. \A q \in Pipes : pipe[q] \in Seq(Offsets) /\ Len(pipe[q]) \in Nat
  BY <1>1
<1>3. CASE k = -1 /\ pipe' = pipe
  BY <1>1, <1>2, <1>3
<1>4. CASE k > 0 /\ OpAt(j) = "source" /\ Filled(s, k)
  <2>. DEFINE r == [i \in 1 .. k |-> s + i - 1]
  <2>1. j = 1
    BY <1>4, PositionFacts
  <2>2. r \in Seq(Offsets) /\ Len(r) = k
    <3>1. \A i \in 1 .. k : s + i - 1 \in Offsets
      <4>1. \A i \in 1 .. LenAt(s) : s + i - 1 \in Offsets
        BY ChunkFacts
      <4>2. 1 .. k \subseteq 1 .. LenAt(s)
        BY <1>1
      <4>. QED
        BY <4>1, <4>2
    <3>. QED
      BY <1>4, <3>1
  <2>3. pipe' = [pipe EXCEPT ![0] = pipe[0] \o r]
    BY <1>4 DEF Filled
  <2>. HIDE DEF r
  <2>4. Len(pipe[0] \o r) = Len(pipe[0]) + k
    <3>1. pipe[0] \in Seq(Offsets)
      BY <1>1, <1>2
    <3>. QED
      BY <2>2, <3>1
  <2>5. DrainAt(p) # j
    BY <1>1, <2>1 DEF DrainAt
  <2>6. CASE p = 0
    <3>1. pipe'[p] = pipe[0] \o r
      BY <1>1, <2>3, <2>6
    <3>2. Len(pipe'[p]) = Len(pipe[p]) + k /\ Fills(j, p)
      BY <2>1, <2>4, <2>6, <3>1 DEF Fills
    <3>3. Len(pipe[p]) \in Nat
      BY <1>2
    <3>4. Len(pipe'[p]) \in Nat /\ Len(pipe'[p]) <= Len(pipe[p]) + LenAt(s)
      BY <1>1, <1>4, <3>2, <3>3
    <3>. QED
      BY <2>5, <3>2, <3>4
  <2>7. CASE p # 0
    <3>1. pipe'[p] = pipe[p]
      BY <1>1, <2>3, <2>7
    <3>. QED
      BY <1>1, <1>2, <2>5, <3>1
  <2>. QED
    BY <2>6, <2>7
<1>5. CASE k > 0 /\ OpAt(j) = "tee" /\ Teed(ForAt(j), k)
  <2>. DEFINE d == ForAt(j)
              r == SubSeq(pipe[0], 1, k)
  <2>1. d \in Pipes \ {0} /\ j # 1 /\ j = 2 * d /\ j # Last /\ d \in Nat
    BY <1>1, <1>5, PlaceFacts, PositionFacts DEF Pipes
  <2>2. pipe' = [pipe EXCEPT ![d] = pipe[d] \o r] /\ k <= Len(pipe[0]) /\ k \in Nat
    BY <1>5 DEF Teed
  <2>3. r \in Seq(Offsets) /\ Len(r) = k
    BY <1>1, <1>2, <2>2, SequenceParts
  <2>4. Fills(j, p) <=> p = d
    BY <1>5, <2>1 DEF Fills
  <2>. HIDE DEF d, r
  <2>5. Len(pipe[d] \o r) = Len(pipe[d]) + k
    <3>1. pipe[d] \in Seq(Offsets)
      BY <1>2, <2>1
    <3>. QED
      BY <2>3, <3>1
  <2>6. DrainAt(p) # j
    BY <1>1, <2>1 DEF DrainAt
  <2>7. CASE p = d
    <3>1. pipe'[p] = pipe[d] \o r
      BY <1>1, <2>1, <2>2, <2>7
    <3>2. Len(pipe'[p]) = Len(pipe[p]) + k /\ Fills(j, p)
      BY <2>4, <2>5, <2>7, <3>1
    <3>3. Len(pipe[p]) \in Nat
      BY <1>2
    <3>4. Len(pipe'[p]) \in Nat /\ Len(pipe'[p]) <= Len(pipe[p]) + LenAt(s)
      BY <1>1, <1>5, <3>2, <3>3
    <3>. QED
      BY <2>6, <3>2, <3>4
  <2>8. CASE p # d
    <3>1. pipe'[p] = pipe[p]
      BY <1>1, <2>1, <2>2, <2>8
    <3>. QED
      BY <1>1, <1>2, <2>4, <2>6, <2>8, <3>1
  <2>. QED
    BY <2>7, <2>8
<1>6. ASSUME k > 0, OpAt(j) \in {"drain", "last"}, NEW q \in Pipes, DrainAt(q) = j,
             Drained(s, q, ForAt(j), k)
      PROVE  /\ Len(pipe'[p]) \in Nat
             /\ ~Fills(j, p) /\ Len(pipe'[p]) <= Len(pipe[p])
             /\ DrainAt(p) = j => Len(pipe'[p]) = Len(pipe[p]) - k
  <2>. DEFINE r == SubSeq(pipe[q], k + 1, Len(pipe[q]))
  <2>1. j # 1 /\ ~Fills(j, p)
    BY <1>1, <1>6, PositionFacts DEF Fills
  <2>2. pipe' = [pipe EXCEPT ![q] = r] /\ k <= Len(pipe[q]) /\ k \in Nat
    BY <1>6 DEF Drained
  <2>3. r \in Seq(Offsets) /\ Len(r) = Len(pipe[q]) - k
    BY <1>2, <2>2, SequenceParts
  <2>4. DrainAt(p) = j => p = q
    <3>1. q \in 0 .. (NumOutputs - 1)
      BY DEF Pipes
    <3>. QED
      BY <1>1, <1>6, <3>1 DEF DrainAt
  <2>. HIDE DEF r
  <2>5. CASE p = q
    <3>1. pipe'[p] = r
      BY <1>1, <2>2, <2>5
    <3>. QED
      BY <1>2, <2>1, <2>2, <2>3, <2>5, <3>1
  <2>6. CASE p # q
    <3>1. pipe'[p] = pipe[p]
      BY <1>1, <2>2, <2>6
    <3>. QED
      BY <1>1, <1>2, <2>1, <2>4, <2>6, <3>1
  <2>. QED
    BY <2>5, <2>6
<1>7. CASE k > 0 /\ OpAt(j) \in {"drain", "last"}
           /\ \E q \in Pipes : DrainAt(q) = j /\ Drained(s, q, ForAt(j), k)
  BY <1>6, <1>7
<1>. QED
  BY <1>3, <1>4, <1>5, <1>7 DEF Moves

(* Where a chunk is in the pipes from entry to entry. *)
LEMMA FedNext ==
    ASSUME NEW h \in Executed, NEW p \in Pipes
    PROVE  /\ Fills(h + 1, p) => ~FedAt(p, h) /\ FedAt(p, h + 1) /\ h + 1 # Last
           /\ FedAt(p, h) => (FedAt(p, h + 1) /\ h + 1 # Last) \/ DrainAt(p) = h + 1
           /\ OpAt(h + 1) \in {"drain", "last"} /\ DrainAt(p) = h + 1 => FedAt(p, h)
           /\ OpAt(h + 1) = "tee" => FedAt(0, h)
<1>1. /\ h \in Nat /\ h < Last /\ h + 1 \in Positions /\ Last = 2 * NumOutputs
      /\ NumOutputs \in Nat /\ NumOutputs >= 1 /\ p \in Nat /\ p < NumOutputs
  BY Constants DEF Executed, Positions, Last, Pipes
<1>2. ASSUME Fills(h + 1, p) PROVE ~FedAt(p, h) /\ FedAt(p, h + 1) /\ h + 1 # Last
  <2>1. CASE h + 1 = 1 /\ p = 0
    BY <1>1, <2>1 DEF FedAt
  <2>2. CASE OpAt(h + 1) = "tee" /\ p = ForAt(h + 1)
    <3>1. p # 0 /\ h + 1 = 2 * p
      BY <1>1, <2>2, PositionFacts
    <3>. QED
      BY <1>1, <3>1 DEF FedAt
  <2>. QED
    BY <1>2, <2>1, <2>2 DEF Fills
<1>3. ASSUME FedAt(p, h) PROVE (FedAt(p, h + 1) /\ h + 1 # Last) \/ DrainAt(p) = h + 1
  BY <1>1, <1>3 DEF FedAt, DrainAt
<1>4. ASSUME OpAt(h + 1) \in {"drain", "last"}, DrainAt(p) = h + 1 PROVE FedAt(p, h)
  BY <1>1, <1>4 DEF FedAt, DrainAt
<1>5. ASSUME OpAt(h + 1) = "tee" PROVE FedAt(0, h)
  BY <1>1, <1>5, PositionFacts DEF FedAt
<1>. QED
  BY <1>2, <1>3, <1>4, <1>5

(* As long as there is room for a chunk an entry moves it whole. *)
LEMMA MovesInFull ==
    ASSUME IInv, Fed, Spare, HasRoom, NEW s \in Starts, NEW h \in Executed,
           Suffix(s, h) \in chains
    PROVE  Movable(EntryAt(s, h + 1)) = LenAt(s)
<1>. DEFINE j == h + 1
            B == ChunkSize * faults
<1>1. /\ j \in Positions /\ LenAt(s) \in 1 .. ChunkSize /\ ChunkSize \in Nat
      /\ PipeSize \in Nat /\ faults \in Nat
  BY SuffixFacts, ChunkFacts, Constants, Types DEF IInv
<1>2. B \in Nat /\ ChunkSize * (faults + 1) = B + ChunkSize
  BY <1>1
<1>3. B + ChunkSize <= PipeSize
  BY <1>2 DEF HasRoom
<1>4. \A p \in Pipes : Len(pipe[p]) \in Nat
  BY Types DEF IInv
<1>5. \A p \in Pipes : Len(pipe[p]) <= B + (IF FedAt(p, h) THEN LenAt(s) ELSE 0)
  BY DEF Spare
<1>6. \A p \in Pipes : FedAt(p, h) => LenAt(s) <= Len(pipe[p])
  BY DEF Fed, HasRoom
<1>. HIDE DEF B
<1>7. \A p \in Pipes : ~FedAt(p, h) => LenAt(s) <= PipeSize - Len(pipe[p])
  BY <1>1, <1>2, <1>3, <1>4, <1>5
<1>8. CASE OpAt(j) = "source"
  <2>1. 0 \in Pipes /\ Fills(j, 0)
    BY <1>1, <1>8, PlaceFacts, PositionFacts DEF Fills
  <2>2. LenAt(s) <= PipeSize - Len(pipe[0])
    BY <1>7, <2>1, FedNext
  <2>. QED
    BY <1>1, <1>8, <2>2, MovableFacts
<1>9. CASE OpAt(j) = "tee"
  <2>1. 0 \in Pipes /\ ForAt(j) \in Pipes /\ Fills(j, ForAt(j)) /\ FedAt(0, h)
    BY <1>1, <1>9, PlaceFacts, FedNext DEF Fills
  <2>2. LenAt(s) <= Len(pipe[0]) /\ LenAt(s) <= PipeSize - Len(pipe[ForAt(j)])
    BY <1>6, <1>7, <2>1, FedNext
  <2>. QED
    BY <1>1, <1>9, <2>2, MovableFacts
<1>10. CASE OpAt(j) \in {"drain", "last"}
  <2>1. PICK p \in Pipes : DrainAt(p) = j
    BY <1>1, <1>10, PositionFacts, PlaceFacts
  <2>2. LenAt(s) <= Len(pipe[p])
    BY <1>6, <1>10, <2>1, FedNext
  <2>. QED
    BY <1>1, <1>10, <2>1, <2>2, MovableFacts
<1>. QED
  BY <1>1, <1>8, <1>9, <1>10, PositionFacts

(* The residue that a pipe holds grows by faults only, by a chunk at most. *)
LEMMA ExecuteSpares ==
    ASSUME IInv, Fed, Spare, NEW chain \in chains,
           NEW s \in Starts, NEW h \in Executed, NEW k \in Int, Ran(s, h, k, chain)
    PROVE  Spare'
<1>. DEFINE B == ChunkSize * faults
            L == LenAt(s)
<1>1. SUFFICES ASSUME HasRoom' PROVE Spare'
  BY DEF Spare
<1>2. /\ ChunkSize \in Nat /\ PipeSize \in Nat /\ faults \in Nat /\ L \in 1 .. ChunkSize
      /\ h \in Nat /\ h + 1 \in Positions /\ Suffix(s, h) \in chains
      /\ k \in Int /\ k <= L /\ (k = -1 \/ k > 0) /\ Moves(s, h + 1, k)
  BY ChunkFacts, Constants, Types, SuffixFacts DEF IInv, Ran
<1>3. /\ \/ k = Movable(EntryAt(s, h + 1)) /\ faults' = faults
         \/ k # Movable(EntryAt(s, h + 1)) /\ faults' = faults + 1
      /\ interrupted' = interrupted
  BY Zenon DEF Ran, MaybeFaulty
<1>4. /\ B \in Nat /\ ChunkSize * (faults + 1) = B + ChunkSize
      /\ ChunkSize * ((faults + 1) + 1) = B + ChunkSize + ChunkSize
  BY <1>2
<1>5. HasRoom
  BY <1>1, <1>2, <1>3, <1>4 DEF HasRoom
<1>6. Movable(EntryAt(s, h + 1)) = L
  BY <1>2, <1>5, MovesInFull
<1>7. ASSUME NEW t \in Starts, NEW g \in Executed, Suffix(t, g) \in chains'
      PROVE  t = s /\ k = L /\ g = h + 1
  <2>1. ~interrupted
    BY <1>5 DEF HasRoom
  <2>. QED
    BY <1>2, <1>7, <2>1, OneChunkUnderWay DEF Ran
<1>8. ASSUME NEW p \in Pipes
      PROVE  /\ Len(pipe[p]) \in Nat /\ Len(pipe'[p]) \in Nat
             /\ Len(pipe[p]) <= B + (IF FedAt(p, h) THEN L ELSE 0)
             /\ Fills(h + 1, p) => Len(pipe'[p]) <= Len(pipe[p]) + L
             /\ ~Fills(h + 1, p) => Len(pipe'[p]) <= Len(pipe[p])
             /\ k > 0 /\ DrainAt(p) = h + 1 => Len(pipe'[p]) = Len(pipe[p]) - k
  <2>1. Len(pipe[p]) \in Nat
    BY Types DEF IInv
  <2>. QED
    BY <1>2, <1>5, <2>1, PipeLengths DEF Spare
<1>. HIDE DEF B, L
<1>9. CASE k = L
  <2>1. faults' = faults /\ k > 0
    BY <1>2, <1>3, <1>6, <1>9
  <2>2. ASSUME NEW p \in Pipes
        PROVE  Len(pipe'[p]) <= B + (IF FedAt(p, h + 1) /\ h + 1 # Last THEN L ELSE 0)
    <3>1. CASE Fills(h + 1, p)
      <4>1. ~FedAt(p, h) /\ FedAt(p, h + 1) /\ h + 1 # Last
        BY <3>1, FedNext
      <4>. QED
        BY <1>2, <1>4, <1>8, <3>1, <4>1
    <3>2. CASE ~Fills(h + 1, p) /\ ~FedAt(p, h)
      BY <1>2, <1>4, <1>8, <3>2
    <3>3. CASE ~Fills(h + 1, p) /\ FedAt(p, h)
      <4>1. (FedAt(p, h + 1) /\ h + 1 # Last) \/ DrainAt(p) = h + 1
        BY <3>3, FedNext
      <4>. QED
        BY <1>2, <1>4, <1>8, <1>9, <2>1, <3>3, <4>1
    <3>. QED
      BY <3>1, <3>2, <3>3
  <2>3. ASSUME chains' = {} PROVE h + 1 = Last
    <3>1. h + 1 \notin Executed
      BY <1>9, <2>3 DEF Ran, L
    <3>. QED
      BY <1>2, <3>1, Constants DEF Executed, Positions
  <2>4. ASSUME chains' = {}, NEW p \in Pipes PROVE Len(pipe'[p]) <= B
    BY <1>4, <1>8, <2>2, <2>3, <2>4
  <2>5. ASSUME NEW t \in Starts, NEW g \in Executed, Suffix(t, g) \in chains', NEW p \in Pipes
        PROVE  Len(pipe'[p]) <= B + (IF FedAt(p, g) THEN L ELSE 0) /\ t = s
    <3>1. t = s /\ g = h + 1
      BY <1>7, <2>5
    <3>2. g # Last
      BY Constants DEF Executed
    <3>. QED
      BY <2>2, <3>1, <3>2
  <2>. QED
    BY <2>1, <2>4, <2>5 DEF Spare, B, L
<1>10. CASE k # L
  <2>1. faults' = faults + 1
    BY <1>3, <1>6, <1>10
  <2>2. ASSUME NEW p \in Pipes PROVE Len(pipe'[p]) <= B + ChunkSize
    <3>1. CASE Fills(h + 1, p)
      <4>1. ~FedAt(p, h)
        BY <3>1, FedNext
      <4>. QED
        BY <1>2, <1>4, <1>8, <3>1, <4>1
    <3>2. CASE ~Fills(h + 1, p)
      BY <1>2, <1>4, <1>8, <3>2
    <3>. QED
      BY <3>1, <3>2
  <2>3. ASSUME NEW p \in Pipes PROVE Len(pipe'[p]) <= ChunkSize * faults'
    BY <1>4, <2>1, <2>2
  <2>4. \A t \in Starts, g \in Executed : Suffix(t, g) \notin chains'
    BY <1>7, <1>10
  <2>. QED
    BY <2>3, <2>4 DEF Spare
<1>. QED
  BY <1>9, <1>10

(* No completion of the chain waited for goes missing. *)
LEMMA ExecuteReports ==
    ASSUME IInv, Reported, NEW chain \in chains,
           NEW s \in Starts, NEW h \in Executed, NEW k \in Int, Ran(s, h, k, chain)
    PROVE  Reported'
<1>1. /\ pc' = pc /\ cq' = cq \cup NewCompletions(s, h, k)
      /\ h \in Nat /\ Last \in Nat /\ Suffix(s, h) \in chains
  BY SuffixFacts, Constants DEF Ran
<1>2. SUFFICES ASSUME pc = "wait", NEW j \in Positions
               PROVE  \/ \E c \in cq' : c.op = OpAt(j) /\ c.d = ForAt(j)
                      \/ \E t \in Starts, g \in Executed : Suffix(t, g) \in chains' /\ g < j
  BY <1>1 DEF Reported
<1>3. CASE \E c \in cq : c.op = OpAt(j) /\ c.d = ForAt(j)
  BY <1>1, <1>3
<1>4. ASSUME NEW t \in Starts, NEW g \in Executed, Suffix(t, g) \in chains, g < j
      PROVE  \/ \E c \in cq' : c.op = OpAt(j) /\ c.d = ForAt(j)
             \/ \E u \in Starts, f \in Executed : Suffix(u, f) \in chains' /\ f < j
  <2>1. CASE t # s
    BY <1>4, <2>1 DEF Ran
  <2>2. CASE t = s /\ j = h + 1
    <3>. DEFINE c == Completion(EntryAt(s, j), k)
    <3>1. c \in cq'
      BY <1>1, <2>2 DEF NewCompletions
    <3>2. c.op = OpAt(j) /\ c.d = ForAt(j)
      BY DEF Completion, EntryAt
    <3>. QED
      BY <3>1, <3>2
  <2>3. CASE t = s /\ j # h + 1
    <3>1. g = h /\ j \in Nat /\ j > h + 1 /\ j <= Last
      <4>1. g = h
        BY <1>1, <1>4, <2>3 DEF IInv, Shape
      <4>. QED
        BY <1>1, <1>4, <2>3, <4>1, PositionFacts
    <3>2. CASE k = LenAt(s)
      <4>1. h + 1 \in Executed
        BY <1>1, <3>1 DEF Executed
      <4>. QED
        BY <3>1, <3>2, <4>1 DEF Ran
    <3>3. CASE k # LenAt(s)
      <4>. DEFINE i == j - h
                  c == Completion(EntryAt(s, h + i), -1)
      <4>1. i \in 2 .. (Last - h) /\ h + i = j
        BY <1>1, <3>1
      <4>2. c \in cq'
        BY <1>1, <3>3, <4>1 DEF NewCompletions
      <4>3. c.op = OpAt(j) /\ c.d = ForAt(j)
        BY <4>1 DEF Completion, EntryAt
      <4>. QED
        BY <4>2, <4>3
    <3>. QED
      BY <3>2, <3>3
  <2>. QED
    BY <2>1, <2>2, <2>3
<1>. QED
  BY <1>2, <1>3, <1>4 DEF Reported

(* What the program relies on when it waits. *)
Going == Fed /\ Spare /\ Reported

LEMMA GoingKeeps == ASSUME IInv, Accounted, Going, [Next]_vars PROVE Going'
<1>0. Fed'
  BY AccountsKeep DEF Going
<1>1. CASE SubmitChunk
  <2>1. PICK s \in Starts : s = total_processed
    BY <1>1, SubmitStep
  <2>2. /\ pc = "prepare" /\ 0 \in Executed
        /\ \A t \in Starts, g \in Executed :
              Suffix(t, g) \in chains' <=> Suffix(t, g) \in chains \/ (t = s /\ g = 0)
        /\ UNCHANGED <<pipe, faults, interrupted>> /\ Suffix(s, 0) \in chains'
    BY <1>1, <2>1, SubmitStep
  <2>3. Spare'
    <3>1. SUFFICES ASSUME HasRoom' PROVE Spare'
      BY DEF Spare
    <3>2. HasRoom /\ chains = {}
      BY <2>2, <3>1 DEF HasRoom, IInv, OneAtATime
    <3>3. \A p \in Pipes : Len(pipe[p]) <= ChunkSize * faults
      BY <3>2 DEF Going, Spare
    <3>4. \A t \in Starts, g \in Executed : Suffix(t, g) \in chains' => g = 0
      BY <2>2, <3>2
    <3>5. \A p \in Pipes : ~FedAt(p, 0)
      BY DEF FedAt, Pipes
    <3>6. ChunkSize * faults + 0 = ChunkSize * faults
      BY Constants, Types DEF IInv
    <3>. QED
      BY <2>2, <3>3, <3>4, <3>5, <3>6 DEF Spare
  <2>4. \A j \in Positions : 0 < j
    BY PositionFacts
  <2>. QED
    BY <1>0, <2>2, <2>3, <2>4 DEF Going, Reported
<1>2. CASE WaitEnds \/ WaitInterrupted
  <2>1. /\ UNCHANGED <<chains, pipe>> /\ pc' # "wait"
        /\ ~interrupted' => ~interrupted /\ chains = {} /\ WaitEnds
    BY <1>2, SeeKeeps
  <2>2. WaitEnds => faults' = faults
    BY DEF WaitEnds, faultVars
  <2>3. Spare'
    BY <2>1, <2>2 DEF Going, Spare, HasRoom
  <2>. QED
    BY <1>0, <2>1, <2>3 DEF Going, Reported
<1>3. ASSUME NEW chain \in chains, Execute(chain) PROVE Going'
  <2>1. PICK s \in Starts, h \in Executed, k \in Int : Ran(s, h, k, chain)
    BY <1>3, ExecuteStep
  <2>. QED
    BY <1>0, <2>1, ExecuteSpares, ExecuteReports DEF Going
<1>4. CASE Terminated \/ UNCHANGED vars
  <2>1. UNCHANGED vars
    BY <1>4 DEF Terminated
  <2>. QED
    BY <1>0, <2>1 DEF vars, faultVars, Going, Spare, HasRoom, Reported
<1>. QED
  BY <1>1, <1>2, <1>3, <1>4 DEF Next

(* With no chain in the kernel all completions waited for are there. *)
LEMMA AllReported ==
    ASSUME IInv, Reported, pc = "wait", chains = {}
    PROVE  Cardinality(cq) >= Awaited
<1>1. \A j \in Positions : \E c \in cq : c.op = OpAt(j) /\ c.d = ForAt(j)
  BY DEF Reported
<1>. DEFINE f == [j \in Positions |-> CHOOSE c \in cq : c.op = OpAt(j) /\ c.d = ForAt(j)]
<1>2. \A j \in Positions : f[j] \in cq /\ f[j].op = OpAt(j) /\ f[j].d = ForAt(j)
  BY <1>1
<1>3. f \in [Positions -> cq]
  BY <1>1
<1>. HIDE DEF f
<1>4. ASSUME NEW i \in Positions, NEW j \in Positions, f[i] = f[j] PROVE i = j
  <2>1. OpAt(i) = OpAt(j) /\ ForAt(i) = ForAt(j)
    BY <1>2, <1>4
  <2>. QED
    BY <2>1, PositionFacts
<1>5. f \in Injection(Positions, cq)
  BY <1>3, <1>4 DEF Injection, IsInjective
<1>6. IsFiniteSet(cq)
  BY DEF IInv, Shape
<1>7. Cardinality(Positions) <= Cardinality(cq)
  BY <1>5, <1>6, FS_Injection
<1>8. Cardinality(Positions) = Last
  BY Constants, FS_Interval DEF Positions
<1>9. Cardinality(cq) \in Nat
  BY <1>6, FS_CardinalityType
<1>. QED
  BY <1>7, <1>8, <1>9, Constants DEF Awaited, Last

(* As long as the pipes have room for a chunk beside what faults have left *)
(* in them, the program does not wait for ever: the entry at the head of   *)
(* the chain can be executed in full, and with no chain left there are as  *)
(* many completions as it waits for.                                       *)
THEOREM GoesOn == Spec => []NeverStuck
<1>1. Init => Accounted /\ Going
  <2>. SUFFICES ASSUME Init PROVE Accounted /\ Going
    OBVIOUS
  <2>1. /\ chains = {} /\ cq = {} /\ total_data_moved = 0 /\ pc # "wait" /\ faults = 0
        /\ \A p \in Pipes : pipe[p] = <<>>
    BY DEF Init
  <2>2. Cardinality(Counted) \in Nat
    BY FiniteCounted
  <2>3. \A p \in Pipes : Len(pipe[p]) <= ChunkSize * faults
    BY <2>1, Constants
  <2>. QED
    BY <2>1, <2>2, <2>3 DEF Going, Fed, Spare, Reported, Accounted
<1>2. IInv /\ Accounted /\ Going /\ [Next]_vars => Accounted' /\ Going'
  BY AccountsKeep, GoingKeeps DEF Going
<1>3. IInv /\ Going => NeverStuck
  <2>. SUFFICES ASSUME IInv, Going, pc = "wait", HasRoom
                PROVE  \/ Cardinality(cq) >= Awaited
                       \/ \E chain \in chains : Movable(chain[1]) > 0
    BY DEF NeverStuck, HasRoom
  <2>1. CASE chains = {}
    BY <2>1, AllReported DEF Going
  <2>2. CASE chains # {}
    <3>1. PICK s \in Starts, h \in Executed : Suffix(s, h) \in chains
      BY <2>2 DEF IInv, Shape
    <3>2. Movable(EntryAt(s, h + 1)) = LenAt(s)
      BY <3>1, MovesInFull DEF Going
    <3>3. Suffix(s, h)[1] = EntryAt(s, h + 1) /\ LenAt(s) > 0
      BY SuffixFacts, ChunkFacts, Constants
    <3>. QED
      BY <3>1, <3>2, <3>3
  <2>. QED
    BY <2>1, <2>2
<1>. QED
  BY <1>1, <1>2, <1>3, Invariance, PTL DEF Spec

(* The kernel completes the head of a chain for good. *)
LEMMA ExecuteCompletes ==
    ASSUME IInv, NEW chain \in chains, NEW s \in Starts, NEW h \in Executed,
           NEW k \in Int, Ran(s, h, k, chain)
    PROVE  InKernel' \subseteq InKernel /\ InKernel' # InKernel
<1>. DEFINE x == EntryAt(s, h + 1)
<1>1. /\ Suffix(s, h) \in chains /\ DOMAIN Suffix(s, h) = 1 .. (Last - h)
      /\ \A i \in 1 .. (Last - h) : Suffix(s, h)[i] = EntryAt(s, h + i)
      /\ h \in Nat /\ h < Last /\ Last \in Nat /\ h + 1 \in Positions
  <2>1. Suffix(s, h) \in chains
    BY DEF Ran
  <2>2. h \in Nat /\ Last \in Nat /\ h < Last
    BY Constants DEF Executed
  <2>. QED
    BY <2>1, <2>2, SuffixFacts
<1>2. x \in InKernel
  <2>1. 1 \in DOMAIN Suffix(s, h) /\ Suffix(s, h)[1] = x
    BY <1>1
  <2>. QED
    BY <1>1, <2>1 DEF InKernel
<1>3. ASSUME NEW c \in chains', NEW i \in DOMAIN c
      PROVE  c[i] \in InKernel /\ c[i] # x
  <2>1. PICK t \in Starts, g \in Executed : c = Suffix(t, g)
    <3>1. Shape'
      BY ExecuteShape
    <3>. QED
      BY <3>1 DEF Shape
  <2>2. /\ i \in 1 .. (Last - g) /\ c[i] = EntryAt(t, g + i)
        /\ g \in Nat /\ g + i \in Positions
    <3>1. /\ DOMAIN Suffix(t, g) = 1 .. (Last - g) /\ g \in Nat
          /\ \A j \in 1 .. (Last - g) : Suffix(t, g)[j] = EntryAt(t, g + j)
      BY SuffixFacts
    <3>2. i \in 1 .. (Last - g)
      BY <2>1, <3>1
    <3>3. c[i] = EntryAt(t, g + i)
      BY <2>1, <3>1, <3>2
    <3>4. g + i \in Positions
      BY <1>1, <3>1, <3>2 DEF Positions
    <3>. QED
      BY <3>1, <3>2, <3>3, <3>4
  <2>3. CASE t # s /\ c \in chains
    BY <2>1, <2>2, <2>3 DEF InKernel, EntryAt
  <2>4. CASE t = s /\ g = h + 1
    <3>1. i + 1 \in DOMAIN Suffix(s, h) /\ Suffix(s, h)[i + 1] = EntryAt(s, g + i)
      <4>1. i + 1 \in 1 .. (Last - h) /\ h + (i + 1) = g + i
        BY <1>1, <2>2, <2>4
      <4>. QED
        BY <1>1, <4>1
    <3>2. c[i] \in InKernel
      BY <1>1, <2>2, <2>4, <3>1 DEF InKernel
    <3>3. c[i] # x
      <4>1. g + i # h + 1
        BY <1>1, <2>2, <2>4
      <4>. QED
        BY <1>1, <2>2, <4>1, EntryNames
    <3>. QED
      BY <3>2, <3>3
  <2>. QED
    BY <2>1, <2>3, <2>4 DEF Ran
<1>. QED
  BY <1>2, <1>3 DEF InKernel

(* Every step brings the call nearer to its end: the loop goes on to the   *)
(* waiting or to the next chunk, or an entry is completed.                 *)
THEOREM CallAdvances == Spec => Advances
<1>. DEFINE A == \/ Turn' > Turn
                 \/ UNCHANGED Turn /\ InKernel' \subseteq InKernel /\ InKernel' # InKernel
<1>1. ASSUME IInv, Next PROVE A \/ UNCHANGED vars
  <2>1. total_processed \in Nat
    BY <1>1, Types DEF IInv
  <2>2. CASE SubmitChunk
    <3>1. /\ pc = "prepare" /\ pc' = "wait" /\ total_processed \in Starts
          /\ total_processed' = total_processed + LenAt(total_processed)
      BY <1>1, <2>2, SubmitStep
    <3>2. LenAt(total_processed) \in Nat /\ LenAt(total_processed) >= 1
      BY <3>1, ChunkFacts, Constants
    <3>. QED
      BY <2>1, <3>1, <3>2 DEF Turn
  <2>3. CASE WaitEnds \/ WaitInterrupted
    <3>1. pc = "wait" /\ pc' # "wait" /\ total_processed' = total_processed
      BY <1>1, <2>3, SeeKeeps
    <3>. QED
      BY <2>1, <3>1 DEF Turn
  <2>4. ASSUME NEW chain \in chains, Execute(chain) PROVE A
    <3>1. PICK s \in Starts, h \in Executed, k \in Int : Ran(s, h, k, chain)
      BY <1>1, <2>4, ExecuteStep
    <3>2. UNCHANGED <<pc, total_processed>>
      BY <3>1 DEF Ran
    <3>. QED
      BY <1>1, <3>1, <3>2, ExecuteCompletes DEF Turn
  <2>5. CASE Terminated
    BY <2>5 DEF Terminated
  <2>. QED
    BY <1>1, <2>2, <2>3, <2>4, <2>5 DEF Next
<1>2. IInv /\ [Next]_vars => [A]_vars
  BY <1>1
<1>. QED
  BY <1>2, Invariance, PTL DEF Spec, Advances
=============================================================================
