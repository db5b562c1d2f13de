------------------------ MODULE SpliceBroadcastProofs ------------------------
(***************************************************************************)
(* Theorems about mode 3, for every number of outputs, file, chunk, pipe   *)
(* and queue size and bound on faults: the types, that the loop waits for  *)
(* exactly what is outstanding, that no drain starves, that the call is    *)
(* never stuck without a fault, that every step brings it nearer to its    *)
(* end, that outputs are independent and that the total shows holes.  If a *)
(* batch is one chunk: that mode 3 implements the abstract broadcast.      *)
(*                                                                         *)
(* The invariants rest on where the pair of a chunk is: IInv says that the *)
(* pair of an output and a chunk is in one place only (submission queue,   *)
(* kernel, completion queue), that a pipe holds at least what its ready    *)
(* drains ask for, and exactly that if its output has met no fault.        *)
(***************************************************************************)
EXTENDS SpliceBroadcast, SharedLemmas

(* The offsets at which chunks start; the chunk an offset is in. *)
Starts == {o \in Offsets : o % ChunkSize = 0}
StartOf(o) == ChunkSize * (o \div ChunkSize)
LenAt(s) == IF FileSize - s < ChunkSize THEN FileSize - s ELSE ChunkSize

(* A chunk of an output: the pair of entries that copies it. *)
Places == Outputs \X Starts

FillAt(p) ==
    [op |-> "fill", d |-> p[1], off |-> p[2], len |-> LenAt(p[2]), link |-> TRUE]
DrainAt(p) ==
    [op |-> "drain", d |-> p[1], off |-> p[2], len |-> LenAt(p[2]), link |-> FALSE]
Entry == {FillAt(p) : p \in Places} \cup {DrainAt(p) : p \in Places}

PairAt(p) == <<FillAt(p), DrainAt(p)>>
RestAt(p) == <<DrainAt(p)>>

Odd(i) == i % 2 = 1

(* Pairs of a fill and its drain, none twice. *)
Paired(batch) ==
    /\ batch \in Seq(Entry) /\ ~Odd(Len(batch))
    /\ \A i \in 1 .. Len(batch) : Odd(i) =>
           \E p \in Places : batch[i] = FillAt(p) /\ batch[i + 1] = DrainAt(p)
    /\ \A i, j \in 1 .. Len(batch) : batch[i] = batch[j] => i = j

PlacesOf(batch) ==
    {p \in Places : \E i \in 1 .. Len(batch) : batch[i] = FillAt(p)}

PairsIn(S) == {p \in Places : PairAt(p) \in S}
RestsIn(S) == {p \in Places : RestAt(p) \in S}
WellFormed(S) == \A c \in S : \E p \in Places : c = PairAt(p) \/ c = RestAt(p)

SqPlaces == PlacesOf(sq)
PairPlaces == PairsIn(chains)
RestPlaces == RestsIn(chains)
Pending == SqPlaces \cup PairPlaces \cup RestPlaces

Results(p) == {-1} \cup 1 .. LenAt(p[2])
FillDone(x, p) == \E res \in Results(p) : x = Completion(FillAt(p), res)
DrainDone(x, p) == \E res \in Results(p) : x = Completion(DrainAt(p), res)

Queues ==
    /\ Paired(sq)
    /\ pc # "prepare" => sq = <<>>
    /\ WellFormed(chains)
    /\ SqPlaces \cap PairPlaces = {}
    /\ SqPlaces \cap RestPlaces = {}
    /\ PairPlaces \cap RestPlaces = {}

(* What has completed is not under way, and completes once. *)
Completed ==
    /\ \A x \in cq : \E p \in Places :
           \/ FillDone(x, p) /\ p \notin SqPlaces \cup PairPlaces
           \/ DrainDone(x, p) /\ p \notin Pending
    /\ \A x, y \in cq : x.op = y.op /\ x.d = y.d /\ x.off = y.off => x = y

(* Chunks are queued in order. *)
Progress ==
    /\ \A p \in Pending : p[2] < total_processed
    /\ \A x \in cq : x.off < total_processed
    /\ total_processed < FileSize => total_processed \in Starts
    /\ pc = "prepare" => total_processed < FileSize
    /\ pc = "done" => total_processed = FileSize
    /\ pc = "done" /\ ~gaveUp => expected_cqes = 0

Counts ==
    /\ IsFiniteSet(cq) /\ IsFiniteSet(InKernel)
    /\ ExpectedOutstanding

(* What is still to be written is a hole. *)
Unwritten ==
    \A d \in Outputs, o \in Offsets :
        o >= total_processed \/ <<d, StartOf(o)>> \in Pending => content[d][o] = Hole

(* A pipe holds what its ready drains ask for. *)
InPipe ==
    \A d \in Outputs :
        /\ Cardinality(Ready(d)) <= Len(pipe[d])
        /\ d \notin faulted => Cardinality(Ready(d)) = Len(pipe[d])

(* An output that met no fault has all that is not under way or dropped. *)
Covered ==
    \A d \in Outputs, o \in Offsets :
        d \notin faulted /\ o < total_processed =>
            \/ content[d][o] # Hole
            \/ <<d, StartOf(o)>> \in Pending \cup dropped

(* The places written whose completion has been seen. *)
Span(x) ==
    {u \in Outputs \X Offsets :
        x.op = "drain" /\ x.d = u[1] /\ u[2] \in x.off .. (x.off + x.res - 1)}
Unseen == {u \in Outputs \X Offsets : \E x \in cq : u \in Span(x)}
SeenWritten ==
    {u \in Outputs \X Offsets : content[u[1]][u[2]] # Hole /\ u \notin Unseen}

Total ==
    /\ \A u \in Unseen : content[u[1]][u[2]] # Hole
    /\ total_data_verified = Cardinality(SeenWritten)

IInv ==
    /\ TypeOK
    /\ pipe \in [Outputs -> Seq(Offsets)]
    /\ gaveUp \in BOOLEAN
    /\ Queues
    /\ Completed
    /\ Progress
    /\ Counts
    /\ Unwritten
    /\ InPipe
    /\ Covered
    /\ Total

-----------------------------------------------------------------------------
(* Every batch is one chunk of all outputs. *)
OneChunk ==
    /\ 2 * NumOutputs <= Entries
    /\ Entries = 2 * NumOutputs \/ FileSize <= ChunkSize

(* Then, while no wait has failed, one chunk of an output is under way, it *)
(* goes through an empty pipe, and what is written is right.               *)
OneInFlight ==
    /\ pc = "prepare" => sq = <<>>
    /\ pc = "prepare" /\ ~gaveUp => expected_cqes = 0
    /\ FileSize <= ChunkSize /\ pc = "prepare" => total_processed = 0
    /\ dropped = {}
    /\ ~gaveUp => \A p, q \in Pending : p[2] = q[2]

RightData ==
    ~gaveUp => \A d \in Outputs \ faulted :
        /\ \A s \in Starts : <<d, s>> \in RestPlaces =>
               \A i \in 1 .. LenAt(s) : pipe[d][i] = s + i - 1
        /\ \A o \in Offsets : content[d][o] \in {Hole, o}

OneInv == OneInFlight /\ RightData

-----------------------------------------------------------------------------
(* Constants are in range. *)
LEMMA Constants ==
    /\ NumOutputs \in Nat /\ FileSize \in Nat
    /\ ChunkSize \in Nat \ {0} /\ PipeSize \in Nat \ {0}
    /\ Entries \in Nat \ {0} /\ Entries % 2 = 0
    /\ MaxFaults \in Nat
    /\ Hole \notin Offsets
    /\ \A o \in Offsets : o \in Nat /\ o < FileSize
  BY SpliceAssumption DEF Offsets

(* A chunk lies in the file. *)
LEMMA ChunkLength ==
    ASSUME NEW s \in Starts
    PROVE  /\ s \in Nat /\ s < FileSize
           /\ LenAt(s) \in 1 .. ChunkSize
           /\ s + LenAt(s) <= FileSize
           /\ LenAt(s) # ChunkSize => s + LenAt(s) = FileSize
           /\ s = ChunkSize * (s \div ChunkSize) /\ s \div ChunkSize \in Nat
  BY ChunkInFile, Constants DEF Starts, LenAt, Offsets, StartsIn, LengthIn

(* Every offset is in the chunk of its start. *)
LEMMA StartsAreStarts ==
    ASSUME NEW o \in Offsets
    PROVE  StartOf(o) \in Starts /\ StartOf(o) <= o
  BY StartInFile, Constants DEF Starts, StartOf, Offsets, StartsIn, StartIn

(* The offsets of a chunk. *)
LEMMA InChunk ==
    ASSUME NEW s \in Starts, NEW o \in Offsets
    PROVE  /\ o \in s .. (s + LenAt(s) - 1) <=> StartOf(o) = s
           /\ o < s <=> StartOf(o) < s
           /\ o < s + LenAt(s) <=> StartOf(o) <= s
  BY InChunkOf, Constants DEF Starts, StartOf, LenAt, Offsets,
                              StartsIn, StartIn, LengthIn

ChunkAt(s) == {o \in Offsets : StartOf(o) = s}

(* The offsets of a chunk: as many as it is long. *)
LEMMA ChunkSet ==
    ASSUME NEW s \in Starts
    PROVE  /\ ChunkAt(s) = s .. (s + LenAt(s) - 1)
           /\ IsFiniteSet(ChunkAt(s)) /\ Cardinality(ChunkAt(s)) = LenAt(s)
<1>1. s \in StartsIn(ChunkSize, FileSize)
  BY DEF Starts, StartsIn, Offsets
<1>2. ChunkAt(s) = ChunkIn(ChunkSize, FileSize, s)
  BY DEF ChunkAt, ChunkIn, StartOf, StartIn, Offsets
<1>3. LenAt(s) = LengthIn(ChunkSize, FileSize, s)
  BY DEF LenAt, LengthIn
<1>. QED
  BY <1>1, <1>2, <1>3, ChunkOffsets, Constants

(* The places of a file are finitely many. *)
LEMMA FinitePlaces ==
    /\ IsFiniteSet(Offsets) /\ Cardinality(Offsets) = FileSize
    /\ IsFiniteSet(Outputs \X Offsets)
    /\ Cardinality(Outputs \X Offsets) = NumOutputs * FileSize
    /\ IsFiniteSet(Places)
    /\ \A d \in Outputs : IsFiniteSet(Ready(d)) /\ Cardinality(Ready(d)) \in Nat
<1>1. IsFiniteSet(Offsets) /\ Cardinality(Offsets) = FileSize
  BY Constants, FS_Interval DEF Offsets
<1>2. IsFiniteSet(Outputs) /\ Cardinality(Outputs) = NumOutputs
  BY Constants, FS_Interval DEF Outputs
<1>3. IsFiniteSet(Starts)
  BY <1>1, FS_Subset DEF Starts
<1>4. \A d \in Outputs : IsFiniteSet(Ready(d)) /\ Cardinality(Ready(d)) \in Nat
  BY <1>1, FS_Subset, FS_CardinalityType DEF Ready
<1>. QED
  BY <1>1, <1>2, <1>3, <1>4, FS_Product DEF Places

(* What entries and chains say of their place. *)
LEMMA EntryFields ==
    ASSUME NEW p \in Places
    PROVE  /\ FillAt(p).op = "fill" /\ FillAt(p).d = p[1] /\ FillAt(p).off = p[2]
           /\ FillAt(p).len = LenAt(p[2]) /\ FillAt(p).link
           /\ DrainAt(p).op = "drain" /\ DrainAt(p).d = p[1] /\ DrainAt(p).off = p[2]
           /\ DrainAt(p).len = LenAt(p[2]) /\ ~DrainAt(p).link
           /\ FillAt(p) \in Entry /\ DrainAt(p) \in Entry
           /\ p = <<p[1], p[2]>> /\ p[1] \in Outputs /\ p[2] \in Starts
           /\ p[2] \in Offsets
<1>1. /\ p = <<p[1], p[2]>> /\ p[1] \in Outputs /\ p[2] \in Starts
      /\ p[2] \in Offsets
  BY DEF Places, Starts
<1>2. FillAt(p) \in Entry /\ DrainAt(p) \in Entry
  BY DEF Entry
<1>. QED
  BY <1>1, <1>2 DEF FillAt, DrainAt

(* Entries of different places differ, and fills from drains. *)
LEMMA EntriesDiffer ==
    ASSUME NEW p \in Places, NEW q \in Places
    PROVE  /\ FillAt(p) = FillAt(q) => p = q
           /\ DrainAt(p) = DrainAt(q) => p = q
           /\ FillAt(p) # DrainAt(q)
<1>1. p[1] = q[1] /\ p[2] = q[2] => p = q
  BY EntryFields
<1>. QED
  BY <1>1, EntryFields

(* What a chain of two entries and what is left of it holds. *)
LEMMA ChainFields ==
    ASSUME NEW p \in Places
    PROVE  /\ Len(PairAt(p)) = 2 /\ PairAt(p)[1] = FillAt(p) /\ PairAt(p)[2] = DrainAt(p)
           /\ Len(RestAt(p)) = 1 /\ RestAt(p)[1] = DrainAt(p)
           /\ Tail(PairAt(p)) = RestAt(p)
           /\ {PairAt(p)[i] : i \in DOMAIN PairAt(p)} = {FillAt(p), DrainAt(p)}
           /\ {RestAt(p)[i] : i \in DOMAIN RestAt(p)} = {DrainAt(p)}
           /\ {PairAt(p)[i] : i \in 2 .. Len(PairAt(p))} = {DrainAt(p)}
           /\ {RestAt(p)[i] : i \in 2 .. Len(RestAt(p))} = {}
  BY DEF PairAt, RestAt

(* Chains of different places differ, and a chain from a rest of one. *)
LEMMA ChainsDiffer ==
    ASSUME NEW p \in Places, NEW q \in Places
    PROVE  /\ PairAt(p) = PairAt(q) => p = q
           /\ RestAt(p) = RestAt(q) => p = q
           /\ PairAt(p) # RestAt(q)
<1>1. PairAt(p)[1] = FillAt(p) /\ PairAt(q)[1] = FillAt(q)
      /\ RestAt(p)[1] = DrainAt(p) /\ RestAt(q)[1] = DrainAt(q)
  BY ChainFields
<1>. QED
  BY <1>1, EntriesDiffer

-----------------------------------------------------------------------------
EntriesOf(batch) == {batch[i] : i \in 1 .. Len(batch)}

(* A sequence without repetitions has as many elements as its length. *)
LEMMA CountElements ==
    ASSUME NEW S, NEW b \in Seq(S),
           \A i, j \in 1 .. Len(b) : b[i] = b[j] => i = j
    PROVE  /\ IsFiniteSet(EntriesOf(b))
           /\ Cardinality(EntriesOf(b)) = Len(b)
<1>. DEFINE n == Len(b)
            f == [i \in 1 .. n |-> b[i]]
<1>1. n \in Nat
  BY LenProperties
<1>2. f \in Bijection(1 .. n, EntriesOf(b))
  BY DEF Bijection, Injection, Surjection, IsInjective, EntriesOf
<1>3. ExistsBijection(1 .. n, EntriesOf(b))
  BY <1>2 DEF ExistsBijection
<1>. HIDE DEF n, f
<1>4. IsFiniteSet(EntriesOf(b)) /\ Cardinality(EntriesOf(b)) = n
  BY <1>1, <1>3, FS_NatBijection, FS_CountingElements
<1>. QED
  BY <1>4 DEF n

(* The entries of a queue of pairs are the two of each of its places. *)
LEMMA QueueEntries ==
    ASSUME NEW batch, Paired(batch)
    PROVE  /\ EntriesOf(batch) = {FillAt(p) : p \in PlacesOf(batch)}
                                     \cup {DrainAt(p) : p \in PlacesOf(batch)}
           /\ IsFiniteSet(EntriesOf(batch))
           /\ Cardinality(EntriesOf(batch)) = Len(batch)
<1>1. Len(batch) \in Nat /\ ~Odd(Len(batch)) /\ batch \in Seq(Entry)
  BY LenProperties DEF Paired
<1>2. ASSUME NEW i \in 1 .. Len(batch), Odd(i)
      PROVE  /\ i + 1 \in 1 .. Len(batch)
             /\ \E p \in PlacesOf(batch) :
                    batch[i] = FillAt(p) /\ batch[i + 1] = DrainAt(p)
  <2>1. i + 1 \in 1 .. Len(batch)
    BY <1>1, <1>2 DEF Odd
  <2>2. PICK p \in Places : batch[i] = FillAt(p) /\ batch[i + 1] = DrainAt(p)
    BY <1>2 DEF Paired
  <2>. QED
    BY <2>1, <2>2 DEF PlacesOf
<1>3. ASSUME NEW i \in 1 .. Len(batch), ~Odd(i)
      PROVE  \E p \in PlacesOf(batch) : batch[i] = DrainAt(p)
  <2>1. i - 1 \in 1 .. Len(batch) /\ Odd(i - 1) /\ i - 1 + 1 = i
    BY <1>3 DEF Odd
  <2>. QED
    BY <1>2, <2>1
<1>4. ASSUME NEW p \in PlacesOf(batch)
      PROVE  FillAt(p) \in EntriesOf(batch) /\ DrainAt(p) \in EntriesOf(batch)
  <2>1. PICK i \in 1 .. Len(batch) : batch[i] = FillAt(p)
    BY DEF PlacesOf
  <2>2. Odd(i)
    BY <1>3, <2>1, EntriesDiffer DEF PlacesOf
  <2>3. PICK q \in PlacesOf(batch) : batch[i] = FillAt(q) /\ batch[i + 1] = DrainAt(q)
    BY <1>2, <2>2
  <2>4. p = q
    BY <2>1, <2>3, EntriesDiffer DEF PlacesOf
  <2>. QED
    BY <1>2, <2>1, <2>2, <2>3, <2>4 DEF EntriesOf
<1>5. EntriesOf(batch) = {FillAt(p) : p \in PlacesOf(batch)}
                             \cup {DrainAt(p) : p \in PlacesOf(batch)}
  BY <1>2, <1>3, <1>4 DEF EntriesOf
<1>. QED
  BY <1>5, CountElements DEF Paired

(* A queue of pairs is cut into the pairs. *)
LEMMA FlushedPairs ==
    ASSUME NEW batch, Paired(batch)
    PROVE  Chains(batch) = {PairAt(p) : p \in PlacesOf(batch)}
<1>. DEFINE m == Len(batch) \div 2
<1>0. Len(batch) \in Nat /\ batch \in Seq(Entry)
  BY LenProperties DEF Paired
<1>1. m \in Nat /\ Len(batch) = 2 * m
  BY <1>0 DEF Paired, Odd
<1>. HIDE DEF m
<1>2. ASSUME NEW n \in 1 .. m
      PROVE  \E p \in PlacesOf(batch) :
                 batch[2 * n - 1] = FillAt(p) /\ batch[2 * n] = DrainAt(p)
  <2>1. 2 * n - 1 \in 1 .. Len(batch) /\ Odd(2 * n - 1) /\ 2 * n - 1 + 1 = 2 * n
    BY <1>1 DEF Odd
  <2>. QED
    BY <2>1 DEF Paired, PlacesOf
<1>3. Pairs(batch, m)
  BY <1>1, <1>2, EntryFields DEF Pairs, PlacesOf
<1>4. Chains(batch) = {<<batch[2 * n - 1], batch[2 * n]>> : n \in 1 .. m}
  BY <1>0, <1>1, <1>3, PairChains
<1>5. ASSUME NEW p \in PlacesOf(batch)
      PROVE  \E n \in 1 .. m : batch[2 * n - 1] = FillAt(p)
  <2>1. PICK i \in 1 .. (2 * m) : batch[i] = FillAt(p)
    BY <1>1 DEF PlacesOf
  <2>2. PICK n \in 1 .. m : i = 2 * n - 1 \/ i = 2 * n
    BY <1>1, PairPosition
  <2>3. batch[2 * n] # FillAt(p)
    BY <1>2, EntriesDiffer DEF PlacesOf
  <2>. QED
    BY <2>1, <2>2, <2>3
<1>6. \A n \in 1 .. m : \E p \in PlacesOf(batch) :
          <<batch[2 * n - 1], batch[2 * n]>> = PairAt(p)
  BY <1>2 DEF PairAt
<1>7. \A p \in PlacesOf(batch) : \E n \in 1 .. m :
          <<batch[2 * n - 1], batch[2 * n]>> = PairAt(p)
  <2>1. ASSUME NEW p \in PlacesOf(batch)
        PROVE  \E n \in 1 .. m : <<batch[2 * n - 1], batch[2 * n]>> = PairAt(p)
    <3>1. PICK n \in 1 .. m : batch[2 * n - 1] = FillAt(p)
      BY <1>5
    <3>2. PICK q \in PlacesOf(batch) :
              batch[2 * n - 1] = FillAt(q) /\ batch[2 * n] = DrainAt(q)
      BY <1>2
    <3>3. p = q
      BY <3>1, <3>2, EntriesDiffer DEF PlacesOf
    <3>. QED
      BY <3>2, <3>3 DEF PairAt
  <2>. QED
    BY <2>1
<1>. QED
  BY <1>4, <1>6, <1>7

EntriesIn(S) == UNION {{c[i] : i \in DOMAIN c} : c \in S}

(* The entries in the kernel, by place. *)
LEMMA KernelEntries ==
    ASSUME NEW S, WellFormed(S)
    PROVE  EntriesIn(S) = {FillAt(p) : p \in PairsIn(S)}
                              \cup {DrainAt(p) : p \in PairsIn(S) \cup RestsIn(S)}
<1>1. ASSUME NEW c \in S, NEW e \in {c[i] : i \in DOMAIN c}
      PROVE  \/ \E p \in PairsIn(S) : e = FillAt(p)
             \/ \E p \in PairsIn(S) \cup RestsIn(S) : e = DrainAt(p)
  <2>1. PICK p \in Places : c = PairAt(p) \/ c = RestAt(p)
    BY DEF WellFormed
  <2>2. CASE c = PairAt(p)
    <3>1. e \in {FillAt(p), DrainAt(p)}
      BY <2>2, ChainFields
    <3>. QED
      BY <2>2, <3>1 DEF PairsIn
  <2>3. CASE c = RestAt(p)
    <3>1. e \in {DrainAt(p)}
      BY <2>3, ChainFields
    <3>. QED
      BY <2>3, <3>1 DEF RestsIn
  <2>. QED
    BY <2>1, <2>2, <2>3
<1>2. ASSUME NEW p \in PairsIn(S)
      PROVE  FillAt(p) \in EntriesIn(S) /\ DrainAt(p) \in EntriesIn(S)
  <2>1. p \in Places /\ PairAt(p) \in S
    BY DEF PairsIn
  <2>2. {PairAt(p)[i] : i \in DOMAIN PairAt(p)} = {FillAt(p), DrainAt(p)}
    BY <2>1, ChainFields
  <2>. QED
    BY <2>1, <2>2 DEF EntriesIn
<1>3. ASSUME NEW p \in RestsIn(S)
      PROVE  DrainAt(p) \in EntriesIn(S)
  <2>1. p \in Places /\ RestAt(p) \in S
    BY DEF RestsIn
  <2>2. {RestAt(p)[i] : i \in DOMAIN RestAt(p)} = {DrainAt(p)}
    BY <2>1, ChainFields
  <2>. QED
    BY <2>1, <2>2 DEF EntriesIn
<1>4. \A e \in EntriesIn(S) : \E c \in S : e \in {c[i] : i \in DOMAIN c}
  BY DEF EntriesIn
<1>. QED
  BY <1>1, <1>2, <1>3, <1>4

ReadyIn(S, d) ==
    {o \in Offsets : \E chain \in S :
        /\ chain[1].op = "drain" /\ chain[1].d = d
        /\ o \in chain[1].off .. (chain[1].off + chain[1].len - 1)}

(* The places that drains may write are those of the chunks whose drain    *)
(* comes first in its chain.                                               *)
LEMMA ReadyPlaces ==
    ASSUME NEW S, WellFormed(S), NEW d \in Outputs
    PROVE  ReadyIn(S, d) = {o \in Offsets : <<d, StartOf(o)>> \in RestsIn(S)}
<1>1. ASSUME NEW o \in Offsets, NEW c \in S,
             c[1].op = "drain", c[1].d = d,
             o \in c[1].off .. (c[1].off + c[1].len - 1)
      PROVE  <<d, StartOf(o)>> \in RestsIn(S)
  <2>1. PICK p \in Places : c = PairAt(p) \/ c = RestAt(p)
    BY DEF WellFormed
  <2>2. c = RestAt(p) /\ c[1] = DrainAt(p)
    BY <1>1, <2>1, ChainFields, EntryFields
  <2>3. p = <<d, p[2]>> /\ o \in p[2] .. (p[2] + LenAt(p[2]) - 1) /\ p[2] \in Starts
    BY <1>1, <2>2, EntryFields
  <2>4. StartOf(o) = p[2]
    BY <2>3, InChunk
  <2>. QED
    BY <2>2, <2>3, <2>4 DEF RestsIn
<1>2. ASSUME NEW o \in Offsets, <<d, StartOf(o)>> \in RestsIn(S)
      PROVE  o \in ReadyIn(S, d)
  <2>. DEFINE p == <<d, StartOf(o)>>
  <2>1. p \in Places /\ RestAt(p) \in S
    BY <1>2 DEF RestsIn
  <2>2. p[1] = d /\ p[2] = StartOf(o)
    OBVIOUS
  <2>. HIDE DEF p
  <2>3. RestAt(p)[1] = DrainAt(p)
    BY <2>1, ChainFields
  <2>4. /\ RestAt(p)[1].op = "drain" /\ RestAt(p)[1].d = d
        /\ RestAt(p)[1].off = p[2] /\ RestAt(p)[1].len = LenAt(p[2])
        /\ p[2] \in Starts
    BY <2>1, <2>2, <2>3, EntryFields
  <2>5. o \in p[2] .. (p[2] + LenAt(p[2]) - 1)
    BY <2>2, <2>4, InChunk
  <2>. QED
    BY <2>1, <2>4, <2>5 DEF ReadyIn
<1>. QED
  BY <1>1, <1>2 DEF ReadyIn

(* Entries are counted by chains. *)
LEMMA KernelSets ==
    /\ InKernel = EntriesIn(chains)
    /\ \A d \in Outputs : Ready(d) = ReadyIn(chains, d)
  BY DEF InKernel, EntriesIn, Ready, ReadyIn

(* What the kernel has, counted by chains, after a step. *)
LEMMA KernelSetsNext ==
    /\ InKernel' = EntriesIn(chains')
    /\ \A d \in Outputs : Ready(d)' = ReadyIn(chains', d)
  BY DEF InKernel, EntriesIn, Ready, ReadyIn

-----------------------------------------------------------------------------
(* The chunk the loop is at. *)
AtChunk(d) == <<d, total_processed>>

(* The entries prepared are those of the chunk the loop is at. *)
LEMMA FillsAndDrains ==
    ASSUME total_processed \in Starts, NEW d \in Outputs
    PROVE  /\ AtChunk(d) \in Places
           /\ AtChunk(d)[1] = d /\ AtChunk(d)[2] = total_processed
           /\ Fill(d) = FillAt(AtChunk(d)) /\ Drain(d) = DrainAt(AtChunk(d))
           /\ Chunk = LenAt(total_processed)
<1>1. AtChunk(d) \in Places /\ AtChunk(d)[1] = d /\ AtChunk(d)[2] = total_processed
  BY DEF AtChunk, Places
<1>2. Chunk = LenAt(total_processed)
  BY DEF Chunk, LenAt
<1>. QED
  BY <1>1, <1>2 DEF Fill, Drain, FillAt, DrainAt

(* The pairs that still find entries in the queue are those of the first   *)
(* outputs.                                                                *)
LEMMA QueuedOutputs ==
    ASSUME Len(sq) \in Nat, Len(sq) <= Entries
    PROVE  /\ Cardinality(Queued) \in 0 .. NumOutputs
           /\ Queued = 1 .. Cardinality(Queued)
           /\ Len(sq) + 2 * Cardinality(Queued) <= Entries
           /\ Cardinality(Queued) = NumOutputs
                  \/ Cardinality(Queued) = (Entries - Len(sq)) \div 2
<1>. DEFINE pairs == (Entries - Len(sq)) \div 2
            m == IF NumOutputs <= pairs THEN NumOutputs ELSE pairs
<1>1. pairs \in Nat /\ Len(sq) + 2 * pairs <= Entries
  BY Constants
<1>2. Queued = {d \in Outputs : d <= pairs}
  BY DEF Queued
<1>. HIDE DEF pairs
<1>3. m \in 0 .. NumOutputs /\ Queued = 1 .. m /\ Len(sq) + 2 * m <= Entries
  BY <1>1, <1>2, Constants DEF Outputs
<1>4. m = NumOutputs \/ m = pairs
  OBVIOUS
<1>. HIDE DEF m
<1>5. Cardinality(1 .. m) = m
  BY <1>3, FS_Interval
<1>. QED
  BY <1>3, <1>4, <1>5 DEF pairs

(* What one turn of the outer loop adds to the queue. *)
LEMMA NewPairs ==
    ASSUME total_processed \in Starts, NEW m \in 0 .. NumOutputs
    PROVE  LET new == [i \in 1 .. 2 * m |->
                          IF i % 2 = 1 THEN Fill((i + 1) \div 2) ELSE Drain(i \div 2)]
           IN  /\ new \in Seq(Entry) /\ Len(new) = 2 * m
               /\ \A i \in 1 .. (2 * m) : \E d \in 1 .. m :
                      \/ i = 2 * d - 1 /\ new[i] = FillAt(AtChunk(d))
                      \/ i = 2 * d /\ new[i] = DrainAt(AtChunk(d))
               /\ \A d \in 1 .. m : /\ new[2 * d - 1] = FillAt(AtChunk(d))
                                    /\ new[2 * d] = DrainAt(AtChunk(d))
<1>. DEFINE new == [i \in 1 .. 2 * m |->
                       IF i % 2 = 1 THEN Fill((i + 1) \div 2) ELSE Drain(i \div 2)]
<1>1. m \in Nat /\ \A d \in 1 .. m : d \in Outputs
  BY Constants DEF Outputs
<1>2. ASSUME NEW d \in 1 .. m
      PROVE  new[2 * d - 1] = FillAt(AtChunk(d)) /\ new[2 * d] = DrainAt(AtChunk(d))
  <2>1. /\ 2 * d - 1 \in 1 .. (2 * m) /\ 2 * d \in 1 .. (2 * m)
        /\ (2 * d - 1) % 2 = 1 /\ (2 * d) % 2 # 1
        /\ (2 * d - 1 + 1) \div 2 = d /\ (2 * d) \div 2 = d
    BY <1>1
  <2>2. new[2 * d - 1] = Fill(d) /\ new[2 * d] = Drain(d)
    BY <2>1
  <2>. QED
    BY <1>1, <2>2, FillsAndDrains
<1>. HIDE DEF new
<1>3. ASSUME NEW i \in 1 .. (2 * m)
      PROVE  \E d \in 1 .. m : \/ i = 2 * d - 1 /\ new[i] = FillAt(AtChunk(d))
                               \/ i = 2 * d /\ new[i] = DrainAt(AtChunk(d))
  BY <1>1, <1>2, PairPosition
<1>4. \A i \in 1 .. (2 * m) : new[i] \in Entry
  BY <1>1, <1>3, EntryFields, FillsAndDrains
<1>5. new \in Seq(Entry) /\ Len(new) = 2 * m
  <2>1. DOMAIN new = 1 .. (2 * m) /\ 2 * m \in Nat
    BY <1>1 DEF new
  <2>2. new = [i \in 1 .. (2 * m) |-> new[i]]
    BY DEF new
  <2>3. new \in [1 .. (2 * m) -> Entry]
    BY <1>4, <2>1, <2>2
  <2>. QED
    BY <2>1, <2>3
<1>. QED
  BY <1>2, <1>3, <1>5 DEF new

NewEntries ==
    [i \in 1 .. 2 * Cardinality(Queued) |->
        IF i % 2 = 1 THEN Fill((i + 1) \div 2) ELSE Drain(i \div 2)]

(* The queue after a chunk was prepared: its pairs, and those of the chunk. *)
LEMMA ChunkQueue ==
    ASSUME Paired(sq), Len(sq) <= Entries, total_processed \in Starts,
           \A p \in SqPlaces : p[2] < total_processed,
           NEW queue, queue = sq \o NewEntries
    PROVE  /\ Paired(queue)
           /\ Len(queue) = Len(sq) + 2 * Cardinality(Queued)
           /\ Len(queue) <= Entries
           /\ PlacesOf(queue) = SqPlaces \cup {AtChunk(d) : d \in Queued}
<1>. DEFINE m == Cardinality(Queued)
            new == NewEntries
            l == Len(sq)
<1>1. l \in Nat /\ ~Odd(l) /\ sq \in Seq(Entry)
  BY LenProperties DEF Paired
<1>2. m \in 0 .. NumOutputs /\ Queued = 1 .. m /\ l + 2 * m <= Entries /\ m \in Nat
  BY <1>1, QueuedOutputs, Constants
<1>3. /\ new \in Seq(Entry) /\ Len(new) = 2 * m
      /\ \A i \in 1 .. (2 * m) : \E d \in 1 .. m :
             \/ i = 2 * d - 1 /\ new[i] = FillAt(AtChunk(d))
             \/ i = 2 * d /\ new[i] = DrainAt(AtChunk(d))
      /\ \A d \in 1 .. m : /\ new[2 * d - 1] = FillAt(AtChunk(d))
                           /\ new[2 * d] = DrainAt(AtChunk(d))
  BY <1>2, NewPairs DEF NewEntries
<1>4. queue = sq \o new
  OBVIOUS
<1>. HIDE DEF m
<1>. HIDE DEF new
<1>5. /\ queue \in Seq(Entry) /\ Len(queue) = l + 2 * m
      /\ \A i \in 1 .. (l + 2 * m) :
             queue[i] = IF i <= l THEN sq[i] ELSE new[i - l]
  <2>1. /\ sq \o new \in Seq(Entry) /\ Len(sq \o new) = Len(sq) + Len(new)
        /\ \A i \in 1 .. (Len(sq) + Len(new)) :
               (sq \o new)[i] = IF i <= Len(sq) THEN sq[i] ELSE new[i - Len(sq)]
    BY <1>1, <1>3, ConcatProperties
  <2>. QED
    BY <1>3, <1>4, <2>1
<1>. HIDE DEF l
<1>6. \A i \in 1 .. l : i \in 1 .. Len(queue) /\ queue[i] = sq[i]
  BY <1>1, <1>2, <1>5
<1>7. \A j \in 1 .. (2 * m) : l + j \in 1 .. Len(queue) /\ queue[l + j] = new[j]
  BY <1>1, <1>2, <1>5
<1>8. \A i \in 1 .. Len(queue) : i \in 1 .. l \/ \E j \in 1 .. (2 * m) : i = l + j
  <2>1. ASSUME NEW i \in 1 .. Len(queue), i \notin 1 .. l
        PROVE  i - l \in 1 .. (2 * m) /\ i = l + (i - l)
    BY <1>1, <1>2, <1>5, <2>1
  <2>. QED
    BY <2>1
<1>9. \A d \in 1 .. m : /\ AtChunk(d) \in Places
                        /\ AtChunk(d)[1] = d /\ AtChunk(d)[2] = total_processed
  BY <1>2, FillsAndDrains, Constants DEF Outputs
<1>10. ASSUME NEW i \in 1 .. Len(queue), Odd(i)
       PROVE  \E p \in Places : queue[i] = FillAt(p) /\ queue[i + 1] = DrainAt(p)
  <2>1. CASE i \in 1 .. l
    <3>1. i + 1 \in 1 .. l
      BY <1>1, <1>10, <2>1 DEF Odd
    <3>2. \E p \in Places : sq[i] = FillAt(p) /\ sq[i + 1] = DrainAt(p)
      BY <1>10, <2>1 DEF Paired, l
    <3>. QED
      BY <1>6, <2>1, <3>1, <3>2
  <2>2. ASSUME NEW j \in 1 .. (2 * m), i = l + j
        PROVE  \E p \in Places : queue[i] = FillAt(p) /\ queue[i + 1] = DrainAt(p)
    <3>0. PICK d \in 1 .. m : j = 2 * d - 1 \/ j = 2 * d
      BY <1>3
    <3>1. j = 2 * d - 1
      BY <1>1, <1>10, <2>2, <3>0 DEF Odd
    <3>2. 2 * d \in 1 .. (2 * m) /\ i + 1 = l + 2 * d
      BY <1>1, <1>2, <2>2, <3>1
    <3>3. queue[i] = FillAt(AtChunk(d)) /\ queue[i + 1] = DrainAt(AtChunk(d))
      BY <1>3, <1>7, <2>2, <3>1, <3>2
    <3>. QED
      BY <1>9, <3>3
  <2>. QED
    BY <1>8, <2>1, <2>2
<1>11. ASSUME NEW i \in 1 .. l, NEW j \in 1 .. (2 * m)
       PROVE  sq[i] # new[j]
  <2>1. sq[i] \in EntriesOf(sq)
    BY DEF EntriesOf, l
  <2>2. PICK p \in SqPlaces : sq[i] = FillAt(p) \/ sq[i] = DrainAt(p)
    BY <2>1, QueueEntries DEF SqPlaces
  <2>3. PICK d \in 1 .. m : new[j] = FillAt(AtChunk(d)) \/ new[j] = DrainAt(AtChunk(d))
    BY <1>3
  <2>4. p \in Places /\ AtChunk(d) \in Places /\ p # AtChunk(d)
    <3>1. p[2] < total_processed /\ AtChunk(d)[2] = total_processed
      BY <1>9
    <3>2. total_processed \in Nat
      BY ChunkLength
    <3>. QED
      BY <1>9, <3>1, <3>2 DEF SqPlaces, PlacesOf
  <2>. QED
    BY <2>2, <2>3, <2>4, EntriesDiffer
<1>12. ASSUME NEW i \in 1 .. (2 * m), NEW j \in 1 .. (2 * m), new[i] = new[j]
       PROVE  i = j
  <2>1. PICK d \in 1 .. m : \/ i = 2 * d - 1 /\ new[i] = FillAt(AtChunk(d))
                            \/ i = 2 * d /\ new[i] = DrainAt(AtChunk(d))
    BY <1>3
  <2>2. PICK e \in 1 .. m : \/ j = 2 * e - 1 /\ new[j] = FillAt(AtChunk(e))
                            \/ j = 2 * e /\ new[j] = DrainAt(AtChunk(e))
    BY <1>3
  <2>3. AtChunk(d) = AtChunk(e) => d = e
    BY <1>9
  <2>. QED
    BY <1>9, <1>12, <2>1, <2>2, <2>3, EntriesDiffer
<1>13. ASSUME NEW i \in 1 .. Len(queue), NEW j \in 1 .. Len(queue),
              queue[i] = queue[j]
       PROVE  i = j
  <2>1. CASE i \in 1 .. l /\ j \in 1 .. l
    BY <1>6, <1>13, <2>1 DEF Paired, l
  <2>2. CASE i \notin 1 .. l /\ j \notin 1 .. l
    BY <1>7, <1>8, <1>12, <1>13, <2>2
  <2>3. CASE i \in 1 .. l /\ j \notin 1 .. l
    BY <1>6, <1>7, <1>8, <1>11, <1>13, <2>3
  <2>4. CASE i \notin 1 .. l /\ j \in 1 .. l
    BY <1>6, <1>7, <1>8, <1>11, <1>13, <2>4
  <2>. QED
    BY <2>1, <2>2, <2>3, <2>4
<1>14. ~Odd(Len(queue))
  BY <1>1, <1>2, <1>5 DEF Odd
<1>15. Paired(queue)
  BY <1>5, <1>10, <1>13, <1>14 DEF Paired
<1>16. ASSUME NEW p \in PlacesOf(queue)
       PROVE  p \in SqPlaces \/ \E d \in 1 .. m : p = AtChunk(d)
  <2>1. p \in Places
    BY DEF PlacesOf
  <2>2. PICK i \in 1 .. Len(queue) : queue[i] = FillAt(p)
    BY DEF PlacesOf
  <2>3. CASE i \in 1 .. l
    BY <1>6, <2>1, <2>2, <2>3 DEF SqPlaces, PlacesOf, l
  <2>4. CASE i \notin 1 .. l
    <3>1. PICK j \in 1 .. (2 * m) : i = l + j
      BY <1>8, <2>4
    <3>2. new[j] = FillAt(p)
      BY <1>7, <2>2, <3>1
    <3>. QED
      BY <1>3, <1>9, <2>1, <3>2, EntriesDiffer
  <2>. QED
    BY <2>3, <2>4
<1>17. \A p \in SqPlaces : p \in PlacesOf(queue)
  BY <1>6 DEF SqPlaces, PlacesOf, l
<1>18. ASSUME NEW d \in 1 .. m PROVE AtChunk(d) \in PlacesOf(queue)
  <2>1. 2 * d - 1 \in 1 .. (2 * m)
    BY <1>2
  <2>. QED
    BY <1>3, <1>7, <1>9, <2>1 DEF PlacesOf
<1>. QED
  BY <1>2, <1>5, <1>15, <1>16, <1>17, <1>18 DEF m, l

-----------------------------------------------------------------------------
(* Pairs handed to the kernel. *)
LEMMA FlushedChains ==
    ASSUME NEW S, WellFormed(S), NEW P, P \subseteq Places,
           NEW T, T = S \cup {PairAt(p) : p \in P}
    PROVE  /\ WellFormed(T)
           /\ PairsIn(T) = PairsIn(S) \cup P
           /\ RestsIn(T) = RestsIn(S)
<1>1. WellFormed(T)
  BY DEF WellFormed
<1>2. PairsIn(T) = PairsIn(S) \cup P
  BY ChainsDiffer DEF PairsIn
<1>3. RestsIn(T) = RestsIn(S)
  BY ChainsDiffer DEF RestsIn
<1>. QED
  BY <1>1, <1>2, <1>3

(* They bring as many entries into the kernel as the queue had. *)
LEMMA FlushedEntries ==
    ASSUME NEW S, WellFormed(S), IsFiniteSet(EntriesIn(S)),
           NEW batch, Paired(batch),
           PlacesOf(batch) \cap PairsIn(S) = {},
           PlacesOf(batch) \cap RestsIn(S) = {},
           NEW T, T = S \cup {PairAt(p) : p \in PlacesOf(batch)}
    PROVE  /\ IsFiniteSet(EntriesIn(T))
           /\ Cardinality(EntriesIn(T)) = Cardinality(EntriesIn(S)) + Len(batch)
<1>1. /\ WellFormed(T)
      /\ PairsIn(T) = PairsIn(S) \cup PlacesOf(batch)
      /\ RestsIn(T) = RestsIn(S)
  BY FlushedChains DEF PlacesOf
<1>2. EntriesIn(T) = {FillAt(p) : p \in PairsIn(T)}
                         \cup {DrainAt(p) : p \in PairsIn(T) \cup RestsIn(T)}
  BY <1>1, KernelEntries
<1>3. EntriesIn(S) = {FillAt(p) : p \in PairsIn(S)}
                         \cup {DrainAt(p) : p \in PairsIn(S) \cup RestsIn(S)}
  BY KernelEntries
<1>4. /\ EntriesOf(batch) = {FillAt(p) : p \in PlacesOf(batch)}
                                \cup {DrainAt(p) : p \in PlacesOf(batch)}
      /\ IsFiniteSet(EntriesOf(batch))
      /\ Cardinality(EntriesOf(batch)) = Len(batch)
  BY QueueEntries
<1>5. EntriesIn(T) = EntriesIn(S) \cup EntriesOf(batch)
  BY <1>1, <1>2, <1>3, <1>4
<1>6. EntriesIn(S) \cap EntriesOf(batch) = {}
  <2>1. ASSUME NEW e \in EntriesIn(S), e \in EntriesOf(batch)
        PROVE  FALSE
    <3>1. PICK p \in PairsIn(S) \cup RestsIn(S) : e = FillAt(p) \/ e = DrainAt(p)
      BY <1>3
    <3>2. PICK q \in PlacesOf(batch) : e = FillAt(q) \/ e = DrainAt(q)
      BY <1>4, <2>1
    <3>3. p \in Places /\ q \in Places /\ p # q
      BY DEF PairsIn, RestsIn, PlacesOf
    <3>. QED
      BY <3>1, <3>2, <3>3, EntriesDiffer
  <2>. QED
    BY <2>1
<1>7. Cardinality({}) = 0
  BY FS_EmptySet
<1>8. /\ IsFiniteSet(EntriesIn(S) \cup EntriesOf(batch))
      /\ Cardinality(EntriesIn(S) \cup EntriesOf(batch)) =
             Cardinality(EntriesIn(S)) + Cardinality(EntriesOf(batch))
                 - Cardinality(EntriesIn(S) \cap EntriesOf(batch))
  BY <1>4, FS_Union
<1>9. Cardinality(EntriesIn(S)) \in Nat /\ Len(batch) \in Nat
  BY FS_CardinalityType, LenProperties DEF Paired
<1>10. Cardinality(EntriesIn(S) \cup EntriesOf(batch)) =
           Cardinality(EntriesIn(S)) + Len(batch) - 0
  BY <1>4, <1>6, <1>7, <1>8
<1>11. Cardinality(EntriesIn(S) \cup EntriesOf(batch)) =
           Cardinality(EntriesIn(S)) + Len(batch)
  BY <1>9, <1>10
<1>. QED
  BY <1>5, <1>8, <1>11

NextQueue == sq \o NewEntries

(* Where the pairs of a turn of the outer loop go. *)
LEMMA PrepareCases ==
    ASSUME IInv, PrepareChunk
    PROVE  /\ pc = "prepare" /\ total_processed \in Starts
           /\ total_processed' = total_processed + LenAt(total_processed)
           /\ expected_cqes' = expected_cqes + 2 * Cardinality(Queued)
           /\ dropped' = dropped \cup {<<d, total_processed>> : d \in Outputs \ Queued}
           /\ Paired(NextQueue) /\ Len(NextQueue) <= Entries
           /\ Len(NextQueue) = Len(sq) + 2 * Cardinality(Queued)
           /\ PlacesOf(NextQueue) = SqPlaces \cup {AtChunk(d) : d \in Queued}
           /\ \/ /\ pc' = "reap" /\ sq' = <<>>
                 /\ chains' = chains \cup {PairAt(p) : p \in PlacesOf(NextQueue)}
              \/ /\ pc' = "prepare" /\ sq' = NextQueue /\ chains' = chains
                 /\ total_processed' < FileSize
           /\ UNCHANGED <<total_data_verified, cq, pipe, content, succeeded, faultVars>>
<1>1. pc = "prepare" /\ total_processed \in Starts
  BY DEF PrepareChunk, IInv, Progress
<1>2. /\ Paired(NextQueue) /\ Len(NextQueue) <= Entries
      /\ Len(NextQueue) = Len(sq) + 2 * Cardinality(Queued)
      /\ PlacesOf(NextQueue) = SqPlaces \cup {AtChunk(d) : d \in Queued}
  <2>1. Paired(sq) /\ Len(sq) <= Entries /\ \A p \in SqPlaces : p[2] < total_processed
    BY DEF IInv, Queues, TypeOK, Progress, Pending
  <2>. QED
    BY <1>1, <2>1, ChunkQueue DEF NextQueue
<1>3. Chunk = LenAt(total_processed)
  BY DEF Chunk, LenAt
<1>4. Chains(NextQueue) = {PairAt(p) : p \in PlacesOf(NextQueue)}
  BY <1>2, FlushedPairs
<1>5. /\ total_processed' = total_processed + LenAt(total_processed)
      /\ expected_cqes' = expected_cqes + 2 * Cardinality(Queued)
      /\ dropped' = dropped \cup {<<d, total_processed>> : d \in Outputs \ Queued}
      /\ UNCHANGED <<total_data_verified, cq, pipe, content, succeeded, faultVars>>
  BY <1>3 DEF PrepareChunk, PairsCounted
<1>6. IF BatchFull(expected_cqes', total_processed')
      THEN pc' = "reap" /\ sq' = <<>> /\ chains' = chains \cup Chains(NextQueue)
      ELSE sq' = NextQueue /\ pc' = pc /\ chains' = chains
  BY DEF PrepareChunk, NextQueue, NewEntries
<1>7. total_processed' \in Int
  BY <1>1, <1>5, ChunkLength
<1>8. ~BatchFull(expected_cqes', total_processed') => total_processed' < FileSize
  BY <1>7, Constants DEF BatchFull
<1>9. \/ /\ pc' = "reap" /\ sq' = <<>>
         /\ chains' = chains \cup {PairAt(p) : p \in PlacesOf(NextQueue)}
      \/ /\ pc' = "prepare" /\ sq' = NextQueue /\ chains' = chains
         /\ total_processed' < FileSize
  BY <1>1, <1>4, <1>6, <1>8
<1>. QED
  BY <1>1, <1>2, <1>5, <1>9

NewPlaces == {AtChunk(d) : d \in Queued}

(* An empty queue holds no pair. *)
LEMMA EmptyQueue ==
    Paired(<<>>) /\ PlacesOf(<<>>) = {}
  BY DEF Paired, PlacesOf, Odd

(* The places of the chunk being prepared. *)
LEMMA NewPlacesAre ==
    ASSUME total_processed \in Starts
    PROVE  /\ NewPlaces = {<<d, total_processed>> : d \in Queued}
           /\ \A p \in NewPlaces : p \in Places /\ p[2] = total_processed
<1>1. Queued \subseteq Outputs
  BY DEF Queued
<1>2. NewPlaces = {<<d, total_processed>> : d \in Queued}
  BY DEF NewPlaces, AtChunk
<1>. QED
  BY <1>1, <1>2 DEF Places

(* What preparing a chunk changes of the places: the new ones are added. *)
LEMMA PreparePlaces ==
    ASSUME IInv, PrepareChunk
    PROVE  /\ Queues'
           /\ SqPlaces' \cup PairPlaces' = SqPlaces \cup PairPlaces \cup NewPlaces
           /\ RestPlaces' = RestPlaces
           /\ Pending' = Pending \cup NewPlaces
           /\ Counts'
<1>1. /\ Paired(sq) /\ WellFormed(chains)
      /\ SqPlaces \cap PairPlaces = {} /\ SqPlaces \cap RestPlaces = {}
      /\ PairPlaces \cap RestPlaces = {}
  BY DEF IInv, Queues
<1>2. /\ total_processed \in Starts /\ total_processed \in Nat
      /\ \A p \in NewPlaces : p \in Places /\ p[2] = total_processed
  BY PrepareCases, NewPlacesAre, ChunkLength
<1>3. \A p \in Pending : p[2] < total_processed
  BY DEF IInv, Progress
<1>4. NewPlaces \cap PairPlaces = {} /\ NewPlaces \cap RestPlaces = {}
  BY <1>2, <1>3 DEF Pending
<1>5. /\ Paired(NextQueue) /\ Len(NextQueue) = Len(sq) + 2 * Cardinality(Queued)
      /\ PlacesOf(NextQueue) = SqPlaces \cup NewPlaces
      /\ expected_cqes' = expected_cqes + 2 * Cardinality(Queued)
      /\ cq' = cq
  BY PrepareCases DEF NewPlaces
<1>6. PlacesOf(NextQueue) \cap PairPlaces = {} /\ PlacesOf(NextQueue) \cap RestPlaces = {}
  BY <1>1, <1>4, <1>5
<1>7. /\ IsFiniteSet(EntriesIn(chains)) /\ IsFiniteSet(cq)
      /\ expected_cqes = Len(sq) + Cardinality(cq) + Cardinality(EntriesIn(chains))
  BY KernelSets DEF IInv, Counts, ExpectedOutstanding
<1>8. /\ Len(sq) \in Nat /\ Cardinality(cq) \in Nat /\ Cardinality(EntriesIn(chains)) \in Nat
      /\ Cardinality(Queued) \in Nat /\ Len(NextQueue) \in Nat
  <2>1. Len(sq) \in Nat /\ Len(NextQueue) \in Nat
    BY <1>1, <1>5, LenProperties DEF Paired
  <2>2. Cardinality(Queued) \in Nat
    BY <2>1, QueuedOutputs, Constants DEF IInv, TypeOK
  <2>. QED
    BY <1>7, <2>1, <2>2, FS_CardinalityType
<1>9. CASE /\ pc' = "reap" /\ sq' = <<>>
           /\ chains' = chains \cup {PairAt(p) : p \in PlacesOf(NextQueue)}
  <2>1. /\ WellFormed(chains')
        /\ PairPlaces' = PairPlaces \cup PlacesOf(NextQueue)
        /\ RestPlaces' = RestPlaces
    BY <1>1, <1>9, FlushedChains DEF PairPlaces, RestPlaces, PlacesOf
  <2>2. SqPlaces' = {} /\ Paired(sq') /\ Len(sq') = 0
    BY <1>9, EmptyQueue DEF SqPlaces
  <2>3. Queues'
    BY <1>9, <2>1, <2>2, <1>1, <1>6 DEF Queues
  <2>4. /\ IsFiniteSet(EntriesIn(chains'))
        /\ Cardinality(EntriesIn(chains')) =
               Cardinality(EntriesIn(chains)) + Len(NextQueue)
    BY <1>1, <1>5, <1>6, <1>7, <1>9, FlushedEntries DEF PairPlaces, RestPlaces
  <2>5. expected_cqes' = Len(sq') + Cardinality(cq') + Cardinality(EntriesIn(chains'))
    BY <1>5, <1>7, <1>8, <2>2, <2>4
  <2>6. Counts'
    BY <1>5, <1>7, <2>4, <2>5, KernelSetsNext DEF Counts, ExpectedOutstanding
  <2>. QED
    BY <1>5, <2>1, <2>2, <2>3, <2>6 DEF Pending
<1>10. CASE pc' = "prepare" /\ sq' = NextQueue /\ chains' = chains
  <2>1. /\ WellFormed(chains') /\ PairPlaces' = PairPlaces /\ RestPlaces' = RestPlaces
    BY <1>1, <1>10 DEF PairPlaces, RestPlaces
  <2>2. SqPlaces' = PlacesOf(NextQueue) /\ Paired(sq') /\ Len(sq') = Len(NextQueue)
    BY <1>5, <1>10 DEF SqPlaces
  <2>3. Queues'
    BY <1>1, <1>6, <1>10, <2>1, <2>2 DEF Queues
  <2>4. expected_cqes' = Len(sq') + Cardinality(cq') + Cardinality(EntriesIn(chains'))
    BY <1>5, <1>7, <1>8, <1>10, <2>2, SMTT(60)
  <2>5. Counts'
    BY <1>5, <1>7, <1>10, <2>4, KernelSetsNext DEF Counts, ExpectedOutstanding
  <2>. QED
    BY <1>5, <2>1, <2>2, <2>3, <2>5 DEF Pending
<1>. QED
  BY <1>9, <1>10, PrepareCases

(* The next chunk starts where this one ends. *)
LEMMA NextStart ==
    ASSUME NEW s \in Starts, s + LenAt(s) < FileSize
    PROVE  s + LenAt(s) \in Starts
  BY NextChunk, Constants DEF Starts, LenAt, Offsets, StartsIn, LengthIn

(* A turn of the outer loop keeps the invariant. *)
LEMMA PrepareKeeps == IInv /\ PrepareChunk => IInv'
<1>. SUFFICES ASSUME IInv, PrepareChunk
              PROVE  IInv'
  OBVIOUS
<1>1. /\ total_processed \in Starts
      /\ total_processed' = total_processed + LenAt(total_processed)
      /\ dropped' = dropped \cup {<<d, total_processed>> : d \in Outputs \ Queued}
      /\ UNCHANGED <<total_data_verified, cq, pipe, content, faults, faulted, gaveUp>>
  BY PrepareCases DEF faultVars
<1>2. /\ total_processed \in Nat /\ LenAt(total_processed) \in Nat
      /\ total_processed + LenAt(total_processed) <= FileSize
      /\ total_processed <= total_processed'
  BY <1>1, ChunkLength, Constants
<1>3. /\ Queues' /\ Counts'
      /\ SqPlaces' \cup PairPlaces' = SqPlaces \cup PairPlaces \cup NewPlaces
      /\ RestPlaces' = RestPlaces
      /\ Pending' = Pending \cup NewPlaces
  BY PreparePlaces
<1>4. /\ NewPlaces = {<<d, total_processed>> : d \in Queued}
      /\ \A p \in NewPlaces : p \in Places /\ p[2] = total_processed
  BY <1>1, NewPlacesAre
<1>5. TypeOK'
  <2>1. pc' \in {"prepare", "reap", "done"} /\ Len(sq') <= Entries
    BY PrepareCases, Constants, EmptyQueue DEF IInv, TypeOK
  <2>2. total_processed' \in 0 .. FileSize
    BY <1>1, <1>2, Constants
  <2>3. expected_cqes' \in Nat
    <3>1. Len(sq) \in Nat /\ Cardinality(Queued) \in Nat
      BY QueuedOutputs, LenProperties, Constants DEF IInv, Queues, Paired, TypeOK
    <3>. QED
      BY <3>1, PrepareCases DEF IInv, TypeOK
  <2>. QED
    BY <1>1, <2>1, <2>2, <2>3 DEF IInv, TypeOK
<1>6. Completed'
  <2>1. ASSUME NEW x \in cq
        PROVE  \E p \in Places : \/ FillDone(x, p) /\ p \notin (SqPlaces \cup PairPlaces)'
                                 \/ DrainDone(x, p) /\ p \notin Pending'
    <3>1. PICK p \in Places : \/ FillDone(x, p) /\ p \notin SqPlaces \cup PairPlaces
                              \/ DrainDone(x, p) /\ p \notin Pending
      BY DEF IInv, Completed
    <3>2. x.off = p[2]
      BY <3>1, EntryFields DEF FillDone, DrainDone, Completion
    <3>3. p \notin NewPlaces
      BY <1>2, <1>4, <3>2 DEF IInv, Progress
    <3>. QED
      BY <1>3, <3>1, <3>3
  <2>. QED
    BY <1>1, <2>1 DEF IInv, Completed
<1>7. Progress'
  <2>1. \A p \in Pending' : p[2] < total_processed'
    <3>1. \A p \in Pending : p \in Places /\ p[2] \in Nat /\ p[2] < total_processed
      <4>1. \A p \in Pending : p \in Places /\ p[2] < total_processed
        BY DEF IInv, Progress, Pending, SqPlaces, PairPlaces, RestPlaces,
               PlacesOf, PairsIn, RestsIn
      <4>. QED
        BY <4>1, EntryFields, Constants
    <3>2. LenAt(total_processed) > 0
      BY <1>1, ChunkLength, Constants
    <3>. QED
      BY <1>1, <1>2, <1>3, <1>4, <3>1, <3>2
  <2>2. \A x \in cq' : x.off < total_processed'
    <3>1. \A x \in cq : x.off \in Nat /\ x.off < total_processed
      <4>1. \A x \in cq : \E p \in Places : x.off = p[2]
        BY EntryFields DEF IInv, Completed, FillDone, DrainDone, Completion
      <4>. QED
        BY <4>1, EntryFields, Constants DEF IInv, Progress
    <3>. QED
      BY <1>1, <1>2, <3>1
  <2>3. /\ total_processed' < FileSize => total_processed' \in Starts
        /\ pc' = "prepare" => total_processed' < FileSize
    BY <1>1, NextStart, PrepareCases
  <2>4. pc' # "done"
    BY PrepareCases
  <2>. QED
    BY <2>1, <2>2, <2>3, <2>4 DEF Progress
<1>8. ASSUME NEW d \in Outputs, NEW o \in Offsets
      PROVE  /\ o \in Nat /\ StartOf(o) \in Starts /\ StartOf(o) <= o
             /\ StartOf(o) \in Nat
             /\ <<d, StartOf(o)>> \in NewPlaces =>
                    StartOf(o) = total_processed /\ d \in Queued
             /\ StartOf(o) = total_processed /\ d \in Queued =>
                    <<d, StartOf(o)>> \in NewPlaces
  BY <1>4, StartsAreStarts, Constants DEF Starts
<1>9. Unwritten'
  <2>1. ASSUME NEW d \in Outputs, NEW o \in Offsets,
               o >= total_processed' \/ <<d, StartOf(o)>> \in Pending'
        PROVE  content[d][o] = Hole
    <3>1. o >= total_processed \/ <<d, StartOf(o)>> \in Pending
      BY <1>1, <1>2, <1>3, <1>8, <2>1
    <3>. QED
      BY <3>1 DEF IInv, Unwritten
  <2>. QED
    BY <1>1, <2>1 DEF Unwritten
<1>10. InPipe'
  <2>1. WellFormed(chains) /\ WellFormed(chains')
    BY <1>3 DEF IInv, Queues
  <2>2. RestsIn(chains') = RestsIn(chains)
    BY <1>3 DEF RestPlaces
  <2>3. ASSUME NEW d \in Outputs PROVE Ready(d)' = Ready(d)
    <3>1. ReadyIn(chains', d) = {o \in Offsets : <<d, StartOf(o)>> \in RestsIn(chains')}
      BY <2>1, ReadyPlaces
    <3>2. ReadyIn(chains, d) = {o \in Offsets : <<d, StartOf(o)>> \in RestsIn(chains)}
      BY <2>1, ReadyPlaces
    <3>. QED
      BY <2>2, <3>1, <3>2, KernelSets, KernelSetsNext
  <2>. QED
    BY <1>1, <2>3 DEF IInv, InPipe
<1>11. Covered'
  <2>1. ASSUME NEW d \in Outputs, NEW o \in Offsets, d \notin faulted,
               o < total_processed'
        PROVE  content[d][o] # Hole \/ <<d, StartOf(o)>> \in Pending' \cup dropped'
    <3>1. CASE o < total_processed
      BY <1>1, <1>3, <2>1, <3>1 DEF IInv, Covered
    <3>2. CASE ~(o < total_processed)
      <4>1. StartOf(o) = total_processed
        <5>1. /\ o < total_processed <=> StartOf(o) < total_processed
              /\ o < total_processed + LenAt(total_processed)
                     <=> StartOf(o) <= total_processed
          BY <1>1, InChunk
        <5>2. StartOf(o) \in Nat /\ StartOf(o) <= total_processed
              /\ ~(StartOf(o) < total_processed)
          BY <1>1, <1>8, <2>1, <3>2, <5>1
        <5>. QED
          BY <1>2, <5>2
      <4>2. CASE d \in Queued
        BY <1>3, <1>8, <4>1, <4>2
      <4>3. CASE d \notin Queued
        BY <1>1, <4>1, <4>3
      <4>. QED
        BY <4>2, <4>3
    <3>. QED
      BY <3>1, <3>2
  <2>. QED
    BY <1>1, <2>1 DEF Covered
<1>12. Total'
  BY <1>1 DEF IInv, Total, SeenWritten, Unseen
<1>. QED
  BY <1>1, <1>3, <1>5, <1>6, <1>7, <1>9, <1>10, <1>11, <1>12 DEF IInv

-----------------------------------------------------------------------------
(* The invariant holds before the first turn of the loop. *)
LEMMA InitIInv == Init => IInv
<1>. SUFFICES ASSUME Init
              PROVE  IInv
  OBVIOUS
<1>1. /\ total_processed = 0 /\ expected_cqes = 0 /\ total_data_verified = 0
      /\ sq = <<>> /\ chains = {} /\ cq = {} /\ dropped = {}
      /\ pipe = [d \in Outputs |-> <<>>]
      /\ content = [d \in Outputs |-> [o \in Offsets |-> Hole]]
      /\ faults = 0 /\ faulted = {} /\ gaveUp = FALSE
      /\ pc = IF FileSize > 0 THEN "prepare" ELSE "done"
  BY DEF Init
<1>2. IsFiniteSet({}) /\ Cardinality({}) = 0
  BY FS_EmptySet
<1>3. SqPlaces = {} /\ PairPlaces = {} /\ RestPlaces = {} /\ Pending = {}
      /\ WellFormed(chains)
  BY <1>1, EmptyQueue DEF SqPlaces, PairPlaces, PairsIn, RestPlaces, RestsIn, Pending,
                          WellFormed
<1>4. TypeOK
  <2>1. /\ pc \in {"prepare", "reap", "done"} /\ total_processed \in 0 .. FileSize
        /\ expected_cqes \in Nat /\ Len(sq) <= Entries /\ faults \in 0 .. MaxFaults
    BY <1>1, Constants
  <2>2. \A d \in Outputs : pipe[d] \in Seq(Offsets) /\ Len(pipe[d]) <= PipeSize
    BY <1>1, Constants
  <2>3. content \in [Outputs -> [Offsets -> Offsets \cup {Hole}]]
    BY <1>1
  <2>. QED
    BY <2>1, <2>2, <2>3 DEF TypeOK
<1>5. pipe \in [Outputs -> Seq(Offsets)] /\ gaveUp \in BOOLEAN
  <2>1. <<>> \in Seq(Offsets)
    OBVIOUS
  <2>2. pipe \in [Outputs -> Seq(Offsets)]
    BY <1>1, <2>1
  <2>. QED
    BY <1>1, <2>2
<1>6. Queues
  BY <1>1, <1>3, EmptyQueue DEF Queues
<1>7. Completed
  BY <1>1 DEF Completed
<1>8. Progress
  <2>1. total_processed < FileSize => total_processed \in Starts
    BY <1>1, Constants DEF Starts, Offsets
  <2>2. pc = "prepare" => total_processed < FileSize
    BY <1>1
  <2>3. pc = "done" => total_processed = FileSize
    BY <1>1, Constants
  <2>. QED
    BY <1>1, <1>3, <2>1, <2>2, <2>3 DEF Progress
<1>9. Counts
  <2>1. InKernel = {}
    BY <1>1 DEF InKernel
  <2>. QED
    BY <1>1, <1>2, <2>1 DEF Counts, ExpectedOutstanding
<1>10. Unwritten
  BY <1>1 DEF Unwritten
<1>11. InPipe
  <2>1. \A d \in Outputs : Ready(d) = {} /\ pipe[d] = <<>>
    BY <1>1 DEF Ready
  <2>2. ASSUME NEW d \in Outputs
        PROVE  Cardinality(Ready(d)) = 0 /\ Len(pipe[d]) = 0
    <3>1. Cardinality(Ready(d)) = 0
      BY <1>2, <2>1, Zenon
    <3>2. Len(pipe[d]) = 0
      BY <2>1
    <3>. QED
      BY <3>1, <3>2
  <2>. QED
    BY <2>2 DEF InPipe
<1>12. Covered
  BY <1>1, Constants DEF Covered
<1>13. Total
  <2>1. Unseen = {} /\ SeenWritten = {}
    BY <1>1 DEF Unseen, SeenWritten
  <2>. QED
    BY <1>1, <1>2, <2>1 DEF Total
<1>. QED
  BY <1>4, <1>5, <1>6, <1>7, <1>8, <1>9, <1>10, <1>11, <1>12, <1>13 DEF IInv

(* A state that differs in what it waits for only. *)
LEMMA AfterBatchKeeps ==
    ASSUME IInv, pc = "reap", AfterBatch,
           UNCHANGED <<total_processed, expected_cqes, total_data_verified, sq, cq,
                       chains, pipe, content, dropped, faulted>>,
           gaveUp' \in BOOLEAN, faults' \in 0 .. MaxFaults,
           ~gaveUp' => expected_cqes = 0
    PROVE  IInv'
<1>1. /\ pc' \in {"prepare", "done"}
      /\ total_processed < FileSize => pc' = "prepare"
      /\ ~(total_processed < FileSize) => pc' = "done"
  BY DEF AfterBatch
<1>2. TypeOK' /\ pipe' \in [Outputs -> Seq(Offsets)]
  BY <1>1 DEF IInv, TypeOK
<1>3. /\ SqPlaces' = SqPlaces /\ PairPlaces' = PairPlaces /\ RestPlaces' = RestPlaces
      /\ Pending' = Pending /\ InKernel' = InKernel
      /\ \A d \in Outputs : Ready(d)' = Ready(d)
  BY DEF SqPlaces, PairPlaces, RestPlaces, Pending, InKernel, Ready
<1>4. Queues'
  BY <1>3 DEF IInv, Queues
<1>5. Completed' /\ Counts' /\ Unwritten' /\ InPipe' /\ Covered'
  BY <1>3 DEF IInv, Completed, Counts, ExpectedOutstanding, Unwritten, InPipe, Covered
<1>6. Progress'
  BY <1>1, <1>3, Constants DEF IInv, Progress, TypeOK
<1>7. Total'
  BY DEF IInv, Total, SeenWritten, Unseen
<1>. QED
  BY <1>2, <1>4, <1>5, <1>6, <1>7 DEF IInv

(* The step that ends a batch keeps the invariant. *)
LEMMA EndBatchKeeps == IInv /\ EndBatch => IInv'
  BY AfterBatchKeeps DEF EndBatch, loopVars, kernelVars, faultVars, IInv, TypeOK

(* A failing wait keeps the invariant. *)
LEMMA WaitFailsKeeps == IInv /\ WaitFails => IInv'
<1>. SUFFICES ASSUME IInv, WaitFails
              PROVE  IInv'
  OBVIOUS
<1>1. faults' \in 0 .. MaxFaults
  BY Constants DEF WaitFails, IInv, TypeOK
<1>. QED
  BY <1>1, AfterBatchKeeps DEF WaitFails, loopVars, kernelVars

(* A step that changes nothing keeps the invariant. *)
LEMMA StutterKeeps == IInv /\ UNCHANGED vars => IInv'
<1>. SUFFICES ASSUME IInv, UNCHANGED vars
              PROVE  IInv'
  OBVIOUS
<1>1. UNCHANGED <<pc, total_processed, expected_cqes, total_data_verified, sq, cq, chains,
                  pipe, content, succeeded, dropped, faults, faulted, gaveUp>>
  BY DEF vars, loopVars, kernelVars, faultVars
<1>. QED
  BY <1>1 DEF IInv, TypeOK, Queues, Completed, Progress, Counts, ExpectedOutstanding,
              Unwritten, InPipe, Covered, Total, SeenWritten, Unseen, Pending,
              SqPlaces, PairPlaces, RestPlaces, InKernel, Ready

-----------------------------------------------------------------------------
(* What a completion says of its operation, and what it wrote. *)
LEMMA CompletionFields ==
    ASSUME NEW p \in Places, NEW res \in Results(p)
    PROVE  LET f == Completion(FillAt(p), res)
               g == Completion(DrainAt(p), res)
           IN  /\ f.op = "fill" /\ f.d = p[1] /\ f.off = p[2]
               /\ g.op = "drain" /\ g.d = p[1] /\ g.off = p[2]
               /\ f.res = res /\ g.res = res
               /\ res \in Int /\ res <= LenAt(p[2]) /\ res >= -1 /\ res # 0
               /\ Verified(f) = 0 /\ Verified(g) = IF res > 0 THEN res ELSE 0
<1>1. res \in Int /\ res <= LenAt(p[2]) /\ res >= -1 /\ res # 0
  <2>1. LenAt(p[2]) \in Nat
    BY EntryFields, ChunkLength, Constants
  <2>. QED
    BY <2>1 DEF Results
<1>. QED
  BY <1>1, EntryFields DEF Completion, Verified

(* The completion of a fill stands for no bytes of an output. *)
LEMMA FillSpan ==
    ASSUME NEW p \in Places, NEW x, FillDone(x, p)
    PROVE  Span(x) = {} /\ Verified(x) = 0 /\ x.op = "fill" /\ x.d = p[1] /\ x.off = p[2]
<1>1. PICK res \in Results(p) : x = Completion(FillAt(p), res)
  BY DEF FillDone
<1>2. x.op = "fill" /\ Verified(x) = 0 /\ x.d = p[1] /\ x.off = p[2]
  BY <1>1, CompletionFields
<1>. QED
  BY <1>2 DEF Span

(* The completion of a drain stands for as many bytes as it returned. *)
LEMMA DrainSpan ==
    ASSUME NEW p \in Places, NEW x, DrainDone(x, p)
    PROVE  /\ x.op = "drain" /\ x.d = p[1] /\ x.off = p[2]
           /\ \A u \in Span(x) : u[1] = p[1] /\ StartOf(u[2]) = p[2]
           /\ Span(x) \subseteq Outputs \X Offsets
           /\ IsFiniteSet(Span(x)) /\ Cardinality(Span(x)) = Verified(x)
<1>1. PICK res \in Results(p) : x = Completion(DrainAt(p), res)
  BY DEF DrainDone
<1>2. /\ x.op = "drain" /\ x.d = p[1] /\ x.off = p[2] /\ x.res = res
      /\ res \in Int /\ res <= LenAt(p[2]) /\ res >= -1
      /\ Verified(x) = IF res > 0 THEN res ELSE 0
  BY <1>1, CompletionFields
<1>3. /\ p[1] \in Outputs /\ p[2] \in Starts /\ p[2] \in Nat /\ p[2] < FileSize
      /\ LenAt(p[2]) \in Nat /\ p[2] + LenAt(p[2]) <= FileSize
  BY EntryFields, ChunkLength, Constants
<1>. DEFINE last == p[2] + res - 1
<1>4. last \in Int /\ last < p[2] + LenAt(p[2])
  BY <1>2, <1>3
<1>. HIDE DEF last
<1>5. \A o \in p[2] .. last : o \in Offsets
  BY <1>3, <1>4, Constants DEF Offsets
<1>6. Span(x) = {p[1]} \X (p[2] .. last)
  BY <1>2, <1>3, <1>5 DEF Span, last
<1>7. \A o \in p[2] .. last : StartOf(o) = p[2]
  <2>1. ASSUME NEW o \in p[2] .. last PROVE o \in p[2] .. (p[2] + LenAt(p[2]) - 1)
    BY <1>3, <1>4
  <2>. QED
    BY <1>3, <1>5, <2>1, InChunk
<1>8. /\ IsFiniteSet(p[2] .. last)
      /\ Cardinality(p[2] .. last) = Verified(x)
  BY <1>2, <1>3, SpanLength DEF last
<1>9. IsFiniteSet({p[1]}) /\ Cardinality({p[1]}) = 1
  BY FS_Singleton
<1>10. /\ IsFiniteSet({p[1]} \X (p[2] .. last))
       /\ Cardinality({p[1]} \X (p[2] .. last)) = 1 * Verified(x)
  <2>. DEFINE one == {p[1]}
              some == p[2] .. last
  <2>1. IsFiniteSet(one) /\ IsFiniteSet(some)
    BY <1>8, <1>9
  <2>2. Cardinality(one) = 1 /\ Cardinality(some) = Verified(x)
    BY <1>8, <1>9
  <2>. HIDE DEF one, some
  <2>3. IsFiniteSet(one \X some) /\ Cardinality(one \X some) = Cardinality(one) * Cardinality(some)
    BY <2>1, FS_Product
  <2>. QED
    BY <2>2, <2>3 DEF one, some
<1>11. 1 * Verified(x) = Verified(x)
  BY <1>2
<1>. QED
  BY <1>2, <1>3, <1>5, <1>6, <1>7, <1>10, <1>11

(* Different completions of drains wrote different places. *)
LEMMA SpansDiffer ==
    ASSUME IInv, NEW x \in cq, NEW y \in cq, NEW u, u \in Span(x), u \in Span(y)
    PROVE  x = y
<1>1. PICK p \in Places : FillDone(x, p) \/ DrainDone(x, p)
  BY DEF IInv, Completed
<1>2. PICK q \in Places : FillDone(y, q) \/ DrainDone(y, q)
  BY DEF IInv, Completed
<1>3. /\ x.op = "drain" /\ x.d = p[1] /\ x.off = p[2]
      /\ p[1] = u[1] /\ p[2] = StartOf(u[2])
  BY <1>1, FillSpan, DrainSpan
<1>4. /\ y.op = "drain" /\ y.d = q[1] /\ y.off = q[2]
      /\ q[1] = u[1] /\ q[2] = StartOf(u[2])
  BY <1>2, FillSpan, DrainSpan
<1>. QED
  BY <1>3, <1>4 DEF IInv, Completed

(* A completion seen is counted with what it wrote. *)
LEMMA ReapTotal ==
    ASSUME IInv, NEW c \in cq, cq' = cq \ {c}, content' = content,
           total_data_verified' = total_data_verified + Verified(c)
    PROVE  Total'
<1>1. PICK p \in Places : FillDone(c, p) \/ DrainDone(c, p)
  BY DEF IInv, Completed
<1>2. /\ Span(c) \subseteq Outputs \X Offsets
      /\ IsFiniteSet(Span(c)) /\ Cardinality(Span(c)) = Verified(c)
  BY <1>1, FillSpan, DrainSpan, FS_EmptySet
<1>3. Unseen' = Unseen \ Span(c)
  <2>1. ASSUME NEW u \in Outputs \X Offsets
        PROVE  u \in Unseen' <=> u \in Unseen /\ u \notin Span(c)
    <3>1. u \in Unseen' <=> \E x \in cq \ {c} : u \in Span(x)
      BY DEF Unseen, Span
    <3>2. u \in Unseen <=> \E x \in cq : u \in Span(x)
      BY DEF Unseen
    <3>. QED
      BY <3>1, <3>2, SpansDiffer
  <2>2. Unseen \subseteq Outputs \X Offsets /\ Unseen' \subseteq Outputs \X Offsets
    BY DEF Unseen
  <2>. QED
    BY <2>1, <2>2
<1>4. Span(c) \subseteq Unseen
  BY <1>2 DEF Unseen
<1>5. \A u \in Unseen : content[u[1]][u[2]] # Hole
  BY DEF IInv, Total
<1>6. /\ SeenWritten' = SeenWritten \cup Span(c)
      /\ SeenWritten \cap Span(c) = {}
  BY <1>2, <1>3, <1>4, <1>5 DEF SeenWritten
<1>7. /\ IsFiniteSet(SeenWritten)
      /\ Cardinality(SeenWritten) \in Nat /\ Cardinality(Span(c)) \in Nat
  BY <1>2, FinitePlaces, FS_Subset, FS_CardinalityType DEF SeenWritten
<1>8. Cardinality(SeenWritten \cup Span(c)) =
          Cardinality(SeenWritten) + Cardinality(Span(c)) - Cardinality({})
  BY <1>2, <1>6, <1>7, FS_Union
<1>9. Cardinality(SeenWritten') = Cardinality(SeenWritten) + Verified(c) - 0
  BY <1>2, <1>6, <1>8, FS_EmptySet
<1>10. total_data_verified = Cardinality(SeenWritten)
  BY DEF IInv, Total
<1>11. total_data_verified' = Cardinality(SeenWritten')
  BY <1>2, <1>7, <1>9, <1>10
<1>. QED
  BY <1>3, <1>5, <1>11 DEF Total

(* Looking at a completion keeps the invariant. *)
LEMMA ReapKeeps == IInv /\ (\E c \in cq : Reap(c)) => IInv'
<1>. SUFFICES ASSUME IInv, NEW c \in cq, Reap(c)
              PROVE  IInv'
  OBVIOUS
<1>1. /\ pc = "reap" /\ expected_cqes > 0
      /\ cq' = cq \ {c} /\ expected_cqes' = expected_cqes - 1
      /\ total_data_verified' = total_data_verified + Verified(c)
      /\ UNCHANGED <<pc, total_processed, sq, chains, pipe, content, succeeded, dropped,
                     faults, faulted, gaveUp>>
  BY DEF Reap, Seen, kernelVars, faultVars
<1>2. TypeOK' /\ pipe' \in [Outputs -> Seq(Offsets)] /\ gaveUp' \in BOOLEAN
  BY <1>1 DEF IInv, TypeOK
<1>3. /\ SqPlaces' = SqPlaces /\ PairPlaces' = PairPlaces /\ RestPlaces' = RestPlaces
      /\ Pending' = Pending /\ InKernel' = InKernel
      /\ \A d \in Outputs : Ready(d)' = Ready(d)
  BY <1>1 DEF SqPlaces, PairPlaces, RestPlaces, Pending, InKernel, Ready
<1>4. Queues' /\ Unwritten' /\ InPipe' /\ Covered' /\ Completed'
  BY <1>1, <1>3 DEF IInv, Queues, Unwritten, InPipe, Covered, Completed
<1>5. Progress'
  BY <1>1, <1>3 DEF IInv, Progress
<1>6. Counts'
  <2>1. /\ IsFiniteSet(cq) /\ IsFiniteSet(InKernel)
        /\ expected_cqes = Len(sq) + Cardinality(cq) + Cardinality(InKernel)
    BY DEF IInv, Counts, ExpectedOutstanding
  <2>2. IsFiniteSet(cq \ {c}) /\ Cardinality(cq \ {c}) = Cardinality(cq) - 1
    BY <2>1, FS_RemoveElement
  <2>3. Len(sq) \in Nat /\ Cardinality(cq) \in Nat /\ Cardinality(InKernel) \in Nat
    BY <2>1, FS_CardinalityType, LenProperties DEF IInv, Queues, Paired
  <2>4. expected_cqes' = Len(sq) + Cardinality(cq \ {c}) + Cardinality(InKernel)
    BY <1>1, <2>1, <2>2, <2>3
  <2>. QED
    BY <1>1, <1>3, <2>1, <2>2, <2>4 DEF Counts, ExpectedOutstanding
<1>7. Total'
  BY <1>1, ReapTotal
<1>. QED
  BY <1>2, <1>4, <1>5, <1>6, <1>7 DEF IInv

-----------------------------------------------------------------------------
(* The units of a fill that moves k. *)
Units(s, k) == [i \in 1 .. k |-> s + i - 1]

(* The fill of p executed, with result k. *)
FillRun(p, k, chain) ==
    /\ chain = PairAt(p) /\ p \in PairPlaces
    /\ Len(pipe[p[1]]) + k <= PipeSize
    /\ pipe' = IF k > 0 THEN [pipe EXCEPT ![p[1]] = @ \o Units(p[2], k)] ELSE pipe
    /\ UNCHANGED <<content, succeeded>>
    /\ \/ /\ k = LenAt(p[2])
          /\ chains' = (chains \ {chain}) \cup {RestAt(p)}
          /\ cq' = cq \cup {Completion(FillAt(p), k)}
          /\ UNCHANGED faulted
       \/ /\ k # LenAt(p[2])
          /\ chains' = chains \ {chain}
          /\ cq' = cq \cup {Completion(FillAt(p), k), Completion(DrainAt(p), -1)}
          /\ faulted' = faulted \cup {p[1]}

(* The drain of p executed, with result k. *)
DrainRun(p, k, chain) ==
    /\ chain = RestAt(p) /\ p \in RestPlaces
    /\ k <= Len(pipe[p[1]])
    /\ pipe' = IF k > 0
               THEN [pipe EXCEPT ![p[1]] = SubSeq(@, k + 1, Len(@))] ELSE pipe
    /\ content' = IF k > 0
                  THEN [content EXCEPT ![p[1]] =
                           [o \in Offsets |-> IF o - p[2] \in 0 .. (k - 1)
                                              THEN pipe[p[1]][o - p[2] + 1] ELSE @[o]]]
                  ELSE content
    /\ chains' = chains \ {chain}
    /\ cq' = cq \cup {Completion(DrainAt(p), k)}
    /\ faulted' = IF k = LenAt(p[2]) THEN faulted ELSE faulted \cup {p[1]}

(* The kernel executes the fill or the drain of one place. *)
LEMMA ExecuteCases ==
    ASSUME IInv, NEW chain \in chains, Execute(chain)
    PROVE  /\ faults' \in 0 .. MaxFaults
           /\ \E p \in Places : \E k \in Results(p) :
                  FillRun(p, k, chain) \/ DrainRun(p, k, chain)
<1>. DEFINE e == chain[1]
            most == Movable(e)
            Effect(k) ==
              /\ k # 0
              /\ IF k = most THEN UNCHANGED faults
                             ELSE faults < MaxFaults /\ faults' = faults + 1
              /\ faulted' = IF k = e.len THEN faulted ELSE faulted \cup {e.d}
              /\ IF k > 0 THEN Move(e, k) ELSE UNCHANGED <<pipe, content>>
              /\ chains' = Advance(chains, chain, k = e.len)
              /\ cq' = cq \cup {Completion(e, k)}
                          \cup {Completion(x, -1) : x \in Severed(chain, k = e.len)}
              /\ succeeded' = IF e.op = "drain" /\ k = e.len
                              THEN succeeded \cup {<<e.d, e.off>>} ELSE succeeded
<1>1. PICK k \in -1 .. most : Effect(k)
  BY DEF Execute
<1>2. PICK p \in Places : chain = PairAt(p) \/ chain = RestAt(p)
  BY DEF IInv, Queues, WellFormed
<1>3. faults' \in 0 .. MaxFaults
  BY <1>1, Constants DEF IInv, TypeOK
<1>4. /\ p[1] \in Outputs /\ p[2] \in Starts /\ LenAt(p[2]) \in Nat \ {0}
      /\ pipe[p[1]] \in Seq(Offsets) /\ Len(pipe[p[1]]) \in Nat
  <2>1. p[1] \in Outputs /\ p[2] \in Starts
    BY EntryFields
  <2>2. pipe[p[1]] \in Seq(Offsets)
    BY <2>1 DEF IInv, TypeOK
  <2>. QED
    BY <2>1, <2>2, ChunkLength, LenProperties, Constants
<1>5. CASE chain = PairAt(p)
  <2>1. /\ Len(chain) = 2 /\ e = FillAt(p) /\ Tail(chain) = RestAt(p)
        /\ {chain[i] : i \in 2 .. Len(chain)} = {DrainAt(p)}
        /\ e.op = "fill" /\ e.d = p[1] /\ e.off = p[2] /\ e.len = LenAt(p[2])
        /\ p \in PairPlaces
    BY <1>5, ChainFields, EntryFields DEF PairPlaces, PairsIn
  <2>2. most = Smaller(LenAt(p[2]), PipeSize - Len(pipe[p[1]]))
    BY <2>1 DEF Movable
  <2>. HIDE DEF most
  <2>3. k \in Int /\ k >= -1 /\ k <= LenAt(p[2]) /\ Len(pipe[p[1]]) + k <= PipeSize
    BY <1>4, <2>2, Constants DEF Smaller
  <2>4. k \in Results(p)
    BY <1>1, <1>4, <2>3 DEF Results
  <2>. HIDE DEF e
  <2>5. /\ pipe' = IF k > 0 THEN [pipe EXCEPT ![p[1]] = @ \o Units(p[2], k)] ELSE pipe
        /\ UNCHANGED <<content, succeeded>>
    BY <1>1, <2>1 DEF Move, Units
  <2>6. CASE k = LenAt(p[2])
    <3>1. chains' = (chains \ {chain}) \cup {RestAt(p)}
      <4>1. chains' = Advance(chains, chain, TRUE)
        BY <1>1, <2>1, <2>6
      <4>2. Len(chain) > 1 /\ Tail(chain) = RestAt(p)
        BY <2>1
      <4>. QED
        BY <4>1, <4>2, Zenon DEF Advance
    <3>2. Severed(chain, TRUE) = {}
      BY DEF Severed
    <3>3. cq' = cq \cup {Completion(FillAt(p), k)}
      BY <1>1, <2>1, <2>6, <3>2
    <3>4. UNCHANGED faulted
      BY <1>1, <2>1, <2>6
    <3>5. FillRun(p, k, chain)
      BY <1>5, <2>1, <2>3, <2>5, <2>6, <3>1, <3>3, <3>4 DEF FillRun
    <3>. QED
      BY <1>3, <2>4, <3>5
  <2>7. CASE k # LenAt(p[2])
    <3>1. chains' = chains \ {chain}
      BY <1>1, <2>1, <2>7 DEF Advance
    <3>2. Severed(chain, FALSE) = {DrainAt(p)}
      BY <2>1 DEF Severed
    <3>3. cq' = cq \cup {Completion(FillAt(p), k), Completion(DrainAt(p), -1)}
      <4>1. cq' = cq \cup {Completion(FillAt(p), k)}
                      \cup {Completion(x, -1) : x \in {DrainAt(p)}}
        BY <1>1, <2>1, <2>7, <3>2
      <4>. QED
        BY <4>1
    <3>4. faulted' = faulted \cup {p[1]}
      BY <1>1, <2>1, <2>7
    <3>5. FillRun(p, k, chain)
      BY <1>5, <2>1, <2>3, <2>5, <2>7, <3>1, <3>3, <3>4 DEF FillRun
    <3>. QED
      BY <1>3, <2>4, <3>5
  <2>. QED
    BY <2>6, <2>7
<1>6. CASE chain = RestAt(p)
  <2>1. /\ Len(chain) = 1 /\ e = DrainAt(p)
        /\ {chain[i] : i \in 2 .. Len(chain)} = {}
        /\ e.op = "drain" /\ e.d = p[1] /\ e.off = p[2] /\ e.len = LenAt(p[2])
        /\ p \in RestPlaces
    BY <1>6, ChainFields, EntryFields DEF RestPlaces, RestsIn
  <2>2. most = Smaller(LenAt(p[2]), Len(pipe[p[1]]))
    BY <2>1 DEF Movable
  <2>. HIDE DEF most
  <2>3. k \in Int /\ k >= -1 /\ k <= LenAt(p[2]) /\ k <= Len(pipe[p[1]])
    BY <1>4, <2>2, Constants DEF Smaller
  <2>4. k \in Results(p)
    BY <1>1, <1>4, <2>3 DEF Results
  <2>. HIDE DEF e
  <2>5. /\ pipe' = IF k > 0
                   THEN [pipe EXCEPT ![p[1]] = SubSeq(@, k + 1, Len(@))] ELSE pipe
        /\ content' = IF k > 0
                      THEN [content EXCEPT ![p[1]] =
                               [o \in Offsets |-> IF o - p[2] \in 0 .. (k - 1)
                                    THEN pipe[p[1]][o - p[2] + 1] ELSE @[o]]]
                      ELSE content
    BY <1>1, <2>1 DEF Move
  <2>6. chains' = chains \ {chain}
    BY <1>1, <2>1 DEF Advance
  <2>7. cq' = cq \cup {Completion(DrainAt(p), k)}
    <3>1. Severed(chain, k = e.len) = {}
      BY <2>1 DEF Severed
    <3>. QED
      BY <1>1, <2>1, <3>1
  <2>8. faulted' = IF k = LenAt(p[2]) THEN faulted ELSE faulted \cup {p[1]}
    BY <1>1, <2>1
  <2>9. DrainRun(p, k, chain)
    BY <1>6, <2>1, <2>3, <2>5, <2>6, <2>7, <2>8 DEF DrainRun
  <2>. QED
    BY <1>3, <2>4, <2>9
<1>. QED
  BY <1>2, <1>5, <1>6

-----------------------------------------------------------------------------
(* What a chain executed leaves in the kernel. *)
LEMMA ChainsLeft ==
    ASSUME NEW S, WellFormed(S), NEW p \in Places
    PROVE  /\ WellFormed(S \ {PairAt(p)}) /\ WellFormed(S \ {RestAt(p)})
           /\ WellFormed((S \ {PairAt(p)}) \cup {RestAt(p)})
           /\ PairsIn(S \ {PairAt(p)}) = PairsIn(S) \ {p}
           /\ RestsIn(S \ {PairAt(p)}) = RestsIn(S)
           /\ PairsIn((S \ {PairAt(p)}) \cup {RestAt(p)}) = PairsIn(S) \ {p}
           /\ RestsIn((S \ {PairAt(p)}) \cup {RestAt(p)}) = RestsIn(S) \cup {p}
           /\ PairsIn(S \ {RestAt(p)}) = PairsIn(S)
           /\ RestsIn(S \ {RestAt(p)}) = RestsIn(S) \ {p}
<1>1. /\ WellFormed(S \ {PairAt(p)}) /\ WellFormed(S \ {RestAt(p)})
      /\ WellFormed((S \ {PairAt(p)}) \cup {RestAt(p)})
  BY DEF WellFormed
<1>2. /\ PairsIn(S \ {PairAt(p)}) = PairsIn(S) \ {p}
      /\ PairsIn((S \ {PairAt(p)}) \cup {RestAt(p)}) = PairsIn(S) \ {p}
      /\ PairsIn(S \ {RestAt(p)}) = PairsIn(S)
  BY ChainsDiffer DEF PairsIn
<1>3. /\ RestsIn(S \ {PairAt(p)}) = RestsIn(S)
      /\ RestsIn((S \ {PairAt(p)}) \cup {RestAt(p)}) = RestsIn(S) \cup {p}
      /\ RestsIn(S \ {RestAt(p)}) = RestsIn(S) \ {p}
  BY ChainsDiffer DEF RestsIn
<1>. QED
  BY <1>1, <1>2, <1>3

(* The entries the kernel has left when one was executed. *)
LEMMA EntriesLeft ==
    ASSUME NEW S, WellFormed(S), PairsIn(S) \cap RestsIn(S) = {}, NEW p \in Places
    PROVE  /\ p \in PairsIn(S) =>
                  /\ {FillAt(p), DrainAt(p)} \subseteq EntriesIn(S)
                  /\ EntriesIn(S \ {PairAt(p)}) =
                         (EntriesIn(S) \ {FillAt(p)}) \ {DrainAt(p)}
                  /\ EntriesIn((S \ {PairAt(p)}) \cup {RestAt(p)}) =
                         EntriesIn(S) \ {FillAt(p)}
           /\ p \in RestsIn(S) =>
                  /\ DrainAt(p) \in EntriesIn(S)
                  /\ EntriesIn(S \ {RestAt(p)}) = EntriesIn(S) \ {DrainAt(p)}
<1>1. EntriesIn(S) = {FillAt(q) : q \in PairsIn(S)}
                         \cup {DrainAt(q) : q \in PairsIn(S) \cup RestsIn(S)}
  BY KernelEntries
<1>2. PairsIn(S) \subseteq Places /\ RestsIn(S) \subseteq Places
  BY DEF PairsIn, RestsIn
<1>3. EntriesIn(S \ {PairAt(p)}) = {FillAt(q) : q \in PairsIn(S) \ {p}}
          \cup {DrainAt(q) : q \in (PairsIn(S) \ {p}) \cup RestsIn(S)}
  <2>. DEFINE T == S \ {PairAt(p)}
  <2>1. WellFormed(T) /\ PairsIn(T) = PairsIn(S) \ {p} /\ RestsIn(T) = RestsIn(S)
    BY ChainsLeft
  <2>. HIDE DEF T
  <2>2. EntriesIn(T) = {FillAt(q) : q \in PairsIn(T)}
                           \cup {DrainAt(q) : q \in PairsIn(T) \cup RestsIn(T)}
    BY <2>1, KernelEntries
  <2>. QED
    BY <2>1, <2>2 DEF T
<1>4. EntriesIn((S \ {PairAt(p)}) \cup {RestAt(p)}) =
          {FillAt(q) : q \in PairsIn(S) \ {p}}
              \cup {DrainAt(q) : q \in (PairsIn(S) \ {p}) \cup (RestsIn(S) \cup {p})}
  <2>. DEFINE T == (S \ {PairAt(p)}) \cup {RestAt(p)}
  <2>1. /\ WellFormed(T) /\ PairsIn(T) = PairsIn(S) \ {p}
        /\ RestsIn(T) = RestsIn(S) \cup {p}
    BY ChainsLeft
  <2>. HIDE DEF T
  <2>2. EntriesIn(T) = {FillAt(q) : q \in PairsIn(T)}
                           \cup {DrainAt(q) : q \in PairsIn(T) \cup RestsIn(T)}
    BY <2>1, KernelEntries
  <2>. QED
    BY <2>1, <2>2 DEF T
<1>5. EntriesIn(S \ {RestAt(p)}) = {FillAt(q) : q \in PairsIn(S)}
          \cup {DrainAt(q) : q \in PairsIn(S) \cup (RestsIn(S) \ {p})}
  <2>. DEFINE T == S \ {RestAt(p)}
  <2>1. WellFormed(T) /\ PairsIn(T) = PairsIn(S) /\ RestsIn(T) = RestsIn(S) \ {p}
    BY ChainsLeft
  <2>. HIDE DEF T
  <2>2. EntriesIn(T) = {FillAt(q) : q \in PairsIn(T)}
                           \cup {DrainAt(q) : q \in PairsIn(T) \cup RestsIn(T)}
    BY <2>1, KernelEntries
  <2>. QED
    BY <2>1, <2>2 DEF T
<1>6. CASE p \in PairsIn(S)
  <2>1. {FillAt(p), DrainAt(p)} \subseteq EntriesIn(S)
    BY <1>1, <1>6
  <2>2. EntriesIn(S \ {PairAt(p)}) = (EntriesIn(S) \ {FillAt(p)}) \ {DrainAt(p)}
    BY <1>1, <1>2, <1>3, <1>6, EntriesDiffer
  <2>3. EntriesIn((S \ {PairAt(p)}) \cup {RestAt(p)}) = EntriesIn(S) \ {FillAt(p)}
    <3>1. (PairsIn(S) \ {p}) \cup (RestsIn(S) \cup {p}) = PairsIn(S) \cup RestsIn(S)
      BY <1>6
    <3>2. {FillAt(q) : q \in PairsIn(S) \ {p}} = {FillAt(q) : q \in PairsIn(S)} \ {FillAt(p)}
      BY <1>2, EntriesDiffer
    <3>3. FillAt(p) \notin {DrainAt(q) : q \in PairsIn(S) \cup RestsIn(S)}
      BY <1>2, EntriesDiffer
    <3>. QED
      BY <1>1, <1>4, <3>1, <3>2, <3>3
  <2>. QED
    BY <1>6, <2>1, <2>2, <2>3
<1>7. CASE p \in RestsIn(S)
  <2>1. DrainAt(p) \in EntriesIn(S)
    BY <1>1, <1>7
  <2>2. EntriesIn(S \ {RestAt(p)}) = EntriesIn(S) \ {DrainAt(p)}
    BY <1>1, <1>2, <1>5, <1>7, EntriesDiffer
  <2>. QED
    BY <1>7, <2>1, <2>2
<1>. QED
  BY <1>6, <1>7

(* An entry under way has not completed. *)
LEMMA NotCompleted ==
    ASSUME IInv, NEW p \in PairPlaces \cup RestPlaces, NEW res
    PROVE  /\ Completion(DrainAt(p), res) \notin cq
           /\ \A x \in cq : ~(x.op = "drain" /\ x.d = p[1] /\ x.off = p[2])
           /\ p \in PairPlaces =>
                /\ Completion(FillAt(p), res) \notin cq
                /\ \A x \in cq : ~(x.op = "fill" /\ x.d = p[1] /\ x.off = p[2])
<1>1. p \in Places
  BY DEF PairPlaces, RestPlaces, PairsIn, RestsIn
<1>2. ASSUME NEW x \in cq, x.d = p[1], x.off = p[2]
      PROVE  x.op = "fill" /\ p \notin PairPlaces
  <2>1. PICK q \in Places : \/ FillDone(x, q) /\ q \notin SqPlaces \cup PairPlaces
                            \/ DrainDone(x, q) /\ q \notin Pending
    BY DEF IInv, Completed
  <2>2. q = p
    <3>1. q[1] = p[1] /\ q[2] = p[2]
      BY <1>2, <2>1, FillSpan, DrainSpan
    <3>. QED
      BY <1>1, <3>1, EntryFields
  <2>. QED
    BY <2>1, <2>2, FillSpan DEF Pending
<1>3. /\ Completion(DrainAt(p), res).op = "drain"
      /\ Completion(DrainAt(p), res).d = p[1] /\ Completion(DrainAt(p), res).off = p[2]
      /\ Completion(FillAt(p), res).op = "fill"
      /\ Completion(FillAt(p), res).d = p[1] /\ Completion(FillAt(p), res).off = p[2]
  BY <1>1, EntryFields DEF Completion
<1>. QED
  BY <1>2, <1>3

(* What Execute does to the places of pairs and completions. *)
LEMMA ExecutePlaces ==
    ASSUME IInv, NEW chain \in chains, NEW p \in Places, NEW k \in Results(p),
           FillRun(p, k, chain) \/ DrainRun(p, k, chain),
           UNCHANGED <<pc, total_processed, expected_cqes, sq>>
    PROVE  /\ Queues' /\ Completed' /\ Counts'
           /\ SqPlaces' = SqPlaces /\ Pending' \subseteq Pending
           /\ \/ /\ FillRun(p, k, chain) /\ k = LenAt(p[2])
                 /\ Pending' = Pending
                 /\ RestPlaces' = RestPlaces \cup {p} /\ p \notin RestPlaces
              \/ /\ FillRun(p, k, chain) /\ k # LenAt(p[2])
                 /\ Pending' = Pending \ {p} /\ RestPlaces' = RestPlaces
              \/ /\ DrainRun(p, k, chain)
                 /\ Pending' = Pending \ {p}
                 /\ RestPlaces' = RestPlaces \ {p} /\ p \in RestPlaces
<1>1. /\ Paired(sq) /\ WellFormed(chains) /\ (pc # "prepare" => sq = <<>>)
      /\ SqPlaces \cap PairPlaces = {} /\ SqPlaces \cap RestPlaces = {}
      /\ PairPlaces \cap RestPlaces = {}
      /\ SqPlaces' = SqPlaces
  BY DEF IInv, Queues, SqPlaces
<1>2. /\ IsFiniteSet(cq) /\ IsFiniteSet(EntriesIn(chains))
      /\ expected_cqes = Len(sq) + Cardinality(cq) + Cardinality(EntriesIn(chains))
  BY KernelSets DEF IInv, Counts, ExpectedOutstanding
<1>3. Len(sq) \in Nat /\ Cardinality(cq) \in Nat /\ Cardinality(EntriesIn(chains)) \in Nat
  BY <1>1, <1>2, FS_CardinalityType, LenProperties DEF Paired
<1>4. ASSUME WellFormed(chains'), IsFiniteSet(cq'), IsFiniteSet(EntriesIn(chains')),
             PairPlaces' \subseteq PairPlaces,
             RestPlaces' \subseteq RestPlaces \cup (PairPlaces \ PairPlaces'),
             Cardinality(cq') + Cardinality(EntriesIn(chains')) =
                 Cardinality(cq) + Cardinality(EntriesIn(chains))
      PROVE  Queues' /\ Counts' /\ Pending' \subseteq Pending
  <2>1. Queues'
    BY <1>1, <1>4 DEF Queues
  <2>2. Cardinality(cq') \in Nat /\ Cardinality(EntriesIn(chains')) \in Nat
    BY <1>4, FS_CardinalityType
  <2>3. expected_cqes' = Len(sq') + Cardinality(cq') + Cardinality(EntriesIn(chains'))
    BY <1>2, <1>3, <1>4, <2>2
  <2>4. Counts'
    BY <1>4, <2>3, KernelSetsNext DEF Counts, ExpectedOutstanding
  <2>. QED
    BY <1>1, <1>4, <2>1, <2>4 DEF Pending
<1>5. ASSUME PairPlaces' \subseteq PairPlaces, Pending' \subseteq Pending,
             NEW new, cq' = cq \cup new,
             \A x \in new : \/ FillDone(x, p) /\ p \in PairPlaces /\ p \notin PairPlaces'
                            \/ DrainDone(x, p) /\ p \notin Pending'
                                /\ p \in PairPlaces \cup RestPlaces,
             \A x, y \in new : x.op = y.op => x = y
      PROVE  Completed'
  <2>1. ASSUME NEW x \in cq'
        PROVE  \E q \in Places : \/ FillDone(x, q) /\ q \notin (SqPlaces \cup PairPlaces)'
                                 \/ DrainDone(x, q) /\ q \notin Pending'
    <3>1. CASE x \in cq
      BY <1>1, <1>5, <3>1 DEF IInv, Completed
    <3>2. CASE x \in new
      BY <1>1, <1>5, <3>2
    <3>. QED
      BY <1>5, <3>1, <3>2
  <2>2. ASSUME NEW x \in cq, NEW y \in new, x.op = y.op, x.d = y.d, x.off = y.off
        PROVE  FALSE
    <3>1. CASE FillDone(y, p) /\ p \in PairPlaces
      BY <2>2, <3>1, FillSpan, NotCompleted
    <3>2. CASE DrainDone(y, p) /\ p \in PairPlaces \cup RestPlaces
      BY <2>2, <3>2, DrainSpan, NotCompleted
    <3>. QED
      BY <1>5, <3>1, <3>2
  <2>3. \A x, y \in cq' : x.op = y.op /\ x.d = y.d /\ x.off = y.off => x = y
    <3>1. ASSUME NEW x \in cq', NEW y \in cq', x.op = y.op, x.d = y.d, x.off = y.off
          PROVE  x = y
      <4>1. CASE x \in cq /\ y \in cq
        BY <3>1, <4>1 DEF IInv, Completed
      <4>. QED
        BY <1>5, <2>2, <3>1, <4>1
    <3>. QED
      BY <3>1
  <2>. QED
    BY <2>1, <2>3 DEF Completed
<1>6. -1 \in Results(p)
  BY DEF Results
<1>7. CASE FillRun(p, k, chain) /\ k = LenAt(p[2])
  <2>1. /\ p \in PairPlaces /\ p \notin RestPlaces /\ p \notin SqPlaces
        /\ chains' = (chains \ {PairAt(p)}) \cup {RestAt(p)}
        /\ cq' = cq \cup {Completion(FillAt(p), k)}
    BY <1>1, <1>7 DEF FillRun
  <2>2. /\ WellFormed(chains') /\ PairPlaces' = PairPlaces \ {p}
        /\ RestPlaces' = RestPlaces \cup {p}
    BY <1>1, <2>1, ChainsLeft DEF PairPlaces, RestPlaces
  <2>3. /\ EntriesIn(chains') = EntriesIn(chains) \ {FillAt(p)}
        /\ FillAt(p) \in EntriesIn(chains)
    BY <1>1, <2>1, EntriesLeft DEF PairPlaces, RestPlaces
  <2>4. /\ IsFiniteSet(EntriesIn(chains'))
        /\ Cardinality(EntriesIn(chains')) = Cardinality(EntriesIn(chains)) - 1
    BY <1>2, <2>3, FS_RemoveElement
  <2>5. Completion(FillAt(p), k) \notin cq
    BY <2>1, NotCompleted
  <2>6. IsFiniteSet(cq') /\ Cardinality(cq') = Cardinality(cq) + 1
    BY <1>2, <2>1, <2>5, FS_AddElement
  <2>7. Cardinality(cq') + Cardinality(EntriesIn(chains')) =
            Cardinality(cq) + Cardinality(EntriesIn(chains))
    BY <1>3, <2>4, <2>6
  <2>8. Queues' /\ Counts' /\ Pending' = Pending
    BY <1>1, <1>4, <2>1, <2>2, <2>4, <2>6, <2>7 DEF Pending
  <2>9. Completed'
    <3>1. FillDone(Completion(FillAt(p), k), p)
      BY DEF FillDone
    <3>. DEFINE new == {Completion(FillAt(p), k)}
    <3>2. \A x \in new : \/ FillDone(x, p) /\ p \in PairPlaces /\ p \notin PairPlaces'
                         \/ DrainDone(x, p) /\ p \notin Pending'
                             /\ p \in PairPlaces \cup RestPlaces
      BY <2>1, <2>2, <3>1
    <3>3. \A x, y \in new : x.op = y.op => x = y
      BY Zenon
    <3>4. cq' = cq \cup new /\ PairPlaces' \subseteq PairPlaces /\ Pending' \subseteq Pending
      BY <2>1, <2>2, <2>8
    <3>. HIDE DEF new
    <3>. QED
      BY <1>5, <3>2, <3>3, <3>4
  <2>. QED
    BY <1>1, <1>7, <2>1, <2>2, <2>8, <2>9
<1>8. CASE FillRun(p, k, chain) /\ k # LenAt(p[2])
  <2>1. /\ p \in PairPlaces /\ p \notin RestPlaces /\ p \notin SqPlaces
        /\ chains' = chains \ {PairAt(p)}
        /\ cq' = cq \cup {Completion(FillAt(p), k), Completion(DrainAt(p), -1)}
    BY <1>1, <1>8 DEF FillRun
  <2>2. /\ WellFormed(chains') /\ PairPlaces' = PairPlaces \ {p}
        /\ RestPlaces' = RestPlaces
    BY <1>1, <2>1, ChainsLeft DEF PairPlaces, RestPlaces
  <2>3. /\ EntriesIn(chains') = (EntriesIn(chains) \ {FillAt(p)}) \ {DrainAt(p)}
        /\ FillAt(p) \in EntriesIn(chains) /\ DrainAt(p) \in EntriesIn(chains)
        /\ FillAt(p) # DrainAt(p)
    BY <1>1, <2>1, EntriesLeft, EntriesDiffer DEF PairPlaces, RestPlaces
  <2>4. /\ IsFiniteSet(EntriesIn(chains) \ {FillAt(p)})
        /\ Cardinality(EntriesIn(chains) \ {FillAt(p)}) = Cardinality(EntriesIn(chains)) - 1
    BY <1>2, <2>3, FS_RemoveElement
  <2>5. /\ IsFiniteSet(EntriesIn(chains'))
        /\ Cardinality(EntriesIn(chains')) =
               Cardinality(EntriesIn(chains) \ {FillAt(p)}) - 1
    BY <2>3, <2>4, FS_RemoveElement
  <2>6. /\ Completion(FillAt(p), k) \notin cq /\ Completion(DrainAt(p), -1) \notin cq
        /\ Completion(FillAt(p), k).op = "fill"
        /\ Completion(DrainAt(p), -1).op = "drain"
    BY <1>6, <2>1, NotCompleted, CompletionFields
  <2>7. /\ IsFiniteSet(cq \cup {Completion(FillAt(p), k)})
        /\ Cardinality(cq \cup {Completion(FillAt(p), k)}) = Cardinality(cq) + 1
    BY <1>2, <2>6, FS_AddElement
  <2>8. /\ cq' = (cq \cup {Completion(FillAt(p), k)}) \cup {Completion(DrainAt(p), -1)}
        /\ Completion(DrainAt(p), -1) \notin cq \cup {Completion(FillAt(p), k)}
    BY <2>1, <2>6
  <2>9. /\ IsFiniteSet(cq')
        /\ Cardinality(cq') = Cardinality(cq \cup {Completion(FillAt(p), k)}) + 1
    BY <2>7, <2>8, FS_AddElement
  <2>10. Cardinality(cq') + Cardinality(EntriesIn(chains')) =
             Cardinality(cq) + Cardinality(EntriesIn(chains))
    <3>1. /\ Cardinality(cq') = Cardinality(cq) + 2
          /\ Cardinality(EntriesIn(chains')) = Cardinality(EntriesIn(chains)) - 2
      BY <1>3, <2>4, <2>5, <2>7, <2>9
    <3>. QED
      BY <1>3, <3>1
  <2>11. Queues' /\ Counts' /\ Pending' = Pending \ {p}
    BY <1>1, <1>4, <2>1, <2>2, <2>5, <2>9, <2>10 DEF Pending
  <2>12. Completed'
    <3>1. FillDone(Completion(FillAt(p), k), p) /\ DrainDone(Completion(DrainAt(p), -1), p)
      BY <1>6 DEF FillDone, DrainDone
    <3>. DEFINE new == {Completion(FillAt(p), k), Completion(DrainAt(p), -1)}
    <3>2. \A x \in new : \/ FillDone(x, p) /\ p \in PairPlaces /\ p \notin PairPlaces'
                         \/ DrainDone(x, p) /\ p \notin Pending'
                             /\ p \in PairPlaces \cup RestPlaces
      BY <2>1, <2>2, <2>11, <3>1
    <3>3. \A x, y \in new : x.op = y.op => x = y
      BY <2>6
    <3>4. cq' = cq \cup new /\ PairPlaces' \subseteq PairPlaces /\ Pending' \subseteq Pending
      BY <2>1, <2>2, <2>11
    <3>. HIDE DEF new
    <3>. QED
      BY <1>5, <3>2, <3>3, <3>4
  <2>. QED
    BY <1>1, <1>8, <2>2, <2>11, <2>12
<1>9. CASE DrainRun(p, k, chain)
  <2>1. /\ p \in RestPlaces /\ p \notin PairPlaces /\ p \notin SqPlaces
        /\ chains' = chains \ {RestAt(p)}
        /\ cq' = cq \cup {Completion(DrainAt(p), k)}
    BY <1>1, <1>9 DEF DrainRun
  <2>2. /\ WellFormed(chains') /\ PairPlaces' = PairPlaces
        /\ RestPlaces' = RestPlaces \ {p}
    BY <1>1, <2>1, ChainsLeft DEF PairPlaces, RestPlaces
  <2>3. /\ EntriesIn(chains') = EntriesIn(chains) \ {DrainAt(p)}
        /\ DrainAt(p) \in EntriesIn(chains)
    BY <1>1, <2>1, EntriesLeft DEF PairPlaces, RestPlaces
  <2>4. /\ IsFiniteSet(EntriesIn(chains'))
        /\ Cardinality(EntriesIn(chains')) = Cardinality(EntriesIn(chains)) - 1
    BY <1>2, <2>3, FS_RemoveElement
  <2>5. Completion(DrainAt(p), k) \notin cq
    BY <2>1, NotCompleted
  <2>6. IsFiniteSet(cq') /\ Cardinality(cq') = Cardinality(cq) + 1
    BY <1>2, <2>1, <2>5, FS_AddElement
  <2>7. Cardinality(cq') + Cardinality(EntriesIn(chains')) =
            Cardinality(cq) + Cardinality(EntriesIn(chains))
    BY <1>3, <2>4, <2>6
  <2>8. Queues' /\ Counts' /\ Pending' = Pending \ {p}
    BY <1>1, <1>4, <2>1, <2>2, <2>4, <2>6, <2>7 DEF Pending
  <2>9. Completed'
    <3>1. DrainDone(Completion(DrainAt(p), k), p)
      BY DEF DrainDone
    <3>. DEFINE new == {Completion(DrainAt(p), k)}
    <3>2. \A x \in new : \/ FillDone(x, p) /\ p \in PairPlaces /\ p \notin PairPlaces'
                         \/ DrainDone(x, p) /\ p \notin Pending'
                             /\ p \in PairPlaces \cup RestPlaces
      BY <2>1, <2>2, <2>8, <3>1
    <3>3. \A x, y \in new : x.op = y.op => x = y
      BY Zenon
    <3>4. cq' = cq \cup new /\ PairPlaces' \subseteq PairPlaces /\ Pending' \subseteq Pending
      BY <2>1, <2>2, <2>8
    <3>. HIDE DEF new
    <3>. QED
      BY <1>5, <3>2, <3>3, <3>4
  <2>. QED
    BY <1>1, <1>9, <2>1, <2>2, <2>8, <2>9
<1>. QED
  BY <1>7, <1>8, <1>9

-----------------------------------------------------------------------------
Moved(k) == IF k > 0 THEN k ELSE 0

(* What is in the pipe of p after its entry was executed. *)
LEMMA PipeAfter ==
    ASSUME IInv, NEW chain, NEW p \in Places, NEW k \in Results(p),
           FillRun(p, k, chain) \/ DrainRun(p, k, chain)
    PROVE  /\ pipe' \in [Outputs -> Seq(Offsets)]
           /\ \A e \in Outputs : e # p[1] => pipe'[e] = pipe[e]
           /\ Len(pipe'[p[1]]) <= PipeSize
           /\ FillRun(p, k, chain) =>
                  /\ Len(pipe'[p[1]]) = Len(pipe[p[1]]) + Moved(k)
                  /\ k > 0 => pipe'[p[1]] = pipe[p[1]] \o Units(p[2], k)
           /\ DrainRun(p, k, chain) =>
                  /\ Len(pipe'[p[1]]) = Len(pipe[p[1]]) - Moved(k)
                  /\ k <= Len(pipe[p[1]])
<1>. DEFINE d == p[1]
            q == pipe[d]
            l == Len(q)
<1>1. /\ d \in Outputs /\ p[2] \in Starts /\ p[2] \in Nat
      /\ LenAt(p[2]) \in Nat \ {0} /\ p[2] + LenAt(p[2]) <= FileSize
      /\ k \in Int /\ k <= LenAt(p[2])
  BY EntryFields, ChunkLength, CompletionFields, Constants
<1>2. /\ pipe \in [Outputs -> Seq(Offsets)]
      /\ q \in Seq(Offsets) /\ l \in Nat /\ l <= PipeSize
  <2>1. /\ pipe \in [Outputs -> Seq(Offsets)]
        /\ q \in Seq(Offsets) /\ l <= PipeSize
    BY <1>1 DEF IInv, TypeOK
  <2>. QED
    BY <2>1, LenProperties
<1>3. ASSUME NEW s \in Seq(Offsets), Len(s) <= PipeSize, pipe' = [pipe EXCEPT ![d] = s]
      PROVE  /\ pipe' \in [Outputs -> Seq(Offsets)] /\ pipe'[d] = s
             /\ \A e \in Outputs : e # d => pipe'[e] = pipe[e]
  BY <1>1, <1>2, <1>3
<1>4. CASE ~(k > 0)
  <2>1. pipe' = pipe /\ Moved(k) = 0
    BY <1>4 DEF FillRun, DrainRun, Moved
  <2>2. DrainRun(p, k, chain) => k <= l
    BY DEF DrainRun
  <2>3. l = l + 0 /\ l = l - 0
    BY <1>2
  <2>. HIDE DEF l
  <2>4. Len(pipe'[d]) = l + Moved(k) /\ Len(pipe'[d]) = l - Moved(k)
    BY <2>1, <2>3 DEF l
  <2>. QED
    BY <1>2, <1>4, <2>1, <2>2, <2>4 DEF l
<1>5. CASE FillRun(p, k, chain) /\ k > 0
  <2>. DEFINE s == q \o Units(p[2], k)
  <2>1. pipe' = [pipe EXCEPT ![d] = s] /\ l + k <= PipeSize /\ Moved(k) = k
    BY <1>5 DEF FillRun, Moved
  <2>2. Units(p[2], k) \in Seq(Offsets) /\ Len(Units(p[2], k)) = k
    <3>1. k \in Nat
      BY <1>1, <1>5
    <3>2. \A i \in 1 .. k : p[2] + i - 1 \in Offsets
      BY <1>1, Constants DEF Offsets
    <3>3. Units(p[2], k) \in [1 .. k -> Offsets]
      BY <3>2 DEF Units
    <3>. QED
      BY <3>1, <3>3
  <2>3. s \in Seq(Offsets) /\ Len(s) = l + k
    <3>. DEFINE u == Units(p[2], k)
    <3>1. q \in Seq(Offsets) /\ u \in Seq(Offsets) /\ Len(q) = l /\ Len(u) = k
      BY <1>2, <2>2
    <3>. HIDE DEF q, u, l
    <3>2. q \o u \in Seq(Offsets) /\ Len(q \o u) = Len(q) + Len(u)
      BY <3>1, ConcatProperties
    <3>. QED
      BY <3>1, <3>2 DEF u
  <2>4. pipe' = [pipe EXCEPT ![d] = s] /\ pipe'[d] = s /\ Len(s) = l + k
        /\ pipe' \in [Outputs -> Seq(Offsets)]
        /\ \A e \in Outputs : e # d => pipe'[e] = pipe[e]
    <3>. HIDE DEF s
    <3>. QED
      BY <1>3, <2>1, <2>3
  <2>5. ~DrainRun(p, k, chain)
    BY <1>5, ChainsDiffer DEF FillRun, DrainRun
  <2>. QED
    BY <2>1, <2>4, <2>5
<1>6. CASE DrainRun(p, k, chain) /\ k > 0
  <2>. DEFINE s == SubSeq(q, k + 1, l)
  <2>1. pipe' = [pipe EXCEPT ![d] = s] /\ k <= l /\ Moved(k) = k
    BY <1>6 DEF DrainRun, Moved
  <2>2. s \in Seq(Offsets) /\ Len(s) = l - k
    <3>1. \A i \in (k + 1) .. l : q[i] \in Offsets
      BY <1>1, <1>2, <1>6, ElementOfSeq
    <3>2. k + 1 \in Int /\ l \in Int
      BY <1>1, <1>2
    <3>3. /\ SubSeq(q, k + 1, l) \in Seq(Offsets)
          /\ Len(SubSeq(q, k + 1, l)) = IF k + 1 <= l THEN l - (k + 1) + 1 ELSE 0
      BY <3>1, <3>2, SubSeqProperties
    <3>4. (IF k + 1 <= l THEN l - (k + 1) + 1 ELSE 0) = l - k
      BY <1>1, <1>2, <2>1
    <3>. QED
      BY <3>3, <3>4
  <2>3. Len(s) <= PipeSize
    BY <1>1, <1>2, <1>6, <2>2, Constants
  <2>4. pipe'[d] = s /\ pipe' \in [Outputs -> Seq(Offsets)]
        /\ \A e \in Outputs : e # d => pipe'[e] = pipe[e]
    <3>. HIDE DEF s
    <3>. QED
      BY <1>3, <2>1, <2>2, <2>3
  <2>5. ~FillRun(p, k, chain)
    BY <1>6, ChainsDiffer DEF FillRun, DrainRun
  <2>. QED
    BY <2>1, <2>2, <2>3, <2>4, <2>5
<1>. QED
  BY <1>4, <1>5, <1>6

(* What a drain writes. *)
LEMMA ContentAfter ==
    ASSUME IInv, NEW chain, NEW p \in Places, NEW k \in Results(p),
           DrainRun(p, k, chain)
    PROVE  /\ content' \in [Outputs -> [Offsets -> Offsets \cup {Hole}]]
           /\ \A e \in Outputs, o \in Offsets :
                  IF <<e, o>> \in Span(Completion(DrainAt(p), k))
                  THEN /\ o - p[2] + 1 \in 1 .. k
                       /\ content'[e][o] = pipe[e][o - p[2] + 1]
                       /\ content'[e][o] \in Offsets
                  ELSE content'[e][o] = content[e][o]
<1>. DEFINE d == p[1]
            q == pipe[d]
<1>1. /\ d \in Outputs /\ p[2] \in Nat /\ k \in Int
      /\ Completion(DrainAt(p), k).op = "drain" /\ Completion(DrainAt(p), k).d = d
      /\ Completion(DrainAt(p), k).off = p[2] /\ Completion(DrainAt(p), k).res = k
  BY EntryFields, ChunkLength, CompletionFields
<1>2. \A e \in Outputs, o \in Offsets :
          <<e, o>> \in Span(Completion(DrainAt(p), k)) <=> e = d /\ o \in p[2] .. (p[2] + k - 1)
  BY <1>1 DEF Span
<1>3. /\ q \in Seq(Offsets) /\ Len(q) \in Nat /\ k <= Len(q)
      /\ content \in [Outputs -> [Offsets -> Offsets \cup {Hole}]]
  <2>1. /\ q \in Seq(Offsets) /\ content \in [Outputs -> [Offsets -> Offsets \cup {Hole}]]
    BY <1>1 DEF IInv, TypeOK
  <2>2. k <= Len(q)
    BY DEF DrainRun
  <2>. QED
    BY <2>1, <2>2, LenProperties
<1>4. \A o \in Offsets : o - p[2] \in 0 .. (k - 1) <=> o \in p[2] .. (p[2] + k - 1)
  BY <1>1, Constants
<1>5. \A o \in Offsets : o - p[2] \in 0 .. (k - 1) =>
          o - p[2] + 1 \in 1 .. k /\ q[o - p[2] + 1] \in Offsets
  <2>1. ASSUME NEW o \in Offsets, o - p[2] \in 0 .. (k - 1)
        PROVE  o - p[2] + 1 \in 1 .. k /\ o - p[2] + 1 \in 1 .. Len(q)
    BY <1>1, <1>3, <2>1, Constants
  <2>. QED
    BY <1>3, <2>1, ElementOfSeq
<1>6. CASE k > 0
  <2>. DEFINE row == [o \in Offsets |-> IF o - p[2] \in 0 .. (k - 1)
                                         THEN q[o - p[2] + 1] ELSE content[d][o]]
  <2>1. content' = [content EXCEPT ![d] = row]
    BY <1>6 DEF DrainRun
  <2>2. row \in [Offsets -> Offsets \cup {Hole}]
    BY <1>1, <1>3, <1>5
  <2>3. \A o \in Offsets : IF o - p[2] \in 0 .. (k - 1)
                           THEN row[o] = q[o - p[2] + 1] ELSE row[o] = content[d][o]
    OBVIOUS
  <2>. HIDE DEF row
  <2>4. /\ content' \in [Outputs -> [Offsets -> Offsets \cup {Hole}]]
        /\ content'[d] = row
        /\ \A e \in Outputs : e # d => content'[e] = content[e]
    BY <1>1, <1>3, <2>1, <2>2
  <2>5. ASSUME NEW e \in Outputs, NEW o \in Offsets
        PROVE  IF <<e, o>> \in Span(Completion(DrainAt(p), k))
               THEN /\ o - p[2] + 1 \in 1 .. k
                    /\ content'[e][o] = pipe[e][o - p[2] + 1]
                    /\ content'[e][o] \in Offsets
               ELSE content'[e][o] = content[e][o]
    <3>1. CASE <<e, o>> \in Span(Completion(DrainAt(p), k))
      <4>1. e = d /\ o - p[2] \in 0 .. (k - 1)
        BY <1>2, <1>4, <3>1
      <4>. QED
        BY <1>5, <2>3, <2>4, <3>1, <4>1
    <3>2. CASE <<e, o>> \notin Span(Completion(DrainAt(p), k))
      <4>1. e # d \/ ~(o - p[2] \in 0 .. (k - 1))
        BY <1>2, <1>4, <3>2
      <4>. QED
        BY <2>3, <2>4, <3>2, <4>1
    <3>. QED
      BY <3>1, <3>2
  <2>. QED
    BY <2>4, <2>5
<1>7. CASE ~(k > 0)
  <2>1. content' = content
    BY <1>7 DEF DrainRun
  <2>2. \A o \in Offsets : o \notin p[2] .. (p[2] + k - 1)
    BY <1>1, <1>7, Constants
  <2>. QED
    BY <1>2, <1>3, <2>1, <2>2
<1>. QED
  BY <1>6, <1>7

-----------------------------------------------------------------------------
(* An offset is queued when its chunk is. *)
LEMMA QueuedOffsets ==
    ASSUME IInv, NEW o \in Offsets
    PROVE  /\ o < total_processed <=> StartOf(o) < total_processed
           /\ StartOf(o) \in Starts /\ StartOf(o) \in Nat
<1>1. /\ StartOf(o) \in Starts /\ StartOf(o) <= o /\ StartOf(o) \in Nat
      /\ o \in Nat /\ o < FileSize
  BY StartsAreStarts, Constants DEF Starts
<1>2. total_processed \in 0 .. FileSize
      /\ (total_processed < FileSize => total_processed \in Starts)
  BY DEF IInv, TypeOK, Progress
<1>3. CASE total_processed \in Starts
  BY <1>1, <1>3, InChunk
<1>4. CASE ~(total_processed < FileSize)
  BY <1>1, <1>2, <1>4, Constants
<1>. QED
  BY <1>1, <1>2, <1>3, <1>4

(* What is pending is a place. *)
LEMMA PendingPlaces ==
    ASSUME NEW p \in Pending
    PROVE  p \in Places
  BY DEF Pending, SqPlaces, PairPlaces, RestPlaces, PlacesOf, PairsIn, RestsIn

(* The drains that are ready, before and after. *)
LEMMA ReadyAfter ==
    ASSUME IInv, WellFormed(chains'), NEW p \in Places
    PROVE  /\ \A d \in Outputs :
                  \/ RestPlaces' = RestPlaces
                  \/ d # p[1] /\ RestPlaces' \ {p} = RestPlaces \ {p}
                  => Ready(d)' = Ready(d)
           /\ RestPlaces' = RestPlaces \cup {p} /\ p \notin RestPlaces =>
                  Cardinality(Ready(p[1])') = Cardinality(Ready(p[1])) + LenAt(p[2])
           /\ RestPlaces' = RestPlaces \ {p} /\ p \in RestPlaces =>
                  Cardinality(Ready(p[1])') = Cardinality(Ready(p[1])) - LenAt(p[2])
<1>1. \A d \in Outputs :
          /\ Ready(d) = {o \in Offsets : <<d, StartOf(o)>> \in RestPlaces}
          /\ Ready(d)' = {o \in Offsets : <<d, StartOf(o)>> \in RestPlaces'}
  <2>1. ASSUME NEW d \in Outputs
        PROVE  /\ ReadyIn(chains, d) = {o \in Offsets : <<d, StartOf(o)>> \in RestsIn(chains)}
               /\ ReadyIn(chains', d) = {o \in Offsets : <<d, StartOf(o)>> \in RestsIn(chains')}
    BY ReadyPlaces DEF IInv, Queues
  <2>. QED
    BY <2>1, KernelSets, KernelSetsNext DEF RestPlaces
<1>2. ASSUME NEW d \in Outputs, d # p[1], RestPlaces' \ {p} = RestPlaces \ {p}
      PROVE  Ready(d)' = Ready(d)
  <2>1. \A o \in Offsets : <<d, StartOf(o)>> # p
    BY <1>2
  <2>2. \A o \in Offsets : <<d, StartOf(o)>> \in RestPlaces' <=> <<d, StartOf(o)>> \in RestPlaces
    BY <1>2, <2>1
  <2>. QED
    BY <1>1, <2>2
<1>3. ASSUME NEW d \in Outputs, RestPlaces' = RestPlaces
      PROVE  Ready(d)' = Ready(d)
  BY <1>1, <1>3
<1>. DEFINE c == p[1]
            chunk == ChunkAt(p[2])
            old == Ready(c)
            new == Ready(c)'
<1>4. /\ c \in Outputs /\ p[2] \in Starts /\ p = <<c, p[2]>>
      /\ IsFiniteSet(chunk) /\ Cardinality(chunk) = LenAt(p[2]) /\ LenAt(p[2]) \in Nat
      /\ chunk \subseteq Offsets
  BY EntryFields, ChunkSet, ChunkLength, Constants DEF ChunkAt
<1>5. IsFiniteSet(old) /\ Cardinality(old) \in Nat
  BY <1>4, FinitePlaces
<1>6. IsFiniteSet(new) /\ Cardinality(new) \in Nat
  BY <1>1, <1>4, FinitePlaces, FS_Subset, FS_CardinalityType
<1>7. \A o \in Offsets : <<c, StartOf(o)>> = p <=> o \in chunk
  BY <1>4 DEF ChunkAt
<1>8. IsFiniteSet({}) /\ Cardinality({}) = 0
  BY FS_EmptySet
<1>9. ASSUME NEW A, NEW B, IsFiniteSet(A), B = A \cup chunk, A \cap chunk = {}
      PROVE  Cardinality(B) = Cardinality(A) + LenAt(p[2])
  <2>1. Cardinality(A \cup chunk) =
            Cardinality(A) + Cardinality(chunk) - Cardinality(A \cap chunk)
    BY <1>4, <1>9, FS_Union
  <2>2. Cardinality(A) \in Nat
    BY <1>9, FS_CardinalityType
  <2>3. Cardinality(B) = Cardinality(A) + LenAt(p[2]) - 0
    BY <1>4, <1>8, <1>9, <2>1
  <2>. QED
    BY <1>4, <2>2, <2>3
<1>10. ASSUME RestPlaces' = RestPlaces \cup {p}, p \notin RestPlaces
       PROVE  Cardinality(new) = Cardinality(old) + LenAt(p[2])
  <2>1. new = old \cup chunk /\ old \cap chunk = {}
    BY <1>1, <1>4, <1>7, <1>10
  <2>. HIDE DEF old, new, chunk
  <2>. QED
    BY <1>5, <1>9, <2>1
<1>11. ASSUME RestPlaces' = RestPlaces \ {p}, p \in RestPlaces
       PROVE  Cardinality(new) = Cardinality(old) - LenAt(p[2])
  <2>1. old = new \cup chunk /\ new \cap chunk = {}
    BY <1>1, <1>4, <1>7, <1>11
  <2>. HIDE DEF old, new, chunk
  <2>2. Cardinality(old) = Cardinality(new) + LenAt(p[2])
    BY <1>6, <1>9, <2>1
  <2>. QED
    BY <1>4, <1>5, <1>6, <2>2
<1>. QED
  BY <1>2, <1>3, <1>10, <1>11

(* The kernel keeps what the pipes are to hold. *)
LEMMA ExecuteInPipe ==
    ASSUME IInv, NEW chain \in chains, NEW p \in Places, NEW k \in Results(p),
           FillRun(p, k, chain) \/ DrainRun(p, k, chain),
           UNCHANGED <<pc, total_processed, expected_cqes, sq>>
    PROVE  InPipe'
<1>. DEFINE c == p[1]
            n == LenAt(p[2])
            old == Cardinality(Ready(c))
            new == Cardinality(Ready(c)')
            l == Len(pipe[c])
            m == Len(pipe'[c])
<1>1. WellFormed(chains')
  BY ExecutePlaces DEF Queues
<1>2. c \in Outputs /\ n \in Nat /\ k \in Int /\ k <= n /\ k >= -1 /\ k # 0 /\ n > 0
  BY EntryFields, ChunkLength, CompletionFields, Constants
<1>3. /\ old \in Nat /\ l \in Nat /\ old <= l
      /\ c \notin faulted => old = l
  <2>1. old \in Nat
    BY <1>2, FinitePlaces
  <2>2. l \in Nat
    <3>1. pipe[c] \in Seq(Offsets)
      BY <1>2 DEF IInv, TypeOK
    <3>. QED
      BY <3>1, LenProperties
  <2>. QED
    BY <1>2, <2>1, <2>2 DEF IInv, InPipe
<1>4. \A e \in Outputs : e # c => pipe'[e] = pipe[e]
  BY PipeAfter
<1>5. Moved(k) \in Nat /\ Moved(k) <= n /\ (k = n => Moved(k) = n)
  BY <1>2 DEF Moved
<1>6. ASSUME /\ \A e \in Outputs : e # c => Ready(e)' = Ready(e)
             /\ new <= m
             /\ c \notin faulted' => new = m
             /\ \A e \in Outputs : e # c /\ e \notin faulted' => e \notin faulted
      PROVE  InPipe'
  <2>1. ASSUME NEW e \in Outputs
        PROVE  /\ Cardinality(Ready(e)') <= Len(pipe'[e])
               /\ e \notin faulted' => Cardinality(Ready(e)') = Len(pipe'[e])
    <3>1. CASE e = c
      BY <1>6, <3>1
    <3>2. CASE e # c
      <4>1. Ready(e)' = Ready(e) /\ pipe'[e] = pipe[e]
        BY <1>4, <1>6, <3>2
      <4>2. e \notin faulted' => e \notin faulted
        BY <1>6, <3>2
      <4>. QED
        BY <4>1, <4>2 DEF IInv, InPipe
    <3>. QED
      BY <3>1, <3>2
  <2>. QED
    BY <2>1 DEF InPipe
<1>7. CASE /\ FillRun(p, k, chain) /\ k = n
           /\ RestPlaces' = RestPlaces \cup {p} /\ p \notin RestPlaces
  <2>0. m = l + Moved(k)
    BY <1>7, PipeAfter
  <2>1. faulted' = faulted /\ m = l + Moved(k)
    BY <1>7, <2>0 DEF FillRun
  <2>2. new = old + n /\ \A e \in Outputs : e # c => Ready(e)' = Ready(e)
    BY <1>1, <1>7, ReadyAfter
  <2>. HIDE DEF new, old, l, m, n
  <2>3. new <= m /\ (c \notin faulted' => new = m)
    BY <1>2, <1>3, <1>5, <1>7, <2>1, <2>2
  <2>. QED
    BY <1>6, <2>1, <2>2, <2>3
<1>8. CASE /\ FillRun(p, k, chain) /\ k # n /\ RestPlaces' = RestPlaces
  <2>0. m = l + Moved(k)
    BY <1>8, PipeAfter
  <2>1. faulted' = faulted \cup {c} /\ m = l + Moved(k)
    BY <1>8, <2>0 DEF FillRun
  <2>2. new = old /\ \A e \in Outputs : e # c => Ready(e)' = Ready(e)
    BY <1>1, <1>2, <1>8, ReadyAfter
  <2>. HIDE DEF new, old, l, m, n
  <2>3. new <= m
    BY <1>2, <1>3, <1>5, <2>1, <2>2
  <2>4. c \in faulted' /\ \A e \in Outputs : e \notin faulted' => e \notin faulted
    BY <2>1
  <2>. QED
    BY <1>6, <2>2, <2>3, <2>4
<1>9. CASE /\ DrainRun(p, k, chain)
           /\ RestPlaces' = RestPlaces \ {p} /\ p \in RestPlaces
  <2>1. /\ faulted' = IF k = n THEN faulted ELSE faulted \cup {c}
        /\ m = l - Moved(k)
    BY <1>9, PipeAfter DEF DrainRun
  <2>2. new = old - n /\ \A e \in Outputs : e # c => Ready(e)' = Ready(e)
    BY <1>1, <1>9, ReadyAfter
  <2>. HIDE DEF new, old, l, m, n
  <2>3. new <= m /\ (k = n /\ c \notin faulted => new = m)
    BY <1>2, <1>3, <1>5, <2>1, <2>2
  <2>4. /\ \A e \in Outputs : e \notin faulted' => e \notin faulted
        /\ c \notin faulted' => k = n
    BY <2>1
  <2>. QED
    BY <1>2, <1>6, <2>2, <2>3, <2>4
<1>. QED
  BY <1>7, <1>8, <1>9, ExecutePlaces

(* A drain writes what was not written, for a completion not yet seen. *)
LEMMA ExecuteContent ==
    ASSUME IInv, NEW chain \in chains, NEW p \in Places, NEW k \in Results(p),
           FillRun(p, k, chain) \/ DrainRun(p, k, chain),
           UNCHANGED <<pc, total_processed, expected_cqes, sq, dropped,
                       total_data_verified>>
    PROVE  /\ content' \in [Outputs -> [Offsets -> Offsets \cup {Hole}]]
           /\ Unwritten' /\ Covered' /\ Total'
<1>. DEFINE span == IF DrainRun(p, k, chain) THEN Span(Completion(DrainAt(p), k)) ELSE {}
<1>1. /\ p = <<p[1], p[2]>> /\ p[1] \in Outputs /\ p[2] \in Starts
      /\ k \in Int /\ Hole \notin Offsets
  BY EntryFields, CompletionFields, Constants
<1>2. p \in Pending
  BY DEF FillRun, DrainRun, Pending
<1>3. /\ Pending' \subseteq Pending
      /\ Pending' = Pending \/ Pending' = Pending \ {p}
      /\ DrainRun(p, k, chain) => p \notin Pending'
      /\ p \notin Pending' => p[1] \in faulted' \/ (DrainRun(p, k, chain) /\ k = LenAt(p[2]))
  <2>1. CASE FillRun(p, k, chain) /\ k = LenAt(p[2])
    BY <1>2, <2>1, ExecutePlaces, ChainsDiffer DEF FillRun, DrainRun
  <2>2. CASE FillRun(p, k, chain) /\ k # LenAt(p[2])
    BY <2>2, ExecutePlaces, ChainsDiffer DEF FillRun, DrainRun
  <2>3. CASE DrainRun(p, k, chain)
    <3>1. ~FillRun(p, k, chain)
      BY <2>3, ChainsDiffer DEF FillRun, DrainRun
    <3>2. Pending' = Pending \ {p}
      BY <2>3, <3>1, ExecutePlaces
    <3>3. k # LenAt(p[2]) => p[1] \in faulted'
      BY <2>3 DEF DrainRun
    <3>. QED
      BY <2>3, <3>2, <3>3
  <2>. QED
    BY <2>1, <2>2, <2>3
<1>4. /\ content' \in [Outputs -> [Offsets -> Offsets \cup {Hole}]]
      /\ \A e \in Outputs, o \in Offsets :
             /\ <<e, o>> \in span => content'[e][o] \in Offsets
             /\ <<e, o>> \notin span => content'[e][o] = content[e][o]
  <2>1. CASE DrainRun(p, k, chain)
    <3>1. span = Span(Completion(DrainAt(p), k))
      BY <2>1
    <3>. HIDE DEF span
    <3>2. /\ content' \in [Outputs -> [Offsets -> Offsets \cup {Hole}]]
          /\ \A e \in Outputs, o \in Offsets :
                  IF <<e, o>> \in Span(Completion(DrainAt(p), k))
                  THEN /\ o - p[2] + 1 \in 1 .. k
                       /\ content'[e][o] = pipe[e][o - p[2] + 1]
                       /\ content'[e][o] \in Offsets
                  ELSE content'[e][o] = content[e][o]
      BY <2>1, ContentAfter, ZenonT(120)
    <3>. QED
      BY <3>1, <3>2, Zenon
  <2>2. CASE FillRun(p, k, chain) /\ ~DrainRun(p, k, chain)
    <3>1. content' = content /\ span = {}
      BY <2>2 DEF FillRun
    <3>. HIDE DEF span
    <3>. QED
      BY <3>1 DEF IInv, TypeOK
  <2>. QED
    BY <2>1, <2>2
<1>5. /\ \A u \in span : u[1] = p[1] /\ StartOf(u[2]) = p[2]
      /\ span \subseteq Outputs \X Offsets
  <2>1. DrainDone(Completion(DrainAt(p), k), p)
    BY DEF DrainDone
  <2>. QED
    BY <2>1, DrainSpan
<1>6. Unseen' = Unseen \cup span
  <2>0. -1 \in Results(p)
    BY DEF Results
  <2>1. FillDone(Completion(FillAt(p), k), p)
    BY DEF FillDone
  <2>2. Span(Completion(FillAt(p), k)) = {}
    BY <2>1, FillSpan
  <2>3. CASE FillRun(p, k, chain) /\ k = LenAt(p[2])
    <3>1. cq' = cq \cup {Completion(FillAt(p), k)} /\ span = {}
      BY <2>3, ChainsDiffer DEF FillRun, DrainRun
    <3>. QED
      BY <2>2, <3>1 DEF Unseen, Span
  <2>4. CASE FillRun(p, k, chain) /\ k # LenAt(p[2])
    <3>1. /\ cq' = cq \cup {Completion(FillAt(p), k), Completion(DrainAt(p), -1)}
          /\ span = {}
      BY <2>4, ChainsDiffer DEF FillRun, DrainRun
    <3>2. Span(Completion(DrainAt(p), -1)) = {}
      <4>1. DrainDone(Completion(DrainAt(p), -1), p)
        BY <2>0 DEF DrainDone
      <4>2. Cardinality(Span(Completion(DrainAt(p), -1))) = 0
            /\ IsFiniteSet(Span(Completion(DrainAt(p), -1)))
        BY <2>0, <4>1, DrainSpan, CompletionFields
      <4>. QED
        BY <4>2, FS_EmptySet
    <3>. QED
      BY <2>2, <3>1, <3>2 DEF Unseen, Span
  <2>5. CASE DrainRun(p, k, chain)
    <3>1. cq' = cq \cup {Completion(DrainAt(p), k)} /\ span = Span(Completion(DrainAt(p), k))
      BY <2>5 DEF DrainRun
    <3>. QED
      BY <1>5, <3>1 DEF Unseen, Span
  <2>. QED
    BY <2>3, <2>4, <2>5
<1>. HIDE DEF span
<1>7. span # {} => p \notin Pending'
  BY <1>3 DEF span
<1>8. \A u \in span : content[u[1]][u[2]] = Hole
  <2>1. ASSUME NEW u \in span
        PROVE  content[u[1]][u[2]] = Hole
    <3>1. u[1] \in Outputs /\ u[2] \in Offsets /\ <<u[1], StartOf(u[2])>> \in Pending
      BY <1>1, <1>2, <1>5
    <3>. QED
      BY <3>1 DEF IInv, Unwritten
  <2>. QED
    BY <2>1
<1>9. Unwritten'
  <2>1. ASSUME NEW e \in Outputs, NEW o \in Offsets,
               o >= total_processed \/ <<e, StartOf(o)>> \in Pending'
        PROVE  content'[e][o] = Hole
    <3>1. content[e][o] = Hole
      BY <1>3, <2>1 DEF IInv, Unwritten
    <3>2. <<e, o>> \notin span
      <4>1. ASSUME <<e, o>> \in span PROVE FALSE
        <5>1. <<e, StartOf(o)>> = p
          BY <1>1, <1>5, <4>1
        <5>2. <<e, StartOf(o)>> \notin Pending'
          BY <1>7, <4>1, <5>1
        <5>3. StartOf(o) < total_processed
          BY <1>1, <1>2, <5>1 DEF IInv, Progress
        <5>4. o < total_processed
          BY <5>3, QueuedOffsets
        <5>5. o \in Int /\ total_processed \in Int
          BY Constants DEF IInv, TypeOK
        <5>. QED
          BY <2>1, <5>2, <5>4, <5>5
      <4>. QED
        BY <4>1
    <3>. QED
      BY <1>4, <3>1, <3>2
  <2>. QED
    BY <2>1 DEF Unwritten
<1>10. Covered'
  <2>1. ASSUME NEW e \in Outputs, NEW o \in Offsets, e \notin faulted',
               o < total_processed
        PROVE  content'[e][o] # Hole \/ <<e, StartOf(o)>> \in Pending' \cup dropped
    <3>1. e \notin faulted
      BY <2>1 DEF FillRun, DrainRun
    <3>2. content[e][o] # Hole \/ <<e, StartOf(o)>> \in Pending \cup dropped
      BY <2>1, <3>1 DEF IInv, Covered
    <3>3. CASE content[e][o] # Hole
      BY <1>1, <1>4, <3>3
    <3>4. CASE <<e, StartOf(o)>> \in Pending /\ <<e, StartOf(o)>> \notin Pending'
      <4>1. <<e, StartOf(o)>> = p /\ p \notin Pending'
        BY <1>3, <3>4
      <4>2. e = p[1] /\ StartOf(o) = p[2] /\ DrainRun(p, k, chain) /\ k = LenAt(p[2])
        BY <1>1, <1>3, <2>1, <4>1
      <4>3. o \in p[2] .. (p[2] + k - 1)
        BY <1>1, <4>2, InChunk
      <4>4. <<e, o>> \in Span(Completion(DrainAt(p), k))
        BY <4>2, <4>3, CompletionFields DEF Span
      <4>5. <<e, o>> \in span
        BY <4>2, <4>4 DEF span
      <4>. QED
        BY <1>1, <1>4, <4>5
    <3>. QED
      BY <3>2, <3>3, <3>4
  <2>. QED
    BY <2>1 DEF Covered
<1>11. Total'
  <2>1. \A u \in Unseen' : content'[u[1]][u[2]] # Hole
    <3>1. ASSUME NEW u \in Unseen'
          PROVE  content'[u[1]][u[2]] # Hole
      <4>1. u \in Outputs \X Offsets
        BY DEF Unseen
      <4>2. u = <<u[1], u[2]>> /\ u[1] \in Outputs /\ u[2] \in Offsets
        BY <4>1
      <4>3. CASE u \in span
        BY <1>1, <1>4, <4>2, <4>3
      <4>4. CASE u \notin span
        <5>1. u \in Unseen
          BY <1>6, <4>4
        <5>2. content[u[1]][u[2]] # Hole
          BY <5>1 DEF IInv, Total
        <5>. QED
          BY <1>4, <4>2, <4>4, <5>2
      <4>. QED
        BY <4>3, <4>4
    <3>. QED
      BY <3>1
  <2>2. \A u \in Outputs \X Offsets : u \in SeenWritten' <=> u \in SeenWritten
    <3>1. ASSUME NEW u \in Outputs \X Offsets
          PROVE  u \in SeenWritten' <=> u \in SeenWritten
      <4>1. u = <<u[1], u[2]>> /\ u[1] \in Outputs /\ u[2] \in Offsets
        OBVIOUS
      <4>2. u \in SeenWritten <=> content[u[1]][u[2]] # Hole /\ u \notin Unseen
        BY DEF SeenWritten
      <4>3. u \in SeenWritten' <=> content'[u[1]][u[2]] # Hole /\ u \notin Unseen'
        BY DEF SeenWritten
      <4>4. CASE u \in span
        BY <1>6, <1>8, <4>2, <4>3, <4>4
      <4>5. CASE u \notin span
        BY <1>4, <1>6, <4>1, <4>2, <4>3, <4>5
      <4>. QED
        BY <4>4, <4>5
    <3>. QED
      BY <3>1
  <2>3. SeenWritten' \subseteq Outputs \X Offsets /\ SeenWritten \subseteq Outputs \X Offsets
    BY DEF SeenWritten
  <2>4. SeenWritten' = SeenWritten
    BY <2>2, <2>3
  <2>. QED
    BY <2>1, <2>4 DEF IInv, Total
<1>. QED
  BY <1>4, <1>9, <1>10, <1>11

(* The kernel keeps the invariant. *)
LEMMA ExecuteKeeps == IInv /\ (\E chain \in chains : Execute(chain)) => IInv'
<1>. SUFFICES ASSUME IInv, NEW chain \in chains, Execute(chain)
              PROVE  IInv'
  OBVIOUS
<1>1. faults' \in 0 .. MaxFaults
  BY ExecuteCases
<1>2. PICK p \in Places : \E k \in Results(p) :
          FillRun(p, k, chain) \/ DrainRun(p, k, chain)
  BY ExecuteCases
<1>3. PICK k \in Results(p) : FillRun(p, k, chain) \/ DrainRun(p, k, chain)
  BY <1>2
<1>4. UNCHANGED <<pc, total_processed, expected_cqes, sq, dropped,
                  total_data_verified, gaveUp>>
  BY DEF Execute, loopVars
<1>5. /\ Queues' /\ Completed' /\ Counts' /\ Pending' \subseteq Pending
  BY <1>3, <1>4, ExecutePlaces
<1>6. InPipe'
  BY <1>3, <1>4, ExecuteInPipe
<1>7. /\ content' \in [Outputs -> [Offsets -> Offsets \cup {Hole}]]
      /\ Unwritten' /\ Covered' /\ Total'
  BY <1>3, <1>4, ExecuteContent
<1>8. /\ pipe' \in [Outputs -> Seq(Offsets)]
      /\ \A d \in Outputs : Len(pipe'[d]) <= PipeSize
  <2>1. /\ pipe' \in [Outputs -> Seq(Offsets)]
        /\ \A e \in Outputs : e # p[1] => pipe'[e] = pipe[e]
        /\ Len(pipe'[p[1]]) <= PipeSize
    BY <1>3, PipeAfter
  <2>. QED
    BY <2>1 DEF IInv, TypeOK
<1>9. TypeOK' /\ gaveUp' \in BOOLEAN
  BY <1>1, <1>4, <1>7, <1>8 DEF IInv, TypeOK
<1>10. Progress'
  <2>1. \A x \in cq' : x.off < total_processed
    <3>1. \A x \in cq : x.off < total_processed
      BY DEF IInv, Progress
    <3>2. p[2] < total_processed
      BY <1>3 DEF IInv, Progress, Pending, FillRun, DrainRun
    <3>3. -1 \in Results(p)
      BY DEF Results
    <3>4. /\ Completion(FillAt(p), k).off = p[2] /\ Completion(DrainAt(p), k).off = p[2]
          /\ Completion(DrainAt(p), -1).off = p[2]
      BY <3>3, CompletionFields
    <3>5. cq' \subseteq cq \cup {Completion(FillAt(p), k), Completion(DrainAt(p), k),
                                 Completion(DrainAt(p), -1)}
      BY <1>3 DEF FillRun, DrainRun
    <3>. QED
      BY <3>1, <3>2, <3>4, <3>5
  <2>. QED
    BY <1>4, <1>5, <2>1 DEF IInv, Progress
<1>. QED
  BY <1>5, <1>6, <1>7, <1>8, <1>9, <1>10 DEF IInv

(* The invariant that the theorems rest on. *)
THEOREM Invariance == Spec => []IInv
<1>1. Init => IInv
  BY InitIInv
<1>2. IInv /\ [Next]_vars => IInv'
  BY PrepareKeeps, ReapKeeps, EndBatchKeeps, WaitFailsKeeps, ExecuteKeeps, StutterKeeps
     DEF Next, Terminated
<1>. QED
  BY <1>1, <1>2, PTL DEF Spec

-----------------------------------------------------------------------------
(* TypeOK: the types of the variables, the capacities of the submission    *)
(* queue and of the pipes included, hold throughout.                       *)
THEOREM TypeCorrect == Spec => []TypeOK
<1>1. IInv => TypeOK
  BY DEF IInv
<1>. QED
  BY <1>1, Invariance, PTL

(* perform_splice_broadcast waits for what is outstanding, no more and no  *)
(* less, also after a batch that ran out of entries or a failed wait.      *)
THEOREM WaitsForOutstanding == Spec => []ExpectedOutstanding
<1>1. IInv => ExpectedOutstanding
  BY DEF IInv, Counts
<1>. QED
  BY <1>1, Invariance, PTL

(* A drain that may run finds in its pipe what it and the other drains     *)
(* that may run ask for, whatever has failed before.                       *)
THEOREM DrainsAreFed == Spec => []NoStarvedDrain
<1>1. IInv => NoStarvedDrain
  BY DEF IInv, InPipe, NoStarvedDrain
<1>. QED
  BY <1>1, Invariance, PTL

(* As long as nothing failed or fell short, what the loop waits for has    *)
(* come or some splice has data and room: the pipes are not too small for  *)
(* a batch of many chunks.                                                 *)
THEOREM AlwaysGoesOn == Spec => []NeverStuck
<1>1. ASSUME IInv, pc = "reap", expected_cqes > 0, faulted = {}, cq = {}
      PROVE  \E chain \in chains : Movable(chain[1]) > 0
  <2>1. PICK c \in chains : TRUE
    <3>1. sq = <<>> /\ Len(sq) = 0
      BY <1>1 DEF IInv, Queues
    <3>2. Cardinality(cq) = 0
      BY <1>1, FS_EmptySet
    <3>3. expected_cqes = 0 + 0 + Cardinality(InKernel)
      BY <1>1, <3>1, <3>2 DEF IInv, Counts, ExpectedOutstanding
    <3>4. chains # {}
      <4>1. ASSUME chains = {} PROVE FALSE
        <5>1. InKernel = {}
          BY <4>1 DEF InKernel
        <5>2. Cardinality(InKernel) = 0
          BY <5>1, FS_EmptySet
        <5>. QED
          BY <1>1, <3>3, <5>2
      <4>. QED
        BY <4>1
    <3>. QED
      BY <3>4
  <2>2. WellFormed(chains)
    BY <1>1 DEF IInv, Queues
  <2>3. ASSUME NEW d \in Outputs
        PROVE  /\ Ready(d) = {o \in Offsets : <<d, StartOf(o)>> \in RestPlaces}
               /\ IsFiniteSet(Ready(d)) /\ Cardinality(Ready(d)) \in Nat
               /\ Cardinality(Ready(d)) = Len(pipe[d])
    BY <1>1, <2>2, ReadyPlaces, KernelSets, FinitePlaces DEF RestPlaces, IInv, InPipe
  <2>4. ASSUME NEW p \in RestPlaces
        PROVE  Movable(RestAt(p)[1]) > 0
    <3>1. p \in Places
      BY DEF RestPlaces, RestsIn
    <3>2. /\ p = <<p[1], p[2]>> /\ p[1] \in Outputs /\ p[2] \in Starts /\ p[2] \in Offsets
          /\ LenAt(p[2]) \in Nat \ {0}
      BY <3>1, EntryFields, ChunkLength, Constants
    <3>3. p[2] \in p[2] .. (p[2] + LenAt(p[2]) - 1)
      BY <3>2, Constants
    <3>4. p[2] \in Ready(p[1])
      BY <2>3, <3>2, <3>3, InChunk
    <3>5. Cardinality(Ready(p[1])) # 0
      BY <2>3, <3>2, <3>4, FS_EmptySet
    <3>6. Len(pipe[p[1]]) > 0
      BY <2>3, <3>2, <3>5
    <3>7. /\ RestAt(p)[1].op = "drain" /\ RestAt(p)[1].d = p[1]
          /\ RestAt(p)[1].len = LenAt(p[2])
      BY <3>1, ChainFields, EntryFields
    <3>. QED
      BY <3>2, <3>6, <3>7 DEF Movable, Smaller
  <2>5. CASE RestPlaces # {}
    BY <2>4, <2>5 DEF RestPlaces, RestsIn
  <2>6. CASE RestPlaces = {}
    <3>1. PICK p \in Places : c = PairAt(p)
      BY <2>1, <2>2, <2>6 DEF WellFormed, RestPlaces, RestsIn
    <3>2. p[1] \in Outputs /\ LenAt(p[2]) \in Nat \ {0}
      BY EntryFields, ChunkLength, Constants
    <3>3. Ready(p[1]) = {}
      BY <2>3, <2>6, <3>2
    <3>4. Len(pipe[p[1]]) = 0
      BY <2>3, <3>2, <3>3, FS_EmptySet
    <3>5. c[1].op = "fill" /\ c[1].d = p[1] /\ c[1].len = LenAt(p[2])
      BY <3>1, ChainFields, EntryFields
    <3>6. Movable(c[1]) > 0
      BY <3>2, <3>4, <3>5, Constants DEF Movable, Smaller
    <3>. QED
      BY <2>1, <3>6
  <2>. QED
    BY <2>5, <2>6
<1>2. IInv => NeverStuck
  BY <1>1 DEF NeverStuck
<1>. QED
  BY <1>2, Invariance, PTL

(* When nothing is expected and nothing queued, nothing is under way. *)
LEMMA NothingPending ==
    ASSUME IInv, expected_cqes = 0, sq = <<>>
    PROVE  Pending = {} /\ chains = {}
<1>1. expected_cqes = 0 /\ sq = <<>>
  OBVIOUS
<1>2. Cardinality(cq) \in Nat /\ Cardinality(InKernel) \in Nat /\ Len(sq) = 0
      /\ IsFiniteSet(InKernel)
  BY <1>1, FS_CardinalityType DEF IInv, Counts
<1>3. Cardinality(InKernel) = 0
  BY <1>1, <1>2 DEF IInv, Counts, ExpectedOutstanding
<1>4. InKernel = {}
  BY <1>2, <1>3, FS_EmptySet
<1>5. PairPlaces = {} /\ RestPlaces = {} /\ WellFormed(chains)
  <2>1. WellFormed(chains)
    BY DEF IInv, Queues
  <2>2. \A p \in PairPlaces \cup RestPlaces : DrainAt(p) \in EntriesIn(chains)
    BY <2>1, KernelEntries DEF PairPlaces, RestPlaces
  <2>. QED
    BY <1>4, <2>1, <2>2, KernelSets
<1>6. chains = {}
  BY <1>5 DEF WellFormed, PairPlaces, RestPlaces, PairsIn, RestsIn
<1>. QED
  BY <1>1, <1>5, <1>6, EmptyQueue DEF Pending, SqPlaces

(* An output none of whose operations failed or fell short is whole when   *)
(* the call returns, whatever happened to the others, unless one of its    *)
(* chunks was never queued.                                                *)
THEOREM OutputsAreIsolated == Spec => []OutputIsolation
<1>1. ASSUME IInv, pc = "done", ~gaveUp, NEW d \in Outputs, d \notin faulted,
             \A off \in Offsets : <<d, off>> \notin dropped,
             NEW o \in Offsets
      PROVE  content[d][o] # Hole
  <2>0. total_processed = FileSize /\ expected_cqes = 0 /\ sq = <<>>
    BY <1>1 DEF IInv, Progress, Queues
  <2>1. Pending = {} /\ total_processed = FileSize
    BY <1>1, <2>0, NothingPending
  <2>2. o < total_processed
    BY <2>1, Constants
  <2>3. StartOf(o) \in Offsets
    BY StartsAreStarts DEF Starts
  <2>. QED
    BY <1>1, <2>1, <2>2, <2>3 DEF IInv, Covered
<1>2. IInv => OutputIsolation
  BY <1>1 DEF OutputIsolation, Written
<1>. QED
  BY <1>2, Invariance, PTL

(* A total of size times outputs can only be reported with every offset of *)
(* every output written: no drain is counted twice.                        *)
THEOREM TotalIsHonest == Spec => []TotalMeansNoHole
<1>1. ASSUME IInv, total_data_verified = FileSize * NumOutputs
      PROVE  \A d \in Outputs : Written(d)
  <2>1. SeenWritten \subseteq Outputs \X Offsets
    BY DEF SeenWritten
  <2>2. Cardinality(SeenWritten) = FileSize * NumOutputs
    BY <1>1 DEF IInv, Total
  <2>3. Cardinality(SeenWritten) = Cardinality(Outputs \X Offsets)
    BY <2>2, FinitePlaces, Constants
  <2>4. SeenWritten = Outputs \X Offsets
    <3>. DEFINE all == Outputs \X Offsets
    <3>1. IsFiniteSet(all) /\ Cardinality(SeenWritten) = Cardinality(all)
      BY <2>3, FinitePlaces
    <3>2. SeenWritten \in SUBSET all
      BY <2>1
    <3>. HIDE DEF all
    <3>3. SeenWritten = all
      BY <3>1, <3>2, FS_Subset
    <3>. QED
      BY <3>3 DEF all
  <2>5. ASSUME NEW d \in Outputs, NEW o \in Offsets
        PROVE  content[d][o] # Hole
    <3>1. <<d, o>> \in SeenWritten
      BY <2>4
    <3>2. content[<<d, o>>[1]][<<d, o>>[2]] # Hole
      BY <3>1 DEF SeenWritten
    <3>. QED
      BY <3>2
  <2>. QED
    BY <2>5 DEF Written
<1>2. IInv => TotalMeansNoHole
  BY <1>1 DEF TotalMeansNoHole
<1>. QED
  BY <1>2, Invariance, PTL

-----------------------------------------------------------------------------
(* If batches are chunks: the loop submits in every turn. *)
LEMMA PrepareOne ==
    ASSUME OneChunk, IInv, OneInFlight, PrepareChunk
    PROVE  /\ pc' = "reap" /\ Queued = Outputs /\ dropped' = {}
           /\ ~gaveUp => \A p, q \in Pending' : p[2] = q[2]
<1>1. /\ pc = "prepare" /\ total_processed \in Starts /\ sq = <<>> /\ Len(sq) = 0
      /\ (FileSize <= ChunkSize => total_processed = 0)
      /\ (~gaveUp => expected_cqes = 0)
  BY PrepareCases DEF OneInFlight
<1>2. /\ Cardinality(Queued) = NumOutputs /\ Queued = Outputs
  <2>1. /\ Cardinality(Queued) \in 0 .. NumOutputs
        /\ Queued = 1 .. Cardinality(Queued)
        /\ \/ Cardinality(Queued) = NumOutputs
           \/ Cardinality(Queued) = (Entries - Len(sq)) \div 2
    BY <1>1, QueuedOutputs, Constants
  <2>2. Cardinality(Queued) = NumOutputs
    BY <1>1, <2>1, Constants DEF OneChunk
  <2>. QED
    BY <2>1, <2>2 DEF Outputs
<1>3. pc' = "reap"
  <2>1. /\ expected_cqes' = expected_cqes + 2 * NumOutputs /\ expected_cqes \in Nat
        /\ total_processed' = total_processed + LenAt(total_processed)
    BY <1>2, PrepareCases DEF IInv, TypeOK
  <2>2. CASE Entries = 2 * NumOutputs
    <3>1. expected_cqes' >= Entries
      BY <2>1, <2>2, Constants
    <3>. QED
      BY <3>1 DEF PrepareChunk, BatchFull
  <2>3. CASE FileSize <= ChunkSize
    <3>1. total_processed' >= FileSize
      BY <1>1, <2>1, <2>3, Constants DEF LenAt
    <3>. QED
      BY <3>1 DEF PrepareChunk, BatchFull
  <2>. QED
    BY <2>2, <2>3 DEF OneChunk
<1>4. dropped' = {}
  BY <1>2, PrepareCases DEF OneInFlight
<1>5. ASSUME ~gaveUp PROVE \A p, q \in Pending' : p[2] = q[2]
  <2>1. Pending = {}
    BY <1>1, <1>5, NothingPending
  <2>. QED
    BY <1>1, <2>1, PreparePlaces, NewPlacesAre
<1>. QED
  BY <1>2, <1>3, <1>4, <1>5

(* A chunk starts at 0 if the file is one chunk. *)
LEMMA OnlyStart ==
    ASSUME NEW s \in Starts, FileSize <= ChunkSize
    PROVE  s = 0
<1>1. s \in Nat /\ s < ChunkSize /\ s % ChunkSize = 0
  BY ChunkLength, Constants DEF Starts
<1>2. s % ChunkSize = s
  BY <1>1, Constants
<1>. QED
  BY <1>1, <1>2

(* One chunk is under way at a time. *)
LEMMA OneInFlightStep ==
    ASSUME OneChunk, IInv, IInv', OneInFlight, [Next]_vars
    PROVE  OneInFlight'
<1>1. FileSize <= ChunkSize /\ pc' = "prepare" => total_processed' = 0
  BY OnlyStart DEF IInv, Progress
<1>2. CASE PrepareChunk
  <2>1. gaveUp' = gaveUp
    BY <1>2 DEF PrepareChunk, faultVars
  <2>. QED
    BY <1>1, <1>2, <2>1, PrepareOne DEF OneInFlight
<1>3. CASE \E c \in cq : Reap(c)
  <2>1. pc = "reap" /\ UNCHANGED <<pc, sq, chains, dropped, gaveUp>>
    BY <1>3 DEF Reap, kernelVars, faultVars
  <2>2. Pending' = Pending
    BY <2>1 DEF Pending, SqPlaces, PairPlaces, RestPlaces
  <2>. QED
    BY <1>1, <2>1, <2>2 DEF OneInFlight
<1>4. CASE EndBatch
  <2>1. /\ pc = "reap" /\ expected_cqes' = 0
        /\ UNCHANGED <<sq, chains, dropped, gaveUp>>
    BY <1>4 DEF EndBatch, kernelVars, faultVars, loopVars
  <2>2. Pending' = Pending
    BY <2>1 DEF Pending, SqPlaces, PairPlaces, RestPlaces
  <2>3. sq' = <<>>
    BY <2>1 DEF IInv, Queues
  <2>. QED
    BY <1>1, <2>1, <2>2, <2>3 DEF OneInFlight
<1>5. CASE WaitFails
  <2>1. pc = "reap" /\ gaveUp' = TRUE /\ UNCHANGED <<sq, dropped>>
    BY <1>5 DEF WaitFails
  <2>2. sq' = <<>>
    BY <2>1 DEF IInv, Queues
  <2>. QED
    BY <1>1, <2>1, <2>2 DEF OneInFlight
<1>6. CASE \E chain \in chains : Execute(chain)
  <2>1. UNCHANGED <<pc, total_processed, expected_cqes, sq, dropped, gaveUp>>
    BY <1>6 DEF Execute, loopVars
  <2>2. Pending' \subseteq Pending
    <3>1. PICK chain \in chains : Execute(chain)
      BY <1>6
    <3>2. PICK p \in Places : \E k \in Results(p) :
              FillRun(p, k, chain) \/ DrainRun(p, k, chain)
      BY <3>1, ExecuteCases
    <3>. QED
      BY <2>1, <3>2, ExecutePlaces
  <2>. QED
    BY <1>1, <2>1, <2>2 DEF OneInFlight
<1>7. CASE UNCHANGED vars
  <2>1. UNCHANGED <<pc, total_processed, expected_cqes, sq, chains, dropped, gaveUp>>
    BY <1>7 DEF vars, loopVars, kernelVars, faultVars
  <2>2. Pending' = Pending
    BY <2>1 DEF Pending, SqPlaces, PairPlaces, RestPlaces
  <2>. QED
    BY <1>1, <2>1, <2>2 DEF OneInFlight
<1>. QED
  BY <1>2, <1>3, <1>4, <1>5, <1>6, <1>7 DEF Next, Terminated

(* A chunk goes through an empty pipe. *)
LEMMA ExecuteRight ==
    ASSUME IInv, OneInFlight, RightData, ~gaveUp,
           NEW chain \in chains, NEW p \in Places, NEW k \in Results(p),
           FillRun(p, k, chain) \/ DrainRun(p, k, chain),
           UNCHANGED <<pc, total_processed, expected_cqes, sq, gaveUp>>
    PROVE  RightData'
<1>1. /\ p = <<p[1], p[2]>> /\ p[1] \in Outputs /\ p[2] \in Starts
      /\ LenAt(p[2]) \in Nat \ {0} /\ p[2] \in Nat
  BY EntryFields, ChunkLength, Constants
<1>2. p \in Pending /\ RestPlaces \subseteq Pending /\ RestPlaces' \subseteq RestPlaces \cup {p}
  <2>1. RestPlaces \subseteq Pending
    BY DEF Pending
  <2>2. p \in PairPlaces \/ p \in RestPlaces
    BY DEF FillRun, DrainRun
  <2>3. p \in Pending
    BY <2>2 DEF Pending
  <2>4. \/ RestPlaces' = RestPlaces \cup {p}
        \/ RestPlaces' = RestPlaces
        \/ RestPlaces' = RestPlaces \ {p}
    BY ExecutePlaces, ZenonT(60)
  <2>. QED
    BY <2>1, <2>3, <2>4
<1>3. ASSUME NEW s \in Starts, <<p[1], s>> \in RestPlaces \cup {p}
      PROVE  <<p[1], s>> = p /\ s = p[2]
  <2>1. <<p[1], s>>[2] = p[2]
    BY <1>2, <1>3 DEF OneInFlight
  <2>. QED
    BY <1>1, <2>1
<1>4. \A e \in Outputs : e # p[1] => pipe'[e] = pipe[e]
  BY PipeAfter
<1>5. faulted \subseteq faulted'
  BY DEF FillRun, DrainRun
<1>6. ASSUME NEW d \in Outputs \ faulted', NEW s \in Starts, <<d, s>> \in RestPlaces',
             NEW i \in 1 .. LenAt(s)
      PROVE  pipe'[d][i] = s + i - 1
  <2>1. CASE d # p[1]
    BY <1>2, <1>4, <1>5, <1>6, <2>1 DEF RightData
  <2>2. CASE d = p[1]
    <3>1. <<d, s>> = p /\ s = p[2]
      BY <1>2, <1>3, <1>6, <2>2
    <3>2. FillRun(p, k, chain) /\ k = LenAt(s) /\ p \notin RestPlaces
      <4>1. p \in RestPlaces'
        BY <1>6, <3>1
      <4>2. ~DrainRun(p, k, chain)
        <5>1. ASSUME DrainRun(p, k, chain) PROVE FALSE
          <6>1. ~FillRun(p, k, chain)
            BY <5>1, ChainsDiffer DEF FillRun, DrainRun
          <6>2. RestPlaces' = RestPlaces \ {p}
            BY <6>1, ExecutePlaces
          <6>. QED
            BY <4>1, <6>2
        <5>. QED
          BY <5>1
      <4>3. FillRun(p, k, chain)
        BY <4>2
      <4>4. p \notin RestPlaces
        BY <4>3 DEF FillRun, IInv, Queues
      <4>5. k = LenAt(p[2])
        BY <1>6, <2>2, <4>3 DEF FillRun
      <4>. QED
        BY <3>1, <4>3, <4>4, <4>5
    <3>3. Ready(d) = {}
      <4>1. Ready(d) = {o \in Offsets : <<d, StartOf(o)>> \in RestPlaces}
        BY ReadyPlaces, KernelSets DEF IInv, Queues, RestPlaces
      <4>2. \A o \in Offsets : StartOf(o) \in Starts
        BY StartsAreStarts
      <4>3. \A o \in Offsets : <<d, StartOf(o)>> \in RestPlaces => p \in RestPlaces
        BY <1>3, <2>2, <4>2
      <4>. QED
        BY <3>2, <4>1, <4>3
    <3>4. pipe[d] \in Seq(Offsets) /\ Len(pipe[d]) = 0
      <4>1. Cardinality(Ready(d)) = Len(pipe[d])
        BY <1>5 DEF IInv, InPipe
      <4>2. pipe[d] \in Seq(Offsets)
        BY DEF IInv, TypeOK
      <4>. QED
        BY <3>3, <4>1, <4>2, FS_EmptySet
    <3>5. pipe[d] = <<>>
      BY <3>4, EmptySeq
    <3>6. pipe'[d] = <<>> \o Units(s, k)
      <4>1. k > 0
        BY <1>1, <3>1, <3>2
      <4>. QED
        <5>1. pipe'[p[1]] = pipe[p[1]] \o Units(p[2], k)
          BY <3>2, <4>1, PipeAfter, ZenonT(60)
        <5>. QED
          BY <2>2, <3>1, <3>2, <3>5, <5>1
    <3>7. (<<>> \o Units(s, k))[i] = s + i - 1
      <4>1. k \in Nat /\ i \in 1 .. k /\ s \in Nat
        BY <1>1, <3>1, <3>2
      <4>2. Units(s, k) \in Seq(Int) /\ Len(Units(s, k)) = k
        <5>1. Units(s, k) \in [1 .. k -> Int]
          BY <4>1 DEF Units
        <5>. QED
          BY <4>1, <5>1
      <4>3. <<>> \o Units(s, k) = Units(s, k)
        BY <4>2, ConcatEmptySeq
      <4>. QED
        BY <4>1, <4>3 DEF Units
    <3>. QED
      BY <3>6, <3>7
  <2>. QED
    BY <2>1, <2>2
<1>7. ASSUME NEW d \in Outputs \ faulted', NEW o \in Offsets
      PROVE  content'[d][o] \in {Hole, o}
  <2>1. content[d][o] \in {Hole, o}
    BY <1>5 DEF RightData
  <2>2. CASE FillRun(p, k, chain)
    BY <2>1, <2>2 DEF FillRun
  <2>3. CASE DrainRun(p, k, chain)
    <3>1. CASE <<d, o>> \notin Span(Completion(DrainAt(p), k))
      BY <2>1, <2>3, <3>1, ContentAfter
    <3>2. CASE <<d, o>> \in Span(Completion(DrainAt(p), k))
      <4>1. DrainDone(Completion(DrainAt(p), k), p)
        BY DEF DrainDone
      <4>2. d = p[1]
        BY <3>2, <4>1, DrainSpan
      <4>3. k = LenAt(p[2])
        BY <2>3, <4>2 DEF DrainRun
      <4>4. o - p[2] + 1 \in 1 .. k /\ content'[d][o] = pipe[d][o - p[2] + 1]
        BY <2>3, <3>2, ContentAfter
      <4>5. <<d, p[2]>> \in RestPlaces
        BY <1>1, <2>3, <4>2 DEF DrainRun
      <4>6. pipe[d][o - p[2] + 1] = p[2] + (o - p[2] + 1) - 1
        BY <1>1, <1>5, <4>3, <4>4, <4>5 DEF RightData
      <4>7. p[2] + (o - p[2] + 1) - 1 = o
        BY <1>1, Constants
      <4>. QED
        BY <4>4, <4>6, <4>7
    <3>. QED
      BY <3>1, <3>2
  <2>. QED
    BY <2>2, <2>3
<1>. QED
  BY <1>6, <1>7 DEF RightData

(* Every step keeps the data where it belongs. *)
LEMMA RightDataStep ==
    ASSUME OneChunk, IInv, OneInv, [Next]_vars
    PROVE  RightData'
<1>1. ASSUME RestPlaces' = RestPlaces, faulted' = faulted, pipe' = pipe,
             content' = content, ~gaveUp' => ~gaveUp
      PROVE  RightData'
  BY <1>1 DEF OneInv, RightData
<1>2. CASE PrepareChunk
  <2>1. UNCHANGED <<pipe, content, faulted, gaveUp>>
    BY <1>2 DEF PrepareChunk, faultVars
  <2>2. RestPlaces' = RestPlaces
    BY <1>2, PreparePlaces
  <2>. QED
    BY <1>1, <2>1, <2>2
<1>3. CASE (\E c \in cq : Reap(c)) \/ EndBatch \/ UNCHANGED vars
  <2>1. UNCHANGED <<chains, pipe, content, faulted, gaveUp>>
    BY <1>3 DEF Reap, EndBatch, vars, kernelVars, faultVars
  <2>2. RestPlaces' = RestPlaces
    BY <2>1 DEF RestPlaces
  <2>. QED
    BY <1>1, <2>1, <2>2
<1>4. CASE WaitFails
  BY <1>4 DEF WaitFails, RightData
<1>5. CASE \E chain \in chains : Execute(chain)
  <2>1. PICK chain \in chains : Execute(chain)
    BY <1>5
  <2>2. PICK p \in Places : \E k \in Results(p) :
            FillRun(p, k, chain) \/ DrainRun(p, k, chain)
    BY <2>1, ExecuteCases
  <2>3. UNCHANGED <<pc, total_processed, expected_cqes, sq, gaveUp>>
    BY <2>1 DEF Execute, loopVars
  <2>4. CASE ~gaveUp
    BY <2>2, <2>3, <2>4, ExecuteRight DEF OneInv
  <2>5. CASE gaveUp
    BY <2>3, <2>5 DEF RightData
  <2>. QED
    BY <2>4, <2>5
<1>. QED
  BY <1>2, <1>3, <1>4, <1>5 DEF Next, Terminated

(* The invariant of a batch of one chunk, on top of the general one. *)
THEOREM OneInvariance == ASSUME OneChunk PROVE Spec => [](IInv /\ OneInv)
<1>1. Init => OneInv
  <2>. SUFFICES ASSUME Init PROVE OneInv
    OBVIOUS
  <2>1. /\ total_processed = 0 /\ expected_cqes = 0 /\ sq = <<>> /\ chains = {}
        /\ dropped = {} /\ content = [d \in Outputs |-> [o \in Offsets |-> Hole]]
    BY DEF Init
  <2>2. Pending = {} /\ RestPlaces = {}
    BY <2>1, EmptyQueue DEF Pending, SqPlaces, PairPlaces, PairsIn, RestPlaces, RestsIn
  <2>3. OneInFlight
    BY <2>1, <2>2 DEF OneInFlight
  <2>4. RightData
    BY <2>1, <2>2 DEF RightData
  <2>. QED
    BY <2>3, <2>4 DEF OneInv
<1>2. Init => IInv
  BY InitIInv
<1>3. IInv /\ [Next]_vars => IInv'
  BY PrepareKeeps, ReapKeeps, EndBatchKeeps, WaitFailsKeeps, ExecuteKeeps, StutterKeeps
     DEF Next, Terminated
<1>4. IInv /\ OneInv /\ [Next]_vars => IInv' /\ OneInv'
  BY <1>3, OneInFlightStep, RightDataStep DEF OneInv
<1>. QED
  BY <1>1, <1>2, <1>4, PTL DEF Spec

-----------------------------------------------------------------------------
(* The abstract broadcast's variables, as Promised maps them. *)
HeldOffsets == [d \in Outputs |-> {o \in Offsets : content[d][o] = o}]
FailedOutputs == {d \in Outputs : gaveUp \/ d \in faulted}
HasReturned == pc = "done"

(* A step that changes what is mapped at most by failures, before the end. *)
LEMMA WorkOrReturn ==
    ASSUME IInv, OneInv, ~HasReturned, content' = content,
           FailedOutputs' = FailedOutputs \/ FailedOutputs' = Outputs,
           HasReturned' =>
               \/ FailedOutputs' = Outputs
               \/ \A d \in Outputs \ FailedOutputs : HeldOffsets[d] = Offsets
    PROVE  [Promised!Next]_(Promised!vars)
<1>1. HeldOffsets' = HeldOffsets
  BY DEF HeldOffsets
<1>2. FailedOutputs' = FailedOutputs \cup FailedOutputs' /\ FailedOutputs' \in SUBSET Outputs
  BY DEF FailedOutputs
<1>3. HasReturned = FALSE /\ HasReturned' \in BOOLEAN
  BY DEF HasReturned
<1>4. CASE HasReturned' = TRUE
  <2>1. \A d \in Outputs \ FailedOutputs' : HeldOffsets[d] = Offsets
    BY <1>2, <1>4
  <2>2. Promised!Return
    BY <1>1, <1>2, <1>3, <1>4, <2>1
       DEF Promised!Return, HeldOffsets, FailedOutputs, HasReturned
  <2>. QED
    BY <2>2 DEF Promised!Next
<1>5. CASE HasReturned' = FALSE /\ Outputs # {}
  <2>1. PICK d \in Outputs : TRUE
    BY <1>5
  <2>2. HeldOffsets' = [HeldOffsets EXCEPT ![d] = @ \cup {}]
    BY <1>1 DEF HeldOffsets
  <2>3. \E more \in SUBSET Offsets : HeldOffsets' = [HeldOffsets EXCEPT ![d] = @ \cup more]
    BY <2>2
  <2>4. Promised!Work(d)
    BY <1>2, <1>3, <1>5, <2>3
       DEF Promised!Work, HeldOffsets, FailedOutputs, HasReturned
  <2>. QED
    BY <2>4 DEF Promised!Next
<1>6. CASE HasReturned' = FALSE /\ Outputs = {}
  <2>1. FailedOutputs' = FailedOutputs
    BY <1>6 DEF FailedOutputs
  <2>. QED
    BY <1>1, <1>3, <1>6, <2>1 DEF Promised!vars, HeldOffsets, FailedOutputs, HasReturned
<1>. QED
  BY <1>3, <1>4, <1>5, <1>6

(* When a batch ends the file, what has met no fault is a copy of it. *)
LEMMA WholeCopies ==
    ASSUME IInv, OneInv, ~gaveUp, expected_cqes = 0, sq = <<>>,
           ~(total_processed < FileSize),
           NEW d \in Outputs \ faulted
    PROVE  HeldOffsets[d] = Offsets
<1>1. Pending = {} /\ dropped = {}
  BY NothingPending DEF OneInv, OneInFlight
<1>2. ASSUME NEW o \in Offsets
      PROVE  content[d][o] = o
  <2>1. o < total_processed
    BY Constants DEF IInv, TypeOK
  <2>2. content[d][o] # Hole
    BY <1>1, <2>1 DEF IInv, Covered
  <2>. QED
    BY <2>2 DEF OneInv, RightData
<1>. QED
  BY <1>2 DEF HeldOffsets

(* What the kernel does is work on one output. *)
LEMMA ExecuteMapped ==
    ASSUME IInv, NEW chain \in chains, Execute(chain)
    PROVE  Promised!Next
<1>1. PICK p \in Places : \E k \in Results(p) :
          FillRun(p, k, chain) \/ DrainRun(p, k, chain)
  BY ExecuteCases
<1>2. PICK k \in Results(p) : FillRun(p, k, chain) \/ DrainRun(p, k, chain)
  BY <1>1
<1>3. p = <<p[1], p[2]>> /\ p[1] \in Outputs
  BY EntryFields
<1>. DEFINE d == p[1]
<1>4. UNCHANGED <<pc, gaveUp, total_processed, expected_cqes, sq>>
  BY DEF Execute, loopVars
<1>5. faulted \subseteq faulted' /\ p \in Pending
  BY <1>2 DEF FillRun, DrainRun, Pending
<1>6. /\ \A e \in Outputs \ {d}, o \in Offsets : content'[e][o] = content[e][o]
      /\ \A o \in Offsets : content[d][o] = o => content'[d][o] = o
  <2>1. CASE FillRun(p, k, chain)
    BY <2>1 DEF FillRun
  <2>2. CASE DrainRun(p, k, chain)
    <3>1. DrainDone(Completion(DrainAt(p), k), p)
      BY DEF DrainDone
    <3>2. ASSUME NEW e \in Outputs, NEW o \in Offsets,
                 <<e, o>> \in Span(Completion(DrainAt(p), k))
          PROVE  e = d /\ content[e][o] = Hole
      <4>1. e = d /\ StartOf(o) = p[2]
        BY <3>1, <3>2, DrainSpan
      <4>2. <<e, StartOf(o)>> \in Pending
        BY <1>3, <1>5, <4>1
      <4>. QED
        BY <4>1, <4>2 DEF IInv, Unwritten
    <3>3. \A o \in Offsets : o # Hole
      BY Constants
    <3>4. ASSUME NEW e \in Outputs, NEW o \in Offsets,
                 <<e, o>> \notin Span(Completion(DrainAt(p), k))
          PROVE  content'[e][o] = content[e][o]
      BY <2>2, <3>4, ContentAfter
    <3>. QED
      BY <1>3, <3>2, <3>3, <3>4
  <2>. QED
    BY <1>2, <2>1, <2>2
<1>7. \E more \in SUBSET Offsets : HeldOffsets' = [HeldOffsets EXCEPT ![d] = @ \cup more]
  <2>. DEFINE more == {o \in Offsets : content'[d][o] = o}
  <2>1. \A e \in Outputs \ {d} : HeldOffsets'[e] = HeldOffsets[e]
    BY <1>6 DEF HeldOffsets
  <2>2. HeldOffsets'[d] = HeldOffsets[d] \cup more
    BY <1>3, <1>6 DEF HeldOffsets
  <2>3. HeldOffsets' = [HeldOffsets EXCEPT ![d] = @ \cup more]
    <3>1. HeldOffsets' = [e \in Outputs |-> HeldOffsets'[e]]
      BY DEF HeldOffsets
    <3>2. HeldOffsets = [e \in Outputs |-> HeldOffsets[e]]
      BY DEF HeldOffsets
    <3>. HIDE DEF more
    <3>. QED
      BY <1>3, <2>1, <2>2, <3>1, <3>2
  <2>. QED
    BY <2>3
<1>8. /\ FailedOutputs' \in SUBSET Outputs
      /\ FailedOutputs' = FailedOutputs \cup FailedOutputs'
      /\ HasReturned' = HasReturned
  BY <1>4, <1>5 DEF FailedOutputs, HasReturned
<1>9. CASE pc # "done"
  <2>1. HasReturned = FALSE
    BY <1>9 DEF HasReturned
  <2>2. Promised!Work(d)
    BY <1>3, <1>7, <1>8, <2>1
       DEF Promised!Work, HeldOffsets, FailedOutputs, HasReturned
  <2>. QED
    BY <1>3, <2>2 DEF Promised!Next
<1>10. CASE pc = "done"
  <2>1. HasReturned = TRUE
    BY <1>10 DEF HasReturned
  <2>2. gaveUp
    <3>1. ~gaveUp => expected_cqes = 0 /\ sq = <<>>
      BY <1>10 DEF IInv, Progress, Queues
    <3>. QED
      BY <3>1, NothingPending
  <2>3. FailedOutputs = Outputs /\ FailedOutputs' = Outputs
    BY <1>4, <2>2 DEF FailedOutputs
  <2>4. Promised!Late(d)
    BY <1>3, <1>7, <1>8, <2>1, <2>3
       DEF Promised!Late, HeldOffsets, FailedOutputs, HasReturned
  <2>. QED
    BY <1>3, <2>4 DEF Promised!Next
<1>. QED
  BY <1>9, <1>10

(* Every step is one of the abstract broadcast, or a stutter. *)
LEMMA MappedSteps ==
    ASSUME OneChunk, IInv, OneInv, [Next]_vars
    PROVE  [Promised!Next]_(Promised!vars)
<1>1. CASE UNCHANGED vars
  <2>1. UNCHANGED <<pc, content, faulted, gaveUp>>
    BY <1>1 DEF vars, kernelVars, faultVars
  <2>. QED
    BY <2>1 DEF Promised!vars
<1>2. CASE PrepareChunk \/ \E c \in cq : Reap(c)
  <2>1. /\ UNCHANGED <<content, faulted, gaveUp>>
        /\ pc # "done" /\ pc' # "done"
    BY <1>2, PrepareOne DEF PrepareChunk, Reap, kernelVars, faultVars, OneInv
  <2>2. HasReturned = FALSE /\ HasReturned' = FALSE /\ FailedOutputs' = FailedOutputs
    BY <2>1 DEF HasReturned, FailedOutputs
  <2>. QED
    BY <2>1, <2>2, WorkOrReturn
<1>3. CASE EndBatch
  <2>1. /\ pc = "reap" /\ expected_cqes = 0 /\ AfterBatch
        /\ UNCHANGED <<content, faulted, gaveUp>>
    BY <1>3 DEF EndBatch, kernelVars, faultVars
  <2>2. ~HasReturned /\ FailedOutputs' = FailedOutputs
    BY <2>1 DEF HasReturned, FailedOutputs
  <2>3. ASSUME HasReturned', NEW d \in Outputs \ FailedOutputs
        PROVE  HeldOffsets[d] = Offsets
    <3>1. d \in Outputs \ faulted /\ ~gaveUp
      BY DEF FailedOutputs
    <3>2. ~(total_processed < FileSize) /\ sq = <<>>
      BY <2>1, <2>3 DEF AfterBatch, HasReturned, IInv, Queues
    <3>. QED
      BY <2>1, <3>1, <3>2, WholeCopies
  <2>. QED
    BY <2>1, <2>2, <2>3, WorkOrReturn
<1>4. CASE WaitFails
  <2>1. pc = "reap" /\ gaveUp' = TRUE /\ content' = content
    BY <1>4 DEF WaitFails, kernelVars
  <2>2. ~HasReturned /\ FailedOutputs' = Outputs
    BY <2>1 DEF HasReturned, FailedOutputs
  <2>. QED
    BY <2>1, <2>2, WorkOrReturn
<1>5. CASE \E chain \in chains : Execute(chain)
  BY <1>5, ExecuteMapped
<1>. QED
  BY <1>1, <1>2, <1>3, <1>4, <1>5 DEF Next, Terminated

(* If every batch is one chunk, and the file is not empty (the call on an  *)
(* empty one has returned before the first step), mode 3 implements the    *)
(* abstract broadcast.                                                     *)
THEOREM ImplementsBroadcast ==
    ASSUME OneChunk, FileSize > 0 PROVE Spec => Promised!Safety
<1>1. Init => Promised!Init
  <2>. SUFFICES ASSUME Init PROVE Promised!Init
    OBVIOUS
  <2>1. HeldOffsets = [d \in Outputs |-> {}]
    <3>1. \A d \in Outputs, o \in Offsets : content[d][o] = Hole /\ o # Hole
      BY Constants DEF Init
    <3>. QED
      BY <3>1 DEF HeldOffsets
  <2>2. FailedOutputs = {} /\ HasReturned = FALSE
    BY DEF Init, FailedOutputs, HasReturned
  <2>. QED
    BY <2>1, <2>2 DEF Promised!Init, HeldOffsets, FailedOutputs, HasReturned
<1>2. IInv /\ OneInv /\ [Next]_vars => [Promised!Next]_(Promised!vars)
  BY MappedSteps
<1>. QED
  BY <1>1, <1>2, OneInvariance, PTL DEF Spec, Promised!Safety

-----------------------------------------------------------------------------
(* The kernel completes the fill or the drain it executes for good. *)
LEMMA ExecuteCompletes ==
    ASSUME IInv, NEW chain \in chains, Execute(chain)
    PROVE  InKernel' \subseteq InKernel /\ InKernel' # InKernel
<1>0. PICK p \in Places : \E k \in Results(p) :
          FillRun(p, k, chain) \/ DrainRun(p, k, chain)
  BY ExecuteCases
<1>1. PICK k \in Results(p) : FillRun(p, k, chain) \/ DrainRun(p, k, chain)
  BY <1>0
<1>2. WellFormed(chains) /\ PairsIn(chains) \cap RestsIn(chains) = {}
  BY DEF IInv, Queues, PairPlaces, RestPlaces
<1>3. InKernel = EntriesIn(chains) /\ InKernel' = EntriesIn(chains')
  BY KernelSets, KernelSetsNext
<1>4. CASE FillRun(p, k, chain)
  <2>1. /\ p \in PairsIn(chains)
        /\ \/ chains' = (chains \ {PairAt(p)}) \cup {RestAt(p)}
           \/ chains' = chains \ {PairAt(p)}
    BY <1>4 DEF FillRun, PairPlaces
  <2>2. /\ FillAt(p) \in EntriesIn(chains)
        /\ EntriesIn(chains \ {PairAt(p)}) =
               (EntriesIn(chains) \ {FillAt(p)}) \ {DrainAt(p)}
        /\ EntriesIn((chains \ {PairAt(p)}) \cup {RestAt(p)}) =
               EntriesIn(chains) \ {FillAt(p)}
    BY <1>2, <2>1, EntriesLeft
  <2>. QED
    BY <1>3, <2>1, <2>2
<1>5. CASE DrainRun(p, k, chain)
  <2>1. p \in RestsIn(chains) /\ chains' = chains \ {RestAt(p)}
    BY <1>5 DEF DrainRun, RestPlaces
  <2>2. /\ DrainAt(p) \in EntriesIn(chains)
        /\ EntriesIn(chains \ {RestAt(p)}) = EntriesIn(chains) \ {DrainAt(p)}
    BY <1>2, <2>1, EntriesLeft
  <2>. QED
    BY <1>3, <2>1, <2>2
<1>. QED
  BY <1>1, <1>4, <1>5

(* Every step brings the call nearer to its end: the loop goes on to the   *)
(* waiting or to the next chunk, an entry is completed, or a completion is *)
(* seen.                                                                   *)
THEOREM CallAdvances == Spec => Advances
<1>. DEFINE A == \/ Turn' > Turn
                 \/ /\ UNCHANGED Turn
                    /\ \/ InKernel' \subseteq InKernel /\ InKernel' # InKernel
                       \/ InKernel' = InKernel /\ cq' \subseteq cq /\ cq' # cq
<1>1. ASSUME IInv, Next PROVE A \/ UNCHANGED vars
  <2>1. total_processed \in Nat
    BY <1>1, Constants DEF IInv, TypeOK
  <2>2. CASE PrepareChunk
    <3>1. /\ pc = "prepare" /\ total_processed \in Starts
          /\ total_processed' = total_processed + LenAt(total_processed)
      BY <1>1, <2>2, PrepareCases
    <3>2. LenAt(total_processed) \in Nat /\ LenAt(total_processed) >= 1
      BY <3>1, ChunkLength, Constants
    <3>. QED
      BY <2>1, <3>1, <3>2 DEF Turn
  <2>3. CASE EndBatch \/ WaitFails
    <3>1. pc = "reap" /\ pc' # "reap" /\ total_processed' = total_processed
      BY <2>3 DEF EndBatch, WaitFails, AfterBatch, loopVars
    <3>. QED
      BY <2>1, <3>1 DEF Turn
  <2>4. ASSUME NEW c \in cq, Reap(c) PROVE A
    <3>1. /\ UNCHANGED <<pc, total_processed, chains>>
          /\ cq' = cq \ {c}
      BY <2>4 DEF Reap, kernelVars
    <3>. QED
      BY <3>1 DEF Turn, InKernel
  <2>5. ASSUME NEW chain \in chains, Execute(chain) PROVE A
    <3>1. UNCHANGED <<pc, total_processed>>
      BY <2>5 DEF Execute, loopVars
    <3>. QED
      BY <1>1, <2>5, <3>1, ExecuteCompletes DEF Turn
  <2>6. CASE Terminated
    BY <2>6 DEF Terminated
  <2>. QED
    BY <1>1, <2>2, <2>3, <2>4, <2>5, <2>6 DEF Next
<1>2. IInv /\ [Next]_vars => [A]_vars
  BY <1>1
<1>. QED
  BY <1>2, Invariance, PTL DEF Spec, Advances
=============================================================================
