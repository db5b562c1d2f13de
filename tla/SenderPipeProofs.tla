--------------------------- MODULE SenderPipeProofs ---------------------------
(***************************************************************************)
(* Theorems about the pipe sender, for every file, block and queue size    *)
(* and bound on faults: the types, that the first reads have buffers of    *)
(* their own, that the buffers are at rest when they are freed, that the   *)
(* total is the size of the file if and only if nothing went wrong, and    *)
(* that no wait is in vain and every step brings the call nearer its end.  *)
(*                                                                         *)
(* The invariant says where the read of a block is: a block before offset  *)
(* is in the submission queue, with the kernel or in the completion queue, *)
(* in one of them only, or it has been seen; idx counts the former, and    *)
(* total_read the bytes of the latter.                                     *)
(***************************************************************************)
EXTENDS SenderPipe, SharedLemmas

At(reads) == {r[1] : r \in reads}

(* The blocks whose read is out. *)
OutAt == At(sq) \cup At(inflight) \cup At(cq)

(* A block is read once, and its read is in one place. *)
Apart(reads) == \A r, s \in reads : r[1] = s[1] => r = s

InOnePlace ==
    /\ Apart(sq) /\ Apart(inflight) /\ Apart(cq)
    /\ At(sq) \cap At(inflight) = {}
    /\ At(sq) \cap At(cq) = {}
    /\ At(inflight) \cap At(cq) = {}

(* Reads are out of blocks of the file that the loop has passed. *)
Passed ==
    /\ offset % BLOCK = 0 /\ offset <= aligned_size
    /\ \A off \in OutAt : off \in StartsIn(BLOCK, fsize) /\ off < offset

(* idx is their number, until a read error ends the loop. *)
Queued == IsFiniteSet(OutAt) /\ (~erred => idx = Cardinality(OutAt))

Phases ==
    /\ pc \in {"open", "failed", "exited"} => offset = 0
    /\ pc # "queue" => sq = {}
    /\ pc \in {"open", "queue", "wait"} => ~erred
    /\ erred => faults > 0
    /\ pc \in {"clean", "done"} /\ ~erred => OutAt = {} /\ offset = aligned_size

(* As long as nothing was seen the n-th read goes into the n-th buffer. *)
FirstReads ==
    /\ offset < aligned_size /\ offset < Q_DEPTH * BLOCK =>
           pc \in {"open", "queue", "failed", "exited"} /\ BLOCK * idx = offset
    /\ offset <= Q_DEPTH * BLOCK =>
           \A r \in sq \cup inflight \cup cq : r[1] = BLOCK * r[2]

(* The bytes of a file of some size whose read has been seen, when the loop *)
(* is at off and the reads of the blocks in out are out.                    *)
SeenOf(size, off, out) ==
    {b \in 0 .. (size - 1) : StartIn(BLOCK, b) < off /\ StartIn(BLOCK, b) \notin out}
Seen == SeenOf(fsize, offset, OutAt)

(* They are counted, unless their read failed or was short, which a fault  *)
(* has caused; and every fault shows, or is going to when it is seen.      *)
Total ==
    /\ \A c \in cq : c[3] <= There(c[1])
    /\ total_read <= Cardinality(Seen)
    /\ faults = 0 =>
           total_read = Cardinality(Seen) /\ \A c \in cq : c[3] = There(c[1])
    /\ faults > 0 /\ pc \in {"open", "queue", "wait", "clean", "done"} =>
           total_read < Cardinality(Seen) \/ \E c \in cq : c[3] < There(c[1])

IInv ==
    /\ TypeOK
    /\ erred \in BOOLEAN
    /\ InOnePlace
    /\ Passed
    /\ Queued
    /\ Phases
    /\ FirstReads
    /\ DataInPlace
    /\ Total

-----------------------------------------------------------------------------
(* Constants are in range. *)
LEMMA Constants ==
    /\ MaxSize \in Nat /\ BLOCK \in Nat \ {0} /\ Q_DEPTH \in Nat \ {0}
    /\ MaxFaults \in Nat
  BY SenderAssumption

(* The size of the file, and rounded up to blocks. *)
LEMMA Sizes ==
    ASSUME fsize \in FdGetFileSize
    PROVE  /\ fsize \in Nat /\ fsize <= MaxSize
           /\ aligned_size \in Nat /\ fsize <= aligned_size /\ aligned_size < fsize + BLOCK
           /\ aligned_size % BLOCK = 0
           /\ \A o \in Nat : o % BLOCK = 0 /\ o < aligned_size => o \in StartsIn(BLOCK, fsize)
<1>1. fsize \in Nat /\ fsize <= MaxSize
  BY Constants DEF FdGetFileSize
<1>. QED
  BY <1>1, RoundedUp, Constants DEF aligned_size

(* What a read of a block returns at most. *)
LEMMA ReadLength ==
    ASSUME fsize \in FdGetFileSize, NEW off \in StartsIn(BLOCK, fsize)
    PROVE  /\ off \in Nat /\ off < fsize /\ off \in Offsets
           /\ There(off) = LengthIn(BLOCK, fsize, off)
           /\ There(off) \in 1 .. BLOCK
<1>1. fsize \in Nat /\ fsize <= MaxSize
  BY Sizes
<1>2. There(off) = LengthIn(BLOCK, fsize, off)
  BY DEF There, LengthIn
<1>3. off \in Nat /\ off < fsize /\ LengthIn(BLOCK, fsize, off) \in 1 .. BLOCK
  BY <1>1, ChunkInFile, Constants
<1>4. off \in Offsets
  BY <1>1, <1>3, Constants DEF StartsIn, Offsets
<1>. QED
  BY <1>2, <1>3, <1>4

(* The blocks of a set of reads, with one more or one less. *)
LEMMA Blocks ==
    ASSUME NEW S, NEW T, NEW x
    PROVE  /\ At({}) = {} /\ (At(S) = {} => S = {})
           /\ At(S \cup T) = At(S) \cup At(T)
           /\ At(S \cup {x}) = At(S) \cup {x[1]}
           /\ Apart(S) /\ x \in S => At(S \ {x}) = At(S) \ {x[1]}
  BY DEF At, Apart

(* The bytes seen are bytes of the file; all of them when no read is out   *)
(* any more and the loop has come to the end.                              *)
LEMMA SeenBytes ==
    ASSUME NEW size \in Nat, NEW off \in Nat, NEW out
    PROVE  /\ IsFiniteSet(SeenOf(size, off, out))
           /\ Cardinality(SeenOf(size, off, out)) \in Nat
           /\ Cardinality(SeenOf(size, off, out)) <= size
           /\ \A s \in out : s \in StartsIn(BLOCK, size) =>
                  Cardinality(SeenOf(size, off, out)) < size
           /\ out = {} /\ size <= off => Cardinality(SeenOf(size, off, out)) = size
           /\ off = 0 => Cardinality(SeenOf(size, off, out)) = 0
<1>. DEFINE bytes == 0 .. (size - 1)
            seen == SeenOf(size, off, out)
<1>1. IsFiniteSet(bytes) /\ Cardinality(bytes) = size
  <2>1. size - 1 \in Int /\ 0 \in Int
    OBVIOUS
  <2>2. IsFiniteSet(bytes)
        /\ Cardinality(bytes) = IF 0 > size - 1 THEN 0 ELSE (size - 1) - 0 + 1
    BY <2>1, FS_Interval
  <2>. QED
    BY <2>2
<1>2. seen \subseteq bytes
  BY DEF SeenOf
<1>3. \A b \in bytes : StartIn(BLOCK, b) \in StartsIn(BLOCK, size) /\ StartIn(BLOCK, b) <= b
  BY StartInFile, Constants
<1>4. \A b \in bytes : b \in Nat /\ b < size /\ StartIn(BLOCK, b) \in Nat
  BY <1>3 DEF StartsIn
<1>5. ASSUME NEW s \in out, s \in StartsIn(BLOCK, size) PROVE Cardinality(seen) < size
  <2>1. s \in bytes /\ StartIn(BLOCK, s) = s
    BY <1>5, ChunkInFile, Constants DEF StartsIn, StartIn
  <2>2. s \notin seen
    BY <1>5, <2>1 DEF SeenOf
  <2>3. seen # bytes
    BY <2>1, <2>2
  <2>. HIDE DEF bytes, seen
  <2>4. IsFiniteSet(seen) /\ Cardinality(seen) <= size /\ Cardinality(seen) # size
    BY <1>1, <1>2, <2>3, FS_Subset
  <2>. QED
    BY <2>4, FS_CardinalityType
<1>6. ASSUME out = {}, size <= off PROVE Cardinality(seen) = size
  <2>1. seen = bytes
    BY <1>2, <1>3, <1>4, <1>6 DEF SeenOf
  <2>. QED
    BY <1>1, <2>1
<1>7. ASSUME off = 0 PROVE Cardinality(seen) = 0
  <2>1. seen = {}
    BY <1>4, <1>7 DEF SeenOf
  <2>. QED
    BY <2>1, FS_EmptySet
<1>8. IsFiniteSet(seen) /\ Cardinality(seen) <= size
  <2>. HIDE DEF bytes, seen
  <2>. QED
    BY <1>1, <1>2, FS_Subset
<1>. QED
  BY <1>5, <1>6, <1>7, <1>8, FS_CardinalityType DEF seen

(* Queueing a read makes no byte seen. *)
LEMMA SeenQueued ==
    ASSUME NEW size \in Nat, NEW off \in StartsIn(BLOCK, size), NEW out
    PROVE  SeenOf(size, off + BLOCK, out \cup {off}) = SeenOf(size, off, out)
<1>1. ASSUME NEW b \in 0 .. (size - 1)
      PROVE  StartIn(BLOCK, b) < off + BLOCK /\ StartIn(BLOCK, b) # off
                 <=> StartIn(BLOCK, b) < off
  <2>. DEFINE t == StartIn(BLOCK, b)
  <2>1. t \in StartsIn(BLOCK, size) /\ t <= b /\ b < size
    BY StartInFile, Constants
  <2>2. t \in Nat /\ off \in Nat /\ t < size
    BY <2>1 DEF StartsIn
  <2>3. off < t => off + LengthIn(BLOCK, size, off) <= t
    BY <2>1, NextChunk, Constants
  <2>4. LengthIn(BLOCK, size, off) = IF size - off < BLOCK THEN size - off ELSE BLOCK
    BY DEF LengthIn
  <2>. HIDE DEF t
  <2>. QED
    BY <2>2, <2>3, <2>4, Constants DEF t
<1>. QED
  BY <1>1 DEF SeenOf

(* When a read is seen, so are the bytes of its block. *)
LEMMA SeenMore ==
    ASSUME NEW size \in Nat, NEW off \in Nat, NEW out,
           NEW s \in out, s \in StartsIn(BLOCK, size), s < off
    PROVE  Cardinality(SeenOf(size, off, out \ {s})) =
               Cardinality(SeenOf(size, off, out)) + LengthIn(BLOCK, size, s)
<1>. DEFINE seen == SeenOf(size, off, out)
            block == ChunkIn(BLOCK, size, s)
            more == SeenOf(size, off, out \ {s})
<1>1. more = seen \cup block /\ seen \cap block = {}
  BY DEF SeenOf, ChunkIn
<1>2. IsFiniteSet(block) /\ Cardinality(block) = LengthIn(BLOCK, size, s)
      /\ LengthIn(BLOCK, size, s) \in Nat
  BY ChunkOffsets, ChunkInFile, Constants
<1>3. IsFiniteSet(seen) /\ Cardinality(seen) \in Nat
  BY SeenBytes
<1>. HIDE DEF seen, block, more
<1>4. Cardinality(more) = Cardinality(seen) + Cardinality(block) - Cardinality({})
  BY <1>1, <1>2, <1>3, FS_Union
<1>5. Cardinality({}) = 0
  BY FS_EmptySet
<1>. QED
  BY <1>2, <1>3, <1>4, <1>5 DEF seen, more

-----------------------------------------------------------------------------
(* The invariant holds at the start. *)
LEMMA Initially == Init => IInv
<1>. SUFFICES ASSUME Init PROVE IInv
  OBVIOUS
<1>. USE DEF Init
<1>1. OutAt = {} /\ IsFiniteSet(OutAt) /\ Cardinality(OutAt) = 0
  <2>1. At({}) = {}
    BY DEF At
  <2>2. OutAt = {}
    BY <2>1 DEF OutAt
  <2>. QED
    BY <2>2, FS_EmptySet
<1>2. fsize \in Nat /\ fsize <= MaxSize /\ aligned_size \in Nat
  BY Sizes
<1>3. Cardinality(Seen) = 0
  BY <1>2, SeenBytes DEF Seen
<1>4. TypeOK
  BY <1>2, Constants DEF TypeOK, Buffers
<1>5. InOnePlace
  BY Blocks DEF InOnePlace, Apart
<1>6. Passed
  <2>1. 0 % BLOCK = 0
    BY Constants
  <2>. QED
    BY <1>1, <1>2, <2>1 DEF Passed
<1>7. FirstReads
  <2>1. BLOCK * 0 = 0
    BY Constants
  <2>. QED
    BY <2>1 DEF FirstReads
<1>8. Total
  BY <1>2, <1>3, Constants DEF Total
<1>. QED
  BY <1>1, <1>4, <1>5, <1>6, <1>7, <1>8 DEF IInv, Queued, Phases, DataInPlace

(* The steps before the first read and after the last one. *)
LEMMA OutsideKeeps ==
    ASSUME IInv, NoRing \/ Open \/ OpenFails \/ WaitFails \/ CleanUp \/ UNCHANGED vars
    PROVE  IInv'
<1>. USE DEF NoRing, Open, OpenFails, WaitFails, CleanUp, vars, readVars, Fault
<1>1. /\ UNCHANGED <<fsize, offset, idx, total_read, sq, inflight, cq, buffer, erred>>
      /\ faults' \in {faults, faults + 1} /\ (faults' = faults \/ faults < MaxFaults)
      /\ \/ pc = "open" /\ pc' \in {"queue", "exited", "failed"}
         \/ pc = "wait" /\ pc' = "crashed"
         \/ pc = "clean" /\ pc' = "done"
         \/ pc' = pc
      /\ faults' = faults \/ pc' \in {"exited", "failed", "crashed"}
  OBVIOUS
<1>2. /\ OutAt' = OutAt /\ Seen' = Seen /\ aligned_size' = aligned_size
      /\ \A off : There(off)' = There(off)
  BY <1>1 DEF OutAt, At, Seen, aligned_size, There
<1>3. faults \in Nat /\ faults' \in 0 .. MaxFaults
  BY <1>1, Constants DEF IInv, TypeOK
<1>4. held' \subseteq {"ring", "fd", "buffers"}
  BY DEF IInv, TypeOK
<1>5. TypeOK'
  BY <1>1, <1>3, <1>4 DEF IInv, TypeOK
<1>6. InOnePlace' /\ Passed' /\ Queued'
  BY <1>1, <1>2 DEF IInv, InOnePlace, At, Passed, Queued
<1>7. Phases'
  BY <1>1, <1>2, <1>3 DEF IInv, Phases
<1>8. FirstReads' /\ DataInPlace'
  BY <1>1, <1>2 DEF IInv, FirstReads, DataInPlace, Phases
<1>9. Total'
  BY <1>1, <1>2, <1>3 DEF IInv, Total
<1>. QED
  BY <1>1, <1>5, <1>6, <1>7, <1>8, <1>9 DEF IInv

(* Queueing the next read. *)
LEMMA QueueKeeps == ASSUME IInv, Queue PROVE IInv'
<1>. DEFINE read == <<offset, idx>>
<1>1. /\ pc = "queue" /\ idx < Q_DEPTH /\ offset < aligned_size
      /\ sq' = sq \cup {read}
      /\ offset' = offset + BLOCK /\ idx' = idx + 1
      /\ UNCHANGED <<pc, fsize, total_read, inflight, cq, buffer, held, faults, erred>>
  BY DEF Queue, Room, NextBuffer
<1>2. read[1] = offset /\ read[2] = idx
  OBVIOUS
<1>3. /\ fsize \in Nat /\ fsize <= MaxSize /\ aligned_size \in Nat
      /\ aligned_size < fsize + BLOCK /\ aligned_size % BLOCK = 0
      /\ offset \in Nat /\ offset % BLOCK = 0 /\ idx \in Nat
      /\ offset \in StartsIn(BLOCK, fsize) /\ offset \in Offsets
      /\ There(offset) = LengthIn(BLOCK, fsize, offset)
  BY <1>1, Sizes, ReadLength, Constants DEF IInv, TypeOK, Passed
<1>4. read \in Reads
  BY <1>1, <1>3, Constants DEF Reads, Buffers
<1>. HIDE DEF read
<1>5. aligned_size' = aligned_size /\ \A off : There(off)' = There(off)
  BY <1>1 DEF aligned_size, There
<1>6. At(sq') = At(sq) \cup {offset} /\ OutAt' = OutAt \cup {offset} /\ offset \notin OutAt
  <2>1. \A off \in OutAt : off \in Nat /\ off < offset
    BY <1>3, Sizes, ReadLength DEF IInv, TypeOK, Passed
  <2>2. offset \notin OutAt
    BY <1>3, <2>1
  <2>3. At(sq \cup {read}) = At(sq) \cup {read[1]}
    BY Blocks
  <2>4. At(sq') = At(sq) \cup {offset}
    BY <1>1, <1>2, <2>3
  <2>. QED
    BY <1>1, <2>2, <2>4 DEF OutAt
<1>7. offset % BLOCK = 0 /\ offset' % BLOCK = 0 /\ offset' <= aligned_size
  <2>. DEFINE q == offset \div BLOCK
              n == aligned_size \div BLOCK
  <2>1. /\ q \in Nat /\ offset = BLOCK * q + (offset % BLOCK)
        /\ n \in Nat /\ aligned_size = BLOCK * n + (aligned_size % BLOCK)
    BY <1>3, DivMod, Constants
  <2>. HIDE DEF q, n
  <2>2. BLOCK * q \in Int /\ BLOCK * n \in Int
    BY <2>1, MulOrder, Constants
  <2>3. offset = BLOCK * q /\ aligned_size = BLOCK * n
    BY <1>3, <2>1, <2>2
  <2>4. q < n
    BY <1>1, <2>1, <2>3, MulOrder, Constants
  <2>5. /\ q + 1 \in Nat /\ BLOCK * (q + 1) = BLOCK * q + BLOCK
        /\ n < q + 1 <=> BLOCK * n < BLOCK * (q + 1)
        /\ (BLOCK * (q + 1)) % BLOCK = 0
    BY <2>1, MulOrder, MulMod, Constants
  <2>6. offset' = BLOCK * (q + 1)
    BY <1>1, <2>3, <2>5
  <2>7. ~(n < q + 1)
    BY <2>1, <2>4
  <2>8. offset' % BLOCK = 0
    BY <2>5, <2>6
  <2>9. ~(aligned_size < offset')
    BY <2>3, <2>5, <2>6, <2>7
  <2>. QED
    BY <1>1, <1>3, <2>8, <2>9, Constants
<1>8. TypeOK'
  <2>1. offset' \in 0 .. (MaxSize + BLOCK - 1) /\ idx' \in 0 .. Q_DEPTH
    BY <1>1, <1>3, <1>7, Constants
  <2>2. sq' \subseteq Reads
    BY <1>1, <1>4 DEF IInv, TypeOK
  <2>. QED
    BY <1>1, <2>1, <2>2 DEF IInv, TypeOK
<1>9. InOnePlace'
  <2>1. Apart(sq')
    <3>1. \A r \in sq : r[1] # offset
      BY <1>6 DEF OutAt, At
    <3>. QED
      BY <1>1, <1>2, <3>1 DEF IInv, InOnePlace, Apart
  <2>2. At(inflight)' = At(inflight) /\ At(cq)' = At(cq) /\ At(sq)' = At(sq) \cup {offset}
    BY <1>1, <1>6 DEF At
  <2>3. Apart(inflight)' /\ Apart(cq)'
    BY <1>1 DEF IInv, InOnePlace, Apart
  <2>. QED
    BY <1>6, <2>1, <2>2, <2>3 DEF IInv, InOnePlace, OutAt
<1>10. Passed'
  <2>1. ASSUME NEW off \in OutAt' PROVE off \in StartsIn(BLOCK, fsize)' /\ off < offset'
    <3>1. off \in StartsIn(BLOCK, fsize)
      BY <1>3, <1>6 DEF IInv, Passed
    <3>2. off \in Nat /\ off <= offset
      <4>1. off \in Nat
        BY <3>1 DEF StartsIn
      <4>. QED
        BY <1>3, <1>6, <4>1 DEF IInv, Passed
    <3>. QED
      BY <1>1, <1>3, <3>1, <3>2, Constants
  <2>. QED
    BY <1>5, <1>7, <2>1 DEF Passed
<1>11. Queued'
  <2>1. IsFiniteSet(OutAt') /\ Cardinality(OutAt') = Cardinality(OutAt) + 1
    BY <1>6, FS_AddElement DEF IInv, Queued
  <2>. QED
    BY <1>1, <2>1 DEF IInv, Queued
<1>12. Phases'
  BY <1>1 DEF IInv, Phases
<1>13. FirstReads' /\ DataInPlace'
  <2>1. /\ BLOCK * (idx + 1) = BLOCK * idx + BLOCK
        /\ offset' > offset /\ Q_DEPTH * BLOCK \in Int
        /\ Q_DEPTH * BLOCK = BLOCK * Q_DEPTH
    BY <1>1, <1>3, MulOrder, Constants
  <2>2. ASSUME offset < Q_DEPTH * BLOCK PROVE BLOCK * idx = offset
    BY <1>1, <2>2 DEF IInv, FirstReads
  <2>3. ASSUME offset' <= Q_DEPTH * BLOCK PROVE offset < Q_DEPTH * BLOCK
    BY <1>1, <1>3, <2>1, <2>3
  <2>4. (offset < aligned_size /\ offset < Q_DEPTH * BLOCK)' => BLOCK * idx' = offset'
    BY <1>1, <1>3, <2>1, <2>2, <2>3
  <2>5. FirstReads'
    <3>1. ASSUME offset' <= Q_DEPTH * BLOCK, NEW r \in (sq \cup inflight \cup cq)'
          PROVE  r[1] = BLOCK * r[2]
      <4>1. CASE r = read
        BY <1>2, <2>2, <2>3, <3>1, <4>1
      <4>2. CASE r \in sq \cup inflight \cup cq
        BY <1>3, <2>1, <2>3, <3>1, <4>2 DEF IInv, FirstReads
      <4>. QED
        BY <1>1, <4>1, <4>2
    <3>. QED
      BY <1>1, <2>4, <3>1 DEF FirstReads
  <2>6. DataInPlace'
    <3>1. offset' <= Q_DEPTH * BLOCK => offset <= Q_DEPTH * BLOCK
      BY <1>3, <2>1, <2>3
    <3>. QED
      BY <1>1, <1>5, <3>1 DEF IInv, DataInPlace
  <2>. QED
    BY <2>5, <2>6
<1>14. Total'
  <2>1. Seen' = Seen
    BY <1>1, <1>3, <1>6, SeenQueued DEF Seen
  <2>. QED
    BY <1>1, <1>5, <2>1 DEF IInv, Total
<1>. QED
  BY <1>1, <1>8, <1>9, <1>10, <1>11, <1>12, <1>13, <1>14 DEF IInv

(* Submitting the queue, or leaving the loop. *)
LEMMA SubmitKeeps == ASSUME IInv, Submit PROVE IInv'
<1>1. /\ pc = "queue" /\ ~(idx < Q_DEPTH /\ offset < aligned_size)
      /\ inflight' = inflight \cup sq /\ sq' = {}
      /\ pc' = IF idx = 0 THEN "clean" ELSE "wait"
      /\ UNCHANGED <<fsize, offset, idx, total_read, cq, buffer, held, faults, erred>>
  BY DEF Submit, Room, AllSeen
<1>2. aligned_size' = aligned_size /\ \A off : There(off)' = There(off)
  BY <1>1 DEF aligned_size, There
<1>3. At(inflight') = At(inflight) \cup At(sq) /\ At(sq') = {} /\ OutAt' = OutAt /\ Seen' = Seen
  <2>1. At(inflight \cup sq) = At(inflight) \cup At(sq) /\ At({}) = {}
    BY Blocks
  <2>2. OutAt' = OutAt
    BY <1>1, <2>1 DEF OutAt
  <2>. QED
    BY <1>1, <2>1, <2>2 DEF Seen
<1>4. TypeOK'
  BY <1>1 DEF IInv, TypeOK
<1>5. InOnePlace'
  <2>1. Apart(inflight')
    <3>1. \A r \in inflight, s \in sq : r[1] # s[1]
      BY DEF IInv, InOnePlace, At
    <3>. QED
      BY <1>1, <3>1 DEF IInv, InOnePlace, Apart
  <2>2. Apart(sq') /\ Apart(cq') /\ At(cq') = At(cq)
    BY <1>1 DEF IInv, InOnePlace, Apart
  <2>. QED
    BY <1>3, <2>1, <2>2 DEF IInv, InOnePlace
<1>6. Passed' /\ Queued'
  BY <1>1, <1>2, <1>3 DEF IInv, Passed, Queued
<1>7. idx \in Nat /\ offset \in Nat /\ aligned_size \in Nat /\ offset <= aligned_size
  BY Sizes, Constants DEF IInv, TypeOK, Passed
<1>8. Phases'
  <2>1. ASSUME idx = 0 PROVE OutAt = {} /\ offset = aligned_size
    <3>1. Cardinality(OutAt) = 0
      BY <1>1, <2>1 DEF IInv, Queued, Phases
    <3>2. OutAt = {}
      BY <3>1, FS_EmptySet DEF IInv, Queued
    <3>. QED
      BY <1>1, <1>7, <2>1, <3>2, Constants
  <2>. QED
    BY <1>1, <1>2, <1>3, <2>1 DEF IInv, Phases
<1>9. FirstReads' /\ DataInPlace'
  <2>1. ~(offset < aligned_size /\ offset < Q_DEPTH * BLOCK)
    <3>1. SUFFICES ASSUME offset < aligned_size, offset < Q_DEPTH * BLOCK PROVE FALSE
      OBVIOUS
    <3>2. ~(idx < Q_DEPTH) /\ BLOCK * idx = offset
      BY <1>1, <3>1 DEF IInv, FirstReads
    <3>3. idx = Q_DEPTH
      BY <1>7, <3>2, Constants DEF IInv, TypeOK
    <3>4. Q_DEPTH * BLOCK = BLOCK * idx
      BY <3>3, MulOrder, Constants
    <3>. QED
      BY <1>7, <3>1, <3>2, <3>4
  <2>2. FirstReads'
    <3>1. (sq \cup inflight \cup cq)' = sq \cup inflight \cup cq
      BY <1>1
    <3>2. ~(offset < aligned_size /\ offset < Q_DEPTH * BLOCK)'
      BY <1>1, <1>2, <2>1
    <3>. QED
      BY <1>1, <3>1, <3>2 DEF IInv, FirstReads
  <2>3. DataInPlace'
    BY <1>1, <1>2 DEF IInv, DataInPlace
  <2>. QED
    BY <2>2, <2>3
<1>10. Total'
  BY <1>1, <1>2, <1>3 DEF IInv, Total
<1>. QED
  BY <1>1, <1>4, <1>5, <1>6, <1>8, <1>9, <1>10 DEF IInv

(* Seeing a completion. *)
LEMMA SeeKeeps == ASSUME IInv, NEW c \in cq, See(c) PROVE IInv'
<1>. DEFINE off == c[1]
<1>1. /\ pc = "wait" /\ cq' = cq \ {c}
      /\ \/ c[3] < 0 /\ pc' = "clean" /\ erred' = TRUE /\ UNCHANGED <<idx, total_read>>
         \/ /\ ~(c[3] < 0) /\ pc' = "queue" /\ UNCHANGED erred
            /\ total_read' = total_read + c[3] /\ idx' = idx - 1
      /\ UNCHANGED <<fsize, offset, sq, inflight, buffer, held, faults>>
  BY DEF See, Counted
<1>2. aligned_size' = aligned_size /\ \A o : There(o)' = There(o)
  BY <1>1 DEF aligned_size, There
<1>3. off \in OutAt /\ off \notin At(sq) /\ off \notin At(inflight)
  BY DEF OutAt, At, IInv, InOnePlace
<1>4. /\ off \in StartsIn(BLOCK, fsize) /\ off < offset /\ There(off) \in 1 .. BLOCK
      /\ There(off) = LengthIn(BLOCK, fsize, off)
      /\ c[3] \in -1 .. BLOCK /\ c[3] <= There(off)
      /\ fsize \in Nat /\ offset \in Nat /\ offset % BLOCK = 0
  <2>1. off \in StartsIn(BLOCK, fsize) /\ off < offset /\ fsize \in FdGetFileSize
        /\ offset % BLOCK = 0
    BY <1>3 DEF IInv, TypeOK, Passed
  <2>2. c[3] \in -1 .. BLOCK /\ c[3] <= There(off)
    BY DEF IInv, TypeOK, Total
  <2>3. offset \in Nat
    BY Constants DEF IInv, TypeOK
  <2>. HIDE DEF off
  <2>4. There(off) \in 1 .. BLOCK /\ There(off) = LengthIn(BLOCK, fsize, off)
        /\ fsize \in Nat
    BY <2>1, ReadLength, Sizes
  <2>. QED
    BY <2>1, <2>2, <2>3, <2>4
<1>5. At(cq') = At(cq) \ {off} /\ OutAt' = OutAt \ {off}
  <2>1. Apart(cq)
    BY DEF IInv, InOnePlace
  <2>2. At(cq \ {c}) = At(cq) \ {off}
    BY <2>1, Blocks
  <2>. QED
    BY <1>1, <1>3, <2>2 DEF OutAt
<1>6. /\ Cardinality(Seen') = Cardinality(Seen) + There(off)
      /\ Cardinality(Seen) \in Nat
      /\ Cardinality(Seen') \in Nat /\ Cardinality(Seen') <= fsize
  <2>1. Seen' = SeenOf(fsize, offset, OutAt \ {off})
    BY <1>1, <1>5 DEF Seen
  <2>. HIDE DEF off
  <2>2. Cardinality(SeenOf(fsize, offset, OutAt \ {off})) =
            Cardinality(SeenOf(fsize, offset, OutAt)) + LengthIn(BLOCK, fsize, off)
    BY <1>3, <1>4, SeenMore
  <2>. QED
    BY <1>4, <2>1, <2>2, SeenBytes DEF Seen
<1>7. total_read \in Nat /\ total_read <= Cardinality(Seen)
  BY DEF IInv, TypeOK, Total
<1>8. total_read' \in Nat /\ total_read' <= Cardinality(Seen')
  BY <1>1, <1>4, <1>6, <1>7, Constants
<1>9. /\ IsFiniteSet(OutAt') /\ Cardinality(OutAt') = Cardinality(OutAt) - 1
      /\ Cardinality(OutAt') \in Nat
  BY <1>3, <1>5, FS_RemoveElement, FS_CardinalityType DEF IInv, Queued
<1>10. pc' = "queue" => idx' = Cardinality(OutAt') /\ idx' \in 0 .. Q_DEPTH
  BY <1>1, <1>9, Constants DEF IInv, Queued, Phases, TypeOK
<1>11. TypeOK'
  <2>1. idx' \in 0 .. Q_DEPTH
    BY <1>1, <1>10 DEF IInv, TypeOK
  <2>2. total_read' \in 0 .. fsize
    BY <1>4, <1>6, <1>8
  <2>. QED
    BY <1>1, <2>1, <2>2 DEF IInv, TypeOK
<1>12. InOnePlace'
  BY <1>1, <1>5 DEF IInv, InOnePlace, Apart
<1>13. Passed'
  BY <1>1, <1>2, <1>5 DEF IInv, Passed
<1>14. Queued' /\ erred' \in BOOLEAN
  BY <1>1, <1>9, <1>10 DEF IInv, Queued
<1>15. erred' => faults' > 0
  <2>1. c[3] < 0 => c[3] # There(off)
    BY <1>4, Constants
  <2>2. faults \in Nat
    BY Constants DEF IInv, TypeOK
  <2>3. c[3] < 0 => faults # 0
    BY <2>1 DEF IInv, Total
  <2>4. ~erred
    BY <1>1 DEF IInv, Phases
  <2>5. c[3] < 0 => faults' > 0
    BY <1>1, <2>2, <2>3
  <2>6. ~(c[3] < 0) => ~erred'
    BY <1>1, <2>4
  <2>. QED
    BY <2>5, <2>6, Zenon
<1>16. Phases'
  BY <1>1, <1>15 DEF IInv, Phases
<1>17. FirstReads' /\ DataInPlace'
  <2>1. ~(offset < aligned_size /\ offset < Q_DEPTH * BLOCK)
    BY <1>1 DEF IInv, FirstReads
  <2>2. ~(offset < aligned_size /\ offset < Q_DEPTH * BLOCK)'
    BY <1>1, <1>2, <2>1
  <2>. QED
    BY <1>1, <1>2, <2>2 DEF IInv, FirstReads, DataInPlace
<1>18. Total'
  <2>1. faults = 0 => total_read' = Cardinality(Seen')
    BY <1>1, <1>4, <1>6, <1>7, <1>15 DEF IInv, Total, Phases
  <2>2. faults = 0 => \A x \in cq' : x[3] = There(x[1])
    BY <1>1 DEF IInv, Total
  <2>3. ASSUME faults > 0
        PROVE  total_read' < Cardinality(Seen') \/ \E x \in cq' : x[3] < There(x[1])
    <3>1. total_read < Cardinality(Seen) \/ \E x \in cq : x[3] < There(x[1])
      BY <1>1, <2>3 DEF IInv, Total
    <3>2. total_read < Cardinality(Seen) \/ c[3] < There(off)
              => total_read' < Cardinality(Seen')
      BY <1>1, <1>4, <1>6, <1>7, Constants
    <3>. QED
      BY <1>1, <3>1, <3>2
  <2>4. \A x \in cq' : x[3] <= There(x[1])
    BY <1>1 DEF IInv, Total
  <2>. QED
    BY <1>1, <1>2, <1>8, <2>1, <2>2, <2>3, <2>4 DEF Total
<1>. QED
  BY <1>11, <1>12, <1>13, <1>14, <1>16, <1>17, <1>18 DEF IInv

(* The kernel executes a read. *)
LEMMA ExecuteKeeps == ASSUME IInv, NEW r \in inflight, Execute(r) PROVE IInv'
<1>. DEFINE off == r[1]
<1>1. PICK k \in -1 .. There(off) :
          /\ cq' = cq \cup {<<r[1], r[2], k>>}
          /\ \/ /\ k = There(off) /\ UNCHANGED faults
                /\ buffer' = [buffer EXCEPT ![r[2]] = r[1]]
             \/ k < There(off) /\ Fault /\ UNCHANGED buffer
  <2>1. There(off) \in Int /\ There(off) > 0
    <3>1. off \in OutAt
      BY DEF OutAt, At
    <3>. QED
      BY <3>1, ReadLength, Constants DEF IInv, TypeOK, Passed
  <2>2. CASE /\ cq' = cq \cup {<<r[1], r[2], There(r[1])>>}
             /\ buffer' = [buffer EXCEPT ![r[2]] = r[1]]
             /\ UNCHANGED faults
    <3>1. There(off) \in -1 .. There(off)
      BY <2>1
    <3>. QED
      BY <2>2, <3>1
  <2>3. CASE /\ Fault
             /\ \E short \in 0 .. (There(r[1]) - 1) : cq' = cq \cup {<<r[1], r[2], short>>}
             /\ UNCHANGED buffer
    <3>1. PICK short \in 0 .. (There(r[1]) - 1) : cq' = cq \cup {<<r[1], r[2], short>>}
      BY <2>3
    <3>2. short \in -1 .. There(off) /\ short < There(off)
      BY <2>1
    <3>. QED
      BY <2>3, <3>1, <3>2
  <2>4. CASE /\ Fault
             /\ cq' = cq \cup {<<r[1], r[2], -1>>}
             /\ UNCHANGED buffer
    <3>1. -1 \in -1 .. There(off) /\ -1 < There(off)
      BY <2>1
    <3>. QED
      BY <2>4, <3>1
  <2>. QED
    BY <2>2, <2>3, <2>4 DEF Execute
<1>. DEFINE x == <<r[1], r[2], k>>
<1>2. x[1] = off /\ x[2] = r[2] /\ x[3] = k /\ cq' = cq \cup {x}
  BY <1>1
<1>3. /\ pc # "crashed" /\ inflight' = inflight \ {r}
      /\ UNCHANGED <<pc, fsize, offset, idx, total_read, sq, held, erred>>
  BY DEF Execute
<1>. HIDE DEF x
<1>4. aligned_size' = aligned_size /\ \A o : There(o)' = There(o)
  BY <1>3 DEF aligned_size, There
<1>5. off \in At(inflight) /\ off \in OutAt /\ off \notin At(sq) /\ off \notin At(cq)
  BY DEF OutAt, At, IInv, InOnePlace
<1>6. off \in StartsIn(BLOCK, fsize) /\ There(off) \in 1 .. BLOCK
  BY <1>5, ReadLength DEF IInv, TypeOK, Passed
<1>7. At(inflight') = At(inflight) \ {off} /\ At(cq') = At(cq) \cup {off} /\ OutAt' = OutAt
  <2>1. Apart(inflight)
    BY DEF IInv, InOnePlace
  <2>2. At(inflight \ {r}) = At(inflight) \ {r[1]}
    BY <2>1, Blocks
  <2>3. At(cq \cup {x}) = At(cq) \cup {x[1]}
    BY Blocks
  <2>. QED
    BY <1>2, <1>3, <1>5, <2>2, <2>3 DEF OutAt
<1>8. Seen' = Seen
  BY <1>3, <1>7 DEF Seen
<1>9. faults \in Nat /\ faults' \in 0 .. MaxFaults /\ faults' >= faults
      /\ (k < There(off) => faults' > 0) /\ (k = There(off) => faults' = faults)
  BY <1>1, <1>6, Constants DEF IInv, TypeOK, Fault
<1>10. r \in Reads /\ r[1] \in Offsets /\ r[2] \in Buffers /\ <<x[1], x[2]>> = r
  BY <1>2 DEF IInv, TypeOK, Reads
<1>11. TypeOK'
  <2>1. \A c \in cq' : <<c[1], c[2]>> \in Reads /\ c[3] \in -1 .. BLOCK
    <3>1. x[3] \in -1 .. BLOCK
      BY <1>1, <1>2, <1>6, Constants
    <3>2. <<x[1], x[2]>> \in Reads
      BY <1>10
    <3>. QED
      BY <1>2, <3>1, <3>2 DEF IInv, TypeOK
  <2>2. buffer' \in [Buffers -> Offsets \cup {None}]
    BY <1>1, <1>10 DEF IInv, TypeOK
  <2>3. inflight' \subseteq Reads
    BY <1>3 DEF IInv, TypeOK
  <2>. QED
    BY <1>3, <1>9, <2>1, <2>2, <2>3 DEF IInv, TypeOK
<1>12. InOnePlace'
  <2>1. Apart(cq')
    <3>1. \A c \in cq : c[1] # off
      BY <1>5 DEF At
    <3>. QED
      BY <1>2, <3>1 DEF IInv, InOnePlace, Apart
  <2>2. Apart(inflight') /\ Apart(sq') /\ At(sq') = At(sq)
    BY <1>3 DEF IInv, InOnePlace, Apart
  <2>. QED
    BY <1>5, <1>7, <2>1, <2>2 DEF IInv, InOnePlace
<1>13. Passed' /\ Queued' /\ Phases'
  BY <1>3, <1>4, <1>7, <1>9 DEF IInv, Passed, Queued, Phases
<1>14. FirstReads'
  <2>1. \A c \in (sq \cup inflight \cup cq)' :
            c \in sq \cup inflight \cup cq \/ (c[1] = r[1] /\ c[2] = r[2])
    <3>1. x[1] = r[1] /\ x[2] = r[2]
      BY <1>2
    <3>2. \A c \in (sq \cup inflight \cup cq)' : c \in sq \cup inflight \cup cq \/ c = x
      BY <1>2, <1>3
    <3>. QED
      BY <3>1, <3>2
  <2>. QED
    BY <1>3, <1>4, <2>1 DEF IInv, FirstReads
<1>15. DataInPlace'
  <2>1. SUFFICES ASSUME offset <= Q_DEPTH * BLOCK, NEW c \in cq', c[3] = There(c[1])
                 PROVE  buffer'[c[2]] = c[1]
    BY <1>3, <1>4 DEF DataInPlace
  <2>2. CASE c = x
    <3>1. k = There(off)
      BY <1>2, <2>1, <2>2
    <3>2. k \in Int /\ ~(k < There(off))
      BY <1>6, <3>1
    <3>3. buffer' = [buffer EXCEPT ![r[2]] = r[1]]
      BY <1>1, <3>2
    <3>. QED
      BY <1>2, <1>10, <2>2, <3>3 DEF IInv, TypeOK
  <2>3. CASE c \in cq
    <3>1. buffer[c[2]] = c[1]
      BY <2>1, <2>3 DEF IInv, DataInPlace
    <3>2. c[2] # r[2]
      <4>1. c[1] = BLOCK * c[2] /\ r[1] = BLOCK * r[2]
        BY <2>1, <2>3 DEF IInv, FirstReads
      <4>2. c[1] # r[1]
        BY <1>5, <2>3 DEF At
      <4>. QED
        BY <4>1, <4>2
    <3>3. c[2] \in Buffers
      BY <2>3 DEF IInv, TypeOK, Reads
    <3>. QED
      BY <1>1, <3>1, <3>2, <3>3 DEF IInv, TypeOK
  <2>. QED
    BY <1>2, <2>1, <2>2, <2>3
<1>16. Total'
  <2>1. \A c \in cq' : c[3] <= There(c[1])
    BY <1>1, <1>2, <1>6 DEF IInv, Total
  <2>2. faults' = 0 => \A c \in cq' : c[3] = There(c[1])
    BY <1>1, <1>2, <1>6, <1>9 DEF IInv, Total
  <2>3. faults' = 0 => faults = 0
    BY <1>9
  <2>4. ASSUME faults' > 0, pc \in {"open", "queue", "wait", "clean", "done"}
        PROVE  total_read < Cardinality(Seen) \/ \E c \in cq' : c[3] < There(c[1])
    <3>1. CASE k < There(off)
      BY <1>2, <3>1
    <3>2. CASE k = There(off)
      BY <1>2, <1>9, <2>4, <3>2 DEF IInv, Total
    <3>. QED
      BY <1>1, <1>6, <3>1, <3>2
  <2>. QED
    BY <1>3, <1>4, <1>8, <2>1, <2>2, <2>3, <2>4 DEF IInv, Total
<1>. QED
  BY <1>3, <1>11, <1>12, <1>13, <1>14, <1>15, <1>16 DEF IInv

-----------------------------------------------------------------------------
(* The invariant is inductive and holds for every value of the constants. *)
THEOREM Invariance == Spec => []IInv
<1>1. IInv /\ [Next]_vars => IInv'
  <2>. SUFFICES ASSUME IInv, [Next]_vars PROVE IInv'
    OBVIOUS
  <2>1. CASE NoRing \/ Open \/ OpenFails \/ WaitFails \/ CleanUp \/ UNCHANGED vars
    BY <2>1, OutsideKeeps
  <2>2. CASE Queue
    BY <2>2, QueueKeeps
  <2>3. CASE Submit
    BY <2>3, SubmitKeeps
  <2>4. CASE \E c \in cq : See(c)
    BY <2>4, SeeKeeps
  <2>5. CASE \E r \in inflight : Execute(r)
    BY <2>5, ExecuteKeeps
  <2>. QED
    BY <2>1, <2>2, <2>3, <2>4, <2>5 DEF Next, Terminated
<1>. QED
  BY Initially, <1>1, PTL DEF Spec

(* Variables keep their types: idx never exceeds the buffers there are,    *)
(* offset stops at the aligned size, and no more is counted than the file  *)
(* holds.                                                                  *)
THEOREM TypeCorrect == Spec => []TypeOK
  BY Invariance, PTL DEF IInv

(* The first Q_DEPTH reads have a buffer of their own each: their data is  *)
(* in place when their completion is seen, in whatever order they          *)
(* completed.                                                              *)
THEOREM FirstReadsInPlace == Spec => []DataInPlace
  BY Invariance, PTL DEF IInv

(* The buffers are freed with no read out, unless after a read error.      *)
THEOREM FreesAtRest == Spec => []BuffersAtRest
<1>1. IInv => BuffersAtRest
  <2>. SUFFICES ASSUME IInv, pc = "done", ~erred PROVE sq = {} /\ inflight = {} /\ cq = {}
    BY DEF BuffersAtRest
  <2>1. OutAt = {}
    BY DEF IInv, Phases
  <2>. QED
    BY <2>1 DEF OutAt, At
<1>. QED
  BY Invariance, <1>1, PTL

(* The total is the size of the file if and only if nothing went wrong.    *)
THEOREM TotalIsExact == Spec => []TotalExact
<1>1. IInv => TotalExact
  <2>. SUFFICES ASSUME IInv, pc = "done" PROVE total_read = fsize <=> faults = 0
    BY DEF TotalExact
  <2>1. /\ fsize \in Nat /\ aligned_size \in Nat /\ fsize <= aligned_size
        /\ offset \in Nat /\ faults \in Nat /\ total_read \in Nat
    BY Sizes, Constants DEF IInv, TypeOK
  <2>2. Cardinality(Seen) \in Nat /\ Cardinality(Seen) <= fsize
    BY <2>1, SeenBytes DEF Seen
  <2>3. ASSUME faults = 0 PROVE total_read = fsize
    <3>1. ~erred
      <4>1. ~(faults > 0)
        BY <2>3
      <4>. QED
        BY <4>1 DEF IInv, Phases
    <3>2. OutAt = {} /\ offset = aligned_size
      BY <3>1 DEF IInv, Phases
    <3>3. Cardinality(Seen) = fsize
      BY <2>1, <3>2, SeenBytes DEF Seen
    <3>. QED
      BY <2>3, <3>3 DEF IInv, Total
  <2>4. ASSUME faults > 0 PROVE total_read < fsize
    <3>1. CASE total_read < Cardinality(Seen)
      BY <2>1, <2>2, <3>1
    <3>2. ASSUME NEW c \in cq PROVE Cardinality(Seen) < fsize
      <4>1. c[1] \in OutAt /\ c[1] \in StartsIn(BLOCK, fsize)
        BY DEF OutAt, At, IInv, Passed
      <4>. QED
        BY <2>1, <4>1, SeenBytes DEF Seen
    <3>3. total_read <= Cardinality(Seen)
      BY DEF IInv, Total
    <3>4. total_read < Cardinality(Seen) \/ \E c \in cq : c[3] < There(c[1])
      BY <2>4 DEF IInv, Total
    <3>. QED
      BY <2>1, <2>2, <3>1, <3>2, <3>3, <3>4
  <2>. QED
    BY <2>1, <2>3, <2>4
<1>. QED
  BY Invariance, <1>1, PTL

-----------------------------------------------------------------------------
(* It waits only with reads out. *)
WaitsForSome == pc = "wait" => idx # 0

LEMMA WaitsKept == ASSUME WaitsForSome, [Next]_vars PROVE WaitsForSome'
<1>1. CASE NoRing \/ Open \/ OpenFails \/ WaitFails \/ CleanUp \/ \E c \in cq : See(c)
  <2>1. pc' # "wait"
    BY <1>1 DEF NoRing, Open, OpenFails, WaitFails, CleanUp, See
  <2>. QED
    BY <2>1 DEF WaitsForSome
<1>2. CASE Queue
  BY <1>2 DEF Queue, WaitsForSome
<1>3. CASE Submit
  BY <1>3 DEF Submit, AllSeen, WaitsForSome
<1>4. CASE Terminated \/ UNCHANGED vars \/ \E r \in inflight : Execute(r)
  <2>1. pc' = pc /\ idx' = idx
    BY <1>4 DEF Terminated, vars, readVars, Execute
  <2>. QED
    BY <2>1 DEF WaitsForSome
<1>. QED
  BY <1>1, <1>2, <1>3, <1>4 DEF Next

(* idx counts the reads that are out, in whatever order they complete: the *)
(* loop goes on to wait only for a read that completes or has completed.   *)
THEOREM CompletionsCome == Spec => []NeverWaitsInVain
<1>1. Init => WaitsForSome
  BY DEF Init, WaitsForSome
<1>2. WaitsForSome /\ [Next]_vars => WaitsForSome'
  BY WaitsKept
<1>3. IInv /\ WaitsForSome => NeverWaitsInVain
  <2>. SUFFICES ASSUME IInv, WaitsForSome, pc = "wait", inflight = {}, cq = {}
                PROVE  FALSE
    BY DEF NeverWaitsInVain
  <2>1. sq = {} /\ idx = Cardinality(OutAt)
    BY DEF IInv, Phases, Queued
  <2>2. OutAt = {}
    BY <2>1 DEF OutAt, At
  <2>3. idx = 0
    BY <2>1, <2>2, FS_EmptySet
  <2>. QED
    BY <2>3 DEF WaitsForSome
<1>. QED
  BY <1>1, <1>2, <1>3, Invariance, PTL DEF Spec

(* Every step brings the call nearer to its end: no block is queued again, *)
(* and no read completes twice.                                            *)
THEOREM CallAdvances == Spec => Advances
<1>. DEFINE out == sq \cup inflight
            A == \/ offset' > offset
                 \/ /\ UNCHANGED offset
                    /\ \/ out' \subseteq out /\ out' # out
                       \/ out' = out /\ cq' \subseteq cq /\ cq' # cq
                       \/ out' = out /\ cq' = cq /\ Part' > Part
<1>1. ASSUME IInv, Next PROVE A \/ UNCHANGED vars
  <2>1. CASE NoRing \/ Open \/ OpenFails \/ WaitFails \/ CleanUp
    <3>1. UNCHANGED <<offset, sq, inflight, cq>>
      BY <2>1 DEF NoRing, Open, OpenFails, WaitFails, CleanUp, readVars
    <3>2. Part' > Part
      BY <2>1 DEF NoRing, Open, OpenFails, WaitFails, CleanUp, Part
    <3>. QED
      BY <3>1, <3>2
  <2>2. CASE Queue
    <3>1. offset \in Nat /\ BLOCK \in Nat /\ BLOCK >= 1
      BY <1>1, Constants DEF IInv, TypeOK
    <3>2. offset' = offset + BLOCK
      BY <2>2 DEF Queue
    <3>. QED
      BY <3>1, <3>2
  <2>3. CASE Submit
    <3>1. UNCHANGED <<offset, cq>> /\ out' = out
      BY <2>3 DEF Submit
    <3>2. Part' > Part
      BY <2>3 DEF Submit, Part
    <3>. QED
      BY <3>1, <3>2
  <2>4. ASSUME NEW c \in cq, See(c) PROVE A
    BY <2>4 DEF See
  <2>5. ASSUME NEW r \in inflight, Execute(r) PROVE A
    <3>1. UNCHANGED <<offset, sq>> /\ inflight' = inflight \ {r}
      BY <2>5 DEF Execute
    <3>2. r \notin sq
      BY <1>1 DEF IInv, InOnePlace, At
    <3>. QED
      BY <3>1, <3>2
  <2>6. CASE Terminated
    BY <2>6 DEF Terminated
  <2>. QED
    BY <1>1, <2>1, <2>2, <2>3, <2>4, <2>5, <2>6 DEF Next
<1>2. IInv /\ [Next]_vars => [A]_vars
  BY <1>1
<1>. QED
  BY <1>2, Invariance, PTL DEF Spec, Advances
=============================================================================
