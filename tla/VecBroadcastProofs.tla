------------------------- MODULE VecBroadcastProofs -------------------------
(***************************************************************************)
(* Theorems about mode 2, for every number of outputs, window size, queue  *)
(* length and bound on faults, and for all sizes the source may show: the  *)
(* types, that no write runs from a buffer that was not read or was freed, *)
(* and that every step brings the call nearer to its end.  For a source    *)
(* that keeps its size: that the completions waited for are those that     *)
(* come, so that none is waited for in vain, that every context is freed,  *)
(* that a fault costs its own window only, that the total shows errors,    *)
(* and that mode 2 implements the abstract broadcast.                      *)
(*                                                                         *)
(* The invariants rest on where the context of a window is: IInv says that *)
(* each live one is in exactly one place, the submission queue, a chain or *)
(* the completion queue, and that windows are issued in order.             *)
(***************************************************************************)
EXTENDS VecBroadcast, SharedLemmas

(* The two entries and the completions of window k, of n bytes. *)
ReadOf(k, n) ==
    [op |-> "readv", key |-> k, bytes |-> n, ctx |-> FALSE, link |-> TRUE]

WriteOf(k, n) ==
    [op |-> "writev", key |-> k, bytes |-> n, ctx |-> TRUE, link |-> FALSE]

Entry == {ReadOf(k, n) : k \in Keys, n \in 1 .. WindowSize}
            \cup {WriteOf(k, n) : k \in Keys, n \in 1 .. WindowSize}

Completions ==
    {Completion(e, res) : e \in Entry, res \in {"ok", "err"}}

Odd(i) == i % 2 = 1

(* Linked pairs; a queue of odd length ends with a readv. *)
Paired(batch) ==
    \A i \in 1 .. Len(batch) :
        Odd(i) => /\ batch[i] = ReadOf(batch[i].key, batch[i].bytes)
                  /\ i < Len(batch) =>
                         batch[i + 1] = WriteOf(batch[i].key, batch[i].bytes)

(* No window is in the queue twice. *)
OncePerWindow(batch) ==
    \A i, j \in 1 .. Len(batch) :
        Odd(i) /\ Odd(j) /\ batch[i].key = batch[j].key => i = j

PairOf(k, n) == <<ReadOf(k, n), WriteOf(k, n)>>
RestOf(k, n) == <<WriteOf(k, n)>>

SqKeys == {sq[i].key : i \in 1 .. Len(sq)}
ChainKeys == {c[1].key : c \in chains}
CqKeys == {x.key : x \in {y \in cq : y.ctx}}

SqShape ==
    /\ sq \in Seq(Entry)
    /\ Paired(sq)
    /\ OncePerWindow(sq)
    /\ Odd(Len(sq)) <=> pc = "write"
    /\ pc = "write" => sq[Len(sq)] = ReadEntry

(* A chain is a pair, or what is left of one whose buffer is filled. *)
ChainShape ==
    /\ \A c \in chains : \E k \in Keys, n \in 1 .. WindowSize :
           c = PairOf(k, n) \/ (c = RestOf(k, n) /\ k \in filled)
    /\ \A c1, c2 \in chains : c1[1].key = c2[1].key => c1 = c2

CqShape ==
    /\ cq \subseteq Completions
    /\ \A x, y \in cq : x.ctx /\ y.ctx /\ x.key = y.key => x = y

(* A live context is in exactly one place. *)
OnePlace ==
    /\ SqKeys \cap ChainKeys = {}
    /\ SqKeys \cap CqKeys = {}
    /\ ChainKeys \cap CqKeys = {}
    /\ live = SqKeys \cup ChainKeys \cup CqKeys
    /\ live \cap freed = {}

(* The windows for which a context has been allocated. *)
Issued(k) ==
    \/ k[1] < dest
    \/ /\ k[1] = dest
       /\ pc \in {"read", "write"}
       /\ k[2] * WindowSize < total_processed \/ (pc = "write" /\ k = Key)

IssueOrder ==
    /\ \A k \in live \cup freed : Issued(k)
    /\ pc \in {"read", "write"} => dest <= NumOutputs
    /\ pc \in {"wait", "done"} => dest = NumOutputs + 1
    /\ pc = "write" => total_processed < file_sz
    /\ pc \in {"read", "write"} /\ total_processed < file_sz =>
           total_processed = WindowSize * (total_processed \div WindowSize)

Returned == pc = "done" /\ ~gaveUp => completed >= Expected

IInv ==
    /\ TypeOK
    /\ short \in BOOLEAN /\ gaveUp \in BOOLEAN
    /\ SqShape
    /\ ChainShape
    /\ CqShape
    /\ OnePlace
    /\ IssueOrder
    /\ completed = Cardinality(freed)
    /\ Returned
    /\ OnlyReadDataWritten

-----------------------------------------------------------------------------
(* The source has a size, keeps it, and rounding it up does not wrap. *)
StableSource ==
    /\ Sizes = {SourceSize}
    /\ SourceSize \in Nat
    /\ SourceSize + WindowSize <= Modulus

BytesOf(k) ==
    IF SourceSize - k[2] * WindowSize < WindowSize
    THEN SourceSize - k[2] * WindowSize ELSE WindowSize

(* Sizes and counts are the source's. *)
RightSizes ==
    /\ sz = SourceSize
    /\ pc \in {"read", "write"} => file_sz = SourceSize
    /\ \A i \in 1 .. Len(sq) : sq[i].bytes = BytesOf(sq[i].key)
    /\ \A c \in chains : c[1].bytes = BytesOf(c[1].key)
    /\ \A x \in cq : x.bytes = BytesOf(x.key)

AllIssued ==
    live \cup freed = {k \in Outputs \X SourceWindows : Issued(k)}

(* What a completion queue entry, and the absence of a fault, say. *)
Outcomes ==
    /\ held \subseteq CqKeys \cup freed
    /\ \A k \in CqKeys \cup freed : k \notin faulted => k \in held
    /\ ~short => \A x \in cq : x.ctx => (x.res = "ok" <=> x.key \in held)

(* The bytes of the outputs whose transfer the loop has seen. *)
Arrived ==
    {b \in Outputs \X (0 .. (SourceSize - 1)) :
        <<b[1], b[2] \div WindowSize>> \in freed \cap held}

TotalExact == ~short => total_data_out = Cardinality(Arrived)

StableInv ==
    /\ RightSizes
    /\ AllIssued
    /\ Outcomes
    /\ TotalExact

-----------------------------------------------------------------------------
(* Sizes and counts are in range. *)
LEMMA Constants ==
    /\ NumOutputs \in Nat
    /\ WindowSize \in Nat \ {0}
    /\ Entries \in Nat \ {0} /\ Entries % 2 = 0
    /\ Modulus \in Nat \ {0}
    /\ MaxFaults \in Nat
    /\ \A s \in Sizes : Stat(s) \in 0 .. (Modulus - 1)
<1>1. \A s \in Sizes : s \in Int
  BY VecAssumption
<1>2. ASSUME NEW m \in Nat \ {0}, NEW x \in Int
      PROVE  x % m \in 0 .. (m - 1)
  BY <1>2, Z3
<1>. QED
  BY <1>1, <1>2, VecAssumption DEF Stat

(* The number of windows expected is a number, though it is computed mod 2^w. *)
LEMMA ExpectedNat == sz \in 0 .. (Modulus - 1) => Expected \in Nat
<1>. SUFFICES ASSUME sz \in 0 .. (Modulus - 1) PROVE Expected \in Nat
  OBVIOUS
<1>. DEFINE up == (sz + WindowSize - 1) % Modulus
<1>1. sz + WindowSize - 1 \in Nat
  BY Constants
<1>2. up \in Nat
  BY <1>1, DivMod, Constants
<1>. HIDE DEF up
<1>3. up \div WindowSize \in Nat
  BY <1>2, DivMod, Constants
<1>. HIDE DEF up
<1>4. (up \div WindowSize) * NumOutputs \in Nat
  BY <1>3, Constants
<1>. QED
  BY <1>4 DEF Expected, up

(* The window the loops are at. *)
LEMMA AtWindow ==
    ASSUME IInv, pc \in {"read", "write"}, total_processed < file_sz
    PROVE  /\ dest \in Outputs
           /\ Key \in Keys
           /\ Key[1] = dest /\ Key[2] * WindowSize = total_processed
           /\ Bytes \in 1 .. WindowSize
           /\ ReadEntry = ReadOf(Key, Bytes)
           /\ WriteEntry = WriteOf(Key, Bytes)
           /\ ReadEntry \in Entry /\ WriteEntry \in Entry
<1>. DEFINE q == total_processed \div WindowSize
<1>1. /\ total_processed \in Nat /\ file_sz \in 0 .. (Modulus - 1)
      /\ total_processed <= Modulus
      /\ dest \in Nat
  BY Constants DEF IInv, TypeOK
<1>2. dest \in Outputs
  BY <1>1, Constants DEF IInv, TypeOK, IssueOrder, Outputs
<1>3. q \in Nat /\ q <= Modulus \div WindowSize
  BY <1>1, DivMod, DivOrder, Constants
<1>4. Modulus \div WindowSize \in Nat
  BY DivMod, Constants
<1>5. total_processed = WindowSize * q
  BY DEF IInv, IssueOrder
<1>. HIDE DEF q
<1>6. q \in Windows
  BY <1>3, <1>4 DEF Windows
<1>7. q * WindowSize = total_processed
  BY <1>3, <1>5, MulOrder, Constants
<1>8. Key = <<dest, q>>
  BY DEF Key, q
<1>9. Key \in Keys /\ Key[1] = dest /\ Key[2] * WindowSize = total_processed
  BY <1>2, <1>6, <1>7, <1>8 DEF Keys
<1>10. Bytes \in 1 .. WindowSize
  BY <1>1, Constants DEF Bytes
<1>11. ReadEntry = ReadOf(Key, Bytes) /\ WriteEntry = WriteOf(Key, Bytes)
  BY DEF ReadEntry, WriteEntry, ReadOf, WriteOf
<1>12. ReadOf(Key, Bytes) \in Entry /\ WriteOf(Key, Bytes) \in Entry
  BY <1>9, <1>10 DEF Entry
<1>. QED
  BY <1>2, <1>9, <1>10, <1>11, <1>12

-----------------------------------------------------------------------------
(* What the entries of the queue look like. *)
LEMMA EntryFields ==
    /\ \A e \in Entry :
           /\ e.key \in Keys /\ e.bytes \in 1 .. WindowSize
           /\ \/ e = ReadOf(e.key, e.bytes)
              \/ e = WriteOf(e.key, e.bytes)
    /\ \A k, n : ReadOf(k, n).key = k /\ ReadOf(k, n).bytes = n
                 /\ ReadOf(k, n).op = "readv" /\ ReadOf(k, n).link
    /\ \A k, n : WriteOf(k, n).key = k /\ WriteOf(k, n).bytes = n
                 /\ WriteOf(k, n).op = "writev" /\ ~WriteOf(k, n).link
    /\ \A k \in Keys, n \in 1 .. WindowSize :
           ReadOf(k, n) \in Entry /\ WriteOf(k, n) \in Entry
<1>1. \A k, n : ReadOf(k, n).key = k /\ ReadOf(k, n).bytes = n
                /\ ReadOf(k, n).op = "readv" /\ ReadOf(k, n).link
  BY DEF ReadOf
<1>2. \A k, n : WriteOf(k, n).key = k /\ WriteOf(k, n).bytes = n
                /\ WriteOf(k, n).op = "writev" /\ ~WriteOf(k, n).link
  BY DEF WriteOf
<1>3. ASSUME NEW e \in Entry
      PROVE  \E k \in Keys, n \in 1 .. WindowSize :
                 e = ReadOf(k, n) \/ e = WriteOf(k, n)
  BY DEF Entry
<1>4. ASSUME NEW e \in Entry
      PROVE  /\ e.key \in Keys /\ e.bytes \in 1 .. WindowSize
             /\ \/ e = ReadOf(e.key, e.bytes)
                \/ e = WriteOf(e.key, e.bytes)
  BY <1>1, <1>2, <1>3
<1>5. \A k \in Keys, n \in 1 .. WindowSize :
          ReadOf(k, n) \in Entry /\ WriteOf(k, n) \in Entry
  BY DEF Entry
<1>. QED
  BY <1>1, <1>2, <1>4, <1>5

(* A queue of linked pairs is cut into the pairs. *)
LEMMA FlushedPairs ==
    ASSUME NEW batch \in Seq(Entry), Paired(batch), ~Odd(Len(batch))
    PROVE  Chains(batch) = {PairOf(batch[i].key, batch[i].bytes) :
                                i \in {j \in 1 .. Len(batch) : Odd(j)}}
<1>. DEFINE m == Len(batch) \div 2
            odd == {j \in 1 .. Len(batch) : Odd(j)}
<1>0. Len(batch) \in Nat
  BY LenProperties
<1>1. m \in Nat /\ Len(batch) = 2 * m
  BY <1>0 DEF Odd
<1>. HIDE DEF m
<1>2. ASSUME NEW n \in 1 .. m
      PROVE  /\ 2 * n - 1 \in odd
             /\ batch[2 * n - 1] = ReadOf(batch[2 * n - 1].key, batch[2 * n - 1].bytes)
             /\ batch[2 * n] = WriteOf(batch[2 * n - 1].key, batch[2 * n - 1].bytes)
  <2>1. 2 * n - 1 \in 1 .. Len(batch) /\ Odd(2 * n - 1) /\ 2 * n - 1 < Len(batch)
    BY <1>1 DEF Odd
  <2>2. 2 * n - 1 + 1 = 2 * n
    OBVIOUS
  <2>. QED
    BY <2>1, <2>2 DEF Paired
<1>3. Pairs(batch, m)
  BY <1>1, <1>2, EntryFields DEF Pairs
<1>4. Chains(batch) = {<<batch[2 * n - 1], batch[2 * n]>> : n \in 1 .. m}
  BY <1>1, <1>3, PairChains
<1>5. ASSUME NEW i \in odd
      PROVE  \E n \in 1 .. m : i = 2 * n - 1
  <2>1. i \in 1 .. (2 * m) /\ i % 2 = 1
    BY <1>1 DEF Odd
  <2>2. PICK n \in 1 .. m : i = 2 * n - 1 \/ i = 2 * n
    BY <1>1, <2>1, PairPosition
  <2>. QED
    BY <2>1, <2>2
<1>6. \A n \in 1 .. m : <<batch[2 * n - 1], batch[2 * n]>>
          = PairOf(batch[2 * n - 1].key, batch[2 * n - 1].bytes)
  BY <1>2 DEF PairOf
<1>7. Chains(batch) = {PairOf(batch[2 * n - 1].key, batch[2 * n - 1].bytes) :
                           n \in 1 .. m}
  BY <1>4, <1>6
<1>. HIDE DEF odd
<1>8. Chains(batch) = {PairOf(batch[i].key, batch[i].bytes) : i \in odd}
  BY <1>2, <1>5, <1>7
<1>. QED
  BY <1>8 DEF odd

(* The first entry of a chain names its window. *)
LEMMA FirstEntry ==
    \A k, n : /\ Len(PairOf(k, n)) = 2 /\ Len(RestOf(k, n)) = 1
              /\ PairOf(k, n)[1] = ReadOf(k, n) /\ PairOf(k, n)[2] = WriteOf(k, n)
              /\ RestOf(k, n)[1] = WriteOf(k, n)
              /\ Tail(PairOf(k, n)) = RestOf(k, n)
              /\ PairOf(k, n)[1].key = k /\ RestOf(k, n)[1].key = k
  BY EntryFields DEF PairOf, RestOf

(* Both entries of a pair have its window. *)
LEMMA OddKeys ==
    ASSUME SqShape, pc # "write"
    PROVE  SqKeys = {sq[i].key : i \in {j \in 1 .. Len(sq) : Odd(j)}}
<1>1. Len(sq) \in Nat /\ ~Odd(Len(sq))
  BY LenProperties DEF SqShape
<1>2. ASSUME NEW i \in 1 .. Len(sq), ~Odd(i)
      PROVE  \E j \in 1 .. Len(sq) : Odd(j) /\ sq[i].key = sq[j].key
  <2>1. i - 1 \in 1 .. Len(sq) /\ Odd(i - 1) /\ i - 1 < Len(sq) /\ i - 1 + 1 = i
    BY <1>1, <1>2 DEF Odd
  <2>2. sq[i] = WriteOf(sq[i - 1].key, sq[i - 1].bytes)
    BY <2>1 DEF SqShape, Paired
  <2>. QED
    BY <2>1, <2>2, EntryFields
<1>. QED
  BY <1>2 DEF SqKeys

(* Handing over the queue moves its windows to the kernel. *)
LEMMA Flush ==
    ASSUME SqShape, ChainShape, SqKeys \cap ChainKeys = {}, pc # "write",
           chains' = chains \cup Chains(sq), filled' = filled
    PROVE  ChainShape' /\ ChainKeys' = ChainKeys \cup SqKeys
<1>. DEFINE odd == {j \in 1 .. Len(sq) : Odd(j)}
            new == {PairOf(sq[i].key, sq[i].bytes) : i \in odd}
<1>1. chains' = chains \cup new
  BY FlushedPairs DEF SqShape
<1>2. SqKeys = {sq[i].key : i \in odd}
  BY OddKeys
<1>3. {c[1].key : c \in new} = SqKeys
  <2>1. \A i \in odd : PairOf(sq[i].key, sq[i].bytes)[1].key = sq[i].key
    BY FirstEntry
  <2>2. {c[1].key : c \in new}
            = {PairOf(sq[i].key, sq[i].bytes)[1].key : i \in odd}
    OBVIOUS
  <2>. HIDE DEF odd, new
  <2>. QED
    BY <1>2, <2>1, <2>2
<1>4. ChainKeys' = ChainKeys \cup SqKeys
  <2>. HIDE DEF new
  <2>. QED
    BY <1>1, <1>3 DEF ChainKeys
<1>5. ASSUME NEW c \in new
      PROVE  \E k \in Keys, n \in 1 .. WindowSize : c = PairOf(k, n)
  <2>1. PICK i \in odd : c = PairOf(sq[i].key, sq[i].bytes)
    BY <1>5
  <2>2. sq[i] \in Entry
    BY ElementOfSeq DEF SqShape
  <2>. QED
    BY <2>1, <2>2, EntryFields
<1>6. ASSUME NEW c1 \in new, NEW c2 \in new, c1[1].key = c2[1].key
      PROVE  c1 = c2
  <2>1. PICK i \in odd : c1 = PairOf(sq[i].key, sq[i].bytes)
    BY <1>6
  <2>2. PICK j \in odd : c2 = PairOf(sq[j].key, sq[j].bytes)
    BY <1>6
  <2>3. sq[i].key = sq[j].key
    BY <1>6, <2>1, <2>2, FirstEntry
  <2>4. i = j
    BY <2>3 DEF SqShape, OncePerWindow
  <2>. QED
    BY <2>1, <2>2, <2>4
<1>. HIDE DEF new
<1>7. ASSUME NEW c1 \in chains, NEW c2 \in new
      PROVE  c1[1].key # c2[1].key
  <2>1. c1[1].key \in ChainKeys /\ c2[1].key \in SqKeys
    BY <1>3 DEF ChainKeys
  <2>. QED
    BY <2>1
<1>8. ASSUME NEW c \in chains'
      PROVE  \E k \in Keys, n \in 1 .. WindowSize :
                 c = PairOf(k, n) \/ (c = RestOf(k, n) /\ k \in filled')
  BY <1>1, <1>5 DEF ChainShape
<1>9. ASSUME NEW c1 \in chains', NEW c2 \in chains', c1[1].key = c2[1].key
      PROVE  c1 = c2
  BY <1>1, <1>6, <1>7, <1>9 DEF ChainShape
<1>. QED
  BY <1>4, <1>8, <1>9 DEF ChainShape

(* What queueing the readv of a window that has no context does. *)
LEMMA QueueRead ==
    ASSUME SqShape, ChainShape, SqKeys \cap ChainKeys = {},
           Len(sq) <= Entries, pc = "read",
           NEW k \in Keys \ (SqKeys \cup ChainKeys), NEW n \in 1 .. WindowSize,
           Queue(ReadOf(k, n)), filled' = filled
    PROVE  /\ sq' \in Seq(Entry) /\ Len(sq') <= Entries
           /\ Paired(sq') /\ OncePerWindow(sq') /\ Odd(Len(sq'))
           /\ sq'[Len(sq')] = ReadOf(k, n)
           /\ ChainShape'
           /\ SqKeys' \cap ChainKeys' = {}
           /\ SqKeys' \cup ChainKeys' = SqKeys \cup ChainKeys \cup {k}
<1>. DEFINE e == ReadOf(k, n)
<1>1. e \in Entry /\ e.key = k /\ e = ReadOf(e.key, e.bytes)
  BY EntryFields
<1>2. Len(sq) \in Nat /\ ~Odd(Len(sq)) /\ sq \in Seq(Entry)
  BY LenProperties DEF SqShape
<1>. HIDE DEF e
<1>3. CASE Len(sq) = Entries
  <2>1. sq' = <<e>> /\ chains' = chains \cup Chains(sq)
    BY <1>3 DEF Queue, e
  <2>2. ChainShape' /\ ChainKeys' = ChainKeys \cup SqKeys
    BY <2>1, Flush
  <2>3. sq' \in Seq(Entry) /\ Len(sq') = 1 /\ sq'[1] = e
    BY <1>1, <2>1
  <2>4. SqKeys' = {k}
    BY <1>1, <2>3 DEF SqKeys
  <2>5. Paired(sq') /\ OncePerWindow(sq') /\ Odd(Len(sq'))
    BY <1>1, <2>3 DEF Paired, OncePerWindow, Odd
  <2>6. Len(sq') <= Entries
    BY <2>3, Constants
  <2>. QED
    BY <2>2, <2>3, <2>4, <2>5, <2>6 DEF e
<1>4. CASE Len(sq) # Entries
  <2>1. sq' = Append(sq, e) /\ chains' = chains
    BY <1>4 DEF Queue, e
  <2>2. /\ sq' \in Seq(Entry) /\ Len(sq') = Len(sq) + 1
        /\ sq'[Len(sq) + 1] = e
        /\ \A i \in 1 .. Len(sq) : sq'[i] = sq[i]
    BY <1>1, <1>2, <2>1, AppendProperties
  <2>3. ChainShape' /\ ChainKeys' = ChainKeys
    BY <2>1 DEF ChainShape, ChainKeys
  <2>4. SqKeys' = SqKeys \cup {k}
    BY <1>1, <1>2, <2>2 DEF SqKeys
  <2>5. Odd(Len(sq'))
    BY <1>2, <2>2 DEF Odd
  <2>6. ASSUME NEW i \in 1 .. Len(sq'), Odd(i)
        PROVE  /\ sq'[i] = ReadOf(sq'[i].key, sq'[i].bytes)
               /\ i < Len(sq') =>
                      sq'[i + 1] = WriteOf(sq'[i].key, sq'[i].bytes)
    <3>1. CASE i = Len(sq) + 1
      BY <1>1, <1>2, <2>2, <3>1
    <3>2. CASE i # Len(sq) + 1
      <4>1. i \in 1 .. Len(sq) /\ i < Len(sq) /\ i + 1 \in 1 .. Len(sq)
        BY <1>2, <2>2, <2>6, <3>2 DEF Odd
      <4>. QED
        BY <2>2, <2>6, <4>1 DEF SqShape, Paired
    <3>. QED
      BY <3>1, <3>2
  <2>7. ASSUME NEW i \in 1 .. Len(sq'), NEW j \in 1 .. Len(sq'),
               Odd(i), Odd(j), sq'[i].key = sq'[j].key
        PROVE  i = j
    <3>1. \A l \in 1 .. Len(sq) : sq[l].key # k
      BY DEF SqKeys
    <3>2. CASE i = Len(sq) + 1 \/ j = Len(sq) + 1
      BY <1>1, <1>2, <2>2, <2>7, <3>1, <3>2
    <3>3. CASE i # Len(sq) + 1 /\ j # Len(sq) + 1
      <4>1. i \in 1 .. Len(sq) /\ j \in 1 .. Len(sq)
        BY <1>2, <2>2, <3>3
      <4>. QED
        BY <2>2, <2>7, <4>1 DEF SqShape, OncePerWindow
    <3>. QED
      BY <3>2, <3>3
  <2>8. Paired(sq') /\ OncePerWindow(sq')
    BY <2>6, <2>7 DEF Paired, OncePerWindow
  <2>9. Len(sq') <= Entries
    BY <1>2, <1>4, <2>2, Constants
  <2>. QED
    BY <2>2, <2>3, <2>4, <2>5, <2>8, <2>9 DEF e
<1>. QED
  BY <1>3, <1>4

(* Queueing the writev behind its readv; there is always room for it. *)
LEMMA QueueWrite ==
    ASSUME SqShape, Len(sq) <= Entries, pc = "write",
           NEW k \in Keys, NEW n \in 1 .. WindowSize,
           ReadEntry = ReadOf(k, n), Queue(WriteOf(k, n))
    PROVE  /\ sq' \in Seq(Entry) /\ Len(sq') <= Entries
           /\ Paired(sq') /\ OncePerWindow(sq') /\ ~Odd(Len(sq'))
           /\ chains' = chains
           /\ SqKeys' = SqKeys
           /\ sq' = Append(sq, WriteOf(k, n))
<1>. DEFINE e == WriteOf(k, n)
<1>1. e \in Entry /\ e.key = k
  BY EntryFields
<1>2. /\ Len(sq) \in Nat /\ Odd(Len(sq)) /\ sq \in Seq(Entry)
      /\ sq[Len(sq)] = ReadOf(k, n)
  BY LenProperties DEF SqShape
<1>3. Len(sq) # Entries /\ Len(sq) \in 1 .. Len(sq)
  BY <1>2, Constants DEF Odd
<1>4. sq' = Append(sq, e) /\ chains' = chains
  BY <1>3 DEF Queue
<1>. HIDE DEF e
<1>5. /\ sq' \in Seq(Entry) /\ Len(sq') = Len(sq) + 1
      /\ sq'[Len(sq) + 1] = e
      /\ \A i \in 1 .. Len(sq) : sq'[i] = sq[i]
  BY <1>1, <1>2, <1>4, AppendProperties
<1>6. SqKeys' = SqKeys
  <2>1. sq[Len(sq)].key = k
    BY <1>2, EntryFields
  <2>. QED
    BY <1>1, <1>2, <1>3, <1>5, <2>1 DEF SqKeys
<1>7. ~Odd(Len(sq'))
  BY <1>2, <1>5 DEF Odd
<1>8. ASSUME NEW i \in 1 .. Len(sq'), Odd(i)
      PROVE  /\ i \in 1 .. Len(sq)
             /\ sq'[i] = ReadOf(sq'[i].key, sq'[i].bytes)
             /\ i < Len(sq') =>
                    sq'[i + 1] = WriteOf(sq'[i].key, sq'[i].bytes)
  <2>1. i \in 1 .. Len(sq)
    BY <1>2, <1>5, <1>7, <1>8 DEF Odd
  <2>2. CASE i = Len(sq)
    BY <1>2, <1>5, <2>1, <2>2, EntryFields DEF e
  <2>3. CASE i # Len(sq)
    <3>1. i < Len(sq) /\ i + 1 \in 1 .. Len(sq)
      BY <1>2, <2>1, <2>3
    <3>. QED
      BY <1>5, <1>8, <2>1, <3>1 DEF SqShape, Paired
  <2>. QED
    BY <2>1, <2>2, <2>3
<1>9. ASSUME NEW i \in 1 .. Len(sq'), NEW j \in 1 .. Len(sq'),
             Odd(i), Odd(j), sq'[i].key = sq'[j].key
      PROVE  i = j
  <2>1. i \in 1 .. Len(sq) /\ j \in 1 .. Len(sq)
    BY <1>8, <1>9
  <2>. QED
    BY <1>5, <1>9, <2>1 DEF SqShape, OncePerWindow
<1>10. Paired(sq') /\ OncePerWindow(sq')
  BY <1>8, <1>9 DEF Paired, OncePerWindow
<1>11. Len(sq') <= Entries
  BY <1>2, <1>3, <1>5, Constants
<1>. QED
  BY <1>4, <1>5, <1>6, <1>7, <1>10, <1>11 DEF e

-----------------------------------------------------------------------------
(* What the kernel does with a chain: a linked pair whose readv succeeds   *)
(* is left as its writev, with the buffer filled; one whose readv does not *)
(* is cancelled; a writev without a readv before it ends its chain.        *)
PairRead(k, n, chain) ==
    /\ chain = PairOf(k, n)
    /\ chains' = (chains \ {chain}) \cup {RestOf(k, n)}
    /\ cq' = cq \cup {Completion(ReadOf(k, n), "ok")}
    /\ filled' = filled \cup {k}
    /\ UNCHANGED <<held, junk, faultVars>>

PairCut(k, n, chain) ==
    /\ chain = PairOf(k, n)
    /\ chains' = chains \ {chain}
    /\ \E res \in {"ok", "err"} :
           cq' = cq \cup {Completion(ReadOf(k, n), res),
                          Completion(WriteOf(k, n), "err")}
    /\ faults < MaxFaults /\ faults' = faults + 1
    /\ faulted' = faulted \cup {k}
    /\ UNCHANGED <<filled, held, junk, short, gaveUp>>

Written(k, n, chain) ==
    /\ chain = RestOf(k, n)
    /\ k \in filled
    /\ chains' = chains \ {chain}
    /\ UNCHANGED <<filled, junk, gaveUp>>
    /\ \/ /\ cq' = cq \cup {Completion(WriteOf(k, n), "ok")}
          /\ held' = held \cup {k}
          /\ UNCHANGED faultVars
       \/ /\ \/ cq' = cq \cup {Completion(WriteOf(k, n), "err")} /\ short' = short
             \/ cq' = cq \cup {Completion(WriteOf(k, n), "ok")} /\ short' = TRUE
          /\ faults < MaxFaults /\ faults' = faults + 1
          /\ faulted' = faulted \cup {k}
          /\ UNCHANGED held

(* The kernel executes the read or the write of one window. *)
LEMMA ExecuteCases ==
    ASSUME IInv, NEW chain \in chains, Execute(chain)
    PROVE  \E k \in Keys, n \in 1 .. WindowSize :
               \/ PairRead(k, n, chain)
               \/ PairCut(k, n, chain)
               \/ Written(k, n, chain)
<1>1. PICK k \in Keys, n \in 1 .. WindowSize :
          chain = PairOf(k, n) \/ (chain = RestOf(k, n) /\ k \in filled)
  BY DEF IInv, ChainShape
<1>2. CASE chain = PairOf(k, n)
  <2>1. /\ Len(chain) = 2 /\ chain[1] = ReadOf(k, n) /\ chain[2] = WriteOf(k, n)
        /\ Tail(chain) = RestOf(k, n)
        /\ chain[1].op = "readv" /\ chain[1].key = k
    BY <1>2, FirstEntry, EntryFields
  <2>2. {chain[i] : i \in 2 .. Len(chain)} = {WriteOf(k, n)}
    BY <2>1
  <2>3. CASE /\ UNCHANGED faultVars
             /\ chains' = Advance(chains, chain, TRUE)
             /\ cq' = cq \cup {Completion(chain[1], "ok")}
                         \cup {Completion(x, "err") : x \in Severed(chain, TRUE)}
             /\ filled' = filled \cup {chain[1].key} /\ UNCHANGED <<held, junk>>
    <3>0. Len(chain) > 1
      BY <2>1
    <3>1. chains' = (chains \ {chain}) \cup {RestOf(k, n)}
      BY <2>1, <2>3, <3>0, Zenon DEF Advance
    <3>2. Severed(chain, TRUE) = {}
      BY DEF Severed
    <3>3. {Completion(x, "err") : x \in Severed(chain, TRUE)} = {}
      BY <3>2
    <3>4. cq' = cq \cup {Completion(ReadOf(k, n), "ok")}
      BY <2>1, <2>3, <3>3
    <3>. QED
      BY <1>2, <2>1, <2>3, <3>1, <3>4 DEF PairRead
  <2>4. CASE /\ faults < MaxFaults
             /\ faults' = faults + 1
             /\ faulted' = faulted \cup {chain[1].key}
             /\ UNCHANGED <<short, gaveUp, filled, held, junk>>
             /\ chains' = Advance(chains, chain, FALSE)
             /\ \E res \in {"ok", "err"} :
                    cq' = cq \cup {Completion(chain[1], res)}
                             \cup {Completion(x, "err") : x \in Severed(chain, FALSE)}
    <3>1. chains' = chains \ {chain}
      BY <2>4 DEF Advance
    <3>2. Severed(chain, FALSE) = {WriteOf(k, n)}
      BY <2>2 DEF Severed
    <3>3. {Completion(x, "err") : x \in Severed(chain, FALSE)}
              = {Completion(WriteOf(k, n), "err")}
      BY <3>2
    <3>4. PICK res \in {"ok", "err"} :
              cq' = cq \cup {Completion(chain[1], res)}
                       \cup {Completion(x, "err") : x \in Severed(chain, FALSE)}
      BY <2>4
    <3>5. cq' = cq \cup {Completion(ReadOf(k, n), res),
                         Completion(WriteOf(k, n), "err")}
      BY <2>1, <3>3, <3>4
    <3>. QED
      BY <1>2, <2>1, <2>4, <3>1, <3>5 DEF PairCut
  <2>5. short \in BOOLEAN
    BY DEF IInv
  <2>. QED
    BY <2>1, <2>3, <2>4, <2>5 DEF Execute, faultVars
<1>3. CASE chain = RestOf(k, n) /\ k \in filled
  <2>1. /\ Len(chain) = 1 /\ chain[1] = WriteOf(k, n)
        /\ chain[1].op = "writev" /\ chain[1].key = k
    BY <1>3, FirstEntry, EntryFields
  <2>2. k \in filled \ freed
    BY <1>3, <2>1 DEF IInv, OnePlace, ChainKeys
  <2>3. \A full \in BOOLEAN : /\ Severed(chain, full) = {}
                              /\ Advance(chains, chain, full) = chains \ {chain}
    BY <2>1 DEF Severed, Advance
  <2>4. PICK result \in {"full", "short", "err"} :
        /\ IF result = "full"
           THEN UNCHANGED faultVars
           ELSE /\ faults < MaxFaults
                /\ faults' = faults + 1
                /\ faulted' = faulted \cup {k}
                /\ short' = (short \/ result = "short")
                /\ UNCHANGED gaveUp
        /\ chains' = chains \ {chain}
        /\ cq' = cq \cup {Completion(WriteOf(k, n),
                                     IF result = "err" THEN "err" ELSE "ok")}
        /\ held' = IF result = "full" THEN held \cup {k} ELSE held
        /\ UNCHANGED <<filled, junk>>
    <3>1. PICK result \in {"full", "short", "err"} :
          /\ IF result = "full"
             THEN UNCHANGED faultVars
             ELSE /\ faults < MaxFaults
                  /\ faults' = faults + 1
                  /\ faulted' = faulted \cup {k}
                  /\ short' = (short \/ result = "short")
                  /\ UNCHANGED gaveUp
          /\ chains' = Advance(chains, chain, result = "full")
          /\ cq' = cq \cup {Completion(WriteOf(k, n),
                                       IF result = "err" THEN "err" ELSE "ok")}
                      \cup {Completion(x, "err") : x \in Severed(chain, result = "full")}
          /\ held' = IF result = "full" THEN held \cup {k} ELSE held
          /\ UNCHANGED <<filled, junk>>
      BY <2>1, <2>2, ZenonT(60) DEF Execute
    <3>2. /\ Severed(chain, result = "full") = {}
          /\ Advance(chains, chain, result = "full") = chains \ {chain}
      BY <2>3
    <3>3. {Completion(x, "err") : x \in Severed(chain, result = "full")} = {}
      BY <3>2
    <3>. QED
      BY <3>1, <3>2, <3>3
  <2>5. short \in BOOLEAN
    BY DEF IInv
  <2>6. CASE result = "full"
    BY <1>3, <2>4, <2>6 DEF Written, faultVars
  <2>7. CASE result = "short"
    BY <1>3, <2>4, <2>7 DEF Written
  <2>8. CASE result = "err"
    <3>1. short' = short
      BY <2>4, <2>5, <2>8
    <3>. QED
      BY <1>3, <2>4, <2>8, <3>1 DEF Written
  <2>. QED
    BY <2>6, <2>7, <2>8
<1>. QED
  BY <1>1, <1>2, <1>3

(* What the completions look like. *)
LEMMA CompletionFields ==
    /\ \A k \in Keys, n \in 1 .. WindowSize, res \in {"ok", "err"} :
           /\ Completion(ReadOf(k, n), res) \in Completions
           /\ Completion(WriteOf(k, n), res) \in Completions
    /\ \A k, n, res :
           /\ ~Completion(ReadOf(k, n), res).ctx
           /\ Completion(ReadOf(k, n), res).bytes = n
           /\ Completion(ReadOf(k, n), res).key = k
           /\ Completion(WriteOf(k, n), res).ctx
           /\ Completion(WriteOf(k, n), res).key = k
           /\ Completion(WriteOf(k, n), res).bytes = n
           /\ Completion(WriteOf(k, n), res).res = res
    /\ \A x \in Completions : /\ x.key \in Keys /\ x.bytes \in 1 .. WindowSize
                              /\ x.ctx \in BOOLEAN /\ x.res \in {"ok", "err"}
<1>1. \A k \in Keys, n \in 1 .. WindowSize, res \in {"ok", "err"} :
          /\ Completion(ReadOf(k, n), res) \in Completions
          /\ Completion(WriteOf(k, n), res) \in Completions
  BY EntryFields DEF Completions
<1>2. \A k, n, res :
          /\ ~Completion(ReadOf(k, n), res).ctx
          /\ Completion(ReadOf(k, n), res).bytes = n
          /\ Completion(ReadOf(k, n), res).key = k
  BY DEF Completion, ReadOf
<1>3. \A k, n, res :
          /\ Completion(WriteOf(k, n), res).ctx
          /\ Completion(WriteOf(k, n), res).key = k
          /\ Completion(WriteOf(k, n), res).bytes = n
          /\ Completion(WriteOf(k, n), res).res = res
  BY DEF Completion, WriteOf
<1>4. ASSUME NEW x \in Completions
      PROVE  /\ x.key \in Keys /\ x.bytes \in 1 .. WindowSize
             /\ x.ctx \in BOOLEAN /\ x.res \in {"ok", "err"}
  <2>1. PICK e \in Entry, res \in {"ok", "err"} : x = Completion(e, res)
    BY <1>4 DEF Completions
  <2>2. e.key \in Keys /\ e.bytes \in 1 .. WindowSize /\ e.ctx \in BOOLEAN
    <3>1. \A l, n : ReadOf(l, n).ctx \in BOOLEAN /\ WriteOf(l, n).ctx \in BOOLEAN
      BY DEF ReadOf, WriteOf
    <3>. QED
      BY <2>1, <3>1, EntryFields
  <2>3. x.key = e.key /\ x.bytes = e.bytes /\ x.ctx = e.ctx /\ x.res = res
    BY <2>1 DEF Completion
  <2>. QED
    BY <2>2, <2>3
<1>. QED
  BY <1>1, <1>2, <1>3, <1>4

(* The kernel's step keeps what it has. *)
LEMMA ExecuteKeepsChains ==
    ASSUME IInv, NEW chain \in chains,
           NEW k \in Keys, NEW n \in 1 .. WindowSize,
           PairRead(k, n, chain) \/ PairCut(k, n, chain) \/ Written(k, n, chain)
    PROVE  /\ ChainShape' /\ CqShape'
           /\ k \in ChainKeys
           /\ \/ PairRead(k, n, chain) /\ ChainKeys' = ChainKeys /\ CqKeys' = CqKeys
              \/ /\ ~PairRead(k, n, chain)
                 /\ ChainKeys' = ChainKeys \ {k} /\ CqKeys' = CqKeys \cup {k}
<1>1. chain[1].key = k /\ k \in ChainKeys /\ k \notin CqKeys
  BY FirstEntry DEF IInv, OnePlace, ChainKeys, PairRead, PairCut, Written
<1>2. \A c \in chains : c[1].key = k => c = chain
  BY <1>1 DEF IInv, ChainShape
<1>3. \A x \in cq : x.ctx => x.key # k
  BY <1>1 DEF CqKeys
<1>4. cq \subseteq Completions
  BY DEF IInv, CqShape
<1>5. ChainShape
  BY DEF IInv
<1>6. CASE PairRead(k, n, chain)
  <2>1. /\ chains' = (chains \ {chain}) \cup {RestOf(k, n)}
        /\ cq' = cq \cup {Completion(ReadOf(k, n), "ok")}
        /\ filled' = filled \cup {k}
    BY <1>6 DEF PairRead
  <2>2. RestOf(k, n)[1].key = k
    BY FirstEntry
  <2>3. ChainShape'
    BY <1>2, <1>5, <2>1, <2>2 DEF ChainShape
  <2>4. CqShape'
    BY <1>4, <2>1, CompletionFields DEF IInv, CqShape
  <2>5. ChainKeys' = ChainKeys
    BY <1>1, <1>2, <2>1, <2>2 DEF ChainKeys
  <2>6. CqKeys' = CqKeys
    BY <2>1, CompletionFields DEF CqKeys
  <2>. QED
    BY <1>1, <1>6, <2>3, <2>4, <2>5, <2>6
<1>7. ASSUME chains' = chains \ {chain}, filled' = filled
      PROVE  ChainShape' /\ ChainKeys' = ChainKeys \ {k}
  <2>1. ChainShape'
    BY <1>5, <1>7 DEF ChainShape
  <2>2. ChainKeys' = ChainKeys \ {k}
    BY <1>1, <1>2, <1>7 DEF ChainKeys
  <2>. QED
    BY <2>1, <2>2
<1>8. CASE PairCut(k, n, chain)
  <2>1. PICK res \in {"ok", "err"} :
            cq' = cq \cup {Completion(ReadOf(k, n), res),
                           Completion(WriteOf(k, n), "err")}
    BY <1>8 DEF PairCut
  <2>2. CqShape'
    BY <1>3, <1>4, <2>1, CompletionFields DEF IInv, CqShape
  <2>3. CqKeys' = CqKeys \cup {k}
    BY <2>1, CompletionFields DEF CqKeys
  <2>4. ~PairRead(k, n, chain)
    <3>1. faults' # faults
      BY <1>8 DEF PairCut, IInv, TypeOK
    <3>. QED
      BY <3>1 DEF PairRead, faultVars
  <2>. QED
    BY <1>1, <1>7, <1>8, <2>2, <2>3, <2>4 DEF PairCut
<1>9. CASE Written(k, n, chain)
  <2>1. PICK res \in {"ok", "err"} :
            cq' = cq \cup {Completion(WriteOf(k, n), res)}
    BY <1>9 DEF Written
  <2>2. CqShape'
    BY <1>3, <1>4, <2>1, CompletionFields DEF IInv, CqShape
  <2>3. CqKeys' = CqKeys \cup {k}
    BY <2>1, CompletionFields DEF CqKeys
  <2>4. ~PairRead(k, n, chain)
    BY <1>9, FirstEntry DEF PairRead, Written
  <2>. QED
    BY <1>1, <1>7, <1>9, <2>2, <2>3, <2>4 DEF Written
<1>. QED
  BY <1>6, <1>8, <1>9

-----------------------------------------------------------------------------
(* Windows, keys and contexts are finitely many. *)
LEMMA FiniteKeys ==
    ASSUME NEW S \in SUBSET Keys
    PROVE  IsFiniteSet(S)
<1>1. IsFiniteSet(Outputs) /\ IsFiniteSet(Windows)
  <2>1. Modulus \div WindowSize \in Nat
    BY Constants, DivMod
  <2>. QED
    BY <2>1, Constants, FS_Interval DEF Outputs, Windows
<1>2. IsFiniteSet(Keys)
  BY <1>1, FS_Product DEF Keys
<1>. QED
  BY <1>2, FS_Subset

(* The invariant holds at the start. *)
LEMMA InitIInv == Init => IInv
<1>. SUFFICES ASSUME Init PROVE IInv
  OBVIOUS
<1>1. sz \in 0 .. (Modulus - 1) /\ Expected \in Nat
  BY Constants, ExpectedNat DEF Init
<1>2. TypeOK
  <2>1. Len(sq) <= Entries
    BY Constants, EmptySeq DEF Init
  <2>. QED
    BY <1>1, <2>1, Constants DEF Init, TypeOK
<1>3. SqShape
  BY EmptySeq DEF Init, SqShape, Paired, OncePerWindow, Odd
<1>4. ChainShape /\ CqShape
  BY DEF Init, ChainShape, CqShape
<1>5. OnePlace
  BY EmptySeq DEF Init, OnePlace, SqKeys, ChainKeys, CqKeys
<1>6. IssueOrder
  BY DEF Init, IssueOrder
<1>7. completed = Cardinality(freed)
  BY FS_EmptySet DEF Init
<1>. QED
  BY <1>2, <1>3, <1>4, <1>5, <1>6, <1>7 DEF IInv, Init, Returned, OnlyReadDataWritten

(* Steps that leave the queues and the contexts alone. *)
LEMMA QueuesKept ==
    ASSUME IInv, UNCHANGED <<sq, chains, cq, live, freed, filled>>,
           pc # "write", pc' # "write"
    PROVE  SqShape' /\ ChainShape' /\ CqShape' /\ OnePlace'
<1>1. SqShape'
  BY DEF IInv, SqShape, Paired, OncePerWindow, ReadEntry, Key, Bytes
<1>2. ChainShape' /\ CqShape'
  BY DEF IInv, ChainShape, CqShape
<1>3. OnePlace'
  BY DEF IInv, OnePlace, SqKeys, ChainKeys, CqKeys
<1>. QED
  BY <1>1, <1>2, <1>3

(* Opening a destination keeps the invariant. *)
LEMMA OpenDestKeeps == ASSUME IInv, OpenDest PROVE IInv'
<1>. USE DEF OpenDest
<1>1. file_sz' \in 0 .. (Modulus - 1) /\ total_processed' = 0
  BY Constants
<1>2. pc' \in {"open", "read"} /\ dest' \in {dest, dest + 1}
      /\ (pc' = "read" => dest' = dest) /\ dest \in 1 .. NumOutputs
  BY DEF IInv, TypeOK
<1>3. TypeOK'
  BY <1>1, <1>2, Constants DEF IInv, TypeOK, Expected, fileVars, memoryVars,
        countVars, faultVars
<1>4. SqShape' /\ ChainShape' /\ CqShape' /\ OnePlace'
  BY <1>2, QueuesKept DEF fileVars, memoryVars
<1>5. \A k \in (live \cup freed)' : Issued(k)'
  <2>1. \A k \in live \cup freed : k[1] \in Nat /\ k[1] < dest
    BY DEF IInv, IssueOrder, Issued, TypeOK, Keys, Outputs
  <2>. QED
    BY <1>2, <2>1, Constants DEF Issued, memoryVars
<1>6. IssueOrder'
  <2>1. total_processed' \div WindowSize = 0 /\ WindowSize * 0 = 0
    BY <1>1, Constants, DivBounds
  <2>. QED
    BY <1>1, <1>2, <1>5, <2>1, Constants DEF IssueOrder
<1>. QED
  BY <1>2, <1>3, <1>4, <1>6 DEF IInv, Returned, OnlyReadDataWritten, fileVars,
        memoryVars, countVars, faultVars

(* Preparing a read keeps the invariant. *)
LEMMA PrepReadvKeeps == ASSUME IInv, PrepReadv PROVE IInv'
<1>. USE DEF PrepReadv
<1>1. /\ Key \in Keys /\ Key[1] = dest /\ Key[2] * WindowSize = total_processed
      /\ Bytes \in 1 .. WindowSize /\ ReadEntry = ReadOf(Key, Bytes)
      /\ dest \in Outputs
  BY AtWindow
<1>2. total_processed \in Nat /\ file_sz \in Nat /\ dest \in Nat
  BY DEF IInv, TypeOK
<1>3. Key \notin live \cup freed
  <2>1. ~Issued(Key)
    BY <1>1, <1>2 DEF Issued
  <2>. QED
    BY <2>1 DEF IInv, IssueOrder
<1>4. /\ sq' \in Seq(Entry) /\ Len(sq') <= Entries
      /\ Paired(sq') /\ OncePerWindow(sq') /\ Odd(Len(sq'))
      /\ sq'[Len(sq')] = ReadEntry
      /\ ChainShape'
      /\ SqKeys' \cap ChainKeys' = {}
      /\ SqKeys' \cup ChainKeys' = SqKeys \cup ChainKeys \cup {Key}
  <2>1. Key \in Keys \ (SqKeys \cup ChainKeys)
    BY <1>1, <1>3 DEF IInv, OnePlace
  <2>. QED
    BY <1>1, <2>1, QueueRead DEF IInv, OnePlace, TypeOK, fileVars
<1>5. Key' = Key /\ ReadEntry' = ReadEntry
  BY DEF Key, ReadEntry, Bytes, submitVars
<1>6. TypeOK'
  BY <1>1, <1>4, Constants DEF IInv, TypeOK, submitVars, fileVars, countVars,
        faultVars, Expected
<1>7. SqShape'
  BY <1>4, <1>5 DEF SqShape
<1>8. CqShape' /\ CqKeys' = CqKeys
  BY DEF IInv, CqShape, CqKeys
<1>9. OnePlace'
  BY <1>3, <1>4, <1>8 DEF IInv, OnePlace
<1>10. IssueOrder'
  <2>1. \A k \in (live \cup freed)' : Issued(k)'
    BY <1>1, <1>5 DEF IInv, IssueOrder, Issued, submitVars
  <2>. QED
    BY <1>1, <1>2, <2>1, Constants DEF IInv, IssueOrder, submitVars, Outputs
<1>. QED
  BY <1>4, <1>6, <1>7, <1>8, <1>9, <1>10 DEF IInv, Returned, OnlyReadDataWritten,
        fileVars, countVars, faultVars

(* Preparing a write keeps the invariant. *)
LEMMA PrepWritevKeeps == ASSUME IInv, PrepWritev PROVE IInv'
<1>. USE DEF PrepWritev
<1>1. total_processed < file_sz
  BY DEF IInv, IssueOrder
<1>2. /\ Key \in Keys /\ Key[1] = dest /\ Key[2] * WindowSize = total_processed
      /\ Bytes \in 1 .. WindowSize
      /\ ReadEntry = ReadOf(Key, Bytes) /\ WriteEntry = WriteOf(Key, Bytes)
      /\ dest \in Outputs
  BY <1>1, AtWindow
<1>3. total_processed \in Nat /\ file_sz \in Nat /\ dest \in Nat
  BY DEF IInv, TypeOK
<1>4. /\ sq' \in Seq(Entry) /\ Len(sq') <= Entries
      /\ Paired(sq') /\ OncePerWindow(sq') /\ ~Odd(Len(sq'))
      /\ chains' = chains
      /\ SqKeys' = SqKeys
  BY <1>2, QueueWrite DEF IInv, TypeOK
<1>5. /\ total_processed' = total_processed + Bytes
      /\ total_processed' \in 1 .. file_sz
      /\ total_processed < total_processed'
      /\ total_processed' < file_sz => total_processed' = total_processed + WindowSize
  BY <1>1, <1>2, <1>3, Constants DEF Bytes
<1>6. TypeOK'
  BY <1>3, <1>4, <1>5, Constants DEF IInv, TypeOK, fileVars, memoryVars,
        countVars, faultVars, Expected
<1>7. SqShape' /\ ChainShape' /\ CqShape'
  BY <1>4 DEF IInv, SqShape, ChainShape, CqShape, fileVars
<1>8. OnePlace'
  BY <1>4 DEF IInv, OnePlace, ChainKeys, CqKeys, memoryVars
<1>9. ASSUME NEW k \in live \cup freed PROVE Issued(k)'
  <2>1. k[1] \in Nat /\ k[2] \in Nat /\ k[2] * WindowSize \in Nat
    <3>1. \A w \in Windows : w \in Nat
      BY DEF Windows
    <3>2. k \in Outputs \X Windows
      BY DEF IInv, TypeOK, Keys
    <3>3. k[1] \in Nat /\ k[2] \in Nat
      BY <3>1, <3>2 DEF Outputs
    <3>. QED
      BY <3>3, MulOrder, Constants
  <2>2. Issued(k)
    BY DEF IInv, IssueOrder
  <2>. QED
    BY <1>2, <1>3, <1>5, <2>1, <2>2 DEF Issued
<1>10. ASSUME total_processed' < file_sz
       PROVE  total_processed' = WindowSize * (total_processed' \div WindowSize)
  <2>. DEFINE q == total_processed \div WindowSize
  <2>1. q \in Nat /\ total_processed = WindowSize * q
    BY <1>1, <1>3, DivMod, Constants DEF IInv, IssueOrder
  <2>. HIDE DEF q
  <2>2. total_processed' = WindowSize * (q + 1)
    BY <1>5, <1>10, <2>1, MulOrder, Constants
  <2>3. total_processed' \div WindowSize = q + 1
    <3>. DEFINE r == q + 1
    <3>1. r \in Nat /\ total_processed' \in Nat /\ total_processed' = WindowSize * r
      BY <1>3, <1>5, <2>1, <2>2
    <3>. HIDE DEF r
    <3>2. total_processed' \div WindowSize = r
      BY <3>1, DivBounds, Constants
    <3>. QED
      BY <3>2 DEF r
  <2>. QED
    BY <2>2, <2>3
<1>11. IssueOrder'
  BY <1>2, <1>9, <1>10, Constants DEF IssueOrder, memoryVars, Outputs
<1>. QED
  BY <1>6, <1>7, <1>8, <1>11 DEF IInv, Returned, OnlyReadDataWritten,
        fileVars, memoryVars, countVars, faultVars

(* Submitting the rest of the queue keeps the invariant. *)
LEMMA SubmitRestKeeps == ASSUME IInv, SubmitRest PROVE IInv'
<1>. USE DEF SubmitRest
<1>1. ChainShape' /\ ChainKeys' = ChainKeys \cup SqKeys
  BY Flush DEF IInv, OnePlace, fileVars
<1>2. dest \in 1 .. NumOutputs
  BY Constants DEF IInv, TypeOK, IssueOrder
<1>3. TypeOK'
  BY <1>2, EmptySeq, Constants DEF IInv, TypeOK, fileVars, memoryVars, countVars,
        faultVars, Expected
<1>4. SqShape' /\ SqKeys' = {}
  BY EmptySeq DEF SqShape, Paired, OncePerWindow, Odd, SqKeys
<1>5. CqShape' /\ CqKeys' = CqKeys
  BY DEF IInv, CqShape, CqKeys
<1>6. OnePlace'
  BY <1>1, <1>4, <1>5 DEF IInv, OnePlace, memoryVars
<1>7. \A k \in live \cup freed : k[1] \in Nat /\ k[1] <= dest
  <2>1. \A k \in live \cup freed : k[1] \in Nat
    BY DEF IInv, TypeOK, Keys, Outputs
  <2>. QED
    BY <1>2, <2>1 DEF IInv, IssueOrder, Issued
<1>8. IssueOrder'
  BY <1>2, <1>7 DEF IssueOrder, Issued, memoryVars
<1>. QED
  BY <1>1, <1>3, <1>4, <1>5, <1>6, <1>8 DEF IInv, Returned, OnlyReadDataWritten,
        fileVars, memoryVars, countVars, faultVars

(* Of the waiting loop's other steps only the end of the call matters. *)
LEMMA WaitingKeeps ==
    ASSUME IInv, StartWaiting \/ WaitFails \/ Finish
    PROVE  IInv'
<1>. USE DEF StartWaiting, WaitFails, Finish
<1>1. /\ pc \in {"open", "wait"} /\ pc' \in {"wait", "done"}
      /\ dest = NumOutputs + 1
      /\ UNCHANGED <<sz, dest, file_sz, total_processed, sq, chains, cq, live,
                     freed, filled, held, junk, completed, total_data_out,
                     faulted, short>>
  <2>1. CASE StartWaiting
    <3>1. dest = NumOutputs + 1
      BY <2>1, Constants DEF IInv, TypeOK
    <3>. QED
      BY <2>1, <3>1 DEF submitVars, memoryVars, fileVars, countVars, faultVars
  <2>2. CASE WaitFails \/ Finish
    <3>1. dest = NumOutputs + 1
      BY <2>2 DEF IInv, IssueOrder
    <3>. QED
      BY <2>2, <3>1 DEF submitVars, memoryVars, fileVars, countVars, faultVars
  <2>. QED
    BY <2>1, <2>2
<1>2. faults' \in 0 .. MaxFaults /\ gaveUp' \in BOOLEAN
  <2>1. faults \in 0 .. MaxFaults /\ gaveUp \in BOOLEAN /\ MaxFaults \in Nat
    BY Constants DEF IInv, TypeOK
  <2>2. CASE StartWaiting \/ Finish
    BY <2>1, <2>2 DEF faultVars
  <2>3. CASE WaitFails
    BY <2>1, <2>3
  <2>. QED
    BY <2>2, <2>3
<1>3. TypeOK'
  BY <1>1, <1>2 DEF IInv, TypeOK, Expected
<1>4. SqShape' /\ ChainShape' /\ CqShape' /\ OnePlace'
  BY <1>1, QueuesKept
<1>5. IssueOrder'
  BY <1>1 DEF IInv, IssueOrder, Issued
<1>6. Returned'
  BY <1>1 DEF Returned, Expected, faultVars
<1>. QED
  BY <1>1, <1>2, <1>3, <1>4, <1>5, <1>6 DEF IInv, OnlyReadDataWritten

(* Looking at a completion keeps the invariant. *)
LEMMA ReapKeeps == ASSUME IInv, NEW c \in cq, Reap(c) PROVE IInv'
<1>. USE DEF Reap
<1>1. /\ pc = "wait" /\ pc' = pc /\ cq' = cq \ {c}
      /\ UNCHANGED <<sz, dest, file_sz, total_processed, sq, chains, filled, held,
                     junk, faults, faulted, short, gaveUp>>
  BY DEF submitVars, fileVars, faultVars
<1>2. c \in Completions /\ c.key \in Keys /\ c.bytes \in Nat /\ c.ctx \in BOOLEAN
  BY CompletionFields DEF IInv, CqShape
<1>3. /\ live' \cup freed' = live \cup freed
      /\ live' \cap freed' = {}
      /\ freed' \subseteq Keys /\ live' \subseteq Keys
      /\ c.ctx => /\ c.key \in live /\ c.key \notin freed
                  /\ live' = live \ {c.key} /\ freed' = freed \cup {c.key}
      /\ ~c.ctx => live' = live /\ freed' = freed
  <2>1. c.ctx => c.key \in live /\ c.key \notin freed
    BY DEF IInv, OnePlace, CqKeys
  <2>. QED
    BY <2>1 DEF IInv, OnePlace, TypeOK, Freed
<1>4. CqKeys' = IF c.ctx THEN CqKeys \ {c.key} ELSE CqKeys
  BY <1>1 DEF CqKeys, IInv, CqShape
<1>5. completed' = Cardinality(freed')
  <2>1. IsFiniteSet(freed)
    BY FiniteKeys DEF IInv, TypeOK
  <2>2. CASE c.ctx
    <3>1. Cardinality(freed \cup {c.key}) = Cardinality(freed) + 1
      BY <1>3, <2>1, <2>2, FS_AddElement
    <3>. QED
      BY <1>3, <2>2, <3>1 DEF IInv, Counted
  <2>3. CASE ~c.ctx
    BY <1>3, <2>3 DEF IInv, Counted
  <2>. QED
    BY <2>2, <2>3
<1>6. completed' \in 0 .. Expected /\ total_data_out' \in Nat
  <2>1. Expected \in Nat
    BY ExpectedNat DEF IInv, TypeOK
  <2>2. completed \in Nat /\ completed < Expected /\ total_data_out \in Nat
    BY <2>1 DEF IInv, TypeOK
  <2>3. Transferred(c) \in Nat
    BY <1>2 DEF Transferred
  <2>4. completed' \in {completed, completed + 1}
    OBVIOUS
  <2>5. total_data_out' \in {total_data_out, total_data_out + Transferred(c)}
    OBVIOUS
  <2>. QED
    BY <2>1, <2>2, <2>3, <2>4, <2>5
<1>7. TypeOK'
  <2>1. Expected' = Expected
    BY <1>1 DEF Expected
  <2>. QED
    BY <1>1, <1>3, <1>6, <2>1 DEF IInv, TypeOK
<1>8. SqShape' /\ ChainShape' /\ CqShape'
  BY <1>1 DEF IInv, SqShape, Paired, OncePerWindow, ReadEntry, Key, Bytes,
        ChainShape, CqShape
<1>9. OnePlace'
  <2>1. SqKeys' = SqKeys /\ ChainKeys' = ChainKeys
    BY <1>1 DEF SqKeys, ChainKeys
  <2>2. c.ctx => c.key \in CqKeys
    BY DEF CqKeys
  <2>. QED
    BY <1>3, <1>4, <2>1, <2>2 DEF IInv, OnePlace
<1>10. IssueOrder'
  <2>1. \A k \in (live \cup freed)' : Issued(k)'
    BY <1>1, <1>3 DEF IInv, IssueOrder, Issued
  <2>. QED
    BY <1>1, <2>1 DEF IInv, IssueOrder
<1>. QED
  BY <1>1, <1>5, <1>7, <1>8, <1>9, <1>10 DEF IInv, Returned, OnlyReadDataWritten

(* What the kernel does keeps the invariant. *)
LEMMA ExecuteKeeps ==
    ASSUME IInv, NEW chain \in chains, Execute(chain) PROVE IInv'
<1>1. PICK k \in Keys, n \in 1 .. WindowSize :
          PairRead(k, n, chain) \/ PairCut(k, n, chain) \/ Written(k, n, chain)
  BY ExecuteCases
<1>2. UNCHANGED <<pc, sz, dest, file_sz, total_processed, sq, live, freed,
                  completed, total_data_out>>
  BY DEF Execute, submitVars, memoryVars, countVars
<1>3. /\ ChainShape' /\ CqShape' /\ k \in ChainKeys
      /\ \/ PairRead(k, n, chain) /\ ChainKeys' = ChainKeys /\ CqKeys' = CqKeys
         \/ /\ ~PairRead(k, n, chain)
            /\ ChainKeys' = ChainKeys \ {k} /\ CqKeys' = CqKeys \cup {k}
  BY <1>1, ExecuteKeepsChains
<1>4. SqShape' /\ SqKeys' = SqKeys
  BY <1>2 DEF IInv, SqShape, Paired, OncePerWindow, ReadEntry, Key, Bytes, SqKeys
<1>5. OnePlace'
  BY <1>2, <1>3, <1>4 DEF IInv, OnePlace
<1>6. /\ filled' \subseteq Keys /\ held' \subseteq Keys /\ junk' = junk
      /\ faults' \in 0 .. MaxFaults /\ faulted' \subseteq Keys
      /\ short' \in BOOLEAN /\ gaveUp' = gaveUp
  <2>1. /\ filled \subseteq Keys /\ held \subseteq Keys
        /\ faults \in 0 .. MaxFaults /\ faulted \subseteq Keys /\ short \in BOOLEAN
    BY DEF IInv, TypeOK
  <2>2. CASE PairRead(k, n, chain)
    BY <2>1, <2>2 DEF PairRead, faultVars
  <2>3. CASE PairCut(k, n, chain)
    BY <2>1, <2>3, Constants DEF PairCut
  <2>4. CASE Written(k, n, chain)
    <3>1. /\ filled' = filled /\ junk' = junk /\ gaveUp' = gaveUp
          /\ held' \in {held, held \cup {k}} /\ short' \in {short, TRUE}
          /\ faulted' \in {faulted, faulted \cup {k}}
          /\ faults' = faults \/ (faults < MaxFaults /\ faults' = faults + 1)
      BY <2>4 DEF Written, faultVars
    <3>2. faults' \in 0 .. MaxFaults
      BY <2>1, <3>1, Constants
    <3>3. held' \subseteq Keys /\ faulted' \subseteq Keys
      BY <2>1, <3>1
    <3>4. short' \in BOOLEAN
      BY <2>1, <3>1
    <3>. QED
      BY <2>1, <3>1, <3>2, <3>3, <3>4
  <2>. QED
    BY <1>1, <2>2, <2>3, <2>4
<1>7. TypeOK'
  BY <1>2, <1>6 DEF IInv, TypeOK, Expected
<1>8. IssueOrder'
  BY <1>2 DEF IInv, IssueOrder, Issued, Key
<1>9. Returned'
  BY <1>2, <1>6 DEF IInv, Returned, Expected
<1>. QED
  BY <1>2, <1>3, <1>4, <1>5, <1>6, <1>7, <1>8, <1>9 DEF IInv, OnlyReadDataWritten

(* A step that changes nothing keeps the invariant. *)
LEMMA StutterKeeps == ASSUME IInv, UNCHANGED vars PROVE IInv'
<1>. USE DEF vars, submitVars, memoryVars, fileVars, countVars, faultVars
<1>1. TypeOK' /\ IssueOrder' /\ Returned' /\ OnlyReadDataWritten'
  BY DEF IInv, TypeOK, IssueOrder, Issued, Key, Returned, Expected,
        OnlyReadDataWritten
<1>2. SqShape' /\ ChainShape' /\ CqShape'
  BY DEF IInv, SqShape, Paired, OncePerWindow, ReadEntry, Key, Bytes, ChainShape,
        CqShape
<1>3. OnePlace'
  BY DEF IInv, OnePlace, SqKeys, ChainKeys, CqKeys
<1>. QED
  BY <1>1, <1>2, <1>3 DEF IInv

(* The invariant is inductive. *)
LEMMA NextIInv == IInv /\ [Next]_vars => IInv'
<1>. SUFFICES ASSUME IInv, [Next]_vars PROVE IInv'
  OBVIOUS
<1>1. CASE OpenDest
  BY <1>1, OpenDestKeeps
<1>2. CASE PrepReadv
  BY <1>2, PrepReadvKeeps
<1>3. CASE PrepWritev
  BY <1>3, PrepWritevKeeps
<1>4. CASE SubmitRest
  BY <1>4, SubmitRestKeeps
<1>5. CASE StartWaiting \/ WaitFails \/ Finish
  BY <1>5, WaitingKeeps
<1>6. CASE \E c \in cq : Reap(c)
  BY <1>6, ReapKeeps
<1>7. CASE \E chain \in chains : Execute(chain)
  BY <1>7, ExecuteKeeps
<1>8. CASE UNCHANGED vars
  BY <1>8, StutterKeeps
<1>. QED
  BY <1>1, <1>2, <1>3, <1>4, <1>5, <1>6, <1>7, <1>8 DEF Next, Terminated

(* The inductive invariant, for every value of the constants. *)
THEOREM Invariance == Spec => []IInv
  BY InitIInv, NextIInv, PTL DEF Spec

(* Every variable keeps its type, whatever sizes the source shows. *)
THEOREM TypeCorrect == Spec => []TypeOK
<1>1. IInv => TypeOK
  BY DEF IInv
<1>. QED
  BY <1>1, Invariance, PTL

(* "Link read to write": no write takes data from a buffer that was not    *)
(* read or was freed.                                                      *)
THEOREM OnlyReadDataIsWritten == Spec => []OnlyReadDataWritten
<1>1. IInv => OnlyReadDataWritten
  BY DEF IInv
<1>. QED
  BY <1>1, Invariance, PTL

(* A context is deleted once, and never while its pair is queued or        *)
(* running.                                                                *)
THEOREM FreedContextsAreIdle == Spec => []FreedContextIdle
<1>1. IInv => FreedContextIdle
  <2>. SUFFICES ASSUME IInv PROVE FreedContextIdle
    OBVIOUS
  <2>1. \A i \in DOMAIN sq : sq[i].key \in SqKeys
    BY LenProperties DEF IInv, SqShape, SqKeys
  <2>2. ASSUME NEW chain \in chains, NEW i \in DOMAIN chain
        PROVE  chain[i].key \in ChainKeys
    <3>1. PICK k \in Keys, n \in 1 .. WindowSize :
              chain = PairOf(k, n) \/ chain = RestOf(k, n)
      BY DEF IInv, ChainShape
    <3>2. chain[i].key = k
      BY <3>1, EntryFields DEF PairOf, RestOf
    <3>3. chain[1].key = k
      BY <3>1, FirstEntry
    <3>. QED
      BY <3>2, <3>3 DEF ChainKeys
  <2>. QED
    BY <2>1, <2>2 DEF IInv, OnePlace, FreedContextIdle, InFlight
<1>. QED
  BY <1>1, Invariance, PTL

-----------------------------------------------------------------------------
(* Sizes of a source that keeps its size. *)
LEMMA StableSizes ==
    ASSUME StableSource
    PROVE  /\ SourceSize \in Nat /\ SourceSize < Modulus
           /\ SourceSize + WindowSize - 1 \in 0 .. (Modulus - 1)
           /\ \A s \in Sizes : Stat(s) = SourceSize
<1>1. SourceSize \in Nat /\ SourceSize < Modulus
      /\ SourceSize + WindowSize - 1 \in 0 .. (Modulus - 1)
  BY Constants DEF StableSource
<1>2. SourceSize % Modulus = SourceSize
  BY <1>1, Constants, Z3
<1>. QED
  BY <1>1, <1>2 DEF StableSource, Stat

(* The windows of the source, and their number. *)
LEMMA WindowsOfSource ==
    ASSUME StableSource
    PROVE  LET q == (SourceSize + WindowSize - 1) \div WindowSize IN
           /\ q \in Nat
           /\ SourceWindows = 0 .. (q - 1)
<1>. DEFINE q == (SourceSize + WindowSize - 1) \div WindowSize
            top == Modulus \div WindowSize
<1>1. /\ SourceSize \in Nat /\ SourceSize < Modulus
      /\ SourceSize + WindowSize - 1 \in Nat
  BY StableSizes, Constants
<1>2. q \in Nat
  BY <1>1, DivMod, Constants
<1>3. /\ WindowSize * q <= SourceSize + WindowSize - 1
      /\ SourceSize + WindowSize - 1 < WindowSize * q + WindowSize
  BY <1>1, <1>2, DivBounds, Constants
<1>4. top \in Nat
  BY DivMod, Constants
<1>. HIDE DEF q
<1>5. ASSUME NEW w \in Nat
      PROVE  w < q <=> w * WindowSize < SourceSize
  <2>1. /\ WindowSize * w \in Int /\ w * WindowSize = WindowSize * w
        /\ WindowSize * (w + 1) = WindowSize * w + WindowSize
        /\ WindowSize * q \in Int
    BY <1>2, MulOrder, Constants
  <2>2. w < q <=> WindowSize * w < WindowSize * q
    BY <1>2, MulOrder, Constants
  <2>3. q < w + 1 <=> WindowSize * q < WindowSize * (w + 1)
    <3>1. w + 1 \in Int
      OBVIOUS
    <3>. QED
      BY <1>2, <3>1, MulOrder, Constants
  <2>4. ASSUME w < q PROVE w * WindowSize < SourceSize
    BY <1>1, <1>2, <1>3, <2>1, <2>3, <2>4, Constants
  <2>5. ASSUME ~(w < q) PROVE ~(w * WindowSize < SourceSize)
    BY <1>1, <1>2, <1>3, <2>1, <2>2, <2>5, Constants
  <2>. QED
    BY <2>4, <2>5
<1>6. ASSUME NEW w \in Nat, w * WindowSize < SourceSize
      PROVE  w \in Windows
  <2>1. w * WindowSize \in Nat /\ w * WindowSize = WindowSize * w
    <3>1. w * WindowSize \in Int /\ w * WindowSize = WindowSize * w
      BY MulOrder, Constants
    <3>2. 0 <= WindowSize * w
      BY Constants, Z3
    <3>. QED
      BY <3>1, <3>2
  <2>2. (w * WindowSize) \div WindowSize = w
    BY <2>1, DivBounds, Constants
  <2>3. (w * WindowSize) \div WindowSize <= top
    BY <1>1, <1>6, <2>1, DivOrder, Constants
  <2>. QED
    BY <1>4, <2>2, <2>3 DEF Windows
<1>7. \A w \in Windows : w \in Nat
  BY DEF Windows
<1>8. SourceWindows = 0 .. (q - 1)
  BY <1>2, <1>5, <1>6, <1>7 DEF SourceWindows
<1>. QED
  BY <1>2, <1>8 DEF q

(* The windows of all outputs are as many as the completions expected. *)
LEMMA WindowCount ==
    ASSUME StableSource, sz = SourceSize
    PROVE  /\ IsFiniteSet(Outputs \X SourceWindows)
           /\ Cardinality(Outputs \X SourceWindows) = Expected
<1>. DEFINE q == (SourceSize + WindowSize - 1) \div WindowSize
<1>1. q \in Nat /\ SourceWindows = 0 .. (q - 1)
  BY WindowsOfSource
<1>2. Expected = q * NumOutputs
  <2>1. (SourceSize + WindowSize - 1) % Modulus = SourceSize + WindowSize - 1
    <3>. DEFINE up == SourceSize + WindowSize - 1
    <3>1. up \in 0 .. (Modulus - 1)
      BY StableSizes
    <3>. HIDE DEF up
    <3>2. up % Modulus = up
      BY <3>1, Constants, Z3
    <3>. QED
      BY <3>2 DEF up
  <2>. QED
    BY <2>1 DEF Expected
<1>. HIDE DEF q
<1>3. IsFiniteSet(SourceWindows) /\ Cardinality(SourceWindows) = q
  BY <1>1, FS_Interval
<1>4. IsFiniteSet(Outputs) /\ Cardinality(Outputs) = NumOutputs
  BY Constants, FS_Interval DEF Outputs
<1>5. /\ IsFiniteSet(Outputs \X SourceWindows)
      /\ Cardinality(Outputs \X SourceWindows) = NumOutputs * q
  BY <1>3, <1>4, FS_Product
<1>6. NumOutputs * q = q * NumOutputs
  BY <1>1, Constants
<1>. QED
  BY <1>2, <1>5, <1>6

(* The bytes of a window. *)
BytesIn(k) ==
    {b \in Outputs \X (0 .. (SourceSize - 1)) :
        <<b[1], b[2] \div WindowSize>> = k}

(* The bytes of a window: as many as it is long, the first among them. *)
LEMMA CountBytes ==
    ASSUME StableSource, NEW k \in Outputs \X SourceWindows
    PROVE  /\ IsFiniteSet(BytesIn(k))
           /\ Cardinality(BytesIn(k)) = BytesOf(k)
           /\ BytesOf(k) \in 1 .. WindowSize
           /\ <<k[1], k[2] * WindowSize>> \in BytesIn(k)
<1>. DEFINE off == k[2] * WindowSize
<1>1. SourceSize \in Nat
  BY StableSizes
<1>2. k[1] \in Outputs /\ k[2] \in SourceWindows /\ k = <<k[1], k[2]>>
  OBVIOUS
<1>3. k[2] \in Nat /\ off < SourceSize
  BY <1>2 DEF SourceWindows, Windows
<1>4. off \in Nat /\ off = WindowSize * k[2]
  <2>1. off = WindowSize * k[2] /\ off \in Int
    BY <1>3, MulOrder, Constants
  <2>2. 0 <= WindowSize * k[2]
    BY <1>3, Constants, Z3
  <2>. QED
    BY <2>1, <2>2
<1>5. BytesOf(k) = IF SourceSize - off < WindowSize THEN SourceSize - off
                                                   ELSE WindowSize
  BY DEF BytesOf
<1>. HIDE DEF off
<1>6. BytesOf(k) \in 1 .. WindowSize /\ off + BytesOf(k) <= SourceSize
  BY <1>1, <1>3, <1>4, <1>5, Constants
<1>. DEFINE n == BytesOf(k)
            range == off .. (off + n - 1)
<1>7. n \in Nat /\ off + n <= SourceSize
  BY <1>6
<1>8. ASSUME NEW x \in 0 .. (SourceSize - 1)
      PROVE  x \div WindowSize = k[2] <=> x \in range
  <2>1. x \div WindowSize = k[2] <=> off <= x /\ x < off + WindowSize
    <3>1. x \in Nat
      BY <1>1
    <3>. QED
      BY <1>3, <1>4, <3>1, DivBounds, Constants
  <2>2. n = IF SourceSize - off < WindowSize THEN SourceSize - off
                                             ELSE WindowSize
    BY <1>5
  <2>. HIDE DEF n
  <2>3. off <= x /\ x < off + WindowSize <=> x \in range
    BY <1>1, <1>4, <1>7, <2>2, Constants
  <2>. QED
    BY <2>1, <2>3
<1>. HIDE DEF n
<1>9. BytesIn(k) = {k[1]} \X range
  <2>1. \A x \in range : x \in 0 .. (SourceSize - 1)
    BY <1>1, <1>4, <1>7
  <2>. HIDE DEF range
  <2>. QED
    BY <1>2, <1>8, <2>1 DEF BytesIn
<1>10. IsFiniteSet(range) /\ Cardinality(range) = n
  <2>. DEFINE last == off + n - 1
  <2>1. off \in Int /\ last \in Int
    BY <1>4, <1>7
  <2>2. range = off .. last
    OBVIOUS
  <2>3. (IF off > last THEN 0 ELSE last - off + 1) = n
    BY <1>4, <1>7
  <2>. HIDE DEF last, range
  <2>4. /\ IsFiniteSet(off .. last)
        /\ Cardinality(off .. last) = IF off > last THEN 0 ELSE last - off + 1
    BY <2>1, FS_Interval
  <2>. QED
    BY <2>2, <2>3, <2>4
<1>. HIDE DEF range
<1>11. IsFiniteSet({k[1]}) /\ Cardinality({k[1]}) = 1
  BY FS_Singleton
<1>12. IsFiniteSet(BytesIn(k)) /\ Cardinality(BytesIn(k)) = n
  <2>1. IsFiniteSet(BytesIn(k)) /\ Cardinality(BytesIn(k)) = 1 * n
    BY <1>9, <1>10, <1>11, FS_Product
  <2>. QED
    BY <1>7, <2>1
<1>13. <<k[1], off>> \in BytesIn(k)
  <2>1. off \in range
    BY <1>4, <1>6 DEF range, n
  <2>. QED
    BY <1>9, <2>1
<1>. QED
  BY <1>6, <1>12, <1>13 DEF off, n

-----------------------------------------------------------------------------
(* With a stable source, the stronger invariant at the start. *)
LEMMA InitStable == ASSUME StableSource, Init PROVE StableInv
<1>1. SourceSize \in Nat /\ sz = SourceSize
  BY StableSizes DEF Init
<1>2. RightSizes
  BY <1>1, EmptySeq DEF Init, RightSizes
<1>3. AllIssued
  <2>1. ASSUME NEW k \in Outputs \X SourceWindows PROVE ~Issued(k)
    <3>1. k[1] \in 1 .. NumOutputs
      BY DEF Outputs
    <3>. QED
      BY <3>1, Constants DEF Init, Issued
  <2>. QED
    BY <2>1 DEF Init, AllIssued
<1>4. Outcomes
  BY DEF Init, Outcomes, CqKeys
<1>5. TotalExact
  <2>1. Arrived = {}
    BY DEF Init, Arrived
  <2>. QED
    BY <2>1, FS_EmptySet DEF Init, TotalExact
<1>. QED
  BY <1>2, <1>3, <1>4, <1>5 DEF StableInv

(* Nothing of the outcome changes where no operation completes. *)
LEMMA OutcomesKept ==
    ASSUME StableInv, UNCHANGED <<cq, freed, held, faulted, short, total_data_out>>
    PROVE  Outcomes' /\ TotalExact'
  BY DEF StableInv, Outcomes, TotalExact, CqKeys, Arrived

(* A window of the source at an output being submitted. *)
LEMMA WindowTypes ==
    ASSUME NEW k \in Outputs \X SourceWindows
    PROVE  /\ k[1] \in 1 .. NumOutputs /\ k[2] \in Nat
           /\ k[2] * WindowSize < SourceSize
           /\ k[2] * WindowSize = WindowSize * k[2]
           /\ WindowSize * k[2] \in Int
           /\ k = <<k[1], k[2]>>
<1>1. k[2] \in Nat /\ k[2] * WindowSize < SourceSize
  BY DEF SourceWindows, Windows
<1>. QED
  BY <1>1, MulOrder, Constants DEF Outputs

(* Opening a destination keeps it. *)
LEMMA OpenDestStable ==
    ASSUME StableSource, IInv, StableInv, OpenDest PROVE StableInv'
<1>. USE DEF OpenDest
<1>1. file_sz' = SourceSize /\ SourceSize \in Nat
  BY StableSizes
<1>2. Outcomes' /\ TotalExact'
  BY OutcomesKept DEF fileVars, memoryVars, countVars, faultVars
<1>3. RightSizes'
  BY <1>1 DEF StableInv, RightSizes
<1>4. dest \in 1 .. NumOutputs
  BY DEF IInv, TypeOK
<1>5. ASSUME NEW k \in Outputs \X SourceWindows
      PROVE  Issued(k)' <=> Issued(k)
  <2>1. /\ k[1] \in 1 .. NumOutputs /\ k[2] \in Nat
        /\ k[2] * WindowSize < SourceSize
        /\ k[2] * WindowSize = WindowSize * k[2] /\ WindowSize * k[2] \in Int
    BY WindowTypes
  <2>2. ~(k[2] * WindowSize < 0)
    <3>1. 0 <= WindowSize * k[2]
      BY <2>1, Constants, Z3
    <3>. QED
      BY <2>1, <3>1
  <2>3. SourceSize # 0
    BY <1>1, <2>1, <2>2
  <2>4. pc' = "read" /\ dest' = dest /\ total_processed' = 0
    BY <1>1, <2>3
  <2>. QED
    BY <1>4, <2>1, <2>2, <2>4 DEF Issued
<1>6. AllIssued'
  BY <1>5 DEF StableInv, AllIssued, memoryVars
<1>. QED
  BY <1>2, <1>3, <1>6 DEF StableInv

(* Preparing a read keeps it. *)
LEMMA PrepReadvStable ==
    ASSUME StableSource, IInv, StableInv, PrepReadv PROVE StableInv'
<1>. USE DEF PrepReadv
<1>1. /\ Key \in Keys /\ Key[1] = dest /\ Key[2] * WindowSize = total_processed
      /\ Bytes \in 1 .. WindowSize /\ ReadEntry = ReadOf(Key, Bytes)
      /\ ReadEntry \in Entry /\ dest \in Outputs
  BY AtWindow
<1>2. total_processed \in Nat /\ SourceSize \in Nat /\ file_sz = SourceSize
  BY StableSizes DEF IInv, TypeOK, StableInv, RightSizes
<1>3. Outcomes' /\ TotalExact'
  BY OutcomesKept DEF fileVars, countVars, faultVars
<1>4. Key' = Key
  BY DEF Key, submitVars
<1>5. Key \in Outputs \X SourceWindows
  BY <1>1, <1>2 DEF Keys, SourceWindows
<1>6. AllIssued'
  <2>1. ASSUME NEW k \in Outputs \X SourceWindows
        PROVE  Issued(k)' <=> Issued(k) \/ k = Key
    BY <1>1, <1>4 DEF Issued, submitVars
  <2>. QED
    BY <1>5, <2>1 DEF StableInv, AllIssued
<1>7. Bytes = BytesOf(Key)
  BY <1>1, <1>2 DEF Bytes, BytesOf
<1>8. RightSizes'
  <2>1. ReadEntry.key = Key /\ ReadEntry.bytes = BytesOf(Key)
    BY <1>1, <1>7, EntryFields
  <2>2. sq \in Seq(Entry) /\ Len(sq) \in Nat
    BY LenProperties DEF IInv, SqShape
  <2>3. \A i \in 1 .. Len(sq) : sq[i].bytes = BytesOf(sq[i].key)
    BY DEF StableInv, RightSizes
  <2>4. \A i \in 1 .. Len(sq') : sq'[i].bytes = BytesOf(sq'[i].key)
    <3>1. CASE sq' = <<ReadEntry>>
      BY <2>1, <3>1
    <3>2. CASE sq' = Append(sq, ReadEntry)
      <4>1. /\ Len(sq') = Len(sq) + 1 /\ sq'[Len(sq) + 1] = ReadEntry
            /\ \A i \in 1 .. Len(sq) : sq'[i] = sq[i]
        BY <1>1, <2>2, <3>2, AppendProperties
      <4>. QED
        BY <2>1, <2>2, <2>3, <4>1
    <3>. QED
      BY <3>1, <3>2 DEF Queue
  <2>5. \A c \in Chains(sq) : c[1].bytes = BytesOf(c[1].key)
    <3>1. sq \in Seq(Entry) /\ Paired(sq) /\ ~Odd(Len(sq))
      BY DEF IInv, SqShape
    <3>2. ASSUME NEW c \in Chains(sq)
          PROVE  \E i \in 1 .. Len(sq) : c = PairOf(sq[i].key, sq[i].bytes)
      BY <3>1, FlushedPairs
    <3>. QED
      BY <2>3, <3>2, FirstEntry, EntryFields
  <2>6. \A c \in chains' : c[1].bytes = BytesOf(c[1].key)
    BY <2>5 DEF StableInv, RightSizes, Queue
  <2>. QED
    BY <2>4, <2>6 DEF StableInv, RightSizes, submitVars, BytesOf
<1>. QED
  BY <1>3, <1>6, <1>8 DEF StableInv

(* Preparing a write keeps it. *)
LEMMA PrepWritevStable ==
    ASSUME StableSource, IInv, StableInv, PrepWritev PROVE StableInv'
<1>. USE DEF PrepWritev
<1>1. total_processed < file_sz
  BY DEF IInv, IssueOrder
<1>2. /\ Key \in Keys /\ Key[1] = dest /\ Key[2] * WindowSize = total_processed
      /\ Bytes \in 1 .. WindowSize
      /\ ReadEntry = ReadOf(Key, Bytes) /\ WriteEntry = WriteOf(Key, Bytes)
      /\ WriteEntry \in Entry
  BY <1>1, AtWindow
<1>3. total_processed \in Nat /\ SourceSize \in Nat /\ file_sz = SourceSize
  BY StableSizes DEF IInv, TypeOK, StableInv, RightSizes
<1>4. Outcomes' /\ TotalExact'
  BY OutcomesKept DEF fileVars, memoryVars, countVars, faultVars
<1>5. Len(sq) <= Entries /\ SqShape
  BY DEF IInv, TypeOK
<1>6. sq' = Append(sq, WriteEntry) /\ chains' = chains
  BY <1>2, <1>5, QueueWrite
<1>7. Bytes = BytesOf(Key)
  BY <1>2, <1>3 DEF Bytes, BytesOf
<1>8. RightSizes'
  <2>1. WriteEntry.key = Key /\ WriteEntry.bytes = BytesOf(Key)
    BY <1>2, <1>7, EntryFields
  <2>2. sq \in Seq(Entry) /\ Len(sq) \in Nat
    BY <1>5, LenProperties DEF SqShape
  <2>3. \A i \in 1 .. Len(sq) : sq[i].bytes = BytesOf(sq[i].key)
    BY DEF StableInv, RightSizes
  <2>4. \A i \in 1 .. Len(sq') : sq'[i].bytes = BytesOf(sq'[i].key)
    <3>1. /\ Len(sq') = Len(sq) + 1 /\ sq'[Len(sq) + 1] = WriteEntry
          /\ \A i \in 1 .. Len(sq) : sq'[i] = sq[i]
      BY <1>2, <1>6, <2>2, AppendProperties
    <3>. QED
      BY <2>1, <2>2, <2>3, <3>1
  <2>. QED
    BY <1>6, <2>4 DEF StableInv, RightSizes, BytesOf
<1>9. ASSUME NEW k \in Outputs \X SourceWindows
      PROVE  Issued(k)' <=> Issued(k)
  <2>. DEFINE q == Key[2]
  <2>1. q \in Nat /\ total_processed = WindowSize * q
    <3>1. q \in Nat
      BY <1>2 DEF Keys, Windows
    <3>. QED
      BY <1>2, <3>1, MulOrder, Constants
  <2>2. /\ k[1] \in 1 .. NumOutputs /\ k[2] \in Nat
        /\ k[2] * WindowSize < SourceSize
        /\ k[2] * WindowSize = WindowSize * k[2] /\ WindowSize * k[2] \in Int
        /\ k = <<k[1], k[2]>>
    BY WindowTypes
  <2>3. Key = <<dest, q>>
    BY <1>2 DEF Keys
  <2>. HIDE DEF q
  <2>4. total_processed' = total_processed + Bytes
    OBVIOUS
  <2>5. /\ WindowSize * (q + 1) = WindowSize * q + WindowSize
        /\ WindowSize * q \in Int
        /\ k[2] < q + 1 <=> WindowSize * k[2] < WindowSize * (q + 1)
        /\ k[2] < q <=> WindowSize * k[2] < WindowSize * q
    <3>1. q + 1 \in Int
      BY <2>1
    <3>. QED
      BY <2>1, <2>2, <3>1, MulOrder, Constants
  <2>6. k[2] * WindowSize < total_processed' <=>
            k[2] * WindowSize < total_processed \/ k[2] = q
    BY <1>2, <1>3, <2>1, <2>2, <2>4, <2>5, Constants DEF Bytes
  <2>. QED
    BY <2>2, <2>3, <2>6 DEF Issued
<1>10. AllIssued'
  BY <1>9 DEF StableInv, AllIssued, memoryVars
<1>. QED
  BY <1>4, <1>8, <1>10 DEF StableInv

(* Submitting the rest keeps it. *)
LEMMA SubmitRestStable ==
    ASSUME StableSource, IInv, StableInv, SubmitRest PROVE StableInv'
<1>. USE DEF SubmitRest
<1>1. Outcomes' /\ TotalExact'
  BY OutcomesKept DEF fileVars, memoryVars, countVars, faultVars
<1>2. /\ total_processed \in Nat /\ file_sz = SourceSize /\ SourceSize \in Nat
      /\ dest \in Nat
  BY StableSizes DEF IInv, TypeOK, StableInv, RightSizes
<1>3. RightSizes'
  <2>1. sq \in Seq(Entry) /\ Paired(sq) /\ ~Odd(Len(sq))
    BY DEF IInv, SqShape
  <2>2. ASSUME NEW c \in Chains(sq)
        PROVE  \E i \in 1 .. Len(sq) : c = PairOf(sq[i].key, sq[i].bytes)
    BY <2>1, FlushedPairs
  <2>3. \A c \in chains' : c[1].bytes = BytesOf(c[1].key)
    BY <2>2, FirstEntry, EntryFields DEF StableInv, RightSizes
  <2>. QED
    BY <2>3, EmptySeq DEF StableInv, RightSizes, BytesOf
<1>4. ASSUME NEW k \in Outputs \X SourceWindows
      PROVE  Issued(k)' <=> Issued(k)
  <2>1. /\ k[1] \in Nat /\ k[2] * WindowSize \in Int
        /\ k[2] * WindowSize < SourceSize
    BY WindowTypes
  <2>2. k[2] * WindowSize < total_processed
    BY <1>2, <2>1
  <2>. QED
    BY <1>2, <2>1, <2>2 DEF Issued
<1>5. AllIssued'
  BY <1>4 DEF StableInv, AllIssued, memoryVars
<1>. QED
  BY <1>1, <1>3, <1>5 DEF StableInv

(* The steps from submission to the return keep it. *)
LEMMA WaitingStable ==
    ASSUME StableSource, IInv, StableInv, StartWaiting \/ WaitFails \/ Finish
    PROVE  StableInv'
<1>. USE DEF StartWaiting, WaitFails, Finish
<1>1. /\ pc \in {"open", "wait"} /\ pc' \in {"wait", "done"}
      /\ UNCHANGED <<sz, dest, sq, chains, cq, live, freed, held, total_data_out,
                     faulted, short>>
  BY DEF submitVars, memoryVars, fileVars, countVars, faultVars
<1>2. Outcomes' /\ TotalExact'
  BY <1>1, OutcomesKept
<1>3. RightSizes' /\ AllIssued'
  BY <1>1 DEF StableInv, RightSizes, AllIssued, Issued
<1>. QED
  BY <1>2, <1>3 DEF StableInv

(* Only windows of the source have contexts. *)
LEMMA OfSource ==
    ASSUME StableInv
    PROVE  live \subseteq Outputs \X SourceWindows
           /\ freed \subseteq Outputs \X SourceWindows
  BY DEF StableInv, AllIssued

(* There are finitely many bytes to count. *)
LEMMA FiniteArrived ==
    ASSUME StableSource
    PROVE  /\ IsFiniteSet(Arrived)
           /\ IsFiniteSet(Outputs \X (0 .. (SourceSize - 1)))
           /\ Cardinality(Outputs \X (0 .. (SourceSize - 1))) = NumOutputs * SourceSize
<1>1. SourceSize \in Nat
  BY StableSizes
<1>2. /\ IsFiniteSet(0 .. (SourceSize - 1))
      /\ Cardinality(0 .. (SourceSize - 1)) = SourceSize
  BY <1>1, FS_Interval
<1>3. IsFiniteSet(Outputs) /\ Cardinality(Outputs) = NumOutputs
  BY Constants, FS_Interval DEF Outputs
<1>4. /\ IsFiniteSet(Outputs \X (0 .. (SourceSize - 1)))
      /\ Cardinality(Outputs \X (0 .. (SourceSize - 1))) = NumOutputs * SourceSize
  BY <1>2, <1>3, FS_Product
<1>5. IsFiniteSet(Arrived)
  BY <1>4, FS_Subset DEF Arrived
<1>. QED
  BY <1>4, <1>5

(* The total grows by what arrived. *)
LEMMA ReapStable ==
    ASSUME StableSource, IInv, StableInv, NEW c \in cq, Reap(c)
    PROVE  StableInv'
<1>. USE DEF Reap
<1>1. /\ pc = "wait" /\ pc' = pc /\ cq' = cq \ {c}
      /\ UNCHANGED <<sz, dest, file_sz, total_processed, sq, chains, held,
                     faulted, short>>
  BY DEF submitVars, fileVars, faultVars
<1>2. c \in Completions /\ c.key \in Keys /\ c.bytes \in Nat /\ c.ctx \in BOOLEAN
      /\ c.res \in {"ok", "err"}
  BY CompletionFields DEF IInv, CqShape
<1>3. CASE ~c.ctx
  <2>1. UNCHANGED <<live, freed, total_data_out>> /\ CqKeys' = CqKeys
    BY <1>1, <1>3 DEF Freed, CqKeys
  <2>2. RightSizes' /\ AllIssued'
    BY <1>1, <2>1 DEF StableInv, RightSizes, AllIssued, Issued
  <2>3. Outcomes' /\ TotalExact'
    BY <1>1, <2>1 DEF StableInv, Outcomes, TotalExact, Arrived
  <2>. QED
    BY <2>2, <2>3 DEF StableInv
<1>4. CASE c.ctx
  <2>1. /\ c.key \in CqKeys /\ c.key \in live /\ c.key \notin freed
        /\ live' = live \ {c.key} /\ freed' = freed \cup {c.key}
        /\ CqKeys' = CqKeys \ {c.key}
    <3>1. c.key \in CqKeys
      BY <1>4 DEF CqKeys
    <3>2. CqKeys' = CqKeys \ {c.key}
      BY <1>1, <1>4 DEF CqKeys, IInv, CqShape
    <3>. QED
      BY <1>4, <3>1, <3>2 DEF IInv, OnePlace, Freed
  <2>2. RightSizes'
    BY <1>1 DEF StableInv, RightSizes
  <2>3. AllIssued'
    <3>1. live' \cup freed' = live \cup freed
      BY <2>1
    <3>. QED
      BY <1>1, <3>1 DEF StableInv, AllIssued, Issued
  <2>4. Outcomes'
    <3>1. CqKeys' \cup freed' = CqKeys \cup freed
      BY <2>1
    <3>. QED
      BY <1>1, <3>1 DEF StableInv, Outcomes
  <2>5. ASSUME ~short
        PROVE  total_data_out' = Cardinality(Arrived')
    <3>1. c.res = "ok" <=> c.key \in held
      BY <1>4, <2>5 DEF StableInv, Outcomes
    <3>2. total_data_out = Cardinality(Arrived)
      BY <2>5 DEF StableInv, TotalExact
    <3>3. CASE c.res = "err"
      <4>1. freed' \cap held' = freed \cap held
        BY <1>1, <2>1, <3>1, <3>3
      <4>2. Arrived' = Arrived
        BY <4>1 DEF Arrived
      <4>3. total_data_out' = total_data_out
        BY <1>4, <3>3 DEF Transferred, IInv, TypeOK
      <4>. QED
        BY <3>2, <4>2, <4>3
    <3>4. CASE c.res = "ok"
      <4>1. freed' \cap held' = (freed \cap held) \cup {c.key}
        BY <1>1, <2>1, <3>1, <3>4
      <4>2. Arrived' = Arrived \cup BytesIn(c.key) /\ Arrived \cap BytesIn(c.key) = {}
        BY <2>1, <4>1 DEF Arrived, BytesIn
      <4>3. c.key \in Outputs \X SourceWindows
        BY <2>1, OfSource
      <4>4. IsFiniteSet(BytesIn(c.key)) /\ Cardinality(BytesIn(c.key)) = c.bytes
        BY <4>3, CountBytes DEF StableInv, RightSizes
      <4>5. IsFiniteSet(Arrived) /\ Cardinality(Arrived) \in Nat
        BY FiniteArrived, FS_CardinalityType
      <4>6. Cardinality(Arrived \cap BytesIn(c.key)) = 0
        BY <4>2, FS_EmptySet
      <4>7. Cardinality(Arrived') = Cardinality(Arrived) + c.bytes
        <5>1. Cardinality(Arrived \cup BytesIn(c.key))
                  = Cardinality(Arrived) + Cardinality(BytesIn(c.key))
                        - Cardinality(Arrived \cap BytesIn(c.key))
          BY <4>4, <4>5, FS_Union
        <5>. QED
          BY <1>2, <4>2, <4>4, <4>5, <4>6, <5>1
      <4>8. total_data_out' = total_data_out + c.bytes
        BY <1>4, <3>4 DEF Transferred
      <4>. QED
        BY <3>2, <4>7, <4>8
    <3>. QED
      BY <1>2, <3>3, <3>4
  <2>6. TotalExact'
    BY <1>1, <2>5 DEF TotalExact
  <2>. QED
    BY <2>2, <2>3, <2>4, <2>6 DEF StableInv
<1>. QED
  BY <1>2, <1>3, <1>4

(* What the kernel does keeps it. *)
LEMMA ExecuteStable ==
    ASSUME StableSource, IInv, StableInv, NEW chain \in chains, Execute(chain)
    PROVE  StableInv'
<1>1. PICK k \in Keys, n \in 1 .. WindowSize :
          PairRead(k, n, chain) \/ PairCut(k, n, chain) \/ Written(k, n, chain)
  BY ExecuteCases
<1>2. UNCHANGED <<pc, sz, dest, file_sz, total_processed, sq, live, freed,
                  completed, total_data_out>>
  BY DEF Execute, submitVars, memoryVars, countVars
<1>3. /\ k \in ChainKeys
      /\ \/ PairRead(k, n, chain) /\ CqKeys' = CqKeys
         \/ ~PairRead(k, n, chain) /\ CqKeys' = CqKeys \cup {k}
  BY <1>1, ExecuteKeepsChains
<1>4. k \notin freed /\ k \notin CqKeys /\ k \notin held
  BY <1>3 DEF IInv, OnePlace, StableInv, Outcomes
<1>5. n = BytesOf(k)
  <2>1. chain[1].key = k /\ chain[1].bytes = n
    BY <1>1, FirstEntry, EntryFields DEF PairRead, PairCut, Written
  <2>. QED
    BY <2>1 DEF StableInv, RightSizes
<1>6. AllIssued'
  BY <1>2 DEF StableInv, AllIssued, Issued, Key
<1>7. RightSizes'
  <2>1. \A c \in chains' : c[1].bytes = BytesOf(c[1].key)
    <3>1. RestOf(k, n)[1].bytes = BytesOf(RestOf(k, n)[1].key)
      BY <1>5, FirstEntry, EntryFields
    <3>2. chains' \subseteq chains \cup {RestOf(k, n)}
      BY <1>1 DEF PairRead, PairCut, Written
    <3>. QED
      BY <3>1, <3>2 DEF StableInv, RightSizes
  <2>2. \A x \in cq' : x.bytes = BytesOf(x.key)
    <3>1. \A x \in cq' : x \in cq \/ \E res : x = Completion(ReadOf(k, n), res)
                                            \/ x = Completion(WriteOf(k, n), res)
      BY <1>1 DEF PairRead, PairCut, Written
    <3>. QED
      BY <1>5, <3>1, CompletionFields DEF StableInv, RightSizes
  <2>. QED
    BY <1>2, <2>1, <2>2 DEF StableInv, RightSizes
<1>8. freed' \cap held' = freed \cap held /\ (~short' => ~short)
  <2>1. held' \in {held, held \cup {k}}
    BY <1>1 DEF PairRead, PairCut, Written
  <2>2. short' = short \/ short' = TRUE
    BY <1>1 DEF PairRead, PairCut, Written, faultVars
  <2>. QED
    BY <1>2, <1>4, <2>1, <2>2
<1>9. TotalExact'
  <2>1. Arrived' = Arrived
    BY <1>8 DEF Arrived
  <2>. QED
    BY <1>2, <1>8, <2>1 DEF StableInv, TotalExact
<1>10. Outcomes
  BY DEF StableInv
<1>11. Outcomes'
  <2>1. CASE PairRead(k, n, chain)
    <3>1. CqKeys' = CqKeys /\ UNCHANGED <<held, faulted, short>>
          /\ cq' = cq \cup {Completion(ReadOf(k, n), "ok")}
      BY <1>3, <2>1 DEF PairRead, faultVars
    <3>. QED
      BY <1>2, <1>10, <3>1, CompletionFields DEF Outcomes
  <2>2. CASE PairCut(k, n, chain)
    <3>1. CqKeys \subseteq CqKeys' /\ CqKeys' \subseteq CqKeys \cup {k}
      BY <1>3
    <3>2. /\ UNCHANGED <<held, short>> /\ faulted' = faulted \cup {k}
          /\ \A x \in cq' : x \in cq \/ ~x.ctx \/ (x.key = k /\ x.res = "err")
      BY <2>2, CompletionFields DEF PairCut
    <3>. QED
      BY <1>2, <1>4, <1>10, <3>1, <3>2 DEF Outcomes
  <2>3. CASE Written(k, n, chain)
    <3>1. CqKeys' = CqKeys \cup {k}
      <4>1. ~PairRead(k, n, chain)
        BY <2>3, FirstEntry DEF PairRead, Written
      <4>. QED
        BY <1>3, <4>1
    <3>2. CASE /\ cq' = cq \cup {Completion(WriteOf(k, n), "ok")}
               /\ held' = held \cup {k}
               /\ UNCHANGED <<faulted, short>>
      <4>1. \A x \in cq : x.ctx => x.key # k
        BY <1>4 DEF CqKeys
      <4>. QED
        BY <1>2, <1>10, <3>1, <3>2, <4>1, CompletionFields DEF Outcomes
    <3>3. CASE /\ cq' = cq \cup {Completion(WriteOf(k, n), "err")}
               /\ faulted' = faulted \cup {k}
               /\ UNCHANGED <<held, short>>
      BY <1>2, <1>4, <1>10, <3>1, <3>3, CompletionFields DEF Outcomes
    <3>4. CASE faulted' = faulted \cup {k} /\ held' = held /\ short'
      BY <1>2, <1>10, <3>1, <3>4 DEF Outcomes
    <3>. QED
      BY <2>3, <3>2, <3>3, <3>4 DEF Written, faultVars
  <2>. QED
    BY <1>1, <2>1, <2>2, <2>3
<1>. QED
  BY <1>6, <1>7, <1>9, <1>11 DEF StableInv

(* Every step keeps it. *)
LEMMA NextStable ==
    ASSUME StableSource
    PROVE  IInv /\ StableInv /\ [Next]_vars => StableInv'
<1>. SUFFICES ASSUME IInv, StableInv, [Next]_vars PROVE StableInv'
  OBVIOUS
<1>1. CASE OpenDest
  BY <1>1, OpenDestStable
<1>2. CASE PrepReadv
  BY <1>2, PrepReadvStable
<1>3. CASE PrepWritev
  BY <1>3, PrepWritevStable
<1>4. CASE SubmitRest
  BY <1>4, SubmitRestStable
<1>5. CASE StartWaiting \/ WaitFails \/ Finish
  BY <1>5, WaitingStable
<1>6. CASE \E c \in cq : Reap(c)
  BY <1>6, ReapStable
<1>7. CASE \E chain \in chains : Execute(chain)
  BY <1>7, ExecuteStable
<1>8. CASE UNCHANGED vars
  <2>. USE <1>8 DEF vars, submitVars, memoryVars, fileVars, countVars, faultVars
  <2>1. Outcomes' /\ TotalExact'
    BY OutcomesKept
  <2>2. RightSizes' /\ AllIssued'
    BY DEF StableInv, RightSizes, AllIssued, Issued, Key
  <2>. QED
    BY <2>1, <2>2 DEF StableInv
<1>. QED
  BY <1>1, <1>2, <1>3, <1>4, <1>5, <1>6, <1>7, <1>8 DEF Next, Terminated

(* The stronger invariant, as long as every stat returns the same size. *)
THEOREM StableInvariance ==
    ASSUME StableSource PROVE Spec => [](IInv /\ StableInv)
<1>1. Init => IInv /\ StableInv
  BY InitIInv, InitStable
<1>2. IInv /\ StableInv /\ [Next]_vars => (IInv /\ StableInv)'
  BY NextIInv, NextStable
<1>. QED
  BY <1>1, <1>2, PTL DEF Spec

-----------------------------------------------------------------------------
(* When all is submitted there are as many contexts as completions         *)
(* expected.                                                               *)
LEMMA AllSubmitted ==
    ASSUME StableSource, IInv, StableInv, pc \in {"wait", "done"}
    PROVE  /\ live \cup freed = Outputs \X SourceWindows
           /\ IsFiniteSet(live \cup freed)
           /\ Cardinality(live \cup freed) = Expected
<1>1. dest = NumOutputs + 1
  BY DEF IInv, IssueOrder
<1>2. \A k \in Outputs \X SourceWindows : Issued(k)
  BY <1>1, WindowTypes, Constants DEF Issued
<1>3. live \cup freed = Outputs \X SourceWindows
  BY <1>2 DEF StableInv, AllIssued
<1>. QED
  BY <1>3, WindowCount DEF StableInv, RightSizes

(* When the wait ends as it should, all contexts are freed. *)
LEMMA AllFreed ==
    ASSUME StableSource, IInv, StableInv, pc \in {"wait", "done"},
           completed >= Expected
    PROVE  live = {} /\ freed = Outputs \X SourceWindows
<1>1. Cardinality(live \cup freed) = Expected /\ IsFiniteSet(live \cup freed)
      /\ live \cup freed = Outputs \X SourceWindows
  BY AllSubmitted
<1>2. completed = Cardinality(freed) /\ completed \in 0 .. Expected
  BY DEF IInv, TypeOK
<1>3. Expected \in Nat
  BY ExpectedNat DEF IInv, TypeOK
<1>4. Cardinality(freed) = Cardinality(live \cup freed)
  BY <1>1, <1>2, <1>3
<1>5. freed = live \cup freed
  BY <1>1, <1>4, FS_Subset
<1>. QED
  BY <1>1, <1>5 DEF IInv, OnePlace

(* "Calculate exact number of windows": the completions waited for are the *)
(* windows submitted, if the source keeps its size.                        *)
THEOREM CountsWindows == ASSUME StableSource PROVE Spec => []ExactWindows
<1>1. IInv /\ StableInv => ExactWindows
  BY AllSubmitted DEF ExactWindows
<1>. QED
  BY <1>1, StableInvariance, PTL

(* A call that is not cut short frees every context, whatever failed. *)
THEOREM FreesContexts == ASSUME StableSource PROVE Spec => []ContextsFreed
<1>1. IInv /\ StableInv => ContextsFreed
  BY AllFreed DEF ContextsFreed, IInv, Returned
<1>. QED
  BY <1>1, StableInvariance, PTL

(* A failed or short operation costs its own window only. *)
THEOREM IsolatesWindows == ASSUME StableSource PROVE Spec => []WindowIsolation
<1>1. IInv /\ StableInv => WindowIsolation
  BY AllFreed DEF WindowIsolation, IInv, Returned, StableInv, Outcomes
<1>. QED
  BY <1>1, StableInvariance, PTL

(* A total of size times outputs means complete copies, short writes       *)
(* apart.                                                                  *)
THEOREM TotalIsHonest == ASSUME StableSource PROVE Spec => []TotalShowsErrors
<1>1. IInv /\ StableInv => TotalShowsErrors
  <2>. SUFFICES ASSUME IInv, StableInv, pc = "done", ~short,
                       total_data_out = SourceSize * NumOutputs
                PROVE  held = Outputs \X SourceWindows
    BY DEF TotalShowsErrors
  <2>. DEFINE All == Outputs \X (0 .. (SourceSize - 1))
  <2>1. Cardinality(Arrived) = NumOutputs * SourceSize
    <3>1. SourceSize * NumOutputs = NumOutputs * SourceSize
      BY StableSizes, Constants
    <3>. QED
      BY <3>1 DEF StableInv, TotalExact
  <2>2. IsFiniteSet(All) /\ Cardinality(All) = NumOutputs * SourceSize
    BY FiniteArrived
  <2>3. Arrived = All
    <3>1. Arrived \in SUBSET All
      BY DEF Arrived
    <3>. QED
      BY <2>1, <2>2, <3>1, FS_Subset
  <2>4. ASSUME NEW k \in Outputs \X SourceWindows PROVE k \in held
    <3>1. PICK b \in BytesIn(k) : TRUE
      BY CountBytes
    <3>2. b \in Arrived
      BY <2>3, <3>1 DEF BytesIn
    <3>. QED
      BY <3>1, <3>2 DEF BytesIn, Arrived
  <2>5. held \subseteq Outputs \X SourceWindows
    BY OfSource DEF StableInv, Outcomes, IInv, OnePlace
  <2>. QED
    BY <2>4, <2>5
<1>. QED
  BY <1>1, StableInvariance, PTL

-----------------------------------------------------------------------------
(* The mapping to the abstract broadcast. *)
HeldWindows == [d \in Outputs |-> {w \in SourceWindows : <<d, w>> \in held}]
FailedOutputs ==
    {d \in Outputs : gaveUp \/ \E w \in Windows : <<d, w>> \in faulted}
HasReturned == pc = "done"

(* Every step is a step of the promise, or none. *)
LEMMA MappedSteps ==
    ASSUME StableSource, IInv, StableInv, [Next]_vars
    PROVE  Promised!Next \/ UNCHANGED <<HeldWindows, FailedOutputs, HasReturned>>
<1>1. CASE OpenDest \/ PrepReadv \/ PrepWritev \/ SubmitRest \/ StartWaiting
           \/ (\E c \in cq : Reap(c)) \/ UNCHANGED vars
  <2>1. UNCHANGED <<held, faulted, gaveUp>>
    BY <1>1 DEF OpenDest, PrepReadv, PrepWritev, SubmitRest, StartWaiting, Reap,
          vars, fileVars, faultVars
  <2>2. HasReturned' = HasReturned
    BY <1>1 DEF OpenDest, PrepReadv, PrepWritev, SubmitRest, StartWaiting, Reap,
          vars, HasReturned
  <2>. QED
    BY <2>1, <2>2 DEF HeldWindows, FailedOutputs
<1>2. ASSUME pc = "wait", pc' = "done", UNCHANGED held,
             FailedOutputs \subseteq FailedOutputs',
             \A d \in Outputs \ FailedOutputs' : HeldWindows[d] = SourceWindows
      PROVE  Promised!Next
  <2>1. HasReturned = FALSE /\ HasReturned' = TRUE
    BY <1>2 DEF HasReturned
  <2>2. HeldWindows' = HeldWindows
    BY <1>2 DEF HeldWindows
  <2>3. FailedOutputs' = FailedOutputs \cup FailedOutputs'
        /\ FailedOutputs' \in SUBSET Outputs
    BY <1>2 DEF FailedOutputs
  <2>4. Promised!Return
    BY <1>2, <2>1, <2>2, <2>3
       DEF Promised!Return, HeldWindows, FailedOutputs, HasReturned
  <2>. QED
    BY <2>4 DEF Promised!Next
<1>3. CASE WaitFails
  <2>1. FailedOutputs' = Outputs /\ FailedOutputs \subseteq Outputs
    BY <1>3 DEF WaitFails, FailedOutputs
  <2>. QED
    BY <1>2, <1>3, <2>1 DEF WaitFails, fileVars
<1>4. CASE Finish
  <2>1. FailedOutputs' = FailedOutputs /\ UNCHANGED held
    BY <1>4 DEF Finish, FailedOutputs, faultVars, fileVars
  <2>2. freed = Outputs \X SourceWindows
    BY <1>4, AllFreed DEF Finish
  <2>3. ASSUME NEW d \in Outputs \ FailedOutputs, NEW w \in SourceWindows
        PROVE  <<d, w>> \in held
    <3>1. <<d, w>> \notin faulted
      BY <2>3 DEF FailedOutputs, SourceWindows
    <3>. QED
      BY <2>2, <3>1 DEF StableInv, Outcomes
  <2>4. \A d \in Outputs \ FailedOutputs' : HeldWindows[d] = SourceWindows
    BY <2>1, <2>3 DEF HeldWindows
  <2>. QED
    BY <1>2, <1>4, <2>1, <2>4 DEF Finish
<1>5. ASSUME NEW chain \in chains, Execute(chain)
      PROVE  Promised!Next \/ UNCHANGED <<HeldWindows, FailedOutputs, HasReturned>>
  <2>1. PICK k \in Keys, n \in 1 .. WindowSize :
            PairRead(k, n, chain) \/ PairCut(k, n, chain) \/ Written(k, n, chain)
    BY <1>5, ExecuteCases
  <2>2. k \in Outputs \X SourceWindows
    <3>1. k \in ChainKeys
      BY <2>1, ExecuteKeepsChains
    <3>. QED
      BY <3>1, OfSource DEF IInv, OnePlace
  <2>3. PICK d \in Outputs, w \in SourceWindows : k = <<d, w>>
    BY <2>2
  <2>4. /\ held' \in {held, held \cup {k}} /\ gaveUp' = gaveUp
        /\ faulted' \in {faulted, faulted \cup {k}}
        /\ HasReturned' = HasReturned
    BY <1>5, <2>1 DEF PairRead, PairCut, Written, faultVars, Execute, HasReturned
  <2>5. \E more \in SUBSET SourceWindows :
            HeldWindows' = [HeldWindows EXCEPT ![d] = @ \cup more]
    <3>1. CASE held' = held
      <4>1. HeldWindows' = [HeldWindows EXCEPT ![d] = @ \cup {}]
        BY <3>1 DEF HeldWindows
      <4>. QED
        BY <4>1
    <3>2. CASE held' = held \cup {k}
      <4>1. HeldWindows' = [HeldWindows EXCEPT ![d] = @ \cup {w}]
        BY <2>3, <3>2 DEF HeldWindows
      <4>. QED
        BY <4>1
    <3>. QED
      BY <2>4, <3>1, <3>2
  <2>6. FailedOutputs' \in SUBSET Outputs /\ FailedOutputs \subseteq FailedOutputs'
    BY <2>4 DEF FailedOutputs
  <2>7. CASE pc # "done"
    <3>1. HasReturned = FALSE
      BY <2>7 DEF HasReturned
    <3>2. FailedOutputs' = FailedOutputs \cup FailedOutputs'
      BY <2>6
    <3>3. Promised!Work(d)
      BY <2>4, <2>5, <2>6, <3>1, <3>2
         DEF Promised!Work, HeldWindows, FailedOutputs, HasReturned
    <3>. QED
      BY <3>3 DEF Promised!Next
  <2>8. CASE pc = "done"
    <3>1. HasReturned = TRUE
      BY <2>8 DEF HasReturned
    <3>2. gaveUp
      <4>1. chain[1].key \in live
        BY DEF IInv, OnePlace, ChainKeys
      <4>. QED
        BY <2>8, <4>1, AllFreed DEF IInv, Returned
    <3>3. FailedOutputs = Outputs /\ FailedOutputs' = Outputs
      BY <2>4, <3>2 DEF FailedOutputs
    <3>4. Promised!Late(d)
      BY <2>4, <2>5, <3>1, <3>3
         DEF Promised!Late, HeldWindows, FailedOutputs, HasReturned
    <3>. QED
      BY <3>4 DEF Promised!Next
  <2>. QED
    BY <2>7, <2>8
<1>. QED
  BY <1>1, <1>3, <1>4, <1>5 DEF Next, Terminated

(* Mode 2 implements the abstract broadcast, if the source keeps its size. *)
THEOREM ImplementsBroadcast ==
    ASSUME StableSource PROVE Spec => Promised!Safety
<1>1. Init => Promised!Init
  <2>. SUFFICES ASSUME Init PROVE Promised!Init
    OBVIOUS
  <2>1. HeldWindows = [d \in Outputs |-> {}] /\ FailedOutputs = {}
    BY DEF Init, HeldWindows, FailedOutputs
  <2>2. HasReturned = FALSE
    BY DEF Init, HasReturned
  <2>. QED
    BY <2>1, <2>2 DEF Promised!Init, HeldWindows, FailedOutputs, HasReturned
<1>2. IInv /\ StableInv /\ [Next]_vars => [Promised!Next]_(Promised!vars)
  BY MappedSteps DEF Promised!vars, HeldWindows, FailedOutputs, HasReturned
<1>. QED
  BY <1>1, <1>2, StableInvariance, PTL DEF Spec, Promised!Safety

-----------------------------------------------------------------------------
(* Nothing is left in the submission queue when the waiting begins. *)
Flushed == pc \notin {"read", "write"} => sq = <<>>

LEMMA FlushedKept == ASSUME Flushed, [Next]_vars PROVE Flushed'
<1>1. CASE OpenDest \/ StartWaiting
  <2>1. sq' = sq /\ pc = "open"
    BY <1>1 DEF OpenDest, StartWaiting
  <2>. QED
    BY <2>1 DEF Flushed
<1>2. CASE PrepReadv \/ PrepWritev
  BY <1>2 DEF PrepReadv, PrepWritev, Flushed
<1>3. CASE SubmitRest
  BY <1>3 DEF SubmitRest, Flushed
<1>4. CASE WaitFails \/ Finish \/ \E c \in cq : Reap(c)
  <2>1. sq' = sq /\ pc = "wait"
    BY <1>4 DEF WaitFails, Finish, Reap
  <2>. QED
    BY <2>1 DEF Flushed
<1>5. CASE Terminated \/ UNCHANGED vars \/ \E chain \in chains : Execute(chain)
  <2>1. sq' = sq /\ pc' = pc
    BY <1>5 DEF Terminated, vars, Execute
  <2>. QED
    BY <2>1 DEF Flushed
<1>. QED
  BY <1>1, <1>2, <1>3, <1>4, <1>5 DEF Next

(* The completion that the loop waits for comes: what was counted as to    *)
(* come and has not come is with the kernel or in the completion queue.    *)
THEOREM CompletionsCome == ASSUME StableSource PROVE Spec => []NeverWaitsInVain
<1>1. Init => Flushed
  BY DEF Init, Flushed
<1>2. Flushed /\ [Next]_vars => Flushed'
  BY FlushedKept
<1>3. IInv /\ Flushed /\ ExactWindows => NeverWaitsInVain
  <2>. SUFFICES ASSUME IInv, Flushed, ExactWindows, pc = "wait", completed < Expected,
                       chains = {}, cq = {}
                PROVE  FALSE
    BY DEF NeverWaitsInVain
  <2>1. sq = <<>>
    BY DEF Flushed
  <2>2. SqKeys = {} /\ ChainKeys = {} /\ CqKeys = {}
    BY <2>1 DEF SqKeys, ChainKeys, CqKeys
  <2>3. live \cup freed = freed
    BY <2>2 DEF IInv, OnePlace
  <2>4. Expected = completed
    BY <2>3 DEF IInv, ExactWindows
  <2>5. completed \in Nat
    BY ExpectedNat DEF IInv, TypeOK
  <2>. QED
    BY <2>4, <2>5
<1>. QED
  BY <1>1, <1>2, <1>3, Invariance, CountsWindows, PTL DEF Spec

(* The kernel completes the head of a chain for good. *)
LEMMA ExecuteCompletes ==
    ASSUME IInv, NEW chain \in chains, Execute(chain)
    PROVE  InKernel' \subseteq InKernel /\ InKernel' # InKernel
<1>1. PICK k \in Keys, n \in 1 .. WindowSize :
          PairRead(k, n, chain) \/ PairCut(k, n, chain) \/ Written(k, n, chain)
  BY ExecuteCases
<1>2. \A l, m : /\ DOMAIN PairOf(l, m) = 1 .. 2 /\ DOMAIN RestOf(l, m) = 1 .. 1
                /\ PairOf(l, m)[1].key = l /\ PairOf(l, m)[2].key = l
                /\ RestOf(l, m)[1].key = l
  BY EntryFields DEF PairOf, RestOf
<1>3. /\ chain = PairOf(k, n) \/ chain = RestOf(k, n)
      /\ chain[1].key = k /\ 1 \in DOMAIN chain
  BY <1>1, <1>2 DEF PairRead, PairCut, Written
<1>4. chain[1] \in InKernel
  BY <1>3 DEF InKernel
<1>5. ASSUME NEW c \in chains, c # chain, NEW i \in DOMAIN c
      PROVE  c[i] \in InKernel /\ c[i] # chain[1]
  <2>1. c[1].key # k
    BY <1>3, <1>5 DEF IInv, ChainShape
  <2>2. c[i].key = c[1].key
    <3>1. PICK l \in Keys, m \in 1 .. WindowSize : c = PairOf(l, m) \/ c = RestOf(l, m)
      BY DEF IInv, ChainShape
    <3>2. i = 1 \/ (i = 2 /\ c = PairOf(l, m))
      BY <1>2, <1>5, <3>1
    <3>. QED
      BY <1>2, <3>1, <3>2
  <2>. QED
    BY <1>3, <2>1, <2>2 DEF InKernel
<1>6. ASSUME PairRead(k, n, chain), NEW i \in DOMAIN RestOf(k, n)
      PROVE  RestOf(k, n)[i] \in InKernel /\ RestOf(k, n)[i] # chain[1]
  <2>1. chain = PairOf(k, n) /\ i = 1 /\ 2 \in DOMAIN chain
    BY <1>2, <1>6 DEF PairRead
  <2>2. RestOf(k, n)[i] = chain[2] /\ chain[1] = ReadOf(k, n) /\ chain[2] = WriteOf(k, n)
    BY <2>1, FirstEntry
  <2>3. ReadOf(k, n).op # WriteOf(k, n).op
    BY EntryFields
  <2>. QED
    BY <2>1, <2>2, <2>3 DEF InKernel
<1>7. ASSUME NEW c \in chains', NEW i \in DOMAIN c
      PROVE  c[i] \in InKernel /\ c[i] # chain[1]
  <2>1. CASE c \in chains /\ c # chain
    BY <1>5, <1>7, <2>1
  <2>2. CASE PairRead(k, n, chain) /\ c = RestOf(k, n)
    BY <1>6, <1>7, <2>2
  <2>. QED
    BY <1>1, <1>7, <2>1, <2>2 DEF PairRead, PairCut, Written
<1>8. ASSUME NEW x \in InKernel' PROVE x \in InKernel /\ x # chain[1]
  <2>1. PICK c \in chains' : \E i \in DOMAIN c : x = c[i]
    BY <1>8 DEF InKernel
  <2>. QED
    BY <1>7, <2>1
<1>. QED
  BY <1>4, <1>8

(* Every step brings the call nearer to its end, whatever sizes the source *)
(* shows: a window is never empty, and no entry is completed twice.        *)
THEOREM CallAdvances == Spec => Advances
<1>. DEFINE A == \/ dest' > dest
                 \/ dest' = dest /\ Turn' > Turn
                 \/ /\ UNCHANGED <<dest, Turn>>
                    /\ \/ InKernel' \subseteq InKernel /\ InKernel' # InKernel
                       \/ InKernel' = InKernel /\ cq' \subseteq cq /\ cq' # cq
<1>1. ASSUME IInv, Next PROVE A \/ UNCHANGED vars
  <2>1. dest \in Nat /\ total_processed \in Nat
    BY <1>1, Constants DEF IInv, TypeOK
  <2>2. CASE OpenDest
    BY <2>1, <2>2 DEF OpenDest, Turn
  <2>3. CASE PrepReadv
    BY <2>1, <2>3 DEF PrepReadv, submitVars, Turn
  <2>4. CASE PrepWritev
    <3>1. Bytes \in 1 .. WindowSize
      BY <1>1, <2>4, AtWindow DEF PrepWritev, IInv, IssueOrder
    <3>. QED
      BY <2>1, <2>4, <3>1, Constants DEF PrepWritev, Turn
  <2>5. CASE SubmitRest
    BY <2>1, <2>5 DEF SubmitRest
  <2>6. CASE StartWaiting \/ WaitFails \/ Finish
    BY <2>1, <2>6 DEF StartWaiting, WaitFails, Finish, submitVars, Turn
  <2>7. ASSUME NEW c \in cq, Reap(c) PROVE A
    <3>1. /\ UNCHANGED <<pc, dest, total_processed, chains>>
          /\ cq' = cq \ {c}
      BY <2>7 DEF Reap, submitVars
    <3>. QED
      BY <3>1 DEF Turn, InKernel
  <2>8. ASSUME NEW chain \in chains, Execute(chain) PROVE A
    <3>1. UNCHANGED <<pc, dest, total_processed>>
      BY <2>8 DEF Execute, submitVars
    <3>. QED
      BY <1>1, <2>8, <3>1, ExecuteCompletes DEF Turn
  <2>9. CASE Terminated
    BY <2>9 DEF Terminated
  <2>. QED
    BY <1>1, <2>2, <2>3, <2>4, <2>5, <2>6, <2>7, <2>8, <2>9 DEF Next
<1>2. IInv /\ [Next]_vars => [A]_vars
  BY <1>1
<1>. QED
  BY <1>2, Invariance, PTL DEF Spec, Advances
=============================================================================
