---------------------------- MODULE SharedLemmas -----------------------------
(***************************************************************************)
(* Lemmas the proofs share: least numbers and induction; integer division, *)
(* which finds the window, chunk or block an offset is in; how a file of   *)
(* any size is cut into chunks; and how a submission is cut into chains,   *)
(* for the two shapes the engines submit, pairs of a linked and an         *)
(* unlinked entry (modes 2 and 3) and a single chain (mode 4).             *)
(*                                                                         *)
(* Induction is stated for sets of numbers and proved from the theorem on  *)
(* minimal elements, whose parameters are sets, too.                       *)
(***************************************************************************)
EXTENDS IoUring, Integers, SequenceTheorems, FiniteSetTheorems, WellFoundedInduction, TLAPS

(* A set of numbers that is not empty has a least element. *)
LEMMA LeastNumber ==
    ASSUME NEW T \in SUBSET Nat, T # {}
    PROVE  \E m \in T : \A n \in T : m <= n
<1>1. IsWellFoundedOn(OpToRel(<, Nat), Nat)
  BY NatLessThanWellFounded
<1>2. PICK m \in T : \A n \in T : ~(<<n, m>> \in OpToRel(<, Nat))
  BY <1>1, WFMin
<1>3. \A n \in T : n < m => <<n, m>> \in OpToRel(<, Nat)
  BY DEF OpToRel
<1>4. \A n \in T : ~(n < m)
  BY <1>2, <1>3, Zenon
<1>5. \A n \in T : m <= n
  BY <1>4
<1>. QED
  BY <1>5

(* Induction, for a set of numbers. *)
LEMMA Induction ==
    ASSUME NEW S, 0 \in S, \A n \in Nat : n \in S => n + 1 \in S
    PROVE  Nat \subseteq S
<1>. DEFINE T == Nat \ S
<1>. SUFFICES ASSUME T # {} PROVE FALSE
  OBVIOUS
<1>1. T \in SUBSET Nat
  OBVIOUS
<1>2. PICK m \in T : \A n \in T : m <= n
  <2>. HIDE DEF T
  <2>. QED
    BY <1>1, LeastNumber
<1>3. m # 0 /\ m - 1 \in Nat /\ m - 1 \notin T
  BY <1>2
<1>. QED
  BY <1>3

(* Integer division. *)
LEMMA DivMod ==
    ASSUME NEW c \in Nat \ {0}, NEW x \in Nat
    PROVE  /\ x \div c \in Nat
           /\ x % c \in 0 .. (c - 1)
           /\ x = c * (x \div c) + (x % c)
  BY Z3

(* Products compare like their second factors. *)
LEMMA MulOrder ==
    ASSUME NEW c \in Nat \ {0}, NEW a \in Int, NEW b \in Int
    PROVE  /\ c * a \in Int /\ a * c = c * a
           /\ c * (a + 1) = c * a + c
           /\ a < b <=> c * a < c * b
  BY Z3

(* Dividing by the size of a window finds the window a place is in. *)
LEMMA DivBounds ==
    ASSUME NEW c \in Nat \ {0}, NEW x \in Nat, NEW q \in Nat
    PROVE  x \div c = q <=> c * q <= x /\ x < c * q + c
<1>. DEFINE d == x \div c
<1>1. d \in Nat /\ c * d <= x /\ x < c * d + c
  <2>1. /\ d \in Nat
        /\ x % c \in 0 .. (c - 1)
        /\ x = c * d + (x % c)
    BY DivMod
  <2>2. c * d \in Int
    BY <2>1, MulOrder
  <2>. HIDE DEF d
  <2>. QED
    BY <2>1, <2>2
<1>. HIDE DEF d
<1>2. /\ c * d \in Int /\ c * q \in Int
      /\ c * (d + 1) = c * d + c
      /\ c * (q + 1) = c * q + c
      /\ d < q + 1 <=> c * d < c * (q + 1)
      /\ q < d + 1 <=> c * q < c * (d + 1)
  BY <1>1, MulOrder
<1>3. ASSUME c * q <= x, x < c * q + c
      PROVE  d = q
  <2>1. d < q + 1 /\ q < d + 1
    BY <1>1, <1>2, <1>3
  <2>. QED
    BY <2>1, <1>1
<1>. QED
  BY <1>1, <1>3 DEF d

(* A product is a multiple of its factor. *)
LEMMA MulMod ==
    ASSUME NEW c \in Nat \ {0}, NEW q \in Nat
    PROVE  c * q \in Nat /\ (c * q) % c = 0
<1>. DEFINE x == c * q
            e == x \div c
            m == x % c
<1>1. x \in Nat
  <2>1. 0 <= c * q /\ c * q \in Int
    BY Z3
  <2>. QED
    BY <2>1
<1>2. e = q
  <2>1. c * q = x
    OBVIOUS
  <2>. HIDE DEF x
  <2>2. c * q <= x /\ x < c * q + c
    BY <1>1, <2>1
  <2>. QED
    BY <1>1, <2>2, DivBounds
<1>3. x = c * e + m /\ m \in Nat
  <2>. HIDE DEF x
  <2>. QED
    BY <1>1, DivMod
<1>. HIDE DEF e, m
<1>4. c * e = x
  BY <1>2
<1>. HIDE DEF x
<1>5. m = 0
  BY <1>1, <1>3, <1>4
<1>. QED
  BY <1>1, <1>5 DEF x, m

(* Division is monotonic. *)
LEMMA DivOrder ==
    ASSUME NEW c \in Nat \ {0}, NEW x \in Nat, NEW y \in Nat, x <= y
    PROVE  x \div c <= y \div c
<1>. DEFINE d == x \div c
            e == y \div c
<1>1. /\ d \in Nat /\ c * d <= x
      /\ e \in Nat /\ y < c * e + c
  BY DivBounds, DivMod
<1>2. /\ c * d \in Int /\ c * (e + 1) = c * e + c /\ c * e \in Int
      /\ d < e + 1 <=> c * d < c * (e + 1)
  BY <1>1, MulOrder
<1>. HIDE DEF d, e
<1>3. d < e + 1
  BY <1>1, <1>2
<1>. QED
  BY <1>1, <1>3 DEF d, e

-----------------------------------------------------------------------------
(* A file is cut into chunks of c offsets, the last one shorter: where the *)
(* chunks start, which one an offset is in and how long each is.           *)
StartsIn(c, size) == {o \in 0 .. (size - 1) : o % c = 0}
StartIn(c, o) == c * (o \div c)
ChunkIn(c, size, s) == {o \in 0 .. (size - 1) : StartIn(c, o) = s}
LengthIn(c, size, s) == IF size - s < c THEN size - s ELSE c

(* How many numbers there are from a on, counted in n. *)
LEMMA SpanLength ==
    ASSUME NEW a \in Nat, NEW n \in Int, n >= -1
    PROVE  /\ IsFiniteSet(a .. (a + n - 1))
           /\ Cardinality(a .. (a + n - 1)) = IF n > 0 THEN n ELSE 0
<1>. DEFINE last == a + n - 1
<1>1. last \in Int /\ a \in Int
  OBVIOUS
<1>2. (IF a > last THEN 0 ELSE last - a + 1) = IF n > 0 THEN n ELSE 0
  OBVIOUS
<1>. HIDE DEF last
<1>3. /\ IsFiniteSet(a .. last)
      /\ Cardinality(a .. last) = IF a > last THEN 0 ELSE last - a + 1
  BY <1>1, FS_Interval
<1>. QED
  BY <1>2, <1>3 DEF last

(* A chunk lies in the file and is not empty. *)
LEMMA ChunkInFile ==
    ASSUME NEW c \in Nat \ {0}, NEW size \in Nat, NEW s \in StartsIn(c, size)
    PROVE  /\ s \in Nat /\ s < size
           /\ LengthIn(c, size, s) \in 1 .. c
           /\ s + LengthIn(c, size, s) <= size
           /\ LengthIn(c, size, s) # c => s + LengthIn(c, size, s) = size
           /\ s = c * (s \div c) /\ s \div c \in Nat
<1>1. s \in Nat /\ s < size /\ s % c = 0
  BY DEF StartsIn
<1>2. /\ LengthIn(c, size, s) \in 1 .. c
      /\ s + LengthIn(c, size, s) <= size
      /\ LengthIn(c, size, s) # c => s + LengthIn(c, size, s) = size
  BY <1>1 DEF LengthIn
<1>3. s = c * (s \div c) /\ s \div c \in Nat
  <2>. DEFINE q == s \div c
  <2>1. q \in Nat /\ s = c * q + (s % c)
    BY <1>1, DivMod
  <2>2. c * q \in Int
    BY <2>1, MulOrder
  <2>. HIDE DEF q
  <2>3. s = c * q
    BY <1>1, <2>1, <2>2
  <2>. QED
    BY <2>1, <2>3 DEF q
<1>. QED
  BY <1>1, <1>2, <1>3

(* Every offset is in the chunk of its start. *)
LEMMA StartInFile ==
    ASSUME NEW c \in Nat \ {0}, NEW size \in Nat, NEW o \in 0 .. (size - 1)
    PROVE  StartIn(c, o) \in StartsIn(c, size) /\ StartIn(c, o) <= o
<1>. DEFINE q == o \div c
            s == c * q
<1>1. o \in Nat /\ o < size
  OBVIOUS
<1>2. q \in Nat
  BY <1>1, DivMod
<1>3. s <= o /\ o < s + c
  BY <1>1, <1>2, DivBounds
<1>. HIDE DEF q
<1>4. s \in Nat /\ s % c = 0
  BY <1>2, MulMod
<1>5. StartIn(c, o) = s
  BY DEF StartIn, q
<1>. HIDE DEF s
<1>6. s \in 0 .. (size - 1) /\ s <= o
  BY <1>1, <1>3, <1>4
<1>. QED
  BY <1>4, <1>5, <1>6 DEF StartsIn

(* The offsets of a chunk: those between its start and its end. *)
LEMMA InChunkOf ==
    ASSUME NEW c \in Nat \ {0}, NEW size \in Nat,
           NEW s \in StartsIn(c, size), NEW o \in 0 .. (size - 1)
    PROVE  /\ o \in s .. (s + LengthIn(c, size, s) - 1) <=> StartIn(c, o) = s
           /\ o < s <=> StartIn(c, o) < s
           /\ o < s + LengthIn(c, size, s) <=> StartIn(c, o) <= s
<1>. DEFINE q == o \div c
            t == s \div c
            n == LengthIn(c, size, s)
<1>1. /\ o \in Nat /\ o < size /\ q \in Nat
      /\ s \in Nat /\ t \in Nat /\ s = c * t
  <2>1. o \in Nat /\ o < size
    OBVIOUS
  <2>2. q \in Nat
    BY <2>1, DivMod
  <2>3. s \in Nat /\ t \in Nat /\ s = c * t
    BY ChunkInFile
  <2>. QED
    BY <2>1, <2>2, <2>3
<1>2. c * q <= o /\ o < c * q + c
  BY <1>1, DivBounds
<1>3. n = IF size - s < c THEN size - s ELSE c
  BY DEF LengthIn
<1>4. StartIn(c, o) = c * q
  BY DEF StartIn
<1>. HIDE DEF q, t, n
<1>5. /\ c * q \in Int /\ c * t \in Int
      /\ c * (q + 1) = c * q + c /\ c * (t + 1) = c * t + c
      /\ q < t <=> c * q < c * t
      /\ t < q <=> c * t < c * q
      /\ q < t + 1 <=> c * q < c * (t + 1)
      /\ t < q + 1 <=> c * t < c * (q + 1)
  BY <1>1, MulOrder
<1>6. o < s <=> StartIn(c, o) < s
  BY <1>1, <1>2, <1>4, <1>5
<1>7. o < s + n <=> StartIn(c, o) <= s
  BY <1>1, <1>2, <1>3, <1>4, <1>5
<1>8. o \in s .. (s + n - 1) <=> ~(o < s) /\ o < s + n
  BY <1>1, <1>3
<1>9. StartIn(c, o) = s <=> ~(StartIn(c, o) < s) /\ StartIn(c, o) <= s
  BY <1>1, <1>4, <1>5
<1>. QED
  BY <1>6, <1>7, <1>8, <1>9 DEF n

(* There are as many as the chunk is long. *)
LEMMA ChunkOffsets ==
    ASSUME NEW c \in Nat \ {0}, NEW size \in Nat, NEW s \in StartsIn(c, size)
    PROVE  /\ ChunkIn(c, size, s) = s .. (s + LengthIn(c, size, s) - 1)
           /\ IsFiniteSet(ChunkIn(c, size, s))
           /\ Cardinality(ChunkIn(c, size, s)) = LengthIn(c, size, s)
<1>. DEFINE n == LengthIn(c, size, s)
            chunk == ChunkIn(c, size, s)
<1>1. s \in Nat /\ n \in Nat /\ n > 0 /\ s + n <= size /\ n >= -1 /\ n \in Int
  BY ChunkInFile
<1>2. \A o \in 0 .. (size - 1) : o \in s .. (s + n - 1) <=> StartIn(c, o) = s
  BY InChunkOf
<1>. HIDE DEF n
<1>3. \A o \in s .. (s + n - 1) : o \in 0 .. (size - 1)
  BY <1>1
<1>4. chunk = s .. (s + n - 1)
  BY <1>2, <1>3 DEF ChunkIn
<1>5. IsFiniteSet(s .. (s + n - 1)) /\ Cardinality(s .. (s + n - 1)) = n
  <2>1. /\ IsFiniteSet(s .. (s + n - 1))
        /\ Cardinality(s .. (s + n - 1)) = IF n > 0 THEN n ELSE 0
    BY <1>1, SpanLength, Zenon
  <2>. QED
    BY <1>1, <2>1
<1>. QED
  BY <1>4, <1>5 DEF n

(* Chunks follow each other: none starts within another, and where one     *)
(* ends the next starts, if there is one.                                  *)
LEMMA NextChunk ==
    ASSUME NEW c \in Nat \ {0}, NEW size \in Nat, NEW s \in StartsIn(c, size)
    PROVE  /\ \A t \in StartsIn(c, size) : s < t => s + LengthIn(c, size, s) <= t
           /\ s + LengthIn(c, size, s) < size =>
                  s + LengthIn(c, size, s) \in StartsIn(c, size)
<1>1. ASSUME NEW t \in StartsIn(c, size), s < t
      PROVE  s + LengthIn(c, size, s) <= t
  <2>1. t \in 0 .. (size - 1) /\ t \in Nat /\ s \in Nat
        /\ LengthIn(c, size, s) \in Nat /\ StartIn(c, t) = t
    <3>1. t \in 0 .. (size - 1)
      BY DEF StartsIn
    <3>2. t \in Nat /\ t = StartIn(c, t)
      BY ChunkInFile DEF StartIn
    <3>3. s \in Nat /\ LengthIn(c, size, s) \in Nat
      BY ChunkInFile
    <3>. QED
      BY <3>1, <3>2, <3>3
  <2>2. ~(t < s + LengthIn(c, size, s))
    BY <1>1, <2>1, InChunkOf
  <2>. QED
    BY <2>1, <2>2
<1>2. ASSUME s + LengthIn(c, size, s) < size
      PROVE  s + LengthIn(c, size, s) \in StartsIn(c, size)
  <2>. DEFINE q == s \div c
  <2>1. s \in Nat /\ q \in Nat /\ s = c * q /\ LengthIn(c, size, s) = c
        /\ s + c \in Nat /\ s + c < size
    BY <1>2, ChunkInFile
  <2>. HIDE DEF q
  <2>2. c * (q + 1) = s + c /\ q + 1 \in Nat
    BY <2>1, MulOrder
  <2>3. (c * (q + 1)) % c = 0
    BY <2>2, MulMod
  <2>4. (s + c) % c = 0
    BY <2>2, <2>3
  <2>. QED
    BY <2>1, <2>4 DEF StartsIn
<1>. QED
  BY <1>1, <1>2

(* A size rounded up to whole chunks. *)
LEMMA RoundedUp ==
    ASSUME NEW c \in Nat \ {0}, NEW size \in Nat
    PROVE  LET up == ((size + c - 1) \div c) * c
           IN  /\ up \in Nat /\ size <= up /\ up < size + c
               /\ up % c = 0
               /\ \A o \in Nat : o % c = 0 /\ o < up => o \in StartsIn(c, size)
<1>. DEFINE q == (size + c - 1) \div c
            up == q * c
<1>1. size + c - 1 \in Nat
  OBVIOUS
<1>2. q \in Nat /\ c * q <= size + c - 1 /\ size + c - 1 < c * q + c
  BY <1>1, DivBounds, DivMod
<1>. HIDE DEF q
<1>3. c * q \in Nat /\ q * c = c * q /\ (c * q) % c = 0
  BY <1>2, MulOrder, MulMod
<1>4. up = c * q
  BY <1>3
<1>. HIDE DEF up
<1>5. up \in Nat /\ size <= up /\ up < size + c /\ up % c = 0
  BY <1>2, <1>3, <1>4
<1>6. ASSUME NEW o \in Nat, o % c = 0, o < up
      PROVE  o \in StartsIn(c, size)
  <2>. DEFINE t == o \div c
  <2>1. t \in Nat /\ o = c * t + (o % c)
    BY DivMod
  <2>2. c * t \in Int
    BY <2>1, MulOrder
  <2>. HIDE DEF t
  <2>3. o = c * t
    BY <1>6, <2>1, <2>2
  <2>4. t < q
    BY <1>2, <1>4, <1>6, <2>1, <2>3, MulOrder
  <2>5. t + 1 \in Int /\ c * (t + 1) = c * t + c /\ ~(q < t + 1)
    BY <1>2, <2>1, <2>4, MulOrder
  <2>6. c * (t + 1) <= c * q
    <3>1. q < t + 1 <=> c * q < c * (t + 1)
      BY <1>2, <2>5, MulOrder
    <3>2. c * (t + 1) \in Int /\ c * q \in Int
      BY <1>3, <2>2, <2>5
    <3>. QED
      BY <2>5, <3>1, <3>2
  <2>7. o + c <= up
    BY <1>4, <2>3, <2>5, <2>6
  <2>8. o < size
    BY <1>5, <2>7
  <2>. QED
    BY <1>6, <2>8 DEF StartsIn
<1>. QED
  BY <1>5, <1>6 DEF up, q

-----------------------------------------------------------------------------
(* The queue holds m pairs, each a linked entry and one without a link. *)
Pairs(batch, m) ==
    /\ Len(batch) = 2 * m
    /\ \A n \in 1 .. m : batch[2 * n - 1].link /\ ~batch[2 * n].link

(* A position in a queue of pairs is the first or the second of one. *)
LEMMA PairPosition ==
    ASSUME NEW m \in Nat, NEW i \in 1 .. (2 * m)
    PROVE  \E n \in 1 .. m : i = 2 * n - 1 \/ i = 2 * n
<1>1. CASE i % 2 = 0
  <2>1. i = 2 * (i \div 2) /\ i \div 2 \in 1 .. m
    BY <1>1
  <2>. QED
    BY <2>1
<1>2. CASE i % 2 = 1
  <2>1. i = 2 * ((i + 1) \div 2) - 1 /\ (i + 1) \div 2 \in 1 .. m
    BY <1>2
  <2>. QED
    BY <2>1
<1>. QED
  BY <1>1, <1>2

(* A chain that starts with the first entry of a pair ends with the        *)
(* second.                                                                 *)
LEMMA PairEnd ==
    ASSUME NEW batch, NEW m \in Nat, Pairs(batch, m), NEW n \in 1 .. m
    PROVE  ChainEnd(batch, 2 * n - 1) = 2 * n
<1>. DEFINE i == 2 * n - 1
            End(j) == /\ \A k \in i .. (j - 1) : batch[k].link
                      /\ batch[j].link => j = Len(batch)
<1>1. 2 * n \in i .. Len(batch) /\ End(2 * n)
  <2>1. \A k \in i .. (2 * n - 1) : k = i
    OBVIOUS
  <2>. QED
    BY <2>1 DEF Pairs
<1>2. ASSUME NEW j \in i .. Len(batch), End(j)
      PROVE  j = 2 * n
  <2>1. j # i
    <3>1. batch[i].link /\ i # Len(batch)
      BY DEF Pairs
    <3>. QED
      BY <1>2, <3>1
  <2>2. ~(j > 2 * n)
    <3>1. SUFFICES ASSUME j > 2 * n PROVE FALSE
      OBVIOUS
    <3>2. 2 * n \in i .. (j - 1)
      BY <3>1
    <3>. QED
      BY <1>2, <3>2 DEF Pairs
  <2>. QED
    BY <2>1, <2>2 DEF Pairs
<1>. QED
  BY <1>1, <1>2 DEF ChainEnd

(* A queue of pairs is cut into the pairs. *)
LEMMA PairChains ==
    ASSUME NEW S, NEW batch \in Seq(S), NEW m \in Nat, Pairs(batch, m)
    PROVE  Chains(batch) = {<<batch[2 * n - 1], batch[2 * n]>> : n \in 1 .. m}
<1>. DEFINE heads == {i \in DOMAIN batch : i = 1 \/ ~batch[i - 1].link}
<1>1. DOMAIN batch = 1 .. (2 * m)
  BY LenProperties DEF Pairs
<1>2. heads = {2 * n - 1 : n \in 1 .. m}
  <2>1. ASSUME NEW i \in heads PROVE i \in {2 * n - 1 : n \in 1 .. m}
    <3>1. PICK n \in 1 .. m : i = 2 * n - 1 \/ i = 2 * n
      BY <1>1, PairPosition
    <3>2. i # 2 * n
      BY <3>1 DEF Pairs
    <3>. QED
      BY <3>1, <3>2
  <2>2. ASSUME NEW n \in 1 .. m PROVE 2 * n - 1 \in heads
    <3>1. 2 * n - 1 \in DOMAIN batch
      BY <1>1
    <3>2. CASE n = 1
      BY <3>1, <3>2
    <3>3. CASE n # 1
      <4>1. n - 1 \in 1 .. m /\ 2 * n - 1 - 1 = 2 * (n - 1)
        BY <3>3
      <4>. QED
        BY <3>1, <4>1 DEF Pairs
    <3>. QED
      BY <3>2, <3>3
  <2>. QED
    BY <2>1, <2>2
<1>3. ASSUME NEW n \in 1 .. m
      PROVE  SubSeq(batch, 2 * n - 1, ChainEnd(batch, 2 * n - 1))
                 = <<batch[2 * n - 1], batch[2 * n]>>
  <2>. DEFINE c == SubSeq(batch, 2 * n - 1, 2 * n)
              p == <<batch[2 * n - 1], batch[2 * n]>>
  <2>1. \A i \in (2 * n - 1) .. (2 * n) : batch[i] \in S
    BY <1>1, ElementOfSeq DEF Pairs
  <2>2. /\ c \in Seq(S) /\ Len(c) = 2
        /\ c[1] = batch[2 * n - 1] /\ c[2] = batch[2 * n]
    <3>1. /\ c \in Seq(S)
          /\ Len(c) = IF 2 * n - 1 <= 2 * n THEN 2 * n - (2 * n - 1) + 1 ELSE 0
          /\ \A i \in 1 .. (2 * n - (2 * n - 1) + 1) : c[i] = batch[2 * n - 1 + i - 1]
      BY <2>1, SubSeqProperties
    <3>. HIDE DEF c
    <3>. QED
      BY <3>1
  <2>3. p \in Seq(S) /\ Len(p) = 2
    BY <2>1
  <2>. HIDE DEF c
  <2>4. \A i \in 1 .. 2 : c[i] = p[i]
    BY <2>2
  <2>5. c = p
    BY <2>2, <2>3, <2>4, SeqEqual
  <2>. QED
    BY <2>5, PairEnd DEF c
<1>4. Chains(batch) = {SubSeq(batch, i, ChainEnd(batch, i)) : i \in heads}
  BY DEF Chains
<1>. HIDE DEF heads
<1>5. Chains(batch)
          = {SubSeq(batch, 2 * n - 1, ChainEnd(batch, 2 * n - 1)) : n \in 1 .. m}
  BY <1>2, <1>4, Zenon
<1>. QED
  BY <1>3, <1>5, Zenon

(* A queue all of whose entries but the last are linked is one chain. *)
LEMMA OneChain ==
    ASSUME NEW S, NEW batch \in Seq(S), batch # <<>>,
           \A i \in 1 .. (Len(batch) - 1) : batch[i].link,
           ~batch[Len(batch)].link
    PROVE  Chains(batch) = {batch}
<1>1. Len(batch) \in Nat \ {0} /\ DOMAIN batch = 1 .. Len(batch)
  BY LenProperties, EmptySeq
<1>. DEFINE n == Len(batch)
            heads == {i \in DOMAIN batch : i = 1 \/ ~batch[i - 1].link}
<1>2. heads = {1}
  BY <1>1
<1>3. ChainEnd(batch, 1) = n
  <2>. DEFINE End(j) == /\ \A k \in 1 .. (j - 1) : batch[k].link
                        /\ batch[j].link => j = n
  <2>1. n \in 1 .. n /\ End(n)
    BY <1>1
  <2>2. ASSUME NEW j \in 1 .. n, j # n PROVE ~End(j)
    <3>. HIDE DEF End, heads
    <3>1. j \in 1 .. (Len(batch) - 1)
      <4>1. n \in Nat
        BY <1>1
      <4>. HIDE DEF n
      <4>2. j \in 1 .. (n - 1)
        BY <2>2, <4>1
      <4>. QED
        BY <4>2 DEF n
    <3>2. batch[j].link
      BY <3>1
    <3>. QED
      BY <2>2, <3>2 DEF End
  <2>. QED
    BY <2>1, <2>2 DEF ChainEnd
<1>4. SubSeq(batch, 1, n) = batch
  BY SubSeqFull
<1>5. Chains(batch) = {SubSeq(batch, i, ChainEnd(batch, i)) : i \in heads}
  BY DEF Chains
<1>. HIDE DEF heads
<1>. QED
  BY <1>2, <1>3, <1>4, <1>5
=============================================================================
