------------------------ MODULE ReadvBroadcastProofs ------------------------
(***************************************************************************)
(* Theorems about mode 1, for every number of outputs, file size, chunk    *)
(* size, window, number of threads and bound on faults: the types, the     *)
(* separation of senders and receivers, error isolation along the tree,    *)
(* that mode 1 implements the abstract broadcast, that its total shows     *)
(* errors, and that every step brings the call nearer to its end.          *)
(*                                                                         *)
(* The three invariants among these are not inductive.  IInv adds where    *)
(* each receiver stands relative to the round (Schedule), and what a copy  *)
(* that has met no fault has done so far (Copying, Ended).  For the total  *)
(* Balanced and Prefixes add what it is the sum of, and that a file is     *)
(* written from its start.                                                 *)
(***************************************************************************)
EXTENDS ReadvBroadcast, SharedLemmas

(* The receivers below the stride are done, those from twice the stride    *)
(* have not begun, and those between wait exactly while their iteration is *)
(* pending.                                                                *)
Schedule ==
    \A r \in Receivers :
        /\ r < Stride(round) => phase[r] = "end"
        /\ r >= 2 * Stride(round) => phase[r] = "idle"
        /\ r >= Stride(round) /\ r < 2 * Stride(round) =>
               (phase[r] = "idle" <=> r - Stride(round) \in pending)

(* A receiver that has not begun has an empty file. *)
Fresh ==
    \A r \in Receivers :
        phase[r] = "idle" => total_processed[r] = 0 /\ size[r] = 0

(* A receiver that has ended without a fault above it is a copy. *)
Ended ==
    \A r \in Receivers : phase[r] = "end" /\ r \notin tainted => Complete(r)

(* The offsets of the window a copy is at. *)
InWindow(r, o) ==
    o >= total_processed[r] /\ o < total_processed[r] + Window(r)

(* A copy without faults has written what it has processed, and its        *)
(* buffers hold the window.                                                *)
CleanCopy(r) ==
    /\ Sender(r) \notin tainted
    /\ file_sz[r] = FileSize
    /\ size[r] = total_processed[r]
    /\ \A o \in Offsets : o < total_processed[r] => content[r][o] = o
    /\ phase[r] = "write" =>
           \A o \in Offsets : InWindow(r, o) => buf[r][o] = o

Copying ==
    \A r \in Busy :
        /\ total_processed[r] < file_sz[r]
        /\ file_sz[r] <= FileSize
        /\ r \notin tainted => CleanCopy(r)

IInv ==
    /\ TypeOK
    /\ Stride(round) \in Nat \ {0}
    /\ Schedule
    /\ Complete(0)
    /\ Fresh
    /\ Ended
    /\ Copying

-----------------------------------------------------------------------------
(* Rounding down passes no multiple of the divisor. *)
LEMMA DivLower ==
    ASSUME NEW c \in Nat \ {0}, NEW y \in Nat, NEW q \in Nat, y >= c * (q + 1)
    PROVE  q < y \div c
<1> DEFINE d == y \div c
<1>1. d \in Nat /\ y = c * d + (y % c) /\ y % c \in 0 .. (c - 1)
  BY DivMod
<1>2. c * d + c > c * (q + 1)
  BY <1>1
<1>3. d + 1 > q + 1
  BY <1>1, <1>2
<1> QED BY <1>1, <1>3

(* The iovecs of a window cover it: the block count is rounded up and the  *)
(* last block is cut to what remains.                                      *)
LEMMA CoveredAll ==
    ASSUME NEW w \in Nat
    PROVE  Covered(w) = 0 .. (w - 1)
<1>1. SUFFICES ASSUME NEW x \in 0 .. (w - 1)
               PROVE  /\ x \div ChunkSize < Blocks(w)
                      /\ x % ChunkSize < IovLen(w, x \div ChunkSize)
  BY DEF Covered
<1>2. ChunkSize \in Nat \ {0} /\ x \in Nat /\ x < w
  BY ReadvAssumption
<1>3. PICK q \in Nat, m \in 0 .. (ChunkSize - 1) :
         /\ q = x \div ChunkSize
         /\ m = x % ChunkSize
         /\ x = ChunkSize * q + m
  BY <1>2, DivMod
<1>4. w + ChunkSize - 1 \in Nat /\ w + ChunkSize - 1 >= ChunkSize * (q + 1)
  BY <1>2, <1>3
<1>5. q < Blocks(w)
  BY <1>2, <1>3, <1>4, DivLower DEF Blocks
<1>6. m < w - q * ChunkSize /\ m < ChunkSize
  BY <1>2, <1>3
<1>7. m < IovLen(w, q)
  BY <1>6 DEF IovLen
<1> QED BY <1>3, <1>5, <1>7

(* Powers of two up to any exponent, as a function that doubles.           *)
Doubling(n) ==
    {f \in [0 .. n -> Nat] : f[0] = 1 /\ \A i \in 1 .. n : f[i] = 2 * f[i - 1]}

LEMMA DoublingExists == \A n \in Nat : Doubling(n) # {}
<1>. DEFINE S == {n \in Nat : Doubling(n) # {}}
<1>1. 0 \in S
  <2>1. [i \in 0 .. 0 |-> 1] \in Doubling(0)
    BY DEF Doubling
  <2>. QED
    BY <2>1
<1>2. ASSUME NEW n \in Nat, n \in S PROVE n + 1 \in S
  <2>1. PICK f \in [0 .. n -> Nat] : f[0] = 1 /\ \A i \in 1 .. n : f[i] = 2 * f[i - 1]
    BY <1>2 DEF Doubling
  <2>. DEFINE g == [i \in 0 .. (n + 1) |-> IF i = n + 1 THEN 2 * f[n] ELSE f[i]]
  <2>2. f[n] \in Nat /\ \A i \in 0 .. n : f[i] \in Nat
    BY <2>1
  <2>3. g \in [0 .. (n + 1) -> Nat]
    BY <2>2
  <2>4. g[0] = 1
    BY <2>1
  <2>5. ASSUME NEW i \in 1 .. (n + 1) PROVE g[i] = 2 * g[i - 1]
    <3>1. i - 1 \in 0 .. n /\ g[i - 1] = f[i - 1]
      OBVIOUS
    <3>2. CASE i = n + 1
      BY <3>1, <3>2
    <3>3. CASE i # n + 1
      BY <2>1, <3>1, <3>3
    <3>. QED
      BY <3>2, <3>3
  <2>6. g \in Doubling(n + 1)
    BY <2>3, <2>4, <2>5 DEF Doubling
  <2>. QED
    BY <2>6
<1>3. Nat \subseteq S
  <2>. HIDE DEF S
  <2>. QED
    BY <1>1, <1>2, Induction
<1>. QED
  BY <1>3

(* The strides double, and after as many rounds as there are nodes, if not *)
(* before, the stride has passed them all: the number of rounds exists.    *)
LEMMA StrideFacts ==
    /\ Stride(0) = 1
    /\ \A r \in 0 .. TotalNodes : Stride(r + 1) = 2 * Stride(r)
    /\ \E r \in 0 .. TotalNodes :
           /\ Stride(r) >= TotalNodes
           /\ \A s \in 0 .. TotalNodes : s < r => Stride(s) < TotalNodes
<1>. DEFINE n == TotalNodes
            last == n + 1
<1>1. n \in Nat
  BY ReadvAssumption DEF TotalNodes
<1>. HIDE DEF n
<1>2. PICK f \in [0 .. last -> Nat] : f[0] = 1 /\ \A i \in 1 .. last : f[i] = 2 * f[i - 1]
  <2>1. last \in Nat
    BY <1>1
  <2>. HIDE DEF last
  <2>2. PICK f \in Doubling(last) : TRUE
    BY <2>1, DoublingExists
  <2>. QED
    BY <2>2 DEF Doubling
<1>3. f = [r \in 0 .. last |-> IF r = 0 THEN 1 ELSE 2 * f[r - 1]]
  BY <1>1, <1>2
<1>4. Strides = CHOOSE g : g = [r \in 0 .. last |-> IF r = 0 THEN 1 ELSE 2 * g[r - 1]]
  BY DEF Strides, n
<1>5. Strides = [r \in 0 .. last |-> IF r = 0 THEN 1 ELSE 2 * Strides[r - 1]]
  BY <1>3, <1>4
<1>6. Stride(0) = 1
  BY <1>1, <1>5 DEF Stride
<1>7. \A r \in 0 .. n : Stride(r + 1) = 2 * Stride(r)
  <2>1. \A r \in 0 .. n : r + 1 \in 0 .. last /\ r + 1 # 0 /\ (r + 1) - 1 = r
    BY <1>1
  <2>. QED
    BY <1>5, <2>1 DEF Stride
<1>8. \A r \in Nat : r <= n => Stride(r) \in Nat /\ Stride(r) > r
  <2>. DEFINE S == {r \in Nat : r <= n => Stride(r) \in Nat /\ Stride(r) > r}
  <2>1. 0 \in S
    BY <1>6
  <2>2. ASSUME NEW r \in Nat, r \in S PROVE r + 1 \in S
    BY <1>1, <1>7, <2>2
  <2>3. Nat \subseteq S
    <3>. HIDE DEF S
    <3>. QED
      BY <2>1, <2>2, Induction
  <2>. QED
    BY <2>3
<1>9. PICK r \in {s \in 0 .. n : Stride(s) >= n} : \A s \in {s \in 0 .. n : Stride(s) >= n} : r <= s
  <2>. DEFINE T == {s \in 0 .. n : Stride(s) >= n}
  <2>1. n \in T
    BY <1>1, <1>8
  <2>2. T \in SUBSET Nat /\ T # {}
    BY <1>1, <2>1
  <2>. HIDE DEF T
  <2>3. \E r \in T : \A s \in T : r <= s
    BY <2>2, LeastNumber
  <2>. QED
    BY <2>3 DEF T
<1>10. ASSUME NEW s \in 0 .. n, s < r PROVE Stride(s) < n
  BY <1>1, <1>8, <1>9, <1>10
<1>. QED
  BY <1>6, <1>7, <1>9, <1>10 DEF n

(* 2^round for the rounds that are run, and the stride after the last.     *)
LEMMA Rounds ==
    /\ TotalRounds \in 0 .. TotalNodes
    /\ Stride(TotalRounds) >= TotalNodes
    /\ TotalNodes \in Nat
  BY StrideFacts, ReadvAssumption DEF TotalRounds, TotalNodes

(* A window is not empty and does not pass the end of the file. *)
LEMMA WindowBounds ==
    ASSUME NEW r, file_sz[r] \in Int, total_processed[r] \in Nat,
           total_processed[r] < file_sz[r]
    PROVE  /\ Window(r) \in Nat \ {0}
           /\ total_processed[r] + Window(r) <= file_sz[r]
<1>1. WindowSize \in Nat \ {0}
  BY ReadvAssumption DEF WindowSize
<1> QED BY <1>1 DEF Window

(* A call that transfers the whole window reaches all of it and no more.   *)
LEMMA ReachedWindow ==
    ASSUME NEW r, NEW o \in Offsets, file_sz[r] \in Int,
           total_processed[r] \in Nat, total_processed[r] < file_sz[r]
    PROVE  o \in Reached(r, Window(r)) <=> InWindow(r, o)
<1>1. Window(r) \in Nat
  BY WindowBounds
<1>2. Covered(Window(r)) = 0 .. (Window(r) - 1)
  BY <1>1, CoveredAll
<1>3. o \in Int
  BY ReadvAssumption DEF Offsets
<1> QED BY <1>1, <1>2, <1>3 DEF Reached, InWindow

-----------------------------------------------------------------------------
(* Before the first round only the source holds data. *)
THEOREM Initially == Init => IInv
<1> SUFFICES ASSUME Init PROVE IInv
  OBVIOUS
<1> USE ReadvAssumption, StrideFacts
<1>1. Stride(round) = 1 /\ Stride(round) \in Nat \ {0}
  BY DEF Init
<1>2. TypeOK
  <2>1. pending \in SUBSET (0 .. (Stride(round) - 1)) /\ round \in 0 .. TotalRounds
    BY <1>1, Rounds DEF Init
  <2>2. content \in [Nodes -> [Offsets -> Offsets \cup {Hole, Junk}]]
    BY DEF Init, Nodes
  <2>3. buf \in [Receivers -> [Offsets -> Offsets \cup {Hole, Junk}]]
    BY DEF Init, NoBuffers
  <2>4. size \in [Nodes -> 0 .. FileSize]
    BY DEF Init
  <2>5. data_transfer \in 0 .. (Modulus - 1) /\ faults \in 0 .. MaxFaults
    BY DEF Init
  <2> QED BY <2>1, <2>2, <2>3, <2>4, <2>5 DEF Init, TypeOK
<1>3. Busy = {}
  BY DEF Init, Busy
<1>4. Schedule
  <2>1. pending = {0} \/ TotalRounds = 0
    BY <1>1, Rounds DEF Init
  <2>2. TotalRounds = 0 => Receivers = {}
    BY Rounds DEF Receivers, TotalNodes
  <2> QED BY <1>1, <2>1, <2>2 DEF Init, Schedule, Receivers
<1>5. Complete(0) /\ Fresh /\ Ended /\ Copying
  BY <1>3 DEF Init, Complete, Fresh, Ended, Copying, Nodes, Receivers
<1> QED BY <1>1, <1>2, <1>4, <1>5 DEF IInv

(* The barrier: with no iteration pending and no copy under way every      *)
(* receiver of the round has ended, so the stride may double.              *)
LEMMA NextRoundKeeps ==
    ASSUME IInv, NextRound PROVE IInv'
<1>1. round \in 0 .. TotalRounds /\ round # TotalRounds
  BY DEF IInv, TypeOK, NextRound, Stopped
<1>2. /\ round' = round + 1
      /\ round \in 0 .. TotalNodes
      /\ round' \in 0 .. TotalRounds
  BY <1>1, Rounds DEF NextRound
<1>3. Stride(round') = 2 * Stride(round) /\ Stride(round') \in Nat \ {0}
  BY <1>2, StrideFacts DEF IInv
<1>4. TypeOK'
  <2>1. (pending \in SUBSET (0 .. (Stride(round) - 1)))'
    BY DEF NextRound
  <2> QED BY <1>2, <2>1 DEF IInv, TypeOK, NextRound, copyVars
<1>5. Schedule'
  <2> SUFFICES ASSUME NEW r \in Receivers
               PROVE  /\ r < Stride(round') => phase[r] = "end"
                      /\ r >= 2 * Stride(round') => phase[r] = "idle"
                      /\ r >= Stride(round') /\ r < 2 * Stride(round') =>
                            (phase[r] = "idle" <=> r - Stride(round') \in pending')
    BY DEF Schedule, NextRound
  <2>1. r \in Nat /\ r < TotalNodes /\ Stride(round) \in Nat \ {0}
    BY ReadvAssumption DEF Receivers, TotalNodes, IInv
  <2>2. phase[r] \in {"idle", "end"} /\ pending = {}
    BY DEF Busy, IInv, TypeOK, NextRound, Barrier
  <2>3. r < Stride(round') => phase[r] = "end"
    BY <1>3, <2>1, <2>2 DEF Schedule, IInv
  <2>4. r >= Stride(round') => phase[r] = "idle"
    BY <1>3, <2>1 DEF Schedule, IInv
  <2>5. r >= Stride(round') => pending' = 0 .. (Stride(round') - 1)
    BY <1>2, <1>3, <2>1, Rounds DEF NextRound
  <2>6. 2 * Stride(round') >= Stride(round')
    BY <1>3
  <2> QED BY <1>3, <2>1, <2>3, <2>4, <2>5, <2>6
<1>6. Busy' = {}
  BY DEF Busy, NextRound, Barrier
<1>7. (Complete(0) /\ Fresh /\ Ended /\ Copying)'
  BY <1>6 DEF IInv, NextRound, copyVars, Complete, Fresh, Ended, Copying
<1> QED BY <1>3, <1>4, <1>5, <1>7 DEF IInv

(* A thread that finds no receiver for its iteration: the iteration was    *)
(* nobody's turn. *)
LEMMA SkipKeeps ==
    ASSUME IInv, NEW i \in pending, SkipIteration(i) PROVE IInv'
<1>1. /\ UNCHANGED <<round, phase, file_sz, total_processed, buf, content, size,
                     data_transfer, faults, tainted, short>>
      /\ pending' = pending \ {i}
  BY DEF SkipIteration, copyVars
<1>2. TypeOK'
  BY <1>1 DEF IInv, TypeOK
<1>3. i + Stride(round) >= TotalNodes /\ i \in Nat /\ Stride(round) \in Nat
  BY DEF SkipIteration, IInv, TypeOK
<1>4. \A r \in Receivers : r - Stride(round) # i
  BY <1>3, ReadvAssumption DEF Receivers, TotalNodes
<1>5. Schedule'
  BY <1>1, <1>4 DEF IInv, Schedule
<1>6. Busy' = Busy
  BY <1>1 DEF Busy
<1>7. (Complete(0) /\ Fresh /\ Ended /\ Copying)'
  BY <1>1, <1>6 DEF IInv, Complete, Fresh, Ended, Copying, CleanCopy, Sender,
                    InWindow, Window
<1> QED BY <1>1, <1>2, <1>5, <1>7 DEF IInv

(* A node whose rounds are behind it, with no fault above it, is a copy.   *)
LEMMA CleanSender ==
    ASSUME IInv, NEW n \in Nodes, n < Stride(round), n \notin tainted
    PROVE  Complete(n)
<1>1. n = 0 \/ n \in Receivers
  BY ReadvAssumption DEF Nodes, Receivers
<1> QED BY <1>1 DEF IInv, Schedule, Ended

(* Where a running copy stands: its node and its sender. *)
LEMMA BusyCopy ==
    ASSUME IInv, NEW r \in Busy
    PROVE  /\ r \in Receivers /\ r \in Nat /\ r \in Nodes
           /\ r >= Stride(round) /\ r < 2 * Stride(round)
           /\ r - Stride(round) \notin pending
           /\ Sender(r) \in Nodes /\ Sender(r) < Stride(round)
           /\ Sender(r) \in 0 .. (r - 1) /\ Sender(r) \notin Busy
           /\ file_sz[r] \in Nat /\ total_processed[r] \in Nat
           /\ total_processed[r] < file_sz[r] /\ file_sz[r] <= FileSize
<1>1. /\ r \in Receivers /\ r \in Nat /\ r \in Nodes /\ r <= NumOutputs
      /\ phase[r] # "end" /\ phase[r] # "idle"
      /\ Stride(round) \in Nat \ {0}
  BY ReadvAssumption DEF Busy, Receivers, Nodes, IInv
<1>2. /\ r >= Stride(round) /\ r < 2 * Stride(round)
      /\ r - Stride(round) \notin pending
  BY <1>1 DEF IInv, Schedule
<1>3. /\ Sender(r) \in Nodes /\ Sender(r) < Stride(round)
      /\ Sender(r) \in 0 .. (r - 1)
  BY <1>1, <1>2, ReadvAssumption DEF Sender, Nodes
<1>4. Sender(r) \notin Busy
  BY <1>3 DEF IInv, Schedule, Busy
<1>5. /\ file_sz[r] \in Nat \cup {-1} /\ total_processed[r] \in Nat
      /\ total_processed[r] < file_sz[r] /\ file_sz[r] <= FileSize
  BY <1>1 DEF IInv, TypeOK, Copying
<1>6. file_sz[r] \in Nat
  BY <1>5
<1> QED BY <1>1, <1>2, <1>3, <1>4, <1>5, <1>6

(* data_transfer stays a size_t. *)
LEMMA AddType ==
    ASSUME data_transfer \in 0 .. (Modulus - 1), NEW x \in Int, Add(x)
    PROVE  data_transfer' \in 0 .. (Modulus - 1)
  BY ReadvAssumption, Z3 DEF Add

(* The copy that an iteration starts. *)
LEMMA StartedCopy ==
    ASSUME IInv, NEW i \in pending, StartCopy(i), NEW r, r = i + Stride(round)
    PROVE  /\ i \in Nat /\ i < Stride(round) /\ Stride(round) \in Nat \ {0}
           /\ i \in Nodes /\ r \in Receivers /\ r \in Nodes /\ r < TotalNodes
           /\ r - Stride(round) = i /\ r >= Stride(round) /\ r < 2 * Stride(round)
<1>1. i \in Nat /\ i < Stride(round) /\ Stride(round) \in Nat \ {0}
  BY DEF IInv, TypeOK
<1>2. r < TotalNodes
  BY DEF StartCopy
<1>3. NumOutputs \in Nat
  BY ReadvAssumption
<1>. QED
  BY <1>1, <1>2, <1>3 DEF TotalNodes, Receivers, Nodes

(* Entering a copy: the sender is behind in the tree and at rest, so the   *)
(* size it reports is that of a finished copy unless a fault is above it.  *)
LEMMA StartKeeps ==
    ASSUME IInv, NEW i \in pending, StartCopy(i) PROVE IInv'
<1>0. PICK r : r = i + Stride(round)
  OBVIOUS
<1>1. /\ i \in Nat /\ i < Stride(round) /\ Stride(round) \in Nat \ {0}
      /\ i \in Nodes /\ r \in Receivers /\ r \in Nodes
      /\ r - Stride(round) = i /\ r >= Stride(round) /\ r < 2 * Stride(round)
  BY <1>0, StartedCopy
<1>2. phase[r] = "idle" /\ total_processed[r] = 0 /\ size[r] = 0
  BY <1>1 DEF IInv, Schedule, Fresh
<1>3. /\ UNCHANGED <<round, total_processed, buf, content, size, data_transfer,
                     short>>
      /\ pending' = pending \ {i}
      /\ tainted \subseteq tainted' /\ tainted' \subseteq tainted \cup {r}
      /\ faults' \in 0 .. MaxFaults
      /\ \E z \in {size[i], -1} :
            /\ file_sz' = [file_sz EXCEPT ![r] = z]
            /\ r \notin tainted' => z = size[i] /\ i \notin tainted
  <2>1. /\ UNCHANGED <<round, total_processed, buf, content, size, data_transfer,
                       short>>
        /\ pending' = pending \ {i}
    BY <1>0 DEF StartCopy
  <2>2. CASE /\ file_sz' = [file_sz EXCEPT ![r] = size[i]]
             /\ tainted' = IF i \in tainted THEN tainted \cup {r} ELSE tainted
             /\ UNCHANGED faults
    <3>1. tainted \subseteq tainted' /\ tainted' \subseteq tainted \cup {r}
      BY <2>2
    <3>2. r \notin tainted' => i \notin tainted
      BY <2>2
    <3> QED BY <2>1, <2>2, <3>1, <3>2 DEF IInv, TypeOK
  <2>3. CASE /\ Fault
             /\ file_sz' = [file_sz EXCEPT ![r] = -1]
             /\ tainted' = tainted \cup {r}
    <3>1. faults' \in 0 .. MaxFaults
      BY <2>3, ReadvAssumption DEF Fault, IInv, TypeOK
    <3> QED BY <2>1, <2>3, <3>1
  <2> QED BY <1>0, <2>2, <2>3 DEF StartCopy
<1>4. PICK z \in {size[i], -1} :
            /\ file_sz' = [file_sz EXCEPT ![r] = z]
            /\ r \notin tainted' => z = size[i] /\ i \notin tainted
  BY <1>3
<1>5. size[i] \in 0 .. FileSize
  BY <1>1 DEF IInv, TypeOK
<1>6. z \in Int /\ z \in Nat \cup {-1} /\ z <= FileSize
  BY <1>5, ReadvAssumption
<1>7. file_sz'[r] = z /\ \A q \in Receivers \ {r} : file_sz'[q] = file_sz[q]
  BY <1>1, <1>4 DEF IInv, TypeOK
<1>8. phase' = [phase EXCEPT ![r] = IF z <= 0 THEN "end" ELSE "read"]
  BY <1>0, <1>7 DEF StartCopy
<1>9. /\ phase'[r] = (IF z <= 0 THEN "end" ELSE "read")
      /\ \A q \in Receivers \ {r} : phase'[q] = phase[q]
  BY <1>1, <1>8 DEF IInv, TypeOK
<1>10. TypeOK'
  BY <1>1, <1>3, <1>4, <1>6, <1>8 DEF IInv, TypeOK
<1>11. Schedule'
  <2> SUFFICES ASSUME NEW q \in Receivers
               PROVE  /\ q < Stride(round) => phase'[q] = "end"
                      /\ q >= 2 * Stride(round) => phase'[q] = "idle"
                      /\ q >= Stride(round) /\ q < 2 * Stride(round) =>
                            (phase'[q] = "idle" <=> q - Stride(round) \in pending')
    BY <1>3 DEF Schedule
  <2>1. CASE q = r
    BY <2>1, <1>1, <1>3, <1>9
  <2>2. CASE q # r
    <3>1. q \in Nat /\ q - Stride(round) # i
      BY <2>2, <1>1 DEF Receivers
    <3> QED BY <2>2, <3>1, <1>3, <1>9 DEF IInv, Schedule
  <2> QED BY <2>1, <2>2
<1>12. Fresh'
  BY <1>3, <1>9 DEF IInv, Fresh
<1>13. Complete(0)'
  BY <1>3 DEF IInv, Complete
<1>14. i \notin tainted => size[i] = FileSize
  BY <1>1, CleanSender DEF Complete
<1>15. Ended'
  <2> SUFFICES ASSUME NEW q \in Receivers, phase'[q] = "end", q \notin tainted'
               PROVE  Complete(q)'
    BY DEF Ended
  <2>1. CASE q = r
    <3>1. FileSize = 0 /\ size[r] = 0
      BY <2>1, <1>2, <1>4, <1>9, <1>14, ReadvAssumption
    <3> QED BY <2>1, <3>1, <1>3 DEF Complete, Offsets
  <2>2. CASE q # r
    BY <2>2, <1>3, <1>9 DEF IInv, Ended, Complete
  <2> QED BY <2>1, <2>2
<1>16. Copying'
  <2> SUFFICES ASSUME NEW q \in Busy'
               PROVE  /\ total_processed[q] < file_sz'[q]
                      /\ file_sz'[q] <= FileSize
                      /\ q \notin tainted' => CleanCopy(q)'
    BY <1>3 DEF Copying
  <2>1. q \in Receivers
    BY DEF Busy
  <2>2. CASE q = r
    <3>1. z > 0 /\ phase'[r] = "read"
      BY <2>2, <1>6, <1>9 DEF Busy
    <3>2. r \notin tainted' => /\ i \notin tainted' /\ file_sz'[r] = FileSize
      BY <1>1, <1>3, <1>4, <1>7, <1>14
    <3>3. \A o \in Offsets : ~(o < 0)
      BY ReadvAssumption DEF Offsets
    <3>4. r \notin tainted' => CleanCopy(r)'
      BY <1>1, <1>2, <1>3, <3>1, <3>2, <3>3 DEF CleanCopy, Sender
    <3> QED BY <2>2, <1>2, <1>6, <1>7, <3>1, <3>4
  <2>3. CASE q # r
    <3>1. q \in Busy
      BY <2>1, <2>3, <1>9 DEF Busy
    <3>2. Sender(q) # r
      BY <3>1, <1>1, BusyCopy
    <3>3. q \notin tainted => CleanCopy(q)
      BY <3>1 DEF IInv, Copying
    <3>4. /\ phase'[q] = phase[q] /\ file_sz'[q] = file_sz[q]
          /\ Sender(q)' = Sender(q) /\ Window(q)' = Window(q)
      BY <2>1, <2>3, <1>3, <1>7, <1>9 DEF Sender, Window
    <3>5. q \notin tainted' => q \notin tainted /\ (Sender(q) \notin tainted
                                                  => Sender(q) \notin tainted')
      BY <3>2, <1>3
    <3>6. q \notin tainted' => CleanCopy(q)'
      BY <3>3, <3>4, <3>5, <1>3 DEF CleanCopy, InWindow
    <3> QED BY <2>1, <2>3, <3>1, <3>6, <1>3, <1>7 DEF IInv, Copying
  <2> QED BY <2>2, <2>3
<1> QED BY <1>1, <1>3, <1>10, <1>11, <1>12, <1>13, <1>15, <1>16 DEF IInv

(* A step of one running copy touches nothing the other nodes rely on:     *)
(* what is left to show of it is its own part of the invariant.            *)
LEMMA OwnPart ==
    ASSUME IInv, NEW r \in Busy, TypeOK',
           round' = round, pending' = pending, phase'[r] # "idle",
           \A n \in Nodes \ {r} : content'[n] = content[n] /\ size'[n] = size[n],
           \A q \in Receivers \ {r} :
               /\ phase'[q] = phase[q] /\ file_sz'[q] = file_sz[q]
               /\ total_processed'[q] = total_processed[q] /\ buf'[q] = buf[q],
           tainted \subseteq tainted', tainted' \subseteq tainted \cup {r},
           phase'[r] = "end" /\ r \notin tainted' => Complete(r)',
           phase'[r] \in {"read", "write"} =>
               /\ total_processed'[r] < file_sz'[r] /\ file_sz'[r] <= FileSize
               /\ r \notin tainted' => CleanCopy(r)'
    PROVE  IInv'
<1>1. /\ r \in Receivers /\ r \in Nat \ {0} /\ r - Stride(round) \notin pending
      /\ r >= Stride(round) /\ r < 2 * Stride(round)
      /\ Stride(round) \in Nat \ {0}
  BY BusyCopy DEF IInv, Receivers
<1>2. \A q \in Receivers : q \in Nodes
  BY DEF Receivers, Nodes
<1>3. Schedule'
  <2> SUFFICES ASSUME NEW q \in Receivers
               PROVE  /\ q < Stride(round) => phase'[q] = "end"
                      /\ q >= 2 * Stride(round) => phase'[q] = "idle"
                      /\ q >= Stride(round) /\ q < 2 * Stride(round) =>
                            (phase'[q] = "idle" <=> q - Stride(round) \in pending)
    BY DEF Schedule
  <2>1. CASE q = r
    BY <2>1, <1>1
  <2>2. CASE q # r
    BY <2>2 DEF IInv, Schedule
  <2> QED BY <2>1, <2>2
<1>4. Fresh'
  BY <1>2 DEF IInv, Fresh
<1>5. Complete(0)'
  <2>1. 0 \in Nodes \ {r}
    BY <1>1, ReadvAssumption DEF Nodes
  <2> QED BY <2>1 DEF IInv, Complete
<1>6. Ended'
  <2> SUFFICES ASSUME NEW q \in Receivers, phase'[q] = "end", q \notin tainted'
               PROVE  Complete(q)'
    BY DEF Ended
  <2>1. CASE q = r
    BY <2>1
  <2>2. CASE q # r
    BY <2>2, <1>2 DEF IInv, Ended, Complete
  <2> QED BY <2>1, <2>2
<1>7. Copying'
  <2> SUFFICES ASSUME NEW q \in Busy'
               PROVE  /\ total_processed'[q] < file_sz'[q]
                      /\ file_sz'[q] <= FileSize
                      /\ q \notin tainted' => CleanCopy(q)'
    BY DEF Copying
  <2>1. q \in Receivers /\ phase'[q] \in {"read", "write"}
    BY DEF Busy
  <2>2. CASE q = r
    BY <2>1, <2>2
  <2>3. CASE q # r
    <3>1. q \in Busy
      BY <2>1, <2>3 DEF Busy
    <3>2. Sender(q) # r
      BY <3>1, BusyCopy
    <3>3. q \notin tainted => CleanCopy(q)
      BY <3>1 DEF IInv, Copying
    <3>4. /\ Sender(q)' = Sender(q) /\ Window(q)' = Window(q)
          /\ content'[q] = content[q] /\ size'[q] = size[q]
      BY <2>1, <2>3, <1>2 DEF Sender, Window
    <3>5. q \notin tainted' => CleanCopy(q)'
      BY <2>1, <2>3, <3>2, <3>3, <3>4 DEF CleanCopy, InWindow
    <3> QED BY <2>1, <2>3, <3>1, <3>5 DEF IInv, Copying
  <2> QED BY <2>2, <2>3
<1> QED BY <1>1, <1>3, <1>4, <1>5, <1>6, <1>7 DEF IInv

(* A copy that gives up taints its node and nothing else. *)
LEMMA FailKeeps ==
    ASSUME IInv, NEW r \in Receivers, CopyFails(r) PROVE IInv'
<1>1. /\ r \in Busy
      /\ UNCHANGED <<round, pending, file_sz, total_processed, content, size,
                     short>>
      /\ phase' = [phase EXCEPT ![r] = "end"]
      /\ tainted' = tainted \cup {r}
      /\ buf' = [buf EXCEPT ![r] = NoBuffers]
  BY DEF CopyFails
<1>2. TypeOK'
  <2>1. faults' \in 0 .. MaxFaults
    BY ReadvAssumption DEF CopyFails, Fault, IInv, TypeOK
  <2>2. data_transfer' \in 0 .. (Modulus - 1)
    BY AddType DEF CopyFails, ReturnedOnError, IInv, TypeOK
  <2>3. NoBuffers \in [Offsets -> Offsets \cup {Hole, Junk}]
    BY DEF NoBuffers
  <2>4. buf' \in [Receivers -> [Offsets -> Offsets \cup {Hole, Junk}]]
    BY <1>1, <2>3 DEF IInv, TypeOK
  <2>5. phase' \in [Receivers -> {"idle", "read", "write", "end"}]
    BY <1>1 DEF IInv, TypeOK
  <2> QED BY <1>1, <2>1, <2>2, <2>4, <2>5 DEF IInv, TypeOK
<1>3. /\ phase'[r] = "end" /\ r \in tainted'
      /\ \A q \in Receivers \ {r} : phase'[q] = phase[q] /\ buf'[q] = buf[q]
  BY <1>1 DEF IInv, TypeOK
<1> QED BY <1>1, <1>2, <1>3, OwnPart

(* A read fills the window's buffers from a sender that is at rest. *)
LEMMA PreadvKeeps ==
    ASSUME IInv, NEW r \in Receivers, Preadv(r) PROVE IInv'
<1>1. r \in Busy /\ phase[r] = "read"
  BY DEF Preadv, Busy
<1>2. /\ UNCHANGED <<round, pending, file_sz, total_processed, content, size,
                     data_transfer>>
      /\ phase' = [phase EXCEPT ![r] = "write"]
  BY DEF Preadv
<1>3. PICK k \in 0 .. Window(r) :
         /\ IF k = Window(r)
            THEN UNCHANGED <<faults, tainted, short>>
            ELSE Fault /\ short' = TRUE /\ tainted' = tainted \cup {r}
         /\ buf' = [buf EXCEPT ![r] =
                       [o \in Offsets |-> IF o \in Reached(r, k)
                                          THEN content[Sender(r)][o] ELSE Junk]]
  BY DEF Preadv
<1>4. /\ tainted \subseteq tainted' /\ tainted' \subseteq tainted \cup {r}
      /\ r \notin tainted' => k = Window(r)
      /\ faults' \in 0 .. MaxFaults /\ short' \in BOOLEAN
      /\ tainted' \in SUBSET Receivers
  <2>1. CASE k = Window(r)
    BY <2>1, <1>3 DEF IInv, TypeOK
  <2>2. CASE k # Window(r)
    BY <2>2, <1>3, ReadvAssumption DEF Fault, IInv, TypeOK
  <2> QED BY <2>1, <2>2
<1>5. /\ phase'[r] = "write"
      /\ buf'[r] = [o \in Offsets |-> IF o \in Reached(r, k)
                                      THEN content[Sender(r)][o] ELSE Junk]
      /\ \A q \in Receivers \ {r} : phase'[q] = phase[q] /\ buf'[q] = buf[q]
  BY <1>2, <1>3 DEF IInv, TypeOK
<1>6. TypeOK'
  <2>1. content[Sender(r)] \in [Offsets -> Offsets \cup {Hole, Junk}]
    BY <1>1, BusyCopy DEF IInv, TypeOK
  <2>2. buf'[r] \in [Offsets -> Offsets \cup {Hole, Junk}]
    BY <1>5, <2>1
  <2>3. buf' \in [Receivers -> [Offsets -> Offsets \cup {Hole, Junk}]]
    BY <1>3, <1>5, <2>2 DEF IInv, TypeOK
  <2>4. phase' \in [Receivers -> {"idle", "read", "write", "end"}]
    BY <1>2 DEF IInv, TypeOK
  <2> QED BY <1>2, <1>4, <2>3, <2>4 DEF IInv, TypeOK
<1>7. r \notin tainted' => CleanCopy(r)'
  <2> SUFFICES ASSUME r \notin tainted' PROVE CleanCopy(r)'
    OBVIOUS
  <2>1. r \notin tainted /\ k = Window(r) /\ CleanCopy(r)
    BY <1>1, <1>4 DEF IInv, Copying
  <2>2. Sender(r)' = Sender(r) /\ Window(r)' = Window(r) /\ Sender(r) # r
    BY <1>1, <1>2, BusyCopy DEF Sender, Window
  <2>3. Complete(Sender(r))
    BY <1>1, <2>1, BusyCopy, CleanSender DEF CleanCopy
  <2>4. \A o \in Offsets : InWindow(r, o) => buf'[r][o] = o
    <3> TAKE o \in Offsets
    <3>1. InWindow(r, o) => o \in Reached(r, k)
      BY <1>1, <2>1, BusyCopy, ReachedWindow
    <3> QED BY <3>1, <1>5, <2>3 DEF Complete
  <2>5. Sender(r) \notin tainted'
    BY <2>1, <2>2, <1>4 DEF CleanCopy
  <2> QED BY <1>2, <1>5, <2>1, <2>2, <2>4, <2>5 DEF CleanCopy, InWindow
<1>8. total_processed[r] < file_sz[r] /\ file_sz[r] <= FileSize
  BY <1>1, BusyCopy
<1> QED BY <1>1, <1>2, <1>4, <1>5, <1>6, <1>7, <1>8, OwnPart

(* A write adds the window to what is processed; the last one completes    *)
(* the file.                                                               *)
LEMMA PwritevKeeps ==
    ASSUME IInv, NEW r \in Receivers, Pwritev(r) PROVE IInv'
<1>1. r \in Busy /\ phase[r] = "write" /\ r \in Nodes
  BY DEF Pwritev, Busy, Receivers, Nodes
<1>2. PICK next : next = total_processed[r] + Window(r)
  OBVIOUS
<1>3. /\ UNCHANGED <<round, pending, file_sz>>
      /\ total_processed' = [total_processed EXCEPT ![r] = next]
      /\ phase' = [phase EXCEPT ![r] = IF next < file_sz[r] THEN "read" ELSE "end"]
      /\ IF next < file_sz[r] THEN UNCHANGED data_transfer ELSE Add(next)
      /\ buf' = [buf EXCEPT ![r] = NoBuffers]
  BY <1>2 DEF Pwritev
<1>4. PICK k \in 0 .. Window(r) :
         /\ IF k = Window(r)
            THEN UNCHANGED <<faults, tainted, short>>
            ELSE Fault /\ short' = TRUE /\ tainted' = tainted \cup {r}
         /\ content' = [content EXCEPT ![r] =
                           [o \in Offsets |-> IF o \in Reached(r, k)
                                              THEN buf[r][o] ELSE content[r][o]]]
         /\ size' = [size EXCEPT ![r] =
                        IF k > 0 /\ total_processed[r] + k > size[r]
                        THEN total_processed[r] + k ELSE size[r]]
  BY <1>1 DEF Pwritev, IInv, TypeOK
<1>5. /\ tainted \subseteq tainted' /\ tainted' \subseteq tainted \cup {r}
      /\ r \notin tainted' => k = Window(r)
      /\ faults' \in 0 .. MaxFaults /\ short' \in BOOLEAN
      /\ tainted' \in SUBSET Receivers
  <2>1. CASE k = Window(r)
    BY <2>1, <1>4 DEF IInv, TypeOK
  <2>2. CASE k # Window(r)
    BY <2>2, <1>4, ReadvAssumption DEF Fault, IInv, TypeOK
  <2> QED BY <2>1, <2>2
<1>6. /\ total_processed[r] \in Nat /\ file_sz[r] \in Nat
      /\ total_processed[r] < file_sz[r] /\ file_sz[r] <= FileSize
      /\ Window(r) \in Nat \ {0} /\ next \in Nat /\ next <= file_sz[r]
      /\ k \in Nat /\ k <= Window(r) /\ total_processed[r] + k <= next
      /\ size[r] \in Nat /\ size[r] <= FileSize
  <2>1. /\ total_processed[r] \in Nat /\ file_sz[r] \in Nat
        /\ total_processed[r] < file_sz[r] /\ file_sz[r] <= FileSize
    BY <1>1, BusyCopy
  <2>2. Window(r) \in Nat \ {0} /\ total_processed[r] + Window(r) <= file_sz[r]
    BY <2>1, WindowBounds
  <2>3. size[r] \in 0 .. FileSize
    BY <1>1 DEF IInv, TypeOK
  <2> QED BY <2>1, <2>2, <2>3, <1>2, ReadvAssumption
<1>7. /\ phase'[r] = (IF next < file_sz[r] THEN "read" ELSE "end")
      /\ total_processed'[r] = next
      /\ \A q \in Receivers \ {r} :
            /\ phase'[q] = phase[q] /\ buf'[q] = buf[q]
            /\ total_processed'[q] = total_processed[q]
  BY <1>3 DEF IInv, TypeOK
<1>8. /\ content'[r] = [o \in Offsets |-> IF o \in Reached(r, k)
                                          THEN buf[r][o] ELSE content[r][o]]
      /\ size'[r] = (IF k > 0 /\ total_processed[r] + k > size[r]
                     THEN total_processed[r] + k ELSE size[r])
      /\ \A n \in Nodes \ {r} : content'[n] = content[n] /\ size'[n] = size[n]
  BY <1>1, <1>4 DEF IInv, TypeOK
<1>9. TypeOK'
  <2>1. data_transfer' \in 0 .. (Modulus - 1)
    <3>1. data_transfer \in 0 .. (Modulus - 1) /\ next \in Int
      BY <1>6 DEF IInv, TypeOK
    <3> QED BY <3>1, <1>3, AddType
  <2>2. buf' \in [Receivers -> [Offsets -> Offsets \cup {Hole, Junk}]]
    BY <1>3 DEF IInv, TypeOK, NoBuffers
  <2>3. phase' \in [Receivers -> {"idle", "read", "write", "end"}]
    BY <1>3 DEF IInv, TypeOK
  <2>4. total_processed' \in [Receivers -> Nat]
    BY <1>3, <1>6 DEF IInv, TypeOK
  <2>5. content' \in [Nodes -> [Offsets -> Offsets \cup {Hole, Junk}]]
    <3>1. /\ buf[r] \in [Offsets -> Offsets \cup {Hole, Junk}]
          /\ content[r] \in [Offsets -> Offsets \cup {Hole, Junk}]
      BY <1>1 DEF IInv, TypeOK
    <3>2. content'[r] \in [Offsets -> Offsets \cup {Hole, Junk}]
      BY <3>1, <1>8
    <3> QED BY <3>2, <1>4, <1>8 DEF IInv, TypeOK
  <2>6. size' \in [Nodes -> 0 .. FileSize]
    <3>1. size'[r] \in 0 .. FileSize
      BY <1>6, <1>8, ReadvAssumption
    <3> QED BY <3>1, <1>4, <1>8 DEF IInv, TypeOK
  <2> QED BY <1>3, <1>5, <2>1, <2>2, <2>3, <2>4, <2>5, <2>6 DEF IInv, TypeOK
<1>10. ASSUME r \notin tainted'
       PROVE  /\ CleanCopy(r) /\ size'[r] = next
              /\ \A o \in Offsets : o < next => content'[r][o] = o
  <2>1. CleanCopy(r) /\ k = Window(r)
    BY <1>1, <1>5, <1>10 DEF IInv, Copying
  <2>2. size'[r] = next
    BY <2>1, <1>2, <1>6, <1>8 DEF CleanCopy
  <2>3. \A o \in Offsets : o < next => content'[r][o] = o
    <3> TAKE o \in Offsets
    <3>1. o \in Reached(r, k) <=> InWindow(r, o)
      BY <2>1, <1>6, ReachedWindow
    <3>2. o \in Nat
      BY ReadvAssumption DEF Offsets
    <3>3. InWindow(r, o) => content'[r][o] = o
      BY <2>1, <3>1, <1>1, <1>8 DEF CleanCopy
    <3>4. o < total_processed[r] => content'[r][o] = o
      BY <2>1, <3>1, <3>2, <1>6, <1>8 DEF CleanCopy, InWindow
    <3> QED BY <3>2, <3>3, <3>4, <1>2, <1>6 DEF InWindow
  <2> QED BY <2>1, <2>2, <2>3
<1>11. phase'[r] = "end" /\ r \notin tainted' => Complete(r)'
  <2> SUFFICES ASSUME phase'[r] = "end", r \notin tainted' PROVE Complete(r)'
    OBVIOUS
  <2>1. next = FileSize
    BY <1>6, <1>7, <1>10 DEF CleanCopy
  <2>2. \A o \in Offsets : o < next
    BY <2>1, ReadvAssumption DEF Offsets
  <2> QED BY <1>10, <2>1, <2>2 DEF Complete
<1>12. phase'[r] = "read" =>
          /\ total_processed'[r] < file_sz'[r] /\ file_sz'[r] <= FileSize
          /\ r \notin tainted' => CleanCopy(r)'
  <2> SUFFICES ASSUME phase'[r] = "read"
               PROVE  /\ total_processed'[r] < file_sz'[r] /\ file_sz'[r] <= FileSize
                      /\ r \notin tainted' => CleanCopy(r)'
    OBVIOUS
  <2>1. Sender(r)' = Sender(r) /\ Sender(r) # r
    BY <1>1, <1>3, BusyCopy DEF Sender
  <2>2. r \notin tainted' => CleanCopy(r)'
    BY <1>3, <1>5, <1>7, <1>10, <2>1 DEF CleanCopy
  <2> QED BY <1>3, <1>6, <1>7, <2>2
<1>13. phase'[r] # "idle" /\ phase'[r] # "write"
  BY <1>7
<1> QED BY <1>1, <1>3, <1>5, <1>7, <1>8, <1>9, <1>11, <1>12, <1>13, OwnPart

-----------------------------------------------------------------------------
(* Every action of perform_readv_broadcast, one lemma each, and stuttering. *)
LEMMA Step == IInv /\ [Next]_vars => IInv'
<1> SUFFICES ASSUME IInv, [Next]_vars PROVE IInv'
  OBVIOUS
<1>1. ASSUME NEW i \in pending, SkipIteration(i) PROVE IInv'
  BY <1>1, SkipKeeps
<1>2. ASSUME NEW i \in pending, StartCopy(i) PROVE IInv'
  BY <1>2, StartKeeps
<1>3. ASSUME NEW r \in Receivers, CopyFails(r) PROVE IInv'
  BY <1>3, FailKeeps
<1>4. ASSUME NEW r \in Receivers, Preadv(r) PROVE IInv'
  BY <1>4, PreadvKeeps
<1>5. ASSUME NEW r \in Receivers, Pwritev(r) PROVE IInv'
  BY <1>5, PwritevKeeps
<1>6. CASE NextRound
  BY <1>6, NextRoundKeeps
<1>7. CASE UNCHANGED vars
  <2>1. Busy' = Busy
    BY <1>7 DEF vars, Busy
  <2> QED BY <1>7, <2>1 DEF vars, IInv, TypeOK, Schedule, Complete, Fresh, Ended,
                           Copying, CleanCopy, InWindow, Window, Sender
<1> QED BY <1>1, <1>2, <1>3, <1>4, <1>5, <1>6, <1>7 DEF Next, Terminated

(* The inductive invariant holds in every run. *)
THEOREM Invariance == Spec => []IInv
<1> QED BY Initially, Step, PTL DEF Spec

(* The loop variables, the buffers and the files keep to their types, and  *)
(* data_transfer wraps instead of becoming negative.                       *)
THEOREM TypeCorrect == Spec => []TypeOK
<1>1. IInv => TypeOK
  BY DEF IInv
<1> QED BY <1>1, Invariance, PTL

(* No file is read by one thread while another writes it, for any number   *)
(* of outputs and threads: a round's senders are below its receivers.      *)
THEOREM SendersAtRest == Spec => []SenderQuiescent
<1>1. IInv => SenderQuiescent
  BY BusyCopy DEF SenderQuiescent
<1> QED BY <1>1, Invariance, PTL

(* Whatever calls fail or fall short, a node whose rounds are over and     *)
(* that has no fault on its path from the source is a complete copy.       *)
THEOREM ErrorIsolation == Spec => []CleanPathComplete
<1>1. IInv => CleanPathComplete
  BY CleanSender DEF CleanPathComplete
<1> QED BY <1>1, Invariance, PTL

-----------------------------------------------------------------------------
(* For the refinement: a copy has not touched what it has yet to process,  *)
(* and the last barrier leaves no iteration.                               *)
Untouched ==
    /\ \A r \in Receivers : phase[r] # "end" =>
           \A o \in Offsets : o >= total_processed[r] => content[r][o] = Hole
    /\ Stopped => pending = {}

(* Nothing is written at the start. *)
LEMMA UntouchedInitially == Init => Untouched
  BY Rounds, ReadvAssumption DEF Init, Untouched, Stopped, Receivers, Nodes

(* When the rounds are over no thread is busy. *)
LEMMA StoppedIdle ==
    ASSUME IInv, Stopped
    PROVE  \A r \in Receivers : phase[r] = "end"
  BY Rounds, ReadvAssumption DEF Stopped, IInv, Schedule, Receivers, TotalNodes

(* The units of a write that are reached belong to its window. *)
LEMMA ReachedBounds ==
    ASSUME NEW r, NEW k, NEW o \in Reached(r, k), total_processed[r] \in Nat,
           Window(r) \in Nat
    PROVE  o >= total_processed[r] /\ o < total_processed[r] + Window(r)
<1>1. o \in Int
  BY ReadvAssumption DEF Reached, Offsets
<1>2. o - total_processed[r] \in 0 .. (Window(r) - 1)
  BY DEF Reached, Covered
<1> QED BY <1>1, <1>2

(* A write changes what it reaches, all of it untouched before, and moves  *)
(* past it.                                                                *)
LEMMA WriteAdds ==
    ASSUME IInv, Untouched, NEW r \in Receivers, Pwritev(r)
    PROVE  /\ \A o \in Offsets : content[r][o] = o => content'[r][o] = o
           /\ \A n \in Nodes \ {r} : content'[n] = content[n]
           /\ \A o \in Offsets :
                 o >= total_processed'[r] => content'[r][o] = Hole
<1>1. r \in Busy /\ r \in Nodes /\ phase[r] # "end"
  BY DEF Pwritev, Busy, Receivers, Nodes
<1>2. /\ total_processed[r] \in Nat /\ file_sz[r] \in Nat
      /\ total_processed[r] < file_sz[r]
  BY <1>1, BusyCopy
<1>3. Window(r) \in Nat \ {0}
  BY <1>2, WindowBounds
<1>4. total_processed'[r] = total_processed[r] + Window(r)
  BY <1>2 DEF Pwritev, IInv, TypeOK
<1>5. PICK k : content' = [content EXCEPT ![r] =
                              [o \in Offsets |-> IF o \in Reached(r, k)
                                                 THEN buf[r][o] ELSE content[r][o]]]
  BY <1>1 DEF Pwritev, IInv, TypeOK
<1>6. /\ content'[r] = [o \in Offsets |-> IF o \in Reached(r, k)
                                          THEN buf[r][o] ELSE content[r][o]]
      /\ \A n \in Nodes \ {r} : content'[n] = content[n]
  BY <1>1, <1>5 DEF IInv, TypeOK
<1>7. ASSUME NEW o \in Offsets
      PROVE  /\ content[r][o] = o => content'[r][o] = o
             /\ o >= total_processed'[r] => content'[r][o] = Hole
  <2>1. o \in Nat /\ o # Hole
    BY ReadvAssumption DEF Offsets
  <2>2. o >= total_processed[r] => content[r][o] = Hole
    BY <1>1 DEF Untouched
  <2>3. CASE o \in Reached(r, k)
    <3>1. o >= total_processed[r] /\ o < total_processed[r] + Window(r)
      BY <1>2, <1>3, <2>3, ReachedBounds
    <3> QED BY <1>2, <1>3, <1>4, <2>1, <2>2, <3>1
  <2>4. CASE o \notin Reached(r, k)
    <3>1. content'[r][o] = content[r][o]
      BY <1>6, <2>4
    <3> QED BY <1>2, <1>3, <1>4, <2>1, <2>2, <3>1
  <2> QED BY <2>3, <2>4
<1> QED BY <1>6, <1>7

(* Every step keeps what was written within the chunks handed out. *)
LEMMA UntouchedStep == IInv /\ Untouched /\ [Next]_vars => Untouched'
<1> SUFFICES ASSUME IInv, Untouched, [Next]_vars PROVE Untouched'
  OBVIOUS
<1> DEFINE Part(r) == phase[r] # "end" =>
               \A o \in Offsets : o >= total_processed[r] => content[r][o] = Hole
<1>1. ASSUME NEW i \in pending, SkipIteration(i) PROVE Untouched'
  BY <1>1 DEF SkipIteration, copyVars, Untouched, Stopped
<1>2. ASSUME NEW i \in pending, StartCopy(i) PROVE Untouched'
  <2>1. /\ UNCHANGED <<round, total_processed, content>>
        /\ pending' \subseteq pending
        /\ \A r \in Receivers : phase'[r] # "end" => phase[r] # "end"
    <3>1. PICK r : r = i + Stride(round)
      OBVIOUS
    <3>2. /\ UNCHANGED <<round, total_processed, content>>
          /\ pending' \subseteq pending
          /\ r < TotalNodes /\ r - Stride(round) = i /\ r >= Stride(round)
          /\ r < 2 * Stride(round) /\ r \in Receivers
      <4>1. UNCHANGED <<round, total_processed, content>> /\ pending' \subseteq pending
        BY <1>2 DEF StartCopy
      <4> QED BY <1>2, <3>1, <4>1, StartedCopy
    <3>3. phase[r] = "idle"
      BY <3>2 DEF IInv, Schedule
    <3>4. \A q \in Receivers \ {r} : phase'[q] = phase[q]
      BY <1>2, <3>1 DEF StartCopy, IInv, TypeOK
    <3> QED BY <3>2, <3>3, <3>4
  <2> QED BY <2>1 DEF Untouched, Stopped
<1>3. ASSUME NEW r \in Receivers, CopyFails(r) \/ Preadv(r) PROVE Untouched'
  <2>1. /\ UNCHANGED <<round, total_processed, content, pending>>
        /\ phase[r] # "end"
        /\ \A q \in Receivers \ {r} : phase'[q] = phase[q]
    BY <1>3 DEF CopyFails, Preadv, Busy, IInv, TypeOK
  <2> QED BY <2>1 DEF Untouched, Stopped
<1>4. ASSUME NEW r \in Receivers, Pwritev(r) PROVE Untouched'
  <2>1. /\ UNCHANGED <<round, pending>>
        /\ \A q \in Receivers \ {r} : /\ phase'[q] = phase[q]
                                       /\ total_processed'[q] = total_processed[q]
    BY <1>4 DEF Pwritev, IInv, TypeOK
  <2>2. \A q \in Receivers : q \in Nodes
    BY DEF Receivers, Nodes
  <2> QED BY <1>4, <2>1, <2>2, WriteAdds DEF Untouched, Stopped
<1>5. CASE NextRound
  <2>1. /\ UNCHANGED <<phase, total_processed, content>>
        /\ round' = round + 1 /\ round \in Nat
        /\ pending' = IF round' < TotalRounds THEN 0 .. (Stride(round') - 1) ELSE {}
    BY <1>5, Rounds DEF NextRound, copyVars, IInv, TypeOK
  <2> QED BY <2>1, Rounds DEF Untouched, Stopped
<1>6. CASE UNCHANGED vars
  BY <1>6 DEF vars, Untouched, Stopped
<1> QED BY <1>1, <1>2, <1>3, <1>4, <1>5, <1>6 DEF Next, Terminated

(* The files as Broadcast sees them. *)
Held == [r \in Receivers |-> {o \in Offsets : content[r][o] = o}]

(* Every step of mode 1 is, for its caller, a step of Broadcast: a write   *)
(* adds to one output and undoes nothing, a failing call fails the outputs *)
(* below it, the last barrier is the return, with every output that is not *)
(* failed complete.  (With no outputs at all the call returns at once,     *)
(* which Broadcast does not know of.)                                      *)
THEOREM ImplementsBroadcast ==
    ASSUME NumOutputs # 0
    PROVE  Spec => Promised!Safety
<1>1. Init => Promised!Init
  <2> SUFFICES ASSUME Init PROVE Promised!Init
    OBVIOUS
  <2>1. Stopped = FALSE
    BY Rounds, StrideFacts, ReadvAssumption DEF Init, Stopped, TotalNodes
  <2>2. Held = [r \in Receivers |-> {}]
    BY ReadvAssumption DEF Init, Held, Receivers, Nodes, Offsets
  <2> QED BY <2>1, <2>2 DEF Promised!Init, Init, Held
<1>2. IInv /\ Untouched /\ [Next]_vars => [Promised!Next]_(Promised!vars)
  <2> SUFFICES ASSUME IInv, Untouched, [Next]_vars
               PROVE  Promised!Next \/ UNCHANGED <<Held, tainted, Stopped>>
    BY DEF Promised!vars, Held
  <2>0. ASSUME NEW r \in Receivers, ~Stopped, ~Stopped', tainted \subseteq tainted',
               tainted' \subseteq Receivers,
               \A o \in Offsets : content[r][o] = o => content'[r][o] = o,
               \A n \in Receivers \ {r} : content'[n] = content[n]
        PROVE  Promised!Next
    <3> DEFINE more == {o \in Offsets : content'[r][o] = o}
    <3>1. Held' = [Held EXCEPT ![r] = @ \cup more] /\ more \in SUBSET Offsets
      BY <2>0 DEF Held
    <3>2. tainted' = tainted \cup tainted' /\ tainted' \in SUBSET Receivers
      BY <2>0
    <3> HIDE DEF more
    <3>3. Stopped' = Stopped
      BY <2>0 DEF Stopped
    <3>4. Promised!Work(r)
      BY <2>0, <3>1, <3>2, <3>3 DEF Promised!Work, Held
    <3> QED BY <3>4 DEF Promised!Next
  <2>1. ASSUME NEW i \in pending, SkipIteration(i)
        PROVE  UNCHANGED <<Held, tainted, Stopped>>
    BY <2>1 DEF SkipIteration, Held, Stopped
  <2>2. ASSUME NEW i \in pending, StartCopy(i)
        PROVE  Promised!Next
    <3>1. IInv'
      BY <2>2, StartKeeps
    <3>2. /\ UNCHANGED <<round, content>> /\ tainted \subseteq tainted'
          /\ tainted' \subseteq Receivers
      BY <2>2, <3>1 DEF StartCopy, IInv, TypeOK
    <3>3. i + Stride(round) \in Receivers
      BY <2>2, ReadvAssumption DEF StartCopy, IInv, TypeOK, Receivers, TotalNodes
    <3>4. ~Stopped /\ ~Stopped'
      BY <2>2, <3>2 DEF Untouched, Stopped
    <3> QED BY <2>0, <3>2, <3>3, <3>4
  <2>3. ASSUME NEW r \in Receivers, CopyFails(r) \/ Preadv(r) \/ Pwritev(r)
        PROVE  Promised!Next
    <3>1. IInv'
      BY <2>3, FailKeeps, PreadvKeeps, PwritevKeeps
    <3>2. /\ UNCHANGED round /\ tainted \subseteq tainted'
          /\ tainted' \subseteq Receivers /\ phase[r] # "end"
      BY <2>3, <3>1 DEF CopyFails, Preadv, Pwritev, Busy, IInv, TypeOK
    <3>3. ~Stopped /\ ~Stopped'
      BY <3>2, StoppedIdle DEF Stopped
    <3>4. /\ \A o \in Offsets : content[r][o] = o => content'[r][o] = o
          /\ \A n \in Receivers \ {r} : content'[n] = content[n]
      <4>1. CASE CopyFails(r) \/ Preadv(r)
        BY <4>1 DEF CopyFails, Preadv
      <4>2. CASE Pwritev(r)
        BY <4>2, WriteAdds DEF Receivers, Nodes
      <4> QED BY <2>3, <4>1, <4>2
    <3> QED BY <2>0, <3>2, <3>3, <3>4
  <2>4. CASE NextRound
    <3>1. IInv'
      BY <2>4, NextRoundKeeps
    <3>2. ~Stopped /\ UNCHANGED <<content, tainted>> /\ UNCHANGED Held
      BY <2>4 DEF NextRound, Held
    <3>3. CASE ~Stopped'
      <4>1. Stopped' = Stopped
        BY <3>2, <3>3 DEF Stopped
      <4> QED BY <3>2, <4>1
    <3>4. CASE Stopped'
      <4>1. \A r \in Receivers : phase'[r] = "end"
        BY <3>1, <3>4, Rounds, ReadvAssumption
           DEF Stopped, IInv, Schedule, Receivers, TotalNodes
      <4>2. \A r \in Receivers \ tainted' : Complete(r)'
        BY <3>1, <4>1 DEF IInv, Ended
      <4>3. \A r \in Receivers \ tainted' : Held[r] = Offsets
        BY <3>2, <4>2 DEF Complete, Held
      <4>4. tainted' = tainted \cup {}
        BY <3>2
      <4>5. Stopped' = TRUE
        BY <3>4 DEF Stopped
      <4>6. Promised!Return
        BY <3>2, <4>3, <4>4, <4>5 DEF Promised!Return, Held
      <4> QED BY <4>6 DEF Promised!Next
    <3> QED BY <3>3, <3>4
  <2>5. CASE UNCHANGED vars
    BY <2>5 DEF vars, Held, Stopped
  <2> QED BY <2>1, <2>2, <2>3, <2>4, <2>5 DEF Next, Terminated
<1> QED BY <1>1, <1>2, UntouchedInitially, UntouchedStep, Invariance, PTL
        DEF Spec, Promised!Safety

-----------------------------------------------------------------------------
(* What the reduction has added: the sizes of the copies that came to the  *)
(* end of their file, unit by unit, and -1 for each that returned an error.*)
CountedUnits ==
    {u \in Receivers \X Offsets :
        /\ phase[u[1]] = "end" /\ total_processed[u[1]] >= file_sz[u[1]]
        /\ u[2] < file_sz[u[1]]}

ReturnedError ==
    {r \in Receivers : phase[r] = "end" /\ total_processed[r] < file_sz[r]}

(* data_transfer is that, but for the times it wrapped around. *)
Balanced ==
    \E q \in Int : data_transfer =
        Cardinality(CountedUnits) - Cardinality(ReturnedError) + q * Modulus

(* While no transfer was short every file is a prefix of the source, as    *)
(* long as it has been processed, and a copy takes no more than its        *)
(* sender's file has.                                                      *)
Prefixes ==
    ~short =>
        /\ \A r \in Receivers : size[r] = total_processed[r]
        /\ \A n \in Nodes, o \in Offsets : o < size[n] => content[n][o] = o
        /\ \A r \in Busy :
              /\ file_sz[r] <= size[Sender(r)]
              /\ phase[r] = "write" =>
                    \A o \in Offsets : InWindow(r, o) => buf[r][o] = o

(* Both are finite. *)
LEMMA FiniteCounts ==
    /\ IsFiniteSet(Receivers \X Offsets)
    /\ Cardinality(Receivers \X Offsets) = NumOutputs * FileSize
    /\ IsFiniteSet(CountedUnits) /\ Cardinality(CountedUnits) \in Nat
    /\ Cardinality(CountedUnits) <= NumOutputs * FileSize
    /\ IsFiniteSet(ReturnedError) /\ Cardinality(ReturnedError) \in Nat
    /\ Cardinality(ReturnedError) <= NumOutputs
<1>1. IsFiniteSet(Offsets) /\ Cardinality(Offsets) = FileSize
  BY ReadvAssumption, FS_Interval DEF Offsets
<1>2. IsFiniteSet(Receivers) /\ Cardinality(Receivers) = NumOutputs
  BY ReadvAssumption, FS_Interval DEF Receivers
<1>3. /\ IsFiniteSet(Receivers \X Offsets)
      /\ Cardinality(Receivers \X Offsets) = NumOutputs * FileSize
  BY <1>1, <1>2, FS_Product
<1>4. /\ CountedUnits \in SUBSET (Receivers \X Offsets)
      /\ ReturnedError \in SUBSET Receivers
  BY DEF CountedUnits, ReturnedError
<1>5. /\ IsFiniteSet(CountedUnits)
      /\ Cardinality(CountedUnits) <= Cardinality(Receivers \X Offsets)
  BY <1>3, <1>4, FS_Subset
<1>6. IsFiniteSet(ReturnedError) /\ Cardinality(ReturnedError) <= Cardinality(Receivers)
  BY <1>2, <1>4, FS_Subset
<1> QED BY <1>2, <1>3, <1>5, <1>6, FS_CardinalityType

(* A sum that wraps around differs by multiples of the modulus. *)
LEMMA Wraps ==
    ASSUME NEW x \in Int
    PROVE  \E q \in Int : x % Modulus = x + q * Modulus
<1>1. PICK d \in Int, m \in Int : /\ d = x \div Modulus /\ m = x % Modulus
                                  /\ x = Modulus * d + m
  BY ReadvAssumption, Z3
<1>2. PICK q \in Int : q = -d
  OBVIOUS
<1>3. m = x + q * Modulus
  BY <1>1, <1>2, ReadvAssumption
<1> QED BY <1>1, <1>3

(* What a sum that was balanced is after an addition. *)
LEMMA AddBalances ==
    ASSUME data_transfer \in Int, NEW n \in Int, NEW q \in Int,
           data_transfer = n + q * Modulus, NEW x \in Int, Add(x)
    PROVE  \E p \in Int : data_transfer' = (n + x) + p * Modulus
<1>1. PICK w \in Int : (data_transfer + x) % Modulus = (data_transfer + x) + w * Modulus
  BY Wraps
<1>2. data_transfer' = (n + x) + (q + w) * Modulus
  BY <1>1, ReadvAssumption, Z3 DEF Add
<1> QED BY <1>2

(* A copy that ends in error, or with a full file: what it adds to the     *)
(* sum is what it adds to the counts.                                      *)
LEMMA FailBalances ==
    ASSUME IInv, Balanced, NEW r \in Receivers, CopyFails(r) PROVE Balanced'
<1>1. /\ r \in Busy /\ phase[r] # "end" /\ total_processed[r] < file_sz[r]
      /\ total_processed[r] \in Nat /\ file_sz[r] \in Nat
      /\ UNCHANGED <<file_sz, total_processed>>
      /\ phase'[r] = "end" /\ \A q \in Receivers \ {r} : phase'[q] = phase[q]
      /\ Add(-1)
  BY BusyCopy DEF CopyFails, Busy, IInv, TypeOK, ReturnedOnError
<1>2. CountedUnits' = CountedUnits
  <2>1. ~(total_processed[r] >= file_sz[r])
    BY <1>1
  <2>2. \A u \in Receivers \X Offsets : u \in CountedUnits' <=> u \in CountedUnits
    BY <1>1, <2>1 DEF CountedUnits
  <2> QED BY <2>2 DEF CountedUnits
<1>3. ReturnedError' = ReturnedError \cup {r} /\ r \notin ReturnedError
  BY <1>1 DEF ReturnedError
<1>4. Cardinality(ReturnedError') = Cardinality(ReturnedError) + 1
  BY <1>3, FiniteCounts, FS_AddElement
<1> DEFINE c == Cardinality(CountedUnits)
           e == Cardinality(ReturnedError)
<1>5. c \in Nat /\ e \in Nat
  BY FiniteCounts
<1>6. PICK q \in Int : data_transfer = c - e + q * Modulus
  BY DEF Balanced
<1>7. data_transfer \in Int
  BY ReadvAssumption DEF IInv, TypeOK
<1> HIDE DEF c, e
<1>8. PICK p \in Int : data_transfer' = ((c - e) + (-1)) + p * Modulus
  <2>1. c - e \in Int /\ -1 \in Int
    BY <1>5
  <2> QED BY <1>1, <1>6, <1>7, <2>1, AddBalances
<1>9. data_transfer' = c - (e + 1) + p * Modulus
  <2>1. (c - e) + (-1) = c - (e + 1)
    BY <1>5
  <2> QED BY <1>8, <2>1
<1> QED BY <1>2, <1>4, <1>9 DEF Balanced, c, e

(* The last write of a copy. *)
LEMMA WriteBalances ==
    ASSUME IInv, Balanced, NEW r \in Receivers, Pwritev(r) PROVE Balanced'
<1>1. /\ r \in Busy /\ phase[r] # "end" /\ total_processed[r] < file_sz[r]
      /\ total_processed[r] \in Nat /\ file_sz[r] \in Nat /\ file_sz[r] <= FileSize
  BY BusyCopy DEF Pwritev, Busy
<1>2. PICK next : next = total_processed[r] + Window(r)
  OBVIOUS
<1>3. next \in Nat /\ next <= file_sz[r]
  BY <1>1, <1>2, WindowBounds
<1>4. /\ UNCHANGED file_sz
      /\ total_processed'[r] = next
      /\ phase'[r] = IF next < file_sz[r] THEN "read" ELSE "end"
      /\ \A q \in Receivers \ {r} : /\ phase'[q] = phase[q]
                                     /\ total_processed'[q] = total_processed[q]
      /\ IF next < file_sz[r] THEN UNCHANGED data_transfer ELSE Add(next)
  BY <1>2 DEF Pwritev, IInv, TypeOK
<1> DEFINE New == {r} \X (0 .. (file_sz[r] - 1))
           c == Cardinality(CountedUnits)
           e == Cardinality(ReturnedError)
<1>5. ReturnedError' = ReturnedError
  <2>1. r \notin ReturnedError /\ r \notin ReturnedError'
    BY <1>1, <1>3, <1>4 DEF ReturnedError
  <2>2. \A q \in Receivers \ {r} : q \in ReturnedError' <=> q \in ReturnedError
    BY <1>4 DEF ReturnedError
  <2> QED BY <2>1, <2>2 DEF ReturnedError
<1>6. CASE next < file_sz[r]
  <2>1. phase'[r] # "end"
    BY <1>4, <1>6
  <2>2. \A u \in Receivers \X Offsets : u \in CountedUnits' <=> u \in CountedUnits
    BY <1>1, <1>4, <2>1 DEF CountedUnits
  <2>3. CountedUnits' = CountedUnits
    BY <2>2 DEF CountedUnits
  <2> QED BY <1>4, <1>5, <1>6, <2>3 DEF Balanced
<1>7. CASE ~(next < file_sz[r])
  <2>1. next = file_sz[r] /\ phase'[r] = "end" /\ Add(next)
    BY <1>1, <1>3, <1>4, <1>7
  <2>2. CountedUnits' = CountedUnits \cup New
    <3>1. ASSUME NEW u \in Receivers \X Offsets, u[1] # r
          PROVE  u \in CountedUnits' <=> u \in CountedUnits \cup New
      BY <1>4, <3>1 DEF CountedUnits
    <3>2. ASSUME NEW u \in Receivers \X Offsets, u[1] = r
          PROVE  u \in CountedUnits' <=> u \in CountedUnits \cup New
      <4>1. u = <<u[1], u[2]>> /\ u[2] \in Nat
        BY DEF Offsets
      <4>2. u \in CountedUnits' <=> u[2] < file_sz[r]
        BY <1>1, <1>4, <2>1, <3>2 DEF CountedUnits
      <4>3. u \in New <=> u[2] \in 0 .. (file_sz[r] - 1)
        BY <3>2, <4>1
      <4>4. u \notin CountedUnits
        BY <1>1, <3>2 DEF CountedUnits
      <4>5. u[2] < file_sz[r] <=> u[2] \in 0 .. (file_sz[r] - 1)
        BY <1>1, <4>1
      <4> QED BY <4>2, <4>3, <4>4, <4>5
    <3>3. New \subseteq Receivers \X Offsets
      BY <1>1, ReadvAssumption DEF Offsets
    <3>4. CountedUnits \subseteq Receivers \X Offsets /\ CountedUnits' \subseteq Receivers \X Offsets
      BY DEF CountedUnits
    <3> HIDE DEF New
    <3> QED BY <3>1, <3>2, <3>3, <3>4
  <2>3. IsFiniteSet(New) /\ Cardinality(New) = file_sz[r]
    <3> DEFINE I == 0 .. (file_sz[r] - 1)
    <3>1. IsFiniteSet(I) /\ Cardinality(I) = file_sz[r]
      <4>1. PICK f \in Nat \ {0} : f = file_sz[r]
        BY <1>1
      <4>2. IsFiniteSet(0 .. (f - 1)) /\ Cardinality(0 .. (f - 1)) = f
        BY FS_Interval
      <4> QED BY <4>1, <4>2
    <3>2. IsFiniteSet({r}) /\ Cardinality({r}) = 1
      BY FS_Singleton
    <3> HIDE DEF I
    <3>3. IsFiniteSet({r} \X I) /\ Cardinality({r} \X I) = 1 * file_sz[r]
      BY <3>1, <3>2, FS_Product
    <3> QED BY <1>1, <3>3 DEF I
  <2>4. CountedUnits \cap New = {}
    BY <1>1 DEF CountedUnits
  <2>5. c \in Nat /\ e \in Nat
    BY FiniteCounts
  <2>6. Cardinality(CountedUnits') = c + next
    <3> HIDE DEF New
    <3>1. Cardinality(CountedUnits \cup New)
             = c + Cardinality(New) - Cardinality(CountedUnits \cap New)
      BY <2>3, FiniteCounts, FS_Union
    <3>2. Cardinality(CountedUnits \cap New) = 0
      BY <2>4, FS_EmptySet
    <3> QED BY <1>3, <2>1, <2>2, <2>3, <2>5, <3>1, <3>2
  <2>7. PICK q \in Int : data_transfer = c - e + q * Modulus
    BY DEF Balanced
  <2>8. data_transfer \in Int
    BY ReadvAssumption DEF IInv, TypeOK
  <2> HIDE DEF c, e
  <2>9. PICK p \in Int : data_transfer' = ((c - e) + next) + p * Modulus
    <3>1. c - e \in Int /\ next \in Int
      BY <1>3, <2>5
    <3> QED BY <2>1, <2>7, <2>8, <3>1, AddBalances
  <2>10. data_transfer' = (c + next) - e + p * Modulus
    <3>1. (c - e) + next = (c + next) - e
      BY <1>3, <2>5
    <3> QED BY <2>9, <3>1
  <2> QED BY <1>5, <2>6, <2>10 DEF Balanced, e
<1> QED BY <1>6, <1>7

(* The other steps add nothing, and no copy comes to its end in them but   *)
(* one of an empty file, or of one whose size could not be told.           *)
LEMMA OthersBalance ==
    ASSUME IInv, Balanced,
           \/ \E i \in pending : SkipIteration(i) \/ StartCopy(i)
           \/ \E r \in Receivers : Preadv(r)
           \/ NextRound \/ UNCHANGED vars
    PROVE  Balanced'
<1>1. SUFFICES CountedUnits' = CountedUnits /\ ReturnedError' = ReturnedError
  BY DEF Balanced, SkipIteration, StartCopy, Preadv, NextRound, vars
<1>2. SUFFICES ASSUME NEW q \in Receivers
               PROVE  \/ phase'[q] # "end" /\ phase[q] # "end"
                      \/ /\ phase'[q] = phase[q] /\ file_sz'[q] = file_sz[q]
                         /\ total_processed'[q] = total_processed[q]
                      \/ /\ phase[q] # "end" /\ total_processed'[q] = 0
                         /\ file_sz'[q] \in {0, -1}
  <2>1. \A q \in Receivers : q \in ReturnedError' <=> q \in ReturnedError
    BY <1>2 DEF ReturnedError
  <2>2. ASSUME NEW u \in Receivers \X Offsets
        PROVE  u \in CountedUnits' <=> u \in CountedUnits
    <3>1. u[2] \in Nat /\ u[1] \in Receivers
      BY DEF Offsets
    <3>2. file_sz'[u[1]] \in {0, -1} => ~(u[2] < file_sz'[u[1]])
      BY <3>1
    <3> QED BY <1>2, <3>1, <3>2 DEF CountedUnits
  <2> QED BY <2>1, <2>2 DEF CountedUnits, ReturnedError
<1>3. ASSUME NEW i \in pending, StartCopy(i)
      PROVE  \/ phase'[q] # "end" /\ phase[q] # "end"
             \/ /\ phase'[q] = phase[q] /\ file_sz'[q] = file_sz[q]
                /\ total_processed'[q] = total_processed[q]
             \/ /\ phase[q] # "end" /\ total_processed'[q] = 0
                /\ file_sz'[q] \in {0, -1}
  <2>1. PICK r : r = i + Stride(round)
    OBVIOUS
  <2>2. /\ r \in Receivers /\ r >= Stride(round) /\ r < 2 * Stride(round)
        /\ r - Stride(round) = i
    BY <1>3, <2>1, StartedCopy
  <2>3. phase[r] = "idle" /\ total_processed[r] = 0
    BY <2>2 DEF IInv, Schedule, Fresh
  <2>4. file_sz'[r] \in Nat \cup {-1} /\ total_processed' = total_processed
        /\ phase'[r] = IF file_sz'[r] <= 0 THEN "end" ELSE "read"
    <3>1. size[i] \in Nat
      <4>1. i \in Nodes
        BY <1>3, <2>1, StartedCopy
      <4>2. size[i] \in 0 .. FileSize
        BY <4>1 DEF IInv, TypeOK
      <4> QED BY <4>2
    <3> QED BY <1>3, <2>1, <2>2, <3>1 DEF StartCopy, IInv, TypeOK
  <2>5. q # r => phase'[q] = phase[q] /\ file_sz'[q] = file_sz[q]
    BY <1>3, <2>1 DEF StartCopy, IInv, TypeOK
  <2> QED BY <2>3, <2>4, <2>5
<1>4. ASSUME NEW r \in Receivers, Preadv(r)
      PROVE  \/ phase'[q] # "end" /\ phase[q] # "end"
             \/ /\ phase'[q] = phase[q] /\ file_sz'[q] = file_sz[q]
                /\ total_processed'[q] = total_processed[q]
  BY <1>4 DEF Preadv, IInv, TypeOK
<1> QED BY <1>3, <1>4 DEF SkipIteration, NextRound, vars, copyVars

(* A short transfer is remembered. *)
LEMMA ShortStays == IInv /\ [Next]_vars /\ ~short' => ~short
  BY DEF Next, SkipIteration, StartCopy, CopyFails, Preadv, Pwritev, NextRound,
         Terminated, vars, IInv, TypeOK

(* A step of one copy keeps the prefixes if it keeps its own. *)
LEMMA OwnPrefix ==
    ASSUME IInv, Prefixes, ~short, NEW r \in Receivers,
           round' = round, Busy' \subseteq Busy \cup {r},
           \A q \in Busy : Sender(q) # r,
           \A q \in Receivers \ {r} :
               /\ phase'[q] = phase[q] /\ file_sz'[q] = file_sz[q]
               /\ total_processed'[q] = total_processed[q] /\ buf'[q] = buf[q],
           \A n \in Nodes \ {r} : content'[n] = content[n] /\ size'[n] = size[n],
           size'[r] = total_processed'[r],
           \A o \in Offsets : o < size'[r] => content'[r][o] = o,
           r \in Busy' =>
              /\ Sender(r) \in Nodes \ {r} /\ file_sz'[r] <= size[Sender(r)]
              /\ phase'[r] = "write" =>
                    \A o \in Offsets : InWindow(r, o)' => buf'[r][o] = o
    PROVE  Prefixes'
<1>1. /\ \A q \in Receivers : size[q] = total_processed[q]
      /\ \A n \in Nodes, o \in Offsets : o < size[n] => content[n][o] = o
      /\ \A q \in Busy :
            /\ file_sz[q] <= size[Sender(q)]
            /\ phase[q] = "write" => \A o \in Offsets : InWindow(q, o) => buf[q][o] = o
  BY DEF Prefixes
<1>2. \A q \in Receivers : size'[q] = total_processed'[q]
  BY <1>1 DEF Receivers, Nodes
<1>3. \A n \in Nodes, o \in Offsets : o < size'[n] => content'[n][o] = o
  BY <1>1
<1>4. ASSUME NEW q \in Busy'
      PROVE  /\ file_sz'[q] <= size'[Sender(q)']
             /\ phase'[q] = "write" =>
                   \A o \in Offsets : InWindow(q, o)' => buf'[q][o] = o
  <2>1. Sender(q)' = Sender(q)
    BY DEF Sender
  <2>2. CASE q = r
    BY <1>4, <2>1, <2>2
  <2>3. CASE q # r
    <3>1. q \in Busy /\ q \in Receivers \ {r}
      BY <1>4, <2>3 DEF Busy
    <3>2. Sender(q) \in Nodes \ {r}
      BY <3>1, BusyCopy
    <3>3. \A o \in Offsets : InWindow(q, o)' <=> InWindow(q, o)
      BY <3>1 DEF InWindow, Window
    <3> QED BY <1>1, <2>1, <3>1, <3>2, <3>3
  <2> QED BY <2>2, <2>3
<1> QED BY <1>2, <1>3, <1>4 DEF Prefixes

(* Entering a copy. *)
LEMMA StartPrefix ==
    ASSUME IInv, Prefixes, ~short, NEW i \in pending, StartCopy(i) PROVE Prefixes'
<1>1. PICK r : r = i + Stride(round)
  OBVIOUS
<1>2. /\ r \in Receivers /\ r \in Nodes /\ i \in Nodes /\ i # r /\ i < Stride(round)
      /\ r >= Stride(round) /\ r < 2 * Stride(round) /\ r - Stride(round) = i
      /\ Sender(r) = i
  <2>1. /\ r \in Receivers /\ r \in Nodes /\ i \in Nodes /\ i < Stride(round)
        /\ r >= Stride(round) /\ r < 2 * Stride(round) /\ r - Stride(round) = i
        /\ i \in Nat /\ Stride(round) \in Nat \ {0}
    BY <1>1, StartedCopy
  <2>2. i # r
    BY <1>1, <2>1
  <2> QED BY <2>1, <2>2 DEF Sender
<1>3. phase[r] = "idle" /\ total_processed[r] = 0 /\ size[r] = 0
  BY <1>2 DEF IInv, Schedule, Fresh
<1>4. /\ UNCHANGED <<round, total_processed, buf, content, size>>
      /\ phase'[r] = IF file_sz'[r] <= 0 THEN "end" ELSE "read"
      /\ file_sz'[r] \in {size[i], -1}
      /\ \A q \in Receivers \ {r} : phase'[q] = phase[q] /\ file_sz'[q] = file_sz[q]
  BY <1>1, <1>2 DEF StartCopy, IInv, TypeOK
<1>5. Busy' \subseteq Busy \cup {r} /\ (r \in Busy' => file_sz'[r] = size[i])
  BY <1>4 DEF Busy
<1>6. \A q \in Busy : Sender(q) # r
  <2>1. Stride(round) \in Nat
    BY DEF IInv
  <2> QED BY <1>2, <2>1, BusyCopy DEF Nodes
<1>7. size[i] \in Int
  BY <1>2, ReadvAssumption DEF IInv, TypeOK
<1>8. \A o \in Offsets : ~(o < size[r])
  BY <1>3 DEF Offsets
<1>9. phase'[r] # "write" /\ file_sz'[r] = size[i] => file_sz'[r] <= size[i]
  BY <1>7
<1>10. phase'[r] # "write"
  BY <1>4
<1> QED BY <1>2, <1>3, <1>4, <1>5, <1>6, <1>8, <1>9, <1>10, OwnPrefix

(* Giving up. *)
LEMMA FailPrefix ==
    ASSUME IInv, Prefixes, ~short, NEW r \in Receivers, CopyFails(r) PROVE Prefixes'
<1>1. /\ r \in Busy /\ r \in Nodes
      /\ UNCHANGED <<round, file_sz, total_processed, content, size>>
      /\ phase'[r] = "end"
      /\ \A q \in Receivers \ {r} : phase'[q] = phase[q] /\ buf'[q] = buf[q]
  BY DEF CopyFails, IInv, TypeOK, Receivers, Nodes
<1>2. \A q \in Busy : Sender(q) # r
  BY <1>1, BusyCopy
<1>3. r \notin Busy' /\ Busy' \subseteq Busy \cup {r}
  BY <1>1 DEF Busy
<1>4. /\ size'[r] = total_processed'[r]
      /\ \A o \in Offsets : o < size'[r] => content'[r][o] = o
  BY <1>1 DEF Prefixes
<1> QED BY <1>1, <1>2, <1>3, <1>4, OwnPrefix

(* A read of the whole window: what the sender has of it is in place. *)
LEMMA ReadPrefix ==
    ASSUME IInv, Prefixes, ~short', ~short, NEW r \in Receivers, Preadv(r) PROVE Prefixes'
<1>1. /\ r \in Busy /\ r \in Nodes
      /\ UNCHANGED <<round, file_sz, total_processed, content, size>>
      /\ phase'[r] = "write"
      /\ \A q \in Receivers \ {r} : phase'[q] = phase[q] /\ buf'[q] = buf[q]
      /\ buf'[r] = [o \in Offsets |-> IF o \in Reached(r, Window(r))
                                      THEN content[Sender(r)][o] ELSE Junk]
  BY DEF Preadv, IInv, TypeOK, Receivers, Nodes, Busy
<1>2. \A q \in Busy : Sender(q) # r
  BY <1>1, BusyCopy
<1>3. Busy' \subseteq Busy \cup {r}
  BY <1>1 DEF Busy
<1>4. /\ size'[r] = total_processed'[r]
      /\ \A o \in Offsets : o < size'[r] => content'[r][o] = o
  BY <1>1 DEF Prefixes
<1>5. Sender(r) \in Nodes \ {r} /\ file_sz'[r] <= size[Sender(r)]
  BY <1>1, <1>2, BusyCopy DEF Prefixes
<1>6. ASSUME NEW o \in Offsets, InWindow(r, o)' PROVE buf'[r][o] = o
  <2>1. InWindow(r, o)
    BY <1>1, <1>6 DEF InWindow, Window
  <2>2. o \in Reached(r, Window(r))
    BY <1>1, <2>1, BusyCopy, ReachedWindow
  <2>3. o < size[Sender(r)]
    <3>1. o < total_processed[r] + Window(r) /\ total_processed[r] + Window(r) <= file_sz[r]
          /\ file_sz[r] <= size[Sender(r)]
      BY <1>1, <1>5, <2>1, BusyCopy, WindowBounds DEF InWindow
    <3>2. o \in Int /\ total_processed[r] + Window(r) \in Int /\ file_sz[r] \in Int
          /\ size[Sender(r)] \in Int
      <4>1. Window(r) \in Nat /\ total_processed[r] \in Nat /\ file_sz[r] \in Nat
        BY <1>1, BusyCopy, WindowBounds
      <4>2. size[Sender(r)] \in 0 .. FileSize
        BY <1>5 DEF IInv, TypeOK
      <4> QED BY <4>1, <4>2, ReadvAssumption DEF Offsets
    <3> QED BY <3>1, <3>2
  <2>4. content[Sender(r)][o] = o
    BY <1>5, <2>3 DEF Prefixes
  <2> QED BY <1>1, <2>2, <2>4
<1> QED BY <1>1, <1>2, <1>3, <1>4, <1>5, <1>6, OwnPrefix

(* A write of the whole window extends the prefix by it. *)
LEMMA WritePrefix ==
    ASSUME IInv, Prefixes, ~short', ~short, NEW r \in Receivers, Pwritev(r) PROVE Prefixes'
<1>1. PICK next : next = total_processed[r] + Window(r)
  OBVIOUS
<1>2. /\ r \in Busy /\ r \in Nodes /\ phase[r] = "write"
      /\ UNCHANGED <<round, file_sz>>
      /\ total_processed'[r] = next
      /\ phase'[r] # "write"
      /\ \A q \in Receivers \ {r} : /\ phase'[q] = phase[q] /\ buf'[q] = buf[q]
                                     /\ total_processed'[q] = total_processed[q]
      /\ content'[r] = [o \in Offsets |-> IF o \in Reached(r, Window(r))
                                          THEN buf[r][o] ELSE content[r][o]]
      /\ size'[r] = IF Window(r) > 0 /\ next > size[r] THEN next ELSE size[r]
      /\ \A n \in Nodes \ {r} : content'[n] = content[n] /\ size'[n] = size[n]
  <2>1. r \in Busy /\ r \in Nodes /\ phase[r] = "write"
    BY DEF Pwritev, Receivers, Nodes, Busy
  <2>2. /\ UNCHANGED <<round, file_sz>>
        /\ total_processed' = [total_processed EXCEPT ![r] = next]
        /\ phase' = [phase EXCEPT ![r] = IF next < file_sz[r] THEN "read" ELSE "end"]
        /\ buf' = [buf EXCEPT ![r] = NoBuffers]
    BY <1>1 DEF Pwritev
  <2>3. /\ content' = [content EXCEPT ![r] =
                          [o \in Offsets |-> IF o \in Reached(r, Window(r))
                                             THEN buf[r][o] ELSE content[r][o]]]
        /\ size' = [size EXCEPT ![r] =
                       IF Window(r) > 0 /\ total_processed[r] + Window(r) > size[r]
                       THEN total_processed[r] + Window(r) ELSE size[r]]
    BY <2>1 DEF Pwritev, IInv, TypeOK
  <2> QED BY <1>1, <2>1, <2>2, <2>3 DEF IInv, TypeOK
<1>3. \A q \in Busy : Sender(q) # r
  BY <1>2, BusyCopy
<1>4. Busy' \subseteq Busy \cup {r}
  BY <1>2 DEF Busy
<1>5. /\ size[r] = total_processed[r]
      /\ \A o \in Offsets : o < total_processed[r] => content[r][o] = o
      /\ \A o \in Offsets : InWindow(r, o) => buf[r][o] = o
      /\ Sender(r) \in Nodes \ {r} /\ file_sz'[r] <= size[Sender(r)]
  BY <1>2, <1>3, BusyCopy DEF Prefixes
<1>6. total_processed[r] \in Nat /\ Window(r) \in Nat \ {0}
      /\ total_processed[r] < file_sz[r] /\ file_sz[r] \in Nat
  BY <1>2, BusyCopy, WindowBounds
<1>7. size'[r] = total_processed'[r]
  BY <1>1, <1>2, <1>5, <1>6
<1>8. ASSUME NEW o \in Offsets, o < size'[r] PROVE content'[r][o] = o
  <2>1. o \in Nat
    BY DEF Offsets
  <2>2. o \in Reached(r, Window(r)) <=> InWindow(r, o)
    BY <1>6, ReachedWindow
  <2>3. CASE InWindow(r, o)
    BY <1>2, <1>5, <2>2, <2>3
  <2>4. CASE ~InWindow(r, o)
    <3>1. o < total_processed[r]
      BY <1>1, <1>2, <1>6, <1>7, <1>8, <2>1, <2>4 DEF InWindow
    <3> QED BY <1>2, <1>5, <2>2, <2>4, <3>1
  <2> QED BY <2>3, <2>4
<1> QED BY <1>2, <1>3, <1>4, <1>5, <1>7, <1>8, OwnPrefix

(* Every step keeps the sum and the prefixes. *)
LEMMA SumStep == IInv /\ Balanced /\ Prefixes /\ [Next]_vars => Balanced' /\ Prefixes'
<1> SUFFICES ASSUME IInv, Balanced, Prefixes, [Next]_vars PROVE Balanced' /\ Prefixes'
  OBVIOUS
<1>1. Balanced'
  BY OthersBalance, FailBalances, WriteBalances DEF Next, Terminated
<1>2. SUFFICES ASSUME ~short' PROVE Prefixes'
  BY <1>1 DEF Prefixes
<1>3. ~short
  BY <1>2, ShortStays
<1>4. CASE \/ \E i \in pending : SkipIteration(i)
           \/ UNCHANGED vars
  <2>1. UNCHANGED <<round, phase, file_sz, total_processed, buf, content, size, short>>
    BY <1>4 DEF SkipIteration, copyVars, vars
  <2> QED BY <2>1 DEF Prefixes, Busy, Sender, InWindow, Window
<1>5. CASE NextRound
  <2>1. /\ UNCHANGED <<phase, file_sz, total_processed, buf, content, size, short>>
        /\ Busy = {}
    BY <1>5 DEF NextRound, Barrier, copyVars
  <2>2. Busy' = {}
    BY <2>1 DEF Busy
  <2> QED BY <2>1, <2>2 DEF Prefixes
<1> QED BY <1>2, <1>3, <1>4, <1>5, StartPrefix, FailPrefix, ReadPrefix, WritePrefix
        DEF Next, Terminated

(* If the sum cannot wrap around, a total of size times outputs, short     *)
(* transfers apart, means that every output is a copy: what is missing     *)
(* from the sizes and what the errors subtract only adds up.               *)
THEOREM TotalIsHonest ==
    ASSUME (FileSize + 1) * NumOutputs < Modulus
    PROVE  Spec => []TotalsShowErrors
<1>1. Init => Balanced /\ Prefixes
  <2> SUFFICES ASSUME Init PROVE Balanced /\ Prefixes
    OBVIOUS
  <2>1. CountedUnits = {} /\ ReturnedError = {} /\ data_transfer = 0
    BY DEF Init, CountedUnits, ReturnedError
  <2>2. data_transfer = Cardinality(CountedUnits) - Cardinality(ReturnedError) + 0 * Modulus
    BY <2>1, FS_EmptySet, ReadvAssumption
  <2>3. Balanced
    BY <2>2 DEF Balanced
  <2>4. /\ \A r \in Receivers : size[r] = total_processed[r]
        /\ \A n \in Nodes, o \in Offsets : o < size[n] => content[n][o] = o
        /\ Busy = {}
    BY ReadvAssumption DEF Init, Receivers, Nodes, Offsets, Busy
  <2>5. Prefixes
    BY <2>4 DEF Prefixes
  <2> QED BY <2>3, <2>5
<1>2. IInv /\ Balanced /\ Prefixes => TotalsShowErrors
  <2> SUFFICES ASSUME IInv, Balanced, Prefixes, Stopped, ~short,
                      data_transfer = (FileSize * NumOutputs) % Modulus,
                      NEW n \in Receivers
               PROVE  Complete(n)
    BY DEF TotalsShowErrors
  <2> DEFINE c == Cardinality(CountedUnits)
             e == Cardinality(ReturnedError)
             t == NumOutputs * FileSize
  <2>1. c \in Nat /\ e \in Nat /\ t \in Nat /\ c <= t /\ e <= NumOutputs
    BY FiniteCounts, ReadvAssumption
  <2>2. t + NumOutputs < Modulus
    <3>1. (FileSize + 1) * NumOutputs = NumOutputs * FileSize + NumOutputs
      BY ReadvAssumption
    <3> QED BY <3>1
  <2>3. data_transfer = t
    <3>1. FileSize * NumOutputs = t
      BY ReadvAssumption
    <3>2. t % Modulus = t
      <4> HIDE DEF t
      <4> QED BY <2>1, <2>2, ReadvAssumption
    <3> QED BY <3>1, <3>2
  <2>4. PICK q \in Int : data_transfer = c - e + q * Modulus
    BY DEF Balanced
  <2>5. c = t /\ e = 0
    <3> HIDE DEF c, e, t
    <3>1. q * Modulus = (t - c) + e /\ (t - c) + e >= 0 /\ (t - c) + e < Modulus
      BY <2>1, <2>2, <2>3, <2>4, ReadvAssumption
    <3>2. q = 0
      <4>1. CASE q >= 1
        <5>1. q * Modulus >= Modulus
          BY <4>1, ReadvAssumption
        <5> QED BY <2>1, <3>1, <5>1, ReadvAssumption
      <4>2. CASE q <= -1
        <5>1. q * Modulus <= -Modulus
          BY <4>2, ReadvAssumption
        <5> QED BY <2>1, <3>1, <5>1, ReadvAssumption
      <4> QED BY <4>1, <4>2
    <3>3. (t - c) + e = 0
      BY <3>1, <3>2, ReadvAssumption
    <3> QED BY <2>1, <3>3
  <2>6. CountedUnits = Receivers \X Offsets
    <3> DEFINE all == Receivers \X Offsets
    <3>1. IsFiniteSet(all) /\ Cardinality(all) = Cardinality(CountedUnits)
          /\ CountedUnits \in SUBSET all
      BY <2>5, FiniteCounts DEF CountedUnits
    <3> HIDE DEF all
    <3>2. CountedUnits = all
      BY <3>1, FS_Subset
    <3> QED BY <3>2 DEF all
  <2>7. /\ n \in Nodes /\ size[n] \in 0 .. FileSize /\ size[n] = total_processed[n]
        /\ \A o \in Offsets : o < size[n] => content[n][o] = o
    BY DEF Receivers, Nodes, Prefixes, IInv, TypeOK
  <2>8. size[n] = FileSize
    <3>1. CASE FileSize = 0
      BY <2>7, <3>1
    <3>2. CASE FileSize # 0
      <4>1. FileSize - 1 \in Offsets
        BY <3>2, ReadvAssumption DEF Offsets
      <4>2. <<n, FileSize - 1>> \in CountedUnits
        BY <2>6, <4>1
      <4>3. total_processed[n] >= file_sz[n] /\ FileSize - 1 < file_sz[n]
        BY <4>2 DEF CountedUnits
      <4>4. file_sz[n] \in Int /\ total_processed[n] \in Int
        BY DEF IInv, TypeOK
      <4> QED BY <2>7, <4>3, <4>4, ReadvAssumption
    <3> QED BY <3>1, <3>2
  <2>9. \A o \in Offsets : o < FileSize
    BY ReadvAssumption DEF Offsets
  <2> QED BY <2>7, <2>8, <2>9 DEF Complete
<1> QED BY <1>1, <1>2, SumStep, Invariance, PTL DEF Spec

-----------------------------------------------------------------------------
(* A call of a copy takes that copy on and leaves the others where they    *)
(* are.                                                                    *)
LEMMA CopyAdvances ==
    ASSUME IInv, NEW r \in Receivers, CopyFails(r) \/ Preadv(r) \/ Pwritev(r)
    PROVE  /\ UNCHANGED <<round, pending>>
           /\ Stage(r)' > Stage(r)
           /\ \A q \in Receivers : Stage(q)' >= Stage(q)
<1>1. /\ phase \in [Receivers -> {"idle", "read", "write", "end"}]
      /\ total_processed \in [Receivers -> Nat] /\ FileSize \in Nat
  BY ReadvAssumption DEF IInv, TypeOK
<1>2. r \in Busy
  BY DEF CopyFails, Preadv, Pwritev, Busy
<1>3. /\ total_processed[r] \in Nat /\ file_sz[r] \in Nat
      /\ total_processed[r] < file_sz[r] /\ file_sz[r] <= FileSize
  BY <1>2, BusyCopy
<1>4. Window(r) \in Nat \ {0} /\ total_processed[r] + Window(r) <= file_sz[r]
  BY <1>3, WindowBounds
<1>5. /\ UNCHANGED <<round, pending>>
      /\ \A q \in Receivers : q # r =>
            phase'[q] = phase[q] /\ total_processed'[q] = total_processed[q]
  BY <1>1 DEF CopyFails, Preadv, Pwritev
<1>6. Stage(r)' \in Nat /\ Stage(r)' > Stage(r)
  <2>1. CASE CopyFails(r)
    <3>1. phase'[r] = "end" /\ phase[r] \in {"read", "write"}
      BY <1>1, <1>2, <2>1 DEF CopyFails, Busy
    <3>2. Stage(r)' = 2 * FileSize + 3
      BY <3>1 DEF Stage
    <3>3. Stage(r) <= 2 * total_processed[r] + 2 /\ Stage(r) \in Nat
      BY <1>3, <3>1 DEF Stage
    <3>. QED
      BY <1>1, <1>3, <3>2, <3>3
  <2>2. CASE Preadv(r)
    <3>1. phase'[r] = "write" /\ phase[r] = "read"
          /\ total_processed'[r] = total_processed[r]
      BY <1>1, <2>2 DEF Preadv
    <3>. QED
      BY <1>3, <3>1 DEF Stage
  <2>3. CASE Pwritev(r)
    <3>1. /\ phase[r] = "write" /\ phase'[r] \in {"read", "end"}
          /\ total_processed'[r] = total_processed[r] + Window(r)
      BY <1>1, <2>3 DEF Pwritev
    <3>. QED
      BY <1>1, <1>3, <1>4, <3>1 DEF Stage
  <2>. QED
    BY <2>1, <2>2, <2>3
<1>7. ASSUME NEW q \in Receivers PROVE Stage(q)' >= Stage(q)
  <2>1. Stage(q) \in Nat
    BY <1>1 DEF Stage
  <2>2. CASE q = r
    BY <1>6, <2>1, <2>2
  <2>3. CASE q # r
    <3>1. Stage(q)' = Stage(q)
      BY <1>5, <2>3 DEF Stage
    <3>. QED
      BY <2>1, <3>1
  <2>. QED
    BY <2>2, <2>3
<1>. QED
  BY <1>5, <1>6, <1>7

(* Every step brings the call nearer to its end, whatever fails: a copy    *)
(* never processes an empty window, nor more than there is.                *)
THEOREM CallAdvances == Spec => Advances
<1>. DEFINE A == \/ round' > round
                 \/ round' = round /\ pending' \subseteq pending /\ pending' # pending
                 \/ /\ UNCHANGED <<round, pending>>
                    /\ \A r \in Receivers : Stage(r)' >= Stage(r)
                    /\ \E r \in Receivers : Stage(r)' > Stage(r)
<1>1. ASSUME IInv, Next PROVE A \/ UNCHANGED vars
  <2>1. ASSUME NEW i \in pending, SkipIteration(i) \/ StartCopy(i) PROVE A
    BY <2>1 DEF SkipIteration, StartCopy
  <2>2. ASSUME NEW r \in Receivers, CopyFails(r) \/ Preadv(r) \/ Pwritev(r) PROVE A
    BY <1>1, <2>2, CopyAdvances
  <2>3. CASE NextRound
    <3>1. round \in Nat
      BY <1>1, Rounds DEF IInv, TypeOK
    <3>. QED
      BY <2>3, <3>1 DEF NextRound
  <2>4. CASE Terminated
    BY <2>4 DEF Terminated
  <2>. QED
    BY <1>1, <2>1, <2>2, <2>3, <2>4 DEF Next
<1>2. IInv /\ [Next]_vars => [A]_vars
  BY <1>1
<1>. QED
  BY <1>2, Invariance, PTL DEF Spec, Advances
=============================================================================
