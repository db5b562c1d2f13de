------------------------ MODULE EventBroadcasterProofs ------------------------
(***************************************************************************)
(* Theorems about the event loop, for any clients, messages, queue size    *)
(* and bound on faults: the types, that reading and writing alternate,     *)
(* that no client gets a message twice, out of order or not at all, and    *)
(* that the clients left at the end of the input were sent everything.     *)
(*                                                                         *)
(* The invariant is about files: a file has one request out at most, with  *)
(* the kernel or completed; the input is alone if it has one; and a client *)
(* is behind by one message exactly while its write is not done.           *)
(*                                                                         *)
(* The last section is about the ring buffer.                              *)
(***************************************************************************)
EXTENDS EventBroadcaster, RingBuffer, FiniteSetTheorems, SequenceTheorems, TLAPS

Values == Messages \cup {Empty, Cut, Chatter}

(* The buffer in use: a read gets a new one, and the writes write it. *)
Last == Len(buffers)

ClientRequest(c, call, buf) == [type |-> "write", call |-> call, fd |-> c, buf |-> buf]

IsRequest(r, buf) ==
    \/ r = ReadRequest(buf)
    \/ \E c \in Clients, call \in {"read", "write"} : r = ClientRequest(c, call, buf)

(* The files with a request out: with the kernel, and completed. *)
Fds(requests) == {r.fd : r \in requests}
DoneFds(completions) == {x[1].fd : x \in completions}
FdsOut == Fds(inflight) \cup DoneFds(cq)

OnePerFile ==
    /\ \A r \in inflight : IsRequest(r, Last)
    /\ \A x \in cq : IsRequest(x[1], Last) /\ x[2] \in {"ok", "eof", "again", "err"}
    /\ \A r, s \in inflight : r.fd = s.fd => r = s
    /\ \A x, y \in cq : x[1].fd = y[1].fd => x = y
    /\ Fds(inflight) \cap DoneFds(cq) = {}

(* Reading or writing. *)
Phase ==
    /\ FdsOut = {Input} \/ FdsOut \subseteq outputFDs
    /\ pc # "exited" => writes_pending = Cardinality(FdsOut \ {Input})
    /\ pc = "run" /\ FdsOut = {} => outputFDs = {}
    /\ pc = "exited" => FdsOut = {}
    /\ pc = "done" /\ ~gaveUp => FdsOut = {}

(* A message was read and its writes are not submitted yet. *)
MessageRead == \E x \in cq : x[1].fd = Input /\ x[2] = "ok"

(* The write of the last message to c is not done. *)
Behind(c) ==
    \/ MessageRead
    \/ c \in Fds(inflight)
    \/ \E x \in cq : x[1].fd = c /\ x[2] \in {"again", "err"}

Data ==
    ~answered =>
        /\ \A c \in Clients :
               /\ Len(received[c]) <= said
               /\ \A i \in 1 .. Len(received[c]) : received[c][i] \in {i, Cut}
        /\ pc # "exited" => \A c \in outputFDs :
               /\ Behind(c) => Len(received[c]) + 1 = said
               /\ ~Behind(c) => Len(received[c]) = said
        /\ MessageRead \/ FdsOut \cap Clients # {} => buffers[Last] = said

IInv ==
    /\ TypeOK
    /\ received \in [Clients -> Seq(Values)]
    /\ buffers # <<>>
    /\ answered \in BOOLEAN /\ gaveUp \in BOOLEAN
    /\ OnePerFile
    /\ Phase
    /\ Data

-----------------------------------------------------------------------------
(* Constants are in range. *)
LEMMA Constants ==
    /\ IsFiniteSet(Clients) /\ Cardinality(Clients) \in Nat
    /\ Duplex \subseteq Clients /\ Input \notin Clients
    /\ NumMessages \in Nat /\ Entries \in Nat /\ MaxFaults \in Nat
  BY EventAssumption, FS_CardinalityType

(* What a request is: the read of the input, or the write of a client. *)
LEMMA RequestFields ==
    ASSUME NEW r, NEW buf, IsRequest(r, buf)
    PROVE  /\ r.buf = buf /\ r.fd \in Clients \cup {Input}
           /\ r.type \in {"read", "write"} /\ r.call \in {"read", "write"}
           /\ r.type = "read" <=> r.fd = Input
           /\ r.type = "write" <=> r.fd \in Clients
           /\ r.fd = Input => r = ReadRequest(buf) /\ r.call = "read"
           /\ IsRequest([r EXCEPT !.call = "read"], buf)
           /\ [r EXCEPT !.call = "read"].fd = r.fd
           /\ [r EXCEPT !.call = "read"].type = r.type
           /\ buf \in DOMAIN buffers => r \in Requests
<1>1. CASE r = ReadRequest(buf)
  <2>1. [r EXCEPT !.call = "read"] = r
    BY <1>1 DEF ReadRequest
  <2>2. /\ r.buf = buf /\ r.fd = Input /\ r.type = "read" /\ r.call = "read"
        /\ buf \in DOMAIN buffers => r \in Requests
    BY <1>1 DEF ReadRequest, Requests
  <2>. QED
    BY <1>1, <2>1, <2>2, Constants
<1>2. ASSUME NEW c \in Clients, NEW call \in {"read", "write"},
             r = ClientRequest(c, call, buf)
      PROVE  /\ r.buf = buf /\ r.fd = c /\ r.type = "write" /\ r.call = call
             /\ [r EXCEPT !.call = "read"] = ClientRequest(c, "read", buf)
             /\ [r EXCEPT !.call = "read"].fd = c
             /\ [r EXCEPT !.call = "read"].type = "write"
             /\ buf \in DOMAIN buffers => r \in Requests
  BY <1>2 DEF ClientRequest, Requests
<1>3. CASE \E c \in Clients, call \in {"read", "write"} : r = ClientRequest(c, call, buf)
  <2>1. PICK c \in Clients, call \in {"read", "write"} : r = ClientRequest(c, call, buf)
    BY <1>3
  <2>2. IsRequest([r EXCEPT !.call = "read"], buf)
    BY <1>2, <2>1 DEF IsRequest
  <2>. QED
    BY <1>2, <2>1, <2>2, Constants
<1>. QED
  BY <1>1, <1>3 DEF IsRequest

(* The files of a set with one request more or less. *)
LEMMA Files ==
    ASSUME NEW S, NEW r
    PROVE  /\ Fds(S \cup {r}) = Fds(S) \cup {r.fd}
           /\ r \in S /\ (\A s \in S : s.fd = r.fd => s = r) => Fds(S \ {r}) = Fds(S) \ {r.fd}
           /\ Fds(S) = {} <=> S = {}
  BY DEF Fds

(* The files of a set with one completion more or less. *)
LEMMA DoneFiles ==
    ASSUME NEW S, NEW x
    PROVE  /\ DoneFds(S \cup {x}) = DoneFds(S) \cup {x[1].fd}
           /\ x \in S /\ (\A y \in S : y[1].fd = x[1].fd => y = x)
                  => DoneFds(S \ {x}) = DoneFds(S) \ {x[1].fd}
           /\ DoneFds(S) = {} <=> S = {}
  BY DEF DoneFds

(* The buffer in use is one of the buffers. *)
LEMMA LastBuffer ==
    ASSUME buffers \in Seq(Messages \cup {Empty, Chatter}), buffers # <<>>
    PROVE  Last \in Nat /\ Last \in DOMAIN buffers
  BY EmptySeq, LenProperties DEF Last

(* The files with a request out are finitely many. *)
LEMMA FilesOut ==
    ASSUME OnePerFile
    PROVE  /\ FdsOut \subseteq Clients \cup {Input}
           /\ IsFiniteSet(FdsOut) /\ Cardinality(FdsOut \ {Input}) \in 0 .. Cardinality(Clients)
<1>1. FdsOut \subseteq Clients \cup {Input}
  <2>1. ASSUME NEW r, IsRequest(r, Last) PROVE r.fd \in Clients \cup {Input}
    BY <2>1, RequestFields
  <2>. QED
    BY <2>1 DEF OnePerFile, FdsOut, Fds, DoneFds
<1>2. IsFiniteSet(Clients \cup {Input})
  BY Constants, FS_AddElement
<1>3. IsFiniteSet(FdsOut)
  BY <1>1, <1>2, FS_Subset
<1>4. FdsOut \ {Input} \subseteq Clients
  BY <1>1
<1>5. /\ IsFiniteSet(FdsOut \ {Input})
      /\ Cardinality(FdsOut \ {Input}) <= Cardinality(Clients)
  BY <1>4, Constants, FS_Subset
<1>. QED
  BY <1>1, <1>3, <1>5, Constants, FS_CardinalityType

-----------------------------------------------------------------------------
(* The invariant holds at the start. *)
LEMMA Initially == Init => IInv
<1>. SUFFICES ASSUME Init PROVE IInv
  OBVIOUS
<1>. USE DEF Init
<1>1. Last = 1 /\ buffers # <<>> /\ buffers \in Seq(Messages \cup {Empty, Chatter})
      /\ DOMAIN buffers = {1} /\ cq = {}
  BY DEF Last
<1>2. DoneFds(cq) = {} /\ (pc = "run" => FdsOut = {Input}) /\ (pc = "exited" => FdsOut = {})
  <2>1. DoneFds(cq) = {}
    BY <1>1 DEF DoneFds
  <2>2. ReadRequest(1).fd = Input
    BY DEF ReadRequest
  <2>3. Fds({ReadRequest(1)}) = {Input} /\ Fds({}) = {}
    BY <2>2 DEF Fds
  <2>. QED
    BY <2>1, <2>3 DEF FdsOut
<1>3. inflight \subseteq Requests
  BY <1>1 DEF ReadRequest, Requests
<1>4. TypeOK
  BY <1>1, <1>3, Constants DEF TypeOK
<1>5. OnePerFile
  BY <1>1, <1>2 DEF OnePerFile, IsRequest
<1>6. Phase
  <2>1. {Input} \ {Input} = {} /\ Cardinality({}) = 0
    BY FS_EmptySet
  <2>. QED
    BY <1>2, <2>1 DEF Phase
<1>7. Data
  <2>1. ~MessageRead /\ \A c \in Clients : ~Behind(c)
    BY <1>1, <1>2, Constants DEF MessageRead, Behind, FdsOut
  <2>2. FdsOut \cap Clients = {}
    BY <1>2, Constants
  <2>3. \A c \in Clients : received[c] = <<>>
    OBVIOUS
  <2>. QED
    BY <2>1, <2>2, <2>3 DEF Data
<1>8. received \in [Clients -> Seq(Values)]
  OBVIOUS
<1>. QED
  BY <1>1, <1>4, <1>5, <1>6, <1>7, <1>8 DEF IInv

(* A request is completed: its file still has one out. *)
LEMMA CompleteStep ==
    ASSUME IInv, NEW r \in inflight, NEW res \in {"ok", "eof", "again", "err"},
           Complete(r, res), Len(buffers') = Len(buffers), gaveUp' = gaveUp
    PROVE  /\ IsRequest(r, Last) /\ r.fd \in FdsOut
           /\ pc # "exited" /\ FdsOut' = FdsOut
           /\ OnePerFile' /\ Phase'
           /\ \A c \in Clients \ {r.fd} : (Behind(c)' <=> Behind(c) \/ MessageRead')
           /\ r.fd = Input =>
                  /\ FdsOut = {Input} /\ (MessageRead' <=> res = "ok")
                  /\ \A c \in Clients : ~Behind(c)
           /\ r.fd \in Clients =>
                  /\ FdsOut \subseteq outputFDs /\ ~MessageRead'
                  /\ Behind(r.fd) /\ (Behind(r.fd)' <=> res \in {"again", "err"})
<1>. DEFINE x == <<r, res>>
<1>1. /\ inflight' = inflight \ {r} /\ cq' = cq \cup {x}
      /\ UNCHANGED <<pc, outputFDs, writes_pending>>
      /\ x[1] = r /\ x[2] = res /\ Last' = Last
  BY DEF Complete, loopVars, Last
<1>2. OnePerFile /\ Phase /\ IsRequest(r, Last)
  BY DEF IInv, OnePerFile
<1>3. /\ r.fd \in Fds(inflight) /\ r.fd \in FdsOut /\ r.fd \in Clients \cup {Input}
      /\ r.fd \notin DoneFds(cq)
  <2>1. r.fd \in Fds(inflight)
    BY DEF Fds
  <2>2. r.fd \in Clients \cup {Input}
    BY <1>2, RequestFields
  <2>. QED
    BY <1>2, <2>1, <2>2 DEF FdsOut, OnePerFile
<1>4. Fds(inflight') = Fds(inflight) \ {r.fd} /\ DoneFds(cq') = DoneFds(cq) \cup {r.fd}
  <2>1. \A s \in inflight : s.fd = r.fd => s = r
    BY <1>2 DEF OnePerFile
  <2>2. Fds(inflight \ {r}) = Fds(inflight) \ {r.fd}
    BY <2>1, Files
  <2>3. DoneFds(cq \cup {x}) = DoneFds(cq) \cup {x[1].fd}
    <3>. HIDE DEF x
    <3>. QED
      BY DoneFiles
  <2>. QED
    BY <1>1, <2>2, <2>3
<1>5. FdsOut' = FdsOut
  BY <1>3, <1>4 DEF FdsOut
<1>. HIDE DEF x
<1>6. OnePerFile'
  <2>1. \A y \in cq : y[1].fd # r.fd
    BY <1>3 DEF DoneFds
  <2>2. \A y, z \in cq' : y[1].fd = z[1].fd => y = z
    BY <1>1, <1>2, <2>1 DEF OnePerFile
  <2>3. \A s \in inflight' : IsRequest(s, Last)
    BY <1>1, <1>2 DEF OnePerFile
  <2>4. \A y \in cq' : IsRequest(y[1], Last) /\ y[2] \in {"ok", "eof", "again", "err"}
    BY <1>1, <1>2 DEF OnePerFile
  <2>5. Fds(inflight') \cap DoneFds(cq') = {}
    BY <1>2, <1>4 DEF OnePerFile
  <2>6. \A s, t \in inflight' : s.fd = t.fd => s = t
    BY <1>1, <1>2 DEF OnePerFile
  <2>. QED
    BY <1>1, <2>2, <2>3, <2>4, <2>5, <2>6 DEF OnePerFile
<1>7. Phase' /\ pc # "exited"
  BY <1>1, <1>2, <1>3, <1>5 DEF Phase
<1>8. MessageRead' <=> MessageRead \/ (r.fd = Input /\ res = "ok")
  BY <1>1 DEF MessageRead
<1>9. ASSUME NEW c \in Clients, c # r.fd
      PROVE  Behind(c)' <=> Behind(c) \/ MessageRead'
  <2>1. c \in Fds(inflight') <=> c \in Fds(inflight)
    BY <1>4, <1>9
  <2>2. (\E y \in cq' : y[1].fd = c /\ y[2] \in {"again", "err"})
            <=> \E y \in cq : y[1].fd = c /\ y[2] \in {"again", "err"}
    BY <1>1, <1>9
  <2>. QED
    BY <1>8, <2>1, <2>2 DEF Behind
<1>10. ASSUME r.fd = Input
       PROVE  /\ FdsOut = {Input} /\ (MessageRead' <=> res = "ok")
              /\ \A c \in Clients : ~Behind(c)
  <2>1. FdsOut = {Input}
    BY <1>2, <1>3, <1>10, Constants DEF Phase, IInv, TypeOK
  <2>2. DoneFds(cq) = {} /\ Fds(inflight) = {Input}
    BY <1>3, <1>10, <2>1 DEF FdsOut
  <2>3. cq = {}
    BY <2>2 DEF DoneFds
  <2>. QED
    BY <1>8, <1>10, <2>1, <2>2, <2>3, Constants DEF MessageRead, Behind
<1>11. ASSUME r.fd \in Clients
       PROVE  /\ FdsOut \subseteq outputFDs /\ ~MessageRead'
              /\ Behind(r.fd) /\ (Behind(r.fd)' <=> res \in {"again", "err"})
  <2>1. FdsOut \subseteq outputFDs /\ Input \notin FdsOut
    BY <1>2, <1>3, <1>11, Constants DEF Phase, IInv, TypeOK
  <2>2. ~MessageRead /\ ~MessageRead'
    <3>1. \A y \in cq : y[1].fd # Input
      BY <2>1 DEF FdsOut, DoneFds
    <3>. QED
      BY <1>8, <1>11, <3>1, Constants DEF MessageRead
  <2>3. r.fd \notin Fds(inflight')
    BY <1>4
  <2>4. (\E y \in cq' : y[1].fd = r.fd /\ y[2] \in {"again", "err"}) <=> res \in {"again", "err"}
    <3>1. \A y \in cq : y[1].fd # r.fd
      BY <1>3 DEF DoneFds
    <3>. QED
      BY <1>1, <3>1
  <2>. QED
    BY <1>3, <2>1, <2>2, <2>3, <2>4 DEF Behind
<1>. QED
  BY <1>2, <1>3, <1>5, <1>6, <1>7, <1>9, <1>10, <1>11

(* A completion is taken: its file has no request out any more. *)
LEMMA TakeStep ==
    ASSUME IInv, NEW r, NEW res, Take(r, res)
    PROVE  /\ pc = "run" /\ IsRequest(r, Last) /\ r.fd \in FdsOut
           /\ res \in {"ok", "eof", "again", "err"}
           /\ r.fd \notin Fds(inflight) /\ r.fd \notin DoneFds(cq')
           /\ DoneFds(cq') = DoneFds(cq) \ {r.fd}
           /\ \A x \in cq' : x \in cq
           /\ r.type = "read" =>
                  /\ r.fd = Input /\ FdsOut = {Input} /\ inflight = {} /\ cq' = {}
                  /\ (MessageRead <=> res = "ok")
                  /\ \A c \in Clients : Behind(c) <=> res = "ok"
           /\ r.type = "write" =>
                  /\ r.fd \in Clients /\ FdsOut \subseteq outputFDs /\ r.fd \in outputFDs
                  /\ ~MessageRead
                  /\ \A x \in cq' : x[1].fd # Input
                  /\ writes_pending = Cardinality(FdsOut)
                  /\ Behind(r.fd) <=> res \in {"again", "err"}
                  /\ \A c \in Clients \ {r.fd} :
                         Behind(c) <=> \/ c \in Fds(inflight)
                                       \/ \E x \in cq' : x[1].fd = c /\ x[2] \in {"again", "err"}
<1>. DEFINE x == <<r, res>>
<1>1. pc = "run" /\ x \in cq /\ cq' = cq \ {x} /\ x[1] = r /\ x[2] = res
  BY DEF Take
<1>. HIDE DEF x
<1>2. OnePerFile /\ Phase /\ IsRequest(r, Last) /\ res \in {"ok", "eof", "again", "err"}
  BY <1>1 DEF IInv, OnePerFile
<1>3. r.fd \in DoneFds(cq) /\ r.fd \in FdsOut /\ r.fd \notin Fds(inflight)
  <2>1. r.fd \in DoneFds(cq)
    BY <1>1 DEF DoneFds
  <2>. QED
    BY <1>2, <2>1 DEF OnePerFile, FdsOut
<1>4. \A y \in cq' : y \in cq /\ y[1].fd # r.fd
  BY <1>1, <1>2 DEF OnePerFile
<1>5. r.fd \notin DoneFds(cq') /\ DoneFds(cq') = DoneFds(cq) \ {r.fd}
  BY <1>1, <1>4 DEF DoneFds
<1>6. ASSUME r.type = "read"
      PROVE  /\ r.fd = Input /\ FdsOut = {Input} /\ inflight = {} /\ cq' = {}
             /\ (MessageRead <=> res = "ok")
             /\ \A c \in Clients : Behind(c) <=> res = "ok"
  <2>1. r.fd = Input
    BY <1>2, <1>6, RequestFields
  <2>2. FdsOut = {Input}
    BY <1>2, <1>3, <2>1, Constants DEF Phase, IInv, TypeOK
  <2>3. Fds(inflight) = {} /\ DoneFds(cq') = {} /\ DoneFds(cq) = {Input}
    BY <1>3, <1>5, <2>1, <2>2 DEF FdsOut
  <2>4. inflight = {} /\ cq' = {}
    BY <2>3, Files, DoneFiles
  <2>5. cq = {x}
    BY <1>1, <2>4
  <2>6. MessageRead <=> res = "ok"
    BY <1>1, <2>1, <2>5 DEF MessageRead
  <2>. QED
    BY <1>1, <2>1, <2>2, <2>3, <2>4, <2>5, <2>6, Constants DEF Behind
<1>7. ASSUME r.type = "write"
      PROVE  /\ r.fd \in Clients /\ FdsOut \subseteq outputFDs /\ r.fd \in outputFDs
             /\ ~MessageRead
             /\ \A y \in cq' : y[1].fd # Input
             /\ writes_pending = Cardinality(FdsOut)
             /\ Behind(r.fd) <=> res \in {"again", "err"}
             /\ \A c \in Clients \ {r.fd} :
                    Behind(c) <=> \/ c \in Fds(inflight)
                                  \/ \E y \in cq' : y[1].fd = c /\ y[2] \in {"again", "err"}
  <2>1. r.fd \in Clients
    BY <1>2, <1>7, RequestFields
  <2>2. FdsOut \subseteq outputFDs /\ Input \notin FdsOut
    BY <1>2, <1>3, <2>1, Constants DEF Phase, IInv, TypeOK
  <2>3. \A y \in cq : y[1].fd # Input
    BY <2>2 DEF FdsOut, DoneFds
  <2>4. ~MessageRead
    BY <2>3 DEF MessageRead
  <2>5. writes_pending = Cardinality(FdsOut)
    <3>1. FdsOut \ {Input} = FdsOut
      BY <2>2
    <3>. QED
      BY <1>1, <1>2, <3>1 DEF Phase
  <2>6. Behind(r.fd) <=> res \in {"again", "err"}
    BY <1>1, <1>2, <1>3, <2>4 DEF Behind, OnePerFile
  <2>7. ASSUME NEW c \in Clients, c # r.fd
        PROVE  Behind(c) <=> \/ c \in Fds(inflight)
                             \/ \E y \in cq' : y[1].fd = c /\ y[2] \in {"again", "err"}
    BY <1>1, <1>4, <2>4, <2>7 DEF Behind
  <2>. QED
    BY <1>3, <1>4, <2>1, <2>2, <2>3, <2>4, <2>5, <2>6, <2>7
<1>. QED
  BY <1>1, <1>2, <1>3, <1>4, <1>5, <1>6, <1>7

(* The next read is started when nothing is out. *)
LEMMA RestartStep ==
    ASSUME IInv, inflight = {}, cq' = {}, StartRead(inflight)
    PROVE  /\ buffers' \in Seq(Messages \cup {Empty, Chatter}) /\ buffers' # <<>>
           /\ inflight' \subseteq Requests' /\ cq' \subseteq Requests' \X {"ok", "eof", "again", "err"}
           /\ FdsOut' = {Input} /\ OnePerFile'
           /\ Cardinality((FdsOut \ {Input})') = 0
           /\ ~MessageRead' /\ \A c \in Clients : ~Behind(c)'
<1>. DEFINE r == ReadRequest(Len(buffers) + 1)
<1>1. inflight' = {r} /\ buffers' = Append(buffers, Empty) /\ r.fd = Input
  BY DEF StartRead, ReadRequest
<1>2. /\ buffers' \in Seq(Messages \cup {Empty, Chatter}) /\ buffers' # <<>>
      /\ Len(buffers') = Len(buffers) + 1
      /\ Len(buffers) + 1 \in DOMAIN buffers'
  BY <1>1 DEF IInv, TypeOK
<1>3. r \in Requests'
  BY <1>2 DEF Requests, ReadRequest
<1>4. IsRequest(r, Last')
  BY <1>2 DEF IsRequest, Last
<1>. HIDE DEF r
<1>5. Fds(inflight') = {Input} /\ DoneFds(cq') = {} /\ FdsOut' = {Input}
  BY <1>1 DEF Fds, DoneFds, FdsOut
<1>6. OnePerFile'
  BY <1>1, <1>4, <1>5 DEF OnePerFile
<1>7. ~MessageRead' /\ \A c \in Clients : ~Behind(c)'
  BY <1>5, Constants DEF MessageRead, Behind
<1>8. Cardinality((FdsOut \ {Input})') = 0
  <2>1. (FdsOut \ {Input})' = {}
    BY <1>5
  <2>. QED
    BY <2>1, FS_EmptySet
<1>. QED
  BY <1>1, <1>2, <1>3, <1>5, <1>6, <1>7, <1>8

(* -EAGAIN: the request is submitted again. *)
LEMMA SubmitAgainKeeps == ASSUME IInv, NEW r, SubmitAgain(r) PROVE IInv'
<1>. DEFINE again == [r EXCEPT !.call = "read"]
<1>1. /\ Take(r, "again") /\ inflight' = inflight \cup {again}
      /\ cq' = cq \ {<<r, "again">>}
      /\ UNCHANGED <<pc, outputFDs, writes_pending, buffers, said, received,
                     faults, answered, gaveUp>>
  BY DEF SubmitAgain, Take, loopVars, dataVars, faultVars
<1>2. /\ IsRequest(r, Last) /\ r.fd \in FdsOut /\ r.fd \notin Fds(inflight)
      /\ r.fd \notin DoneFds(cq') /\ DoneFds(cq') = DoneFds(cq) \ {r.fd}
      /\ \A x \in cq' : x \in cq
      /\ r.type = "read" => /\ inflight = {} /\ cq' = {} /\ r.fd = Input /\ ~MessageRead
                            /\ \A c \in Clients : ~Behind(c)
      /\ r.type = "write" =>
             /\ r.fd \in Clients /\ ~MessageRead /\ Behind(r.fd)
             /\ \A x \in cq' : x[1].fd # Input
             /\ \A c \in Clients \ {r.fd} :
                    Behind(c) <=> \/ c \in Fds(inflight)
                                  \/ \E x \in cq' : x[1].fd = c /\ x[2] \in {"again", "err"}
  BY <1>1, TakeStep
<1>3. OnePerFile /\ Last' = Last /\ Last \in DOMAIN buffers
  BY <1>1, LastBuffer DEF IInv, TypeOK, Last
<1>4. /\ IsRequest(again, Last) /\ again.fd = r.fd /\ again \in Requests
      /\ r.type \in {"read", "write"}
  BY <1>2, <1>3, RequestFields
<1>. HIDE DEF again
<1>5. Fds(inflight') = Fds(inflight) \cup {r.fd}
  <2>1. Fds(inflight \cup {again}) = Fds(inflight) \cup {again.fd}
    BY Files
  <2>. QED
    BY <1>1, <1>4, <2>1
<1>6. FdsOut' = FdsOut
  BY <1>2, <1>5 DEF FdsOut
<1>7. TypeOK'
  <2>1. inflight' \subseteq Requests' /\ cq' \subseteq Requests' \X {"ok", "eof", "again", "err"}
    BY <1>1, <1>4 DEF IInv, TypeOK, Requests
  <2>. QED
    BY <1>1, <2>1 DEF IInv, TypeOK
<1>8. OnePerFile'
  <2>1. \A s \in inflight : s.fd # r.fd
    BY <1>2 DEF Fds
  <2>2. \A s, t \in inflight' : s.fd = t.fd => s = t
    BY <1>1, <1>3, <1>4, <2>1 DEF OnePerFile
  <2>3. \A s \in inflight' : IsRequest(s, Last)
    BY <1>1, <1>3, <1>4 DEF OnePerFile
  <2>4. Fds(inflight') \cap DoneFds(cq') = {}
    BY <1>2, <1>3, <1>5 DEF OnePerFile
  <2>5. /\ \A x \in cq' : IsRequest(x[1], Last) /\ x[2] \in {"ok", "eof", "again", "err"}
        /\ \A x, y \in cq' : x[1].fd = y[1].fd => x = y
    BY <1>2, <1>3 DEF OnePerFile
  <2>. QED
    BY <1>3, <2>2, <2>3, <2>4, <2>5 DEF OnePerFile
<1>9. Phase'
  BY <1>1, <1>6 DEF IInv, Phase
<1>10. ~MessageRead' /\ ~MessageRead
  BY <1>2, <1>4 DEF MessageRead
<1>11. ASSUME NEW c \in Clients PROVE Behind(c)' <=> Behind(c)
  <2>1. CASE r.type = "read"
    BY <1>2, <1>5, <1>10, <2>1, Constants, Files DEF Behind
  <2>2. CASE r.type = "write" /\ c = r.fd
    BY <1>2, <1>5, <2>2 DEF Behind
  <2>3. CASE r.type = "write" /\ c # r.fd
    BY <1>2, <1>5, <1>10, <2>3 DEF Behind
  <2>. QED
    BY <1>4, <2>1, <2>2, <2>3
<1>12. Data'
  BY <1>1, <1>3, <1>6, <1>10, <1>11 DEF IInv, Data, TypeOK
<1>. QED
  BY <1>1, <1>7, <1>8, <1>9, <1>12 DEF IInv

(* The loop is left when the input has ended or its read failed. *)
LEMMA EndOfInputKeeps == ASSUME IInv, NEW r, EndOfInput(r) PROVE IInv'
<1>1. PICK res \in {"err", "eof"} : Take(r, res)
  BY DEF EndOfInput
<1>2. /\ r.type = "read" /\ pc' = "done" /\ cq' = cq \ {<<r, res>>}
      /\ UNCHANGED <<outputFDs, writes_pending, buffers, said, received, inflight,
                     faults, answered, gaveUp>>
  BY <1>1 DEF EndOfInput, Take, dataVars, faultVars
<1>3. /\ pc = "run" /\ r.fd = Input /\ FdsOut = {Input} /\ inflight = {} /\ cq' = {}
      /\ ~MessageRead /\ \A c \in Clients : ~Behind(c)
  BY <1>1, <1>2, TakeStep
<1>4. FdsOut' = {} /\ Fds(inflight') = {} /\ DoneFds(cq') = {} /\ Last' = Last
  BY <1>2, <1>3 DEF FdsOut, Fds, DoneFds, Last
<1>5. TypeOK'
  BY <1>2, <1>3 DEF IInv, TypeOK, Requests
<1>6. OnePerFile'
  BY <1>2, <1>3, <1>4 DEF OnePerFile
<1>7. Phase'
  <2>1. (FdsOut \ {Input})' = FdsOut \ {Input}
    BY <1>3, <1>4
  <2>. QED
    BY <1>2, <1>3, <1>4, <2>1 DEF IInv, Phase
<1>8. ~MessageRead' /\ \A c \in Clients : ~Behind(c)'
  BY <1>3, <1>4 DEF MessageRead, Behind
<1>9. Data'
  BY <1>2, <1>3, <1>4, <1>8 DEF IInv, Data, TypeOK
<1>. QED
  BY <1>2, <1>5, <1>6, <1>7, <1>9 DEF IInv

(* A message was read: its writes are submitted. *)
LEMMA FanOutKeeps == ASSUME IInv, NEW r, FanOut(r) PROVE IInv'
<1>. DEFINE writes == {WriteRequest(c, r.buf) : c \in outputFDs}
<1>1. /\ Take(r, "ok") /\ r.type = "read" /\ cq' = cq \ {<<r, "ok">>}
      /\ writes_pending' = Cardinality(outputFDs)
      /\ \/ pc' = "exited" /\ UNCHANGED inflight
         \/ pc' = pc /\ inflight' = inflight \cup writes
      /\ UNCHANGED <<outputFDs, buffers, said, received, faults, answered, gaveUp>>
  BY DEF FanOut, Take, dataVars, faultVars
<1>2. /\ pc = "run" /\ IsRequest(r, Last) /\ r.fd = Input /\ FdsOut = {Input}
      /\ inflight = {} /\ cq' = {} /\ MessageRead /\ \A c \in Clients : Behind(c)
  BY <1>1, TakeStep
<1>3. /\ r.buf = Last /\ Last' = Last /\ Last \in DOMAIN buffers
      /\ outputFDs \subseteq Clients
  BY <1>1, <1>2, RequestFields, LastBuffer DEF IInv, TypeOK, Last
<1>4. \A w \in writes : IsRequest(w, Last) /\ w \in Requests
  <2>1. ASSUME NEW c \in outputFDs
        PROVE  IsRequest(WriteRequest(c, Last), Last) /\ WriteRequest(c, Last) \in Requests
    BY <1>3 DEF IsRequest, ClientRequest, WriteRequest, Requests
  <2>. QED
    BY <1>3, <2>1
<1>5. /\ Fds(writes) = outputFDs /\ Fds({}) = {}
      /\ \A v, w \in writes : v.fd = w.fd => v = w
  <2>1. \A c : WriteRequest(c, r.buf).fd = c
    BY DEF WriteRequest
  <2>2. Fds(writes) = outputFDs
    BY <2>1 DEF Fds
  <2>3. \A v, w \in writes : v.fd = w.fd => v = w
    BY <2>1
  <2>. QED
    BY <2>2, <2>3 DEF Fds
<1>6. inflight' = {} \/ (inflight' = writes /\ pc' = "run")
  BY <1>1, <1>2
<1>. HIDE DEF writes
<1>7. DoneFds(cq') = {} /\ FdsOut' = Fds(inflight') /\ FdsOut' \subseteq outputFDs
  BY <1>2, <1>5, <1>6 DEF FdsOut, DoneFds
<1>8. IsFiniteSet(outputFDs) /\ Cardinality(outputFDs) \in 0 .. Cardinality(Clients)
  <2>1. IsFiniteSet(outputFDs) /\ Cardinality(outputFDs) <= Cardinality(Clients)
    BY <1>3, Constants, FS_Subset
  <2>. QED
    BY <2>1, Constants, FS_CardinalityType
<1>9. TypeOK'
  <2>1. inflight' \subseteq Requests' /\ cq' \subseteq Requests' \X {"ok", "eof", "again", "err"}
    BY <1>1, <1>2, <1>4, <1>6 DEF Requests
  <2>2. pc' \in {"run", "done", "exited"}
    BY <1>1, <1>2
  <2>. QED
    BY <1>1, <1>8, <2>1, <2>2 DEF IInv, TypeOK
<1>10. OnePerFile'
  BY <1>2, <1>3, <1>4, <1>5, <1>6, <1>7 DEF OnePerFile
<1>11. Phase'
  <2>1. CASE inflight' = writes /\ pc' = "run"
    <3>1. FdsOut' = outputFDs /\ FdsOut' \ {Input} = outputFDs
      BY <1>3, <1>5, <1>7, <2>1, Constants
    <3>. QED
      BY <1>1, <2>1, <3>1 DEF Phase
  <2>2. CASE pc' = "exited" /\ inflight' = {}
    BY <1>1, <1>5, <1>7, <2>2 DEF Phase
  <2>3. CASE pc' = pc /\ inflight' = {} /\ inflight' = inflight \cup writes
    <3>1. writes = {}
      BY <2>3
    <3>2. outputFDs = {} /\ FdsOut' = {} /\ FdsOut' \ {Input} = {}
      BY <1>5, <1>7, <2>3, <3>1
    <3>. QED
      BY <1>1, <1>2, <2>3, <3>2 DEF Phase
  <2>. QED
    BY <1>1, <1>2, <1>6, <2>1, <2>2, <2>3
<1>12. Data'
  <2>1. ASSUME ~answered, pc' # "exited", NEW c \in outputFDs
        PROVE  Behind(c)' /\ Len(received[c]) + 1 = said
    <3>1. c \in Fds(inflight')
      BY <1>1, <1>2, <1>5, <2>1
    <3>. QED
      BY <1>2, <1>3, <2>1, <3>1 DEF IInv, Data, Behind
  <2>2. ~answered => buffers[Last] = said
    BY <1>2 DEF IInv, Data
  <2>. QED
    BY <1>1, <1>3, <2>1, <2>2 DEF IInv, Data, TypeOK
<1>. QED
  BY <1>1, <1>9, <1>10, <1>11, <1>12 DEF IInv

(* A write is over, its client kept or removed; after the last one the     *)
(* next read is started.                                                   *)
LEMMA WriteOverKeeps ==
    ASSUME IInv, NEW r, NEW res, Take(r, res), r.type = "write",
           writes_pending' = writes_pending - 1,
           \/ res \in {"ok", "eof"} /\ outputFDs' = outputFDs
           \/ res = "err" /\ outputFDs' = outputFDs \ {r.fd},
           \/ writes_pending' = 0 /\ StartRead(inflight)
           \/ /\ writes_pending' # 0 \/ outputFDs' = {}
              /\ UNCHANGED <<buffers, inflight>>,
           UNCHANGED <<pc, said, received, faultVars>>
    PROVE  IInv'
<1>1. cq' = cq \ {<<r, res>>} /\ UNCHANGED <<pc, said, received, faults, answered, gaveUp>>
  BY DEF Take, faultVars
<1>2. /\ pc = "run" /\ r.fd \in FdsOut /\ r.fd \notin Fds(inflight)
      /\ r.fd \notin DoneFds(cq') /\ DoneFds(cq') = DoneFds(cq) \ {r.fd}
      /\ \A x \in cq' : x \in cq
      /\ r.fd \in Clients /\ FdsOut \subseteq outputFDs /\ r.fd \in outputFDs
      /\ ~MessageRead /\ \A x \in cq' : x[1].fd # Input
      /\ writes_pending = Cardinality(FdsOut)
      /\ Behind(r.fd) <=> res \in {"again", "err"}
      /\ \A c \in Clients \ {r.fd} :
             Behind(c) <=> \/ c \in Fds(inflight)
                           \/ \E x \in cq' : x[1].fd = c /\ x[2] \in {"again", "err"}
  BY TakeStep
<1>3. outputFDs \subseteq Clients /\ outputFDs' \subseteq outputFDs
  BY DEF IInv, TypeOK
<1>4. Fds(inflight) \cup DoneFds(cq') = FdsOut \ {r.fd}
  BY <1>2 DEF FdsOut
<1>5. /\ IsFiniteSet(FdsOut) /\ Cardinality(FdsOut \ {r.fd}) = writes_pending'
      /\ writes_pending' \in 0 .. Cardinality(Clients) /\ Input \notin FdsOut
  <2>1. IsFiniteSet(FdsOut)
    BY FilesOut DEF IInv
  <2>2. Cardinality(FdsOut \ {r.fd}) = Cardinality(FdsOut) - 1
        /\ IsFiniteSet(FdsOut \ {r.fd})
    BY <1>2, <2>1, FS_RemoveElement
  <2>3. Cardinality(FdsOut \ {r.fd}) = writes_pending'
    BY <1>2, <2>2
  <2>4. writes_pending' \in Nat /\ writes_pending' <= Cardinality(Clients)
    BY <2>2, <2>3, FS_CardinalityType, Constants DEF IInv, TypeOK
  <2>5. Input \notin FdsOut
    BY <1>2, <1>3, Constants
  <2>. QED
    BY <2>1, <2>3, <2>4, <2>5, Constants
<1>6. ASSUME NEW c \in outputFDs', ~answered
      PROVE  /\ Len(received[c]) \in Nat /\ said \in Nat
             /\ c # r.fd \/ Len(received[c]) = said
             /\ Behind(c) => Len(received[c]) + 1 = said
             /\ ~Behind(c) => Len(received[c]) = said
  BY <1>2, <1>3, <1>6 DEF IInv, Data, TypeOK
<1>7. CASE writes_pending' = 0 /\ StartRead(inflight)
  <2>1. FdsOut \ {r.fd} = {}
    BY <1>2, <1>4, <1>5, <1>7, FS_RemoveElement, FS_EmptySet
  <2>2. inflight = {} /\ cq' = {}
    BY <1>4, <2>1, Files, DoneFiles
  <2>3. /\ buffers' \in Seq(Messages \cup {Empty, Chatter}) /\ buffers' # <<>>
        /\ inflight' \subseteq Requests' /\ cq' \subseteq Requests' \X {"ok", "eof", "again", "err"}
        /\ FdsOut' = {Input} /\ OnePerFile'
        /\ Cardinality((FdsOut \ {Input})') = 0
        /\ ~MessageRead' /\ \A c \in Clients : ~Behind(c)'
    BY <1>7, <2>2, RestartStep
  <2>4. TypeOK'
    BY <1>1, <1>3, <1>5, <2>3 DEF IInv, TypeOK
  <2>5. Phase'
    BY <1>1, <1>2, <1>7, <2>3 DEF Phase
  <2>6. \A c \in outputFDs' : ~Behind(c)
    <3>1. \A c \in Clients \ {r.fd} : ~Behind(c)
      BY <1>2, <2>1, <2>2, <1>4
    <3>. QED
      BY <1>2, <1>3, <3>1
  <2>7. Data'
    <3>1. (FdsOut \cap Clients)' = {}
      BY <2>3, Constants
    <3>. QED
      BY <1>1, <1>3, <1>6, <2>3, <2>6, <3>1 DEF IInv, Data
  <2>. QED
    BY <1>1, <2>3, <2>4, <2>5, <2>7 DEF IInv
<1>8. CASE /\ writes_pending' # 0 \/ outputFDs' = {}
           /\ UNCHANGED <<buffers, inflight>>
  <2>1. Last' = Last /\ FdsOut' = FdsOut \ {r.fd} /\ Fds(inflight') = Fds(inflight)
    BY <1>4, <1>8 DEF Last, FdsOut, Fds
  <2>2. TypeOK'
    <3>1. inflight' \subseteq Requests' /\ cq' \subseteq Requests' \X {"ok", "eof", "again", "err"}
      BY <1>2, <1>8 DEF IInv, TypeOK, Requests
    <3>. QED
      BY <1>1, <1>3, <1>5, <1>8, <3>1 DEF IInv, TypeOK
  <2>3. OnePerFile'
    <3>1. Fds(inflight') \cap DoneFds(cq') = {}
      BY <1>2, <2>1 DEF IInv, OnePerFile
    <3>. QED
      BY <1>2, <1>8, <2>1, <3>1 DEF IInv, OnePerFile
  <2>4. Phase'
    <3>1. (FdsOut \ {Input})' = FdsOut \ {r.fd}
      BY <1>5, <2>1
    <3>2. FdsOut' \subseteq outputFDs'
      BY <1>2, <2>1
    <3>3. FdsOut' = {} => outputFDs' = {}
      <4>1. FdsOut' = {} => writes_pending' = 0
        BY <1>5, <2>1, FS_EmptySet
      <4>. QED
        BY <1>8, <4>1
    <3>. QED
      BY <1>1, <1>2, <1>5, <3>1, <3>2, <3>3 DEF Phase
  <2>5. ~MessageRead'
    BY <1>2 DEF MessageRead
  <2>6. ASSUME NEW c \in outputFDs' PROVE Behind(c)' <=> Behind(c)
    <3>1. CASE c = r.fd
      <4>1. c \notin DoneFds(cq') /\ c \notin Fds(inflight')
        BY <1>2, <2>1, <3>1
      <4>2. ~Behind(c)'
        BY <2>5, <4>1 DEF Behind, DoneFds
      <4>3. ~Behind(c)
        BY <1>2, <2>6, <3>1
      <4>. QED
        BY <4>2, <4>3
    <3>2. CASE c # r.fd
      BY <1>2, <1>3, <2>1, <2>5, <3>2 DEF Behind
    <3>. QED
      BY <3>1, <3>2
  <2>7. (FdsOut \cap Clients)' # {} => FdsOut \cap Clients # {}
    BY <2>1
  <2>8. Data'
    BY <1>1, <1>6, <1>8, <2>1, <2>5, <2>6, <2>7 DEF IInv, Data
  <2>. QED
    BY <1>1, <1>8, <2>2, <2>3, <2>4, <2>8 DEF IInv
<1>. QED
  BY <1>7, <1>8

(* Waiting fails: the loop is left. *)
LEMMA WaitFailsKeeps == ASSUME IInv, WaitFails \/ UNCHANGED vars PROVE IInv'
<1>1. /\ faults' \in 0 .. MaxFaults
      /\ (pc = "run" /\ pc' = "done" /\ gaveUp') \/ (UNCHANGED <<pc, gaveUp>>)
      /\ UNCHANGED <<outputFDs, writes_pending, buffers, said, received, inflight, cq, answered>>
      /\ pc' \in {"run", "done", "exited"} /\ gaveUp' \in BOOLEAN
  <2>1. faults \in 0 .. MaxFaults /\ pc \in {"run", "done", "exited"} /\ gaveUp \in BOOLEAN
    BY DEF IInv, TypeOK
  <2>2. CASE WaitFails
    <3>1. faults' \in 0 .. MaxFaults
      BY <2>1, <2>2, Constants DEF WaitFails
    <3>. QED
      BY <2>2, <3>1 DEF WaitFails, dataVars
  <2>3. CASE UNCHANGED vars
    <3>1. UNCHANGED <<pc, outputFDs, writes_pending, buffers, said, received, inflight, cq,
                      faults, answered, gaveUp>>
      BY <2>3 DEF vars, loopVars, dataVars, faultVars
    <3>. QED
      BY <2>1, <3>1
  <2>. QED
    BY <2>2, <2>3
<1>2. /\ Last' = Last /\ FdsOut' = FdsOut /\ MessageRead' = MessageRead
      /\ \A c \in Clients : Behind(c)' = Behind(c)
  BY <1>1 DEF Last, FdsOut, Fds, DoneFds, MessageRead, Behind
<1>3. TypeOK'
  BY <1>1 DEF IInv, TypeOK, Requests
<1>4. OnePerFile'
  BY <1>1, <1>2 DEF IInv, OnePerFile, Fds, DoneFds
<1>5. Phase'
  BY <1>1, <1>2 DEF IInv, Phase
<1>6. Data'
  <2>1. outputFDs \subseteq Clients /\ pc' # "exited" => pc # "exited"
    BY <1>1 DEF IInv, TypeOK
  <2>. QED
    BY <1>1, <1>2, <2>1 DEF IInv, Data, TypeOK
<1>. QED
  BY <1>1, <1>3, <1>4, <1>5, <1>6 DEF IInv

(* What every completion keeps of the types. *)
LEMMA CompleteTypes ==
    ASSUME IInv, NEW r \in inflight, NEW res \in {"ok", "eof", "again", "err"},
           Complete(r, res), DOMAIN buffers' = DOMAIN buffers,
           buffers' \in Seq(Messages \cup {Empty, Chatter}),
           said' \in 0 .. NumMessages, faults' \in 0 .. MaxFaults,
           received' \in [Clients -> Seq(Values)]
    PROVE  TypeOK'
<1>1. Requests' = Requests
  BY DEF Requests
<1>2. inflight' \subseteq Requests /\ cq' \subseteq Requests \X {"ok", "eof", "again", "err"}
  BY DEF Complete, IInv, TypeOK
<1>3. UNCHANGED <<pc, outputFDs, writes_pending>>
  BY DEF Complete, loopVars
<1>. QED
  BY <1>1, <1>2, <1>3 DEF IInv, TypeOK, Values

(* The input returns a message, or its end. *)
LEMMA ReadInputKeeps == ASSUME IInv, NEW r \in inflight, ReadInput(r) PROVE IInv'
<1>1. /\ r.fd = Input /\ UNCHANGED <<received, faults, answered, gaveUp>>
      /\ \/ /\ said < NumMessages /\ Complete(r, "ok") /\ said' = said + 1
            /\ buffers' = [buffers EXCEPT ![r.buf] = said']
         \/ Complete(r, "eof") /\ UNCHANGED <<said, buffers>>
  BY DEF ReadInput, faultVars
<1>2. /\ buffers \in Seq(Messages \cup {Empty, Chatter}) /\ buffers # <<>>
      /\ said \in 0 .. NumMessages /\ faults \in 0 .. MaxFaults /\ outputFDs \subseteq Clients
      /\ received \in [Clients -> Seq(Values)]
  BY DEF IInv, TypeOK
<1>3. IsRequest(r, Last) /\ r.buf = Last /\ Last \in DOMAIN buffers
  BY <1>2, RequestFields, LastBuffer DEF IInv, OnePerFile
<1>4. CASE /\ said < NumMessages /\ Complete(r, "ok") /\ said' = said + 1
           /\ buffers' = [buffers EXCEPT ![r.buf] = said']
  <2>1. /\ said' \in 0 .. NumMessages /\ said' \in Messages
    BY <1>2, <1>4, Constants DEF Messages
  <2>2. /\ buffers' \in Seq(Messages \cup {Empty, Chatter}) /\ buffers' # <<>>
        /\ DOMAIN buffers' = DOMAIN buffers /\ Len(buffers') = Len(buffers)
        /\ buffers'[Last] = said'
    BY <1>2, <1>3, <1>4, <2>1, ExceptSeq, EmptySeq DEF Last
  <2>3. /\ OnePerFile' /\ Phase' /\ FdsOut' = FdsOut /\ FdsOut = {Input}
        /\ MessageRead' /\ \A c \in Clients : Behind(c)' /\ ~Behind(c)
        /\ UNCHANGED <<pc, outputFDs>>
    BY <1>1, <1>4, <2>2, CompleteStep, Constants DEF Complete, loopVars
  <2>4. TypeOK'
    BY <1>1, <1>2, <1>4, <2>1, <2>2, CompleteTypes
  <2>5. Last' = Last
    BY <2>2 DEF Last
  <2>6. Data'
    <3>1. \A c \in Clients : Len(received[c]) \in Nat /\ said \in Nat
      BY <1>2, Constants
    <3>. QED
      BY <1>1, <1>2, <1>4, <2>2, <2>3, <2>5, <3>1 DEF IInv, Data
  <2>. QED
    BY <1>1, <1>2, <2>2, <2>3, <2>4, <2>6 DEF IInv
<1>5. CASE Complete(r, "eof") /\ UNCHANGED <<said, buffers>>
  <2>1. /\ OnePerFile' /\ Phase' /\ FdsOut' = FdsOut /\ FdsOut = {Input}
        /\ ~MessageRead' /\ \A c \in Clients : (Behind(c)' <=> Behind(c))
        /\ UNCHANGED <<pc, outputFDs>>
    BY <1>1, <1>5, CompleteStep, Constants DEF Complete, loopVars
  <2>2. TypeOK'
    BY <1>1, <1>2, <1>5, CompleteTypes
  <2>3. Data'
    BY <1>1, <1>2, <1>5, <2>1, Constants DEF IInv, Data, Last
  <2>. QED
    BY <1>1, <1>2, <1>5, <2>1, <2>2, <2>3 DEF IInv
<1>. QED
  BY <1>1, <1>4, <1>5

(* A client is sent the message, or a part of it. *)
LEMMA WriteClientKeeps == ASSUME IInv, NEW r \in inflight, WriteClient(r) PROVE IInv'
<1>. DEFINE c == r.fd
<1>1. PICK v \in {buffers[r.buf], Cut} :
          /\ received' = [received EXCEPT ![r.fd] = Append(@, v)]
          /\ faults' \in 0 .. MaxFaults
  <2>1. faults \in 0 .. MaxFaults
    BY DEF IInv, TypeOK
  <2>2. faults < MaxFaults => faults + 1 \in 0 .. MaxFaults
    BY <2>1, Constants
  <2>. QED
    BY <2>1, <2>2 DEF WriteClient
<1>2. /\ r.call = "write" /\ Complete(r, "ok")
      /\ UNCHANGED <<pc, outputFDs, buffers, said, answered, gaveUp>>
  BY DEF WriteClient, Complete, loopVars
<1>3. /\ buffers \in Seq(Messages \cup {Empty, Chatter}) /\ buffers # <<>>
      /\ said \in 0 .. NumMessages /\ outputFDs \subseteq Clients
      /\ received \in [Clients -> Seq(Values)]
  BY DEF IInv, TypeOK
<1>4. /\ IsRequest(r, Last) /\ r.buf = Last /\ Last \in DOMAIN buffers /\ Last' = Last
      /\ r.fd \in Clients
  <2>1. IsRequest(r, Last)
    BY DEF IInv, OnePerFile
  <2>2. r.fd = Input => r = ReadRequest(Last) /\ r.call = "read"
    BY <2>1, RequestFields
  <2>3. r.fd # Input
    BY <1>2, <2>2
  <2>. QED
    BY <1>2, <1>3, <2>1, <2>3, RequestFields, LastBuffer DEF Last
<1>5. /\ OnePerFile' /\ Phase' /\ FdsOut' = FdsOut /\ c \in FdsOut /\ pc # "exited"
      /\ ~MessageRead' /\ FdsOut \subseteq outputFDs /\ Behind(c) /\ ~Behind(c)'
      /\ \A d \in Clients \ {c} : (Behind(d)' <=> Behind(d))
  BY <1>2, <1>4, CompleteStep
<1>6. v \in Values
  <2>1. buffers[Last] \in Messages \cup {Empty, Chatter}
    BY <1>3, <1>4, ElementOfSeq DEF Last
  <2>. QED
    BY <1>4, <2>1 DEF Values
<1>7. /\ received' \in [Clients -> Seq(Values)]
      /\ received'[c] = Append(received[c], v)
      /\ \A d \in Clients \ {c} : received'[d] = received[d]
  <2>1. Append(received[c], v) \in Seq(Values)
    BY <1>3, <1>4, <1>6
  <2>. QED
    BY <1>1, <1>3, <1>4, <2>1
<1>8. TypeOK'
  BY <1>1, <1>2, <1>3, <1>7, CompleteTypes
<1>9. Data'
  <2>1. SUFFICES ASSUME ~answered PROVE Data'
    BY <1>2 DEF Data
  <2>2. Len(received[c]) + 1 = said /\ buffers[Last] = said
    BY <1>4, <1>5, <2>1 DEF IInv, Data
  <2>3. Len(received[c]) \in Nat /\ received[c] \in Seq(Values)
    BY <1>3, <1>4
  <2>4. /\ Len(received'[c]) = said
        /\ \A i \in 1 .. Len(received[c]) : received'[c][i] = received[c][i]
        /\ received'[c][said] = v
    BY <1>6, <1>7, <2>2, <2>3
  <2>5. v \in {said, Cut}
    BY <1>1, <1>4, <2>2
  <2>6. \A i \in 1 .. Len(received'[c]) : received'[c][i] \in {i, Cut}
    <3>1. SUFFICES ASSUME NEW i \in 1 .. Len(received'[c]) PROVE received'[c][i] \in {i, Cut}
      OBVIOUS
    <3>2. CASE i = said
      BY <2>4, <2>5, <3>2
    <3>3. CASE i # said
      <4>1. i \in 1 .. Len(received[c])
        BY <2>2, <2>3, <2>4, <3>1, <3>3
      <4>. QED
        BY <1>4, <2>1, <2>4, <4>1 DEF IInv, Data
    <3>. QED
      BY <3>2, <3>3
  <2>7. \A d \in Clients :
            /\ Len(received'[d]) <= said
            /\ \A i \in 1 .. Len(received'[d]) : received'[d][i] \in {i, Cut}
    <3>1. said <= said
      BY <1>3, Constants
    <3>. QED
      BY <1>7, <2>1, <2>4, <2>6, <3>1 DEF IInv, Data
  <2>8. \A d \in outputFDs : /\ Behind(d)' => Len(received'[d]) + 1 = said
                             /\ ~Behind(d)' => Len(received'[d]) = said
    BY <1>3, <1>5, <1>7, <2>1, <2>4 DEF IInv, Data
  <2>. QED
    BY <1>2, <1>4, <1>5, <2>2, <2>7, <2>8 DEF Data
<1>. QED
  BY <1>2, <1>3, <1>5, <1>7, <1>8, <1>9 DEF IInv

(* A request fails, would block, or asks a client that cannot be read. *)
LEMMA FailKeeps ==
    ASSUME IInv, NEW r \in inflight, RefuseRead(r) \/ Fail(r) PROVE IInv'
<1>1. PICK res \in {"again", "err"} : Complete(r, res)
  BY DEF RefuseRead, Fail
<1>2. /\ UNCHANGED <<pc, outputFDs, buffers, said, received, answered, gaveUp>>
      /\ faults' \in 0 .. MaxFaults
  <2>1. faults \in 0 .. MaxFaults
    BY DEF IInv, TypeOK
  <2>2. faults < MaxFaults => faults + 1 \in 0 .. MaxFaults
    BY <2>1, Constants
  <2>. QED
    BY <1>1, <2>1, <2>2 DEF RefuseRead, Fail, Complete, loopVars, dataVars, faultVars
<1>3. /\ IsRequest(r, Last) /\ r.fd \in Clients \cup {Input} /\ Last' = Last
  BY <1>2, RequestFields DEF IInv, OnePerFile, Last
<1>4. /\ OnePerFile' /\ Phase' /\ FdsOut' = FdsOut /\ pc # "exited"
      /\ ~MessageRead' /\ \A d \in Clients : (Behind(d)' <=> Behind(d))
  <2>1. /\ OnePerFile' /\ Phase' /\ FdsOut' = FdsOut /\ pc # "exited"
        /\ \A c \in Clients \ {r.fd} : (Behind(c)' <=> Behind(c) \/ MessageRead')
        /\ r.fd = Input => (MessageRead' <=> res = "ok")
        /\ r.fd \in Clients =>
               ~MessageRead' /\ Behind(r.fd) /\ (Behind(r.fd)' <=> res \in {"again", "err"})
    BY <1>1, <1>2, CompleteStep
  <2>2. ~MessageRead'
    BY <1>3, <2>1
  <2>. QED
    BY <2>1, <2>2
<1>5. TypeOK'
  BY <1>1, <1>2, CompleteTypes DEF IInv, TypeOK
<1>6. Data'
  BY <1>2, <1>3, <1>4 DEF IInv, Data, TypeOK
<1>. QED
  BY <1>2, <1>4, <1>5, <1>6 DEF IInv

(* A client answers the read its write was turned into. *)
LEMMA ReadClientKeeps == ASSUME IInv, NEW r \in inflight, ReadClient(r) PROVE IInv'
<1>1. /\ r.fd \in Clients /\ answered' = TRUE
      /\ UNCHANGED <<pc, outputFDs, said, received, faults, gaveUp>>
      /\ \/ Complete(r, "ok") /\ buffers' = [buffers EXCEPT ![r.buf] = Chatter]
         \/ Complete(r, "eof") /\ UNCHANGED buffers
  BY Constants DEF ReadClient, Complete, loopVars
<1>2. buffers \in Seq(Messages \cup {Empty, Chatter}) /\ buffers # <<>>
  BY DEF IInv, TypeOK
<1>3. r.buf = Last /\ Last \in DOMAIN buffers
  BY <1>2, RequestFields, LastBuffer DEF IInv, OnePerFile
<1>4. /\ buffers' \in Seq(Messages \cup {Empty, Chatter}) /\ buffers' # <<>>
      /\ DOMAIN buffers' = DOMAIN buffers /\ Len(buffers') = Len(buffers)
  <2>1. CASE buffers' = [buffers EXCEPT ![Last] = Chatter]
    BY <1>2, <1>3, <2>1, ExceptSeq, EmptySeq DEF Last
  <2>. QED
    BY <1>1, <1>2, <1>3, <2>1
<1>5. OnePerFile' /\ Phase'
  BY <1>1, <1>4, CompleteStep
<1>6. TypeOK'
  BY <1>1, <1>4, CompleteTypes DEF IInv, TypeOK
<1>7. Data'
  BY <1>1 DEF Data
<1>. QED
  BY <1>1, <1>4, <1>5, <1>6, <1>7 DEF IInv

-----------------------------------------------------------------------------
(* The invariant is inductive and holds for every value of the constants. *)
THEOREM Invariance == Spec => []IInv
<1>1. IInv /\ [Next]_vars => IInv'
  <2>. SUFFICES ASSUME IInv, [Next]_vars PROVE IInv'
    OBVIOUS
  <2>1. ASSUME NEW r, SubmitAgain(r) PROVE IInv'
    BY <2>1, SubmitAgainKeeps
  <2>2. ASSUME NEW r, RemoveClient(r) PROVE IInv'
    <3>1. /\ r.type = "write" /\ Take(r, "err")
          /\ outputFDs' = outputFDs \ {r.fd} /\ writes_pending' = writes_pending - 1
          /\ UNCHANGED <<pc, said, received, faultVars>>
      BY <2>2 DEF RemoveClient, Remaining, PendingAfterRemoval
    <3>2. \/ writes_pending' = 0 /\ StartRead(inflight)
          \/ /\ writes_pending' # 0 \/ outputFDs' = {}
             /\ UNCHANGED <<buffers, inflight>>
      BY <2>2 DEF RemoveClient, Restarts
    <3>. QED
      BY <3>1, <3>2, WriteOverKeeps
  <2>3. ASSUME NEW r, WriteDone(r) PROVE IInv'
    <3>1. PICK res \in {"ok", "eof"} : Take(r, res)
      BY <2>3 DEF WriteDone
    <3>2. /\ r.type = "write" /\ writes_pending' = writes_pending - 1
          /\ outputFDs' = outputFDs
          /\ UNCHANGED <<pc, said, received, faultVars>>
      BY <2>3 DEF WriteDone
    <3>3. \/ writes_pending' = 0 /\ StartRead(inflight)
          \/ /\ writes_pending' # 0 \/ outputFDs' = {}
             /\ UNCHANGED <<buffers, inflight>>
      BY <2>3 DEF WriteDone, AllWritten
    <3>. QED
      BY <3>1, <3>2, <3>3, WriteOverKeeps
  <2>4. ASSUME NEW r, EndOfInput(r) PROVE IInv'
    BY <2>4, EndOfInputKeeps
  <2>5. ASSUME NEW r, FanOut(r) PROVE IInv'
    BY <2>5, FanOutKeeps
  <2>6. ASSUME NEW r \in inflight, ReadInput(r) PROVE IInv'
    BY <2>6, ReadInputKeeps
  <2>7. ASSUME NEW r \in inflight, WriteClient(r) PROVE IInv'
    BY <2>7, WriteClientKeeps
  <2>8. ASSUME NEW r \in inflight, RefuseRead(r) \/ Fail(r) PROVE IInv'
    BY <2>8, FailKeeps
  <2>9. ASSUME NEW r \in inflight, ReadClient(r) PROVE IInv'
    BY <2>9, ReadClientKeeps
  <2>10. CASE WaitFails \/ UNCHANGED vars
    BY <2>10, WaitFailsKeeps
  <2>. QED
    BY <2>1, <2>2, <2>3, <2>4, <2>5, <2>6, <2>7, <2>8, <2>9, <2>10 DEF Next, Proceed
<1>. QED
  BY Initially, <1>1, PTL DEF Spec

(* Variables keep their types: writes_pending does not run below zero or   *)
(* over the number of clients, and requests name buffers there are.        *)
THEOREM TypeCorrect == Spec => []TypeOK
  BY Invariance, PTL DEF IInv

(* The requests of a type that are out, found by their files. *)
LEMMA OutstandingFiles ==
    ASSUME IInv
    PROVE  /\ Fds(Outstanding("write")) = FdsOut \ {Input}
           /\ \A r, s \in Outstanding("write") : r.fd = s.fd => r = s
           /\ \A r \in Outstanding("read") : r = ReadRequest(Last) /\ Input \in FdsOut
           /\ Outstanding("read") \cup Outstanding("write") = {} => FdsOut = {}
<1>. DEFINE out == inflight \cup {x[1] : x \in cq}
            writes == Outstanding("write")
            reads == Outstanding("read")
<1>1. Fds(out) = FdsOut
  BY DEF Fds, DoneFds, FdsOut
<1>2. \A r \in out : IsRequest(r, Last)
  BY DEF IInv, OnePerFile
<1>3. \A r, s \in out : r.fd = s.fd => r = s
  <2>1. \A r \in inflight, x \in cq : r.fd # x[1].fd
    BY DEF IInv, OnePerFile, Fds, DoneFds
  <2>. QED
    BY <2>1 DEF IInv, OnePerFile
<1>4. writes = {r \in out : r.type = "write"} /\ reads = {r \in out : r.type = "read"}
  BY DEF Outstanding
<1>. HIDE DEF out, writes, reads
<1>5. \A r \in out : /\ r.type = "write" <=> r.fd \in Clients
                     /\ r.type = "read" <=> r.fd = Input
                     /\ r.fd \in Clients \cup {Input}
                     /\ r.fd = Input => r = ReadRequest(Last)
  BY <1>2, RequestFields
<1>6. Fds(writes) = FdsOut \ {Input}
  <2>1. \A r \in out : r \in writes <=> r.fd # Input
    BY <1>4, <1>5, Constants
  <2>2. Fds(writes) \subseteq Fds(out) \ {Input}
    BY <1>4, <2>1 DEF Fds
  <2>3. \A f \in Fds(out) \ {Input} : f \in Fds(writes)
    BY <2>1 DEF Fds
  <2>. QED
    BY <1>1, <2>2, <2>3
<1>7. \A r \in reads : r = ReadRequest(Last) /\ Input \in FdsOut
  <2>1. \A r \in out : r.fd \in Fds(out)
    BY DEF Fds
  <2>. QED
    BY <1>1, <1>4, <1>5, <2>1
<1>8. reads \cup writes = {} => FdsOut = {}
  <2>1. reads \cup writes = {} => out = {}
    BY <1>4, <1>5
  <2>. QED
    BY <1>1, <2>1, Files
<1>. QED
  BY <1>3, <1>4, <1>6, <1>7, <1>8 DEF writes, reads

(* As many write requests are out as files wait for their write. *)
LEMMA OutstandingWrites ==
    ASSUME IInv
    PROVE  Cardinality(Outstanding("write")) = Cardinality(FdsOut \ {Input})
<1>. DEFINE files == FdsOut \ {Input}
            writes == Outstanding("write")
            of == [f \in files |-> CHOOSE r \in writes : r.fd = f]
<1>1. /\ Fds(writes) = files /\ IsFiniteSet(files)
      /\ \A r, s \in writes : r.fd = s.fd => r = s
  <2>1. IsFiniteSet(files)
    BY FilesOut, FS_Subset DEF IInv
  <2>. QED
    BY <2>1, OutstandingFiles
<1>. HIDE DEF files, writes
<1>2. \A f \in files : of[f] \in writes /\ of[f].fd = f
  BY <1>1 DEF Fds
<1>3. \A r \in writes : r.fd \in files /\ of[r.fd] = r
  <2>1. \A r \in writes : r.fd \in files
    BY <1>1 DEF Fds
  <2>. HIDE DEF of
  <2>. QED
    BY <1>1, <1>2, <2>1
<1>4. of \in Bijection(files, writes)
  <2>1. of \in [files -> writes]
    BY <1>2
  <2>. HIDE DEF of
  <2>2. of \in Injection(files, writes)
    BY <1>2, <2>1 DEF Injection, IsInjective
  <2>3. of \in Surjection(files, writes)
    BY <1>3, <2>1 DEF Surjection
  <2>. QED
    BY <2>2, <2>3 DEF Bijection
<1>5. ExistsBijection(files, writes)
  BY <1>4 DEF ExistsBijection
<1>6. Cardinality(writes) = Cardinality(files)
  BY <1>1, <1>5, FS_Bijection
<1>. QED
  BY <1>6 DEF files, writes

(* While the loop runs, writes_pending is the number of write requests     *)
(* that are out; one read is out or the writes of one message; and if      *)
(* nothing is out the last client is gone.                                 *)
THEOREM ReadsAndWritesAlternate == Spec => []Alternation
<1>1. IInv => Alternation
  <2>. SUFFICES ASSUME IInv, pc = "run"
                PROVE  LET reads == Outstanding("read")
                           writes == Outstanding("write")
                       IN  /\ writes_pending = Cardinality(writes)
                           /\ Cardinality(reads) <= 1
                           /\ reads = {} \/ writes = {}
                           /\ reads \cup writes = {} => outputFDs = {}
    BY DEF Alternation
  <2>. DEFINE reads == Outstanding("read")
              writes == Outstanding("write")
  <2>1. /\ Fds(writes) = FdsOut \ {Input}
        /\ \A r \in reads : r = ReadRequest(Last) /\ Input \in FdsOut
        /\ reads \cup writes = {} => FdsOut = {}
    BY OutstandingFiles
  <2>2. writes_pending = Cardinality(writes)
    BY OutstandingWrites DEF IInv, Phase
  <2>. HIDE DEF reads, writes
  <2>3. reads = {} \/ writes = {}
    <3>1. CASE FdsOut = {Input}
      <4>1. Fds(writes) = {}
        BY <2>1, <3>1
      <4>. QED
        BY <4>1, Files
    <3>2. CASE FdsOut \subseteq outputFDs
      <4>1. Input \notin FdsOut
        BY <3>2, Constants DEF IInv, TypeOK
      <4>. QED
        BY <2>1, <4>1
    <3>. QED
      BY <3>1, <3>2 DEF IInv, Phase
  <2>4. Cardinality(reads) <= 1
    <3>1. reads = {} \/ reads = {ReadRequest(Last)}
      BY <2>1
    <3>2. Cardinality({ReadRequest(Last)}) = 1 /\ Cardinality({}) = 0
      BY FS_EmptySet, FS_Singleton
    <3>. QED
      BY <3>1, <3>2
  <2>5. reads \cup writes = {} => outputFDs = {}
    BY <2>1 DEF IInv, Phase
  <2>. QED
    BY <2>2, <2>3, <2>4, <2>5 DEF reads, writes
<1>. QED
  BY Invariance, <1>1, PTL

(* A client gets every message once and in order up to its removal, until  *)
(* a client answers a read that was meant as a write.                      *)
THEOREM MessagesInOrder == Spec => []InOrder
<1>1. IInv => InOrder
  <2>. SUFFICES ASSUME IInv, ~answered, NEW c \in Clients, NEW i \in DOMAIN received[c]
                PROVE  received[c][i] \in {i, Cut}
    BY DEF InOrder
  <2>1. i \in 1 .. Len(received[c])
    BY LenProperties DEF IInv
  <2>. QED
    BY <2>1 DEF IInv, Data
<1>. QED
  BY Invariance, <1>1, PTL

(* When the input has ended nothing is left to the kernel, and the clients *)
(* left were sent every message.                                           *)
THEOREM EveryClientServed == Spec => []AllServed
<1>1. IInv => AllServed
  <2>. SUFFICES ASSUME IInv, pc = "done", ~gaveUp
                PROVE  /\ inflight = {} /\ cq = {}
                       /\ ~answered => \A c \in outputFDs : Len(received[c]) = said
    BY DEF AllServed
  <2>1. FdsOut = {}
    BY DEF IInv, Phase
  <2>2. inflight = {} /\ cq = {}
    BY <2>1, Files, DoneFiles DEF FdsOut
  <2>3. \A c : ~Behind(c)
    BY <2>1, <2>2 DEF Behind, MessageRead, FdsOut
  <2>. QED
    BY <2>2, <2>3 DEF IInv, Data
<1>. QED
  BY Invariance, <1>1, PTL

-----------------------------------------------------------------------------
(***************************************************************************)
(* The ring buffer, the other part of IOuring/ that main does not use: for *)
(* any items and any capacity but 0.  The two share no name and no state.  *)
(***************************************************************************)
USE RingAssumption

(* Up to twice the divisor, a remainder is a subtraction. *)
LEMMA ModOnce ==
    ASSUME NEW C \in Nat \ {0}, NEW a \in Nat, a < 2 * C
    PROVE  a % C = IF a < C THEN a ELSE a - C
<1>1. a % C \in 0 .. (C - 1)
  BY Z3
<1>2. a = C * (a \div C) + (a % C) /\ a \div C \in Int
  BY Z3
<1>. QED
  BY <1>1, <1>2, Z3

(* The next slot is the one behind, or the first. *)
LEMMA NextSlotValue ==
    ASSUME NEW i \in Slots
    PROVE  NextSlot(i) = IF i + 1 = Capacity THEN 0 ELSE i + 1
  BY ModOnce DEF NextSlot, Slots

(* The slot of the n-th item behind tail, for n up to the capacity. *)
LEMMA SlotValue ==
    ASSUME NEW t \in Slots, NEW n \in 0 .. Capacity
    PROVE  (t + n) % Capacity = IF t + n < Capacity THEN t + n ELSE t + n - Capacity
<1>. DEFINE a == t + n
<1>1. a \in Nat /\ a < 2 * Capacity /\ Capacity \in Nat \ {0}
  BY DEF Slots
<1>. HIDE DEF a
<1>2. a % Capacity = IF a < Capacity THEN a ELSE a - Capacity
  BY <1>1, ModOnce
<1>. QED
  BY <1>2 DEF a, Slots

(* Through every put (overwriting or not) and get, the three counters of   *)
(* the ring stay in step: head is size slots ahead of tail, round the end. *)
THEOREM RingTypeCorrect == RingSpec => []RingTypeOK
<1>1. RingInit => RingTypeOK
  <2>. SUFFICES ASSUME RingInit PROVE RingTypeOK
    OBVIOUS
  <2>1. (tail + size) % Capacity = 0
    BY SlotValue DEF RingInit, Slots
  <2>. QED
    BY <2>1 DEF RingInit, RingTypeOK, Slots
<1>2. RingTypeOK /\ [RingNext]_ringVars => RingTypeOK'
  <2>. SUFFICES ASSUME RingTypeOK, [RingNext]_ringVars PROVE RingTypeOK'
    OBVIOUS
  <2>1. ASSUME NEW item \in Items, put(item) PROVE RingTypeOK'
    <3>1. head' = IF head + 1 = Capacity THEN 0 ELSE head + 1
      BY <2>1, NextSlotValue DEF put, RingTypeOK
    <3>2. buffer' \in [Slots -> Items \cup {Nothing}] /\ answer' \in Items \cup {Nothing}
      BY <2>1 DEF put, RingTypeOK
    <3>3. head = IF tail + size < Capacity THEN tail + size ELSE tail + size - Capacity
      BY SlotValue DEF RingTypeOK
    <3>4. CASE isFull
      <4>1. tail' = (IF tail + 1 = Capacity THEN 0 ELSE tail + 1) /\ size' = size /\ size = Capacity
        BY <2>1, <3>4, NextSlotValue DEF put, RingTypeOK, TailPushed, isFull
      <4>2. tail' \in Slots /\ head' \in Slots
        BY <3>1, <4>1 DEF RingTypeOK, Slots
      <4>3. (tail' + size') % Capacity = IF tail' + size' < Capacity THEN tail' + size' ELSE tail' + size' - Capacity
        BY <4>1, <4>2, SlotValue DEF RingTypeOK
      <4>. QED
        BY <3>1, <3>2, <3>3, <4>1, <4>2, <4>3 DEF RingTypeOK, Slots
    <3>5. CASE ~isFull
      <4>1. tail' = tail /\ size' = size + 1 /\ size < Capacity
        BY <2>1, <3>5 DEF put, RingTypeOK, isFull
      <4>2. (tail' + size') % Capacity = IF tail' + size' < Capacity THEN tail' + size' ELSE tail' + size' - Capacity
        <5>1. tail' \in Slots /\ size' \in 0 .. Capacity
          BY <4>1 DEF RingTypeOK
        <5>. QED
          BY <5>1, SlotValue
      <4>3. head' = (tail' + size') % Capacity
        BY <3>1, <3>3, <4>1, <4>2 DEF RingTypeOK, Slots
      <4>4. size' \in 0 .. Capacity /\ tail' \in Slots /\ head' \in Slots
        BY <3>1, <4>1 DEF RingTypeOK, Slots
      <4>. QED
        BY <3>2, <4>3, <4>4 DEF RingTypeOK
    <3>. QED
      BY <3>4, <3>5
  <2>2. ASSUME get PROVE RingTypeOK'
    <3>1. tail' = (IF tail + 1 = Capacity THEN 0 ELSE tail + 1) /\ size' = size - 1 /\ size > 0
      BY <2>2, NextSlotValue DEF get, RingTypeOK, isEmpty
    <3>2. head = IF tail + size < Capacity THEN tail + size ELSE tail + size - Capacity
      BY SlotValue DEF RingTypeOK
    <3>3. tail' \in Slots /\ size' \in 0 .. Capacity
      BY <3>1 DEF RingTypeOK, Slots
    <3>4. (tail' + size') % Capacity = IF tail' + size' < Capacity THEN tail' + size' ELSE tail' + size' - Capacity
      BY <3>3, SlotValue
    <3>5. head' = (tail' + size') % Capacity
      BY <2>2, <3>1, <3>2, <3>4 DEF RingTypeOK, Slots, get
    <3>. QED
      BY <2>2, <3>3, <3>5 DEF RingTypeOK, get
  <2>3. ASSUME peek \/ Throws PROVE RingTypeOK'
    BY <2>3 DEF peek, Throws, RingTypeOK
  <2>4. CASE UNCHANGED ringVars
    BY <2>4 DEF ringVars, RingTypeOK
  <2>. QED
    BY <2>1, <2>2, <2>3, <2>4 DEF RingNext
<1>. QED
  BY <1>1, <1>2, PTL DEF RingSpec

-----------------------------------------------------------------------------
Stored == Items \cup {Nothing}

(* The n items from slot t on, round the end of array b. *)
QueueOf(b, t, n) == [i \in 1 .. n |-> b[(t + i - 1) % Capacity]]

(* Where the i-th item from slot t on is. *)
At(t, i) == IF t + i - 1 < Capacity THEN t + i - 1 ELSE t + i - 1 - Capacity

(* The slot of an item, with the wrap written as a case. *)
LEMMA AtValue ==
    ASSUME NEW t \in Slots, NEW i \in 1 .. Capacity
    PROVE  (t + i - 1) % Capacity = At(t, i) /\ At(t, i) \in Slots
<1>1. i - 1 \in 0 .. Capacity /\ t + (i - 1) = t + i - 1
  BY DEF Slots
<1>2. (t + (i - 1)) % Capacity =
          IF t + (i - 1) < Capacity THEN t + (i - 1) ELSE t + (i - 1) - Capacity
  BY <1>1, SlotValue
<1>. QED
  BY <1>1, <1>2 DEF At, Slots

(* The items as a sequence: its length, and where its i-th item is. *)
LEMMA QueueOfFacts ==
    ASSUME NEW b \in [Slots -> Stored], NEW t \in Slots, NEW n \in 0 .. Capacity
    PROVE  /\ QueueOf(b, t, n) \in Seq(Stored)
           /\ Len(QueueOf(b, t, n)) = n
           /\ \A i \in 1 .. n : QueueOf(b, t, n)[i] = b[At(t, i)]
<1>1. n \in Nat
  OBVIOUS
<1>2. \A i \in 1 .. n : /\ (t + i - 1) % Capacity = At(t, i)
                        /\ b[At(t, i)] \in Stored
  BY AtValue
<1>3. QueueOf(b, t, n) \in [1 .. n -> Stored]
  BY <1>2 DEF QueueOf
<1>4. QueueOf(b, t, n) \in Seq(Stored)
  BY <1>1, <1>3, SeqDef
<1>5. Len(QueueOf(b, t, n)) = n
  BY <1>1, <1>3, <1>4, LenProperties
<1>. QED
  BY <1>2, <1>4, <1>5 DEF QueueOf

(* Writing into the slot behind the last item appends. *)
LEMMA WriteAppends ==
    ASSUME NEW b \in [Slots -> Stored], NEW t \in Slots, NEW n \in 0 .. Capacity,
           n < Capacity, NEW x \in Stored
    PROVE  QueueOf([b EXCEPT ![At(t, n + 1)] = x], t, n + 1) = Append(QueueOf(b, t, n), x)
<1>. DEFINE c == [b EXCEPT ![At(t, n + 1)] = x]
            new == QueueOf(c, t, n + 1)
            old == QueueOf(b, t, n)
<1>1. n + 1 \in 1 .. Capacity /\ n + 1 \in 0 .. Capacity /\ At(t, n + 1) \in Slots
  BY AtValue
<1>2. c \in [Slots -> Stored]
  BY <1>1
<1>3. new \in Seq(Stored) /\ Len(new) = n + 1 /\ \A i \in 1 .. n + 1 : new[i] = c[At(t, i)]
  BY <1>1, <1>2, QueueOfFacts
<1>4. old \in Seq(Stored) /\ Len(old) = n /\ \A i \in 1 .. n : old[i] = b[At(t, i)]
  BY QueueOfFacts
<1>5. \A i \in 1 .. n : At(t, i) # At(t, n + 1) /\ At(t, i) \in Slots
  BY DEF At, Slots
<1>6. c[At(t, n + 1)] = x /\ \A j \in Slots : j # At(t, n + 1) => c[j] = b[j]
  BY <1>1
<1>. HIDE DEF c, new, old
<1>7. /\ \A i \in 1 .. n : new[i] = old[i]
      /\ new[n + 1] = x
  <2>1. ASSUME NEW i \in 1 .. n PROVE new[i] = old[i]
    <3>1. i \in 1 .. n + 1
      BY <1>1
    <3>. QED
      BY <3>1, <1>3, <1>4, <1>5, <1>6
  <2>2. n + 1 \in 1 .. n + 1
    BY <1>1
  <2>. QED
    BY <2>1, <2>2, <1>3, <1>6
<1>8. /\ Append(old, x) \in Seq(Stored) /\ Len(Append(old, x)) = n + 1
      /\ \A i \in 1 .. n : Append(old, x)[i] = old[i]
      /\ Append(old, x)[n + 1] = x
  BY <1>4, AppendProperties
<1>9. \A i \in 1 .. Len(new) : new[i] = Append(old, x)[i]
  <2>. SUFFICES ASSUME NEW i \in 1 .. (n + 1) PROVE new[i] = Append(old, x)[i]
    BY <1>3
  <2>1. i \in 1 .. n \/ i = n + 1
    BY <1>1
  <2>. QED
    BY <2>1, <1>7, <1>8
<1>10. new = Append(old, x)
  BY <1>3, <1>8, <1>9, SeqEqual
<1>. QED
  BY <1>10 DEF c, new, old

(* Moving on by a slot removes the first item. *)
LEMMA MoveDrops ==
    ASSUME NEW b \in [Slots -> Stored], NEW t \in Slots, NEW n \in 1 .. Capacity
    PROVE  /\ QueueOf(b, t, n) # <<>>
           /\ Head(QueueOf(b, t, n)) = b[t]
           /\ QueueOf(b, NextSlot(t), n - 1) = Tail(QueueOf(b, t, n))
<1>. DEFINE new == QueueOf(b, NextSlot(t), n - 1)
            old == QueueOf(b, t, n)
<1>1. n - 1 \in 0 .. Capacity /\ n \in 0 .. Capacity
  OBVIOUS
<1>2. NextSlot(t) = (IF t + 1 = Capacity THEN 0 ELSE t + 1) /\ NextSlot(t) \in Slots
  BY NextSlotValue DEF Slots
<1>3. new \in Seq(Stored) /\ Len(new) = n - 1
      /\ \A i \in 1 .. n - 1 : new[i] = b[At(NextSlot(t), i)]
  BY <1>1, <1>2, QueueOfFacts
<1>4. old \in Seq(Stored) /\ Len(old) = n /\ \A i \in 1 .. n : old[i] = b[At(t, i)]
  BY <1>1, QueueOfFacts
<1>5. old # <<>>
  BY <1>4, EmptySeq
<1>6. At(t, 1) = t
  BY DEF At, Slots
<1>7. Head(old) = b[t]
  BY <1>4, <1>5, <1>6
<1>8. \A i \in 1 .. n - 1 : At(NextSlot(t), i) = At(t, i + 1)
  BY <1>2 DEF At, Slots
<1>9. /\ Tail(old) \in Seq(Stored) /\ Len(Tail(old)) = n - 1
      /\ \A i \in 1 .. n - 1 : Tail(old)[i] = old[i + 1]
  BY <1>4, <1>5, HeadTailProperties
<1>. HIDE DEF new, old
<1>10. ASSUME NEW i \in 1 .. n - 1 PROVE new[i] = Tail(old)[i]
  <2>1. i + 1 \in 1 .. n
    OBVIOUS
  <2>2. new[i] = b[At(t, i + 1)]
    BY <1>3, <1>8
  <2>3. Tail(old)[i] = b[At(t, i + 1)]
    BY <1>4, <1>9, <2>1
  <2>. QED
    BY <2>2, <2>3
<1>11. new = Tail(old)
  BY <1>3, <1>9, <1>10, SeqEqual
<1>. QED
  BY <1>5, <1>7, <1>11 DEF new, old

(* Every put, get and peek of the ring, and every refusal, is that of the  *)
(* queue of its items: a full ring drops its oldest item and no other, and *)
(* what is read is the oldest that was not dropped.                        *)
THEOREM RingDropsOldest == RingSpec => DropsOldest
<1>. DEFINE queue == QueueOf(buffer, tail, size)
<1>1. RingInit => Queue!Init
  BY DEF RingInit, Queue!Init
<1>2. RingTypeOK /\ [RingNext]_ringVars =>
          [Queue!Next]_<<[i \in 1 .. size |-> buffer[(tail + i - 1) % Capacity]], answer>>
  <2>. SUFFICES ASSUME RingTypeOK, [RingNext]_ringVars
                PROVE  Queue!Next \/ (queue' = queue /\ answer' = answer)
    BY DEF QueueOf
  <2>0. /\ buffer \in [Slots -> Stored] /\ tail \in Slots /\ size \in 0 .. Capacity
        /\ queue \in Seq(Stored) /\ Len(queue) = size
    BY QueueOfFacts DEF RingTypeOK, Stored
  <2>1. ASSUME NEW item \in Items, put(item)
        PROVE  Queue!Put(item)
    <3>1. head = At(tail, size + 1) \/ isFull
      BY <2>0, SlotValue DEF RingTypeOK, At, isFull, Slots
    <3>2. answer' = Nothing /\ buffer' = [buffer EXCEPT ![head] = item] /\ item \in Stored
      BY <2>1 DEF put, Stored
    <3>3. CASE isFull
      <4>. DEFINE t == NextSlot(tail)
                  n == Capacity - 1
      <4>1. size = Capacity /\ size' = Capacity /\ tail' = t /\ Capacity \in 1 .. Capacity
        BY <2>1, <3>3 DEF put, isFull, TailPushed
      <4>2. t = (IF tail + 1 = Capacity THEN 0 ELSE tail + 1) /\ t \in Slots
        BY <2>0, NextSlotValue DEF Slots
      <4>3. head = tail
        BY <2>0, <4>1, SlotValue DEF RingTypeOK, Slots
      <4>4. head = At(t, n + 1) /\ n \in 0 .. Capacity /\ n < Capacity /\ n + 1 = Capacity
        BY <2>0, <4>2, <4>3 DEF At, Slots
      <4>5. QueueOf(buffer, t, n) = Tail(queue)
        BY <2>0, <4>1, MoveDrops
      <4>. HIDE DEF t, n
      <4>6. QueueOf(buffer', t, Capacity) = Append(QueueOf(buffer, t, n), item)
        BY <2>0, <3>2, <4>2, <4>4, WriteAppends, ZenonT(60)
      <4>7. queue' = Append(Tail(queue), item)
        BY <4>1, <4>5, <4>6 DEF QueueOf
      <4>. QED
        BY <2>0, <3>2, <4>1, <4>7 DEF Queue!Put, QueueOf
    <3>4. CASE ~isFull
      <4>1. size' = size + 1 /\ tail' = tail /\ size < Capacity
        BY <2>0, <2>1, <3>4 DEF put, isFull
      <4>. DEFINE c == [buffer EXCEPT ![At(tail, size + 1)] = item]
      <4>2. QueueOf(c, tail, size + 1) = Append(queue, item) /\ buffer' = c
        <5>1. QueueOf(c, tail, size + 1) = Append(queue, item)
          BY <2>0, <3>2, <4>1, WriteAppends
        <5>. QED
          BY <3>1, <3>2, <3>4, <5>1
      <4>. HIDE DEF c
      <4>3. queue' = Append(queue, item)
        BY <4>1, <4>2 DEF QueueOf
      <4>4. Len(queue) # Capacity
        BY <2>0, <4>1
      <4>. QED
        BY <3>2, <4>3, <4>4 DEF Queue!Put, QueueOf
    <3>. QED
      BY <3>3, <3>4
  <2>2. ASSUME get
        PROVE  Queue!Get
    <3>1. size \in 1 .. Capacity
      BY <2>0, <2>2 DEF get, isEmpty
    <3>2. queue # <<>> /\ Head(queue) = buffer[tail]
          /\ QueueOf(buffer, NextSlot(tail), size - 1) = Tail(queue)
      BY <2>0, <3>1, MoveDrops
    <3>3. queue' = Tail(queue)
      BY <2>2, <3>2 DEF get, QueueOf
    <3>4. answer' = Head(queue)
      BY <2>2, <3>2 DEF get
    <3>. QED
      BY <3>2, <3>3, <3>4 DEF Queue!Get, QueueOf
  <2>3. ASSUME peek
        PROVE  Queue!Peek
    <3>1. size \in 1 .. Capacity
      BY <2>0, <2>3 DEF peek, isEmpty
    <3>2. queue # <<>> /\ Head(queue) = buffer[tail]
      BY <2>0, <3>1, MoveDrops
    <3>3. queue' = queue
      BY <2>3 DEF peek, QueueOf
    <3>. QED
      BY <2>3, <3>2, <3>3 DEF Queue!Peek, QueueOf, peek
  <2>4. ASSUME Throws
        PROVE  Queue!Refuse
    <3>1. queue = <<>>
      BY <2>0, <2>4, EmptySeq DEF Throws, isEmpty
    <3>2. queue' = queue
      BY <2>4 DEF Throws, QueueOf
    <3>. QED
      BY <2>4, <3>1, <3>2 DEF Queue!Refuse, QueueOf, Throws
  <2>5. CASE UNCHANGED ringVars
    BY <2>5 DEF ringVars, QueueOf
  <2>. QED
    BY <2>1, <2>2, <2>3, <2>4, <2>5 DEF RingNext, Queue!Next
<1>. QED
  BY <1>1, <1>2, RingTypeCorrect, PTL DEF RingSpec, DropsOldest, Queue!Spec
=============================================================================
