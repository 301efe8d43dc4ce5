------------------------- MODULE PackageBytesProofs --------------------------
(***************************************************************************)
(* The PackageReader never hands out more than the declared size, whatever *)
(* its sender sends and its handler drops.  Proved for every size, every   *)
(* set of bytes and any number of chunks and dropped futures.              *)
(*                                                                         *)
(* And what an honest sender sends arrives: however it cut the package, a  *)
(* handler that drops no future is given a prefix of it, and the drain     *)
(* ends on the frame behind it.                                            *)
(*                                                                         *)
(* The count is kept in two places, `remaining` and the bytes handed out;  *)
(* a chunk moves the length of what a future has buffered from one to the  *)
(* other, so the invariant needs the types of the stream and of the future *)
(* that takes its bytes.  That the package arrives whole needs to know     *)
(* where the chunks on the stream begin, without saying how it was cut:    *)
(* some set of places, each followed by a length and that many bytes of    *)
(* the package up to the next place (Layout), has the reader at one of     *)
(* them (ReaderAt).                                                        *)
(***************************************************************************)
EXTENDS PackageBytes, SequenceTheorems, TLAPS

Future == [polled : BOOLEAN, head : BOOLEAN, len : Nat, buf : Seq(Nat)]

\* The types of the stream, of the future and of the reader's counters.
ReaderTypes ==
    /\ payload \in Seq(Nat) /\ Len(payload) = Size + 1
    /\ stream \in Seq(Nat) /\ got \in Seq(Nat)
    /\ sent \in Nat /\ pos \in Nat /\ remaining \in Nat
    /\ failed \in BOOLEAN /\ fut \in Future

IInv == ReaderTypes /\ BoundedBySize

-----------------------------------------------------------------------------
\* A future that was just made, or dropped, has taken nothing off the stream.
LEMMA FreshFuture ==
    NoFuture \in Future /\ [NoFuture EXCEPT !.polled = TRUE] \in Future
<1>1. <<>> \in Seq(Nat)
  OBVIOUS
<1>2. NoFuture \in Future
  BY <1>1 DEF NoFuture, Future
<1>3. ASSUME NEW f \in Future PROVE [f EXCEPT !.polled = TRUE] \in Future
  BY DEF Future
<1> QED BY <1>2, <1>3

\* The bounded reader's invariant holds when PackageReader::new made it.
LEMMA InitInv == Init => IInv
<1> SUFFICES ASSUME Init PROVE IInv
  OBVIOUS
<1>1. payload \in [1 .. Size + 1 -> Nat]
  BY PackageAssumption DEF Init
<1>2. payload \in Seq(Nat) /\ Len(payload) = Size + 1
  BY <1>1, PackageAssumption, SeqDef
<1>3. <<>> \in Seq(Nat) /\ Len(<<>>) = 0
  OBVIOUS
<1>4. stream \in Seq(Nat) /\ got \in Seq(Nat) /\ Len(got) = 0
  BY <1>3 DEF Init
<1>5. fut \in Future
  BY FreshFuture DEF Init
<1>6. sent \in Nat /\ pos \in Nat /\ remaining \in Nat
  BY PackageAssumption DEF Init
<1>7. failed \in BOOLEAN
  BY DEF Init
<1>8. BoundedBySize
  BY <1>4, PackageAssumption DEF Init, BoundedBySize
<1> QED BY <1>2, <1>4, <1>5, <1>6, <1>7, <1>8 DEF IInv, ReaderTypes

\* Every step of sender, reader and handler keeps it.
LEMMA NextInv == IInv /\ [Next]_vars => IInv'
<1> SUFFICES ASSUME IInv, [Next]_vars PROVE IInv'
  OBVIOUS
<1> USE PackageAssumption
<1>1. ASSUME NEW n \in 0 .. Size + 1, SendChunk(n) PROVE IInv'
  <2>1. SubSeq(payload, sent + 1, sent + n) \in Seq(Nat)
    <3>1. \A i \in sent + 1 .. sent + n : payload[i] \in Nat
      BY <1>1 DEF SendChunk, IInv, ReaderTypes
    <3> QED BY <1>1, <3>1 DEF SendChunk, IInv, ReaderTypes
  <2>2. stream' \in Seq(Nat) /\ sent' \in Nat
    BY <1>1, <2>1 DEF SendChunk, IInv, ReaderTypes
  <2> QED BY <1>1, <2>2 DEF SendChunk, IInv, ReaderTypes, BoundedBySize
<1>2. CASE SendNextRequest
  BY <1>2 DEF SendNextRequest, NextRequest, IInv, ReaderTypes, BoundedBySize
<1>3. CASE Finish
  BY <1>3 DEF Finish, IInv, ReaderTypes, BoundedBySize
<1>4. CASE NextChunk
  BY <1>4, FreshFuture DEF NextChunk, senderVars, readerVars, IInv,
     ReaderTypes, BoundedBySize
<1>5. CASE RecvHead
  <2>1. pos + 1 \in 1 .. Len(stream) /\ pos' \in Nat
    <3>1. pos < Len(stream) /\ pos' = pos + 1
      BY <1>5 DEF RecvHead
    <3>2. pos \in Nat /\ Len(stream) \in Nat
      BY DEF IInv, ReaderTypes
    <3> QED BY <3>1, <3>2
  <2>2. stream[pos + 1] \in Nat
    BY <2>1, ElementOfSeq DEF IInv, ReaderTypes
  <2>3. fut' \in Future
    BY <1>5, <2>2 DEF RecvHead, IInv, ReaderTypes, Future
  <2> QED BY <1>5, <2>1, <2>3 DEF RecvHead, senderVars, readerVars, IInv,
          ReaderTypes, BoundedBySize
<1>6. CASE RecvBody
  <2>1. pos + 1 \in 1 .. Len(stream) /\ pos' \in Nat
    <3>1. pos < Len(stream) /\ pos' = pos + 1
      BY <1>6 DEF RecvBody
    <3>2. pos \in Nat /\ Len(stream) \in Nat
      BY DEF IInv, ReaderTypes
    <3> QED BY <3>1, <3>2
  <2>2. stream[pos + 1] \in Nat
    BY <2>1, ElementOfSeq DEF IInv, ReaderTypes
  <2>3. Append(fut.buf, stream[pos + 1]) \in Seq(Nat)
    BY <2>2 DEF IInv, ReaderTypes, Future
  <2>4. fut' \in Future
    BY <1>6, <2>3 DEF RecvBody, IInv, ReaderTypes, Future
  <2> QED BY <1>6, <2>1, <2>4 DEF RecvBody, senderVars, readerVars, IInv,
          ReaderTypes, BoundedBySize
<1>7. CASE ReadChunk
  <2>1. fut.buf \in Seq(Nat) /\ Len(fut.buf) = fut.len /\ fut.len \in Nat
    BY <1>7 DEF ReadChunk, Whole, IInv, ReaderTypes, Future
  <2>2. CASE fut.len > remaining
    BY <1>7, <2>2, FreshFuture DEF ReadChunk, senderVars, IInv, ReaderTypes,
       BoundedBySize
  <2>3. CASE ~(fut.len > remaining)
    <3>1. remaining' = remaining - fut.len /\ got' = got \o fut.buf
      BY <1>7, <2>3 DEF ReadChunk
    <3>2. got' \in Seq(Nat) /\ Len(got') = Len(got) + Len(fut.buf)
      BY <2>1, <3>1, ConcatProperties DEF IInv, ReaderTypes
    <3>3. /\ got' \in Seq(Nat) /\ Len(got') = Len(got) + fut.len
          /\ remaining' = remaining - fut.len /\ remaining' \in Nat
      BY <2>1, <2>3, <3>1, <3>2, SMTT(30) DEF IInv, ReaderTypes
    <3>4. BoundedBySize'
      BY <3>3, <2>1, SMTT(30) DEF IInv, ReaderTypes, BoundedBySize
    <3> QED BY <1>7, <2>3, <3>3, <3>4, FreshFuture DEF ReadChunk, senderVars,
            IInv, ReaderTypes
  <2> QED BY <2>2, <2>3
<1>8. CASE ReadFails
  BY <1>8, FreshFuture DEF ReadFails, senderVars, IInv, ReaderTypes,
     BoundedBySize
<1>9. CASE DropFuture
  BY <1>9, FreshFuture DEF DropFuture, senderVars, IInv, ReaderTypes,
     BoundedBySize
<1>10. CASE HandlerReturns
  BY <1>10 DEF HandlerReturns, senderVars, IInv, ReaderTypes, BoundedBySize
<1>11. CASE DrainEnds
  BY <1>11 DEF DrainEnds, senderVars, IInv, ReaderTypes, BoundedBySize
<1>12. CASE UNCHANGED vars
  BY <1>12 DEF vars, IInv, ReaderTypes, BoundedBySize
<1> QED BY <1>1, <1>2, <1>3, <1>4, <1>5, <1>6, <1>7, <1>8, <1>9, <1>10,
        <1>11, <1>12 DEF Next, Reader

\* The reader hands out at most the declared size, and `remaining` is exactly
\* what is missing of it: PackageReader's bound in src/src/request.rs, for a
\* sender that overruns and a handler that drops futures too.
THEOREM ReaderBounded == Spec => []BoundedBySize
<1>1. IInv => BoundedBySize
  BY DEF IInv
<1> QED BY InitInv, NextInv, <1>1, PTL DEF Spec

-----------------------------------------------------------------------------
(* The package an honest sender sends arrives whole.                         *)
(*                                                                           *)
(* Where the chunks lie is nowhere in the state: the invariant says that     *)
(* there is a set of places between chunks which the stream agrees with and  *)
(* one of which the reader's own chunk starts at.                            *)

\* A chunk starts behind the first p bytes of the stream, of which d[p] are the
\* payload's: its length, then the next bytes of the payload, and behind them
\* the stream is at the start of a chunk again.
FrameAt(H, d, p) ==
    /\ d[p] < Size
    /\ p + 1 + stream[p + 1] \in H
    /\ d[p + 1 + stream[p + 1]] = d[p] + stream[p + 1]
    /\ \A j \in 1 .. stream[p + 1] : stream[p + 1 + j] = payload[d[p] + j]

\* H are the places between chunks, and d counts the payload up to each: what
\* an honest sender's stream looks like, however it cut the payload.
Layout(H, d) ==
    /\ H \subseteq 0 .. PayloadEnd /\ d \in [H -> 0 .. Size]
    /\ PayloadEnd \in H /\ d[PayloadEnd] = sent
    /\ \A p \in H \ {PayloadEnd} : FrameAt(H, d, p)

\* Where the chunk starts that the reader is at.
Start == IF fut.head THEN pos - (Len(fut.buf) + 1) ELSE pos

\* The reader is at the chunk whose place is Start, has handed out the payload
\* up to there and holds what it has taken of the chunk since.
ReaderAt(H, d) ==
    /\ Start \in H /\ d[Start] = Len(got)
    /\ fut.head =>
         /\ Start # PayloadEnd /\ fut.len = stream[Start + 1]
         /\ Len(fut.buf) <= fut.len
         /\ \A j \in 1 .. Len(fut.buf) : fut.buf[j] = payload[d[Start] + j]

\* The reader stays aligned with an honest sender's chunks while no future is
\* dropped.
AlignInv ==
    honest /\ drops = 0 =>
        /\ \A j \in 1 .. Len(got) : got[j] = payload[j]
        /\ \E H \in SUBSET (0 .. PayloadEnd) : \E d \in [H -> 0 .. Size] :
              Layout(H, d) /\ ReaderAt(H, d)

\* What the phases say of the reader and of the sender.
PhaseInv ==
    /\ honest \in BOOLEAN /\ drops \in Nat
    /\ fut.head => fut.polled
    /\ ~fut.head => fut.buf = <<>>
    /\ fut.polled => remaining > 0
    /\ phase = "resumed" => remaining = 0
    /\ tail = "next" /\ honest => sent = Size

PackageInv == IInv /\ PhaseInv /\ AlignInv

\* A chunk that an honest sender sent is on the stream as a whole.
LEMMA FrameFacts ==
    ASSUME IInv, NEW H, NEW d, Layout(H, d), NEW p \in H \ {PayloadEnd}
    PROVE  /\ PayloadEnd \in Nat /\ PayloadEnd <= Len(stream)
           /\ p \in Nat /\ p < PayloadEnd /\ p + 1 \in 1 .. Len(stream)
           /\ stream[p + 1] \in Nat
           /\ p + 1 + stream[p + 1] \in H
           /\ p + 1 + stream[p + 1] <= PayloadEnd
           /\ d[p] \in Nat /\ d[p] < Size
           /\ d[p + 1 + stream[p + 1]] = d[p] + stream[p + 1]
           /\ d[p] + stream[p + 1] <= Size
<1>1. Len(stream) \in Nat /\ Size \in Nat
  BY PackageAssumption DEF IInv, ReaderTypes
<1>2. PayloadEnd \in Int /\ PayloadEnd <= Len(stream)
  BY <1>1 DEF PayloadEnd, NextRequest
<1>3. PayloadEnd \in 0 .. PayloadEnd /\ p \in 0 .. PayloadEnd /\ p # PayloadEnd
  BY DEF Layout
<1>4. p \in Nat /\ p < PayloadEnd /\ p + 1 \in 1 .. Len(stream)
  BY <1>1, <1>2, <1>3
<1>5. stream[p + 1] \in Nat
  BY <1>4, ElementOfSeq DEF IInv, ReaderTypes
<1>6. FrameAt(H, d, p)
  BY DEF Layout
<1>7. p + 1 + stream[p + 1] \in H /\ p + 1 + stream[p + 1] <= PayloadEnd
  <2>1. p + 1 + stream[p + 1] \in H
    BY <1>6 DEF FrameAt
  <2>2. p + 1 + stream[p + 1] \in 0 .. PayloadEnd
    BY <2>1 DEF Layout
  <2> QED BY <1>2, <2>1, <2>2
<1>8. d[p] \in 0 .. Size /\ d[p + 1 + stream[p + 1]] \in 0 .. Size
  BY <1>7 DEF Layout
<1> QED BY <1>1, <1>2, <1>3, <1>4, <1>5, <1>6, <1>7, <1>8 DEF FrameAt

\* It stays there, whatever is written behind it.
LEMMA FrameGrows ==
    ASSUME IInv, NEW H, NEW d, Layout(H, d), NEW p \in H \ {PayloadEnd},
           payload' = payload, \A i \in 1 .. Len(stream) : stream'[i] = stream[i],
           NEW G, NEW e, H \subseteq G, \A q \in H : e[q] = d[q]
    PROVE  FrameAt(G, e, p)'
<1>1. /\ p \in Nat /\ p + 1 \in 1 .. Len(stream) /\ stream[p + 1] \in Nat
      /\ p + 1 + stream[p + 1] \in H /\ p + 1 + stream[p + 1] <= Len(stream)
  <2>1. Len(stream) \in Nat
    BY DEF IInv, ReaderTypes
  <2> QED BY <2>1, FrameFacts
<1>2. stream'[p + 1] = stream[p + 1]
  BY <1>1
<1>3. \A j \in 1 .. stream[p + 1] : p + 1 + j \in 1 .. Len(stream)
  BY <1>1 DEF IInv, ReaderTypes
<1>4. \A j \in 1 .. stream[p + 1] : stream'[p + 1 + j] = stream[p + 1 + j]
  BY <1>3
<1>5. FrameAt(H, d, p) /\ e[p] = d[p]
      /\ e[p + 1 + stream[p + 1]] = d[p + 1 + stream[p + 1]]
  BY <1>1 DEF Layout
<1> QED BY <1>1, <1>2, <1>4, <1>5 DEF FrameAt

\* What is written behind the payload changes nothing for the reader of it.
LEMMA LayoutStays ==
    ASSUME IInv, NEW H, NEW d, Layout(H, d), ReaderAt(H, d),
           UNCHANGED <<payload, sent, fut, pos, got>>, PayloadEnd' = PayloadEnd,
           \A i \in 1 .. Len(stream) : stream'[i] = stream[i]
    PROVE  Layout(H, d)' /\ ReaderAt(H, d)'
<1>1. \A p \in H \ {PayloadEnd} : FrameAt(H, d, p)'
  BY FrameGrows
<1>2. Layout(H, d)'
  BY <1>1 DEF Layout
<1>3. Start' = Start
  BY DEF Start
<1>4. fut.head => stream'[Start + 1] = stream[Start + 1]
  <2>1. fut.head => Start \in H \ {PayloadEnd}
    BY DEF ReaderAt
  <2> QED BY <2>1, FrameFacts
<1> QED BY <1>2, <1>3, <1>4 DEF ReaderAt

\* Bytes behind bytes.
LEMMA JoinFacts ==
    ASSUME NEW u \in Seq(Nat), NEW c \in Seq(Nat)
    PROVE  /\ u \o c \in Seq(Nat) /\ Len(u) \in Nat /\ Len(c) \in Nat
           /\ Len(u \o c) = Len(u) + Len(c)
           /\ \A i \in 1 .. Len(u) : (u \o c)[i] = u[i]
           /\ \A i \in 1 .. Len(c) : (u \o c)[Len(u) + i] = c[i]
  OBVIOUS

\* A chunk on the stream: its length, then the next bytes of the payload.
LEMMA ChunkBytes ==
    ASSUME IInv, NEW n \in 0 .. Size + 1, SendChunk(n)
    PROVE  /\ Len(stream') = Len(stream) + 1 + n
           /\ \A i \in 1 .. Len(stream) : stream'[i] = stream[i]
           /\ stream'[Len(stream) + 1] = n
           /\ \A j \in 1 .. n : stream'[Len(stream) + 1 + j] = payload[sent + j]
<1> DEFINE k == Len(stream)
           m == sent
           u == stream \o <<n>>
           c == SubSeq(payload, m + 1, m + n)
<1>0. /\ stream \in Seq(Nat) /\ payload \in Seq(Nat)
      /\ k \in Nat /\ m \in Nat /\ n \in Nat /\ m + n <= Len(payload)
  BY PackageAssumption DEF IInv, ReaderTypes, SendChunk
<1>1. u \in Seq(Nat) /\ Len(u) = k + 1 /\ u[k + 1] = n
      /\ \A i \in 1 .. k : u[i] = stream[i]
  BY <1>0
<1>2. \A i \in m + 1 .. m + n : payload[i] \in Nat
  BY <1>0, LenProperties, ElementOfSeq
<1>3. c \in Seq(Nat) /\ Len(c) = n /\ \A j \in 1 .. n : c[j] = payload[m + j]
  <2>1. m + 1 \in Int /\ m + n \in Int
    BY <1>0
  <2>2. /\ c \in Seq(Nat)
        /\ Len(c) = IF m + 1 <= m + n THEN (m + n) - (m + 1) + 1 ELSE 0
        /\ \A j \in 1 .. (m + n) - (m + 1) + 1 : c[j] = payload[(m + 1) + j - 1]
    BY <1>2, <2>1, SubSeqProperties
  <2> HIDE DEF c, m
  <2>3. (m + n) - (m + 1) + 1 = n /\ (m + 1 <= m + n <=> n > 0)
    BY <1>0
  <2>4. \A j \in 1 .. n : (m + 1) + j - 1 = m + j
    BY <1>0
  <2> QED BY <1>0, <2>2, <2>3, <2>4
<1>4. stream' = u \o c
  BY DEF SendChunk
<1> HIDE DEF u, c, k, m
<1>5. /\ Len(stream') = Len(u) + Len(c)
      /\ \A i \in 1 .. Len(u) : stream'[i] = u[i]
      /\ \A i \in 1 .. Len(c) : stream'[Len(u) + i] = c[i]
  <2>1. /\ Len(u \o c) = Len(u) + Len(c)
        /\ \A i \in 1 .. Len(u) : (u \o c)[i] = u[i]
        /\ \A i \in 1 .. Len(c) : (u \o c)[Len(u) + i] = c[i]
    BY <1>1, <1>3, JoinFacts
  <2> QED BY <1>4, <2>1, Zenon
<1>6. k + 1 \in 1 .. k + 1 /\ \A i \in 1 .. k : i \in 1 .. k + 1
  BY <1>0
<1>7. /\ Len(stream') = k + 1 + n
      /\ \A i \in 1 .. k : stream'[i] = stream[i]
      /\ stream'[k + 1] = n
      /\ \A j \in 1 .. n : stream'[k + 1 + j] = payload[m + j]
  BY <1>1, <1>3, <1>5, <1>6
<1> QED BY <1>7 DEF k, m

\* The phases of the reader, and what the sender has sent by then.
LEMMA PhaseStep == IInv /\ PhaseInv /\ [Next]_vars => PhaseInv'
<1> SUFFICES ASSUME IInv, PhaseInv, [Next]_vars PROVE PhaseInv'
  OBVIOUS
<1> USE DEF IInv, ReaderTypes, PhaseInv
<1>1. ASSUME NEW n \in 0 .. Size + 1, SendChunk(n) PROVE PhaseInv'
  BY <1>1 DEF SendChunk
<1>2. CASE SendNextRequest
  BY <1>2 DEF SendNextRequest
<1>3. CASE Finish
  BY <1>3 DEF Finish
<1>4. CASE NextChunk
  BY <1>4 DEF NextChunk, NoFuture, senderVars, readerVars
<1>5. CASE RecvHead
  BY <1>5 DEF RecvHead, Future, senderVars, readerVars
<1>6. CASE RecvBody
  BY <1>6 DEF RecvBody, Future, senderVars, readerVars
<1>7. CASE ReadChunk
  <2>1. remaining' = remaining \/ remaining' = remaining - fut.len
    BY <1>7 DEF ReadChunk
  <2>2. fut.polled /\ phase # "resumed"
    BY <1>7, PackageAssumption DEF ReadChunk, Whole
  <2> QED BY <1>7, <2>2 DEF ReadChunk, NoFuture, senderVars
<1>8. CASE ReadFails
  BY <1>8 DEF ReadFails, NoFuture, senderVars
<1>9. CASE DropFuture
  BY <1>9 DEF DropFuture, NoFuture, senderVars
<1>10. CASE HandlerReturns
  BY <1>10 DEF HandlerReturns, senderVars
<1>11. CASE DrainEnds
  BY <1>11 DEF DrainEnds, senderVars
<1>12. CASE UNCHANGED vars
  BY <1>12 DEF vars
<1> QED BY <1>1, <1>2, <1>3, <1>4, <1>5, <1>6, <1>7, <1>8, <1>9, <1>10,
        <1>11, <1>12 DEF Next, Reader

\* A step that leaves the stream and the reader's place on it alone.
LEMMA AlignQuiet ==
    ASSUME PackageInv, UNCHANGED <<payload, stream, sent, fut, pos, got>>,
           PayloadEnd' = PayloadEnd, honest' => honest, drops' = 0 => drops = 0
    PROVE  AlignInv'
<1> SUFFICES ASSUME honest', drops' = 0
             PROVE  /\ \A j \in 1 .. Len(got) : got[j] = payload[j]
                    /\ \E H \in SUBSET (0 .. PayloadEnd) :
                         \E d \in [H -> 0 .. Size] :
                            Layout(H, d)' /\ ReaderAt(H, d)'
  BY DEF AlignInv
<1>1. PICK H \in SUBSET (0 .. PayloadEnd) :
         \E d \in [H -> 0 .. Size] : Layout(H, d) /\ ReaderAt(H, d)
  BY DEF PackageInv, AlignInv
<1>2. PICK d \in [H -> 0 .. Size] : Layout(H, d) /\ ReaderAt(H, d)
  BY <1>1
<1>3. Layout(H, d)' /\ ReaderAt(H, d)'
  BY <1>2, LayoutStays DEF PackageInv
<1> QED BY <1>3 DEF PackageInv, AlignInv

\* An honest sender's chunk extends the layout by one place.
LEMMA AlignSend ==
    ASSUME PackageInv, NEW n \in 0 .. Size + 1, SendChunk(n)
    PROVE  AlignInv'
<1> SUFFICES ASSUME honest', drops' = 0
             PROVE  /\ \A j \in 1 .. Len(got') : got'[j] = payload'[j]
                    /\ \E G \in SUBSET (0 .. PayloadEnd') :
                         \E e \in [G -> 0 .. Size] :
                            Layout(G, e)' /\ ReaderAt(G, e)'
  BY DEF AlignInv
<1>0. PICK k \in Nat, q \in Nat, m \in Nat :
         k = Len(stream) /\ q = k + 1 + n /\ m = sent
  BY PackageAssumption DEF PackageInv, IInv, ReaderTypes
<1>1. /\ honest /\ drops = 0 /\ tail = "none" /\ m < Size /\ m + n <= Size
      /\ UNCHANGED <<payload, tail, fut, pos, got>> /\ sent' = m + n
  BY <1>0 DEF SendChunk
<1>2. Size \in Nat /\ m \in Nat /\ k \in Nat /\ n \in Nat
      /\ Len(payload) = Size + 1 /\ payload \in Seq(Nat) /\ stream \in Seq(Nat)
  BY <1>0, PackageAssumption DEF PackageInv, IInv, ReaderTypes
<1>3. /\ Len(stream') = q
      /\ \A i \in 1 .. k : stream'[i] = stream[i]
      /\ stream'[k + 1] = n
      /\ \A j \in 1 .. n : stream'[k + 1 + j] = payload[m + j]
  <2>1. /\ Len(stream') = Len(stream) + 1 + n
        /\ \A i \in 1 .. Len(stream) : stream'[i] = stream[i]
        /\ stream'[Len(stream) + 1] = n
        /\ \A j \in 1 .. n : stream'[Len(stream) + 1 + j] = payload[sent + j]
    BY ChunkBytes DEF PackageInv
  <2> QED BY <1>0, <2>1
<1>4. PayloadEnd = k /\ PayloadEnd' = q
  BY <1>0, <1>1, <1>3 DEF PayloadEnd
<1>5. PICK H \in SUBSET (0 .. PayloadEnd) :
         \E d \in [H -> 0 .. Size] : Layout(H, d) /\ ReaderAt(H, d)
  BY <1>1 DEF PackageInv, AlignInv
<1>6. PICK d \in [H -> 0 .. Size] : Layout(H, d) /\ ReaderAt(H, d)
  BY <1>5
<1> DEFINE G == H \cup {q}
           e == [p \in G |-> IF p = q THEN m + n ELSE d[p]]
<1>7. k \in H /\ d[k] = m /\ H \subseteq 0 .. k
  BY <1>0, <1>4, <1>6 DEF Layout
<1>8. q \notin H /\ q \in Nat /\ k < q /\ G \in SUBSET (0 .. q) /\ k # q
  <2>1. q \in Nat /\ k < q /\ k # q /\ q \notin 0 .. k /\ q \in 0 .. q
    BY <1>0, <1>2
  <2>2. \A p \in 0 .. k : p \in 0 .. q
    BY <1>2, <2>1
  <2> QED BY <1>7, <2>1, <2>2
<1>9. e \in [G -> 0 .. Size] /\ e[q] = m + n /\ \A p \in H : e[p] = d[p]
  <2>1. m + n \in 0 .. Size
    BY <1>1, <1>2
  <2> QED BY <1>8, <2>1
<1> HIDE DEF e
<1>10. \A p \in H \ {k} : FrameAt(G, e, p)'
  <2>1. payload' = payload /\ \A i \in 1 .. Len(stream) : stream'[i] = stream[i]
    BY <1>0, <1>1, <1>3
  <2>2. H \subseteq G /\ \A p \in H : e[p] = d[p]
    BY <1>9
  <2> QED BY <1>4, <1>6, <2>1, <2>2, FrameGrows DEF PackageInv
<1>11. FrameAt(G, e, k)'
  <2>1. k + 1 + n = q /\ q \in G
    BY <1>0
  <2>2. e[k] = m /\ e[k] < Size /\ e[q] = e[k] + n
    BY <1>1, <1>7, <1>9
  <2> QED BY <1>1, <1>3, <2>1, <2>2 DEF FrameAt
<1>12. Layout(G, e)'
  <2>1. \A p \in G \ {q} : FrameAt(G, e, p)'
    BY <1>10, <1>11
  <2> QED BY <1>1, <1>4, <1>8, <1>9, <2>1 DEF Layout
<1>13. ReaderAt(G, e)'
  <2>1. Start' = Start /\ Start \in H /\ Start # q
    BY <1>1, <1>6, <1>8 DEF Start, ReaderAt
  <2>2. fut.head => stream'[Start + 1] = stream[Start + 1]
    <3>1. fut.head => Start \in H \ {PayloadEnd}
      BY <1>6 DEF ReaderAt
    <3>2. fut.head => Start + 1 \in 1 .. k
      BY <3>1, <1>6, <1>0, FrameFacts DEF PackageInv
    <3> QED BY <3>2, <1>3
  <2> QED BY <1>1, <1>4, <1>6, <1>9, <2>1, <2>2 DEF ReaderAt
<1>14. \A j \in 1 .. Len(got) : got[j] = payload[j]
  BY <1>1 DEF PackageInv, AlignInv
<1> QED BY <1>1, <1>4, <1>8, <1>9, <1>12, <1>13, <1>14

\* The reader's own steps: it is at one chunk of the layout until that is
\* whole, and then at the next.
LEMMA AlignRead ==
    ASSUME PackageInv, honest, drops = 0,
           NEW H, NEW d, Layout(H, d), ReaderAt(H, d),
           RecvHead \/ RecvBody \/ ReadChunk
    PROVE  /\ Layout(H, d)' /\ ReaderAt(H, d)'
           /\ \A j \in 1 .. Len(got') : got'[j] = payload'[j]
<1> DEFINE h == Start
           b == Len(fut.buf)
           n == stream[h + 1]
<1>0. /\ Size \in Nat /\ pos \in Nat /\ remaining \in Nat /\ Len(got) \in Nat
      /\ Len(got) + remaining = Size /\ Len(stream) \in Nat
      /\ fut \in Future /\ fut.buf \in Seq(Nat) /\ b \in Nat /\ fut.len \in Nat
  BY PackageAssumption
     DEF PackageInv, IInv, ReaderTypes, BoundedBySize, Future
<1>1. UNCHANGED <<payload, stream, sent, chunks, honest, tail>> /\ PayloadEnd' = PayloadEnd
  BY DEF RecvHead, RecvBody, ReadChunk, senderVars, PayloadEnd
<1>2. Layout(H, d)'
  <2>1. \A p \in H \ {PayloadEnd} : FrameAt(H, d, p)'
    BY <1>1, FrameGrows DEF PackageInv
  <2> QED BY <1>1, <2>1 DEF Layout
<1>3. h \in H /\ d[h] = Len(got) /\ \A j \in 1 .. Len(got) : got[j] = payload[j]
  BY DEF ReaderAt, PackageInv, AlignInv
<1>4. fut.polled => remaining > 0 /\ Len(got) < Size
  BY <1>0 DEF PackageInv, PhaseInv
<1>5. CASE RecvHead
  <2>1. ~fut.head /\ fut.polled /\ fut.buf = <<>> /\ b = 0 /\ h = pos /\ pos < Len(stream)
    BY <1>5 DEF RecvHead, PackageInv, PhaseInv, Start
  <2>2. pos # PayloadEnd
    <3>1. SUFFICES ASSUME pos = PayloadEnd PROVE FALSE
      OBVIOUS
    <3>2. tail = "next"
      BY <3>1, <2>1 DEF PayloadEnd
    <3>3. sent = Size /\ d[PayloadEnd] = sent
      BY <3>2 DEF PackageInv, PhaseInv, Layout
    <3> QED BY <3>1, <3>3, <2>1, <1>0, <1>3, <1>4
  <2>3. /\ pos' = pos + 1 /\ got' = got
        /\ fut'.head /\ fut'.len = stream[pos + 1] /\ fut'.buf = <<>>
    BY <1>5, <1>0, <2>1 DEF RecvHead, readerVars, Future
  <2>4. Start' = pos /\ Len(fut'.buf) = 0
    BY <1>0, <2>3 DEF Start
  <2>5. stream[pos + 1] \in Nat
    BY <1>3, <2>1, <2>2, FrameFacts DEF PackageInv
  <2> HIDE DEF h, b, n
  <2>6. ReaderAt(H, d)'
    BY <1>1, <1>3, <2>1, <2>2, <2>3, <2>4, <2>5 DEF ReaderAt
  <2> QED BY <1>1, <1>2, <1>3, <2>3, <2>6
<1>6. ASSUME fut.head
      PROVE  /\ h \in H \ {PayloadEnd} /\ fut.len = n /\ b <= n
             /\ h \in Nat /\ pos = h + 1 + b
             /\ \A j \in 1 .. b : fut.buf[j] = payload[Len(got) + j]
             /\ n \in Nat /\ h + 1 + n \in H /\ d[h + 1 + n] = Len(got) + n
             /\ Len(got) + n <= Size
             /\ \A j \in 1 .. n : stream[h + 1 + j] = payload[Len(got) + j]
  <2>1. h \in H \ {PayloadEnd} /\ fut.len = n /\ b <= n
        /\ \A j \in 1 .. b : fut.buf[j] = payload[Len(got) + j]
    BY <1>6, <1>3 DEF ReaderAt
  <2>2. /\ h \in Nat /\ n \in Nat /\ h + 1 + n \in H
        /\ d[h + 1 + n] = d[h] + n /\ d[h] + n <= Size
    BY <2>1, FrameFacts DEF PackageInv
  <2>3. \A j \in 1 .. n : stream[h + 1 + j] = payload[d[h] + j]
    BY <2>1 DEF Layout, FrameAt
  <2>4. pos = h + 1 + b
    BY <1>0, <1>6, <2>2 DEF Start
  <2> QED BY <1>3, <2>1, <2>2, <2>3, <2>4
<1>7. CASE RecvBody
  <2> DEFINE x == stream[pos + 1]
  <2>1. fut.head /\ b < fut.len
    BY <1>7 DEF RecvBody
  <2>2. x \in Nat
    <3>1. pos + 1 \in 1 .. Len(stream)
      BY <1>7, <1>0 DEF RecvBody
    <3> QED BY <3>1, ElementOfSeq DEF PackageInv, IInv, ReaderTypes
  <2>3. /\ pos' = pos + 1 /\ got' = got
        /\ fut'.head /\ fut'.len = fut.len /\ fut'.buf = Append(fut.buf, x)
    BY <1>7, <1>0 DEF RecvBody, readerVars, Future
  <2>4. x = payload[Len(got) + (b + 1)]
    <3>1. b + 1 \in 1 .. n
      BY <1>0, <1>6, <2>1
    <3>2. pos + 1 = h + 1 + (b + 1)
      BY <1>0, <1>6, <2>1
    <3> QED BY <3>1, <3>2, <1>6, <2>1
  <2> HIDE DEF x
  <2>5. /\ Len(fut'.buf) = b + 1 /\ fut'.buf[b + 1] = x
        /\ \A j \in 1 .. b : fut'.buf[j] = fut.buf[j]
    BY <1>0, <2>2, <2>3
  <2>6. Start' = h
    BY <1>0, <1>6, <2>1, <2>3, <2>5 DEF Start
  <2>7. \A j \in 1 .. b + 1 : fut'.buf[j] = payload[Len(got) + j]
    <3>1. b \in Nat
      BY <1>0
    <3> HIDE DEF b
    <3>2. \A j \in 1 .. b + 1 : j \in 1 .. b \/ j = b + 1
      BY <3>1
    <3> QED BY <3>2, <1>6, <2>1, <2>4, <2>5
  <2>8. b + 1 <= fut.len
    BY <1>0, <2>1
  <2> HIDE DEF b, h
  <2>9. ReaderAt(H, d)'
    BY <1>1, <1>3, <1>6, <2>1, <2>3, <2>5, <2>6, <2>7, <2>8, ZenonT(60) DEF ReaderAt
  <2> QED BY <1>1, <1>2, <1>3, <2>3, <2>9
<1>8. CASE ReadChunk
  <2>1. fut.head /\ b = fut.len
    BY <1>8 DEF ReadChunk, Whole
  <2>2. b = n /\ pos = h + 1 + n /\ ~(fut.len > remaining)
    <3>1. fut.len = n /\ pos = h + 1 + b /\ Len(got) + n <= Size /\ n \in Nat
      BY <1>6, <2>1
    <3>2. ~(n > remaining)
      BY <1>0, <3>1
    <3> QED BY <2>1, <3>1, <3>2
  <2>3. got' = got \o fut.buf /\ pos' = pos /\ ~fut'.head
    BY <1>8, <2>2 DEF ReadChunk, NoFuture
  <2>4. /\ Len(got') = Len(got) + b
        /\ \A j \in 1 .. Len(got) : got'[j] = got[j]
        /\ \A j \in 1 .. b : got'[Len(got) + j] = fut.buf[j]
    BY <1>0, <2>3, JoinFacts DEF PackageInv, IInv, ReaderTypes
  <2>5. ASSUME NEW j \in 1 .. Len(got') PROVE got'[j] = payload[j]
    <3>1. CASE j \in 1 .. Len(got)
      BY <3>1, <1>3, <2>4
    <3>2. CASE j \notin 1 .. Len(got)
      <4>1. j - Len(got) \in 1 .. b /\ j = Len(got) + (j - Len(got))
        BY <3>2, <1>0, <2>4
      <4>2. /\ got'[Len(got) + (j - Len(got))] = fut.buf[j - Len(got)]
            /\ fut.buf[j - Len(got)] = payload[Len(got) + (j - Len(got))]
        BY <4>1, <1>6, <2>1, <2>4
      <4> QED BY <4>1, <4>2
    <3> QED BY <3>1, <3>2
  <2>6. Start' = h + 1 + n
    BY <2>2, <2>3 DEF Start
  <2>7. ReaderAt(H, d)'
    BY <1>6, <2>1, <2>2, <2>3, <2>4, <2>6 DEF ReaderAt
  <2> QED BY <1>1, <1>2, <2>5, <2>7
<1> QED BY <1>5, <1>7, <1>8

\* Every step keeps the reader aligned with an honest sender's chunks.
LEMMA AlignStep == PackageInv /\ [Next]_vars => AlignInv'
<1> SUFFICES ASSUME PackageInv, [Next]_vars PROVE AlignInv'
  OBVIOUS
<1>0. Len(stream) \in Nat /\ drops \in Nat
  BY DEF PackageInv, IInv, ReaderTypes, PhaseInv
<1>1. ASSUME NEW n \in 0 .. Size + 1, SendChunk(n) PROVE AlignInv'
  BY <1>1, AlignSend
<1>2. CASE SendNextRequest
  <2>1. /\ UNCHANGED <<payload, sent, fut, pos, got, drops>>
        /\ tail = "none" /\ tail' = "next" /\ stream' = stream \o <<1, 1>>
    BY <1>2 DEF SendNextRequest, NextRequest
  <2>2. /\ Len(stream') = Len(stream) + 2
        /\ \A i \in 1 .. Len(stream) : stream'[i] = stream[i]
    BY <2>1 DEF PackageInv, IInv, ReaderTypes
  <2>3. PayloadEnd' = PayloadEnd
    BY <1>0, <2>1, <2>2 DEF PayloadEnd, NextRequest
  <2> SUFFICES ASSUME honest', drops' = 0
               PROVE  /\ \A j \in 1 .. Len(got) : got[j] = payload[j]
                      /\ \E H \in SUBSET (0 .. PayloadEnd) :
                           \E d \in [H -> 0 .. Size] :
                              Layout(H, d)' /\ ReaderAt(H, d)'
    BY <2>1, <2>3 DEF AlignInv
  <2>4. honest /\ drops = 0
    BY <1>2 DEF SendNextRequest
  <2>5. PICK H \in SUBSET (0 .. PayloadEnd) :
           \E d \in [H -> 0 .. Size] : Layout(H, d) /\ ReaderAt(H, d)
    BY <2>4 DEF PackageInv, AlignInv
  <2>6. PICK d \in [H -> 0 .. Size] : Layout(H, d) /\ ReaderAt(H, d)
    BY <2>5
  <2>7. Layout(H, d)' /\ ReaderAt(H, d)'
    BY <2>1, <2>2, <2>3, <2>6, LayoutStays DEF PackageInv
  <2> QED BY <2>4, <2>7 DEF PackageInv, AlignInv
<1>3. CASE Finish
  <2>1. PayloadEnd' = PayloadEnd
    BY <1>3 DEF Finish, PayloadEnd
  <2> QED BY <1>3, <2>1, AlignQuiet DEF Finish
<1>4. ASSUME ~fut.head, ~fut'.head, UNCHANGED <<senderVars, pos, got>>,
             drops' = 0 => drops = 0
      PROVE  AlignInv'
  <2>1. PayloadEnd' = PayloadEnd
    BY <1>4 DEF PayloadEnd, senderVars
  <2> SUFFICES ASSUME honest', drops' = 0
               PROVE  /\ \A j \in 1 .. Len(got) : got[j] = payload[j]
                      /\ \E H \in SUBSET (0 .. PayloadEnd) :
                           \E d \in [H -> 0 .. Size] :
                              Layout(H, d)' /\ ReaderAt(H, d)'
    BY <1>4, <2>1 DEF AlignInv, senderVars
  <2>2. honest /\ drops = 0
    BY <1>4 DEF senderVars
  <2>3. PICK H \in SUBSET (0 .. PayloadEnd) :
           \E d \in [H -> 0 .. Size] : Layout(H, d) /\ ReaderAt(H, d)
    BY <2>2 DEF PackageInv, AlignInv
  <2>4. PICK d \in [H -> 0 .. Size] : Layout(H, d) /\ ReaderAt(H, d)
    BY <2>3
  <2>5. Layout(H, d)'
    <3>1. \A p \in H \ {PayloadEnd} : FrameAt(H, d, p)'
      BY <1>4, <2>4, FrameGrows DEF PackageInv, senderVars
    <3> QED BY <1>4, <2>1, <2>4, <3>1 DEF Layout, senderVars
  <2>6. ReaderAt(H, d)'
    BY <1>4, <2>4 DEF ReaderAt, Start
  <2> QED BY <2>2, <2>5, <2>6 DEF PackageInv, AlignInv
<1>5. CASE NextChunk
  BY <1>4, <1>5 DEF NextChunk, NoFuture, readerVars, PackageInv, PhaseInv
<1>6. CASE RecvHead \/ RecvBody \/ ReadChunk
  <2>1. UNCHANGED <<payload, honest, drops>> /\ PayloadEnd' = PayloadEnd
    BY <1>6 DEF RecvHead, RecvBody, ReadChunk, senderVars, readerVars, PayloadEnd
  <2> SUFFICES ASSUME honest, drops = 0
               PROVE  /\ \A j \in 1 .. Len(got') : got'[j] = payload'[j]
                      /\ \E H \in SUBSET (0 .. PayloadEnd) :
                           \E d \in [H -> 0 .. Size] :
                              Layout(H, d)' /\ ReaderAt(H, d)'
    BY <2>1 DEF AlignInv
  <2>2. PICK H \in SUBSET (0 .. PayloadEnd) :
           \E d \in [H -> 0 .. Size] : Layout(H, d) /\ ReaderAt(H, d)
    BY DEF PackageInv, AlignInv
  <2>3. PICK d \in [H -> 0 .. Size] : Layout(H, d) /\ ReaderAt(H, d)
    BY <2>2
  <2> QED BY <1>6, <2>3, AlignRead
<1>7. CASE ReadFails
  <2>1. ASSUME honest, drops = 0 PROVE ~fut.head
    <3> SUFFICES ASSUME fut.head PROVE FALSE
      OBVIOUS
    <3>1. PICK H \in SUBSET (0 .. PayloadEnd) :
             \E d \in [H -> 0 .. Size] : Layout(H, d) /\ ReaderAt(H, d)
      BY <2>1 DEF PackageInv, AlignInv
    <3>2. PICK d \in [H -> 0 .. Size] : Layout(H, d) /\ ReaderAt(H, d)
      BY <3>1
    <3>3. /\ Start \in H \ {PayloadEnd} /\ fut.len = stream[Start + 1]
          /\ Len(fut.buf) <= fut.len
      BY <3>2 DEF ReaderAt
    <3>4. Start \in Nat /\ Start + 1 + stream[Start + 1] <= Len(stream)
          /\ stream[Start + 1] \in Nat
      BY <1>0, <3>2, <3>3, FrameFacts DEF PackageInv
    <3>5. Len(fut.buf) \in Nat /\ pos \in Nat /\ Len(fut.buf) # fut.len
          /\ pos = Len(stream)
      BY <1>7 DEF ReadFails, Whole, PackageInv, IInv, ReaderTypes, Future
    <3>6. pos = Start + 1 + Len(fut.buf)
      BY <3>4, <3>5 DEF Start
    <3>7. PICK x \in Nat, y \in Nat, z \in Nat, w \in Nat :
             x = Start /\ y = fut.len /\ z = Len(fut.buf) /\ w = Len(stream)
      BY <1>0, <3>3, <3>4, <3>5
    <3>8. z <= y /\ z # y /\ x + 1 + y <= w /\ w = x + 1 + z
      BY <3>3, <3>4, <3>5, <3>6, <3>7
    <3> QED BY <3>8
  <2>2. UNCHANGED <<senderVars, pos, got, drops>> /\ ~fut'.head
    BY <1>7 DEF ReadFails, NoFuture
  <2>3. CASE honest /\ drops = 0
    BY <1>4, <2>1, <2>2, <2>3
  <2>4. CASE ~(honest /\ drops = 0)
    BY <2>2, <2>4 DEF AlignInv, senderVars
  <2> QED BY <2>3, <2>4
<1>8. CASE DropFuture
  <2>1. drops' # 0
    BY <1>0, <1>8 DEF DropFuture
  <2> QED BY <2>1 DEF AlignInv
<1>9. CASE HandlerReturns \/ DrainEnds
  <2>1. PayloadEnd' = PayloadEnd
    BY <1>9 DEF HandlerReturns, DrainEnds, senderVars, PayloadEnd
  <2> QED BY <1>9, <2>1, AlignQuiet DEF HandlerReturns, DrainEnds, senderVars
<1>10. CASE UNCHANGED vars
  <2>1. PayloadEnd' = PayloadEnd
    BY <1>10 DEF vars, PayloadEnd
  <2> QED BY <1>10, <2>1, AlignQuiet DEF vars
<1> QED BY <1>1, <1>2, <1>3, <1>5, <1>6, <1>7, <1>8, <1>9, <1>10 DEF Next, Reader

\* Nothing sent, nothing read: the one place is the start of the stream.
LEMMA InitAlign == Init => PackageInv
<1> SUFFICES ASSUME Init PROVE PackageInv
  OBVIOUS
<1>1. IInv
  BY InitInv
<1>2. PhaseInv
  BY DEF Init, PhaseInv, NoFuture
<1>3. AlignInv
  <2> DEFINE d == [p \in {0} |-> 0]
  <2>1. PayloadEnd = 0 /\ Start = 0 /\ Len(got) = 0 /\ sent = 0 /\ ~fut.head
    BY DEF Init, PayloadEnd, Start, NoFuture
  <2>2. d \in [{0} -> 0 .. Size] /\ d[0] = 0 /\ {0} \in SUBSET (0 .. PayloadEnd)
    BY <2>1, PackageAssumption
  <2> HIDE DEF d
  <2>3. Layout({0}, d)
    BY <2>1, <2>2 DEF Layout
  <2>4. ReaderAt({0}, d)
    BY <2>1, <2>2 DEF ReaderAt
  <2> QED BY <2>1, <2>2, <2>3, <2>4 DEF AlignInv
<1> QED BY <1>1, <1>2, <1>3 DEF PackageInv

\* However an honest sender cuts the package, a handler of PackageReader's
\* that awaits its chunks is given a prefix of it, and drain leaves the stream
\* behind the whole of it and exactly on the next frame.
THEOREM PackageWhole == Spec => []WholePackage
<1>1. PackageInv /\ [Next]_vars => PackageInv'
  BY NextInv, PhaseStep, AlignStep DEF PackageInv
<1>2. ASSUME PackageInv PROVE WholePackage
  <2> SUFFICES ASSUME honest, drops = 0
               PROVE  /\ got = SubSeq(payload, 1, Len(got))
                      /\ pos <= PayloadEnd
                      /\ phase = "resumed" => Len(got) = Size /\ pos = PayloadEnd
    BY DEF WholePackage
  <2>0. /\ got \in Seq(Nat) /\ payload \in Seq(Nat) /\ Len(payload) = Size + 1
        /\ Len(got) \in Nat /\ remaining \in Nat /\ Len(got) + remaining = Size
        /\ Size \in Nat /\ Len(fut.buf) \in Nat /\ pos \in Nat /\ fut.len \in Nat
        /\ Len(stream) \in Nat
    BY <1>2, PackageAssumption
       DEF PackageInv, IInv, ReaderTypes, BoundedBySize, Future
  <2>1. got = SubSeq(payload, 1, Len(got))
    <3>1. Len(got) <= Len(payload)
      BY <2>0
    <3>2. /\ SubSeq(payload, 1, Len(got)) \in Seq(Nat)
          /\ Len(SubSeq(payload, 1, Len(got))) = Len(got)
          /\ \A i \in 1 .. Len(got) : SubSeq(payload, 1, Len(got))[i] = payload[i]
      BY <2>0, <3>1
    <3>3. \A i \in 1 .. Len(got) : got[i] = payload[i]
      BY <1>2 DEF PackageInv, AlignInv
    <3> QED BY <2>0, <3>2, <3>3, SeqEqual
  <2>2. PICK H \in SUBSET (0 .. PayloadEnd) :
           \E d \in [H -> 0 .. Size] : Layout(H, d) /\ ReaderAt(H, d)
    BY <1>2 DEF PackageInv, AlignInv
  <2>3. PICK d \in [H -> 0 .. Size] : Layout(H, d) /\ ReaderAt(H, d)
    BY <2>2
  <2>4. Start \in H /\ d[Start] = Len(got) /\ Start \in 0 .. PayloadEnd
        /\ PayloadEnd \in Int
    BY <2>0, <2>3 DEF ReaderAt, Layout, PayloadEnd, NextRequest
  <2>5. pos <= PayloadEnd
    <3>1. CASE fut.head
      <4>1. Start \in H \ {PayloadEnd} /\ fut.len = stream[Start + 1]
            /\ Len(fut.buf) <= fut.len
        BY <3>1, <2>3 DEF ReaderAt
      <4>2. Start \in Nat /\ stream[Start + 1] \in Nat
            /\ Start + 1 + stream[Start + 1] <= PayloadEnd
        BY <1>2, <2>3, <4>1, FrameFacts DEF PackageInv
      <4>3. pos = Start + 1 + Len(fut.buf)
        BY <2>0, <3>1, <4>2 DEF Start
      <4>4. PICK x \in Nat, y \in Nat, z \in Nat, w \in Int :
               x = Start /\ y = fut.len /\ z = Len(fut.buf) /\ w = PayloadEnd
        BY <2>0, <2>4, <4>2
      <4>5. z <= y /\ x + 1 + y <= w /\ pos = x + 1 + z
        BY <4>1, <4>2, <4>3, <4>4
      <4>6. x + 1 + z <= w
        BY <4>5
      <4> QED BY <4>4, <4>5, <4>6, Zenon
    <3>2. CASE ~fut.head
      BY <3>2, <2>0, <2>4 DEF Start
    <3> QED BY <3>1, <3>2
  <2>6. ASSUME phase = "resumed" PROVE Len(got) = Size /\ pos = PayloadEnd
    <3>1. Len(got) = Size /\ ~fut.head
      BY <1>2, <2>0, <2>6 DEF PackageInv, PhaseInv
    <3>2. Start = pos
      BY <3>1 DEF Start
    <3>3. pos = PayloadEnd
      <4> SUFFICES ASSUME pos # PayloadEnd PROVE FALSE
        OBVIOUS
      <4>1. pos \in H \ {PayloadEnd}
        BY <2>4, <3>2
      <4>2. d[pos] < Size
        BY <1>2, <2>3, <4>1, FrameFacts DEF PackageInv
      <4> QED BY <2>0, <2>4, <3>1, <3>2, <4>2
    <3> QED BY <3>1, <3>3
  <2> QED BY <2>1, <2>5, <2>6
<1> QED BY InitAlign, <1>1, <1>2, PTL DEF Spec
=============================================================================
