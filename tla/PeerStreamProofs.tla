--------------------------- MODULE PeerStreamProofs ---------------------------
(***************************************************************************)
(* Proofs about PeerStream: a peer that sends its requests without waiting *)
(* for the answers meets a loop that answers each request at most once,    *)
(* that stays aligned with the frames, and whose answers can be counted    *)
(* off against what is due.  They hold for any set of requests, any number *)
(* of them on the stream, any package sizes and any window.                *)
(*                                                                         *)
(* The inductive invariant has two halves.  Numbers and Once need nothing  *)
(* of the peer: requests stand on the stream in the order of their         *)
(* numbers, and what waits or is served was not answered yet; leftovers    *)
(* the loop takes for a request are number 0.  Order holds while the peer  *)
(* has overrun no transfer.  It follows every request from the stream to   *)
(* the answer: what is due is a request under way, the one being served or *)
(* an answer under way (DueSomewhere); the answers under way come in the   *)
(* order of what is due (DownInv); chunks under way continue the package   *)
(* where the PackageReader stands and end where the peer stands            *)
(* (ChunkInv).  The parts about the agent hold as long as its loop goes    *)
(* on, and those about the answers as long as the peer reads them.         *)
(*                                                                         *)
(* A second invariant, EffectInv, follows what the handler did for each    *)
(* request.  On top of Numbers and Once it makes every answer true of its  *)
(* request, and every handler run at most once.                            *)
(***************************************************************************)
EXTENDS PeerStream, SequenceTheorems, TLAPS

-----------------------------------------------------------------------------
(* Sequences, as the two directions of the stream use them. *)

\* Reading the first frame off a stream.
LEMMA PopFacts ==
    ASSUME NEW S, NEW s \in Seq(S), s # <<>>
    PROVE  /\ Head(s) \in S /\ Head(s) = s[1]
           /\ Tail(s) \in Seq(S)
           /\ Len(s) \in Nat /\ Len(s) > 0 /\ Len(Tail(s)) = Len(s) - 1
           /\ 1 \in 1 .. Len(s)
           /\ \A k \in 1 .. Len(s) - 1 :
                 k + 1 \in 1 .. Len(s) /\ Tail(s)[k] = s[k + 1]
OBVIOUS

\* Writing a frame to a stream.
LEMMA PushFacts ==
    ASSUME NEW S, NEW s \in Seq(S), NEW e \in S
    PROVE  /\ Append(s, e) \in Seq(S)
           /\ Len(s) \in Nat /\ Len(Append(s, e)) = Len(s) + 1
           /\ \A k \in 1 .. Len(s) : Append(s, e)[k] = s[k]
           /\ Append(s, e)[Len(s) + 1] = e
           /\ Append(s, e) # <<>>
OBVIOUS

\* A stream is empty when it has no frame.
LEMMA EmptyFacts ==
    ASSUME NEW S, NEW s \in Seq(S)
    PROVE  Len(s) \in Nat /\ (s = <<>> <=> Len(s) = 0)
BY EmptySeq

\* Taking the last frame leaves the stream empty.
LEMMA LastPopped ==
    ASSUME NEW S, NEW s \in Seq(S), s # <<>>, Tail(s) = <<>>
    PROVE  Len(s) = 1
<1>1. Len(s) \in Nat /\ Len(Tail(s)) = Len(s) - 1
  BY PopFacts
<1>2. Len(Tail(s)) = 0
  BY EmptyFacts, PopFacts
<1>3. QED
  BY <1>1, <1>2

-----------------------------------------------------------------------------
(* Type correctness. *)

\* The request being served, and the part of it in which its payload is read.
Serving ==
    pc \in {"call", "preflight", "install", "reading", "drain", "reply"}
Receiving == pc \in {"install", "reading", "drain"}

\* The loop goes on.
Live == pc \notin {"returned", "released"}

Types ==
    /\ StreamTypeOK
    /\ ppc \in {"ready", "verdict", "payload"}
    /\ next \in 1 .. MaxRequests + 1
    /\ inst \in [id : Ids, req : Request]
    /\ given \in Nat /\ empties \in Nat
    /\ due \in Seq(Nat) /\ answered \subseteq Nat /\ deviated \in BOOLEAN
    /\ ppc = "verdict" => given = 0
    /\ ppc = "payload" => given <= inst.req.size

\* The frames the two sides write are frames.
LEMMA FrameTypes ==
    /\ \A i \in Ids, r \in Request : ReqFrame(i, r) \in Frame
    /\ \A i \in Ids, r \in Request, o, n \in Nat :
          ChunkFrame(i, r, o, n) \in Frame
    /\ \A i \in Ids, r \in Request, o \in Nat : FragFrame(i, r, o) \in Frame
    /\ \A i \in Ids, b \in {"Proceed", "Refusal", "Ok", "Err"},
          st \in {"verdict", "final", "frag"} : ReplyFrame(i, st, b) \in Reply
    /\ 0 \in Ids
BY StreamAssumption
   DEF ReqFrame, ChunkFrame, FragFrame, Frame, ReplyFrame, Reply, Ids

\* A reader that is new, that fails, that advances.
LEMMA ReaderFacts ==
    /\ \A n \in Nat : /\ NewReader(n) \in PackageReader
                      /\ NewReader(n).size = n /\ NewReader(n).remaining = n
                      /\ ~NewReader(n).failed
    /\ \A p \in PackageReader :
          LET f == [p EXCEPT !.failed = TRUE]
          IN  /\ f \in PackageReader /\ f.failed
              /\ f.size = p.size /\ f.remaining = p.remaining
    /\ \A p \in PackageReader, n \in Nat :
          LET a == [p EXCEPT !.remaining = n]
          IN  /\ a \in PackageReader
              /\ a.size = p.size /\ a.remaining = n /\ a.failed = p.failed
BY Zenon DEF NewReader, PackageReader

\* The frame at the head of the stream towards the agent.
LEMMA UpHead ==
    ASSUME StreamTypeOK, up # <<>>
    PROVE  /\ Head(up) \in Frame /\ Tail(up) \in Seq(Frame)
           /\ Head(up) = up[1] /\ 1 \in 1 .. Len(up)
           /\ Head(up).len \in Nat /\ Head(up).off \in Nat
           /\ Head(up).id \in Ids /\ Head(up).req \in Request
           /\ Head(up).kind \in {"req", "chunk", "frag"}
<1>1. /\ Head(up) \in Frame /\ Tail(up) \in Seq(Frame)
      /\ Head(up) = up[1] /\ 1 \in 1 .. Len(up)
  BY PopFacts DEF StreamTypeOK
<1>2. QED
  BY <1>1 DEF Frame

\* A reply is written, or the write fails.
LEMMA SendShape ==
    ASSUME StreamTypeOK, NEW r \in Reply, SendOk(r) \/ SendFails
    PROVE  /\ down' \in Seq(Reply)
           /\ downEnd' = downEnd /\ downRecv' = downRecv
           /\ down' \in {down, Append(down, r)}
           /\ SendOk(r) /\ downRecv = "held" => down' = Append(down, r)
<1>1. down \in Seq(Reply) /\ Append(down, r) \in Seq(Reply)
  BY PushFacts DEF StreamTypeOK
<1>2. QED
  BY <1>1 DEF SendOk, SendFails, downVars

\* One read of the package: a chunk that fits, one that overruns, or the end.
LEMMA ReadChunkShape ==
    ASSUME StreamTypeOK, ReadChunk
    PROVE  /\ upEnd' = upEnd /\ upRecv' = upRecv
           /\ up' \in Seq(Frame) /\ pkg' \in PackageReader
           /\ ~pkg.failed /\ pkg.remaining > 0 /\ pkg'.size = pkg.size
           /\ \/ /\ FrameReady /\ up' = Tail(up)
                 /\ Head(up).len <= pkg.remaining
                 /\ pkg'.remaining = pkg.remaining - Head(up).len
                 /\ ~pkg'.failed
              \/ /\ FrameReady /\ up' = Tail(up)
                 /\ Head(up).len > pkg.remaining
                 /\ pkg'.remaining = pkg.remaining /\ pkg'.failed
              \/ /\ EofReady \/ ErrReady
                 /\ up' = IF upEnd = "reset" THEN <<>> ELSE up
                 /\ pkg'.remaining = pkg.remaining /\ pkg'.failed
<1>1. /\ pkg \in PackageReader /\ pkg.remaining \in Nat
      /\ pkg.failed \in BOOLEAN
      /\ up \in Seq(Frame) /\ <<>> \in Seq(Frame)
  BY DEF StreamTypeOK, PackageReader
<1>2. upEnd' = upEnd /\ upRecv' = upRecv /\ ~pkg.failed /\ pkg.remaining > 0
  BY DEF ReadChunk
<1>3. CASE /\ FrameReady /\ up' = Tail(up)
           /\ pkg' = IF Head(up).len > pkg.remaining
                     THEN [pkg EXCEPT !.failed = TRUE]
                     ELSE [pkg EXCEPT !.remaining = @ - Head(up).len]
  <2>1. Head(up).len \in Nat /\ Tail(up) \in Seq(Frame)
    BY <1>3, UpHead DEF FrameReady
  <2>2. CASE Head(up).len > pkg.remaining
    BY <1>1, <1>2, <1>3, <2>1, <2>2, ReaderFacts
  <2>3. CASE Head(up).len <= pkg.remaining
    <3>1. PICK n \in Nat : n = pkg.remaining - Head(up).len
      BY <1>1, <2>1, <2>3
    <3>2. pkg' = [pkg EXCEPT !.remaining = n]
      BY <1>1, <1>3, <2>1, <2>3, <3>1
    <3>3. QED
      BY <1>1, <1>2, <1>3, <2>1, <2>3, <3>1, <3>2, ReaderFacts
  <2>4. QED
    BY <1>1, <2>1, <2>2, <2>3
<1>4. CASE /\ EofReady \/ ErrReady
           /\ pkg' = [pkg EXCEPT !.failed = TRUE]
           /\ up' = IF upEnd = "reset" THEN <<>> ELSE up
  BY <1>1, <1>2, <1>4, ReaderFacts
<1>5. QED
  BY <1>3, <1>4 DEF ReadChunk

\* Every arm of the dispatch loop.
LEMMA DispatchShape ==
    ASSUME StreamTypeOK, NEW i \in Ids, NEW r \in Request, Dispatch(i, r)
    PROVE  /\ cur' = ReqFrame(i, r) /\ cur' \in Frame /\ pkg' = pkg
           /\ down' \in Seq(Reply)
           /\ downEnd' = downEnd /\ downRecv' = downRecv
           /\ result' \in {"Ok", "Err"}
           /\ ret' \in {ret, "RecvError"}
           /\ effect' \in [Ids -> {"none", "running", "ok", "err"}]
           /\ \/ /\ pc' = "reply" /\ down' = down
                 /\ ~Served(r) /\ result' = "Err"
              \/ /\ pc' = "returned"
                 /\ down' \in {down, Append(down, ReplyFrame(i, "final",
                                                             "Err"))}
              \/ pc' = "preflight" /\ down' = down /\ IsInstall(r)
              \/ pc' = "reply" /\ down' = down /\ r.code = "EchoRequest"
              \/ pc' = "call" /\ down' = down /\ ~IsInstall(r)
<1>1. cur' = ReqFrame(i, r) /\ cur' \in Frame /\ pkg' = pkg
  BY FrameTypes DEF Dispatch
<1>2. ReplyFrame(i, "final", "Err") \in Reply
  BY FrameTypes
<1>3. /\ result' \in {"Ok", "Err"} /\ ret' \in {ret, "RecvError"}
      /\ effect' \in [Ids -> {"none", "running", "ok", "err"}]
  BY DEF Dispatch, Return, StreamTypeOK
<1>4. CASE pc' = "returned"
  <2>1. SendOk(ReplyFrame(i, "final", "Err")) \/ SendFails
    BY <1>4 DEF Dispatch
  <2>2. QED
    BY <1>1, <1>2, <1>3, <1>4, <2>1, SendShape
<1>5. CASE pc' # "returned"
  <2>1. down' = down /\ downEnd' = downEnd /\ downRecv' = downRecv
    BY <1>5 DEF Dispatch, Return, downVars
  <2>2. \/ pc' = "reply" /\ ~Served(r) /\ result' = "Err"
        \/ pc' = "preflight" /\ IsInstall(r)
        \/ pc' = "reply" /\ r.code = "EchoRequest"
        \/ pc' = "call" /\ ~IsInstall(r)
    BY <1>5 DEF Dispatch, Return
  <2>3. QED
    BY <1>1, <1>3, <2>1, <2>2 DEF StreamTypeOK
<1>6. QED
  BY <1>4, <1>5

\* A frame of the stream towards the agent is read, or all are discarded.
UpShrinks ==
    \/ up' \in {up, <<>>}
    \/ up # <<>> /\ up' = Tail(up)

\* What the agent does apart from taking the next request: it answers, if at
\* all, the request it serves, and serves it no longer after a last answer.
GoesOn ==
    /\ cur' = cur /\ (Serving' => Serving) /\ UpShrinks
    /\ \/ down' = down
       \/ \E r \in Reply :
             /\ Serving /\ r.id = cur.id /\ (Terminal(r) => ~Serving')
             /\ r.body = "Proceed" => r.step = "verdict"
             /\ down' = Append(down, r)

\* An answer is the last one to its request, or a Proceed, or a fragment.
LEMMA ReplyShape ==
    ASSUME NEW i, NEW b, NEW st
    PROVE  /\ ReplyFrame(i, st, b).id = i
           /\ ReplyFrame(i, st, b).body = b
           /\ ReplyFrame(i, st, b).step = st
BY DEF ReplyFrame

\* Every step of the agent is the next request, misread or not, or goes on.
LEMMA AgentShape ==
    ASSUME StreamTypeOK, AgentNext \/ Abort
    PROVE  /\ StreamTypeOK'
           /\ upEnd' = upEnd /\ downRecv' = downRecv
           /\ RecvRequest \/ RecvMisaligned \/ GoesOn
<1>0. cur.id \in Ids /\ cur.req.size \in Nat
  BY DEF StreamTypeOK, Frame, Request
<1>1. CASE Accept
  BY <1>1 DEF Accept, StreamTypeOK, upVars, downVars, GoesOn, UpShrinks,
     Serving
<1>2. CASE RecvRequest
  <2>1. /\ up # <<>> /\ up' = Tail(up) /\ upEnd' = upEnd /\ upRecv' = upRecv
        /\ Dispatch(Head(up).id, Head(up).req)
    BY <1>2 DEF RecvRequest, FrameReady
  <2>2. StreamTypeOK' /\ downRecv' = downRecv
    BY <2>1, UpHead, DispatchShape DEF StreamTypeOK
  <2>3. QED
    BY <1>2, <2>1, <2>2
<1>3. CASE RecvMisaligned
  <2>1. up # <<>> /\ up' = Tail(up) /\ upEnd' = upEnd /\ upRecv' = upRecv
    BY <1>3 DEF RecvMisaligned, FrameReady
  <2>2. CASE Return("RecvError")
             /\ UNCHANGED <<cur, pkg, result, effect, downVars>>
    BY <1>3, <2>1, <2>2, UpHead DEF StreamTypeOK, Return, downVars
  <2>3. CASE \E r \in Requests : Dispatch(0, r)
    <3>1. PICK r \in Requests : Dispatch(0, r)
      BY <2>3
    <3>2. r \in Request /\ 0 \in Ids
      BY StreamAssumption, FrameTypes
    <3>3. StreamTypeOK' /\ downRecv' = downRecv
      BY <2>1, <3>1, <3>2, UpHead, DispatchShape DEF StreamTypeOK
    <3>4. QED
      BY <1>3, <2>1, <3>3
  <2>4. QED
    BY <1>3, <2>2, <2>3 DEF RecvMisaligned
<1>4. CASE RecvEof \/ RecvFails
  BY <1>4 DEF RecvEof, RecvFails, Return, StreamTypeOK, upVars, downVars,
     GoesOn, UpShrinks, Serving
<1>5. CASE HandlerReads \/ DrainChunk
  <2>1. /\ ReadChunk /\ UNCHANGED <<downVars, cur, result, ret, effect>>
        /\ pc \in {"reading", "drain"} /\ pc' \in {"install", "drain"}
    BY <1>5 DEF HandlerReads, DrainChunk
  <2>2. UpShrinks
    BY <2>1, ReadChunkShape DEF UpShrinks, FrameReady
  <2>3. StreamTypeOK'
    BY <2>1, ReadChunkShape DEF StreamTypeOK, downVars
  <2>4. QED
    BY <2>1, <2>2, <2>3, ReadChunkShape DEF downVars, GoesOn, Serving
<1>6. CASE DrainEnds
  BY <1>6 DEF DrainEnds, StreamTypeOK, upVars, downVars, GoesOn, UpShrinks,
     Serving
<1>7. CASE SendReply
  <2> DEFINE r == ReplyFrame(cur.id, "final", result)
  <2>1. r \in Reply /\ r.id = cur.id /\ r.body = result /\ r.step = "final"
    BY <1>0, FrameTypes, ReplyShape DEF StreamTypeOK
  <2>2. result # "Proceed"
    BY DEF StreamTypeOK
  <2> HIDE DEF r
  <2>3. /\ SendOk(r) \/ SendFails
        /\ Serving /\ pc' \in {"recv", "returned"} /\ ret' \in {ret, "SendError"}
        /\ UNCHANGED <<upVars, cur, pkg, result, effect>>
    BY <1>7 DEF SendReply, Return, Serving, r
  <2>4. StreamTypeOK'
    BY <2>1, <2>3, SendShape DEF StreamTypeOK, upVars
  <2>5. GoesOn
    BY <2>1, <2>2, <2>3, SendShape DEF GoesOn, UpShrinks, Serving, upVars
  <2>6. QED
    BY <2>1, <2>3, <2>4, <2>5, SendShape DEF upVars
<1>8. CASE Release
  BY <1>8 DEF Release, StreamTypeOK, GoesOn, UpShrinks, Serving
<1>9. CASE \E r \in {"Ok", "Err"} : CallReturns(r) \/ HandlerReturns(r)
  BY <1>9 DEF CallReturns, HandlerReturns, StreamTypeOK, upVars, downVars,
     GoesOn, UpShrinks, Serving
<1>10. CASE \E v \in {"Proceed", "Refusal", "Err"} : Preflight(v)
  <2>1. PICK v \in {"Proceed", "Refusal", "Err"} : Preflight(v)
    BY <1>10
  <2> DEFINE r == ReplyFrame(cur.id, "verdict", v)
  <2>2. r \in Reply /\ r.id = cur.id /\ r.body = v /\ r.step = "verdict"
    BY <1>0, FrameTypes, ReplyShape
  <2> HIDE DEF r
  <2>3. /\ SendOk(r) \/ SendFails
        /\ Serving /\ pc' \in {"install", "recv", "returned"}
        /\ pkg' \in {pkg, NewReader(cur.req.size)}
        /\ effect' \in {effect, [effect EXCEPT ![cur.id] = "running"]}
        /\ ret' \in {ret, "SendError"}
        /\ UNCHANGED <<upVars, cur, result>>
    BY <2>1 DEF Preflight, Return, Serving, r
  <2>4. StreamTypeOK'
    BY <1>0, <2>2, <2>3, SendShape, ReaderFacts DEF StreamTypeOK, upVars
  <2>5. down' # down => v = "Proceed" \/ pc' = "recv"
    BY <2>1 DEF Preflight, SendFails, downVars
  <2>6. GoesOn
    BY <2>2, <2>3, <2>5, SendShape DEF GoesOn, UpShrinks, Serving, upVars,
       Terminal
  <2>7. QED
    BY <2>2, <2>3, <2>4, <2>6, SendShape DEF upVars
<1>11. CASE HandlerAwaits
  BY <1>11 DEF HandlerAwaits, StreamTypeOK, upVars, downVars, GoesOn,
     UpShrinks, Serving
<1>12. CASE Abort
  <2> DEFINE r == ReplyFrame(cur.id, "frag", "Err")
  <2>1. r \in Reply /\ r.id = cur.id /\ r.body = "Err" /\ r.step = "frag"
    BY <1>0, FrameTypes, ReplyShape
  <2> HIDE DEF r
  <2>2. /\ pc' = "released" /\ ret' = "Aborted" /\ upRecv' = "dropped"
        /\ downEnd' \in {downEnd, "fin"}
        /\ down' = down \/ (Serving /\ down' = Append(down, r))
        /\ UNCHANGED <<up, upEnd, downRecv, cur, pkg, result, effect>>
    BY <1>12 DEF Abort, Serving, r
  <2>3. down' \in Seq(Reply)
    BY <2>1, <2>2, PushFacts DEF StreamTypeOK
  <2>4. StreamTypeOK'
    BY <2>2, <2>3 DEF StreamTypeOK
  <2>5. GoesOn
    BY <2>1, <2>2 DEF GoesOn, UpShrinks, Serving
  <2>6. QED
    BY <2>2, <2>4, <2>5
<1>13. QED
  BY <1>1, <1>2, <1>3, <1>4, <1>5, <1>6, <1>7, <1>8, <1>9, <1>10, <1>11,
     <1>12 DEF AgentNext, AgentStep, HandlerStep

\* The initial states are well typed.
LEMMA InitTypes == Init => Types
<1> SUFFICES ASSUME Init PROVE Types
  OBVIOUS
<1>1. (CHOOSE r \in Requests : TRUE) \in Request
  BY StreamAssumption
<1>2. cur \in Frame /\ pkg \in PackageReader /\ cur.req \in Request
  BY <1>1, FrameTypes, ReaderFacts DEF Init, StreamInit, ReqFrame
<1>3. up \in Seq(Frame) /\ down \in Seq(Reply)
  BY DEF Init, StreamInit
<1>4. StreamTypeOK
  BY <1>2, <1>3 DEF Init, StreamInit, StreamTypeOK
<1>5. 0 \in Ids /\ 1 \in 1 .. MaxRequests + 1
  BY StreamAssumption DEF Ids
<1>6. inst \in [id : Ids, req : Request]
  BY <1>2, <1>5 DEF Init
<1>7. due \in Seq(Nat) /\ next \in 1 .. MaxRequests + 1
  BY <1>5 DEF Init
<1>8. QED
  BY <1>4, <1>6, <1>7 DEF Init, Types

\* The peer writes a frame.
LEMMA WriteType ==
    ASSUME StreamTypeOK, NEW f \in Frame, Write(f)
    PROVE  /\ StreamTypeOK' /\ up' = Append(up, f)
           /\ upEnd = "open" /\ upRecv = "held"
           /\ UNCHANGED <<upEnd, upRecv, down, downEnd, downRecv, pc, cur,
                          pkg, result, ret, effect>>
<1>1. up' = Append(up, f) /\ up' \in Seq(Frame)
  BY PushFacts DEF Write, StreamTypeOK
<1>2. /\ upEnd = "open" /\ upRecv = "held"
      /\ UNCHANGED <<upEnd, upRecv, down, downEnd, downRecv, pc, cur, pkg,
                     result, ret, effect>>
  BY DEF Write, CanWrite, downVars, agentVars
<1>3. QED
  BY <1>1, <1>2 DEF StreamTypeOK

\* The frames the peer writes.
LEMMA PeerFrames ==
    ASSUME Types
    PROVE  /\ next \in Nat /\ next >= 1
           /\ inst.id \in Ids /\ inst.req \in Request
           /\ inst.req.size \in Nat /\ inst.id \in Nat
           /\ \A r \in Requests : /\ r \in Request
                                  /\ next <= MaxRequests =>
                                        /\ next \in Ids
                                        /\ next + 1 \in 1 .. MaxRequests + 1
                                        /\ ReqFrame(next, r) \in Frame
           /\ \A n \in Nat : ChunkFrame(inst.id, inst.req, given, n) \in Frame
           /\ FragFrame(inst.id, inst.req, given) \in Frame
<1>1. next \in Nat /\ next >= 1 /\ MaxRequests \in Nat
  BY StreamAssumption DEF Types
<1>2. inst.id \in Ids /\ inst.req \in Request /\ given \in Nat
  BY DEF Types
<1>3. inst.req.size \in Nat /\ inst.id \in Nat
  BY <1>1, <1>2 DEF Request, Ids
<1>4. \A r \in Requests : r \in Request
  BY StreamAssumption
<1>5. next <= MaxRequests => next \in Ids /\ next + 1 \in 1 .. MaxRequests + 1
  BY <1>1 DEF Ids
<1>6. QED
  BY <1>1, <1>2, <1>3, <1>4, <1>5, FrameTypes

\* The sequence of what is due.
LEMMA DueTypes ==
    ASSUME Types
    PROVE  /\ Append(due, next) \in Seq(Nat)
           /\ due # <<>> => Tail(due) \in Seq(Nat)
BY DEF Types

\* Every step keeps the types.
LEMMA StepTypes ==
    ASSUME Types, [Next]_vars
    PROVE  Types'
<1>0. StreamTypeOK
  BY DEF Types
<1>1. CASE (AgentNext \/ Abort) /\ UNCHANGED peerVars
  BY <1>0, <1>1, AgentShape DEF Types, peerVars
<1>2. ASSUME NEW r \in Requests, PeerRequest(r)
      PROVE  Types'
  <2>1. /\ ppc = "ready" /\ next <= MaxRequests /\ Write(ReqFrame(next, r))
        /\ next' = next + 1 /\ due' \in {due, Append(due, next)}
        /\ ppc' \in {"ready", "verdict"} /\ given' = 0
        /\ inst' \in {inst, [id |-> next, req |-> r]}
        /\ UNCHANGED <<empties, answered, deviated>>
    BY <1>2 DEF PeerRequest
  <2>2. StreamTypeOK'
    BY <1>0, <2>1, WriteType, PeerFrames
  <2>3. inst' \in [id : Ids, req : Request]
    BY <2>1, PeerFrames DEF Types
  <2>4. QED
    BY <2>1, <2>2, <2>3, PeerFrames, DueTypes DEF Types
<1>3. ASSUME NEW n \in 0 .. inst.req.size, PeerChunk(n)
      PROVE  Types'
  <2>1. /\ ppc = "payload" /\ given + n <= inst.req.size
        /\ Write(ChunkFrame(inst.id, inst.req, given, n))
        /\ given' = given + n /\ empties' \in {empties, empties + 1}
        /\ UNCHANGED <<ppc, next, inst, due, answered, deviated>>
    BY <1>3 DEF PeerChunk
  <2>2. n \in Nat
    BY <1>3, PeerFrames
  <2>3. StreamTypeOK'
    BY <1>0, <2>1, <2>2, WriteType, PeerFrames
  <2>4. QED
    BY <2>1, <2>2, <2>3, PeerFrames DEF Types
<1>4. CASE PeerPayloadDone
  BY <1>4 DEF PeerPayloadDone, Types, StreamTypeOK, streamVars
<1>5. CASE PeerOverruns
  <2>1. PICK n \in Nat : n = inst.req.size - given + 1
    BY <1>5, PeerFrames DEF PeerOverruns, Types
  <2>2. StreamTypeOK'
    BY <1>0, <1>5, <2>1, WriteType, PeerFrames DEF PeerOverruns
  <2>3. QED
    BY <1>5, <2>2 DEF PeerOverruns, Types
<1>6. CASE PeerFinishes
  BY <1>6 DEF PeerFinishes, Types, StreamTypeOK, downVars, agentVars, peerVars
<1>7. CASE PeerReads
  <2>1. /\ down # <<>> /\ down' = Tail(down)
        /\ UNCHANGED <<upVars, downEnd, downRecv, agentVars, next, inst,
                       given, empties, deviated>>
        /\ answered' \in {answered, answered \cup {Head(down).id}}
        /\ due' = due \/ (due # <<>> /\ due' = Tail(due))
        /\ ppc' \in {ppc, "ready"} \/ (ppc = "verdict" /\ ppc' = "payload")
    BY <1>7 DEF PeerReads
  <2>a. down' \in Seq(Reply) /\ Head(down) \in Reply
    BY <1>0, <2>1, PopFacts DEF StreamTypeOK
  <2>2. down' \in Seq(Reply) /\ Head(down).id \in Nat
    BY <2>a, StreamAssumption DEF Reply, Ids
  <2>3. StreamTypeOK'
    BY <2>1, <2>2 DEF Types, StreamTypeOK, upVars, agentVars
  <2>4. QED
    <3>1. due' \in Seq(Nat) /\ answered' \subseteq Nat
      BY <2>1, <2>2, DueTypes DEF Types
    <3>2. /\ ppc' \in {"ready", "verdict", "payload"}
          /\ ppc' = "verdict" => given' = 0
          /\ ppc' = "payload" => given' <= inst'.req.size
      BY <2>1, PeerFrames DEF Types
    <3>3. QED
      BY <2>1, <2>3, <3>1, <3>2 DEF Types
<1>8. CASE PeerDrops
  <2>1. up' \in Seq(Frame)
    <3>1. up \in Seq(Frame) /\ FragFrame(inst.id, inst.req, given) \in Frame
      BY <1>0, PeerFrames DEF StreamTypeOK
    <3>2. QED
      BY <1>8, <3>1, PushFacts DEF PeerDrops
  <2>2. QED
    BY <1>8, <2>1 DEF PeerDrops, Types, StreamTypeOK, agentVars, peerVars
<1>9. CASE UNCHANGED vars
  BY <1>9 DEF vars, Types, StreamTypeOK
<1>10. QED
  BY <1>1, <1>2, <1>3, <1>4, <1>5, <1>6, <1>7, <1>8, <1>9
     DEF Next, PeerStep, Fault

-----------------------------------------------------------------------------
(* Request numbers: no request is answered twice. *)

\* No last answer to request i was written.
Unused(i) ==
    /\ i \notin answered
    /\ \A k \in 1 .. Len(down) : Terminal(down[k]) => down[k].id # i

\* Requests are on the stream in the order of their numbers; a fragment is
\* the end of it.
UpNumbers ==
    /\ \A k \in 1 .. Len(up) :
          /\ up[k].kind = "req" => up[k].id \in 1 .. next - 1
          /\ up[k].kind = "frag" => k = Len(up) /\ upEnd # "open"
    /\ \A j, k \in 1 .. Len(up) :
          j < k /\ up[j].kind = "req" /\ up[k].kind = "req"
              => up[j].id < up[k].id

DownNumbers ==
    /\ \A k \in 1 .. Len(down) :
          /\ down[k].id < next
          /\ down[k].body = "Proceed" => down[k].step = "verdict"
    /\ \A i \in answered : i < next

Numbers == cur.id < next /\ inst.id < next /\ UpNumbers /\ DownNumbers

\* What is waiting to be served, or being served, was not answered.
Once ==
    /\ \A k \in 1 .. Len(up) : up[k].kind = "req" => Unused(up[k].id)
    /\ Serving /\ cur.id # 0 =>
          /\ Unused(cur.id)
          /\ \A k \in 1 .. Len(up) : up[k].kind = "req" => up[k].id # cur.id
    /\ AnsweredOnce

\* Where the frames are after a read.
LEMMA ShrinkFacts ==
    ASSUME StreamTypeOK, UpShrinks
    PROVE  /\ Len(up') \in Nat /\ Len(up) \in Nat
           /\ \E d \in Nat : \A k \in 1 .. Len(up') :
                 /\ k + d \in 1 .. Len(up) /\ up'[k] = up[k + d]
                 /\ k + d = Len(up) => k = Len(up')
<1>1. Len(up) \in Nat
  BY EmptyFacts DEF StreamTypeOK
<1>2. CASE up' = up
  <2>1. \A k \in 1 .. Len(up') : /\ k + 0 \in 1 .. Len(up)
                                 /\ up'[k] = up[k + 0]
                                 /\ k + 0 = Len(up) => k = Len(up')
    BY <1>1, <1>2
  <2>2. QED
    BY <1>1, <1>2, <2>1
<1>3. CASE up' = <<>>
  <2>1. Len(up') = 0
    BY <1>3
  <2>2. QED
    BY <1>1, <2>1
<1>4. CASE up # <<>> /\ up' = Tail(up)
  <2>1. /\ Len(up') \in Nat /\ Len(up') = Len(up) - 1
        /\ \A k \in 1 .. Len(up) - 1 : k + 1 \in 1 .. Len(up)
                                       /\ up'[k] = up[k + 1]
    BY <1>4, PopFacts DEF StreamTypeOK
  <2>2. \A k \in 1 .. Len(up') : /\ k + 1 \in 1 .. Len(up)
                                 /\ up'[k] = up[k + 1]
                                 /\ k + 1 = Len(up) => k = Len(up')
    BY <1>1, <2>1
  <2>3. QED
    BY <1>1, <2>1, <2>2
<1>5. QED
  BY <1>2, <1>3, <1>4 DEF UpShrinks

\* Reading keeps the numbers on the stream in order.
LEMMA ShrinkKeeps ==
    ASSUME Types, UpNumbers, UpShrinks, upEnd' = upEnd, next' = next
    PROVE  UpNumbers'
<1>1. PICK d \in Nat : \A k \in 1 .. Len(up') :
          /\ k + d \in 1 .. Len(up) /\ up'[k] = up[k + d]
          /\ k + d = Len(up) => k = Len(up')
  BY ShrinkFacts DEF Types
<1>2. Len(up') \in Nat /\ Len(up) \in Nat
  BY ShrinkFacts DEF Types
<1>3. ASSUME NEW k \in 1 .. Len(up')
      PROVE  /\ up'[k].kind = "req" => up'[k].id \in 1 .. next - 1
             /\ up'[k].kind = "frag" => k = Len(up') /\ upEnd # "open"
  BY <1>1, <1>3 DEF UpNumbers
<1>4. ASSUME NEW j \in 1 .. Len(up'), NEW k \in 1 .. Len(up'), j < k,
             up'[j].kind = "req", up'[k].kind = "req"
      PROVE  up'[j].id < up'[k].id
  <2>1. j + d < k + d
    BY <1>2, <1>4
  <2>2. QED
    BY <1>1, <1>4, <2>1 DEF UpNumbers
<1>5. QED
  BY <1>3, <1>4 DEF UpNumbers

\* Nothing unused gets used but by a last answer to it.
LEMMA PushUnused ==
    ASSUME Types, NEW r \in Reply, down' = Append(down, r),
           answered' = answered, NEW i, Unused(i), Terminal(r) => r.id # i
    PROVE  Unused(i)'
<1>1. /\ Len(down) \in Nat /\ Len(down') = Len(down) + 1
      /\ \A k \in 1 .. Len(down) : down'[k] = down[k]
      /\ down'[Len(down) + 1] = r
  BY PushFacts DEF Types, StreamTypeOK
<1>2. ASSUME NEW k \in 1 .. Len(down'), Terminal(down'[k])
      PROVE  down'[k].id # i
  <2>1. CASE k \in 1 .. Len(down)
    BY <1>1, <1>2, <2>1 DEF Unused
  <2>2. CASE k = Len(down) + 1
    BY <1>1, <1>2, <2>2
  <2>3. QED
    BY <1>1, <2>1, <2>2
<1>3. QED
  BY <1>2 DEF Unused

\* A first last answer is the only one.
LEMMA PushOnce ==
    ASSUME Types, NEW r \in Reply, down' = Append(down, r),
           answered' = answered, AnsweredOnce,
           Terminal(r) /\ r.id # 0 => Unused(r.id)
    PROVE  AnsweredOnce'
<1>1. /\ Len(down) \in Nat /\ Len(down') = Len(down) + 1
      /\ \A k \in 1 .. Len(down) : down'[k] = down[k]
      /\ down'[Len(down) + 1] = r
  BY PushFacts DEF Types, StreamTypeOK
<1>2. ASSUME NEW i \in 1 .. Len(down'), Terminal(down'[i]), down'[i].id # 0
      PROVE  /\ down'[i].id \notin answered
             /\ \A j \in 1 .. Len(down') :
                   Terminal(down'[j]) /\ down'[j].id = down'[i].id => j = i
  <2>1. CASE i \in 1 .. Len(down)
    <3>1. Terminal(down[i]) /\ down[i].id # 0 /\ down'[i] = down[i]
      BY <1>1, <1>2, <2>1
    <3>2. ASSUME NEW j \in 1 .. Len(down'), Terminal(down'[j]),
                 down'[j].id = down'[i].id
          PROVE  j = i
      <4>1. CASE j \in 1 .. Len(down)
        BY <1>1, <2>1, <3>1, <3>2, <4>1 DEF AnsweredOnce
      <4>2. CASE j = Len(down) + 1
        <5>1. Terminal(r) /\ r.id # 0 /\ r.id = down[i].id
          BY <1>1, <3>1, <3>2, <4>2
        <5>2. QED
          BY <2>1, <3>1, <5>1 DEF Unused
      <4>3. QED
        BY <1>1, <4>1, <4>2
    <3>3. QED
      BY <2>1, <3>1, <3>2 DEF AnsweredOnce
  <2>2. CASE i = Len(down) + 1
    <3>1. Unused(r.id) /\ down'[i] = r
      BY <1>1, <1>2, <2>2
    <3>2. QED
      BY <1>1, <1>2, <2>2, <3>1 DEF Unused
  <2>3. QED
    BY <1>1, <2>1, <2>2
<1>3. QED
  BY <1>2 DEF AnsweredOnce

\* A written answer has its request's number.
LEMMA PushNumbers ==
    ASSUME Types, DownNumbers, NEW r \in Reply, down' = Append(down, r),
           answered' = answered, next' = next,
           r.id < next, r.body = "Proceed" => r.step = "verdict"
    PROVE  DownNumbers'
<1>1. /\ Len(down) \in Nat /\ Len(down') = Len(down) + 1
      /\ \A k \in 1 .. Len(down) : down'[k] = down[k]
      /\ down'[Len(down) + 1] = r
  BY PushFacts DEF Types, StreamTypeOK
<1>2. ASSUME NEW k \in 1 .. Len(down')
      PROVE  /\ down'[k].id < next
             /\ down'[k].body = "Proceed" => down'[k].step = "verdict"
  <2>1. CASE k \in 1 .. Len(down)
    BY <1>1, <2>1 DEF DownNumbers
  <2>2. CASE k = Len(down) + 1
    BY <1>1, <2>2
  <2>3. QED
    BY <1>1, <2>1, <2>2
<1>3. QED
  BY <1>2 DEF DownNumbers

\* The agent goes on with its request.
LEMMA GoesOnOnce ==
    ASSUME Types, Numbers, Once, GoesOn, upEnd' = upEnd,
           UNCHANGED peerVars
    PROVE  Numbers' /\ Once'
<1>0. /\ cur' = cur /\ (Serving' => Serving) /\ UpShrinks
      /\ next' = next /\ inst' = inst /\ answered' = answered
  BY DEF GoesOn, peerVars
<1>1. UpNumbers'
  BY <1>0, ShrinkKeeps DEF Numbers
<1>2. PICK d \in Nat : \A k \in 1 .. Len(up') :
          k + d \in 1 .. Len(up) /\ up'[k] = up[k + d]
  BY <1>0, ShrinkFacts DEF Types
<1>3. CASE down' = down
  <2>1. \A i : Unused(i) => Unused(i)'
    BY <1>0, <1>3 DEF Unused
  <2>2. Once'
    BY <1>0, <1>2, <1>3, <2>1 DEF Once, AnsweredOnce
  <2>3. Numbers'
    BY <1>0, <1>1, <1>3 DEF Numbers, DownNumbers
  <2>4. QED
    BY <2>2, <2>3
<1>4. ASSUME NEW r \in Reply,
             Serving, r.id = cur.id, Terminal(r) => ~Serving',
             r.body = "Proceed" => r.step = "verdict",
             down' = Append(down, r)
      PROVE  Numbers' /\ Once'
  <2>1. Numbers'
    BY <1>0, <1>1, <1>4, PushNumbers DEF Numbers
  <2>2. AnsweredOnce'
    BY <1>0, <1>4, PushOnce DEF Once
  <2>3. ASSUME NEW k \in 1 .. Len(up'), up'[k].kind = "req"
        PROVE  Unused(up[k].id)'
    <3>1. PICK m \in 1 .. Len(up) : up'[k] = up[m]
      BY <1>2
    <3>2. PICK x : x = up[m].id
      OBVIOUS
    <3>3. Unused(x) /\ x # 0
      BY <2>3, <3>1, <3>2 DEF Once, Numbers, UpNumbers
    <3>4. r.id # x
      BY <1>4, <2>3, <3>1, <3>2, <3>3 DEF Once
    <3>5. Unused(x)'
      BY <1>0, <1>4, <3>3, <3>4, PushUnused
    <3>6. QED
      BY <3>1, <3>2, <3>5
  <2>4. ASSUME Serving', cur.id # 0
        PROVE  Unused(cur.id)'
    <3>1. Unused(cur.id) /\ ~Terminal(r)
      BY <1>4, <2>4 DEF Once
    <3>2. QED
      BY <1>0, <1>4, <3>1, PushUnused
  <2>5. ASSUME Serving', cur.id # 0, NEW k \in 1 .. Len(up'),
               up'[k].kind = "req"
        PROVE  up'[k].id # cur.id
    BY <1>0, <1>2, <2>5 DEF Once
  <2>6. Once'
    BY <1>0, <2>2, <2>3, <2>4, <2>5 DEF Once
  <2>7. QED
    BY <2>1, <2>6
<1>5. QED
  BY <1>3, <1>4 DEF GoesOn

\* The agent takes the next frame for a request: number i, or 0 when it was
\* not one.
LEMMA DispatchOnce ==
    ASSUME Types, Numbers, Once, up # <<>>, up' = Tail(up), upEnd' = upEnd,
           UNCHANGED peerVars, NEW i \in Ids, NEW r \in Request,
           Dispatch(i, r),
           i # 0 => Head(up).kind = "req" /\ i = Head(up).id
    PROVE  Numbers' /\ Once'
<1>0. /\ next' = next /\ inst' = inst /\ answered' = answered /\ UpShrinks
      /\ StreamTypeOK
  BY DEF peerVars, UpShrinks, Types
<1>1. UpNumbers'
  BY <1>0, ShrinkKeeps DEF Numbers
<1>2. /\ Len(up) \in Nat /\ Len(up') = Len(up) - 1
      /\ Head(up) = up[1] /\ 1 \in 1 .. Len(up)
      /\ \A k \in 1 .. Len(up) - 1 : k + 1 \in 1 .. Len(up)
                                     /\ up'[k] = up[k + 1]
  BY <1>0, PopFacts DEF StreamTypeOK
<1>3. i < next /\ (i # 0 => Unused(i))
  <2>1. next \in Nat /\ next >= 1
    BY PeerFrames
  <2>2. CASE i = 0
    BY <2>1, <2>2
  <2>3. CASE i # 0
    <3>1. up[1].kind = "req" /\ up[1].id = i
      BY <1>2, <2>3
    <3>2. i \in 1 .. next - 1 /\ Unused(i)
      BY <1>2, <3>1 DEF Once, Numbers, UpNumbers
    <3>3. QED
      BY <2>1, <3>2
  <2>4. QED
    BY <2>2, <2>3
<1>4. ASSUME NEW k \in 1 .. Len(up'), up'[k].kind = "req"
      PROVE  Unused(up'[k].id) /\ up'[k].id # i /\ up'[k].id # 0
  <2>1. PICK m \in 1 .. Len(up) : m = k + 1 /\ up'[k] = up[m] /\ 1 < m
    BY <1>2
  <2>2. Unused(up[m].id) /\ up[m].id \in 1 .. next - 1
    BY <1>4, <2>1 DEF Once, Numbers, UpNumbers
  <2>3. i # 0 => up[1].id < up[m].id
    BY <1>2, <1>4, <2>1 DEF Numbers, UpNumbers
  <2>4. next \in Nat
    BY PeerFrames
  <2>5. i # 0 => i < up[m].id /\ i \in Nat
    BY <1>2, <2>3, StreamAssumption DEF Ids
  <2>6. QED
    BY <2>1, <2>2, <2>4, <2>5
<1>5. /\ cur' = ReqFrame(i, r) /\ cur'.id = i
      /\ \/ down' = down
         \/ /\ pc' = "returned"
            /\ down' = Append(down, ReplyFrame(i, "final", "Err"))
  <2>1. cur' = ReqFrame(i, r)
    BY <1>0, DispatchShape
  <2>2. QED
    BY <1>0, <2>1, DispatchShape DEF ReqFrame
<1>6. CASE down' = down
  <2>1. \A j : Unused(j) => Unused(j)'
    BY <1>0, <1>6 DEF Unused
  <2>2. Numbers'
    BY <1>0, <1>1, <1>3, <1>5, <1>6 DEF Numbers, DownNumbers
  <2>3. AnsweredOnce'
    BY <1>0, <1>6 DEF Once, AnsweredOnce
  <2>4. QED
    BY <1>3, <1>4, <1>5, <2>1, <2>2, <2>3 DEF Once
<1>7. CASE /\ pc' = "returned"
           /\ down' = Append(down, ReplyFrame(i, "final", "Err"))
  <2> DEFINE e == ReplyFrame(i, "final", "Err")
  <2>1. e \in Reply /\ e.id = i /\ e.step = "final" /\ e.body = "Err"
    BY FrameTypes, ReplyShape
  <2>2. down' = Append(down, e)
    BY <1>7
  <2> HIDE DEF e
  <2>3. DownNumbers'
    BY <1>0, <1>3, <2>1, <2>2, PushNumbers DEF Numbers
  <2>4. Numbers'
    BY <1>0, <1>1, <1>3, <1>5, <2>3 DEF Numbers
  <2>5. AnsweredOnce'
    BY <1>0, <1>3, <2>1, <2>2, PushOnce DEF Once
  <2>6. ASSUME NEW k \in 1 .. Len(up'), up'[k].kind = "req"
        PROVE  Unused(up[k].id)'
    <3>1. PICK x : x = up'[k].id
      OBVIOUS
    <3>2. Unused(x) /\ x # e.id
      BY <1>4, <2>1, <2>6, <3>1
    <3>3. Unused(x)'
      BY <1>0, <2>1, <2>2, <3>2, PushUnused
    <3>4. QED
      BY <3>1, <3>3
  <2>7. ~Serving'
    BY <1>7 DEF Serving
  <2>8. QED
    BY <2>4, <2>5, <2>6, <2>7 DEF Once
<1>8. QED
  BY <1>5, <1>6, <1>7

\* The peer writes a frame.
LEMMA WriteNumbers ==
    ASSUME Types, UpNumbers, upEnd = "open", NEW f \in Frame,
           up' = Append(up, f), next' \in {next, next + 1},
           f.kind = "req" => f.id = next /\ next' = next + 1,
           f.kind = "frag" => upEnd' # "open"
    PROVE  UpNumbers'
<1>1. /\ Len(up) \in Nat /\ Len(up') = Len(up) + 1
      /\ \A k \in 1 .. Len(up) : up'[k] = up[k]
      /\ up'[Len(up) + 1] = f
  BY PushFacts DEF Types, StreamTypeOK
<1>2. next \in Nat /\ next >= 1
  BY PeerFrames
<1>3. \A k \in 1 .. Len(up) :
          /\ up[k].kind = "req" => up[k].id \in 1 .. next - 1
          /\ up[k].kind # "frag"
  BY DEF UpNumbers
<1>4. ASSUME NEW k \in 1 .. Len(up')
      PROVE  /\ up'[k].kind = "req" => up'[k].id \in 1 .. next' - 1
             /\ up'[k].kind = "frag" => k = Len(up') /\ upEnd' # "open"
  <2>1. CASE k \in 1 .. Len(up)
    BY <1>1, <1>2, <1>3, <2>1
  <2>2. CASE k = Len(up) + 1
    BY <1>1, <1>2, <2>2
  <2>3. QED
    BY <1>1, <2>1, <2>2
<1>5. ASSUME NEW j \in 1 .. Len(up'), NEW k \in 1 .. Len(up'), j < k,
             up'[j].kind = "req", up'[k].kind = "req"
      PROVE  up'[j].id < up'[k].id
  <2>1. j \in 1 .. Len(up)
    BY <1>1, <1>5
  <2>2. CASE k \in 1 .. Len(up)
    BY <1>1, <1>5, <2>1, <2>2 DEF UpNumbers
  <2>3. CASE k = Len(up) + 1
    BY <1>1, <1>2, <1>3, <1>5, <2>1, <2>3
  <2>4. QED
    BY <1>1, <2>2, <2>3
<1>6. QED
  BY <1>4, <1>5 DEF UpNumbers

\* What was not written yet is not used.
LEMMA NextUnused ==
    ASSUME Types, DownNumbers
    PROVE  Unused(next)
<1>1. next \in Nat
  BY PeerFrames
<1>2. \A k \in 1 .. Len(down) : down[k].id # next
  BY <1>1 DEF DownNumbers
<1>3. next \notin answered
  BY <1>1 DEF DownNumbers
<1>4. QED
  BY <1>2, <1>3 DEF Unused

\* A frame of the peer leaves what is served and answered alone.
LEMMA WriteOnce ==
    ASSUME Types, Numbers, Once, upEnd = "open", NEW f \in Frame,
           up' = Append(up, f), next' \in {next, next + 1},
           f.kind = "req" => f.id = next /\ next' = next + 1,
           f.kind = "frag" => upEnd' # "open",
           UNCHANGED <<down, answered, pc, cur>>, inst'.id < next'
    PROVE  Numbers' /\ Once'
<1>1. /\ Len(up) \in Nat /\ Len(up') = Len(up) + 1
      /\ \A k \in 1 .. Len(up) : up'[k] = up[k]
      /\ up'[Len(up) + 1] = f
  BY PushFacts DEF Types, StreamTypeOK
<1>2. /\ next \in Nat /\ next' >= next /\ next' \in Nat /\ cur.id \in Nat
      /\ \A k \in 1 .. Len(down) : down[k].id \in Nat
      /\ \A i \in answered : i \in Nat
  <2>1. next \in Nat /\ Ids \subseteq Nat
    BY PeerFrames, StreamAssumption DEF Ids
  <2>2. cur.id \in Ids
    BY DEF Types, StreamTypeOK, Frame
  <2>3. \A k \in 1 .. Len(down) : down[k] \in Reply
    BY DEF Types, StreamTypeOK
  <2>4. \A k \in 1 .. Len(down) : down[k].id \in Ids
    BY <2>3 DEF Reply
  <2>5. answered \subseteq Nat
    BY DEF Types
  <2>6. next' >= next /\ next' \in Nat
    BY <2>1
  <2>7. QED
    BY <2>1, <2>2, <2>4, <2>5, <2>6
<1>3. UpNumbers'
  BY WriteNumbers DEF Numbers
<1>4. DownNumbers' /\ cur'.id < next'
  BY <1>2 DEF Numbers, DownNumbers
<1>5. \A i : Unused(i) => Unused(i)'
  BY DEF Unused
<1>6. AnsweredOnce'
  BY DEF Once, AnsweredOnce
<1>7. ASSUME NEW k \in 1 .. Len(up'), up'[k].kind = "req"
      PROVE  Unused(up'[k].id) /\ (Serving /\ cur.id # 0 => up'[k].id # cur.id)
  <2>1. CASE k \in 1 .. Len(up)
    BY <1>1, <1>7, <2>1 DEF Once
  <2>2. CASE k = Len(up) + 1
    <3>1. up'[k].id = next
      BY <1>1, <1>7, <2>2
    <3>2. QED
      BY <1>2, <3>1, NextUnused DEF Numbers
  <2>3. QED
    BY <1>1, <2>1, <2>2
<1>8. Once'
  <2>1. ASSUME NEW k \in 1 .. Len(up'), up'[k].kind = "req"
        PROVE  Unused(up[k].id)'
    BY <1>5, <1>7, <2>1
  <2>2. Serving' <=> Serving
    BY DEF Serving
  <2>3. QED
    BY <1>5, <1>6, <1>7, <2>1, <2>2 DEF Once
<1>9. QED
  BY <1>3, <1>4, <1>8 DEF Numbers

\* The peer reads an answer: the last answers move to the history.
LEMMA ReadOnce ==
    ASSUME Types, Numbers, Once, PeerReads
    PROVE  Numbers' /\ Once'
<1>1. /\ down # <<>> /\ down' = Tail(down)
      /\ answered' = IF Terminal(Head(down))
                     THEN answered \cup {Head(down).id} ELSE answered
      /\ UNCHANGED <<up, upEnd, pc, cur, next, inst>>
  BY DEF PeerReads, upVars, agentVars
<1>2. /\ Len(down) \in Nat /\ Len(down') = Len(down) - 1
      /\ Head(down) = down[1] /\ 1 \in 1 .. Len(down)
      /\ \A k \in 1 .. Len(down) - 1 : k + 1 \in 1 .. Len(down)
                                       /\ down'[k] = down[k + 1]
  BY <1>1, PopFacts DEF Types, StreamTypeOK
<1>3. \A i : Unused(i) => Unused(i)'
  BY <1>1, <1>2 DEF Unused
<1>4. DownNumbers'
  <2>1. \A k \in 1 .. Len(down') :
            /\ down'[k].id < next
            /\ down'[k].body = "Proceed" => down'[k].step = "verdict"
    BY <1>2 DEF Numbers, DownNumbers
  <2>2. \A i \in answered' : i < next
    BY <1>1, <1>2 DEF Numbers, DownNumbers
  <2>3. QED
    BY <1>1, <2>1, <2>2 DEF DownNumbers
<1>5. UpNumbers' /\ cur'.id < next' /\ inst'.id < next'
  BY <1>1 DEF Numbers, UpNumbers
<1>6. ASSUME NEW i \in 1 .. Len(down'), Terminal(down'[i]), down'[i].id # 0
      PROVE  /\ down'[i].id \notin answered'
             /\ \A j \in 1 .. Len(down') :
                   Terminal(down'[j]) /\ down'[j].id = down'[i].id => j = i
  <2>1. PICK m \in 1 .. Len(down) : m = i + 1 /\ down'[i] = down[m]
    BY <1>2
  <2>2. /\ down[m].id \notin answered
        /\ \A j \in 1 .. Len(down) :
              Terminal(down[j]) /\ down[j].id = down[m].id => j = m
    BY <1>6, <2>1 DEF Once, AnsweredOnce
  <2>3. m # 1
    BY <1>2, <2>1
  <2>4. down'[i].id \notin answered'
    BY <1>1, <1>2, <1>6, <2>1, <2>2, <2>3
  <2>5. ASSUME NEW j \in 1 .. Len(down'), Terminal(down'[j]),
               down'[j].id = down'[i].id
        PROVE  j = i
    <3>1. PICK n \in 1 .. Len(down) : n = j + 1 /\ down'[j] = down[n]
      BY <1>2
    <3>2. n = m
      BY <2>1, <2>2, <2>5, <3>1
    <3>3. QED
      BY <1>2, <2>1, <3>1, <3>2
  <2>6. QED
    BY <2>4, <2>5
<1>7. Once'
  <2>1. AnsweredOnce'
    BY <1>6 DEF AnsweredOnce
  <2>2. Serving' <=> Serving
    BY <1>1 DEF Serving
  <2>3. QED
    BY <1>1, <1>3, <2>1, <2>2 DEF Once
<1>8. QED
  BY <1>4, <1>5, <1>7 DEF Numbers

\* Nothing but the end of the stream or the peer's own state changes.
LEMMA StillOnce ==
    ASSUME Numbers, Once, UNCHANGED <<up, down, pc, cur, next, inst, answered>>,
           upEnd' = upEnd \/ upEnd' # "open"
    PROVE  Numbers' /\ Once'
<1>1. Numbers'
  BY DEF Numbers, UpNumbers, DownNumbers
<1>2. \A i : Unused(i) => Unused(i)'
  BY DEF Unused
<1>3. Once'
  BY <1>2 DEF Once, AnsweredOnce, Serving
<1>4. QED
  BY <1>1, <1>3

\* Every step keeps the numbers.
LEMMA StepOnce ==
    ASSUME Types, Numbers, Once, [Next]_vars
    PROVE  Numbers' /\ Once'
<1>0. StreamTypeOK
  BY DEF Types
<1>1. CASE (AgentNext \/ Abort) /\ UNCHANGED peerVars
  <2>1. CASE RecvRequest
    BY <1>0, <1>1, <2>1, DispatchOnce, UpHead DEF RecvRequest, FrameReady
  <2>2. CASE RecvMisaligned /\ ~GoesOn
    <3>1. up # <<>> /\ up' = Tail(up) /\ upEnd' = upEnd
      BY <2>2 DEF RecvMisaligned, FrameReady
    <3>2. \E r \in Requests : Dispatch(0, r)
      BY <2>2, <3>1 DEF RecvMisaligned, GoesOn, UpShrinks, Serving, Return,
         downVars
    <3>3. PICK r \in Requests : Dispatch(0, r)
      BY <3>2
    <3>4. r \in Request /\ 0 \in Ids
      BY StreamAssumption, FrameTypes
    <3>5. QED
      BY <1>1, <3>1, <3>3, <3>4, DispatchOnce
  <2>3. CASE GoesOn
    BY <1>0, <1>1, <2>3, AgentShape, GoesOnOnce
  <2>4. QED
    BY <1>0, <1>1, <2>1, <2>2, <2>3, AgentShape
<1>2. ASSUME NEW r \in Requests, PeerRequest(r)
      PROVE  Numbers' /\ Once'
  <2> DEFINE f == ReqFrame(next, r)
  <2>1. /\ next <= MaxRequests /\ Write(f) /\ next' = next + 1
        /\ inst' = inst \/ inst' = [id |-> next, req |-> r]
        /\ answered' = answered
    BY <1>2 DEF PeerRequest
  <2>2. f \in Frame /\ f.kind = "req" /\ f.id = next
    BY <2>1, PeerFrames DEF ReqFrame
  <2> HIDE DEF f
  <2>3. inst'.id < next'
    <3>1. next \in Nat /\ inst.id \in Nat /\ inst.id < next
      BY PeerFrames DEF Numbers
    <3>2. QED
      BY <2>1, <3>1
  <2>4. QED
    BY <1>0, <2>1, <2>2, <2>3, WriteType, WriteOnce
<1>3. ASSUME NEW n \in Nat,
             Write(ChunkFrame(inst.id, inst.req, given, n)),
             UNCHANGED <<next, inst, answered>>
      PROVE  Numbers' /\ Once'
  <2> DEFINE f == ChunkFrame(inst.id, inst.req, given, n)
  <2>1. f \in Frame /\ f.kind = "chunk" /\ Write(f)
    BY <1>3, PeerFrames DEF ChunkFrame
  <2> HIDE DEF f
  <2>2. QED
    BY <1>0, <1>3, <2>1, WriteType, WriteOnce DEF Numbers
<1>4. ASSUME NEW n \in 0 .. inst.req.size, PeerChunk(n)
      PROVE  Numbers' /\ Once'
  BY <1>3, <1>4, PeerFrames DEF PeerChunk
<1>5. CASE PeerOverruns
  <2>1. PICK n \in Nat : n = inst.req.size - given + 1
    BY <1>5, PeerFrames DEF PeerOverruns, Types
  <2>2. QED
    BY <1>3, <1>5, <2>1 DEF PeerOverruns
<1>6. CASE PeerDrops
  <2>1. CASE up' = up
    BY <1>6, <2>1, StillOnce DEF PeerDrops, agentVars, peerVars
  <2>2. CASE up' = Append(up, FragFrame(inst.id, inst.req, given))
    <3> DEFINE f == FragFrame(inst.id, inst.req, given)
    <3>1. f \in Frame /\ f.kind = "frag" /\ up' = Append(up, f)
      BY <2>2, PeerFrames DEF FragFrame
    <3> HIDE DEF f
    <3>2. QED
      BY <1>6, <3>1, WriteOnce DEF PeerDrops, agentVars, peerVars, Numbers
  <2>3. QED
    BY <1>6, <2>1, <2>2 DEF PeerDrops
<1>7. CASE PeerPayloadDone \/ PeerFinishes \/ UNCHANGED vars
  BY <1>7, StillOnce DEF PeerPayloadDone, PeerFinishes, streamVars, downVars,
     agentVars, peerVars, vars
<1>8. CASE PeerReads
  BY <1>8, ReadOnce
<1>9. QED
  BY <1>1, <1>2, <1>4, <1>5, <1>6, <1>7, <1>8 DEF Next, PeerStep, Fault

-----------------------------------------------------------------------------
(* Order: with a peer that keeps to the contract, the loop stays aligned and *)
(* the answers come in the order in which they are due.                      *)

InDue(i) == \E k \in 1 .. Len(due) : due[k] = i
InDown(i) == \E k \in 1 .. Len(down) : Terminal(down[k]) /\ down[k].id = i
InUp(i) ==
    \E k \in 1 .. Len(up) : /\ up[k].kind = "req" /\ up[k].id = i
                            /\ ExpectsResponse(up[k].req)

\* What the peer expects: answers in the order of the requests, with the
\* install it waits for the last of them.
DueInv ==
    /\ \A k \in 1 .. Len(due) : due[k] < next
    /\ \A j, k \in 1 .. Len(due) : j < k => due[j] < due[k]
    /\ ppc = "verdict" => InDue(inst.id) /\ IsInstall(inst.req)
    /\ ppc # "ready" => inst.id = next - 1

\* An error written when the loop gave up may answer a request that expects
\* no answer; it is the last thing the agent writes.
Stray(k) == k = Len(down) /\ down[k].body = "Err" /\ ~Live

\* The answer at k is due, and what is due before it is answered before it.
Aligned(k) ==
    /\ InDue(down[k].id)
    /\ \A i \in 1 .. Len(due) : due[i] < down[k].id =>
          \E j \in 1 .. k - 1 : Terminal(down[j]) /\ down[j].id = due[i]

\* The answers under way.
DownOrder ==
    \A j, k \in 1 .. Len(down) :
        j < k /\ down[k].step # "frag" =>
            /\ Terminal(down[j]) => down[j].id < down[k].id
            /\ ~(down[j].step = "verdict" /\ down[k].step = "verdict")

DownEach ==
    \A k \in 1 .. Len(down) :
        /\ down[k].step # "frag" => Stray(k) \/ Aligned(k)
        /\ down[k].step = "verdict" => ppc = "verdict" /\ down[k].id = inst.id
        /\ /\ down[k].step = "final" /\ down[k].body # "Err"
           /\ ppc = "verdict" /\ down[k].id = inst.id
           => \E j \in 1 .. k - 1 : down[j].body = "Proceed"

DownInv == DownOrder /\ DownEach

\* While the loop goes on, what is due is an answer under way, the request
\* being served or one that waits on the stream.
DueSomewhere ==
    \A i \in Nat :
        InDue(i) <=> \/ InDown(i) \/ InUp(i)
                     \/ Serving /\ cur.id = i /\ ExpectsResponse(cur.req)

\* The answers under way are to requests up to the one served.
DownServed ==
    \A k \in 1 .. Len(down) : down[k].step # "frag" =>
        /\ down[k].id <= cur.id
        /\ Serving /\ Terminal(down[k]) => down[k].id < cur.id
        /\ pc = "preflight" => down[k].id < cur.id
        /\ down[k].body = "Proceed" /\ ~pkg.failed =>
               cur.id = inst.id /\ (Receiving \/ inst.req.size = 0)

\* An install is carried out before the peer has read the Proceed only while
\* that is under way.
Unread == ppc = "verdict" /\ cur.id = inst.id

ProceedUnderWay ==
    /\ Unread
    /\ Receiving \/ (pc = "reply" /\ result = "Ok")
    => \E j \in 1 .. Len(down) : down[j].body = "Proceed"

LiveDown == DueSomewhere /\ DownServed /\ ProceedUnderWay

\* The requests on the stream come after the one served; an install among
\* them is the one the peer waits for.
UpServed ==
    \A k \in 1 .. Len(up) : up[k].kind = "req" =>
        /\ up[k].id > cur.id
        /\ IsInstall(up[k].req) => ppc = "verdict" /\ up[k].id = inst.id
        /\ ppc = "verdict" /\ up[k].id = inst.id => up[k].req = inst.req

CurServed ==
    /\ Serving /\ Unread => cur.req = inst.req
    /\ pc = "preflight" => Unread
    /\ pc = "call" => ~IsInstall(cur.req)
    /\ pc = "preflight" \/ Receiving => IsInstall(cur.req)
    /\ pc = "reply" => ExpectsResponse(cur.req)

\* A read fails at the end of the stream only.
ReaderInv ==
    /\ pkg.remaining <= pkg.size
    /\ pkg.failed => /\ upEnd # "open"
                     /\ pc \in {"install", "reading", "drain", "reply", "recv"}
                     /\ \A k \in 1 .. Len(up) : up[k].kind = "frag"

UpInv == UpServed /\ CurServed /\ ReaderInv

\* The payload read and under way ends before byte e.
EndsAt(e) ==
    /\ (up = <<>> \/ up[1].kind # "chunk") => pkg.size - pkg.remaining = e
    /\ \A k \in 1 .. Len(up) :
          up[k].kind = "chunk" /\ (k = Len(up) \/ up[k + 1].kind # "chunk")
          => up[k].off + up[k].len = e

\* The chunks under way are the next ones of the install that is read, and
\* ahead of everything else.
Chunks ==
    \A k \in 1 .. Len(up) : up[k].kind = "chunk" =>
        /\ Receiving /\ ~Unread /\ up[k].id = cur.id
        /\ up[k].off < pkg.size /\ up[k].off + up[k].len <= pkg.size
        /\ k = 1 => up[k].off = pkg.size - pkg.remaining
        /\ k > 1 => up[k - 1].off + up[k - 1].len = up[k].off
        /\ \A j \in 1 .. k : up[j].kind = "chunk"

\* How far the peer is with the payload.
Payload ==
    /\ ppc = "payload" =>
          /\ cur.id = inst.id
          /\ IF Receiving THEN pkg.size = inst.req.size /\ EndsAt(given)
             ELSE given = inst.req.size
    /\ Receiving /\ Unread =>
          pkg.size = inst.req.size /\ pkg.remaining = pkg.size
    /\ Receiving /\ ppc # "payload" /\ ~Unread => EndsAt(pkg.size)

ChunkInv == Chunks /\ Payload

Order ==
    /\ upEnd = "reset" => downRecv = "dropped"
    /\ DueInv
    /\ downRecv = "held" => DownInv
    /\ Live /\ downRecv = "held" => LiveDown
    /\ Live => UpInv
    /\ Live /\ ~pkg.failed => ChunkInv

IInv == Types /\ Numbers /\ Once /\ (~deviated => Order)

\* What the types say of the numbers in the state.
LEMMA NumberTypes ==
    ASSUME Types
    PROVE  /\ next \in Nat /\ next >= 1 /\ cur.id \in Nat /\ inst.id \in Nat
           /\ given \in Nat /\ inst.req.size \in Nat /\ cur.req.size \in Nat
           /\ Len(up) \in Nat /\ Len(down) \in Nat /\ Len(due) \in Nat
           /\ pkg.size \in Nat /\ pkg.remaining \in Nat
           /\ pkg.failed \in BOOLEAN
           /\ \A k \in 1 .. Len(up) : /\ up[k].id \in Nat /\ up[k].off \in Nat
                                      /\ up[k].len \in Nat
                                      /\ up[k].kind \in {"req", "chunk", "frag"}
           /\ \A k \in 1 .. Len(down) :
                 /\ down[k].id \in Nat
                 /\ down[k].step \in {"verdict", "final", "frag"}
                 /\ down[k].body \in {"Proceed", "Refusal", "Ok", "Err"}
           /\ \A k \in 1 .. Len(due) : due[k] \in Nat
<1>1. /\ next \in Nat /\ next >= 1 /\ inst.id \in Nat /\ given \in Nat
      /\ inst.req.size \in Nat
  BY PeerFrames DEF Types
<1>2. Ids \subseteq Nat
  BY StreamAssumption DEF Ids
<1>3. cur.id \in Nat /\ cur.req.size \in Nat
  BY <1>2 DEF Types, StreamTypeOK, Frame, Request
<1>4. /\ pkg.size \in Nat /\ pkg.remaining \in Nat
      /\ pkg.failed \in BOOLEAN
  BY DEF Types, StreamTypeOK, PackageReader
<1>5. /\ Len(up) \in Nat /\ Len(down) \in Nat /\ Len(due) \in Nat
      /\ \A k \in 1 .. Len(up) : up[k] \in Frame
      /\ \A k \in 1 .. Len(down) : down[k] \in Reply
      /\ \A k \in 1 .. Len(due) : due[k] \in Nat
  BY DEF Types, StreamTypeOK
<1>6. \A f \in Frame : /\ f.id \in Nat /\ f.off \in Nat /\ f.len \in Nat
                       /\ f.kind \in {"req", "chunk", "frag"}
  BY <1>2 DEF Frame
<1>7. \A r \in Reply : /\ r.id \in Nat
                       /\ r.step \in {"verdict", "final", "frag"}
                       /\ r.body \in {"Proceed", "Refusal", "Ok", "Err"}
  BY <1>2 DEF Reply
<1>8. QED
  BY <1>1, <1>3, <1>4, <1>5, <1>6, <1>7

\* The first answer under way is to the request whose answer is due first.
LEMMA HeadDue ==
    ASSUME Types, DueInv, DownInv, down # <<>>, down[1].step # "frag",
           ~Stray(1)
    PROVE  /\ due # <<>> /\ 1 \in 1 .. Len(due) /\ due[1] = down[1].id
           /\ 1 \in 1 .. Len(down)
<1>1. Len(down) \in Nat /\ Len(due) \in Nat
  BY NumberTypes
<1>2. 1 \in 1 .. Len(down)
  <2>1. Len(down) # 0
    BY EmptyFacts DEF Types, StreamTypeOK
  <2>2. QED
    BY <1>1, <2>1
<1>3. Aligned(1)
  BY <1>2 DEF DownInv, DownEach
<1>4. PICK k \in 1 .. Len(due) : due[k] = down[1].id
  BY <1>3 DEF Aligned, InDue
<1>5. 1 \in 1 .. Len(due)
  BY <1>1
<1>6. k = 1
  <2>1. SUFFICES ASSUME k # 1 PROVE FALSE
    OBVIOUS
  <2>2. due[1] < due[k]
    BY <1>1, <1>5, <2>1 DEF DueInv
  <2>3. \E j \in 1 .. 1 - 1 : Terminal(down[j]) /\ down[j].id = due[1]
    BY <1>3, <1>4, <1>5, <2>2 DEF Aligned
  <2>4. QED
    BY <2>3
<1>7. due # <<>>
  BY <1>5
<1>8. QED
  BY <1>2, <1>4, <1>5, <1>6, <1>7

\* The loop and the PackageReader are where the next frame belongs.
LEMMA LoopFacts ==
    ASSUME Types, Numbers, Order, Live, FrameReady
    PROVE  /\ Head(up) = up[1] /\ 1 \in 1 .. Len(up) /\ ~pkg.failed
           /\ pc = "recv" => up[1].kind = "req"
           /\ Receiving /\ pkg.remaining > 0 =>
                 /\ up[1].kind = "chunk" /\ up[1].id = cur.id
                 /\ up[1].off = pkg.size - pkg.remaining
<1>1. /\ up # <<>> /\ Head(up) = up[1] /\ 1 \in 1 .. Len(up)
      /\ up[1].kind \in {"req", "chunk"}
  BY UpHead DEF Types, FrameReady
<1>2. UpServed /\ CurServed /\ ReaderInv
  BY DEF Order, UpInv
<1>3. ~pkg.failed
  BY <1>1, <1>2 DEF ReaderInv
<1>4. Chunks /\ Payload
  BY <1>3 DEF Order, ChunkInv
<1>5. pc = "recv" => up[1].kind = "req"
  BY <1>1, <1>4 DEF Chunks, Receiving
<1>6. ASSUME Receiving, pkg.remaining > 0
      PROVE  up[1].kind = "chunk"
  <2>1. SUFFICES ASSUME up[1].kind = "req" PROVE FALSE
    BY <1>1
  <2>2. up[1].id > cur.id /\ up[1].id < next /\ up[1].id \in Nat
    BY <1>1, <1>2, <2>1, NumberTypes DEF UpServed, Numbers, UpNumbers
  <2>3. ~(ppc # "ready" /\ cur.id = inst.id)
    BY <2>2, NumberTypes DEF Order, DueInv
  <2>4. ppc # "payload" /\ ~Unread
    BY <1>4, <2>3 DEF Payload, Unread
  <2>5. pkg.size - pkg.remaining = pkg.size
    BY <1>4, <1>6, <2>1, <2>4 DEF Payload, EndsAt
  <2>6. QED
    BY <1>6, <2>5, NumberTypes
<1>7. QED
  BY <1>1, <1>3, <1>4, <1>5, <1>6 DEF Chunks

-----------------------------------------------------------------------------
(* The answers under way. *)

\* Nothing is written or read.
LEMMA DownStays ==
    ASSUME DownInv, UNCHANGED <<down, due, ppc, inst>>, Live' => Live
    PROVE  DownInv'
<1>1. \A k : (Stray(k) => Stray(k)') /\ (Aligned(k) => Aligned(k)')
  BY DEF Stray, Aligned, InDue
<1>2. DownOrder'
  BY DEF DownInv, DownOrder
<1>3. DownEach'
  BY <1>1 DEF DownInv, DownEach
<1>4. QED
  BY <1>2, <1>3 DEF DownInv

\* An answer is written.
LEMMA DownPush ==
    ASSUME Types, DownInv, Live, UNCHANGED <<due, ppc, inst>>,
           NEW r \in Reply, down' = Append(down, r),
           r.step # "frag" =>
              /\ \A k \in 1 .. Len(down) :
                    /\ Terminal(down[k]) => down[k].id < r.id
                    /\ ~(down[k].step = "verdict" /\ r.step = "verdict")
              /\ \/ r.body = "Err" /\ ~Live'
                 \/ /\ InDue(r.id)
                    /\ \A i \in 1 .. Len(due) : due[i] < r.id => InDown(due[i])
              /\ r.step = "verdict" => ppc = "verdict" /\ r.id = inst.id
              /\ /\ r.step = "final" /\ r.body # "Err"
                 /\ ppc = "verdict" /\ r.id = inst.id
                 => \E j \in 1 .. Len(down) : down[j].body = "Proceed"
    PROVE  DownInv'
<1>1. /\ Len(down) \in Nat /\ Len(down') = Len(down) + 1
      /\ \A k \in 1 .. Len(down) : down'[k] = down[k]
      /\ down'[Len(down) + 1] = r
  BY PushFacts DEF Types, StreamTypeOK
<1>2. DownOrder'
  <2>1. SUFFICES ASSUME NEW j \in 1 .. Len(down'), NEW k \in 1 .. Len(down'),
                        j < k, down'[k].step # "frag"
                 PROVE  /\ Terminal(down'[j]) => down'[j].id < down'[k].id
                        /\ ~(/\ down'[j].step = "verdict"
                             /\ down'[k].step = "verdict")
    BY DEF DownOrder
  <2>2. j \in 1 .. Len(down) /\ down'[j] = down[j]
    BY <1>1, <2>1
  <2>3. CASE k \in 1 .. Len(down)
    BY <1>1, <2>1, <2>2, <2>3 DEF DownInv, DownOrder
  <2>4. CASE k = Len(down) + 1
    BY <1>1, <2>1, <2>2, <2>4
  <2>5. QED
    BY <1>1, <2>3, <2>4
<1>3. ASSUME NEW k \in 1 .. Len(down), Aligned(k)
      PROVE  Aligned(k)'
  <2>1. down'[k] = down[k] /\ \A j \in 1 .. k - 1 : down'[j] = down[j]
    BY <1>1
  <2>2. QED
    BY <1>3, <2>1 DEF Aligned, InDue
<1>4. ASSUME NEW k \in 1 .. Len(down'), k = Len(down) + 1, r.step # "frag"
      PROVE  Stray(k)' \/ Aligned(k)'
  <2>1. CASE r.body = "Err" /\ ~Live'
    BY <1>1, <1>4, <2>1 DEF Stray
  <2>2. CASE /\ InDue(r.id)
             /\ \A i \in 1 .. Len(due) : due[i] < r.id => InDown(due[i])
    <3>1. InDue(down[k].id)'
      BY <1>1, <1>4, <2>2 DEF InDue
    <3>2. ASSUME NEW i \in 1 .. Len(due), due[i] < r.id
          PROVE  \E j \in 1 .. k - 1 :
                     Terminal(down'[j]) /\ down'[j].id = due[i]
      <4>1. PICK j \in 1 .. Len(down) : Terminal(down[j])
                                        /\ down[j].id = due[i]
        BY <2>2, <3>2 DEF InDown
      <4>2. j \in 1 .. k - 1 /\ down'[j] = down[j]
        BY <1>1, <1>4
      <4>3. QED
        BY <4>1, <4>2
    <3>3. Aligned(k)'
      BY <1>1, <1>4, <3>1, <3>2 DEF Aligned
    <3>4. QED
      BY <3>3
  <2>3. QED
    BY <1>4, <2>1, <2>2
<1>5. DownEach'
  <2>1. SUFFICES ASSUME NEW k \in 1 .. Len(down')
                 PROVE  /\ down'[k].step # "frag" => Stray(k)' \/ Aligned(k)'
                        /\ down'[k].step = "verdict" =>
                              ppc = "verdict" /\ down'[k].id = inst.id
                        /\ /\ down'[k].step = "final"
                           /\ down'[k].body # "Err"
                           /\ ppc = "verdict" /\ down'[k].id = inst.id
                           => \E j \in 1 .. k - 1 : down'[j].body = "Proceed"
    BY DEF DownEach
  <2>2. CASE k \in 1 .. Len(down)
    <3>1. down'[k] = down[k] /\ \A j \in 1 .. k - 1 : down'[j] = down[j]
      BY <1>1, <2>2
    <3>2. down[k].step # "frag" => Aligned(k)
      BY <2>2 DEF DownInv, DownEach, Stray
    <3>3. QED
      BY <1>3, <2>2, <3>1, <3>2 DEF DownInv, DownEach
  <2>3. CASE k = Len(down) + 1
    <3>1. down'[k] = r /\ 1 .. k - 1 = 1 .. Len(down)
      BY <1>1, <2>3
    <3>2. r.step # "frag" => Stray(k)' \/ Aligned(k)'
      BY <1>4, <2>3
    <3>3. /\ r.step = "final" /\ r.body # "Err"
          /\ ppc = "verdict" /\ r.id = inst.id
          => \E j \in 1 .. k - 1 : down'[j].body = "Proceed"
      BY <1>1, <3>1
    <3>4. r.step = "verdict" => ppc = "verdict" /\ r.id = inst.id
      OBVIOUS
    <3>5. QED
      BY <3>1, <3>2, <3>3, <3>4
  <2>4. QED
    BY <1>1, <2>2, <2>3
<1>6. QED
  BY <1>2, <1>5 DEF DownInv

-----------------------------------------------------------------------------
(* The steps of the agent. *)

\* The peer's side and the ends of the streams stay.
PeerStays == UNCHANGED peerVars /\ upEnd' = upEnd /\ downRecv' = downRecv

\* What the peer expects does not change with the agent.
LEMMA DueStays ==
    ASSUME Order, PeerStays
    PROVE  /\ UNCHANGED <<ppc, next, inst, given, due, answered, deviated>>
           /\ DueInv' /\ (upEnd' = "reset" => downRecv' = "dropped")
BY DEF Order, PeerStays, peerVars, DueInv, InDue

\* The loop gives up, or the stream is dropped, without another answer.
LEMMA LeaveOrder ==
    ASSUME Order, PeerStays, down' = down, pc' \in {"returned", "released"}
    PROVE  Order'
<1>1. ~Live'
  BY DEF Live
<1>2. downRecv = "held" => DownInv'
  BY <1>1, DownStays, DueStays DEF Order
<1>3. QED
  BY <1>1, <1>2, DueStays DEF Order, PeerStays

\* The task is dropped, perhaps in the middle of an answer.
LEMMA AbortOrder ==
    ASSUME Types, Order, Abort, UNCHANGED peerVars
    PROVE  Order'
<1>1. PeerStays /\ pc' = "released" /\ Live /\ ~Live'
  BY DEF Abort, PeerStays, Live
<1>2. CASE down' = down
  BY <1>1, <1>2, LeaveOrder
<1>3. CASE down' # down
  <2> DEFINE r == ReplyFrame(cur.id, "frag", "Err")
  <2>1. r \in Reply /\ r.step = "frag"
    BY FrameTypes, ReplyShape DEF Types, StreamTypeOK, Frame
  <2>2. down' = Append(down, r)
    BY <1>3 DEF Abort
  <2> HIDE DEF r
  <2>3. downRecv = "held" => DownInv'
    BY <1>1, <2>1, <2>2, DownPush, DueStays DEF Order
  <2>4. QED
    BY <1>1, <2>3, DueStays DEF Order, PeerStays
<1>4. QED
  BY <1>2, <1>3

\* The task moves on with the request it serves, or to the next, and touches
\* neither stream.
LEMMA QuietOrder ==
    ASSUME Types, Order, PeerStays, UNCHANGED <<up, down, cur, pkg>>,
           \/ pc = "accept" /\ pc' = "recv"
           \/ pc = "install" /\ pc' \in {"reading", "drain"}
           \/ pc = "call" /\ pc' = "reply" /\ ExpectsResponse(cur.req)
           \/ pc = "call" /\ pc' = "recv" /\ ~ExpectsResponse(cur.req)
    PROVE  Order'
<1>0. /\ Live /\ Live' /\ (Receiving' <=> Receiving)
      /\ ExpectsResponse(cur.req) => (Serving' <=> Serving)
      /\ UNCHANGED <<ppc, next, inst, given, due, upEnd, downRecv>>
  BY DueStays DEF Live, Serving, Receiving, PeerStays
<1>1. UpInv'
  <2>1. UpInv
    BY <1>0 DEF Order
  <2>2. UpServed'
    BY <1>0, <2>1 DEF UpInv, UpServed
  <2>3. CurServed'
    BY <1>0, <2>1 DEF UpInv, CurServed, Serving, Receiving, Unread
  <2>4. ReaderInv'
    BY <1>0, <2>1 DEF UpInv, ReaderInv
  <2>5. QED
    BY <2>2, <2>3, <2>4 DEF UpInv
<1>2. ASSUME ~pkg.failed PROVE ChunkInv'
  <2>1. Chunks /\ Payload
    BY <1>0, <1>2 DEF Order, ChunkInv
  <2>2. Unread' <=> Unread
    BY <1>0 DEF Unread
  <2>3. Chunks'
    BY <1>0, <2>1, <2>2 DEF Chunks
  <2>4. \A e : EndsAt(e) => EndsAt(e)'
    BY DEF EndsAt
  <2>5. Payload'
    BY <1>0, <2>1, <2>2, <2>4 DEF Payload
  <2>6. QED
    BY <2>3, <2>5 DEF ChunkInv
<1>3. ASSUME downRecv = "held" PROVE LiveDown'
  <2>1. DueSomewhere /\ DownServed /\ ProceedUnderWay
    BY <1>0, <1>3 DEF Order, LiveDown
  <2>2. DueSomewhere'
    <3>1. /\ \A i : InDue(i)' <=> InDue(i)
          /\ \A i : InDown(i)' <=> InDown(i)
          /\ \A i : InUp(i)' <=> InUp(i)
      BY <1>0 DEF InDue, InDown, InUp
    <3>2. QED
      BY <1>0, <2>1, <3>1 DEF DueSomewhere
  <2>3. DownServed'
    BY <1>0, <2>1 DEF DownServed, Serving
  <2>4. ProceedUnderWay'
    <3>1. SUFFICES ASSUME Unread, Receiving \/ pc' = "reply"
                   PROVE  \E j \in 1 .. Len(down) : down[j].body = "Proceed"
      BY <1>0 DEF ProceedUnderWay, Unread
    <3>2. Receiving
      <4>1. SUFFICES ASSUME pc = "call" PROVE FALSE
        BY <3>1
      <4>2. CurServed /\ DueInv
        BY <1>0 DEF Order, UpInv
      <4>3. QED
        BY <3>1, <4>1, <4>2 DEF CurServed, DueInv, Serving, Unread
    <3>3. QED
      BY <2>1, <3>1, <3>2 DEF ProceedUnderWay
  <2>5. QED
    BY <2>2, <2>3, <2>4 DEF LiveDown
<1>4. downRecv = "held" => DownInv'
  BY <1>0, DownStays DEF Order
<1>5. QED
  BY <1>0, <1>1, <1>2, <1>3, <1>4, DueStays DEF Order

\* A request whose arm answers without serving it expects an answer.
LEMMA ExpectsFacts ==
    ASSUME NEW r
    PROVE  /\ ~Served(r) => ExpectsResponse(r)
           /\ r.code = "EchoRequest" => ExpectsResponse(r) /\ ~IsInstall(r)
           /\ IsInstall(r) => ExpectsResponse(r)
BY DEF Served, ExpectsResponse, IsInstall, NodeCodes

\* The loop takes the next request.
LEMMA RequestOrder ==
    ASSUME Types, Numbers, Order, RecvRequest, UNCHANGED peerVars
    PROVE  Order'
<1> DEFINE i == up[1].id
           r == up[1].req
<1>1. /\ PeerStays /\ FrameReady /\ pc = "recv" /\ Live /\ up # <<>>
      /\ up' = Tail(up) /\ Dispatch(Head(up).id, Head(up).req)
      /\ Head(up).kind = "req"
  <2>1. /\ FrameReady /\ pc = "recv" /\ Live /\ up # <<>>
        /\ up' = Tail(up) /\ Dispatch(Head(up).id, Head(up).req)
        /\ Head(up).kind = "req" /\ upEnd' = upEnd
    BY DEF RecvRequest, FrameReady, Live
  <2>2. downRecv' = downRecv
    BY <2>1, DispatchShape, UpHead DEF Types
  <2>3. QED
    BY <2>1, <2>2 DEF PeerStays
<1>2. /\ Head(up) = up[1] /\ 1 \in 1 .. Len(up) /\ ~pkg.failed
      /\ i \in Ids /\ r \in Request /\ up[1].kind = "req"
  BY <1>1, LoopFacts, UpHead DEF Types
<1>3. /\ UNCHANGED <<ppc, next, inst, given, due, upEnd, downRecv>>
      /\ cur'.id = i /\ cur'.req = r /\ pkg' = pkg
      /\ \/ /\ pc' = "reply" /\ down' = down
            /\ ~Served(r) /\ result' = "Err"
         \/ /\ pc' = "returned"
            /\ down' \in {down, Append(down, ReplyFrame(i, "final", "Err"))}
         \/ pc' = "preflight" /\ down' = down /\ IsInstall(r)
         \/ pc' = "reply" /\ down' = down /\ r.code = "EchoRequest"
         \/ pc' = "call" /\ down' = down /\ ~IsInstall(r)
  <2>1. cur' = ReqFrame(i, r) => cur'.id = i /\ cur'.req = r
    BY DEF ReqFrame
  <2>2. QED
    BY <1>1, <1>2, <2>1, DueStays, DispatchShape DEF Types, PeerStays
<1>4. /\ Len(up) \in Nat /\ Len(up') = Len(up) - 1
      /\ \A k \in 1 .. Len(up') : k + 1 \in 1 .. Len(up)
                                  /\ up'[k] = up[k + 1]
  BY <1>1, PopFacts DEF Types, StreamTypeOK
<1>5. UpInv /\ ChunkInv
  BY <1>1, <1>2 DEF Order
<1>6. /\ i \in Nat /\ i > cur.id /\ i < next
      /\ IsInstall(r) => ppc = "verdict" /\ i = inst.id
      /\ ppc = "verdict" /\ i = inst.id => r = inst.req /\ IsInstall(r)
      /\ ~(ppc # "ready" /\ cur.id = inst.id)
  <2>1. /\ i \in Nat /\ i > cur.id /\ i < next
        /\ IsInstall(r) => ppc = "verdict" /\ i = inst.id
        /\ ppc = "verdict" /\ i = inst.id => r = inst.req
    BY <1>2, <1>5, NumberTypes, SMTT(30) DEF UpInv, UpServed, Numbers, UpNumbers
  <2>2. QED
    BY <2>1, NumberTypes DEF Order, DueInv
<1> HIDE DEF i, r
<1>7. CASE ~Live'
  <2>1. pc' = "returned"
    BY <1>3, <1>7 DEF Live
  <2>2. CASE down' = down
    BY <1>1, <2>1, <2>2, LeaveOrder
  <2>3. CASE down' # down
    <3> DEFINE e == ReplyFrame(i, "final", "Err")
    <3>1. e \in Reply /\ e.id = i /\ e.step = "final" /\ e.body = "Err"
      BY <1>2, FrameTypes, ReplyShape
    <3>2. down' = Append(down, e)
      BY <1>3, <2>1, <2>3
    <3> HIDE DEF e
    <3>3. ASSUME downRecv = "held" PROVE DownInv'
      <4>1. DownInv /\ DownServed
        BY <1>1, <3>3 DEF Order, LiveDown
      <4>2. ASSUME NEW k \in 1 .. Len(down), Terminal(down[k])
            PROVE  down[k].id < e.id
        <5>1. down[k].id <= cur.id
          BY <4>1, <4>2 DEF DownServed, Terminal
        <5>2. QED
          BY <1>6, <3>1, <5>1, NumberTypes, SMTT(30)
      <4>3. QED
        BY <1>1, <1>3, <1>7, <3>1, <3>2, <4>1, <4>2, DownPush
    <3>4. QED
      BY <1>1, <1>3, <1>7, <3>3, DueStays DEF Order
  <2>4. QED
    BY <2>2, <2>3
<1>8. CASE Live'
  <2>1. /\ down' = down /\ pc' \in {"reply", "preflight", "call"}
        /\ Serving' /\ ~Receiving' /\ ~Receiving /\ ~Serving
    BY <1>1, <1>3, <1>8 DEF Live, Serving, Receiving
  <2>2. /\ pc' = "preflight" => IsInstall(r)
        /\ pc' = "call" => ~IsInstall(r)
        /\ pc' = "reply" => ExpectsResponse(r) /\ (result' = "Ok" => ~IsInstall(r))
    BY <1>3, <1>8, ExpectsFacts DEF Live
  <2>3. UpServed'
    <3>1. SUFFICES ASSUME NEW k \in 1 .. Len(up'), up'[k].kind = "req"
                   PROVE  /\ up'[k].id > i
                          /\ IsInstall(up'[k].req) =>
                                ppc = "verdict" /\ up'[k].id = inst.id
                          /\ ppc = "verdict" /\ up'[k].id = inst.id =>
                                up'[k].req = inst.req
      BY <1>3 DEF UpServed
    <3>2. PICK m \in 1 .. Len(up) : m = k + 1 /\ up'[k] = up[m] /\ 1 < m
      BY <1>4
    <3>3. up[1].id < up[m].id
      BY <1>2, <3>1, <3>2 DEF Numbers, UpNumbers
    <3>4. up[m].id > i
      BY <3>2, <3>3, <1>2, NumberTypes DEF i
    <3>5. QED
      BY <1>5, <3>1, <3>2, <3>4 DEF UpInv, UpServed
  <2>4. CurServed'
    BY <1>3, <1>6, <2>1, <2>2 DEF CurServed, Unread
  <2>5. ReaderInv'
    BY <1>2, <1>3, <1>5 DEF UpInv, ReaderInv
  <2>6. ChunkInv'
    <3>1. \A k \in 1 .. Len(up') : up'[k].kind # "chunk"
      BY <1>4, <1>5, <2>1 DEF ChunkInv, Chunks
    <3>2. ppc # "payload"
      BY <1>5, <1>6 DEF ChunkInv, Payload
    <3>3. QED
      BY <1>3, <2>1, <3>1, <3>2 DEF ChunkInv, Chunks, Payload
  <2>7. ASSUME downRecv = "held" PROVE DownInv' /\ LiveDown'
    <3>1. DownInv /\ DueSomewhere /\ DownServed
      BY <1>1, <2>7 DEF Order, LiveDown
    <3>2. DownInv'
      BY <1>1, <1>3, <2>1, <3>1, DownStays
    <3>3. DueSomewhere'
      <4>1. /\ \A x : InDue(x)' <=> InDue(x)
            /\ \A x : InDown(x)' <=> InDown(x)
        BY <1>3, <2>1 DEF InDue, InDown
      <4>2. ASSUME NEW x
            PROVE  InUp(x) <=> InUp(x)' \/ (x = i /\ ExpectsResponse(r))
        <5>1. ASSUME InUp(x) PROVE InUp(x)' \/ (x = i /\ ExpectsResponse(r))
          <6>1. PICK k \in 1 .. Len(up) :
                    /\ up[k].kind = "req" /\ up[k].id = x
                    /\ ExpectsResponse(up[k].req)
            BY <5>1 DEF InUp
          <6>2. CASE k = 1
            BY <6>1, <6>2 DEF i, r
          <6>3. CASE k # 1
            <7>0. k - 1 \in 1 .. Len(up') /\ k = (k - 1) + 1
              BY <1>4, <6>3
            <7>1. PICK m \in 1 .. Len(up') : k = m + 1
              BY <7>0
            <7>2. up'[m] = up[k]
              BY <1>4, <7>1
            <7>3. QED
              BY <6>1, <7>1, <7>2 DEF InUp
          <6>4. QED
            BY <6>2, <6>3
        <5>2. ASSUME InUp(x)' PROVE InUp(x)
          <6>1. PICK k \in 1 .. Len(up') :
                    /\ up'[k].kind = "req" /\ up'[k].id = x
                    /\ ExpectsResponse(up'[k].req)
            BY <5>2 DEF InUp
          <6>2. QED
            BY <1>4, <6>1 DEF InUp
        <5>3. ASSUME x = i, ExpectsResponse(r) PROVE InUp(x)
          BY <1>2, <5>3 DEF InUp, i, r
        <5>4. QED
          BY <5>1, <5>2, <5>3
      <4>3. SUFFICES ASSUME NEW x \in Nat
                     PROVE  InDue(x)' <=> \/ InDown(x)' \/ InUp(x)'
                                          \/ i = x /\ ExpectsResponse(r)
        BY <1>3, <2>1 DEF DueSomewhere
      <4>4. InDue(x) <=> InDown(x) \/ InUp(x)
        BY <2>1, <3>1 DEF DueSomewhere
      <4>5. QED
        BY <4>1, <4>2, <4>4
    <3>4. DownServed'
      <4>1. SUFFICES ASSUME NEW k \in 1 .. Len(down), down[k].step # "frag"
                     PROVE  /\ down[k].id <= i /\ down[k].id < i
                            /\ down[k].body # "Proceed"
        BY <1>3, <2>1 DEF DownServed
      <4>2. down[k].id <= cur.id
        BY <3>1, <4>1 DEF DownServed
      <4>3. ASSUME down[k].body = "Proceed" PROVE FALSE
        <5>1. cur.id = inst.id
          BY <1>2, <3>1, <4>1, <4>3 DEF DownServed
        <5>2. ppc = "verdict"
          BY <3>1, <4>1, <4>3 DEF DownInv, DownEach, Numbers, DownNumbers
        <5>3. QED
          BY <1>6, <5>1, <5>2
      <4>4. QED
        BY <1>6, <4>2, <4>3, NumberTypes, SMTT(30)
    <3>5. ProceedUnderWay'
      BY <1>3, <1>6, <2>1, <2>2 DEF ProceedUnderWay, Unread
    <3>6. QED
      BY <3>2, <3>3, <3>4, <3>5 DEF LiveDown
  <2>8. QED
    BY <1>1, <1>3, <2>3, <2>4, <2>5, <2>6, <2>7, DueStays DEF Order, UpInv
<1>9. QED
  BY <1>7, <1>8

\* A chunk that fits is taken off the stream.
LEMMA FitsOrder ==
    ASSUME Types, Order, PeerStays, UNCHANGED <<down, cur>>, Receiving,
           Receiving', Live, up # <<>>, up' = Tail(up), ~pkg.failed,
           ~pkg'.failed, pkg'.size = pkg.size, up[1].kind = "chunk",
           pkg'.remaining = pkg.remaining - up[1].len,
           up[1].len <= pkg.remaining
    PROVE  Order'
<1>0. /\ Live' /\ Serving /\ Serving' /\ (Unread' <=> Unread)
      /\ UNCHANGED <<ppc, next, inst, given, due, upEnd, downRecv>>
  BY DueStays DEF Live, Serving, Receiving, PeerStays, Unread
<1>1. /\ Len(up) \in Nat /\ Len(up') = Len(up) - 1 /\ 1 \in 1 .. Len(up)
      /\ \A k \in 1 .. Len(up') : k + 1 \in 1 .. Len(up)
                                  /\ up'[k] = up[k + 1]
  BY PopFacts DEF Types, StreamTypeOK
<1>2. UpServed /\ CurServed /\ ReaderInv /\ Chunks /\ Payload
  BY DEF Order, UpInv, ChunkInv
<1>3. /\ up[1].len \in Nat /\ up[1].off \in Nat
      /\ pkg.size \in Nat /\ pkg.remaining \in Nat
      /\ \A k \in 1 .. Len(up) : up[k].len \in Nat /\ up[k].off \in Nat
  BY <1>1, NumberTypes
<1>4. up[1].off = pkg.size - pkg.remaining /\ ~Unread
  BY <1>1, <1>2 DEF Chunks
<1>5. up[1].off + up[1].len = pkg.size - pkg'.remaining
  BY <1>3, <1>4
<1>6. UpInv'
  <2>1. UpServed'
    BY <1>0, <1>1, <1>2 DEF UpServed
  <2>2. CurServed'
    BY <1>0, <1>2 DEF CurServed, Receiving
  <2>3. ReaderInv'
    BY <1>2, <1>3 DEF ReaderInv
  <2>4. QED
    BY <2>1, <2>2, <2>3 DEF UpInv
<1>7. Chunks'
  <2>1. SUFFICES ASSUME NEW k \in 1 .. Len(up'), up'[k].kind = "chunk"
                 PROVE  /\ up'[k].id = cur.id
                        /\ up'[k].off < pkg.size
                        /\ up'[k].off + up'[k].len <= pkg.size
                        /\ k = 1 => up'[k].off = pkg.size - pkg'.remaining
                        /\ k > 1 => up'[k - 1].off + up'[k - 1].len
                                        = up'[k].off
                        /\ \A j \in 1 .. k : up'[j].kind = "chunk"
    BY <1>0, <1>4 DEF Chunks
  <2>2. PICK m \in 1 .. Len(up) : m = k + 1 /\ up'[k] = up[m] /\ m > 1
    BY <1>1
  <2>3. /\ up[m].id = cur.id /\ up[m].off < pkg.size
        /\ up[m].off + up[m].len <= pkg.size
        /\ up[m - 1].off + up[m - 1].len = up[m].off
        /\ \A j \in 1 .. m : up[j].kind = "chunk"
    BY <1>2, <2>1, <2>2 DEF Chunks
  <2>4. k = 1 => up'[k].off = pkg.size - pkg'.remaining
    BY <1>5, <2>2, <2>3
  <2>5. ASSUME k > 1 PROVE up'[k - 1].off + up'[k - 1].len = up'[k].off
    <3>1. k - 1 \in 1 .. Len(up') /\ (k - 1) + 1 = k /\ m - 1 = k
      BY <1>1, <2>2, <2>5
    <3>2. up'[k - 1] = up[m - 1]
      BY <1>1, <3>1
    <3>3. QED
      BY <2>2, <2>3, <3>2
  <2>6. ASSUME NEW j \in 1 .. k PROVE up'[j].kind = "chunk"
    <3>1. j \in 1 .. Len(up') /\ j + 1 \in 1 .. m
      BY <1>1, <2>2
    <3>2. QED
      BY <1>1, <2>3, <3>1
  <2>7. QED
    BY <2>2, <2>3, <2>4, <2>5, <2>6
<1>8. ASSUME NEW e, EndsAt(e) PROVE EndsAt(e)'
  <2>1. ASSUME up' = <<>> \/ up'[1].kind # "chunk"
        PROVE  pkg'.size - pkg'.remaining = e
    <3>1. 1 = Len(up) \/ up[1 + 1].kind # "chunk"
      <4>1. CASE up' = <<>>
        BY <4>1, LastPopped DEF Types, StreamTypeOK
      <4>2. CASE up' # <<>> /\ Len(up) # 1
        <5>1. 1 \in 1 .. Len(up')
          BY <1>1, <4>2
        <5>2. QED
          BY <1>1, <2>1, <4>2, <5>1
      <4>3. QED
        BY <4>1, <4>2
    <3>2. up[1].off + up[1].len = e
      BY <1>1, <1>8, <3>1 DEF EndsAt
    <3>3. QED
      BY <1>5, <3>2
  <2>2. ASSUME NEW k \in 1 .. Len(up'), up'[k].kind = "chunk",
               k = Len(up') \/ up'[k + 1].kind # "chunk"
        PROVE  up'[k].off + up'[k].len = e
    <3>1. PICK m \in 1 .. Len(up) : m = k + 1 /\ up'[k] = up[m]
      BY <1>1
    <3>2. m = Len(up) \/ up[m + 1].kind # "chunk"
      <4>1. CASE k = Len(up')
        BY <1>1, <3>1, <4>1
      <4>2. CASE k # Len(up')
        <5>0. Len(up') \in Nat
          BY <1>1
        <5>1. k + 1 \in 1 .. Len(up')
          BY <4>2, <5>0
        <5>2. QED
          BY <1>1, <2>2, <3>1, <4>2, <5>1
      <4>3. QED
        BY <4>1, <4>2
    <3>3. QED
      BY <1>8, <2>2, <3>1, <3>2 DEF EndsAt
  <2>3. QED
    BY <2>1, <2>2 DEF EndsAt
<1>9. Payload'
  BY <1>0, <1>2, <1>4, <1>8 DEF Payload
<1>10. ASSUME downRecv = "held" PROVE LiveDown'
  <2>1. DueSomewhere /\ DownServed /\ ProceedUnderWay
    BY <1>10 DEF Order, LiveDown
  <2>2. ASSUME NEW x PROVE InUp(x)' <=> InUp(x)
    <3>1. ASSUME InUp(x) PROVE InUp(x)'
      <4>1. PICK k \in 1 .. Len(up) :
                /\ up[k].kind = "req" /\ up[k].id = x
                /\ ExpectsResponse(up[k].req)
        BY <3>1 DEF InUp
      <4>2. k # 1
        BY <4>1
      <4>3. k - 1 \in 1 .. Len(up') /\ k = (k - 1) + 1
        BY <1>1, <4>2
      <4>4. PICK m \in 1 .. Len(up') : k = m + 1
        BY <4>3
      <4>5. up'[m] = up[k]
        BY <1>1, <4>4
      <4>6. QED
        BY <4>1, <4>4, <4>5 DEF InUp
    <3>2. ASSUME InUp(x)' PROVE InUp(x)
      <4>1. PICK k \in 1 .. Len(up') :
                /\ up'[k].kind = "req" /\ up'[k].id = x
                /\ ExpectsResponse(up'[k].req)
        BY <3>2 DEF InUp
      <4>2. QED
        BY <1>1, <4>1 DEF InUp
    <3>3. QED
      BY <3>1, <3>2
  <2>3. DueSomewhere'
    <3>1. /\ \A x : InDue(x)' <=> InDue(x)
          /\ \A x : InDown(x)' <=> InDown(x)
      BY <1>0 DEF InDue, InDown
    <3>2. QED
      BY <1>0, <2>1, <2>2, <3>1 DEF DueSomewhere
  <2>4. DownServed'
    BY <1>0, <2>1 DEF DownServed, Receiving
  <2>5. ProceedUnderWay'
    BY <1>0, <1>4 DEF ProceedUnderWay
  <2>6. QED
    BY <2>3, <2>4, <2>5 DEF LiveDown
<1>11. downRecv = "held" => DownInv'
  BY <1>0, DownStays DEF Order
<1>12. QED
  BY <1>0, <1>6, <1>7, <1>9, <1>10, <1>11, DueStays DEF Order, ChunkInv

\* The stream ends in the middle of a transfer.
LEMMA CutOrder ==
    ASSUME Types, Numbers, Order, PeerStays, UNCHANGED <<down, cur>>,
           Receiving, Receiving', Live, EofReady \/ ErrReady, pkg'.failed,
           pkg'.size = pkg.size, pkg'.remaining = pkg.remaining,
           up' = IF upEnd = "reset" THEN <<>> ELSE up, ~pkg.failed
    PROVE  Order'
<1>0. /\ Live' /\ Serving /\ Serving' /\ (Unread' <=> Unread)
      /\ UNCHANGED <<ppc, next, inst, given, due, upEnd, downRecv>>
  BY DueStays DEF Live, Serving, Receiving, PeerStays, Unread
<1>1. UpServed /\ CurServed /\ ReaderInv
  BY DEF Order, UpInv
<1>2. \A k \in 1 .. Len(up') : up'[k].kind = "frag"
  <2>1. CASE upEnd = "reset"
    <3>1. Len(up') = 0
      BY <2>1, EmptyFacts DEF Types, StreamTypeOK
    <3>2. QED
      BY <3>1
  <2>2. CASE upEnd # "reset"
    <3>1. up' = up /\ ~FrameReady
      BY <2>2 DEF EofReady, ErrReady
    <3>2. CASE up = <<>>
      BY <3>1, <3>2, EmptyFacts DEF Types, StreamTypeOK
    <3>3. CASE up # <<>>
      <4>1. Head(up) = up[1] /\ 1 \in 1 .. Len(up) /\ up[1].kind = "frag"
        BY <3>1, <3>3, UpHead DEF FrameReady, Types
      <4>2. Len(up) = 1
        BY <4>1 DEF Numbers, UpNumbers
      <4>3. \A k \in 1 .. 1 : k = 1
        OBVIOUS
      <4>4. QED
        BY <3>1, <4>1, <4>2, <4>3
    <3>4. QED
      BY <3>2, <3>3
  <2>3. QED
    BY <2>1, <2>2
<1>3. UpInv'
  <2>1. UpServed'
    BY <1>2 DEF UpServed
  <2>2. CurServed'
    BY <1>0, <1>1 DEF CurServed, Receiving
  <2>3. ReaderInv'
    BY <1>0, <1>1, <1>2 DEF ReaderInv, Receiving, EofReady, ErrReady
  <2>4. QED
    BY <2>1, <2>2, <2>3 DEF UpInv
<1>4. ASSUME downRecv = "held" PROVE LiveDown'
  <2>1. DueSomewhere /\ DownServed /\ ProceedUnderWay
    BY <1>4 DEF Order, LiveDown
  <2>2. up' = up
    BY <1>4 DEF Order
  <2>3. DueSomewhere'
    <3>1. /\ \A x : InDue(x)' <=> InDue(x)
          /\ \A x : InDown(x)' <=> InDown(x)
          /\ \A x : InUp(x)' <=> InUp(x)
      BY <1>0, <2>2 DEF InDue, InDown, InUp
    <3>2. QED
      BY <1>0, <2>1, <3>1 DEF DueSomewhere
  <2>4. DownServed'
    BY <1>0, <2>1 DEF DownServed, Receiving
  <2>5. ProceedUnderWay'
    BY <1>0, <2>1 DEF ProceedUnderWay
  <2>6. QED
    BY <2>3, <2>4, <2>5 DEF LiveDown
<1>5. downRecv = "held" => DownInv'
  BY <1>0, DownStays DEF Order
<1>6. QED
  BY <1>0, <1>3, <1>4, <1>5, DueStays DEF Order

\* One read of the package, by the handler or by the drain.
LEMMA ReadOrder ==
    ASSUME Types, Numbers, Order, HandlerReads \/ DrainChunk,
           UNCHANGED peerVars
    PROVE  Order'
<1>1. /\ ReadChunk /\ UNCHANGED <<down, downRecv, cur>>
      /\ pc \in {"reading", "drain"} /\ pc' \in {"install", "drain"}
  BY DEF HandlerReads, DrainChunk, downVars
<1>2. Receiving /\ Receiving' /\ Live /\ PeerStays /\ UNCHANGED <<down, cur>>
  BY <1>1, ReadChunkShape DEF Receiving, Live, PeerStays, Types
<1>3. ASSUME FrameReady
      PROVE  /\ Head(up) = up[1] /\ up # <<>> /\ up[1].kind = "chunk"
             /\ up[1].len <= pkg.remaining /\ ~(up[1].len > pkg.remaining)
  <2>1. /\ Head(up) = up[1] /\ 1 \in 1 .. Len(up) /\ up # <<>>
        /\ up[1].kind = "chunk" /\ up[1].off = pkg.size - pkg.remaining
        /\ ~pkg.failed
    BY <1>1, <1>2, <1>3, LoopFacts, ReadChunkShape DEF Types, FrameReady
  <2>2. up[1].off + up[1].len <= pkg.size
    BY <1>2, <2>1 DEF Order, ChunkInv, Chunks
  <2>3. QED
    BY <2>1, <2>2, NumberTypes, SMTT(30)
<1>4. CASE /\ EofReady \/ ErrReady
           /\ up' = IF upEnd = "reset" THEN <<>> ELSE up
           /\ pkg'.remaining = pkg.remaining /\ pkg'.failed
  BY <1>1, <1>2, <1>4, CutOrder, ReadChunkShape DEF Types
<1>5. CASE /\ FrameReady /\ up' = Tail(up) /\ ~pkg'.failed
           /\ pkg'.remaining = pkg.remaining - Head(up).len
  BY <1>1, <1>2, <1>3, <1>5, FitsOrder, ReadChunkShape DEF Types
<1>6. QED
  BY <1>1, <1>3, <1>4, <1>5, ReadChunkShape DEF Types

\* The package is drained, or its transfer has failed.
LEMMA DrainOrder ==
    ASSUME Types, Numbers, Order, DrainEnds, UNCHANGED peerVars
    PROVE  Order'
<1>0. /\ pc = "drain" /\ pc' = "reply" /\ (pkg.failed \/ pkg.remaining = 0)
      /\ PeerStays /\ UNCHANGED <<up, down, cur, pkg>>
  BY DEF DrainEnds, PeerStays, upVars, downVars
<1>1. /\ Live /\ Live' /\ Serving /\ Serving' /\ Receiving /\ ~Receiving'
      /\ UNCHANGED <<ppc, next, inst, given, due, upEnd, downRecv>>
      /\ Unread' <=> Unread
  BY <1>0, DueStays DEF Live, Serving, Receiving, PeerStays, Unread
<1>2. UpServed /\ CurServed /\ ReaderInv
  BY <1>1 DEF Order, UpInv
<1>3. UpInv'
  <2>1. UpServed'
    BY <1>0, <1>1, <1>2 DEF UpServed
  <2>2. CurServed'
    BY <1>0, <1>1, <1>2, ExpectsFacts DEF CurServed
  <2>3. ReaderInv'
    BY <1>0, <1>1, <1>2 DEF ReaderInv
  <2>4. QED
    BY <2>1, <2>2, <2>3 DEF UpInv
<1>4. ASSUME ~pkg.failed PROVE ChunkInv'
  <2>1. Chunks /\ Payload /\ pkg.remaining = 0 /\ pkg.size \in Nat
    BY <1>0, <1>1, <1>4, NumberTypes DEF Order, ChunkInv
  <2>2. ASSUME NEW k \in 1 .. Len(up), up[k].kind = "chunk" PROVE FALSE
    <3>1. 1 \in 1 .. k /\ 1 \in 1 .. Len(up)
      BY NumberTypes
    <3>2. up[1].kind = "chunk"
      BY <2>1, <2>2, <3>1 DEF Chunks
    <3>3. up[1].off < pkg.size /\ up[1].off = pkg.size - pkg.remaining
      BY <2>1, <3>1, <3>2 DEF Chunks
    <3>4. QED
      BY <2>1, <3>3
  <2>3. ASSUME ppc = "payload" PROVE given = inst.req.size
    <3>1. up = <<>> \/ up[1].kind # "chunk"
      <4>1. up # <<>> => 1 \in 1 .. Len(up)
        BY UpHead DEF Types
      <4>2. QED
        BY <2>2, <4>1
    <3>2. EndsAt(given) /\ pkg.size = inst.req.size
      BY <1>1, <2>1, <2>3 DEF Payload
    <3>3. pkg.size - pkg.remaining = given
      BY <3>1, <3>2 DEF EndsAt
    <3>4. QED
      BY <2>1, <3>2, <3>3
  <2>4. Chunks'
    BY <1>0, <2>2 DEF Chunks
  <2>5. Payload'
    BY <1>0, <1>1, <2>1, <2>3 DEF Payload
  <2>6. QED
    BY <2>4, <2>5 DEF ChunkInv
<1>5. ASSUME downRecv = "held" PROVE LiveDown'
  <2>1. DueSomewhere /\ DownServed /\ ProceedUnderWay /\ DownInv
    BY <1>1, <1>5 DEF Order, LiveDown
  <2>2. DueSomewhere'
    <3>1. /\ \A x : InDue(x)' <=> InDue(x)
          /\ \A x : InDown(x)' <=> InDown(x)
          /\ \A x : InUp(x)' <=> InUp(x)
      BY <1>0, <1>1 DEF InDue, InDown, InUp
    <3>2. QED
      BY <1>0, <1>1, <2>1, <3>1 DEF DueSomewhere
  <2>3. ASSUME NEW k \in 1 .. Len(down), down[k].body = "Proceed",
               ~pkg.failed, cur.id = inst.id
        PROVE  inst.req.size = 0
    <3>1. ppc = "verdict"
      BY <2>1, <2>3 DEF DownInv, DownEach, Numbers, DownNumbers
    <3>2. pkg.size = inst.req.size /\ pkg.remaining = pkg.size
      BY <1>1, <2>3, <3>1 DEF Order, ChunkInv, Payload, Unread
    <3>3. QED
      BY <1>0, <2>3, <3>2
  <2>4. DownServed'
    BY <1>0, <1>1, <2>1, <2>3 DEF DownServed
  <2>5. ProceedUnderWay'
    BY <1>0, <1>1, <2>1 DEF ProceedUnderWay
  <2>6. QED
    BY <2>2, <2>4, <2>5 DEF LiveDown
<1>6. downRecv = "held" => DownInv'
  BY <1>0, <1>1, DownStays DEF Order
<1>7. QED
  BY <1>0, <1>1, <1>3, <1>4, <1>5, <1>6, DueStays DEF Order

\* What is due before the request being served is answered.
LEMMA DueBefore ==
    ASSUME Types, DueSomewhere, UpServed, NEW k \in 1 .. Len(due),
           due[k] < cur.id
    PROVE  InDown(due[k])
<1>1. due[k] \in Nat /\ InDue(due[k])
  BY NumberTypes DEF InDue
<1>2. ~InUp(due[k])
  BY <1>1, NumberTypes, SMTT(30) DEF InUp, UpServed
<1>3. cur.id # due[k]
  BY <1>1, NumberTypes
<1>4. QED
  BY <1>1, <1>2, <1>3 DEF DueSomewhere

\* What is answered once another answer is written.
LEMMA PushAnswers ==
    ASSUME Types, NEW r \in Reply, down' = Append(down, r)
    PROVE  /\ Len(down) \in Nat /\ Len(down') = Len(down) + 1
           /\ \A k \in 1 .. Len(down') :
                 \/ k \in 1 .. Len(down) /\ down'[k] = down[k]
                 \/ k = Len(down') /\ down'[k] = r
           /\ Len(down') \in 1 .. Len(down') /\ down'[Len(down')] = r
           /\ \A x : InDown(x)' <=> InDown(x) \/ (Terminal(r) /\ r.id = x)
<1>1. /\ Len(down) \in Nat /\ Len(down') = Len(down) + 1
      /\ \A k \in 1 .. Len(down) : down'[k] = down[k]
      /\ down'[Len(down) + 1] = r
  BY PushFacts DEF Types, StreamTypeOK
<1>2. /\ \A k \in 1 .. Len(down') :
            \/ k \in 1 .. Len(down) /\ down'[k] = down[k]
            \/ k = Len(down') /\ down'[k] = r
      /\ Len(down') \in 1 .. Len(down') /\ down'[Len(down')] = r
      /\ \A k \in 1 .. Len(down) : k \in 1 .. Len(down')
  BY <1>1
<1>3. ASSUME NEW x
      PROVE  InDown(x)' <=> InDown(x) \/ (Terminal(r) /\ r.id = x)
  BY <1>1, <1>2 DEF InDown
<1>4. QED
  BY <1>1, <1>2, <1>3

\* A final answer is written.
LEMMA ReplyOrder ==
    ASSUME Types, Order, SendReply, UNCHANGED peerVars
    PROVE  Order'
<1> DEFINE r == ReplyFrame(cur.id, "final", result)
<1>1. /\ r \in Reply /\ r.id = cur.id /\ r.step = "final"
      /\ r.body = result /\ result \in {"Ok", "Err"} /\ Terminal(r)
  <2>1. cur.id \in Ids /\ result \in {"Ok", "Err"}
    BY DEF Types, StreamTypeOK, Frame
  <2>2. QED
    BY <2>1, FrameTypes, ReplyShape DEF Terminal
<1> HIDE DEF r
<1>2. /\ pc = "reply" /\ UNCHANGED <<up, upEnd, cur, pkg>>
      /\ \/ SendOk(r) /\ pc' = "recv"
         \/ SendFails /\ pc' = "returned"
  BY DEF SendReply, upVars, Return, r
<1>3. PeerStays
  BY <1>2 DEF PeerStays, SendOk, SendFails, downVars
<1>4. CASE pc' = "returned"
  BY <1>2, <1>3, <1>4, LeaveOrder DEF SendFails, downVars
<1>5. CASE SendOk(r) /\ pc' = "recv"
  <2>1. /\ Live /\ Live' /\ Serving /\ ~Serving' /\ ~Receiving /\ ~Receiving'
        /\ UNCHANGED <<ppc, next, inst, given, due, upEnd, downRecv>>
    BY <1>2, <1>3, <1>5, DueStays DEF Live, Serving, Receiving, PeerStays
  <2>2. UpServed /\ CurServed /\ ReaderInv
    BY <2>1 DEF Order, UpInv
  <2>3. UpInv'
    <3>1. UpServed'
      BY <1>2, <2>1, <2>2 DEF UpServed
    <3>2. CurServed'
      BY <1>5, <2>1 DEF CurServed
    <3>3. ReaderInv'
      BY <1>2, <1>5, <2>1, <2>2 DEF ReaderInv
    <3>4. QED
      BY <3>1, <3>2, <3>3 DEF UpInv
  <2>4. ASSUME ~pkg.failed PROVE ChunkInv'
    <3>1. Chunks /\ Payload
      BY <2>1, <2>4 DEF Order, ChunkInv
    <3>2. QED
      BY <1>2, <2>1, <3>1 DEF ChunkInv, Chunks, Payload
  <2>5. ASSUME downRecv = "held" PROVE DownInv' /\ LiveDown'
    <3>1. DownInv /\ DueSomewhere /\ DownServed /\ ProceedUnderWay
      BY <2>1, <2>5 DEF Order, LiveDown
    <3>2. down' = Append(down, r)
      BY <1>5, <2>5 DEF SendOk
    <3>3. InDue(r.id)
      BY <1>1, <1>2, <2>1, <2>2, <3>1, NumberTypes DEF DueSomewhere, CurServed
    <3>4. \A k \in 1 .. Len(due) : due[k] < r.id => InDown(due[k])
      BY <1>1, <2>2, <3>1, DueBefore
    <3>5. \A k \in 1 .. Len(down) : Terminal(down[k]) => down[k].id < r.id
      BY <1>1, <2>1, <3>1 DEF DownServed, Terminal
    <3>6. r.body # "Err" /\ ppc = "verdict" /\ r.id = inst.id
          => \E j \in 1 .. Len(down) : down[j].body = "Proceed"
      BY <1>1, <1>2, <3>1 DEF ProceedUnderWay, Unread
    <3>7. DownInv'
      BY <1>1, <2>1, <3>1, <3>2, <3>3, <3>4, <3>5, <3>6, DownPush
    <3>8. DueSomewhere'
      <4>1. /\ \A x : InDue(x)' <=> InDue(x)
            /\ \A x : InUp(x)' <=> InUp(x)
        BY <1>2, <2>1 DEF InDue, InUp
      <4>2. \A x : InDown(x)' <=> InDown(x) \/ cur.id = x
        BY <1>1, <3>2, PushAnswers
      <4>3. QED
        BY <1>2, <2>1, <2>2, <3>1, <4>1, <4>2 DEF DueSomewhere, CurServed
    <3>9. DownServed'
      <4>1. SUFFICES ASSUME NEW k \in 1 .. Len(down'),
                            down'[k].step # "frag"
                     PROVE  /\ down'[k].id <= cur.id
                            /\ down'[k].body = "Proceed" /\ ~pkg.failed =>
                                  cur.id = inst.id /\ inst.req.size = 0
        BY <1>2, <1>5, <2>1 DEF DownServed
      <4>2. CASE k \in 1 .. Len(down) /\ down'[k] = down[k]
        BY <2>1, <3>1, <4>1, <4>2 DEF DownServed
      <4>3. CASE down'[k] = r
        BY <1>1, <4>3, NumberTypes
      <4>4. QED
        BY <3>2, <4>2, <4>3, PushAnswers, <1>1
    <3>10. ProceedUnderWay'
      BY <1>5, <2>1 DEF ProceedUnderWay
    <3>11. QED
      BY <3>7, <3>8, <3>9, <3>10 DEF LiveDown
  <2>6. QED
    BY <1>2, <1>3, <2>1, <2>3, <2>4, <2>5, DueStays DEF Order
<1>6. QED
  BY <1>2, <1>4, <1>5

\* The preflight verdict is written.
LEMMA VerdictOrder ==
    ASSUME Types, Numbers, Order, UNCHANGED peerVars,
           NEW v \in {"Proceed", "Refusal", "Err"}, Preflight(v)
    PROVE  Order'
<1> DEFINE r == ReplyFrame(cur.id, "verdict", v)
<1>1. /\ r \in Reply /\ r.id = cur.id /\ r.step = "verdict" /\ r.body = v
      /\ Terminal(r) <=> v # "Proceed"
  <2>1. cur.id \in Ids
    BY DEF Types, StreamTypeOK, Frame
  <2>2. QED
    BY <2>1, FrameTypes, ReplyShape DEF Terminal
<1> HIDE DEF r
<1>2. /\ pc = "preflight" /\ UNCHANGED <<up, upEnd, cur>>
      /\ \/ /\ SendOk(r) /\ v = "Proceed" /\ pc' = "install"
            /\ pkg' = NewReader(cur.req.size)
         \/ SendOk(r) /\ v # "Proceed" /\ pc' = "recv" /\ pkg' = pkg
         \/ SendFails /\ pc' = "returned"
  BY DEF Preflight, upVars, Return, r
<1>3. PeerStays
  BY <1>2 DEF PeerStays, SendOk, SendFails, downVars
<1>4. CASE pc' = "returned"
  BY <1>2, <1>3, <1>4, LeaveOrder DEF SendFails, downVars
<1>5. CASE SendOk(r) /\ pc' # "returned"
  <2>1. /\ Live /\ Live' /\ Serving /\ ~Receiving
        /\ (Serving' <=> v = "Proceed") /\ (Receiving' <=> v = "Proceed")
        /\ UNCHANGED <<ppc, next, inst, given, due, upEnd, downRecv>>
        /\ (Unread' <=> Unread) /\ pc' \in {"install", "recv"}
    <3>1. UNCHANGED <<ppc, next, inst, given, due, upEnd, downRecv>>
      BY <1>3, DueStays DEF PeerStays
    <3>2. Live /\ Live' /\ Serving /\ ~Receiving /\ pc' \in {"install", "recv"}
      BY <1>2, <1>5 DEF Live, Serving, Receiving
    <3>3. (Serving' <=> v = "Proceed") /\ (Receiving' <=> v = "Proceed")
      BY <1>2, <1>5 DEF Serving, Receiving
    <3>4. QED
      BY <1>2, <3>1, <3>2, <3>3 DEF Unread
  <2>2. UpServed /\ CurServed /\ ReaderInv
    BY <2>1 DEF Order, UpInv
  <2>3. /\ Unread /\ ppc = "verdict" /\ cur.id = inst.id
        /\ cur.req = inst.req /\ IsInstall(cur.req) /\ ~pkg.failed
    BY <1>2, <2>1, <2>2 DEF CurServed, ReaderInv, Unread
  <2>4. /\ pkg'.remaining <= pkg'.size /\ ~pkg'.failed
        /\ Receiving' => /\ pkg'.size = inst.req.size
                         /\ pkg'.remaining = pkg'.size
    <3>1. CASE v = "Proceed"
      BY <1>2, <1>5, <2>3, <3>1, ReaderFacts, NumberTypes
    <3>2. CASE v # "Proceed"
      BY <1>2, <1>5, <2>1, <2>2, <2>3, <3>2 DEF ReaderInv
    <3>3. QED
      BY <3>1, <3>2
  <2>5. UpInv'
    <3>1. UpServed'
      BY <1>2, <2>1, <2>2 DEF UpServed
    <3>2. CurServed'
      BY <1>2, <2>1, <2>3 DEF CurServed
    <3>3. ReaderInv'
      BY <2>4 DEF ReaderInv
    <3>4. QED
      BY <3>1, <3>2, <3>3 DEF UpInv
  <2>6. ChunkInv'
    <3>1. Chunks
      BY <2>1, <2>3 DEF Order, ChunkInv
    <3>2. Chunks'
      BY <1>2, <2>1, <3>1 DEF Chunks
    <3>3. Payload'
      BY <2>1, <2>3, <2>4 DEF Payload
    <3>4. QED
      BY <3>2, <3>3 DEF ChunkInv
  <2>7. ASSUME downRecv = "held" PROVE DownInv' /\ LiveDown'
    <3>1. DownInv /\ DueSomewhere /\ DownServed /\ DueInv
      BY <2>1, <2>7 DEF Order, LiveDown
    <3>2. down' = Append(down, r)
      BY <1>5, <2>7 DEF SendOk
    <3>3. InDue(r.id)
      BY <1>1, <2>3, <3>1 DEF DueInv
    <3>4. \A k \in 1 .. Len(due) : due[k] < r.id => InDown(due[k])
      BY <1>1, <2>2, <3>1, DueBefore
    <3>5. \A k \in 1 .. Len(down) : down[k].step # "frag" =>
             down[k].id < r.id /\ down[k].id <= r.id
      BY <1>1, <1>2, <3>1, NumberTypes DEF DownServed
    <3>6. \A k \in 1 .. Len(down) : down[k].step # "verdict"
      BY <1>1, <2>3, <3>1, <3>5, NumberTypes, SMTT(30) DEF DownInv, DownEach
    <3>7. DownInv'
      <4>1. \A k \in 1 .. Len(down) : Terminal(down[k]) => down[k].id < r.id
        BY <3>5 DEF Terminal
      <4>2. QED
        BY <1>1, <2>1, <2>3, <3>1, <3>2, <3>3, <3>4, <3>6, <4>1, DownPush
    <3>8. DueSomewhere'
      <4>1. /\ \A x : InDue(x)' <=> InDue(x)
            /\ \A x : InUp(x)' <=> InUp(x)
        BY <1>2, <2>1 DEF InDue, InUp
      <4>2. \A x : InDown(x)' <=> InDown(x) \/ (v # "Proceed" /\ cur.id = x)
        BY <1>1, <3>2, PushAnswers
      <4>3. ExpectsResponse(cur.req)
        BY <2>3, ExpectsFacts
      <4>4. QED
        BY <1>2, <2>1, <3>1, <4>1, <4>2, <4>3 DEF DueSomewhere
    <3>9. DownServed'
      <4>1. SUFFICES ASSUME NEW k \in 1 .. Len(down'),
                            down'[k].step # "frag"
                     PROVE  /\ down'[k].id <= cur.id
                            /\ Serving' /\ Terminal(down'[k])
                                  => down'[k].id < cur.id
                            /\ down'[k].body = "Proceed" => Receiving'
        BY <1>2, <2>1, <2>3 DEF DownServed
      <4>2. CASE k \in 1 .. Len(down) /\ down'[k] = down[k]
        <5>1. down[k].body = "Proceed" => FALSE
          BY <3>6, <4>2 DEF Numbers, DownNumbers
        <5>2. QED
          BY <1>1, <3>5, <4>1, <4>2, <5>1
      <4>3. CASE down'[k] = r
        BY <1>1, <2>1, <4>3, NumberTypes
      <4>4. QED
        BY <1>1, <3>2, <4>2, <4>3, PushAnswers
    <3>10. ProceedUnderWay'
      <4>1. CASE v = "Proceed"
        BY <1>1, <3>2, <4>1, PushAnswers DEF ProceedUnderWay
      <4>2. CASE v # "Proceed"
        BY <2>1, <4>2 DEF ProceedUnderWay
      <4>3. QED
        BY <4>1, <4>2
    <3>11. QED
      BY <3>7, <3>8, <3>9, <3>10 DEF LiveDown
  <2>8. QED
    BY <1>2, <1>3, <2>1, <2>5, <2>6, <2>7, DueStays DEF Order
<1>6. QED
  BY <1>2, <1>4, <1>5

-----------------------------------------------------------------------------
(* The steps of the peer. *)

\* A request, or what is left of a frame, goes behind the payload.
LEMMA PushOther ==
    ASSUME Types, NEW f \in Frame, f.kind # "chunk", up' = Append(up, f)
    PROVE  /\ Len(up) \in Nat /\ Len(up') = Len(up) + 1
           /\ \A k \in 1 .. Len(up') :
                 \/ k \in 1 .. Len(up) /\ up'[k] = up[k]
                 \/ k = Len(up') /\ up'[k] = f
           /\ Chunks /\ UNCHANGED <<pc, cur, pkg>> /\ ~Unread' => Chunks'
           /\ pkg' = pkg => \A e : EndsAt(e) => EndsAt(e)'
           /\ \A x : InUp(x)' <=>
                 InUp(x) \/ (/\ f.kind = "req" /\ f.id = x
                             /\ ExpectsResponse(f.req))
<1>1. /\ Len(up) \in Nat /\ Len(up') = Len(up) + 1
      /\ \A k \in 1 .. Len(up) : up'[k] = up[k]
      /\ up'[Len(up) + 1] = f /\ up' # <<>>
  BY PushFacts DEF Types, StreamTypeOK
<1>2. /\ \A k \in 1 .. Len(up') :
            \/ k \in 1 .. Len(up) /\ up'[k] = up[k]
            \/ k = Len(up') /\ up'[k] = f
      /\ \A k \in 1 .. Len(up) : k \in 1 .. Len(up')
      /\ Len(up') \in 1 .. Len(up') /\ up'[Len(up')] = f
  BY <1>1
<1>3. ASSUME Chunks, UNCHANGED <<pc, cur, pkg>>, ~Unread' PROVE Chunks'
  <2>1. SUFFICES ASSUME NEW k \in 1 .. Len(up'), up'[k].kind = "chunk"
                 PROVE  /\ Receiving /\ up'[k].id = cur.id
                        /\ up'[k].off < pkg.size
                        /\ up'[k].off + up'[k].len <= pkg.size
                        /\ k = 1 => up'[k].off = pkg.size - pkg.remaining
                        /\ k > 1 => up'[k - 1].off + up'[k - 1].len
                                        = up'[k].off
                        /\ \A j \in 1 .. k : up'[j].kind = "chunk"
    BY <1>3 DEF Chunks, Receiving
  <2>2. k \in 1 .. Len(up) /\ up'[k] = up[k]
    BY <1>2, <2>1
  <2>3. k > 1 => k - 1 \in 1 .. Len(up) /\ up'[k - 1] = up[k - 1]
    BY <1>1, <2>2
  <2>4. \A j \in 1 .. k : j \in 1 .. Len(up) /\ up'[j] = up[j]
    BY <1>1, <2>2
  <2>5. QED
    BY <1>3, <2>1, <2>2, <2>3, <2>4 DEF Chunks
<1>4. ASSUME pkg' = pkg, NEW e, EndsAt(e) PROVE EndsAt(e)'
  <2>1. ASSUME up'[1].kind # "chunk" PROVE pkg.size - pkg.remaining = e
    <3>1. up # <<>> => 1 \in 1 .. Len(up)
      BY UpHead DEF Types
    <3>2. up # <<>> => up[1].kind # "chunk"
      BY <1>1, <2>1, <3>1
    <3>3. QED
      BY <1>4, <3>2 DEF EndsAt
  <2>2. ASSUME NEW k \in 1 .. Len(up'), up'[k].kind = "chunk",
               k = Len(up') \/ up'[k + 1].kind # "chunk"
        PROVE  up'[k].off + up'[k].len = e
    <3>1. k \in 1 .. Len(up) /\ up'[k] = up[k]
      BY <1>2, <2>2
    <3>2. k = Len(up) \/ up[k + 1].kind # "chunk"
      <4>1. SUFFICES ASSUME k # Len(up) PROVE up[k + 1].kind # "chunk"
        OBVIOUS
      <4>2. k + 1 \in 1 .. Len(up) /\ k # Len(up')
        BY <1>1, <3>1, <4>1
      <4>3. up'[k + 1] = up[k + 1]
        BY <1>1, <4>2
      <4>4. QED
        BY <2>2, <4>2, <4>3
    <3>3. QED
      BY <1>4, <2>2, <3>1, <3>2 DEF EndsAt
  <2>3. QED
    BY <1>1, <1>4, <2>1, <2>2 DEF EndsAt
<1>5. ASSUME NEW x
      PROVE  InUp(x)' <=>
                InUp(x) \/ (/\ f.kind = "req" /\ f.id = x
                            /\ ExpectsResponse(f.req))
  BY <1>1, <1>2 DEF InUp
<1>6. QED
  BY <1>1, <1>2, <1>3, <1>4, <1>5

\* What is due once the peer has sent another request.
LEMMA PushDue ==
    ASSUME Types, DueInv, NEW r, next' = next + 1,
           due' = IF ExpectsResponse(r) THEN Append(due, next) ELSE due,
           ppc' # "ready" => inst'.id = next /\ IsInstall(inst'.req)
                             /\ ExpectsResponse(r)
    PROVE  /\ DueInv'
           /\ \A x : InDue(x)' <=> InDue(x) \/ (ExpectsResponse(r) /\ x = next)
           /\ \A k \in 1 .. Len(due') :
                 \/ k \in 1 .. Len(due) /\ due'[k] = due[k]
                 \/ due'[k] = next
<1>1. /\ Len(due) \in Nat /\ next \in Nat
      /\ \A k \in 1 .. Len(due) : due[k] \in Nat /\ due[k] < next
  BY NumberTypes DEF DueInv
<1>2. CASE ~ExpectsResponse(r)
  <2>1. due' = due
    BY <1>2
  <2>2. \A x : InDue(x)' <=> InDue(x)
    BY <2>1 DEF InDue
  <2>3. DueInv'
    <3>1. \A k \in 1 .. Len(due) : due[k] < next + 1
      BY <1>1
    <3>2. QED
      BY <1>2, <2>1, <3>1 DEF DueInv
  <2>4. QED
    BY <1>2, <2>1, <2>2, <2>3
<1>3. CASE ExpectsResponse(r)
  <2>1. /\ Len(due') = Len(due) + 1
        /\ \A k \in 1 .. Len(due) : due'[k] = due[k]
        /\ due'[Len(due) + 1] = next
    BY <1>1, <1>3, PushFacts DEF Types
  <2>2. /\ \A k \in 1 .. Len(due') :
              \/ k \in 1 .. Len(due) /\ due'[k] = due[k]
              \/ k = Len(due') /\ due'[k] = next
        /\ \A k \in 1 .. Len(due) : k \in 1 .. Len(due')
        /\ Len(due') \in 1 .. Len(due') /\ due'[Len(due')] = next
    BY <1>1, <2>1
  <2>3. ASSUME NEW x PROVE InDue(x)' <=> InDue(x) \/ x = next
    BY <2>1, <2>2 DEF InDue
  <2>4. \A k \in 1 .. Len(due') : due'[k] < next + 1
    BY <1>1, <2>2
  <2>5. ASSUME NEW j \in 1 .. Len(due'), NEW k \in 1 .. Len(due'), j < k
        PROVE  due'[j] < due'[k]
    <3>1. j \in 1 .. Len(due) /\ due'[j] = due[j]
      BY <1>1, <2>1, <2>5
    <3>2. CASE k \in 1 .. Len(due) /\ due'[k] = due[k]
      BY <2>5, <3>1, <3>2 DEF DueInv
    <3>3. CASE due'[k] = next
      BY <1>1, <3>1, <3>3
    <3>4. QED
      BY <2>2, <3>2, <3>3
  <2>6. ppc' # "ready" => InDue(inst.id)' /\ inst'.id = (next + 1) - 1
    BY <1>1, <2>3
  <2>7. DueInv'
    BY <2>4, <2>5, <2>6 DEF DueInv
  <2>8. QED
    BY <1>3, <2>2, <2>3, <2>7
<1>4. QED
  BY <1>2, <1>3

\* The peer sends a request.
LEMMA AskOrder ==
    ASSUME Types, Numbers, Order, NEW r \in Requests, PeerRequest(r)
    PROVE  Order'
<1> DEFINE f == ReqFrame(next, r)
<1>1. /\ f \in Frame /\ f.kind = "req" /\ f.id = next /\ f.req = r
      /\ Write(f) /\ ppc = "ready" /\ next' = next + 1
      /\ due' = IF ExpectsResponse(r) THEN Append(due, next) ELSE due
      /\ \/ /\ IsInstall(r) /\ ppc' = "verdict" /\ inst'.id = next
            /\ inst'.req = r
         \/ ~IsInstall(r) /\ ppc' = "ready"
  BY PeerFrames DEF PeerRequest, ReqFrame
<1> HIDE DEF f
<1>2. /\ up' = Append(up, f) /\ upEnd = "open"
      /\ UNCHANGED <<upEnd, upRecv, down, downRecv, pc, cur, pkg, result>>
  BY <1>1, WriteType DEF Types
<1>3. /\ next \in Nat /\ cur.id \in Nat /\ cur.id < next
      /\ \A k \in 1 .. Len(down) : down[k].id \in Nat /\ down[k].id < next
      /\ \A k \in 1 .. Len(up) :
            up[k].kind = "req" => up[k].id \in Nat /\ up[k].id < next
  BY NumberTypes, SMTT(30) DEF Numbers, DownNumbers, UpNumbers
<1>4. /\ ~Unread /\ ~Unread' /\ (Live' <=> Live) /\ (Serving' <=> Serving)
      /\ Receiving' <=> Receiving
  BY <1>1, <1>2, <1>3 DEF Unread, Live, Serving, Receiving
<1>5. /\ DueInv'
      /\ \A x : InDue(x)' <=> InDue(x) \/ (ExpectsResponse(r) /\ x = next)
      /\ \A k \in 1 .. Len(due') :
            \/ k \in 1 .. Len(due) /\ due'[k] = due[k]
            \/ due'[k] = next
  BY <1>1, PushDue, ExpectsFacts DEF Order
<1>6. ASSUME downRecv = "held" PROVE DownInv'
  <2>1. DownInv
    BY <1>6 DEF Order
  <2>2. DownOrder'
    BY <1>2, <2>1 DEF DownInv, DownOrder
  <2>3. ASSUME NEW k \in 1 .. Len(down), Aligned(k) PROVE Aligned(k)'
    <3>1. InDue(down[k].id)'
      BY <1>2, <1>5, <2>3 DEF Aligned
    <3>2. ASSUME NEW m \in 1 .. Len(due'), due'[m] < down[k].id
          PROVE  \E j \in 1 .. k - 1 :
                     Terminal(down[j]) /\ down[j].id = due'[m]
      <4>1. due'[m] # next
        BY <1>3, <3>2
      <4>2. QED
        BY <1>5, <2>3, <3>2, <4>1 DEF Aligned
    <3>3. QED
      BY <1>2, <3>1, <3>2 DEF Aligned
  <2>4. \A k : Stray(k) => Stray(k)'
    BY <1>2, <1>4 DEF Stray
  <2>5. ASSUME NEW k \in 1 .. Len(down)
        PROVE  down[k].step # "verdict" /\ (ppc' = "verdict" => down[k].id # inst'.id)
    BY <1>1, <1>3, <2>1 DEF DownInv, DownEach
  <2>6. DownEach'
    BY <1>2, <2>1, <2>3, <2>4, <2>5 DEF DownInv, DownEach
  <2>7. QED
    BY <2>2, <2>6 DEF DownInv
<1>7. ASSUME Live, downRecv = "held" PROVE LiveDown'
  <2>1. DownInv /\ DueSomewhere /\ DownServed
    BY <1>7 DEF Order, LiveDown
  <2>2. DueSomewhere'
    <3>1. \A x : InDown(x)' <=> InDown(x)
      BY <1>2 DEF InDown
    <3>2. \A x : InUp(x)' <=> InUp(x) \/ (ExpectsResponse(r) /\ x = next)
      BY <1>1, <1>2, PushOther
    <3>3. QED
      BY <1>2, <1>4, <1>5, <2>1, <3>1, <3>2 DEF DueSomewhere
  <2>3. \A k \in 1 .. Len(down) : down[k].body # "Proceed"
    BY <1>1, <2>1 DEF DownInv, DownEach, Numbers, DownNumbers
  <2>4. DownServed'
    BY <1>2, <1>4, <2>1, <2>3 DEF DownServed
  <2>5. QED
    BY <1>4, <2>2, <2>4 DEF LiveDown, ProceedUnderWay
<1>8. ASSUME Live PROVE UpInv' /\ ChunkInv' /\ ~pkg.failed
  <2>1. UpServed /\ CurServed /\ ReaderInv
    BY <1>8 DEF Order, UpInv
  <2>2. ~pkg.failed
    BY <1>2, <2>1 DEF ReaderInv
  <2>3. Chunks /\ Payload
    BY <1>8, <2>2 DEF Order, ChunkInv
  <2>4. UpServed'
    <3>1. SUFFICES ASSUME NEW k \in 1 .. Len(up'), up'[k].kind = "req"
                   PROVE  /\ up'[k].id > cur.id
                          /\ IsInstall(up'[k].req) =>
                                ppc' = "verdict" /\ up'[k].id = inst'.id
                          /\ ppc' = "verdict" /\ up'[k].id = inst'.id =>
                                up'[k].req = inst'.req
      BY <1>2 DEF UpServed
    <3>2. CASE k \in 1 .. Len(up) /\ up'[k] = up[k]
      BY <1>1, <1>3, <2>1, <3>1, <3>2 DEF UpServed
    <3>3. CASE up'[k] = f
      BY <1>1, <1>3, <3>3
    <3>4. QED
      BY <1>1, <1>2, <3>2, <3>3, PushOther
  <2>5. CurServed'
    BY <1>2, <1>4, <2>1 DEF CurServed
  <2>6. ReaderInv'
    BY <1>2, <2>1, <2>2 DEF ReaderInv
  <2>7. Chunks' /\ (EndsAt(pkg.size) => EndsAt(pkg.size)')
    <3>1. PICK e : e = pkg.size
      OBVIOUS
    <3>2. Chunks' /\ (EndsAt(e) => EndsAt(e)')
      BY <1>1, <1>2, <1>4, <2>3, PushOther
    <3>3. QED
      BY <1>2, <3>1, <3>2
  <2>8. Payload'
    BY <1>1, <1>2, <1>4, <2>3, <2>7 DEF Payload
  <2>9. QED
    BY <2>2, <2>4, <2>5, <2>6, <2>7, <2>8 DEF UpInv, ChunkInv
<1>9. QED
  BY <1>2, <1>4, <1>5, <1>6, <1>7, <1>8 DEF Order

\* The peer goes away.
LEMMA DropOrder ==
    ASSUME Types, Order, PeerDrops
    PROVE  Order'
<1>1. /\ upEnd = "open" /\ upEnd' # "open" /\ downRecv' = "dropped"
      /\ UNCHANGED <<down, pc, cur, pkg, ppc, next, inst, given, due>>
  BY DEF PeerDrops, agentVars, peerVars
<1>2. /\ (Unread' <=> Unread) /\ (Live' <=> Live) /\ (Serving' <=> Serving)
      /\ Receiving' <=> Receiving
  BY <1>1 DEF Unread, Live, Serving, Receiving
<1>3. DueInv'
  BY <1>1 DEF Order, DueInv, InDue
<1>4. ASSUME Live PROVE UpInv' /\ ChunkInv'
  <2>1. UpServed /\ CurServed /\ ReaderInv
    BY <1>4 DEF Order, UpInv
  <2>2. ~pkg.failed
    BY <1>1, <2>1 DEF ReaderInv
  <2>3. Chunks /\ Payload
    BY <1>4, <2>2 DEF Order, ChunkInv
  <2>4. CurServed' /\ ReaderInv'
    BY <1>1, <1>2, <2>1, <2>2 DEF CurServed, ReaderInv
  <2>5. /\ \A k \in 1 .. Len(up') : up'[k].kind = "req" =>
              k \in 1 .. Len(up) /\ up'[k] = up[k]
        /\ Chunks' /\ (\A e : EndsAt(e) => EndsAt(e)')
    <3>1. CASE up' = up
      <4>1. Chunks'
        BY <1>1, <1>2, <2>3, <3>1 DEF Chunks
      <4>2. \A e : EndsAt(e) => EndsAt(e)'
        BY <1>1, <3>1 DEF EndsAt
      <4>3. QED
        BY <3>1, <4>1, <4>2
    <3>2. CASE up' # up
      <4> DEFINE f == FragFrame(inst.id, inst.req, given)
      <4>1. f \in Frame /\ f.kind = "frag" /\ up' = Append(up, f)
        BY <3>2, PeerFrames DEF FragFrame, PeerDrops
      <4> HIDE DEF f
      <4>2. /\ \A k \in 1 .. Len(up') :
                  \/ k \in 1 .. Len(up) /\ up'[k] = up[k]
                  \/ k = Len(up') /\ up'[k] = f
            /\ \A e : EndsAt(e) => EndsAt(e)'
            /\ ~Unread => Chunks'
        BY <1>1, <1>2, <2>3, <4>1, PushOther
      <4>3. Unread => Chunks'
        BY <1>2, <2>3, <4>1, <4>2 DEF Chunks
      <4>4. QED
        BY <4>1, <4>2, <4>3
    <3>3. QED
      BY <3>1, <3>2
  <2>6. UpServed'
    BY <1>1, <2>1, <2>5 DEF UpServed
  <2>7. Payload'
    BY <1>1, <1>2, <2>3, <2>5 DEF Payload
  <2>8. QED
    BY <2>4, <2>5, <2>6, <2>7 DEF UpInv, ChunkInv
<1>5. QED
  BY <1>1, <1>2, <1>3, <1>4 DEF Order

\* The peer finishes its side, or nothing happens.
LEMMA FinishOrder ==
    ASSUME Types, Order, PeerFinishes \/ UNCHANGED vars
    PROVE  Order'
<1>1. /\ UNCHANGED <<up, down, downRecv, pc, cur, pkg, result,
                     ppc, next, inst, given, due>>
      /\ upEnd' = "fin" \/ upEnd' = upEnd
  BY DEF PeerFinishes, downVars, agentVars, peerVars, vars
<1>2. /\ (Unread' <=> Unread) /\ (Live' <=> Live) /\ (Serving' <=> Serving)
      /\ (Receiving' <=> Receiving)
      /\ \A x : InDue(x)' <=> InDue(x)
      /\ \A x : InDown(x)' <=> InDown(x)
      /\ \A x : InUp(x)' <=> InUp(x)
  BY <1>1 DEF Unread, Live, Serving, Receiving, InDue, InDown, InUp
<1>3. DueInv'
  BY <1>1, <1>2 DEF Order, DueInv
<1>4. downRecv = "held" => DownInv'
  BY <1>1, <1>2, DownStays DEF Order
<1>5. ASSUME Live, downRecv = "held" PROVE LiveDown'
  <2>1. DueSomewhere /\ DownServed /\ ProceedUnderWay
    BY <1>5 DEF Order, LiveDown
  <2>2. DueSomewhere'
    BY <1>1, <1>2, <2>1 DEF DueSomewhere
  <2>3. DownServed' /\ ProceedUnderWay'
    BY <1>1, <1>2, <2>1 DEF DownServed, ProceedUnderWay
  <2>4. QED
    BY <2>2, <2>3 DEF LiveDown
<1>6. ASSUME Live PROVE UpInv'
  <2>1. UpServed /\ CurServed /\ ReaderInv
    BY <1>6 DEF Order, UpInv
  <2>2. UpServed' /\ CurServed'
    BY <1>1, <1>2, <2>1 DEF UpServed, CurServed
  <2>3. ReaderInv'
    BY <1>1, <2>1 DEF ReaderInv
  <2>4. QED
    BY <2>2, <2>3 DEF UpInv
<1>7. ASSUME Live, ~pkg.failed PROVE ChunkInv'
  <2>1. Chunks /\ Payload
    BY <1>7 DEF Order, ChunkInv
  <2>2. Chunks'
    BY <1>1, <1>2, <2>1 DEF Chunks
  <2>3. \A e : EndsAt(e) => EndsAt(e)'
    BY <1>1 DEF EndsAt
  <2>4. Payload'
    BY <1>1, <1>2, <2>1, <2>3 DEF Payload
  <2>5. QED
    BY <2>2, <2>4 DEF ChunkInv
<1>8. QED
  BY <1>1, <1>2, <1>3, <1>4, <1>5, <1>6, <1>7 DEF Order

\* The peer has sent the whole payload.
LEMMA DoneOrder ==
    ASSUME Types, Order, PeerPayloadDone
    PROVE  Order'
<1>1. /\ UNCHANGED <<up, upEnd, down, downRecv, pc, cur, pkg, result,
                     next, inst, given, due>>
      /\ ppc = "payload" /\ ppc' = "ready" /\ given = inst.req.size
  BY DEF PeerPayloadDone, streamVars
<1>2. /\ ~Unread /\ ~Unread' /\ (Live' <=> Live) /\ (Serving' <=> Serving)
      /\ (Receiving' <=> Receiving)
      /\ \A x : InDue(x)' <=> InDue(x)
      /\ \A x : InDown(x)' <=> InDown(x)
      /\ \A x : InUp(x)' <=> InUp(x)
  BY <1>1 DEF Unread, Live, Serving, Receiving, InDue, InDown, InUp
<1>3. DueInv'
  BY <1>1, <1>2 DEF Order, DueInv
<1>4. ASSUME downRecv = "held" PROVE DownInv'
  <2>1. DownOrder /\ DownEach
    BY <1>4 DEF Order, DownInv
  <2>2. \A k : (Stray(k) => Stray(k)') /\ (Aligned(k) => Aligned(k)')
    BY <1>1, <1>2 DEF Stray, Aligned
  <2>3. DownOrder'
    BY <1>1, <2>1 DEF DownOrder
  <2>4. DownEach'
    BY <1>1, <2>1, <2>2 DEF DownEach
  <2>5. QED
    BY <2>3, <2>4 DEF DownInv
<1>5. ASSUME Live, downRecv = "held" PROVE LiveDown'
  <2>1. DueSomewhere /\ DownServed
    BY <1>5 DEF Order, LiveDown
  <2>2. DueSomewhere'
    BY <1>1, <1>2, <2>1 DEF DueSomewhere
  <2>3. DownServed' /\ ProceedUnderWay'
    BY <1>1, <1>2, <2>1 DEF DownServed, ProceedUnderWay
  <2>4. QED
    BY <2>2, <2>3 DEF LiveDown
<1>6. ASSUME Live PROVE UpInv'
  <2>1. UpServed /\ CurServed /\ ReaderInv
    BY <1>6 DEF Order, UpInv
  <2>2. UpServed'
    BY <1>1, <2>1 DEF UpServed
  <2>3. CurServed'
    BY <1>1, <1>2, <2>1 DEF CurServed
  <2>4. ReaderInv'
    BY <1>1, <2>1 DEF ReaderInv
  <2>5. QED
    BY <2>2, <2>3, <2>4 DEF UpInv
<1>7. ASSUME Live, ~pkg.failed PROVE ChunkInv'
  <2>1. Chunks /\ Payload
    BY <1>7 DEF Order, ChunkInv
  <2>2. Chunks'
    BY <1>1, <1>2, <2>1 DEF Chunks
  <2>3. \A e : EndsAt(e) => EndsAt(e)'
    BY <1>1 DEF EndsAt
  <2>4. ASSUME Receiving PROVE EndsAt(pkg.size)'
    <3>1. PICK e : e = given
      OBVIOUS
    <3>2. EndsAt(e) /\ e = pkg.size
      BY <1>1, <2>1, <2>4, <3>1 DEF Payload
    <3>3. EndsAt(e)' /\ e = pkg'.size
      BY <1>1, <2>3, <3>2
    <3>4. QED
      BY <3>3
  <2>5. Payload'
    BY <1>1, <1>2, <2>4 DEF Payload
  <2>6. QED
    BY <2>2, <2>5 DEF ChunkInv
<1>8. QED
  BY <1>1, <1>2, <1>3, <1>4, <1>5, <1>6, <1>7 DEF Order

\* The peer sends a chunk of the payload.
LEMMA PayloadOrder ==
    ASSUME Types, Numbers, Order, NEW n \in Nat, PeerChunk(n)
    PROVE  Order'
<1> DEFINE f == ChunkFrame(inst.id, inst.req, given, n)
<1>1. /\ f \in Frame /\ f.kind = "chunk" /\ f.id = inst.id
      /\ f.off = given /\ f.len = n /\ Write(f)
      /\ ppc = "payload" /\ given < inst.req.size
      /\ given + n <= inst.req.size /\ given' = given + n
      /\ UNCHANGED <<ppc, next, inst, due>>
  BY PeerFrames DEF PeerChunk, ChunkFrame
<1> HIDE DEF f
<1>2. /\ up' = Append(up, f) /\ upEnd = "open"
      /\ UNCHANGED <<upEnd, upRecv, down, downRecv, pc, cur, pkg, result>>
  BY <1>1, WriteType DEF Types
<1>3. /\ Len(up) \in Nat /\ Len(up') = Len(up) + 1
      /\ \A k \in 1 .. Len(up) : up'[k] = up[k]
      /\ up'[Len(up) + 1] = f /\ up' # <<>>
  BY <1>1, <1>2, PushFacts DEF Types, StreamTypeOK
<1>4. /\ ~Unread /\ ~Unread' /\ (Live' <=> Live) /\ (Serving' <=> Serving)
      /\ (Receiving' <=> Receiving)
      /\ \A x : InDue(x)' <=> InDue(x)
      /\ \A x : InDown(x)' <=> InDown(x)
  BY <1>1, <1>2 DEF Unread, Live, Serving, Receiving, InDue, InDown
<1>5. DueInv'
  BY <1>1, <1>4 DEF Order, DueInv
<1>6. downRecv = "held" => DownInv'
  BY <1>1, <1>2, <1>4, DownStays DEF Order
<1>7. \A k \in 1 .. Len(up') : up'[k].kind # "chunk" =>
          k \in 1 .. Len(up) /\ up'[k] = up[k]
  BY <1>1, <1>3
<1>8. ASSUME Live, downRecv = "held" PROVE LiveDown'
  <2>1. DueSomewhere /\ DownServed
    BY <1>8 DEF Order, LiveDown
  <2>2. \A x : InUp(x)' <=> InUp(x)
    <3>1. \A k \in 1 .. Len(up) : k \in 1 .. Len(up')
      BY <1>3
    <3>2. ASSUME NEW x PROVE InUp(x)' <=> InUp(x)
      BY <1>3, <1>7, <3>1 DEF InUp
    <3>3. QED
      BY <3>2
  <2>3. DueSomewhere'
    BY <1>2, <1>4, <2>1, <2>2 DEF DueSomewhere
  <2>4. DownServed' /\ ProceedUnderWay'
    BY <1>1, <1>2, <1>4, <2>1 DEF DownServed, ProceedUnderWay
  <2>5. QED
    BY <2>3, <2>4 DEF LiveDown
<1>9. ASSUME Live PROVE UpInv' /\ ChunkInv'
  <2>1. UpServed /\ CurServed /\ ReaderInv
    BY <1>9 DEF Order, UpInv
  <2>2. ~pkg.failed
    BY <1>2, <2>1 DEF ReaderInv
  <2>3. Chunks /\ Payload
    BY <1>9, <2>2 DEF Order, ChunkInv
  <2>4. /\ cur.id = inst.id /\ inst.id = next - 1 /\ Receiving
        /\ pkg.size = inst.req.size /\ EndsAt(given)
    <3>1. given # inst.req.size
      BY <1>1, NumberTypes
    <3>2. QED
      BY <1>1, <2>3, <3>1 DEF Payload, Order, DueInv
  <2>5. \A k \in 1 .. Len(up) : up[k].kind = "chunk"
    BY <1>2, <2>1, <2>4, NumberTypes DEF UpServed, Numbers, UpNumbers
  <2>6. \A k \in 1 .. Len(up') : up'[k].kind = "chunk"
    BY <1>7, <2>5
  <2>7. UpServed'
    BY <2>6 DEF UpServed
  <2>8. CurServed' /\ ReaderInv'
    BY <1>1, <1>2, <1>4, <2>1, <2>2 DEF CurServed, ReaderInv
  <2>9. Chunks'
    <3>1. SUFFICES ASSUME NEW k \in 1 .. Len(up')
                   PROVE  /\ up'[k].id = cur.id
                          /\ up'[k].off < pkg.size
                          /\ up'[k].off + up'[k].len <= pkg.size
                          /\ k = 1 => up'[k].off = pkg.size - pkg.remaining
                          /\ k > 1 => up'[k - 1].off + up'[k - 1].len
                                          = up'[k].off
                          /\ \A j \in 1 .. k : up'[j].kind = "chunk"
      BY <1>2, <1>4, <2>4 DEF Chunks
    <3>2. \A j \in 1 .. k : up'[j].kind = "chunk"
      BY <1>3, <2>6
    <3>3. CASE k \in 1 .. Len(up)
      <4>1. up'[k] = up[k] /\ (k > 1 => up'[k - 1] = up[k - 1])
        BY <1>3, <3>3
      <4>2. QED
        BY <2>3, <2>5, <3>2, <3>3, <4>1 DEF Chunks
    <3>4. CASE k = Len(up) + 1
      <4>1. /\ up'[k] = f /\ f.id = cur.id /\ f.off < pkg.size
            /\ f.off + f.len <= pkg.size
        BY <1>1, <1>3, <2>4, <3>4
      <4>2. ASSUME k = 1 PROVE f.off = pkg.size - pkg.remaining
        <5>1. up = <<>>
          BY <1>3, <3>4, <4>2, EmptyFacts DEF Types, StreamTypeOK
        <5>2. QED
          BY <1>1, <2>4, <5>1 DEF EndsAt
      <4>3. ASSUME k > 1 PROVE up'[k - 1].off + up'[k - 1].len = f.off
        <5>1. k - 1 \in 1 .. Len(up) /\ k - 1 = Len(up)
          BY <1>3, <3>4, <4>3
        <5>2. up[k - 1].off + up[k - 1].len = given
          BY <2>4, <2>5, <5>1 DEF EndsAt
        <5>3. QED
          BY <1>1, <1>3, <5>1, <5>2
      <4>4. QED
        BY <3>2, <4>1, <4>2, <4>3
    <3>5. QED
      BY <1>3, <3>3, <3>4
  <2>10. EndsAt(given)'
    <3>1. 1 \in 1 .. Len(up')
      BY <1>3
    <3>2. ASSUME NEW k \in 1 .. Len(up'),
                 k = Len(up') \/ up'[k + 1].kind # "chunk"
          PROVE  up'[k].off + up'[k].len = given'
      <4>1. k = Len(up')
        <5>1. k # Len(up') => k + 1 \in 1 .. Len(up')
          BY <1>3
        <5>2. QED
          BY <2>6, <3>2, <5>1
      <4>2. QED
        BY <1>1, <1>3, <4>1
    <3>3. QED
      BY <1>3, <2>6, <3>1, <3>2 DEF EndsAt
  <2>11. Payload'
    BY <1>1, <1>2, <1>4, <2>4, <2>10 DEF Payload
  <2>12. QED
    BY <2>7, <2>8, <2>9, <2>11 DEF UpInv, ChunkInv
<1>10. QED
  BY <1>2, <1>4, <1>5, <1>6, <1>8, <1>9 DEF Order

\* The peer's reading leaves the agent and the requests where they are.
ReadStays == UNCHANGED <<up, upEnd, downRecv, pc, cur, pkg, result, next,
                         inst, given>>

\* The answers under way after the first is read.
LEMMA PopAnswers ==
    ASSUME Types, down # <<>>, down' = Tail(down), pc' = pc
    PROVE  /\ Len(down) \in Nat /\ Len(down') = Len(down) - 1
           /\ 1 \in 1 .. Len(down)
           /\ \A k \in 1 .. Len(down') :
                 /\ k + 1 \in 1 .. Len(down) /\ down'[k] = down[k + 1]
                 /\ Stray(k + 1) => Stray(k)'
           /\ \A m \in 1 .. Len(down) : m # 1 =>
                 m - 1 \in 1 .. Len(down') /\ down'[m - 1] = down[m]
           /\ DownOrder => DownOrder'
<1>1. /\ Len(down) \in Nat /\ Len(down') = Len(down) - 1
      /\ 1 \in 1 .. Len(down)
      /\ \A k \in 1 .. Len(down') :
            k + 1 \in 1 .. Len(down) /\ down'[k] = down[k + 1]
  BY PopFacts DEF Types, StreamTypeOK
<1>2. ASSUME NEW k \in 1 .. Len(down'), Stray(k + 1) PROVE Stray(k)'
  <2>1. PICK m \in Nat : m = Len(down)
    BY <1>1
  <2>2. PICK n \in Int : n = m - 1
    OBVIOUS
  <2>3. Len(down') = n
    BY <1>1, <2>1, <2>2, Zenon
  <2>4. k + 1 = m /\ k \in 1 .. n
    BY <1>2, <2>1, <2>3 DEF Stray
  <2>5. k = n
    BY <2>2, <2>4
  <2>6. down'[k].body = "Err" /\ ~Live
    BY <1>1, <1>2 DEF Stray
  <2>7. QED
    BY <2>3, <2>5, <2>6 DEF Stray, Live
<1>3. ASSUME NEW m \in 1 .. Len(down), m # 1
      PROVE  m - 1 \in 1 .. Len(down') /\ down'[m - 1] = down[m]
  <2>1. m - 1 \in 1 .. Len(down') /\ (m - 1) + 1 = m
    BY <1>1, <1>3
  <2>2. QED
    BY <1>1, <2>1
<1>4. ASSUME DownOrder PROVE DownOrder'
  <2>1. SUFFICES ASSUME NEW j \in 1 .. Len(down'), NEW k \in 1 .. Len(down'),
                        j < k, down'[k].step # "frag"
                 PROVE  /\ Terminal(down'[j]) => down'[j].id < down'[k].id
                        /\ ~(/\ down'[j].step = "verdict"
                             /\ down'[k].step = "verdict")
    BY DEF DownOrder
  <2>2. PICK a \in 1 .. Len(down) : a = j + 1 /\ down'[j] = down[a]
    BY <1>1
  <2>3. PICK b \in 1 .. Len(down) : b = k + 1 /\ down'[k] = down[b]
    BY <1>1
  <2>4. a < b
    BY <2>1, <2>2, <2>3
  <2>5. QED
    BY <1>4, <2>1, <2>2, <2>3, <2>4 DEF DownOrder
<1>5. QED
  BY <1>1, <1>2, <1>3, <1>4

\* What is due after an answer is counted off.
LEMMA PopDue ==
    ASSUME Types, DueInv, due # <<>>, due' = Tail(due), next' = next,
           inst' = inst, ppc' \in {"ready", ppc},
           ppc' = "verdict" => due[1] # inst.id
    PROVE  /\ DueInv'
           /\ Len(due) \in Nat /\ Len(due') = Len(due) - 1
           /\ 1 \in 1 .. Len(due)
           /\ \A k \in 1 .. Len(due') :
                 /\ k + 1 \in 1 .. Len(due) /\ due'[k] = due[k + 1]
                 /\ due[1] < due'[k]
           /\ \A x : InDue(x)' <=> InDue(x) /\ x # due[1]
<1>1. /\ Len(due) \in Nat /\ Len(due') = Len(due) - 1
      /\ 1 \in 1 .. Len(due)
      /\ \A k \in 1 .. Len(due') :
            k + 1 \in 1 .. Len(due) /\ due'[k] = due[k + 1]
  BY PopFacts DEF Types
<1>2. \A k \in 1 .. Len(due) : due[k] \in Nat
  BY NumberTypes
<1>3. ASSUME NEW j \in 1 .. Len(due'), NEW k \in 1 .. Len(due'), j < k
      PROVE  due'[j] < due'[k]
  <2>1. PICK a \in 1 .. Len(due) : a = j + 1 /\ due'[j] = due[a]
    BY <1>1
  <2>2. PICK b \in 1 .. Len(due) : b = k + 1 /\ due'[k] = due[b]
    BY <1>1
  <2>3. a < b
    BY <1>3, <2>1, <2>2
  <2>4. QED
    BY <2>1, <2>2, <2>3 DEF DueInv
<1>4. ASSUME NEW k \in 1 .. Len(due') PROVE due[1] < due'[k]
  <2>1. PICK b \in 1 .. Len(due) : b = k + 1 /\ due'[k] = due[b] /\ 1 < b
    BY <1>1
  <2>2. QED
    BY <1>1, <2>1 DEF DueInv
<1>5. ASSUME NEW x PROVE InDue(x)' <=> InDue(x) /\ x # due[1]
  <2>1. ASSUME InDue(x)' PROVE InDue(x) /\ x # due[1]
    <3>1. PICK k \in 1 .. Len(due') : due'[k] = x
      BY <2>1 DEF InDue
    <3>2. PICK b \in 1 .. Len(due) : due[b] = x
      BY <1>1, <3>1
    <3>3. x # due[1]
      BY <1>1, <1>2, <1>4, <3>1
    <3>4. QED
      BY <3>2, <3>3 DEF InDue
  <2>2. ASSUME InDue(x), x # due[1] PROVE InDue(x)'
    <3>1. PICK b \in 1 .. Len(due) : due[b] = x
      BY <2>2 DEF InDue
    <3>2. b - 1 \in 1 .. Len(due') /\ (b - 1) + 1 = b
      BY <1>1, <2>2, <3>1
    <3>3. due'[b - 1] = x
      BY <1>1, <3>1, <3>2
    <3>4. QED
      BY <3>2, <3>3 DEF InDue
  <2>3. QED
    BY <2>1, <2>2
<1>6. \A k \in 1 .. Len(due') : due'[k] < next
  BY <1>1 DEF DueInv
<1>7. DueInv'
  <2>1. ppc' = "verdict" => InDue(inst.id)' /\ IsInstall(inst'.req)
    <3>1. PICK x : x = inst.id
      OBVIOUS
    <3>2. ppc' = "verdict" => InDue(x)'
      BY <1>5, <3>1 DEF DueInv
    <3>3. QED
      BY <3>1, <3>2 DEF DueInv
  <2>2. QED
    BY <1>3, <1>6, <2>1 DEF DueInv
<1>8. QED
  BY <1>1, <1>4, <1>5, <1>7

\* A last answer is read and counted off: the others stay aligned, and all
\* but the request it answers stays where it is.
LEMMA CountOff ==
    ASSUME Types, DueInv, DownInv, down # <<>>, due # <<>>, ReadStays,
           down' = Tail(down), due' = Tail(due),
           ppc' \in {"ready", ppc}, ppc' = "verdict" => due[1] # inst.id,
           Terminal(down[1]), down[1].id = due[1]
    PROVE  /\ \A k \in 1 .. Len(down') :
                 down'[k].step # "frag" /\ Aligned(k + 1) => Aligned(k)'
           /\ \A k \in 1 .. Len(down') :
                 down'[k].step # "frag" => down[1].id < down'[k].id
           /\ Live /\ UpServed /\ LiveDown => DueSomewhere'
<1>1. /\ Len(down) \in Nat /\ Len(down') = Len(down) - 1
      /\ 1 \in 1 .. Len(down)
      /\ \A k \in 1 .. Len(down') :
            k + 1 \in 1 .. Len(down) /\ down'[k] = down[k + 1]
      /\ \A m \in 1 .. Len(down) : m # 1 =>
            m - 1 \in 1 .. Len(down') /\ down'[m - 1] = down[m]
  BY PopAnswers DEF ReadStays
<1>2. /\ Len(due) \in Nat /\ Len(due') = Len(due) - 1
      /\ 1 \in 1 .. Len(due) /\ due[1] \in Nat
      /\ \A k \in 1 .. Len(due') :
            /\ k + 1 \in 1 .. Len(due) /\ due'[k] = due[k + 1]
            /\ due[1] < due'[k] /\ due'[k] \in Nat
      /\ \A x : InDue(x)' <=> InDue(x) /\ x # due[1]
  BY PopDue, NumberTypes DEF ReadStays
<1>3. \A k \in 1 .. Len(down') :
          down'[k].step # "frag" => down[1].id < down'[k].id
  <2>1. SUFFICES ASSUME NEW k \in 1 .. Len(down'), down'[k].step # "frag"
                 PROVE  down[1].id < down'[k].id
    OBVIOUS
  <2>2. PICK m \in 1 .. Len(down) : m = k + 1 /\ down'[k] = down[m] /\ 1 < m
    BY <1>1
  <2>3. QED
    BY <1>1, <2>1, <2>2 DEF DownInv, DownOrder
<1>4. ASSUME NEW k \in 1 .. Len(down'), Aligned(k + 1), down'[k].step # "frag"
      PROVE  Aligned(k)'
  <2>1. PICK m \in 1 .. Len(down) : m = k + 1 /\ down'[k] = down[m]
    BY <1>1
  <2>2. InDue(down[k].id)'
    <3>1. PICK x : x = down'[k].id
      OBVIOUS
    <3>2. InDue(x) /\ x # due[1]
      <4>1. x # due[1]
        BY <1>1, <1>3, <1>4, <3>1, NumberTypes, <2>1
      <4>2. QED
        BY <1>4, <2>1, <3>1, <4>1 DEF Aligned
    <3>3. QED
      BY <1>2, <3>1, <3>2
  <2>3. ASSUME NEW i \in 1 .. Len(due'), due'[i] < down'[k].id
        PROVE  \E j \in 1 .. k - 1 :
                   Terminal(down'[j]) /\ down'[j].id = due'[i]
    <3>1. PICK j \in 1 .. m - 1 : Terminal(down[j]) /\ down[j].id = due'[i]
      BY <1>2, <1>4, <2>1, <2>3 DEF Aligned
    <3>2. j # 1
      <4>1. due[1] < due'[i] /\ due[1] \in Nat /\ due'[i] \in Nat
        BY <1>2
      <4>2. QED
        BY <3>1, <4>1
    <3>3. j \in 1 .. Len(down) /\ j - 1 \in 1 .. k - 1
      BY <1>1, <2>1, <3>2
    <3>4. down'[j - 1] = down[j]
      BY <1>1, <3>2, <3>3
    <3>5. QED
      BY <3>1, <3>3, <3>4
  <2>4. QED
    BY <2>2, <2>3 DEF Aligned
<1>5. ASSUME Live, UpServed, LiveDown PROVE DueSomewhere'
  <2>1. ASSUME NEW x \in Nat
        PROVE  InDown(x)' <=> InDown(x) /\ x # due[1]
    <3>1. ASSUME InDown(x)' PROVE InDown(x) /\ x # due[1]
      <4>1. PICK k \in 1 .. Len(down') : Terminal(down'[k]) /\ down'[k].id = x
        BY <3>1 DEF InDown
      <4>2. down[1].id < x
        BY <1>3, <4>1 DEF Terminal
      <4>3. InDown(x)
        BY <1>1, <4>1 DEF InDown
      <4>4. QED
        BY <1>2, <4>2, <4>3
    <3>2. ASSUME InDown(x), x # due[1] PROVE InDown(x)'
      <4>1. PICK m \in 1 .. Len(down) : Terminal(down[m]) /\ down[m].id = x
        BY <3>2 DEF InDown
      <4>2. m # 1
        BY <3>2, <4>1
      <4>3. PICK k \in 1 .. Len(down') : down'[k] = down[m]
        BY <1>1, <4>2
      <4>4. QED
        BY <4>1, <4>3 DEF InDown
    <3>3. QED
      BY <3>1, <3>2
  <2>2. DueSomewhere /\ DownServed
    BY <1>5 DEF LiveDown
  <2>3. /\ down[1].id <= cur.id /\ cur.id \in Nat
        /\ Serving => down[1].id < cur.id
    BY <1>1, <2>2, NumberTypes DEF DownServed, Terminal
  <2>4. ~InUp(due[1])
    BY <1>2, <1>5, <2>3, NumberTypes, SMTT(30) DEF InUp, UpServed
  <2>5. Serving => cur.id # due[1]
    BY <1>2, <2>3
  <2>6. /\ \A x : InUp(x)' <=> InUp(x)
        /\ (Serving' <=> Serving) /\ cur' = cur
    BY DEF InUp, Serving, ReadStays
  <2>7. QED
    BY <1>2, <2>1, <2>2, <2>4, <2>5, <2>6 DEF DueSomewhere
<1>6. QED
  BY <1>3, <1>4, <1>5

\* The peer reads the Proceed of its install.
LEMMA ProceedOrder ==
    ASSUME Types, Numbers, Order, ReadStays, downRecv = "held",
           down # <<>>, down[1].body = "Proceed", down[1].id = inst.id,
           down' = Tail(down), ppc = "verdict", ppc' = "payload", due' = due
    PROVE  Order'
<1>1. /\ Len(down) \in Nat /\ Len(down') = Len(down) - 1
      /\ 1 \in 1 .. Len(down)
      /\ \A k \in 1 .. Len(down') :
            /\ k + 1 \in 1 .. Len(down) /\ down'[k] = down[k + 1]
            /\ Stray(k + 1) => Stray(k)'
      /\ \A m \in 1 .. Len(down) : m # 1 =>
            m - 1 \in 1 .. Len(down') /\ down'[m - 1] = down[m]
      /\ DownOrder => DownOrder'
  BY PopAnswers DEF ReadStays
<1>2. /\ ~Unread' /\ (Live' <=> Live) /\ (Serving' <=> Serving)
      /\ (Receiving' <=> Receiving) /\ down[1].step = "verdict"
      /\ ~Terminal(down[1])
      /\ \A x : InDue(x)' <=> InDue(x)
      /\ \A x : InUp(x)' <=> InUp(x)
  <2>1. down[1].step = "verdict"
    BY <1>1 DEF Numbers, DownNumbers
  <2>2. QED
    BY <2>1 DEF ReadStays, Unread, Live, Serving, Receiving, InDue, InUp,
       Terminal
<1>3. DueInv'
  BY <1>2 DEF Order, DueInv, ReadStays
<1>4. DownInv'
  <2>1. DownOrder /\ DownEach
    BY DEF Order, DownInv
  <2>2. SUFFICES ASSUME NEW k \in 1 .. Len(down')
                 PROVE  /\ down'[k].step # "frag" => Stray(k)' \/ Aligned(k)'
                        /\ down'[k].step # "verdict"
    BY <1>1, <2>1 DEF DownInv, DownEach
  <2>3. PICK m \in 1 .. Len(down) : m = k + 1 /\ down'[k] = down[m] /\ 1 < m
    BY <1>1
  <2>4. down[m].step # "verdict"
    BY <1>1, <1>2, <2>1, <2>3 DEF DownOrder
  <2>5. ASSUME Aligned(m) PROVE Aligned(k)'
    <3>1. InDue(down[k].id)'
      <4>1. PICK x : x = down[m].id
        OBVIOUS
      <4>2. InDue(x)'
        BY <1>2, <2>5, <4>1 DEF Aligned
      <4>3. QED
        BY <2>3, <4>1, <4>2
    <3>2. ASSUME NEW i \in 1 .. Len(due), due[i] < down'[k].id
          PROVE  \E j \in 1 .. k - 1 :
                     Terminal(down'[j]) /\ down'[j].id = due[i]
      <4>1. PICK j \in 1 .. m - 1 : Terminal(down[j]) /\ down[j].id = due[i]
        BY <2>3, <2>5, <3>2 DEF Aligned
      <4>2. j # 1
        BY <1>2, <4>1
      <4>3. j \in 1 .. Len(down) /\ j - 1 \in 1 .. k - 1
        BY <1>1, <2>3, <4>2
      <4>4. down'[j - 1] = down[j]
        BY <1>1, <4>2, <4>3
      <4>5. QED
        BY <4>1, <4>3, <4>4
    <3>3. QED
      BY <3>1, <3>2 DEF Aligned
  <2>6. QED
    BY <1>1, <2>1, <2>3, <2>4, <2>5 DEF DownEach
<1>5. ASSUME Live PROVE LiveDown' /\ UpInv'
  <2>1. /\ DueSomewhere /\ DownServed /\ UpServed /\ CurServed /\ ReaderInv
        /\ inst.id <= cur.id /\ pc # "preflight"
    <3>1. DueSomewhere /\ DownServed /\ UpServed /\ CurServed /\ ReaderInv
      BY <1>5 DEF Order, LiveDown, UpInv
    <3>2. inst.id <= cur.id /\ (pc = "preflight" => inst.id < cur.id)
      BY <1>1, <1>2, <3>1 DEF DownServed
    <3>3. QED
      BY <3>1, <3>2, NumberTypes DEF CurServed, Unread
  <2>2. ASSUME NEW x PROVE InDown(x)' <=> InDown(x)
    <3>1. ASSUME InDown(x) PROVE InDown(x)'
      <4>1. PICK m \in 1 .. Len(down) : Terminal(down[m]) /\ down[m].id = x
        BY <3>1 DEF InDown
      <4>2. PICK k \in 1 .. Len(down') : down'[k] = down[m]
        BY <1>1, <1>2, <4>1
      <4>3. QED
        BY <4>1, <4>2 DEF InDown
    <3>2. InDown(x)' => InDown(x)
      BY <1>1 DEF InDown
    <3>3. QED
      BY <3>1, <3>2
  <2>3. DueSomewhere'
    BY <1>2, <2>1, <2>2 DEF DueSomewhere, ReadStays
  <2>4. DownServed'
    BY <1>1, <1>2, <2>1 DEF DownServed, ReadStays
  <2>5. UpServed'
    <3>1. \A k \in 1 .. Len(up) : up[k].kind = "req" => ~IsInstall(up[k].req)
      BY <2>1, NumberTypes, SMTT(30) DEF UpServed
    <3>2. QED
      BY <2>1, <3>1 DEF UpServed, ReadStays
  <2>6. CurServed' /\ ReaderInv'
    BY <1>2, <2>1 DEF CurServed, ReaderInv, ReadStays
  <2>7. QED
    BY <1>2, <2>3, <2>4, <2>5, <2>6 DEF LiveDown, ProceedUnderWay, UpInv
<1>6. ASSUME Live, ~pkg.failed PROVE ChunkInv'
  <2>1. Chunks /\ Payload /\ DownServed
    BY <1>6 DEF Order, ChunkInv, LiveDown
  <2>2. Unread /\ cur.id = inst.id /\ (Receiving \/ inst.req.size = 0)
    BY <1>1, <1>2, <1>6, <2>1 DEF DownServed, Unread
  <2>3. \A k \in 1 .. Len(up) : up[k].kind # "chunk"
    BY <2>1, <2>2 DEF Chunks
  <2>4. given = 0 /\ given' = 0
    BY DEF Types, ReadStays
  <2>5. Chunks'
    BY <2>3 DEF Chunks, ReadStays
  <2>6. ASSUME Receiving
        PROVE  pkg.size = inst.req.size /\ pkg.size - pkg.remaining = 0
    BY <2>1, <2>2, <2>6, NumberTypes DEF Payload
  <2>7. Receiving => EndsAt(given)'
    BY <2>3, <2>4, <2>6 DEF EndsAt, ReadStays
  <2>8. Payload'
    BY <1>2, <2>2, <2>4, <2>6, <2>7 DEF Payload, ReadStays
  <2>9. QED
    BY <2>5, <2>8 DEF ChunkInv
<1>7. QED
  BY <1>2, <1>3, <1>4, <1>5, <1>6 DEF Order, ReadStays

\* The peer reads a last answer and counts it off; if it answers the install
\* it waits for, the peer waits no longer.
LEMMA CountOrder ==
    ASSUME Types, Numbers, Order, ReadStays, downRecv = "held",
           down # <<>>, due # <<>>, Terminal(down[1]), down[1].id = due[1],
           down' = Tail(down), due' = Tail(due),
           \/ ppc = "verdict" /\ due[1] = inst.id /\ ppc' = "ready"
           \/ ~(ppc = "verdict" /\ due[1] = inst.id) /\ ppc' = ppc
    PROVE  Order'
<1>0. DueInv /\ DownInv
  BY DEF Order
<1>1. /\ Len(down) \in Nat /\ Len(down') = Len(down) - 1
      /\ 1 \in 1 .. Len(down)
      /\ \A k \in 1 .. Len(down') :
            /\ k + 1 \in 1 .. Len(down) /\ down'[k] = down[k + 1]
            /\ Stray(k + 1) => Stray(k)'
      /\ \A m \in 1 .. Len(down) : m # 1 =>
            m - 1 \in 1 .. Len(down') /\ down'[m - 1] = down[m]
      /\ DownOrder => DownOrder'
  BY PopAnswers DEF ReadStays
<1>2. DueInv'
  BY <1>0, PopDue DEF ReadStays
<1>3. /\ \A k \in 1 .. Len(down') :
            down'[k].step # "frag" /\ Aligned(k + 1) => Aligned(k)'
      /\ \A k \in 1 .. Len(down') :
            down'[k].step # "frag" => down[1].id < down'[k].id
      /\ Live /\ UpServed /\ LiveDown => DueSomewhere'
  BY <1>0, CountOff
<1>4. /\ (Live' <=> Live) /\ (Serving' <=> Serving)
      /\ (Receiving' <=> Receiving)
      /\ down[1].body # "Proceed" /\ down[1].step # "frag"
      /\ (Unread' => Unread) /\ (ppc' = ppc => (Unread' <=> Unread))
  <2>1. down[1].body # "Proceed" /\ down[1].step # "frag"
    BY <1>1 DEF Numbers, DownNumbers, Terminal
  <2>2. QED
    BY <2>1 DEF ReadStays, Live, Serving, Receiving, Unread
<1>5. ASSUME NEW m \in 1 .. Len(down), down[m].body = "Proceed"
      PROVE  m - 1 \in 1 .. Len(down') /\ down'[m - 1].body = "Proceed"
  BY <1>1, <1>4, <1>5
<1>6. DownInv'
  <2>1. DownOrder /\ DownEach
    BY <1>0 DEF DownInv
  <2>2. SUFFICES ASSUME NEW k \in 1 .. Len(down')
                 PROVE  /\ down'[k].step # "frag" => Stray(k)' \/ Aligned(k)'
                        /\ down'[k].step = "verdict" =>
                              ppc' = "verdict" /\ down'[k].id = inst'.id
                        /\ /\ down'[k].step = "final"
                           /\ down'[k].body # "Err"
                           /\ ppc' = "verdict" /\ down'[k].id = inst'.id
                           => \E j \in 1 .. k - 1 : down'[j].body = "Proceed"
    BY <1>1, <2>1 DEF DownInv, DownEach
  <2>3. PICK m \in 1 .. Len(down) : m = k + 1 /\ down'[k] = down[m] /\ 1 < m
    BY <1>1
  <2>4. down'[k].step # "frag" => Stray(k)' \/ Aligned(k)'
    BY <1>1, <1>3, <2>1, <2>3 DEF DownEach
  <2>5. ASSUME down[m].step = "verdict" PROVE ppc' = "verdict"
    <3>1. ppc = "verdict" /\ down[m].id = inst.id
      BY <2>1, <2>5 DEF DownEach
    <3>2. down[1].id < down[m].id
      BY <1>3, <2>3, <2>5
    <3>3. due[1] # inst.id
      BY <1>1, <3>1, <3>2, NumberTypes
    <3>4. QED
      BY <3>1, <3>3
  <2>6. ASSUME down[m].step = "final", down[m].body # "Err",
               ppc' = "verdict", down[m].id = inst.id
        PROVE  \E j \in 1 .. k - 1 : down'[j].body = "Proceed"
    <3>1. PICK j \in 1 .. m - 1 : down[j].body = "Proceed"
      BY <2>1, <2>6 DEF DownEach
    <3>2. j \in 1 .. Len(down) /\ j # 1
      BY <1>1, <1>4, <2>3, <3>1
    <3>3. j - 1 \in 1 .. k - 1
      BY <1>1, <2>3, <3>2
    <3>4. QED
      BY <1>5, <3>1, <3>2, <3>3
  <2>7. QED
    BY <2>1, <2>3, <2>4, <2>5, <2>6 DEF DownEach, ReadStays
<1>7. ASSUME Live PROVE LiveDown' /\ UpInv'
  <2>1. /\ DueSomewhere /\ DownServed /\ ProceedUnderWay /\ LiveDown
        /\ UpServed /\ CurServed /\ ReaderInv
    BY <1>7 DEF Order, LiveDown, UpInv
  <2>2. DueSomewhere'
    BY <1>3, <1>7, <2>1
  <2>3. DownServed'
    BY <1>1, <1>4, <2>1 DEF DownServed, ReadStays
  <2>4. ProceedUnderWay'
    <3>1. SUFFICES ASSUME Unread',
                          Receiving' \/ (pc' = "reply" /\ result' = "Ok")
                   PROVE  \E j \in 1 .. Len(down') : down'[j].body = "Proceed"
      BY DEF ProceedUnderWay
    <3>2. Unread /\ (Receiving \/ (pc = "reply" /\ result = "Ok"))
      BY <1>4, <3>1 DEF ReadStays
    <3>3. PICK m \in 1 .. Len(down) : down[m].body = "Proceed"
      BY <2>1, <3>2 DEF ProceedUnderWay
    <3>4. QED
      BY <1>5, <3>3
  <2>5. /\ down[1].id <= cur.id /\ (Serving => down[1].id < cur.id)
        /\ down[1].id \in Nat /\ cur.id \in Nat
    BY <1>1, <1>4, <2>1, NumberTypes DEF DownServed
  <2>6. UpServed'
    <3>1. CASE ppc' = ppc
      BY <2>1, <3>1 DEF UpServed, ReadStays
    <3>2. CASE ppc = "verdict" /\ due[1] = inst.id /\ ppc' = "ready"
      <4>1. \A k \in 1 .. Len(up) :
                up[k].kind = "req" => ~IsInstall(up[k].req)
        BY <2>1, <2>5, <3>2, NumberTypes, SMTT(30) DEF UpServed
      <4>2. QED
        BY <2>1, <3>2, <4>1 DEF UpServed, ReadStays
    <3>3. QED
      BY <3>1, <3>2
  <2>7. CurServed'
    <3>1. pc = "preflight" => ppc' = ppc
      BY <2>1, <2>5 DEF CurServed, Unread, Serving
    <3>2. QED
      BY <1>4, <2>1, <3>1 DEF CurServed, ReadStays
  <2>8. ReaderInv'
    BY <2>1 DEF ReaderInv, ReadStays
  <2>9. QED
    BY <2>2, <2>3, <2>4, <2>6, <2>7, <2>8 DEF LiveDown, UpInv
<1>8. ASSUME Live, ~pkg.failed PROVE ChunkInv'
  <2>1. Chunks /\ Payload /\ DownServed
    BY <1>8 DEF Order, ChunkInv, LiveDown
  <2>2. \A e : EndsAt(e) => EndsAt(e)'
    BY DEF EndsAt, ReadStays
  <2>3. Chunks'
    BY <1>4, <2>1 DEF Chunks, ReadStays
  <2>4. CASE ppc' = ppc
    BY <1>4, <2>1, <2>2, <2>4 DEF ChunkInv, Payload, ReadStays, Chunks
  <2>5. CASE ppc = "verdict" /\ due[1] = inst.id /\ ppc' = "ready"
    <3>1. Receiving => ~Unread
      <4>1. Receiving => down[1].id < cur.id
        BY <1>1, <1>4, <2>1 DEF DownServed, Receiving, Serving
      <4>2. QED
        BY <2>5, <4>1, NumberTypes DEF Unread
    <3>2. Receiving => EndsAt(pkg.size)
      BY <2>1, <2>5, <3>1 DEF Payload
    <3>3. Receiving => EndsAt(pkg.size)'
      BY <3>2 DEF EndsAt, ReadStays
    <3>4. Payload'
      BY <1>4, <2>5, <3>1, <3>3 DEF Payload, Unread
    <3>5. QED
      BY <2>3, <3>4 DEF ChunkInv
  <2>6. QED
    BY <2>4, <2>5
<1>9. QED
  BY <1>2, <1>4, <1>6, <1>7, <1>8 DEF Order, ReadStays

\* The peer reads an answer.
LEMMA ReadsOrder ==
    ASSUME Types, Numbers, Order, PeerReads
    PROVE  Order'
<1>0. DueInv /\ DownInv
  BY DEF Order, PeerReads
<1>1. /\ ReadStays /\ downRecv = "held" /\ down # <<>> /\ down' = Tail(down)
      /\ IF ppc = "verdict" /\ due # <<>> /\ Head(due) = inst.id
         THEN IF Head(down).body = "Proceed"
              THEN ppc' = "payload" /\ due' = due
              ELSE ppc' = "ready" /\ due' = Tail(due)
         ELSE /\ due' = IF due = <<>> THEN due ELSE Tail(due)
              /\ ppc' = ppc
      /\ Head(down).step # "frag"
  BY DEF PeerReads, ReadStays, upVars, agentVars
<1>2. /\ Head(down) = down[1] /\ 1 \in 1 .. Len(down)
      /\ Len(down) \in Nat /\ Len(down') = Len(down) - 1
      /\ due # <<>> => Head(due) = due[1]
      /\ down[1].step \in {"verdict", "final"}
  <2>1. /\ Head(down) = down[1] /\ 1 \in 1 .. Len(down)
        /\ Len(down) \in Nat /\ Len(down') = Len(down) - 1
        /\ due # <<>> => Head(due) = due[1]
    BY <1>1, PopFacts DEF Types, StreamTypeOK
  <2>2. QED
    BY <1>1, <2>1, NumberTypes
<1>3. CASE Stray(1)
  <2>1. ~Live' /\ Len(down') = 0 /\ down[1].body = "Err"
    <3>1. 1 = Len(down) /\ down[1].body = "Err" /\ ~Live
      BY <1>3 DEF Stray
    <3>2. \A m \in Nat : 1 = m => m - 1 = 0
      OBVIOUS
    <3>3. Len(down') = 0
      BY <1>2, <3>1, <3>2, Zenon
    <3>4. QED
      BY <1>1, <3>1, <3>3 DEF Live, ReadStays
  <2>2. DownInv'
    BY <2>1 DEF DownInv, DownOrder, DownEach
  <2>3. DueInv'
    <3>1. CASE due = <<>>
      BY <1>0, <1>1, <3>1 DEF DueInv, ReadStays, InDue
    <3>2. CASE due # <<>>
      <4>1. /\ due' = Tail(due) /\ ppc' \in {"ready", ppc}
            /\ ppc' = "verdict" => due[1] # inst.id
        BY <1>1, <1>2, <2>1, <3>2
      <4>2. QED
        BY <1>0, <1>1, <3>2, <4>1, PopDue DEF ReadStays
    <3>3. QED
      BY <3>1, <3>2
  <2>4. QED
    BY <1>1, <2>1, <2>2, <2>3 DEF Order, ReadStays
<1>4. CASE ~Stray(1)
  <2>1. due # <<>> /\ due[1] = down[1].id
    BY <1>0, <1>1, <1>2, <1>4, HeadDue
  <2>2. CASE ppc = "verdict" /\ due[1] = inst.id /\ down[1].body = "Proceed"
    BY <1>1, <1>2, <2>1, <2>2, ProceedOrder
  <2>3. CASE ~(/\ ppc = "verdict" /\ due[1] = inst.id
               /\ down[1].body = "Proceed")
    <3>1. Terminal(down[1])
      <4>1. down[1].step = "verdict" => ppc = "verdict" /\ due[1] = inst.id
        BY <1>0, <1>2, <2>1 DEF DownInv, DownEach
      <4>2. QED
        BY <1>2, <2>3, <4>1 DEF Terminal
    <3>2. QED
      BY <1>1, <1>2, <2>1, <2>3, <3>1, CountOrder
  <2>4. QED
    BY <2>2, <2>3
<1>5. QED
  BY <1>3, <1>4

-----------------------------------------------------------------------------
(* The invariant. *)

\* A peer that keeps to the contract meets a loop that keeps the order.
LEMMA StepOrder ==
    ASSUME Types, Numbers, Order, [Next]_vars, ~deviated'
    PROVE  Order'
<1>1. CASE AgentNext /\ UNCHANGED peerVars
  <2>1. ASSUME downRecv' = downRecv, upEnd' = upEnd PROVE PeerStays
    BY <1>1, <2>1 DEF PeerStays
  <2>2. CASE Accept \/ HandlerAwaits
             \/ \E r \in {"Ok", "Err"} : CallReturns(r) \/ HandlerReturns(r)
    BY <1>1, <2>2, <2>1, QuietOrder DEF Accept, HandlerAwaits, CallReturns,
       HandlerReturns, upVars, downVars
  <2>3. CASE RecvEof \/ RecvFails \/ Release
    BY <1>1, <2>1, <2>3, LeaveOrder DEF RecvEof, RecvFails, Release, Return,
       upVars, downVars
  <2>4. CASE RecvMisaligned
    <3>1. Live /\ FrameReady /\ pc = "recv" /\ Head(up).kind = "chunk"
      BY <2>4 DEF RecvMisaligned, Live
    <3>2. QED
      BY <3>1, LoopFacts
  <2>5. CASE RecvRequest
    BY <1>1, <2>5, RequestOrder
  <2>6. CASE HandlerReads \/ DrainChunk
    BY <1>1, <2>6, ReadOrder
  <2>7. CASE DrainEnds
    BY <1>1, <2>7, DrainOrder
  <2>8. CASE SendReply
    BY <1>1, <2>8, ReplyOrder
  <2>9. CASE \E v \in {"Proceed", "Refusal", "Err"} : Preflight(v)
    BY <1>1, <2>9, VerdictOrder
  <2>10. QED
    BY <1>1, <2>2, <2>3, <2>4, <2>5, <2>6, <2>7, <2>8, <2>9
       DEF AgentNext, AgentStep, HandlerStep
<1>2. CASE Fault
  BY <1>2, AbortOrder DEF Fault
<1>3. CASE \E r \in Requests : PeerRequest(r)
  BY <1>3, AskOrder
<1>4. CASE \E n \in 0 .. inst.req.size : PeerChunk(n)
  <2>1. \A n \in 0 .. inst.req.size : n \in Nat
    BY NumberTypes
  <2>2. QED
    BY <1>4, <2>1, PayloadOrder
<1>5. CASE PeerPayloadDone
  BY <1>5, DoneOrder
<1>6. CASE PeerOverruns
  BY <1>6 DEF PeerOverruns
<1>7. CASE PeerFinishes \/ UNCHANGED vars
  BY <1>7, FinishOrder
<1>8. CASE PeerDrops
  BY <1>8, DropOrder
<1>9. CASE PeerReads
  BY <1>9, ReadsOrder
<1>10. QED
  BY <1>1, <1>2, <1>3, <1>4, <1>5, <1>6, <1>7, <1>8, <1>9
     DEF Next, PeerStep, Fault

\* The peer that has overrun a transfer is not taken back.
LEMMA StaysDeviated ==
    ASSUME [Next]_vars, deviated
    PROVE  deviated'
BY DEF Next, PeerStep, PeerRequest, PeerChunk, PeerPayloadDone, PeerOverruns,
   PeerFinishes, PeerReads, PeerDrops, Fault, peerVars, vars

\* The invariant holds at the start.
LEMMA InitIInv == Init => IInv
<1> SUFFICES ASSUME Init PROVE IInv
  OBVIOUS
<1>1. Types
  BY InitTypes
<1>2. /\ up = <<>> /\ down = <<>> /\ due = <<>> /\ upEnd = "open"
      /\ pc = "accept" /\ ppc = "ready" /\ next = 1 /\ answered = {}
      /\ cur.id = 0 /\ inst.id = 0 /\ pkg = NewReader(0)
  BY DEF Init, StreamInit, ReqFrame
<1>3. Len(up) = 0 /\ Len(down) = 0 /\ Len(due) = 0
  BY <1>2
<1>4. ~Serving /\ ~Receiving /\ ~Unread /\ Live
  BY <1>2 DEF Serving, Receiving, Unread, Live
<1>5. pkg.remaining <= pkg.size /\ ~pkg.failed
  BY <1>2, ReaderFacts
<1>6. Numbers /\ Once
  BY <1>2, <1>3, <1>4 DEF Numbers, UpNumbers, DownNumbers, Once, AnsweredOnce
<1>7. DueInv /\ DownInv
  BY <1>2, <1>3 DEF DueInv, DownInv, DownOrder, DownEach
<1>8. LiveDown
  <2>1. \A x : ~InDue(x) /\ ~InDown(x) /\ ~InUp(x)
    BY <1>3 DEF InDue, InDown, InUp
  <2>2. QED
    BY <1>3, <1>4, <2>1 DEF LiveDown, DueSomewhere, DownServed,
       ProceedUnderWay
<1>9. UpInv
  BY <1>2, <1>3, <1>4, <1>5 DEF UpInv, UpServed, CurServed, ReaderInv
<1>10. ChunkInv
  BY <1>2, <1>3, <1>4 DEF ChunkInv, Chunks, Payload
<1>11. QED
  BY <1>1, <1>2, <1>6, <1>7, <1>8, <1>9, <1>10 DEF IInv, Order

\* Every step keeps it.
LEMMA StepIInv == IInv /\ [Next]_vars => IInv'
<1> SUFFICES ASSUME IInv, [Next]_vars PROVE IInv'
  OBVIOUS
<1>1. Types'
  BY StepTypes DEF IInv
<1>2. Numbers' /\ Once'
  BY StepOnce DEF IInv
<1>3. ~deviated' => Order'
  BY StepOrder, StaysDeviated DEF IInv
<1>4. QED
  BY <1>1, <1>2, <1>3 DEF IInv

\* The inductive invariant of the dispatch loop under a peer that sends its
\* requests without waiting for the answers, for any requests, any number of
\* them and any flow-control window.
THEOREM PeerStreamInvariant == Spec => []IInv
BY InitIInv, StepIInv, PTL DEF Spec

\* No request is answered twice, even when the peer overran a transfer and
\* the loop took what was left of it for requests.
THEOREM NoSecondAnswer == Spec => []AnsweredOnce
<1>1. IInv => AnsweredOnce
  BY DEF IInv, Once
<1>2. QED
  BY <1>1, PeerStreamInvariant, PTL

\* handle resumes on a request frame after every request, and the
\* PackageReader meets only the chunks of its own install, in order.
THEOREM LoopStaysAligned == Spec => []LoopAligned
<1>1. IInv => LoopAligned
  <2>1. SUFFICES ASSUME IInv, ~deviated, FrameReady
                 PROVE  /\ pc = "recv" => Head(up).kind = "req"
                        /\ ReaderWaits =>
                              /\ Head(up).kind = "chunk"
                              /\ Head(up).id = cur.id
                              /\ Head(up).off = pkg.size - pkg.remaining
    BY DEF LoopAligned
  <2>2. Types /\ Numbers /\ Order
    BY <2>1 DEF IInv
  <2>3. /\ pc = "recv" => Live
        /\ ReaderWaits => Live /\ Receiving /\ pkg.remaining > 0
    BY DEF Live, ReaderWaits, Receiving
  <2>4. QED
    BY <2>1, <2>2, <2>3, LoopFacts
<1>2. QED
  BY <1>1, PeerStreamInvariant, PTL

\* Answers carry no request number, and counting them off attributes no
\* success and no verdict to the wrong request.
THEOREM AnswersCountOff == Spec => []OkAnswersInOrder
<1>1. IInv => OkAnswersInOrder
  <2>1. SUFFICES ASSUME IInv, ~deviated, downRecv = "held", down # <<>>,
                        Head(down).step # "frag", Head(down).body # "Err"
                 PROVE  /\ due # <<>> /\ Head(due) = Head(down).id
                        /\ ppc = "verdict" /\ inst.id = Head(due) <=>
                              Head(down).step = "verdict"
    BY DEF OkAnswersInOrder
  <2>2. Types /\ DueInv /\ DownInv
    BY <2>1 DEF IInv, Order
  <2>3. Head(down) = down[1] /\ (due # <<>> => Head(due) = due[1])
    BY <2>1, <2>2, PopFacts DEF Types, StreamTypeOK
  <2>4. /\ due # <<>> /\ due[1] = down[1].id /\ 1 \in 1 .. Len(down)
    BY <2>1, <2>2, <2>3, HeadDue DEF Stray
  <2>5. down[1].step \in {"verdict", "final"}
    BY <2>1, <2>2, <2>3, <2>4, NumberTypes
  <2>6. ASSUME ppc = "verdict", inst.id = due[1]
        PROVE  down[1].step = "verdict"
    <3>1. ~ \E j \in 1 .. 1 - 1 : down[j].body = "Proceed"
      OBVIOUS
    <3>2. down[1].step # "final"
      BY <2>1, <2>2, <2>3, <2>4, <2>6, <3>1 DEF DownInv, DownEach
    <3>3. QED
      BY <2>5, <3>2
  <2>7. down[1].step = "verdict" => ppc = "verdict" /\ inst.id = due[1]
    BY <2>2, <2>4 DEF DownInv, DownEach
  <2>8. QED
    BY <2>3, <2>4, <2>6, <2>7
<1>2. QED
  BY <1>1, PeerStreamInvariant, PTL

-----------------------------------------------------------------------------
(* What is done for each request.  This half needs nothing of the peer. *)

\* Nothing was done for what was not sent, or waits on the stream.
Untouched ==
    /\ \A i \in Ids : i >= next => effect[i] = "none"
    /\ \A k \in 1 .. Len(up) : up[k].kind = "req" => effect[up[k].id] = "none"

\* What was done for the request being served.
CurEffect ==
    cur.id # 0 =>
        /\ pc = "preflight" => effect[cur.id] = "none"
        /\ pc \in {"call", "install", "reading", "drain"} =>
              effect[cur.id] = "running"
        /\ pc = "reply" => IF result = "Ok" THEN effect[cur.id] = "ok"
                           ELSE effect[cur.id] \in {"none", "err"}

\* Answer r is true of a request for which e was done.
Says(r, e) ==
    /\ r.body = "Proceed" => e # "none"
    /\ r.body = "Ok" => e = "ok"
    /\ r.body = "Refusal" => e = "none"
    /\ r.body = "Err" => e \in {"none", "err"}

\* Every answer under way is true of its request: Ok after its handler
\* succeeded, an error after it failed or for what never ran, a refusal for
\* an install that never ran, Proceed for one that runs or has run.
AnswersTrue ==
    \A k \in 1 .. Len(down) :
        down[k].id # 0 /\ down[k].step # "frag" =>
            Says(down[k], effect[down[k].id])

EffectInv == Untouched /\ CurEffect /\ AnswersTrue

\* A handler is started once, and ends once.
Moves(i) ==
    \/ effect'[i] = effect[i]
    \/ effect[i] = "none" /\ effect'[i] \in {"running", "ok"}
    \/ effect[i] = "running" /\ effect'[i] \in {"ok", "err"}

\* A step of the agent's concerns the request it serves after the step: one
\* that was not answered, and that waits on the stream no longer.
Concerns(c) ==
    /\ \A j \in Ids : j # c => effect'[j] = effect[j]
    /\ c # 0 => Moves(c)
    /\ effect'[c] # effect[c] /\ c # 0 =>
          /\ c < next /\ Unused(c)
          /\ \A k \in 1 .. Len(up') : up'[k].kind = "req" => up'[k].id # c
    /\ \/ down' = down
       \/ \E r \in Reply :
             /\ down' = Append(down, r) /\ r.id = c
             /\ c # 0 /\ r.step # "frag" => Says(r, effect'[c])

\* Such a step leaves nothing untrue.
LEMMA ConcernsKeeps ==
    ASSUME Types, Numbers, EffectInv, UpShrinks, UNCHANGED peerVars,
           Concerns(cur'.id), CurEffect', cur'.id \in Ids, StreamTypeOK'
    PROVE  EffectInv' /\ \A i \in Ids \ {0} : Moves(i)
<1> DEFINE c == cur'.id
<1>0. /\ next \in Nat /\ next > 0 /\ next' = next /\ Ids \subseteq Nat
      /\ \A i \in 1 .. next - 1 : i \in Ids /\ i # 0
  BY StreamAssumption DEF Types, peerVars, Ids
<1>1. PICK d \in Nat : \A k \in 1 .. Len(up') :
          k + d \in 1 .. Len(up) /\ up'[k] = up[k + d]
  BY ShrinkFacts DEF Types
<1>2. Untouched'
  <2>1. ASSUME NEW i \in Ids, i >= next PROVE effect'[i] = "none"
    <3>1. effect[i] = "none" /\ i # 0 /\ ~(i < next)
      BY <1>0, <2>1 DEF EffectInv, Untouched
    <3>2. QED
      BY <3>1 DEF Concerns
  <2>2. ASSUME NEW k \in 1 .. Len(up'), up'[k].kind = "req"
        PROVE  effect'[up'[k].id] = "none"
    <3>1. effect[up'[k].id] = "none" /\ up'[k].id \in 1 .. next - 1
      <4>1. k + d \in 1 .. Len(up) /\ up'[k] = up[k + d]
        BY <1>1
      <4>2. effect[up[k + d].id] = "none"
        BY <2>2, <4>1 DEF EffectInv, Untouched
      <4>3. up[k + d].id \in 1 .. next - 1
        BY <2>2, <4>1 DEF Numbers, UpNumbers
      <4>4. QED
        BY <4>1, <4>2, <4>3
    <3>2. up'[k].id \in Ids /\ up'[k].id # 0
      BY <1>0, <3>1
    <3>3. QED
      BY <2>2, <3>1, <3>2 DEF Concerns
  <2>3. QED
    BY <1>0, <2>1, <2>2 DEF Untouched
<1>3. ASSUME NEW r \in Reply, r.id # 0, r.step # "frag",
             Says(r, effect[r.id]), Terminal(r) => r.id # c \/ ~Unused(c)
      PROVE  Says(r, effect'[r.id])
  <2>1. CASE effect'[r.id] = effect[r.id]
    BY <1>3, <2>1
  <2>2. CASE effect'[r.id] # effect[r.id]
    <3>1. r.id = c /\ Unused(c) /\ Moves(c)
      BY <1>3, <2>2 DEF Concerns, Reply
    <3>2. r.body = "Proceed"
      BY <1>3, <3>1 DEF Terminal, Reply
    <3>3. effect'[c] # "none"
      BY <1>3, <2>2, <3>1, <3>2 DEF Moves
    <3>4. QED
      BY <3>1, <3>2, <3>3 DEF Says
  <2>3. QED
    BY <2>1, <2>2
<1>4. AnswersTrue'
  <2>0. down \in Seq(Reply) /\ Len(down) \in Nat
    BY EmptyFacts DEF Types, StreamTypeOK
  <2>1. ASSUME NEW k \in 1 .. Len(down), down[k].id # 0, down[k].step # "frag"
        PROVE  Says(down[k], effect'[down[k].id])
    <3>1. down[k] \in Reply
      BY <2>0
    <3>2. Says(down[k], effect[down[k].id])
      BY <2>1 DEF EffectInv, AnswersTrue
    <3>3. Terminal(down[k]) => down[k].id # c \/ ~Unused(c)
      BY DEF Unused
    <3>4. QED
      BY <1>3, <2>1, <3>1, <3>2, <3>3
  <2>2. CASE down' = down
    BY <2>1, <2>2 DEF AnswersTrue
  <2>3. ASSUME NEW r \in Reply, down' = Append(down, r), r.id = c,
               c # 0 /\ r.step # "frag" => Says(r, effect'[c])
        PROVE  AnswersTrue'
    <3>1. ASSUME NEW k \in 1 .. Len(down'), down'[k].id # 0,
                 down'[k].step # "frag"
          PROVE  Says(down'[k], effect'[down'[k].id])
      <4>1. CASE k \in 1 .. Len(down)
        BY <2>0, <2>1, <2>3, <3>1, <4>1, PushFacts
      <4>2. CASE k = Len(down) + 1
        BY <2>0, <2>3, <3>1, <4>2, PushFacts
      <4>3. k \in 1 .. Len(down) \/ k = Len(down) + 1
        BY <2>0, <2>3, <3>1, PushFacts
      <4>4. QED
        BY <4>1, <4>2, <4>3
    <3>2. QED
      BY <3>1 DEF AnswersTrue
  <2>4. QED
    BY <2>2, <2>3 DEF Concerns
<1>5. \A i \in Ids \ {0} : Moves(i)
  BY DEF Concerns, Moves
<1>6. QED
  BY <1>2, <1>4, <1>5 DEF EffectInv

\* Taking a request, or what passes for one, from the stream.
LEMMA DispatchConcerns ==
    ASSUME Types, Numbers, Once, EffectInv, up # <<>>, up' = Tail(up),
           NEW i \in Ids, NEW r \in Request, Dispatch(i, r), pc = "recv",
           i # 0 => Head(up).kind = "req" /\ Head(up).id = i
    PROVE  Concerns(cur'.id) /\ CurEffect' /\ cur'.id = i
<1>0. effect \in [Ids -> {"none", "running", "ok", "err"}] /\ StreamTypeOK
  BY DEF Types, StreamTypeOK
<1>1. cur'.id = i
  BY DEF Dispatch, ReqFrame
<1>2. ASSUME i # 0
      PROVE  /\ effect[i] = "none" /\ i < next /\ Unused(i)
             /\ \A k \in 1 .. Len(up') : up'[k].kind = "req" => up'[k].id # i
  <2>1. /\ Head(up) = up[1] /\ 1 \in 1 .. Len(up) /\ up[1].kind = "req"
        /\ up[1].id = i
    BY <1>0, <1>2, UpHead
  <2>2. effect[i] = "none" /\ Unused(i)
    BY <2>1 DEF EffectInv, Untouched, Once
  <2>3. i \in 1 .. next - 1 /\ next \in Nat
    BY <2>1 DEF Numbers, UpNumbers, Types
  <2>4. ASSUME NEW k \in 1 .. Len(up'), up'[k].kind = "req"
        PROVE  up'[k].id # i
    <3>1. /\ k + 1 \in 1 .. Len(up) /\ up'[k] = up[k + 1] /\ 1 < k + 1
      BY <1>0, <2>4, PopFacts DEF StreamTypeOK
    <3>2. up[1].id < up[k + 1].id
      BY <2>1, <2>4, <3>1 DEF Numbers, UpNumbers
    <3>3. up[k + 1].id \in 1 .. next - 1
      BY <2>4, <3>1 DEF Numbers, UpNumbers
    <3>4. QED
      BY <2>1, <2>3, <3>1, <3>2, <3>3
  <2>5. QED
    BY <2>2, <2>3, <2>4
<1>3. CASE effect' = effect /\ down' = down
           /\ (pc' = "preflight" \/ (pc' = "reply" /\ result' = "Err"))
  BY <1>1, <1>2, <1>3 DEF Concerns, Moves, CurEffect
<1>4. CASE effect' = effect /\ pc' = "returned"
           /\ (SendOk(ReplyFrame(i, "final", "Err")) \/ SendFails)
  <2>1. i # 0 => Says(ReplyFrame(i, "final", "Err"), effect'[i])
    BY <1>2, <1>4, ReplyShape DEF Says
  <2>2. ReplyFrame(i, "final", "Err") \in Reply
        /\ ReplyFrame(i, "final", "Err").id = i
    BY FrameTypes, ReplyShape
  <2>3. down' \in {down, Append(down, ReplyFrame(i, "final", "Err"))}
    BY <1>0, <1>4, <2>2, SendShape
  <2>4. Concerns(i)
    BY <1>4, <2>1, <2>2, <2>3 DEF Concerns, Moves
  <2>5. CurEffect'
    BY <1>4 DEF CurEffect
  <2>6. QED
    BY <1>1, <2>4, <2>5
<1>5. CASE down' = down /\ \/ /\ effect' = [effect EXCEPT ![i] = "ok"]
                              /\ pc' = "reply" /\ result' = "Ok"
                           \/ /\ effect' = [effect EXCEPT ![i] = "running"]
                              /\ pc' = "call"
  <2>1. \A j \in Ids : j # i => effect'[j] = effect[j]
    BY <1>0, <1>5
  <2>2. \/ effect'[i] = "ok" /\ pc' = "reply" /\ result' = "Ok"
        \/ effect'[i] = "running" /\ pc' = "call"
    BY <1>0, <1>5
  <2>3. Concerns(i)
    BY <1>2, <1>5, <2>1, <2>2 DEF Concerns, Moves
  <2>4. CurEffect'
    BY <1>1, <2>2 DEF CurEffect
  <2>5. QED
    BY <1>1, <2>3, <2>4
<1>6. QED
  BY <1>3, <1>4, <1>5 DEF Dispatch, Return, downVars

\* What the agent does for the request it serves.
LEMMA GoesOnConcerns ==
    ASSUME Types, Numbers, Once, EffectInv, AgentNext \/ Abort,
           ~RecvRequest, ~RecvMisaligned, UpShrinks, cur' = cur
    PROVE  Concerns(cur'.id) /\ CurEffect'
<1> DEFINE c == cur.id
<1>0. /\ effect \in [Ids -> {"none", "running", "ok", "err"}] /\ StreamTypeOK
      /\ c \in Ids /\ result \in {"Ok", "Err"}
  BY DEF Types, StreamTypeOK, Frame
<1>1. ASSUME Serving, c # 0
      PROVE  /\ c < next /\ Unused(c)
             /\ \A k \in 1 .. Len(up') : up'[k].kind = "req" => up'[k].id # c
  <2>1. PICK d \in Nat : \A k \in 1 .. Len(up') :
            k + d \in 1 .. Len(up) /\ up'[k] = up[k + d]
    BY <1>0, ShrinkFacts
  <2>2. QED
    BY <1>1, <2>1 DEF Numbers, Once
<1>2. CASE /\ effect' = effect /\ down' = down
           /\ \/ pc' \in {"recv", "returned", "released"}
              \/ pc \in {"install", "reading", "drain"}
                 /\ pc' \in {"install", "reading", "drain"}
  <2>1. Concerns(c)
    BY <1>2 DEF Concerns, Moves
  <2>2. CurEffect'
    BY <1>2 DEF EffectInv, CurEffect
  <2>3. QED
    BY <2>1, <2>2
<1>3. ASSUME NEW v \in {"ok", "err"}, effect' = [effect EXCEPT ![c] = v],
             pc \in {"call", "drain"}, down' = down,
             pc' = "recv" \/ (pc' = "reply" /\ (result' = "Ok" <=> v = "ok"))
      PROVE  Concerns(c) /\ CurEffect'
  <2>1. c # 0 => effect[c] = "running" /\ Serving
    BY <1>3 DEF EffectInv, CurEffect, Serving
  <2>2. effect'[c] = v /\ \A j \in Ids : j # c => effect'[j] = effect[j]
    BY <1>0, <1>3
  <2>3. Concerns(c)
    BY <1>1, <1>3, <2>1, <2>2 DEF Concerns, Moves
  <2>4. CurEffect'
    BY <1>3, <2>2 DEF CurEffect
  <2>5. QED
    BY <2>3, <2>4
<1>4. CASE DrainEnds
  <2>1. PICK v \in {"ok", "err"} : v = IF result' = "Ok" THEN "ok" ELSE "err"
    OBVIOUS
  <2>2. QED
    BY <1>3, <1>4, <2>1 DEF DrainEnds, downVars
<1>5. ASSUME NEW r \in {"Ok", "Err"}, CallReturns(r)
      PROVE  Concerns(c) /\ CurEffect'
  <2>1. PICK v \in {"ok", "err"} : v = IF r = "Ok" THEN "ok" ELSE "err"
    OBVIOUS
  <2>2. effect' = [effect EXCEPT ![c] = v] /\ pc = "call" /\ down' = down
    BY <1>5, <2>1 DEF CallReturns, downVars
  <2>3. pc' = "recv" \/ (pc' = "reply" /\ result' = r)
    BY <1>5 DEF CallReturns
  <2>4. r = "Ok" <=> v = "ok"
    BY <2>1
  <2>5. QED
    BY <1>3, <2>2, <2>3, <2>4
<1>6. CASE SendReply
  <2> DEFINE r == ReplyFrame(c, "final", result)
  <2>1. r \in Reply /\ r.id = c /\ r.body = result
    BY <1>0, FrameTypes, ReplyShape
  <2> HIDE DEF r
  <2>2. /\ pc = "reply" /\ pc' \in {"recv", "returned"} /\ effect' = effect
        /\ SendOk(r) \/ SendFails
    BY <1>6 DEF SendReply, Return, r
  <2>3. down' \in {down, Append(down, r)}
    BY <1>0, <2>1, <2>2, SendShape
  <2>4. c # 0 => Says(r, effect'[c])
    BY <1>0, <2>1, <2>2 DEF EffectInv, CurEffect, Says
  <2>5. Concerns(c)
    BY <2>1, <2>2, <2>3, <2>4 DEF Concerns, Moves
  <2>6. CurEffect'
    BY <2>2 DEF CurEffect
  <2>7. QED
    BY <2>5, <2>6
<1>7. ASSUME NEW v \in {"Proceed", "Refusal", "Err"}, Preflight(v)
      PROVE  Concerns(c) /\ CurEffect'
  <2> DEFINE r == ReplyFrame(c, "verdict", v)
  <2>1. r \in Reply /\ r.id = c /\ r.body = v
    BY <1>0, FrameTypes, ReplyShape
  <2> HIDE DEF r
  <2>2. c # 0 => effect[c] = "none" /\ Serving
    BY <1>7 DEF Preflight, EffectInv, CurEffect, Serving
  <2>3. CASE /\ SendOk(r) /\ v = "Proceed" /\ pc' = "install"
             /\ effect' = [effect EXCEPT ![c] = "running"]
    <3>1. /\ effect'[c] = "running"
          /\ \A j \in Ids : j # c => effect'[j] = effect[j]
      BY <1>0, <2>3
    <3>2. down' \in {down, Append(down, r)}
      BY <1>0, <2>1, <2>3, SendShape
    <3>3. Says(r, effect'[c])
      BY <2>1, <2>3, <3>1 DEF Says
    <3>4. Concerns(c)
      BY <1>1, <2>1, <2>2, <3>1, <3>2, <3>3 DEF Concerns, Moves
    <3>5. CurEffect'
      BY <2>3, <3>1 DEF CurEffect
    <3>6. QED
      BY <3>4, <3>5
  <2>4. CASE SendOk(r) /\ v # "Proceed" /\ pc' = "recv" /\ effect' = effect
    <3>1. down' \in {down, Append(down, r)}
      BY <1>0, <2>1, <2>4, SendShape
    <3>2. c # 0 => Says(r, effect'[c])
      BY <2>1, <2>2, <2>4 DEF Says
    <3>3. Concerns(c)
      BY <2>1, <2>4, <3>1, <3>2 DEF Concerns, Moves
    <3>4. CurEffect'
      BY <2>4 DEF CurEffect
    <3>5. QED
      BY <3>3, <3>4
  <2>5. CASE SendFails /\ pc' = "returned" /\ effect' = effect
    BY <1>2, <2>5 DEF SendFails, downVars
  <2>6. QED
    BY <1>7, <2>3, <2>4, <2>5 DEF Preflight, Return, r
<1>8. CASE Abort
  <2> DEFINE r == ReplyFrame(c, "frag", "Err")
  <2>1. r \in Reply /\ r.id = c /\ r.step = "frag"
    BY <1>0, FrameTypes, ReplyShape
  <2> HIDE DEF r
  <2>2. /\ pc' = "released" /\ effect' = effect
        /\ down' \in {down, Append(down, r)}
    BY <1>8 DEF Abort, r
  <2>3. Concerns(c)
    BY <2>1, <2>2 DEF Concerns, Moves
  <2>4. CurEffect'
    BY <2>2 DEF CurEffect
  <2>5. QED
    BY <2>3, <2>4
<1>9. CASE \/ Accept \/ RecvEof \/ RecvFails \/ HandlerReads \/ DrainChunk
           \/ Release \/ HandlerAwaits
           \/ \E r \in {"Ok", "Err"} : HandlerReturns(r)
  <2>1. /\ effect' = effect /\ down' = down
        /\ \/ pc' \in {"recv", "returned", "released"}
           \/ pc \in {"install", "reading", "drain"}
              /\ pc' \in {"install", "reading", "drain"}
    BY <1>9 DEF Accept, RecvEof, RecvFails, HandlerReads, DrainChunk, Release,
       HandlerAwaits, HandlerReturns, Return, downVars
  <2>2. QED
    BY <1>2, <2>1
<1>10. QED
  BY <1>4, <1>5, <1>6, <1>7, <1>8, <1>9
     DEF AgentNext, AgentStep, HandlerStep

\* A step of the peer's reads an answer, or writes a frame that is no request
\* but the next one.
LEMMA PeerKeeps ==
    ASSUME Types, Numbers, EffectInv, UNCHANGED <<effect, pc, cur, result>>,
           next' \in {next, next + 1},
           \/ up' = up
           \/ \E f \in Frame : /\ up' = Append(up, f)
                               /\ f.kind = "req" => f.id = next /\ next \in Ids,
           down' = down \/ (down # <<>> /\ down' = Tail(down))
    PROVE  EffectInv'
<1>0. /\ next \in Nat /\ Ids \subseteq Nat /\ StreamTypeOK
      /\ Len(up) \in Nat /\ Len(down) \in Nat
  BY EmptyFacts, StreamAssumption DEF Types, StreamTypeOK, Ids
<1>1. \A i \in Ids : i >= next' => effect'[i] = "none"
  BY <1>0 DEF EffectInv, Untouched
<1>2. ASSUME NEW k \in 1 .. Len(up'), up'[k].kind = "req"
      PROVE  effect'[up'[k].id] = "none"
  <2>1. CASE up' = up
    BY <1>2, <2>1 DEF EffectInv, Untouched
  <2>2. ASSUME NEW f \in Frame, up' = Append(up, f),
               f.kind = "req" => f.id = next /\ next \in Ids
        PROVE  effect'[up'[k].id] = "none"
    <3>0. /\ Len(up') = Len(up) + 1 /\ up'[Len(up) + 1] = f
          /\ \A j \in 1 .. Len(up) : up'[j] = up[j]
      BY <1>0, <2>2, PushFacts DEF StreamTypeOK
    <3>1. CASE k \in 1 .. Len(up)
      BY <1>2, <3>0, <3>1 DEF EffectInv, Untouched
    <3>2. CASE k = Len(up) + 1
      <4>1. up'[k].id = next /\ next \in Ids
        BY <1>2, <2>2, <3>0, <3>2
      <4>2. QED
        BY <1>0, <4>1 DEF EffectInv, Untouched
    <3>3. k \in 1 .. Len(up) \/ k = Len(up) + 1
      BY <1>0, <3>0
    <3>4. QED
      BY <3>1, <3>2, <3>3
  <2>3. QED
    BY <2>1, <2>2
<1>3. CurEffect'
  BY DEF EffectInv, CurEffect
<1>4. AnswersTrue'
  <2>1. CASE down' = down
    BY <2>1 DEF EffectInv, AnswersTrue
  <2>2. CASE down # <<>> /\ down' = Tail(down)
    <3>1. /\ Len(down') = Len(down) - 1
          /\ \A k \in 1 .. Len(down) - 1 : /\ k + 1 \in 1 .. Len(down)
                                           /\ down'[k] = down[k + 1]
      BY <1>0, <2>2, PopFacts DEF StreamTypeOK
    <3>2. QED
      BY <3>1 DEF EffectInv, AnswersTrue
  <2>3. QED
    BY <2>1, <2>2
<1>5. QED
  BY <1>1, <1>2, <1>3, <1>4 DEF EffectInv, Untouched

\* Every step keeps what is known of the handlers, and starts or ends at most
\* the one it concerns.
LEMMA StepEffect ==
    ASSUME IInv, EffectInv, [Next]_vars
    PROVE  EffectInv' /\ \A i \in Ids \ {0} : Moves(i)
<1>0. Types /\ Numbers /\ Once /\ StreamTypeOK /\ cur.id \in Ids
  BY DEF IInv, Types, StreamTypeOK, Frame
<1>1. CASE (AgentNext \/ Abort) /\ UNCHANGED peerVars
  <2>1. StreamTypeOK' /\ cur'.id \in Ids
    <3>1. StreamTypeOK'
      BY <1>0, <1>1, AgentShape
    <3>2. QED
      BY <3>1 DEF StreamTypeOK, Frame
  <2>2. CASE RecvRequest
    <3>1. /\ up # <<>> /\ up' = Tail(up) /\ pc = "recv" /\ Head(up).kind = "req"
          /\ Dispatch(Head(up).id, Head(up).req)
      BY <2>2 DEF RecvRequest, FrameReady
    <3>2. Concerns(cur'.id) /\ CurEffect' /\ UpShrinks
      BY <1>0, <3>1, UpHead, DispatchConcerns DEF UpShrinks
    <3>3. QED
      BY <1>0, <1>1, <2>1, <3>2, ConcernsKeeps
  <2>3. CASE RecvMisaligned
    <3>1. up # <<>> /\ up' = Tail(up) /\ pc = "recv" /\ UpShrinks
      BY <2>3 DEF RecvMisaligned, FrameReady, UpShrinks
    <3>2. CASE Return("RecvError")
               /\ UNCHANGED <<cur, pkg, result, effect, downVars>>
      <4>1. Concerns(cur'.id) /\ CurEffect'
        BY <3>2 DEF Concerns, Moves, CurEffect, Return, downVars
      <4>2. QED
        BY <1>0, <1>1, <2>1, <3>1, <4>1, ConcernsKeeps
    <3>3. ASSUME NEW r \in Requests, Dispatch(0, r)
          PROVE  EffectInv' /\ \A i \in Ids \ {0} : Moves(i)
      <4>1. r \in Request /\ 0 \in Ids
        BY StreamAssumption, FrameTypes
      <4>2. Concerns(cur'.id) /\ CurEffect'
        BY <1>0, <3>1, <3>3, <4>1, DispatchConcerns
      <4>3. QED
        BY <1>0, <1>1, <2>1, <3>1, <4>2, ConcernsKeeps
    <3>4. QED
      BY <2>3, <3>2, <3>3 DEF RecvMisaligned
  <2>4. CASE GoesOn /\ ~RecvRequest /\ ~RecvMisaligned
    <3>1. Concerns(cur'.id) /\ CurEffect' /\ UpShrinks
      BY <1>0, <1>1, <2>4, GoesOnConcerns DEF GoesOn
    <3>2. QED
      BY <1>0, <1>1, <2>1, <3>1, ConcernsKeeps
  <2>5. QED
    BY <1>0, <1>1, <2>2, <2>3, <2>4, AgentShape
<1>2. ASSUME NEW r \in Requests, PeerRequest(r)
      PROVE  EffectInv' /\ effect' = effect
  <2>1. /\ next \in Ids /\ Write(ReqFrame(next, r)) /\ next' = next + 1
    BY <1>0, <1>2, StreamAssumption DEF PeerRequest, Types, Ids
  <2>2. /\ ReqFrame(next, r) \in Frame /\ ReqFrame(next, r).id = next
    BY <2>1, StreamAssumption, FrameTypes DEF ReqFrame
  <2>3. QED
    BY <1>0, <2>1, <2>2, PeerKeeps DEF Write, downVars, agentVars
<1>3. effect' = effect => \A i \in Ids \ {0} : Moves(i)
  BY DEF Moves
<1>4. ASSUME NEW f \in Frame, f.kind # "req", next' = next,
             up' = Append(up, f) \/ up' = up, down' = down,
             UNCHANGED <<pc, cur, result, effect>>
      PROVE  EffectInv' /\ effect' = effect
  BY <1>0, <1>4, PeerKeeps
<1>5. ASSUME NEW n \in 0 .. inst.req.size, PeerChunk(n)
      PROVE  EffectInv' /\ effect' = effect
  <2> DEFINE f == ChunkFrame(inst.id, inst.req, given, n)
  <2>1. f \in Frame /\ f.kind = "chunk"
    BY <1>0, <1>5, PeerFrames DEF ChunkFrame
  <2> HIDE DEF f
  <2>2. Write(f) /\ next' = next
    BY <1>5 DEF PeerChunk, f
  <2>3. QED
    BY <1>4, <2>1, <2>2 DEF Write, downVars, agentVars
<1>6. CASE PeerOverruns
  <2> DEFINE n == inst.req.size - given + 1
             f == ChunkFrame(inst.id, inst.req, given, n)
  <2>1. n \in Nat
    BY <1>0, <1>6, PeerFrames DEF PeerOverruns, Types
  <2>2. f \in Frame /\ f.kind = "chunk"
    BY <1>0, <2>1, PeerFrames DEF ChunkFrame
  <2> HIDE DEF f
  <2>3. Write(f) /\ next' = next
    BY <1>6 DEF PeerOverruns, f
  <2>4. QED
    BY <1>3, <1>4, <2>2, <2>3 DEF Write, downVars, agentVars
<1>7. CASE PeerDrops
  <2> DEFINE f == FragFrame(inst.id, inst.req, given)
  <2>1. f \in Frame /\ f.kind = "frag"
    BY <1>0, PeerFrames DEF FragFrame
  <2> HIDE DEF f
  <2>2. /\ up' = up \/ up' = Append(up, f)
        /\ down' = down /\ UNCHANGED <<pc, cur, result, effect>>
        /\ next' = next
    BY <1>7 DEF PeerDrops, agentVars, peerVars, f
  <2>3. QED
    BY <1>3, <1>4, <2>1, <2>2
<1>8. CASE PeerPayloadDone \/ PeerFinishes \/ PeerReads \/ UNCHANGED vars
  <2>1. /\ up' = up /\ next' = next /\ UNCHANGED <<effect, pc, cur, result>>
        /\ down' = down \/ (down # <<>> /\ down' = Tail(down))
    BY <1>8 DEF PeerPayloadDone, PeerFinishes, PeerReads, streamVars, upVars,
       downVars, agentVars, peerVars, vars
  <2>2. QED
    BY <1>0, <1>3, <2>1, PeerKeeps
<1>9. QED
  BY <1>1, <1>2, <1>3, <1>5, <1>6, <1>7, <1>8
     DEF Next, PeerStep, Fault

\* The invariant of what was done for each request, whatever the peer sends.
THEOREM EffectInvariant == Spec => []EffectInv
<1>1. Init => EffectInv
  <2> SUFFICES ASSUME Init PROVE EffectInv
    OBVIOUS
  <2>1. /\ Len(up) = 0 /\ Len(down) = 0 /\ pc = "accept"
        /\ effect = [i \in Ids |-> "none"]
    BY DEF Init, StreamInit
  <2>2. QED
    BY <2>1 DEF EffectInv, Untouched, CurEffect, AnswersTrue
<1>2. IInv /\ EffectInv /\ [Next]_vars => EffectInv'
  BY StepEffect
<1>3. QED
  BY <1>1, <1>2, PeerStreamInvariant, PTL DEF Spec

\* The loop answers truthfully: Ok only for a request whose handler succeeded,
\* a refusal only for an install that was not begun, and nothing final while
\* the handler runs.  The peer may have overrun a transfer.
THEOREM AnswersAreTrue == Spec => []AnswersTrue
<1>1. EffectInv => AnswersTrue
  BY DEF EffectInv
<1>2. QED
  BY <1>1, EffectInvariant, PTL

\* The handler of a request is started at most once and ends at most once: no
\* leftover of a transfer and no dropped peer makes handle run a request again
\* or takes back what was done for it.
THEOREM HandlersRunOnce == Spec => [][\A i \in Ids \ {0} : Moves(i)]_vars
<1>1. IInv /\ EffectInv /\ [Next]_vars => [\A i \in Ids \ {0} : Moves(i)]_vars
  BY StepEffect
<1>2. QED
  BY <1>1, PeerStreamInvariant, EffectInvariant, PTL DEF Spec

\* No answer is due to what nobody sent.
DueSent == due \in Seq(Nat \ {0})

LEMMA DueIsSent == Spec => []DueSent
<1>1. Init => DueSent
  BY DEF Init, DueSent
<1>2. IInv /\ DueSent /\ [Next]_vars => DueSent'
  <2> SUFFICES ASSUME IInv, DueSent, [Next]_vars PROVE DueSent'
    OBVIOUS
  <2>1. \/ due' = due \/ due' = Append(due, next)
        \/ due # <<>> /\ due' = Tail(due)
    <3>1. CASE \E r \in Requests : PeerRequest(r)
      BY <3>1 DEF PeerRequest
    <3>2. CASE PeerReads
      BY <3>2 DEF PeerReads
    <3>3. CASE ~PeerReads /\ ~(\E r \in Requests : PeerRequest(r))
      BY <3>3 DEF Next, PeerStep, PeerChunk, PeerPayloadDone, PeerOverruns,
         PeerFinishes, PeerDrops, Fault, peerVars, vars
    <3>4. QED
      BY <3>1, <3>2, <3>3
  <2>2. next \in Nat \ {0}
    BY StreamAssumption DEF IInv, Types
  <2>3. CASE due' = Append(due, next)
    BY <2>2, <2>3, PushFacts DEF DueSent
  <2>4. CASE due # <<>> /\ due' = Tail(due)
    BY <2>4, PopFacts DEF DueSent
  <2>5. QED
    BY <2>1, <2>3, <2>4 DEF DueSent
<1>3. QED
  BY <1>1, <1>2, PeerStreamInvariant, PTL DEF Spec

\* What a peer that counts answers off may conclude of a success.
SuccessCountsOff ==
    ~deviated /\ downRecv = "held" /\ down # <<>>
    /\ Head(down).step = "final" /\ Head(down).body = "Ok" =>
        due # <<>> /\ effect[Head(due)] = "ok"

\* Order and truth together: when the next answer is a success, the request
\* whose answer is due first is one whose handler succeeded, though the answer
\* does not say which request it answers.
THEOREM CountedSuccessIsTrue == Spec => []SuccessCountsOff
<1>1. IInv /\ AnswersTrue /\ OkAnswersInOrder /\ DueSent => SuccessCountsOff
  <2>1. SUFFICES ASSUME IInv, AnswersTrue, OkAnswersInOrder, DueSent,
                        ~deviated, downRecv = "held", down # <<>>,
                        Head(down).step = "final", Head(down).body = "Ok"
                 PROVE  due # <<>> /\ effect[Head(due)] = "ok"
    BY DEF SuccessCountsOff
  <2>2. due # <<>> /\ Head(due) = Head(down).id
    BY <2>1 DEF OkAnswersInOrder
  <2>3. /\ Head(down) = down[1] /\ 1 \in 1 .. Len(down)
        /\ Head(due) = due[1] /\ 1 \in 1 .. Len(due)
    BY <2>1, <2>2, PopFacts DEF IInv, Types, StreamTypeOK
  <2>4. due[1] # 0
    BY <2>1, <2>3 DEF DueSent
  <2>5. QED
    BY <2>1, <2>2, <2>3, <2>4 DEF AnswersTrue, Says
<1>2. QED
  BY <1>1, PeerStreamInvariant, AnswersAreTrue, AnswersCountOff, DueIsSent, PTL
=============================================================================
