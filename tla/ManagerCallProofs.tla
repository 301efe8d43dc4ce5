-------------------------- MODULE ManagerCallProofs --------------------------
(***************************************************************************)
(* Proofs about ManagerCall: type correctness and the safety of the        *)
(* install exchange, for every set of requests, chunk length, flow-control *)
(* window and package source.                                              *)
(***************************************************************************)
EXTENDS ManagerCall, SequenceTheorems, TLAPS

-----------------------------------------------------------------------------
(* Sequences, as the streams use them. *)

\* Reading the first frame off a stream.
LEMMA PopFacts ==
    ASSUME NEW S, NEW s \in Seq(S), s # <<>>
    PROVE  /\ Head(s) \in S /\ Head(s) = s[1]
           /\ Tail(s) \in Seq(S)
           /\ Len(s) \in Nat /\ Len(s) > 0 /\ Len(Tail(s)) = Len(s) - 1
           /\ \A i \in 1 .. Len(s) - 1 : Tail(s)[i] = s[i + 1]
  OBVIOUS

\* A stream is empty when it has no frame.
LEMMA EmptyFacts ==
    ASSUME NEW S, NEW s \in Seq(S)
    PROVE  Len(s) \in Nat /\ (s = <<>> <=> Len(s) = 0)
  BY EmptySeq

\* Where the frames behind it then are.
LEMMA TailFacts ==
    ASSUME NEW S, NEW s \in Seq(S), s # <<>>, NEW t, t = Tail(s)
    PROVE  /\ Len(t) \in Nat /\ Len(t) = Len(s) - 1
           /\ \A i \in 1 .. Len(t) : /\ i + 1 \in 1 .. Len(s)
                                     /\ t[i] = s[i + 1]
                                     /\ i + 1 = Len(s) => i = Len(t)
           /\ t # <<>> => /\ 1 \in 1 .. Len(s) - 1 /\ t[1] = s[2]
                          /\ Len(t) \in 1 .. Len(t) /\ t[Len(t)] = s[Len(s)]
           /\ t = <<>> => Len(s) = 1
  <1>. DEFINE m == Len(s)
              n == Len(t)
  <1>1. t \in Seq(S) /\ n \in Nat /\ m \in Nat /\ n = m - 1
    BY PopFacts
  <1>2. \A i \in 1 .. n : t[i] = s[i + 1]
    BY <1>1, PopFacts
  <1>3. t = <<>> <=> n = 0
    BY <1>1, EmptyFacts
  <1>. HIDE DEF m, n
  <1>4. \A i \in 1 .. n : i + 1 \in 1 .. m /\ (i + 1 = m => i = n)
    BY <1>1
  <1>5. n # 0 => 1 \in 1 .. m - 1 /\ 1 \in 1 .. n /\ n \in 1 .. n
    BY <1>1
  <1>6. n # 0 => t[1] = s[1 + 1] /\ t[n] = s[n + 1]
    BY <1>2, <1>5
  <1>7. 1 + 1 = 2 /\ n + 1 = m /\ (n = 0 => m = 1)
    BY <1>1
  <1>8. /\ n \in Nat /\ n = m - 1
        /\ \A i \in 1 .. n : /\ i + 1 \in 1 .. m
                             /\ t[i] = s[i + 1]
                             /\ i + 1 = m => i = n
        /\ t # <<>> => /\ 1 \in 1 .. m - 1 /\ t[1] = s[2]
                       /\ n \in 1 .. n /\ t[n] = s[m]
        /\ t = <<>> => m = 1
    BY <1>1, <1>2, <1>3, <1>4, <1>5, <1>6, <1>7, Zenon
  <1>. QED
    BY <1>8 DEF m, n

\* Writing a frame to a stream.
LEMMA PushFacts ==
    ASSUME NEW S, NEW s \in Seq(S), NEW e \in S
    PROVE  /\ Append(s, e) \in Seq(S)
           /\ Append(s, e) # <<>>
           /\ Len(s) \in Nat /\ Len(Append(s, e)) = Len(s) + 1
           /\ \A i \in 1 .. Len(s) : Append(s, e)[i] = s[i]
           /\ Append(s, e)[Len(s) + 1] = e
  OBVIOUS

\* What a lost connection leaves of a stream.
LEMMA CutFacts ==
    ASSUME NEW S, NEW s \in Seq(S), NEW t, NEW a, NEW b, Cut(s, t, a, b)
    PROVE  /\ t \in Seq(S)
           /\ Len(t) \in Nat /\ Len(s) \in Nat /\ Len(t) <= Len(s)
           /\ \A i \in 1 .. Len(t) : t[i] = s[i]
           /\ b \in {a, "lost"} /\ (a = "open" => b = "lost")
           /\ b # "lost" => Len(t) = Len(s)
  <1>1. PICK k \in 0 .. Len(s) :
            /\ t = SubSeq(s, 1, k)
            /\ b \in IF k = Len(s) /\ a # "open" THEN {a, "lost"} ELSE {"lost"}
    BY DEF Cut
  <1>2. Len(s) \in Nat
    OBVIOUS
  <1>3. t \in Seq(S) /\ Len(t) = k /\ \A i \in 1 .. k : t[i] = s[i]
    BY <1>1, <1>2
  <1>. QED
    BY <1>1, <1>2, <1>3

-----------------------------------------------------------------------------
(* Type correctness. *)

\* The frames the two sides write are frames.
LEMMA FrameTypes ==
    /\ \A i \in Ids, r \in Request : ReqFrame(i, r) \in Frame
    /\ \A i \in Ids, r \in Request, o, n \in Nat :
          ChunkFrame(i, r, o, n) \in Frame
    /\ \A i \in Ids, r \in Request, o \in Nat : FragFrame(i, r, o) \in Frame
    /\ \A i \in Ids, b \in {"Proceed", "Refusal", "Ok", "Err"},
          st \in {"verdict", "final", "frag"} : ReplyFrame(i, st, b) \in Reply
    /\ 0 \in Ids /\ 1 \in Ids
  BY StreamAssumption
     DEF ReqFrame, ChunkFrame, FragFrame, Frame, ReplyFrame, Reply, Ids

\* A reply is sent or lost; either way the direction stays well-formed.
LEMMA SendType ==
    ASSUME TypeOK, NEW r \in Reply, SendOk(r) \/ SendFails
    PROVE  down' \in Seq(Reply) /\ downEnd' = downEnd /\ downRecv' = downRecv
  <1>1. down \in Seq(Reply) /\ Append(down, r) \in Seq(Reply)
    BY PushFacts DEF TypeOK, StreamTypeOK
  <1>. QED
    BY <1>1 DEF SendOk, SendFails, downVars

\* What a reader looks like when it is made, when it fails, when it advances.
LEMMA ReaderFacts ==
    /\ \A n \in Nat : /\ NewReader(n) \in PackageReader
                      /\ NewReader(n).size = n /\ NewReader(n).remaining = n
                      /\ ~NewReader(n).failed
    /\ \A p \in PackageReader :
          LET f == [p EXCEPT !.failed = TRUE]
          IN  /\ f \in PackageReader /\ f.failed
              /\ f.size = p.size /\ f.remaining = p.remaining
    /\ \A p \in PackageReader, n \in Nat :
          LET a == [p EXCEPT !.remaining = n]
          IN  /\ a \in PackageReader
              /\ a.size = p.size /\ a.remaining = n /\ a.failed = p.failed
  BY Zenon DEF NewReader, PackageReader

\* The initial states are well typed.
LEMMA InitType == Init => TypeOK
  <1>1. (CHOOSE r \in Requests : TRUE) \in Request
    BY StreamAssumption
  <1>. SUFFICES ASSUME Init PROVE TypeOK
    OBVIOUS
  <1>2. cur \in Frame /\ pkg \in PackageReader
    BY <1>1, FrameTypes, ReaderFacts DEF Init, StreamInit
  <1>3. up \in Seq(Frame) /\ down \in Seq(Reply)
    BY DEF Init, StreamInit
  <1>4. StreamTypeOK
    BY <1>2, <1>3 DEF Init, StreamInit, StreamTypeOK
  <1>. QED
    BY <1>4, ManagerAssumption DEF Init, TypeOK

\* The frame at the head of a stream.
LEMMA UpHead ==
    ASSUME TypeOK, up # <<>>
    PROVE  /\ Head(up) \in Frame /\ Tail(up) \in Seq(Frame)
           /\ Head(up).len \in Nat /\ Head(up).off \in Nat
           /\ Head(up).id \in Ids /\ Head(up).req \in Request
           /\ Head(up).kind \in {"req", "chunk", "frag"}
  <1>1. Head(up) \in Frame /\ Tail(up) \in Seq(Frame)
    BY PopFacts DEF TypeOK, StreamTypeOK
  <1>. QED
    BY <1>1 DEF Frame

\* The two ways one read of the package ends.
LEMMA ReadChunkCases ==
    ASSUME TypeOK, ReadChunk
    PROVE  /\ upEnd' = upEnd /\ upRecv' = upRecv
           /\ ~pkg.failed /\ pkg.remaining > 0
           /\ \/ /\ FrameReady /\ up' = Tail(up)
                 /\ Head(up).len <= pkg.remaining
                 /\ pkg' = [pkg EXCEPT !.remaining = @ - Head(up).len]
              \/ /\ FrameReady /\ up' = Tail(up)
                 /\ Head(up).len > pkg.remaining
                 /\ pkg' = [pkg EXCEPT !.failed = TRUE]
              \/ /\ EofReady \/ ErrReady
                 /\ up' = IF upEnd = "reset" THEN <<>> ELSE up
                 /\ pkg' = [pkg EXCEPT !.failed = TRUE]
  <1>1. FrameReady => Head(up).len \in Nat
    BY UpHead DEF FrameReady
  <1>2. pkg.remaining \in Nat
    BY DEF TypeOK, StreamTypeOK, PackageReader
  <1>. QED
    BY <1>1, <1>2 DEF ReadChunk

\* A chunk read off the stream keeps the stream and the PackageReader typed.
LEMMA ReadChunkType ==
    ASSUME TypeOK, ReadChunk
    PROVE  /\ up' \in Seq(Frame) /\ upEnd' = upEnd /\ upRecv' = upRecv
           /\ pkg' \in PackageReader
  <1>1. pkg \in PackageReader /\ pkg.remaining \in Nat
    BY DEF TypeOK, StreamTypeOK, PackageReader
  <1>2. up' \in Seq(Frame)
    <2>1. <<>> \in Seq(Frame) /\ up \in Seq(Frame)
      BY DEF TypeOK, StreamTypeOK
    <2>2. FrameReady => Tail(up) \in Seq(Frame)
      BY UpHead DEF FrameReady
    <2>. QED
      BY <2>1, <2>2, ReadChunkCases
  <1>3. CASE pkg' = [pkg EXCEPT !.failed = TRUE]
    BY <1>1, <1>2, <1>3, ReadChunkCases, ReaderFacts
  <1>4. CASE /\ FrameReady /\ Head(up).len <= pkg.remaining
             /\ pkg' = [pkg EXCEPT !.remaining = @ - Head(up).len]
    <2>1. Head(up).len \in Nat
      BY <1>4, UpHead DEF FrameReady
    <2>2. pkg.remaining - Head(up).len \in Nat
      BY <1>1, <1>4, <2>1
    <2>. QED
      BY <1>1, <1>2, <1>4, <2>2, ReadChunkCases, ReaderFacts
  <1>. QED
    BY <1>3, <1>4, ReadChunkCases

\* So does every arm of the dispatch loop.
LEMMA DispatchType ==
    ASSUME TypeOK, NEW i \in Ids, NEW r \in Request, Dispatch(i, r)
    PROVE  /\ down' \in Seq(Reply) /\ downEnd' = downEnd
           /\ downRecv' = downRecv
           /\ pc' \in {"reply", "returned", "preflight", "call"}
           /\ cur' \in Frame /\ pkg' = pkg
           /\ result' \in {"Ok", "Err"}
           /\ ret' \in {ret, "RecvError"}
           /\ effect' \in [Ids -> {"none", "running", "ok", "err"}]
  <1>1. cur' \in Frame /\ pkg' = pkg
    BY FrameTypes DEF Dispatch
  <1>2. /\ down' \in Seq(Reply) /\ downEnd' = downEnd
        /\ downRecv' = downRecv
    BY FrameTypes, SendType DEF Dispatch, downVars, TypeOK, StreamTypeOK
  <1>3. /\ pc' \in {"reply", "returned", "preflight", "call"}
        /\ result' \in {"Ok", "Err"}
        /\ ret' \in {ret, "RecvError"}
        /\ effect' \in [Ids -> {"none", "running", "ok", "err"}]
    BY DEF Dispatch, Return, TypeOK, StreamTypeOK
  <1>. QED
    BY <1>1, <1>2, <1>3

\* Every step of the agent keeps the types of what the agent can change.
LEMMA AgentType ==
    ASSUME TypeOK, AgentNext
    PROVE  StreamTypeOK'
  <1>. USE DEF TypeOK, StreamTypeOK, upVars, downVars
  <1>1. CASE Accept
    BY <1>1 DEF Accept
  <1>2. CASE RecvRequest
    BY <1>2, UpHead, DispatchType DEF RecvRequest, FrameReady
  <1>3. CASE RecvMisaligned
    <2>1. Tail(up) \in Seq(Frame)
      BY <1>3, PopFacts DEF RecvMisaligned, FrameReady
    <2>2. CASE Return("RecvError")
               /\ UNCHANGED <<cur, pkg, result, effect, downVars>>
      BY <1>3, <2>1, <2>2 DEF RecvMisaligned, Return
    <2>3. CASE \E r \in Requests : Dispatch(0, r)
      BY <1>3, <2>1, <2>3, DispatchType, FrameTypes, StreamAssumption
         DEF RecvMisaligned
    <2>. QED
      BY <1>3, <2>2, <2>3 DEF RecvMisaligned
  <1>4. CASE RecvEof \/ RecvFails
    BY <1>4 DEF RecvEof, RecvFails, Return
  <1>5. CASE HandlerReads
    BY <1>5, ReadChunkType DEF HandlerReads
  <1>6. CASE DrainChunk
    BY <1>6, ReadChunkType DEF DrainChunk
  <1>7. CASE DrainEnds
    BY <1>7 DEF DrainEnds
  <1>8. CASE SendReply
    <2>1. ReplyFrame(cur.id, "final", result) \in Reply
      BY FrameTypes DEF Frame
    <2>. QED
      BY <1>8, <2>1, SendType DEF SendReply, Return
  <1>9. CASE Release
    BY <1>9 DEF Release
  <1>10. CASE \E r \in {"Ok", "Err"} : CallReturns(r) \/ HandlerReturns(r)
    BY <1>10 DEF CallReturns, HandlerReturns
  <1>11. CASE \E v \in {"Proceed", "Refusal", "Err"} : Preflight(v)
    <2>1. PICK v \in {"Proceed", "Refusal", "Err"} : Preflight(v)
      BY <1>11
    <2>2. ReplyFrame(cur.id, "verdict", v) \in Reply /\ cur.req.size \in Nat
      BY FrameTypes DEF Frame, Request
    <2>3. NewReader(cur.req.size) \in PackageReader
      BY <2>2, ReaderFacts
    <2>. QED
      BY <2>1, <2>2, <2>3, SendType DEF Preflight, Return
  <1>12. CASE HandlerAwaits
    BY <1>12 DEF HandlerAwaits
  <1>. QED
    BY <1>1, <1>2, <1>3, <1>4, <1>5, <1>6, <1>7, <1>8, <1>9, <1>10, <1>11,
       <1>12 DEF AgentNext, AgentStep, HandlerStep

\* So do the loss of the connection and of the agent's task.
LEMMA FaultType ==
    ASSUME TypeOK, ConnLost \/ Abort
    PROVE  StreamTypeOK'
  <1>. USE DEF TypeOK, StreamTypeOK, agentVars
  <1>1. CASE ConnLost
    BY <1>1, CutFacts DEF ConnLost
  <1>2. CASE Abort
    <2>1. ReplyFrame(cur.id, "frag", "Err") \in Reply
      BY FrameTypes DEF Frame
    <2>2. down' \in Seq(Reply)
      BY <1>2, <2>1, PushFacts DEF Abort
    <2>. QED
      BY <1>2, <2>2 DEF Abort
  <1>. QED
    BY <1>1, <1>2

\* So does every step of the manager's call.
LEMMA ManagerType ==
    ASSUME TypeOK, ManagerStep \/ Cancel \/ SourceFails
    PROVE  TypeOK'
  <1>. USE DEF TypeOK, StreamTypeOK, agentVars, downVars, streamVars, Finish,
             DropStreams
  <1>1. req \in Request /\ sent \in Nat
    BY StreamAssumption
  <1>2. CASE RefuseLocally
    BY <1>2 DEF RefuseLocally
  <1>3. CASE SendRequest
    <2>1. up' \in Seq(Frame)
      BY <1>1, <1>3, FrameTypes, PushFacts DEF SendRequest, MayWrite
    <2>. QED
      BY <1>3, <2>1 DEF SendRequest
  <1>4. CASE SendRequestFails
    BY <1>4 DEF SendRequestFails
  <1>5. CASE RecvVerdict
    <2>1. down' \in Seq(Reply)
      BY <1>5, PopFacts DEF RecvVerdict, ReplyReady
    <2>. QED
      BY <1>5, <2>1 DEF RecvVerdict
  <1>6. CASE PackageSent
    BY <1>6 DEF PackageSent
  <1>7. CASE RecvResponse
    <2>1. down' \in Seq(Reply)
      BY <1>7, PopFacts DEF RecvResponse, ReplyReady
    <2>. QED
      BY <1>7, <2>1 DEF RecvResponse
  <1>8. CASE RecvReplyFails
    BY <1>8 DEF RecvReplyFails
  <1>9. CASE SourceShort \/ ChunkFails \/ SourceFails
    BY <1>9 DEF SourceShort, ChunkFails, SourceFails, AbortTransfer
  <1>10. CASE \E n \in 1 .. ChunkLen : SendChunk(n)
    <2>1. PICK n \in 1 .. ChunkLen : SendChunk(n)
      BY <1>10
    <2>2. n \in Nat
      BY ManagerAssumption
    <2>3. up' \in Seq(Frame)
      BY <1>1, <2>1, <2>2, FrameTypes, PushFacts DEF SendChunk, MayWrite
    <2>. QED
      BY <1>1, <2>1, <2>2, <2>3 DEF SendChunk
  <1>11. CASE Cancel
    <2>1. up' \in Seq(Frame)
      BY <1>1, <1>11, FrameTypes, PushFacts, SMTT(30) DEF Cancel
    <2>. QED
      BY <1>11, <2>1 DEF Cancel
  <1>. QED
    BY <1>2, <1>3, <1>4, <1>5, <1>6, <1>7, <1>8, <1>9, <1>10, <1>11
       DEF ManagerStep

\* Hence every step preserves the type invariant.
LEMMA NextType == TypeOK /\ [Next]_vars => TypeOK'
  <1>. SUFFICES ASSUME TypeOK, [Next]_vars PROVE TypeOK'
    OBVIOUS
  <1>1. CASE AgentNext /\ UNCHANGED managerVars
    BY <1>1, AgentType DEF TypeOK, managerVars
  <1>2. CASE ManagerStep
    BY <1>2, ManagerType
  <1>3. CASE Fault
    BY <1>3, FaultType, ManagerType DEF Fault, TypeOK, managerVars
  <1>4. CASE UNCHANGED vars
    BY <1>4 DEF vars, TypeOK, StreamTypeOK
  <1>. QED
    BY <1>1, <1>2, <1>3, <1>4 DEF Next, Terminated

\* Every state of a call is well-typed: in particular a PackageReader's
\* remaining count never goes below zero.
THEOREM TypeCorrect == Spec => []TypeOK
  BY InitType, NextType, PTL DEF Spec

-----------------------------------------------------------------------------
(* The protocol invariant.  One lemma per action, one step per part of the   *)
(* invariant the action can disturb.                                         *)

\* The values the invariant compares.
LEMMA Values ==
    ASSUME TypeOK
    PROVE  /\ sent \in Nat /\ req \in Request /\ req.size \in Nat
           /\ cur.id \in Ids /\ cur.req \in Request
           /\ pkg \in PackageReader
           /\ pkg.size \in Nat /\ pkg.remaining \in Nat
           /\ up \in Seq(Frame) /\ Len(up) \in Nat
           /\ \A i \in 1 .. Len(up) : up[i].off \in Nat /\ up[i].len \in Nat
           /\ down \in Seq(Reply) /\ Len(down) \in Nat
           /\ effect \in [Ids -> {"none", "running", "ok", "err"}]
           /\ 1 \in Ids
  <1>. USE DEF TypeOK, StreamTypeOK
  <1>1. sent \in Nat /\ req \in Request /\ req.size \in Nat
    BY StreamAssumption DEF Request
  <1>2. cur.id \in Ids /\ cur.req \in Request
    BY DEF Frame
  <1>3. /\ pkg \in PackageReader
        /\ pkg.size \in Nat /\ pkg.remaining \in Nat
    BY DEF PackageReader
  <1>4. up \in Seq(Frame) /\ Len(up) \in Nat /\ Len(down) \in Nat
    OBVIOUS
  <1>5. \A i \in 1 .. Len(up) : up[i] \in Frame
    BY <1>4
  <1>6. \A i \in 1 .. Len(up) : up[i].off \in Nat /\ up[i].len \in Nat
    BY <1>5 DEF Frame
  <1>. QED
    BY <1>1, <1>2, <1>3, <1>4, <1>6, FrameTypes

\* Before the call starts nothing was sent, received or run.
LEMMA InitProtocol == Init => ProtocolInv
  <1>. SUFFICES ASSUME Init PROVE ProtocolInv
    OBVIOUS
  <1>1. cur.id = 0 /\ 1 \in Ids /\ effect[1] = "none"
    BY FrameTypes DEF Init, StreamInit, ReqFrame
  <1>2. Len(up) = 0 /\ Len(down) = 0 /\ req.size \in Nat
    BY StreamAssumption DEF Init, StreamInit, Request
  <1>. QED
    BY <1>1, <1>2
       DEF Init, StreamInit, ProtocolInv, RequestInv, UpInv, ExchangeInv,
           ContiguousInv, QuietInv, ReplyInv, AppliedMeansWhole, OkMeansDone,
           Transfer

\* accept_bi.
LEMMA AcceptProtocol ==
    ASSUME IndInv, Accept, UNCHANGED managerVars
    PROVE  ProtocolInv'
  BY DEF IndInv, ProtocolInv, Accept, managerVars, upVars, downVars,
         RequestInv, UpInv, ExchangeInv, ContiguousInv, QuietInv, ReplyInv,
         AppliedMeansWhole, OkMeansDone, Transfer, Taken, FrameReady

\* recv_request_raw ends or fails.
LEMMA RecvEndsProtocol ==
    ASSUME IndInv, RecvEof \/ RecvFails, UNCHANGED managerVars
    PROVE  ProtocolInv'
  <1>. USE DEF IndInv, ProtocolInv, RecvEof, RecvFails, Return, managerVars,
               upVars, downVars
  <1>1. RequestInv' /\ UpInv' /\ ExchangeInv'
    BY DEF RequestInv, UpInv, ExchangeInv, Transfer
  <1>2. ContiguousInv' /\ QuietInv'
    BY DEF ContiguousInv, QuietInv, Transfer, FrameReady
  <1>3. ReplyInv' /\ AppliedMeansWhole' /\ OkMeansDone'
    BY DEF ReplyInv, AppliedMeansWhole, OkMeansDone
  <1>. QED
    BY <1>1, <1>2, <1>3

\* A unary handler method returns.
LEMMA CallReturnsProtocol ==
    ASSUME IndInv, NEW r \in {"Ok", "Err"}, CallReturns(r),
           UNCHANGED managerVars
    PROVE  ProtocolInv'
  <1>. USE DEF IndInv, ProtocolInv, CallReturns, managerVars, upVars, downVars
  <1>1. /\ pc = "call" /\ cur.id = 1 /\ ~IsInstall(req)
        /\ effect[1] = "running"
    BY DEF ExchangeInv
  <1>2. effect'[1] = IF r = "Ok" THEN "ok" ELSE "err"
    BY <1>1, Values
  <1>3. pc' \in {"reply", "recv"} /\ (pc' = "reply" => result' = r)
    OBVIOUS
  <1>4. RequestInv' /\ UpInv' /\ ExchangeInv'
    BY <1>1, <1>2, <1>3 DEF RequestInv, UpInv, ExchangeInv, Transfer
  <1>5. ContiguousInv' /\ QuietInv'
    BY <1>1, <1>3 DEF ContiguousInv, QuietInv, Transfer, FrameReady
  <1>6. AppliedMeansWhole' /\ OkMeansDone'
    BY <1>1 DEF AppliedMeansWhole, OkMeansDone, IsInstall
  <1>7. ReplyInv'
    BY <1>1, <1>2, <1>3 DEF ReplyInv
  <1>. QED
    BY <1>4, <1>5, <1>6, <1>7

\* node_package_install awaits a chunk, or returns.
LEMMA HandlerProtocol ==
    ASSUME IndInv, UNCHANGED managerVars,
           HandlerAwaits \/ \E r \in {"Ok", "Err"} : HandlerReturns(r)
    PROVE  ProtocolInv'
  <1>. USE DEF IndInv, ProtocolInv, HandlerAwaits, HandlerReturns, managerVars,
               upVars, downVars
  <1>1. Transfer /\ pc' \in {"reading", "drain"}
    BY DEF Transfer
  <1>2. RequestInv' /\ UpInv' /\ ExchangeInv'
    BY <1>1 DEF RequestInv, UpInv, ExchangeInv, Transfer
  <1>3. ContiguousInv' /\ QuietInv'
    BY <1>1 DEF ContiguousInv, QuietInv, Transfer, FrameReady, Taken
  <1>4. AppliedMeansWhole' /\ OkMeansDone' /\ ReplyInv'
    BY <1>1 DEF AppliedMeansWhole, OkMeansDone, ReplyInv, Transfer
  <1>. QED
    BY <1>2, <1>3, <1>4

\* drain returns and the install's result is settled.
LEMMA DrainEndsProtocol ==
    ASSUME IndInv, DrainEnds, UNCHANGED managerVars
    PROVE  ProtocolInv'
  <1>. USE DEF IndInv, ProtocolInv, managerVars, upVars, downVars
  <1>1. /\ pc = "drain" /\ pc' = "reply" /\ Transfer
        /\ cur.id = 1 /\ IsInstall(req) /\ effect[1] = "running"
        /\ pkg.size = req.size /\ pkg.remaining <= pkg.size
    BY DEF DrainEnds, Transfer, ExchangeInv
  <1>2. effect'[1] = IF result' = "Ok" THEN "ok" ELSE "err"
    BY <1>1, Values DEF DrainEnds
  <1>3. ~pkg.failed =>
          /\ pkg.remaining = 0 /\ sent = req.size
          /\ ~FrameReady
    <2>. SUFFICES ASSUME ~pkg.failed
                  PROVE  pkg.remaining = 0 /\ sent = req.size /\ ~FrameReady
      OBVIOUS
    <2>1. pkg.remaining = 0
      BY DEF DrainEnds
    <2>2. sent = req.size
      BY <1>1, <2>1, Values DEF ContiguousInv, ExchangeInv, Taken
    <2>3. ASSUME FrameReady PROVE FALSE
      <3>1. up # <<>> /\ Len(up) > 0 /\ Head(up) = up[1] /\ up[1].kind # "frag"
        BY <2>3, PopFacts, Values DEF FrameReady
      <3>2. up[1].off = req.size
        BY <1>1, <2>1, <3>1, Values DEF ContiguousInv, Taken
      <3>3. up[1].kind \in {"req", "chunk"}
        BY <3>1, UpHead
      <3>4. up[1].kind = "chunk" /\ up[1].len > 0
        BY <1>1, <3>1, <3>3, Values DEF UpInv
      <3>5. up[1].off + up[1].len <= sent
        BY <3>1, <3>4, Values DEF UpInv
      <3>. QED
        BY <2>2, <3>1, <3>2, <3>4, <3>5, Values
    <2>. QED
      BY <2>1, <2>2, <2>3
  <1>4. result' = "Ok" => ~pkg.failed
    BY DEF DrainEnds
  <1>5. RequestInv' /\ UpInv' /\ ExchangeInv'
    BY <1>1, <1>2 DEF RequestInv, UpInv, ExchangeInv, Transfer, DrainEnds
  <1>6. ContiguousInv'
    BY <1>1 DEF ContiguousInv, Transfer
  <1>7. QuietInv'
    BY <1>1, <1>3 DEF QuietInv, FrameReady, DrainEnds
  <1>8. AppliedMeansWhole'
    BY <1>1, <1>2, <1>3, <1>4 DEF AppliedMeansWhole, DrainEnds
  <1>9. OkMeansDone' /\ ReplyInv'
    BY <1>1, <1>2 DEF OkMeansDone, ReplyInv, DrainEnds
  <1>. QED
    BY <1>5, <1>6, <1>7, <1>8, <1>9

\* Inside a transfer the head of the stream is the next piece of the package,
\* and it fits.
LEMMA NextPiece ==
    ASSUME IndInv, Transfer, ~pkg.failed, FrameReady
    PROVE  /\ up # <<>> /\ Len(up) > 0 /\ Head(up) = up[1]
           /\ up[1].kind = "chunk" /\ up[1].len > 0
           /\ up[1].off = Taken /\ up[1].len <= pkg.remaining
  <1>. USE DEF IndInv, ProtocolInv
  <1>1. up # <<>> /\ Len(up) > 0 /\ Head(up) = up[1] /\ up[1].kind # "frag"
    BY PopFacts, Values DEF FrameReady
  <1>2. up[1].kind \in {"req", "chunk"}
    BY <1>1, UpHead
  <1>3. cur.id = 1 /\ pkg.size = req.size /\ pkg.remaining <= pkg.size
    BY DEF ExchangeInv
  <1>4. up[1].kind = "chunk" /\ up[1].len > 0 /\ up[1].off + up[1].len <= sent
    BY <1>1, <1>2, <1>3, Values DEF UpInv
  <1>5. up[1].off = Taken
    BY <1>1 DEF ContiguousInv
  <1>6. sent <= req.size
    BY DEF ExchangeInv
  <1>. QED
    BY <1>1, <1>3, <1>4, <1>5, <1>6, Values DEF Taken

\* One read of the package, by the handler or by drain.
LEMMA ReadProtocol ==
    ASSUME IndInv, Transfer, ReadChunk, UNCHANGED managerVars,
           pc' \in {"install", "reading", "drain"},
           UNCHANGED <<downVars, cur, result, ret, effect>>
    PROVE  ProtocolInv'
  <1>. USE DEF IndInv, ProtocolInv, managerVars, downVars
  <1>1. /\ cur.id = 1 /\ IsInstall(req) /\ effect[1] = "running"
        /\ pkg.size = req.size /\ pkg.remaining <= pkg.size
        /\ ~pkg.failed /\ upEnd' = upEnd /\ upRecv' = upRecv
    BY ReadChunkCases DEF ExchangeInv
  <1>2. RequestInv' /\ AppliedMeansWhole' /\ OkMeansDone' /\ ReplyInv'
    BY <1>1 DEF RequestInv, AppliedMeansWhole, OkMeansDone, ReplyInv, Transfer
  <1>3. CASE /\ FrameReady /\ up' = Tail(up)
             /\ pkg' = [pkg EXCEPT !.remaining = @ - Head(up).len]
    <2>1. /\ up # <<>> /\ Len(up) > 0 /\ Head(up) = up[1]
          /\ up[1].kind = "chunk" /\ up[1].len > 0
          /\ up[1].off = Taken /\ up[1].len <= pkg.remaining
      BY <1>1, <1>3, NextPiece
    <2>2. /\ Len(up') \in Nat /\ Len(up') = Len(up) - 1
          /\ \A i \in 1 .. Len(up') : /\ i + 1 \in 1 .. Len(up)
                                      /\ up'[i] = up[i + 1]
                                      /\ i + 1 = Len(up) => i = Len(up')
          /\ up' # <<>> => /\ 1 \in 1 .. Len(up) - 1 /\ up'[1] = up[2]
                           /\ up'[Len(up')] = up[Len(up)]
          /\ up' = <<>> => Len(up) = 1
      <3>1. up \in Seq(Frame)
        BY Values
      <3>. QED
        BY <1>3, <2>1, <3>1, TailFacts, Zenon
    <2>3. /\ pkg.remaining - up[1].len \in Nat
          /\ pkg.remaining - up[1].len <= pkg.size
      BY <1>1, <2>1, Values
    <2>4. /\ pkg'.size = pkg.size /\ pkg'.remaining = pkg.remaining - up[1].len
          /\ pkg'.failed = pkg.failed
      BY <1>3, <2>1, <2>3, Values, ReaderFacts
    <2>5. UpInv'
      <3>1. \A i \in 1 .. Len(up) :
               /\ up[i].kind # "req"
               /\ up[i].kind = "chunk" => up[i].len > 0
               /\ up[i].kind = "frag" => i = Len(up) /\ upEnd # "open"
               /\ up[i].off + up[i].len <= sent
        BY <1>1 DEF UpInv
      <3>2. \A i \in 1 .. Len(up') :
               /\ up'[i].kind # "req"
               /\ up'[i].kind = "chunk" => up'[i].len > 0
               /\ up'[i].kind = "frag" => i = Len(up') /\ upEnd # "open"
               /\ up'[i].off + up'[i].len <= sent
        BY <2>2, <3>1
      <3>. QED
        BY <1>1, <3>2 DEF UpInv
    <2>6. ExchangeInv'
      BY <1>1, <2>3, <2>4, Values DEF ExchangeInv, Transfer
    <2>7. ContiguousInv'
      <3>1. /\ Taken <= sent
            /\ \A i \in 1 .. Len(up) - 1 :
                  up[i + 1].off = up[i].off + up[i].len
            /\ upEnd = "open" => sent = up[Len(up)].off + up[Len(up)].len
        BY <1>1, <2>1 DEF ContiguousInv
      <3>2. Taken' = up[1].off + up[1].len
        BY <2>1, <2>4, Values DEF Taken
      <3>3. up[1].off + up[1].len <= sent
        BY <2>1, Values DEF UpInv
      <3>4. up' # <<>> => up'[1].off = Taken'
        <4>1. 1 \in 1 .. Len(up) - 1 => up[1 + 1].off = up[1].off + up[1].len
          BY <3>1
        <4>. QED
          BY <2>2, <3>2, <4>1
      <3>5. \A i \in 1 .. Len(up') - 1 : up'[i + 1].off = up'[i].off + up'[i].len
        <4>. TAKE i \in 1 .. Len(up') - 1
        <4>1. /\ i \in 1 .. Len(up') /\ i + 1 \in 1 .. Len(up')
              /\ i + 1 \in 1 .. Len(up) - 1
          BY <2>1, <2>2, Values
        <4>2. up[(i + 1) + 1].off = up[i + 1].off + up[i + 1].len
          BY <3>1, <4>1
        <4>. QED
          BY <2>2, <4>1, <4>2
      <3>6. upEnd' = "open" => sent' = IF up' = <<>> THEN Taken'
                               ELSE up'[Len(up')].off + up'[Len(up')].len
        BY <1>1, <2>2, <3>1, <3>2
      <3>. QED
        BY <3>2, <3>3, <3>4, <3>5, <3>6 DEF ContiguousInv
    <2>8. QuietInv'
      BY <1>1, <2>4 DEF QuietInv
    <2>. QED
      BY <1>2, <2>5, <2>6, <2>7, <2>8
  <1>4. CASE FrameReady /\ Head(up).len > pkg.remaining
    BY <1>1, <1>4, NextPiece, Values
  <1>5. CASE /\ EofReady \/ ErrReady
             /\ up' = IF upEnd = "reset" THEN <<>> ELSE up
             /\ pkg' = [pkg EXCEPT !.failed = TRUE]
    <2>1. /\ pkg'.size = pkg.size /\ pkg'.remaining = pkg.remaining
          /\ pkg'.failed
      BY <1>5, Values, ReaderFacts
    <2>2. upEnd # "open"
      BY <1>5 DEF EofReady, ErrReady
    <2>3. ~FrameReady'
      BY <1>5 DEF EofReady, ErrReady, FrameReady
    <2>4. UpInv'
      <3>1. CASE upEnd = "reset"
        BY <1>5, <3>1 DEF UpInv
      <3>2. CASE upEnd # "reset"
        BY <1>1, <1>5, <3>2 DEF UpInv
      <3>. QED
        BY <3>1, <3>2
    <2>5. ExchangeInv'
      BY <1>1, <2>1 DEF ExchangeInv, Transfer
    <2>6. ContiguousInv' /\ QuietInv'
      BY <1>1, <2>1, <2>2, <2>3 DEF ContiguousInv, QuietInv
    <2>. QED
      BY <1>2, <2>4, <2>5, <2>6
  <1>. QED
    BY <1>3, <1>4, <1>5, ReadChunkCases

\* The states in which the loop finds a frame, and what the frame is.
LEMMA LoopHead ==
    ASSUME IndInv, pc = "recv", FrameReady
    PROVE  /\ cur.id = 0 /\ effect[1] = "none" /\ down = <<>> /\ sent = 0
           /\ Head(up).kind = "req" /\ Head(up).id = 1 /\ Head(up).req = req
           /\ Tail(up) = <<>>
  <1>. USE DEF IndInv, ProtocolInv
  <1>1. cur.id = 0
    BY DEF QuietInv, RequestInv
  <1>2. effect[1] = "none" /\ down = <<>>
    BY <1>1 DEF RequestInv
  <1>3. sent = 0
    BY <1>2, Values DEF ExchangeInv
  <1>4. up # <<>> /\ Len(up) > 0 /\ Head(up) = up[1] /\ up[1].kind # "frag"
    BY PopFacts, Values DEF FrameReady
  <1>5. up[1].kind \in {"req", "chunk"}
    BY <1>4, UpHead
  <1>6. 1 \in 1 .. Len(up) /\ up[1].off \in Nat /\ up[1].len \in Nat
    BY <1>4, Values
  <1>7. up[1].kind # "chunk"
    BY <1>3, <1>6 DEF UpInv
  <1>8. Head(up).kind = "req" /\ Head(up).id = 1 /\ Head(up).req = req
    BY <1>4, <1>5, <1>6, <1>7 DEF UpInv
  <1>9. Len(up) = 1
    <2>. DEFINE n == Len(up)
    <2>1. n <= 1 /\ n > 0
      BY <1>1, <1>4 DEF UpInv
    <2>2. n \in Nat
      BY Values
    <2>. HIDE DEF n
    <2>3. n = 1
      BY <2>1, <2>2
    <2>. QED
      BY <2>3 DEF n
  <1>10. Tail(up) \in Seq(Frame) /\ Len(Tail(up)) = 0
    BY <1>4, <1>9, PopFacts, Values
  <1>. QED
    BY <1>1, <1>2, <1>3, <1>8, <1>10, EmptyFacts

\* A reply written at the end of the downward direction.
LEMMA SendFacts ==
    ASSUME TypeOK, NEW r \in Reply, SendOk(r) \/ SendFails
    PROVE  /\ \/ down' = down
              \/ /\ Len(down') = Len(down) + 1
                 /\ \A i \in 1 .. Len(down) : down'[i] = down[i]
                 /\ down'[Len(down) + 1] = r
           /\ downEnd' = downEnd /\ downRecv' = downRecv
  <1>1. down \in Seq(Reply)
    BY Values
  <1>. QED
    BY <1>1, PushFacts DEF SendOk, SendFails, downVars

\* A property of every reply in flight and of the one written.
LEMMA RepliesAfterSend ==
    ASSUME TypeOK, NEW r \in Reply, SendOk(r) \/ SendFails,
           NEW i \in 1 .. Len(down')
    PROVE  down'[i] = r \/ (i \in 1 .. Len(down) /\ down'[i] = down[i])
  <1>1. Len(down) \in Nat
    BY Values
  <1>2. CASE down' = down
    BY <1>2
  <1>3. CASE /\ Len(down') = Len(down) + 1
             /\ \A k \in 1 .. Len(down) : down'[k] = down[k]
             /\ down'[Len(down) + 1] = r
    <2>1. i \in 1 .. Len(down) \/ i = Len(down) + 1
      BY <1>1, <1>3
    <2>. QED
      BY <1>3, <2>1
  <1>. QED
    BY <1>2, <1>3, SendFacts

\* The request is received: the only frame that can be there.
LEMMA RecvRequestProtocol ==
    ASSUME IndInv, RecvRequest, UNCHANGED managerVars
    PROVE  ProtocolInv'
  <1>. USE DEF IndInv, ProtocolInv, managerVars, downVars
  <1>1. /\ cur.id = 0 /\ effect[1] = "none" /\ down = <<>> /\ sent = 0
        /\ up' = <<>> /\ Dispatch(1, req)
        /\ upEnd' = upEnd /\ upRecv' = upRecv /\ pc = "recv"
    BY LoopHead DEF RecvRequest
  <1>2. cur'.id = 1 /\ cur'.req = req
    BY <1>1 DEF Dispatch, ReqFrame
  <1>3. /\ pc' \in {"reply", "returned", "preflight", "call"}
        /\ pc' = "preflight" => IsInstall(req) /\ effect'[1] = "none"
        /\ pc' = "call" => ~IsInstall(req) /\ effect'[1] = "running"
        /\ pc' = "reply" => \/ effect'[1] = "none" /\ result' = "Err"
                            \/ effect'[1] = "ok" /\ ~IsInstall(req)
        /\ pc' = "returned" => effect'[1] = "none"
    <2>1. \A x \in {"running", "ok"} :
             [effect EXCEPT ![1] = x][1] = x
      BY Values
    <2>2. req.code = "EchoRequest" => ~IsInstall(req)
      BY DEF IsInstall
    <2>. QED
      BY <1>1, <2>1, <2>2 DEF Dispatch, Return
  <1>4. Len(up') = 0 /\ Len(down) = 0
    BY <1>1
  <1>5. \A i \in 1 .. Len(down') : down'[i].body = "Err"
    <2>. TAKE i \in 1 .. Len(down')
    <2>1. CASE down' = down
      BY <1>4, <2>1
    <2>2. CASE \/ SendOk(ReplyFrame(1, "final", "Err"))
               \/ SendFails
      <3>1. ReplyFrame(1, "final", "Err") \in Reply
        BY FrameTypes
      <3>2. down'[i] = ReplyFrame(1, "final", "Err")
        BY <1>4, <2>2, <3>1, RepliesAfterSend
      <3>. QED
        BY <3>2 DEF ReplyFrame
    <2>. QED
      BY <1>1, <2>1, <2>2 DEF Dispatch
  <1>6. mpc # "start" /\ mpc # "stream" /\ outcome # "Refused"
        /\ outcome # "Ok"
    <2>1. up # <<>>
      BY DEF RecvRequest, FrameReady
    <2>. QED
      BY <1>1, <2>1 DEF RequestInv, ExchangeInv, ReplyInv, OkMeansDone
  <1>7. RequestInv'
    BY <1>1, <1>2, <1>3, <1>6 DEF RequestInv
  <1>8. UpInv'
    BY <1>1, <1>2, <1>4 DEF UpInv
  <1>9. ExchangeInv' /\ ContiguousInv'
    BY <1>1, <1>2, <1>3, <1>6 DEF ExchangeInv, ContiguousInv, Transfer
  <1>10. QuietInv'
    BY <1>1, <1>2, <1>3 DEF QuietInv, FrameReady, Transfer
  <1>11. ReplyInv'
    BY <1>1, <1>3, <1>5, <1>6 DEF ReplyInv
  <1>12. AppliedMeansWhole' /\ OkMeansDone'
    BY <1>1, <1>3, <1>6 DEF AppliedMeansWhole, OkMeansDone, IsInstall
  <1>. QED
    BY <1>7, <1>8, <1>9, <1>10, <1>11, <1>12

\* A chunk is never taken for a request.
LEMMA NeverMisaligned ==
    ASSUME IndInv, RecvMisaligned
    PROVE  FALSE
  BY LoopHead DEF RecvMisaligned

\* The preflight verdict.
LEMMA PreflightProtocol ==
    ASSUME IndInv, NEW v \in {"Proceed", "Refusal", "Err"}, Preflight(v),
           UNCHANGED managerVars
    PROVE  ProtocolInv'
  <1>. USE DEF IndInv, ProtocolInv, managerVars, upVars
  <1>1. /\ pc = "preflight" /\ cur.id = 1 /\ IsInstall(req)
        /\ effect[1] = "none" /\ cur.req = req /\ cur' = cur
    BY DEF Preflight, ExchangeInv, RequestInv
  <1>2. up = <<>> /\ up' = <<>> /\ Len(up') = 0 /\ sent = 0
        /\ upEnd' = upEnd /\ upRecv' = upRecv
    BY <1>1, Values DEF UpInv, ExchangeInv, Preflight
  <1>3. mpc # "start" /\ mpc # "stream" /\ outcome # "Refused"
        /\ outcome # "Ok"
    BY <1>1 DEF RequestInv, ExchangeInv, ReplyInv, OkMeansDone
  <1>4. ReplyFrame(cur.id, "verdict", v) \in Reply
    BY <1>1, FrameTypes
  <1>5. \A i \in 1 .. Len(down) : down[i].body = "Err"
    <2>1. \A i \in 1 .. Len(down) : down[i] \in Reply
      BY Values
    <2>. QED
      BY <1>1, <2>1 DEF ReplyInv, Reply
  <1>6. \A i \in 1 .. Len(down') : down'[i].body \in {"Err", v}
    <2>. TAKE i \in 1 .. Len(down')
    <2>1. SendOk(ReplyFrame(cur.id, "verdict", v)) \/ SendFails
      BY DEF Preflight
    <2>2. \/ down'[i] = ReplyFrame(cur.id, "verdict", v)
          \/ i \in 1 .. Len(down) /\ down'[i] = down[i]
      BY <1>4, <2>1, RepliesAfterSend
    <2>. QED
      BY <1>5, <2>2 DEF ReplyFrame
  <1>7. CASE pc' = "install"
    <2>1. /\ v = "Proceed" /\ pkg' = NewReader(req.size)
          /\ effect'[1] = "running"
      BY <1>1, <1>7, Values DEF Preflight, Return
    <2>2. pkg'.size = req.size /\ pkg'.remaining = req.size /\ ~pkg'.failed
      BY <2>1, Values, ReaderFacts
    <2>3. RequestInv' /\ UpInv'
      BY <1>1, <1>2, <1>3, <1>7, <2>1 DEF RequestInv, UpInv
    <2>4. ExchangeInv'
      BY <1>1, <1>2, <1>3, <1>7, <2>1, <2>2, Values DEF ExchangeInv, Transfer
    <2>5. Taken' = 0
      BY <2>2, Values DEF Taken
    <2>6. ContiguousInv'
      BY <1>2, <2>5 DEF ContiguousInv
    <2>7. QuietInv'
      BY <1>7, <2>2 DEF QuietInv
    <2>8. ReplyInv' /\ AppliedMeansWhole' /\ OkMeansDone'
      BY <1>3, <1>6, <1>7, <2>1 DEF ReplyInv, AppliedMeansWhole, OkMeansDone
    <2>. QED
      BY <2>3, <2>4, <2>6, <2>7, <2>8
  <1>8. CASE pc' # "install"
    <2>1. /\ pc' \in {"recv", "returned"} /\ effect' = effect
          /\ v # "Proceed" \/ down' = down
          /\ v = "Proceed" => pc' = "returned"
      BY <1>8 DEF Preflight, Return, SendFails, downVars
    <2>2. RequestInv' /\ UpInv'
      BY <1>1, <1>2, <1>3, <2>1 DEF RequestInv, UpInv
    <2>3. ExchangeInv' /\ ContiguousInv'
      BY <1>1, <1>2, <1>3, <2>1 DEF ExchangeInv, ContiguousInv, Transfer
    <2>4. QuietInv'
      BY <1>1, <1>2, <2>1 DEF QuietInv, FrameReady, Transfer
    <2>5. \A i \in 1 .. Len(down') : down'[i].body \in {"Err", "Refusal"}
      BY <1>5, <1>6, <2>1
    <2>6. ReplyInv'
      BY <1>1, <1>3, <2>1, <2>5 DEF ReplyInv
    <2>7. AppliedMeansWhole' /\ OkMeansDone'
      BY <1>1, <1>3, <2>1 DEF AppliedMeansWhole, OkMeansDone
    <2>. QED
      BY <2>2, <2>3, <2>4, <2>6, <2>7
  <1>. QED
    BY <1>7, <1>8

\* The final response of a request.
LEMMA SendReplyProtocol ==
    ASSUME IndInv, SendReply, UNCHANGED managerVars
    PROVE  ProtocolInv'
  <1>. USE DEF IndInv, ProtocolInv, managerVars, upVars
  <1>1. /\ pc = "reply" /\ cur.id = 1 /\ pc' \in {"recv", "returned"}
        /\ UNCHANGED <<up, upEnd, upRecv, cur, pkg, result, effect>>
        /\ SendOk(ReplyFrame(cur.id, "final", result)) \/ SendFails
    BY DEF SendReply, Return, ExchangeInv
  <1>2. ReplyFrame(cur.id, "final", result) \in Reply
    BY <1>1, FrameTypes DEF TypeOK, StreamTypeOK
  <1>3. \A i \in 1 .. Len(down') :
           \/ down'[i].body = result
           \/ i \in 1 .. Len(down) /\ down'[i] = down[i]
    <2>. TAKE i \in 1 .. Len(down')
    <2>1. \/ down'[i] = ReplyFrame(cur.id, "final", result)
          \/ i \in 1 .. Len(down) /\ down'[i] = down[i]
      BY <1>1, <1>2, RepliesAfterSend
    <2>. QED
      BY <2>1 DEF ReplyFrame
  <1>4. RequestInv' /\ UpInv' /\ ExchangeInv'
    BY <1>1 DEF RequestInv, UpInv, ExchangeInv, Transfer
  <1>5. ContiguousInv' /\ QuietInv'
    BY <1>1 DEF ContiguousInv, QuietInv, Transfer, FrameReady
  <1>6. AppliedMeansWhole' /\ OkMeansDone'
    BY <1>1 DEF AppliedMeansWhole, OkMeansDone
  <1>7. ReplyInv'
    <2>1. result \in {"Ok", "Err"} /\ (result = "Ok" => effect[1] = "ok")
      BY <1>1 DEF ReplyInv, TypeOK, StreamTypeOK
    <2>. QED
      BY <1>1, <1>3, <2>1 DEF ReplyInv
  <1>. QED
    BY <1>4, <1>5, <1>6, <1>7

\* The stream is released, or the task that serves it dropped.
LEMMA LeaveProtocol ==
    ASSUME IndInv, Release \/ Abort, UNCHANGED managerVars
    PROVE  ProtocolInv'
  <1>. USE DEF IndInv, ProtocolInv, managerVars
  <1>1. /\ pc' = "released" /\ pc # "accept"
        /\ UNCHANGED <<up, upEnd, cur, pkg, result, effect>>
    BY DEF Release, Abort
  <1>2. /\ cur.id = 0 => down' = down
        /\ \A i \in 1 .. Len(down') :
              \/ down'[i].body = "Err"
              \/ i \in 1 .. Len(down) /\ down'[i] = down[i]
    <2>1. CASE down' = down
      BY <2>1
    <2>2. CASE /\ pc \in {"preflight", "reply"}
               /\ down' = Append(down, ReplyFrame(cur.id, "frag", "Err"))
      <3>1. cur.id = 1 /\ ReplyFrame(1, "frag", "Err") \in Reply
            /\ down \in Seq(Reply)
        BY <2>2, FrameTypes, Values DEF ExchangeInv
      <3>2. /\ Len(down') = Len(down) + 1 /\ Len(down) \in Nat
            /\ \A i \in 1 .. Len(down) : down'[i] = down[i]
            /\ down'[Len(down) + 1] = ReplyFrame(1, "frag", "Err")
        BY <2>2, <3>1, PushFacts
      <3>3. \A i \in 1 .. Len(down') : i \in 1 .. Len(down) \/ i = Len(down) + 1
        BY <3>2
      <3>4. ReplyFrame(1, "frag", "Err").body = "Err"
        BY DEF ReplyFrame
      <3>. QED
        BY <3>1, <3>2, <3>3, <3>4
    <2>. QED
      BY <2>1, <2>2 DEF Release, Abort
  <1>3. RequestInv' /\ UpInv' /\ ExchangeInv'
    BY <1>1, <1>2 DEF RequestInv, UpInv, ExchangeInv, Transfer
  <1>4. ContiguousInv' /\ QuietInv'
    BY <1>1 DEF ContiguousInv, QuietInv, Transfer
  <1>5. AppliedMeansWhole' /\ OkMeansDone'
    BY <1>1 DEF AppliedMeansWhole, OkMeansDone
  <1>6. ReplyInv'
    BY <1>1, <1>2 DEF ReplyInv
  <1>. QED
    BY <1>3, <1>4, <1>5, <1>6

\* The connection is lost: what is left of each direction is a prefix.
LEMMA ConnLostProtocol ==
    ASSUME IndInv, ConnLost, UNCHANGED managerVars
    PROVE  ProtocolInv'
  <1>. USE DEF IndInv, ProtocolInv, managerVars, agentVars
  <1>1. UNCHANGED <<upRecv, downRecv, pc, cur, pkg, result, ret, effect>>
    BY DEF ConnLost
  <1>2. /\ Len(up') \in Nat /\ Len(up) \in Nat /\ Len(up') <= Len(up)
        /\ up' \in Seq(Frame)
        /\ \A i \in 1 .. Len(up') : up'[i] = up[i]
        /\ upEnd' # "open"
    <2>1. up \in Seq(Frame) /\ Cut(up, up', upEnd, upEnd')
      BY Values DEF ConnLost
    <2>. QED
      BY <2>1, CutFacts
  <1>3. /\ Len(down') \in Nat /\ Len(down) \in Nat /\ Len(down') <= Len(down)
        /\ down' \in Seq(Reply)
        /\ \A i \in 1 .. Len(down') : down'[i] = down[i]
    <2>1. down \in Seq(Reply) /\ Cut(down, down', downEnd, downEnd')
      BY Values DEF ConnLost
    <2>. QED
      BY <2>1, CutFacts
  <1>4. up = <<>> => up' = <<>>
    BY <1>2, EmptyFacts, Values
  <1>5. down = <<>> => down' = <<>>
    BY <1>3, EmptyFacts, Values
  <1>6. \A i \in 1 .. Len(up') : i \in 1 .. Len(up) /\ (i = Len(up) => i = Len(up'))
    BY <1>2
  <1>7. \A i \in 1 .. Len(down') : i \in 1 .. Len(down)
    BY <1>3
  <1>8. up' # <<>> => up # <<>> /\ up'[1] = up[1]
    BY <1>2, <1>4, EmptyFacts
  <1>9. RequestInv'
    BY <1>1, <1>4, <1>5 DEF RequestInv
  <1>10. UpInv'
    <2>1. cur.id = 0 => Len(up') <= 1
      BY <1>2 DEF UpInv
    <2>. QED
      BY <1>1, <1>2, <1>4, <1>6, <2>1 DEF UpInv
  <1>11. ExchangeInv'
    BY <1>1 DEF ExchangeInv, Transfer
  <1>12. ContiguousInv'
    <2>1. \A i \in 1 .. Len(up') - 1 : /\ i \in 1 .. Len(up) - 1
                                       /\ i \in 1 .. Len(up')
                                       /\ i + 1 \in 1 .. Len(up')
      BY <1>2
    <2>2. Transfer /\ ~pkg.failed =>
             \A i \in 1 .. Len(up') - 1 : up'[i + 1].off = up'[i].off + up'[i].len
      BY <1>2, <2>1 DEF ContiguousInv
    <2>. QED
      BY <1>1, <1>2, <1>8, <2>2 DEF ContiguousInv, Transfer, Taken
  <1>13. ~FrameReady => ~FrameReady'
    <2>1. up' # <<>> => Head(up') = up'[1] /\ Head(up) = up[1]
      BY <1>2, <1>8, PopFacts, Values
    <2>. QED
      BY <1>8, <2>1 DEF FrameReady
  <1>14. QuietInv'
    BY <1>1, <1>2, <1>13 DEF QuietInv, Transfer
  <1>15. ReplyInv' /\ AppliedMeansWhole' /\ OkMeansDone'
    BY <1>1, <1>3, <1>7 DEF ReplyInv, AppliedMeansWhole, OkMeansDone
  <1>. QED
    BY <1>9, <1>10, <1>11, <1>12, <1>14, <1>15

\* A manager's step that leaves the agent, what is in flight towards it and
\* the transfer alone, and ends the call or moves it on.
LEMMA ManagerMovesProtocol ==
    ASSUME IndInv,
           UNCHANGED <<up, upRecv, agentVars, api, req, authz, src, sent>>,
           upEnd' = "open" => upEnd = "open",
           upEnd = upEnd' \/ upEnd = "open",
           Len(down') \in Nat, Len(down) \in Nat,
           \A i \in 1 .. Len(down') :
              \/ i \in 1 .. Len(down) /\ down'[i] = down[i]
              \/ i + 1 \in 1 .. Len(down) /\ down'[i] = down[i + 1],
           down = <<>> => down' = <<>>,
           mpc' # "start",
           mpc' = "verdict" => mpc = "verdict",
           mpc' = "stream" => IsInstall(req) /\ effect[1] # "none",
           outcome' = "Ok" => effect[1] = "ok",
           outcome' = "Refused" => /\ cur.id = 1 /\ effect[1] = "none"
                                   /\ pc \in {"recv", "returned", "released"}
    PROVE  ProtocolInv'
  <1>. USE DEF IndInv, ProtocolInv, agentVars
  <1>1. RequestInv' /\ ExchangeInv'
    BY DEF RequestInv, ExchangeInv, Transfer
  <1>2. UpInv'
    BY DEF UpInv
  <1>3. ContiguousInv'
    BY DEF ContiguousInv, Transfer, Taken
  <1>4. QuietInv'
    BY DEF QuietInv, Transfer, FrameReady
  <1>5. AppliedMeansWhole' /\ OkMeansDone'
    BY DEF AppliedMeansWhole, OkMeansDone
  <1>6. ReplyInv'
    BY DEF ReplyInv
  <1>. QED
    BY <1>1, <1>2, <1>3, <1>4, <1>5, <1>6

\* The steps of the manager that put nothing on the stream.
LEMMA ManagerQuietProtocol ==
    ASSUME IndInv,
           \/ RefuseLocally \/ SendRequestFails \/ PackageSent
           \/ RecvReplyFails \/ AbortTransfer
           \/ Cancel /\ UNCHANGED up
    PROVE  ProtocolInv'
  <1>. USE DEF IndInv, ProtocolInv
  <1>1. /\ UNCHANGED <<up, upRecv, down, agentVars, api, req, authz, src, sent>>
        /\ upEnd' = "open" => upEnd = "open"
        /\ upEnd = upEnd' \/ upEnd = "open"
        /\ mpc' \in {"await", "done"}
        /\ outcome' \in {outcome, "Rejected", "Denied", "Failed", "Cancelled"}
    BY DEF RefuseLocally, SendRequestFails, PackageSent, RecvReplyFails,
           AbortTransfer, Cancel, Finish, DropStreams, streamVars, agentVars
  <1>2. Len(down') \in Nat /\ Len(down) \in Nat
    BY <1>1, Values
  <1>3. /\ outcome' = "Ok" => effect[1] = "ok"
        /\ outcome' = "Refused" => /\ cur.id = 1 /\ effect[1] = "none"
                                   /\ pc \in {"recv", "returned", "released"}
    BY <1>1 DEF OkMeansDone, ReplyInv
  <1>4. /\ down' = down /\ mpc' # "start" /\ mpc' # "verdict" /\ mpc' # "stream"
        /\ UNCHANGED <<up, upRecv, agentVars, api, req, authz, src, sent>>
    BY <1>1
  <1>5. /\ \A i \in 1 .. Len(down') :
              \/ i \in 1 .. Len(down) /\ down'[i] = down[i]
              \/ i + 1 \in 1 .. Len(down) /\ down'[i] = down[i + 1]
        /\ down = <<>> => down' = <<>>
    BY <1>4
  <1>. QED
    BY <1>1, <1>2, <1>3, <1>4, <1>5, ManagerMovesProtocol

\* A reply is read off the stream: what is left are its other replies.
LEMMA DownTail ==
    ASSUME TypeOK, ReplyReady, down' = Tail(down)
    PROVE  /\ Len(down') \in Nat /\ Len(down) \in Nat
           /\ 1 \in 1 .. Len(down) /\ Head(down) = down[1]
           /\ \A i \in 1 .. Len(down') :
                 i + 1 \in 1 .. Len(down) /\ down'[i] = down[i + 1]
           /\ down # <<>>
  <1>1. down \in Seq(Reply) /\ down # <<>>
    BY Values DEF ReplyReady
  <1>2. /\ Len(down') \in Nat
        /\ \A i \in 1 .. Len(down') :
              i + 1 \in 1 .. Len(down) /\ down'[i] = down[i + 1]
    BY <1>1, TailFacts
  <1>3. Len(down) \in Nat /\ Len(down) > 0 /\ Head(down) = down[1]
    BY <1>1, PopFacts
  <1>. QED
    BY <1>1, <1>2, <1>3

\* A verdict or a response is received, and says the truth.
LEMMA RecvReplyProtocol ==
    ASSUME IndInv, RecvVerdict \/ RecvResponse
    PROVE  ProtocolInv'
  <1>. USE DEF IndInv, ProtocolInv
  <1>1. /\ UNCHANGED <<up, upRecv, agentVars, api, req, authz, src, sent>>
        /\ upEnd' = "open" => upEnd = "open"
        /\ upEnd = upEnd' \/ upEnd = "open"
        /\ ReplyReady /\ down' = Tail(down)
    BY DEF RecvVerdict, RecvResponse, Finish, DropStreams
  <1>2. /\ Len(down') \in Nat /\ Len(down) \in Nat
        /\ 1 \in 1 .. Len(down) /\ Head(down) = down[1]
        /\ \A i \in 1 .. Len(down') :
              i + 1 \in 1 .. Len(down) /\ down'[i] = down[i + 1]
        /\ down # <<>>
    BY <1>1, DownTail
  <1>3. /\ Head(down).body = "Proceed" => effect[1] # "none"
        /\ Head(down).body = "Ok" => effect[1] = "ok"
        /\ Head(down).body = "Refusal" =>
              effect[1] = "none" /\ pc \in {"recv", "returned", "released"}
    BY <1>2 DEF ReplyInv
  <1>4. cur.id = 1
    BY <1>2 DEF RequestInv
  <1>5. /\ mpc' \in {"stream", "done"}
        /\ mpc' = "stream" => IsInstall(req) /\ effect[1] # "none"
    BY <1>3 DEF RecvVerdict, RecvResponse, Finish, ExchangeInv
  <1>6. outcome' = "Ok" => effect[1] = "ok"
    BY <1>3 DEF RecvVerdict, RecvResponse, Finish, OkMeansDone
  <1>7. outcome' = "Refused" => /\ cur.id = 1 /\ effect[1] = "none"
                                /\ pc \in {"recv", "returned", "released"}
    BY <1>3, <1>4 DEF RecvVerdict, RecvResponse, Finish, ReplyInv
  <1>. QED
    BY <1>1, <1>2, <1>5, <1>6, <1>7, ManagerMovesProtocol

\* The request is written to a stream that was just opened.
LEMMA SendRequestProtocol ==
    ASSUME IndInv, SendRequest
    PROVE  ProtocolInv'
  <1>. USE DEF IndInv, ProtocolInv, agentVars
  <1>1. /\ mpc = "start" /\ cur.id = 0 /\ up = <<>> /\ effect[1] = "none"
        /\ down = <<>> /\ pc \in {"accept", "recv", "returned", "released"}
    BY DEF SendRequest, RequestInv
  <1>2. sent = 0 /\ sent' = 0
    BY <1>1, Values DEF ExchangeInv, SendRequest, Finish
  <1>3. /\ UNCHANGED <<upRecv, down, pc, cur, pkg, result, effect, req>>
        /\ mpc' \in {"verdict", "await", "done"}
        /\ mpc' = "verdict" => IsInstall(req)
        /\ outcome' \in {outcome, "Sent"}
    BY DEF SendRequest, Finish, MaySend, VariantAllowed
  <1>4. Len(up') <= 1 /\ \A i \in 1 .. Len(up') : i = 1 /\ up'[i] = ReqFrame(1, req)
    <2>1. CASE up' = up
      BY <1>1, <2>1
    <2>2. CASE up' = Append(up, ReqFrame(1, req))
      <3>1. ReqFrame(1, req) \in Frame /\ <<>> \in Seq(Frame)
        BY FrameTypes, Values
      <3>2. Len(up') = 1 /\ up'[1] = ReqFrame(1, req)
        BY <1>1, <2>2, <3>1, PushFacts
      <3>. QED
        BY <3>2
    <2>. QED
      BY <2>1, <2>2 DEF SendRequest, MayWrite
  <1>5. \A i \in 1 .. Len(up') :
           /\ i = 1 /\ up'[i].kind = "req" /\ up'[i].id = 1
           /\ up'[i].req = req
    BY <1>4 DEF ReqFrame
  <1>6. RequestInv' /\ UpInv'
    BY <1>1, <1>3, <1>4, <1>5 DEF RequestInv, UpInv
  <1>7. ExchangeInv'
    BY <1>1, <1>2, <1>3 DEF ExchangeInv, Transfer
  <1>8. ContiguousInv' /\ QuietInv'
    BY <1>1, <1>3 DEF ContiguousInv, QuietInv, Transfer
  <1>9. ReplyInv' /\ AppliedMeansWhole' /\ OkMeansDone'
    BY <1>1, <1>3 DEF ReplyInv, AppliedMeansWhole, OkMeansDone
  <1>. QED
    BY <1>6, <1>7, <1>8, <1>9

\* While the package is being sent the agent is in the transfer, or gone.
LEMMA SenderKnows ==
    ASSUME IndInv, mpc = "stream", sent < req.size, upEnd = "open"
    PROVE  /\ cur.id = 1 /\ effect[1] # "none"
           /\ pc \in {"install", "reading", "drain", "released"}
           /\ Transfer => ~pkg.failed
           /\ effect[1] # "ok"
           /\ \A i \in 1 .. Len(up) : up[i].kind = "chunk"
  <1>. USE DEF IndInv, ProtocolInv
  <1>1. IsInstall(req) /\ effect[1] # "none" /\ sent # req.size
    BY Values DEF ExchangeInv
  <1>2. cur.id = 1 /\ pc # "accept"
    BY <1>1 DEF RequestInv
  <1>3. /\ ~(Transfer /\ pkg.failed)
        /\ pc \notin {"call", "reply", "recv", "returned"}
    BY <1>1, <1>2 DEF QuietInv
  <1>4. pc \in {"install", "reading", "drain", "released"}
    BY <1>1, <1>2, <1>3 DEF ExchangeInv, TypeOK, StreamTypeOK
  <1>5. effect[1] # "ok"
    BY <1>1 DEF AppliedMeansWhole
  <1>6. \A i \in 1 .. Len(up) : up[i].kind = "chunk"
    <2>. TAKE i \in 1 .. Len(up)
    <2>1. up[i] \in Frame
      BY Values
    <2>2. up[i].kind \in {"req", "chunk", "frag"}
      BY <2>1 DEF Frame
    <2>. QED
      BY <1>2, <2>2 DEF UpInv
  <1>. QED
    BY <1>1, <1>2, <1>3, <1>4, <1>5, <1>6

\* A frame of the package, or the torn piece of one, is written: it follows
\* the bytes before it.
LEMMA PieceProtocol ==
    ASSUME IndInv, mpc = "stream", sent < req.size, upEnd = "open",
           NEW f \in Frame, up' = Append(up, f), f.off = sent,
           \/ /\ f.kind = "chunk" /\ f.len > 0
              /\ UNCHANGED <<mpc, outcome, upEnd>>
           \/ /\ f.kind = "frag"
              /\ mpc' = "done" /\ outcome' = "Cancelled" /\ upEnd' = "fin",
           sent' = sent + f.len, sent' <= req.size,
           UNCHANGED <<upRecv, down, agentVars, req>>
    PROVE  ProtocolInv'
  <1>. USE DEF IndInv, ProtocolInv, agentVars
  <1>1. /\ cur.id = 1 /\ effect[1] # "none"
        /\ pc \in {"install", "reading", "drain", "released"}
        /\ Transfer => ~pkg.failed
        /\ effect[1] # "ok"
        /\ \A i \in 1 .. Len(up) : up[i].kind = "chunk"
    BY SenderKnows
  <1>2. up \in Seq(Frame) /\ f.off \in Nat /\ f.len \in Nat
    BY Values DEF Frame
  <1>3. /\ Len(up) \in Nat /\ Len(up') = Len(up) + 1 /\ up' # <<>>
        /\ \A i \in 1 .. Len(up) : up'[i] = up[i]
        /\ up'[Len(up) + 1] = f
    BY <1>2, PushFacts
  <1>4. \A i \in 1 .. Len(up') : i \in 1 .. Len(up) \/ i = Len(up')
    BY <1>3
  <1>5. sent \in Nat /\ sent' \in Nat /\ sent <= sent' /\ f.off + f.len = sent'
    BY <1>2, Values
  <1>6. \A i \in 1 .. Len(up') :
           /\ \/ up'[i].kind = "chunk" /\ up'[i].len > 0 /\ i \in 1 .. Len(up)
              \/ i = Len(up') /\ up'[i] = f
           /\ up'[i].off + up'[i].len <= sent'
    <2>. TAKE i \in 1 .. Len(up')
    <2>1. CASE i \in 1 .. Len(up)
      <3>1. /\ up'[i] = up[i] /\ up[i].kind = "chunk" /\ up[i].len > 0
            /\ up[i].off + up[i].len <= sent
            /\ up[i].off \in Nat /\ up[i].len \in Nat
        BY <1>1, <1>3, <2>1, Values DEF UpInv
      <3>2. up[i].off + up[i].len <= sent'
        BY <1>5, <3>1
      <3>. QED
        BY <2>1, <3>1, <3>2
    <2>2. CASE i = Len(up')
      BY <1>3, <1>5, <2>2
    <2>. QED
      BY <1>4, <2>1, <2>2
  <1>7. RequestInv' /\ ExchangeInv'
    BY <1>1 DEF RequestInv, ExchangeInv, Transfer
  <1>8. UpInv'
    BY <1>1, <1>6 DEF UpInv
  <1>9. ContiguousInv'
    <2>. SUFFICES ASSUME Transfer, ~pkg.failed PROVE ContiguousInv'
      BY DEF ContiguousInv, Transfer
    <2>1. /\ Taken <= sent /\ (up # <<>> => up[1].off = Taken)
          /\ \A i \in 1 .. Len(up) - 1 :
                up[i + 1].off = up[i].off + up[i].len
          /\ sent = IF up = <<>> THEN Taken
                    ELSE up[Len(up)].off + up[Len(up)].len
      BY DEF ContiguousInv
    <2>2. Taken' = Taken /\ Taken <= sent'
      BY <1>5, <2>1, Values DEF Taken
    <2>3. up = <<>> <=> Len(up) = 0
      BY <1>2, EmptyFacts
    <2>4. up'[1].off = Taken'
      <3>1. CASE up = <<>>
        BY <1>3, <2>1, <2>2, <2>3, <3>1
      <3>2. CASE up # <<>>
        <4>1. 1 \in 1 .. Len(up)
          BY <1>3, <2>3, <3>2
        <4>. QED
          BY <1>3, <2>1, <2>2, <3>2, <4>1
      <3>. QED
        BY <3>1, <3>2
    <2>5. \A i \in 1 .. Len(up') - 1 : up'[i + 1].off = up'[i].off + up'[i].len
      <3>. TAKE i \in 1 .. Len(up') - 1
      <3>1. /\ i \in 1 .. Len(up)
            /\ \/ i + 1 \in 1 .. Len(up) /\ i \in 1 .. Len(up) - 1
               \/ i = Len(up) /\ i + 1 = Len(up) + 1
        BY <1>3
      <3>2. CASE i + 1 \in 1 .. Len(up) /\ i \in 1 .. Len(up) - 1
        BY <1>3, <2>1, <3>1, <3>2
      <3>3. CASE i = Len(up)
        <4>1. up # <<>>
          BY <2>3, <3>1, <3>3
        <4>. QED
          BY <1>3, <2>1, <3>1, <3>3, <4>1
      <3>. QED
        BY <3>1, <3>2, <3>3
    <2>6. sent' = up'[Len(up')].off + up'[Len(up')].len
      BY <1>3, <1>5
    <2>. QED
      BY <1>3, <2>2, <2>4, <2>5, <2>6 DEF ContiguousInv
  <1>10. QuietInv'
    BY <1>1 DEF QuietInv, Transfer
  <1>11. ReplyInv' /\ AppliedMeansWhole' /\ OkMeansDone'
    BY <1>1 DEF ReplyInv, AppliedMeansWhole, OkMeansDone
  <1>. QED
    BY <1>7, <1>8, <1>9, <1>10, <1>11

\* send_package writes the next piece behind the last one.
LEMMA SendChunkProtocol ==
    ASSUME IndInv, NEW n \in 1 .. ChunkLen, SendChunk(n)
    PROVE  ProtocolInv'
  <1>. USE DEF IndInv, ProtocolInv
  <1>1. /\ mpc = "stream" /\ sent < req.size /\ upEnd = "open"
        /\ sent' = sent + n /\ sent' <= req.size
        /\ UNCHANGED <<upEnd, upRecv, down, agentVars, mpc, req, outcome>>
    BY DEF SendChunk, MayWrite, downVars
  <1>2. n \in Nat /\ n > 0 /\ sent \in Nat /\ req \in Request
    BY ManagerAssumption, Values
  <1>3. CASE up' = Append(up, ChunkFrame(1, req, sent, n))
    <2>1. ChunkFrame(1, req, sent, n) \in Frame
      BY <1>2, FrameTypes
    <2>2. LET f == ChunkFrame(1, req, sent, n)
          IN  f.off = sent /\ f.kind = "chunk" /\ f.len = n
      BY DEF ChunkFrame
    <2>. QED
      BY <1>1, <1>2, <1>3, <2>1, <2>2, PieceProtocol
  <1>4. CASE up' = up /\ upRecv = "dropped"
    <2>1. /\ cur.id = 1 /\ effect[1] # "none" /\ effect[1] # "ok"
          /\ pc = "released"
      BY <1>1, <1>4, SenderKnows DEF RequestInv
    <2>2. \A i \in 1 .. Len(up) : /\ up[i].kind = "chunk"
                                  /\ up[i].off + up[i].len <= sent'
      <3>. TAKE i \in 1 .. Len(up)
      <3>1. up[i].off \in Nat /\ up[i].len \in Nat /\ up[i].kind = "chunk"
        BY <1>1, SenderKnows, Values
      <3>2. up[i].off + up[i].len <= sent
        BY <3>1 DEF UpInv
      <3>. QED
        BY <1>1, <1>2, <3>1, <3>2
    <2>3. RequestInv' /\ UpInv'
      BY <1>1, <1>4, <2>1, <2>2 DEF RequestInv, UpInv, agentVars
    <2>4. ExchangeInv' /\ ContiguousInv' /\ QuietInv'
      BY <1>1, <2>1 DEF ExchangeInv, ContiguousInv, QuietInv, Transfer,
                        agentVars
    <2>5. ReplyInv' /\ AppliedMeansWhole' /\ OkMeansDone'
      BY <1>1, <2>1 DEF ReplyInv, AppliedMeansWhole, OkMeansDone, agentVars
    <2>. QED
      BY <2>3, <2>4, <2>5
  <1>. QED
    BY <1>3, <1>4 DEF SendChunk, MayWrite

\* The call is dropped in the middle of a frame.
LEMMA CancelProtocol ==
    ASSUME IndInv, Cancel
    PROVE  ProtocolInv'
  <1>. USE DEF IndInv, ProtocolInv
  <1>1. CASE UNCHANGED up
    BY <1>1, ManagerQuietProtocol
  <1>2. CASE /\ mpc = "start" \/ (mpc = "stream" /\ sent < req.size)
             /\ upEnd = "open" /\ upRecv = "held"
             /\ up' = Append(up, FragFrame(1, req, sent))
    <2>1. /\ mpc' = "done" /\ outcome' = "Cancelled" /\ upEnd' = "fin"
          /\ UNCHANGED <<upRecv, down, agentVars, req, sent>>
      BY <1>2 DEF Cancel, Finish, DropStreams
    <2>2. sent \in Nat /\ FragFrame(1, req, sent) \in Frame
      BY FrameTypes, Values
    <2>3. LET f == FragFrame(1, req, sent)
          IN  f.off = sent /\ f.kind = "frag" /\ f.len = 0
      BY DEF FragFrame
    <2>4. CASE mpc = "stream" /\ sent < req.size
      <3>1. sent' = sent + 0 /\ sent' <= req.size
        BY <2>1, <2>2 DEF ExchangeInv
      <3>. QED
        BY <1>2, <2>1, <2>2, <2>3, <2>4, <3>1, PieceProtocol
    <2>5. CASE mpc = "start"
      <3>1. /\ cur.id = 0 /\ up = <<>> /\ effect[1] = "none"
            /\ down = <<>> /\ pc \in {"accept", "recv", "returned", "released"}
        BY <2>5 DEF RequestInv
      <3>2. Len(up') = 1 /\ up'[1] = FragFrame(1, req, sent)
        BY <1>2, <2>2, <3>1, PushFacts
      <3>3. \A i \in 1 .. Len(up') :
               /\ i = Len(up') /\ up'[i].kind = "frag"
               /\ up'[i].off + up'[i].len <= sent
        BY <2>2, <2>3, <3>2
      <3>4. RequestInv' /\ UpInv'
        BY <2>1, <3>1, <3>2, <3>3 DEF RequestInv, UpInv, agentVars
      <3>5. ExchangeInv' /\ ContiguousInv' /\ QuietInv'
        BY <2>1, <3>1 DEF ExchangeInv, ContiguousInv, QuietInv, Transfer,
                          agentVars
      <3>6. ReplyInv' /\ AppliedMeansWhole' /\ OkMeansDone'
        BY <2>1, <3>1 DEF ReplyInv, AppliedMeansWhole, OkMeansDone, agentVars
      <3>. QED
        BY <3>4, <3>5, <3>6
    <2>. QED
      BY <1>2, <2>4, <2>5
  <1>. QED
    BY <1>1, <1>2 DEF Cancel

\* Every step of handle and of its handler preserves the exchange's invariant.
LEMMA AgentProtocol ==
    ASSUME IndInv, AgentNext, UNCHANGED managerVars
    PROVE  ProtocolInv'
  <1>1. CASE HandlerReads \/ DrainChunk
    <2>1. Transfer /\ ReadChunk /\ pc' \in {"install", "reading", "drain"}
          /\ UNCHANGED <<downVars, cur, result, ret, effect>>
      BY <1>1 DEF HandlerReads, DrainChunk, Transfer
    <2>. QED
      BY <2>1, ReadProtocol
  <1>. QED
    BY <1>1, AcceptProtocol, RecvRequestProtocol, NeverMisaligned,
       RecvEndsProtocol, DrainEndsProtocol, SendReplyProtocol, LeaveProtocol,
       CallReturnsProtocol, HandlerProtocol, PreflightProtocol
       DEF AgentNext, AgentStep, HandlerStep

\* So does every step of the manager's call.
LEMMA ManagerProtocol ==
    ASSUME IndInv, ManagerStep \/ Cancel \/ SourceFails
    PROVE  ProtocolInv'
  BY ManagerQuietProtocol, RecvReplyProtocol, SendRequestProtocol,
     SendChunkProtocol, CancelProtocol
     DEF ManagerStep, SourceShort, SourceFails, ChunkFails

\* Hence every step does, faults included.
LEMMA NextProtocol == IndInv /\ [Next]_vars => ProtocolInv'
  <1>. SUFFICES ASSUME IndInv, [Next]_vars PROVE ProtocolInv'
    OBVIOUS
  <1>1. CASE AgentNext /\ UNCHANGED managerVars
    BY <1>1, AgentProtocol
  <1>2. CASE ManagerStep
    BY <1>2, ManagerProtocol
  <1>3. CASE Fault
    BY <1>3, ConnLostProtocol, LeaveProtocol, ManagerProtocol DEF Fault
  <1>4. CASE UNCHANGED vars
    BY <1>4 DEF vars, IndInv, ProtocolInv, RequestInv, UpInv, ExchangeInv,
                ContiguousInv, QuietInv, ReplyInv, AppliedMeansWhole,
                OkMeansDone, Transfer, Taken, FrameReady
  <1>. QED
    BY <1>1, <1>2, <1>3, <1>4 DEF Next, Terminated

\* The inductive invariant: the request is received at most once, the pieces of
\* the package in flight follow what the PackageReader took without a gap, a
\* transfer that failed leaves nothing to read, and every reply is true.
THEOREM Inductive == Spec => []IndInv
  <1>1. Init => IndInv
    BY InitType, InitProtocol DEF IndInv
  <1>2. IndInv /\ [Next]_vars => IndInv'
    BY NextType, NextProtocol DEF IndInv
  <1>. QED
    BY <1>1, <1>2, PTL DEF Spec

-----------------------------------------------------------------------------
(* What the invariant gives. *)

\* The dispatch loop and the PackageReader never lose the frame boundary:
\* handle never takes a piece of a package for a request, and next_chunk only
\* ever meets the next bytes of its own package, which fit what was declared.
THEOREM AlignmentSafe == Spec => []Aligned
  <1>1. IndInv => Aligned
    <2>. SUFFICES ASSUME IndInv PROVE Aligned
      OBVIOUS
    <2>1. pc = "recv" /\ FrameReady => Head(up).kind = "req"
      BY LoopHead
    <2>2. ReaderWaits /\ FrameReady =>
             /\ Head(up).kind = "chunk"
             /\ Head(up).off = pkg.size - pkg.remaining
             /\ Head(up).len <= pkg.remaining
      BY NextPiece DEF ReaderWaits, Transfer, Taken
    <2>. QED
      BY <2>1, <2>2 DEF Aligned
  <1>. QED
    BY <1>1, Inductive, PTL

\* install_exchange sends no byte of the package before the agent's handler
\* agreed to it, and none when it refused.
THEOREM ConsentSafe == Spec => []BytesOnlyAfterProceed
  <1>1. IndInv => BytesOnlyAfterProceed
    <2>. SUFFICES ASSUME IndInv PROVE BytesOnlyAfterProceed
      OBVIOUS
    <2>1. sent > 0 => effect[1] # "none"
      BY DEF IndInv, ProtocolInv, ExchangeInv
    <2>2. outcome = "Refused" => effect[1] = "none"
      BY DEF IndInv, ProtocolInv, ReplyInv
    <2>. QED
      BY <2>1, <2>2, Values DEF BytesOnlyAfterProceed, IndInv
  <1>. QED
    BY <1>1, Inductive, PTL

\* dispatch_node_package never counts a truncated transfer as applied.
THEOREM WholeOrNothing == Spec => []AppliedMeansWhole
  <1>1. IndInv => AppliedMeansWhole
    BY DEF IndInv, ProtocolInv
  <1>. QED
    BY <1>1, Inductive, PTL

\* A manager call that returns success was carried out by the agent.
THEOREM SuccessIsTrue == Spec => []OkMeansDone
  <1>1. IndInv => OkMeansDone
    BY DEF IndInv, ProtocolInv
  <1>. QED
    BY <1>1, Inductive, PTL

-----------------------------------------------------------------------------
(* The call implements RemoteCall, step by step. *)

\* A call that runs has no outcome yet, and one refused before open_bi has
\* put nothing on the wire, nor will it.
OutcomeInv ==
    /\ mpc # "done" => outcome = "none"
    /\ outcome \in {"Rejected", "Denied"} =>
          mpc = "done" /\ cur.id = 0 /\ up = <<>>

RefineInv == IndInv /\ OutcomeInv

\* The agent leaves a stream without frames as it is.
LEMMA AgentUp ==
    ASSUME IndInv, AgentNext, up = <<>>, cur.id = 0
    PROVE  up' = <<>> /\ cur'.id = 0
  <1>1. ~FrameReady
    BY DEF FrameReady
  <1>2. pc \in {"accept", "recv", "returned", "released"}
    BY DEF IndInv, ProtocolInv, RequestInv
  <1>. QED
    BY <1>1, <1>2
       DEF AgentNext, AgentStep, HandlerStep, Accept, RecvRequest,
           RecvMisaligned, RecvEof, RecvFails, HandlerReads, DrainChunk,
           DrainEnds, SendReply, Release, CallReturns, HandlerReturns,
           Preflight, HandlerAwaits, upVars

\* Every step keeps it.
LEMMA NextOutcome == RefineInv /\ [Next]_vars => OutcomeInv'
  <1>. SUFFICES ASSUME RefineInv, [Next]_vars PROVE OutcomeInv'
    OBVIOUS
  <1>. USE DEF RefineInv, OutcomeInv
  <1>1. CASE AgentNext /\ UNCHANGED managerVars
    BY <1>1, AgentUp DEF managerVars
  <1>2. CASE ManagerStep \/ Cancel \/ SourceFails
    <2>1. mpc = "start" => cur.id = 0 /\ up = <<>>
      BY DEF IndInv, ProtocolInv, RequestInv
    <2>. QED
      BY <1>2, <2>1
         DEF ManagerStep, RefuseLocally, SendRequest, SendRequestFails,
             RecvVerdict, PackageSent, RecvResponse, RecvReplyFails,
             SourceShort, ChunkFails, SourceFails, AbortTransfer, SendChunk,
             Cancel, Finish, streamVars, agentVars
  <1>3. CASE (ConnLost \/ Abort) /\ UNCHANGED managerVars
    <2>1. cur' = cur
      BY <1>3 DEF ConnLost, Abort, agentVars
    <2>2. up = <<>> => up' = <<>>
      <3>1. up = <<>> => Len(up) = 0
        OBVIOUS
      <3>2. up \in Seq(Frame)
        BY DEF IndInv, TypeOK, StreamTypeOK
      <3>3. ConnLost => up' \in Seq(Frame) /\ Len(up') <= Len(up)
                        /\ Len(up') \in Nat
        BY <3>2, CutFacts DEF ConnLost
      <3>. QED
        BY <1>3, <3>1, <3>3, EmptyFacts DEF Abort
    <2>. QED
      BY <1>3, <2>1, <2>2 DEF managerVars
  <1>4. CASE UNCHANGED vars
    BY <1>4 DEF vars
  <1>. QED
    BY <1>1, <1>2, <1>3, <1>4 DEF Next, Fault, Terminated

\* What the agent does to the operation: it runs it once, or completes it,
\* and only where the caller was not told it would not run.
LEMMA AgentRefines ==
    ASSUME RefineInv, AgentNext, UNCHANGED managerVars
    PROVE  \/ Remote!Run \/ Remote!Complete
           \/ UNCHANGED <<effect[1], outcome>>
  <1>. USE DEF RefineInv
  <1>1. effect \in [Ids -> {"none", "running", "ok", "err"}] /\ 1 \in Ids
    BY Values DEF IndInv
  <1>2. UNCHANGED outcome
    BY DEF managerVars
  <1>3. CASE RecvRequest
    <2>1. /\ Head(up).kind = "req" /\ up # <<>>
          /\ Head(up).id = 1 /\ cur.id = 0 /\ effect[1] = "none"
      <3>1. up # <<>> /\ Head(up).kind = "req"
        BY <1>3 DEF RecvRequest, FrameReady
      <3>2. Head(up) = up[1] /\ 1 \in 1 .. Len(up)
        BY <3>1, PopFacts DEF IndInv, TypeOK, StreamTypeOK
      <3>. QED
        BY <3>1, <3>2 DEF IndInv, ProtocolInv, UpInv, RequestInv
    <2>2. outcome \notin Remote!Refusals
      BY <2>1 DEF OutcomeInv, Remote!Refusals, IndInv, ProtocolInv, ReplyInv
    <2>3. effect' \in {effect, [effect EXCEPT ![1] = "ok"],
                       [effect EXCEPT ![1] = "running"]}
      BY <1>3, <2>1 DEF RecvRequest, Dispatch
    <2>. QED
      BY <1>1, <1>2, <2>1, <2>2, <2>3 DEF Remote!Run, Remote!Complete
  <1>4. CASE RecvMisaligned
    BY <1>4, NeverMisaligned
  <1>5. CASE \E r \in {"Ok", "Err"} : CallReturns(r)
    <2>1. cur.id = 1 /\ effect[1] = "running" /\ pc = "call"
      BY <1>5 DEF CallReturns, IndInv, ProtocolInv, ExchangeInv
    <2>2. outcome \notin Remote!Refusals
      BY <2>1 DEF OutcomeInv, Remote!Refusals, IndInv, ProtocolInv, ReplyInv
    <2>3. effect' \in {[effect EXCEPT ![1] = "ok"], [effect EXCEPT ![1] = "err"]}
      BY <1>5, <2>1 DEF CallReturns
    <2>. QED
      BY <1>1, <1>2, <2>1, <2>2, <2>3 DEF Remote!Complete
  <1>6. CASE DrainEnds
    <2>1. cur.id = 1 /\ effect[1] = "running" /\ pc = "drain"
      BY <1>6 DEF DrainEnds, IndInv, ProtocolInv, ExchangeInv, Transfer
    <2>2. outcome \notin Remote!Refusals
      BY <2>1 DEF OutcomeInv, Remote!Refusals, IndInv, ProtocolInv, ReplyInv
    <2>3. effect' \in {[effect EXCEPT ![1] = "ok"], [effect EXCEPT ![1] = "err"]}
      BY <1>6, <2>1 DEF DrainEnds
    <2>. QED
      BY <1>1, <1>2, <2>1, <2>2, <2>3 DEF Remote!Complete
  <1>7. CASE \E v \in {"Proceed", "Refusal", "Err"} : Preflight(v)
    <2>1. cur.id = 1 /\ effect[1] = "none" /\ pc = "preflight"
      BY <1>7 DEF Preflight, IndInv, ProtocolInv, ExchangeInv
    <2>2. outcome \notin Remote!Refusals
      BY <2>1 DEF OutcomeInv, Remote!Refusals, IndInv, ProtocolInv, ReplyInv
    <2>3. effect' \in {effect, [effect EXCEPT ![1] = "running"]}
      BY <1>7, <2>1 DEF Preflight
    <2>. QED
      BY <1>1, <1>2, <2>1, <2>2, <2>3 DEF Remote!Run
  <1>8. ASSUME ~RecvRequest, ~RecvMisaligned, ~DrainEnds,
               ~\E r \in {"Ok", "Err"} : CallReturns(r),
               ~\E v \in {"Proceed", "Refusal", "Err"} : Preflight(v)
        PROVE  effect' = effect
    BY <1>8
       DEF AgentNext, AgentStep, HandlerStep, Accept, RecvEof, RecvFails,
           HandlerReads, DrainChunk, SendReply, Release, HandlerReturns,
           HandlerAwaits
  <1>. QED
    BY <1>2, <1>3, <1>4, <1>5, <1>6, <1>7, <1>8

\* What the manager's call does: it reports once, and truthfully.
LEMMA ManagerRefines ==
    ASSUME RefineInv, ManagerStep \/ Cancel \/ SourceFails
    PROVE  \/ \E o \in Remote!Outcomes : Remote!Report(o)
           \/ UNCHANGED <<effect[1], outcome>>
  <1>. USE DEF RefineInv
  <1>1. effect' = effect
    BY DEF ManagerStep, RefuseLocally, SendRequest, SendRequestFails,
           RecvVerdict, PackageSent, RecvResponse, RecvReplyFails,
           SourceShort, ChunkFails, SourceFails, AbortTransfer, SendChunk,
           Cancel, streamVars, agentVars
  <1>2. ASSUME NEW o \in Remote!Outcomes, Finish(o), mpc # "done",
               o = "Ok" => effect[1] = "ok",
               o \in Remote!Refusals => effect[1] = "none"
        PROVE  Remote!Report(o)
    BY <1>1, <1>2 DEF OutcomeInv, Finish, Remote!Report
  <1>. USE DEF Remote!Outcomes, Remote!Refusals
  <1>3. CASE RefuseLocally
    <2>1. effect[1] = "none" /\ mpc = "start"
      BY <1>3 DEF RefuseLocally, IndInv, ProtocolInv, RequestInv
    <2>2. Finish("Rejected") \/ Finish("Denied")
      BY <1>3 DEF RefuseLocally
    <2>. QED
      BY <1>2, <2>1, <2>2
  <1>4. CASE SendRequest
    BY <1>1, <1>2, <1>4 DEF SendRequest
  <1>5. CASE SendRequestFails
    BY <1>2, <1>5 DEF SendRequestFails
  <1>6. CASE RecvVerdict \/ RecvResponse
    <2>1. down # <<>> /\ Head(down) = down[1] /\ 1 \in 1 .. Len(down)
      BY <1>6, PopFacts DEF RecvVerdict, RecvResponse, ReplyReady, IndInv,
         TypeOK, StreamTypeOK
    <2>2. /\ Head(down).body = "Ok" => effect[1] = "ok"
          /\ Head(down).body = "Refusal" => effect[1] = "none"
      BY <2>1 DEF IndInv, ProtocolInv, ReplyInv
    <2>3. CASE RecvVerdict
      BY <1>1, <1>2, <2>2, <2>3 DEF RecvVerdict
    <2>4. CASE RecvResponse
      BY <1>2, <2>2, <2>4 DEF RecvResponse
    <2>. QED
      BY <1>6, <2>3, <2>4
  <1>7. CASE RecvReplyFails
    BY <1>2, <1>7 DEF RecvReplyFails
  <1>8. CASE SourceShort \/ ChunkFails \/ SourceFails
    BY <1>2, <1>8 DEF SourceShort, ChunkFails, SourceFails, AbortTransfer
  <1>9. CASE PackageSent \/ \E n \in 1 .. ChunkLen : SendChunk(n)
    BY <1>1, <1>9 DEF PackageSent, SendChunk
  <1>10. CASE Cancel
    BY <1>2, <1>10 DEF Cancel
  <1>. QED
    BY <1>3, <1>4, <1>5, <1>6, <1>7, <1>8, <1>9, <1>10 DEF ManagerStep

\* install_exchange, send_request and the agent's dispatch, with every fault,
\* implement RemoteCall: the operation runs at most once, an outcome is
\* reported once and for good, Ok only for an operation that succeeded, a
\* refusal only for one that never ran and never will.
THEOREM ImplementsRemoteCall ==
    Spec => Remote!Init /\ [][Remote!Next]_(Remote!callVars)
  <1>1. Init => Remote!Init
    BY FrameTypes DEF Init, StreamInit, Remote!Init
  <1>2. Init => OutcomeInv
    BY DEF Init, OutcomeInv
  <1>3. RefineInv /\ [Next]_vars => [Remote!Next]_(Remote!callVars)
    <2>. SUFFICES ASSUME RefineInv, [Next]_vars
                  PROVE  Remote!Next \/ UNCHANGED <<effect[1], outcome>>
      BY DEF Remote!callVars
    <2>1. CASE AgentNext /\ UNCHANGED managerVars
      BY <2>1, AgentRefines DEF Remote!Next
    <2>2. CASE ManagerStep \/ Cancel \/ SourceFails
      BY <2>2, ManagerRefines DEF Remote!Next
    <2>3. CASE (ConnLost \/ Abort) /\ UNCHANGED managerVars
      BY <2>3 DEF ConnLost, Abort, agentVars, managerVars
    <2>4. CASE UNCHANGED vars
      BY <2>4 DEF vars
    <2>. QED
      BY <2>1, <2>2, <2>3, <2>4 DEF Next, Fault, Terminated
  <1>4. RefineInv /\ [Next]_vars => OutcomeInv'
    BY NextOutcome
  <1>. QED
    BY <1>1, <1>2, <1>3, <1>4, Inductive, PTL DEF Spec, RefineInv
=============================================================================
