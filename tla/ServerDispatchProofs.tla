------------------------ MODULE ServerDispatchProofs ------------------------
(***************************************************************************)
(* Proofs about ServerDispatch: nothing is done for a request the          *)
(* authorizer denied, every answer is that of the call that takes it, and  *)
(* a call that reports success was served, for every set of requests,      *)
(* number of requests on the stream, flow-control window, and whether or   *)
(* not the agent sends ahead of its answers; and each call on the stream   *)
(* implements RemoteCall.                                                  *)
(***************************************************************************)
EXTENDS ServerDispatch, SequenceTheorems, TLAPS

-----------------------------------------------------------------------------
(* The inductive invariant. *)

\* The number of requests the manager's loop has read off the stream: they are
\* read in the order they were made, and Init's cur is no frame.
Read == IF cur.whole THEN cur.id ELSE 0

\* A request has been read, and its answer is still to be written.
Serving ==
    \/ pc \in {"authorize", "deny", "dispatch", "call", "reply", "unknown"}
    \/ pc = "returned" /\ ret = "Some"

Frame == [whole : BOOLEAN, id : Ids, req : Request]
Reply == [whole : BOOLEAN, id : Ids, body : {"Ok", "None", "Err"}]

Types ==
    /\ up \in Seq(Frame) /\ down \in Seq(Reply) /\ cur \in Frame
    /\ upEnd \in {"open", "fin", "lost"} /\ downEnd \in {"open", "fin", "lost"}
    /\ upRecv \in {"held", "dropped"} /\ downRecv \in {"held", "dropped"}
    /\ entry \in {"handle", "handle_authorized"}
    /\ pc \in {"recv", "authorize", "deny", "dispatch", "call", "reply",
               "unknown", "returned", "released"}
    /\ result \in {"Ok", "None", "Err"}
    /\ ret \in {"none", "None", "Some", "IoError", "InvalidArgs", "Forbidden",
                "NotSupported", "Aborted"}
    /\ policy \in [Ids -> {"none", "allow", "deny"}]
    /\ effect \in [Ids -> {"none", "running", "ok", "err"}]
    /\ next \in 1 .. MaxRequests + 1
    /\ outcome \in [Ids -> {"none", "Ok", "NotFound", "Failed", "Cancelled"}]

\* The requests wait on the stream in the order they were made, and none is
\* missing between the last one read and the next one to be made.
UpInv ==
    /\ Read < next
    /\ upRecv = "dropped" => pc = "released"
    /\ pc # "released" =>
         /\ \A k \in 1 .. Len(up) : /\ up[k].id = Read + k
                                    /\ up[k].whole => Read + k < next
         /\ upEnd = "open" => Read + Len(up) = next - 1

\* Requests 1 .. a are answered and no other one is.
Answered(a) == \A i \in Ids : outcome[i] # "none" <=> i <= a

\* The answers on the stream are those of the calls after the first a, one
\* each; the last one is that of the last request served.
AnswersFrom(a) ==
    /\ a < next /\ Answered(a)
    /\ \A k \in 1 .. Len(down) : down[k].id = a + k
    /\ downEnd = "open" /\ pc = "recv" => a + Len(down) = Read
    /\ downEnd = "open" /\ Serving => a + Len(down) = Read - 1

\* While the agent is there to read them, the answers are in the order of the
\* calls that wait.  A stream that is dropped leaves no call open.
DownInv ==
    /\ downRecv = "held" => \E a \in 0 .. MaxRequests : AnswersFrom(a)
    /\ downRecv = "dropped" => AllAnswered

\* What the manager has decided and done, by where its loop is.
ServeInv ==
    /\ Serving => cur.whole
    /\ downEnd = "open" => pc # "released"
    /\ \A i \in Ids : i > Read => policy[i] = "none" /\ effect[i] = "none"
    /\ pc = "recv" => \A i \in Ids : policy[i] # "deny"
    /\ pc = "authorize" => policy[cur.id] = "none"
    /\ Serving /\ pc \notin {"authorize", "deny"} => policy[cur.id] = "allow"
    /\ Serving /\ pc \notin {"call", "reply"} => effect[cur.id] = "none"
    /\ pc = "call" => effect[cur.id] = "running"
    /\ pc = "reply" /\ result # "Err" => effect[cur.id] = "ok"
    /\ \A i \in Ids : policy[i] = "deny" =>
          i = Read /\ effect[i] = "none" /\ (pc = "deny" \/ ~Serving)

\* An answer on the stream that is no error is that of a request served.
ReplyInv ==
    \A k \in 1 .. Len(down) : down[k].body # "Err" =>
        policy[down[k].id] = "allow" /\ effect[down[k].id] = "ok"

IInv == Types /\ UpInv /\ DownInv /\ ServeInv /\ ReplyInv /\ OkMeansServed

-----------------------------------------------------------------------------
(* Sequences, as the stream uses them. *)

\* Reading the first frame.
LEMMA PopFacts ==
    ASSUME NEW S, NEW s \in Seq(S), s # <<>>
    PROVE  /\ Head(s) \in S /\ Head(s) = s[1] /\ 1 \in 1 .. Len(s)
           /\ Tail(s) \in Seq(S)
           /\ Len(s) \in Nat /\ Len(Tail(s)) \in Nat
           /\ Len(Tail(s)) = Len(s) - 1
           /\ \A i \in 1 .. Len(Tail(s)) :
                 i + 1 \in 1 .. Len(s) /\ Tail(s)[i] = s[i + 1]
  OBVIOUS

\* Writing a frame.
LEMMA PushFacts ==
    ASSUME NEW S, NEW s \in Seq(S), NEW e \in S
    PROVE  /\ Append(s, e) \in Seq(S)
           /\ Len(s) \in Nat /\ Len(Append(s, e)) = Len(s) + 1
           /\ \A i \in 1 .. Len(s) : Append(s, e)[i] = s[i]
           /\ Append(s, e)[Len(s) + 1] = e
  OBVIOUS

\* What a lost connection leaves of one direction.
LEMMA CutFacts ==
    ASSUME NEW S, NEW s \in Seq(S), NEW t, NEW a, NEW b, Cut(s, t, a, b)
    PROVE  /\ t \in Seq(S)
           /\ Len(t) \in Nat /\ Len(s) \in Nat /\ Len(t) <= Len(s)
           /\ \A i \in 1 .. Len(t) : i \in 1 .. Len(s) /\ t[i] = s[i]
           /\ b \in {a, "lost"} /\ b # "open"
  <1>1. PICK k \in 0 .. Len(s) :
            /\ t = SubSeq(s, 1, k)
            /\ b \in IF k = Len(s) /\ a # "open" THEN {a, "lost"} ELSE {"lost"}
    BY DEF Cut
  <1>2. Len(s) \in Nat
    OBVIOUS
  <1>3. t \in Seq(S) /\ Len(t) = k /\ \A i \in 1 .. k : t[i] = s[i]
    BY <1>1, <1>2
  <1>. QED
    BY <1>1, <1>2, <1>3

-----------------------------------------------------------------------------
(* Type correctness. *)

\* The frames the two sides write are frames.
LEMMA FrameTypes ==
    /\ \A i \in Ids, r \in Requests, w \in BOOLEAN :
          /\ [whole |-> w, id |-> i, req |-> r] \in Frame
          /\ [whole |-> w, id |-> i, req |-> r].whole = w
          /\ [whole |-> w, id |-> i, req |-> r].id = i
    /\ \A i \in Ids, b \in {"Ok", "None", "Err"}, w \in BOOLEAN :
          /\ [whole |-> w, id |-> i, body |-> b] \in Reply
          /\ [whole |-> w, id |-> i, body |-> b].id = i
          /\ [whole |-> w, id |-> i, body |-> b].body = b
    /\ \A f \in Frame : f.whole \in BOOLEAN /\ f.id \in Ids
    /\ \A f \in Reply : f.whole \in BOOLEAN /\ f.id \in Ids
                          /\ f.body \in {"Ok", "None", "Err"}
    /\ 1 \in Ids
  BY ServerAssumption DEF Frame, Reply, Request, Ids

\* Requests are numbered by naturals, and the loop has read some number of
\* them.
LEMMA ReadFacts ==
    ASSUME Types
    PROVE  /\ Read \in Nat /\ next \in Nat /\ cur.id \in Ids
           /\ cur.whole => Read = cur.id
           /\ ~cur.whole => Read = 0
           /\ MaxRequests \in Nat
           /\ \A i \in Ids : i \in Nat /\ i >= 1 /\ i <= MaxRequests
           /\ Len(up) \in Nat /\ Len(down) \in Nat
  <1>1. cur.id \in Ids /\ cur.whole \in BOOLEAN
    BY FrameTypes DEF Types
  <1>2. MaxRequests \in Nat /\ next \in 1 .. MaxRequests + 1
    BY ServerAssumption DEF Types
  <1>3. Len(up) \in Nat /\ Len(down) \in Nat
    BY DEF Types
  <1>. QED
    BY <1>1, <1>2, <1>3 DEF Read, Ids

\* An answer is written or lost; either way the direction stays well-formed.
LEMMA SendType ==
    ASSUME Types, NEW b \in {"Ok", "None", "Err"}, SendOk(b) \/ SendFails
    PROVE  /\ down' \in Seq(Reply)
           /\ downEnd' = downEnd /\ downRecv' = downRecv
  <1>1. [whole |-> TRUE, id |-> cur.id, body |-> b] \in Reply
    BY FrameTypes DEF Types
  <1>2. Append(down, [whole |-> TRUE, id |-> cur.id, body |-> b]) \in Seq(Reply)
    BY <1>1, PushFacts DEF Types
  <1>. QED
    BY <1>2 DEF SendOk, SendFails, downVars, Types

\* Updating one request's entry of a history, and of all the open ones.
LEMMA UpdateType ==
    ASSUME NEW S, NEW f \in [Ids -> S], NEW i \in Ids, NEW v \in S
    PROVE  /\ [f EXCEPT ![i] = v] \in [Ids -> S]
           /\ [f EXCEPT ![i] = v][i] = v
           /\ \A j \in Ids \ {i} : [f EXCEPT ![i] = v][j] = f[j]
  OBVIOUS

\* The initial states are well typed.
LEMMA InitTypes == Init => Types
  <1>. SUFFICES ASSUME Init PROVE Types
    OBVIOUS
  <1>1. (CHOOSE r \in Requests : TRUE) \in Requests
    BY ServerAssumption
  <1>2. cur \in Frame
    BY <1>1, FrameTypes DEF Init
  <1>3. next \in 1 .. MaxRequests + 1
    BY ServerAssumption DEF Init
  <1>. QED
    BY <1>2, <1>3 DEF Init, Types

\* While the agent reads, the calls that wait are those after the last one
\* answered, and the first of them takes the next answer.
LEMMA FirstOpenFacts ==
    ASSUME Types, NEW a \in 0 .. MaxRequests, AnswersFrom(a)
    PROVE  /\ AllAnswered <=> a + 1 = next
           /\ ~AllAnswered => /\ FirstOpen = a + 1
                              /\ FirstOpen \in Ids /\ FirstOpen < next
  <1>1. a \in Nat /\ MaxRequests \in Nat /\ next \in 1 .. MaxRequests + 1
        /\ Ids = 1 .. MaxRequests
    BY ServerAssumption DEF Types, Ids
  <1>2. a < next /\ \A i \in Ids : outcome[i] = "none" <=> ~(i <= a)
    BY DEF AnswersFrom, Answered
  <1>3. \A i \in Ids : Open(i) <=> i < next /\ ~(i <= a)
    BY <1>2 DEF Open
  <1>4. AllAnswered <=> a + 1 = next
    <2>1. ASSUME a + 1 = next, NEW i \in Ids PROVE ~Open(i)
      BY <2>1, <1>1, <1>3
    <2>2. ASSUME a + 1 # next PROVE a + 1 \in Ids /\ Open(a + 1)
      <3>1. a + 1 \in Ids /\ a + 1 < next /\ ~(a + 1 <= a)
        BY <2>2, <1>1, <1>2
      <3>. QED
        BY <3>1, <1>3
    <2>. QED
      BY <2>1, <2>2 DEF AllAnswered
  <1>5. ASSUME ~AllAnswered
        PROVE  FirstOpen = a + 1 /\ FirstOpen \in Ids /\ FirstOpen < next
    <2>1. a + 1 \in Ids /\ a + 1 < next
      BY <1>1, <1>2, <1>4, <1>5
    <2>2. Open(a + 1) /\ \A j \in 1 .. (a + 1) - 1 : ~Open(j)
      <3>1. \A j \in 1 .. (a + 1) - 1 : j \in Ids /\ j <= a
        BY <1>1, <2>1
      <3>2. ~(a + 1 <= a)
        BY <1>1
      <3>. QED
        BY <3>1, <3>2, <2>1, <1>3
    <2>3. FirstOpen \in Ids /\ Open(FirstOpen)
          /\ \A j \in 1 .. FirstOpen - 1 : ~Open(j)
      BY <2>1, <2>2 DEF FirstOpen
    <2>4. FirstOpen < next /\ ~(FirstOpen <= a) /\ FirstOpen \in Nat
      BY <2>3, <1>1, <1>3
    <2>5. ~(a + 1 \in 1 .. FirstOpen - 1)
      BY <2>2, <2>3
    <2>. QED
      BY <2>1, <2>3, <2>4, <2>5, <1>1
  <1>. QED
    BY <1>4, <1>5

\* What an answer makes of the call is one of the call's results.
LEMMA ResultFacts ==
    \A b \in {"Ok", "None", "Err"} :
        /\ CallResult(b) \in {"Ok", "NotFound", "Failed"}
        /\ CallResult(b) # "Failed" => b # "Err"
  BY DEF CallResult

\* A step of the manager is well typed.
LEMMA ManagerTypes == IInv /\ Serve => Types'
  <1>. SUFFICES ASSUME IInv, Serve PROVE Types'
    OBVIOUS
  <1>. USE DEF IInv
  <1>1. CASE RecvRequest
    <2>1. Tail(up) \in Seq(Frame) /\ Head(up) \in Frame
      BY <1>1, PopFacts DEF RecvRequest, FrameReady, Types
    <2>. QED
      BY <1>1, <2>1 DEF RecvRequest, Types, downVars, agentVars
  <1>2. CASE RecvEof \/ RecvFails
    BY <1>2 DEF RecvEof, RecvFails, Return, Types, upVars, downVars, agentVars
  <1>3. ASSUME NEW v \in {"allow", "deny"}, Authorize(v) PROVE Types'
    <2>1. policy' \in [Ids -> {"none", "allow", "deny"}]
      BY <1>3, ReadFacts, UpdateType DEF Authorize, Types
    <2>. QED
      BY <1>3, <2>1 DEF Authorize, Types, upVars, downVars, agentVars
  <1>4. CASE SendDenial
    <2>1. down' \in Seq(Reply) /\ downEnd' = downEnd /\ downRecv' = downRecv
      BY <1>4, SendType DEF SendDenial
    <2>. QED
      BY <1>4, <2>1 DEF SendDenial, Return, Types, upVars, agentVars
  <1>5. CASE Dispatch
    <2>1. effect' \in [Ids -> {"none", "running", "ok", "err"}]
      BY <1>5, ReadFacts, UpdateType DEF Dispatch, Types
    <2>2. /\ ret' \in {ret, "InvalidArgs", "IoError", "Some"}
          /\ pc' \in {"returned", "call", "unknown"}
      BY <1>5 DEF Dispatch, Return
    <2>. QED
      BY <1>5, <2>1, <2>2 DEF Dispatch, Types, upVars, downVars, agentVars
  <1>6. ASSUME NEW r \in {"Ok", "None", "Err"}, HandlerReturns(r) PROVE Types'
    <2>1. effect' \in [Ids -> {"none", "running", "ok", "err"}]
      BY <1>6, ReadFacts, UpdateType DEF HandlerReturns, Types
    <2>. QED
      BY <1>6, <2>1 DEF HandlerReturns, Types, upVars, downVars, agentVars
  <1>7. CASE SendReply
    <2>1. down' \in Seq(Reply) /\ downEnd' = downEnd /\ downRecv' = downRecv
      BY <1>7, SendType DEF SendReply, Types
    <2>. QED
      BY <1>7, <2>1 DEF SendReply, Return, Types, upVars, agentVars
  <1>8. CASE SendUnknown
    <2>1. down' \in Seq(Reply) /\ downEnd' = downEnd /\ downRecv' = downRecv
      BY <1>8, SendType DEF SendUnknown
    <2>. QED
      BY <1>8, <2>1 DEF SendUnknown, Return, Types, upVars, agentVars
  <1>9. ASSUME NEW r \in {"Ok", "Err"}, CallerServes(r) PROVE Types'
    <2>1. effect' \in [Ids -> {"none", "running", "ok", "err"}]
      BY <1>9, ReadFacts, UpdateType DEF CallerServes, Types
    <2>. QED
      BY <1>9, <2>1 DEF CallerServes, Types, upVars, downVars, agentVars
  <1>10. CASE Release
    BY <1>10 DEF Release, Drop, Types, agentVars
  <1>. QED
    BY <1>1, <1>2, <1>3, <1>4, <1>5, <1>6, <1>7, <1>8, <1>9, <1>10
       DEF Serve, ServerStep

\* So is every other one.
LEMMA TypesStep == IInv /\ [Next]_vars => Types'
  <1>. SUFFICES ASSUME IInv, [Next]_vars PROVE Types'
    OBVIOUS
  <1>. USE DEF IInv
  <1>0. next \in 1 .. MaxRequests + 1 /\ MaxRequests \in Nat
        /\ Ids = 1 .. MaxRequests
    BY ServerAssumption DEF Types, Ids
  <1>1. CASE RecvResponse
    <2>1. PICK a \in 0 .. MaxRequests : AnswersFrom(a)
      BY <1>1 DEF RecvResponse, DownInv
    <2>2. FirstOpen \in Ids
      BY <1>1, <2>1, FirstOpenFacts DEF RecvResponse
    <2>3. Tail(down) \in Seq(Reply) /\ Head(down) \in Reply
      BY <1>1, PopFacts DEF RecvResponse, ReplyReady, Types
    <2>4. CallResult(Head(down).body)
             \in {"none", "Ok", "NotFound", "Failed", "Cancelled"}
      BY <2>3, FrameTypes, ResultFacts
    <2>5. outcome' \in [Ids -> {"none", "Ok", "NotFound", "Failed", "Cancelled"}]
      BY <1>1, <2>2, <2>4, UpdateType DEF RecvResponse, Types
    <2>. QED
      BY <1>1, <2>3, <2>5 DEF RecvResponse, Types, upVars, serverVars
  <1>2. CASE RecvResponseFails
    BY <1>2 DEF RecvResponseFails, DropStream, Types, serverVars
  <1>3. CASE SendRequestFails
    <2>1. next' \in 1 .. MaxRequests + 1
      BY <1>0, <1>3 DEF SendRequestFails, CanCall
    <2>. QED
      BY <1>3, <2>1 DEF SendRequestFails, DropStream, Types, serverVars
  <1>4. ASSUME NEW r \in Requests, SendRequest(r) PROVE Types'
    <2>1. next \in Ids /\ next' \in 1 .. MaxRequests + 1
      BY <1>0, <1>4 DEF SendRequest, CanCall
    <2>2. Append(up, [whole |-> TRUE, id |-> next, req |-> r]) \in Seq(Frame)
      BY <2>1, FrameTypes, PushFacts DEF Types
    <2>. QED
      BY <1>4, <2>1, <2>2 DEF SendRequest, Types, downVars, serverVars
  <1>5. CASE Close
    BY <1>5 DEF Close, DropStream, Types, serverVars, agentVars
  <1>6. CASE ConnLost
    <2>1. up' \in Seq(Frame) /\ upEnd' \in {upEnd, "lost"}
      BY <1>6, CutFacts DEF ConnLost, Types
    <2>2. down' \in Seq(Reply) /\ downEnd' \in {downEnd, "lost"}
      BY <1>6, CutFacts DEF ConnLost, Types
    <2>. QED
      BY <1>6, <2>1, <2>2 DEF ConnLost, Types, serverVars, agentVars
  <1>7. CASE Abort
    <2>1. [whole |-> FALSE, id |-> cur.id, body |-> "Err"] \in Reply
      BY FrameTypes DEF Types
    <2>2. down' \in Seq(Reply)
      BY <1>7, <2>1, PushFacts, SMTT(30) DEF Abort, Types
    <2>. QED
      BY <1>7, <2>2 DEF Abort, Drop, Types, agentVars
  <1>8. CASE Cancel
    <2>1. ASSUME NEW r \in Requests, next \in Ids
          PROVE  Append(up, [whole |-> FALSE, id |-> next, req |-> r]) \in Seq(Frame)
      BY <2>1, FrameTypes, PushFacts DEF Types
    <2>2. up' \in Seq(Frame)
      BY <1>8, <2>1 DEF Cancel, Types
    <2>. QED
      BY <1>8, <2>2 DEF Cancel, DropStream, Types, serverVars
  <1>9. CASE UNCHANGED vars
    BY <1>9 DEF vars, Types
  <1>. QED
    BY <1>1, <1>2, <1>3, <1>4, <1>5, <1>6, <1>7, <1>8, <1>9, ManagerTypes
       DEF Next, AgentStep, NewCall, Fault, Over

-----------------------------------------------------------------------------
(* The requests, in the order they were made. *)

\* A step that neither reads nor writes a request leaves the order alone.
LEMMA UpQuiet ==
    ASSUME IInv, UNCHANGED <<up, cur, next>>,
           upEnd' = "open" => upEnd = "open",
           pc' = "released" \/ pc # "released",
           upRecv' = "dropped" => pc' = "released"
    PROVE  UpInv'
  BY DEF IInv, UpInv, Read

\* Every step of the two sides keeps it.
LEMMA UpStep == IInv /\ [Next]_vars => UpInv'
  <1>. SUFFICES ASSUME IInv, [Next]_vars PROVE UpInv'
    OBVIOUS
  <1>. USE DEF IInv
  <1>0. Read \in Nat /\ next \in Nat /\ Len(up) \in Nat
    BY ReadFacts
  <1>1. CASE RecvRequest
    <2>1. /\ Head(up) = up[1] /\ 1 \in 1 .. Len(up) /\ Len(up') \in Nat
          /\ Len(up') = Len(up) - 1
          /\ \A i \in 1 .. Len(up') : i + 1 \in 1 .. Len(up) /\ up'[i] = up[i + 1]
      BY <1>1, PopFacts DEF RecvRequest, FrameReady, Types
    <2>2. up[1].id = Read + 1 /\ up[1].whole /\ Read + 1 < next
      BY <1>1, <2>1 DEF RecvRequest, FrameReady, UpInv
    <2>3. Read' = Read + 1
      BY <1>1, <2>1, <2>2 DEF RecvRequest, Read
    <2>4. ASSUME NEW k \in 1 .. Len(up')
          PROVE  up'[k].id = Read' + k /\ (up'[k].whole => Read' + k < next)
      <3>1. up[k + 1].id = Read + (k + 1)
            /\ (up[k + 1].whole => Read + (k + 1) < next)
        BY <1>1, <2>1 DEF RecvRequest, UpInv
      <3>2. Read + (k + 1) = Read' + k
        BY <2>1, <2>3, <1>0
      <3>. QED
        BY <2>1, <3>1, <3>2
    <2>5. upEnd = "open" => Read' + Len(up') = next - 1
      <3>1. upEnd = "open" => Read + Len(up) = next - 1
        BY <1>1 DEF RecvRequest, UpInv
      <3>. QED
        BY <1>0, <2>1, <2>3, <3>1
    <2>. QED
      BY <1>1, <2>2, <2>3, <2>4, <2>5 DEF RecvRequest, UpInv, agentVars
  <1>2. CASE RecvEof \/ RecvFails
    BY <1>2, UpQuiet DEF RecvEof, RecvFails, Return, UpInv, upVars, agentVars
  <1>3. ASSUME NEW v \in {"allow", "deny"}, Authorize(v) PROVE UpInv'
    BY <1>3, UpQuiet DEF Authorize, UpInv, upVars, agentVars
  <1>4. CASE SendDenial
    BY <1>4, UpQuiet DEF SendDenial, Return, UpInv, upVars, agentVars
  <1>5. CASE Dispatch
    BY <1>5, UpQuiet DEF Dispatch, Return, UpInv, upVars, agentVars
  <1>6. ASSUME NEW r \in {"Ok", "None", "Err"}, HandlerReturns(r) PROVE UpInv'
    BY <1>6, UpQuiet DEF HandlerReturns, UpInv, upVars, agentVars
  <1>7. CASE SendReply
    BY <1>7, UpQuiet DEF SendReply, Return, UpInv, upVars, agentVars
  <1>8. CASE SendUnknown
    BY <1>8, UpQuiet DEF SendUnknown, Return, UpInv, upVars, agentVars
  <1>9. ASSUME NEW r \in {"Ok", "Err"}, CallerServes(r) PROVE UpInv'
    BY <1>9, UpQuiet DEF CallerServes, UpInv, upVars, agentVars
  <1>10. CASE Release \/ Abort
    BY <1>10, UpQuiet DEF Release, Abort, Drop, agentVars
  <1>11. CASE RecvResponse
    BY <1>11, UpQuiet DEF RecvResponse, UpInv, upVars, serverVars
  <1>12. CASE RecvResponseFails \/ Close
    BY <1>12, UpQuiet
       DEF RecvResponseFails, Close, DropStream, UpInv, serverVars, agentVars
  <1>13. CASE SendRequestFails
    <2>1. upEnd' # "open" /\ next' = next + 1 /\ UNCHANGED <<up, upRecv, cur, pc>>
      BY <1>13 DEF SendRequestFails, DropStream, serverVars, Types
    <2>2. Read' = Read /\ Read < next + 1
          /\ \A k \in 1 .. Len(up) : Read + k < next => Read + k < next + 1
      BY <2>1, <1>0 DEF Read, UpInv
    <2>. QED
      BY <2>1, <2>2 DEF UpInv
  <1>14. ASSUME NEW r \in Requests, SendRequest(r) PROVE UpInv'
    <2>. DEFINE f == [whole |-> TRUE, id |-> next, req |-> r]
    <2>1. next \in Ids /\ upEnd = "open" /\ next' = next + 1
          /\ UNCHANGED <<upEnd, upRecv, cur, pc>>
      BY <1>14 DEF SendRequest, CanCall, serverVars
    <2>2. f \in Frame /\ f.id = next
      BY <2>1, FrameTypes
    <2>3. Read' = Read /\ Read < next + 1
          /\ \A k \in 1 .. Len(up) : Read + k < next => Read + k < next + 1
      BY <2>1, <1>0 DEF Read, UpInv
    <2>. HIDE DEF f
    <2>4. CASE pc = "released"
      BY <2>1, <2>3, <2>4 DEF UpInv
    <2>5. CASE pc # "released"
      <3>1. up' = Append(up, f)
        BY <1>14, <2>5 DEF SendRequest, UpInv, f, Types
      <3>2. /\ Len(up') = Len(up) + 1 /\ up'[Len(up) + 1] = f
            /\ \A i \in 1 .. Len(up) : up'[i] = up[i]
        BY <2>2, <3>1, PushFacts DEF Types
      <3>3. Read + Len(up) = next - 1
        BY <2>1, <2>5 DEF UpInv
      <3>4. ASSUME NEW k \in 1 .. Len(up')
            PROVE  up'[k].id = Read + k /\ Read + k < next + 1
        <4>1. CASE k \in 1 .. Len(up)
          <5>1. up'[k].id = Read + k
            BY <4>1, <3>2, <2>5 DEF UpInv
          <5>2. Read + k < next + 1
            BY <4>1, <3>3, <1>0
          <5>. QED
            BY <5>1, <5>2
        <4>2. CASE k = Len(up) + 1
          BY <4>2, <3>2, <3>3, <2>2, <1>0
        <4>. QED
          BY <4>1, <4>2, <3>2, <1>0
      <3>5. Read + Len(up') = next' - 1
        BY <3>2, <3>3, <2>1, <1>0
      <3>. QED
        BY <2>1, <2>3, <2>5, <3>4, <3>5 DEF UpInv
    <2>. QED
      BY <2>4, <2>5
  <1>15. CASE Cancel
    <2>1. upEnd' # "open" /\ UNCHANGED <<upRecv, cur, pc, next>>
      BY <1>15 DEF Cancel, DropStream, serverVars, Types
    <2>2. CASE UNCHANGED up
      BY <2>1, <2>2, UpQuiet DEF UpInv
    <2>3. CASE ~UNCHANGED up
      <3>1. PICK r \in Requests :
                 up' = Append(up, [whole |-> FALSE, id |-> next, req |-> r])
        BY <1>15, <2>3 DEF Cancel
      <3>2. upEnd = "open" /\ next \in Ids
        BY <1>15, <2>3 DEF Cancel
      <3>. DEFINE f == [whole |-> FALSE, id |-> next, req |-> r]
      <3>3. f \in Frame /\ f.id = next /\ f.whole = FALSE
        BY <3>2, FrameTypes
      <3>. HIDE DEF f
      <3>4. /\ Len(up') = Len(up) + 1 /\ up'[Len(up) + 1] = f
            /\ \A i \in 1 .. Len(up) : up'[i] = up[i]
        BY <3>1, <3>3, PushFacts DEF Types, f
      <3>5. ASSUME pc # "released", NEW k \in 1 .. Len(up')
            PROVE  up'[k].id = Read + k /\ (up'[k].whole => Read + k < next)
        <4>1. CASE k \in 1 .. Len(up)
          BY <4>1, <3>4, <3>5 DEF UpInv
        <4>2. CASE k = Len(up) + 1
          BY <4>2, <3>2, <3>3, <3>4, <3>5, <1>0 DEF UpInv
        <4>. QED
          BY <4>1, <4>2, <3>4, <1>0
      <3>. QED
        BY <2>1, <3>5 DEF UpInv, Read
    <2>. QED
      BY <2>2, <2>3
  <1>16. CASE ConnLost
    <2>1. /\ \A i \in 1 .. Len(up') : i \in 1 .. Len(up) /\ up'[i] = up[i]
          /\ upEnd' # "open"
      BY <1>16, CutFacts DEF ConnLost, Types
    <2>. QED
      BY <1>16, <2>1 DEF ConnLost, UpInv, Read, serverVars, agentVars
  <1>17. CASE UNCHANGED vars
    BY <1>17, UpQuiet DEF vars, UpInv
  <1>. QED
    BY <1>1, <1>2, <1>3, <1>4, <1>5, <1>6, <1>7, <1>8, <1>9, <1>10, <1>11,
       <1>12, <1>13, <1>14, <1>15, <1>16, <1>17
       DEF Next, Serve, ServerStep, AgentStep, NewCall, Fault, Over

-----------------------------------------------------------------------------
(* What the manager has decided and done. *)

\* A step that leaves the manager's loop, its histories and the end of its
\* direction alone.
LEMMA ServeQuiet ==
    ASSUME IInv, UNCHANGED serverVars, downEnd' = "open" => downEnd = "open"
    PROVE  ServeInv'
  BY DEF IInv, ServeInv, Serving, Read, serverVars

\* Every step of the two sides keeps the manager's account.
LEMMA ServeStep == IInv /\ [Next]_vars => ServeInv'
  <1>. SUFFICES ASSUME IInv, [Next]_vars PROVE ServeInv'
    OBVIOUS
  <1>. USE DEF IInv
  <1>0. /\ Read \in Nat /\ cur.id \in Ids
        /\ cur.whole => Read = cur.id
        /\ \A i \in Ids : i \in Nat
    BY ReadFacts
  <1>1. CASE RecvRequest
    <2>1. Head(up) = up[1] /\ 1 \in 1 .. Len(up)
      BY <1>1, PopFacts DEF RecvRequest, FrameReady, Types
    <2>2. cur'.id = Read + 1 /\ cur'.whole /\ cur'.id \in Ids
      BY <1>1, <2>1, FrameTypes, TypesStep DEF RecvRequest, FrameReady, UpInv, Types
    <2>3. Read' = Read + 1 /\ cur'.id > Read
      BY <2>2, <1>0 DEF Read
    <2>4. \A i \in Ids : i > Read' => i > Read
      BY <2>3, <1>0
    <2>. QED
      BY <1>1, <2>2, <2>3, <2>4 DEF RecvRequest, ServeInv, Serving, downVars
  <1>2. CASE RecvEof \/ RecvFails
    BY <1>2 DEF RecvEof, RecvFails, Return, ServeInv, Serving, Read, downVars
  <1>3. ASSUME NEW v \in {"allow", "deny"}, Authorize(v) PROVE ServeInv'
    <2>1. cur.whole /\ Read = cur.id /\ Read' = Read
      BY <1>0, <1>3 DEF Authorize, ServeInv, Serving, Read
    <2>2. policy'[cur.id] = v /\ \A j \in Ids \ {cur.id} : policy'[j] = policy[j]
      BY <1>0, <1>3, UpdateType DEF Authorize, Types
    <2>3. \A i \in Ids : i > Read => i # cur.id
      BY <1>0, <2>1
    <2>4. effect[cur.id] = "none"
      BY <1>3 DEF Authorize, ServeInv, Serving
    <2>. QED
      BY <1>3, <2>1, <2>2, <2>3, <2>4 DEF Authorize, ServeInv, Serving, downVars
  <1>4. CASE SendDenial
    <2>1. downEnd' = downEnd
      BY <1>4 DEF SendDenial, SendOk, SendFails, downVars
    <2>. QED
      BY <1>4, <2>1 DEF SendDenial, Return, ServeInv, Serving, Read
  <1>5. CASE Dispatch
    <2>1. cur.whole /\ Read = cur.id /\ Read' = Read
          /\ policy[cur.id] = "allow" /\ effect[cur.id] = "none"
      BY <1>0, <1>5 DEF Dispatch, ServeInv, Serving, Read
    <2>2. CASE cur.req.code \in Handled /\ Decodable(cur.req)
      <3>1. effect'[cur.id] = "running"
            /\ \A j \in Ids \ {cur.id} : effect'[j] = effect[j]
        BY <1>0, <1>5, <2>2, UpdateType DEF Dispatch, Types, Handled, HandedBack,
           Classified, Plain
      <3>2. \A i \in Ids : i > Read => i # cur.id
        BY <1>0, <2>1
      <3>3. pc' = "call"
        BY <1>5, <2>2 DEF Dispatch, Handled, HandedBack, Classified, Plain
      <3>. QED
        BY <1>5, <2>1, <3>1, <3>2, <3>3
           DEF Dispatch, ServeInv, Serving, downVars
    <2>3. CASE ~(cur.req.code \in Handled /\ Decodable(cur.req))
      <3>1. effect' = effect /\ pc' \in {"returned", "unknown"}
        BY <1>5, <2>3 DEF Dispatch, Return
      <3>. QED
        BY <1>5, <2>1, <3>1 DEF Dispatch, ServeInv, Serving, downVars
    <2>. QED
      BY <2>2, <2>3
  <1>6. ASSUME NEW r \in {"Ok", "None", "Err"}, HandlerReturns(r) PROVE ServeInv'
    <2>1. cur.whole /\ Read = cur.id /\ Read' = Read /\ policy[cur.id] = "allow"
      BY <1>0, <1>6 DEF HandlerReturns, ServeInv, Serving, Read
    <2>2. effect'[cur.id] = (IF r = "Err" THEN "err" ELSE "ok")
          /\ \A j \in Ids \ {cur.id} : effect'[j] = effect[j]
      BY <1>0, <1>6, UpdateType DEF HandlerReturns, Types
    <2>3. \A i \in Ids : i > Read => i # cur.id
      BY <1>0, <2>1
    <2>. QED
      BY <1>6, <2>1, <2>2, <2>3 DEF HandlerReturns, ServeInv, Serving, downVars
  <1>7. CASE SendReply
    <2>1. downEnd' = downEnd
      BY <1>7 DEF SendReply, SendOk, SendFails, downVars
    <2>2. pc' = "recv" \/ (pc' = "returned" /\ ret' = "IoError")
      BY <1>7 DEF SendReply, Return, SendOk, SendFails
    <2>3. \A i \in Ids : policy[i] # "deny"
      BY <1>7, <1>0 DEF SendReply, ServeInv, Serving
    <2>. QED
      BY <1>7, <2>1, <2>2, <2>3 DEF SendReply, ServeInv, Serving, Read
  <1>8. CASE SendUnknown
    <2>1. downEnd' = downEnd
      BY <1>8 DEF SendUnknown, SendOk, SendFails, downVars
    <2>. QED
      BY <1>8, <2>1 DEF SendUnknown, Return, ServeInv, Serving, Read
  <1>9. ASSUME NEW r \in {"Ok", "Err"}, CallerServes(r) PROVE ServeInv'
    <2>1. cur.whole /\ Read = cur.id /\ Read' = Read /\ policy[cur.id] = "allow"
      BY <1>0, <1>9 DEF CallerServes, ServeInv, Serving, Read
    <2>2. effect'[cur.id] = (IF r = "Err" THEN "err" ELSE "ok")
          /\ \A j \in Ids \ {cur.id} : effect'[j] = effect[j]
      BY <1>0, <1>9, UpdateType DEF CallerServes, Types
    <2>3. \A i \in Ids : i > Read => i # cur.id
      BY <1>0, <2>1
    <2>. QED
      BY <1>9, <2>1, <2>2, <2>3 DEF CallerServes, ServeInv, Serving, downVars
  <1>10. CASE Release \/ Abort
    BY <1>10 DEF Release, Abort, Drop, ServeInv, Serving, Read
  <1>11. CASE RecvResponse \/ RecvResponseFails \/ Close \/ SendRequestFails
              \/ Cancel
    BY <1>11, ServeQuiet
       DEF RecvResponse, RecvResponseFails, Close, SendRequestFails, Cancel
  <1>12. ASSUME NEW r \in Requests, SendRequest(r) PROVE ServeInv'
    BY <1>12, ServeQuiet DEF SendRequest, downVars
  <1>13. CASE ConnLost
    BY <1>13, CutFacts, ServeQuiet DEF ConnLost, Types
  <1>14. CASE UNCHANGED vars
    BY <1>14, ServeQuiet DEF vars, serverVars
  <1>. QED
    BY <1>1, <1>2, <1>3, <1>4, <1>5, <1>6, <1>7, <1>8, <1>9, <1>10, <1>11,
       <1>12, <1>13, <1>14
       DEF Next, Serve, ServerStep, AgentStep, NewCall, Fault, Over

\* What was allowed stays allowed, and what was done stays done: the manager
\* only ever writes the entry of the request it is serving.
LEMMA Stable ==
    ASSUME IInv, [Next]_vars, NEW i \in Ids
    PROVE  /\ policy[i] = "allow" => policy'[i] = "allow"
           /\ effect[i] = "ok" => effect'[i] = "ok"
  <1>. USE DEF IInv
  <1>0. cur.id \in Ids
    BY ReadFacts
  <1>1. CASE UNCHANGED <<policy, effect>>
    BY <1>1
  <1>2. ASSUME NEW v \in {"allow", "deny"}, Authorize(v)
        PROVE  policy[i] = "allow" => policy'[i] = "allow" /\ effect' = effect
    <2>1. policy[cur.id] = "none"
      BY <1>2 DEF Authorize, ServeInv
    <2>2. \A j \in Ids \ {cur.id} : policy'[j] = policy[j]
      BY <1>0, <1>2, UpdateType DEF Authorize, Types
    <2>. QED
      BY <1>2, <2>1, <2>2 DEF Authorize
  <1>3. ASSUME effect[cur.id] # "ok", NEW v \in {"none", "running", "ok", "err"},
               effect' = [effect EXCEPT ![cur.id] = v], policy' = policy
        PROVE  /\ policy[i] = "allow" => policy'[i] = "allow"
               /\ effect[i] = "ok" => effect'[i] = "ok"
    <2>1. \A j \in Ids \ {cur.id} : effect'[j] = effect[j]
      BY <1>0, <1>3, UpdateType DEF Types
    <2>. QED
      BY <1>3, <2>1
  <1>4. CASE Dispatch
    <2>1. effect[cur.id] # "ok"
      BY <1>4 DEF Dispatch, ServeInv, Serving
    <2>2. UNCHANGED effect \/ effect' = [effect EXCEPT ![cur.id] = "running"]
      BY <1>4 DEF Dispatch
    <2>. QED
      BY <1>1, <1>3, <1>4, <2>1, <2>2 DEF Dispatch
  <1>5. ASSUME NEW r \in {"Ok", "None", "Err"}, HandlerReturns(r)
        PROVE  /\ policy[i] = "allow" => policy'[i] = "allow"
               /\ effect[i] = "ok" => effect'[i] = "ok"
    <2>1. effect[cur.id] # "ok"
      BY <1>5 DEF HandlerReturns, ServeInv
    <2>. QED
      BY <1>3, <1>5, <2>1 DEF HandlerReturns
  <1>6. ASSUME NEW r \in {"Ok", "Err"}, CallerServes(r)
        PROVE  /\ policy[i] = "allow" => policy'[i] = "allow"
               /\ effect[i] = "ok" => effect'[i] = "ok"
    BY <1>3, <1>6 DEF CallerServes
  <1>7. CASE RecvRequest \/ RecvEof \/ RecvFails \/ SendDenial \/ SendReply
             \/ SendUnknown \/ Release \/ Abort
    BY <1>1, <1>7 DEF RecvRequest, RecvEof, RecvFails, SendDenial, SendReply,
                      SendUnknown, Release, Abort
  <1>8. CASE RecvResponse \/ RecvResponseFails \/ Close \/ Cancel \/ ConnLost
             \/ SendRequestFails \/ \E r \in Requests : SendRequest(r)
    BY <1>1, <1>8
       DEF RecvResponse, RecvResponseFails, Close, SendRequestFails, Cancel,
           SendRequest, ConnLost, serverVars
  <1>9. CASE UNCHANGED vars
    BY <1>1, <1>9 DEF vars
  <1>10. ASSUME NEW v \in {"allow", "deny"}, Authorize(v) PROVE effect' = effect
    BY <1>10 DEF Authorize
  <1>. QED
    BY <1>2, <1>4, <1>5, <1>6, <1>7, <1>8, <1>9, <1>10
       DEF Next, Serve, ServerStep, AgentStep, NewCall, Fault, Over

-----------------------------------------------------------------------------
(* The answers, in the order of the calls. *)

\* An answer is appended for the agent to read, or nothing is written.
LEMMA SendFacts ==
    ASSUME Types, NEW b \in {"Ok", "None", "Err"}, SendOk(b) \/ SendFails
    PROVE  /\ downEnd' = downEnd /\ downRecv' = downRecv
           /\ \/ down' = down
              \/ /\ downEnd = "open" /\ downRecv = "held"
                 /\ Len(down) \in Nat /\ Len(down') = Len(down) + 1
                 /\ \A i \in 1 .. Len(down) : down'[i] = down[i]
                 /\ down'[Len(down) + 1].id = cur.id
                 /\ down'[Len(down) + 1].body = b
           /\ SendOk(b) /\ downRecv = "held" => down' # down
  <1>. DEFINE e == [whole |-> TRUE, id |-> cur.id, body |-> b]
  <1>1. e \in Reply /\ e.id = cur.id /\ e.body = b
    BY FrameTypes DEF Types
  <1>. HIDE DEF e
  <1>2. /\ Len(down) \in Nat /\ Len(Append(down, e)) = Len(down) + 1
        /\ \A i \in 1 .. Len(down) : Append(down, e)[i] = down[i]
        /\ Append(down, e)[Len(down) + 1] = e
    BY <1>1, PushFacts DEF Types
  <1>3. Append(down, e) # down
    BY <1>2
  <1>4. CASE SendFails
    <2>1. SendOk(b) /\ downRecv = "held" => FALSE
      BY <1>4 DEF SendOk, SendFails
    <2>. QED
      BY <1>4, <2>1 DEF SendFails, downVars
  <1>5. CASE SendOk(b)
    <2>1. /\ downEnd = "open" /\ downEnd' = downEnd /\ downRecv' = downRecv
          /\ down' = IF downRecv = "dropped" THEN down ELSE Append(down, e)
      BY <1>5 DEF SendOk, e
    <2>2. downRecv \in {"held", "dropped"}
      BY DEF Types
    <2>. QED
      BY <1>1, <1>2, <1>3, <2>1, <2>2
  <1>. QED
    BY <1>4, <1>5

\* A step that writes no answer, and takes the loop no further than its next
\* answer, leaves the order alone.
LEMMA DownQuiet ==
    ASSUME IInv, UNCHANGED <<down, downRecv, outcome, next>>,
           downEnd' = "open" => downEnd = "open",
           pc' = "recv" => pc = "recv" /\ Read' = Read,
           Serving' => \/ Serving /\ Read' = Read
                       \/ pc = "recv" /\ Read' = Read + 1
    PROVE  DownInv'
  <1>. USE DEF IInv
  <1>0. Read \in Nat
    BY ReadFacts
  <1>1. AllAnswered => AllAnswered'
    BY DEF AllAnswered, Open
  <1>2. ASSUME NEW a \in 0 .. MaxRequests, AnswersFrom(a) PROVE AnswersFrom(a)'
    <2>1. Answered(a)' /\ a < next'
      BY <1>2 DEF AnswersFrom, Answered
    <2>2. \A k \in 1 .. Len(down') : down'[k].id = a + k
      BY <1>2 DEF AnswersFrom
    <2>3. downEnd' = "open" /\ pc' = "recv" => a + Len(down') = Read'
      BY <1>2 DEF AnswersFrom
    <2>4. downEnd' = "open" /\ Serving' => a + Len(down') = Read' - 1
      BY <1>0, <1>2 DEF AnswersFrom
    <2>. QED
      BY <2>1, <2>2, <2>3, <2>4 DEF AnswersFrom
  <1>. QED
    BY <1>1, <1>2 DEF DownInv

\* An answer goes behind those of the calls before it; one that cannot be
\* written ends the loop.
LEMMA DownSend ==
    ASSUME IInv, Serving, UNCHANGED <<outcome, next, cur>>,
           NEW b \in {"Ok", "None", "Err"}, SendOk(b) \/ SendFails,
           ~Serving', pc' = "recv" => SendOk(b)
    PROVE  DownInv'
  <1>. USE DEF IInv
  <1>0. Read \in Nat /\ Read' = Read /\ Read = cur.id
    BY ReadFacts DEF Read, ServeInv
  <1>1. AllAnswered => AllAnswered'
    BY DEF AllAnswered, Open
  <1>2. /\ downEnd' = downEnd /\ downRecv' = downRecv
        /\ \/ down' = down
           \/ /\ downEnd = "open" /\ downRecv = "held"
              /\ Len(down) \in Nat /\ Len(down') = Len(down) + 1
              /\ \A i \in 1 .. Len(down) : down'[i] = down[i]
              /\ down'[Len(down) + 1].id = cur.id
        /\ SendOk(b) /\ downRecv = "held" => down' # down
    BY SendFacts
  <1>3. ASSUME downRecv = "held", NEW a \in 0 .. MaxRequests, AnswersFrom(a)
        PROVE  AnswersFrom(a)'
    <2>1. Answered(a)' /\ a < next'
      BY <1>3 DEF AnswersFrom, Answered
    <2>2. CASE down' = down
      <3>1. pc' # "recv"
        BY <1>2, <1>3, <2>2
      <3>. QED
        BY <2>1, <2>2, <3>1, <1>3 DEF AnswersFrom
    <2>3. CASE down' # down
      <3>1. a + Len(down) = Read - 1 /\ a \in Nat /\ Len(down) \in Nat
        BY <1>2, <1>3, <2>3 DEF AnswersFrom
      <3>2. ASSUME NEW k \in 1 .. Len(down') PROVE down'[k].id = a + k
        <4>1. CASE k \in 1 .. Len(down)
          BY <4>1, <1>2, <1>3, <2>3 DEF AnswersFrom
        <4>2. CASE k = Len(down) + 1
          BY <4>2, <1>0, <1>2, <2>3, <3>1
        <4>. QED
          BY <4>1, <4>2, <1>2, <2>3, <3>1
      <3>3. a + Len(down') = Read'
        <4>1. Len(down') = Len(down) + 1
          BY <1>2, <2>3
        <4>. QED
          BY <4>1, <1>0, <3>1
      <3>. QED
        BY <2>1, <3>2, <3>3 DEF AnswersFrom
    <2>. QED
      BY <2>2, <2>3
  <1>. QED
    BY <1>1, <1>2, <1>3 DEF DownInv

\* A call that ends the stream leaves no call open.
LEMMA DownDropped ==
    ASSUME downRecv' = "dropped", AllAnswered'
    PROVE  DownInv'
  BY DEF DownInv

\* Every step of the manager keeps the answers in order.
LEMMA ManagerDown == IInv /\ Serve => DownInv'
  <1>. SUFFICES ASSUME IInv, Serve PROVE DownInv'
    OBVIOUS
  <1>. USE DEF IInv
  <1>1. CASE RecvRequest
    <2>1. Head(up) = up[1] /\ 1 \in 1 .. Len(up)
      BY <1>1, PopFacts DEF RecvRequest, FrameReady, Types
    <2>2. cur'.id = Read + 1 /\ cur'.whole
      BY <1>1, <2>1 DEF RecvRequest, FrameReady, UpInv
    <2>. QED
      BY <1>1, <2>2, DownQuiet DEF RecvRequest, Read, downVars, agentVars
  <1>2. CASE RecvEof \/ RecvFails
    BY <1>2, DownQuiet DEF RecvEof, RecvFails, Return, Serving, downVars, agentVars
  <1>3. ASSUME NEW v \in {"allow", "deny"}, Authorize(v) PROVE DownInv'
    BY <1>3, DownQuiet DEF Authorize, Serving, Read, downVars, agentVars
  <1>4. CASE SendDenial
    <2>1. Serving /\ ~Serving' /\ pc' = "returned"
      BY <1>4 DEF SendDenial, Return, Serving, SendOk, SendFails
    <2>. QED
      BY <1>4, <2>1, DownSend DEF SendDenial, agentVars
  <1>5. CASE Dispatch
    <2>1. Serving /\ pc' # "recv"
      BY <1>5 DEF Dispatch, Serving, Return
    <2>. QED
      BY <1>5, <2>1, DownQuiet DEF Dispatch, Read, downVars, agentVars
  <1>6. ASSUME NEW r \in {"Ok", "None", "Err"}, HandlerReturns(r) PROVE DownInv'
    BY <1>6, DownQuiet DEF HandlerReturns, Serving, Read, downVars, agentVars
  <1>7. CASE SendReply
    <2>1. Serving /\ ~Serving' /\ (pc' = "recv" => SendOk(result))
      BY <1>7 DEF SendReply, Return, Serving, SendOk, SendFails
    <2>2. result \in {"Ok", "None", "Err"}
      BY DEF Types
    <2>. QED
      BY <1>7, <2>1, <2>2, DownSend DEF SendReply, agentVars
  <1>8. CASE SendUnknown
    <2>1. Serving /\ ~Serving' /\ pc' = "returned"
      BY <1>8 DEF SendUnknown, Return, Serving, SendOk, SendFails
    <2>. QED
      BY <1>8, <2>1, DownSend DEF SendUnknown, agentVars
  <1>9. ASSUME NEW r \in {"Ok", "Err"}, CallerServes(r) PROVE DownInv'
    BY <1>9, DownQuiet DEF CallerServes, Serving, Read, downVars, agentVars
  <1>10. CASE Release
    BY <1>10, DownQuiet DEF Release, Drop, Serving, agentVars
  <1>. QED
    BY <1>1, <1>2, <1>3, <1>4, <1>5, <1>6, <1>7, <1>8, <1>9, <1>10
       DEF Serve, ServerStep

\* So does every other one.
LEMMA DownStep == IInv /\ [Next]_vars => DownInv'
  <1>. SUFFICES ASSUME IInv, [Next]_vars PROVE DownInv'
    OBVIOUS
  <1>. USE DEF IInv
  <1>0. /\ Read \in Nat /\ next \in Nat /\ MaxRequests \in Nat
        /\ Len(down) \in Nat /\ \A i \in Ids : i \in Nat
    BY ReadFacts
  <1>1. CASE RecvResponse
    <2>1. PICK a \in 0 .. MaxRequests : AnswersFrom(a)
      BY <1>1 DEF RecvResponse, DownInv
    <2>2. FirstOpen = a + 1 /\ FirstOpen \in Ids /\ a + 1 < next
      BY <1>1, <2>1, FirstOpenFacts DEF RecvResponse
    <2>3. /\ Head(down) \in Reply /\ Len(down') \in Nat
          /\ Len(down') = Len(down) - 1
          /\ \A i \in 1 .. Len(down') :
                i + 1 \in 1 .. Len(down) /\ down'[i] = down[i + 1]
      BY <1>1, PopFacts DEF RecvResponse, ReplyReady, Types
    <2>4. CallResult(Head(down).body) \in {"Ok", "NotFound", "Failed"}
      BY <2>3, FrameTypes, ResultFacts
    <2>5. /\ outcome'[a + 1] # "none"
          /\ \A j \in Ids \ {a + 1} : outcome'[j] = outcome[j]
      BY <1>1, <2>2, <2>4, UpdateType DEF RecvResponse, Types
    <2>6. \A i \in Ids : i <= a + 1 <=> i = a + 1 \/ i <= a
      BY <1>0
    <2>7. Answered(a + 1)'
      BY <2>1, <2>5, <2>6 DEF AnswersFrom, Answered
    <2>8. ASSUME NEW k \in 1 .. Len(down') PROVE down'[k].id = (a + 1) + k
      <3>1. down[k + 1].id = a + (k + 1)
        BY <2>1, <2>3 DEF AnswersFrom
      <3>2. a + (k + 1) = (a + 1) + k
        BY <2>3
      <3>. QED
        BY <2>3, <3>1, <3>2
    <2>9. (a + 1) + Len(down') = a + Len(down) /\ a + 1 \in 0 .. MaxRequests
      BY <1>0, <2>2, <2>3 DEF Ids
    <2>10. AnswersFrom(a + 1)'
      BY <1>1, <2>1, <2>2, <2>7, <2>8, <2>9
         DEF RecvResponse, AnswersFrom, Serving, Read, serverVars
    <2>. QED
      BY <1>1, <2>9, <2>10 DEF RecvResponse, DownInv, Types
  <1>2. CASE RecvResponseFails
    <2>1. \A i \in Ids : i < next /\ outcome'[i] = "none" => FALSE
      BY <1>2 DEF RecvResponseFails, Open
    <2>. QED
      BY <1>2, <2>1, DownDropped DEF RecvResponseFails, DropStream, AllAnswered, Open
  <1>3. CASE SendRequestFails
    <2>1. \A i \in Ids : i < next + 1 => i = next \/ i < next
      BY <1>0
    <2>2. \A i \in Ids : i < next + 1 /\ outcome'[i] = "none" => FALSE
      BY <1>3, <2>1 DEF SendRequestFails, Open
    <2>. QED
      BY <1>3, <2>2, DownDropped DEF SendRequestFails, DropStream, AllAnswered, Open
  <1>4. ASSUME NEW r \in Requests, SendRequest(r) PROVE DownInv'
    <2>1. PICK a \in 0 .. MaxRequests : AnswersFrom(a)
      BY <1>4 DEF SendRequest, CanCall, DownInv
    <2>2. a < next + 1
      BY <1>0, <2>1 DEF AnswersFrom
    <2>3. AnswersFrom(a)'
      BY <1>4, <2>1, <2>2
         DEF SendRequest, AnswersFrom, Answered, Serving, Read, downVars, serverVars
    <2>. QED
      BY <1>4, <2>3 DEF SendRequest, CanCall, DownInv, downVars
  <1>5. CASE Close
    BY <1>5, DownDropped DEF Close, DropStream, AllAnswered, Open, agentVars
  <1>6. CASE ConnLost
    <2>1. /\ \A i \in 1 .. Len(down') : i \in 1 .. Len(down) /\ down'[i] = down[i]
          /\ downEnd' # "open"
      BY <1>6, CutFacts DEF ConnLost, Types
    <2>2. \A a \in 0 .. MaxRequests : AnswersFrom(a) => AnswersFrom(a)'
      BY <1>6, <2>1 DEF ConnLost, AnswersFrom, Answered, agentVars
    <2>. QED
      BY <1>6, <2>2 DEF ConnLost, DownInv, AllAnswered, Open, agentVars
  <1>7. CASE Abort
    <2>1. pc' = "released" /\ downEnd' # "open" /\ UNCHANGED <<downRecv, outcome, next>>
      BY <1>7 DEF Abort, Drop, agentVars, Types
    <2>2. CASE UNCHANGED down
      BY <2>1, <2>2, DownQuiet DEF Serving
    <2>3. CASE ~UNCHANGED down
      <3>. DEFINE e == [whole |-> FALSE, id |-> cur.id, body |-> "Err"]
      <3>1. Serving /\ downEnd = "open" /\ downRecv = "held" /\ down' = Append(down, e)
        BY <1>7, <2>3 DEF Abort, Serving
      <3>2. e \in Reply /\ e.id = cur.id
        BY FrameTypes DEF Types
      <3>. HIDE DEF e
      <3>3. /\ Len(down') = Len(down) + 1
            /\ \A i \in 1 .. Len(down) : down'[i] = down[i]
            /\ down'[Len(down) + 1].id = cur.id
        BY <3>1, <3>2, PushFacts DEF Types
      <3>4. PICK a \in 0 .. MaxRequests : AnswersFrom(a)
        BY <3>1 DEF DownInv
      <3>5. a + Len(down) = Read - 1 /\ Read = cur.id
        BY <3>1, <3>4, ReadFacts DEF AnswersFrom, ServeInv
      <3>6. ASSUME NEW k \in 1 .. Len(down') PROVE down'[k].id = a + k
        <4>1. CASE k \in 1 .. Len(down)
          BY <4>1, <3>3, <3>4 DEF AnswersFrom
        <4>2. CASE k = Len(down) + 1
          BY <4>2, <1>0, <3>3, <3>5
        <4>. QED
          BY <4>1, <4>2, <3>3, <1>0
      <3>7. AnswersFrom(a)'
        BY <2>1, <3>4, <3>6 DEF AnswersFrom, Answered
      <3>. QED
        BY <2>1, <3>1, <3>7 DEF DownInv
    <2>. QED
      BY <2>2, <2>3
  <1>8. CASE Cancel
    <2>1. \A i \in Ids : i < next /\ outcome'[i] = "none" => FALSE
      BY <1>8 DEF Cancel, Open
    <2>. QED
      BY <1>8, <2>1, DownDropped DEF Cancel, DropStream, AllAnswered, Open
  <1>9. CASE UNCHANGED vars
    BY <1>9, DownQuiet DEF vars, Serving, Read
  <1>. QED
    BY <1>1, <1>2, <1>3, <1>4, <1>5, <1>6, <1>7, <1>8, <1>9, ManagerDown
       DEF Next, AgentStep, NewCall, Fault, Over

-----------------------------------------------------------------------------
(* What an answer says of the request. *)

\* A step that adds no answer.
LEMMA ReplyQuiet ==
    ASSUME IInv, [Next]_vars,
           \A k \in 1 .. Len(down') :
              \E j \in 1 .. Len(down) : down'[k] = down[j]
    PROVE  ReplyInv'
  <1>. SUFFICES ASSUME NEW k \in 1 .. Len(down'), down'[k].body # "Err"
                PROVE  policy'[down'[k].id] = "allow" /\ effect'[down'[k].id] = "ok"
    BY DEF ReplyInv
  <1>1. PICK j \in 1 .. Len(down) : down'[k] = down[j]
    OBVIOUS
  <1>2. down[j] \in Reply
    BY <1>1 DEF IInv, Types
  <1>3. down[j].id \in Ids
    BY <1>2, FrameTypes
  <1>4. policy[down[j].id] = "allow" /\ effect[down[j].id] = "ok"
    BY <1>1 DEF IInv, ReplyInv
  <1>. QED
    BY <1>1, <1>3, <1>4, Stable

\* A step that adds the answer b, of the request being served.
LEMMA ReplySend ==
    ASSUME IInv, NEW b \in {"Ok", "None", "Err"}, SendOk(b) \/ SendFails,
           UNCHANGED <<policy, effect>>,
           b # "Err" => policy[cur.id] = "allow" /\ effect[cur.id] = "ok"
    PROVE  ReplyInv'
  <1>1. CASE down' = down
    BY <1>1 DEF IInv, ReplyInv
  <1>2. CASE down' # down
    <2>1. /\ Len(down) \in Nat /\ Len(down') = Len(down) + 1
          /\ \A i \in 1 .. Len(down) : down'[i] = down[i]
          /\ down'[Len(down) + 1].id = cur.id
          /\ down'[Len(down) + 1].body = b
      BY <1>2, SendFacts DEF IInv
    <2>. SUFFICES ASSUME NEW k \in 1 .. Len(down'), down'[k].body # "Err"
                  PROVE  policy[down'[k].id] = "allow" /\ effect[down'[k].id] = "ok"
      BY DEF ReplyInv
    <2>2. CASE k \in 1 .. Len(down)
      BY <2>1, <2>2 DEF IInv, ReplyInv
    <2>3. CASE k = Len(down) + 1
      BY <2>1, <2>3
    <2>. QED
      BY <2>1, <2>2, <2>3
  <1>. QED
    BY <1>1, <1>2

\* An answer that is no error is that of a request allowed and done, after
\* every step.
LEMMA ReplyStep == IInv /\ [Next]_vars => ReplyInv'
  <1>. SUFFICES ASSUME IInv, [Next]_vars PROVE ReplyInv'
    OBVIOUS
  <1>1. CASE UNCHANGED down
    BY <1>1, ReplyQuiet
  <1>2. CASE SendDenial \/ SendUnknown
    BY <1>2, ReplySend DEF SendDenial, SendUnknown
  <1>3. CASE SendReply
    <2>1. result \in {"Ok", "None", "Err"}
          /\ (result # "Err" => policy[cur.id] = "allow" /\ effect[cur.id] = "ok")
      BY <1>3 DEF SendReply, IInv, Types, ServeInv, Serving
    <2>. QED
      BY <1>3, <2>1, ReplySend DEF SendReply
  <1>4. CASE RecvResponse
    <2>1. \A k \in 1 .. Len(down') :
             k + 1 \in 1 .. Len(down) /\ down'[k] = down[k + 1]
      BY <1>4, PopFacts DEF RecvResponse, ReplyReady, IInv, Types
    <2>. QED
      BY <2>1, ReplyQuiet
  <1>5. CASE ConnLost
    <2>1. \A k \in 1 .. Len(down') : k \in 1 .. Len(down) /\ down'[k] = down[k]
      BY <1>5, CutFacts DEF ConnLost, IInv, Types
    <2>. QED
      BY <2>1, ReplyQuiet
  <1>6. CASE Abort
    <2>1. CASE ~UNCHANGED down
      <3>. DEFINE e == [whole |-> FALSE, id |-> cur.id, body |-> "Err"]
      <3>1. down' = Append(down, e) /\ UNCHANGED <<policy, effect>>
        BY <1>6, <2>1 DEF Abort
      <3>2. e \in Reply /\ e.body = "Err"
        BY FrameTypes DEF IInv, Types
      <3>. HIDE DEF e
      <3>3. /\ Len(down) \in Nat /\ Len(down') = Len(down) + 1
            /\ \A i \in 1 .. Len(down) : down'[i] = down[i]
            /\ down'[Len(down) + 1].body = "Err"
        BY <3>1, <3>2, PushFacts DEF IInv, Types
      <3>. SUFFICES ASSUME NEW k \in 1 .. Len(down'), down'[k].body # "Err"
                    PROVE  policy[down'[k].id] = "allow" /\ effect[down'[k].id] = "ok"
        BY <3>1 DEF ReplyInv
      <3>4. k \in 1 .. Len(down)
        BY <3>3
      <3>. QED
        BY <3>3, <3>4 DEF IInv, ReplyInv
    <2>. QED
      BY <1>1, <2>1
  <1>7. CASE RecvRequest \/ RecvEof \/ RecvFails \/ Dispatch \/ Release
             \/ (\E v \in {"allow", "deny"} : Authorize(v))
             \/ (\E r \in {"Ok", "None", "Err"} : HandlerReturns(r))
             \/ (\E r \in {"Ok", "Err"} : CallerServes(r))
    BY <1>1, <1>7 DEF RecvRequest, RecvEof, RecvFails, Dispatch, Release,
                      Authorize, HandlerReturns, CallerServes, downVars
  <1>8. CASE RecvResponseFails \/ Close \/ Cancel \/ SendRequestFails
             \/ \E r \in Requests : SendRequest(r)
    BY <1>1, <1>8 DEF RecvResponseFails, Close, Cancel, SendRequestFails,
                      SendRequest, downVars
  <1>9. CASE UNCHANGED vars
    BY <1>1, <1>9 DEF vars
  <1>. QED
    BY <1>2, <1>3, <1>4, <1>5, <1>6, <1>7, <1>8, <1>9
       DEF Next, Serve, ServerStep, AgentStep, NewCall, Fault, Over

\* And so is a call that reports success: it took its own answer.
LEMMA OkStep == IInv /\ [Next]_vars => OkMeansServed'
  <1>. SUFFICES ASSUME IInv, [Next]_vars PROVE OkMeansServed'
    OBVIOUS
  <1>0. SUFFICES ASSUME NEW i \in Ids, outcome'[i] \in {"Ok", "NotFound"}
                 PROVE  policy[i] = "allow" /\ effect[i] = "ok"
    BY Stable DEF OkMeansServed
  <1>1. CASE outcome' = outcome
    BY <1>0, <1>1 DEF IInv, OkMeansServed
  <1>2. CASE RecvResponse
    <2>1. PICK a \in 0 .. MaxRequests : AnswersFrom(a)
      BY <1>2 DEF RecvResponse, IInv, DownInv
    <2>2. FirstOpen = a + 1 /\ FirstOpen \in Ids
      BY <1>2, <2>1, FirstOpenFacts DEF RecvResponse, IInv
    <2>3. Head(down) = down[1] /\ Head(down) \in Reply /\ 1 \in 1 .. Len(down)
      BY <1>2, PopFacts DEF RecvResponse, ReplyReady, IInv, Types
    <2>4. down[1].id = a + 1
      BY <2>1, <2>3 DEF AnswersFrom
    <2>5. /\ CallResult(down[1].body) \in {"Ok", "NotFound", "Failed"}
          /\ CallResult(down[1].body) # "Failed" => down[1].body # "Err"
      BY <2>3, FrameTypes, ResultFacts
    <2>6. /\ outcome'[a + 1] = CallResult(down[1].body)
          /\ \A j \in Ids \ {a + 1} : outcome'[j] = outcome[j]
      BY <1>2, <2>2, <2>3, <2>5, UpdateType DEF RecvResponse, IInv, Types
    <2>7. CASE i = a + 1
      BY <1>0, <2>3, <2>4, <2>5, <2>6, <2>7 DEF IInv, ReplyInv
    <2>8. CASE i # a + 1
      BY <1>0, <2>6, <2>8 DEF IInv, OkMeansServed
    <2>. QED
      BY <2>7, <2>8
  <1>3. CASE RecvResponseFails
    <2>1. outcome'[i] \in {"Failed", outcome[i]}
      BY <1>3 DEF RecvResponseFails
    <2>. QED
      BY <1>0, <2>1 DEF IInv, OkMeansServed
  <1>4. CASE SendRequestFails
    <2>1. outcome'[i] \in {"Failed", outcome[i]}
      BY <1>4 DEF SendRequestFails
    <2>. QED
      BY <1>0, <2>1 DEF IInv, OkMeansServed
  <1>5. CASE Cancel
    <2>1. outcome'[i] \in {"Cancelled", outcome[i]}
      BY <1>5 DEF Cancel
    <2>. QED
      BY <1>0, <2>1 DEF IInv, OkMeansServed
  <1>6. CASE Serve
    <2>1. outcome' = outcome
      BY <1>6 DEF Serve, ServerStep, RecvRequest, RecvEof, RecvFails, Authorize,
                  SendDenial, Dispatch, HandlerReturns, SendReply, SendUnknown,
                  CallerServes, Release, agentVars
    <2>. QED
      BY <1>1, <2>1
  <1>7. CASE Close \/ ConnLost \/ Abort \/ \E r \in Requests : SendRequest(r)
    BY <1>1, <1>7 DEF Close, ConnLost, Abort, SendRequest, agentVars
  <1>8. CASE UNCHANGED vars
    BY <1>1, <1>8 DEF vars
  <1>. QED
    BY <1>2, <1>3, <1>4, <1>5, <1>6, <1>7, <1>8
       DEF Next, AgentStep, NewCall, Fault, Over

-----------------------------------------------------------------------------
(* The theorems. *)

\* The inductive invariant holds of a stream on which nothing has been asked.
LEMMA InitInv == Init => IInv
  <1>. SUFFICES ASSUME Init PROVE IInv
    OBVIOUS
  <1>1. Types
    BY InitTypes
  <1>2. Read = 0 /\ Len(up) = 0 /\ Len(down) = 0 /\ ~Serving /\ next = 1
    BY DEF Init, Read, Serving
  <1>3. UpInv
    BY <1>2 DEF Init, UpInv
  <1>4. DownInv
    <2>1. MaxRequests \in Nat /\ \A i \in Ids : ~(i <= 0)
      BY ServerAssumption DEF Ids
    <2>2. AnswersFrom(0)
      BY <1>2, <2>1 DEF Init, AnswersFrom, Answered
    <2>3. 0 \in 0 .. MaxRequests
      BY <2>1
    <2>. QED
      BY <2>2, <2>3 DEF Init, DownInv
  <1>5. ServeInv
    BY <1>2 DEF Init, ServeInv, Serving
  <1>6. ReplyInv /\ OkMeansServed
    BY <1>2 DEF Init, ReplyInv, OkMeansServed
  <1>. QED
    BY <1>1, <1>3, <1>4, <1>5, <1>6 DEF IInv

\* The inductive invariant of an agent's requests to the manager: requests
\* and answers are in order and none is missing, and what the manager has
\* decided and done for each agrees with where its loop is.
THEOREM DispatchInvariant == Spec => []IInv
  <1>1. IInv /\ [Next]_vars => IInv'
    BY TypesStep, UpStep, DownStep, ServeStep, ReplyStep, OkStep DEF IInv
  <1>. QED
    BY InitInv, <1>1, PTL DEF Spec

\* Nothing is done for a request the authorizer denied, nor for any request
\* behind it, by handle_authorized or by the caller a request is handed back
\* to.
THEOREM DenialIsFinal == Spec => []DeniedNeverServed
  <1>1. ASSUME IInv PROVE DeniedNeverServed
    <2>. SUFFICES ASSUME NEW i \in Ids, policy[i] = "deny",
                         NEW j \in i .. MaxRequests
                  PROVE  effect[j] = "none"
      BY DEF DeniedNeverServed
    <2>1. i = Read /\ effect[i] = "none"
      BY <1>1 DEF IInv, ServeInv
    <2>2. j \in Ids /\ (j = i \/ j > Read)
      BY <1>1, <2>1, ReadFacts DEF IInv, Ids
    <2>. QED
      BY <1>1, <2>1, <2>2 DEF IInv, ServeInv
  <1>. QED
    BY DispatchInvariant, <1>1, PTL

\* Every answer unary_request reads is that of the call that reads it, though
\* answers carry no request number.
THEOREM AnswersInOrder == Spec => []AnswersMatch
  <1>1. ASSUME IInv PROVE AnswersMatch
    <2>. SUFFICES ASSUME ~AllAnswered, ReplyReady, downRecv = "held"
                  PROVE  Head(down).id = FirstOpen
      BY DEF AnswersMatch
    <2>1. PICK a \in 0 .. MaxRequests : AnswersFrom(a)
      BY <1>1 DEF IInv, DownInv
    <2>2. FirstOpen = a + 1
      BY <1>1, <2>1, FirstOpenFacts DEF IInv
    <2>3. Head(down) = down[1] /\ 1 \in 1 .. Len(down)
      BY <1>1, PopFacts DEF ReplyReady, IInv, Types
    <2>. QED
      BY <2>1, <2>2, <2>3 DEF AnswersFrom
  <1>. QED
    BY DispatchInvariant, <1>1, PTL

\* A call of the agent's that reports success, or that there is no such data
\* source, was allowed by the authorizer and served.
THEOREM SuccessWasServed == Spec => []OkMeansServed
  <1>1. IInv => OkMeansServed
    BY DEF IInv
  <1>. QED
    BY DispatchInvariant, <1>1, PTL

-----------------------------------------------------------------------------
(* Each call on the stream implements RemoteCall. *)

\* A step of the manager's moves a request from none to running to its end,
\* or from none to its end when the caller serves what was handed back.
LEMMA ServeMoves ==
    ASSUME IInv, Serve, NEW i \in Ids
    PROVE  /\ outcome' = outcome
           /\ \/ effect'[i] = effect[i]
              \/ effect[i] = "none" /\ effect'[i] = "running"
              \/ effect[i] \in {"none", "running"} /\ effect'[i] \in {"ok", "err"}
  <1>1. outcome' = outcome
    BY DEF Serve, ServerStep, RecvRequest, RecvEof, RecvFails, Authorize,
           SendDenial, Dispatch, HandlerReturns, SendReply, SendUnknown,
           CallerServes, Release, agentVars
  <1>2. cur.id \in Ids /\ effect \in [Ids -> {"none", "running", "ok", "err"}]
    BY FrameTypes DEF IInv, Types, Frame
  <1>3. CASE Dispatch
    <2>1. effect[cur.id] = "none"
      BY <1>3 DEF IInv, ServeInv, Serving, Dispatch
    <2>2. \/ effect' = effect
          \/ effect' = [effect EXCEPT ![cur.id] = "running"]
      BY <1>3 DEF Dispatch
    <2>. QED
      BY <1>1, <1>2, <2>1, <2>2
  <1>4. ASSUME NEW r \in {"Ok", "None", "Err"}, HandlerReturns(r)
        PROVE  \/ effect'[i] = effect[i]
               \/ effect[i] = "running" /\ effect'[i] \in {"ok", "err"}
    <2>1. effect[cur.id] = "running"
      BY <1>4 DEF IInv, ServeInv, HandlerReturns
    <2>2. effect' = [effect EXCEPT ![cur.id] = IF r = "Err" THEN "err" ELSE "ok"]
      BY <1>4 DEF HandlerReturns
    <2>. QED
      BY <1>2, <2>1, <2>2
  <1>5. ASSUME NEW r \in {"Ok", "Err"}, CallerServes(r)
        PROVE  \/ effect'[i] = effect[i]
               \/ effect[i] = "none" /\ effect'[i] \in {"ok", "err"}
    <2>1. /\ effect[cur.id] = "none"
          /\ effect' = [effect EXCEPT ![cur.id] = IF r = "Err" THEN "err" ELSE "ok"]
      BY <1>5 DEF CallerServes
    <2>. QED
      BY <1>2, <2>1
  <1>6. CASE \/ RecvRequest \/ RecvEof \/ RecvFails \/ SendDenial \/ SendReply
             \/ SendUnknown \/ Release
             \/ \E v \in {"allow", "deny"} : Authorize(v)
    <2>1. effect' = effect
      BY <1>6 DEF RecvRequest, RecvEof, RecvFails, SendDenial, SendReply,
                  SendUnknown, Release, Authorize
    <2>. QED
      BY <1>1, <2>1
  <1>. QED
    BY <1>1, <1>3, <1>4, <1>5, <1>6 DEF Serve, ServerStep

\* A step of the agent's ends only calls that have no outcome yet, and leaves
\* what the manager did alone.
LEMMA AgentMoves ==
    ASSUME IInv, AgentStep \/ NewCall \/ Close \/ Fault, NEW i \in Ids
    PROVE  /\ effect' = effect
           /\ \/ outcome'[i] = outcome[i]
              \/ /\ outcome[i] = "none"
                 /\ outcome'[i] \in {"Ok", "NotFound", "Failed", "Cancelled"}
  <1>1. effect' = effect
    BY DEF AgentStep, RecvResponse, RecvResponseFails, NewCall, SendRequest,
           SendRequestFails, Close, Fault, ConnLost, Abort, Cancel, serverVars
  <1>2. outcome \in [Ids -> {"none", "Ok", "NotFound", "Failed", "Cancelled"}]
    BY DEF IInv, Types
  <1>3. CASE RecvResponse
    <2>1. PICK a \in 0 .. MaxRequests : AnswersFrom(a)
      BY <1>3 DEF RecvResponse, IInv, DownInv
    <2>2. FirstOpen = a + 1 /\ FirstOpen \in Ids
      BY <1>3, <2>1, FirstOpenFacts DEF RecvResponse, IInv
    <2>3. outcome[FirstOpen] = "none"
      <3>1. ~(a + 1 <= a)
        BY <2>1
      <3>. QED
        BY <2>1, <2>2, <3>1 DEF AnswersFrom, Answered
    <2>4. Head(down) \in Reply
      BY <1>3, PopFacts DEF RecvResponse, ReplyReady, IInv, Types
    <2>5. CallResult(Head(down).body) \in {"Ok", "NotFound", "Failed"}
      BY <2>4, FrameTypes, ResultFacts
    <2>6. outcome' = [outcome EXCEPT ![FirstOpen] = CallResult(Head(down).body)]
      BY <1>3 DEF RecvResponse
    <2>. QED
      BY <1>1, <1>2, <2>2, <2>3, <2>5, <2>6
  <1>4. CASE SendRequestFails
    <2>1. next \in Ids /\ downRecv = "held"
      BY <1>4 DEF SendRequestFails, CanCall
    <2>2. PICK a \in 0 .. MaxRequests : AnswersFrom(a)
      BY <2>1 DEF IInv, DownInv
    <2>3. outcome[next] = "none"
      <3>1. next \in Nat /\ ~(next <= a)
        BY <2>1, <2>2, ServerAssumption DEF AnswersFrom, Ids
      <3>. QED
        BY <2>1, <2>2, <3>1 DEF AnswersFrom, Answered
    <2>4. outcome'[i] = IF i = next \/ Open(i) THEN "Failed" ELSE outcome[i]
      BY <1>4 DEF SendRequestFails
    <2>. QED
      BY <1>1, <2>3, <2>4 DEF Open
  <1>5. CASE RecvResponseFails
    <2>1. outcome'[i] = IF Open(i) THEN "Failed" ELSE outcome[i]
      BY <1>5 DEF RecvResponseFails
    <2>. QED
      BY <1>1, <2>1 DEF Open
  <1>6. CASE Cancel
    <2>1. outcome'[i] = IF Open(i) THEN "Cancelled" ELSE outcome[i]
      BY <1>6 DEF Cancel
    <2>. QED
      BY <1>1, <2>1 DEF Open
  <1>7. CASE Close \/ ConnLost \/ Abort \/ \E r \in Requests : SendRequest(r)
    BY <1>1, <1>7 DEF Close, ConnLost, Abort, SendRequest, agentVars
  <1>. QED
    BY <1>3, <1>4, <1>5, <1>6, <1>7 DEF AgentStep, NewCall, Fault

\* Every step is one of RemoteCall's for each of the calls, or leaves it.
LEMMA CallRefines ==
    ASSUME IInv, IInv', [Next]_vars, NEW i \in Ids
    PROVE  [Call(i)!Next]_(Call(i)!callVars)
  <1>0. outcome[i] \in {"none", "Ok", "NotFound", "Failed", "Cancelled"}
    BY DEF IInv, Types
  <1>1. CASE Serve
    <2>1. CASE effect'[i] = effect[i]
      BY <1>1, <2>1, ServeMoves DEF Call!callVars
    <2>2. CASE effect[i] = "none" /\ effect'[i] = "running"
      BY <1>0, <1>1, <2>2, ServeMoves DEF Call!Next, Call!Run, Call!Refusals
    <2>3. CASE /\ effect[i] \in {"none", "running"}
               /\ effect'[i] \in {"ok", "err"}
      BY <1>0, <1>1, <2>3, ServeMoves DEF Call!Next, Call!Complete, Call!Refusals
    <2>. QED
      BY <1>1, <2>1, <2>2, <2>3, ServeMoves
  <1>2. CASE AgentStep \/ NewCall \/ Close \/ Fault
    <2>1. CASE outcome'[i] = outcome[i]
      BY <1>2, <2>1, AgentMoves DEF Call!callVars
    <2>2. CASE outcome[i] = "none"
               /\ outcome'[i] \in {"Ok", "NotFound", "Failed", "Cancelled"}
      <3>1. effect' = effect
        BY <1>2, AgentMoves
      <3>2. outcome'[i] \in {"Ok", "NotFound"} => effect[i] = "ok"
        BY <3>1 DEF IInv, OkMeansServed
      <3>. DEFINE o == IF outcome'[i] = "NotFound" THEN "Ok" ELSE outcome'[i]
      <3>3. o \in Call(i)!Outcomes /\ o \notin Call(i)!Refusals
        BY <2>2 DEF Call!Outcomes, Call!Refusals
      <3>4. Call(i)!Report(o)
        BY <2>2, <3>1, <3>2, <3>3 DEF Call!Report
      <3>. QED
        BY <3>3, <3>4 DEF Call!Next
    <2>. QED
      BY <1>2, <2>1, <2>2, AgentMoves
  <1>3. CASE UNCHANGED vars
    BY <1>3 DEF vars, Call!callVars
  <1>. QED
    BY <1>1, <1>2, <1>3 DEF Next, Over

\* unary_request and the manager's dispatch loops, with every fault, implement
\* RemoteCall for each request of a stream: the manager runs it at most once,
\* an outcome is reported once and for good, Ok only for one that succeeded.
THEOREM CallsImplementRemoteCall == Spec => RemoteCalls
  <1>1. Init => \A i \in Ids : Call(i)!Init
    BY DEF Init, Call!Init
  <1>2. IInv /\ IInv' /\ [Next]_vars =>
            [\A i \in Ids : [Call(i)!Next]_(Call(i)!callVars)]_vars
    BY CallRefines
  <1>. QED
    BY <1>1, <1>2, DispatchInvariant, PTL DEF Spec, RemoteCalls
=============================================================================
