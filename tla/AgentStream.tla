----------------------------- MODULE AgentStream -----------------------------
(***************************************************************************)
(* One bidirectional stream between the manager and an agent, and the      *)
(* agent's side of it: the request loops `handle` and `handle_node`, the   *)
(* install exchange of `dispatch_node_package`, and the bounded            *)
(* `PackageReader` it lends to the handler (src/src/request.rs).           *)
(*                                                                         *)
(* The stream itself is QUIC (quinn and oinq's length-prefixed framing),   *)
(* modelled from how the code uses it: two FIFO directions of frames, each *)
(* ended by the sender (finish or reset) or cut by the loss of the         *)
(* connection, and each refused by the receiver with STOP_SENDING.  A      *)
(* frame is bytes to the reader: `kind` and `id` say what the sender meant *)
(* by it and are never looked at to decide what the reader does, only what *)
(* the bytes can decode to.                                                *)
(***************************************************************************)
EXTENDS Naturals, Sequences

CONSTANTS
    Requests,     \* the requests a peer may put on the stream
    MaxRequests,  \* requests are numbered 1..MaxRequests on one stream
    RequestLen,   \* length of a request frame, counted in payload bytes
    Window,       \* flow control: frames in flight towards the agent
    NodeOnly      \* TRUE: the agent runs handle_node, FALSE: handle

VARIABLES
    up,        \* frames written towards the agent and not yet read
    upEnd,     \* how that direction ends: "open", "fin", "reset", "lost"
    upRecv,    \* the agent's RecvStream: "held", or "dropped" (STOP_SENDING)
    down,      \* frames written towards the manager and not yet read
    downEnd,   \* how that direction ends: "open", "fin", "lost"
    downRecv,  \* the manager's RecvStream, likewise
    pc,        \* what the agent's task awaits
    cur,       \* the frame of the request being served
    pkg,       \* the PackageReader: declared size, bytes remaining, failed
    result,    \* the result about to be sent
    ret,       \* what handle returned
    effect     \* per request, how far its handler got (history)

upVars    == <<up, upEnd, upRecv>>
downVars  == <<down, downEnd, downRecv>>
agentVars == <<pc, cur, pkg, result, ret, effect>>
streamVars == <<up, upEnd, upRecv, down, downEnd, downRecv,
                pc, cur, pkg, result, ret, effect>>

-----------------------------------------------------------------------------
(* Request codes, by the shape of their dispatch arm.  NodePower and       *)
(* NodePackage split by the request variant that decides the arm's path.   *)

\* The flat arms, in the order of `handle`: those that take no arguments, and
\* those that decode some.
FlatArms ==
    [DnsStart             |-> "bare",  DnsStop              |-> "bare",
     Reboot               |-> "bare",  ReloadConfig         |-> "bare",
     ReloadTi             |-> "typed", ResourceUsage        |-> "bare",
     TorExitNodeList      |-> "typed", SamplingPolicyList   |-> "typed",
     DeleteSamplingPolicy |-> "typed", TrustedDomainList    |-> "typed",
     InternalNetworkList  |-> "typed", Allowlist            |-> "typed",
     Blocklist            |-> "typed", EchoRequest          |-> "bare",
     TrustedUserAgentList |-> "typed", ReloadFilterRule     |-> "typed",
     UpdateConfig         |-> "bare",  DeleteCustomerData   |-> "typed",
     ProcessList          |-> "bare",  SemiSupervisedModels |-> "bare",
     Shutdown             |-> "bare"]

EngineTyped == {"TrainModel", "CloneModel", "CancelRun", "RunDetectorOnce"}

NodeUnary == {"NodeService", "NodeNetworkInterface", "NodeHostname",
              "NodeTimeSync", "NodeLogging", "NodeRemoteAccess",
              "NodePower.Graceful", "NodeObservation", "NodeVersion",
              "NodePackage.Unary", "NodeEnroll"}

NodeCodes == NodeUnary \cup {"NodePower.Immediate", "NodePackage.Install"}

Codes == DOMAIN FlatArms \cup EngineTyped \cup NodeCodes \cup {"Unknown"}

\* `decodes` is whether this build can decode the arguments (the peer may be
\* built against another release); `size` matters to an install only.
Request == [code : Codes, decodes : BOOLEAN, size : Nat]

ASSUME StreamAssumption ==
    /\ Requests # {} /\ Requests \subseteq Request
    /\ MaxRequests \in Nat \ {0}
    /\ RequestLen \in Nat \ {0}
    /\ Window \in Nat \ {0}
    /\ NodeOnly \in BOOLEAN

\* Request 0 stands for bytes the loop took for a request and nobody sent.
Ids == 0 .. MaxRequests

Served(r) == IF NodeOnly THEN r.code \in NodeCodes ELSE r.code # "Unknown"

\* An arm that takes no arguments does not look at the body.
Decodable(r) ==
    \/ r.code = "Unknown"
    \/ r.code \in DOMAIN FlatArms /\ FlatArms[r.code] = "bare"
    \/ r.decodes

IsInstall(r) == r.code = "NodePackage.Install"

\* node_power_expects_response, for every code.
ExpectsResponse(r) == r.code # "NodePower.Immediate"

-----------------------------------------------------------------------------
(* Frames. *)

Frame == [kind : {"req", "chunk", "frag"}, id : Ids, req : Request,
          off : Nat, len : Nat]

ReqFrame(i, r) ==
    [kind |-> "req", id |-> i, req |-> r, off |-> 0, len |-> RequestLen]

\* A chunk carries bytes off .. off+len-1 of the package of request i.
ChunkFrame(i, r, o, n) ==
    [kind |-> "chunk", id |-> i, req |-> r, off |-> o, len |-> n]

\* What is left of a frame whose writer was dropped in the middle of it.
FragFrame(i, r, o) ==
    [kind |-> "frag", id |-> i, req |-> r, off |-> o, len |-> 0]

\* A Result frame.  `step` tells a preflight verdict from a final response.
Reply == [id : Ids, step : {"verdict", "final", "frag"},
          body : {"Proceed", "Refusal", "Ok", "Err"}]

ReplyFrame(i, s, b) == [id |-> i, step |-> s, body |-> b]

-----------------------------------------------------------------------------
(* The stream, external. *)

\* recv_raw on the agent's side: a whole frame, an early end, an error.
\* A reset may overtake frames already written, which are then discarded; a
\* lost connection does not take back what was already received.
FrameReady == up # <<>> /\ Head(up).kind # "frag"
EofReady   == ~FrameReady /\ upEnd = "fin"
ErrReady   == upEnd = "reset" \/ (~FrameReady /\ upEnd = "lost")

\* A write towards the manager goes through unless the connection is gone,
\* and may fail once the manager has stopped reading.
SendOk(r) ==
    /\ downEnd = "open"
    /\ down' = IF downRecv = "dropped" THEN down ELSE Append(down, r)
    /\ UNCHANGED <<downEnd, downRecv>>

SendFails ==
    /\ downEnd = "lost" \/ downRecv = "dropped"
    /\ UNCHANGED downVars

\* The connection is lost: each direction keeps what had already arrived.
Cut(q, q2, end, end2) ==
    \E k \in 0 .. Len(q) :
        /\ q2 = SubSeq(q, 1, k)
        /\ end2 \in IF k = Len(q) /\ end # "open" THEN {end, "lost"}
                    ELSE {"lost"}

ConnLost ==
    /\ upEnd # "lost" /\ downEnd # "lost"
    /\ Cut(up, up', upEnd, upEnd')
    /\ Cut(down, down', downEnd, downEnd')
    /\ UNCHANGED <<upRecv, downRecv, agentVars>>

-----------------------------------------------------------------------------
(* PackageReader. *)

PackageReader == [size : Nat, remaining : Nat, failed : BOOLEAN]

\* Mutant: the count of bytes left starts one short.
NewReaderOneShort(size) ==
    [size |-> size, remaining |-> size - 1, failed |-> FALSE]

NewReader(size) == [size |-> size, remaining |-> size, failed |-> FALSE]

\* next_chunk with something left to read: one frame off the stream, counted
\* against `remaining` or, if it overruns, failing the transfer for good; or
\* the stream's end, in whatever way it ends.
ReadChunk ==
    /\ ~pkg.failed /\ pkg.remaining > 0
    /\ \/ /\ FrameReady
          /\ up' = Tail(up)
          /\ pkg' = IF Head(up).len > pkg.remaining
                    THEN [pkg EXCEPT !.failed = TRUE]
                    ELSE [pkg EXCEPT !.remaining = @ - Head(up).len]
       \/ /\ EofReady \/ ErrReady
          /\ pkg' = [pkg EXCEPT !.failed = TRUE]
          /\ up' = IF upEnd = "reset" THEN <<>> ELSE up
    /\ UNCHANGED <<upEnd, upRecv>>

-----------------------------------------------------------------------------
(* The dispatch loop. *)

\* accept_bi hands the stream to a task that runs handle on it (external).
\* The agent knows of a stream from the first thing that arrives on it.
Visible == up # <<>> \/ upEnd \in {"fin", "reset"}

Accept ==
    /\ pc = "accept" /\ Visible
    /\ pc' = "recv"
    /\ UNCHANGED <<upVars, downVars, cur, pkg, result, ret, effect>>

Return(r) == pc' = "returned" /\ ret' = r

\* Serving request r, sent as number i, from its decoding to the first await
\* of the arm.
Dispatch(i, r) ==
    /\ cur' = ReqFrame(i, r)
    /\ UNCHANGED pkg
    /\ \/ /\ ~Served(r)                          \* send_err, keep looping
          /\ pc' = "reply" /\ result' = "Err"
          /\ UNCHANGED <<ret, effect, downVars>>
       \/ /\ Served(r) /\ ~Decodable(r)
          /\ \/ SendOk(ReplyFrame(i, "final", "Err"))
             \/ SendFails                        \* discarded
          /\ Return("RecvError")
          /\ UNCHANGED <<result, effect>>
       \/ /\ Served(r) /\ Decodable(r) /\ IsInstall(r)
          /\ pc' = "preflight"
          /\ UNCHANGED <<result, ret, effect, downVars>>
       \/ /\ Served(r) /\ r.code = "EchoRequest"
          /\ pc' = "reply" /\ result' = "Ok"
          /\ effect' = [effect EXCEPT ![i] = "ok"]
          /\ UNCHANGED <<ret, downVars>>
       \/ /\ Served(r) /\ Decodable(r)
          /\ ~IsInstall(r) /\ r.code # "EchoRequest"
          /\ pc' = "call"
          /\ effect' = [effect EXCEPT ![i] = "running"]
          /\ UNCHANGED <<result, ret, downVars>>

RecvRequest ==
    /\ pc = "recv" /\ FrameReady /\ Head(up).kind = "req"
    /\ up' = Tail(up)
    /\ Dispatch(Head(up).id, Head(up).req)
    /\ UNCHANGED <<upEnd, upRecv>>

\* A payload chunk where a request is expected: its bytes are too short for a
\* code, or decode to whatever request they happen to spell.
RecvMisaligned ==
    /\ pc = "recv" /\ FrameReady /\ Head(up).kind = "chunk"
    /\ up' = Tail(up)
    /\ \/ /\ Return("RecvError")
          /\ UNCHANGED <<cur, pkg, result, effect, downVars>>
       \/ \E r \in Requests : Dispatch(0, r)
    /\ UNCHANGED <<upEnd, upRecv>>

\* recv_request_raw fails: an early end, even inside a frame, ends the loop
\* with Ok, every other error with RecvError.
RecvEof ==
    /\ pc = "recv" /\ EofReady
    /\ Return("Ok")
    /\ UNCHANGED <<upVars, downVars, cur, pkg, result, effect>>

RecvFails ==
    /\ pc = "recv" /\ ErrReady
    /\ Return("RecvError")
    /\ UNCHANGED <<upVars, downVars, cur, pkg, result, effect>>

\* Mutant: an immediate power action is answered like any other request.
CallReturnsAnswers(r) ==
    /\ pc = "call" /\ r \in {"Ok", "Err"}
    /\ effect' = [effect EXCEPT ![cur.id] = IF r = "Ok" THEN "ok" ELSE "err"]
    /\ pc' = "reply" /\ result' = r
    /\ UNCHANGED <<upVars, downVars, cur, pkg, ret>>

\* Mutant: a handler's error is not answered.
CallReturnsSwallows(r) ==
    /\ pc = "call" /\ r \in {"Ok", "Err"}
    /\ effect' = [effect EXCEPT ![cur.id] = IF r = "Ok" THEN "ok" ELSE "err"]
    /\ IF ExpectsResponse(cur.req) /\ r = "Ok"
       THEN pc' = "reply" /\ result' = r
       ELSE pc' = "recv" /\ UNCHANGED result
    /\ UNCHANGED <<upVars, downVars, cur, pkg, ret>>

\* A unary handler method returns.
CallReturns(r) ==
    /\ pc = "call" /\ r \in {"Ok", "Err"}
    /\ effect' = [effect EXCEPT ![cur.id] = IF r = "Ok" THEN "ok" ELSE "err"]
    /\ IF ExpectsResponse(cur.req)
       THEN pc' = "reply" /\ result' = r
       ELSE pc' = "recv" /\ UNCHANGED result
    /\ UNCHANGED <<upVars, downVars, cur, pkg, ret>>

\* Mutant: a terminal verdict is followed by a final response.
PreflightAnswersTwice(v) ==
    /\ pc = "preflight" /\ v \in {"Proceed", "Refusal", "Err"}
    /\ SendOk(ReplyFrame(cur.id, "verdict", v))
    /\ IF v = "Proceed"
       THEN /\ pc' = "install"
            /\ pkg' = NewReader(cur.req.size)
            /\ effect' = [effect EXCEPT ![cur.id] = "running"]
            /\ UNCHANGED result
       ELSE pc' = "reply" /\ result' = "Err" /\ UNCHANGED <<pkg, effect>>
    /\ UNCHANGED <<upVars, cur, ret>>

\* The preflight verdict is written; every one but Proceed is terminal.
Preflight(v) ==
    /\ pc = "preflight" /\ v \in {"Proceed", "Refusal", "Err"}
    /\ \/ /\ SendOk(ReplyFrame(cur.id, "verdict", v))
          /\ IF v = "Proceed"
             THEN /\ pc' = "install"
                  /\ pkg' = NewReader(cur.req.size)
                  /\ effect' = [effect EXCEPT ![cur.id] = "running"]
             ELSE pc' = "recv" /\ UNCHANGED <<pkg, effect>>
          /\ UNCHANGED ret
       \/ SendFails /\ Return("SendError") /\ UNCHANGED <<pkg, effect>>
    /\ UNCHANGED <<upVars, cur, result>>

\* The handler's node_package_install awaits next_chunk.  A call with nothing
\* left, or after a failed read, touches nothing and returns at once.
HandlerAwaits ==
    /\ pc = "install" /\ ~pkg.failed /\ pkg.remaining > 0
    /\ pc' = "reading"
    /\ UNCHANGED <<upVars, downVars, cur, pkg, result, ret, effect>>

HandlerReads ==
    /\ pc = "reading"
    /\ ReadChunk
    /\ pc' = "install"
    /\ UNCHANGED <<downVars, cur, result, ret, effect>>

\* Mutant: the unread payload is not drained.
HandlerReturnsUndrained(r) ==
    /\ pc = "install" /\ r \in {"Ok", "Err"}
    /\ pc' = "reply" /\ result' = r
    /\ effect' = [effect EXCEPT ![cur.id] = IF r = "Ok" THEN "ok" ELSE "err"]
    /\ UNCHANGED <<upVars, downVars, cur, pkg, ret>>

\* It returns, whatever it has read and whatever its reads returned.
HandlerReturns(r) ==
    /\ pc = "install" /\ r \in {"Ok", "Err"}
    /\ pc' = "drain" /\ result' = r
    /\ UNCHANGED <<upVars, downVars, cur, pkg, ret, effect>>

DrainChunk ==
    /\ pc = "drain"
    /\ ReadChunk
    /\ UNCHANGED <<downVars, pc, cur, result, ret, effect>>

\* Mutant: a failed drain does not override the handler's Ok.
DrainEndsTrusting ==
    /\ pc = "drain" /\ (pkg.failed \/ pkg.remaining = 0)
    /\ effect' = [effect EXCEPT ![cur.id] = IF result = "Ok" THEN "ok" ELSE "err"]
    /\ pc' = "reply"
    /\ UNCHANGED <<upVars, downVars, cur, pkg, result, ret>>

\* Mutant: drain does not stop on a transfer that has failed.
DrainEndsOnlyWhole ==
    /\ pc = "drain" /\ pkg.remaining = 0
    /\ effect' = [effect EXCEPT ![cur.id] = IF result = "Ok" THEN "ok" ELSE "err"]
    /\ pc' = "reply"
    /\ UNCHANGED <<upVars, downVars, cur, pkg, result, ret>>

\* drain() returns, and the result table of dispatch_node_package.
DrainEnds ==
    /\ pc = "drain" /\ (pkg.failed \/ pkg.remaining = 0)
    /\ result' = IF pkg.failed THEN "Err" ELSE result
    /\ effect' = [effect EXCEPT ![cur.id] =
                      IF result' = "Ok" THEN "ok" ELSE "err"]
    /\ pc' = "reply"
    /\ UNCHANGED <<upVars, downVars, cur, pkg, ret>>

SendReply ==
    /\ pc = "reply"
    /\ \/ SendOk(ReplyFrame(cur.id, "final", result)) /\ pc' = "recv"
          /\ UNCHANGED ret
       \/ SendFails /\ Return("SendError")
    /\ UNCHANGED <<upVars, cur, pkg, result, effect>>

\* The caller of handle drops both halves of the stream (external).
Release ==
    /\ pc = "returned"
    /\ pc' = "released"
    /\ upRecv' = "dropped"
    /\ downEnd' = IF downEnd = "open" THEN "fin" ELSE downEnd
    /\ UNCHANGED <<up, upEnd, down, downRecv, cur, pkg, result, ret, effect>>

\* The task serving the stream is dropped at an await: both halves of the
\* stream go with it, possibly in the middle of a reply (external).
Abort ==
    /\ pc \notin {"accept", "returned", "released"}
    /\ pc' = "released" /\ ret' = "Aborted"
    /\ upRecv' = "dropped"
    /\ downEnd' = IF downEnd = "open" THEN "fin" ELSE downEnd
    /\ \/ UNCHANGED down
       \/ /\ pc \in {"preflight", "reply"} /\ downEnd = "open" /\ downRecv = "held"
          /\ down' = Append(down, ReplyFrame(cur.id, "frag", "Err"))
    /\ UNCHANGED <<up, upEnd, downRecv, cur, pkg, result, effect>>

-----------------------------------------------------------------------------

StreamInit ==
    /\ up = <<>> /\ upEnd = "open" /\ upRecv = "held"
    /\ down = <<>> /\ downEnd = "open" /\ downRecv = "held"
    /\ pc = "accept"
    /\ cur = ReqFrame(0, CHOOSE r \in Requests : TRUE)
    /\ pkg = NewReader(0)
    /\ result = "Ok"
    /\ ret = "none"
    /\ effect = [i \in Ids |-> "none"]

\* What the dispatch code does by itself.
AgentStep ==
    \/ Accept \/ RecvRequest \/ RecvMisaligned \/ RecvEof \/ RecvFails
    \/ HandlerReads \/ DrainChunk \/ DrainEnds \/ SendReply \/ Release

\* What the handler it calls does.
HandlerStep ==
    \/ \E r \in {"Ok", "Err"} : CallReturns(r) \/ HandlerReturns(r)
    \/ \E v \in {"Proceed", "Refusal", "Err"} : Preflight(v)
    \/ HandlerAwaits

AgentNext == AgentStep \/ HandlerStep

StreamTypeOK ==
    /\ up \in Seq(Frame)
    /\ upEnd \in {"open", "fin", "reset", "lost"}
    /\ upRecv \in {"held", "dropped"}
    /\ down \in Seq(Reply)
    /\ downEnd \in {"open", "fin", "lost"}
    /\ downRecv \in {"held", "dropped"}
    /\ pc \in {"accept", "recv", "call", "preflight", "install", "reading", "drain",
               "reply", "returned", "released"}
    /\ cur \in Frame
    /\ pkg \in PackageReader
    /\ result \in {"Ok", "Err"}
    /\ ret \in {"none", "Ok", "RecvError", "SendError", "Aborted"}
    /\ effect \in [Ids -> {"none", "running", "ok", "err"}]
=============================================================================
