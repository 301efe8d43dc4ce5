---------------------------- MODULE ServerDispatch ----------------------------
(***************************************************************************)
(* Requests in the other direction: an agent calls the manager             *)
(* (src/src/client/api.rs, unary_request of src/src/lib.rs) and the        *)
(* manager's dispatch loops serve the stream behind an authorizer          *)
(* (handle, handle_authorized and handle_authorized_with_context of        *)
(* src/src/server/handler.rs; the two authorized loops are the same code   *)
(* over two authorizer traits).                                            *)
(*                                                                         *)
(* This crate's agent makes one call per stream (MaxRequests = 1).  The    *)
(* loops serve any number of them, as their tests do, and with Pipelined   *)
(* = TRUE the agent does not wait for an answer before its next request.   *)
(* The streams are external, as in AgentStream.                            *)
(***************************************************************************)
EXTENDS Naturals, Sequences

CONSTANTS
    Requests,      \* the requests an agent may send
    MaxRequests,   \* requests are numbered 1..MaxRequests on one stream
    Window,        \* flow control: requests in flight
    Pipelined      \* whether the agent sends ahead of the answers

VARIABLES
    up,        \* request frames written by the agent and not yet read
    upEnd,     \* how that direction ends: "open", "fin", "lost"
    upRecv,    \* the manager's RecvStream: "held" or "dropped"
    down,      \* answers written by the manager and not yet read
    downEnd,   \* how that direction ends: "open", "fin", "lost"
    downRecv,  \* the agent's RecvStream
    entry,     \* the loop the manager runs: "handle" or "handle_authorized"
    pc,        \* what the manager's task awaits
    cur,       \* the request being served
    result,    \* the result about to be sent
    ret,       \* what the loop returned, by what its caller can tell apart
    policy,    \* per request, what the authorizer said (history)
    effect,    \* per request, how far it got on the manager (history)
    next,      \* number of the agent's next request
    outcome    \* per request, what the agent's call returned

upVars     == <<up, upEnd, upRecv>>
downVars   == <<down, downEnd, downRecv>>
serverVars == <<entry, pc, cur, result, ret, policy, effect>>
agentVars  == <<next, outcome>>
vars == <<up, upEnd, upRecv, down, downEnd, downRecv, entry, pc, cur, result,
          ret, policy, effect, next, outcome>>

-----------------------------------------------------------------------------
(* The codes, by the shape of their arm. *)

\* parse_args fails with InvalidArgs, or with the error as it comes.
Classified == {"GetModel", "GetOutliers"}

Plain == {"GetAllowlist", "GetBlocklist", "GetConfig", "GetDataSource",
          "GetIndicator", "GetInternalNetworkList", "GetLabelDbPatterns",
          "GetModelNames", "GetPretrainedModel", "GetSamplingPolicyList",
          "GetTorExitNodeList", "GetTrustedDomainList",
          "GetTrustedUserAgentList", "InsertColumnStatistics",
          "InsertDataSource", "InsertEventLabels", "InsertModel",
          "InsertTimeSeries", "RemoveModel", "ReportActiveRuns",
          "ReportCustomerDataDeletion", "ReportDetectorStatus", "ReportRun",
          "UpdateClusters", "UpdateHostOpenedPorts", "UpdateHostOsAgents",
          "UpdateModel", "UpdateOutliers", "UploadRunModel"}

\* RenewCertificate takes no arguments and does not look at the body.
Handled == Classified \cup Plain \cup {"RenewCertificate"}

\* The `_` arm: what the loop hands back to its caller.
HandedBack == {"GetDataSourceList", "GetMaxEventIdNum", "RemoveOutliers"}

Codes == Handled \cup HandedBack \cup {"Unknown"}

\* from_server_request_code.
HasService(code) == code # "Unknown"

Request == [code : Codes, decodes : BOOLEAN]

Decodable(r) == r.code = "RenewCertificate" \/ r.decodes

ASSUME ServerAssumption ==
    /\ Requests # {} /\ Requests \subseteq Request
    /\ MaxRequests \in Nat \ {0} /\ Window \in Nat \ {0}
    /\ Pipelined \in BOOLEAN

Ids   == 1 .. MaxRequests
\* get_data_source answers Ok with nothing in it for a source it has not.
Results(r) == IF r.code = "GetDataSource" THEN {"Ok", "None", "Err"}
              ELSE {"Ok", "Err"}

-----------------------------------------------------------------------------
(* The stream, external. *)

FrameReady == up # <<>> /\ Head(up).whole
EofReady   == ~FrameReady /\ upEnd = "fin"
ErrReady   == ~FrameReady /\ upEnd = "lost"

ReplyReady == down # <<>> /\ Head(down).whole
ReplyEnds  == ~ReplyReady /\ downEnd # "open"

SendOk(b) ==
    /\ downEnd = "open"
    /\ down' = IF downRecv = "dropped" THEN down
               ELSE Append(down, [whole |-> TRUE, id |-> cur.id, body |-> b])
    /\ UNCHANGED <<downEnd, downRecv>>

SendFails ==
    /\ downEnd = "lost" \/ downRecv = "dropped"
    /\ UNCHANGED downVars

Cut(q, q2, end, end2) ==
    \E k \in 0 .. Len(q) :
        /\ q2 = SubSeq(q, 1, k)
        /\ end2 \in IF k = Len(q) /\ end # "open" THEN {end, "lost"}
                    ELSE {"lost"}

ConnLost ==
    /\ upEnd # "lost" /\ downEnd # "lost"
    /\ Cut(up, up', upEnd, upEnd')
    /\ Cut(down, down', downEnd, downEnd')
    /\ UNCHANGED <<upRecv, downRecv, serverVars, agentVars>>

-----------------------------------------------------------------------------
(* The manager's loop. *)

Return(r) == pc' = "returned" /\ ret' = r

RecvRequest ==
    /\ pc = "recv" /\ FrameReady
    /\ up' = Tail(up) /\ cur' = Head(up)
    /\ pc' = "authorize"
    /\ UNCHANGED <<upEnd, upRecv, downVars, entry, result, ret, policy,
                   effect, agentVars>>

\* An early end, even inside a frame, ends the loop with Ok(None).
RecvEof ==
    /\ pc = "recv" /\ EofReady
    /\ Return("None")
    /\ UNCHANGED <<upVars, downVars, entry, cur, result, policy, effect,
                   agentVars>>

RecvFails ==
    /\ pc = "recv" /\ ErrReady
    /\ Return("IoError")
    /\ UNCHANGED <<upVars, downVars, entry, cur, result, policy, effect,
                   agentVars>>

\* The authorizer is asked about the code's service, before the arguments are
\* looked at.  handle asks the NoopAuthorizer, which allows everything.
Verdict(r, v) ==
    IF HasService(r.code) /\ entry = "handle_authorized"
    THEN v \in {"allow", "deny"} ELSE v = "allow"

\* Mutant: the authorizer is only asked about what the loop handles itself.
AuthorizeHandledOnly(v) ==
    /\ pc = "authorize" /\ Verdict(cur.req, v)
    /\ policy' = [policy EXCEPT ![cur.id] = v]
    /\ pc' = IF v = "deny" /\ cur.req.code \in Handled THEN "deny" ELSE "dispatch"
    /\ UNCHANGED <<upVars, downVars, entry, cur, result, ret, effect, agentVars>>

Authorize(v) ==
    /\ pc = "authorize" /\ Verdict(cur.req, v)
    /\ policy' = [policy EXCEPT ![cur.id] = v]
    /\ pc' = IF v = "deny" THEN "deny" ELSE "dispatch"
    /\ UNCHANGED <<upVars, downVars, entry, cur, result, ret, effect, agentVars>>

\* A denial is answered and ends the loop; if it cannot be answered, the
\* error of the write is what is returned.
SendDenial ==
    /\ pc = "deny"
    /\ \/ SendOk("Err") /\ Return("Forbidden")
       \/ SendFails /\ Return("IoError")
    /\ UNCHANGED <<upVars, entry, cur, result, policy, effect, agentVars>>

\* Mutant: a request the loop does not know is skipped.
DispatchSkips ==
    /\ pc = "dispatch"
    /\ \/ /\ cur.req.code \in Handled /\ ~Decodable(cur.req)
          /\ pc' = "recv" /\ UNCHANGED <<ret, effect>>
       \/ /\ cur.req.code \in Handled /\ Decodable(cur.req)
          /\ pc' = "call" /\ effect' = [effect EXCEPT ![cur.id] = "running"]
          /\ UNCHANGED ret
       \/ /\ cur.req.code = "Unknown"
          /\ pc' = "recv" /\ UNCHANGED <<ret, effect>>
       \/ /\ cur.req.code \in HandedBack
          /\ Return("Some") /\ UNCHANGED effect
    /\ UNCHANGED <<upVars, downVars, entry, cur, result, policy, agentVars>>

\* The arm: arguments that do not parse end the loop without an answer, and
\* so does a code the loop does not handle, whose request is handed back.
Dispatch ==
    /\ pc = "dispatch"
    /\ \/ /\ cur.req.code \in Handled /\ ~Decodable(cur.req)
          /\ Return(IF cur.req.code \in Classified THEN "InvalidArgs"
                    ELSE "IoError")
          /\ UNCHANGED effect
       \/ /\ cur.req.code \in Handled /\ Decodable(cur.req)
          /\ pc' = "call" /\ effect' = [effect EXCEPT ![cur.id] = "running"]
          /\ UNCHANGED ret
       \/ /\ cur.req.code = "Unknown"
          /\ pc' = "unknown" /\ UNCHANGED <<ret, effect>>
       \/ /\ cur.req.code \in HandedBack
          /\ Return("Some") /\ UNCHANGED effect
    /\ UNCHANGED <<upVars, downVars, entry, cur, result, policy, agentVars>>

\* The handler's method returns.
HandlerReturns(r) ==
    /\ pc = "call" /\ r \in Results(cur.req)
    /\ effect' = [effect EXCEPT ![cur.id] = IF r = "Err" THEN "err" ELSE "ok"]
    /\ pc' = "reply" /\ result' = r
    /\ UNCHANGED <<upVars, downVars, entry, cur, ret, policy, agentVars>>

\* Mutant: a request whose answer cannot be written is dispatched again.
SendReplyRetries ==
    /\ pc = "reply"
    /\ \/ SendOk(result) /\ pc' = "recv"
       \/ SendFails /\ pc' = "dispatch"
    /\ UNCHANGED <<upVars, entry, cur, result, ret, policy, effect, agentVars>>

SendReply ==
    /\ pc = "reply"
    /\ \/ SendOk(result) /\ pc' = "recv" /\ UNCHANGED ret
       \/ SendFails /\ Return("IoError")
    /\ UNCHANGED <<upVars, entry, cur, result, policy, effect, agentVars>>

SendUnknown ==
    /\ pc = "unknown"
    /\ \/ SendOk("Err") /\ Return("NotSupported")
       \/ SendFails /\ Return("IoError")
    /\ UNCHANGED <<upVars, entry, cur, result, policy, effect, agentVars>>

\* The caller serves a request handed back to it and answers on the stream,
\* and then calls the loop again or is done with the stream (external).
CallerServes(r) ==
    /\ pc = "returned" /\ ret = "Some" /\ r \in {"Ok", "Err"}
    /\ effect[cur.id] = "none"
    /\ effect' = [effect EXCEPT ![cur.id] = IF r = "Err" THEN "err" ELSE "ok"]
    /\ pc' = "reply" /\ result' = r /\ ret' = "none"
    /\ UNCHANGED <<upVars, downVars, entry, cur, policy, agentVars>>

\* The caller is done and drops both halves of the stream (external).
Drop ==
    /\ upRecv' = "dropped"
    /\ downEnd' = IF downEnd = "open" THEN "fin" ELSE downEnd
    /\ pc' = "released"

Release ==
    /\ pc = "returned"
    /\ Drop
    /\ UNCHANGED <<up, upEnd, down, downRecv, entry, cur, result, ret, policy,
                   effect, agentVars>>

\* The manager's task is dropped at an await, perhaps inside an answer
\* (external).
Abort ==
    /\ pc \in {"recv", "deny", "call", "reply", "unknown"}
    /\ Drop /\ ret' = "Aborted"
    /\ \/ UNCHANGED down
       \/ /\ pc \in {"deny", "reply", "unknown"}
          /\ downEnd = "open" /\ downRecv = "held"
          /\ down' = Append(down, [whole |-> FALSE, id |-> cur.id, body |-> "Err"])
    /\ UNCHANGED <<up, upEnd, downRecv, entry, cur, result, policy, effect,
                   agentVars>>

-----------------------------------------------------------------------------
(* The agent's calls. *)

Open(i) == i < next /\ outcome[i] = "none"

AllAnswered == \A i \in Ids : ~Open(i)

\* The call whose answer comes next.
FirstOpen == CHOOSE i \in Ids : Open(i) /\ \A j \in 1 .. i - 1 : ~Open(j)

\* The stream a failed or finished call leaves is dropped with it.
DropStream ==
    /\ upEnd' = IF upEnd = "open" THEN "fin" ELSE upEnd
    /\ downRecv' = "dropped"

CanCall == next \in Ids /\ upEnd # "fin" /\ downRecv = "held"
              /\ (AllAnswered \/ Pipelined)

\* unary_request: the request is framed and sent ...
SendRequest(r) ==
    /\ CanCall /\ upEnd = "open"
    /\ upRecv = "dropped" \/ Len(up) < Window
    /\ up' = IF upRecv = "dropped" THEN up
             ELSE Append(up, [whole |-> TRUE, id |-> next, req |-> r])
    /\ next' = next + 1
    /\ UNCHANGED <<upEnd, upRecv, downVars, serverVars, outcome>>

SendRequestFails ==
    /\ CanCall /\ (upEnd = "lost" \/ upRecv = "dropped")
    /\ next' = next + 1
    /\ outcome' = [i \in Ids |-> IF i = next \/ Open(i) THEN "Failed" ELSE outcome[i]]
    /\ DropStream
    /\ UNCHANGED <<up, upRecv, down, downEnd, serverVars>>

\* What an answer makes of the call.
CallResult(b) ==
    CASE b = "Ok" -> "Ok" [] b = "None" -> "NotFound" [] b = "Err" -> "Failed"

\* ... and one frame is received as its answer.
RecvResponse ==
    /\ ~AllAnswered /\ ReplyReady /\ downRecv = "held"
    /\ down' = Tail(down)
    /\ outcome' = [outcome EXCEPT ![FirstOpen] = CallResult(Head(down).body)]
    /\ UNCHANGED <<upVars, downEnd, downRecv, serverVars, next>>

\* Mutant: an early end of the stream is taken for an empty success.
RecvResponseFailsSoftly ==
    /\ ~AllAnswered /\ ReplyEnds /\ downRecv = "held"
    /\ outcome' = [i \in Ids |-> IF Open(i) THEN "Ok" ELSE outcome[i]]
    /\ DropStream
    /\ UNCHANGED <<up, upRecv, down, downEnd, serverVars, next>>

\* Mutant: an early end of the stream leaves the call waiting.
RecvResponseFailsOnlyLost ==
    /\ ~AllAnswered /\ ~ReplyReady /\ downEnd = "lost" /\ downRecv = "held"
    /\ outcome' = [i \in Ids |-> IF Open(i) THEN "Failed" ELSE outcome[i]]
    /\ DropStream
    /\ UNCHANGED <<up, upRecv, down, downEnd, serverVars, next>>

RecvResponseFails ==
    /\ ~AllAnswered /\ ReplyEnds /\ downRecv = "held"
    /\ outcome' = [i \in Ids |-> IF Open(i) THEN "Failed" ELSE outcome[i]]
    /\ DropStream
    /\ UNCHANGED <<up, upRecv, down, downEnd, serverVars, next>>

\* A finished call drops its stream.
Close ==
    /\ next > 1 /\ AllAnswered /\ downRecv = "held"
    /\ DropStream
    /\ UNCHANGED <<up, upRecv, down, downEnd, serverVars, agentVars>>

\* The caller drops the future, perhaps inside the request.
Cancel ==
    /\ downRecv = "held"
    /\ outcome' = [i \in Ids |-> IF Open(i) THEN "Cancelled" ELSE outcome[i]]
    /\ DropStream
    /\ \/ UNCHANGED up
       \/ /\ upEnd = "open" /\ upRecv = "held" /\ next \in Ids
          /\ \E r \in Requests :
                up' = Append(up, [whole |-> FALSE, id |-> next, req |-> r])
    /\ UNCHANGED <<upRecv, down, downEnd, serverVars, next>>

-----------------------------------------------------------------------------

Init ==
    /\ up = <<>> /\ upEnd = "open" /\ upRecv = "held"
    /\ down = <<>> /\ downEnd = "open" /\ downRecv = "held"
    /\ entry \in {"handle", "handle_authorized"}
    /\ pc = "recv"
    /\ cur = [whole |-> FALSE, id |-> 1, req |-> CHOOSE r \in Requests : TRUE]
    /\ result = "Ok" /\ ret = "none"
    /\ policy = [i \in Ids |-> "none"] /\ effect = [i \in Ids |-> "none"]
    /\ next = 1 /\ outcome = [i \in Ids |-> "none"]

ServerStep ==
    \/ RecvRequest \/ RecvEof \/ RecvFails
    \/ \E v \in {"allow", "deny"} : Authorize(v)
    \/ SendDenial \/ Dispatch \/ SendReply \/ SendUnknown \/ Release
    \/ \E r \in {"Ok", "None", "Err"} : HandlerReturns(r)

Serve == ServerStep \/ \E r \in {"Ok", "Err"} : CallerServes(r)

AgentStep == RecvResponse \/ RecvResponseFails

NewCall == SendRequestFails \/ \E r \in Requests : SendRequest(r)

Fault == ConnLost \/ Abort \/ Cancel

Over == pc = "released" /\ UNCHANGED vars

Next == Serve \/ AgentStep \/ NewCall \/ Close \/ Fault \/ Over

Spec == Init /\ [][Next]_vars

\* The executors poll every ready task and the handler answers; whether the
\* agent makes a call, or drops a stream, is its caller's business.
FairSpec == Spec /\ WF_vars(ServerStep) /\ WF_vars(AgentStep)

-----------------------------------------------------------------------------

\* Nothing is done for a request the authorizer denied, by the loop's handler
\* or by the caller a request is handed back to; and a denial ends the
\* stream, so that nothing the agent had sent ahead is served either.
DeniedNeverServed ==
    \A i \in Ids : policy[i] = "deny" =>
        \A j \in i .. MaxRequests : effect[j] = "none"

\* Answers carry no request number: the agent's oldest open call takes the
\* first answer.  It is always that call's own.
AnswersMatch ==
    ~AllAnswered /\ ReplyReady /\ downRecv = "held" =>
        Head(down).id = FirstOpen

\* A call reports success only for a request the manager was allowed to serve
\* and served, and NotFound only from a get_data_source that ran.
OkMeansServed ==
    \A i \in Ids :
        outcome[i] \in {"Ok", "NotFound"} => policy[i] = "allow" /\ effect[i] = "ok"

\* A call of the agent's as its caller sees it; that there is no such data
\* source is a success with nothing in it.
Call(i) == INSTANCE RemoteCall WITH
    effect  <- effect[i],
    outcome <- IF outcome[i] = "NotFound" THEN "Ok" ELSE outcome[i]

\* Every call on the stream is a remote call like the manager's, whatever is
\* sent ahead of it, handed back or lost: the manager runs it at most once,
\* its outcome is reported once and for good, and Ok only after the manager
\* was done with it.  CallsEnd has the fairness.
RemoteCalls ==
    /\ \A i \in Ids : Call(i)!Init
    /\ [][\A i \in Ids : [Call(i)!Next]_(Call(i)!callVars)]_vars

\* Neither side hangs: a call that was made returns, though the manager leaves
\* arguments it cannot parse without an answer, and once the agent's side of
\* the stream is over the manager leaves it.
CallsEnd ==
    /\ ~AllAnswered ~> AllAnswered
    /\ upEnd # "open" ~> pc = "released"
=============================================================================
