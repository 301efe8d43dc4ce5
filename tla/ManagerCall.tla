----------------------------- MODULE ManagerCall -----------------------------
(***************************************************************************)
(* One call of the manager's API on an agent's connection                  *)
(* (src/src/server/api.rs), composed with the agent that serves its        *)
(* stream.  Every call opens a stream of its own, so a call and its stream *)
(* are the whole of their interaction.                                     *)
(*                                                                         *)
(* The call is one of the unary methods (send_request), an immediate       *)
(* node_power (send_request_no_response), node_package or                  *)
(* node_package_install, plain or authorized.  The package source and the  *)
(* caller's decision to drop the call's future are the environment.        *)
(***************************************************************************)
EXTENDS AgentStream

CONSTANTS
    ChunkLen,     \* PACKAGE_CHUNK_LEN
    SourceLens    \* how many bytes the package source may hold

ASSUME ManagerAssumption ==
    /\ ChunkLen \in Nat \ {0}
    /\ SourceLens # {} /\ SourceLens \subseteq Nat

VARIABLES
    mpc,      \* what the manager's call awaits
    api,      \* the entry point called
    req,      \* its request
    authz,    \* "plain", or what the authorizer answers: "allow", "deny"
    src,      \* bytes the package source holds
    sent,     \* bytes of the package written
    outcome   \* what the call returned

managerVars == <<mpc, api, req, authz, src, sent, outcome>>
vars == <<up, upEnd, upRecv, down, downEnd, downRecv,
          pc, cur, pkg, result, ret, effect,
          mpc, api, req, authz, src, sent, outcome>>

Apis == {"send_request", "send_request_no_response", "node_package",
         "node_package_install"}

\* The requests each entry point can be handed: the package methods share a
\* request type, whose variant they check; node_power splits on its variant.
IsPackage(r) == r.code \in {"NodePackage.Unary", "NodePackage.Install"}

Accepts(a, r) ==
    CASE a \in {"node_package", "node_package_install"} -> IsPackage(r)
      [] a = "send_request_no_response" -> r.code = "NodePower.Immediate"
      [] a = "send_request" -> ~IsPackage(r) /\ r.code # "NodePower.Immediate"

\* reject_install and install_size.
VariantAllowed ==
    /\ api = "node_package" => ~IsInstall(req)
    /\ api = "node_package_install" => IsInstall(req)

MaySend == VariantAllowed /\ authz # "deny"

-----------------------------------------------------------------------------
(* How a call ends: its future is done and drops both halves of the stream. *)

DropStreams ==
    /\ upEnd' = IF upEnd = "open" THEN "fin" ELSE upEnd
    /\ downRecv' = "dropped"

Finish(o) ==
    /\ mpc' = "done" /\ outcome' = o
    /\ UNCHANGED <<api, req, authz, src, sent>>

\* recv on the manager's side, as the agent's: a frame, an end, an error.
ReplyReady == down # <<>> /\ Head(down).step # "frag"
ReplyEnds  == ~ReplyReady /\ downEnd \in {"fin", "lost"}

\* A write fails on a lost connection, and may fail once the agent stopped
\* reading; one that goes through then is discarded.
MayWrite(f) ==
    /\ upEnd = "open"
    /\ upRecv = "dropped" \/ Len(up) < Window
    /\ up' = IF upRecv = "dropped" THEN up ELSE Append(up, f)

WriteFails == upEnd = "lost" \/ upRecv = "dropped"

-----------------------------------------------------------------------------

\* The variant check, then the authorizer: refused before open_bi.
RefuseLocally ==
    /\ mpc = "start" /\ ~MaySend
    /\ Finish(IF ~VariantAllowed THEN "Rejected" ELSE "Denied")
    /\ UNCHANGED streamVars

\* open_bi, and the framed request.
SendRequest ==
    /\ mpc = "start"
    /\ MaySend
    /\ MayWrite(ReqFrame(1, req))
    /\ UNCHANGED <<upRecv, down, downEnd, agentVars>>
    /\ \/ /\ api = "send_request_no_response"
          /\ Finish("Sent") /\ DropStreams
       \/ /\ api # "send_request_no_response"
          /\ mpc' = IF api = "node_package_install" THEN "verdict" ELSE "await"
          /\ UNCHANGED <<upEnd, downRecv, api, req, authz, src, sent, outcome>>

SendRequestFails ==
    /\ mpc = "start"
    /\ MaySend
    /\ WriteFails
    /\ Finish("Failed") /\ DropStreams
    /\ UNCHANGED <<up, upRecv, down, downEnd, agentVars>>

\* Mutant: a refusal is taken for leave to proceed.
RecvVerdictDeaf ==
    /\ mpc = "verdict" /\ ReplyReady
    /\ down' = Tail(down)
    /\ mpc' = "stream"
    /\ UNCHANGED <<upEnd, downRecv, api, req, authz, src, sent, outcome>>
    /\ UNCHANGED <<up, upRecv, downEnd, agentVars>>

\* Mutant: the verdict is returned as if it were the response.
RecvVerdictFinal ==
    /\ mpc = "verdict" /\ ReplyReady
    /\ down' = Tail(down)
    /\ Finish(IF Head(down).body = "Proceed" THEN "Ok" ELSE "Failed")
    /\ DropStreams
    /\ UNCHANGED <<up, upRecv, downEnd, agentVars>>

\* The first reply of an install, decoded as its preflight verdict.
RecvVerdict ==
    /\ mpc = "verdict" /\ ReplyReady
    /\ down' = Tail(down)
    /\ \/ /\ Head(down).body = "Proceed"
          /\ mpc' = "stream"
          /\ UNCHANGED <<upEnd, downRecv, api, req, authz, src, sent, outcome>>
       \/ /\ Head(down).body # "Proceed"
          /\ Finish(IF Head(down).body = "Refusal" THEN "Refused" ELSE "Failed")
          /\ DropStreams
    /\ UNCHANGED <<up, upRecv, downEnd, agentVars>>

\* One turn of send_package: a read of the source fills part of what was
\* asked for, and goes out as one chunk.
SendChunk(n) ==
    /\ mpc = "stream" /\ sent < req.size
    /\ n \in 1 .. ChunkLen /\ sent + n <= req.size /\ sent + n <= src
    /\ MayWrite(ChunkFrame(1, req, sent, n))
    /\ sent' = sent + n
    /\ UNCHANGED <<upEnd, upRecv, downVars, agentVars, mpc, api, req, authz,
                   src, outcome>>

PackageSent ==
    /\ mpc = "stream" /\ sent = req.size
    /\ mpc' = "await"
    /\ UNCHANGED <<streamVars, api, req, authz, src, sent, outcome>>

\* The source ends early or fails, or the stream cannot be written: the send
\* side is reset and the response is not awaited.
AbortTransfer ==
    /\ mpc = "stream" /\ sent < req.size
    /\ upEnd' = IF upEnd = "open" THEN "reset" ELSE upEnd
    /\ downRecv' = "dropped"
    /\ Finish("Failed")
    /\ UNCHANGED <<up, upRecv, down, downEnd, agentVars>>

\* Mutant: a source that has ended is read again.
SourceShortRetries ==
    /\ mpc = "stream" /\ sent < req.size /\ sent >= src
    /\ UNCHANGED vars

SourceShort == sent >= src /\ AbortTransfer

SourceFails == AbortTransfer

ChunkFails == WriteFails /\ AbortTransfer

RecvResponse ==
    /\ mpc = "await" /\ ReplyReady
    /\ down' = Tail(down)
    /\ Finish(IF Head(down).body = "Ok" THEN "Ok" ELSE "Failed")
    /\ DropStreams
    /\ UNCHANGED <<up, upRecv, downEnd, agentVars>>

\* Mutant: an early end of the stream is taken for an empty success.
RecvReplyFailsSoftly ==
    /\ mpc \in {"verdict", "await"} /\ ReplyEnds
    /\ Finish("Ok") /\ DropStreams
    /\ UNCHANGED <<up, upRecv, down, downEnd, agentVars>>

RecvReplyFails ==
    /\ mpc \in {"verdict", "await"} /\ ReplyEnds
    /\ Finish("Failed") /\ DropStreams
    /\ UNCHANGED <<up, upRecv, down, downEnd, agentVars>>

\* The caller drops the call's future, perhaps in the middle of a frame.
Cancel ==
    /\ mpc # "done" /\ (mpc = "start" => MaySend)
    /\ Finish("Cancelled") /\ DropStreams
    /\ \/ UNCHANGED up
       \/ /\ mpc = "start" \/ (mpc = "stream" /\ sent < req.size)
          /\ upEnd = "open" /\ upRecv = "held"
          /\ up' = Append(up, FragFrame(1, req, sent))
    /\ UNCHANGED <<upRecv, down, downEnd, agentVars>>

-----------------------------------------------------------------------------

Init ==
    /\ StreamInit
    /\ mpc = "start"
    /\ api \in Apis
    /\ req \in {r \in Requests : Accepts(api, r)}
    /\ authz \in {"plain", "allow", "deny"}
    /\ src \in SourceLens
    /\ sent = 0
    /\ outcome = "none"

ManagerStep ==
    \/ RefuseLocally \/ SendRequest \/ SendRequestFails
    \/ RecvVerdict \/ PackageSent \/ RecvResponse \/ RecvReplyFails
    \/ SourceShort \/ ChunkFails
    \/ \E n \in 1 .. ChunkLen : SendChunk(n)

\* What may go wrong around the call: the connection, the agent's task, the
\* caller's patience, the package source.
Fault ==
    \/ (ConnLost \/ Abort) /\ UNCHANGED managerVars
    \/ Cancel \/ SourceFails

\* A call refused before open_bi, or whose stream was lost before anything
\* arrived, has no stream for the agent to serve.
NoStream == pc = "accept" /\ ~Visible

Finished == mpc = "done" /\ (pc = "released" \/ NoStream)

Terminated == Finished /\ UNCHANGED vars

Next ==
    \/ AgentNext /\ UNCHANGED managerVars
    \/ ManagerStep
    \/ Fault
    \/ Terminated

Spec == Init /\ [][Next]_vars

\* The executors poll every ready task; handlers, and the package source,
\* answer when asked.  Faults are never required to happen.
Fairness ==
    /\ WF_vars(AgentStep /\ UNCHANGED managerVars)
    /\ WF_vars(HandlerStep /\ UNCHANGED managerVars)
    /\ WF_vars(ManagerStep)

FairSpec == Spec /\ Fairness

-----------------------------------------------------------------------------

TypeOK ==
    /\ StreamTypeOK
    /\ mpc \in {"start", "verdict", "stream", "await", "done"}
    /\ api \in Apis
    /\ req \in Requests
    /\ authz \in {"plain", "allow", "deny"}
    /\ src \in Nat
    /\ sent \in Nat
    /\ outcome \in {"none", "Rejected", "Denied", "Sent", "Refused", "Ok",
                    "Failed", "Cancelled"}

\* The PackageReader awaits a chunk.
ReaderWaits ==
    /\ pc = "reading" \/ pc = "drain"
    /\ ~pkg.failed /\ pkg.remaining > 0

\* The dispatch loop and the reader stay on frame boundaries of their own
\* kind: where handle expects a request there is one, and never a piece of a
\* package; where the PackageReader expects a chunk there is one, the next
\* bytes of the package in order, and it never overruns the declared size.
Aligned ==
    /\ pc = "recv" /\ FrameReady => Head(up).kind = "req"
    /\ ReaderWaits /\ FrameReady =>
          /\ Head(up).kind = "chunk"
          /\ Head(up).off = pkg.size - pkg.remaining
          /\ Head(up).len <= pkg.remaining

\* Not one byte of the package leaves the manager before the agent's handler
\* answered Proceed, and none at all after a refusal.
BytesOnlyAfterProceed ==
    /\ sent > 0 => effect[1] # "none"
    /\ outcome = "Refused" => sent = 0 /\ effect[1] = "none"

\* An install the agent counts as applied had its whole package sent and
\* read: a truncated, aborted or cancelled transfer is never reported as Ok,
\* whatever the handler returned.
AppliedMeansWhole ==
    IsInstall(req) /\ effect[1] = "ok" =>
        /\ sent = req.size
        /\ pkg.size = req.size /\ pkg.remaining = 0 /\ ~pkg.failed

\* The manager reports success only for an operation the agent's handler
\* completed successfully.
OkMeansDone == outcome = "Ok" => effect[1] = "ok"

\* Neither side hangs: whatever the package source, the handler, the agent and
\* the connection do, the manager's call returns, and the agent then leaves
\* the stream: it is never parked on bytes that will not come.
CallEnds ==
    /\ <>(mpc = "done")
    /\ (mpc = "done" /\ ~NoStream) ~> (pc = "released" \/ NoStream)

\* handle's documentation: RecvError "if the request could not be received".
\* So a clean return leaves no request frame half received.
CleanReturnMeansNoRequestCut == ret = "Ok" => up = <<>>

-----------------------------------------------------------------------------
(* The inductive invariant behind the safety properties.  `cur.id` tells     *)
(* whether the agent has received the call's request.                        *)

Taken == pkg.size - pkg.remaining

\* The agent is inside a transfer.
Transfer == pc \in {"install", "reading", "drain"}

\* Before the request is received nothing has happened; it is received once.
RequestInv ==
    /\ cur.id \in {0, 1}
    /\ cur.id = 0 =>
          /\ pc \in {"accept", "recv", "returned", "released"}
          /\ effect[1] = "none" /\ down = <<>>
    /\ cur.id = 1 => cur.req = req
    /\ mpc = "start" => cur.id = 0 /\ up = <<>>
    /\ pc = "accept" => cur.id = 0
    /\ pc # "released" => upRecv = "held"

\* What is in flight towards the agent: the request, then pieces of the
\* package, then perhaps a torn frame.
UpInv ==
    /\ \A i \in 1 .. Len(up) :
          /\ up[i].kind = "req" =>
                i = 1 /\ cur.id = 0 /\ up[i].id = 1 /\ up[i].req = req
          /\ up[i].kind = "chunk" => up[i].len > 0
          /\ up[i].kind = "frag" => i = Len(up) /\ upEnd # "open"
          /\ up[i].kind # "req" => up[i].off + up[i].len <= sent
    /\ cur.id = 0 => Len(up) <= 1
    /\ cur.id = 1 /\ effect[1] = "none" => up = <<>>

\* Where the two sides are in the exchange.
ExchangeInv ==
    /\ sent <= req.size
    /\ sent > 0 => effect[1] # "none"
    /\ mpc \in {"verdict", "stream"} => IsInstall(req)
    /\ mpc = "stream" => effect[1] # "none"
    /\ pc = "preflight" => cur.id = 1 /\ IsInstall(req) /\ effect[1] = "none"
    /\ pc = "call" => cur.id = 1 /\ ~IsInstall(req) /\ effect[1] = "running"
    /\ pc = "reply" => cur.id = 1
    /\ Transfer =>
          /\ cur.id = 1 /\ IsInstall(req) /\ effect[1] = "running"
          /\ pkg.size = req.size /\ pkg.remaining <= pkg.size

\* While a transfer is going well, what was taken, what is in flight and what
\* was sent follow each other without a gap.
ContiguousInv ==
    Transfer /\ ~pkg.failed =>
        /\ Taken <= sent
        /\ up # <<>> => up[1].off = Taken
        /\ \A i \in 1 .. Len(up) - 1 : up[i + 1].off = up[i].off + up[i].len
        /\ upEnd = "open" =>
              sent = IF up = <<>> THEN Taken
                     ELSE up[Len(up)].off + up[Len(up)].len

\* Once a transfer has failed, or the request is served, no frame is left to
\* read and none will come.
QuietInv ==
    \/ Transfer /\ pkg.failed
    \/ cur.id = 1 /\ pc \in {"call", "reply", "recv", "returned"}
    => /\ ~FrameReady
       /\ IsInstall(req) /\ effect[1] # "none" /\ upEnd = "open" =>
             sent = req.size

\* What replies say is true.
ReplyInv ==
    /\ pc = "reply" /\ result = "Ok" => effect[1] = "ok"
    /\ \A i \in 1 .. Len(down) :
          /\ down[i].body = "Proceed" => effect[1] # "none"
          /\ down[i].body = "Ok" => effect[1] = "ok"
          /\ down[i].body = "Refusal" => effect[1] = "none"
                 /\ pc \in {"recv", "returned", "released"}
    /\ outcome = "Refused" =>
          /\ cur.id = 1 /\ effect[1] = "none"
          /\ pc \in {"recv", "returned", "released"}

ProtocolInv ==
    /\ RequestInv /\ UpInv /\ ExchangeInv /\ ContiguousInv /\ QuietInv
    /\ ReplyInv /\ AppliedMeansWhole /\ OkMeansDone

IndInv == TypeOK /\ ProtocolInv

-----------------------------------------------------------------------------

\* The call as its caller sees it: at most one execution, success reported
\* only for one that succeeded, and an answer in the end.
Remote == INSTANCE RemoteCall WITH effect <- effect[1], outcome <- outcome

\* install_exchange, send_request and the agent's dispatch implement it.
RemoteCallSpec == Remote!Spec
=============================================================================
