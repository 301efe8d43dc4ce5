------------------------------ MODULE PeerStream ------------------------------
(***************************************************************************)
(* The agent's dispatch loop over a stream that carries several requests.  *)
(* The loop promises to resume on the next request frame after each one,   *)
(* and its peer may send the next request without waiting for the answer   *)
(* to the last; only an install's payload has to wait for the verdict.     *)
(* The peer is external: it is what the tests of src/src/request.rs do on  *)
(* a raw stream, which this crate's own manager never does.                *)
(* It keeps to the contract of a transfer, except that it may overrun the  *)
(* last one: what the loop makes of leftovers is bounded by that.          *)
(***************************************************************************)
EXTENDS AgentStream

CONSTANTS
    MaxEmpty    \* bound on the zero-length chunks sent

ASSUME PeerAssumption == MaxEmpty \in Nat

VARIABLES
    ppc,       \* "ready" for a request, awaiting a "verdict", in a "payload"
    next,      \* number of the next request
    inst,      \* the install being sent: [id, req]
    given,     \* bytes of its payload sent
    empties,   \* zero-length chunks sent
    due,       \* numbers of the requests whose answer is still due, in order
    answered,  \* numbers of the requests whose last answer was read (history)
    deviated   \* the peer overran a transfer

peerVars == <<ppc, next, inst, given, empties, due, answered, deviated>>
vars == <<up, upEnd, upRecv, down, downEnd, downRecv,
          pc, cur, pkg, result, ret, effect,
          ppc, next, inst, given, empties, due, answered, deviated>>

-----------------------------------------------------------------------------

CanWrite == upEnd = "open" /\ upRecv = "held" /\ Len(up) < Window

Write(f) ==
    /\ CanWrite
    /\ up' = Append(up, f)
    /\ UNCHANGED <<upEnd, upRecv, downVars, agentVars>>

PeerRequest(r) ==
    /\ ppc = "ready" /\ next <= MaxRequests
    /\ Write(ReqFrame(next, r))
    /\ next' = next + 1
    /\ due' = IF ExpectsResponse(r) THEN Append(due, next) ELSE due
    /\ IF IsInstall(r)
       THEN ppc' = "verdict" /\ inst' = [id |-> next, req |-> r]
       ELSE UNCHANGED <<ppc, inst>>
    /\ given' = 0
    /\ UNCHANGED <<empties, answered, deviated>>

PeerChunk(n) ==
    /\ ppc = "payload" /\ given < inst.req.size
    /\ n = 0 => empties < MaxEmpty
    /\ given + n <= inst.req.size
    /\ Write(ChunkFrame(inst.id, inst.req, given, n))
    /\ given' = given + n
    /\ empties' = IF n = 0 THEN empties + 1 ELSE empties
    /\ UNCHANGED <<ppc, next, inst, due, answered, deviated>>

PeerPayloadDone ==
    /\ ppc = "payload" /\ given = inst.req.size
    /\ ppc' = "ready"
    /\ UNCHANGED <<streamVars, next, inst, given, empties, due, answered,
                   deviated>>

\* One byte too many in the last request's transfer, within a chunk or
\* behind it.
PeerOverruns ==
    /\ ppc = "payload" /\ next > MaxRequests
    /\ Write(ChunkFrame(inst.id, inst.req, given, inst.req.size - given + 1))
    /\ ppc' = "ready" /\ deviated' = TRUE
    /\ UNCHANGED <<next, inst, given, empties, due, answered>>

\* Every answer but a Proceed is the last one to its request.
Terminal(r) == r.step = "final" \/ (r.step = "verdict" /\ r.body # "Proceed")

\* Answers carry no request number: the peer counts them off against what is
\* due.  A verdict of Proceed leaves the install's final answer due.
PeerReads ==
    /\ down # <<>> /\ Head(down).step # "frag" /\ downRecv = "held"
    /\ down' = Tail(down)
    /\ answered' = IF Terminal(Head(down)) THEN answered \cup {Head(down).id}
                   ELSE answered
    /\ IF ppc = "verdict" /\ due # <<>> /\ Head(due) = inst.id
       THEN IF Head(down).body = "Proceed"
            THEN ppc' = "payload" /\ UNCHANGED due
            ELSE ppc' = "ready" /\ due' = Tail(due)
       ELSE /\ due' = IF due = <<>> THEN due ELSE Tail(due)
            /\ UNCHANGED ppc
    /\ UNCHANGED <<upVars, downEnd, downRecv, agentVars, next, inst, given,
                   empties, deviated>>

PeerFinishes ==
    /\ upEnd = "open"
    /\ upEnd' = "fin"
    /\ UNCHANGED <<up, upRecv, downVars, agentVars, peerVars>>

\* The peer goes away, perhaps in the middle of a frame.
PeerDrops ==
    /\ upEnd = "open"
    /\ upEnd' \in {"fin", "reset"} /\ downRecv' = "dropped"
    /\ \/ UNCHANGED up
       \/ up' = Append(up, FragFrame(inst.id, inst.req, given))
    /\ UNCHANGED <<upRecv, down, downEnd, agentVars, peerVars>>

-----------------------------------------------------------------------------

Init ==
    /\ StreamInit
    /\ ppc = "ready" /\ next = 1
    /\ inst = [id |-> 0, req |-> cur.req]
    /\ given = 0 /\ empties = 0
    /\ due = <<>> /\ answered = {} /\ deviated = FALSE

PeerStep ==
    \/ \E r \in Requests : PeerRequest(r)
    \/ \E n \in 0 .. inst.req.size : PeerChunk(n)
    \/ PeerPayloadDone \/ PeerOverruns \/ PeerFinishes

\* The agent's task may be dropped.  The loss of the connection is left to
\* ManagerCall: what the loop reads is cut short there in the same way.
Fault == Abort /\ UNCHANGED peerVars

Over == pc = "released"

Next ==
    \/ AgentNext /\ UNCHANGED peerVars
    \/ PeerStep \/ PeerReads \/ PeerDrops
    \/ Fault
    \/ Over /\ UNCHANGED vars

Spec == Init /\ [][Next]_vars

\* The agent is polled and its handler answers; the peer, if it goes on at
\* all, owes nothing but to read what it is sent.
Fairness ==
    /\ WF_vars(AgentStep /\ UNCHANGED peerVars)
    /\ WF_vars(HandlerStep /\ UNCHANGED peerVars)
    /\ WF_vars(PeerReads)

FairSpec == Spec /\ Fairness

-----------------------------------------------------------------------------

ReaderWaits ==
    /\ pc = "reading" \/ pc = "drain"
    /\ ~pkg.failed /\ pkg.remaining > 0

\* With a peer that keeps to the contract, handle resumes on a request frame
\* after every request, a drained install included, and the PackageReader
\* meets only chunks of its own install, in order.
LoopAligned ==
    ~deviated /\ FrameReady =>
        /\ pc = "recv" => Head(up).kind = "req"
        /\ ReaderWaits =>
              /\ Head(up).kind = "chunk" /\ Head(up).id = cur.id
              /\ Head(up).off = pkg.size - pkg.remaining

\* Counting answers off attributes no success to the wrong request: an answer
\* that is not an error belongs to the request whose answer is due first.
OkAnswersInOrder ==
    ~deviated /\ downRecv = "held" /\ down # <<>>
    /\ Head(down).step # "frag" /\ Head(down).body # "Err" =>
        /\ due # <<>> /\ Head(due) = Head(down).id
        /\ ppc = "verdict" /\ inst.id = Head(due) <=>
              Head(down).step = "verdict"

\* No request gets a second final answer, whatever the peer sent: a failed
\* transfer is answered once, and what the loop reads after it is another
\* request, or none.
AnsweredOnce ==
    \A i \in 1 .. Len(down) :
        Terminal(down[i]) /\ down[i].id # 0 =>
            /\ down[i].id \notin answered
            /\ \A j \in 1 .. Len(down) :
                  Terminal(down[j]) /\ down[j].id = down[i].id => j = i

\* Every answer that is due comes, as long as the stream lives, the peer reads
\* and no transfer was overrun; the final answer of an install waits for its
\* payload.
AnswersCome ==
    due # <<>> ~>
        due = <<>> \/ ppc = "payload" \/ deviated \/ downRecv = "dropped" \/ Over

\* When the peer's side of the stream is over, so is the agent's: no
\* overrun or unfinished transfer keeps handle waiting.
AgentLeaves == upEnd # "open" ~> Over
=============================================================================
