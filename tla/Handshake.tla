------------------------------ MODULE Handshake ------------------------------
(***************************************************************************)
(* The handshake that opens a connection: ConnectionBuilder::connect on    *)
(* the agent (src/src/client.rs), server::handshake on the manager         *)
(* (src/src/server.rs) and the conditional decode of AgentInfo's tail      *)
(* (src/src/lib.rs).                                                       *)
(*                                                                         *)
(* The two ends may be built from different releases: `sends` is how many  *)
(* tail fields the agent's build writes, from none (an old build) to one   *)
(* more than this release knows.  A peer that is not this crate may write  *)
(* a frame that does not decode.                                           *)
(***************************************************************************)
EXTENDS Naturals, Sequences

CONSTANTS
    Values,      \* readings a tail field may carry
    Unknown,     \* the reading of a field that was not reported
    MaxVersion,  \* releases are numbered 0..MaxVersion
    Builds       \* how many tail fields the agents' builds write

\* The tail of AgentInfo, in wire order.
TailFields == <<"capabilities", "active_trust_epoch", "manifest_formats",
                "provisioning_fingerprint", "audit_health">>
TailLen == Len(TailFields)

ASSUME HandshakeAssumption ==
    /\ Unknown \notin Values /\ MaxVersion \in Nat
    /\ Builds \subseteq 0 .. TailLen + 1

\* A version string: if it is semver, its precedence and whether it carries
\* build metadata.
Version == [semver : BOOLEAN, num : 0 .. MaxVersion, build : {0, 1}]

\* A requirement needs its precedence only.
Arguments == [semver : BOOLEAN, floor : 0 .. MaxVersion, ceiling : Version]

VARIABLES
    config,    \* the builder's tail settings, by position
    version,   \* the builder's protocol_version
    sends,     \* tail fields the agent's build writes
    badField,  \* position of a field that does not decode, 0 for the base
    args,      \* the manager's arguments: floor, ceiling, or not semver
    apc,       \* the agent's connect
    mpc,       \* the manager's handshake
    frame,     \* the AgentInfo frame in flight
    answer,    \* the answer in flight
    conn,      \* "up", or "down": lost, or closed by an endpoint
    mdropped,  \* the manager has dropped its handshake stream
    mres,      \* what server::handshake returned
    info       \* the AgentInfo it returned

agentVars   == <<config, version, sends, badField, apc>>
managerVars == <<args, mpc, mdropped, mres, info>>
vars == <<config, version, sends, badField, args, apc, mpc, frame, answer,
          conn, mdropped, mres, info>>

NoFrame == [sent |-> FALSE]
NoInfo  == [tail |-> <<>>, addr |-> "none",
            version |-> [semver |-> FALSE, num |-> 0, build |-> 0]]
Good    == TailLen + 2    \* badField of a frame that decodes throughout

-----------------------------------------------------------------------------
(* semver, external: a requirement compares precedence only, while the order *)
(* on versions also orders build metadata.                                   *)

Matches(req, v) == v.num >= req

AtMost(v, h) == v.num < h.num \/ (v.num = h.num /\ v.build <= h.build)

-----------------------------------------------------------------------------
(* The agent. *)

\* A setter of the builder: each replaces what was set before.
Configure(k, v) ==
    /\ apc = "build"
    /\ config' = [config EXCEPT ![k] = v]
    /\ UNCHANGED <<version, sends, badField, managerVars, apc, frame, answer,
                   conn>>

\* connect: the QUIC connection is there, the frame goes out on a new stream.
\* The address it carries is a placeholder.
SendInfo ==
    /\ apc = "build" /\ conn = "up"
    /\ apc' = "wait"
    /\ frame' = [sent |-> TRUE, version |-> version, bad |-> badField,
                 addr |-> "placeholder",
                 tail |-> [k \in 1 .. sends |->
                              IF k <= TailLen THEN config[k] ELSE Unknown]]
    /\ UNCHANGED <<config, version, sends, badField, managerVars, answer, conn>>

\* A refused agent drops its endpoint, and the connection with it.
RecvAnswer ==
    /\ apc = "wait" /\ answer # "none"
    /\ IF answer = "Ok" THEN apc' = "connected" /\ UNCHANGED conn
                        ELSE apc' = "refused" /\ conn' = "down"
    /\ UNCHANGED <<config, version, sends, badField, managerVars, frame, answer>>

\* Mutant: only the loss of the connection is noticed.
ConnectFailsOnlyLost ==
    /\ apc \in {"build", "wait"} /\ conn = "down"
    /\ apc' = "failed"
    /\ UNCHANGED <<config, version, sends, badField, managerVars, frame,
                   answer, conn>>

\* The stream ends without an answer, or the connection does.
ConnectFails ==
    /\ \/ apc = "wait" /\ answer = "none" /\ (mdropped \/ conn = "down")
       \/ apc = "build" /\ conn = "down"
    /\ apc' = "failed" /\ conn' = "down"
    /\ UNCHANGED <<config, version, sends, badField, managerVars, frame, answer>>

\* The caller drops the future: the endpoint and the connection go with it.
Cancel ==
    /\ apc \in {"build", "wait"}
    /\ apc' = "failed" /\ conn' = "down"
    /\ frame' \in (IF mpc \in {"start", "recv"} THEN {frame, NoFrame} ELSE {frame})
    /\ UNCHANGED <<config, version, sends, badField, managerVars, answer>>

-----------------------------------------------------------------------------
(* The manager. *)

Return(r) == mpc' = "returned" /\ mres' = r

\* Mutant: only the base has to decode.
DecodesBaseOnly(f) == f.bad # 0

\* decode_agent_info: Unknown for every field behind the end of the frame, an
\* error for the first one that is there and does not decode.  Bytes behind
\* the last field this release knows are not looked at.
Decodes(f) ==
    f.bad # 0 /\ \A k \in 1 .. TailLen : k <= Len(f.tail) => k # f.bad

\* Mutant: a field that ends the frame is read as absent.
DecodeTailShort(f) ==
    [k \in 1 .. TailLen |-> IF k < Len(f.tail) THEN f.tail[k] ELSE Unknown]

DecodeTail(f) ==
    [k \in 1 .. TailLen |-> IF k <= Len(f.tail) THEN f.tail[k] ELSE Unknown]

\* Both arguments are parsed before the stream is accepted; a bad one leaves
\* the agent's stream, and the connection, as they are.
CheckArguments ==
    /\ mpc = "start"
    /\ IF ~args.semver
       THEN Return("InvalidVersionArgument")
       ELSE mpc' = "recv" /\ UNCHANGED mres
    /\ UNCHANGED <<agentVars, args, mdropped, info, frame, answer, conn>>

\* Mutant: the ceiling is not looked at.
AcceptsNoCeiling(v) == v.semver /\ Matches(args.floor, v)

Accepts(v) ==
    /\ v.semver
    /\ Matches(args.floor, v) /\ AtMost(v, args.ceiling)

\* The frame is received and decoded, and the version checked.
RecvInfo ==
    /\ mpc = "recv" /\ frame.sent
    /\ \/ /\ ~Decodes(frame)
          /\ Return("InvalidMessage") /\ mdropped' = TRUE
          /\ UNCHANGED info
       \/ /\ Decodes(frame)
          /\ info' = [tail |-> DecodeTail(frame), version |-> frame.version,
                      addr |-> "peer"]
          /\ mpc' = IF Accepts(frame.version) THEN "accept" ELSE "refuse"
          /\ UNCHANGED <<mdropped, mres>>
    /\ UNCHANGED <<agentVars, args, frame, answer, conn>>

RecvInfoFails ==
    /\ mpc = "recv" /\ ~frame.sent /\ conn = "down"
    /\ \E e \in {"ConnectionLost", "ConnectionClosed", "ReadError"} : Return(e)
    /\ mdropped' = TRUE
    /\ UNCHANGED <<agentVars, args, info, frame, answer, conn>>

\* The answer is written and the stream dropped, with the answer on it.
SendAnswer ==
    /\ mpc \in {"accept", "refuse"} /\ conn = "up"
    /\ answer' = IF mpc = "accept" THEN "Ok" ELSE "Err"
    /\ Return(IF mpc = "accept" THEN "Ok" ELSE "IncompatibleProtocol")
    /\ mdropped' = TRUE
    /\ UNCHANGED <<agentVars, args, info, frame, conn>>

SendAnswerFails ==
    /\ mpc \in {"accept", "refuse"} /\ conn = "down"
    /\ Return("WriteError") /\ mdropped' = TRUE
    /\ UNCHANGED <<agentVars, args, info, frame, answer, conn>>

-----------------------------------------------------------------------------
(* The network, and the manager's caller, who may close a connection that   *)
(* came to nothing.  The agent keeps it alive, so it does not time out.      *)

ConnLost ==
    /\ conn = "up" /\ conn' = "down"
    /\ answer' \in {answer, "none"}
    /\ frame' \in (IF mpc \in {"start", "recv"} THEN {frame, NoFrame} ELSE {frame})
    /\ UNCHANGED <<agentVars, managerVars>>

ManagerCloses ==
    /\ mpc = "returned" /\ mres # "Ok" /\ conn = "up"
    /\ conn' = "down"
    /\ answer' \in {answer, "none"}
    /\ UNCHANGED <<agentVars, managerVars, frame>>

-----------------------------------------------------------------------------

Init ==
    /\ config = [k \in 1 .. TailLen |-> Unknown]
    /\ version \in {v \in Version : v.semver \/ v.num + v.build = 0}
    /\ sends \in Builds
    /\ badField \in (0 .. sends) \cup {Good}
    /\ args \in {a \in Arguments : a.ceiling.semver
                    /\ (a.semver \/ a.floor + a.ceiling.num + a.ceiling.build = 0)}
    /\ apc = "build" /\ mpc = "start"
    /\ frame = NoFrame /\ answer = "none" /\ conn = "up"
    /\ mdropped = FALSE /\ mres = "none" /\ info = NoInfo

Connect == SendInfo \/ RecvAnswer \/ ConnectFails

Manage ==
    \/ CheckArguments \/ RecvInfo \/ RecvInfoFails
    \/ SendAnswer \/ SendAnswerFails

Done == apc \in {"connected", "refused", "failed"}

Next ==
    \/ \E k \in 1 .. TailLen, v \in Values : Configure(k, v)
    \/ Connect \/ Cancel \/ Manage \/ ConnLost \/ ManagerCloses
    \/ (mpc = "returned" /\ apc # "build") /\ UNCHANGED vars

Spec == Init /\ [][Next]_vars

FairSpec == Spec /\ WF_vars(Connect) /\ WF_vars(Manage)

-----------------------------------------------------------------------------

\* The two ends agree.  An agent that holds a Connection was accepted: the
\* manager's handshake returned its AgentInfo, and the version it advertised
\* lies in the window from both sides.  One that is told it was refused was.
ConnectedMeansAccepted ==
    /\ apc = "connected" =>
          /\ mres = "Ok" /\ info.version = version
          /\ Matches(args.floor, version) /\ version.num <= args.ceiling.num
    /\ apc = "refused" => mres = "IncompatibleProtocol"

\* The manager reads of an agent exactly what that agent's builder was set to
\* and its build can say; everything else is Unknown, never another field's
\* reading, and the placeholder address is never kept.
InfoTruthful ==
    mres = "Ok" =>
        /\ info.addr = "peer"
        /\ \A k \in 1 .. TailLen :
              info.tail[k] = IF k <= sends THEN config[k] ELSE Unknown

\* A tail that is there and does not decode is never taken for one that is
\* not there: such an agent is not accepted.
CorruptNeverAccepted == mres = "Ok" => badField > TailLen

\* connect returns, unless the manager passed an argument that is not semver
\* and leaves the connection open.
ConnectEnds == <>(Done \/ (mres = "InvalidVersionArgument" /\ conn = "up"))
=============================================================================
