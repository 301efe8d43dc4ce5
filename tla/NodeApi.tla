------------------------------- MODULE NodeApi -------------------------------
(***************************************************************************)
(* A node operation from the caller's method to the agent's handler method *)
(* and back: the entry points (the Node facade of src/src/server/node.rs   *)
(* and the node_* methods of src/src/server/api.rs, each plain,            *)
(* _authorized and _with_context), the service the authorizer is asked     *)
(* about (src/src/auth.rs), the wire code, the arm of the agent's loop and *)
(* the routing between the flat and the grouped handler methods            *)
(* (src/src/request.rs).  An older manager sends the flat codes of the     *)
(* same operations and checks nothing.                                     *)
(*                                                                         *)
(* The frames of one exchange are AgentStream's and ManagerCall's subject: *)
(* here a request is served in one step and an install is its preflight    *)
(* and its apply.                                                          *)
(***************************************************************************)
EXTENDS Services

CONSTANTS
    Agents,  \* agents: trait implemented, loop run, methods overridden
    Peers    \* the peer contexts a caller vouches for

\* A Handler or a NodeHandler, under one of the two loops, and the methods it
\* overrides.
AgentType ==
    [trait : {"Handler", "NodeHandler"}, loop : {"handle", "handle_node"},
     over : SUBSET STRING]

ASSUME AgentsAssumption == Agents \subseteq AgentType

VARIABLES
    agent,    \* the agent on the connection
    conn,     \* "up" or "down"
    call,     \* the call in progress
    phase,    \* the manager: "idle", "called", "waiting", "returned"
    asked,    \* what the authorizer was asked about (history)
    request,  \* the agent: "none", "queued", "answered", "unanswered"
    ran,      \* how the handler answered, by which method, doing what
    outcome   \* what the caller got

vars == <<agent, conn, call, phase, asked, request, ran, outcome>>

-----------------------------------------------------------------------------
(* Authorization. *)

PeerContext == [subject : {"none", "cn"}, fingerprint : {"none", "fp"}]

ASSUME PeersAssumption == Peers \subseteq PeerContext

\* From<&PeerContext> for PeerIdentity.
PeerIdentity(peer) ==
    [subject |-> peer.subject, fingerprint |-> peer.fingerprint]

\* agent_kind, roles, protocol_metadata and attributes, all or none of them.
from_authenticated_inputs(peer, extras) ==
    [peer_identity |-> PeerIdentity(peer), extras |-> extras]

from_peer_context(peer) == from_authenticated_inputs(peer, "none")

\* Mutant: the fingerprint is not carried over.
to_peer_context_NameOnly(ctx) ==
    [subject |-> ctx.peer_identity.subject, fingerprint |-> "none"]

to_peer_context(ctx) ==
    [subject |-> ctx.peer_identity.subject,
     fingerprint |-> ctx.peer_identity.fingerprint]

\* An application's authorizer, external: it denies one operation's service
\* to the peers that lack one credential.  With need = "nothing" it is the
\* NoopAuthorizer.
authorize(policy, peer, service) ==
    policy.need # "nothing" /\ service = service_id(policy.op)
        => peer[policy.need] # "none"

\* The _with_context methods take an AuthorizerV2, the application's own or an
\* AuthorizerV2Adapter.
ContextStyles == {"with_context", "adapter"}

\* Authorizer; AuthorizerV2; AuthorizerV2Adapter over an Authorizer.
Allowed(c, service) ==
    CASE c.style = "plain"        -> TRUE
      [] c.style = "authorized"   -> authorize(c.policy, c.ctx.peer_identity,
                                               service)
      [] c.style = "with_context" -> authorize(c.policy, c.ctx.peer_identity,
                                               service)
      [] c.style = "adapter"      -> authorize(c.policy,
                                               to_peer_context(c.ctx), service)

-----------------------------------------------------------------------------
(* The entry points. *)

NoService == ServiceId("none", "none")
NoContext == from_peer_context([subject |-> "none", fingerprint |-> "none"])
NoOp == [code |-> "none", variant |-> "none"]

\* The methods of Connection: one per family, two for node.package, each by
\* the code it sends.
UnaryFamilies == NodeFamilies \ {"NodePackage"}
PackageMethods == {"NodePackage", "NodePackageInstall"}

Accepts(method, op) ==
    \/ method \in UnaryFamilies /\ op.code = method
    \/ method \in PackageMethods /\ op.code = "NodePackage"

\* The methods of the Node facade, by the method of Connection that each
\* hands its arguments to, plain or _authorized.
HostFacade ==
    [service           |-> "NodeService",
     network_interface |-> "NodeNetworkInterface",
     hostname          |-> "NodeHostname",
     time_sync         |-> "NodeTimeSync",
     logging           |-> "NodeLogging",
     remote_access     |-> "NodeRemoteAccess"]

PowerFacade ==
    [power       |-> "NodePower",
     reboot      |-> "NodePower",
     shutdown    |-> "NodePower",
     observation |-> "NodeObservation",
     version     |-> "NodeVersion"]

PackageFacade ==
    [package         |-> "NodePackage",
     package_install |-> "NodePackageInstall",
     enroll          |-> "NodeEnroll"]

\* And _with_context.
ContextFacade ==
    [service           |-> "NodeService",
     network_interface |-> "NodeNetworkInterface",
     hostname          |-> "NodeHostname",
     time_sync         |-> "NodeTimeSync",
     logging           |-> "NodeLogging",
     remote_access     |-> "NodeRemoteAccess",
     power             |-> "NodePower",
     reboot            |-> "NodePower",
     shutdown          |-> "NodePower",
     observation       |-> "NodeObservation",
     version           |-> "NodeVersion",
     package           |-> "NodePackage",
     package_install   |-> "NodePackageInstall",
     enroll            |-> "NodeEnroll"]

Methods ==
    UnaryFamilies \cup PackageMethods \cup DOMAIN HostFacade
        \cup DOMAIN PowerFacade \cup DOMAIN PackageFacade

Delegated(method, style) ==
    CASE style \in ContextStyles /\ method \in DOMAIN ContextFacade ->
            ContextFacade[method]
      [] style \notin ContextStyles /\ method \in DOMAIN HostFacade ->
            HostFacade[method]
      [] style \notin ContextStyles /\ method \in DOMAIN PowerFacade ->
            PowerFacade[method]
      [] style \notin ContextStyles /\ method \in DOMAIN PackageFacade ->
            PackageFacade[method]
      [] OTHER -> method

\* Node::reboot and Node::shutdown are Node::power with a fixed request.
Shortcuts == [reboot |-> Op("NodePower", "Reboot"),
              shutdown |-> Op("NodePower", "Shutdown")]

\* The flat codes of an older manager.
LegacyOp == [Reboot        |-> Op("NodePower", "Reboot"),
             Shutdown      |-> Op("NodePower", "Shutdown"),
             ResourceUsage |-> Op("NodeObservation", "ResourceUsage"),
             ProcessList   |-> Op("NodeObservation", "ProcessList")]

NewCall(method, op, style, ctx, policy) ==
    [method |-> Delegated(method, style), op |-> op, style |-> style,
     ctx |-> ctx, policy |-> policy,
     code |-> IF method \in DOMAIN LegacyOp THEN method ELSE op.code]

\* The methods that take this request, the facade's shortcuts included.
Entries(op, style) ==
    {m \in Methods \ DOMAIN Shortcuts : Accepts(Delegated(m, style), op)}
        \cup {m \in DOMAIN Shortcuts : Shortcuts[m] = op}

\* Authorizers about the family of an operation; the Noop one among them.
NoopAuthorizer == [op |-> Op("NodePower", "Reboot"), need |-> "nothing"]
Policies(op) ==
    {NoopAuthorizer}
        \cup {[op |-> o, need |-> n] :
                  o \in {p \in Operations : p.code = op.code},
                  n \in {"subject", "fingerprint"}}

\* reject_install and install_size, before anyone is asked.
Rejects(c) ==
    \/ c.method = "NodePackage" /\ c.op.variant = "Install"
    \/ c.method = "NodePackageInstall" /\ c.op.variant # "Install"

-----------------------------------------------------------------------------
(* The manager. *)

Idle == phase = "idle" /\ request = "none" /\ conn = "up"

Start(c) ==
    /\ call' = c /\ phase' = "called"
    /\ UNCHANGED <<agent, conn, asked, request, ran, outcome>>

CallPlain ==
    /\ Idle
    /\ \E op \in Operations : \E m \in Entries(op, "plain") :
           Start(NewCall(m, op, "plain", NoContext, NoopAuthorizer))

CallAuthorized ==
    /\ Idle
    /\ \E op \in Operations, peer \in Peers :
           \E m \in Entries(op, "authorized"), p \in Policies(op) :
               Start(NewCall(m, op, "authorized", from_peer_context(peer), p))

CallWithContext ==
    /\ Idle
    /\ \E op \in Operations, peer \in Peers, style \in ContextStyles :
           \E m \in Entries(op, style), p \in Policies(op) :
               Start(NewCall(m, op, style,
                             from_authenticated_inputs(peer, "some"), p))

\* A manager of an older release sends the flat code of the operation.
CallLegacy ==
    /\ Idle
    /\ \E m \in DOMAIN LegacyOp :
           Start(NewCall(m, LegacyOp[m], "plain", NoContext, NoopAuthorizer))

ReturnToCaller(r) == phase' = "returned" /\ outcome' = r

Reject ==
    /\ phase = "called" /\ Rejects(call)
    /\ ReturnToCaller("rejected")
    /\ UNCHANGED <<agent, conn, call, asked, request, ran>>

Asks == call.style # "plain"

Deny ==
    /\ phase = "called" /\ ~Rejects(call)
    /\ ~Allowed(call, service_id(call.op))
    /\ asked' = service_id(call.op)
    /\ ReturnToCaller("denied")
    /\ UNCHANGED <<agent, conn, call, request, ran>>

\* node_power does not wait for the answer to an immediate request.
AwaitsAnswer(c) ==
    ~(c.method = "NodePower" /\ c.op.variant \in {"Reboot", "Shutdown"})

Send ==
    /\ phase = "called" /\ ~Rejects(call) /\ conn = "up"
    /\ Allowed(call, service_id(call.op))
    /\ asked' = IF Asks THEN service_id(call.op) ELSE NoService
    /\ request' = "queued"
    /\ IF AwaitsAnswer(call)
       THEN phase' = "waiting" /\ UNCHANGED outcome
       ELSE ReturnToCaller("Sent")
    /\ UNCHANGED <<agent, conn, call, ran>>

Recv ==
    /\ phase = "waiting" /\ request = "answered"
    /\ ReturnToCaller(ran.answer)
    /\ UNCHANGED <<agent, conn, call, asked, request, ran>>

RecvFails ==
    /\ phase \in {"called", "waiting"} /\ conn = "down" /\ ~Rejects(call)
    /\ Allowed(call, service_id(call.op))
    /\ ReturnToCaller("lost")
    /\ UNCHANGED <<agent, conn, call, asked, request, ran>>

-----------------------------------------------------------------------------
(* The agent's handler. *)

GroupMethod ==
    [NodeService          |-> "node_service",
     NodeNetworkInterface |-> "node_network_interface",
     NodeHostname         |-> "node_hostname",
     NodeTimeSync         |-> "node_time_sync",
     NodeLogging          |-> "node_logging",
     NodeRemoteAccess     |-> "node_remote_access",
     NodePower            |-> "node_power",
     NodeObservation      |-> "node_observation",
     NodeVersion          |-> "node_version",
     NodePackage          |-> "node_package",
     NodeEnroll           |-> "node_enroll"]

FlatMethod ==
    [Reboot |-> "reboot", Shutdown |-> "shutdown",
     ResourceUsage |-> "resource_usage", ProcessList |-> "process_list"]

Overrides(m) == m \in agent.over

Ran(m, op, answer) == [via |-> m, did |-> op, answer |-> answer]

\* What a default method does.
Unsupported == Ran("default", NoOp, "unsupported")

\* An agent's own method does what it is asked or fails; a node_observation
\* may answer with another variant's response.
OwnMethod(m, op) ==
    {Ran(m, op, "Ok"), Ran(m, NoOp, "Err")}
        \cup (IF m = "node_observation" THEN {Ran(m, op, "foreign")} ELSE {})

\* A flat method of Handler.
Flat(op) ==
    IF op.variant \in DOMAIN FlatMethod /\ Overrides(FlatMethod[op.variant])
    THEN OwnMethod(FlatMethod[op.variant], op)
    ELSE {Unsupported}

\* Mutant: the default grouped methods of Handler do not delegate.
HandlerDefaultBare(op) == {Unsupported}

\* Handler::node_power and node_observation delegate to the flat methods,
\* the other grouped methods support nothing.
HandlerDefault(op) ==
    IF op.code \in {"NodePower", "NodeObservation"}
    THEN Flat(op) ELSE {Unsupported}

\* The defaults of NodeHandler delegate to nothing; the blanket
\* implementation hands a Handler's requests to Handler's methods.
NodeHandlerDefault(op) ==
    IF agent.trait = "Handler" THEN HandlerDefault(op) ELSE {Unsupported}

Grouped(op) ==
    IF Overrides(GroupMethod[op.code])
    THEN OwnMethod(GroupMethod[op.code], op)
    ELSE NodeHandlerDefault(op)

\* A terminal verdict ends the exchange; only Proceed reaches the apply.
Install(op) ==
    IF ~Overrides("node_package_install_preflight") THEN {Unsupported}
    ELSE {Ran("node_package_install_preflight", NoOp, a) :
                a \in {"Terminal", "Err"}}
         \cup (IF Overrides("node_package_install")
               THEN OwnMethod("node_package_install", op)
               ELSE {Unsupported})

\* The flat arms translate the grouped answer back to the flat shape.
Translate(r) ==
    IF r.answer = "foreign" THEN [r EXCEPT !.answer = "Err"] ELSE r

\* The arm of `handle` or of `handle_node`, which has none for flat codes.
Arm ==
    CASE call.code \in DOMAIN LegacyOp /\ agent.loop = "handle" ->
            {Translate(r) : r \in Grouped(call.op)}
      [] call.code \in DOMAIN LegacyOp /\ agent.loop = "handle_node" ->
            {Ran("none", NoOp, "Err")}
      [] call.op = Op("NodePackage", "Install") -> Install(call.op)
      [] OTHER -> Grouped(call.op)

\* Mutant: an immediate power request is not answered, flat or not.
ExpectsResponseEver(c) == c.op \notin {Shortcuts[n] : n \in DOMAIN Shortcuts}

\* node_power_expects_response; the flat arms always answer.
ExpectsResponse(c) ==
    ~(c.code = "NodePower" /\ c.op.variant \in {"Reboot", "Shutdown"})

Serve ==
    /\ request = "queued" /\ conn = "up"
    /\ ran' \in Arm
    /\ request' = IF ExpectsResponse(call) THEN "answered" ELSE "unanswered"
    /\ UNCHANGED <<agent, conn, call, phase, asked, outcome>>

-----------------------------------------------------------------------------
(* The connection, and the next call.  A reboot takes it down, like any     *)
(* other loss, at any moment.                                               *)

Lost ==
    /\ conn = "up" /\ request # "none"
    /\ conn' = "down"
    /\ UNCHANGED <<agent, call, phase, asked, request, ran, outcome>>

NextCall ==
    /\ phase = "returned" /\ (request # "queued" \/ conn = "down")
    /\ conn' = "up" /\ phase' = "idle"
    /\ asked' = NoService /\ request' = "none" /\ ran' = Ran("none", NoOp, "none")
    /\ call' = NewCall("NodePower", NoOp, "plain", NoContext, NoopAuthorizer)
    /\ outcome' = "none"
    /\ UNCHANGED agent

Init ==
    /\ agent \in Agents /\ conn = "up" /\ phase = "idle"
    /\ call = NewCall("NodePower", NoOp, "plain", NoContext, NoopAuthorizer)
    /\ asked = NoService /\ request = "none"
    /\ ran = Ran("none", NoOp, "none") /\ outcome = "none"

Next ==
    \/ CallPlain \/ CallAuthorized \/ CallWithContext \/ CallLegacy
    \/ Reject \/ Deny \/ Send \/ Recv \/ RecvFails
    \/ Serve \/ Lost \/ NextCall

Spec == Init /\ [][Next]_vars

-----------------------------------------------------------------------------
\* What the policy says of the call, from its own operation and peer: the
\* reference that the four ways to ask have to agree with.
Forbidden(c) ==
    /\ c.style # "plain" /\ c.policy.need # "nothing"
    /\ c.op = c.policy.op
    /\ c.ctx.peer_identity[c.policy.need] = "none"

\* An authorizer that denies one operation to some peers stops exactly those
\* calls, whichever method, facade or trait they go through: no other
\* variant shares its service, and the legacy trait, the context and the
\* adapter see the same peer (service_id, to_peer_context).  What the agent
\* carries out is the operation the call named, and allowed for its caller.
DeniesExactly ==
    /\ phase = "returned" =>
          (outcome = "denied" <=> Forbidden(call) /\ ~Rejects(call))
    /\ ran.did # NoOp =>
          ran.did = call.op /\ ~Forbidden(call) /\ ~Rejects(call)

\* The agent implements the operation, by the grouped method or, for a
\* Handler, by the flat one.
Implements(op) ==
    \/ Overrides(GroupMethod[op.code])
    \/ /\ agent.trait = "Handler"
       /\ \E m \in DOMAIN LegacyOp :
              LegacyOp[m] = op /\ Overrides(FlatMethod[m])

\* Overriding either method is enough for both wire formats: a request for
\* an implemented operation never runs into a default method, and one for
\* anything else always does.
EitherOverrideServes ==
    /\ request \in {"answered", "unanswered"}
    /\ call.op # Op("NodePackage", "Install")
    /\ call.code \in DOMAIN LegacyOp => agent.loop = "handle"
    => (ran.via = "default" <=> ~Implements(call.op))

\* Who waits for an answer is sent one, of the shape it decodes: the two
\* sides agree on which power requests are answered, an old manager is
\* answered always, and never with a response its code cannot carry.
AnswerFits ==
    /\ phase = "waiting" => request # "unanswered"
    /\ call.code \in DOMAIN LegacyOp => outcome # "foreign"
    /\ outcome = "Sent" => call.code = "NodePower"
    /\ outcome = "foreign" => call.code = "NodeObservation"

\* A service named by its family alone covers all of the family's methods.
Covers(named, service) ==
    named.family = service.family /\ named.method \in {NoMethod, service.method}

\* The two tables of service_id.rs, by code and by request, name the same
\* thing: the service a code is read back as covers the one the authorizer
\* was asked about and the one that is carried out, a flat code exactly that
\* method, so that no request travels under the code of another family; and
\* all() lists them.
CodeNamesService ==
    LET named == from_client_request_code(call.code) IN
    /\ asked # NoService => asked \in all /\ Covers(named, asked)
    /\ ran.did # NoOp =>
          /\ named \in all /\ Covers(named, service_id(ran.did))
          /\ IsFamily(named) <=> call.code \notin DOMAIN LegacyOp
=============================================================================
