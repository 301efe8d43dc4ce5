------------------------------ MODULE WireSkew -------------------------------
(***************************************************************************)
(* One call between a manager and an agent built against different         *)
(* releases of the crate.  PROTOCOL_VERSION has not changed since the node *)
(* families came, so the handshake admits every pair of builds and the     *)
(* positional decoders decide alone: `parse_args` of the request on one    *)
(* side, the decode of the answer on the other.  Either side may be        *)
(* redeployed between calls.                                               *)
(***************************************************************************)
EXTENDS WireTypes

CONSTANTS
    MaxSeed,        \* values tried of a shape: seeds 0 .. MaxSeed
    MaxPackageSeed  \* the same for node.package, whose enums are nested

ASSUME SeedAssumption ==
    MaxSeed \in Nat /\ MaxPackageSeed \in Nat /\ MaxSeed <= MaxPackageSeed

VARIABLES
    build,   \* per side, the release it was built against
    family,  \* the request family of the call in progress
    phase,   \* "idle", "request", "served", "reply", "returned"
    seed,    \* the value last put on the wire
    wire,    \* its bytes
    got      \* the bytes the receiver made its value from, or Failed

vars == <<build, family, phase, seed, wire, got>>

-----------------------------------------------------------------------------
(* The types are written down twice for each call: by the method that      *)
(* sends the arguments and decodes the answer, and by the arm that decodes *)
(* the arguments and the handler method that gives the result.  A row that *)
(* is missing on the serving side is `()`.  InsertColumnStatistics carries *)
(* a type of another crate and is left out.                                *)

Unit == Struct(<<>>)
Row(args, answer) == [args |-> args, answer |-> answer]

\* The flat methods of the manager's Connection, answered with ().
FlatCalls ==
    [Allowlist            |-> HostNetworkGroup,
     Blocklist            |-> HostNetworkGroup,
     UpdateConfig         |-> Unit,
     DeleteCustomerData   |-> CustomerDataDeletionRequest,
     TrainModel           |-> TrainModelRequest,
     CloneModel           |-> CloneModelRequest,
     CancelRun            |-> U,
     RunDetectorOnce      |-> U,
     ReloadFilterRule     |-> Vec(TrafficFilterRule),
     InternalNetworkList  |-> HostNetworkGroup,
     EchoRequest          |-> Unit,
     SamplingPolicyList   |-> Vec(SamplingPolicy),
     TorExitNodeList      |-> Vec(Str),
     TrustedDomainList    |-> Vec(Str),
     TrustedUserAgentList |-> Vec(Str)]

\* Its node_* methods.  An install is first answered by its verdict.
NodeCalls(b) ==
    [NodeService          |-> Row(NodeServiceRequest, NodeServiceResponse),
     NodeNetworkInterface |-> Row(NodeNetworkInterfaceRequest,
                                  NodeNetworkInterfaceResponse),
     NodeHostname         |-> Row(NodeHostnameRequest, NodeHostnameResponse),
     NodeTimeSync         |-> Row(NodeTimeSyncRequest, NodeTimeSyncResponse(b)),
     NodeLogging          |-> Row(NodeLoggingRequest, NodeLoggingResponse),
     NodeRemoteAccess     |-> Row(NodeRemoteAccessRequest,
                                  NodeRemoteAccessResponse),
     NodePower            |-> Row(NodePowerRequest, NodePowerResponse),
     NodeObservation      |-> Row(NodeObservationRequest,
                                  NodeObservationResponse),
     NodeVersion          |-> Row(NodeVersionRequest, NodeVersionResponse),
     NodePackage          |-> Row(NodePackageRequest(b), NodePackageResponse(b)),
     Install              |-> Row(NodePackageRequest(b), InstallPreflight(b)),
     Applied              |-> Row(Unit, NodePackageResponse(b)),
     NodeEnroll           |-> Row(NodeEnrollRequest, NodeEnrollResponse)]

\* The methods of the agent's Connection.
ClientReports ==
    [ReportCustomerDataDeletion |-> CustomerDataDeletionReport,
     UploadRunModel             |-> Struct(<<U, Vec(U)>>),
     ReportRun                  |-> Struct(<<U, ReportedRunState, Opt(Str)>>),
     ReportActiveRuns           |-> Vec(U),
     ReportDetectorStatus       |-> DetectorStatusReport]

ClientGets ==
    [GetConfig               |-> Row(Unit, Str),
     GetAllowlist            |-> Row(Unit, HostNetworkGroup),
     GetBlocklist            |-> Row(Unit, HostNetworkGroup),
     GetDataSource           |-> Row(DataSourceKey, Opt(DataSource)),
     GetIndicator            |-> Row(Str, Vec(Vec(Str))),
     GetInternalNetworkList  |-> Row(Unit, HostNetworkGroup),
     GetLabelDbPatterns      |-> Row(Vec(Struct(<<Str, Str>>)),
                                     Vec(Struct(<<Str, Opt(LabelDb)>>))),
     GetTorExitNodeList      |-> Row(Unit, Vec(Str)),
     GetTrustedDomainList    |-> Row(Unit, Vec(Str)),
     GetTrustedUserAgentList |-> Row(Unit, Vec(Str)),
     GetSamplingPolicyList   |-> Row(Unit, Vec(SamplingPolicy)),
     GetPretrainedModel      |-> Row(Str, Vec(U)),
     RenewCertificate        |-> Row(Unit, Struct(<<Str, Str>>)),
     GetModel                |-> Row(Str, Vec(U)),
     GetModelNames           |-> Row(Unit, Vec(Str))]

ClientUpdates ==
    [InsertModel           |-> Row(Vec(U), U),
     InsertTimeSeries      |-> Row(Struct(<<Vec(TimeSeriesUpdate), U, U>>),
                                   Unit),
     RemoveModel           |-> Row(Str, Unit),
     UpdateClusters        |-> Row(Struct(<<Vec(UpdateClusterRequest), U>>),
                                   Unit),
     UpdateModel           |-> Row(Vec(U), U),
     UpdateOutliers        |-> Row(Struct(<<Vec(OutlierInfo), U, U>>), Unit),
     InsertEventLabels     |-> Row(Struct(<<U, U, Vec(EventMessage)>>), Unit),
     InsertDataSource      |-> Row(DataSource, U),
     GetOutliers           |-> Row(Struct(<<U, U>>),
                                   Vec(Struct(<<Str, Vec(U)>>))),
     UpdateHostOpenedPorts |->
         Row(Vec(Struct(<<IpAddr, Vec(Struct(<<U, U, U>>))>>)), Unit),
     UpdateHostOsAgents    |->
         Row(Vec(Struct(<<IpAddr, Vec(UserAgent), Vec(Str)>>)), Unit)]

\* What the arms of the agent's loop decode; EchoRequest and UpdateConfig
\* decode nothing.
FlatArms ==
    [TorExitNodeList      |-> Vec(Str),
     SamplingPolicyList   |-> Vec(SamplingPolicy),
     TrustedDomainList    |-> Vec(Str),
     InternalNetworkList  |-> HostNetworkGroup,
     Allowlist            |-> HostNetworkGroup,
     Blocklist            |-> HostNetworkGroup,
     TrustedUserAgentList |-> Vec(Str),
     ReloadFilterRule     |-> Vec(TrafficFilterRule),
     DeleteCustomerData   |-> CustomerDataDeletionRequest]

EngineArms == [TrainModel      |-> TrainModelRequest,
               CloneModel      |-> CloneModelRequest,
               CancelRun       |-> U,
               RunDetectorOnce |-> U]

NodeArms(b) ==
    [NodeService          |-> NodeServiceRequest,
     NodeNetworkInterface |-> NodeNetworkInterfaceRequest,
     NodeHostname         |-> NodeHostnameRequest,
     NodeTimeSync         |-> NodeTimeSyncRequest,
     NodeLogging          |-> NodeLoggingRequest,
     NodeRemoteAccess     |-> NodeRemoteAccessRequest,
     NodePower            |-> NodePowerRequest,
     NodeObservation      |-> NodeObservationRequest,
     NodeVersion          |-> NodeVersionRequest,
     NodePackage          |-> NodePackageRequest(b),
     Install              |-> NodePackageRequest(b),
     NodeEnroll           |-> NodeEnrollRequest]

\* What the methods of NodeHandler return; those of Handler return ().
NodeResults(b) ==
    [NodeService          |-> NodeServiceResponse,
     NodeNetworkInterface |-> NodeNetworkInterfaceResponse,
     NodeHostname         |-> NodeHostnameResponse,
     NodeTimeSync         |-> NodeTimeSyncResponse(b),
     NodeLogging          |-> NodeLoggingResponse,
     NodeRemoteAccess     |-> NodeRemoteAccessResponse,
     NodePower            |-> NodePowerResponse,
     NodeObservation      |-> NodeObservationResponse,
     NodeVersion          |-> NodeVersionResponse,
     NodePackage          |-> NodePackageResponse(b),
     Install              |-> InstallPreflight(b),
     Applied              |-> NodePackageResponse(b),
     NodeEnroll           |-> NodeEnrollResponse]

\* What the arms of the manager's loops decode.
GetArms ==
    [GetDataSource      |-> DataSourceKey,
     GetIndicator       |-> Str,
     GetModel           |-> Str,
     GetLabelDbPatterns |-> Vec(Struct(<<Str, Str>>)),
     GetOutliers        |-> Struct(<<U, U>>),
     GetPretrainedModel |-> Str]

UpdateArms ==
    [InsertDataSource           |-> DataSource,
     InsertEventLabels          |-> Struct(<<U, U, Vec(EventMessage)>>),
     InsertModel                |-> Vec(U),
     InsertTimeSeries           |-> Struct(<<Vec(TimeSeriesUpdate), U, U>>),
     RemoveModel                |-> Str,
     ReportCustomerDataDeletion |-> CustomerDataDeletionReport,
     UpdateClusters             |-> Struct(<<Vec(UpdateClusterRequest), U>>),
     UpdateModel                |-> Vec(U),
     UpdateOutliers             |-> Struct(<<Vec(OutlierInfo), U, U>>),
     UpdateHostOpenedPorts      |->
         Vec(Struct(<<IpAddr, Vec(Struct(<<U, U, U>>))>>)),
     UpdateHostOsAgents         |->
         Vec(Struct(<<IpAddr, Vec(UserAgent), Vec(Str)>>)),
     UploadRunModel             |-> Struct(<<U, Vec(U)>>),
     ReportRun                  |-> Struct(<<U, ReportedRunState, Opt(Str)>>),
     ReportActiveRuns           |-> Vec(U),
     ReportDetectorStatus       |-> DetectorStatusReport]

\* What the methods of the manager's Handler return.
ServiceResults ==
    [GetAllowlist            |-> HostNetworkGroup,
     GetBlocklist            |-> HostNetworkGroup,
     GetConfig               |-> Str,
     GetDataSource           |-> Opt(DataSource),
     GetIndicator            |-> Vec(Vec(Str)),
     GetInternalNetworkList  |-> HostNetworkGroup,
     GetModel                |-> Vec(U),
     GetModelNames           |-> Vec(Str),
     GetOutliers             |-> Vec(Struct(<<Str, Vec(U)>>)),
     GetPretrainedModel      |-> Vec(U),
     GetSamplingPolicyList   |-> Vec(SamplingPolicy),
     GetLabelDbPatterns      |-> Vec(Struct(<<Str, Opt(LabelDb)>>)),
     GetTorExitNodeList      |-> Vec(Str),
     GetTrustedDomainList    |-> Vec(Str),
     GetTrustedUserAgentList |-> Vec(Str),
     InsertDataSource        |-> U,
     InsertModel             |-> U,
     RenewCertificate        |-> Struct(<<Str, Str>>),
     UpdateModel             |-> U]

-----------------------------------------------------------------------------
ManagerFamilies ==
    DOMAIN ClientReports \cup DOMAIN ClientGets \cup DOMAIN ClientUpdates
NodeFamilies == DOMAIN NodeArms(24)
Families == DOMAIN FlatCalls \cup NodeFamilies \cup ManagerFamilies

Caller(f) == IF f \in ManagerFamilies THEN "agent" ELSE "manager"
Callee(f) == IF f \in ManagerFamilies THEN "manager" ELSE "agent"

\* The caller's types in build b: of the arguments and of the answer.
Call(f, b) ==
    CASE f \in DOMAIN FlatCalls     -> Row(FlatCalls[f], Unit)
      [] f \in DOMAIN ClientReports -> Row(ClientReports[f], Unit)
      [] f \in DOMAIN ClientGets    -> ClientGets[f]
      [] f \in DOMAIN ClientUpdates -> ClientUpdates[f]
      [] OTHER                      -> NodeCalls(b)[f]

\* The callee's.
Arm(f, b) ==
    CASE f \in DOMAIN FlatArms   -> FlatArms[f]
      [] f \in DOMAIN EngineArms -> EngineArms[f]
      [] f \in NodeFamilies      -> NodeArms(b)[f]
      [] f \in DOMAIN GetArms    -> GetArms[f]
      [] f \in DOMAIN UpdateArms -> UpdateArms[f]
      [] OTHER                   -> Unit

Result(f, b) ==
    CASE f \in NodeFamilies \cup {"Applied"} -> NodeResults(b)[f]
      [] f \in DOMAIN ServiceResults         -> ServiceResults[f]
      [] OTHER                               -> Unit

\* An answer is a Result<T, String>.
Answer(t) == Enum(<< <<t>>, <<Str>> >>, 2)

SenderShape ==
    IF phase \in {"request", "served"}
    THEN Call(family, build[Caller(family)]).args
    ELSE Answer(Result(family, build[Callee(family)]))

ReceiverShape ==
    IF phase \in {"request", "served"}
    THEN Arm(family, build[Callee(family)])
    ELSE Answer(Call(family, build[Caller(family)]).answer)

Seeds(f) ==
    0 .. IF f \in {"NodePackage", "Install", "Applied"}
         THEN MaxPackageSeed ELSE MaxSeed

-----------------------------------------------------------------------------
Init ==
    /\ build \in [{"manager", "agent"} -> Builds]
    /\ family = "EchoRequest" /\ phase = "idle"
    /\ seed = 0 /\ wire = <<>> /\ got = <<>>

\* A side restarts on another build between two calls.
Redeploy(side, b) ==
    /\ phase = "idle" /\ build[side] # b
    /\ build' = [build EXCEPT ![side] = b]
    /\ UNCHANGED <<family, phase, seed, wire, got>>

\* Connection::node_package refuses an Install, node_package_install
\* everything else.
Sendable(f, t, s) ==
    /\ Declares(t, s) /\ (t = Unit => s = 0)
    /\ f = "NodePackage" => Pick(t, s) # 1
    /\ f = "Install" => Pick(t, s) = 1

\* send_request encodes the arguments.
Send(f, s) ==
    LET t == Call(f, build[Caller(f)]).args IN
    /\ phase = "idle" /\ Sendable(f, t, s)
    /\ family' = f /\ phase' = "request" /\ seed' = s
    /\ wire' = Bytes(t, s) /\ got' = <<>>
    /\ UNCHANGED build

\* The callee decodes the arguments.
ParseArgs ==
    /\ phase = "request"
    /\ got' = Decoded(ReceiverShape, wire)
    /\ phase' = "served"
    /\ UNCHANGED <<build, family, seed, wire>>

\* An immediate power action is not answered.
Immediate == family = "NodePower" /\ Pick(NodePowerRequest, seed) \in {1, 2}

Reply(t, s) ==
    /\ Declares(t, s) /\ wire' = Bytes(t, s)
    /\ seed' = s /\ phase' = "reply" /\ got' = <<>>

\* The handler ran: its result is encoded as this build declares it.
Respond(s) ==
    /\ phase = "served" /\ got # Failed /\ ~Immediate
    /\ Reply(Answer(Result(family, build[Callee(family)])), s)
    /\ UNCHANGED <<build, family>>

\* decode_args: the agent's loop answers undecodable arguments with an error,
\* the second variant of the answer, and ends.
AnswerUndecodable(s) ==
    /\ phase = "served" /\ got = Failed /\ Callee(family) = "agent"
    /\ LET t == Answer(Result(family, build["agent"])) IN
       Pick(t, s) = 2 /\ Reply(t, s)
    /\ UNCHANGED <<build, family>>

\* parse_args of the manager's loops: they leave without an answer, as the
\* agent's does behind an immediate power action.  No argument of the
\* manager's services has changed between these builds.
Unanswered == Immediate \/ (got = Failed /\ Callee(family) = "manager")

Close ==
    /\ phase = "served" /\ Unanswered
    /\ phase' = "idle" /\ family' = "EchoRequest" /\ seed' = 0
    /\ wire' = <<>> /\ got' = <<>>
    /\ UNCHANGED build

\* The caller decodes the answer.
Receive ==
    /\ phase = "reply"
    /\ got' = Decoded(ReceiverShape, wire)
    /\ phase' = "returned"
    /\ UNCHANGED <<build, family, seed, wire>>

\* After Ok(Proceed) the final response follows on the same stream.
Proceed == <<0, 0>>

Apply(s) ==
    /\ phase = "returned" /\ family = "Install" /\ got = Proceed
    /\ family' = "Applied"
    /\ Reply(Answer(Result("Applied", build["agent"])), s)
    /\ UNCHANGED build

Return ==
    /\ phase = "returned"
    /\ family = "Install" => got # Proceed
    /\ phase' = "idle" /\ family' = "EchoRequest" /\ seed' = 0
    /\ wire' = <<>> /\ got' = <<>>
    /\ UNCHANGED build

Next ==
    \/ \E side \in {"manager", "agent"}, b \in Builds : Redeploy(side, b)
    \/ \E f \in Families : \E s \in Seeds(f) : Send(f, s)
    \/ ParseArgs
    \/ \E s \in Seeds(family) : Respond(s)
    \/ \E s \in 0 .. 3 : AnswerUndecodable(s)
    \/ \E s \in Seeds("Applied") : Apply(s)
    \/ Close
    \/ Receive
    \/ Return

Spec == Init /\ [][Next]_vars

-----------------------------------------------------------------------------
(* Properties. *)

Decided == phase \in {"served", "returned"}

\* A list of more than one installed package from an agent that knows
\* PackageState::privilege_profile to a manager that does not: the new field
\* is last in its struct but not last in the frame.
GrownInsideList ==
    /\ phase = "returned" /\ family \in {"NodePackage", "Applied"}
    /\ Len(wire) >= 3 /\ wire[1] = 0 /\ wire[2] = 2 /\ wire[3] > 1
    /\ build["manager"] < 24 /\ build["agent"] = 24

\* Whatever the two builds, a decode that succeeds has read the value that was
\* sent, as far as the receiver's declarations go; it has not read one
\* variant or field as another.  Entries of a list whose type has grown are
\* the one exception, which the release notes of 0.24.0 state.
NothingMisread ==
    Decided /\ got # Failed /\ ~GrownInsideList =>
        /\ Declares(ReceiverShape, seed)
        /\ got = Bytes(ReceiverShape, seed)

\* Between equal builds every value arrives whole: the method and the arm, the
\* handler's result and the caller's were written down separately and name
\* one type, and a package lifecycle that only a later release names still
\* decodes.
SameBuildDelivers ==
    Decided /\ build["manager"] = build["agent"] =>
        got = wire /\ SenderShape = ReceiverShape

\* The release notes of 0.21.0 and 0.24.0: an older agent takes an Install
\* and ignores the fields it does not know; a newer agent refuses an Install
\* from a manager that lacks the newest field, before its handler runs.
InstallAcrossBuilds ==
    phase = "served" /\ family = "Install" =>
        LET fields(b) == Len(InstallFields(b)) IN
        got # Failed <=> fields(build["manager"]) >= fields(build["agent"])
=============================================================================
