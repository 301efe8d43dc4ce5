------------------------------ MODULE WireTypes ------------------------------
(***************************************************************************)
(* The shapes of the types of src/src/types.rs, as a build of the crate    *)
(* declares them.  A build is named by its minor release: 24 is this one,  *)
(* 20 the one that introduced `node.package` and `node.enroll`.  Shapes    *)
(* that have not changed since take no build.  A type gains fields at its  *)
(* end and variants at its end: `Since(b, r, fs)` are the fields a build   *)
(* has from release r on.                                                  *)
(***************************************************************************)
EXTENDS Bincode

Builds == {20, 21, 23, 24}   \* 22 changed no encoding

Since(b, r, fs) == IF b >= r THEN fs ELSE <<>>

-----------------------------------------------------------------------------
(* Types of the flat request families. *)

Duration  == Struct(<<U, U>>)
IpAddr    == Enum(<< <<Raw(4)>>, <<Raw(16)>> >>, 2)
IpNet     == Enum(<< <<Raw(4), U>>, <<Raw(16), U>> >>, 2)
Timestamp == U

CustomerDataDeletionReporter == Units(2)
CustomerDataDeletionOutcome  == Enum(<< <<>>, <<Str>> >>, 2)
CustomerDataDeletionRequest  == Struct(<<U, Str>>)
CustomerDataDeletionReport   ==
    Struct(<<U, Str, Opt(U), CustomerDataDeletionReporter,
             CustomerDataDeletionOutcome>>)

TrainModelRequest == Struct(<<U, Str, Str>>)
CloneModelRequest == Struct(<<U, Str, Str, Bool>>)
ReportedRunState  == Units(3)

DetectorState == Units(4)
RoundOutcome  == Units(2)
SourceState   == Units(3)
SourceStatus  == Struct(<<Str, SourceState, Opt(Str)>>)
DetectorStatusReport ==
    Struct(<<U, DetectorState, Opt(U), Opt(RoundOutcome), Opt(Str), U,
             Vec(SourceStatus)>>)

\* DataType travels as a u16 and an unlisted one fails the decode.
DataType      == Num(0, 2, 2, TRUE)
DataSourceKey == Enum(<< <<U>>, <<Str>> >>, 2)
DataSource    ==
    Struct(<<U, Str, Str, Enum(<< <<Raw(4), U>>, <<Raw(16), U>> >>, 2),
             DataType, Str, Opt(Str), Str>>)

ResourceUsage    == Struct(<<Raw(4), U, U, U, U>>)
Process          == Struct(<<Str, Raw(4), Raw(8), U, Str>>)
HostNetworkGroup ==
    Struct(<<Vec(IpAddr), Vec(IpNet), Vec(Struct(<<IpAddr, IpAddr>>))>>)

SamplingKind   == Units(4)
SamplingPolicy ==
    Struct(<<U, SamplingKind, Duration, Duration, U, Opt(IpAddr), Opt(IpAddr),
             Opt(Str), Opt(U)>>)
TrafficFilterRule == Struct(<<IpNet, Opt(Vec(U)), Opt(Vec(U))>>)

\* EventCategory and SamplingKind have discriminants of their own, but serde
\* writes the declaration index; LabelDbKind is written as its discriminant.
EventCategory == Units(14)
LabelDbKind   == Num(0, 3, 3, TRUE)
RuleKind      == Units(2)
UserAgent     == Struct(<<Str, Str, RuleKind, U>>)
LabelDbRule   ==
    Struct(<<U, Opt(EventCategory), Str, Opt(RuleKind), Opt(Str),
             Opt(Vec(Str)), Opt(Vec(Str)), Opt(Vec(Str)), Opt(Raw(4))>>)
LabelDb ==
    Struct(<<U, Str, Opt(Str), LabelDbKind, Opt(EventCategory), Str,
             Vec(LabelDbRule)>>)

TimeCount        == Struct(<<Str, U>>)
TimeSeries       == Struct(<<Opt(U), Vec(TimeCount)>>)
TimeSeriesUpdate == Struct(<<U, Vec(TimeSeries)>>)
UpdateClusterRequest ==
    Struct(<<U, U, Str, Opt(Raw(8)), U, Vec(Struct(<<U, Str>>)), U,
             Opt(Vec(Str))>>)
OutlierInfo  == Struct(<<U, U, Raw(8), Str>>)
EventKind    == Units(41)
EventMessage == Struct(<<Timestamp, EventKind, Str>>)

-----------------------------------------------------------------------------
(* The node families. *)

NodeServiceRequest  == Enum(<< <<Str>>, <<Str>>, <<Str>>, <<Str>> >>, 4)
NodeServiceResponse == Enum(<< <<Bool>>, <<>> >>, 2)

NodeNetworkInterfaceConfig ==
    Struct(<<Opt(Vec(Str)), Opt(Bool), Opt(Str), Opt(Vec(Str))>>)
NodeNetworkInterface == Struct(<<Str, NodeNetworkInterfaceConfig>>)
NodeNetworkInterfaceRequest ==
    Enum(<< <<Opt(Str)>>, <<Str>>, <<Str>>,
            <<Str, NodeNetworkInterfaceConfig>>,
            <<Str, NodeNetworkInterfaceConfig>> >>, 5)
NodeNetworkInterfaceResponse ==
    Enum(<< <<Vec(Str)>>, <<Opt(NodeNetworkInterface)>>, <<>> >>, 3)

NodeHostnameRequest  == Enum(<< <<>>, <<Str>> >>, 2)
NodeHostnameResponse == Enum(<< <<Str>>, <<>> >>, 2)

\* The three fields after `enabled` are release 0.23's.
NodeTimeSyncRequest == Enum(<< <<>>, <<Vec(Str)>>, <<>>, <<>>, <<>> >>, 5)
NodeTimeSyncResponse(b) ==
    Enum(<< <<Opt(Vec(Str))>>,
            <<Bool>> \o Since(b, 23, <<Bool, Opt(Str), Opt(U)>>),
            <<>> >>, 3)

NodeLoggingProtocol == Units(2)
NodeLoggingEndpoint == Struct(<<NodeLoggingProtocol, Str, U>>)
NodeLoggingRequest  ==
    Enum(<< <<>>, <<Vec(NodeLoggingEndpoint)>>, <<>>, <<>> >>, 4)
NodeLoggingResponse == Enum(<< <<Opt(Vec(NodeLoggingEndpoint))>>, <<>> >>, 2)

NodeRemoteAccessConfig   == Struct(<<U>>)
NodeRemoteAccessRequest  ==
    Enum(<< <<>>, <<NodeRemoteAccessConfig>>, <<>> >>, 3)
NodeRemoteAccessResponse == Enum(<< <<NodeRemoteAccessConfig>>, <<>> >>, 2)

NodePowerRequest  == Units(4)
NodePowerResponse == Units(1)

NodeObservationRequest  == Units(3)
NodeObservationResponse ==
    Enum(<< <<Vec(Process)>>, <<Str, ResourceUsage>>, <<Duration>> >>, 3)

NodeVersionRequest  == Enum(<< <<>>, <<Str>>, <<Str>> >>, 3)
NodeVersionResponse == Enum(<< <<Str, Str>>, <<>> >>, 2)

-----------------------------------------------------------------------------
(* Package management. *)

SocketAddr          == Enum(<< <<Raw(4), U>>, <<Raw(16), U>> >>, 2)
ManifestFormatRange == Struct(<<U, U>>)
FailurePolicy       == Units(2)
BootstrapMaterial   == Struct(<<Str, Str, Str, Timestamp, Str>>)
PackageIdentity     == Struct(<<Str, Str, Str>>)
Transport           == Units(2)
HostPort            == Struct(<<Transport, U>>)
BoundAddr           == Struct(<<Str, Str>>)

\* Mutant: an undeclared discriminant fails the decode.
LifecycleStrict == Num(0, 5, 7, TRUE)

\* Discriminants 0 to 5 are declared; any other byte reads as Unknown.
Lifecycle == Num(0, 5, 7, FALSE)

\* Mutant: the new field is declared before the one that was last.
InstallFieldsInserted(b) ==
    <<Str, Opt(U), Str, Str, U, Str, Opt(BootstrapMaterial), FailurePolicy>>
        \o Since(b, 24, <<Opt(Str)>>)
        \o <<Opt(Vec(Struct(<<Str, SocketAddr>>)))>>
        \o Since(b, 21, <<Opt(Str)>>)

\* target, instance, version, commit, size, idempotency_key,
\* bootstrap_material, on_failure, bind_addrs; config_template;
\* privilege_profile.
InstallFields(b) ==
    <<Str, Opt(U), Str, Str, U, Str, Opt(BootstrapMaterial), FailurePolicy,
      Opt(Vec(Struct(<<Str, SocketAddr>>)))>>
        \o Since(b, 21, <<Opt(Str)>>)
        \o Since(b, 24, <<Opt(Str)>>)

NodePackageRequest(b) ==
    Enum(<<InstallFields(b), <<Str, Opt(U), Str>>, <<>>, <<Str, Opt(U)>>,
           <<>> >>, 5)

InstallPreflight(b) ==
    Enum(<< <<>>, <<>>, <<Str, U, U>>, <<>>, <<>>, <<>>, <<>>, <<Str>> >>,
         IF b >= 21 THEN 8 ELSE 6)

PackageState(b) ==
    Struct(<<Str, Str, Lifecycle, Vec(BoundAddr)>>
               \o Since(b, 24, <<Opt(Str)>>))
InstalledPackage(b) == Struct(<<Str, Opt(U), PackageState(b)>>)

\* Mutant: the new variants are declared before ObservationUnavailable.
NodePackageErrorOrderInserted(b) ==
    IF b >= 24 THEN <<1, 2, 3, 4, 5, 6, 9, 10, 11, 7, 8>>
               ELSE [i \in 1 .. 8 |-> i]

\* TargetMismatch .. UnmanagedInstancePresent, then release 0.24's
\* UndeclaredPrivilegeProfile .. MissingPrivilegeProfile.
NodePackageErrorOrder(b) == [i \in 1 .. (IF b >= 24 THEN 11 ELSE 8) |-> i]

NodePackageError(b) ==
    EnumIn(<< <<PackageIdentity, PackageIdentity>>, <<>>, <<>>, <<Str, U, U>>,
              <<U>>, <<U, ManifestFormatRange>>, <<>>, <<>>,
              <<Str, Vec(Str)>>, <<Str>>, <<>> >>,
           NodePackageErrorOrder(b))

NodePackageResponse(b) ==
    Enum(<< <<>>, <<>>, <<Vec(InstalledPackage(b))>>, <<PackageState(b)>>,
            <<NodePackageError(b)>>, <<U>>, <<Vec(HostPort)>> >>, 7)

-----------------------------------------------------------------------------
(* Service enrollment. *)

DeliveryMode == Units(2)
ReloadHook   == Str
CertGroup    == Str
ServiceSpec  == Struct(<<Str, Str, ReloadHook, Opt(CertGroup)>>)

\* Register, then Deregister.
NodeEnrollRequest ==
    Enum(<< <<Str, DeliveryMode, Str, Opt(U), ServiceSpec, Duration, Str>>,
            <<Str, Str, Opt(U), Str>> >>, 2)

RegistrarUnavailableReason == Units(6)

\* ServiceSpecConflict, ServiceNameCollision, ServiceInstanceMismatch,
\* ServiceHostMismatch, RegistrarUnavailable, RegistrarBusy,
\* ServiceLabelInvalid.
NodeEnrollError ==
    Enum(<< <<>>, <<>>, <<>>, <<>>, <<RegistrarUnavailableReason>>,
            <<Duration>>, <<>> >>, 7)

NodeEnrollResponse ==
    Enum(<< <<BootstrapMaterial>>, <<>>, <<NodeEnrollError>> >>, 3)

=============================================================================
