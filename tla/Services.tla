------------------------------ MODULE Services -------------------------------
(***************************************************************************)
(* The logical service identifiers of src/src/service_id.rs: the service   *)
(* of each node request, the service of each wire code an agent is sent,   *)
(* and the catalogue.  An identifier is a family and a method; a family-   *)
(* level one has no method.                                                *)
(***************************************************************************)

ServiceId(f, m) == [family |-> f, method |-> m]

\* The empty method name, of family-level identifiers.
NoMethod == ""

IsFamily(id) == id.method = NoMethod

\* The family-level constants, by the wire code of the family.
FamilyConstants ==
    [NodeService          |-> ServiceId("node.service", NoMethod),
     NodeNetworkInterface |-> ServiceId("node.network_interface", NoMethod),
     NodeHostname         |-> ServiceId("node.hostname", NoMethod),
     NodeTimeSync         |-> ServiceId("node.time_sync", NoMethod),
     NodeLogging          |-> ServiceId("node.logging", NoMethod),
     NodeRemoteAccess     |-> ServiceId("node.remote_access", NoMethod),
     NodePower            |-> ServiceId("node.power", NoMethod),
     NodeObservation      |-> ServiceId("node.observation", NoMethod),
     NodeVersion          |-> ServiceId("node.version", NoMethod),
     NodePackage          |-> ServiceId("node.package", NoMethod),
     NodeEnroll           |-> ServiceId("node.enroll", NoMethod)]

NodeFamilies == DOMAIN FamilyConstants

-----------------------------------------------------------------------------
(* `service_id` of each Node*Request: the constant of each variant. *)

NodeServiceRequest ==
    [Start   |-> ServiceId("node.service", "start"),
     Stop    |-> ServiceId("node.service", "stop"),
     Status  |-> ServiceId("node.service", "status"),
     Restart |-> ServiceId("node.service", "restart")]

NodeNetworkInterfaceRequest ==
    [List        |-> ServiceId("node.network_interface", "list"),
     Get         |-> ServiceId("node.network_interface", "get"),
     Set         |-> ServiceId("node.network_interface", "set"),
     ResetConfig |-> ServiceId("node.network_interface", "reset_config"),
     Remove      |-> ServiceId("node.network_interface", "remove")]

NodeHostnameRequest ==
    [Get |-> ServiceId("node.hostname", "get"),
     Set |-> ServiceId("node.hostname", "set")]

NodeTimeSyncRequest ==
    [Get     |-> ServiceId("node.time_sync", "get"),
     Set     |-> ServiceId("node.time_sync", "set"),
     Enable  |-> ServiceId("node.time_sync", "enable"),
     Disable |-> ServiceId("node.time_sync", "disable"),
     Status  |-> ServiceId("node.time_sync", "status")]

NodeLoggingRequest ==
    [Get     |-> ServiceId("node.logging", "get"),
     Set     |-> ServiceId("node.logging", "set"),
     Clear   |-> ServiceId("node.logging", "clear"),
     Restart |-> ServiceId("node.logging", "restart")]

NodeRemoteAccessRequest ==
    [Get     |-> ServiceId("node.remote_access", "get"),
     Set     |-> ServiceId("node.remote_access", "set"),
     Restart |-> ServiceId("node.remote_access", "restart")]

NodePowerRequest ==
    [Reboot           |-> ServiceId("node.power", "reboot"),
     Shutdown         |-> ServiceId("node.power", "shutdown"),
     GracefulReboot   |-> ServiceId("node.power", "graceful_reboot"),
     GracefulShutdown |-> ServiceId("node.power", "graceful_shutdown")]

NodeObservationRequest ==
    [ProcessList   |-> ServiceId("node.observation", "process_list"),
     ResourceUsage |-> ServiceId("node.observation", "resource_usage"),
     Uptime        |-> ServiceId("node.observation", "uptime")]

\* Mutant: a method constant names another family that has the method too.
NodeVersionRequest_Copied ==
    [Get               |-> ServiceId("node.hostname", "get"),
     SetOsVersion      |-> ServiceId("node.version", "set_os_version"),
     SetProductVersion |-> ServiceId("node.version", "set_product_version")]

NodeVersionRequest ==
    [Get               |-> ServiceId("node.version", "get"),
     SetOsVersion      |-> ServiceId("node.version", "set_os_version"),
     SetProductVersion |-> ServiceId("node.version", "set_product_version")]

NodePackageRequest ==
    [Install       |-> ServiceId("node.package", "install"),
     Remove        |-> ServiceId("node.package", "remove"),
     ListInstalled |-> ServiceId("node.package", "list"),
     Status        |-> ServiceId("node.package", "status"),
     ListHostPorts |-> ServiceId("node.package", "list_host_ports")]

NodeEnrollRequest ==
    [Register   |-> ServiceId("node.enroll", "register"),
     Deregister |-> ServiceId("node.enroll", "deregister")]

Constants ==
    [NodeService          |-> NodeServiceRequest,
     NodeNetworkInterface |-> NodeNetworkInterfaceRequest,
     NodeHostname         |-> NodeHostnameRequest,
     NodeTimeSync         |-> NodeTimeSyncRequest,
     NodeLogging          |-> NodeLoggingRequest,
     NodeRemoteAccess     |-> NodeRemoteAccessRequest,
     NodePower            |-> NodePowerRequest,
     NodeObservation      |-> NodeObservationRequest,
     NodeVersion          |-> NodeVersionRequest,
     NodePackage          |-> NodePackageRequest,
     NodeEnroll           |-> NodeEnrollRequest]

\* A node request: the code of its Node*Request type and its variant.
Op(c, v) == [code |-> c, variant |-> v]

Operations ==
    {Op(x[1], x[2]) :
        x \in UNION {{c} \X DOMAIN Constants[c] : c \in NodeFamilies}}

service_id(op) == Constants[op.code][op.variant]

-----------------------------------------------------------------------------
(* from_client_request_code: node codes name a family, flat codes a method. *)

CommonCodes ==
    [DnsStart             |-> "dns_start",
     DnsStop              |-> "dns_stop",
     ReloadConfig         |-> "reload_config",
     ReloadTi             |-> "reload_ti",
     TorExitNodeList      |-> "tor_exit_node_list",
     SamplingPolicyList   |-> "sampling_policy_list",
     ReloadFilterRule     |-> "reload_filter_rule",
     UpdateConfig         |-> "update_config",
     DeleteCustomerData   |-> "delete_customer_data",
     DeleteSamplingPolicy |-> "delete_sampling_policy",
     InternalNetworkList  |-> "internal_network_list",
     Allowlist            |-> "allowlist",
     Blocklist            |-> "blocklist",
     EchoRequest          |-> "echo",
     TrustedUserAgentList |-> "trusted_user_agent_list",
     TrustedDomainList    |-> "trusted_domain_list",
     SemiSupervisedModels |-> "semi_supervised_models"]

EngineCodes ==
    [TrainModel      |-> "train_model",
     CloneModel      |-> "clone_model",
     CancelRun       |-> "cancel_run",
     RunDetectorOnce |-> "run_detector_once"]

\* The flat codes of operations that became node requests.
LegacyCodes ==
    [Reboot        |-> ServiceId("node.power", "reboot"),
     Shutdown      |-> ServiceId("node.power", "shutdown"),
     ResourceUsage |-> ServiceId("node.observation", "resource_usage"),
     ProcessList   |-> ServiceId("node.observation", "process_list")]

from_client_request_code(code) ==
    CASE code \in DOMAIN CommonCodes -> ServiceId("common", CommonCodes[code])
      [] code \in DOMAIN EngineCodes -> ServiceId("engine", EngineCodes[code])
      [] code \in DOMAIN LegacyCodes -> LegacyCodes[code]
      [] code \in NodeFamilies       -> FamilyConstants[code]

-----------------------------------------------------------------------------
(* all(): the catalogue, as the source lists it, of what an agent serves;  *)
(* the identifiers of the manager's own services follow there.              *)

Of(f, ms) == {ServiceId(f, m) : m \in ms}

HostCatalogue ==
    Of("node.service", {NoMethod, "start", "stop", "status", "restart"})
    \cup Of("node.network_interface",
            {NoMethod, "list", "get", "set", "reset_config", "remove"})
    \cup Of("node.hostname", {NoMethod, "get", "set"})
    \cup Of("node.time_sync",
            {NoMethod, "get", "set", "enable", "disable", "status"})
    \cup Of("node.logging", {NoMethod, "get", "set", "clear", "restart"})
    \cup Of("node.remote_access", {NoMethod, "get", "set", "restart"})
    \cup Of("node.power", {NoMethod, "reboot", "shutdown", "graceful_reboot",
                           "graceful_shutdown"})
    \cup Of("node.observation",
            {NoMethod, "process_list", "resource_usage", "uptime"})
    \cup Of("node.version", {NoMethod, "get", "set_os_version",
                             "set_product_version"})

PackageCatalogue ==
    Of("node.package", {NoMethod, "install", "remove", "list", "status",
                        "list_host_ports"})
    \cup Of("node.enroll", {NoMethod, "register", "deregister"})

\* common.renew_certificate has no request code any more.
FlatCatalogue ==
    Of("common", {"dns_start", "dns_stop", "reload_config", "update_config",
                  "delete_customer_data", "reload_ti", "tor_exit_node_list",
                  "trusted_domain_list", "sampling_policy_list",
                  "delete_sampling_policy", "reload_filter_rule",
                  "internal_network_list", "allowlist", "blocklist", "echo",
                  "trusted_user_agent_list", "semi_supervised_models",
                  "renew_certificate"})
    \cup Of("engine", {"train_model", "clone_model", "cancel_run",
                       "run_detector_once"})

all == HostCatalogue \cup PackageCatalogue \cup FlatCatalogue
=============================================================================
