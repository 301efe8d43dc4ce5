---------------------------- MODULE NodeApiProofs ----------------------------
(***************************************************************************)
(* The properties of NodeApi, for every set of agents (trait, loop and     *)
(* overridden methods) and of peers.                                       *)
(*                                                                         *)
(* What the two sides compute of one request (its service, the code, the   *)
(* method that serves it, whether it is answered) comes from tables and is *)
(* settled first, by lemmas about the tables: every constant is of the     *)
(* family of its request, service_id is injective, the catalogue is        *)
(* closed, a flat method and its operation correspond one to one.  The     *)
(* state then only has to remember that the call in progress is one a      *)
(* manager can make (GoodCall) and how far it got.                         *)
(***************************************************************************)
EXTENDS NodeApi, TLAPS

\* The families of src/src/service_id.rs, one by one.
LEMMA Families ==
    NodeFamilies = {"NodeService", "NodeNetworkInterface", "NodeHostname",
                    "NodeTimeSync", "NodeLogging", "NodeRemoteAccess",
                    "NodePower", "NodeObservation", "NodeVersion",
                    "NodePackage", "NodeEnroll"}
BY DEF NodeFamilies, FamilyConstants

\* A node request is its family's code and one of the family's variants.
LEMMA OperationShape ==
    ASSUME NEW op \in Operations
    PROVE  /\ op.code \in NodeFamilies
           /\ op.variant \in DOMAIN Constants[op.code]
           /\ op = Op(op.code, op.variant)
BY DEF Operations, Op

\* And every such pair is a request.
LEMMA OperationOf ==
    ASSUME NEW c \in NodeFamilies, NEW v \in DOMAIN Constants[c]
    PROVE  Op(c, v) \in Operations
<1> DEFINE x == <<c, v>>
           pairs == UNION {{d} \X DOMAIN Constants[d] : d \in NodeFamilies}
<1>1. x \in pairs
  OBVIOUS
<1>2. Op(x[1], x[2]) \in {Op(y[1], y[2]) : y \in pairs}
  BY <1>1
<1>3. QED
  BY <1>2 DEF Operations

\* Within a family, the variants have methods of their own.
LEMMA MethodsInjective ==
    ASSUME NEW c \in NodeFamilies,
           NEW v \in DOMAIN Constants[c], NEW w \in DOMAIN Constants[c],
           Constants[c][v] = Constants[c][w]
    PROVE  v = w
<1>1. CASE c = "NodeService"
  BY <1>1 DEF Constants, NodeServiceRequest, ServiceId
<1>2. CASE c = "NodeNetworkInterface"
  BY <1>2 DEF Constants, NodeNetworkInterfaceRequest, ServiceId
<1>3. CASE c = "NodeHostname"
  BY <1>3 DEF Constants, NodeHostnameRequest, ServiceId
<1>4. CASE c = "NodeTimeSync"
  BY <1>4 DEF Constants, NodeTimeSyncRequest, ServiceId
<1>5. CASE c = "NodeLogging"
  BY <1>5 DEF Constants, NodeLoggingRequest, ServiceId
<1>6. CASE c = "NodeRemoteAccess"
  BY <1>6 DEF Constants, NodeRemoteAccessRequest, ServiceId
<1>7. CASE c = "NodePower"
  BY <1>7 DEF Constants, NodePowerRequest, ServiceId
<1>8. CASE c = "NodeObservation"
  BY <1>8 DEF Constants, NodeObservationRequest, ServiceId
<1>9. CASE c = "NodeVersion"
  BY <1>9 DEF Constants, NodeVersionRequest, ServiceId
<1>10. CASE c = "NodePackage"
  BY <1>10 DEF Constants, NodePackageRequest, ServiceId
<1>11. CASE c = "NodeEnroll"
  BY <1>11 DEF Constants, NodeEnrollRequest, ServiceId
<1>12. QED
  BY <1>1, <1>2, <1>3, <1>4, <1>5, <1>6, <1>7, <1>8, <1>9, <1>10, <1>11,
     Families

\* The service of each family.
LEMMA FamilyServices ==
    /\ FamilyConstants["NodeService"] = ServiceId("node.service", NoMethod)
    /\ FamilyConstants["NodeNetworkInterface"] =
          ServiceId("node.network_interface", NoMethod)
    /\ FamilyConstants["NodeHostname"] = ServiceId("node.hostname", NoMethod)
    /\ FamilyConstants["NodeTimeSync"] = ServiceId("node.time_sync", NoMethod)
    /\ FamilyConstants["NodeLogging"] = ServiceId("node.logging", NoMethod)
    /\ FamilyConstants["NodeRemoteAccess"] =
          ServiceId("node.remote_access", NoMethod)
    /\ FamilyConstants["NodePower"] = ServiceId("node.power", NoMethod)
    /\ FamilyConstants["NodeObservation"] =
          ServiceId("node.observation", NoMethod)
    /\ FamilyConstants["NodeVersion"] = ServiceId("node.version", NoMethod)
    /\ FamilyConstants["NodePackage"] = ServiceId("node.package", NoMethod)
    /\ FamilyConstants["NodeEnroll"] = ServiceId("node.enroll", NoMethod)
BY DEF FamilyConstants

\* The families have names of their own.
LEMMA FamiliesInjective ==
    ASSUME NEW c \in NodeFamilies, NEW d \in NodeFamilies,
           FamilyConstants[c].family = FamilyConstants[d].family
    PROVE  c = d
BY Families, FamilyServices DEF ServiceId

\* The catalogue lists methods by family.
LEMMA Listed ==
    ASSUME NEW f, NEW ms, NEW m \in ms
    PROVE  ServiceId(f, m) \in Of(f, ms)
BY DEF Of

\* Family-level identifiers are in the catalogue.
LEMMA FamilyListed ==
    ASSUME NEW c \in NodeFamilies
    PROVE  FamilyConstants[c] \in all
BY Families, FamilyServices, Listed DEF all, HostCatalogue, PackageCatalogue

\* So is the service of every request, which is of the family that the
\* request's code names: each constant of the source was written with a
\* family of its own, and none with another's.
LEMMA RequestService ==
    ASSUME NEW op \in Operations
    PROVE  /\ service_id(op).family = FamilyConstants[op.code].family
           /\ service_id(op) \in all
<1> DEFINE c == op.code
           v == op.variant
<1>0. /\ c \in NodeFamilies
      /\ v \in DOMAIN Constants[c]
      /\ service_id(op) = Constants[c][v]
  BY OperationShape DEF service_id
<1> HIDE DEF c, v
<1>1. CASE c = "NodeService"
  <2>1. Constants[c][v] \in all
    BY <1>0, <1>1, Listed DEF Constants, NodeServiceRequest, all,
       HostCatalogue
  <2>2. Constants[c][v].family = "node.service"
    BY <1>0, <1>1 DEF Constants, NodeServiceRequest, ServiceId
  <2>3. FamilyConstants[c].family = "node.service"
    BY <1>1, FamilyServices DEF ServiceId
  <2>4. QED
    BY <1>0, <2>1, <2>2, <2>3 DEF c
<1>2. CASE c = "NodeNetworkInterface"
  <2>1. Constants[c][v] \in all
    BY <1>0, <1>2, Listed DEF Constants, NodeNetworkInterfaceRequest, all,
       HostCatalogue
  <2>2. Constants[c][v].family = "node.network_interface"
    BY <1>0, <1>2 DEF Constants, NodeNetworkInterfaceRequest, ServiceId
  <2>3. FamilyConstants[c].family = "node.network_interface"
    BY <1>2, FamilyServices DEF ServiceId
  <2>4. QED
    BY <1>0, <2>1, <2>2, <2>3 DEF c
<1>3. CASE c = "NodeHostname"
  <2>1. Constants[c][v] \in all
    BY <1>0, <1>3, Listed DEF Constants, NodeHostnameRequest, all,
       HostCatalogue
  <2>2. Constants[c][v].family = "node.hostname"
    BY <1>0, <1>3 DEF Constants, NodeHostnameRequest, ServiceId
  <2>3. FamilyConstants[c].family = "node.hostname"
    BY <1>3, FamilyServices DEF ServiceId
  <2>4. QED
    BY <1>0, <2>1, <2>2, <2>3 DEF c
<1>4. CASE c = "NodeTimeSync"
  <2>1. Constants[c][v] \in all
    BY <1>0, <1>4, Listed DEF Constants, NodeTimeSyncRequest, all,
       HostCatalogue
  <2>2. Constants[c][v].family = "node.time_sync"
    BY <1>0, <1>4 DEF Constants, NodeTimeSyncRequest, ServiceId
  <2>3. FamilyConstants[c].family = "node.time_sync"
    BY <1>4, FamilyServices DEF ServiceId
  <2>4. QED
    BY <1>0, <2>1, <2>2, <2>3 DEF c
<1>5. CASE c = "NodeLogging"
  <2>1. Constants[c][v] \in all
    BY <1>0, <1>5, Listed DEF Constants, NodeLoggingRequest, all,
       HostCatalogue
  <2>2. Constants[c][v].family = "node.logging"
    BY <1>0, <1>5 DEF Constants, NodeLoggingRequest, ServiceId
  <2>3. FamilyConstants[c].family = "node.logging"
    BY <1>5, FamilyServices DEF ServiceId
  <2>4. QED
    BY <1>0, <2>1, <2>2, <2>3 DEF c
<1>6. CASE c = "NodeRemoteAccess"
  <2>1. Constants[c][v] \in all
    BY <1>0, <1>6, Listed DEF Constants, NodeRemoteAccessRequest, all,
       HostCatalogue
  <2>2. Constants[c][v].family = "node.remote_access"
    BY <1>0, <1>6 DEF Constants, NodeRemoteAccessRequest, ServiceId
  <2>3. FamilyConstants[c].family = "node.remote_access"
    BY <1>6, FamilyServices DEF ServiceId
  <2>4. QED
    BY <1>0, <2>1, <2>2, <2>3 DEF c
<1>7. CASE c = "NodePower"
  <2>1. Constants[c][v] \in all
    BY <1>0, <1>7, Listed DEF Constants, NodePowerRequest, all,
       HostCatalogue
  <2>2. Constants[c][v].family = "node.power"
    BY <1>0, <1>7 DEF Constants, NodePowerRequest, ServiceId
  <2>3. FamilyConstants[c].family = "node.power"
    BY <1>7, FamilyServices DEF ServiceId
  <2>4. QED
    BY <1>0, <2>1, <2>2, <2>3 DEF c
<1>8. CASE c = "NodeObservation"
  <2>1. Constants[c][v] \in all
    BY <1>0, <1>8, Listed DEF Constants, NodeObservationRequest, all,
       HostCatalogue
  <2>2. Constants[c][v].family = "node.observation"
    BY <1>0, <1>8 DEF Constants, NodeObservationRequest, ServiceId
  <2>3. FamilyConstants[c].family = "node.observation"
    BY <1>8, FamilyServices DEF ServiceId
  <2>4. QED
    BY <1>0, <2>1, <2>2, <2>3 DEF c
<1>9. CASE c = "NodeVersion"
  <2>1. Constants[c][v] \in all
    BY <1>0, <1>9, Listed DEF Constants, NodeVersionRequest, all,
       HostCatalogue
  <2>2. Constants[c][v].family = "node.version"
    BY <1>0, <1>9 DEF Constants, NodeVersionRequest, ServiceId
  <2>3. FamilyConstants[c].family = "node.version"
    BY <1>9, FamilyServices DEF ServiceId
  <2>4. QED
    BY <1>0, <2>1, <2>2, <2>3 DEF c
<1>10. CASE c = "NodePackage"
  <2>1. Constants[c][v] \in all
    BY <1>0, <1>10, Listed DEF Constants, NodePackageRequest, all,
       PackageCatalogue
  <2>2. Constants[c][v].family = "node.package"
    BY <1>0, <1>10 DEF Constants, NodePackageRequest, ServiceId
  <2>3. FamilyConstants[c].family = "node.package"
    BY <1>10, FamilyServices DEF ServiceId
  <2>4. QED
    BY <1>0, <2>1, <2>2, <2>3 DEF c
<1>11. CASE c = "NodeEnroll"
  <2>1. Constants[c][v] \in all
    BY <1>0, <1>11, Listed DEF Constants, NodeEnrollRequest, all,
       PackageCatalogue
  <2>2. Constants[c][v].family = "node.enroll"
    BY <1>0, <1>11 DEF Constants, NodeEnrollRequest, ServiceId
  <2>3. FamilyConstants[c].family = "node.enroll"
    BY <1>11, FamilyServices DEF ServiceId
  <2>4. QED
    BY <1>0, <2>1, <2>2, <2>3 DEF c
<1>12. QED
  BY <1>0, <1>1, <1>2, <1>3, <1>4, <1>5, <1>6, <1>7, <1>8, <1>9, <1>10,
     <1>11, Families

\* No two node requests share a service: what service_id forgets of a request
\* is its parameters only.
THEOREM ServiceIdInjective ==
    ASSUME NEW op \in Operations, NEW o \in Operations,
           service_id(op) = service_id(o)
    PROVE  op = o
<1>1. FamilyConstants[op.code].family = FamilyConstants[o.code].family
  BY RequestService
<1>2. op.code = o.code
  BY <1>1, OperationShape, FamiliesInjective
<1>3. Constants[op.code][op.variant] = Constants[op.code][o.variant]
  BY <1>2 DEF service_id
<1>4. op.variant = o.variant
  BY <1>2, <1>3, OperationShape, MethodsInjective
<1>5. QED
  BY <1>2, <1>4, OperationShape

\* A grouped code is read back as its family.
LEMMA GroupedCode ==
    ASSUME NEW c \in NodeFamilies
    PROVE  /\ from_client_request_code(c) = FamilyConstants[c]
           /\ c \notin DOMAIN LegacyOp
           /\ IsFamily(FamilyConstants[c])
<1>1. /\ c \notin DOMAIN CommonCodes
      /\ c \notin DOMAIN EngineCodes
      /\ c \notin DOMAIN LegacyCodes
  BY Families DEF CommonCodes, EngineCodes, LegacyCodes
<1>2. from_client_request_code(c) = FamilyConstants[c]
  BY <1>1 DEF from_client_request_code
<1>3. c \notin DOMAIN LegacyOp /\ IsFamily(FamilyConstants[c])
  BY Families, FamilyServices DEF LegacyOp, IsFamily, ServiceId
<1>4. QED
  BY <1>2, <1>3

-----------------------------------------------------------------------------
(* The calls a manager can make. *)

Styles == {"plain", "authorized"} \cup ContextStyles
Needs == {"nothing", "subject", "fingerprint"}

\* A call in progress: its request and authorizer are about the same family,
\* and it travels under the family's code or, from an old manager that asks
\* nobody, under the flat one.
GoodCall(c) ==
    /\ c.op \in Operations
    /\ c.style \in Styles
    /\ c.policy.op \in Operations /\ c.policy.need \in Needs
    /\ c.ctx.peer_identity \in PeerContext
    /\ c.ctx = [peer_identity |-> c.ctx.peer_identity,
                extras |-> c.ctx.extras]
    /\ \/ c.code = c.op.code
       \/ /\ c.code \in DOMAIN LegacyOp /\ c.op = LegacyOp[c.code]
          /\ c.style = "plain" /\ c.method = c.code
    /\ c.method = "NodePower" <=> c.code = "NodePower"

\* The methods that take a request, with its code and the delegation.
LEMMA EntryShape ==
    ASSUME NEW op \in Operations, NEW style, NEW m \in Entries(op, style)
    PROVE  /\ m \notin DOMAIN LegacyOp
           /\ Delegated(m, style) = "NodePower" <=> op.code = "NodePower"
<1>1. CASE m \in DOMAIN Shortcuts
  <2>1. m \in {"reboot", "shutdown"}
    BY <1>1 DEF Shortcuts
  <2>2. Delegated(m, style) = "NodePower"
    BY <2>1 DEF Delegated, ContextFacade, HostFacade, PowerFacade,
       PackageFacade
  <2>3. Shortcuts[m] = op
    BY <1>1 DEF Entries
  <2>4. op.code = "NodePower"
    BY <2>1, <2>3 DEF Shortcuts, Op
  <2>5. QED
    BY <2>1, <2>2, <2>4 DEF LegacyOp
<1>2. CASE m \notin DOMAIN Shortcuts
  <2>1. m \in Methods /\ Accepts(Delegated(m, style), op)
    BY <1>2 DEF Entries
  <2>2. m \notin DOMAIN LegacyOp
    BY <2>1, Families DEF LegacyOp, Methods, UnaryFamilies, PackageMethods,
       HostFacade, PowerFacade, PackageFacade
  <2>3. Delegated(m, style) = "NodePower" <=> op.code = "NodePower"
    BY <2>1, Families DEF Accepts, UnaryFamilies, PackageMethods
  <2>4. QED
    BY <2>2, <2>3
<1>3. QED
  BY <1>1, <1>2

\* What an authorizer is about.
LEMMA PolicyShape ==
    ASSUME NEW op \in Operations, NEW p \in Policies(op)
    PROVE  p.op \in Operations /\ p.need \in Needs
<1>1. NoopAuthorizer.op \in Operations /\ NoopAuthorizer.need = "nothing"
  <2>1. "NodePower" \in NodeFamilies
    BY Families
  <2>2. "Reboot" \in DOMAIN Constants["NodePower"]
    BY DEF Constants, NodePowerRequest
  <2>3. Op("NodePower", "Reboot") \in Operations
    BY <2>1, <2>2, OperationOf
  <2>4. QED
    BY <2>3 DEF NoopAuthorizer
<1>2. CASE p = NoopAuthorizer
  BY <1>1, <1>2 DEF Needs
<1>3. CASE p # NoopAuthorizer
  BY <1>3 DEF Policies, Needs
<1>4. QED
  BY <1>2, <1>3

\* A request of the current release.
LEMMA GroupedCall ==
    ASSUME NEW op \in Operations, NEW style \in Styles,
           NEW m \in Entries(op, style), NEW peer \in PeerContext, NEW extras,
           NEW p \in Policies(op)
    PROVE  GoodCall(NewCall(m, op, style,
                            from_authenticated_inputs(peer, extras), p))
<1> DEFINE ctx == from_authenticated_inputs(peer, extras)
           c == NewCall(m, op, style, ctx, p)
<1>1. /\ c.op = op /\ c.style = style /\ c.policy = p /\ c.ctx = ctx
      /\ c.method = Delegated(m, style) /\ c.code = op.code
  BY EntryShape DEF NewCall
<1>2. ctx.peer_identity \in PeerContext
  BY DEF from_authenticated_inputs, PeerIdentity, PeerContext
<1>3. ctx = [peer_identity |-> ctx.peer_identity, extras |-> ctx.extras]
  BY DEF from_authenticated_inputs
<1>4. p.op \in Operations /\ p.need \in Needs
  BY PolicyShape
<1>5. c.method = "NodePower" <=> c.code = "NodePower"
  BY <1>1, EntryShape
<1> HIDE DEF c, ctx
<1>6. GoodCall(c)
  BY <1>1, <1>2, <1>3, <1>4, <1>5 DEF GoodCall
<1>7. QED
  BY <1>6 DEF c, ctx

\* The NoopAuthorizer is about every operation.
LEMMA NoopAmong ==
    ASSUME NEW op \in Operations
    PROVE  NoopAuthorizer \in Policies(op)
BY DEF Policies

\* The flat requests of an old manager are operations of the families.
LEMMA FlatOperation ==
    ASSUME NEW m \in DOMAIN LegacyOp
    PROVE  /\ LegacyOp[m] \in Operations
           /\ m \notin NodeFamilies
           /\ LegacyOp[m].variant = m
           /\ LegacyOp[m].code \in {"NodePower", "NodeObservation"}
<1>1. m \in {"Reboot", "Shutdown", "ResourceUsage", "ProcessList"}
  BY DEF LegacyOp
<1>2. m \notin NodeFamilies
  BY <1>1, Families
<1>3. /\ LegacyOp[m].variant = m
      /\ LegacyOp[m].code \in {"NodePower", "NodeObservation"}
  BY <1>1 DEF LegacyOp, Op
<1>4. LegacyOp[m] = Op(LegacyOp[m].code, LegacyOp[m].variant)
  BY <1>1 DEF LegacyOp, Op
<1>5. LegacyOp[m].variant \in DOMAIN Constants[LegacyOp[m].code]
  BY <1>1 DEF LegacyOp, Op, Constants, NodePowerRequest, NodeObservationRequest
<1>6. LegacyOp[m].code \in NodeFamilies
  BY <1>3, Families
<1>7. LegacyOp[m] \in Operations
  BY <1>4, <1>5, <1>6, OperationOf
<1>8. QED
  BY <1>2, <1>3, <1>7

\* A request of an old manager.
LEMMA FlatCall ==
    ASSUME NEW m \in DOMAIN LegacyOp
    PROVE  GoodCall(NewCall(m, LegacyOp[m], "plain", NoContext,
                            NoopAuthorizer))
<1> DEFINE c == NewCall(m, LegacyOp[m], "plain", NoContext, NoopAuthorizer)
<1>1. Delegated(m, "plain") = m /\ m # "NodePower"
  BY DEF LegacyOp, Delegated, ContextStyles, HostFacade, PowerFacade,
     PackageFacade
<1>2. /\ c.op = LegacyOp[m] /\ c.style = "plain"
      /\ c.policy = NoopAuthorizer /\ c.ctx = NoContext
      /\ c.method = m /\ c.code = m
  BY <1>1 DEF NewCall
<1>3. /\ NoContext.peer_identity \in PeerContext
      /\ NoContext = [peer_identity |-> NoContext.peer_identity,
                      extras |-> NoContext.extras]
  BY DEF NoContext, from_peer_context, from_authenticated_inputs,
     PeerIdentity, PeerContext
<1>4. NoopAuthorizer.op \in Operations /\ NoopAuthorizer.need \in Needs
  BY FlatOperation, NoopAmong, PolicyShape
<1> HIDE DEF c
<1>5. GoodCall(c)
  BY <1>1, <1>2, <1>3, <1>4, FlatOperation DEF GoodCall, Styles
<1>6. QED
  BY <1>5 DEF c

\* A flat code is read back as the operation it stands for.
LEMMA FlatCode ==
    ASSUME NEW m \in DOMAIN LegacyOp
    PROVE  /\ from_client_request_code(m) = service_id(LegacyOp[m])
           /\ ~IsFamily(service_id(LegacyOp[m]))
<1>1. m \in {"Reboot", "Shutdown", "ResourceUsage", "ProcessList"}
  BY DEF LegacyOp
<1>2. /\ m \notin DOMAIN CommonCodes
      /\ m \notin DOMAIN EngineCodes
      /\ m \in DOMAIN LegacyCodes
      /\ m \notin NodeFamilies
  BY <1>1, Families DEF CommonCodes, EngineCodes, LegacyCodes
<1>3. from_client_request_code(m) = LegacyCodes[m]
  BY <1>2 DEF from_client_request_code
<1>4. LegacyCodes[m] = service_id(LegacyOp[m])
  BY <1>1 DEF LegacyCodes, LegacyOp, Op, service_id, Constants,
     NodePowerRequest, NodeObservationRequest
<1>5. ~IsFamily(LegacyCodes[m])
  <2>1. LegacyCodes[m].method \in
            {"reboot", "shutdown", "resource_usage", "process_list"}
    BY <1>1 DEF LegacyCodes, ServiceId
  <2>2. NoMethod \notin {"reboot", "shutdown", "resource_usage", "process_list"}
    BY DEF NoMethod
  <2>3. QED
    BY <2>1, <2>2 DEF IsFamily
<1>6. QED
  BY <1>3, <1>4, <1>5

\* What the code of a call is read back as.
LEMMA CodeOfCall ==
    ASSUME NEW c, GoodCall(c)
    PROVE  LET named == from_client_request_code(c.code) IN
           /\ named \in all /\ service_id(c.op) \in all
           /\ Covers(named, service_id(c.op))
           /\ IsFamily(named) <=> c.code \notin DOMAIN LegacyOp
<1>1. /\ c.op \in Operations
      /\ service_id(c.op) \in all
      /\ service_id(c.op).family = FamilyConstants[c.op.code].family
  BY RequestService DEF GoodCall
<1>2. CASE c.code = c.op.code
  <2>1. c.code \in NodeFamilies
    BY <1>1, <1>2, OperationShape
  <2>2. /\ from_client_request_code(c.code) = FamilyConstants[c.code]
        /\ c.code \notin DOMAIN LegacyOp
        /\ IsFamily(FamilyConstants[c.code])
        /\ FamilyConstants[c.code] \in all
    BY <2>1, GroupedCode, FamilyListed
  <2>3. QED
    BY <1>1, <1>2, <2>2 DEF Covers, IsFamily
<1>3. CASE c.code \in DOMAIN LegacyOp /\ c.op = LegacyOp[c.code]
  <2>1. /\ from_client_request_code(c.code) = service_id(c.op)
        /\ ~IsFamily(service_id(c.op))
    BY <1>3, FlatCode
  <2>2. QED
    BY <1>1, <1>3, <2>1 DEF Covers
<1>4. QED
  BY <1>2, <1>3 DEF GoodCall

-----------------------------------------------------------------------------
(* The authorizer's answer and the two sides' view of a power request. *)

\* Asking by any of the ways finds exactly the forbidden calls.
LEMMA AllowedExactly ==
    ASSUME NEW c, GoodCall(c)
    PROVE  Allowed(c, service_id(c.op)) <=> ~Forbidden(c)
<1>1. service_id(c.op) = service_id(c.policy.op) <=> c.op = c.policy.op
  BY ServiceIdInjective DEF GoodCall
<1>2. to_peer_context(c.ctx) = c.ctx.peer_identity
  BY DEF to_peer_context, GoodCall, PeerContext
<1>3. c.style \in {"plain", "authorized", "with_context", "adapter"}
  BY DEF GoodCall, Styles, ContextStyles
<1>4. QED
  BY <1>1, <1>2, <1>3 DEF Allowed, authorize, Forbidden

\* The manager waits for exactly the answers the agent sends.
LEMMA SidesAgree ==
    ASSUME NEW c, GoodCall(c)
    PROVE  AwaitsAnswer(c) <=> ExpectsResponse(c)
BY DEF GoodCall, AwaitsAnswer, ExpectsResponse

-----------------------------------------------------------------------------
(* What a handler does with a request. *)

Answers == {"none", "Ok", "Err", "foreign", "unsupported", "Terminal"}

\* An answer r to the operation op.
GoodRun(r, op) ==
    /\ r = Ran(r.via, r.did, r.answer)
    /\ r.did \in {NoOp, op}
    /\ r.answer \in Answers
    /\ r.answer = "foreign" => op.code = "NodeObservation"

\* An agent's own method does what it is asked, or nothing.
LEMMA OwnMethodRuns ==
    ASSUME NEW m, NEW op, NEW r \in OwnMethod(m, op),
           m = "node_observation" => op.code = "NodeObservation"
    PROVE  GoodRun(r, op) /\ r.via = m
BY DEF OwnMethod, Ran, GoodRun, Answers

\* A default method does nothing.
LEMMA UnsupportedRuns ==
    ASSUME NEW op
    PROVE  GoodRun(Unsupported, op) /\ Unsupported.via = "default"
BY DEF Unsupported, Ran, GoodRun, Answers

\* The names of the methods are not that of a default.
LEMMA MethodNames ==
    /\ \A c \in NodeFamilies :
          /\ GroupMethod[c] # "default"
          /\ GroupMethod[c] = "node_observation" => c = "NodeObservation"
    /\ DOMAIN FlatMethod = DOMAIN LegacyOp
    /\ \A m \in DOMAIN FlatMethod :
          FlatMethod[m] # "default" /\ FlatMethod[m] # "node_observation"
<1>1. \A c \in NodeFamilies :
          /\ GroupMethod[c] # "default"
          /\ GroupMethod[c] = "node_observation" => c = "NodeObservation"
  BY Families DEF GroupMethod
<1>2. DOMAIN FlatMethod = DOMAIN LegacyOp
  BY DEF FlatMethod, LegacyOp
<1>3. \A m \in DOMAIN FlatMethod :
          FlatMethod[m] # "default" /\ FlatMethod[m] # "node_observation"
  BY DEF FlatMethod
<1>4. QED
  BY <1>1, <1>2, <1>3

\* A power or observation request with a flat method is the operation that
\* the flat code of that name stands for.
LEMMA FlatVariant ==
    ASSUME NEW op \in Operations,
           op.code \in {"NodePower", "NodeObservation"},
           op.variant \in DOMAIN LegacyOp
    PROVE  LegacyOp[op.variant] = op
<1>1. CASE op.code = "NodePower"
  <2>1. op.variant \in DOMAIN NodePowerRequest
    BY <1>1, OperationShape DEF Constants
  <2>2. op.variant \in {"Reboot", "Shutdown"}
    BY <2>1 DEF NodePowerRequest, LegacyOp
  <2>3. QED
    BY <1>1, <2>2, OperationShape DEF LegacyOp
<1>2. CASE op.code = "NodeObservation"
  <2>1. op.variant \in DOMAIN NodeObservationRequest
    BY <1>2, OperationShape DEF Constants
  <2>2. op.variant \in {"ResourceUsage", "ProcessList"}
    BY <2>1 DEF NodeObservationRequest, LegacyOp
  <2>3. QED
    BY <1>2, <2>2, OperationShape DEF LegacyOp
<1>3. QED
  BY <1>1, <1>2

\* The flat methods, reached from the default grouped ones.
LEMMA FlatRuns ==
    ASSUME NEW op \in Operations, NEW r \in Flat(op),
           op.code \in {"NodePower", "NodeObservation"}
    PROVE  /\ GoodRun(r, op)
           /\ r.via = "default" <=>
                 ~\E m \in DOMAIN LegacyOp :
                      LegacyOp[m] = op /\ Overrides(FlatMethod[m])
<1> DEFINE own == /\ op.variant \in DOMAIN FlatMethod
                  /\ Overrides(FlatMethod[op.variant])
<1>1. CASE own
  <2>1. GoodRun(r, op) /\ r.via = FlatMethod[op.variant]
    BY <1>1, OwnMethodRuns, MethodNames DEF Flat
  <2>2. r.via # "default"
    BY <1>1, <2>1, MethodNames
  <2>3. LegacyOp[op.variant] = op /\ Overrides(FlatMethod[op.variant])
    BY <1>1, FlatVariant, MethodNames
  <2>4. QED
    BY <1>1, <2>1, <2>2, <2>3, MethodNames
<1>2. CASE ~own
  <2>1. r = Unsupported
    BY <1>2 DEF Flat
  <2>2. ASSUME NEW m \in DOMAIN LegacyOp, LegacyOp[m] = op,
               Overrides(FlatMethod[m])
        PROVE  FALSE
    <3>1. op.variant = m
      BY <2>2, FlatOperation
    <3>2. QED
      BY <1>2, <2>2, <3>1, MethodNames
  <2>3. QED
    BY <2>1, <2>2, UnsupportedRuns
<1>3. QED
  BY <1>1, <1>2

\* A grouped request ends in a default method exactly when neither the
\* grouped nor, for a Handler, the flat one is overridden.
LEMMA GroupedRuns ==
    ASSUME NEW op \in Operations, NEW r \in Grouped(op)
    PROVE  /\ GoodRun(r, op)
           /\ r.via = "default" <=> ~Implements(op)
<1>1. op.code \in NodeFamilies
  BY OperationShape
<1>2. CASE Overrides(GroupMethod[op.code])
  <2>1. r \in OwnMethod(GroupMethod[op.code], op)
    BY <1>2 DEF Grouped
  <2>2. QED
    BY <1>1, <1>2, <2>1, OwnMethodRuns, MethodNames DEF Implements
<1>3. CASE /\ ~Overrides(GroupMethod[op.code])
           /\ agent.trait = "Handler"
           /\ op.code \in {"NodePower", "NodeObservation"}
  <2>1. r \in Flat(op)
    BY <1>3 DEF Grouped, NodeHandlerDefault, HandlerDefault
  <2>2. QED
    BY <1>3, <2>1, FlatRuns DEF Implements
<1>4. CASE /\ ~Overrides(GroupMethod[op.code])
           /\ ~(/\ agent.trait = "Handler"
                /\ op.code \in {"NodePower", "NodeObservation"})
  <2>1. r = Unsupported
    BY <1>4 DEF Grouped, NodeHandlerDefault, HandlerDefault
  <2>2. ASSUME NEW m \in DOMAIN LegacyOp, LegacyOp[m] = op
        PROVE  op.code \in {"NodePower", "NodeObservation"}
    BY <2>2, FlatOperation
  <2>3. ~Implements(op)
    BY <1>4, <2>2 DEF Implements
  <2>4. QED
    BY <2>1, <2>3, UnsupportedRuns
<1>5. QED
  BY <1>2, <1>3, <1>4

\* An install: its preflight and its apply.
LEMMA InstallRuns ==
    ASSUME NEW op, NEW r \in Install(op)
    PROVE  GoodRun(r, op)
<1>1. CASE r = Unsupported
  BY <1>1, UnsupportedRuns
<1>2. CASE r \in {Ran("node_package_install_preflight", NoOp, a) :
                      a \in {"Terminal", "Err"}}
  BY <1>2 DEF Ran, GoodRun, Answers
<1>3. CASE r \in OwnMethod("node_package_install", op)
  BY <1>3, OwnMethodRuns
<1>4. QED
  BY <1>1, <1>2, <1>3 DEF Install

\* Every arm of the two loops.
LEMMA ArmRuns ==
    ASSUME GoodCall(call), agent \in AgentType, NEW r \in Arm
    PROVE  /\ GoodRun(r, call.op)
           /\ r.answer = "foreign" => call.code = "NodeObservation"
           /\ /\ call.op # Op("NodePackage", "Install")
              /\ call.code \in DOMAIN LegacyOp => agent.loop = "handle"
              => (r.via = "default" <=> ~Implements(call.op))
<1>0. /\ call.op \in Operations
      /\ call.code \notin DOMAIN LegacyOp => call.code = call.op.code
      /\ agent.loop \in {"handle", "handle_node"}
  BY DEF GoodCall, AgentType
<1>a. call.code \in DOMAIN LegacyOp => call.op # Op("NodePackage", "Install")
  <2>1. SUFFICES ASSUME call.code \in DOMAIN LegacyOp
                 PROVE  call.op.code \in {"NodePower", "NodeObservation"}
    BY DEF Op
  <2>2. call.op = LegacyOp[call.code]
    BY <1>0, <2>1, FlatOperation, OperationShape DEF GoodCall
  <2>3. QED
    BY <2>1, <2>2, FlatOperation
<1>1. CASE call.code \in DOMAIN LegacyOp /\ agent.loop = "handle"
  <2>1. PICK g \in Grouped(call.op) : r = Translate(g)
    BY <1>1, <1>a DEF Arm
  <2>2. GoodRun(g, call.op) /\ (g.via = "default" <=> ~Implements(call.op))
    BY <1>0, GroupedRuns
  <2>3. /\ r = Ran(g.via, g.did, r.answer)
        /\ r.answer = IF g.answer = "foreign" THEN "Err" ELSE g.answer
    BY <2>1, <2>2 DEF Translate, GoodRun, Ran
  <2>4. /\ r.via = g.via /\ r.did = g.did
        /\ r.answer \in Answers /\ r.answer # "foreign"
    BY <2>2, <2>3 DEF Ran, GoodRun, Answers
  <2>5. QED
    BY <2>2, <2>3, <2>4 DEF GoodRun
<1>2. CASE call.code \in DOMAIN LegacyOp /\ agent.loop = "handle_node"
  <2>1. r = Ran("none", NoOp, "Err")
    BY <1>2, <1>a DEF Arm
  <2>2. QED
    BY <1>2, <2>1 DEF GoodRun, Ran, Answers
<1>3. CASE /\ call.code \notin DOMAIN LegacyOp
           /\ call.op = Op("NodePackage", "Install")
  <2>1. r \in Install(call.op)
    BY <1>3 DEF Arm
  <2>2. GoodRun(r, call.op)
    BY <2>1, InstallRuns
  <2>3. QED
    BY <1>0, <1>3, <2>2 DEF GoodRun
<1>4. CASE /\ call.code \notin DOMAIN LegacyOp
           /\ call.op # Op("NodePackage", "Install")
  <2>1. r \in Grouped(call.op)
    BY <1>4 DEF Arm
  <2>2. GoodRun(r, call.op) /\ (r.via = "default" <=> ~Implements(call.op))
    BY <1>0, <2>1, GroupedRuns
  <2>3. QED
    BY <1>0, <1>4, <2>2 DEF GoodRun
<1>5. QED
  BY <1>0, <1>1, <1>2, <1>3, <1>4

-----------------------------------------------------------------------------
(* The inductive invariant. *)

Types ==
    /\ agent \in AgentType
    /\ phase \in {"idle", "called", "waiting", "returned"}
    /\ request \in {"none", "queued", "answered", "unanswered"}

\* Before a call is sent nobody was asked and nothing is known of it.
CallInv ==
    /\ phase # "idle" => GoodCall(call)
    /\ phase \in {"idle", "called"} => request = "none" /\ asked = NoService
    /\ asked # NoService => asked = service_id(call.op) /\ Asks

\* Only what is neither refused by the method nor forbidden is sent.
SentInv ==
    /\ request # "none" => ~Forbidden(call) /\ ~Rejects(call)
    /\ phase = "waiting" => request # "none" /\ AwaitsAnswer(call)
    /\ request = "unanswered" => ~ExpectsResponse(call)

RanInv ==
    /\ request \in {"none", "queued"} => ran = Ran("none", NoOp, "none")
    /\ GoodRun(ran, call.op)
    /\ ran.answer = "foreign" => call.code = "NodeObservation"

OutcomeInv ==
    /\ phase # "returned" => outcome = "none"
    /\ phase = "returned" =>
          (outcome = "denied" <=> Forbidden(call) /\ ~Rejects(call))
    /\ outcome = "Sent" => call.code = "NodePower"
    /\ outcome = "foreign" => call.code = "NodeObservation"

IInv ==
    /\ Types /\ CallInv /\ SentInv /\ RanInv /\ OutcomeInv
    /\ EitherOverrideServes

\* Between two calls nothing ran, for whichever operation.
LEMMA NothingRan ==
    ASSUME NEW op
    PROVE  GoodRun(Ran("none", NoOp, "none"), op)
BY DEF GoodRun, Ran, Answers

\* The invariant holds at the start.
LEMMA InitIInv == Init => IInv
<1> SUFFICES ASSUME Init PROVE IInv
  OBVIOUS
<1>1. agent \in AgentType
  BY AgentsAssumption DEF Init
<1>2. GoodRun(ran, call.op) /\ ran.answer = "none"
  BY NothingRan DEF Init, Ran
<1>3. QED
  BY <1>1, <1>2 DEF Init, IInv, Types, CallInv, SentInv, RanInv, OutcomeInv,
     EitherOverrideServes

\* A call starts from the idle state.
LEMMA StartStep ==
    ASSUME NEW c, GoodCall(c), IInv, Idle, Start(c)
    PROVE  IInv'
<1> USE DEF Idle, Start
<1>1. Types' /\ CallInv'
  BY DEF IInv, Types, CallInv, Asks
<1>2. SentInv'
  BY DEF IInv, SentInv
<1>3. RanInv'
  <2>1. ran' = Ran("none", NoOp, "none")
    BY DEF IInv, RanInv
  <2>2. QED
    BY <2>1, NothingRan DEF RanInv, Ran
<1>4. OutcomeInv'
  BY DEF IInv, OutcomeInv
<1>5. EitherOverrideServes'
  BY DEF EitherOverrideServes
<1>6. QED
  BY <1>1, <1>2, <1>3, <1>4, <1>5 DEF IInv

\* The steps that call the caller back or send the request, which leave the
\* call and what ran alone.
LEMMA KeepsRan ==
    ASSUME IInv, UNCHANGED <<agent, call, ran, request>>
    PROVE  RanInv' /\ EitherOverrideServes'
BY DEF IInv, RanInv, EitherOverrideServes, Implements, Overrides

\* The method refuses the request before anyone is asked.
LEMMA RejectStep == IInv /\ Reject => IInv'
<1> SUFFICES ASSUME IInv, Reject PROVE IInv'
  OBVIOUS
<1> USE DEF Reject, ReturnToCaller
<1>1. Types' /\ CallInv'
  BY DEF IInv, Types, CallInv, Asks
<1>2. SentInv' /\ OutcomeInv'
  BY DEF IInv, SentInv, OutcomeInv
<1>3. QED
  BY <1>1, <1>2, KeepsRan DEF IInv

\* The authorizer denies the call.
LEMMA DenyStep == IInv /\ Deny => IInv'
<1> SUFFICES ASSUME IInv, Deny PROVE IInv'
  OBVIOUS
<1> USE DEF Deny, ReturnToCaller
<1>0. GoodCall(call)
  BY DEF IInv, CallInv
<1>1. Forbidden(call) /\ Asks
  BY <1>0, AllowedExactly DEF Forbidden, Asks
<1>2. Types' /\ CallInv'
  BY <1>1 DEF IInv, Types, CallInv, Asks
<1>3. SentInv' /\ OutcomeInv'
  BY <1>1 DEF IInv, SentInv, OutcomeInv
<1>4. QED
  BY <1>2, <1>3, KeepsRan DEF IInv

\* The request is sent.
LEMMA SendStep == IInv /\ Send => IInv'
<1> SUFFICES ASSUME IInv, Send PROVE IInv'
  OBVIOUS
<1> USE DEF Send, ReturnToCaller
<1>0. GoodCall(call)
  BY DEF IInv, CallInv
<1>1. ~Forbidden(call) /\ ~Rejects(call)
  BY <1>0, AllowedExactly
<1>2. Types' /\ CallInv'
  BY DEF IInv, Types, CallInv, Asks
<1>3. SentInv'
  BY <1>1 DEF IInv, SentInv
<1>4. OutcomeInv'
  BY <1>0, <1>1 DEF IInv, OutcomeInv, AwaitsAnswer, GoodCall
<1>5. RanInv'
  BY DEF IInv, RanInv, CallInv
<1>6. EitherOverrideServes'
  BY DEF EitherOverrideServes
<1>7. QED
  BY <1>2, <1>3, <1>4, <1>5, <1>6 DEF IInv

\* The answer reaches the caller.
LEMMA RecvStep == IInv /\ Recv => IInv'
<1> SUFFICES ASSUME IInv, Recv PROVE IInv'
  OBVIOUS
<1> USE DEF Recv, ReturnToCaller
<1>1. Types' /\ CallInv'
  BY DEF IInv, Types, CallInv, Asks
<1>2. SentInv' /\ ~Forbidden(call)
  BY DEF IInv, SentInv
<1>3. OutcomeInv'
  <2>1. ran.answer \in Answers /\ (ran.answer = "foreign" =>
                                        call.code = "NodeObservation")
    BY DEF IInv, RanInv, GoodRun
  <2>2. QED
    BY <1>2, <2>1 DEF OutcomeInv, Answers
<1>4. QED
  BY <1>1, <1>2, <1>3, KeepsRan DEF IInv

\* The connection fails before the answer.
LEMMA RecvFailsStep == IInv /\ RecvFails => IInv'
<1> SUFFICES ASSUME IInv, RecvFails PROVE IInv'
  OBVIOUS
<1> USE DEF RecvFails, ReturnToCaller
<1>1. Types' /\ CallInv'
  BY DEF IInv, Types, CallInv, Asks
<1>2. ~Forbidden(call)
  BY AllowedExactly DEF IInv, CallInv
<1>3. SentInv' /\ OutcomeInv'
  BY <1>2 DEF IInv, SentInv, OutcomeInv
<1>4. QED
  BY <1>1, <1>3, KeepsRan DEF IInv

\* The agent serves the request.
LEMMA ServeStep == IInv /\ Serve => IInv'
<1> SUFFICES ASSUME IInv, Serve PROVE IInv'
  OBVIOUS
<1> USE DEF Serve
<1>0. GoodCall(call) /\ agent \in AgentType
  BY DEF IInv, CallInv, Types
<1>1. Types' /\ CallInv'
  BY DEF IInv, Types, CallInv, Asks
<1>2. SentInv' /\ OutcomeInv'
  BY DEF IInv, SentInv, OutcomeInv
<1>3. PICK r \in Arm : ran' = r
  OBVIOUS
<1>4. /\ GoodRun(r, call.op)
      /\ r.answer = "foreign" => call.code = "NodeObservation"
      /\ /\ call.op # Op("NodePackage", "Install")
         /\ call.code \in DOMAIN LegacyOp => agent.loop = "handle"
         => (r.via = "default" <=> ~Implements(call.op))
  BY <1>0, <1>3, ArmRuns
<1>5. RanInv'
  BY <1>3, <1>4 DEF RanInv
<1>6. EitherOverrideServes'
  BY <1>3, <1>4 DEF EitherOverrideServes, Implements, Overrides
<1>7. QED
  BY <1>1, <1>2, <1>5, <1>6 DEF IInv

\* The connection is lost.
LEMMA LostStep == IInv /\ Lost => IInv'
<1> SUFFICES ASSUME IInv, Lost PROVE IInv'
  OBVIOUS
<1> USE DEF Lost
<1>1. Types' /\ CallInv'
  BY DEF IInv, Types, CallInv, Asks
<1>2. SentInv' /\ OutcomeInv'
  BY DEF IInv, SentInv, OutcomeInv
<1>3. QED
  BY <1>1, <1>2, KeepsRan DEF IInv

\* The next call starts from nothing.
LEMMA NextCallStep == IInv /\ NextCall => IInv'
<1> SUFFICES ASSUME IInv, NextCall PROVE IInv'
  OBVIOUS
<1> USE DEF NextCall
<1>1. Types' /\ CallInv'
  BY DEF IInv, Types, CallInv, Asks
<1>2. SentInv' /\ OutcomeInv' /\ EitherOverrideServes'
  BY DEF IInv, SentInv, OutcomeInv, EitherOverrideServes
<1>3. RanInv'
  BY NothingRan DEF RanInv, Ran
<1>4. QED
  BY <1>1, <1>2, <1>3 DEF IInv

\* Every step keeps the invariant.
LEMMA StepIInv == IInv /\ [Next]_vars => IInv'
<1> SUFFICES ASSUME IInv, [Next]_vars PROVE IInv'
  OBVIOUS
<1>0. /\ "plain" \in Styles /\ "authorized" \in Styles
      /\ ContextStyles \subseteq Styles
  BY DEF Styles
<1>1. CASE CallPlain
  <2>1. PICK op \in Operations : \E m \in Entries(op, "plain") :
            Start(NewCall(m, op, "plain", NoContext, NoopAuthorizer))
    BY <1>1 DEF CallPlain
  <2>2. PICK m \in Entries(op, "plain") :
            Start(NewCall(m, op, "plain", NoContext, NoopAuthorizer))
    BY <2>1
  <2>3. GoodCall(NewCall(m, op, "plain", NoContext, NoopAuthorizer))
    <3>1. [subject |-> "none", fingerprint |-> "none"] \in PeerContext
      BY DEF PeerContext
    <3>2. QED
      BY <1>0, <3>1, NoopAmong, GroupedCall DEF NoContext, from_peer_context
  <2>4. QED
    BY <1>1, <2>2, <2>3, StartStep DEF CallPlain
<1>2. CASE CallAuthorized
  <2>1. PICK op \in Operations, peer \in Peers :
            \E m \in Entries(op, "authorized"), p \in Policies(op) :
               Start(NewCall(m, op, "authorized", from_peer_context(peer), p))
    BY <1>2 DEF CallAuthorized
  <2>2. PICK m \in Entries(op, "authorized"), p \in Policies(op) :
            Start(NewCall(m, op, "authorized", from_peer_context(peer), p))
    BY <2>1
  <2>3. GoodCall(NewCall(m, op, "authorized", from_peer_context(peer), p))
    <3>1. peer \in PeerContext
      BY PeersAssumption
    <3>2. QED
      BY <1>0, <3>1, GroupedCall DEF from_peer_context
  <2>4. QED
    BY <1>2, <2>2, <2>3, StartStep DEF CallAuthorized
<1>3. CASE CallWithContext
  <2>1. PICK op \in Operations, peer \in Peers, style \in ContextStyles :
            \E m \in Entries(op, style), p \in Policies(op) :
               Start(NewCall(m, op, style,
                             from_authenticated_inputs(peer, "some"), p))
    BY <1>3 DEF CallWithContext
  <2>2. PICK m \in Entries(op, style), p \in Policies(op) :
            Start(NewCall(m, op, style,
                          from_authenticated_inputs(peer, "some"), p))
    BY <2>1
  <2>3. GoodCall(NewCall(m, op, style,
                         from_authenticated_inputs(peer, "some"), p))
    <3>1. peer \in PeerContext
      BY PeersAssumption
    <3>2. QED
      BY <1>0, <3>1, GroupedCall
  <2>4. QED
    BY <1>3, <2>2, <2>3, StartStep DEF CallWithContext
<1>4. CASE CallLegacy
  <2>1. PICK m \in DOMAIN LegacyOp :
            Start(NewCall(m, LegacyOp[m], "plain", NoContext, NoopAuthorizer))
    BY <1>4 DEF CallLegacy
  <2>2. QED
    BY <1>4, <2>1, FlatCall, StartStep DEF CallLegacy
<1>5. CASE UNCHANGED vars
  <2>1. Types' /\ CallInv'
    BY <1>5 DEF vars, IInv, Types, CallInv, Asks
  <2>2. SentInv' /\ OutcomeInv'
    BY <1>5 DEF vars, IInv, SentInv, OutcomeInv
  <2>3. QED
    BY <1>5, <2>1, <2>2, KeepsRan DEF vars, IInv
<1>6. QED
  BY <1>1, <1>2, <1>3, <1>4, <1>5, RejectStep, DenyStep, SendStep, RecvStep,
     RecvFailsStep, ServeStep, LostStep, NextCallStep DEF Next

-----------------------------------------------------------------------------

\* Whatever agents and peers there are, a node call and its handling stay
\* within the invariant.
THEOREM NodeApiInvariant == Spec => []IInv
BY InitIInv, StepIInv, PTL DEF Spec

\* An authorizer that denies one operation to some peers stops exactly those
\* calls, by every entry point, and what an agent carries out is what the
\* call named (api.rs, node.rs, auth.rs).
THEOREM AuthorizationExact == Spec => []DeniesExactly
<1>1. IInv => DeniesExactly
  <2> SUFFICES ASSUME IInv PROVE DeniesExactly
    OBVIOUS
  <2>1. phase = "returned" =>
           (outcome = "denied" <=> Forbidden(call) /\ ~Rejects(call))
    BY DEF IInv, OutcomeInv
  <2>2. ASSUME ran.did # NoOp
        PROVE  ran.did = call.op /\ ~Forbidden(call) /\ ~Rejects(call)
    <3>1. ran.did = call.op
      BY <2>2 DEF IInv, RanInv, GoodRun
    <3>2. request # "none"
      BY <2>2 DEF IInv, RanInv, Ran
    <3>3. QED
      BY <3>1, <3>2 DEF IInv, SentInv
  <2>3. QED
    BY <2>1, <2>2 DEF DeniesExactly
<1>2. QED
  BY <1>1, NodeApiInvariant, PTL

\* A request meets a default method exactly when the agent implements its
\* operation neither way, over both wire formats and both loops (request.rs).
THEOREM OverridesServe == Spec => []EitherOverrideServes
<1>1. IInv => EitherOverrideServes
  BY DEF IInv
<1>2. QED
  BY <1>1, NodeApiInvariant, PTL

\* Manager and agent agree on which requests are answered, and an old manager
\* never gets a response that its code cannot carry (node_power,
\* node_power_expects_response, the flat arms).
THEOREM AnswersFit == Spec => []AnswerFits
<1>1. IInv => AnswerFits
  <2> SUFFICES ASSUME IInv PROVE AnswerFits
    OBVIOUS
  <2>1. ASSUME phase = "waiting" PROVE request # "unanswered"
    <3>1. GoodCall(call) /\ AwaitsAnswer(call)
      BY <2>1 DEF IInv, CallInv, SentInv
    <3>2. QED
      BY <3>1, SidesAgree DEF IInv, SentInv
  <2>2. /\ outcome = "Sent" => call.code = "NodePower"
        /\ outcome = "foreign" => call.code = "NodeObservation"
    BY DEF IInv, OutcomeInv
  <2>3. "NodeObservation" \notin DOMAIN LegacyOp
    BY Families, GroupedCode
  <2>4. QED
    BY <2>1, <2>2, <2>3 DEF AnswerFits
<1>2. QED
  BY <1>1, NodeApiInvariant, PTL

\* The service that a request's code is read back as covers the service that
\* was authorized and the one that is carried out, a flat code that one
\* exactly, and the catalogue lists them (service_id.rs).
THEOREM CodeMatchesService == Spec => []CodeNamesService
<1>1. IInv => CodeNamesService
  <2> SUFFICES ASSUME IInv PROVE CodeNamesService
    OBVIOUS
  <2> DEFINE named == from_client_request_code(call.code)
  <2>1. ASSUME asked # NoService
        PROVE  asked \in all /\ Covers(named, asked)
    <3>1. phase # "idle" /\ asked = service_id(call.op)
      BY <2>1 DEF IInv, CallInv
    <3>2. GoodCall(call)
      BY <3>1 DEF IInv, CallInv
    <3>3. QED
      BY <3>1, <3>2, CodeOfCall
  <2>2. ASSUME ran.did # NoOp
        PROVE  /\ named \in all /\ Covers(named, service_id(ran.did))
               /\ IsFamily(named) <=> call.code \notin DOMAIN LegacyOp
    <3>1. ran.did = call.op
      BY <2>2 DEF IInv, RanInv, GoodRun
    <3>2. request # "none"
      BY <2>2 DEF IInv, RanInv, Ran
    <3>3. GoodCall(call)
      BY <3>2 DEF IInv, CallInv
    <3>4. QED
      BY <3>1, <3>3, CodeOfCall
  <2>3. QED
    BY <2>1, <2>2 DEF CodeNamesService
<1>2. QED
  BY <1>1, NodeApiInvariant, PTL
=============================================================================
