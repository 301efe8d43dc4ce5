---------------------------- MODULE TrustRollout -----------------------------
(***************************************************************************)
(* Rolling out release-signing trust generations to one host over the      *)
(* reserved "trust" target of node.package.  The crate carries the         *)
(* readings a manager goes by: `active_trust_epoch` of an apply's outcome, *)
(* AgentInfo's connect-time epoch and manifest formats, and                *)
(* `ManifestFormatRange::contains` (src/src/types.rs, src/src/lib.rs,      *)
(* src/src/client.rs).  Activation on the agent and the manager's          *)
(* reconciliation are external, modelled from the rule types.rs documents  *)
(* for each.                                                               *)
(*                                                                         *)
(* Every delivery has a stream of its own, so deliveries overlap and their *)
(* answers arrive in any order or not at all.  Option<u64> and             *)
(* Option<ManifestFormatRange> are sets of at most one element.            *)
(***************************************************************************)
EXTENDS Naturals

CONSTANTS
    MaxEpoch,  \* generations are numbered 1 .. MaxEpoch; 0 is the factory's
    FormatOf,  \* the manifest format of each
    Launch,    \* the launch format
    Ranges,    \* manifest formats the agent's releases decode
    MaxFails   \* calls that may fail and connections that may be lost

Epochs == 0 .. MaxEpoch

ASSUME TrustAssumption ==
    /\ MaxEpoch \in Nat /\ MaxFails \in Nat /\ Launch \in Nat
    /\ FormatOf \in [1 .. MaxEpoch -> Nat]
    /\ Ranges \subseteq [min : Nat, max : Nat]

VARIABLES
    active,     \* the generation the agent is active on
    range,      \* the manifest formats its binary decodes
    builder,    \* what its ConnectionBuilder reports: epoch, formats
    up,         \* whether it is connected
    current,    \* the manager's own active generation
    confirmed,  \* the highest epoch the manager has confirmed of the host
    formats,    \* the host's manifest formats as far as the manager knows
    pushed,     \* deliveries in progress, by epoch
    orphans,    \* deliveries whose call failed, still on the agent
    answers,    \* outcomes on their way to the manager
    fails       \* failures so far

agentVars   == <<active, range, builder>>
managerVars == <<current, confirmed, formats>>
trustVars   == <<active, range, builder, up, current, confirmed, formats, pushed,
                 orphans, answers, fails>>

-----------------------------------------------------------------------------
(* What the crate's types report. *)

Kinds == {"TrustActive", "StaleTrustSet", "UnsupportedManifestFormat",
          "InsufficientDiskSpace"}

\* A NodePackageResponse of a trust apply; `supported` only with an
\* unsupported format, `active_epoch` with a trust outcome.
Response == [kind : Kinds, active_epoch : Epochs, supported : Ranges]

\* Mutant: a refusal carries no epoch.
active_trust_epoch_NoStale(r) ==
    IF r.kind \in {"TrustActive", "UnsupportedManifestFormat"}
    THEN {r.active_epoch} ELSE {}

\* Mutant: the wrong number of an unsupported format's pair is read.
active_trust_epoch_Supported(r) ==
    CASE r.kind = "UnsupportedManifestFormat" -> {r.supported.max}
      [] r.kind = "InsufficientDiskSpace"     -> {}
      [] OTHER                                -> {r.active_epoch}

active_trust_epoch(r) ==
    IF r.kind \in {"TrustActive", "StaleTrustSet", "UnsupportedManifestFormat"}
    THEN {r.active_epoch} ELSE {}

\* Mutant: the range reaches one format too far.
contains_Beyond(rg, f) == rg.min <= f /\ f <= rg.max + 1

contains(rg, f) == rg.min <= f /\ f <= rg.max

-----------------------------------------------------------------------------
(* The agent. *)

\* ConnectionBuilder::active_trust_epoch and manifest_formats; a builder
\* keeps what was set before for every later connect.
ReportEpoch ==
    /\ builder.epoch # {active}
    /\ builder' = [builder EXCEPT !.epoch = {active}]
    /\ UNCHANGED <<active, range, up, managerVars, pushed, orphans, answers,
                   fails>>

ReportFormats ==
    /\ builder.formats # {range}
    /\ builder' = [builder EXCEPT !.formats = {range}]
    /\ UNCHANGED <<active, range, up, managerVars, pushed, orphans, answers,
                   fails>>

\* The manifest is decoded before its epoch is compared.
Outcome(e) ==
    IF FormatOf[e] \notin range.min .. range.max
    THEN [kind |-> "UnsupportedManifestFormat", active_epoch |-> active,
          supported |-> range]
    ELSE IF e > active
    THEN [kind |-> "TrustActive", active_epoch |-> e, supported |-> range]
    ELSE [kind |-> "StaleTrustSet", active_epoch |-> active,
          supported |-> range]

Activate(e) == active' = IF Outcome(e).kind = "TrustActive" THEN e ELSE active

Apply(e) ==
    /\ e \in pushed
    /\ Activate(e)
    /\ pushed' = pushed \ {e}
    /\ answers' = answers \cup {Outcome(e)}
    /\ UNCHANGED <<range, builder, up, managerVars, orphans, fails>>

\* An apply may fail before it gets to the generation.
ApplyFails(e) ==
    /\ e \in pushed /\ fails < MaxFails
    /\ fails' = fails + 1
    /\ pushed' = pushed \ {e}
    /\ answers' = answers \cup {[kind |-> "InsufficientDiskSpace",
                                 active_epoch |-> 0, supported |-> range]}
    /\ UNCHANGED <<agentVars, up, managerVars, orphans>>

\* A delivery outlives its call; nobody hears of its outcome.
ApplyOrphan(e) ==
    /\ e \in orphans
    /\ Activate(e)
    /\ orphans' = orphans \ {e}
    /\ UNCHANGED <<range, builder, up, managerVars, pushed, answers, fails>>

\* The agent's binary is replaced: what was running is gone, the trust set
\* stays, and the new process builds its connection anew.
Upgrade(rg) ==
    /\ rg.max > range.max
    /\ range' = rg
    /\ builder' = [epoch |-> {}, formats |-> {}]
    /\ up' = FALSE
    /\ pushed' = {} /\ orphans' = {} /\ answers' = {}
    /\ UNCHANGED <<active, managerVars, fails>>

-----------------------------------------------------------------------------
(* The manager. *)

\* A reading above the manager's own epoch confirms nothing.
Confirm(reading) ==
    confirmed' = IF \E e \in reading : confirmed < e /\ e <= current
                 THEN CHOOSE e \in reading : TRUE ELSE confirmed

Publish ==
    /\ current < MaxEpoch
    /\ current' = current + 1
    /\ UNCHANGED <<agentVars, up, confirmed, formats, pushed, orphans,
                   answers, fails>>

\* The handshake hands over AgentInfo.
Connect ==
    /\ ~up
    /\ up' = TRUE
    /\ Confirm(builder.epoch)
    /\ formats' = builder.formats
    /\ UNCHANGED <<agentVars, current, pushed, orphans, answers, fails>>

\* Unknown formats stand for the launch format only.
Readable(e) ==
    IF formats = {} THEN FormatOf[e] = Launch
    ELSE \A rg \in formats : contains(rg, FormatOf[e])

\* Whatever the host misses is sent, over and over.
Push(e) ==
    /\ up /\ confirmed < e /\ e <= current
    /\ e \notin pushed /\ Readable(e)
    /\ pushed' = pushed \cup {e}
    /\ UNCHANGED <<agentVars, up, managerVars, orphans, answers, fails>>

RecvOutcome(r) ==
    /\ r \in answers
    /\ answers' = answers \ {r}
    /\ Confirm(active_trust_epoch(r))
    /\ formats' = IF r.kind = "UnsupportedManifestFormat" THEN {r.supported}
                  ELSE formats
    /\ UNCHANGED <<agentVars, up, current, pushed, orphans, fails>>

PushFails(e) ==
    /\ e \in pushed /\ fails < MaxFails
    /\ fails' = fails + 1
    /\ pushed' = pushed \ {e}
    /\ orphans' \in {orphans, orphans \cup {e}}
    /\ UNCHANGED <<agentVars, up, managerVars, answers>>

Disconnect ==
    /\ up /\ fails < MaxFails
    /\ fails' = fails + 1
    /\ up' = FALSE
    /\ pushed' = {} /\ answers' = {}
    /\ orphans' \in {orphans, orphans \cup pushed}
    /\ UNCHANGED <<agentVars, managerVars>>

-----------------------------------------------------------------------------
TrustInit ==
    /\ active \in Epochs /\ current \in Epochs
    /\ range \in Ranges
    /\ builder = [epoch |-> {}, formats |-> {}]
    /\ up = FALSE /\ confirmed = 0 /\ formats = {}
    /\ pushed = {} /\ orphans = {} /\ answers = {}
    /\ fails = 0

Deliveries ==
    \E e \in 1 .. MaxEpoch :
        Push(e) \/ Apply(e) \/ ApplyFails(e) \/ ApplyOrphan(e) \/ PushFails(e)

TrustNext ==
    \/ ReportEpoch \/ ReportFormats
    \/ Publish \/ Connect \/ Disconnect
    \/ Deliveries
    \/ \E r \in answers : RecvOutcome(r)
    \/ \E rg \in Ranges : Upgrade(rg)

\* The agent reconnects and answers; the manager reconciles periodically.
TrustFairness ==
    /\ WF_trustVars(Connect)
    /\ \A e \in 1 .. MaxEpoch : WF_trustVars(Push(e)) /\ WF_trustVars(Apply(e))
    /\ WF_trustVars(\E r \in answers : RecvOutcome(r))

TrustSpec == TrustInit /\ [][TrustNext]_trustVars /\ TrustFairness

-----------------------------------------------------------------------------
\* The types of the two sides' state.
TypeOK ==
    /\ active \in Epochs /\ current \in Epochs /\ confirmed \in Epochs
    /\ range \in Ranges
    /\ builder \in [epoch : SUBSET Epochs, formats : SUBSET Ranges]
    /\ up \in BOOLEAN /\ formats \in SUBSET Ranges
    /\ pushed \in SUBSET (1 .. MaxEpoch) /\ orphans \in SUBSET (1 .. MaxEpoch)
    /\ answers \in SUBSET Response
    /\ fails \in 0 .. MaxFails

\* The host is never confirmed on an epoch it has not reached, although
\* readings overtake each other and a builder repeats an old one: the epoch
\* every outcome and the handshake carry is a lower bound for good.
ConfirmedIsReached == confirmed <= active

\* The host cannot be brought up to date: it is ahead already, it cannot
\* decode the generation, or the manager does not know that it can.
OutOfReach ==
    \/ active > current
    \/ current > 0 /\ FormatOf[current] \notin range.min .. range.max
    \/ current > 0 /\ formats = {} /\ FormatOf[current] # Launch

\* In the end the manager knows that the host is on its own epoch, lost
\* answers and repeated deliveries notwithstanding: the refusal of a
\* generation the host already has confirms it.
RolloutConfirmed == <>[](confirmed = current \/ OutOfReach)

\* The manager does not send forever: not to a host that has the generation
\* and not to one that cannot decode it.
PushingEnds == <>[](pushed = {} \/ active > current)
=============================================================================
