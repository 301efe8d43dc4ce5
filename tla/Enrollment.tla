----------------------------- MODULE Enrollment ------------------------------
(***************************************************************************)
(* Service enrollment over node.enroll: managers' operations register      *)
(* service identities with the registrar agent and tear them down again.   *)
(* The crate's part is the family's answers and what it lets a manager     *)
(* read off them, `retry_after` and `leaves_teardown_owed`                 *)
(* (src/src/types.rs).  The registrar and the manager's driver are         *)
(* external, modelled from what the types carry between them.              *)
(*                                                                         *)
(* Every call has a stream of its own (ManagerCall).  A call that fails    *)
(* leaves its outcome unknown: the request may have been carried out, may  *)
(* never be, or may be later, by a handler that outlives the call.         *)
(***************************************************************************)
EXTENDS Naturals

CONSTANTS
    Ops,       \* operations, each one identity's life from install on
    Ids,       \* registration identities, as the registrar derives them
    IdOf,      \* the identity of an operation's parts
    HostOf,    \* its host
    SpecOf,    \* its ServiceSpec
    Refusals,  \* what the registrar refuses with before it creates anything
    MaxLost    \* calls that may fail

Binding(o) == [host |-> HostOf[o], spec |-> SpecOf[o]]

\* Any number of operations may name one identity, host and spec.
ASSUME EnrollmentAssumption == IdOf \in [Ops -> Ids] /\ MaxLost \in Nat

Absent == [host |-> "absent", spec |-> "absent"]
ASSUME AbsentAssumption == \A o \in Ops : Binding(o) # Absent

VARIABLES
    store,   \* the identity store: per identity, what it is bound to
    state,   \* per operation, what the manager holds it to be
    doubt,   \* per operation, whether a call's outcome is unknown
    calls,   \* requests not yet carried out; abandoned when the call failed
    answer,  \* per operation, the answer on its way to the manager
    lost,    \* calls that failed so far
    late     \* per operation, whether an abandoned Register was carried out
             \* after the manager had given the operation up (history)

vars == <<store, state, doubt, calls, answer, lost, late>>

-----------------------------------------------------------------------------
(* NodeEnrollResponse and what it tells the manager. *)

Reasons == {"CredentialInvalid", "NotProvisioned", "AuditUnwritable",
            "EndpointUnreachable", "PostMintUnrecordable",
            "RegistrarUnreachable"}
Conflicts == {"ServiceSpecConflict", "ServiceNameCollision",
              "ServiceInstanceMismatch", "ServiceHostMismatch",
              "ServiceLabelInvalid"}
\* RegistrarUnavailable is its reason.
NodeEnrollError == Conflicts \cup Reasons \cup {"RegistrarBusy"}

NoAnswer == "none"

\* Mutant: a conflict is taken for a failure that clears on its own.
retry_after_Conflict(r) == r \in {"RegistrarBusy", "ServiceSpecConflict"}

\* Whether there is a delay to honour before the request is driven again.
retry_after(r) == r = "RegistrarBusy"

\* Mutant: every unavailable registrar refused before the mint.
leaves_teardown_owed_Never(r) == FALSE

\* Mutant: a conflict is taken to leave an identity behind.
leaves_teardown_owed_Conflict(r) ==
    r \in {"PostMintUnrecordable", "ServiceSpecConflict"}

leaves_teardown_owed(r) == r = "PostMintUnrecordable"

-----------------------------------------------------------------------------
(* The registrar. *)

\* Refusals before anything is created, for either verb; the other errors
\* have an action of their own.
ASSUME RefusalsAssumption ==
    Refusals \subseteq NodeEnrollError \
        {"RegistrarBusy", "ServiceSpecConflict", "ServiceNameCollision",
         "ServiceHostMismatch", "PostMintUnrecordable",
         "RegistrarUnreachable"}

Call == [op : Ops, verb : {"Register", "Deregister"}, live : BOOLEAN]

\* The answer to an abandoned call goes nowhere.
Reply(c, r) == answer' = IF c.live THEN [answer EXCEPT ![c.op] = r] ELSE answer

Bound(c) == store[IdOf[c.op]]

Refuse(c) ==
    /\ c \in calls
    /\ calls' = calls \ {c}
    /\ \E r \in Refusals : Reply(c, r)
    /\ UNCHANGED <<store, state, doubt, lost, late>>

Busy(c) ==
    /\ c \in calls
    /\ calls' = calls \ {c}
    /\ Reply(c, "RegistrarBusy")
    /\ UNCHANGED <<store, state, doubt, lost, late>>

\* The host is compared before the spec.
Conflict(c) ==
    /\ c \in calls /\ c.verb = "Register"
    /\ Bound(c) \notin {Absent, Binding(c.op)}
    /\ calls' = calls \ {c}
    /\ Reply(c, IF Bound(c).host # HostOf[c.op] THEN "ServiceNameCollision"
                ELSE "ServiceSpecConflict")
    /\ UNCHANGED <<store, state, doubt, lost, late>>

\* A Register that finds its own spec, whoever registered it, is answered
\* with fresh material.
Mint(c) ==
    /\ c \in calls /\ c.verb = "Register"
    /\ Bound(c) \in {Absent, Binding(c.op)}
    /\ calls' = calls \ {c}
    /\ store' = [store EXCEPT ![IdOf[c.op]] = Binding(c.op)]
    /\ late' = IF state[c.op] \in {"owed", "settled"}
               THEN [late EXCEPT ![c.op] = TRUE] ELSE late
    /\ \E r \in {"Material", "PostMintUnrecordable"} : Reply(c, r)
    /\ UNCHANGED <<state, doubt, lost>>

TearDown(c) ==
    /\ c \in calls /\ c.verb = "Deregister"
    /\ Bound(c) = Absent \/ Bound(c).host = HostOf[c.op]
    /\ calls' = calls \ {c}
    /\ store' = [store EXCEPT ![IdOf[c.op]] = Absent]
    /\ Reply(c, "Done")
    /\ UNCHANGED <<state, doubt, lost, late>>

HostMismatch(c) ==
    /\ c \in calls /\ c.verb = "Deregister"
    /\ Bound(c) # Absent /\ Bound(c).host # HostOf[c.op]
    /\ calls' = calls \ {c}
    /\ Reply(c, "ServiceHostMismatch")
    /\ UNCHANGED <<store, state, doubt, lost, late>>

\* The handler of an abandoned call is gone with its connection.
Vanish(c) ==
    /\ c \in calls /\ ~c.live
    /\ calls' = calls \ {c}
    /\ UNCHANGED <<store, state, doubt, answer, lost, late>>

-----------------------------------------------------------------------------
(* The manager. *)

Calling(o) ==
    answer[o] # NoAnswer \/ \E v \in {"Register", "Deregister"} :
        [op |-> o, verb |-> v, live |-> TRUE] \in calls

Send(o, v) ==
    calls' = calls \cup {[op |-> o, verb |-> v, live |-> TRUE]}

Register(o) ==
    /\ state[o] \in {"new", "registering"} /\ ~Calling(o)
    /\ state' = [state EXCEPT ![o] = "registering"]
    /\ Send(o, "Register")
    /\ UNCHANGED <<store, doubt, answer, lost, late>>

\* Uninstalls and owed teardowns alike.
Deregister(o) ==
    /\ state[o] = "owed" /\ ~Calling(o)
    /\ Send(o, "Deregister")
    /\ UNCHANGED <<store, state, doubt, answer, lost, late>>

\* The call returns an error, or its caller drops it: outcome unknown.  The
\* manager drives the request again or owes a teardown.
CallFails(o) ==
    /\ Calling(o) /\ lost < MaxLost
    /\ lost' = lost + 1
    /\ doubt' = [doubt EXCEPT ![o] = TRUE]
    /\ answer' = [answer EXCEPT ![o] = NoAnswer]
    /\ calls' = {[c EXCEPT !.live = IF c.op = o THEN FALSE ELSE c.live] :
                    c \in calls}
    /\ state' \in {state, [state EXCEPT ![o] = "owed"]}
    /\ UNCHANGED <<store, late>>

\* What a failed Register leaves the manager with.
AfterFailure(o, r) ==
    IF retry_after(r) THEN "registering"
    ELSE IF leaves_teardown_owed(r) \/ doubt[o] THEN "owed"
    ELSE "failed"

RecvRegister(o) ==
    /\ state[o] = "registering" /\ answer[o] # NoAnswer
    /\ state' = [state EXCEPT ![o] = IF answer[o] = "Material" THEN "installed"
                                     ELSE AfterFailure(o, answer[o])]
    /\ answer' = [answer EXCEPT ![o] = NoAnswer]
    /\ UNCHANGED <<store, doubt, calls, lost, late>>

\* With no registrar agent connected the manager answers itself.
Unreachable(o) ==
    /\ state[o] \in {"new", "registering"} /\ ~Calling(o)
    /\ state' = [state EXCEPT ![o] = AfterFailure(o, "RegistrarUnreachable")]
    /\ UNCHANGED <<store, doubt, calls, answer, lost, late>>

Uninstall(o) ==
    /\ state[o] = "installed"
    /\ state' = [state EXCEPT ![o] = "owed"]
    /\ UNCHANGED <<store, doubt, calls, answer, lost, late>>

\* A teardown is settled by Done, or when the identity is another host's.
RecvDeregister(o) ==
    /\ state[o] = "owed" /\ answer[o] # NoAnswer
    /\ state' = IF answer[o] \in {"Done", "ServiceHostMismatch"}
                THEN [state EXCEPT ![o] = "settled"] ELSE state
    /\ answer' = [answer EXCEPT ![o] = NoAnswer]
    /\ UNCHANGED <<store, doubt, calls, lost, late>>

-----------------------------------------------------------------------------
Init ==
    /\ store = [i \in Ids |-> Absent]
    /\ state = [o \in Ops |-> "new"]
    /\ doubt = [o \in Ops |-> FALSE]
    /\ calls = {} /\ answer = [o \in Ops |-> NoAnswer]
    /\ lost = 0 /\ late = [o \in Ops |-> FALSE]

Registrar(c) ==
    \/ Refuse(c) \/ Busy(c) \/ Conflict(c) \/ Mint(c)
    \/ TearDown(c) \/ HostMismatch(c) \/ Vanish(c)

Manager(o) ==
    \/ Register(o) \/ Deregister(o) \/ Unreachable(o)
    \/ CallFails(o) \/ RecvRegister(o) \/ Uninstall(o) \/ RecvDeregister(o)

Next ==
    \/ \E c \in Call : Registrar(c)
    \/ \E o \in Ops : Manager(o)

Live(o) == [op |-> o, verb |-> "Register", live |-> TRUE]

\* The registrar looks a Register up in the store.
Decide(c) == Conflict(c) \/ Mint(c)

\* The manager drives a pending Register and reads the answers.  The
\* registrar's rate limit clears: while Registers keep coming, not every
\* answer is RegistrarBusy.
Fairness ==
    /\ \A o \in Ops : WF_vars(Register(o)) /\ WF_vars(RecvRegister(o))
    /\ SF_vars(\E o \in Ops : Decide(Live(o)))

Spec == Init /\ [][Next]_vars /\ Fairness

-----------------------------------------------------------------------------
\* No identity stays in the store behind the manager's back: it belongs to
\* an operation that is registering it, has it, or owes its teardown - or
\* whose abandoned Register was carried out after it had been given up,
\* which no answer can tell.  leaves_teardown_owed is what the manager goes
\* by when a Register fails.
NoSilentOrphan ==
    \A i \in Ids : store[i] # Absent =>
        \E o \in Ops :
            /\ IdOf[o] = i /\ Binding(o) = store[i]
            /\ state[o] \in {"registering", "installed", "owed"} \/ late[o]

\* A registration is kept per identity and host.
SameRow(o, p) == IdOf[p] = IdOf[o] /\ HostOf[p] = HostOf[o]

\* The operation was told of a registration, or cannot exclude one.
Told(o) ==
    \/ state[o] \in {"installed", "owed", "settled"}
    \/ state[o] = "registering" /\ doubt[o]
    \/ state[o] = "registering"
          /\ answer[o] \in {"Material", "PostMintUnrecordable"}

\* An operation of this identity and host was given up that could not know
\* whose registration its teardown meets: it was in doubt, or it had been
\* given one that another operation with the same spec was given too.
GivenUpUnclear(o) ==
    \E p \in Ops :
        /\ SameRow(o, p) /\ state[p] \in {"owed", "settled"}
        /\ \/ doubt[p]
           \/ \E q \in Ops \ {p} :
                 SameRow(o, q) /\ SpecOf[q] = SpecOf[p] /\ Told(q)

\* A registration whose material was handed out stands until its own
\* teardown, or that of an operation that shared it or was in doubt.  An
\* operation that was refused never removes it (leaves_teardown_owed).
MaterialStands ==
    \A o \in Ops : state[o] = "installed" =>
        store[IdOf[o]] = Binding(o) \/ GivenUpUnclear(o)

\* Every Register comes to an end: a permanent failure is not driven again
\* (retry_after).
RegisterEnds ==
    \A o \in Ops : []<>(state[o] # "registering")
=============================================================================
