---------------------------- MODULE OutcomeProofs ----------------------------
(***************************************************************************)
(* What a manager may conclude from the outcomes that types.rs gives it:   *)
(* of a Register or Deregister (Enrollment) and of a trust generation's    *)
(* delivery (TrustRollout).                                                *)
(*                                                                         *)
(* Enrollment: no identity is left behind the managers' backs, and no      *)
(* refused operation removes the registration of another: proved for every *)
(* set of operations, identities, hosts and specs, several operations with *)
(* one spec included, and any number of failed calls.  A manager knows of  *)
(* the store what the answers told it.  The invariant therefore says, for  *)
(* every state an operation can be in and every answer on its way to it,   *)
(* what that knowledge is worth: Owns, who may have something in the       *)
(* store, and Held, who knows that he does unless a teardown of his        *)
(* identity and host was unclear.                                          *)
(*                                                                         *)
(* TrustRollout: the host is never confirmed on an epoch it has not        *)
(* reached, for every number of generations, every choice of formats and   *)
(* any number of failures.                                                 *)
(***************************************************************************)
EXTENDS Enrollment, TrustRollout, TLAPS

-----------------------------------------------------------------------------
(* Enrollment. *)


Answers == NodeEnrollError \cup {"Material", "Done", NoAnswer}
States  == {"new", "registering", "installed", "failed", "owed", "settled"}

\* Answers to a Register that minted, and to a teardown that is settled.
Minted == {"Material", "PostMintUnrecordable"}
Gone   == {"Done", "ServiceHostMismatch"}

Given == {"owed", "settled"}

\* Operations for which a registration may be in the store.
Owns(o) ==
    \/ state[o] = "installed" \/ late[o]
    \/ state[o] = "registering" /\ (doubt[o] \/ answer[o] \in Minted)
    \/ state[o] = "owed" /\ answer[o] \notin Gone

Types ==
    /\ store \in [Ids -> {Absent} \cup {Binding(o) : o \in Ops}]
    /\ state \in [Ops -> States]
    /\ doubt \in [Ops -> BOOLEAN] /\ late \in [Ops -> BOOLEAN]
    /\ answer \in [Ops -> Answers]
    /\ calls \subseteq Call

\* A live call is its operation's only one and has no answer yet; an abandoned
\* one has left its operation in doubt.
CallInv ==
    \A c \in calls :
        /\ c.live =>
              /\ answer[c.op] = NoAnswer
              /\ state[c.op] = IF c.verb = "Register" THEN "registering"
                               ELSE "owed"
        /\ ~c.live => doubt[c.op]
        /\ c.verb = "Deregister" => state[c.op] \in Given

\* Answers go to operations that wait for one; an operation that never
\* called, or gave up, is not in doubt.
StateInv ==
    \A o \in Ops :
        /\ answer[o] # NoAnswer => state[o] \in {"registering", "owed"}
        /\ state[o] \in {"new", "failed"} => ~doubt[o]

\* What the store holds is owned: by an operation that registered it, or by
\* another with the same spec that did so since.
OwnedInv ==
    \A i \in Ids : store[i] # Absent =>
        \E o \in Ops : IdOf[o] = i /\ Binding(o) = store[i] /\ Owns(o)

\* Operations that hold a registration, or know that they do.
Held(o) ==
    \/ state[o] = "installed"
    \/ state[o] = "registering" /\ answer[o] \in Minted
    \/ state[o] = "owed" /\ ~doubt[o] /\ answer[o] \notin Gone

Stands(o) == store[IdOf[o]] = Binding(o) \/ GivenUpUnclear(o)

HeldInv == \A o \in Ops : Held(o) => Stands(o)

IInv == Types /\ CallInv /\ StateInv /\ OwnedInv /\ HeldInv

-----------------------------------------------------------------------------
\* An operation's binding and identity.
LEMMA Bindings ==
    \A o \in Ops : Binding(o) # Absent /\ IdOf[o] \in Ids
BY EnrollmentAssumption, AbsentAssumption

\* Who was given up stays so, and who was told of a registration stays told.
Forward ==
    \A p \in Ops :
        /\ state[p] \in Given => state'[p] \in Given
        /\ doubt[p] => doubt'[p]
        /\ Told(p) => Told(p)'

\* So what one operation cannot tell of its teardown stays unclear.
LEMMA UnclearStays ==
    ASSUME Forward, NEW o \in Ops, GivenUpUnclear(o)
    PROVE  GivenUpUnclear(o)'
<1>1. PICK p \in Ops :
          /\ SameRow(o, p) /\ state[p] \in Given
          /\ \/ doubt[p]
             \/ \E q \in Ops \ {p} :
                   SameRow(o, q) /\ SpecOf[q] = SpecOf[p] /\ Told(q)
  BY DEF GivenUpUnclear, Given
<1>2. state'[p] \in Given /\ (doubt[p] => doubt'[p])
  BY <1>1 DEF Forward
<1>3. ASSUME NEW q \in Ops \ {p}, SameRow(o, q), SpecOf[q] = SpecOf[p], Told(q)
      PROVE  Told(q)'
  BY <1>3 DEF Forward
<1> QED BY <1>1, <1>2, <1>3 DEF GivenUpUnclear, Given, SameRow

\* Who holds a registration was told of it.
LEMMA HeldTold == ASSUME NEW o \in Ops, Held(o) PROVE Told(o)
BY DEF Held, Told, Minted

\* Operations of one identity and host are in the same case.
LEMMA UnclearRow ==
    ASSUME NEW o \in Ops, NEW p \in Ops, SameRow(o, p), GivenUpUnclear(o)
    PROVE  GivenUpUnclear(p)
BY DEF GivenUpUnclear, SameRow

\* A step that leaves the store alone keeps what it holds owned and held, if
\* it takes nobody's claim and gives none.
LEMMA StoreKept ==
    ASSUME IInv, store' = store, Forward,
           \A o \in Ops : Held(o)' => Held(o),
           \A o \in Ops : Owns(o) /\ store[IdOf[o]] = Binding(o) => Owns(o)'
    PROVE  OwnedInv' /\ HeldInv'
<1>1. ASSUME NEW i \in Ids, store'[i] # Absent
      PROVE  \E o \in Ops : IdOf[o] = i /\ Binding(o) = store'[i] /\ Owns(o)'
  <2>1. PICK o \in Ops : IdOf[o] = i /\ Binding(o) = store[i] /\ Owns(o)
    BY <1>1 DEF IInv, OwnedInv
  <2> QED BY <2>1
<1>2. ASSUME NEW o \in Ops, Held(o)' PROVE Stands(o)'
  <2>1. Stands(o)
    BY <1>2 DEF IInv, HeldInv
  <2> QED BY <2>1, UnclearStays DEF Stands
<1>3. OwnedInv'
  BY <1>1 DEF OwnedInv
<1>4. HeldInv'
  BY <1>2 DEF HeldInv
<1> QED BY <1>3, <1>4

\* At first the store is empty and nobody has called.
LEMMA InitInv == Init => IInv
<1> SUFFICES ASSUME Init PROVE IInv
  OBVIOUS
<1>1. Types
  BY DEF Init, Types, States, Answers
<1>2. CallInv /\ StateInv /\ OwnedInv
  BY DEF Init, CallInv, StateInv, OwnedInv
<1>3. HeldInv
  BY DEF Init, HeldInv, Held
<1> QED BY <1>1, <1>2, <1>3 DEF IInv

-----------------------------------------------------------------------------
(* The registrar. *)

\* An answer that leaves the store alone: what it may say, and to whom.
Answered(c, r) ==
    /\ c \in calls /\ calls' = calls \ {c}
    /\ UNCHANGED <<store, state, doubt, lost, late>>
    /\ \/ answer' = answer
       \/ /\ c.live /\ answer' = [answer EXCEPT ![c.op] = r]
          /\ r \in Answers \ (Minted \cup {NoAnswer, "Done"})
          /\ r = "ServiceHostMismatch" => store[IdOf[c.op]] # Binding(c.op)

\* Refusals, a busy registrar, conflicts and host mismatches are such answers.
LEMMA QuietAnswer ==
    ASSUME IInv, NEW c \in Call,
           Refuse(c) \/ Busy(c) \/ Conflict(c) \/ HostMismatch(c) \/ Vanish(c)
    PROVE  \E r \in Answers \cup {"any"} : Answered(c, r)
<1> USE DEF Answers, Minted, NodeEnrollError, Conflicts, Reasons, NoAnswer
<1>1. CASE Refuse(c)
  <2>1. PICK r \in Refusals : Reply(c, r)
    BY <1>1 DEF Refuse
  <2>2. r \in NodeEnrollError
        /\ r \notin {"PostMintUnrecordable", "ServiceHostMismatch"}
    BY RefusalsAssumption
  <2> QED BY <1>1, <2>1, <2>2 DEF Refuse, Reply, Answered
<1>2. CASE Busy(c)
  <2>1. Answered(c, "RegistrarBusy")
    BY <1>2 DEF Busy, Reply, Answered
  <2> QED BY <2>1
<1>3. CASE Conflict(c)
  <2>1. Answered(c, "ServiceNameCollision") \/ Answered(c, "ServiceSpecConflict")
    BY <1>3 DEF Conflict, Reply, Answered
  <2> QED BY <2>1
<1>4. CASE HostMismatch(c)
  <2>1. store[IdOf[c.op]] # Binding(c.op)
    BY <1>4 DEF HostMismatch, Bound, Binding
  <2>2. Answered(c, "ServiceHostMismatch")
    BY <1>4, <2>1 DEF HostMismatch, Reply, Answered
  <2> QED BY <2>2
<1>5. CASE Vanish(c)
  <2>1. Answered(c, "any")
    BY <1>5 DEF Vanish, Answered
  <2> QED BY <2>1
<1> QED BY <1>1, <1>2, <1>3, <1>4, <1>5

\* They keep the invariant.
LEMMA AnsweredInv ==
    ASSUME IInv, NEW c \in Call, NEW r, Answered(c, r)
    PROVE  IInv'
<1> USE DEF Answered
<1>1. c.op \in Ops /\ c \in calls
  BY DEF Call
<1>2. UNCHANGED <<store, state, doubt, late>>
  OBVIOUS
<1>3. \A o \in Ops : answer'[o] # answer[o] =>
         /\ o = c.op /\ c.live /\ answer'[o] = r /\ answer[o] = NoAnswer
         /\ r \notin Minted \cup {"Done"}
         /\ r = "ServiceHostMismatch" => store[IdOf[o]] # Binding(o)
  BY <1>1 DEF IInv, Types, CallInv
<1>4. Types'
  BY <1>1 DEF IInv, Types
<1>5. ASSUME NEW d \in calls', d.live, d.op = c.op, c.live PROVE FALSE
  <2>1. d.verb = c.verb
    BY <1>1, <1>5 DEF IInv, Types, CallInv, Call
  <2>2. d = c
    BY <1>1, <1>5, <2>1 DEF IInv, Types, Call
  <2> QED BY <1>5, <2>2
<1>6. CallInv'
  <2> SUFFICES ASSUME NEW d \in calls'
               PROVE  /\ d.live => answer'[d.op] = answer[d.op]
                      /\ d \in calls
    BY <1>2 DEF IInv, CallInv
  <2>1. d.op \in Ops
    BY DEF IInv, Types, Call
  <2> QED BY <1>3, <1>5, <2>1
<1>7. StateInv'
  <2>1. c.live => state[c.op] \in {"registering", "owed"}
    BY <1>1 DEF IInv, CallInv
  <2> QED BY <1>2, <1>3, <2>1 DEF IInv, StateInv
<1>8. OwnedInv' /\ HeldInv'
  <2>1. Forward
    BY <1>2, <1>3 DEF Forward, Told, NoAnswer
  <2>2. \A o \in Ops : Held(o)' => Held(o)
    BY <1>2, <1>3 DEF Held, Gone, NoAnswer
  <2>3. ASSUME NEW o \in Ops, Owns(o), store[IdOf[o]] = Binding(o)
        PROVE  Owns(o)'
    BY <1>2, <1>3, <2>3 DEF Owns, Gone, Minted, NoAnswer
  <2> QED BY <1>2, <2>1, <2>2, <2>3, StoreKept
<1> QED BY <1>4, <1>6, <1>7, <1>8 DEF IInv

\* Nothing else than its own removal touches a live call.
LEMMA OnlyLive ==
    ASSUME IInv, NEW c \in calls, c.live, NEW d \in calls, d.live, d.op = c.op
    PROVE  d = c
<1>1. d.verb = c.verb
  BY DEF IInv, Types, CallInv, Call
<1> QED BY <1>1 DEF IInv, Types, Call

\* What a served call leaves of the calls, and of the answers.
LEMMA ServedCalls ==
    ASSUME IInv, NEW c \in Call, NEW r \in Answers \ {NoAnswer}, c \in calls,
           calls' = calls \ {c}, Reply(c, r), UNCHANGED <<state, doubt>>
    PROVE  /\ CallInv' /\ StateInv'
           /\ answer' \in [Ops -> Answers]
           /\ \A o \in Ops : answer'[o] # answer[o] =>
                 o = c.op /\ c.live /\ answer'[o] = r /\ answer[o] = NoAnswer
           /\ c.live => answer'[c.op] = r
<1>1. c.op \in Ops
  BY DEF Call
<1>2. answer' \in [Ops -> Answers] /\ (c.live => answer'[c.op] = r)
  BY <1>1 DEF Reply, IInv, Types
<1>3. \A o \in Ops : answer'[o] # answer[o] =>
          o = c.op /\ c.live /\ answer'[o] = r /\ answer[o] = NoAnswer
  BY <1>1 DEF Reply, IInv, Types, CallInv
<1>4. CallInv'
  <2> SUFFICES ASSUME NEW d \in calls'
               PROVE  /\ d.live => answer'[d.op] = answer[d.op]
                      /\ d \in calls
    BY DEF IInv, CallInv
  <2>1. d.op \in Ops /\ d \in calls /\ d # c
    BY DEF IInv, Types, Call
  <2> QED BY <1>3, <2>1, OnlyLive
<1>5. StateInv'
  <2>1. c.live => state[c.op] \in {"registering", "owed"}
    BY DEF IInv, CallInv
  <2> QED BY <1>3, <2>1 DEF IInv, StateInv
<1> QED BY <1>2, <1>3, <1>4, <1>5

\* A registration is minted where there was none, or the same.
LEMMA MintKeeps ==
    ASSUME IInv, NEW c \in Call, Mint(c)
    PROVE  IInv'
<1> DEFINE o == c.op
<1>1. o \in Ops /\ c \in calls /\ c.verb = "Register" /\ IdOf[o] \in Ids
  BY Bindings DEF Mint, Call
<1>2. PICK r \in Minted : Reply(c, r)
  BY DEF Mint, Minted
<1>3. /\ CallInv' /\ StateInv'
      /\ answer' \in [Ops -> Answers]
      /\ \A p \in Ops : answer'[p] # answer[p] =>
            p = o /\ c.live /\ answer'[p] = r /\ answer[p] = NoAnswer
      /\ c.live => answer'[o] = r
  <2>1. r \in Answers \ {NoAnswer}
    BY DEF Minted, Answers, NodeEnrollError, Reasons, NoAnswer
  <2> QED BY <1>1, <1>2, <2>1, ServedCalls DEF Mint
<1>4. /\ store' \in [Ids -> {Absent} \cup {Binding(p) : p \in Ops}]
      /\ store'[IdOf[o]] = Binding(o)
      /\ store[IdOf[o]] \in {Absent, Binding(o)}
      /\ \A i \in Ids \ {IdOf[o]} : store'[i] = store[i]
  BY <1>1 DEF Mint, Bound, IInv, Types
<1>5. /\ late' \in [Ops -> BOOLEAN]
      /\ \A p \in Ops : late[p] => late'[p]
      /\ state[o] \in Given => late'[o]
  BY <1>1 DEF Mint, IInv, Types, Given
<1>6. UNCHANGED <<state, doubt>> /\ calls' \subseteq calls
  BY DEF Mint
<1>7. /\ c.live => state[o] = "registering"
      /\ ~c.live => doubt[o]
      /\ doubt[o] => state[o] \notin {"new", "failed"}
      /\ state[o] \in States
  BY <1>1 DEF IInv, CallInv, StateInv, Types
<1> HIDE DEF o
<1>8. Types'
  BY <1>3, <1>4, <1>5, <1>6 DEF IInv, Types
<1>9. Owns(o)'
  BY <1>1, <1>3, <1>5, <1>6, <1>7 DEF Owns, States, Given
<1>10. \A p \in Ops : Owns(p) => Owns(p)'
  BY <1>3, <1>5, <1>6 DEF Owns, NoAnswer, Minted, Gone
<1>11. OwnedInv'
  <2> SUFFICES ASSUME NEW i \in Ids, store'[i] # Absent
               PROVE  \E p \in Ops :
                         IdOf[p] = i /\ Binding(p) = store'[i] /\ Owns(p)'
    BY DEF OwnedInv
  <2>1. CASE i = IdOf[o]
    BY <1>1, <1>4, <1>9, <2>1
  <2>2. CASE i # IdOf[o]
    <3>1. PICK p \in Ops : IdOf[p] = i /\ Binding(p) = store[i] /\ Owns(p)
      BY <1>4, <2>2 DEF IInv, OwnedInv
    <3> QED BY <1>4, <1>10, <2>2, <3>1
  <2> QED BY <2>1, <2>2
<1>12. Forward
  BY <1>3, <1>6 DEF Forward, Told, NoAnswer
<1>13. HeldInv'
  <2> SUFFICES ASSUME NEW p \in Ops, Held(p)', p # o PROVE Stands(p)'
    BY <1>4 DEF HeldInv, Stands
  <2>1. Held(p)
    BY <1>3, <1>6 DEF Held
  <2>2. Stands(p)
    BY <2>1 DEF IInv, HeldInv
  <2>3. store[IdOf[p]] = Binding(p) => store'[IdOf[p]] = Binding(p)
    BY <1>1, <1>4, Bindings
  <2> QED BY <1>12, <2>2, <2>3, UnclearStays DEF Stands
<1> QED BY <1>3, <1>8, <1>11, <1>13 DEF IInv

\* A teardown removes what its operation registered, or what it shares with
\* another, or what it cannot tell from its own because it is in doubt.
LEMMA TearDownKeeps ==
    ASSUME IInv, NEW c \in Call, TearDown(c)
    PROVE  IInv'
<1> DEFINE o == c.op
<1>1. o \in Ops /\ c \in calls /\ c.verb = "Deregister" /\ IdOf[o] \in Ids
  BY Bindings DEF TearDown, Call
<1>2. /\ CallInv' /\ StateInv'
      /\ answer' \in [Ops -> Answers]
      /\ \A p \in Ops : answer'[p] # answer[p] =>
            p = o /\ c.live /\ answer'[p] = "Done" /\ answer[p] = NoAnswer
      /\ c.live => answer'[o] = "Done"
  <2>1. "Done" \in Answers \ {NoAnswer}
    BY DEF Answers, NoAnswer
  <2> QED BY <1>1, <2>1, ServedCalls DEF TearDown
<1>3. /\ store' \in [Ids -> {Absent} \cup {Binding(p) : p \in Ops}]
      /\ store'[IdOf[o]] = Absent
      /\ \A i \in Ids \ {IdOf[o]} : store'[i] = store[i]
  BY <1>1 DEF TearDown, IInv, Types
<1>4. UNCHANGED <<state, doubt, late>> /\ calls' \subseteq calls
  BY DEF TearDown
<1>5. store[IdOf[o]] = Absent \/ store[IdOf[o]].host = HostOf[o]
  BY DEF TearDown, Bound
<1>6. state[o] \in Given /\ (c.live => state[o] = "owed" /\ answer[o] = NoAnswer)
      /\ (~c.live => doubt[o])
  BY <1>1 DEF IInv, CallInv
<1> HIDE DEF o
<1>7. Types'
  BY <1>2, <1>3, <1>4 DEF IInv, Types
<1>8. OwnedInv'
  <2> SUFFICES ASSUME NEW i \in Ids, store'[i] # Absent
               PROVE  \E p \in Ops :
                         IdOf[p] = i /\ Binding(p) = store'[i] /\ Owns(p)'
    BY DEF OwnedInv
  <2>1. i # IdOf[o]
    BY <1>3
  <2>2. PICK p \in Ops : IdOf[p] = i /\ Binding(p) = store[i] /\ Owns(p)
    BY <1>3, <2>1 DEF IInv, OwnedInv
  <2>3. answer'[p] = answer[p]
    BY <1>2, <2>1, <2>2
  <2> QED BY <1>3, <1>4, <2>1, <2>2, <2>3 DEF Owns
<1>9. Forward
  BY <1>2, <1>4 DEF Forward, Told, NoAnswer
<1>10. HeldInv'
  <2> SUFFICES ASSUME NEW p \in Ops, Held(p)' PROVE Stands(p)'
    BY DEF HeldInv
  <2>1. Held(p)
    BY <1>2, <1>4 DEF Held, Gone, NoAnswer, Minted
  <2>2. p # o
    BY <1>2, <1>4, <1>6 DEF Held, Given, Gone
  <2>3. Stands(p)
    BY <2>1 DEF IInv, HeldInv
  <2>4. CASE GivenUpUnclear(p)
    BY <1>9, <2>4, UnclearStays DEF Stands
  <2>5. CASE IdOf[p] # IdOf[o]
    <3>1. IdOf[p] \in Ids
      BY Bindings
    <3> QED BY <1>3, <1>9, <2>3, <2>5, <3>1, UnclearStays DEF Stands
  <2>6. CASE IdOf[p] = IdOf[o] /\ store[IdOf[p]] = Binding(p)
    <3>1. SameRow(p, o) /\ SameRow(o, p) /\ SameRow(p, p)
      BY <1>5, <2>6, Bindings DEF Binding, SameRow
    <3>2. ASSUME doubt[o] PROVE GivenUpUnclear(p)
      BY <1>1, <1>6, <3>1, <3>2 DEF GivenUpUnclear, Given
    <3>3. ASSUME store[IdOf[o]] = Binding(o) PROVE GivenUpUnclear(p)
      <4>1. SpecOf[p] = SpecOf[o]
        BY <2>6, <3>3 DEF Binding
      <4>2. Told(p)
        BY <2>1, HeldTold
      <4> QED BY <1>1, <1>6, <2>2, <3>1, <4>1, <4>2 DEF GivenUpUnclear, Given
    <3>4. ASSUME ~doubt[o], store[IdOf[o]] # Binding(o)
          PROVE  GivenUpUnclear(p)
      <4>1. Held(o)
        BY <1>6, <3>4 DEF Held, Gone, NoAnswer
      <4> QED BY <1>1, <3>1, <3>4, <4>1, UnclearRow DEF IInv, HeldInv, Stands
    <3>5. GivenUpUnclear(p)
      BY <3>2, <3>3, <3>4
    <3> QED BY <2>4, <3>5
  <2> QED BY <2>3, <2>4, <2>5, <2>6 DEF Stands
<1> QED BY <1>2, <1>7, <1>8, <1>10 DEF IInv

-----------------------------------------------------------------------------
(* The manager. *)

\* An operation that is not calling has neither a live call nor an answer.
LEMMA NotCalling ==
    ASSUME IInv, NEW o \in Ops, ~Calling(o)
    PROVE  answer[o] = NoAnswer /\ \A c \in calls : c.op = o => ~c.live
<1>1. ASSUME NEW c \in calls, c.op = o, c.live PROVE FALSE
  <2>1. c = [op |-> o, verb |-> c.verb, live |-> TRUE]
        /\ c.verb \in {"Register", "Deregister"}
    BY <1>1 DEF IInv, Types, Call
  <2> QED BY <2>1 DEF Calling
<1> QED BY <1>1 DEF Calling

\* A new call: Register while registering, Deregister while a teardown is owed.
LEMMA SendKeeps ==
    ASSUME IInv, NEW o \in Ops, Register(o) \/ Deregister(o)
    PROVE  IInv'
<1>1. UNCHANGED <<store, doubt, answer, late>>
  BY DEF Register, Deregister
<1>2. answer[o] = NoAnswer /\ \A c \in calls : c.op = o => ~c.live
  BY NotCalling DEF Register, Deregister
<1>3. PICK v \in {"Register", "Deregister"} :
          /\ Send(o, v)
          /\ state[o] \in (IF v = "Register" THEN {"new", "registering"}
                           ELSE {"owed"})
          /\ state' = IF v = "Register"
                      THEN [state EXCEPT ![o] = "registering"] ELSE state
  BY DEF Register, Deregister
<1>4. /\ state' \in [Ops -> States]
      /\ \A p \in Ops \ {o} : state'[p] = state[p]
      /\ state'[o] = IF v = "Register" THEN "registering" ELSE "owed"
  BY <1>3 DEF IInv, Types, States
<1> DEFINE n == [op |-> o, verb |-> v, live |-> TRUE]
<1>5. calls' = calls \cup {n} /\ n \in Call /\ n.op = o /\ n.verb = v /\ n.live
  BY <1>3 DEF Send, Call
<1> HIDE DEF n
<1>6. Types'
  BY <1>1, <1>4, <1>5 DEF IInv, Types
<1>7. CallInv'
  <2>1. ASSUME NEW c \in calls, c.op # o
        PROVE  state'[c.op] = state[c.op]
    BY <1>4, <2>1 DEF IInv, Types, Call
  <2>2. ASSUME NEW c \in calls, c.op = o
        PROVE  c.verb = "Deregister" => state'[c.op] \in Given
    BY <1>3, <1>4, <2>2 DEF IInv, CallInv, Given
  <2>3. \A c \in calls :
          /\ c.live => /\ answer'[c.op] = NoAnswer
                       /\ state'[c.op] = IF c.verb = "Register"
                                         THEN "registering" ELSE "owed"
          /\ ~c.live => doubt'[c.op]
          /\ c.verb = "Deregister" => state'[c.op] \in Given
    BY <1>1, <1>2, <2>1, <2>2 DEF IInv, CallInv
  <2> QED BY <1>1, <1>2, <1>4, <1>5, <2>3 DEF CallInv, Given
<1>8. StateInv'
  BY <1>1, <1>4 DEF IInv, StateInv
<1>9. OwnedInv' /\ HeldInv'
  <2>1. Forward
    BY <1>1, <1>3, <1>4 DEF Forward, Told, Given
  <2>2. \A p \in Ops : Held(p)' => Held(p)
    BY <1>1, <1>2, <1>3, <1>4 DEF Held, Minted, NoAnswer
  <2>3. \A p \in Ops : Owns(p) => Owns(p)'
    BY <1>1, <1>2, <1>3, <1>4 DEF Owns, Minted, NoAnswer
  <2> QED BY <1>1, <2>1, <2>2, <2>3, StoreKept
<1> QED BY <1>6, <1>7, <1>8, <1>9 DEF IInv

\* A call whose outcome is unknown puts its operation in doubt.
LEMMA CallFailsKeeps ==
    ASSUME IInv, NEW o \in Ops, CallFails(o)
    PROVE  IInv'
<1>1. UNCHANGED <<store, late>>
  BY DEF CallFails
<1>2. /\ doubt' \in [Ops -> BOOLEAN] /\ doubt'[o]
      /\ \A p \in Ops \ {o} : doubt'[p] = doubt[p]
      /\ answer' \in [Ops -> Answers] /\ answer'[o] = NoAnswer
      /\ \A p \in Ops \ {o} : answer'[p] = answer[p]
  BY DEF CallFails, IInv, Types, Answers
<1>3. /\ state' \in [Ops -> States] /\ state'[o] \in {state[o], "owed"}
      /\ \A p \in Ops \ {o} : state'[p] = state[p]
  BY DEF CallFails, IInv, Types, States
<1>4. state[o] \in {"registering", "owed"}
  <2>1. CASE answer[o] # NoAnswer
    BY <2>1 DEF IInv, StateInv
  <2>2. CASE answer[o] = NoAnswer
    <3>1. PICK v \in {"Register", "Deregister"} :
              [op |-> o, verb |-> v, live |-> TRUE] \in calls
      BY <2>2 DEF CallFails, Calling
    <3> QED BY <3>1 DEF IInv, CallInv
  <2> QED BY <2>1, <2>2
<1>5. ASSUME NEW d \in calls'
      PROVE  \E c \in calls :
                /\ d \in Call /\ c \in Call
                /\ d.op = c.op /\ d.verb = c.verb
                /\ d.live = IF c.op = o THEN FALSE ELSE c.live
  <2>1. PICK c \in calls :
            d = [c EXCEPT !.live = IF c.op = o THEN FALSE ELSE c.live]
    BY <1>5 DEF CallFails
  <2>2. c \in Call
    BY DEF IInv, Types
  <2> QED BY <2>1, <2>2 DEF Call
<1>6. Types'
  BY <1>1, <1>2, <1>3, <1>5 DEF IInv, Types
<1>7. CallInv'
  <2> SUFFICES ASSUME NEW d \in calls'
               PROVE  /\ d.live =>
                           /\ answer'[d.op] = NoAnswer
                           /\ state'[d.op] = IF d.verb = "Register"
                                             THEN "registering" ELSE "owed"
                      /\ ~d.live => doubt'[d.op]
                      /\ d.verb = "Deregister" => state'[d.op] \in Given
    BY DEF CallInv
  <2>1. PICK c \in calls : /\ d \in Call /\ c \in Call
                           /\ d.op = c.op /\ d.verb = c.verb
                           /\ d.live = IF c.op = o THEN FALSE ELSE c.live
    BY <1>5
  <2>2. c.op \in Ops
    BY <2>1 DEF Call
  <2>3. /\ c.live => /\ answer[c.op] = NoAnswer
                     /\ state[c.op] = IF c.verb = "Register"
                                      THEN "registering" ELSE "owed"
        /\ ~c.live => doubt[c.op]
        /\ c.verb = "Deregister" => state[c.op] \in Given
    BY DEF IInv, CallInv
  <2>4. CASE c.op = o
    BY <1>2, <1>3, <2>1, <2>3, <2>4 DEF Given
  <2>5. CASE c.op # o
    BY <1>2, <1>3, <2>1, <2>2, <2>3, <2>5
  <2> QED BY <2>4, <2>5
<1>8. StateInv'
  BY <1>2, <1>3, <1>4 DEF IInv, StateInv
<1>9. OwnedInv' /\ HeldInv'
  <2>1. Forward
    BY <1>2, <1>3, <1>4 DEF Forward, Told, Given
  <2>2. \A p \in Ops : Held(p)' => Held(p)
    BY <1>2, <1>3, <1>4 DEF Held, Minted, NoAnswer
  <2>3. \A p \in Ops : Owns(p) => Owns(p)'
    BY <1>1, <1>2, <1>3, <1>4 DEF Owns, Gone, NoAnswer
  <2> QED BY <1>1, <2>1, <2>2, <2>3, StoreKept
<1> QED BY <1>6, <1>7, <1>8, <1>9 DEF IInv

\* What an operation's own step may make of it, given what it knows.
Moves(o) ==
    \/ /\ state[o] = "registering" /\ answer[o] \in Minted
       /\ state'[o] \in {"installed", "owed"}
       /\ state'[o] = "installed" => answer[o] = "Material"
    \/ /\ state[o] \in {"new", "registering"} /\ answer[o] \notin Minted
       /\ \/ state'[o] = "registering" /\ state[o] = "registering"
          \/ state'[o] = "owed" /\ doubt[o]
          \/ state'[o] = "failed" /\ ~doubt[o]
    \/ state[o] = "installed" /\ state'[o] = "owed"
    \/ /\ state[o] = "owed"
       /\ state'[o] = IF answer[o] \in Gone THEN "settled" ELSE "owed"

\* The manager reads an answer, gives an answer itself, or uninstalls.
LEMMA MoveOf ==
    ASSUME IInv, NEW o \in Ops,
           RecvRegister(o) \/ Unreachable(o) \/ Uninstall(o) \/ RecvDeregister(o)
    PROVE  /\ Moves(o)
           /\ UNCHANGED <<store, doubt, calls, late>>
           /\ state' \in [Ops -> States] /\ answer' \in [Ops -> Answers]
           /\ answer'[o] = NoAnswer
           /\ \A p \in Ops \ {o} : state'[p] = state[p] /\ answer'[p] = answer[p]
           /\ \A c \in calls : c.op = o => ~c.live
<1>1. UNCHANGED <<store, doubt, calls, late>>
  BY DEF RecvRegister, Unreachable, Uninstall, RecvDeregister
<1>2. \A r : AfterFailure(o, r) \in {"registering", "owed", "failed"}
  BY DEF AfterFailure
<1>3. state' \in [Ops -> States]
      /\ \A p \in Ops \ {o} : state'[p] = state[p]
  BY <1>2 DEF RecvRegister, Unreachable, Uninstall, RecvDeregister, IInv,
     Types, States
<1>4. \/ answer[o] # NoAnswer /\ answer' = [answer EXCEPT ![o] = NoAnswer]
      \/ answer[o] = NoAnswer /\ answer' = answer
  BY NotCalling DEF RecvRegister, Unreachable, Uninstall, RecvDeregister,
     IInv, StateInv
<1>5. answer' \in [Ops -> Answers] /\ answer'[o] = NoAnswer
      /\ \A p \in Ops \ {o} : answer'[p] = answer[p]
  BY <1>4 DEF IInv, Types, Answers
<1>6. \A c \in calls : c.op = o => ~c.live
  <2>1. CASE answer[o] # NoAnswer \/ state[o] = "installed"
    BY <2>1 DEF IInv, CallInv
  <2>2. CASE Unreachable(o)
    BY <2>2, NotCalling DEF Unreachable
  <2> QED BY <2>1, <2>2 DEF RecvRegister, Uninstall, RecvDeregister
<1>7. Moves(o)
  <2>1. CASE RecvRegister(o)
    <3>1. state'[o] = IF answer[o] = "Material" THEN "installed"
                      ELSE AfterFailure(o, answer[o])
      BY <2>1 DEF RecvRegister, IInv, Types
    <3>2. CASE answer[o] = "Material"
      BY <2>1, <3>1, <3>2 DEF RecvRegister, Moves, Minted
    <3>3. CASE answer[o] = "PostMintUnrecordable"
      BY <2>1, <3>1, <3>3 DEF RecvRegister, Moves, Minted, AfterFailure,
         retry_after, leaves_teardown_owed
    <3>4. CASE answer[o] \notin Minted
      BY <2>1, <3>1, <3>4 DEF RecvRegister, Moves, Minted, AfterFailure,
         retry_after, leaves_teardown_owed
    <3> QED BY <3>2, <3>3, <3>4 DEF Minted
  <2>2. CASE Unreachable(o)
    <3>1. answer[o] = NoAnswer
      BY <2>2, NotCalling DEF Unreachable
    <3>2. state'[o] = IF doubt[o] THEN "owed" ELSE "failed"
      BY <2>2 DEF Unreachable, AfterFailure, retry_after,
         leaves_teardown_owed, IInv, Types
    <3> QED BY <2>2, <3>1, <3>2 DEF Unreachable, Moves, Minted, NoAnswer
  <2>3. CASE Uninstall(o)
    BY <2>3 DEF Uninstall, Moves, IInv, Types
  <2>4. CASE RecvDeregister(o)
    BY <2>4 DEF RecvDeregister, Moves, Gone, IInv, Types
  <2> QED BY <2>1, <2>2, <2>3, <2>4
<1> QED BY <1>1, <1>3, <1>5, <1>6, <1>7

\* Such a move keeps the invariant: it gives up only what is not in the store.
LEMMA MoveKeeps ==
    ASSUME IInv, NEW o \in Ops,
           RecvRegister(o) \/ Unreachable(o) \/ Uninstall(o) \/ RecvDeregister(o)
    PROVE  IInv'
<1>1. /\ Moves(o)
      /\ UNCHANGED <<store, doubt, calls, late>>
      /\ state' \in [Ops -> States] /\ answer' \in [Ops -> Answers]
      /\ answer'[o] = NoAnswer
      /\ \A p \in Ops \ {o} : state'[p] = state[p] /\ answer'[p] = answer[p]
      /\ \A c \in calls : c.op = o => ~c.live
  BY MoveOf
<1>2. state[o] \in Given => state'[o] \in Given
  BY <1>1 DEF Moves, Given
<1>3. Types'
  BY <1>1 DEF IInv, Types
<1>4. CallInv'
  <2> SUFFICES ASSUME NEW c \in calls
               PROVE  /\ c.live =>
                           /\ answer'[c.op] = NoAnswer
                           /\ state'[c.op] = IF c.verb = "Register"
                                             THEN "registering" ELSE "owed"
                      /\ ~c.live => doubt[c.op]
                      /\ c.verb = "Deregister" => state'[c.op] \in Given
    BY <1>1 DEF CallInv
  <2>1. c.op \in Ops
    BY DEF IInv, Types, Call
  <2>2. CASE c.op = o
    BY <1>1, <1>2, <2>2 DEF IInv, CallInv
  <2>3. CASE c.op # o
    BY <1>1, <2>1, <2>3 DEF IInv, CallInv
  <2> QED BY <2>2, <2>3
<1>5. StateInv'
  BY <1>1 DEF IInv, StateInv, Moves
<1>6. OwnedInv' /\ HeldInv'
  <2>1. Forward
    BY <1>1, <1>2 DEF Forward, Told, Moves, Given, Minted
  <2>2. ASSUME NEW p \in Ops, Held(p)' PROVE Held(p)
    <3>1. CASE p = o
      BY <1>1, <2>2, <3>1 DEF Held, Moves, Minted, Gone, NoAnswer
    <3>2. CASE p # o
      BY <1>1, <2>2, <3>2 DEF Held
    <3> QED BY <3>1, <3>2
  <2>3. \A p \in Ops : Owns(p) => Owns(p)'
    BY <1>1 DEF Owns, Moves, Gone, NoAnswer
  <2> QED BY <1>1, <2>1, <2>2, <2>3, StoreKept
<1> QED BY <1>3, <1>4, <1>5, <1>6 DEF IInv

-----------------------------------------------------------------------------
\* Every step of registrar and managers keeps the invariant.
LEMMA NextInv == IInv /\ [Next]_vars => IInv'
<1> SUFFICES ASSUME IInv, [Next]_vars PROVE IInv'
  OBVIOUS
<1>1. ASSUME NEW c \in Call, Registrar(c) PROVE IInv'
  <2>1. CASE Refuse(c) \/ Busy(c) \/ Conflict(c) \/ HostMismatch(c) \/ Vanish(c)
    BY <2>1, QuietAnswer, AnsweredInv
  <2> QED BY <1>1, <2>1, MintKeeps, TearDownKeeps DEF Registrar
<1>2. ASSUME NEW o \in Ops, Manager(o) PROVE IInv'
  BY <1>2, SendKeeps, CallFailsKeeps, MoveKeeps DEF Manager
<1>3. CASE UNCHANGED vars
  <2>1. \A o \in Ops : Held(o)' = Held(o) /\ Owns(o)' = Owns(o)
    BY <1>3 DEF vars, Held, Owns
  <2>2. Forward
    BY <1>3 DEF vars, Forward, Told
  <2>3. store' = store /\ Types' /\ CallInv' /\ StateInv'
    BY <1>3 DEF vars, IInv, Types, CallInv, StateInv
  <2> QED BY <2>1, <2>2, <2>3, StoreKept DEF IInv
<1> QED BY <1>1, <1>2, <1>3 DEF Next

\* What the answers of enrollment are worth, in every reachable state.
THEOREM EnrollmentInvariant == Spec => []IInv
BY InitInv, NextInv, PTL DEF Spec

\* leaves_teardown_owed tells a manager of every identity that a failed
\* Register leaves behind; only one carried out after it was given up escapes.
THEOREM NoOrphans == Spec => []NoSilentOrphan
<1>1. IInv => NoSilentOrphan
  <2> SUFFICES ASSUME IInv, NEW i \in Ids, store[i] # Absent
               PROVE  \E o \in Ops :
                         /\ IdOf[o] = i /\ Binding(o) = store[i]
                         /\ \/ state[o] \in {"registering", "installed", "owed"}
                            \/ late[o]
    BY DEF NoSilentOrphan
  <2>1. PICK o \in Ops : IdOf[o] = i /\ Binding(o) = store[i] /\ Owns(o)
    BY DEF IInv, OwnedInv
  <2> QED BY <2>1 DEF Owns
<1> QED BY <1>1, EnrollmentInvariant, PTL

\* Going by retry_after and leaves_teardown_owed, an operation tears down the
\* registration another one was given material for only if both were given it,
\* or if it was given up in doubt; a refused one never does.
THEOREM MaterialSafe == Spec => []MaterialStands
<1>1. IInv => MaterialStands
  BY DEF IInv, HeldInv, Held, Stands, MaterialStands
<1> QED BY <1>1, EnrollmentInvariant, PTL

-----------------------------------------------------------------------------
(* Trust rollout. *)

\* Every reading that is still to be taken is a lower bound of the epoch.
ReadingsReached ==
    /\ \A e \in builder.epoch : e <= active
    /\ \A r \in answers : r.active_epoch <= active

TrustInv == TypeOK /\ ConfirmedIsReached /\ ReadingsReached

-----------------------------------------------------------------------------
\* What an apply answers is an outcome, and the epoch it carries is the one
\* the agent is on afterwards.
LEMMA OutcomeReading ==
    ASSUME TrustInv, NEW e \in 1 .. MaxEpoch, Activate(e)
    PROVE  /\ Outcome(e) \in Response
           /\ Outcome(e).active_epoch = active'
           /\ active' \in Epochs /\ active <= active'
<1> USE TrustAssumption DEF TrustAssumption, TrustInv, TypeOK, Epochs
<1>1. CASE FormatOf[e] \notin range.min .. range.max
  BY <1>1 DEF Outcome, Activate, Response, Kinds
<1>2. CASE FormatOf[e] \in range.min .. range.max /\ e > active
  BY <1>2 DEF Outcome, Activate, Response, Kinds
<1>3. CASE FormatOf[e] \in range.min .. range.max /\ ~(e > active)
  BY <1>3 DEF Outcome, Activate, Response, Kinds
<1> QED BY <1>1, <1>2, <1>3

\* A reading bounded by the host's epoch confirms nothing beyond it.
LEMMA ConfirmReached ==
    ASSUME TrustInv, NEW reading \in SUBSET Epochs, Confirm(reading),
           \A e \in reading : e <= active
    PROVE  confirmed' \in Epochs /\ confirmed' <= active
<1>1. CASE \E e \in reading : confirmed < e /\ e <= current
  <2>1. (CHOOSE e \in reading : TRUE) \in reading
    BY <1>1
  <2> QED BY <1>1, <2>1 DEF Confirm
<1>2. CASE ~\E e \in reading : confirmed < e /\ e <= current
  BY <1>2 DEF Confirm, TrustInv, TypeOK, ConfirmedIsReached
<1> QED BY <1>1, <1>2

\* The outcome's reading is the epoch it carries, or none.
LEMMA ReadingOfOutcome ==
    ASSUME TrustInv, NEW r \in answers
    PROVE  /\ active_trust_epoch(r) \in SUBSET Epochs
           /\ \A e \in active_trust_epoch(r) : e <= active
<1>1. r.active_epoch \in Epochs /\ r.active_epoch <= active
  BY DEF TrustInv, TypeOK, Response, ReadingsReached
<1>2. active_trust_epoch(r) \subseteq {r.active_epoch}
  BY DEF active_trust_epoch
<1> QED BY <1>1, <1>2

-----------------------------------------------------------------------------
\* The initial states satisfy the invariant.
LEMMA InitInvariant == TrustInit => TrustInv
<1> SUFFICES ASSUME TrustInit PROVE TrustInv
  OBVIOUS
<1> USE TrustAssumption DEF TrustAssumption
<1>1. builder.epoch = {} /\ builder.formats = {} /\ confirmed = 0
  BY DEF TrustInit
<1>2. builder \in [epoch : SUBSET Epochs, formats : SUBSET Ranges]
  BY DEF TrustInit
<1>3. TypeOK
  <2>1. confirmed \in Epochs /\ fails \in 0 .. MaxFails
    BY DEF TrustInit, Epochs
  <2>2. /\ formats \in SUBSET Ranges /\ answers \in SUBSET Response
        /\ pushed \in SUBSET (1 .. MaxEpoch)
        /\ orphans \in SUBSET (1 .. MaxEpoch)
    BY DEF TrustInit
  <2>3. active \in Epochs /\ current \in Epochs /\ range \in Ranges
        /\ up \in BOOLEAN
    BY DEF TrustInit
  <2> QED BY <1>2, <2>1, <2>2, <2>3 DEF TypeOK
<1>4. ConfirmedIsReached
  BY <1>1 DEF TrustInit, ConfirmedIsReached, Epochs
<1>5. ReadingsReached
  BY <1>1 DEF TrustInit, ReadingsReached
<1> QED BY <1>3, <1>4, <1>5 DEF TrustInv

\* Every step preserves it.
LEMMA StepInvariant == TrustInv /\ [TrustNext]_trustVars => TrustInv'
<1> SUFFICES ASSUME TrustInv, [TrustNext]_trustVars PROVE TrustInv'
  OBVIOUS
<1> USE TrustAssumption DEF TrustAssumption
<1>1. CASE ReportEpoch
  <2>1. builder' \in [epoch : SUBSET Epochs, formats : SUBSET Ranges]
    BY <1>1 DEF ReportEpoch, TrustInv, TypeOK
  <2>2. builder'.epoch = {active}
    BY <1>1 DEF ReportEpoch, TrustInv, TypeOK
  <2>3. TypeOK'
    BY <1>1, <2>1 DEF ReportEpoch, TrustInv, TypeOK, managerVars
  <2>4. \A e \in builder'.epoch : e <= active
    BY <2>2 DEF TrustInv, TypeOK, Epochs
  <2> QED BY <1>1, <2>3, <2>4 DEF ReportEpoch, TrustInv, ConfirmedIsReached,
          ReadingsReached, managerVars
<1>2. CASE ReportFormats
  BY <1>2 DEF ReportFormats, TrustInv, TypeOK, ConfirmedIsReached,
     ReadingsReached, managerVars
<1>3. CASE Publish
  BY <1>3 DEF Publish, TrustInv, TypeOK, ConfirmedIsReached, ReadingsReached,
     agentVars, Epochs
<1>4. CASE Connect
  <2>1. confirmed' \in Epochs /\ confirmed' <= active
    BY <1>4, ConfirmReached DEF Connect, TrustInv, TypeOK, ReadingsReached
  <2> QED BY <1>4, <2>1 DEF Connect, TrustInv, TypeOK, ConfirmedIsReached,
          ReadingsReached, agentVars
<1>5. CASE Disconnect
  <2>1. orphans' \in SUBSET (1 .. MaxEpoch) /\ fails' \in 0 .. MaxFails
    BY <1>5 DEF Disconnect, TrustInv, TypeOK
  <2>2. TypeOK'
    BY <1>5, <2>1 DEF Disconnect, TrustInv, TypeOK, agentVars, managerVars
  <2> QED BY <1>5, <2>2 DEF Disconnect, TrustInv, ConfirmedIsReached,
          ReadingsReached, agentVars, managerVars
<1>6. ASSUME NEW e \in 1 .. MaxEpoch, Push(e) PROVE TrustInv'
  BY <1>6 DEF Push, TrustInv, TypeOK, ConfirmedIsReached, ReadingsReached,
     agentVars, managerVars
<1>7. ASSUME NEW e \in 1 .. MaxEpoch, Apply(e) PROVE TrustInv'
  <2>1. /\ Outcome(e) \in Response /\ Outcome(e).active_epoch = active'
        /\ active' \in Epochs /\ active <= active'
    BY <1>7, OutcomeReading DEF Apply
  <2>2. TypeOK'
    BY <1>7, <2>1 DEF Apply, TrustInv, TypeOK, managerVars
  <2>3. ConfirmedIsReached'
    BY <1>7, <2>1 DEF Apply, TrustInv, TypeOK, ConfirmedIsReached, managerVars,
       Epochs
  <2>4. \A r \in answers : r.active_epoch \in Epochs
    BY DEF TrustInv, TypeOK, Response
  <2>5. ReadingsReached'
    BY <1>7, <2>1, <2>4 DEF Apply, TrustInv, TypeOK, ReadingsReached, Epochs
  <2> QED BY <2>2, <2>3, <2>5 DEF TrustInv
<1>8. ASSUME NEW e \in 1 .. MaxEpoch, ApplyFails(e) PROVE TrustInv'
  <2>1. [kind |-> "InsufficientDiskSpace", active_epoch |-> 0,
         supported |-> range] \in Response
    BY DEF TrustInv, TypeOK, Response, Kinds, Epochs
  <2> QED BY <1>8, <2>1 DEF ApplyFails, TrustInv, TypeOK, ConfirmedIsReached,
          ReadingsReached, agentVars, managerVars, Epochs
<1>9. ASSUME NEW e \in 1 .. MaxEpoch, ApplyOrphan(e) PROVE TrustInv'
  <2>1. active' \in Epochs /\ active <= active'
    BY <1>9, OutcomeReading DEF ApplyOrphan
  <2>2. \A r \in answers : r.active_epoch \in Epochs
    BY DEF TrustInv, TypeOK, Response
  <2>3. TypeOK'
    BY <1>9, <2>1 DEF ApplyOrphan, TrustInv, TypeOK, managerVars
  <2>4. active \in Nat /\ active' \in Nat /\ confirmed \in Nat
    BY <2>1 DEF TrustInv, TypeOK, Epochs
  <2>5. ConfirmedIsReached'
    BY <1>9, <2>1, <2>4 DEF ApplyOrphan, TrustInv, ConfirmedIsReached, managerVars
  <2>6. \A r \in answers : r.active_epoch <= active'
    BY <2>1, <2>2, <2>4 DEF TrustInv, ReadingsReached, Epochs
  <2>7. \A d \in builder.epoch : d \in Nat /\ d <= active
    BY DEF TrustInv, TypeOK, ReadingsReached, Epochs
  <2>8. \A d \in builder.epoch : d <= active'
    BY <2>1, <2>4, <2>7
  <2>9. ReadingsReached'
    BY <1>9, <2>6, <2>8 DEF ApplyOrphan, ReadingsReached
  <2> QED BY <2>3, <2>5, <2>9 DEF TrustInv
<1>10. ASSUME NEW e \in 1 .. MaxEpoch, PushFails(e) PROVE TrustInv'
  BY <1>10 DEF PushFails, TrustInv, TypeOK, ConfirmedIsReached, ReadingsReached,
     agentVars, managerVars
<1>11. ASSUME NEW r \in answers, RecvOutcome(r) PROVE TrustInv'
  <2>1. confirmed' \in Epochs /\ confirmed' <= active
    BY <1>11, ReadingOfOutcome, ConfirmReached DEF RecvOutcome
  <2>2. r.supported \in Ranges
    BY DEF TrustInv, TypeOK, Response
  <2> QED BY <1>11, <2>1, <2>2 DEF RecvOutcome, TrustInv, TypeOK,
          ConfirmedIsReached, ReadingsReached, agentVars
<1>12. ASSUME NEW rg \in Ranges, Upgrade(rg) PROVE TrustInv'
  BY <1>12 DEF Upgrade, TrustInv, TypeOK, ConfirmedIsReached, ReadingsReached,
     managerVars
<1>13. CASE UNCHANGED trustVars
  BY <1>13 DEF trustVars, TrustInv, TypeOK, ConfirmedIsReached, ReadingsReached
<1> QED
  BY <1>1, <1>2, <1>3, <1>4, <1>5, <1>6, <1>7, <1>8, <1>9, <1>10, <1>11,
     <1>12, <1>13 DEF TrustNext, Deliveries

-----------------------------------------------------------------------------
\* The state of the rollout keeps its types: readings, outcomes and the
\* manager's books (types.rs: active_trust_epoch, ManifestFormatRange).
THEOREM TrustTypes == TrustSpec => []TypeOK
<1>1. TrustInv => TypeOK
  BY DEF TrustInv
<1> QED BY <1>1, InitInvariant, StepInvariant, PTL DEF TrustSpec

\* Whatever overtakes what, and however many calls fail, the host is not
\* confirmed on an epoch it has not reached (types.rs: active_trust_epoch of
\* an outcome; lib.rs: AgentInfo::active_trust_epoch).
THEOREM ConfirmedReached == TrustSpec => []ConfirmedIsReached
<1>1. TrustInv => ConfirmedIsReached
  BY DEF TrustInv
<1> QED BY <1>1, InitInvariant, StepInvariant, PTL DEF TrustSpec
=============================================================================
