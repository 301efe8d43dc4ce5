--------------------------- MODULE HandshakeProofs ---------------------------
(***************************************************************************)
(* The two ends of a handshake agree, and the manager reads of an agent    *)
(* what that agent said: proved for every set of readings, every release   *)
(* and every build of the agent.                                           *)
(*                                                                         *)
(* Neither end sees the other.  What ties them together is the one frame   *)
(* that may be in flight, `InfoFrame`, which the agent's settings fix once *)
(* it was sent, and the one answer, which repeats what the manager's       *)
(* handshake returned.                                                     *)
(***************************************************************************)
EXTENDS Handshake, SequenceTheorems, TLAPS

\* The frame that connect writes, as the builder stands.
InfoFrame ==
    [sent |-> TRUE, version |-> version, bad |-> badField,
     addr |-> "placeholder",
     tail |-> [k \in 1 .. sends |->
                  IF k <= TailLen THEN config[k] ELSE Unknown]]

\* What server::handshake reads off it.
InfoRead == [tail |-> DecodeTail(InfoFrame), version |-> version, addr |-> "peer"]

\* The types the comparisons of versions and positions need.
NumTypes ==
    /\ version \in Version /\ args \in Arguments
    /\ sends \in 0 .. TailLen + 1
    /\ badField \in (0 .. sends) \cup {Good}

\* A frame in flight is the agent's, and sent after the last setting.
FrameInv ==
    /\ frame \in {NoFrame, InfoFrame}
    /\ apc = "build" => frame = NoFrame

\* The manager past the decode, or done with an agent it understood.
HasRead == mpc \in {"accept", "refuse"} \/ mres \in {"Ok", "IncompatibleProtocol"}

ReadInv ==
    HasRead => apc # "build" /\ Decodes(InfoFrame) /\ info = InfoRead

\* What was decided, answered and reported are the same.
VerdictInv ==
    /\ mpc = "accept" \/ mres = "Ok" => Accepts(version)
    /\ mres # "none" <=> mpc = "returned"
    /\ answer = "Ok" => mres = "Ok"
    /\ answer \notin {"none", "Ok"} => mres = "IncompatibleProtocol"
    /\ apc = "connected" => mres = "Ok"
    /\ apc = "refused" => mres = "IncompatibleProtocol"

IInv == NumTypes /\ FrameInv /\ ReadInv /\ VerdictInv

-----------------------------------------------------------------------------
\* The tail of AgentInfo has five fields.
LEMMA FiveFields == TailLen = 5 /\ Good = 7
BY DEF TailLen, TailFields, Good

\* A handshake starts with nothing sent and nothing read.
LEMMA InitInv == Init => IInv
<1> SUFFICES ASSUME Init PROVE IInv
  OBVIOUS
<1>1. NumTypes
  BY HandshakeAssumption DEF Init, NumTypes
<1>2. FrameInv
  BY DEF Init, FrameInv
<1>3. ReadInv /\ VerdictInv
  BY DEF Init, ReadInv, HasRead, VerdictInv
<1> QED BY <1>1, <1>2, <1>3 DEF IInv

\* While the agent's settings stand, so do its frame and the reading of it.
LEMMA FrameStands ==
    ASSUME UNCHANGED <<config, version, sends, badField>>
    PROVE  InfoFrame' = InfoFrame /\ InfoRead' = InfoRead
           /\ Decodes(InfoFrame)' = Decodes(InfoFrame)
<1>1. InfoFrame' = InfoFrame
  BY DEF InfoFrame
<1> QED BY <1>1 DEF InfoRead, DecodeTail, Decodes

\* A setter touches the frame of a connect that has not started.
LEMMA ConfigureInv ==
    ASSUME IInv, NEW k \in 1 .. TailLen, NEW v \in Values, Configure(k, v)
    PROVE  IInv'
<1>1. NumTypes'
  BY DEF IInv, Configure, NumTypes, managerVars
<1>2. frame = NoFrame /\ ~HasRead
  BY DEF IInv, Configure, FrameInv, ReadInv
<1>3. FrameInv' /\ ReadInv'
  BY <1>2 DEF Configure, FrameInv, ReadInv, HasRead, managerVars
<1>4. VerdictInv'
  BY DEF IInv, Configure, VerdictInv, Accepts, managerVars
<1> QED BY <1>1, <1>3, <1>4 DEF IInv

\* connect, whatever comes of it.
LEMMA AgentInv ==
    ASSUME IInv, Connect \/ Cancel
    PROVE  IInv'
<1> USE DEF Connect, SendInfo, RecvAnswer, ConnectFails, Cancel
<1>1. UNCHANGED <<config, version, sends, badField, args, mpc, mdropped, mres,
                  info>>
  BY DEF managerVars
<1>2. NumTypes'
  BY <1>1 DEF IInv, NumTypes
<1>3. FrameInv'
  <2>1. InfoFrame' = InfoFrame
    BY <1>1, FrameStands
  <2>2. SendInfo => frame' = InfoFrame
    BY DEF InfoFrame
  <2> QED BY <2>1, <2>2 DEF IInv, FrameInv
<1>4. ReadInv'
  <2>1. HasRead' = HasRead /\ (apc # "build" => apc' # "build")
    BY <1>1 DEF HasRead
  <2> QED BY <1>1, <2>1, FrameStands DEF IInv, ReadInv
<1>5. VerdictInv'
  BY <1>1 DEF IInv, VerdictInv, Accepts
<1> QED BY <1>2, <1>3, <1>4, <1>5 DEF IInv

\* server::handshake up to its decision.
LEMMA RecvInfoInv ==
    ASSUME IInv, CheckArguments \/ RecvInfo \/ RecvInfoFails
    PROVE  IInv'
<1>1. UNCHANGED <<config, version, sends, badField, args, apc, frame, answer>>
  BY DEF CheckArguments, RecvInfo, RecvInfoFails, agentVars
<1>2. mres = "none" /\ mpc \in {"start", "recv"} /\ ~HasRead
  BY DEF IInv, VerdictInv, HasRead, CheckArguments, RecvInfo, RecvInfoFails
<1>3. NumTypes' /\ FrameInv'
  BY <1>1, FrameStands DEF IInv, NumTypes, FrameInv
<1>4. CASE CheckArguments \/ RecvInfoFails
  BY <1>1, <1>2, <1>3, <1>4 DEF IInv, ReadInv, HasRead, VerdictInv, Accepts,
     CheckArguments, RecvInfoFails, Return
<1>5. CASE RecvInfo
  <2>1. frame = InfoFrame /\ apc # "build"
    BY <1>5 DEF IInv, FrameInv, RecvInfo, NoFrame
  <2>2. frame.version = version
    BY <2>1 DEF InfoFrame
  <2>3. ReadInv'
    BY <1>1, <1>2, <1>5, <2>1, <2>2, FrameStands
       DEF RecvInfo, ReadInv, HasRead, InfoRead, Return
  <2>4. VerdictInv'
    BY <1>1, <1>2, <1>5, <2>2 DEF IInv, RecvInfo, VerdictInv, Accepts, Return
  <2> QED BY <1>3, <2>3, <2>4 DEF IInv
<1> QED BY <1>4, <1>5

\* The answer says what was decided, and so does the return.
LEMMA AnswerInv ==
    ASSUME IInv, SendAnswer \/ SendAnswerFails
    PROVE  IInv'
<1>1. UNCHANGED <<config, version, sends, badField, args, apc, frame, info>>
  BY DEF SendAnswer, SendAnswerFails, agentVars
<1>2. HasRead /\ mres = "none" /\ mpc \in {"accept", "refuse"}
  BY DEF IInv, VerdictInv, HasRead, SendAnswer, SendAnswerFails
<1>3. NumTypes' /\ FrameInv'
  BY <1>1, FrameStands DEF IInv, NumTypes, FrameInv
<1>4. ReadInv'
  BY <1>1, <1>2, FrameStands DEF IInv, ReadInv
<1>5. VerdictInv'
  BY <1>1, <1>2 DEF IInv, VerdictInv, Accepts, Return, SendAnswer,
     SendAnswerFails
<1> QED BY <1>3, <1>4, <1>5 DEF IInv

\* A lost or closed connection takes the frame or the answer with it.
LEMMA LossInv ==
    ASSUME IInv, ConnLost \/ ManagerCloses
    PROVE  IInv'
<1>1. UNCHANGED <<config, version, sends, badField, args, apc, mpc, mres, info>>
  BY DEF ConnLost, ManagerCloses, agentVars, managerVars
<1>2. frame' \in {frame, NoFrame} /\ answer' \in {answer, "none"}
  BY DEF ConnLost, ManagerCloses
<1>3. NumTypes' /\ FrameInv'
  BY <1>1, <1>2, FrameStands DEF IInv, NumTypes, FrameInv
<1>4. ReadInv'
  BY <1>1, FrameStands DEF IInv, ReadInv, HasRead
<1>5. VerdictInv'
  BY <1>1, <1>2 DEF IInv, VerdictInv, Accepts
<1> QED BY <1>3, <1>4, <1>5 DEF IInv

\* Every step of agent, manager and network keeps the invariant.
LEMMA NextInv == IInv /\ [Next]_vars => IInv'
<1> SUFFICES ASSUME IInv, [Next]_vars PROVE IInv'
  OBVIOUS
<1>1. CASE UNCHANGED vars
  BY <1>1, FrameStands DEF vars, IInv, NumTypes, FrameInv, ReadInv, HasRead,
     VerdictInv, Accepts
<1> QED BY <1>1, ConfigureInv, AgentInv, RecvInfoInv, AnswerInv, LossInv
        DEF Next, Manage

\* The handshake's invariant: one frame, one reading of it, one verdict.
THEOREM HandshakeInvariant == Spec => []IInv
BY InitInv, NextInv, PTL DEF Spec

-----------------------------------------------------------------------------
\* connect returns a Connection only if server::handshake returned this
\* agent's AgentInfo and its version lies in the manager's window, and reports
\* a refusal only if the manager refused.
THEOREM EndsAgree == Spec => []ConnectedMeansAccepted
<1>1. IInv => ConnectedMeansAccepted
  <2> SUFFICES ASSUME IInv PROVE ConnectedMeansAccepted
    OBVIOUS
  <2>1. apc = "refused" => mres = "IncompatibleProtocol"
    BY DEF IInv, VerdictInv
  <2>2. ASSUME apc = "connected"
        PROVE  /\ mres = "Ok" /\ info.version = version
               /\ Matches(args.floor, version)
               /\ version.num <= args.ceiling.num
    <3>1. mres = "Ok" /\ Accepts(version)
      BY <2>2 DEF IInv, VerdictInv
    <3>2. info.version = version
      BY <3>1 DEF IInv, ReadInv, HasRead, InfoRead
    <3>3. version.num \in Nat /\ args.ceiling.num \in Nat
      BY HandshakeAssumption DEF IInv, NumTypes, Version, Arguments
    <3> QED BY <3>1, <3>2, <3>3 DEF Accepts, AtMost
  <2> QED BY <2>1, <2>2 DEF ConnectedMeansAccepted
<1> QED BY <1>1, HandshakeInvariant, PTL

\* The frame carries as many tail fields as the agent's build writes.
LEMMA TailOfFrame ==
    ASSUME IInv
    PROVE  /\ Len(InfoFrame.tail) = sends
           /\ \A k \in 1 .. sends :
                 k <= TailLen => InfoFrame.tail[k] = config[k]
<1>1. sends \in Nat
  BY FiveFields DEF IInv, NumTypes
<1> DEFINE f == [k \in 1 .. sends |->
                    IF k <= TailLen THEN config[k] ELSE Unknown]
<1>2. InfoFrame.tail = f
  BY DEF InfoFrame
<1>3. Len(f) = sends
  BY <1>1
<1>4. \A k \in 1 .. sends : k <= TailLen => f[k] = config[k]
  BY <1>1
<1> QED BY <1>2, <1>3, <1>4

\* decode_agent_info takes every field for what the builder was set to, and
\* what the agent's build does not write for unknown.
THEOREM InfoIsTruthful == Spec => []InfoTruthful
<1>1. IInv => InfoTruthful
  <2> SUFFICES ASSUME IInv, mres = "Ok"
               PROVE  /\ info.addr = "peer"
                      /\ \A k \in 1 .. TailLen :
                            info.tail[k] = IF k <= sends THEN config[k]
                                           ELSE Unknown
    BY DEF InfoTruthful
  <2>1. info = InfoRead
    BY DEF IInv, ReadInv, HasRead
  <2>2. info.addr = "peer" /\ info.tail = DecodeTail(InfoFrame)
    BY <2>1 DEF InfoRead
  <2>3. sends \in Nat /\ TailLen = 5
    BY FiveFields DEF IInv, NumTypes
  <2>4. ASSUME NEW k \in 1 .. TailLen
        PROVE  info.tail[k] = IF k <= sends THEN config[k] ELSE Unknown
    <3>1. info.tail[k] = IF k <= sends THEN InfoFrame.tail[k] ELSE Unknown
      BY <2>2, TailOfFrame DEF DecodeTail
    <3>2. k <= sends => k \in 1 .. sends /\ k <= TailLen
      BY <2>3
    <3> QED BY <3>1, <3>2, TailOfFrame
  <2> QED BY <2>2, <2>4
<1> QED BY <1>1, HandshakeInvariant, PTL

\* An agent whose tail is there and does not decode is never accepted.
THEOREM CorruptRefused == Spec => []CorruptNeverAccepted
<1>1. IInv => CorruptNeverAccepted
  <2> SUFFICES ASSUME IInv, mres = "Ok" PROVE badField > TailLen
    BY DEF CorruptNeverAccepted
  <2>1. Decodes(InfoFrame)
    BY DEF IInv, ReadInv, HasRead
  <2>2. InfoFrame.bad = badField
    BY DEF InfoFrame
  <2>3. badField # 0 /\ \A k \in 1 .. TailLen : k <= sends => k # badField
    BY <2>1, <2>2, TailOfFrame DEF Decodes
  <2>4. sends \in 0 .. 6 /\ badField \in (0 .. sends) \cup {7}
    BY FiveFields DEF IInv, NumTypes
  <2> QED BY <2>3, <2>4, FiveFields
<1> QED BY <1>1, HandshakeInvariant, PTL
=============================================================================
