# review-protocol: TLA+ models and proofs

This directory models the protocol core of the `review-protocol` crate: the
streams between a Central Manager ("server" in the crate) and its agents
("client"), the dispatch loops at both ends, the package install exchange down
to the bytes of its frames, the handshake, the event streams, the node
operations with their authorization and compatibility routing, the wire types
across releases, service enrollment and trust rollout. TLC checks the models on
small instances; TLAPS proves their safety properties, those of the wire types
excepted, for every value of the constants.

All source paths are relative to the repository's parent, as in
`PROJECT.json`: `src/src/request.rs` is the crate's `src/request.rs`.

## 1. The system

| Component | Source | State it keeps | Operations |
|---|---|---|---|
| Agent dispatch loops | `request.rs` `handle`, `handle_node` | the request being served; nothing between requests | receive a request, decode its arguments, call the handler, answer |
| PackageReader and install on the agent | `request.rs` `PackageReader`, `dispatch_node_package` | `size`, `remaining`, `failed` | `next_chunk`, `drain`, verdict, terminal response |
| Manager API | `server/api.rs` | one stream per call; bytes sent | unary call, fire-and-forget power, install exchange, each plain or authorized |
| Manager dispatch loops | `server/handler.rs` | the request being served | authorize, parse, call the handler, answer, or hand the request back |
| Agent API | `client/api.rs`, `lib.rs` `unary_request` | one stream per call | send a request, await its answer |
| Handshake | `client.rs` `connect`, `server.rs` `handshake`, `lib.rs` `decode_agent_info` | the builder's settings; the agent information | send, decode a tail of unknown length, check the version window, answer |
| Event streams | `server/stream.rs`, `server.rs` `EventStreamHandler` | none between events | header, events, decoding errors, end |
| Node facade and node methods | `server/node.rs`, `server/api.rs` | none | every node operation, plain, authorized and with a context |
| Authorization contexts | `auth.rs` | values only | conversions between the two contexts, the adapter between the two traits |
| Service identifiers | `service_id.rs` | tables | the service of a request and of a wire code, the catalogue |
| Default and compatibility methods | `request.rs` `Handler`, `NodeHandler` | none | defaults, blanket implementation, flat arms routed through grouped methods |
| Wire types | `types.rs` | values only | encoded and decoded by position, across releases |
| Service enrollment | `types.rs` `NodeEnroll*` | none in the crate: the manager's and the registrar's | `retry_after`, `leaves_teardown_owed` |
| Trust rollout readings | `types.rs`, `lib.rs`, `client.rs` | the builder's readings | `active_trust_epoch`, `ManifestFormatRange::contains` |
| Error kinds, TLS, framing | `protocol_error.rs`, `tls.rs`, `frame.rs` | values only | conversions, library calls |

The parts interact through QUIC streams only. A manager's call opens a
bidirectional stream, writes one request frame and reads one answer; an install
writes its package on the same stream between a preflight verdict and the
terminal response. The agent serves a stream with a loop that would take any
number of requests on it. An agent's calls to the manager run the same way in
the other direction, behind an authorizer. Events travel on unidirectional
streams. Nothing is persisted, and no call is retried by the crate.

What is hard here: a loop and a bounded reader share one stream and have to
agree on where a payload ends, whatever the handler did; answers carry no
request number, so alignment is all that attributes them; either end, a
caller's future, the package source or the connection may go away at any await,
also inside a frame, and a dropped QUIC stream looks like a finished one; the two
ends may be built from different releases that share a protocol version and
decode by position; an answer that never arrives leaves the manager with an
operation of unknown outcome, and what it may do next hangs on a predicate over
error variants. `PROJECT.json` lists these hazards
line by line with the properties that watch them.

What makes each part correct:

- install exchange: no byte without consent, all of the package or an error,
  the loop back on a request frame, nobody waiting for ever;
- calls: at most one execution, success reported only for an execution that
  succeeded, an outcome in the end, no trace of a call refused locally;
- manager's loop: nothing served that was denied, nothing served behind a denial,
  answers that match calls;
- handshake: both ends agree, the window is respected from both sides, the tail
  is read as sent or rejected;
- event streams: no event skipped, repeated or reordered, the end reported only
  behind every whole event, a handler's error final;
- node operations: a policy stops exactly the calls it is about, whichever way
  they are made; either kind of handler method serves both wire formats; who
  waits is answered;
- wire types: what decodes is what was sent, or the decode fails;
- enrollment: no identity left behind without an owner, none removed by an
  operation that was refused, every Register decided;
- trust rollout: nothing confirmed that the host has not reached, everything
  confirmed in the end that it can reach, no delivery for ever.

## 2. Modules

`AgentStream` is the bidirectional stream and the agent's side of it. The
directions `up` (to the agent) and `down` are FIFO sequences of frames with an
end: `fin` for finished or dropped, `reset`, `lost`. A frame whose writer was
dropped inside it is a `frag`. `pc` is the await the agent's task is parked on:

| `pc` | in `request.rs` |
|---|---|
| `recv` | `recv_request_raw` of the loop |
| `call` | the handler method of a unary arm |
| `preflight` | `node_package_install_preflight` |
| `install`, `reading` | `node_package_install`, and its `next_chunk` |
| `drain` | `pkg.drain()` |
| `reply` | `send_response` |
| `returned`, `released` | `handle` returned; its caller dropped the stream |

`Dispatch` is every arm of the match by its shape (`FlatArms`, `EngineTyped`,
`NodeUnary` list them): codes without arguments, codes with arguments that may fail to decode, the immediate power actions that are
not answered, the install, and the unknown code. A chunk where a request is
expected (`RecvMisaligned`) may decode to any request; the properties show that
this never happens. `effect` is a history variable: how far the handler of each
request got.

`ManagerCall` extends it with one call of the manager's API: the local variant
check and authorizer, `open_bi` and the request, the verdict, `send_package` chunk by
chunk, the reset of a transfer that cannot be completed, the response. The
package source may hold less than the declared size, fail, or hold more; the caller may
drop the future at any await, also inside a frame.

`RemoteCall` is the abstract specification of a call: at most one execution,
one final outcome, `Ok` only after success, a refusal only for what never ran,
and an outcome in the end. `ManagerCall` is checked to implement it with
`effect <- effect[1]`, and `ServerDispatch`, in the other direction, once for
each request on the stream (`Call(i)`), with the answer that there is no such
data source counted as a success.

`PeerStream` extends `AgentStream` with a peer that sends several requests on
one stream without waiting for answers, which the loop's contract allows and
the crate's own tests do. The peer may overrun its last transfer: from there on
the loop reads leftovers, and only the properties that do not assume the
contract are claimed (`deviated`).

`PackageBytes` is the same reader below the level of frames. A `next_chunk` is a
future that takes a length and then bytes off the stream, and a handler may
drop it in between (`DropFuture`); `remaining` and `failed` do not record that.
The sender cuts the package as it likes, overruns it, or stops short; `honest`
remembers whether it kept to the declared size. `AgentStream` reads a chunk in
one step; `WholePackage` and `BoundedBySize` are what that step rests on.

`ServerDispatch` is the agent's API and the manager's loops. `handle` is the
authorized loop with an authorizer that allows everything; the two authorized
loops are the same code over two authorizer traits and are one definition here.

`Handshake` composes both ends. `sends` is how many tail fields the agent's
build writes, from none (a build older than the tail) to one more than this release
knows; a field that does not decode stands for a damaged or foreign frame.
Versions are a precedence and a build-metadata flag, which is all that
`VersionReq::matches` and `Version`'s order tell apart here.

`EventStream` is `process_event_stream` with its three callbacks, and a writer
that follows the format it documents.

`Services` holds the identifier tables: the constant of each request variant,
with a family of its own as in `service_id.rs`, the service each wire code is
read back as, and the catalogue. `from_client_request_code` is used by the
crate's tests only and kept as the inverse reading of a code; `CodeNamesService` is
the statement that the tables agree. `NodeApi` is one node operation from the
caller's method to the handler's and back. `HostFacade`, `PowerFacade`,
`PackageFacade` and `ContextFacade` say which method of `Connection` each method of
the `Node` facade calls, `Entries` which methods take a
request, the facade's shortcuts included; `Allowed` is the authorizer asked
through the legacy trait, the context trait or the adapter; `Arm` is the agent's
routing: grouped methods, flat methods, their defaults and the blanket
implementation, as `over` (the methods an agent overrides) and `loop` select
them. An older manager sends the four flat codes. The policy is the
application's and is enumerated: it denies one operation to peers that lack a
credential, or nothing.

`Bincode` is the positional encoding (external), `WireTypes` the shape of every
type that a request or an answer carries, as the builds 0.20, 0.21, 0.23 and
0.24 declare it (0.22 changed no encoding), and `WireSkew` one call at a time
between two builds, either of which may be redeployed in between. A value is a
seed that selects variants and fills fields; what a decode yields is the bytes
the receiver made its value from. The histories of the types come from
`CHANGELOG.md` and the comments of `types.rs`. Rust's types do not tie the two ends of a call
together: the calling method names the type it sends and the type it decodes the
answer to, the arm names the type it decodes and the handler method the type it returns.
`WireSkew` therefore has each type twice, from the two places
(`FlatCalls`, `NodeCalls`, `ClientReports`, `ClientGets`, `ClientUpdates`, and
`FlatArms`, `EngineArms`, `NodeArms`, `NodeResults`, `GetArms`, `UpdateArms`,
`ServiceResults`), and `SameBuildDelivers` says that they match. Arguments that do not decode are answered with
an error by an agent (`AnswerUndecodable`) and with the end of the stream by the
manager (`Close`). Codes that no method of the crate sends are left out.

`Enrollment` is the manager's and the registrar's handling of service
identities. Only `retry_after`, `leaves_teardown_owed` and the error variants are
the crate's; the two programs are external and do what the documentation of
these asks of them. A call that fails leaves its request on its way: it may be
carried out later, or never. Any operations may name the same identity, host and
spec. A Register that finds its own spec is answered with fresh material
(`types.rs` 2179 to 2185), so that two operations may hold one registration, and
the teardown of either removes it; that the manager keeps one operation per row
at a time is a rule for the manager, which the model does not assume.
`MaterialStands` therefore excepts a registration that was given up by an
operation that shared its spec, or that was in doubt (`GivenUpUnclear`). What is left is
what `leaves_teardown_owed` is for: an operation that was refused, by
a conflict or otherwise, never removes the registration of another.

`TrustRollout` is the delivery of trust generations to one host. The crate's
part is which outcomes carry an epoch, what a builder repeats at every connect,
and which formats a range contains; activation and the manager's record are
external.

`MC*` modules only give constants their values. Operators marked "Mutant" are
plausible bugs next to the definition they vary; no specification uses them.

### External parts

quinn, oinq's framing, semver and the callers of this crate are not in the
repository. They are modelled from how the crate uses them and from what it
relies on: streams deliver in order; a read returns a whole frame, an early end
or an error; a lost connection keeps a prefix of what was in flight in each
direction and a reset may overtake it; a write towards a reader that stopped may fail or vanish.

## 3. Runs

| Run | Shows | Bounds | States |
|---|---|---|---|
| `manager_call` | alignment, consent, wholeness, truthful outcomes, termination of both ends, refinement of `RemoteCall` | installs of 0 to 3 bytes in chunks of at most 2, sources of 0 to 4 bytes, window of 2 frames, one request per shape of arm | 67 394 |
| `peer_stream` | the loop's alignment, order, uniqueness and liveness of answers over several requests, also behind a broken transfer | 3 requests, installs of 0 and 2 bytes, one empty chunk, an overrun of the last transfer | 806 766 |
| `package_bytes` | wholeness, the bound on what is handed out, termination, byte by byte | a package of 2 bytes with values 0 to 2, sent in at most 3 chunks with at most one byte too many, one dropped future | 210 563 |
| `server_dispatch` | denials, matching answers, truthful calls, termination of both ends, each call a `RemoteCall` | 3 pipelined requests, one per shape of arm | 354 022 |
| `handshake` | agreement, window, tail, termination | two releases with and without build metadata, tails of 0, 3 and 6 fields | 577 088 |
| `event_stream` | order, completeness, finality of errors, termination | 4 events | 3 818 |
| `node_api` | policy, routing, answers, identifiers of every node operation | 13 agents, 2 peers, all operations and entry points, policies within the family of the call | 254 941 |
| `wire_skew` | nothing misread between builds, nothing lost between equal ones, installs across builds as the release notes say | 4 builds, all methods of both sides, 25 values of each type, 161 of `node.package` | 97 516 |
| `enrollment` | no orphan, no removal by an operation that was refused, every Register decided | 4 operations on one identity, three of them on one host, two of these with one spec, one refusal, 1 lost call | 566 150 |
| `trust_rollout` | readings sound and, in the end, complete | 2 epochs in 2 formats, 3 ranges, 2 failures | 27 562 |

The bounds are chosen so that every case exists: size 0, a size that is a
multiple of the chunk length and one that is not, a source that is short, exact
and long, a window smaller than the package, a request behind an install and
behind a denial. The behaviour of an exchange depends on sizes only through the
comparisons with `remaining`, and the proofs below do without these bounds.
Payload bytes take the values that are also frame lengths in `package_bytes`, so
that a reader out of step finds a length, an empty frame and one that overruns.
The seeds of `wire_skew` reach every variant of every request and answer;
`node.package` needs more of them because its answers nest an error in a
variant. Four operations on one identity are the least that has
a shared registration, a conflict of specs and a conflict of hosts; one lost
call lets a Register outlive its operation. The proofs do without either bound.

A type invariant is checked in `manager_call` and proved for `ManagerCall` and
`TrustRollout`; elsewhere the comments at the variables state the types, and
the proof modules what of them the proofs need.

`NothingMisread` leaves one case out, `GrownInsideList`: a list of more than one
installed package, whose entries gained a field in 0.24.0, read by an older
manager. The release notes state it (`CHANGELOG.md` lines 45 to 47).

Two runs are expected to be violated: they state what the documentation says
where the code does something else.

| Run | Documented | What the code does |
|---|---|---|
| `clean_return` | `RecvError` if the request could not be received | a stream cut inside a request ends `handle` with `Ok` |
| `package_over_read` | the reader cannot over-read into the next request frame (`request.rs:121`) | a `next_chunk` dropped inside a frame leaves the reader out of step; it then takes payload for lengths, and bytes of the next request for payload |

Smaller divergences met while modelling, which no run states:

- `EventStreamHandler::on_error` is documented for network errors too; a read
  error is returned without a call (`stream.rs:59`);
- `on_stream_end` is documented for a normal end; it is also called for a stream
  cut inside an event (`stream.rs:53`);
- a refused agent is quoted the accepted range; build metadata counts in the
  comparison with the ceiling and not in that range (`server.rs:574`);
- a denial is documented to return `PermissionDenied`; if its answer cannot be
  written, the write error is returned (`handler.rs:592`);
- `handle` is documented to call the flat methods directly for flat codes
  (`request.rs:1317`); four arms go through the grouped methods
  (`request.rs:1370`), which matters to an agent that overrides both.

### Fairness

Weak fairness of the steps the code takes by itself: the executors poll every task that
is ready. Weak fairness of handler methods, and of the package source: a handler that never
returns blocks its stream in the code too, there being no timeout. No fault, no new call and no
closing of a connection is ever assumed. `ConnectEnds` leaves out the one case the code documents as open-ended:
after an argument that is not semver the agent waits for as long as the manager keeps
the connection, since the agent's keep-alive prevents an idle timeout.

`PackageBytes` assumes the reader is polled and the handler returns once its
future is done. `Enrollment` assumes that the manager drives a pending Register
and reads its answers, and, strongly, that the registrar's rate limit clears:
while Registers are tried again and again, one of them is at some time not answered with
`RegistrarBusy`, which is what a delay worth honouring means. `TrustRollout`
assumes that the agent reconnects and applies and that the manager reconciles
and reads its answers; failures are bounded by `MaxFails`, because under endless
ones nothing could be confirmed.

## 4. Proofs

`ManagerCallProofs` proves, for every set of requests, chunk length, window,
request length and set of source lengths (`StreamAssumption`,
`ManagerAssumption`), of `ManagerCall`'s `Spec`:

| Theorem | States |
|---|---|
| `TypeCorrect` | `TypeOK` |
| `Inductive` | `IndInv`, the inductive invariant |
| `AlignmentSafe` | `Aligned`: loop and reader each meet only frames of their kind, the next bytes in order |
| `ConsentSafe` | `BytesOnlyAfterProceed` |
| `WholeOrNothing` | `AppliedMeansWhole` |
| `SuccessIsTrue` | `OkMeansDone` |
| `ImplementsRemoteCall` | the safety part of `RemoteCall`: its initial states, and every step one of its steps or a stutter |

None of the properties is inductive by itself. Alignment needs to know what is
in flight, so `IndInv` adds:

- `RequestInv`, `UpInv`: the request is received once, and what is in flight is
  the request, or pieces of the package with perhaps a torn frame last;
- `ContiguousInv`: during a transfer that goes well, what the reader took, what is in flight
  and what was sent follow each other without a gap. This is what makes the
  reader's bound and the sender's count agree;
- `QuietInv`: once a transfer has failed, or a request is served, no frame is left and, if the manager
  could still write, it has already sent everything. This is why it is safe not to drain a failed transfer;
- `ExchangeInv`, `ReplyInv`: where each side is in the exchange, and that every
  reply in flight is true.

The proof has one lemma per action or group of actions that move the same part of the
state, over a few lemmas about sequences. `IndInv` was first checked by TLC on the
bounds of `manager_call`.

The refinement is proved step by step. An agent's step maps to `Run`, to
`Complete` or to a stutter, a manager's step to `Report` or to a stutter. The
abstract guards need more than `IndInv`: `OutcomeInv` says that a call
still on its way has no outcome, and that one refused before `open_bi` has put nothing
on the stream that an agent could run later. A refusal that came from the agent
is covered by `ReplyInv`. The fairness of `RemoteCall` is left to
the run.

`PeerStreamProofs` proves of `PeerStream`'s `Spec`, for every set of requests,
number of requests on the stream, package sizes, window and number of empty chunks
(`StreamAssumption`, `PeerAssumption`):

| Theorem | States |
|---|---|
| `PeerStreamInvariant` | `IInv`, the inductive invariant |
| `NoSecondAnswer` | `AnsweredOnce`, whatever the peer sent |
| `LoopStaysAligned` | `LoopAligned` |
| `AnswersCountOff` | `OkAnswersInOrder` |
| `EffectInvariant` | `EffectInv`, what was done for each request |
| `AnswersAreTrue` | `AnswersTrue`: every answer under way is true of its request |
| `HandlersRunOnce` | the action property that a handler is started and ends at most once |
| `CountedSuccessIsTrue` | `SuccessCountsOff`: the request that a success is counted off against was done |

`IInv` has two halves. `Numbers` and `Once` need nothing of the peer: requests
stand on the stream in the order of their numbers, and one that waits or is
being served has had no last answer; what the loop takes for a request after an overrun is
number 0. `Order` holds until the peer overruns a transfer, and follows each
request from the stream to its answer:

- `DueInv`: what is due is in the order of the requests, and the install the
  peer waits for is the last of them;
- `DueSomewhere`: as long as the loop goes on and the peer reads, exactly
  these are due: the answers under way, the request being served and the
  requests on the stream, except for those that expect no answer;
- `DownInv`: the answers under way come in the order of what is due, with at
  most one verdict. The exception is `Stray`, the error written when the
  arguments of an immediate power action do not decode: nobody expects it, and
  it is the last thing the loop writes;
- `ChunkInv`: the chunks under way continue the package where the
  `PackageReader` stands and end where the peer stands; `ReaderInv`: a read
  fails only at the end of the stream, so nothing is left behind it to be
  misread.

The proof has one lemma per action of the agent or of the peer. TLC checked
`IInv` first, on the bounds of `peer_stream` and with 4 requests and a window of 3.

`EffectInv` is about `effect`, which `IInv` leaves out: nothing was done for a
request that waits on the stream (`Untouched`), what was done for the one being
served goes with the place of the loop (`CurEffect`), and the answers are true.
An answer stays true because, by `Once`, a handler moves on only for a request
without a last answer; this is the one step that needs `IInv`. Every step of the agent
then concerns one request (`Concerns`), and `HandlersRunOnce` is what is left of
that. None of it assumes a peer that keeps to the contract; request 0, which
nobody sent, is excepted. TLC checked `EffectInv` and the action property on the
bounds of `peer_stream`.

`ServerDispatchProofs` proves of `ServerDispatch`'s `Spec`, for every set of
requests, number of them, window, and with or without requests sent ahead
(`ServerAssumption`):

| Theorem | States |
|---|---|
| `DispatchInvariant` | `IInv`, the inductive invariant |
| `DenialIsFinal` | `DeniedNeverServed` |
| `AnswersInOrder` | `AnswersMatch` |
| `SuccessWasServed` | `OkMeansServed` |
| `CallsImplementRemoteCall` | `RemoteCalls`: each call, by itself, has the initial states and steps of `RemoteCall` |

Answers carry no number, so the argument counts. `UpInv`: the requests on the
stream follow the last one read without a gap. `DownInv`: for some `a`, requests
1 to `a` are answered, the answers on the stream are those of `a + 1` onwards, and
they reach up to the request being served. `ServeInv` and `ReplyInv` tie
what was decided and done for each request to where the loop is, and an
answer that is no error to a request that was served.

The refinement is a statement about every call of the stream at once, since a
failure ends all open calls in one step. A step of the manager's moves one request
forward and no outcome (`ServeMoves`: `ServeInv` gives the state it moves
from); a step of the agent's gives outcomes only to calls that have none
(`AgentMoves`: `DownInv` gives that the first open call has none), and `Ok` only
where `OkMeansServed` holds after the step.

`EventStreamProofs` proves of `EventStream`'s `Spec`, without any assumption on the
number of events:

| Theorem | States |
|---|---|
| `EventStreamInvariant` | `EventInv`, the inductive invariant |
| `EventsDelivered` | `EventsInOrder` |
| `EndIsTheEnd` | `EndMeansAll` |

`EventsInOrder` gives the events on the wire their places, behind those that the
handler was given. It is inductive with `WireInv` (a torn frame comes last, the header
first, and as long as the writer goes on the last place is the last event
written) and `TaskInv` (what `process_event_stream` has called, by where it is).
`EndMeansAll` follows at the end of the stream: nothing is on the wire, so the
events given are all there are.

`HandshakeProofs` proves of `Handshake`'s `Spec`, for every set of readings,
every release and every build of the agent (`HandshakeAssumption`):

| Theorem | States |
|---|---|
| `HandshakeInvariant` | `IInv`, the inductive invariant |
| `EndsAgree` | `ConnectedMeansAccepted` |
| `InfoIsTruthful` | `InfoTruthful` |
| `CorruptRefused` | `CorruptNeverAccepted` |

Neither end sees the other. `FrameInv` says that the one frame in flight is what
the builder's settings make of it, `ReadInv` that the manager, once past the
decode, holds the reading of that frame, `VerdictInv` that what was decided,
answered and reported is the same.

`OutcomeProofs` is about the two modules that say what a manager may conclude
from the outcomes `types.rs` gives it. It proves of `Enrollment`'s `Spec`, for every set of
operations, identities, hosts and specs and any number of failed calls
(`EnrollmentAssumption`, `AbsentAssumption`, `RefusalsAssumption`):

| Theorem | States |
|---|---|
| `EnrollmentInvariant` | `IInv`, the inductive invariant |
| `NoOrphans` | `NoSilentOrphan` |
| `MaterialSafe` | `MaterialStands` |

None of these assumptions says which operations share an identity, a host or a
spec. A manager knows of the store what the answers told it, and the
invariant says what that knowledge is worth. `OwnedInv`: whatever is in the store has
an operation that may have put it there (`Owns`), which `NoSilentOrphan` follows from.
`HeldInv`: an operation that holds a registration, has one announced in an answer
on its way, or owes the teardown of one without being in doubt, finds it in place,
unless `GivenUpUnclear`. It has to cover the operations that owe a teardown
as well as those installed: a clear teardown removes the registration of its own
spec, and whoever else was given that one shared it. `CallInv` says
that an abandoned call has left its operation in doubt, so that what it does
later is covered by the same exception. The exception never ends (`UnclearStays`:
who was given up stays given up, and who was told of a registration stays told),
which is what lets a teardown be argued once, at the step that removes
the registration (`TearDownKeeps`).

`OutcomeProofs` also proves of `TrustRollout`'s `TrustSpec`, for every number of
epochs and failures and every assignment of formats (`TrustAssumption`):

| Theorem | States |
|---|---|
| `TrustTypes` | `TypeOK` |
| `ConfirmedReached` | `ConfirmedIsReached` |

`ConfirmedIsReached` alone is not inductive: a reading on its way may be
confirmed later. The invariant adds `ReadingsReached`: every epoch that an
answer in flight or the builder carries is one the agent has reached; and
the agent's epoch never falls.

`NodeApiProofs` proves of `NodeApi`'s `Spec`, for every set of agents (trait,
loop and overridden methods, `AgentsAssumption`) and of peers
(`PeersAssumption`):

| Theorem | States |
|---|---|
| `ServiceIdInjective` | no two node operations share a service identifier |
| `NodeApiInvariant` | `IInv`, the inductive invariant |
| `AuthorizationExact` | `DeniesExactly` |
| `OverridesServe` | `EitherOverrideServes` |
| `AnswersFit` | `AnswerFits` |
| `CodeMatchesService` | `CodeNamesService` |

What the two sides compute of a request comes from tables and is settled by lemmas about
these: the constant of each variant is of the family that its code is read back
as, and in the catalogue (`RequestService`, table by table), a flat method and its operation correspond one
to one, every arm runs the operation named or answers by default. The invariant
only has to remember that the call in progress is one a manager can make and
how far it got.

`PackageBytesProofs` proves of `PackageBytes`'s `Spec`, for every size, set of
bytes and number of chunks and dropped futures (`PackageAssumption`):

| Theorem | States |
|---|---|
| `ReaderBounded` | `BoundedBySize` |
| `PackageWhole` | `WholePackage` |

A chunk moves the length of what a future has buffered from `remaining` to what
was handed out; the invariant adds `ReaderTypes`, the types of the stream and
of that future, without which neither length is a number. `WholePackage` needs
the places where the chunks on the stream begin. The model does not keep them,
and the invariant `AlignInv` only says that they exist: a set of places, each
followed by a length and that many bytes of the package up to the next place
(`Layout`), one of which is where the reader's current chunk begins
(`ReaderAt`). A write adds a place, a read moves the reader to the next.

Only model-checked:

- every liveness property, and the fairness of `RemoteCall` (out of the
  prover's reach);
- what the recursive encoding of `Bincode` computes, and with it `WireSkew`
  (induction over data).

## 5. Not modelled

- TLS and endpoint configuration (`tls.rs`, the certificate methods of
  `ConnectionBuilder`): parsing and library calls without protocol state.
- Framing helpers (`frame.rs`): wrappers around oinq, which is the external
  stream of every module. Frame lengths appear in `PackageBytes` only.
- Error taxonomy (`protocol_error.rs`): only the kinds that the loops return.
- Display and parsing of service identifiers, and the identifiers of the
  manager's own families; which of its codes have one is in `ServerDispatch`.
- Column statistics, whose type belongs to another crate, and the types that
  no request carries.
- Roles, kinds and attributes of an authorization context: no code of the crate
  reads them.
- Test support (`test.rs`).

## 6. Plan

1. Done: `AgentStream`, `ManagerCall`, `RemoteCall`, `PeerStream`,
   `PackageBytes`, `ServerDispatch`, `Handshake`, `EventStream`, `Services`,
   `NodeApi`, `Bincode`, `WireTypes`, `WireSkew`, `Enrollment`, `TrustRollout`;
   the proofs of every safety invariant the runs check, except those of
   `WireSkew`, and of the safety part of the refinement of `RemoteCall` in both
   directions.
2. Possible models: several calls sharing one connection and its stream limit;
   a `ConnectionBuilder` reused across certificate renewals.
