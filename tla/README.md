# Formal models of go-factory-io

go-factory-io is a SECS/GEM equipment driver: HSMS sessions over TCP (SEMI E37),
the GEM equipment model above them (E30), the 300mm job and carrier managers
(E87, E40, E90, E94, E116), and adapters to other protocols. This directory holds
TLA+ models of its concurrent core, the TLC runs that check them on small
instances, and TLAPS proofs of what matters most for every instance.

The HSMS session is the deepest part: one Go value shared by up to seven goroutines
and by everyone who calls its methods, with atomics, two mutexes, timers, a socket
and a close protocol. Above it stands the GEM equipment, whose managers are each
guarded by a lock and are driven at the same time by the host's messages, the
application, alarm and event goroutines and the API servers: there the hard cases
lie between two critical sections of one operation. Beside them are small clients
with timers and retries of their own.

## 1. Inventory

| Component | State | Operations | Interaction | What is hard | What makes it correct |
|---|---|---|---|---|---|
| HSMS session (`pkg/transport/hsms/session.go`) | `state`, `closed`, `done`, `conn`, `listener`, `cancel`, `nextSystemID`, `pending`, `inbound` | `Connect`, `Select`, `Send`, `SendMessage`, `Receive(Message)`, `Close`; read loop and handlers, linktest, T7, TTL | TCP with the peer; channels to callers and application | checks and stores in separate steps on different goroutines; Close from five places; timers against late answers | one Close; a transaction table that holds the calls under way, also when callers choose their system IDs; replies to their calls; data only when Selected; calls return; Close ends every loop; T7 drops what never selects |
| HSMS codec (`message.go`) | none | marshal, unmarshal, constructors | called by the session | header bits | inverse of one another |
| Managed session (`pkg/session/reconnect.go`) | `session`, `cancel`, `done`; delay and attempt | `Start`, `StartBackground`, `Stop`, monitor and reconnect loops | makes and closes sessions; callbacks | Stop against a connect under way; loops that start one another | one live session; callbacks alternate; bounded backoff; a lost session is replaced; Stop leaves nothing |
| GEM state (`pkg/driver/gem/state.go`) | communication and control state | enable, establish, fail, retry, on-line, off-line | callback under the lock; handler, interlock, application | callers race; re-entrant callback | on-line only while communicating; the steps the validator's tables have |
| Interlock, alarms (`safety.go`, `alarm.go`) | alarm set, enabled; threshold, action | `SendAlarm`, `Evaluate`, S5F3 | forces the state machine off-line | configuration, alarm, control state and transition in four critical sections | an alarm that calls for it takes the equipment off-line |
| Variables, events, reports (`variable.go`, `event.go`) | constants, reports, links, enable flags | S2F15, S2F33, S2F35, S2F37, `SetEC`, `SendEvent` | handler, REST and gRPC servers, session | one critical section per entry; errors that are ignored | constants in range; accepted means stored; a disabled event is not sent |
| Handler, commands, policy (`handler.go`, `command.go`, `pkg/security/policy.go`) | policy, custom handlers, request under way | `HandleMessage`, `OnMessage`, `sendReply`, `SetPolicy` | session below, managers beside | policy replaced while a message is handled | a restricted host changes nothing |
| Carriers, jobs, substrates, EPT (`carrier.go`, `processjob.go`, `controljob.go`, `substrate.go`, `ept.go`) | state per carrier, port, job, wafer, equipment | transitions | callbacks under the lock | `ReadyToUnload` in two critical sections; a port set in service under a carrier; a carrier bound twice | ports and carriers refer to each other; only valid transitions; history explains state; time adds up |
| Validator (`pkg/validator`) | recorded transitions, timings | `Validate...` | judges the above | its tables against the state machines | accepts what the state machines do |
| Rate limiter (`pkg/security/ratelimit.go`) | token bucket | `Allow` | session | refill and cap | burst and rate hold in every window |
| Event sinks (`event.go`, `e191.go`, `webhook.go`) | counters, batch, timer, connection | `Emit`, `handle`, `flush`, `send` | timer and sender goroutines against the producer | the timer of one batch meets the next | every event is settled, once; none waits without a timer |
| SECS-II codec (`pkg/message/secs2`) | none | encode, decode | handler | lengths, nesting, truncation | decode inverts encode; a wire that ends inside an item is refused |
| Modbus client (`pkg/transport/modbus`) | connection, `txnID` | `sendRequest` and its callers | one request at a time | late responses, deadlines inside a response, transaction IDs that wrap | a result belongs to its call |
| OPC-UA, MQTT, REST, gRPC, studio, simulator, metrics, `cmd` | adapters | - | external libraries | - | - |

The hazards of this code, with the line where each bites and the property that
would catch it, are listed in `PROJECT.json`.

## 2. Modules

| Module | Models | Role |
|---|---|---|
| `HsmsSession` | `session.go`, the message types of `message.go` | one endpoint with an arbitrary peer |
| `MCHsmsSession` | - | `HsmsSession` for TLC, with a view |
| `HsmsPair` | two Sessions and the TCP connection | composition, by two `INSTANCE`s of `HsmsSession` |
| `ManagedSession` | `reconnect.go` | reconnection above sessions that come and go |
| `GemHandler` | `HandleMessage`, `policy.go` | the message loop that the next two share |
| `GemControl` | `state.go`, `alarm.go`, `safety.go`, S1F13 to S1F17, S5F3, `SendAlarm` | state machine and interlock |
| `E30States` | the communication and control tables of `validator/state.go` | abstract specification, from which `GemControl` differs by one step |
| `GemData` | `variable.go`, `event.go`, `command.go`, S2F15 to S2F41, `SendEvent`, the writing calls of the API servers | data of the equipment |
| `MCGem` | - | `GemControl` and `GemData` composed, for TLC |
| `ValidatorTables` | the carrier and job tables of `validator/state.go` | reference for the managers |
| `CarrierManager`, `JobManagers`, `SubstrateTracker`, `EptTracker` | the files of those names | 300mm managers |
| `MCMaterial` | - | the four managers for TLC |
| `SecuritySinks`, `RateLimiter` | `event.go`, `e191.go`, `webhook.go`; `ratelimit.go` | security |
| `ModbusClient` | `client.go`, `protocol.go` of `transport/modbus` | the client and a slow device |
| `Secs2Codec` | `pkg/message/secs2` | recursive operators, TLC only |
| `MCClients` | - | these four for TLC |
| `HsmsSessionProofs`, `HsmsPairProofs`, `ManagedSessionProofs`, `GemControlProofs`, `GemDataProofs`, `CarrierManagerProofs`, `MaterialProofs`, `ClientsProofs` | - | theorems; `GemDataProofs` is about `GemData` and `MCGem`, `MaterialProofs` about `JobManagers`, `SubstrateTracker`, `EptTracker` and `MCMaterial`, `ClientsProofs` about `SecuritySinks`, `RateLimiter` and `ModbusClient` |

### HsmsSession

Each goroutine is a process with a label in `pc`. An action is what a goroutine
does between two accesses to state that others can change. So `Close` is six
actions (`CloseCAS`, `CloseCancel`, `CloseConn`, `CloseListener`, `CloseStore`,
`CloseDone`), `handleSelectReq` is the write (`HandleSelectReq`) and the store
(`ReaderStore`), `handleMessage` is the lookup in `pending` (`HandleMessage`) and the
send on the channel it found (`Deliver`) or the dispatch and what follows, and `startT7Timer` is the check (`T7Expires`) and then the steps of
`Close`. `sendAndWait` is `Register`, `SendWrite` or `SendWriteFails`, and
`ReplyArrives` or `WaitTimeout`; the three calls that use it (`Select`,
`SendMessage`, `linktestLoop`) share these actions. Each call makes a channel of its
own (`FreeChannels`), which `mine` remembers for the call and `target` for the reader
between lookup and delivery. `SendMessage` draws a system ID when the caller's is 0 and
uses the caller's otherwise (`CallerIDs`), as the integration tests do: two calls can
then have the same ID, and the second replaces the entry of the first.

Abstractions. A message is a type and a system ID; a data message is primary with
W-bit ("Data"), primary without ("Event") or secondary ("Reply"); a frame that
`readMessage` refuses is "Bad". A timer may expire at any time. The rate limiter
is the choice to drop a message. A Write succeeds while the wire has room
(`WireCap`), blocks otherwise, and fails once the connection is closed; after the
peer has closed, it may also succeed and be lost. Read before the end of file may
lose what is still on the wire (RST). The application is a receive loop that
answers requests as `gem.Handler.sendReply` does. TLS, logging and the auditor are
left out: the handshake is part of the dial or of the accept, which may fail.

`CloseFrom` says from when on the application may call Close: "setup" (once the
loops run), "new" (at any time) or "never" (only the session itself calls it).

### HsmsPair

The host is active, the equipment passive. `in` of one is `out` of the other, and
end of file at one side is the closed connection of the other. A dial succeeds
only while the equipment listens. `PairAssumption` says what the callers may send:
a host's anything, Deselect.req included (`e2e_test.go:457` sends one), an equipment's
nothing of a Select: every caller of `Session.Select` (`reconnect.go:157`,
`simulator/host.go:61`, `cmd/secsgem/main.go:257`) is on the active side. A
Deselect.req makes the equipment Connected and leaves the host Selected, which
`e2e_test.go:468` expects; the history variable `deselected` records that the equipment
has taken one up, and the two properties of the run `pair` are claimed until then.

### ManagedSession

`Start`, `connect`, `monitorLoop` and `reconnectLoop` hand over to one another (each
`go` statement is the last thing its goroutine does), so there is one logical
worker; calls of `Stop` and the end of a session interleave with its steps. A
session is a token that is up or done. `called` records the last callback. The float
`Multiplier` is the fraction `Numerator`/`Denominator` (3/2 in the run, as in the
tests), and the new delay is rounded down. Nothing in the code validates the
configuration, so the assumption asks for no order between the delays either.

### GemHandler, GemControl, GemData

`HandleMessage` looks at the policy once and then runs the handler of the message.
A handler takes and releases a manager's lock for every entry of the body, so a
request is `work`, a sequence of critical sections; `Advance` ends one of them, and
every other goroutine may run in between. The body of a message is abstracted to
that sequence and to the acknowledge code that its form alone decides (a body that
does not decode gets no reply, one that is too short an error code). A message for
which the application has called `OnMessage` goes to the application's function, after
the policy; what that function does to the equipment is among the steps the
application can take at any time.

`GemControl` has each method of `StateMachine` as an operator; S1F13, S1F15, S1F17,
the application (`DriveState`) and the interlock call them. `E30States` has the two
tables of `validator/state.go` literally. `GoOnlineLocal` and `GoOnlineRemote` go
on-line from OFFLINE/EQUIPMENT, which the control table does not have and
`state_test.go:57` calls invalid; the run `gem_e30` shows it, and `OnlyOnlineSkips` says
that it is the only difference. `SendAlarm` is a
process: set the alarm, copy the interlock's configuration (`EvaluateSnapshot`),
read the alarm again (`EvaluateCompare`), ask `IsOnline` (`EvaluateAct`), call
`GoOffline` (`EvaluateGoOffline`), report. `safe` is a history variable: it records
whether since the alarm was set there was a moment at which the equipment was
off-line or nothing asked for it.

`GemData` holds constants, reports, links, enable flags and commands. A value that
S2F15 stores is `Item`, the decoded SECS-II item: `numeric` knows Go numbers only,
so for a constant with a bound every S2F15 is refused by the range check (and
acknowledged with EAC 0 all the same, see the run `gem_constants`). REST and gRPC call `SetEC` and
`Execute` without the policy. The two modules share the message loop and nothing
else; `MCGem` composes them and lets a behaviour concentrate on one of three parts.

### CarrierManager, JobManagers, SubstrateTracker, EptTracker

Every method holds its manager's lock, so it is one action, except
`ReadyToUnload`, which changes the carrier in one critical section and the port in
a second; two goroutines may be in it, and any call may come in between. `BindCarrier`
looks at the port and not at the carrier, so a carrier that is on a port can be bound to
another one: its entry is replaced and the first port still names it. The history
variable `rebound` holds the carriers to which that happened and those that were bound
while a `ReadyToUnload` for them was under way; the passing properties say what holds
for the others and that there is no further way to go wrong. Ports are defined once, at
the start. The job managers are tables of (method, expected states, new state). A wafer
keeps the path of its movements, its last mark and the length of the path then (`mark`
and `since` are history); the equipment's performance is kept with an integer clock and
OEE's factors as pairs.

### SecuritySinks, RateLimiter, ModbusClient, Secs2Codec

`Emit` calls its handlers in turn. In the webhook a timer is armed, fired (its
`flush` waits for the mutex) or idle; `Stop` holds back only an armed one, so a
late `flush` may take the batch of the next timer. A post may be lost, arrive
without its answer, or be answered with 2xx, 4xx or 5xx, and is retried. The rate
limiter counts tokens in units of 1/`Second`, which makes the refill exact; a
window that begins at any time counts what is allowed in it. The Modbus device
answers in order, late, with an exception or not at all, and refuses a write whose
lengths do not agree; the quantity and the byte count are cut to their widths. A
deadline before the answer leaves the answer in the connection; one inside it leaves the
connection `torn`: from then on a call reads from the middle of a frame, and whether it
fails or takes what it reads for its answer is left open (`ReadTorn`). A connection is
`InStep` while it is not torn and fewer calls were given up on it than there are
transaction IDs. The client looks after neither, so this is a condition of the claim and
not a guard of the model. `Secs2Codec` encodes and decodes bytes for all fourteen
formats, over a wire that may end anywhere; numbers of four and eight bytes are sequences
of 16-bit digits, the first with the sign, because TLC's integers are too narrow, and a
length above 2^24 - 1 is an error that a list passes on.

## 3. Runs

| Run | Result | Properties | Size |
|---|---|---|---|
| `session_safety` | passes | `TypeOK`, `PendingMatchesCalls`, `RepliesCorrelated`, `CloseRunsOnce`, `CloseReleasesAll`, `QueuedOnlyWhenSelected` | @session_safety@ states |
| `session_calls` | passes | `CallsReturn` | @session_calls@ |
| `session_close` | passes | `CloseStopsLoops` | @session_close@ |
| `session_timers` | passes | `T7DropsUnselected` | @session_timers@ |
| `pair` | passes | `PassiveAcceptsData`, `SelectedAgreement` | @pair@ |
| `pair_close` | passes | `CloseReachesPeer` | @pair_close@ |
| `managed` | passes | `TypeOK`, `OneLiveSession`, `CallbacksAlternate`, `BackoffBounded`, `LostIsReplaced`, `StopEndsWorker` | @managed@ |
| `gem` | passes | `TypeOK`, `OnlineOnlyCommunicating`, `InterlockTrips`, `ConstantsInRange`, `RestrictedWritesNothing`, `OnlyOnlineSkips`, `SafetyAlarmGoesOffline` | @gem@ |
| `material` | passes | `TypeOK`, `PortsMatch`, `UnloadPortHasDoneCarrier`, `HistoryExplainsState`, `OEEConsistent`, `CarrierStaysWhileAccessed`, `CarrierStepsValid`, `JobStepsValid` | @material@ |
| `clients` | passes | `EventsAccounted`, `BatchWillFlush`, `EventsSettle`, `RateBounded`, `ResponseBelongs`, `DecodeInvertsEncode` | @clients@ |
| `early_close` | violated | `T7DropsUnselected` | |
| `pair_reject` | violated | `ActiveAcceptsData` | |
| `pair_ids` | violated | `RepliesAreReplies` | |
| `managed_done` | violated | `DoneAfterStop` | |
| `managed_leak` | violated | `StopLeavesNothing` | |
| `gem_e30` | violated | `StatesFollowE30` | |
| `gem_constants` | violated | `AcceptedMeansStored` | |
| `gem_events` | violated | `DisabledIsSkipped` | |
| `carrier_rebind` | violated | `CarrierIsOnPort` | |
| `carrier_unload` | violated | `OffersDoneCarrier` | |
| `substrate_place` | violated | `InCarrier` | |

The violated runs each state a sentence of the repository (a comment or a test) that
the code does not keep in some sequence of steps:

- `early_close`: Close between `Connect` and the end of `acceptAndRun` leaves the
  accepted connection open; T7, the read loop and a second Close all stand down
  because `closed` is set.
- `pair_reject`: data that follows Select.rsp at once is rejected by the active
  side, whose reader overtakes the goroutine in `Select`.
- `pair_ids`: a primary message of the peer is taken for the reply to a call, since
  both sides number from 1 and the lookup is by system ID alone.
- `managed_done`: `Stop` with a session in place never closes the channel of `Done`.
- `managed_leak`: `Stop` during `connect` leaves the new session installed.
- `gem_e30`: the state machine goes on-line from OFFLINE/EQUIPMENT.
- `gem_constants`: S2F15 answers "accepted" for a value that `SetEC` refused.
- `gem_events`: an event that is disabled between the two looks of `SendEvent` is sent,
  without its reports.
- `carrier_rebind`: a port names a carrier that was bound to another port since.
- `carrier_unload`: a port offers a carrier for removal that has not been accessed.
- `substrate_place`: a wafer in a buffer is reported in its carrier.

What the three runs above the sessions show:

- `gem`: whatever the host, two alarm goroutines and the application do between
  the four critical sections of `Evaluate`, an alarm of a severity that calls for it
  has the equipment off-line at some moment (a later S1F17 may bring it back: the
  code has no latch). The state machine takes the steps of the validator's tables and
  one more, going on-line from OFFLINE/EQUIPMENT. A message admitted
  under `MonitorPolicy` or `ReadOnlyPolicy` writes nothing, also when the policy is
  replaced half-way. Constants stay within their bounds whoever writes them.
- `material`: ports and carriers agree, except for carriers that were bound twice,
  although `SetPortInService` ignores the carrier and `ReadyToUnload` writes the port
  late; no port gives up a carrier that is accessed; while a carrier stays on its port
  the validator accepts its steps, and it accepts those of all jobs; a wafer's movements
  since its last mark explain its state; no time is lost between the states of the
  equipment.
- `clients`: every event given to the webhook is in one place only and settled in
  the end, and a batch never waits without a timer; the limiter keeps its bound in
  every window; on a connection in step a late Modbus answer is never taken for that of
  another call; a SECS-II wire that ends inside an item is refused, and one that ends
  between two items gives those before the end (`DecodeMulti` cannot know of more).

Each property of a passing run has a mutant of the model (a definition named
after what the plausible bug forgets, such as `CloseUnguarded` or
`DeletePendingForgotten`) under which the run finds it violated.

Deadlock is not checked for sessions and clients: after Close every goroutine ends,
a counter at its bound stops the calls, and the clients are done when all events are
settled or all bytes are read. It is checked in `gem` and `material`.

### Bounds

- `MaxSystemID` (2 in the safety runs) bounds how many requests one behaviour
  makes: two, so that a second call follows, or overlaps, a first. It stands for
  the 32-bit counter, which does not wrap within a session's life.
- `InboundCap` is 1 (256 in the code), so that the channel is full early.
- `WireCap` is 1 or 2: a Write blocks when the peer does not read.
- One caller with repeated calls beside `Select` or the linktest gives two
  waiters; the proofs cover any number.
- `PeerTypes` in `session_safety` holds one representative of each branch of
  `handleMessage`; Deselect is in `session_timers`, where it can undo a Select.
- The peer has at most one message under way, and sends it when the reader waits
  for it: an earlier arrival would not be seen earlier.
- `EndpointView` hides the content of what no later step reads; no hidden part
  occurs in a guard or in a property.
- `managed`: three tokens (one installed, one taken by Stop, one in the making),
  delays 1 to 5 with factor 2, so that the cap is not a power; unlimited and two
  retries.

- `gem`: two callers of `SendAlarm` and one alarm, of severity 64, with thresholds
  below, at and above it; the lower one has no bit in common with it, so that the
  mask and the comparison of `Evaluate` differ; one constant, event and report are enough,
  since entries do not interact but by name. Policies: the three predefined ones and
  one with a deny list.
- `material`: two carriers on two ports and two goroutines in `ReadyToUnload`, so
  that a carrier is unbound and bound elsewhere between its two sections; four
  movements of a wafer; four time units.
- `clients`: three events in batches of two, so that a timer meets the next batch,
  and three timers, so that one is always free; one retry; a bucket of 2 refilled at
  2/3 per tick, which leaves fractions; transaction IDs modulo 3 with at most three
  calls given up on a connection. That is the tight bound: with one more, an ID comes
  back while an old answer is still under way (65536 in the code). Nine coils need
  two bytes. Items of every format with the extreme values of their elements, and
  headers for lengths at 255, 256, 65535, 65536 and 2^24 - 1.

### Fairness

`LocalFairness` is weak fairness of what each goroutine does by itself: the Go
scheduler runs a goroutine that can run, and timers expire. Nothing is assumed of
the application (no fairness of `Connect`, `CallClose`, `SendMessage`, except that
`HsmsPair` assumes that both applications call Connect), and of the peer only
that its kernel takes the bytes that are written (`PeerReads`): without that, a
Write blocks with no timer running, as it does in the code. The periodic tick of
the linktest is not fair since `MaxSystemID` bounds the number of ticks.
`ManagedSession` assumes in addition that an attempt to connect that is repeated
for ever succeeds at some time (strong fairness of `Connected` and `SelectOk`);
`LostIsReplaced` means nothing without a peer.

`gem` assumes weak fairness of the steps of a goroutine inside `SendAlarm`, none of
which waits for another party, and nothing of host and application. `clients`
assumes that timers fire, that `flush` gets the mutex, and that a post ends, which
the timeout of its HTTP client guarantees; nothing of the endpoint's answer.

## 4. Proofs

For every value of the constants that satisfies the named assumptions
(`ConstantsAssumption`, `PairAssumption`, `ReconnectAssumption`, `PolicyAssumption`,
`AlarmAssumption`, `DataAssumption`, `CarrierAssumption`, `EPTAssumption`,
`SinkAssumption`, `RateAssumption`, `ModbusAssumption`):

| Module | Theorem | Statement |
|---|---|---|
| `HsmsSessionProofs` | `TypeCorrect` | `Spec => []TypeOK` |
| | `CloseOnce` | `Spec => []CloseRunsOnce` |
| | `PendingExact` | `Spec => []PendingMatchesCalls` |
| | `RepliesCorrelate` | `Spec => []RepliesCorrelated` |
| | `QueuedSelected` | `Spec => QueuedOnlyWhenSelected` |
| | `CloseReleases` | `Spec => []CloseReleasesAll` |
| `HsmsPairProofs` | `DataAccepted` | `Spec => []PassiveAcceptsData` |
| | `SelectionAgrees` | `Spec => []SelectedAgreement` |
| `ManagedSessionProofs` | `TypeCorrect` | `Spec => []TypeOK` |
| | `AtMostOneSession` | `Spec => []OneLiveSession` |
| | `CallbacksInTurn` | `Spec => []CallbacksAlternate` |
| | `BackoffStaysBounded` | `Spec => []BackoffBounded` |
| `GemControlProofs` | `OnlineCommunicates` | `ControlSpec => []OnlineOnlyCommunicating` |
| | `ImplementsE30` | `ControlSpec => StatesFollowE30` |
| | `InterlockWorks` | `ControlSpec => []InterlockTrips` |
| `GemDataProofs` | `ConstantsStayInRange` | `DataSpec => []ConstantsInRange` |
| | `DisabledCollectsNothing` | `DataSpec => []DisabledSendsNoData` |
| | `EquipmentTypes` | `MCSpec => []TypeOK` (of `MCGem`) |
| | `RestrictedIsHarmless` | `MCSpec => RestrictedWritesNothing` |
| `CarrierManagerProofs` | `PortsAgree` | `CarrierSpec => []PortsMatch` |
| | `StaysWhileAccessed` | `CarrierSpec => CarrierStaysWhileAccessed` |
| | `CarrierStepsAccepted` | `CarrierSpec => CarrierStepsValid` |
| | `OffersOnlyReady` | `CarrierSpec => []UnloadPortHasDoneCarrier` |
| `MaterialProofs` | `JobStepsAccepted` | `JobSpec => JobStepsValid` |
| | `HistoryExplains` | `SubstrateSpec => []HistoryExplainsState` |
| | `OEEStaysConsistent` | `EPTSpec => []OEEConsistent` |
| | `MaterialTypes` | `MCSpec => []TypeOK` (of `MCMaterial`) |
| `ClientsProofs` | `BatchNotForgotten` | `SinkSpec => []BatchWillFlush` |
| | `EveryEventAccounted` | `SinkSpec => []EventsAccounted` |
| | `RateIsBounded` | `LimiterSpec => []RateBounded` |
| | `AnswersBelong` | `ModbusSpec => []ResponseBelongs` |

The inductive invariant of `HsmsSession` has these parts:

- `TypeInv` is `TypeOK` and `MsgInHand`: a goroutine at a label where it uses a
  message has one, of a type it sends. `TypeOK` alone is not inductive, since
  `Respond` and `SendWrite` put `cur` and `req` on the wire.
- `CloseRunsOnce` is inductive beside `TypeInv`: only `CloseCAS` enters the body of
  Close, and only while `closed` is false (`OtherOutsideClose` shows it of all
  other actions at once).
- `Boot` is the order of setting up: the loops start once, after `user` or
  `acceptor` is past its stores. It is needed since `StartLoops` resets the labels
  of goroutines that might own a pending entry.
- `TxnInv` is `PendingMatchesCalls`, `RepliesCorrelated` and `Drawn` (system IDs in
  use are at most `nextSystemID`, and an idle waiter's channel is empty). `Drawn`
  is why a new system ID is in nobody's use.
- `Checked`: while the reader is between the check of the state and the send on
  `inbound`, the session is Selected or closing. With `Boot` no store of
  `Connected` can come in between, and with `CloseRunsOnce` every store of
  `Disconnected` happens under `closed`.

- `Released`: what the steps of Close before the place of its goroutine have done still
  holds. That needs `SetUp` (the connection and the context are stored before the loops
  run, and Close has not begun before), `Boot` (then nothing else touches them) and
  `CloseRunsOnce`. With Close called earlier a connection that is accepted meanwhile
  stays open (the counterexample of the run `early_close`); `CloseReleasesAll`
  therefore speaks of `CloseFrom # "new"` only.

The pair (`HsmsPairProofs`) is two instances of `HsmsSessionProofs`. The lemmas about an
endpoint speak of `Local`, the steps of its own goroutines, and say for each piece of
its state which steps can change it and what it then is; nothing is assumed of the peer.
A step of the pair is a `Local` step of one side, which for the other side only appends
to what it reads, takes from what it wrote, or ends its stream (`OtherEndType`).
`PairInv` has four parts:

- `HostInv` and `EquipInv`: the types, `Boot` and `CloseRunsOnce` of each side;
  `InHandler` (where the reader is, it holds a message of that handler's type);
  `SendsNo` and `Clear` (no goroutine has a Deselect.req at the host, or a Select.req or
  a Select.rsp outside `handleSelectReq` at the equipment).
- `WireInv`: no Deselect.req is under way to the equipment and no Select.req to the host.
  Without it the equipment could go back to Connected, or the host be selected from
  the other side.
- `SelectInv`: as long as anything of a successful Select is at the host (the answer on
  the wire, in the reader, in the channel of the call, the state), `EP!HasSelected`: the
  equipment is Selected, at the store of it in `handleSelectReq`, or closed. A data
  message on the wire is behind that (`DataAfterSelect`): the same reader stores
  Selected and then reads the next message. `SelectedAgreement` speaks of the
  host's state alone, which says nothing of an answer still under way.

The other modules:

- `LiveKnown` (`ManagedSessionProofs`): at each place of the worker, a session that is
  up is the one it works on or the one `session` names, and there is none where it is
  about to connect; `OneLiveSession` alone does not exclude a forgotten one. `ToldLast`
  fixes `called` at every place of the worker. `BackoffInv` is `BackoffBounded` and that
  an idle worker has made no attempt; the lemma `CappedDelay` is about the doubling
  alone.
- `StateInv` (`GemControlProofs`): off-line is the only control state without
  communication. All callers change the state through the methods of the machine
  (`OnlyMethods`), so the invariant and the refinement are shown once per method.
- `InterlockInv`: `OnTheWay` says that as long as a call of `SendAlarm` is not known to
  be safe, the equipment is on-line and the interlock still asks for off-line because
  of its alarm; so the threshold and the action that `Evaluate` copied ask for it too,
  and the call is on its way to `GoOffline`. `InterlockTrips` speaks of the last place
  of `SendAlarm` only.
- `HandlerInv` (`GemDataProofs`): the work left in the message loop consists of
  sections of the handler that its message has, and if the policy that admitted the
  message restricts, of harmless ones. `RestrictedWritesNothing` follows from it for
  each step and does not mention the work. `AlarmTable` and `DataTypes` (the types),
  `StateInv` and `InterlockInv` complete `EquipmentInv`, the invariant of `MCGem`.
- `CarrierInv` is `PortsMatch` with the types: inductive as it stands, because the
  second section of `ReadyToUnload` looks the carrier up again. `ReadyInv` adds that,
  with one driver, the carrier of a `ReadyToUnload` under way is ready.
- `JobInv` (`MaterialProofs`): a job that has ended has its second time stamp, and an
  absent one is `NoJob`; the rows of the two method tables are compared with the tables
  of the validator once (`PJRow`, `CJRow`).
- `SubstrateInv`: also AtProcess and Processed, from which AtDest is entered, are
  explained by the history; `MoveExplained` extends a path by one move.
- `EPTInv`: what is stored in the map is the time up to the start of the current state
  (`TotalAdds`: time added to one entry is added to the sum), and there are no more
  defects than units. `EPTTypeOK` rests on it: an entry is bounded by the clock only
  because the sum is.
- `MaterialInv` is the four of them; a step of one manager leaves the others alone.
- `FlushInv` is `BatchWillFlush` with the types of the timers. `PlacedInv` says of each
  event which one place it is in, by what `Emit` has done with it, and keeps the calls
  of send apart; the counts of `EventsAccounted` follow with the theorems on
  cardinality.
- `RateInv` bounds what the window allowed together with the tokens a call would
  find now; `RateBounded` alone says nothing of the tokens.
- `ModbusInv`: a frame in place p of the connection, counted from the client, carries the
  ID of a transactions ago, and a + p is at most the number of calls given up (and one
  for the call under way). Each new transaction adds one to the age of every frame and,
  if it is given up, one to the bound; if it is not, it takes a frame away and every place
  is one less. So no frame is as old as the modulus, the only frame with the ID of the
  call under way is its own, and its contents are those of the call. They are
  followed through `encodeBools`, the device and `decodeBools`: `ByteBits` is about one
  byte, `EncodedBit` and `PackedBit` find coil i of a list in its byte, and
  `StoredEncoded` and `DecodePacked` conclude for the whole list. The assumption
  `MaxAbandoned <= TxnModulus` is a condition on the caller: the client does not count.

The invariants were checked with TLC before they were proved.

Only model-checked:

- the liveness properties (`CallsReturn`, `CloseStopsLoops`, `T7DropsUnselected`,
  `CloseReachesPeer`, `LostIsReplaced`, `StopEndsWorker`, `SafetyAlarmGoesOffline`,
  `EventsSettle`): liveness under fairness is out of the prover's reach;
- `DecodeInvertsEncode`: its operators are recursive, and what they compute for every
  input needs induction over the data.

## 5. Observations and what is not modelled

Behaviour the models show and no property forbids, since the repository promises
nothing else:

- `handler.go:400`: S2F15 ignores the error of `SetEC`; a host is told EAC 0 for a
  value that was refused. S2F35 answers LRACK 0 for links that were refused, and
  S1F13 answers COMMACK 0 in WAIT-DELAY, where nothing changes (`handler.go:320`).
- `event.go:50`: `DeleteReport` leaves the links to the report; they take effect
  again when the report is defined anew.
- `handler.go:719`: an event disabled inside `SendEvent` is still sent, without
  reports.
- `validator/state.go`: the control table has no step from OFFLINE/EQUIPMENT to an
  on-line state, which `GoOnlineLocal` and `GoOnlineRemote` take; the carrier table
  lets a carrier that waits for the host be unloaded, which the manager refuses.
- `carrier.go:228`: `BindCarrier` does not look whether the carrier is bound to
  another port.
- The control job manager completes a job without a look at its process jobs.
- REST and gRPC write constants and run commands whatever the policy.
- `modbus/client.go`: `Connect` replaces the connection without closing it.

Not modelled:

- HSMS: the byte layout of messages, TLS, logging, the auditor; partial frames (T8,
  T5 and `MaxConnections` are configured and read by no code of the session, so half
  a frame holds the reader until a linktest fails); two goroutines calling `Connect`
  on one session; the wrap of the system ID counter.
- GEM: the callbacks, which run under the lock (one that drives the same manager
  would not return); the values in reports; S5F1 and S6F11 beyond their being sent.
- Modbus: a deadline in the middle of a frame; six functions that differ from the two
  modelled in their data only (the byte count of `WriteMultipleRegisters` is a byte
  and wraps at 128 registers).
- Security: `recorder.go` and `anomaly.go` (files and statistics), tokens,
  certificates and encryption (thin layers over cryptographic libraries).
- Validator: `schema.go`, `timing.go` and `report.go` are tables of message formats,
  thresholds and formatting.
- OPC-UA and MQTT (adapters to external libraries), the simulator (a scripted
  equipment made of the modelled parts), the REST, gRPC, metrics and studio servers
  except their writing calls, `cmd`: input, output and wiring.

## 6. Plan

1. An abstract specification of an HSMS connection (not connected, not selected,
   selected, with the transitions E37 allows) that `HsmsSession` implements, and of a
   managed session that `ManagedSession` with sessions inside implements; the second
   would show the effect of `connectCancel` on the TTL.
2. The simulator's equipment loop over `GemHandler`, with `HsmsSession` below it.
