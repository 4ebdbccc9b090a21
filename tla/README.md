# Formal models of wasi-webrtc-datachannels

TLA+ specifications of the concurrent parts of this repository, the TLC
configurations that model-check them, and proofs that the TLA+ proof system
checks. Paths below are relative to the repository root (`src/` of a checkout
that keeps this directory beside it).

## 1. The system

The repository defines a WIT package for WebRTC data channels, implements it
three times, and tests the implementations against each other with a
conformance suite that signals through a server of its own.

| Component | State it keeps | Operations | Interacts with |
|---|---|---|---|
| wasip3 provider (`wasip3-impl/src/runtime.rs`, `provider.rs`, `peer.rs`) | `Shared`: the tracked channels (inbox, byte count, overflowed, claimed, closed), connected / failed / closed, the close handshake; `StateWatch`; the pump's locals | the exported methods of `data-channel` and `peer-connection`; the detached pump | guest tasks call the methods; the pump owns the `rtc` core and the UDP socket; both share `Shared` and wake each other through `StateWatch` and the wake channel |
| wasmtime host (`wasmtime-impl/src/{data_channel,host,peer_connection}.rs`) | per channel an inbound queue and budget, wiring future, claim and close one-shots; per connection the build future, `ConnState`, `PendingOps`, close trigger | the same methods, on several threads | one tokio task per channel polls `webrtc-rs`; handler callbacks feed the streams |
| jco host (`jco-impl/webrtc.js`, twin in `conformance/adapters/jco`) | the queue of messages and of waiters of a channel, overflow and closed flags | the same methods as promises | W3C events |
| signaling server (`conformance/signaling/server/src/{state,lib}.rs`) | rooms, two append-only mailboxes each, their done flags and `Notify`s | publish, long-poll fetch, done, delete, eviction | HTTP clients of both peers |
| mailbox sessions (wasmtime adapter `lib.rs`, `adapters/wasip3/mailbox`, `adapters/jco/signaling.js`) | the sequence number to read next | open, send, recv, done | the signaling server; the conformance guest |
| conformance guest (`conformance/guest/src/lib.rs`) | position in the handshake and the exchange | `run-test` | a session and a peer connection |
| adapter framework and labs (`conformance/adapters/common/src/{lib,lab}.rs`, `bin/{netns,shadow}.rs`) | the attempts of a corpus, child processes; on the machine: namespaces, links, TURN server, firewall policy, Shadow's data directory, the result documents | provision, run the corpus, write the report, tear down | guests as child processes; `ip`, `nft`, `turnserver`, `shadow` |
| runner (`conformance/runner`) | the reports, the matrix, the signaling child | start the server, load, classify, say ok or not | the result documents, the signaling server |

What is hard in each:

- **wasip3 provider.** Single-threaded but interleaved at every await. A waiter
  checks, releases the borrow and parks, so every state change must notify. A
  close is spread over three turns (`begin_close`, the pump's core close after a
  flush, the drain) while the core may fail, close or open channels. The inbound
  buffer is bounded by bytes counted at two places. Correct means: no wakeup is
  lost, over means closed, the backlog is in order and exactly counted, accepted
  sends leave before the core is closed, an ending is reported after the backlog
  and never changes, every call returns.
- **wasmtime host.** Truly concurrent: the pump, the wiring, the build and the
  handler run on worker threads, the calls on the store's event loop. The claim,
  the close and the queue race in a biased select; the build, the wiring and the
  close race each other. Correct means: the shared budget is exact, the inbound
  contract holds, an offer covers the channels created before it, no wait sleeps
  through a change of the connection's state, a stream ends after all its items,
  every call returns, a dropped connection is torn down. Some of its promises do
  not hold (section 4).
- **jco host.** Promises whose continuation runs a turn later, and whose event
  may never come; a queue of messages that is at times a queue of waiters.
  Correct means: the inbound contract again, a bounded send buffer, no call left
  waiting.
- **signaling server.** A long poll releases the store's lock between its peek,
  its arming of a `Notified` and its second peek, while blobs are published and
  rooms are removed and created again. Correct means: no wakeup is missed, reads
  agree with each other for as long as the room lives, every GET is answered.
- **sessions.** 304s are retried without bound, round trips fail after the
  server acted. Correct means: the peer's stream, in order, once, to its end.
- **guest.** Two peers whose handshakes and closing barrier depend on each
  other, over a mailbox, a network that may swallow what is under way at a close,
  and hosts that notice a close late. Correct means: a conforming host passes,
  whatever the order; both guests end; neither closes while the other needs it.
- **adapters, labs, runner.** An executor is killed, or a command fails, at any
  point of provisioning, use or teardown, where most failures of a teardown are
  ignored; peers hang; documents are torn or stale. Correct means: the next run
  has a lab that is only its own, no process outlives the attempt it belongs to, a pass was earned in the run that reports it, and
  the verdict hides nothing.

`PROJECT.json` lists every component with its status, every hazard with the line
where it bites and the properties that would catch it, and for every definition
the source lines it stands for.

## 2. Modules

| Module | Models |
|---|---|
| `Wasip3Runtime` | one peer connection of the wasip3 provider: shared state, calls, pump |
| `InboundContract` | abstract: what `wit/webrtc.wit` promises about inbound messages of a channel |
| `Mailbox` | the signaling server's store and its handlers |
| `MailboxContract` | abstract: what `mailbox.wit` promises of a mailbox |
| `MailboxSession` | `Mailbox` with the sessions that read from it |
| `WasmtimeChannel` | one data channel of the wasmtime host: pump, budget, wiring, calls |
| `WasmtimePeerConnection` | a peer connection of the wasmtime host: build, pending channels, state, streams |
| `JcoHost` | the JavaScript host's data channel and `wait-connected` |
| `ConformanceGuest` | the guests of a test over `MailboxContract` and a conforming host |
| `ConformanceRun` | executors, labs, result documents and the runner, across several runs |
| `Wasip3Runtime_proofs`, `Mailbox_proofs` (also about `MailboxSession`), `WasmtimeChannel_proofs`, `WasmtimePeerConnection_proofs`, `JcoHost_proofs`, `ConformanceGuest_proofs`, `ConformanceRun_proofs` | the theorems about the module each is named after |
| `SumLemmas` | lemmas: induction over the naturals in set form, sums over finite sets |
| `MC…` | constants and symmetry for TLC; the `.cfg` files are its runs |

`Wasip3Runtime`, `WasmtimeChannel` and `JcoHost` implement `InboundContract`, so
the three implementations are held to one specification; `MailboxSession`
implements `MailboxContract`. Each instantiates the abstract module with a
refinement mapping and has its specification as a property. `ConformanceGuest`
in turn is built on `MailboxContract`: what the sessions were shown to
implement, the guests are shown to need. A peer of `ConformanceRun` is reduced to how it
ends; `ConformanceGuest` is its inside.

### Wasip3Runtime

*Atomicity.* All tasks share one cooperative executor, so an action is the code
between two awaits. A call is started by `Call…`, which records it in `call[t]`,
and its loop body is one `…Poll` action that returns, parks or goes on. The
pump's drain of the core's events runs under one borrow of `Shared`; it is
modelled as a sequence of actions, one per event (`Apply…`), during which
`Borrowed` keeps every task out. `EndDrain` ends it: the decision about the last
turn, the notification, the release. The flush before the drain and the one
after it send one datagram per await (`FlushOne`), with everything else
interleaved.

*Waiting.* `parked` is the set of tasks whose waker the `StateWatch` holds, and
`notify` empties it. The version number is not a variable: a task captures it
and tests its condition under one borrow, which is one action, so a version that
advanced since is the same as having been unparked.

*The core and the network* are an environment: any event its interface allows, in
any order, including a channel that opens late or a close never answered; sends
may be refused. `outbox` counts the datagrams it has queued.

*Data.* Messages are numbered as the core yields them. Their sizes come from a
workload `w`, where `w[n]` is the size of the first `n` messages together, so
that byte counts are differences. `taken`, `ended` and `lost` are history
variables that nothing reads. Texts, labels and addresses are left out.

*Lifecycle of a channel.* A channel is tracked once the pump drained its open;
before that a handle from `create-data-channel` sees it as opening, or as closed
if the connection is over (`ChannelState`). `Init` contains both a live
connection and the dead one that a failed bind leaves behind.

*Not in it.* `send-via-stream`, `incoming-data-channels` and
`local-ice-candidates` (section 6); dropping a resource, which is `close`; the
message of a channel that is not tracked (`runtime.rs:470`), which the code drops
without a change and the core, which reports the opening first, does not yield.

### Mailbox

Each method of the store holds the write lock for its whole body and is one
action. A long poll is a record `get[q]` that goes through peek, arm, recheck and
await with a step each; `Peek` and `Recheck` both are `fetch_now`. A `Notify`
belongs to a mailbox of a room that may be removed: `gen[r]` counts the
removals, a request remembers the generation whose `Notify` it holds, and
`notify_waiters` wakes the requests that hold a `Notified` of that generation,
polled or not. Time is two booleans: a request becomes `late` (its deadline
passed) and a room `stale` (its TTL passed), at any moment. `Disconnect` drops a
handler with its connection. `history` collects the answers given.

A publish beyond the room cap is refused without effect, so `Publish` is not
enabled there; one beyond the blob cap or after done is refused after the room
was touched, and the action says so.

### MailboxSession

The session of role `s` is the client of request `s`; it publishes to its own
mailbox and reads the peer's. `OnBlob`, `OnDone` and `OnPending` are the three
outcomes of the loop common to the three clients, `Fail` a round trip that fails
wherever its request is, after which `recv` may be called again. Blobs are the
numbers 1, 2, ... in the order a role publishes them.

### WasmtimeChannel

*Threads.* The pump, the wiring task and whoever closes the connection run on
worker threads, so a step is one access to shared state: `reserve` is `OnMessage`
(its loads), then `Add` or `Latch`; a close is `SetClosed`, then `FireClosed`.
The calls are polled by the store's event loop, one at a time: a poll of
`receive` is `Look` (the queue) and `Signals` (the claim and the close, in the
biased order), during which `Polling` keeps every other call out and no worker.
Polls happen at any time, so wakers are not modelled. The queue's async lock is
`holder`.

*The wrapper* opens a channel at most once, then yields messages, and may report
a close; it reports none after a local close, as `data_channel.rs:181-183` says,
and no fairness promises that it reports any.
`send-via-stream` takes items one by one; the check of the close flag, the
collection of an item's bytes and the check of its length (`Collect`) are apart,
so that the connection may close between them.

*Refinement.* The contract's messages are those pushed to the queue; its ending
is what a receive reports. A receive that was pending when the stream claimed the
channel may take one message: the mapping numbers messages, not readers, so that
this is not a step against the contract (section 4).

### WasmtimePeerConnection

The spawned build (`Build`, `Store`, `SendBuilt`), channel creations counted by
`PendingOps` (`Register`, `End`, `EndNotify`), `create-offer` with its armed wait
for the count (`Arm`, `Check`), `wait-connected` with its loads one at a time
(`ArmWait`, `LoadConnected`, `LoadFailed`), and close and drop racing all of them.
The handler's callbacks run one after the other; storing a state and notifying are
two steps (`Over`, `HandlerNotifies`). A channel the peer opens gets a task of its
own (`RemoteOpens`), which pushes it to the stream once it knows the label
(`Push`); the guest takes the stream and reads it, and the candidates, to their
ends (`ReadChannel`, `ReadCandidate`), which come when no sender is left: the
handler's, which goes with the core's hold on it (`Detach`), and the tasks'
(`SendersGone`). The core starts with an offer or answer it gave (`Negotiating`).
Whether the wrapper lets go of the handler after a local close is not decided in
`src/`: it may, and no fairness says that it does. A second `close` takes a core
stored after the first. What happens on a channel once it is handed over for wiring is
`WasmtimeChannel`; the signaling calls other than `create-offer` only forward.

### JcoHost

A listener or the continuation of an await is one step. `jobs` is the queue of
continuations of settled promises: a pushed message given to a waiter is handed
out only when its continuation ran, and a close may be handled in between turns,
never within one. `send` waits for the opening, then for the buffer to drain, then
hands over; `wait` is a wait-connected call. In the mapping to `InboundContract` a
queue that overflowed has ended so, even when the channel closed as well: `next`
looks at `overflowed` first. A size is what the listener counts, which for a text
are its UTF-16 units. The channel's `error` event is merged with `close`, which comes next
and finds the same listeners, and `iceConnectionState` with `connectionState`.
The candidate and incoming streams and the signaling calls are left out.

### ConformanceGuest

A test is a program: stages run in order, a stage is the threads of a `join!`, a
thread is a sequence of calls and stops at the first that does not answer as
expected. `Run(g)` is the program of guest `g`, written with the source's own
pieces (`HandshakeOfferer`, `PublishCandidates`, `Exchange`, `Barrier`,
`SendSequence`, `RecvSequence`, ...), and one action per kind of call executes it.
The mailbox is `MailboxContract` without removals. The connection is an
environment that keeps the interface's promises: channels are ordered, an
overflow closes, a close arrives after what was delivered before it and may
swallow what is under way, and a host accepts up to `Lag` sends after a close. At
most one thing outside the guests goes wrong (`MessageLost` in the
max-retransmits test, `CallFails`, `ConnectionBreaks`), which sets `fault`.

### ConformanceRun

*The machine* outlives executors: `lab` is what namespaces, links, policy and
TURN servers there are, `files` the result documents, `data` Shadow's directory.
`NetnsUp`, `CoturnUp`, `NftablesApply` and their opposites are the sequences of
commands the source runs, each command an action of its own; `Checked` tells
`run` from `run_ignore`, `Can` whether the machine lets a command succeed (a name
that exists cannot be added), and any checked command may fail for no reason
(`CommandFails`). One whose failure is ignored may fail with something to remove
(`Finds`, `IgnoredFails`); `ignored` remembers those of the provisioning or
teardown under way. The last command of a teardown failing is not told from the
executor being killed before it. A link is a pair made in the root namespace whose two ends are then moved.

*The executor* goes up, corpus, report, write, down. `run_corpus` starts a test
when fewer than `Jobs` places of its ordered window are taken, which is when fewer
than `Jobs` tests are started and their results not yet handed on in order; an attempt has a
signaling server and peers as child processes, ends when both peers have, and is
dropped by the hang guard. The write of a document is two steps, since
`fs::write` truncates first. `Kill` ends the executor wherever it is; the
processes it leaves in namespaces nothing refers to again are not followed.

`RunAssumption` says which corpora and executors are meant: any, but loopback
executors share one environment that no lab has, and no lab's is called `target`,
as the names of the documents need.

*The runner* starts its server, waits for its health, loads all the documents,
classifies them by target and environment and says ok or not. `seen` remembers,
for the properties, what the last executor of each environment reported.

## 3. Runs

Every passing run terminates with the whole state space explored.

| Run | Question | Bounds |
|---|---|---|
| `wasip3_runtime` | types, over means closed, backlog in order, bytes exact, no lost wakeup, no accepted send discarded, endings final, contract | 1 channel, 2 tasks, 3 messages, limit 2, two workloads, 1 queued datagram |
| `wasip3_live` | the pump stops after a close, every call and wait-connected returns | 1 channel, 1 task, 1 message |
| `wasip3_claim` | (violated) a channel is claimed once | 1 channel, 2 tasks |
| `mailbox` | answers agree with each other, a wake is missed only by a replaced room, every GET is answered | 1 room, 1 role, 1 long poll, blob cap 1, 2 removals |
| `session` | the sessions implement the contract, a done mailbox is read to its end | both roles publish, one reads; 3 blobs in all, 2 at most in a mailbox, 1 removal |
| `wasmtime_channel` | budget exact, receives return, contract | 1 receiver, the stream, 1 sender, 3 messages of sizes 1 and 2, limit 1 |
| `wasmtime_send` | (violated) a send returns when the connection closes | 1 receiver, 1 sender |
| `wasmtime_pc` | an offer covers its channels, no wait misses a transition, a stream's end is its last event, offers return, a drop tears down | 2 local channels, 2 remote, 2 waits, 2 candidates, any two of these in one behaviour; 1 offer |
| `wasmtime_leak` | (violated) dropping a connection leaves no core running | no channels, 1 offer, 1 wait or candidate |
| `jco_host` | types and byte count, send buffer bounded, no wait times out connected, contract, calls return | 2 receivers, the stream, a send and a send-via-stream of 2 items, 2 messages of sizes 1 and 2, limit 1 |
| `conformance_guest` | a conforming host passes every test, the rendezvous holds, tests end | every test of the corpus, 2 messages, limit 3, 1 late send |
| `conformance_run` | what wedges a lab, the lab is its scenario's and torn down, no process outlives its attempt, passes are earned, the verdict is sound, runs end | 3 tests (one in-process), 4 executors (loopback, netns lan and turn-relay, shadow), 2 runs of them, 2 faults or kills, window 2 |

Why the bounds are enough to be interesting.

- *wasip3.* Three messages with sizes 1, 2, 1 and limit 2 make the second overflow
  exactly when the first is still buffered, and the third one that would have
  fitted again; with unit sizes three messages fill the buffer, overflow it and
  follow the overflow. Two tasks are a receiver parked while another claims,
  closes or takes. `MaxOut = 1` suffices for a transmit that is pending when the
  core closes.
- *mailbox, session.* Two removals of the only room are one between a peek and its
  arming and one more while the request is deaf. `BlobBound` exceeds the blob cap
  by one, so that the cap and not the bound stops publishing. In `session` a
  room is removed under a reader whose cursor has moved.
- *wasmtime_channel.* One message fits, a second one meets a budget that a reader is
  releasing, the third follows an overflow; sizes 1 and 2 tell a message that
  never fits from one that fits an empty buffer. The receiver and the stream are the
  two parties of the lock and of the claim.
- *wasmtime_pc.* `MaxBegun` bounds what is begun in one behaviour, so that the run
  covers every pair of things rather than all of them at once; the build, the offer,
  the close, the drop and the core's own steps are not counted. Two creations let
  the count pass through 1 while an offer is armed. Two remote channels are one pushed and read while the
  other is still labelled, in either order; two waits are one parked and one
  between its loads at the same notification.
- *jco_host.* Two receivers are a waiter behind a waiter, and a waiter that the
  stream's claim finds; `MaxOut = 0` makes every second send wait for the buffer,
  and with limit 1 a second message overflows a queue nobody reads, while one of
  size 2 never fits and is taken only by a waiter.
- *conformance_guest.* `Count` must be below `Limit` as in the source, and a buffer
  holds at least three messages, so that every exchange but the flood's fits it with
  the sentinel (`GuestAssumption`); the flood then overflows after four messages. `Tries = Lag = 1` is the
  last try of post-close-send finding the close.
- *conformance_run.* Two executors are a failing one and the next that finds what
  it left, where the second of the two faults may be the failure to remove it; the
  four kinds cover every combination of lab, TURN server and policy, and every way a
  document is made.
  Three tests and a window of 2 let a finished test hold back a third. Tests that
  pass or fail, skip, pass or err, one unsupported in an environment, one expected to
  fail in another and one in all, reach every branch of the classification.

Deadlock is checked where the system never stops. It is not in the runs of
`WasmtimePeerConnection` and `JcoHost` and in `conformance_guest`: there every call
has returned and the connection is gone, or the test is over.

*Symmetry* is used in `wasip3_runtime` only, which checks no liveness.

*Fairness.* Where all that is assumed to happen consists of steps that cannot go
on for ever, one weak condition on their union serves them, and it is a weaker
assumption than one condition for each.

- `Wasip3Runtime`: weak for the pump's steps, because the executor runs a woken
  task and the tick fires (`MAX_WAIT_NANOS`), and for the lapse of `CLOSE_DRAIN`,
  a clock; strong for the polls and the connect timer, because `Borrowed`
  disables them again and again although the code's drain is one piece. Nothing
  is assumed of the guest, the core or the network: a close needs no answer.
- `Mailbox`: weak for each request's handler and its deadline; no client,
  deletion or eviction is promised. `MailboxSession`: in addition weak for a
  client's reaction to an answer and for the next `recv` of a session whose last
  one returned a blob, which is the guest's `consume_signaling` loop; a failed
  session need not be retried, and `DoneArrives` accepts a failure.
- `WasmtimeChannel`: weak for the pump and the wiring (tokio runs a spawned task),
  for a close that was begun and for the rest of a poll; strong for the polls of
  a pending call, because `Polling` disables them again and again, as the event
  loop polls one call at a time but all of them. Not for the guest, and nothing of
  the wrapper: neither that it opens the channel, nor that it yields a message or
  reports a close. A receive on an overflowed channel whose close it never reports
  waits on, as in the code (`data_channel.rs:293-297`), and `ReceivesReturn` does
  not promise otherwise.
- `WasmtimePeerConnection`: weak for the union of the spawned tasks, the handler's
  notification, pending calls and the timer. The core connects or fails if it
  likes, and lets go of the handler if it likes.
- `JcoHost`: weak for the union of continuations, the close event of a closing
  channel, the timer, the draining of an open channel and the steps of sends. That a
  local `pc.close()` is followed by the channel's close event is assumed of the
  platform; `CallsReturn` rests on it.
- `ConformanceGuest`: weak for `Progress`, the guests' steps and what a conforming
  host does (connect what has been negotiated, open, deliver); never for a fault.
- `ConformanceRun`: weak for `System`: commands, windows, reports, the runner's
  health wait and verdict, and the hang guard's timer. Peers need not end, no
  executor or runner need start, nobody need be killed, no command need fail. The
  read of the server's first line is not in it, since it has no timeout
  (`runner/src/signaling.rs`): a child that prints nothing holds the runner, and
  `RunsEnd` speaks of the runner from that line on. The lab's commands have no
  timeout either; that they return is an assumption on `ip`, `nft`, `turnserver`
  and `shadow`.

## 4. Disagreements between the code and what is said of it

The first three are each the counterexample of a run.

- `wasip3_claim`: on a channel that is still opening, `receive-via-stream`
  succeeds any number of times and later `receive`s compete with the streams,
  since the claim is recorded only on a tracked channel
  (`wasip3-impl/src/provider.rs:286-297`); `wit/webrtc.wit:238` allows one call.
- `wasmtime_send`: a `send` on a channel whose wiring is not resolved stays pending
  although the connection was closed (`wasmtime-impl/src/host.rs:378`);
  `wit/webrtc.wit:318-321` says that calls in flight return.
- `wasmtime_leak`: dropping the resource before the spawned build stores the core
  finds nothing to close, and the core that is stored afterwards is closed by
  nobody (`wasmtime-impl/src/peer_connection.rs:210`), although
  `data_channel.rs:451-453` says that dropping a connection never leaks the core's
  tasks. `TearsDown` in `wasmtime_pc` is what does hold: a core that is stored
  when the resource is dropped, or stored after a close but before the drop, is closed.

Others were met while modelling. Each is stated as an exception in a property
that holds, or left out of the model:

- A room removed between a GET's peek and its arming leaves the GET on the removed
  room's `Notify`, which the re-check of `state.rs:239-249` is there to prevent;
  `MissesOnlyWhenReplaced` says this is the only way to miss a wake, and
  `GetsAnswered` that the deadline ends it. A GET blocked across a `DELETE`
  re-creates the room and ends with 304 where `PROTOCOL.md:120` promises the done
  response. Fetches and done marks create rooms beyond `max_rooms`
  (`state.rs:124`).
- wasmtime: a receive pending when the stream is claimed can still take a message
  (`host.rs:407-409`, against `wit/webrtc.wit:240-242`). `wait_connected` loads
  `connected`, finds it unset, and then loads `failed` (`peer_connection.rs:383-386`):
  when the connection connects and then fails or closes between the two loads, the
  call answers `closed`, although `wit/webrtc.wit:303-307` says that a wait resolves
  `ok` once the connection has ever connected. The model has this behaviour
  (`LoadConnected`, `Connects`, `Over`, `LoadFailed`); what holds of waits is
  `NoMissedTransition`. Each channel the peer opens is labelled in a task of its own,
  so channels can surface in another order than they opened
  (`peer_connection.rs:446`, against `wit/webrtc.wit:269-270`; `Push` in either
  order); what holds of the stream is `StreamsEndLast`.
- jco: a send that waits for the buffer of a channel that closes never returns
  (`webrtc.js:258`; `CallsReturn` excepts it and nothing else); `wait-connected` is
  not latched and does not look for `closed` (`webrtc.js:389`, against
  `wit/webrtc.wit:301-309`), so `NoWaitWhenConnected` speaks of the current state
  only; the incoming stream is never ended; the queue counts a text by
  `data.length` (`webrtc.js:599`), so texts outside ASCII fill the buffer beyond its
  limit in bytes, against `webrtc.js:575` and `wit/webrtc.wit:186-187`.
- Labs: a veth pair that was made and not yet moved survives a kill and makes the
  next provisioning fail, although `lab.rs:290-291` says that a half-provisioned
  lab never wedges a run; `OnlyAnUnmovedLinkWedges` says it is the only case but for a
  namespace that `netns_down` itself has just failed to delete. A TURN server that
  could not be stopped stays beside the new one. A
  provisioning that fails leaves what it made, since the teardown guard is made
  after it (`netns.rs:197`).
- Runner: the server's child is not yet owned when its first line turns out to be
  another (`runner/src/signaling.rs:42`), and is left running. A test without a
  result is neutral for the verdict.

## 5. Proofs

Every theorem holds for all values of the constants that satisfy the module's
named assumptions, and is checked by tlapm down to the last leaf. `IInv` (in
`Mailbox_proofs`, `StoreInv` and `SessionInv`) is the inductive invariant; its parts say why the property holds
and were first checked by TLC on the run's instance.

| Module | Proved of its `Spec` | Assumed |
|---|---|---|
| `Wasip3Runtime_proofs` | `TypeOK`, `OverMeansClosed`, `BacklogInOrder`, `BytesExact`, `NoLostWakeup`, `NoSendDiscarded`, `ImplementsContract`, `EndingIsFinal` | there is a channel; limit and bounds are naturals; a workload is non-decreasing from 0 |
| `Mailbox_proofs` | `TypeOK`, `AnswersAgree`, `MissesOnlyWhenReplaced` | there are a room and a role; limits and bounds are naturals; no blob is `NoBlob` |
| `Mailbox_proofs`, of `MailboxSession` | `ImplementsContract` | the same; there are two roles; blobs are the numbers a role publishes in turn |
| `WasmtimeChannel_proofs` | `BudgetExact`, `ImplementsContract` | sizes and bounds are naturals; the stream is no call and `None` is neither |
| `WasmtimePeerConnection_proofs` | `OfferCovers`, `NoMissedTransition`, `StreamsEndLast` | finitely many local channels |
| `JcoHost_proofs` | `TypeOK`, `SendBufferBounded`, `NoWaitWhenConnected`, `ImplementsContract` | sizes and bounds are naturals; finitely many senders; the stream is no receiver |
| `ConformanceGuest_proofs` | `FailsOnlyOnFault`, `Rendezvous` | the tests are those of the suite; a buffer holds the messages of every exchange but the flood's, with the sentinel; a close is seen after no more sends than `post-close-send` tries |
| `ConformanceRun_proofs` | `TypeOK`, `NoProcessOutlives`, `OnlyAnUnmovedLinkWedges`, `LabMatchesScenario`, `PassIsEarned`, `VerdictSound` | the corpus is a sequence of names with typed outcomes; all loopback executors have one environment, which is no lab's; no lab's environment is called `target` |

### The arguments

*Wasip3Runtime.* `inbox_bytes` stays a natural only because it is the exact size
of the backlog; that size is `w[taken + length] - w[taken]` only because the
backlog's messages are consecutive; and they are only because a channel that
dropped a message is closed and drops every later one. So the four state
invariants are proved together: `IInv` is their conjunction (`IInvMeaning`),
rearranged into `ScalarsOK`, everything that is not about a channel's record,
and `ChannelOK(m, k, a, w, over)`, everything about one channel. The lemmas
`UntrackedOK` to `ClaimOK` show that each way the code changes a record preserves
that relation, `OneChannelChanged` and its like lift them to a step, and one
lemma per action (`QuietStepOK` for all that touch no channel) puts them together.
`NoLostWakeup` and `NoSendDiscarded` are then inductive relative to `IInv`: every
step that makes a parked condition true ends in `notify`. The refinement maps a channel to its own `AcceptedOf` and `StatusOf`;
a step that changes one channel's record is a step of the contract, and a step
that leaves both alone is a stutter, which is most of them.

*Mailbox.* `AnswersAgree` speaks of answers given, and a new one is read from the
store. `Faithful` ties the two: an answer from the present life of a room is still
what the store would answer, since blobs are only appended and a done mailbox
stays as it is. `MissesOnlyWhenReplaced` needs that no request holds the `Notify`
of a later life (`WaitOK`).

*MailboxSession.* Its steps are not all steps of `Mailbox`'s specification (a
session puts its next request where an answered one was), so it has its own
invariant: a mailbox holds increasing numbers (`BoxOK`); what a session returned is
below everything its mailbox holds from `recv_seq` on, and below the blob on its
way to it; and in the room's first life it is the first `recv_seq` blobs, and an
answer on its way is still what the store would say (`ReaderOK`). A removal
leaves a cursor ahead of an empty mailbox, so the next life's early blobs are
missed; the first part survives that, which is why the order does.

*WasmtimeChannel.* The budget is released by readers while the pump is between
its load and its add. `PumpInv` says what the pump knows at each position, and the
point is that it alone adds, so that what it loaded can only have shrunk;
`QueueInv` that the queue holds consecutive messages after the last one taken;
`CallInv` that at most one reader is in the middle of a poll; `BudgetInv` that the budget is the sum of what is
queued, of the message on its way in and of the one a reader has not yet
released. The sums are the lemmas of `SumLemmas`.

*WasmtimePeerConnection.* `CountOK` says that the count is the number of creations
under way, `RegisteredOK` and `BeforeOK` where each creation is, `CoversOK` what
an armed offer may rely on while it waits. `WaitInv` follows the loads of
`wait-connected`, one by one, against the handler's stores: a wait past the load of
a flag that did not see it set, and has not been woken since, will be woken
(`Noticed`). `StreamInv` says that a channel is under way or pushed from the moment
it opened, and that once a stream has ended nobody is left who could add to it; the
latter needs `HandlerInv`, that the handler is there while the core is live.

*JcoHost.* A waiter is settled before its continuation runs, so the numbers of
messages in `messages`, in `jobs` and given out interleave. `JobsInv` orders them
(`Numbered`) and says that no message stands behind an ending (`Endings`);
`BufferInv` says that the buffer holds the last messages that arrived and that the
count is the sum of their sizes, `SendInv` that every send past its check still has
its place in the bound. The contract's ending of an overflowed queue is overflow even if the
channel closed as well, since that is the order in which `next` looks.

*ConformanceGuest.* A program is a sequence of stages of sequences of calls, and
nothing in the model says how far a guest is except its position in it. So the
proof first turns each program into a table (`StageTable`), and the invariant
speaks of places: stage `K(g)` of guest `g`, call `I(g)` of its first thread and
`J(g)` of its second. `Always` holds in any state, faults or not: positions are
places of the table, numbers are within their bounds, and each mailbox holds the
first blobs of its side. `Good` holds until a fault, and each of its parts is what
some call needs in order not to fail. `EndInv`: a side is closed only where
its test has come to close it. `FlowInv`: what a side has taken, what its inbox
holds and what is on the way to it are, in that order, exactly what the other has
sent. `ClaimInv`: the stream is claimed exactly where the program claimed it.
`MetInv`: descriptions and candidates are those of the mailboxes, so a blob is
there, once, when it is consumed. `SpecialInv` is what only one test needs, such as
the bound on sends after a close. With these, the lemmas whose names end in `Goes`
show for each kind of call that no guest stops at it (`RunsInv`). A guest past the
rendezvous has taken the sentinel; by `FlowInv` the other has sent it; so it is
at the rendezvous, which is `Rendezvous`. The assumption on the buffer came out of
this proof: the host's own limits are far above what the exchanges send, and with a
buffer smaller than an exchange the promise is false.

*ConformanceRun.* The commands of a provisioning have ranks, and the commands
still to come determine what the lab holds: `UpSoFar` and `DownSoFar` say it for a
provisioning and a teardown, whichever command failed or was ignored, and
`OnlyPairRefused` that the machine can refuse only the making of a pair whose
name an earlier run left unmoved, or of a namespace whose deletion has just
failed, which is `OnlyAnUnmovedLinkWedges`. `AttOK` ties
processes to attempts, and attempts to the window of tests started and not yet
taken. `FilesOK` says that a document that was written to its end is what its
executor reported and is named after its environment, which is what makes the
verdict sound; the assumption on environments is needed there, since executors whose
documents have one name overwrite each other's.

*SumLemmas.* The library states induction with an operator as a parameter, which
the provers cannot instantiate. Here it is stated for a set of naturals that
contains 0 and the successor of each of its elements, and derived from the
well-foundedness of `<`; from it follow the facts about sums over a finite set
that are used above: the empty sum, one element more, one changed.

### Only model-checked

- Every liveness property (`CallsReturn` and its like, `GetsAnswered`,
  `DoneArrives`, `TestsEnd`, `RunsEnd` and the others): fairness and ENABLED are
  beyond the prover.
- The three claims of section 4 that have a run, which are false.

## 6. Not modelled

- wasip3: `send-via-stream`, `incoming-data-channels` and `local-ice-candidates`.
  Their cursors over the shared state are independent of the channel's state
  machine; two hazards in `PROJECT.json` are left without a property for it.
- The count that a failed `send-via-stream` reports: each host advances it in the
  step that hands the message over, so there is nothing to relate it to.
- wasmtime: the resource table and the methods of `host.rs` that only forward, the
  signaling calls other than `create-offer`; what a streamed message consists of
  (that its collection is awaited and may fail is `Collect`).
- jco: the candidate and incoming streams, the signaling calls; the demo runner.
- Conformance: the payload bytes and labels a guest compares (only whether the
  expected message came is kept), the adapters for interop, wasip3 and jco (they
  run two guests through the same framework, or through Node and a browser),
  command lines (`peer_command.rs`), `--no-provision`, the socket shim for
  Shadow, the parsing and rendering of manifests, reports and matrix. Two
  executors with the same target and environment overwrite each other's
  document; the corpus of `conformance_run` has no such pair.
- External: the `rtc` and `webrtc-rs` crates, browsers, the kernel, `shadow`,
  `turnserver`; they are environments that do anything their interface allows.
- No protocol state of their own: linker setup and bindings, examples, build
  scripts and CI.
