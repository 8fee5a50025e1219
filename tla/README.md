# A verification development for DDS Mini-Bus

TLA+ models of the bus in this repository, the TLC runs that check them on small
instances, and theorems about them that TLAPS proves for every value of the
constants. Paths are relative to the repository's `src/`.

| file | what it is |
| --- | --- |
| `RetryTable.tla` | abstract: what the acknowledgement manager promises, and the core uses |
| `AckManager.tla` | `transport/ack_manager.cpp`, with time; implements `RetryTable` |
| `DDSCore.tla` | `core/dds_core.cpp` on every node, joined by UDP |
| `Discovery.tla` | `discovery/discovery_manager.cpp` on every node, with time |
| `ConfigManager.tla` | `config/config_manager.cpp`: the settings, their file, its watcher, the reload |
| `Node.tla` | `main.cpp` of one process, with time and the `ConfigManager` it runs |
| `FrameChannel.tla` | abstract: what the TCP transport promises of frames |
| `TcpTransport.tla` | `transport/tcp_transport.cpp` and `frame_codec.h` on every node; implements `FrameChannel` |
| `MC*.tla`, `*.cfg` | the instances TLC checks |
| `AckManagerProofs.tla`, `DiscoveryProofs.tla`, `NodeProofs.tla`, `TcpTransportProofs.tla` | theorems about the module of that name |
| `DDSCoreProofs.tla` | types, ids and acknowledgements of `DDSCore` |
| `DDSCoreDedupProofs.tla`, `DDSCoreSettleProofs.tla` | its de-duplication; how messages are settled, its tables as `RetryTable`s |
| `DDSCoreStateProofs.tla` | types of its state; what subscribers were given last |
| `PROJECT.json` | components, runs, mutants, map to the source, findings, hazards, theorems |

Run `tlc -config X.cfg MCModule.tla` for a run and `tlapm XProofs.tla` for the proofs.

## 1. Inventory of the system

A node is one process with one Qt event loop: timers and socket handlers run one at a
time and to completion, so a handler is one atomic step. The exceptions are the two
loops that call `processEvents` (`DDSCore::shutdown`, `main`'s shutdown handler).
Nothing is persisted: a process that starts again knows nothing. Nodes share only the
network.

| component | state | operations | interacts with | hard behaviour |
| --- | --- | --- | --- | --- |
| AckManager | `pending`, `dead_letters`, `ack_count` | `track`, `ackReceived`, `onTick` (30 ms) | signals `resend`, `failed` to the core | deadlines in wall-clock time, exponential backoff, late ACKs, full ring |
| DDSCore | `next_msg_id`, `subs`, `lastMsg`, `last_by_topic_`, `perTopicDedup`, `seenMessages`, `peers`, `peerFormats` | `publishInternal`/`sendMessage`, `makeSubscriber`, `onDatagram`, `resendPacket`, `shutdown` | calls transport, AckManager, Serializer; asks DiscoveryManager for peers; calls back subscribers | lost, duplicated and reordered datagrams; two bounded de-duplication sets; ids that start at 1 again; re-entrant callbacks |
| UdpTransport | a socket | `send`, `onReadyRead`, `stop` | signal `datagramReceived` | unreliable delivery; port taken, ephemeral fallback |
| DiscoveryManager | `peerTable` | `start`, `sendAnnouncement`, `processPendingDatagrams`, `expirePeers`, `stop` | signal `peerUpdated`; asked by the core | stale peers, expiry against announcement, lost announcements |
| Serializer | none | `encode*`, `decode*`, `negotiateFormat` | core, discovery | mixed formats, missing fields |
| TcpTransport, frame codec | `peers_`, `reconnectAttempts_`, timers | `start`, `stop`, `attach`, `detach`, `onReadyRead`, `send`, `onSocketError`, `scheduleReconnect` | tests only | reconnection after errors, frames split over reads, deletion in handlers |
| ConfigManager | the settings, the watched path | `load`, `parse`, `startWatching`, `onConfigFileChanged` | read by all at run time; signals to the logger and to DiscoveryManager | the file is read twice and changes in between; a watch that is lost |
| main | `shutdownRequested`, the sender's and the exit timers | set-up, sender chain, subscriber, signals, shutdown | all | signals before the event loop, timers that race, stopping with messages in the table |
| CLI, logging | none to speak of | | | none |

What makes each correct:

* **AckManager**: a message is settled exactly once and never sent again afterwards; the
  retry budget is neither exceeded nor cut short; the waits follow the backoff schedule;
  every message is settled in the end; the dead letters are the failures.
* **DDSCore**: what counts as acknowledged was accepted; only duplicates are dropped;
  a message is not accepted twice within the de-duplication window; a reliable receipt is
  answered; a reliable message arrives when the network loses few enough datagrams; a
  subscriber starts from the most recent message.
* **DiscoveryManager**: a peer that announces stays listed, one that is gone is dropped in
  time, and routing follows.
* **TcpTransport**: one session per configured peer for each start, attempts bounded, no frame lost,
  duplicated or torn.
* **ConfigManager, main**: a change of a reloadable setting is applied; a stopping node
  waits for its reliable messages, for a bounded time.

The code proper is about 2600 lines of C++ under `core/`, `transport/`, `discovery/`,
`config/`, `serialization/`, `utils/`, `include/` and `main.cpp`, and 1800 lines of tests.
Most of the remaining lines are in `build_diag/` and `build_fix/`, which are what CMake and
Qt's `moc` generated (`moc_*.cpp`, `moc_predefs.h`, mostly compiler macros); `evidence*`
holds logs of past test runs. Neither is a part of the system, and both are left aside, so
that the share of *all* lines that the map covers stays small.

## 2. Plan

Done, in this order: `RetryTable`, `AckManager`, `DDSCore`, `Discovery` with their proofs;
`ConfigManager` and `Node`; `FrameChannel` and `TcpTransport`; `NodeProofs` and
`TcpTransportProofs`; the remaining safety invariants as theorems; `DDSCore`'s tables as `RetryTable`s; the
streams of `TcpTransport` and its steps as those of `FrameChannel`. Left:

1. **LocalDelivery**: callbacks that publish or subscribe from inside `deliverToLocal`. The
   repository has none, so this would be about programs that use the library.
2. **Settings that change** in the other modules: `DDSCore` reads `dedup_capacity` at each message and
   passes it to its buffer once, so that a reload leaves the two sets with different capacities.

## 3. AckManager

`pending` is the code's hash table, `dead_letters` its ring, `ack_count` its counter. A record
of `pending` is `struct Pending`, with two changes: the packet and the address are left
out, and `deadline_ms` is kept as `wait`, the time left until it (`deadline_ms - nowMs()`).
With absolute times no run could be finite. `fate`, `config`, `sent`, `age` and `jumped` are
history: no action reads them to decide anything, except that `Track` happens once to a
key, because `sendMessage` tracks an id it never uses again.

| action | code |
| --- | --- |
| `Track` | `sendMessage` fills a `Pending` from the settings in force and calls `track` |
| `AckReceived` | `ackReceived`: removes the key if it is there, counts in any case |
| `OnTick` | `onTick`: `Due`, `Spent`, `Rearmed`, `Backoff` are its conditions, `PushDead` the ring, `AfterTick` the two loops at the end |
| `Elapse` | a unit of time passes, unless a tick is overdue by `MaxLag` |
| `SetClock` | the wall clock is set ahead or back, which moves every `wait` |

The hash table is walked in any order, so keys that fail in one tick enter the ring in any
order. `MaxLag` is what the 30 ms period and a busy event loop add to a deadline.

**`AckManager.cfg`** (267 thousand states): two keys, each with any of three settings (three retries
with backoff, one without, none), a ring of one, two ACKs that may come early, late or twice, and
a clock set once, back by 2 or ahead by 3. Two keys and a ring of one are enough for the ring to
overflow, also by two failures in one tick; three retries give waits of 1, 2, 4 and 8, so that a
wrong exponent shows. More keys, jumps and a larger ring are covered by the theorems. It checks

* `TypeOK`: also, the table holds exactly the keys that are neither confirmed nor given up;
* `RetryBudget`: at most `max_retries + 1` transmissions, exactly so many of what failed;
* `DeadLettersComplete`: the ring holds each failure once and drops one only when full;
* `SettledForGood`: after an ACK or a failure nothing is sent or settled again;
* `NeverGivesUpEarly`, `GivesUpInTime`: the time a message spends in the table is its whole
  backoff schedule, within the lag per attempt and what the clock was set. A clock that is
  set ahead expires all deadlines at once, but costs each message no more than the jump;
* `Implements`: the table implements `RetryTable`, liveness included. `fate` and `left` of the
  abstract specification are computed from the table itself wherever a key is in it;
* `EventuallySettled`: every tracked message is confirmed or given up.

**Fairness**: `WF(OnTick)`, because the `QTimer` is started in the constructor and never stopped,
and `WF(Elapse)`, because time passes. Nothing is assumed of receivers, of the core or of the
clock.

## 4. DDSCore

One instance of the core's state per node, and `net`, the set of datagrams in flight. A set has
no order, so any reordering is possible. `calls`, `subscribed`, `accepted`, `receipts`, `outcome` are history.
A message is `[pub, run, mid, topic, qos]`; `run`, the process that published it, stands for the
payload: it is not on the wire as such and no action decides by it. `subs` keeps the number of the callback that
subscribed last to a topic, and a `Call` is that number with what the callback was given: the message, and the
`qos` and `message_id` it was told, which `makeSubscriber` replaces by `best_effort` and 0 when it replays `lastMsg`.

| action | code |
| --- | --- |
| `Publish` | `publishInternal` and all of `sendMessage`: ids, routing, tracking, `lastMsg`, `last_by_topic_` |
| `MakeSubscriber` | `makeSubscriber` with `deliverRetainLast` |
| `IgnoreOwn`, `DropTopicDuplicate`, `DropSeenDuplicate`, `Accept` | `onDatagram` for data: its three early returns and its end, with `deliverToLocal` and the ACK |
| `ReceiveAck` | `onDatagram` for an ACK, `ackReceived` |
| `OnTick` | `AckManager::onTick` with `resendPacket` and `onAckFailed`; as `RetryTable` promises, for any set of due keys |
| `Lose`, `Duplicate` | the network |
| `Restart` | `main` starts again with the same `node_id` and port |

Points where the model chooses:

* `destPeers` is any set of other nodes: the peer table may be empty, late or stale. The empty
  set is the code's "no peers, dropping".
* Whoever could bind the broadcast port hears a best-effort message, the sender too.
* The per-topic set drops an arbitrary element, possibly the id just inserted, because
  `QSet::begin()` follows no order. `seenMessages` drops the oldest.
* Retransmissions of a packet are told apart by `copy`, a datagram the network duplicated by
  `dup`, since `net` is a set.
* A failed `send` of UDP is a datagram that is lost. `Lose` matters only for liveness: for
  safety a datagram that is lost is one that never arrives, and the safety run, whose
  `MaxLost` is 0, covers it.
* `dedup_capacity` and `max_retries` are taken as sane (`SettingsAssumption`); the code does not
  check them, see the hazards.

**`DDSCore_safety.cfg`** (4.3 million states): a publishes two messages of any kind, b listens, may
subscribe twice and restart once, one datagram may be duplicated, and both de-duplication sets hold one entry, so
that they overflow at the second message. It checks `AckSound`, `SettledOnce`, `DedupWindow`,
`OnlyDuplicatesDropped` and `ListenerUpToDate` beside the types. The last says that the last call on a topic was of
the callback subscribed last, with the payload of the last message that arrived: a listener does not miss what came
before it, and the second of two subscribers is not left out for the first. Two messages, a capacity of one
and a duplicate are what it takes for a message to be forgotten and accepted again.

**`DDSCore_live.cfg`**: one reliable message to any of two receivers, one retransmission, one lost
and one duplicated datagram: `EventuallyAccepted`, and `TablesAsPromised`: what a running process keeps and has
settled for one receiver moves as `RetryTable` says, and a process that starts again begins with an empty
table. `AckManager` implements `RetryTable`, `DDSCore` uses it: the two modules meet there. Each
receiver is a table of its own because one publication tracks several receivers, and one tick serves any of them. Fairness: a node that runs serves its socket
and its timer (`WF` of each); a datagram in flight is lost at most `MaxLost` times. With more
losses than retransmissions the property fails, as it must.

Four more configurations end in a violation, see section 8.

`CHECK_DEADLOCK FALSE` in these configurations: the bus is idle when the bounded ids are used up
and all is delivered.

**Bounds**: `MaxId` (publications of a process), `MaxRuns` (processes of a node), `MaxLost`,
`MaxDuplicated`, `MaxSubscribed` (callbacks a process subscribes to a topic; each takes the place of the one
before); in `AckManager`, `MaxAcks`,
`MaxLag`, `Jumps`, `MaxJumps`. None of them is assumed by a proof to have a particular value.

## 5. Discovery

All nodes run on one host, as the core assumes when it sends to 127.0.0.1, and read one wall
clock. Time passes in ticks, `Sec` to the second in which the table counts. An entry of
`peerTable` keeps `age`, which is the code's `now - last_seen`: both are whole seconds, so
all ages move on when `phase` passes a second. Timers and datagrams count down. `quiet`, `missed`, `upFor`,
`jumped` and `reloads` are history; they bound what may happen and state properties, and no
handler reads them.

What an announcement says (topics, formats, ports) is fixed while a process runs, so it is
represented by `run`, the number of the process that sends it.

| action | code |
| --- | --- |
| `Start` | `main` sets the manager up, `start(announce)`; the first announcement is due after 10 ms |
| `Stop` | `stop()` and the end of the process, or a crash |
| `setIntervalMs` | the slot of that name: restarts `announceTimer`, leaves `expiryTimer` alone |
| `sendAnnouncement` | the slot, called by the single shot or by `announceTimer` |
| `processPendingDatagram` | one turn of the loop in `processPendingDatagrams` |
| `expirePeers` | the slot, called by `expiryTimer` |
| `Tick`, `SetClock` | time passes; the host's clock is set |

Points where the model chooses:

* An announcement reaches any subset of the sockets that are bound, the sender's own too, but a
  running node misses at most `MaxMissed` in a row. Those that arrive take up to `MaxDelay` ticks, in
  any order, and may arrive in a process that started after they were sent.
* A timer fires up to `MaxLag` ticks late and is then armed from when it was due, or from
  now: Qt promises neither. No lag is as long as an interval (`TimesAssumption`; the code's least
  interval is 200 ms).
* `Bound` are the nodes whose `bind` succeeds. One whose `bind` failed goes on, announces, and
  hears nobody. A node with discovery disabled is one that never starts.
* A reload reaches `setIntervalMs` only when the file changes between the two loads of
  `onConfigFileChanged`; the model lets it happen at any time, `MaxReloads` times.

**`Discovery.cfg`** (10 million states): a announces, b listens, both start up to twice, one
announcement in a row may be lost, each takes up to a tick, timers lag up to a tick, the interval
is reloaded once, two ticks are a second, and the clock is set once, back by 3 or ahead by 4 ticks.
It checks the types (no node lists itself, a node that is down lists nobody, and a node that only listens is listed
by nobody: `setIntervalMs` starts `announceTimer` again only where it is active, so that a reload makes no listener
announce) and

* `KnownInTime`: once b has run for `LongestSilence` and a for `MaxDelay` longer, b has an entry for a that
  says what a announces now. Two processes and a delay are what it takes for an announcement of the former
  process to come late and overwrite the entry: the code compares no timestamps, so only the next
  announcement mends it, and a late one may come `MaxDelay` after a's start. (Without that delay the property
  fails when a datagram is longer under way than an interval.) `LongestSilence` is
  (1 + missed + reloads) intervals with their lag, and a delay. `SilenceAssumption` in `MCDiscovery` says
  that it is no longer than the expiry: the code does not ensure this, since `interval_ms` has a least value and no
  greatest. `upFor` stops counting at `Horizon`, which lies beyond (`HorizonAssumption`);
* `GoneInTime`: a peer is listed, and routed to, no longer after its last announcement than
  the expiry, the rest of a second, one sweep, the lag and what the clock was set back;
* `NotDroppedEarly`: nor is it dropped within the expiry, except by what the clock was set ahead.

Several announcers, two intervals, longer delays and more jumps are covered by the theorems about all three.

`tests/integration/test_discovery_cycle.cpp:57` waits for an "expiry (3 intervals = ~3 seconds)". The
settings of the repository are an announcement a second and an expiry after ten, whatever the
interval: a peer that is gone is still listed after four intervals. `GoneInTime` states the bound that holds.

No fairness is needed: these are safety properties, and `Tick` waits for timers and datagrams that are due.

## 6. Node and ConfigManager

`ConfigManager` holds the settings, the file and its watcher; `Node` extends it with the process
that `main` is: where `main` stands (`pc`), the flag and the quit of the signal handler, the armed
timers with the ticks left to each, the messages left to publish and those in the table. A handler is
a step; the event loop runs one at a time. `published`, `uptime`, `exitCode`, `reloaded`, `unseen`,
`heardAt` (how many messages were published when the first signal came) and `writes` are history.

| action | code |
| --- | --- |
| `Load` | lines 52 to 67: `ConfigManager::load`, and the end of a process without a readable file |
| `SetUp` | lines 69 to 125: the watch, the exit timer, and `msleep`, during which no event loop runs |
| `EnterExec` | the sender's chain is set up and `exec` begins |
| `WarmUpFires`, `SendTimerFires`, `QuitFires` | the single shot of line 148; the lambda of lines 131 to 146; the two single shots that quit |
| `Signal` | `signalHandler`: at any time from line 70 on; inside the lambda too, between its look at the flag and the publication (`SignalArrives` in `SendTimerFires`) |
| `Settle` | an ACK, or a message that is given up: what `RetryTable` allows |
| `Reload` | the watcher's signal: `onConfigFileChanged`, then `LoadAgain`, its second load |
| `LeaveExec`, `EndFlush` | the end of `exec`; the ends of the two flush loops |
| `Tick`, `Edit` | time passes where `main` waits; somebody edits the file |

Points where the model chooses:

* The settings are any set of names with the values that `parse` accepts (`Valid`), what it takes
  instead of others (`Fallback`), and what it does when the file lacks one: keep it (`Kept`) or,
  for lists, empty it (`Cleared`). A value of the wrong type keeps the old one, like one that is missing. Settings
  are independent; left out are `serialization.supported`, which a section without it resets to the format and the
  other one (`config_manager.cpp:164`), and that `discovery.address` is checked only in multicast mode (line 71).
* `quit` has an effect only on a loop that runs: a `quit` before `exec` is forgotten by it. A signal may
  interrupt a handler anywhere. Where that makes a difference, between `main.cpp:132` and 143, it is a
  step of its own kind; elsewhere it comes before or after the handler.
* The file changes at any time, also between the two loads. An editor that puts a new file in the
  place of the old one may cost the watcher its path (`Write` may reset `watched`); the
  code never adds it again. `unseen` marks a change nobody was told of.
* A periodic timer fires up to `MaxLag` late and is armed again from when it was due or from now; the
  event loop is never later than an interval (`OptionsAssumption`). That Qt's coarse timers may fire up to 5 %
  early is left out.
* The core and the acknowledgement manager are reduced to the set of pending messages with their ages.

**`Node.cfg`** (486 thousand states): five command lines (a sender of two, one with a start delay that
ends in time, one whose delay is longer than its time to run, a subscriber that runs for ever and one that
does not), two changes of the file among three contents and one that cannot be read. Two changes are
what it takes for one to fall between the loads of a reload caused by the other. It checks

* `PublishesInFull`: a sender that nobody stops publishes `--count` messages, and none ever more;
* `LastMessageGrace`: since a sender does not flush (section 8), the time from its last message to its
  end is all the time the message has: an interval and the 100 ms of line 139, less one lag;
* `EndsInTime`: when a process ends at the latest, by its own timers or by `--run-for-sec`;
* `StopsSoonAfterSignal`: after a signal a sender publishes at most the message whose handler was interrupted. If
  the quit was lost it publishes nothing, and the first timeout of its timer ends it, by `FlagDeadline`: the flag
  alone stops it as it should;
* `StopsOnSignal`: after a signal a process ends. A subscriber that gets it before `exec` does
  not, which the property excepts: its quit is lost and nobody reads the flag;
* `SettingsCurrent`: in a process at rest the settings are those of the file, whatever changed
  before, between and after the two loads, except for a change nobody was told of.

**Fairness**: `main` goes on, the event loop serves its timers and the watcher, time passes (`WF` of each). Nobody has to
acknowledge a message, send a signal or edit the file. `CHECK_DEADLOCK FALSE`: a process ends.

**Bounds**: `MaxWrites`; `Horizon`, where `uptime` and ages stop counting (`HorizonAssumption` in `MCNode`:
beyond every deadline; `FarHorizon` in `NodeProofs`).

## 7. TcpTransport

Sessions are numbered in the order they are made. Each has two ends, which are `backlog` (accepted by the
kernel, not yet by `onNewConnection`), `attached` (in `peers_`) or `gone`; `broken` are those TCP has lost. An
address is a node and a port: 0 is where its server listens, `s` the ephemeral port session `s` was opened
from. `timers` counts the reconnection timers that run for an address, since the code makes one for each
error. `wire` and `rxBuf` are bytes; a byte is a frame and a position, and `tryDecode` learns the length from
the first. `sent`, `received`, `failures`, `gaveUp`, `starts` and `calls` (the calls of `start` in this process) are history.

| action | code |
| --- | --- |
| `start` | `start`: every target connected to, or a timer for it. It asks for nothing: it may be called on a transport that runs or was stopped, and adds to the sessions, timers and attempts it finds |
| `stop` | `stop`: sessions closed; timers go on, since none is ever put into `reconnectTimers_`, and attempts stay counted |
| `onNewConnection` | takes over all that the server has accepted |
| `send` | writes a frame to every session |
| `onReadyRead` | reads what has come and decodes as many frames as there are (`Decoded`, a loop of `tryDecode`) |
| `onSocketError` | `onSocketError`, `scheduleReconnect` up to the timer, and `detach`, which follows |
| `Timeout` | the lambda of the timer: `GiveUp`, `Reconnect` or `Fail` |
| `Break`, `Crash` | TCP loses a session; a process dies |

`detach` deletes a node's end of a session with what its socket and `rxBuf` still held; `stop`, an error and
the end of a process all come to it.

Points where the model chooses:

* `close` in `stop` may emit `disconnected`, whose handler frees the peer that `stop` then frees again:
  undefined behaviour. With a session, the process may die of it or go on.
* A connection succeeds only if the target's server listens and runs; it may fail also then. Nobody
  ever accepts on an ephemeral port, although the code tries: the comment at `transport/tcp_transport.cpp:109`
  limits reconnecting to outgoing sessions, and the code does it for incoming ones too. What comes of it is
  attempts up to the limit, each of which blocks the event loop, and a counter that is never removed.
* `onReadyRead` reads one session at a time. Sessions do not affect each other, so reading several is reading
  one by one.
* A frame that is written to a broken session is sent and lost.

**`TcpTransport.cfg`** (986 thousand states): a connects to b, which listens; a starts up to twice, in one process,
with or without `stop` in between, or in two; b starts once; both may crash; two sessions, two attempts,
two frames, one with an empty payload, behind a header of two bytes, so that every cut of a header, of a payload and of two frames in a row occurs. It checks

* `OneLinkPerStart`: of sessions and timers together a target has no more than `start` was called times in this
  process, although each error makes a timer; and a running node has none only for a target it gave up;
* `GivenUpInTurn`: no address is tried more than `MaxAttempts` times in a row; where `start` was called once, it is
  given up after exactly so many failures since its last success;
* `ArrivedIsReceived`: over a session that lasts, a frame of which nothing is on its way any more was received. A
  decoder that takes one frame for each signal leaves the second of two that came together in `rxBuf`;
* `EventuallyLinked`: a node that stays up is connected to each target again and again, or gives it up;
* `Implements`: each direction of a session implements `FrameChannel`: whole frames, in order, once each, all of
  them unless the session breaks. `closed` is `broken`.

`OneLinkPerStart` and `GivenUpInTurn` are as strong as the code allows. A second `start` on the same object, after `stop` or without, finds the
timers of the first: a target may then have two sessions, over which each frame goes twice. It also finds the
attempts: the connection that `start` makes does not forget them (`tcp_transport.cpp:31`, unlike line 129), so that
an address may be given up early for the failures of an earlier outage, and one that was given up stays exhausted on
this object: its next timer gives up at its first timeout. No text of the repository promises otherwise, and its
tests start each object once.

**Fairness**: a node that runs serves its sockets and timers. Attempts need not succeed. `CHECK_DEADLOCK FALSE`:
frames, sessions and starts are used up. **Bounds**: `MaxSessions`, `MaxFrames` (on all sessions together), `MaxStarts`.
With two sessions, each kind of session (first, renewed, one of two to a target) and its loss occur; the theorems cover any number, and
frames of any length. The loop of `Decoded` is bounded by the bytes in the buffer, which no frame is without.

## 8. Disagreements with the documentation

Each is a run that ends in a violation and an entry of `findings`.

| run | what happens | what the text says |
| --- | --- | --- |
| `DDSCore_lost_ack.cfg` | one ACK is lost, the retransmission is dropped as a duplicate and not answered, and the next tick gives up a message its receiver has, with one loss in two transmissions (`GivenUpWhenAllLost`) | `docs/Architecture.md:54` |
| `DDSCore_two_publishers.cfg` | `perTopicDedup` knows bare ids: the second of two publishers is taken for a duplicate of the first, without loss or restart | `docs/Architecture.md:49` |
| `DDSCore_stale_ack.cfg` | a restarted publisher uses its ids again: an ACK for its former process confirms a new message nobody received | `docs/Architecture.md:49,68` |
| `DDSCore_retain.cfg` | with `retain_last`, a new subscriber is left with the node's own last message instead of the most recent one | `include/qos.h:24` |
| `Node_flush.cfg` | a sender returns from its own `exec` before the handler that waits is connected: it ends with messages pending | `main.cpp:185` |
| `Node_reload.cfg` | the reload reads the file before it saves the old values, finds no difference at the second load, and passes nothing on | `config/config_manager.cpp:273`, `docs/Architecture.md:41` |

A reload does reach the timers when the file changes between the two loads; `setIntervalMs` in `Discovery` is
there for that.

## 9. What is proved

All theorems hold for every value of the constants that the named assumptions allow.

**AckManagerProofs**. `KeysAssumption`, `ConfigsAssumption`, `DeadCapAssumption`, `BoundsAssumption`:
finitely many keys, natural numbers as settings, a ring of at least one.

* `TypeCorrect`: `TypeOK` is inductive. The part that takes work is the ring: `PushDead` never
  exceeds the capacity.
* `BudgetRespected`: `RetryBudget` alone is not inductive, as it does not relate a pending key's
  attempts to its budget. `BudgetInv` does: `sent = attempt + 1` and
  `attempt + retries_left = max_retries`.
* `PatienceKept`, `WaitIsBounded`: `ScheduleInv` bounds the age of a pending key from both sides by the
  waits of its attempts so far, its current `wait`, and what the clock was set. It rests on
  `Shift(n)` doubling up to 10 and staying at 1024, proved as lemmas about `Patience`. The bound
  that the 10 in `qMin(p.attempt, 10)` sets is inside the theorem, far outside what TLC reaches.
* `RingComplete`: `DeadLettersComplete`, for a ring of any capacity and any number of failures in one tick. The
  keys of a tick enter in some order, each once (`SeqOfSet`); joined to a ring without them and trimmed to its
  newest, they stay distinct (`Joined`, `NewestKept`).
* `Settlement`: the action property, from `TypeOK`.
* `RefinesRetryTable`: initial states and steps of `Implements`.

**DDSCoreProofs**. `NodesAssumption`, `SettingsAssumption`.

* `AcknowledgedWasAccepted`: `AckSound`, assuming `PublishersStayUp` (publishers are not restarted; the
  run `stale_ack` shows that the assumption is needed). The inductive invariant `AckInv` has
  three parts beside the types: a publisher's ids name its messages, wherever these are (in
  flight, in a table, in the history); every ACK in flight stands for a receipt; what was taken
  for acknowledged was kept.
* `AcknowledgedWasAnId`: what holds without that assumption. Under any restarts, loss, duplication and reordering, what is
  acknowledged has the publisher and id of a message that receiver accepted (`AckStandsForId`), of this run or an
  earlier one. An ACK names nothing else, so this is all the code promises when publishers restart.

**DDSCoreDedupProofs**. `NodesAssumption`, `SettingsAssumption`.

* `AcceptedAgainOnlyLater`: `DedupWindow`, for every `dedup_capacity` of at least one. The invariant
  `WindowInv` says what `seenMessages` is: the latest entries of the sequence of accepted messages,
  all of them until the buffer is full. `LRUInsert` of a key the buffer lacks moves that window by one
  (`WindowMoves`), so the key's last acceptance lies before it (`StaysFarApart`).
* `DroppedWasAccepted`: `OnlyDuplicatesDropped`, assuming `OnePublisher` (the run `two_publishers` shows
  that it is needed) and `PublishersStayUp`. Two parts: both sets hold only what was accepted
  (`RememberedWasKept`, which covers `perTopicDedup` losing arbitrary ids), and the ids of one publisher
  name its messages (`IdsAreNames`).
* `DroppedWasAnId`: what holds without either assumption: whoever publishes and restarts, what is dropped has the topic
  and id of a message accepted there (`DroppedForItsId`), from `RememberedWasKept` alone.

**DDSCoreSettleProofs**. `NodesAssumption`, `SettingsAssumption`.

* `SettledOneWay`: `SettledOnce`, with no assumption on who publishes or restarts. An ACK and a
  timeout take an entry out of the table before they settle it, so `SettleInv` adds: what the running process
  settled for a receiver is not in its table (`SettledIsGone`). For a publication to keep that, settled
  messages of the running process have ids below `next_msg_id` (`SettledHere`); those of a former
  process bear its number.
* `CoreKeepsTables`: `TablesAsPromised`, from `SettleInv`. A publication starts a key that was neither tracked nor
  settled, an ACK confirms at most one, a tick expires those of the due keys that belong to the receiver.

**DDSCoreStateProofs**. `NodesAssumption`, `SettingsAssumption`.

* `TypeCorrect`: `TypeOK`: the types of what subscribers see (`LocalTypes`) and the sizes of the two
  de-duplication sets (`SetsInv`; `WindowInv` for the buffer).
* `ListenersKeepUp`: `ListenerUpToDate`. A node that only listens retains nothing
  (`OwnMessagesRetained`), so that a new subscriber there is given `lastMsg`, under another `qos` and id, and nothing
  after it; and `subs` names the callback that subscribed last.

**DiscoveryProofs**. `NodesAssumption`, `TimesAssumption`, `BoundsAssumption`; for `KnownWhenHeard` also
`LongestAssumption` (one of the intervals is the longest).

* `TypeCorrect`: `TypeOK`. It needs `Started` and `AnnouncedRuns` (what is in flight was announced by a process
  that ran) for the entries, `OnlyAnnouncers` (no timer of a node that only listens becomes active) for who is listed,
  and `SweepsOnTime` for the timers.
* `ForgottenInTime`, `KeptLongEnough`: `GoneInTime` and `NotDroppedEarly`. Both rest on `QuietInv`, which
  reads an entry's age in ticks, `age * Sec + phase`: this moves with the wall clock tick by tick
  (`ReadMoves`, from the division by `Sec`) and stays within the jumps and a second of the true silence
  (`AgesRight`). `SweptInTime` adds that a peer that is listed was not expired at the last sweep. They hold for every interval,
  expiry, lag and jump, for any number of nodes, and whether or not announcements arrive.
* `KnownWhenHeard`: `KnownInTime`, if entries outlive the longest silence (`LongestSilence <= Expiry * Sec`). `ComingInv`
  bounds, for each pair of nodes, the silence so far plus the time until the next announcement arrives, by what the
  timer has left (`AnnouncesOnTime`) or a datagram in flight has to go; datagrams of a former process have
  arrived by then (`FormerFade`).

**NodeProofs**. The assumptions of `ConfigManager` and `Node`.

* `TypeCorrect`: `TypeOK`.
* `SoonAfterSignal`: `StopsSoonAfterSignal`, by `SoonInv`: a signal that finds the handler past its look at the flag finds `exec` running, so that
  its quit counts; as long as nobody was told to quit, nothing was published, and the closing single shot has a bounded
  time left (`SenderTimes`).
* `SettingsFollowFile`: `SettingsCurrent`, for any settings, contents and number of changes. `CurrentInv` adds what holds
  during a reload and while the watcher's signal is still due.
* `AllPublished`: `PublishesInFull`. `ChainInv` says which timers of the sender's chain are armed in which place, that
  published and remaining messages add up to `--count`, and how a chain ends.
* `InTime`: `EndsInTime`. `SenderTimes` bounds the uptime by the ticks the armed timer has left and the messages
  still to come, `AutoTimes` by what the exit timer has left. Products of `--count` and the interval are bounded for every value.
* `LastMessageHasTime`: `LastMessageGrace`, assuming `FarHorizon` (ages count as far as an interval and the delay).

**TcpTransportProofs**. `NodesAssumption`, `CodecAssumption`, `BoundsAssumption`.

* `TypeCorrect`: `TypeOK`. Connections are numbered by a sequence made of a set; `OpenedSessions` and `OpenedEnds` derive
  from that what one, or several at once, change. `Ends` adds that an end belongs to a session and no node is connected to itself.
* `GivesUpInTurn`: `GivenUpInTurn`. The counter of an address is never below its failures since its last success; where
  `start` was called once the two are equal, and an address that was given up is exhausted (`TurnInv`).
* `TargetsLinkedPerStart`: `OneLinkPerStart`, for any number of nodes, sessions, errors and starts. `Count` adds sessions and
  timers of a target: a `start` adds one, an error trades a session for a timer, a success trades it back, giving up
  spends it, and `stop` leaves the timers.
* `NothingGetsStuck`: `ArrivedIsReceived`. `StreamInv` says of each direction of a session what its bytes are: `rxBuf`
  and `wire` together carry the frames of `sent` after those of `received`, byte for byte, to the last one unless
  the session broke, and no whole frame is left in `rxBuf` (`InOrder`). Which frame a byte belongs to is a
  witness, `own`, that each step carries on. A `send` extends it (`StreamSends`), a read cuts it after the last
  frame that has come whole (`StreamReads`), a break gives up only its end (`StreamBreaks`), and an end that is
  deleted loses what it had not decoded (`StreamDropped`), in a session that is broken by then.
* `RefinesFrameChannel`: initial states and steps of `Implements`, from `StreamInv`. A `send` maps to `Send`, a read
  to `Receive` or, if it completes no frame, to a stutter; whatever breaks sessions maps to `Close`, the rest to a
  `Close` of nothing.

What the loop of `Decoded` computes needs induction over the number of frames, and the induction theorems of the library
take an operator, which the provers cannot instantiate. The proof counts up to the length of the buffer instead: the
numbers for which a claim fails are a set, a set of naturals has a least element (`LeastNat`, from `WFMin` and the
well-foundedness of `<`), and the least would have to be neither 0 nor a successor (`CountUp`). `LoopDefined` shows in
this way that the recursive function has a value at each step, `LoopDecodes` that after any number of steps it has
taken off that many frames, or all that are whole.

**Only model-checked**: liveness (`EventuallySettled`, `EventuallyAccepted`, `StopsOnSignal`, `EventuallyLinked` and the fairness
part of both `Implements`), since liveness under fairness and `ENABLED` are out of the prover's reach. Every
other property of the passing runs is a theorem. There are no RECURSIVE operators.

## 10. Not modelled

The byte layout of JSON and CBOR (Qt's), logging, the dead-letter file (written, never read), the parse of
the command line (its result is `CliOptions`), timestamps (carried, never read), IP addresses (always 127.0.0.1
for unicast), the port a UDP socket falls back to, buffer sizes and the time a TCP attempt blocks.
The per-peer format cache and `negotiateFormat` are left out because no receiver depends on what they choose: `decode`
tries CBOR and then JSON. Callbacks that publish are left out because the repository has none; see the plan. The modules other than `Node` keep their settings as constants. `components` and
`hazards` in `PROJECT.json` list all of them one by one.
