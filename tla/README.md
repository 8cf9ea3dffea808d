# Verification of local_peer_connections

`local_peer_connections` is a Dart/Flutter library (with an Android and an iOS plugin) that connects nearby devices over Bluetooth LE, negotiates an encrypted pairwise session per peer and builds groups on top of it: one member coordinates the group and relays reliable messages between members that have no link of their own. This directory holds TLA+ specifications of that program, translated from the code under `lib/src/` and from the integration runner and its device fixture under `integration_device_app/`, the TLC configurations that check them, and TLAPS proofs about them.

Paths below are relative to the repository root.

## 1. Inventory

| Component | Source | State | Operations | Correct when |
|---|---|---|---|---|
| Coordinator relay table and controller | `lib/src/protocol/group_relay.dart`, `coordinator_relay_controller.dart` | admitted operations, per-destination reservations, per source/destination order | admit, complete (submitted, acknowledged, failed), destination resumed / gone / removed, authority lost | order lists and reservations always match the admitted relays; every relay that leaves tells its source; a successor is always handed over |
| Runtime group route transport | `lib/src/runtime.dart` (`_RuntimeGroupRouteTransport`) | source handles, `_ackHops`, controllers, member and destination routers, checkpoints, merges | source hop, local send, hop submission, ACK, timeout, resume, close, member left, coordinator changed, cancel | a delivery ACK implies delivery; per-pair order; one verdict per source hop; relays and handles settle |
| ACK retention | `lib/src/protocol/ack.dart` | one entry per pairwise MessageId: deadline, retries, encoder | retain, final frame submitted, ACK, poll, replay, transport lost | at most three transmissions, no lost or doubled completion |
| Member routing, routed-send table | `lib/src/protocol/group_member_router.dart`, `group_routing_send.dart`, `group_destination_router.dart` | nonterminal operations with their route state, tombstones, destination dedup | begin, relay status, delivery ACK, timeout, cancel, reroute | each operation gets one terminal state; late signals are recognised |
| Peer connection core | `lib/src/peer_connection_core.dart`, `lib/src/protocol/control_payload.dart`, `reliability.dart`, `reassembly.dart`, `reliable_data_receiver.dart` | generation, sequence numbers, receive window, pending writes, retained operations, reassembly | submit, receive, ACK poll, transport loss, resume, close | per-generation replay protection, ordered delivery, retained operations survive a resume, acknowledged ones are delivered once |
| GATT backend connection | `lib/src/gatt_backend_connection.dart`, `lib/src/protocol/gatt_fragment.dart` | write queue by priority, fragment cursor, reassembler | write, drain, writable, receive fragment, terminal failure, close | every accepted write is answered once; frames are never interleaved; nothing is stranded in the queue |
| Backend contract | `lib/src/backend.dart` | accepted writes and their completion | write, complete, fail | one completion per write, in order |
| Stream and mesh backends | `lib/src/stream_backend_connection.dart`, `mesh_backend_connection.dart`, `lib/src/protocol/mesh_relay.dart` | byte stream buffer; mesh routes | write, receive, relay | the backend contract |
| Upgrade and UDP sidecar | `lib/src/protocol/upgrade.dart`, `udp_sidecar.dart`, `udp_packet.dart`, `udp_probe.dart` | upgrade candidate, probe state | probe, commit or abandon | no frame is lost in a switch |
| Outbound scheduler and keepalive | `lib/src/protocol/scheduler.dart`, `keepalive.dart` | per-class queues with credit; pending PING | enqueue, next; poll, PONG | no class starves; a dead link is noticed |
| Group session, leave and merge | `lib/src/group.dart`, `lib/src/protocol/group_leave.dart`, `group_merge.dart`, `group_dedup.dart` | view, coordinator, phase, delivered ids | join, receive, snapshot, leave, merge | members agree on a view; one delivery per operation |
| Coordinator election and heartbeat | `lib/src/protocol/election.dart`, `coordinator_heartbeat.dart`, `stale_coordinator.dart` | observed coordinators, timers | observe, poll | one coordinator among connected members |
| Membership snapshots | `lib/src/protocol/membership.dart`, `membership_snapshot_receiver.dart` | staged snapshot, committed revision | stage, commit | revisions only advance; no partial view |
| Checkpoints | `lib/src/protocol/checkpoint*.dart` | published version, coalescing queue | publish, receive, replay | the newest checkpoint wins |
| Handshake and resume | `lib/src/protocol/handshake*.dart`, `hello.dart`, `auth.dart`, `resume.dart` | transcript, role, epochs | negotiate, resume | both ends agree on session and generation |
| Runtime ownership, discovery, reconnect | `lib/src/runtime.dart` (`NearbyRuntime`), `lib/src/protocol/reconnect.dart`, `connection_rank.dart` | bindings, owned peers, reconnect timers | platform events, connect, duplicate-link arbitration, backoff | one live binding per peer; reconnecting ends |
| Integration device runner and fixture | `integration_device_app/tool/device_integration_runner.py`, `integration_device_app/lib/device_test_controller.dart` | runner: one event cursor per device, the scenario's place in its script, counters, the report; fixture: bounded event history, attempts, connections, group, traffic producers | run a scenario (preflight, reset, connect, send, wait for events, check, clean up); fixture commands | no evidence is lost or counted twice; a pass rests on what the scenario did; a failure leaves nothing behind; every scenario ends |
| Codecs, cryptography, plugins | `lib/src/protocol/frame.dart` and payloads, `crypto.dart`, `lib/src/identity*.dart`, `android/`, `ios/` | - | - | not modelled (section 9), but for the GATT writes of the Android plugin |

**Interaction.** The runtime is single-threaded Dart. Platform events (Bluetooth callbacks), frames and a 50 ms timer enter `NearbyRuntime`, which owns one `PeerConnection` per peer; the connection's core encrypts a frame, allocates its sequence number and hands it to a backend. `GroupSession` is reached through `_RuntimeGroupRouteTransport`, which turns the coordinator controller's declarative actions into frames.

The integration runner is a Python process that drives two or three devices over HTTP: it posts commands to the fixture of each device, polls `/snapshot`, and reads `/events?after=cursor`. The fixture answers while the library beneath it goes on connecting, dropping, delivering and recording events.

**What is hard.** A handler runs without interruption to its next `await`; while it waits for a platform write, any other event may run. Every field read before a write and used after it may be stale: links leave READY, ACKs overtake the completion of the write they answer, timers fire, members leave, authority moves. The runner sees the devices through one request at a time: what a condition over two devices sampled first may no longer hold when the second is sampled; a request may take effect and lose its answer, or take effect after the runner gave up; an event is read once, by whoever reads first, and a bounded history may evict it unread. `PROJECT.json` lists these hazards with the line where each one bites.

## 2. Modules

| Module | Models | Role |
|---|---|---|
| `CoordinatorRelay` | relay table and controller | one action per call; properties of the table for *any* caller |
| `RelayRuntime` | the coordinator half of `_RuntimeGroupRouteTransport`, with links, ACK retention and the destination application | composes `CoordinatorRelay` (the actions call its actions) |
| `RelayRuntimeProofs` | - | TLAPS proofs about `CoordinatorRelay` and about `RelayRuntime`, with the refinement of the former by the latter |
| `BackendContract` | the write contract of `backend.dart` | abstract specification: what any backend promises the core |
| `GattBackend` | `GattBackendConnection`, the fragmenter, the remote reassembler, the Android write path | implements `BackendContract` |
| `GattBackendProofs` | - | TLAPS proofs about `GattBackend`, with the refinement |
| `PeerLink` | application DATA between two `PeerConnectionCore`s | composes `BackendContract` (writes go through its actions) |
| `PeerLinkProofs` | - | TLAPS proofs about `PeerLink` |
| `EventFeed` | one device's event history and the cursor the runner's threads share | abstract specification of `DeviceApi.events` |
| `EventFeedProofs` | - | TLAPS proofs about `EventFeed` |
| `RunnerSteps` | how the runner executes a scenario: waits, checks, windows, commands, handlers, faulty requests | the script language of the scenario modules |
| `RunnerFixture` | `preflight`, `reset_all`, `connect`, `create_group` and the READY checks as pieces of script; the fixture and the library as they see them | extends `RunnerSteps` |
| `RunnerRelay` | IT-046 (`scenario_friend_relay`) | extends `RunnerSteps` |
| `RunnerRelayProofs` | - | TLAPS proofs about `RunnerRelay` |
| `RunnerTraffic` | IT-041, IT-043, IT-044 and the fixture's producers | extends `RunnerFixture` |
| `RunnerTrafficProofs` | - | TLAPS proofs about `RunnerTraffic` |
| `RunnerSession` | `main()` with its report, and the other scenarios for two devices | extends `RunnerFixture` |
| `RunnerSessionProofs` | - | TLAPS proofs about `RunnerSession` |
| `RunnerConnect` | `Runner.connect` by one or two threads, with SAS verification | implements `EventFeed` on each device |
| `RunnerConnectProofs` | - | TLAPS proofs of that refinement and of the verdicts of `connect()` |
| `MCCoordinatorRelay`, `MCRelayRuntime`, `MCGattBackend`, `MCPeerLink`, `MCRunnerConnect` | - | constants, scenarios and symmetry for TLC |

### CoordinatorRelay

| Variable | Code |
|---|---|
| `operations` | `CoordinatorRelayTable._operations`, keyed by source and GroupMessageId |
| `reservedBytes`, `reservedMessages` | `_reservations` per destination |
| `order` | `_sourceDestinationOrder` |
| `out` | the `CoordinatorRelayActions` returned by the last call |

`Admit` is `CoordinatorRelayController.admit` with its early returns, in the order of the code, as named alternatives (`AdmitThrows`, `AdmitNotInGroup`, `AdmitLocal`, `AdmitUnavailable`, `AdmitDuplicate`, `AdmitQueueFull`, `AdmitForward`). `FinalHopSubmitted`, `FinalHopAcknowledged`, `FinalHopFailed` release the relay, report it and take the successor; `DestinationResumeFailed`, `DestinationRemoved`, `DestinationResumeSucceeded` and `CoordinatorAuthorityLost` act on a whole destination or table. A call that fits no case (a completion of an unknown relay) returns empty actions. Contents are payload values with a size; bytes and priority are not told apart otherwise.

### RelayRuntime

A running handler is a *task* with a program counter. The counters `apply`, `forward`, `next` and `replay` lie between two awaits: such a task still owns the turn, and no other event starts until it reaches a suspended counter (`acking`, `signalling`, `info`, `submitting`, `resubmitting`, `replaying`) or ends. This is Dart's run-to-completion rule.

| Variable | Code |
|---|---|
| `members`, `authority` | `group.members`, `group.isCoordinator` |
| `link` | state of each `PeerConnection` |
| `retained` | `AckRetention` entries of destination hops: pending or awaiting, retries used |
| `liveHops` | `_ackHops` |
| `wire`, `acks` | complete hops and generic ACKs under way (external) |
| `delivered` | what each application received |
| `handle`, `told` | `_sourceHandles`; statuses sent to remote sources |
| `arrivals`, `admissions` | history, for bounds and properties |
| `scenario` | workload and admitted faults, fixed in the initial state |

`SourceHop` and `LocalSend` admit; `Apply`, `Forward`, `NextInLoop`, `HopSubmitted` are `_applyCoordinatorActions`, `_submitForward` and `_submitHop` cut at their awaits; `GenericAckArrives`, `AckTimeout`, `HopResubmitted` are the ACK machinery; `LinkLost`, `LinkResumed`, `InfoWritten`, `ReplayHop`, `ReplayOrdered`, `LinkClosed` are the transport generations; `MemberLeft`, `AuthorityLost`, `CancelLocal` the group events. An exception ends a task where the code lets it escape (`Throw`), and a collision disconnects the sender as the frame handler does (`Collide`).

### BackendContract and GattBackend

`BackendContract` has two variables: `writes`, the accepted writes in acceptance order with their state (`pending`, `submitted`, `failed`), and `open`. `Accept` appends, `Complete` submits a write that is `Eligible` (the first pending one of its priority), `FailAll` closes and fails everything pending. `PeerLink` uses these actions as its backend; `GattBackend` is shown to implement them, so what holds of `PeerLink` does not rest on an invented backend.

| `GattBackend` variable | Code |
|---|---|
| `backend` | `_state` |
| `queue`, `queuedSize` | `_writes` and `_queuedBytes` (sizes counted in fragments) |
| `draining` | `_draining`: the write whose fragment the `_drain` loop awaits |
| `writes` | every accepted write with its priority, size and completion |
| `call`, `inFlight`, `toDart`, `refusals` | the plugin: the submission on its way to it, fragments the operating system has not finished, answers and events on their way to Dart |
| `connected`, `air`, `partial` and what the remote has received | the physical link and `GattReassembler` on the other device |

`Write`, `Writable`, `Disconnected`, `Close` are the entry points; each runs `_drain` up to its await, as the code does. `Answered` is the rest of a turn of the loop: the answer may find its frame failed (`StillFirst`). `NativeSubmit`, `NativeWriteDone`, `NativeDisconnect` are the plugin, `Receive` the remote reassembler.

### PeerLink

| Variable | Code |
|---|---|
| `core`, `peer` | `PeerConnectionCore.state` of sender and receiver |
| `gen`, `nextSeq`, `highest` | `generation`, `_nextSequence`, `ReceiveSequenceWindow._highest` |
| `retained`, `cancelled` | `_reliableDataOperations` and the `cancelled` flag of its members |
| `entries` | `AckRetentionSet._entries`: state, retransmissions, whether a deadline is set |
| `handle` | state of the `SendHandle` of each message |
| `tasks` | the running `_submitReliableData`, `pollAckTimeouts` and `retransmitReliableDataAfterResume` with what is left of their loops |
| `partial`, `dedup` | `DataReassembler._messages`, `CompletedMessageDedup._entries` |
| `acks` | `receiveDataChunk`s that await the write of their ACK |
| `wire`, `ackWire` | frames and ACKs under way (external) |
| `losses`, `fulls`, `scenario` | bounds and workload |

`Send`, `Cancel`, `PollAckTimeouts`, `ReceiveAck`, `TransportLost`, `Resume` and `Close` are the entry points of the sender; `Chunk`, `Written` and `NextOp` are the code between two awaits of an attempt and of the loop around it. `Receive`, `AckWritten`, `AckFailed` and `PeerLost` are the receiver; the message is handed over (`HandOver`) after the write of its ACK completed or failed. Each side notices a loss on its own, and frames that the platform had accepted may still arrive in between. RESUME is one step of both sides. Encryption and key derivation only pass through the microtask queue, and are part of the step that writes the frame. Time is abstract: any deadline that is set may have passed.

### EventFeed and RunnerConnect

| `EventFeed` variable | Code |
|---|---|
| `recorded` | the fixture's event counter; it retains the last `MaxHistory` events |
| `cursor` | `DeviceApi.cursor`, shared by the threads |
| `reader` | each thread's `events()` in progress: the cursor in its query, the range of the answer, the event it stores next, the cursor it loaded |
| `returned` | events some call has returned |

`self.cursor = max(self.cursor, sequence)` is two steps, `Load` and `Store`: Python may switch threads in between. `RunnerConnect` adds what is around the reads: `thread` (where each caller is in `connect()`, which devices it has confirmed, which SAS it has seen), the fixtures' `attempt`, `asked`, `confirmed`, `ready` and `inbound` (`_pendingHostVerifications`). `events` and `handed` are its `recorded` and `returned`. A thread bears the name of its source device, because IT-021 connects in both directions.

### RunnerSteps and the scenarios

A scenario is a sequence of steps written with the names of the Python code: `wait` (`Runner.wait`: poll until true or until the deadline), `check`, `if`, `window` (the stability windows), `note` (read a value to compare with later), `pick` (`next(...)` over the coordinators), `cmd`, `pair` (two commands from a thread pool) and `reraise` (the end of an `except` or `finally`). Each step names where it goes, and where a `RunnerFailure` or any other exception goes.

| Variable | Code |
|---|---|
| `unread` | per device, the retained events beyond `DeviceApi.cursor` |
| `since`, `missed` | history for `NoFlapOverlooked` |
| `scenario`, `pc`, `sample`, `open`, `chosen`, `raised`, `outcome` | control state of the Python thread: the step, the condition of the step sampled next, unfinished futures, the chosen coordinator, the exception in flight, how `run()` ended |
| `faults`, `late` | bound on faulty requests; commands the runner gave up on that have not run yet |
| `present`, `known`, `endpoints`, `attempts`, `conn`, `group`, `leading` (`RunnerFixture`) | the part of a fixture's snapshot the conditions read |
| `producer`, `totals`, `produced` (`RunnerTraffic`) | `_TrafficRun` of each fixture; what the runner adds up; history |
| `plan`, `results`, `exit`, `past`, `inflight`, `sends`, `received`, `before` (`RunnerSession`) | the command line, the report, the exit status; events a later Runner is handed again; messages under way; the scenario's counters |
| `path`, `near`, `blocked`, `inflight`, `delivered`, `stray`, `baseline`, `unanswered`, `leaked` (`RunnerRelay`) | the A-C connection of either end, the links to the relay, the test-only block, the messages of the exchange and others, `telemetry.messagesReceived` at the start of an exchange, history |

A request may be refused, may take effect and lose its answer, may take effect after the runner gave up, or may return a body that is not JSON (`crashed`: `DeviceApi.request` does not turn that into a `RunnerFailure`). The library is external here: connections, groups and coordinators change as they like within `MaxFlaps`.

## 3. Runs

| Run | Checks | Shows |
|---|---|---|
| `relay_table` | type, `OrderExact`, `MessagesExact`, `WithinLimits`, `HeadHandedOver`, `ReleasedWithVerdict` | any sequence of controller calls, with three peers, two ids and two payload sizes, keeps the bookkeeping exact |
| `relay_races` | `AckOnlyAfterDelivery`, `AcknowledgedInOrder`, `OneVerdictPerArrival`, `RetriesNeverRefilled` | the same with every fault at once: early ACKs, late frames, losses at any point, closes, departures, cancellation, loss of authority, repeated source hops; acknowledged operations of a pair stay in order unless an ordered one of the pair was admitted twice |
| `relay_settles` | `RelaySettles`, `HandleSettles` | ordered relays settle under losses and closes; acknowledged ones on stable links whatever timeouts fire |
| `relay_reorder` | `DeliveredInOrder` (violated) | three ordered sends of one pair, and a link lost twice, once while it carries a hop: an application receives a later operation before an earlier one |
| `early_ack` | `RelaySettles` (violated) | an ACK that overtakes the completion of the last write is swallowed |
| `gatt_backend` | type, `QueueExact`, `OneFrameAtATime`, `QueuedSizeExact`, `FramesWhole`, `ImplementsContract`, `EveryWriteAnswered` | three prioritised writes against refusals, failures, late events and close: exact queue, whole frames, the backend contract, and an answer for every write |
| `peer_link` | `AckedAtMostOnce`, `AcknowledgedIsHeld`, `OneTransmitter`, `DeadlineAfterSubmission`, `NoMixedGenerations`, `SilentAfterEnd`, `HandlesSettle` | two messages under losses, retransmissions, full queues, cancellation and close |
| `peer_priority` | `SequencesMonotone` (violated) | a bulk frame overtaken in the backend's queue is discarded by the receiver as a replay |
| `runner_relay` | `BlockOutlivesOnlyUnanswered`, `PassedMeansExchanged`, `PassedFallbackDelivers`, `RelayEnds` | IT-046 clears its partition unless a command about it went unanswered, passes only on delivered messages, and always ends |
| `runner_traffic` | `NoFlapOverlooked`, `PassedAccountsForAll`, `PassedLeavesQuiet`, `CrashNeedsCause` | the load scenarios overlook no lifecycle event they read, account for every message, and leave no producer behind |
| `runner_session` | `PassedMeansDelivered`, `EvidenceStillAhead`, `ExitMeansAllPassed` | stale evidence of the previous scenario proves nothing, the awaited event is not behind the cursor, the exit status is right |
| `runner_connect` | `FeedsKept`, `SasVerdictSound`, `NoAttemptLeftOpen` | one or two connecting threads implement `EventFeed`; a single caller's SAS verdict is right; a failed connect leaves no attempt open |

The violations disagree with sentences of `local_peer_connections_spec.md` or of the code's own comments, quoted under `findings` in `PROJECT.json`.

Other deviations are in the models and have no run of their own:

- The handle of a RELIABLE_ORDERED send by the coordinator's own application is never completed: the completion of a final hop is applied without the id of the local operation (`runtime.dart:6521`). `HandleSettles` is violated as soon as the scenarios of `relay_settles` contain such a send; they contain acknowledged ones only.
- An acknowledged relay whose first submission is cut off by a transport loss is never sent again: `_submitHop` throws before the hop enters `_ackHops` (`runtime.dart:6493`), although "after successful RESUME, retransmit the COMPLETE hop operation" (`local_peer_connections_spec.md:7156-7161`). Fault `lossInSubmission` with an acknowledged send.
- A source frame handled after its link left READY (`lateFrame`) leaves an admitted relay nobody forwards; a RESUME replay that exhausts the retry budget drops the hop without failing the relay (`lossInRetry`); a cancelled local send leaves its relay in the table (`cancel`); a link lost between replay and retransmission does the same.
- A completion is matched to a relay by its key alone (`runtime.dart:6561`), so that of an earlier admission also completes a later one of the same key. An ordered relay X whose link is lost twice while it is submitted is submitted by two replays; when the first has completed and the source hop of X arrives again, X is admitted behind A and B, and the completion of the second replay releases it from the middle of the order and hands the head A over again, to another handler than the one that is about to forward it. When A fails through one of them, B follows and reaches the destination; the other handler then still forwards A, behind B. `AcknowledgedInOrder` therefore excepts pairs with an ordered relay that was admitted twice.
- A repeated source hop during a reconnect of the destination reports DESTINATION_UNAVAILABLE for a relay that stays admitted (`group_relay.dart:92` before `:98`), although the coordinator must not "retain the operation after sending" that status (`local_peer_connections_spec.md:6935`).
- A RELIABLE_ACKED message is handed over after the await of its ACK write (`peer_connection_core.dart:736`), and a RELIABLE_ORDERED message sent after it overtakes it, although it is to be "ordered relative to other RELIABLE_ORDERED and RELIABLE_ACKED sends" (`local_peer_connections_spec.md:2075`).
- IT-046 passes when an unblock command failed, because the handler in its `finally` swallows the failure; an end then stays blocked, although the block "MUST be cleared after the scenario" (`local_peer_connections_spec.md:9187`). `BlockOutlivesOnlyUnanswered` names these as the only cases.
- A stability window looks at the clock after a sleep and not at the devices again (`device_integration_runner.py:829`): a connection that leaves READY after the last sample is not seen, although the fixture "MUST fail if a connection leaves READY even if it returns before the next sample" (`local_peer_connections_spec.md:8536`). `NoFlapOverlooked` holds because such an event is still unread.
- IT-032 compares counts of disjoint windows of the feed (`device_integration_runner.py:334`), each of which consumes the events it counts: the group adds no resource by this measure if it invokes the backend as often as the setup did, and a group that rightly invokes nothing fails the comparison if the setup did.
- `wait_for_event` drops the rest of the answer that held its match (`device_integration_runner.py:139`); IT-028, which waits for two events of one device, times out when one answer held both.
- In IT-021 with trust mode `sas` each thread consumes verification events of the other's attempt and may report a SAS mismatch that no device had.

## 4. Bounds

`relay_table`: two slots and three bytes per destination, so that the slot limit and the byte limit bind separately; two ids per source give pairs with a queued successor; the two members and the two ids are symmetric. `RelayRuntime`: `MaxArrivals` caps how often the hop of one operation arrives (two: one original, one repetition; every admission has a hop MessageId of its own); `MaxTasks` caps concurrent handlers (two: an event against one suspended handler; an event that finds no free slot waits); `scenario.losses` caps transport losses. `relay_races` has four scenarios: an ordered and an acknowledged send of one pair, from a member and from the coordinator itself; two acknowledged sends of one pair, which `AcknowledgedInOrder` is about; and a mixed pair whose ordered hop arrives twice. `MaxRetries` is the code's own constant. Two operations of one pair are enough for order, succession and re-admission; a third peer separates sources from destinations.

`gatt_backend`: three writes, of one or two fragments, in two priorities: a frame in submission, one it must not be interrupted by, and one that competes with the latter; the queue limit is below the sum of their sizes, so that a write is refused. `peer_link`: two messages in five scenarios (`MCPeerLink`), each with up to two losses or one loss and one refused write; two losses are what it takes to interrupt a replay by another loss and to use up the retry budget by RESUME alone, so that the next timeout gives up; two chunks are what it takes to be interrupted in the middle of a message. Sequence numbers and generations are bounded by the attempts. `peer_priority` needs no faults.

`runner_*`: the runner's loops are short and repeat; what matters is the order of a request, a fault and a change of the devices. `MaxFaults` (one; two in `runner_relay`) is how many requests go wrong, `MaxFlaps` (one) how often a link drops, an attempt fails or the coordinator moves by itself. `MaxHistory` stands for 1000: one or two make eviction happen. `Rounds` is two, enough for "all but one" to differ from "all". `runner_traffic` has two sizes, two messages on one device and one on the other, so that the totals of phases and devices differ. `runner_session` has eight command lines of two scenarios which cover all sixteen; `MaxInvokes` bounds backend log events. `MaxStray` (one) is a message the scenario did not send. In `runner_connect` the two devices are interchangeable.

## 5. Fairness

`FairSpec` assumes weak fairness of: every step of a running handler (the Dart event loop runs microtasks, and a platform write completes or fails), reception of a completed hop and of an ACK on a READY link, the ACK timer (a periodic 50 ms timer), and the end of reconnecting (RESUME succeeds or the grace period closes the link). There is no fairness for sends, losses, departures, cancellation or loss of authority.

`GattBackend` assumes that the platform answers a submission and reports the end of a write it accepted (callbacks of the Android Bluetooth stack), and that events reach Dart. `FairLinkSpec` of `PeerLink` assumes the event loop, completion of accepted writes (what `EveryWriteAnswered` shows of the GATT backend), arrival on an intact link, the ACK timer, that both sides notice a loss that one of them noticed, and that a reconnect succeeds in the end (a connection whose reconnect fails is closed, which `HandlesSettle` excepts). Losses, cancellation, full queues and close are never forced.

`RelaySpec` of `RunnerRelay` assumes weak fairness of the runner's own steps (the Python process goes on, every request returns or times out) and of the next poll, and strong fairness of `DeadlinePassed` and `WindowEnds`: a wait and a window look at the clock before every round, and the deadline is fixed when they start. It assumes nothing of the devices. The other runner modules state safety only.

## 6. Proofs

The first part of `RelayRuntimeProofs` is about `CoordinatorRelay`. It proves for every finite set of peers and ids, every payload size function and every limit, and for any sequence of calls:

- `RelayTypeCorrect`: `RelayTypeOK`;
- `RelayOrderExact`: `OrderExact`;
- `RelayMessagesExact`: `MessagesExact`;
- `RelayWithinLimits`: `WithinLimits`;
- `RelayHeadHandedOver`: `HeadHandedOver`;
- `RelayReleasedWithVerdict`: `ReleasedWithVerdict`.

The inductive invariant is the conjunction of `TableTypeOK`, `OrderExact`, `MessagesExact` and `WithinLimits`. Type correctness needs `OrderExact`: a completion takes the head of the order list and looks it up in `operations`, which yields an operation only if the list names nothing that is not admitted. `OrderExact` is preserved because `Release` removes the key from one list and from the map in one step. `MessagesExact` uses cardinality facts of the library: admission adds a key that was absent, release removes one that was present. `WithinLimits` needs only the admission guard and that releases never add. `HeadHandedOver` follows from `OrderExact` per action: a head changes only by an admission to an empty list or by the release of the former head. `ReleasedWithVerdict` names, per action, the actions value that carries the verdict of each released relay: the calls that release one relay return it, and a call that terminates a destination returns one value per relay it released. The constants are assumed as in `CoordinatorRelay` (the coordinator is a peer; sizes are naturals; at least one slot; finite sets; `None` is no value).

Its second part is about `RelayRuntime`. It proves for every group, workload, fault combination, bound and number of concurrent handlers:

- `RuntimeInvariant`: the inductive invariant below;
- `RuntimeImplementsRelay`: every behaviour of the runtime is one of the relay table, so that all theorems about `CoordinatorRelay` hold of the table inside the runtime;
- `RuntimeRetriesNeverRefilled`: `RetriesNeverRefilled`;
- `RuntimeAckOnlyAfterDelivery`: `AckOnlyAfterDelivery`;
- `RuntimeOneVerdictPerArrival`: `OneVerdictPerArrival`;
- `RuntimeAcknowledgedInOrder`: `AcknowledgedInOrder`.

`RuntimeInv` is the table's invariant, the types (`Shape`), what every suspended handler may rely on (`TasksOK`: among others, the actions it has yet to apply claim no delivery that did not happen), and `Honest`: an ACK under way or a delivery already reported is of an operation its destination has received. The claim is made when the destination answers and told several awaits later by another handler, hence the part about handlers. `OneVerdictPerArrival` is a ledger (`Accounted`): per operation, the outcomes told, those that running handlers owe, and the one a relay still in the table will produce never exceed the arrivals of its hop. Each action moves an item from one column to the next, because a call of the controller returns an outcome only for a relay it released.

`AcknowledgedInOrder` has an invariant of its own, `Routed` and `OrderInv`. `Routed` says that whatever is in the table, in a handler's hands, retained, on the wire or delivered is an operation of the workload and on the way to its own destination. `OrderInv` follows an acknowledged operation from its admission to its delivery. It is *active* while the relay may still transmit it for the first time (a handler holds it, a hop of it is retained, or one is being written and has not arrived), and *moving* from then on. The core is `Turns`: of two operations of a pair, the younger is not moving while the older is in the table or active. It is preserved because an active operation is the head of its order unless its destination is closed (`AckedHead`), at most one handler and one hop carry it (`AckedOne`), and a relay leaves the order from its head (`OrderedHead`, `TablePart`). So on the wire an older operation is in front of the younger (`WireOrder`), and one that was never received is not on it behind one that was (`Missed`); `Received` is the property itself. "Older" compares the last admissions in the log. The steps of the runtime are first shown to be of a few kinds (`OrderStep`: what a step does to the order lists, to the wire and to the work on one operation), and the invariant is preserved by each kind. Where an ordered operation is admitted twice, `OrderedHead` fails, and with it the property (section 3).

`GattBackendProofs` proves for every set of writes, priorities, sizes and queue limit, whatever the platform answers and whenever its events arrive:

- `GattInvariant`: the inductive invariant below;
- `GattQueueExact`: `QueueExact`, the queue holds exactly the unanswered writes, each once;
- `GattOneFrameAtATime`: `OneFrameAtATime`;
- `GattImplementsContract`: `ImplementsContract`, every step of the connection is a step of `BackendContract` or a stutter;
- `GattTypeCorrect`: `GattTypeOK`;
- `GattSizeCorrect`: `QueuedSizeExact`, and the size stays within the limit of the queue;
- `GattFramesWhole`: `FramesWhole`, what the remote reassembler holds is the beginning of one frame.

Its inductive invariant `GattInv` adds to the types of the Dart state four facts about the queue (a queued frame is pending; a pending write is queued; only the first frame has fragments submitted; frames of one priority stand in acceptance order), what a suspended drain loop knows (its frame is first, or the connection has failed), and that a failed connection has an empty queue. The refinement needs acceptance order within a priority, because the contract completes the first pending write of a priority and the code the first frame of the queue; it is preserved because moving a frame to the front passes only frames of other priorities. `OnlyFirstStarted` is what makes that move harmless: it happens only when no frame has been started.

`QueuedSizeExact` speaks of a sum over the queue, which is a recursive function of the length (`Total`). Its laws (appending, dropping the first, moving to the front) are proved from partial sums that are shown to exist by induction over the length; the induction is the library's principle of the least element of a set of naturals, instantiated with a set and not with an operator. `FramesWhole` needs `WireInv`: at most one fragment is outstanding and a drain loop waits for it (`OneOutstanding`); what is on the air and in the reassembler continues one frame after another (`StreamInv`); and while both ends agree on the link, the next fragment the receiver expects is the next one of the first frame of the queue, or the one after it when its acceptance has not reached Dart yet (`SubmissionInv`).

`PeerLinkProofs` proves for any number of messages and chunks, of losses, full queues and timer checks:

- `LinkTypeCorrect`: types;
- `AcknowledgedDeliveredOnce`: `AckedAtMostOnce`;
- `ReportIsTrue`: `AcknowledgedIsHeld`;
- `TransmittedByOne`: `OneTransmitter`;
- `DeadlineIsEarned`: `DeadlineAfterSubmission`;
- `GenerationsApart`: `NoMixedGenerations`;
- `EndsStaySilent`: `SilentAfterEnd`.

Its invariant has seven parts. `OneGeneration`: whatever is in the queue or on the wire is of the current generation, and a receiver that noticed the loss has nothing left of it. `HeldOnce`: whatever is or will be acknowledged is held, and what is held is in the duplicate filter. `RetentionExact`: retained operations, retention entries and handles agree. `TransmitterExact`: an operation is in the hands of its own first attempt, of the timer, of the replay or of nobody; the replay's remaining list counts as hands. `DeadlineConnected` and `PrefixSubmitted`: a deadline runs only on an intact transport on which every chunk has left the queue, so a task that sets it must know that the chunks before its current one have. `EndsAreSilent`: as long as no queue was full, only operations under way are retained.

`EventFeedProofs` proves for every set of threads and every history bound, `CursorSkipsNothing`: every event the shared cursor has passed was returned to some caller, is in an answer a thread is working through, or was evicted. Its inductive invariant `FeedInv` adds to the types and to `NothingSkipped` what it rests on (`ReaderInv`): everything up to the cursor a request carries, up to the cursor a thread has loaded, and in an answer before the event it stores next, is accounted for as well. Without it a store of a stale maximum could not be justified. A step only ever adds to what is accounted for, so each action is left with the values it writes.

`RunnerRelayProofs` proves for every number of exchange rounds, faulty requests and stray messages, however the devices change between two requests:

- `FriendRelayInvariant`: the inductive invariant below;
- `FriendRelayUnblocks`: `BlockOutlivesOnlyUnanswered`;
- `FriendRelayExchanged`: `PassedMeansExchanged`;
- `FriendRelayFallback`: `PassedFallbackDelivers`.

The scenario is data, a sequence of steps whose length depends on the number of rounds. The proof first computes it: which step stands at which position, and where it leads when its condition holds, when it fails and when it raises (`ScriptIs`, `Jumps`). The invariant then ties the position to the devices. `FlowInv`: an exception is in flight only in the steps that clear the partition, and no other step leaves the `try`. `BlockInv`: an end blocked by an answered command is ahead of its unblock command, and a command that may still run is unanswered. `GotInv`, `LeakInv`, `FallbackInv`: between two samples of a wait, what the first sample saw still holds, because the counters only grow (`CountInv`); past the wait both ends have the messages, on any path but one with an exception. `RelayScenario` assumes that the module's script is IT-046 with its three devices, which the configuration satisfies.

`RunnerTrafficProofs` proves for every number of phases and sizes, producer bounds and thresholds, faulty requests and flapping links:

- `TrafficInvariant`: the inductive invariant below;
- `TrafficNoFlapOverlooked`: `NoFlapOverlooked`;
- `TrafficCrashNeedsCause`: `CrashNeedsCause`;
- `TrafficLeavesQuiet`: `PassedLeavesQuiet`;
- `TrafficAccountsForAll`: `PassedAccountsForAll`.

The three scripts are computed place by place as that of IT-046 is. Those of the ramps repeat a group of steps per phase, so a place is either in the preamble, at some step of some phase, or after the last one (`Partition`). Induction over data is needed only to flatten the phases; it goes through the well-foundedness of the naturals, with the induction hypothesis as a set. The invariant has five parts. `FlowInv`: an exception in flight, the open commands of a pair and the sample fit the place. `FeedInv`: from the last drain on, every device that flapped has it among its unread events or has lost it to eviction; earlier, between the two drains of that step, the first device has. `CrashInv`: unless something flapped, a leader exists from the end of group formation on, so the search for it finds one (`GroupInv`). `LateInv`: a command the runner gave up on is harmless while the scenario can still pass; a start or stop that may still take effect means the scenario is about to fail. `ProducerInv` follows the producer of each device through a phase: started, stopped, added up. During a pair the two devices are at different points, each where its own command is (`RunsInv`). In IT-043 the totals plus the run not yet added up are what was produced (`LoadInv`), and in IT-044 only the chosen device publishes, and only between its start and the drain (`PubInv`). `TrafficScenario` assumes that the module's scripts are these three on two devices, `TrafficBounds` that there is at least one phase, as in the code.

`RunnerSessionProofs` proves for every set of command lines, number of rounds, faulty requests, flaps, backend log events and history bound:

- `SessionInvariant`: the inductive invariant below;
- `SessionDelivers`: `PassedMeansDelivered`;
- `SessionEvidenceAhead`: `EvidenceStillAhead`;
- `SessionExit`: `ExitMeansAllPassed`.

Sixteen scripts are too many to compute place by place. They are shown to be put together from fragments (`Piece`) in which every step is of one of a few kinds, and in which a message, or a pair of them, is followed by the steps that wait for exactly what was sent; joining two fragments gives one. The invariant relates the kind of the current step to the devices. `FlowInv`: an exception in flight, the open commands and the sample fit the step. `MatchedInv`: whatever is under way or unread among the evidence is *due*, that is, one of the things the current step and the next one wait for or the current pair has sent; no two messages under way look alike, and an event is not unread while its message is under way; conversely what is due is under way, unread, or evicted. That is why a scenario that passes, after which nothing is due, has left nothing under way, and why a wait finds its evidence. It holds of a feed only once the preflight has read it (`Read`): before, the feed may hold events of the scenario before. In IT-008, IT-009 and IT-017 the runner counts arrivals instead, and `CountInv` takes its place: received, unread and under way together are at most what was sent. `MainInv` is about the report and the exit status. `SessionScenario` assumes that the module's scripts are these scenarios on two devices and that a command line names at least one of them, as `--scenario` is a required argument.

`RunnerConnectProofs` proves for all devices, histories and both trust modes:

- `ConnectKeepsFeeds`: `FeedsKept`, every step of `connect()` is a step of `EventFeed` on each device or leaves its feed alone. It needs only the shape of `events`, `handed` and `reader` (`Shape`), because a step of one thread at one device leaves the feed of the other as it is;
- `ConnectSkipsNothing`: so `CursorSkipsNothing` carries over to either device, although the threads' stores interleave;
- `ConnectLeavesNothingOpen`: `NoAttemptLeftOpen`;
- `ConnectVerdictSound`: `SasVerdictSound`.

The last two rest on `ConnectInv`. `OwnOK` says of each thread that its attempt opens with its own command and is over when the thread has given up. `AloneOK` says of a thread without a rival that every event in either feed is about its own attempt, so that the SAS it compares is its own, that no end accepts before the thread has read the SAS there, and that an end is READY in trust mode `sas` only after both accepted. With a rival this fails, and so does the verdict (section 3).

## 7. Only model-checked

- All liveness (`RelaySettles`, `HandleSettles`, `EveryWriteAnswered`, `HandlesSettle`, `RelayEnds`): fairness and ENABLED are out of the prover's reach.
- The properties of the runs that expect a violation: they do not hold.

## 8. Plan

1. `CoordinatorRelay` with proofs, `RelayRuntime`: done.
2. `BackendContract`, `GattBackend` with proofs and refinement, `PeerLink`: done.
3. The integration runner and its fixture, with `EventFeed` and its proofs: done for two devices and IT-046.
4. Member half of routing (`RoutedSend`): `RoutedSendTable`, tombstones, reroute after a coordinator change, destination dedup; an abstract specification "an operation has at most one terminal state and is delivered at most once", refined by the composition with the coordinator. Hazards already seen: cancellation without signaling session ids, a routed entry left behind by a failed first hop, a router recreated on every view change, a member that becomes coordinator.
5. Election and heartbeat, membership snapshots (an await between check and commit), group session, leave and merge.
6. Runtime ownership and reconnect (duplicate-link arbitration, grace, backoff), handshake and resume; keepalive with a loss on an open backend; checkpoints; scheduler; stream backend against `BackendContract`; upgrade and UDP sidecar; mesh.
7. Theorems about the modelled parts: every invariant and action property of a passing run is proved; next, with their models, the invariants of routing and of snapshots.

## 9. Not modelled

Codecs and validators are stateless byte layouts covered by unit tests; the values they carry are the models' messages. Cryptography is taken as perfect. The native plugins, apart from the write path of the Android one, are the environment of the backend: their asynchronous completions appear as nondeterministic events. `device_test_client.py` is a stateless command line client, `main.dart` a user interface over the fixture's state.

Left out of modelled parts. `GattBackend`: the 5 s reassembly timeout, the limit of the reassembly buffer, and the 32-event buffer before a listener is attached; a platform that refuses a write although none is in flight sends no event that would restart the drain loop, and `EveryWriteAnswered` excepts it. `PeerLink`: keepalive, realtime datagrams, control frames and checkpoints of the same core; a loss detected while the backend is open; a full queue at the receiver; the 10 s reassembly expiry; the capacities of the duplicate filter (16384), of the retention set (1024) and of the sequence window (1024); messages buffered before the first listener; the negotiation inside RESUME. After `sendQueueFull` a failed message stays retained and is transmitted after the next RESUME, and a retransmission that met it waits for that RESUME; both are in the model, and `SilentAfterEnd` and `HandlesSettle` except them. `CoordinatorRelay` and `RelayRuntime`: priorities, message bytes other than their size and identity. The total of reserved bytes is checked against its limit (`WithinLimits`), not against the sum it stands for.

The runner: the bodies of the star (1296-1312) and three-peer payload (1357-1383) scenarios need three connected devices and are left out, their `ScenarioBlocked` exit is modelled; IT-046 is the one scenario for three. Message sizes, digests and the wording of reports and telemetry lines are left out, because within a scenario the type of an event and its device tell the messages apart. Durations are left out: a wait may end at any round, a producer sends as often as it likes. `RunnerFixture` trusts on first use; SAS verification is in `RunnerConnect`, where a connection that is READY stays so and a connect command that arrives after the runner gave up is one whose answer was lost. Producers and deliveries act only where their effect is read, and the devices stop with the runner.
