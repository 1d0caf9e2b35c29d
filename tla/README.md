# Verification of SmallDataSync for ESP

SmallDataSync keeps small objects ("synchronizables") of a handful of
microcontrollers in step over UDP: the nodes of a *group* find each other with
mDNS, send their own objects to the others whenever the application calls
`synchronize`, and keep a copy of everybody else's. This directory holds TLA+
specifications of that library (`src/src`), the TLC configurations that check
them on small instances, and proofs that TLAPS checks for every value of the
constants.

Contents: [the system](#the-system), [modules](#the-modules),
[runs](#what-the-runs-check), [proofs](#what-is-proved),
[findings](#where-code-and-comments-disagree),
[what is not modelled](#what-is-not-modelled), [plan](#plan).

## The system

One node runs one `Synchronizer`, which owns one `NetworkHandler` and one
`MDNSHandler`. Nothing is concurrent inside a node: a main loop calls
`heartbeat` (receive one packet) and `on_100_ms_passed` (the tick); the
application calls the rest in between. All the concurrency is between nodes,
between a node and the network, and between the calls of the application and
the ticks. Callbacks run synchronously, in the middle of the handler that
makes them.

| component | state | operations |
| --- | --- | --- |
| `NetworkHandler` | `active_messages` (message, id, retries left), `next_active_message_id` (24 bits), `time_in_deciseconds` (32 bits), `message_reception_times` ((endpoint, id) -> time), the maximum reception time, the UDP interface | `send_message`, `cancel_active_messages`, `heartbeat`, `on_100_ms_passed`, `set_udp_interface`, `set_max_message_reception_time_in_deciseconds`, `set_default_data_format`, `set_delegate` |
| `MDNSHandler` | `is_mdns_running`, hostname, group name, `time_between_scans`, `time_until_next_scan`, `scan_duration`, `time_until_commit`, `is_performing_scan`, the answers of the current scan | `init`, `set_hostname`, `set_group_name`, `set_time_between_scans`, `set_scan_duration`, `perform_service_query_now`, `on_100_ms_passed` |
| `Synchronizer` | `endpoint_to_synchronizables` (the copies), `endpoint_to_endpoint_info`, `own_synchronizables`, the group's name and its CRC-32 | `synchronize`, `add_endpoint`, `remove_endpoint`, `set_group_name`, `handle_synchronization_message`, `perform_initial_synchronization`, `request_initial_synchronization`, `set_endpoint_info`, and what it forwards to the other two |
| `NetworkHandlerDelegateImpl` | none | `on_message_received`: dispatches `sync`, `dereg`, `req_init_sync` |
| network messages | endpoint, name | `to_data_object` (at every transmission), the outcome callbacks, `get_info` for cancellations |
| `MessageType`, `DataFormat` | none | conversions to and from strings and format bytes |
| `DataObject`, `JsonCodec`, `MsgPackCodec` | a tree of values | building, reading, encoding, decoding |
| CRC-32, json11, msgpack11 | none | third-party code behind the codecs and the group hash |
| `UDPInterface`, `MDNSInterface`, `Synchronizable` | implemented by the application | |

How they interact. `Synchronizer` hands `SynchronizationMessage`s,
`RequestInitialSynchronizationMessage`s and `DeregistrationMessage`s to the
`NetworkHandler`. That one asks a message for its content for *every*
transmission, so group and value are read again by each repetition, and tells it
one of three outcomes; a `SynchronizationMessage` that failed calls
`remove_endpoint`. Received messages reach the `Synchronizer` through
`NetworkHandlerDelegateImpl`. The `MDNSHandler` calls
`perform_initial_synchronization` and `request_initial_synchronization` for each
new endpoint when it commits a scan.

What is hard here:

* **delivery**: packets are lost, duplicated, delayed and reordered by UDP; a
  message is repeated until an acknowledgement that names nothing but an id;
  whether it was handled before is decided from a memory that is purged by a
  clock that wraps around, every 16 ticks;
* **timeouts against late answers**: a message fails in the very call that sends
  it for the last time;
* **reboots**, which take a sender's ids back to 0 and empty a receiver's memory,
  and which may come after a message was acknowledged and before it is delivered;
* **cancellations**: three different operations cancel pending messages by a
  filter that looks at the object and not at the endpoint;
* **content read late**: a message is sent for one group and repeated with the
  next, while its format stays the one it was first sent in;
* **two formats** with lengths, depths, escapes and numbers of their own, read by
  whoever gets the packet, truncated or foreign packets among them;
* **unsigned countdowns** decremented before they are compared with 0, and
  setters that change them while they run;
* **discovery**: endpoints are found, removed when a message fails, and have to be
  found again.

What makes each component correct:

* `NetworkHandler`: at most one delivery per message, exactly one outcome, success
  only if delivered (or cut off by a reboot of the receiver), a bounded number of
  transmissions, a memory of receptions that does not grow, an outcome in the end;
* `MDNSHandler`: countdowns that never wrap, scans and pauses that are over on
  time whatever the application calls, no query left behind, scans for ever;
* `Synchronizer`: no data of another group, no update dropped on the way, every
  update seen by its receivers in the end, every node of the group is found, the
  two maps agree, a bounded number of active messages;
* formats: whatever is said is understood as it was said, or not at all; nothing
  else is ever heard; groups are told apart by their hashes.

`PROJECT.json` lists the hazards with the line where each bites and the
properties that watch it.

## The modules

| module | content |
| --- | --- |
| `Transport` | abstract: what a `NetworkHandler` promises to the layers above |
| `NetworkHandler` | the `NetworkHandler`s of several endpoints and the UDP network between them |
| `MCNetworkHandler` | instances for TLC |
| `NetworkHandlerProofs` | type correctness and at most one delivery |
| `TransportProofs` | what success means; `NetworkHandler` implements `Transport`, through reboots of others too |
| `BoundsProofs` | the budget of transmissions and the memory of receptions |
| `MDNSHandler` | the advertisement and the scan schedule of one node |
| `MCMDNSHandler` | the property the query-now run refutes |
| `ScanCycle` | abstract: what the scans of a `MDNSHandler` promise to the `Synchronizer` |
| `MDNSHandlerProofs` | the four invariants of the schedule; `MDNSHandler` implements `ScanCycle` |
| `Synchronizer` | the `Synchronizer`s of several nodes over a network as `Transport` promises it |
| `MCSynchronizer` | instances for TLC, and the claims that the deregistration and the reordering run refute |
| `SynchronizerProofs` | the four invariants of `Synchronizer` that hold on any network |
| `UpdatesProofs` | no update is dropped between two nodes |
| `Layers` | `Synchronizer`, with a record of what becomes of each message, against `Transport` |
| `MCLayers` | the instance for TLC |
| `LayersProofs` | the messages of `Synchronizer` are sent, delivered and given up as `Transport` has it |
| `DataObject` | the values messages consist of and their conversions |
| `DataTrees` | comparison of values, and what else goes through all their parts |
| `Json`, `MsgPack` | the two codecs: writer and parser as operators on values |
| `Codecs` | the two codecs as `Packets` is given them |
| `CRC32` | the hash of a group's name, bit by bit |
| `Wire` | abstract: messages said, heard at most once, confirmed |
| `Packets` | a sender, a receiver and the packets between them, from the data of a synchronizable to the bytes and back, for any two codecs |
| `PacketsProofs` | the invariants of `Packets`; it implements `Wire` |
| `MCPackets` | the values, groups and foreign packets of the instance, and the check value of the CRC-32 |

`NetworkHandler` implements `Transport` (property `ImplementsTransport`, by
`INSTANCE` with the history variables `status` and `received`), and
`Synchronizer` is built on what `Transport` promises, instead of on ids and
acknowledgements. That this is so is shown by `Layers`, which instantiates
`Transport` once more, for each message of `Synchronizer`.
`MDNSHandler` implements `ScanCycle` (property
`ImplementsScanCycle`), the alternation of scans and pauses from which
`Synchronizer` takes its actions `StartScan` and `CommitScanResults`. `Packets`
implements `Wire` (property `ImplementsWire`): packets in any format, cut short
or not, amount to the decoded messages `NetworkHandler` exchanges. Operators
marked `\* mutant` are deliberate bugs that `PROJECT.json` names; no
specification uses them.

### NetworkHandler

Each member is a variable indexed by endpoint, under its name in the code.
`SendMessage`, `CancelActiveMessages`, `On100MsPassed`, `ReceiveAck`,
`ReceiveMessage`, `SetUdpInterface` and `SetMaxMessageReceptionTime` are whole
handlers: `On100MsPassed` sends every active message again, decrements and
discards, advances the time and purges. `On100MsPassedThrows` is the path on
which `send_active_message` throws for want of an interface: the time has
advanced, nothing else has happened. `SendMessage` without an interface
throws too, but the message stays queued with its id used up. `SetUdpInterface`
gives an endpoint an interface or, if it is `Interruptible`, takes it away again;
`interrupted` remembers that.
`network` maps packets in flight to the number of 100 ms
boundaries they can still outlive; a packet in it may be received any number of
times or never, which is loss, duplication, delay and reordering in one.
`status`, `received` and `transmissions` record callbacks and packets.

`Restart` is a reboot between two calls. A device may also reboot in the middle of
one, and `handle_decoded_message` is where the others can tell: the
acknowledgement leaves first (`NetworkHandler.cpp:250`), the delegate is called
last (`:263`). `RestartWhileReceiving` sends the acknowledgement and reboots, and
`cut_off` remembers the message, which its sender will take for delivered. For
every other handler that a reboot cuts short the two steps of the model are
enough: what it has changed in memory is lost at once, so the rest of the world
sees the whole handler, followed by a reboot, with those of its packets lost that
it did not come to send; and any packet may be lost. Without a reboot a node is
single-threaded, so nothing of it is seen between the acknowledgement and the
delivery, and `ReceiveMessage` is one step.

Assumptions, each named in the module:

* `NextIdIsFree`: the 2^24 ids do not wrap around to one still in use. With one
  message per tick a wrap takes 19 days, the longest use of an id a bit over a
  minute. After a reboot only the endpoint's own messages are sure to be clear
  of the next id, and the model lets all the others collide.
* `RetentionAssumption`: receptions are remembered for longer than the last
  repetition of their message can be in flight: `Retries + PacketLifetime + 1`
  ticks. In the code 600 against 100 retries; the runs use the smallest values
  allowed, and the proof shows that they suffice.
* `on_100_ms_passed` is called once per endpoint and period, as its comment asks
  (`ticked`, `PeriodEnds`): clocks do not drift by a tick or more.
* A packet outlives at most `PacketLifetime` boundaries.
* `TimeMod % ExpiryPeriod = 0`, which 2^32 and 16 satisfy.

### MDNSHandler

`Decremented` is the unsigned decrement, so a countdown at 0 wraps to
`UIntMod - 1`; it does after a setter is called with 0, and the history variable
`zero_period_set` marks those runs. `ScanTick` and `PauseTick` are
`on_100_ms_passed` in the two states, with `StartScan` and `StopScan` as their
ends. `StartMDNS` has `SetupServiceTexts == FALSE`, because
`setup_service_texts` returns `false`: the service is advertised but
`is_mdns_running` stays false, and a changed group is never advertised.
The answers of the mDNS library to `begin`, `add_service` and `close` are
arbitrary. What a commit tells the `Synchronizer` is in `Synchronizer`.

### Synchronizer

`endpoint_to_synchronizables[n]` maps the endpoints `n` knows to their copies
(`Known(n)` is its domain); a copy is the sender's version number and, as history,
the group the packet was sent to. `CommitScanResults` commits the answers one new
endpoint after the other; each `perform_initial_synchronization` cancels what the
previous one sent, so only the messages to the last one stay active, although each
was transmitted once. `HandleSynchronizationMessage` and `HandleRequest` are the
two branches of `on_message_received` that can be reached. A node is never an
answer to its own query (`Advertisers`): `commit_scan_results` adds whatever the
interface returns, and the simulator of the repository's tests leaves the querying
service out (`test/utils.h:382`); on an interface that did not, a node would add
itself. A message is identified by type, endpoints, name and the number of the
step that sent it; `PacketOf` reads group and version when it is called, for every
repetition. Two history variables, both back at 0 as soon as one of two nodes
forgets the other: `owed` is the version `synchronize` last sent to an endpoint,
`seen` the newest the copy there has shown.

The application may also call `add_endpoint`, `remove_endpoint`,
`set_endpoint_info`, `deregister_all_endpoints`,
`perform_initial_synchronization` and
`request_initial_synchronization_from_endpoint` about other endpoints at any
time (`Call...`, at most `MaxCalls` in all). Of an endpoint's info only matters
whether it has been given (by a scan or by the application) or is the empty one
of `add_endpoint`.

From `Transport` the module takes that a message is accepted at most once
(`handled`), at any time, also after it failed or was cancelled, and that success
implies acceptance (`arrived`). Packets arrive in any order; with `Lossy` some
never do.

`Restart` is a reboot: copies, infos, messages, the memory of what was handled and
the group set since are gone; the application's objects, what others keep and the
packets under way are not. After it a node numbers its messages from 0, and the
receiver, which remembers the earlier ones, may take a message for handled
(`Ignore`), or an old acknowledgement may settle it (`OnSendSucceeded` of a
message that has not arrived). `Transport` makes no promise to a sender that has
rebooted, so both are left open for all its messages (`Mistakable`). A receiver
that has rebooted accepts a repetition again. `RestartWhileReceiving` is the
reboot between acknowledgement and delivery, as in `NetworkHandler`: the message
counts as `arrived`, and the copies never got it.

### Layers

`Synchronizer` drops a message as soon as nothing depends on it any more, so it
has no variable for what `Transport` speaks of. `Layers` adds two history
variables to its actions, which no guard reads: what the sender was told of a
message (`status`, by the callbacks of `NetworkMessage`) and how often the
receiver's delegate got it (`received`). `Recorded` sets them from what the step
did to `active_messages` and from the message it delivered. Followed are the
messages of senders that have not rebooted yet, as in `PromiseOutlivesReboots` of
`NetworkHandler`; a message that a rebooted receiver gets once more counts once,
and so does one whose reception a reboot cut off.

The two properties meet in the middle. `UsesTransport`: each message only takes
steps of `Transport`, so the model of a `Synchronizer` never hands a message over
twice, delivers one twice or confirms one that was not received.
`NothingWithheld`: nor is its network kinder than `Transport` where it would
matter; a message that is waited for may still fail or succeed, and one that was
superseded, cancelled or given up may still arrive, so what is proved of
`Synchronizer` does not rest on more than `NetworkHandler` promises.

Assumptions: nodes are set up before the start, and again by a reboot, and have an
mDNS and a UDP interface; a group is the CRC-32 of its name, as the code never
uses anything else; the hostname does not change; the application makes no calls
about the node's own endpoint.

### Packets, data objects and codecs

`NetworkHandler` takes a packet for the array it decodes to. `Packets` justifies
that: `SendMessage` and `SendActiveMessages` ask for the content, wrap it
(`PacketObject`), encode it in the format the message got when it was handed
over and put the format byte in front; `Received` is `handle_packet_reception`
and `handle_decoded_message` with every early return, in their order;
`ReceiveMessage` acknowledges in the format of the packet and calls the delegate,
whose checks on the data are `CopyAfter`. What arrives is any packet sent so far,
any beginning of one, and the foreign packets `Strays`.

What a codec makes of a value is a parameter of `Packets` (`JsonEncode` and the
others), so that the module has no recursion in it and can be proved about;
`Codecs` has the values of these parameters. `CodecsAgree` states what `Packets`
needs of them, and the run checks it for the two codecs of the library: everything
that is written is taken back, in the format's own terms, unless it is nested too
deeply; no beginning of a text is a text; foreign packets are not understood; and
the hash of the receiver's group is its own.

A data object (`DataObject`) is a pair of kind and content. Numbers are
counted in halves, so that rounding to ids and hashes is visible, and `NaN` and
`Inf` stand for the doubles that are not finite. `Json` and `MsgPack` have a
writer and a recursive parser each, with the depth limit, the forms of each
length and the failure paths of json11 and msgpack11 as far as the two codecs
use them. A JSON text is a sequence of characters, numbers and literals; a
MessagePack text one of bytes, in which a number and a symbol of a string are
one element each. A truncation can therefore not fall within a number.

`CRC32` has width and polynomial as parameters. `MCPackets` evaluates the real
ones on the published check value, the digits 1 to 9; the groups of the run use a
width of 8.

## What the runs check

| run | instance | checks | result |
| --- | --- | --- | --- |
| `NetworkHandler_reuse` | two messages, one after the other with the only id, clock modulo 12, two reception times, the receiver's interface comes and goes | `TypeOK`, `AtMostOnce`, `ReceptionMemoryBounded`, `ImplementsTransport`, `EventuallySettled` | holds |
| `NetworkHandler_reboot` | two messages with 0 and 1 retries, two ids, clock modulo 4, each endpoint may reboot once, also in the middle of a reception | `AtMostOnce`, `SuccessMeansDelivered`, `RetryBudget`, `PromiseOutlivesReboots` | holds |
| `MDNSHandler_schedule` | unsigned ints modulo 8, setters with 0, 1, 3 and 5 | `TypeOK`, `CountdownsRun`, `PhaseEndsOnTime`, `NoQueryBetweenScans`, `ScansForEver`, `ImplementsScanCycle` | holds |
| `MDNSHandler_querynow` | the same | `QueryNowIsHonoured` | refuted |
| `Synchronizer_groups` | two nodes, two groups, one call of the application, one reboot, no order between packets | `TypeOK`, `KnownHaveInfo`, `OwnGroupDataOnly`, `OneSyncPerName` | holds |
| `Synchronizer_updates` | two nodes, packets lost and reordered | `NoUpdateDropped`, `UpdatesAreSeen` | holds |
| `Synchronizer_reordered` | two nodes, packets reordered | `UpdatesArrive` | refuted |
| `Synchronizer_found` | two nodes, one changes groups and reboots, one failure | `EveryoneIsFound` | holds |
| `Synchronizer_transport` | two nodes, one with an object, which changes groups and reboots, one failure, no order between packets | `NothingWithheld`, `UsesTransport` | holds |
| `Synchronizer_bystander` | three nodes | `NoUpdateDropped` | refuted |
| `Synchronizer_dereg` | two nodes, two groups | `LeaversAreForgotten` | refuted |
| `Packets_formats` | two messages of any type, six values, two groups, both formats, one change of format, group or data | `TypeOK`, `UnderstoodAsSaid`, `TruncatedIsIgnored`, `EqualsIsIdentity`, `GroupsKeptApart`, `CodecsAgree`, `ImplementsWire` | holds |

Every property of a run that holds has a mutant: the same run on a module with
one definition replaced by a plausible bug refutes it.

### The bounds, and why they are enough

* *Endpoints*: two, because handlers only ever look at the pair of sender and
  receiver; three where an operation of one pair disturbs another, which is the
  bystander run. The proofs hold for any number.
* *Messages and ids*: an id space smaller than the number of messages makes
  every reuse happen that `NextIdIsFree` allows; a reboot of the sender lets a new
  message meet the acknowledgements and the memory of an old one with its id.
  Messages in both directions and of the type `dereg` are in no run of
  `NetworkHandler`; the proofs hold for them too.
* *Clock*: with `TimeMod` 4 or 12 and `ExpiryPeriod` 2 receptions are recorded
  before and purged after the wrap-around. Reception times are the smallest
  allowed, so an entry is purged as early as it can be.
* *Retries*: 0, 1 and 2 are the values around the `<= 1` of the code.
* `UIntMod` 8 with periods up to 5 lets a countdown wrap and run down again.
* `MaxChanges`, `MaxSends`, `MaxFailures`, `MaxCalls` and `MaxRestarts` bound
  versions, steps of the application that send, failed messages, calls about
  endpoints and reboots. In `Synchronizer_updates` four sending steps let updates,
  a scan and a request cancel each other's messages in every order, while each of
  their packets may be late or lost. In `Synchronizer_groups` each node sends
  once, a call may remove an endpoint, send or deregister at any point and the
  reboot of the sender takes its group back: that is enough for data of either
  group to be under way to a node in the other. In `Synchronizer_found` three
  sending steps let the node find an endpoint, leave its group and come back, and
  the failure and the reboot may come anywhere between (what the copies say does
  not matter there, and the container is empty). In `Synchronizer_transport` one
  sending step of each node is enough for a message to be superseded, cancelled,
  given up or lost with its sender while its packets are under way.
* *Formats*: lengths take a longer form above 0, 1 and 1 digit of base 2, so that
  every form occurs with short values; the depth limit is 5 and the values reach
  below, at and above it inside their packets; each kind of value, each kind of
  escape and each early return of the parsers has a value or a foreign packet.
  Two messages are enough for one format, group or datum to change between
  them and between the repetitions of one.

Because of the bounds the instances of `Synchronizer`, `Layers` and `Packets` may
stop, and their configurations turn the deadlock check off; the others never stop.

### Fairness

* `NetworkHandler`: weak fairness of the tick of each endpoint and of
  `PeriodEnds`: the main loop runs for ever and time passes. Nothing is assumed
  of the network: a message whose packets are all lost fails.
* `MDNSHandler`: weak fairness of the tick.
* `Synchronizer`, `Scanning`: `StartScan` is weakly fair, since `MDNSHandler`
  scans for ever (`ScansForEver`); committing a scan that everyone answered is
  strongly fair: answers are not lost in every single scan.
* `Synchronizer`, `Transmission`: repetitions are weakly fair (the tick), and
  receiving a packet of a type from one node at another is strongly fair: a link
  over which packets are sent again and again is not dead for ever. Failure after
  `max_retries` is not fair; it happens `MaxFailures` times at most.
* `NoUpdateDropped` and `UpdatesAreSeen` speak of an update until one of the two
  nodes forgets the other, and of senders that have not rebooted. A node that
  has forgotten another, because a message about it failed, because it rebooted
  or because its application says so, asks for the data again once; if that
  request fails, or if it learns of the other from a message about some other
  object, the update is gone until the next one. The code has no remedy and
  promises none.
* That the copy *has shown* an update is the most a network allows that reorders.
  That it still *shows* it, or a later one, is `UpdatesArrive`, which the run
  `Synchronizer_reordered` refutes.

## What is proved

All for every value of the constants that satisfies the named assumptions.

| theorem | module | property |
| --- | --- | --- |
| `TypeCorrect` | `NetworkHandlerProofs` | `TypeOK` |
| `DeliveredAtMostOnce` | `NetworkHandlerProofs` | `AtMostOnce` |
| `SuccessIsTrue` | `TransportProofs` | `SuccessMeansDelivered` |
| `TransportImplemented` | `TransportProofs` | `ImplementsTransport`, if nothing reboots and no sender is `Interruptible` |
| `PromiseOutlives` | `TransportProofs` | `PromiseOutlivesReboots` |
| `BudgetKept` | `BoundsProofs` | `RetryBudget` |
| `ReceptionsForgotten` | `BoundsProofs` | `ReceptionMemoryBounded` |
| `TypeCorrect` | `MDNSHandlerProofs` | `TypeOK` |
| `NoWrapAround` | `MDNSHandlerProofs` | `CountdownsRun` |
| `NothingIsPutOff` | `MDNSHandlerProofs` | `PhaseEndsOnTime` |
| `QueriesAreRemoved` | `MDNSHandlerProofs` | `NoQueryBetweenScans` |
| `ScansTakeTurns` | `MDNSHandlerProofs` | `ImplementsScanCycle` |
| `TypeCorrect` | `SynchronizerProofs` | `TypeOK` |
| `MapsStayTogether` | `SynchronizerProofs` | `KnownHaveInfo` |
| `NoForeignData` | `SynchronizerProofs` | `OwnGroupDataOnly` |
| `OneMessagePerObject` | `SynchronizerProofs` | `OneSyncPerName` |
| `UpdatesSurvive` | `UpdatesProofs` | `NoUpdateDropped`, if there are two nodes |
| `LayersFit` | `LayersProofs` | `UsesTransport` |
| `TransportIsNotKind` | `LayersProofs` | `NothingWithheld` |
| `PacketsTypeCorrect` | `PacketsProofs` | `TypeOK`, if `ReliableCodecs` |
| `GroupsStayApart` | `PacketsProofs` | `GroupsKeptApart`, if `ReliableCodecs` |
| `AllIsUnderstood` | `PacketsProofs` | `UnderstoodAsSaid`, if `ReliableCodecs` |
| `TruncationIsHarmless` | `PacketsProofs` | `TruncatedIsIgnored`, if `ReliableCodecs` |
| `PacketsAreAWire` | `PacketsProofs` | `ImplementsWire`, if `ReliableCodecs` |

**At most one delivery.** `AtMostOnce` is not inductive: nothing in it keeps a
delivered message from arriving again after its reception was purged. The
invariant `DeliveryInv == Bookkeeping /\ DeliveryBounded` adds that a message
which has been delivered as often as allowed is *protected*: its receiver
remembers it, and the age of the memory, plus the number of ticks for which a
packet of it can still be in flight or its sender can still repeat it, plus 1 if
the receiver is still to tick in this period, is at most `Retries + PacketLifetime
+ 1` (`Remembered`). A tick of the receiver makes the memory older and uses up its
tick to come; a tick of the sender uses up a repetition; the end of a period gives
the ticks back and makes every packet one boundary older. The sum never grows, and
`RetentionAssumption` says that the memory is purged at no smaller age.
`Bookkeeping` adds what connects messages, ids and packets: a message is active
once, keeps its id, and is pending while active; packets belong to messages that
were handed over. A reboot of the receiver loses the memory and raises the bound
by one. A sender whose interface is taken away throws at every tick and uses up no
repetition, so it may repeat a message after any time; its messages are excepted
(`interrupted`). `NextIdIsFree` is not needed for this theorem: a message that
collides with a remembered id is lost, not delivered twice.

**What success means.** An acknowledgement names an id and nothing else. The
invariant `TransportInv` says what makes it true, for a sender that has never
rebooted: an id stands for one message at a time, the one that an active
message or a data packet with that id carries (`OneMeaning`), and whatever an
endpoint could take for its reception, an acknowledgement in flight or an
entry in a receiver's memory, exists only if it was delivered or cut off
(`EvidenceTrue`, `Heard`). A reception is cut off by a reboot of its receiver and
by nothing else (`CutOffByReboot`): without that reboot, success means delivery.
The memory matters because a reception found there is acknowledged without a
delivery. A send keeps both because the next id is free; this is the only place
where `NextIdIsFree` is needed.

**The refinement.** `DeliveryInv` and `TransportInv` say about each handler which
abstract step it is: a reception delivers or repeats, an acknowledgement confirms
a delivered message, a tick fails the ones it discards. A reboot loses messages
without an outcome, which `Transport` does not allow, so the theorem assumes that
there are none; the two invariants hold with reboots too. `PromiseOutlives` says
what is left of the promise then: `Transport` is instantiated for each message by
itself (`PromiseAbout`), and whoever reboots, the messages of a sender that has
not done so take only its steps (`PromisedStep`). A reboot of the sender ends the
promise; one of the receiver allows a repetition to be delivered once more, which
counts as the same delivery, and may cut a reception off, which counts as one too
(`Accepted`): the sender cannot tell, and this is what the protocol really
promises about such a message.

**The bounds.** `BudgetInv`: what an active message has been sent and what it will
still be sent add up to its budget or one more (one less transmission if there
was no interface at first). `MemoryInv`: an entry is no older than a maximum
plus the remainder of the clock by the period. A purge leaves nothing older than
the maximum; any other tick adds one to both sides; and the clock wraps around
to 0, where there is a purge. A tick that throws purges nothing, which is
harmless since an endpoint that never had an interface has received nothing
(`NothingWithoutInterface`). One whose interface was taken away may remember
something and not purge it while it has messages to send; the theorem excepts it.

**The schedule.** `ScheduleInv` strengthens `CountdownsRun` and
`PhaseEndsOnTime` with `PeriodsPositive`: the two periods are positive unless a
setter was called with 0. That is what makes a fresh countdown positive, and so
what makes the decrement safe (`DecrementedType`). Each action has a step lemma.
`ScanCycleStep` says which abstract step each action is: the last tick of a
countdown starts or commits, what advertises the service or renames the group
changes the group or loses the query, and every other call is a stutter.

**The copies and the messages.** `SynchronizerInv` is `CopiesInv` (what a node
keeps: the form of the copies, their groups, the infos), `SettingsType` and
`MessagesInv` (what is under way). Besides the properties it says that no message
is sent to its own sender, from which follows that no node keeps copies of
itself, and that a synchronization message names an object. The key of
`OneSyncPerName` is `ReplacedMessages`: each of the operations that send
synchronization messages, the application's own call among them, cancels those of
the same objects first. A reboot (`RestartStep`) only takes away
(`ClearedStep`, `FewerMessages`), wherever it comes.

**No update dropped.** `NoUpdateDropped` says of each update that a node
synchronized, until one of the two forgets the other, that the copy has shown it
or a message about the object is still active and yet to be handled. It is no
invariant of every system: `Synchronizer_bystander` refutes it for three nodes,
where a cancellation meant for one takes the message to another away. For two it
holds whatever else happens (`UpdatesSurvive`): groups, objects, changes, scans,
requests, calls, failures and reboots in any number, and a network that loses,
delays and reorders. The invariant `UpdateInv` adds why the active message is good
enough (`Kept`): every packet of it carries at least what is owed, and the group
the sender is in (`Says`), because it was sent when or after the update was
synchronized, and a change of the group forgets everyone; and it has not been
acknowledged by a receiver that a reboot kept from handling it, because such a
reboot forgets the sender. `Numbered` keeps a new message apart from those
remembered. Two operations are delicate: `synchronize` and the initial
synchronization cancel the active message and put one about the same object in its
place.

**The layers.** `LayersInv` adds to `SynchronizerInv` that the record of a message
agrees with what its sender (`StatusAgrees`), its receiver (`ReceivedAgrees`) and
the network (`StillUnderWay`) remember of it. Every action is summed up in
`MessagesStep(M, D)`, by the messages `M` it sends, of which it may have
cancelled some by its end, and those it delivers, `D`; `HistoryStep` and
`PromiseStep` need no more than that. Three things matter. A message is new
when it is sent: its number is the sender's count of sending steps, which a reboot
does not take back in the model (`OldMessage`). A message is delivered only if its
receiver does not remember it (`DeliveryIsFirst`), and it is remembered as long as
it can come again. And it is confirmed only if it has arrived, unless its sender
has rebooted. The answer to a request, which delivers one message, cancels others
and sends new ones, is one step for each of them.

**Packets.** The hypothesis `ReliableCodecs` is what `CodecsAgree` says, for all
the data, groups and ids that may be sent, and that an unsigned int has room
for the ids. It speaks of one value and one text at a time, and cannot be proved
here, since writers and parsers are recursive: the run checks it on
its values. The theorems say what follows for every behaviour, with any number of
messages, repetitions, groups, formats and changes between the repetitions.
`PacketsInv` says where everything on the network comes from: what was said is a
`SayingOf` some group and data of the past (`SaidIsSound`), a packet to the
receiver is one of those and a packet to the sender acknowledges something
heard (`PacketsAreSound`), what was heard was said, and the ids remembered are
those of what was heard (`HeardIsSound`). So a packet that arrives is either
ignored, because it is a beginning or foreign, or it is exactly what was said
(`ArrivingAtReceiver`, `ArrivingAtSender`): the conversions of types, ids and
hashes and the checks on a packet undo those of the sender (`MessageIsAccepted`,
`AckIsAccepted`, `CopyIsOfOwnGroup`).

**Only model-checked.** Liveness (`EventuallySettled`, `ScansForEver`,
`UpdatesAreSeen`, `EveryoneIsFound`): fairness and `ENABLED` are out of the
prover's reach. What is defined by recursion over a value: the codecs
(`CodecsAgree`), the comparison (`EqualsIsIdentity`) and the CRC-32, since what a
recursive definition computes for every input cannot be proved here. The run
evaluates them on every value, prefix and foreign packet of the instance
instead.

## Where code and comments disagree

* `MDNSHandler_querynow`: `perform_service_query_now` "performs a service query
  immediately" (`MDNSHandler.cpp:204`); called during a scan it does nothing,
  since the commit of that scan overwrites the countdown with the full interval.
* `Synchronizer_bystander`: messages are cancelled "if a synchronizable is
  updated before its previous state is sent" (`SynchronizationMessage.h:57`);
  the initial synchronization of one endpoint cancels them for every other one
  too, and sends nothing in their place. A node that misses the only
  transmission keeps the old value until the next update.
* `Synchronizer_dereg`: the delegate "handles incoming sync, dereg, and
  req_init_sync messages" (`NetworkHandlerDelegateImpl.h:8`); the `NetworkHandler`
  drops `dereg` messages before it, unacknowledged, so that a node that left the
  group repeats its message 100 times, gives up, and stays known.
* `Synchronizer_reordered`: the library is for "synchronizing small amounts of
  data over a network" (`library.json:4`), its tests expect of a copy after
  `synchronize` that its "integer should be 42" (`test_synchronizer.cpp:151`), and
  "messages may arrive out of order" (`NetworkHandler.h:58`). Messages carry no
  version: a packet of a message that was cancelled in favour of a newer one
  replaces what the newer one brought, nothing repeats that, and two nodes that
  never lose sight of each other differ until the next `synchronize`.

One more disagreement shows in `Retries` without a run of its own: "the maximum
number of retries is configurable per message" (`NetworkHandler.h:55`), but 0
retries means one, because `send_active_messages` transmits before it looks at the
counter.

## What is not modelled

* *In the formats*: the text of a number (a number is one element), whitespace and
  comments in JSON, surrogate pairs, `parse_multi`, `has_shape`, the comparison
  operators of json11 and msgpack11, the widths of MessagePack's numbers and what
  only other implementations dump (integers, binaries, extensions); the parsers
  are given such integers and binaries. `to_debug_string`, which only logs.
* *Memory*: a MessagePack header that claims a huge array makes the parser reserve
  room for it before it reads on (`msgpack11.cpp:868`); in the models such a text
  is rejected, and nothing else comes of it.
* *Collisions of the CRC-32*: two groups with the same hash are one group, for the
  code and the models alike.
* *Callbacks of the application's own messages* that call back into the
  `NetworkHandler` while it iterates over `active_messages`: the library's own
  messages do not.
* *Exceptions in the middle of a handler of the Synchronizer*: nodes have their
  interfaces. `NetworkHandler` has the two exceptions for want of one, and an
  interface that is taken away again.
* *Examples, test simulators, the empty facade `SmallDataSync`*, which has no
  code.
* `sanitize_string` of `MDNSHandler` is never called;
  `NetworkHandler::set_delegate` is called once, before anything else.

Two hazards of the `Synchronizer` have no property because the code promises
nothing there. An endpoint that became known through one of its messages is
skipped by the next scan, so neither side asks the other for what it
synchronized earlier; and a request that fails is not repeated. In both cases
the data is missing until the next update.

## Plan

All modules of the plan are written, in this order:

1. `Transport`, `NetworkHandler`: the delivery protocol and what it promises.
2. `NetworkHandlerProofs`: types, at most one delivery.
3. `MDNSHandler`: the schedule, on which discovery rests.
4. `MDNSHandlerProofs`: its invariants, and `ScanCycle`.
5. `Synchronizer`: groups, copies, cancellations, discovery, calls and reboots,
   over `Transport` and `ScanCycle`.
6. `SynchronizerProofs`: the invariants that hold on every network.
7. `TransportProofs`, `BoundsProofs`: the other invariants of `NetworkHandler`,
and that it implements `Transport`.
8. `DataObject`, `DataTrees`, `Json`, `MsgPack`, `Codecs`, `CRC32`: values,
   formats, hashes.
9. `Packets` and `Wire`: what travels, and that it amounts to messages.
10. `UpdatesProofs`: under what conditions no update is dropped.
11. `PacketsProofs`: the invariants of `Packets`, and that it implements `Wire`.
12. `Layers`, `LayersProofs`: the two layers joined, by way of `Transport`.

Nothing of the plan is left. What would go further is beyond these tools: proofs
of the liveness properties, and of the codecs for every value.
