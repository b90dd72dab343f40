# A TLA+ model of the vnt client

vnt is a virtual private network: every client has a virtual address and a tun
device, talks to a server (the "gateway" of the network) and tries to reach its
peers directly. The server is another program; this repository is the client,
most of it the library `src/vnt/src`, with command lines and a user-space
variant (`vn-link`) around it. The client is a set of threads that share maps,
atomics and channels: what is hard in it is their order.

This directory models those parts. A module models a component; `MC...` modules
and `.cfg` files give it the constants of a small instance for TLC; `...Proofs`
modules hold theorems checked by TLAPS. `PROJECT.json` lists runs, mutants (a
plausible mistake in the code for every property, which TLC must find), hazards
and theorems, and maps every definition to its lines of source.

## 1. Inventory

| Component | State | Operations | Interacts with | Hard because |
|---|---|---|---|---|
| Route table (`channel/context.rs`, `channel/idle.rs`) | per address an ordered list of channels with hop count, round-trip time, last read | add, add if absent, refresh, expire | receive threads write, scheduler expires, every sender reads | check and insertion under two locks; pick and removal under two locks; order of comparisons |
| Session (`handle/recv_data/server.rs`, `handle/maintain/idle.rs`, `heartbeat.rs`) | device info, default channel, reconnect counter, cipher key | handshake, key exchange, registration, ping, disconnect, time-out, reconnect, rebind | receive threads, scheduler, NAT test, server | decisions from snapshots; a server that forgets; late and repeated answers |
| Scheduler (`util/scheduler.rs`) | bounded channel, heap of tasks | timeout, run loop, shutdown | every periodic job; stop manager | a task re-arms itself by `try_send`; blocking send of Stop |
| Stop manager (`util/notify.rs`) | listeners, worker count, parked threads | add_listener, stop, release, wait | every thread of the client | registration, stop and last release race |
| Tun device (`tun_tap_device/tun_create_helper.rs`, `handle/tun_tap`) | current device, its stop handle, its worker cell | stop, create, start | receive threads, device thread, stop manager | stop before start; who drops the worker |
| Extra UDP sockets (`channel/udp_channel.rs`, `channel/notify.rs`) | socket set, channel, notify bits, poll registrations | switch, rebind, accept, read | scheduler, NAT test, subUdp thread | three-step hand-over to an edge-triggered poll |
| Device list (`server.rs`, `heartbeat.rs`) | epoch and map of peers | push, pull, registration list, reset | receive threads, server | old lists overwrite newer ones |
| Hole punching (`handle/maintain/punch.rs`, `channel/punch.rs`, `client.rs`) | back-off records, rendezvous channels, holes | request, reply, punch, response | scheduler, punch threads, peer, route table | silent refusals on both sides, back-off, one-way holes |
| Dispatch, relaying and data path (`handle/recv_data/mod.rs`, `client.rs`, `server.rs`, `turn.rs`, `handle/tun_tap/tun_handler.rs`, `external_route`) | two packet buffers of the tun thread, reused for every packet | read from the device, compress, seal, send, broadcast, receive, relay, hand over | route table, ciphers, device, server, proxies | stale flags in a buffer; a broadcast sent partly directly; circles of routes; clients built differently |
| Ciphers, compression (`cipher`, `compression`) | a key, a finger | seal, open | data path, session | what relays change must not be sealed; room for what sealing adds |
| IP proxy (`ip_proxy`) | NAT maps, sockets and their tasks | rewrite, accept, answer, expire | receive threads, tun thread, async tasks | entries against sockets, under two locks |
| TCP/WebSocket channels (`channel/tcp_channel.rs`, `ws_channel.rs`, `channel/sender.rs`) | map of writers, two tasks per connection, requests to connect | connect, read, write, give up | scheduler, context, server | a descriptor used again; a connection that comes late; entries against tasks |
| Packet formats (`vnt/packet`, `vnt/src/protocol`) | a buffer written in place | getters, setters, checksums, lists | everything | neighbouring bits, carries, odd lengths |
| NAT test (`nat`) | public addresses and ports | STUN, update | punch, session | results of different rounds mixed |
| Traffic meter, rate limiter (`util/limit`, `util/counter`) | counters | add, acquire | data path | limits |
| Port mapping, command lines, `vn-link`, iOS interface | little or none | I/O | | |

What would make each component correct is in section 3, property by property;
`PROJECT.json` "hazards" lists what could go wrong, at its line.

## 2. Plan

Written, in the order of importance: RouteTable, Session, Scheduler,
StopManager, TunDevice (which EXTENDS StopManager, so the threads of the devices
are its Workers), UdpListen, Punch, DeviceSync; then the data plane: NetPacket,
Cipher (EXTENDS NetPacket), Relay (EXTENDS Cipher, implements Delivery),
IpProxy (put beside Relay in DataPlane), PacketFormats, StreamChannel, all in
MCDataPath. Three abstract specifications say what a component promises, and
the component is checked and proved to implement them: ChannelTable (by
RouteTable), Shutdown (by StopManager, and by TunDevice through it) and Delivery
(by Relay).

To come:

1. **NatTest** and the limiters, as small modules, and the port scan of
   `punch_symmetric` (every port is tried).
2. Session as an implementation of the abstract client that is off line or
   registered.

## 3. Modules, runs and what they show

Every definition keeps the name of the function it translates where there is
one. An action is one critical section: code between two locks, two channel
operations or two atomics is one step, and code that spans several is several.

### RouteTable, ChannelTable (run `route_table`)

`routeTable` is the map of lists, `inserting` a receive thread between the two
locks of `add_route_if_absent`, `expiring` the scheduler between `next_idle` and
`remove_route`. The sort is the stable sort of the code, before the push.
`firstLatency` and `useChannelType` are chosen initially. One address, three
channels, two hop counts, measured or unmeasured, one inserting thread beside
atomic `add_route`s of others: three channels are needed for a list whose
middle element matters (sort, push, retain), two hop counts for "shorter" and
"longer". Addresses do not interact.

ActsAsTable: the lists implement ChannelTable, a set of channels without lists,
locks and clocks that changes by one insertion, one measurement or one expiry at
a time. A new channel is let in if no path of its address is shorter, a direct
one sends the relayed ones away, and a channel that is there is measured again
over no longer a path; with `--first-latency` lengths do not count. The mapping
takes the entries of all lists as the set; that an insertion whose check is long
past does not add a channel twice, and that a refresh does not change another
channel than its own, is what could break it. The refinement implies
NeverLonger, which is proved and not repeated in the run.

UniqueKeys, StaysMeasured and DirectLostByExpiryOnly hold;
SilentRouteExpires holds if the scheduler keeps running. Strong fairness of
`NextIdle` per route: `next_idle` returns the first timed-out route of a map in
an order that changes; each pick removes one and it needs ten seconds to time
out again, while the scheduler looks after 100 ms. SortedButLast and
OnlyDirectRoutes are proved for every instance and not repeated in the run.

### Session (runs `session`, `session_live`, `session_loss`)

`cur` is the device info, `handler` what a receive thread that handles a
registration holds of its snapshot, `expiring` the same for the scheduler's
route time-out; `net` holds packets in flight, `server` is the external server.
Two channels, `main` and `sub`, each with its receive thread; the first extra
socket is the one that could carry the server's packets.

* `session`: when no registration is being handled the tun device has the
  client's address (TunMatches). The server is reached over IPv6, where the
  socket of a rebind is read, so both receive threads handle registrations, each
  with a snapshot the other may make stale; two addresses, encryption,
  duplicates, a server that may go away, callbacks that refuse a handshake or a
  registration. Two exceptions are named, both kept as history: `failed`, the
  device could not be created after the old one was stopped; `mixed`,
  registrations with different addresses overlapped (section 5, items 16 and
  17). Where `mixed` is true there is nothing left to check, so the run stops
  there (constraint Unmixed). The addresses are symmetric. Stopping the old
  device and starting the new one is one step here; TunDevice takes it apart.
* `session_live`: KeepsReconnecting and ServerLearnsAgain with one address and
  no encryption. The scheduler is one thread, so its tasks get strong fairness:
  each is armed again by itself (that it is, is what Scheduler shows). Strong
  fairness of server answers and deliveries by kind on the main channel says
  that the network does not lose the same kind of packet for ever, and that the
  callback does not refuse for ever.
* `session_loss` finds that ServerLossNoticed **fails**: `idle_route0` picks a
  timed-out gateway route; a RegistrationResponse refreshes it and is about to
  commit; the route is removed and the status set to Connecting; the receive
  thread sets Connected. No gateway route is left to expire, so if the server
  then goes away the client remains Connected. (With a server that lives, the
  next Pong brings the route back.)

`MaxNet = 1`: a newer packet replaces the one in flight, which is loss and
delay; reordering comes from the threads, which hold their packets while others
are handled. Reconnecting over TCP and WebSocket is in StreamChannel; name
resolution is a choice whether it succeeds.

### Scheduler (run `scheduler`)

`queue` is the `sync_channel`, `waiting` and `due` the heap before and after the
due time, `sending` a thread between the check of the state and `try_send`. Two
tasks of each group and a channel of 6; the code has fewer than ten tasks and
32 places, and the assumption is only that there are fewer tasks than places.
NeverFull means that no task is ever lost and that `shutdown_now`, which sends
with a blocking `send` while the listeners are locked, does not block;
ArmedOnce is why. KeepsRunning and StopEndsTimer hold under weak fairness of
the threads and of the passing of time. Deadlock is not checked: a stopped
client stops.

### StopManager, Shutdown and TunDevice (runs `tun_device`, `tun_device_two`)

StopManager has `add_listener`, `stop`, `Worker::release0` and `wait` at the
grain of their locks, atomics and park tokens. TunDevice extends it with
`TunDeviceHelper` (step by step per receive thread), `DeviceAdapter`,
`DeviceStop` and the device's thread, so that stopping the client and replacing
its device meet in one state space. One receive thread, three devices one after
the other (they share one listener name, and a later one may register when an
earlier has gone), one waiter with and one without time-out.

* Of the stop manager: NoLostSignal, and KeepsPromise: it implements Shutdown,
  in which threads join, are told once (all together when the client closes, or
  one that goes by itself), end after that, and nobody joins any more; the
  callback, once, and the return of a wait come when every thread has ended.
  `joined` is the Workers made so far, `told` those whose listener was called,
  `ended` those past `fetch_sub`, `closed` the flag. CallbackLast and
  WaitMeansStopped are parts of it.
* Of the devices: StopsBeforeStart, OneReader, WorkerInCell, and
  DeadDeviceNoticed: the client never goes on with a device nobody reads.
* Of both: StopCompletes. Its one exception, WaitsInVain, is what the code
  does: a device thread that `add_listener` refuses never sets `stopped`
  (section 5, item 5).
* `tun_device_two` finds that with two receive threads StopsBeforeStart
  **fails**: nothing serialises two registrations, and the second `start` meets
  the first one's device (`tun_create_helper.rs:123`, or `:29`).

Fairness: a thread whose listener was called ends its loop (that is what the
listener does), and threads are scheduled.

### UdpListen (runs `udp_listen`, `udp_listen_all`)

`change` is the hand-over under the write lock: into the channel, the bit, the
waker. `edge`, `woken` and `batch` are the edge-triggered poll (external, mio).
Two sets of two sockets, a channel of 2, up to two datagrams per socket.
NoLostSockets, SocketsFollow, StopEnds, and LaterSocketsRead: every socket but
the first of a set is read. `udp_listen_all` finds that the first one
**is not** (AllSocketsRead): it is registered with token 0, the waker's.

### Punch (run `punch`)

Two clients, A the one that asks. `record`, `wait`, `lastP2pNum` are the
back-off, `signals` the negotiation through the server, `worker` the punch
threads with their rendezvous channels, `hole` the NAT mappings, `blocked` the
clients that no direct packet reaches, `channelNum` the client's number of
channels. TwoWay: a direct route implies that
packets pass both ways, the reason the code no longer makes a route from a
PunchRequest (`client.rs:256`). Connects: clients that can reach each other end
up connected on every channel, after lost packets, refusals by busy punch
threads, a NAT that forgets and a peer that was off line. One channel ever
carries a packet in the run, but a client may have two (`ChannelNums`): then it
goes on punching with a route in its table, for the second one, at the longer
pauses of that case. The caps are one and two rounds instead of 50 and 300, and
`MaxRecord` lets the count grow past what reaches them: a client must wait at
both caps, the count is reset when a route is lost (`Lost`), also where a pause
was under way, and a route that came and went between two requests goes
unnoticed. Two mutants of Connects: a reply that tells the worker nothing, and a
round that notes itself as a punch without being one. Strong fairness of
hand-overs and deliveries:
a network, and a thread of the other client, that are not always busy when
asked. The other peers that compete for A's one request per round, chosen at
random in the code, are not in the model.

### DeviceSync (run `device_sync`)

A list is represented by its age; it travels with its age modulo `EpochMod`.
Two receive threads apply pushes, slow registrations and the two halves of a
disconnect in any order. MatchMeansEqual: a client whose epoch is the server's
has the server's list. ListCatchesUp: once the server's list rests the client's
becomes equal and stays so; that is what the comment at `server.rs:489` counts
on. Two lists, two packets in flight (one makes the network lose every answer
to a pull), one loss of memory of the server. The assumption
`MaxChanges + 1 < EpochMod` is a real limit: equal 16-bit epochs of different
lists, after a restart of the server or 2^16 changes, go unnoticed.

### Relay, Cipher, NetPacket, Delivery (run `data_plane`)

NetPacket is the head every handler reads; Cipher says which bodies each cipher
opens, what of the head it binds, and how long a sealed body gets, for both
kinds of builds; Relay is the path of a packet: the tun thread's branches
(itself, gateway, WireGuard peer, outside, peer, broadcast), compression and
sealing in reused buffers, the look-up of a route, and what a receiver does:
drop, hand to the device, answer a ping, relay. The route table changes under
these handlers, so where routes lead through others a look-up may return any
route (`cfg.wander`). The server is external. `offered`, `written`, `lost` are
history.

* Implements: the data path refines Delivery, the abstract promise that a device
  gets what is meant for it once and unchanged, or not at all. The mapping:
  `known` is what entered the network, `owed` the pairs of addressees and
  packets not yet given or answered, `count` what a device got from others.
* Openable: what is in flight can be opened by those it is for, whatever the
  reused buffer held before and however many relays changed the head.
* Reaches: without a loss everybody gets a broadcast, though part of it goes
  directly and part through the server.
* RoomToSeal: the reserved bytes are enough for every cipher.
* Drains: no packet goes round for ever; weak fairness of arrivals, which the
  network's loss does not replace: it is the time to live that ends a circle.

Four clients (a broadcast with more peers than `MAX_COUNT` allows needs three
others), routes up to three hops, one or two packets from one device, in sets of
configurations: every destination, reused buffers, circles of routes, exits,
and every cipher against every other.

### IpProxy (run `data_plane`)

The NAT maps of the TCP, UDP and ICMP proxies, the tasks of their sockets with
the two steps in which one is taken down, streams, and packets on their way
through device, kernel and hosts (external). `sent` is history: where a sender
has sent to; so is what a packet carries of its own destination and of those its
sender has sent to since. NotAstray, an action property: no step sends a packet
outside but to the destination it bears. Two cases are excepted, both of a sender
with several destinations at one port: its entry was replaced before the proxy
got to the packet, or its UDP socket was opened for another destination
(section 5, item 7). Each of them occurs in the run. NotAstray and
AnswersComeBack hold while sockets, tasks and connections fail and clients share
port numbers;
AnsweredInTheEnd says that no socket nobody reads stays in a client's way. Weak
fairness per sender and per task: the proxies' tasks are scheduled and what is
under way arrives. Two clients with one port number, up to three destinations,
two packets of a sender under way, two faults.

### PacketFormats (run `data_plane`)

A format is a set of fields over bytes; one or two bytes are a number, of which
a field may have some bits, and more are an address or a payload. `Buffers`,
`Numbers` and `Strings` are what a buffer holds before and what is written: few
in the run, anything in the theorem. ReadsBack: after any writes a field
reads as it was last set, and its neighbours as they were. RecordsFound: an
IGMPv3 report is taken apart into the records it was made of, or into none if it
was cut short. ChecksumRight compares the
code's folding sum with the definition by weights modulo 2^16 - 1, at odd
lengths and at carries; `is_valid` accepts exactly the right ones (and an absent
one). Two writes; buffers begin with all bits set or with the numbers of their bytes, in
the shortest length and an odd longer one, so that a setter that only ors or
only clears is noticed.

### StreamChannel (run `data_plane`)

Connections to the server over TCP or WebSocket: request to connect, reader and
writer task, `packet_map`, default route key, handshake and registration over
the connection, expiry of its route, and the rounds of `check_gateway_channel`,
which clear the default key after several failures. A TCP key is the file
descriptor, free again once both tasks dropped their halves; a WebSocket key is
fresh. StreamReconnects: the client gets connected again. OrphansEnd: a
connection whose entry is gone from the map ends, also if another reader
removed the entry under a descriptor used again (`tcp_channel.rs:178`).

Rounds come seconds apart and find the tasks at rest, but for `MaxBreaks`
moments, which are counted together with failures. The rounds share the
scheduler's thread with the heartbeats, hence strong fairness for them; tasks
get weak fairness, and a server that is asked answers. One break, two
connections at a time, three keys: with two breaks the model would need more
connections than it has names, and stop where the client does not.

### The run `data_plane`

The four parts share no state, so one run takes their disjoint sum: `part`
chooses one at the start, and the others rest in an initial state. A behaviour
of several parts would be an interleaving of steps that do not see each other.
Deadlock is not checked: a network with nothing to send rests.

## 4. Theorems

Proved by TLAPS for all values of the constants under the named assumptions of
the modules (which TLC evaluates in every run).

* **RouteTableProofs.** TypeCorrect, ChannelsUnique, ListsNotEmpty, ListsSorted,
  P2pTable. Inductive invariant: the type, every list well formed (`ListOK`:
  unique channels, sorted up to the last element, direct only if only direct
  channels are used, not empty), and an insertion in progress admissible.
  Sortedness needs uniqueness: a refresh that found two entries would leave one
  unsorted. Any number of addresses, channels, receive threads. From the same
  invariant the action properties ChannelsNeverLonger, MeasurementsStay and
  DirectKeptUntilExpiry: each follows an entry through sort, retain and push by
  what is at some index of the new list, and uniqueness makes the entry found
  there the only one with its channel. ListsActAsTable is the refinement of
  ChannelTable: every action is an insertion, a measurement, an expiry or no
  step of the set of channels. Lemmas say what sort, retain, push and removal of
  one element do to the set of a list's elements; uniqueness turns "the first
  entry with this key", which the code finds, into "the channel".
* **SessionProofs.** TypeCorrect, and TunAgrees for both receive threads, with
  TunMatches' two exceptions. While registrations that overlap agree on the
  address, `TunInv` says: whoever handles one has the address all of them have;
  once one has committed it, the client has it too; and if the device then has
  another, somebody is still to finish whose snapshot is older, who will
  rebuild it. Hence with nobody left the device is the client's.
* **SchedulerProofs.** TypeCorrect, TasksArmedOnce, ChannelNeverFull. The
  invariant says where a task may be: in one place only of channel, heap, a
  thread's hand, the lists still to be armed; the delayed tasks nowhere before
  `start` has run. Hence the channel holds each task at most once, and one Stop.
* **TunDeviceProofs**, first part, of StopManager: TypeCorrect, CountCorrect,
  SignalReaches, ListenersCorrect. The invariant adds to these: the list is
  empty once the flag is set, names in it are unique, and a Worker being dropped
  still has its listener or was called. CallbackIsLast and WaitIsForAll rest on
  the hypothesis `Anchored`: a Worker that may be dropped without `stop_all`
  registers after one that may not. The code makes its threads in that order
  (the IP proxy's Worker after the scheduler's, `conn.rs:211` and `:218`; the
  devices' after the receive thread); without it the count may reach zero before
  the stop (section 5, item 6). `EndInv` says that before the stop an anchor is
  there if anybody is, so that the count reaches zero once, after the flag is
  set, and who saw it at zero saw the end. StopIsPromised is the refinement of
  Shutdown under the same hypothesis: `ToldInv` says that a Worker past its
  release was told, and that one told before it is the stop's doing, so that
  nobody is told twice; from `EndInv` it follows that callback and wait find
  everybody gone.
* **TunDeviceProofs**, second part, of TunDevice. TunImplements: replacing the
  device is an implementation of StopManager's Spec, every step one of its
  steps or a stutter; hence DevicesHear and DevicesKeepPromise. DeviceTypes and WorkersInCells for any
  number of receive threads: the invariant says of each step of a device's
  thread who holds its Worker. StopThenStart and OneDevice have the hypothesis
  `OneReceiver`, that one receive thread handles registrations: with two the run
  `tun_device_two` violates what they state. Their invariant `LiveInv` says
  which device the helper's cells and the receive thread's step allow to live,
  and in which order they are emptied.
* **UdpListenProofs.** TypeCorrect, SocketsNotLost: what subUdp will listen on
  after draining the channel is what the senders promised, and a message in the
  channel has its wake-up to come.
* **PunchProofs.** TypeCorrect, RoutesTwoWay: inductive with the fact that a
  PunchResponse on its way to a client was caused by a PunchRequest that got
  through to the other one.
* **DeviceSyncProofs.** TypeCorrect, MatchCorrect. MatchMeansEqual is not
  inductive: it needs that the client's epoch is that of the list it has, or
  none, whichever half of a disconnect came last, and that different lists have
  different epochs, which is what `MaxChanges + 1 < EpochMod` is for.
* **DataPathProofs**, first part, of IpProxy: NothingAstray, EveryAnswerBack.
  LoadsAssumption (of DataPlane) says that the traffic has real destinations and
  that what is neither TCP nor UDP is pings.
  The invariant ProxyInv has two halves: entries of the NAT maps, sockets, tasks and
  streams point to a destination their client has sent to (`MapsOK`), and what
  is in flight belongs to such an entry or to the history of one (`FlightOK`).
  Neither half is inductive alone: answers are made from entries, entries from
  packets in flight. NothingAstray needs `OwnInv` besides: whatever waits for a
  proxy, `nat_map` has under its sender the packet's own destination, a later
  one, or nothing.
* **DataPathProofs**, second part, of Relay: AlwaysRoom, AlwaysOpenable, under
  RelayAssumption (addresses differ, ciphers are those there are, the one
  towards the server is `Cipher::new_key`'s). `ShapeInv` says what a packet in
  flight looks like: sealed by the cipher of a client, or by the server's, over
  the head it bears (its time to live aside), around an IP packet, compressed or
  not, or around a broadcast's list with a packet of that shape; and what the
  reused buffers' flags may be. Lemmas say for all eight ciphers and both builds
  what sealing adds to the length and that opening undoes sealing under every
  head with the same tag.
* **DataPathProofs**, third part, of Relay: KeepsThePromise, the refinement of
  Delivery, and EverybodyReached. A message has a cargo, the IP packet it is
  about, and targets, those who may still get it from this message (the rest of
  a broadcast, for the server's copy). `CargoInv` says that a packet has at most
  one message under way for each of its addressees, none for one that has got
  or answered it, that the head agrees with the IP packet inside, and that a
  number belongs to one packet of a device and the answers to it. It is what
  "once" rests on: a broadcast sent partly directly is split without overlap, a
  relay or the server passes targets on and never adds one, and an answer takes
  the place of the ping. The proof goes in two steps: every handler has one of
  six effects on cargo and targets (`Effect`: the message becomes others, is
  given, answered or misread, a device offers a packet, or talks to itself), by
  `ShapeInv`; and every effect keeps `CargoInv` and is a step of Delivery or
  none. `ReachInv` adds that, with a shared cipher and no routes through others,
  every message is at its last hop with its time to live whole, and whoever is
  owed a packet that was not lost is a target of a message; Reaches is the case
  with nothing in flight. That every client can take apart what it is sent, so
  that nothing is dropped on arrival, is AlwaysOpenable's argument again.
* **DataPathProofs**, fourth part, of PacketFormats: FieldsReadBack, for all
  buffers, values and numbers of writes. `FormatInv` is ReadsBack with what a
  buffer keeps: bytes, as many as its format needs, and a list no longer than
  the buffer. The argument has
  three layers. Arithmetic: a field is a digit of its word to some weight, so
  that writing it leaves higher and lower digits alone (`BitsReplaced`,
  `BitsSpared`), for the shifts and widths there are. Layout: in every format
  each field lies inside the buffer, two fields one of which is settable have no
  bit in common, and the tables of an enumeration invert each other, so that a
  variant is read as what was written (`AllLayouts`, `EnumsOK`). Steps: a write
  that changes the meaning of other fields (an ICMP kind, a protocol, the length
  of a list) makes them new fields, and the others keep place and value
  (`SameFields`, `WriteReads`); one lemma per setter.

The type invariants of these modules, ListsNotEmpty, SortedButLast,
OnlyDirectRoutes, NeverLonger, CountsWorkers, CallbackLast, WaitMeansStopped and
the correctness of the listeners are established by their proofs alone, or are
part of a refinement that a run checks: no run repeats them.

Only model-checked: every liveness property (fairness and ENABLED are outside
what the prover does here), ChecksumRight and RecordsFound. These two are about
a recursive sum over a buffer and a recursive walk along one; what a recursion
computes for every input needs induction over data, which the installed provers
cannot instantiate. That an updated checksum is read back, and disturbs no other
field, is part of FieldsReadBack all the same. No module with a theorem uses a
RECURSIVE operator.

## 5. Disagreements

Three are kept as runs that must fail (`session_loss`, `tun_device_two`,
`udp_listen_all`). Others were met while modelling and confirmed with TLC, but
have no run:

1. With `--first-latency` a new, faster channel is not first: `context.rs:517`
   sorts before `:518` pushes. `vnt-cli/README.md:135` says "优先使用低延迟通道".
   The next measurement sorts it in. SortedButLast is what the code does keep.
2. The reconnect counter of `idle.rs:165` is never reset, so a rebind may come
   at the first failure of an outage; `vnt-cli/README.md:279` speaks of
   "连续重连失败达到阈值".
3. Whether the up hook runs is decided from the snapshot `old.status.offline()`
   (`server.rs:437`): a registration that was under way while another thread
   went down and came up can skip or repeat it (`vnt-cli/README.md:277`).
4. Any gateway route that times out takes the client down (`idle.rs:129-131`),
   a second channel to the server as well; `vnt-cli/README.md:287` speaks of a
   server not heard of for long.
5. A device thread that `add_listener` refuses returns at
   `handle/tun_tap/platform.rs:34-38` before `device_stop.stopped()` (`:65`);
   a helper that replaces this device waits for ever
   (`tun_create_helper.rs:108-115`). It needs a client that is being stopped.
6. If the port-mapping worker, the first to register, is dropped by unwinding
   before the next registers, the worker count reaches zero twice and a waiter
   can miss its wake-up. Builds with `panic = "abort"` cannot get there.

Read in the source of the data plane, and either excepted by name in a property
or outside what its model tells apart:

7. A UDP proxy socket is found by the sender's address only
   (`udp_proxy.rs:131-134`): a client that goes on from the same port to another
   destination still reaches the first one, though `:50` says that a packet is
   passed on to its own destination ("转发到代理目标地址"). `nat_map` has one entry
   for a sender, of TCP and UDP alike, so a packet to one destination that is
   overtaken by one to another goes to the latter. Both are excepted by name in
   NotAstray.
8. A UDP task removes its socket and its NAT entry in two steps (`:186-187`); a
   datagram between them gets a socket whose NAT entry is then removed, and its
   answers bear the proxy's address until the next datagram (excepted in
   AnswersComeBack).
9. The ICMP proxy's loop ends at the first receive error
   (`icmp_proxy.rs:100`), and pings of two clients with equal destination,
   identifier and sequence number share an entry. Entries of the TCP proxy's
   NAT map are never removed.
10. The IPv4 `set_flags` (`packet/src/ip/ipv4/packet.rs:81-83`) and the IGMPv1
    `set_type` write over a neighbouring field (excepted in ReadsBack); the
    bound in IGMPv3's `source_address` is inverted; the head byte the Android
    branch of the ICMP proxy writes (`icmp_proxy.rs:106`) says 24 bytes, the
    comment above it 20.
11. `index > 8` in the broadcast of `tun_handler.rs:106` sends to one peer more
    than `MAX_COUNT` says, and a WireGuard copy that fails ends the broadcast.
    Model and properties have the code's count.
12. A ping answered in place keeps its time to live, and one to the broadcast
    address is answered from that address.
13. External routes are sorted by destination and not by length of their masks
    (`external_route/mod.rs:15`), and the first match is taken.
14. The AES-ECB cipher over openssl shares one context between threads
    (`openssl_aes_ecb.rs:36`).
15. The TCP writer takes frames of up to 2^24 - 1 bytes, the reader 64 KiB
    (`channel/mod.rs:29-32` says so). A stream connection that is not the
    default one is never closed by the client while its server keeps it.

Read in the source of the session, excepted by name in TunMatches:

16. A registration with a new address commits it (`server.rs:328-340`), stops the
    old device and creates one (`:371-395`). If that fails there is none, and
    later registrations with the same address do not try again, since they
    compare with what was committed (`:342`). The command line ends the program
    in `callback.error` (`common/src/callback.rs:35-43`); a program whose
    callback does not stays Connected without a device.
17. Two receive threads handle registrations without exclusion. If these bear
    different addresses, the order of the commits need not be that of the
    devices, and the client may be left with one address and a device with the
    other.

## 6. Not modelled

The NAT test and the limiters: planned (section 2). `--use-channel relay`, the
NAT kinds and the port scan of hole punching. Connections between peers over
TCP: they run the tasks of StreamChannel, but their acceptance, and the frames
of a stream, are left out. The cryptography itself and RSA: a cipher is a term
that opens with the right key. Port mapping copies bytes; only its registration
with the stop manager is in the model. Creating a device, name resolution,
UPnP, command lines, configuration, the iOS interface and `vn-link` are I/O,
parsing, output and foreign code, with no shared state of their own that a
property would tell apart.
