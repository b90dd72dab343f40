-------------------------------- MODULE Punch --------------------------------
(***************************************************************************)
(* Hole punching between two clients (vnt/src/handle/maintain/punch.rs,    *)
(* channel/punch.rs and the control and other_turn packets of              *)
(* handle/recv_data/client.rs).                                            *)
(*                                                                         *)
(* The client with the lower virtual address, A, decides in every round of *)
(* its punch task whether to ask B for a punch.  The request and the reply *)
(* travel through the server; each side hands what it received to a worker *)
(* thread through a rendezvous channel, so the hand-over succeeds only     *)
(* while that worker waits, and a worker that is busy with another peer    *)
(* makes the negotiation fail silently.  A worker sends PunchRequests to   *)
(* the addresses of the other side; a PunchRequest is answered, a          *)
(* PunchResponse makes a route.                                            *)
(*                                                                         *)
(* The addresses, the NAT kinds and the order of the probes are data: a    *)
(* client that has sent to the other one has a hole in its NAT, and a      *)
(* packet gets through to a client with a hole unless a firewall blocks    *)
(* that direction.                                                         *)
(***************************************************************************)
EXTENDS Naturals, FiniteSets

CONSTANTS
    Channels,        \* UDP channels, paired by index, that can connect the two
    ChannelNums,     \* values of channel_num; over further channels nothing passes
    MaxInterval,     \* longest pause between punches, in rounds (50)
    MaxIntervalP2p,  \* the same with some channels in use (300)
    MaxRecord,       \* bound of the model on punch_record
    EarlyRounds,     \* rounds that wait for a public address (10)
    MaxDrops,        \* bound of the model on NAT resets and status changes
    None             \* no packet

ASSUME PunchAssumption ==
    /\ IsFiniteSet(Channels) /\ Channels # {}
    /\ ChannelNums \subseteq {n \in Nat : n >= Cardinality(Channels)}
    /\ MaxInterval \in Nat /\ MaxIntervalP2p \in Nat
    /\ MaxInterval <= MaxIntervalP2p
    /\ MaxRecord \in Nat /\ EarlyRounds \in Nat /\ MaxDrops \in Nat
    /\ None \notin [kind : {"PunchRequest", "PunchResponse"}, fresh : BOOLEAN]

VARIABLES
    total,        \* rounds of A's punch task so far, up to EarlyRounds
    record,       \* punches of B that A started since the record was removed
    wait,         \* rounds since last_punch.punch_record, up to a useful maximum
    lastP2pNum,   \* last_punch.last_p2p_num
    online,       \* B's status in A's device list
    signals,      \* negotiation packets in flight through the server
    worker,       \* client -> what its punch thread for this exchange does
    packets,      \* client -> channel -> the packet on its way to that client
    hole,         \* clients whose NAT has a mapping towards the other one
    routes,       \* client -> its direct routes to the other one
    blocked,      \* clients that no direct packet reaches
    channelNum,   \* channel_num
    drops

vars == <<total, record, wait, lastP2pNum, online, signals, worker, packets,
          hole, routes, blocked, channelNum, drops>>

(* What stays as it was when the clients were started.                     *)
paths == <<blocked, channelNum>>

Clients == {"A", "B"}
Peer(c) == IF c = "A" THEN "B" ELSE "A"

(* At most one packet per direction and channel is in flight; an older one *)
(* is lost.  A packet that was sent before its sender's NAT changed is not *)
(* fresh: a route made from it leads nowhere.                              *)
Packet == [kind : {"PunchRequest", "PunchResponse"}, fresh : BOOLEAN]

(* A route is alive or leads to an address that the NAT has given up.      *)
Route == [channel : Channels, alive : BOOLEAN]

AtMost(n, m) == IF n > m THEN m ELSE n

P2pNum(c) == Cardinality(routes[c])
Enough(c) == P2pNum(c) >= channelNum

TypeOK ==
    /\ total \in 0..EarlyRounds
    /\ record \in 0..MaxRecord
    /\ wait \in 0..(MaxIntervalP2p + 1)
    /\ lastP2pNum \in 0..(channelNum - 1)
    /\ online \in BOOLEAN
    /\ signals \subseteq {"request", "reply"}
    /\ worker \in [Clients -> {"waits", "punches"}]
    /\ packets \in [Clients -> [Channels -> Packet \cup {None}]]
    /\ hole \subseteq Clients
    /\ routes \in [Clients -> SUBSET Route]
    /\ blocked \subseteq Clients
    /\ channelNum \in ChannelNums
    /\ drops \in 0..MaxDrops

Init ==
    /\ total = 0
    /\ record = 0
    /\ wait = 0
    /\ lastP2pNum = 0
    /\ online = TRUE
    /\ signals = {}
    /\ worker = [c \in Clients |-> "waits"]
    /\ packets = [c \in Clients |-> [k \in Channels |-> None]]
    /\ hole = {}
    /\ routes = [c \in Clients |-> {}]
    /\ blocked \in SUBSET Clients
    /\ channelNum \in ChannelNums
    /\ drops = 0

-----------------------------------------------------------------------------
(* punch_request: one round of A's punch task.                             *)

NextRound ==
    /\ total' = AtMost(total + 1, EarlyRounds)
    /\ UNCHANGED <<online, worker, packets, hole, routes, paths, drops>>

Pauses ==
    /\ wait' = AtMost(wait + 1, MaxIntervalP2p + 1)
    /\ UNCHANGED <<lastP2pNum, signals>>

(* The first rounds give up while no public address is known.  A itself    *)
(* stays online: what it does when it loses the server is in Session.      *)
RoundSkipped ==
    /\ total < EarlyRounds
    /\ NextRound
    /\ Pauses
    /\ UNCHANGED record

(* Two thirds of punch_record, which counts from 0.                        *)
Scaled == IF record = 0 THEN 0 ELSE ((record - 1) * 2) \div 3

(* A peer that is offline or has all its channels is not punched.          *)
RoundIdle ==
    /\ ~online \/ Enough("A")
    /\ record' = IF ~online \/ Scaled # 0 THEN 0 ELSE record
    /\ NextRound
    /\ Pauses

(* Channels were lost since the last punch: the record starts again.       *)
Lost == lastP2pNum > P2pNum("A")

PunchCount == IF Lost THEN 0 ELSE Scaled

Interval ==
    AtMost(PunchCount, IF P2pNum("A") > 0 THEN MaxIntervalP2p ELSE MaxInterval)

(* Mutant: every round is noted, not only one that punches.                *)
RoundPunches_NotesAll ==
    /\ online /\ ~Enough("A")
    /\ record' = IF Lost THEN 0 ELSE record
    /\ wait' = 1
    /\ lastP2pNum' = P2pNum("A")
    /\ signals' = IF wait > Interval THEN signals \cup {"request"} ELSE signals
    /\ NextRound

RoundPunches ==
    /\ online /\ ~Enough("A")
    /\ record' = IF Lost THEN 0 ELSE record
    /\ \/ /\ wait > Interval
          /\ wait' = 1
          /\ lastP2pNum' = P2pNum("A")
          /\ signals' = signals \cup {"request"}
       \/ /\ wait <= Interval
          /\ Pauses
    /\ NextRound

Round == RoundSkipped \/ RoundIdle \/ RoundPunches

-----------------------------------------------------------------------------
(* The negotiation.                                                        *)

(* try_send on a rendezvous channel succeeds only if the thread waits; it  *)
(* may also be busy with another peer.                                     *)
HandOver(c) ==
    /\ worker[c] = "waits"
    /\ worker' = [worker EXCEPT ![c] = "punches"]

(* B receives the request: it replies only if its own worker took it.      *)
ReceiveRequest ==
    /\ "request" \in signals
    /\ HandOver("B")
    /\ signals' = (signals \ {"request"}) \cup {"reply"}
    /\ UNCHANGED <<total, record, wait, lastP2pNum, online, packets, hole,
                   routes, paths, drops>>

(* Mutant: the reply only updates the peer's NAT information.              *)
ReceiveReply_Informs ==
    /\ "reply" \in signals
    /\ signals' = signals \ {"reply"}
    /\ UNCHANGED <<total, record, wait, lastP2pNum, online, worker, packets,
                   hole, routes, paths, drops>>

ReceiveReply ==
    /\ "reply" \in signals
    /\ HandOver("A")
    /\ signals' = signals \ {"reply"}
    /\ UNCHANGED <<total, record, wait, lastP2pNum, online, packets, hole,
                   routes, paths, drops>>

(* The network loses the packet, or its receiver's worker is busy.         *)
LoseSignal(s) ==
    /\ s \in signals
    /\ signals' = signals \ {s}
    /\ UNCHANGED <<total, record, wait, lastP2pNum, online, worker, packets,
                   hole, routes, paths, drops>>

-----------------------------------------------------------------------------
(* The packets between the clients.                                        *)

Message(kind, fresh) == [kind |-> kind, fresh |-> fresh]

(* punch_start: the attempt is counted, then Punch::punch sends over every *)
(* channel, unless there are enough routes by now.                         *)
PunchStart(c) ==
    /\ worker[c] = "punches"
    /\ worker' = [worker EXCEPT ![c] = "waits"]
    /\ record' = IF c = "A" THEN AtMost(record + 1, MaxRecord) ELSE record
    /\ \/ /\ Enough(c)
          /\ UNCHANGED <<packets, hole>>
       \/ /\ ~Enough(c)
          /\ packets' = [packets EXCEPT ![Peer(c)] =
                            [k \in Channels |-> Message("PunchRequest", TRUE)]]
          /\ hole' = hole \cup {c}
    /\ UNCHANGED <<total, wait, lastP2pNum, online, signals, routes, paths,
                   drops>>

Arrives(c, k, kind) ==
    /\ packets[c][k] # None /\ packets[c][k].kind = kind
    /\ c \in hole /\ c \notin blocked

(* Mutant: a PunchRequest makes a route, as it did in an earlier version.  *)
ReceivePunchRequest_Routes(c, k) ==
    /\ Arrives(c, k, "PunchRequest")
    /\ packets' = [packets EXCEPT ![c][k] = None,
                      ![Peer(c)][k] = Message("PunchResponse", packets[c][k].fresh)]
    /\ routes' = [routes EXCEPT ![c] = @ \cup
                      {[channel |-> k, alive |-> packets[c][k].fresh]}]
    /\ UNCHANGED <<total, record, wait, lastP2pNum, online, signals, worker,
                   hole, paths, drops>>

(* A PunchRequest is answered and makes no route.                          *)
ReceivePunchRequest(c, k) ==
    /\ Arrives(c, k, "PunchRequest")
    /\ packets' = [packets EXCEPT ![c][k] = None,
                      ![Peer(c)][k] = Message("PunchResponse", packets[c][k].fresh)]
    /\ UNCHANGED <<total, record, wait, lastP2pNum, online, signals, worker,
                   hole, routes, paths, drops>>

(* A PunchResponse makes a direct route.                                   *)
ReceivePunchResponse(c, k) ==
    /\ Arrives(c, k, "PunchResponse")
    /\ packets' = [packets EXCEPT ![c][k] = None]
    /\ routes' = [routes EXCEPT ![c] = @ \cup
                      {[channel |-> k, alive |-> packets[c][k].fresh]}]
    /\ UNCHANGED <<total, record, wait, lastP2pNum, online, signals, worker,
                   hole, paths, drops>>

(* The NAT or the network drops a packet.                                  *)
LosePacket(c, k) ==
    /\ packets[c][k] # None
    /\ packets' = [packets EXCEPT ![c][k] = None]
    /\ UNCHANGED <<total, record, wait, lastP2pNum, online, signals, worker,
                   hole, routes, paths, drops>>

(* heartbeat0 pings over a route; the peer adds the route it came by and   *)
(* answers.                                                                *)
Heartbeat(c, k) ==
    /\ [channel |-> k, alive |-> TRUE] \in routes[c]
    /\ routes' = [routes EXCEPT ![Peer(c)] = @ \cup
                      {[channel |-> k, alive |-> TRUE]}]
    /\ UNCHANGED <<total, record, wait, lastP2pNum, online, signals, worker,
                   packets, hole, paths, drops>>

(* idle_route0: a route on which nothing arrives any more expires.         *)
Expire(c, k) ==
    /\ [channel |-> k, alive |-> FALSE] \in routes[c]
    /\ routes' = [routes EXCEPT ![c] = @ \ {[channel |-> k, alive |-> FALSE]}]
    /\ UNCHANGED <<total, record, wait, lastP2pNum, online, signals, worker,
                   packets, hole, paths, drops>>

-----------------------------------------------------------------------------
(* The environment.                                                        *)

(* A NAT gives up its mapping: the routes lead nowhere, packets to that    *)
(* client are dropped and those from it are out of date.                   *)
NatForgets(c) ==
    /\ drops < MaxDrops
    /\ c \in hole
    /\ drops' = drops + 1
    /\ hole' = hole \ {c}
    /\ routes' = [d \in Clients |->
                     {[channel |-> r.channel, alive |-> FALSE] : r \in routes[d]}]
    /\ packets' = [d \in Clients |-> [k \in Channels |->
                      IF d = c \/ packets[d][k] = None THEN None
                      ELSE Message(packets[d][k].kind, FALSE)]]
    /\ UNCHANGED <<total, record, wait, lastP2pNum, online, signals, worker,
                   paths>>

(* The server reports B's status.                                          *)
StatusChanges ==
    /\ \/ drops < MaxDrops /\ drops' = drops + 1
       \/ ~online /\ UNCHANGED drops
    /\ online' = ~online
    /\ UNCHANGED <<total, record, wait, lastP2pNum, signals, worker, packets,
                   hole, routes, paths>>

Next ==
    \/ Round
    \/ ReceiveRequest \/ ReceiveReply
    \/ \E s \in signals : LoseSignal(s)
    \/ \E c \in Clients : PunchStart(c)
    \/ \E c \in Clients, k \in Channels :
          \/ ReceivePunchRequest(c, k)
          \/ ReceivePunchResponse(c, k)
          \/ LosePacket(c, k)
    \/ \E c \in Clients, k \in Channels : Heartbeat(c, k) \/ Expire(c, k)
    \/ \E c \in Clients : NatForgets(c)
    \/ StatusChanges

Spec == Init /\ [][Next]_vars

(* The punch task keeps its rounds, threads go on, and the network lets a  *)
(* packet through that is sent again and again.                            *)
Fairness ==
    /\ WF_vars(Round)
    /\ WF_vars(~online /\ StatusChanges)
    /\ SF_vars(ReceiveRequest)
    /\ SF_vars(ReceiveReply)
    /\ \A c \in Clients : WF_vars(PunchStart(c))
    /\ \A c \in Clients, k \in Channels :
          /\ SF_vars(ReceivePunchRequest(c, k))
          /\ SF_vars(ReceivePunchResponse(c, k))
          /\ WF_vars(Heartbeat(c, k))
          /\ WF_vars(Expire(c, k))

FairSpec == Spec /\ Fairness

-----------------------------------------------------------------------------
(* TwoWay: a client has a direct route only to a peer whose answer reached *)
(* it, so only if packets pass in both directions (client.rs:256, "adding  *)
(* the route when a PunchRequest arrives leads to one-way traffic").       *)
TwoWay == \A c \in Clients : routes[c] # {} => blocked = {}

Connected == \A c \in Clients, k \in Channels :
                [channel |-> k, alive |-> TRUE] \in routes[c]

(* Connects: two clients whose packets can pass end up with every channel  *)
(* that connects them in use on both sides, whatever was lost, dropped by  *)
(* a busy worker or given up by a NAT before, and however long A's pauses  *)
(* have grown by then, with channels left to punch for or not.             *)
Connects == blocked = {} => <>[]Connected
=============================================================================
