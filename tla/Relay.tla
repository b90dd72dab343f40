------------------------------- MODULE Relay --------------------------------
(***************************************************************************)
(* The data path between clients: what the tun thread of a client does     *)
(* with a packet its device hands it (handle/tun_tap/tun_handler.rs), how  *)
(* it is compressed, sealed and sent (compression, cipher,                 *)
(* channel/context.rs), and what a client that receives it does: hand it   *)
(* to its device, answer a ping, or pass it on for others                  *)
(* (handle/recv_data/mod.rs, client.rs, server.rs, turn.rs).               *)
(*                                                                         *)
(* The server is external; the network loses and reorders.  The route      *)
(* tables change under the feet of these handlers (module RouteTable), so  *)
(* each look-up may return any route.                                      *)
(***************************************************************************)
EXTENDS Cipher, FiniteSets, FiniteSetsExt

CONSTANTS
    Nodes,      \* clients, by their virtual address
    Configs,    \* configurations of the clients, one is chosen at the start
    MaxMetric,  \* longest route
    MaxCount    \* peers a broadcast is sent to directly, less one

(* Other addresses: the server's, and those of the virtual network.        *)
Server == "server"
Gateway == "gateway"
Broadcast == "broadcast"
Multicast == "multicast"
Outside == "outside"
WgPeer == "wg"

(* A configuration: cipher and compressor of each client and the cipher    *)
(* towards the server; whether WireGuard peers take part; through whom a   *)
(* client reaches the outside (ip_route), and who lets packets out         *)
(* (AllowExternalRoute); who relays; whether routes lead through others;   *)
(* and, to bound the model, whose devices hand over how many packets for   *)
(* which addresses.                                                        *)

(* Addresses are different, ciphers those there are, and the one towards   *)
(* the server is Cipher::new_key's.                                        *)
ASSUME RelayAssumption ==
    /\ IsFiniteSet(Nodes)
    /\ Nodes \cap {Server, Gateway, Broadcast, Multicast, Outside, WgPeer, None} = {}
    /\ None \notin {Server, Gateway, Broadcast, Multicast, Outside, WgPeer}
    /\ \A c \in Configs :
          /\ \A n \in Nodes : c.cipher[n].model \in Models
          /\ c.serverCipher.model = "aes_gcm"
          /\ \A n \in Nodes : c.ipRoute[n] \in Nodes \cup {None}

VARIABLES
    cfg,
    net,      \* packets in flight
    bufHead,  \* client -> flags in the tun thread's packet buffer
    extHead,  \* client -> flags in its buffer for compressed packets
    reads,    \* packets handed over so far
    offered,  \* history: IP packets that entered the network
    written,  \* history: what was written to which device, with a number
    lost,     \* history: IP packets of which a copy was lost
    noRoom    \* history: a packet did not fit its buffer when it was sealed

vars == <<cfg, net, bufHead, extHead, reads, offered, written, lost, noRoom>>
history == <<offered, written, lost, noRoom>>

Init ==
    /\ cfg \in Configs
    /\ net = {}
    /\ bufHead = [n \in Nodes |-> NoFlags] /\ extHead = [n \in Nodes |-> NoFlags]
    /\ reads = 0
    /\ offered = {} /\ written = {} /\ lost = {}
    /\ noRoom = FALSE

-----------------------------------------------------------------------------
(* IP packets; by is the client whose stack, or whose client, made it.     *)
IpPacket(id, type, src, dst, by) ==
    [kind |-> "ip", id |-> id, type |-> type, src |-> src, dst |-> dst, by |-> by]

(* An echo request turned into a reply: the addresses change places.       *)
EchoReply(ip, by) == IpPacket(ip.id, "pong", ip.dst, ip.src, by)

(* Payload lengths: below and above the 128 bytes compression starts at.   *)
Lens == {60, 200}
ShrunkLen == 100
BufferSize == 65536

(* A packet on its way, with the number of the IP packet it is about.      *)
Msg(from, to, p, id) == [from |-> from, to |-> to, pkt |-> p, about |-> id]

(* What was written to a device; a second copy has another number.         *)
Writes(n, ip) ==
    written' = written \cup
        {[at |-> n, ip |-> ip,
          nth |-> 1 + Cardinality({w \in written : w.at = n /\ w.ip = ip})]}

(* RouteTable::route_one and get_route_by_id: a route of metric 1 leads to *)
(* the peer itself, a longer one to a client or the server that relays.    *)
Routes(n, d) ==
    [via : {d} \cap Nodes, metric : {1}]
    \cup IF cfg.wander THEN [via : (Nodes \cup {Server}) \ {n, d}, metric : 2 .. MaxMetric] ELSE {}

(* Compressor::compress, decompress and the extension tail of four bytes.  *)
Zip(alg, p) ==
    [p EXCEPT !.extension = TRUE, !.len = ShrunkLen + 4,
              !.body = [kind |-> "zip", algorithm |-> alg, of |-> p.body, plainLen |-> p.len]]

(* handle_extension_tail: what it leaves, nothing when it fails.           *)
HandleExtensionTail(p) ==
    IF ~p.extension THEN {p}
    ELSE IF p.body.kind = "zip"
         THEN {[p EXCEPT !.extension = FALSE, !.len = p.body.plainLen, !.body = p.body.of]}
    ELSE {}

-----------------------------------------------------------------------------
(* Sending.                                                                *)

(* send_default and send_by_key put one packet on its way.                 *)
Sends(msgs) == net' = net \cup msgs

(* send_ipv4_by_id: to a route, or when there is none or sending failed,   *)
(* to the server if the client is online and may use it.                   *)
SendIpv4ById(n, p, id) ==
    \/ \E r \in Routes(n, p.dst) :
          Sends({Msg(n, r.via, p, id)}) /\ UNCHANGED lost
    \/ Sends({Msg(n, Server, p, id)}) /\ UNCHANGED lost
    \/ lost' = lost \cup {id} /\ UNCHANGED net

(* Mutant: only a peer without a direct channel calls for the server.      *)
NeedsServer_NoOverflow(peers, tried, direct) == direct # tried

(* Some peer has no direct channel, or there were too many to try.         *)
NeedsServer(peers, tried, direct) == direct # tried \/ tried # peers

(* Mutant: the server is not told who has got the packet already.          *)
ServerCopy_Plain(n, p, direct) == p

(* The packet for the server: as it is when nobody got it, otherwise with  *)
(* the addresses that did, in a packet of its own for the server.          *)
ServerCopy(n, p, direct) ==
    IF direct = {} THEN p
    ELSE Seal(cfg.serverCipher,
              NewPacket([NoFlags EXCEPT !.gateway = TRUE], "Ipv4Broadcast", MaxTtl, p.src, p.dst,
                        [kind |-> "list", done |-> direct, of |-> p],
                        1 + 4 * Cardinality(direct) + HeadLen + p.len))

(* It is built in a buffer with EncryptionReserved bytes to spare.         *)
CopyFits(p, direct) ==
    LET len == 1 + 4 * Cardinality(direct) + HeadLen + p.len
    IN  direct # {} => HasRoom(cfg.serverCipher, [p EXCEPT !.len = len],
                               HeadLen + len + EncryptionReserved)

(* broadcast: the first peers of the list directly where there is a        *)
(* channel, the rest through the server; before that, the copy for         *)
(* WireGuard peers.                                                        *)
SendBroadcast(n, p, id, wgCopy) ==
    LET peers == Nodes \ {n}
    IN  \E tried \in kSubset(Min({MaxCount + 1, Cardinality(peers)}), peers) :
        \E direct \in SUBSET tried :
        \E online \in BOOLEAN :
            LET server == NeedsServer(peers, tried, direct)
            IN  /\ Sends(wgCopy \cup {Msg(n, x, p, id) : x \in direct} \cup
                         IF server /\ online /\ CopyFits(p, direct)
                         THEN {Msg(n, Server, ServerCopy(n, p, direct), id)} ELSE {})
                /\ lost' = IF server /\ ~online THEN lost \cup {id} ELSE lost
                /\ noRoom' = (noRoom \/ (server /\ online /\ ~CopyFits(p, direct)))

(* send_to_wg_broadcast and send_to_wg, and a ping of the gateway: sealed  *)
(* for the server.                                                         *)
ForServer(p, transport) ==
    Seal(cfg.serverCipher, [p EXCEPT !.gateway = TRUE, !.transport = transport])

-----------------------------------------------------------------------------
(* The tun thread, tun_handler::handle.                                    *)

(* Mutant: the flags of the packet before stay.                            *)
Reset_Not(flags) == flags

(* start_simple0 clears the head before each packet.                       *)
Reset(flags) == NoFlags

(* The client pings itself: its own thread answers.                        *)
SelfPing(n, ip, len) ==
    /\ ip.dst = n
    /\ IF ip.type = "ping" THEN Writes(n, EchoReply(ip, n)) ELSE UNCHANGED written
    /\ bufHead' = [bufHead EXCEPT ![n] = Reset(@)]
    /\ UNCHANGED <<net, extHead, offered, lost, noRoom>>

NewHead(n, ip, len) ==
    NewPacket(Reset(bufHead[n]), "Ipv4", 6, ip.src,
              IF ip.dst = Multicast THEN Broadcast ELSE ip.dst, ip, len)

(* Only a ping goes to the gateway, sealed for the server.                 *)
ToGateway(n, ip, len) ==
    /\ ip.dst = Gateway
    /\ LET p == NewHead(n, ip, len)
           q == ForServer(p, "Ipv4")
       IN  IF ip.type = "ping"
           THEN /\ bufHead' = [bufHead EXCEPT ![n] = FlagsOf(q)]
                /\ Sends({Msg(n, Server, q, ip.id)})
           ELSE /\ bufHead' = [bufHead EXCEPT ![n] = FlagsOf(p)]
                /\ UNCHANGED net
    /\ UNCHANGED <<extHead, offered, written, lost, noRoom>>

(* A WireGuard peer is reached through the server only, or, when the       *)
(* client does not take part, not at all.                                  *)
ToWgPeer(n, ip, len) ==
    /\ ip.dst = WgPeer /\ cfg.wireGuard
    /\ LET q == ForServer(NewHead(n, ip, len), "WGIpv4")
       IN  /\ bufHead' = [bufHead EXCEPT ![n] = FlagsOf(q)]
           /\ Sends({Msg(n, Server, q, ip.id)})
    /\ UNCHANGED <<extHead, offered, written, lost, noRoom>>

(* Compressed if the compressor is on, the packet long enough and the      *)
(* result shorter; then in the other buffer, whose flags nobody cleared.   *)
Pack(n, p) ==
    LET alg == cfg.compressor[n]
        into == Zip(alg, [p EXCEPT !.gateway = extHead[n].gateway,
                                   !.encrypt = extHead[n].encrypt])
    IN  IF alg = "none" \/ p.len + HeadLen < 128
        THEN {[pkt |-> p, out |-> extHead[n], zipped |-> FALSE]}
        ELSE {[pkt |-> into, out |-> FlagsOf(into), zipped |-> TRUE],
              [pkt |-> p, out |-> FlagsOf(into), zipped |-> FALSE]}

(* What compressing and sealing leave in the two buffers.                  *)
PackAndSeal(n, p, z) ==
    /\ bufHead' = [bufHead EXCEPT ![n] = FlagsOf(IF z.zipped THEN p ELSE Seal(cfg.cipher[n], p))]
    /\ extHead' = [extHead EXCEPT ![n] = IF z.zipped THEN FlagsOf(Seal(cfg.cipher[n], z.pkt))
                                         ELSE z.out]

(* To a peer, or to the outside through one: dropped without a route       *)
(* there, when the route leads back, or when the peer is known to be gone. *)
ToPeer(n, ip, len) ==
    /\ ip.dst \in (Nodes \ {n}) \cup {Outside} \/ (ip.dst = WgPeer /\ ~cfg.wireGuard)
    /\ LET via == IF ip.dst = Outside THEN cfg.ipRoute[n] ELSE ip.dst
           p == [NewHead(n, ip, len) EXCEPT !.dst = via]
       IN  \/ /\ via \in {None, n} \/ cfg.wireGuard
              /\ bufHead' = [bufHead EXCEPT ![n] = FlagsOf(p)]
              /\ lost' = lost \cup {ip.id}
              /\ UNCHANGED <<net, extHead>>
           \/ /\ via \notin {None, n}
              /\ \E z \in Pack(n, p) :
                    PackAndSeal(n, p, z) /\ SendIpv4ById(n, Seal(cfg.cipher[n], z.pkt), ip.id)
    /\ offered' = offered \cup {ip}
    /\ UNCHANGED <<written, noRoom>>

(* To all: WireGuard peers get a copy of their own, through the server; if *)
(* that cannot be sent, nothing is.                                        *)
ToAll(n, ip, len) ==
    /\ ip.dst \in {Broadcast, Multicast}
    /\ LET p == NewHead(n, ip, len)
           copy == NewPacket(NoFlags, "WGIpv4", 6, n, Broadcast, ip, len)
       IN  \/ /\ cfg.wireGuard
              /\ bufHead' = [bufHead EXCEPT ![n] = FlagsOf(p)]
              /\ lost' = lost \cup {ip.id}
              /\ UNCHANGED <<net, extHead, noRoom>>
           \/ \E z \in Pack(n, p) :
                 /\ PackAndSeal(n, p, z)
                 /\ SendBroadcast(n, Seal(cfg.cipher[n], z.pkt), ip.id,
                                  {Msg(n, Server, ForServer(copy, "WGIpv4"), ip.id) :
                                      x \in {y \in {n} : cfg.wireGuard}})
    /\ offered' = offered \cup {ip}
    /\ UNCHANGED written

(* The device hands over an IP packet.                                     *)
TunRead(n) ==
    /\ n \in cfg.readers /\ reads < cfg.maxReads
    /\ reads' = reads + 1
    /\ \E dst \in cfg.dsts,
          type \in {"data", "ping"}, len \in Lens :
          LET ip == IpPacket(reads + 1, type, n, dst, n)
          IN  \/ SelfPing(n, ip, len)
              \/ ToGateway(n, ip, len)
              \/ ToWgPeer(n, ip, len)
              \/ ToPeer(n, ip, len)
              \/ ToAll(n, ip, len)
    /\ UNCHANGED cfg

-----------------------------------------------------------------------------
(* A client receives, RecvDataHandler::handle0.                            *)
Taken(m, msgs) == net' = (net \ {m}) \cup msgs
Mine(n, p) == p.dst \in {n, Broadcast}
Alive(p) == p.ttl > 0 /\ p.sourceTtl >= p.ttl

(* ClientPacketHandler::ip_turn answers a ping in place: the head keeps    *)
(* its time to live, the buffer is as long as what was received.           *)
Answers(m, q, wasZipped) ==
    LET n == m.to
        reply == EchoReply(q.body, n)
        p == [q EXCEPT !.src = q.dst, !.dst = q.src, !.body = reply]
        fits == HasRoom(cfg.cipher[n], p, IF wasZipped THEN BufferSize ELSE HeadLen + m.pkt.len)
    IN  /\ offered' = offered \cup {reply}
        /\ Taken(m, {Msg(n, m.from, Seal(cfg.cipher[n], p), m.about) : x \in {y \in {n} : fits}})
        /\ noRoom' = (noRoom \/ ~fits)
        /\ UNCHANGED <<written, lost>>

(* What was routed here for the outside leaves only where that is allowed. *)
AllowOut(n, ip) == ip.dst = Outside => cfg.exits[n]

(* ip_turn for the rest: what may leave is written to the device, unless   *)
(* it is for a port of the client itself.                                  *)
HandsOver(m, ip) ==
    /\ Taken(m, {})
    /\ \/ /\ AllowOut(m.to, ip)
          /\ Writes(m.to, ip) /\ UNCHANGED lost
       \/ /\ ip.dst = Outside
          /\ lost' = lost \cup {m.about} /\ UNCHANGED written
    /\ UNCHANGED <<offered, noRoom>>

Drops(m) == Taken(m, {}) /\ UNCHANGED history

(* ClientPacketHandler::handle.                                            *)
ClientHandle(m) ==
    /\ ~m.pkt.gateway /\ Mine(m.to, m.pkt) /\ Alive(m.pkt)
    /\ LET left == UNION {HandleExtensionTail(q) : q \in Open(cfg.cipher[m.to], m.pkt)}
       IN  IF left = {} THEN Drops(m)
           ELSE \E q \in left :
                IF q.body.type = "ping" /\ q.body.dst = q.dst
                THEN Answers(m, q, \E z \in Open(cfg.cipher[m.to], m.pkt) : z.extension)
                ELSE HandsOver(m, q.body)

(* ServerPacketHandler::handle, for IP packets: the gateway's reply, and   *)
(* what comes from WireGuard peers.                                        *)
ServerHandle(m) ==
    /\ m.pkt.gateway /\ Mine(m.to, m.pkt) /\ Alive(m.pkt)
    /\ LET left == Open(cfg.serverCipher, m.pkt)
       IN  IF \E q \in left : \/ q.transport = "Ipv4" /\ q.body.type = "pong" /\ q.body.dst = m.to
                              \/ q.transport = "WGIpv4" /\ cfg.wireGuard
           THEN HandsOver(m, (CHOOSE q \in left : TRUE).body)
           ELSE Drops(m)

(* TurnPacketHandler::handle: one hop less, never back, and only when the  *)
(* route is no longer than the hops that are left.                         *)
Turn(m) ==
    /\ ~Mine(m.to, m.pkt) /\ Alive(m.pkt)
    /\ LET p == IncrTtl(m.pkt)
       IN  \/ Drops(m)
           \/ /\ cfg.relays[m.to] /\ p.ttl > 0 /\ ~p.gateway
              /\ \E r \in Routes(m.to, p.dst) :
                    /\ r.via # m.from /\ r.metric <= p.ttl
                    /\ Taken(m, {Msg(m.to, r.via, p, m.about)})
              /\ UNCHANGED history

Receive(m) ==
    /\ m.to \in Nodes
    /\ \/ ~Alive(m.pkt) /\ Drops(m)
       \/ ClientHandle(m)
       \/ ServerHandle(m)
       \/ Turn(m)
    /\ UNCHANGED <<cfg, bufHead, extHead, reads>>

-----------------------------------------------------------------------------
(* External: the server passes packets between clients on, to all but      *)
(* those on the list of a broadcast, and answers a ping of the gateway.    *)
ForwardTo(p, except) ==
    (IF p.dst = Broadcast THEN Nodes \ {p.src} ELSE {p.dst} \cap Nodes) \ except

ServerForwards(m) ==
    /\ ~m.pkt.gateway
    /\ Taken(m, {Msg(Server, x, m.pkt, m.about) : x \in ForwardTo(m.pkt, {})})
    /\ UNCHANGED history

ServerTakes(m) ==
    /\ m.pkt.gateway
    /\ \E q \in Open(cfg.serverCipher, m.pkt) :
          CASE q.transport = "Ipv4Broadcast" ->
                 /\ Taken(m, {Msg(Server, x, q.body.of, m.about) :
                                 x \in ForwardTo(q.body.of, q.body.done)})
                 /\ UNCHANGED history
            [] q.transport = "Ipv4" ->
                 LET reply == EchoReply(q.body, Server)
                     p == [q EXCEPT !.src = Gateway, !.dst = q.src, !.body = reply]
                 IN  /\ Taken(m, {Msg(Server, q.src, Seal(cfg.serverCipher, p), m.about)})
                     /\ offered' = offered \cup {reply}
                     /\ UNCHANGED <<written, lost, noRoom>>
            [] OTHER -> Drops(m)

ServerReceives(m) ==
    /\ m.to = Server
    /\ ServerForwards(m) \/ ServerTakes(m)
    /\ UNCHANGED <<cfg, bufHead, extHead, reads>>

Lose(m) ==
    /\ net' = net \ {m}
    /\ lost' = lost \cup {m.about}
    /\ UNCHANGED <<cfg, bufHead, extHead, reads, offered, written, noRoom>>

-----------------------------------------------------------------------------
Arrives == \E m \in net : Receive(m) \/ ServerReceives(m)

Next ==
    \/ \E n \in Nodes : TunRead(n)
    \/ Arrives
    \/ \E m \in net : Lose(m)

Spec == Init /\ [][Next]_vars

(* A packet in flight arrives or is lost.                                  *)
FairSpec == Spec /\ WF_vars(Arrives)

-----------------------------------------------------------------------------
(* Whose devices are to get an IP packet.                                  *)
Addressees(ip) ==
    CASE ip.dst \in Nodes -> {ip.dst}
      [] ip.dst \in {Broadcast, Multicast} -> Nodes \ {ip.src}
      [] ip.dst = Outside -> {x \in {cfg.ipRoute[ip.src]} \ {None, ip.src} : cfg.exits[x]}
      [] OTHER -> {}

Answered(x, ip) == \E r \in offered : r.type = "pong" /\ r.id = ip.id /\ r.by = x

Owed ==
    {e \in Nodes \X offered :
        /\ e[1] \in Addressees(e[2])
        /\ ~Answered(e[1], e[2])
        /\ \A w \in written : w.at # e[1] \/ w.ip # e[2]}

(* What a device got: not the answers of its own client, nor the noise a   *)
(* cipher lets through that cannot tell.                                   *)
FromOthers(w) ==
    IF w.ip = Garbage THEN ~Credulous(cfg.cipher[w.at]) ELSE w.ip.by # w.at

Received == [n \in Nodes |-> Cardinality({w \in written : w.at = n /\ FromOthers(w)})]

D == INSTANCE Delivery WITH known <- offered, owed <- Owed, count <- Received

(* The data path keeps the promise of Delivery: whatever the routes and    *)
(* the relays, with compression, broadcasts that go partly directly and    *)
(* partly through the server, and clients that do not share a cipher, a    *)
(* device gets a packet once, unchanged, and only if it is meant for it.   *)
Implements == D!Spec

Same(c, d) == c.model = d.model /\ c.key = d.key /\ c.finger = d.finger
OneCipher == \A n, k \in Nodes : Same(cfg.cipher[n], cfg.cipher[k])

(* What is in flight can be opened by those it is for: packets for the     *)
(* gateway by the server, all others by every client, whatever was in the  *)
(* reused buffer before, however many relays changed the head, and with    *)
(* whichever library the clients were built.                               *)
Openable == OneCipher =>
    \A m \in net :
        \A c \in IF m.pkt.gateway THEN {cfg.serverCipher} ELSE {cfg.cipher[n] : n \in Nodes} :
            \E q \in Open(c, m.pkt) : q.body # Garbage

(* Without a loss everybody gets what was sent, pings their answers: no    *)
(* peer falls between those a broadcast is sent to directly and those the  *)
(* server is left with.                                                    *)
Reaches == OneCipher /\ ~cfg.wander /\ net = {} => \A e \in Owed : e[2].id \in lost

(* The bytes kept free are enough: nothing is dropped for want of room.    *)
RoomToSeal == ~noRoom

(* No packet goes round for ever, whatever circles the routes describe.    *)
Drains == []<>(net = {})
=============================================================================
