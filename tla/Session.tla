------------------------------ MODULE Session -------------------------------
(***************************************************************************)
(* The client's session with its server over UDP: how a client gets        *)
(* connected, notices that it lost the server and connects again.          *)
(*                                                                         *)
(* Four threads share the state: mainUdp and subUdp receive, each with a   *)
(* snapshot of the device info taken when its packet arrives               *)
(* (recv_data/mod.rs, recv_data/server.rs); the scheduler thread expires   *)
(* routes, reconnects and sends heartbeats (maintain/idle.rs,              *)
(* maintain/heartbeat.rs); the natTest thread opens and closes the extra   *)
(* sockets (maintain/re_nat_type.rs).  The server is external; the network *)
(* loses, reorders and duplicates.                                         *)
(***************************************************************************)
EXTENDS Naturals, FiniteSets

CONSTANTS
    Ips,        \* virtual addresses the server may assign
    Interval,   \* reconnect_rebind_interval
    Encrypt,    \* a server cipher is configured
    ServerV6,   \* the server is reached over IPv6
    MaxNet,     \* packets in flight, older ones are lost
    MaxDup,     \* packets the network delivers twice
    MaxForget,  \* how often the server forgets the client
    MayStop,    \* the server may go away for good
    None        \* absent value

(* Channels to the server, as RouteKeys: a main socket, and the first      *)
(* extra socket of the server's address family.  Each has a receive thread.*)
Keys == {"main", "sub"}

Requests == [kind : {"handshake", "secret", "register", "ping"}, key : Keys]
Replies == [kind : {"handshakeResponse", "secretResponse", "pong", "disconnect", "noKey"},
            key : Keys]
        \cup [kind : {"registrationResponse"}, key : Keys, ip : Ips]

Device == [status : {"Connecting", "Connected"}, ip : Ips \cup {None}]
(* A registration being handled; of the snapshot, the address counts.      *)
Handling == [step : {"commit", "finish"}, old : Ips \cup {None}, ip : Ips]
Expiring == [step : {"remove", "down"}, key : Keys, gateway : BOOLEAN]

ASSUME SessionAssumption ==
    /\ Interval \in Nat \ {0}
    /\ MaxNet \in Nat \ {0} /\ MaxDup \in Nat /\ MaxForget \in Nat
    /\ {Encrypt, ServerV6, MayStop} \subseteq BOOLEAN
    /\ None \notin Ips \cup Handling \cup Expiring

VARIABLES
    cur,         \* current_device: status and virtual address
    defaultKey,  \* default_route_key
    sub,         \* sub_udp_socket: "none", those of a "rebind" or "symmetric"
    route,       \* routes to the gateway: key -> "none", "fresh", "stale"
    count,       \* connect_count modulo Interval
    recent,      \* Handshake.time is less than three seconds ago
    rsa,         \* rsa_cipher: the server's public key is known
    handler,     \* receive thread -> registration response being handled
    expiring,    \* the timed-out gateway route idle_route0 is working on
    tunIp,       \* virtual address of the tun device
    failed,      \* history: the device could not be created when it last was to be
    mixed,       \* history: registrations with different addresses overlapped
    net,         \* packets in flight
    dups,        \* duplications so far
    server       \* external: up, has the cipher key, knows the client, lapses

tun == <<tunIp, failed>>
client == <<cur, defaultKey, sub, route, count, recent, rsa, handler, expiring,
            tun, mixed>>
vars == <<cur, defaultKey, sub, route, count, recent, rsa, handler, expiring, tun,
          mixed, net, dups, server>>

Offline == cur.status = "Connecting"

-----------------------------------------------------------------------------
(* send_by_key reaches a socket that exists and is of the right family.    *)
Usable(key) == key = "main" \/ sub = "rebind" \/ (sub = "symmetric" /\ ~ServerV6)

(* send_default: the default channel if there is one, else a main socket.  *)
DefaultChannel == IF defaultKey = None THEN "main" ELSE defaultKey

(* What is in flight after sending; packets to an unusable channel fail.   *)
Sent(before, packets) ==
    LET out == {m \in packets : Usable(m.key)} IN
    IF Cardinality(before \cup out) <= MaxNet THEN before \cup out ELSE out

(* Handshake::send: at most one in three seconds, counted from the last    *)
(* one that could be sent.                                                 *)
SendHandshake(before) ==
    IF recent \/ ~Usable(DefaultChannel)
    THEN net' = before /\ UNCHANGED recent
    ELSE /\ net' = Sent(before, {[kind |-> "handshake", key |-> DefaultChannel]})
         /\ recent' = TRUE

-----------------------------------------------------------------------------
Init ==
    /\ cur = [status |-> "Connecting", ip |-> None]
    /\ defaultKey = None
    /\ sub = "none"
    /\ route = [k \in Keys |-> "none"]
    /\ count = 0
    /\ recent = FALSE
    /\ rsa = FALSE
    /\ handler = [k \in Keys |-> None]
    /\ expiring = None
    /\ tunIp = None /\ failed = FALSE
    /\ mixed = FALSE
    /\ net = {}
    /\ dups = 0
    /\ server = [up |-> TRUE, key |-> FALSE, known |-> FALSE, forgot |-> 0]

(* subUdp registers its sockets from token 0 up, the token of its waker,   *)
(* so it never reads the first of them; the IPv6 one of a rebind is second.*)
Readable(key) == key = "main" \/ (sub = "rebind" /\ ServerV6)

Arrives(m) ==
    /\ m \in net
    /\ Readable(m.key)
    /\ handler[m.key] = None

(* What is in flight once m is delivered, for good or for the first time.  *)
Delivered(m, rest) ==
    \/ rest = net \ {m} /\ UNCHANGED dups
    \/ rest = net /\ dups < MaxDup /\ dups' = dups + 1

(* update_read_time refreshes a route that exists.                         *)
ReadTime(key) == [route EXCEPT ![key] = IF @ = "none" THEN @ ELSE "fresh"]

(* register: only when the snapshot was offline, over the default channel. *)
(* Whether the server's answers to a handshake carry the gateway's address *)
(* as their source, and so refresh its route, is the server's choice.      *)
HandshakeResponse(m) ==
    /\ m.kind = "handshakeResponse" /\ Arrives(m)
    /\ route' \in {route, ReadTime(m.key)}
    /\ defaultKey' = m.key
    /\ rsa' = TRUE
    /\ \E rest \in SUBSET net :
          /\ Delivered(m, rest)
          /\ net' = Sent(rest, IF Encrypt THEN {[kind |-> "secret", key |-> m.key]}
                               ELSE IF Offline THEN {[kind |-> "register", key |-> m.key]}
                               ELSE {})
    /\ UNCHANGED <<cur, sub, count, recent, handler, expiring, tun, mixed,
                   server>>

SecretHandshakeResponse(m) ==
    /\ m.kind = "secretResponse" /\ Arrives(m)
    /\ route' \in {route, ReadTime(m.key)}
    /\ defaultKey' = IF Offline THEN m.key ELSE defaultKey
    /\ \E rest \in SUBSET net :
          /\ Delivered(m, rest)
          /\ net' = Sent(rest, IF Offline THEN {[kind |-> "register", key |-> m.key]}
                               ELSE {})
    /\ UNCHANGED <<cur, sub, count, recent, rsa, handler, expiring, tun, mixed,
                   server>>

(* The server asks for the key.  The one-second limiter on the upload is   *)
(* a lost packet here.                                                     *)
NoKey(m) ==
    /\ m.kind = "noKey" /\ Arrives(m)
    /\ route' \in {route, ReadTime(m.key)}
    /\ \E rest \in SUBSET net :
          /\ Delivered(m, rest)
          /\ net' = Sent(rest, IF rsa THEN {[kind |-> "secret", key |-> m.key]} ELSE {})
    /\ UNCHANGED <<cur, defaultKey, sub, count, recent, rsa, handler, expiring,
                   tun, mixed, server>>

(* The program's callback refuses the server; or the server's key is not   *)
(* the one its fingerprint, or an earlier handshake, says.                 *)
HandshakeRefused(m) ==
    /\ m.kind = "handshakeResponse" /\ Arrives(m)
    /\ route' \in {route, ReadTime(m.key)}
    /\ defaultKey' = m.key
    /\ rsa' = (rsa \/ ~Encrypt)
    /\ Delivered(m, net')
    /\ UNCHANGED <<cur, sub, count, recent, handler, expiring, tun, mixed, server>>

(* RegistrationResponse, until the gateway route is there: it is added if  *)
(* absent, and refreshed as any route is.                                  *)
RegistrationResponse(m) ==
    /\ m.kind = "registrationResponse" /\ Arrives(m)
    /\ route' \in {[r EXCEPT ![m.key] = IF @ = "none" THEN "fresh" ELSE @] :
                       r \in {route, ReadTime(m.key)}}
    /\ handler' = [handler EXCEPT ![m.key] = [step |-> "commit", old |-> cur.ip, ip |-> m.ip]]
    /\ mixed' = (mixed \/ \E t \in Keys : handler[t] # None /\ handler[t].ip # m.ip)
    /\ Delivered(m, net')
    /\ UNCHANGED <<cur, defaultKey, sub, count, recent, rsa, expiring, tun, server>>

(* The program's callback refuses the registration.                        *)
RegistrationRefused(m) ==
    /\ m.kind = "registrationResponse" /\ Arrives(m)
    /\ route' \in {route, ReadTime(m.key)}
    /\ Delivered(m, net')
    /\ UNCHANGED <<cur, defaultKey, sub, count, recent, rsa, handler, expiring, tun,
                   mixed, server>>

(* The compare-and-exchange loop ends on the value it finds.               *)
CommitRegistration(t) ==
    /\ handler[t] # None /\ handler[t].step = "commit"
    /\ cur' = [status |-> "Connected", ip |-> handler[t].ip]
    /\ handler' = [handler EXCEPT ![t].step = "finish"]
    /\ UNCHANGED <<defaultKey, sub, route, count, recent, rsa, expiring, tun, mixed,
                   net, dups, server>>

(* The old device is stopped, the new one created and started; or that     *)
(* fails, the error is reported, and there is none.                        *)
Rebuild(ip) ==
    \/ tunIp' = ip /\ failed' = FALSE
    \/ tunIp' = None /\ failed' = TRUE

(* Mutant: the new address is compared with the committed one.             *)
FinishRegistration_Current(t) ==
    /\ handler[t] # None /\ handler[t].step = "finish"
    /\ IF cur.ip # handler[t].ip THEN Rebuild(handler[t].ip) ELSE UNCHANGED tun
    /\ handler' = [handler EXCEPT ![t] = None]
    /\ UNCHANGED <<cur, defaultKey, sub, route, count, recent, rsa, expiring, mixed,
                   net, dups, server>>

(* The device is rebuilt if the snapshot had another address.              *)
FinishRegistration(t) ==
    /\ handler[t] # None /\ handler[t].step = "finish"
    /\ IF handler[t].old # handler[t].ip THEN Rebuild(handler[t].ip) ELSE UNCHANGED tun
    /\ handler' = [handler EXCEPT ![t] = None]
    /\ UNCHANGED <<cur, defaultKey, sub, route, count, recent, rsa, expiring, mixed,
                   net, dups, server>>

(* A pong whose 16-bit time wrapped around is not measured.                *)
Pong(m) ==
    /\ m.kind = "pong" /\ Arrives(m)
    /\ route' \in {[route EXCEPT ![m.key] = "fresh"], ReadTime(m.key)}
    /\ Delivered(m, net')
    /\ UNCHANGED <<cur, defaultKey, sub, count, recent, rsa, handler, expiring,
                   tun, mixed, server>>

(* Mutant: the status stays.                                               *)
Disconnect_KeepsStatus(m) ==
    /\ m.kind = "disconnect" /\ Arrives(m)
    /\ route' = ReadTime(m.key)
    /\ \E rest \in SUBSET net : Delivered(m, rest) /\ SendHandshake(rest)
    /\ UNCHANGED <<cur, defaultKey, sub, count, rsa, handler, expiring, tun, mixed,
                   server>>

Disconnect(m) ==
    /\ m.kind = "disconnect" /\ Arrives(m)
    /\ route' = ReadTime(m.key)
    /\ cur' = [cur EXCEPT !.status = "Connecting"]
    /\ \E rest \in SUBSET net : Delivered(m, rest) /\ SendHandshake(rest)
    /\ UNCHANGED <<defaultKey, sub, count, rsa, handler, expiring, tun, mixed,
                   server>>

Receive(m) ==
    \/ HandshakeResponse(m)
    \/ HandshakeRefused(m)
    \/ SecretHandshakeResponse(m)
    \/ NoKey(m)
    \/ RegistrationResponse(m)
    \/ RegistrationRefused(m)
    \/ Pong(m)
    \/ Disconnect(m)

-----------------------------------------------------------------------------
(* The scheduler thread does one thing at a time: idle_route0 in three     *)
(* steps, check_gateway_channel or heartbeat0.                             *)

NextIdle(key) ==
    /\ expiring = None
    /\ route[key] = "stale"
    /\ expiring' = [step |-> "remove", key |-> key, gateway |-> cur.ip # None]
    /\ UNCHANGED <<cur, defaultKey, sub, route, count, recent, rsa, handler, tun,
                   mixed, net, dups, server>>

RemoveIdle ==
    /\ expiring # None /\ expiring.step = "remove"
    /\ route' = [route EXCEPT ![expiring.key] = "none"]
    /\ expiring' = IF expiring.gateway THEN [expiring EXCEPT !.step = "down"] ELSE None
    /\ UNCHANGED <<cur, defaultKey, sub, count, recent, rsa, handler, tun, mixed,
                   net, dups, server>>

GatewayTimedOut ==
    /\ expiring # None /\ expiring.step = "down"
    /\ cur' = [cur EXCEPT !.status = "Connecting"]
    /\ expiring' = None
    /\ UNCHANGED <<defaultKey, sub, route, count, recent, rsa, handler, tun, mixed,
                   net, dups, server>>

(* Closing the extra sockets loses what is under way on them.              *)
SubClosed == {m \in net : m.key = "main"}

(* Mutant: the new socket becomes the default channel at once.             *)
Rebind_Default ==
    /\ \/ /\ sub' = "rebind"
          /\ defaultKey' = "sub"
          /\ net' = SubClosed \cup {[kind |-> "handshake", key |-> "sub"]}
       \/ UNCHANGED <<defaultKey, sub, net>>
    /\ UNCHANGED recent

(* The forced new route: the default channel is forgotten, new sockets     *)
(* replace the extra ones and the handshake goes out from them; or opening *)
(* them fails.                                                             *)
Rebind ==
    /\ defaultKey' = None
    /\ \/ /\ sub' = "rebind"
          /\ net' = LET hs == [kind |-> "handshake", key |-> "sub"] IN
                    IF Cardinality(SubClosed \cup {hs}) <= MaxNet
                    THEN SubClosed \cup {hs} ELSE {hs}
       \/ UNCHANGED <<sub, net>>
    /\ UNCHANGED recent

(* Every eight seconds.  An address that cannot be resolved rules the      *)
(* forced new route out for this time.                                     *)
CheckGatewayChannel(dnsOk) ==
    /\ expiring = None
    /\ Offline
    /\ count' = (count + 1) % Interval
    /\ IF dnsOk /\ count' = 0
       THEN Rebind
       ELSE SendHandshake(net) /\ UNCHANGED <<defaultKey, sub>>
    /\ UNCHANGED <<cur, route, rsa, handler, expiring, tun, mixed, dups, server>>

(* heartbeat0: the default channel, and if that fails the routes to the    *)
(* gateway, as many as there are main channels.                            *)
Heartbeat ==
    /\ expiring = None
    /\ LET routes == {k \in Keys : route[k] # "none"}
       IN  \E to \in IF Usable(DefaultChannel) THEN {{DefaultChannel}}
                     ELSE IF routes = {} THEN {{}} ELSE SUBSET routes \ {{}} :
             net' = Sent(net, {[kind |-> "ping", key |-> k] : k \in to})
    /\ UNCHANGED <<client, dups, server>>

(* The natTest thread: ContextInner::switch.                               *)
Switch(natType) ==
    /\ sub' = IF natType = "Cone" THEN "none" ELSE IF sub = "none" THEN "symmetric" ELSE sub
    /\ sub' # sub
    /\ net' = SubClosed
    /\ UNCHANGED <<cur, defaultKey, route, count, recent, rsa, handler, expiring,
                   tun, mixed, dups, server>>

-----------------------------------------------------------------------------
(* Time: a route that hears nothing for ten seconds turns stale, which is  *)
(* longer than a receive thread takes from its route to its commit; the    *)
(* limiter opens.                                                          *)
Silence(key) ==
    /\ route[key] = "fresh"
    /\ handler[key] # None => handler[key].step = "finish"
    /\ route' = [route EXCEPT ![key] = "stale"]
    /\ UNCHANGED <<cur, defaultKey, sub, count, recent, rsa, handler, expiring,
                   tun, mixed, net, dups, server>>

LimiterOpens ==
    /\ recent
    /\ recent' = FALSE
    /\ UNCHANGED <<cur, defaultKey, sub, route, count, rsa, handler, expiring,
                   tun, mixed, net, dups, server>>

Lose(m) ==
    /\ m \in net
    /\ net' = net \ {m}
    /\ UNCHANGED <<client, dups, server>>

(* The server (external) answers over the channel it was asked on.  It     *)
(* tells a client it does not know to connect again, and one whose key it  *)
(* does not have to send it.                                               *)
Answer(m) ==
    IF m.kind = "handshake" THEN {[kind |-> "handshakeResponse", key |-> m.key]}
    ELSE IF m.kind = "secret" THEN {[kind |-> "secretResponse", key |-> m.key]}
    ELSE IF Encrypt /\ ~server.key THEN {[kind |-> "noKey", key |-> m.key]}
    ELSE IF m.kind = "register"
         THEN {[kind |-> "registrationResponse", key |-> m.key, ip |-> ip] : ip \in Ips}
    ELSE {[kind |-> IF server.known THEN "pong" ELSE "disconnect", key |-> m.key]}

ServerAnswers(m) ==
    /\ server.up
    /\ m \in net
    /\ \E reply \in Answer(m) :
          /\ net' = (net \ {m}) \cup {reply}
          /\ server' = [server EXCEPT !.key = @ \/ m.kind = "secret",
                                      !.known = @ \/ reply.kind = "registrationResponse"]
    /\ UNCHANGED <<client, dups>>

(* It restarts, or it gives the client up.                                 *)
ServerForgets ==
    /\ server.up /\ server.known /\ server.forgot < MaxForget
    /\ \E keyToo \in BOOLEAN :
          server' = [server EXCEPT !.known = FALSE, !.key = @ /\ ~keyToo, !.forgot = @ + 1]
    /\ UNCHANGED <<client, net, dups>>

ServerStops ==
    /\ MayStop /\ server.up
    /\ server' = [server EXCEPT !.up = FALSE]
    /\ UNCHANGED <<client, net, dups>>

Next ==
    \/ \E m \in Replies : Receive(m)
    \/ \E t \in Keys : CommitRegistration(t) \/ FinishRegistration(t)
    \/ \E k \in Keys : NextIdle(k)
    \/ RemoveIdle
    \/ GatewayTimedOut
    \/ \E dnsOk \in BOOLEAN : CheckGatewayChannel(dnsOk)
    \/ Heartbeat
    \/ \E natType \in {"Cone", "Symmetric"} : Switch(natType)
    \/ \E k \in Keys : Silence(k)
    \/ LimiterOpens
    \/ \E m \in Requests \cup Replies : Lose(m)
    \/ \E m \in Requests : ServerAnswers(m)
    \/ ServerForgets
    \/ ServerStops

Spec == Init /\ [][Next]_vars

(* The receive threads finish what they began, the scheduler thread keeps  *)
(* running and time passes: without a server every route turns stale.      *)
ThreadsRun ==
    /\ \A t \in Keys : WF_vars(CommitRegistration(t)) /\ WF_vars(FinishRegistration(t))
    /\ \A k \in Keys : WF_vars(NextIdle(k)) /\ WF_vars(~server.up /\ Silence(k))
    /\ WF_vars(RemoveIdle) /\ WF_vars(GatewayTimedOut)
    /\ WF_vars(LimiterOpens)

(* The scheduler is one thread, busy with one task while the others wait,  *)
(* hence strong fairness of the reconnects and heartbeats.  The server     *)
(* answers, the network does not lose the same kind of packet on the main  *)
(* channel for ever, and the program does not refuse every answer.         *)
SecretKinds == IF Encrypt THEN {"secret", "secretResponse", "noKey"} ELSE {}

Fairness ==
    /\ ThreadsRun
    /\ SF_vars(\E dnsOk \in BOOLEAN : CheckGatewayChannel(dnsOk))
    /\ SF_vars(Heartbeat)
    /\ \A kind \in {"handshake", "register", "ping"} \cup (SecretKinds \cap {"secret"}) :
          SF_vars(ServerAnswers([kind |-> kind, key |-> "main"]))
    /\ \A kind \in {"disconnect"} \cup (SecretKinds \ {"secret"}) :
          SF_vars(\E m \in Replies : m.kind = kind /\ m.key = "main" /\ Receive(m))
    /\ SF_vars(\E m \in Replies : m.key = "main" /\ HandshakeResponse(m))
    /\ SF_vars(\E m \in Replies : m.key = "main" /\ RegistrationResponse(m))

FairSpec == Spec /\ Fairness

RunningSpec == Spec /\ ThreadsRun

-----------------------------------------------------------------------------
TypeOK ==
    /\ cur \in Device
    /\ defaultKey \in Keys \cup {None}
    /\ sub \in {"none", "rebind", "symmetric"}
    /\ route \in [Keys -> {"none", "fresh", "stale"}]
    /\ count \in 0..(Interval - 1)
    /\ recent \in BOOLEAN /\ rsa \in BOOLEAN
    /\ handler \in [Keys -> {None} \cup Handling]
    /\ expiring \in {None} \cup Expiring
    /\ tunIp \in Ips \cup {None} /\ failed \in BOOLEAN
    /\ mixed \in BOOLEAN
    /\ net \subseteq Requests \cup Replies
    /\ dups \in 0..MaxDup
    /\ server \in [up : BOOLEAN, key : BOOLEAN, known : BOOLEAN, forgot : 0..MaxForget]

(* While no registration is being handled the tun device has the address   *)
(* the client goes by: each receive thread decides from its own snapshot   *)
(* whether to rebuild the device, long after the other one may have        *)
(* changed the device info, or may have failed to rebuild it.  Excepted    *)
(* are a device that could not be created, which stays away until the      *)
(* address changes, and overlapping registrations with different addresses,*)
(* the last of which to finish need not be the last that committed.        *)
TunMatches ==
    (\A t \in Keys : handler[t] = None) /\ ~mixed
        => tunIp = cur.ip \/ (failed /\ tunIp = None)

(* While the server is up a client that lost it gets connected again,      *)
(* whatever the rebinds, the NAT test and the network do.                  *)
KeepsReconnecting == []<>(~Offline \/ ~server.up)

(* A server that forgot the client, or its key, learns of it again: the    *)
(* client notices through its heartbeats although it believes itself       *)
(* connected.                                                              *)
ServerLearnsAgain == ~server.known ~> server.known \/ ~server.up

(* A client whose server is gone for good stops believing in the           *)
(* connection: its gateway route times out and the status changes.         *)
ServerLossNoticed == ~server.up ~> Offline
=============================================================================
