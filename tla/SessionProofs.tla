--------------------------- MODULE SessionProofs ----------------------------
(***************************************************************************)
(* Type correctness of the session, and the agreement of tun device and    *)
(* device info: two receive threads handle registrations, each by its own  *)
(* snapshot, while other threads change the device info.                   *)
(***************************************************************************)
EXTENDS Session, TLAPS

Busy(t, step) == handler[t] # None /\ handler[t].step = step

DeviceGood == tunIp = cur.ip \/ (failed /\ tunIp = None)

(* As long as no registrations with different addresses have overlapped:   *)
(* the first of those under way to commit an address new to the client     *)
(* still has a snapshot with the old one, and will rebuild the device.     *)
TunInv == ~mixed =>
    /\ \A t, u \in Keys : handler[t] # None /\ handler[u] # None
                            => handler[t].ip = handler[u].ip
    /\ \A t \in Keys : Busy(t, "finish") => cur.ip = handler[t].ip
    /\ \A t \in Keys : Busy(t, "commit")
                            => handler[t].old = cur.ip \/ cur.ip = handler[t].ip
    /\ \/ DeviceGood
       \/ \E t \in Keys : Busy(t, "finish") /\ handler[t].old # handler[t].ip

LEMMA SentType ==
    ASSUME NEW before \in SUBSET (Requests \cup Replies),
           NEW packets \in SUBSET (Requests \cup Replies)
    PROVE  Sent(before, packets) \in SUBSET (Requests \cup Replies)
  BY DEF Sent

LEMMA PacketTypes ==
    ASSUME NEW k \in Keys
    PROVE  /\ \A kind \in {"handshake", "secret", "register", "ping"} :
                 [kind |-> kind, key |-> k] \in Requests
           /\ \A kind \in {"handshakeResponse", "secretResponse", "pong", "disconnect", "noKey"} :
                 [kind |-> kind, key |-> k] \in Replies
           /\ \A ip \in Ips : [kind |-> "registrationResponse", key |-> k, ip |-> ip] \in Replies
  BY DEF Requests, Replies

LEMMA ReplyKey ==
    ASSUME NEW m \in Replies
    PROVE  m.key \in Keys /\ (m.kind = "registrationResponse" => m.ip \in Ips)
  BY DEF Replies

LEMMA RequestKey == ASSUME NEW m \in Requests PROVE m.key \in Keys
  BY DEF Requests

LEMMA SendHandshakeType ==
    ASSUME TypeOK, NEW before \in SUBSET net, SendHandshake(before)
    PROVE  net' \subseteq Requests \cup Replies /\ recent' \in BOOLEAN
  <1>1. DefaultChannel \in Keys
    BY DEF TypeOK, DefaultChannel, Keys
  <1>2. {[kind |-> "handshake", key |-> DefaultChannel]} \in SUBSET (Requests \cup Replies)
    BY <1>1, PacketTypes
  <1>3. before \in SUBSET (Requests \cup Replies)
    BY DEF TypeOK
  <1>4. Sent(before, {[kind |-> "handshake", key |-> DefaultChannel]})
           \in SUBSET (Requests \cup Replies)
    BY <1>2, <1>3, SentType
  <1>5. recent \in BOOLEAN
    BY DEF TypeOK
  <1> QED  BY <1>3, <1>4, <1>5 DEF SendHandshake

LEMMA DeliveredType ==
    ASSUME TypeOK, NEW m, NEW rest \in SUBSET net, Delivered(m, rest)
    PROVE  dups' \in 0..MaxDup
  BY SessionAssumption DEF Delivered, TypeOK

LEMMA RouteTypes ==
    ASSUME TypeOK, NEW k \in Keys
    PROVE  /\ ReadTime(k) \in [Keys -> {"none", "fresh", "stale"}]
           /\ \A v \in {"none", "fresh", "stale"} :
                 [route EXCEPT ![k] = v] \in [Keys -> {"none", "fresh", "stale"}]
  BY DEF TypeOK, ReadTime

-----------------------------------------------------------------------------
LEMMA InitType == Init => TypeOK /\ TunInv
  <1> SUFFICES ASSUME Init PROVE TypeOK /\ TunInv
    OBVIOUS
  <1>1. cur \in Device /\ cur.ip = None
    BY DEF Init, Device
  <1>2. server \in [up : BOOLEAN, key : BOOLEAN, known : BOOLEAN, forgot : 0..MaxForget]
    BY SessionAssumption DEF Init
  <1>3. count \in 0..(Interval - 1) /\ dups \in 0..MaxDup
    BY SessionAssumption DEF Init
  <1>4. TypeOK
    BY <1>1, <1>2, <1>3 DEF Init, TypeOK
  <1>5. TunInv
    BY <1>1 DEF Init, TunInv, DeviceGood, Busy, Keys
  <1> QED  BY <1>4, <1>5

LEMMA ReceiveType ==
    ASSUME TypeOK, NEW m \in Replies, Receive(m)
    PROVE  TypeOK'
  <1>0. m.key \in Keys
    BY ReplyKey
  <1>1. CASE HandshakeResponse(m)
    <2>1. net' \subseteq Requests \cup Replies /\ dups' \in 0..MaxDup
      <3> DEFINE out == IF Encrypt THEN {[kind |-> "secret", key |-> m.key]}
                        ELSE IF Offline THEN {[kind |-> "register", key |-> m.key]}
                        ELSE {}
      <3>1. PICK rest \in SUBSET net : /\ Delivered(m, rest)
               /\ net' = Sent(rest, out)
        BY <1>1 DEF HandshakeResponse
      <3>2. rest \in SUBSET (Requests \cup Replies)
        BY DEF TypeOK
      <3>3. out \in SUBSET (Requests \cup Replies)
        BY <1>0, PacketTypes
      <3> HIDE DEF out
      <3> QED  BY <3>1, <3>2, <3>3, SentType, DeliveredType
    <2> QED  BY <1>0, <1>1, <2>1, RouteTypes, ZenonT(60) DEF TypeOK, HandshakeResponse, tun
  <1>2. CASE SecretHandshakeResponse(m)
    <2>1. net' \subseteq Requests \cup Replies /\ dups' \in 0..MaxDup
      <3> DEFINE out == IF Offline THEN {[kind |-> "register", key |-> m.key]}
                        ELSE {}
      <3>1. PICK rest \in SUBSET net : /\ Delivered(m, rest)
               /\ net' = Sent(rest, out)
        BY <1>2 DEF SecretHandshakeResponse
      <3>2. rest \in SUBSET (Requests \cup Replies)
        BY DEF TypeOK
      <3>3. out \in SUBSET (Requests \cup Replies)
        BY <1>0, PacketTypes
      <3> HIDE DEF out
      <3> QED  BY <3>1, <3>2, <3>3, SentType, DeliveredType
    <2>2. route' \in [Keys -> {"none", "fresh", "stale"}]
      BY <1>0, <1>2, RouteTypes DEF TypeOK, SecretHandshakeResponse
    <2>3. defaultKey' \in Keys \cup {None}
      BY <1>0, <1>2 DEF TypeOK, SecretHandshakeResponse
    <2>4. UNCHANGED <<cur, sub, count, recent, rsa, handler, expiring, tun,
                      mixed, server>>
      BY <1>2 DEF SecretHandshakeResponse
    <2> QED  BY <2>1, <2>2, <2>3, <2>4 DEF TypeOK, tun
  <1>3. CASE NoKey(m)
    <2>1. net' \subseteq Requests \cup Replies /\ dups' \in 0..MaxDup
      <3> DEFINE out == IF rsa THEN {[kind |-> "secret", key |-> m.key]} ELSE {}
      <3>1. PICK rest \in SUBSET net : /\ Delivered(m, rest)
               /\ net' = Sent(rest, out)
        BY <1>3 DEF NoKey
      <3>2. rest \in SUBSET (Requests \cup Replies)
        BY DEF TypeOK
      <3>3. out \in SUBSET (Requests \cup Replies)
        BY <1>0, PacketTypes
      <3> HIDE DEF out
      <3> QED  BY <3>1, <3>2, <3>3, SentType, DeliveredType
    <2>2. route' \in [Keys -> {"none", "fresh", "stale"}]
      BY <1>0, <1>3, RouteTypes DEF TypeOK, NoKey
    <2>3. UNCHANGED <<cur, defaultKey, sub, count, recent, rsa, handler, expiring,
                      tun, mixed, server>>
      BY <1>3 DEF NoKey
    <2> QED  BY <2>1, <2>2, <2>3 DEF TypeOK, tun
  <1>4. CASE RegistrationResponse(m)
    <2>1. net' \subseteq Requests \cup Replies /\ dups' \in 0..MaxDup
      BY <1>4, SessionAssumption DEF RegistrationResponse, Delivered, TypeOK
    <2>2. [step |-> "commit", old |-> cur.ip, ip |-> m.ip] \in Handling
      BY <1>4, ReplyKey DEF RegistrationResponse, TypeOK, Handling, Device
    <2>3. handler' \in [Keys -> {None} \cup Handling]
      BY <1>4, <2>2, <1>0 DEF RegistrationResponse, TypeOK, Handling
    <2>4. route' \in [Keys -> {"none", "fresh", "stale"}]
      <3>1. PICK r \in {route, ReadTime(m.key)} :
               route' = [r EXCEPT ![m.key] = IF @ = "none" THEN "fresh" ELSE @]
        BY <1>4 DEF RegistrationResponse
      <3>2. r \in [Keys -> {"none", "fresh", "stale"}]
        BY <1>0, RouteTypes DEF TypeOK
      <3> QED  BY <1>0, <3>1, <3>2
    <2>5. mixed' \in BOOLEAN
      BY <1>4 DEF RegistrationResponse
    <2>6. UNCHANGED <<cur, defaultKey, sub, count, recent, rsa, expiring, tun, server>>
      BY <1>4 DEF RegistrationResponse
    <2> QED  BY <2>1, <2>3, <2>4, <2>5, <2>6 DEF TypeOK, tun
  <1>5. CASE Pong(m)
    <2>1. net' \subseteq Requests \cup Replies /\ dups' \in 0..MaxDup
      BY <1>5, SessionAssumption DEF Pong, Delivered, TypeOK
    <2> QED  BY <1>0, <1>5, <2>1, RouteTypes DEF TypeOK, Pong, tun
  <1>6. CASE Disconnect(m)
    <2>1. net' \subseteq Requests \cup Replies /\ recent' \in BOOLEAN /\ dups' \in 0..MaxDup
      BY <1>6, SendHandshakeType, DeliveredType DEF Disconnect
    <2>2. cur' \in Device
      BY <1>6 DEF Disconnect, TypeOK, Device
    <2> QED  BY <1>0, <1>6, <2>1, <2>2, RouteTypes DEF TypeOK, Disconnect, tun
  <1>7. CASE HandshakeRefused(m) \/ RegistrationRefused(m)
    <2>1. net' \subseteq Requests \cup Replies /\ dups' \in 0..MaxDup
      BY <1>7, SessionAssumption DEF HandshakeRefused, RegistrationRefused, Delivered, TypeOK
    <2>2. rsa' \in BOOLEAN /\ defaultKey' \in Keys \cup {None}
      BY <1>0, <1>7, SessionAssumption DEF HandshakeRefused, RegistrationRefused, TypeOK
    <2>3. route' \in [Keys -> {"none", "fresh", "stale"}]
      BY <1>0, <1>7, RouteTypes DEF HandshakeRefused, RegistrationRefused, TypeOK
    <2>4. UNCHANGED <<cur, sub, count, recent, handler, expiring, tun, mixed, server>>
      BY <1>7 DEF HandshakeRefused, RegistrationRefused
    <2> QED  BY <2>1, <2>2, <2>3, <2>4 DEF TypeOK, tun
  <1> QED  BY <1>1, <1>2, <1>3, <1>4, <1>5, <1>6, <1>7 DEF Receive

LEMMA RegistrationType ==
    ASSUME TypeOK, NEW t \in Keys, CommitRegistration(t) \/ FinishRegistration(t)
    PROVE  TypeOK'
  <1>0. handler \in [Keys -> {None} \cup Handling] /\ handler[t] \in Handling
    BY DEF TypeOK, Handling, CommitRegistration, FinishRegistration
  <1>1. CASE CommitRegistration(t)
    <2>1. cur' \in Device
      BY <1>0, <1>1 DEF CommitRegistration, Device, Handling
    <2>2. [handler[t] EXCEPT !.step = "finish"] \in Handling
      BY <1>0 DEF Handling
    <2>3. handler' \in [Keys -> {None} \cup Handling]
      BY <1>0, <1>1, <2>2 DEF CommitRegistration
    <2> QED  BY <1>1, <2>1, <2>3, SessionAssumption DEF TypeOK, CommitRegistration, Handling, tun
  <1>2. CASE FinishRegistration(t)
    <2>1. handler' \in [Keys -> {None} \cup Handling]
      BY <1>0, <1>2 DEF FinishRegistration
    <2>2. tunIp' \in Ips \cup {None} /\ failed' \in BOOLEAN
      BY <1>0, <1>2 DEF FinishRegistration, Rebuild, TypeOK, Handling, tun
    <2> QED  BY <1>2, <2>1, <2>2 DEF TypeOK, FinishRegistration, Handling
  <1> QED  BY <1>1, <1>2

LEMMA IdleType ==
    ASSUME TypeOK, (\E k \in Keys : NextIdle(k)) \/ RemoveIdle \/ GatewayTimedOut
    PROVE  TypeOK'
  <1>0. expiring \in {None} \cup Expiring
    BY DEF TypeOK, Expiring
  <1>1. CASE \E k \in Keys : NextIdle(k)
    <2>1. PICK k \in Keys : NextIdle(k)
      BY <1>1
    <2>2. expiring' \in Expiring
      BY <2>1 DEF NextIdle, Expiring
    <2> QED  BY <2>1, <2>2 DEF TypeOK, tun, NextIdle, Expiring
  <1>2. CASE RemoveIdle
    <2>1. expiring \in Expiring
      BY <1>0, <1>2 DEF RemoveIdle
    <2>2. expiring' \in {None} \cup Expiring /\ expiring.key \in Keys
      BY <1>2, <2>1 DEF RemoveIdle, Expiring
    <2> QED  BY <1>2, <2>2, RouteTypes DEF TypeOK, tun, RemoveIdle, Expiring
  <1>3. CASE GatewayTimedOut
    <2>1. cur' \in Device
      BY <1>3 DEF GatewayTimedOut, TypeOK, Device
    <2> QED  BY <1>3, <2>1 DEF TypeOK, tun, GatewayTimedOut
  <1> QED  BY <1>1, <1>2, <1>3

LEMMA CheckGatewayType ==
    ASSUME TypeOK, NEW dnsOk \in BOOLEAN, CheckGatewayChannel(dnsOk)
    PROVE  TypeOK'
  <1>1. count' \in 0..(Interval - 1)
    <2>1. Interval \in Nat /\ Interval > 0 /\ count \in Nat
      BY SessionAssumption DEF TypeOK
    <2> QED  BY <2>1 DEF CheckGatewayChannel
  <1>2. CASE Rebind
    <2>1. [kind |-> "handshake", key |-> "sub"] \in Requests
      BY PacketTypes DEF Keys
    <2>2. net' \subseteq Requests \cup Replies
      BY <1>2, <2>1 DEF Rebind, SubClosed, TypeOK
    <2> QED  BY <1>1, <1>2, <2>2 DEF TypeOK, tun, CheckGatewayChannel, Rebind
  <1>3. CASE SendHandshake(net) /\ UNCHANGED <<defaultKey, sub>>
    <2>1. net' \subseteq Requests \cup Replies /\ recent' \in BOOLEAN
      BY <1>3, SendHandshakeType
    <2> QED  BY <1>1, <1>3, <2>1 DEF TypeOK, tun, CheckGatewayChannel
  <1> QED  BY <1>2, <1>3 DEF CheckGatewayChannel

LEMMA HeartbeatType == ASSUME TypeOK, Heartbeat PROVE TypeOK'
  <1>1. net' \subseteq Requests \cup Replies
    <2>1. DefaultChannel \in Keys
      BY DEF TypeOK, DefaultChannel, Keys
    <2>2. PICK to \in SUBSET Keys : net' = Sent(net, {[kind |-> "ping", key |-> k] : k \in to})
      BY <2>1 DEF Heartbeat
    <2>3. {[kind |-> "ping", key |-> k] : k \in to} \in SUBSET (Requests \cup Replies)
      BY PacketTypes
    <2> QED  BY <2>2, <2>3, SentType DEF TypeOK
  <1> QED  BY <1>1 DEF TypeOK, Heartbeat, client, tun

LEMMA EnvironmentType ==
    ASSUME TypeOK,
           \/ \E natType \in {"Cone", "Symmetric"} : Switch(natType)
           \/ \E k \in Keys : Silence(k)
           \/ LimiterOpens
           \/ \E m \in Requests \cup Replies : Lose(m)
    PROVE  TypeOK'
  <1>1. CASE \E natType \in {"Cone", "Symmetric"} : Switch(natType)
    BY <1>1 DEF TypeOK, tun, Switch, SubClosed
  <1>2. CASE \E k \in Keys : Silence(k)
    BY <1>2, RouteTypes DEF TypeOK, tun, Silence
  <1>3. CASE LimiterOpens
    BY <1>3 DEF TypeOK, tun, LimiterOpens
  <1>4. CASE \E m \in Requests \cup Replies : Lose(m)
    BY <1>4 DEF TypeOK, Lose, client, tun
  <1> QED  BY <1>1, <1>2, <1>3, <1>4

LEMMA ServerType ==
    ASSUME TypeOK, (\E m \in Requests : ServerAnswers(m)) \/ ServerForgets \/ ServerStops
    PROVE  TypeOK'
  <1> DEFINE Server == [up : BOOLEAN, key : BOOLEAN, known : BOOLEAN, forgot : 0..MaxForget]
  <1>0. server \in Server
    BY DEF TypeOK
  <1>1. CASE \E m \in Requests : ServerAnswers(m)
    <2>1. PICK m \in Requests : ServerAnswers(m)
      BY <1>1
    <2>2. PICK reply \in Answer(m) :
             /\ net' = (net \ {m}) \cup {reply}
             /\ server' = [server EXCEPT !.key = @ \/ m.kind = "secret",
                                         !.known = @ \/ reply.kind = "registrationResponse"]
      BY <2>1 DEF ServerAnswers
    <2>3. reply \in Replies
      BY <2>1, <2>2, RequestKey, PacketTypes DEF Answer
    <2>4. server' \in Server
      <3>1. PICK key \in BOOLEAN, known \in BOOLEAN :
               server' = [server EXCEPT !.key = key, !.known = known]
        BY <1>0, <2>2
      <3> QED  BY <1>0, <3>1
    <2>5. net' \subseteq Requests \cup Replies
      BY <2>2, <2>3 DEF TypeOK
    <2> QED  BY <2>1, <2>4, <2>5 DEF TypeOK, ServerAnswers, client, tun
  <1>2. CASE ServerForgets
    <2>1. server' \in Server
      <3>1. PICK keyToo \in BOOLEAN :
               server' = [server EXCEPT !.known = FALSE, !.key = @ /\ ~keyToo, !.forgot = @ + 1]
        BY <1>2 DEF ServerForgets
      <3>2. server.forgot + 1 \in 0..MaxForget
        <4>1. server.forgot \in 0..MaxForget /\ MaxForget \in Nat
          BY <1>0, SessionAssumption
        <4>2. server.forgot < MaxForget
          BY <1>2 DEF ServerForgets
        <4> HIDE <1>2
        <4> QED  BY <4>1, <4>2
      <3>3. (server.key /\ ~keyToo) \in BOOLEAN
        OBVIOUS
      <3>4. PICK key \in BOOLEAN, forgot \in 0..MaxForget :
               server' = [server EXCEPT !.known = FALSE, !.key = key, !.forgot = forgot]
        BY <3>1, <3>2, <3>3
      <3> QED  BY <1>0, <3>4
    <2> QED  BY <1>2, <2>1 DEF TypeOK, ServerForgets, client, tun
  <1>3. CASE ServerStops
    <2>1. server' \in Server
      BY <1>0, <1>3 DEF ServerStops
    <2> QED  BY <1>3, <2>1 DEF TypeOK, ServerStops, client, tun
  <1> QED  BY <1>1, <1>2, <1>3

LEMMA NextType == TypeOK /\ [Next]_vars => TypeOK'
  <1> SUFFICES ASSUME TypeOK, [Next]_vars PROVE TypeOK'
    OBVIOUS
  <1>1. CASE UNCHANGED vars
    BY <1>1 DEF vars, tun, TypeOK
  <1>2. CASE Next
    BY <1>2, ReceiveType, RegistrationType, IdleType, CheckGatewayType, HeartbeatType,
       EnvironmentType, ServerType DEF Next
  <1> QED  BY <1>1, <1>2

(* The session keeps its types, whatever the network and the server do.    *)
THEOREM TypeCorrect == Spec => []TypeOK
  BY InitType, NextType, PTL DEF Spec

-----------------------------------------------------------------------------
(* A step that changes neither the device, nor the address, nor a handler. *)
LEMMA TunQuiet ==
    ASSUME TunInv, UNCHANGED <<tun, handler, mixed>>, cur'.ip = cur.ip
    PROVE  TunInv'
  BY DEF TunInv, DeviceGood, Busy, tun

(* A registration begins: it is one with those under way, and its snapshot *)
(* has the client's address.                                               *)
LEMMA TunBegin ==
    ASSUME TypeOK, TunInv, NEW m \in Replies, RegistrationResponse(m)
    PROVE  TunInv'
  <1> SUFFICES ASSUME ~mixed' PROVE TunInv'
    BY DEF TunInv
  <1> DEFINE h == [step |-> "commit", old |-> cur.ip, ip |-> m.ip]
  <1>1. m.key \in Keys /\ handler[m.key] = None
    BY ReplyKey DEF RegistrationResponse, Arrives
  <1>2. handler' = [handler EXCEPT ![m.key] = h]
    BY DEF RegistrationResponse
  <1>3. /\ ~mixed
        /\ \A t \in Keys : handler[t] # None => handler[t].ip = m.ip
    BY DEF RegistrationResponse
  <1>4. UNCHANGED <<cur, tunIp, failed>>
    BY DEF RegistrationResponse, tun
  <1>5. DOMAIN handler = Keys
    BY DEF TypeOK
  <1>6. handler'[m.key] = h /\ \A t \in Keys \ {m.key} : handler'[t] = handler[t]
    BY <1>1, <1>2, <1>5
  <1>7. h.step = "commit" /\ h.old = cur.ip /\ h.ip = m.ip
    OBVIOUS
  <1> HIDE DEF h
  <1>8. \A t, u \in Keys : handler'[t] # None /\ handler'[u] # None
                              => handler'[t].ip = handler'[u].ip
    BY <1>3, <1>6, <1>7
  <1>9. \A t \in Keys : Busy(t, "finish")' => cur'.ip = handler'[t].ip
    BY <1>3, <1>4, <1>6, <1>7 DEF TunInv, Busy
  <1>10. \A t \in Keys : Busy(t, "commit")'
                             => handler'[t].old = cur'.ip \/ cur'.ip = handler'[t].ip
    BY <1>3, <1>4, <1>6, <1>7 DEF TunInv, Busy
  <1>11. DeviceGood' \/ \E t \in Keys : Busy(t, "finish")' /\ handler'[t].old # handler'[t].ip
    <2>1. CASE DeviceGood
      BY <1>4, <2>1 DEF DeviceGood
    <2>2. CASE \E t \in Keys : Busy(t, "finish") /\ handler[t].old # handler[t].ip
      BY <1>1, <1>6, <2>2 DEF Busy
    <2> QED  BY <1>3, <2>1, <2>2 DEF TunInv
  <1> QED  BY <1>8, <1>9, <1>10, <1>11 DEF TunInv

(* The address is committed: if it is new, none under way has finished, so *)
(* the device was good, and this thread has seen the old one.              *)
LEMMA TunCommit ==
    ASSUME TypeOK, TunInv, NEW t \in Keys, CommitRegistration(t)
    PROVE  TunInv'
  <1> SUFFICES ASSUME ~mixed' PROVE TunInv'
    BY DEF TunInv
  <1>1. ~mixed /\ UNCHANGED <<tunIp, failed>>
    BY DEF CommitRegistration, tun
  <1>2. handler[t] \in Handling /\ handler[t] # None /\ handler[t].step = "commit"
    BY DEF TypeOK, Handling, CommitRegistration
  <1> DEFINE h == [handler[t] EXCEPT !.step = "finish"]
  <1>3. h \in Handling /\ h.step = "finish" /\ h.old = handler[t].old /\ h.ip = handler[t].ip
    BY <1>2 DEF Handling
  <1>4. h # None
    BY <1>3, SessionAssumption
  <1>5. handler'[t] = h /\ \A u \in Keys \ {t} : handler'[u] = handler[u]
    BY DEF CommitRegistration, TypeOK
  <1>6. cur'.ip = handler[t].ip
    BY DEF CommitRegistration
  <1> HIDE DEF h
  <1>7. \A u \in Keys : handler'[u] # None => handler'[u].ip = handler[t].ip
    BY <1>1, <1>2, <1>3, <1>5 DEF TunInv
  <1>8. DeviceGood' \/ \E u \in Keys : Busy(u, "finish")' /\ handler'[u].old # handler'[u].ip
    <2>1. CASE cur.ip = handler[t].ip
      <3>1. CASE DeviceGood
        BY <1>1, <1>6, <2>1, <3>1 DEF DeviceGood
      <3>2. CASE \E u \in Keys : Busy(u, "finish") /\ handler[u].old # handler[u].ip
        BY <1>2, <1>5, <3>2 DEF Busy
      <3> QED  BY <1>1, <3>1, <3>2 DEF TunInv
    <2>2. CASE cur.ip # handler[t].ip
      BY <1>1, <1>2, <1>3, <1>4, <1>5, <2>2 DEF TunInv, Busy
    <2> QED  BY <2>1, <2>2
  <1> QED  BY <1>6, <1>7, <1>8 DEF TunInv, Busy

(* The device is rebuilt, or fails to be; or it is left as it is by a      *)
(* thread that need not see to it.                                         *)
LEMMA TunFinish ==
    ASSUME TypeOK, TunInv, NEW t \in Keys, FinishRegistration(t)
    PROVE  TunInv'
  <1> SUFFICES ASSUME ~mixed' PROVE TunInv'
    BY DEF TunInv
  <1>1. ~mixed /\ UNCHANGED cur
    BY DEF FinishRegistration
  <1>2. Busy(t, "finish") /\ cur.ip = handler[t].ip
    BY <1>1 DEF FinishRegistration, TunInv, Busy
  <1>3. handler'[t] = None /\ \A u \in Keys \ {t} : handler'[u] = handler[u]
    BY DEF FinishRegistration, TypeOK
  <1>4. DeviceGood' \/ \E u \in Keys : Busy(u, "finish")' /\ handler'[u].old # handler'[u].ip
    <2>1. CASE handler[t].old # handler[t].ip
      BY <1>1, <1>2, <2>1 DEF FinishRegistration, Rebuild, DeviceGood
    <2>2. CASE handler[t].old = handler[t].ip
      <3>1. UNCHANGED <<tunIp, failed>>
        BY <2>2 DEF FinishRegistration, tun
      <3>2. CASE DeviceGood
        BY <1>1, <3>1, <3>2 DEF DeviceGood
      <3>3. CASE \E u \in Keys : Busy(u, "finish") /\ handler[u].old # handler[u].ip
        BY <1>3, <2>2, <3>3 DEF Busy
      <3> QED  BY <1>1, <3>2, <3>3 DEF TunInv
    <2> QED  BY <2>1, <2>2
  <1>5. /\ \A u, v \in Keys : handler'[u] # None /\ handler'[v] # None
                                => handler'[u].ip = handler'[v].ip
        /\ \A u \in Keys : Busy(u, "finish")' => cur'.ip = handler'[u].ip
        /\ \A u \in Keys : Busy(u, "commit")'
                                => handler'[u].old = cur'.ip \/ cur'.ip = handler'[u].ip
    BY <1>1, <1>3 DEF TunInv, Busy
  <1> QED  BY <1>4, <1>5 DEF TunInv

LEMMA TunStep == TypeOK /\ TunInv /\ [Next]_vars => TunInv'
  <1> SUFFICES ASSUME TypeOK, TunInv, [Next]_vars PROVE TunInv'
    OBVIOUS
  <1>0. handler \in [Keys -> {None} \cup Handling] /\ cur \in Device
    BY DEF TypeOK, Handling
  <1>1. CASE UNCHANGED vars
    BY <1>1, TunQuiet DEF vars
  <1>2. ASSUME NEW m \in Replies, Receive(m) PROVE TunInv'
    <2>1. CASE RegistrationResponse(m)
      BY <2>1, TunBegin
    <2>2. CASE ~RegistrationResponse(m)
      BY <1>0, <1>2, <2>2, TunQuiet
         DEF Receive, HandshakeResponse, HandshakeRefused, SecretHandshakeResponse, NoKey,
             RegistrationRefused, Pong, Disconnect, Device
    <2> QED  BY <2>1, <2>2
  <1>3. ASSUME NEW t \in Keys, CommitRegistration(t) \/ FinishRegistration(t) PROVE TunInv'
    BY <1>3, TunCommit, TunFinish
  <1>4. CASE (\E k \in Keys : NextIdle(k)) \/ RemoveIdle \/ GatewayTimedOut
    BY <1>0, <1>4, TunQuiet DEF NextIdle, RemoveIdle, GatewayTimedOut, Device
  <1>5. CASE (\E dnsOk \in BOOLEAN : CheckGatewayChannel(dnsOk)) \/ Heartbeat
    BY <1>5, TunQuiet DEF CheckGatewayChannel, Heartbeat, client
  <1>6. CASE \/ \E natType \in {"Cone", "Symmetric"} : Switch(natType)
             \/ \E k \in Keys : Silence(k)
             \/ LimiterOpens
             \/ \E m \in Requests \cup Replies : Lose(m)
             \/ \E m \in Requests : ServerAnswers(m)
             \/ ServerForgets
             \/ ServerStops
    BY <1>6, TunQuiet DEF Switch, Silence, LimiterOpens, Lose, ServerAnswers, ServerForgets,
       ServerStops, client
  <1> QED  BY <1>1, <1>2, <1>3, <1>4, <1>5, <1>6 DEF Next

(* While no registration is being handled the tun device has the client's  *)
(* address, or could not be created, for any number of addresses and over  *)
(* IPv4 and IPv6; as long as no registrations with different addresses     *)
(* have overlapped.                                                        *)
THEOREM TunAgrees == Spec => []TunMatches
  <1>1. TunInv => TunMatches
    BY DEF TunInv, DeviceGood, Busy, TunMatches
  <1> QED  BY <1>1, InitType, NextType, TunStep, PTL DEF Spec
=============================================================================
