---------------------------- MODULE StreamChannel ---------------------------
(***************************************************************************)
(* Connections to the server over TCP and WebSocket                        *)
(* (vnt/src/channel/tcp_channel.rs, ws_channel.rs): two tasks per          *)
(* connection, one that reads and one that writes what others put into its *)
(* channel, found in packet_map under the connection's route key.  The     *)
(* scheduler opens connections when the client is off line and gives the   *)
(* default one up after several failures; a reader that ends removes its   *)
(* key.  The key of a TCP connection is its socket's file descriptor, which*)
(* the system uses again once both tasks have dropped their halves; that of*)
(* a WebSocket is a counter.                                               *)
(*                                                                         *)
(* The wire keeps order and answers are put where the reader finds them:   *)
(* how long a packet takes is how long its answer lies there.  Frames,     *)
(* redirections of a WebSocket and the handshake's limiter, which rounds   *)
(* eight seconds apart do not meet, are left out; session keys are in      *)
(* Session.                                                                *)
(***************************************************************************)
EXTENDS Naturals, Sequences

CONSTANTS
    Conns,       \* names for connections, used again after the end of one
    RouteKeys,   \* file descriptors or indices, Nat
    QueueCap,    \* slots of a connection's channel (100)
    ConnectCap,  \* slots of the channel of requests to connect (16)
    RebindInterval, \* reconnect_rebind_interval()
    MaxBreaks,   \* bound of the model on what goes wrong
    None

VARIABLES
    proto,       \* context.main_protocol(): "TCP" or "WS"
    status,      \* "Connecting" or "Connected"
    defaultKey,  \* context.default_route_key
    gateway,     \* the keys of the gateway's routes
    attempts,    \* check_gateway_channel's count, modulo RebindInterval
    timer,       \* clear_default_route_key under way: a step and the key it loaded
    connects,    \* requests to connect in the channel
    packetMap,   \* context.packet_map: key -> the connection of the sender, or None
    conn,        \* the connections
    breaks       \* what went wrong: connections that failed, unlucky moments

streamVars == <<proto, status, defaultKey, gateway, attempts, timer, connects, packetMap,
                conn, breaks>>
scheduler == <<attempts, timer>>

(* reader and writer are the two tasks; queue the writer's channel; down   *)
(* what the server has answered; peer the server's end; a cut connection   *)
(* passes nothing, and unacked says that something was sent over it.       *)
Free == [key |-> None, reader |-> "none", writer |-> "none", queue |-> <<>>, down |-> <<>>,
         peer |-> "open", cut |-> FALSE, unacked |-> FALSE]

Connecting(k) == [Free EXCEPT !.key = k, !.reader = "connecting"]

Closed ==
    /\ defaultKey = None /\ gateway = {} /\ attempts = 0 /\ timer = None /\ connects = 0
    /\ packetMap = [k \in RouteKeys |-> None]
    /\ conn = [c \in Conns |-> Free]
    /\ breaks = 0

StreamInit == proto \in {"TCP", "WS"} /\ status = "Connecting" /\ Closed

(* Nothing to do: for the composition with components that do not use it.  *)
StreamRests == proto = "TCP" /\ status = "Connected" /\ Closed

(* A connection whose tasks are both gone leaves nothing behind.           *)
Settled(r) == IF r.reader = "done" /\ r.writer = "done" THEN Free ELSE r
Becomes(c, r) == conn' = [conn EXCEPT ![c] = Settled(r)]

(* The socket is open while one of the tasks has its half.                 *)
HoldsSocket(c) ==
    conn[c].reader \in {"connecting", "reading", "registering"} \/ conn[c].writer = "writing"

(* A descriptor no open socket has; an index that nothing mentions.        *)
NewKey(k) ==
    IF proto = "TCP"
    THEN \A c \in Conns : HoldsSocket(c) => conn[c].key # k
    ELSE /\ \A c \in Conns : conn[c].key # k
         /\ k # defaultKey /\ k \notin gateway
         /\ timer # None => timer.key # k

Fails == breaks < MaxBreaks /\ breaks' = breaks + 1

-----------------------------------------------------------------------------
(* send_tcp and PacketSender::try_send: the sender is in the map, the      *)
(* writer still receives, and there is room.                               *)
CanSend(k) ==
    /\ k # None
    /\ packetMap[k] # None
    /\ conn[packetMap[k]].writer = "writing"
    /\ Len(conn[packetMap[k]].queue) < QueueCap

Sent(k, m) == conn' = [conn EXCEPT ![packetMap[k]].queue = Append(@, m)]

(* ConnectUtil::try_connect_tcp and try_connect_ws: a full channel drops   *)
(* the request.                                                            *)
TryConnect == connects' = IF connects < ConnectCap THEN connects + 1 ELSE connects

(* Rounds are seconds apart: they find the tasks at rest, but for some     *)
(* unlucky moments, which count among what goes wrong.  A cut connection   *)
(* with something unacknowledged on it stays stuck for long.               *)
Stuck(c) == conn[c].cut /\ conn[c].unacked
AtRest(c) ==
    /\ conn[c].reader \in {"none", "reading"} /\ conn[c].down = <<>>
    /\ conn[c].queue = <<>> \/ Stuck(c)
    /\ conn[c].writer = "writing" => packetMap[conn[c].key] = c
    /\ conn[c].writer = "done" => conn[c].cut
    /\ conn[c].peer = "open"
Due ==
    IF connects = 0 /\ \A c \in Conns : AtRest(c) THEN UNCHANGED breaks ELSE Fails

(* check_gateway_channel: a handshake over the default channel, or a new   *)
(* connection if there is none; after RebindInterval rounds the default    *)
(* channel is given up first.  Only TCP resolves the server's name.        *)
CheckGateway(dnsOk) ==
    /\ timer = None /\ status = "Connecting" /\ Due
    /\ proto = "WS" => dnsOk
    /\ attempts' = (attempts + 1) % RebindInterval
    /\ IF dnsOk /\ attempts' = 0
       THEN timer' = [step |-> "remove", key |-> defaultKey] /\ UNCHANGED <<conn, connects>>
       ELSE /\ UNCHANGED timer
            /\ IF CanSend(defaultKey)
               THEN Sent(defaultKey, "handshake") /\ UNCHANGED connects
               ELSE TryConnect /\ UNCHANGED conn
    /\ UNCHANGED <<proto, status, defaultKey, gateway, packetMap>>

(* clear_default_route_key, between whose steps receive threads store      *)
(* another key and connections come and go; then the new connection.       *)
RemoveDefault ==
    /\ timer # None /\ timer.step = "remove"
    /\ timer' = [timer EXCEPT !.step = "store"]
    /\ packetMap' = [k \in RouteKeys |-> IF k = timer.key THEN None ELSE packetMap[k]]
    /\ UNCHANGED <<proto, status, defaultKey, gateway, attempts, connects, conn, breaks>>

StoreDefault ==
    /\ timer # None /\ timer.step = "store"
    /\ timer' = None
    /\ defaultKey' = None
    /\ TryConnect
    /\ UNCHANGED <<proto, status, gateway, attempts, packetMap, conn, breaks>>

(* heartbeat0: a ping over the default channel, whose answer changes       *)
(* nothing but the time of the route.                                      *)
Heartbeat ==
    /\ timer = None /\ Due
    /\ CanSend(defaultKey)
    /\ Sent(defaultKey, "ping")
    /\ UNCHANGED <<proto, status, defaultKey, gateway, scheduler, connects, packetMap>>

(* idle_route0: a gateway route over which nothing was heard for long,     *)
(* since it is not the one that is pinged or it is broken.                 *)
Working(k) ==
    /\ packetMap[k] # None
    /\ LET r == conn[packetMap[k]]
       IN  /\ r.reader \in {"reading", "registering"} /\ r.writer = "writing"
           /\ r.peer = "open" /\ ~r.cut

Expires(k) ==
    /\ timer = None
    /\ k \in gateway
    /\ ~(k = defaultKey /\ Working(k))
    /\ gateway' = gateway \ {k}
    /\ status' = "Connecting"
    /\ UNCHANGED <<proto, defaultKey, scheduler, connects, packetMap, conn, breaks>>

-----------------------------------------------------------------------------
(* connect_tcp_handle and connect_ws_handle: a task for every request.     *)
Spawn ==
    /\ connects > 0
    /\ connects' = connects - 1
    /\ \E c \in Conns, k \in RouteKeys :
          /\ conn[c] = Free /\ NewKey(k)
          /\ Becomes(c, Connecting(k))
    /\ UNCHANGED <<proto, status, defaultKey, gateway, scheduler, packetMap, breaks>>

(* connect_tcp0, connect_ws: refused, timed out or redirected too often.   *)
ConnectFails(c) ==
    /\ conn[c].reader = "connecting"
    /\ Fails
    /\ Becomes(c, Free)
    /\ UNCHANGED <<proto, status, defaultKey, gateway, scheduler, connects, packetMap>>

(* Mutant: the sender is never put into the map.                           *)
StreamHandle_Unlisted(c) ==
    /\ conn[c].reader = "connecting"
    /\ Becomes(c, [conn[c] EXCEPT !.reader = "reading", !.writer = "writing",
                                  !.down = <<"handshakeResponse">>])
    /\ UNCHANGED <<proto, status, defaultKey, gateway, scheduler, connects, packetMap, breaks>>

(* The handshake is written, the sender goes into the map, whatever is     *)
(* there under this key, and the two tasks start (tcp_stream_handle).      *)
StreamHandle(c) ==
    /\ conn[c].reader = "connecting"
    /\ Becomes(c, [conn[c] EXCEPT !.reader = "reading", !.writer = "writing",
                                  !.down = <<"handshakeResponse">>])
    /\ packetMap' = [packetMap EXCEPT ![conn[c].key] = c]
    /\ UNCHANGED <<proto, status, defaultKey, gateway, scheduler, connects, breaks>>

(* The writer: a packet goes out and is answered, is swallowed by a cut    *)
(* connection, on which the next one waits, or fails, which ends the task  *)
(* and its channel; the entry in the map stays.                            *)
Answer(m) ==
    CASE m = "handshake" -> <<"handshakeResponse">>
      [] m = "register" -> <<"registrationResponse">>
      [] m = "ping" -> <<>>

Written(r) ==
    IF r.peer = "closed" THEN [r EXCEPT !.writer = "done", !.queue = <<>>]
    ELSE IF r.cut THEN [r EXCEPT !.queue = Tail(@), !.unacked = TRUE]
    ELSE [r EXCEPT !.queue = Tail(@), !.down = @ \o Answer(Head(r.queue))]

Writes(c) ==
    /\ conn[c].writer = "writing" /\ conn[c].queue # <<>>
    /\ Stuck(c) => conn[c].peer = "closed"
    /\ Becomes(c, Written(conn[c]))
    /\ UNCHANGED <<proto, status, defaultKey, gateway, scheduler, connects, packetMap, breaks>>

(* Mutant: the task keeps a sender of its own channel, which never closes. *)
WriterEnds_Never(c) == FALSE /\ UNCHANGED streamVars

(* The sender was dropped with its entry: once the channel is empty the    *)
(* writer shuts its half down.                                             *)
WriterEnds(c) ==
    /\ conn[c].writer = "writing" /\ conn[c].queue = <<>>
    /\ packetMap[conn[c].key] # c
    /\ Becomes(c, [conn[c] EXCEPT !.writer = "done"])
    /\ UNCHANGED <<proto, status, defaultKey, gateway, scheduler, connects, packetMap, breaks>>

-----------------------------------------------------------------------------
(* The reader hands packets to the handlers.  A handshake response makes   *)
(* the channel the default one and, if the client is off line, is followed *)
(* by a registration over the channel that is the default one by then.     *)
ReadsHandshakeResponse(c) ==
    /\ conn[c].reader = "reading" /\ conn[c].down # <<>>
    /\ Head(conn[c].down) = "handshakeResponse"
    /\ defaultKey' = conn[c].key
    /\ Becomes(c, [conn[c] EXCEPT !.down = Tail(@),
                                  !.reader = IF status = "Connecting" THEN "registering" ELSE @])
    /\ UNCHANGED <<proto, status, gateway, scheduler, connects, packetMap, breaks>>

Registers(c) ==
    /\ conn[c].reader = "registering"
    /\ LET back == [conn EXCEPT ![c].reader = "reading"]
       IN  conn' = IF CanSend(defaultKey)
                   THEN [back EXCEPT ![packetMap[defaultKey]].queue = Append(@, "register")]
                   ELSE back
    /\ UNCHANGED <<proto, status, defaultKey, gateway, scheduler, connects, packetMap, breaks>>

ReadsRegistrationResponse(c) ==
    /\ conn[c].reader = "reading" /\ conn[c].down # <<>>
    /\ Head(conn[c].down) = "registrationResponse"
    /\ gateway' = gateway \cup {conn[c].key}
    /\ status' = "Connected"
    /\ Becomes(c, [conn[c] EXCEPT !.down = Tail(@)])
    /\ UNCHANGED <<proto, defaultKey, scheduler, connects, packetMap, breaks>>

(* The stream ends or fails: tcp_read returns and drops its half, and the  *)
(* task removes its key from the map, whoever's sender is there by now.    *)
ReadEnds(c) ==
    /\ conn[c].reader = "reading" /\ conn[c].down = <<>>
    /\ conn[c].peer = "closed"
    /\ Becomes(c, [conn[c] EXCEPT !.reader = "left"])
    /\ UNCHANGED <<proto, status, defaultKey, gateway, scheduler, connects, packetMap, breaks>>

RemovesEntry(c) ==
    /\ conn[c].reader = "left"
    /\ packetMap' = [packetMap EXCEPT ![conn[c].key] = None]
    /\ Becomes(c, [conn[c] EXCEPT !.reader = "done"])
    /\ UNCHANGED <<proto, status, defaultKey, gateway, scheduler, connects, breaks>>

-----------------------------------------------------------------------------
(* External: the server ends a connection whose other side is shut down,   *)
(* or any one when it fails; the network swallows what is sent; and the    *)
(* system gives a connection up on which something is never acknowledged.  *)
Open(c) == conn[c].reader \in {"reading", "registering"} /\ conn[c].peer = "open"

PeerCloses(c) ==
    /\ Open(c) /\ ~conn[c].cut /\ conn[c].writer = "done"
    /\ Becomes(c, [conn[c] EXCEPT !.peer = "closed"])
    /\ UNCHANGED <<proto, status, defaultKey, gateway, scheduler, connects, packetMap, breaks>>

PeerFails(c) ==
    /\ Open(c) /\ ~conn[c].cut
    /\ Fails
    /\ \E d \in {conn[c].down, <<>>} :
          Becomes(c, [conn[c] EXCEPT !.peer = "closed", !.down = d])
    /\ UNCHANGED <<proto, status, defaultKey, gateway, scheduler, connects, packetMap>>

Cut(c) ==
    /\ Open(c) /\ ~conn[c].cut
    /\ Fails
    /\ \E d \in {conn[c].down, <<>>} :
          Becomes(c, [conn[c] EXCEPT !.cut = TRUE, !.unacked = conn[c].down # d, !.down = d])
    /\ UNCHANGED <<proto, status, defaultKey, gateway, scheduler, connects, packetMap>>

GivesUp(c) ==
    /\ Open(c) /\ conn[c].cut
    /\ conn[c].unacked \/ conn[c].writer = "done"
    /\ Becomes(c, [conn[c] EXCEPT !.peer = "closed"])
    /\ UNCHANGED <<proto, status, defaultKey, gateway, scheduler, connects, packetMap, breaks>>

-----------------------------------------------------------------------------
Rounds == \E dnsOk \in BOOLEAN : CheckGateway(dnsOk)
Clear == RemoveDefault \/ StoreDefault

Reader(c) ==
    \/ StreamHandle(c)
    \/ ReadsHandshakeResponse(c) \/ Registers(c) \/ ReadsRegistrationResponse(c)
    \/ ReadEnds(c) \/ RemovesEntry(c)

Writer(c) == Writes(c) \/ WriterEnds(c)

Outside(c) == PeerCloses(c) \/ GivesUp(c)

StreamNext ==
    \/ Rounds \/ Clear \/ Heartbeat \/ Spawn
    \/ \E k \in RouteKeys : Expires(k)
    \/ \E c \in Conns :
          \/ Reader(c) \/ Writer(c) \/ Outside(c)
          \/ ConnectFails(c) \/ PeerFails(c) \/ Cut(c)

StreamSpec == StreamInit /\ [][StreamNext]_streamVars

(* The scheduler's rounds and all tasks go on, and a server that is asked  *)
(* answers.  The rounds and the heartbeats share the scheduler's thread,   *)
(* hence strong fairness of the rounds.                                    *)
StreamFairness ==
    /\ SF_streamVars(Rounds) /\ WF_streamVars(Clear) /\ WF_streamVars(Spawn)
    /\ \A c \in Conns :
          WF_streamVars(Reader(c)) /\ WF_streamVars(Writer(c)) /\ WF_streamVars(Outside(c))

-----------------------------------------------------------------------------
(* A client that lost its server over a stream gets connected again,       *)
(* whatever connections break, come late, pile up or are given up.         *)
StreamReconnects == []<>(status = "Connected")

(* No connection is left over that nobody can send to: one whose entry is  *)
(* gone from packet_map, even if another connection's reader removed it    *)
(* under a descriptor used again, ends with both its tasks.                *)
OrphansEnd == \A c \in Conns :
    conn[c].writer = "writing" /\ packetMap[conn[c].key] # c ~> conn[c] = Free
=============================================================================
