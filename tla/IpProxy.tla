------------------------------- MODULE IpProxy ------------------------------
(***************************************************************************)
(* The proxies of an exit node (vnt/src/ip_proxy): packets of other        *)
(* clients for the outside are rewritten to a local port, where a task     *)
(* takes them and passes their contents on through a socket of its own;    *)
(* what the device reads for such a client is rewritten on its way back.   *)
(* nat_map connects the two: written by receive threads, read by the tun   *)
(* thread and by the proxy's task, and cleared by the task of each socket. *)
(*                                                                         *)
(* The device, the kernel and the hosts outside are external; they lose    *)
(* and reorder.  A client is known by address and port; a destination by   *)
(* one name for both.  The checksums the rewriting updates are in          *)
(* PacketFormats.                                                          *)
(***************************************************************************)
EXTENDS Naturals, FiniteSets

CONSTANTS
    Clients, Ports,  \* addresses and source ports of clients
    Loads,           \* who sends what, see load; one is chosen at the start
    MaxFlight,       \* bound of the model on a client's packets under way
    MaxFaults,       \* bound of the model on what goes wrong
    None

VARIABLES
    load,      \* the traffic: a protocol; address and port -> destinations
               \* it sends to; {<<client, destination, numbers>>, ...} for pings
    sent,      \* history: the destinations each sender has sent to so far
    natMap,    \* protocol -> source address and port -> destination
    toProxy,   \* written to the device for the proxy's port, not yet received
    handling,  \* udp_proxy: the datagram it is at, and the step
    innerMap,  \* udp_proxy: sender -> the socket to its destination
    tasks,     \* the tasks of these sockets
    streams,   \* tcp_proxy: streams accepted and what they are connected to
    outside,   \* sent to a host outside
    replies,   \* a host's replies waiting at a socket
    toDevice,  \* sent to a client, not yet read from the device
    atClient,  \* what has come back to clients
    icmpMap,   \* IcmpProxy.nat_map: destination and numbers -> client
    faults     \* packets lost, tasks and streams ended, connections failed

proxyVars == <<load, sent, natMap, toProxy, handling, innerMap, tasks, streams, outside,
               replies, toDevice, atClient, icmpMap, faults>>

(* SocketAddrV4::new(source, source_port).                                 *)
Key(src, port) == <<src, port>>

Sources == Clients \X Ports
Keys == {Key(s[1], s[2]) : s \in Sources}
IcmpKeys == UNION {{<<p[2], p[3]>> : p \in l.pings} : l \in Loads}
Protocols == {"tcp", "udp"}
ProxyAddr == "exit"  \* the exit node's own address and the proxy's port

(* Destinations and askers are none of the absent ones, and what is not    *)
(* sent over TCP or UDP is pings: what recv_handle is called with.         *)
SaneLoads == \A l \in Loads :
    /\ \A s \in Sources : None \notin l.talks[s] /\ (l.talks[s] # {} => l.proto \in Protocols)
    /\ \A p \in l.pings : p = <<p[1], p[2], p[3]>> /\ p[1] # None

(* Something goes wrong, which the model counts.                           *)
Fault == faults < MaxFaults /\ faults' = faults + 1

(* With a packet goes what no code knows: its own destination, and those   *)
(* its sender has sent to since.                                           *)
Datagram(proto, src, dst, later) ==
    [proto |-> proto, src |-> src, dst |-> dst, later |-> later]

Overtaken(m, s, d) ==
    IF m.src = s THEN Datagram(m.proto, m.src, m.dst, m.later \cup ({d} \ {m.dst})) ELSE m

(* What the kernel knows of a packet that arrives: its sender.             *)
Sender(m) == Key(m.src[1], m.src[2])

(* What a socket sends outside, at the destination it is connected to.     *)
Outgoing(m, at) == [proto |-> m.proto, from |-> m.src, sock |-> Sender(m), at |-> at]

ProxyInit ==
    /\ load \in Loads
    /\ sent = [s \in Sources |-> {}]
    /\ natMap = [p \in Protocols |-> [k \in Keys |-> None]]
    /\ toProxy = {}
    /\ handling = None
    /\ innerMap = [k \in Keys |-> None]
    /\ tasks = {} /\ streams = {}
    /\ outside = {} /\ replies = {}
    /\ toDevice = {} /\ atClient = {}
    /\ icmpMap = [k \in IcmpKeys |-> None]
    /\ faults = 0

-----------------------------------------------------------------------------
(* Mutant: a sender that is noted down already stays with what is there.   *)
RecvHandle_KeepsFirst(proto, s, d) ==
    /\ proto = load.proto /\ d \in load.talks[s]
    /\ natMap' = [natMap EXCEPT ![proto][Key(s[1], s[2])] = IF @ = None THEN d ELSE @]
    /\ sent' = [sent EXCEPT ![s] = @ \cup {d}]
    /\ toProxy' = {Overtaken(m, s, d) : m \in toProxy} \cup {Datagram(proto, s, d, {})}
    /\ handling' = IF handling = None THEN None ELSE Overtaken(handling, s, d)
    /\ UNCHANGED <<load, innerMap, tasks, streams, outside, replies, toDevice, atClient,
                   icmpMap, faults>>

(* TcpProxy and UdpProxy::recv_handle: the destination is noted down under *)
(* the sender, the packet goes to the proxy's port, its sender unchanged.  *)
RecvHandle(proto, s, d) ==
    /\ proto = load.proto /\ d \in load.talks[s]
    /\ natMap' = [natMap EXCEPT ![proto][Key(s[1], s[2])] = d]
    /\ sent' = [sent EXCEPT ![s] = @ \cup {d}]
    /\ toProxy' = {Overtaken(m, s, d) : m \in toProxy} \cup {Datagram(proto, s, d, {})}
    /\ handling' = IF handling = None THEN None ELSE Overtaken(handling, s, d)
    /\ UNCHANGED <<load, innerMap, tasks, streams, outside, replies, toDevice, atClient,
                   icmpMap, faults>>

-----------------------------------------------------------------------------
(* udp_proxy takes one datagram at a time.  A sender with a socket has its *)
(* datagram sent there, wherever the packet was bound for ...              *)
UdpTake(m) ==
    /\ handling = None
    /\ m \in toProxy /\ m.proto = "udp"
    /\ toProxy' = toProxy \ {m}
    /\ IF innerMap[Sender(m)] # None
       THEN /\ outside' = outside \cup {Outgoing(m, innerMap[Sender(m)])}
            /\ UNCHANGED handling
       ELSE /\ handling' = m
            /\ UNCHANGED outside
    /\ UNCHANGED <<load, sent, natMap, innerMap, tasks, streams, replies, toDevice, atClient,
                   icmpMap, faults>>

(* ... and one without gets a socket, connected to what nat_map says now,  *)
(* and a task that waits for replies; or none if binding, connecting or    *)
(* sending fails, or nat_map says nothing.                                 *)
UdpConnect ==
    /\ handling # None
    /\ handling' = None
    /\ LET k == Sender(handling)
           d == natMap["udp"][k]
       IN  \/ /\ d # None
              /\ outside' = outside \cup {Outgoing(handling, d)}
              /\ innerMap' = [innerMap EXCEPT ![k] = d]
              /\ tasks' = tasks \cup {[key |-> k, dst |-> d, step |-> "receives"]}
              /\ UNCHANGED faults
           \/ /\ IF d = None THEN UNCHANGED faults ELSE Fault
              /\ UNCHANGED <<outside, innerMap, tasks>>
    /\ UNCHANGED <<load, sent, natMap, toProxy, streams, replies, toDevice, atClient, icmpMap>>

(* The task of a socket passes a reply on to the sender.                   *)
TaskReceives(t, r) ==
    /\ t \in tasks /\ t.step = "receives"
    /\ r \in replies /\ r.proto = "udp" /\ r.sock = t.key /\ r.by = t.dst
    /\ replies' = replies \ {r}
    /\ toDevice' = toDevice \cup {[proto |-> "udp", key |-> t.key, by |-> r.by, about |-> r.about]}
    /\ UNCHANGED <<load, sent, natMap, toProxy, handling, innerMap, tasks, streams, outside,
                   atClient, icmpMap, faults>>

(* It ends: an error, or nothing came for ten minutes and nothing was sent.*)
TaskEnds(t) ==
    /\ t \in tasks /\ t.step = "receives"
    /\ Fault
    /\ tasks' = (tasks \ {t}) \cup {[t EXCEPT !.step = "inner"]}
    /\ UNCHANGED <<load, sent, natMap, toProxy, handling, innerMap, streams, outside, replies,
                   toDevice, atClient, icmpMap>>

(* Mutant: the socket stays where datagrams find it.                       *)
RemoveInner_Keeps(t) ==
    /\ t \in tasks /\ t.step = "inner"
    /\ tasks' = (tasks \ {t}) \cup {[t EXCEPT !.step = "nat"]}
    /\ replies' = {r \in replies : r.sock # t.key \/ r.by # t.dst}
    /\ UNCHANGED <<load, sent, natMap, toProxy, handling, innerMap, streams, outside, toDevice,
                   atClient, icmpMap, faults>>

(* The socket is forgotten, with what waits there ...                      *)
RemoveInner(t) ==
    /\ t \in tasks /\ t.step = "inner"
    /\ innerMap' = [innerMap EXCEPT ![t.key] = None]
    /\ tasks' = (tasks \ {t}) \cup {[t EXCEPT !.step = "nat"]}
    /\ replies' = {r \in replies : r.sock # t.key \/ r.by # t.dst}
    /\ UNCHANGED <<load, sent, natMap, toProxy, handling, streams, outside, toDevice, atClient,
                   icmpMap, faults>>

(* ... and, under another lock, the destination, though the sender may     *)
(* have got another socket in between.                                     *)
RemoveNat(t) ==
    /\ t \in tasks /\ t.step = "nat"
    /\ natMap' = [natMap EXCEPT !["udp"][t.key] = None]
    /\ tasks' = tasks \ {t}
    /\ UNCHANGED <<load, sent, toProxy, handling, innerMap, streams, outside, replies, toDevice,
                   atClient, icmpMap, faults>>

-----------------------------------------------------------------------------
(* tcp_proxy accepts a stream, looks for its destination and connects, or  *)
(* drops the stream.                                                       *)
TcpAccept(m) ==
    /\ m \in toProxy /\ m.proto = "tcp"
    /\ toProxy' = toProxy \ {m}
    /\ LET d == natMap["tcp"][Sender(m)]
       IN  \/ /\ d # None
              /\ streams' = streams \cup {[key |-> Sender(m), from |-> m.src, dst |-> d]}
              /\ outside' = outside \cup {Outgoing(m, d)}
              /\ UNCHANGED faults
           \/ Fault /\ UNCHANGED <<streams, outside>>
    /\ UNCHANGED <<load, sent, natMap, handling, innerMap, tasks, replies, toDevice, atClient,
                   icmpMap>>

(* proxy copies from the one stream to the other, until one of them ends.  *)
TcpCopies(st, r) ==
    /\ st \in streams
    /\ r \in replies /\ r.proto = "tcp" /\ r.sock = st.key /\ r.by = st.dst
    /\ replies' = replies \ {r}
    /\ toDevice' = toDevice \cup {[proto |-> "tcp", key |-> st.key, by |-> r.by, about |-> r.about]}
    /\ UNCHANGED <<load, sent, natMap, toProxy, handling, innerMap, tasks, streams, outside,
                   atClient, icmpMap, faults>>

TcpCloses(st) ==
    /\ st \in streams
    /\ Fault
    /\ streams' = streams \ {st}
    /\ replies' = {r \in replies : r.sock # st.key \/ r.by # st.dst}
    /\ UNCHANGED <<load, sent, natMap, toProxy, handling, innerMap, tasks, outside, toDevice,
                   atClient, icmpMap>>

-----------------------------------------------------------------------------
(* send_handle, in the tun thread: a packet for a sender that nat_map      *)
(* knows appears to come from the destination noted down for it; another   *)
(* one goes as it is.                                                      *)
SendHandle(m) ==
    /\ m \in toDevice
    /\ toDevice' = toDevice \ {m}
    /\ LET d == natMap[m.proto][m.key]
       IN  atClient' = atClient \cup {[proto |-> m.proto, to |-> m.key, by |-> m.by,
                                       about |-> m.about,
                                       label |-> IF d = None THEN ProxyAddr ELSE d]}
    /\ UNCHANGED <<load, sent, natMap, toProxy, handling, innerMap, tasks, streams, outside,
                   replies, icmpMap, faults>>

-----------------------------------------------------------------------------
(* IcmpProxy: the asker is noted down under what the reply will bear.      *)
IcmpRecvHandle(p) ==
    /\ p \in load.pings
    /\ icmpMap' = [icmpMap EXCEPT ![<<p[2], p[3]>>] = p[1]]
    /\ outside' = outside \cup
          {[proto |-> "icmp", from |-> p, sock |-> <<p[2], p[3]>>, at |-> p[2]]}
    /\ UNCHANGED <<load, sent, natMap, toProxy, handling, innerMap, tasks, streams, replies,
                   toDevice, atClient, faults>>

(* Mutant: of the numbers only the first is looked at.                     *)
IcmpFound_Dest(r) == {k \in IcmpKeys : k[1] = r.sock[1] /\ icmpMap[k] # None}

IcmpFound(r) == {k \in IcmpKeys : k = r.sock /\ icmpMap[k] # None}

(* A reply: sealed and sent to the asker, past the device.                 *)
IcmpReply(r) ==
    /\ r \in replies /\ r.proto = "icmp"
    /\ replies' = replies \ {r}
    /\ \/ \E k \in IcmpFound(r) :
             atClient' = atClient \cup {[proto |-> "icmp", to |-> icmpMap[k], by |-> r.by,
                                         about |-> r.sock, label |-> r.by]}
       \/ IcmpFound(r) = {} /\ UNCHANGED atClient
    /\ UNCHANGED <<load, sent, natMap, toProxy, handling, innerMap, tasks, streams, outside,
                   toDevice, icmpMap, faults>>

-----------------------------------------------------------------------------
(* The hosts outside answer, in vain when the socket is closed by then;    *)
(* the client reads; packets get lost.                                     *)
Open(o) ==
    CASE o.proto = "udp" -> \E t \in tasks : t.key = o.sock /\ t.dst = o.at /\ t.step # "nat"
      [] o.proto = "tcp" -> \E st \in streams : st.key = o.sock /\ st.dst = o.at
      [] OTHER -> TRUE

HostReplies(o) ==
    /\ o \in outside
    /\ outside' = outside \ {o}
    /\ replies' = replies \cup
          {r \in {[proto |-> o.proto, sock |-> o.sock, by |-> o.at, about |-> o.from]} : Open(o)}
    /\ UNCHANGED <<load, sent, natMap, toProxy, handling, innerMap, tasks, streams, toDevice,
                   atClient, icmpMap, faults>>

ClientReads(m) ==
    /\ m \in atClient
    /\ atClient' = atClient \ {m}
    /\ UNCHANGED <<load, sent, natMap, toProxy, handling, innerMap, tasks, streams, outside,
                   replies, toDevice, icmpMap, faults>>

LoseOutside(o) ==
    /\ o \in outside
    /\ Fault
    /\ outside' = outside \ {o}
    /\ UNCHANGED <<load, sent, natMap, toProxy, handling, innerMap, tasks, streams, replies,
                   toDevice, atClient, icmpMap>>

-----------------------------------------------------------------------------
(* A client sends on when not too much of what it sent is under way.       *)
Flight(s) ==
    Cardinality({m \in toProxy : m.src = s} \cup {o \in outside : o.from = s}
                \cup {m \in replies \cup toDevice \cup atClient : m.about = s})

Sends(s) ==
    /\ Flight(s) < MaxFlight
    /\ \E d \in load.talks[s] : RecvHandle(load.proto, s, d)

ProxyNext ==
    \/ \E s \in Sources : Sends(s)
    \/ \E m \in toProxy : UdpTake(m) \/ TcpAccept(m)
    \/ UdpConnect
    \/ \E t \in tasks :
          \/ TaskEnds(t) \/ RemoveInner(t) \/ RemoveNat(t)
          \/ \E r \in replies : TaskReceives(t, r)
    \/ \E st \in streams : TcpCloses(st) \/ \E r \in replies : TcpCopies(st, r)
    \/ \E m \in toDevice : SendHandle(m)
    \/ \E p \in load.pings : IcmpRecvHandle(p)
    \/ \E r \in replies : IcmpReply(r)
    \/ \E o \in outside : HostReplies(o) \/ LoseOutside(o)
    \/ \E m \in atClient : ClientReads(m)

ProxySpec == ProxyInit /\ [][ProxyNext]_proxyVars

(* Clients go on sending; what is under way arrives, and each task gets on *)
(* with its work, once nothing goes wrong any more.                        *)
ProxyFairness ==
    /\ \A s \in Sources :
          /\ WF_proxyVars(Sends(s))
          /\ WF_proxyVars(\E m \in toProxy : m.src = s /\ (UdpTake(m) \/ TcpAccept(m)))
          /\ WF_proxyVars(\E o \in outside : o.from = s /\ HostReplies(o))
          /\ WF_proxyVars(\E r \in replies : r.about = s /\
                             \/ \E t \in tasks : TaskReceives(t, r)
                             \/ \E st \in streams : TcpCopies(st, r))
          /\ WF_proxyVars(\E m \in toDevice : m.about = s /\ SendHandle(m))
          /\ WF_proxyVars(\E m \in atClient : m.about = s /\ ClientReads(m))
    /\ WF_proxyVars(UdpConnect)
    /\ WF_proxyVars(\E t \in tasks : RemoveInner(t) \/ RemoveNat(t))

-----------------------------------------------------------------------------
(* The packets a step takes from where they wait for the proxy.            *)
Taken == (toProxy \ toProxy') \cup ({handling} \ {None, handling'})

(* What a client sends leaves the exit node for the destination it bears,  *)
(* though the proxies know a packet by its sender only and look the        *)
(* destination up under locks of their own, while clients share a port     *)
(* number and sockets come and go.  Two cases are excepted, both of a      *)
(* sender that uses one port for several destinations: it has sent to      *)
(* another one since, whose entry has replaced the packet's; and it still  *)
(* has a UDP socket, found by the sender alone (udp_proxy.rs:128), that    *)
(* was opened for another one it has sent to.                              *)
LeavesForItsOwn ==
    \A o \in outside' \ outside :
        IF o.proto = "icmp" THEN o.from \in load.pings /\ o.at = o.from[2]
        ELSE \E m \in Taken :
                /\ o.proto = m.proto /\ o.from = m.src
                /\ \/ o.at \in {m.dst} \cup m.later
                   \/ /\ m.proto = "udp"
                      /\ o.at = innerMap[Sender(m)] /\ o.at \in sent[m.src]

NotAstray == [][LeavesForItsOwn]_proxyVars

(* What comes back to a client answers a packet of its own and bears an    *)
(* address it has sent to, also when its entries were replaced or removed  *)
(* in between: only a datagram may, after a socket was given up, bear the  *)
(* proxy's.                                                                *)
AnswersComeBack ==
    \A a \in atClient :
        IF a.proto = "icmp" THEN <<a.to, a.label, a.about[2]>> \in load.pings
        ELSE /\ a.to = Key(a.about[1], a.about[2])
             /\ \/ a.label \in sent[a.about]
                \/ a.label = ProxyAddr /\ a.proto = "udp" /\ faults > 0

(* A client that talks to one destination and keeps sending gets answers   *)
(* from it, over and over, whichever tasks and connections have failed     *)
(* before: no socket that nobody reads stays in its way.                   *)
AnsweredInTheEnd ==
    \A s \in Sources :
        []<>(Cardinality(load.talks[s]) # 1
             \/ \E a \in atClient : a.about = s /\ a.label \in load.talks[s])
=============================================================================
