--------------------------- MODULE DataPathProofs ---------------------------
(***************************************************************************)
(* The data plane for any number of clients, ports, packets and failures:  *)
(* an exit node's proxies send nothing astray and bring every answer back  *)
(* to who asked; what clients seal for each other can be opened and fits   *)
(* its buffer; the data path keeps the promise of Delivery, and reaches    *)
(* everybody where nothing is lost; and a field of a packet reads as it    *)
(* was set, whatever the buffer and the order of the setters.              *)
(*                                                                         *)
(* The promise goes in two steps.  Every message has a cargo, the IP     *)
(* packet it is about, and targets, those who may still get it from this   *)
(* message; CargoInv says that a packet has at most one message under way  *)
(* for each of its addressees, and none for one who has got or answered    *)
(* it.  Then each handler is shown to have one of six effects on these     *)
(* (Effect), and each effect to keep the invariant and to be a step of     *)
(* Delivery, or none.                                                      *)
(*                                                                         *)
(* The fields go in three: replacing some bits of a number leaves the      *)
(* others (BitsSpared), so a setter reads back and leaves every field that *)
(* has no bit in common with it (PutReads, PutLeaves); in each format the  *)
(* fields that are written have no bit in common with any other            *)
(* (AllLayouts); and each setter leaves the fields where they are, or says *)
(* which ones it moves.                                                    *)
(***************************************************************************)
EXTENDS DataPlane, Sequences, FiniteSetTheorems, TLAPS

(* A sender's key is the sender.                                           *)
LEMMA KeysAreSources ==
    Proxy!Keys = Proxy!Sources /\ \A s \in Proxy!Sources : Proxy!Key(s[1], s[2]) = s
  BY DEF Proxy!Keys, Proxy!Sources, Proxy!Key

(* The destination of a sender is noted down, or was until a socket was    *)
(* given up.                                                               *)
Noted(p, k) == natMap[p][k] # None \/ (p = "udp" /\ faults > 0)

(* What concerns a sender and one of the destinations it has sent to.      *)
Belongs(p, k, d) ==
    /\ p \in Proxy!Protocols /\ k \in Proxy!Sources
    /\ d \in sent[k]
    /\ Noted(p, k)

DatagramOK(m) == Belongs(m.proto, m.src, m.dst)

OutsideOK(o) ==
    IF o.proto = "icmp" THEN /\ o.from \in load.pings /\ o.at = o.from[2]
                             /\ o.sock = <<o.from[2], o.from[3]>>
    ELSE o.sock = o.from /\ Belongs(o.proto, o.from, o.at)

ReplyOK(r) ==
    IF r.proto = "icmp" THEN /\ r.about \in load.pings /\ r.by = r.about[2]
                             /\ r.sock = <<r.about[2], r.about[3]>>
    ELSE r.sock = r.about /\ Belongs(r.proto, r.about, r.by)

TaskOK(t) ==
    /\ DOMAIN t = {"key", "dst", "step"}
    /\ Belongs("udp", t.key, t.dst)
    /\ t.step # "receives" => faults > 0

AnswerOK(a) ==
    IF a.proto = "icmp" THEN <<a.to, a.label, a.about[2]>> \in load.pings
    ELSE /\ a.about \in Proxy!Sources
         /\ a.to = Proxy!Key(a.about[1], a.about[2])
         /\ \/ a.label \in sent[a.about]
            \/ a.label = Proxy!ProxyAddr /\ a.proto = "udp" /\ faults > 0

(* The maps.                                                               *)
MapsOK ==
    /\ load \in Loads /\ faults \in Nat
    /\ DOMAIN natMap = Proxy!Protocols
    /\ \A p \in Proxy!Protocols : DOMAIN natMap[p] = Proxy!Sources
    /\ DOMAIN sent = Proxy!Sources
    /\ \A k \in Proxy!Sources : sent[k] \subseteq load.talks[k]
    /\ \A p \in Proxy!Protocols, k \in Proxy!Sources : natMap[p][k] \in sent[k] \cup {None}
    /\ DOMAIN innerMap = Proxy!Sources
    /\ \A k \in Proxy!Sources : innerMap[k] # None => Belongs("udp", k, innerMap[k])
    /\ DOMAIN icmpMap = Proxy!IcmpKeys
    /\ \A k \in Proxy!IcmpKeys : icmpMap[k] # None => <<icmpMap[k], k[1], k[2]>> \in load.pings

(* What is under way.                                                      *)
FlightOK ==
    /\ \A m \in toProxy : DatagramOK(m)
    /\ handling # None => DatagramOK(handling) /\ handling.proto = "udp"
    /\ \A t \in tasks : TaskOK(t)
    /\ \A st \in streams : Belongs("tcp", st.key, st.dst)
    /\ \A o \in outside : OutsideOK(o)
    /\ \A r \in replies : ReplyOK(r)
    /\ \A m \in toDevice : m.key = m.about /\ Belongs(m.proto, m.key, m.by)
    /\ \A a \in atClient : AnswerOK(a)

ProxyInv == MapsOK /\ FlightOK

LEMMA InitProxy == Proxy!ProxyInit => ProxyInv
  <1> SUFFICES ASSUME Proxy!ProxyInit PROVE ProxyInv
    OBVIOUS
  <1>1. MapsOK
    BY KeysAreSources DEF Proxy!ProxyInit, MapsOK
  <1>2. FlightOK
    BY DEF Proxy!ProxyInit, FlightOK
  <1> QED  BY <1>1, <1>2 DEF ProxyInv

(* What is right stays right while nothing noted down is forgotten.        *)
Keeps ==
    /\ UNCHANGED load
    /\ \A k \in Proxy!Sources : sent[k] \subseteq sent'[k]
    /\ faults' \in Nat /\ faults' >= faults
    /\ \A p \in Proxy!Protocols, k \in Proxy!Sources : Noted(p, k) => Noted(p, k)'

LEMMA StaysRight ==
    ASSUME MapsOK, Keeps
    PROVE  /\ \A p, k, d : Belongs(p, k, d) => Belongs(p, k, d)'
           /\ \A m : DatagramOK(m) => DatagramOK(m)'
           /\ \A o : OutsideOK(o) => OutsideOK(o)'
           /\ \A t : TaskOK(t) => TaskOK(t)'
           /\ \A r : ReplyOK(r) => ReplyOK(r)'
           /\ \A x : AnswerOK(x) => AnswerOK(x)'
  <1>1. \A p, k, d : Belongs(p, k, d) => Belongs(p, k, d)'
    BY DEF Keeps, Belongs
  <1>2. \A m : DatagramOK(m) => DatagramOK(m)'
    BY <1>1 DEF DatagramOK
  <1>3. \A o : OutsideOK(o) => OutsideOK(o)'
    BY <1>1 DEF OutsideOK, Keeps
  <1>4. \A r : ReplyOK(r) => ReplyOK(r)'
    BY <1>1 DEF ReplyOK, Keeps
  <1>5. \A x : AnswerOK(x) => AnswerOK(x)'
    BY DEF AnswerOK, Keeps, MapsOK
  <1>6. \A t : TaskOK(t) => TaskOK(t)'
    BY <1>1 DEF TaskOK, Keeps, MapsOK
  <1> QED  BY <1>1, <1>2, <1>3, <1>4, <1>5, <1>6

(* No step forgets: only what a task that ended with a fault noted down    *)
(* is removed.                                                             *)
LEMMA MapsKept == ASSUME MapsOK, UNCHANGED <<load, sent, natMap, faults>> PROVE Keeps
  BY DEF MapsOK, Keeps, Noted

LEMMA FaultKept == ASSUME MapsOK, UNCHANGED <<load, sent, natMap>>, Proxy!Fault PROVE Keeps /\ faults' > 0
  BY DEF MapsOK, Keeps, Noted, Proxy!Fault

-----------------------------------------------------------------------------
LEMMA RecvProxy ==
    ASSUME Proxy!SaneLoads, ProxyInv, NEW s \in Proxy!Sources, NEW d \in load.talks[s],
           Proxy!RecvHandle(load.proto, s, d)
    PROVE  ProxyInv'
  <1> DEFINE p == load.proto
  <1>1. p \in Proxy!Protocols /\ d # None
    BY DEF ProxyInv, MapsOK, Proxy!SaneLoads
  <1>2. /\ natMap' = [natMap EXCEPT ![p][s] = d]
        /\ sent' = [sent EXCEPT ![s] = @ \cup {d}]
        /\ toProxy' = {Proxy!Overtaken(m, s, d) : m \in toProxy}
                         \cup {Proxy!Datagram(p, s, d, {})}
        /\ handling' = IF handling = None THEN None ELSE Proxy!Overtaken(handling, s, d)
        /\ UNCHANGED <<load, innerMap, tasks, streams, outside, replies, toDevice, atClient,
                       icmpMap, faults>>
    BY KeysAreSources DEF Proxy!RecvHandle
  <1>3. /\ DOMAIN sent' = Proxy!Sources
        /\ \A k \in Proxy!Sources : sent[k] \subseteq sent'[k] /\ sent'[k] \subseteq load.talks[k]
        /\ d \in sent'[s]
    BY <1>2 DEF ProxyInv, MapsOK
  <1>4. /\ DOMAIN natMap' = Proxy!Protocols
        /\ \A q \in Proxy!Protocols : DOMAIN natMap'[q] = Proxy!Sources
        /\ \A q \in Proxy!Protocols, k \in Proxy!Sources :
              natMap'[q][k] = IF q = p /\ k = s THEN d ELSE natMap[q][k]
    BY <1>1, <1>2 DEF ProxyInv, MapsOK
  <1>5. Keeps /\ Noted(p, s)'
    BY <1>1, <1>2, <1>3, <1>4 DEF Keeps, Noted, ProxyInv, MapsOK
  <1>6. MapsOK'
    <2>1. \A q \in Proxy!Protocols, k \in Proxy!Sources : natMap'[q][k] \in sent'[k] \cup {None}
      BY <1>3, <1>4 DEF ProxyInv, MapsOK
    <2> QED  BY <1>2, <1>3, <1>4, <1>5, <2>1, StaysRight DEF ProxyInv, MapsOK
  <1>7. DatagramOK(Proxy!Datagram(p, s, d, {}))'
    BY <1>1, <1>2, <1>3, <1>5 DEF DatagramOK, Belongs, Proxy!Datagram
  <1>8. ASSUME NEW m, DatagramOK(m)  PROVE DatagramOK(Proxy!Overtaken(m, s, d))'
    BY <1>5, <1>8, StaysRight DEF ProxyInv, DatagramOK, Proxy!Overtaken, Proxy!Datagram
  <1>9. \A m \in toProxy' : DatagramOK(m)'
    BY <1>2, <1>7, <1>8 DEF ProxyInv, FlightOK
  <1>10. handling' # None => DatagramOK(handling)' /\ handling'.proto = "udp"
    BY <1>2, <1>8 DEF ProxyInv, FlightOK, Proxy!Overtaken, Proxy!Datagram
  <1> QED  BY <1>2, <1>5, <1>6, <1>9, <1>10, StaysRight DEF ProxyInv, FlightOK

LEMMA TakeProxy == ASSUME ProxyInv, NEW m \in toProxy, Proxy!UdpTake(m) PROVE ProxyInv'
  <1>0. DatagramOK(m) /\ Proxy!Sender(m) = m.src /\ m.proto = "udp"
    BY KeysAreSources DEF ProxyInv, FlightOK, DatagramOK, Belongs, Proxy!UdpTake, Proxy!Sender
  <1>1. /\ toProxy' \subseteq toProxy
        /\ UNCHANGED <<load, sent, natMap, innerMap, tasks, streams, replies, toDevice,
                       atClient, icmpMap, faults>>
    BY DEF Proxy!UdpTake
  <1>2. Keeps
    BY <1>1, MapsKept DEF ProxyInv
  <1>3. MapsOK'
    BY <1>1, <1>2, StaysRight DEF ProxyInv, MapsOK
  <1>4. handling' # None => DatagramOK(handling)' /\ handling'.proto = "udp"
    BY <1>0, <1>2, StaysRight DEF ProxyInv, Proxy!UdpTake
  <1>5. \A o \in outside' : OutsideOK(o)'
    <2>1. CASE innerMap[m.src] # None
      <3> DEFINE o == Proxy!Outgoing(m, innerMap[m.src])
      <3>1. outside' = outside \cup {o}
        BY <1>0, <2>1 DEF Proxy!UdpTake
      <3>2. OutsideOK(o)
        BY <1>0, <2>1 DEF OutsideOK, DatagramOK, Belongs, ProxyInv, MapsOK, Proxy!Outgoing
      <3> HIDE DEF o
      <3> QED  BY <1>2, <3>1, <3>2, StaysRight DEF ProxyInv, FlightOK
    <2>2. CASE innerMap[m.src] = None
      BY <1>0, <1>2, <2>2, StaysRight DEF Proxy!UdpTake, ProxyInv, FlightOK
    <2> QED  BY <2>1, <2>2
  <1> QED  BY <1>1, <1>2, <1>3, <1>4, <1>5, StaysRight DEF ProxyInv, FlightOK

LEMMA ConnectProxy == ASSUME ProxyInv, Proxy!UdpConnect PROVE ProxyInv'
  <1> PICK k, d : k = handling.src /\ d = natMap["udp"][k]
    OBVIOUS
  <1> DEFINE o == Proxy!Outgoing(handling, d)
             t == [key |-> k, dst |-> d, step |-> "receives"]
  <1>0. /\ DatagramOK(handling) /\ handling.proto = "udp"
        /\ Proxy!Sender(handling) = k /\ k \in Proxy!Sources
    BY KeysAreSources DEF ProxyInv, FlightOK, DatagramOK, Belongs, Proxy!UdpConnect, Proxy!Sender
  <1>1. /\ UNCHANGED <<load, sent, natMap, toProxy, streams, replies, toDevice, atClient,
                       icmpMap>>
        /\ handling' = None
    BY DEF Proxy!UdpConnect
  <1>2. Keeps
    BY <1>1, MapsKept, FaultKept DEF ProxyInv, Proxy!UdpConnect
  <1>3. CASE UNCHANGED <<outside, innerMap, tasks>>
    <2>1. MapsOK'
      BY <1>1, <1>2, <1>3, StaysRight DEF ProxyInv, MapsOK, Keeps
    <2> QED  BY <1>1, <1>2, <1>3, <2>1, StaysRight DEF ProxyInv, FlightOK
  <1>4. CASE /\ d # None
             /\ outside' = outside \cup {o}
             /\ innerMap' = [innerMap EXCEPT ![k] = d]
             /\ tasks' = tasks \cup {t}
             /\ UNCHANGED faults
    <2>1. Belongs("udp", k, d)
      BY <1>0, <1>4 DEF Belongs, Noted, ProxyInv, MapsOK, Proxy!Protocols
    <2>2. MapsOK'
      <3>1. \A x \in Proxy!Sources : innerMap'[x] # None => Belongs("udp", x, innerMap[x])'
        BY <1>0, <1>2, <1>4, <2>1, StaysRight DEF ProxyInv, MapsOK
      <3> QED  BY <1>1, <1>4, <3>1 DEF ProxyInv, MapsOK
    <2>3. OutsideOK(o) /\ TaskOK(t)
      BY <1>0, <2>1 DEF OutsideOK, TaskOK, Proxy!Outgoing
    <2> HIDE DEF o, t
    <2>4. \A x \in tasks' : TaskOK(x)'
      BY <1>2, <1>4, <2>3, StaysRight DEF ProxyInv, FlightOK
    <2>5. \A x \in outside' : OutsideOK(x)'
      BY <1>2, <1>4, <2>3, StaysRight DEF ProxyInv, FlightOK
    <2> QED  BY <1>1, <1>2, <2>2, <2>4, <2>5, StaysRight DEF ProxyInv, FlightOK
  <1> QED  BY <1>0, <1>3, <1>4 DEF Proxy!UdpConnect

(* A task's end takes no more along than what nobody can use any more.     *)
LEMMA TaskProxy ==
    ASSUME ProxyInv, NEW t \in tasks,
           Proxy!TaskEnds(t) \/ Proxy!RemoveInner(t) \/ Proxy!RemoveNat(t)
    PROVE  ProxyInv'
  <1>0. TaskOK(t) /\ t.key \in Proxy!Sources /\ "udp" \in Proxy!Protocols
    BY DEF ProxyInv, FlightOK, TaskOK, Belongs
  <1>1. Keeps /\ (t.step # "receives" \/ Proxy!TaskEnds(t) => faults' > 0)
    <2>1. CASE Proxy!TaskEnds(t)
      BY <2>1, FaultKept DEF Proxy!TaskEnds, ProxyInv
    <2>2. CASE Proxy!RemoveInner(t)
      BY <1>0, <2>2, MapsKept DEF Proxy!RemoveInner, ProxyInv, TaskOK, Proxy!TaskEnds
    <2>3. CASE Proxy!RemoveNat(t)
      <3>1. faults > 0
        BY <1>0, <2>3 DEF Proxy!RemoveNat, TaskOK
      <3> QED  BY <1>0, <2>3, <3>1 DEF Proxy!RemoveNat, Proxy!TaskEnds, Keeps, Noted, ProxyInv, MapsOK
    <2> QED  BY <2>1, <2>2, <2>3
  <1>2. MapsOK'
    <2>1. CASE Proxy!TaskEnds(t)
      BY <1>1, <2>1, StaysRight DEF Proxy!TaskEnds, ProxyInv, MapsOK, Keeps
    <2>2. CASE Proxy!RemoveInner(t)
      <3>1. \A x \in Proxy!Sources : innerMap'[x] # None => Belongs("udp", x, innerMap[x])'
        BY <1>0, <1>1, <2>2, StaysRight DEF Proxy!RemoveInner, ProxyInv, MapsOK
      <3> QED  BY <2>2, <3>1 DEF Proxy!RemoveInner, ProxyInv, MapsOK
    <2>3. CASE Proxy!RemoveNat(t)
      <3>1. /\ DOMAIN natMap' = Proxy!Protocols
            /\ \A q \in Proxy!Protocols : DOMAIN natMap'[q] = Proxy!Sources
          BY <1>0, <2>3 DEF Proxy!RemoveNat, ProxyInv, MapsOK
      <3> QED  BY <1>1, <2>3, <3>1, StaysRight DEF Proxy!RemoveNat, ProxyInv, MapsOK
    <2> QED  BY <2>1, <2>2, <2>3
  <1>3. \A x \in tasks' : TaskOK(x)'
    <2>1. ASSUME NEW s, faults' > 0 PROVE TaskOK([t EXCEPT !.step = s])'
      BY <1>0, <1>1, <2>1, StaysRight DEF TaskOK, ProxyInv
    <2>2. \/ tasks' \subseteq tasks
          \/ faults' > 0 /\ \E s \in {"inner", "nat"} :
                tasks' = (tasks \ {t}) \cup {[t EXCEPT !.step = s]}
      BY <1>1 DEF Proxy!TaskEnds, Proxy!RemoveInner, Proxy!RemoveNat
    <2> QED  BY <1>1, <2>1, <2>2, StaysRight DEF ProxyInv, FlightOK
  <1>4. /\ replies' \subseteq replies
        /\ UNCHANGED <<toProxy, handling, streams, outside, toDevice, atClient>>
    BY DEF Proxy!TaskEnds, Proxy!RemoveInner, Proxy!RemoveNat
  <1> QED  BY <1>1, <1>2, <1>3, <1>4, StaysRight DEF ProxyInv, FlightOK

LEMMA AcceptProxy == ASSUME ProxyInv, NEW m \in toProxy, Proxy!TcpAccept(m) PROVE ProxyInv'
  <1> PICK k, d : k = m.src /\ d = natMap["tcp"][k]
    OBVIOUS
  <1> DEFINE o == Proxy!Outgoing(m, d)
             st == [key |-> k, from |-> k, dst |-> d]
  <1>0. DatagramOK(m) /\ Proxy!Sender(m) = k /\ k \in Proxy!Sources /\ m.proto = "tcp"
    BY KeysAreSources DEF ProxyInv, FlightOK, DatagramOK, Belongs, Proxy!TcpAccept, Proxy!Sender
  <1>1. /\ UNCHANGED <<load, sent, natMap, handling, innerMap, tasks, replies, toDevice,
                       atClient, icmpMap>>
        /\ toProxy' \subseteq toProxy
    BY DEF Proxy!TcpAccept
  <1>2. Keeps
    BY <1>1, MapsKept, FaultKept DEF ProxyInv, Proxy!TcpAccept
  <1>3. MapsOK'
    BY <1>1, <1>2, StaysRight DEF ProxyInv, MapsOK, Keeps
  <1>4. CASE UNCHANGED <<streams, outside>>
    BY <1>1, <1>2, <1>3, <1>4, StaysRight DEF ProxyInv, FlightOK
  <1>5. CASE d # None /\ streams' = streams \cup {st} /\ outside' = outside \cup {o}
    <2>1. Belongs("tcp", k, d)
      BY <1>0, <1>5 DEF Belongs, Noted, ProxyInv, MapsOK, Proxy!Protocols
    <2>2. OutsideOK(o) /\ st.key = k /\ st.dst = d
      BY <1>0, <2>1 DEF OutsideOK, Proxy!Outgoing
    <2> HIDE DEF o, st
    <2>3. \A x \in streams' : Belongs("tcp", x.key, x.dst)'
      BY <1>2, <1>5, <2>1, <2>2, StaysRight DEF ProxyInv, FlightOK
    <2>4. \A x \in outside' : OutsideOK(x)'
      BY <1>2, <1>5, <2>2, StaysRight DEF ProxyInv, FlightOK
    <2> QED  BY <1>1, <1>2, <1>3, <2>3, <2>4, StaysRight DEF ProxyInv, FlightOK
  <1> QED  BY <1>0, <1>4, <1>5 DEF Proxy!TcpAccept

(* A reply goes to the sender the socket is for, which is who asked.       *)
LEMMA ReplyProxy ==
    ASSUME ProxyInv, NEW r \in replies, NEW x,
           \/ x \in tasks /\ Proxy!TaskReceives(x, r)
           \/ x \in streams /\ Proxy!TcpCopies(x, r)
    PROVE  ProxyInv'
  <1>1. /\ UNCHANGED <<load, sent, natMap, toProxy, handling, innerMap, tasks, streams, outside,
                       atClient, icmpMap, faults>>
        /\ replies' \subseteq replies
    BY DEF Proxy!TaskReceives, Proxy!TcpCopies
  <1>2. Keeps /\ MapsOK'
    BY <1>1, MapsKept, StaysRight DEF ProxyInv, MapsOK
  <1>3. PICK p \in {"udp", "tcp"} :
           /\ r.proto = p /\ r.sock = x.key
           /\ toDevice' = toDevice \cup {[proto |-> p, key |-> x.key, by |-> r.by, about |-> r.about]}
    BY DEF Proxy!TaskReceives, Proxy!TcpCopies
  <1>4. x.key = r.about /\ Belongs(p, x.key, r.by)
    BY <1>3 DEF ProxyInv, FlightOK, ReplyOK
  <1>5. \A m \in toDevice' : m.key = m.about /\ Belongs(m.proto, m.key, m.by)'
    BY <1>2, <1>3, <1>4, StaysRight DEF ProxyInv, FlightOK
  <1> QED  BY <1>1, <1>2, <1>5, StaysRight DEF ProxyInv, FlightOK

LEMMA CloseProxy == ASSUME ProxyInv, NEW st \in streams, Proxy!TcpCloses(st) PROVE ProxyInv'
  <1>1. /\ UNCHANGED <<load, sent, natMap, toProxy, handling, innerMap, tasks, outside,
                       toDevice, atClient, icmpMap>>
        /\ replies' \subseteq replies /\ streams' \subseteq streams
    BY DEF Proxy!TcpCloses
  <1>2. Keeps
    BY <1>1, FaultKept DEF Proxy!TcpCloses, ProxyInv
  <1>3. MapsOK'
    BY <1>1, <1>2, StaysRight DEF ProxyInv, MapsOK, Keeps
  <1> QED  BY <1>1, <1>2, <1>3, StaysRight DEF ProxyInv, FlightOK

(* Back at the device: without an entry, a fault has removed it.           *)
LEMMA SendProxy == ASSUME ProxyInv, NEW m \in toDevice, Proxy!SendHandle(m) PROVE ProxyInv'
  <1> PICK d : d = natMap[m.proto][m.key]
    OBVIOUS
  <1> DEFINE a == [proto |-> m.proto, to |-> m.key, by |-> m.by, about |-> m.about,
                   label |-> IF d = None THEN Proxy!ProxyAddr ELSE d]
  <1>0. m.key = m.about /\ Belongs(m.proto, m.key, m.by)
    BY DEF ProxyInv, FlightOK
  <1>1. /\ UNCHANGED <<load, sent, natMap, toProxy, handling, innerMap, tasks, streams, outside,
                       replies, icmpMap, faults>>
        /\ toDevice' \subseteq toDevice /\ atClient' = atClient \cup {a}
    BY DEF Proxy!SendHandle
  <1>2. Keeps /\ MapsOK'
    BY <1>1, MapsKept, StaysRight DEF ProxyInv, MapsOK
  <1>3. AnswerOK(a)
    <2>1. m.proto # "icmp"
      BY <1>0 DEF Belongs, Proxy!Protocols
    <2>2. m.about \in Proxy!Sources /\ m.key = Proxy!Key(m.about[1], m.about[2])
      BY <1>0, KeysAreSources DEF Belongs
    <2>3. \/ d \in sent[m.about] /\ d # None
          \/ d = None /\ m.proto = "udp" /\ faults > 0
      BY <1>0 DEF Belongs, Noted, ProxyInv, MapsOK
    <2> QED  BY <2>1, <2>2, <2>3 DEF AnswerOK
  <1> HIDE DEF a
  <1>4. \A x \in atClient' : AnswerOK(x)'
    BY <1>1, <1>2, <1>3, StaysRight DEF ProxyInv, FlightOK
  <1> QED  BY <1>1, <1>2, <1>4, StaysRight DEF ProxyInv, FlightOK

(* Pings: the entry under a destination and numbers is one of those who    *)
(* asked with them.                                                        *)
LEMMA IcmpProxy ==
    ASSUME Proxy!SaneLoads, ProxyInv, NEW p \in load.pings, Proxy!IcmpRecvHandle(p)
    PROVE  ProxyInv'
  <1> DEFINE k == <<p[2], p[3]>>
             o == [from |-> p, sock |-> k, at |-> p[2], proto |-> "icmp"]
  <1>0. p = <<p[1], p[2], p[3]>> /\ k \in Proxy!IcmpKeys
    BY DEF ProxyInv, MapsOK, Proxy!SaneLoads, Proxy!IcmpKeys
  <1>1. /\ UNCHANGED <<load, sent, natMap, toProxy, handling, innerMap, tasks, streams, replies,
                       toDevice, atClient, faults>>
        /\ icmpMap' = [icmpMap EXCEPT ![k] = p[1]] /\ outside' = outside \cup {o}
    BY DEF Proxy!IcmpRecvHandle
  <1>2. Keeps
    BY <1>1, MapsKept DEF ProxyInv
  <1>3. MapsOK'
    <2>1. k[1] = p[2] /\ k[2] = p[3]
      OBVIOUS
    <2> HIDE DEF k
    <2>2. /\ DOMAIN icmpMap' = Proxy!IcmpKeys
          /\ \A x \in Proxy!IcmpKeys :
                icmpMap'[x] # None => <<icmpMap'[x], x[1], x[2]>> \in load.pings
      BY <1>0, <1>1, <2>1 DEF ProxyInv, MapsOK
    <2> QED  BY <1>1, <1>2, <2>2, StaysRight DEF ProxyInv, MapsOK
  <1>4. OutsideOK(o)
    BY DEF OutsideOK
  <1> HIDE DEF o
  <1>5. \A x \in outside' : OutsideOK(x)'
    BY <1>1, <1>2, <1>4, StaysRight DEF ProxyInv, FlightOK
  <1> QED  BY <1>1, <1>2, <1>3, <1>5, StaysRight DEF ProxyInv, FlightOK

LEMMA IcmpReplyProxy == ASSUME ProxyInv, NEW r \in replies, Proxy!IcmpReply(r) PROVE ProxyInv'
  <1>1. /\ UNCHANGED <<load, sent, natMap, toProxy, handling, innerMap, tasks, streams, outside,
                       toDevice, icmpMap, faults>>
        /\ replies' \subseteq replies /\ r.proto = "icmp"
    BY DEF Proxy!IcmpReply
  <1>2. Keeps /\ MapsOK'
    BY <1>1, MapsKept, StaysRight DEF ProxyInv, MapsOK
  <1>3. ASSUME NEW k \in Proxy!IcmpFound(r)
        PROVE  AnswerOK([proto |-> "icmp", to |-> icmpMap[k], by |-> r.by, about |-> r.sock,
                         label |-> r.by])
    <2>1. k = r.sock /\ <<icmpMap[k], k[1], k[2]>> \in load.pings
      BY DEF Proxy!IcmpFound, ProxyInv, MapsOK
    <2>2. r.by = k[1]
      BY <1>1, <2>1 DEF ProxyInv, FlightOK, ReplyOK
    <2> QED  BY <2>1, <2>2 DEF AnswerOK
  <1>4. \A x \in atClient' : AnswerOK(x)
    BY <1>3 DEF Proxy!IcmpReply, ProxyInv, FlightOK
  <1> QED  BY <1>1, <1>2, <1>4, StaysRight DEF ProxyInv, FlightOK

LEMMA OutsideProxy ==
    ASSUME ProxyInv, NEW o \in outside, Proxy!HostReplies(o) \/ Proxy!LoseOutside(o)
    PROVE  ProxyInv'
  <1>1. /\ UNCHANGED <<load, sent, natMap, toProxy, handling, innerMap, tasks, streams,
                       toDevice, atClient, icmpMap>>
        /\ outside' \subseteq outside
    BY DEF Proxy!HostReplies, Proxy!LoseOutside
  <1>2. Keeps
    BY <1>1, MapsKept, FaultKept DEF Proxy!HostReplies, Proxy!LoseOutside, ProxyInv
  <1>3. MapsOK'
    BY <1>1, <1>2, StaysRight DEF ProxyInv, MapsOK, Keeps
  <1>4. ReplyOK([proto |-> o.proto, sock |-> o.sock, by |-> o.at, about |-> o.from])
    BY DEF ProxyInv, FlightOK, OutsideOK, ReplyOK
  <1>5. \A x \in replies' : ReplyOK(x)
    BY <1>4 DEF Proxy!HostReplies, Proxy!LoseOutside, ProxyInv, FlightOK
  <1> QED  BY <1>1, <1>2, <1>3, <1>5, StaysRight DEF ProxyInv, FlightOK

LEMMA ReadProxy == ASSUME ProxyInv, NEW m \in atClient, Proxy!ClientReads(m) PROVE ProxyInv'
  <1>1. /\ UNCHANGED <<load, sent, natMap, toProxy, handling, innerMap, tasks, streams, outside,
                       replies, toDevice, icmpMap, faults>>
        /\ atClient' \subseteq atClient
    BY DEF Proxy!ClientReads
  <1>2. Keeps /\ MapsOK'
    BY <1>1, MapsKept, StaysRight DEF ProxyInv, MapsOK
  <1> QED  BY <1>1, <1>2, StaysRight DEF ProxyInv, FlightOK

(* The invariant is inductive.                                             *)
LEMMA StepProxy ==
    ASSUME Proxy!SaneLoads, ProxyInv, [Proxy!ProxyNext]_Proxy!proxyVars
    PROVE  ProxyInv'
  <1>1. CASE UNCHANGED Proxy!proxyVars
    <2>1. Keeps /\ MapsOK'
      BY <1>1, MapsKept, StaysRight DEF Proxy!proxyVars, ProxyInv, MapsOK
    <2> QED  BY <1>1, <2>1, StaysRight DEF Proxy!proxyVars, ProxyInv, FlightOK
  <1>2. ASSUME NEW s \in Proxy!Sources, Proxy!Sends(s) PROVE ProxyInv'
    BY <1>2, RecvProxy DEF Proxy!Sends
  <1>3. ASSUME NEW t \in tasks, \E r \in replies : Proxy!TaskReceives(t, r) PROVE ProxyInv'
    BY <1>3, ReplyProxy
  <1>4. ASSUME NEW st \in streams, \E r \in replies : Proxy!TcpCopies(st, r) PROVE ProxyInv'
    BY <1>4, ReplyProxy
  <1> QED  BY <1>1, <1>2, <1>3, <1>4, TakeProxy, ConnectProxy, TaskProxy, AcceptProxy, CloseProxy,
              SendProxy, IcmpProxy, IcmpReplyProxy, OutsideProxy, ReadProxy DEF Proxy!ProxyNext

LEMMA ProxyInductive == Proxy!ProxySpec => []ProxyInv
  BY InitProxy, StepProxy, LoadsAssumption, PTL DEF Proxy!ProxySpec

(* Whatever is under way to a proxy, nat_map knows under its sender the    *)
(* destination it bears, or one the sender has sent to since, or nothing.  *)
EntryFits(m) == natMap[m.proto][m.src] \in {None, m.dst} \cup m.later

OwnInv ==
    /\ \A m \in toProxy : EntryFits(m)
    /\ handling # None => EntryFits(handling)

LEMMA RecvFits ==
    ASSUME Proxy!SaneLoads, ProxyInv, OwnInv, NEW s \in Proxy!Sources, NEW d \in load.talks[s],
           Proxy!RecvHandle(load.proto, s, d)
    PROVE  OwnInv'
  <1> DEFINE p == load.proto
  <1>1. p \in Proxy!Protocols
    BY DEF ProxyInv, MapsOK, Proxy!SaneLoads
  <1>2. \A q \in Proxy!Protocols, k \in Proxy!Sources :
           natMap'[q][k] = IF q = p /\ k = s THEN d ELSE natMap[q][k]
    BY <1>1, KeysAreSources DEF Proxy!RecvHandle, ProxyInv, MapsOK
  <1>3. EntryFits(Proxy!Datagram(p, s, d, {}))'
    BY <1>1, <1>2 DEF EntryFits, Proxy!Datagram, Proxy!RecvHandle
  <1>4. ASSUME NEW m, DatagramOK(m), EntryFits(m)  PROVE EntryFits(Proxy!Overtaken(m, s, d))'
    <2>1. m.proto \in Proxy!Protocols /\ m.src \in Proxy!Sources
      BY <1>4 DEF DatagramOK, Belongs
    <2>2. CASE m.src = s
      BY <1>2, <1>4, <2>1, <2>2 DEF EntryFits, Proxy!Overtaken, Proxy!Datagram
    <2>3. CASE m.src # s
      BY <1>2, <1>4, <2>1, <2>3 DEF EntryFits, Proxy!Overtaken
    <2> QED  BY <2>2, <2>3
  <1>5. /\ toProxy' = {Proxy!Overtaken(m, s, d) : m \in toProxy}
                         \cup {Proxy!Datagram(p, s, d, {})}
        /\ handling' = IF handling = None THEN None ELSE Proxy!Overtaken(handling, s, d)
    BY DEF Proxy!RecvHandle
  <1>6. \A m \in toProxy' : EntryFits(m)'
    <2>1. \A m \in toProxy : EntryFits(Proxy!Overtaken(m, s, d))'
      BY <1>4 DEF OwnInv, ProxyInv, FlightOK
    <2> QED  BY <1>3, <1>5, <2>1 DEF Proxy!RecvHandle
  <1>7. handling' # None => EntryFits(handling)'
    BY <1>4, <1>5 DEF OwnInv, ProxyInv, FlightOK
  <1> QED  BY <1>6, <1>7 DEF OwnInv

(* Other steps bring no packet, and only remove entries.                   *)
LEMMA FitsOn ==
    ASSUME OwnInv, toProxy' \subseteq toProxy, handling' \in toProxy \cup {None, handling},
           \A m : DatagramOK(m) /\ EntryFits(m) => EntryFits(m)',
           ProxyInv
    PROVE  OwnInv'
  BY DEF OwnInv, ProxyInv, FlightOK

LEMMA StepFits ==
    ASSUME Proxy!SaneLoads, ProxyInv, OwnInv, [Proxy!ProxyNext]_Proxy!proxyVars
    PROVE  OwnInv'
  <1>1. ASSUME NEW s \in Proxy!Sources, Proxy!Sends(s)  PROVE OwnInv'
    BY <1>1, RecvFits DEF Proxy!Sends
  <1>2. ASSUME NEW t \in tasks, Proxy!RemoveNat(t)  PROVE OwnInv'
    <2>1. t.key \in Proxy!Sources /\ "udp" \in Proxy!Protocols
      BY DEF ProxyInv, FlightOK, TaskOK, Belongs
    <2>2. \A q \in Proxy!Protocols, k \in Proxy!Sources : natMap'[q][k] \in {None, natMap[q][k]}
      BY <1>2, <2>1 DEF Proxy!RemoveNat, ProxyInv, MapsOK
    <2>3. \A m : DatagramOK(m) /\ EntryFits(m) => EntryFits(m)'
      BY <2>2 DEF EntryFits, DatagramOK, Belongs
    <2> QED  BY <1>2, <2>3, FitsOn DEF Proxy!RemoveNat
  <1>3. ASSUME UNCHANGED natMap, toProxy' \subseteq toProxy,
               handling' \in toProxy \cup {None, handling}
        PROVE  OwnInv'
    BY <1>3, FitsOn DEF EntryFits
  <1>4. CASE UNCHANGED Proxy!proxyVars
    BY <1>3, <1>4 DEF Proxy!proxyVars
  <1>5. ASSUME NEW m \in toProxy, Proxy!UdpTake(m) \/ Proxy!TcpAccept(m)  PROVE OwnInv'
    BY <1>3, <1>5 DEF Proxy!UdpTake, Proxy!TcpAccept
  <1>6. CASE Proxy!UdpConnect
    BY <1>3, <1>6 DEF Proxy!UdpConnect
  <1>7. ASSUME NEW t \in tasks,
               \/ Proxy!TaskEnds(t) \/ Proxy!RemoveInner(t)
               \/ \E r \in replies : Proxy!TaskReceives(t, r)
        PROVE  OwnInv'
    BY <1>3, <1>7 DEF Proxy!TaskEnds, Proxy!RemoveInner, Proxy!TaskReceives
  <1>8. ASSUME NEW st \in streams,
               Proxy!TcpCloses(st) \/ \E r \in replies : Proxy!TcpCopies(st, r)
        PROVE  OwnInv'
    BY <1>3, <1>8 DEF Proxy!TcpCloses, Proxy!TcpCopies
  <1>9. CASE \/ \E m \in toDevice : Proxy!SendHandle(m)
             \/ \E p \in load.pings : Proxy!IcmpRecvHandle(p)
             \/ \E r \in replies : Proxy!IcmpReply(r)
    BY <1>3, <1>9 DEF Proxy!SendHandle, Proxy!IcmpRecvHandle, Proxy!IcmpReply
  <1>10. CASE \/ \E o \in outside : Proxy!HostReplies(o) \/ Proxy!LoseOutside(o)
              \/ \E m \in atClient : Proxy!ClientReads(m)
    BY <1>3, <1>10 DEF Proxy!HostReplies, Proxy!LoseOutside, Proxy!ClientReads
  <1> QED  BY <1>1, <1>2, <1>4, <1>5, <1>6, <1>7, <1>8, <1>9, <1>10 DEF Proxy!ProxyNext

LEMMA FitsInductive == Proxy!ProxySpec => []OwnInv
  <1>1. Proxy!ProxyInit => OwnInv
    BY DEF Proxy!ProxyInit, OwnInv
  <1> QED  BY <1>1, StepFits, ProxyInductive, LoadsAssumption, PTL DEF Proxy!ProxySpec

(* A socket that is opened for a packet is connected to what fits it; one  *)
(* that is found was opened for a destination of the same sender.          *)
LEMMA LeavesRight ==
    ASSUME ProxyInv, OwnInv, Proxy!ProxyNext
    PROVE  Proxy!LeavesForItsOwn
  <1> SUFFICES ASSUME NEW o \in outside', o \notin outside
               PROVE  IF o.proto = "icmp" THEN o.from \in load.pings /\ o.at = o.from[2]
                      ELSE \E m \in Proxy!Taken :
                              /\ o.proto = m.proto /\ o.from = m.src
                              /\ \/ o.at \in {m.dst} \cup m.later
                                 \/ /\ m.proto = "udp"
                                    /\ o.at = innerMap[Proxy!Sender(m)] /\ o.at \in sent[m.src]
    BY DEF Proxy!LeavesForItsOwn
  <1> DEFINE Right(m) ==
               /\ o.proto = m.proto /\ o.from = m.src
               /\ \/ o.at \in {m.dst} \cup m.later
                  \/ /\ m.proto = "udp"
                     /\ o.at = innerMap[Proxy!Sender(m)] /\ o.at \in sent[m.src]
  <1>1. ASSUME NEW p \in load.pings, Proxy!IcmpRecvHandle(p)
        PROVE  o.proto = "icmp" /\ o.from \in load.pings /\ o.at = o.from[2]
    BY <1>1 DEF Proxy!IcmpRecvHandle
  <1>2. ASSUME NEW m \in toProxy, Proxy!UdpTake(m)
        PROVE  o.proto # "icmp" /\ m \in Proxy!Taken /\ Right(m)
    <2>1. /\ o = Proxy!Outgoing(m, innerMap[Proxy!Sender(m)])
          /\ innerMap[Proxy!Sender(m)] # None /\ m.proto = "udp"
      BY <1>2 DEF Proxy!UdpTake
    <2>2. m.src \in Proxy!Sources /\ Proxy!Sender(m) = m.src
      BY KeysAreSources DEF ProxyInv, FlightOK, DatagramOK, Belongs, Proxy!Sender
    <2>3. innerMap[m.src] \in sent[m.src]
      BY <2>1, <2>2 DEF ProxyInv, MapsOK, Belongs
    <2>4. m \in Proxy!Taken
      BY <1>2 DEF Proxy!UdpTake, Proxy!Taken
    <2> QED  BY <2>1, <2>2, <2>3, <2>4 DEF Proxy!Outgoing
  <1>3. ASSUME Proxy!UdpConnect
        PROVE  o.proto # "icmp" /\ handling \in Proxy!Taken /\ Right(handling)
    <2>1. /\ handling # None /\ handling' = None /\ handling.proto = "udp"
          /\ DatagramOK(handling) /\ EntryFits(handling)
      BY <1>3 DEF Proxy!UdpConnect, ProxyInv, FlightOK, OwnInv
    <2>2. Proxy!Sender(handling) = handling.src
      BY <2>1, KeysAreSources DEF DatagramOK, Belongs, Proxy!Sender
    <2>3. /\ o = Proxy!Outgoing(handling, natMap["udp"][handling.src])
          /\ natMap["udp"][handling.src] # None
      BY <1>3, <2>2 DEF Proxy!UdpConnect
    <2>4. handling \in Proxy!Taken
      BY <2>1 DEF Proxy!Taken
    <2> QED  BY <2>1, <2>3, <2>4 DEF Proxy!Outgoing, EntryFits
  <1>4. ASSUME NEW m \in toProxy, Proxy!TcpAccept(m)
        PROVE  o.proto # "icmp" /\ m \in Proxy!Taken /\ Right(m)
    <2>1. m.proto = "tcp" /\ EntryFits(m) /\ Proxy!Sender(m) = m.src
      BY <1>4, KeysAreSources
      DEF Proxy!TcpAccept, ProxyInv, FlightOK, OwnInv, DatagramOK, Belongs, Proxy!Sender
    <2>2. o = Proxy!Outgoing(m, natMap["tcp"][m.src]) /\ natMap["tcp"][m.src] # None
      BY <1>4, <2>1 DEF Proxy!TcpAccept
    <2>3. m \in Proxy!Taken
      BY <1>4 DEF Proxy!TcpAccept, Proxy!Taken
    <2> QED  BY <2>1, <2>2, <2>3 DEF Proxy!Outgoing, EntryFits
  <1>5. \/ \E p \in load.pings : Proxy!IcmpRecvHandle(p)
        \/ \E m \in toProxy : Proxy!UdpTake(m) \/ Proxy!TcpAccept(m)
        \/ Proxy!UdpConnect
    BY DEF Proxy!ProxyNext, Proxy!Sends, Proxy!RecvHandle, Proxy!TaskEnds, Proxy!RemoveInner,
           Proxy!RemoveNat, Proxy!TaskReceives, Proxy!TcpCloses, Proxy!TcpCopies,
           Proxy!SendHandle, Proxy!IcmpReply, Proxy!HostReplies, Proxy!LoseOutside,
           Proxy!ClientReads
  <1> QED  BY <1>1, <1>2, <1>3, <1>4, <1>5

(* A packet leaves an exit node for the destination it bears, for any      *)
(* number of clients that share port numbers, and of sockets opened,       *)
(* failed and forgotten under the maps' two locks; except, of a sender     *)
(* with several destinations at one port, for one it has sent to since     *)
(* (its entry is replaced), or for one its UDP socket is still open for    *)
(* (udp_proxy.rs:128 looks at the sender alone).                           *)
THEOREM NothingAstray == Proxy!ProxySpec => NotAstray
  <1>1. ProxyInv /\ OwnInv /\ [Proxy!ProxyNext]_Proxy!proxyVars
          => [Proxy!LeavesForItsOwn]_Proxy!proxyVars
    BY LeavesRight
  <1> QED  BY <1>1, ProxyInductive, FitsInductive, PTL
           DEF NotAstray, Proxy!NotAstray, Proxy!ProxySpec

(* What comes back to a client answers a packet of its own, from an        *)
(* address it has sent to; only a datagram may bear the proxy's, and only  *)
(* after a socket was given up.                                            *)
THEOREM EveryAnswerBack == Proxy!ProxySpec => []AnswersComeBack
  <1>1. ProxyInv => AnswersComeBack
    BY DEF AnswersComeBack, ProxyInv, FlightOK, AnswerOK, Proxy!AnswersComeBack
  <1> QED  BY <1>1, ProxyInductive, PTL

-----------------------------------------------------------------------------
(* The packets between clients.                                            *)

IsPacket(p) ==
    DOMAIN p = {"gateway", "encrypt", "extension", "transport", "sourceTtl", "ttl", "src", "dst",
                "body", "len"}

(* What a cipher binds a body to, what its finger is computed over, and    *)
(* how long the body gets.                                                 *)
TagOf(c, p) == IF c.model = "xor" THEN None ELSE HeadTag(p)

Over(c) ==
    CASE c.model = "xor" -> "nothing"
      [] c.model = "aes_gcm" -> "body and tag"
      [] c.model = "chacha20_poly1305" -> "data and tag"
      [] c.model = "chacha20" -> "data"
      [] c.model \in {"aes_cbc", "aes_ecb"} -> "body"
      [] c.model = "sm4_cbc" -> "body and iv"

SealedLen(c, len) ==
    CASE c.model = "xor" -> len
      [] c.model = "aes_gcm" -> len + GcmReserved
      [] c.model = "chacha20_poly1305" -> len + TagLen + RandomLen + FingerRoom(c)
      [] c.model = "chacha20" -> len + RandomLen + FingerRoom(c)
      [] c.model = "aes_cbc" -> Padded(len + RandomLen) + FingerRoom(c)
      [] c.model = "aes_ecb" -> Padded(HeadLen + len) + FingerRoom(c)
      [] c.model = "sm4_cbc" -> Padded(HeadLen + len) + 16 + FingerRoom(c)

(* Which library a build takes a cipher from makes no difference.          *)
LEMMA SealIs ==
    ASSUME NEW c, NEW p, c.model \in Models \ {"none"}
    PROVE  Seal(c, p) = Sealed(c, p, TagOf(c, p), Over(c), SealedLen(c, p.len))
  BY DEF Models, Seal, TagOf, Over, SealedLen, XorEncrypt, AesGcmEncrypt, RingAesGcmEncrypt,
     ChaChaPolyEncrypt, RingChaChaPolyEncrypt, ChaCha20Encrypt, AesCbcEncrypt, AesEcbEncrypt,
     OpensslAesEcbEncrypt, Sm4CbcEncrypt

Spoilt(p) == [p EXCEPT !.encrypt = FALSE, !.body = Garbage]

(* Opening gives back what was sealed, or nothing, or noise where the      *)
(* cipher cannot tell.                                                     *)
LEMMA OpenIs ==
    ASSUME NEW c, NEW p, c.model \in Models \ {"none"}, p.encrypt \in BOOLEAN
    PROVE  /\ p.encrypt /\ Unlocks(c, p, TagOf(c, p), Over(c)) => Open(c, p) = Opened(p)
           /\ ~(p.encrypt /\ Unlocks(c, p, TagOf(c, p), Over(c)))
                => Open(c, p) = {} \/ (Credulous(c) /\ Open(c, p) = {Spoilt(p)})
  BY ZenonT(60) DEF Models, Open, TagOf, Over, XorDecrypt, AesGcmDecrypt, RingAesGcmDecrypt,
     ChaChaPolyDecrypt, RingChaChaPolyDecrypt, ChaCha20Decrypt, AesCbcDecrypt, AesEcbDecrypt,
     OpensslAesEcbDecrypt, Sm4CbcDecrypt, Strict, Lenient, FingerFits, Unlocks, Credulous, Spoilt

(* A sealed body under the head it was sealed with.                        *)
SealedOK(c, p) ==
    /\ p.encrypt = TRUE
    /\ p.body.kind = "sealed"
    /\ p.body.model = c.model /\ p.body.key = c.key
    /\ p.body.tag = TagOf(c, p)
    /\ p.body.finger = CalculateFinger(c, p, Over(c))
    /\ p.len = SealedLen(c, p.body.plainLen)

SameHead(p, q) ==
    /\ p.gateway = q.gateway /\ p.extension = q.extension /\ p.transport = q.transport
    /\ p.sourceTtl = q.sourceTtl /\ p.ttl = q.ttl /\ p.src = q.src /\ p.dst = q.dst

LEMMA SealFields ==
    ASSUME NEW c, NEW p, c.model \in Models \ {"none"}, IsPacket(p)
    PROVE  /\ IsPacket(Seal(c, p)) /\ SameHead(Seal(c, p), p) /\ SealedOK(c, Seal(c, p))
           /\ Seal(c, p).body.of = p.body /\ Seal(c, p).body.plainLen = p.len
  <1> DEFINE body == [kind |-> "sealed", model |-> c.model, key |-> c.key, tag |-> TagOf(c, p),
                      finger |-> CalculateFinger(c, p, Over(c)), of |-> p.body, plainLen |-> p.len]
             s == Seal(c, p)
  <1>1. s = [p EXCEPT !.encrypt = TRUE, !.len = SealedLen(c, p.len), !.body = body]
    BY SealIs DEF Sealed
  <1>2. body.kind = "sealed" /\ body.model = c.model /\ body.key = c.key /\ body.tag = TagOf(c, p)
        /\ body.finger = CalculateFinger(c, p, Over(c)) /\ body.of = p.body /\ body.plainLen = p.len
    OBVIOUS
  <1> HIDE DEF body, s
  <1>3. IsPacket(s) /\ SameHead(s, p) /\ s.encrypt = TRUE /\ s.len = SealedLen(c, p.len) /\ s.body = body
    BY <1>1 DEF IsPacket, SameHead
  <1>4. HeadTag(s) = HeadTag(p)
    BY <1>3 DEF HeadTag, SameHead
  <1>5. TagOf(c, s) = TagOf(c, p) /\ CalculateFinger(c, s, Over(c)) = CalculateFinger(c, p, Over(c))
    BY <1>4 DEF TagOf, CalculateFinger
  <1> QED  BY <1>2, <1>3, <1>5 DEF SealedOK, s

(* Who has the model, the key and the finger of what a packet was sealed   *)
(* with opens it.                                                          *)
LEMMA SameOpens ==
    ASSUME NEW c, NEW d, NEW p, c.model \in Models \ {"none"}, Same(c, d), SealedOK(c, p)
    PROVE  Open(d, p) = Opened(p)
  <1>1. Unlocks(d, p, TagOf(d, p), Over(d))
    BY ZenonT(60) DEF Same, SealedOK, Unlocks, TagOf, Over, CalculateFinger
  <1> QED  BY <1>1, OpenIs DEF Same, SealedOK

LEMMA OpenedFields ==
    ASSUME NEW p, IsPacket(p)
    PROVE  \A q \in Opened(p) :
              /\ IsPacket(q) /\ SameHead(q, p) /\ q.encrypt = FALSE
              /\ q.len = p.body.plainLen /\ q.body = p.body.of
  BY DEF Opened, IsPacket, SameHead

(* What opens to something other than noise was sealed to the same length. *)
LEMMA SameLength ==
    ASSUME NEW c, NEW d, NEW p, c.model \in Models \ {"none"}, SealedOK(c, p),
           d.model = c.model, Unlocks(d, p, TagOf(d, p), Over(d))
    PROVE  \A len : SealedLen(d, len) = SealedLen(c, len)
  <1>1. CalculateFinger(c, p, Over(c)) = CalculateFinger(d, p, Over(d))
    BY DEF SealedOK, Unlocks
  <1>2. c.finger = None <=> d.finger = None
    BY <1>1, ZenonT(60) DEF CalculateFinger
  <1>3. FingerRoom(c) = FingerRoom(d)
    BY <1>2 DEF FingerRoom
  <1> QED  BY <1>3 DEF SealedLen

-----------------------------------------------------------------------------
(* An IP packet, or a compressed one, and its length.                      *)
BodyOK(ext, b, len) ==
    IF ext THEN b.kind = "zip" /\ b.of.kind = "ip" /\ b.plainLen \in Lens /\ len = ShrunkLen + 4
    ELSE b.kind = "ip" /\ len \in Lens

Bare(ext, b) == IF ext THEN b.of ELSE b

(* The IP packet in a packet between clients.                              *)
Content(p) == Bare(p.extension, IF p.encrypt THEN p.body.of ELSE p.body)

(* A packet that a client with this cipher made for other clients.         *)
PacketOK(c, p) ==
    /\ IsPacket(p) /\ p.gateway = FALSE /\ p.extension \in BOOLEAN
    /\ IF c.model = "none" THEN p.encrypt = FALSE /\ BodyOK(p.extension, p.body, p.len)
       ELSE SealedOK(c, p) /\ BodyOK(p.extension, p.body.of, p.body.plainLen)

FromClient(p) == \E n \in Nodes : PacketOK(cfg.cipher[n], p)

(* One for or from the server: the list of a broadcast, or an IP packet.   *)
ServerOK(p) ==
    /\ IsPacket(p) /\ p.gateway = TRUE
    /\ SealedOK(cfg.serverCipher, p)
    /\ IF p.transport = "Ipv4Broadcast"
       THEN p.body.of.kind = "list" /\ FromClient(p.body.of.of)
       ELSE p.body.of.kind = "ip"

(* The flags left in the buffer for compressed packets harm nobody.        *)
HeadOK(n) ==
    /\ DOMAIN extHead[n] = {"gateway", "encrypt", "extension"}
    /\ extHead[n].gateway = FALSE /\ extHead[n].encrypt \in BOOLEAN
    /\ cfg.cipher[n].model = "none" => extHead[n].encrypt = FALSE

ShapeInv ==
    /\ cfg \in Configs
    /\ DOMAIN extHead = Nodes /\ \A n \in Nodes : HeadOK(n)
    /\ \A m \in net : FromClient(m.pkt) \/ ServerOK(m.pkt)
    /\ noRoom = FALSE

LEMMA InitShape == Init => ShapeInv
  <1> SUFFICES ASSUME Init PROVE ShapeInv
    OBVIOUS
  <1>1. \A n \in Nodes : extHead[n] = NoFlags
    BY DEF Init
  <1>2. /\ DOMAIN NoFlags = {"gateway", "encrypt", "extension"}
        /\ NoFlags.gateway = FALSE /\ NoFlags.encrypt = FALSE
    BY DEF NoFlags
  <1>3. \A n \in Nodes : HeadOK(n)
    BY <1>1, <1>2 DEF HeadOK
  <1> QED  BY <1>3 DEF Init, ShapeInv

LEMMA ConfigFacts ==
    ASSUME ShapeInv
    PROVE  /\ \A n \in Nodes : cfg.cipher[n].model \in Models
           /\ cfg.serverCipher.model = "aes_gcm" /\ "aes_gcm" \in Models \ {"none"}
           /\ \A n \in Nodes : cfg.ipRoute[n] \in Nodes \cup {None}
  BY RelayAssumption DEF ShapeInv, Models

LEMMA NewFields ==
    ASSUME NEW f, NEW tr, NEW ttl, NEW src, NEW dst, NEW b, NEW len
    PROVE  LET p == NewPacket(f, tr, ttl, src, dst, b, len)
           IN  /\ IsPacket(p)
               /\ p.gateway = f.gateway /\ p.encrypt = f.encrypt /\ p.extension = f.extension
               /\ p.transport = tr /\ p.sourceTtl = ttl /\ p.ttl = ttl
               /\ p.src = src /\ p.dst = dst /\ p.body = b /\ p.len = len
  BY DEF NewPacket, IsPacket

(* Sealing for the other clients.                                          *)
LEMMA SealClient ==
    ASSUME NEW c, NEW p, c.model \in Models, IsPacket(p), p.gateway = FALSE,
           p.extension \in BOOLEAN, BodyOK(p.extension, p.body, p.len),
           c.model = "none" => p.encrypt = FALSE
    PROVE  /\ PacketOK(c, Seal(c, p)) /\ SameHead(Seal(c, p), p)
           /\ Content(Seal(c, p)) = Bare(p.extension, p.body)
  <1>1. CASE c.model = "none"
    <2>1. Seal(c, p) = p
      BY <1>1 DEF Seal
    <2> QED  BY <1>1, <2>1 DEF PacketOK, SameHead, Content
  <1>2. CASE c.model # "none"
    <2>1. PacketOK(c, Seal(c, p)) /\ SameHead(Seal(c, p), p)
      BY <1>2, SealFields DEF PacketOK, SameHead
    <2>2. PICK s : s = Seal(c, p)
      OBVIOUS
    <2>3. SealedOK(c, s) /\ SameHead(s, p) /\ s.body.of = p.body
      BY <1>2, <2>2, SealFields
    <2>4. s.encrypt = TRUE /\ s.body.of = p.body /\ s.extension = p.extension
      BY <2>3 DEF SealedOK, SameHead
    <2> QED  BY <2>1, <2>2, <2>4 DEF Content
  <1> QED  BY <1>1, <1>2

(* Sealing for the server.                                                 *)
LEMMA SealServer ==
    ASSUME ShapeInv, NEW p, IsPacket(p), p.gateway = TRUE,
           IF p.transport = "Ipv4Broadcast" THEN p.body.kind = "list" /\ FromClient(p.body.of)
           ELSE p.body.kind = "ip"
    PROVE  ServerOK(Seal(cfg.serverCipher, p)) /\ SameHead(Seal(cfg.serverCipher, p), p)
  BY SealFields, ConfigFacts DEF ServerOK, SameHead

LEMMA ForServerOK ==
    ASSUME ShapeInv, NEW p, NEW tr \in {"Ipv4", "WGIpv4"}, IsPacket(p), p.body.kind = "ip"
    PROVE  ServerOK(ForServer(p, tr))
  <1> DEFINE q == [p EXCEPT !.gateway = TRUE, !.transport = tr]
  <1>1. IsPacket(q) /\ q.gateway = TRUE /\ q.transport = tr /\ q.body = p.body
    BY DEF IsPacket
  <1> HIDE DEF q
  <1>2. ServerOK(Seal(cfg.serverCipher, q))
    BY <1>1, SealServer
  <1> QED  BY <1>2 DEF ForServer, q

(* The list of a broadcast, and the room for it.                           *)
LEMMA CopyOK ==
    ASSUME ShapeInv, NEW n, NEW p, FromClient(p), NEW direct
    PROVE  FromClient(ServerCopy(n, p, direct)) \/ ServerOK(ServerCopy(n, p, direct))
  <1>1. CASE direct = {}
    BY <1>1 DEF ServerCopy
  <1>2. CASE direct # {}
    <2> PICK l, f : /\ l = 1 + 4 * Cardinality(direct) + HeadLen + p.len
                     /\ f = [NoFlags EXCEPT !.gateway = TRUE]
      OBVIOUS
    <2> DEFINE b == [kind |-> "list", done |-> direct, of |-> p]
               q == NewPacket(f, "Ipv4Broadcast", MaxTtl, p.src, p.dst, b, l)
    <2>1. b.kind = "list" /\ b.of = p
      OBVIOUS
    <2>2. f.gateway = TRUE
      BY DEF NoFlags
    <2>3. ServerCopy(n, p, direct) = Seal(cfg.serverCipher, q)
      BY <1>2 DEF ServerCopy
    <2> HIDE DEF b
    <2>4. IsPacket(q) /\ q.gateway = f.gateway /\ q.transport = "Ipv4Broadcast" /\ q.body = b
      BY DEF NewPacket, IsPacket
    <2> HIDE DEF q
    <2> QED  BY <2>1, <2>2, <2>3, <2>4, SealServer
  <1> QED  BY <1>1, <1>2

(* A body's length, sealed or not.                                         *)
LEMMA LengthFacts ==
    ASSUME NEW c, c.model \in Models \ {"none"}, NEW len \in Lens \cup {ShrunkLen + 4}
    PROVE  SealedLen(c, len) \in Nat /\ HeadLen + SealedLen(c, len) <= BufferSize
  <1>1. FingerRoom(c) \in {0, 12}
    BY DEF FingerRoom, FingerLen
  <1>2. \A l \in Nat : Padded(l) \in Nat /\ Padded(l) <= l + 16
    BY DEF Padded
  <1>3. len \in Nat /\ len <= 200
    BY DEF Lens, ShrunkLen
  <1> QED  BY <1>1, <1>2, <1>3
           DEF SealedLen, Models, GcmReserved, TagLen, RandomLen, FingerLen, HeadLen, BufferSize

LEMMA ShapeKept ==
    ASSUME ShapeInv, UNCHANGED cfg, noRoom' = FALSE,
           DOMAIN extHead' = Nodes, \A n \in Nodes : HeadOK(n)',
           \A m \in net' : m \in net \/ FromClient(m.pkt) \/ ServerOK(m.pkt)
    PROVE  ShapeInv'
  <1>1. \A p : FromClient(p)' <=> FromClient(p)
    BY DEF FromClient
  <1>2. \A p : ServerOK(p)' <=> ServerOK(p)
    BY <1>1 DEF ServerOK
  <1> QED  BY <1>1, <1>2 DEF ShapeInv

LEMMA HeadsKept ==
    ASSUME ShapeInv, UNCHANGED <<cfg, extHead>>
    PROVE  DOMAIN extHead' = Nodes /\ \A n \in Nodes : HeadOK(n)'
  BY DEF ShapeInv, HeadOK

(* A packet as the tun thread makes it.                                    *)
IsFresh(p, ip) ==
    /\ IsPacket(p)
    /\ p.gateway = FALSE /\ p.encrypt = FALSE /\ p.extension = FALSE
    /\ p.body = ip /\ p.body.kind = "ip" /\ p.len \in Lens

IsHead(p, ip) ==
    /\ IsFresh(p, ip)
    /\ p.src = ip.src /\ p.dst = (IF ip.dst = Multicast THEN Broadcast ELSE ip.dst)
    /\ p.transport = "Ipv4" /\ p.ttl = 6 /\ p.sourceTtl = 6

LEMMA HeadFresh ==
    ASSUME NEW n, NEW ip, NEW len \in Lens, ip.kind = "ip"
    PROVE  IsHead(NewHead(n, ip, len), ip)
  <1>1. NoFlags.gateway = FALSE /\ NoFlags.encrypt = FALSE /\ NoFlags.extension = FALSE
    BY DEF NoFlags
  <1> QED  BY <1>1 DEF NewHead, Reset, NewPacket, IsHead, IsFresh, IsPacket

LEMMA HeadVia ==
    ASSUME NEW h, NEW ip, NEW via, IsHead(h, ip)
    PROVE  LET p == [h EXCEPT !.dst = via]
           IN  /\ IsFresh(p, ip) /\ p.src = ip.src /\ p.dst = via
               /\ p.transport = "Ipv4" /\ p.ttl = 6 /\ p.sourceTtl = 6
  BY DEF IsHead, IsFresh, IsPacket

(* What compressing may make of it: the flags are those of the other       *)
(* buffer, which are none that matter.                                     *)
IsPacked(n, p, ip, z) ==
    /\ IsPacket(z.pkt) /\ z.pkt.gateway = FALSE /\ z.pkt.extension \in BOOLEAN
    /\ BodyOK(z.pkt.extension, z.pkt.body, z.pkt.len)
    /\ cfg.cipher[n].model = "none" => z.pkt.encrypt = FALSE
    /\ Bare(z.pkt.extension, z.pkt.body) = ip
    /\ z.pkt.src = p.src /\ z.pkt.dst = p.dst /\ z.pkt.transport = p.transport
    /\ z.pkt.ttl = p.ttl /\ z.pkt.sourceTtl = p.sourceTtl
    /\ DOMAIN z.out = {"gateway", "encrypt", "extension"}
    /\ z.out.gateway = FALSE /\ z.out.encrypt = extHead[n].encrypt

LEMMA PackOK ==
    ASSUME ShapeInv, NEW n \in Nodes, NEW p, NEW ip, IsFresh(p, ip), NEW z \in Pack(n, p)
    PROVE  IsPacked(n, p, ip, z)
  <1>0. HeadOK(n)
    BY DEF ShapeInv
  <1> DEFINE alg == cfg.compressor[n]
             b == [kind |-> "zip", algorithm |-> alg, of |-> p.body, plainLen |-> p.len]
             into == Zip(alg, [p EXCEPT !.gateway = extHead[n].gateway,
                                        !.encrypt = extHead[n].encrypt])
  <1>1. b.kind = "zip" /\ b.of = ip /\ b.plainLen = p.len
    BY DEF IsFresh
  <1>2. into = [[p EXCEPT !.gateway = extHead[n].gateway, !.encrypt = extHead[n].encrypt]
                EXCEPT !.extension = TRUE, !.len = ShrunkLen + 4, !.body = b]
    BY DEF Zip, IsFresh, IsPacket
  <1> HIDE DEF b
  <1>3. /\ IsPacket(into) /\ into.gateway = extHead[n].gateway /\ into.encrypt = extHead[n].encrypt
        /\ into.extension = TRUE /\ into.len = ShrunkLen + 4 /\ into.body = b
        /\ into.src = p.src /\ into.dst = p.dst /\ into.transport = p.transport
        /\ into.ttl = p.ttl /\ into.sourceTtl = p.sourceTtl
    BY <1>2 DEF IsFresh, IsPacket
  <1>4. \/ z = [pkt |-> p, out |-> extHead[n], zipped |-> FALSE]
        \/ z = [pkt |-> into, out |-> FlagsOf(into), zipped |-> TRUE]
        \/ z = [pkt |-> p, out |-> FlagsOf(into), zipped |-> FALSE]
    BY DEF Pack
  <1> HIDE DEF into
  <1>5. z.pkt \in {p, into} /\ z.out \in {extHead[n], FlagsOf(into)}
    BY <1>4
  <1>6. /\ DOMAIN z.out = {"gateway", "encrypt", "extension"}
        /\ z.out.gateway = FALSE /\ z.out.encrypt = extHead[n].encrypt
    BY <1>0, <1>3, <1>5 DEF HeadOK, FlagsOf
  <1>7. CASE z.pkt = p
    BY <1>6, <1>7 DEF IsPacked, IsFresh, BodyOK, Bare
  <1>8. CASE z.pkt = into
    BY <1>0, <1>1, <1>3, <1>6, <1>8 DEF IsPacked, IsFresh, BodyOK, Bare, HeadOK
  <1> QED  BY <1>5, <1>7, <1>8

LEMMA SealPacked ==
    ASSUME ShapeInv, NEW n \in Nodes, NEW p, NEW ip, IsFresh(p, ip), NEW z \in Pack(n, p),
           PackAndSeal(n, p, z), UNCHANGED cfg
    PROVE  LET q == Seal(cfg.cipher[n], z.pkt)
           IN  /\ FromClient(q) /\ PacketOK(cfg.cipher[n], q) /\ Content(q) = ip
               /\ q.src = p.src /\ q.dst = p.dst /\ q.transport = p.transport
               /\ q.ttl = p.ttl /\ q.sourceTtl = p.sourceTtl
               /\ DOMAIN extHead' = Nodes /\ \A k \in Nodes : HeadOK(k)'
  <1> DEFINE c == cfg.cipher[n]
             q == Seal(c, z.pkt)
  <1>0. c.model \in Models /\ HeadOK(n) /\ DOMAIN extHead = Nodes
    BY ConfigFacts DEF ShapeInv
  <1>p. IsPacked(n, p, ip, z)
    BY PackOK
  <1>1. PacketOK(c, q) /\ SameHead(q, z.pkt) /\ Content(q) = ip
    <2>1. /\ IsPacket(z.pkt) /\ z.pkt.gateway = FALSE /\ z.pkt.extension \in BOOLEAN
          /\ BodyOK(z.pkt.extension, z.pkt.body, z.pkt.len)
          /\ c.model = "none" => z.pkt.encrypt = FALSE
          /\ Bare(z.pkt.extension, z.pkt.body) = ip
      BY <1>p DEF IsPacked
    <2> HIDE DEF c
    <2> QED  BY <1>0, <2>1, SealClient
  <1>2. FromClient(q)
    BY <1>1 DEF FromClient
  <1>3. /\ q.src = p.src /\ q.dst = p.dst /\ q.transport = p.transport
        /\ q.ttl = p.ttl /\ q.sourceTtl = p.sourceTtl
    BY <1>1, <1>p DEF SameHead, IsPacked
  <1> HIDE DEF q
  <1>4. PICK f : /\ extHead' = [extHead EXCEPT ![n] = f]
                 /\ f = FlagsOf(q) \/ f = z.out
    BY DEF PackAndSeal, q
  <1>5. /\ DOMAIN f = {"gateway", "encrypt", "extension"}
        /\ f.gateway = FALSE /\ f.encrypt \in BOOLEAN
        /\ c.model = "none" => f.encrypt = FALSE
    <2>1. CASE f = FlagsOf(q)
      <3>1. q.gateway = FALSE /\ q.encrypt \in BOOLEAN /\ (c.model = "none" => q.encrypt = FALSE)
        BY <1>1 DEF PacketOK, SealedOK
      <3> QED  BY <2>1, <3>1 DEF FlagsOf
    <2>2. CASE f = z.out
      <3>1. /\ DOMAIN f = {"gateway", "encrypt", "extension"}
            /\ f.gateway = FALSE /\ f.encrypt = extHead[n].encrypt
        BY <1>p, <2>2 DEF IsPacked
      <3> QED  BY <1>0, <3>1 DEF HeadOK
    <2> QED  BY <1>4, <2>1, <2>2
  <1>6. DOMAIN extHead' = Nodes /\ \A k \in Nodes : HeadOK(k)'
    BY <1>0, <1>4, <1>5 DEF ShapeInv, HeadOK
  <1> QED  BY <1>1, <1>2, <1>3, <1>6 DEF q

(* The list fits: it is built with room for the tag.                       *)
LEMMA CopyHasRoom ==
    ASSUME ShapeInv, NEW p, FromClient(p), NEW direct \in SUBSET Nodes
    PROVE  CopyFits(p, direct)
  <1> PICK len : len = 1 + 4 * Cardinality(direct) + HeadLen + p.len
    OBVIOUS
  <1>1. IsPacket(p) /\ p.len \in Nat
    <2>1. PICK n \in Nodes : PacketOK(cfg.cipher[n], p)
      BY DEF FromClient
    <2>2. CASE cfg.cipher[n].model = "none"
      BY <2>1, <2>2 DEF PacketOK, BodyOK, Lens, ShrunkLen
    <2>3. CASE cfg.cipher[n].model # "none"
      <3>1. p.body.plainLen \in Lens \cup {ShrunkLen + 4} /\ p.len = SealedLen(cfg.cipher[n], p.body.plainLen)
        BY <2>1, <2>3 DEF PacketOK, BodyOK, SealedOK
      <3> QED  BY <2>1, <2>3, <3>1, LengthFacts, ConfigFacts DEF PacketOK
    <2> QED  BY <2>2, <2>3
  <1>2. Cardinality(direct) \in Nat
    BY RelayAssumption, FS_Subset, FS_CardinalityType
  <1>3. len \in Nat
    BY <1>1, <1>2 DEF HeadLen
  <1> DEFINE q == [p EXCEPT !.len = len]
  <1>4. IsPacket(q) /\ q.len = len
    BY <1>1 DEF IsPacket
  <1> HIDE DEF q
  <1>5. Seal(cfg.serverCipher, q).len = len + 32
    <2>1. PICK s : s = Seal(cfg.serverCipher, q)
      OBVIOUS
    <2>2. SealedOK(cfg.serverCipher, s) /\ s.body.plainLen = len
      BY <1>4, <2>1, SealFields, ConfigFacts
    <2>3. s.len = SealedLen(cfg.serverCipher, len)
      BY <2>2 DEF SealedOK
    <2> QED  BY <1>3, <2>1, <2>3, ConfigFacts
             DEF SealedLen, GcmReserved, TagLen, RandomLen, FingerLen
  <1>6. HasRoom(cfg.serverCipher, q, HeadLen + len + EncryptionReserved)
    BY <1>3, <1>5, ConfigFacts DEF HasRoom, TooLong, EncryptionReserved, HeadLen
  <1> QED  BY <1>6 DEF CopyFits, q

(* What the tun thread sends.                                              *)
LEMMA PeerShape ==
    ASSUME ShapeInv, NEW n \in Nodes, NEW ip, NEW len \in Lens, ip.kind = "ip",
           ToPeer(n, ip, len), UNCHANGED cfg
    PROVE  ShapeInv'
  <1> PICK via : via = IF ip.dst = Outside THEN cfg.ipRoute[n] ELSE ip.dst
    OBVIOUS
  <1> DEFINE p == [NewHead(n, ip, len) EXCEPT !.dst = via]
  <1>0. IsFresh(p, ip)
    <2>1. IsHead(NewHead(n, ip, len), ip)
      BY HeadFresh
    <2> QED  BY <2>1, HeadVia
  <1>1. CASE UNCHANGED <<net, extHead>>
    BY <1>1, ShapeKept, HeadsKept DEF ToPeer, ShapeInv
  <1>2. ASSUME NEW z \in Pack(n, p), PackAndSeal(n, p, z),
               SendIpv4ById(n, Seal(cfg.cipher[n], z.pkt), ip.id)
        PROVE  ShapeInv'
    <2> DEFINE q == Seal(cfg.cipher[n], z.pkt)
    <2> HIDE DEF p
    <2>1. FromClient(q) /\ DOMAIN extHead' = Nodes /\ \A k \in Nodes : HeadOK(k)'
      BY <1>0, <1>2, SealPacked
    <2> HIDE DEF q
    <2>2. \A m \in net' : m \in net \/ m.pkt = q
      BY <1>2 DEF SendIpv4ById, Sends, Msg, q
    <2> QED  BY <2>1, <2>2, ShapeKept DEF ToPeer, ShapeInv
  <1> QED  BY <1>1, <1>2 DEF ToPeer

LEMMA AllShape ==
    ASSUME ShapeInv, NEW n \in Nodes, NEW ip, NEW len \in Lens, ip.kind = "ip",
           ToAll(n, ip, len), UNCHANGED cfg
    PROVE  ShapeInv'
  <1> DEFINE p == NewHead(n, ip, len)
             copy == NewPacket(NoFlags, "WGIpv4", 6, n, Broadcast, ip, len)
             wg == {Msg(n, Server, ForServer(copy, "WGIpv4"), ip.id) : x \in {y \in {n} : cfg.wireGuard}}
  <1>0. IsFresh(p, ip)
    BY HeadFresh DEF IsHead
  <1>1. CASE UNCHANGED <<net, extHead, noRoom>>
    BY <1>1, ShapeKept, HeadsKept DEF ShapeInv
  <1>2. \A m \in wg : ServerOK(m.pkt)
    <2>1. IsPacket(copy) /\ copy.body = ip
      BY DEF NewPacket, IsPacket
    <2> HIDE DEF copy
    <2>2. ServerOK(ForServer(copy, "WGIpv4"))
      BY <2>1, ForServerOK
    <2> QED  BY <2>2 DEF Msg
  <1>3. ASSUME NEW z \in Pack(n, p), PackAndSeal(n, p, z),
               SendBroadcast(n, Seal(cfg.cipher[n], z.pkt), ip.id, wg)
        PROVE  ShapeInv'
    <2> DEFINE q == Seal(cfg.cipher[n], z.pkt)
    <2> HIDE DEF p
    <2>1. FromClient(q) /\ DOMAIN extHead' = Nodes /\ \A k \in Nodes : HeadOK(k)'
      BY <1>0, <1>3, SealPacked
    <2> HIDE DEF q, wg
    <2>2. PICK direct \in SUBSET Nodes, server \in BOOLEAN, online \in BOOLEAN :
             /\ net' \subseteq net \cup wg \cup {Msg(n, x, q, ip.id) : x \in direct}
                               \cup {Msg(n, Server, ServerCopy(n, q, direct), ip.id)}
             /\ noRoom' = (noRoom \/ (server /\ online /\ ~CopyFits(q, direct)))
      <3>0. PICK tried \in kSubset(Min({MaxCount + 1, Cardinality(Nodes \ {n})}), Nodes \ {n}) :
               \E direct \in SUBSET tried, online \in BOOLEAN :
               LET server == NeedsServer(Nodes \ {n}, tried, direct)
               IN  /\ Sends(wg \cup {Msg(n, x, q, ip.id) : x \in direct} \cup
                            IF server /\ online /\ CopyFits(q, direct)
                            THEN {Msg(n, Server, ServerCopy(n, q, direct), ip.id)} ELSE {})
                   /\ noRoom' = (noRoom \/ (server /\ online /\ ~CopyFits(q, direct)))
        BY <1>3, ZenonT(60) DEF SendBroadcast, q
      <3>1. PICK direct \in SUBSET tried, online \in BOOLEAN :
               LET server == NeedsServer(Nodes \ {n}, tried, direct)
               IN  /\ Sends(wg \cup {Msg(n, x, q, ip.id) : x \in direct} \cup
                            IF server /\ online /\ CopyFits(q, direct)
                            THEN {Msg(n, Server, ServerCopy(n, q, direct), ip.id)} ELSE {})
                   /\ noRoom' = (noRoom \/ (server /\ online /\ ~CopyFits(q, direct)))
        BY <3>0
      <3>2. direct \in SUBSET Nodes
        BY DEF kSubset
      <3>3. NeedsServer(Nodes \ {n}, tried, direct) \in BOOLEAN
        BY DEF NeedsServer
      <3> QED  BY <3>1, <3>2, <3>3 DEF Sends
    <2>3. noRoom' = FALSE
      BY <2>1, <2>2, CopyHasRoom DEF ShapeInv
    <2>4. \A m \in net' : m \in net \/ FromClient(m.pkt) \/ ServerOK(m.pkt)
      BY <1>2, <2>1, <2>2, CopyOK DEF Msg
    <2> QED  BY <2>1, <2>3, <2>4, ShapeKept
  <1> QED  BY <1>1, <1>3 DEF ToAll

LEMMA TunShape == ASSUME ShapeInv, NEW n \in Nodes, TunRead(n) PROVE ShapeInv'
  <1>0. PICK dst \in cfg.dsts, type \in {"data", "ping"}, len \in Lens :
           LET ip == IpPacket(reads + 1, type, n, dst, n)
           IN  \/ SelfPing(n, ip, len) \/ ToGateway(n, ip, len) \/ ToWgPeer(n, ip, len)
               \/ ToPeer(n, ip, len) \/ ToAll(n, ip, len)
    BY DEF TunRead
  <1>1. PICK ip : /\ ip = IpPacket(reads + 1, type, n, dst, n)
                  /\ \/ SelfPing(n, ip, len) \/ ToGateway(n, ip, len) \/ ToWgPeer(n, ip, len)
                     \/ ToPeer(n, ip, len) \/ ToAll(n, ip, len)
    BY <1>0
  <1>2. ip.kind = "ip" /\ UNCHANGED cfg
    BY <1>1 DEF IpPacket, TunRead
  <1>3. CASE SelfPing(n, ip, len)
    BY <1>2, <1>3, ShapeKept, HeadsKept DEF SelfPing, ShapeInv
  <1>4. CASE ToGateway(n, ip, len) \/ ToWgPeer(n, ip, len)
    <2>1. IsPacket(NewHead(n, ip, len)) /\ NewHead(n, ip, len).body.kind = "ip"
      <3>1. IsHead(NewHead(n, ip, len), ip)
        BY <1>2, HeadFresh
      <3> QED  BY <3>1 DEF IsHead, IsFresh
    <2>2. \A tr \in {"Ipv4", "WGIpv4"} : ServerOK(ForServer(NewHead(n, ip, len), tr))
      BY <2>1, ForServerOK
    <2>3. \A m \in net' : m \in net \/ ServerOK(m.pkt)
      BY <1>4, <2>2 DEF ToGateway, ToWgPeer, Sends, Msg
    <2>4. UNCHANGED <<extHead, noRoom>>
      BY <1>4 DEF ToGateway, ToWgPeer
    <2> QED  BY <1>2, <2>3, <2>4, ShapeKept, HeadsKept DEF ShapeInv
  <1> QED  BY <1>1, <1>2, <1>3, <1>4, PeerShape, AllShape

-----------------------------------------------------------------------------
(* What a client with the cipher c is left with of a packet: the IP packet *)
(* in it, in a packet that gets as long again when it is sealed.           *)
IsLeft(c, p, q) ==
    /\ IsPacket(q)
    /\ q.gateway = FALSE /\ q.encrypt = FALSE /\ q.extension = FALSE
    /\ q.src = p.src /\ q.dst = p.dst /\ q.transport = p.transport
    /\ q.ttl = p.ttl /\ q.sourceTtl = p.sourceTtl
    /\ q.body = Content(p) /\ q.body.kind = "ip" /\ q.len \in Lens
    /\ p.extension = FALSE => p.len = IF c.model = "none" THEN q.len ELSE SealedLen(c, q.len)

LEMMA TailOf ==
    ASSUME NEW q, IsPacket(q), q.gateway = FALSE, q.encrypt = FALSE, q.extension \in BOOLEAN,
           BodyOK(q.extension, q.body, q.len)
    PROVE  \A x \in HandleExtensionTail(q) :
              /\ IsPacket(x)
              /\ x.gateway = FALSE /\ x.encrypt = FALSE /\ x.extension = FALSE
              /\ x.src = q.src /\ x.dst = q.dst /\ x.transport = q.transport
              /\ x.ttl = q.ttl /\ x.sourceTtl = q.sourceTtl
              /\ x.body = Bare(q.extension, q.body) /\ x.body.kind = "ip" /\ x.len \in Lens
              /\ q.extension = FALSE => x.len = q.len
  <1>1. CASE q.extension = FALSE
    <2>1. HandleExtensionTail(q) = {q}
      BY <1>1 DEF HandleExtensionTail
    <2> QED  BY <1>1, <2>1 DEF BodyOK, Bare
  <1>2. CASE q.extension = TRUE
    <2> DEFINE x == [q EXCEPT !.extension = FALSE, !.len = q.body.plainLen, !.body = q.body.of]
    <2>1. HandleExtensionTail(q) = {x}
      BY <1>2 DEF HandleExtensionTail, BodyOK
    <2>2. /\ IsPacket(x)
          /\ x.gateway = FALSE /\ x.encrypt = FALSE /\ x.extension = FALSE
          /\ x.src = q.src /\ x.dst = q.dst /\ x.transport = q.transport
          /\ x.ttl = q.ttl /\ x.sourceTtl = q.sourceTtl
          /\ x.body = q.body.of /\ x.len = q.body.plainLen
      BY DEF IsPacket
    <2> HIDE DEF x
    <2> QED  BY <1>2, <2>1, <2>2 DEF BodyOK, Bare
  <1> QED  BY <1>1, <1>2

(* A client opens what it can to what was put in, nothing less.            *)
LEMMA OpensTo ==
    ASSUME NEW c, NEW d, NEW p, c.model \in Models, d.model \in Models, PacketOK(d, p),
           NEW x \in Open(c, p)
    PROVE  \/ x = Spoilt(p) /\ Credulous(c)
           \/ /\ IsPacket(x) /\ SameHead(x, p) /\ x.encrypt = FALSE
              /\ BodyOK(x.extension, x.body, x.len) /\ Bare(x.extension, x.body) = Content(p)
              /\ p.len = IF c.model = "none" THEN x.len ELSE SealedLen(c, x.len)
  <1>1. CASE c.model = "none"
    <2>1. x = p /\ p.encrypt = FALSE
      BY <1>1 DEF Open, PacketOK, SealedOK
    <2>2. d.model = "none"
      BY <2>1 DEF PacketOK, SealedOK
    <2> QED  BY <1>1, <2>1, <2>2 DEF PacketOK, SameHead, Content
  <1>2. CASE c.model # "none"
    <2>0. p.encrypt \in BOOLEAN
      BY DEF PacketOK, SealedOK
    <2>1. CASE p.encrypt /\ Unlocks(c, p, TagOf(c, p), Over(c))
      <3>1. x \in Opened(p)
        BY <1>2, <2>0, <2>1, OpenIs
      <3>2. d.model # "none" /\ p.encrypt = TRUE
        BY <2>1 DEF PacketOK
      <3>3. /\ IsPacket(x) /\ SameHead(x, p) /\ x.encrypt = FALSE
            /\ x.len = p.body.plainLen /\ x.body = p.body.of
        BY <3>1, OpenedFields DEF PacketOK
      <3>4. SealedOK(d, p) /\ BodyOK(p.extension, p.body.of, p.body.plainLen)
        BY <3>2 DEF PacketOK
      <3>5. d.model = c.model
        BY <2>1, <3>4 DEF Unlocks, SealedOK
      <3>6. p.len = SealedLen(c, x.len)
        <4>1. SealedLen(c, x.len) = SealedLen(d, x.len)
          BY <2>1, <3>2, <3>4, <3>5, SameLength
        <4>2. p.len = SealedLen(d, p.body.plainLen)
          BY <3>4 DEF SealedOK
        <4> QED  BY <3>3, <4>1, <4>2
      <3>7. x.extension = p.extension
        BY <3>3 DEF SameHead
      <3> QED  BY <1>2, <3>2, <3>3, <3>4, <3>6, <3>7 DEF Content
    <2>2. CASE ~(p.encrypt /\ Unlocks(c, p, TagOf(c, p), Over(c)))
      BY <1>2, <2>0, <2>2, OpenIs
    <2> QED  BY <2>1, <2>2
  <1> QED  BY <1>1, <1>2

LEMMA SpoiltTail ==
    ASSUME NEW p, IsPacket(p), p.extension \in BOOLEAN
    PROVE  \A q \in HandleExtensionTail(Spoilt(p)) : q.body = Garbage /\ p.extension = FALSE
  <1>1. Spoilt(p).extension = p.extension /\ Spoilt(p).body = Garbage
    BY DEF Spoilt, IsPacket
  <1>2. Garbage.kind # "zip"
    BY DEF Garbage
  <1> QED  BY <1>1, <1>2 DEF HandleExtensionTail

LEMMA LeftIs ==
    ASSUME NEW c, NEW d, NEW p, c.model \in Models, d.model \in Models, PacketOK(d, p),
           NEW x \in Open(c, p), NEW q \in HandleExtensionTail(x)
    PROVE  (q.body = Garbage /\ Credulous(c)) \/ IsLeft(c, p, q)
  <1>1. CASE x = Spoilt(p) /\ Credulous(c)
    BY <1>1, SpoiltTail DEF PacketOK
  <1>2. CASE /\ IsPacket(x) /\ SameHead(x, p) /\ x.encrypt = FALSE
             /\ BodyOK(x.extension, x.body, x.len) /\ Bare(x.extension, x.body) = Content(p)
             /\ p.len = IF c.model = "none" THEN x.len ELSE SealedLen(c, x.len)
    <2>1. x.gateway = FALSE /\ x.extension = p.extension /\ x.extension \in BOOLEAN
      BY <1>2 DEF SameHead, PacketOK
    <2>2. /\ IsPacket(q)
          /\ q.gateway = FALSE /\ q.encrypt = FALSE /\ q.extension = FALSE
          /\ q.src = x.src /\ q.dst = x.dst /\ q.transport = x.transport
          /\ q.ttl = x.ttl /\ q.sourceTtl = x.sourceTtl
          /\ q.body = Bare(x.extension, x.body) /\ q.body.kind = "ip" /\ q.len \in Lens
          /\ x.extension = FALSE => q.len = x.len
      BY <1>2, <2>1, TailOf
    <2> QED  BY <1>2, <2>1, <2>2 DEF IsLeft, SameHead
  <1> QED  BY <1>1, <1>2, OpensTo

(* The answer to a ping fits where the ping was, or was opened to.         *)
LEMMA AnswerFits ==
    ASSUME NEW c, NEW p, NEW q, NEW r, c.model \in Models, IsLeft(c, p, q), p.extension \in BOOLEAN,
           IsPacket(r), r.len = q.len
    PROVE  HasRoom(c, r, IF p.extension THEN BufferSize ELSE HeadLen + p.len)
  <1>1. q.len \in Nat /\ q.len <= 200
    BY DEF IsLeft, Lens
  <1>2. ~TooLong(c, r)
    <2>1. Padded(HeadLen + q.len) <= HeadLen + q.len + 16
      BY <1>1 DEF Padded, HeadLen
    <2>2. Padded(HeadLen + q.len) \in Nat
      BY <1>1 DEF Padded, HeadLen
    <2> QED  BY <1>1, <2>1, <2>2 DEF TooLong, HeadLen
  <1>3. PICK l : l = Seal(c, r).len
    OBVIOUS
  <1>4. CASE c.model = "none"
    <2>1. Seal(c, r) = r
      BY <1>4 DEF Seal
    <2>2. l = q.len
      BY <1>3, <2>1
    <2> QED  BY <1>1, <1>2, <1>3, <1>4, <2>2 DEF HasRoom, IsLeft, HeadLen, BufferSize
  <1>5. CASE c.model # "none"
    <2>1. PICK s : s = Seal(c, r)
      OBVIOUS
    <2>2. SealedOK(c, s) /\ s.body.plainLen = q.len
      BY <1>5, <2>1, SealFields
    <2>3. l = SealedLen(c, q.len)
      BY <1>3, <2>1, <2>2 DEF SealedOK
    <2>4. l \in Nat /\ HeadLen + l <= BufferSize
      BY <1>5, <2>3, LengthFacts DEF IsLeft
    <2>5. p.extension = FALSE => p.len = l
      BY <1>5, <2>3 DEF IsLeft
    <2> QED  BY <1>2, <1>3, <2>4, <2>5 DEF HasRoom, HeadLen
  <1> QED  BY <1>4, <1>5

(* ip_turn's answer.                                                       *)
ReplyTo(q, n) == [q EXCEPT !.src = q.dst, !.dst = q.src, !.body = EchoReply(q.body, n)]

LEMMA ReplyFields ==
    ASSUME NEW c, NEW p, NEW q, NEW n, c.model \in Models, IsLeft(c, p, q)
    PROVE  LET r == ReplyTo(q, n)
               s == Seal(c, r)
           IN  /\ IsPacket(r) /\ r.len = q.len
               /\ PacketOK(c, s) /\ Content(s) = EchoReply(q.body, n)
               /\ s.src = p.dst /\ s.dst = p.src /\ s.transport = p.transport
               /\ s.ttl = p.ttl /\ s.sourceTtl = p.sourceTtl
  <1> DEFINE r == ReplyTo(q, n)
             s == Seal(c, r)
  <1>1. EchoReply(q.body, n).kind = "ip"
    BY DEF EchoReply, IpPacket
  <1>2. /\ IsPacket(r) /\ r.len = q.len /\ r.gateway = FALSE /\ r.encrypt = FALSE
        /\ r.extension = FALSE /\ r.body = EchoReply(q.body, n)
        /\ r.src = q.dst /\ r.dst = q.src /\ r.transport = q.transport
        /\ r.ttl = q.ttl /\ r.sourceTtl = q.sourceTtl
    BY DEF ReplyTo, IsLeft, IsPacket
  <1> HIDE DEF r
  <1>3. BodyOK(r.extension, r.body, r.len) /\ Bare(r.extension, r.body) = EchoReply(q.body, n)
    BY <1>1, <1>2 DEF BodyOK, Bare, IsLeft
  <1>4. PacketOK(c, s) /\ SameHead(s, r) /\ Content(s) = EchoReply(q.body, n)
    BY <1>2, <1>3, SealClient
  <1> HIDE DEF s
  <1>5. /\ s.src = p.dst /\ s.dst = p.src /\ s.transport = p.transport
        /\ s.ttl = p.ttl /\ s.sourceTtl = p.sourceTtl
    BY <1>2, <1>4 DEF SameHead, IsLeft
  <1> QED  BY <1>2, <1>4, <1>5 DEF r, s

LEMMA NotForServer ==
    ASSUME ShapeInv, NEW m \in net
    PROVE  /\ ~m.pkt.gateway => FromClient(m.pkt) /\ m.pkt.gateway = FALSE
           /\ m.pkt.gateway => ServerOK(m.pkt) /\ m.pkt.gateway = TRUE
  BY DEF ShapeInv, FromClient, PacketOK, ServerOK

(* The answer goes out whole.                                              *)
AnswersWhole(m, q) ==
    /\ IsLeft(cfg.cipher[m.to], m.pkt, q)
    /\ q.body.type = "ping" /\ q.body.dst = q.dst
    /\ offered' = offered \cup {EchoReply(q.body, m.to)}
    /\ Taken(m, {Msg(m.to, m.from, Seal(cfg.cipher[m.to], ReplyTo(q, m.to)), m.about)})
    /\ UNCHANGED <<written, lost, noRoom>>

(* The client takes noise for a packet.                                    *)
Noisy(c, p) == \E x \in Open(c, p) : \E q \in HandleExtensionTail(x) : q.body = Garbage

(* What a client does with a packet for it.                                *)
LEMMA ClientCases ==
    ASSUME ShapeInv, NEW m \in net, m.to \in Nodes, ClientHandle(m)
    PROVE  LET c == cfg.cipher[m.to]
           IN  \/ /\ \A x \in Open(c, m.pkt) : HandleExtensionTail(x) = {}
                  /\ Drops(m)
               \/ \E q : AnswersWhole(m, q)
               \/ HandsOver(m, Content(m.pkt)) /\ \E q : IsLeft(c, m.pkt, q) /\ q.body = Content(m.pkt)
               \/ HandsOver(m, Garbage) /\ Credulous(c) /\ Noisy(c, m.pkt)
  <1> DEFINE c == cfg.cipher[m.to]
             left == UNION {HandleExtensionTail(x) : x \in Open(c, m.pkt)}
  <1>1. PICK n \in Nodes : PacketOK(cfg.cipher[n], m.pkt)
    BY NotForServer DEF ClientHandle, FromClient
  <1>2. c.model \in Models /\ cfg.cipher[n].model \in Models
    BY ConfigFacts
  <1>3. CASE left = {}
    <2>1. Drops(m)
      BY <1>3 DEF ClientHandle
    <2>2. \A x \in Open(c, m.pkt) : HandleExtensionTail(x) = {}
      BY <1>3
    <2> QED  BY <2>1, <2>2
  <1>4. ASSUME NEW q \in left,
               IF q.body.type = "ping" /\ q.body.dst = q.dst
               THEN Answers(m, q, \E z \in Open(c, m.pkt) : z.extension)
               ELSE HandsOver(m, q.body)
        PROVE  \/ AnswersWhole(m, q)
               \/ HandsOver(m, Content(m.pkt)) /\ IsLeft(c, m.pkt, q) /\ q.body = Content(m.pkt)
               \/ HandsOver(m, Garbage) /\ Credulous(c) /\ Noisy(c, m.pkt)
    <2>1. PICK x \in Open(c, m.pkt) : q \in HandleExtensionTail(x)
      BY <1>4
    <2>2. (q.body = Garbage /\ Credulous(c)) \/ IsLeft(c, m.pkt, q)
      BY <1>1, <1>2, <2>1, LeftIs
    <2>3. CASE q.body = Garbage /\ Credulous(c)
      <3>1. Garbage.type # "ping"
        BY DEF Garbage
      <3> QED  BY <1>4, <2>1, <2>3, <3>1 DEF Noisy
    <2>4. CASE IsLeft(c, m.pkt, q)
      <3>1. q.body = Content(m.pkt)
        BY <2>4 DEF IsLeft
      <3>2. CASE ~(q.body.type = "ping" /\ q.body.dst = q.dst)
        BY <1>4, <2>4, <3>1, <3>2
      <3>3. CASE q.body.type = "ping" /\ q.body.dst = q.dst
        <4> DEFINE r == ReplyTo(q, m.to)
                   zipped == \E z \in Open(c, m.pkt) : z.extension
                   fits == HasRoom(c, r, IF zipped THEN BufferSize ELSE HeadLen + m.pkt.len)
        <4>1. Answers(m, q, zipped)
          BY <1>4, <3>3
        <4>2. /\ offered' = offered \cup {EchoReply(q.body, m.to)}
              /\ Taken(m, {Msg(m.to, m.from, Seal(c, r), m.about) : y \in {y \in {m.to} : fits}})
              /\ noRoom' = (noRoom \/ ~fits)
              /\ UNCHANGED <<written, lost>>
          BY <4>1 DEF Answers, ReplyTo
        <4>3. zipped <=> m.pkt.extension
          <5>1. \A z \in Open(c, m.pkt) : z.extension = m.pkt.extension
            <6> SUFFICES ASSUME NEW z \in Open(c, m.pkt) PROVE z.extension = m.pkt.extension
              OBVIOUS
            <6>1. Spoilt(m.pkt).extension = m.pkt.extension
              BY <1>1 DEF Spoilt, PacketOK, IsPacket
            <6>2. z = Spoilt(m.pkt) \/ SameHead(z, m.pkt)
              BY <1>1, <1>2, OpensTo
            <6> QED  BY <6>1, <6>2 DEF SameHead
          <5> QED  BY <2>1, <5>1
        <4>4. m.pkt.extension \in BOOLEAN /\ IsPacket(r) /\ r.len = q.len
          <5>1. m.pkt.extension \in BOOLEAN
            BY <1>1 DEF PacketOK
          <5>2. IsPacket(r) /\ r.len = q.len
            BY <2>4 DEF IsLeft, ReplyTo, IsPacket
          <5> QED  BY <5>1, <5>2
        <4> HIDE DEF r
        <4>5. HasRoom(c, r, IF m.pkt.extension THEN BufferSize ELSE HeadLen + m.pkt.len)
          BY <1>2, <2>4, <4>4, AnswerFits
        <4>6. fits
          BY <4>3, <4>5
        <4>7. noRoom' = noRoom /\ Taken(m, {Msg(m.to, m.from, Seal(c, r), m.about)})
          BY <4>2, <4>6 DEF ShapeInv
        <4> QED  BY <2>4, <3>3, <4>2, <4>7 DEF AnswersWhole, r
      <3> QED  BY <3>2, <3>3
    <2> QED  BY <2>2, <2>3, <2>4
  <1> QED  BY <1>3, <1>4 DEF ClientHandle

(* The server, and a client for packets from it, open what was sealed for  *)
(* them.                                                                   *)
LEMMA ServerOpens ==
    ASSUME ShapeInv, NEW m \in net, ServerOK(m.pkt)
    PROVE  /\ Open(cfg.serverCipher, m.pkt) = Opened(m.pkt)
           /\ \A q \in Opened(m.pkt) :
                 /\ IsPacket(q) /\ SameHead(q, m.pkt) /\ q.body = m.pkt.body.of
                 /\ q.gateway = TRUE /\ q.transport = m.pkt.transport /\ q.src = m.pkt.src
  <1>1. Same(cfg.serverCipher, cfg.serverCipher)
    BY DEF Same
  <1>2. SealedOK(cfg.serverCipher, m.pkt) /\ IsPacket(m.pkt) /\ m.pkt.gateway = TRUE
    BY DEF ServerOK
  <1>3. Open(cfg.serverCipher, m.pkt) = Opened(m.pkt)
    BY <1>1, <1>2, SameOpens, ConfigFacts
  <1> QED  BY <1>2, <1>3, OpenedFields DEF SameHead

(* The gateway's answer to a ping.                                         *)
GatewayReply(q) == [q EXCEPT !.src = Gateway, !.dst = q.src, !.body = EchoReply(q.body, Server)]

LEMMA ServerCases ==
    ASSUME ShapeInv, NEW m \in net, ServerTakes(m)
    PROVE  /\ ServerOK(m.pkt)
           /\ \E q \in Opened(m.pkt) :
                 \/ /\ m.pkt.transport = "Ipv4Broadcast"
                    /\ Taken(m, {Msg(Server, x, q.body.of, m.about) :
                                    x \in ForwardTo(q.body.of, q.body.done)})
                    /\ UNCHANGED history
                 \/ /\ m.pkt.transport = "Ipv4"
                    /\ Taken(m, {Msg(Server, q.src, Seal(cfg.serverCipher, GatewayReply(q)), m.about)})
                    /\ offered' = offered \cup {EchoReply(q.body, Server)}
                    /\ UNCHANGED <<written, lost, noRoom>>
                 \/ m.pkt.transport \notin {"Ipv4Broadcast", "Ipv4"} /\ Drops(m)
  <1>1. ServerOK(m.pkt)
    BY NotForServer DEF ServerTakes
  <1>2. PICK q \in Open(cfg.serverCipher, m.pkt) :
          CASE q.transport = "Ipv4Broadcast" ->
                 /\ Taken(m, {Msg(Server, x, q.body.of, m.about) :
                                 x \in ForwardTo(q.body.of, q.body.done)})
                 /\ UNCHANGED history
            [] q.transport = "Ipv4" ->
                 /\ Taken(m, {Msg(Server, q.src, Seal(cfg.serverCipher, GatewayReply(q)), m.about)})
                 /\ offered' = offered \cup {EchoReply(q.body, Server)}
                 /\ UNCHANGED <<written, lost, noRoom>>
            [] OTHER -> Drops(m)
    BY DEF ServerTakes, GatewayReply
  <1>3. q \in Opened(m.pkt) /\ q.transport = m.pkt.transport
    BY <1>1, <1>2, ServerOpens
  <1> QED  BY <1>1, <1>2, <1>3

LEMMA GatewayReplyOK ==
    ASSUME ShapeInv, NEW q, IsPacket(q), q.gateway = TRUE, q.transport = "Ipv4"
    PROVE  LET s == Seal(cfg.serverCipher, GatewayReply(q))
           IN  /\ ServerOK(s) /\ s.transport = "Ipv4" /\ s.src = Gateway /\ s.dst = q.src
               /\ s.body.of = EchoReply(q.body, Server)
               /\ s.ttl = q.ttl /\ s.sourceTtl = q.sourceTtl
  <1> DEFINE r == GatewayReply(q)
             s == Seal(cfg.serverCipher, r)
  <1>1. EchoReply(q.body, Server).kind = "ip"
    BY DEF EchoReply, IpPacket
  <1>2. /\ IsPacket(r) /\ r.gateway = TRUE /\ r.transport = "Ipv4" /\ r.src = Gateway /\ r.dst = q.src
        /\ r.body = EchoReply(q.body, Server) /\ r.ttl = q.ttl /\ r.sourceTtl = q.sourceTtl
    BY DEF GatewayReply, IsPacket
  <1> HIDE DEF r
  <1>3. ServerOK(s) /\ SameHead(s, r)
    BY <1>1, <1>2, SealServer
  <1>4. s.body.of = r.body
    BY <1>2, SealFields, ConfigFacts
  <1> HIDE DEF s
  <1>5. /\ s.transport = "Ipv4" /\ s.src = Gateway /\ s.dst = q.src
        /\ s.ttl = q.ttl /\ s.sourceTtl = q.sourceTtl
    BY <1>2, <1>3 DEF SameHead
  <1> QED  BY <1>2, <1>3, <1>4, <1>5 DEF r, s

LEMMA RelayedOK ==
    ASSUME NEW c, NEW p, PacketOK(c, p)
    PROVE  LET q == IncrTtl(p)
           IN  /\ PacketOK(c, q) /\ Content(q) = Content(p)
               /\ q.src = p.src /\ q.dst = p.dst /\ q.sourceTtl = p.sourceTtl
               /\ q.transport = p.transport /\ q.ttl = p.ttl - 1
  <1> DEFINE q == IncrTtl(p)
  <1>1. /\ IsPacket(q) /\ q.gateway = p.gateway /\ q.encrypt = p.encrypt
        /\ q.extension = p.extension /\ q.transport = p.transport /\ q.sourceTtl = p.sourceTtl
        /\ q.src = p.src /\ q.dst = p.dst /\ q.body = p.body /\ q.len = p.len /\ q.ttl = p.ttl - 1
    BY DEF IncrTtl, PacketOK, IsPacket
  <1> HIDE DEF q
  <1>2. HeadTag(q) = HeadTag(p)
    BY <1>1 DEF HeadTag
  <1>3. SealedOK(c, p) => SealedOK(c, q)
    BY <1>1, <1>2 DEF SealedOK, TagOf, CalculateFinger
  <1>4. PacketOK(c, q) /\ Content(q) = Content(p)
    BY <1>1, <1>3 DEF PacketOK, Content
  <1> QED  BY <1>1, <1>4 DEF q

(* The steps of those who receive.                                         *)
LEMMA ArriveShape ==
    ASSUME ShapeInv, NEW m \in net, Receive(m) \/ ServerReceives(m)
    PROVE  ShapeInv'
  <1>0. UNCHANGED <<cfg, extHead>>
    BY DEF Receive, ServerReceives
  <1>1. DOMAIN extHead' = Nodes /\ \A n \in Nodes : HeadOK(n)'
    BY <1>0, HeadsKept
  <1>2. ASSUME NEW msgs, Taken(m, msgs), noRoom' = noRoom,
               \A x \in msgs : FromClient(x.pkt) \/ ServerOK(x.pkt)
        PROVE  ShapeInv'
    <2>1. \A x \in net' : x \in net \/ FromClient(x.pkt) \/ ServerOK(x.pkt)
      BY <1>2 DEF Taken
    <2> QED  BY <1>0, <1>1, <1>2, <2>1, ShapeKept DEF ShapeInv
  <1>3. CASE Drops(m)
    BY <1>2, <1>3 DEF Drops, history
  <1>4. ASSUME NEW ip, HandsOver(m, ip) PROVE ShapeInv'
    BY <1>2, <1>4 DEF HandsOver
  <1>5. CASE m.to \in Nodes /\ ClientHandle(m)
    <2> DEFINE c == cfg.cipher[m.to]
    <2>1. ASSUME NEW q, AnswersWhole(m, q) PROVE ShapeInv'
      <3>1. IsLeft(c, m.pkt, q) /\ c.model \in Models
        BY <1>5, <2>1, ConfigFacts DEF AnswersWhole
      <3>2. PacketOK(c, Seal(c, ReplyTo(q, m.to)))
        BY <3>1, ReplyFields
      <3>3. FromClient(Seal(c, ReplyTo(q, m.to)))
        BY <1>5, <3>2 DEF FromClient
      <3> QED  BY <1>2, <2>1, <3>3 DEF AnswersWhole, Msg
    <2> QED  BY <1>3, <1>4, <1>5, <2>1, ClientCases
  <1>6. CASE ServerHandle(m)
    BY <1>3, <1>4, <1>6 DEF ServerHandle
  <1>7. CASE Turn(m)
    <2>1. ASSUME NEW x, ~m.pkt.gateway, Taken(m, {Msg(m.to, x, IncrTtl(m.pkt), m.about)}), UNCHANGED history
          PROVE  ShapeInv'
      <3>1. PICK n \in Nodes : PacketOK(cfg.cipher[n], m.pkt)
        BY <2>1, NotForServer DEF FromClient
      <3>2. FromClient(IncrTtl(m.pkt))
        BY <3>1, RelayedOK DEF FromClient
      <3> QED  BY <1>2, <2>1, <3>2 DEF Msg, history
    <2>2. IsPacket(m.pkt)
      BY DEF ShapeInv, FromClient, PacketOK, ServerOK
    <2>3. IncrTtl(m.pkt).gateway = m.pkt.gateway
      BY <2>2 DEF IncrTtl, IsPacket
    <2> QED  BY <1>3, <1>7, <2>1, <2>3 DEF Turn
  <1>8. CASE ServerForwards(m)
    <2>1. FromClient(m.pkt)
      BY <1>8, NotForServer DEF ServerForwards
    <2> QED  BY <1>2, <1>8, <2>1 DEF ServerForwards, Msg, history
  <1>9. CASE ServerTakes(m)
    <2>1. ServerOK(m.pkt)
      BY <1>9, ServerCases
    <2>2. PICK q \in Opened(m.pkt) :
                 \/ /\ m.pkt.transport = "Ipv4Broadcast"
                    /\ Taken(m, {Msg(Server, x, q.body.of, m.about) :
                                    x \in ForwardTo(q.body.of, q.body.done)})
                    /\ UNCHANGED history
                 \/ /\ m.pkt.transport = "Ipv4"
                    /\ Taken(m, {Msg(Server, q.src, Seal(cfg.serverCipher, GatewayReply(q)), m.about)})
                    /\ offered' = offered \cup {EchoReply(q.body, Server)}
                    /\ UNCHANGED <<written, lost, noRoom>>
                 \/ m.pkt.transport \notin {"Ipv4Broadcast", "Ipv4"} /\ Drops(m)
      BY <1>9, ServerCases
    <2>3. IsPacket(q) /\ q.body = m.pkt.body.of /\ q.gateway = TRUE /\ q.transport = m.pkt.transport
      BY <2>1, ServerOpens
    <2>4. CASE m.pkt.transport = "Ipv4Broadcast"
      <3>1. FromClient(q.body.of)
        BY <2>1, <2>3, <2>4 DEF ServerOK
      <3> QED  BY <1>2, <2>2, <2>4, <3>1 DEF Msg, history
    <2>5. CASE m.pkt.transport = "Ipv4"
      <3>1. ServerOK(Seal(cfg.serverCipher, GatewayReply(q)))
        BY <2>3, <2>5, GatewayReplyOK
      <3> QED  BY <1>2, <2>2, <2>5, <3>1 DEF Msg, history
    <2> QED  BY <1>3, <2>2, <2>4, <2>5
  <1> QED  BY <1>3, <1>5, <1>6, <1>7, <1>8, <1>9 DEF Receive, ServerReceives

(* The invariant is inductive.                                             *)
LEMMA StepShape == ASSUME ShapeInv, [Next]_vars PROVE ShapeInv'
  <1>1. ASSUME NEW m \in net, Lose(m) PROVE ShapeInv'
    <2>1. net' \subseteq net /\ UNCHANGED <<cfg, extHead, noRoom>>
      BY <1>1 DEF Lose
    <2> QED  BY <2>1, HeadsKept, ShapeKept DEF ShapeInv
  <1>2. CASE UNCHANGED vars
    BY <1>2, HeadsKept, ShapeKept DEF vars, ShapeInv
  <1> QED  BY <1>1, <1>2, TunShape, ArriveShape DEF Next, Arrives

LEMMA ShapeInductive == Spec => []ShapeInv
  BY InitShape, StepShape, PTL DEF Spec

(* Nothing is dropped for want of room: neither an answer sealed where the *)
(* ping was, whatever cipher it came with, nor the list of a broadcast,    *)
(* for any number of clients.                                              *)
THEOREM AlwaysRoom == Spec => []RoomToSeal
  <1>1. ShapeInv => RoomToSeal
    BY DEF ShapeInv, RoomToSeal
  <1> QED  BY <1>1, ShapeInductive, PTL

(* Clients that share a cipher open what they send each other, and the     *)
(* server what is for it, whatever was in the reused buffers before and    *)
(* however many relays changed the head.                                   *)
THEOREM AlwaysOpenable == Spec => []Openable
  <1>1. ShapeInv => Openable
    <2> SUFFICES ASSUME ShapeInv, OneCipher, NEW m \in net,
                        NEW c \in IF m.pkt.gateway THEN {cfg.serverCipher}
                                  ELSE {cfg.cipher[n] : n \in Nodes}
                 PROVE  \E q \in Open(c, m.pkt) : q.body # Garbage
      BY DEF Openable
    <2>0. Garbage.kind = "garbage"
      BY DEF Garbage
    <2>1. CASE m.pkt.gateway
      <3>1. ServerOK(m.pkt) /\ c = cfg.serverCipher
        BY <2>1, NotForServer
      <3>2. PICK q : q \in Opened(m.pkt)
        BY DEF Opened
      <3>3. q.body = m.pkt.body.of /\ q \in Open(c, m.pkt)
        BY <3>1, <3>2, ServerOpens
      <3>4. m.pkt.body.of.kind \in {"list", "ip"}
        BY <3>1 DEF ServerOK
      <3> QED  BY <2>0, <3>3, <3>4
    <2>2. CASE ~m.pkt.gateway
      <3>1. PICK n \in Nodes : PacketOK(cfg.cipher[n], m.pkt)
        BY <2>2, NotForServer DEF FromClient
      <3>2. Same(cfg.cipher[n], c) /\ cfg.cipher[n].model \in Models
        BY <2>2, ConfigFacts DEF OneCipher
      <3>3. CASE cfg.cipher[n].model = "none"
        <4>1. Open(c, m.pkt) = {m.pkt} /\ m.pkt.body.kind \in {"ip", "zip"}
          BY <3>1, <3>2, <3>3 DEF PacketOK, BodyOK, Open, Same
        <4> QED  BY <2>0, <4>1
      <3>4. CASE cfg.cipher[n].model # "none"
        <4>1. /\ SealedOK(cfg.cipher[n], m.pkt) /\ IsPacket(m.pkt)
              /\ m.pkt.body.of.kind \in {"ip", "zip"}
          BY <3>1, <3>4 DEF PacketOK, BodyOK
        <4>2. Open(c, m.pkt) = Opened(m.pkt)
          BY <3>2, <3>4, <4>1, SameOpens
        <4>3. PICK q : q \in Opened(m.pkt)
          BY DEF Opened
        <4>4. q.body = m.pkt.body.of
          BY <4>1, <4>3, OpenedFields
        <4> QED  BY <2>0, <4>1, <4>2, <4>3, <4>4
      <3> QED  BY <3>3, <3>4
    <2> QED  BY <2>1, <2>2
  <1> QED  BY <1>1, ShapeInductive, PTL

-----------------------------------------------------------------------------
(* Where a packet between clients goes, and what is in it.                 *)

(* The address in the head of a packet with this IP packet, and who is to  *)
(* get it, whether or not it lets packets out.                             *)
Aim(ip) ==
    CASE ip.dst \in {Broadcast, Multicast} -> Broadcast
      [] ip.dst = Outside -> cfg.ipRoute[ip.src]
      [] OTHER -> ip.dst

Intended(ip) == (IF Aim(ip) = Broadcast THEN Nodes ELSE {Aim(ip)} \cap Nodes) \ {ip.src}

(* What a message is about, and who may still get it from this message;    *)
(* the server counts for a ping of the gateway.                            *)
Cargo(m) ==
    IF ~m.pkt.gateway THEN Content(m.pkt)
    ELSE IF m.pkt.transport = "Ipv4Broadcast" THEN Content(m.pkt.body.of.of)
    ELSE m.pkt.body.of

Targets(m) ==
    IF ~m.pkt.gateway
    THEN IF m.pkt.dst = Broadcast /\ m.to \in Nodes THEN {m.to} ELSE ForwardTo(m.pkt, {})
    ELSE IF m.pkt.transport = "Ipv4Broadcast"
         THEN ForwardTo(m.pkt.body.of.of, m.pkt.body.of.done)
    ELSE IF m.pkt.transport = "Ipv4" THEN {m.to}
    ELSE {}

Around == offered \cup {Cargo(m) : m \in net}

IpOK(a) ==
    /\ a.kind = "ip" /\ a.id \in 1..reads /\ a.src # a.dst
    /\ a.type = "pong" => a.dst \in Nodes /\ a.by # a.dst
    /\ a.type # "pong" => a.src \in Nodes /\ a.by = a.src

(* One number, one packet of a device; all others are answers to it.       *)
SameId(a, b) == a.id = b.id /\ a.type # "pong" => b = a \/ (b.type = "pong" /\ b.dst = a.src)

Aims(p) == p.src = Content(p).src /\ p.dst = Aim(Content(p)) /\ p.dst # p.src

MsgOK(m) ==
    /\ m.to \in Nodes \cup {Server} /\ m.from \in Nodes \cup {Server}
    /\ m.about = Cargo(m).id
    /\ IF ~m.pkt.gateway THEN Aims(m.pkt)
       ELSE IF m.pkt.transport = "Ipv4Broadcast"
            THEN m.to = Server /\ Aims(m.pkt.body.of.of) /\ m.pkt.body.of.of.dst = Broadcast
       ELSE IF m.pkt.transport = "Ipv4"
            THEN IF m.to = Server THEN m.pkt.body.of.type = "ping" /\ m.pkt.src = m.pkt.body.of.src
                 ELSE m.pkt.body.of.type = "pong" /\ m.pkt.dst = m.to /\ m.pkt.body.of.dst = m.to
       ELSE m.to = Server

(* x has neither got the packet nor answered it.                           *)
Pending(x, ip) ==
    /\ ~Answered(x, ip)
    /\ \A w \in written : w.at # x \/ w.ip # ip
    /\ x \in Nodes => ip \in offered /\ x \in Intended(ip)

CargoInv ==
    /\ reads \in Nat /\ IsFiniteSet(written)
    /\ \A a \in Around : IpOK(a)
    /\ \A a, b \in Around : SameId(a, b)
    /\ \A m \in net : MsgOK(m)
    /\ \A m \in net : \A x \in Targets(m) : Pending(x, Cargo(m))
    /\ \A m, k \in net : Targets(m) \cap Targets(k) # {} /\ Cargo(m) = Cargo(k) => m = k
    /\ \A w \in written : w.ip \in offered \/ w.ip = Garbage \/ w.ip.by = w.at

LEMMA InitCargo == Init => CargoInv
  BY FS_EmptySet DEF Init, CargoInv, Around

(* Where no route leads through others, every message is at its last hop,  *)
(* or at the server.                                                       *)
Direct == OneCipher /\ ~cfg.wander

Fresh(p) == p.ttl = 6 /\ p.sourceTtl = 6

Straight(m) ==
    IF ~m.pkt.gateway
    THEN /\ Fresh(m.pkt)
         /\ m.to \in Nodes => Mine(m.to, m.pkt)
         /\ Cargo(m).type # "pong" => m.from \in {Server, m.pkt.src}
    ELSE IF m.pkt.transport = "Ipv4Broadcast" THEN Fresh(m.pkt.body.of.of)
    ELSE Fresh(m.pkt)

-----------------------------------------------------------------------------
(* What a step does to what is under way.                                  *)

(* A message becomes others, or is dropped.                                *)
Moves(m, msgs) ==
    /\ Taken(m, msgs)
    /\ UNCHANGED <<cfg, reads, offered, written>> /\ lost \subseteq lost'
    /\ \A k \in msgs : MsgOK(k) /\ Cargo(k) = Cargo(m) /\ Targets(k) \subseteq Targets(m)
    /\ \A j, k \in msgs : Targets(j) \cap Targets(k) # {} => j = k
    /\ Direct => /\ \A k \in msgs : Straight(k)
                 /\ m.about \in lost' \/ \A x \in Targets(m) : \E k \in msgs : x \in Targets(k)

(* Its last addressee gets the packet, ...                                 *)
Gives(m) ==
    /\ Taken(m, {})
    /\ m.to \in Nodes /\ Targets(m) = {m.to} /\ AllowOut(m.to, Cargo(m))
    /\ Writes(m.to, Cargo(m))
    /\ UNCHANGED <<cfg, reads, offered, lost>>

(* ... or answers it, ...                                                  *)
Replies(m, x, k) ==
    /\ Taken(m, {k})
    /\ Targets(m) = {x} /\ x \in Nodes \cup {Server}
    /\ Cargo(m).type = "ping" /\ (x \in Nodes => Cargo(m).dst # Outside)
    /\ MsgOK(k) /\ Cargo(k) = EchoReply(Cargo(m), x) /\ Targets(k) = {Cargo(m).src}
    /\ offered' = offered \cup {EchoReply(Cargo(m), x)}
    /\ UNCHANGED <<cfg, reads, written, lost>>
    /\ Direct => Straight(k)

(* ... or takes it for something else.                                     *)
Misreads(m) ==
    /\ Taken(m, {})
    /\ m.to \in Nodes /\ ~OneCipher /\ Credulous(cfg.cipher[m.to])
    /\ Writes(m.to, Garbage)
    /\ UNCHANGED <<cfg, reads, offered, lost>>

(* A device's packet, by whoever of its addressees gets a message.         *)
NewIp(n, ip) ==
    /\ n \in Nodes /\ ip.kind = "ip" /\ ip.id = reads + 1 /\ ip.type \in {"data", "ping"}
    /\ ip.src = n /\ ip.by = n
    /\ reads' = reads + 1 /\ UNCHANGED cfg

Offers(n, ip, msgs) ==
    /\ NewIp(n, ip) /\ ip.dst # n
    /\ Sends(msgs)
    /\ offered' \in {offered, offered \cup {ip}} /\ UNCHANGED written /\ lost \subseteq lost'
    /\ \A k \in msgs : MsgOK(k) /\ Cargo(k) = ip
    /\ \A k \in msgs : \A x \in Targets(k) :
          x = Server \/ (x \in Intended(ip) /\ offered' = offered \cup {ip})
    /\ \A j, k \in msgs : Targets(j) \cap Targets(k) # {} => j = k
    /\ Direct => /\ \A k \in msgs : Straight(k)
                 /\ \/ offered' = offered \/ ip.id \in lost'
                    \/ \A x \in Addressees(ip) : \E k \in msgs : x \in Targets(k)

(* A client's packet to itself.                                            *)
Muses(n, ip) ==
    /\ NewIp(n, ip) /\ ip.dst = n
    /\ Writes(n, EchoReply(ip, n)) \/ UNCHANGED written
    /\ UNCHANGED <<net, offered, lost>>

Effect ==
    \/ \E m \in net : \E msgs : Moves(m, msgs)
    \/ \E m \in net : Gives(m) \/ Misreads(m)
    \/ \E m \in net : \E x : \E k : Replies(m, x, k)
    \/ \E n \in Nodes : \E ip : Muses(n, ip) \/ \E msgs : Offers(n, ip, msgs)
    \/ UNCHANGED <<cfg, net, reads, offered, written, lost>>

-----------------------------------------------------------------------------
(* Every effect keeps the invariant.                                       *)

LEMMA AimsKept ==
    ASSUME UNCHANGED cfg
    PROVE  /\ \A p : Aims(p)' <=> Aims(p)
           /\ \A m : MsgOK(m)' <=> MsgOK(m)
           /\ \A ip : Intended(ip)' = Intended(ip)
  <1>1. \A ip : Aim(ip)' = Aim(ip)
    BY DEF Aim
  <1>2. \A p : Aims(p)' <=> Aims(p)
    BY <1>1 DEF Aims
  <1>3. \A m : MsgOK(m)' <=> MsgOK(m)
    BY <1>2 DEF MsgOK
  <1> QED  BY <1>1, <1>2, <1>3 DEF Intended

LEMMA MovesCargo ==
    ASSUME CargoInv, NEW m \in net, NEW msgs, Moves(m, msgs)
    PROVE  CargoInv'
  <1>1. \A k \in net' : (k \in net /\ k # m) \/ k \in msgs
    BY DEF Moves, Taken
  <1>2. \A k \in msgs : MsgOK(k) /\ Cargo(k) = Cargo(m) /\ Targets(k) \subseteq Targets(m)
    BY DEF Moves
  <1>3. Around' \subseteq Around
    BY <1>1, <1>2 DEF Around, Moves
  <1>4. \A a : IpOK(a)' <=> IpOK(a)
    BY DEF IpOK, Moves
  <1>5. \A x, ip : Pending(x, ip)' <=> Pending(x, ip)
    BY AimsKept DEF Pending, Answered, Moves
  <1>6. \A k \in net' : MsgOK(k)'
    BY <1>1, <1>2, AimsKept DEF CargoInv, Moves
  <1>7. \A k \in net' : \A x \in Targets(k) : Pending(x, Cargo(k))'
    BY <1>1, <1>2, <1>5 DEF CargoInv
  <1>8. ASSUME NEW j \in net', NEW k \in net', Targets(j) \cap Targets(k) # {}, Cargo(j) = Cargo(k)
        PROVE  j = k
    <2>1. CASE j \in msgs /\ k \in msgs
      BY <1>8, <2>1 DEF Moves
    <2>2. CASE j \in net /\ j # m /\ k \in msgs
      BY <1>2, <1>8, <2>2 DEF CargoInv
    <2>3. CASE j \in msgs /\ k \in net /\ k # m
      BY <1>2, <1>8, <2>3 DEF CargoInv
    <2>4. CASE j \in net /\ k \in net
      BY <1>8, <2>4 DEF CargoInv
    <2> QED  BY <1>1, <2>1, <2>2, <2>3, <2>4
  <1>9. \A a, b \in Around' : SameId(a, b)
    BY <1>3 DEF CargoInv
  <1> QED  BY <1>3, <1>4, <1>6, <1>7, <1>8, <1>9 DEF CargoInv, Moves

LEMMA WrittenIs ==
    ASSUME NEW at, NEW ip, Writes(at, ip)
    PROVE  \E w : written' = written \cup {w} /\ w.at = at /\ w.ip = ip
  <1>1. PICK nth : written' = written \cup {[at |-> at, ip |-> ip, nth |-> nth]}
    BY DEF Writes
  <1> DEFINE w == [at |-> at, ip |-> ip, nth |-> nth]
  <1>2. w.at = at /\ w.ip = ip
    OBVIOUS
  <1> HIDE DEF w
  <1>3. written' = written \cup {w}
    BY <1>1 DEF w
  <1> QED  BY <1>2, <1>3

(* A device gets something, which nothing under way is meant to be.        *)
LEMMA WritesCargo ==
    ASSUME CargoInv, net' \subseteq net, UNCHANGED <<cfg, offered>>, reads' \in Nat, reads <= reads',
           NEW at, NEW ip, Writes(at, ip) \/ UNCHANGED written,
           ip \in offered \/ ip = Garbage \/ ip.by = at,
           \A k \in net' : at \notin Targets(k) \/ ip # Cargo(k)
    PROVE  CargoInv'
  <1>1. Around' \subseteq Around
    BY DEF Around
  <1>2. \A a \in Around' : IpOK(a)'
    BY <1>1 DEF CargoInv, IpOK
  <1>3. \A k \in net' : MsgOK(k)'
    BY AimsKept DEF CargoInv
  <1>4. \A w \in written' : w \in written \/ (w.at = at /\ w.ip = ip)
    BY WrittenIs
  <1>5. IsFiniteSet(written')
    <2>1. PICK w : written' = written \cup {w} \/ written' = written
      BY WrittenIs
    <2> QED  BY <2>1, FS_AddElement DEF CargoInv
  <1>6. ASSUME NEW k \in net', NEW x \in Targets(k) PROVE Pending(x, Cargo(k))'
    <2>1. Pending(x, Cargo(k))
      BY <1>6 DEF CargoInv
    <2>2. \A w \in written' : w.at # x \/ w.ip # Cargo(k)
      BY <1>4, <2>1 DEF Pending
    <2>3. Answered(x, Cargo(k))' <=> Answered(x, Cargo(k))
      BY DEF Answered
    <2> QED  BY <2>1, <2>2, <2>3, AimsKept DEF Pending
  <1>7. \A w \in written' : w.ip \in offered \/ w.ip = Garbage \/ w.ip.by = w.at
    BY <1>4 DEF CargoInv
  <1> QED  BY <1>1, <1>2, <1>3, <1>5, <1>6, <1>7 DEF CargoInv

LEMMA GivesCargo == ASSUME CargoInv, NEW m \in net, Gives(m) PROVE CargoInv'
  <1>1. net' = net \ {m}
    BY DEF Gives, Taken
  <1>2. \A k \in net' : m.to \notin Targets(k) \/ Cargo(m) # Cargo(k)
    BY <1>1 DEF CargoInv, Gives
  <1>3. Cargo(m) \in offered
    BY DEF CargoInv, Gives, Pending
  <1> QED  BY <1>1, <1>2, <1>3, WritesCargo DEF Gives, CargoInv

LEMMA CargoIsIp == ASSUME CargoInv, NEW m \in net PROVE IpOK(Cargo(m)) /\ Cargo(m) # Garbage
  <1>1. IpOK(Cargo(m))
    BY DEF CargoInv, Around
  <1> QED  BY <1>1 DEF IpOK, Garbage

LEMMA MisreadsCargo == ASSUME CargoInv, NEW m \in net, Misreads(m) PROVE CargoInv'
  <1>1. net' = net \ {m}
    BY DEF Misreads, Taken
  <1> QED  BY <1>1, CargoIsIp, WritesCargo DEF Misreads, CargoInv

LEMMA EchoFields ==
    ASSUME NEW ip, NEW x
    PROVE  LET r == EchoReply(ip, x)
           IN  r.kind = "ip" /\ r.id = ip.id /\ r.type = "pong" /\ r.src = ip.dst /\ r.dst = ip.src /\ r.by = x
  BY DEF EchoReply, IpPacket

LEMMA MusesCargo == ASSUME CargoInv, NEW n, NEW ip, Muses(n, ip) PROVE CargoInv'
  <1>1. EchoReply(ip, n).by = n /\ EchoReply(ip, n).id = reads + 1
    BY EchoFields DEF Muses, NewIp
  <1>2. \A k \in net : Cargo(k).id \in 1..reads /\ reads \in Nat
    BY CargoIsIp DEF IpOK, CargoInv
  <1>3. \A k \in net : EchoReply(ip, n) # Cargo(k)
    BY <1>1, <1>2
  <1>4. net' = net /\ reads' \in Nat /\ reads <= reads' /\ UNCHANGED <<cfg, offered>>
    BY DEF Muses, NewIp, CargoInv
  <1>5. Writes(n, EchoReply(ip, n)) \/ UNCHANGED written
    BY DEF Muses
  <1> QED  BY <1>1, <1>3, <1>4, <1>5, WritesCargo

(* Only pings are under way to the gateway itself.                         *)
LEMMA PingsServer ==
    ASSUME CargoInv, NEW m \in net, Server \in Targets(m)
    PROVE  Cargo(m).type = "ping"
  <1>1. MsgOK(m)
    BY DEF CargoInv
  <1> QED  BY <1>1, RelayAssumption DEF MsgOK, Targets, Cargo, ForwardTo

LEMMA RepliesCargo ==
    ASSUME CargoInv, NEW m \in net, NEW x, NEW k, Replies(m, x, k)
    PROVE  CargoInv'
  <1> DEFINE ip == Cargo(m)
             r == EchoReply(ip, x)
  <1>0. /\ net' = (net \ {m}) \cup {k} /\ Targets(m) = {x} /\ ip.type = "ping"
        /\ MsgOK(k) /\ Cargo(k) = r /\ Targets(k) = {ip.src} /\ offered' = offered \cup {r}
        /\ UNCHANGED <<cfg, reads, written>> /\ x \in Nodes \cup {Server}
    BY DEF Replies, Taken
  <1>1. ip \in Around /\ IpOK(ip) /\ ip.src \in Nodes
    BY <1>0, CargoIsIp DEF Around, IpOK
  <1>2. Pending(x, ip)
    BY <1>0 DEF CargoInv
  <1>3. x # ip.src
    BY <1>1, <1>2, RelayAssumption DEF Pending, Intended
  <1>4. r.kind = "ip" /\ r.id = ip.id /\ r.type = "pong" /\ r.src = ip.dst /\ r.dst = ip.src /\ r.by = x
    BY EchoFields
  <1> HIDE DEF r, ip
  <1>5. r \notin offered
    BY <1>2, <1>4 DEF Pending, Answered
  <1>6. IpOK(r)
    BY <1>1, <1>3, <1>4 DEF IpOK
  <1>7. Around' \subseteq Around \cup {r}
    BY <1>0 DEF Around
  <1>8. ASSUME NEW a \in Around' PROVE IpOK(a)'
    BY <1>0, <1>6, <1>7 DEF CargoInv, IpOK
  <1>9. ASSUME NEW a \in Around', NEW b \in Around' PROVE SameId(a, b)
    <2>1. CASE a \in Around /\ b \in Around
      BY <2>1 DEF CargoInv
    <2>2. CASE a = r
      BY <1>4, <2>2 DEF SameId
    <2>3. CASE a \in Around /\ b = r
      <3>1. SameId(a, ip)
        BY <1>1, <2>3 DEF CargoInv
      <3> QED  BY <1>0, <1>4, <2>3, <3>1 DEF SameId
    <2> QED  BY <1>7, <2>1, <2>2, <2>3
  <1>10. ASSUME NEW j \in net, j # m, x \in Targets(j), Cargo(j).id = ip.id PROVE FALSE
    <2>1. Cargo(j) \in Around /\ SameId(ip, Cargo(j))
      BY <1>1 DEF CargoInv, Around
    <2>2. Cargo(j) # ip
      BY <1>0, <1>10 DEF CargoInv, ip
    <2>3. Cargo(j).type = "pong" /\ Cargo(j).dst = ip.src
      BY <1>0, <1>10, <2>1, <2>2 DEF SameId
    <2>4. CASE x \in Nodes
      <3>1. x \in Intended(Cargo(j))
        BY <1>10, <2>4 DEF CargoInv, Pending
      <3>2. Intended(Cargo(j)) \subseteq {ip.src}
        BY <1>1, <2>3, RelayAssumption DEF Intended, Aim
      <3> QED  BY <1>3, <3>1, <3>2
    <2>5. CASE x = Server
      BY <1>10, <2>3, <2>5, PingsServer
    <2> QED  BY <1>0, <2>4, <2>5
  <1>11. ASSUME NEW j \in net, j # m, NEW y \in Targets(j) PROVE Pending(y, Cargo(j))'
    <2>1. Pending(y, Cargo(j))
      BY <1>11 DEF CargoInv
    <2>2. ~Answered(y, Cargo(j))'
      BY <1>0, <1>4, <1>10, <1>11, <2>1 DEF Answered, Pending
    <2> QED  BY <1>0, <2>1, <2>2, AimsKept DEF Pending
  <1>12. Pending(ip.src, r)'
    <2>1. ASSUME NEW q \in offered, q.type = "pong", q.id = ip.id PROVE q.by # ip.src
      <3>1. SameId(ip, q) /\ IpOK(q)
        BY <1>1 DEF CargoInv, Around
      <3> QED  BY <1>0, <2>1, <3>1 DEF SameId, IpOK
    <2>2. ~Answered(ip.src, r)'
      BY <1>0, <1>3, <1>4, <2>1 DEF Answered
    <2>3. \A w \in written : w.at # ip.src \/ w.ip # r
      BY <1>3, <1>4, <1>5 DEF CargoInv, Garbage
    <2>4. ip.src \in Intended(r)
      BY <1>1, <1>4, RelayAssumption DEF Intended, Aim, IpOK
    <2> QED  BY <1>0, <2>2, <2>3, <2>4, AimsKept DEF Pending
  <1>13. \A j \in net' : MsgOK(j)' /\ \A y \in Targets(j) : Pending(y, Cargo(j))'
    BY <1>0, <1>11, <1>12, AimsKept DEF CargoInv
  <1>14. \A j \in net : Targets(j) \cap Targets(k) # {} => Cargo(j) # r
    BY <1>0, <1>1, <1>5 DEF CargoInv, Pending
  <1>15. ASSUME NEW i \in net', NEW j \in net', Targets(i) \cap Targets(j) # {}, Cargo(i) = Cargo(j)
         PROVE  i = j
    BY <1>0, <1>14, <1>15 DEF CargoInv
  <1>16. \A w \in written' : w.ip \in offered' \/ w.ip = Garbage \/ w.ip.by = w.at
    BY <1>0 DEF CargoInv
  <1> QED  BY <1>0, <1>8, <1>9, <1>13, <1>15, <1>16 DEF CargoInv

LEMMA OffersCargo ==
    ASSUME CargoInv, NEW n \in Nodes, NEW ip, NEW msgs, Offers(n, ip, msgs)
    PROVE  CargoInv'
  <1>0. /\ net' = net \cup msgs /\ reads' = reads + 1 /\ UNCHANGED <<cfg, written>>
        /\ ip.kind = "ip" /\ ip.id = reads + 1 /\ ip.type # "pong" /\ ip.src = n /\ ip.by = n /\ ip.dst # n
        /\ offered \subseteq offered' /\ offered' \subseteq offered \cup {ip} /\ reads \in Nat
    BY DEF Offers, NewIp, Sends, CargoInv
  <1>1. \A k \in msgs : MsgOK(k) /\ Cargo(k) = ip
    BY DEF Offers
  <1>2. Around' \subseteq Around \cup {ip} /\ \A a \in Around : a.id \in 1..reads
    BY <1>0, <1>1 DEF Around, CargoInv, IpOK
  <1>3. \A a \in Around : a # ip /\ a.id # ip.id
    BY <1>0, <1>2
  <1>4. \A a \in Around' : IpOK(a)'
    BY <1>0, <1>2 DEF CargoInv, IpOK
  <1>5. \A a, b \in Around' : SameId(a, b)
    BY <1>0, <1>2, <1>3 DEF CargoInv, SameId
  <1>6. ASSUME NEW k \in net, NEW x \in Targets(k) PROVE Pending(x, Cargo(k))'
    <2>1. Pending(x, Cargo(k))
      BY DEF CargoInv
    <2>2. ~Answered(x, Cargo(k))'
      BY <1>0, <2>1 DEF Answered, Pending
    <2> QED  BY <1>0, <2>1, <2>2, AimsKept DEF Pending
  <1>7. ASSUME NEW k \in msgs, NEW x \in Targets(k) PROVE Pending(x, ip)'
    <2>1. x = Server \/ (x \in Intended(ip) /\ offered' = offered \cup {ip})
      BY <1>7 DEF Offers
    <2>2. x # n /\ (x \in Nodes => x \in Intended(ip) /\ ip \in offered')
      BY <1>0, <2>1, RelayAssumption DEF Intended
    <2>3. ~Answered(x, ip)'
      BY <1>0, <1>3 DEF Answered, Around
    <2>4. \A w \in written : w.at # x \/ w.ip # ip
      BY <1>0, <1>3, <2>2 DEF CargoInv, Around, Garbage
    <2> QED  BY <1>0, <2>2, <2>3, <2>4, AimsKept DEF Pending
  <1>8. \A k \in net' : MsgOK(k)' /\ \A x \in Targets(k) : Pending(x, Cargo(k))'
    BY <1>0, <1>1, <1>6, <1>7, AimsKept DEF CargoInv
  <1>9. ASSUME NEW j \in net', NEW k \in net', Targets(j) \cap Targets(k) # {}, Cargo(j) = Cargo(k)
        PROVE  j = k
    <2>1. \A i \in net : Cargo(i) # ip
      BY <1>3 DEF Around
    <2>2. CASE j \in msgs /\ k \in msgs
      BY <1>9, <2>2 DEF Offers
    <2> QED  BY <1>0, <1>1, <1>9, <2>1, <2>2 DEF CargoInv
  <1>10. \A w \in written' : w.ip \in offered' \/ w.ip = Garbage \/ w.ip.by = w.at
    BY <1>0 DEF CargoInv
  <1> QED  BY <1>0, <1>4, <1>5, <1>8, <1>9, <1>10 DEF CargoInv

LEMMA EffectCargo == ASSUME CargoInv, Effect PROVE CargoInv'
  <1>1. CASE UNCHANGED <<cfg, net, reads, offered, written, lost>>
    <2>1. \A x, ip : Pending(x, ip)' <=> Pending(x, ip)
      BY <1>1, AimsKept DEF Pending, Answered
    <2>2. \A a : IpOK(a)' <=> IpOK(a)
      BY <1>1 DEF IpOK
    <2> QED  BY <1>1, <2>1, <2>2, AimsKept DEF CargoInv, Around
  <1> QED  BY <1>1, MovesCargo, GivesCargo, MisreadsCargo, RepliesCargo, MusesCargo, OffersCargo
           DEF Effect

-----------------------------------------------------------------------------
(* Every effect is one that Delivery allows.                               *)

LEMMA AddresseesAre ==
    ASSUME cfg \in Configs, NEW ip, IpOK(ip)
    PROVE  Addressees(ip) = {x \in Intended(ip) : AllowOut(x, ip)}
  <1>1. CASE ip.dst \in Nodes
    <2>1. Aim(ip) = ip.dst /\ ip.dst # Broadcast /\ ip.dst # Outside
      BY <1>1, RelayAssumption DEF Aim
    <2>2. Addressees(ip) = {ip.dst}
      BY <1>1, RelayAssumption DEF Addressees
    <2> QED  BY <1>1, <2>1, <2>2 DEF Intended, AllowOut, IpOK
  <1>2. CASE ip.dst \in {Broadcast, Multicast}
    <2>1. Aim(ip) = Broadcast /\ ip.dst # Outside
      BY <1>2 DEF Aim, Broadcast, Multicast, Outside
    <2>2. Addressees(ip) = Nodes \ {ip.src}
      BY <1>2, RelayAssumption DEF Addressees, Outside, Broadcast, Multicast
    <2> QED  BY <2>1, <2>2 DEF Intended, AllowOut
  <1>3. CASE ip.dst = Outside
    <2>1. ip.src \in Nodes /\ ip.dst \notin Nodes
      BY <1>3, RelayAssumption DEF IpOK
    <2>2. Aim(ip) = cfg.ipRoute[ip.src] /\ cfg.ipRoute[ip.src] \in Nodes \cup {None}
      BY <1>3, <2>1, RelayAssumption DEF Aim, Outside, Broadcast, Multicast
    <2>3. Addressees(ip) = {x \in {cfg.ipRoute[ip.src]} \ {None, ip.src} : cfg.exits[x]}
      BY <1>3, <2>1 DEF Addressees, Outside, Broadcast, Multicast
    <2>4. Intended(ip) = {cfg.ipRoute[ip.src]} \ {None, ip.src}
      BY <2>2, RelayAssumption DEF Intended
    <2> QED  BY <1>3, <2>3, <2>4 DEF AllowOut
  <1>4. CASE ip.dst \notin Nodes \cup {Broadcast, Multicast, Outside}
    <2>1. Aim(ip) = ip.dst
      BY <1>4 DEF Aim
    <2>2. Addressees(ip) = {}
      BY <1>4 DEF Addressees
    <2> QED  BY <1>4, <2>1, <2>2 DEF Intended
  <1> QED  BY <1>1, <1>2, <1>3, <1>4

LEMMA OwedIs ==
    ASSUME CargoInv, cfg \in Configs, NEW x \in Nodes, NEW ip \in offered
    PROVE  <<x, ip>> \in Owed <=> Pending(x, ip) /\ AllowOut(x, ip)
  <1>1. IpOK(ip)
    BY DEF CargoInv, Around
  <1>2. x \in Addressees(ip) <=> x \in Intended(ip) /\ AllowOut(x, ip)
    BY <1>1, AddresseesAre
  <1> QED  BY <1>2 DEF Owed, Pending

(* What was promised before is promised still.                             *)
LEMMA PromiseKept ==
    ASSUME UNCHANGED cfg
    PROVE  /\ \A ip : Addressees(ip)' = Addressees(ip)
           /\ \A w : FromOthers(w)' <=> FromOthers(w)
  BY DEF Addressees, FromOthers

Stutters == UNCHANGED <<offered, Owed, Received>>

LEMMA SameHistory == ASSUME UNCHANGED <<cfg, offered, written>> PROVE Stutters
  <1>1. Owed' = Owed
    BY PromiseKept DEF Owed, Answered
  <1>2. Received' = Received
    BY PromiseKept DEF Received
  <1> QED  BY <1>1, <1>2 DEF Stutters

(* Writing what does not count.                                            *)
LEMMA IdleWrite ==
    ASSUME UNCHANGED <<cfg, offered>>, NEW at, NEW ip, ip \notin offered, Writes(at, ip),
           \A w : w.at = at /\ w.ip = ip => ~FromOthers(w)
    PROVE  Stutters
  <1>1. PICK w : written' = written \cup {w} /\ w.at = at /\ w.ip = ip
    BY WrittenIs
  <1>2. Owed' = Owed
    <2>1. \A e \in Nodes \X offered :
             (\A v \in written' : v.at # e[1] \/ v.ip # e[2])
               <=> (\A v \in written : v.at # e[1] \/ v.ip # e[2])
      BY <1>1
    <2>2. \A x, q : Answered(x, q)' <=> Answered(x, q)
      BY DEF Answered
    <2> QED  BY <2>1, <2>2, PromiseKept DEF Owed
  <1>3. \A n : {v \in written' : v.at = n /\ FromOthers(v)} = {v \in written : v.at = n /\ FromOthers(v)}
    BY <1>1
  <1>4. Received' = Received
    BY <1>3, PromiseKept DEF Received
  <1> QED  BY <1>2, <1>4 DEF Stutters

LEMMA MisreadsStutters == ASSUME CargoInv, NEW m \in net, Misreads(m) PROVE Stutters
  <1>1. Garbage \notin offered
    BY DEF CargoInv, Around, IpOK, Garbage
  <1>2. \A w : w.at = m.to /\ w.ip = Garbage => ~FromOthers(w)
    BY DEF FromOthers, Misreads
  <1> QED  BY <1>1, <1>2, IdleWrite DEF Misreads

LEMMA MusesStutters == ASSUME CargoInv, NEW n, NEW ip, Muses(n, ip) PROVE Stutters
  <1> DEFINE r == EchoReply(ip, n)
  <1>1. r.by = n /\ r.id = reads + 1 /\ r.kind = "ip"
    BY EchoFields DEF Muses, NewIp
  <1> HIDE DEF r
  <1>2. r \notin offered
    BY <1>1 DEF CargoInv, Around, IpOK
  <1>3. \A w : w.at = n /\ w.ip = r => ~FromOthers(w)
    BY <1>1 DEF FromOthers, Garbage
  <1>4. CASE UNCHANGED written
    BY <1>4, SameHistory DEF Muses, NewIp
  <1>5. CASE Writes(n, r)
    BY <1>2, <1>3, <1>5, IdleWrite DEF Muses, NewIp
  <1> QED  BY <1>4, <1>5 DEF Muses, r

(* More is promised.                                                       *)
LEMMA MorePromised ==
    ASSUME UNCHANGED <<cfg, written>>, NEW ip, offered' = offered \cup {ip},
           \A x \in Nodes : ip.type = "pong" => ip.by # x
    PROVE  D!Offer
  <1>1. \A x \in Nodes : \A q : Answered(x, q)' <=> Answered(x, q)
    BY DEF Answered
  <1>2. Owed \subseteq Owed'
    BY <1>1, PromiseKept DEF Owed
  <1>3. \A e \in Owed' : e \in Owed \/ e[2] \in offered' \ offered
    BY <1>1, PromiseKept DEF Owed
  <1>4. Received' = Received
    BY PromiseKept DEF Received
  <1> QED  BY <1>2, <1>3, <1>4 DEF D!Offer, D!NewOnly

LEMMA OffersDelivery ==
    ASSUME NEW n, NEW ip, NEW msgs, Offers(n, ip, msgs)
    PROVE  D!Offer \/ Stutters
  <1>1. CASE offered' = offered
    BY <1>1, SameHistory DEF Offers, NewIp
  <1>2. CASE offered' = offered \cup {ip}
    BY <1>2, MorePromised DEF Offers, NewIp
  <1> QED  BY <1>1, <1>2 DEF Offers

LEMMA GivesDelivery ==
    ASSUME CargoInv, cfg \in Configs, NEW m \in net, Gives(m)
    PROVE  <<m.to, Cargo(m)>> \in Owed /\ D!Give(<<m.to, Cargo(m)>>)
  <1> DEFINE x == m.to
             ip == Cargo(m)
             e == <<x, ip>>
  <1>0. x \in Nodes /\ Pending(x, ip) /\ ip \in offered /\ x \in Intended(ip) /\ IpOK(ip)
    BY CargoIsIp DEF Gives, CargoInv, Pending
  <1>1. e \in Owed
    BY <1>0, OwedIs DEF Gives
  <1>2. PICK w : written' = written \cup {w} /\ w.at = x /\ w.ip = ip
    BY WrittenIs DEF Gives
  <1>3. w \notin written
    BY <1>0, <1>2 DEF Pending
  <1> HIDE DEF x, ip
  <1>4. Owed' = Owed \ {e}
    <2>1. \A y, q : Answered(y, q)' <=> Answered(y, q)
      BY DEF Answered, Gives
    <2>2. \A y, q : (\A v \in written' : v.at # y \/ v.ip # q)
                    <=> (\A v \in written : v.at # y \/ v.ip # q) /\ ~(y = x /\ q = ip)
      BY <1>2
    <2>3. \A y \in Nodes, q \in offered : <<y, q>> \in Owed' <=> <<y, q>> \in Owed /\ <<y, q>> # e
      BY <2>1, <2>2, PromiseKept DEF Owed, Gives
    <2>4. Owed \subseteq Nodes \X offered /\ Owed' \subseteq Nodes \X offered
      BY DEF Owed, Gives
    <2> QED  BY <2>3, <2>4
  <1>5. FromOthers(w)
    <2>1. ip.kind = "ip" /\ ip.by # x
      BY <1>0, RelayAssumption DEF IpOK, Intended, Aim
    <2> QED  BY <1>2, <2>1 DEF FromOthers, Garbage
  <1> DEFINE Got(n) == {v \in written : v.at = n /\ FromOthers(v)}
  <1>6. \A n \in Nodes : IsFiniteSet(Got(n))
    BY FS_Subset DEF CargoInv
  <1>7. \A n \in Nodes : {v \in written' : v.at = n /\ FromOthers(v)} = IF n = x THEN Got(n) \cup {w} ELSE Got(n)
    BY <1>2, <1>5
  <1>8. Cardinality(Got(x) \cup {w}) = Cardinality(Got(x)) + 1
    BY <1>0, <1>3, <1>6, FS_AddElement
  <1>9. Received = [n \in Nodes |-> Cardinality(Got(n))]
    BY DEF Received
  <1>10. Received' = [n \in Nodes |-> Cardinality({v \in written' : v.at = n /\ FromOthers(v)})]
    BY PromiseKept DEF Received, Gives
  <1> HIDE DEF Got
  <1>11. Received' = [Received EXCEPT ![x] = @ + 1]
    BY <1>0, <1>7, <1>8, <1>9, <1>10
  <1> QED  BY <1>1, <1>4, <1>11 DEF D!Give, Gives, x, ip

LEMMA RepliesDelivery ==
    ASSUME CargoInv, CargoInv', cfg \in Configs, NEW m \in net, NEW x, NEW k, Replies(m, x, k)
    PROVE  D!Next
  <1> DEFINE ip == Cargo(m)
             r == EchoReply(ip, x)
             e == <<x, ip>>
  <1>0. /\ Targets(m) = {x} /\ x \in Nodes \cup {Server} /\ ip.type = "ping" /\ (x \in Nodes => ip.dst # Outside)
        /\ offered' = offered \cup {r} /\ UNCHANGED <<cfg, reads, written>>
    BY DEF Replies
  <1>1. IpOK(ip) /\ ip \in Around /\ Pending(x, ip) /\ ip.src \in Nodes
    BY <1>0, CargoIsIp DEF IpOK, Around, CargoInv
  <1>2. r.kind = "ip" /\ r.id = ip.id /\ r.type = "pong" /\ r.src = ip.dst /\ r.dst = ip.src /\ r.by = x
    BY EchoFields
  <1> HIDE DEF ip, r
  <1>3. CASE x = Server
    BY <1>0, <1>2, <1>3, MorePromised, RelayAssumption DEF D!Next
  <1>4. CASE x \in Nodes
    <2>1. ip \in offered /\ x \in Intended(ip) /\ e \in Owed
      BY <1>0, <1>1, <1>4, OwedIs DEF Pending, AllowOut
    <2>2. x # ip.src
      BY <2>1 DEF Intended
    <2>3. \A y, q : Answered(y, q)' <=> Answered(y, q) \/ (y = x /\ q.id = ip.id)
      BY <1>0, <1>2 DEF Answered
    <2>4. ASSUME NEW d \in Owed, d # e PROVE d \in Owed'
      <3>1. PICK y \in Nodes, q \in offered : d = <<y, q>>
        BY DEF Owed
      <3>2. y \in Addressees(q) /\ ~Answered(y, q)
        BY <3>1, <2>4 DEF Owed
      <3>3. ~(y = x /\ q.id = ip.id)
        <4> SUFFICES ASSUME y = x, q.id = ip.id PROVE FALSE
          OBVIOUS
        <4>1. q # ip /\ SameId(ip, q) /\ IpOK(q)
          BY <1>1, <2>4, <3>1 DEF CargoInv, Around
        <4>2. q.dst = ip.src
          BY <1>0, <4>1 DEF SameId
        <4>3. Addressees(q) = {ip.src}
          BY <1>1, <4>2, RelayAssumption DEF Addressees
        <4> QED  BY <2>2, <3>2, <4>3
      <3> QED  BY <1>0, <2>3, <2>4, <3>1, <3>2, <3>3, PromiseKept DEF Owed
    <2>5. e \notin Owed'
      BY <1>0, <2>3 DEF Owed
    <2>6. \A d \in Owed' : d \in Owed \/ (d = <<ip.src, r>> /\ r \notin offered)
      <3> SUFFICES ASSUME NEW d \in Owed', d \notin Owed PROVE d = <<ip.src, r>> /\ r \notin offered
        OBVIOUS
      <3>1. PICK y \in Nodes, q \in offered' : d = <<y, q>>
        BY DEF Owed
      <3>2. y \in Addressees(q) /\ ~Answered(y, q) /\ \A w \in written : w.at # y \/ w.ip # q
        BY <1>0, <2>3, <3>1, PromiseKept DEF Owed
      <3>3. q \notin offered
        BY <3>1, <3>2 DEF Owed
      <3>4. q = r
        BY <1>0, <3>3
      <3>5. Addressees(r) = {ip.src}
        BY <1>1, <1>2, RelayAssumption DEF Addressees
      <3> QED  BY <3>1, <3>2, <3>3, <3>4, <3>5
    <2>7. \A d, f \in Owed' \ Owed : d = f
      BY <2>6
    <2>8. Received' = Received
      BY <1>0, PromiseKept DEF Received
    <2>9. D!NewOnly
      BY <1>0, <2>6 DEF D!NewOnly
    <2>10. D!Answer(e)
      <3>1. offered \subseteq offered' /\ Owed \ {e} \subseteq Owed'
        BY <1>0, <2>4
      <3> QED  BY <2>5, <2>7, <2>8, <2>9, <3>1 DEF D!Answer
    <2> QED  BY <2>1, <2>10 DEF D!Next
  <1> QED  BY <1>0, <1>3, <1>4

LEMMA EffectDelivery ==
    ASSUME CargoInv, CargoInv', cfg \in Configs, Effect
    PROVE  D!Next \/ Stutters
  <1>1. ASSUME NEW m \in net, NEW msgs, Moves(m, msgs) PROVE Stutters
    BY <1>1, SameHistory DEF Moves
  <1>2. CASE UNCHANGED <<cfg, net, reads, offered, written, lost>>
    BY <1>2, SameHistory
  <1>3. ASSUME NEW m \in net, Gives(m) PROVE D!Next
    BY <1>3, GivesDelivery DEF D!Next
  <1>4. ASSUME NEW n \in Nodes, NEW ip, NEW msgs, Offers(n, ip, msgs) PROVE D!Next \/ Stutters
    BY <1>4, OffersDelivery DEF D!Next
  <1> QED  BY <1>1, <1>2, <1>3, <1>4, MisreadsStutters, MusesStutters, RepliesDelivery DEF Effect

-----------------------------------------------------------------------------
(* Without a loss, what somebody is still to get is under way to him.      *)
Carried(e) == e[2].id \in lost \/ \E m \in net : e[1] \in Targets(m) /\ Cargo(m) = e[2]

ReachInv == Direct => (\A m \in net : Straight(m)) /\ (\A e \in Owed : Carried(e))

LEMMA EffectReach ==
    ASSUME CargoInv, CargoInv', cfg \in Configs, ReachInv, Effect
    PROVE  ReachInv'
  <1>0. UNCHANGED cfg
    BY ZenonT(60) DEF Effect, Moves, Gives, Misreads, Replies, Muses, Offers, NewIp
  <1> SUFFICES ASSUME Direct PROVE (\A m \in net' : Straight(m)) /\ (\A e \in Owed' : Carried(e)')
    BY <1>0 DEF ReachInv, Direct, OneCipher, Carried
  <1>1. (\A m \in net : Straight(m)) /\ (\A e \in Owed : Carried(e))
    BY DEF ReachInv
  <1>2. \A m \in net : m.about = Cargo(m).id
    BY DEF CargoInv, MsgOK
  <1>3. ASSUME NEW m \in net, NEW msgs, Moves(m, msgs)
        PROVE  (\A k \in net' : Straight(k)) /\ (\A e \in Owed' : Carried(e)')
    <2>1. net' = (net \ {m}) \cup msgs /\ lost \subseteq lost' /\ Owed' = Owed
      BY <1>3, SameHistory DEF Moves, Taken, Stutters
    <2>2. /\ \A k \in msgs : Straight(k) /\ Cargo(k) = Cargo(m)
          /\ m.about \in lost' \/ \A x \in Targets(m) : \E k \in msgs : x \in Targets(k)
      BY <1>3 DEF Moves
    <2>3. ASSUME NEW e \in Owed PROVE Carried(e)'
      BY <1>1, <1>2, <2>1, <2>2 DEF Carried
    <2> QED  BY <1>1, <2>1, <2>2, <2>3
  <1>4. ASSUME NEW m \in net, Gives(m)
        PROVE  (\A k \in net' : Straight(k)) /\ (\A e \in Owed' : Carried(e)')
    <2>1. net' = net \ {m} /\ lost' = lost /\ Owed' = Owed \ {<<m.to, Cargo(m)>>}
      BY <1>4, GivesDelivery DEF Gives, Taken, D!Give
    <2>2. ASSUME NEW e \in Owed' PROVE Carried(e)'
      <3>1. PICK y \in Nodes, q \in offered : e = <<y, q>>
        BY <2>1 DEF Owed
      <3> QED  BY <1>1, <1>4, <2>1, <3>1 DEF Carried, Gives
    <2> QED  BY <1>1, <2>1, <2>2
  <1>5. ASSUME NEW m \in net, Misreads(m) PROVE FALSE
    BY <1>5 DEF Misreads, Direct
  <1>6. ASSUME NEW m \in net, NEW x, NEW k, Replies(m, x, k)
        PROVE  (\A j \in net' : Straight(j)) /\ (\A e \in Owed' : Carried(e)')
    <2> DEFINE ip == Cargo(m)
               r == EchoReply(ip, x)
    <2>1. /\ net' = (net \ {m}) \cup {k} /\ lost' = lost /\ Straight(k) /\ Targets(m) = {x}
          /\ Cargo(k) = r /\ Targets(k) = {ip.src} /\ offered' = offered \cup {r} /\ UNCHANGED written
      BY <1>6 DEF Replies, Taken
    <2>2. r.type = "pong" /\ r.id = ip.id /\ r.by = x /\ r.dst = ip.src
      BY EchoFields
    <2>3. ip.src \in Nodes
      BY <1>6, CargoIsIp DEF IpOK, Replies
    <2> HIDE DEF ip, r
    <2>4. ASSUME NEW e \in Owed' PROVE Carried(e)'
      <3>1. PICK y \in Nodes, q \in offered' : e = <<y, q>>
        BY DEF Owed
      <3>2. y \in Addressees(q) /\ ~Answered(y, q)' /\ \A w \in written : w.at # y \/ w.ip # q
        BY <1>0, <2>1, <3>1, PromiseKept DEF Owed
      <3>3. CASE q \in offered
        <4>1. ~Answered(y, q) /\ ~(y = x /\ q = ip)
          BY <2>1, <2>2, <3>2 DEF Answered
        <4>2. e \in Owed
          BY <3>1, <3>2, <3>3, <4>1 DEF Owed
        <4> QED  BY <1>1, <2>1, <3>1, <4>1, <4>2 DEF Carried, ip
      <3>4. CASE q = r
        <4>1. Addressees(r) = {ip.src}
          BY <2>2, <2>3, RelayAssumption DEF Addressees
        <4> QED  BY <2>1, <3>1, <3>2, <3>4, <4>1 DEF Carried
      <3> QED  BY <2>1, <3>3, <3>4
    <2> QED  BY <1>1, <2>1, <2>4
  <1>7. ASSUME NEW n \in Nodes, NEW ip, NEW msgs, Offers(n, ip, msgs)
        PROVE  (\A k \in net' : Straight(k)) /\ (\A e \in Owed' : Carried(e)')
    <2>1. /\ net' = net \cup msgs /\ lost \subseteq lost' /\ \A k \in msgs : Straight(k) /\ Cargo(k) = ip
          /\ offered' \in {offered, offered \cup {ip}} /\ UNCHANGED written /\ ip.type # "pong"
          /\ \/ offered' = offered \/ ip.id \in lost'
             \/ \A x \in Addressees(ip) : \E k \in msgs : x \in Targets(k)
      BY <1>7 DEF Offers, NewIp, Sends
    <2>2. ASSUME NEW e \in Owed' PROVE Carried(e)'
      <3>1. PICK y \in Nodes, q \in offered' : e = <<y, q>>
        BY DEF Owed
      <3>2. y \in Addressees(q) /\ ~Answered(y, q) /\ \A w \in written : w.at # y \/ w.ip # q
        BY <1>0, <2>1, <3>1, PromiseKept DEF Owed, Answered
      <3>3. CASE q \in offered
        <4>1. e \in Owed
          BY <3>1, <3>2, <3>3 DEF Owed
        <4> QED  BY <1>1, <2>1, <4>1 DEF Carried
      <3>4. CASE q = ip /\ offered' # offered
        BY <2>1, <3>1, <3>2, <3>4 DEF Carried
      <3> QED  BY <2>1, <3>3, <3>4
    <2> QED  BY <1>1, <2>1, <2>2
  <1>8. ASSUME NEW n \in Nodes, NEW ip, Muses(n, ip)
        PROVE  (\A k \in net' : Straight(k)) /\ (\A e \in Owed' : Carried(e)')
    <2>1. Owed' = Owed /\ net' = net /\ lost' = lost
      BY <1>8, MusesStutters DEF Stutters, Muses
    <2> QED  BY <1>1, <2>1 DEF Carried
  <1>9. CASE UNCHANGED <<cfg, net, reads, offered, written, lost>>
    <2>1. Owed' = Owed
      BY <1>9, SameHistory DEF Stutters
    <2> QED  BY <1>1, <1>9, <2>1 DEF Carried
  <1> QED  BY <1>3, <1>4, <1>5, <1>6, <1>7, <1>8, <1>9 DEF Effect

-----------------------------------------------------------------------------
(* What the handlers do has one of these effects.                          *)

(* A packet between clients on its way, ...                                *)
LEMMA ClientMsg ==
    ASSUME NEW k, k.from \in Nodes \cup {Server}, k.to \in Nodes \cup {Server}, ~k.pkt.gateway,
           Aims(k.pkt), k.about = Content(k.pkt).id
    PROVE  /\ MsgOK(k) /\ Cargo(k) = Content(k.pkt)
           /\ k.pkt.dst = Broadcast /\ k.to \in Nodes => Targets(k) = {k.to}
           /\ k.pkt.dst # Broadcast \/ k.to = Server => Targets(k) = ForwardTo(k.pkt, {})
           /\ Fresh(k.pkt) /\ (k.to \in Nodes => Mine(k.to, k.pkt))
                 /\ (Content(k.pkt).type # "pong" => k.from \in {Server, k.pkt.src}) => Straight(k)
  <1>1. Cargo(k) = Content(k.pkt)
    BY DEF Cargo
  <1>2. MsgOK(k)
    BY <1>1 DEF MsgOK
  <1>3. /\ k.pkt.dst = Broadcast /\ k.to \in Nodes => Targets(k) = {k.to}
        /\ k.pkt.dst # Broadcast \/ k.to = Server => Targets(k) = ForwardTo(k.pkt, {})
    BY RelayAssumption DEF Targets
  <1>4. Fresh(k.pkt) /\ (k.to \in Nodes => Mine(k.to, k.pkt))
           /\ (Content(k.pkt).type # "pong" => k.from \in {Server, k.pkt.src}) => Straight(k)
    BY <1>1 DEF Straight
  <1> QED  BY <1>1, <1>2, <1>3, <1>4

LEMMA MsgFields ==
    ASSUME NEW f, NEW t, NEW p, NEW id
    PROVE  LET k == Msg(f, t, p, id) IN k.from = f /\ k.to = t /\ k.pkt = p /\ k.about = id
  BY DEF Msg

(* ... at its last hop, ...                                                *)
LEMMA LastHop ==
    ASSUME NEW p, NEW done, NEW x \in ForwardTo(p, done)
    PROVE  /\ x \in Nodes /\ Mine(x, p)
           /\ p.dst # Broadcast => ForwardTo(p, {}) = {x}
  BY DEF ForwardTo, Mine

(* ... and one for the server.                                             *)
LEMMA ServerMsg ==
    ASSUME ShapeInv, NEW n \in Nodes, NEW ip, NEW p, NEW tr \in {"Ipv4", "WGIpv4"},
           IsPacket(p), p.body = ip, p.src = ip.src, p.ttl = 6, p.sourceTtl = 6,
           tr = "Ipv4" => ip.type = "ping"
    PROVE  LET k == Msg(n, Server, ForServer(p, tr), ip.id)
           IN  /\ MsgOK(k) /\ Cargo(k) = ip /\ Straight(k)
               /\ Targets(k) = IF tr = "Ipv4" THEN {Server} ELSE {}
  <1> DEFINE q == [p EXCEPT !.gateway = TRUE, !.transport = tr]
             s == Seal(cfg.serverCipher, q)
             k == Msg(n, Server, s, ip.id)
  <1>1. /\ IsPacket(q) /\ q.gateway = TRUE /\ q.transport = tr /\ q.body = ip /\ q.src = ip.src
        /\ q.ttl = 6 /\ q.sourceTtl = 6
    BY DEF IsPacket
  <1>2. ForServer(p, tr) = s
    BY DEF ForServer
  <1> HIDE DEF q
  <1>3. SameHead(s, q) /\ s.body.of = ip
    BY <1>1, SealFields, ConfigFacts
  <1>4. s.gateway = TRUE /\ s.transport = tr /\ s.src = ip.src /\ Fresh(s)
    BY <1>1, <1>3 DEF SameHead, Fresh
  <1> HIDE DEF s
  <1>5. k.from = n /\ k.to = Server /\ k.pkt = s /\ k.about = ip.id
    BY DEF Msg
  <1> HIDE DEF k
  <1>6. Cargo(k) = ip /\ Targets(k) = (IF tr = "Ipv4" THEN {Server} ELSE {}) /\ Straight(k)
    BY <1>3, <1>4, <1>5 DEF Cargo, Targets, Straight
  <1>7. MsgOK(k)
    BY <1>3, <1>4, <1>5, <1>6 DEF MsgOK
  <1> QED  BY <1>2, <1>6, <1>7 DEF k

(* The server's copy of a broadcast is for those without a channel.        *)
LEMMA CopyMsg ==
    ASSUME ShapeInv, NEW n \in Nodes, NEW p, FromClient(p), Aims(p), Fresh(p), p.src = n,
           p.dst = Broadcast, NEW direct
    PROVE  LET k == Msg(n, Server, ServerCopy(n, p, direct), Content(p).id)
           IN  /\ MsgOK(k) /\ Cargo(k) = Content(p) /\ Straight(k)
               /\ Targets(k) = (Nodes \ {n}) \ direct
  <1>0. ~p.gateway /\ Server \notin Nodes
    BY RelayAssumption DEF FromClient, PacketOK
  <1>1. CASE direct = {}
    <2>1. ServerCopy(n, p, direct) = p
      BY <1>1 DEF ServerCopy
    <2>2. PICK k : k = Msg(n, Server, p, Content(p).id)
      OBVIOUS
    <2>3. k.from = n /\ k.to = Server /\ k.pkt = p /\ k.about = Content(p).id
      BY <2>2, MsgFields
    <2>4. MsgOK(k) /\ Cargo(k) = Content(p) /\ Straight(k) /\ Targets(k) = ForwardTo(p, {})
      BY <1>0, <2>3, ClientMsg
    <2> QED  BY <1>1, <2>1, <2>2, <2>4 DEF ForwardTo
  <1>2. CASE direct # {}
    <2> PICK l, f : /\ l = 1 + 4 * Cardinality(direct) + HeadLen + p.len
                     /\ f = [NoFlags EXCEPT !.gateway = TRUE]
      OBVIOUS
    <2> DEFINE b == [kind |-> "list", done |-> direct, of |-> p]
               q == NewPacket(f, "Ipv4Broadcast", MaxTtl, p.src, p.dst, b, l)
               s == Seal(cfg.serverCipher, q)
               k == Msg(n, Server, s, Content(p).id)
    <2>1. b.of = p /\ b.done = direct
      OBVIOUS
    <2>2. f.gateway = TRUE
      BY DEF NoFlags
    <2>3. ServerCopy(n, p, direct) = s
      BY <1>2 DEF ServerCopy
    <2> HIDE DEF b
    <2>4. IsPacket(q) /\ q.gateway = f.gateway /\ q.transport = "Ipv4Broadcast" /\ q.body = b
      BY DEF NewPacket, IsPacket
    <2> HIDE DEF q
    <2>5. SameHead(s, q) /\ s.body.of = b
      BY <2>4, SealFields, ConfigFacts
    <2>6. s.gateway = TRUE /\ s.transport = "Ipv4Broadcast"
      BY <2>2, <2>4, <2>5 DEF SameHead
    <2> HIDE DEF s
    <2>7. k.from = n /\ k.to = Server /\ k.pkt = s /\ k.about = Content(p).id
      BY DEF Msg
    <2> HIDE DEF k
    <2>8. Cargo(k) = Content(p) /\ Targets(k) = ForwardTo(p, direct) /\ Straight(k)
      BY <2>1, <2>5, <2>6, <2>7 DEF Cargo, Targets, Straight
    <2>9. MsgOK(k)
      BY <2>1, <2>5, <2>6, <2>7, <2>8 DEF MsgOK
    <2> QED  BY <2>3, <2>8, <2>9 DEF ForwardTo, k
  <1> QED  BY <1>1, <1>2

(* Clients that share a cipher take a packet for what it is.               *)
LEMMA NoNoise ==
    ASSUME ShapeInv, OneCipher, NEW n \in Nodes, NEW p, FromClient(p)
    PROVE  /\ \E x \in Open(cfg.cipher[n], p) : HandleExtensionTail(x) # {}
           /\ ~Noisy(cfg.cipher[n], p)
  <1> DEFINE c == cfg.cipher[n]
  <1>1. PICK k \in Nodes : PacketOK(cfg.cipher[k], p)
    BY DEF FromClient
  <1>2. Same(cfg.cipher[k], c) /\ cfg.cipher[k].model \in Models /\ c.model \in Models
    BY ConfigFacts DEF OneCipher
  <1>3. PICK x : /\ Open(c, p) = {x} /\ x.extension = p.extension
                 /\ BodyOK(x.extension, x.body, x.len) /\ x.extension \in BOOLEAN
    <2>1. CASE cfg.cipher[k].model = "none"
      <3>1. Open(c, p) = {p} /\ BodyOK(p.extension, p.body, p.len) /\ p.extension \in BOOLEAN
        BY <1>1, <1>2, <2>1 DEF PacketOK, Open, Same
      <3> QED  BY <3>1
    <2>2. CASE cfg.cipher[k].model # "none"
      <3>1. /\ SealedOK(cfg.cipher[k], p) /\ IsPacket(p) /\ p.extension \in BOOLEAN
            /\ BodyOK(p.extension, p.body.of, p.body.plainLen)
        BY <1>1, <2>2 DEF PacketOK
      <3>2. Open(c, p) = Opened(p)
        BY <1>2, <2>2, <3>1, SameOpens
      <3>3. PICK x : Opened(p) = {x}
        BY DEF Opened
      <3>4. SameHead(x, p) /\ x.len = p.body.plainLen /\ x.body = p.body.of
        BY <3>1, <3>3, OpenedFields
      <3> QED  BY <3>1, <3>2, <3>3, <3>4 DEF SameHead
    <2> QED  BY <2>1, <2>2
  <1>4. HandleExtensionTail(x) # {}
    BY <1>3 DEF HandleExtensionTail, BodyOK
  <1>5. x.body.kind = (IF x.extension THEN "zip" ELSE "ip") /\ Garbage.kind = "garbage"
    BY <1>3 DEF BodyOK, Garbage
  <1>6. ASSUME Noisy(c, p) PROVE FALSE
    <2>1. PICK y \in Open(c, p) : \E q \in HandleExtensionTail(y) : q.body = Garbage
      BY <1>6 DEF Noisy
    <2>2. x # Spoilt(p)
      <3>1. Spoilt(p).body = Garbage
        BY <1>1 DEF Spoilt, PacketOK, IsPacket
      <3> QED  BY <1>3, <1>5, <3>1
    <2>3. PICK q \in HandleExtensionTail(x) : q.body = Garbage
      BY <1>3, <2>1
    <2>4. IsPacket(x) /\ x.encrypt = FALSE /\ x.gateway = FALSE
      <3>1. x \in Open(c, p)
        BY <1>3
      <3>2. IsPacket(x) /\ SameHead(x, p) /\ x.encrypt = FALSE
        BY <1>1, <1>2, <2>2, <3>1, OpensTo
      <3> QED  BY <1>1, <3>2 DEF SameHead, PacketOK
    <2>5. q.body.kind = "ip"
      BY <1>3, <2>3, <2>4, TailOf
    <2> QED  BY <1>5, <2>3, <2>5
  <1> QED  BY <1>3, <1>4, <1>6

LEMMA Vanishes ==
    ASSUME NEW m \in net, Taken(m, {}), UNCHANGED <<cfg, reads, offered, written>>, lost \subseteq lost',
           Direct => m.about \in lost' \/ Targets(m) = {}
    PROVE  Effect
  <1>1. Moves(m, {})
    BY DEF Moves
  <1> QED  BY <1>1 DEF Effect

LEMMA LoseEffect == ASSUME NEW m \in net, Lose(m) PROVE Effect
  BY Vanishes DEF Lose, Taken

(* Who takes a packet is the only one it is for.                           *)
LEMMA OneTarget ==
    ASSUME CargoInv, NEW m \in net, m.to \in Nodes, Mine(m.to, m.pkt)
    PROVE  Targets(m) = {m.to}
  <1>1. MsgOK(m) /\ m.to # Server
    BY RelayAssumption DEF CargoInv
  <1>2. CASE m.pkt.gateway
    BY <1>1, <1>2 DEF MsgOK, Targets
  <1>3. CASE ~m.pkt.gateway
    BY <1>3 DEF Mine, Targets, ForwardTo
  <1> QED  BY <1>2, <1>3

LEMMA HandsEffect ==
    ASSUME CargoInv, NEW m \in net, m.to \in Nodes, Mine(m.to, m.pkt), HandsOver(m, Cargo(m)),
           UNCHANGED <<cfg, reads>>
    PROVE  Effect
  <1>1. CASE AllowOut(m.to, Cargo(m)) /\ Writes(m.to, Cargo(m)) /\ UNCHANGED lost
    <2>1. Gives(m)
      BY <1>1, OneTarget DEF Gives, HandsOver
    <2> QED  BY <2>1 DEF Effect
  <1>2. CASE lost' = lost \cup {m.about} /\ UNCHANGED written
    BY <1>2, Vanishes DEF HandsOver
  <1> QED  BY <1>1, <1>2 DEF HandsOver

LEMMA NoiseEffect ==
    ASSUME NEW m \in net, m.to \in Nodes, ~OneCipher, Credulous(cfg.cipher[m.to]), HandsOver(m, Garbage),
           UNCHANGED <<cfg, reads>>
    PROVE  Effect
  <1>1. Garbage.dst # Outside
    BY RelayAssumption DEF Garbage
  <1>2. Misreads(m)
    BY <1>1 DEF HandsOver, Misreads
  <1> QED  BY <1>2 DEF Effect

LEMMA AnswerEffect ==
    ASSUME ShapeInv, CargoInv, ReachInv, NEW m \in net, m.to \in Nodes, ~m.pkt.gateway, Mine(m.to, m.pkt),
           NEW q, AnswersWhole(m, q), UNCHANGED <<cfg, reads>>
    PROVE  Effect
  <1> DEFINE c == cfg.cipher[m.to]
             s == Seal(c, ReplyTo(q, m.to))
             ip == Cargo(m)
             r == EchoReply(ip, m.to)
  <1>1. PICK k : k = Msg(m.to, m.from, s, m.about)
    OBVIOUS
  <1>k. k.from = m.to /\ k.to = m.from /\ k.pkt = s /\ k.about = m.about
    BY <1>1, MsgFields
  <1>2. /\ IsLeft(c, m.pkt, q) /\ c.model \in Models /\ ip = Content(m.pkt) /\ q.body = ip /\ q.dst = m.pkt.dst
        /\ ip.type = "ping" /\ ip.dst = m.pkt.dst
    BY ConfigFacts DEF AnswersWhole, IsLeft, Cargo
  <1>3. /\ PacketOK(c, s) /\ Content(s) = EchoReply(q.body, m.to)
        /\ s.src = m.pkt.dst /\ s.dst = m.pkt.src /\ s.ttl = m.pkt.ttl /\ s.sourceTtl = m.pkt.sourceTtl
    BY <1>2, ReplyFields
  <1>4. ~s.gateway
    BY <1>3 DEF PacketOK
  <1>5. /\ MsgOK(m) /\ m.about = ip.id /\ m.from \in Nodes \cup {Server}
        /\ m.pkt.src = ip.src /\ m.pkt.dst # m.pkt.src
    BY <1>2 DEF CargoInv, MsgOK, Aims
  <1>6. IpOK(ip) /\ ip.src \in Nodes
    BY <1>2, CargoIsIp DEF IpOK
  <1>7. r.type = "pong" /\ r.id = ip.id /\ r.src = ip.dst /\ r.dst = ip.src
    BY EchoFields
  <1>8. offered' = offered \cup {r} /\ Taken(m, {k}) /\ UNCHANGED <<written, lost>>
    BY <1>1, <1>2 DEF AnswersWhole
  <1> HIDE DEF s, ip, r
  <1>9. Content(s) = r
    BY <1>2, <1>3 DEF r
  <1>10. Aims(s)
    BY <1>2, <1>3, <1>5, <1>6, <1>7, <1>9, RelayAssumption DEF Aims, Aim
  <1>11. MsgOK(k) /\ Cargo(k) = r /\ Targets(k) = {ip.src}
    <2>1. m.about = Content(s).id /\ m.to \in Nodes \cup {Server}
      BY <1>5, <1>7, <1>9
    <2>2. s.dst = ip.src /\ s.dst # Broadcast /\ ForwardTo(s, {}) = {ip.src}
      BY <1>3, <1>5, <1>6, RelayAssumption DEF ForwardTo
    <2> QED  BY <1>k, <1>4, <1>5, <1>9, <1>10, <2>1, <2>2, ClientMsg
  <1>12. Direct => Straight(k)
    <2> SUFFICES ASSUME Direct PROVE Straight(k)
      OBVIOUS
    <2>1. Fresh(m.pkt) /\ m.from \in {Server, m.pkt.src}
      BY <1>2 DEF ReachInv, Straight, ip
    <2>2. Fresh(s) /\ (m.from \in Nodes => Mine(m.from, s))
      BY <1>3, <2>1, RelayAssumption DEF Fresh, Mine
    <2> QED  BY <1>k, <1>4, <1>5, <1>7, <1>9, <1>10, <2>2, ClientMsg
  <1>13. m.to \in Nodes => ip.dst # Outside
    BY <1>2, RelayAssumption DEF Mine, Broadcast, Outside
  <1>14. Replies(m, m.to, k)
    BY <1>2, <1>8, <1>11, <1>12, <1>13, OneTarget DEF Replies, ip, r
  <1> QED  BY <1>14 DEF Effect

(* RecvDataHandler's three ways.                                           *)
LEMMA ClientEffect ==
    ASSUME ShapeInv, CargoInv, ReachInv, NEW m \in net, m.to \in Nodes, ClientHandle(m), UNCHANGED <<cfg, reads>>
    PROVE  Effect
  <1> DEFINE c == cfg.cipher[m.to]
  <1>1. ~m.pkt.gateway /\ Mine(m.to, m.pkt) /\ FromClient(m.pkt) /\ Cargo(m) = Content(m.pkt)
    BY NotForServer DEF ClientHandle, Cargo
  <1>2. OneCipher => (\E x \in Open(c, m.pkt) : HandleExtensionTail(x) # {}) /\ ~Noisy(c, m.pkt)
    BY <1>1, NoNoise
  <1>3. CASE (\A x \in Open(c, m.pkt) : HandleExtensionTail(x) = {}) /\ Drops(m)
    BY <1>2, <1>3, Vanishes DEF Direct, Drops, history
  <1>4. ASSUME NEW q, AnswersWhole(m, q) PROVE Effect
    BY <1>1, <1>4, AnswerEffect
  <1>5. CASE HandsOver(m, Content(m.pkt))
    BY <1>1, <1>5, HandsEffect
  <1>6. CASE HandsOver(m, Garbage) /\ Credulous(c) /\ Noisy(c, m.pkt)
    BY <1>2, <1>6, NoiseEffect
  <1> QED  BY <1>3, <1>4, <1>5, <1>6, ClientCases

LEMMA FromServerEffect ==
    ASSUME ShapeInv, CargoInv, NEW m \in net, m.to \in Nodes, ServerHandle(m), UNCHANGED <<cfg, reads>>
    PROVE  Effect
  <1>1. m.pkt.gateway /\ Mine(m.to, m.pkt) /\ ServerOK(m.pkt)
    BY NotForServer DEF ServerHandle
  <1>2. /\ m.pkt.transport = "Ipv4" /\ m.pkt.body.of.type = "pong" /\ m.pkt.body.of.dst = m.to
        /\ Cargo(m) = m.pkt.body.of
    BY <1>1, RelayAssumption DEF CargoInv, MsgOK, Cargo
  <1>3. PICK q : Opened(m.pkt) = {q}
    BY DEF Opened
  <1>4. Open(cfg.serverCipher, m.pkt) = {q} /\ q.transport = "Ipv4" /\ q.body = m.pkt.body.of
    BY <1>1, <1>2, <1>3, ServerOpens
  <1>5. (CHOOSE x \in {q} : TRUE) = q
    OBVIOUS
  <1>6. HandsOver(m, Cargo(m))
    BY <1>2, <1>4, <1>5 DEF ServerHandle
  <1> QED  BY <1>1, <1>6, HandsEffect

LEMMA TurnEffect ==
    ASSUME ShapeInv, CargoInv, ReachInv, NEW m \in net, m.to \in Nodes, Turn(m), UNCHANGED <<cfg, reads>>
    PROVE  Effect
  <1>1. ~Mine(m.to, m.pkt) /\ MsgOK(m) /\ m.to # Server
    BY RelayAssumption DEF CargoInv, Turn
  <1>2. ~m.pkt.gateway
    BY <1>1 DEF MsgOK, Mine
  <1>3. ~Direct
    BY <1>1, <1>2 DEF ReachInv, Straight
  <1>4. CASE Drops(m)
    BY <1>3, <1>4, Vanishes DEF Drops, history
  <1>5. ASSUME NEW r \in Routes(m.to, IncrTtl(m.pkt).dst), UNCHANGED history,
               Taken(m, {Msg(m.to, r.via, IncrTtl(m.pkt), m.about)})
        PROVE  Effect
    <2>1. PICK n \in Nodes : PacketOK(cfg.cipher[n], m.pkt)
      BY <1>2, NotForServer DEF FromClient
    <2>2. PICK p : p = IncrTtl(m.pkt)
      OBVIOUS
    <2>3. /\ PacketOK(cfg.cipher[n], p) /\ Content(p) = Content(m.pkt)
          /\ p.src = m.pkt.src /\ p.dst = m.pkt.dst
      BY <2>1, <2>2, RelayedOK
    <2>4. PICK k : k = Msg(m.to, r.via, p, m.about)
      OBVIOUS
    <2>5. ~p.gateway /\ Cargo(m) = Content(p)
      BY <1>2, <2>3 DEF PacketOK, Cargo
    <2>6. Aims(p) /\ m.about = Content(p).id
      BY <1>1, <1>2, <2>3, <2>5 DEF MsgOK, Aims
    <2>7. r.via \in Nodes \cup {Server}
      BY <1>5 DEF Routes
    <2>8. MsgOK(k) /\ Cargo(k) = Cargo(m) /\ Targets(k) = ForwardTo(p, {})
      <3>1. p.dst # Broadcast
        BY <1>1, <2>3 DEF Mine
      <3>2. k.from = m.to /\ k.to = r.via /\ k.pkt = p /\ k.about = m.about
        BY <2>4, MsgFields
      <3> QED  BY <2>5, <2>6, <2>7, <3>1, <3>2, ClientMsg
    <2>9. Targets(m) = Targets(k)
      BY <1>1, <1>2, <2>3, <2>8 DEF Targets, ForwardTo, Mine
    <2>10. Moves(m, {k})
      BY <1>3, <1>5, <2>2, <2>4, <2>8, <2>9 DEF Moves, history
    <2> QED  BY <2>10 DEF Effect
  <1> QED  BY <1>4, <1>5 DEF Turn

(* The server passes a packet on to those it has not reached.              *)
LEMMA PassedOn ==
    ASSUME ShapeInv, CargoInv, NEW m \in net, NEW p, NEW done, ~p.gateway, Aims(p), Content(p) = Cargo(m),
           Targets(m) = ForwardTo(p, done), Direct => Fresh(p),
           Taken(m, {Msg(Server, x, p, m.about) : x \in ForwardTo(p, done)}),
           UNCHANGED history, UNCHANGED <<cfg, reads>>
    PROVE  Effect
  <1> DEFINE msgs == {Msg(Server, x, p, m.about) : x \in ForwardTo(p, done)}
  <1>1. m.about = Content(p).id
    BY DEF CargoInv, MsgOK
  <1>2. ASSUME NEW x \in ForwardTo(p, done), NEW k, k = Msg(Server, x, p, m.about)
        PROVE  MsgOK(k) /\ Cargo(k) = Cargo(m) /\ Targets(k) = {x} /\ (Direct => Straight(k))
    <2>1. x \in Nodes /\ Mine(x, p) /\ (p.dst # Broadcast => ForwardTo(p, {}) = {x})
      BY LastHop
    <2>2. k.from = Server /\ k.to = x /\ k.pkt = p /\ k.about = m.about
      BY <1>2, MsgFields
    <2> QED  BY <1>1, <2>1, <2>2, ClientMsg
  <1>3. \A k \in msgs : \E x \in ForwardTo(p, done) : k = Msg(Server, x, p, m.about)
    OBVIOUS
  <1>4. \A x \in ForwardTo(p, done) : \E k \in msgs : k = Msg(Server, x, p, m.about)
    OBVIOUS
  <1>5. Taken(m, msgs) /\ UNCHANGED <<cfg, reads, offered, written, lost>>
    BY DEF history
  <1> HIDE DEF msgs
  <1>6. \A k \in msgs : MsgOK(k) /\ Cargo(k) = Cargo(m) /\ (Direct => Straight(k))
    BY <1>2, <1>3
  <1>7. \A k \in msgs : Targets(k) \subseteq Targets(m)
    BY <1>2, <1>3
  <1>8. \A j, k \in msgs : Targets(j) \cap Targets(k) # {} => j = k
    <2> SUFFICES ASSUME NEW j \in msgs, NEW k \in msgs, Targets(j) \cap Targets(k) # {} PROVE j = k
      OBVIOUS
    <2>1. PICK x \in ForwardTo(p, done) : j = Msg(Server, x, p, m.about)
      BY <1>3
    <2>2. PICK y \in ForwardTo(p, done) : k = Msg(Server, y, p, m.about)
      BY <1>3
    <2>3. Targets(j) = {x} /\ Targets(k) = {y}
      BY <1>2, <2>1, <2>2
    <2> QED  BY <2>1, <2>2, <2>3
  <1>9. \A x \in Targets(m) : \E k \in msgs : x \in Targets(k)
    BY <1>2, <1>4
  <1>10. Moves(m, msgs)
    BY <1>5, <1>6, <1>7, <1>8, <1>9 DEF Moves
  <1> QED  BY <1>10 DEF Effect

LEMMA ForwardEffect ==
    ASSUME ShapeInv, CargoInv, ReachInv, NEW m \in net, m.to = Server, ServerForwards(m), UNCHANGED <<cfg, reads>>
    PROVE  Effect
  <1>1. ~m.pkt.gateway /\ Server \notin Nodes /\ Cargo(m) = Content(m.pkt)
    BY RelayAssumption DEF ServerForwards, Cargo
  <1>2. Targets(m) = ForwardTo(m.pkt, {}) /\ Aims(m.pkt)
    BY <1>1 DEF Targets, CargoInv, MsgOK
  <1>3. Direct => Fresh(m.pkt)
    BY <1>1 DEF ReachInv, Straight
  <1> QED  BY <1>1, <1>2, <1>3, PassedOn DEF ServerForwards

LEMMA TakeEffect ==
    ASSUME ShapeInv, CargoInv, ReachInv, NEW m \in net, m.to = Server, ServerTakes(m), UNCHANGED <<cfg, reads>>
    PROVE  Effect
  <1>0. ServerOK(m.pkt) /\ m.pkt.gateway /\ MsgOK(m)
    BY ServerCases DEF CargoInv, ServerTakes
  <1>1. PICK q \in Opened(m.pkt) :
                 \/ /\ m.pkt.transport = "Ipv4Broadcast"
                    /\ Taken(m, {Msg(Server, x, q.body.of, m.about) :
                                    x \in ForwardTo(q.body.of, q.body.done)})
                    /\ UNCHANGED history
                 \/ /\ m.pkt.transport = "Ipv4"
                    /\ Taken(m, {Msg(Server, q.src, Seal(cfg.serverCipher, GatewayReply(q)), m.about)})
                    /\ offered' = offered \cup {EchoReply(q.body, Server)}
                    /\ UNCHANGED <<written, lost, noRoom>>
                 \/ m.pkt.transport \notin {"Ipv4Broadcast", "Ipv4"} /\ Drops(m)
    BY ServerCases
  <1>2. /\ IsPacket(q) /\ SameHead(q, m.pkt) /\ q.body = m.pkt.body.of /\ q.gateway = TRUE
        /\ q.transport = m.pkt.transport /\ q.src = m.pkt.src
    BY <1>0, ServerOpens
  <1>3. CASE m.pkt.transport = "Ipv4Broadcast"
    <2>1. PICK p, done : p = q.body.of /\ done = q.body.done
      OBVIOUS
    <2>2. Aims(p) /\ Content(p) = Cargo(m) /\ Targets(m) = ForwardTo(p, done)
      BY <1>0, <1>2, <1>3, <2>1 DEF MsgOK, Cargo, Targets
    <2>3. ~p.gateway
      BY <1>0, <1>2, <1>3, <2>1 DEF ServerOK, FromClient, PacketOK
    <2>4. Direct => Fresh(p)
      BY <1>0, <1>2, <1>3, <2>1 DEF ReachInv, Straight
    <2> QED  BY <1>1, <1>3, <2>1, <2>2, <2>3, <2>4, PassedOn
  <1>4. CASE m.pkt.transport = "Ipv4"
    <2> DEFINE ip == Cargo(m)
               r == EchoReply(ip, Server)
    <2>1. PICK s : s = Seal(cfg.serverCipher, GatewayReply(q))
      OBVIOUS
    <2>2. PICK k : k = Msg(Server, q.src, s, m.about)
      OBVIOUS
    <2>3. /\ ip = q.body /\ Targets(m) = {Server} /\ ip.type = "ping" /\ q.src = ip.src /\ m.about = ip.id
      BY <1>0, <1>2, <1>4 DEF MsgOK, Cargo, Targets
    <2>4. ip.src \in Nodes
      BY <2>3, CargoIsIp DEF IpOK
    <2>5. /\ ServerOK(s) /\ s.transport = "Ipv4" /\ s.dst = q.src /\ s.body.of = EchoReply(q.body, Server)
          /\ s.ttl = q.ttl /\ s.sourceTtl = q.sourceTtl
      BY <1>2, <1>4, <2>1, GatewayReplyOK
    <2>6. s.gateway
      BY <2>5 DEF ServerOK
    <2>7. r.type = "pong" /\ r.id = ip.id /\ r.dst = ip.src
      BY EchoFields
    <2>8. k.from = Server /\ k.to = q.src /\ k.pkt = s /\ k.about = m.about
      BY <2>2 DEF Msg
    <2>9. offered' = offered \cup {r} /\ Taken(m, {k}) /\ UNCHANGED <<written, lost>> /\ s.body.of = r
      BY <1>1, <1>4, <2>1, <2>2, <2>3, <2>5
    <2> HIDE DEF ip, r
    <2>10. Cargo(k) = r /\ Targets(k) = {ip.src}
      BY <2>3, <2>5, <2>6, <2>8, <2>9 DEF Cargo, Targets
    <2>11. MsgOK(k)
      BY <2>3, <2>4, <2>5, <2>6, <2>7, <2>8, <2>9, <2>10, RelayAssumption DEF MsgOK
    <2>12. Direct => Straight(k)
      BY <1>0, <1>2, <1>4, <2>5, <2>6, <2>8 DEF ReachInv, Straight, Fresh, SameHead
    <2>13. Replies(m, Server, k)
      BY <2>3, <2>9, <2>10, <2>11, <2>12, RelayAssumption DEF Replies, ip, r
    <2> QED  BY <2>13 DEF Effect
  <1>5. CASE m.pkt.transport \notin {"Ipv4Broadcast", "Ipv4"}
    <2>1. Targets(m) = {}
      BY <1>0, <1>5 DEF Targets
    <2> QED  BY <1>1, <1>5, <2>1, Vanishes DEF Drops, history
  <1> QED  BY <1>3, <1>4, <1>5, SMTT(40)

LEMMA ArriveEffect ==
    ASSUME ShapeInv, CargoInv, ReachInv, NEW m \in net, Receive(m) \/ ServerReceives(m)
    PROVE  Effect
  <1>1. UNCHANGED <<cfg, reads>>
    BY DEF Receive, ServerReceives
  <1>2. CASE m.to \in Nodes /\ ~Alive(m.pkt) /\ Drops(m)
    <2>1. MsgOK(m) /\ m.to # Server
      BY <1>2, RelayAssumption DEF CargoInv
    <2>2. Direct => Fresh(m.pkt)
      BY <2>1 DEF ReachInv, Straight, MsgOK
    <2>3. ~Direct
      BY <1>2, <2>2 DEF Fresh, Alive
    <2> QED  BY <1>1, <1>2, <2>3, Vanishes DEF Drops, history
  <1> QED  BY <1>1, <1>2, ClientEffect, FromServerEffect, TurnEffect, ForwardEffect, TakeEffect
           DEF Receive, ServerReceives

-----------------------------------------------------------------------------
(* The tun thread.                                                         *)

(* To a peer, one message or none.                                         *)
LEMMA PeerEffect ==
    ASSUME ShapeInv, NEW n \in Nodes, NEW ip, NEW len \in Lens, NewIp(n, ip), ToPeer(n, ip, len)
    PROVE  Effect
  <1> PICK via : via = IF ip.dst = Outside THEN cfg.ipRoute[n] ELSE ip.dst
    OBVIOUS
  <1> DEFINE p == [NewHead(n, ip, len) EXCEPT !.dst = via]
  <1>0. /\ ip.kind = "ip" /\ ip.src = n /\ ip.type # "pong" /\ UNCHANGED <<cfg, written>>
        /\ offered' = offered \cup {ip}
        /\ ip.dst \in (Nodes \ {n}) \cup {Outside} \/ ip.dst = WgPeer
    BY DEF NewIp, ToPeer
  <1>1. IsFresh(p, ip) /\ p.src = n /\ p.dst = via /\ p.ttl = 6 /\ p.sourceTtl = 6
    <2>1. IsHead(NewHead(n, ip, len), ip)
      BY <1>0, HeadFresh
    <2>2. PICK h : h = NewHead(n, ip, len)
      OBVIOUS
    <2>3. LET r == [h EXCEPT !.dst = via]
          IN  IsFresh(r, ip) /\ r.src = ip.src /\ r.dst = via /\ r.ttl = 6 /\ r.sourceTtl = 6
      BY <2>1, <2>2 DEF IsHead, IsFresh, IsPacket
    <2> QED  BY <1>0, <2>2, <2>3
  <1>2. ip.dst # n /\ ip.dst \notin {Broadcast, Multicast}
    BY <1>0, RelayAssumption DEF Outside, WgPeer, Broadcast, Multicast
  <1>3. Aim(ip) = via /\ via # Broadcast
    BY <1>0, <1>2, ConfigFacts, RelayAssumption DEF Aim
  <1>4. CASE lost' = lost \cup {ip.id} /\ UNCHANGED net
    <2>1. Offers(n, ip, {})
      BY <1>0, <1>2, <1>4 DEF Offers, Sends
    <2> QED  BY <2>1 DEF Effect
  <1>5. ASSUME via \notin {None, n}, NEW z \in Pack(n, p), PackAndSeal(n, p, z),
               NEW t \in Nodes \cup {Server}, Direct => t \in {via, Server},
               Sends({Msg(n, t, Seal(cfg.cipher[n], z.pkt), ip.id)}), UNCHANGED lost
        PROVE  Effect
    <2> HIDE DEF p
    <2>1. PICK q : q = Seal(cfg.cipher[n], z.pkt)
      OBVIOUS
    <2>2. /\ FromClient(q) /\ Content(q) = ip /\ q.src = n /\ q.dst = via /\ q.ttl = 6 /\ q.sourceTtl = 6
      BY <1>0, <1>1, <1>5, <2>1, SealPacked
    <2>3. ~q.gateway /\ Aims(q) /\ Fresh(q)
      BY <1>0, <1>3, <1>5, <2>2 DEF FromClient, PacketOK, Aims, Fresh
    <2>4. PICK k : k = Msg(n, t, q, ip.id)
      OBVIOUS
    <2>5. k.from = n /\ k.to = t /\ k.pkt = q /\ k.about = ip.id
      BY <2>4, MsgFields
    <2>6. MsgOK(k) /\ Cargo(k) = ip /\ Targets(k) = ForwardTo(q, {})
      BY <1>3, <2>2, <2>3, <2>5, ClientMsg
    <2>7. Direct => Straight(k)
      <3>1. Direct /\ t \in Nodes => Mine(t, q)
        BY <1>5, <2>2, RelayAssumption DEF Mine
      <3> QED  BY <2>2, <2>3, <2>5, <3>1, ClientMsg
    <2>8. Targets(k) = {via} \cap Nodes /\ Intended(ip) = {via} \cap Nodes
      BY <1>0, <1>3, <1>5, <2>2, <2>6 DEF ForwardTo, Intended
    <2>9. Addressees(ip) \subseteq {via} \cap Nodes
      BY <1>0, <1>2, <1>5, ConfigFacts, RelayAssumption DEF Addressees
    <2>10. Sends({k})
      BY <1>5, <2>1, <2>4
    <2>11. Offers(n, ip, {k})
      BY <1>0, <1>2, <1>5, <2>6, <2>7, <2>8, <2>9, <2>10 DEF Offers
    <2> QED  BY <2>11 DEF Effect
  <1>6. ASSUME via \notin {None, n}, NEW z \in Pack(n, p), PackAndSeal(n, p, z),
               SendIpv4ById(n, Seal(cfg.cipher[n], z.pkt), ip.id)
        PROVE  Effect
    <2> HIDE DEF p
    <2>1. PICK q : q = Seal(cfg.cipher[n], z.pkt)
      OBVIOUS
    <2>2. q.dst = via
      BY <1>0, <1>1, <1>6, <2>1, SealPacked
    <2>3. ASSUME NEW r \in Routes(n, q.dst), Sends({Msg(n, r.via, q, ip.id)}), UNCHANGED lost PROVE Effect
      <3>1. r.via \in Nodes \cup {Server} /\ (~cfg.wander => r.via = via)
        BY <2>2, <2>3 DEF Routes
      <3> QED  BY <1>5, <1>6, <2>1, <2>3, <3>1 DEF Direct
    <2>4. CASE Sends({Msg(n, Server, q, ip.id)}) /\ UNCHANGED lost
      BY <1>5, <1>6, <2>1, <2>4
    <2> QED  BY <1>4, <1>6, <2>1, <2>3, <2>4 DEF SendIpv4ById
  <1> QED  BY <1>4, <1>6 DEF ToPeer

(* To all: those who are sent the packet themselves, and the server for    *)
(* the rest.                                                               *)
LEMMA AllEffect ==
    ASSUME ShapeInv, NEW n \in Nodes, NEW ip, NEW len \in Lens, NewIp(n, ip), ToAll(n, ip, len)
    PROVE  Effect
  <1> DEFINE p == NewHead(n, ip, len)
             copy == NewPacket(NoFlags, "WGIpv4", 6, n, Broadcast, ip, len)
             wg == {Msg(n, Server, ForServer(copy, "WGIpv4"), ip.id) : x \in {y \in {n} : cfg.wireGuard}}
  <1>0. /\ ip.kind = "ip" /\ ip.src = n /\ ip.type # "pong" /\ UNCHANGED <<cfg, written>>
        /\ offered' = offered \cup {ip} /\ ip.dst \in {Broadcast, Multicast}
    BY DEF NewIp, ToAll
  <1>1. IsFresh(p, ip) /\ p.src = n /\ p.dst = Broadcast /\ p.ttl = 6 /\ p.sourceTtl = 6
    <2>1. IsHead(p, ip)
      BY <1>0, HeadFresh
    <2> HIDE DEF p
    <2> QED  BY <1>0, <2>1 DEF IsHead
  <1>2. ip.dst # n /\ Aim(ip) = Broadcast /\ Intended(ip) = Nodes \ {n} /\ Addressees(ip) = Nodes \ {n}
    <2>1. ip.dst \notin Nodes
      BY <1>0, RelayAssumption
    <2>2. Aim(ip) = Broadcast
      BY <1>0 DEF Aim, Broadcast, Multicast, Outside
    <2>3. Addressees(ip) = Nodes \ {n}
      BY <1>0, <2>1 DEF Addressees, Broadcast, Multicast, Outside
    <2> QED  BY <1>0, <2>1, <2>2, <2>3 DEF Intended
  <1>3. CASE lost' = lost \cup {ip.id} /\ UNCHANGED net
    <2>1. Offers(n, ip, {})
      BY <1>0, <1>2, <1>3 DEF Offers, Sends
    <2> QED  BY <2>1 DEF Effect
  <1>4. \A k \in wg : MsgOK(k) /\ Cargo(k) = ip /\ Straight(k) /\ Targets(k) = {}
    <2>1. IsPacket(copy) /\ copy.body = ip /\ copy.src = ip.src /\ copy.ttl = 6 /\ copy.sourceTtl = 6
      BY <1>0 DEF NewPacket, IsPacket
    <2> HIDE DEF copy
    <2>2. LET k == Msg(n, Server, ForServer(copy, "WGIpv4"), ip.id)
          IN  MsgOK(k) /\ Cargo(k) = ip /\ Straight(k) /\ Targets(k) = {}
      BY <2>1, ServerMsg
    <2> QED  BY <2>2
  <1>5. ASSUME NEW z \in Pack(n, p), PackAndSeal(n, p, z),
               SendBroadcast(n, Seal(cfg.cipher[n], z.pkt), ip.id, wg)
        PROVE  Effect
    <2> HIDE DEF p, wg
    <2>1. PICK q : q = Seal(cfg.cipher[n], z.pkt)
      OBVIOUS
    <2>2. /\ FromClient(q) /\ Content(q) = ip /\ q.src = n /\ q.dst = Broadcast /\ q.ttl = 6 /\ q.sourceTtl = 6
      BY <1>0, <1>1, <1>5, <2>1, SealPacked
    <2>3. ~q.gateway /\ Aims(q) /\ Fresh(q)
      BY <1>0, <1>2, <2>2, RelayAssumption DEF FromClient, PacketOK, Aims, Fresh
    <2>4. PICK tried \in SUBSET (Nodes \ {n}) : \E direct \in SUBSET tried, online \in BOOLEAN :
             LET server == NeedsServer(Nodes \ {n}, tried, direct)
             IN  /\ Sends(wg \cup {Msg(n, x, q, ip.id) : x \in direct} \cup
                          IF server /\ online /\ CopyFits(q, direct)
                          THEN {Msg(n, Server, ServerCopy(n, q, direct), ip.id)} ELSE {})
                 /\ lost' = IF server /\ ~online THEN lost \cup {ip.id} ELSE lost
      BY <1>5, <2>1, ZenonT(60) DEF SendBroadcast, kSubset
    <2>5. PICK direct \in SUBSET tried, online \in BOOLEAN :
             LET server == NeedsServer(Nodes \ {n}, tried, direct)
             IN  /\ Sends(wg \cup {Msg(n, x, q, ip.id) : x \in direct} \cup
                          IF server /\ online /\ CopyFits(q, direct)
                          THEN {Msg(n, Server, ServerCopy(n, q, direct), ip.id)} ELSE {})
                 /\ lost' = IF server /\ ~online THEN lost \cup {ip.id} ELSE lost
      BY <2>4
    <2> DEFINE server == NeedsServer(Nodes \ {n}, tried, direct)
               to == {Msg(n, x, q, ip.id) : x \in direct}
               rest == IF server /\ online THEN {Msg(n, Server, ServerCopy(n, q, direct), ip.id)} ELSE {}
               msgs == wg \cup to \cup rest
    <2>6. CopyFits(q, direct)
      BY <2>2, CopyHasRoom
    <2>7. Sends(msgs) /\ lost' = IF server /\ ~online THEN lost \cup {ip.id} ELSE lost
      BY <2>5, <2>6
    <2>8. ASSUME NEW x \in direct, NEW k, k = Msg(n, x, q, ip.id)
          PROVE  MsgOK(k) /\ Cargo(k) = ip /\ Straight(k) /\ Targets(k) = {x}
      <3>1. k.from = n /\ k.to = x /\ k.pkt = q /\ k.about = ip.id /\ x \in Nodes
        BY <2>8, MsgFields
      <3> QED  BY <2>2, <2>3, <3>1, ClientMsg DEF Mine
    <2>9. \A k \in rest : MsgOK(k) /\ Cargo(k) = ip /\ Straight(k) /\ Targets(k) = (Nodes \ {n}) \ direct
      <3>1. PICK k : k = Msg(n, Server, ServerCopy(n, q, direct), ip.id)
        OBVIOUS
      <3>2. MsgOK(k) /\ Cargo(k) = ip /\ Straight(k) /\ Targets(k) = (Nodes \ {n}) \ direct
        BY <2>2, <2>3, <3>1, CopyMsg
      <3> QED  BY <3>1, <3>2
    <2>10. \A k \in to : \E x \in direct : k = Msg(n, x, q, ip.id)
      OBVIOUS
    <2>11. \A x \in direct : \E k \in to : k = Msg(n, x, q, ip.id)
      OBVIOUS
    <2>12. \A j, k \in rest : j = k
      OBVIOUS
    <2>13. (server /\ online => \E k : k \in rest) /\ (~server => direct = Nodes \ {n})
      BY DEF NeedsServer
    <2> HIDE DEF server, to, rest
    <2>14. \A k \in msgs : MsgOK(k) /\ Cargo(k) = ip /\ Straight(k)
      BY <1>4, <2>8, <2>9, <2>10
    <2>15. \A k \in msgs : \A x \in Targets(k) : x \in Intended(ip)
      BY <1>2, <1>4, <2>8, <2>9, <2>10
    <2>16. ASSUME NEW j \in msgs, NEW k \in msgs, NEW x \in Targets(j) \cap Targets(k) PROVE j = k
      <3>1. CASE j \in to /\ k \in to
        BY <2>8, <2>10, <2>16, <3>1
      <3>2. CASE j \in to /\ k \in rest
        BY <2>8, <2>9, <2>10, <2>16, <3>2
      <3>3. CASE j \in rest /\ k \in to
        BY <2>8, <2>9, <2>10, <2>16, <3>3
      <3>4. CASE j \in rest /\ k \in rest
        BY <2>12, <3>4
      <3> QED  BY <1>4, <2>16, <3>1, <3>2, <3>3, <3>4
    <2>17. ip.id \in lost' \/ \A x \in Addressees(ip) : \E k \in msgs : x \in Targets(k)
      <3> SUFFICES ASSUME ip.id \notin lost', NEW x \in Nodes \ {n} PROVE \E k \in msgs : x \in Targets(k)
        BY <1>2
      <3>1. CASE x \in direct
        BY <2>8, <2>11, <3>1
      <3>2. CASE x \notin direct
        <4>1. server /\ online
          BY <2>7, <2>13, <3>2
        <4>2. PICK k : k \in rest
          BY <2>13, <4>1
        <4> QED  BY <2>9, <3>2, <4>2
      <3> QED  BY <3>1, <3>2
    <2>18. lost \subseteq lost'
      BY <2>7
    <2> HIDE DEF msgs
    <2>19. Offers(n, ip, msgs)
      BY <1>0, <1>2, <2>7, <2>14, <2>15, <2>16, <2>17, <2>18 DEF Offers
    <2> QED  BY <2>19 DEF Effect
  <1> QED  BY <1>3, <1>5 DEF ToAll

LEMMA TunEffect == ASSUME ShapeInv, NEW n \in Nodes, TunRead(n) PROVE Effect
  <1>0. PICK dst \in cfg.dsts, type \in {"data", "ping"}, len \in Lens :
           LET ip == IpPacket(reads + 1, type, n, dst, n)
           IN  \/ SelfPing(n, ip, len) \/ ToGateway(n, ip, len) \/ ToWgPeer(n, ip, len)
               \/ ToPeer(n, ip, len) \/ ToAll(n, ip, len)
    BY DEF TunRead
  <1>1. PICK ip : /\ ip = IpPacket(reads + 1, type, n, dst, n)
                  /\ \/ SelfPing(n, ip, len) \/ ToGateway(n, ip, len) \/ ToWgPeer(n, ip, len)
                     \/ ToPeer(n, ip, len) \/ ToAll(n, ip, len)
    BY <1>0
  <1>2. NewIp(n, ip)
    <2>1. ip.kind = "ip" /\ ip.id = reads + 1 /\ ip.type = type /\ ip.src = n /\ ip.by = n
      BY <1>1 DEF IpPacket
    <2> QED  BY <2>1 DEF NewIp, TunRead
  <1>3. CASE SelfPing(n, ip, len)
    <2>1. Muses(n, ip)
      BY <1>2, <1>3 DEF SelfPing, Muses
    <2> QED  BY <2>1 DEF Effect
  <1>4. ip.kind = "ip" /\ ip.src = n
    BY <1>2 DEF NewIp
  <1>5. \A tr \in {"Ipv4", "WGIpv4"} : (tr = "Ipv4" => ip.type = "ping") =>
           LET k == Msg(n, Server, ForServer(NewHead(n, ip, len), tr), ip.id)
           IN  MsgOK(k) /\ Cargo(k) = ip /\ Straight(k) /\ Targets(k) \subseteq {Server}
    <2>1. IsHead(NewHead(n, ip, len), ip)
      BY <1>4, HeadFresh
    <2>2. PICK h : h = NewHead(n, ip, len)
      OBVIOUS
    <2>3. IsPacket(h) /\ h.body = ip /\ h.src = ip.src /\ h.ttl = 6 /\ h.sourceTtl = 6
      BY <2>1, <2>2 DEF IsHead, IsFresh
    <2>4. ASSUME NEW tr \in {"Ipv4", "WGIpv4"}, tr = "Ipv4" => ip.type = "ping"
          PROVE  LET k == Msg(n, Server, ForServer(h, tr), ip.id)
                 IN  MsgOK(k) /\ Cargo(k) = ip /\ Straight(k) /\ Targets(k) \subseteq {Server}
      <3>1. CASE tr = "Ipv4"
        BY <2>3, <2>4, <3>1, ServerMsg
      <3>2. CASE tr = "WGIpv4"
        BY <2>3, <3>2, ServerMsg
      <3> QED  BY <2>4, <3>1, <3>2
    <2> QED  BY <2>2, <2>4
  <1>6. ASSUME NEW k, MsgOK(k), Cargo(k) = ip, Straight(k), Targets(k) \subseteq {Server}, Sends({k}),
               ip.dst # n, UNCHANGED <<offered, written, lost>>
        PROVE  Effect
    <2>1. Offers(n, ip, {k})
      BY <1>2, <1>6 DEF Offers
    <2> QED  BY <2>1 DEF Effect
  <1>7. CASE ToGateway(n, ip, len)
    <2>1. ip.dst # n /\ UNCHANGED <<offered, written, lost>>
      BY <1>7, RelayAssumption DEF ToGateway
    <2>2. CASE ip.type = "ping"
      <3>1. PICK k : k = Msg(n, Server, ForServer(NewHead(n, ip, len), "Ipv4"), ip.id)
        OBVIOUS
      <3>2. Sends({k}) /\ MsgOK(k) /\ Cargo(k) = ip /\ Straight(k) /\ Targets(k) \subseteq {Server}
        BY <1>5, <1>7, <2>2, <3>1 DEF ToGateway
      <3> QED  BY <1>6, <2>1, <3>2
    <2>3. CASE ip.type # "ping"
      <3>1. Offers(n, ip, {})
        BY <1>2, <1>7, <2>1, <2>3 DEF ToGateway, Offers, Sends
      <3> QED  BY <3>1 DEF Effect
    <2> QED  BY <2>2, <2>3
  <1>8. CASE ToWgPeer(n, ip, len)
    <2>1. ip.dst # n /\ UNCHANGED <<offered, written, lost>>
      BY <1>8, RelayAssumption DEF ToWgPeer
    <2>2. PICK k : k = Msg(n, Server, ForServer(NewHead(n, ip, len), "WGIpv4"), ip.id)
      OBVIOUS
    <2>3. Sends({k}) /\ MsgOK(k) /\ Cargo(k) = ip /\ Straight(k) /\ Targets(k) \subseteq {Server}
      BY <1>5, <1>8, <2>2 DEF ToWgPeer
    <2> QED  BY <1>6, <2>1, <2>3
  <1> QED  BY <1>1, <1>2, <1>3, <1>7, <1>8, PeerEffect, AllEffect

LEMMA StepEffect == ASSUME ShapeInv, CargoInv, ReachInv, [Next]_vars PROVE Effect
  <1>1. CASE UNCHANGED vars
    BY <1>1 DEF vars, Effect
  <1> QED  BY <1>1, TunEffect, ArriveEffect, LoseEffect DEF Next, Arrives

-----------------------------------------------------------------------------
(* The inductive invariant.                                                *)
FlowInv == ShapeInv /\ CargoInv /\ ReachInv

LEMMA InitFlow == Init => FlowInv
  <1>1. Init => ReachInv
    BY DEF Init, ReachInv, Owed
  <1> QED  BY <1>1, InitShape, InitCargo DEF FlowInv

LEMMA StepFlow == ASSUME FlowInv, [Next]_vars PROVE FlowInv' /\ (D!Next \/ Stutters)
  <1>1. ShapeInv /\ CargoInv /\ ReachInv /\ cfg \in Configs
    BY DEF FlowInv, ShapeInv
  <1>2. ShapeInv' /\ Effect
    BY <1>1, StepShape, StepEffect
  <1>3. CargoInv'
    BY <1>1, <1>2, EffectCargo
  <1>4. ReachInv' /\ (D!Next \/ Stutters)
    BY <1>1, <1>2, <1>3, EffectReach, EffectDelivery
  <1> QED  BY <1>2, <1>3, <1>4 DEF FlowInv

LEMMA FlowInductive == Spec => []FlowInv
  <1>1. FlowInv /\ [Next]_vars => FlowInv'
    BY StepFlow
  <1> QED  BY <1>1, InitFlow, PTL DEF Spec

(* Where clients share a cipher and no route leads through others, all     *)
(* that are still owed a packet when nothing is in flight are owed one of  *)
(* which a copy was lost: no peer falls between those a broadcast is sent  *)
(* to directly and those the server is left with, for any number of peers  *)
(* and any limit on the direct ones.                                       *)
THEOREM EverybodyReached == Spec => []Reaches
  <1>1. FlowInv => Reaches
    BY DEF FlowInv, ReachInv, Reaches, Direct, Carried
  <1> QED  BY <1>1, FlowInductive, PTL

(* The data path implements Delivery: whatever the routes, the relays, the *)
(* losses and the ciphers, a device gets a packet at most once, unchanged, *)
(* and only if it is meant for it.                                         *)
THEOREM KeepsThePromise == Spec => Implements
  <1>1. Init => D!Init
    <2> SUFFICES ASSUME Init PROVE D!Init
      OBVIOUS
    <2>1. \A n \in Nodes : {w \in written : w.at = n /\ FromOthers(w)} = {}
      BY DEF Init
    <2>2. Received = [n \in Nodes |-> 0]
      BY <2>1, FS_EmptySet DEF Received
    <2> QED  BY <2>2 DEF D!Init, Init, Owed
  <1>2. FlowInv /\ [Next]_vars => [D!Next]_(D!vars)
    BY StepFlow DEF D!vars, Stutters
  <1> QED  BY <1>1, <1>2, FlowInductive, PTL DEF Spec, Implements, D!Spec

-----------------------------------------------------------------------------
(* Formats: a field that is written reads back and its neighbours stay.    *)
HasBits(f, shift, width) == f.shift = shift /\ f.width = width

(* A field within a buffer of so many bytes: whole bytes, some bits of     *)
(* one, or the offset of an IPv4 packet; the tables of an enumeration      *)
(* agree with each other.                                                  *)
FieldOK(f, len) ==
    /\ f.at \in Nat /\ f.n \in Nat /\ f.at + f.n <= len
    /\ f.n = 2 => HasBits(f, 0, 16) \/ HasBits(f, 0, 13)
    /\ f.n = 1 => \/ HasBits(f, 0, 8) \/ HasBits(f, 4, 4) \/ HasBits(f, 0, 4)
                  \/ HasBits(f, 2, 6) \/ HasBits(f, 0, 2) \/ HasBits(f, 5, 3)
                  \/ HasBits(f, 7, 1) \/ HasBits(f, 6, 1) \/ HasBits(f, 5, 1)
                  \/ HasBits(f, 3, 1) \/ HasBits(f, 0, 3)
    /\ f.enum.from = f.enum.into

(* Fields that some setter writes.                                         *)
Settable(f) ==
    /\ f.n = 2 => HasBits(f, 0, 16)
    /\ f.n = 1 => \/ HasBits(f, 0, 8) \/ HasBits(f, 4, 4) \/ HasBits(f, 0, 4) \/ HasBits(f, 0, 3)
                  \/ HasBits(f, 7, 1) \/ HasBits(f, 6, 1) \/ HasBits(f, 5, 1)

(* Two fields have no bit in common.                                       *)
BitsApart(f, g) == f.shift + f.width <= g.shift \/ g.shift + g.width <= f.shift
Apart(f, g) ==
    \/ f.at + f.n <= g.at
    \/ g.at + g.n <= f.at
    \/ f.n = 1 /\ g.n = 1 /\ f.at = g.at /\ BitsApart(f, g)

(* A value the field can hold.                                             *)
Held(f, v) ==
    IF ~Formats!IsNumber(f) THEN v \in Seq(Formats!Byte) /\ Len(v) = f.n
    ELSE IF f.enum = Formats!Plain THEN v \in 0 .. (2^f.width) - 1
    ELSE \E k \in 0 .. (2^f.width) - 1 : v = Formats!From(f.enum, k)

(* Bits of a number x, from the one that weighs p on, q = 2^width; and x   *)
(* with v there.                                                           *)
Cut(x, p, q) == (x \div p) % q
Replaced(x, p, q, v) == x + (p * (v - Cut(x, p, q)))

(* Bits of a byte can be replaced, and those of another cut stay.          *)
Replaces(p, q) ==
    \A x \in Formats!Byte, v \in 0 .. q - 1 :
        Replaced(x, p, q, v) \in Formats!Byte /\ Cut(Replaced(x, p, q, v), p, q) = v
Spares(p, q, c, d) ==
    \A x \in Formats!Byte, v \in 0 .. q - 1 : Cut(Replaced(x, p, q, v), c, d) = Cut(x, c, d)

LEMMA BitsReplaced ==
    /\ Replaces(1, 256) /\ Replaces(16, 16) /\ Replaces(1, 16) /\ Replaces(1, 8)
    /\ Replaces(128, 2) /\ Replaces(64, 2) /\ Replaces(32, 2)
  <1>1. Replaces(1, 256)
    BY DEF Replaces, Replaced, Cut, Formats!Byte
  <1>2. Replaces(16, 16)
    BY DEF Replaces, Replaced, Cut, Formats!Byte
  <1>3. Replaces(1, 16)
    BY DEF Replaces, Replaced, Cut, Formats!Byte
  <1>4. Replaces(1, 8)
    BY DEF Replaces, Replaced, Cut, Formats!Byte
  <1>5. Replaces(128, 2)
    BY DEF Replaces, Replaced, Cut, Formats!Byte
  <1>6. Replaces(64, 2)
    BY DEF Replaces, Replaced, Cut, Formats!Byte
  <1>7. Replaces(32, 2)
    BY DEF Replaces, Replaced, Cut, Formats!Byte
  <1> QED  BY <1>1, <1>2, <1>3, <1>4, <1>5, <1>6, <1>7

LEMMA BitsSpared ==
    /\ Spares(16, 16, 1, 16) /\ Spares(16, 16, 1, 8) /\ Spares(16, 16, 8, 2)
    /\ Spares(16, 16, 1, 4)
    /\ Spares(1, 16, 16, 16) /\ Spares(1, 16, 128, 2) /\ Spares(1, 16, 64, 2)
    /\ Spares(1, 16, 32, 2) /\ Spares(1, 16, 32, 8)
    /\ Spares(1, 8, 16, 16) /\ Spares(1, 8, 128, 2) /\ Spares(1, 8, 64, 2)
    /\ Spares(1, 8, 32, 2) /\ Spares(1, 8, 8, 2) /\ Spares(1, 8, 32, 8)
    /\ Spares(128, 2, 1, 16) /\ Spares(128, 2, 1, 8) /\ Spares(128, 2, 64, 2)
    /\ Spares(128, 2, 32, 2) /\ Spares(128, 2, 8, 2) /\ Spares(128, 2, 1, 4)
    /\ Spares(64, 2, 1, 16) /\ Spares(64, 2, 1, 8) /\ Spares(64, 2, 128, 2)
    /\ Spares(64, 2, 32, 2) /\ Spares(64, 2, 8, 2) /\ Spares(64, 2, 1, 4)
    /\ Spares(32, 2, 1, 16) /\ Spares(32, 2, 1, 8) /\ Spares(32, 2, 128, 2)
    /\ Spares(32, 2, 64, 2) /\ Spares(32, 2, 8, 2) /\ Spares(32, 2, 1, 4)
  <1>1. /\ Spares(16, 16, 1, 16) /\ Spares(16, 16, 1, 8) /\ Spares(16, 16, 8, 2)
        /\ Spares(16, 16, 1, 4)
    BY DEF Spares, Replaced, Cut, Formats!Byte
  <1>2. /\ Spares(1, 16, 16, 16) /\ Spares(1, 16, 128, 2) /\ Spares(1, 16, 64, 2)
        /\ Spares(1, 16, 32, 2) /\ Spares(1, 16, 32, 8)
    BY DEF Spares, Replaced, Cut, Formats!Byte
  <1>3. /\ Spares(1, 8, 16, 16) /\ Spares(1, 8, 128, 2) /\ Spares(1, 8, 64, 2)
        /\ Spares(1, 8, 32, 2) /\ Spares(1, 8, 8, 2) /\ Spares(1, 8, 32, 8)
    BY DEF Spares, Replaced, Cut, Formats!Byte
  <1>4. /\ Spares(128, 2, 1, 16) /\ Spares(128, 2, 1, 8) /\ Spares(128, 2, 64, 2)
        /\ Spares(128, 2, 32, 2) /\ Spares(128, 2, 8, 2) /\ Spares(128, 2, 1, 4)
    BY DEF Spares, Replaced, Cut, Formats!Byte
  <1>5. /\ Spares(64, 2, 1, 16) /\ Spares(64, 2, 1, 8) /\ Spares(64, 2, 128, 2)
        /\ Spares(64, 2, 32, 2) /\ Spares(64, 2, 8, 2) /\ Spares(64, 2, 1, 4)
    BY DEF Spares, Replaced, Cut, Formats!Byte
  <1>6. /\ Spares(32, 2, 1, 16) /\ Spares(32, 2, 1, 8) /\ Spares(32, 2, 128, 2)
        /\ Spares(32, 2, 64, 2) /\ Spares(32, 2, 8, 2) /\ Spares(32, 2, 1, 4)
    BY DEF Spares, Replaced, Cut, Formats!Byte
  <1> QED  BY <1>1, <1>2, <1>3, <1>4, <1>5, <1>6

LEMMA WordsReplaced ==
    ASSUME NEW x \in Nat, x < 65536, NEW v \in Nat, v < 65536
    PROVE  Replaced(x, 1, 65536, v) = v /\ Cut(v, 1, 65536) = v
  <1>1. x \div 1 = x /\ v \div 1 = v /\ x % 65536 = x /\ v % 65536 = v
    OBVIOUS
  <1>2. Cut(x, 1, 65536) = x /\ Cut(v, 1, 65536) = v
    BY <1>1 DEF Cut
  <1>3. x + (1 * (v - x)) = v
    OBVIOUS
  <1> QED  BY <1>2, <1>3 DEF Replaced

(* What the bits of a field weigh.                                         *)
Weighs(f, p, q) == 2^f.shift = p /\ 2^f.width = q

LEMMA Weights ==
    ASSUME NEW f
    PROVE  /\ (HasBits(f, 0, 8) => Weighs(f, 1, 256)) /\ (HasBits(f, 4, 4) => Weighs(f, 16, 16))
           /\ (HasBits(f, 0, 4) => Weighs(f, 1, 16)) /\ (HasBits(f, 0, 3) => Weighs(f, 1, 8))
           /\ (HasBits(f, 7, 1) => Weighs(f, 128, 2)) /\ (HasBits(f, 6, 1) => Weighs(f, 64, 2))
           /\ (HasBits(f, 5, 1) => Weighs(f, 32, 2)) /\ (HasBits(f, 3, 1) => Weighs(f, 8, 2))
           /\ (HasBits(f, 2, 6) => Weighs(f, 4, 64)) /\ (HasBits(f, 0, 2) => Weighs(f, 1, 4))
           /\ (HasBits(f, 5, 3) => Weighs(f, 32, 8)) /\ (HasBits(f, 0, 13) => Weighs(f, 1, 8192))
           /\ (HasBits(f, 0, 16) => Weighs(f, 1, 65536))
  <1>1. HasBits(f, 0, 8) => Weighs(f, 1, 256)
    BY SMT DEF HasBits, Weighs
  <1>2. HasBits(f, 4, 4) => Weighs(f, 16, 16)
    BY SMT DEF HasBits, Weighs
  <1>3. HasBits(f, 0, 4) => Weighs(f, 1, 16)
    BY SMT DEF HasBits, Weighs
  <1>4. HasBits(f, 0, 3) => Weighs(f, 1, 8)
    BY SMT DEF HasBits, Weighs
  <1>5. HasBits(f, 7, 1) => Weighs(f, 128, 2)
    BY SMT DEF HasBits, Weighs
  <1>6. HasBits(f, 6, 1) => Weighs(f, 64, 2)
    BY SMT DEF HasBits, Weighs
  <1>7. HasBits(f, 5, 1) => Weighs(f, 32, 2)
    BY SMT DEF HasBits, Weighs
  <1>8. HasBits(f, 3, 1) => Weighs(f, 8, 2)
    BY SMT DEF HasBits, Weighs
  <1>9. HasBits(f, 2, 6) => Weighs(f, 4, 64)
    BY SMT DEF HasBits, Weighs
  <1>10. HasBits(f, 0, 2) => Weighs(f, 1, 4)
    BY SMT DEF HasBits, Weighs
  <1>11. HasBits(f, 5, 3) => Weighs(f, 32, 8)
    BY SMT DEF HasBits, Weighs
  <1>12. HasBits(f, 0, 13) => Weighs(f, 1, 8192)
    BY SMT DEF HasBits, Weighs
  <1>13. HasBits(f, 0, 16) => Weighs(f, 1, 65536)
    BY SMT DEF HasBits, Weighs
  <1> QED  BY <1>1, <1>2, <1>3, <1>4, <1>5, <1>6, <1>7, <1>8,
              <1>9, <1>10, <1>11, <1>12, <1>13

LEMMA FieldReplaces ==
    ASSUME NEW f, Settable(f), f.n = 1
    PROVE  Replaces(2^f.shift, 2^f.width)
  <1>1. CASE HasBits(f, 0, 8)
    <2>1. Weighs(f, 1, 256)
      BY <1>1, Weights
    <2> QED  BY <2>1, BitsReplaced DEF Weighs
  <1>2. CASE HasBits(f, 4, 4)
    <2>1. Weighs(f, 16, 16)
      BY <1>2, Weights
    <2> QED  BY <2>1, BitsReplaced DEF Weighs
  <1>3. CASE HasBits(f, 0, 4)
    <2>1. Weighs(f, 1, 16)
      BY <1>3, Weights
    <2> QED  BY <2>1, BitsReplaced DEF Weighs
  <1>4. CASE HasBits(f, 0, 3)
    <2>1. Weighs(f, 1, 8)
      BY <1>4, Weights
    <2> QED  BY <2>1, BitsReplaced DEF Weighs
  <1>5. CASE HasBits(f, 7, 1)
    <2>1. Weighs(f, 128, 2)
      BY <1>5, Weights
    <2> QED  BY <2>1, BitsReplaced DEF Weighs
  <1>6. CASE HasBits(f, 6, 1)
    <2>1. Weighs(f, 64, 2)
      BY <1>6, Weights
    <2> QED  BY <2>1, BitsReplaced DEF Weighs
  <1>7. CASE HasBits(f, 5, 1)
    <2>1. Weighs(f, 32, 2)
      BY <1>7, Weights
    <2> QED  BY <2>1, BitsReplaced DEF Weighs
  <1> QED  BY <1>1, <1>2, <1>3, <1>4, <1>5, <1>6, <1>7 DEF Settable

LEMMA FieldSpares ==
    ASSUME NEW f, Settable(f), f.n = 1, NEW g, NEW len, FieldOK(g, len), g.n = 1, BitsApart(f, g)
    PROVE  Spares(2^f.shift, 2^f.width, 2^g.shift, 2^g.width)
  <1>1. CASE HasBits(f, 0, 8)
    BY <1>1 DEF FieldOK, HasBits, BitsApart
  <1>2. CASE HasBits(f, 4, 4)
    <2>1. \/ HasBits(g, 0, 4) \/ HasBits(g, 0, 3) \/ HasBits(g, 3, 1)
          \/ HasBits(g, 0, 2)
      BY <1>2 DEF FieldOK, HasBits, BitsApart
    <2>2. \/ Weighs(g, 1, 16) \/ Weighs(g, 1, 8) \/ Weighs(g, 8, 2)
          \/ Weighs(g, 1, 4)
      BY <2>1, Weights
    <2>3. Weighs(f, 16, 16)
      BY <1>2, Weights
    <2> QED  BY <2>2, <2>3, BitsSpared DEF Weighs
  <1>3. CASE HasBits(f, 0, 4)
    <2>1. \/ HasBits(g, 4, 4) \/ HasBits(g, 7, 1) \/ HasBits(g, 6, 1)
          \/ HasBits(g, 5, 1) \/ HasBits(g, 5, 3)
      BY <1>3 DEF FieldOK, HasBits, BitsApart
    <2>2. \/ Weighs(g, 16, 16) \/ Weighs(g, 128, 2) \/ Weighs(g, 64, 2)
          \/ Weighs(g, 32, 2) \/ Weighs(g, 32, 8)
      BY <2>1, Weights
    <2>3. Weighs(f, 1, 16)
      BY <1>3, Weights
    <2> QED  BY <2>2, <2>3, BitsSpared DEF Weighs
  <1>4. CASE HasBits(f, 0, 3)
    <2>1. \/ HasBits(g, 4, 4) \/ HasBits(g, 7, 1) \/ HasBits(g, 6, 1)
          \/ HasBits(g, 5, 1) \/ HasBits(g, 3, 1) \/ HasBits(g, 5, 3)
      BY <1>4 DEF FieldOK, HasBits, BitsApart
    <2>2. \/ Weighs(g, 16, 16) \/ Weighs(g, 128, 2) \/ Weighs(g, 64, 2)
          \/ Weighs(g, 32, 2) \/ Weighs(g, 8, 2) \/ Weighs(g, 32, 8)
      BY <2>1, Weights
    <2>3. Weighs(f, 1, 8)
      BY <1>4, Weights
    <2> QED  BY <2>2, <2>3, BitsSpared DEF Weighs
  <1>5. CASE HasBits(f, 7, 1)
    <2>1. \/ HasBits(g, 0, 4) \/ HasBits(g, 0, 3) \/ HasBits(g, 6, 1)
          \/ HasBits(g, 5, 1) \/ HasBits(g, 3, 1) \/ HasBits(g, 0, 2)
      BY <1>5 DEF FieldOK, HasBits, BitsApart
    <2>2. \/ Weighs(g, 1, 16) \/ Weighs(g, 1, 8) \/ Weighs(g, 64, 2)
          \/ Weighs(g, 32, 2) \/ Weighs(g, 8, 2) \/ Weighs(g, 1, 4)
      BY <2>1, Weights
    <2>3. Weighs(f, 128, 2)
      BY <1>5, Weights
    <2> QED  BY <2>2, <2>3, BitsSpared DEF Weighs
  <1>6. CASE HasBits(f, 6, 1)
    <2>1. \/ HasBits(g, 0, 4) \/ HasBits(g, 0, 3) \/ HasBits(g, 7, 1)
          \/ HasBits(g, 5, 1) \/ HasBits(g, 3, 1) \/ HasBits(g, 0, 2)
      BY <1>6 DEF FieldOK, HasBits, BitsApart
    <2>2. \/ Weighs(g, 1, 16) \/ Weighs(g, 1, 8) \/ Weighs(g, 128, 2)
          \/ Weighs(g, 32, 2) \/ Weighs(g, 8, 2) \/ Weighs(g, 1, 4)
      BY <2>1, Weights
    <2>3. Weighs(f, 64, 2)
      BY <1>6, Weights
    <2> QED  BY <2>2, <2>3, BitsSpared DEF Weighs
  <1>7. CASE HasBits(f, 5, 1)
    <2>1. \/ HasBits(g, 0, 4) \/ HasBits(g, 0, 3) \/ HasBits(g, 7, 1)
          \/ HasBits(g, 6, 1) \/ HasBits(g, 3, 1) \/ HasBits(g, 0, 2)
      BY <1>7 DEF FieldOK, HasBits, BitsApart
    <2>2. \/ Weighs(g, 1, 16) \/ Weighs(g, 1, 8) \/ Weighs(g, 128, 2)
          \/ Weighs(g, 64, 2) \/ Weighs(g, 8, 2) \/ Weighs(g, 1, 4)
      BY <2>1, Weights
    <2>3. Weighs(f, 32, 2)
      BY <1>7, Weights
    <2> QED  BY <2>2, <2>3, BitsSpared DEF Weighs
  <1> QED  BY <1>1, <1>2, <1>3, <1>4, <1>5, <1>6, <1>7 DEF Settable

LEMMA SubSeqSame ==
    ASSUME NEW b \in Seq(Formats!Byte), NEW c \in Seq(Formats!Byte), NEW m \in Nat, NEW n \in Nat,
           m + n <= Len(b), m + n <= Len(c), \A i \in m + 1 .. m + n : b[i] = c[i]
    PROVE  SubSeq(b, m + 1, m + n) = SubSeq(c, m + 1, m + n)
  OBVIOUS

(* A field whose bytes are as before reads as before.                      *)
LEMMA GetSame ==
    ASSUME NEW b \in Seq(Formats!Byte), NEW c \in Seq(Formats!Byte), NEW g, FieldOK(g, Len(b)),
           g.at + g.n <= Len(c), \A i \in g.at + 1 .. g.at + g.n : c[i] = b[i]
    PROVE  Formats!Get(c, g) = Formats!Get(b, g)
  <1>1. CASE Formats!IsNumber(g)
    <2>1. Formats!Word(c, g) = Formats!Word(b, g)
      BY <1>1, SMTT(40) DEF Formats!IsNumber, Formats!Word, FieldOK
    <2> QED  BY <1>1, <2>1, Zenon DEF Formats!Get, Formats!Number
  <1>2. CASE ~Formats!IsNumber(g)
    <2>1. SubSeq(b, g.at + 1, g.at + g.n) = SubSeq(c, g.at + 1, g.at + g.n)
      BY SubSeqSame DEF FieldOK
    <2> QED  BY <1>2, <2>1 DEF Formats!Get
  <1> QED  BY <1>1, <1>2

ValueOf(f, v) == IF f.enum = Formats!Plain THEN v ELSE Formats!Into(f.enum, v)
Meaning(f, k) == IF f.enum = Formats!Plain THEN k ELSE Formats!From(f.enum, k)

(* The number of a variant is read as that variant.                        *)
LEMMA IntoFrom ==
    ASSUME NEW e, e.from = e.into, NEW k
    PROVE  Formats!Into(e, Formats!From(e, k)) = k
  BY Zenon DEF Formats!Into, Formats!From

LEMMA ValueHeld ==
    ASSUME NEW f, NEW len, FieldOK(f, len), NEW v, Held(f, v), Formats!IsNumber(f)
    PROVE  ValueOf(f, v) \in 0 .. (2^f.width) - 1 /\ Meaning(f, ValueOf(f, v)) = v
  <1>1. CASE f.enum = Formats!Plain
    BY <1>1, Zenon DEF Held, ValueOf, Meaning
  <1>2. CASE f.enum # Formats!Plain
    <2>1. PICK k \in 0 .. (2^f.width) - 1 : v = Formats!From(f.enum, k)
      BY <1>2, Zenon DEF Held
    <2>2. Formats!Into(f.enum, v) = k
      BY <2>1, IntoFrom, Zenon DEF FieldOK
    <2> QED  BY <1>2, <2>1, <2>2, Zenon DEF ValueOf, Meaning
  <1> QED  BY <1>1, <1>2

LEMMA WordType ==
    ASSUME NEW b \in Seq(Formats!Byte), NEW f, FieldOK(f, Len(b)), Formats!IsNumber(f)
    PROVE  /\ f.n = 1 => Formats!Word(b, f) \in Formats!Byte
           /\ f.n = 2 => Formats!Word(b, f) \in Nat /\ Formats!Word(b, f) < 65536
  <1>1. \A i \in 1 .. Len(b) : b[i] \in Formats!Byte
    OBVIOUS
  <1>2. f.at \in Nat /\ (f.n = 1 => f.at + 1 <= Len(b)) /\ (f.n = 2 => f.at + 2 <= Len(b))
    BY DEF FieldOK
  <1>3. CASE f.n = 1
    BY <1>1, <1>2, <1>3 DEF Formats!Word
  <1>4. CASE f.n = 2
    <2>1. b[f.at + 1] \in Nat /\ b[f.at + 1] < 256 /\ b[f.at + 2] \in Nat /\ b[f.at + 2] < 256
      <3>1. \A y \in Formats!Byte : y \in Nat /\ y < 256
        BY DEF Formats!Byte
      <3>2. f.at + 1 \in 1 .. Len(b) /\ f.at + 2 \in 1 .. Len(b)
        BY <1>2, <1>4
      <3> QED  BY <1>1, <3>1, <3>2, SMTT(40)
    <2>2. Formats!Word(b, f) = 256 * b[f.at + 1] + b[f.at + 2]
      BY <1>4 DEF Formats!Word
    <2> QED  BY <2>1, <2>2, <1>4, SMTT(40)
  <1> QED  BY <1>3, <1>4 DEF Formats!IsNumber

(* What a setter writes into the bytes of the field.                       *)
PutWord(b, f, v) ==
    Replaced(Formats!Word(b, f), 2^f.shift, 2^f.width, ValueOf(f, v))
PutBytes(b, f, v) ==
    IF ~Formats!IsNumber(f) THEN v
    ELSE IF f.n = 1 THEN <<PutWord(b, f, v)>>
    ELSE <<PutWord(b, f, v) \div 256, PutWord(b, f, v) % 256>>

LEMMA PutIs ==
    ASSUME NEW b, NEW f, NEW v
    PROVE  Formats!Put(b, f, v) =
              [i \in DOMAIN b |-> IF i \in f.at + 1 .. f.at + f.n THEN PutBytes(b, f, v)[i - f.at]
                                  ELSE b[i]]
  BY Zenon DEF Formats!Put, Formats!Number, PutBytes, PutWord, ValueOf, Replaced, Cut

LEMMA PutWordOK ==
    ASSUME NEW b \in Seq(Formats!Byte), NEW f, FieldOK(f, Len(b)), Settable(f), NEW v, Held(f, v),
           Formats!IsNumber(f)
    PROVE  /\ f.n = 1 => PutWord(b, f, v) \in Formats!Byte
           /\ f.n = 2 => PutWord(b, f, v) \in Nat /\ PutWord(b, f, v) < 65536
           /\ Cut(PutWord(b, f, v), 2^f.shift, 2^f.width) = ValueOf(f, v)
  <1>1. ValueOf(f, v) \in 0 .. (2^f.width) - 1
    BY ValueHeld
  <1>2. CASE f.n = 1
    <2>1. Formats!Word(b, f) \in Formats!Byte
      BY <1>2, WordType
    <2>2. Replaces(2^f.shift, 2^f.width)
      BY <1>2, FieldReplaces
    <2> QED  BY <1>1, <1>2, <2>1, <2>2 DEF PutWord, Replaces
  <1>3. CASE f.n = 2
    <2>1. 2^f.shift = 1 /\ 2^f.width = 65536
      BY <1>3, Weights DEF Settable, Weighs
    <2>2. ValueOf(f, v) \in Nat /\ ValueOf(f, v) < 65536
      BY <1>1, <2>1
    <2>3. Formats!Word(b, f) \in Nat /\ Formats!Word(b, f) < 65536
      BY <1>3, WordType
    <2>4. /\ Replaced(Formats!Word(b, f), 1, 65536, ValueOf(f, v)) = ValueOf(f, v)
          /\ Cut(ValueOf(f, v), 1, 65536) = ValueOf(f, v)
      BY <2>2, <2>3, WordsReplaced
    <2>5. PutWord(b, f, v) = ValueOf(f, v)
      BY <2>1, <2>4 DEF PutWord
    <2> QED  BY <1>3, <2>1, <2>2, <2>4, <2>5
  <1> QED  BY <1>2, <1>3 DEF Formats!IsNumber

LEMMA PutBytesOK ==
    ASSUME NEW b \in Seq(Formats!Byte), NEW f, FieldOK(f, Len(b)), Settable(f), NEW v, Held(f, v)
    PROVE  /\ PutBytes(b, f, v) \in Seq(Formats!Byte)
           /\ Len(PutBytes(b, f, v)) = f.n
  <1>1. CASE ~Formats!IsNumber(f)
    BY <1>1 DEF PutBytes, Held
  <1>2. CASE f.n = 1
    <2>1. PutWord(b, f, v) \in Formats!Byte
      BY <1>2, PutWordOK DEF Formats!IsNumber
    <2>2. PutBytes(b, f, v) = <<PutWord(b, f, v)>>
      BY <1>2 DEF PutBytes, Formats!IsNumber
    <2> QED  BY <1>2, <2>1, <2>2
  <1>3. CASE f.n = 2
    <2> DEFINE w == PutWord(b, f, v)
    <2>1. w \in Nat /\ w < 65536
      BY <1>3, PutWordOK DEF Formats!IsNumber
    <2>2. PutBytes(b, f, v) = <<w \div 256, w % 256>>
      BY <1>3 DEF PutBytes, Formats!IsNumber
    <2> HIDE DEF w
    <2>3. w \div 256 \in Formats!Byte /\ w % 256 \in Formats!Byte
      BY <2>1 DEF Formats!Byte
    <2> QED  BY <1>3, <2>2, <2>3
  <1> QED  BY <1>1, <1>2, <1>3 DEF Formats!IsNumber

(* Put writes bytes, and none outside the field.                           *)
LEMMA PutType ==
    ASSUME NEW b \in Seq(Formats!Byte), NEW f, FieldOK(f, Len(b)), Settable(f), NEW v, Held(f, v),
           NEW c, c = Formats!Put(b, f, v)
    PROVE  /\ c \in Seq(Formats!Byte) /\ Len(c) = Len(b)
           /\ \A i \in 1 .. Len(b) : i \notin f.at + 1 .. f.at + f.n => c[i] = b[i]
           /\ \A i \in f.at + 1 .. f.at + f.n : c[i] = PutBytes(b, f, v)[i - f.at]
  <1> DEFINE p == PutBytes(b, f, v)
  <1>1. p \in Seq(Formats!Byte) /\ Len(p) = f.n
    BY PutBytesOK
  <1>2. c = [i \in DOMAIN b |-> IF i \in f.at + 1 .. f.at + f.n THEN p[i - f.at] ELSE b[i]]
    BY PutIs
  <1> HIDE DEF p
  <1>3. f.at \in Nat /\ f.n \in Nat /\ f.at + f.n <= Len(b)
    BY DEF FieldOK
  <1>4. \A i \in f.at + 1 .. f.at + f.n : i - f.at \in 1 .. Len(p) /\ i \in 1 .. Len(b)
    BY <1>1, <1>3
  <1>5. \A i \in 1 .. Len(b) : c[i] \in Formats!Byte
    BY <1>1, <1>2, <1>4
  <1>6. c \in [1 .. Len(b) -> Formats!Byte]
    <2>1. DOMAIN b = 1 .. Len(b)
      OBVIOUS
    <2> QED  BY <1>2, <1>5, <2>1, Zenon
  <1>7. c \in Seq(Formats!Byte) /\ Len(c) = Len(b)
    BY <1>6
  <1> QED  BY <1>2, <1>3, <1>4, <1>7 DEF p

LEMMA PutThenWord ==
    ASSUME NEW b \in Seq(Formats!Byte), NEW f, FieldOK(f, Len(b)), Settable(f), NEW v, Held(f, v),
           NEW c, c = Formats!Put(b, f, v), Formats!IsNumber(f)
    PROVE  Formats!Word(c, f) = PutWord(b, f, v)
  <1>1. \A i \in f.at + 1 .. f.at + f.n : c[i] = PutBytes(b, f, v)[i - f.at]
    BY PutType
  <1>2. f.at \in Nat
    BY DEF FieldOK
  <1>3. CASE f.n = 1
    <2>1. c[f.at + 1] = PutBytes(b, f, v)[1]
      BY <1>1, <1>2, <1>3
    <2>2. PutBytes(b, f, v) = <<PutWord(b, f, v)>>
      BY <1>3 DEF PutBytes, Formats!IsNumber
    <2> QED  BY <1>3, <2>1, <2>2 DEF Formats!Word
  <1>4. CASE f.n = 2
    <2> DEFINE w == PutWord(b, f, v)
    <2>1. c[f.at + 1] = PutBytes(b, f, v)[1] /\ c[f.at + 2] = PutBytes(b, f, v)[2]
      BY <1>1, <1>2, <1>4
    <2>2. PutBytes(b, f, v) = <<w \div 256, w % 256>>
      BY <1>4 DEF PutBytes, Formats!IsNumber
    <2>3. w \in Nat
      BY <1>4, PutWordOK
    <2>4. Formats!Word(c, f) = 256 * c[f.at + 1] + c[f.at + 2]
      BY <1>4 DEF Formats!Word
    <2> HIDE DEF w
    <2>5. 256 * (w \div 256) + (w % 256) = w
      BY <2>3
    <2>6. Formats!Word(c, f) = w
      BY <2>1, <2>2, <2>4, <2>5
    <2> QED  BY <2>6 DEF w
  <1> QED  BY <1>3, <1>4 DEF Formats!IsNumber

(* A field reads as what was put there.                                    *)
LEMMA PutReads ==
    ASSUME NEW b \in Seq(Formats!Byte), NEW f, FieldOK(f, Len(b)), Settable(f), NEW v, Held(f, v)
    PROVE  Formats!Get(Formats!Put(b, f, v), f) = v
  <1> DEFINE c == Formats!Put(b, f, v)
  <1>1. CASE Formats!IsNumber(f)
    <2>1. Formats!Word(c, f) = PutWord(b, f, v)
      BY <1>1, PutThenWord
    <2>2. Formats!Number(c, f) = ValueOf(f, v)
      <3>1. Formats!Number(c, f) = Cut(Formats!Word(c, f), 2^f.shift, 2^f.width)
        BY Zenon DEF Formats!Number, Cut
      <3>2. Cut(PutWord(b, f, v), 2^f.shift, 2^f.width) = ValueOf(f, v)
        BY <1>1, PutWordOK
      <3> QED  BY <2>1, <3>1, <3>2, Zenon
    <2>3. Formats!Get(c, f) = Meaning(f, Formats!Number(c, f))
      BY <1>1, Zenon DEF Formats!Get, Meaning
    <2> QED  BY <1>1, <2>2, <2>3, ValueHeld
  <1>2. CASE ~Formats!IsNumber(f)
    <2>1. /\ c \in Seq(Formats!Byte) /\ Len(c) = Len(b)
          /\ \A i \in f.at + 1 .. f.at + f.n : c[i] = PutBytes(b, f, v)[i - f.at]
      BY PutType
    <2>2. PutBytes(b, f, v) = v /\ v \in Seq(Formats!Byte) /\ Len(v) = f.n
      BY <1>2 DEF PutBytes, Held
    <2>3. f.at \in Nat /\ f.n \in Nat /\ f.at + f.n <= Len(b)
      BY DEF FieldOK
    <2> HIDE DEF c
    <2>4. SubSeq(c, f.at + 1, f.at + f.n) = v
      BY <2>1, <2>2, <2>3
    <2> QED  BY <1>2, <2>4 DEF c, Formats!Get
  <1> QED  BY <1>1, <1>2

(* A field that has no bit in common with it reads as before.              *)
LEMMA PutLeaves ==
    ASSUME NEW b \in Seq(Formats!Byte), NEW f, FieldOK(f, Len(b)), Settable(f), NEW v, Held(f, v),
           NEW g, FieldOK(g, Len(b)), Apart(f, g)
    PROVE  Formats!Get(Formats!Put(b, f, v), g) = Formats!Get(b, g)
  <1> DEFINE c == Formats!Put(b, f, v)
  <1>1. /\ c \in Seq(Formats!Byte) /\ Len(c) = Len(b)
        /\ \A i \in 1 .. Len(b) : i \notin f.at + 1 .. f.at + f.n => c[i] = b[i]
    BY PutType
  <1>2. /\ f.at \in Nat /\ f.n \in Nat /\ g.at \in Nat /\ g.n \in Nat
        /\ f.at + f.n <= Len(b) /\ g.at + g.n <= Len(b)
    BY DEF FieldOK
  <1>3. CASE f.at + f.n <= g.at \/ g.at + g.n <= f.at
    <2> HIDE DEF c
    <2>1. \A i \in g.at + 1 .. g.at + g.n : c[i] = b[i]
      <3>1. \A i \in g.at + 1 .. g.at + g.n : i \in 1 .. Len(b)
        BY <1>2
      <3>2. \A i \in g.at + 1 .. g.at + g.n : i \notin f.at + 1 .. f.at + f.n
        BY <1>2, <1>3, SMTT(40)
      <3> QED  BY <1>1, <3>1, <3>2, Zenon
    <2>2. Formats!Get(c, g) = Formats!Get(b, g)
      BY <1>1, <1>2, <2>1, GetSame
    <2> QED  BY <2>2 DEF c
  <1>4. CASE f.n = 1 /\ g.n = 1 /\ f.at = g.at /\ BitsApart(f, g)
    <2>1. Formats!IsNumber(f) /\ Formats!IsNumber(g)
      BY <1>4 DEF Formats!IsNumber
    <2>2. Spares(2^f.shift, 2^f.width, 2^g.shift, 2^g.width)
      BY <1>4, FieldSpares
    <2>3. Formats!Word(b, f) \in Formats!Byte /\ Formats!Word(b, g) = Formats!Word(b, f)
      BY <1>4, <2>1, WordType DEF Formats!Word
    <2>4. Formats!Word(c, g) = PutWord(b, f, v)
      BY <1>4, <2>1, PutThenWord DEF Formats!Word
    <2>5. ValueOf(f, v) \in 0 .. (2^f.width) - 1
      BY <2>1, ValueHeld
    <2>6. Cut(PutWord(b, f, v), 2^g.shift, 2^g.width)
             = Cut(Formats!Word(b, f), 2^g.shift, 2^g.width)
      BY <2>2, <2>3, <2>5 DEF PutWord, Spares
    <2>7. Formats!Number(c, g) = Formats!Number(b, g)
      BY <2>3, <2>4, <2>6, Zenon DEF Formats!Number, Cut
    <2> QED  BY <2>1, <2>7, Zenon DEF Formats!Get
  <1> QED  BY <1>3, <1>4 DEF Apart

-----------------------------------------------------------------------------
(* The layouts: fields within the buffer, of which those that are written  *)
(* have no bit in common with any other.                                   *)
Written(F) == DOMAIN F \ {"flags", "offset", "dscp", "ecn", "s"}
Layout(F, len) ==
    /\ \A n \in DOMAIN F : FieldOK(F[n], len)
    /\ \A n \in Written(F) : Settable(F[n]) /\ \A m \in DOMAIN F \ {n} : Apart(F[n], F[m])

LEMMA ByteIsNat == \A y \in Formats!Byte : y \in Nat /\ y < 256
  BY DEF Formats!Byte

EnumOK(e) == e.from = e.into

LEMMA EnumsOK ==
    /\ EnumOK(Formats!Plain) /\ EnumOK(Formats!IpProtocol) /\ EnumOK(Formats!EtherType)
    /\ EnumOK(Formats!Kind) /\ EnumOK(Formats!IgmpV1Type) /\ EnumOK(Formats!IgmpV2Type)
    /\ EnumOK(Formats!IgmpV3Type) /\ EnumOK(Formats!Version) /\ EnumOK(Formats!Protocol)
    /\ EnumOK(Formats!Algorithm) /\ EnumOK(Formats!ExtensionType)
    /\ \A k : EnumOK(Formats!CodeOf(k)) /\ EnumOK(Formats!TransportProtocol(k))
  <1>1. \A from : EnumOK(Formats!Variants(from, from))
    BY DEF EnumOK, Formats!Variants
  <1>2. EnumOK(Formats!Plain)
    BY DEF EnumOK, Formats!Plain
  <1>3. EnumOK(Formats!IpProtocol)
    <2>1. Formats!IpProtocolFrom = Formats!IpProtocolInto
      BY Zenon DEF Formats!IpProtocolFrom, Formats!IpProtocolInto
    <2> QED  BY <1>1, <2>1, Zenon DEF Formats!IpProtocol
  <1>4. EnumOK(Formats!EtherType) /\ EnumOK(Formats!Kind)
    <2>1. Formats!EtherTypeFrom = Formats!EtherTypeInto /\ Formats!KindFrom = Formats!KindInto
      BY DEF Formats!EtherTypeFrom, Formats!EtherTypeInto, Formats!KindFrom, Formats!KindInto
    <2> QED  BY <1>1, <2>1, Zenon DEF Formats!EtherType, Formats!Kind
  <1>5. /\ EnumOK(Formats!IgmpV1Type) /\ EnumOK(Formats!IgmpV2Type) /\ EnumOK(Formats!IgmpV3Type)
        /\ EnumOK(Formats!Version) /\ EnumOK(Formats!Protocol)
        /\ EnumOK(Formats!Algorithm) /\ EnumOK(Formats!ExtensionType)
    BY <1>1, Zenon
       DEF Formats!IgmpV1Type, Formats!IgmpV2Type, Formats!IgmpV3Type, Formats!Version,
           Formats!Protocol, Formats!Algorithm, Formats!ExtensionType
  <1>6. ASSUME NEW k  PROVE EnumOK(Formats!CodeOf(k)) /\ EnumOK(Formats!TransportProtocol(k))
    <2>1. /\ EnumOK(Formats!ServiceProtocol) /\ EnumOK(Formats!ErrorProtocol)
          /\ EnumOK(Formats!ControlProtocol) /\ EnumOK(Formats!IpTurnProtocol)
          /\ EnumOK(Formats!OtherTurnProtocol)
      BY <1>1, ZenonT(60) DEF Formats!ServiceProtocol, Formats!ErrorProtocol, Formats!ControlProtocol,
                         Formats!IpTurnProtocol, Formats!OtherTurnProtocol
    <2>2. EnumOK(Formats!TransportProtocol(k))
      BY <1>2, <2>1 DEF Formats!TransportProtocol
    <2>3. EnumOK(Formats!CodeOf(k))
      BY <1>1, <1>2, SMTT(60) DEF Formats!CodeOf, Formats!UnreachableFrom, Formats!UnreachableInto,
           Formats!RedirectFrom, Formats!RedirectInto, Formats!ParameterFrom, Formats!ParameterInto
    <2> QED  BY <2>2, <2>3
  <1> QED  BY <1>2, <1>3, <1>4, <1>5, <1>6

LEMMA FixedLayouts ==
    ASSUME NEW len \in Nat
    PROVE  /\ len >= 14 => Layout(Formats!Ethernet, len)
           /\ len >= 28 => Layout(Formats!Arp, len)
           /\ len >= 20 => Layout(Formats!Ipv4, len)
           /\ len >= 8 => Layout(Formats!Udp, len)
           /\ len >= 20 => Layout(Formats!Tcp, len)
           /\ len >= 8 => Layout(Formats!IgmpV1, len)
           /\ len >= 8 => Layout(Formats!IgmpV2, len)
           /\ len >= 12 => Layout(Formats!IgmpV3Query, len)
           /\ len >= 8 => Layout(Formats!IgmpV3Report, len)
           /\ len >= 4 => Layout(Formats!Ping, len)
           /\ len >= 6 => Layout(Formats!Addr, len)
           /\ len >= 4 => Layout(Formats!CompressionTail, len)
  <1> USE DEF Formats!Whole, Formats!Bits, Formats!Of
  <1>1. len >= 14 => Layout(Formats!Ethernet, len)
    <2> USE DEF Formats!Ethernet
    <2>1. ASSUME len >= 14, NEW n \in DOMAIN Formats!Ethernet  PROVE FieldOK(Formats!Ethernet[n], len)
      BY <2>1, EnumsOK DEF EnumOK, FieldOK, HasBits
    <2>2. ASSUME NEW n \in Written(Formats!Ethernet)
          PROVE  /\ Settable(Formats!Ethernet[n])
                 /\ \A m \in DOMAIN Formats!Ethernet \ {n} : Apart(Formats!Ethernet[n], Formats!Ethernet[m])
      BY DEF Written, Settable, HasBits, Apart, BitsApart
    <2> QED  BY <2>1, <2>2, Zenon DEF Layout
  <1>2. len >= 28 => Layout(Formats!Arp, len)
    <2> USE DEF Formats!Arp
    <2>1. ASSUME len >= 28, NEW n \in DOMAIN Formats!Arp  PROVE FieldOK(Formats!Arp[n], len)
      BY <2>1, EnumsOK DEF EnumOK, FieldOK, HasBits
    <2>2. ASSUME NEW n \in Written(Formats!Arp)
          PROVE  /\ Settable(Formats!Arp[n])
                 /\ \A m \in DOMAIN Formats!Arp \ {n} : Apart(Formats!Arp[n], Formats!Arp[m])
      BY DEF Written, Settable, HasBits, Apart, BitsApart
    <2> QED  BY <2>1, <2>2, Zenon DEF Layout
  <1>3. len >= 20 => Layout(Formats!Ipv4, len)
    <2> USE DEF Formats!Ipv4
    <2>1. ASSUME len >= 20, NEW n \in DOMAIN Formats!Ipv4  PROVE FieldOK(Formats!Ipv4[n], len)
      BY <2>1, EnumsOK DEF EnumOK, FieldOK, HasBits
    <2>2. ASSUME NEW n \in Written(Formats!Ipv4)
          PROVE  /\ Settable(Formats!Ipv4[n])
                 /\ \A m \in DOMAIN Formats!Ipv4 \ {n} : Apart(Formats!Ipv4[n], Formats!Ipv4[m])
      BY DEF Written, Settable, HasBits, Apart, BitsApart
    <2> QED  BY <2>1, <2>2, Zenon DEF Layout
  <1>4. len >= 8 => Layout(Formats!Udp, len)
    <2> USE DEF Formats!Udp
    <2>1. ASSUME len >= 8, NEW n \in DOMAIN Formats!Udp  PROVE FieldOK(Formats!Udp[n], len)
      BY <2>1, EnumsOK DEF EnumOK, FieldOK, HasBits
    <2>2. ASSUME NEW n \in Written(Formats!Udp)
          PROVE  /\ Settable(Formats!Udp[n])
                 /\ \A m \in DOMAIN Formats!Udp \ {n} : Apart(Formats!Udp[n], Formats!Udp[m])
      BY DEF Written, Settable, HasBits, Apart, BitsApart
    <2> QED  BY <2>1, <2>2, Zenon DEF Layout
  <1>5. len >= 20 => Layout(Formats!Tcp, len)
    <2> USE DEF Formats!Tcp
    <2>1. ASSUME len >= 20, NEW n \in DOMAIN Formats!Tcp  PROVE FieldOK(Formats!Tcp[n], len)
      BY <2>1, EnumsOK DEF EnumOK, FieldOK, HasBits
    <2>2. ASSUME NEW n \in Written(Formats!Tcp)
          PROVE  /\ Settable(Formats!Tcp[n])
                 /\ \A m \in DOMAIN Formats!Tcp \ {n} : Apart(Formats!Tcp[n], Formats!Tcp[m])
      BY DEF Written, Settable, HasBits, Apart, BitsApart
    <2> QED  BY <2>1, <2>2, Zenon DEF Layout
  <1>6. len >= 8 => Layout(Formats!IgmpV1, len)
    <2> USE DEF Formats!IgmpV1
    <2>1. ASSUME len >= 8, NEW n \in DOMAIN Formats!IgmpV1  PROVE FieldOK(Formats!IgmpV1[n], len)
      BY <2>1, EnumsOK DEF EnumOK, FieldOK, HasBits
    <2>2. ASSUME NEW n \in Written(Formats!IgmpV1)
          PROVE  /\ Settable(Formats!IgmpV1[n])
                 /\ \A m \in DOMAIN Formats!IgmpV1 \ {n} : Apart(Formats!IgmpV1[n], Formats!IgmpV1[m])
      BY DEF Written, Settable, HasBits, Apart, BitsApart
    <2> QED  BY <2>1, <2>2, Zenon DEF Layout
  <1>7. len >= 8 => Layout(Formats!IgmpV2, len)
    <2> USE DEF Formats!IgmpV2
    <2>1. ASSUME len >= 8, NEW n \in DOMAIN Formats!IgmpV2  PROVE FieldOK(Formats!IgmpV2[n], len)
      BY <2>1, EnumsOK DEF EnumOK, FieldOK, HasBits
    <2>2. ASSUME NEW n \in Written(Formats!IgmpV2)
          PROVE  /\ Settable(Formats!IgmpV2[n])
                 /\ \A m \in DOMAIN Formats!IgmpV2 \ {n} : Apart(Formats!IgmpV2[n], Formats!IgmpV2[m])
      BY DEF Written, Settable, HasBits, Apart, BitsApart
    <2> QED  BY <2>1, <2>2, Zenon DEF Layout
  <1>8. len >= 12 => Layout(Formats!IgmpV3Query, len)
    <2> USE DEF Formats!IgmpV3Query
    <2>1. ASSUME len >= 12, NEW n \in DOMAIN Formats!IgmpV3Query  PROVE FieldOK(Formats!IgmpV3Query[n], len)
      BY <2>1, EnumsOK DEF EnumOK, FieldOK, HasBits
    <2>2. ASSUME NEW n \in Written(Formats!IgmpV3Query)
          PROVE  /\ Settable(Formats!IgmpV3Query[n])
                 /\ \A m \in DOMAIN Formats!IgmpV3Query \ {n} : Apart(Formats!IgmpV3Query[n], Formats!IgmpV3Query[m])
      BY DEF Written, Settable, HasBits, Apart, BitsApart
    <2> QED  BY <2>1, <2>2, Zenon DEF Layout
  <1>9. len >= 8 => Layout(Formats!IgmpV3Report, len)
    <2> USE DEF Formats!IgmpV3Report
    <2>1. ASSUME len >= 8, NEW n \in DOMAIN Formats!IgmpV3Report  PROVE FieldOK(Formats!IgmpV3Report[n], len)
      BY <2>1, EnumsOK DEF EnumOK, FieldOK, HasBits
    <2>2. ASSUME NEW n \in Written(Formats!IgmpV3Report)
          PROVE  /\ Settable(Formats!IgmpV3Report[n])
                 /\ \A m \in DOMAIN Formats!IgmpV3Report \ {n} : Apart(Formats!IgmpV3Report[n], Formats!IgmpV3Report[m])
      BY DEF Written, Settable, HasBits, Apart, BitsApart
    <2> QED  BY <2>1, <2>2, Zenon DEF Layout
  <1>10. len >= 4 => Layout(Formats!Ping, len)
    <2> USE DEF Formats!Ping
    <2>1. ASSUME len >= 4, NEW n \in DOMAIN Formats!Ping  PROVE FieldOK(Formats!Ping[n], len)
      BY <2>1, EnumsOK DEF EnumOK, FieldOK, HasBits
    <2>2. ASSUME NEW n \in Written(Formats!Ping)
          PROVE  /\ Settable(Formats!Ping[n])
                 /\ \A m \in DOMAIN Formats!Ping \ {n} : Apart(Formats!Ping[n], Formats!Ping[m])
      BY DEF Written, Settable, HasBits, Apart, BitsApart
    <2> QED  BY <2>1, <2>2, Zenon DEF Layout
  <1>11. len >= 6 => Layout(Formats!Addr, len)
    <2> USE DEF Formats!Addr
    <2>1. ASSUME len >= 6, NEW n \in DOMAIN Formats!Addr  PROVE FieldOK(Formats!Addr[n], len)
      BY <2>1, EnumsOK DEF EnumOK, FieldOK, HasBits
    <2>2. ASSUME NEW n \in Written(Formats!Addr)
          PROVE  /\ Settable(Formats!Addr[n])
                 /\ \A m \in DOMAIN Formats!Addr \ {n} : Apart(Formats!Addr[n], Formats!Addr[m])
      BY DEF Written, Settable, HasBits, Apart, BitsApart
    <2> QED  BY <2>1, <2>2, Zenon DEF Layout
  <1>12. len >= 4 => Layout(Formats!CompressionTail, len)
    <2> USE DEF Formats!CompressionTail
    <2>1. ASSUME len >= 4, NEW n \in DOMAIN Formats!CompressionTail  PROVE FieldOK(Formats!CompressionTail[n], len)
      BY <2>1, EnumsOK DEF EnumOK, FieldOK, HasBits
    <2>2. ASSUME NEW n \in Written(Formats!CompressionTail)
          PROVE  /\ Settable(Formats!CompressionTail[n])
                 /\ \A m \in DOMAIN Formats!CompressionTail \ {n} : Apart(Formats!CompressionTail[n], Formats!CompressionTail[m])
      BY SMTT(40) DEF Written, Settable, HasBits, Apart, BitsApart
    <2> QED  BY <2>1, <2>2, Zenon DEF Layout
  <1> QED  BY <1>1, <1>2, <1>3, <1>4, <1>5, <1>6, <1>7, <1>8, <1>9, <1>10, <1>11, <1>12

LEMMA NetLayout ==
    ASSUME NEW b, NEW len \in Nat, len >= 12
    PROVE  Layout(Formats!Net(b), len)
  <1> DEFINE F == Formats!Net(b)
  <1> USE DEF Formats!Net, Formats!Whole, Formats!Bits, Formats!Of
  <1>1. ASSUME NEW n \in DOMAIN F  PROVE FieldOK(F[n], len)
    BY <1>1, EnumsOK DEF EnumOK, FieldOK, HasBits
  <1>2. ASSUME NEW n \in Written(F)  PROVE Settable(F[n])
    BY <1>2 DEF Written, Settable, HasBits
  <1>3. ASSUME NEW n \in Written(F), NEW m \in DOMAIN F \ {n}  PROVE Apart(F[n], F[m])
    BY <1>3, SMTT(40) DEF Written, Apart, BitsApart
  <1> QED  BY <1>1, <1>2, <1>3, ZenonT(60) DEF Layout

LEMMA WholeOK ==
    ASSUME NEW at \in Nat, NEW n \in Nat, NEW len \in Nat, at + n <= len
    PROVE  /\ FieldOK(Formats!Whole(at, n), len) /\ Settable(Formats!Whole(at, n))
           /\ Formats!Whole(at, n).at = at /\ Formats!Whole(at, n).n = n
  BY EnumsOK DEF EnumOK, Formats!Whole, FieldOK, Settable, HasBits

(* A layout of nothing but whole bytes, one field behind the other.        *)
LEMMA WholesLayout ==
    ASSUME NEW F, NEW len \in Nat, NEW at \in [DOMAIN F -> Nat], NEW size \in [DOMAIN F -> Nat],
           \A n \in DOMAIN F : F[n] = Formats!Whole(at[n], size[n]) /\ at[n] + size[n] <= len,
           \A n, m \in DOMAIN F : n # m => at[n] + size[n] <= at[m] \/ at[m] + size[m] <= at[n]
    PROVE  Layout(F, len)
  <1>1. \A n \in DOMAIN F : /\ FieldOK(F[n], len) /\ Settable(F[n])
                            /\ F[n].at = at[n] /\ F[n].n = size[n]
    BY WholeOK
  <1>2. \A n, m \in DOMAIN F : n # m => Apart(F[n], F[m])
    BY <1>1 DEF Apart
  <1> QED  BY <1>1, <1>2 DEF Layout, Written

LEMMA IcmpLayout ==
    ASSUME NEW b, NEW len \in Nat, len >= 8
    PROVE  Layout(Formats!Icmp(b), len)
  <1> DEFINE F == Formats!Icmp(b)
             G == Formats!HeaderOther(b[1])
  <1>1. /\ DOMAIN F = {"kind", "checksum", "code"} \cup DOMAIN G
        /\ F["kind"] = Formats!Of(Formats!Whole(0, 1), Formats!Kind)
        /\ F["checksum"] = Formats!Whole(2, 2)
        /\ F["code"] = Formats!Of(Formats!Whole(1, 1), Formats!CodeOf(b[1]))
        /\ \A n \in DOMAIN G \ {"kind", "checksum", "code"} : F[n] = G[n]
    BY Zenon DEF Formats!Icmp
  <1>2. \/ G = [identifier |-> Formats!Whole(4, 2), sequence |-> Formats!Whole(6, 2)]
        \/ G = [pointer |-> Formats!Whole(4, 1)]
        \/ G = [other |-> Formats!Whole(4, 4)]
    BY DEF Formats!HeaderOther
  <1> HIDE DEF F, G
  <1>3. \A n \in DOMAIN F : FieldOK(F[n], len) /\ Settable(F[n])
    BY <1>1, <1>2, EnumsOK DEF Formats!Whole, Formats!Of, EnumOK, FieldOK, Settable, HasBits
  <1>4. \A n, m \in DOMAIN F : n # m => Apart(F[n], F[m])
    BY <1>1, <1>2 DEF Formats!Whole, Formats!Of, Apart
  <1>5. Layout(F, len)
    BY <1>3, <1>4 DEF Layout, Written
  <1> QED  BY <1>5 DEF F

LEMMA BroadcastLayout ==
    ASSUME NEW b \in Seq(Formats!Byte), Len(b) >= 6, 1 + 4 * b[1] <= Len(b)
    PROVE  Layout(Formats!BroadcastList(b), Len(b))
  <1> DEFINE F == Formats!BroadcastList(b)
  <1>1. b[1] \in Nat
    <2>1. b[1] \in Formats!Byte
      OBVIOUS
    <2> QED  BY <2>1, ByteIsNat
  <1>2. PICK k \in Nat, len \in Nat : k = b[1] /\ len = Len(b)
    BY <1>1
  <1>3. /\ DOMAIN F = {"addr_num", "addresses", "data"}
        /\ F["addr_num"] = Formats!Whole(0, 1)
        /\ F["addresses"] = Formats!Whole(1, 4 * k)
        /\ F["data"] = Formats!Whole(1 + 4 * k, len - 1 - 4 * k)
    BY <1>2 DEF Formats!BroadcastList
  <1> DEFINE at == [n \in DOMAIN F |->
                      CASE n = "addr_num" -> 0 [] n = "addresses" -> 1 [] OTHER -> 1 + 4 * k]
             size == [n \in DOMAIN F |->
                      CASE n = "addr_num" -> 1 [] n = "addresses" -> 4 * k [] OTHER -> len - 1 - 4 * k]
  <1> HIDE DEF F
  <1>4. at \in [DOMAIN F -> Nat] /\ size \in [DOMAIN F -> Nat]
    BY <1>2
  <1>5. \A n \in DOMAIN F : F[n] = Formats!Whole(at[n], size[n]) /\ at[n] + size[n] <= len
    BY <1>2, <1>3
  <1>6. \A n, m \in DOMAIN F : n # m => at[n] + size[n] <= at[m] \/ at[m] + size[m] <= at[n]
    BY <1>2, <1>3
  <1>7. Layout(F, len)
    BY <1>4, <1>5, <1>6, WholesLayout
  <1> QED  BY <1>2, <1>7 DEF F

(* A layout that takes so many bytes of the end of the buffer, and grows   *)
(* towards its beginning.                                                  *)
Stack(F, len, behind) ==
    \A n \in DOMAIN F : /\ FieldOK(F[n], len) /\ Settable(F[n]) /\ F[n].at >= len - behind
                        /\ \A m \in DOMAIN F \ {n} : Apart(F[n], F[m])

LEMMA StackIsLayout ==
    ASSUME NEW F, NEW len, NEW behind, Stack(F, len, behind)
    PROVE  Layout(F, len)
  BY DEF Stack, Layout, Written

LEMMA StackGrows ==
    ASSUME NEW b \in Seq(Formats!Byte), NEW len \in Nat, len = Len(b), NEW F, NEW behind \in Nat,
           Stack(F, len, behind), NEW n \in Nat, behind + n <= len, NEW name, name \notin DOMAIN F,
           NEW G, G = Formats!Join(F, Formats!FromEnd(b, name, n, behind))
    PROVE  Stack(G, len, behind + n)
  <1>1. len - behind - n \in Nat /\ (len - behind - n) + n = len - behind
    OBVIOUS
  <1>2. PICK at \in Nat : at = len - behind - n /\ at + n = len - behind
    BY <1>1
  <1>3. Formats!FromEnd(b, name, n, behind) = [x \in {name} |-> Formats!Whole(at, n)]
    BY <1>2 DEF Formats!FromEnd
  <1>4. /\ DOMAIN G = DOMAIN F \cup {name}
        /\ \A x \in DOMAIN F : G[x] = F[x]
        /\ G[name] = Formats!Whole(at, n)
    BY <1>3 DEF Formats!Join
  <1>5. /\ FieldOK(G[name], len) /\ Settable(G[name]) /\ G[name].at = at /\ G[name].n = n
    BY <1>1, <1>2, <1>4, WholeOK
  <1>6. \A x \in DOMAIN F : /\ FieldOK(G[x], len) /\ Settable(G[x]) /\ G[x].at >= len - behind
                            /\ \A m \in DOMAIN F \ {x} : Apart(G[x], G[m])
    BY <1>1, <1>4 DEF Stack
  <1>7. \A x \in DOMAIN F : /\ Apart(G[x], G[name]) /\ Apart(G[name], G[x])
                            /\ G[x].at >= len - (behind + n)
    <2> TAKE x \in DOMAIN F
    <2>1. G[x].at \in Nat /\ G[x].at >= len - behind
      BY <1>6 DEF FieldOK
    <2>2. G[x].at >= at + n /\ G[x].at >= len - (behind + n)
      BY <1>1, <1>2, <2>1
    <2> QED  BY <1>5, <2>1, <2>2 DEF Apart
  <1> QED  BY <1>1, <1>2, <1>4, <1>5, <1>6, <1>7 DEF Stack

LEMMA FingerStack ==
    ASSUME NEW b \in Seq(Formats!Byte), NEW k \in Nat, k <= Len(b)
    PROVE  DOMAIN Formats!Finger(b, k) \subseteq {"finger"} /\ Stack(Formats!Finger(b, k), Len(b), k)
  <1>1. CASE k = 0
    BY <1>1 DEF Formats!Finger, Stack
  <1>2. CASE k # 0
    <2>1. PICK at \in Nat, len \in Nat : len = Len(b) /\ at = len - 0 - k /\ at + k = len
      BY <1>2
    <2>2. Formats!Finger(b, k) = [x \in {"finger"} |-> Formats!Whole(at, k)]
      BY <1>2, <2>1 DEF Formats!Finger, Formats!FromEnd
    <2>3. FieldOK(Formats!Whole(at, k), len) /\ Settable(Formats!Whole(at, k))
          /\ Formats!Whole(at, k).at = at
      BY <2>1, WholeOK
    <2> QED  BY <2>1, <2>2, <2>3 DEF Stack
  <1> QED  BY <1>1, <1>2

(* The bodies: a finger of k bytes or none, and what comes before it.      *)
LEMMA BodyLayouts ==
    ASSUME NEW b \in Seq(Formats!Byte), NEW k \in Nat
    PROVE  /\ Len(b) >= k + 20 => /\ Layout(Formats!AeadBody(b, k), Len(b))
                                  /\ Layout(Formats!GcmBody(b, k), Len(b))
           /\ Len(b) >= k + 4 => /\ Layout(Formats!IvBody(b, k), Len(b))
                                 /\ Layout(Formats!CbcBody(b, k), Len(b))
           /\ Len(b) >= 32 => Layout(Formats!RsaBody(b), Len(b))
  <1>1. PICK len \in Nat : len = Len(b)
    OBVIOUS
  <1> DEFINE Grown(F, name, n, behind) == Formats!Join(F, Formats!FromEnd(b, name, n, behind))
             Fits(F, behind, names) == Stack(F, len, behind) /\ DOMAIN F \subseteq names
  <1>2. ASSUME NEW F, NEW m \in Nat, NEW names, Fits(F, m, names), NEW n \in Nat, m + n <= len,
               NEW name, name \notin names
        PROVE  Fits(Grown(F, name, n, m), m + n, names \cup {name})
    <2>1. name \notin DOMAIN F /\ Stack(F, len, m)
      BY <1>2
    <2>2. PICK G : G = Formats!Join(F, Formats!FromEnd(b, name, n, m))
      OBVIOUS
    <2>3. m + n <= len
      BY <1>2
    <2>4. Stack(G, len, m + n)
      BY <1>1, <2>1, <2>2, <2>3, StackGrows
    <2>5. DOMAIN G = DOMAIN F \cup {name}
      BY <2>2, Zenon DEF Formats!Join, Formats!FromEnd
    <2> QED  BY <1>2, <2>2, <2>4, <2>5
  <1>3. ASSUME NEW j \in Nat, j <= len
        PROVE  Fits(Formats!Finger(b, j), j, {"finger"})
    BY <1>1, <1>3, FingerStack
  <1> HIDE DEF Grown
  <1>4. ASSUME NEW F, NEW m \in Nat, m <= len, NEW names, Fits(F, m, names), "data" \notin names
        PROVE  Layout(Formats!Rest(b, F, m), len)
    <2>1. len - m \in Nat /\ m + (len - m) <= len
      BY <1>4
    <2>2. Stack(Grown(F, "data", len - m, m), len, m + (len - m))
      BY <1>2, <1>4, <2>1
    <2>3. Formats!Rest(b, F, m) = Grown(F, "data", len - m, m)
      BY <1>1 DEF Grown, Formats!Rest
    <2> QED  BY <2>2, <2>3, StackIsLayout
  <1> HIDE DEF Fits
  <1>5. ASSUME k + 4 <= len
        PROVE  Fits(Grown(Formats!Finger(b, k), "random", 4, k), k + 4, {"finger"} \cup {"random"})
    BY <1>2, <1>3, <1>5
  <1>6. ASSUME k + 20 <= len
        PROVE  Layout(Formats!AeadBody(b, k), len)
    <2> DEFINE G == Grown(Formats!Finger(b, k), "random", 4, k)
    <2>1. Fits(Grown(G, "tag", 16, k + 4), (k + 4) + 16, ({"finger"} \cup {"random"}) \cup {"tag"})
      <3>1. k + 4 \in Nat /\ (k + 4) + 16 <= len /\ k + 4 <= len
        BY <1>6
      <3>2. Fits(G, k + 4, {"finger"} \cup {"random"})
        BY <1>5, <3>1
      <3> HIDE DEF G
      <3> QED  BY <1>2, <3>1, <3>2
    <2>2. (k + 4) + 16 = k + 20 /\ "data" \notin ({"finger"} \cup {"random"}) \cup {"tag"}
      OBVIOUS
    <2>3. Layout(Formats!Rest(b, Grown(G, "tag", 16, k + 4), k + 20), len)
      BY <1>4, <1>6, <2>1, <2>2
    <2> QED  BY <2>3, Zenon DEF Grown, Formats!AeadBody, Formats!SecretTail
  <1>7. ASSUME k + 20 <= len
        PROVE  Layout(Formats!GcmBody(b, k), len)
    <2> DEFINE G == Grown(Formats!Finger(b, k), "tag", 16, k)
    <2>1. Fits(G, k + 16, {"finger"} \cup {"tag"})
      BY <1>2, <1>3, <1>7
    <2>2. Fits(Grown(G, "random", 4, k + 16), (k + 16) + 4, ({"finger"} \cup {"tag"}) \cup {"random"})
      BY <1>2, <1>7, <2>1, SMTT(40)
    <2>3. (k + 16) + 4 = k + 20 /\ "data" \notin ({"finger"} \cup {"tag"}) \cup {"random"}
      OBVIOUS
    <2>4. Layout(Formats!Rest(b, Grown(G, "random", 4, k + 16), k + 20), len)
      BY <1>4, <1>7, <2>2, <2>3
    <2> QED  BY <2>4, Zenon DEF Grown, Formats!GcmBody
  <1>8. ASSUME k + 4 <= len
        PROVE  Layout(Formats!IvBody(b, k), len) /\ Layout(Formats!CbcBody(b, k), len)
    <2>1. "data" \notin {"finger"} \cup {"random"}
      OBVIOUS
    <2>2. Layout(Formats!Rest(b, Grown(Formats!Finger(b, k), "random", 4, k), k + 4), len)
      BY <1>4, <1>5, <1>8, <2>1
    <2> QED  BY <2>2, Zenon DEF Grown, Formats!IvBody, Formats!CbcBody, Formats!SecretTail
  <1>9. ASSUME 32 <= len
        PROVE  Layout(Formats!RsaBody(b), len)
    <2>1. Fits(Formats!Finger(b, 16), 16, {"finger"})
      BY <1>3, <1>9
    <2>2. Fits(Grown(Formats!Finger(b, 16), "random", 16, 16), 16 + 16, {"finger"} \cup {"random"})
      <3>1. 16 + 16 <= len
        BY <1>9
      <3> QED  BY <1>2, <2>1, <3>1
    <2>3. 16 + 16 = 32 /\ "data" \notin {"finger"} \cup {"random"}
      OBVIOUS
    <2>4. Layout(Formats!Rest(b, Grown(Formats!Finger(b, 16), "random", 16, 16), 32), len)
      BY <1>4, <1>9, <2>2, <2>3
    <2> QED  BY <2>4, Zenon DEF Grown, Formats!RsaBody
  <1> QED  BY <1>1, <1>6, <1>7, <1>8, <1>9

AllFormats == Formats!Formats \cup {"igmp_v3_report"}
Sized(f, b) ==
    /\ f \in AllFormats /\ b \in Seq(Formats!Byte) /\ Len(b) >= Formats!MinLen(f)
    /\ f = "broadcast" => 1 + 4 * b[1] <= Len(b)

FixedFormats == {"ethernet", "arp", "ipv4", "udp", "tcp", "igmp_v1", "igmp_v2", "igmp_v3_query",
                 "igmp_v3_report", "ping", "addr", "compression_tail"}

LEMMA FixedFields ==
    ASSUME NEW b
    PROVE  /\ Formats!Fields("ethernet", b) = Formats!Ethernet
           /\ Formats!Fields("arp", b) = Formats!Arp
           /\ Formats!Fields("ipv4", b) = Formats!Ipv4
           /\ Formats!Fields("udp", b) = Formats!Udp
           /\ Formats!Fields("tcp", b) = Formats!Tcp
           /\ Formats!Fields("igmp_v1", b) = Formats!IgmpV1
           /\ Formats!Fields("igmp_v2", b) = Formats!IgmpV2
           /\ Formats!Fields("igmp_v3_query", b) = Formats!IgmpV3Query
           /\ Formats!Fields("igmp_v3_report", b) = Formats!IgmpV3Report
           /\ Formats!Fields("ping", b) = Formats!Ping
           /\ Formats!Fields("addr", b) = Formats!Addr
           /\ Formats!Fields("compression_tail", b) = Formats!CompressionTail
  BY DEF Formats!Fields

LEMMA OtherFields ==
    ASSUME NEW b
    PROVE  /\ Formats!Fields("icmp", b) = Formats!Icmp(b)
           /\ Formats!Fields("net", b) = Formats!Net(b)
           /\ Formats!Fields("broadcast", b) = Formats!BroadcastList(b)
           /\ Formats!Fields("aead_body", b) = Formats!AeadBody(b, 12)
           /\ Formats!Fields("aead_body_bare", b) = Formats!AeadBody(b, 0)
           /\ Formats!Fields("iv_body", b) = Formats!IvBody(b, 12)
           /\ Formats!Fields("iv_body_bare", b) = Formats!IvBody(b, 0)
           /\ Formats!Fields("gcm_body", b) = Formats!GcmBody(b, 12)
           /\ Formats!Fields("gcm_body_bare", b) = Formats!GcmBody(b, 0)
           /\ Formats!Fields("cbc_body", b) = Formats!CbcBody(b, 12)
           /\ Formats!Fields("cbc_body_bare", b) = Formats!CbcBody(b, 0)
           /\ Formats!Fields("rsa_body", b) = Formats!RsaBody(b)
  BY DEF Formats!Fields

LEMMA AllLayouts ==
    ASSUME NEW f, NEW b, Sized(f, b)
    PROVE  Layout(Formats!Fields(f, b), Len(b))
  <1>1. f \in AllFormats /\ b \in Seq(Formats!Byte) /\ Len(b) \in Nat /\ Len(b) >= Formats!MinLen(f)
    BY DEF Sized
  <1>2. CASE f \in FixedFormats
    BY <1>1, <1>2, FixedFields, FixedLayouts DEF FixedFormats, Formats!MinLen
  <1>3. CASE f = "icmp"
    BY <1>1, <1>3, OtherFields, IcmpLayout DEF Formats!MinLen
  <1>4. CASE f = "net"
    BY <1>1, <1>4, OtherFields, NetLayout DEF Formats!MinLen
  <1>5. CASE f = "broadcast"
    BY <1>1, <1>5, OtherFields, BroadcastLayout DEF Formats!MinLen, Sized
  <1>6. CASE f \in Formats!Bodies
    BY <1>1, <1>6, OtherFields, BodyLayouts DEF Formats!MinLen, Formats!Bodies
  <1> QED  BY <1>1, <1>2, <1>3, <1>4, <1>5, <1>6 DEF AllFormats, FixedFormats, Formats!Formats

(* Where a field is depends on the length and on two bytes at most.        *)
LEMMA SameFields ==
    ASSUME NEW f, NEW b, NEW c, f \in AllFormats, Len(c) = Len(b)
    PROVE  /\ f \notin {"icmp", "net", "broadcast"} => Formats!Fields(f, c) = Formats!Fields(f, b)
           /\ f \in {"icmp", "broadcast"} /\ c[1] = b[1] =>
                 Formats!Fields(f, c) = Formats!Fields(f, b)
           /\ f = "net" /\ c[2] = b[2] => Formats!Fields(f, c) = Formats!Fields(f, b)
  <1>1. CASE f \in FixedFormats
    BY <1>1, FixedFields, Zenon DEF FixedFormats
  <1>2. CASE f \in {"icmp", "broadcast"} /\ c[1] = b[1]
    <2>1. Formats!Icmp(c) = Formats!Icmp(b) /\ Formats!BroadcastList(c) = Formats!BroadcastList(b)
      BY <1>2, Zenon DEF Formats!Icmp, Formats!BroadcastList
    <2> QED  BY <1>2, <2>1, OtherFields
  <1>3. CASE f = "net" /\ c[2] = b[2]
    BY <1>3, OtherFields, SMTT(40) DEF Formats!Net
  <1>4. CASE f \in Formats!Bodies
    <2>1. \A n, name, behind : Formats!FromEnd(c, name, n, behind) = Formats!FromEnd(b, name, n, behind)
      BY DEF Formats!FromEnd
    <2>2. \A k : Formats!Finger(c, k) = Formats!Finger(b, k)
      BY <2>1 DEF Formats!Finger
    <2>3. \A F, k : Formats!Rest(c, F, k) = Formats!Rest(b, F, k)
      BY <2>1 DEF Formats!Rest
    <2>4. \A k : /\ Formats!AeadBody(c, k) = Formats!AeadBody(b, k)
                 /\ Formats!GcmBody(c, k) = Formats!GcmBody(b, k)
                 /\ Formats!IvBody(c, k) = Formats!IvBody(b, k)
                 /\ Formats!CbcBody(c, k) = Formats!CbcBody(b, k)
                 /\ Formats!RsaBody(c) = Formats!RsaBody(b)
      BY <2>1, <2>2, <2>3 DEF Formats!AeadBody, Formats!GcmBody, Formats!IvBody, Formats!CbcBody,
                              Formats!RsaBody, Formats!SecretTail
    <2> QED  BY <1>4, <2>4, OtherFields DEF Formats!Bodies
  <1> QED  BY <1>1, <1>2, <1>3, <1>4 DEF AllFormats, FixedFormats, Formats!Formats

(* The buffer is large enough for its format, and every field reads as it  *)
(* should.                                                                 *)
FormatInv ==
    /\ Sized(fmt, buf)
    /\ DOMAIN expect = DOMAIN Formats!Fields(fmt, buf)
    /\ Formats!ReadsBack

LEMMA ValuesHeld ==
    ASSUME NEW f, NEW v \in Formats!Values(f)
    PROVE  Held(f, v)
  BY Zenon DEF Formats!Values, Held

(* A write after which the fields it is about read as set, and the others, *)
(* where they are still in place, as before.                               *)
LEMMA WriteReads ==
    ASSUME FormatInv, NEW b, NEW set, NEW v, Formats!Becomes(b, set, v), Sized(fmt, b),
           blurred \subseteq blurred',
           LET was == Formats!Fields(fmt, buf)
               is == Formats!Fields(fmt, b)
           IN  \A n \in DOMAIN is \ blurred' :
                  IF n \in set THEN Formats!Get(b, is[n]) = v[n]
                  ELSE n \in DOMAIN was /\ was[n] = is[n] =>
                          Formats!Get(b, is[n]) = Formats!Get(buf, is[n])
    PROVE  FormatInv'
  <1> DEFINE was == Formats!Fields(fmt, buf)
             is == Formats!Fields(fmt, b)
  <1>1. fmt' = fmt /\ buf' = b
    BY DEF Formats!Becomes
  <1>2. expect' = [n \in DOMAIN is |-> IF n \in set THEN v[n]
                                       ELSE IF n \in DOMAIN was /\ was[n] = is[n] THEN expect[n]
                                       ELSE Formats!Get(b, is[n])]
    BY Zenon DEF Formats!Becomes
  <1>3. \A n \in DOMAIN was \ blurred : Formats!Get(buf, was[n]) = expect[n]
    BY Zenon DEF FormatInv, Formats!ReadsBack
  <1>4. \A n \in DOMAIN is \ blurred' :
           IF n \in set THEN Formats!Get(b, is[n]) = v[n]
           ELSE n \in DOMAIN was /\ was[n] = is[n] => Formats!Get(b, is[n]) = Formats!Get(buf, is[n])
    OBVIOUS
  <1>5. (Formats!Fields(fmt, buf))' = is /\ (Sized(fmt, buf))'
    BY <1>1
  <1> HIDE DEF was, is
  <1>6. DOMAIN expect' = DOMAIN is
    BY <1>2, Zenon
  <1>7. \A n \in DOMAIN is \ blurred' : Formats!Get(b, is[n]) = expect'[n]
    <2> TAKE n \in DOMAIN is \ blurred'
    <2>1. CASE n \in set
      BY <1>2, <1>4, <2>1
    <2>2. CASE n \notin set /\ n \in DOMAIN was /\ was[n] = is[n]
      <3>1. n \notin blurred
        OBVIOUS
      <3>2. expect'[n] = expect[n] /\ Formats!Get(b, is[n]) = Formats!Get(buf, is[n])
        BY <1>2, <1>4, <2>2
      <3>3. Formats!Get(buf, was[n]) = expect[n]
        BY <1>3, <2>2, <3>1
      <3> QED  BY <2>2, <3>2, <3>3
    <2>3. CASE n \notin set /\ ~(n \in DOMAIN was /\ was[n] = is[n])
      BY <1>2, <2>3
    <2> QED  BY <2>1, <2>2, <2>3
  <1> QED  BY <1>1, <1>5, <1>6, <1>7 DEF FormatInv, Formats!ReadsBack

(* A setter that masks its bits.                                           *)
LEMMA PutStep ==
    ASSUME FormatInv, NEW n \in Written(Formats!Fields(fmt, buf)),
           NEW v, Held(Formats!Fields(fmt, buf)[n], v),
           NEW b, b = Formats!Put(buf, Formats!Fields(fmt, buf)[n], v),
           n \in DOMAIN Formats!Fields(fmt, b),
           Formats!Fields(fmt, b)[n] = Formats!Fields(fmt, buf)[n],
           fmt = "broadcast" => b[1] = buf[1],
           NEW w, w[n] = v, Formats!Becomes(b, {n}, w), UNCHANGED blurred
    PROVE  FormatInv'
  <1> DEFINE was == Formats!Fields(fmt, buf)
             is == Formats!Fields(fmt, b)
  <1>1. Sized(fmt, buf) /\ buf \in Seq(Formats!Byte)
    BY DEF FormatInv, Sized
  <1>2. Layout(was, Len(buf))
    BY <1>1, AllLayouts
  <1>3. /\ FieldOK(was[n], Len(buf)) /\ Settable(was[n])
        /\ \A m \in DOMAIN was \ {n} : FieldOK(was[m], Len(buf)) /\ Apart(was[n], was[m])
    BY <1>2 DEF Layout, Written
  <1>4. b \in Seq(Formats!Byte) /\ Len(b) = Len(buf)
    BY <1>1, <1>3, PutType
  <1>5. Sized(fmt, b)
    BY <1>1, <1>4 DEF Sized
  <1>6. Formats!Get(b, was[n]) = v
    BY <1>1, <1>3, PutReads
  <1>7. \A m \in DOMAIN was \ {n} : Formats!Get(b, was[m]) = Formats!Get(buf, was[m])
    BY <1>1, <1>3, PutLeaves
  <1>8. \A m \in DOMAIN is \ blurred' :
           IF m \in {n} THEN Formats!Get(b, is[m]) = w[m]
           ELSE m \in DOMAIN was /\ was[m] = is[m] => Formats!Get(b, is[m]) = Formats!Get(buf, is[m])
    BY <1>6, <1>7
  <1> QED  BY <1>5, <1>8, WriteReads

(* The byte a format's shape depends on is written by no setter but those  *)
(* of the ICMP kind and of the protocol, which stay where they are.        *)
LEMMA SetterStays ==
    ASSUME NEW f, NEW b, Sized(f, b), NEW n \in DOMAIN Formats!Fields(f, b),
           \/ n \in Formats!Setters(f) \cup {"checksum"}
           \/ f = "net" /\ n = "version"
           \/ f = "igmp_v3_query" /\ n = "igmp_type",
           NEW v, Held(Formats!Fields(f, b)[n], v),
           NEW c, c = Formats!Put(b, Formats!Fields(f, b)[n], v)
    PROVE  /\ n \in Written(Formats!Fields(f, b))
           /\ n \in DOMAIN Formats!Fields(f, c)
           /\ Formats!Fields(f, c)[n] = Formats!Fields(f, b)[n]
           /\ f = "broadcast" => c[1] = b[1]
  <1> DEFINE F == Formats!Fields(f, b)
  <1>1. b \in Seq(Formats!Byte) /\ f \in AllFormats /\ Len(b) >= Formats!MinLen(f)
    BY DEF Sized
  <1>2. n \in Written(F)
    <2>1. n \notin {"flags", "offset", "dscp", "ecn", "s"}
      <3>1. CASE f \in {"ethernet", "arp"}
        BY <3>1, FixedFields DEF Formats!Ethernet, Formats!Arp
      <3>2. CASE f \in {"ping", "addr"}
        BY <3>2, FixedFields DEF Formats!Ping, Formats!Addr
      <3>3. CASE f \in AllFormats \ {"ethernet", "arp", "ping", "addr"}
        BY <3>3 DEF Formats!Setters, AllFormats, Formats!Formats, Formats!Bodies,
             Formats!Ipv4Setters, Formats!UdpSetters, Formats!TcpSetters, Formats!IgmpV1Setters,
             Formats!IgmpV2Setters, Formats!IgmpV3Setters, Formats!NetSetters, Formats!BodySetters,
             Formats!IgmpV2
      <3> QED  BY <1>1, <3>1, <3>2, <3>3
    <2> QED  BY <2>1 DEF Written
  <1>3. Layout(F, Len(b))
    BY AllLayouts
  <1>4. FieldOK(F[n], Len(b)) /\ Settable(F[n])
    BY <1>2, <1>3 DEF Layout, Written
  <1>5. /\ c \in Seq(Formats!Byte) /\ Len(c) = Len(b)
        /\ \A i \in 1 .. Len(b) : i \notin F[n].at + 1 .. F[n].at + F[n].n => c[i] = b[i]
    BY <1>1, <1>4, PutType
  <1>6. CASE f \notin {"icmp", "net", "broadcast"}
    BY <1>1, <1>2, <1>5, <1>6, SameFields
  <1>7. CASE f = "icmp"
    <2>1. n \in {"kind", "checksum"}
      <3>1. Formats!Setters("icmp") = {"kind"}
        BY DEF Formats!Setters, Formats!Bodies
      <3> QED  BY <1>7, <3>1
    <2>2. \A d : /\ {"kind", "checksum"} \subseteq DOMAIN Formats!Icmp(d)
                 /\ Formats!Icmp(d)["kind"] = Formats!Of(Formats!Whole(0, 1), Formats!Kind)
                 /\ Formats!Icmp(d)["checksum"] = Formats!Whole(2, 2)
      BY Zenon DEF Formats!Icmp
    <2> QED  BY <1>2, <1>7, <2>1, <2>2, OtherFields
  <1>8. CASE f = "net"
    <2>1. CASE n # "transport_protocol"
      BY <1>2, <1>8, <2>1, OtherFields DEF Formats!Net
    <2>2. CASE n = "transport_protocol"
      <3>1. F[n].at = 2 /\ F[n].n = 1
        <4>1. F[n] = Formats!Of(Formats!Whole(2, 1), Formats!TransportProtocol(b[2]))
          BY <1>8, <2>2, OtherFields DEF Formats!Net
        <4> QED  BY <4>1 DEF Formats!Of, Formats!Whole
      <3>2. Len(b) >= 12
        BY <1>1, <1>8 DEF Formats!MinLen
      <3>3. c[2] = b[2]
        BY <1>5, <3>1, <3>2
      <3> QED  BY <1>1, <1>2, <1>5, <1>8, <3>3, SameFields
    <2> QED  BY <2>1, <2>2
  <1>9. CASE f = "broadcast"
    <2>1. n = "data"
      <3>1. Formats!Setters("broadcast") = {"data"}
        BY DEF Formats!Setters, Formats!Bodies
      <3>2. DOMAIN F = {"addr_num", "addresses", "data"}
        BY <1>9, OtherFields DEF Formats!BroadcastList
      <3> QED  BY <1>9, <3>1, <3>2
    <2>2. F[n].at = 1 + 4 * b[1]
      <3>1. F[n] = Formats!Whole(1 + 4 * b[1], Len(b) - 1 - 4 * b[1])
        BY <1>9, <2>1, OtherFields DEF Formats!BroadcastList
      <3> QED  BY <3>1 DEF Formats!Whole
    <2>3. b[1] \in Nat /\ Len(b) >= 6
      <3>1. Len(b) >= 6
        BY <1>1, <1>9 DEF Formats!MinLen
      <3>2. b[1] \in Formats!Byte
        BY <1>1, <3>1
      <3> QED  BY <3>1, <3>2, ByteIsNat
    <2>4. 1 \notin F[n].at + 1 .. F[n].at + F[n].n
      BY <2>2, <2>3, <1>4, SMTT(40) DEF FieldOK
    <2>5. c[1] = b[1]
      BY <1>5, <2>3, <2>4
    <2> QED  BY <1>1, <1>2, <1>5, <1>9, <2>5, SameFields
  <1> QED  BY <1>6, <1>7, <1>8, <1>9

LEMMA SetFieldStep == FormatInv /\ Formats!SetField => FormatInv'
  <1> SUFFICES ASSUME FormatInv, Formats!SetField
               PROVE  FormatInv'
    OBVIOUS
  <1> DEFINE F == Formats!Fields(fmt, buf)
  <1>1. PICK n \in Formats!Setters(fmt) \cap DOMAIN F : \E v \in Formats!Values(F[n]) :
           /\ Formats!Writes(Formats!Put(buf, F[n], v), {n}, [x \in {n} |-> v])
           /\ UNCHANGED blurred
    BY Zenon DEF Formats!SetField
  <1>2. PICK v \in Formats!Values(F[n]) :
           /\ Formats!Writes(Formats!Put(buf, F[n], v), {n}, [x \in {n} |-> v])
           /\ UNCHANGED blurred
    BY <1>1
  <1>3. PICK b, w : /\ b = Formats!Put(buf, F[n], v) /\ w = [x \in {n} |-> v]
                    /\ Formats!Becomes(b, {n}, w)
    BY <1>2, Zenon DEF Formats!Writes
  <1>4. Held(F[n], v) /\ w[n] = v
    BY <1>3, ValuesHeld
  <1>5. /\ n \in Written(F) /\ n \in DOMAIN Formats!Fields(fmt, b)
        /\ Formats!Fields(fmt, b)[n] = F[n] /\ (fmt = "broadcast" => b[1] = buf[1])
    BY <1>3, <1>4, SetterStays DEF FormatInv
  <1> QED  BY <1>2, <1>3, <1>4, <1>5, PutStep

LEMMA SetFixedStep == FormatInv /\ Formats!SetFixed => FormatInv'
  <1> SUFFICES ASSUME FormatInv, Formats!SetFixed
               PROVE  FormatInv'
    OBVIOUS
  <1> DEFINE F == Formats!Fields(fmt, buf)
             k == IF fmt = "net" THEN 2 ELSE 17
  <1>1. PICK n \in DOMAIN F :
           /\ <<fmt, n>> \in {<<"net", "version">>, <<"igmp_v3_query", "igmp_type">>}
           /\ Formats!Writes(Formats!Put(buf, F[n], Formats!From(F[n].enum, k)), {n},
                             [x \in {n} |-> Formats!From(F[n].enum, k)])
           /\ UNCHANGED blurred
    BY Zenon DEF Formats!SetFixed
  <1>2. PICK b, w, v : /\ v = Formats!From(F[n].enum, k)
                       /\ b = Formats!Put(buf, F[n], v) /\ w = [x \in {n} |-> v]
                       /\ Formats!Becomes(b, {n}, w)
    BY <1>1, Zenon DEF Formats!Writes
  <1>3. Held(F[n], v)
    <2>1. CASE fmt = "net"
      <3>1. n = "version"
        BY <1>1, <2>1
      <3>2. F[n] = Formats!Of(Formats!Bits(0, 1, 0, 4), Formats!Version)
        BY <2>1, <3>1, OtherFields DEF Formats!Net
      <3>3. F[n].n = 1 /\ HasBits(F[n], 0, 4) /\ F[n].enum = Formats!Version
        BY <3>2 DEF Formats!Of, Formats!Bits, HasBits
      <3>4. Formats!Version # Formats!Plain
        BY DEF Formats!Version, Formats!Plain, Formats!Variants
      <3>5. 2 \in 0 .. (2^F[n].width) - 1
        BY <3>3, Weights DEF Weighs
      <3> QED  BY <1>2, <2>1, <3>3, <3>4, <3>5 DEF Held, Formats!IsNumber
    <2>2. CASE fmt = "igmp_v3_query"
      <3>1. n = "igmp_type"
        BY <1>1, <2>2
      <3>2. F[n] = Formats!Of(Formats!Whole(0, 1), Formats!IgmpV3Type)
        BY <2>2, <3>1, FixedFields DEF Formats!IgmpV3Query
      <3>3. F[n].n = 1 /\ HasBits(F[n], 0, 8) /\ F[n].enum = Formats!IgmpV3Type
        BY <3>2 DEF Formats!Of, Formats!Whole, HasBits
      <3>4. Formats!IgmpV3Type # Formats!Plain
        BY DEF Formats!IgmpV3Type, Formats!Plain, Formats!Variants
      <3>5. 17 \in 0 .. (2^F[n].width) - 1
        BY <3>3, Weights DEF Weighs
      <3> QED  BY <1>2, <2>2, <3>3, <3>4, <3>5 DEF Held, Formats!IsNumber
    <2> QED  BY <1>1, <2>1, <2>2
  <1>4. w[n] = v
    BY <1>2
  <1>5. /\ n \in Written(F) /\ n \in DOMAIN Formats!Fields(fmt, b)
        /\ Formats!Fields(fmt, b)[n] = F[n] /\ (fmt = "broadcast" => b[1] = buf[1])
    BY <1>1, <1>2, <1>3, SetterStays DEF FormatInv
  <1> QED  BY <1>1, <1>2, <1>3, <1>4, <1>5, PutStep

LEMMA FirstSetTtlStep == FormatInv /\ Formats!FirstSetTtl => FormatInv'
  <1> SUFFICES ASSUME FormatInv, Formats!FirstSetTtl
               PROVE  FormatInv'
    OBVIOUS
  <1> DEFINE F == Formats!Fields(fmt, buf)
  <1>1. PICK t \in Numbers \cap 1 .. 15 :
           Formats!Writes([buf EXCEPT ![4] = 16 * t + t], {"ttl", "source_ttl"},
                          [ttl |-> t, source_ttl |-> t])
    BY Zenon DEF Formats!FirstSetTtl
  <1>2. fmt = "net" /\ UNCHANGED blurred
    BY DEF Formats!FirstSetTtl
  <1>3. PICK b, w : /\ b = [buf EXCEPT ![4] = 16 * t + t] /\ w = [ttl |-> t, source_ttl |-> t]
                    /\ Formats!Becomes(b, {"ttl", "source_ttl"}, w)
    BY <1>1, Zenon DEF Formats!Writes
  <1>4. buf \in Seq(Formats!Byte) /\ Len(buf) >= 12
    BY <1>2 DEF FormatInv, Sized, Formats!MinLen
  <1>5. 16 * t + t \in Formats!Byte
    BY DEF Formats!Byte
  <1>6. /\ b \in Seq(Formats!Byte) /\ Len(b) = Len(buf) /\ b[4] = 16 * t + t
        /\ \A i \in 1 .. Len(buf) : i # 4 => b[i] = buf[i]
    BY <1>3, <1>4, <1>5
  <1>7. Sized(fmt, b)
    BY <1>2, <1>6 DEF FormatInv, Sized
  <1>8. Formats!Fields(fmt, b) = F
    BY <1>2, <1>4, <1>6, SameFields DEF FormatInv, Sized
  <1>9. Layout(F, Len(buf))
    BY AllLayouts DEF FormatInv
  <1>10. Formats!Get(b, F["ttl"]) = t /\ Formats!Get(b, F["source_ttl"]) = t
    <2>1. F["ttl"] = Formats!Bits(3, 1, 0, 4) /\ F["source_ttl"] = Formats!Bits(3, 1, 4, 4)
      BY <1>2, OtherFields DEF Formats!Net
    <2>2. \A f \in {F["ttl"], F["source_ttl"]} :
             f.at = 3 /\ f.n = 1 /\ f.enum = Formats!Plain /\ Formats!IsNumber(f)
      BY <2>1 DEF Formats!Bits, Formats!IsNumber
    <2>3. \A f \in {F["ttl"], F["source_ttl"]} :
             Formats!Get(b, f) = ((16 * t + t) \div 2^f.shift) % 2^f.width
      BY <1>6, <2>2 DEF Formats!Get, Formats!Number, Formats!Word
    <2>4. Weighs(F["ttl"], 1, 16) /\ Weighs(F["source_ttl"], 16, 16)
      BY <2>1, Weights DEF HasBits, Formats!Bits
    <2>5. ((16 * t + t) \div 1) % 16 = t /\ ((16 * t + t) \div 16) % 16 = t
      OBVIOUS
    <2> QED  BY <2>3, <2>4, <2>5 DEF Weighs
  <1>11. ASSUME NEW m \in DOMAIN F \ {"ttl", "source_ttl"}
         PROVE  Formats!Get(b, F[m]) = Formats!Get(buf, F[m])
    <2>1. FieldOK(F[m], Len(buf))
      BY <1>9, <1>11 DEF Layout
    <2>2. 4 \notin F[m].at + 1 .. F[m].at + F[m].n
      <3>1. F = Formats!Net(buf)
        BY <1>2, OtherFields
      <3> QED  BY <1>11, <3>1 DEF Formats!Net, Formats!Whole, Formats!Bits, Formats!Of
    <2>3. \A i \in F[m].at + 1 .. F[m].at + F[m].n : b[i] = buf[i]
      BY <1>6, <2>1, <2>2 DEF FieldOK
    <2> QED  BY <1>4, <1>6, <2>1, <2>3, GetSame DEF FieldOK
  <1> DEFINE is == Formats!Fields(fmt, b)
  <1>12. \A n \in DOMAIN is \ blurred' :
            IF n \in {"ttl", "source_ttl"} THEN Formats!Get(b, is[n]) = w[n]
            ELSE n \in DOMAIN F /\ F[n] = is[n] => Formats!Get(b, is[n]) = Formats!Get(buf, is[n])
    <2>1. w["ttl"] = t /\ w["source_ttl"] = t
      BY <1>3
    <2> QED  BY <1>8, <1>10, <1>11, <2>1
  <1>13. blurred \subseteq blurred'
    BY <1>2
  <1>14. Formats!Becomes(b, {"ttl", "source_ttl"}, w)
    BY <1>3
  <1> QED  BY <1>7, <1>12, <1>13, <1>14, WriteReads

(* Two setters do not mask their bits; what they blur is in one byte.      *)
LEMMA BlurStep ==
    ASSUME FormatInv, fmt \in {"ipv4", "igmp_v1"}, NEW at \in 1 .. 8, NEW y \in Formats!Byte,
           NEW names, NEW set, set \subseteq names, NEW v,
           \A n \in DOMAIN Formats!Fields(fmt, buf) \ names :
              at \notin Formats!Fields(fmt, buf)[n].at + 1
                          .. Formats!Fields(fmt, buf)[n].at + Formats!Fields(fmt, buf)[n].n,
           Formats!Writes([buf EXCEPT ![at] = y], set, v),
           blurred' = blurred \cup names
    PROVE  FormatInv'
  <1> DEFINE F == Formats!Fields(fmt, buf)
  <1>1. PICK b : b = [buf EXCEPT ![at] = y] /\ Formats!Becomes(b, set, v)
    BY Zenon DEF Formats!Writes
  <1>2. buf \in Seq(Formats!Byte) /\ Len(buf) >= 8
    BY DEF FormatInv, Sized, Formats!MinLen
  <1>3. /\ b \in Seq(Formats!Byte) /\ Len(b) = Len(buf)
        /\ \A i \in 1 .. Len(buf) : i # at => b[i] = buf[i]
    BY <1>1, <1>2
  <1>4. Sized(fmt, b)
    BY <1>3 DEF FormatInv, Sized
  <1>5. Formats!Fields(fmt, b) = F
    BY <1>3, SameFields DEF FormatInv, Sized
  <1>6. Layout(F, Len(buf))
    BY AllLayouts DEF FormatInv
  <1>7. ASSUME NEW m \in DOMAIN F \ names
        PROVE  Formats!Get(b, F[m]) = Formats!Get(buf, F[m])
    <2>1. FieldOK(F[m], Len(buf))
      BY <1>6, <1>7 DEF Layout
    <2>2. at \notin F[m].at + 1 .. F[m].at + F[m].n
      BY <1>7
    <2>3. \A i \in F[m].at + 1 .. F[m].at + F[m].n : b[i] = buf[i]
      BY <1>3, <2>1, <2>2 DEF FieldOK
    <2> QED  BY <1>2, <1>3, <2>1, <2>3, GetSame DEF FieldOK
  <1> DEFINE is == Formats!Fields(fmt, b)
  <1>8. \A n \in DOMAIN is \ blurred' :
           IF n \in set THEN Formats!Get(b, is[n]) = v[n]
           ELSE n \in DOMAIN F /\ F[n] = is[n] => Formats!Get(b, is[n]) = Formats!Get(buf, is[n])
    BY <1>5, <1>7
  <1> QED  BY <1>1, <1>4, <1>8, WriteReads

LEMMA SetFlagsStep == FormatInv /\ Formats!SetFlags => FormatInv'
  <1> SUFFICES ASSUME FormatInv, Formats!SetFlags
               PROVE  FormatInv'
    OBVIOUS
  <1>1. PICK v \in 0 .. 7, y \in Formats!Byte :
           Formats!Writes([buf EXCEPT ![7] = y], {"flags"}, [flags |-> v])
    BY Zenon DEF Formats!SetFlags
  <1>2. fmt = "ipv4" /\ blurred' = blurred \cup {"flags", "offset"}
    BY DEF Formats!SetFlags
  <1>3. \A n \in DOMAIN Formats!Ipv4 \ {"flags", "offset"} :
           7 \notin Formats!Ipv4[n].at + 1 .. Formats!Ipv4[n].at + Formats!Ipv4[n].n
    BY DEF Formats!Ipv4, Formats!Whole, Formats!Bits, Formats!Of
  <1>4. Formats!Fields(fmt, buf) = Formats!Ipv4
    BY <1>2, FixedFields
  <1> QED  BY <1>1, <1>2, <1>3, <1>4, BlurStep

LEMMA SetIgmpV1TypeStep == FormatInv /\ Formats!SetIgmpV1Type => FormatInv'
  <1> SUFFICES ASSUME FormatInv, Formats!SetIgmpV1Type
               PROVE  FormatInv'
    OBVIOUS
  <1>1. PICK t \in {17, 18}, y \in Formats!Byte :
           Formats!Writes([buf EXCEPT ![1] = y], {"igmp_type"},
                          [igmp_type |-> Formats!From(Formats!IgmpV1Type, t)])
    BY Zenon DEF Formats!SetIgmpV1Type
  <1>2. fmt = "igmp_v1" /\ blurred' = blurred \cup {"igmp_type", "version"}
    BY DEF Formats!SetIgmpV1Type
  <1>3. \A n \in DOMAIN Formats!IgmpV1 \ {"igmp_type", "version"} :
           1 \notin Formats!IgmpV1[n].at + 1 .. Formats!IgmpV1[n].at + Formats!IgmpV1[n].n
    BY DEF Formats!IgmpV1, Formats!Whole, Formats!Bits, Formats!Of
  <1>4. Formats!Fields(fmt, buf) = Formats!IgmpV1
    BY <1>2, FixedFields
  <1> QED  BY <1>1, <1>2, <1>3, <1>4, BlurStep

LEMMA SetAddressStep == FormatInv /\ Formats!SetAddress => FormatInv'
  <1> SUFFICES ASSUME FormatInv, Formats!SetAddress
               PROVE  FormatInv'
    OBVIOUS
  <1>1. PICK num \in Formats!Byte : \E list \in Formats!Values(Formats!Whole(1, 4 * num)) :
           /\ Len(buf) >= 1 + 4 * num
           /\ Formats!Writes([i \in DOMAIN buf |-> IF i = 1 THEN num
                                                   ELSE IF i <= 1 + 4 * num THEN list[i - 1]
                                                   ELSE buf[i]],
                             {"addr_num", "addresses"}, [addr_num |-> num, addresses |-> list])
    BY Zenon DEF Formats!SetAddress
  <1>2. PICK list \in Formats!Values(Formats!Whole(1, 4 * num)) :
           /\ Len(buf) >= 1 + 4 * num
           /\ Formats!Writes([i \in DOMAIN buf |-> IF i = 1 THEN num
                                                   ELSE IF i <= 1 + 4 * num THEN list[i - 1]
                                                   ELSE buf[i]],
                             {"addr_num", "addresses"}, [addr_num |-> num, addresses |-> list])
    BY <1>1
  <1>3. fmt = "broadcast" /\ blurred \subseteq blurred'
    BY DEF Formats!SetAddress
  <1>4. PICK b, w : /\ b = [i \in DOMAIN buf |-> IF i = 1 THEN num
                                                 ELSE IF i <= 1 + 4 * num THEN list[i - 1]
                                                 ELSE buf[i]]
                    /\ w = [addr_num |-> num, addresses |-> list]
                    /\ Formats!Becomes(b, {"addr_num", "addresses"}, w)
    BY <1>2, Zenon DEF Formats!Writes
  <1>5. buf \in Seq(Formats!Byte) /\ Len(buf) >= 6 /\ Sized(fmt, buf)
    BY <1>3 DEF FormatInv, Sized, Formats!MinLen
  <1>6. num \in 0 .. 255
    BY DEF Formats!Byte
  <1>7. list \in Seq(Formats!Byte) /\ Len(list) = 4 * num
    <2>1. Held(Formats!Whole(1, 4 * num), list)
      BY ValuesHeld
    <2>2. Formats!Whole(1, 4 * num).n = 4 * num /\ 4 * num \notin {1, 2}
      BY <1>6 DEF Formats!Whole
    <2> QED  BY <2>1, <2>2 DEF Held, Formats!IsNumber
  <1>8. /\ b \in Seq(Formats!Byte) /\ Len(b) = Len(buf) /\ b[1] = num
        /\ \A i \in 2 .. 1 + 4 * num : b[i] = list[i - 1]
        /\ \A i \in 2 + 4 * num .. Len(buf) : b[i] = buf[i]
    <2>1. \A i \in 2 .. 1 + 4 * num : i - 1 \in 1 .. Len(list) /\ i \in 1 .. Len(buf)
      BY <1>2, <1>6, <1>7
    <2>2. \A i \in 1 .. Len(buf) : b[i] \in Formats!Byte
      BY <1>4, <1>5, <1>6, <1>7, <2>1
    <2>3. b \in [1 .. Len(buf) -> Formats!Byte]
      <3>1. DOMAIN buf = 1 .. Len(buf)
        BY <1>5
      <3> QED  BY <1>4, <2>2, <3>1, Zenon
    <2>4. b \in Seq(Formats!Byte) /\ Len(b) = Len(buf)
      BY <1>5, <2>3
    <2> QED  BY <1>4, <1>5, <1>6, <1>7, <2>1, <2>4
  <1>9. Sized(fmt, b)
    BY <1>2, <1>5, <1>8 DEF Sized
  <1> DEFINE was == Formats!Fields(fmt, buf)
             is == Formats!Fields(fmt, b)
  <1>10. /\ DOMAIN is = {"addr_num", "addresses", "data"}
         /\ is["addr_num"] = Formats!Whole(0, 1) /\ is["addresses"] = Formats!Whole(1, 4 * num)
         /\ is["data"] = Formats!Whole(1 + 4 * num, Len(b) - 1 - 4 * num)
    <2>1. is = Formats!BroadcastList(b)
      BY <1>3, OtherFields
    <2>2. b[1] = num
      BY <1>8
    <2> QED  BY <2>1, <2>2 DEF Formats!BroadcastList
  <1>11. Formats!Get(b, is["addr_num"]) = num
    <2>1. LET f == Formats!Whole(0, 1) IN f.n = 1 /\ f.at = 0 /\ f.enum = Formats!Plain /\ HasBits(f, 0, 8)
      BY DEF Formats!Whole, HasBits
    <2>2. Weighs(Formats!Whole(0, 1), 1, 256)
      BY <2>1, Weights
    <2>3. (num \div 1) % 256 = num
      BY <1>6
    <2>4. Formats!Word(b, Formats!Whole(0, 1)) = num
      BY <1>8, <2>1 DEF Formats!Word
    <2>5. Formats!Number(b, Formats!Whole(0, 1)) = num
      BY <2>2, <2>3, <2>4 DEF Formats!Number, Weighs
    <2> QED  BY <1>10, <2>1, <2>5 DEF Formats!Get, Formats!IsNumber
  <1>12. Formats!Get(b, is["addresses"]) = list
    <2>1. LET f == Formats!Whole(1, 4 * num) IN f.n = 4 * num /\ f.at = 1
      BY DEF Formats!Whole
    <2>2. ~Formats!IsNumber(Formats!Whole(1, 4 * num))
      BY <1>6, <2>1 DEF Formats!IsNumber
    <2>3. SubSeq(b, 1 + 1, 1 + 4 * num) = list
      BY <1>2, <1>6, <1>7, <1>8
    <2> QED  BY <1>10, <2>1, <2>2, <2>3 DEF Formats!Get
  <1>13. "data" \in DOMAIN was /\ was["data"] = is["data"] =>
            Formats!Get(b, is["data"]) = Formats!Get(buf, is["data"])
    <2> SUFFICES ASSUME "data" \in DOMAIN was, was["data"] = is["data"]
                 PROVE  Formats!Get(b, is["data"]) = Formats!Get(buf, is["data"])
      OBVIOUS
    <2>1. FieldOK(is["data"], Len(buf))
      BY <1>5, AllLayouts DEF Layout
    <2>2. is["data"].at = 1 + 4 * num
      BY <1>10 DEF Formats!Whole
    <2>3. PICK f : f = is["data"]
      OBVIOUS
    <2>4. f.at = 1 + 4 * num /\ f.n \in Nat /\ f.at + f.n <= Len(buf)
      BY <2>1, <2>2, <2>3 DEF FieldOK
    <2>5. \A i \in f.at + 1 .. f.at + f.n : i \in 2 + 4 * num .. Len(buf)
      BY <1>5, <1>6, <2>4
    <2>6. \A i \in f.at + 1 .. f.at + f.n : b[i] = buf[i]
      BY <1>8, <2>5, Zenon
    <2> HIDE DEF is
    <2> QED  BY <1>5, <1>8, <2>1, <2>3, <2>4, <2>6, GetSame
  <1>14. \A n \in DOMAIN is \ blurred' :
            IF n \in {"addr_num", "addresses"} THEN Formats!Get(b, is[n]) = w[n]
            ELSE n \in DOMAIN was /\ was[n] = is[n] => Formats!Get(b, is[n]) = Formats!Get(buf, is[n])
    <2>1. w["addr_num"] = num /\ w["addresses"] = list
      BY <1>4
    <2> HIDE DEF is, was
    <2> QED  BY <1>10, <1>11, <1>12, <1>13, <2>1
  <1> QED  BY <1>3, <1>4, <1>9, <1>14, WriteReads

LEMMA ChecksumField ==
    ASSUME NEW f \in Formats!Summed, NEW b
    PROVE  /\ "checksum" \in DOMAIN Formats!Fields(f, b)
           /\ \E at : Formats!Fields(f, b)["checksum"] = Formats!Whole(at, 2)
  <1>1. CASE f = "icmp"
    <2>1. "checksum" \in DOMAIN Formats!Icmp(b) /\ Formats!Icmp(b)["checksum"] = Formats!Whole(2, 2)
      BY Zenon DEF Formats!Icmp
    <2> QED  BY <1>1, <2>1, OtherFields
  <1>2. CASE f = "ipv4"
    BY <1>2, FixedFields DEF Formats!Ipv4
  <1>3. CASE f = "udp"
    BY <1>3, FixedFields DEF Formats!Udp
  <1>4. CASE f = "tcp"
    BY <1>4, FixedFields DEF Formats!Tcp
  <1>5. CASE f = "igmp_v1"
    BY <1>5, FixedFields DEF Formats!IgmpV1
  <1>6. CASE f = "igmp_v2"
    BY <1>6, FixedFields DEF Formats!IgmpV2
  <1>7. CASE f = "igmp_v3_query"
    BY <1>7, FixedFields DEF Formats!IgmpV3Query
  <1>8. CASE f = "igmp_v3_report"
    BY <1>8, FixedFields DEF Formats!IgmpV3Report
  <1> QED  BY <1>1, <1>2, <1>3, <1>4, <1>5, <1>6, <1>7, <1>8 DEF Formats!Summed

(* A checksum fits into its two bytes.                                     *)
LEMMA U16Held ==
    ASSUME NEW f, f.n = 2, HasBits(f, 0, 16), f.enum = Formats!Plain, NEW s \in Formats!U16
    PROVE  Held(f, s)
  <1>1. f.width = 16
    BY DEF HasBits
  <1>2. s \in 0 .. 2^f.width - 1
    BY <1>1, Zenon DEF Formats!U16
  <1>3. Formats!IsNumber(f)
    BY DEF Formats!IsNumber
  <1> QED  BY <1>2, <1>3, Zenon DEF Held

LEMMA UpdateChecksumStep == FormatInv /\ Formats!UpdateChecksum => FormatInv'
  <1> SUFFICES ASSUME FormatInv, Formats!UpdateChecksum
               PROVE  FormatInv'
    OBVIOUS
  <1> DEFINE F == Formats!Fields(fmt, buf)
             f == F.checksum
             s == Formats!Checksum(fmt, Formats!Put(buf, f, 0), ends)
  <1>1. /\ fmt \in Formats!Summed /\ s \in Formats!U16
        /\ Formats!Becomes(Formats!Put(buf, f, s), {"checksum"}, [checksum |-> s])
        /\ UNCHANGED blurred
    BY DEF Formats!UpdateChecksum
  <1> HIDE DEF s
  <1>2. PICK b, w : /\ b = Formats!Put(buf, f, s) /\ w = [checksum |-> s]
                    /\ Formats!Becomes(b, {"checksum"}, w)
    BY <1>1
  <1>3. PICK at : "checksum" \in DOMAIN F /\ f = Formats!Whole(at, 2)
    BY <1>1, ChecksumField
  <1>4. f.n = 2 /\ HasBits(f, 0, 16) /\ f.enum = Formats!Plain
    BY <1>3 DEF Formats!Whole, HasBits
  <1>5. Held(f, s)
    BY <1>1, <1>4, U16Held
  <1>6. w["checksum"] = s
    BY <1>2
  <1>7. /\ "checksum" \in Written(F) /\ "checksum" \in DOMAIN Formats!Fields(fmt, b)
        /\ Formats!Fields(fmt, b)["checksum"] = f /\ (fmt = "broadcast" => b[1] = buf[1])
    BY <1>2, <1>3, <1>5, SetterStays DEF FormatInv
  <1>8. Formats!Becomes(b, {"checksum"}, w) /\ UNCHANGED blurred
    BY <1>1, <1>2
  <1> QED  BY <1>2, <1>5, <1>6, <1>7, <1>8, PutStep

LEMMA TruncateStep == FormatInv /\ Formats!Truncate => FormatInv'
  <1> SUFFICES ASSUME FormatInv, Formats!Truncate
               PROVE  FormatInv'
    OBVIOUS
  <1> DEFINE F == Formats!IgmpV3Report
  <1>1. /\ fmt = "igmp_v3_report" /\ Len(buf) > 8 /\ buf' = SubSeq(buf, 1, Len(buf) - 1)
        /\ UNCHANGED <<fmt, expect, blurred>>
    BY DEF Formats!Truncate
  <1>2. buf \in Seq(Formats!Byte)
    BY DEF FormatInv, Sized
  <1>3. /\ buf' \in Seq(Formats!Byte) /\ Len(buf') = Len(buf) - 1
        /\ \A i \in 1 .. Len(buf) - 1 : buf'[i] = buf[i]
    BY <1>1, <1>2
  <1>4. \A b : Formats!Fields(fmt, b) = F
    BY <1>1, FixedFields
  <1>5. (Formats!Fields(fmt, buf))' = F
    BY <1>1, FixedFields
  <1>6. Formats!MinLen(fmt) = 8
    BY <1>1 DEF Formats!MinLen
  <1>7. (Sized(fmt, buf))'
    BY <1>1, <1>3, <1>6 DEF FormatInv, Sized
  <1>8. ASSUME NEW n \in DOMAIN F
        PROVE  Formats!Get(buf', F[n]) = Formats!Get(buf, F[n])
    <2> DEFINE b == buf'
    <2>1. FieldOK(F[n], 8) /\ FieldOK(F[n], Len(buf))
      BY <1>1, <1>2, <1>8, FixedLayouts DEF Layout
    <2>2. /\ b \in Seq(Formats!Byte) /\ F[n].at + F[n].n <= Len(b)
          /\ \A i \in F[n].at + 1 .. F[n].at + F[n].n : b[i] = buf[i]
      BY <1>1, <1>2, <1>3, <2>1 DEF FieldOK
    <2> HIDE DEF b
    <2>3. Formats!Get(b, F[n]) = Formats!Get(buf, F[n])
      BY <1>2, <2>1, <2>2, GetSame
    <2> QED  BY <2>3 DEF b
  <1> QED  BY <1>1, <1>4, <1>5, <1>7, <1>8 DEF FormatInv, Formats!ReadsBack

LEMMA FormatInvInit == Formats!FormatInit => FormatInv
  <1> SUFFICES ASSUME Formats!FormatInit
               PROVE  FormatInv
    OBVIOUS
  <1>1. fmt \in AllFormats /\ Formats!Accepted(fmt, buf) /\ expect = Formats!Read(fmt, buf)
    BY Zenon DEF Formats!FormatInit, AllFormats
  <1>2. Sized(fmt, buf)
    BY <1>1 DEF Formats!Accepted, Formats!New, Sized
  <1> QED  BY <1>1, <1>2, Zenon DEF FormatInv, Formats!Read, Formats!ReadsBack

LEMMA FormatInvNext == FormatInv /\ [Formats!FormatNext]_Formats!formatVars => FormatInv'
  <1> SUFFICES ASSUME FormatInv, [Formats!FormatNext]_Formats!formatVars
               PROVE  FormatInv'
    OBVIOUS
  <1>1. CASE UNCHANGED Formats!formatVars
    BY <1>1, Zenon DEF Formats!formatVars, FormatInv, Formats!ReadsBack
  <1>2. CASE Formats!FormatNext
    BY <1>2, SetFieldStep, SetFixedStep, FirstSetTtlStep, SetFlagsStep, SetIgmpV1TypeStep,
       SetAddressStep, UpdateChecksumStep, TruncateStep, Zenon DEF Formats!FormatNext
  <1> QED  BY <1>1, <1>2

(* Whatever buffers, numbers and strings there are and however many        *)
(* setters a handler calls, a field reads as it was set last, or as it was *)
(* before anything was set.                                                *)
THEOREM FieldsReadBack == Formats!FormatSpec => []ReadsBack
  <1>1. FormatInv => ReadsBack
    BY DEF FormatInv, ReadsBack
  <1> QED  BY FormatInvInit, FormatInvNext, <1>1, PTL DEF Formats!FormatSpec
=============================================================================
