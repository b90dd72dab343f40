---------------------------- MODULE MCDataPath -----------------------------
(***************************************************************************)
(* The data plane in one run: the data path between clients, the proxies   *)
(* of an exit node, the packets both of them read and write, and the       *)
(* connections that carry them where UDP is not used.  The four share no   *)
(* state, so each behaviour is one of a single part, chosen at the start,  *)
(* and the others rest: what the parts do to each other is the             *)
(* interleaving of independent steps.                                      *)
(***************************************************************************)
EXTENDS DataPlane

CONSTANTS Conns, RouteKeys, QueueCap, ConnectCap, RebindInterval, MaxBreaks

VARIABLES
    part,
    proto, status, defaultKey, gateway, attempts, timer, connects, packetMap, conn, breaks

Stream == INSTANCE StreamChannel

relayVars == vars
proxyVars == <<load, sent, natMap, toProxy, handling, innerMap, tasks, streams, outside, replies,
               toDevice, atClient, icmpMap, faults>>
formatVars == <<fmt, buf, ends, expect, blurred, fresh, writes>>
streamVars == <<proto, status, defaultKey, gateway, attempts, timer, connects, packetMap,
                conn, breaks>>

All(v) == [n \in Nodes |-> v]
Default == [model |-> "aes_gcm", key |-> "k1", finger |-> "token", build |-> "rust"]

Base ==
    [cipher |-> All(Default), serverCipher |-> ServerCipher("ks", "token"),
     compressor |-> All("none"), wireGuard |-> FALSE,
     ipRoute |-> All(None), exits |-> All(FALSE),
     relays |-> All(TRUE), wander |-> FALSE,
     readers |-> {"a"}, maxReads |-> 1, dsts |-> {"b"}]

(* To everybody and everything, with and without WireGuard peers.          *)
Everywhere ==
    {[Base EXCEPT !.compressor = All("lz4"), !.wireGuard = w,
                  !.dsts = Nodes \cup {Gateway, Broadcast, Multicast, WgPeer}] :
        w \in BOOLEAN}

(* One packet after another through the same buffers.                      *)
Reused ==
    {[Base EXCEPT !.compressor = All(z), !.maxReads = 2, !.wireGuard = TRUE,
                  !.dsts = {"b", Gateway, WgPeer}] :
        z \in {"none", "zstd"}}

(* Routes of any length through any client.                                *)
Wandering == {[Base EXCEPT !.wander = TRUE, !.relays = [r EXCEPT !["a"] = TRUE]] :
                 r \in {All(TRUE), [All(TRUE) EXCEPT !["d"] = FALSE]}}

(* To the outside.                                                         *)
Exits == {[Base EXCEPT !.ipRoute = All(x), !.exits = [n \in Nodes |-> n \in out],
                       !.dsts = {Outside}] :
             x \in {None, "a", "b"}, out \in {{}, {"b"}}}

(* Every cipher, with every other one at the peers, who are built another   *)
(* way.                                                                    *)
Mixed == {[Base EXCEPT !.cipher = [All(other) EXCEPT !["a"] = mine], !.compressor = All("lz4"),
                       !.dsts = IF Same(mine, other) THEN {"b", Broadcast} ELSE {"b"}] :
             mine \in Ciphers({"k1"}, {"token"}, {"native"}),
             other \in Ciphers({"k1", "k2"}, {"token"}, {"rust"})}

TheConfigs == {Base} \cup Everywhere \cup Reused \cup Wandering \cup Exits \cup Mixed

-----------------------------------------------------------------------------
(* Two clients at one port number each, one with a second destination, or  *)
(* each with its own; pings that share a destination or all of the key.    *)
Talk(a, b) == [s \in Clients \X Ports |-> IF s[1] = "a" THEN a ELSE b]
Pinging == [proto |-> "icmp", talks |-> Talk({}, {}),
            pings |-> {<<"a", "x", 1>>, <<"b", "x", 2>>, <<"a", "x", 2>>}]
TheLoads ==
    [proto : {"tcp", "udp"}, talks : {Talk({"x", "y"}, {}), Talk({"x"}, {"z"})}, pings : {{}}]
    \cup {Pinging}

-----------------------------------------------------------------------------
(* Buffers with whatever was in them, as short as new takes them and a bit *)
(* longer; numbers and names at the edges of what fields hold.             *)
Heads(f) == CASE f = "ipv4" -> {69, 70}
              [] f = "icmp" -> {8, 3, 12}
              [] OTHER -> {1}
Shortest ==
    [ethernet |-> 14, arp |-> 28, ipv4 |-> 20, udp |-> 8, tcp |-> 20, icmp |-> 8,
     igmp_v1 |-> 8, igmp_v2 |-> 8, igmp_v3_query |-> 12,
     net |-> 12, ping |-> 4, addr |-> 6, compression_tail |-> 4, broadcast |-> 6,
     aead_body |-> 32, aead_body_bare |-> 20, gcm_body |-> 32, gcm_body_bare |-> 20,
     iv_body |-> 16, iv_body_bare |-> 4, cbc_body |-> 16, cbc_body_bare |-> 4, rsa_body |-> 32]
BuffersOf(f) ==
    {[i \in 1 .. n |-> IF i = 1 THEN h ELSE IF full THEN 255 ELSE i % 256] :
        n \in {Shortest[f], Shortest[f] + 5}, h \in Heads(f), full \in BOOLEAN}
TheBuffers == UNION {{f} \X BuffersOf(f) : f \in DOMAIN Shortest}
TheNumbers == {0, 1, 3, 7, 15, 17, 255, 2048, 65535}
TheStrings ==
    UNION {{[i \in 1 .. n |-> 0], [i \in 1 .. n |-> 200 + (i % 50)]} : n \in 0 .. 37}

-----------------------------------------------------------------------------
(* A part that is not chosen rests in one of its initial states; the       *)
(* connections rest closed, with nothing to reconnect for.                 *)
Resting ==
    /\ part = "relay" \/ (part # "relay" /\ cfg = Base)
    /\ part = "proxy" \/ (part # "proxy" /\ load = Pinging)
    /\ \/ part = "formats"
       \/ part # "formats" /\ fmt = "ping" /\ buf = <<1, 2, 3, 4>>
    /\ IF part = "stream" THEN Stream!StreamInit ELSE Stream!StreamRests

PlaneInit ==
    /\ part \in {"relay", "proxy", "formats", "stream"}
    /\ Resting
    /\ Init /\ Proxy!ProxyInit /\ Formats!FormatInit

PlaneNext ==
    /\ UNCHANGED part
    /\ \/ part = "relay" /\ Next /\ UNCHANGED <<proxyVars, formatVars, streamVars>>
       \/ part = "proxy" /\ Proxy!ProxyNext /\ UNCHANGED <<relayVars, formatVars, streamVars>>
       \/ part = "formats" /\ Formats!FormatNext /\ UNCHANGED <<relayVars, proxyVars, streamVars>>
       \/ part = "stream" /\ Stream!StreamNext /\ UNCHANGED <<relayVars, proxyVars, formatVars>>

(* The fairness of the parts; a resting part has nothing enabled that it   *)
(* would be owed.                                                          *)
PlaneSpec ==
    /\ PlaneInit /\ [][PlaneNext]_<<part, relayVars, proxyVars, formatVars, streamVars>>
    /\ WF_vars(Arrives)
    /\ Proxy!ProxyFairness
    /\ Stream!StreamFairness

-----------------------------------------------------------------------------
(* A report is taken apart into the records it was made of, or not at all. *)
RecordsFound == Formats!RecordsFound

(* A packet whose checksum was updated last is accepted, whatever was      *)
(* written, at odd lengths and at sums that carry more than once too.      *)
ChecksumRight == Formats!ChecksumRight

(* A client that lost its server over TCP or WebSocket gets connected      *)
(* again, whatever connections break, come late or are given up.           *)
StreamReconnects == Stream!StreamReconnects

(* A connection that nobody can send to any more ends with both its tasks, *)
(* also if its entry was removed under a descriptor that was used again.   *)
OrphansEnd == Stream!OrphansEnd
=============================================================================
