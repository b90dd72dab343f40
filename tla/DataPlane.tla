----------------------------- MODULE DataPlane ------------------------------
(***************************************************************************)
(* The two halves of the data plane that carry the users' packets: Relay   *)
(* between clients, and on an exit node IpProxy between clients and hosts  *)
(* outside; and the formats both of them read and write.  They share no    *)
(* state.                                                                  *)
(***************************************************************************)
EXTENDS Relay

CONSTANTS
    Clients, Ports, Loads, MaxFlight, MaxFaults,
    Buffers, Numbers, Strings, MaxWrites

VARIABLES
    load, sent, natMap, toProxy, handling, innerMap, tasks, streams, outside, replies, toDevice,
    atClient, icmpMap, faults,
    fmt, buf, ends, expect, blurred, fresh, writes

Proxy == INSTANCE IpProxy
Formats == INSTANCE PacketFormats

(* The exit node's traffic is such as recv_handle is called with.          *)
ASSUME LoadsAssumption == Proxy!SaneLoads

(* A packet leaves an exit node for the destination it bears, whatever     *)
(* clients share port numbers and whichever sockets came and went; or, of  *)
(* a sender with several destinations at one port, for one it has sent to  *)
(* since, or one its UDP socket is still open for.                         *)
NotAstray == Proxy!NotAstray

(* What comes back to a client answers its own packets, from an address it *)
(* has sent to, with the proxies' entries replaced and removed meanwhile.  *)
AnswersComeBack == Proxy!AnswersComeBack

(* A client that keeps sending to one destination is answered, again and   *)
(* again, once the proxies' tasks and connections stop failing.            *)
AnsweredInTheEnd == Proxy!AnsweredInTheEnd

(* A field written reads back, and no other one has changed, whatever was  *)
(* written before.                                                         *)
ReadsBack == Formats!ReadsBack
=============================================================================
