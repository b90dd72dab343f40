---------------------------- MODULE ChannelTable ----------------------------
(***************************************************************************)
(* What a client's routing table means to those who use it: a set of the   *)
(* channels each address can be reached through, at most one per RouteKey, *)
(* which changes by one insertion, one measurement or one expiry at a      *)
(* time.  There are no lists, locks or clocks here.                        *)
(***************************************************************************)
EXTENDS Naturals

CONSTANTS Ids, Keys, Metrics, Rts, DEFAULT_RT

VARIABLES
    firstLatency,  \* --first-latency: latency counts, not the length of the path
    table          \* the channels

vars == <<firstLatency, table>>

Channel == [id : Ids, key : Keys, metric : Metrics, rt : Rts \cup {DEFAULT_RT}]

SameChannel(c, d) == c.id = d.id /\ c.key = d.key

Init == firstLatency \in BOOLEAN /\ table = {}

(* A new channel, measured or not, is let in if no path of its address is  *)
(* shorter, and a direct one sends the relayed ones away.                  *)
Insert(c) ==
    /\ \A d \in table : ~SameChannel(c, d)
    /\ ~firstLatency => \A d \in table : d.id = c.id => c.metric <= d.metric
    /\ LET sentAway == {d \in table : /\ ~firstLatency /\ c.metric = 1
                                      /\ d.id = c.id /\ d.metric # 1}
       IN  table' = (table \ sentAway) \cup {c}

(* A channel that is there is measured again, but not over a longer path.  *)
Measure(c) ==
    /\ c.rt \in Rts
    /\ \E d \in table :
          /\ SameChannel(c, d)
          /\ ~firstLatency => c.metric <= d.metric
          /\ table' = (table \ {d}) \cup {c}

Expire(c) == c \in table /\ table' = table \ {c}

Next ==
    /\ \E c \in Channel : Insert(c) \/ Measure(c) \/ Expire(c)
    /\ UNCHANGED firstLatency

Spec == Init /\ [][Next]_vars
=============================================================================
