----------------------------- MODULE PunchProofs -----------------------------
(* Proofs about Punch, for any number of channels and any bounds.          *)
EXTENDS Punch, FiniteSetTheorems, TLAPS

(* The number of a client's routes is a natural number.                    *)
LEMMA RoutesCounted ==
    ASSUME NEW rs \in SUBSET Route
    PROVE  IsFiniteSet(rs) /\ Cardinality(rs) \in Nat
<1>1. IsFiniteSet(BOOLEAN)
  <2>1. BOOLEAN = {TRUE, FALSE}
    OBVIOUS
  <2>2. IsFiniteSet({TRUE})
    BY FS_Singleton
  <2>3. IsFiniteSet({TRUE} \cup {FALSE})
    BY <2>2, FS_AddElement
  <2> QED BY <2>1, <2>3
<1>2. IsFiniteSet(Channels \X BOOLEAN)
  BY <1>1, FS_Product, PunchAssumption
<1>3. IsFiniteSet(Route)
  <2> DEFINE f == [t \in Channels \X BOOLEAN |-> [channel |-> t[1], alive |-> t[2]]]
  <2>1. f \in [Channels \X BOOLEAN -> Route]
    BY DEF Route
  <2>2. \A r \in Route : \E t \in Channels \X BOOLEAN : f[t] = r
    <3> SUFFICES ASSUME NEW r \in Route
                 PROVE  \E t \in Channels \X BOOLEAN : f[t] = r
      OBVIOUS
    <3>1. <<r.channel, r.alive>> \in Channels \X BOOLEAN
      BY DEF Route
    <3>2. f[<<r.channel, r.alive>>] = [channel |-> r.channel, alive |-> r.alive]
      BY <3>1
    <3>3. r = [channel |-> r.channel, alive |-> r.alive]
      BY DEF Route
    <3> QED BY <3>1, <3>2, <3>3
  <2>3. f \in Surjection(Channels \X BOOLEAN, Route)
    BY <2>1, <2>2 DEF Surjection
  <2> QED BY <1>2, <2>3, FS_Surjection
<1> QED BY <1>3, FS_Subset, FS_CardinalityType

-----------------------------------------------------------------------------
(* TypeCorrect: the state stays in its type.  last_p2p_num stays below the *)
(* number of channels because only a peer that lacks some is punched.      *)
THEOREM TypeCorrect == Spec => []TypeOK
<1> USE DEF Clients, Peer, paths
<1>0. ChannelNums \subseteq Nat \ {0}
  <2>1. Cardinality(Channels) \in Nat \ {0}
    BY PunchAssumption, FS_CardinalityType, FS_EmptySet
  <2> QED  BY <2>1, PunchAssumption
<1>1. Init => TypeOK
  BY <1>0, PunchAssumption DEF Init, TypeOK
<1>2. TypeOK /\ [Next]_vars => TypeOK'
  <2> SUFFICES ASSUME TypeOK, [Next]_vars PROVE TypeOK'
    OBVIOUS
  <2> USE PunchAssumption DEF TypeOK
  <2>1. CASE RoundSkipped
    BY <2>1 DEF RoundSkipped, NextRound, Pauses, AtMost
  <2>2. CASE RoundIdle
    BY <2>2 DEF RoundIdle, NextRound, Pauses, AtMost
  <2>3. CASE RoundPunches
    <3>1. lastP2pNum' \in 0..(channelNum' - 1)
      <4>1. P2pNum("A") \in Nat
        BY RoutesCounted DEF P2pNum
      <4>2. ~(P2pNum("A") >= channelNum)
        BY <2>3 DEF RoundPunches, Enough
      <4>3. lastP2pNum' = P2pNum("A") \/ lastP2pNum' = lastP2pNum
        BY <2>3 DEF RoundPunches, Pauses
      <4>4. channelNum' = channelNum /\ channelNum \in ChannelNums
        BY <2>3 DEF RoundPunches, NextRound
      <4> QED BY <4>1, <4>2, <4>3, <4>4, <1>0
    <3>2. wait' \in 0..(MaxIntervalP2p + 1)
      <4>1. 1 \in 0..(MaxIntervalP2p + 1)
        OBVIOUS
      <4>2. wait' = 1 \/ wait' = AtMost(wait + 1, MaxIntervalP2p + 1)
        BY <2>3 DEF RoundPunches, Pauses
      <4> QED BY <4>1, <4>2 DEF AtMost
    <3>3. total' \in 0..EarlyRounds
      BY <2>3 DEF RoundPunches, NextRound, AtMost
    <3>4. record' \in 0..MaxRecord
      <4>1. record' = 0 \/ record' = record
        BY <2>3 DEF RoundPunches
      <4> QED BY <4>1
    <3>5. signals' \subseteq {"request", "reply"}
      BY <2>3 DEF RoundPunches, Pauses
    <3>6. UNCHANGED <<online, worker, packets, hole, routes, paths, drops>>
      BY <2>3 DEF RoundPunches, NextRound
    <3> QED BY <3>1, <3>2, <3>3, <3>4, <3>5, <3>6
  <2>4. CASE ReceiveRequest
    BY <2>4 DEF ReceiveRequest, HandOver
  <2>5. CASE ReceiveReply
    BY <2>5 DEF ReceiveReply, HandOver
  <2>6. ASSUME NEW s \in signals, LoseSignal(s) PROVE TypeOK'
    BY <2>6 DEF LoseSignal
  <2>7. ASSUME NEW c \in Clients, PunchStart(c) PROVE TypeOK'
    <3>1. packets' \in [Clients -> [Channels -> Packet \cup {None}]]
      <4>1. Message("PunchRequest", TRUE) \in Packet
        BY DEF Message, Packet
      <4> DEFINE row == [k \in Channels |-> Message("PunchRequest", TRUE)]
      <4>2. row \in [Channels -> Packet \cup {None}]
        BY <4>1
      <4> HIDE DEF row
      <4>3. [packets EXCEPT ![Peer(c)] = row]
               \in [Clients -> [Channels -> Packet \cup {None}]]
        BY <4>2
      <4>4. packets' = packets \/ packets' = [packets EXCEPT ![Peer(c)] = row]
        BY <2>7 DEF PunchStart, row
      <4> QED BY <4>3, <4>4
    <3>2. record' \in 0..MaxRecord
      BY <2>7 DEF PunchStart, AtMost
    <3>3. worker' \in [Clients -> {"waits", "punches"}] /\ hole' \subseteq Clients
      BY <2>7 DEF PunchStart
    <3> QED BY <2>7, <3>1, <3>2, <3>3 DEF PunchStart
  <2>8. ASSUME NEW c \in Clients, NEW k \in Channels, ReceivePunchRequest(c, k)
        PROVE TypeOK'
    <3>1. packets[c][k] \in Packet
      BY <2>8 DEF ReceivePunchRequest, Arrives
    <3>2. Message("PunchResponse", packets[c][k].fresh) \in Packet
      BY <3>1 DEF Message, Packet
    <3> QED BY <2>8, <3>2 DEF ReceivePunchRequest
  <2>9. ASSUME NEW c \in Clients, NEW k \in Channels, ReceivePunchResponse(c, k)
        PROVE TypeOK'
    <3>1. packets[c][k] \in Packet
      BY <2>9 DEF ReceivePunchResponse, Arrives
    <3>2. [channel |-> k, alive |-> packets[c][k].fresh] \in Route
      BY <3>1 DEF Packet, Route
    <3> QED BY <2>9, <3>2 DEF ReceivePunchResponse
  <2>10. ASSUME NEW c \in Clients, NEW k \in Channels, LosePacket(c, k)
         PROVE TypeOK'
    BY <2>10 DEF LosePacket
  <2>11. ASSUME NEW c \in Clients, NEW k \in Channels, Heartbeat(c, k)
         PROVE TypeOK'
    BY <2>11 DEF Heartbeat, Route
  <2>12. ASSUME NEW c \in Clients, NEW k \in Channels, Expire(c, k)
         PROVE TypeOK'
    BY <2>12 DEF Expire
  <2>13. ASSUME NEW c \in Clients, NatForgets(c) PROVE TypeOK'
    <3>1. routes' \in [Clients -> SUBSET Route]
      <4>1. ASSUME NEW d \in Clients
            PROVE  {[channel |-> r.channel, alive |-> FALSE] : r \in routes[d]}
                      \in SUBSET Route
        <5>1. routes[d] \in SUBSET Route
          OBVIOUS
        <5>2. ASSUME NEW r \in routes[d]
              PROVE  [channel |-> r.channel, alive |-> FALSE] \in Route
          <6>1. r \in Route
            BY <5>1
          <6> QED BY <6>1 DEF Route
        <5> QED BY <5>2
      <4>2. routes' = [d \in Clients |->
               {[channel |-> r.channel, alive |-> FALSE] : r \in routes[d]}]
        BY <2>13 DEF NatForgets
      <4> QED BY <4>1, <4>2
    <3>2. packets' \in [Clients -> [Channels -> Packet \cup {None}]]
      <4> DEFINE old(d, k) == IF d = c \/ packets[d][k] = None THEN None
                              ELSE Message(packets[d][k].kind, FALSE)
      <4>1. ASSUME NEW d \in Clients, NEW k \in Channels
            PROVE  old(d, k) \in Packet \cup {None}
        <5>1. packets[d][k] \in Packet \cup {None}
          OBVIOUS
        <5> QED BY <5>1 DEF Packet, Message
      <4>2. packets' = [d \in Clients |-> [k \in Channels |-> old(d, k)]]
        BY <2>13 DEF NatForgets
      <4> HIDE DEF old
      <4> QED BY <4>1, <4>2
    <3>3. drops' \in 0..MaxDrops /\ hole' \subseteq Clients
      BY <2>13 DEF NatForgets
    <3>4. UNCHANGED <<total, record, wait, lastP2pNum, online, signals, worker,
                      paths>>
      BY <2>13 DEF NatForgets
    <3> QED BY <3>1, <3>2, <3>3, <3>4
  <2>14. CASE StatusChanges
    BY <2>14 DEF StatusChanges
  <2>15. CASE UNCHANGED vars
    BY <2>15 DEF vars
  <2> QED BY <2>1, <2>2, <2>3, <2>4, <2>5, <2>6, <2>7, <2>8, <2>9, <2>10,
             <2>11, <2>12, <2>13, <2>14, <2>15 DEF Next, Round
<1> QED BY <1>1, <1>2, PTL DEF Spec

-----------------------------------------------------------------------------
(* What makes TwoWay inductive: a PunchResponse on its way shows that its  *)
(* sender was reached.                                                     *)
ResponseReached ==
    \A c \in Clients, k \in Channels :
        packets[c][k] # None /\ packets[c][k].kind = "PunchResponse"
            => Peer(c) \notin blocked

(* RoutesTwoWay: a client has a direct route only if neither side is       *)
(* blocked, for any number of channels.                                    *)
THEOREM RoutesTwoWay == Spec => []TwoWay
<1> DEFINE IInv == TwoWay /\ ResponseReached
<1> USE DEF Clients, Peer, paths, TwoWay, ResponseReached
<1>1. Init => IInv
  BY DEF Init
<1>2. TypeOK /\ IInv /\ [Next]_vars => IInv'
  <2> SUFFICES ASSUME TypeOK, IInv, [Next]_vars PROVE IInv'
    OBVIOUS
  <2> USE DEF TypeOK
  <2>1. CASE Round
    BY <2>1 DEF Round, RoundSkipped, RoundIdle, RoundPunches, NextRound
  <2>2. CASE ReceiveRequest \/ ReceiveReply \/ StatusChanges
    BY <2>2 DEF ReceiveRequest, ReceiveReply, StatusChanges
  <2>3. ASSUME NEW s \in signals, LoseSignal(s) PROVE IInv'
    BY <2>3 DEF LoseSignal
  <2>4. ASSUME NEW c \in Clients, PunchStart(c) PROVE IInv'
    <3>1. blocked' = blocked /\ routes' = routes
      BY <2>4 DEF PunchStart
    <3>2. ASSUME NEW d \in Clients, NEW k \in Channels
          PROVE  \/ packets'[d][k] = packets[d][k]
                 \/ packets'[d][k].kind = "PunchRequest"
      BY <2>4 DEF PunchStart, Message
    <3> QED BY <3>1, <3>2
  <2>5. ASSUME NEW c \in Clients, NEW k \in Channels, ReceivePunchRequest(c, k)
        PROVE IInv'
    <3>1. blocked' = blocked /\ routes' = routes /\ c \notin blocked
      BY <2>5 DEF ReceivePunchRequest, Arrives
    <3>2. ASSUME NEW d \in Clients, NEW j \in Channels
          PROVE  \/ packets'[d][j] = packets[d][j]
                 \/ packets'[d][j] = None
                 \/ d = Peer(c)
      BY <2>5 DEF ReceivePunchRequest, Message
    <3> QED BY <3>1, <3>2
  <2>6. ASSUME NEW c \in Clients, NEW k \in Channels, ReceivePunchResponse(c, k)
        PROVE IInv'
    <3>1. blocked = {}
      BY <2>6 DEF ReceivePunchResponse, Arrives
    <3> QED BY <2>6, <3>1 DEF ReceivePunchResponse
  <2>7. ASSUME NEW c \in Clients, NEW k \in Channels, LosePacket(c, k)
        PROVE IInv'
    BY <2>7 DEF LosePacket
  <2>8. ASSUME NEW c \in Clients, NEW k \in Channels,
               Heartbeat(c, k) \/ Expire(c, k)
        PROVE IInv'
    BY <2>8 DEF Heartbeat, Expire
  <2>9. ASSUME NEW c \in Clients, NatForgets(c) PROVE IInv'
    <3>1. blocked' = blocked
      BY <2>9 DEF NatForgets
    <3>2. ASSUME NEW d \in Clients PROVE routes'[d] # {} => routes[d] # {}
      BY <2>9 DEF NatForgets
    <3>3. ASSUME NEW d \in Clients, NEW k \in Channels, packets'[d][k] # None
          PROVE  packets[d][k] # None /\ packets'[d][k].kind = packets[d][k].kind
      BY <2>9, <3>3 DEF NatForgets, Message
    <3> QED BY <3>1, <3>2, <3>3
  <2>10. CASE UNCHANGED vars
    BY <2>10 DEF vars
  <2> QED BY <2>1, <2>2, <2>3, <2>4, <2>5, <2>6, <2>7, <2>8, <2>9, <2>10 DEF Next
<1> QED BY <1>1, <1>2, TypeCorrect, PTL DEF Spec
=============================================================================
