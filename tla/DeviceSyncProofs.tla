-------------------------- MODULE DeviceSyncProofs --------------------------
(***************************************************************************)
(* For any number of receive threads, of epochs and of changes below it,   *)
(* and of packets in flight: a client with the server's epoch has the      *)
(* server's list.                                                          *)
(***************************************************************************)
EXTENDS DeviceSync, FiniteSetTheorems, TLAPS

(* The epoch is that of the list the client has, or none: the two change   *)
(* under one lock, and only a Disconnect drops one of them.                *)
IInv ==
    /\ TypeOK
    /\ IsFiniteSet(toClient)
    /\ epoch \in {0, list}

(* An epoch is as good as the list while the server's does not run away.   *)
LEMMA EpochIsList == ASSUME NEW l \in Lists PROVE Epoch(l) = l /\ l \in 1..(EpochMod - 1)
  BY DeviceSyncAssumption DEF Lists, Epoch

LEMMA InitInv == Init => IInv
  <1> SUFFICES ASSUME Init PROVE IInv
    OBVIOUS
  <1>1. IsFiniteSet(toClient) /\ Cardinality(toClient) <= MaxFlight
    BY FS_EmptySet, DeviceSyncAssumption DEF Init
  <1>2. 1 \in Lists /\ 0 \in 0..(EpochMod - 1) /\ 0 \in 0..MaxForgets
    BY DeviceSyncAssumption DEF Lists
  <1>3. handling \in [Receivers -> Handling \cup {None}]
    BY DEF Init
  <1> QED  BY <1>1, <1>2, <1>3 DEF Init, IInv, TypeOK

(* Packets that arrive or get lost leave fewer in flight.                  *)
LEMMA FewerInFlight ==
    ASSUME IInv, NEW p \in toClient, toClient' = toClient \ {p}
    PROVE  toClient' \subseteq Replies /\ IsFiniteSet(toClient') /\ Cardinality(toClient') <= MaxFlight
  <1>1. IsFiniteSet(toClient') /\ Cardinality(toClient') <= Cardinality(toClient)
    BY FS_Subset DEF IInv
  <1>2. Cardinality(toClient) \in Nat /\ Cardinality(toClient') \in Nat
    BY <1>1, FS_CardinalityType DEF IInv
  <1> QED  BY <1>1, <1>2, DeviceSyncAssumption DEF IInv, TypeOK

LEMMA ReceiveInv ==
    ASSUME IInv, NEW r \in Receivers, NEW p \in toClient, Receive(r, p)
    PROVE  IInv'
  <1>1. toClient' \subseteq Replies /\ IsFiniteSet(toClient') /\ Cardinality(toClient') <= MaxFlight
    BY FewerInFlight DEF Receive, PushDeviceList, RegistrationResponse, Disconnect, Pong, Delivered
  <1>2. p \in Replies
    BY DEF IInv, TypeOK
  <1>3. CASE PushDeviceList(r, p)
    <2>1. p.list \in Lists
      BY <1>2, <1>3 DEF PushDeviceList, Replies
    <2> QED  BY <1>1, <1>3, <2>1, EpochIsList
             DEF PushDeviceList, SetDeviceInfoList, IInv, TypeOK
  <1>4. CASE RegistrationResponse(r, p) \/ Disconnect(r, p)
    <2>1. p \in Handling
      BY <1>2, <1>4 DEF RegistrationResponse, Disconnect, Replies, Handling
    <2> QED  BY <1>1, <1>4, <2>1 DEF RegistrationResponse, Disconnect, IInv, TypeOK
  <1>5. CASE Pong(r, p)
    BY <1>1, <1>5 DEF Pong, IInv, TypeOK
  <1> QED  BY <1>3, <1>4, <1>5 DEF Receive

LEMMA FinishInv == ASSUME IInv, NEW r \in Receivers, Finish(r) PROVE IInv'
  <1>1. handling[r] \in Handling
    BY DEF IInv, TypeOK, Finish, ApplyRegistration, ResetEpoch
  <1>2. CASE ApplyRegistration(r)
    <2>1. handling[r].list \in Lists
      BY <1>1, <1>2 DEF ApplyRegistration, Handling
    <2> QED  BY <1>2, <2>1, EpochIsList DEF ApplyRegistration, SetDeviceInfoList, IInv, TypeOK
  <1>3. CASE ResetEpoch(r)
    BY <1>3, DeviceSyncAssumption DEF ResetEpoch, IInv, TypeOK
  <1> QED  BY <1>2, <1>3 DEF Finish

LEMMA AnswerInv == ASSUME IInv, NEW m \in toServer, ServerAnswers(m) PROVE IInv'
  <1>1. Reply(m) \in Replies
    <2>1. serverList \in Lists /\ Epoch(serverList) \in 0..(EpochMod - 1)
      BY EpochIsList DEF IInv, TypeOK
    <2> QED  BY <2>1 DEF Reply, Replies
  <1>2. IsFiniteSet(toClient') /\ Cardinality(toClient') <= MaxFlight
    <2>1. /\ IsFiniteSet(toClient \cup {Reply(m)})
          /\ \/ Cardinality(toClient \cup {Reply(m)}) = Cardinality(toClient)
             \/ Cardinality(toClient \cup {Reply(m)}) = Cardinality(toClient) + 1
      BY FS_AddElement DEF IInv
    <2>2. Cardinality(toClient) \in Nat
      BY FS_CardinalityType DEF IInv
    <2> QED  BY <2>1, <2>2, DeviceSyncAssumption DEF ServerAnswers
  <1> QED  BY <1>1, <1>2 DEF ServerAnswers, IInv, TypeOK

(* The invariant is inductive.                                             *)
LEMMA NextInv == ASSUME IInv, [Next]_vars PROVE IInv'
  <1>1. CASE Heartbeat \/ Reconnect
    BY <1>1 DEF Heartbeat, Reconnect, IInv, TypeOK
  <1>2. CASE ServerChanges
    BY <1>2, DeviceSyncAssumption DEF ServerChanges, IInv, TypeOK, Lists
  <1>3. CASE ServerForgets
    <2>1. forgets' \in 0..MaxForgets
      BY <1>3, DeviceSyncAssumption DEF ServerForgets, IInv, TypeOK
    <2> QED  BY <1>3, <2>1 DEF ServerForgets, IInv, TypeOK
  <1>4. CASE Lose
    <2>1. ASSUME NEW p \in toClient, toClient' = toClient \ {p} /\ UNCHANGED toServer PROVE IInv'
      BY <1>4, <2>1, FewerInFlight DEF Lose, IInv, TypeOK
    <2>2. ASSUME NEW m \in toServer, toServer' = toServer \ {m} /\ UNCHANGED toClient PROVE IInv'
      BY <1>4, <2>2 DEF Lose, IInv, TypeOK
    <2> QED  BY <1>4, <2>1, <2>2 DEF Lose
  <1>5. CASE UNCHANGED vars
    BY <1>5 DEF vars, IInv, TypeOK
  <1> QED  BY <1>1, <1>2, <1>3, <1>4, <1>5, ReceiveInv, FinishInv, AnswerInv DEF Next

THEOREM Inductive == Spec => []IInv
  BY InitInv, NextInv, PTL DEF Spec

(* The client and the packets keep their types, and no more packets are    *)
(* in flight than the network holds.                                       *)
THEOREM TypeCorrect == Spec => []TypeOK
  BY Inductive, PTL DEF IInv

(* A client whose epoch is the server's has the server's list, whichever   *)
(* of an old list, a slow registration and a disconnect came last.         *)
THEOREM MatchCorrect == Spec => []MatchMeansEqual
  <1>1. IInv => MatchMeansEqual
    <2> SUFFICES ASSUME IInv, epoch = Epoch(serverList) PROVE list = serverList
      BY DEF MatchMeansEqual
    <2>1. epoch = serverList /\ epoch # 0
      BY EpochIsList DEF IInv, TypeOK
    <2> QED  BY <2>1 DEF IInv
  <1> QED  BY <1>1, Inductive, PTL
=============================================================================
