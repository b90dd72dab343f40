-------------------------- MODULE UdpListenProofs ---------------------------
(***************************************************************************)
(* subUdp loses no change of sockets, for every capacity of the channel    *)
(* and however many sets are opened and closed.                            *)
(***************************************************************************)
EXTENDS UdpListen, TLAPS

(* What subUdp will listen on once it has read the channel.                *)
Tip == IF queue = <<>> THEN list ELSE queue[Len(queue)]

(* A change is what the client sends with from its last step on, but is in *)
(* the channel from its first.                                             *)
Promised == IF change.step \in {"bit", "wake"} THEN change.set ELSE sockets

(* A message in the channel has its wake-up to come: the sender has still  *)
(* to give it, or subUdp has still to see it.                              *)
Announced ==
    \/ change.step = "bit"
    \/ addBit /\ (change.step = "wake" \/ woken \/ NOTIFY \in batch \/ pc = "isAdd")
    \/ pc = "drain"

IInv ==
    /\ TypeOK
    /\ Tip = Promised
    /\ stopBit <=> stopping # "no"
    /\ pc = "ended" => stopBit
    /\ pc = "poll" => batch = {}
    /\ stopping = "no" /\ queue # <<>> => Announced

LEMMA InitInv == Init => IInv
  <1> SUFFICES ASSUME Init PROVE IInv
    OBVIOUS
  <1>0. 0 \in Gens /\ 0 \in 0..MaxRecv
    BY UdpAssumption DEF Gens
  <1>1. queue \in Seq(Gens) /\ Len(queue) <= Cap
    BY UdpAssumption DEF Init
  <1>2. data \in [Gens \X Indices -> 0..MaxRecv]
    BY <1>0 DEF Init
  <1>3. change \in [step : {"none", "send", "bit", "wake"}, set : Gens]
    BY <1>0 DEF Init, NoChange
  <1>4. TypeOK
    BY <1>0, <1>1, <1>2, <1>3 DEF Init, TypeOK
  <1> QED  BY <1>4 DEF Init, IInv, Tip, Promised, NoChange

LEMMA SenderInv == ASSUME IInv, Sender PROVE IInv'
  <1>1. CASE Open
    <2>1. opened' \in Gens
      BY <1>1, UdpAssumption DEF Open, IInv, TypeOK, Gens
    <2> QED  BY <1>1, <2>1 DEF Open, IInv, TypeOK, Tip, Promised, Announced, NoChange
  <1>2. CASE Close
    <2>1. 0 \in Gens
      BY UdpAssumption DEF Gens
    <2> QED  BY <1>2, <2>1 DEF Close, IInv, TypeOK, Tip, Promised, Announced, NoChange
  <1>3. CASE TrySend
    <2>1. CASE Len(queue) < Cap /\ pc # "ended"
      <3>1. queue' = Append(queue, change.set) /\ change' = [change EXCEPT !.step = "bit"]
            /\ UNCHANGED <<sockets, opened, addBit, stopBit, woken, stopping, pc, batch, list,
                           edge, data>>
        BY <1>3, <2>1 DEF TrySend
      <3>2. queue' \in Seq(Gens) /\ Len(queue') <= Cap
        BY <2>1, <3>1, UdpAssumption DEF IInv, TypeOK
      <3>3. change' \in [step : {"none", "send", "bit", "wake"}, set : Gens]
            /\ change'.step = "bit" /\ change'.set = change.set
        BY <3>1 DEF IInv, TypeOK
      <3>4. Tip' = change.set
        BY <3>1 DEF IInv, TypeOK, Tip
      <3>5. TypeOK'
        BY <3>1, <3>2, <3>3 DEF IInv, TypeOK
      <3> QED  BY <3>1, <3>3, <3>4, <3>5 DEF IInv, Promised, Announced
    <2>2. CASE ~(Len(queue) < Cap /\ pc # "ended")
      <3>1. change' = NoChange
            /\ UNCHANGED <<sockets, opened, queue, addBit, stopBit, woken, stopping, pc, batch,
                           list, edge, data>>
        BY <1>3, <2>2 DEF TrySend
      <3>2. NoChange \in [step : {"none", "send", "bit", "wake"}, set : Gens]
        BY UdpAssumption DEF NoChange, Gens
      <3>3. TypeOK'
        BY <3>1, <3>2 DEF IInv, TypeOK
      <3> QED  BY <1>3, <3>1, <3>3 DEF TrySend, IInv, Tip, Promised, Announced, NoChange
    <2> QED  BY <2>1, <2>2
  <1>4. CASE SetBit
    BY <1>4 DEF SetBit, IInv, TypeOK, Tip, Promised, Announced
  <1>5. CASE WakeAndWrite
    <2>1. NoChange \in [step : {"none", "send", "bit", "wake"}, set : Gens]
      BY UdpAssumption DEF NoChange, Gens
    <2> QED  BY <1>5, <2>1 DEF WakeAndWrite, IInv, TypeOK, Tip, Promised, Announced, NoChange
  <1> QED  BY <1>1, <1>2, <1>3, <1>4, <1>5 DEF Sender

LEMMA StopInv == ASSUME IInv, StoreStop \/ WakeStop PROVE IInv'
  BY DEF StoreStop, WakeStop, IInv, TypeOK, Tip, Promised, Announced, sender

LEMMA ListenerInv == ASSUME IInv, Listener PROVE IInv'
  <1>1. CASE Poll
    <2>1. batch' \subseteq Indices \cup {NOTIFY}
      BY <1>1 DEF Poll, IInv, TypeOK
    <2> QED  BY <1>1, <2>1 DEF Poll, IInv, TypeOK, Tip, Promised, Announced, sender
  <1>2. CASE NotifyEvent
    BY <1>2 DEF NotifyEvent, IInv, TypeOK, Tip, Promised, Announced, sender
  <1>3. CASE IsAddSocket
    BY <1>3 DEF IsAddSocket, IInv, TypeOK, Tip, Promised, Announced, sender
  <1>4. CASE TryRecv
    <2>1. CASE queue = <<>>
      BY <1>4, <2>1 DEF TryRecv, IInv, TypeOK, Tip, Promised, Announced, sender
    <2>2. CASE queue # <<>>
      <3>1. /\ queue' = Tail(queue) /\ list' = Head(queue)
            /\ edge' = {s \in {Head(queue)} \X Indices : Head(queue) # 0 /\ data[s] > 0}
            /\ pc = "drain"
            /\ UNCHANGED <<pc, sender, addBit, stopBit, woken, stopping, batch, data>>
        BY <1>4, <2>2 DEF TryRecv
      <3>2. list' \in Gens /\ queue' \in Seq(Gens) /\ Len(queue') <= Cap
        BY <2>2, <3>1, UdpAssumption DEF IInv, TypeOK
      <3>3. edge' \subseteq Gens \X Indices
        BY <3>1, <3>2
      <3>4. Tip' = Tip
        <4>1. queue \in Seq(Gens) /\ Len(queue) \in Nat /\ Len(queue) > 0
          BY <2>2 DEF IInv, TypeOK
        <4>2. CASE Len(queue) = 1
          <5>1. queue' = <<>> /\ list' = queue[1]
            BY <2>2, <3>1, <4>1, <4>2
          <5> QED  BY <2>2, <4>2, <5>1 DEF Tip
        <4>3. CASE Len(queue) > 1
          <5>0. queue' = Tail(queue) /\ Len(Tail(queue)) = Len(queue) - 1
            BY <2>2, <3>1, <4>1
          <5>1. Len(queue') = Len(queue) - 1 /\ queue' # <<>>
            BY <4>1, <4>3, <5>0
          <5>2. queue'[Len(queue) - 1] = queue[Len(queue)]
            <6>1. \A i \in 1..(Len(queue) - 1) : Tail(queue)[i] = queue[i + 1]
              BY <2>2, <4>1
            <6>2. Len(queue) - 1 \in 1..(Len(queue) - 1) /\ (Len(queue) - 1) + 1 = Len(queue)
              BY <4>1, <4>3
            <6> QED  BY <5>0, <6>1, <6>2
          <5> QED  BY <2>2, <5>1, <5>2 DEF Tip
        <4> QED  BY <4>1, <4>2, <4>3
      <3>5. TypeOK'
        BY <3>1, <3>2, <3>3 DEF IInv, TypeOK, sender
      <3> QED  BY <3>1, <3>4, <3>5 DEF IInv, Promised, Announced, sender
    <2> QED  BY <2>1, <2>2
  <1>5. ASSUME NEW i \in Indices, SocketEvent(i) PROVE IInv'
    <2>1. data' \in [Gens \X Indices -> 0..MaxRecv]
      BY <1>5, UdpAssumption DEF SocketEvent, IInv, TypeOK
    <2> QED  BY <1>5, <2>1 DEF SocketEvent, IInv, TypeOK, Tip, Promised, Announced, sender
  <1>6. CASE BatchDone
    BY <1>6 DEF BatchDone, IInv, TypeOK, Tip, Promised, Announced, sender
  <1> QED  BY <1>1, <1>2, <1>3, <1>4, <1>5, <1>6 DEF Listener

LEMMA ArriveInv == ASSUME IInv, NEW s \in Gens \X Indices, Arrive(s) PROVE IInv'
  <1>1. data' \in [Gens \X Indices -> 0..MaxRecv]
    <2>1. data[s] \in 0..MaxRecv /\ data[s] < MaxRecv
      BY DEF Arrive, IInv, TypeOK
    <2>2. data[s] + 1 \in 0..MaxRecv
      BY <2>1, UdpAssumption
    <2> QED  BY <2>2 DEF Arrive, IInv, TypeOK
  <1>2. edge' \subseteq Gens \X Indices
    BY DEF Arrive, IInv, TypeOK
  <1> QED  BY <1>1, <1>2 DEF Arrive, IInv, TypeOK, Tip, Promised, Announced, sender

(* The strengthened invariant is inductive.                                *)
THEOREM Inductive == Spec => []IInv
  <1>1. IInv /\ [Next]_vars => IInv'
    <2> SUFFICES ASSUME IInv, [Next]_vars PROVE IInv'
      OBVIOUS
    <2>1. CASE UNCHANGED vars
      BY <2>1 DEF vars, IInv, TypeOK, Tip, Promised, Announced
    <2>2. CASE Next
      BY <2>2, SenderInv, StopInv, ListenerInv, ArriveInv DEF Next
    <2> QED  BY <2>1, <2>2
  <1> QED  BY <1>1, InitInv, PTL DEF Spec

(* The types, in particular the bound of the channel.                      *)
THEOREM TypeCorrect == Spec => []TypeOK
  BY Inductive, PTL DEF IInv

(* Whoever replaces the sockets when, subUdp does not sleep on the old     *)
(* ones.                                                                   *)
THEOREM SocketsNotLost == Spec => []NoLostSockets
  <1>1. IInv => NoLostSockets
    BY DEF IInv, NoLostSockets, Tip, Promised, Announced, NoChange
  <1> QED  BY <1>1, Inductive, PTL
=============================================================================
