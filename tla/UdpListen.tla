----------------------------- MODULE UdpListen ------------------------------
(***************************************************************************)
(* The subUdp thread and the extra UDP sockets it reads                    *)
(* (vnt/src/channel/udp_channel.rs, context.rs, sender.rs, notify.rs).     *)
(* The scheduler thread and the natTest thread replace the sockets under   *)
(* the write lock of sub_udp_socket; they pass clones to subUdp through a  *)
(* bounded channel, a bit of AcceptNotify and a waker.  The poll is        *)
(* edge-triggered, and its waker has token 0.                              *)
(***************************************************************************)
EXTENDS Naturals, Sequences

CONSTANTS
    MaxGen,   \* how many sets of sockets are opened
    Width,    \* sockets in a set
    Cap,      \* capacity of the channel, 64 in the code
    MaxRecv   \* datagrams that wait in a socket

ASSUME UdpAssumption ==
    /\ MaxGen \in Nat /\ Width \in Nat /\ Cap \in Nat \ {0} /\ MaxRecv \in Nat

(* Sets of sockets are numbered, zero is the empty one.                    *)
Gens == 0..MaxGen
NOTIFY == 0

VARIABLES
    sockets,   \* sub_udp_socket: the set the client sends with
    opened,    \* sets opened so far
    change,    \* the change under the write lock: its step and the new set
    queue,     \* the channel
    addBit,    \* AcceptNotify.state & 0b100
    stopBit,   \* AcceptNotify.state & 0b001
    woken,     \* the waker's event is not yet reported
    stopping,  \* how far AcceptNotify::stop is
    pc,        \* where subUdp is
    batch,     \* tokens of the events it has still to look at
    list,      \* the set it has registered
    edge,      \* sockets of that set with an event not yet reported
    data       \* datagrams that wait in each socket of each set

sender == <<sockets, opened, change>>
vars == <<sockets, opened, change, queue, addBit, stopBit, woken, stopping, pc, batch,
          list, edge, data>>

Indices == 0..(Width - 1)
NoChange == [step |-> "none", set |-> 0]

Init ==
    /\ sockets = 0 /\ opened = 0
    /\ change = NoChange
    /\ queue = <<>>
    /\ addBit = FALSE /\ stopBit = FALSE /\ woken = FALSE
    /\ stopping = "no"
    /\ pc = "poll" /\ batch = {} /\ list = 0
    /\ edge = {}
    /\ data = [s \in Gens \X Indices |-> 0]

-----------------------------------------------------------------------------
(* switch to Symmetric opens sockets if there are none, a rebind always;   *)
(* switch to Cone drops the ones there are.                                *)
Open ==
    /\ change = NoChange
    /\ opened < MaxGen
    /\ opened' = opened + 1
    /\ change' = [step |-> "send", set |-> opened']
    /\ UNCHANGED <<sockets, queue, addBit, stopBit, woken, stopping, pc, batch, list, edge, data>>

Close ==
    /\ change = NoChange
    /\ sockets # 0
    /\ change' = [step |-> "send", set |-> 0]
    /\ UNCHANGED <<sockets, opened, queue, addBit, stopBit, woken, stopping, pc, batch, list,
                   edge, data>>

(* try_add_socket: a full or abandoned channel is an error, on which the   *)
(* sockets stay as they were.                                              *)
TrySend ==
    /\ change.step = "send"
    /\ IF Len(queue) < Cap /\ pc # "ended"
       THEN queue' = Append(queue, change.set) /\ change' = [change EXCEPT !.step = "bit"]
       ELSE change' = NoChange /\ UNCHANGED queue
    /\ UNCHANGED <<sockets, opened, addBit, stopBit, woken, stopping, pc, batch, list, edge, data>>

(* Mutant: the thread is woken without the bit.                            *)
SetBit_Not ==
    /\ change.step = "bit"
    /\ change' = [change EXCEPT !.step = "wake"]
    /\ UNCHANGED <<sockets, opened, queue, addBit, stopBit, woken, stopping, pc, batch, list,
                   edge, data>>

SetBit ==
    /\ change.step = "bit"
    /\ addBit' = TRUE
    /\ change' = [change EXCEPT !.step = "wake"]
    /\ UNCHANGED <<sockets, opened, queue, stopBit, woken, stopping, pc, batch, list, edge, data>>

(* The waker, and then the sockets are the new ones.                       *)
WakeAndWrite ==
    /\ change.step = "wake"
    /\ woken' = TRUE
    /\ sockets' = change.set
    /\ change' = NoChange
    /\ UNCHANGED <<opened, queue, addBit, stopBit, stopping, pc, batch, list, edge, data>>

(* AcceptNotify::stop stores the whole state, the add bit included.        *)
StoreStop ==
    /\ stopping = "no"
    /\ stopping' = "stored"
    /\ stopBit' = TRUE
    /\ addBit' = FALSE
    /\ UNCHANGED <<sender, queue, woken, pc, batch, list, edge, data>>

(* Mutant: stop does not wake the thread.                                  *)
WakeStop_Not ==
    /\ stopping = "stored"
    /\ stopping' = "woken"
    /\ UNCHANGED <<sender, queue, addBit, stopBit, woken, pc, batch, list, edge, data>>

WakeStop ==
    /\ stopping = "stored"
    /\ stopping' = "woken"
    /\ woken' = TRUE
    /\ UNCHANGED <<sender, queue, addBit, stopBit, pc, batch, list, edge, data>>

-----------------------------------------------------------------------------
Poll ==
    /\ pc = "poll"
    /\ woken \/ edge # {}
    /\ batch' = {s[2] : s \in edge} \cup (IF woken THEN {NOTIFY} ELSE {})
    /\ woken' = FALSE
    /\ edge' = {}
    /\ pc' = "events"
    /\ UNCHANGED <<sender, queue, addBit, stopBit, stopping, list, data>>

(* The events in any order; a token says no more than the index.           *)
NotifyEvent ==
    /\ pc = "events" /\ NOTIFY \in batch
    /\ batch' = batch \ {NOTIFY}
    /\ pc' = IF stopBit THEN "ended" ELSE "isAdd"
    /\ UNCHANGED <<sender, queue, addBit, stopBit, woken, stopping, list, edge, data>>

IsAddSocket ==
    /\ pc = "isAdd"
    /\ addBit' = FALSE
    /\ pc' = IF addBit THEN "drain" ELSE "events"
    /\ UNCHANGED <<sender, queue, stopBit, woken, stopping, batch, list, edge, data>>

(* Mutant: one message for each wake-up.                                   *)
TryRecv_One ==
    /\ pc = "drain"
    /\ pc' = "events"
    /\ IF queue = <<>> THEN UNCHANGED <<queue, list, edge>>
       ELSE /\ queue' = Tail(queue)
            /\ list' = Head(queue)
            /\ edge' = {s \in {Head(queue)} \X Indices : Head(queue) # 0 /\ data[s] > 0}
    /\ UNCHANGED <<sender, addBit, stopBit, woken, stopping, batch, data>>

(* The old sockets are deregistered, the new ones registered; one that has *)
(* data is reported at once.                                               *)
TryRecv ==
    /\ pc = "drain"
    /\ IF queue = <<>> THEN pc' = "events" /\ UNCHANGED <<queue, list, edge>>
       ELSE /\ queue' = Tail(queue)
            /\ list' = Head(queue)
            /\ edge' = {s \in {Head(queue)} \X Indices : Head(queue) # 0 /\ data[s] > 0}
            /\ UNCHANGED pc
    /\ UNCHANGED <<sender, addBit, stopBit, woken, stopping, batch, data>>

(* Mutant: one datagram for each event.                                    *)
SocketEvent_Once(i) ==
    /\ pc = "events" /\ i \in batch /\ i # NOTIFY
    /\ batch' = batch \ {i}
    /\ data' = IF list = 0 \/ data[<<list, i>>] = 0 THEN data
               ELSE [data EXCEPT ![<<list, i>>] = @ - 1]
    /\ UNCHANGED <<sender, queue, addBit, stopBit, woken, stopping, pc, list, edge>>

(* The socket at that index, if there is one, is read until it is empty.   *)
SocketEvent(i) ==
    /\ pc = "events" /\ i \in batch /\ i # NOTIFY
    /\ batch' = batch \ {i}
    /\ data' = IF list = 0 THEN data ELSE [data EXCEPT ![<<list, i>>] = 0]
    /\ UNCHANGED <<sender, queue, addBit, stopBit, woken, stopping, pc, list, edge>>

BatchDone ==
    /\ pc = "events" /\ batch = {}
    /\ pc' = "poll"
    /\ UNCHANGED <<sender, queue, addBit, stopBit, woken, stopping, batch, list, edge, data>>

(* A datagram reaches a socket that is open.                               *)
Arrive(s) ==
    /\ s[1] # 0 /\ s[1] \in {sockets, list}
    /\ data[s] < MaxRecv
    /\ data' = [data EXCEPT ![s] = @ + 1]
    /\ edge' = IF s[1] = list /\ pc # "ended" THEN edge \cup {s} ELSE edge
    /\ UNCHANGED <<sender, queue, addBit, stopBit, woken, stopping, pc, batch, list>>

-----------------------------------------------------------------------------
Sender == Open \/ Close \/ TrySend \/ SetBit \/ WakeAndWrite
Listener ==
    \/ Poll
    \/ NotifyEvent
    \/ IsAddSocket
    \/ TryRecv
    \/ \E i \in Indices : SocketEvent(i)
    \/ BatchDone

Next ==
    \/ Sender
    \/ StoreStop
    \/ WakeStop
    \/ Listener
    \/ \E s \in Gens \X Indices : Arrive(s)

Spec == Init /\ [][Next]_vars

(* The threads go on with what they began; the poll returns when there is  *)
(* an event.  Nobody need open or close sockets, or stop.                  *)
Fairness ==
    /\ WF_vars(TrySend \/ SetBit \/ WakeAndWrite)
    /\ WF_vars(WakeStop)
    /\ WF_vars(Poll) /\ WF_vars(NotifyEvent) /\ WF_vars(IsAddSocket) /\ WF_vars(TryRecv)
    /\ \A i \in Indices : WF_vars(SocketEvent(i))
    /\ WF_vars(BatchDone)

FairSpec == Spec /\ Fairness

-----------------------------------------------------------------------------
TypeOK ==
    /\ sockets \in Gens /\ opened \in Gens /\ list \in Gens
    /\ change \in [step : {"none", "send", "bit", "wake"}, set : Gens]
    /\ queue \in Seq(Gens) /\ Len(queue) <= Cap
    /\ {addBit, stopBit, woken} \subseteq BOOLEAN
    /\ stopping \in {"no", "stored", "woken"}
    /\ pc \in {"poll", "events", "isAdd", "drain", "ended"}
    /\ batch \subseteq Indices \cup {NOTIFY}
    /\ edge \subseteq Gens \X Indices
    /\ data \in [Gens \X Indices -> 0..MaxRecv]

(* When subUdp sleeps and nothing is on its way to it, it listens on the   *)
(* sockets the client sends with: no message is left in the channel        *)
(* without a wake-up to come, whoever replaces the sockets when.           *)
NoLostSockets ==
    /\ change = NoChange /\ stopping = "no"
    /\ pc = "poll" /\ ~woken
    => queue = <<>> /\ list = sockets

(* New sockets are listened on in the end, or replaced, or subUdp stops.   *)
SocketsFollow == \A g \in Gens : sockets = g ~> list = g \/ sockets # g \/ stopBit

(* subUdp stops when it is told to, even if sockets are added meanwhile.   *)
StopEnds == stopBit ~> pc = "ended"

(* What arrives at a socket after the first of its set is read, unless the *)
(* set is replaced or subUdp stops.                                        *)
Read(s) == data[s] > 0 ~> data[s] = 0 \/ sockets # s[1] \/ stopBit
LaterSocketsRead == \A s \in Gens \X (Indices \ {0}) : Read(s)

(* Every socket subUdp says it listens on is read.                         *)
AllSocketsRead == \A s \in Gens \X Indices : Read(s)
=============================================================================
