----------------------------- MODULE DeviceSync -----------------------------
(***************************************************************************)
(* How a client keeps its list of devices (device_map: an epoch and a map) *)
(* equal to the server's (vnt/src/handle/recv_data/server.rs,              *)
(* handle/maintain/heartbeat.rs).                                          *)
(*                                                                         *)
(* The list arrives in the RegistrationResponse and in PushDeviceList, in  *)
(* any order and on several receive threads.  A Pong carries the server's  *)
(* epoch; if it differs from the client's the client pulls the list.  A    *)
(* RegistrationResponse is applied only after the device was rebuilt, long *)
(* after it arrived; a Disconnect changes the status first and the epoch   *)
(* later.                                                                  *)
(*                                                                         *)
(* A list is represented by the number of changes the server had made to   *)
(* it, and travels with that number modulo 2^16.                           *)
(***************************************************************************)
EXTENDS Naturals, FiniteSets

CONSTANTS
    Receivers,     \* receive threads of the client
    EpochMod,      \* number of epochs (2^16)
    MaxChanges,    \* bound of the model on changes of the server's list
    MaxForgets,    \* bound of the model on how often the server forgets
    MaxFlight,     \* bound of the model on packets in flight to the client
    None

(* An epoch says nothing once the server's list has changed EpochMod times *)
(* behind the client's back.                                               *)
ASSUME DeviceSyncAssumption ==
    /\ EpochMod \in Nat /\ MaxChanges \in Nat /\ MaxChanges + 1 < EpochMod
    /\ MaxForgets \in Nat /\ MaxFlight \in Nat

VARIABLES
    serverList,    \* changes made to the server's list so far
    registered,    \* does the server know the client
    epoch,         \* device_map.0
    list,          \* device_map.1, as the server's list it was taken from
    status,        \* "Connected" or "Connecting"
    handling,      \* receive thread -> what is left of a packet it handles
    toServer, toClient,
    forgets

vars == <<serverList, registered, epoch, list, status, handling, toServer,
          toClient, forgets>>

Lists == 1..(MaxChanges + 1)

(* The width of the epoch on the wire and in device_map.                   *)
Epoch(l) == l % EpochMod

Replies == [kind : {"registered", "push"}, list : Lists]
      \cup [kind : {"pong"}, epoch : 0..(EpochMod - 1)]
      \cup [kind : {"disconnect"}]

Handling == [kind : {"registered"}, list : Lists] \cup [kind : {"disconnect"}]

TypeOK ==
    /\ serverList \in Lists
    /\ registered \in BOOLEAN
    /\ epoch \in 0..(EpochMod - 1)
    /\ list \in Lists \cup {0}
    /\ status \in {"Connected", "Connecting"}
    /\ handling \in [Receivers -> Handling \cup {None}]
    /\ toServer \subseteq {"ping", "pull", "register"}
    /\ toClient \subseteq Replies /\ Cardinality(toClient) <= MaxFlight
    /\ forgets \in 0..MaxForgets

Init ==
    /\ serverList = 1
    /\ registered = FALSE
    /\ epoch = 0
    /\ list = 0
    /\ status = "Connecting"
    /\ handling = [r \in Receivers |-> None]
    /\ toServer = {}
    /\ toClient = {}
    /\ forgets = 0

-----------------------------------------------------------------------------
(* The client sends.                                                       *)

(* heartbeat_packet_server, every three seconds whatever the status.       *)
Heartbeat ==
    /\ toServer' = toServer \cup {"ping"}
    /\ UNCHANGED <<serverList, registered, epoch, list, status, handling,
                   toClient, forgets>>

(* The scheduler reconnects an offline client; the handshake that comes    *)
(* first is in Session.                                                    *)
Reconnect ==
    /\ status = "Connecting"
    /\ toServer' = toServer \cup {"register"}
    /\ UNCHANGED <<serverList, registered, epoch, list, status, handling,
                   toClient, forgets>>

-----------------------------------------------------------------------------
(* The client receives.  The network may delay, reorder and lose packets;  *)
(* a packet that it duplicates has the effect of a second request.         *)

Delivered(p) == toClient' = toClient \ {p}

(* set_device_info_list: epoch and list under one lock, without a look at  *)
(* which is newer.                                                         *)
SetDeviceInfoList(l) ==
    /\ epoch' = Epoch(l)
    /\ list' = l

(* PushDeviceList.                                                         *)
PushDeviceList(r, p) ==
    /\ handling[r] = None
    /\ p.kind = "push" /\ Delivered(p)
    /\ SetDeviceInfoList(p.list)
    /\ UNCHANGED <<serverList, registered, status, handling, toServer, forgets>>

(* RegistrationResponse: the status is committed, then the device is       *)
(* rebuilt ...                                                             *)
RegistrationResponse(r, p) ==
    /\ handling[r] = None
    /\ p.kind = "registered" /\ Delivered(p)
    /\ status' = "Connected"
    /\ handling' = [handling EXCEPT ![r] = p]
    /\ UNCHANGED <<serverList, registered, epoch, list, toServer, forgets>>

(* ... and then the list of the response is applied.                       *)
ApplyRegistration(r) ==
    /\ handling[r] # None /\ handling[r].kind = "registered"
    /\ SetDeviceInfoList(handling[r].list)
    /\ handling' = [handling EXCEPT ![r] = None]
    /\ UNCHANGED <<serverList, registered, status, toServer, toClient, forgets>>

(* Disconnect: the status, then the hook ...                               *)
Disconnect(r, p) ==
    /\ handling[r] = None
    /\ p.kind = "disconnect" /\ Delivered(p)
    /\ status' = "Connecting"
    /\ handling' = [handling EXCEPT ![r] = p]
    /\ UNCHANGED <<serverList, registered, epoch, list, toServer, forgets>>

(* ... and then the epoch and the handshake.                               *)
ResetEpoch(r) ==
    /\ handling[r] # None /\ handling[r].kind = "disconnect"
    /\ epoch' = 0
    /\ handling' = [handling EXCEPT ![r] = None]
    /\ toServer' = toServer \cup {"register"}
    /\ UNCHANGED <<serverList, registered, list, status, toClient, forgets>>

(* Mutant: the epoch is taken from the Pong, before the list arrives.      *)
Pong_TakesEpoch(r, p) ==
    /\ handling[r] = None
    /\ p.kind = "pong" /\ Delivered(p)
    /\ toServer' = IF p.epoch # epoch THEN toServer \cup {"pull"} ELSE toServer
    /\ epoch' = p.epoch
    /\ UNCHANGED <<serverList, registered, list, status, handling, forgets>>

(* Mutant: only a client without a list pulls.                             *)
Pong_WhenEmpty(r, p) ==
    /\ handling[r] = None
    /\ p.kind = "pong" /\ Delivered(p)
    /\ toServer' = IF epoch = 0 THEN toServer \cup {"pull"} ELSE toServer
    /\ UNCHANGED <<serverList, registered, epoch, list, status, handling, forgets>>

(* Pong: another epoch makes the client pull the list.  (The Pong that is  *)
(* dropped because the 16-bit clock has wrapped counts as lost.)           *)
Pong(r, p) ==
    /\ handling[r] = None
    /\ p.kind = "pong" /\ Delivered(p)
    /\ toServer' = IF p.epoch # epoch THEN toServer \cup {"pull"} ELSE toServer
    /\ UNCHANGED <<serverList, registered, epoch, list, status, handling, forgets>>

-----------------------------------------------------------------------------
(* The server and the network, external.                                   *)

Reply(m) ==
    IF m = "register" THEN [kind |-> "registered", list |-> serverList]
    ELSE IF ~registered THEN [kind |-> "disconnect"]
    ELSE IF m = "pull" THEN [kind |-> "push", list |-> serverList]
    ELSE [kind |-> "pong", epoch |-> Epoch(serverList)]

ServerAnswers(m) ==
    /\ m \in toServer
    /\ toServer' = toServer \ {m}
    /\ Cardinality(toClient) < MaxFlight
    /\ toClient' = toClient \cup {Reply(m)}
    /\ registered' = (registered \/ m = "register")
    /\ UNCHANGED <<serverList, epoch, list, status, handling, forgets>>

ServerChanges ==
    /\ serverList \in 1..MaxChanges
    /\ serverList' = serverList + 1
    /\ UNCHANGED <<registered, epoch, list, status, handling, toServer, toClient,
                   forgets>>

ServerForgets ==
    /\ registered /\ forgets < MaxForgets
    /\ registered' = FALSE
    /\ forgets' = forgets + 1
    /\ UNCHANGED <<serverList, epoch, list, status, handling, toServer, toClient>>

Lose ==
    /\ \/ \E p \in toClient : toClient' = toClient \ {p} /\ UNCHANGED toServer
       \/ \E m \in toServer : toServer' = toServer \ {m} /\ UNCHANGED toClient
    /\ UNCHANGED <<serverList, registered, epoch, list, status, handling, forgets>>

Receive(r, p) == \/ PushDeviceList(r, p) \/ RegistrationResponse(r, p)
                 \/ Disconnect(r, p) \/ Pong(r, p)

Finish(r) == ApplyRegistration(r) \/ ResetEpoch(r)

Next ==
    \/ Heartbeat \/ Reconnect
    \/ \E r \in Receivers, p \in toClient : Receive(r, p)
    \/ \E r \in Receivers : Finish(r)
    \/ \E m \in toServer : ServerAnswers(m)
    \/ ServerChanges \/ ServerForgets \/ Lose

Spec == Init /\ [][Next]_vars

(* The client's tasks and threads go on; the network lets through what is  *)
(* sent again and again, and the server answers.                           *)
FairSpec ==
    /\ Spec
    /\ WF_vars(Heartbeat)
    /\ WF_vars(Reconnect)
    /\ \A r \in Receivers : WF_vars(Finish(r))
    /\ \A m \in {"ping", "pull", "register"} : SF_vars(ServerAnswers(m))
    /\ \A kind \in {"registered", "push", "pong", "disconnect"} :
          SF_vars(\E r \in Receivers, p \in toClient :
                     p.kind = kind /\ Receive(r, p))

-----------------------------------------------------------------------------
(* MatchMeansEqual: a client whose epoch is the server's has the server's  *)
(* list, so a Pong that makes it pull nothing leaves nothing to pull,      *)
(* whichever of an old list, a slow registration and a disconnect came     *)
(* last.                                                                   *)
MatchMeansEqual == epoch = Epoch(serverList) => list = serverList

(* ListCatchesUp: once the server's list rests, the client's becomes equal *)
(* to it and stays so, although old lists are applied over newer ones      *)
(* (server.rs:489, "an old message may arrive here, but in time the new    *)
(* one always will").                                                      *)
ListCatchesUp == <>[](list = serverList)
=============================================================================
