----------------------------- MODULE TunDevice ------------------------------
(***************************************************************************)
(* Replacing the tun device when the client's address changes, composed    *)
(* with the stop manager: a receive thread that handles a registration     *)
(* stops the old device's thread, waits for it, creates a device and       *)
(* starts its thread (tun_create_helper.rs, handle/tun_tap).  The thread   *)
(* of a device is a Worker, which either side may take out of its cell:    *)
(* the receive thread to drop it, the device's thread to stop everything.  *)
(***************************************************************************)
EXTENDS StopManager

CONSTANTS
    Receivers,  \* receive threads, each a registration of the stop manager
    Tuns,       \* devices, with the registration of their thread
    None        \* absent value

ASSUME TunAssumption ==
    /\ Regs = Receivers \cup Tuns /\ Receivers \cap Tuns = {}
    /\ None \notin Tuns

VARIABLES
    adapter,     \* DeviceAdapter.tun: the device packets are written to
    deviceStop,  \* TunDeviceHelper.device_stop: whose DeviceStop it holds
    helper,      \* receive thread -> step of TunDeviceHelper it is at, and device
    tun,         \* device -> where its thread is
    stopFn,      \* devices whose DeviceStop has a function to call
    cell,        \* devices whose worker_cell holds the Worker
    stopped,     \* devices whose DeviceStop says stopped
    aborted      \* an assertion failed, which ends the process

tunVars == <<adapter, deviceStop, helper, tun, stopFn, cell, stopped, aborted>>
allVars == <<vars, tunVars>>

At(step, d) == [step |-> step, dev |-> d]
Idle == At("idle", None)
Goes(r, h) == helper' = [helper EXCEPT ![r] = h]

TunInit ==
    /\ Init
    /\ adapter = None
    /\ deviceStop = None
    /\ helper = [r \in Receivers |-> Idle]
    /\ tun = [d \in Tuns |-> "new"]
    /\ stopFn = {} /\ cell = {} /\ stopped = {}
    /\ aborted = FALSE

-----------------------------------------------------------------------------
(* A registration response with another address, handled by the thread r.  *)
AddressChanged(r) ==
    /\ worker[r] = "running"
    /\ helper[r] = Idle
    /\ \E d \in Tuns : tun[d] = "new"
    /\ Goes(r, At("take", None))
    /\ UNCHANGED <<vars, adapter, deviceStop, tun, stopFn, cell, stopped, aborted>>

(* Mutant: the DeviceStop is used where it is.                             *)
TakeDeviceStop_Leaves(r) ==
    /\ helper[r].step = "take"
    /\ Goes(r, IF deviceStop = None THEN At("create", None) ELSE At("remove", deviceStop))
    /\ UNCHANGED <<vars, adapter, deviceStop, tun, stopFn, cell, stopped, aborted>>

(* TunDeviceHelper::stop takes the DeviceStop; without one it is done.     *)
TakeDeviceStop(r) ==
    /\ helper[r].step = "take"
    /\ deviceStop' = None
    /\ Goes(r, IF deviceStop = None THEN At("create", None) ELSE At("remove", deviceStop))
    /\ UNCHANGED <<vars, adapter, tun, stopFn, cell, stopped, aborted>>

RemoveAdapter(r) ==
    /\ helper[r].step = "remove"
    /\ adapter' = None
    /\ Goes(r, At("stop", helper[r].dev))
    /\ UNCHANGED <<vars, deviceStop, tun, stopFn, cell, stopped, aborted>>

(* DeviceStop::stop: the function runs once; it drops the Worker if the    *)
(* device's thread did not take it first, and with it calls the listener,  *)
(* which shuts the device down.                                            *)
CallStopFn(r) ==
    /\ helper[r].step = "stop"
    /\ LET d == helper[r].dev
       IN  /\ IF d \in stopFn /\ d \in cell
              THEN /\ DropWorker(d)
                   /\ cell' = cell \ {d}
                   /\ Goes(r, At("dropping", d))
              ELSE /\ UNCHANGED <<vars, cell>>
                   /\ Goes(r, At("look", d))
           /\ stopFn' = stopFn \ {d}
    /\ UNCHANGED <<adapter, deviceStop, tun, stopped, aborted>>

Dropped(r) ==
    /\ helper[r].step = "dropping"
    /\ worker[helper[r].dev] = "ended"
    /\ Goes(r, At("look", helper[r].dev))
    /\ UNCHANGED <<vars, adapter, deviceStop, tun, stopFn, cell, stopped, aborted>>

(* Mutant: the thread is asked to stop, but not waited for.                *)
LookStopped_Impatient(r) ==
    /\ helper[r].step = "look"
    /\ Goes(r, At("create", None))
    /\ UNCHANGED <<vars, adapter, deviceStop, tun, stopFn, cell, stopped, aborted>>

(* After 300 milliseconds: again, until the thread says it stopped.        *)
LookStopped(r) ==
    /\ helper[r].step = "look"
    /\ Goes(r, IF helper[r].dev \in stopped THEN At("create", None)
               ELSE At("stop", helper[r].dev))
    /\ UNCHANGED <<vars, adapter, deviceStop, tun, stopFn, cell, stopped, aborted>>

(* create_device: a device, or an error reported to the program.           *)
CreateDevice(r) ==
    /\ helper[r].step = "create"
    /\ \/ \E d \in Tuns :
             /\ tun[d] = "new"
             /\ tun' = [tun EXCEPT ![d] = "created"]
             /\ Goes(r, At("insert", d))
       \/ Goes(r, Idle) /\ UNCHANGED tun
    /\ UNCHANGED <<vars, adapter, deviceStop, stopFn, cell, stopped, aborted>>

(* TunDeviceHelper::start: two cells that must be empty, then the thread.  *)
InsertAdapter(r) ==
    /\ helper[r].step = "insert"
    /\ adapter' = helper[r].dev
    /\ aborted' = (aborted \/ adapter # None)
    /\ Goes(r, At("start", helper[r].dev))
    /\ UNCHANGED <<vars, deviceStop, tun, stopFn, cell, stopped>>

StartDevice(r) ==
    /\ helper[r].step = "start"
    /\ deviceStop' = helper[r].dev
    /\ aborted' = (aborted \/ deviceStop # None)
    /\ tun' = [tun EXCEPT ![helper[r].dev] = "spawned"]
    /\ Goes(r, Idle)
    /\ UNCHANGED <<vars, adapter, stopFn, cell, stopped>>

-----------------------------------------------------------------------------
(* start_simple: a refused registration ends the thread at once.           *)
Register(d) ==
    /\ tun[d] = "spawned"
    /\ AddListener(d)
    /\ IF worker'[d] = "running"
       THEN tun' = [tun EXCEPT ![d] = "setFn"] /\ cell' = cell \cup {d}
       ELSE tun' = [tun EXCEPT ![d] = "refused"] /\ UNCHANGED cell
    /\ UNCHANGED <<adapter, deviceStop, helper, stopFn, stopped, aborted>>

SetStopFn(d) ==
    /\ tun[d] = "setFn"
    /\ stopFn' = stopFn \cup {d}
    /\ tun' = [tun EXCEPT ![d] = "reading"]
    /\ UNCHANGED <<vars, adapter, deviceStop, helper, cell, stopped, aborted>>

(* The device was shut down, or reading from it failed.                    *)
ReadFails(d) ==
    /\ tun[d] = "reading"
    /\ tun' = [tun EXCEPT ![d] = "take"]
    /\ stopped' = stopped \cup {d}
    /\ UNCHANGED <<vars, adapter, deviceStop, helper, stopFn, cell, aborted>>

(* Mutant: the device's thread just drops its Worker.                      *)
TakeWorker_Drops(d) ==
    /\ tun[d] = "take"
    /\ tun' = [tun EXCEPT ![d] = "done"]
    /\ cell' = cell \ {d}
    /\ IF d \in cell THEN DropWorker(d) ELSE UNCHANGED vars
    /\ UNCHANGED <<adapter, deviceStop, helper, stopFn, stopped, aborted>>

(* Mutant: the Worker stays in its cell.                                   *)
TakeWorker_Copies(d) ==
    /\ tun[d] = "take"
    /\ tun' = [tun EXCEPT ![d] = "done"]
    /\ IF d \in cell THEN EndLoop(d) ELSE UNCHANGED vars
    /\ UNCHANGED <<adapter, deviceStop, helper, stopFn, cell, stopped, aborted>>

TakeWorker(d) ==
    /\ tun[d] = "take"
    /\ tun' = [tun EXCEPT ![d] = "done"]
    /\ cell' = cell \ {d}
    /\ IF d \in cell THEN EndLoop(d) ELSE UNCHANGED vars
    /\ UNCHANGED <<adapter, deviceStop, helper, stopFn, stopped, aborted>>

-----------------------------------------------------------------------------
(* What the stop manager does meanwhile.  A receive thread that is busy    *)
(* with a registration ends its loop later.                                *)
ReceiverEnds(r) ==
    /\ helper[r] = Idle
    /\ EndLoop(r)
    /\ UNCHANGED tunVars

Dropping(t) ==
    /\ StopAll(t) \/ Release(t) \/ Leave(t) \/ Unpark(t) \/ StopCall(t) \/ Callback(t)
    /\ UNCHANGED tunVars

Helper(r) ==
    \/ TakeDeviceStop(r)
    \/ RemoveAdapter(r)
    \/ CallStopFn(r)
    \/ Dropped(r)
    \/ LookStopped(r)
    \/ CreateDevice(r)
    \/ InsertAdapter(r)
    \/ StartDevice(r)

TunThread(d) ==
    \/ Register(d)
    \/ SetStopFn(d)
    \/ ReadFails(d)
    \/ TakeWorker(d)

(* What follows a failed assertion is of no interest: the process is gone. *)
TunNext ==
    \/ \E r \in Receivers :
          \/ AddListener(r) /\ UNCHANGED tunVars
          \/ AddressChanged(r)
          \/ Helper(r)
          \/ ReceiverEnds(r)
    \/ \E d \in Tuns : TunThread(d)
    \/ \E t \in Regs : Dropping(t)
    \/ ProgramStops /\ UNCHANGED tunVars
    \/ \E w \in Waiters : WaiterStep(w) /\ UNCHANGED tunVars

TunSpec == TunInit /\ [][TunNext]_allVars

(* Threads run; a device that was shut down makes its reader fail, and a   *)
(* receive thread that was told to stop does when it is back in its loop,  *)
(* however many registrations it had to handle in between.                 *)
TunFairness ==
    /\ \A r \in Receivers :
          /\ WF_allVars(Helper(r))
          /\ SF_allVars(r \in signalled /\ ReceiverEnds(r))
    /\ \A d \in Tuns :
          /\ WF_allVars((Register(d) \/ SetStopFn(d) \/ TakeWorker(d)))
          /\ WF_allVars(d \in signalled /\ ReadFails(d))
    /\ \A t \in Regs : WF_allVars(Dropping(t))
    /\ \A w \in Waiters : WF_allVars((Check(w) \/ Resume(w)) /\ UNCHANGED tunVars)

TunFairSpec == TunSpec /\ TunFairness

-----------------------------------------------------------------------------
Threads == {"new", "created", "spawned", "setFn", "reading", "take", "done", "refused"}
HelperSteps ==
    [step : {"idle", "take", "create"}, dev : {None}]
    \cup [step : {"remove", "stop", "dropping", "look", "insert", "start"}, dev : Tuns]

TunTypeOK ==
    /\ TypeOK
    /\ adapter \in Tuns \cup {None} /\ deviceStop \in Tuns \cup {None}
    /\ helper \in [Receivers -> HelperSteps]
    /\ tun \in [Tuns -> Threads]
    /\ stopFn \subseteq Tuns /\ cell \subseteq Tuns /\ stopped \subseteq Tuns
    /\ aborted \in BOOLEAN

(* Stop before start: the assertions in DeviceAdapter::insert and          *)
(* TunDeviceHelper::start never fail.                                      *)
StopsBeforeStart == ~aborted

(* One thread at most reads a device: the address of the old device is     *)
(* gone before the new one is there.                                       *)
OneReader == Cardinality({d \in Tuns : tun[d] \in {"created", "spawned", "setFn", "reading"}}) <= 1

(* The Worker of a device is dropped once: by the receive thread that      *)
(* replaces the device, or by the device's thread.                         *)
WorkerInCell == \A d \in Tuns : d \in cell <=> worker[d] = "running"

(* A device nobody reads any more is replaced, or the client stops: it     *)
(* never goes on with a device that is dead.                               *)
DeadDeviceNoticed == \A d \in Tuns :
    adapter = d /\ tun[d] \in {"refused", "take", "done"} ~> flag \/ adapter # d

(* A device whose thread was refused by the stop manager never says that   *)
(* it stopped, and whoever wants to replace it waits for ever.             *)
WaitsInVain == \E r \in Receivers :
    helper[r].step \in {"remove", "stop", "look"} /\ tun[helper[r].dev] = "refused"

(* Stopping gets through, also in the middle of replacing a device: every  *)
(* thread ends, the callback runs and whoever is in wait gets out, with    *)
(* the one exception above.                                                *)
StopCompletes ==
    flag ~> \/ WaitsInVain
            \/ num = 0 /\ calls = 1 /\ \A w \in Waiters \ Timed : waiter[w] \in {"out", "done"}
=============================================================================
