-------------------------- MODULE TunDeviceProofs ---------------------------
(***************************************************************************)
(* For any number of threads, names and waiters: the worker count is right,*)
(* no thread misses the stop, no listener outlives its Worker, and the     *)
(* program hears of the end when it is the end: the stop manager keeps the *)
(* promise of Shutdown.  The device's replacement keeps all that, since it *)
(* implements the stop manager, and never starts a device before the last  *)
(* one is gone.                                                            *)
(***************************************************************************)
EXTENDS TunDevice, FiniteSetTheorems, TLAPS

AliveNow == {t \in Regs : worker[t] \in Alive}

(* Names in the list are distinct, so a Worker's release finds its own     *)
(* listener and no other; a stopped client has no listeners left; and the  *)
(* listeners of those that gave up are gone.                               *)
IInv ==
    /\ TypeOK
    /\ CountsWorkers
    /\ NoLostSignal
    /\ ListenersOwned
    /\ flag => listeners = {}
    /\ \A t, u \in listeners : NameOf[t] = NameOf[u] => t = u
    /\ \A t \in Regs : worker[t] \in {"new", "refused"} => t \notin signalled
    /\ \A t \in Regs : worker[t] \in {"stopAll", "release"} => t \in listeners \/ t \in signalled

LEMMA AliveFinite == IsFiniteSet(AliveNow)
  BY StopAssumption, FS_Subset DEF AliveNow

LEMMA InitInv == Init => IInv
  <1> SUFFICES ASSUME Init PROVE IInv
    OBVIOUS
  <1>1. {t \in Regs : worker[t] \in Alive} = {}
    BY DEF Init, Alive
  <1>2. CountsWorkers
    BY <1>1, FS_EmptySet DEF Init, CountsWorkers
  <1> QED  BY <1>2 DEF Init, IInv, TypeOK, Steps, NoLostSignal, ListenersOwned

(* The alive threads when one changes its step.                            *)
LEMMA AliveSame ==
    ASSUME TypeOK, CountsWorkers, NEW t \in Regs, NEW s \in Steps,
           worker' = [worker EXCEPT ![t] = s], worker[t] \in Alive <=> s \in Alive, num' = num
    PROVE  CountsWorkers'
  <1>1. {x \in Regs : worker'[x] \in Alive} = {x \in Regs : worker[x] \in Alive}
    BY DEF TypeOK
  <1> QED  BY <1>1 DEF CountsWorkers

LEMMA AliveMore ==
    ASSUME TypeOK, CountsWorkers, NEW t \in Regs, worker[t] \notin Alive,
           worker' = [worker EXCEPT ![t] = "running"], num' = num + 1
    PROVE  CountsWorkers'
  <1>1. {x \in Regs : worker'[x] \in Alive} = AliveNow \cup {t}
    BY DEF TypeOK, Alive, AliveNow
  <1>2. t \notin AliveNow
    BY DEF AliveNow
  <1>3. Cardinality(AliveNow \cup {t}) = Cardinality(AliveNow) + 1
    BY <1>2, AliveFinite, FS_AddElement
  <1> QED  BY <1>1, <1>3 DEF CountsWorkers, AliveNow

LEMMA AliveLess ==
    ASSUME TypeOK, CountsWorkers, NEW t \in Regs, NEW s \in Steps \ Alive, worker[t] \in Alive,
           worker' = [worker EXCEPT ![t] = s], num' = num - 1
    PROVE  CountsWorkers' /\ num' \in Nat
  <1>1. {x \in Regs : worker'[x] \in Alive} = AliveNow \ {t}
    BY DEF TypeOK, AliveNow
  <1>2. t \in AliveNow
    BY DEF AliveNow
  <1>3. Cardinality(AliveNow \ {t}) = Cardinality(AliveNow) - 1
    BY <1>2, AliveFinite, FS_RemoveElement
  <1>4. Cardinality(AliveNow \ {t}) \in Nat
    BY AliveFinite, FS_RemoveElement, FS_CardinalityType
  <1> QED  BY <1>1, <1>3, <1>4 DEF CountsWorkers, AliveNow

-----------------------------------------------------------------------------
LEMMA AddInv == ASSUME IInv, NEW t \in Regs, AddListener(t) PROVE IInv'
  <1>0. TypeOK /\ worker[t] = "new"
    BY DEF IInv, AddListener, Due
  <1>1. CASE flag \/ \E u \in listeners : NameOf[u] = NameOf[t]
    <2>1. worker' = [worker EXCEPT ![t] = "refused"] /\ UNCHANGED <<listeners, num, flag, signalled, calls, waiting>>
      BY <1>1 DEF AddListener
    <2>2. CountsWorkers'
      BY <1>0, <2>1, AliveSame DEF IInv, Alive, Steps
    <2> QED  BY <1>0, <2>1, <2>2
             DEF IInv, TypeOK, Steps, Alive, NoLostSignal, ListenersOwned, waiting
  <1>2. CASE ~(flag \/ \E u \in listeners : NameOf[u] = NameOf[t])
    <2>1. /\ worker' = [worker EXCEPT ![t] = "running"]
          /\ listeners' = listeners \cup {t}
          /\ num' = num + 1
          /\ UNCHANGED <<flag, signalled, calls, waiting>>
      BY <1>2 DEF AddListener
    <2>2. CountsWorkers'
      BY <1>0, <2>1, AliveMore DEF IInv, Alive
    <2>3. TypeOK'
      BY <1>0, <2>1 DEF TypeOK, Steps, Alive, waiting
    <2>4. NoLostSignal' /\ ListenersOwned'
      BY <1>0, <1>2, <2>1 DEF IInv, TypeOK, NoLostSignal, ListenersOwned
    <2>5. \A x, y \in listeners' : NameOf[x] = NameOf[y] => x = y
      BY <1>2, <2>1 DEF IInv
    <2> QED  BY <1>0, <1>2, <2>1, <2>2, <2>3, <2>4, <2>5 DEF IInv, TypeOK
  <1> QED  BY <1>1, <1>2

LEMMA StopInv ==
    ASSUME IInv, Stop, NEW t \in Regs,
           \/ UNCHANGED worker
           \/ worker[t] = "stopAll" /\ worker' = [worker EXCEPT ![t] = "release"]
           \/ worker[t] = "stopCall" /\ worker' = [worker EXCEPT ![t] = "callback"],
           UNCHANGED <<num, calls, waiting>>
    PROVE  IInv'
  <1>1. CountsWorkers'
    <2>1. CASE UNCHANGED worker
      BY <2>1 DEF IInv, CountsWorkers
    <2>2. CASE ~UNCHANGED worker
      BY <2>2, AliveSame DEF IInv, Alive, Steps
    <2> QED  BY <2>1, <2>2
  <1>2. TypeOK'
    BY DEF IInv, Stop, TypeOK, Steps, Alive, waiting
  <1>3. NoLostSignal' /\ ListenersOwned' /\ listeners' = {}
    BY DEF IInv, Stop, TypeOK, NoLostSignal, ListenersOwned
  <1>4. \A x \in Regs : worker'[x] \in {"new", "refused"} => x \notin signalled'
    BY DEF IInv, Stop, TypeOK, ListenersOwned
  <1>5. \A x \in Regs : worker'[x] \in {"stopAll", "release"} => x \in listeners' \/ x \in signalled'
    BY DEF IInv, Stop, TypeOK
  <1> QED  BY <1>1, <1>2, <1>3, <1>4, <1>5 DEF IInv

LEMMA ReleaseInv == ASSUME IInv, NEW t \in Regs, Release(t) PROVE IInv'
  <1> DEFINE mine == {u \in listeners : NameOf[u] = NameOf[t]}
  <1>0. TypeOK /\ worker[t] = "release"
    BY DEF IInv, Release
  <1>1. /\ listeners' = listeners \ mine /\ signalled' = signalled \cup mine
        /\ worker' = [worker EXCEPT ![t] = "leave"]
        /\ UNCHANGED <<flag, num, calls, waiting>>
    BY DEF Release
  <1>2. CountsWorkers'
    BY <1>0, <1>1, AliveSame DEF IInv, Alive, Steps
  <1>3. TypeOK'
    BY <1>0, <1>1 DEF TypeOK, Steps, Alive, waiting
  <1>4. NoLostSignal' /\ t \notin listeners'
    BY <1>0, <1>1 DEF IInv, TypeOK, NoLostSignal
  <1>5. ListenersOwned'
    BY <1>0, <1>1, <1>4 DEF IInv, TypeOK, ListenersOwned
  <1>6. \A x \in Regs : worker'[x] \in {"new", "refused"} => x \notin signalled'
    BY <1>0, <1>1 DEF IInv, TypeOK, ListenersOwned
  <1>7. \A x \in Regs : worker'[x] \in {"stopAll", "release"} => x \in listeners' \/ x \in signalled'
    BY <1>0, <1>1 DEF IInv, TypeOK
  <1> QED  BY <1>0, <1>1, <1>2, <1>3, <1>4, <1>5, <1>6, <1>7 DEF IInv

(* The steps that touch neither the list nor what was called.              *)
LEMMA QuietInv ==
    ASSUME IInv, NEW t \in Regs, EndLoop(t) \/ DropWorker(t) \/ Leave(t) \/ Unpark(t) \/ Callback(t)
    PROVE  IInv'
  <1>0. TypeOK /\ UNCHANGED <<flag, listeners, signalled>>
    BY DEF IInv, EndLoop, DropWorker, Leave, Unpark, Callback
  <1>1. CountsWorkers' /\ TypeOK'
    <2>1. CASE EndLoop(t) \/ DropWorker(t)
      BY <1>0, <2>1, AliveSame DEF IInv, EndLoop, DropWorker, Alive, Steps, TypeOK, waiting
    <2>2. CASE Leave(t)
      <3>1. CountsWorkers' /\ num' \in Nat
        <4>1. PICK s \in {"unpark", "ended"} : worker' = [worker EXCEPT ![t] = s]
          BY <2>2 DEF Leave
        <4>2. s \in Steps \ Alive /\ worker[t] \in Alive /\ num' = num - 1
          BY <2>2, <4>1 DEF Leave, Alive, Steps
        <4>3. CountsWorkers
          BY DEF IInv
        <4> QED  BY <1>0, <4>1, <4>2, <4>3, AliveLess
      <3> QED  BY <1>0, <2>2, <3>1 DEF Leave, Alive, Steps, TypeOK, waiting
    <2>3. CASE Unpark(t)
      BY <1>0, <2>3, AliveSame DEF IInv, Unpark, Alive, Steps, TypeOK
    <2>4. CASE Callback(t)
      BY <1>0, <2>4, AliveSame DEF IInv, Callback, Alive, Steps, TypeOK, waiting
    <2> QED  BY <2>1, <2>2, <2>3, <2>4
  <1>2. \A x \in Regs : worker'[x] = worker[x] \/ (x = t /\ worker'[x] \notin {"new", "refused", "running"})
    BY <1>0 DEF EndLoop, DropWorker, Leave, Unpark, Callback, TypeOK
  <1>3. NoLostSignal'
    BY <1>0, <1>2 DEF IInv, NoLostSignal
  <1>4. ListenersOwned'
    <2>1. t \in listeners => EndLoop(t) \/ DropWorker(t)
      BY DEF IInv, ListenersOwned, Leave, Unpark, Callback
    <2>2. EndLoop(t) \/ DropWorker(t) => worker'[t] \in {"stopAll", "release"}
      BY <1>0 DEF EndLoop, DropWorker, TypeOK
    <2> QED  BY <1>0, <1>2, <2>1, <2>2 DEF IInv, ListenersOwned, TypeOK
  <1>5. \A x \in Regs : worker'[x] \in {"stopAll", "release"} => x \in listeners \/ x \in signalled
    <2>1. worker'[t] \in {"stopAll", "release"} => worker[t] = "running"
      BY <1>0 DEF EndLoop, DropWorker, Leave, Unpark, Callback, TypeOK
    <2> QED  BY <1>2, <2>1 DEF IInv, NoLostSignal
  <1> QED  BY <1>0, <1>1, <1>2, <1>3, <1>4, <1>5 DEF IInv

LEMMA WaiterInv == ASSUME IInv, NEW w \in Waiters, WaiterStep(w) PROVE IInv'
  <1>1. UNCHANGED workers
    BY DEF WaiterStep, Push, Check, Resume, Timeout
  <1>2. TypeOK'
    BY <1>1 DEF IInv, TypeOK, workers, WaiterStep, Push, Check, Resume, Timeout
  <1> QED  BY <1>1, <1>2 DEF IInv, workers, CountsWorkers, NoLostSignal, ListenersOwned

(* The strengthened invariant is inductive.                                *)
LEMMA NextInv == ASSUME IInv, [Next]_vars PROVE IInv'
  <1>1. CASE UNCHANGED vars
    BY <1>1 DEF vars, IInv, TypeOK, CountsWorkers, NoLostSignal, ListenersOwned
  <1>2. ASSUME NEW t \in Regs, AddListener(t) \/ WorkerStep(t) PROVE IInv'
    BY <1>2, AddInv, ReleaseInv, QuietInv, StopInv DEF WorkerStep, StopAll, StopCall
  <1>3. CASE ProgramStops
    <2>1. CASE Regs = {}
      BY <1>3, <2>1 DEF ProgramStops, Stop, IInv, TypeOK, CountsWorkers, NoLostSignal,
         ListenersOwned, waiting
    <2>2. CASE Regs # {}
      BY <1>3, <2>2, StopInv DEF ProgramStops
    <2> QED  BY <2>1, <2>2
  <1>4. ASSUME NEW w \in Waiters, WaiterStep(w) PROVE IInv'
    BY <1>4, WaiterInv
  <1> QED  BY <1>1, <1>2, <1>3, <1>4 DEF Next

(* So it holds of the stop manager.                                        *)
THEOREM Inductive == Spec => []IInv
  BY InitInv, NextInv, PTL DEF Spec

(* The stop manager keeps its types; in particular the stop callback runs  *)
(* at most once.                                                           *)
THEOREM TypeCorrect == Spec => []TypeOK
  BY Inductive, PTL DEF IInv

(* worker_num is the number of Workers, however adds and drops interleave. *)
THEOREM CountCorrect == Spec => []CountsWorkers
  BY Inductive, PTL DEF IInv

(* No thread misses the stop, however registrations and stops race.        *)
THEOREM SignalReaches == Spec => []NoLostSignal
  BY Inductive, PTL DEF IInv

(* No listener is called twice or outlives its Worker.                     *)
THEOREM ListenersCorrect == Spec => []ListenersOwned
  BY Inductive, PTL DEF IInv

-----------------------------------------------------------------------------
(* A Worker that may be dropped without stop_all comes after one that may  *)
(* not: the devices' threads after the receive thread, the IP proxy's      *)
(* after the scheduler's (VntInner::new0).  And there are threads before   *)
(* the program can wait.                                                   *)
Anchored == Base # {} /\ \A t \in Drops : After[t] \ Drops # {}

(* Everything has ended.                                                   *)
Over == flag /\ num = 0

(* Before the stop a Worker that is not dropped is there, if any is; the   *)
(* end of the last one, and whoever waited, are after it.                  *)
EndInv ==
    /\ ~flag => \A t \in Regs \ Drops : worker[t] \in {"new", "refused", "running", "stopAll"}
    /\ \A t \in Made : After[t] \subseteq Made
    /\ \A t \in Regs : worker[t] \in {"unpark", "stopCall", "callback"} => Over
    /\ CallbackLast
    /\ \A w \in Waiters : waiter[w] # "out" => Started
    /\ WaitMeansStopped

LEMMA InitEnd == Init => EndInv
  BY DEF Init, EndInv, Made, CallbackLast, WaitMeansStopped

(* Threads that were made stay made.                                       *)
LEMMA MadeGrows == ASSUME IInv, [Next]_vars PROVE Made \subseteq Made'
  <1>1. \A t \in Regs : worker[t] \notin {"new", "refused"} => worker'[t] \notin {"new", "refused"}
    <2>1. CASE UNCHANGED worker
      BY <2>1
    <2>2. ASSUME NEW t \in Regs, AddListener(t) \/ WorkerStep(t)
          PROVE  \A x \in Regs : worker[x] \notin {"new", "refused"}
                                    => worker'[x] \notin {"new", "refused"}
      BY <2>2 DEF IInv, TypeOK, AddListener, Due, WorkerStep, EndLoop, DropWorker, StopAll,
         Release, Leave, Unpark, StopCall, Callback
    <2> QED  BY <2>1, <2>2 DEF Next, vars, ProgramStops, WaiterStep, Push, Check, Resume,
                Timeout, workers
  <1> QED  BY <1>1 DEF Made

(* No Worker left, though there were some: the client was stopped.         *)
NoneIsLeft ==
    /\ TypeOK /\ CountsWorkers
    /\ num = 0 /\ Made # {}
    /\ \A t \in Made : After[t] \subseteq Made
    /\ ~flag => \A t \in Regs \ Drops : worker[t] \in {"new", "refused", "running", "stopAll"}

LEMMA NoneLeft == ASSUME Anchored PROVE NoneIsLeft => Over
  <1> SUFFICES ASSUME NoneIsLeft, ~flag PROVE FALSE
    BY DEF Over, NoneIsLeft, TypeOK
  <1>1. PICK t \in Made : t \notin Drops
    BY DEF Anchored, Made, NoneIsLeft
  <1>2. t \in AliveNow
    BY <1>1 DEF Made, AliveNow, Alive, NoneIsLeft
  <1>3. Cardinality(AliveNow) = 0
    BY DEF CountsWorkers, AliveNow, NoneIsLeft
  <1> QED  BY <1>2, <1>3, AliveFinite, FS_EmptySet

(* Once over, always over: nobody registers any more.                      *)
LEMMA OverStays == ASSUME IInv, [Next]_vars, Over PROVE Over'
  <1>1. AliveNow = {}
    BY AliveFinite, FS_EmptySet DEF IInv, CountsWorkers, AliveNow, Over
  <1>2. \A t \in Regs : worker[t] \notin Alive
    BY <1>1 DEF AliveNow
  <1>3. ASSUME NEW t \in Regs, AddListener(t) \/ WorkerStep(t) PROVE Over'
    BY <1>2, <1>3 DEF Over, Alive, AddListener, WorkerStep, EndLoop, DropWorker, StopAll,
       Release, Leave, Unpark, StopCall, Callback, Stop
  <1> QED  BY <1>3 DEF Over, Next, vars, ProgramStops, Stop, WaiterStep, Push, Check, Resume,
              Timeout, workers

LEMMA EndStep == ASSUME Anchored, IInv, IInv', EndInv, [Next]_vars PROVE EndInv'
  <1> DEFINE Last == {"unpark", "stopCall", "callback"}
  <1>0. TypeOK /\ TypeOK' /\ Made \subseteq Made'
    BY MadeGrows DEF IInv
  <1>1. (~flag => \A t \in Regs \ Drops :
                     worker[t] \in {"new", "refused", "running", "stopAll"})'
    <2>1. ASSUME NEW t \in Regs, AddListener(t) \/ WorkerStep(t)
          PROVE  ~flag' => \A x \in Regs \ Drops :
                              worker'[x] \in {"new", "refused", "running", "stopAll"}
      BY <1>0, <2>1 DEF EndInv, TypeOK, AddListener, WorkerStep, EndLoop, DropWorker, StopAll,
         Release, Leave, Unpark, StopCall, Callback, Stop
    <2> QED  BY <2>1 DEF EndInv, Next, vars, ProgramStops, Stop, WaiterStep, Push, Check,
                Resume, Timeout, workers
  <1>2. (\A t \in Made : After[t] \subseteq Made)'
    <2>1. ASSUME NEW t \in Made', t \notin Made PROVE After[t] \subseteq Made
      <3>1. worker'[t] # worker[t] /\ t \in Regs
        BY <1>0, <2>1 DEF Made
      <3>2. ASSUME NEW u \in Regs, AddListener(u) \/ WorkerStep(u), worker'[t] # worker[t]
            PROVE  After[t] \subseteq Made
        BY <1>0, <2>1, <3>1, <3>2 DEF Made, TypeOK, AddListener, Due, WorkerStep, EndLoop,
           DropWorker, StopAll, Release, Leave, Unpark, StopCall, Callback
      <3> QED  BY <3>1, <3>2 DEF Next, vars, ProgramStops, WaiterStep, Push, Check, Resume,
                  Timeout, workers
    <2> QED  BY <1>0, <2>1 DEF EndInv
  <1>3. (\A t \in Regs : worker[t] \in Last => Over)'
    <2> SUFFICES ASSUME NEW t \in Regs, worker'[t] \in Last PROVE Over'
      OBVIOUS
    <2>1. CASE worker[t] \in Last
      BY <2>1, OverStays DEF EndInv
    <2>2. CASE worker[t] \notin Last
      <3>1. ASSUME NEW u \in Regs, AddListener(u) \/ WorkerStep(u) PROVE Leave(t)
        BY <1>0, <2>2, <3>1 DEF TypeOK, AddListener, WorkerStep, EndLoop, DropWorker, StopAll,
           Release, Leave, Unpark, StopCall, Callback
      <3>2. Leave(t)
        BY <2>2, <3>1 DEF Next, vars, ProgramStops, WaiterStep, Push, Check, Resume, Timeout,
           workers
      <3>3. num' = 0 /\ t \in Made'
        BY <1>0, <2>2, <3>2 DEF Leave, Made, TypeOK
      <3>4. NoneIsLeft'
        BY <1>0, <1>1, <1>2, <3>3 DEF IInv, NoneIsLeft
      <3> QED  BY <3>4, NoneLeft, PTL
    <2> QED  BY <2>1, <2>2
  <1>4. CallbackLast'
    <2>1. calls' = 1 => calls = 1 \/ \E t \in Regs : worker[t] = "callback"
      BY DEF Next, vars, AddListener, WorkerStep, EndLoop, DropWorker, StopAll, Release, Leave,
         Unpark, StopCall, Callback, ProgramStops, WaiterStep, Push, Check, Resume, Timeout,
         workers
    <2>2. calls' = 1 => Over
      BY <2>1 DEF EndInv, CallbackLast, Over
    <2> QED  BY <2>2, OverStays DEF CallbackLast, Over
  <1>5. Started => Started'
    BY <1>0 DEF Started
  <1>6. (\A w \in Waiters : waiter[w] # "out" => Started)'
    <2>1. ASSUME NEW w \in Waiters, WaiterStep(w)
          PROVE  \A v \in Waiters : waiter'[v] # "out" => Started
      BY <1>0, <2>1 DEF EndInv, TypeOK, WaiterStep, Push, Check, Resume, Timeout
    <2>2. \A v \in Waiters : waiter'[v] # "out" => Started
      BY <2>1 DEF EndInv, Next, vars, AddListener, WorkerStep, EndLoop, DropWorker, StopAll,
         Release, Leave, Unpark, StopCall, Callback, ProgramStops, waiting
    <2> QED  BY <1>5, <2>2
  <1>7. WaitMeansStopped'
    <2> SUFFICES ASSUME NEW w \in Waiters, waiter'[w] = "done" PROVE Over'
      BY DEF WaitMeansStopped, Over
    <2>1. CASE waiter[w] = "done"
      BY <2>1, OverStays DEF EndInv, WaitMeansStopped, Over
    <2>2. CASE waiter[w] # "done"
      <3>1. num = 0 /\ waiter[w] # "out"
        BY <1>0, <2>2 DEF TypeOK, Next, vars, AddListener, WorkerStep, EndLoop, DropWorker,
           StopAll, Release, Leave, Unpark, StopCall, Callback, ProgramStops, waiting,
           WaiterStep, Push, Check, Resume, Timeout
      <3>2. Made # {}
        BY <3>1 DEF EndInv, Started, Anchored
      <3>3. Over
        BY <1>0, <3>1, <3>2, NoneLeft DEF EndInv, IInv, NoneIsLeft
      <3> QED  BY <3>3, OverStays
    <2> QED  BY <2>1, <2>2
  <1> QED  BY <1>1, <1>2, <1>3, <1>4, <1>6, <1>7 DEF EndInv

LEMMA EndInductive == ASSUME Anchored PROVE Spec => []EndInv
  <1>1. EndInv /\ IInv /\ IInv' /\ [Next]_vars => EndInv'
    BY EndStep
  <1> QED  BY <1>1, InitEnd, Inductive, PTL DEF Spec

(* The stop callback runs when every Worker is gone and the client stopped *)
(* for good, whichever of the threads ended it.                            *)
THEOREM CallbackIsLast == ASSUME Anchored PROVE Spec => []CallbackLast
  <1>1. EndInv => CallbackLast
    BY DEF EndInv
  <1> QED  BY <1>1, EndInductive, PTL

(* wait and wait_timeout report the end only when it is the end.           *)
THEOREM WaitIsForAll == ASSUME Anchored PROVE Spec => []WaitMeansStopped
  <1>1. EndInv => WaitMeansStopped
    BY DEF EndInv
  <1> QED  BY <1>1, EndInductive, PTL

-----------------------------------------------------------------------------
(* The promise.                                                            *)

Ended == {t \in Made : worker[t] \notin Alive}
Returned == {w \in Waiters : waiter[w] = "done"}

(* A thread through with its listener was told; one that was told before   *)
(* that was told by the stop, so its release finds no listener at all.     *)
ToldInv ==
    /\ \A t \in Regs : worker[t] \notin {"new", "refused", "running", "stopAll", "release"}
                          => t \in signalled
    /\ \A t \in signalled : worker[t] \in {"running", "stopAll", "release"} => flag

LEMMA InitTold == Init => ToldInv
  BY DEF Init, ToldInv

(* The listener a Worker's release calls is its own, or there is none.     *)
LEMMA OwnListener ==
    ASSUME IInv, ToldInv, NEW t \in Regs, worker[t] = "release"
    PROVE  {u \in listeners : NameOf[u] = NameOf[t]} = listeners \cap {t}
  <1>1. CASE t \in listeners
    BY <1>1 DEF IInv
  <1>2. CASE t \notin listeners
    <2>1. flag
      BY <1>2 DEF IInv, ToldInv
    <2> QED  BY <2>1 DEF IInv
  <1> QED  BY <1>1, <1>2

LEMMA ToldStep == ASSUME IInv, ToldInv, [Next]_vars PROVE ToldInv'
  <1>0. TypeOK
    BY DEF IInv
  <1>1. ASSUME NEW t \in Regs, AddListener(t) PROVE ToldInv'
    BY <1>0, <1>1 DEF IInv, ToldInv, TypeOK, AddListener, Due
  <1>2. ASSUME NEW t \in Regs, Release(t) PROVE ToldInv'
    <2>1. /\ listeners' = listeners \ {t}
          /\ signalled' = signalled \cup (listeners \cap {t})
          /\ t \in listeners \/ t \in signalled
      BY <1>2, OwnListener DEF IInv, Release
    <2> QED  BY <1>0, <1>2, <2>1 DEF ToldInv, TypeOK, Release
  <1>3. ASSUME NEW t \in Regs, WorkerStep(t), ~Release(t) PROVE ToldInv'
    BY <1>0, <1>3 DEF ToldInv, TypeOK, WorkerStep, EndLoop, DropWorker, StopAll, Leave, Unpark,
       StopCall, Callback, Stop
  <1>4. CASE ProgramStops
    BY <1>0, <1>4 DEF ToldInv, TypeOK, ProgramStops, Stop
  <1>5. CASE UNCHANGED workers
    BY <1>5 DEF ToldInv, workers
  <1> QED  BY <1>1, <1>2, <1>3, <1>4, <1>5 DEF Next, vars, workers, WaiterStep, Push, Check,
              Resume, Timeout

(* What the promise speaks of when one thread changes its step.            *)
LEMMA MovedAlive ==
    ASSUME TypeOK, NEW t \in Regs, NEW s \in Steps \ {"new", "refused"}, t \in Made,
           worker' = [worker EXCEPT ![t] = s], worker[t] \in Alive <=> s \in Alive
    PROVE  Made' = Made /\ Ended' = Ended
  BY DEF TypeOK, Made, Ended

(* The stop is a closing, or there was one before.                         *)
LEMMA StopCloses ==
    ASSUME IInv, ToldInv, Stop, Made' = Made, Ended' = Ended, UNCHANGED <<calls, waiter>>
    PROVE  [Promise!Next]_(Promise!vars)
  <1>1. CASE flag
    BY <1>1 DEF IInv, Stop, Promise!vars, Ended
  <1>2. CASE ~flag
    <2>1. signalled' = Made
      BY <1>2 DEF Stop, IInv, TypeOK, NoLostSignal, ListenersOwned, ToldInv, Made
    <2>2. Promise!Close
      BY <1>2, <2>1 DEF Promise!Close, Stop, Ended
    <2> QED  BY <2>2 DEF Promise!Next
  <1> QED  BY <1>1, <1>2

LEMMA OverIsAllEnded == ASSUME IInv, Over PROVE Promise!AllEnded
  <1>1. AliveNow = {}
    BY AliveFinite, FS_EmptySet DEF IInv, CountsWorkers, AliveNow, Over
  <1> QED  BY <1>1 DEF AliveNow, Over, Made, Promise!AllEnded

LEMMA WorkerPromise ==
    ASSUME IInv, EndInv, ToldInv, NEW t \in Regs, AddListener(t) \/ WorkerStep(t)
    PROVE  [Promise!Next]_(Promise!vars)
  <1>0. TypeOK
    BY DEF IInv
  <1>1. CASE AddListener(t)
    <2>1. CASE worker'[t] = "refused"
      <3>1. UNCHANGED <<Made, Ended, signalled, flag, calls, waiter>>
        BY <1>0, <1>1, <2>1 DEF TypeOK, AddListener, Due, Made, Ended, waiting
      <3> QED  BY <3>1 DEF Promise!vars, Ended
    <2>2. CASE worker'[t] # "refused"
      <3>1. ~flag /\ t \notin Made
        BY <1>0, <1>1, <2>2 DEF TypeOK, AddListener, Due, Made
      <3>2. Made' = Made \cup {t} /\ Ended' = Ended
        BY <1>0, <1>1, <2>2 DEF TypeOK, AddListener, Due, Made, Ended, Alive
      <3>3. Promise!Join(t)
        BY <1>1, <3>1, <3>2 DEF AddListener, waiting, Promise!Join, Ended
      <3> QED  BY <3>3 DEF Promise!Next
    <2> QED  BY <2>1, <2>2
  <1>2. CASE EndLoop(t) \/ DropWorker(t) \/ Unpark(t)
    <2>1. Made' = Made /\ Ended' = Ended
      BY <1>0, <1>2, MovedAlive DEF EndLoop, DropWorker, Unpark, Made, Steps, Alive
    <2> QED  BY <1>2, <2>1 DEF EndLoop, DropWorker, Unpark, waiting, Promise!vars, Ended
  <1>3. CASE StopAll(t) \/ StopCall(t)
    <2>1. Made' = Made /\ Ended' = Ended
      BY <1>0, <1>3, MovedAlive DEF StopAll, StopCall, Made, Steps, Alive
    <2> QED  BY <1>3, <2>1, StopCloses DEF StopAll, StopCall, waiting
  <1>4. CASE Release(t)
    <2>1. Made' = Made /\ Ended' = Ended
      BY <1>0, <1>4, MovedAlive DEF Release, Made, Steps, Alive
    <2>2. signalled' = signalled \cup (listeners \cap {t})
      BY <1>4, OwnListener DEF Release
    <2>3. CASE t \in listeners
      <3>1. ~flag /\ t \in Made \ signalled
        BY <1>4, <2>3 DEF IInv, ListenersOwned, Release, Made
      <3>2. Promise!TellOne(t)
        BY <1>4, <2>1, <2>2, <2>3, <3>1 DEF Release, waiting, Promise!TellOne, Ended
      <3> QED  BY <3>2 DEF Promise!Next
    <2>4. CASE t \notin listeners
      BY <1>4, <2>1, <2>2, <2>4 DEF Release, waiting, Promise!vars, Ended
    <2> QED  BY <2>3, <2>4
  <1>5. CASE Leave(t)
    <2>1. t \in signalled \ Ended
      BY <1>5 DEF Leave, ToldInv, Ended, Alive
    <2>2. Made' = Made /\ Ended' = Ended \cup {t}
      BY <1>0, <1>5 DEF TypeOK, Leave, Made, Ended, Alive
    <2>3. Promise!End(t)
      BY <1>5, <2>1, <2>2 DEF Leave, waiting, Promise!End, Ended
    <2> QED  BY <2>3 DEF Promise!Next
  <1>6. CASE Callback(t)
    <2>1. Made' = Made /\ Ended' = Ended
      BY <1>0, <1>6, MovedAlive DEF Callback, Made, Steps, Alive
    <2>2. Promise!AllEnded
      BY <1>6, OverIsAllEnded DEF EndInv, Callback
    <2>3. CASE calls = 1
      BY <1>6, <2>1, <2>3 DEF Callback, waiting, Promise!vars, Ended
    <2>4. CASE calls # 1
      <3>1. Promise!Hear
        BY <1>6, <2>1, <2>2, <2>4 DEF Callback, waiting, Promise!Hear, Ended
      <3> QED  BY <3>1 DEF Promise!Next
    <2> QED  BY <2>3, <2>4
  <1> QED  BY <1>1, <1>2, <1>3, <1>4, <1>5, <1>6 DEF WorkerStep

(* A wait that is done was the last to look at a count of zero.            *)
LEMMA WaiterPromise ==
    ASSUME IInv, EndInv', NEW w \in Waiters, WaiterStep(w)
    PROVE  [Promise!Next]_(Promise!vars)
  <1>0. TypeOK /\ UNCHANGED <<workers, Made, Ended>>
    BY DEF IInv, WaiterStep, Push, Check, Resume, Timeout, workers, Made, Ended
  <1>1. CASE waiter'[w] = "done"
    <2>1. w \in Returned' /\ Returned' = Returned \cup {w}
      BY <1>0, <1>1 DEF TypeOK, WaiterStep, Push, Check, Resume, Timeout, Returned
    <2>2. Over
      BY <1>0, <1>1 DEF EndInv, WaitMeansStopped, Over, workers
    <2>3. Promise!Return(w)
      BY <1>0, <2>1, <2>2, OverIsAllEnded DEF Promise!Return, workers, Ended, Returned
    <2> QED  BY <2>3 DEF Promise!Next
  <1>2. CASE waiter'[w] # "done"
    <2>1. Returned' = Returned
      BY <1>0, <1>2 DEF TypeOK, WaiterStep, Push, Check, Resume, Timeout, Returned
    <2> QED  BY <1>0, <2>1 DEF Promise!vars, workers, Ended, Returned
  <1> QED  BY <1>1, <1>2

LEMMA PromiseStep ==
    ASSUME IInv, EndInv, EndInv', ToldInv, [Next]_vars PROVE [Promise!Next]_(Promise!vars)
  <1>1. CASE UNCHANGED vars
    BY <1>1 DEF vars, Promise!vars, Made
  <1>2. CASE ProgramStops
    <2>1. UNCHANGED <<Made, Ended, calls, waiter>>
      BY <1>2 DEF ProgramStops, waiting, Made, Ended
    <2> QED  BY <1>2, <2>1, StopCloses DEF ProgramStops
  <1> QED  BY <1>1, <1>2, WorkerPromise, WaiterPromise DEF Next

(* However listeners, counts and wake-ups interleave, the stop manager is  *)
(* a shutdown that tells everybody once, closes once and reports the end   *)
(* when it is the end.                                                     *)
THEOREM StopIsPromised == ASSUME Anchored PROVE Spec => KeepsPromise
  <1>1. Init => Promise!Init
    BY DEF Init, Made, Promise!Init
  <1>2. IInv /\ ToldInv /\ [Next]_vars => ToldInv'
    BY ToldStep
  <1>3. IInv /\ EndInv /\ EndInv' /\ ToldInv /\ [Next]_vars => [Promise!Next]_(Promise!vars)
    BY PromiseStep
  <1> QED  BY <1>1, <1>2, <1>3, InitTold, Inductive, EndInductive, PTL
              DEF Spec, KeepsPromise, Promise!Spec

-----------------------------------------------------------------------------
(* The devices.                                                            *)

LEMMA TunsRegister == Tuns \subseteq Regs /\ Receivers \subseteq Regs
  BY TunAssumption

(* A Worker is in its cell while its thread's loop is to run.              *)
CellInv == TunTypeOK /\ WorkerInCell

LEMMA InitCell == TunInit => CellInv
  <1> SUFFICES ASSUME TunInit PROVE CellInv
    OBVIOUS
  <1>1. TypeOK
    BY InitInv DEF TunInit, IInv
  <1>2. helper \in [Receivers -> HelperSteps]
    BY DEF TunInit, Idle, At, HelperSteps
  <1> QED  BY <1>1, <1>2, TunsRegister
           DEF TunInit, Init, CellInv, TunTypeOK, WorkerInCell, Threads

(* What a receive thread is at, and with which device.                     *)
LEMMA HelperFacts ==
    ASSUME TunTypeOK, NEW r \in Receivers
    PROVE  /\ helper[r].step \in {"idle", "take", "create", "remove", "stop", "dropping", "look",
                                  "insert", "start"}
           /\ helper[r].step \notin {"idle", "take", "create"} => helper[r].dev \in Tuns
           /\ helper[r].step = "idle" => helper[r] = Idle
  BY DEF TunTypeOK, HelperSteps, Idle, At

LEMMA GoesType ==
    ASSUME TunTypeOK, NEW r \in Receivers, NEW h \in HelperSteps, Goes(r, h)
    PROVE  helper' \in [Receivers -> HelperSteps]
  BY DEF TunTypeOK, Goes

LEMMA AtType ==
    /\ \A s \in {"idle", "take", "create"} : At(s, None) \in HelperSteps
    /\ \A s \in {"remove", "stop", "dropping", "look", "insert", "start"} :
          \A d \in Tuns : At(s, d) \in HelperSteps
    /\ Idle \in HelperSteps
  BY DEF At, Idle, HelperSteps

(* Each step of the composition is a step of the stop manager, or none.    *)
LEMMA TunStep == ASSUME CellInv, [TunNext]_allVars PROVE [Next]_vars
  <1>1. ASSUME NEW r \in Receivers, Helper(r) PROVE [Next]_vars
    <2>1. CASE CallStopFn(r)
      <3>1. helper[r].dev \in Regs
        BY <2>1, HelperFacts, TunsRegister DEF CallStopFn, CellInv
      <3>2. DropWorker(helper[r].dev) \/ UNCHANGED vars
        BY <2>1 DEF CallStopFn
      <3> QED  BY <3>1, <3>2 DEF Next, WorkerStep
    <2>2. CASE ~CallStopFn(r)
      BY <1>1, <2>2 DEF Helper, TakeDeviceStop, RemoveAdapter, Dropped, LookStopped,
         CreateDevice, InsertAdapter, StartDevice
    <2> QED  BY <2>1, <2>2
  <1>2. ASSUME NEW d \in Tuns, TunThread(d) PROVE [Next]_vars
    <2>1. AddListener(d) \/ EndLoop(d) \/ UNCHANGED vars
      BY <1>2 DEF TunThread, Register, SetStopFn, ReadFails, TakeWorker
    <2> QED  BY <2>1, TunsRegister DEF Next, WorkerStep
  <1>3. ASSUME NEW r \in Receivers,
               (AddListener(r) /\ UNCHANGED tunVars) \/ AddressChanged(r) \/ ReceiverEnds(r)
        PROVE  [Next]_vars
    BY <1>3, TunsRegister DEF AddressChanged, ReceiverEnds, Next, WorkerStep
  <1>4. ASSUME NEW t \in Regs, Dropping(t) PROVE [Next]_vars
    BY <1>4 DEF Dropping, Next, WorkerStep
  <1>5. CASE UNCHANGED allVars
    BY <1>5 DEF allVars, vars
  <1> QED  BY <1>1, <1>2, <1>3, <1>4, <1>5 DEF TunNext, Next

(* What a step of the stop manager alone does to the devices' Workers.     *)
LEMMA RunningSame ==
    ASSUME TunTypeOK,
           \/ \E r \in Receivers : AddListener(r) \/ EndLoop(r)
           \/ \E t \in Regs : Dropping(t)
           \/ ProgramStops
           \/ \E w \in Waiters : WaiterStep(w)
           \/ UNCHANGED vars
    PROVE  \A d \in Tuns : worker'[d] = "running" <=> worker[d] = "running"
  <1>0. TypeOK
    BY DEF TunTypeOK
  <1>1. ASSUME NEW r \in Receivers, AddListener(r) \/ EndLoop(r)
        PROVE  \A d \in Tuns : worker'[d] = worker[d]
    BY <1>0, <1>1, TunAssumption DEF TypeOK, AddListener, EndLoop
  <1>2. ASSUME NEW t \in Regs, Dropping(t)
        PROVE  \A d \in Regs : worker'[d] = "running" <=> worker[d] = "running"
    BY <1>0, <1>2 DEF TypeOK, Dropping, StopAll, Release, Leave, Unpark, StopCall, Callback
  <1> QED  BY <1>1, <1>2, TunsRegister
           DEF vars, ProgramStops, WaiterStep, Push, Check, Resume, Timeout, workers

LEMMA CellStep == ASSUME CellInv, TypeOK', [TunNext]_allVars PROVE CellInv'
  <1>0. TunTypeOK /\ WorkerInCell /\ TypeOK
    BY DEF CellInv, TunTypeOK
  <1> DEFINE Same == \A d \in Tuns : worker'[d] = "running" <=> worker[d] = "running"
  <1>1. ASSUME NEW r \in Receivers, Helper(r) PROVE CellInv'
    <2>1. helper[r].step \notin {"idle", "take", "create"} => helper[r].dev \in Tuns
      BY <1>0, HelperFacts
    <2>2. CASE TakeDeviceStop(r)
      <3>1. helper' \in [Receivers -> HelperSteps]
        BY <1>0, <2>2, GoesType, AtType DEF TakeDeviceStop, TunTypeOK
      <3> QED  BY <1>0, <2>2, <3>1 DEF TakeDeviceStop, CellInv, TunTypeOK, WorkerInCell, vars
    <2>3. CASE RemoveAdapter(r)
      <3>1. helper' \in [Receivers -> HelperSteps]
        BY <1>0, <2>1, <2>3, GoesType, AtType DEF RemoveAdapter
      <3> QED  BY <1>0, <2>3, <3>1 DEF RemoveAdapter, CellInv, TunTypeOK, WorkerInCell, vars
    <2>4. CASE CallStopFn(r)
      <3> DEFINE d == helper[r].dev
      <3>0. d \in Tuns /\ d \in Regs
        BY <2>1, <2>4, TunsRegister DEF CallStopFn
      <3>1. helper' \in [Receivers -> HelperSteps]
        BY <1>0, <2>4, <3>0, GoesType, AtType DEF CallStopFn
      <3>2. CASE d \in stopFn /\ d \in cell
        <4>1. DropWorker(d) /\ cell' = cell \ {d}
          BY <2>4, <3>2 DEF CallStopFn
        <4>2. WorkerInCell'
          BY <1>0, <3>0, <4>1, TunsRegister DEF WorkerInCell, DropWorker, TypeOK
        <4> QED  BY <1>0, <2>4, <3>1, <4>1, <4>2 DEF CallStopFn, CellInv, TunTypeOK
      <3>3. CASE ~(d \in stopFn /\ d \in cell)
        BY <1>0, <2>4, <3>1, <3>3 DEF CallStopFn, CellInv, TunTypeOK, WorkerInCell, vars
      <3> QED  BY <3>2, <3>3
    <2>5. CASE Dropped(r)
      <3>1. helper' \in [Receivers -> HelperSteps]
        BY <1>0, <2>1, <2>5, GoesType, AtType DEF Dropped
      <3> QED  BY <1>0, <2>5, <3>1 DEF Dropped, CellInv, TunTypeOK, WorkerInCell, vars
    <2>6. CASE LookStopped(r)
      <3>1. helper' \in [Receivers -> HelperSteps]
        BY <1>0, <2>1, <2>6, GoesType, AtType DEF LookStopped
      <3> QED  BY <1>0, <2>6, <3>1 DEF LookStopped, CellInv, TunTypeOK, WorkerInCell, vars
    <2>7. CASE CreateDevice(r)
      <3>1. helper' \in [Receivers -> HelperSteps]
        BY <1>0, <2>7, GoesType, AtType DEF CreateDevice
      <3>2. tun' \in [Tuns -> Threads]
        BY <1>0, <2>7 DEF CreateDevice, TunTypeOK, Threads
      <3> QED  BY <1>0, <2>7, <3>1, <3>2 DEF CreateDevice, CellInv, TunTypeOK, WorkerInCell, vars
    <2>8. CASE InsertAdapter(r)
      <3>1. helper' \in [Receivers -> HelperSteps]
        BY <1>0, <2>1, <2>8, GoesType, AtType DEF InsertAdapter
      <3>2. adapter' \in Tuns /\ aborted' \in BOOLEAN
        BY <1>0, <2>1, <2>8 DEF InsertAdapter
      <3> QED  BY <1>0, <2>8, <3>1, <3>2 DEF InsertAdapter, CellInv, TunTypeOK, WorkerInCell, vars
    <2>9. CASE StartDevice(r)
      <3>1. helper' \in [Receivers -> HelperSteps]
        BY <1>0, <2>9, GoesType, AtType DEF StartDevice
      <3>2. deviceStop' \in Tuns /\ tun' \in [Tuns -> Threads] /\ aborted' \in BOOLEAN
        BY <1>0, <2>1, <2>9 DEF StartDevice, TunTypeOK, Threads
      <3> QED  BY <1>0, <2>9, <3>1, <3>2 DEF StartDevice, CellInv, TunTypeOK, WorkerInCell, vars
    <2> QED  BY <1>1, <2>2, <2>3, <2>4, <2>5, <2>6, <2>7, <2>8, <2>9 DEF Helper
  <1>2. ASSUME NEW d \in Tuns, TunThread(d) PROVE CellInv'
    <2>1. tun' \in [Tuns -> Threads]
      BY <1>0, <1>2 DEF TunThread, Register, SetStopFn, ReadFails, TakeWorker, TunTypeOK, Threads
    <2>2. CASE Register(d)
      <3>1. AddListener(d) /\ worker[d] = "new" /\ worker'[d] \in {"running", "refused"}
            /\ (\A x \in Tuns \ {d} : worker'[x] = worker[x])
        BY <1>0, <2>2, TunsRegister DEF Register, AddListener, Due, TypeOK
      <3>2. WorkerInCell'
        BY <1>0, <2>2, <3>1 DEF Register, WorkerInCell
      <3> QED  BY <1>0, <2>1, <2>2, <3>2 DEF Register, CellInv, TunTypeOK
    <2>3. CASE SetStopFn(d) \/ ReadFails(d)
      BY <1>0, <2>1, <2>3 DEF SetStopFn, ReadFails, CellInv, TunTypeOK, WorkerInCell, vars
    <2>4. CASE TakeWorker(d)
      <3>1. WorkerInCell'
        BY <1>0, <2>4, TunsRegister DEF TakeWorker, EndLoop, WorkerInCell, TypeOK, vars
      <3> QED  BY <1>0, <2>1, <2>4, <3>1 DEF TakeWorker, CellInv, TunTypeOK
    <2> QED  BY <1>2, <2>2, <2>3, <2>4 DEF TunThread
  <1>3. ASSUME NEW r \in Receivers, AddressChanged(r) PROVE CellInv'
    <2>1. helper' \in [Receivers -> HelperSteps]
      BY <1>0, <1>3, GoesType, AtType DEF AddressChanged
    <2> QED  BY <1>0, <1>3, <2>1 DEF AddressChanged, CellInv, TunTypeOK, WorkerInCell, vars
  <1>4. ASSUME UNCHANGED tunVars, Same PROVE CellInv'
    BY <1>0, <1>4 DEF CellInv, TunTypeOK, WorkerInCell, tunVars
  <1>5. ASSUME NEW r \in Receivers, (AddListener(r) /\ UNCHANGED tunVars) \/ ReceiverEnds(r)
        PROVE  CellInv'
    BY <1>0, <1>4, <1>5, RunningSame DEF ReceiverEnds
  <1>6. ASSUME NEW t \in Regs, Dropping(t) PROVE CellInv'
    BY <1>0, <1>4, <1>6, RunningSame DEF Dropping
  <1>7. CASE \/ ProgramStops /\ UNCHANGED tunVars
             \/ \E w \in Waiters : WaiterStep(w) /\ UNCHANGED tunVars
    BY <1>0, <1>4, <1>7, RunningSame
  <1>8. CASE UNCHANGED allVars
    BY <1>0, <1>4, <1>8, RunningSame DEF allVars
  <1> QED  BY <1>1, <1>2, <1>3, <1>5, <1>6, <1>7, <1>8 DEF TunNext

(* The replacement of the device is an environment of the stop manager as  *)
(* the stop manager allows: what holds of it alone holds of both.          *)
THEOREM TunImplements == TunSpec => Spec
  <1>1. TunInit => Init /\ IInv /\ CellInv
    BY InitInv, InitCell DEF TunInit
  <1>2. IInv /\ CellInv /\ [TunNext]_allVars => IInv' /\ CellInv' /\ [Next]_vars
    <2> SUFFICES ASSUME IInv, CellInv, [TunNext]_allVars PROVE IInv' /\ CellInv' /\ [Next]_vars
      OBVIOUS
    <2>1. [Next]_vars
      BY TunStep
    <2>2. IInv' /\ TypeOK'
      BY <2>1, NextInv DEF IInv
    <2> QED  BY <2>1, <2>2, CellStep
  <1> QED  BY <1>1, <1>2, PTL DEF TunSpec, Spec

LEMMA CellsInductive == TunSpec => []CellInv
  <1>1. CellInv /\ TypeOK' /\ [TunNext]_allVars => CellInv'
    BY CellStep
  <1> QED  BY <1>1, InitCell, TunImplements, TypeCorrect, PTL DEF TunSpec

(* The replacement of the device keeps its types.                          *)
THEOREM DeviceTypes == TunSpec => []TunTypeOK
  BY CellsInductive, PTL DEF CellInv

(* The Worker of a device is dropped once, by whoever takes it out of its  *)
(* cell, however the two threads race and however many receive threads     *)
(* there are.                                                              *)
THEOREM WorkersInCells == TunSpec => []WorkerInCell
  BY CellsInductive, PTL DEF CellInv

(* Replacing devices while the client runs and stops changes nothing about *)
(* that promise: their threads come and go as the stop manager's do.       *)
THEOREM DevicesKeepPromise == ASSUME Anchored PROVE TunSpec => KeepsPromise
  BY TunImplements, StopIsPromised, PTL

(* No device's thread misses the stop while it is being replaced.          *)
THEOREM DevicesHear == TunSpec => []NoLostSignal
  BY TunImplements, SignalReaches, PTL

-----------------------------------------------------------------------------
(* Registrations are answered on one channel, as long as the others are    *)
(* not used for them.                                                      *)
OneReceiver == \E r : Receivers = {r}

LiveSteps == {"created", "spawned", "setFn", "reading"}
OnlyLive(x) == \A d \in Tuns : tun[d] \in LiveSteps => d = x

(* The cells hold the device there is, and are emptied in the order in     *)
(* which it goes.                                                          *)
HelperOK(h) ==
    /\ h.step \in {"idle", "take"} => deviceStop = adapter /\ OnlyLive(deviceStop)
    /\ h.step \notin {"idle", "take"} => deviceStop = None
    /\ h.step \in {"remove", "start"} => adapter = h.dev
    /\ h.step \in {"stop", "dropping", "look", "create", "insert"} => adapter = None
    /\ h.step \notin {"idle", "take"} => OnlyLive(h.dev)
    /\ h.step \in {"insert", "start"} => tun[h.dev] = "created"

LiveInv ==
    /\ \A r \in Receivers : HelperOK(helper[r])
    /\ \A d \in stopped : tun[d] \in {"take", "done"}
    /\ StopsBeforeStart

LEMMA InitLive == TunInit => LiveInv
  BY DEF TunInit, LiveInv, HelperOK, Idle, At, OnlyLive, LiveSteps, StopsBeforeStart

LEMMA OthersLive ==
    ASSUME TunTypeOK, LiveInv, UNCHANGED <<adapter, deviceStop, helper, aborted>>,
           NEW d \in Tuns, TunThread(d)
    PROVE  LiveInv'
  <1>1. \A x \in Tuns : tun'[x] \in LiveSteps => tun[x] \in LiveSteps
    BY DEF TunTypeOK, TunThread, Register, SetStopFn, ReadFails, TakeWorker, LiveSteps
  <1>2. \A x \in Tuns : tun[x] = "created" => tun'[x] = "created"
    BY DEF TunTypeOK, TunThread, Register, SetStopFn, ReadFails, TakeWorker
  <1>3. \A x \in stopped' : tun'[x] \in {"take", "done"}
    BY DEF TunTypeOK, LiveInv, TunThread, Register, SetStopFn, ReadFails, TakeWorker
  <1>4. \A x : OnlyLive(x) => OnlyLive(x)'
    BY <1>1 DEF OnlyLive
  <1>5. ASSUME NEW r \in Receivers PROVE HelperOK(helper[r])'
    <2>1. HelperOK(helper[r]) /\ helper[r]' = helper[r]
      BY DEF LiveInv
    <2>2. helper[r].step \in {"insert", "start"} => helper[r].dev \in Tuns
      BY HelperFacts
    <2> QED  BY <1>2, <1>4, <2>1, <2>2 DEF HelperOK
  <1> QED  BY <1>3, <1>5 DEF LiveInv, StopsBeforeStart

(* The steps of the one receive thread.                                    *)
LEMMA HelperLive ==
    ASSUME TunTypeOK, LiveInv, NEW r, Receivers = {r}, Helper(r) \/ AddressChanged(r)
    PROVE  LiveInv'
  <1> DEFINE h == helper[r]
             g == helper'[r]
  <1>0. HelperOK(h) /\ r \in Receivers /\ h \in HelperSteps
    BY DEF LiveInv, TunTypeOK
  <1>1. h.step \notin {"idle", "take", "create"} => h.dev \in Tuns
    BY <1>0, HelperFacts
  <1>2. \A s, d : Goes(r, At(s, d)) => g.step = s /\ g.dev = d
    BY <1>0 DEF Goes, At, TunTypeOK
  <1>3. SUFFICES HelperOK(h)' /\ (\A d \in stopped' : tun'[d] \in {"take", "done"}) /\ ~aborted'
    BY DEF LiveInv, StopsBeforeStart
  <1>4. ~aborted /\ \A d \in stopped : tun[d] \in {"take", "done"}
    BY DEF LiveInv, StopsBeforeStart
  <1>5. CASE AddressChanged(r)
    <2>1. g.step = "take" /\ UNCHANGED <<adapter, deviceStop, tun, stopped, aborted>>
      BY <1>2, <1>5 DEF AddressChanged
    <2>2. h.step = "idle"
      BY <1>5 DEF AddressChanged, Idle, At
    <2> QED  BY <1>0, <1>4, <2>1, <2>2 DEF HelperOK, OnlyLive
  <1>6. CASE TakeDeviceStop(r)
    <2>1. /\ \/ g.step = "create" /\ g.dev = None /\ deviceStop = None
             \/ g.step = "remove" /\ g.dev = deviceStop
          /\ deviceStop' = None /\ h.step = "take" /\ UNCHANGED <<adapter, tun, stopped, aborted>>
      BY <1>2, <1>6 DEF TakeDeviceStop
    <2> QED  BY <1>0, <1>4, <2>1 DEF HelperOK, OnlyLive
  <1>7. CASE RemoveAdapter(r)
    <2>1. /\ g.step = "stop" /\ g.dev = h.dev /\ h.step = "remove" /\ adapter' = None
          /\ UNCHANGED <<deviceStop, tun, stopped, aborted>>
      BY <1>2, <1>7 DEF RemoveAdapter
    <2> QED  BY <1>0, <1>4, <2>1 DEF HelperOK, OnlyLive
  <1>8. CASE CallStopFn(r) \/ Dropped(r)
    <2>1. /\ g.step \in {"dropping", "look"} /\ g.dev = h.dev /\ h.step \in {"stop", "dropping"}
          /\ UNCHANGED <<adapter, deviceStop, tun, stopped, aborted>>
      BY <1>2, <1>8 DEF CallStopFn, Dropped
    <2> QED  BY <1>0, <1>4, <2>1 DEF HelperOK, OnlyLive
  <1>9. CASE LookStopped(r)
    <2>1. h.step = "look" /\ UNCHANGED <<adapter, deviceStop, tun, stopped, aborted>>
      BY <1>9 DEF LookStopped
    <2>2. CASE h.dev \in stopped
      <3>1. g.step = "create" /\ g.dev = None
        BY <1>2, <1>9, <2>2 DEF LookStopped
      <3>2. OnlyLive(None)
        BY <1>0, <1>4, <2>1, <2>2 DEF HelperOK, OnlyLive, LiveSteps
      <3> QED  BY <1>0, <1>4, <2>1, <3>1, <3>2 DEF HelperOK, OnlyLive
    <2>3. CASE h.dev \notin stopped
      <3>1. g.step = "stop" /\ g.dev = h.dev
        BY <1>2, <1>9, <2>3 DEF LookStopped
      <3> QED  BY <1>0, <1>4, <2>1, <3>1 DEF HelperOK, OnlyLive
    <2> QED  BY <2>2, <2>3
  <1>10. CASE CreateDevice(r)
    <2>1. h.step = "create" /\ UNCHANGED <<adapter, deviceStop, stopped, aborted>>
      BY <1>10 DEF CreateDevice
    <2>2. OnlyLive(None) /\ deviceStop = None /\ adapter = None
      BY <1>0, <2>1, TunAssumption DEF HelperOK, HelperSteps
    <2>3. ASSUME NEW d \in Tuns, tun[d] = "new", tun' = [tun EXCEPT ![d] = "created"],
                 g.step = "insert" /\ g.dev = d
          PROVE  HelperOK(h)' /\ \A x \in stopped : tun'[x] \in {"take", "done"}
      <3>1. OnlyLive(d)' /\ tun'[d] = "created"
        BY <2>2, <2>3, TunAssumption DEF OnlyLive, TunTypeOK
      <3>2. \A x \in stopped : tun'[x] \in {"take", "done"}
        BY <1>4, <2>3 DEF TunTypeOK
      <3> QED  BY <2>1, <2>2, <2>3, <3>1, <3>2 DEF HelperOK
    <2>4. CASE Goes(r, Idle) /\ UNCHANGED tun
      <3>1. g.step = "idle"
        BY <1>2, <2>4 DEF Idle
      <3> QED  BY <1>4, <2>1, <2>2, <2>4, <3>1 DEF HelperOK, OnlyLive
    <2> QED  BY <1>2, <1>4, <1>10, <2>1, <2>3, <2>4 DEF CreateDevice
  <1>11. CASE InsertAdapter(r)
    <2>1. /\ g.step = "start" /\ g.dev = h.dev /\ h.step = "insert" /\ adapter' = h.dev
          /\ aborted' = (aborted \/ adapter # None)
          /\ UNCHANGED <<deviceStop, tun, stopped>>
      BY <1>2, <1>11 DEF InsertAdapter
    <2> QED  BY <1>0, <1>4, <2>1 DEF HelperOK, OnlyLive
  <1>12. CASE StartDevice(r)
    <2>1. /\ g.step = "idle" /\ h.step = "start" /\ deviceStop' = h.dev
          /\ aborted' = (aborted \/ deviceStop # None)
          /\ tun' = [tun EXCEPT ![h.dev] = "spawned"]
          /\ UNCHANGED <<adapter, stopped>>
      BY <1>2, <1>12 DEF StartDevice, Idle
    <2>2. \A x \in Tuns : tun'[x] \in LiveSteps => x = h.dev
      BY <1>0, <2>1 DEF HelperOK, OnlyLive, LiveSteps, TunTypeOK
    <2>3. \A x \in stopped : tun'[x] \in {"take", "done"}
      BY <1>0, <1>1, <1>4, <2>1 DEF HelperOK, TunTypeOK
    <2> QED  BY <1>0, <1>4, <2>1, <2>2, <2>3 DEF HelperOK, OnlyLive
  <1> QED  BY <1>5, <1>6, <1>7, <1>8, <1>9, <1>10, <1>11, <1>12 DEF Helper

LEMMA LiveStep == ASSUME OneReceiver, TunTypeOK, LiveInv, [TunNext]_allVars PROVE LiveInv'
  <1>1. ASSUME UNCHANGED tunVars PROVE LiveInv'
    BY <1>1 DEF tunVars, LiveInv, HelperOK, OnlyLive, StopsBeforeStart
  <1>2. ASSUME NEW r \in Receivers, Helper(r) \/ AddressChanged(r) PROVE LiveInv'
    <2>1. Receivers = {r}
      BY DEF OneReceiver
    <2> QED  BY <1>2, <2>1, HelperLive
  <1>3. ASSUME NEW d \in Tuns, TunThread(d) PROVE LiveInv'
    <2>1. UNCHANGED <<adapter, deviceStop, helper, aborted>>
      BY <1>3 DEF TunThread, Register, SetStopFn, ReadFails, TakeWorker
    <2> QED  BY <1>3, <2>1, OthersLive
  <1> QED  BY <1>1, <1>2, <1>3 DEF TunNext, ReceiverEnds, Dropping, allVars

LEMMA LiveInductive == ASSUME OneReceiver PROVE TunSpec => [](LiveInv /\ TunTypeOK)
  <1>1. LiveInv /\ TunTypeOK /\ [TunNext]_allVars => LiveInv'
    BY LiveStep
  <1> QED  BY <1>1, InitLive, DeviceTypes, PTL DEF TunSpec

(* With one receive thread that handles registrations, the assertions in   *)
(* DeviceAdapter::insert and TunDeviceHelper::start never fail.            *)
THEOREM StopThenStart == ASSUME OneReceiver PROVE TunSpec => []StopsBeforeStart
  BY LiveInductive, PTL DEF LiveInv

LEMMA LiveIsOne == ASSUME OneReceiver PROVE LiveInv /\ TunTypeOK => OneReader
  <1> SUFFICES ASSUME LiveInv, TunTypeOK PROVE OneReader
    OBVIOUS
  <1> DEFINE L == {d \in Tuns : tun[d] \in LiveSteps}
  <1>1. PICK r : Receivers = {r}
    BY DEF OneReceiver
  <1>2. PICK x : OnlyLive(x)
    BY <1>1 DEF LiveInv, HelperOK
  <1>3. L = {} \/ L = {x}
    BY <1>2 DEF OnlyLive
  <1>4. Cardinality(L) \in {0, 1}
    BY <1>3, FS_EmptySet, FS_Singleton
  <1> QED  BY <1>4 DEF OneReader, LiveSteps

(* With one receive thread that handles registrations, no two devices are  *)
(* there at a time, and no two threads read.                               *)
THEOREM OneDevice == ASSUME OneReceiver PROVE TunSpec => []OneReader
  BY LiveInductive, LiveIsOne, PTL
=============================================================================
