---------------------------- MODULE StopManager -----------------------------
(***************************************************************************)
(* How the client's threads stop together (vnt/src/util/notify.rs).  Each  *)
(* thread registers a listener that ends its loop and holds a Worker.      *)
(* Whoever stops calls all listeners; the last Worker to be dropped wakes  *)
(* the threads parked in wait and runs the program's stop callback.        *)
(***************************************************************************)
EXTENDS Naturals, FiniteSets

CONSTANTS
    Regs,     \* calls of add_listener, each with the thread that owns the Worker
    NameOf,   \* the name each of them registers
    After,    \* those that must have been made before each of them is tried
    StopsAll, \* those whose thread may end with stop_all
    Drops,    \* those whose Worker may be dropped without it
    Base,     \* those that are there before the program can call wait
    Waiters,  \* threads that call wait or wait_timeout
    Timed     \* those that call wait_timeout

ASSUME StopAssumption ==
    /\ IsFiniteSet(Regs)
    /\ After \in [Regs -> SUBSET Regs]
    /\ StopsAll \subseteq Regs /\ Drops \subseteq Regs /\ Base \subseteq Regs
    /\ Timed \subseteq Waiters

VARIABLES
    flag,       \* listeners.0: stopped
    listeners,  \* listeners.1: registrations whose listener is still to be called
    signalled,  \* registrations whose listener was called
    worker,     \* registration -> where its thread is
    num,        \* worker_num
    parked,     \* park_threads
    waiter,     \* waiter -> where it is
    token,      \* waiters an unpark reached and no park consumed yet
    calls       \* how often the stop callback ran

workers == <<flag, listeners, signalled, worker, num, calls>>
waiting == <<parked, waiter, token>>
vars == <<flag, listeners, signalled, worker, num, parked, waiter, token, calls>>

Alive == {"running", "stopAll", "release", "leave"}
Steps == {"new", "refused", "unpark", "stopCall", "callback", "ended"} \cup Alive

Init ==
    /\ flag = FALSE
    /\ listeners = {}
    /\ signalled = {}
    /\ worker = [t \in Regs |-> "new"]
    /\ num = 0
    /\ parked = {}
    /\ waiter = [w \in Waiters |-> "out"]
    /\ token = {}
    /\ calls = 0

-----------------------------------------------------------------------------
Made == {t \in Regs : worker[t] \notin {"new", "refused"}}

(* VntInner::new0 starts the threads one after the other and gives up when *)
(* one is refused; mainUdp starts the tun thread.                          *)
Due(t) == worker[t] = "new" /\ After[t] \subseteq Made

(* Vnt::new has returned: the program can stop the client and wait for it. *)
Started == Base \subseteq Made

(* Mutant: the stopped flag is not looked at.                              *)
AddListener_Blind(t) ==
    /\ Due(t)
    /\ IF \E u \in listeners : NameOf[u] = NameOf[t]
       THEN /\ worker' = [worker EXCEPT ![t] = "refused"]
            /\ UNCHANGED <<listeners, num>>
       ELSE /\ worker' = [worker EXCEPT ![t] = "running"]
            /\ listeners' = listeners \cup {t}
            /\ num' = num + 1
    /\ UNCHANGED <<flag, signalled, calls, waiting>>

(* add_listener, with the Worker made before the lock is released.         *)
AddListener(t) ==
    /\ Due(t)
    /\ IF flag \/ \E u \in listeners : NameOf[u] = NameOf[t]
       THEN /\ worker' = [worker EXCEPT ![t] = "refused"]
            /\ UNCHANGED <<listeners, num>>
       ELSE /\ worker' = [worker EXCEPT ![t] = "running"]
            /\ listeners' = listeners \cup {t}
            /\ num' = num + 1
    /\ UNCHANGED <<flag, signalled, calls, waiting>>

(* The thread's loop ends, by its listener or by an error: stop_all.       *)
EndLoop(t) ==
    /\ worker[t] = "running" /\ t \in StopsAll
    /\ worker' = [worker EXCEPT ![t] = "stopAll"]
    /\ UNCHANGED <<flag, listeners, signalled, num, calls, waiting>>

(* stop_self, a plain drop, or one that unwinding does.                    *)
DropWorker(t) ==
    /\ worker[t] = "running" /\ t \in Drops
    /\ worker' = [worker EXCEPT ![t] = "release"]
    /\ UNCHANGED <<flag, listeners, signalled, num, calls, waiting>>

(* stop: everything under the lock.                                        *)
Stop ==
    /\ flag' = TRUE
    /\ signalled' = signalled \cup listeners
    /\ listeners' = {}

(* The program's Vnt::stop.                                                *)
ProgramStops ==
    /\ Started /\ ~flag
    /\ Stop
    /\ UNCHANGED <<worker, num, calls, waiting>>

StopAll(t) ==
    /\ worker[t] = "stopAll"
    /\ Stop
    /\ worker' = [worker EXCEPT ![t] = "release"]
    /\ UNCHANGED <<num, calls, waiting>>

(* Dropping a Worker, release0: the listener of its name, if it is still   *)
(* there, is called under the lock.                                        *)
Release(t) ==
    /\ worker[t] = "release"
    /\ LET mine == {u \in listeners : NameOf[u] = NameOf[t]}
       IN  /\ listeners' = listeners \ mine
           /\ signalled' = signalled \cup mine
    /\ worker' = [worker EXCEPT ![t] = "leave"]
    /\ UNCHANGED <<flag, num, calls, waiting>>

(* Mutant: the count after the subtraction is compared.                    *)
Leave_Next(t) ==
    /\ worker[t] = "leave"
    /\ num' = num - 1
    /\ worker' = [worker EXCEPT ![t] = IF num = 2 THEN "unpark" ELSE "ended"]
    /\ UNCHANGED <<flag, listeners, signalled, calls, waiting>>

(* Outside the lock: fetch_sub, and the last one has more to do.           *)
Leave(t) ==
    /\ worker[t] = "leave"
    /\ num' = num - 1
    /\ worker' = [worker EXCEPT ![t] = IF num = 1 THEN "unpark" ELSE "ended"]
    /\ UNCHANGED <<flag, listeners, signalled, calls, waiting>>

(* Mutant: one of the parked threads is taken.                             *)
Unpark_One(t) ==
    /\ worker[t] = "unpark"
    /\ \E w \in parked \cup Waiters :
          /\ parked = {} \/ w \in parked
          /\ token' = token \cup (parked \cap {w})
          /\ parked' = parked \ {w}
    /\ worker' = [worker EXCEPT ![t] = "stopCall"]
    /\ UNCHANGED <<flag, listeners, signalled, num, calls, waiter>>

Unpark(t) ==
    /\ worker[t] = "unpark"
    /\ token' = token \cup parked
    /\ parked' = {}
    /\ worker' = [worker EXCEPT ![t] = "stopCall"]
    /\ UNCHANGED <<flag, listeners, signalled, num, calls, waiter>>

StopCall(t) ==
    /\ worker[t] = "stopCall"
    /\ Stop
    /\ worker' = [worker EXCEPT ![t] = "callback"]
    /\ UNCHANGED <<num, calls, waiting>>

(* The callback is taken out of its cell and run, if it is still there.    *)
Callback(t) ==
    /\ worker[t] = "callback"
    /\ calls' = 1
    /\ worker' = [worker EXCEPT ![t] = "ended"]
    /\ UNCHANGED <<flag, listeners, signalled, num, waiting>>

-----------------------------------------------------------------------------
(* wait and wait_timeout, the latter as often as one likes.                *)
Push(w) ==
    /\ waiter[w] = "out"
    /\ Started
    /\ parked' = parked \cup {w}
    /\ waiter' = [waiter EXCEPT ![w] = "check"]
    /\ UNCHANGED <<workers, token>>

(* Mutant: the last worker is not waited for.                              *)
Check_Early(w) ==
    /\ waiter[w] = "check"
    /\ waiter' = [waiter EXCEPT ![w] = IF num <= 1 THEN "done" ELSE "park"]
    /\ UNCHANGED <<workers, parked, token>>

Check(w) ==
    /\ waiter[w] = "check"
    /\ waiter' = [waiter EXCEPT ![w] = IF num = 0 THEN "done" ELSE "park"]
    /\ UNCHANGED <<workers, parked, token>>

(* park returns with the token of an unpark, even an earlier one.          *)
Resume(w) ==
    /\ waiter[w] = "park" /\ w \in token
    /\ token' = token \ {w}
    /\ waiter' = [waiter EXCEPT ![w] = IF w \notin Timed THEN "check"
                                       ELSE IF num = 0 THEN "done" ELSE "out"]
    /\ UNCHANGED <<workers, parked>>

Timeout(w) ==
    /\ waiter[w] = "park" /\ w \in Timed
    /\ waiter' = [waiter EXCEPT ![w] = IF num = 0 THEN "done" ELSE "out"]
    /\ UNCHANGED <<workers, parked, token>>

-----------------------------------------------------------------------------
WorkerStep(t) ==
    \/ EndLoop(t)
    \/ DropWorker(t)
    \/ StopAll(t)
    \/ Release(t)
    \/ Leave(t)
    \/ Unpark(t)
    \/ StopCall(t)
    \/ Callback(t)

WaiterStep(w) ==
    \/ Push(w)
    \/ Check(w)
    \/ Resume(w)
    \/ Timeout(w)

Next ==
    \/ \E t \in Regs : AddListener(t) \/ WorkerStep(t)
    \/ ProgramStops
    \/ \E w \in Waiters : WaiterStep(w)

Spec == Init /\ [][Next]_vars

-----------------------------------------------------------------------------
TypeOK ==
    /\ flag \in BOOLEAN
    /\ listeners \subseteq Regs /\ signalled \subseteq Regs
    /\ worker \in [Regs -> Steps]
    /\ num \in Nat
    /\ parked \subseteq Waiters /\ token \subseteq Waiters
    /\ waiter \in [Waiters -> {"out", "check", "park", "done"}]
    /\ calls \in {0, 1}

(* worker_num counts the Workers that were made and not yet subtracted,    *)
(* so the subtraction never wraps and exactly the last one sees a one.     *)
CountsWorkers == num = Cardinality({t \in Regs : worker[t] \in Alive})

(* A thread whose loop runs can be told to end it, and once the client is  *)
(* stopped it was told: no thread registers into a list that was drained   *)
(* already, and no Worker takes another one's listener with it.            *)
NoLostSignal == \A t \in Regs :
    worker[t] = "running" => t \in signalled \/ (t \in listeners /\ ~flag)

(* No thread's listener is called twice, and none is called for a thread   *)
(* that is gone: a listener in the list belongs to a Worker not released.  *)
ListenersOwned == \A t \in listeners :
    worker[t] \in {"running", "stopAll", "release"} /\ t \notin signalled

(* The program hears of the stop once, when no thread of the client is left*)
(* that could still be told to stop.                                       *)
CallbackLast == calls = 1 => flag /\ num = 0

(* wait returns only when every thread of the client is through with its   *)
(* loop and its listener, and none comes after.                            *)
WaitMeansStopped == (\E w \in Waiters : waiter[w] = "done") =>
    flag /\ num = 0

(* The Workers as the threads that join and end, the stop callback as the  *)
(* news, and a wait that is done as one that returned.                     *)
Promise == INSTANCE Shutdown WITH
    joined <- Made,
    told <- signalled,
    ended <- {t \in Made : worker[t] \notin Alive},
    closed <- flag,
    heard <- calls = 1,
    returned <- {w \in Waiters : waiter[w] = "done"}

(* Through all the steps that take a lock, count and park in turn, the     *)
(* stop manager is a shutdown as the program may imagine it: every thread  *)
(* is told once and ends after, none comes in after the stop, the callback *)
(* runs once and, like the return of a wait, when nobody is left.          *)
KeepsPromise == Promise!Spec
=============================================================================
