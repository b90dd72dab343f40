----------------------------- MODULE Scheduler ------------------------------
(***************************************************************************)
(* The timer thread (vnt/src/util/scheduler.rs).  Tasks travel through a   *)
(* bounded channel into a heap ordered by due time; a task that runs arms  *)
(* itself again by try_send on the same channel, so it would be lost for   *)
(* good if the channel were full.  The stop listener sends its Stop with a *)
(* blocking send while it holds the lock of the listeners.                 *)
(*                                                                         *)
(* The tasks are those of core/conn.rs: the main thread arms some, one of  *)
(* them (start) arms the rest when it runs, all others arm themselves.     *)
(***************************************************************************)
EXTENDS Naturals, Sequences, FiniteSets, Functions

CONSTANTS
    Periodic,   \* tasks armed by the main thread: idle_gateway, retrieve_nat_type
    Delayed,    \* tasks armed by start: heartbeat, idle_route, punch, ...
    Start,      \* the one-shot task start
    Cap,        \* length of the sync_channel
    None        \* absent value

Tasks == Periodic \cup Delayed \cup {Start}

ASSUME SchedulerAssumption ==
    /\ IsFiniteSet(Tasks)
    /\ Periodic \cap Delayed = {}
    /\ Start \notin Periodic \cup Delayed
    /\ {"Stop", None} \cap Tasks = {}
    /\ None # "Stop"
    /\ Cap \in Nat /\ Cardinality(Tasks) < Cap

VARIABLES
    queue,     \* the channel: tasks and Stop
    waiting,   \* tasks of the heap whose time has not come
    due,       \* the others, earliest first
    pc,        \* where the timer thread is in run
    left,      \* thread -> tasks it has still to arm
    sending,   \* thread -> task between the test of the state and try_send
    shutdown,  \* shutdown_now of the stop listener: "no", "stored", "sent"
    ran        \* the task that is running, or ran last

vars == <<queue, waiting, due, pc, left, sending, shutdown, ran>>

Threads == {"main", "timer"}

Running == shutdown = "no"

(* Mutant: start is armed again like the others.                           *)
Arms_StartAgain(t) == IF t = Start THEN Delayed \cup {Start} ELSE {t}

(* What a task arms when it runs.                                          *)
Arms(t) == IF t = Start THEN Delayed ELSE {t}

Init ==
    /\ queue = <<>>
    /\ waiting = {}
    /\ due = <<>>
    /\ pc = "peek"
    /\ left = [th \in Threads |-> IF th = "main" THEN Periodic \cup {Start} ELSE {}]
    /\ sending = [th \in Threads |-> None]
    /\ shutdown = "no"
    /\ ran = None

-----------------------------------------------------------------------------
(* timeout: the state is read, then try_send fails fast.                   *)
Check(th, t) ==
    /\ th = "timer" => pc = "run"
    /\ sending[th] = None
    /\ t \in left[th]
    /\ left' = [left EXCEPT ![th] = @ \ {t}]
    /\ sending' = [sending EXCEPT ![th] = IF Running THEN t ELSE None]
    /\ UNCHANGED <<queue, waiting, due, pc, shutdown, ran>>

TrySend(th) ==
    /\ sending[th] # None
    /\ queue' = IF Len(queue) < Cap /\ pc # "done" THEN Append(queue, sending[th]) ELSE queue
    /\ sending' = [sending EXCEPT ![th] = None]
    /\ UNCHANGED <<waiting, due, pc, left, shutdown, ran>>

(* shutdown_now: store, then a send that blocks while the channel is full  *)
(* and fails at once when the receiver is gone.                            *)
StoreState ==
    /\ shutdown = "no"
    /\ shutdown' = "stored"
    /\ UNCHANGED <<queue, waiting, due, pc, left, sending, ran>>

(* Mutants: the send is repeated; only the state is stored.                *)
SendStop_Repeats ==
    /\ shutdown = "stored"
    /\ Len(queue) < Cap \/ pc = "done"
    /\ queue' = IF pc = "done" THEN queue ELSE Append(queue, "Stop")
    /\ UNCHANGED <<waiting, due, pc, left, sending, shutdown, ran>>

SendStop_Silent ==
    /\ shutdown = "stored"
    /\ shutdown' = "sent"
    /\ UNCHANGED <<queue, waiting, due, pc, left, sending, ran>>

SendStop ==
    /\ shutdown = "stored"
    /\ Len(queue) < Cap \/ pc = "done"
    /\ queue' = IF pc = "done" THEN queue ELSE Append(queue, "Stop")
    /\ shutdown' = "sent"
    /\ UNCHANGED <<waiting, due, pc, left, sending, ran>>

-----------------------------------------------------------------------------
(* run.  The while loop over the heap.                                     *)
HeapEmpty == waiting = {} /\ due = <<>>

Peek ==
    /\ pc = "peek"
    /\ IF HeapEmpty THEN pc' = "drain" /\ UNCHANGED <<due, left, ran>>
       ELSE IF ~Running THEN pc' = "done" /\ UNCHANGED <<due, left, ran>>
       ELSE IF due = <<>> THEN pc' = "wait" /\ UNCHANGED <<due, left, ran>>
       ELSE /\ pc' = "run"
            /\ ran' = Head(due)
            /\ due' = Tail(due)
            /\ left' = [left EXCEPT !["timer"] = Arms(Head(due))]
    /\ UNCHANGED <<queue, waiting, sending, shutdown>>

TaskEnds ==
    /\ pc = "run"
    /\ left["timer"] = {} /\ sending["timer"] = None
    /\ pc' = "peek"
    /\ UNCHANGED <<queue, waiting, due, left, sending, shutdown, ran>>

(* recv_timeout, try_recv and recv: a task goes into the heap, Stop ends   *)
(* run.                                                                    *)
Receive ==
    /\ pc \in {"wait", "drain", "recv"}
    /\ queue # <<>>
    /\ queue' = Tail(queue)
    /\ IF Head(queue) = "Stop"
       THEN pc' = "done" /\ UNCHANGED waiting
       ELSE /\ waiting' = waiting \cup {Head(queue)}
            /\ pc' = IF pc = "drain" THEN "drain" ELSE "peek"
    /\ UNCHANGED <<due, left, sending, shutdown, ran>>

Timeout ==
    /\ pc = "wait"
    /\ due # <<>>
    /\ pc' = "peek"
    /\ UNCHANGED <<queue, waiting, due, left, sending, shutdown, ran>>

(* Mutant: it waits for the channel although the heap is not empty.        *)
Drained_AlwaysWaits ==
    /\ pc = "drain"
    /\ queue = <<>>
    /\ pc' = "recv"
    /\ UNCHANGED <<queue, waiting, due, left, sending, shutdown, ran>>

Drained ==
    /\ pc = "drain"
    /\ queue = <<>>
    /\ pc' = IF HeapEmpty THEN "recv" ELSE "peek"
    /\ UNCHANGED <<queue, waiting, due, left, sending, shutdown, ran>>

(* Time reaches a task of the heap.                                        *)
Due(t) ==
    /\ t \in waiting
    /\ waiting' = waiting \ {t}
    /\ due' = Append(due, t)
    /\ UNCHANGED <<queue, pc, left, sending, shutdown, ran>>

RunStep == Peek \/ TaskEnds \/ Receive \/ Timeout \/ Drained

Next ==
    \/ \E th \in Threads, t \in Tasks : Check(th, t)
    \/ \E th \in Threads : TrySend(th)
    \/ StoreState
    \/ SendStop
    \/ RunStep
    \/ \E t \in Tasks : Due(t)

Spec == Init /\ [][Next]_vars

(* The threads keep running and time passes; nobody has to stop the client.*)
FairSpec ==
    /\ Spec
    /\ \A th \in Threads :
          WF_vars(TrySend(th)) /\ WF_vars(\E t \in Tasks : Check(th, t))
    /\ WF_vars(SendStop)
    /\ WF_vars(RunStep)
    /\ \A t \in Tasks : WF_vars(Due(t))

-----------------------------------------------------------------------------
TypeOK ==
    /\ queue \in Seq(Tasks \cup {"Stop"})
    /\ waiting \subseteq Tasks
    /\ due \in Seq(Tasks)
    /\ pc \in {"peek", "wait", "drain", "recv", "run", "done"}
    /\ left \in [Threads -> SUBSET Tasks]
    /\ sending \in [Threads -> Tasks \cup {None}]
    /\ shutdown \in {"no", "stored", "sent"}
    /\ ran \in Tasks \cup {None}

(* With fewer tasks than the channel has places no try_send ever finds it  *)
(* full, so no task is dropped, and Stop never blocks the thread that      *)
(* stops the client, which holds the lock of the listeners meanwhile.      *)
NeverFull ==
    (shutdown = "stored" \/ \E th \in Threads : sending[th] # None) => Len(queue) < Cap

(* A task is in one place: it is never armed a second time while it waits. *)
InQueue(t) == \E i \in DOMAIN queue : queue[i] = t
InDue(t) == \E i \in DOMAIN due : due[i] = t

Distinct(seq) == \A i, j \in DOMAIN seq : seq[i] = seq[j] => i = j

ArmedOnce ==
    /\ Distinct(queue)
    /\ Distinct(due)
    /\ \A t \in Tasks :
          /\ InQueue(t) => ~InDue(t) /\ t \notin waiting
          /\ InDue(t) => t \notin waiting
          /\ \A th \in Threads :
                sending[th] = t => ~InQueue(t) /\ ~InDue(t) /\ t \notin waiting

(* Until the client is stopped every periodic task runs again and again.   *)
KeepsRunning ==
    \A t \in Periodic \cup Delayed : []<>(~Running \/ (pc = "run" /\ ran = t))

(* A stop ends the timer thread and the thread that asked for it gets on,  *)
(* whatever is queued.                                                     *)
StopEndsTimer == ~Running ~> (pc = "done" /\ shutdown = "sent")
=============================================================================
