-------------------------- MODULE SchedulerProofs ---------------------------
(***************************************************************************)
(* Why the timer's channel is never full.  The inductive invariant says    *)
(* where a task may be: in at most one of the channel, the heap, the hands *)
(* of a thread about to send it, and the lists of tasks still to be armed. *)
(* A task that is about to be sent is therefore not in the channel, and    *)
(* the others, with one Stop, leave a place free.                          *)
(***************************************************************************)
EXTENDS Scheduler, FiniteSetTheorems, TLAPS

(* Everything a task can be in beside the channel and the due list.        *)
Held(t) == t \in waiting \/ \E th \in Threads : sending[th] = t \/ t \in left[th]

Anywhere(t) == InQueue(t) \/ InDue(t) \/ Held(t)

OnePlace ==
    /\ Distinct(queue)
    /\ Distinct(due)
    /\ \A t \in Tasks :
          /\ InQueue(t) => ~InDue(t) /\ ~Held(t)
          /\ InDue(t) => ~Held(t)
          /\ t \in waiting => \A th \in Threads : sending[th] # t /\ t \notin left[th]
          /\ \A th \in Threads : t \in left[th] =>
                /\ sending["main"] # t /\ sending["timer"] # t
                /\ \A other \in Threads : t \in left[other] => other = th
          /\ sending["main"] = t => sending["timer"] # t

(* start arms the delayed tasks once: while it is to come, none is about.  *)
StartFirst == Anywhere(Start) => \A t \in Delayed : ~Anywhere(t)

(* Between tasks the timer thread has nothing left to arm.                 *)
Idle == pc # "run" => left["timer"] = {} /\ sending["timer"] = None

OneStop == InQueue("Stop") => shutdown = "sent"

IInv ==
    /\ TypeOK
    /\ OnePlace
    /\ StartFirst
    /\ Idle
    /\ OneStop

-----------------------------------------------------------------------------
LEMMA Constants ==
    /\ Start \in Tasks /\ Start \notin Delayed
    /\ Delayed \subseteq Tasks /\ Periodic \subseteq Tasks
    /\ Start \notin Periodic /\ Periodic \cap Delayed = {}
    /\ "Stop" \notin Tasks /\ None \notin Tasks /\ None # "Stop"
    /\ Threads = {"main", "timer"}
  BY SchedulerAssumption DEF Tasks, Threads

(* Sequence steps in terms of which elements they hold.                    *)
LEMMA AppendFacts ==
    ASSUME NEW S, NEW seq \in Seq(S), NEW x \in S
    PROVE  /\ Append(seq, x) \in Seq(S)
           /\ \A y : (\E i \in DOMAIN Append(seq, x) : Append(seq, x)[i] = y)
                       <=> (\E i \in DOMAIN seq : seq[i] = y) \/ y = x
           /\ (Distinct(seq) /\ ~(\E i \in DOMAIN seq : seq[i] = x))
                 => Distinct(Append(seq, x))
  BY SMTT(40) DEF Distinct

LEMMA TailFacts ==
    ASSUME NEW S, NEW seq \in Seq(S), seq # <<>>
    PROVE  /\ Tail(seq) \in Seq(S)
           /\ Head(seq) \in S
           /\ \E i \in DOMAIN seq : seq[i] = Head(seq)
           /\ \A y : (\E i \in DOMAIN Tail(seq) : Tail(seq)[i] = y)
                       => (\E i \in DOMAIN seq : seq[i] = y)
           /\ Distinct(seq) =>
                 /\ Distinct(Tail(seq))
                 /\ ~ \E i \in DOMAIN Tail(seq) : Tail(seq)[i] = Head(seq)
  BY DEF Distinct

-----------------------------------------------------------------------------
LEMMA InitIInv == Init => IInv
  BY Constants DEF Init, IInv, TypeOK, OnePlace, StartFirst, Idle, OneStop, Distinct,
     InQueue, InDue, Held, Anywhere, Threads

LEMMA CheckIInv ==
    ASSUME IInv, NEW th \in Threads, NEW t \in Tasks, Check(th, t)
    PROVE  IInv'
  <1> USE Constants
  <1>1. TypeOK'
    BY DEF IInv, TypeOK, Check
  <1>2. OnePlace'
    BY DEF IInv, TypeOK, Check, OnePlace, Distinct, InQueue, InDue, Held
  <1>3. StartFirst'
    BY DEF IInv, TypeOK, Check, StartFirst, InQueue, InDue, Held, Anywhere
  <1>4. Idle'
    BY DEF IInv, TypeOK, Check, Idle
  <1>5. OneStop'
    BY DEF IInv, Check, OneStop, InQueue
  <1> QED  BY <1>1, <1>2, <1>3, <1>4, <1>5 DEF IInv

(* Only the channel grows, by a task that was in a thread's hands.         *)
LEMMA TrySendIInv ==
    ASSUME IInv, NEW th \in Threads, TrySend(th)
    PROVE  IInv'
  <1> USE Constants
  <1> DEFINE t == sending[th]
  <1>0. t \in Tasks /\ Held(t)
    BY DEF IInv, TypeOK, TrySend, Held
  <1>1. CASE queue' = queue
    <2>1. TypeOK' /\ Idle' /\ OneStop'
      BY <1>1 DEF IInv, TypeOK, Idle, OneStop, TrySend, InQueue
    <2>2. OnePlace'
      BY <1>1 DEF IInv, TypeOK, TrySend, OnePlace, Distinct, InQueue, InDue, Held
    <2>3. StartFirst'
      BY <1>1 DEF IInv, TypeOK, TrySend, StartFirst, InQueue, InDue, Held, Anywhere
    <2> QED  BY <2>1, <2>2, <2>3 DEF IInv
  <1>2. CASE queue' = Append(queue, t)
    <2>0. /\ queue' \in Seq(Tasks \cup {"Stop"})
          /\ \A y : InQueue(y)' <=> InQueue(y) \/ y = t
          /\ Distinct(queue)'
      <3>1. Distinct(queue) /\ ~InQueue(t) /\ queue \in Seq(Tasks \cup {"Stop"})
        BY <1>0 DEF IInv, TypeOK, OnePlace
      <3> HIDE DEF t
      <3> QED  BY <3>1, <1>0, <1>2, AppendFacts DEF InQueue
    <2>1. TypeOK' /\ Idle'
      BY <2>0 DEF IInv, TypeOK, Idle, TrySend
    <2>2. OneStop'
      BY <1>0, <2>0 DEF IInv, OneStop, TrySend
    <2>3. OnePlace'
      BY <1>0, <2>0 DEF IInv, TypeOK, TrySend, OnePlace, Distinct, InDue, Held
    <2>4. StartFirst'
      BY <1>0, <2>0 DEF IInv, TypeOK, TrySend, StartFirst, InDue, Held, Anywhere
    <2> QED  BY <2>1, <2>2, <2>3, <2>4 DEF IInv
  <1> QED  BY <1>1, <1>2 DEF TrySend

LEMMA StoreStateIInv ==
    ASSUME IInv, StoreState
    PROVE  IInv'
  BY DEF IInv, TypeOK, OnePlace, StartFirst, Idle, OneStop, StoreState, Distinct, InQueue,
     InDue, Held, Anywhere

LEMMA SendStopIInv ==
    ASSUME IInv, SendStop
    PROVE  IInv'
  <1> USE Constants
  <1>1. CASE queue' = queue
    BY <1>1 DEF IInv, TypeOK, OnePlace, StartFirst, Idle, OneStop, SendStop, Distinct,
       InQueue, InDue, Held, Anywhere
  <1>2. CASE queue' = Append(queue, "Stop")
    <2>0. /\ queue' \in Seq(Tasks \cup {"Stop"})
          /\ \A y : InQueue(y)' <=> InQueue(y) \/ y = "Stop"
          /\ Distinct(queue)'
      <3>1. Distinct(queue) /\ ~InQueue("Stop") /\ queue \in Seq(Tasks \cup {"Stop"})
        BY DEF IInv, TypeOK, OnePlace, OneStop, SendStop
      <3> QED  BY <3>1, <1>2, AppendFacts DEF InQueue
    <2>1. TypeOK' /\ Idle' /\ OneStop'
      BY <2>0 DEF IInv, TypeOK, Idle, OneStop, SendStop
    <2>2. OnePlace'
      BY <2>0 DEF IInv, TypeOK, SendStop, OnePlace, Distinct, InDue, Held
    <2>3. StartFirst'
      BY <2>0 DEF IInv, TypeOK, SendStop, StartFirst, InDue, Held, Anywhere
    <2> QED  BY <2>1, <2>2, <2>3 DEF IInv
  <1> QED  BY <1>1, <1>2 DEF SendStop

(* The head of the due list leaves it and what it arms is left to arm:     *)
(* itself, or the delayed tasks, which were nowhere while start was about. *)
LEMMA PeekIInv ==
    ASSUME IInv, Peek
    PROVE  IInv'
  <1> USE Constants
  <1>1. CASE UNCHANGED <<due, left, ran>>
    <2>1. TypeOK' /\ Idle' /\ OneStop'
      BY <1>1 DEF IInv, TypeOK, Idle, OneStop, Peek, InQueue
    <2>2. OnePlace'
      BY <1>1 DEF IInv, Peek, OnePlace, Distinct, InQueue, InDue, Held
    <2>3. StartFirst'
      BY <1>1 DEF IInv, Peek, StartFirst, InQueue, InDue, Held, Anywhere
    <2> QED  BY <2>1, <2>2, <2>3 DEF IInv
  <1>2. CASE /\ due # <<>> /\ pc' = "run" /\ due' = Tail(due) /\ ran' = Head(due)
             /\ left' = [left EXCEPT !["timer"] = Arms(Head(due))]
    <2>a. due \in Seq(Tasks) /\ Distinct(due)
      BY DEF IInv, TypeOK, OnePlace
    <2>b. PICK t \in Tasks : t = Head(due)
      BY <1>2, <2>a, TailFacts
    <2>0. /\ t \in Tasks /\ InDue(t)
          /\ due' \in Seq(Tasks)
          /\ \A y : InDue(y)' => InDue(y)
          /\ Distinct(due)' /\ ~InDue(t)'
      BY <1>2, <2>a, <2>b, TailFacts DEF InDue
    <2>1. left' \in [Threads -> SUBSET Tasks] /\ left'["timer"] = Arms(t)
          /\ left'["main"] = left["main"]
          /\ left["timer"] = {} /\ sending["timer"] = None
      BY <1>2, <2>b, <2>0 DEF IInv, TypeOK, Idle, Peek, Arms
    <2>2. \A y : Held(y)' <=> Held(y) \/ y \in Arms(t)
      BY <2>1 DEF Held, Peek
    <2>3. \A y \in Arms(t) : ~InQueue(y) /\ ~InDue(y)' /\ ~Held(y)
      <3>1. CASE t = Start
        BY <3>1, <2>0 DEF Arms, IInv, StartFirst, Anywhere
      <3>2. CASE t # Start
        BY <3>2, <2>0 DEF Arms, IInv, OnePlace
      <3> QED  BY <3>1, <3>2
    <2>4. UNCHANGED <<queue, waiting, sending, shutdown>>
      BY DEF Peek
    <2>5. \A y : InQueue(y)' <=> InQueue(y)
      BY <2>4 DEF InQueue
    <2>6. TypeOK' /\ Idle' /\ OneStop'
      BY <1>2, <2>b, <2>0, <2>1, <2>4, <2>5 DEF IInv, TypeOK, Idle, OneStop
    <2>7. OnePlace'
      <3>1. Distinct(queue)' /\ Distinct(due)'
        BY <2>0, <2>4 DEF IInv, OnePlace, Distinct
      <3>2. ASSUME NEW y \in Tasks
            PROVE  /\ InQueue(y)' => ~InDue(y)' /\ ~Held(y)'
                   /\ InDue(y)' => ~Held(y)'
        BY <2>0, <2>2, <2>3, <2>5 DEF IInv, OnePlace
      <3>3. ASSUME NEW y \in Tasks
            PROVE  /\ y \in waiting' => \A th \in Threads : sending'[th] # y /\ y \notin left'[th]
                   /\ \A th \in Threads : y \in left'[th] =>
                         /\ sending'["main"] # y /\ sending'["timer"] # y
                         /\ \A other \in Threads : y \in left'[other] => other = th
                   /\ sending'["main"] = y => sending'["timer"] # y
        BY <2>1, <2>3, <2>4 DEF IInv, OnePlace, Held
      <3> QED  BY <3>1, <3>2, <3>3 DEF OnePlace
    <2>8. StartFirst'
      <3>1. \A y : Anywhere(y)' => Anywhere(y) \/ y \in Arms(t)
        BY <2>0, <2>2, <2>5 DEF Anywhere
      <3>2. CASE t = Start
        BY <3>2, <2>0, <2>2, <2>3, <2>5 DEF Arms, Anywhere, StartFirst, IInv, OnePlace
      <3>3. CASE t # Start
        BY <3>3, <3>1, <2>0 DEF Arms, Anywhere, StartFirst, IInv
      <3> QED  BY <3>2, <3>3
    <2> QED  BY <2>6, <2>7, <2>8 DEF IInv
  <1> QED  BY <1>1, <1>2 DEF Peek, HeapEmpty

LEMMA PcOnly ==
    ASSUME IInv, TaskEnds \/ Timeout \/ Drained
    PROVE  IInv'
  <1>1. UNCHANGED <<queue, waiting, due, left, sending, shutdown, ran>>
    BY DEF TaskEnds, Timeout, Drained
  <1>2. TypeOK' /\ OneStop'
    BY <1>1 DEF IInv, TypeOK, OneStop, InQueue, TaskEnds, Timeout, Drained
  <1>3. Idle'
    BY <1>1 DEF IInv, Idle, TaskEnds, Timeout, Drained
  <1>4. OnePlace' /\ StartFirst'
    BY <1>1 DEF IInv, OnePlace, StartFirst, Distinct, InQueue, InDue, Held, Anywhere
  <1> QED  BY <1>2, <1>3, <1>4 DEF IInv

LEMMA ReceiveIInv ==
    ASSUME IInv, Receive
    PROVE  IInv'
  <1> USE Constants
  <1>a. /\ queue \in Seq(Tasks \cup {"Stop"}) /\ Distinct(queue)
        /\ queue # <<>> /\ queue' = Tail(queue)
    BY DEF IInv, TypeOK, OnePlace, Receive
  <1>b. PICK t \in Tasks \cup {"Stop"} : t = Head(queue)
    BY <1>a, TailFacts
  <1>0. /\ queue' \in Seq(Tasks \cup {"Stop"})
        /\ t \in Tasks \cup {"Stop"} /\ InQueue(t)
        /\ \A y : InQueue(y)' => InQueue(y)
        /\ Distinct(queue)' /\ ~InQueue(t)'
    BY <1>a, <1>b, TailFacts DEF InQueue
  <1>1. UNCHANGED <<due, left, sending, shutdown, ran>>
    BY DEF Receive
  <1>2. waiting' = waiting \/ (t \in Tasks /\ waiting' = waiting \cup {t})
    BY <1>0, <1>b DEF Receive
  <1>3. TypeOK' /\ Idle' /\ OneStop'
    BY <1>0, <1>1, <1>2 DEF IInv, TypeOK, Idle, OneStop, Receive
  <1>4. OnePlace'
    BY <1>0, <1>1, <1>2 DEF IInv, OnePlace, Distinct, InDue, Held
  <1>5. StartFirst'
    BY <1>0, <1>1, <1>2 DEF IInv, StartFirst, InDue, Held, Anywhere
  <1> QED  BY <1>3, <1>4, <1>5 DEF IInv

LEMMA DueIInv ==
    ASSUME IInv, NEW t \in Tasks, Due(t)
    PROVE  IInv'
  <1> USE Constants
  <1>0. /\ due' \in Seq(Tasks)
        /\ \A y : InDue(y)' <=> InDue(y) \/ y = t
        /\ Distinct(due)'
    <2>1. Distinct(due) /\ ~InDue(t) /\ due \in Seq(Tasks)
      BY DEF IInv, TypeOK, OnePlace, Due, Held
    <2> QED  BY <2>1, AppendFacts DEF InDue, Due
  <1>1. TypeOK' /\ Idle' /\ OneStop'
    BY <1>0 DEF IInv, TypeOK, Idle, OneStop, Due, InQueue
  <1>2. OnePlace'
    BY <1>0 DEF IInv, OnePlace, Due, Distinct, InQueue, Held
  <1>3. StartFirst'
    BY <1>0 DEF IInv, StartFirst, Due, InQueue, Held, Anywhere
  <1> QED  BY <1>1, <1>2, <1>3 DEF IInv

LEMMA NextIInv == IInv /\ [Next]_vars => IInv'
  <1> SUFFICES ASSUME IInv, [Next]_vars PROVE IInv'
    OBVIOUS
  <1>1. CASE UNCHANGED vars
    BY <1>1 DEF vars, IInv, TypeOK, OnePlace, StartFirst, Idle, OneStop, Distinct, InQueue,
       InDue, Held, Anywhere
  <1>2. CASE Next
    BY <1>2, CheckIInv, TrySendIInv, StoreStateIInv, SendStopIInv, PeekIInv, PcOnly,
       ReceiveIInv, DueIInv DEF Next, RunStep
  <1> QED  BY <1>1, <1>2

(* The timer keeps the inductive invariant.                                *)
THEOREM Inductive == Spec => []IInv
  BY InitIInv, NextIInv, PTL DEF Spec

THEOREM TypeCorrect == Spec => []TypeOK
  <1>1. IInv => TypeOK
    BY DEF IInv
  <1> QED  BY <1>1, Inductive, PTL

(* No task is armed a second time while it waits.                          *)
THEOREM TasksArmedOnce == Spec => []ArmedOnce
  <1>1. IInv => ArmedOnce
    BY Constants DEF IInv, OnePlace, ArmedOnce, Held
  <1> QED  BY <1>1, Inductive, PTL

-----------------------------------------------------------------------------
(* A sequence without repetitions is no longer than the set it is from.    *)
LEMMA DistinctLength ==
    ASSUME NEW S, IsFiniteSet(S), NEW seq \in Seq(S), Distinct(seq)
    PROVE  Len(seq) <= Cardinality(S)
  <1>1. seq \in Injection(1..Len(seq), S)
    BY DEF Distinct, Injection, IsInjective
  <1>2. IsFiniteSet(1..Len(seq)) /\ Cardinality(1..Len(seq)) = Len(seq)
    <2>1. Len(seq) \in Nat
      OBVIOUS
    <2>2. IsFiniteSet(1..Len(seq)) /\ Cardinality(1..Len(seq)) =
             IF 1 > Len(seq) THEN 0 ELSE Len(seq) - 1 + 1
      BY <2>1, FS_Interval, SMTT(40)
    <2> QED  BY <2>1, <2>2
  <1> QED  BY <1>1, <1>2, FS_Injection

(* Whoever is about to send finds a place, for every number of tasks below *)
(* the length of the channel: timeout never drops a task, shutdown_now     *)
(* never blocks.                                                           *)
THEOREM ChannelNeverFull == Spec => []NeverFull
  <1>1. IInv => NeverFull
    <2> SUFFICES ASSUME IInv PROVE NeverFull
      OBVIOUS
    <2> USE Constants
    <2>0. IsFiniteSet(Tasks) /\ Cardinality(Tasks) < Cap /\ Cardinality(Tasks) \in Nat
          /\ Cap \in Nat
      BY SchedulerAssumption, FS_CardinalityType
    <2>1. queue \in Seq(Tasks \cup {"Stop"}) /\ Distinct(queue)
      BY DEF IInv, TypeOK, OnePlace
    <2>2. ASSUME shutdown = "stored" PROVE Len(queue) < Cap
      <3>1. \A i \in DOMAIN queue : queue[i] \in Tasks
        BY <2>1, <2>2 DEF IInv, OneStop, InQueue
      <3>2. queue \in Seq(Tasks)
        BY <2>1, <3>1
      <3> QED  BY <3>2, <2>0, <2>1, DistinctLength
    <2>3. ASSUME NEW th \in Threads, sending[th] # None PROVE Len(queue) < Cap
      <3> DEFINE t == sending[th]
      <3> DEFINE S == (Tasks \ {t}) \cup {"Stop"}
      <3>1. t \in Tasks /\ ~InQueue(t)
        BY <2>3 DEF IInv, TypeOK, OnePlace, Held
      <3>2. queue \in Seq(S)
        BY <3>1, <2>1 DEF InQueue
      <3>3. IsFiniteSet(Tasks \ {t}) /\ Cardinality(Tasks \ {t}) = Cardinality(Tasks) - 1
        BY <3>1, <2>0, FS_RemoveElement
      <3>4. IsFiniteSet(S) /\ Cardinality(S) = Cardinality(Tasks)
        <4>1. "Stop" \notin Tasks \ {t}
          OBVIOUS
        <4>2. IsFiniteSet(S) /\ Cardinality(S) = Cardinality(Tasks \ {t}) + 1
          BY <4>1, <3>3, FS_AddElement
        <4> QED  BY <4>2, <3>3, <2>0
      <3> HIDE DEF S
      <3>5. Len(queue) <= Cardinality(S)
        BY <3>2, <3>4, <2>1, DistinctLength
      <3> QED  BY <3>2, <3>4, <3>5, <2>0
    <2> QED  BY <2>2, <2>3 DEF NeverFull
  <1> QED  BY <1>1, Inductive, PTL
=============================================================================
