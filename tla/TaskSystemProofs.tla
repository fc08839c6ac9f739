-------------------------- MODULE TaskSystemProofs --------------------------
(***************************************************************************)
(* Theorems about TaskSystem for any number of tasks, threads, event ids   *)
(* and any clock: its types, the places of the threads, the order of a     *)
(* shutdown and the ownership of tasks in one inductive invariant, wakeups *)
(* and due times, and that it implements TaskService.                      *)
(***************************************************************************)
EXTENDS TaskSystem, TLAPS

-----------------------------------------------------------------------------
(* Facts about the task list.                                              *)

\* Appending a task adds it to the elements; a new one leaves them distinct.
LEMMA AppendElements ==
    ASSUME NEW S, NEW s \in Seq(S), NEW t \in S
    PROVE  /\ Append(s, t) \in Seq(S)
           /\ Elements(Append(s, t)) = Elements(s) \cup {t}
           /\ Distinct(s) /\ t \notin Elements(s) => Distinct(Append(s, t))
           /\ Append(s, t) # <<>>
<1>1. /\ Append(s, t) \in Seq(S)
      /\ DOMAIN Append(s, t) = 1 .. (Len(s) + 1)
      /\ DOMAIN s = 1 .. Len(s)
      /\ Len(s) \in Nat
      /\ Append(s, t)[Len(s) + 1] = t
      /\ \A i \in 1 .. Len(s) : Append(s, t)[i] = s[i]
  OBVIOUS
<1>2. Elements(Append(s, t)) = Elements(s) \cup {t}
  BY <1>1 DEF Elements
<1>3. Distinct(s) /\ t \notin Elements(s) => Distinct(Append(s, t))
  BY <1>1 DEF Elements, Distinct
<1>4. Append(s, t) # <<>>
  BY <1>1
<1> QED
  BY <1>1, <1>2, <1>3, <1>4

\* Taking the head off a list of distinct tasks removes it from the elements.
LEMMA TailElements ==
    ASSUME NEW S, NEW s \in Seq(S), s # <<>>
    PROVE  /\ Head(s) \in S
           /\ Tail(s) \in Seq(S)
           /\ Head(s) \in Elements(s)
           /\ Elements(Tail(s)) \subseteq Elements(s)
           /\ Distinct(s) => Distinct(Tail(s))
           /\ Distinct(s) => Elements(Tail(s)) = Elements(s) \ {Head(s)}
<1>1. /\ Tail(s) \in Seq(S)
      /\ Len(s) \in Nat \ {0}
      /\ DOMAIN s = 1 .. Len(s)
      /\ DOMAIN Tail(s) = 1 .. (Len(s) - 1)
      /\ Head(s) = s[1]
      /\ \A i \in 1 .. (Len(s) - 1) : Tail(s)[i] = s[i + 1]
  OBVIOUS
<1>2. Head(s) \in S /\ Head(s) \in Elements(s)
  BY <1>1 DEF Elements
<1>5. Elements(Tail(s)) \subseteq Elements(s)
  BY <1>1 DEF Elements
<1>3. Distinct(s) => Distinct(Tail(s))
  BY <1>1 DEF Distinct
<1>4. ASSUME Distinct(s)
      PROVE  Elements(Tail(s)) = Elements(s) \ {Head(s)}
  <2>1. ASSUME NEW x \in Elements(Tail(s))
        PROVE  x \in Elements(s) /\ x # Head(s)
    BY <1>1, <1>4, <2>1 DEF Elements, Distinct
  <2>2. ASSUME NEW x \in Elements(s), x # Head(s)
        PROVE  x \in Elements(Tail(s))
    <3>1. PICK i \in 1 .. Len(s) : x = s[i]
      BY <1>1, <2>2 DEF Elements
    <3>2. i # 1 /\ i - 1 \in 1 .. (Len(s) - 1) /\ Tail(s)[i - 1] = x
      BY <1>1, <2>2, <3>1
    <3> QED
      BY <1>1, <3>2 DEF Elements
  <2> QED
    BY <2>1, <2>2
<1> QED
  BY <1>1, <1>2, <1>3, <1>4, <1>5

-----------------------------------------------------------------------------
(* Type correctness.                                                       *)

LEMMA ConstantsFacts ==
    /\ NoTask \notin AllTasks
    /\ NoDate \notin Nat
    /\ ShutdownTask \in AllTasks
    /\ Tasks \subseteq AllTasks
    /\ ShutdownTask \notin Tasks
    /\ MaxEventId \in Nat \ {0}
    /\ \A d \in Delays : Delay(d) \in Nat \ {0}
    /\ TaskExpiration \in Nat \ {0}
BY DispatcherConstants, SchedulerConstants, TaskSystemConstants DEF AllTasks, Delay

\* Deleting a task keeps the types of the heap.
LEMMA DeleteType ==
    ASSUME DispatcherTypeOK, NEW t, Delete(t)
    PROVE  /\ live' \subseteq AllTasks
           /\ expiration' \in [AllTasks -> Nat \cup {NoDate}]
BY DEF DispatcherTypeOK, Delete

\* Taking the first task keeps the types, whether there is one or not.
LEMMA TakeFrontTypes ==
    ASSUME DispatcherTypeOK, TakeFront
    PROVE  /\ taskList' \in Seq(AllTasks)
           /\ dTask' \in AllTasks \cup {NoTask}
           /\ dpc' \in DispatcherPc
<1>1. CASE taskList # <<>> /\ dispatcherState # "TERMINATED"
  <2>1. dTask' = Head(taskList) /\ taskList' = Tail(taskList) /\ dpc' = "start"
    BY <1>1 DEF TakeFront
  <2>2. taskList \in Seq(AllTasks)
    BY DEF DispatcherTypeOK
  <2>3. Head(taskList) \in AllTasks /\ Tail(taskList) \in Seq(AllTasks)
    BY <1>1, <2>2
  <2> QED
    BY <2>1, <2>3 DEF DispatcherPc
<1>2. CASE ~(taskList # <<>> /\ dispatcherState # "TERMINATED")
  BY <1>2 DEF TakeFront, DispatcherTypeOK, DispatcherPc
<1> QED
  BY <1>1, <1>2

LEMMA TypeInit == Init => TypeOK
<1> SUFFICES ASSUME Init PROVE TypeOK
  OBVIOUS
<1>1. DispatcherTypeOK
  BY ConstantsFacts DEF Init, DispatcherTypeOK, ThreadState, DispatcherPc
<1>2. SchedulerTypeOK
  BY ConstantsFacts DEF Init, SchedulerTypeOK, ThreadState, SchedulerPc
<1> QED
  BY <1>1, <1>2 DEF Init, TypeOK

\* Every step of the dispatcher thread keeps the types.
LEMMA DispatcherTypeStep ==
    ASSUME TypeOK, DispatcherStep
    PROVE  TypeOK'
<1> USE ConstantsFacts DEF TypeOK, DispatcherTypeOK, DispatcherPc
<1>1. SchedulerTypeOK' /\ UNCHANGED callVars /\ stopped' = stopped
  BY DEF DispatcherStep, SchedulerTypeOK, schedulerThread
<1>2. CASE LoopHead
  BY <1>1, <1>2 DEF LoopHead, callVars
<1>3. CASE LockAndTake
  <2>1. taskList' \in Seq(AllTasks) /\ dTask' \in AllTasks \cup {NoTask} /\ dpc' \in DispatcherPc
    BY <1>3, TakeFrontTypes DEF LockAndTake
  <2> QED
    BY <1>1, <1>3, <2>1 DEF LockAndTake, callVars
<1>4. CASE WakeAndTake
  BY <1>1, <1>4, TakeFrontTypes DEF WakeAndTake, callVars
<1>5. CASE StartTask
  BY <1>1, <1>5, DeleteType DEF StartTask, callVars
<1>6. CASE FinishTask
  BY <1>1, <1>6, DeleteType DEF FinishTask, callVars
<1>7. CASE FlushTake
  BY <1>1, <1>7, TailElements DEF FlushTake, callVars
<1>8. CASE FlushFinish
  BY <1>1, <1>8, DeleteType DEF FlushFinish, callVars
<1>9. CASE FlushSelfLock
  BY <1>1, <1>9 DEF FlushSelfLock, callVars
<1>10. CASE FlushEnd
  BY <1>1, <1>10 DEF FlushEnd, callVars
<1> QED
  BY <1>2, <1>3, <1>4, <1>5, <1>6, <1>7, <1>8, <1>9, <1>10 DEF DispatcherStep

\* Every step of the scheduler thread keeps the types.
LEMMA SchedulerTypeStep ==
    ASSUME TypeOK, SchedulerStep
    PROVE  TypeOK'
<1> USE ConstantsFacts DEF TypeOK, SchedulerTypeOK, SchedulerPc
<1>1. stopped' \subseteq Tasks /\ UNCHANGED callVars
  BY DEF SchedulerStep
<1>2. UNCHANGED dispatcherSide => DispatcherTypeOK'
  BY DEF dispatcherSide, DispatcherTypeOK
<1>3. CASE SchedulerHead
  BY <1>1, <1>2, <1>3 DEF SchedulerHead, callVars
<1>4. CASE SchedulerWait
  <2>1. wakeAt' \in Nat \cup {NoDate}
    BY <1>4 DEF SchedulerWait, IsTop, DispatcherTypeOK
  <2> QED
    BY <1>1, <1>2, <1>4, <2>1 DEF SchedulerWait, callVars
<1>5. CASE SchedulerTimeout
  BY <1>1, <1>2, <1>5 DEF SchedulerTimeout, callVars
<1>6. CASE SchedulerAwake
  BY <1>1, <1>2, <1>6 DEF SchedulerAwake, callVars
<1>7. CASE PopEvent
  <2>1. /\ eventList' \subseteq Tasks
        /\ eventIds' \subseteq 1 .. MaxEventId
        /\ sTask' \in IF spc' \in {"hand", "delete"} THEN Tasks ELSE {NoTask}
        /\ spc' \in SchedulerPc
    BY <1>7 DEF PopEvent, IsTop, RemainingIds, WasNotStopped
  <2> QED
    BY <1>1, <1>2, <1>7, <2>1 DEF PopEvent, callVars
<1>8. CASE HandOver
  <2>1. eventId' \in [AllTasks -> 0..MaxEventId]
    BY <1>8 DEF HandOver, DeleteEvent
  <2>2. sTask \in AllTasks
    BY <1>8 DEF HandOver
  <2>3. DispatcherTypeOK'
    <3>1. CASE Accepts
      <4>1. taskList' \in Seq(AllTasks)
        <5>1. taskList' = Append(taskList, sTask)
          BY <1>8, <3>1 DEF HandOver, Enqueue
        <5> QED
          BY <2>2, <5>1, AppendElements DEF DispatcherTypeOK
      <4>2. expiration' \in [AllTasks -> Nat \cup {NoDate}]
        BY <1>8, <3>1 DEF HandOver, DontExpire, DispatcherTypeOK
      <4> QED
        BY <1>8, <3>1, <4>1, <4>2 DEF HandOver, DispatcherTypeOK
    <3>2. CASE ~Accepts
      BY <1>8, <3>2, DeleteType DEF HandOver, DeleteEvent, DispatcherTypeOK
    <3> QED
      BY <3>1, <3>2
  <2> QED
    BY <1>1, <1>8, <2>1, <2>3 DEF HandOver, callVars
<1>9. CASE SchedulerSignals
  <2>1. dpc' \in DispatcherPc
    BY <1>9 DEF SchedulerSignals, NotifyDispatcher, DispatcherTypeOK, DispatcherPc
  <2> QED
    BY <1>1, <1>9, <2>1 DEF SchedulerSignals, callVars, DispatcherTypeOK
<1>10. CASE DeleteStopped
  <2>1. DispatcherTypeOK'
    BY <1>10, DeleteType DEF DeleteStopped, DeleteEvent, DispatcherTypeOK
  <2>2. eventId' \in [AllTasks -> 0 .. MaxEventId]
    BY <1>10 DEF DeleteStopped, DeleteEvent
  <2> QED
    BY <1>1, <1>10, <2>1, <2>2 DEF DeleteStopped, callVars
<1> QED
  BY <1>3, <1>4, <1>5, <1>6, <1>7, <1>8, <1>9, <1>10 DEF SchedulerStep

\* A new task or event that the dispatcher or the scheduler takes has its type.
LEMMA AddTypes ==
    ASSUME TypeOK
    PROVE  /\ \A t \in AllTasks, e \in Nat \cup {NoDate} : AddNewTask(t, e) =>
                /\ live' \subseteq AllTasks
                /\ expiration' \in [AllTasks -> Nat \cup {NoDate}]
                /\ taskList' \in Seq(AllTasks)
           /\ \A t \in Tasks, e \in Nat : AddNewEvent(t, e) =>
                /\ live' \subseteq AllTasks
                /\ expiration' \in [AllTasks -> Nat \cup {NoDate}]
                /\ eventId' \in [AllTasks -> 0..MaxEventId]
                /\ lastEventId' \in 0..MaxEventId
                /\ eventIds' \subseteq 1..MaxEventId
                /\ eventList' \subseteq Tasks
<1> USE ConstantsFacts DEF TypeOK, DispatcherTypeOK, SchedulerTypeOK
<1>1. ASSUME NEW t \in AllTasks, NEW e \in Nat \cup {NoDate}, AddNewTask(t, e)
      PROVE  /\ live' \subseteq AllTasks
             /\ expiration' \in [AllTasks -> Nat \cup {NoDate}]
             /\ taskList' \in Seq(AllTasks)
  BY <1>1, AppendElements DEF AddNewTask, Enqueue
<1>2. NextEventId \in 1..MaxEventId
  BY DEF NextEventId
<1>3. ASSUME NEW t \in Tasks, NEW e \in Nat, AddNewEvent(t, e)
      PROVE  /\ live' \subseteq AllTasks
             /\ expiration' \in [AllTasks -> Nat \cup {NoDate}]
             /\ eventId' \in [AllTasks -> 0..MaxEventId]
             /\ lastEventId' \in 0..MaxEventId
             /\ eventIds' \subseteq 1..MaxEventId
             /\ eventList' \subseteq Tasks
  BY <1>2, <1>3 DEF AddNewEvent
<1> QED
  BY <1>1, <1>3

\* A signal moves the thread it reaches to a place in its loop.
LEMMA NotifyTypes ==
    /\ dpc \in DispatcherPc => NotifyDispatcher(dpc) \in DispatcherPc
    /\ spc \in SchedulerPc => NotifyScheduler(spc) \in SchedulerPc
    /\ NotifyScheduler(spc) \in {"hand", "delete"} <=> spc \in {"hand", "delete"}
BY DEF NotifyDispatcher, NotifyScheduler, DispatcherPc, SchedulerPc

\* Every call of a task's body keeps the types.
LEMMA BodyTypeStep ==
    ASSUME TypeOK,
           \/ \E t \in Tasks, e \in Expirations : BodyAddsTask(t, e)
           \/ \E t \in Tasks, d \in Delays : BodyAddsEvent(t, d)
           \/ BodyEventAdded
           \/ \E id \in 1..MaxEventId : BodyStopsEvent(id)
           \/ BeginShutdown
    PROVE  TypeOK'
<1> USE ConstantsFacts
    DEF TypeOK, DispatcherTypeOK, SchedulerTypeOK, dispatcherLocals, eventVars,
        schedulerThread, callVars
<1>0. Expirations \subseteq Nat \cup {NoDate}
  BY DEF Expirations
<1>1. CASE \E t \in Tasks, e \in Expirations : BodyAddsTask(t, e)
  BY <1>0, <1>1, AddTypes DEF BodyAddsTask
<1>2. CASE \E t \in Tasks, d \in Delays : BodyAddsEvent(t, d)
  <2>1. PICK t \in Tasks, d \in Delays : BodyAddsEvent(t, d)
    BY <1>2
  <2>2. now + Delay(d) \in Nat /\ AddNewEvent(t, now + Delay(d))
    BY <2>1 DEF BodyAddsEvent
  <2>3. dpc' \in DispatcherPc
    BY <2>1 DEF BodyAddsEvent, DispatcherPc
  <2> QED
    BY <2>1, <2>2, <2>3, AddTypes DEF BodyAddsEvent
<1>3. CASE BodyEventAdded
  <2>1. /\ spc' \in SchedulerPc
        /\ dpc' \in DispatcherPc
        /\ spc' \in {"hand", "delete"} <=> spc \in {"hand", "delete"}
    BY <1>3, NotifyTypes DEF BodyEventAdded, DispatcherPc
  <2> QED
    BY <1>3, <2>1 DEF BodyEventAdded
<1>4. CASE \E id \in 1..MaxEventId : BodyStopsEvent(id)
  BY <1>4 DEF BodyStopsEvent, RemainingIds
<1>5. CASE BeginShutdown
  <2>1. dpc' \in DispatcherPc /\ Queued \subseteq AllTasks
    BY <1>5 DEF BeginShutdown, DispatcherPc, Queued, Elements
  <2> QED
    BY <1>5, <2>1, AddTypes DEF BeginShutdown
<1> QED
  BY <1>1, <1>2, <1>3, <1>4, <1>5

\* Every step of a shutdown keeps the types.
LEMMA ShutdownTypeStep ==
    ASSUME TypeOK, ShutdownStep
    PROVE  TypeOK'
<1> USE DEF TypeOK, DispatcherTypeOK, SchedulerTypeOK, dispatcherLocals, eventVars,
            schedulerThread, callVars, DispatcherPc, ThreadState
<1>1. CASE ShutdownStopsScheduler
  BY <1>1 DEF ShutdownStopsScheduler, StopScheduler
<1>2. CASE ShutdownStopsDispatcher
  BY <1>2 DEF ShutdownStopsDispatcher, StopDispatcher
<1>3. CASE ShutdownTerminatesScheduler
  BY <1>3 DEF ShutdownTerminatesScheduler, TerminateScheduler
<1>4. CASE ShutdownTerminatesDispatcher
  BY <1>4 DEF ShutdownTerminatesDispatcher, TerminateDispatcher
<1> QED
  BY <1>1, <1>2, <1>3, <1>4 DEF ShutdownStep

\* Every call of another thread keeps the types.
LEMMA ThreadTypeStep ==
    ASSUME TypeOK, NEW p \in Threads,
           \/ \E t \in Tasks, e \in Expirations : ThreadAddsTask(p, t, e)
           \/ \E t \in Tasks, d \in Delays : ThreadAddsEvent(p, t, d)
           \/ ThreadSignals(p)
    PROVE  TypeOK'
<1> USE ConstantsFacts
    DEF TypeOK, DispatcherTypeOK, SchedulerTypeOK, dispatcherLocals, eventVars,
        schedulerThread, callVars
<1>0. Expirations \subseteq Nat \cup {NoDate}
  BY DEF Expirations
<1>1. CASE \E t \in Tasks, e \in Expirations : ThreadAddsTask(p, t, e)
  BY <1>0, <1>1, AddTypes DEF ThreadAddsTask
<1>2. CASE \E t \in Tasks, d \in Delays : ThreadAddsEvent(p, t, d)
  <2>1. PICK t \in Tasks, d \in Delays : ThreadAddsEvent(p, t, d)
    BY <1>2
  <2>2. now + Delay(d) \in Nat /\ AddNewEvent(t, now + Delay(d))
    BY <2>1 DEF ThreadAddsEvent
  <2> QED
    BY <2>1, <2>2, AddTypes DEF ThreadAddsEvent
<1>3. CASE ThreadSignals(p)
  <2>1. /\ spc' \in SchedulerPc
        /\ dpc' \in DispatcherPc
        /\ spc' \in {"hand", "delete"} <=> spc \in {"hand", "delete"}
    BY <1>3, NotifyTypes DEF ThreadSignals
  <2> QED
    BY <1>3, <2>1 DEF ThreadSignals
<1> QED
  BY <1>1, <1>2, <1>3

\* Every step of the system keeps the types.
LEMMA TypeStep == TypeOK /\ [Next]_vars => TypeOK'
<1> SUFFICES ASSUME TypeOK, [Next]_vars PROVE TypeOK'
  OBVIOUS
<1> USE DEF TypeOK, DispatcherTypeOK, SchedulerTypeOK
<1>1. CASE Tick
  BY <1>1 DEF Tick, dispatcherLocals, eventVars, schedulerThread, callVars
<1>2. CASE SpuriousWakeup
  <2>1. CASE SpuriousTaskWakeup /\ UNCHANGED <<eventVars, schedulerThread, callVars>>
    BY <2>1 DEF SpuriousTaskWakeup, eventVars, schedulerThread, callVars, DispatcherPc
  <2>2. CASE SpuriousEventWakeup /\ UNCHANGED <<stopped, callVars>>
    BY <2>2 DEF SpuriousEventWakeup, dispatcherSide, callVars, SchedulerPc
  <2> QED
    BY <1>2, <2>1, <2>2 DEF SpuriousWakeup
<1>3. CASE UNCHANGED vars
  BY <1>3 DEF vars
<1> QED
  BY <1>1, <1>2, <1>3, DispatcherTypeStep, SchedulerTypeStep, BodyTypeStep,
     ShutdownTypeStep, ThreadTypeStep DEF Next

\* Every variable has its type in every reachable state.
THEOREM TypeCorrect == Spec => []TypeOK
BY TypeInit, TypeStep, PTL DEF Spec


-----------------------------------------------------------------------------
(* The queued tasks after addTask, HandOver and the taking of a task.      *)

LEMMA QueuedAfterAppend ==
    ASSUME TypeOK, NEW t \in AllTasks, taskList' = Append(taskList, t)
    PROVE  /\ Queued' = Queued \cup {t}
           /\ Distinct(taskList) /\ t \notin Queued => Distinct(taskList)'
           /\ taskList' # <<>>
BY AppendElements DEF TypeOK, DispatcherTypeOK, Queued

LEMMA QueuedAfterTail ==
    ASSUME TypeOK, taskList # <<>>, taskList' = Tail(taskList)
    PROVE  /\ Head(taskList) \in AllTasks
           /\ Head(taskList) \in Queued
           /\ Queued' \subseteq Queued
           /\ Distinct(taskList) => Distinct(taskList)' /\ Queued' = Queued \ {Head(taskList)}
BY TailElements DEF TypeOK, DispatcherTypeOK, Queued

LEMMA QueuedAfterAdd ==
    ASSUME TypeOK, NEW t \in AllTasks, NEW e, AddNewTask(t, e)
    PROVE  /\ Accepts => Queued' = Queued \cup {t}
           /\ ~Accepts => taskList' = taskList /\ Queued' = Queued
           /\ Distinct(taskList) /\ t \notin Queued => Distinct(taskList)'
<1>1. CASE Accepts
  BY <1>1, QueuedAfterAppend DEF AddNewTask, Enqueue
<1>2. CASE ~Accepts
  BY <1>2 DEF AddNewTask, Queued
<1> QED
  BY <1>1, <1>2

LEMMA QueuedAfterHandOver ==
    ASSUME TypeOK, HandOver
    PROVE  /\ sTask \in Tasks
           /\ Accepts => Queued' = Queued \cup {sTask}
           /\ ~Accepts => taskList' = taskList /\ Queued' = Queued
           /\ Distinct(taskList) /\ sTask \notin Queued => Distinct(taskList)'
<1>1. sTask \in Tasks /\ sTask \in AllTasks
  BY ConstantsFacts DEF HandOver, TypeOK, SchedulerTypeOK
<1>2. CASE Accepts
  BY <1>1, <1>2, QueuedAfterAppend DEF HandOver, Enqueue
<1>3. CASE ~Accepts
  BY <1>1, <1>3 DEF HandOver, Queued
<1> QED
  BY <1>1, <1>2, <1>3

-----------------------------------------------------------------------------
(* The places of the threads and the order of a shutdown.                  *)

PlacesInv == ThreadPlaces /\ ShutdownOrder

LEMMA PlacesInit == Init => PlacesInv
BY ConstantsFacts DEF Init, PlacesInv, ThreadPlaces, ShutdownOrder, Queued, Elements

\* Every step keeps the places of the threads and the order of a shutdown.
LEMMA PlacesStep ==
    ASSUME TypeOK, PlacesInv, [Next]_vars
    PROVE  PlacesInv'
<1> USE ConstantsFacts DEF PlacesInv, ThreadPlaces, ShutdownOrder
<1>0. taskList' = taskList => Queued' = Queued
  BY DEF Queued
<1>1. CASE DispatcherStep
  <2> USE DEF TypeOK, DispatcherTypeOK, schedulerThread, callVars
  <2>1. UNCHANGED <<schedulerState, gameState, dAdded>>
    BY <1>1 DEF DispatcherStep
  <2>2. ASSUME TakeFront, dpc \in {"lock", "woken"}, UNCHANGED <<flushTask, taskLock, dispatcherState>>
        PROVE  PlacesInv'
    BY <2>1, <2>2, <1>0, QueuedAfterTail DEF TakeFront
  <2>3. CASE LoopHead
    BY <1>0, <2>1, <2>3 DEF LoopHead
  <2>4. CASE LockAndTake
    <3>1. CASE taskList = <<>>
      BY <1>0, <2>1, <2>4, <3>1 DEF LockAndTake
    <3>2. CASE taskList # <<>>
      BY <2>2, <2>4, <3>2 DEF LockAndTake
    <3> QED
      BY <3>1, <3>2
  <2>5. CASE WakeAndTake
    BY <2>2, <2>5 DEF WakeAndTake
  <2>6. CASE StartTask
    BY <1>0, <2>1, <2>6 DEF StartTask
  <2>7. CASE FinishTask
    BY <1>0, <2>1, <2>7 DEF FinishTask
  <2>8. CASE FlushTake
    BY <2>1, <2>8, QueuedAfterTail DEF FlushTake
  <2>9. CASE FlushFinish
    BY <1>0, <2>1, <2>9 DEF FlushFinish
  <2>10. CASE FlushSelfLock
    BY <1>0, <2>1, <2>10 DEF FlushSelfLock
  <2>11. CASE FlushEnd
    BY <1>0, <2>1, <2>11 DEF FlushEnd
  <2> QED
    BY <1>1, <2>3, <2>4, <2>5, <2>6, <2>7, <2>8, <2>9, <2>10, <2>11 DEF DispatcherStep
<1>2. CASE SchedulerStep
  <2>1. /\ UNCHANGED <<dTask, flushTask, taskLock, dispatcherState, schedulerState,
                       gameState, dAdded>>
        /\ dpc' = dpc \/ dpc' = NotifyDispatcher(dpc)
    BY <1>2 DEF SchedulerStep, SchedulerHead, SchedulerWait, SchedulerTimeout,
                SchedulerAwake, PopEvent, HandOver, SchedulerSignals, DeleteStopped,
                dispatcherSide, callVars
  <2>2. ShutdownTask \in Queued' => ShutdownTask \in Queued
    <3>1. CASE HandOver
      BY <3>1, QueuedAfterHandOver
    <3>2. CASE ~HandOver
      BY <1>0, <1>2, <3>2 DEF SchedulerStep, SchedulerHead, SchedulerWait,
         SchedulerTimeout, SchedulerAwake, PopEvent, SchedulerSignals, DeleteStopped,
         dispatcherSide
    <3> QED
      BY <3>1, <3>2
  <2> QED
    BY <2>1, <2>2 DEF NotifyDispatcher
<1>3. CASE Tick
  BY <1>0, <1>3 DEF Tick, dispatcherLocals, eventVars, schedulerThread, callVars
<1>4. CASE SpuriousWakeup
  BY <1>0, <1>4 DEF SpuriousWakeup, SpuriousTaskWakeup, SpuriousEventWakeup, dispatcherSide,
              schedulerThread, callVars
<1>5. CASE \E t \in Tasks, e \in Expirations : BodyAddsTask(t, e)
  BY <1>5, QueuedAfterAdd DEF BodyAddsTask, dispatcherLocals, schedulerThread, callVars
<1>6. CASE \E t \in Tasks, d \in Delays : BodyAddsEvent(t, d)
  BY <1>0, <1>6 DEF BodyAddsEvent, InBody, dispatcherLocals, schedulerThread
<1>7. CASE BodyEventAdded
  BY <1>0, <1>7 DEF BodyEventAdded, dispatcherLocals
<1>8. CASE \E id \in 1..MaxEventId : BodyStopsEvent(id)
  BY <1>0, <1>8 DEF BodyStopsEvent, dispatcherLocals, schedulerThread, callVars
<1>9. CASE BeginShutdown
  BY <1>9, QueuedAfterAdd DEF BeginShutdown, InBody, dispatcherLocals, schedulerThread, TypeOK
<1>10. CASE ShutdownStep
  <2> USE DEF dispatcherLocals, schedulerThread, callVars
  <2>1. CASE ShutdownStopsScheduler
    BY <1>0, <2>1 DEF ShutdownStopsScheduler, StopScheduler
  <2>2. CASE ShutdownStopsDispatcher
    BY <1>0, <2>2 DEF ShutdownStopsDispatcher, StopDispatcher
  <2>3. CASE ShutdownTerminatesScheduler
    BY <1>0, <2>3 DEF ShutdownTerminatesScheduler, TerminateScheduler
  <2>4. CASE ShutdownTerminatesDispatcher
    BY <1>0, <2>4 DEF ShutdownTerminatesDispatcher, TerminateDispatcher
  <2> QED
    BY <1>10, <2>1, <2>2, <2>3, <2>4 DEF ShutdownStep
<1>11. CASE \E p \in Threads, t \in Tasks, e \in Expirations : ThreadAddsTask(p, t, e)
  BY <1>11, QueuedAfterAdd DEF ThreadAddsTask, dispatcherLocals, schedulerThread, callVars
<1>14. CASE \E p \in Threads, t \in Tasks, d \in Delays : ThreadAddsEvent(p, t, d)
  BY <1>0, <1>14 DEF ThreadAddsEvent, dispatcherLocals, schedulerThread, callVars
<1>12. CASE \E p \in Threads : ThreadSignals(p)
  BY <1>0, <1>12 DEF ThreadSignals, NotifyDispatcher, dispatcherLocals, callVars
<1>13. CASE UNCHANGED vars
  BY <1>0, <1>13 DEF vars
<1> QED
  BY <1>1, <1>2, <1>3, <1>4, <1>5, <1>6, <1>7, <1>8, <1>9, <1>10, <1>11, <1>12, <1>13, <1>14
     DEF Next

-----------------------------------------------------------------------------
(* One owner for every task.                                               *)

LEMMA QueuedAreTasks == TypeOK => Queued \subseteq AllTasks /\ NoTask \notin Queued \cup eventList
BY ConstantsFacts DEF TypeOK, DispatcherTypeOK, SchedulerTypeOK, Queued, Elements

LEMMA OwnerInit == Init => OneOwner
BY ConstantsFacts DEF Init, OneOwner, Distinct, Queued, Elements, Held, Owned

\* The dispatcher thread passes a task on or deletes the one it holds.
LEMMA DispatcherOwnerStep ==
    ASSUME TypeOK, PlacesInv, OneOwner, DispatcherStep
    PROVE  OneOwner'
<1> USE ConstantsFacts DEF OneOwner, Held, Owned
<1>0. /\ taskList' = taskList => Queued' = Queued /\ (Distinct(taskList) => Distinct(taskList)')
      /\ UNCHANGED <<eventList, sTask, schedulerState>>
  BY DEF Queued, DispatcherStep, schedulerThread
<1>1. ASSUME TakeFront, dTask = NoTask, UNCHANGED <<flushTask, live>>
      PROVE  OneOwner'
  <2>1. CASE taskList # <<>> /\ dispatcherState # "TERMINATED"
    BY <1>0, <1>1, <2>1, QueuedAfterTail DEF TakeFront
  <2>2. CASE ~(taskList # <<>> /\ dispatcherState # "TERMINATED")
    BY <1>0, <1>1, <2>2 DEF TakeFront
  <2> QED
    BY <2>1, <2>2
<1>2. CASE LoopHead
  BY <1>0, <1>2 DEF LoopHead
<1>3. CASE LockAndTake
  <2>1. CASE taskList = <<>>
    BY <1>0, <1>3, <2>1 DEF LockAndTake
  <2>2. CASE taskList # <<>>
    BY <1>1, <1>3, <2>2 DEF LockAndTake, PlacesInv, ThreadPlaces
  <2> QED
    BY <2>1, <2>2
<1>4. CASE WakeAndTake
  BY <1>1, <1>4 DEF WakeAndTake, PlacesInv, ThreadPlaces
<1>11. ASSUME live' = live \ {dTask}, dTask' = NoTask, UNCHANGED <<taskList, flushTask>>
       PROVE  OneOwner'
  <2>1. Queued' = Queued /\ Distinct(taskList)' /\ UNCHANGED <<eventList, sTask, schedulerState>>
    BY <1>0, <1>11
  <2>2. Owned' = Owned \ {dTask}
    <3>1. /\ dTask \notin Queued \cup eventList \cup Held(sTask) \cup Held(flushTask)
          /\ Held(dTask)' = {}
      BY <1>11, QueuedAreTasks
    <3> QED
      BY <1>11, <2>1, <3>1
  <2>3. /\ Owned' \subseteq live'
        /\ schedulerState' # "TERMINATED" => live' \subseteq Owned'
    BY <1>11, <2>1, <2>2
  <2> QED
    BY <1>11, <2>1, <2>3
<1>5. CASE StartTask
  <2>1. CASE HasExpired(dTask)
    BY <1>5, <1>11, <2>1 DEF StartTask, Delete
  <2>2. CASE ~HasExpired(dTask)
    BY <1>0, <1>5, <2>2 DEF StartTask
  <2> QED
    BY <2>1, <2>2
<1>6. CASE FinishTask
  BY <1>11, <1>6 DEF FinishTask, Delete
<1>7. CASE FlushTake
  BY <1>0, <1>7, QueuedAfterTail DEF FlushTake, PlacesInv, ThreadPlaces
<1>8. CASE FlushFinish
  <2>1. /\ live' = live \ {flushTask}
        /\ flushTask' = NoTask
        /\ UNCHANGED <<taskList, dTask>>
    BY <1>8 DEF FlushFinish, Delete
  <2>2. Queued' = Queued /\ Distinct(taskList)' /\ UNCHANGED <<eventList, sTask, schedulerState>>
    BY <1>0, <2>1
  <2>3. Owned' = Owned \ {flushTask}
    <3>1. /\ flushTask \notin Queued \cup eventList \cup Held(sTask) \cup Held(dTask)
          /\ Held(flushTask)' = {}
      BY <2>1, QueuedAreTasks
    <3> QED
      BY <2>1, <2>2, <3>1
  <2>4. /\ Owned' \subseteq live'
        /\ schedulerState' # "TERMINATED" => live' \subseteq Owned'
    BY <2>1, <2>2, <2>3
  <2> QED
    BY <2>1, <2>2, <2>4
<1>9. CASE FlushSelfLock
  BY <1>0, <1>9 DEF FlushSelfLock
<1>10. CASE FlushEnd
  BY <1>0, <1>10 DEF FlushEnd
<1> QED
  BY <1>2, <1>3, <1>4, <1>5, <1>6, <1>7, <1>8, <1>9, <1>10 DEF DispatcherStep

\* The scheduler thread pops an event, hands it over or deletes it.
LEMMA SchedulerOwnerStep ==
    ASSUME TypeOK, OneOwner, SchedulerStep
    PROVE  OneOwner'
<1> USE ConstantsFacts DEF OneOwner, Held, Owned
<1>0. taskList' = taskList => Queued' = Queued /\ (Distinct(taskList) => Distinct(taskList)')
  BY DEF Queued
<1>1. sTask \in IF spc \in {"hand", "delete"} THEN Tasks ELSE {NoTask}
  BY DEF TypeOK, SchedulerTypeOK
<1>2. CASE PopEvent
  <2>1. CASE schedulerState = "TERMINATED"
    BY <1>0, <1>2, <2>1 DEF PopEvent, dispatcherSide
  <2>2. CASE schedulerState # "TERMINATED"
    <3>1. PICK e \in eventList : sTask' = e /\ eventList' = eventList \ {e}
      BY <1>2, <2>2 DEF PopEvent, IsTop
    <3>2. e \in AllTasks /\ sTask = NoTask
      BY <1>1, <1>2, <3>1 DEF PopEvent, TypeOK, SchedulerTypeOK
    <3>3. UNCHANGED <<taskList, live, dTask, flushTask, schedulerState>>
      BY <1>2 DEF PopEvent, dispatcherSide
    <3>4. Owned' = Owned
      BY <1>0, <3>1, <3>2, <3>3
    <3> QED
      BY <1>0, <3>1, <3>2, <3>3, <3>4
  <2> QED
    BY <2>1, <2>2
<1>3. CASE HandOver
  <2>1. CASE Accepts
    BY <1>3, <2>1, QueuedAfterHandOver DEF HandOver
  <2>2. CASE ~Accepts
    BY <1>0, <1>3, <2>2, QueuedAfterHandOver DEF HandOver, DeleteEvent, Delete
  <2> QED
    BY <2>1, <2>2
<1>4. CASE DeleteStopped
  <2>1. /\ live' = live \ {sTask}
        /\ sTask' = NoTask
        /\ UNCHANGED <<taskList, eventList, dTask, flushTask, schedulerState>>
    BY <1>4 DEF DeleteStopped, DeleteEvent, Delete
  <2>2. Owned' = Owned \ {sTask}
    <3>1. /\ sTask \notin Queued \cup eventList \cup Held(dTask) \cup Held(flushTask)
          /\ Held(sTask)' = {}
      BY <2>1, QueuedAreTasks
    <3> QED
      BY <1>0, <2>1, <3>1
  <2>3. /\ Owned' \subseteq live'
        /\ schedulerState' # "TERMINATED" => live' \subseteq Owned'
    BY <2>1, <2>2
  <2> QED
    BY <1>0, <2>1, <2>3
<1>5. CASE SchedulerHead \/ SchedulerWait \/ SchedulerTimeout \/ SchedulerAwake \/ SchedulerSignals
  <2>1. UNCHANGED <<taskList, eventList, sTask, dTask, flushTask, live, schedulerState>>
    BY <1>5 DEF SchedulerHead, SchedulerWait, SchedulerTimeout, SchedulerAwake,
       SchedulerSignals, dispatcherSide
  <2> QED
    BY <1>0, <2>1
<1> QED
  BY <1>2, <1>3, <1>4, <1>5 DEF SchedulerStep

\* A new task has no owner before it is added, and one afterwards.
LEMMA AddOwnerStep ==
    ASSUME TypeOK, OneOwner, UNCHANGED <<sTask, dTask, flushTask, schedulerState>>,
           NEW t \in AllTasks, NEW e,
           \/ AddNewTask(t, e) /\ UNCHANGED eventList
           \/ AddNewEvent(t, e) /\ UNCHANGED taskList
    PROVE  OneOwner'
<1> USE DEF OneOwner, Held, Owned
<1>0. taskList' = taskList => Queued' = Queued /\ (Distinct(taskList) => Distinct(taskList)')
  BY DEF Queued
<1>1. CASE AddNewTask(t, e) /\ UNCHANGED eventList
  <2>1. CASE Accepts
    <3>1. t \notin live /\ live' = live \cup {t}
      BY <1>1, <2>1 DEF AddNewTask
    <3>2. Queued' = Queued \cup {t} /\ Distinct(taskList)'
      BY <1>1, <2>1, <3>1, QueuedAfterAdd
    <3>3. Owned' = Owned \cup {t}
      BY <1>1, <3>2
    <3> QED
      BY <1>1, <3>1, <3>2, <3>3
  <2>2. CASE ~Accepts
    BY <1>0, <1>1, <2>2, QueuedAfterAdd DEF AddNewTask
  <2> QED
    BY <2>1, <2>2
<1>2. CASE AddNewEvent(t, e) /\ UNCHANGED taskList
  BY <1>0, <1>2 DEF AddNewEvent
<1> QED
  BY <1>1, <1>2

\* Every step leaves every task with one owner.
LEMMA OwnerStep ==
    ASSUME TypeOK, PlacesInv, OneOwner, [Next]_vars
    PROVE  OneOwner'
<1> USE ConstantsFacts
    DEF dispatcherLocals, eventVars, schedulerThread, callVars
<1>0. taskList' = taskList => Queued' = Queued /\ (Distinct(taskList) => Distinct(taskList)')
  BY DEF Queued
<1>1. ASSUME UNCHANGED <<taskList, eventList, sTask, dTask, flushTask, live, schedulerState>>
      PROVE  OneOwner'
  BY <1>0, <1>1 DEF OneOwner, Held, Owned
<1>2. CASE Tick
  BY <1>1, <1>2 DEF Tick
<1>3. CASE SpuriousWakeup
  BY <1>1, <1>3 DEF SpuriousWakeup, SpuriousTaskWakeup, SpuriousEventWakeup, dispatcherSide
<1>4. CASE \E t \in Tasks, e \in Expirations : BodyAddsTask(t, e)
  BY <1>4, AddOwnerStep DEF BodyAddsTask
<1>5. CASE \E t \in Tasks, d \in Delays : BodyAddsEvent(t, d)
  BY <1>5, AddOwnerStep DEF BodyAddsEvent
<1>6. CASE BodyEventAdded
  BY <1>1, <1>6 DEF BodyEventAdded
<1>7. CASE \E id \in 1..MaxEventId : BodyStopsEvent(id)
  BY <1>1, <1>7 DEF BodyStopsEvent
<1>8. CASE BeginShutdown
  BY <1>8, AddOwnerStep DEF BeginShutdown
<1>9. CASE ShutdownStopsScheduler
  BY <1>0, <1>9
     DEF ShutdownStopsScheduler, StopScheduler, OneOwner, Held, Owned, PlacesInv, ShutdownOrder
<1>10. CASE ShutdownStopsDispatcher
  BY <1>1, <1>10 DEF ShutdownStopsDispatcher
<1>11. CASE ShutdownTerminatesScheduler
  BY <1>0, <1>11 DEF ShutdownTerminatesScheduler, TerminateScheduler, OneOwner, Held, Owned
<1>12. CASE ShutdownTerminatesDispatcher
  BY <1>1, <1>12 DEF ShutdownTerminatesDispatcher
<1>13. CASE \E p \in Threads, t \in Tasks, e \in Expirations : ThreadAddsTask(p, t, e)
  BY <1>13, AddOwnerStep DEF ThreadAddsTask
<1>14. CASE \E p \in Threads, t \in Tasks, d \in Delays : ThreadAddsEvent(p, t, d)
  BY <1>14, AddOwnerStep DEF ThreadAddsEvent
<1>15. CASE \E p \in Threads : ThreadSignals(p)
  BY <1>1, <1>15 DEF ThreadSignals
<1>16. CASE UNCHANGED vars
  BY <1>1, <1>16 DEF vars
<1> QED
  BY <1>2, <1>3, <1>4, <1>5, <1>6, <1>7, <1>8, <1>9, <1>10, <1>11, <1>12, <1>13, <1>14,
     <1>15, <1>16, DispatcherOwnerStep, SchedulerOwnerStep DEF Next, ShutdownStep

\* Every task has one owner in every reachable state: none is executed twice or
\* deleted twice, and none is leaked before Scheduler::shutdown.
THEOREM TasksHaveOneOwner == Spec => []OneOwner
<1>1. Init => TypeOK /\ PlacesInv /\ OneOwner
  BY TypeInit, PlacesInit, OwnerInit
<1>2. TypeOK /\ PlacesInv /\ OneOwner /\ [Next]_vars => (TypeOK /\ PlacesInv /\ OneOwner)'
  BY TypeStep, PlacesStep, OwnerStep
<1> QED
  BY <1>1, <1>2, PTL DEF Spec

-----------------------------------------------------------------------------
(* The due times of the events, and the signals.                           *)

\* A step keeps the due time of every event that it leaves in the queue, and a step
\* of another thread that of the event the scheduler has popped: what it deletes,
\* hands over or allocates is another task.
LEMMA DueTimesKept ==
    ASSUME TypeOK, PlacesInv, OneOwner, [Next]_vars
    PROVE  /\ \A e \in eventList : expiration'[e] = expiration[e]
           /\ ~SchedulerStep => \A e \in Held(sTask) : expiration'[e] = expiration[e]
<1> DEFINE Kept == IF SchedulerStep THEN eventList ELSE eventList \cup Held(sTask)
<1> SUFFICES \A e \in Kept : expiration'[e] = expiration[e]
  OBVIOUS
<1> USE ConstantsFacts
    DEF TypeOK, DispatcherTypeOK, SchedulerTypeOK, OneOwner, Owned, Held
<1>1. Kept \subseteq live /\ Kept \subseteq AllTasks
  OBVIOUS
<1>2. ASSUME NEW t, t \notin Kept, NEW x,
             expiration' = expiration \/ expiration' = [expiration EXCEPT ![t] = x]
      PROVE  \A e \in Kept : expiration'[e] = expiration[e]
  BY <1>1, <1>2
<1>3. CASE DispatcherStep
  <2>1. dTask \notin Kept /\ flushTask \notin Kept
    OBVIOUS
  <2>2. \/ expiration' = expiration
        \/ expiration' = [expiration EXCEPT ![dTask] = NoDate]
        \/ expiration' = [expiration EXCEPT ![flushTask] = NoDate]
    BY <1>3 DEF DispatcherStep, LoopHead, LockAndTake, WakeAndTake, StartTask,
       FinishTask, FlushTake, FlushFinish, FlushSelfLock, FlushEnd, Delete
  <2> QED
    BY <1>2, <2>1, <2>2
<1>4. CASE SchedulerStep
  <2>1. sTask \notin Kept
    BY <1>4
  <2>2. \/ expiration' = expiration
        \/ expiration' = [expiration EXCEPT ![sTask] = NoDate]
    BY <1>4 DEF SchedulerStep, SchedulerHead, SchedulerWait, SchedulerTimeout,
       SchedulerAwake, PopEvent, HandOver, SchedulerSignals, DeleteStopped, DeleteEvent,
       Delete, DontExpire, dispatcherSide
  <2> QED
    BY <1>2, <2>1, <2>2
<1>5. ASSUME NEW t, NEW x, AddNewTask(t, x) \/ AddNewEvent(t, x)
      PROVE  \A e \in Kept : expiration'[e] = expiration[e]
  BY <1>1, <1>2, <1>5 DEF AddNewTask, AddNewEvent
<1>6. CASE \E t \in Tasks, e \in Expirations : BodyAddsTask(t, e)
  BY <1>5, <1>6 DEF BodyAddsTask
<1>7. CASE \E t \in Tasks, d \in Delays : BodyAddsEvent(t, d)
  BY <1>5, <1>7 DEF BodyAddsEvent
<1>8. CASE BeginShutdown
  BY <1>5, <1>8 DEF BeginShutdown
<1>9. CASE \E p \in Threads, t \in Tasks, e \in Expirations : ThreadAddsTask(p, t, e)
  BY <1>5, <1>9 DEF ThreadAddsTask
<1>10. CASE \E p \in Threads, t \in Tasks, d \in Delays : ThreadAddsEvent(p, t, d)
  BY <1>5, <1>10 DEF ThreadAddsEvent
<1>11. CASE \/ Tick \/ SpuriousWakeup \/ BodyEventAdded
            \/ \E id \in 1..MaxEventId : BodyStopsEvent(id)
            \/ ShutdownStep
            \/ \E p \in Threads : ThreadSignals(p)
            \/ UNCHANGED vars
  <2>1. expiration' = expiration
    BY <1>11 DEF Tick, SpuriousWakeup, SpuriousTaskWakeup, SpuriousEventWakeup,
       dispatcherSide, BodyEventAdded, BodyStopsEvent, ShutdownStep,
       ShutdownStopsScheduler, ShutdownStopsDispatcher, ShutdownTerminatesScheduler,
       ShutdownTerminatesDispatcher, ThreadSignals, vars
  <2> QED
    BY <2>1
<1> QED
  BY <1>3, <1>4, <1>6, <1>7, <1>8, <1>9, <1>10, <1>11 DEF Next

\* What a step may do to the queue of events: an event is added with its due time
\* by somebody who is about to send the signal, or is not the first; otherwise the
\* queue only loses events.
LEMMA QueueStep ==
    ASSUME TypeOK, [Next]_vars
    PROVE  \/ eventList' \subseteq eventList
           \/ \E t \in Tasks, d \in Nat :
                /\ eventList' = eventList \cup {t}
                /\ t \notin live
                /\ expiration'[t] = d /\ d > now
                /\ UNCHANGED <<spc, wakeAt, sTask>>
                /\ \E signal \in SignalChoices(t, d) : signal => EventSignalPending'
<1> USE ConstantsFacts DEF TypeOK, DispatcherTypeOK, SchedulerTypeOK, EventSignalPending
<1>1. CASE \E t \in Tasks, d \in Delays : BodyAddsEvent(t, d)
  <2>1. PICK t \in Tasks, d \in Delays : BodyAddsEvent(t, d)
    BY <1>1
  <2>2. /\ now + Delay(d) \in Nat /\ now + Delay(d) > now
        /\ AddNewEvent(t, now + Delay(d))
        /\ UNCHANGED <<spc, wakeAt, sTask>>
    BY <2>1 DEF BodyAddsEvent, schedulerThread
  <2>3. /\ eventList' = eventList \cup {t}
        /\ t \notin live
        /\ expiration'[t] = now + Delay(d)
    BY <2>2 DEF AddNewEvent
  <2>4. PICK signal \in SignalChoices(t, now + Delay(d)) :
           dpc' = IF signal THEN "addedTop" ELSE "added"
    BY <2>1 DEF BodyAddsEvent
  <2> QED
    BY <2>2, <2>3, <2>4
<1>2. CASE \E p \in Threads, t \in Tasks, d \in Delays : ThreadAddsEvent(p, t, d)
  <2>1. PICK p \in Threads, t \in Tasks, d \in Delays : ThreadAddsEvent(p, t, d)
    BY <1>2
  <2>2. /\ now + Delay(d) \in Nat /\ now + Delay(d) > now
        /\ AddNewEvent(t, now + Delay(d))
        /\ UNCHANGED <<spc, wakeAt, sTask>>
    BY <2>1 DEF ThreadAddsEvent, schedulerThread
  <2>3. /\ eventList' = eventList \cup {t}
        /\ t \notin live
        /\ expiration'[t] = now + Delay(d)
    BY <2>2 DEF AddNewEvent
  <2>4. PICK signal \in SignalChoices(t, now + Delay(d)) :
           tpc' = [tpc EXCEPT ![p] = IF signal THEN "signalEvent" ELSE "idle"]
    BY <2>1 DEF ThreadAddsEvent
  <2>5. signal => tpc'[p] = "signalEvent"
    BY <2>4
  <2> QED
    BY <2>2, <2>3, <2>4, <2>5
<1>3. CASE \/ \E t \in Tasks, e \in Expirations : BodyAddsTask(t, e)
           \/ \E p \in Threads, t \in Tasks, e \in Expirations : ThreadAddsTask(p, t, e)
           \/ BeginShutdown \/ DispatcherStep
           \/ Tick \/ SpuriousWakeup \/ BodyEventAdded
           \/ \E id \in 1..MaxEventId : BodyStopsEvent(id)
           \/ \E p \in Threads : ThreadSignals(p)
           \/ UNCHANGED vars
  BY <1>3 DEF BodyAddsTask, ThreadAddsTask, BeginShutdown, DispatcherStep, Tick,
     SpuriousWakeup, SpuriousTaskWakeup, SpuriousEventWakeup, BodyEventAdded,
     BodyStopsEvent, ThreadSignals, eventVars, vars
<1>4. CASE ShutdownStep
  BY <1>4 DEF ShutdownStep, ShutdownStopsScheduler, ShutdownStopsDispatcher,
     ShutdownTerminatesScheduler, ShutdownTerminatesDispatcher, TerminateScheduler,
     eventVars
<1>5. CASE SchedulerStep
  BY <1>5 DEF SchedulerStep, SchedulerHead, SchedulerWait, SchedulerTimeout,
     SchedulerAwake, PopEvent, HandOver, SchedulerSignals, DeleteStopped
<1> QED
  BY <1>1, <1>2, <1>3, <1>4, <1>5 DEF Next

\* The scheduler thread goes to wait only by SchedulerWait; a step that leaves it
\* waiting leaves the time it was given.
LEMMA WaitStep ==
    ASSUME [Next]_vars
    PROVE  \/ SchedulerStep /\ SchedulerWait
           \/ /\ spc' = "wait" => spc = "wait"
              /\ spc' = "timedWait" => spc = "timedWait" /\ wakeAt' = wakeAt
              /\ spc' = "timeout" => spc \in {"timedWait", "timeout"} /\ wakeAt' = wakeAt
<1>1. CASE SchedulerStep
  BY <1>1 DEF SchedulerStep, SchedulerHead, SchedulerTimeout, SchedulerAwake, PopEvent,
     HandOver, SchedulerSignals, DeleteStopped
<1>2. CASE \/ \E t \in Tasks, e \in Expirations : BodyAddsTask(t, e)
           \/ \E t \in Tasks, d \in Delays : BodyAddsEvent(t, d)
           \/ \E p \in Threads, t \in Tasks, e \in Expirations : ThreadAddsTask(p, t, e)
           \/ \E p \in Threads, t \in Tasks, d \in Delays : ThreadAddsEvent(p, t, d)
           \/ BeginShutdown \/ DispatcherStep
           \/ Tick
           \/ \E id \in 1..MaxEventId : BodyStopsEvent(id)
           \/ UNCHANGED vars
  BY <1>2 DEF BodyAddsTask, BodyAddsEvent, ThreadAddsTask, ThreadAddsEvent, BeginShutdown,
     DispatcherStep, Tick, BodyStopsEvent, schedulerThread, vars
<1>3. CASE SpuriousWakeup \/ BodyEventAdded \/ \E p \in Threads : ThreadSignals(p)
  BY <1>3 DEF SpuriousWakeup, SpuriousTaskWakeup, SpuriousEventWakeup, BodyEventAdded,
     ThreadSignals, NotifyScheduler, schedulerThread
<1>4. CASE ShutdownStep
  BY <1>4 DEF ShutdownStep, ShutdownStopsScheduler, ShutdownStopsDispatcher,
     ShutdownTerminatesScheduler, ShutdownTerminatesDispatcher, schedulerThread
<1> QED
  BY <1>1, <1>2, <1>3, <1>4 DEF Next

\* Every event in the queue has a due time.
LEMMA DatedStep ==
    ASSUME TypeOK, PlacesInv, OneOwner, EventsDated, [Next]_vars
    PROVE  EventsDated'
<1>1. \A e \in eventList : expiration'[e] # NoDate
  BY DueTimesKept DEF EventsDated
<1>2. \A e \in eventList' : expiration'[e] # NoDate
  BY <1>1, QueueStep, ConstantsFacts
<1>3. spc' \in {"timedWait", "timeout"} => wakeAt' # NoDate
  <2>1. CASE SchedulerStep /\ SchedulerWait
    BY <2>1 DEF SchedulerWait, IsTop, EventsDated
  <2>2. CASE ~(SchedulerStep /\ SchedulerWait)
    BY <2>2, WaitStep DEF EventsDated
  <2> QED
    BY <2>1, <2>2
<1> QED
  BY <1>2, <1>3 DEF EventsDated

\* A pending signal is sent before it stops being pending, and then the thread it
\* is for no longer waits.
LEMMA SignalStep ==
    ASSUME TypeOK, [Next]_vars
    PROVE  /\ EventSignalPending => EventSignalPending' \/ spc' \notin {"wait", "timedWait"}
           /\ \A p \in Threads : tpc[p] = "signalTask" =>
                tpc'[p] = "signalTask" \/ dpc' # "wait"
           /\ spc = "signal" => spc' = "signal" \/ dpc' # "wait"
<1> USE DEF TypeOK, DispatcherTypeOK, EventSignalPending
<1>1. CASE \E p \in Threads : ThreadSignals(p)
  <2>1. PICK p \in Threads : ThreadSignals(p)
    BY <1>1
  <2>2. CASE tpc[p] = "signalTask"
    BY <2>1, <2>2 DEF ThreadSignals, NotifyDispatcher
  <2>3. CASE tpc[p] = "signalEvent"
    BY <2>1, <2>3 DEF ThreadSignals, NotifyScheduler
  <2> QED
    BY <2>1, <2>2, <2>3 DEF ThreadSignals
<1>2. CASE BodyEventAdded
  BY <1>2 DEF BodyEventAdded, NotifyScheduler
<1>3. CASE \/ \E p \in Threads, t \in Tasks, e \in Expirations : ThreadAddsTask(p, t, e)
           \/ \E p \in Threads, t \in Tasks, d \in Delays : ThreadAddsEvent(p, t, d)
  BY <1>3 DEF ThreadAddsTask, ThreadAddsEvent, schedulerThread
<1>4. CASE DispatcherStep
  BY <1>4 DEF DispatcherStep, LoopHead, LockAndTake, WakeAndTake, TakeFront, StartTask,
     FinishTask, FlushTake, FlushFinish, FlushSelfLock, FlushEnd, schedulerThread
<1>5. CASE SchedulerStep
  BY <1>5 DEF SchedulerStep, SchedulerHead, SchedulerWait, SchedulerTimeout,
     SchedulerAwake, PopEvent, HandOver, SchedulerSignals, DeleteStopped,
     NotifyDispatcher, dispatcherSide
<1>6. CASE \/ \E t \in Tasks, e \in Expirations : BodyAddsTask(t, e)
           \/ \E t \in Tasks, d \in Delays : BodyAddsEvent(t, d)
           \/ BeginShutdown \/ Tick \/ SpuriousWakeup
           \/ \E id \in 1..MaxEventId : BodyStopsEvent(id)
           \/ UNCHANGED vars
  BY <1>6 DEF BodyAddsTask, BodyAddsEvent, InBody, BeginShutdown, Tick, SpuriousWakeup,
     SpuriousTaskWakeup, SpuriousEventWakeup, BodyStopsEvent, dispatcherSide,
     schedulerThread, vars
<1>7. CASE ShutdownStep
  BY <1>7 DEF ShutdownStep, ShutdownStopsScheduler, ShutdownStopsDispatcher,
     ShutdownTerminatesScheduler, ShutdownTerminatesDispatcher, schedulerThread
<1> QED
  BY <1>1, <1>2, <1>3, <1>4, <1>5, <1>6, <1>7 DEF Next

\* A task that joins an empty list is announced: by the thread that adds it, or by
\* the scheduler, or it comes from the dispatcher thread itself.
LEMMA ListStep ==
    ASSUME TypeOK, [Next]_vars, taskList = <<>>, taskList' # <<>>
    PROVE  \/ dpc' # "wait"
           \/ spc' = "signal"
           \/ \E p \in Threads : tpc'[p] = "signalTask"
<1> USE DEF TypeOK, DispatcherTypeOK
<1>1. CASE \E p \in Threads, t \in Tasks, e \in Expirations : ThreadAddsTask(p, t, e)
  <2>1. PICK p \in Threads, t \in Tasks, e \in Expirations : ThreadAddsTask(p, t, e)
    BY <1>1
  <2>2. SignalsTask
    BY <2>1 DEF ThreadAddsTask, AddNewTask, SignalsTask
  <2>3. tpc'[p] = "signalTask"
    BY <2>1, <2>2 DEF ThreadAddsTask
  <2> QED
    BY <2>3
<1>2. CASE SchedulerStep
  <2>1. HandOver
    BY <1>2 DEF SchedulerStep, SchedulerHead, SchedulerWait, SchedulerTimeout,
       SchedulerAwake, PopEvent, SchedulerSignals, DeleteStopped, dispatcherSide
  <2> QED
    BY <2>1 DEF HandOver, SignalsTask
<1>3. CASE DispatcherStep
  BY <1>3 DEF DispatcherStep, LoopHead, LockAndTake, WakeAndTake, TakeFront, StartTask,
     FinishTask, FlushTake, FlushFinish, FlushSelfLock, FlushEnd
<1>4. CASE (\E t \in Tasks, e \in Expirations : BodyAddsTask(t, e)) \/ BeginShutdown
  BY <1>4 DEF BodyAddsTask, InBody, BeginShutdown
<1>5. CASE \/ \E p \in Threads, t \in Tasks, d \in Delays : ThreadAddsEvent(p, t, d)
           \/ \E t \in Tasks, d \in Delays : BodyAddsEvent(t, d)
           \/ Tick \/ SpuriousWakeup \/ BodyEventAdded
           \/ \E id \in 1..MaxEventId : BodyStopsEvent(id)
           \/ \E p \in Threads : ThreadSignals(p)
           \/ UNCHANGED vars
  BY <1>5 DEF ThreadAddsEvent, BodyAddsEvent, Tick, SpuriousWakeup, SpuriousTaskWakeup,
     SpuriousEventWakeup, BodyEventAdded, BodyStopsEvent, ThreadSignals, dispatcherSide, vars
<1>6. CASE ShutdownStep
  BY <1>6 DEF ShutdownStep, ShutdownStopsScheduler, ShutdownStopsDispatcher,
     ShutdownTerminatesScheduler, ShutdownTerminatesDispatcher
<1> QED
  BY <1>1, <1>2, <1>3, <1>4, <1>5, <1>6 DEF Next

\* The dispatcher thread goes to wait only with an empty list.
LEMMA DispatcherWaitStep ==
    ASSUME [Next]_vars, dpc' = "wait", dpc # "wait"
    PROVE  taskList' = <<>>
<1>1. CASE DispatcherStep
  BY <1>1 DEF DispatcherStep, LoopHead, LockAndTake, WakeAndTake, TakeFront, StartTask,
     FinishTask, FlushTake, FlushFinish, FlushSelfLock, FlushEnd
<1>2. CASE SchedulerStep
  BY <1>2 DEF SchedulerStep, SchedulerHead, SchedulerWait, SchedulerTimeout,
     SchedulerAwake, PopEvent, HandOver, SchedulerSignals, DeleteStopped,
     NotifyDispatcher, dispatcherSide
<1>3. CASE \/ \E t \in Tasks, e \in Expirations : BodyAddsTask(t, e)
           \/ \E t \in Tasks, d \in Delays : BodyAddsEvent(t, d)
           \/ \E p \in Threads, t \in Tasks, e \in Expirations : ThreadAddsTask(p, t, e)
           \/ \E p \in Threads, t \in Tasks, d \in Delays : ThreadAddsEvent(p, t, d)
           \/ BeginShutdown \/ Tick \/ SpuriousWakeup \/ BodyEventAdded
           \/ \E id \in 1..MaxEventId : BodyStopsEvent(id)
           \/ \E p \in Threads : ThreadSignals(p)
           \/ UNCHANGED vars
  BY <1>3 DEF BodyAddsTask, BodyAddsEvent, ThreadAddsTask, ThreadAddsEvent, BeginShutdown,
     Tick, SpuriousWakeup, SpuriousTaskWakeup, SpuriousEventWakeup, BodyEventAdded,
     BodyStopsEvent, ThreadSignals, NotifyDispatcher, dispatcherSide, vars
<1>4. CASE ShutdownStep
  BY <1>4 DEF ShutdownStep, ShutdownStopsScheduler, ShutdownStopsDispatcher,
     ShutdownTerminatesScheduler, ShutdownTerminatesDispatcher
<1> QED
  BY <1>1, <1>2, <1>3, <1>4 DEF Next

\* No step puts a thread to sleep, or gives it work, without a signal to come.
LEMMA WakeupStep ==
    ASSUME TypeOK, PlacesInv, OneOwner, EventsDated, NoLostWakeup, [Next]_vars
    PROVE  NoLostWakeup'
<1>1. dpc' = "wait" /\ taskList' # <<>> =>
        spc' = "signal" \/ \E p \in Threads : tpc'[p] = "signalTask"
  <2>1. SUFFICES ASSUME dpc' = "wait", taskList' # <<>>
                 PROVE  spc' = "signal" \/ \E p \in Threads : tpc'[p] = "signalTask"
    OBVIOUS
  <2>2. dpc = "wait"
    BY <2>1, DispatcherWaitStep
  <2>3. CASE taskList = <<>>
    BY <2>1, <2>3, ListStep
  <2>4. CASE taskList # <<>>
    BY <2>1, <2>2, <2>4, SignalStep DEF NoLostWakeup
  <2> QED
    BY <2>3, <2>4
<1>2. CASE SchedulerStep /\ SchedulerWait
  <2>1. UNCHANGED <<expiration, eventList>>
    BY <1>2 DEF SchedulerWait, dispatcherSide
  <2>2. \A e \in eventList : expiration[e] \in Nat
    BY DEF EventsDated, TypeOK, DispatcherTypeOK, SchedulerTypeOK, AllTasks
  <2>3. spc' = "wait" => eventList' = {}
    BY <1>2, <2>1 DEF SchedulerWait
  <2>4. spc' = "timedWait" => ~ \E e \in eventList' : expiration'[e] < wakeAt'
    BY <1>2, <2>1, <2>2 DEF SchedulerWait, IsTop
  <2> QED
    BY <1>1, <2>3, <2>4 DEF NoLostWakeup
<1>3. CASE ~(SchedulerStep /\ SchedulerWait)
  <2>1. /\ spc' = "wait" => spc = "wait"
        /\ spc' = "timedWait" => spc = "timedWait" /\ wakeAt' = wakeAt
    BY <1>3, WaitStep
  <2>2. ASSUME spc' = "wait", eventList' # {}
        PROVE  EventSignalPending'
    <3>1. CASE eventList # {}
      BY <2>1, <2>2, <3>1, SignalStep DEF NoLostWakeup
    <3>2. CASE eventList = {}
      <4>1. PICK t \in Tasks, d \in Nat :
               \E signal \in SignalChoices(t, d) : signal => EventSignalPending'
        BY <2>2, <3>2, QueueStep
      <4>2. SignalChoices(t, d) = {TRUE}
        BY <3>2 DEF SignalChoices
      <4> QED
        BY <4>1, <4>2
    <3> QED
      BY <3>1, <3>2
  <2>3. ASSUME spc' = "timedWait", NEW e \in eventList', expiration'[e] < wakeAt'
        PROVE  EventSignalPending'
    <3>1. CASE e \in eventList
      <4>1. expiration[e] < wakeAt /\ spc = "timedWait"
        BY <2>1, <2>3, <3>1, DueTimesKept
      <4> QED
        BY <2>3, <3>1, <4>1, SignalStep DEF NoLostWakeup
    <3>2. CASE e \notin eventList
      <4>1. PICK d \in Nat :
               /\ expiration'[e] = d
               /\ \E signal \in SignalChoices(e, d) : signal => EventSignalPending'
        BY <2>3, <3>2, QueueStep
      <4>2. CASE \E f \in eventList : expiration[f] < wakeAt
        BY <2>1, <2>3, <4>2, SignalStep DEF NoLostWakeup
      <4>3. CASE ~ \E f \in eventList : expiration[f] < wakeAt
        <5>1. \A f \in eventList : expiration[f] \in Nat
          BY DEF EventsDated, TypeOK, DispatcherTypeOK, SchedulerTypeOK, AllTasks
        <5>2. wakeAt \in Nat /\ d < wakeAt
          BY <2>1, <2>3, <4>1 DEF EventsDated, TypeOK, SchedulerTypeOK
        <5>3. \A f \in eventList : d < expiration[f]
          BY <4>3, <5>1, <5>2
        <5>4. SignalChoices(e, d) = {TRUE}
          <6>1. /\ ~ \E x \in {expiration[f] : f \in eventList} : x < d
                /\ d \notin {expiration[f] : f \in eventList}
            BY <5>1, <5>3
          <6> QED
            BY <6>1 DEF SignalChoices
        <5> QED
          BY <4>1, <5>4
      <4> QED
        BY <4>2, <4>3
    <3> QED
      BY <3>1, <3>2
  <2> QED
    BY <1>1, <2>2, <2>3 DEF NoLostWakeup
<1> QED
  BY <1>2, <1>3

SafetyInv == TypeOK /\ PlacesInv /\ OneOwner /\ EventsDated /\ NoLostWakeup

\* In every reachable state a thread that sleeps although there is work for it is
\* about to be woken: no interleaving of addTask, addEvent and the two loops loses
\* a wake-up.
THEOREM NoWakeupIsLost == Spec => []NoLostWakeup
<1>1. Init => SafetyInv
  <2>1. Init => EventsDated /\ NoLostWakeup
    BY DEF Init, EventsDated, NoLostWakeup
  <2> QED
    BY <2>1, TypeInit, PlacesInit, OwnerInit DEF SafetyInv
<1>2. SafetyInv /\ [Next]_vars => SafetyInv'
  BY TypeStep, PlacesStep, OwnerStep, DatedStep, WakeupStep DEF SafetyInv
<1>3. SafetyInv => NoLostWakeup
  BY DEF SafetyInv
<1> QED
  BY <1>1, <1>2, <1>3, PTL DEF Spec

-----------------------------------------------------------------------------
(* Events that were stopped.                                               *)

\* StoppedNeverRuns with what makes it inductive: an event that was stopped is still
\* allocated, so that a new one is another, and no two events of the queue have an id
\* in common, so that stopEvent means one of them.
StopInv ==
    /\ StoppedNeverRuns
    /\ stopped \subseteq live
    /\ \A e, f \in eventList : eventId[e] = eventId[f] => e = f

\* A step of the dispatcher thread runs, flushes or deletes what it has taken.
LEMMA DispatcherEffect ==
    ASSUME TypeOK, PlacesInv, OneOwner, DispatcherStep
    PROVE  /\ UNCHANGED <<eventList, eventIds, stopped, sTask, spc, wakeAt, schedulerState, now>>
           /\ Queued' \cup Held(dTask)' \cup Held(flushTask)' \subseteq
                Queued \cup Held(dTask) \cup Held(flushTask)
           /\ Queued' \cup Held(dTask)' \subseteq Queued \cup Held(dTask)
           /\ live' \in {live, live \ {dTask}, live \ {flushTask}}
           /\ \A t \in AllTasks : /\ expiration'[t] \in {expiration[t], NoDate}
                                  /\ t \in live' => expiration'[t] = expiration[t]
                                  /\ eventId'[t] = IF t \in live' THEN eventId[t] ELSE 0
<1> USE ConstantsFacts DEF Held, TypeOK, DispatcherTypeOK
<1>1. UNCHANGED <<eventList, eventIds, stopped, sTask, spc, wakeAt, schedulerState>>
  BY DEF DispatcherStep, schedulerThread
<1>2. \A t \in AllTasks : eventId'[t] = IF t \in live' THEN eventId[t] ELSE 0
  BY DEF DispatcherStep
<1>3. taskList' = taskList => Queued' = Queued
  BY DEF Queued
<1>4. ASSUME NEW t, Delete(t)
      PROVE  \A u \in AllTasks : /\ expiration'[u] \in {expiration[u], NoDate}
                                 /\ u \in live' => expiration'[u] = expiration[u]
  BY <1>4 DEF Delete
<1>5. ASSUME TakeFront, UNCHANGED flushTask
      PROVE  /\ Queued' \cup Held(dTask)' \cup Held(flushTask)' \subseteq
                   Queued \cup Held(dTask) \cup Held(flushTask)
             /\ Queued' \cup Held(dTask)' \subseteq Queued \cup Held(dTask)
  BY <1>3, <1>5, QueuedAfterTail DEF TakeFront
<1>6. CASE LoopHead \/ FlushSelfLock \/ FlushEnd
  BY <1>1, <1>2, <1>3, <1>6 DEF LoopHead, FlushSelfLock, FlushEnd
<1>7. CASE LockAndTake
  BY <1>1, <1>2, <1>3, <1>5, <1>7 DEF LockAndTake
<1>8. CASE WakeAndTake
  BY <1>1, <1>2, <1>5, <1>8 DEF WakeAndTake
<1>9. CASE StartTask
  <2>1. CASE HasExpired(dTask)
    BY <1>1, <1>2, <1>3, <1>4, <1>9, <2>1 DEF StartTask, Delete
  <2>2. CASE ~HasExpired(dTask)
    BY <1>1, <1>2, <1>3, <1>9, <2>2 DEF StartTask
  <2> QED
    BY <2>1, <2>2
<1>10. CASE FinishTask
  BY <1>1, <1>2, <1>3, <1>4, <1>10 DEF FinishTask, Delete
<1>11. CASE FlushTake
  BY <1>1, <1>2, <1>11, QueuedAfterTail DEF FlushTake
<1>12. CASE FlushFinish
  BY <1>1, <1>2, <1>3, <1>4, <1>12 DEF FlushFinish, Delete
<1> QED
  BY <1>6, <1>7, <1>8, <1>9, <1>10, <1>11, <1>12 DEF DispatcherStep

\* A new task is nobody's and was not stopped.
LEMMA AddEffect ==
    ASSUME TypeOK, NEW t \in AllTasks, NEW x, AddNewTask(t, x)
    PROVE  /\ t \notin live /\ live \subseteq live'
           /\ Queued' \subseteq Queued \cup {t}
           /\ \A u \in AllTasks \ {t} : expiration'[u] = expiration[u]
BY QueuedAfterAdd DEF AddNewTask, TypeOK, DispatcherTypeOK

\* Steps that only add tasks or touch neither tasks nor events.
LEMMA OtherEffect ==
    ASSUME TypeOK, PlacesInv,
           \/ \E t \in Tasks, e \in Expirations : BodyAddsTask(t, e)
           \/ \E p \in Threads, t \in Tasks, e \in Expirations : ThreadAddsTask(p, t, e)
           \/ BeginShutdown \/ Tick \/ SpuriousWakeup \/ BodyEventAdded
           \/ \E p \in Threads : ThreadSignals(p)
           \/ ShutdownStopsScheduler \/ ShutdownStopsDispatcher
           \/ UNCHANGED vars
    PROVE  /\ UNCHANGED <<eventId, eventList, eventIds, stopped, sTask, dTask, flushTask>>
           /\ live \subseteq live'
           /\ Queued' \subseteq Queued \cup (AllTasks \ live)
           /\ \A t \in live : expiration'[t] = expiration[t]
           /\ now' = now \/ now' = now + 1
           /\ spc' = "delete" <=> spc = "delete"
           /\ spc' \in {"timedWait", "timeout"} => UNCHANGED <<spc, wakeAt>>
           /\ schedulerState = "TERMINATED" => schedulerState' = "TERMINATED"
<1> USE ConstantsFacts
    DEF eventVars, schedulerThread, dispatcherLocals, callVars
<1>1. taskList' = taskList => Queued' = Queued
  BY DEF Queued
<1>2. live \subseteq AllTasks
  BY DEF TypeOK, DispatcherTypeOK
<1>3. ASSUME NEW t \in AllTasks, NEW x, AddNewTask(t, x)
      PROVE  /\ live \subseteq live' /\ Queued' \subseteq Queued \cup (AllTasks \ live)
             /\ \A u \in live : expiration'[u] = expiration[u]
  BY <1>2, <1>3, AddEffect
<1>4. CASE \E t \in Tasks, e \in Expirations : BodyAddsTask(t, e)
  BY <1>3, <1>4 DEF BodyAddsTask
<1>5. CASE \E p \in Threads, t \in Tasks, e \in Expirations : ThreadAddsTask(p, t, e)
  BY <1>3, <1>5 DEF ThreadAddsTask
<1>6. CASE BeginShutdown
  BY <1>3, <1>6 DEF BeginShutdown
<1>7. CASE Tick \/ SpuriousWakeup \/ BodyEventAdded \/ \E p \in Threads : ThreadSignals(p)
  BY <1>1, <1>7 DEF Tick, SpuriousWakeup, SpuriousTaskWakeup, SpuriousEventWakeup,
     dispatcherSide, BodyEventAdded, ThreadSignals, NotifyScheduler
<1>8. CASE ShutdownStopsScheduler \/ ShutdownStopsDispatcher \/ UNCHANGED vars
  BY <1>1, <1>8 DEF ShutdownStopsScheduler, ShutdownStopsDispatcher, vars, PlacesInv,
     ShutdownOrder
<1> QED
  BY <1>4, <1>5, <1>6, <1>7, <1>8

LEMMA StopStep ==
    ASSUME TypeOK, PlacesInv, OneOwner, StopInv, [Next]_vars
    PROVE  StopInv'
<1> USE ConstantsFacts DEF StopInv, StoppedNeverRuns
<1>1. /\ eventList \subseteq live /\ Queued \subseteq AllTasks
      /\ stopped \subseteq AllTasks /\ NoTask \notin stopped /\ NoTask \notin eventList
      /\ eventList \cap (Queued \cup {sTask, dTask, flushTask}) = {}
      /\ eventList \subseteq AllTasks /\ eventId \in [AllTasks -> 0 .. MaxEventId]
      /\ live \subseteq AllTasks
  BY QueuedAreTasks DEF TypeOK, DispatcherTypeOK, SchedulerTypeOK, OneOwner, Owned, Held
<1>2. OneOwner'
  BY OwnerStep
<1>3. sTask # NoTask => spc \in {"hand", "delete"}
  BY DEF TypeOK, SchedulerTypeOK
<1>4. CASE DispatcherStep
  <2>1. eventList' \subseteq live'
    BY <1>2 DEF OneOwner, Owned
  <2> QED
    BY <1>1, <1>4, <2>1, DispatcherEffect DEF Held
<1>5. CASE SchedulerStep
  <2>1. stopped' = stopped \cap live'
    BY <1>5 DEF SchedulerStep
  <2>2. CASE PopEvent
    <3>1. UNCHANGED <<live, dTask, flushTask, taskList, eventId>>
      BY <2>2 DEF PopEvent, dispatcherSide
    <3>2. stopped' = stopped /\ Queued' = Queued
      BY <2>1, <3>1 DEF Queued
    <3>3. CASE schedulerState = "TERMINATED"
      BY <1>3, <2>2, <3>1, <3>2, <3>3 DEF PopEvent
    <3>4. CASE schedulerState # "TERMINATED"
      <4>1. PICK e \in eventList :
               /\ sTask' = e /\ eventList' = eventList \ {e}
               /\ eventIds' = eventIds \ {eventId[e]}
               /\ spc' = IF eventId[e] \in eventIds THEN "hand" ELSE "delete"
        BY <2>2, <3>4 DEF PopEvent, RemainingIds, WasNotStopped
      <4> QED
        BY <1>1, <3>1, <3>2, <4>1
    <3> QED
      BY <3>3, <3>4
  <2>3. CASE HandOver
    <3>1. /\ UNCHANGED <<eventList, eventIds, dTask, flushTask>> /\ sTask' = NoTask
          /\ sTask \in Tasks /\ sTask \notin stopped
          /\ Queued' \subseteq Queued \cup {sTask}
          /\ live' \in {live, live \ {sTask}}
          /\ \A e \in eventList : eventId'[e] = eventId[e]
      BY <1>1, <2>3, QueuedAfterHandOver DEF HandOver, DeleteEvent, Delete
    <3> QED
      BY <1>1, <2>1, <3>1
  <2>4. CASE DeleteStopped
    <3>1. /\ UNCHANGED <<eventList, eventIds, dTask, flushTask, taskList>> /\ sTask' = NoTask
          /\ live' = live \ {sTask}
          /\ \A e \in eventList : eventId'[e] = eventId[e]
      BY <1>1, <2>4 DEF DeleteStopped, DeleteEvent, Delete
    <3> QED
      BY <1>1, <2>1, <3>1 DEF Queued
  <2>5. CASE SchedulerHead \/ SchedulerWait \/ SchedulerTimeout \/ SchedulerAwake \/ SchedulerSignals
    <3>1. /\ UNCHANGED <<eventList, eventIds, dTask, flushTask, taskList, sTask, eventId, live>>
          /\ sTask = NoTask
      BY <1>3, <2>5 DEF SchedulerHead, SchedulerWait, SchedulerTimeout, SchedulerAwake,
         SchedulerSignals, dispatcherSide
    <3> QED
      BY <1>1, <2>1, <3>1 DEF Queued
  <2> QED
    BY <1>5, <2>2, <2>3, <2>4, <2>5 DEF SchedulerStep
<1>6. ASSUME NEW t \in Tasks, NEW x, AddNewEvent(t, x),
             UNCHANGED <<taskList, dTask, flushTask, sTask, spc, stopped>>
      PROVE  StopInv'
  <2>1. /\ t \notin live /\ eventId' = [eventId EXCEPT ![t] = NextEventId]
        /\ eventIds' = eventIds \cup {NextEventId} /\ eventList' = eventList \cup {t}
        /\ live' = live \cup {t}
        /\ \A e \in eventList : eventId[e] # NextEventId
    BY <1>6 DEF AddNewEvent, FreshEventId
  <2>2. Queued' = Queued
    BY <1>6 DEF Queued
  <2>3. eventId'[t] = NextEventId /\ \A e \in eventList : eventId'[e] = eventId[e]
    BY <1>1, <2>1
  <2> QED
    BY <1>1, <1>6, <2>1, <2>2, <2>3
<1>7. CASE \E t \in Tasks, d \in Delays : BodyAddsEvent(t, d)
  BY <1>6, <1>7 DEF BodyAddsEvent, dispatcherLocals, schedulerThread
<1>8. CASE \E p \in Threads, t \in Tasks, d \in Delays : ThreadAddsEvent(p, t, d)
  BY <1>6, <1>8 DEF ThreadAddsEvent, dispatcherLocals, schedulerThread
<1>9. CASE \E id \in 1..MaxEventId : BodyStopsEvent(id)
  <2>1. PICK id \in 1..MaxEventId :
           /\ eventIds' = eventIds \ {id}
           /\ stopped' = stopped \cup {e \in eventList : eventId[e] = id}
           /\ UNCHANGED <<live, taskList, dTask, flushTask, sTask, spc, eventId, eventList>>
    BY <1>9 DEF BodyStopsEvent, RemainingIds, dispatcherLocals, schedulerThread
  <2> QED
    BY <1>1, <2>1 DEF Queued
<1>10. CASE ShutdownTerminatesScheduler \/ ShutdownTerminatesDispatcher
  <2>1. /\ UNCHANGED <<live, taskList, dTask, flushTask, sTask, spc, eventId, stopped>>
        /\ eventList' = {} \/ UNCHANGED <<eventList, eventIds>>
    BY <1>10 DEF ShutdownTerminatesScheduler, ShutdownTerminatesDispatcher, TerminateScheduler,
       eventVars, schedulerThread, dispatcherLocals
  <2> QED
    BY <1>1, <2>1 DEF Queued
<1>11. CASE \/ \E t \in Tasks, e \in Expirations : BodyAddsTask(t, e)
            \/ \E p \in Threads, t \in Tasks, e \in Expirations : ThreadAddsTask(p, t, e)
            \/ BeginShutdown \/ Tick \/ SpuriousWakeup \/ BodyEventAdded
            \/ \E p \in Threads : ThreadSignals(p)
            \/ ShutdownStopsScheduler \/ ShutdownStopsDispatcher
            \/ UNCHANGED vars
  <2>1. /\ UNCHANGED <<eventId, eventList, eventIds, stopped, sTask, dTask, flushTask>>
        /\ live \subseteq live'
        /\ Queued' \subseteq Queued \cup (AllTasks \ live)
        /\ spc' = "delete" <=> spc = "delete"
    BY <1>11, OtherEffect
  <2> QED
    BY <1>1, <2>1
<1> QED
  BY <1>4, <1>5, <1>7, <1>8, <1>9, <1>10, <1>11 DEF Next, ShutdownStep

-----------------------------------------------------------------------------
(* Events in time.                                                         *)

\* What makes DueThenExecuted inductive: the time the scheduler waits for is not
\* before the first event is due, no plain task has an id, and what was handed over
\* has no date any more.
DueInv ==
    /\ sTask # NoTask => expiration[sTask] \in Nat /\ expiration[sTask] <= now
    /\ spc \in {"timedWait", "timeout"} /\ schedulerState # "TERMINATED" =>
         \E e \in eventList : expiration[e] <= wakeAt
    /\ spc = "timeout" => wakeAt <= now
    /\ \A t \in Queued \cup Held(dTask) : eventId[t] # 0 => expiration[t] = NoDate
    /\ \A t \in AllTasks \ live : eventId[t] = 0

LEMMA DueStep ==
    ASSUME TypeOK, PlacesInv, OneOwner, EventsDated, DueInv, [Next]_vars
    PROVE  DueInv'
<1> USE ConstantsFacts DEF DueInv
<1>1. /\ eventList \subseteq live /\ live \subseteq AllTasks /\ Queued \subseteq live
      /\ Held(sTask) \subseteq live /\ Held(dTask) \subseteq live
      /\ NoTask \notin live
      /\ eventList \cap (Held(sTask) \cup Held(dTask) \cup Held(flushTask)) = {}
      /\ Queued \cap (eventList \cup Held(sTask) \cup Held(dTask) \cup Held(flushTask)) = {}
      /\ Held(sTask) \cap (Held(dTask) \cup Held(flushTask)) = {}
      /\ Held(dTask) \cap Held(flushTask) = {}
  BY DEF TypeOK, DispatcherTypeOK, OneOwner, Owned
<1>2. /\ now \in Nat
      /\ expiration \in [AllTasks -> Nat \cup {NoDate}]
      /\ eventId \in [AllTasks -> 0 .. MaxEventId]
      /\ sTask # NoTask => spc \in {"hand", "delete"}
      /\ spc \in {"timedWait", "timeout"} => wakeAt \in Nat
  BY DEF TypeOK, DispatcherTypeOK, SchedulerTypeOK, EventsDated
<1>3. \A e \in eventList : expiration'[e] = expiration[e] /\ expiration[e] \in Nat
  BY <1>1, <1>2, DueTimesKept DEF EventsDated
<1>4. taskList' = taskList => Queued' = Queued
  BY DEF Queued
<1>5. CASE DispatcherStep
  <2>1. /\ UNCHANGED <<eventList, sTask, spc, wakeAt, schedulerState, now>>
        /\ Queued' \cup Held(dTask)' \subseteq Queued \cup Held(dTask)
        /\ live' \in {live, live \ {dTask}, live \ {flushTask}}
        /\ \A t \in AllTasks : /\ t \in live' => expiration'[t] = expiration[t]
                               /\ eventId'[t] = IF t \in live' THEN eventId[t] ELSE 0
    BY <1>5, DispatcherEffect
  <2>2. sTask # NoTask => expiration'[sTask] = expiration[sTask]
    BY <1>1, <2>1 DEF Held
  <2>3. \A t \in Queued' \cup Held(dTask)' : eventId'[t] # 0 => expiration'[t] = NoDate
    BY <1>1, <2>1
  <2>4. \A t \in AllTasks \ live' : eventId'[t] = 0
    BY <2>1
  <2> QED
    BY <1>2, <1>3, <2>1, <2>2, <2>3, <2>4
<1>6. CASE SchedulerStep
  <2>1. CASE PopEvent
    <3>1. UNCHANGED <<now, live, expiration, taskList, dTask, eventId, schedulerState>>
      BY <2>1 DEF PopEvent, dispatcherSide
    <3>2. CASE schedulerState = "TERMINATED"
      BY <1>2, <1>4, <2>1, <3>1, <3>2 DEF PopEvent
    <3>3. CASE schedulerState # "TERMINATED"
      <4>1. PICK e \in eventList : IsTop(e, eventList) /\ sTask' = e /\ spc' \in {"hand", "delete"}
        BY <2>1, <3>3 DEF PopEvent
      <4>2. PICK f \in eventList : expiration[f] <= wakeAt
        BY <2>1, <3>3 DEF PopEvent
      <4>3. wakeAt \in Nat /\ wakeAt <= now
        BY <1>2, <2>1 DEF PopEvent
      <4>4. expiration[e] \in Nat /\ expiration[e] <= now
        BY <1>2, <1>3, <4>1, <4>2, <4>3 DEF IsTop
      <4> QED
        BY <1>4, <3>1, <4>1, <4>4 DEF Held
    <3> QED
      BY <3>2, <3>3
  <2>2. CASE HandOver
    <3>1. /\ UNCHANGED <<now, dTask>> /\ sTask' = NoTask /\ spc' \in {"signal", "head"}
          /\ sTask \in Tasks /\ sTask \in Held(sTask)
      BY <2>2, QueuedAfterHandOver DEF HandOver, Held
    <3>2. CASE Accepts
      <4>1. /\ Queued' = Queued \cup {sTask} /\ UNCHANGED <<live, eventId>>
            /\ expiration' = [expiration EXCEPT ![sTask] = NoDate]
        BY <2>2, <3>2, QueuedAfterHandOver DEF HandOver, DontExpire
      <4> QED
        BY <1>1, <1>2, <3>1, <4>1 DEF Held
    <3>3. CASE ~Accepts
      <4>1. /\ Queued' = Queued /\ live' = live \ {sTask}
            /\ expiration' = [expiration EXCEPT ![sTask] = NoDate]
            /\ eventId' = [eventId EXCEPT ![sTask] = 0]
        BY <2>2, <3>3, QueuedAfterHandOver DEF HandOver, DeleteEvent, Delete
      <4> QED
        BY <1>1, <1>2, <3>1, <4>1 DEF Held
    <3> QED
      BY <3>2, <3>3
  <2>3. CASE DeleteStopped
    <3>1. /\ UNCHANGED <<now, dTask, taskList>> /\ sTask' = NoTask /\ spc' = "head"
          /\ live' = live \ {sTask}
          /\ expiration' = [expiration EXCEPT ![sTask] = NoDate]
          /\ eventId' = [eventId EXCEPT ![sTask] = 0]
      BY <2>3 DEF DeleteStopped, DeleteEvent, Delete
    <3> QED
      BY <1>1, <1>2, <1>4, <3>1 DEF Held
  <2>4. CASE SchedulerWait
    <3>1. /\ UNCHANGED <<now, live, expiration, taskList, dTask, eventId, sTask, eventList>>
          /\ spc' \in {"wait", "timedWait"}
          /\ spc' = "timedWait" => \E e \in eventList : wakeAt' = expiration[e]
      BY <2>4 DEF SchedulerWait, dispatcherSide
    <3> QED
      BY <1>2, <1>3, <1>4, <3>1 DEF Held
  <2>5. CASE SchedulerTimeout
    <3>1. /\ UNCHANGED <<now, live, expiration, taskList, dTask, eventId, sTask, eventList,
                         wakeAt, schedulerState>>
          /\ spc = "timedWait" /\ wakeAt <= now
      BY <2>5 DEF SchedulerTimeout, dispatcherSide
    <3> QED
      BY <1>2, <1>4, <3>1 DEF Held
  <2>6. CASE SchedulerHead \/ SchedulerAwake \/ SchedulerSignals
    <3>1. /\ UNCHANGED <<now, live, expiration, taskList, dTask, eventId, sTask>>
          /\ spc' \in {"exit", "lock", "head"}
      BY <2>6 DEF SchedulerHead, SchedulerAwake, SchedulerSignals, dispatcherSide
    <3> QED
      BY <1>2, <1>4, <3>1 DEF Held
  <2> QED
    BY <1>6, <2>1, <2>2, <2>3, <2>4, <2>5, <2>6 DEF SchedulerStep
<1>7. ASSUME NEW t \in Tasks, NEW x, AddNewEvent(t, x),
             UNCHANGED <<now, taskList, dTask, schedulerThread>>
      PROVE  DueInv'
  <2>1. /\ UNCHANGED <<now, dTask, schedulerState, spc, wakeAt, sTask>>
        /\ Queued' = Queued
        /\ t \notin live /\ live' = live \cup {t} /\ eventList' = eventList \cup {t}
        /\ \A u \in live : expiration'[u] = expiration[u] /\ eventId'[u] = eventId[u]
        /\ \A u \in AllTasks \ live' : eventId'[u] = eventId[u]
    BY <1>1, <1>2, <1>4, <1>7 DEF AddNewEvent, schedulerThread
  <2> QED
    BY <1>1, <1>2, <1>3, <2>1 DEF Held
<1>8. CASE \E t \in Tasks, d \in Delays : BodyAddsEvent(t, d)
  BY <1>7, <1>8 DEF BodyAddsEvent, dispatcherLocals
<1>9. CASE \E p \in Threads, t \in Tasks, d \in Delays : ThreadAddsEvent(p, t, d)
  BY <1>7, <1>9 DEF ThreadAddsEvent, dispatcherLocals
<1>10. CASE \/ \E id \in 1..MaxEventId : BodyStopsEvent(id)
            \/ ShutdownTerminatesScheduler \/ ShutdownTerminatesDispatcher
  <2>1. /\ UNCHANGED <<now, live, expiration, taskList, dTask, sTask, spc, wakeAt, eventId>>
        /\ \/ schedulerState' = "TERMINATED"
           \/ UNCHANGED <<schedulerState, eventList>>
    BY <1>10 DEF BodyStopsEvent, ShutdownTerminatesScheduler, TerminateScheduler,
       ShutdownTerminatesDispatcher, schedulerThread, dispatcherLocals, eventVars
  <2> QED
    BY <1>4, <2>1 DEF Held
<1>11. CASE \/ \E t \in Tasks, e \in Expirations : BodyAddsTask(t, e)
            \/ \E p \in Threads, t \in Tasks, e \in Expirations : ThreadAddsTask(p, t, e)
            \/ BeginShutdown \/ Tick \/ SpuriousWakeup \/ BodyEventAdded
            \/ \E p \in Threads : ThreadSignals(p)
            \/ ShutdownStopsScheduler \/ ShutdownStopsDispatcher
            \/ UNCHANGED vars
  <2>1. /\ UNCHANGED <<eventId, eventList, sTask, dTask>>
        /\ live \subseteq live'
        /\ Queued' \subseteq Queued \cup (AllTasks \ live)
        /\ \A t \in live : expiration'[t] = expiration[t]
        /\ now' = now \/ now' = now + 1
        /\ spc' \in {"timedWait", "timeout"} => UNCHANGED <<spc, wakeAt>>
        /\ schedulerState = "TERMINATED" => schedulerState' = "TERMINATED"
    BY <1>11, OtherEffect
  <2>2. \A t \in Queued' \cup Held(dTask)' : eventId'[t] # 0 => expiration'[t] = NoDate
    BY <1>1, <2>1 DEF Held
  <2>3. sTask # NoTask => expiration'[sTask] = expiration[sTask]
    BY <1>1, <2>1 DEF Held
  <2>4. now <= now' /\ now' \in Nat
    BY <1>2, <2>1
  <2>5. sTask' # NoTask => expiration'[sTask'] \in Nat /\ expiration'[sTask'] <= now'
    BY <1>2, <2>1, <2>3, <2>4
  <2>6. spc' = "timeout" => wakeAt' <= now'
    BY <1>2, <2>1, <2>4
  <2> QED
    BY <1>1, <1>3, <2>1, <2>2, <2>5, <2>6
<1> QED
  BY <1>5, <1>6, <1>8, <1>9, <1>10, <1>11 DEF Next, ShutdownStep

-----------------------------------------------------------------------------
(* The theorems about events.                                              *)

EventsInv == TypeOK /\ PlacesInv /\ OneOwner /\ EventsDated /\ StopInv /\ DueInv

LEMMA EventsInit == Init => EventsInv
<1>1. Init => EventsDated /\ StopInv /\ DueInv
  BY ConstantsFacts DEF Init, EventsDated, StopInv, StoppedNeverRuns, DueInv, Queued,
     Elements, Held
<1> QED
  BY <1>1, TypeInit, PlacesInit, OwnerInit DEF EventsInv

LEMMA EventsInductive == Spec => []EventsInv
<1>1. EventsInv /\ [Next]_vars => EventsInv'
  BY TypeStep, PlacesStep, OwnerStep, DatedStep, StopStep, DueStep DEF EventsInv
<1> QED
  BY <1>1, EventsInit, PTL DEF Spec

\* An event for which stopEvent returned true never comes to the list of the
\* dispatcher nor to its thread: whichever of its two steps the scheduler thread has
\* made, the event is deleted when its time comes; and no event that was not stopped
\* is taken for one that was.
THEOREM StoppedEventsNeverRun == Spec => []StoppedNeverRuns
<1>1. EventsInv => StoppedNeverRuns
  BY DEF EventsInv, StopInv
<1> QED
  BY <1>1, EventsInductive, PTL

\* No event is handed over before its time, the scheduler never wakes by its timeout
\* to an empty queue, and the dispatcher never drops as expired what the scheduler has
\* handed to it.
THEOREM EventsAreExecutedWhenDue == Spec => []DueThenExecuted
<1>1. EventsInv => DueThenExecuted
  BY DEF EventsInv, DueInv, DueThenExecuted, HasExpired
<1> QED
  BY <1>1, EventsInductive, PTL

-----------------------------------------------------------------------------
(* The two threads implement the service.                                  *)

\* What the refinement needs beyond EventsInv: only the last task flushes the list,
\* and the event that is being handed over was the first of the queue, which no event
\* added since precedes.
HandInv ==
    /\ dpc \in {"terminate", "flush", "flushRun", "blocked", "shutdownDone"} =>
         dTask = ShutdownTask
    /\ spc = "hand" => \A f \in eventList : expiration[sTask] <= expiration[f]

LEMMA HandStep ==
    ASSUME EventsInv, HandInv, [Next]_vars
    PROVE  HandInv'
<1> USE ConstantsFacts DEF HandInv
<1>1. TypeOK /\ PlacesInv /\ OneOwner /\ EventsDated /\ DueInv
  BY DEF EventsInv
<1>2. \A e \in eventList : expiration'[e] = expiration[e] /\ expiration[e] \in Nat
  BY <1>1, DueTimesKept DEF EventsDated, TypeOK, DispatcherTypeOK, SchedulerTypeOK, AllTasks
<1>3. dpc' \in {"terminate", "flush", "flushRun", "blocked", "shutdownDone"} =>
        dTask' = ShutdownTask
  <2>1. CASE DispatcherStep
    BY <2>1 DEF DispatcherStep, LoopHead, LockAndTake, WakeAndTake, TakeFront, StartTask,
       FinishTask, FlushTake, FlushFinish, FlushSelfLock, FlushEnd
  <2>2. CASE SchedulerStep
    BY <2>2 DEF SchedulerStep, SchedulerHead, SchedulerWait, SchedulerTimeout, SchedulerAwake,
       PopEvent, HandOver, SchedulerSignals, DeleteStopped, dispatcherSide, NotifyDispatcher
  <2>3. CASE \/ \E t \in Tasks, e \in Expirations : BodyAddsTask(t, e)
             \/ \E t \in Tasks, d \in Delays : BodyAddsEvent(t, d)
             \/ \E p \in Threads, t \in Tasks, e \in Expirations : ThreadAddsTask(p, t, e)
             \/ \E p \in Threads, t \in Tasks, d \in Delays : ThreadAddsEvent(p, t, d)
             \/ \E id \in 1..MaxEventId : BodyStopsEvent(id)
    BY <2>3 DEF BodyAddsTask, BodyAddsEvent, ThreadAddsTask, ThreadAddsEvent, BodyStopsEvent,
       dispatcherLocals
  <2>4. CASE SpuriousWakeup \/ Tick \/ BodyEventAdded \/ BeginShutdown
             \/ \E p \in Threads : ThreadSignals(p)
    BY <2>4 DEF SpuriousWakeup, SpuriousTaskWakeup, SpuriousEventWakeup, Tick, BodyEventAdded,
       BeginShutdown, ThreadSignals, NotifyDispatcher, dispatcherLocals, dispatcherSide
  <2>5. CASE ShutdownStep \/ UNCHANGED vars
    BY <2>5 DEF ShutdownStep, ShutdownStopsScheduler, ShutdownStopsDispatcher,
       ShutdownTerminatesScheduler, ShutdownTerminatesDispatcher, dispatcherLocals, vars
  <2> QED
    BY <2>1, <2>2, <2>3, <2>4, <2>5 DEF Next
<1>4. spc' = "hand" => \A f \in eventList' : expiration'[sTask'] <= expiration'[f]
  <2>1. CASE SchedulerStep /\ PopEvent
    <3>1. UNCHANGED expiration
      BY <2>1 DEF PopEvent, dispatcherSide
    <3>2. CASE schedulerState = "TERMINATED"
      BY <2>1, <3>2 DEF PopEvent
    <3>3. CASE schedulerState # "TERMINATED"
      BY <2>1, <3>1, <3>3 DEF PopEvent, IsTop
    <3> QED
      BY <3>2, <3>3
  <2>2. CASE ~(SchedulerStep /\ PopEvent)
    <3>1. spc' = "hand" => spc = "hand" /\ sTask' = sTask
      <4>1. CASE SchedulerStep
        BY <2>2, <4>1 DEF SchedulerStep, SchedulerHead, SchedulerWait, SchedulerTimeout,
           SchedulerAwake, HandOver, SchedulerSignals, DeleteStopped
      <4>2. CASE \/ \E t \in Tasks, e \in Expirations : BodyAddsTask(t, e)
                 \/ \E t \in Tasks, d \in Delays : BodyAddsEvent(t, d)
                 \/ \E p \in Threads, t \in Tasks, e \in Expirations : ThreadAddsTask(p, t, e)
                 \/ \E p \in Threads, t \in Tasks, d \in Delays : ThreadAddsEvent(p, t, d)
                 \/ BeginShutdown \/ DispatcherStep \/ Tick
                 \/ \E id \in 1..MaxEventId : BodyStopsEvent(id)
                 \/ UNCHANGED vars
        BY <4>2 DEF BodyAddsTask, BodyAddsEvent, ThreadAddsTask, ThreadAddsEvent, BeginShutdown,
           DispatcherStep, Tick, BodyStopsEvent, schedulerThread, vars
      <4>3. CASE SpuriousWakeup \/ BodyEventAdded \/ \E p \in Threads : ThreadSignals(p)
        BY <4>3 DEF SpuriousWakeup, SpuriousTaskWakeup, SpuriousEventWakeup, BodyEventAdded,
           ThreadSignals, NotifyScheduler, schedulerThread
      <4>4. CASE ShutdownStep
        BY <4>4 DEF ShutdownStep, ShutdownStopsScheduler, ShutdownStopsDispatcher,
           ShutdownTerminatesScheduler, ShutdownTerminatesDispatcher, schedulerThread
      <4> QED
        BY <4>1, <4>2, <4>3, <4>4 DEF Next
    <3>2. CASE spc' = "hand"
      <4>1. spc = "hand" /\ sTask' = sTask /\ sTask \in Tasks /\ ~SchedulerStep
        BY <1>1, <2>2, <3>1, <3>2 DEF TypeOK, SchedulerTypeOK, SchedulerStep, SchedulerHead,
           SchedulerWait, SchedulerTimeout, SchedulerAwake, HandOver, SchedulerSignals,
           DeleteStopped
      <4>2. /\ expiration'[sTask] = expiration[sTask]
            /\ expiration[sTask] \in Nat /\ expiration[sTask] <= now
        BY <1>1, <4>1, DueTimesKept DEF DueInv, Held
      <4>3. now \in Nat
        BY <1>1 DEF TypeOK, DispatcherTypeOK
      <4> QED
        BY <1>1, <1>2, <4>1, <4>2, <4>3, QueueStep
    <3> QED
      BY <3>2
  <2> QED
    BY <2>1, <2>2
<1> QED
  BY <1>3, <1>4

LEMMA WaitingFacts ==
    ASSUME EventsInv
    PROVE  /\ Waiting \subseteq eventList \cup Held(sTask)
           /\ Waiting \subseteq live /\ live \subseteq AllTasks
           /\ \A e \in Waiting : expiration[e] \in Nat
           /\ \A t \in AllTasks \ live : ~Service!Busy(t)
<1> USE ConstantsFacts
<1>1. TypeOK /\ OneOwner /\ EventsDated /\ DueInv
  BY DEF EventsInv
<1>2. Waiting \subseteq eventList \cup Held(sTask)
  BY <1>1 DEF Waiting, Held, TypeOK, SchedulerTypeOK
<1>3. Waiting \subseteq live /\ live \subseteq AllTasks
  BY <1>1, <1>2 DEF OneOwner, Owned, TypeOK, DispatcherTypeOK
<1>4. \A e \in Waiting : expiration[e] \in Nat
  BY <1>1, <1>2, <1>3 DEF DueInv, Held, EventsDated, TypeOK, DispatcherTypeOK
<1>5. \A t \in AllTasks \ live : ~Service!Busy(t)
  BY <1>1, <1>3 DEF Service!Busy, OneOwner, Owned, Queued, Elements, Executing
<1> QED
  BY <1>2, <1>3, <1>4, <1>5

\* The waiting events that stay keep their due time: Service!Keep.
LEMMA KeepWaiting ==
    ASSUME Waiting' \subseteq Waiting, \A e \in Waiting' : expiration'[e] = expiration[e]
    PROVE  Service!Keep(Waiting')
BY DEF Service!Keep, Due

LEMMA SameWaiting ==
    ASSUME Waiting' = Waiting, \A e \in Waiting : expiration'[e] = expiration[e]
    PROVE  UNCHANGED <<Waiting, Due>>
BY DEF Due

\* Taking a task from the list, executing it and deleting it are Start and Finish.
LEMMA DispatcherRefines ==
    ASSUME EventsInv, HandInv, DispatcherStep
    PROVE  [Service!Next]_Service!vars
<1> USE ConstantsFacts
<1>1. TypeOK /\ PlacesInv /\ OneOwner /\ ThreadPlaces
  BY DEF EventsInv, PlacesInv
<1>2. /\ UNCHANGED <<eventList, eventIds, sTask, spc, now, gameState>>
      /\ live' \in {live, live \ {dTask}, live \ {flushTask}}
      /\ \A t \in AllTasks : /\ t \in live' => expiration'[t] = expiration[t]
                             /\ eventId'[t] = IF t \in live' THEN eventId[t] ELSE 0
  BY <1>1, DispatcherEffect DEF DispatcherStep, callVars
<1>3. \A e \in eventList \cup Held(sTask) : expiration'[e] = expiration[e] /\ eventId'[e] = eventId[e]
  BY <1>1, <1>2 DEF OneOwner, Owned, Held, TypeOK, DispatcherTypeOK
<1>4. Waiting' = Waiting
  BY <1>2, <1>3 DEF Waiting, WasNotStopped, Held
<1>5. UNCHANGED <<Waiting, Due>>
  BY <1>3, <1>4, SameWaiting, WaitingFacts
<1>6. ASSUME taskList # <<>>, Executing \subseteq {ShutdownTask}, taskList' = Tail(taskList),
             Executing' = Executing \cup {Head(taskList)}
      PROVE  Service!Start
  BY <1>2, <1>5, <1>6 DEF Service!Start
<1>7. ASSUME NEW t \in Executing, Executing' = Executing \ {t}, UNCHANGED taskList
      PROVE  \E u \in AllTasks : Service!Finish(u)
  <2>1. t \in AllTasks
    BY <1>1, <1>7 DEF Executing, Held, TypeOK, DispatcherTypeOK
  <2> QED
    BY <1>2, <1>5, <1>7, <2>1 DEF Service!Finish
<1>8. ASSUME TakeFront, dTask = NoTask, flushTask = NoTask, UNCHANGED flushTask
      PROVE  Service!Start \/ UNCHANGED Service!vars
  <2>1. CASE taskList # <<>> /\ dispatcherState # "TERMINATED"
    <3>1. Head(taskList) \in AllTasks
      BY <1>1, <2>1 DEF TypeOK, DispatcherTypeOK
    <3> QED
      BY <1>6, <1>8, <2>1, <3>1 DEF TakeFront, Executing, Held
  <2>2. CASE ~(taskList # <<>> /\ dispatcherState # "TERMINATED")
    BY <1>2, <1>5, <1>8, <2>2 DEF TakeFront, Service!vars, Executing, Held
  <2> QED
    BY <2>1, <2>2
<1>9. CASE UNCHANGED <<taskList, dTask, flushTask>>
  BY <1>2, <1>5, <1>9 DEF Service!vars, Executing, Held
<1>10. CASE LoopHead \/ FlushSelfLock \/ FlushEnd
  BY <1>9, <1>10 DEF LoopHead, FlushSelfLock, FlushEnd
<1>11. CASE LockAndTake
  BY <1>1, <1>8, <1>9, <1>11 DEF LockAndTake, ThreadPlaces, Service!Next
<1>12. CASE WakeAndTake
  BY <1>1, <1>8, <1>12 DEF WakeAndTake, ThreadPlaces, Service!Next
<1>13. CASE StartTask
  <2>1. dTask # NoTask /\ flushTask = NoTask
    BY <1>1, <1>13 DEF StartTask, ThreadPlaces
  <2>2. CASE HasExpired(dTask)
    BY <1>7, <1>13, <2>1, <2>2 DEF StartTask, Executing, Held, Service!Next
  <2>3. CASE ~HasExpired(dTask)
    BY <1>9, <1>13, <2>3 DEF StartTask
  <2> QED
    BY <2>2, <2>3
<1>14. CASE FinishTask
  <2>1. dTask # NoTask /\ flushTask = NoTask
    BY <1>1, <1>14 DEF FinishTask, ThreadPlaces
  <2> QED
    BY <1>7, <1>14, <2>1 DEF FinishTask, Executing, Held, Service!Next
<1>15. CASE FlushTake
  <2>1. dTask = ShutdownTask /\ flushTask = NoTask /\ dTask # NoTask
    BY <1>1, <1>15 DEF FlushTake, HandInv, ThreadPlaces
  <2>2. Head(taskList) \in AllTasks
    BY <1>1, <1>15 DEF FlushTake, TypeOK, DispatcherTypeOK
  <2> QED
    BY <1>6, <1>15, <2>1, <2>2 DEF FlushTake, Executing, Held, Service!Next
<1>16. CASE FlushFinish
  <2>1. flushTask # NoTask /\ dTask # flushTask
    BY <1>1, <1>16 DEF FlushFinish, ThreadPlaces, OneOwner, Held
  <2> QED
    BY <1>7, <1>16, <2>1 DEF FlushFinish, Executing, Held, Service!Next
<1> QED
  BY <1>10, <1>11, <1>12, <1>13, <1>14, <1>15, <1>16 DEF DispatcherStep

\* A popped event is still waiting; it is released when it is handed over, or dropped
\* by a dispatcher that no longer accepts it.
LEMMA SchedulerRefines ==
    ASSUME EventsInv, HandInv, SchedulerStep
    PROVE  [Service!Next]_Service!vars
<1> USE ConstantsFacts
<1>1. TypeOK /\ PlacesInv /\ OneOwner /\ StopInv /\ DueInv
  BY DEF EventsInv
<1>2. /\ eventList \subseteq AllTasks /\ eventId \in [AllTasks -> 0 .. MaxEventId]
      /\ eventList \cap Held(sTask) = {}
      /\ expiration \in [AllTasks -> Nat \cup {NoDate}]
  BY <1>1 DEF TypeOK, DispatcherTypeOK, SchedulerTypeOK, OneOwner
<1>3. UNCHANGED <<now, gameState, Executing>>
  BY DEF SchedulerStep, SchedulerHead, SchedulerWait, SchedulerTimeout, SchedulerAwake, PopEvent,
     HandOver, SchedulerSignals, DeleteStopped, dispatcherSide, callVars, Executing, Held
<1>4. CASE PopEvent
  <2>1. UNCHANGED <<expiration, eventId, taskList>> /\ spc = "timeout"
    BY <1>4 DEF PopEvent, dispatcherSide
  <2>2. CASE schedulerState = "TERMINATED"
    BY <1>3, <1>4, <2>1, <2>2 DEF PopEvent, Waiting, WasNotStopped, Due, Service!vars
  <2>3. CASE schedulerState # "TERMINATED"
    <3>1. PICK e \in eventList :
             /\ sTask' = e /\ eventList' = eventList \ {e}
             /\ eventIds' = eventIds \ {eventId[e]}
             /\ spc' = IF eventId[e] \in eventIds THEN "hand" ELSE "delete"
      BY <1>4, <2>3 DEF PopEvent, RemainingIds, WasNotStopped
    <3>2. Waiting' = Waiting
      BY <1>1, <2>1, <3>1 DEF Waiting, WasNotStopped, StopInv
    <3> QED
      BY <1>3, <2>1, <3>2 DEF Due, Service!vars
  <2> QED
    BY <2>2, <2>3
<1>5. CASE HandOver
  <2>1. /\ UNCHANGED <<eventList, eventIds>> /\ spc = "hand" /\ spc' # "hand"
        /\ sTask \in Tasks /\ sTask \in Waiting
        /\ \A e \in eventList : eventId'[e] = eventId[e] /\ expiration'[e] = expiration[e]
    BY <1>1, <1>2, <1>5 DEF HandOver, DeleteEvent, Delete, DontExpire, Waiting, Held,
       TypeOK, SchedulerTypeOK
  <2>2. Waiting' = Waiting \ {sTask} /\ Waiting' \subseteq eventList
    BY <1>2, <2>1 DEF Waiting, WasNotStopped, Held
  <2>3. Service!Keep(Waiting \ {sTask})
    BY <2>1, <2>2, KeepWaiting
  <2>4. CASE Accepts
    <3>1. taskList' = Append(taskList, sTask)
      BY <1>5, <2>4 DEF HandOver, Enqueue
    <3>2. Due[sTask] <= now /\ \A u \in Waiting : Due[sTask] <= Due[u]
      <4>1. expiration[sTask] \in Nat /\ expiration[sTask] <= now
        BY <1>1, <2>1 DEF DueInv
      <4>2. \A u \in Waiting : expiration[sTask] <= expiration[u]
        BY <2>1, <4>1, WaitingFacts DEF HandInv, Held
      <4> QED
        BY <2>1, <4>1, <4>2 DEF Due
    <3>3. Service!Release(sTask)
      BY <1>3, <2>1, <2>3, <3>1, <3>2 DEF Service!Release
    <3> QED
      BY <2>1, <3>3 DEF Service!Next
  <2>5. CASE ~Accepts
    <3>1. gameState = "SHUTDOWN"
      BY <1>1, <2>5 DEF Accepts, PlacesInv, ShutdownOrder, TypeOK
    <3>2. UNCHANGED taskList
      BY <1>5, <2>5 DEF HandOver
    <3>3. Service!Drop
      BY <1>3, <2>3, <3>1, <3>2 DEF Service!Drop
    <3> QED
      BY <3>3 DEF Service!Next
  <2> QED
    BY <2>4, <2>5
<1>6. CASE DeleteStopped
  <2>1. /\ UNCHANGED <<eventList, eventIds, taskList>> /\ spc = "delete" /\ spc' = "head"
        /\ \A e \in eventList : eventId'[e] = eventId[e] /\ expiration'[e] = expiration[e]
    BY <1>2, <1>6 DEF DeleteStopped, DeleteEvent, Delete, Held
  <2>2. Waiting' = Waiting /\ Waiting \subseteq eventList
    BY <2>1 DEF Waiting, WasNotStopped
  <2> QED
    BY <1>3, <2>1, <2>2, SameWaiting DEF Service!vars
<1>7. CASE SchedulerHead \/ SchedulerWait \/ SchedulerTimeout \/ SchedulerAwake \/ SchedulerSignals
  <2>1. /\ UNCHANGED <<eventList, eventIds, eventId, expiration, taskList>>
        /\ spc # "hand" /\ spc' # "hand"
    BY <1>7 DEF SchedulerHead, SchedulerWait, SchedulerTimeout, SchedulerAwake, SchedulerSignals,
       dispatcherSide
  <2> QED
    BY <1>3, <2>1 DEF Waiting, WasNotStopped, Due, Service!vars
<1> QED
  BY <1>4, <1>5, <1>6, <1>7 DEF SchedulerStep

\* Every step of the two threads, of a task's body, of another thread and of the
\* shutdown is a step of the service or none.
LEMMA RefinementStep ==
    ASSUME EventsInv, HandInv, [Next]_vars
    PROVE  [Service!Next]_Service!vars
<1> USE ConstantsFacts
<1>1. /\ TypeOK /\ PlacesInv /\ OneOwner /\ StopInv /\ ThreadPlaces /\ ShutdownOrder
      /\ eventList \subseteq AllTasks /\ eventId \in [AllTasks -> 0 .. MaxEventId]
      /\ expiration \in [AllTasks -> Nat \cup {NoDate}] /\ now \in Nat
  BY DEF EventsInv, PlacesInv, TypeOK, DispatcherTypeOK, SchedulerTypeOK
<1>2. /\ Waiting \subseteq eventList \cup Held(sTask)
      /\ Waiting \subseteq live /\ live \subseteq AllTasks
      /\ \A t \in AllTasks \ live : ~Service!Busy(t)
  BY WaitingFacts
<1>3. ASSUME UNCHANGED <<eventList, eventIds, eventId, sTask>>, spc' = "hand" <=> spc = "hand"
      PROVE  Waiting' = Waiting
  BY <1>3 DEF Waiting, WasNotStopped
<1>4. UNCHANGED <<dTask, flushTask>> => UNCHANGED Executing
  BY DEF Executing, Held
<1>5. ASSUME NEW t \in AllTasks, NEW x, AddNewTask(t, x), t = ShutdownTask => Accepts,
             UNCHANGED <<now, dispatcherLocals, eventVars, schedulerThread>>,
             gameState' = IF t = ShutdownTask THEN "SHUTDOWN" ELSE gameState
      PROVE  [Service!Next]_Service!vars
  <2>1. UNCHANGED <<Waiting, Due, Executing, now>>
    <3>1. \A e \in Waiting : expiration'[e] = expiration[e]
      BY <1>1, <1>2, <1>5 DEF AddNewTask
    <3> QED
      BY <1>3, <1>4, <1>5, <3>1, SameWaiting DEF dispatcherLocals, eventVars, schedulerThread
  <2>2. CASE Accepts
    <3>1. /\ ~Service!Busy(t) /\ taskList' = Append(taskList, t)
      BY <1>2, <1>5, <2>2 DEF AddNewTask, Enqueue
    <3>2. (gameState' = "SHUTDOWN") = ((gameState = "SHUTDOWN") \/ t = ShutdownTask)
      BY <1>5
    <3>3. Service!Submit(t)
      BY <2>1, <3>1, <3>2 DEF Service!Submit
    <3> QED
      BY <3>3 DEF Service!Next
  <2>3. CASE ~Accepts
    BY <1>5, <2>1, <2>3 DEF AddNewTask, Service!vars
  <2> QED
    BY <2>2, <2>3
<1>6. ASSUME NEW t \in Tasks, NEW d \in Delays, AddNewEvent(t, now + Delay(d)),
             UNCHANGED <<now, taskList, gameState, dispatcherLocals, schedulerThread>>
      PROVE  [Service!Next]_Service!vars
  <2>1. /\ t \in AllTasks /\ t \notin live /\ ~Service!Busy(t) /\ t \notin Waiting
        /\ eventList' = eventList \cup {t} /\ eventIds' = eventIds \cup {NextEventId}
        /\ eventId'[t] = NextEventId /\ expiration'[t] = now + Delay(d)
        /\ \A u \in live : expiration'[u] = expiration[u] /\ eventId'[u] = eventId[u]
        /\ \A e \in eventList : eventId[e] # NextEventId
        /\ UNCHANGED <<sTask, spc, now, taskList, gameState, Executing>>
    BY <1>1, <1>2, <1>4, <1>6 DEF AddNewEvent, FreshEventId, schedulerThread, dispatcherLocals
  <2>2. eventList \subseteq live
    BY <1>1 DEF OneOwner, Owned
  <2>3. Waiting' = Waiting \cup {t}
    BY <2>1, <2>2 DEF Waiting, WasNotStopped
  <2>4. now + Delay(d) > now
    BY <1>1 DEF Delay
  <2>5. Due' = [u \in Waiting' |-> IF u = t THEN Due'[t] ELSE Due[u]] /\ Due'[t] > now
    BY <1>2, <2>1, <2>3, <2>4 DEF Due
  <2>6. Service!Schedule(t)
    BY <2>1, <2>3, <2>5 DEF Service!Schedule
  <2> QED
    BY <2>1, <2>6 DEF Service!Next
<1>7. CASE \E t \in Tasks, e \in Expirations : BodyAddsTask(t, e)
  BY <1>5, <1>7 DEF BodyAddsTask, callVars
<1>8. CASE \E p \in Threads, t \in Tasks, e \in Expirations : ThreadAddsTask(p, t, e)
  BY <1>5, <1>8 DEF ThreadAddsTask, callVars
<1>9. CASE BeginShutdown
  BY <1>1, <1>5, <1>9 DEF BeginShutdown, Accepts, ShutdownOrder
<1>10. CASE \E t \in Tasks, d \in Delays : BodyAddsEvent(t, d)
  BY <1>6, <1>10 DEF BodyAddsEvent
<1>11. CASE \E p \in Threads, t \in Tasks, d \in Delays : ThreadAddsEvent(p, t, d)
  BY <1>6, <1>11 DEF ThreadAddsEvent, callVars
<1>12. CASE \E id \in 1..MaxEventId : BodyStopsEvent(id)
  <2>1. PICK id \in 1..MaxEventId :
           /\ eventIds' = eventIds \ {id} /\ id \in eventIds
           /\ UNCHANGED <<now, expiration, taskList, gameState, eventId, eventList, sTask, spc,
                          dTask, flushTask>>
    BY <1>12 DEF BodyStopsEvent, RemainingIds, dispatcherLocals, schedulerThread, callVars
  <2>2. UNCHANGED <<now, taskList, Executing, gameState>>
    BY <1>4, <2>1
  <2>3. CASE \E e \in eventList : eventId[e] = id
    <3>1. PICK e \in eventList : eventId[e] = id
      BY <2>3
    <3>2. e \in Waiting /\ e \in AllTasks
      BY <1>1, <2>1, <3>1 DEF Waiting, WasNotStopped
    <3>3. Waiting' = Waiting \ {e}
      <4>1. \A f \in eventList : eventId[f] = id => f = e
        BY <1>1, <3>1 DEF StopInv
      <4>2. spc = "hand" => sTask # e
        BY <1>1, <3>1 DEF OneOwner, Held, TypeOK, SchedulerTypeOK
      <4> QED
        BY <2>1, <3>1, <4>1, <4>2 DEF Waiting, WasNotStopped
    <3>4. Service!Cancel(e)
      BY <2>1, <2>2, <3>2, <3>3, KeepWaiting DEF Service!Cancel
    <3> QED
      BY <3>2, <3>4 DEF Service!Next
  <2>4. CASE ~ \E e \in eventList : eventId[e] = id
    <3>1. Waiting' = Waiting
      BY <2>1, <2>4 DEF Waiting, WasNotStopped
    <3> QED
      BY <2>1, <2>2, <3>1, SameWaiting DEF Service!vars
  <2> QED
    BY <2>3, <2>4
<1>13. CASE ShutdownTerminatesScheduler
  <2>1. /\ eventList' = {} /\ gameState = "SHUTDOWN"
        /\ UNCHANGED <<now, taskList, gameState, expiration, sTask, spc, dTask, flushTask>>
    BY <1>1, <1>13 DEF ShutdownTerminatesScheduler, TerminateScheduler, ShutdownOrder, TypeOK,
       dispatcherLocals, callVars
  <2>2. Waiting' \subseteq Waiting
    BY <2>1 DEF Waiting
  <2>3. Service!Drop
    BY <1>4, <2>1, <2>2, KeepWaiting DEF Service!Drop
  <2> QED
    BY <2>3 DEF Service!Next
<1>14. CASE Tick
  <2>1. UNCHANGED <<taskList, gameState, Waiting, Due, Executing>> /\ now' > now
    BY <1>1, <1>3, <1>4, <1>14 DEF Tick, Due, eventVars, schedulerThread, dispatcherLocals, callVars
  <2> QED
    BY <2>1 DEF Service!Advance, Service!Next
<1>15. CASE \/ SpuriousWakeup \/ BodyEventAdded \/ \E p \in Threads : ThreadSignals(p)
            \/ ShutdownStopsScheduler \/ ShutdownStopsDispatcher
            \/ ShutdownTerminatesDispatcher \/ UNCHANGED vars
  <2>1. /\ UNCHANGED <<now, taskList, gameState, expiration, eventList, eventIds, eventId, sTask,
                       dTask, flushTask>>
        /\ spc' = "hand" <=> spc = "hand"
    BY <1>15 DEF SpuriousWakeup, SpuriousTaskWakeup, SpuriousEventWakeup, BodyEventAdded,
       ThreadSignals, NotifyScheduler, ShutdownStopsScheduler, ShutdownStopsDispatcher,
       ShutdownTerminatesDispatcher, dispatcherSide, dispatcherLocals, eventVars,
       schedulerThread, callVars, vars
  <2> QED
    BY <1>3, <1>4, <2>1 DEF Due, Service!vars
<1> QED
  BY <1>7, <1>8, <1>9, <1>10, <1>11, <1>12, <1>13, <1>14, <1>15, DispatcherRefines,
     SchedulerRefines DEF Next, ShutdownStep

LEMMA RefinementInit ==
    ASSUME Init
    PROVE  HandInv /\ Service!Init
<1>1. Waiting = {} /\ Executing = {}
  BY DEF Init, Waiting, Executing, Held
<1>2. Due = [t \in Waiting |-> 0]
  BY <1>1 DEF Due
<1> QED
  BY <1>1, <1>2, ConstantsFacts DEF Init, HandInv, Service!Init

\* The dispatcher and the scheduler, with their two threads, locks and signals, do
\* what TaskService says and nothing else, whatever the other threads and the bodies
\* of the tasks do and however a shutdown interleaves with them.
THEOREM TaskSystemImplementsService == Spec => ImplementsService
<1>1. Init => HandInv /\ Service!Init
  BY RefinementInit
<1>2. HandInv /\ EventsInv /\ [Next]_vars => HandInv'
  BY HandStep
<1>3. EventsInv /\ HandInv /\ [Next]_vars => [Service!Next]_Service!vars
  BY RefinementStep
<1> QED
  BY <1>1, <1>2, <1>3, EventsInductive, PTL DEF Spec, ImplementsService, Service!Spec

=============================================================================
