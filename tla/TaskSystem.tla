----------------------------- MODULE TaskSystem -----------------------------
(***************************************************************************)
(* The dispatcher and the scheduler at work: the two threads, the other    *)
(* threads of the server that call addTask and addEvent, the calls that    *)
(* the body of a task makes while the dispatcher executes it, and the      *)
(* shutdown that Game::setGameState begins and Game::shutdown carries out. *)
(***************************************************************************)
EXTENDS Scheduler, FiniteSets

CONSTANTS
    Delays,           \* the delays events are created with
    MaxTime           \* bound: the clock stops here and no event is due later

ASSUME TaskSystemConstants ==
    /\ Delays \subseteq Nat
    /\ MaxTime \in Nat

VARIABLES
    gameState,        \* Game::gameState, NORMAL or SHUTDOWN
    dAdded,           \* the event addEvent is about to return to a task's body
    stopped           \* history: the events stopEvent returned true for

vars == <<now, live, expiration, taskList, dispatcherState, taskLock, dpc, dTask,
          flushTask, tpc, eventId, lastEventId, eventList, eventIds, schedulerState,
          spc, wakeAt, sTask, gameState, dAdded, stopped>>

callVars == <<gameState, dAdded>>
eventVars == <<eventId, lastEventId, eventList, eventIds, stopped>>
schedulerThread == <<schedulerState, spc, wakeAt, sTask>>
dispatcherLocals == <<dTask, flushTask, taskLock>>

Elements(s) == {s[i] : i \in DOMAIN s}
Distinct(s) == \A i, j \in DOMAIN s : s[i] = s[j] => i = j

Queued == Elements(taskList)

Init ==
    /\ now = 0
    /\ live = {}
    /\ expiration = [t \in AllTasks |-> NoDate]
    /\ taskList = <<>>
    /\ dispatcherState = "RUNNING"
    /\ taskLock = "free"
    /\ dpc = "head"
    /\ dTask = NoTask
    /\ flushTask = NoTask
    /\ tpc = [p \in Threads |-> "idle"]
    /\ eventId = [t \in AllTasks |-> 0]
    /\ lastEventId = 0
    /\ eventList = {}
    /\ eventIds = {}
    /\ schedulerState = "RUNNING"
    /\ spc = "head"
    /\ wakeAt = 0
    /\ sTask = NoTask
    /\ gameState = "NORMAL"
    /\ dAdded = NoTask
    /\ stopped = {}

-----------------------------------------------------------------------------
(* The clock, and the steps of the two threads.                            *)

Tick ==
    /\ now < MaxTime
    /\ now' = now + 1
    /\ UNCHANGED <<live, expiration, taskList, dispatcherState, dpc, tpc>>
    /\ UNCHANGED <<dispatcherLocals, eventVars, schedulerThread, callVars>>

DispatcherStep ==
    /\ \/ LoopHead
       \/ LockAndTake
       \/ WakeAndTake
       \/ StartTask
       \/ FinishTask
       \/ FlushTake
       \/ FlushFinish
       \/ FlushSelfLock
       \/ FlushEnd
    /\ eventId' = [t \in AllTasks |-> IF t \in live' THEN eventId[t] ELSE 0]
    /\ UNCHANGED <<lastEventId, eventList, eventIds, stopped, schedulerThread, callVars>>

SchedulerStep ==
    /\ \/ SchedulerHead
       \/ SchedulerWait
       \/ SchedulerTimeout
       \/ SchedulerAwake
       \/ PopEvent
       \/ HandOver
       \/ SchedulerSignals
       \/ DeleteStopped
    /\ stopped' = stopped \cap live'
    /\ UNCHANGED callVars

SpuriousWakeup ==
    \/ SpuriousTaskWakeup /\ UNCHANGED <<eventVars, schedulerThread, callVars>>
    \/ SpuriousEventWakeup /\ UNCHANGED <<stopped, callVars>>

-----------------------------------------------------------------------------
(* The calls of a task's body. A refused addTask or addEvent deletes the   *)
(* new task at once and changes nothing.                                   *)

InBody == dpc = "run" /\ dTask # ShutdownTask

\* A plain task never expires, a timed one after DISPATCHER_TASK_EXPIRATION.
Expirations == {NoDate, now + TaskExpiration}

BodyAddsTask(t, e) ==
    /\ InBody
    /\ AddNewTask(t, e)
    /\ UNCHANGED <<now, dispatcherState, dpc, tpc, dispatcherLocals, eventVars,
                   schedulerThread, callVars>>

BodyAddsEvent(t, d) ==
    /\ InBody
    /\ now + Delay(d) <= MaxTime
    /\ AddNewEvent(t, now + Delay(d))
    /\ dAdded' = t
    /\ \E signal \in SignalChoices(t, now + Delay(d)) :
          dpc' = IF signal THEN "addedTop" ELSE "added"
    /\ UNCHANGED <<now, taskList, dispatcherState, tpc, dispatcherLocals, stopped,
                   schedulerThread, gameState>>

\* After the unlock: signal, then read the id from the task and return it.
BodyEventAdded ==
    /\ dpc \in {"added", "addedTop"}
    /\ spc' = IF dpc = "addedTop" THEN NotifyScheduler(spc) ELSE spc
    /\ dpc' = "run"
    /\ dAdded' = NoTask
    /\ UNCHANGED <<now, live, expiration, taskList, dispatcherState, tpc,
                   dispatcherLocals, eventVars, schedulerState, wakeAt, sTask,
                   gameState>>

BodyStopsEvent(id) ==
    /\ InBody
    /\ id \in eventIds
    /\ eventIds' = RemainingIds(id)
    /\ stopped' = stopped \cup {e \in eventList : eventId[e] = id}
    /\ UNCHANGED <<now, live, expiration, taskList, dispatcherState, dpc, tpc,
                   dispatcherLocals, eventId, lastEventId, eventList,
                   schedulerThread, callVars>>

-----------------------------------------------------------------------------
(* Shutdown: Game::setGameState queues Game::shutdown and then stops the   *)
(* scheduler and the dispatcher; Game::shutdown terminates both.           *)

BeginShutdown ==
    /\ InBody
    /\ gameState = "NORMAL"
    /\ gameState' = "SHUTDOWN"
    /\ AddNewTask(ShutdownTask, NoDate)
    /\ dpc' = "stopScheduler"
    /\ UNCHANGED <<now, dispatcherState, tpc, dispatcherLocals, eventVars,
                   schedulerThread, dAdded>>

ShutdownStopsScheduler ==
    /\ dpc = "stopScheduler"
    /\ StopScheduler
    /\ dpc' = "stopDispatcher"
    /\ UNCHANGED <<now, live, expiration, taskList, dispatcherState, tpc,
                   dispatcherLocals, eventVars, spc, wakeAt, sTask, callVars>>

ShutdownStopsDispatcher ==
    /\ dpc = "stopDispatcher"
    /\ StopDispatcher
    /\ dpc' = "run"
    /\ UNCHANGED <<now, live, expiration, taskList, tpc, dispatcherLocals, eventVars,
                   schedulerThread, callVars>>

ShutdownTerminatesScheduler ==
    /\ dpc = "run" /\ dTask = ShutdownTask
    /\ TerminateScheduler
    /\ dpc' = "terminate"
    /\ UNCHANGED <<now, live, expiration, taskList, dispatcherState, tpc,
                   dispatcherLocals, eventId, lastEventId, stopped, spc, wakeAt,
                   sTask, callVars>>

ShutdownTerminatesDispatcher ==
    /\ dpc = "terminate"
    /\ TerminateDispatcher
    /\ dpc' = "flush"
    /\ UNCHANGED <<now, live, expiration, taskList, tpc, dTask, flushTask, eventVars,
                   schedulerThread, callVars>>

ShutdownStep ==
    \/ ShutdownStopsScheduler
    \/ ShutdownStopsDispatcher
    \/ ShutdownTerminatesScheduler
    \/ ShutdownTerminatesDispatcher

-----------------------------------------------------------------------------
(* The other threads: connections, acceptors and the console.              *)

ThreadAddsTask(p, t, e) ==
    /\ tpc[p] = "idle"
    /\ AddNewTask(t, e)
    /\ tpc' = [tpc EXCEPT ![p] = IF SignalsTask THEN "signalTask" ELSE "idle"]
    /\ UNCHANGED <<now, dispatcherState, dpc, dispatcherLocals, eventVars,
                   schedulerThread, callVars>>

ThreadAddsEvent(p, t, d) ==
    /\ tpc[p] = "idle"
    /\ now + Delay(d) <= MaxTime
    /\ AddNewEvent(t, now + Delay(d))
    /\ \E signal \in SignalChoices(t, now + Delay(d)) :
          tpc' = [tpc EXCEPT ![p] = IF signal THEN "signalEvent" ELSE "idle"]
    /\ UNCHANGED <<now, taskList, dispatcherState, dpc, dispatcherLocals, stopped,
                   schedulerThread, callVars>>

ThreadSignals(p) ==
    /\ \/ tpc[p] = "signalTask" /\ dpc' = NotifyDispatcher(dpc) /\ UNCHANGED spc
       \/ tpc[p] = "signalEvent" /\ spc' = NotifyScheduler(spc) /\ UNCHANGED dpc
    /\ tpc' = [tpc EXCEPT ![p] = "idle"]
    /\ UNCHANGED <<now, live, expiration, taskList, dispatcherState, dispatcherLocals,
                   eventVars, schedulerState, wakeAt, sTask, callVars>>

-----------------------------------------------------------------------------
Next ==
    \/ Tick
    \/ DispatcherStep
    \/ SchedulerStep
    \/ SpuriousWakeup
    \/ \E t \in Tasks, e \in Expirations : BodyAddsTask(t, e)
    \/ \E t \in Tasks, d \in Delays : BodyAddsEvent(t, d)
    \/ BodyEventAdded
    \/ \E id \in 1..MaxEventId : BodyStopsEvent(id)
    \/ BeginShutdown
    \/ ShutdownStep
    \/ \E p \in Threads, t \in Tasks, e \in Expirations : ThreadAddsTask(p, t, e)
    \/ \E p \in Threads, t \in Tasks, d \in Delays : ThreadAddsEvent(p, t, d)
    \/ \E p \in Threads : ThreadSignals(p)

Spec == Init /\ [][Next]_vars

\* Time passes, the two threads run, a task's body returns, a call completes. A
\* timed_wait whose time has come times out sooner or later: it does not return
\* without a signal every time.
Fairness ==
    /\ WF_vars(Tick)
    /\ WF_vars(DispatcherStep)
    /\ WF_vars(SchedulerStep)
    /\ SF_vars(SchedulerStep /\ SchedulerTimeout)
    /\ WF_vars(ShutdownStep)
    /\ WF_vars(BodyEventAdded)
    /\ \A p \in Threads : WF_vars(ThreadSignals(p))

FairSpec == Spec /\ Fairness
-----------------------------------------------------------------------------
(* Properties.                                                             *)

\* Every variable has its type.
TypeOK ==
    /\ DispatcherTypeOK
    /\ SchedulerTypeOK
    /\ gameState \in {"NORMAL", "SHUTDOWN"}
    /\ dAdded \in Tasks \cup {NoTask}
    /\ stopped \subseteq Tasks

Held(t) == {t} \ {NoTask}
Owned == Queued \cup eventList \cup Held(sTask) \cup Held(dTask) \cup Held(flushTask)

\* A task has one owner at a time: the dispatcher's list, the scheduler's queue
\* or a local variable of one of the threads. So it is executed at most once and
\* deleted once, and until Scheduler::shutdown drops its queue no task is leaked.
OneOwner ==
    /\ Distinct(taskList)
    /\ Queued \cap (eventList \cup Held(sTask) \cup Held(dTask) \cup Held(flushTask)) = {}
    /\ eventList \cap (Held(sTask) \cup Held(dTask) \cup Held(flushTask)) = {}
    /\ Held(sTask) \cap (Held(dTask) \cup Held(flushTask)) = {}
    /\ Held(dTask) \cap Held(flushTask) = {}
    /\ Owned \subseteq live
    /\ schedulerState # "TERMINATED" => live \subseteq Owned

\* The places of the two threads and their local variables agree.
ThreadPlaces ==
    /\ dTask = NoTask <=> dpc \in {"head", "lock", "wait", "woken", "exit"}
    /\ flushTask # NoTask <=> dpc \in {"flushRun", "blocked"}
    /\ taskLock = "shutdown" <=> dpc \in {"flush", "flushRun", "blocked"}
    /\ dAdded # NoTask <=> dpc \in {"added", "addedTop"}

\* Nothing is stopped before a shutdown begins, and the scheduler is stopped
\* before the dispatcher.
ShutdownOrder ==
    /\ gameState = "NORMAL" =>
         schedulerState = "RUNNING" /\ ShutdownTask \notin Queued \cup {dTask}
    /\ dpc = "stopScheduler" => gameState = "SHUTDOWN" /\ schedulerState = "RUNNING"
    /\ dpc = "stopDispatcher" => schedulerState = "CLOSING"
    /\ dpc = "terminate" => schedulerState = "TERMINATED"
    /\ schedulerState = "RUNNING" \/ dpc = "stopDispatcher" => dispatcherState = "RUNNING"

\* An event in the queue has its due time, and so has a thread that waits for one.
EventsDated ==
    /\ \A e \in eventList : expiration[e] # NoDate
    /\ spc \in {"timedWait", "timeout"} => wakeAt # NoDate

\* When stopEvent has returned true the event is never executed, however its
\* scheduler and the dispatcher interleave; an event that nobody stopped keeps
\* its id among the active ones, so it is not taken for a stopped one.
StoppedNeverRuns ==
    /\ stopped \cap (Queued \cup {dTask, flushTask}) = {}
    /\ sTask \in stopped => spc = "delete"
    /\ \A e \in eventList : e \in stopped <=> eventId[e] \notin eventIds

\* The scheduler hands no event over before it is due, a timeout always finds an
\* event to pop, and no event that was handed over is dropped as an expired task
\* because its due time is read as an expiration.
DueThenExecuted ==
    /\ sTask # NoTask => expiration[sTask] <= now
    /\ spc = "timeout" /\ schedulerState # "TERMINATED" => eventList # {}
    /\ \A t \in Queued \cup Held(dTask) : eventId[t] # 0 => ~HasExpired(t)

EventSignalPending ==
    \/ dpc = "addedTop"
    \/ \E p \in Threads : tpc[p] = "signalEvent"

\* Neither thread sleeps through work: while the dispatcher waits and a task is in
\* its list, or the scheduler waits longer than until its first event is due, some
\* thread still has to send the signal that wakes it.
NoLostWakeup ==
    /\ dpc = "wait" /\ taskList # <<>> =>
         spc = "signal" \/ \E p \in Threads : tpc[p] = "signalTask"
    /\ spc = "wait" /\ eventList # {} => EventSignalPending
    /\ spc = "timedWait" /\ (\E e \in eventList : expiration[e] < wakeAt) => EventSignalPending

\* The comment of Scheduler::shutdown: "this list should already be empty".
ListEmptyAtShutdown == dpc = "run" /\ dTask = ShutdownTask => eventList = {}

\* The events the service still has to execute: queued and not stopped, or popped
\* and on the way to the dispatcher.
Waiting == {e \in eventList : WasNotStopped(e)} \cup (IF spc = "hand" THEN {sTask} ELSE {})
Due == [e \in Waiting |-> expiration[e]]
Executing == Held(dTask) \cup Held(flushTask)

Service == INSTANCE TaskService WITH
    Tasks <- AllTasks,
    LastTask <- ShutdownTask,
    waiting <- Waiting,
    due <- Due,
    queue <- taskList,
    executing <- Executing,
    closing <- (gameState = "SHUTDOWN")

\* The two threads with their locks and signals implement the service: stopEvent
\* cancels an event at once or comes too late, events join the list in the order
\* of their due times, and the list is served in order, one task at a time.
ImplementsService == Service!Spec

\* Every queued task leaves the list, unless a flushed task locked its own thread,
\* and every event leaves the queue: it is handed over, deleted as stopped or dropped.
AllServed ==
    /\ \A t \in AllTasks : t \in Queued ~> (t \notin Queued \/ dpc = "blocked")
    /\ \A t \in Tasks : t \in eventList ~> t \notin eventList

\* Once setGameState has begun the shutdown the dispatcher thread ends, unless a
\* flushed task locked it.
ShutdownEnds == gameState = "SHUTDOWN" ~> dpc \in {"exit", "blocked"}
=============================================================================
