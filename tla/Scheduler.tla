----------------------------- MODULE Scheduler ------------------------------
(***************************************************************************)
(* The scheduler of the server (scheduler.h, scheduler.cpp): a priority    *)
(* queue of delayed tasks, the set of the ids that were not stopped, and   *)
(* one thread that hands every due event to the dispatcher. Sections under *)
(* m_eventLock run no foreign code and are single steps.                   *)
(***************************************************************************)
EXTENDS Dispatcher

CONSTANTS
    MaxEventId,       \* the largest event id, 0xFFFFFFFF in the code
    MinTicks          \* SCHEDULER_MINTICKS, in ticks of the clock

ASSUME SchedulerConstants ==
    /\ MaxEventId \in Nat \ {0}
    /\ MinTicks \in Nat \ {0}

VARIABLES
    eventId,          \* SchedulerTask::m_eventid, 0 for a plain task
    lastEventId,      \* Scheduler::m_lastEventId
    eventList,        \* Scheduler::m_eventList, the events in the queue
    eventIds,         \* Scheduler::m_eventIds
    schedulerState,   \* Scheduler::m_threadState
    spc,              \* where the scheduler thread is
    wakeAt,           \* the time timed_wait was given
    sTask             \* local variable task of schedulerThread

-----------------------------------------------------------------------------
(* Events and their queue.                                                 *)

\* createSchedulerTask: a delay is never shorter than SCHEDULER_MINTICKS.
Delay(d) == IF d < MinTicks THEN MinTicks ELSE d

\* Mutant of IsTop: the order of the queue is reversed.
IsBottom(e, list) == e \in list /\ \A f \in list : expiration[e] >= expiration[f]

\* The order of the queue, lessSchedTask: no event of the set is due before e.
IsTop(e, list) == e \in list /\ \A f \in list : expiration[e] <= expiration[f]

\* Ids are handed out in turn and start again at 1 after the largest.
NextEventId == (IF lastEventId >= MaxEventId THEN 0 ELSE lastEventId) + 1

\* Environment: no event stays queued while MaxEventId others are created.
FreshEventId == \A e \in eventList : eventId[e] # NextEventId

-----------------------------------------------------------------------------
(* Scheduler::addEvent and Scheduler::stopEvent.                           *)

SchedulerAccepts == schedulerState = "RUNNING"

\* The locked part of addEvent for a new event that is due at time e.
AddNewEvent(t, e) ==
    /\ t \notin live
    /\ SchedulerAccepts
    /\ FreshEventId
    /\ live' = live \cup {t}
    /\ expiration' = [expiration EXCEPT ![t] = e]
    /\ eventId' = [eventId EXCEPT ![t] = NextEventId]
    /\ lastEventId' = NextEventId
    /\ eventIds' = eventIds \cup {NextEventId}
    /\ eventList' = eventList \cup {t}

\* do_signal: the new event is at the top of the queue. Of two events that are
\* due at the same time either may be the top.
SignalChoices(t, e) ==
    LET others == {expiration[f] : f \in eventList}
    IN  IF \E d \in others : d < e THEN {FALSE}
        ELSE IF e \in others THEN {TRUE, FALSE} ELSE {TRUE}

\* m_eventSignal.notify_one()
NotifyScheduler(pc) == IF pc \in {"wait", "timedWait"} THEN "woken" ELSE pc

\* stopEvent forgets the id; the event stays in the queue until it is due.
RemainingIds(id) == eventIds \ {id}

-----------------------------------------------------------------------------
(* Scheduler::schedulerThread. Its local variable runTask is the choice    *)
(* between spc = "hand" and spc = "delete".                                *)

dispatcherSide == <<now, live, expiration, taskList, dispatcherState, taskLock,
                    dpc, dTask, flushTask, tpc>>

SchedulerHead ==
    /\ spc = "head"
    /\ spc' = IF schedulerState = "TERMINATED" THEN "exit" ELSE "lock"
    /\ UNCHANGED dispatcherSide
    /\ UNCHANGED <<eventId, lastEventId, eventList, eventIds, schedulerState,
                   wakeAt, sTask>>

\* Wait for a signal, or no longer than until the first event is due.
SchedulerWait ==
    /\ spc = "lock"
    /\ IF eventList = {}
       THEN spc' = "wait" /\ UNCHANGED wakeAt
       ELSE /\ spc' = "timedWait"
            /\ \E e \in eventList : IsTop(e, eventList) /\ wakeAt' = expiration[e]
    /\ UNCHANGED dispatcherSide
    /\ UNCHANGED <<eventId, lastEventId, eventList, eventIds, schedulerState, sTask>>

\* timed_wait returns false: the time it was given has come.
SchedulerTimeout ==
    /\ spc = "timedWait"
    /\ wakeAt <= now
    /\ spc' = "timeout"
    /\ UNCHANGED dispatcherSide
    /\ UNCHANGED <<eventId, lastEventId, eventList, eventIds, schedulerState,
                   wakeAt, sTask>>

SpuriousEventWakeup ==
    /\ spc \in {"wait", "timedWait"}
    /\ spc' = "woken"
    /\ UNCHANGED dispatcherSide
    /\ UNCHANGED <<eventId, lastEventId, eventList, eventIds, schedulerState,
                   wakeAt, sTask>>

\* A wait that did not time out takes no event.
SchedulerAwake ==
    /\ spc = "woken"
    /\ spc' = "head"
    /\ wakeAt' = 0
    /\ UNCHANGED dispatcherSide
    /\ UNCHANGED <<eventId, lastEventId, eventList, eventIds, schedulerState,
                   sTask>>

\* Mutant of WasNotStopped: the ids are not looked up.
AlwaysRuns(e) == TRUE

\* An event is executed when its id is still among the active ones.
WasNotStopped(e) == eventId[e] \in eventIds

\* With the lock held again after a timeout: pop the top and claim its id.
PopEvent ==
    /\ spc = "timeout"
    /\ wakeAt' = 0
    /\ IF schedulerState = "TERMINATED"
       THEN spc' = "head" /\ UNCHANGED <<eventList, eventIds, sTask>>
       ELSE \E e \in eventList :
              /\ IsTop(e, eventList)
              /\ sTask' = e
              /\ eventList' = eventList \ {e}
              /\ eventIds' = RemainingIds(eventId[e])
              /\ spc' = IF WasNotStopped(e) THEN "hand" ELSE "delete"
    /\ UNCHANGED dispatcherSide
    /\ UNCHANGED <<eventId, lastEventId, schedulerState>>

DeleteEvent(e) == Delete(e) /\ eventId' = [eventId EXCEPT ![e] = 0]

\* setDontExpire and g_dispatcher.addTask, which deletes it unless RUNNING.
HandOver ==
    /\ spc = "hand"
    /\ taskLock = "free"
    /\ IF Accepts
       THEN /\ expiration' = DontExpire(expiration, sTask)
            /\ taskList' = Enqueue(sTask)
            /\ UNCHANGED <<live, eventId>>
       ELSE DeleteEvent(sTask) /\ UNCHANGED taskList
    /\ spc' = IF SignalsTask THEN "signal" ELSE "head"
    /\ sTask' = NoTask
    /\ UNCHANGED <<now, dispatcherState, taskLock, dpc, dTask, flushTask, tpc,
                   lastEventId, eventList, eventIds, schedulerState, wakeAt>>

SchedulerSignals ==
    /\ spc = "signal"
    /\ spc' = "head"
    /\ dpc' = NotifyDispatcher(dpc)
    /\ UNCHANGED <<now, live, expiration, taskList, dispatcherState, taskLock,
                   dTask, flushTask, tpc, eventId, lastEventId, eventList,
                   eventIds, schedulerState, wakeAt, sTask>>

\* An event that was stopped is deleted when its time comes.
DeleteStopped ==
    /\ spc = "delete"
    /\ DeleteEvent(sTask)
    /\ sTask' = NoTask
    /\ spc' = "head"
    /\ UNCHANGED <<now, taskList, dispatcherState, taskLock, dpc,
                   dTask, flushTask, tpc, lastEventId, eventList,
                   eventIds, schedulerState, wakeAt>>

-----------------------------------------------------------------------------
(* Scheduler::stop and Scheduler::shutdown. Neither sends a signal.        *)

StopScheduler == schedulerState' = "CLOSING"

\* The events left in the queue are unlinked and not deleted.
TerminateScheduler ==
    /\ schedulerState' = "TERMINATED"
    /\ eventList' = {}
    /\ eventIds' = {}

-----------------------------------------------------------------------------
SchedulerPc == {"head", "lock", "wait", "timedWait", "woken", "timeout", "hand",
                "delete", "signal", "exit"}

\* The types of the scheduler's state.
SchedulerTypeOK ==
    /\ eventId \in [AllTasks -> 0..MaxEventId]
    /\ lastEventId \in 0..MaxEventId
    /\ eventList \subseteq Tasks
    /\ eventIds \subseteq 1..MaxEventId
    /\ schedulerState \in ThreadState
    /\ spc \in SchedulerPc
    /\ wakeAt \in Nat \cup {NoDate}
    /\ sTask \in IF spc \in {"hand", "delete"} THEN Tasks ELSE {NoTask}
=============================================================================
