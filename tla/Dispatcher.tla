----------------------------- MODULE Dispatcher -----------------------------
(***************************************************************************)
(* The dispatcher of the server (tasks.h, tasks.cpp): a list of tasks that *)
(* any thread may append to and one thread, the dispatcher, executes.      *)
(* Sections under m_taskLock are single steps; the only section that runs  *)
(* foreign code under the lock is flush(), so the lock itself appears as   *)
(* taskLock, which tells when Dispatcher::shutdown holds it.               *)
(* What a task does is not fixed here: TaskSystem says which calls a body  *)
(* may make while the dispatcher thread is at "run" or "flushRun".         *)
(***************************************************************************)
EXTENDS Integers, Sequences

CONSTANTS
    Tasks,            \* the task objects that may be allocated at one time
    ShutdownTask,     \* the task Game::setGameState creates for Game::shutdown
    NoTask,           \* the null pointer
    NoDate,           \* boost::date_time::not_a_date_time
    Threads,          \* the io_service and console threads that call addTask
    TaskExpiration    \* DISPATCHER_TASK_EXPIRATION, in ticks of the clock

AllTasks == Tasks \cup {ShutdownTask}

ASSUME DispatcherConstants ==
    /\ NoTask \notin AllTasks
    /\ ShutdownTask \notin Tasks
    /\ NoDate \notin Nat
    /\ TaskExpiration \in Nat \ {0}

VARIABLES
    now,              \* boost::get_system_time(), in ticks
    live,             \* the task objects allocated and not yet deleted
    expiration,       \* Task::m_expiration
    taskList,         \* Dispatcher::m_taskList
    dispatcherState,  \* Dispatcher::m_threadState
    taskLock,         \* m_taskLock between steps: free, or held by shutdown
    dpc,              \* where the dispatcher thread is
    dTask,            \* local variable task of dispatcherThread
    flushTask,        \* local variable task of flush
    tpc               \* where each other thread is in the call it makes

ThreadState == {"RUNNING", "CLOSING", "TERMINATED"}

-----------------------------------------------------------------------------
(* The task object.                                                        *)

\* Task::hasExpired
HasExpired(t) == expiration[t] # NoDate /\ expiration[t] < now

\* Mutant of DontExpire: setDontExpire forgets to clear the date.
StillExpires(exp, t) == exp

\* Task::setDontExpire
DontExpire(exp, t) == [exp EXCEPT ![t] = NoDate]

\* delete task: nothing of the object remains.
Delete(t) ==
    /\ live' = live \ {t}
    /\ expiration' = [expiration EXCEPT ![t] = NoDate]

-----------------------------------------------------------------------------
(* Dispatcher::addTask.                                                    *)

\* The task is linked in while the dispatcher runs and deleted otherwise.
Accepts == dispatcherState = "RUNNING"

\* No caller passes push_front: every task goes to the back.
Enqueue(t) == Append(taskList, t)

\* Mutant of SignalsTask: the test for the signal is inverted.
SignalsOnlyNonEmpty == Accepts /\ taskList # <<>>

\* The signal is sent after the lock is released, and only to a list that was empty.
SignalsTask == Accepts /\ taskList = <<>>

\* The locked part of addTask for a task that is allocated with expiration e.
AddNewTask(t, e) ==
    /\ taskLock = "free"
    /\ t \notin live
    /\ live' = IF Accepts THEN live \cup {t} ELSE live
    /\ expiration' = IF Accepts THEN [expiration EXCEPT ![t] = e] ELSE expiration
    /\ taskList' = IF Accepts THEN Enqueue(t) ELSE taskList

\* Mutant of NotifyDispatcher: the signal wakes nobody.
NotifyNobody(pc) == pc

\* m_taskSignal.notify_one(): it reaches the dispatcher only if it waits.
NotifyDispatcher(pc) == IF pc = "wait" THEN "woken" ELSE pc

-----------------------------------------------------------------------------
(* Dispatcher::dispatcherThread.                                           *)

\* while(m_threadState != STATE_TERMINATED): read without the lock.
LoopHead ==
    /\ dpc = "head"
    /\ dpc' = IF dispatcherState = "TERMINATED" THEN "exit" ELSE "lock"
    /\ UNCHANGED <<now, live, expiration, taskList, dispatcherState, taskLock,
                   dTask, flushTask, tpc>>

\* Mutant of TakeFront: pop_front is missing.
TakeWithoutPop ==
    IF taskList # <<>> /\ dispatcherState # "TERMINATED"
    THEN dTask' = Head(taskList) /\ dpc' = "start" /\ UNCHANGED taskList
    ELSE dpc' = "head" /\ UNCHANGED <<dTask, taskList>>

\* Take the first task, unless there is none or the dispatcher terminated.
TakeFront ==
    IF taskList # <<>> /\ dispatcherState # "TERMINATED"
    THEN /\ dTask' = Head(taskList)
         /\ taskList' = Tail(taskList)
         /\ dpc' = "start"
    ELSE /\ dpc' = "head"
         /\ UNCHANGED <<dTask, taskList>>

LockAndTake ==
    /\ dpc = "lock"
    /\ taskLock = "free"
    /\ IF taskList = <<>>
       THEN dpc' = "wait" /\ UNCHANGED <<dTask, taskList>>
       ELSE TakeFront
    /\ UNCHANGED <<now, live, expiration, dispatcherState, taskLock, flushTask, tpc>>

\* A condition variable may return from wait without a signal.
SpuriousTaskWakeup ==
    /\ dpc = "wait"
    /\ dpc' = "woken"
    /\ UNCHANGED <<now, live, expiration, taskList, dispatcherState, taskLock,
                   dTask, flushTask, tpc>>

\* wait returns with the lock held again; the list is looked at once more.
WakeAndTake ==
    /\ dpc = "woken"
    /\ taskLock = "free"
    /\ TakeFront
    /\ UNCHANGED <<now, live, expiration, dispatcherState, taskLock, flushTask, tpc>>

\* A task that has expired is deleted and not executed.
StartTask ==
    /\ dpc = "start"
    /\ IF HasExpired(dTask)
       THEN /\ Delete(dTask)
            /\ dTask' = NoTask
            /\ dpc' = "head"
       ELSE /\ dpc' = "run"
            /\ UNCHANGED <<live, expiration, dTask>>
    /\ UNCHANGED <<now, taskList, dispatcherState, taskLock, flushTask, tpc>>

\* The body has returned: send the output, clear the cache, delete the task.
FinishTask ==
    /\ \/ dpc = "run" /\ dTask # ShutdownTask
       \/ dpc = "shutdownDone"
    /\ Delete(dTask)
    /\ dTask' = NoTask
    /\ dpc' = "head"
    /\ UNCHANGED <<now, taskList, dispatcherState, taskLock, flushTask, tpc>>

-----------------------------------------------------------------------------
(* Dispatcher::stop, Dispatcher::shutdown and Dispatcher::flush.           *)

\* stop() sends no signal.
StopDispatcher ==
    /\ taskLock = "free"
    /\ dispatcherState' = "CLOSING"

\* Mutant of TerminateDispatcher: the state stays what stop() made it.
TerminateWithoutState ==
    /\ taskLock = "free"
    /\ taskLock' = "shutdown"
    /\ UNCHANGED dispatcherState

\* shutdown() takes the lock and keeps it while flush() runs what is left.
TerminateDispatcher ==
    /\ taskLock = "free"
    /\ dispatcherState' = "TERMINATED"
    /\ taskLock' = "shutdown"

\* flush() executes a task whether it has expired or not.
FlushTake ==
    /\ dpc = "flush"
    /\ taskList # <<>>
    /\ flushTask' = Head(taskList)
    /\ taskList' = Tail(taskList)
    /\ dpc' = "flushRun"
    /\ UNCHANGED <<now, live, expiration, dispatcherState, taskLock, dTask, tpc>>

FlushFinish ==
    /\ dpc = "flushRun"
    /\ Delete(flushTask)
    /\ flushTask' = NoTask
    /\ dpc' = "flush"
    /\ UNCHANGED <<now, taskList, dispatcherState, taskLock, dTask, tpc>>

\* A flushed task that calls addTask asks for the lock its own thread holds.
FlushSelfLock ==
    /\ dpc = "flushRun"
    /\ taskLock = "shutdown"
    /\ dpc' = "blocked"
    /\ UNCHANGED <<now, live, expiration, taskList, dispatcherState, taskLock,
                   dTask, flushTask, tpc>>

FlushEnd ==
    /\ dpc = "flush"
    /\ taskList = <<>>
    /\ taskLock' = "free"
    /\ dpc' = "shutdownDone"
    /\ UNCHANGED <<now, live, expiration, taskList, dispatcherState, dTask, flushTask, tpc>>

-----------------------------------------------------------------------------
DispatcherPc == {"head", "lock", "wait", "woken", "start", "run", "added",
                 "addedTop",
                 "stopScheduler", "stopDispatcher", "terminate", "flush",
                 "flushRun", "blocked", "shutdownDone", "exit"}

\* The types of the dispatcher's state.
DispatcherTypeOK ==
    /\ now \in Nat
    /\ live \subseteq AllTasks
    /\ expiration \in [AllTasks -> Nat \cup {NoDate}]
    /\ taskList \in Seq(AllTasks)
    /\ dispatcherState \in ThreadState
    /\ taskLock \in {"free", "shutdown"}
    /\ dpc \in DispatcherPc
    /\ dTask \in AllTasks \cup {NoTask}
    /\ flushTask \in AllTasks \cup {NoTask}
    /\ tpc \in [Threads -> {"idle", "signalTask", "signalEvent"}]
=============================================================================
