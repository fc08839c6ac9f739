----------------------------- MODULE TaskService ----------------------------
(***************************************************************************)
(* What the dispatcher and the scheduler promise the rest of the server,   *)
(* without their threads, locks and signals: tasks are executed one at a   *)
(* time in the order they were queued; an event joins the queue once its   *)
(* time has come, in the order of the due times, unless it was cancelled   *)
(* before that; and nothing queued is lost. TaskSystem implements it.      *)
(***************************************************************************)
EXTENDS Integers, Sequences

CONSTANTS
    Tasks,        \* every task, the last one included
    LastTask      \* the task that ends the service; it may execute others

VARIABLES
    now,          \* the clock
    waiting,      \* the events that are neither due nor cancelled yet
    due,          \* the time each waiting event is due
    queue,        \* the tasks to execute, first in first out
    executing,    \* the tasks being executed
    closing       \* the service has been asked to end

vars == <<now, waiting, due, queue, executing, closing>>

Init ==
    /\ now \in Nat
    /\ waiting = {}
    /\ due = [t \in waiting |-> 0]
    /\ queue = <<>>
    /\ executing = {}
    /\ closing = FALSE

Busy(t) == t \in waiting \/ t \in executing \/ \E i \in DOMAIN queue : queue[i] = t

Advance ==
    /\ now' > now
    /\ UNCHANGED <<waiting, due, queue, executing, closing>>

Submit(t) ==
    /\ ~Busy(t)
    /\ queue' = Append(queue, t)
    /\ closing' = (closing \/ t = LastTask)
    /\ UNCHANGED <<now, waiting, due, executing>>

\* A new event is due at some later time.
Schedule(t) ==
    /\ ~Busy(t)
    /\ waiting' = waiting \cup {t}
    /\ due' = [u \in waiting' |-> IF u = t THEN due'[t] ELSE due[u]]
    /\ due'[t] > now
    /\ UNCHANGED <<now, queue, executing, closing>>

Keep(rest) == waiting' = rest /\ due' = [u \in rest |-> due[u]]

Cancel(t) ==
    /\ t \in waiting
    /\ Keep(waiting \ {t})
    /\ UNCHANGED <<now, queue, executing, closing>>

\* The event that is due first joins the queue, not before its time.
Release(t) ==
    /\ t \in waiting
    /\ due[t] <= now
    /\ \A u \in waiting : due[t] <= due[u]
    /\ Keep(waiting \ {t})
    /\ queue' = Append(queue, t)
    /\ UNCHANGED <<now, executing, closing>>

\* Events that are still waiting when the service ends are dropped.
Drop ==
    /\ closing
    /\ \E rest \in SUBSET waiting : Keep(rest)
    /\ UNCHANGED <<now, queue, executing, closing>>

\* One task at a time; only the last task executes what is left behind it.
Start ==
    /\ executing \subseteq {LastTask}
    /\ queue # <<>>
    /\ executing' = executing \cup {Head(queue)}
    /\ queue' = Tail(queue)
    /\ UNCHANGED <<now, waiting, due, closing>>

Finish(t) ==
    /\ t \in executing
    /\ executing' = executing \ {t}
    /\ UNCHANGED <<now, waiting, due, queue, closing>>

Next ==
    \/ Advance
    \/ \E t \in Tasks : Submit(t) \/ Schedule(t) \/ Cancel(t) \/ Release(t) \/ Finish(t)
    \/ Drop
    \/ Start

Spec == Init /\ [][Next]_vars
=============================================================================
