----------------------------- MODULE PlayerWalk -----------------------------
(***************************************************************************)
(* How a player walks (creature.cpp, player.cpp): a list of steps, taken   *)
(* one by one by a scheduled event, and the actions of the player that are *)
(* put off, until he has walked there or may act again. The walk event,    *)
(* the task that waits for the end of the walk and the delayed action are  *)
(* known by their event ids only; stopEvent takes an event back as long as *)
(* it waits in the scheduler, but comes too late once it is in the list of *)
(* the dispatcher. Requests, fights and scripts come in between at any     *)
(* time. Delays, directions and the map are left out: they only decide     *)
(* which event is due first and how a step ends.                           *)
(***************************************************************************)
EXTENDS Integers, SequencesExt

CONSTANTS
    MaxSteps,         \* bound: the steps of a path
    EventIds,         \* bound: the event ids in use at one time
    MaxQueued,        \* bound: his tasks in the dispatcher's list at one time
    NoEvent           \* 0, which no event has

ASSUME PlayerWalkConstants ==
    /\ MaxSteps \in Nat \ {0}
    /\ MaxQueued \in Nat \ {0}
    /\ NoEvent \notin EventIds

VARIABLES
    health,           \* above zero, or zero until onDeath is called
    speed,            \* whether Creature::getSpeed() is above zero
    steps,            \* the length of Creature::listWalkDir
    eventWalk,        \* Creature::eventWalk
    cancelNextWalk,   \* Creature::cancelNextWalk
    walkTask,         \* Player::walkTask, null or the action to take there
    walkTaskEvent,    \* Player::walkTaskEvent
    actionTaskEvent,  \* Player::actionTaskEvent
    waiting,          \* the player's events in the scheduler: <<kind, id>>
    queue,            \* his tasks in the dispatcher's list: <<kind, id or steps>>
    dropped,          \* history: eventWalk's event came while he was dying
    halted,           \* history: what left him standing although his walk is not over
    stop              \* history: what he did since he asked to stop

vars == <<health, speed, steps, eventWalk, cancelNextWalk, walkTask, walkTaskEvent,
          actionTaskEvent, waiting, queue, dropped, halted, stop>>

Init ==
    /\ health = "alive"
    /\ speed = "above"
    /\ steps = 0
    /\ eventWalk = NoEvent
    /\ cancelNextWalk = FALSE
    /\ walkTask = "none"
    /\ walkTaskEvent = NoEvent
    /\ actionTaskEvent = NoEvent
    /\ waiting = {}
    /\ queue = <<>>
    /\ dropped = FALSE
    /\ halted = "no"
    /\ stop = "free"

\* A request calls several of the functions below, so each of them is a function of
\* the player's state, w, and of the id that the next event will get.
World(id) ==
    [next |-> id, health |-> health, speed |-> speed, steps |-> steps, eventWalk |-> eventWalk,
     cancelNextWalk |-> cancelNextWalk, walkTask |-> walkTask,
     walkTaskEvent |-> walkTaskEvent, actionTaskEvent |-> actionTaskEvent,
     waiting |-> waiting, queue |-> queue, dropped |-> dropped,
     halted |-> halted, stop |-> stop]

Becomes(w) ==
    /\ \A event \in w.waiting : event[2] # NoEvent
    /\ health' = w.health
    /\ speed' = w.speed
    /\ steps' = w.steps
    /\ eventWalk' = w.eventWalk
    /\ cancelNextWalk' = w.cancelNextWalk
    /\ walkTask' = w.walkTask
    /\ walkTaskEvent' = w.walkTaskEvent
    /\ actionTaskEvent' = w.actionTaskEvent
    /\ waiting' = w.waiting
    /\ queue' = w.queue
    /\ dropped' = w.dropped
    /\ halted' = w.halted
    /\ stop' = w.stop

-----------------------------------------------------------------------------
(* What the scheduler does for the player.                                 *)

Events == waiting \cup {task \in ToSet(queue) : task[1] # "autoWalk"}

\* The ids come in turn and wrap around only after all others were given out, so a
\* new event gets none that is still remembered. No request schedules two events.
\* At the bound, when no id is left, only what schedules none can happen.
NextIds ==
    LET free == EventIds \ ({eventWalk, walkTaskEvent, actionTaskEvent}
                                \cup {e[2] : e \in Events})
    IN  IF free = {} THEN {NoEvent} ELSE free

\* stopEvent: too late for an event that the dispatcher has already been given.
StopEvent(w, kind, id) == [w EXCEPT !.waiting = @ \ {<<kind, id>>}]

-----------------------------------------------------------------------------
(* Creature: the walk event.                                               *)

StopEventWalk(w) ==
    [StopEvent(w, "walk", w.eventWalk) EXCEPT !.eventWalk = NoEvent, !.dropped = FALSE]

ScheduleWalk(w) ==
    [w EXCEPT !.eventWalk = w.next, !.waiting = @ \cup {<<"walk", w.next>>},
              !.dropped = FALSE, !.halted = "no"]

\* addEventWalk(false). The ground has a speed, so there is a delay.
AddEventWalk(w) ==
    LET v == [w EXCEPT !.cancelNextWalk = FALSE]
    IN  IF v.eventWalk = NoEvent THEN ScheduleWalk(v) ELSE v

-----------------------------------------------------------------------------
(* Player: the actions that are put off.                                   *)

SetNextWalkActionTask(w, task) ==
    [StopEvent(w, "use", w.walkTaskEvent) EXCEPT !.walkTaskEvent = NoEvent, !.walkTask = task]

\* Mutant of ForgetAction: the event is not taken back.
ForgetActionId(w) == [w EXCEPT !.actionTaskEvent = NoEvent]

ForgetAction(w) ==
    [StopEvent(w, "act", w.actionTaskEvent) EXCEPT !.actionTaskEvent = NoEvent]

SetNextActionTask(w) ==
    [ForgetAction(w) EXCEPT
        !.actionTaskEvent = w.next, !.waiting = @ \cup {<<"act", w.next>>}]

OnWalkAborted(w) == SetNextWalkActionTask(w, "none")

OnWalkComplete(w) ==
    IF w.walkTask = "none" THEN w
    ELSE [w EXCEPT !.walkTaskEvent = w.next, !.waiting = @ \cup {<<"use", w.next>>},
                   !.walkTask = "none"]

StopWalk(w) == [w EXCEPT !.cancelNextWalk = TRUE, !.stop = "asked"]

-----------------------------------------------------------------------------
(* What can happen to a walking player, in a step or between two.          *)

Teleported(w) == [StopEventWalk(w) EXCEPT !.halted = "yes"]

\* setSpeed, to zero or below.
Paralysed(w) ==
    [StopEventWalk(w) EXCEPT !.speed = "zero", !.cancelNextWalk = TRUE,
                              !.halted = IF @ = "no" THEN "paralysed" ELSE @]

\* Mutant of Released: the walk is not resumed.
ReleasedIdle(w) == [w EXCEPT !.speed = "above"]

\* setSpeed, above zero.
Released(w) ==
    LET v == [w EXCEPT !.speed = "above"]
    IN  IF w.speed = "zero" /\ w.steps > 0
        THEN [AddEventWalk(v) EXCEPT !.stop = "free"]
        ELSE v

-----------------------------------------------------------------------------
(* Creature::onWalk, which the walk event executes.                        *)

\* getNextStep takes a step off the list and forgets the delayed action.
NextStep(w) ==
    [ForgetAction(w) EXCEPT
        !.steps = @ - 1,
        !.stop = CASE @ = "asked" -> "last" [] @ = "last" -> "overrun" [] OTHER -> @]

\* The step is refused or taken; what it leads to may move or slow the player.
Walked(w) ==
    IF w.steps = 0 THEN {StopEventWalk(OnWalkComplete(w))}
    ELSE LET v == NextStep(w) IN {v, Teleported(v), Paralysed(v)}

\* Mutant of Cancelled: the steps are not forgotten.
CancelledOnce(w) ==
    IF w.cancelNextWalk THEN OnWalkAborted([w EXCEPT !.cancelNextWalk = FALSE]) ELSE w

Cancelled(w) ==
    IF w.cancelNextWalk
    THEN OnWalkAborted([w EXCEPT !.steps = 0, !.cancelNextWalk = FALSE])
    ELSE w

Rescheduled(w) ==
    IF w.eventWalk = NoEvent THEN w ELSE AddEventWalk([w EXCEPT !.eventWalk = NoEvent])

\* Before getWalkDelay() has passed, no step is taken.
OnWalk(w) == {Rescheduled(Cancelled(v)) : v \in {w} \cup Walked(w)}
OnWalkAtOnce(w) == {Rescheduled(Cancelled(v)) : v \in Walked(w)}

\* addEventWalk(true): a single step is taken at once if the last one was long ago,
\* and the next event is scheduled all the same. A dying player does not walk.
AddEventFirstStep(w) ==
    LET v == [w EXCEPT !.cancelNextWalk = FALSE]
    IN  IF v.eventWalk # NoEvent THEN {v}
        ELSE {ScheduleWalk(v)}
             \cup {ScheduleWalk(u) : u \in IF v.health = "alive" THEN OnWalkAtOnce(v) ELSE {}}

\* startAutoWalk is refused while a script forbids the player to move.
StartAutoWalk(w, path) ==
    LET v == [w EXCEPT !.steps = path, !.stop = "free"]
    IN  {[w EXCEPT !.halted = "yes"]}
        \cup IF path = 1 THEN AddEventFirstStep(v) ELSE {AddEventWalk(v)}

-----------------------------------------------------------------------------
(* What the player asks for.                                               *)

Paths == 0 .. MaxSteps

\* Bound: one request at a time has a walk in the dispatcher's list.
NoWalkQueued(tasks) == \A task \in ToSet(tasks) : task[1] # "autoWalk"

\* Too far away: walk there first.
ActThere(w) ==
    {SetNextWalkActionTask([w EXCEPT !.queue = Append(@, <<"autoWalk", path>>)], "use") :
        path \in IF NoWalkQueued(w.queue) THEN Paths ELSE {}}

\* Use of an item: refused, after a walk, later, or now, which ends a walk.
UseItem(w) ==
    {w} \cup ActThere(w) \cup {SetNextActionTask(w), StopWalk(ForgetAction(w))}

\* A thing or a creature is moved: likewise, but a walk goes on.
MoveThing(w) ==
    {w, SetNextActionTask(w), ForgetAction(w)} \cup ActThere(ForgetAction(w))

Act(w) == UseItem(w) \cup MoveThing(w)

-----------------------------------------------------------------------------
(* The actions: requests and what else happens to the player ...           *)

PlayerAct(id) == \E w \in Act(World(id)) : Becomes(w)

PlayerMove(id) ==
    \E w \in StartAutoWalk(SetNextWalkActionTask(World(id), "none"), 1) : Becomes(w)

\* From the client, whose path may be empty.
PlayerAutoWalk(id) ==
    \E path \in Paths : \E w \in StartAutoWalk(World(id), path) : Becomes(w)

PlayerStopAutoWalk(id) == Becomes(StopWalk(World(id)))

\* setFollowCreature, of another creature than before.
FollowCreature(id) ==
    /\ steps > 0
    /\ Becomes(OnWalkAborted([World(id) EXCEPT !.steps = 0]))

\* When he follows a creature his path is renewed, unless a task waits for its end.
GoToFollowCreature(id) ==
    /\ health = "alive"
    /\ walkTask = "none"
    /\ \E path \in Paths :
          \E w \in StartAutoWalk([World(id) EXCEPT !.steps = path, !.stop = "free"], path) :
             Becomes(w)

\* mayNotMove(cid, true).
MayNotMove(id) == Becomes(OnWalkAborted(World(id)))

SetSpeed(id) == Becomes(Paralysed(World(id))) \/ Becomes(Released(World(id)))

Teleport(id) == Becomes(Teleported(World(id)))

\* Health falls to zero: checkCreatures calls onDeath when it comes to the player.
LoseHealth(id) ==
    /\ health = "alive"
    /\ Becomes([World(id) EXCEPT !.health = "dying"])

\* A share of experience that came in the meantime, with a level: health is full.
AdvanceLevel(id) ==
    /\ health = "dying"
    /\ Becomes([World(id) EXCEPT !.health = "alive"])

\* A player who dies in an arena is brought to the temple. Otherwise he is removed
\* from the game, and all that is left of him in the lists finds no such creature.
OnDeath(id) ==
    /\ health = "dying"
    /\ Becomes([Teleported(World(id)) EXCEPT !.health = "alive"])

-----------------------------------------------------------------------------
(* ... and what becomes of his events.                                     *)

\* It is in the list of the dispatcher, behind what the model leaves out, and
\* stopEvent comes too late from now on.
EventDue ==
    \E event \in waiting :
        /\ Len(queue) < MaxQueued
        /\ waiting' = waiting \ {event}
        /\ queue' = Append(queue, event)
        /\ UNCHANGED <<health, speed, steps, eventWalk, cancelNextWalk, walkTask,
                       walkTaskEvent, actionTaskEvent, dropped, halted, stop>>

Taken(id) == [World(id) EXCEPT !.queue = Tail(@)]

IsNext(kind) == queue # <<>> /\ Head(queue)[1] = kind

CheckCreatureWalk(id) ==
    /\ IsNext("walk")
    /\ IF health = "alive"
       THEN \E w \in OnWalk(Taken(id)) : Becomes(w)
       ELSE Becomes([Taken(id) EXCEPT !.dropped = @ \/ Head(queue)[2] = eventWalk])

AutoWalkTask(id) ==
    /\ IsNext("autoWalk")
    /\ \E w \in StartAutoWalk(Taken(id), Head(queue)[2]) : Becomes(w)

DelayedAct(id) ==
    /\ IsNext("use") \/ IsNext("act")
    /\ \E w \in Act(Taken(id)) : Becomes(w)

Next ==
    \/ EventDue
    \/ \E id \in NextIds :
          \/ PlayerAct(id)
          \/ PlayerMove(id)
          \/ PlayerAutoWalk(id)
          \/ PlayerStopAutoWalk(id)
          \/ FollowCreature(id)
          \/ GoToFollowCreature(id)
          \/ MayNotMove(id)
          \/ SetSpeed(id)
          \/ Teleport(id)
          \/ LoseHealth(id)
          \/ AdvanceLevel(id)
          \/ OnDeath(id)
          \/ CheckCreatureWalk(id)
          \/ AutoWalkTask(id)
          \/ DelayedAct(id)

Spec == Init /\ [][Next]_vars
-----------------------------------------------------------------------------
(* Properties.                                                             *)

\* A walk that is not over goes on. A player whose eventWalk is set has that event
\* to come, or addEventWalk would never schedule another one; the exception is an
\* event that came while he was dying, before a new level saved him. One with steps
\* left has a walk event, also after a paralysis, unless he was teleported or a
\* script did not let him start. One whose action waits for the end of the walk has
\* an event or will start to walk, unless he was paralysed when no step was left.
WalkGoesOn ==
    /\ eventWalk # NoEvent => <<"walk", eventWalk>> \in Events \/ dropped
    /\ steps > 0 /\ speed = "above" => eventWalk # NoEvent \/ halted = "yes"
    /\ walkTask # "none" => eventWalk # NoEvent \/ halted # "no" \/ ~NoWalkQueued(queue)

\* At most one delayed action and one for the end of a walk wait in the scheduler,
\* and the player can still take them back: a later request replaces them.
OneDelayedAction ==
    \A e \in waiting :
        /\ e[1] = "use" => e[2] = walkTaskEvent
        /\ e[1] = "act" => e[2] = actionTaskEvent

\* A player who asks to stop takes one more step at most, until he starts a new walk
\* or recovers from a paralysis, also when the walk event could not be taken back.
StopHonoured == stop # "overrun"
=============================================================================
