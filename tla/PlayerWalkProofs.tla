-------------------------- MODULE PlayerWalkProofs --------------------------
(***************************************************************************)
(* Theorems about PlayerWalk for any event ids and any length of a path or *)
(* of the dispatcher's list. A request calls functions that are not sound  *)
(* by themselves: the walk event is taken back before it is scheduled      *)
(* again, a step is taken before the walk is cancelled. So the invariant   *)
(* of the player's state is in parts: what every function keeps (Core),    *)
(* that a walk goes on (Going) and that a stop is honoured (Stops), which  *)
(* hold when the request is over.                                          *)
(***************************************************************************)
EXTENDS PlayerWalk, TLAPS

Kinds == {"walk", "use", "act"}
Ids == EventIds \cup {NoEvent}
Tasks == (Kinds \X Ids) \cup ({"autoWalk"} \X Nat)

Worlds ==
    [next : Ids, health : {"alive", "dying"}, speed : {"above", "zero"}, steps : Nat,
     eventWalk : Ids, cancelNextWalk : BOOLEAN, walkTask : {"none", "use"},
     walkTaskEvent : Ids, actionTaskEvent : Ids, waiting : SUBSET (Kinds \X Ids),
     queue : Seq(Tasks), dropped : BOOLEAN, halted : {"no", "yes", "paralysed"},
     stop : {"free", "asked", "last", "overrun"}]

\* The walk event that is remembered is to come, unless it came to a dying player.
Led(w) ==
    w.eventWalk # NoEvent =>
        <<"walk", w.eventWalk>> \in w.waiting \cup ToSet(w.queue) \/ w.dropped

\* What waits in the scheduler can be taken back, and nothing waits for the end of
\* the walk together with its event.
Known(w) ==
    \A e \in w.waiting :
        /\ e[1] = "use" => e[2] = w.walkTaskEvent /\ w.walkTask = "none"
        /\ e[1] = "act" => e[2] = w.actionTaskEvent

Core(w) == w \in Worlds /\ Known(w)

\* An event without an id was asked for when none was left: such a request is refused.
Walks(w) == w.eventWalk # NoEvent \/ <<"walk", NoEvent>> \in w.waiting

Going(w) ==
    /\ w.steps > 0 /\ w.speed = "above" => Walks(w) \/ w.halted = "yes"
    /\ w.walkTask # "none" => Walks(w) \/ w.halted # "no" \/ ~NoWalkQueued(w.queue)

Stops(w) ==
    /\ w.stop = "asked" => w.cancelNextWalk \/ w.steps = 0
    /\ w.stop = "last" => w.steps = 0
    /\ w.stop # "overrun"

Sound(w) == Core(w) /\ Led(w) /\ Going(w) /\ Stops(w)

\* In what the functions that concern one event leave the rest as it is.
SameWalk(v, w) ==
    /\ v.speed = w.speed /\ v.steps = w.steps /\ v.queue = w.queue
    /\ v.stop = w.stop /\ v.health = w.health

----------------------------------------------------------------------------
(* The walk event.                                                         *)

LEMMA StopEventWalkKeeps ==
    ASSUME NEW w, Core(w)
    PROVE  LET v == StopEventWalk(w) IN
           /\ Core(v) /\ Led(v) /\ SameWalk(v, w) /\ v.eventWalk = NoEvent
           /\ v.walkTask = w.walkTask /\ v.halted = w.halted
           /\ v.cancelNextWalk = w.cancelNextWalk
<1> DEFINE v == StopEventWalk(w)
<1>1. v \in Worlds /\ v.eventWalk = NoEvent /\ v.waiting \subseteq w.waiting
  BY DEF Core, Worlds, StopEventWalk, StopEvent, Ids
<1>2. /\ SameWalk(v, w) /\ v.walkTask = w.walkTask /\ v.halted = w.halted
      /\ v.cancelNextWalk = w.cancelNextWalk
      /\ v.walkTaskEvent = w.walkTaskEvent /\ v.actionTaskEvent = w.actionTaskEvent
  BY DEF Core, Worlds, StopEventWalk, StopEvent, SameWalk
<1>3. Led(v) /\ Known(v)
  BY <1>1, <1>2 DEF Core, Led, Known
<1> QED
  BY <1>1, <1>2, <1>3 DEF Core

LEMMA ScheduleWalkKeeps ==
    ASSUME NEW w, Core(w)
    PROVE  LET v == ScheduleWalk(w) IN
           /\ Core(v) /\ Led(v) /\ SameWalk(v, w) /\ Walks(v)
           /\ v.walkTask = w.walkTask /\ v.cancelNextWalk = w.cancelNextWalk
<1> DEFINE v == ScheduleWalk(w)
<1>0. <<"walk", w.next>> \in Kinds \X Ids
  BY DEF Core, Worlds, Kinds
<1>1. v \in Worlds /\ v.eventWalk = w.next
  BY <1>0 DEF Core, Worlds, ScheduleWalk
<1>2. /\ SameWalk(v, w) /\ v.walkTask = w.walkTask
      /\ v.cancelNextWalk = w.cancelNextWalk
      /\ v.walkTaskEvent = w.walkTaskEvent /\ v.actionTaskEvent = w.actionTaskEvent
      /\ v.waiting = w.waiting \cup {<<"walk", w.next>>}
  BY DEF Core, Worlds, ScheduleWalk, SameWalk
<1>3. Led(v) /\ Walks(v)
  BY <1>1, <1>2 DEF Led, Walks
<1>4. Known(v)
  BY <1>2 DEF Core, Known
<1> QED
  BY <1>1, <1>2, <1>3, <1>4 DEF Core

\* Fields that no event depends on may be set at any time.
LEMMA OtherFields ==
    ASSUME NEW w, Core(w), NEW v \in Worlds,
           v.waiting = w.waiting, v.eventWalk = w.eventWalk, v.dropped = w.dropped,
           v.queue = w.queue, v.walkTaskEvent = w.walkTaskEvent,
           v.actionTaskEvent = w.actionTaskEvent, v.walkTask = w.walkTask
    PROVE  Core(v) /\ (Led(w) => Led(v)) /\ (Walks(w) => Walks(v))
BY DEF Core, Known, Led, Walks

LEMMA AddEventWalkKeeps ==
    ASSUME NEW w, Core(w)
    PROVE  LET v == AddEventWalk(w) IN
           /\ Core(v) /\ (Led(w) => Led(v)) /\ SameWalk(v, w) /\ Walks(v)
           /\ (w.eventWalk = NoEvent => Led(v))
           /\ v.walkTask = w.walkTask /\ v.cancelNextWalk = FALSE
<1> DEFINE u == [w EXCEPT !.cancelNextWalk = FALSE]
<1>1. /\ u \in Worlds /\ u.waiting = w.waiting /\ u.eventWalk = w.eventWalk
      /\ u.dropped = w.dropped /\ u.queue = w.queue /\ u.walkTaskEvent = w.walkTaskEvent
      /\ u.actionTaskEvent = w.actionTaskEvent /\ u.walkTask = w.walkTask
      /\ u.cancelNextWalk = FALSE /\ SameWalk(u, w)
  BY DEF Core, Worlds, SameWalk
<1>2. Core(u) /\ (Led(w) => Led(u)) /\ (Walks(w) => Walks(u))
  BY <1>1, OtherFields
<1>3. CASE w.eventWalk = NoEvent
  <2>1. AddEventWalk(w) = ScheduleWalk(u)
    BY <1>1, <1>3 DEF AddEventWalk
  <2> HIDE DEF u
  <2> QED
    BY <2>1, <1>1, <1>2, ScheduleWalkKeeps DEF SameWalk
<1>4. CASE w.eventWalk # NoEvent
  <2>1. AddEventWalk(w) = u /\ Walks(u)
    BY <1>1, <1>4 DEF AddEventWalk, Walks
  <2> QED
    BY <2>1, <1>1, <1>2, <1>4
<1> QED
  BY <1>3, <1>4

----------------------------------------------------------------------------
(* The actions that are put off.                                           *)

LEMMA SetNextWalkActionTaskKeeps ==
    ASSUME NEW w, Core(w), NEW task \in {"none", "use"}
    PROVE  LET v == SetNextWalkActionTask(w, task) IN
           /\ Core(v) /\ (Led(w) => Led(v)) /\ (Walks(w) => Walks(v)) /\ SameWalk(v, w)
           /\ v.walkTask = task /\ v.halted = w.halted
           /\ v.cancelNextWalk = w.cancelNextWalk /\ v.eventWalk = w.eventWalk
<1> DEFINE v == SetNextWalkActionTask(w, task)
<1>1. /\ v \in Worlds /\ SameWalk(v, w) /\ v.walkTask = task /\ v.halted = w.halted
      /\ v.cancelNextWalk = w.cancelNextWalk /\ v.eventWalk = w.eventWalk
      /\ v.dropped = w.dropped /\ v.actionTaskEvent = w.actionTaskEvent
      /\ v.walkTaskEvent = NoEvent
      /\ v.waiting = w.waiting \ {<<"use", w.walkTaskEvent>>}
  BY DEF Core, Worlds, SetNextWalkActionTask, StopEvent, SameWalk, Ids
<1>2. (Led(w) => Led(v)) /\ (Walks(w) => Walks(v))
  BY <1>1 DEF Led, Walks, SameWalk
<1>3. \A e \in v.waiting : e[1] # "use" /\ (e[1] = "act" => e[2] = v.actionTaskEvent)
  <2>1. SUFFICES ASSUME NEW e \in v.waiting
                 PROVE  e[1] # "use" /\ (e[1] = "act" => e[2] = v.actionTaskEvent)
    OBVIOUS
  <2>2. e \in w.waiting /\ e # <<"use", w.walkTaskEvent>> /\ e = <<e[1], e[2]>>
    BY <1>1 DEF Core, Worlds
  <2> QED
    BY <2>2, <1>1 DEF Core, Known
<1> QED
  BY <1>1, <1>2, <1>3 DEF Core, Known

LEMMA ForgetActionKeeps ==
    ASSUME NEW w, Core(w)
    PROVE  LET v == ForgetAction(w) IN
           /\ Core(v) /\ (Led(w) => Led(v)) /\ (Walks(w) => Walks(v)) /\ SameWalk(v, w)
           /\ v.walkTask = w.walkTask /\ v.halted = w.halted
           /\ v.cancelNextWalk = w.cancelNextWalk /\ v.next = w.next
           /\ \A e \in v.waiting : e[1] # "act"
<1> DEFINE v == ForgetAction(w)
<1>1. /\ v \in Worlds /\ SameWalk(v, w) /\ v.walkTask = w.walkTask /\ v.halted = w.halted
      /\ v.cancelNextWalk = w.cancelNextWalk /\ v.eventWalk = w.eventWalk
      /\ v.dropped = w.dropped /\ v.walkTaskEvent = w.walkTaskEvent /\ v.next = w.next
      /\ v.waiting = w.waiting \ {<<"act", w.actionTaskEvent>>}
  BY DEF Core, Worlds, ForgetAction, StopEvent, SameWalk, Ids
<1>2. (Led(w) => Led(v)) /\ (Walks(w) => Walks(v))
  BY <1>1 DEF Led, Walks, SameWalk
<1>3. \A e \in v.waiting : e[1] # "act"
  <2>1. SUFFICES ASSUME NEW e \in v.waiting
                 PROVE  e[1] # "act"
    OBVIOUS
  <2>2. e \in w.waiting /\ e # <<"act", w.actionTaskEvent>> /\ e = <<e[1], e[2]>>
    BY <1>1 DEF Core, Worlds
  <2> QED
    BY <2>2, <1>1 DEF Core, Known
<1> QED
  BY <1>1, <1>2, <1>3 DEF Core, Known

LEMMA SetNextActionTaskKeeps ==
    ASSUME NEW w, Core(w)
    PROVE  LET v == SetNextActionTask(w) IN
           /\ Core(v) /\ (Led(w) => Led(v)) /\ (Walks(w) => Walks(v)) /\ SameWalk(v, w)
           /\ v.walkTask = w.walkTask /\ v.halted = w.halted
           /\ v.cancelNextWalk = w.cancelNextWalk
<1> DEFINE u == ForgetAction(w)
           v == SetNextActionTask(w)
<1>1. /\ Core(u) /\ (Led(w) => Led(u)) /\ (Walks(w) => Walks(u)) /\ SameWalk(u, w)
      /\ u.walkTask = w.walkTask /\ u.halted = w.halted
      /\ u.cancelNextWalk = w.cancelNextWalk /\ u.next = w.next
      /\ \A e \in u.waiting : e[1] # "act"
  BY ForgetActionKeeps
<1>2. v = [u EXCEPT !.actionTaskEvent = w.next, !.waiting = @ \cup {<<"act", w.next>>}]
  BY DEF SetNextActionTask
<1> HIDE DEF u, v
<1>3. <<"act", w.next>> \in Kinds \X Ids
  BY DEF Core, Worlds, Kinds
<1>4. /\ v \in Worlds /\ SameWalk(v, u) /\ v.walkTask = u.walkTask /\ v.halted = u.halted
      /\ v.cancelNextWalk = u.cancelNextWalk /\ v.eventWalk = u.eventWalk
      /\ v.dropped = u.dropped /\ v.walkTaskEvent = u.walkTaskEvent
      /\ v.actionTaskEvent = w.next /\ v.waiting = u.waiting \cup {<<"act", w.next>>}
  BY <1>1, <1>2, <1>3 DEF Core, Worlds, SameWalk
<1>5. Known(v) /\ (Led(u) => Led(v)) /\ (Walks(u) => Walks(v))
  BY <1>1, <1>4 DEF Core, Known, Led, Walks, SameWalk
<1> QED
  BY <1>1, <1>4, <1>5 DEF Core, SameWalk, v

LEMMA OnWalkCompleteKeeps ==
    ASSUME NEW w, Core(w)
    PROVE  LET v == OnWalkComplete(w) IN
           /\ Core(v) /\ SameWalk(v, w) /\ v.walkTask = "none"
           /\ v.cancelNextWalk = w.cancelNextWalk
<1>1. CASE w.walkTask = "none"
  BY <1>1 DEF OnWalkComplete, SameWalk
<1>2. CASE w.walkTask # "none"
  <2> DEFINE v == OnWalkComplete(w)
  <2>1. <<"use", w.next>> \in Kinds \X Ids
    BY DEF Core, Worlds, Kinds
  <2>2. /\ v \in Worlds /\ SameWalk(v, w) /\ v.walkTask = "none"
        /\ v.cancelNextWalk = w.cancelNextWalk /\ v.actionTaskEvent = w.actionTaskEvent
        /\ v.walkTaskEvent = w.next /\ v.waiting = w.waiting \cup {<<"use", w.next>>}
    BY <1>2, <2>1 DEF Core, Worlds, OnWalkComplete, SameWalk
  <2>3. \A e \in w.waiting : e[1] # "use"
    BY <1>2 DEF Core, Known
  <2> QED
    BY <2>2, <2>3 DEF Core, Known
<1> QED
  BY <1>1, <1>2

----------------------------------------------------------------------------
(* What happens to the player at any time.                                 *)

LEMMA StopWalkSound ==
    ASSUME NEW w, Core(w)
    PROVE  LET v == StopWalk(w) IN
           /\ Core(v) /\ (Led(w) => Led(v)) /\ (Going(w) => Going(v)) /\ Stops(v)
<1> DEFINE v == StopWalk(w)
<1>1. /\ v \in Worlds /\ v.waiting = w.waiting /\ v.eventWalk = w.eventWalk
      /\ v.dropped = w.dropped /\ v.queue = w.queue /\ v.walkTaskEvent = w.walkTaskEvent
      /\ v.actionTaskEvent = w.actionTaskEvent /\ v.walkTask = w.walkTask
      /\ v.speed = w.speed /\ v.steps = w.steps /\ v.halted = w.halted
      /\ v.cancelNextWalk = TRUE /\ v.stop = "asked"
  BY DEF Core, Worlds, StopWalk
<1>2. Core(v) /\ (Led(w) => Led(v)) /\ (Walks(w) => Walks(v))
  BY <1>1, OtherFields
<1> QED
  BY <1>1, <1>2 DEF Going, Stops

\* A stop that was asked for is still to be honoured.
Stopping(w) ==
    /\ w.stop \in {"asked", "last"} => w.cancelNextWalk \/ w.steps = 0
    /\ w.stop # "overrun"

\* It has been: nothing more is asked of cancelNextWalk.
Stopped(w) == (w.stop \in {"asked", "last"} => w.steps = 0) /\ w.stop # "overrun"

LEMMA TeleportedSound ==
    ASSUME NEW w, Core(w)
    PROVE  LET v == Teleported(w) IN
           /\ Core(v) /\ Led(v) /\ Going(v) /\ SameWalk(v, w)
           /\ (Stops(w) => Stops(v)) /\ (Stopping(w) => Stopping(v))
<1> DEFINE u == StopEventWalk(w)
           v == Teleported(w)
<1>1. /\ Core(u) /\ Led(u) /\ SameWalk(u, w) /\ u.cancelNextWalk = w.cancelNextWalk
  BY StopEventWalkKeeps
<1>2. v = [u EXCEPT !.halted = "yes"]
  BY DEF Teleported
<1> HIDE DEF u, v
<1>3. /\ v \in Worlds /\ v.waiting = u.waiting /\ v.eventWalk = u.eventWalk
      /\ v.dropped = u.dropped /\ v.queue = u.queue /\ v.walkTaskEvent = u.walkTaskEvent
      /\ v.actionTaskEvent = u.actionTaskEvent /\ v.walkTask = u.walkTask
      /\ SameWalk(v, u) /\ v.halted = "yes" /\ v.cancelNextWalk = u.cancelNextWalk
  BY <1>1, <1>2 DEF Core, Worlds, SameWalk
<1>4. Core(v) /\ Led(v)
  BY <1>1, <1>3, OtherFields
<1>5. Going(v) /\ SameWalk(v, w) /\ (Stops(w) => Stops(v)) /\ (Stopping(w) => Stopping(v))
  BY <1>1, <1>3 DEF Going, SameWalk, Stops, Stopping
<1> QED
  BY <1>4, <1>5 DEF v

LEMMA ParalysedSound ==
    ASSUME NEW w, Core(w)
    PROVE  LET v == Paralysed(w) IN
           /\ Core(v) /\ Led(v) /\ Going(v) /\ v.stop = w.stop
           /\ (Stops(w) => Stops(v)) /\ (Stopping(w) => Stopping(v))
<1> DEFINE u == StopEventWalk(w)
           v == Paralysed(w)
<1>1. /\ Core(u) /\ Led(u) /\ SameWalk(u, w) /\ u.cancelNextWalk = w.cancelNextWalk
  BY StopEventWalkKeeps
<1>2. v = [u EXCEPT !.speed = "zero", !.cancelNextWalk = TRUE,
                    !.halted = IF @ = "no" THEN "paralysed" ELSE @]
  BY DEF Paralysed
<1> HIDE DEF u, v
<1>3. /\ v \in Worlds /\ v.waiting = u.waiting /\ v.eventWalk = u.eventWalk
      /\ v.dropped = u.dropped /\ v.queue = u.queue /\ v.walkTaskEvent = u.walkTaskEvent
      /\ v.actionTaskEvent = u.actionTaskEvent /\ v.walkTask = u.walkTask
      /\ v.steps = u.steps /\ v.stop = u.stop /\ v.speed = "zero" /\ v.halted # "no"
      /\ v.cancelNextWalk = TRUE
  BY <1>1, <1>2 DEF Core, Worlds
<1>4. Core(v) /\ Led(v)
  BY <1>1, <1>3, OtherFields
<1>5. Going(v) /\ (Stops(w) => Stops(v)) /\ (Stopping(w) => Stopping(v)) /\ v.stop = w.stop
  BY <1>1, <1>3 DEF Going, SameWalk, Stops, Stopping
<1> QED
  BY <1>4, <1>5 DEF v

\* After a paralysis the rest of the walk goes on.
LEMMA ReleasedSound ==
    ASSUME NEW w, Sound(w)
    PROVE  Sound(Released(w))
<1> DEFINE u == [w EXCEPT !.speed = "above"]
<1>1. /\ u \in Worlds /\ u.waiting = w.waiting /\ u.eventWalk = w.eventWalk
      /\ u.dropped = w.dropped /\ u.queue = w.queue /\ u.walkTaskEvent = w.walkTaskEvent
      /\ u.actionTaskEvent = w.actionTaskEvent /\ u.walkTask = w.walkTask
      /\ u.steps = w.steps /\ u.stop = w.stop /\ u.speed = "above" /\ u.halted = w.halted
      /\ u.cancelNextWalk = w.cancelNextWalk
  BY DEF Sound, Core, Worlds
<1>2. Core(u) /\ Led(u) /\ (Walks(w) => Walks(u))
  BY <1>1, OtherFields DEF Sound
<1>3. CASE w.speed = "zero" /\ w.steps > 0
  <2> DEFINE a == AddEventWalk(u)
             v == [a EXCEPT !.stop = "free"]
  <2>1. Core(a) /\ Led(a) /\ Walks(a)
    <3> HIDE DEF u
    <3> QED
      BY <1>2, AddEventWalkKeeps
  <2>2. Released(w) = v
    BY <1>3 DEF Released
  <2> HIDE DEF a
  <2>3. /\ v \in Worlds /\ v.waiting = a.waiting /\ v.eventWalk = a.eventWalk
        /\ v.dropped = a.dropped /\ v.queue = a.queue /\ v.walkTaskEvent = a.walkTaskEvent
        /\ v.actionTaskEvent = a.actionTaskEvent /\ v.walkTask = a.walkTask
        /\ v.stop = "free"
    BY <2>1 DEF Core, Worlds
  <2>4. Core(v) /\ Led(v) /\ Walks(v)
    BY <2>1, <2>3, OtherFields
  <2> QED
    BY <2>2, <2>3, <2>4 DEF Sound, Going, Stops
<1>4. CASE ~(w.speed = "zero" /\ w.steps > 0)
  <2>1. Released(w) = u
    BY <1>4 DEF Released
  <2>2. Going(u) /\ Stops(u)
    BY <1>1, <1>2, <1>4 DEF Sound, Core, Worlds, Going, Stops
  <2> QED
    BY <2>1, <2>2, <1>2 DEF Sound
<1> QED
  BY <1>3, <1>4

----------------------------------------------------------------------------
(* The walk event is executed.                                             *)

LEMMA NextStepKeeps ==
    ASSUME NEW w, Core(w), Stops(w), w.steps # 0
    PROVE  LET v == NextStep(w) IN
           /\ Core(v) /\ (Led(w) => Led(v)) /\ (Going(w) => Going(v)) /\ Stopping(v)
           /\ (w.stop = "free" => v.stop = "free")
<1> DEFINE u == ForgetAction(w)
           v == NextStep(w)
           next == CASE u.stop = "asked" -> "last" [] u.stop = "last" -> "overrun"
                     [] OTHER -> u.stop
<1>1. /\ Core(u) /\ (Led(w) => Led(u)) /\ (Walks(w) => Walks(u)) /\ SameWalk(u, w)
      /\ u.walkTask = w.walkTask /\ u.halted = w.halted
      /\ u.cancelNextWalk = w.cancelNextWalk
  BY ForgetActionKeeps
<1>2. v = [u EXCEPT !.steps = u.steps - 1, !.stop = next]
  BY DEF NextStep
<1> HIDE DEF u, v
<1>3. u.steps \in Nat /\ u.steps # 0 /\ u.steps - 1 \in Nat
  BY <1>1 DEF Core, Worlds, SameWalk
<1>4. /\ next \in {"free", "asked", "last", "overrun"}
      /\ u.stop = "asked" => next = "last"
      /\ u.stop = "free" => next = "free"
      /\ u.stop \in {"free", "asked"}
  BY <1>1, <1>3 DEF Core, Worlds, Stops, SameWalk
<1> HIDE DEF next
<1>5. /\ v \in Worlds /\ v.waiting = u.waiting /\ v.eventWalk = u.eventWalk
      /\ v.dropped = u.dropped /\ v.queue = u.queue /\ v.walkTaskEvent = u.walkTaskEvent
      /\ v.actionTaskEvent = u.actionTaskEvent /\ v.walkTask = u.walkTask
      /\ v.steps = u.steps - 1 /\ v.speed = u.speed /\ v.halted = u.halted
      /\ v.cancelNextWalk = u.cancelNextWalk /\ v.stop = next
  BY <1>1, <1>2, <1>3, <1>4 DEF Core, Worlds
<1>6. Core(v) /\ (Led(u) => Led(v)) /\ (Walks(u) => Walks(v))
  BY <1>1, <1>5, OtherFields
<1>7. Stopping(v)
  BY <1>1, <1>3, <1>5, <1>4 DEF Stopping, Stops, SameWalk
<1>8. Going(w) => Going(v)
  BY <1>1, <1>3, <1>5, <1>6 DEF Going, SameWalk
<1> QED
  BY <1>1, <1>5, <1>4, <1>6, <1>7, <1>8 DEF v, SameWalk

LEMMA WalkedKeeps ==
    ASSUME NEW w, Core(w), Stops(w), NEW v \in Walked(w)
    PROVE  /\ Core(v) /\ (Led(w) => Led(v)) /\ (Going(w) => Going(v)) /\ Stopping(v)
           /\ (w.stop = "free" => v.stop = "free")
<1>1. CASE w.steps = 0
  <2> DEFINE u == OnWalkComplete(w)
  <2>1. Core(u) /\ SameWalk(u, w) /\ u.walkTask = "none" /\ u.cancelNextWalk = w.cancelNextWalk
    BY OnWalkCompleteKeeps
  <2>2. v = StopEventWalk(u)
    BY <1>1 DEF Walked
  <2> HIDE DEF u
  <2>3. /\ Core(v) /\ Led(v) /\ SameWalk(v, u) /\ v.walkTask = "none"
        /\ v.cancelNextWalk = u.cancelNextWalk
    BY <2>1, <2>2, StopEventWalkKeeps
  <2>4. Going(v) /\ Stopping(v) /\ (w.stop = "free" => v.stop = "free")
    BY <1>1, <2>1, <2>3 DEF Going, Stopping, Stops, SameWalk
  <2> QED
    BY <2>3, <2>4
<1>2. CASE w.steps # 0
  <2> DEFINE u == NextStep(w)
  <2>1. /\ Core(u) /\ (Led(w) => Led(u)) /\ (Going(w) => Going(u)) /\ Stopping(u)
        /\ (w.stop = "free" => u.stop = "free")
    BY <1>2, NextStepKeeps
  <2>2. v \in {u, Teleported(u), Paralysed(u)}
    BY <1>2 DEF Walked
  <2> HIDE DEF u
  <2> QED
    BY <2>1, <2>2, TeleportedSound, ParalysedSound DEF SameWalk
<1> QED
  BY <1>1, <1>2

\* A walk that is cancelled is over, with what waits for its end.
LEMMA CancelledKeeps ==
    ASSUME NEW w, Core(w), Stopping(w)
    PROVE  LET v == Cancelled(w) IN
           /\ Core(v) /\ (Led(w) => Led(v)) /\ (Going(w) => Going(v)) /\ Stopped(v)
           /\ v.stop = w.stop
<1>1. CASE w.cancelNextWalk
  <2> DEFINE u == [w EXCEPT !.steps = 0, !.cancelNextWalk = FALSE]
             v == SetNextWalkActionTask(u, "none")
  <2>1. /\ u \in Worlds /\ u.waiting = w.waiting /\ u.eventWalk = w.eventWalk
        /\ u.dropped = w.dropped /\ u.queue = w.queue /\ u.walkTaskEvent = w.walkTaskEvent
        /\ u.actionTaskEvent = w.actionTaskEvent /\ u.walkTask = w.walkTask
        /\ u.steps = 0 /\ u.stop = w.stop
    BY DEF Core, Worlds
  <2>2. Core(u) /\ (Led(w) => Led(u))
    BY <2>1, OtherFields
  <2>3. Cancelled(w) = v
    BY <1>1 DEF Cancelled, OnWalkAborted
  <2> HIDE DEF u
  <2>4. Core(v) /\ (Led(u) => Led(v)) /\ SameWalk(v, u) /\ v.walkTask = "none"
    BY <2>2, SetNextWalkActionTaskKeeps
  <2>5. Going(v) /\ Stopped(v) /\ v.stop = w.stop
    BY <2>1, <2>4 DEF Going, Stopped, Stopping, SameWalk
  <2> QED
    BY <2>2, <2>3, <2>4, <2>5
<1>2. CASE ~w.cancelNextWalk
  BY <1>2 DEF Cancelled, Stopping, Stopped
<1> QED
  BY <1>1, <1>2

LEMMA RescheduledKeeps ==
    ASSUME NEW w, Core(w), Stopped(w)
    PROVE  LET v == Rescheduled(w) IN
           /\ Core(v) /\ Led(v) /\ (Going(w) => Going(v)) /\ Stops(v) /\ v.stop = w.stop
<1>1. CASE w.eventWalk = NoEvent
  BY <1>1 DEF Rescheduled, Led, Stops, Stopped
<1>2. CASE w.eventWalk # NoEvent
  <2> DEFINE u == [w EXCEPT !.eventWalk = NoEvent]
             v == AddEventWalk(u)
  <2>1. /\ u \in Worlds /\ u.waiting = w.waiting /\ u.eventWalk = NoEvent
        /\ u.walkTaskEvent = w.walkTaskEvent
        /\ u.actionTaskEvent = w.actionTaskEvent /\ u.walkTask = w.walkTask
        /\ SameWalk(u, w)
    BY DEF Core, Worlds, SameWalk, Ids
  <2>2. Core(u)
    BY <2>1 DEF Core, Known
  <2>3. Rescheduled(w) = v
    BY <1>2 DEF Rescheduled
  <2> HIDE DEF u
  <2>4. Core(v) /\ Led(v) /\ SameWalk(v, u) /\ Walks(v)
    BY <2>1, <2>2, AddEventWalkKeeps
  <2>5. Going(v) /\ Stops(v) /\ v.stop = w.stop
    BY <2>1, <2>4 DEF Going, Stops, Stopped, SameWalk
  <2> QED
    BY <2>3, <2>4, <2>5
<1> QED
  BY <1>1, <1>2

LEMMA OnWalkKeeps ==
    ASSUME NEW w, Core(w), Stops(w), NEW v \in OnWalk(w) \cup OnWalkAtOnce(w)
    PROVE  /\ Core(v) /\ Led(v) /\ (Going(w) => Going(v)) /\ Stops(v)
           /\ (w.stop = "free" => v.stop = "free")
<1>1. PICK u \in {w} \cup Walked(w) : v = Rescheduled(Cancelled(u))
  BY DEF OnWalk, OnWalkAtOnce
<1>2. /\ Core(u) /\ (Going(w) => Going(u)) /\ Stopping(u)
      /\ (w.stop = "free" => u.stop = "free")
  <2>1. CASE u = w
    BY <2>1 DEF Stops, Stopping
  <2>2. CASE u \in Walked(w)
    BY <2>2, WalkedKeeps
  <2> QED
    BY <2>1, <2>2
<1>3. LET c == Cancelled(u) IN
      Core(c) /\ (Going(u) => Going(c)) /\ Stopped(c) /\ c.stop = u.stop
  BY <1>2, CancelledKeeps
<1>4. LET c == Cancelled(u) IN
      Core(v) /\ Led(v) /\ (Going(c) => Going(v)) /\ Stops(v) /\ v.stop = c.stop
  BY <1>1, <1>3, RescheduledKeeps
<1> QED
  BY <1>2, <1>3, <1>4

\* A player who starts to walk in a way that is sound but for an end that nothing
\* leads to has one again.
LEMMA AddEventFirstStepSound ==
    ASSUME NEW w, Core(w), Led(w), w.stop = "free", NEW v \in AddEventFirstStep(w)
    PROVE  Sound(v)
<1> DEFINE u == [w EXCEPT !.cancelNextWalk = FALSE]
<1>1. /\ u \in Worlds /\ u.waiting = w.waiting /\ u.eventWalk = w.eventWalk
      /\ u.dropped = w.dropped /\ u.queue = w.queue /\ u.walkTaskEvent = w.walkTaskEvent
      /\ u.actionTaskEvent = w.actionTaskEvent /\ u.walkTask = w.walkTask
      /\ u.stop = "free"
  BY DEF Core, Worlds
<1>2. Core(u) /\ Led(u) /\ Stops(u)
  BY <1>1, OtherFields DEF Stops
<1>3. CASE w.eventWalk # NoEvent
  <2>1. v = u
    BY <1>1, <1>3 DEF AddEventFirstStep
  <2>2. Going(u)
    BY <1>1, <1>3 DEF Going, Walks
  <2> QED
    BY <1>2, <2>1, <2>2 DEF Sound
<1>4. CASE w.eventWalk = NoEvent
  <2>1. PICK t \in {u} \cup OnWalkAtOnce(u) : v = ScheduleWalk(t)
    BY <1>1, <1>4 DEF AddEventFirstStep
  <2> HIDE DEF u
  <2>2. Core(t) /\ t.stop = "free"
    <3>1. CASE t = u
      BY <3>1, <1>1, <1>2
    <3>2. CASE t \in OnWalkAtOnce(u)
      BY <3>2, <1>1, <1>2, OnWalkKeeps
    <3> QED
      BY <3>1, <3>2
  <2>3. Core(v) /\ Led(v) /\ SameWalk(v, t) /\ Walks(v)
    BY <2>1, <2>2, ScheduleWalkKeeps
  <2> QED
    BY <2>2, <2>3 DEF Sound, Going, Stops, SameWalk
<1> QED
  BY <1>3, <1>4

LEMMA StartAutoWalkSound ==
    ASSUME NEW w, Core(w), Led(w), Stops(w), NEW path \in Nat, NEW v \in StartAutoWalk(w, path)
    PROVE  Sound(v)
<1> DEFINE u == [w EXCEPT !.steps = path, !.stop = "free"]
           r == [w EXCEPT !.halted = "yes"]
<1>1. /\ u \in Worlds /\ u.waiting = w.waiting /\ u.eventWalk = w.eventWalk
      /\ u.dropped = w.dropped /\ u.queue = w.queue /\ u.walkTaskEvent = w.walkTaskEvent
      /\ u.actionTaskEvent = w.actionTaskEvent /\ u.walkTask = w.walkTask
      /\ u.stop = "free"
  BY DEF Core, Worlds
<1>2. Core(u) /\ Led(u)
  BY <1>1, OtherFields
<1>3. v = r \/ v \in AddEventFirstStep(u) \/ v = AddEventWalk(u)
  BY DEF StartAutoWalk
<1>4. CASE v = r
  <2>1. /\ r \in Worlds /\ r.waiting = w.waiting /\ r.eventWalk = w.eventWalk
        /\ r.dropped = w.dropped /\ r.queue = w.queue /\ r.walkTaskEvent = w.walkTaskEvent
        /\ r.actionTaskEvent = w.actionTaskEvent /\ r.walkTask = w.walkTask
        /\ r.halted = "yes" /\ r.stop = w.stop /\ r.steps = w.steps
        /\ r.cancelNextWalk = w.cancelNextWalk
    BY DEF Core, Worlds
  <2>2. Core(r) /\ Led(r)
    BY <2>1, OtherFields
  <2> QED
    BY <1>4, <2>1, <2>2 DEF Sound, Going, Stops
<1>5. CASE v \in AddEventFirstStep(u)
  <2> HIDE DEF u
  <2> QED
    BY <1>1, <1>2, <1>5, AddEventFirstStepSound
<1>6. CASE v = AddEventWalk(u)
  <2> HIDE DEF u
  <2>1. Core(v) /\ Led(v) /\ SameWalk(v, u) /\ Walks(v)
    BY <1>2, <1>6, AddEventWalkKeeps
  <2> QED
    BY <1>1, <2>1 DEF Sound, Going, Stops, SameWalk
<1> QED
  BY <1>3, <1>4, <1>5, <1>6

----------------------------------------------------------------------------
(* Requests.                                                               *)

LEMMA QueueAppended ==
    ASSUME NEW q \in Seq(Tasks), NEW t \in Tasks
    PROVE  Append(q, t) \in Seq(Tasks) /\ ToSet(Append(q, t)) = ToSet(q) \cup {t}
<1>1. /\ Append(q, t) \in Seq(Tasks) /\ Len(q) \in Nat
      /\ DOMAIN q = 1 .. Len(q) /\ DOMAIN Append(q, t) = 1 .. (Len(q) + 1)
      /\ Append(q, t)[Len(q) + 1] = t
      /\ \A i \in 1 .. Len(q) : Append(q, t)[i] = q[i]
  OBVIOUS
<1>2. \A i \in 1 .. (Len(q) + 1) : i \in 1 .. Len(q) \/ i = Len(q) + 1
  BY <1>1
<1> QED
  BY <1>1, <1>2 DEF ToSet

LEMMA QueueTaken ==
    ASSUME NEW q \in Seq(Tasks), q # <<>>
    PROVE  /\ Tail(q) \in Seq(Tasks) /\ Head(q) \in Tasks
           /\ ToSet(q) = {Head(q)} \cup ToSet(Tail(q))
<1>1. /\ Tail(q) \in Seq(Tasks) /\ Len(q) \in Nat /\ Len(q) # 0
      /\ DOMAIN q = 1 .. Len(q) /\ DOMAIN Tail(q) = 1 .. (Len(q) - 1)
      /\ Head(q) = q[1]
      /\ \A i \in 1 .. (Len(q) - 1) : Tail(q)[i] = q[i + 1]
  OBVIOUS
<1>2. Head(q) \in Tasks
  BY <1>1
<1>3. ToSet(Tail(q)) \subseteq ToSet(q) /\ Head(q) \in ToSet(q)
  BY <1>1 DEF ToSet
<1>4. ASSUME NEW i \in 1 .. Len(q), i # 1
      PROVE  q[i] \in ToSet(Tail(q))
  <2>1. i - 1 \in 1 .. (Len(q) - 1) /\ Tail(q)[i - 1] = q[i]
    BY <1>1, <1>4
  <2> QED
    BY <1>1, <2>1 DEF ToSet
<1> QED
  BY <1>1, <1>2, <1>3, <1>4 DEF ToSet

LEMMA ActThereSound ==
    ASSUME NEW w, Sound(w), NEW v \in ActThere(w)
    PROVE  Sound(v)
<1>1. PICK path \in Paths :
          v = SetNextWalkActionTask([w EXCEPT !.queue = Append(@, <<"autoWalk", path>>)], "use")
  BY DEF ActThere
<1> DEFINE task == <<"autoWalk", path>>
           u == [w EXCEPT !.queue = Append(@, task)]
<1>2. task \in Tasks /\ task[1] = "autoWalk"
  BY PlayerWalkConstants DEF Tasks, Paths
<1> HIDE DEF task
<1>3. Append(w.queue, task) \in Seq(Tasks) /\ ToSet(Append(w.queue, task)) = ToSet(w.queue) \cup {task}
  BY <1>2, QueueAppended DEF Sound, Core, Worlds
<1>4. /\ u \in Worlds /\ u.waiting = w.waiting /\ u.eventWalk = w.eventWalk
      /\ u.dropped = w.dropped /\ ToSet(u.queue) = ToSet(w.queue) \cup {task}
      /\ u.walkTaskEvent = w.walkTaskEvent
      /\ u.actionTaskEvent = w.actionTaskEvent /\ u.walkTask = w.walkTask
      /\ u.steps = w.steps /\ u.stop = w.stop /\ u.speed = w.speed /\ u.halted = w.halted
      /\ u.cancelNextWalk = w.cancelNextWalk
  BY <1>3 DEF Sound, Core, Worlds
<1>5. Core(u) /\ Led(u) /\ (Walks(w) => Walks(u)) /\ ~NoWalkQueued(u.queue)
  BY <1>2, <1>4 DEF Sound, Core, Known, Led, Walks, NoWalkQueued
<1>6. v = SetNextWalkActionTask(u, "use")
  BY <1>1 DEF task
<1> HIDE DEF u
<1>7. /\ Core(v) /\ Led(v) /\ (Walks(u) => Walks(v)) /\ SameWalk(v, u)
      /\ v.halted = u.halted /\ v.cancelNextWalk = u.cancelNextWalk
  BY <1>5, <1>6, SetNextWalkActionTaskKeeps
<1> QED
  BY <1>4, <1>5, <1>7 DEF Sound, Going, Stops, SameWalk

LEMMA ForgetActionSound ==
    ASSUME NEW w, Sound(w)
    PROVE  Sound(ForgetAction(w)) /\ Sound(SetNextActionTask(w))
<1> DEFINE v == ForgetAction(w)
           t == SetNextActionTask(w)
<1>1. /\ Core(v) /\ Led(v) /\ (Walks(w) => Walks(v)) /\ SameWalk(v, w)
      /\ v.walkTask = w.walkTask /\ v.halted = w.halted
      /\ v.cancelNextWalk = w.cancelNextWalk
  BY ForgetActionKeeps DEF Sound
<1>2. /\ Core(t) /\ Led(t) /\ (Walks(w) => Walks(t)) /\ SameWalk(t, w)
      /\ t.walkTask = w.walkTask /\ t.halted = w.halted
      /\ t.cancelNextWalk = w.cancelNextWalk
  BY SetNextActionTaskKeeps DEF Sound
<1> HIDE DEF v, t
<1>3. Sound(v) /\ Sound(t)
  BY <1>1, <1>2 DEF Sound, Going, Stops, SameWalk
<1> QED
  BY <1>3 DEF v, t

LEMMA OnWalkAbortedSound ==
    ASSUME NEW w, Core(w), Led(w), Stops(w), w.steps > 0 => Going(w)
    PROVE  Sound(OnWalkAborted(w))
<1> DEFINE v == OnWalkAborted(w)
<1>1. v = SetNextWalkActionTask(w, "none")
  BY DEF OnWalkAborted
<1> HIDE DEF v
<1>2. /\ Core(v) /\ Led(v) /\ (Walks(w) => Walks(v)) /\ SameWalk(v, w)
      /\ v.walkTask = "none" /\ v.halted = w.halted
      /\ v.cancelNextWalk = w.cancelNextWalk
  BY <1>1, SetNextWalkActionTaskKeeps
<1>3. Sound(v)
  BY <1>2 DEF Sound, Going, Stops, SameWalk
<1> QED
  BY <1>3 DEF v

LEMMA ActSound ==
    ASSUME NEW w, Sound(w), NEW v \in Act(w)
    PROVE  Sound(v)
<1>1. CASE v \in UseItem(w)
  <2>1. \/ v = w
        \/ v \in ActThere(w)
        \/ v = SetNextActionTask(w)
        \/ v = StopWalk(ForgetAction(w))
    BY <1>1 DEF UseItem
  <2>2. CASE v = StopWalk(ForgetAction(w))
    <3>1. Sound(ForgetAction(w))
      BY ForgetActionSound
    <3>2. /\ Core(v) /\ (Led(ForgetAction(w)) => Led(v))
          /\ (Going(ForgetAction(w)) => Going(v)) /\ Stops(v)
      BY <2>2, <3>1, StopWalkSound DEF Sound
    <3> QED
      BY <3>1, <3>2 DEF Sound
  <2> QED
    BY <2>1, <2>2, ActThereSound, ForgetActionSound
<1>2. CASE v \in MoveThing(w)
  <2>1. \/ v = w
        \/ v = SetNextActionTask(w)
        \/ v = ForgetAction(w)
        \/ v \in ActThere(ForgetAction(w))
    BY <1>2 DEF MoveThing
  <2> QED
    BY <2>1, ActThereSound, ForgetActionSound
<1> QED
  BY <1>1, <1>2 DEF Act

----------------------------------------------------------------------------
(* The invariant of the player's state.                                    *)

Numbered == \A e \in waiting : e[2] # NoEvent

IInv == (\A id \in Ids : Sound(World(id))) /\ Numbered

LEMMA NextIdsAreIds == NextIds \subseteq Ids
BY DEF NextIds, Ids

LEMMA WorldFields ==
    ASSUME NEW id
    PROVE  LET w == World(id) IN
           /\ w.health = health /\ w.speed = speed /\ w.steps = steps
           /\ w.eventWalk = eventWalk /\ w.cancelNextWalk = cancelNextWalk
           /\ w.walkTask = walkTask /\ w.walkTaskEvent = walkTaskEvent
           /\ w.actionTaskEvent = actionTaskEvent /\ w.waiting = waiting
           /\ w.queue = queue /\ w.dropped = dropped /\ w.halted = halted /\ w.stop = stop
BY DEF World

LEMMA InitSound == Init => IInv
<1> SUFFICES ASSUME Init
             PROVE  IInv
  OBVIOUS
<1>1. ASSUME NEW id \in Ids
      PROVE  Sound(World(id))
  <2> DEFINE w == World(id)
  <2>0. <<>> \in Seq(Tasks) /\ NoEvent \in Ids /\ 0 \in Nat /\ {} \in SUBSET (Kinds \X Ids)
    BY DEF Ids
  <2>1. w \in Worlds
    BY <1>1, <2>0 DEF Init, World, Worlds
  <2>2. /\ w.waiting = {} /\ w.eventWalk = NoEvent /\ w.steps = 0 /\ w.walkTask = "none"
        /\ w.stop = "free"
    BY WorldFields DEF Init
  <2> HIDE DEF w
  <2> QED
    BY <2>1, <2>2 DEF Sound, Core, Known, Led, Going, Stops, w
<1> QED
  BY <1>1 DEF IInv, Numbered, Init

\* What an action makes of a sound state keeps the invariant.
LEMMA BecomesSound ==
    ASSUME NEW w, Sound(w), Becomes(w)
    PROVE  IInv'
<1>1. ASSUME NEW id \in Ids
      PROVE  Sound(World(id))'
  <2> DEFINE v == World(id)'
  <2>1. /\ v.waiting = w.waiting /\ v.eventWalk = w.eventWalk
        /\ v.dropped = w.dropped /\ v.queue = w.queue /\ v.walkTaskEvent = w.walkTaskEvent
        /\ v.actionTaskEvent = w.actionTaskEvent /\ v.walkTask = w.walkTask
        /\ v.steps = w.steps /\ v.stop = w.stop /\ v.speed = w.speed
        /\ v.halted = w.halted /\ v.cancelNextWalk = w.cancelNextWalk
    BY DEF Becomes, World
  <2>2. v \in Worlds
    BY <1>1 DEF Becomes, World, Sound, Core, Worlds
  <2> HIDE DEF v
  <2>3. Core(v) /\ Led(v) /\ (Walks(w) => Walks(v))
    BY <2>1, <2>2, OtherFields DEF Sound
  <2>4. Going(v) /\ Stops(v)
    BY <2>1, <2>3 DEF Sound, Going, Stops
  <2>5. Sound(v)
    BY <2>3, <2>4 DEF Sound
  <2> QED
    BY <2>5 DEF v, Sound, Core, Led, Going, Stops, Known, Walks
<1>2. Numbered'
  BY DEF Becomes, Numbered
<1> QED
  BY <1>1, <1>2 DEF IInv

LEMMA EventDueSound == IInv /\ EventDue => IInv'
<1> SUFFICES ASSUME IInv, EventDue
             PROVE  IInv'
  OBVIOUS
<1>1. PICK e \in waiting :
          /\ waiting' = waiting \ {e} /\ queue' = Append(queue, e)
          /\ UNCHANGED <<health, speed, steps, eventWalk, cancelNextWalk, walkTask,
                         walkTaskEvent, actionTaskEvent, dropped, halted, stop>>
  BY DEF EventDue
<1>2. ASSUME NEW id \in Ids
      PROVE  Sound(World(id))'
  <2> DEFINE w == World(id)
             v == World(id)'
  <2>1. /\ v.waiting = w.waiting \ {e} /\ v.queue = Append(w.queue, e)
        /\ v.eventWalk = w.eventWalk /\ v.dropped = w.dropped
        /\ v.walkTaskEvent = w.walkTaskEvent
        /\ v.actionTaskEvent = w.actionTaskEvent /\ v.walkTask = w.walkTask
        /\ v.steps = w.steps /\ v.stop = w.stop /\ v.speed = w.speed
        /\ v.halted = w.halted /\ v.cancelNextWalk = w.cancelNextWalk
        /\ v.next = w.next /\ v.health = w.health
    BY <1>1 DEF World
  <2>11. v = [next |-> v.next, health |-> v.health, speed |-> v.speed, steps |-> v.steps,
              eventWalk |-> v.eventWalk, cancelNextWalk |-> v.cancelNextWalk,
              walkTask |-> v.walkTask, walkTaskEvent |-> v.walkTaskEvent,
              actionTaskEvent |-> v.actionTaskEvent, waiting |-> v.waiting,
              queue |-> v.queue, dropped |-> v.dropped, halted |-> v.halted, stop |-> v.stop]
    BY DEF World
  <2>2. Sound(w) /\ w.waiting = waiting
    BY <1>2, WorldFields DEF IInv
  <2> HIDE DEF w, v
  <2>3. e \in Kinds \X Ids
    BY <2>2 DEF Sound, Core, Worlds
  <2>4. e \in Tasks /\ e = <<e[1], e[2]>> /\ e[1] # "autoWalk"
    BY <2>3 DEF Tasks, Kinds
  <2>5. /\ Append(w.queue, e) \in Seq(Tasks)
        /\ ToSet(Append(w.queue, e)) = ToSet(w.queue) \cup {e}
    BY <2>2, <2>4, QueueAppended DEF Sound, Core, Worlds
  <2>6. v \in Worlds
    BY <2>1, <2>11, <2>2, <2>5 DEF Sound, Core, Worlds
  <2>7. Core(v) /\ Led(v)
    BY <2>1, <2>2, <2>5, <2>6 DEF Sound, Core, Known, Led
  <2>8. <<"walk", NoEvent>> \notin w.waiting
    BY <2>2 DEF IInv, Numbered
  <2>9. Going(v) /\ Stops(v)
    BY <2>1, <2>2, <2>5, <2>8 DEF Sound, Going, Walks, Stops, NoWalkQueued
  <2>10. Sound(v)
    BY <2>7, <2>9 DEF Sound
  <2> QED
    BY <2>10 DEF v, Sound, Core, Led, Going, Stops, Known, Walks
<1>3. Numbered'
  BY <1>1 DEF IInv, Numbered
<1> QED
  BY <1>2, <1>3 DEF IInv

----------------------------------------------------------------------------
(* Every action keeps the invariant.                                       *)

\* A task that is taken from the list and is not the walk event leaves all of the
\* state sound but for the walk that a task was to start.
LEMMA TakenKeeps ==
    ASSUME IInv, NEW id \in Ids, queue # <<>>
    PROVE  LET w == Taken(id) IN
           /\ Core(w) /\ Stops(w)
           /\ (Head(queue)[1] # "walk" => Led(w))
           /\ (Head(queue)[1] # "autoWalk" => Going(w))
           /\ (Head(queue) # <<"walk", eventWalk>> => Led(w))
<1> DEFINE u == World(id)
           w == Taken(id)
<1>1. Sound(u) /\ u.queue = queue /\ u.eventWalk = eventWalk
  BY WorldFields DEF IInv
<1>2. w = [u EXCEPT !.queue = Tail(@)]
  BY DEF Taken
<1> HIDE DEF u, w
<1>3. /\ Tail(queue) \in Seq(Tasks)
      /\ ToSet(queue) = {Head(queue)} \cup ToSet(Tail(queue))
  BY <1>1, QueueTaken DEF Sound, Core, Worlds
<1>4. /\ w \in Worlds /\ w.waiting = u.waiting /\ w.eventWalk = u.eventWalk
      /\ w.dropped = u.dropped /\ w.queue = Tail(queue) /\ w.walkTaskEvent = u.walkTaskEvent
      /\ w.actionTaskEvent = u.actionTaskEvent /\ w.walkTask = u.walkTask
      /\ w.steps = u.steps /\ w.stop = u.stop /\ w.speed = u.speed /\ w.halted = u.halted
      /\ w.cancelNextWalk = u.cancelNextWalk
  BY <1>1, <1>2, <1>3 DEF Sound, Core, Worlds
<1>5. Core(w) /\ Stops(w) /\ (Walks(u) => Walks(w))
  BY <1>1, <1>4 DEF Sound, Core, Known, Stops, Walks
<1>6. Head(queue) # <<"walk", eventWalk>> => Led(w)
  BY <1>1, <1>3, <1>4 DEF Sound, Led
<1>7. Head(queue)[1] # "walk" => Led(w)
  BY <1>6
<1>8. Head(queue)[1] # "autoWalk" => Going(w)
  BY <1>1, <1>3, <1>4, <1>5 DEF Sound, Going, NoWalkQueued
<1> QED
  BY <1>5, <1>6, <1>7, <1>8 DEF w

LEMMA CheckCreatureWalkSound ==
    ASSUME IInv, NEW id \in Ids, CheckCreatureWalk(id)
    PROVE  IInv'
<1>1. queue # <<>> /\ Head(queue)[1] = "walk"
  BY DEF CheckCreatureWalk, IsNext
<1> DEFINE t == Taken(id)
<1>2. /\ Core(t) /\ Stops(t) /\ Going(t)
      /\ (Head(queue) # <<"walk", eventWalk>> => Led(t))
  BY <1>1, TakenKeeps
<1>3. CASE health = "alive"
  <2>1. PICK w \in OnWalk(t) : Becomes(w)
    BY <1>3 DEF CheckCreatureWalk
  <2> HIDE DEF t
  <2>2. Sound(w)
    BY <1>2, <2>1, OnWalkKeeps DEF Sound
  <2> QED
    BY <2>1, <2>2, BecomesSound
<1>4. CASE health # "alive"
  <2> DEFINE v == [t EXCEPT !.dropped = @ \/ Head(queue)[2] = eventWalk]
  <2>1. Becomes(v)
    BY <1>4 DEF CheckCreatureWalk
  <2>2. t.eventWalk = eventWalk
    BY DEF Taken, World
  <2>3. Head(queue) \in Tasks
    <3>1. queue \in Seq(Tasks)
      BY WorldFields DEF IInv, Sound, Core, Worlds
    <3> QED
      BY <1>1, <3>1, QueueTaken
  <2>4. Head(queue)[2] # eventWalk => Head(queue) # <<"walk", eventWalk>>
    OBVIOUS
  <2> HIDE DEF t
  <2> DEFINE d == t.dropped \/ Head(queue)[2] = eventWalk
  <2>5. d \in BOOLEAN
    OBVIOUS
  <2>6. v = [t EXCEPT !.dropped = d]
    OBVIOUS
  <2>7. (d <=> t.dropped \/ Head(queue)[2] = eventWalk)
    OBVIOUS
  <2> HIDE DEF d, v
  <2>8. /\ v \in Worlds /\ v.waiting = t.waiting /\ v.eventWalk = t.eventWalk
        /\ v.dropped = d /\ v.queue = t.queue /\ v.walkTaskEvent = t.walkTaskEvent
        /\ v.actionTaskEvent = t.actionTaskEvent /\ v.walkTask = t.walkTask
        /\ v.steps = t.steps /\ v.stop = t.stop /\ v.speed = t.speed /\ v.halted = t.halted
        /\ v.cancelNextWalk = t.cancelNextWalk
    BY <1>2, <2>5, <2>6 DEF Core, Worlds
  <2>9. Core(v) /\ Going(v) /\ Stops(v)
    BY <1>2, <2>8 DEF Core, Known, Going, Walks, Stops
  <2>10. Led(v)
    <3>1. CASE Head(queue)[2] = eventWalk
      BY <2>7, <2>8, <3>1 DEF Led
    <3>2. CASE Head(queue)[2] # eventWalk
      <4>1. Led(t) /\ (d <=> t.dropped)
        BY <1>2, <2>4, <2>7, <3>2
      <4> QED
        BY <2>8, <4>1 DEF Led
    <3> QED
      BY <3>1, <3>2
  <2> QED
    BY <2>1, <2>9, <2>10, BecomesSound DEF Sound
<1> QED
  BY <1>3, <1>4

LEMMA AutoWalkTaskSound ==
    ASSUME IInv, NEW id \in Ids, AutoWalkTask(id)
    PROVE  IInv'
<1>1. queue # <<>> /\ Head(queue)[1] = "autoWalk"
  BY DEF AutoWalkTask, IsNext
<1> DEFINE t == Taken(id)
<1>2. Core(t) /\ Stops(t) /\ Led(t)
  BY <1>1, TakenKeeps
<1>3. Head(queue) \in Tasks
  <2>1. queue \in Seq(Tasks)
    BY WorldFields DEF IInv, Sound, Core, Worlds
  <2> QED
    BY <1>1, <2>1, QueueTaken
<1>4. Head(queue)[2] \in Nat
  BY <1>1, <1>3 DEF Tasks, Kinds
<1>5. PICK w \in StartAutoWalk(t, Head(queue)[2]) : Becomes(w)
  BY DEF AutoWalkTask
<1> HIDE DEF t
<1>6. Sound(w)
  BY <1>2, <1>4, <1>5, StartAutoWalkSound
<1> QED
  BY <1>5, <1>6, BecomesSound

LEMMA DelayedActSound ==
    ASSUME IInv, NEW id \in Ids, DelayedAct(id)
    PROVE  IInv'
<1>1. queue # <<>> /\ Head(queue)[1] # "walk" /\ Head(queue)[1] # "autoWalk"
  BY DEF DelayedAct, IsNext
<1> DEFINE t == Taken(id)
<1>2. Sound(t)
  BY <1>1, TakenKeeps DEF Sound
<1>3. PICK w \in Act(t) : Becomes(w)
  BY DEF DelayedAct
<1> HIDE DEF t
<1> QED
  BY <1>2, <1>3, ActSound, BecomesSound

LEMMA WalkRequestsSound ==
    ASSUME IInv, NEW id \in Ids,
           PlayerMove(id) \/ PlayerAutoWalk(id) \/ GoToFollowCreature(id)
    PROVE  IInv'
<1> DEFINE w == World(id)
<1>1. Sound(w)
  BY DEF IInv
<1> HIDE DEF w
<1>2. CASE PlayerMove(id)
  <2> DEFINE u == SetNextWalkActionTask(w, "none")
  <2>1. PICK v \in StartAutoWalk(u, 1) : Becomes(v)
    BY <1>2 DEF PlayerMove, w
  <2>2. Core(u) /\ Led(u) /\ SameWalk(u, w) /\ u.cancelNextWalk = w.cancelNextWalk
    BY <1>1, SetNextWalkActionTaskKeeps DEF Sound
  <2> HIDE DEF u
  <2>3. Stops(u)
    BY <1>1, <2>2 DEF Sound, Stops, SameWalk
  <2>4. Sound(v)
    BY <2>1, <2>2, <2>3, StartAutoWalkSound
  <2> QED
    BY <2>1, <2>4, BecomesSound
<1>3. CASE PlayerAutoWalk(id)
  <2>1. PICK path \in Paths : \E v \in StartAutoWalk(w, path) : Becomes(v)
    BY <1>3 DEF PlayerAutoWalk, w
  <2>2. path \in Nat
    BY PlayerWalkConstants DEF Paths
  <2>3. PICK v \in StartAutoWalk(w, path) : Becomes(v)
    BY <2>1
  <2>4. Sound(v)
    BY <1>1, <2>2, <2>3, StartAutoWalkSound DEF Sound
  <2> QED
    BY <2>3, <2>4, BecomesSound
<1>4. CASE GoToFollowCreature(id)
  <2>1. PICK path \in Paths :
            \E v \in StartAutoWalk([w EXCEPT !.steps = path, !.stop = "free"], path) :
               Becomes(v)
    BY <1>4 DEF GoToFollowCreature, w
  <2>2. path \in Nat
    BY PlayerWalkConstants DEF Paths
  <2> DEFINE u == [w EXCEPT !.steps = path, !.stop = "free"]
  <2>3. PICK v \in StartAutoWalk(u, path) : Becomes(v)
    BY <2>1
  <2>4. /\ u \in Worlds /\ u.waiting = w.waiting /\ u.eventWalk = w.eventWalk
        /\ u.dropped = w.dropped /\ u.queue = w.queue /\ u.walkTaskEvent = w.walkTaskEvent
        /\ u.actionTaskEvent = w.actionTaskEvent /\ u.walkTask = w.walkTask
        /\ u.stop = "free"
    BY <1>1, <2>2 DEF Sound, Core, Worlds
  <2>5. Core(u) /\ Led(u) /\ Stops(u)
    BY <1>1, <2>4, OtherFields DEF Sound, Stops
  <2> HIDE DEF u
  <2>6. Sound(v)
    BY <2>2, <2>3, <2>5, StartAutoWalkSound
  <2> QED
    BY <2>3, <2>6, BecomesSound
<1> QED
  BY <1>2, <1>3, <1>4

LEMMA OtherRequestsSound ==
    ASSUME IInv, NEW id \in Ids,
           PlayerAct(id) \/ PlayerStopAutoWalk(id) \/ FollowCreature(id) \/ MayNotMove(id)
    PROVE  IInv'
<1> DEFINE w == World(id)
<1>1. Sound(w)
  BY DEF IInv
<1> HIDE DEF w
<1>2. CASE PlayerAct(id)
  <2>1. PICK v \in Act(w) : Becomes(v)
    BY <1>2 DEF PlayerAct, w
  <2> QED
    BY <1>1, <2>1, ActSound, BecomesSound
<1>3. CASE PlayerStopAutoWalk(id)
  <2>1. Becomes(StopWalk(w))
    BY <1>3 DEF PlayerStopAutoWalk, w
  <2>2. Sound(StopWalk(w))
    BY <1>1, StopWalkSound DEF Sound
  <2> QED
    BY <2>1, <2>2, BecomesSound
<1>4. CASE FollowCreature(id)
  <2> DEFINE u == [w EXCEPT !.steps = 0]
  <2>1. Becomes(OnWalkAborted(u))
    BY <1>4 DEF FollowCreature, w
  <2>2. /\ u \in Worlds /\ u.waiting = w.waiting /\ u.eventWalk = w.eventWalk
        /\ u.dropped = w.dropped /\ u.queue = w.queue /\ u.walkTaskEvent = w.walkTaskEvent
        /\ u.actionTaskEvent = w.actionTaskEvent /\ u.walkTask = w.walkTask
        /\ u.steps = 0 /\ u.stop = w.stop
    BY <1>1 DEF Sound, Core, Worlds
  <2>3. Core(u) /\ Led(u) /\ Stops(u)
    BY <1>1, <2>2, OtherFields DEF Sound, Stops
  <2>4. ~(u.steps > 0)
    BY <2>2
  <2> HIDE DEF u
  <2>5. Sound(OnWalkAborted(u))
    BY <2>3, <2>4, OnWalkAbortedSound
  <2> QED
    BY <2>1, <2>5, BecomesSound
<1>5. CASE MayNotMove(id)
  <2>1. Becomes(OnWalkAborted(w))
    BY <1>5 DEF MayNotMove, w
  <2>2. Sound(OnWalkAborted(w))
    BY <1>1, OnWalkAbortedSound DEF Sound
  <2> QED
    BY <2>1, <2>2, BecomesSound
<1> QED
  BY <1>2, <1>3, <1>4, <1>5

LEMMA HealthSound ==
    ASSUME NEW w, Sound(w), NEW h \in {"alive", "dying"}
    PROVE  Sound([w EXCEPT !.health = h])
<1> DEFINE u == [w EXCEPT !.health = h]
<1>1. /\ u \in Worlds /\ u.waiting = w.waiting /\ u.eventWalk = w.eventWalk
      /\ u.dropped = w.dropped /\ u.queue = w.queue /\ u.walkTaskEvent = w.walkTaskEvent
      /\ u.actionTaskEvent = w.actionTaskEvent /\ u.walkTask = w.walkTask
      /\ u.steps = w.steps /\ u.stop = w.stop /\ u.speed = w.speed /\ u.halted = w.halted
      /\ u.cancelNextWalk = w.cancelNextWalk
  BY DEF Sound, Core, Worlds
<1>2. Core(u) /\ Led(u) /\ (Walks(w) => Walks(u))
  BY <1>1, OtherFields DEF Sound
<1> QED
  BY <1>1, <1>2 DEF Sound, Going, Stops

LEMMA MishapsSound ==
    ASSUME IInv, NEW id \in Ids,
           \/ SetSpeed(id) \/ Teleport(id) \/ LoseHealth(id) \/ AdvanceLevel(id) \/ OnDeath(id)
    PROVE  IInv'
<1> DEFINE w == World(id)
<1>1. Sound(w)
  BY DEF IInv
<1> HIDE DEF w
<1>2. Sound(Paralysed(w)) /\ Sound(Released(w)) /\ Sound(Teleported(w))
  BY <1>1, ParalysedSound, ReleasedSound, TeleportedSound DEF Sound
<1>3. CASE SetSpeed(id)
  BY <1>2, <1>3, BecomesSound DEF SetSpeed, w
<1>4. CASE Teleport(id)
  BY <1>2, <1>4, BecomesSound DEF Teleport, w
<1>5. CASE LoseHealth(id)
  <2>1. Becomes([w EXCEPT !.health = "dying"])
    BY <1>5 DEF LoseHealth, w
  <2> QED
    BY <1>1, <2>1, HealthSound, BecomesSound
<1>6. CASE AdvanceLevel(id)
  <2>1. Becomes([w EXCEPT !.health = "alive"])
    BY <1>6 DEF AdvanceLevel, w
  <2> QED
    BY <1>1, <2>1, HealthSound, BecomesSound
<1>7. CASE OnDeath(id)
  <2>1. Becomes([Teleported(w) EXCEPT !.health = "alive"])
    BY <1>7 DEF OnDeath, w
  <2> QED
    BY <1>2, <2>1, HealthSound, BecomesSound
<1> QED
  BY <1>3, <1>4, <1>5, <1>6, <1>7

LEMMA StutterSound == IInv /\ UNCHANGED vars => IInv'
<1> SUFFICES ASSUME IInv, UNCHANGED vars
             PROVE  IInv'
  OBVIOUS
<1>1. NoEvent \in Ids /\ Sound(World(NoEvent))
  BY DEF IInv, Ids
<1>2. Becomes(World(NoEvent))
  BY DEF IInv, Numbered, Becomes, World, vars
<1> QED
  BY <1>1, <1>2, BecomesSound

LEMMA NextSound == IInv /\ [Next]_vars => IInv'
<1> SUFFICES ASSUME IInv, [Next]_vars
             PROVE  IInv'
  OBVIOUS
<1>1. CASE EventDue
  BY <1>1, EventDueSound
<1>2. ASSUME NEW id \in NextIds,
             \/ PlayerAct(id) \/ PlayerMove(id) \/ PlayerAutoWalk(id)
             \/ PlayerStopAutoWalk(id) \/ FollowCreature(id) \/ GoToFollowCreature(id)
             \/ MayNotMove(id) \/ SetSpeed(id) \/ Teleport(id) \/ LoseHealth(id)
             \/ AdvanceLevel(id) \/ OnDeath(id) \/ CheckCreatureWalk(id)
             \/ AutoWalkTask(id) \/ DelayedAct(id)
      PROVE  IInv'
  BY <1>2, NextIdsAreIds, WalkRequestsSound, OtherRequestsSound, MishapsSound,
     CheckCreatureWalkSound, AutoWalkTaskSound, DelayedActSound
<1>3. CASE UNCHANGED vars
  BY <1>3, StutterSound
<1> QED
  BY <1>1, <1>2, <1>3 DEF Next

LEMMA Invariant == Spec => []IInv
BY InitSound, NextSound, PTL DEF Spec

----------------------------------------------------------------------------
(* The theorems.                                                           *)

\* Whatever is asked and in whatever order events come, a walk that is not over goes on:
\* the walk event that is remembered is still to come, a player with steps left has
\* one, and an action that waits for the end of the walk gets there. For paths of any
\* length, any set of ids and any number of tasks in the list.
THEOREM PlayerWalkGoesOn == Spec => []WalkGoesOn
<1>1. IInv => WalkGoesOn
  <2> SUFFICES ASSUME IInv
               PROVE  WalkGoesOn
    OBVIOUS
  <2> DEFINE w == World(NoEvent)
  <2>1. Sound(w)
    BY DEF IInv, Ids
  <2>2. /\ w.speed = speed /\ w.steps = steps /\ w.eventWalk = eventWalk
        /\ w.walkTask = walkTask /\ w.waiting = waiting /\ w.queue = queue
        /\ w.dropped = dropped /\ w.halted = halted
    BY WorldFields
  <2> HIDE DEF w
  <2>3. <<"walk", NoEvent>> \notin waiting
    BY DEF IInv, Numbered
  <2>4. eventWalk # NoEvent => <<"walk", eventWalk>> \in Events \/ dropped
    BY <2>1, <2>2 DEF Sound, Led, Events
  <2>5. /\ steps > 0 /\ speed = "above" => eventWalk # NoEvent \/ halted = "yes"
        /\ walkTask # "none" => eventWalk # NoEvent \/ halted # "no" \/ ~NoWalkQueued(queue)
    BY <2>1, <2>2, <2>3 DEF Sound, Going, Walks
  <2> QED
    BY <2>4, <2>5 DEF WalkGoesOn
<1> QED
  BY <1>1, Invariant, PTL

\* At any time at most one action for later and one for the end of a walk wait in the
\* scheduler, and both can be taken back.
THEOREM PlayerDelaysOneAction == Spec => []OneDelayedAction
<1>1. IInv => OneDelayedAction
  <2> SUFFICES ASSUME IInv
               PROVE  OneDelayedAction
    OBVIOUS
  <2>1. Known(World(NoEvent))
    BY DEF IInv, Ids, Sound, Core
  <2> QED
    BY <2>1, WorldFields DEF Known, OneDelayedAction
<1> QED
  BY <1>1, Invariant, PTL

\* A player who asks to stop takes one more step at most, also when the walk event
\* could not be taken back or other events of his come in between.
THEOREM PlayerStopsWhenAsked == Spec => []StopHonoured
<1>1. IInv => StopHonoured
  <2> SUFFICES ASSUME IInv
               PROVE  StopHonoured
    OBVIOUS
  <2>1. Stops(World(NoEvent))
    BY DEF IInv, Ids, Sound
  <2> QED
    BY <2>1, WorldFields DEF Stops, StopHonoured
<1> QED
  BY <1>1, Invariant, PTL
=============================================================================
