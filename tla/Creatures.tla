----------------------------- MODULE Creatures -----------------------------
(***************************************************************************)
(* The life of creatures (game.cpp, creature.cpp, monster.cpp): how they   *)
(* come onto the map and leave it, who refers to whom by a counted         *)
(* reference or by a plain pointer, and which creatures the server lets    *)
(* think. A callback of the code is an operator from one world, a record   *)
(* of all variables, to the next; `order' is the order in which the        *)
(* creatures around a place are told, which depends on the map. Places are *)
(* points of a line, and creatures see each other up to View. Floors,      *)
(* conditions, invisibility and zones are left out, monsters are hostile.  *)
(***************************************************************************)
EXTENDS Integers, FiniteSets, FiniteSetsExt, SequencesExt

CONSTANTS
    Adventurers,    \* players
    Monsters,
    Nobody,
    Places, View

ASSUME CreaturesConstants ==
    /\ Adventurers \cap Monsters = {}
    /\ Nobody \notin Adventurers \cup Monsters
    /\ Places \subseteq Int
    /\ View \in Nat
    /\ IsFiniteSet(Adventurers) /\ IsFiniteSet(Monsters)

VARIABLES
    status,     \* none (not constructed, or deleted), placed, removed
    place, alive,
    uses,       \* useCount
    releases,   \* how often each is in ToReleaseThings
    check,      \* creatureCheck
    listed,     \* who is in toAddCheckCreatureVector or a checkCreatureVector
    master, summons,
    attacked, followed,
    targets, friends,   \* of a monster, with references
    idle, inRange,      \* isIdle, isMasterInRange
    round,      \* whom checkCreatures has yet to look at
    overlooked  \* history: whom a monster that was sent home does not notice

creaturesVars == <<status, place, alive, uses, releases, check, listed, master, summons,
                   attacked, followed, targets, friends, idle, inRange, round, overlooked>>

Nowhere == CHOOSE x \in Places : TRUE    \* of whoever does not exist
Creatures == Adventurers \cup Monsters

World == [status |-> status, place |-> place, alive |-> alive, uses |-> uses,
          releases |-> releases, check |-> check, listed |-> listed, master |-> master,
          summons |-> summons, attacked |-> attacked, followed |-> followed,
          targets |-> targets, friends |-> friends, idle |-> idle, inRange |-> inRange,
          overlooked |-> overlooked]

Near(x, y) == x - y \in -View .. View
CanSee(w, c, d) == Near(w.place[c], w.place[d])
Present(w, c) == w.status[c] = "placed"
Spectators(w, x) == {c \in Creatures : Present(w, c) /\ Near(w.place[c], x)}

\* What becomes of a world when those of order who are in S are told in turn.
Told(Op(_, _), w, S, order) ==
    LET after[k \in 0 .. Len(order)] ==
            IF k = 0 THEN w
            ELSE IF order[k] \in S THEN Op(after[k - 1], order[k])
            ELSE after[k - 1]
    IN after[Len(order)]

OrdersOf == [S \in SUBSET Creatures |-> SetToSeqs(S)]

\* In which order those are told who are around c, its summons or a place of X.
Orders(c, X) ==
    LET around == X \cup {place[s] : s \in summons[c] \cup {c}}
    IN OrdersOf[{c} \cup {d \in Creatures : /\ status[d] = "placed"
                                            /\ \E x \in around : Near(place[d], x)}]

IsSummon(w, m) == w.master[m] # Nobody
----------------------------------------------------------------------------
(***************************************************************************)
(* References. An object whose last use is released is deleted and gives   *)
(* up its own: that may go on.                                             *)
(***************************************************************************)
Used(w, c) == [w EXCEPT !.uses[c] = @ + 1]
ReleasedAll(w, S) ==
    [w EXCEPT !.uses = [c \in Creatures |-> IF c \in S THEN @[c] - 1 ELSE @[c]]]

\* The destructors: the summons lose their master, what a monster knows is forgotten,
\* and the object may be made anew.
Orphaned(w, c, S) ==
    [w EXCEPT !.summons[c] = {},
              !.attacked = [d \in Creatures |-> IF d \in S \cup {c} THEN Nobody ELSE @[d]],
              !.master = [d \in Creatures |-> IF d \in S \cup {c} THEN Nobody ELSE @[d]]]
Forgetful(w, c) ==
    [w EXCEPT !.targets[c] = {}, !.friends[c] = {}, !.overlooked[c] = {}]
Anew(w, c) ==
    [w EXCEPT !.status[c] = "none", !.place[c] = Nowhere, !.alive[c] = TRUE,
              !.idle[c] = TRUE, !.inRange[c] = FALSE, !.followed[c] = Nobody]
Deleted(w, c) ==
    LET orphans == w.summons[c]
        v == ReleasedAll(ReleasedAll(ReleasedAll(w, orphans), w.targets[c]), w.friends[c])
    IN Anew(Forgetful(Orphaned(v, c, orphans), c), c)

\* One object that nobody uses is deleted.
OneDeleted(w) ==
    LET dead == {c \in Creatures : w.status[c] # "none" /\ w.uses[c] = 0}
    IN IF dead = {} THEN w ELSE Deleted(w, CHOOSE c \in dead : TRUE)

Collected(w) ==
    LET after[n \in 0 .. Cardinality(Creatures)] ==
            IF n = 0 THEN w ELSE OneDeleted(after[n - 1])
    IN after[Cardinality(Creatures)]

Become(w) ==
    LET v == Collected(w)
    IN /\ status' = v.status /\ place' = v.place /\ alive' = v.alive
       /\ uses' = v.uses /\ releases' = v.releases
       /\ check' = v.check /\ listed' = v.listed
       /\ master' = v.master /\ summons' = v.summons
       /\ attacked' = v.attacked /\ followed' = v.followed
       /\ targets' = v.targets /\ friends' = v.friends
       /\ idle' = v.idle /\ inRange' = v.inRange
       /\ overlooked' = v.overlooked
----------------------------------------------------------------------------
(***************************************************************************)
(* Whom the server lets think.                                             *)
(***************************************************************************)
AddCreatureCheck(w, c) ==
    IF w.status[c] = "removed" THEN w
    ELSE IF w.listed[c] THEN [w EXCEPT !.check[c] = TRUE]
    ELSE Used([w EXCEPT !.check[c] = TRUE, !.listed[c] = TRUE], c)

RemoveCreatureCheck(w, c) ==
    IF w.listed[c] THEN [w EXCEPT !.check[c] = FALSE] ELSE w

ListsCleared(w, m) ==
    [ReleasedAll(ReleasedAll(w, w.targets[m]), w.friends[m])
        EXCEPT !.targets[m] = {}, !.friends[m] = {}]

SetIdle(w, m, asleep) ==
    IF w.status[m] = "removed" \/ ~w.alive[m] THEN w
    ELSE IF asleep THEN RemoveCreatureCheck(ListsCleared([w EXCEPT !.idle[m] = TRUE], m), m)
    ELSE AddCreatureCheck([w EXCEPT !.idle[m] = FALSE], m)

UpdateIdleStatus(w, m) ==
    SetIdle(w, m,
        IF IsSummon(w, m)
        THEN ~w.inRange[m] \/ (w.master[m] \in Monsters /\ w.idle[w.master[m]])
        ELSE w.targets[m] = {})
----------------------------------------------------------------------------
(***************************************************************************)
(* Pointers to others.                                                     *)
(***************************************************************************)
SetFollowCreature(w, c, t) ==
    IF t = Nobody \/ w.followed[c] = t THEN [w EXCEPT !.followed[c] = t]
    ELSE IF CanSee(w, c, t) THEN [w EXCEPT !.followed[c] = t]
    ELSE [w EXCEPT !.followed[c] = Nobody,
                   !.attacked[c] = IF c \in Adventurers THEN Nobody ELSE @]

\* The summons attack with their master.
SetAttackedCreature(w, c, t) ==
    LET Sees(d) == t = Nobody \/ CanSee(w, d, t)
        v == [w EXCEPT !.attacked =
                 [d \in Creatures |->
                     IF d = c \/ (d \in w.summons[c] /\ Sees(c))
                     THEN (IF Sees(d) THEN t ELSE Nobody)
                     ELSE @[d]]]
    IN IF c \in Adventurers /\ t = Nobody THEN SetFollowCreature(v, c, Nobody) ELSE v

\* Creature::onCreatureDisappear(creature, isLogout): c no longer sees t.
Lost(w, c, t) ==
    LET Unfollowed(v) == IF v.followed[c] = t THEN SetFollowCreature(v, c, Nobody) ELSE v
    IN Unfollowed(IF w.attacked[c] = t THEN SetAttackedCreature(w, c, Nobody) ELSE w)

AddSummon(w, c, s) == Used([w EXCEPT !.master[s] = c, !.summons[c] = @ \cup {s}], s)

RemoveSummon(w, c, s) ==
    IF s \notin w.summons[c] THEN w
    ELSE ReleasedAll([w EXCEPT !.master[s] = Nobody, !.summons[c] = @ \ {s}], {s})

\* Mutant of HealthLost: a monster is not woken up to die.
DiesAsleep(w, c, dies) == [w EXCEPT !.alive[c] = ~dies]

HealthLost(w, c, dies) ==
    [IF c \in Monsters THEN SetIdle(w, c, FALSE) ELSE w EXCEPT !.alive[c] = ~dies]

\* A monster that dies or is convinced kills its summons.
SummonsKilled(w, m) ==
    LET Kill(v, s) == RemoveSummon(HealthLost(v, s, TRUE), m, s)
    IN Told(Kill, w, w.summons[m], SetToSeq(w.summons[m]))
----------------------------------------------------------------------------
(***************************************************************************)
(* What a monster knows of others.                                         *)
(***************************************************************************)
IsFriend(w, m, c) ==
    IF w.master[m] \in Adventurers
    THEN w.master[m] \in {c, w.master[c]}
    ELSE c \in Monsters /\ ~IsSummon(w, c)

IsOpponent(w, m, c) ==
    IF w.master[m] \in Adventurers THEN c # w.master[m]
    ELSE c \in Adventurers \/ w.master[c] \in Adventurers

FriendFound(w, m, c) ==
    IF IsFriend(w, m, c) /\ c \notin w.friends[m]
    THEN Used([w EXCEPT !.friends[m] = @ \cup {c}], c) ELSE w

OpponentFound(w, m, c) ==
    IF IsOpponent(w, m, c) /\ c \notin w.targets[m]
    THEN Used([w EXCEPT !.targets[m] = @ \cup {c}], c) ELSE w

OnCreatureFound(w, m, c) ==
    UpdateIdleStatus(OpponentFound(FriendFound(w, m, c), m, c), m)

\* Mutant of UpdateTargetList: a list that is not empty is not added to.
UpdateEmptyList(w, m, order) ==
    LET Find(v, c) == IF c = m \/ v.targets[m] # {} THEN v ELSE OnCreatureFound(v, m, c)
    IN Told(Find, w, Spectators(w, w.place[m]), order)

UpdateTargetList(w, m, order) ==
    LET Gone(S) == {c \in S : ~w.alive[c] \/ ~CanSee(w, m, c)}
        Find(v, c) == IF c = m THEN v ELSE OnCreatureFound(v, m, c)
    IN Told(Find,
            [ReleasedAll(ReleasedAll(w, Gone(w.friends[m])), Gone(w.targets[m]))
                EXCEPT !.friends[m] = @ \ Gone(@), !.targets[m] = @ \ Gone(@),
                       !.overlooked[m] = {}],
            Spectators(w, w.place[m]), order)

MasterSeen(w, m, c, sees) ==
    IF w.master[m] = c THEN UpdateIdleStatus([w EXCEPT !.inRange[m] = sees], m) ELSE w

OnCreatureEnter(w, m, c) ==
    OnCreatureFound(MasterSeen(w, m, c, TRUE), m, c)

\* Mutant of OnCreatureLeave: the list forgets, the reference stays.
LeaveUnreleased(w, m, c) ==
    [w EXCEPT !.friends[m] = @ \ {c}, !.targets[m] = @ \ {c}, !.overlooked[m] = @ \ {c}]

FriendLeft(w, m, c) ==
    IF IsFriend(w, m, c) /\ c \in w.friends[m]
    THEN ReleasedAll([w EXCEPT !.friends[m] = @ \ {c}], {c}) ELSE w

OpponentLeft(w, m, c) ==
    LET Rest(v) == IF v.targets[m] = {} THEN UpdateIdleStatus(v, m) ELSE v
    IN IF IsOpponent(w, m, c) /\ c \in w.targets[m]
       THEN Rest(ReleasedAll([w EXCEPT !.targets[m] = @ \ {c}], {c})) ELSE w

OnCreatureLeave(w, m, c) ==
    [OpponentLeft(FriendLeft(MasterSeen(w, m, c, FALSE), m, c), m, c)
        EXCEPT !.overlooked[m] = @ \ {c}]

SelectTarget(w, m, t) ==
    IF ~Present(w, t) \/ t \notin w.targets[m] THEN w
    ELSE SetFollowCreature(SetAttackedCreature(w, m, t), m, t)
----------------------------------------------------------------------------
(***************************************************************************)
(* The map tells everybody around.                                         *)
(***************************************************************************)
\* A monster looks around at the place where it came.
LooksAround(w, m, order) ==
    UpdateIdleStatus(
        UpdateTargetList(
            IF IsSummon(w, m) THEN [w EXCEPT !.inRange[m] = CanSee(w, m, w.master[m])] ELSE w,
            m, order), m)

\* Game::placeCreature of a new object.
Placed(w, c, x, order) ==
    LET Appear(u, s) == IF s \notin Monsters THEN u
                        ELSE IF s = c THEN LooksAround(u, s, order)
                        ELSE OnCreatureEnter(u, s, c)
        Arrived(v) == Told(Appear, v, Spectators(v, x), order)
    IN AddCreatureCheck(Arrived(Used([w EXCEPT !.status[c] = "placed", !.place[c] = x], c)), c)

\* A removed creature leaves its master when that is not removed itself.
LeavesMaster(w, c) ==
    LET mine == w.master[c]
    IN IF mine # Nobody /\ w.status[mine] # "removed" THEN RemoveSummon(w, mine, c) ELSE w

\* Game::removeCreature without the summons.
Left(w, c, order) ==
    LET Disappear(v, s) ==
            CASE s = c /\ s \in Monsters    -> SetIdle(LeavesMaster(Lost(v, s, c), c), c, TRUE)
              [] s = c /\ s \notin Monsters -> LeavesMaster(Lost(v, s, c), c)
              [] s # c /\ s \in Monsters    -> OnCreatureLeave(Lost(v, s, c), s, c)
              [] s # c /\ s \notin Monsters -> Lost(v, s, c)
    IN RemoveCreatureCheck(
           [Told(Disappear, w, Spectators(w, w.place[c]), order)
               EXCEPT !.status[c] = "removed", !.releases[c] = @ + 1], c)

Removed(w, c, order) ==
    LET Follow(v, s) == IF Present(v, s) THEN Left(v, s, order) ELSE v
    IN Told(Follow, Left(w, c, order), w.summons[c], order)

\* Creature::onDeath with Monster::death and dropCorpse.
Died(w, c, order) ==
    LET Unmastered(u) == IF u.master[c] = Nobody THEN u ELSE RemoveSummon(u, u.master[c], c)
    IN Unmastered(Removed(
           IF c \in Monsters
           THEN ListsCleared(SummonsKilled(SetAttackedCreature(w, c, Nobody), c), c)
           ELSE w, c, order))

LostIfUnseen(w, s, t) == IF t # Nobody /\ ~CanSee(w, s, t) THEN Lost(w, s, t) ELSE w

\* Mutant of Noticed: who moves does not look for its own target.
NoticedOfOthers(w, s, c) ==
    LET Attacked(v) == IF c = v.attacked[s] /\ s # c THEN LostIfUnseen(v, s, v.attacked[s]) ELSE v
    IN Attacked(IF c = w.followed[s] /\ s # c THEN LostIfUnseen(w, s, w.followed[s]) ELSE w)

\* Creature::onCreatureMove: s sees c move, who may be s itself.
Noticed(w, s, c) ==
    LET Attacked(v) == IF c \in {s, v.attacked[s]} THEN LostIfUnseen(v, s, v.attacked[s]) ELSE v
    IN Attacked(IF c \in {s, w.followed[s]} THEN LostIfUnseen(w, s, w.followed[s]) ELSE w)

\* Monster::onCreatureMove: c came into the view of m, or left it.
SeenMoving(w, m, c, sees, saw) ==
    CASE sees /\ ~saw -> OnCreatureEnter(w, m, c)
      [] ~sees /\ saw -> OnCreatureLeave(w, m, c)
      [] OTHER        -> w

Chased(w, m, c) ==
    IF w.followed[m] = Nobody /\ ~IsSummon(w, m) /\ IsOpponent(w, m, c)
    THEN SelectTarget(w, m, c) ELSE w

Watched(w, m, c, sees, saw) ==
    LET Ranged(v) == IF sees /\ v.master[m] = c THEN [v EXCEPT !.inRange[m] = TRUE] ELSE v
    IN Chased(UpdateIdleStatus(Ranged(SeenMoving(w, m, c, sees, saw)), m), m, c)

\* Summons that are too far away from their master are removed.
FarRemoved(w, far, order) ==
    LET Drop(v, s) == IF Present(v, s) THEN Removed(v, s, order) ELSE v
    IN Told(Drop, w, far, order)

\* A step or a teleport.
Moved(w, c, x, far, order) ==
    LET from == w.place[c]
        Around == Spectators(w, from) \cup Spectators(w, x)
        Tell(u, s) ==
            CASE s = c /\ s \in Monsters    -> LooksAround(Noticed(FarRemoved(u, far, order), s, c),
                                                           s, order)
              [] s = c /\ s \notin Monsters -> Noticed(FarRemoved(u, far, order), s, c)
              [] s # c /\ s \in Monsters    -> Watched(Noticed(u, s, c), s, c, Near(u.place[s], x),
                                                       Near(u.place[s], from))
              [] s # c /\ s \notin Monsters -> Noticed(u, s, c)
    IN Told(Tell, [w EXCEPT !.place[c] = x], Around, order)
----------------------------------------------------------------------------
(***************************************************************************)
(* The server has started: it placed monsters without telling anybody. The *)
(* references of their spawns, given back by these, are not counted here.  *)
(***************************************************************************)
CreaturesInit ==
    \E born \in SUBSET Monsters, x \in [Creatures -> Places] :
        /\ status = [c \in Creatures |-> IF c \in born THEN "placed" ELSE "none"]
        /\ place = [c \in Creatures |-> IF c \in born THEN x[c] ELSE Nowhere]
        /\ uses = [c \in Creatures |-> IF c \in born THEN 1 ELSE 0]
        /\ alive = [c \in Creatures |-> TRUE]
        /\ releases = [c \in Creatures |-> 0]
        /\ check = [c \in Creatures |-> FALSE]
        /\ listed = [c \in Creatures |-> FALSE]
        /\ master = [c \in Creatures |-> Nobody]
        /\ summons = [c \in Creatures |-> {}]
        /\ attacked = [c \in Creatures |-> Nobody]
        /\ followed = [c \in Creatures |-> Nobody]
        /\ targets = [c \in Creatures |-> {}]
        /\ friends = [c \in Creatures |-> {}]
        /\ idle = [c \in Creatures |-> TRUE]
        /\ inRange = [c \in Creatures |-> FALSE]
        /\ overlooked = [c \in Creatures |-> {}]
        /\ round = {}

Between == round = {}

\* A login, or a monster that a script creates.
PlaceCreature(c, x, order) ==
    /\ Between /\ status[c] = "none"
    /\ Become(Placed(World, c, x, order))
    /\ UNCHANGED round

\* A monster summons while it thinks, a player with a spell or a command.
Summon(c, m, x, order) ==
    /\ status[c] = "placed" /\ alive[c] /\ status[m] = "none"
    /\ \/ c \in Adventurers /\ Between
       \/ c \in Monsters /\ ~Between /\ ~IsSummon(World, c)
    /\ Near(place[c], x)
    /\ Become(Placed(AddSummon(World, c, m), m, x, order))
    /\ UNCHANGED round

\* A logout, a kick, a command or a script.
RemoveCreature(c, order) ==
    /\ status[c] = "placed"
    /\ Become(Removed(World, c, order))
    /\ UNCHANGED round

MoveCreature(c, x, far, order) ==
    /\ Between /\ status[c] = "placed" /\ x # place[c]
    /\ \A s \in far : ~Near(x, place[s])
    /\ Become(Moved(World, c, x, far, order))
    /\ UNCHANGED round

\* playerSetAttackedCreature; t is followed when the player chases.
SetTarget(p, t, chases) ==
    /\ Between /\ status[p] = "placed" /\ t # p
    /\ t # Nobody => status[t] = "placed"
    /\ LET w == SetAttackedCreature(World, p, t)
       IN Become(IF t = Nobody \/ ~CanSee(World, p, t) THEN w
                 ELSE SetFollowCreature(w, p, IF chases THEN t ELSE Nobody))
    /\ UNCHANGED round

Hit(c, dies) ==
    /\ status[c] = "placed" /\ alive[c]
    /\ Become(HealthLost(World, c, dies))
    /\ UNCHANGED round

LooksAgain(w, m, order) == UpdateIdleStatus(UpdateTargetList(w, m, order), m)

\* onCreatureConvinced of those around.
AllConvinced(w, p, m, order) ==
    LET Look(q, s) == IF s \in Monsters /\ (IsFriend(q, s, m) \/ IsOpponent(q, s, m))
                      THEN LooksAgain(q, s, order) ELSE q
    IN Told(Look, w, Spectators(w, w.place[m]) \cup Spectators(w, w.place[p]), order)

\* Monster::convinceCreature: m, which p has as a summons now, gives up all others.
Convinced(w, p, m, order) ==
    AllConvinced(
        LooksAgain(
            [SummonsKilled(SetAttackedCreature(SetFollowCreature(w, m, Nobody), m, Nobody), m)
                EXCEPT !.inRange[m] = TRUE], m, order), p, m, order)

Convince(p, m, order) ==
    /\ Between /\ status[p] = "placed" /\ status[m] = "placed" /\ CanSee(World, p, m)
    /\ master[m] \notin Adventurers
    /\ Become(Convinced(AddSummon(IF IsSummon(World, m) THEN RemoveSummon(World, master[m], m)
                                  ELSE World, p, m), p, m, order))
    /\ UNCHANGED round
----------------------------------------------------------------------------
(***************************************************************************)
(* Game::checkCreatures. Which creatures of the list share the vector of   *)
(* this round is chance.                                                   *)
(***************************************************************************)
CheckCreatures(bucket) ==
    /\ Between
    /\ bucket # {} /\ \A c \in bucket : listed[c]
    /\ round' = bucket
    /\ UNCHANGED <<status, place, alive, uses, releases, check, listed, master, summons, attacked,
                   followed, targets, friends, idle, inRange, overlooked>>

\* Game::cleanup.
Cleaned(w) ==
    [w EXCEPT !.uses = [c \in Creatures |-> @[c] - w.releases[c]],
              !.releases = [c \in Creatures |-> 0]]

\* checkCreatures has looked at c with the result w, and cleans up after the last.
Looked(c, w) ==
    /\ c \in round
    /\ round' = round \ {c}
    /\ Become(IF round' = {} THEN Cleaned(w) ELSE w)

\* A monster too far from its spawn is put there and told to sleep.
SentHome(w, m, x, order) ==
    LET Overlooks(v) ==
            [v EXCEPT !.overlooked[m] =
                {c \in Creatures : /\ c # m /\ Present(v, c)
                                   /\ CanSee(v, m, c) /\ IsOpponent(v, m, c)}]
    IN Overlooks(SetIdle(Moved(w, m, x, {}, order), m, TRUE))

Despawn(m, x, order) ==
    /\ check[m] /\ alive[m] /\ ~IsSummon(World, m) /\ x # place[m]
    /\ Looked(m, SentHome(World, m, x, order))

\* A summons attacks whom its master attacks, or follows.
Obeyed(w, m) ==
    LET mine == w.master[m]
    IN IF w.attacked[m] # Nobody
       THEN SetFollowCreature(w, m, IF w.attacked[m] = m THEN Nobody ELSE w.attacked[m])
       ELSE IF w.attacked[mine] = Nobody THEN SetFollowCreature(w, m, mine)
       ELSE SelectTarget(w, m, w.attacked[mine])

\* Monster::onThink: a summons obeys, another one that is awake looks for a
\* target t, unless it is content with the one it has.
Thought(w, m, t) ==
    IF w.idle[m] THEN w
    ELSE IF IsSummon(w, m) THEN Obeyed(w, m)
    ELSE IF t # Nobody THEN SelectTarget(w, m, t)
    ELSE w

Think(m, t) ==
    /\ check[m] /\ alive[m]
    /\ t = Nobody \/ (t \in targets[m] /\ t # followed[m] /\ ~IsSummon(World, m))
    /\ Looked(m, Thought(UpdateIdleStatus(World, m), m, t))

ThinkPlayer(p) == check[p] /\ alive[p] /\ Looked(p, World)

Die(c, order) == check[c] /\ ~alive[c] /\ Looked(c, Died(World, c, order))

Unlist(c) ==
    /\ ~check[c]
    /\ Looked(c, [World EXCEPT !.listed[c] = FALSE, !.releases[c] = @ + 1])

\* Other tasks clean up too.
Cleanup ==
    /\ Between
    /\ Become(Cleaned(World))
    /\ UNCHANGED round
----------------------------------------------------------------------------
CreaturesNext ==
    \/ Cleanup
    \/ \E bucket \in SUBSET Creatures : CheckCreatures(bucket)
    \/ \E p \in Adventurers :
        \/ \E t \in Creatures \cup {Nobody}, chases \in BOOLEAN : SetTarget(p, t, chases)
        \/ ThinkPlayer(p)
    \/ \E m \in Monsters, t \in Creatures \cup {Nobody} : Think(m, t)
    \/ \E c \in Creatures : (\E dies \in BOOLEAN : Hit(c, dies)) \/ Unlist(c)
    \/ \E c \in Creatures :
        \/ \E x \in Places : \E order \in Orders(c, {x}) :
            \/ PlaceCreature(c, x, order)
            \/ \E d \in Creatures : c \in Monsters /\ Summon(d, c, x, order)
            \/ \E far \in SUBSET summons[c] : MoveCreature(c, x, far, order)
            \/ c \in Monsters /\ Despawn(c, x, order)
        \/ \E order \in Orders(c, {}) : RemoveCreature(c, order) \/ Die(c, order)
    \/ \E p \in Adventurers, m \in Monsters : \E order \in Orders(m, Places) : Convince(p, m, order)

CreaturesSpec == CreaturesInit /\ [][CreaturesNext]_creaturesVars
----------------------------------------------------------------------------
Holders(c) ==
    (IF status[c] = "placed" THEN 1 ELSE 0) + (IF listed[c] THEN 1 ELSE 0)
    + Cardinality({d \in Creatures : c \in summons[d]})
    + Cardinality({d \in Creatures : c \in targets[d]})
    + Cardinality({d \in Creatures : c \in friends[d]})

\* Every use of a creature is held by somebody who will release it: the map,
\* a check vector, a master, a monster's list or the list of things to release.
UsesCounted == \A c \in Creatures : uses[c] = Holders(c) + releases[c]

\* Plain pointers lead to what is there: a creature on the map attacks and
\* follows only whom it sees on the map, and a master exists and agrees.
PointersLead ==
    /\ \A c \in Creatures : status[c] = "placed" =>
        \A t \in {attacked[c], followed[c]} \ {Nobody} :
            status[t] = "placed" /\ Near(place[c], place[t])
    /\ \A c, s \in Creatures : master[s] = c <=> s \in summons[c]

\* Whoever has no health left on the map will be looked at and die, even a
\* monster that was asleep or was placed when the server started.
DeathNoticed ==
    \A c \in Creatures : status[c] = "placed" /\ ~alive[c] => check[c] /\ listed[c]

\* A monster without a master knows every opponent that it sees, however they
\* came together, but for those around when it was sent home.
OpponentsKnown ==
    \A m \in Monsters, c \in Creatures :
        /\ status[m] = "placed" /\ alive[m] /\ master[m] = Nobody
        /\ status[c] = "placed" /\ Near(place[m], place[c])
        /\ IsOpponent(World, m, c) /\ c \notin overlooked[m]
        => c \in targets[m] /\ check[m]
=============================================================================
