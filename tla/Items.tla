------------------------------- MODULE Items -------------------------------
(***************************************************************************)
(* Items that a player wears, that decay and that turn into other kinds    *)
(* (game.cpp transformItem, startDecay, checkDecay; movement.cpp EquipItem *)
(* and DeEquipItem; item.cpp setID).                                       *)
(*                                                                         *)
(* A ring is another kind while it is worn, decays only then, and gives    *)
(* its wearer what its kind says; it may be moved, exchanged, worn out,    *)
(* transformed by a script or destroyed at any time.  The functions of the *)
(* code call each other through the notifications of the place an item is  *)
(* in, so each is an operator from one state, a record, to the next. Times *)
(* are whole seconds, as decayTime is; one second is a round of the lists. *)
(***************************************************************************)
EXTENDS Integers, Sequences, SequencesExt, FiniteSets, FiniteSetsExt, Functions

CONSTANTS
    Objects,     \* the addresses of item objects
    WornSlots,   \* of the player's inventory
    Kinds, Info, \* the types of items and what items.xml and the scripts say of each
    LastBucket,  \* EVENT_DECAY_BUCKETS - 1
    LastLevel    \* the bound of the player's level

Floor == "floor"       \* a tile or a container: nobody is told of its items
Gone == "gone"         \* no parent
Never == "never"       \* decayTo of a kind that does not decay
Nothing == "nothing"   \* decayTo of a kind that disappears
NoKind == "no kind"
NoItem == 0
NoTime == -1           \* no attribute of a duration
Levels == 1..LastLevel
Buckets == 0..LastBucket

\* made: what CreateItem makes when asked for the kind, which for most rings is the one
\* that is not worn.  turns: what scripts make of a kind.  What decays is only turned
\* into kinds that stop the decay: after a change to another kind that decays, setID and
\* startDecay list the item a second time.  share: statsPercent of getDefaultStats, what
\* the player has without items and conditions, at each level.  suppress:
\* conditionSuppressions.
KindInfo ==
    [type : STRING, time : Nat, stop : BOOLEAN, charges : Nat,
     made : Kinds, decayTo : Kinds \cup {Never, Nothing}, equipTo : Kinds \cup {NoKind},
     deEquipTo : Kinds \cup {NoKind}, turns : SUBSET Kinds,
     bonus : Int, share : [Levels -> Int], aura : BOOLEAN, suppress : SUBSET STRING,
     level : Nat, fits : SUBSET WornSlots, weapon : BOOLEAN]

ASSUME ItemsConstants ==
    /\ Objects \subseteq Nat \ {NoItem} /\ WornSlots \cap {Floor, Gone} = {}
    /\ LastBucket \in Nat \ {0} /\ LastLevel \in Nat \ {0}
    /\ DOMAIN Info = Kinds /\ \A k \in Kinds : Info[k] \in KindInfo
    /\ \A k \in Kinds : Info[k].time > 0 => \A t \in Info[k].turns : Info[t].stop

VARIABLES
    items,      \* everything about items and the player, a record (see ItemsInit)
    savedItems  \* what a player who is offline wore at his logout, by slots
itemsVars == <<items, savedItems>>

Fresh(k) ==
    LET made == Info[k].made
    IN [kind |-> made, decaying |-> FALSE, charges |-> Info[made].charges,
        duration |-> IF Info[made].time > 0 THEN Info[made].time ELSE NoTime]
Blank == [kind |-> NoKind, duration |-> NoTime, decaying |-> FALSE, charges |-> 0]

\* The player without items.  Two fields are histories: what shares grew by while
\* they were worn, and the suppressions that were given to him when he had them.
Bare(level) ==
    [level   |-> level,
     bonus   |-> 0,     \* varStats, varSkills, varSpeed
     auras   |-> {},    \* conditions, their id is the slot
     immune  |-> {},    \* conditionSuppressions
     drift   |-> 0,
     doubled |-> {}]

ItemsInit ==
    /\ items = [life      |-> [o \in Objects |-> Blank],
                place     |-> [o \in Objects |-> Gone],
                useCount  |-> [o \in Objects |-> 0],
                toRelease |-> [o \in Objects |-> 0],     \* ToReleaseThings
                toDecay   |-> <<>>,                      \* toDecayItems
                buckets   |-> [b \in Buckets |-> <<>>],  \* decayItems
                last      |-> 0,                         \* lastBucket
                enabled   |-> [s \in WornSlots |-> FALSE],  \* inventoryAbilities
                wearer    |-> Bare(1),
                online    |-> TRUE,
                made      |-> NoItem]                    \* what the last call returned
    /\ savedItems = <<>>
----------------------------------------------------------------------------
KindOf(st, o) == Info[st.life[o].kind]
Spare(st) == {o \in Objects : st.useCount[o] = 0}
InPlace(st) == {o \in Objects : st.place[o] # Gone}
WornAt(st, s) == {o \in Objects : st.place[o] = s}
FreeThing(st, o) == [st EXCEPT !.toRelease[o] = @ + 1]
Returning(st, o) == [st EXCEPT !.made = o]

\* releaseThing2: an object nobody uses is deleted.
Uses(st, count) ==
    [st EXCEPT !.useCount = count,
               !.life = [o \in Objects |-> IF count[o] = 0 THEN Blank ELSE @[o]]]

CanDecay(st, o) ==
    /\ st.place[o] # Gone
    /\ KindOf(st, o).decayTo # Never /\ KindOf(st, o).time > 0

\* Item::setID: a kind that stops decay keeps the rest of the duration, and the
\* next kind goes on with it.  The mutant winds up every kind that decays.
RenewedAlways(st, o, k) == Info[k].time > 0
Renewed(st, o, k) ==
    Info[k].time > 0 /\ (~KindOf(st, o).stop \/ st.life[o].duration = NoTime)
SetID(st, o, k) ==
    LET timeless == Info[k].time = 0 /\ ~Info[k].stop /\ Info[k].decayTo = Never
    IN [st EXCEPT !.life[o] =
            [@ EXCEPT !.kind = k,
                      !.duration = IF Renewed(st, o, k) THEN Info[k].time
                                   ELSE IF timeless THEN NoTime ELSE @,
                      !.decaying = @ /\ ~Renewed(st, o, k) /\ ~timeless]]

\* What the player w gets from an item of the kind with info i that he wears in slot s,
\* and what he loses with it: shares are of what he has now, and suppressions bits of
\* one mask for all slots.
Gains(w, i, s) == [w EXCEPT !.bonus = @ + i.bonus + i.share[w.level],
                            !.auras = IF i.aura THEN @ \cup {s} ELSE @,
                            !.immune = @ \cup i.suppress,
                            !.doubled = @ \cup (i.suppress \cap w.immune)]
Loses(w, i, s) == [w EXCEPT !.bonus = @ - i.bonus - i.share[w.level],
                            !.auras = IF i.aura THEN @ \ {s} ELSE @,
                            !.immune = @ \ i.suppress]
Gives(st, k, s) == [st EXCEPT !.wearer = Gains(@, Info[k], s)]
Takes(st, k, s) == [st EXCEPT !.wearer = Loses(@, Info[k], s)]

RECURSIVE TransformItem(_, _, _), EquipItem(_, _, _), DeEquipItem(_, _, _, _),
          StartDecay(_)

\* The player is told that an item came to a slot or left it.
PostAdd(st, o, at) == IF at \in WornSlots THEN EquipItem(st, o, at) ELSE st
PostRemove(st, o, at, complete) ==
    IF at \in WornSlots THEN DeEquipItem(st, o, at, complete) ELSE st

RemoveItem(st, o) ==
    PostRemove(FreeThing([st EXCEPT !.place[o] = Gone], o), o, st.place[o], TRUE)

Allocated(st, k, at, new) ==
    [st EXCEPT !.life[new] = Fresh(k), !.useCount[new] = 1, !.place[new] = at]

\* An item of another type is another object: it is in its place, and the player
\* told of it, before he is told that the old one has left.
Replace(st, o, k) ==
    LET new == Min(Spare(st))
        at == st.place[o]
        put == Allocated([st EXCEPT !.place[o] = Gone], k, at, new)
    IN Returning(FreeThing(PostRemove(PostAdd(put, new, at), o, at, TRUE), o), new)

\* An item of the same type is told to have left, changed, and told to have come.
Update(st, o, change(_)) ==
    LET at == st.place[o]
    IN Returning(PostAdd(change(PostRemove(st, o, at, FALSE)), o, at), o)

TransformItem(st, o, k) ==
    IF st.life[o].kind = k THEN Returning(st, o)
    ELSE IF st.place[o] = Gone THEN Returning(st, NoItem)
    ELSE IF KindOf(st, o).type # Info[k].type THEN Replace(st, o, k)
    ELSE Update(st, o, LAMBDA told : SetID(told, o, k))

InternalDecay(st, o) ==
    IF KindOf(st, o).decayTo = Nothing THEN RemoveItem(st, o)
    ELSE StartDecay(TransformItem(st, o, KindOf(st, o).decayTo))

\* Of what the last call returned.
StartDecay(st) ==
    LET o == st.made
    IN IF o = NoItem THEN st
       ELSE IF ~CanDecay(st, o) \/ st.life[o].decaying THEN st
       ELSE IF st.life[o].duration > 0
            THEN [st EXCEPT !.useCount[o] = @ + 1, !.life[o].decaying = TRUE,
                            !.toDecay = Append(@, o)]
            ELSE InternalDecay(st, o)

MayWear(st, o) == st.wearer.level >= KindOf(st, o).level

EquipItem(st, o, s) ==
    LET k == st.life[o].kind
        on == IF Info[k].equipTo # NoKind
              THEN StartDecay(TransformItem(st, o, Info[k].equipTo))
              ELSE [st EXCEPT !.enabled[s] = TRUE]
    IN IF s \notin Info[k].fits \/ st.enabled[s] \/ ~MayWear(st, o) THEN st
       ELSE Gives(on, k, s)

\* isRemoval is said of every item that left the slot, and not of one that changes.
\* The mutant forgets that the abilities of the slot are off.
AbilityKept(st, s) == st
AbilityOff(st, s) == [st EXCEPT !.enabled[s] = FALSE]
DeEquipItem(st, o, s, complete) ==
    LET k == st.life[o].kind
        off == AbilityOff(st, s)
        turned == IF complete /\ Info[k].deEquipTo # NoKind
                  THEN StartDecay(Returning(TransformItem(off, o, Info[k].deEquipTo), o))
                  ELSE off
    IN IF s \notin Info[k].fits \/ ~st.enabled[s] THEN st ELSE Takes(turned, k, s)

\* Game::cleanup gives back references, then files the items that began to decay.
Filed(st, o) ==
    LET wait == IF st.life[o].duration > 0 THEN 0 ELSE 1
    IN [st EXCEPT !.buckets[(st.last + wait) % (LastBucket + 1)] = Append(@, o)]
CleanedItems(st) ==
    LET released == Uses([st EXCEPT !.toRelease = [o \in Objects |-> 0]],
                         [o \in Objects |-> st.useCount[o] - st.toRelease[o]])
    IN [FoldLeft(Filed, released, st.toDecay) EXCEPT !.toDecay = <<>>]
----------------------------------------------------------------------------
\* A bound: as many addresses are free as one step may need.
Room(n) == Cardinality(Spare(items)) >=
               n + Cardinality({o \in InPlace(items) :
                       LET to == KindOf(items, o).decayTo
                       IN to \in Kinds /\ KindOf(items, o).type # Info[to].type})

\* What one call of the program leaves behind.
Becomes(st) == items' = [st EXCEPT !.made = NoItem]

CreateItem(k) ==
    /\ Room(2)
    /\ LET new == Min(Spare(items))
       IN Becomes(StartDecay(Returning(Allocated(items, k, Floor, new), new)))
    /\ UNCHANGED savedItems

ScriptTransforms(o, k) ==
    /\ o \in InPlace(items) /\ k \in KindOf(items, o).turns
    /\ Room(1)
    /\ Becomes(StartDecay(TransformItem(items, o, k)))
    /\ UNCHANGED savedItems

DestroyItem(o) ==
    /\ o \in InPlace(items)
    /\ Becomes(RemoveItem(items, o))
    /\ UNCHANGED savedItems

\* Player::__queryAdd refuses what must not be worn, unless the abilities of the
\* slot are on.
QueryAdd(st, o, s) == s = Floor \/ st.enabled[s] \/ MayWear(st, o)

\* The part of internalMoveItem after the queries.
Arrived(st, o, to) == PostAdd(st, o, IF st.place[o] = to THEN to ELSE Floor)
MovedItem(st, o, to) ==
    Arrived(PostRemove([st EXCEPT !.place[o] = to], o, st.place[o], TRUE), o, to)

MovedIfFit(st, o, to) == IF QueryAdd(st, o, to) THEN MovedItem(st, o, to) ELSE st

\* What is in the way changes places with an item that was not worn, before it is
\* known whether that may be worn.
MoveItem(o, to) ==
    LET inTheWay == IF to = Floor THEN {} ELSE WornAt(items, to)
        first == FoldSet(LAMBDA x, st : MovedItem(st, x, Floor), items, inTheWay)
    IN /\ items.online /\ o \in InPlace(items) /\ items.place[o] # to
       /\ to \in WornSlots => to \in KindOf(items, o).fits
       /\ inTheWay = {} \/ items.place[o] = Floor
       /\ Room(1)
       /\ Becomes(MovedIfFit(first, o, to))
       /\ UNCHANGED savedItems

\* A hit that an item protects from, and a blow with a weapon, use up a charge; with
\* the last one the item turns into what is left of it, if anything.
UseCharge(o) ==
    LET decayTo == KindOf(items, o).decayTo
        used(st) == SetID([st EXCEPT !.life[o].charges = @ - 1], o, st.life[o].kind)
    IN /\ items.online /\ items.place[o] \in WornSlots /\ items.life[o].charges > 0
       /\ items.enabled[items.place[o]] \/ KindOf(items, o).weapon
       /\ Room(1)
       /\ Becomes(IF items.life[o].charges > 1 THEN Update(items, o, used)
                  ELSE IF decayTo = Never THEN RemoveItem(items, o)
                  ELSE IF decayTo = Nothing THEN items    \* there is no item of id 0
                  ELSE Replace(items, o, decayTo))
       /\ UNCHANGED savedItems

\* One entry of the list: an item that does not decay any more leaves it, one whose
\* time is over turns into what is left of it, the others stay.  The mutant keeps the
\* reference of an item that is taken from the list early.
DecayedLeaked(st, o) ==
    LET older == [st EXCEPT !.life[o].duration = Max({0, @ - 1})]
    IN IF ~CanDecay(st, o) THEN [st EXCEPT !.life[o].decaying = FALSE]
       ELSE IF older.life[o].duration = 0 THEN FreeThing(InternalDecay(older, o), o)
       ELSE [older EXCEPT !.buckets[st.last] = Append(@, o)]
Decayed(st, o) ==
    LET older == [st EXCEPT !.life[o].duration = Max({0, @ - 1})]
    IN IF ~CanDecay(st, o)
       THEN FreeThing([st EXCEPT !.life[o].decaying = FALSE], o)
       ELSE IF older.life[o].duration = 0 THEN FreeThing(InternalDecay(older, o), o)
       ELSE [older EXCEPT !.buckets[st.last] = Append(@, o)]

CheckDecay ==
    LET bucket == (items.last + 1) % (LastBucket + 1)
        begun == [items EXCEPT !.buckets[bucket] = <<>>, !.last = bucket]
    IN /\ Room(0)
       /\ Becomes(CleanedItems(FoldLeft(Decayed, begun, items.buckets[bucket])))
       /\ UNCHANGED savedItems

\* checkCreatures and others clean up, too.
CleanUpItems ==
    /\ Becomes(CleanedItems(items))
    /\ UNCHANGED savedItems

EnabledSlots == {s \in WornSlots : items.enabled[s]}
WornKind(s) == Info[items.life[CHOOSE o \in Objects : items.place[o] = s].kind]
SharesAt(level) == MapThenSumSet(LAMBDA s : WornKind(s).share[level], EnabledSlots)

\* Nothing is done about what is worn.
LevelRises ==
    LET level == items.wearer.level
    IN /\ items.online /\ level < LastLevel
       /\ items' = [items EXCEPT !.wearer.level = level + 1,
                                 !.wearer.drift = @ + SharesAt(level + 1) - SharesAt(level)]
       /\ UNCHANGED savedItems

\* What is worn is written and released with the player, who may have lost levels by
\* dying; the lists of decay still use their items.
LogOutWearing(level) ==
    LET worn == {o \in Objects : items.place[o] \in WornSlots}
    IN /\ items.online /\ level <= items.wearer.level
       /\ savedItems' = [s \in {items.place[o] : o \in worn} |->
                             items.life[CHOOSE o \in worn : items.place[o] = s]]
       /\ items' = Uses([items EXCEPT
                             !.online = FALSE, !.wearer = Bare(level),
                             !.enabled = [s \in WornSlots |-> FALSE],
                             !.place = [o \in Objects |-> IF o \in worn THEN Gone ELSE @[o]]],
                        [o \in Objects |-> items.useCount[o] - IF o \in worn THEN 1 ELSE 0])

\* Loading makes new objects, of whose state of decay only the time is left;
\* onCreatureAppear starts their decay and puts them on.
LogInWearing(new) ==
    LET back == DOMAIN savedItems
        slotOf == [o \in Range(new) |-> CHOOSE s \in back : new[s] = o]
        loaded == [items EXCEPT
            !.online = TRUE,
            !.life = [o \in Objects |-> IF o \in Range(new)
                          THEN [savedItems[slotOf[o]] EXCEPT !.kind = Info[@].made,
                                                        !.decaying = FALSE]
                          ELSE @[o]],
            !.place = [o \in Objects |-> IF o \in Range(new) THEN slotOf[o] ELSE @[o]],
            !.useCount = [o \in Objects |-> IF o \in Range(new) THEN 1 ELSE @[o]]]
    IN /\ ~items.online
       /\ Becomes(FoldSet(LAMBDA s, st : EquipItem(StartDecay(Returning(st, new[s])), new[s], s),
                          loaded, back))
       /\ savedItems' = <<>>

ItemsNext ==
    \/ \E k \in Kinds : CreateItem(k)
    \/ \E o \in Objects, k \in Kinds : ScriptTransforms(o, k)
    \/ \E o \in Objects : DestroyItem(o)
    \/ \E o \in Objects, to \in WornSlots \cup {Floor} : MoveItem(o, to)
    \/ \E o \in Objects : UseCharge(o)
    \/ CheckDecay
    \/ CleanUpItems
    \/ LevelRises
    \/ \E level \in Levels : LogOutWearing(level)
    \/ \E new \in Injection(DOMAIN savedItems, Spare(items)) : LogInWearing(new)

ItemsSpec == ItemsInit /\ [][ItemsNext]_itemsVars
----------------------------------------------------------------------------
EntriesOf(o) ==
    Cardinality({i \in DOMAIN items.toDecay : items.toDecay[i] = o})
    + MapThenSumSet(LAMBDA b : Cardinality({i \in DOMAIN items.buckets[b] :
                                                items.buckets[b][i] = o}), Buckets)

\* Every reference to an item is counted once and given back once: an item is never
\* deleted while a place, a list of decaying items or the list of things to release
\* refers to it, and never kept without any of them, although it may leave its place
\* while it is in a list and be replaced by another one in the middle of a check
\* (game.cpp checkDecay, transformItem, internalRemoveItem).
ItemsCounted ==
    \A o \in Objects : items.useCount[o] =
        (IF items.place[o] = Gone THEN 0 ELSE 1) + items.toRelease[o] + EntriesOf(o)

\* The player has what the items give that he wears and whose abilities are on, no
\* more and no less, and the abilities of an empty slot are off, whatever turned into
\* what while it was worn (movement.cpp EquipItem, DeEquipItem).  Two things are
\* excepted: what a share grew by while it was worn, which is taken back all the same, and
\* suppressions that two items gave at a time, which the first to leave takes with it.
AbilitiesExact ==
    LET w == items.wearer
        given == UNION {WornKind(s).suppress : s \in EnabledSlots}
    IN /\ \A s \in EnabledSlots : Cardinality(WornAt(items, s)) = 1
       /\ w.bonus = MapThenSumSet(LAMBDA s : WornKind(s).bonus, EnabledSlots)
                           + SharesAt(w.level) - w.drift
       /\ w.auras = {s \in EnabledSlots : WornKind(s).aura}
       /\ w.immune \subseteq given /\ given \ w.immune \subseteq w.doubled

\* An item whose time is running is in exactly one list, once: it neither stays for
\* ever nor decays at twice the speed, also when it is taken off and put on again
\* while its entry is in the list (game.cpp startDecay, checkDecay; item.cpp setID).
DecayGoesOn ==
    \A o \in Objects : CanDecay(items, o)
                          => EntriesOf(o) = 1 /\ items.life[o].decaying
============================================================================
