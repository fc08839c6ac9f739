------------------------------- MODULE Spawns -------------------------------
(***************************************************************************)
(* A spawn (spawn.cpp): some places, its slots, at which monsters appear   *)
(* again after they were killed. checkSpawn is an event that re-arms       *)
(* itself as long as the spawn is short of monsters and is started again   *)
(* when one of them is removed. A monster that left the zone of the spawn  *)
(* is lured: it keeps to the spawn, under number 0, but gives its slot     *)
(* free. Times are left out: whether the interval of a slot has passed     *)
(* since lastSpawn is a state of its own.                                  *)
(***************************************************************************)
EXTENDS Integers, FiniteSets, Functions

CONSTANTS
    Slots,      \* the numbers of the slots, from 1 on
    Beasts,     \* monster objects
    RateSpawn   \* how many monsters one check places

ASSUME SpawnsConstants ==
    /\ Slots \subseteq Nat \ {0} /\ IsFiniteSet(Slots)
    /\ RateSpawn \in Nat \ {0}

VARIABLES
    started,
    spawned,        \* spawnedMap, pairs of a slot, or 0, and a monster
    beast,          \* of a monster: none, inside or outside of the zone, removed
    ripe,           \* slots whose interval has passed since lastSpawn
    checkSpawnEvent,    \* is the event scheduled
    deserted        \* history: a slot was lost without a check

spawnsVars == <<started, spawned, beast, ripe, checkSpawnEvent, deserted>>

Spawned == {entry[2] : entry \in spawned}

SpawnsInit ==
    /\ started = FALSE
    /\ spawned = {}
    /\ beast = [b \in Beasts |-> "none"]
    /\ ripe = Slots
    /\ checkSpawnEvent = FALSE
    /\ deserted = FALSE

\* spawnMonster, or what fails of it, for each slot of the domain of `new'.
Entries(new) == {<<s, new[s]>> : s \in DOMAIN new}
Born(new) == [b \in Beasts |-> IF b \in Range(new) THEN "inside" ELSE beast[b]]
Unborn == {b \in Beasts : beast[b] = "none"}

\* Nothing that does not fit at the start is tried again on its own.
SpawnsStartup(new) ==
    /\ ~started /\ started' = TRUE
    /\ spawned' = Entries(new)
    /\ beast' = Born(new)
    /\ ripe' = Slots \ DOMAIN new
    /\ deserted' = (DOMAIN new # Slots)
    /\ UNCHANGED checkSpawnEvent

IntervalPasses(s) ==
    /\ s \notin ripe
    /\ ripe' = ripe \cup {s}
    /\ UNCHANGED <<started, spawned, beast, checkSpawnEvent, deserted>>

\* A monster of the spawn walks across the border of the zone.
Wander(b) ==
    /\ beast[b] \in {"inside", "outside"}
    /\ beast' = [beast EXCEPT ![b] = IF @ = "inside" THEN "outside" ELSE "inside"]
    /\ UNCHANGED <<started, spawned, ripe, checkSpawnEvent, deserted>>

\* Mutant of BeastDisappears: only a monster in its slot counts.
DisappearsUnlessLured(b) ==
    /\ beast[b] \in {"inside", "outside"}
    /\ beast' = [beast EXCEPT ![b] = "removed"]
    /\ checkSpawnEvent' = (checkSpawnEvent \/ <<0, b>> \notin spawned)
    /\ UNCHANGED <<started, spawned, ripe, deserted>>

\* Monster::onCreatureDisappear of itself, killed or removed.
BeastDisappears(b) ==
    /\ beast[b] \in {"inside", "outside"}
    /\ beast' = [beast EXCEPT ![b] = "removed"]
    /\ checkSpawnEvent' = TRUE
    /\ UNCHANGED <<started, spawned, ripe, deserted>>

\* Spawn::removeMonster of one that gets a master: no check is started.
BeastConvinced(b) ==
    /\ beast[b] \in {"inside", "outside"}
    /\ spawned' = {entry \in spawned : entry[2] # b}
    /\ beast' = [beast EXCEPT ![b] = "none"]
    /\ deserted' = TRUE
    /\ UNCHANGED <<started, ripe, checkSpawnEvent>>
----------------------------------------------------------------------------
\* Spawn::cleanup: the entries that stay, and the slots of those removed.
CleanedUp ==
    {<<IF beast[entry[2]] = "outside" THEN 0 ELSE entry[1], entry[2]>> :
        entry \in {e \in spawned : beast[e[2]] # "removed"}}
Freed == {entry[1] : entry \in {e \in spawned : beast[e[2]] = "removed"}}

GoesOn(entries) == Cardinality(entries) < Cardinality(Slots)

\* `near' are the slots with a player around, `new' what was placed.
CheckSpawn(near, tried, new) ==
    LET due == {s \in Slots : s \in ripe \ Freed /\ \A entry \in CleanedUp : entry[1] # s}
        reached == {s \in due : Cardinality({t \in tried : t < s}) < RateSpawn}
    IN /\ checkSpawnEvent
       /\ tried = reached \ near
       /\ DOMAIN new \subseteq tried
       /\ spawned' = CleanedUp \cup Entries(new)
       /\ beast' = [b \in Beasts |->
                       IF b \in Spawned /\ beast[b] = "removed" THEN "none" ELSE Born(new)[b]]
       /\ ripe' = ripe \ (Freed \cup (reached \cap near) \cup DOMAIN new)
       /\ checkSpawnEvent' = GoesOn(spawned')
       /\ deserted' = FALSE
       /\ UNCHANGED started

SpawnsNext ==
    \/ \E S \in SUBSET Slots : \E new \in Injection(S, Unborn) :
        \/ SpawnsStartup(new)
        \/ \E near, tried \in SUBSET Slots : CheckSpawn(near, tried, new)
    \/ started /\ \E s \in Slots : IntervalPasses(s)
    \/ \E b \in Beasts : Wander(b) \/ BeastDisappears(b) \/ BeastConvinced(b)

SpawnsSpec == SpawnsInit /\ [][SpawnsNext]_spawnsVars
----------------------------------------------------------------------------
\* A spawn that is short of monsters looks again, whatever became of them, of
\* its slots and of the lured ones; only one that lost them by persuasion, or
\* could not place them at the start, since its last check may not. And no two
\* monsters hold one slot.
SpawnLooksAgain ==
    /\ started /\ Cardinality({b \in Spawned : beast[b] # "removed"}) < Cardinality(Slots)
         => checkSpawnEvent \/ deserted
    /\ \A e, f \in spawned : e[1] = f[1] /\ e # f => e[1] = 0
=============================================================================
