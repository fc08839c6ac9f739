------------------------------ MODULE MCWorld ------------------------------
(***************************************************************************)
(* An instance of the game world: creatures, spawns, items and what a      *)
(* client is shown of tiles share no state. A behaviour is one of a single *)
(* component, chosen at the start, while the others stay as they are;      *)
(* every action is named, to see that it happens.                          *)
(***************************************************************************)
EXTENDS Creatures, Spawns, Items, ClientView

CONSTANTS hero, rat, wolf

MCAdventurers == {hero}
MCMonsters == {rat, wolf}
MCTopOrder == [splash |-> 2, door |-> 3]

\* Boots that are worn out in two seconds, from level 2 on; a ring; a torch; a sword
\* whose fire and an amulet whose protection are used up; a corpse that falls to bones.
\* The ring and the worn boots give a share, both kinds of boots and the amulet a
\* suppression.
Plain(k) ==
    [type |-> "none", made |-> k, time |-> 0, stop |-> FALSE, charges |-> 0,
     decayTo |-> Never, equipTo |-> NoKind, deEquipTo |-> NoKind, turns |-> {},
     bonus |-> 0, share |-> <<0, 0>>, aura |-> FALSE, suppress |-> {},
     level |-> 1, fits |-> {}, weapon |-> FALSE]
Worn(k, slot, bonus) == [Plain(k) EXCEPT !.fits = {slot}, !.bonus = bonus]
MCInfo ==
    [bootsOff   |-> [Worn("bootsOff", "feet", 0) EXCEPT
                         !.stop = TRUE, !.equipTo = "bootsOn", !.level = 2],
     bootsOn    |-> [Worn("bootsOn", "feet", 2) EXCEPT !.time = 2, !.aura = TRUE,
                         !.decayTo = "wornBoots", !.deEquipTo = "bootsOff",
                         !.suppress = {"drunk"}],
     wornBoots  |-> [Worn("wornBoots", "feet", 1) EXCEPT
                         !.share = <<3, 6>>, !.suppress = {"drunk"}],
     ringOff    |-> [Worn("ringOff", "hand", 0) EXCEPT !.stop = TRUE, !.equipTo = "ringOn"],
     ringOn     |-> [Worn("ringOn", "hand", 4) EXCEPT !.made = "ringOff", !.time = 2,
                         !.decayTo = Nothing, !.deEquipTo = "ringOff",
                         !.share = <<1, 2>>],
     torch      |-> [Plain("torch") EXCEPT !.stop = TRUE, !.turns = {"litTorch"}],
     litTorch   |-> [Plain("litTorch") EXCEPT !.time = 2, !.decayTo = Nothing,
                         !.turns = {"torch"}],
     fierySword |-> [Worn("fierySword", "hand", 0) EXCEPT !.type = "sword", !.charges = 2,
                         !.decayTo = "sword", !.weapon = TRUE],
     sword      |-> [Worn("sword", "hand", 0) EXCEPT !.weapon = TRUE],
     amulet     |-> [Worn("amulet", "neck", 8) EXCEPT !.charges = 1,
                         !.suppress = {"drunk"}],
     corpse     |-> [Plain("corpse") EXCEPT !.type = "container", !.time = 1,
                         !.decayTo = "bones"],
     bones      |-> [Plain("bones") EXCEPT !.time = 1, !.decayTo = Nothing]]
MCKinds == DOMAIN MCInfo

VARIABLE focus

WorldInit ==
    /\ focus \in {"creatures", "spawns", "items", "view"}
    /\ CreaturesInit /\ SpawnsInit /\ ItemsInit /\ ClientViewInit

Rest(component) ==
    /\ component # "creatures" => UNCHANGED creaturesVars
    /\ component # "spawns"    => UNCHANGED spawnsVars
    /\ component # "items"     => UNCHANGED itemsVars
    /\ component # "view"      => UNCHANGED scene
    /\ UNCHANGED focus

OfCreatures(A) == focus = "creatures" /\ A /\ Rest("creatures")
OfSpawns(A) == focus = "spawns" /\ A /\ Rest("spawns")
OfItems(A) == focus = "items" /\ A /\ Rest("items")
OfView(A) == focus = "view" /\ A /\ Rest("view")

WorldNext ==
    \/ OfCreatures(Cleanup)
    \/ OfCreatures(\E bucket \in SUBSET Creatures : CheckCreatures(bucket))
    \/ OfCreatures(\E p \in Adventurers, t \in Creatures \cup {Nobody}, chases \in BOOLEAN :
                       SetTarget(p, t, chases))
    \/ OfCreatures(\E p \in Adventurers : ThinkPlayer(p))
    \/ OfCreatures(\E m \in Monsters, t \in Creatures \cup {Nobody} : Think(m, t))
    \/ OfCreatures(\E x \in Creatures, dies \in BOOLEAN : Hit(x, dies))
    \/ OfCreatures(\E x \in Creatures : Unlist(x))
    \/ OfCreatures(\E x \in Creatures : \E order \in Orders(x, {}) : RemoveCreature(x, order))
    \/ OfCreatures(\E x \in Creatures : \E order \in Orders(x, {}) : Die(x, order))
    \/ OfCreatures(\E x \in Creatures, at \in Places : \E order \in Orders(x, {at}) :
                       PlaceCreature(x, at, order))
    \/ OfCreatures(\E x \in Monsters, y \in Creatures, at \in Places :
                       \E order \in Orders(x, {at}) : Summon(y, x, at, order))
    \/ OfCreatures(\E x \in Creatures, at \in Places :
                       \E order \in Orders(x, {at}), far \in SUBSET summons[x] :
                           MoveCreature(x, at, far, order))
    \/ OfCreatures(\E x \in Monsters, at \in Places : \E order \in Orders(x, {at}) :
                       Despawn(x, at, order))
    \/ OfCreatures(\E p \in Adventurers, m \in Monsters : \E order \in Orders(m, Places) :
                       Convince(p, m, order))
    \/ OfSpawns(\E S \in SUBSET Slots : \E new \in Injection(S, Unborn) : SpawnsStartup(new))
    \/ OfSpawns(\E S, near, tried \in SUBSET Slots : \E new \in Injection(S, Unborn) :
                    CheckSpawn(near, tried, new))
    \/ OfSpawns(started /\ \E s \in Slots : IntervalPasses(s))
    \/ OfSpawns(\E x \in Beasts : Wander(x))
    \/ OfSpawns(\E x \in Beasts : BeastDisappears(x))
    \/ OfSpawns(\E x \in Beasts : BeastConvinced(x))
    \/ OfItems(\E k \in Kinds : CreateItem(k))
    \/ OfItems(\E o \in Objects, k \in Kinds : ScriptTransforms(o, k))
    \/ OfItems(\E o \in Objects : DestroyItem(o))
    \/ OfItems(\E o \in Objects, to \in WornSlots \cup {Floor} : MoveItem(o, to))
    \/ OfItems(\E o \in Objects : UseCharge(o))
    \/ OfItems(CheckDecay)
    \/ OfItems(CleanUpItems)
    \/ OfItems(LevelRises)
    \/ OfItems(\E level \in Levels : LogOutWearing(level))
    \/ OfItems(\E new \in Injection(DOMAIN savedItems, Spare(items)) : LogInWearing(new))
    \/ OfView(\E t \in Tiles, k \in TopItems \cup DownItems : ItemAppears(t, k))
    \/ OfView(\E t \in Tiles : ItemVanishes(t))
    \/ OfView(\E t \in Tiles, k \in TopItems \cup DownItems : ItemTurns(t, k))
    \/ OfView(\E t, u \in Tiles : ItemMoves(t, u))
    \/ OfView(\E c \in Beings, t \in Tiles : CreatureAppears(c, t))
    \/ OfView(\E c \in Beings : CreatureDisappears(c))
    \/ OfView(\E c \in Beings, u \in Tiles, forced \in BOOLEAN : CreatureSteps(c, u, forced))
    \/ OfView(\E c \in Players : SwitchGhostMode(c))
    \/ OfView(ViewerLosesLink)
    \/ OfView(ViewerConnects)

WorldSpec == WorldInit /\ [][WorldNext]_<<focus, creaturesVars, spawnsVars, itemsVars, scene>>
----------------------------------------------------------------------------
\* The lists of decay, counted from the last one looked at.
ItemsView ==
    <<[items EXCEPT !.last = 0,
                    !.buckets = [b \in Buckets |->
                         items.buckets[(b + items.last) % (LastBucket + 1)]]], savedItems>>

\* The initial states of the other components do not matter.
WorldView ==
    <<focus,
      CASE focus = "creatures" -> creaturesVars
        [] focus = "spawns"    -> spawnsVars
        [] focus = "items"     -> ItemsView
        [] focus = "view"      -> scene>>

\* Three creatures are explored one of which is a summons of another that the
\* hero does not attack, at the two ends of the row and he at one of them, none in
\* a list of things to release, and between two looks of checkCreatures only while
\* a monster that just summoned thinks; the wolf comes after the rat.
Released == releases[hero] + releases[rat] + releases[wolf]
FewCreatures ==
    /\ status[rat] = "none" => status[wolf] = "none"
    /\ \/ status[wolf] = "none" /\ Released <= 1
       \/ /\ Released = 0 /\ followed[hero] = Nobody /\ place[hero] # 2
          /\ round = {} \/ \E m \in Monsters : round = {m} /\ summons[m] # {}
          /\ \A x \in Creatures : place[x] # 1
          /\ \E x \in Monsters : master[x] # Nobody
          /\ \A m \in Monsters : attacked[hero] = m => master[m] \notin {Nobody, hero}

\* Two items are explored, while the player is online, if they are boots, or worn boots
\* and an amulet, and none is to be let go, or if one takes the place of the other; one
\* address more is free. When the player has lost by a share or had a suppression twice,
\* one item is explored, or what may be worn with it.
Waiting == MapThenSumSet(LAMBDA o : items.toRelease[o], Objects)
KindsAbout == {items.life[o].kind : o \in Objects} \ {NoKind}
FewItems ==
    LET used == Cardinality(Objects \ Spare(items))
    IN /\ Spare(items) # {} /\ Waiting <= 1
       /\ used <= 1 \/ items.online
       /\ \/ used <= 1
          \/ /\ Waiting = 0 /\ items.wearer.drift = 0
             /\ \/ KindsAbout \subseteq {"bootsOff", "bootsOn", "wornBoots"}
                \/ KindsAbout = {"wornBoots", "amulet"}
          \/ /\ Cardinality(InPlace(items)) <= 1 /\ items.wearer.drift = 0
             /\ \A o \in Objects : items.place[o] = Gone => EntriesOf(o) = 0
       /\ items.wearer.doubled # {} => KindsAbout \subseteq {"wornBoots", "amulet"}

\* Four things behind the ground of all tiles are explored; items, at most two,
\* in the middle only, with one creature at most besides the viewer, which he knows,
\* and with a viewer who does not see hidden ones.
Count(rows) == MapThenSumSet(LAMBDA t : Len(rows[t]), Tiles)
FewThings ==
    LET lying == Count(scene.top) + Count(scene.down)
        present == UNION {ToSet(scene.creatures[t]) : t \in Tiles}
    IN  /\ ~scene.kicked
        /\ lying <= 2 /\ Cardinality(present) <= 3 /\ lying + Cardinality(present) <= 4
        /\ lying > 0 => Cardinality(present) <= 2
        /\ \A t \in Tiles \ {1} : scene.top[t] = <<>> /\ scene.down[t] = <<>>
        /\ lying > 0 => /\ ToSet(scene.known) \subseteq present /\ wolf \notin present
                         /\ scene.access = GameMasters

WorldBounds ==
    CASE focus = "creatures" -> FewCreatures
      [] focus = "items"     -> FewItems
      [] focus = "view"      -> FewThings
      [] OTHER               -> TRUE
=============================================================================
