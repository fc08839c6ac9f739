----------------------------- MODULE ClientView -----------------------------
(***************************************************************************)
(* What a client is told of the tiles around its player (tile.cpp, the     *)
(* send functions of protocolgame.cpp). A message names a thing by its     *)
(* place in the stack of its tile as the client has it: without creatures  *)
(* that hide from it, and without what lies below the tenth thing. And it  *)
(* describes a creature only once, as long as the server thinks that the   *)
(* client still knows it.                                                  *)
(*                                                                         *)
(* One client is followed, as clients do not act on the tiles and each has *)
(* a protocol object of its own. The tiles lie in a row.                   *)
(***************************************************************************)
EXTENDS Integers, FiniteSets, SequencesExt

CONSTANTS
    Viewer,     \* the player whose client is followed
    GameMasters,\* other players, with access to hidden ones
    Roamers,    \* monsters and other creatures; each is placed with a new id
    LastTile, Sight,
    TopOrder,   \* alwaysOnTopOrder of the kinds of items on top
    Splashes,   \* kinds on top of which a tile has only one
    DownItems,  \* the other kinds of items
    Fields,     \* magic fields that a new one replaces
    MaxThings,  \* a client shows ten things of a tile
    MaxKnown    \* a client knows 1300 creatures

TopItems == DOMAIN TopOrder
Players == {Viewer} \cup GameMasters
Beings == Players \cup Roamers

ASSUME ClientViewConstants ==
    /\ LastTile \in Nat /\ Sight \in Nat /\ MaxThings \in Nat \ {0} /\ MaxKnown \in Nat \ {0}
    /\ Splashes \subseteq TopItems /\ Fields \subseteq DownItems
    /\ TopItems \cap DownItems = {} /\ Beings \cap (TopItems \cup DownItems) = {}

VARIABLE
    scene   \* top, creatures, down: what lies and stands on each tile, behind its ground;
            \* hidden, access: players in ghost mode, and who sees them; leaving: who is being
            \* removed; linked: the player has a client; known: knownCreatureList; and the
            \* client: shown, its tiles; knows, its creatures; broken: a message made no sense;
            \* kicked: no creature could be forgotten ("lets kick some players")

Tiles == 0 .. LastTile
Ground == "ground"
None == {}
-----------------------------------------------------------------------------
(* Stacks of things. Places count from 1, the code's from 0.               *)

Sees(w, c) == c \notin w.hidden \/ Viewer \in w.access
Stands(w, c) == {t \in Tiles : c \in ToSet(w.creatures[t])}
ThingCount(w, t) == 1 + Len(w.top[t]) + Len(w.creatures[t]) + Len(w.down[t])

\* Creatures are listed with the last one that came first, and shown the other way round.
Standing(w, t) == SelectSeq(Reverse(w.creatures[t]), LAMBDA c : Sees(w, c))
Stack(w, t) == <<Ground>> \o w.top[t] \o Standing(w, t) \o w.down[t]
FirstOf(s) == SubSeq(s, 1, IF Len(s) < MaxThings THEN Len(s) ELSE MaxThings)
Description(w, t) == FirstOf(Stack(w, t))

\* getClientIndexOfThing, which also finds a creature that hides.
ClientIndex(w, t, c) ==
    LET row == SelectSeq(Reverse(w.creatures[t]), LAMBDA x : x = c \/ Sees(w, x))
    IN  1 + Len(w.top[t]) + CHOOSE i \in DOMAIN row : row[i] = c

ItemIndex(w, t, part, i) ==
    IF part = "top" THEN 1 + i ELSE 1 + Len(w.top[t]) + Len(Standing(w, t)) + i

InSight(w) == {t \in Tiles : \E u \in Stands(w, Viewer) : t - u \in -Sight .. Sight}
CanSeeTile(w, t) == w.linked /\ t \in InSight(w)
CanSeeCreature(w, c) ==
    c = w.leaving \/ (Sees(w, c) /\ Stands(w, c) \cap InSight(w) # {})
-----------------------------------------------------------------------------
(* The client: what it does with a message is not in src/.                 *)

ClientInserts(w, t, n, x) ==
    IF n > Len(w.shown[t]) + 1 THEN [w EXCEPT !.broken = TRUE]
    ELSE [w EXCEPT !.shown[t] = FirstOf(InsertAt(@, n, x))]

ClientReplaces(w, t, n, x) ==
    IF n > Len(w.shown[t]) THEN [w EXCEPT !.broken = TRUE]
    ELSE [w EXCEPT !.shown[t] = [@ EXCEPT ![n] = x]]

ClientRemoves(w, t, n) ==
    IF n > Len(w.shown[t]) THEN [w EXCEPT !.broken = TRUE]
    ELSE [w EXCEPT !.shown[t] = RemoveAt(@, n)]

\* The moved creature goes behind those that the tile has.
ClientMoves(w, t, n, u) ==
    IF n > Len(w.shown[t]) THEN [w EXCEPT !.broken = TRUE]
    ELSE LET before == SelectSeq(w.shown[u], LAMBDA x : x \notin DownItems)
         IN  ClientInserts(ClientRemoves(w, t, n), u, Len(before) + 1, w.shown[t][n])

\* A creature is described for the first time, after which another one is forgotten, or
\* by its id.
ClientMeets(w, c, forgotten) ==
    [w EXCEPT !.knows = (@ \ forgotten) \cup {c},
              !.broken = @ \/ \E t \in Tiles : ToSet(w.shown[t]) \cap forgotten # {}]
ClientRecognises(w, c) == [w EXCEPT !.broken = @ \/ c \notin w.knows]

\* The map around the player moves along.
ClientScrolls(w) == [w EXCEPT !.shown = [t \in Tiles |-> IF t \in InSight(w) THEN @[t] ELSE <<>>]]
-----------------------------------------------------------------------------
(* Messages.                                                               *)

\* The creature known longest of those out of sight is forgotten for a new one.
Forgets(w, c) ==
    LET known == Append(w.known, c)
        away == {i \in 1 .. MaxKnown : ~CanSeeCreature(w, known[i])}
        first == CHOOSE i \in away : \A j \in away : i <= j
    IN  IF Len(known) <= MaxKnown THEN ClientMeets([w EXCEPT !.known = known], c, None)
        ELSE IF away = {}
        THEN ClientMeets([w EXCEPT !.known = SubSeq(known, 1, MaxKnown), !.kicked = TRUE], c,
                         {known[MaxKnown]})
        ELSE ClientMeets([w EXCEPT !.known = SubSeq(known, first + 1, Len(known))
                                                \o SubSeq(known, 1, first - 1)], c, {known[first]})

CheckCreatureAsKnown(w, c) ==
    IF c \notin ToSet(w.known) THEN Forgets(w, c)
    ELSE ClientRecognises([w EXCEPT !.known = Append(SelectSeq(@, LAMBDA x : x # c), c)], c)

\* GetTileDescription, and for all tiles that come into sight GetMapDescription.
DescribeTile(w, t) ==
    LET creatures == SelectSeq(Description(w, t), LAMBDA x : x \in Beings)
        cleared == [w EXCEPT !.shown[t] = <<>>]
    IN  [FoldLeft(CheckCreatureAsKnown, cleared, creatures) EXCEPT !.shown[t] = Description(w, t)]
DescribeMap(w, S) == FoldLeft(DescribeTile, w, SetToSortSeq(S, <))
AddMapDescription(w) ==
    DescribeMap([w EXCEPT !.shown = [t \in Tiles |-> <<>>]], InSight(w))

UpdateTile(w, t) == IF CanSeeTile(w, t) THEN DescribeTile(w, t) ELSE w

AddTileItem(w, t, n, k) ==
    IF n <= MaxThings /\ CanSeeTile(w, t) THEN ClientInserts(w, t, n, k) ELSE w
UpdateTileItem(w, t, n, k) ==
    IF n <= MaxThings /\ CanSeeTile(w, t) THEN ClientReplaces(w, t, n, k) ELSE w
RemoveTileItem(w, t, n) ==
    IF n <= MaxThings /\ CanSeeTile(w, t) THEN ClientRemoves(w, t, n) ELSE w

AddCreature(w, t, n, c) ==
    IF n <= MaxThings /\ CanSeeTile(w, t)
    THEN ClientInserts(CheckCreatureAsKnown(w, c), t, n, c) ELSE w
TakeCreature(w, t, n, c) == IF Sees(w, c) THEN RemoveTileItem(w, t, n) ELSE w
-----------------------------------------------------------------------------
(* Tile: things are added and removed, then the client is told.            *)

\* Mutant of ResendTile: the tile is described again only when it has more than is shown.
ResendLate(w, t) == IF ThingCount(w, t) > MaxThings THEN UpdateTile(w, t) ELSE w

\* postRemoveNotification: things may have come up that the client does not have.
ResendTile(w, t) == IF ThingCount(w, t) > MaxThings - 2 THEN UpdateTile(w, t) ELSE w

WithoutItem(w, t, part, i) ==
    IF part = "top" THEN [w EXCEPT !.top[t] = RemoveAt(@, i)]
    ELSE [w EXCEPT !.down[t] = RemoveAt(@, i)]

RemoveThing(w, t, part, i) ==
    RemoveTileItem(WithoutItem(w, t, part, i), t, ItemIndex(w, t, part, i))

Replaced(w, t, part, kinds) ==
    LET row == IF part = "top" THEN w.top[t] ELSE w.down[t]
        old == {i \in DOMAIN row : row[i] \in kinds}
    IN  IF old = {} THEN w
        ELSE ResendTile(RemoveThing(w, t, part, CHOOSE i \in old : \A j \in old : i <= j), t)

\* Items on top lie in their order, a new one below its equals.
TopPlace(row, k) ==
    LET above == {i \in DOMAIN row : TopOrder[k] <= TopOrder[row[i]]}
    IN  IF above = {} THEN Len(row) + 1 ELSE CHOOSE i \in above : \A j \in above : i <= j

AddThing(w, t, k) ==
    IF k \in TopItems
    THEN LET cleared == IF k \in Splashes THEN Replaced(w, t, "top", Splashes) ELSE w
             n == TopPlace(cleared.top[t], k)
         IN  AddTileItem([cleared EXCEPT !.top[t] = InsertAt(@, n, k)], t, 1 + n, k)
    ELSE LET cleared == IF k \in Fields THEN Replaced(w, t, "down", Fields) ELSE w
             added == [cleared EXCEPT !.down[t] = <<k>> \o @]
         IN  AddTileItem(added, t, ItemIndex(added, t, "down", 1), k)

ChangeThing(w, t, part, i, k) ==
    UpdateTileItem(IF part = "top" THEN [w EXCEPT !.top[t][i] = k]
                   ELSE [w EXCEPT !.down[t][i] = k], t, ItemIndex(w, t, part, i), k)

\* sendMoveCreature for the player itself, who stood at place n of t and now stands on u.
ViewerMoves(w, t, n, u, teleport) ==
    IF teleport \/ n > MaxThings
    THEN AddMapDescription(IF n > MaxThings THEN w ELSE ClientRemoves(w, t, n))
    ELSE LET scrolled == ClientScrolls(ClientMoves(w, t, n, u))
         IN  DescribeMap(scrolled, {x \in InSight(w) : scrolled.shown[x] = <<>>})

\* sendMoveCreature for another creature.
OtherMoves(w, c, t, n, u, teleport) ==
    IF ~CanSeeTile(w, t) THEN AddCreature(w, u, ClientIndex(w, u, c), c)
    ELSE IF ~CanSeeTile(w, u) THEN TakeCreature(w, t, n, c)
    ELSE IF teleport \/ n > MaxThings
    THEN AddCreature(TakeCreature(w, t, n, c), u, ClientIndex(w, u, c), c)
    ELSE ClientMoves(w, t, n, u)

\* Tile::moveCreature: the place that the client knows is looked up before the move.
SteppedTo(w, c, t, u, teleport) ==
    LET n == ClientIndex(w, t, c)
        moved == [w EXCEPT !.creatures = [@ EXCEPT ![t] = SelectSeq(@, LAMBDA x : x # c),
                                                   ![u] = <<c>> \o @]]
        told == IF ~w.linked \/ ~Sees(w, c) THEN moved
                ELSE IF c = Viewer THEN ViewerMoves(moved, t, n, u, teleport)
                ELSE OtherMoves(moved, c, t, n, u, teleport)
    IN  ResendTile(told, t)

\* connect: a new protocol object, whose client knows nothing.
Connected(w) ==
    AddMapDescription([w EXCEPT !.linked = TRUE, !.known = <<>>, !.knows = {}])
Disconnected(w) ==
    [w EXCEPT !.linked = FALSE, !.known = <<>>, !.knows = {}, !.shown = [t \in Tiles |-> <<>>]]
-----------------------------------------------------------------------------
(* What happens around the player.                                         *)

ClientViewInit ==
    \E access \in {GameMasters, Players} :
        scene = [top |-> [t \in Tiles |-> <<>>], creatures |-> [t \in Tiles |-> <<>>],
                 down |-> [t \in Tiles |-> <<>>], hidden |-> {}, access |-> access,
                 leaving |-> Ground, linked |-> FALSE, known |-> <<>>, knows |-> {},
                 shown |-> [t \in Tiles |-> <<>>], broken |-> FALSE, kicked |-> FALSE]

PartsOf(t) == {<<"top", i>> : i \in DOMAIN scene.top[t]}
              \cup {<<"down", i>> : i \in DOMAIN scene.down[t]}

ItemAppears(t, k) == scene' = AddThing(scene, t, k)

ItemVanishes(t) ==
    \E p \in PartsOf(t) : scene' = ResendTile(RemoveThing(scene, t, p[1], p[2]), t)

\* transformItem: an item whose kind goes from top to down or back is a new one.
ItemTurns(t, k) ==
    \E p \in PartsOf(t) :
        scene' = IF (p[1] = "top") = (k \in TopItems)
                 THEN ResendTile(ChangeThing(scene, t, p[1], p[2], k), t)
                 ELSE AddThing(ResendTile(RemoveThing(scene, t, p[1], p[2]), t), t, k)

\* internalMoveItem, of an item that can be moved, as no item on top and no field can: the
\* notification of the first tile comes last.
ItemMoves(t, u) ==
    \E i \in DOMAIN scene.down[t] :
        LET k == scene.down[t][i]
        IN  /\ k \notin Fields
            /\ scene' = ResendTile(AddThing(RemoveThing(scene, t, "down", i), u, k), t)

\* setID: a creature is placed with an id that no client can know.
CreatureAppears(c, t) ==
    /\ Stands(scene, c) = {} /\ c \notin ToSet(scene.known)
    /\ LET placed == [scene EXCEPT !.creatures[t] = <<c>> \o @, !.hidden = @ \ {c}]
       IN  scene' = IF c = Viewer THEN Connected(placed)
                    ELSE AddCreature(placed, t, ClientIndex(placed, t, c), c)

\* Game::removeCreature: the creature counts as being there until all are told.
CreatureDisappears(c) ==
    \E t \in Stands(scene, c) :
        LET away == [scene EXCEPT !.creatures[t] = SelectSeq(@, LAMBDA x : x # c), !.leaving = c]
            told == ResendTile(TakeCreature(away, t, ClientIndex(scene, t, c), c), t)
        IN  scene' = IF c = Viewer THEN Disconnected([away EXCEPT !.leaving = Ground])
                     ELSE [told EXCEPT !.leaving = Ground]

CreatureSteps(c, u, forced) ==
    \E t \in Stands(scene, c) \ {u} :
        scene' = SteppedTo(scene, c, t, u, forced \/ t - u \notin -1 .. 1)

\* The command /ghost.
SwitchGhostMode(c) ==
    /\ c \in scene.access
    /\ \E t \in Stands(scene, c) :
           LET w == [scene EXCEPT !.hidden = SymDiff(@, {c})]
           IN  scene' = IF c = Viewer \/ Viewer \in w.access THEN w
                        ELSE IF c \in w.hidden
                        THEN UpdateTile(TakeCreature(w, t, ClientIndex(w, t, c), c), t)
                        ELSE UpdateTile(AddCreature(w, t, ClientIndex(w, t, c), c), t)

ViewerLosesLink == scene.linked /\ scene' = Disconnected(scene)
ViewerConnects == Stands(scene, Viewer) # {} /\ scene' = Connected(scene)
-----------------------------------------------------------------------------
(* Properties.                                                             *)

\* Unless more creatures are in sight than a client can know, every message makes sense to
\* the client, it shows the first things of each tile in sight, of hidden creatures
\* nothing, and it knows the creatures that the server takes for known.
ClientShowsTiles ==
    ~scene.kicked =>
        /\ ~scene.broken
        /\ \A t \in Tiles :
               scene.shown[t] = IF CanSeeTile(scene, t) THEN Description(scene, t) ELSE <<>>
        /\ scene.knows = ToSet(scene.known)
=============================================================================
