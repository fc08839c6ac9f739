------------------------------- MODULE Trade -------------------------------
(***************************************************************************)
(* Trading between players (game.cpp), the callbacks by which the changes  *)
(* of the world cancel a trade (player.cpp), and the part of the item      *)
(* movement that decides whether and where a traded item arrives           *)
(* (game.cpp, player.cpp, container.cpp). The dispatcher executes one      *)
(* request after the other, so each action is a whole request. Items are   *)
(* not stackable, weigh the same and fit any inventory slot; a position is *)
(* a point on a line, and a reach the distance that areInRange allows.     *)
(***************************************************************************)
EXTENDS Integers, FiniteSets

CONSTANTS
    Players, Items,
    Containers,       \* the items that can hold items
    NoPlayer, NoItem, \* null pointers
    Nowhere,          \* the parent of a removed item
    Slots,            \* the places of an inventory
    Room,             \* Container::capacity()
    Capacity,         \* the weight that a player can carry
    OfferLimit,       \* the items of one offer (100)
    ItemReach,        \* from a player to the item offered (1)
    PartnerReach,     \* from a player to the partner (2)
    LastPlace         \* bound: the map

Places == 0 .. LastPlace

\* Players, items and places are different things, and an item is in reach from
\* no further than a partner, as with the code's distances 1 and 2.
ASSUME TradeConstants ==
    /\ Containers \subseteq Items
    /\ NoPlayer \notin Players
    /\ NoItem \notin Items
    /\ Items \cap (Players \cup Places \cup {Nowhere}) = {}
    /\ Places \cap (Players \cup {Nowhere}) = {} /\ Nowhere \notin Players
    /\ ItemReach \in Nat /\ PartnerReach \in Nat /\ LastPlace \in Nat
    /\ ItemReach <= PartnerReach
    /\ Slots \in Nat /\ Room \in Nat /\ Capacity \in Nat

ASSUME Finite == IsFiniteSet(Items)

VARIABLES
    online,           \* the players in the world
    position,         \* Creature::getPosition
    parent,           \* Item::getParent
    tradeState,       \* Player::tradeState
    tradePartner,     \* Player::tradePartner
    tradeItem,        \* Player::tradeItem
    tradeItems,       \* the keys of Game::tradeItems
    refs,             \* the references that trades hold on an item
    shown             \* history: what an offer consisted of when it was shown

traders == <<tradeState, tradePartner, tradeItem>>
registry == <<tradeItems, refs>>
vars == <<online, position, parent, tradeState, tradePartner, tradeItem, tradeItems, refs, shown>>

Cylinders == Players \cup Containers \cup Places \cup {Nowhere}
----------------------------------------------------------------------------
(***************************************************************************)
(* Where items are. "at" gives every item its parent.                      *)
(***************************************************************************)
Above(at, i) ==
    LET up[n \in 0 .. Cardinality(Items)] ==
            IF n = 0 THEN {at[i]} ELSE up[n - 1] \cup {at[c] : c \in up[n - 1] \cap Items}
    IN up[Cardinality(Items)]

Inside(at, c) == {i \in Items : c \in Above(at, i)}

DirectlyIn(at, c) == {i \in Items : at[i] = c}

TopParent(at, i) ==
    IF Above(at, i) \subseteq Items THEN Nowhere ELSE CHOOSE top \in Above(at, i) \ Items : TRUE

Carries(at, p, i) == p \in Above(at, i)

PositionOf(at, i) ==
    IF TopParent(at, i) \in Players THEN position[TopParent(at, i)] ELSE TopParent(at, i)

InRange(reach, x, y) == x - y <= reach /\ y - x <= reach

Accessible(at, p, i) ==
    \/ Carries(at, p, i)
    \/ TopParent(at, i) \in Places /\ InRange(ItemReach, position[p], TopParent(at, i))

HasCapacity(at, p, i) ==
    Carries(at, p, i) \/ 1 + Cardinality(Inside(at, i)) < Capacity - Cardinality(Inside(at, p))

\* Mutant of WouldContainItself: only the container itself is looked for.
IsTheContainer(at, i, c) == i = c

\* A container must not be put into itself, nor into what it holds.
WouldContainItself(at, i, c) == i = c \/ i \in Above(at, c)

CanAddToContainer(at, i, c) ==
    /\ ~WouldContainItself(at, i, c)
    /\ Cardinality(DirectlyIn(at, c)) < Room
    /\ TopParent(at, c) \in Players => HasCapacity(at, TopParent(at, c), i)

CanAddToSlot(at, i, p) ==
    Cardinality(DirectlyIn(at, p)) < Slots /\ HasCapacity(at, p, i)

QueryAdd(at, i, c) ==
    CASE c \in Containers -> CanAddToContainer(at, i, c)
      [] c \in Players    -> CanAddToSlot(at, i, c)
      [] c \in Places     -> TRUE
      [] OTHER            -> FALSE

(***************************************************************************)
(* Where an item that is given to a player arrives: at the first slot that *)
(* is empty or holds a container with room, else in the first container    *)
(* with room further inside. The order of slots is left open. The item     *)
(* offered is skipped among the slots, but not further inside.             *)
(***************************************************************************)
Searched(at, p, i) == DirectlyIn(at, p) \ {i, tradeItem[p]}

FirstDestinations(at, p, i) ==
    {c \in {p} \cup (Searched(at, p, i) \cap Containers) : QueryAdd(at, i, c)}

DeeperDestinations(at, p, i) ==
    {c \in Containers : /\ \E s \in Searched(at, p, i) : s \in Above(at, c)
                        /\ QueryAdd(at, i, c)}

QueryDestination(at, p, i) ==
    IF FirstDestinations(at, p, i) # {} THEN FirstDestinations(at, p, i)
    ELSE DeeperDestinations(at, p, i)
----------------------------------------------------------------------------
(***************************************************************************)
(* Cancelling trades. A cylinder notifies the players around it before an  *)
(* item leaves and after an item has come. It is then up to each of them   *)
(* to see that its offer is affected.                                      *)
(***************************************************************************)
Spectators(at, c) ==
    CASE c \in Players    -> {c}
      [] c \in Containers -> {p \in online : /\ TopParent(at, c) # Nowhere
                                             /\ InRange(PartnerReach, position[p], PositionOf(at, c))}
      [] OTHER            -> online

HasOffer(p) == tradeItem[p] # NoItem

CheckTradeState(at, p, i) == i = tradeItem[p] \/ i \in Inside(at, tradeItem[p])

\* Mutant of ClosedByRemove: the items inside the item that leaves are not looked at.
ClosedByRemoveItself(at, i) ==
    {p \in Spectators(at, at[i]) : HasOffer(p) /\ CheckTradeState(at, p, i)}

ClosedByRemove(at, i) ==
    {p \in Spectators(at, at[i]) :
        /\ HasOffer(p)
        /\ \/ CheckTradeState(at, p, i)
           \/ at[i] \notin Containers /\ tradeItem[p] \in Inside(at, i)
           \/ /\ at[i] \in Containers
              /\ at[tradeItem[p]] # at[i]
              /\ tradeItem[p] \in Inside(at, at[i])}

ClosedByAdd(at, i) ==
    {p \in Spectators(at, at[i]) : HasOffer(p) /\ at[i] \in Containers /\ CheckTradeState(at, p, i)}

ClosedByMove(at, i, c) ==
    ClosedByRemove(at, i) \cup ClosedByAdd([at EXCEPT ![i] = c], i)

\* Mutant of ClosedByWalk: the distance to the partner is not checked.
ClosedByLeavingItem(p, place) ==
    HasOffer(p) /\ ~Carries(parent, p, tradeItem[p])
        /\ ~InRange(ItemReach, place, PositionOf(parent, tradeItem[p]))

ClosedByWalk(p, place) ==
    \/ HasOffer(p) /\ ~Carries(parent, p, tradeItem[p])
       /\ ~InRange(ItemReach, place, PositionOf(parent, tradeItem[p]))
    \/ tradePartner[p] # NoPlayer /\ ~InRange(PartnerReach, place, position[tradePartner[p]])

WithPartners(S) == S \cup ({tradePartner[p] : p \in S} \ {NoPlayer})

OffersOf(S) == {tradeItem[p] : p \in S} \ {NoItem}

\* The players of S leave their trades: what is registered is given back.
Release(S) ==
    /\ refs' = [i \in Items |-> IF i \in OffersOf(S) \cap tradeItems THEN refs[i] - 1 ELSE refs[i]]
    /\ tradeItems' = tradeItems \ OffersOf(S)
    /\ tradeState' = [p \in Players |-> IF p \in S THEN "NONE" ELSE tradeState[p]]
    /\ tradePartner' = [p \in Players |-> IF p \in S THEN NoPlayer ELSE tradePartner[p]]
    /\ tradeItem' = [p \in Players |-> IF p \in S THEN NoItem ELSE tradeItem[p]]
    /\ shown' = [p \in Players |-> IF p \in S THEN {} ELSE shown[p]]

InternalCloseTrade(S) == Release(WithPartners(S))
----------------------------------------------------------------------------
Init ==
    /\ online = Players
    /\ position = [p \in Players |-> 0]
    /\ parent = [i \in Items |-> 0]
    /\ tradeState = [p \in Players |-> "NONE"]
    /\ tradePartner = [p \in Players |-> NoPlayer]
    /\ tradeItem = [p \in Players |-> NoItem]
    /\ tradeItems = {}
    /\ refs = [i \in Items |-> 0]
    /\ shown = [p \in Players |-> {}]

\* Mutant of AlreadyTraded: the item itself is not looked up.
NestedTraded(i) == \E j \in tradeItems : j \in Inside(parent, i) \/ i \in Inside(parent, j)

AlreadyTraded(i) ==
    \E j \in tradeItems : i = j \/ j \in Inside(parent, i) \/ i \in Inside(parent, j)

PlayerMayStart(p, q) ==
    tradeState[p] = "NONE" \/ (tradeState[p] = "ACKNOWLEDGE" /\ tradePartner[p] = q)

\* Mutant of PartnerMayStart: a partner who was asked by somebody else may be asked as well.
AskedMayStart(p, q) == tradeState[q] \in {"NONE", "ACKNOWLEDGE"} \/ tradePartner[q] = p

PartnerMayStart(p, q) == tradeState[q] = "NONE" \/ tradePartner[q] = p

StartTrade(p, q, i) ==
    /\ PlayerMayStart(p, q)
    /\ PartnerMayStart(p, q)
    /\ tradeItem' = [tradeItem EXCEPT ![p] = i]
    /\ refs' = [refs EXCEPT ![i] = @ + 1]
    /\ tradeItems' = tradeItems \cup {i}
    /\ shown' = [shown EXCEPT ![p] = Inside(parent, i)]
    /\ IF tradeState[q] = "NONE"
       THEN /\ tradeState' = [tradeState EXCEPT ![p] = "INITIATED", ![q] = "ACKNOWLEDGE"]
            /\ tradePartner' = [tradePartner EXCEPT ![p] = q, ![q] = p]
       ELSE /\ tradeState' = [tradeState EXCEPT ![p] = "INITIATED"]
            /\ tradePartner' = [tradePartner EXCEPT ![p] = q]

(***************************************************************************)
(* A request for an item out of reach makes the player walk there and      *)
(* repeats the request, which changes nothing here.                        *)
(***************************************************************************)
RequestTrade(p, q, i) ==
    /\ {p, q} \subseteq online /\ p # q
    /\ InRange(PartnerReach, position[p], position[q])
    /\ Accessible(parent, p, i)
    /\ ~AlreadyTraded(i)
    /\ 1 + Cardinality(Inside(parent, i)) <= OfferLimit
    /\ StartTrade(p, q, i)
    /\ UNCHANGED <<online, position, parent>>

MayAccept(p) ==
    p \in online /\ tradeState[p] \in {"ACKNOWLEDGE", "INITIATED"} /\ tradePartner[p] # NoPlayer

\* Mutant of TransferPossible: only the room of the first receiver is tested.
PossibleForOne(p, q) ==
    /\ tradeItem[p] # NoItem /\ QueryDestination(parent, q, tradeItem[p]) # {}
    /\ tradeItem[q] # NoItem

\* internalAddItem and internalRemoveItem with test = true
TransferPossible(p, q) ==
    /\ tradeItem[p] # NoItem /\ QueryDestination(parent, q, tradeItem[p]) # {}
    /\ tradeItem[q] # NoItem /\ QueryDestination(parent, p, tradeItem[q]) # {}
    /\ Nowhere \notin {parent[tradeItem[p]], parent[tradeItem[q]]}

\* internalMoveItem to a player: nothing moves when there is no destination
Moved(at, i, p) ==
    IF QueryDestination(at, p, i) = {} THEN {at}
    ELSE {[at EXCEPT ![i] = c] : c \in QueryDestination(at, p, i)}

\* The two traders are in TRADE_TRANSFER, where no move cancels their trade, which
\* ends anyway. The moves may cancel the trades of others.
Transfer(p, q) ==
    \E mid \in Moved(parent, tradeItem[p], q) : \E end \in Moved(mid, tradeItem[q], p) :
        /\ parent' = end
        /\ InternalCloseTrade({p} \cup ClosedByMove(parent, tradeItem[p], mid[tradeItem[p]])
                                  \cup ClosedByMove(mid, tradeItem[q], end[tradeItem[q]]))

Exchange(p, q) ==
    IF TransferPossible(p, q) THEN Transfer(p, q)
    ELSE InternalCloseTrade({p}) /\ UNCHANGED parent

AcceptTrade(p) ==
    LET q == tradePartner[p]
    IN  /\ MayAccept(p)
        /\ \/ /\ tradeState[q] # "ACCEPT"
              /\ tradeState' = [tradeState EXCEPT ![p] = "ACCEPT"]
              /\ UNCHANGED <<tradePartner, tradeItem, tradeItems, refs, shown, parent>>
           \/ tradeState[q] = "ACCEPT" /\ Exchange(p, q)
        /\ UNCHANGED <<online, position>>

CloseTrade(p) ==
    /\ p \in online
    /\ InternalCloseTrade({p})
    /\ UNCHANGED <<online, position, parent>>
----------------------------------------------------------------------------
(***************************************************************************)
(* What happens to items and players meanwhile.                            *)
(***************************************************************************)
Reachable(p, c) ==
    \/ c \in Places
    \/ c = p
    \/ c \in Containers /\ Accessible(parent, p, c)

MoveItem(p, i, c) ==
    /\ p \in online
    /\ Accessible(parent, p, i)
    /\ Reachable(p, c) /\ c # parent[i]
    /\ QueryAdd(parent, i, c)
    /\ parent' = [parent EXCEPT ![i] = c]
    /\ InternalCloseTrade(ClosedByMove(parent, i, c))
    /\ UNCHANGED <<online, position>>

\* A slot that is taken: its item j changes places with i.
ExchangeItem(p, i, j) ==
    LET mid == [parent EXCEPT ![j] = parent[i]]
        end == [mid EXCEPT ![i] = p]
    IN  /\ p \in online
        /\ parent[j] = p /\ parent[i] # p
        /\ Accessible(parent, p, i)
        /\ QueryAdd(parent, j, parent[i])
        /\ parent' = IF QueryAdd(mid, i, p) THEN end ELSE mid
        /\ InternalCloseTrade(ClosedByMove(parent, j, parent[i])
               \cup IF QueryAdd(mid, i, p) THEN ClosedByMove(mid, i, p) ELSE {})
        /\ UNCHANGED <<online, position>>

\* An item is used up, decays or is removed by a script.
RemoveItem(i) ==
    /\ TopParent(parent, i) # Nowhere
    /\ TopParent(parent, i) \in Players => TopParent(parent, i) \in online
    /\ parent' = [parent EXCEPT ![i] = Nowhere]
    /\ InternalCloseTrade(ClosedByRemove(parent, i))
    /\ UNCHANGED <<online, position>>

Walk(p, place) ==
    /\ p \in online /\ place # position[p]
    /\ position' = [position EXCEPT ![p] = place]
    /\ InternalCloseTrade(IF ClosedByWalk(p, place) THEN {p} ELSE {})
    /\ UNCHANGED <<online, parent>>

Disappear(p) ==
    /\ p \in online
    /\ online' = online \ {p}
    /\ InternalCloseTrade(IF tradePartner[p] # NoPlayer THEN {p} ELSE {})
    /\ UNCHANGED <<position, parent>>

Login(p) ==
    /\ p \notin online
    /\ online' = online \cup {p}
    /\ UNCHANGED <<position, parent, traders, registry, shown>>

Next ==
    \/ \E p, q \in Players, i \in Items : RequestTrade(p, q, i)
    \/ \E p \in Players : AcceptTrade(p) \/ CloseTrade(p) \/ Disappear(p) \/ Login(p)
    \/ \E p \in Players, i \in Items, c \in Cylinders : MoveItem(p, i, c)
    \/ \E p \in Players, i, j \in Items : ExchangeItem(p, i, j)
    \/ \E i \in Items : RemoveItem(i)
    \/ \E p \in Players, place \in Places : Walk(p, place)

Spec == Init /\ [][Next]_vars
----------------------------------------------------------------------------
(***************************************************************************)
(* What makes trading correct.                                             *)
(***************************************************************************)

\* Every variable has a value of its kind, and TRADE_TRANSFER does not outlast
\* the request that sets it.
TypeOK ==
    /\ online \subseteq Players
    /\ position \in [Players -> Places]
    /\ parent \in [Items -> Cylinders]
    /\ tradeState \in [Players -> {"NONE", "INITIATED", "ACCEPT", "ACKNOWLEDGE"}]
    /\ tradePartner \in [Players -> Players \cup {NoPlayer}]
    /\ tradeItem \in [Players -> Items \cup {NoItem}]
    /\ tradeItems \subseteq Items
    /\ refs \in [Items -> Nat]
    /\ shown \in [Players -> SUBSET Items]

InTrade(p, q) ==
    /\ q \in Players \ {p}
    /\ tradePartner[q] = p
    /\ p \in online
    /\ tradeState[p] = "INITIATED" => HasOffer(p)
    /\ tradeState[p] = "ACKNOWLEDGE" => ~HasOffer(p)
    /\ tradeState[p] = "ACCEPT" => tradeState[q] # "ACCEPT"
    /\ HasOffer(p) \/ HasOffer(q)

OutOfTrade(p) == tradePartner[p] = NoPlayer /\ ~HasOffer(p)

\* A trade has two sides that agree about it, whatever order their requests,
\* moves and logouts had: both point to each other and are in the world, have an
\* offer or none as their states say, never have both accepted, and never both
\* wait for an offer of the other one.
SidesAgree ==
    \A p \in Players :
        /\ tradeState[p] = "NONE" => OutOfTrade(p)
        /\ tradeState[p] # "NONE" => InTrade(p, tradePartner[p])

\* Game::tradeItems holds exactly the items on offer, each offered by one player
\* and with one reference, so that an item is given back once and no item stays
\* registered, and refused as "already being traded", after its trade.
OffersRegistered ==
    /\ tradeItems = OffersOf(Players)
    /\ \A p, q \in Players : HasOffer(p) /\ tradeItem[p] = tradeItem[q] => p = q
    /\ \A i \in Items : refs[i] = IF i \in tradeItems THEN 1 ELSE 0

\* However items move after an offer was made, no item on offer holds another one,
\* and no sequence of moves and exchanges puts a container into itself: every item
\* has its place with a player, on the map or nowhere.
NestingSound ==
    /\ \A i, j \in tradeItems : i \notin Inside(parent, j)
    /\ \A i \in Items : i \notin Above(parent, i)

\* What is exchanged in the end is what the other one was shown: as long as an
\* offer stands nothing was put into it or taken out, and it exists.
OffersAsShown ==
    \A p \in Players : HasOffer(p) =>
        /\ Inside(parent, tradeItem[p]) = shown[p]
        /\ TopParent(parent, tradeItem[p]) # Nowhere

\* Whoever trades stays in reach of the item offered and of the partner, who may
\* walk away as well.
TradersTogether ==
    \A p \in Players :
        /\ HasOffer(p) => Accessible(parent, p, tradeItem[p])
        /\ tradePartner[p] # NoPlayer =>
               InRange(PartnerReach, position[p], position[tradePartner[p]])

\* The item p offered is put into the container q offered, as QueryDestination does
\* not skip an offer further inside. Then p gets it back with the container; or the
\* container has become too heavy for p, and q keeps both.
PutIntoOffer(p, q) ==
    /\ parent[tradeItem[q]] \in Containers
    /\ tradeItem[p] \in Inside(parent', tradeItem[q])
    /\ Carries(parent', p, tradeItem[q]) \/ parent'[tradeItem[q]] = parent[tradeItem[q]]

\* An accepted trade moves both items or none: the checks made in advance are
\* enough for both moves, whose results are not looked at, although the first
\* move changes the inventories the second one finds. The one exception is an
\* offer that is put into the other one.
ExchangeIsMutual ==
    [][\A p \in Players :
        LET q == tradePartner[p]
        IN  AcceptTrade(p) /\ parent' # parent =>
                \/ Carries(parent', q, tradeItem[p]) /\ Carries(parent', p, tradeItem[q])
                \/ PutIntoOffer(p, q)]_vars
=============================================================================
