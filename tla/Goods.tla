------------------------------- MODULE Goods -------------------------------
(***************************************************************************)
(* Where the goods and the money of players are: in the memory of those    *)
(* who are online, in their records, in the offers of the market and in a  *)
(* house, and how they move between these stores (game.cpp, iomarket.cpp,  *)
(* iologindata.cpp, mailbox.cpp, house.cpp, iomapserialize.cpp). Goods are *)
(* all alike and counted; offers have one price. The dispatcher executes   *)
(* one request after the other, so an action is a whole request, except    *)
(* that the loops of a save and of the check for expired offers take one   *)
(* step for each of their elements: the server may crash in between. A     *)
(* statement of the database may fail; what the code then does with its    *)
(* result is the same whatever the reason.                                 *)
(***************************************************************************)
EXTENDS Integers, FiniteSets, Functions

CONSTANTS
    Players, NoOwner,
    OfferIds,       \* the ids of offers, as long as the table has them
    NoOffer,
    Houses, Floors, \* steps of a save: who owns what, what lies there
    Stock, Coins,   \* what each player has at first
    Price, Fee, Rent,
    MaxOffers,      \* the offers of one player at a time
    MaxAmount,      \* the goods in one offer (64000)
    MaxWarnings,    \* the letters before an eviction (7)
    MaxFaults       \* bound: failing statements and crashes

ASSUME GoodsConstants ==
    /\ IsFiniteSet(Players) /\ IsFiniteSet(OfferIds)
    /\ NoOwner \notin Players
    /\ Players \cap (OfferIds \cup {Houses, Floors}) = {}
    /\ {Houses, Floors} \cap OfferIds = {}
    /\ Houses # Floors
    /\ Stock \in [Players -> Nat] /\ Coins \in [Players -> Nat]
    /\ Price \in Nat /\ Fee \in Nat /\ Rent \in Nat
    /\ MaxOffers \in Nat /\ MaxAmount \in Nat
    /\ MaxWarnings \in Nat /\ MaxFaults \in Nat

VARIABLES
    session,    \* how far a player is: offline, online, with his locker open, at the market
    memory,     \* a player online: bankBalance, the inventory, the depots
    record,     \* the same in the database
    depotChange,\* the players whose depots are to be saved
    offers,     \* the table market_offers
    house,      \* a house in memory: its owner, what lies in it, warnings
    houseRecord,\* the same in the database
    street,     \* what lies on other ground
    todo,       \* what is left of a loop that the dispatcher executes
    faults,     \* the number of faults so far
    spent,      \* history: fees and rents
    lost        \* history: what an eviction gave to a record that a save overwrote

stores == <<memory, record, depotChange, offers>>
goodsVars == <<session, memory, record, depotChange, offers, house, houseRecord, street, todo,
          faults, spent, lost>>

Goods == [bank : Nat, pack : Nat, depot : Nat]
Sessions == {"offline", "online", "locker", "market"}
Offer == [owner : Players, sale : {"buy", "sell"}, amount : Nat \ {0}]

ASSUME NoOfferIsNone == NoOffer \notin Offer

Nothing == [bank |-> 0, pack |-> 0, depot |-> 0]
Plus(goods, bank, pack, depot) ==
    [bank |-> goods.bank + bank, pack |-> goods.pack + pack, depot |-> goods.depot + depot]

Idle == todo = {}
Online(p) == session[p] # "offline"
AtMarket(p) == session[p] = "market"
Holding(p) == IF Online(p) THEN memory[p] ELSE record[p]
Listed == {i \in OfferIds : offers[i] # NoOffer}

(***************************************************************************)
(* A fault is one failing statement of a request or a crash.               *)
(***************************************************************************)
Outcomes(places) == {"done"} \cup (IF faults < MaxFaults THEN places ELSE {})

Counted(outcome) == faults' = IF outcome = "done" THEN faults ELSE faults + 1
----------------------------------------------------------------------------
(***************************************************************************)
(* Operations on the stores, a record of memory, record, depotChange and   *)
(* offers, as one request may do several.                                  *)
(***************************************************************************)
Stores == [memory |-> memory, record |-> record, changed |-> depotChange, offers |-> offers]

Settled(s) ==
    /\ memory' = s.memory
    /\ record' = s.record
    /\ depotChange' = s.changed
    /\ offers' = s.offers

\* What a login or the load of a player who is offline finds: a query for
\* items that fails reads like one that finds nothing.
Loaded(goods, outcome) ==
    CASE outcome = "no items"  -> [goods EXCEPT !.pack = 0]
      [] outcome = "no depots" -> [goods EXCEPT !.depot = 0]
      [] OTHER                 -> goods

\* One transaction: depots are written only when they may have changed.
Saved(s, p) ==
    IF p \in s.changed THEN s.memory[p] ELSE [s.memory[p] EXCEPT !.depot = s.record[p].depot]

\* Mutant of Delivered: an online player's depots are not marked.
DeliveredUnmarked(s, p, n, outcome) ==
    IF Online(p) THEN [s EXCEPT !.memory[p] = Plus(@, 0, 0, n)]
    ELSE IF outcome \in {"no player", "not saved"} THEN s
    ELSE [s EXCEPT !.record[p] = Plus(Loaded(@, outcome), 0, 0, n)]

\* Goods go to the inbox of p; one who is offline is loaded, and saved with
\* his depots. A save that fails is not noticed.
Delivered(s, p, n, outcome) ==
    IF Online(p) THEN [s EXCEPT !.memory[p] = Plus(@, 0, 0, n), !.changed = @ \cup {p}]
    ELSE IF outcome \in {"no player", "not saved"} THEN s
    ELSE [s EXCEPT !.record[p] = Plus(Loaded(@, outcome), 0, 0, n)]

\* Mutant of Credited: only a player who is online gets his money.
CreditedOnline(s, p, coins, outcome) ==
    IF Online(p) THEN [s EXCEPT !.memory[p] = Plus(@, coins, 0, 0)] ELSE s

Credited(s, p, coins, outcome) ==
    IF Online(p) THEN [s EXCEPT !.memory[p] = Plus(@, coins, 0, 0)]
    ELSE IF outcome = "not credited" THEN s
    ELSE [s EXCEPT !.record[p] = Plus(@, coins, 0, 0)]

\* moveOfferToHistory and deleteOffer ignore a failure, too.
Withdrawn(s, i, outcome) ==
    IF outcome = "not removed" THEN s ELSE [s EXCEPT !.offers[i] = NoOffer]

Reduced(s, i, n, outcome) ==
    IF n = s.offers[i].amount THEN Withdrawn(s, i, outcome)
    ELSE IF outcome = "not removed" THEN s
    ELSE [s EXCEPT !.offers[i].amount = @ - n]

\* A player who is offline and cannot be loaded is met by these outcomes only.
LoadFails(p, outcome) == ~Online(p) /\ outcome = "no player"

LoadFaults == {"no player", "no items", "no depots", "not saved"}
----------------------------------------------------------------------------
GoodsInit ==
    /\ session = [p \in Players |-> "offline"]
    /\ memory = [p \in Players |-> Nothing]
    /\ record = [p \in Players |-> [bank |-> Coins[p], pack |-> Stock[p], depot |-> 0]]
    /\ depotChange = {}
    /\ offers = [i \in OfferIds |-> NoOffer]
    /\ house = [owner |-> NoOwner, floor |-> 0, warnings |-> 0]
    /\ houseRecord = house
    /\ street = 0
    /\ todo = {}
    /\ faults = 0
    /\ spent = 0
    /\ lost = 0
----------------------------------------------------------------------------
(***************************************************************************)
(* Sessions.                                                               *)
(***************************************************************************)
Login(p) ==
    /\ Idle /\ ~Online(p)
    /\ \E outcome \in Outcomes({"no items", "no depots"}) :
        /\ memory' = [memory EXCEPT ![p] = Loaded(record[p], outcome)]
        /\ Counted(outcome)
    /\ session' = [session EXCEPT ![p] = "online"]
    /\ UNCHANGED <<record, depotChange, offers, house, houseRecord, street, todo, spent,
                   lost>>

\* A logout, a kick or a death; the save is tried three times.
Logout(p) ==
    /\ Idle /\ Online(p)
    /\ \E outcome \in Outcomes({"not saved"}) :
        /\ record' = IF outcome = "done" THEN [record EXCEPT ![p] = Saved(Stores, p)] ELSE record
        /\ Counted(outcome)
    /\ memory' = [memory EXCEPT ![p] = Nothing]
    /\ depotChange' = depotChange \ {p}
    /\ session' = [session EXCEPT ![p] = "offline"]
    /\ UNCHANGED <<offers, house, houseRecord, street, todo, spent, lost>>

OpenLocker(p) ==
    /\ Idle /\ session[p] = "online"
    /\ session' = [session EXCEPT ![p] = "locker"]
    /\ depotChange' = depotChange \cup {p}
    /\ UNCHANGED <<memory, record, offers, house, houseRecord, street, todo, faults, spent,
                   lost>>

EnterMarket(p) ==
    /\ Idle /\ session[p] = "locker"
    /\ session' = [session EXCEPT ![p] = "market"]
    /\ UNCHANGED <<stores, house, houseRecord, street, todo, faults, spent, lost>>

LeaveMarket(p) ==
    /\ Idle /\ AtMarket(p)
    /\ session' = [session EXCEPT ![p] = "locker"]
    /\ UNCHANGED <<stores, house, houseRecord, street, todo, faults, spent, lost>>
----------------------------------------------------------------------------
(***************************************************************************)
(* Goods move between the inventory and an open locker, the floor of the   *)
(* house and the street, or by mail to the depot of anybody. A letter that *)
(* cannot be delivered stays in front of the mailbox.                      *)
(***************************************************************************)
Store(p) ==
    /\ Idle /\ session[p] \in {"locker", "market"} /\ memory[p].pack > 0
    /\ memory' = [memory EXCEPT ![p] = Plus(@, 0, -1, 1)]
    /\ UNCHANGED <<session, record, depotChange, offers, house, houseRecord, street, todo,
                   faults, spent, lost>>

Fetch(p) ==
    /\ Idle /\ session[p] \in {"locker", "market"} /\ memory[p].depot > 0
    /\ memory' = [memory EXCEPT ![p] = Plus(@, 0, 1, -1)]
    /\ UNCHANGED <<session, record, depotChange, offers, house, houseRecord, street, todo,
                   faults, spent, lost>>

Drop(p) ==
    /\ Idle /\ Online(p) /\ memory[p].pack > 0
    /\ memory' = [memory EXCEPT ![p] = Plus(@, 0, -1, 0)]
    /\ \/ street' = street + 1 /\ house' = house
       \/ house' = [house EXCEPT !.floor = @ + 1] /\ street' = street
    /\ UNCHANGED <<session, record, depotChange, offers, houseRecord, todo, faults, spent,
                   lost>>

PickUp(p) ==
    /\ Idle /\ Online(p)
    /\ \/ street > 0 /\ street' = street - 1 /\ house' = house
       \/ house.floor > 0 /\ house' = [house EXCEPT !.floor = @ - 1] /\ street' = street
    /\ memory' = [memory EXCEPT ![p] = Plus(@, 0, 1, 0)]
    /\ UNCHANGED <<session, record, depotChange, offers, houseRecord, todo, faults, spent,
                   lost>>

SendItem(p, q) ==
    /\ Idle /\ Online(p) /\ memory[p].pack > 0
    /\ \E outcome \in Outcomes(IF Online(q) THEN {} ELSE LoadFaults) :
        /\ Settled(Delivered([Stores EXCEPT !.memory[p] = Plus(@, 0, -1, 0)], q, 1, outcome))
        /\ street' = IF LoadFails(q, outcome) THEN street + 1 ELSE street
        /\ Counted(outcome)
    /\ UNCHANGED <<session, house, houseRecord, todo, spent, lost>>
----------------------------------------------------------------------------
(***************************************************************************)
(* The market.                                                             *)
(***************************************************************************)
OffersOf(p) == {i \in Listed : offers[i].owner = p}

CreateOffer(p, i, sale, n) ==
    /\ Idle /\ AtMarket(p) /\ i \notin Listed
    /\ Cardinality(OffersOf(p)) < MaxOffers
    /\ \/ /\ sale = "sell"
          /\ Fee <= memory[p].bank /\ n <= memory[p].depot
          /\ memory' = [memory EXCEPT ![p] = Plus(@, -Fee, 0, -n)]
       \/ /\ sale = "buy"
          /\ Price * n + Fee <= memory[p].bank
          /\ memory' = [memory EXCEPT ![p] = Plus(@, -(Price * n + Fee), 0, 0)]
    /\ \E outcome \in Outcomes({"not inserted"}) :
        /\ offers' = IF outcome = "done"
                     THEN [offers EXCEPT ![i] = [owner |-> p, sale |-> sale, amount |-> n]]
                     ELSE offers
        /\ Counted(outcome)
    /\ spent' = spent + Fee
    /\ UNCHANGED <<session, record, depotChange, house, houseRecord, street, todo, lost>>

\* The owner gets back what the offer holds, into the depot of his market.
CancelOffer(p, i) ==
    /\ Idle /\ AtMarket(p) /\ i \in OffersOf(p)
    /\ memory' = IF offers[i].sale = "buy"
                 THEN [memory EXCEPT ![p] = Plus(@, Price * offers[i].amount, 0, 0)]
                 ELSE [memory EXCEPT ![p] = Plus(@, 0, 0, offers[i].amount)]
    /\ \E outcome \in Outcomes({"not removed"}) :
        /\ offers' = Withdrawn(Stores, i, outcome).offers
        /\ Counted(outcome)
    /\ UNCHANGED <<session, record, depotChange, house, houseRecord, street, todo, spent,
                   lost>>

\* The seller is paid and parts with his goods before the buyer is looked for.
Paid(s, p, n) == [s EXCEPT !.memory[p] = Plus(@, Price * n, 0, -n)]

Bought(s, p, n) == [s EXCEPT !.memory[p] = Plus(@, -(Price * n), 0, n)]

\* p sells to an offer to buy. When the buyer cannot be loaded the request
\* ends there, with the offer as it was.
AcceptBuyOffer(p, i, n) ==
    /\ Idle /\ AtMarket(p) /\ i \in Listed
    /\ offers[i].sale = "buy" /\ n <= offers[i].amount /\ n <= memory[p].depot
    /\ LET buyer == offers[i].owner
           sold == Paid(Stores, p, n)
       IN \E outcome \in Outcomes({"not removed"} \cup IF Online(buyer) THEN {} ELSE LoadFaults) :
            /\ Settled(IF LoadFails(buyer, outcome) THEN sold
                      ELSE Reduced(Delivered(sold, buyer, n, outcome), i, n, outcome))
            /\ Counted(outcome)
    /\ UNCHANGED <<session, house, houseRecord, street, todo, spent, lost>>

\* p buys from an offer to sell.
AcceptSellOffer(p, i, n) ==
    /\ Idle /\ AtMarket(p) /\ i \in Listed
    /\ offers[i].sale = "sell" /\ n <= offers[i].amount /\ Price * n <= memory[p].bank
    /\ LET seller == offers[i].owner
       IN \E outcome \in Outcomes({"not removed"} \cup
                                  IF Online(seller) THEN {} ELSE {"not credited"}) :
            /\ Settled(Reduced(Credited(Bought(Stores, p, n), seller, Price * n, outcome),
                              i, n, outcome))
            /\ Counted(outcome)
    /\ UNCHANGED <<session, house, houseRecord, street, todo, spent, lost>>

\* The check for expired offers; which ones are depends on the clock.
CheckExpiredMarketOffers(expired) ==
    /\ Idle /\ expired # {}
    /\ todo' = expired
    /\ UNCHANGED <<session, stores, house, houseRecord, street, faults, spent, lost>>

ExpireBuyOffer(i) ==
    /\ i \in todo \cap Listed /\ offers[i].sale = "buy"
    /\ LET owner == offers[i].owner
       IN \E outcome \in Outcomes({"not removed"} \cup
                                  IF Online(owner) THEN {} ELSE {"not credited"}) :
            /\ Settled(Withdrawn(Credited(Stores, owner, Price * offers[i].amount, outcome),
                              i, outcome))
            /\ Counted(outcome)
    /\ todo' = todo \ {i}
    /\ UNCHANGED <<session, house, houseRecord, street, spent, lost>>

\* Offers to sell come second. One whose owner cannot be loaded is left for
\* the next check.
ExpireSellOffer(i) ==
    /\ i \in todo \cap Listed /\ offers[i].sale = "sell"
    /\ \A j \in todo : offers[j].sale = "sell"
    /\ LET owner == offers[i].owner
       IN \E outcome \in Outcomes({"not removed"} \cup IF Online(owner) THEN {} ELSE LoadFaults) :
            /\ Settled(IF LoadFails(owner, outcome) THEN Stores
                      ELSE Withdrawn(Delivered(Stores, owner, offers[i].amount, outcome),
                                   i, outcome))
            /\ Counted(outcome)
    /\ todo' = todo \ {i}
    /\ UNCHANGED <<session, house, houseRecord, street, spent, lost>>
----------------------------------------------------------------------------
(***************************************************************************)
(* A house. A house without an owner is bought with coins of the         *)
(* inventory, which are left out.                                          *)
(***************************************************************************)
BuyHouse(p) ==
    /\ Idle /\ Online(p) /\ house.owner = NoOwner
    /\ house' = [house EXCEPT !.owner = p]
    /\ UNCHANGED <<session, stores, houseRecord, street, todo, faults, spent, lost>>

\* House::transferToDepot: the owner is marked only when there is something.
Cleared(s, outcome) ==
    IF house.floor = 0 /\ Online(house.owner) THEN s
    ELSE Delivered(s, house.owner, house.floor, outcome)

\* What is left on the floor, and the house without its owner.
Vacated(owner, outcome) ==
    [owner |-> owner,
     floor |-> IF LoadFails(house.owner, outcome) THEN house.floor ELSE 0,
     warnings |-> 0]

\* The owner leaves the house to somebody or to nobody, or loses it to a
\* command; also the end of a trade of its document.
SetHouseOwner(owner) ==
    /\ Idle /\ house.owner \notin {NoOwner, owner}
    /\ \E outcome \in Outcomes(IF Online(house.owner) THEN {} ELSE LoadFaults) :
        /\ Settled(Cleared(Stores, outcome))
        /\ house' = Vacated(owner, outcome)
        /\ Counted(outcome)
    /\ UNCHANGED <<session, houseRecord, street, todo, spent, lost>>

PaidRent(s, p, outcome) ==
    IF Online(p) THEN [s EXCEPT !.memory[p] = Plus(@, -Rent, 0, 0)]
    ELSE IF outcome = "not saved" THEN s
    ELSE [s EXCEPT !.record[p] =
              Plus(Saved([s EXCEPT !.memory[p] = Loaded(s.record[p], outcome)], p), -Rent, 0, 0)]

\* Houses::payHouses with an owner who can pay. It takes no notice of what
\* is paid already.
PayRent ==
    /\ Idle /\ house.owner # NoOwner
    /\ LET p == house.owner
       IN /\ Rent <= Holding(p).bank
          /\ \E outcome \in Outcomes(IF Online(p) THEN {} ELSE LoadFaults \ {"no player"}) :
              /\ Settled(PaidRent(Stores, p, outcome))
              /\ spent' = IF outcome = "not saved" THEN spent ELSE spent + Rent
              /\ Counted(outcome)
    /\ UNCHANGED <<session, house, houseRecord, street, todo, lost>>

\* One who cannot pay gets a letter.
WarnOwner ==
    /\ Idle /\ house.owner # NoOwner
    /\ LET p == house.owner
       IN /\ Rent > Holding(p).bank
          /\ house.warnings < MaxWarnings
          /\ \E outcome \in Outcomes(IF Online(p) THEN {} ELSE LoadFaults \ {"no player"}) :
              /\ Settled(Delivered(Stores, p, 0, outcome))
              /\ Counted(outcome)
    /\ house' = [house EXCEPT !.warnings = @ + 1]
    /\ UNCHANGED <<session, houseRecord, street, todo, spent, lost>>

\* After the last letter he loses the house. payHouses holds a copy of an
\* owner who is offline; setHouseOwner loads another one, gives it what lay
\* in the house and saves it, and then payHouses saves its own over it. When
\* the other one cannot be loaded the house stays as it is.
Evict ==
    /\ Idle /\ house.owner # NoOwner
    /\ LET p == house.owner
       IN /\ Rent > Holding(p).bank
          /\ house.warnings >= MaxWarnings
          /\ \E outcome \in Outcomes(IF Online(p) THEN {} ELSE LoadFaults) :
              /\ Settled(IF Online(p) \/ outcome = "not saved" THEN Cleared(Stores, "done")
                        ELSE Delivered(Stores, p, 0, outcome))
              /\ house' = Vacated(NoOwner, outcome)
              /\ lost' = IF Online(p) \/ outcome \in {"not saved", "no player"} THEN lost
                         ELSE lost + house.floor
              /\ Counted(outcome)
    /\ UNCHANGED <<session, houseRecord, street, todo, spent>>
----------------------------------------------------------------------------
(***************************************************************************)
(* saveGameState: all players, then who owns the houses, then what lies    *)
(* in them, in transactions of their own.                                  *)
(***************************************************************************)
SaveGameState ==
    /\ Idle
    /\ todo' = {p \in Players : Online(p)} \cup {Houses, Floors}
    /\ UNCHANGED <<session, stores, house, houseRecord, street, faults, spent, lost>>

SavePlayer(p) ==
    /\ p \in todo
    /\ \E outcome \in Outcomes({"not saved"}) :
        /\ record' = IF outcome = "done" THEN [record EXCEPT ![p] = Saved(Stores, p)] ELSE record
        /\ Counted(outcome)
    /\ todo' = todo \ {p}
    /\ UNCHANGED <<session, memory, depotChange, offers, house, houseRecord, street, spent,
                   lost>>

\* Three attempts; what lies in the houses is not saved without the owners.
SaveHouseInfo ==
    /\ Houses \in todo /\ todo \cap Players = {}
    /\ \E outcome \in Outcomes({"not saved"}) :
        /\ \/ /\ outcome = "done"
              /\ houseRecord' = [house EXCEPT !.floor = houseRecord.floor]
              /\ todo' = todo \ {Houses}
           \/ /\ outcome = "not saved"
              /\ todo' = {} /\ houseRecord' = houseRecord
        /\ Counted(outcome)
    /\ UNCHANGED <<session, stores, house, street, spent, lost>>

SaveHouseItems ==
    /\ todo = {Floors}
    /\ \E outcome \in Outcomes({"not saved"}) :
        /\ houseRecord' = IF outcome = "done" THEN [houseRecord EXCEPT !.floor = house.floor]
                          ELSE houseRecord
        /\ Counted(outcome)
    /\ todo' = {}
    /\ UNCHANGED <<session, stores, house, street, spent, lost>>

\* The server stops anywhere, and starts with what the database has.
Crash ==
    /\ faults < MaxFaults
    /\ faults' = faults + 1
    /\ session' = [p \in Players |-> "offline"]
    /\ memory' = [p \in Players |-> Nothing]
    /\ depotChange' = {}
    /\ house' = houseRecord
    /\ street' = 0
    /\ todo' = {}
    /\ UNCHANGED <<record, offers, houseRecord, spent, lost>>
----------------------------------------------------------------------------
GoodsNext ==
    \/ \E p \in Players :
        \/ Login(p) \/ Logout(p) \/ OpenLocker(p) \/ EnterMarket(p) \/ LeaveMarket(p)
        \/ Store(p) \/ Fetch(p) \/ Drop(p) \/ PickUp(p)
        \/ \E q \in Players : SendItem(p, q)
        \/ \E i \in OfferIds : CancelOffer(p, i)
        \/ \E i \in OfferIds, n \in 1 .. MaxAmount :
            \/ \E sale \in {"buy", "sell"} : CreateOffer(p, i, sale, n)
            \/ AcceptBuyOffer(p, i, n)
            \/ AcceptSellOffer(p, i, n)
        \/ BuyHouse(p)
        \/ SavePlayer(p)
    \/ \E expired \in SUBSET Listed : CheckExpiredMarketOffers(expired)
    \/ \E i \in OfferIds : ExpireBuyOffer(i) \/ ExpireSellOffer(i)
    \/ \E owner \in Players \cup {NoOwner} : SetHouseOwner(owner)
    \/ PayRent \/ WarnOwner \/ Evict
    \/ SaveGameState \/ SaveHouseInfo \/ SaveHouseItems
    \/ Crash

GoodsSpec == GoodsInit /\ [][GoodsNext]_goodsVars
----------------------------------------------------------------------------
Estates == [owner : Players \cup {NoOwner}, floor : Nat, warnings : 0 .. MaxWarnings]

\* Types: goods and money are natural numbers; only players who are online
\* are marked; a loop is left with players and steps, or with offers.
GoodsTypeOK ==
    /\ session \in [Players -> Sessions]
    /\ memory \in [Players -> Goods]
    /\ record \in [Players -> Goods]
    /\ depotChange \in SUBSET Players
    /\ offers \in [OfferIds -> Offer \cup {NoOffer}]
    /\ house \in Estates /\ houseRecord \in Estates
    /\ street \in Nat
    /\ todo \in (SUBSET (Players \cup {Houses, Floors})) \cup (SUBSET OfferIds)
    /\ faults \in Nat
    /\ spent \in Nat
    /\ lost \in Nat

Wares ==
    SumFunction([p \in Players |-> Holding(p).pack + Holding(p).depot]) + house.floor + street
    + SumFunction([i \in OfferIds |-> IF i \in Listed /\ offers[i].sale = "sell"
                                      THEN offers[i].amount ELSE 0])

Money ==
    SumFunction([p \in Players |-> Holding(p).bank]) + spent
    + SumFunction([i \in OfferIds |-> IF i \in Listed /\ offers[i].sale = "buy"
                                      THEN Price * offers[i].amount ELSE 0])

DepotMarked(p) == Online(p) /\ p \notin depotChange => memory[p].depot = record[p].depot

\* A step in which no statement fails neither loses nor doubles goods or
\* money, whoever is online while they move between memory, records, offers
\* and the house, and whatever crashes and failures came before. What
\* evictions lose is counted; excluded are depots that a
\* login could not read, until the player marks them or logs out.
GoodsConserved ==
    [][/\ <<stores, house, street, spent, lost>>' # <<stores, house, street, spent, lost>>
       /\ faults' = faults /\ \A p \in Players : DepotMarked(p)
       => Wares' + lost' = Wares + lost /\ Money' = Money]_goodsVars

\* savePlayer writes depots only when depotChange says so: whoever changes
\* the depots of a player online has marked them.
DepotChangesMarked ==
    faults = 0 =>
        \A p \in Players : DepotMarked(p)
=============================================================================
