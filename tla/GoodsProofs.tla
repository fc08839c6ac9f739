---------------------------- MODULE GoodsProofs ----------------------------
(***************************************************************************)
(* Theorems about Goods for any players, offers, prices and faults: the    *)
(* types, that a change of depots is marked, and that nothing is lost or   *)
(* doubled. The last one is about sums over players and over offers: an    *)
(* operator on the stores changes one or two of the terms, and each action *)
(* is a chain of such operators.                                           *)
(***************************************************************************)
EXTENDS Goods, FiniteSetTheorems, WellFoundedInduction, TLAPS

Depots == [Players -> Goods]
Market == [OfferIds -> Offer \cup {NoOffer}]
AllStores == [memory : Depots, record : Depots, changed : SUBSET Players, offers : Market]

LEMMA CostIsNatural == \A n \in Nat : Price * n \in Nat
  BY GoodsConstants

LEMMA StoresAreStores ==
    ASSUME GoodsTypeOK
    PROVE  /\ Stores \in AllStores
           /\ Stores.memory = memory /\ Stores.record = record
           /\ Stores.changed = depotChange /\ Stores.offers = offers
  BY DEF GoodsTypeOK, Stores, AllStores, Depots, Market

LEMMA PlusGoods ==
    ASSUME NEW g \in Goods, NEW bank \in Int, NEW pack \in Int, NEW depot \in Int,
           g.bank + bank >= 0, g.pack + pack >= 0, g.depot + depot >= 0
    PROVE  Plus(g, bank, pack, depot) \in Goods
  BY DEF Plus, Goods

LEMMA GoodsAreNatural ==
    ASSUME NEW g \in Goods
    PROVE  g.bank \in Nat /\ g.pack \in Nat /\ g.depot \in Nat
  BY DEF Goods

LEMMA LoadedGoods ==
    ASSUME NEW g \in Goods, NEW outcome
    PROVE  Loaded(g, outcome) \in Goods
  BY DEF Loaded, Goods

LEMMA SavedGoods ==
    ASSUME NEW s \in AllStores, NEW p \in Players
    PROVE  Saved(s, p) \in Goods
  BY DEF Saved, AllStores, Depots, Goods

\* The stores with goods g of p in memory, and in his record.
InMemory(s, p, g) == [s EXCEPT !.memory[p] = g]
InRecord(s, p, g) == [s EXCEPT !.record[p] = g]

LEMMA InStores ==
    ASSUME NEW s \in AllStores, NEW p \in Players, NEW g \in Goods
    PROVE  InMemory(s, p, g) \in AllStores /\ InRecord(s, p, g) \in AllStores
  BY DEF AllStores, Depots, InMemory, InRecord

LEMMA MemoryGoods ==
    ASSUME NEW s \in AllStores, NEW p \in Players
    PROVE  s.memory[p] \in Goods /\ s.record[p] \in Goods
  BY DEF AllStores, Depots

LEMMA DeliveredStores ==
    ASSUME NEW s \in AllStores, NEW p \in Players, NEW n \in Nat, NEW outcome
    PROVE  Delivered(s, p, n, outcome) \in AllStores
<1>1. CASE Online(p)
  <2> DEFINE g == Plus(s.memory[p], 0, 0, n)
             t == InMemory(s, p, g)
  <2>1. g \in Goods
    BY MemoryGoods, GoodsAreNatural, PlusGoods
  <2>2. t \in AllStores
    <3> HIDE DEF g
    <3> QED
      BY <2>1, InStores
  <2>3. Delivered(s, p, n, outcome) = [t EXCEPT !.changed = s.changed \cup {p}]
    BY <1>1 DEF Delivered, InMemory
  <2>4. s.changed \cup {p} \in SUBSET Players
    BY DEF AllStores
  <2> HIDE DEF t
  <2> QED
    BY <2>2, <2>3, <2>4 DEF AllStores
<1>2. CASE ~Online(p) /\ outcome \in {"no player", "not saved"}
  BY <1>2 DEF Delivered
<1>3. CASE ~Online(p) /\ outcome \notin {"no player", "not saved"}
  <2> DEFINE g == Plus(Loaded(s.record[p], outcome), 0, 0, n)
  <2>1. g \in Goods
    BY MemoryGoods, LoadedGoods, GoodsAreNatural, PlusGoods
  <2>2. Delivered(s, p, n, outcome) = InRecord(s, p, g)
    BY <1>3 DEF Delivered, InRecord
  <2> HIDE DEF g
  <2> QED
    BY <2>1, <2>2, InStores
<1> QED
  BY <1>1, <1>2, <1>3

LEMMA CreditedStores ==
    ASSUME NEW s \in AllStores, NEW p \in Players, NEW coins \in Nat, NEW outcome
    PROVE  Credited(s, p, coins, outcome) \in AllStores
<1>1. Plus(s.memory[p], coins, 0, 0) \in Goods /\ Plus(s.record[p], coins, 0, 0) \in Goods
  BY MemoryGoods, GoodsAreNatural, PlusGoods
<1> QED
  BY <1>1, InStores DEF Credited, InMemory, InRecord

LEMMA WithdrawnStores ==
    ASSUME NEW s \in AllStores, NEW i \in OfferIds, NEW outcome
    PROVE  Withdrawn(s, i, outcome) \in AllStores
  BY DEF Withdrawn, AllStores, Market

LEMMA ReducedStores ==
    ASSUME NEW s \in AllStores, NEW i \in OfferIds, NEW n \in Nat, NEW outcome,
           s.offers[i] \in Offer, n <= s.offers[i].amount
    PROVE  Reduced(s, i, n, outcome) \in AllStores
<1>1. CASE n = s.offers[i].amount
  BY <1>1, WithdrawnStores DEF Reduced
<1>2. CASE n # s.offers[i].amount /\ outcome = "not removed"
  BY <1>2 DEF Reduced
<1>3. CASE n # s.offers[i].amount /\ outcome # "not removed"
  <2> DEFINE o == [s.offers[i] EXCEPT !.amount = @ - n]
  <2>1. o \in Offer
    <3>1. s.offers[i].amount - n \in Nat \ {0}
      <4>1. s.offers[i].amount \in Nat
        BY DEF Offer
      <4>2. s.offers[i].amount > n
        <5>1. n # s.offers[i].amount
          BY <1>3
        <5> QED
          BY <4>1, <5>1
      <4> QED
        BY <4>1, <4>2
    <3>2. o = [owner |-> s.offers[i].owner, sale |-> s.offers[i].sale,
               amount |-> s.offers[i].amount - n]
      BY DEF Offer
    <3> QED
      BY <3>1, <3>2 DEF Offer
  <2>2. Reduced(s, i, n, outcome) = [s EXCEPT !.offers[i] = o]
    BY <1>3 DEF Reduced
  <2> HIDE DEF o
  <2> QED
    BY <2>1, <2>2 DEF AllStores, Market
<1> QED
  BY <1>1, <1>2, <1>3

LEMMA PaidStores ==
    ASSUME NEW s \in AllStores, NEW p \in Players, NEW n \in Nat, n <= s.memory[p].depot
    PROVE  Paid(s, p, n) \in AllStores /\ Paid(s, p, n).offers = s.offers
<1>1. Price * n \in Nat
  BY CostIsNatural
<1>2. Plus(s.memory[p], Price * n, 0, -n) \in Goods
  BY <1>1, MemoryGoods, GoodsAreNatural, PlusGoods
<1>3. Paid(s, p, n) \in AllStores
  BY <1>2, InStores DEF Paid, InMemory
<1> QED
  BY <1>3 DEF Paid, AllStores

LEMMA BoughtStores ==
    ASSUME NEW s \in AllStores, NEW p \in Players, NEW n \in Nat, Price * n <= s.memory[p].bank
    PROVE  Bought(s, p, n) \in AllStores /\ Bought(s, p, n).offers = s.offers
<1>1. Price * n \in Nat
  BY CostIsNatural
<1>2. Plus(s.memory[p], -(Price * n), 0, n) \in Goods
  BY <1>1, MemoryGoods, GoodsAreNatural, PlusGoods
<1>3. Bought(s, p, n) \in AllStores
  BY <1>2, InStores DEF Bought, InMemory
<1> QED
  BY <1>3 DEF Bought, AllStores

LEMMA PaidRentStores ==
    ASSUME NEW s \in AllStores, NEW p \in Players, NEW outcome,
           s.memory[p].bank >= Rent \/ ~Online(p), s.record[p].bank >= Rent \/ Online(p)
    PROVE  PaidRent(s, p, outcome) \in AllStores
<1>0. Rent \in Nat
  BY GoodsConstants
<1>1. CASE Online(p)
  <2>1. Plus(s.memory[p], -Rent, 0, 0) \in Goods
    BY <1>0, <1>1, MemoryGoods, GoodsAreNatural, PlusGoods
  <2> QED
    BY <1>1, <2>1, InStores DEF PaidRent, InMemory
<1>2. CASE ~Online(p) /\ outcome = "not saved"
  BY <1>2 DEF PaidRent
<1>3. CASE ~Online(p) /\ outcome # "not saved"
  <2> DEFINE l == Loaded(s.record[p], outcome)
             t == InMemory(s, p, l)
             g == Saved(t, p)
  <2>1. l \in Goods /\ l.bank = s.record[p].bank
    BY MemoryGoods, LoadedGoods DEF Loaded, Goods
  <2>2. t \in AllStores /\ t.memory[p] = l
    <3> HIDE DEF l
    <3>1. t \in AllStores
      BY <2>1, InStores
    <3> QED
      BY <3>1 DEF AllStores, Depots, InMemory
  <2>3. g \in Goods /\ g.bank = l.bank
    <3> HIDE DEF t, l
    <3>1. g \in Goods
      BY <2>2, SavedGoods
    <3> QED
      BY <2>1, <2>2, <3>1 DEF Saved, Goods
  <2>4. PaidRent(s, p, outcome) = InRecord(s, p, Plus(g, -Rent, 0, 0))
    BY <1>3 DEF PaidRent, InMemory, InRecord
  <2>5. Plus(g, -Rent, 0, 0) \in Goods
    <3>1. s.record[p].bank >= Rent
      BY <1>3
    <3> HIDE DEF g, l
    <3>2. g.bank + (-Rent) >= 0
      BY <1>0, <2>1, <2>3, <3>1, GoodsAreNatural
    <3> QED
      BY <1>0, <2>3, <3>2, GoodsAreNatural, PlusGoods
  <2> HIDE DEF g
  <2> QED
    BY <2>4, <2>5, InStores
<1> QED
  BY <1>1, <1>2, <1>3


----------------------------------------------------------------------------
(***************************************************************************)
(* Types.                                                                  *)
(***************************************************************************)
\* What the actions that change the stores leave of the types.
OtherTypes ==
    /\ session \in [Players -> Sessions]
    /\ house \in Estates /\ houseRecord \in Estates
    /\ street \in Nat
    /\ todo \in (SUBSET (Players \cup {Houses, Floors})) \cup (SUBSET OfferIds)
    /\ faults \in Nat
    /\ spent \in Nat
    /\ lost \in Nat

LEMMA SettledTypes ==
    ASSUME NEW s \in AllStores, Settled(s), OtherTypes'
    PROVE  GoodsTypeOK'
<1>1. memory' \in Depots /\ record' \in Depots /\ depotChange' \in SUBSET Players /\ offers' \in Market
  BY DEF Settled, AllStores
<1> QED
  BY <1>1 DEF OtherTypes, GoodsTypeOK, Depots, Market

LEMMA FaultsCounted ==
    ASSUME GoodsTypeOK, NEW outcome, Counted(outcome)
    PROVE  faults' \in Nat
  BY DEF GoodsTypeOK, Counted

LEMMA OffersAre ==
    ASSUME GoodsTypeOK, NEW i \in Listed
    PROVE  offers[i] \in Offer /\ offers[i].owner \in Players
           /\ offers[i].amount \in Nat /\ offers[i].amount > 0
<1>1. offers[i] \in Offer
  BY DEF GoodsTypeOK, Listed
<1> QED
  BY <1>1 DEF Offer

LEMMA MineAre ==
    ASSUME GoodsTypeOK, NEW p \in Players
    PROVE  /\ memory[p].bank \in Nat /\ memory[p].pack \in Nat /\ memory[p].depot \in Nat
           /\ memory[p] \in Goods /\ record[p] \in Goods
           /\ record[p].bank \in Nat
  BY DEF GoodsTypeOK, Goods

LEMMA HouseIs ==
    ASSUME GoodsTypeOK
    PROVE  /\ house.owner \in Players \cup {NoOwner} /\ house.floor \in Nat
           /\ house.warnings \in 0 .. MaxWarnings
  BY DEF GoodsTypeOK, Estates

LEMMA SessionTypes ==
    ASSUME GoodsTypeOK, NEW p \in Players,
           Login(p) \/ Logout(p) \/ OpenLocker(p) \/ EnterMarket(p) \/ LeaveMarket(p)
    PROVE  GoodsTypeOK'
<1>1. CASE Login(p)
  <2>1. PICK outcome \in Outcomes({"no items", "no depots"}) :
            memory' = [memory EXCEPT ![p] = Loaded(record[p], outcome)] /\ Counted(outcome)
    BY <1>1 DEF Login
  <2>2. Loaded(record[p], outcome) \in Goods
    BY MineAre, LoadedGoods
  <2> QED
    BY <1>1, <2>1, <2>2, FaultsCounted DEF Login, GoodsTypeOK, Sessions
<1>2. CASE Logout(p)
  <2>1. PICK outcome \in Outcomes({"not saved"}) :
            /\ record' = IF outcome = "done" THEN [record EXCEPT ![p] = Saved(Stores, p)]
                         ELSE record
            /\ Counted(outcome)
    BY <1>2 DEF Logout
  <2>2. Saved(Stores, p) \in Goods /\ Nothing \in Goods
    BY StoresAreStores, SavedGoods DEF Nothing, Goods
  <2> QED
    BY <1>2, <2>1, <2>2, FaultsCounted DEF Logout, GoodsTypeOK, Sessions
<1>3. CASE OpenLocker(p) \/ EnterMarket(p) \/ LeaveMarket(p)
  BY <1>3 DEF OpenLocker, EnterMarket, LeaveMarket, stores, GoodsTypeOK, Sessions
<1> QED
  BY <1>1, <1>2, <1>3

LEMMA HandTypes ==
    ASSUME GoodsTypeOK, NEW p \in Players, Store(p) \/ Fetch(p) \/ Drop(p) \/ PickUp(p)
    PROVE  GoodsTypeOK'
<1>1. CASE Store(p)
  <2>1. Plus(memory[p], 0, -1, 1) \in Goods
    <3>1. memory[p].pack > 0
      BY <1>1 DEF Store
    <3> QED
      BY <3>1, MineAre DEF Plus, Goods
  <2> QED
    BY <1>1, <2>1 DEF Store, GoodsTypeOK
<1>2. CASE Fetch(p)
  <2>1. Plus(memory[p], 0, 1, -1) \in Goods
    <3>1. memory[p].depot > 0
      BY <1>2 DEF Fetch
    <3> QED
      BY <3>1, MineAre DEF Plus, Goods
  <2> QED
    BY <1>2, <2>1 DEF Fetch, GoodsTypeOK
<1>3. CASE Drop(p)
  <2>1. Plus(memory[p], 0, -1, 0) \in Goods
    <3>1. memory[p].pack > 0
      BY <1>3 DEF Drop
    <3> QED
      BY <3>1, MineAre DEF Plus, Goods
  <2> QED
    BY <1>3, <2>1 DEF Drop, GoodsTypeOK, Estates
<1>4. CASE PickUp(p)
  <2>1. Plus(memory[p], 0, 1, 0) \in Goods
    BY MineAre DEF Plus, Goods
  <2> QED
    BY <1>4, <2>1 DEF PickUp, GoodsTypeOK, Estates
<1> QED
  BY <1>1, <1>2, <1>3, <1>4

LEMMA SendItemTypes ==
    ASSUME GoodsTypeOK, NEW p \in Players, NEW q \in Players, SendItem(p, q)
    PROVE  GoodsTypeOK'
<1> DEFINE s == InMemory(Stores, p, Plus(memory[p], 0, -1, 0))
<1>1. s \in AllStores
  <2>1. Plus(memory[p], 0, -1, 0) \in Goods
    <3>1. memory[p].pack > 0
      BY DEF SendItem
    <3> QED
      BY <3>1, MineAre DEF Plus, Goods
  <2> QED
    BY <2>1, StoresAreStores, InStores
<1>2. PICK outcome : /\ Settled(Delivered(s, q, 1, outcome))
                     /\ street' = IF LoadFails(q, outcome) THEN street + 1 ELSE street
                     /\ Counted(outcome)
  BY StoresAreStores DEF SendItem, InMemory
<1>3. Delivered(s, q, 1, outcome) \in AllStores
  BY <1>1, DeliveredStores
<1>4. OtherTypes'
  BY <1>2, FaultsCounted DEF SendItem, OtherTypes, GoodsTypeOK
<1> HIDE DEF s
<1>5. Settled(Delivered(s, q, 1, outcome))
  BY <1>2
<1> QED
  BY <1>3, <1>4, <1>5, SettledTypes

LEMMA OfferingTypes ==
    ASSUME GoodsTypeOK, NEW p \in Players, NEW i \in OfferIds, NEW n \in 1 .. MaxAmount,
           NEW sale \in {"buy", "sell"}, CreateOffer(p, i, sale, n)
    PROVE  GoodsTypeOK'
<1>1. memory' \in Depots
  <2>0. Fee \in Nat /\ Price * n \in Nat /\ n \in Nat
    BY CostIsNatural, GoodsConstants
  <2>1. CASE Fee <= memory[p].bank /\ n <= memory[p].depot
             /\ memory' = [memory EXCEPT ![p] = Plus(@, -Fee, 0, -n)]
    <3>1. Plus(memory[p], -Fee, 0, -n) \in Goods
      BY <2>0, <2>1, MineAre DEF Plus, Goods
    <3> QED
      BY <2>1, <3>1 DEF GoodsTypeOK, Depots
  <2>2. CASE Price * n + Fee <= memory[p].bank
             /\ memory' = [memory EXCEPT ![p] = Plus(@, -(Price * n + Fee), 0, 0)]
    <3>1. Plus(memory[p], -(Price * n + Fee), 0, 0) \in Goods
      BY <2>0, <2>2, MineAre DEF Plus, Goods
    <3> QED
      BY <2>2, <3>1 DEF GoodsTypeOK, Depots
  <2> QED
    BY <2>1, <2>2 DEF CreateOffer
<1>2. PICK outcome :
          /\ offers' = IF outcome = "done"
                       THEN [offers EXCEPT ![i] = [owner |-> p, sale |-> sale, amount |-> n]]
                       ELSE offers
          /\ Counted(outcome)
  BY DEF CreateOffer
<1>3. [owner |-> p, sale |-> sale, amount |-> n] \in Offer
  BY DEF Offer
<1>4. spent' \in Nat
  <2>1. spent' = spent + Fee
    BY DEF CreateOffer
  <2> QED
    BY <2>1, GoodsConstants DEF GoodsTypeOK
<1> QED
  BY <1>1, <1>2, <1>3, <1>4, FaultsCounted DEF CreateOffer, GoodsTypeOK, Depots

LEMMA CancelTypes ==
    ASSUME GoodsTypeOK, NEW p \in Players, NEW i \in OfferIds, CancelOffer(p, i)
    PROVE  GoodsTypeOK'
<1> DEFINE n == offers[i].amount
<1>1. i \in Listed /\ n \in Nat /\ Price * n \in Nat
  BY OffersAre, CostIsNatural DEF CancelOffer, OffersOf
<1>2. Plus(memory[p], Price * n, 0, 0) \in Goods /\ Plus(memory[p], 0, 0, n) \in Goods
  BY <1>1, MineAre DEF Plus, Goods
<1>3. memory' \in Depots
  BY <1>2 DEF CancelOffer, GoodsTypeOK, Depots
<1>4. PICK outcome : offers' = Withdrawn(Stores, i, outcome).offers /\ Counted(outcome)
  BY DEF CancelOffer
<1>5. offers' \in Market
  <2>1. Withdrawn(Stores, i, outcome) \in AllStores
    BY StoresAreStores, WithdrawnStores
  <2> QED
    BY <1>4, <2>1 DEF AllStores
<1> QED
  BY <1>3, <1>4, <1>5, FaultsCounted DEF CancelOffer, GoodsTypeOK, Depots, Market

LEMMA BuyOfferTypes ==
    ASSUME GoodsTypeOK, NEW p \in Players, NEW i \in OfferIds, NEW n \in 1 .. MaxAmount,
           AcceptBuyOffer(p, i, n)
    PROVE  GoodsTypeOK'
<1> DEFINE buyer == offers[i].owner
           sold == Paid(Stores, p, n)
<1>1. i \in Listed /\ n \in Nat /\ n <= offers[i].amount /\ n <= memory[p].depot
  <2>1. n \in Nat
    BY GoodsConstants
  <2> QED
    BY <2>1 DEF AcceptBuyOffer
<1>2. sold \in AllStores /\ sold.offers = offers
  BY <1>1, StoresAreStores, PaidStores
<1>3. PICK outcome :
          /\ Settled(IF LoadFails(buyer, outcome) THEN sold
                     ELSE Reduced(Delivered(sold, buyer, n, outcome), i, n, outcome))
          /\ Counted(outcome)
  BY DEF AcceptBuyOffer
<1>4. OtherTypes'
  BY <1>3, FaultsCounted DEF AcceptBuyOffer, OtherTypes, GoodsTypeOK
<1> HIDE DEF sold
<1>5. CASE LoadFails(buyer, outcome)
  <2>1. Settled(sold)
    BY <1>3, <1>5
  <2> QED
    BY <1>2, <1>4, <2>1, SettledTypes
<1>6. CASE ~LoadFails(buyer, outcome)
  <2> DEFINE s == Delivered(sold, buyer, n, outcome)
  <2>1. s \in AllStores
    BY <1>1, <1>2, OffersAre, DeliveredStores
  <2>2. s.offers = offers
    BY <1>2 DEF Delivered, AllStores
  <2>3. offers[i] \in Offer
    BY <1>1, OffersAre
  <2>4. Settled(Reduced(s, i, n, outcome))
    BY <1>3, <1>6
  <2> HIDE DEF s
  <2>5. Reduced(s, i, n, outcome) \in AllStores
    BY <1>1, <2>1, <2>2, <2>3, ReducedStores
  <2> QED
    BY <1>4, <2>4, <2>5, SettledTypes
<1> QED
  BY <1>5, <1>6

LEMMA SellOfferTypes ==
    ASSUME GoodsTypeOK, NEW p \in Players, NEW i \in OfferIds, NEW n \in 1 .. MaxAmount,
           AcceptSellOffer(p, i, n)
    PROVE  GoodsTypeOK'
<1> DEFINE seller == offers[i].owner
           bought == Bought(Stores, p, n)
<1>1. i \in Listed /\ n \in Nat /\ n <= offers[i].amount /\ Price * n <= memory[p].bank
  <2>1. n \in Nat
    BY GoodsConstants
  <2> QED
    BY <2>1 DEF AcceptSellOffer
<1>2. bought \in AllStores /\ bought.offers = offers
  BY <1>1, StoresAreStores, BoughtStores
<1>3. PICK outcome :
          /\ Settled(Reduced(Credited(bought, seller, Price * n, outcome), i, n, outcome))
          /\ Counted(outcome)
  BY DEF AcceptSellOffer
<1>4. OtherTypes'
  BY <1>3, FaultsCounted DEF AcceptSellOffer, OtherTypes, GoodsTypeOK
<1> HIDE DEF bought
<1> DEFINE s == Credited(bought, seller, Price * n, outcome)
<1>5. s \in AllStores
  <2>1. Price * n \in Nat
    BY <1>1, CostIsNatural
  <2> QED
    BY <1>1, <1>2, <2>1, OffersAre, CreditedStores
<1>6. s.offers = offers
  BY <1>2 DEF Credited, AllStores
<1>7. offers[i] \in Offer
  BY <1>1, OffersAre
<1>8. Settled(Reduced(s, i, n, outcome))
  BY <1>3
<1> HIDE DEF s
<1>9. Reduced(s, i, n, outcome) \in AllStores
  BY <1>1, <1>5, <1>6, <1>7, ReducedStores
<1> QED
  BY <1>4, <1>8, <1>9, SettledTypes

LEMMA ExpiryTypes ==
    ASSUME GoodsTypeOK, NEW i \in OfferIds, ExpireBuyOffer(i) \/ ExpireSellOffer(i)
    PROVE  GoodsTypeOK'
<1> DEFINE owner == offers[i].owner
           n == offers[i].amount
<1>1. i \in Listed /\ owner \in Players /\ n \in Nat /\ Price * n \in Nat
  BY OffersAre, CostIsNatural DEF ExpireBuyOffer, ExpireSellOffer
<1>2. Stores \in AllStores
  BY StoresAreStores
<1>3. CASE ExpireBuyOffer(i)
  <2>1. PICK outcome :
            /\ Settled(Withdrawn(Credited(Stores, owner, Price * n, outcome), i, outcome))
            /\ Counted(outcome)
    BY <1>3 DEF ExpireBuyOffer
  <2>2. Withdrawn(Credited(Stores, owner, Price * n, outcome), i, outcome) \in AllStores
    BY <1>1, <1>2, CreditedStores, WithdrawnStores
  <2>3. OtherTypes'
    BY <1>3, <2>1, FaultsCounted DEF ExpireBuyOffer, OtherTypes, GoodsTypeOK
  <2> QED
    BY <2>1, <2>2, <2>3, SettledTypes
<1>4. CASE ExpireSellOffer(i)
  <2>1. PICK outcome :
            /\ Settled(IF LoadFails(owner, outcome) THEN Stores
                       ELSE Withdrawn(Delivered(Stores, owner, n, outcome), i, outcome))
            /\ Counted(outcome)
    BY <1>4 DEF ExpireSellOffer
  <2>2. Withdrawn(Delivered(Stores, owner, n, outcome), i, outcome) \in AllStores
    BY <1>1, <1>2, DeliveredStores, WithdrawnStores
  <2>3. OtherTypes'
    BY <1>4, <2>1, FaultsCounted DEF ExpireSellOffer, OtherTypes, GoodsTypeOK
  <2> QED
    BY <1>2, <2>1, <2>2, <2>3, SettledTypes
<1> QED
  BY <1>3, <1>4


LEMMA VacatedEstates ==
    ASSUME GoodsTypeOK, NEW owner \in Players \cup {NoOwner}, NEW outcome
    PROVE  Vacated(owner, outcome) \in Estates
<1> DEFINE left == IF LoadFails(house.owner, outcome) THEN house.floor ELSE 0
<1>1. left \in Nat /\ 0 \in 0 .. MaxWarnings
  BY HouseIs, GoodsConstants
<1>2. Vacated(owner, outcome) = [owner |-> owner, floor |-> left, warnings |-> 0]
  BY DEF Vacated
<1> HIDE DEF left
<1> QED
  BY <1>1, <1>2 DEF Estates

LEMMA HouseTypes ==
    ASSUME GoodsTypeOK, NEW owner \in Players \cup {NoOwner}, SetHouseOwner(owner)
    PROVE  GoodsTypeOK'
<1> DEFINE p == house.owner
<1>1. p \in Players /\ house.floor \in Nat
  BY HouseIs DEF SetHouseOwner
<1>2. PICK outcome : /\ Settled(Cleared(Stores, outcome))
                     /\ house' = Vacated(owner, outcome)
                     /\ Counted(outcome)
  BY DEF SetHouseOwner
<1>3. Cleared(Stores, outcome) \in AllStores
  BY <1>1, StoresAreStores, DeliveredStores DEF Cleared
<1>4. house' \in Estates
  BY <1>2, VacatedEstates
<1>5. OtherTypes'
  BY <1>2, <1>4, FaultsCounted DEF SetHouseOwner, OtherTypes, GoodsTypeOK
<1> QED
  BY <1>2, <1>3, <1>5, SettledTypes

LEMMA RentTypes ==
    ASSUME GoodsTypeOK, PayRent
    PROVE  GoodsTypeOK'
<1> DEFINE p == house.owner
<1>1. p \in Players /\ Rent <= Holding(p).bank
  BY HouseIs DEF PayRent
<1>2. PICK outcome : /\ Settled(PaidRent(Stores, p, outcome))
                     /\ spent' = IF outcome = "not saved" THEN spent ELSE spent + Rent
                     /\ Counted(outcome)
  BY DEF PayRent
<1>3. memory[p].bank >= Rent \/ ~Online(p)
  BY <1>1, MineAre, GoodsConstants DEF Holding
<1>4. record[p].bank >= Rent \/ Online(p)
  BY <1>1, MineAre, GoodsConstants DEF Holding
<1>5. PaidRent(Stores, p, outcome) \in AllStores
  BY <1>1, <1>3, <1>4, StoresAreStores, PaidRentStores
<1>6. spent' \in Nat
  <2>1. spent' = spent \/ spent' = spent + Rent
    BY <1>2
  <2> QED
    BY <2>1, GoodsConstants DEF GoodsTypeOK
<1>7. OtherTypes'
  BY <1>2, <1>6, FaultsCounted DEF PayRent, OtherTypes, GoodsTypeOK
<1> QED
  BY <1>2, <1>5, <1>7, SettledTypes

LEMMA WarningTypes ==
    ASSUME GoodsTypeOK, WarnOwner
    PROVE  GoodsTypeOK'
<1> DEFINE p == house.owner
<1>1. p \in Players /\ house.warnings < MaxWarnings
      /\ house' = [house EXCEPT !.warnings = @ + 1]
  BY HouseIs DEF WarnOwner
<1>2. PICK outcome : Settled(Delivered(Stores, p, 0, outcome)) /\ Counted(outcome)
  BY DEF WarnOwner
<1>3. Delivered(Stores, p, 0, outcome) \in AllStores
  BY <1>1, StoresAreStores, DeliveredStores
<1>4. house' \in Estates
  <2>1. house.warnings + 1 \in 0 .. MaxWarnings
    BY <1>1, HouseIs, GoodsConstants
  <2> QED
    BY <1>1, <2>1 DEF GoodsTypeOK, Estates
<1>5. OtherTypes'
  BY <1>2, <1>4, FaultsCounted DEF WarnOwner, OtherTypes, GoodsTypeOK
<1> QED
  BY <1>2, <1>3, <1>5, SettledTypes

LEMMA EvictionTypes ==
    ASSUME GoodsTypeOK, Evict
    PROVE  GoodsTypeOK'
<1> DEFINE p == house.owner
<1>1. p \in Players /\ house.floor \in Nat
  BY HouseIs DEF Evict
<1>2. PICK outcome :
          /\ Settled(IF Online(p) \/ outcome = "not saved" THEN Cleared(Stores, "done")
                     ELSE Delivered(Stores, p, 0, outcome))
          /\ house' = Vacated(NoOwner, outcome)
          /\ lost' = IF Online(p) \/ outcome \in {"not saved", "no player"} THEN lost
                     ELSE lost + house.floor
          /\ Counted(outcome)
  BY DEF Evict
<1>3. Cleared(Stores, "done") \in AllStores /\ Delivered(Stores, p, 0, outcome) \in AllStores
  BY <1>1, StoresAreStores, DeliveredStores DEF Cleared
<1>4. house' \in Estates
  BY <1>2, VacatedEstates
<1>5. lost' \in Nat
  <2>1. lost' = lost \/ lost' = lost + house.floor
    BY <1>2
  <2> QED
    BY <1>1, <2>1 DEF GoodsTypeOK
<1>6. OtherTypes'
  BY <1>2, <1>4, <1>5, FaultsCounted DEF Evict, OtherTypes, GoodsTypeOK
<1> QED
  BY <1>2, <1>3, <1>6, SettledTypes

LEMMA SavingTypes ==
    ASSUME GoodsTypeOK, SaveGameState \/ SaveHouseInfo \/ SaveHouseItems
    PROVE  GoodsTypeOK'
<1>1. CASE SaveGameState
  BY <1>1 DEF SaveGameState, stores, GoodsTypeOK
<1>2. CASE SaveHouseInfo
  <2>1. PICK outcome :
            /\ \/ /\ houseRecord' = [house EXCEPT !.floor = houseRecord.floor]
                  /\ todo' = todo \ {Houses}
               \/ todo' = {} /\ houseRecord' = houseRecord
            /\ Counted(outcome)
    BY <1>2 DEF SaveHouseInfo
  <2>2. houseRecord' \in Estates
    BY <2>1 DEF GoodsTypeOK, Estates
  <2> QED
    BY <1>2, <2>1, <2>2, FaultsCounted DEF SaveHouseInfo, stores, GoodsTypeOK
<1>3. CASE SaveHouseItems
  <2>1. PICK outcome :
            /\ houseRecord' = IF outcome = "done" THEN [houseRecord EXCEPT !.floor = house.floor]
                              ELSE houseRecord
            /\ Counted(outcome)
    BY <1>3 DEF SaveHouseItems
  <2>2. houseRecord' \in Estates
    BY <2>1 DEF GoodsTypeOK, Estates
  <2> QED
    BY <1>3, <2>1, <2>2, FaultsCounted DEF SaveHouseItems, stores, GoodsTypeOK
<1> QED
  BY <1>1, <1>2, <1>3

LEMMA SavePlayerTypes ==
    ASSUME GoodsTypeOK, NEW p \in Players, SavePlayer(p)
    PROVE  GoodsTypeOK'
<1>1. PICK outcome :
          /\ record' = IF outcome = "done" THEN [record EXCEPT ![p] = Saved(Stores, p)] ELSE record
          /\ Counted(outcome)
  BY DEF SavePlayer
<1>2. Saved(Stores, p) \in Goods
  BY StoresAreStores, SavedGoods
<1> QED
  BY <1>1, <1>2, FaultsCounted DEF SavePlayer, GoodsTypeOK

LEMMA OtherStepTypes ==
    ASSUME GoodsTypeOK,
           \/ \E p \in Players : BuyHouse(p)
           \/ \E expired \in SUBSET Listed : CheckExpiredMarketOffers(expired)
           \/ Crash
           \/ UNCHANGED goodsVars
    PROVE  GoodsTypeOK'
<1>1. ASSUME NEW p \in Players, BuyHouse(p)
      PROVE  GoodsTypeOK'
  <2>1. house' \in Estates
    BY <1>1 DEF BuyHouse, GoodsTypeOK, Estates
  <2> QED
    BY <1>1, <2>1 DEF BuyHouse, stores, GoodsTypeOK
<1>2. ASSUME NEW expired \in SUBSET Listed, CheckExpiredMarketOffers(expired)
      PROVE  GoodsTypeOK'
  <2>1. todo' \in (SUBSET (Players \cup {Houses, Floors})) \cup (SUBSET OfferIds)
    BY <1>2 DEF CheckExpiredMarketOffers, Listed
  <2> QED
    BY <1>2, <2>1 DEF CheckExpiredMarketOffers, stores, GoodsTypeOK
<1>3. CASE Crash
  <2>1. Nothing \in Goods
    BY DEF Nothing, Goods
  <2> QED
    BY <1>3, <2>1 DEF Crash, GoodsTypeOK, Sessions
<1>4. CASE UNCHANGED goodsVars
  BY <1>4 DEF goodsVars, GoodsTypeOK
<1> QED
  BY <1>1, <1>2, <1>3, <1>4


LEMMA TypesGoOn == GoodsTypeOK /\ [GoodsNext]_goodsVars => GoodsTypeOK'
<1> SUFFICES ASSUME GoodsTypeOK, [GoodsNext]_goodsVars PROVE GoodsTypeOK'
  OBVIOUS
<1>1. ASSUME NEW p \in Players,
             \/ Login(p) \/ Logout(p) \/ OpenLocker(p) \/ EnterMarket(p) \/ LeaveMarket(p)
             \/ Store(p) \/ Fetch(p) \/ Drop(p) \/ PickUp(p) \/ SavePlayer(p)
      PROVE  GoodsTypeOK'
  BY <1>1, SessionTypes, HandTypes, SavePlayerTypes
<1>2. ASSUME NEW p \in Players, NEW q \in Players, SendItem(p, q)
      PROVE  GoodsTypeOK'
  BY <1>2, SendItemTypes
<1>3. ASSUME NEW p \in Players, NEW i \in OfferIds, CancelOffer(p, i)
      PROVE  GoodsTypeOK'
  BY <1>3, CancelTypes
<1>4. ASSUME NEW p \in Players, NEW i \in OfferIds, NEW n \in 1 .. MaxAmount,
             \/ \E sale \in {"buy", "sell"} : CreateOffer(p, i, sale, n)
             \/ AcceptBuyOffer(p, i, n) \/ AcceptSellOffer(p, i, n)
      PROVE  GoodsTypeOK'
  BY <1>4, OfferingTypes, BuyOfferTypes, SellOfferTypes
<1>5. ASSUME NEW i \in OfferIds, ExpireBuyOffer(i) \/ ExpireSellOffer(i)
      PROVE  GoodsTypeOK'
  BY <1>5, ExpiryTypes
<1>6. ASSUME NEW owner \in Players \cup {NoOwner}, SetHouseOwner(owner)
      PROVE  GoodsTypeOK'
  BY <1>6, HouseTypes
<1>7. CASE PayRent \/ WarnOwner \/ Evict \/ SaveGameState \/ SaveHouseInfo \/ SaveHouseItems
  BY <1>7, RentTypes, WarningTypes, EvictionTypes, SavingTypes
<1> QED
  BY <1>1, <1>2, <1>3, <1>4, <1>5, <1>6, <1>7, OtherStepTypes DEF GoodsNext

LEMMA TypesBegin == GoodsInit => GoodsTypeOK
<1> SUFFICES ASSUME GoodsInit PROVE GoodsTypeOK
  OBVIOUS
<1>1. record \in [Players -> Goods] /\ memory \in [Players -> Goods]
  BY GoodsConstants DEF GoodsInit, Nothing, Goods
<1>2. house \in Estates /\ houseRecord \in Estates
  BY GoodsConstants DEF GoodsInit, Estates
<1> QED
  BY <1>1, <1>2 DEF GoodsInit, GoodsTypeOK, Sessions

\* Types, for any players, offers, prices and any number of faults: no store
\* ever gives what it does not have.
THEOREM GoodsTypes == GoodsSpec => []GoodsTypeOK
  BY TypesBegin, TypesGoOn, PTL DEF GoodsSpec

----------------------------------------------------------------------------
(***************************************************************************)
(* A player with an open locker is marked already, so are changes there.   *)
(***************************************************************************)
Marked(s) ==
    \A p \in Players :
        /\ session[p] \in {"locker", "market"} => p \in s.changed
        /\ Online(p) /\ p \notin s.changed => s.memory[p].depot = s.record[p].depot

MarksInv == faults = 0 => Marked(Stores)

LEMMA NoFault ==
    ASSUME GoodsTypeOK, NEW outcome, Counted(outcome), faults' = 0
    PROVE  outcome = "done" /\ faults = 0
  BY DEF GoodsTypeOK, Counted

LEMMA SettledMarks ==
    ASSUME NEW s, Marked(s), Settled(s), session' = session
    PROVE  Marked(Stores)'
  BY DEF Settled, Marked, Stores, Online

LEMMA MarksCarry ==
    ASSUME NEW s, NEW t, Marked(s), s.changed \subseteq t.changed,
           \A q \in Players : Online(q) /\ q \notin t.changed =>
               t.memory[q].depot = s.memory[q].depot /\ t.record[q].depot = s.record[q].depot
    PROVE  Marked(t)
<1>1. ASSUME NEW q \in Players, session[q] \in {"locker", "market"}
      PROVE  q \in t.changed
  BY <1>1 DEF Marked
<1>2. ASSUME NEW q \in Players, Online(q), q \notin t.changed
      PROVE  t.memory[q].depot = t.record[q].depot
  <2>1. s.memory[q].depot = s.record[q].depot
    BY <1>2 DEF Marked
  <2> QED
    BY <1>2, <2>1
<1> QED
  BY <1>1, <1>2 DEF Marked

LEMMA DeliveredMarks ==
    ASSUME NEW s \in AllStores, Marked(s), NEW p \in Players, NEW n \in Nat
    PROVE  Marked(Delivered(s, p, n, "done"))
<1> DEFINE t == Delivered(s, p, n, "done")
<1>1. CASE Online(p)
  <2>1. /\ t.changed = s.changed \cup {p} /\ t.record = s.record
        /\ \A q \in Players \ {p} : t.memory[q] = s.memory[q]
    BY <1>1 DEF Delivered, AllStores, Depots
  <2> HIDE DEF t
  <2>2. Marked(t)
    BY <2>1, MarksCarry
  <2> QED
    BY <2>2 DEF t
<1>2. CASE ~Online(p)
  <2>1. /\ t.changed = s.changed /\ t.memory = s.memory
        /\ \A q \in Players \ {p} : t.record[q] = s.record[q]
    BY <1>2 DEF Delivered, AllStores, Depots
  <2> HIDE DEF t
  <2>2. Marked(t)
    BY <1>2, <2>1, MarksCarry
  <2> QED
    BY <2>2 DEF t
<1> QED
  BY <1>1, <1>2

LEMMA CreditedMarks ==
    ASSUME NEW s \in AllStores, Marked(s), NEW p \in Players, NEW coins \in Nat
    PROVE  Marked(Credited(s, p, coins, "done"))
<1> DEFINE t == Credited(s, p, coins, "done")
<1>1. CASE Online(p)
  <2>1. t = InMemory(s, p, Plus(s.memory[p], coins, 0, 0))
    BY <1>1 DEF Credited, InMemory
  <2>2. Plus(s.memory[p], coins, 0, 0).depot = s.memory[p].depot
    BY MemoryGoods, GoodsAreNatural DEF Plus
  <2>3. /\ t.changed = s.changed /\ t.record = s.record
        /\ \A q \in Players : t.memory[q].depot = s.memory[q].depot
    BY <2>1, <2>2 DEF InMemory, AllStores, Depots
  <2> HIDE DEF t
  <2>4. Marked(t)
    BY <2>3, MarksCarry
  <2> QED
    BY <2>4 DEF t
<1>2. CASE ~Online(p)
  <2>1. /\ t.changed = s.changed /\ t.memory = s.memory
        /\ \A q \in Players \ {p} : t.record[q] = s.record[q]
    BY <1>2 DEF Credited, AllStores, Depots
  <2> HIDE DEF t
  <2>2. Marked(t)
    BY <1>2, <2>1, MarksCarry
  <2> QED
    BY <2>2 DEF t
<1> QED
  BY <1>1, <1>2

LEMMA WithdrawnMarks ==
    ASSUME NEW s \in AllStores, Marked(s), NEW i, NEW n, NEW outcome
    PROVE  Marked(Withdrawn(s, i, outcome)) /\ Marked(Reduced(s, i, n, outcome))
<1>1. ASSUME NEW t, t.changed = s.changed, t.memory = s.memory, t.record = s.record
      PROVE  Marked(t)
  BY <1>1 DEF Marked
<1>2. LET t == Withdrawn(s, i, outcome)
      IN  t.changed = s.changed /\ t.memory = s.memory /\ t.record = s.record
  BY DEF Withdrawn, AllStores
<1>3. LET t == Reduced(s, i, n, outcome)
      IN  t.changed = s.changed /\ t.memory = s.memory /\ t.record = s.record
  BY <1>2 DEF Reduced, AllStores
<1> QED
  BY <1>1, <1>2, <1>3

\* Who trades at the market has his locker open.
LEMMA TradedMarks ==
    ASSUME NEW s \in AllStores, Marked(s), NEW p \in Players, AtMarket(p), NEW n \in Nat
    PROVE  Marked(Paid(s, p, n)) /\ Marked(Bought(s, p, n))
<1>1. p \in s.changed
  BY DEF Marked, AtMarket
<1>2. ASSUME NEW g
      PROVE  Marked(InMemory(s, p, g))
  <2> DEFINE t == InMemory(s, p, g)
  <2>1. /\ t.changed = s.changed /\ t.record = s.record
        /\ \A q \in Players \ {p} : t.memory[q] = s.memory[q]
    BY DEF InMemory, AllStores, Depots
  <2> HIDE DEF t
  <2>2. Marked(t)
    BY <1>1, <2>1, MarksCarry
  <2> QED
    BY <2>2 DEF t
<1>3. /\ Paid(s, p, n) = InMemory(s, p, Plus(s.memory[p], Price * n, 0, -n))
      /\ Bought(s, p, n) = InMemory(s, p, Plus(s.memory[p], -(Price * n), 0, n))
  BY DEF Paid, Bought, InMemory
<1> QED
  BY <1>2, <1>3


\* A step without a fault keeps the marks: what each kind of step has to show.
LEMMA SessionMarks ==
    ASSUME GoodsTypeOK, Marked(Stores), faults' = 0, NEW p \in Players,
           Login(p) \/ Logout(p) \/ OpenLocker(p) \/ EnterMarket(p) \/ LeaveMarket(p)
    PROVE  Marked(Stores)'
<1>1. CASE Login(p)
  <2>1. PICK outcome :
            memory' = [memory EXCEPT ![p] = Loaded(record[p], outcome)] /\ Counted(outcome)
    BY <1>1 DEF Login
  <2>2. memory' = [memory EXCEPT ![p] = record[p]]
    BY <2>1, NoFault DEF Loaded
  <2> QED
    BY <1>1, <2>2 DEF Login, Marked, Stores, Online, GoodsTypeOK
<1>2. CASE Logout(p)
  <2>1. \A q \in Players \ {p} : record'[q] = record[q] /\ memory'[q] = memory[q]
    BY <1>2 DEF Logout, GoodsTypeOK
  <2> QED
    BY <1>2, <2>1 DEF Logout, Marked, Stores, Online, GoodsTypeOK
<1>3. CASE OpenLocker(p)
  BY <1>3 DEF OpenLocker, Marked, Stores, Online, GoodsTypeOK
<1>4. CASE EnterMarket(p) \/ LeaveMarket(p)
  BY <1>4 DEF EnterMarket, LeaveMarket, AtMarket, stores, Marked, Stores, Online, GoodsTypeOK
<1> QED
  BY <1>1, <1>2, <1>3, <1>4

LEMMA HandMarks ==
    ASSUME GoodsTypeOK, Marked(Stores), NEW p \in Players,
           Store(p) \/ Fetch(p) \/ Drop(p) \/ PickUp(p)
    PROVE  Marked(Stores)'
<1>1. CASE Store(p) \/ Fetch(p)
  <2>1. p \in depotChange
    BY <1>1 DEF Store, Fetch, Marked, Stores
  <2>2. \A q \in Players \ {p} : memory'[q] = memory[q]
    BY <1>1 DEF Store, Fetch, GoodsTypeOK
  <2> QED
    BY <1>1, <2>1, <2>2 DEF Store, Fetch, Marked, Stores, Online
<1>2. CASE Drop(p) \/ PickUp(p)
  <2>1. \A q \in Players : memory'[q].depot = memory[q].depot
    <3>1. Plus(memory[p], 0, -1, 0).depot = memory[p].depot
          /\ Plus(memory[p], 0, 1, 0).depot = memory[p].depot
      BY MineAre DEF Plus
    <3> QED
      BY <1>2, <3>1 DEF Drop, PickUp, GoodsTypeOK
  <2> QED
    BY <1>2, <2>1 DEF Drop, PickUp, Marked, Stores, Online
<1> QED
  BY <1>1, <1>2

LEMMA SendItemMarks ==
    ASSUME GoodsTypeOK, Marked(Stores), faults' = 0, NEW p \in Players, NEW q \in Players,
           SendItem(p, q)
    PROVE  Marked(Stores)'
<1> DEFINE g == Plus(memory[p], 0, -1, 0)
           s == InMemory(Stores, p, g)
<1>1. PICK outcome : Settled(Delivered(s, q, 1, outcome)) /\ Counted(outcome)
  BY StoresAreStores DEF SendItem, InMemory
<1>2. g \in Goods /\ g.depot = memory[p].depot
  <2>1. memory[p].pack > 0
    BY DEF SendItem
  <2> QED
    BY <2>1, MineAre DEF Plus, Goods
<1>3. s \in AllStores
  BY <1>2, StoresAreStores, InStores
<1>4. /\ s.changed = Stores.changed /\ s.record = Stores.record
      /\ \A r \in Players : s.memory[r].depot = Stores.memory[r].depot
  BY <1>2, StoresAreStores DEF InMemory, AllStores, Depots
<1>5. Settled(Delivered(s, q, 1, "done")) /\ session' = session
  BY <1>1, NoFault DEF SendItem
<1> HIDE DEF s
<1>6. Marked(s)
  BY <1>4, MarksCarry
<1> QED
  BY <1>3, <1>5, <1>6, DeliveredMarks, SettledMarks

LEMMA OfferMarks ==
    ASSUME GoodsTypeOK, Marked(Stores), NEW p \in Players, NEW i \in OfferIds,
           CancelOffer(p, i) \/ \E n \in 1 .. MaxAmount, sale \in {"buy", "sell"} :
                                    CreateOffer(p, i, sale, n)
    PROVE  Marked(Stores)'
<1>1. session[p] = "market" /\ UNCHANGED <<session, record, depotChange>>
  BY DEF CancelOffer, CreateOffer, AtMarket
<1>2. p \in depotChange
  BY <1>1 DEF Marked, Stores
<1>3. \A q \in Players \ {p} : memory'[q] = memory[q]
  BY DEF CancelOffer, CreateOffer, GoodsTypeOK
<1> QED
  BY <1>1, <1>2, <1>3 DEF Marked, Stores, Online

LEMMA BuyOfferMarks ==
    ASSUME GoodsTypeOK, Marked(Stores), faults' = 0, NEW p \in Players, NEW i \in OfferIds,
           NEW n \in 1 .. MaxAmount, AcceptBuyOffer(p, i, n)
    PROVE  Marked(Stores)'
<1> DEFINE buyer == offers[i].owner
           sold == Paid(Stores, p, n)
           s == Delivered(sold, buyer, n, "done")
<1>1. /\ i \in Listed /\ n \in Nat /\ n <= memory[p].depot /\ AtMarket(p) /\ session' = session
  <2>1. n \in Nat
    BY GoodsConstants
  <2> QED
    BY <2>1 DEF AcceptBuyOffer
<1>2. Settled(Reduced(s, i, n, "done"))
  BY NoFault DEF AcceptBuyOffer, LoadFails
<1>3. sold \in AllStores /\ Marked(sold)
  BY <1>1, StoresAreStores, PaidStores, TradedMarks
<1> HIDE DEF sold
<1>4. s \in AllStores /\ Marked(s)
  BY <1>1, <1>3, OffersAre, DeliveredStores, DeliveredMarks
<1> HIDE DEF s
<1>5. Marked(Reduced(s, i, n, "done"))
  BY <1>4, WithdrawnMarks
<1> QED
  BY <1>1, <1>2, <1>5, SettledMarks

LEMMA SellOfferMarks ==
    ASSUME GoodsTypeOK, Marked(Stores), faults' = 0, NEW p \in Players, NEW i \in OfferIds,
           NEW n \in 1 .. MaxAmount, AcceptSellOffer(p, i, n)
    PROVE  Marked(Stores)'
<1> DEFINE seller == offers[i].owner
           bought == Bought(Stores, p, n)
           s == Credited(bought, seller, Price * n, "done")
<1>1. /\ i \in Listed /\ n \in Nat /\ Price * n <= memory[p].bank /\ AtMarket(p)
      /\ session' = session /\ Price * n \in Nat
  <2>1. n \in Nat /\ Price * n \in Nat
    BY GoodsConstants, CostIsNatural
  <2> QED
    BY <2>1 DEF AcceptSellOffer
<1>2. Settled(Reduced(s, i, n, "done"))
  BY NoFault DEF AcceptSellOffer
<1>3. bought \in AllStores /\ Marked(bought)
  BY <1>1, StoresAreStores, BoughtStores, TradedMarks
<1> HIDE DEF bought
<1>4. s \in AllStores /\ Marked(s)
  BY <1>1, <1>3, OffersAre, CreditedStores, CreditedMarks
<1> HIDE DEF s
<1>5. Marked(Reduced(s, i, n, "done"))
  BY <1>4, WithdrawnMarks
<1> QED
  BY <1>1, <1>2, <1>5, SettledMarks

LEMMA ExpiryMarks ==
    ASSUME GoodsTypeOK, Marked(Stores), faults' = 0, NEW i \in OfferIds,
           ExpireBuyOffer(i) \/ ExpireSellOffer(i)
    PROVE  Marked(Stores)'
<1> DEFINE owner == offers[i].owner
           n == offers[i].amount
           s == Credited(Stores, owner, Price * n, "done")
           t == Delivered(Stores, owner, n, "done")
<1>1. i \in Listed /\ owner \in Players /\ n \in Nat /\ Price * n \in Nat /\ session' = session
  BY OffersAre, CostIsNatural DEF ExpireBuyOffer, ExpireSellOffer
<1>2. s \in AllStores /\ Marked(s) /\ t \in AllStores /\ Marked(t)
  BY <1>1, StoresAreStores, CreditedStores, CreditedMarks, DeliveredStores, DeliveredMarks
<1>3. Settled(Withdrawn(s, i, "done")) \/ Settled(Withdrawn(t, i, "done"))
  <2>1. CASE ExpireBuyOffer(i)
    BY <2>1, NoFault DEF ExpireBuyOffer
  <2>2. CASE ExpireSellOffer(i)
    BY <2>2, NoFault DEF ExpireSellOffer, LoadFails
  <2> QED
    BY <2>1, <2>2
<1> HIDE DEF s, t
<1>4. Marked(Withdrawn(s, i, "done")) /\ Marked(Withdrawn(t, i, "done"))
  BY <1>2, WithdrawnMarks
<1> QED
  BY <1>1, <1>3, <1>4, SettledMarks

LEMMA ClearedMarks ==
    ASSUME GoodsTypeOK, Marked(Stores), house.owner \in Players
    PROVE  Marked(Cleared(Stores, "done"))
  BY HouseIs, StoresAreStores, DeliveredMarks DEF Cleared

LEMMA HouseMarks ==
    ASSUME GoodsTypeOK, Marked(Stores), faults' = 0,
           \/ \E owner \in Players \cup {NoOwner} : SetHouseOwner(owner)
           \/ WarnOwner \/ Evict
    PROVE  Marked(Stores)'
<1>1. house.owner \in Players /\ session' = session
  BY HouseIs DEF SetHouseOwner, WarnOwner, Evict
<1>2. \/ Settled(Cleared(Stores, "done")) \/ Settled(Delivered(Stores, house.owner, 0, "done"))
  <2>1. CASE \E owner \in Players \cup {NoOwner} : SetHouseOwner(owner)
    <3>1. PICK outcome : Settled(Cleared(Stores, outcome)) /\ Counted(outcome)
      BY <2>1 DEF SetHouseOwner
    <3>2. outcome = "done"
      BY <3>1, NoFault
    <3> QED
      BY <3>1, <3>2
  <2>2. CASE WarnOwner
    <3>1. PICK outcome : Settled(Delivered(Stores, house.owner, 0, outcome)) /\ Counted(outcome)
      BY <2>2 DEF WarnOwner
    <3>2. outcome = "done"
      BY <3>1, NoFault
    <3> QED
      BY <3>1, <3>2
  <2>3. CASE Evict
    <3>1. PICK outcome :
              /\ Settled(IF Online(house.owner) \/ outcome = "not saved" THEN Cleared(Stores, "done")
                         ELSE Delivered(Stores, house.owner, 0, outcome))
              /\ Counted(outcome)
      BY <2>3 DEF Evict
    <3>2. outcome = "done"
      BY <3>1, NoFault
    <3> QED
      BY <3>1, <3>2
  <2> QED
    BY <2>1, <2>2, <2>3
<1> QED
  BY <1>1, <1>2, StoresAreStores, DeliveredMarks, ClearedMarks, SettledMarks


LEMMA RentMarks ==
    ASSUME GoodsTypeOK, Marked(Stores), PayRent
    PROVE  Marked(Stores)'
<1> DEFINE p == house.owner
<1>1. p \in Players /\ session' = session
  BY HouseIs DEF PayRent
<1>2. PICK outcome : Settled(PaidRent(Stores, p, outcome))
  BY DEF PayRent
<1> DEFINE t == PaidRent(Stores, p, outcome)
<1>3. Marked(t)
  <2>1. CASE Online(p)
    <3>1. t = InMemory(Stores, p, Plus(memory[p], -Rent, 0, 0))
      BY <2>1, StoresAreStores DEF PaidRent, InMemory
    <3>2. Plus(memory[p], -Rent, 0, 0).depot = memory[p].depot
      BY <1>1, MineAre DEF Plus
    <3>3. /\ t.changed = Stores.changed /\ t.record = Stores.record
          /\ \A q \in Players : t.memory[q].depot = Stores.memory[q].depot
      BY <3>1, <3>2, StoresAreStores DEF InMemory, AllStores, Depots
    <3> HIDE DEF t
    <3> QED
      BY <3>3, MarksCarry
  <2>2. CASE ~Online(p)
    <3>1. /\ t.changed = Stores.changed /\ t.memory = Stores.memory
          /\ \A q \in Players \ {p} : t.record[q] = Stores.record[q]
      BY <2>2, StoresAreStores DEF PaidRent, AllStores, Depots
    <3> HIDE DEF t
    <3> QED
      BY <2>2, <3>1, MarksCarry
  <2> QED
    BY <2>1, <2>2
<1> HIDE DEF t
<1> QED
  BY <1>1, <1>2, <1>3, SettledMarks DEF t

LEMMA SavingMarks ==
    ASSUME GoodsTypeOK, Marked(Stores), NEW p \in Players, SavePlayer(p)
    PROVE  Marked(Stores)'
<1>1. \A q \in Players \ {p} : record'[q] = record[q]
  BY DEF SavePlayer, GoodsTypeOK
<1>2. p \in depotChange \/ record'[p].depot = record[p].depot
  <2>1. p \notin depotChange => Saved(Stores, p).depot = record[p].depot
    BY StoresAreStores, MineAre DEF Saved, Goods
  <2>2. record'[p] = record[p] \/ record'[p] = Saved(Stores, p)
    BY DEF SavePlayer, GoodsTypeOK
  <2> QED
    BY <2>1, <2>2
<1> QED
  BY <1>1, <1>2 DEF SavePlayer, Marked, Stores, Online

LEMMA OtherMarks ==
    ASSUME GoodsTypeOK, Marked(Stores), UNCHANGED <<session, memory, record, depotChange>>
    PROVE  Marked(Stores)'
  BY DEF Marked, Stores, Online

LEMMA FaultsAre ==
    ASSUME [GoodsNext]_goodsVars
    PROVE  faults' = faults \/ faults' = faults + 1
<1>1. ASSUME NEW outcome, Counted(outcome)
      PROVE  faults' = faults \/ faults' = faults + 1
  BY <1>1 DEF Counted
<1>2. ASSUME NEW p \in Players,
             \/ Login(p) \/ Logout(p) \/ OpenLocker(p) \/ EnterMarket(p) \/ LeaveMarket(p)
             \/ Store(p) \/ Fetch(p) \/ Drop(p) \/ PickUp(p) \/ BuyHouse(p) \/ SavePlayer(p)
             \/ \E q \in Players : SendItem(p, q)
      PROVE  faults' = faults \/ faults' = faults + 1
  BY <1>1, <1>2 DEF Login, Logout, OpenLocker, EnterMarket, LeaveMarket, Store, Fetch, Drop,
                    PickUp, BuyHouse, SavePlayer, SendItem
<1>3. ASSUME NEW p \in Players, NEW i \in OfferIds,
             CancelOffer(p, i) \/ \E n \in 1 .. MaxAmount :
                                      \/ \E sale \in {"buy", "sell"} : CreateOffer(p, i, sale, n)
                                      \/ AcceptBuyOffer(p, i, n) \/ AcceptSellOffer(p, i, n)
      PROVE  faults' = faults \/ faults' = faults + 1
  BY <1>1, <1>3 DEF CancelOffer, CreateOffer, AcceptBuyOffer, AcceptSellOffer
<1>4. ASSUME NEW i \in OfferIds, ExpireBuyOffer(i) \/ ExpireSellOffer(i)
      PROVE  faults' = faults \/ faults' = faults + 1
  BY <1>1, <1>4 DEF ExpireBuyOffer, ExpireSellOffer
<1>5. ASSUME NEW owner \in Players \cup {NoOwner}, SetHouseOwner(owner)
      PROVE  faults' = faults \/ faults' = faults + 1
  BY <1>1, <1>5 DEF SetHouseOwner
<1>6. CASE PayRent \/ WarnOwner \/ Evict
  BY <1>1, <1>6 DEF PayRent, WarnOwner, Evict
<1>7. CASE \/ \E expired \in SUBSET Listed : CheckExpiredMarketOffers(expired)
           \/ SaveGameState \/ SaveHouseInfo \/ SaveHouseItems \/ Crash
           \/ UNCHANGED goodsVars
  BY <1>1, <1>7 DEF CheckExpiredMarketOffers, SaveGameState, SaveHouseInfo, SaveHouseItems,
                    Crash, goodsVars
<1> QED
  BY <1>2, <1>3, <1>4, <1>5, <1>6, <1>7 DEF GoodsNext

LEMMA MarksGoOn == GoodsTypeOK /\ MarksInv /\ [GoodsNext]_goodsVars => MarksInv'
<1> SUFFICES ASSUME GoodsTypeOK, MarksInv, [GoodsNext]_goodsVars, faults' = 0
             PROVE  Marked(Stores)'
  BY DEF MarksInv
<1>1. Marked(Stores) /\ ~Crash
  <2>1. faults' = faults \/ faults' = faults + 1
    BY FaultsAre
  <2>2. faults = 0 /\ ~Crash
    BY <2>1 DEF GoodsTypeOK, Crash
  <2> QED
    BY <2>2 DEF MarksInv
<1>2. ASSUME NEW p \in Players,
             \/ Login(p) \/ Logout(p) \/ OpenLocker(p) \/ EnterMarket(p) \/ LeaveMarket(p)
             \/ Store(p) \/ Fetch(p) \/ Drop(p) \/ PickUp(p) \/ SavePlayer(p)
      PROVE  Marked(Stores)'
  BY <1>1, <1>2, SessionMarks, HandMarks, SavingMarks
<1>3. ASSUME NEW p \in Players, NEW q \in Players, SendItem(p, q)
      PROVE  Marked(Stores)'
  BY <1>1, <1>3, SendItemMarks
<1>4. ASSUME NEW p \in Players, NEW i \in OfferIds,
             CancelOffer(p, i) \/ \E n \in 1 .. MaxAmount :
                                      \/ \E sale \in {"buy", "sell"} : CreateOffer(p, i, sale, n)
                                      \/ AcceptBuyOffer(p, i, n) \/ AcceptSellOffer(p, i, n)
      PROVE  Marked(Stores)'
  BY <1>1, <1>4, OfferMarks, BuyOfferMarks, SellOfferMarks
<1>5. ASSUME NEW i \in OfferIds, ExpireBuyOffer(i) \/ ExpireSellOffer(i)
      PROVE  Marked(Stores)'
  BY <1>1, <1>5, ExpiryMarks
<1>6. CASE \/ \E owner \in Players \cup {NoOwner} : SetHouseOwner(owner)
           \/ WarnOwner \/ Evict \/ PayRent
  BY <1>1, <1>6, HouseMarks, RentMarks
<1>7. CASE \/ \E p \in Players : BuyHouse(p)
           \/ \E expired \in SUBSET Listed : CheckExpiredMarketOffers(expired)
           \/ SaveGameState \/ SaveHouseInfo \/ SaveHouseItems
           \/ UNCHANGED goodsVars
  <2>1. UNCHANGED <<session, memory, record, depotChange>>
    BY <1>7 DEF BuyHouse, CheckExpiredMarketOffers, SaveGameState, SaveHouseInfo,
                SaveHouseItems, stores, goodsVars
  <2> QED
    BY <1>1, <2>1, OtherMarks
<1> QED
  BY <1>1, <1>2, <1>3, <1>4, <1>5, <1>6, <1>7 DEF GoodsNext

LEMMA MarksBegin == GoodsInit => MarksInv
  BY DEF GoodsInit, MarksInv, Marked, Stores, Online

\* For any players and offers: as long as no statement failed, a player in the
\* game whose depots differ from those saved is marked, so the next save
\* writes them, whoever filled them and wherever their owner was.
THEOREM GoodsDepotsMarked == GoodsSpec => []DepotChangesMarked
<1>1. MarksInv => DepotChangesMarked
  BY DEF MarksInv, Marked, Stores, DepotChangesMarked, DepotMarked
<1>2. GoodsSpec => []MarksInv
  BY TypesBegin, TypesGoOn, MarksBegin, MarksGoOn, PTL DEF GoodsSpec
<1> QED
  BY <1>1, <1>2, PTL

----------------------------------------------------------------------------
(***************************************************************************)
(* Sums over finite sets, as the library adds them up.                     *)
(***************************************************************************)
\* Induction over the natural numbers for a set.
LEMMA FromZero ==
    ASSUME NEW S, 0 \in S, \A n \in Nat : n \in S => n + 1 \in S
    PROVE  \A n \in Nat : n \in S
<1> DEFINE T == Nat \ S
<1>1. SUFFICES ASSUME T # {}
               PROVE  FALSE
  OBVIOUS
<1>2. PICK n \in T : \A m \in T : ~ (<<m, n>> \in OpToRel(<, Nat))
  BY <1>1, WFMin, NatLessThanWellFounded, Zenon
<1>3. \A m \in T : ~(m < n)
  BY <1>2, Zenon DEF OpToRel
<1>4. n # 0 /\ n - 1 \in Nat /\ n - 1 < n /\ n = (n - 1) + 1
  OBVIOUS
<1>5. n - 1 \in S
  BY <1>3, <1>4
<1> QED
  BY <1>4, <1>5

\* The element of a set that the library takes first.
First(T) == CHOOSE x \in T : TRUE

LEMMA FirstIs ==
    ASSUME NEW T, T # {}
    PROVE  First(T) \in T
  BY DEF First

\* Induction over the subsets of a finite set, for a set of them.
LEMMA FromEmpty ==
    ASSUME NEW S, IsFiniteSet(S), NEW F, {} \in F,
           \A T \in SUBSET S : T # {} /\ T \ {First(T)} \in F => T \in F
    PROVE  \A T \in SUBSET S : T \in F
<1> DEFINE N == {n \in Nat : \A T \in SUBSET S : Cardinality(T) = n => T \in F}
<1>1. \A T \in SUBSET S : IsFiniteSet(T) /\ Cardinality(T) \in Nat
  BY FS_Subset, FS_CardinalityType
<1>2. 0 \in N
  BY <1>1, FS_EmptySet
<1>3. ASSUME NEW n \in Nat, n \in N
      PROVE  n + 1 \in N
  <2>1. ASSUME NEW T \in SUBSET S, Cardinality(T) = n + 1
        PROVE  T \in F
    <3>1. T # {}
      BY <1>1, <2>1, FS_EmptySet
    <3> DEFINE c == First(T)
    <3>2. c \in T
      BY <3>1, FirstIs
    <3> HIDE DEF c
    <3>3. Cardinality(T \ {c}) = Cardinality(T) - 1
      BY <1>1, <3>2, FS_RemoveElement
    <3>4. Cardinality(T \ {c}) = n /\ T \ {c} \in SUBSET S
      BY <2>1, <3>3
    <3> QED
      BY <1>3, <3>1, <3>4 DEF c
  <2> QED
    BY <2>1
<1> HIDE DEF N
<1>4. \A n \in Nat : n \in N
  BY <1>2, <1>3, FromZero
<1> QED
  BY <1>1, <1>4 DEF N

\* h[x] tokens for each x of T.
Heap(h, T) == {q \in T \X Nat : q[2] < h[q[1]]}

LEMMA ColumnCounts ==
    ASSUME NEW n \in Nat, NEW c, NEW h, h[c] = n
    PROVE  IsFiniteSet(Heap(h, {c})) /\ Cardinality(Heap(h, {c})) = n
<1> DEFINE I == 1 .. n
           f == [k \in I |-> <<c, k - 1>>]
<1>1. IsFiniteSet(I) /\ Cardinality(I) = n
  BY FS_Interval
<1>2. f \in [I -> Heap(h, {c})]
  BY DEF Heap
<1>3. \A j, k \in I : f[j] = f[k] => j = k
  OBVIOUS
<1>4. \A q \in Heap(h, {c}) : \E k \in I : f[k] = q
  <2> SUFFICES ASSUME NEW q \in Heap(h, {c})
               PROVE  \E k \in I : f[k] = q
    OBVIOUS
  <2>1. q[2] \in Nat /\ q[2] < n /\ q = <<c, q[2]>>
    BY DEF Heap
  <2>2. q[2] + 1 \in I /\ (q[2] + 1) - 1 = q[2]
    BY <2>1
  <2>3. f[q[2] + 1] = q
    BY <2>1, <2>2
  <2> QED
    BY <2>2, <2>3
<1>5. f \in Bijection(I, Heap(h, {c}))
  <2> HIDE DEF f, I
  <2> QED
    BY <1>2, <1>3, <1>4 DEF Bijection, Injection, Surjection, IsInjective
<1>6. ExistsBijection(I, Heap(h, {c}))
  BY <1>5 DEF ExistsBijection
<1> HIDE DEF I
<1> QED
  BY <1>1, <1>6, FS_Bijection

LEMMA HeapGrows ==
    ASSUME NEW h, NEW T, NEW c \in T, h[c] \in Nat, IsFiniteSet(Heap(h, T \ {c}))
    PROVE  /\ IsFiniteSet(Heap(h, T))
           /\ Cardinality(Heap(h, T)) = h[c] + Cardinality(Heap(h, T \ {c}))
<1>1. Heap(h, T) = Heap(h, {c}) \cup Heap(h, T \ {c})
  BY DEF Heap
<1>2. Heap(h, {c}) \cap Heap(h, T \ {c}) = {}
  BY DEF Heap
<1>3. IsFiniteSet(Heap(h, {c})) /\ Cardinality(Heap(h, {c})) = h[c]
  BY ColumnCounts
<1>4. Cardinality(Heap(h, T \ {c})) \in Nat
  BY FS_CardinalityType
<1>5. /\ IsFiniteSet(Heap(h, {c}) \cup Heap(h, T \ {c}))
      /\ Cardinality(Heap(h, {c}) \cup Heap(h, T \ {c})) =
             Cardinality(Heap(h, {c})) + Cardinality(Heap(h, T \ {c}))
             - Cardinality(Heap(h, {c}) \cap Heap(h, T \ {c}))
  BY <1>3, FS_Union
<1>6. Cardinality(Heap(h, {c}) \cap Heap(h, T \ {c})) = 0
  BY <1>2, FS_EmptySet
<1> DEFINE m == Cardinality(Heap(h, T \ {c}))
<1>7. Cardinality(Heap(h, T)) = h[c] + m - 0
  BY <1>1, <1>3, <1>5, <1>6
<1>8. IsFiniteSet(Heap(h, T))
  BY <1>1, <1>5
<1>9. m \in Nat
  BY <1>4
<1> HIDE DEF m
<1>10. Cardinality(Heap(h, T)) = h[c] + m
  BY <1>7, <1>9
<1> QED
  BY <1>8, <1>10 DEF m

\* The sums of h over the subsets of S, as the library adds them up.
Sums(h, S, g) ==
    g = [T \in SUBSET S |-> IF T = {} THEN 0 ELSE h[First(T)] + g[T \ {First(T)}]]

LEMMA SumIs ==
    ASSUME NEW h, NEW S
    PROVE  SumFunctionOnSet(h, S) = (CHOOSE g : Sums(h, S, g))[S]
  BY DEF SumFunctionOnSet, FoldFunctionOnSet, MapThenFoldSet, First, Sums

LEMMA SumsAre ==
    ASSUME NEW S, IsFiniteSet(S), NEW h \in [S -> Nat]
    PROVE  \E g : Sums(h, S, g)
<1> DEFINE F == {T \in SUBSET S : IsFiniteSet(Heap(h, T))}
           g == [T \in SUBSET S |-> Cardinality(Heap(h, T))]
<1>1. Heap(h, {}) = {}
  BY DEF Heap
<1>2. {} \in F
  BY <1>1, FS_EmptySet
<1>3. ASSUME NEW T \in SUBSET S, T # {}, T \ {First(T)} \in F
      PROVE  T \in F
  <2>1. First(T) \in T /\ h[First(T)] \in Nat
    BY <1>3, FirstIs
  <2> QED
    BY <1>3, <2>1, HeapGrows
<1> HIDE DEF F
<1>4. \A T \in SUBSET S : T \in F
  BY <1>2, <1>3, FromEmpty
<1>5. ASSUME NEW T \in SUBSET S
      PROVE  g[T] = IF T = {} THEN 0 ELSE h[First(T)] + g[T \ {First(T)}]
  <2>1. CASE T = {}
    BY <1>1, <2>1, FS_EmptySet
  <2>2. CASE T # {}
    <3>1. First(T) \in T /\ h[First(T)] \in Nat
      BY <2>2, FirstIs
    <3>2. T \ {First(T)} \in SUBSET S /\ IsFiniteSet(Heap(h, T \ {First(T)}))
      BY <1>4 DEF F
    <3>3. Cardinality(Heap(h, T)) = h[First(T)] + Cardinality(Heap(h, T \ {First(T)}))
      BY <3>1, <3>2, HeapGrows
    <3> QED
      BY <2>2, <3>2, <3>3
  <2> QED
    BY <2>1, <2>2
<1>6. g = [T \in SUBSET S |-> g[T]]
  OBVIOUS
<1> HIDE DEF g
<1>7. Sums(h, S, g)
  BY <1>5, <1>6 DEF Sums
<1> QED
  BY <1>7

\* Functions that differ only at x have sums that differ as much.
LEMMA SumChanges ==
    ASSUME NEW S, IsFiniteSet(S), NEW g \in [S -> Nat], NEW h \in [S -> Nat],
           NEW x, \A y \in S \ {x} : g[y] = h[y]
    PROVE  /\ SumFunction(g) \in Int /\ SumFunction(h) \in Int
           /\ SumFunction(h) = SumFunction(g) + IF x \in S THEN h[x] - g[x] ELSE 0
<1> DEFINE a == CHOOSE f : Sums(g, S, f)
           b == CHOOSE f : Sums(h, S, f)
<1>1. Sums(g, S, a) /\ Sums(h, S, b)
  BY SumsAre
<1>2. SumFunction(g) = a[S] /\ SumFunction(h) = b[S]
  BY SumIs DEF SumFunction
<1> HIDE DEF a, b
<1>3. /\ \A T \in SUBSET S : a[T] = IF T = {} THEN 0 ELSE g[First(T)] + a[T \ {First(T)}]
      /\ \A T \in SUBSET S : b[T] = IF T = {} THEN 0 ELSE h[First(T)] + b[T \ {First(T)}]
  BY <1>1 DEF Sums
<1> DEFINE D(T) == IF x \in T THEN h[x] - g[x] ELSE 0
           F == {T \in SUBSET S : a[T] \in Int /\ b[T] \in Int /\ b[T] = a[T] + D(T)}
<1>4. {} \in F
  <2>1. {} \in SUBSET S /\ a[{}] = 0 /\ b[{}] = 0 /\ D({}) = 0
    BY <1>3
  <2> QED
    BY <2>1
<1>5. ASSUME NEW T \in SUBSET S, T # {}, T \ {First(T)} \in F
      PROVE  T \in F
  <2> DEFINE c == First(T)
             R == T \ {c}
  <2>1. c \in T /\ c \in S /\ g[c] \in Nat /\ h[c] \in Nat
    BY <1>5, FirstIs
  <2>2. a[T] = g[c] + a[R] /\ b[T] = h[c] + b[R]
    BY <1>3, <1>5
  <2>3. a[R] \in Int /\ b[R] \in Int /\ b[R] = a[R] + D(R)
    BY <1>5
  <2>4. D(R) \in Int
    OBVIOUS
  <2>5. D(T) = D(R) + (h[c] - g[c])
    <3>1. CASE c = x
      BY <2>1, <3>1
    <3>2. CASE c # x
      <4>1. h[c] = g[c] /\ (x \in T <=> x \in R)
        BY <2>1, <3>2
      <4>2. D(T) = D(R)
        BY <4>1
      <4> HIDE DEF c, R, D
      <4> QED
        BY <2>1, <2>4, <4>1, <4>2
    <3> QED
      BY <3>1, <3>2
  <2> HIDE DEF c, R, D
  <2>6. b[T] = a[T] + D(T) /\ a[T] \in Int /\ b[T] \in Int
    BY <2>1, <2>2, <2>3, <2>4, <2>5
  <2> QED
    BY <2>6
<1>6. \A T \in SUBSET S : T # {} /\ T \ {First(T)} \in F => T \in F
  BY <1>5
<1> HIDE DEF F
<1>7. S \in F
  BY <1>4, <1>6, FromEmpty
<1> QED
  BY <1>2, <1>7 DEF F

LEMMA SumMoves ==
    ASSUME NEW S, IsFiniteSet(S), NEW g \in [S -> Nat], NEW h \in [S -> Nat],
           NEW x \in S, NEW n \in Int, h[x] = g[x] + n, \A y \in S \ {x} : g[y] = h[y]
    PROVE  /\ SumFunction(g) \in Int /\ SumFunction(h) \in Int
           /\ SumFunction(h) = SumFunction(g) + n
<1>1. /\ SumFunction(g) \in Int /\ SumFunction(h) \in Int
      /\ SumFunction(h) = SumFunction(g) + IF x \in S THEN h[x] - g[x] ELSE 0
  BY SumChanges
<1>2. g[x] \in Nat /\ h[x] - g[x] = n
  OBVIOUS
<1> QED
  BY <1>1, <1>2

----------------------------------------------------------------------------
(***************************************************************************)
(* What stores hold for players on of whom are online, and what operators  *)
(* add to it.                                                              *)
(***************************************************************************)
On == {p \in Players : Online(p)}
Held(on, s, p) == IF p \in on THEN s.memory[p] ELSE s.record[p]
OnSale(s, i) == IF s.offers[i] # NoOffer /\ s.offers[i].sale = "sell" THEN s.offers[i].amount ELSE 0
Wanted(s, i) ==
    IF s.offers[i] # NoOffer /\ s.offers[i].sale = "buy" THEN Price * s.offers[i].amount ELSE 0

Carried(on, s) == [p \in Players |-> Held(on, s, p).pack + Held(on, s, p).depot]
Saving(on, s) == [p \in Players |-> Held(on, s, p).bank]
Supply(s) == [i \in OfferIds |-> OnSale(s, i)]
Demand(s) == [i \in OfferIds |-> Wanted(s, i)]
WaresIn(on, s) == SumFunction(Carried(on, s)) + SumFunction(Supply(s))
MoneyIn(on, s) == SumFunction(Saving(on, s)) + SumFunction(Demand(s))

\* From s to t, wares and money are added.
Moves(a, s, b, t, wares, money) ==
    /\ WaresIn(a, s) \in Int /\ MoneyIn(a, s) \in Int
    /\ WaresIn(b, t) = WaresIn(a, s) + wares
    /\ MoneyIn(b, t) = MoneyIn(a, s) + money

LEMMA FiniteAre == IsFiniteSet(Players) /\ IsFiniteSet(OfferIds)
  BY GoodsConstants

LEMMA HeldGoods ==
    ASSUME NEW on, NEW s \in AllStores, NEW p \in Players
    PROVE  /\ Held(on, s, p) \in Goods /\ Held(on, s, p).bank \in Nat
           /\ Held(on, s, p).pack \in Nat /\ Held(on, s, p).depot \in Nat
<1>1. Held(on, s, p) \in Goods
  BY MemoryGoods DEF Held
<1> QED
  BY <1>1, GoodsAreNatural

LEMMA OffersCount ==
    ASSUME NEW s \in AllStores, NEW i \in OfferIds
    PROVE  OnSale(s, i) \in Nat /\ Wanted(s, i) \in Nat
<1>1. s.offers[i] \in Offer \cup {NoOffer}
  BY DEF AllStores, Market
<1>2. s.offers[i] # NoOffer => s.offers[i].amount \in Nat
  BY <1>1 DEF Offer
<1>3. s.offers[i] # NoOffer => Price * s.offers[i].amount \in Nat
  BY <1>2, CostIsNatural
<1> QED
  BY <1>2, <1>3 DEF OnSale, Wanted

LEMMA SumsTyped ==
    ASSUME NEW on, NEW s \in AllStores
    PROVE  /\ Carried(on, s) \in [Players -> Nat] /\ Saving(on, s) \in [Players -> Nat]
           /\ Supply(s) \in [OfferIds -> Nat] /\ Demand(s) \in [OfferIds -> Nat]
           /\ SumFunction(Carried(on, s)) \in Int /\ SumFunction(Saving(on, s)) \in Int
           /\ SumFunction(Supply(s)) \in Int /\ SumFunction(Demand(s)) \in Int
<1>1. \A p \in Players : Held(on, s, p).pack + Held(on, s, p).depot \in Nat
  BY HeldGoods
<1>2. Carried(on, s) \in [Players -> Nat] /\ Saving(on, s) \in [Players -> Nat]
  BY <1>1, HeldGoods DEF Carried, Saving
<1>3. Supply(s) \in [OfferIds -> Nat] /\ Demand(s) \in [OfferIds -> Nat]
  BY OffersCount DEF Supply, Demand
<1>4. SumFunction(Carried(on, s)) \in Int /\ SumFunction(Saving(on, s)) \in Int
  BY <1>2, GoodsConstants, SumChanges
<1>5. SumFunction(Supply(s)) \in Int /\ SumFunction(Demand(s)) \in Int
  BY <1>3, GoodsConstants, SumChanges
<1> QED
  BY <1>2, <1>3, <1>4, <1>5

\* One player has other goods.
LEMMA HoldingMoves ==
    ASSUME NEW a, NEW b, NEW s \in AllStores, NEW t \in AllStores, t.offers = s.offers,
           NEW p \in Players, \A q \in Players \ {p} : Held(b, t, q) = Held(a, s, q),
           NEW wares \in Int, NEW money \in Int,
           Held(b, t, p).pack + Held(b, t, p).depot =
               Held(a, s, p).pack + Held(a, s, p).depot + wares,
           Held(b, t, p).bank = Held(a, s, p).bank + money
    PROVE  Moves(a, s, b, t, wares, money)
<1> DEFINE g == Carried(a, s)
           h == Carried(b, t)
           m == Saving(a, s)
           n == Saving(b, t)
<1>1. /\ g \in [Players -> Nat] /\ h \in [Players -> Nat]
      /\ m \in [Players -> Nat] /\ n \in [Players -> Nat]
  BY SumsTyped
<1>2. /\ \A q \in Players \ {p} : g[q] = h[q] /\ m[q] = n[q]
      /\ h[p] = g[p] + wares /\ n[p] = m[p] + money
  BY DEF Carried, Saving
<1>3. SumFunction(Supply(t)) = SumFunction(Supply(s)) /\ SumFunction(Demand(t)) = SumFunction(Demand(s))
  BY DEF Supply, Demand, OnSale, Wanted
<1> HIDE DEF g, h, m, n
<1>4. /\ SumFunction(g) \in Int /\ SumFunction(h) \in Int
      /\ SumFunction(h) = SumFunction(g) + wares
  BY <1>1, <1>2, FiniteAre, SumMoves
<1>5. /\ SumFunction(m) \in Int /\ SumFunction(n) \in Int
      /\ SumFunction(n) = SumFunction(m) + money
  BY <1>1, <1>2, FiniteAre, SumMoves
<1>7. SumFunction(Supply(s)) \in Int /\ SumFunction(Demand(s)) \in Int
  BY SumsTyped
<1>8. /\ WaresIn(a, s) = SumFunction(g) + SumFunction(Supply(s))
      /\ WaresIn(b, t) = SumFunction(h) + SumFunction(Supply(s))
      /\ MoneyIn(a, s) = SumFunction(m) + SumFunction(Demand(s))
      /\ MoneyIn(b, t) = SumFunction(n) + SumFunction(Demand(s))
  BY <1>3 DEF WaresIn, MoneyIn, g, h, m, n
<1> QED
  BY <1>4, <1>5, <1>7, <1>8 DEF Moves

\* One offer is another one.
LEMMA OfferMoves ==
    ASSUME NEW on, NEW s \in AllStores, NEW t \in AllStores,
           \A q \in Players : Held(on, t, q) = Held(on, s, q),
           NEW i \in OfferIds, \A j \in OfferIds \ {i} : t.offers[j] = s.offers[j],
           NEW wares \in Int, NEW money \in Int,
           OnSale(t, i) = OnSale(s, i) + wares, Wanted(t, i) = Wanted(s, i) + money
    PROVE  Moves(on, s, on, t, wares, money)
<1> DEFINE g == Supply(s)
           h == Supply(t)
           m == Demand(s)
           n == Demand(t)
<1>1. /\ g \in [OfferIds -> Nat] /\ h \in [OfferIds -> Nat]
      /\ m \in [OfferIds -> Nat] /\ n \in [OfferIds -> Nat]
  BY SumsTyped
<1>2. /\ \A j \in OfferIds \ {i} : g[j] = h[j] /\ m[j] = n[j]
      /\ h[i] = g[i] + wares /\ n[i] = m[i] + money
  BY DEF Supply, Demand, OnSale, Wanted
<1>3. SumFunction(Carried(on, t)) = SumFunction(Carried(on, s))
      /\ SumFunction(Saving(on, t)) = SumFunction(Saving(on, s))
  BY DEF Carried, Saving
<1> HIDE DEF g, h, m, n
<1>4. /\ SumFunction(g) \in Int /\ SumFunction(h) \in Int
      /\ SumFunction(h) = SumFunction(g) + wares
  BY <1>1, <1>2, FiniteAre, SumMoves
<1>5. /\ SumFunction(m) \in Int /\ SumFunction(n) \in Int
      /\ SumFunction(n) = SumFunction(m) + money
  BY <1>1, <1>2, FiniteAre, SumMoves
<1>6. SumFunction(Carried(on, s)) \in Int /\ SumFunction(Saving(on, s)) \in Int
  BY SumsTyped
<1>7. /\ WaresIn(on, s) = SumFunction(Carried(on, s)) + SumFunction(g)
      /\ WaresIn(on, t) = SumFunction(Carried(on, s)) + SumFunction(h)
      /\ MoneyIn(on, s) = SumFunction(Saving(on, s)) + SumFunction(m)
      /\ MoneyIn(on, t) = SumFunction(Saving(on, s)) + SumFunction(n)
  BY <1>3 DEF WaresIn, MoneyIn, g, h, m, n
<1> QED
  BY <1>4, <1>5, <1>6, <1>7 DEF Moves

\* Nobody holds anything else, nor does an offer.
LEMMA NothingMoves ==
    ASSUME NEW a, NEW b, NEW s \in AllStores, NEW t \in AllStores, t.offers = s.offers,
           \A q \in Players : Held(b, t, q) = Held(a, s, q)
    PROVE  Moves(a, s, b, t, 0, 0)
<1>1. Carried(b, t) = Carried(a, s) /\ Saving(b, t) = Saving(a, s)
  BY DEF Carried, Saving
<1>2. Supply(t) = Supply(s) /\ Demand(t) = Demand(s)
  BY DEF Supply, Demand, OnSale, Wanted
<1>3. WaresIn(b, t) = WaresIn(a, s) /\ MoneyIn(b, t) = MoneyIn(a, s)
  BY <1>1, <1>2 DEF WaresIn, MoneyIn
<1>4. WaresIn(a, s) \in Int /\ MoneyIn(a, s) \in Int
  BY SumsTyped DEF WaresIn, MoneyIn
<1> QED
  BY <1>3, <1>4 DEF Moves

LEMMA MovesFollow ==
    ASSUME NEW a, NEW s, NEW b, NEW t, NEW c, NEW u,
           NEW w \in Int, NEW m \in Int, NEW x \in Int, NEW n \in Int,
           Moves(a, s, b, t, w, m), Moves(b, t, c, u, x, n)
    PROVE  Moves(a, s, c, u, w + x, m + n)
  BY DEF Moves

LEMMA PlusIs ==
    ASSUME NEW g, NEW bank, NEW pack, NEW depot
    PROVE  /\ Plus(g, bank, pack, depot).bank = g.bank + bank
           /\ Plus(g, bank, pack, depot).pack = g.pack + pack
           /\ Plus(g, bank, pack, depot).depot = g.depot + depot
  BY DEF Plus

LEMMA DeliveredMoves ==
    ASSUME NEW s \in AllStores, NEW p \in Players, NEW n \in Nat
    PROVE  Moves(On, s, On, Delivered(s, p, n, "done"), n, 0)
<1> DEFINE t == Delivered(s, p, n, "done")
<1>1. t \in AllStores
  BY DeliveredStores
<1>2. /\ t.offers = s.offers /\ Held(On, t, p) = Plus(Held(On, s, p), 0, 0, n)
      /\ \A q \in Players \ {p} : Held(On, t, q) = Held(On, s, q)
  <2>1. CASE Online(p)
    BY <2>1 DEF Delivered, AllStores, Depots, Held, On
  <2>2. CASE ~Online(p)
    BY <2>2 DEF Delivered, Loaded, AllStores, Depots, Held, On
  <2> QED
    BY <2>1, <2>2
<1> HIDE DEF t
<1>3. /\ Held(On, t, p).pack + Held(On, t, p).depot = Held(On, s, p).pack + Held(On, s, p).depot + n
      /\ Held(On, t, p).bank = Held(On, s, p).bank + 0
  BY <1>2, PlusIs, HeldGoods
<1>4. Moves(On, s, On, t, n, 0)
  BY <1>1, <1>2, <1>3, HoldingMoves
<1> QED
  BY <1>4 DEF t

LEMMA CreditedMoves ==
    ASSUME NEW s \in AllStores, NEW p \in Players, NEW coins \in Nat
    PROVE  Moves(On, s, On, Credited(s, p, coins, "done"), 0, coins)
<1> DEFINE t == Credited(s, p, coins, "done")
<1>1. t \in AllStores
  BY CreditedStores
<1>2. /\ t.offers = s.offers /\ Held(On, t, p) = Plus(Held(On, s, p), coins, 0, 0)
      /\ \A q \in Players \ {p} : Held(On, t, q) = Held(On, s, q)
  <2>1. CASE Online(p)
    BY <2>1 DEF Credited, AllStores, Depots, Held, On
  <2>2. CASE ~Online(p)
    BY <2>2 DEF Credited, AllStores, Depots, Held, On
  <2> QED
    BY <2>1, <2>2
<1> HIDE DEF t
<1>3. /\ Held(On, t, p).pack + Held(On, t, p).depot = Held(On, s, p).pack + Held(On, s, p).depot + 0
      /\ Held(On, t, p).bank = Held(On, s, p).bank + coins
  BY <1>2, PlusIs, HeldGoods
<1>4. Moves(On, s, On, t, 0, coins)
  BY <1>1, <1>2, <1>3, HoldingMoves
<1> QED
  BY <1>4 DEF t

\* Who is online gets goods into his memory.
LEMMA InMemoryMoves ==
    ASSUME NEW s \in AllStores, NEW p \in Players, Online(p),
           NEW bank \in Int, NEW pack \in Int, NEW depot \in Int,
           Plus(s.memory[p], bank, pack, depot) \in Goods
    PROVE  Moves(On, s, On, InMemory(s, p, Plus(s.memory[p], bank, pack, depot)),
                 pack + depot, bank)
<1> DEFINE g == Plus(s.memory[p], bank, pack, depot)
           t == InMemory(s, p, g)
<1>1. g.bank = s.memory[p].bank + bank /\ g.pack = s.memory[p].pack + pack
      /\ g.depot = s.memory[p].depot + depot
  BY PlusIs
<1> HIDE DEF g
<1>2. t \in AllStores
  BY InStores DEF g
<1>3. /\ t.offers = s.offers /\ Held(On, t, p) = g /\ Held(On, s, p) = s.memory[p]
      /\ \A q \in Players \ {p} : Held(On, t, q) = Held(On, s, q)
  BY DEF InMemory, AllStores, Depots, Held, On
<1> HIDE DEF t
<1>4. /\ Held(On, t, p).pack + Held(On, t, p).depot =
             Held(On, s, p).pack + Held(On, s, p).depot + (pack + depot)
      /\ Held(On, t, p).bank = Held(On, s, p).bank + bank
  BY <1>1, <1>3, HeldGoods
<1>5. Moves(On, s, On, t, pack + depot, bank)
  BY <1>2, <1>3, <1>4, HoldingMoves
<1> QED
  BY <1>5 DEF t, g

LEMMA WithdrawnMoves ==
    ASSUME NEW s \in AllStores, NEW i \in OfferIds, s.offers[i] # NoOffer,
           NEW wares \in Int, NEW money \in Int,
           OnSale(s, i) + wares = 0, Wanted(s, i) + money = 0
    PROVE  Moves(On, s, On, Withdrawn(s, i, "done"), wares, money)
<1> DEFINE t == Withdrawn(s, i, "done")
<1>1. t \in AllStores
  BY WithdrawnStores
<1>2. /\ \A q \in Players : Held(On, t, q) = Held(On, s, q)
      /\ t.offers[i] = NoOffer /\ \A j \in OfferIds \ {i} : t.offers[j] = s.offers[j]
  BY DEF Withdrawn, AllStores, Market, Held
<1> HIDE DEF t
<1>3. OnSale(t, i) = 0 /\ Wanted(t, i) = 0
  BY <1>2 DEF OnSale, Wanted
<1>4. OnSale(t, i) = OnSale(s, i) + wares /\ Wanted(t, i) = Wanted(s, i) + money
  BY <1>3
<1>5. Moves(On, s, On, t, wares, money)
  BY <1>1, <1>2, <1>4, OfferMoves
<1> QED
  BY <1>5 DEF t

\* Part of an offer goes, or all of it.
LEMMA ReducedMoves ==
    ASSUME NEW s \in AllStores, NEW i \in OfferIds, NEW n \in Nat,
           s.offers[i] \in Offer, s.offers[i] # NoOffer, n <= s.offers[i].amount
    PROVE  /\ s.offers[i].sale = "sell" => Moves(On, s, On, Reduced(s, i, n, "done"), -n, 0)
           /\ s.offers[i].sale = "buy" =>
                  Moves(On, s, On, Reduced(s, i, n, "done"), 0, -(Price * n))
<1> DEFINE o == s.offers[i]
<1>1. CASE n = o.amount
  <2>1. CASE o.sale = "sell"
    <3>1. OnSale(s, i) + -n = 0 /\ Wanted(s, i) + 0 = 0 /\ -n \in Int
      BY <1>1, <2>1 DEF OnSale, Wanted
    <3>2. Moves(On, s, On, Withdrawn(s, i, "done"), -n, 0)
      BY <3>1, WithdrawnMoves
    <3> QED
      BY <1>1, <2>1, <3>2 DEF Reduced
  <2>2. CASE o.sale = "buy"
    <3>1. OnSale(s, i) = 0 /\ Wanted(s, i) = Price * n
      BY <1>1, <2>2 DEF OnSale, Wanted
    <3>2. Price * n \in Nat
      BY CostIsNatural
    <3>3. OnSale(s, i) + 0 = 0 /\ Wanted(s, i) + -(Price * n) = 0 /\ -(Price * n) \in Int
      BY <3>1, <3>2
    <3>4. Moves(On, s, On, Withdrawn(s, i, "done"), 0, -(Price * n))
      BY <3>3, WithdrawnMoves
    <3> QED
      BY <1>1, <2>2, <3>4 DEF Reduced
  <2> QED
    BY <2>1, <2>2 DEF Offer
<1>2. CASE n # o.amount
  <2> DEFINE t == Reduced(s, i, n, "done")
             m == o.amount - n
  <2>1. t \in AllStores
    BY ReducedStores
  <2>2. o.amount \in Nat /\ m \in Nat
    BY DEF Offer
  <2>3. t = [s EXCEPT !.offers[i] = [o EXCEPT !.amount = m]]
    BY <1>2 DEF Reduced
  <2>4. [o EXCEPT !.amount = m] = [owner |-> o.owner, sale |-> o.sale, amount |-> m]
    BY DEF Offer
  <2> DEFINE u == [owner |-> o.owner, sale |-> o.sale, amount |-> m]
  <2>5. t = [s EXCEPT !.offers[i] = u]
    BY <2>3, <2>4
  <2>6. /\ \A q \in Players : Held(On, t, q) = Held(On, s, q)
        /\ t.offers[i] = u /\ \A j \in OfferIds \ {i} : t.offers[j] = s.offers[j]
    <3> HIDE DEF t, u
    <3> QED
      BY <2>5 DEF AllStores, Market, Held
  <2>7. u.sale = o.sale /\ u.amount = m
    OBVIOUS
  <2>8. u \in Offer
    <3>1. m \in Nat \ {0} /\ o.owner \in Players /\ o.sale \in {"buy", "sell"}
      BY <1>2, <2>2 DEF Offer
    <3> HIDE DEF o, m
    <3> QED
      BY <3>1 DEF Offer
  <2>9. u # NoOffer
    BY <2>8, NoOfferIsNone
  <2>10. CASE o.sale = "sell"
    <3>1. OnSale(s, i) = o.amount /\ OnSale(t, i) = m /\ Wanted(s, i) = 0 /\ Wanted(t, i) = 0
      <4> HIDE DEF t, u
      <4> QED
        BY <2>6, <2>7, <2>9, <2>10 DEF OnSale, Wanted
    <3> HIDE DEF t, u
    <3>2. OnSale(t, i) = OnSale(s, i) + -n /\ Wanted(t, i) = Wanted(s, i) + 0 /\ -n \in Int
      BY <2>2, <3>1
    <3>3. Moves(On, s, On, t, -n, 0)
      BY <2>1, <2>6, <3>2, OfferMoves
    <3> QED
      BY <2>10, <3>3 DEF t
  <2>11. CASE o.sale = "buy"
    <3>1. /\ OnSale(s, i) = 0 /\ OnSale(t, i) = 0
          /\ Wanted(s, i) = Price * o.amount /\ Wanted(t, i) = Price * m
      <4> HIDE DEF t, u
      <4> QED
        BY <2>6, <2>7, <2>9, <2>11 DEF OnSale, Wanted
    <3>2. Price * m = Price * o.amount - Price * n /\ Price * o.amount \in Int /\ Price * n \in Int
      <4>1. Price \in Int /\ o.amount \in Int /\ n \in Int
        BY <2>2, GoodsConstants
      <4>2. \A a, b, c \in Int : a * (b - c) = a * b - a * c
        OBVIOUS
      <4>3. \A a, b \in Int : a * b \in Int
        OBVIOUS
      <4> HIDE DEF o
      <4> QED
        BY <4>1, <4>2, <4>3
    <3> HIDE DEF t, u, m
    <3>3. OnSale(t, i) = OnSale(s, i) + 0 /\ Wanted(t, i) = Wanted(s, i) + -(Price * n)
          /\ -(Price * n) \in Int
      BY <3>1, <3>2
    <3>4. Moves(On, s, On, t, 0, -(Price * n))
      BY <2>1, <2>6, <3>3, OfferMoves
    <3> QED
      BY <2>11, <3>4 DEF t
  <2> QED
    BY <2>10, <2>11 DEF Offer
<1> QED
  BY <1>1, <1>2

LEMMA PaidMoves ==
    ASSUME NEW s \in AllStores, NEW p \in Players, Online(p), NEW n \in Nat,
           n <= s.memory[p].depot
    PROVE  Moves(On, s, On, Paid(s, p, n), -n, Price * n)
<1>1. Price * n \in Nat /\ Price * n \in Int /\ 0 \in Int /\ -n \in Int /\ 0 + -n = -n
  BY CostIsNatural
<1>2. Plus(s.memory[p], Price * n, 0, -n) \in Goods
  <2> DEFINE g == s.memory[p]
             m == Price * n
  <2>1. g \in Goods
    BY MemoryGoods
  <2>2. g.bank \in Nat /\ g.pack \in Nat /\ g.depot \in Nat
    BY <2>1, GoodsAreNatural
  <2>3. m \in Nat /\ n <= g.depot
    BY <1>1
  <2> HIDE DEF g, m
  <2>4. m \in Int /\ 0 \in Int /\ -n \in Int /\ g.bank + m >= 0 /\ g.pack + 0 >= 0 /\ g.depot + -n >= 0
    BY <2>2, <2>3
  <2>5. Plus(g, m, 0, -n) \in Goods
    BY <2>1, <2>4, PlusGoods
  <2> QED
    BY <2>5 DEF g, m
<1>3. Moves(On, s, On, InMemory(s, p, Plus(s.memory[p], Price * n, 0, -n)), 0 + -n, Price * n)
  BY <1>1, <1>2, InMemoryMoves
<1>4. InMemory(s, p, Plus(s.memory[p], Price * n, 0, -n)) = Paid(s, p, n)
  BY DEF InMemory, Paid
<1> QED
  BY <1>1, <1>3, <1>4

LEMMA BoughtMoves ==
    ASSUME NEW s \in AllStores, NEW p \in Players, Online(p), NEW n \in Nat,
           Price * n <= s.memory[p].bank
    PROVE  Moves(On, s, On, Bought(s, p, n), n, -(Price * n))
<1>1. Price * n \in Nat /\ -(Price * n) \in Int /\ 0 \in Int /\ n \in Int /\ 0 + n = n
  BY CostIsNatural
<1>2. Plus(s.memory[p], -(Price * n), 0, n) \in Goods
  <2> DEFINE g == s.memory[p]
             m == Price * n
  <2>1. g \in Goods
    BY MemoryGoods
  <2>2. g.bank \in Nat /\ g.pack \in Nat /\ g.depot \in Nat
    BY <2>1, GoodsAreNatural
  <2>3. m \in Nat /\ -m \in Int /\ m <= g.bank
    BY <1>1
  <2> HIDE DEF g, m
  <2>4. 0 \in Int /\ n \in Int /\ g.bank + -m >= 0 /\ g.pack + 0 >= 0 /\ g.depot + n >= 0
    BY <2>2, <2>3
  <2>5. Plus(g, -m, 0, n) \in Goods
    BY <2>1, <2>3, <2>4, PlusGoods
  <2> QED
    BY <2>5 DEF g, m
<1>3. Moves(On, s, On, InMemory(s, p, Plus(s.memory[p], -(Price * n), 0, n)), 0 + n,
            -(Price * n))
  BY <1>1, <1>2, InMemoryMoves
<1>4. InMemory(s, p, Plus(s.memory[p], -(Price * n), 0, n)) = Bought(s, p, n)
  BY DEF InMemory, Bought
<1> QED
  BY <1>1, <1>3, <1>4

\* Who is offline pays from his record, whose depots stay as they are: nothing
\* marks them.
LEMMA PaidRentMoves ==
    ASSUME NEW s \in AllStores, NEW p \in Players, Online(p) \/ p \notin s.changed,
           Rent <= Held(On, s, p).bank
    PROVE  Moves(On, s, On, PaidRent(s, p, "done"), 0, -Rent)
<1> DEFINE t == PaidRent(s, p, "done")
<1>0. Rent \in Nat /\ -Rent \in Int
  BY GoodsConstants
<1>1. t \in AllStores
  <2>1. /\ s.memory[p].bank >= Rent \/ ~Online(p)
        /\ s.record[p].bank >= Rent \/ Online(p)
    BY <1>0, MemoryGoods, GoodsAreNatural DEF Held, On
  <2> QED
    BY <2>1, PaidRentStores
<1>2. /\ t.offers = s.offers /\ Held(On, t, p) = Plus(Held(On, s, p), -Rent, 0, 0)
      /\ \A q \in Players \ {p} : Held(On, t, q) = Held(On, s, q)
  <2>1. CASE Online(p)
    BY <2>1 DEF PaidRent, AllStores, Depots, Held, On
  <2>2. CASE ~Online(p)
    <3> DEFINE u == [s EXCEPT !.memory[p] = Loaded(s.record[p], "done")]
    <3>1. u.memory[p] = s.record[p] /\ u.record = s.record /\ u.changed = s.changed
      BY DEF AllStores, Depots, Loaded
    <3>2. Saved(u, p) = s.record[p]
      <4>1. s.record[p] \in Goods
        BY MemoryGoods
      <4>2. [s.record[p] EXCEPT !.depot = s.record[p].depot] = s.record[p]
        BY <4>1 DEF Goods
      <4> HIDE DEF u
      <4> QED
        BY <2>2, <3>1, <4>2 DEF Saved
    <3>3. t = [s EXCEPT !.record[p] = Plus(s.record[p], -Rent, 0, 0)]
      <4>1. t = [s EXCEPT !.record[p] = Plus(Saved(u, p), -Rent, 0, 0)]
        BY <2>2 DEF PaidRent
      <4> HIDE DEF t, u
      <4> QED
        BY <3>2, <4>1
    <3> HIDE DEF t, u
    <3> QED
      BY <2>2, <3>3 DEF AllStores, Depots, Held, On
  <2> QED
    BY <2>1, <2>2
<1> HIDE DEF t
<1>3. /\ Held(On, t, p).pack + Held(On, t, p).depot = Held(On, s, p).pack + Held(On, s, p).depot + 0
      /\ Held(On, t, p).bank = Held(On, s, p).bank + -Rent
  BY <1>2, PlusIs, HeldGoods
<1>4. Moves(On, s, On, t, 0, -Rent)
  BY <1>0, <1>1, <1>2, <1>3, HoldingMoves
<1> QED
  BY <1>4 DEF t
----------------------------------------------------------------------------
(***************************************************************************)
(* What a step adds to the goods and the money of the stores it takes from *)
(* the floor of the house, the street, fees and rents.                     *)
(***************************************************************************)
LEMMA WaresAre ==
    ASSUME GoodsTypeOK
    PROVE  /\ Wares = WaresIn(On, Stores) + house.floor + street
           /\ Money = MoneyIn(On, Stores) + spent
<1> DEFINE g == [p \in Players |-> Holding(p).pack + Holding(p).depot]
           m == [p \in Players |-> Holding(p).bank]
           h == [i \in OfferIds |-> IF i \in Listed /\ offers[i].sale = "sell"
                                    THEN offers[i].amount ELSE 0]
           n == [i \in OfferIds |-> IF i \in Listed /\ offers[i].sale = "buy"
                                    THEN Price * offers[i].amount ELSE 0]
<1>1. g = Carried(On, Stores) /\ m = Saving(On, Stores)
  BY DEF Carried, Saving, Held, Holding, On, Stores
<1>2. h = Supply(Stores) /\ n = Demand(Stores)
  BY DEF Supply, Demand, OnSale, Wanted, Listed, Stores
<1>3. Wares = SumFunction(g) + house.floor + street + SumFunction(h)
      /\ Money = SumFunction(m) + spent + SumFunction(n)
  BY DEF Wares, Money
<1>4. /\ SumFunction(g) \in Int /\ SumFunction(h) \in Int
      /\ SumFunction(m) \in Int /\ SumFunction(n) \in Int
  BY <1>1, <1>2, StoresAreStores, SumsTyped
<1>5. house.floor \in Nat /\ street \in Nat /\ spent \in Nat
  BY HouseIs DEF GoodsTypeOK
<1>6. WaresIn(On, Stores) = SumFunction(g) + SumFunction(h)
      /\ MoneyIn(On, Stores) = SumFunction(m) + SumFunction(n)
  BY <1>1, <1>2 DEF WaresIn, MoneyIn
<1> HIDE DEF g, h, m, n
<1> QED
  BY <1>3, <1>4, <1>5, <1>6

LEMMA WaresBecome ==
    ASSUME GoodsTypeOK'
    PROVE  /\ Wares' = WaresIn(On', Stores') + house'.floor + street'
           /\ Money' = MoneyIn(On', Stores') + spent'
<1> DEFINE g == [p \in Players |-> Holding(p)'.pack + Holding(p)'.depot]
           m == [p \in Players |-> Holding(p)'.bank]
           h == [i \in OfferIds |-> IF i \in Listed' /\ offers'[i].sale = "sell"
                                    THEN offers'[i].amount ELSE 0]
           n == [i \in OfferIds |-> IF i \in Listed' /\ offers'[i].sale = "buy"
                                    THEN Price * offers'[i].amount ELSE 0]
<1>1. g = Carried(On', Stores') /\ m = Saving(On', Stores')
  BY DEF Carried, Saving, Held, Holding, On, Stores
<1>2. h = Supply(Stores') /\ n = Demand(Stores')
  BY DEF Supply, Demand, OnSale, Wanted, Listed, Stores
<1>3. Wares' = SumFunction(g) + house'.floor + street' + SumFunction(h)
      /\ Money' = SumFunction(m) + spent' + SumFunction(n)
  BY DEF Wares, Money
<1>4. Stores' \in AllStores
  BY DEF GoodsTypeOK, Stores, AllStores, Depots, Market
<1>5. /\ SumFunction(g) \in Int /\ SumFunction(h) \in Int
      /\ SumFunction(m) \in Int /\ SumFunction(n) \in Int
  BY <1>1, <1>2, <1>4, SumsTyped
<1>6. house'.floor \in Nat /\ street' \in Nat /\ spent' \in Nat
  BY DEF GoodsTypeOK, Estates
<1>7. WaresIn(On', Stores') = SumFunction(g) + SumFunction(h)
      /\ MoneyIn(On', Stores') = SumFunction(m) + SumFunction(n)
  BY <1>1, <1>2 DEF WaresIn, MoneyIn
<1> HIDE DEF g, h, m, n
<1> QED
  BY <1>3, <1>5, <1>6, <1>7

\* What the step promises.
Balanced == Wares' + lost' = Wares + lost /\ Money' = Money

LEMMA TwoSums ==
    ASSUME NEW a \in Int, NEW b, NEW c \in Int, NEW d, NEW w \in Int, NEW m \in Int,
           b = a + w, d = c + m, NEW f \in Int, NEW g \in Int, NEW s \in Int, NEW t \in Int,
           NEW l \in Int, NEW k \in Int, NEW x \in Int, NEW y \in Int,
           g + t + k + w = f + s + l, y + m = x
    PROVE  b + g + t + k = a + f + s + l /\ d + y = c + x
  OBVIOUS

LEMMA Balances ==
    ASSUME GoodsTypeOK, GoodsTypeOK', NEW w \in Int, NEW m \in Int,
           Moves(On, Stores, On', Stores', w, m),
           house'.floor + street' + lost' + w = house.floor + street + lost,
           spent' + m = spent
    PROVE  Balanced
<1>1. /\ Wares = WaresIn(On, Stores) + house.floor + street
      /\ Money = MoneyIn(On, Stores) + spent
  BY WaresAre
<1>2. /\ Wares' = WaresIn(On', Stores') + house'.floor + street'
      /\ Money' = MoneyIn(On', Stores') + spent'
  BY WaresBecome
<1>3. /\ house.floor \in Nat /\ street \in Nat /\ spent \in Nat /\ lost \in Nat
      /\ house'.floor \in Nat /\ street' \in Nat /\ spent' \in Nat /\ lost' \in Nat
  BY DEF GoodsTypeOK, Estates
<1>4. /\ WaresIn(On, Stores) \in Int /\ MoneyIn(On, Stores) \in Int
      /\ WaresIn(On', Stores') = WaresIn(On, Stores) + w
      /\ MoneyIn(On', Stores') = MoneyIn(On, Stores) + m
  BY DEF Moves
<1>5. SUFFICES ASSUME NEW a \in Int, a = WaresIn(On, Stores), NEW b \in Int, b = MoneyIn(On, Stores),
                      NEW c, c = WaresIn(On', Stores'), NEW d, d = MoneyIn(On', Stores')
               PROVE  Balanced
  BY <1>4
<1>6. c = a + w /\ d = b + m
  BY <1>4, <1>5
<1>7. house'.floor + street' + lost' + w = house.floor + street + lost
  OBVIOUS
<1>8. c + house'.floor + street' + lost' = a + house.floor + street + lost
  BY <1>3, <1>6, <1>7
<1>9. d + spent' = b + spent
  <2>1. spent' + m = spent
    OBVIOUS
  <2>3. m \in Int
    OBVIOUS
  <2>4. spent \in Int
    BY <1>3
  <2>5. spent' \in Int
    BY <1>3
  <2>2. \A x, y \in Int : x + m = y => (b + m) + x = b + y
    OBVIOUS
  <2> QED
    BY <1>6, <2>1, <2>2, <2>3, <2>4, <2>5
<1>10. Wares' + lost' = Wares + lost /\ Money' = Money
  BY <1>1, <1>2, <1>5, <1>8, <1>9
<1> QED
  BY <1>10 DEF Balanced

LEMMA SettledMoves ==
    ASSUME NEW t \in AllStores, Settled(t), UNCHANGED session
    PROVE  On' = On /\ Stores' = t
<1>1. Stores' = [memory |-> t.memory, record |-> t.record, changed |-> t.changed,
                 offers |-> t.offers]
  BY DEF Settled, Stores
<1>2. t = [memory |-> t.memory, record |-> t.record, changed |-> t.changed,
           offers |-> t.offers]
  BY DEF AllStores
<1> QED
  BY <1>1, <1>2 DEF On, Online

LEMMA Done ==
    ASSUME GoodsTypeOK, NEW outcome, Counted(outcome), faults' = faults
    PROVE  outcome = "done"
  BY DEF Counted, GoodsTypeOK

\* The loops of a save and of a change of depots are about players who are
\* online: what they write is not what a player offline has.
Present ==
    /\ \A p \in depotChange : Online(p)
    /\ \A p \in todo \cap Players : Online(p)

LEMMA DeliveredMarksOnline ==
    ASSUME NEW s \in AllStores, NEW p \in Players, NEW n, NEW outcome, NEW q,
           q \in Delivered(s, p, n, outcome).changed
    PROVE  q \in s.changed \/ Online(q)
  BY DEF Delivered, AllStores

LEMMA OthersMarkNothing ==
    ASSUME NEW s \in AllStores, NEW p, NEW i, NEW n, NEW outcome
    PROVE  /\ Credited(s, p, n, outcome).changed = s.changed
           /\ Withdrawn(s, i, outcome).changed = s.changed
           /\ Reduced(s, i, n, outcome).changed = s.changed
           /\ PaidRent(s, p, outcome).changed = s.changed
           /\ Paid(s, p, n).changed = s.changed /\ Bought(s, p, n).changed = s.changed
  BY DEF Credited, Withdrawn, Reduced, PaidRent, Paid, Bought, AllStores

\* What holds of every step but a crash: it marks nobody who is offline, and
\* when nothing fails it is balanced.
Fair ==
    /\ \A q \in depotChange' : q \in depotChange \/ Online(q)
    /\ Present /\ faults' = faults /\ (\A p \in Players : DepotMarked(p)) => Balanced

LEMMA SettledBalances ==
    ASSUME GoodsTypeOK, GoodsTypeOK', NEW t \in AllStores, Settled(t), UNCHANGED session,
           NEW w \in Int, NEW m \in Int, Moves(On, Stores, On, t, w, m),
           house'.floor + street' + lost' + w = house.floor + street + lost,
           spent' + m = spent
    PROVE  Balanced
<1>1. On' = On /\ Stores' = t
  BY SettledMoves
<1>2. Moves(On, Stores, On', Stores', w, m)
  BY <1>1
<1> QED
  BY <1>2, Balances

LEMMA NothingBalances ==
    ASSUME GoodsTypeOK, GoodsTypeOK', Stores'.offers = Stores.offers,
           \A q \in Players : Held(On', Stores', q) = Held(On, Stores, q),
           UNCHANGED <<house, street, lost, spent>>
    PROVE  Balanced
<1>1. Stores \in AllStores /\ Stores' \in AllStores
  BY DEF GoodsTypeOK, Stores, AllStores, Depots, Market
<1>2. Moves(On, Stores, On', Stores', 0, 0)
  BY <1>1, NothingMoves
<1>3. house.floor \in Nat /\ street \in Nat /\ spent \in Nat /\ lost \in Nat
  BY HouseIs DEF GoodsTypeOK
<1>4. house'.floor + street' + lost' + 0 = house.floor + street + lost
  BY <1>3
<1>5. spent' + 0 = spent
  BY <1>3
<1> QED
  BY <1>2, <1>4, <1>5, Balances

\* A step that changes the memory of one player.
LEMMA HandBalances ==
    ASSUME GoodsTypeOK, GoodsTypeOK', NEW p \in Players, Online(p),
           NEW bank \in Int, NEW pack \in Int, NEW depot \in Int,
           memory' = [memory EXCEPT ![p] = Plus(memory[p], bank, pack, depot)],
           UNCHANGED <<session, record, depotChange, offers>>,
           house'.floor + street' + lost' + (pack + depot) = house.floor + street + lost,
           spent' + bank = spent
    PROVE  Balanced
<1> DEFINE g == Plus(memory[p], bank, pack, depot)
           t == InMemory(Stores, p, g)
<1>1. g \in Goods
  BY DEF GoodsTypeOK
<1>2. /\ Stores \in AllStores
      /\ Stores.memory = memory /\ Stores.record = record
      /\ Stores.changed = depotChange /\ Stores.offers = offers
  BY StoresAreStores
<1>3. t \in AllStores
  <2> HIDE DEF g
  <2> QED
    BY <1>1, <1>2, InStores
<1>4. Settled(t)
  <2> HIDE DEF g
  <2>1. /\ t.memory = [memory EXCEPT ![p] = g] /\ t.record = record
        /\ t.changed = depotChange /\ t.offers = offers
    BY <1>2 DEF InMemory, AllStores
  <2>2. memory' = [memory EXCEPT ![p] = g]
    BY DEF g
  <2> HIDE DEF t
  <2> QED
    BY <2>1, <2>2 DEF Settled
<1>5. Moves(On, Stores, On, t, pack + depot, bank)
  BY <1>1, <1>2, InMemoryMoves
<1> HIDE DEF t
<1>6. pack + depot \in Int
  OBVIOUS
<1> QED
  BY <1>3, <1>4, <1>5, <1>6, SettledBalances

LEMMA LoginFair ==
    ASSUME GoodsTypeOK, GoodsTypeOK', NEW p \in Players, Login(p)
    PROVE  Fair
<1>1. depotChange' = depotChange /\ offers' = offers /\ record' = record
      /\ UNCHANGED <<house, street, lost, spent>> /\ ~Online(p)
  BY DEF Login
<1>2. ASSUME faults' = faults
      PROVE  Balanced
  <2>1. memory' = [memory EXCEPT ![p] = record[p]]
    <3>1. PICK outcome : /\ memory' = [memory EXCEPT ![p] = Loaded(record[p], outcome)]
                         /\ Counted(outcome)
      BY DEF Login
    <3>2. outcome = "done"
      BY <1>2, <3>1, Done
    <3> QED
      BY <3>1, <3>2 DEF Loaded
  <2>2. \A q \in Players : Online(q)' <=> Online(q) \/ q = p
    BY DEF Login, Online, GoodsTypeOK
  <2>3. \A q \in Players : Held(On', Stores', q) = Held(On, Stores, q)
    BY <1>1, <2>1, <2>2 DEF Held, On, Stores, GoodsTypeOK
  <2>4. Stores'.offers = Stores.offers
    BY <1>1 DEF Stores
  <2> QED
    BY <1>1, <2>3, <2>4, NothingBalances
<1> QED
  BY <1>1, <1>2 DEF Fair

LEMMA LogoutFair ==
    ASSUME GoodsTypeOK, GoodsTypeOK', NEW p \in Players, Logout(p)
    PROVE  Fair
<1>1. depotChange' = depotChange \ {p} /\ offers' = offers /\ Online(p)
      /\ UNCHANGED <<house, street, lost, spent>> /\ memory' = [memory EXCEPT ![p] = Nothing]
  BY DEF Logout, GoodsTypeOK
<1>2. ASSUME faults' = faults, DepotMarked(p)
      PROVE  Balanced
  <2>1. record' = [record EXCEPT ![p] = Saved(Stores, p)]
    <3>1. PICK outcome : /\ record' = IF outcome = "done"
                                      THEN [record EXCEPT ![p] = Saved(Stores, p)] ELSE record
                         /\ Counted(outcome)
      BY DEF Logout
    <3>2. outcome = "done"
      BY <1>2, <3>1, Done
    <3> QED
      BY <3>1, <3>2
  <2>2. \A q \in Players : Online(q)' <=> Online(q) /\ q # p
    BY DEF Logout, Online, GoodsTypeOK
  <2>3. Saved(Stores, p) = memory[p]
    <3>1. memory[p] \in Goods
      BY DEF GoodsTypeOK
    <3>2. [memory[p] EXCEPT !.depot = memory[p].depot] = memory[p]
      BY <3>1 DEF Goods
    <3>3. p \in depotChange \/ memory[p].depot = record[p].depot
      BY <1>1, <1>2 DEF DepotMarked
    <3> QED
      BY <3>2, <3>3 DEF Saved, Stores
  <2>4. \A q \in Players : Held(On', Stores', q) = Held(On, Stores, q)
    BY <1>1, <2>1, <2>2, <2>3 DEF Held, On, Stores, GoodsTypeOK
  <2>5. Stores'.offers = Stores.offers
    BY <1>1 DEF Stores
  <2> QED
    BY <1>1, <2>4, <2>5, NothingBalances
<1> QED
  BY <1>1, <1>2 DEF Fair

\* Lockers and the market open and close.
LEMMA MarketFair ==
    ASSUME GoodsTypeOK, GoodsTypeOK', NEW p \in Players,
           OpenLocker(p) \/ EnterMarket(p) \/ LeaveMarket(p)
    PROVE  Fair
<1>1. /\ memory' = memory /\ record' = record /\ offers' = offers
      /\ UNCHANGED <<house, street, lost, spent>>
      /\ \A q \in depotChange' : q \in depotChange \/ Online(q)
  BY DEF OpenLocker, EnterMarket, LeaveMarket, stores, Online
<1>2. \A q \in Players : Online(q)' <=> Online(q)
  BY DEF OpenLocker, EnterMarket, LeaveMarket, AtMarket, Online, GoodsTypeOK
<1>3. \A q \in Players : Held(On', Stores', q) = Held(On, Stores, q)
  BY <1>1, <1>2 DEF Held, On, Stores
<1>4. Stores'.offers = Stores.offers
  BY <1>1 DEF Stores
<1>5. Balanced
  BY <1>1, <1>3, <1>4, NothingBalances
<1> QED
  BY <1>1, <1>5 DEF Fair

LEMMA HandFair ==
    ASSUME GoodsTypeOK, GoodsTypeOK', NEW p \in Players,
           Store(p) \/ Fetch(p) \/ Drop(p) \/ PickUp(p)
    PROVE  Fair
<1>1. /\ Online(p) /\ UNCHANGED <<session, record, depotChange, offers, spent, lost>>
      /\ house.floor \in Nat /\ street \in Nat /\ spent \in Nat /\ lost \in Nat
  BY HouseIs DEF Store, Fetch, Drop, PickUp, Online, GoodsTypeOK
<1>2. spent' + 0 = spent /\ 0 \in Int /\ 1 \in Int /\ -1 \in Int
  BY <1>1
<1>3. CASE Store(p)
  <2>1. memory' = [memory EXCEPT ![p] = Plus(memory[p], 0, -1, 1)] /\ UNCHANGED <<house, street>>
    BY <1>3 DEF Store, GoodsTypeOK
  <2>2. house'.floor + street' + lost' + (-1 + 1) = house.floor + street + lost
    BY <1>1, <2>1
  <2> QED
    BY <1>1, <1>2, <2>1, <2>2, HandBalances DEF Fair
<1>4. CASE Fetch(p)
  <2>1. memory' = [memory EXCEPT ![p] = Plus(memory[p], 0, 1, -1)] /\ UNCHANGED <<house, street>>
    BY <1>4 DEF Fetch, GoodsTypeOK
  <2>2. house'.floor + street' + lost' + (1 + -1) = house.floor + street + lost
    BY <1>1, <2>1
  <2> QED
    BY <1>1, <1>2, <2>1, <2>2, HandBalances DEF Fair
<1>5. CASE Drop(p)
  <2>1. /\ memory' = [memory EXCEPT ![p] = Plus(memory[p], 0, -1, 0)]
        /\ house'.floor + street' = house.floor + street + 1
        /\ house'.floor \in Nat /\ street' \in Nat
    BY <1>1, <1>5 DEF Drop, GoodsTypeOK, Estates
  <2>2. house'.floor + street' + lost' + (-1 + 0) = house.floor + street + lost
    BY <1>1, <2>1
  <2> QED
    BY <1>1, <1>2, <2>1, <2>2, HandBalances DEF Fair
<1>6. CASE PickUp(p)
  <2>1. /\ memory' = [memory EXCEPT ![p] = Plus(memory[p], 0, 1, 0)]
        /\ house'.floor + street' + 1 = house.floor + street
        /\ house'.floor \in Nat /\ street' \in Nat
    BY <1>1, <1>6 DEF PickUp, GoodsTypeOK, Estates
  <2>2. house'.floor + street' + lost' + (1 + 0) = house.floor + street + lost
    BY <1>1, <2>1
  <2> QED
    BY <1>1, <1>2, <2>1, <2>2, HandBalances DEF Fair
<1> QED
  BY <1>3, <1>4, <1>5, <1>6

LEMMA MemoryMoves ==
    ASSUME GoodsTypeOK, NEW p \in Players, Online(p),
           NEW bank \in Int, NEW pack \in Int, NEW depot \in Int,
           memory[p].bank + bank >= 0, memory[p].pack + pack >= 0, memory[p].depot + depot >= 0
    PROVE  /\ Plus(memory[p], bank, pack, depot) \in Goods
           /\ InMemory(Stores, p, Plus(memory[p], bank, pack, depot)) \in AllStores
           /\ InMemory(Stores, p, Plus(memory[p], bank, pack, depot)).changed = depotChange
           /\ InMemory(Stores, p, Plus(memory[p], bank, pack, depot)).offers = offers
           /\ Moves(On, Stores, On, InMemory(Stores, p, Plus(memory[p], bank, pack, depot)),
                    pack + depot, bank)
<1> DEFINE g == Plus(memory[p], bank, pack, depot)
<1>1. /\ Stores \in AllStores /\ Stores.memory = memory
      /\ Stores.changed = depotChange /\ Stores.offers = offers
  BY StoresAreStores
<1>2. g \in Goods
  BY MineAre, PlusGoods
<1>3. Moves(On, Stores, On, InMemory(Stores, p, g), pack + depot, bank)
  <2>1. Plus(Stores.memory[p], bank, pack, depot) = g
    BY <1>1
  <2>2. Moves(On, Stores, On, InMemory(Stores, p, Plus(Stores.memory[p], bank, pack, depot)),
              pack + depot, bank)
    BY <1>1, <1>2, <2>1, InMemoryMoves
  <2> HIDE DEF g
  <2> QED
    BY <2>1, <2>2
<1> HIDE DEF g
<1>4. InMemory(Stores, p, g) \in AllStores
  BY <1>1, <1>2, InStores
<1>5. InMemory(Stores, p, g).changed = depotChange /\ InMemory(Stores, p, g).offers = offers
  BY <1>1 DEF InMemory, AllStores
<1> QED
  BY <1>2, <1>3, <1>4, <1>5 DEF g

LEMMA SendItemFair ==
    ASSUME GoodsTypeOK, GoodsTypeOK', NEW p \in Players, NEW q \in Players, SendItem(p, q)
    PROVE  Fair
<1> DEFINE g == Plus(memory[p], 0, -1, 0)
           s == InMemory(Stores, p, g)
<1>1. /\ Online(p) /\ memory[p].pack > 0 /\ UNCHANGED <<session, house, spent, lost>>
      /\ house.floor \in Nat /\ street \in Nat /\ spent \in Nat /\ lost \in Nat
  BY HouseIs DEF SendItem, GoodsTypeOK
<1>2. s \in AllStores /\ s.changed = depotChange /\ Moves(On, Stores, On, s, -1 + 0, 0)
  <2>1. /\ memory[p].bank + 0 >= 0 /\ memory[p].pack + -1 >= 0 /\ memory[p].depot + 0 >= 0
        /\ 0 \in Int /\ -1 \in Int
    BY <1>1, MineAre
  <2> QED
    BY <1>1, <2>1, MemoryMoves
<1>4. PICK outcome : /\ Settled(Delivered(s, q, 1, outcome))
                     /\ street' = IF LoadFails(q, outcome) THEN street + 1 ELSE street
                     /\ Counted(outcome)
  <2>1. [Stores EXCEPT !.memory[p] = Plus(@, 0, -1, 0)] = s
    BY DEF InMemory, Stores
  <2> HIDE DEF s
  <2> QED
    BY <2>1 DEF SendItem
<1>5. \A r \in depotChange' : r \in depotChange \/ Online(r)
  <2> HIDE DEF s
  <2>1. depotChange' = Delivered(s, q, 1, outcome).changed
    BY <1>4 DEF Settled
  <2> QED
    BY <1>2, <2>1, DeliveredMarksOnline
<1>6. ASSUME faults' = faults
      PROVE  Balanced
  <2>1. outcome = "done"
    BY <1>4, <1>6, Done
  <2>2. street' = street
    BY <1>4, <2>1 DEF LoadFails
  <2> HIDE DEF s
  <2> DEFINE t == Delivered(s, q, 1, "done")
  <2>4. Moves(On, s, On, t, 1, 0) /\ t \in AllStores
    BY <1>2, DeliveredMoves, DeliveredStores
  <2>5. Settled(t)
    BY <1>4, <2>1
  <2> HIDE DEF t
  <2>6. Moves(On, Stores, On, t, (-1 + 0) + 1, 0 + 0)
    BY <1>2, <2>4, MovesFollow
  <2>7. house'.floor + street' + lost' + ((-1 + 0) + 1) = house.floor + street + lost
    BY <1>1, <2>2
  <2>8. spent' + (0 + 0) = spent
    BY <1>1
  <2> QED
    BY <1>1, <2>4, <2>5, <2>6, <2>7, <2>8, SettledBalances
<1> QED
  BY <1>5, <1>6 DEF Fair

\* A new offer holds what it sells, or the money to pay for what it buys.
LEMMA OfferedMoves ==
    ASSUME NEW s \in AllStores, NEW i \in OfferIds, s.offers[i] = NoOffer, NEW o \in Offer,
           NEW w \in Int, NEW m \in Int,
           \/ o.sale = "sell" /\ w = o.amount /\ m = 0
           \/ o.sale = "buy" /\ w = 0 /\ m = Price * o.amount
    PROVE  /\ [s EXCEPT !.offers[i] = o] \in AllStores
           /\ Moves(On, s, On, [s EXCEPT !.offers[i] = o], w, m)
<1> DEFINE t == [s EXCEPT !.offers[i] = o]
<1>1. t \in AllStores
  BY DEF AllStores, Market
<1>2. /\ \A q \in Players : Held(On, t, q) = Held(On, s, q)
      /\ t.offers[i] = o /\ \A j \in OfferIds \ {i} : t.offers[j] = s.offers[j]
  BY DEF AllStores, Market, Held
<1> HIDE DEF t
<1>3. o # NoOffer
  BY NoOfferIsNone
<1>4. OnSale(s, i) = 0 /\ Wanted(s, i) = 0
  BY DEF OnSale, Wanted
<1>5. OnSale(t, i) = w /\ Wanted(t, i) = m
  BY <1>2, <1>3 DEF OnSale, Wanted
<1>6. OnSale(t, i) = OnSale(s, i) + w /\ Wanted(t, i) = Wanted(s, i) + m
  BY <1>4, <1>5
<1>7. Moves(On, s, On, t, w, m)
  BY <1>1, <1>2, <1>6, OfferMoves
<1> QED
  BY <1>1, <1>7 DEF t

LEMMA CreateOfferFair ==
    ASSUME GoodsTypeOK, GoodsTypeOK', NEW p \in Players, NEW i \in OfferIds,
           NEW sale \in {"buy", "sell"}, NEW n \in 1 .. MaxAmount, CreateOffer(p, i, sale, n)
    PROVE  Fair
<1> DEFINE o == [owner |-> p, sale |-> sale, amount |-> n]
<1>1. /\ Online(p) /\ i \notin Listed /\ UNCHANGED <<session, record, depotChange, house, street, lost>>
      /\ spent' = spent + Fee /\ Fee \in Nat /\ n \in Nat \ {0} /\ Price * n \in Nat
      /\ house.floor \in Nat /\ street \in Nat /\ spent \in Nat /\ lost \in Nat
  <2>1. n \in Nat \ {0} /\ Fee \in Nat
    BY GoodsConstants
  <2> QED
    BY <2>1, CostIsNatural, HouseIs DEF CreateOffer, AtMarket, Online, GoodsTypeOK
<1>2. o \in Offer /\ o.sale = sale /\ o.amount = n
  BY <1>1 DEF Offer
<1>3. ASSUME faults' = faults
      PROVE  offers' = [offers EXCEPT ![i] = o]
  <2>1. PICK outcome : /\ offers' = IF outcome = "done" THEN [offers EXCEPT ![i] = o] ELSE offers
                       /\ Counted(outcome)
    BY DEF CreateOffer
  <2>2. outcome = "done"
    BY <1>3, <2>1, Done
  <2> QED
    BY <2>1, <2>2
<1> HIDE DEF o
<1>4. ASSUME faults' = faults, NEW bank \in Int, NEW depot \in Int, NEW w \in Int, NEW m \in Int,
             memory' = [memory EXCEPT ![p] = Plus(memory[p], bank, 0, depot)],
             memory[p].bank + bank >= 0, memory[p].depot + depot >= 0,
             \/ sale = "sell" /\ w = n /\ m = 0
             \/ sale = "buy" /\ w = 0 /\ m = Price * n,
             depot + w = 0, Fee + (bank + m) = 0
      PROVE  Balanced
  <2> DEFINE g == Plus(memory[p], bank, 0, depot)
             s == InMemory(Stores, p, g)
             t == [s EXCEPT !.offers[i] = o]
  <2>1. /\ s \in AllStores /\ s.changed = depotChange /\ s.offers = offers
        /\ Moves(On, Stores, On, s, 0 + depot, bank)
    <3>1. memory[p].pack + 0 >= 0 /\ 0 \in Int
      BY MineAre
    <3> QED
      BY <1>1, <1>4, <3>1, MemoryMoves
  <2>2. s.memory = [memory EXCEPT ![p] = g] /\ s.record = record
    <3> HIDE DEF g
    <3> QED
      BY DEF InMemory, Stores
  <2>3. memory' = [memory EXCEPT ![p] = g]
    BY <1>4
  <2> HIDE DEF s, g
  <2>4. t \in AllStores /\ Moves(On, s, On, t, w, m)
    <3>1. s.offers[i] = NoOffer
      BY <1>1, <2>1 DEF Listed
    <3>2. \/ o.sale = "sell" /\ w = o.amount /\ m = 0
          \/ o.sale = "buy" /\ w = 0 /\ m = Price * o.amount
      BY <1>2, <1>4
    <3> QED
      BY <1>2, <1>4, <2>1, <3>1, <3>2, OfferedMoves
  <2>5. Settled(t)
    <3>1. t.memory = s.memory /\ t.record = s.record /\ t.changed = s.changed
          /\ t.offers = [s.offers EXCEPT ![i] = o]
      BY <2>1 DEF AllStores
    <3> HIDE DEF t
    <3> QED
      BY <1>1, <1>3, <1>4, <2>1, <2>2, <2>3, <3>1 DEF Settled
  <2> HIDE DEF t
  <2>6. Moves(On, Stores, On, t, (0 + depot) + w, bank + m)
    BY <1>4, <2>1, <2>4, MovesFollow
  <2>7. house'.floor + street' + lost' + ((0 + depot) + w) = house.floor + street + lost
    BY <1>1, <1>4
  <2>8. spent' + (bank + m) = spent
    BY <1>1, <1>4
  <2> QED
    BY <1>1, <1>4, <2>4, <2>5, <2>6, <2>7, <2>8, SettledBalances
<1>5. ASSUME faults' = faults
      PROVE  Balanced
  <2>1. CASE /\ sale = "sell"
             /\ Fee <= memory[p].bank /\ n <= memory[p].depot
             /\ memory' = [memory EXCEPT ![p] = Plus(@, -Fee, 0, -n)]
    <3>1. /\ -Fee \in Int /\ -n \in Int /\ n \in Int /\ 0 \in Int
          /\ memory[p].bank + -Fee >= 0 /\ memory[p].depot + -n >= 0
          /\ -n + n = 0 /\ Fee + (-Fee + 0) = 0
      BY <1>1, <2>1, MineAre
    <3>2. memory' = [memory EXCEPT ![p] = Plus(memory[p], -Fee, 0, -n)]
      BY <2>1
    <3> QED
      BY <1>4, <1>5, <2>1, <3>1, <3>2
  <2>2. CASE /\ sale = "buy"
             /\ Price * n + Fee <= memory[p].bank
             /\ memory' = [memory EXCEPT ![p] = Plus(@, -(Price * n + Fee), 0, 0)]
    <3>1. /\ -(Price * n + Fee) \in Int /\ Price * n \in Int /\ 0 \in Int
          /\ memory[p].bank + -(Price * n + Fee) >= 0 /\ memory[p].depot + 0 >= 0
          /\ 0 + 0 = 0 /\ Fee + (-(Price * n + Fee) + Price * n) = 0
      BY <1>1, <2>2, MineAre
    <3>2. memory' = [memory EXCEPT ![p] = Plus(memory[p], -(Price * n + Fee), 0, 0)]
      BY <2>2
    <3> QED
      BY <1>4, <1>5, <2>2, <3>1, <3>2
  <2> QED
    BY <2>1, <2>2 DEF CreateOffer
<1> QED
  BY <1>1, <1>5 DEF Fair

LEMMA ThreeMoves ==
    ASSUME NEW a \in AllStores, NEW b \in AllStores, NEW c \in AllStores, NEW d \in AllStores,
           NEW w \in Int, NEW m \in Int, NEW x \in Int, NEW n \in Int,
           NEW y \in Int, NEW o \in Int,
           Moves(On, a, On, b, w, m), Moves(On, b, On, c, x, n), Moves(On, c, On, d, y, o)
    PROVE  Moves(On, a, On, d, (w + x) + y, (m + n) + o)
<1>1. Moves(On, a, On, c, w + x, m + n) /\ w + x \in Int /\ m + n \in Int
  BY MovesFollow
<1> QED
  BY <1>1, MovesFollow

\* Requests at the market move no goods on the ground and cost nothing.
LEMMA MarketBalances ==
    ASSUME GoodsTypeOK, GoodsTypeOK', NEW t \in AllStores, Settled(t),
           UNCHANGED <<session, house, street, lost, spent>>,
           NEW w \in Int, NEW m \in Int, Moves(On, Stores, On, t, w, m), w = 0, m = 0
    PROVE  Balanced
<1>1. house.floor \in Nat /\ street \in Nat /\ spent \in Nat /\ lost \in Nat
  BY HouseIs DEF GoodsTypeOK
<1>2. house'.floor + street' + lost' + w = house.floor + street + lost
  BY <1>1
<1>3. spent' + m = spent
  BY <1>1
<1> QED
  BY <1>2, <1>3, SettledBalances

LEMMA CancelOfferFair ==
    ASSUME GoodsTypeOK, GoodsTypeOK', NEW p \in Players, NEW i \in OfferIds, CancelOffer(p, i)
    PROVE  Fair
<1> DEFINE n == offers[i].amount
<1>1. /\ Online(p) /\ i \in Listed /\ offers[i] # NoOffer
      /\ UNCHANGED <<session, record, depotChange, house, street, lost, spent>>
      /\ n \in Nat /\ Price * n \in Nat /\ offers[i].sale \in {"buy", "sell"}
  <2>1. i \in Listed /\ offers[i] # NoOffer
    BY DEF CancelOffer, OffersOf, Listed
  <2>2. offers[i] \in Offer /\ n \in Nat
    BY <2>1, OffersAre
  <2> QED
    BY <2>1, <2>2, CostIsNatural DEF CancelOffer, AtMarket, Online, Offer
<1>2. ASSUME faults' = faults
      PROVE  offers' = Withdrawn(Stores, i, "done").offers
  <2>1. PICK outcome : offers' = Withdrawn(Stores, i, outcome).offers /\ Counted(outcome)
    BY DEF CancelOffer
  <2>2. outcome = "done"
    BY <1>2, <2>1, Done
  <2> QED
    BY <2>1, <2>2
<1>3. offers'= [offers EXCEPT ![i] = NoOffer] \/ faults' # faults
  BY <1>2 DEF Withdrawn, Stores
<1>4. ASSUME faults' = faults, NEW bank \in Nat, NEW depot \in Nat,
             memory' = [memory EXCEPT ![p] = Plus(memory[p], bank, 0, depot)],
             \/ offers[i].sale = "sell" /\ depot = n /\ bank = 0
             \/ offers[i].sale = "buy" /\ depot = 0 /\ bank = Price * n
      PROVE  Balanced
  <2> DEFINE g == Plus(memory[p], bank, 0, depot)
             s == InMemory(Stores, p, g)
             t == Withdrawn(s, i, "done")
  <2>1. /\ s \in AllStores /\ s.changed = depotChange /\ s.offers = offers
        /\ Moves(On, Stores, On, s, 0 + depot, bank)
    <3>1. /\ memory[p].bank + bank >= 0 /\ memory[p].pack + 0 >= 0 /\ memory[p].depot + depot >= 0
          /\ 0 \in Int /\ bank \in Int /\ depot \in Int
      BY MineAre, <1>4
    <3> QED
      BY <1>1, <3>1, MemoryMoves
  <2>2. s.memory = [memory EXCEPT ![p] = g] /\ s.record = record
    <3> HIDE DEF g
    <3> QED
      BY DEF InMemory, Stores
  <2>3. memory' = [memory EXCEPT ![p] = g]
    BY <1>4
  <2> HIDE DEF s, g
  <2>4. -depot \in Int /\ -bank \in Int /\ depot \in Int /\ bank \in Int
    BY <1>4
  <2>5. t \in AllStores /\ Moves(On, s, On, t, -depot, -bank)
    <3>1. OnSale(s, i) = depot /\ Wanted(s, i) = bank
      BY <1>1, <1>4, <2>1 DEF OnSale, Wanted
    <3>2. OnSale(s, i) + -depot = 0 /\ Wanted(s, i) + -bank = 0
      BY <1>4, <3>1
    <3> QED
      BY <1>1, <2>1, <2>4, <3>2, WithdrawnMoves, WithdrawnStores
  <2>6. Settled(t)
    <3>1. t.memory = s.memory /\ t.record = s.record /\ t.changed = s.changed
          /\ t.offers = [s.offers EXCEPT ![i] = NoOffer]
      BY <2>1 DEF AllStores, Withdrawn
    <3> HIDE DEF t
    <3> QED
      BY <1>1, <1>3, <1>4, <2>1, <2>2, <2>3, <3>1 DEF Settled
  <2> HIDE DEF t
  <2>7. /\ Moves(On, Stores, On, t, (0 + depot) + -depot, bank + -bank)
        /\ (0 + depot) + -depot = 0 /\ bank + -bank = 0
    BY <2>1, <2>4, <2>5, MovesFollow
  <2>8. Moves(On, Stores, On, t, 0, 0)
    BY <2>7
  <2> QED
    BY <1>1, <2>5, <2>6, <2>8, MarketBalances
<1>5. ASSUME faults' = faults
      PROVE  Balanced
  <2>1. CASE offers[i].sale = "buy"
    <3>1. memory' = [memory EXCEPT ![p] = Plus(memory[p], Price * n, 0, 0)]
      BY <2>1 DEF CancelOffer
    <3> QED
      BY <1>1, <1>4, <1>5, <2>1, <3>1
  <2>2. CASE offers[i].sale = "sell"
    <3>1. memory' = [memory EXCEPT ![p] = Plus(memory[p], 0, 0, n)]
      BY <2>2 DEF CancelOffer
    <3> QED
      BY <1>1, <1>4, <1>5, <2>2, <3>1
  <2> QED
    BY <1>1, <2>1, <2>2
<1> QED
  BY <1>1, <1>5 DEF Fair

\* One sells to an offer, somebody gets the goods, and the offer pays.
LEMMA BuyOfferFair ==
    ASSUME GoodsTypeOK, GoodsTypeOK', NEW p \in Players, NEW i \in OfferIds,
           NEW n \in 1 .. MaxAmount, AcceptBuyOffer(p, i, n)
    PROVE  Fair
<1> DEFINE buyer == offers[i].owner
           sold == Paid(Stores, p, n)
<1>1. /\ Online(p) /\ i \in Listed /\ offers[i] # NoOffer /\ offers[i].sale = "buy"
      /\ n \in Nat /\ n <= offers[i].amount /\ n <= memory[p].depot
      /\ UNCHANGED <<session, house, street, lost, spent>>
      /\ offers[i] \in Offer /\ buyer \in Players /\ Price * n \in Nat
  <2>1. n \in Nat
    BY GoodsConstants
  <2>2. i \in Listed
    BY DEF AcceptBuyOffer
  <2> QED
    BY <2>1, <2>2, OffersAre, CostIsNatural DEF AcceptBuyOffer, AtMarket, Online, Listed
<1>2. /\ sold \in AllStores /\ sold.offers = offers /\ sold.changed = depotChange
      /\ Moves(On, Stores, On, sold, -n, Price * n)
  <2>1. /\ Stores \in AllStores /\ Stores.memory = memory
        /\ Stores.changed = depotChange /\ Stores.offers = offers
    BY StoresAreStores
  <2>2. n <= Stores.memory[p].depot
    BY <1>1, <2>1
  <2>3. sold.changed = depotChange
    BY DEF Paid, Stores
  <2> QED
    BY <1>1, <2>1, <2>2, <2>3, PaidStores, PaidMoves
<1>3. PICK outcome :
          /\ Settled(IF LoadFails(buyer, outcome) THEN sold
                     ELSE Reduced(Delivered(sold, buyer, n, outcome), i, n, outcome))
          /\ Counted(outcome)
  BY DEF AcceptBuyOffer
<1> HIDE DEF sold, buyer
<1> DEFINE s == Delivered(sold, buyer, n, outcome)
           t == Reduced(s, i, n, outcome)
<1>4. s \in AllStores /\ s.offers = offers
  <2>1. s \in AllStores
    BY <1>1, <1>2, DeliveredStores
  <2> QED
    BY <1>2, <2>1 DEF Delivered, AllStores
<1>5. \A q \in depotChange' : q \in depotChange \/ Online(q)
  <2>1. \A q \in s.changed : q \in depotChange \/ Online(q)
    BY <1>1, <1>2, DeliveredMarksOnline
  <2> HIDE DEF s
  <2>2. t.changed = s.changed
    BY <1>4, OthersMarkNothing
  <2> HIDE DEF t
  <2>3. depotChange' = sold.changed \/ depotChange' = t.changed
    BY <1>3 DEF Settled, t, s
  <2> QED
    BY <1>2, <2>1, <2>2, <2>3
<1>6. ASSUME faults' = faults
      PROVE  Balanced
  <2>1. outcome = "done"
    BY <1>3, <1>6, Done
  <2>2. Settled(t)
    BY <1>3, <2>1 DEF LoadFails
  <2>3. Moves(On, sold, On, s, n, 0)
    BY <1>1, <1>2, <2>1, DeliveredMoves
  <2> HIDE DEF s
  <2>4. t \in AllStores /\ Moves(On, s, On, t, 0, -(Price * n))
    BY <1>1, <1>4, <2>1, ReducedStores, ReducedMoves
  <2> HIDE DEF t
  <2>5. /\ n \in Int /\ -n \in Int /\ Price * n \in Int /\ -(Price * n) \in Int /\ 0 \in Int
        /\ (-n + n) + 0 = 0 /\ (Price * n + 0) + -(Price * n) = 0
    BY <1>1
  <2>6. Moves(On, Stores, On, t, (-n + n) + 0, (Price * n + 0) + -(Price * n))
    BY <1>2, <1>4, <2>3, <2>4, <2>5, StoresAreStores, ThreeMoves
  <2>7. Moves(On, Stores, On, t, 0, 0)
    BY <2>5, <2>6
  <2> QED
    BY <1>1, <2>2, <2>4, <2>7, MarketBalances
<1> QED
  BY <1>5, <1>6 DEF Fair

LEMMA SellOfferFair ==
    ASSUME GoodsTypeOK, GoodsTypeOK', NEW p \in Players, NEW i \in OfferIds,
           NEW n \in 1 .. MaxAmount, AcceptSellOffer(p, i, n)
    PROVE  Fair
<1> DEFINE seller == offers[i].owner
           bought == Bought(Stores, p, n)
<1>1. /\ Online(p) /\ i \in Listed /\ offers[i] # NoOffer /\ offers[i].sale = "sell"
      /\ n \in Nat /\ n <= offers[i].amount /\ Price * n <= memory[p].bank
      /\ UNCHANGED <<session, house, street, lost, spent>>
      /\ offers[i] \in Offer /\ seller \in Players /\ Price * n \in Nat
  <2>1. n \in Nat
    BY GoodsConstants
  <2>2. i \in Listed
    BY DEF AcceptSellOffer
  <2> QED
    BY <2>1, <2>2, OffersAre, CostIsNatural DEF AcceptSellOffer, AtMarket, Online, Listed
<1>2. /\ bought \in AllStores /\ bought.offers = offers /\ bought.changed = depotChange
      /\ Moves(On, Stores, On, bought, n, -(Price * n))
  <2>1. /\ Stores \in AllStores /\ Stores.memory = memory
        /\ Stores.changed = depotChange /\ Stores.offers = offers
    BY StoresAreStores
  <2>2. Price * n <= Stores.memory[p].bank
    BY <1>1, <2>1
  <2>3. bought.changed = depotChange
    BY DEF Bought, Stores
  <2> QED
    BY <1>1, <2>1, <2>2, <2>3, BoughtStores, BoughtMoves
<1>3. PICK outcome :
          /\ Settled(Reduced(Credited(bought, seller, Price * n, outcome), i, n, outcome))
          /\ Counted(outcome)
  BY DEF AcceptSellOffer
<1> HIDE DEF bought, seller
<1> DEFINE s == Credited(bought, seller, Price * n, outcome)
           t == Reduced(s, i, n, outcome)
<1>4. s \in AllStores /\ s.offers = offers
  <2>1. s \in AllStores
    BY <1>1, <1>2, CreditedStores
  <2> QED
    BY <1>2, <2>1 DEF Credited, AllStores
<1>5. \A q \in depotChange' : q \in depotChange \/ Online(q)
  <2>1. s.changed = depotChange
    BY <1>2, OthersMarkNothing
  <2> HIDE DEF s
  <2>2. t.changed = s.changed
    BY <1>4, OthersMarkNothing
  <2> HIDE DEF t
  <2>3. depotChange' = t.changed
    BY <1>3 DEF Settled, t, s
  <2> QED
    BY <2>1, <2>2, <2>3
<1>6. ASSUME faults' = faults
      PROVE  Balanced
  <2>1. outcome = "done"
    BY <1>3, <1>6, Done
  <2>2. Settled(t)
    BY <1>3
  <2>3. Moves(On, bought, On, s, 0, Price * n)
    BY <1>1, <1>2, <2>1, CreditedMoves
  <2> HIDE DEF s
  <2>4. t \in AllStores /\ Moves(On, s, On, t, -n, 0)
    BY <1>1, <1>4, <2>1, ReducedStores, ReducedMoves
  <2> HIDE DEF t
  <2>5. /\ n \in Int /\ -n \in Int /\ Price * n \in Int /\ -(Price * n) \in Int /\ 0 \in Int
        /\ (n + 0) + -n = 0 /\ (-(Price * n) + Price * n) + 0 = 0
    BY <1>1
  <2>6. Moves(On, Stores, On, t, (n + 0) + -n, (-(Price * n) + Price * n) + 0)
    BY <1>2, <1>4, <2>3, <2>4, <2>5, StoresAreStores, ThreeMoves
  <2>7. Moves(On, Stores, On, t, 0, 0)
    BY <2>5, <2>6
  <2> QED
    BY <1>1, <2>2, <2>4, <2>7, MarketBalances
<1> QED
  BY <1>5, <1>6 DEF Fair

\* An offer that expires gives its owner what it holds.
LEMMA ExpiryFair ==
    ASSUME GoodsTypeOK, GoodsTypeOK', NEW i \in OfferIds, ExpireBuyOffer(i) \/ ExpireSellOffer(i)
    PROVE  Fair
<1> DEFINE owner == offers[i].owner
           n == offers[i].amount
<1>1. /\ i \in Listed /\ offers[i] # NoOffer /\ owner \in Players /\ n \in Nat /\ Price * n \in Nat
      /\ UNCHANGED <<session, house, street, lost, spent>>
  BY OffersAre, CostIsNatural DEF ExpireBuyOffer, ExpireSellOffer, Listed
<1>2. /\ Stores \in AllStores /\ Stores.offers = offers /\ Stores.changed = depotChange
  BY StoresAreStores
<1>3. /\ n \in Int /\ -n \in Int /\ Price * n \in Int /\ -(Price * n) \in Int /\ 0 \in Int
      /\ n + -n = 0 /\ Price * n + -(Price * n) = 0 /\ 0 + 0 = 0
  BY <1>1
<1>4. CASE ExpireBuyOffer(i)
  <2>1. PICK outcome :
            /\ Settled(Withdrawn(Credited(Stores, owner, Price * n, outcome), i, outcome))
            /\ Counted(outcome)
    BY <1>4 DEF ExpireBuyOffer
  <2>2. offers[i].sale = "buy"
    BY <1>4 DEF ExpireBuyOffer
  <2> DEFINE s == Credited(Stores, owner, Price * n, outcome)
             t == Withdrawn(s, i, outcome)
  <2>3. s \in AllStores /\ s.offers = offers /\ s.changed = depotChange
    <3>1. s \in AllStores
      BY <1>1, <1>2, CreditedStores
    <3> QED
      BY <1>2, <3>1 DEF Credited, AllStores
  <2>4. depotChange' = depotChange
    <3> HIDE DEF s
    <3>1. t.changed = s.changed
      BY <2>3, OthersMarkNothing
    <3> QED
      BY <2>1, <2>3, <3>1 DEF Settled, t, s
  <2>5. ASSUME faults' = faults
        PROVE  Balanced
    <3>1. outcome = "done"
      BY <2>1, <2>5, Done
    <3>2. Moves(On, Stores, On, s, 0, Price * n)
      BY <1>1, <1>2, <3>1, CreditedMoves
    <3>3. Settled(t)
      BY <2>1
    <3> HIDE DEF s
    <3>4. t \in AllStores /\ Moves(On, s, On, t, 0, -(Price * n))
      <4>1. OnSale(s, i) = 0 /\ Wanted(s, i) = Price * n
        BY <1>1, <2>2, <2>3 DEF OnSale, Wanted
      <4>2. OnSale(s, i) + 0 = 0 /\ Wanted(s, i) + -(Price * n) = 0
        BY <1>3, <4>1
      <4> QED
        BY <1>1, <1>3, <2>3, <3>1, <4>2, WithdrawnMoves, WithdrawnStores
    <3> HIDE DEF t
    <3>5. Moves(On, Stores, On, t, 0 + 0, Price * n + -(Price * n))
      BY <1>3, <3>2, <3>4, MovesFollow
    <3>6. Moves(On, Stores, On, t, 0, 0)
      BY <1>3, <3>5
    <3> QED
      BY <1>1, <3>3, <3>4, <3>6, MarketBalances
  <2> QED
    BY <2>4, <2>5 DEF Fair
<1>5. CASE ExpireSellOffer(i)
  <2>1. PICK outcome :
            /\ Settled(IF LoadFails(owner, outcome) THEN Stores
                       ELSE Withdrawn(Delivered(Stores, owner, n, outcome), i, outcome))
            /\ Counted(outcome)
    BY <1>5 DEF ExpireSellOffer
  <2>2. offers[i].sale = "sell"
    BY <1>5 DEF ExpireSellOffer
  <2> DEFINE s == Delivered(Stores, owner, n, outcome)
             t == Withdrawn(s, i, outcome)
  <2>3. s \in AllStores /\ s.offers = offers
    <3>1. s \in AllStores
      BY <1>1, <1>2, DeliveredStores
    <3> QED
      BY <1>2, <3>1 DEF Delivered, AllStores
  <2>4. \A q \in depotChange' : q \in depotChange \/ Online(q)
    <3>1. \A q \in s.changed : q \in depotChange \/ Online(q)
      BY <1>1, <1>2, DeliveredMarksOnline
    <3> HIDE DEF s
    <3>2. t.changed = s.changed
      BY <2>3, OthersMarkNothing
    <3> HIDE DEF t
    <3>3. depotChange' = Stores.changed \/ depotChange' = t.changed
      BY <2>1 DEF Settled, t, s
    <3> QED
      BY <1>2, <3>1, <3>2, <3>3
  <2>5. ASSUME faults' = faults
        PROVE  Balanced
    <3>1. outcome = "done"
      BY <2>1, <2>5, Done
    <3>2. Moves(On, Stores, On, s, n, 0)
      BY <1>1, <1>2, <3>1, DeliveredMoves
    <3>3. Settled(t)
      BY <2>1, <3>1 DEF LoadFails
    <3> HIDE DEF s
    <3>4. t \in AllStores /\ Moves(On, s, On, t, -n, 0)
      <4>1. OnSale(s, i) = n /\ Wanted(s, i) = 0
        BY <1>1, <2>2, <2>3 DEF OnSale, Wanted
      <4>2. OnSale(s, i) + -n = 0 /\ Wanted(s, i) + 0 = 0
        BY <1>3, <4>1
      <4> QED
        BY <1>1, <1>3, <2>3, <3>1, <4>2, WithdrawnMoves, WithdrawnStores
    <3> HIDE DEF t
    <3>5. Moves(On, Stores, On, t, n + -n, 0 + 0)
      BY <1>3, <3>2, <3>4, MovesFollow
    <3>6. Moves(On, Stores, On, t, 0, 0)
      BY <1>3, <3>5
    <3> QED
      BY <1>1, <3>3, <3>4, <3>6, MarketBalances
  <2> QED
    BY <2>4, <2>5 DEF Fair
<1> QED
  BY <1>4, <1>5

LEMMA ClearedIs ==
    ASSUME GoodsTypeOK, house.owner \in Players, NEW outcome
    PROVE  /\ Cleared(Stores, outcome) \in AllStores
           /\ \A q \in Cleared(Stores, outcome).changed : q \in depotChange \/ Online(q)
           /\ outcome = "done" =>
                  Moves(On, Stores, On, Cleared(Stores, outcome), house.floor, 0)
<1>1. Stores \in AllStores /\ Stores.changed = depotChange /\ house.floor \in Nat
  BY StoresAreStores, HouseIs
<1>2. CASE house.floor = 0 /\ Online(house.owner)
  <2>1. Moves(On, Stores, On, Stores, 0, 0)
    BY <1>1, NothingMoves
  <2>2. Cleared(Stores, outcome) = Stores
    BY <1>2 DEF Cleared
  <2> QED
    BY <1>1, <1>2, <2>1, <2>2
<1>3. CASE ~(house.floor = 0 /\ Online(house.owner))
  <2> DEFINE t == Delivered(Stores, house.owner, house.floor, outcome)
  <2>1. Cleared(Stores, outcome) = t
    BY <1>3 DEF Cleared
  <2>2. t \in AllStores /\ \A q \in t.changed : q \in depotChange \/ Online(q)
    BY <1>1, DeliveredStores, DeliveredMarksOnline
  <2>3. outcome = "done" => Moves(On, Stores, On, t, house.floor, 0)
    BY <1>1, DeliveredMoves
  <2> QED
    BY <2>1, <2>2, <2>3
<1> QED
  BY <1>2, <1>3

\* What lay in a house without its owner is in his depot.
LEMMA HouseFair ==
    ASSUME GoodsTypeOK, GoodsTypeOK', NEW owner \in Players \cup {NoOwner}, SetHouseOwner(owner)
    PROVE  Fair
<1>1. /\ house.owner \in Players /\ house.floor \in Nat
      /\ UNCHANGED <<session, street, spent, lost>>
      /\ street \in Nat /\ spent \in Nat /\ lost \in Nat
  BY HouseIs DEF SetHouseOwner, GoodsTypeOK
<1>2. PICK outcome : /\ Settled(Cleared(Stores, outcome))
                     /\ house' = Vacated(owner, outcome)
                     /\ Counted(outcome)
  BY DEF SetHouseOwner
<1> DEFINE t == Cleared(Stores, outcome)
<1>3. t \in AllStores /\ \A q \in t.changed : q \in depotChange \/ Online(q)
  BY <1>1, ClearedIs
<1>4. ASSUME faults' = faults
      PROVE  Balanced
  <2>1. outcome = "done"
    BY <1>2, <1>4, Done
  <2>2. Moves(On, Stores, On, t, house.floor, 0)
    BY <1>1, <2>1, ClearedIs
  <2>3. house'.floor = 0
    BY <1>2, <2>1 DEF Vacated, LoadFails
  <2>4. Settled(t)
    BY <1>2
  <2> HIDE DEF t
  <2>5. house'.floor + street' + lost' + house.floor = house.floor + street + lost
    BY <1>1, <2>3
  <2>6. spent' + 0 = spent /\ house.floor \in Int /\ 0 \in Int
    BY <1>1
  <2> QED
    BY <1>1, <1>3, <2>2, <2>4, <2>5, <2>6, SettledBalances
<1> QED
  BY <1>2, <1>3, <1>4 DEF Fair, Settled

\* Rent is what the owner has less.
LEMMA RentFair ==
    ASSUME GoodsTypeOK, GoodsTypeOK', PayRent
    PROVE  Fair
<1> DEFINE p == house.owner
<1>1. /\ p \in Players /\ house.floor \in Nat /\ Rent \in Nat /\ Rent <= Holding(p).bank
      /\ UNCHANGED <<session, house, street, lost>>
      /\ street \in Nat /\ spent \in Nat /\ lost \in Nat
  BY HouseIs, GoodsConstants DEF PayRent, GoodsTypeOK
<1>2. PICK outcome : /\ Settled(PaidRent(Stores, p, outcome))
                     /\ spent' = IF outcome = "not saved" THEN spent ELSE spent + Rent
                     /\ Counted(outcome)
  BY DEF PayRent
<1> HIDE DEF p
<1> DEFINE t == PaidRent(Stores, p, outcome)
<1>3. Stores \in AllStores /\ Stores.changed = depotChange
  BY StoresAreStores
<1>4. depotChange' = depotChange
  <2>1. t.changed = Stores.changed
    BY <1>3, OthersMarkNothing
  <2> HIDE DEF t
  <2> QED
    BY <1>2, <1>3, <2>1 DEF Settled, t
<1>5. ASSUME faults' = faults, Present
      PROVE  Balanced
  <2>1. outcome = "done"
    BY <1>2, <1>5, Done
  <2>2. Held(On, Stores, p) = Holding(p)
    BY <1>1 DEF Held, On, Holding, Stores
  <2>3. Online(p) \/ p \notin depotChange
    BY <1>5 DEF Present
  <2>4. Moves(On, Stores, On, t, 0, -Rent)
    BY <1>1, <1>3, <2>1, <2>2, <2>3, PaidRentMoves
  <2>5. t \in AllStores
    <3>1. /\ Stores.memory[p].bank >= Rent \/ ~Online(p)
          /\ Stores.record[p].bank >= Rent \/ Online(p)
      BY <1>1, MineAre DEF Holding, Stores
    <3> QED
      BY <1>1, <1>3, <3>1, PaidRentStores
  <2>6. Settled(t)
    BY <1>2
  <2> HIDE DEF t
  <2>7. house'.floor + street' + lost' + 0 = house.floor + street + lost
    BY <1>1
  <2>8. spent' = spent + Rent
    BY <1>2, <2>1
  <2>9. -Rent \in Int /\ 0 \in Int /\ (spent + Rent) + -Rent = spent
    BY <1>1
  <2>10. spent' + -Rent = spent
    BY <2>8, <2>9
  <2> QED
    BY <1>1, <2>4, <2>5, <2>6, <2>7, <2>9, <2>10, SettledBalances
<1> QED
  BY <1>4, <1>5 DEF Fair

\* A letter adds nothing that is counted.
LEMMA WarningFair ==
    ASSUME GoodsTypeOK, GoodsTypeOK', WarnOwner
    PROVE  Fair
<1> DEFINE p == house.owner
<1>1. /\ p \in Players /\ house.floor \in Nat
      /\ UNCHANGED <<session, street, lost, spent>> /\ house' = [house EXCEPT !.warnings = @ + 1]
      /\ street \in Nat /\ spent \in Nat /\ lost \in Nat
  BY HouseIs DEF WarnOwner, GoodsTypeOK
<1>2. PICK outcome : Settled(Delivered(Stores, p, 0, outcome)) /\ Counted(outcome)
  BY DEF WarnOwner
<1> DEFINE t == Delivered(Stores, p, 0, outcome)
<1>3. t \in AllStores /\ \A q \in t.changed : q \in depotChange \/ Online(q)
  BY <1>1, StoresAreStores, DeliveredStores, DeliveredMarksOnline
<1>4. ASSUME faults' = faults
      PROVE  Balanced
  <2>1. outcome = "done"
    BY <1>2, <1>4, Done
  <2>2. Moves(On, Stores, On, t, 0, 0)
    BY <1>1, <2>1, StoresAreStores, DeliveredMoves
  <2>3. Settled(t)
    BY <1>2
  <2> HIDE DEF t
  <2>4. house'.floor = house.floor
    BY <1>1 DEF GoodsTypeOK, Estates
  <2>5. house'.floor + street' + lost' + 0 = house.floor + street + lost
    BY <1>1, <2>4
  <2>6. spent' + 0 = spent /\ 0 \in Int
    BY <1>1
  <2> QED
    BY <1>1, <1>3, <2>2, <2>3, <2>5, <2>6, SettledBalances
<1> QED
  BY <1>2, <1>3, <1>4 DEF Fair, Settled

\* What an eviction takes from the floor is in the depot of the owner, or it
\* is counted as lost.
LEMMA EvictionFair ==
    ASSUME GoodsTypeOK, GoodsTypeOK', Evict
    PROVE  Fair
<1> DEFINE p == house.owner
<1>1. /\ p \in Players /\ house.floor \in Nat /\ UNCHANGED <<session, street, spent>>
      /\ street \in Nat /\ spent \in Nat /\ lost \in Nat
  BY HouseIs DEF Evict, GoodsTypeOK
<1>2. PICK outcome :
          /\ Settled(IF Online(p) \/ outcome = "not saved" THEN Cleared(Stores, "done")
                     ELSE Delivered(Stores, p, 0, outcome))
          /\ house' = Vacated(NoOwner, outcome)
          /\ lost' = IF Online(p) \/ outcome \in {"not saved", "no player"} THEN lost
                     ELSE lost + house.floor
          /\ Counted(outcome)
  BY DEF Evict
<1> DEFINE c == Cleared(Stores, "done")
           d == Delivered(Stores, p, 0, outcome)
<1>3. /\ c \in AllStores /\ \A q \in c.changed : q \in depotChange \/ Online(q)
      /\ Moves(On, Stores, On, c, house.floor, 0)
  BY <1>1, ClearedIs
<1>4. d \in AllStores /\ \A q \in d.changed : q \in depotChange \/ Online(q)
  BY <1>1, StoresAreStores, DeliveredStores, DeliveredMarksOnline
<1>5. \/ (Online(p) \/ outcome = "not saved") /\ Settled(c)
      \/ ~(Online(p) \/ outcome = "not saved") /\ Settled(d)
  BY <1>2
<1>6. \A q \in depotChange' : q \in depotChange \/ Online(q)
  <2> HIDE DEF c, d
  <2>1. depotChange' = c.changed \/ depotChange' = d.changed
    BY <1>5 DEF Settled
  <2> QED
    BY <1>3, <1>4, <2>1
<1>7. ASSUME faults' = faults
      PROVE  Balanced
  <2>1. outcome = "done"
    BY <1>2, <1>7, Done
  <2>2. Moves(On, Stores, On, d, 0, 0)
    BY <1>1, <2>1, StoresAreStores, DeliveredMoves
  <2>3. house'.floor = 0
    BY <1>2, <2>1 DEF Vacated, LoadFails
  <2>4. spent' + 0 = spent /\ 0 \in Int /\ house.floor \in Int
    BY <1>1
  <2>5. CASE Online(p)
    <3>1. Settled(c) /\ lost' = lost
      BY <1>2, <1>5, <2>5
    <3> HIDE DEF c
    <3>2. house'.floor + street' + lost' + house.floor = house.floor + street + lost
      BY <1>1, <2>3, <3>1
    <3> QED
      BY <1>1, <1>3, <2>4, <3>1, <3>2, SettledBalances
  <2>6. CASE ~Online(p)
    <3>1. Settled(d) /\ lost' = lost + house.floor
      BY <1>2, <1>5, <2>1, <2>6
    <3> HIDE DEF d
    <3>2. house'.floor + street' + lost' + 0 = house.floor + street + lost
      BY <1>1, <2>3, <3>1
    <3> QED
      BY <1>1, <1>4, <2>2, <2>4, <3>1, <3>2, SettledBalances
  <2> QED
    BY <2>5, <2>6
<1> QED
  BY <1>6, <1>7 DEF Fair

\* A save writes the records of players whose goods are in memory.
LEMMA SavePlayerFair ==
    ASSUME GoodsTypeOK, GoodsTypeOK', NEW p \in Players, SavePlayer(p)
    PROVE  Fair
<1>1. /\ p \in todo /\ UNCHANGED <<session, memory, depotChange, offers, house, street, spent, lost>>
      /\ \A q \in Players \ {p} : record'[q] = record[q]
  BY DEF SavePlayer, GoodsTypeOK
<1>2. ASSUME Present
      PROVE  Balanced
  <2>1. Online(p)
    BY <1>1, <1>2 DEF Present
  <2>2. \A q \in Players : Held(On', Stores', q) = Held(On, Stores, q)
    BY <1>1, <2>1 DEF Held, On, Online, Stores
  <2>3. Stores'.offers = Stores.offers
    BY <1>1 DEF Stores
  <2> QED
    BY <1>1, <2>2, <2>3, NothingBalances
<1> QED
  BY <1>1, <1>2 DEF Fair

LEMMA OtherFair ==
    ASSUME GoodsTypeOK, GoodsTypeOK',
           \/ \E p \in Players : BuyHouse(p)
           \/ \E expired \in SUBSET Listed : CheckExpiredMarketOffers(expired)
           \/ SaveGameState \/ SaveHouseInfo \/ SaveHouseItems
           \/ UNCHANGED goodsVars
    PROVE  Fair
<1>1. UNCHANGED <<session, memory, record, depotChange, offers, street, spent, lost>>
  BY DEF BuyHouse, CheckExpiredMarketOffers, SaveGameState, SaveHouseInfo, SaveHouseItems,
         stores, goodsVars
<1>2. house'.floor = house.floor
  BY DEF BuyHouse, CheckExpiredMarketOffers, SaveGameState, SaveHouseInfo, SaveHouseItems,
         goodsVars, GoodsTypeOK, Estates
<1>3. On' = On /\ Stores' = Stores
  BY <1>1 DEF On, Online, Stores
<1>4. Moves(On, Stores, On', Stores', 0, 0)
  <2>1. Moves(On, Stores, On, Stores, 0, 0)
    BY StoresAreStores, NothingMoves
  <2> QED
    BY <1>3, <2>1
<1>5. house.floor \in Nat /\ street \in Nat /\ spent \in Nat /\ lost \in Nat
  BY HouseIs DEF GoodsTypeOK
<1>6. house'.floor + street' + lost' + 0 = house.floor + street + lost
  BY <1>1, <1>2, <1>5
<1>7. spent' + 0 = spent /\ 0 \in Int
  BY <1>1, <1>5
<1>8. Balanced
  BY <1>4, <1>6, <1>7, Balances
<1> QED
  BY <1>1, <1>8 DEF Fair

LEMMA StepsAreFair ==
    ASSUME GoodsTypeOK, GoodsTypeOK', [GoodsNext]_goodsVars
    PROVE  Fair \/ Crash
<1>1. ASSUME NEW p \in Players,
             \/ Login(p) \/ Logout(p) \/ OpenLocker(p) \/ EnterMarket(p) \/ LeaveMarket(p)
             \/ Store(p) \/ Fetch(p) \/ Drop(p) \/ PickUp(p) \/ SavePlayer(p)
      PROVE  Fair
  BY <1>1, LoginFair, LogoutFair, MarketFair, HandFair, SavePlayerFair
<1>2. ASSUME NEW p \in Players, NEW q \in Players, SendItem(p, q)
      PROVE  Fair
  BY <1>2, SendItemFair
<1>3. ASSUME NEW p \in Players, NEW i \in OfferIds,
             CancelOffer(p, i) \/ \E n \in 1 .. MaxAmount :
                                      \/ \E sale \in {"buy", "sell"} : CreateOffer(p, i, sale, n)
                                      \/ AcceptBuyOffer(p, i, n) \/ AcceptSellOffer(p, i, n)
      PROVE  Fair
  BY <1>3, CancelOfferFair, CreateOfferFair, BuyOfferFair, SellOfferFair
<1>4. ASSUME NEW i \in OfferIds, ExpireBuyOffer(i) \/ ExpireSellOffer(i)
      PROVE  Fair
  BY <1>4, ExpiryFair
<1>5. CASE \/ \E owner \in Players \cup {NoOwner} : SetHouseOwner(owner)
           \/ WarnOwner \/ Evict \/ PayRent
  BY <1>5, HouseFair, WarningFair, EvictionFair, RentFair
<1>6. CASE \/ \E p \in Players : BuyHouse(p)
           \/ \E expired \in SUBSET Listed : CheckExpiredMarketOffers(expired)
           \/ SaveGameState \/ SaveHouseInfo \/ SaveHouseItems
           \/ UNCHANGED goodsVars
  BY <1>6, OtherFair
<1> QED
  BY <1>1, <1>2, <1>3, <1>4, <1>5, <1>6 DEF GoodsNext
----------------------------------------------------------------------------
(***************************************************************************)
(* Present is inductive.                                                   *)
(***************************************************************************)
LEMMA SessionPresent ==
    ASSUME GoodsTypeOK, Present, NEW p \in Players,
           Login(p) \/ Logout(p) \/ OpenLocker(p) \/ EnterMarket(p) \/ LeaveMarket(p)
    PROVE  Present'
<1>1. todo' = {}
  BY DEF Login, Logout, OpenLocker, EnterMarket, LeaveMarket, Idle
<1>2. depotChange \in SUBSET Players /\ session \in [Players -> Sessions]
  BY DEF GoodsTypeOK
<1>3. \A q \in depotChange' : Online(q)'
  BY <1>2 DEF Login, Logout, OpenLocker, EnterMarket, LeaveMarket, stores, AtMarket, Online,
              Present
<1> QED
  BY <1>1, <1>3 DEF Present

LEMMA OthersTodo ==
    ASSUME GoodsTypeOK, [GoodsNext]_goodsVars, ~Crash
    PROVE  \/ \E p \in Players :
                  Login(p) \/ Logout(p) \/ OpenLocker(p) \/ EnterMarket(p) \/ LeaveMarket(p)
           \/ UNCHANGED session /\ \A p \in todo' \cap Players : p \in todo \/ Online(p)
<1>1. ASSUME NEW p \in Players,
             Store(p) \/ Fetch(p) \/ Drop(p) \/ PickUp(p) \/ BuyHouse(p) \/ SavePlayer(p)
      PROVE  UNCHANGED session /\ todo' \subseteq todo
  BY <1>1 DEF Store, Fetch, Drop, PickUp, BuyHouse, SavePlayer
<1>2. ASSUME NEW p \in Players, NEW q \in Players, SendItem(p, q)
      PROVE  UNCHANGED session /\ todo' \subseteq todo
  BY <1>2 DEF SendItem
<1>3. ASSUME NEW p \in Players, NEW i \in OfferIds,
             CancelOffer(p, i) \/ \E n \in 1 .. MaxAmount :
                                      \/ \E sale \in {"buy", "sell"} : CreateOffer(p, i, sale, n)
                                      \/ AcceptBuyOffer(p, i, n) \/ AcceptSellOffer(p, i, n)
      PROVE  UNCHANGED session /\ todo' \subseteq todo
  BY <1>3 DEF CancelOffer, CreateOffer, AcceptBuyOffer, AcceptSellOffer
<1>4. ASSUME NEW i \in OfferIds, ExpireBuyOffer(i) \/ ExpireSellOffer(i)
      PROVE  UNCHANGED session /\ todo' \subseteq todo
  BY <1>4 DEF ExpireBuyOffer, ExpireSellOffer
<1>5. CASE \/ \E owner \in Players \cup {NoOwner} : SetHouseOwner(owner)
           \/ WarnOwner \/ Evict \/ PayRent
  BY <1>5 DEF SetHouseOwner, WarnOwner, Evict, PayRent
<1>6. CASE \/ SaveHouseInfo \/ SaveHouseItems \/ UNCHANGED goodsVars
  BY <1>6 DEF SaveHouseInfo, SaveHouseItems, goodsVars
<1>7. CASE \E expired \in SUBSET Listed : CheckExpiredMarketOffers(expired)
  <2>1. todo' \subseteq OfferIds /\ UNCHANGED session
    BY <1>7 DEF CheckExpiredMarketOffers, Listed
  <2> QED
    BY <2>1, GoodsConstants
<1>8. CASE SaveGameState
  <2>1. todo' = {p \in Players : Online(p)} \cup {Houses, Floors} /\ UNCHANGED session
    BY <1>8 DEF SaveGameState
  <2> QED
    BY <2>1, GoodsConstants
<1> QED
  BY <1>1, <1>2, <1>3, <1>4, <1>5, <1>6, <1>7, <1>8 DEF GoodsNext

LEMMA PresentGoesOn ==
    GoodsTypeOK /\ Present /\ GoodsTypeOK' /\ [GoodsNext]_goodsVars => Present'
<1> SUFFICES ASSUME GoodsTypeOK, Present, GoodsTypeOK', [GoodsNext]_goodsVars
             PROVE  Present'
  OBVIOUS
<1>1. CASE Crash
  BY <1>1 DEF Crash, Present
<1>2. CASE ~Crash
  <2>1. Fair
    BY <1>2, StepsAreFair
  <2>2. CASE \E p \in Players :
                 Login(p) \/ Logout(p) \/ OpenLocker(p) \/ EnterMarket(p) \/ LeaveMarket(p)
    BY <2>2, SessionPresent
  <2>3. CASE UNCHANGED session /\ \A p \in todo' \cap Players : p \in todo \/ Online(p)
    <3>1. \A q \in depotChange' : Online(q)
      BY <2>1 DEF Fair, Present
    <3>2. \A q \in todo' \cap Players : Online(q)
      BY <2>3 DEF Present
    <3> QED
      BY <2>3, <3>1, <3>2 DEF Present, Online
  <2> QED
    BY <1>2, <2>2, <2>3, OthersTodo
<1> QED
  BY <1>1, <1>2

LEMMA PresentBegins == GoodsInit => Present
  BY DEF GoodsInit, Present

LEMMA StepsConserve ==
    GoodsTypeOK /\ Present /\ GoodsTypeOK' /\ [GoodsNext]_goodsVars =>
        [/\ <<stores, house, street, spent, lost>>' # <<stores, house, street, spent, lost>>
         /\ faults' = faults /\ \A p \in Players : DepotMarked(p)
         => Wares' + lost' = Wares + lost /\ Money' = Money]_goodsVars
<1> SUFFICES ASSUME GoodsTypeOK, Present, GoodsTypeOK', [GoodsNext]_goodsVars,
                    faults' = faults, \A p \in Players : DepotMarked(p)
             PROVE  Wares' + lost' = Wares + lost /\ Money' = Money
  OBVIOUS
<1>1. ~Crash
  BY DEF Crash, GoodsTypeOK
<1>2. Fair
  BY <1>1, StepsAreFair
<1> QED
  BY <1>2 DEF Fair, Balanced

\* For any players, offers and prices, any number of failures and crashes
\* before, and whoever is in the game: a request of a player, a step of the
\* check for expired offers or of a save, a rent or an eviction in which no
\* statement fails leaves as many goods and as much money as there were, in
\* memory, in the records, at the market, in the house and on the street.
THEOREM GoodsAreConserved == GoodsSpec => GoodsConserved
<1>1. GoodsSpec => []GoodsTypeOK
  BY GoodsTypes
<1>2. GoodsSpec => []Present
  BY <1>1, PresentBegins, PresentGoesOn, PTL DEF GoodsSpec
<1> QED
  BY <1>1, <1>2, StepsConserve, PTL DEF GoodsSpec, GoodsConserved
=============================================================================
