---------------------------- MODULE TradeProofs ----------------------------
(***************************************************************************)
(* Theorems about Trade for any number of players, items and places. The   *)
(* first invariant holds the two sides of a trade together: two sides that *)
(* agree tell which offers are released by closing a trade, and a registry *)
(* of exactly the offers tells that each of them is there to be released.  *)
(* The second one is about the items: the holders above an item form a     *)
(* chain that never comes back to it, nothing on offer lies inside another *)
(* offer, and a move that cancels no trade leaves every offer as it is.    *)
(* The last one, that containers hold no more than they have room for,     *)
(* tells that the second move of an exchange finds what the test found.    *)
(***************************************************************************)
EXTENDS Trade, FiniteSetTheorems, WellFoundedInduction, TLAPS

IInv == TypeOK /\ SidesAgree /\ OffersRegistered

----------------------------------------------------------------------------
(* Which players a change of the world can concern.                        *)

LEMMA SpectatorsArePlayers ==
    ASSUME online \subseteq Players, NEW at, NEW c
    PROVE  Spectators(at, c) \subseteq Players
<1>1. CASE c \in Players
  BY <1>1 DEF Spectators
<1>2. CASE c \notin Players /\ c \in Containers
  BY <1>2 DEF Spectators
<1>3. CASE c \notin Players /\ c \notin Containers
  BY <1>3 DEF Spectators
<1> QED
  BY <1>1, <1>2, <1>3

LEMMA ClosersArePlayers ==
    ASSUME online \subseteq Players, NEW at, NEW i, NEW c
    PROVE  ClosedByRemove(at, i) \subseteq Players /\ ClosedByMove(at, i, c) \subseteq Players
  BY SpectatorsArePlayers DEF ClosedByRemove, ClosedByAdd, ClosedByMove

\* With both sides in agreement, those who leave a trade leave it in pairs.
LEMMA PartnersLeaveTogether ==
    ASSUME TypeOK, SidesAgree, NEW S \in SUBSET Players
    PROVE  /\ WithPartners(S) \subseteq Players
           /\ S \subseteq WithPartners(S)
           /\ \A p \in Players : tradeState[p] # "NONE" =>
                  (p \in WithPartners(S) <=> tradePartner[p] \in WithPartners(S))
<1>1. WithPartners(S) \subseteq Players /\ S \subseteq WithPartners(S)
  BY DEF TypeOK, WithPartners
<1>2. \A p \in Players : tradePartner[p] # NoPlayer =>
          tradePartner[p] \in Players /\ tradePartner[tradePartner[p]] = p
  <2>1. SUFFICES ASSUME NEW p \in Players, tradePartner[p] # NoPlayer
                 PROVE  tradePartner[p] \in Players /\ tradePartner[tradePartner[p]] = p
    OBVIOUS
  <2>2. tradeState[p] # "NONE"
    BY <2>1 DEF SidesAgree, OutOfTrade
  <2>3. InTrade(p, tradePartner[p])
    BY <2>2 DEF SidesAgree
  <2> QED
    BY <2>3 DEF InTrade
<1>3. \A p \in Players : tradeState[p] # "NONE" => tradePartner[p] # NoPlayer
  BY TradeConstants DEF SidesAgree, InTrade
<1>4. \A p \in Players : p \in WithPartners(S) <=>
          p \in S \/ \E q \in S : tradePartner[q] = p
  BY TradeConstants DEF WithPartners
<1>5. ASSUME NEW p \in Players, tradeState[p] # "NONE"
      PROVE  p \in WithPartners(S) <=> tradePartner[p] \in WithPartners(S)
  <2>1. tradePartner[p] \in Players /\ tradePartner[tradePartner[p]] = p
    BY <1>2, <1>3, <1>5
  <2>2. p \in WithPartners(S) => tradePartner[p] \in WithPartners(S)
    <3>1. CASE p \in S
      BY <1>4, <2>1, <3>1
    <3>2. CASE \E q \in S : tradePartner[q] = p
      <4>1. PICK q \in S : tradePartner[q] = p
        BY <3>2
      <4>2. tradePartner[p] = q
        BY <1>2, <4>1, TradeConstants
      <4> QED
        BY <1>1, <4>2
    <3> QED
      BY <1>4, <3>1, <3>2
  <2>3. tradePartner[p] \in WithPartners(S) => p \in WithPartners(S)
    <3>1. CASE tradePartner[p] \in S
      BY <1>4, <2>1, <3>1
    <3>2. CASE \E q \in S : tradePartner[q] = tradePartner[p]
      <4>1. PICK q \in S : tradePartner[q] = tradePartner[p]
        BY <3>2
      <4>2. p = q
        BY <1>2, <2>1, <4>1, TradeConstants
      <4> QED
        BY <1>1, <4>2
    <3> QED
      BY <1>4, <2>1, <3>1, <3>2
  <2> QED
    BY <2>2, <2>3
<1> QED
  BY <1>1, <1>5

----------------------------------------------------------------------------
(* Closing trades keeps both parts of the invariant.                       *)

LEMMA CloseKeepsTypes ==
    ASSUME IInv, NEW S \in SUBSET Players, InternalCloseTrade(S)
    PROVE  /\ tradeState' \in [Players -> {"NONE", "INITIATED", "ACCEPT", "ACKNOWLEDGE"}]
           /\ tradePartner' \in [Players -> Players \cup {NoPlayer}]
           /\ tradeItem' \in [Players -> Items \cup {NoItem}]
           /\ tradeItems' \subseteq Items
           /\ refs' \in [Items -> Nat]
           /\ shown' \in [Players -> SUBSET Items]
<1> DEFINE T == WithPartners(S)
<1>1. refs' \in [Items -> Nat]
  <2>1. ASSUME NEW i \in Items
        PROVE  (IF i \in OffersOf(T) \cap tradeItems THEN refs[i] - 1 ELSE refs[i]) \in Nat
    <3>1. refs[i] \in Nat /\ (i \in tradeItems => refs[i] = 1)
      BY DEF IInv, TypeOK, OffersRegistered
    <3> QED
      BY <3>1
  <2> QED
    BY <2>1 DEF InternalCloseTrade, Release
<1>2. /\ tradeState' \in [Players -> {"NONE", "INITIATED", "ACCEPT", "ACKNOWLEDGE"}]
      /\ tradePartner' \in [Players -> Players \cup {NoPlayer}]
      /\ tradeItem' \in [Players -> Items \cup {NoItem}]
      /\ tradeItems' \subseteq Items
      /\ shown' \in [Players -> SUBSET Items]
  BY DEF IInv, TypeOK, InternalCloseTrade, Release
<1> QED
  BY <1>1, <1>2

\* Players may leave the world meanwhile when their trades close or they have none.
LEMMA CloseKeepsSides ==
    ASSUME IInv, NEW S \in SUBSET Players, InternalCloseTrade(S),
           \A p \in online \ online' : p \in WithPartners(S) \/ tradeState[p] = "NONE"
    PROVE  SidesAgree'
<1> DEFINE T == WithPartners(S)
<1>1. ASSUME NEW p \in Players
      PROVE  /\ p \in T => /\ tradeState'[p] = "NONE"
                           /\ tradePartner'[p] = NoPlayer
                           /\ tradeItem'[p] = NoItem
             /\ p \notin T => /\ tradeState'[p] = tradeState[p]
                              /\ tradePartner'[p] = tradePartner[p]
                              /\ tradeItem'[p] = tradeItem[p]
  BY DEF InternalCloseTrade, Release
<1>2. \A p \in Players : tradeState[p] # "NONE" => (p \in T <=> tradePartner[p] \in T)
  BY PartnersLeaveTogether DEF IInv
<1>3. SUFFICES ASSUME NEW p \in Players
               PROVE  /\ tradeState'[p] = "NONE" => OutOfTrade(p)'
                      /\ tradeState'[p] # "NONE" => InTrade(p, tradePartner[p])'
  BY DEF SidesAgree
<1>4. CASE p \in T
  BY <1>1, <1>4 DEF OutOfTrade, HasOffer
<1>5. CASE p \notin T /\ tradeState[p] = "NONE"
  BY <1>1, <1>5 DEF OutOfTrade, HasOffer, IInv, SidesAgree
<1>6. CASE p \notin T /\ tradeState[p] # "NONE"
  <2>1. InTrade(p, tradePartner[p])
    BY <1>6 DEF IInv, SidesAgree
  <2>2. tradePartner[p] \notin T
    BY <1>2, <1>6
  <2>3. /\ tradeState'[p] = tradeState[p]
        /\ tradePartner'[p] = tradePartner[p]
        /\ tradeItem'[p] = tradeItem[p]
    BY <1>1, <1>6
  <2>4. /\ tradeState'[tradePartner[p]] = tradeState[tradePartner[p]]
        /\ tradePartner'[tradePartner[p]] = tradePartner[tradePartner[p]]
        /\ tradeItem'[tradePartner[p]] = tradeItem[tradePartner[p]]
    BY <1>1, <2>1, <2>2 DEF InTrade
  <2>5. p \in online'
    BY <1>6, <2>1 DEF InTrade
  <2>6. InTrade(p, tradePartner[p])'
    BY <2>1, <2>3, <2>4, <2>5 DEF InTrade, HasOffer
  <2> QED
    BY <1>6, <2>3, <2>6
<1> QED
  BY <1>4, <1>5, <1>6

LEMMA CloseKeepsRegistry ==
    ASSUME IInv, NEW S \in SUBSET Players, InternalCloseTrade(S)
    PROVE  OffersRegistered'
<1> DEFINE T == WithPartners(S)
<1>0. T \subseteq Players
  BY PartnersLeaveTogether DEF IInv
<1>1. \A p \in Players : tradeItem'[p] = IF p \in T THEN NoItem ELSE tradeItem[p]
  BY DEF InternalCloseTrade, Release
<1>2. \A p, q \in Players : HasOffer(p) /\ tradeItem[p] = tradeItem[q] => p = q
  BY DEF IInv, OffersRegistered
<1>3. /\ tradeItems' = tradeItems \ OffersOf(T)
      /\ \A i \in Items : refs'[i] = IF i \in OffersOf(T) \cap tradeItems THEN refs[i] - 1
                                     ELSE refs[i]
  BY DEF InternalCloseTrade, Release
<1>4. tradeItems = OffersOf(Players)
  BY DEF IInv, OffersRegistered
<1>5. tradeItems' = OffersOf(Players)'
  <2>1. ASSUME NEW i \in tradeItems'
        PROVE  i \in OffersOf(Players)'
    <3>1. i \in tradeItems /\ i \notin OffersOf(T)
      BY <1>3
    <3>2. PICK p \in Players : tradeItem[p] = i /\ i # NoItem
      BY <1>4, <3>1 DEF OffersOf
    <3>3. p \notin T
      BY <3>1, <3>2 DEF OffersOf
    <3> QED
      BY <1>1, <3>2, <3>3 DEF OffersOf
  <2>2. ASSUME NEW i \in OffersOf(Players)'
        PROVE  i \in tradeItems'
    <3>1. PICK p \in Players : tradeItem'[p] = i /\ i # NoItem
      BY DEF OffersOf
    <3>2. p \notin T /\ tradeItem[p] = i
      BY <1>1, <3>1
    <3>3. i \in tradeItems
      BY <1>4, <3>1, <3>2 DEF OffersOf
    <3>4. i \notin OffersOf(T)
      BY <1>0, <1>2, <3>1, <3>2 DEF OffersOf, HasOffer
    <3> QED
      BY <1>3, <3>3, <3>4
  <2> QED
    BY <2>1, <2>2
<1>6. \A p, q \in Players : HasOffer(p)' /\ tradeItem'[p] = tradeItem'[q] => p = q
  BY <1>1, <1>2 DEF HasOffer
<1>7. ASSUME NEW i \in Items
      PROVE  refs'[i] = IF i \in tradeItems' THEN 1 ELSE 0
  <2>1. refs[i] = IF i \in tradeItems THEN 1 ELSE 0
    BY DEF IInv, OffersRegistered
  <2>2. CASE i \in OffersOf(T) \cap tradeItems
    BY <1>3, <2>1, <2>2
  <2>3. CASE i \notin OffersOf(T) \cap tradeItems
    BY <1>3, <2>1, <2>3
  <2> QED
    BY <2>2, <2>3
<1> QED
  BY <1>5, <1>6, <1>7 DEF OffersRegistered

\* What every action that may close trades has in common.
LEMMA CloseKeepsInvariant ==
    ASSUME IInv, NEW S \in SUBSET Players, InternalCloseTrade(S),
           \A p \in online \ online' : p \in WithPartners(S) \/ tradeState[p] = "NONE",
           online' \subseteq Players,
           position' \in [Players -> Places],
           parent' \in [Items -> Cylinders]
    PROVE  IInv'
  BY CloseKeepsTypes, CloseKeepsSides, CloseKeepsRegistry DEF IInv, TypeOK
----------------------------------------------------------------------------
(* The actions.                                                            *)

LEMMA RequestKeepsInvariant ==
    ASSUME IInv, NEW p \in Players, NEW q \in Players, NEW i \in Items, RequestTrade(p, q, i)
    PROVE  IInv'
<1>1. /\ p # q /\ p \in online /\ q \in online
      /\ PlayerMayStart(p, q) /\ PartnerMayStart(p, q)
      /\ i \notin tradeItems
      /\ tradeItem' = [tradeItem EXCEPT ![p] = i]
      /\ refs' = [refs EXCEPT ![i] = refs[i] + 1]
      /\ tradeItems' = tradeItems \cup {i}
      /\ shown' = [shown EXCEPT ![p] = Inside(parent, i)]
      /\ online' = online /\ position' = position /\ parent' = parent
  BY DEF RequestTrade, StartTrade, AlreadyTraded
<1>2. IF tradeState[q] = "NONE"
      THEN /\ tradeState' = [tradeState EXCEPT ![p] = "INITIATED", ![q] = "ACKNOWLEDGE"]
           /\ tradePartner' = [tradePartner EXCEPT ![p] = q, ![q] = p]
      ELSE /\ tradeState' = [tradeState EXCEPT ![p] = "INITIATED"]
           /\ tradePartner' = [tradePartner EXCEPT ![p] = q]
  BY DEF RequestTrade, StartTrade
<1>3. i # NoItem
  BY TradeConstants
<1>4. ~HasOffer(p)
  BY <1>1 DEF PlayerMayStart, IInv, SidesAgree, OutOfTrade, InTrade
<1>5. TypeOK'
  <2>1. Inside(parent, i) \subseteq Items
    BY DEF Inside
  <2>2. refs' \in [Items -> Nat]
    BY <1>1 DEF IInv, TypeOK
  <2>3. shown' \in [Players -> SUBSET Items]
    BY <1>1, <2>1 DEF IInv, TypeOK
  <2>4. tradeItem' \in [Players -> Items \cup {NoItem}] /\ tradeItems' \subseteq Items
    BY <1>1 DEF IInv, TypeOK
  <2>5. /\ tradeState' \in [Players -> {"NONE", "INITIATED", "ACCEPT", "ACKNOWLEDGE"}]
        /\ tradePartner' \in [Players -> Players \cup {NoPlayer}]
    <3>1. CASE tradeState[q] = "NONE"
      BY <1>2, <3>1 DEF IInv, TypeOK
    <3>2. CASE tradeState[q] # "NONE"
      BY <1>2, <3>2 DEF IInv, TypeOK
    <3> QED
      BY <3>1, <3>2
  <2> QED
    BY <1>1, <2>2, <2>3, <2>4, <2>5 DEF IInv, TypeOK
<1>6. OffersRegistered'
  <2>1. \A r \in Players : tradeItem'[r] = IF r = p THEN i ELSE tradeItem[r]
    BY <1>1 DEF IInv, TypeOK
  <2>2. tradeItems = OffersOf(Players)
    BY DEF IInv, OffersRegistered
  <2>3. tradeItems' = OffersOf(Players)'
    <3>1. ASSUME NEW j \in tradeItems'
          PROVE  j \in OffersOf(Players)'
      <4>1. CASE j = i
        BY <1>3, <2>1, <4>1 DEF OffersOf
      <4>2. CASE j # i
        <5>1. PICK r \in Players : tradeItem[r] = j /\ j # NoItem
          BY <1>1, <2>2, <4>2 DEF OffersOf
        <5>2. r # p
          BY <1>4, <5>1 DEF HasOffer
        <5> QED
          BY <2>1, <5>1, <5>2 DEF OffersOf
      <4> QED
        BY <4>1, <4>2
    <3>2. ASSUME NEW j \in OffersOf(Players)'
          PROVE  j \in tradeItems'
      <4>1. PICK r \in Players : tradeItem'[r] = j /\ j # NoItem
        BY DEF OffersOf
      <4>2. CASE r = p
        BY <1>1, <2>1, <4>1, <4>2
      <4>3. CASE r # p
        BY <1>1, <2>1, <2>2, <4>1, <4>3 DEF OffersOf
      <4> QED
        BY <4>2, <4>3
    <3> QED
      BY <3>1, <3>2
  <2>4. ASSUME NEW r \in Players, NEW s \in Players, HasOffer(r)', tradeItem'[r] = tradeItem'[s]
        PROVE  r = s
    <3>1. \A x \in Players : tradeItem[x] # i
      BY <1>1, <1>3, <2>2 DEF OffersOf
    <3>2. HasOffer(r) /\ tradeItem[r] = tradeItem[s] => r = s
      BY DEF IInv, OffersRegistered
    <3>3. CASE r = p \/ s = p
      BY <2>1, <2>4, <3>1, <3>3
    <3>4. CASE r # p /\ s # p
      BY <2>1, <2>4, <3>2, <3>4 DEF HasOffer
    <3> QED
      BY <3>3, <3>4
  <2>5. ASSUME NEW j \in Items
        PROVE  refs'[j] = IF j \in tradeItems' THEN 1 ELSE 0
    <3>1. refs[j] = IF j \in tradeItems THEN 1 ELSE 0
      BY DEF IInv, OffersRegistered
    <3>2. CASE j = i
      <4>1. refs[i] = 0
        BY <1>1, <3>1, <3>2
      <4>2. refs'[i] = 1
        BY <1>1, <4>1 DEF IInv, TypeOK
      <4> QED
        BY <1>1, <3>2, <4>2
    <3>3. CASE j # i
      <4>1. refs'[j] = refs[j]
        BY <1>1, <3>3 DEF IInv, TypeOK
      <4> QED
        BY <1>1, <3>1, <3>3, <4>1
    <3> QED
      BY <3>2, <3>3
  <2> QED
    BY <2>3, <2>4, <2>5 DEF OffersRegistered
<1>7. SidesAgree'
  <2>1. ASSUME NEW r \in Players
        PROVE  /\ tradeItem'[r] = IF r = p THEN i ELSE tradeItem[r]
               /\ tradeState[r] = "NONE" => OutOfTrade(r)
               /\ tradeState[r] # "NONE" => InTrade(r, tradePartner[r])
    BY <1>1 DEF IInv, TypeOK, SidesAgree
  <2>2. SUFFICES ASSUME NEW r \in Players
                 PROVE  /\ tradeState'[r] = "NONE" => OutOfTrade(r)'
                        /\ tradeState'[r] # "NONE" => InTrade(r, tradePartner[r])'
    BY DEF SidesAgree
  <2>3. CASE tradeState[q] = "NONE"
    <3>1. tradePartner[q] = NoPlayer /\ ~HasOffer(q)
      BY <2>1, <2>3 DEF OutOfTrade
    <3>2. tradeState[p] = "NONE" /\ tradePartner[p] = NoPlayer
      <4>1. CASE tradeState[p] = "NONE"
        BY <2>1, <4>1 DEF OutOfTrade
      <4>2. CASE tradeState[p] # "NONE"
        <5>1. tradePartner[p] = q /\ InTrade(p, q)
          BY <1>1, <2>1, <4>2 DEF PlayerMayStart
        <5> QED
          BY <3>1, <5>1, TradeConstants DEF InTrade
      <4> QED
        BY <4>1, <4>2
    <3>3. \A x \in Players :
              /\ tradeState'[x] = IF x = q THEN "ACKNOWLEDGE"
                                  ELSE IF x = p THEN "INITIATED" ELSE tradeState[x]
              /\ tradePartner'[x] = IF x = q THEN p ELSE IF x = p THEN q ELSE tradePartner[x]
      BY <1>2, <2>3 DEF IInv, TypeOK
    <3>4. CASE r = p
      <4>1. InTrade(p, q)'
        BY <1>1, <1>3, <2>1, <3>3 DEF InTrade, HasOffer
      <4> QED
        BY <1>1, <3>3, <3>4, <4>1
    <3>5. CASE r = q
      <4>1. InTrade(q, p)'
        BY <1>1, <1>3, <2>1, <3>1, <3>3 DEF InTrade, HasOffer
      <4> QED
        BY <3>3, <3>5, <4>1
    <3>6. CASE r # p /\ r # q /\ tradeState[r] = "NONE"
      BY <2>1, <3>3, <3>6 DEF OutOfTrade, HasOffer
    <3>7. CASE r # p /\ r # q /\ tradeState[r] # "NONE"
      <4>1. InTrade(r, tradePartner[r])
        BY <2>1, <3>7
      <4>2. tradePartner[r] # p /\ tradePartner[r] # q
        BY <3>1, <3>2, <4>1, TradeConstants DEF InTrade
      <4>3. tradePartner'[r] = tradePartner[r] /\ tradeState'[r] = tradeState[r]
        BY <3>3, <3>7
      <4>4. InTrade(r, tradePartner[r])'
        BY <1>1, <2>1, <3>3, <3>7, <4>1, <4>2, <4>3 DEF InTrade, HasOffer
      <4> QED
        BY <3>7, <4>3, <4>4
    <3> QED
      BY <3>4, <3>5, <3>6, <3>7
  <2>4. CASE tradeState[q] # "NONE"
    <3>1. tradePartner[q] = p /\ InTrade(q, p)
      BY <1>1, <2>1, <2>4 DEF PartnerMayStart
    <3>2. tradePartner[p] = q
      BY <3>1 DEF InTrade
    <3>3. \A x \in Players :
              /\ tradeState'[x] = IF x = p THEN "INITIATED" ELSE tradeState[x]
              /\ tradePartner'[x] = tradePartner[x]
      BY <1>2, <2>4, <3>2 DEF IInv, TypeOK
    <3>4. CASE r = p
      <4>1. InTrade(p, q)'
        BY <1>1, <1>3, <2>1, <3>1, <3>3 DEF InTrade, HasOffer
      <4> QED
        BY <3>2, <3>3, <3>4, <4>1
    <3>5. CASE r = q
      <4>1. InTrade(q, p)'
        BY <1>1, <1>3, <2>1, <3>1, <3>2, <3>3 DEF InTrade, HasOffer
      <4> QED
        BY <1>1, <2>4, <3>1, <3>3, <3>5, <4>1
    <3>6. CASE r # p /\ tradeState[r] = "NONE"
      BY <2>1, <3>3, <3>6 DEF OutOfTrade, HasOffer
    <3>7. CASE r # p /\ r # q /\ tradeState[r] # "NONE"
      <4>1. InTrade(r, tradePartner[r])
        BY <2>1, <3>7
      <4>2. tradePartner[r] # p
        BY <3>2, <3>7, <4>1 DEF InTrade
      <4>4. InTrade(r, tradePartner[r])'
        BY <1>1, <2>1, <3>3, <3>7, <4>1, <4>2 DEF InTrade, HasOffer
      <4> QED
        BY <3>3, <3>7, <4>4
    <3> QED
      BY <3>4, <3>5, <3>6, <3>7
  <2> QED
    BY <2>3, <2>4
<1> QED
  BY <1>5, <1>6, <1>7 DEF IInv

LEMMA TransferKeepsInvariant ==
    ASSUME IInv, NEW p \in Players, NEW q \in Players, Transfer(p, q),
           TransferPossible(p, q), online' = online, position' = position
    PROVE  IInv'
<1>1. PICK mid \in Moved(parent, tradeItem[p], q) :
          \E end \in Moved(mid, tradeItem[q], p) :
              /\ parent' = end
              /\ InternalCloseTrade({p} \cup ClosedByMove(parent, tradeItem[p], mid[tradeItem[p]])
                     \cup ClosedByMove(mid, tradeItem[q], end[tradeItem[q]]))
  BY DEF Transfer
<1>2. PICK end \in Moved(mid, tradeItem[q], p) :
          /\ parent' = end
          /\ InternalCloseTrade({p} \cup ClosedByMove(parent, tradeItem[p], mid[tradeItem[p]])
                 \cup ClosedByMove(mid, tradeItem[q], end[tradeItem[q]]))
  BY <1>1
<1>3. tradeItem[p] \in Items /\ tradeItem[q] \in Items
  BY DEF TransferPossible, IInv, TypeOK
<1>4. ASSUME NEW at \in [Items -> Cylinders], NEW i \in Items, NEW r \in Players,
             NEW end2 \in Moved(at, i, r)
      PROVE  end2 \in [Items -> Cylinders]
  <2>1. QueryDestination(at, r, i) \subseteq Cylinders
    BY DEF QueryDestination, FirstDestinations, DeeperDestinations, Cylinders
  <2>2. CASE QueryDestination(at, r, i) = {}
    BY <1>4, <2>2 DEF Moved
  <2>3. CASE QueryDestination(at, r, i) # {}
    <3>1. PICK c \in QueryDestination(at, r, i) : end2 = [at EXCEPT ![i] = c]
      BY <1>4, <2>3 DEF Moved
    <3> QED
      BY <2>1, <3>1
  <2> QED
    BY <2>2, <2>3
<1>5. parent' \in [Items -> Cylinders]
  <2>1. mid \in [Items -> Cylinders]
    BY <1>3, <1>4 DEF IInv, TypeOK
  <2> QED
    BY <1>2, <1>3, <1>4, <2>1
<1>6. {p} \cup ClosedByMove(parent, tradeItem[p], mid[tradeItem[p]])
          \cup ClosedByMove(mid, tradeItem[q], end[tradeItem[q]]) \in SUBSET Players
  BY ClosersArePlayers DEF IInv, TypeOK
<1> QED
  BY <1>2, <1>5, <1>6, CloseKeepsInvariant DEF IInv, TypeOK

LEMMA AcceptKeepsInvariant ==
    ASSUME IInv, NEW p \in Players, AcceptTrade(p)
    PROVE  IInv'
<1> DEFINE q == tradePartner[p]
<1>1. /\ MayAccept(p)
      /\ \/ /\ tradeState[q] # "ACCEPT"
            /\ tradeState' = [tradeState EXCEPT ![p] = "ACCEPT"]
            /\ UNCHANGED <<tradePartner, tradeItem, tradeItems, refs, shown, parent>>
         \/ tradeState[q] = "ACCEPT" /\ Exchange(p, q)
      /\ online' = online /\ position' = position
  BY DEF AcceptTrade
<1>2. InTrade(p, q) /\ q \in Players
  BY <1>1 DEF MayAccept, IInv, SidesAgree, InTrade
<1>3. CASE /\ tradeState[q] # "ACCEPT"
           /\ tradeState' = [tradeState EXCEPT ![p] = "ACCEPT"]
           /\ UNCHANGED <<tradePartner, tradeItem, tradeItems, refs, shown, parent>>
  <2>1. TypeOK'
    BY <1>1, <1>3 DEF IInv, TypeOK
  <2>2. OffersRegistered'
    BY <1>3 DEF IInv, OffersRegistered, OffersOf, HasOffer
  <2>3. \A x \in Players : tradeState'[x] = IF x = p THEN "ACCEPT" ELSE tradeState[x]
    BY <1>3 DEF IInv, TypeOK
  <2>4. tradeState[p] # "NONE" /\ tradePartner[q] = p
    BY <1>1, <1>2 DEF MayAccept, InTrade
  <2>5. SidesAgree'
    <3>1. SUFFICES ASSUME NEW r \in Players
                   PROVE  /\ tradeState'[r] = "NONE" => OutOfTrade(r)'
                          /\ tradeState'[r] # "NONE" => InTrade(r, tradePartner[r])'
      BY DEF SidesAgree
    <3>2. CASE tradeState[r] = "NONE"
      BY <1>3, <2>3, <2>4, <3>2 DEF IInv, SidesAgree, OutOfTrade, HasOffer
    <3>3. CASE tradeState[r] # "NONE"
      <4>1. InTrade(r, tradePartner[r])
        BY <3>3 DEF IInv, SidesAgree
      <4>2. tradePartner[r] = p => r = q
        BY <4>1 DEF InTrade
      <4>3. InTrade(r, tradePartner[r])'
        BY <1>1, <1>3, <2>3, <4>1, <4>2 DEF InTrade, HasOffer
      <4> QED
        BY <2>3, <3>3, <4>3
    <3> QED
      BY <3>2, <3>3
  <2> QED
    BY <2>1, <2>2, <2>5 DEF IInv
<1>4. CASE tradeState[q] = "ACCEPT" /\ Exchange(p, q)
  <2>1. CASE TransferPossible(p, q)
    BY <1>1, <1>2, <1>4, <2>1, TransferKeepsInvariant DEF Exchange
  <2>2. CASE ~TransferPossible(p, q)
    <3>1. InternalCloseTrade({p}) /\ parent' = parent
      BY <1>4, <2>2 DEF Exchange
    <3> QED
      BY <1>1, <3>1, CloseKeepsInvariant DEF IInv, TypeOK
  <2> QED
    BY <2>1, <2>2
<1> QED
  BY <1>1, <1>3, <1>4

LEMMA MoveKeepsInvariant ==
    ASSUME IInv, NEW p \in Players, NEW i \in Items, NEW c \in Cylinders, MoveItem(p, i, c)
    PROVE  IInv'
<1>1. ClosedByMove(parent, i, c) \in SUBSET Players
  BY ClosersArePlayers DEF IInv, TypeOK
<1>2. parent' \in [Items -> Cylinders]
  BY DEF MoveItem, IInv, TypeOK
<1> QED
  BY <1>1, <1>2, CloseKeepsInvariant DEF MoveItem, IInv, TypeOK

LEMMA ExchangeItemKeepsInvariant ==
    ASSUME IInv, NEW p \in Players, NEW i \in Items, NEW j \in Items, ExchangeItem(p, i, j)
    PROVE  IInv'
<1> DEFINE mid == [parent EXCEPT ![j] = parent[i]]
           end == [mid EXCEPT ![i] = p]
           closers == ClosedByMove(parent, j, parent[i])
                          \cup IF QueryAdd(mid, i, p) THEN ClosedByMove(mid, i, p) ELSE {}
<1>1. /\ parent' = IF QueryAdd(mid, i, p) THEN end ELSE mid
      /\ InternalCloseTrade(closers)
      /\ online' = online /\ position' = position
  BY DEF ExchangeItem
<1>2. closers \in SUBSET Players
  <2>1. ClosedByMove(parent, j, parent[i]) \subseteq Players
    BY ClosersArePlayers DEF IInv, TypeOK
  <2>2. ClosedByMove(mid, i, p) \subseteq Players
    BY ClosersArePlayers DEF IInv, TypeOK
  <2> HIDE DEF mid
  <2> QED
    BY <2>1, <2>2
<1>3. parent' \in [Items -> Cylinders]
  <2>1. mid \in [Items -> Cylinders]
    BY DEF IInv, TypeOK
  <2>2. end \in [Items -> Cylinders]
    BY <2>1 DEF Cylinders
  <2> HIDE DEF mid, end
  <2> QED
    BY <1>1, <2>1, <2>2
<1> HIDE DEF closers
<1> QED
  BY <1>1, <1>2, <1>3, CloseKeepsInvariant DEF IInv, TypeOK

LEMMA RemoveKeepsInvariant ==
    ASSUME IInv, NEW i \in Items, RemoveItem(i)
    PROVE  IInv'
<1>1. ClosedByRemove(parent, i) \in SUBSET Players
  BY ClosersArePlayers DEF IInv, TypeOK
<1>2. parent' \in [Items -> Cylinders]
  BY DEF RemoveItem, IInv, TypeOK, Cylinders
<1> QED
  BY <1>1, <1>2, CloseKeepsInvariant DEF RemoveItem, IInv, TypeOK

LEMMA WalkKeepsInvariant ==
    ASSUME IInv, NEW p \in Players, NEW place \in Places, Walk(p, place)
    PROVE  IInv'
<1>1. position' \in [Players -> Places]
  BY DEF Walk, IInv, TypeOK
<1>2. PICK S \in SUBSET Players : InternalCloseTrade(S)
  BY DEF Walk
<1> QED
  BY <1>1, <1>2, CloseKeepsInvariant DEF Walk, IInv, TypeOK

LEMMA DisappearKeepsInvariant ==
    ASSUME IInv, NEW p \in Players, Disappear(p)
    PROVE  IInv'
<1>1. /\ online' = online \ {p}
      /\ position' = position /\ parent' = parent
  BY DEF Disappear
<1>2. CASE tradePartner[p] # NoPlayer
  <2>1. InternalCloseTrade({p}) /\ p \in WithPartners({p})
    BY <1>2 DEF Disappear, WithPartners
  <2> QED
    BY <1>1, <2>1, CloseKeepsInvariant DEF IInv, TypeOK
<1>3. CASE tradePartner[p] = NoPlayer
  <2>1. InternalCloseTrade({}) /\ tradeState[p] = "NONE"
    BY <1>3, TradeConstants DEF Disappear, IInv, SidesAgree, InTrade
  <2> QED
    BY <1>1, <2>1, CloseKeepsInvariant DEF IInv, TypeOK
<1> QED
  BY <1>2, <1>3

LEMMA CloseTradeKeepsInvariant ==
    ASSUME IInv, NEW p \in Players, CloseTrade(p)
    PROVE  IInv'
  BY CloseKeepsInvariant DEF CloseTrade, IInv, TypeOK

LEMMA LoginKeepsInvariant ==
    ASSUME IInv, NEW p \in Players, Login(p)
    PROVE  IInv'
<1>1. /\ online' = online \cup {p}
      /\ UNCHANGED <<position, parent, tradeState, tradePartner, tradeItem, tradeItems, refs, shown>>
  BY DEF Login, traders, registry
<1>2. TypeOK' /\ OffersRegistered'
  BY <1>1 DEF IInv, TypeOK, OffersRegistered, OffersOf, HasOffer
<1>3. SidesAgree'
  BY <1>1 DEF IInv, SidesAgree, OutOfTrade, InTrade, HasOffer
<1> QED
  BY <1>2, <1>3 DEF IInv

----------------------------------------------------------------------------
(* The cylinders above an item: the least set that holds its parent and,   *)
(* with an item, the parent of this item. Above collects it in as many     *)
(* rounds as there are items, which is enough.                             *)

LEMMA FromZeroOn ==
    ASSUME NEW S, 0 \in S, \A n \in Nat : n \in S => n + 1 \in S
    PROVE  \A n \in Nat : n \in S
<1> DEFINE T == Nat \ S
<1>1. SUFFICES ASSUME T # {}
               PROVE  FALSE
  OBVIOUS
<1>2. PICK n \in T : \A m \in T : ~ (<<m, n>> \in OpToRel(<, Nat))
  BY <1>1, WFMin, NatLessThanWellFounded, Zenon
<1>3. \A m \in T : ~(m < n)
  BY <1>2, Zenon DEF OpToRel
<1>4. n # 0 /\ n - 1 \in Nat /\ n - 1 < n /\ n = (n - 1) + 1
  OBVIOUS
<1>5. n - 1 \in S
  BY <1>3, <1>4
<1> QED
  BY <1>4, <1>5

Higher(at, s) == s \cup {at[c] : c \in s \cap Items}

Rounds(at, i, n) ==
    {up \in [0 .. n -> SUBSET Cylinders] :
        up[0] = {at[i]} /\ \A m \in 1 .. n : up[m] = Higher(at, up[m - 1])}

LEMMA RoundsExist ==
    ASSUME NEW at \in [Items -> Cylinders], NEW i \in Items
    PROVE  \A n \in Nat : Rounds(at, i, n) # {}
<1> DEFINE S == {n \in Nat : Rounds(at, i, n) # {}}
<1>1. 0 \in S
  <2>1. [m \in 0 .. 0 |-> {at[i]}] \in Rounds(at, i, 0)
    BY DEF Rounds
  <2> QED
    BY <2>1
<1>2. ASSUME NEW n \in Nat, n \in S
      PROVE  n + 1 \in S
  <2>1. PICK up : up \in Rounds(at, i, n)
    BY <1>2
  <2>2. /\ up \in [0 .. n -> SUBSET Cylinders]
        /\ up[0] = {at[i]} /\ \A m \in 1 .. n : up[m] = Higher(at, up[m - 1])
    BY <2>1 DEF Rounds
  <2> DEFINE next == [m \in 0 .. n + 1 |-> IF m = n + 1 THEN Higher(at, up[n]) ELSE up[m]]
  <2>3. Higher(at, up[n]) \in SUBSET Cylinders
    BY <2>2 DEF Higher
  <2>4. next \in [0 .. n + 1 -> SUBSET Cylinders]
    BY <2>2, <2>3
  <2>5. next[0] = {at[i]}
    BY <2>2
  <2>6. ASSUME NEW m \in 1 .. n + 1
        PROVE  next[m] = Higher(at, next[m - 1])
    <3>1. CASE m = n + 1
      BY <3>1
    <3>2. CASE m # n + 1
      <4>1. m \in 1 .. n /\ m - 1 \in 0 .. n /\ m \in 0 .. n + 1 /\ m - 1 \in 0 .. n + 1 /\ m - 1 # n + 1
        BY <3>2
      <4>2. next[m] = up[m] /\ next[m - 1] = up[m - 1]
        BY <3>2, <4>1
      <4> QED
        BY <2>2, <4>1, <4>2
    <3> QED
      BY <3>1, <3>2
  <2> HIDE DEF next
  <2>7. next \in Rounds(at, i, n + 1)
    BY <2>4, <2>5, <2>6 DEF Rounds
  <2> QED
    BY <2>7
<1> HIDE DEF S
<1>3. \A n \in Nat : n \in S
  BY <1>1, <1>2, FromZeroOn
<1> QED
  BY <1>3 DEF S

LEMMA AboveIsARound ==
    ASSUME NEW at \in [Items -> Cylinders], NEW i \in Items
    PROVE  \E up \in Rounds(at, i, Cardinality(Items)) : Above(at, i) = up[Cardinality(Items)]
<1> DEFINE N == Cardinality(Items)
           up[n \in 0 .. N] ==
               IF n = 0 THEN {at[i]} ELSE up[n - 1] \cup {at[c] : c \in up[n - 1] \cap Items}
<1>1. N \in Nat
  BY Finite, FS_CardinalityType
<1>2. PICK f : f \in Rounds(at, i, N)
  BY <1>1, RoundsExist
<1>3. /\ f \in [0 .. N -> SUBSET Cylinders] /\ f[0] = {at[i]}
      /\ \A m \in 1 .. N : f[m] = Higher(at, f[m - 1])
  BY <1>2 DEF Rounds
<1>4. f = [n \in 0 .. N |-> IF n = 0 THEN {at[i]} ELSE f[n - 1] \cup {at[c] : c \in f[n - 1] \cap Items}]
  <2>1. \A n \in 0 .. N : f[n] = IF n = 0 THEN {at[i]} ELSE f[n - 1] \cup {at[c] : c \in f[n - 1] \cap Items}
    BY <1>1, <1>3 DEF Higher
  <2> QED
    BY <1>3, <2>1
<1>5. up = [n \in 0 .. N |-> IF n = 0 THEN {at[i]} ELSE up[n - 1] \cup {at[c] : c \in up[n - 1] \cap Items}]
  BY <1>4, Zenon
<1>6. Above(at, i) = up[N]
  BY DEF Above
<1> HIDE DEF up
<1>7. up[0] = {at[i]} /\ \A n \in 1 .. N : up[n] = Higher(at, up[n - 1])
  <2>1. 0 \in 0 .. N /\ \A n \in 1 .. N : n \in 0 .. N /\ n # 0
    BY <1>1
  <2>2. \A n \in 0 .. N : up[n] = IF n = 0 THEN {at[i]} ELSE up[n - 1] \cup {at[c] : c \in up[n - 1] \cap Items}
    BY <1>5
  <2> QED
    BY <2>1, <2>2 DEF Higher
<1>8. up \in [0 .. N -> SUBSET Cylinders]
  <2> DEFINE S == {n \in Nat : n <= N => up[n] \subseteq Cylinders}
  <2>1. 0 \in S
    BY <1>7
  <2>2. ASSUME NEW n \in Nat, n \in S
        PROVE  n + 1 \in S
    <3>1. SUFFICES ASSUME n + 1 <= N
                   PROVE  up[n + 1] \subseteq Cylinders
      OBVIOUS
    <3>2. n + 1 \in 1 .. N /\ (n + 1) - 1 = n /\ n <= N
      BY <1>1, <3>1
    <3>3. up[n + 1] = Higher(at, up[n]) /\ up[n] \subseteq Cylinders
      BY <1>7, <2>2, <3>2
    <3> QED
      BY <3>3 DEF Higher
  <2> HIDE DEF S
  <2>3. \A n \in Nat : n \in S
    BY <2>1, <2>2, FromZeroOn
  <2>4. \A n \in 0 .. N : up[n] \subseteq Cylinders
    BY <1>1, <2>3 DEF S
  <2>5. up = [n \in 0 .. N |-> up[n]]
    BY <1>5, Zenon
  <2> QED
    BY <2>4, <2>5
<1> QED
  BY <1>6, <1>7, <1>8 DEF Rounds

\* What is above an item is closed: as long as a round adds something, it adds an item.
LEMMA AboveIsClosed ==
    ASSUME NEW at \in [Items -> Cylinders], NEW i \in Items
    PROVE  /\ Above(at, i) \subseteq Cylinders
           /\ at[i] \in Above(at, i)
           /\ \A c \in Above(at, i) \cap Items : at[c] \in Above(at, i)
<1> DEFINE N == Cardinality(Items)
<1>1. N \in Nat /\ IsFiniteSet(Items)
  BY Finite, FS_CardinalityType
<1>2. PICK up \in Rounds(at, i, N) : Above(at, i) = up[N]
  BY AboveIsARound
<1>3. /\ up \in [0 .. N -> SUBSET Cylinders] /\ up[0] = {at[i]}
      /\ \A m \in 1 .. N : up[m] = Higher(at, up[m - 1])
  BY <1>2 DEF Rounds
<1> HIDE DEF N
<1> DEFINE Closed(s) == \A c \in s \cap Items : at[c] \in s
           S == {n \in Nat : n <= N =>
                     /\ at[i] \in up[n]
                     /\ Closed(up[n]) \/ Cardinality(up[n] \cap Items) >= n + 1}
<1>4. ASSUME NEW s \in SUBSET Cylinders
      PROVE  IsFiniteSet(s \cap Items) /\ Cardinality(s \cap Items) \in Nat
             /\ Cardinality(s \cap Items) <= N
  BY <1>1, FS_Subset, FS_CardinalityType DEF N
<1>5. 0 \in S
  <2>1. at[i] \in up[0]
    BY <1>3
  <2>2. CASE at[i] \in Items
    <3>1. up[0] \cap Items = {at[i]}
      BY <1>3, <2>2
    <3>2. Cardinality(up[0] \cap Items) = 1
      BY <3>1, FS_Singleton
    <3> QED
      BY <2>1, <3>2
  <2>3. CASE at[i] \notin Items
    <3>1. Closed(up[0])
      BY <1>3, <2>3
    <3> QED
      BY <2>1, <3>1
  <2> QED
    BY <2>2, <2>3
<1>6. ASSUME NEW n \in Nat, n \in S
      PROVE  n + 1 \in S
  <2>1. SUFFICES ASSUME n + 1 <= N
                 PROVE  /\ at[i] \in up[n + 1]
                        /\ Closed(up[n + 1]) \/ Cardinality(up[n + 1] \cap Items) >= (n + 1) + 1
    OBVIOUS
  <2>2. n + 1 \in 1 .. N /\ (n + 1) - 1 = n /\ n <= N /\ n \in 0 .. N /\ n + 1 \in 0 .. N
    BY <1>1, <2>1 DEF N
  <2>3. up[n + 1] = Higher(at, up[n]) /\ up[n] \subseteq Cylinders /\ up[n + 1] \subseteq Cylinders
    BY <1>3, <2>2
  <2>4. at[i] \in up[n] /\ (Closed(up[n]) \/ Cardinality(up[n] \cap Items) >= n + 1)
    BY <1>6, <2>2
  <2>5. up[n] \subseteq up[n + 1] /\ at[i] \in up[n + 1]
    BY <2>3, <2>4 DEF Higher
  <2>6. CASE Closed(up[n])
    BY <2>3, <2>5, <2>6 DEF Higher
  <2>7. CASE ~Closed(up[n]) /\ up[n + 1] \cap Items = up[n] \cap Items
    BY <2>3, <2>5, <2>7 DEF Higher
  <2>8. CASE ~Closed(up[n]) /\ up[n + 1] \cap Items # up[n] \cap Items
    <3>1. PICK c \in up[n + 1] \cap Items : c \notin up[n] \cap Items
      BY <2>5, <2>8
    <3>2. Cardinality(up[n] \cap Items) >= n + 1
      BY <2>4, <2>8
    <3>3. /\ Cardinality((up[n] \cap Items) \cup {c}) = Cardinality(up[n] \cap Items) + 1
          /\ IsFiniteSet((up[n] \cap Items) \cup {c})
      BY <1>4, <2>3, <3>1, FS_AddElement
    <3>4. (up[n] \cap Items) \cup {c} \subseteq up[n + 1] \cap Items
      BY <2>5, <3>1
    <3>5. Cardinality((up[n] \cap Items) \cup {c}) <= Cardinality(up[n + 1] \cap Items)
      BY <1>4, <2>3, <3>4, FS_Subset
    <3>6. /\ Cardinality(up[n] \cap Items) \in Nat /\ Cardinality(up[n + 1] \cap Items) \in Nat
      BY <1>4, <2>3
    <3> QED
      BY <2>5, <3>2, <3>3, <3>5, <3>6
  <2> QED
    BY <2>6, <2>7, <2>8
<1> HIDE DEF S, Closed
<1>7. N \in S
  BY <1>1, <1>5, <1>6, FromZeroOn DEF N
<1>8. at[i] \in up[N] /\ (Closed(up[N]) \/ Cardinality(up[N] \cap Items) >= N + 1)
  BY <1>1, <1>7 DEF S, N
<1>9. up[N] \subseteq Cylinders
  BY <1>1, <1>3 DEF N
<1>10. Cardinality(up[N] \cap Items) \in Nat /\ Cardinality(up[N] \cap Items) <= N
  BY <1>4, <1>9
<1>11. Closed(up[N])
  BY <1>1, <1>8, <1>10 DEF N
<1> QED
  BY <1>2, <1>8, <1>9, <1>11 DEF Closed, N

LEMMA AboveIsLeast ==
    ASSUME NEW at \in [Items -> Cylinders], NEW i \in Items, NEW T,
           at[i] \in T, \A c \in T \cap Items : at[c] \in T
    PROVE  Above(at, i) \subseteq T
<1> DEFINE N == Cardinality(Items)
<1>1. N \in Nat
  BY Finite, FS_CardinalityType
<1>2. PICK up \in Rounds(at, i, N) : Above(at, i) = up[N]
  BY AboveIsARound
<1>3. up[0] = {at[i]} /\ \A m \in 1 .. N : up[m] = Higher(at, up[m - 1])
  BY <1>2 DEF Rounds
<1> HIDE DEF N
<1> DEFINE S == {n \in Nat : n <= N => up[n] \subseteq T}
<1>4. 0 \in S
  BY <1>3
<1>5. ASSUME NEW n \in Nat, n \in S
      PROVE  n + 1 \in S
  <2>1. SUFFICES ASSUME n + 1 <= N
                 PROVE  up[n + 1] \subseteq T
    OBVIOUS
  <2>2. n + 1 \in 1 .. N /\ (n + 1) - 1 = n /\ n <= N
    BY <1>1, <2>1
  <2>3. up[n + 1] = Higher(at, up[n]) /\ up[n] \subseteq T
    BY <1>3, <1>5, <2>2
  <2> QED
    BY <2>3 DEF Higher
<1> HIDE DEF S
<1>6. N \in S
  BY <1>1, <1>4, <1>5, FromZeroOn
<1> QED
  BY <1>1, <1>2, <1>6 DEF S, N
\* The first step upwards, and all that is above what is above.
LEMMA AboveUnfolds ==
    ASSUME NEW at \in [Items -> Cylinders], NEW i \in Items
    PROVE  /\ \A x : x \in Above(at, i) <=> x = at[i] \/ (at[i] \in Items /\ x \in Above(at, at[i]))
           /\ \A c \in Above(at, i) \cap Items : Above(at, c) \subseteq Above(at, i)
<1>1. \A c \in Above(at, i) \cap Items : Above(at, c) \subseteq Above(at, i)
  BY AboveIsClosed, AboveIsLeast
<1>2. ASSUME NEW x, x \in Above(at, i)
      PROVE  x = at[i] \/ (at[i] \in Items /\ x \in Above(at, at[i]))
  <2>1. CASE at[i] \in Items
    <3> DEFINE T == {at[i]} \cup Above(at, at[i])
    <3>1. at[i] \in T /\ \A c \in T \cap Items : at[c] \in T
      BY <2>1, AboveIsClosed
    <3> HIDE DEF T
    <3>2. Above(at, i) \subseteq T
      BY <3>1, AboveIsLeast
    <3> QED
      BY <1>2, <2>1, <3>2 DEF T
  <2>2. CASE at[i] \notin Items
    <3> DEFINE T == {at[i]}
    <3>1. at[i] \in T /\ \A c \in T \cap Items : at[c] \in T
      BY <2>2
    <3> HIDE DEF T
    <3>2. Above(at, i) \subseteq T
      BY <3>1, AboveIsLeast
    <3> QED
      BY <1>2, <3>2 DEF T
  <2> QED
    BY <2>1, <2>2
<1>3. at[i] \in Above(at, i)
  BY AboveIsClosed
<1> QED
  BY <1>1, <1>2, <1>3

\* What is above an item is a chain.
LEMMA AboveIsChain ==
    ASSUME NEW at \in [Items -> Cylinders], NEW i \in Items, NEW x \in Above(at, i), NEW y \in Above(at, i)
    PROVE  \/ x = y
           \/ x \in Items /\ y \in Above(at, x)
           \/ y \in Items /\ x \in Above(at, y)
<1> DEFINE Linked(z) == \/ z = x
                        \/ z \in Items /\ x \in Above(at, z)
                        \/ x \in Items /\ z \in Above(at, x)
           T == {z \in Cylinders : Linked(z)}
<1>1. at[i] \in T
  <2>1. x = at[i] \/ (at[i] \in Items /\ x \in Above(at, at[i]))
    BY AboveUnfolds
  <2>2. Linked(at[i])
    BY <2>1
  <2> QED
    BY <2>2
<1>2. ASSUME NEW z \in T \cap Items
      PROVE  at[z] \in T
  <2>1. CASE z = x
    <3>1. Linked(at[z])
      BY <2>1, AboveIsClosed
    <3> QED
      BY <3>1
  <2>2. CASE x \in Above(at, z)
    <3>1. x = at[z] \/ (at[z] \in Items /\ x \in Above(at, at[z]))
      BY <2>2, AboveUnfolds
    <3>2. Linked(at[z])
      BY <3>1
    <3> QED
      BY <3>2
  <2>3. CASE x \in Items /\ z \in Above(at, x)
    <3>1. Linked(at[z])
      BY <2>3, AboveIsClosed
    <3> QED
      BY <3>1
  <2> QED
    BY <1>2, <2>1, <2>2, <2>3
<1> HIDE DEF T
<1>3. Above(at, i) \subseteq T
  BY <1>1, <1>2, AboveIsLeast
<1>4. Linked(y)
  BY <1>3 DEF T
<1> QED
  BY <1>4

\* The top: what is above an item and is no item.
LEMMA TopIs ==
    ASSUME NEW at \in [Items -> Cylinders], NEW i \in Items
    PROVE  /\ \A top \in Above(at, i) \ Items : TopParent(at, i) = top
           /\ TopParent(at, i) # Nowhere => TopParent(at, i) \in Above(at, i) \ Items
           /\ \A top \in Above(at, i) \ Items : \A c \in Above(at, i) \cap Items : top \in Above(at, c)
<1>1. \A x, y \in Above(at, i) \ Items : x = y
  BY AboveIsChain
<1>2. ASSUME ~(Above(at, i) \subseteq Items)
      PROVE  TopParent(at, i) \in Above(at, i) \ Items
  <2>1. \E top \in Above(at, i) \ Items : TRUE
    BY <1>2
  <2>2. (CHOOSE top \in Above(at, i) \ Items : TRUE) \in Above(at, i) \ Items
    BY <2>1
  <2> QED
    BY <1>2, <2>2 DEF TopParent
<1>3. Above(at, i) \subseteq Items => TopParent(at, i) = Nowhere
  BY DEF TopParent
<1>4. \A top \in Above(at, i) \ Items : \A c \in Above(at, i) \cap Items : top \in Above(at, c)
  BY AboveIsChain
<1>5. \A top \in Above(at, i) \ Items : TopParent(at, i) = top
  BY <1>1, <1>2
<1> QED
  BY <1>2, <1>3, <1>4, <1>5

----------------------------------------------------------------------------
(* A move of one item.                                                     *)

Acyclic(at) == at \in [Items -> Cylinders] /\ \A i \in Items : i \notin Above(at, i)
MayHold(at, i, c) ==
    c \in Cylinders /\ (c \in Items => c \in Containers /\ c # i /\ i \notin Above(at, c))

LEMMA QueryAddHolds ==
    ASSUME NEW at, NEW i \in Items, NEW c, QueryAdd(at, i, c)
    PROVE  MayHold(at, i, c)
<1>1. CASE c \in Containers
  BY <1>1, TradeConstants DEF QueryAdd, CanAddToContainer, WouldContainItself, MayHold, Cylinders
<1>2. CASE c \notin Containers /\ c \in Players
  BY <1>2, TradeConstants DEF MayHold, Cylinders
<1>3. CASE c \notin Containers /\ c \in Places
  BY <1>3, TradeConstants DEF MayHold, Cylinders
<1>4. CASE c \notin Containers /\ c \notin Players /\ c \notin Places
  BY <1>4 DEF QueryAdd
<1> QED
  BY <1>1, <1>2, <1>3, <1>4

LEMMA MoveElsewhere ==
    ASSUME NEW at, Acyclic(at), NEW i \in Items, NEW c, MayHold(at, i, c), NEW x \in Items
    PROVE  LET to == [at EXCEPT ![i] = c]
           IN  /\ to \in [Items -> Cylinders]
               /\ x # i /\ i \notin Above(at, x) => Above(to, x) = Above(at, x)
               /\ Above(to, x) \subseteq Above(at, x) \cup {c} \cup (IF c \in Items THEN Above(at, c) ELSE {})
<1> DEFINE to == [at EXCEPT ![i] = c]
<1>1. at \in [Items -> Cylinders]
  BY DEF Acyclic
<1>2. /\ to \in [Items -> Cylinders] /\ to[i] = c
      /\ \A z \in Items \ {i} : to[z] = at[z]
  BY <1>1 DEF MayHold
<1> HIDE DEF to
<1>3. ASSUME x # i, i \notin Above(at, x)
      PROVE  Above(to, x) = Above(at, x)
  <2>1. Above(to, x) \subseteq Above(at, x)
    BY <1>1, <1>2, <1>3, AboveIsClosed, AboveIsLeast
  <2>2. to[x] \in Above(to, x) /\ \A z \in Above(to, x) \cap Items : to[z] \in Above(to, x)
    BY <1>2, AboveIsClosed
  <2>3. Above(at, x) \subseteq Above(to, x)
    BY <1>1, <1>2, <1>3, <2>1, <2>2, AboveIsLeast
  <2> QED
    BY <2>1, <2>3
<1>4. Above(to, x) \subseteq Above(at, x) \cup {c} \cup (IF c \in Items THEN Above(at, c) ELSE {})
  <2> DEFINE T == Above(at, x) \cup {c} \cup (IF c \in Items THEN Above(at, c) ELSE {})
  <2>1. at[x] \in Above(at, x) /\ \A z \in Above(at, x) \cap Items : at[z] \in Above(at, x)
    BY <1>1, AboveIsClosed
  <2>2. c \in Items => at[c] \in Above(at, c) /\ \A z \in Above(at, c) \cap Items : at[z] \in Above(at, c)
    BY <1>1, AboveIsClosed
  <2>3. to[x] \in T
    BY <1>2, <2>1
  <2>4. ASSUME NEW z \in T \cap Items
        PROVE  to[z] \in T
    BY <1>2, <2>1, <2>2
  <2> HIDE DEF T
  <2>5. Above(to, x) \subseteq T
    BY <1>2, <2>3, <2>4, AboveIsLeast
  <2> QED
    BY <2>5 DEF T
<1> QED
  BY <1>2, <1>3, <1>4 DEF to

LEMMA MoveAcyclic ==
    ASSUME NEW at, Acyclic(at), NEW i \in Items, NEW c, MayHold(at, i, c)
    PROVE  Acyclic([at EXCEPT ![i] = c])
<1> DEFINE to == [at EXCEPT ![i] = c]
<1>1. at \in [Items -> Cylinders] /\ \A x \in Items : x \notin Above(at, x)
  BY DEF Acyclic
<1>2. ASSUME NEW x \in Items
      PROVE  /\ to \in [Items -> Cylinders]
             /\ x # i /\ i \notin Above(at, x) => Above(to, x) = Above(at, x)
             /\ Above(to, x) \subseteq Above(at, x) \cup {c} \cup (IF c \in Items THEN Above(at, c) ELSE {})
  BY MoveElsewhere
<1> HIDE DEF to
<1>3. ASSUME NEW x \in Items
      PROVE  x \notin Above(to, x)
  <2>1. CASE x # i /\ i \notin Above(at, x)
    BY <1>1, <1>2, <2>1
  <2>2. CASE x = i
    BY <1>1, <1>2, <2>2 DEF MayHold
  <2>3. CASE i \in Above(at, x)
    <3>1. c \in Items => x # c
      BY <2>3 DEF MayHold
    <3>2. ASSUME c \in Items, x \in Above(at, c)
          PROVE  FALSE
      <4>1. Above(at, x) \subseteq Above(at, c)
        BY <1>1, <3>2, AboveUnfolds
      <4> QED
        BY <2>3, <3>2, <4>1 DEF MayHold
    <3> QED
      BY <1>1, <1>2, <3>1, <3>2
  <2> QED
    BY <2>1, <2>2, <2>3
<1>4. to \in [Items -> Cylinders]
  BY <1>2
<1>5. Acyclic(to)
  BY <1>3, <1>4 DEF Acyclic
<1> QED
  BY <1>5 DEF to
----------------------------------------------------------------------------
(* Whoever has an offer in reach notices what is done to it.               *)

\* The top of an item in reach is its player or a place, and is not far.
LEMMA AccessibleTop ==
    ASSUME position \in [Players -> Places], NEW at \in [Items -> Cylinders],
           NEW i \in Items, NEW p \in Players, Accessible(at, p, i)
    PROVE  /\ TopParent(at, i) \in Above(at, i) \ Items
           /\ TopParent(at, i) = p \/ TopParent(at, i) \in Places
           /\ InRange(PartnerReach, position[p], PositionOf(at, i))
<1>1. position[p] \in Int /\ p \notin Items
  BY TradeConstants DEF Places
<1>2. CASE p \in Above(at, i)
  <2>1. TopParent(at, i) = p
    BY <1>1, <1>2, TopIs
  <2>2. PositionOf(at, i) = position[p]
    BY <2>1 DEF PositionOf
  <2>3. InRange(PartnerReach, position[p], position[p])
    BY <1>1, TradeConstants DEF InRange
  <2> QED
    BY <1>1, <1>2, <2>1, <2>2, <2>3
<1>3. CASE p \notin Above(at, i)
  <2>1. TopParent(at, i) \in Places /\ InRange(ItemReach, position[p], TopParent(at, i))
    BY <1>3 DEF Accessible, Carries
  <2>2. TopParent(at, i) # Nowhere /\ TopParent(at, i) \notin Players
    BY <2>1, TradeConstants
  <2>3. TopParent(at, i) \in Int
    BY <2>1 DEF Places
  <2>4. InRange(PartnerReach, position[p], TopParent(at, i))
    BY <1>1, <2>1, <2>3, TradeConstants DEF InRange
  <2>5. PositionOf(at, i) = TopParent(at, i)
    BY <2>2 DEF PositionOf
  <2>6. TopParent(at, i) \in Above(at, i) \ Items
    BY <2>2, TopIs
  <2> QED
    BY <2>1, <2>4, <2>5, <2>6
<1> QED
  BY <1>2, <1>3

LEMMA AccessibleSpectator ==
    ASSUME position \in [Players -> Places], NEW at \in [Items -> Cylinders],
           NEW i \in Items, NEW p \in Players, p \in online, Accessible(at, p, i),
           NEW d, d = TopParent(at, i) \/ (d \in Items /\ TopParent(at, i) \in Above(at, d))
    PROVE  p \in Spectators(at, d)
<1>1. /\ TopParent(at, i) \in Above(at, i) \ Items
      /\ TopParent(at, i) = p \/ TopParent(at, i) \in Places
      /\ InRange(PartnerReach, position[p], PositionOf(at, i))
  BY AccessibleTop
<1>2. CASE d \in Containers
  <2>1. d \in Items /\ d \notin Players
    BY <1>2, TradeConstants
  <2>2. TopParent(at, d) = TopParent(at, i)
    BY <1>1, <2>1, TopIs
  <2>3. TopParent(at, d) # Nowhere
    BY <1>1, <2>2, TradeConstants
  <2>4. PositionOf(at, d) = PositionOf(at, i)
    BY <2>2 DEF PositionOf
  <2> QED
    BY <1>1, <1>2, <2>1, <2>3, <2>4 DEF Spectators
<1>3. CASE d \in Players
  <2>1. d = p
    BY <1>1, <1>3, TradeConstants
  <2> QED
    BY <1>3, <2>1, TradeConstants DEF Spectators
<1>4. CASE d \notin Containers /\ d \notin Players
  BY <1>4 DEF Spectators
<1> QED
  BY <1>2, <1>3, <1>4

\* A move whose cylinders do not make r close a trade leaves r's offer as it is.
LEMMA MoveKeepsOffer ==
    ASSUME position \in [Players -> Places], online \subseteq Players,
           NEW at, Acyclic(at), NEW i \in Items, NEW c, MayHold(at, i, c),
           NEW r \in online, NEW o \in Items, tradeItem[r] = o, Accessible(at, r, o),
           r \notin ClosedByRemove(at, i), r \notin ClosedByAdd([at EXCEPT ![i] = c], i)
    PROVE  /\ Above([at EXCEPT ![i] = c], o) = Above(at, o)
           /\ Inside([at EXCEPT ![i] = c], o) = Inside(at, o)
<1> DEFINE to == [at EXCEPT ![i] = c]
           top == TopParent(at, o)
<1>1. at \in [Items -> Cylinders] /\ \A x \in Items : x \notin Above(at, x)
  BY DEF Acyclic
<1>2. HasOffer(r) /\ r \in Players
  BY TradeConstants DEF HasOffer
<1>3. top \in Above(at, o) \ Items
  BY <1>1, <1>2, AccessibleTop
<1>4. ASSUME NEW d, d = top \/ (d \in Items /\ top \in Above(at, d))
      PROVE  r \in Spectators(at, d)
  BY <1>1, <1>2, <1>4, AccessibleSpectator
<1>5. to \in [Items -> Cylinders] /\ to[i] = c
  BY <1>1 DEF MayHold
<1>6. ASSUME NEW x \in Items
      PROVE  /\ to \in [Items -> Cylinders]
             /\ x # i /\ i \notin Above(at, x) => Above(to, x) = Above(at, x)
             /\ Above(to, x) \subseteq Above(at, x) \cup {c} \cup (IF c \in Items THEN Above(at, c) ELSE {})
  BY MoveElsewhere
<1> HIDE DEF to, top
<1>7. i # o /\ o \notin Above(at, i)
  <2>1. SUFFICES ASSUME i = o \/ o \in Above(at, i)
                 PROVE  FALSE
    OBVIOUS
  <2>2. top \in Above(at, i)
    BY <1>1, <1>3, <2>1, AboveUnfolds
  <2>3. top = at[i] \/ (at[i] \in Items /\ top \in Above(at, at[i]))
    BY <1>1, <2>2, AboveUnfolds
  <2>4. r \in Spectators(at, at[i])
    BY <1>4, <2>3
  <2>5. CheckTradeState(at, r, i)
    BY <2>1 DEF CheckTradeState, Inside
  <2> QED
    BY <1>2, <2>4, <2>5 DEF ClosedByRemove
<1>8. i \notin Above(at, o)
  <2>1. SUFFICES ASSUME i \in Above(at, o)
                 PROVE  FALSE
    OBVIOUS
  <2>2. top \in Above(at, i)
    BY <1>1, <1>3, <2>1, TopIs
  <2>3. top = at[i] \/ (at[i] \in Items /\ top \in Above(at, at[i]))
    BY <1>1, <2>2, AboveUnfolds
  <2>4. r \in Spectators(at, at[i])
    BY <1>4, <2>3
  <2>5. at[i] \in Above(at, o)
    BY <1>1, <2>1, AboveIsClosed
  <2>6. at[o] # at[i]
    <3>1. i = at[o] \/ (at[o] \in Items /\ i \in Above(at, at[o]))
      BY <1>1, <2>1, AboveUnfolds
    <3>2. SUFFICES ASSUME at[o] = at[i]
                   PROVE  FALSE
      OBVIOUS
    <3>3. at[i] \in Above(at, i)
      BY <1>1, AboveIsClosed
    <3>4. i # at[i]
      BY <1>1, <3>3
    <3>5. at[i] \in Items /\ i \in Above(at, at[i])
      BY <3>1, <3>2, <3>4
    <3>6. i \in Above(at, i)
      BY <1>1, <3>3, <3>5, AboveUnfolds
    <3> QED
      BY <1>1, <3>6
  <2>7. CASE at[i] \in Containers
    BY <1>2, <2>4, <2>5, <2>6, <2>7 DEF ClosedByRemove, Inside
  <2>8. CASE at[i] \notin Containers
    BY <1>2, <2>1, <2>4, <2>8 DEF ClosedByRemove, Inside
  <2> QED
    BY <2>7, <2>8
<1>9. Above(to, o) = Above(at, o)
  BY <1>6, <1>7, <1>8
<1>10. c # o /\ (c \in Items => o \notin Above(at, c))
  <2>1. SUFFICES ASSUME c = o \/ (c \in Items /\ o \in Above(at, c))
                 PROVE  FALSE
    OBVIOUS
  <2>2. c \in Items /\ c \in Containers /\ c # i /\ i \notin Above(at, c)
    BY <2>1 DEF MayHold
  <2>3. Above(to, c) = Above(at, c)
    BY <1>6, <2>2
  <2>4. TopParent(to, o) = top
    BY <1>9 DEF TopParent, top
  <2>5. Accessible(to, r, o)
    BY <1>9, <2>4 DEF Accessible, Carries, top
  <2>6. top \in Above(to, c)
    BY <1>1, <1>3, <2>1, <2>2, <2>3, AboveUnfolds
  <2>7. r \in Spectators(to, c)
    BY <1>2, <1>5, <2>2, <2>4, <2>5, <2>6, AccessibleSpectator
  <2>8. c \in Above(to, i) /\ Above(to, c) \subseteq Above(to, i)
    <3>1. c \in Above(to, i)
      BY <1>5, AboveIsClosed
    <3> QED
      BY <1>5, <2>2, <3>1, AboveUnfolds
  <2>9. o \in Above(to, i)
    BY <2>1, <2>3, <2>8
  <2>10. CheckTradeState(to, r, i)
    BY <2>9 DEF CheckTradeState, Inside
  <2>11. r \in ClosedByAdd(to, i)
    BY <1>2, <1>5, <2>2, <2>7, <2>10 DEF ClosedByAdd
  <2> QED
    BY <2>11 DEF to
<1>11. ASSUME NEW x \in Items
       PROVE  o \in Above(to, x) <=> o \in Above(at, x)
  <2>1. CASE x # i /\ i \notin Above(at, x)
    BY <1>6, <2>1
  <2>2. CASE x = i \/ i \in Above(at, x)
    <3>1. o \notin Above(at, x)
      <4>1. CASE x = i
        BY <1>7, <4>1
      <4>2. CASE i \in Above(at, x)
        <5>1. SUFFICES ASSUME o \in Above(at, x)
                       PROVE  FALSE
          OBVIOUS
        <5>2. i = o \/ o \in Above(at, i) \/ i \in Above(at, o)
          BY <1>1, <4>2, <5>1, AboveIsChain
        <5> QED
          BY <1>7, <1>8, <5>2
      <4> QED
        BY <2>2, <4>1, <4>2
    <3>2. o \notin Above(to, x)
      BY <1>6, <1>10, <3>1
    <3> QED
      BY <3>1, <3>2
  <2> QED
    BY <2>1, <2>2
<1>12. Inside(to, o) = Inside(at, o)
  BY <1>11 DEF Inside
<1> QED
  BY <1>9, <1>12 DEF to

----------------------------------------------------------------------------
(* The offers while items move: OffersInv is kept together with IInv.      *)

OffersApart == \A i, j \in tradeItems : i \notin Inside(parent, j)
OffersInv == Acyclic(parent) /\ OffersApart /\ OffersAsShown /\ TradersTogether

Kept(at, to, r) == HasOffer(r) =>
    /\ Above(to, tradeItem[r]) = Above(at, tradeItem[r])
    /\ Inside(to, tradeItem[r]) = Inside(at, tradeItem[r])
Reaches(at, r) == HasOffer(r) => Accessible(at, r, tradeItem[r])

\* Who has an offer or a partner is in the world, and has an item in reach.
LEMMA TradersAreOnline ==
    ASSUME IInv, OffersInv, NEW r \in Players
    PROVE  /\ HasOffer(r) => r \in online /\ tradeItem[r] \in Items
           /\ Reaches(parent, r)
<1>1. HasOffer(r) => r \in online
  BY DEF IInv, SidesAgree, OutOfTrade, InTrade
<1>2. HasOffer(r) => tradeItem[r] \in Items
  BY DEF IInv, TypeOK, HasOffer
<1>3. Reaches(parent, r)
  BY DEF OffersInv, TradersTogether, Reaches
<1> QED
  BY <1>1, <1>2, <1>3

\* One move, in a state of the items that a request may be in the middle of.
LEMMA MoveKeeps ==
    ASSUME IInv, OffersInv, NEW at, Acyclic(at), NEW i \in Items, NEW c, MayHold(at, i, c),
           NEW r \in Players, Reaches(at, r),
           r \notin ClosedByRemove(at, i), r \notin ClosedByAdd([at EXCEPT ![i] = c], i)
    PROVE  Kept(at, [at EXCEPT ![i] = c], r) /\ Reaches([at EXCEPT ![i] = c], r)
<1> DEFINE to == [at EXCEPT ![i] = c]
<1>1. SUFFICES ASSUME HasOffer(r)
               PROVE  Kept(at, to, r) /\ Reaches(to, r)
  BY DEF Kept, Reaches
<1>2. r \in online /\ tradeItem[r] \in Items /\ Accessible(at, r, tradeItem[r])
  BY <1>1, TradersAreOnline DEF Reaches
<1>3. position \in [Players -> Places] /\ online \subseteq Players
  BY DEF IInv, TypeOK
<1>4. /\ Above(to, tradeItem[r]) = Above(at, tradeItem[r])
      /\ Inside(to, tradeItem[r]) = Inside(at, tradeItem[r])
  BY <1>2, <1>3, MoveKeepsOffer
<1> HIDE DEF to
<1>5. TopParent(to, tradeItem[r]) = TopParent(at, tradeItem[r])
  BY <1>4 DEF TopParent
<1> QED
  BY <1>2, <1>4, <1>5 DEF Kept, Reaches, Accessible, Carries

LEMMA ClosedParts ==
    ASSUME NEW at, NEW i, NEW c, NEW r, r \notin ClosedByMove(at, i, c)
    PROVE  r \notin ClosedByRemove(at, i) /\ r \notin ClosedByAdd([at EXCEPT ![i] = c], i)
  BY DEF ClosedByMove

\* What every action has in common that may close trades.
LEMMA CloseKeepsOffers ==
    ASSUME IInv, IInv', OffersInv, NEW S \in SUBSET Players, InternalCloseTrade(S),
           Acyclic(parent'),
           \A r \in Players \ WithPartners(S) : Kept(parent, parent', r),
           \A r \in Players \ WithPartners(S) :
               HasOffer(r) => Accessible(parent, r, tradeItem[r])',
           \A r \in Players \ WithPartners(S) :
               tradePartner[r] # NoPlayer =>
                   InRange(PartnerReach, position'[r], position'[tradePartner[r]])
    PROVE  OffersInv'
<1> DEFINE T == WithPartners(S)
<1>1. ASSUME NEW r \in Players
      PROVE  /\ r \in T => tradePartner'[r] = NoPlayer /\ tradeItem'[r] = NoItem
             /\ r \notin T => /\ tradePartner'[r] = tradePartner[r]
                              /\ tradeItem'[r] = tradeItem[r]
                              /\ shown'[r] = shown[r]
  BY DEF InternalCloseTrade, Release
<1>2. ASSUME NEW r \in Players, HasOffer(r)'
      PROVE  r \notin T /\ HasOffer(r) /\ tradeItem'[r] = tradeItem[r] /\ Kept(parent, parent', r)
  <2>1. tradeItem'[r] # NoItem
    BY <1>2 DEF HasOffer
  <2>2. r \notin T /\ HasOffer(r) /\ tradeItem'[r] = tradeItem[r]
    BY <1>1, <2>1 DEF HasOffer
  <2> QED
    BY <2>2
<1>3. OffersAsShown'
  <2>1. SUFFICES ASSUME NEW r \in Players, HasOffer(r)'
                 PROVE  /\ Inside(parent', tradeItem'[r]) = shown'[r]
                        /\ TopParent(parent', tradeItem'[r]) # Nowhere
    BY DEF OffersAsShown
  <2>2. /\ r \notin T /\ HasOffer(r) /\ tradeItem'[r] = tradeItem[r]
        /\ Above(parent', tradeItem[r]) = Above(parent, tradeItem[r])
        /\ Inside(parent', tradeItem[r]) = Inside(parent, tradeItem[r])
    BY <1>2, <2>1 DEF Kept
  <2>3. /\ Inside(parent, tradeItem[r]) = shown[r]
        /\ TopParent(parent, tradeItem[r]) # Nowhere
    BY <2>2 DEF OffersInv, OffersAsShown
  <2>4. TopParent(parent', tradeItem[r]) = TopParent(parent, tradeItem[r])
    BY <2>2 DEF TopParent
  <2> QED
    BY <1>1, <2>2, <2>3, <2>4
<1>4. OffersApart'
  <2>1. SUFFICES ASSUME NEW i \in tradeItems', NEW j \in tradeItems'
                 PROVE  i \notin Inside(parent', j)
    BY DEF OffersApart
  <2>2. PICK r \in Players : tradeItem'[r] = j /\ j # NoItem
    BY DEF IInv, OffersRegistered, OffersOf
  <2>3. HasOffer(r)'
    BY <2>2 DEF HasOffer
  <2>4. tradeItem[r] = j /\ Inside(parent', j) = Inside(parent, j)
    BY <1>2, <2>2, <2>3 DEF Kept
  <2>5. tradeItems' \subseteq tradeItems
    BY DEF InternalCloseTrade, Release
  <2> QED
    BY <2>4, <2>5 DEF OffersInv, OffersApart
<1>5. TradersTogether'
  <2>1. ASSUME NEW r \in Players, HasOffer(r)'
        PROVE  Accessible(parent, r, tradeItem[r])'
    <3>1. r \notin T /\ HasOffer(r) /\ tradeItem'[r] = tradeItem[r]
      BY <1>2, <2>1
    <3> QED
      BY <3>1
  <2>2. ASSUME NEW r \in Players, tradePartner'[r] # NoPlayer
        PROVE  InRange(PartnerReach, position'[r], position'[tradePartner'[r]])
    BY <1>1, <2>2
  <2> QED
    BY <2>1, <2>2 DEF TradersTogether
<1> QED
  BY <1>3, <1>4, <1>5 DEF OffersInv

\* And when nobody walks.
LEMMA StandingKeepsOffers ==
    ASSUME IInv, IInv', OffersInv, NEW S \in SUBSET Players, InternalCloseTrade(S),
           position' = position, Acyclic(parent'),
           \A r \in Players \ WithPartners(S) : Kept(parent, parent', r)
    PROVE  OffersInv'
<1>1. ASSUME NEW r \in Players \ WithPartners(S), HasOffer(r)
      PROVE  Accessible(parent, r, tradeItem[r])'
  <2>1. Accessible(parent, r, tradeItem[r])
    BY <1>1 DEF OffersInv, TradersTogether
  <2>2. tradeItem'[r] = tradeItem[r]
    BY <1>1 DEF InternalCloseTrade, Release
  <2>3. Above(parent', tradeItem[r]) = Above(parent, tradeItem[r])
    BY <1>1 DEF Kept
  <2>4. TopParent(parent', tradeItem[r]) = TopParent(parent, tradeItem[r])
    BY <2>3 DEF TopParent
  <2>5. PositionOf(parent, tradeItem[r])' = PositionOf(parent, tradeItem[r])
    BY <2>2, <2>4 DEF PositionOf
  <2> QED
    BY <2>1, <2>2, <2>3, <2>4, <2>5 DEF Accessible, Carries
<1> QED
  BY <1>1, CloseKeepsOffers DEF OffersInv, TradersTogether

LEMMA MoveKeepsOffers ==
    ASSUME IInv, IInv', OffersInv, NEW p \in Players, NEW i \in Items, NEW c \in Cylinders, MoveItem(p, i, c)
    PROVE  OffersInv'
<1> DEFINE S == ClosedByMove(parent, i, c)
<1>1. /\ parent' = [parent EXCEPT ![i] = c] /\ position' = position
      /\ InternalCloseTrade(S) /\ QueryAdd(parent, i, c)
  BY DEF MoveItem
<1>2. MayHold(parent, i, c) /\ Acyclic(parent)
  BY <1>1, QueryAddHolds DEF OffersInv
<1>3. Acyclic(parent')
  BY <1>1, <1>2, MoveAcyclic
<1>4. S \in SUBSET Players
  BY ClosersArePlayers DEF IInv, TypeOK
<1>5. ASSUME NEW r \in Players \ WithPartners(S)
      PROVE  Kept(parent, parent', r)
  <2>1. r \notin S
    BY DEF WithPartners
  <2>2. r \notin ClosedByRemove(parent, i) /\ r \notin ClosedByAdd([parent EXCEPT ![i] = c], i)
    BY <2>1, ClosedParts
  <2> QED
    BY <1>1, <1>2, <2>2, MoveKeeps, TradersAreOnline
<1> HIDE DEF S
<1> QED
  BY <1>1, <1>3, <1>4, <1>5, StandingKeepsOffers

LEMMA RemoveKeepsOffers ==
    ASSUME IInv, IInv', OffersInv, NEW i \in Items, RemoveItem(i)
    PROVE  OffersInv'
<1> DEFINE S == ClosedByRemove(parent, i)
<1>1. /\ parent' = [parent EXCEPT ![i] = Nowhere] /\ position' = position
      /\ InternalCloseTrade(S)
  BY DEF RemoveItem
<1>2. MayHold(parent, i, Nowhere) /\ Acyclic(parent)
  BY TradeConstants DEF OffersInv, MayHold, Cylinders
<1>3. Acyclic(parent')
  BY <1>1, <1>2, MoveAcyclic
<1>4. S \in SUBSET Players
  BY ClosersArePlayers DEF IInv, TypeOK
<1>5. ASSUME NEW r \in Players \ WithPartners(S)
      PROVE  Kept(parent, parent', r)
  <2>1. r \notin ClosedByRemove(parent, i)
    BY DEF WithPartners
  <2>2. [parent EXCEPT ![i] = Nowhere][i] \notin Containers
    BY TradeConstants DEF IInv, TypeOK
  <2>3. r \notin ClosedByAdd([parent EXCEPT ![i] = Nowhere], i)
    BY <2>2 DEF ClosedByAdd
  <2> QED
    BY <1>1, <1>2, <2>1, <2>3, MoveKeeps, TradersAreOnline
<1> HIDE DEF S
<1> QED
  BY <1>1, <1>3, <1>4, <1>5, StandingKeepsOffers

\* What stays through two moves stays.
LEMMA KeptTwice ==
    ASSUME NEW at, NEW mid, NEW to, NEW r, Kept(at, mid, r), Kept(mid, to, r)
    PROVE  Kept(at, to, r)
  BY DEF Kept

LEMMA ExchangeItemKeepsOffers ==
    ASSUME IInv, IInv', OffersInv, NEW p \in Players, NEW i \in Items, NEW j \in Items, ExchangeItem(p, i, j)
    PROVE  OffersInv'
<1> DEFINE mid == [parent EXCEPT ![j] = parent[i]]
           end == [mid EXCEPT ![i] = p]
           fits == QueryAdd(mid, i, p)
           first == ClosedByMove(parent, j, parent[i])
           second == ClosedByMove(mid, i, p)
           S == first \cup IF fits THEN second ELSE {}
<1>1. /\ parent' = IF fits THEN end ELSE mid
      /\ InternalCloseTrade(S) /\ position' = position
      /\ QueryAdd(parent, j, parent[i])
  BY DEF ExchangeItem
<1>2. MayHold(parent, j, parent[i]) /\ Acyclic(parent)
  BY <1>1, QueryAddHolds DEF OffersInv
<1>3. Acyclic(mid)
  BY <1>2, MoveAcyclic
<1>4. first \subseteq Players /\ second \subseteq Players
  <2>1. online \subseteq Players
    BY DEF IInv, TypeOK
  <2>2. first \subseteq Players
    BY <2>1, ClosersArePlayers
  <2> HIDE DEF mid
  <2>3. second \subseteq Players
    BY <2>1, ClosersArePlayers
  <2> QED
    BY <2>2, <2>3
<1>5. ASSUME NEW r \in Players, r \notin first
      PROVE  Kept(parent, mid, r) /\ Reaches(mid, r)
  <2>1. r \notin ClosedByRemove(parent, j) /\ r \notin ClosedByAdd(mid, j)
    BY <1>5, ClosedParts
  <2> QED
    BY <1>2, <2>1, MoveKeeps, TradersAreOnline
<1> HIDE DEF mid
<1>6. ASSUME fits
      PROVE  MayHold(mid, i, p) /\ Acyclic(end)
  <2>1. MayHold(mid, i, p)
    BY <1>6, QueryAddHolds
  <2> QED
    BY <1>3, <2>1, MoveAcyclic
<1>7. ASSUME fits, NEW r \in Players, r \notin first, r \notin second
      PROVE  Kept(parent, end, r)
  <2>1. r \notin ClosedByRemove(mid, i) /\ r \notin ClosedByAdd(end, i)
    BY <1>7, ClosedParts
  <2>2. Kept(parent, mid, r) /\ Reaches(mid, r)
    BY <1>5, <1>7
  <2>3. Kept(mid, end, r)
    BY <1>3, <1>6, <1>7, <2>1, <2>2, MoveKeeps
  <2> HIDE DEF end
  <2> QED
    BY <2>2, <2>3, KeptTwice
<1> HIDE DEF end, fits, first, second
<1>8. Acyclic(parent')
  BY <1>1, <1>3, <1>6
<1>9. ASSUME NEW r \in Players \ WithPartners(S)
      PROVE  Kept(parent, parent', r)
  <2>1. r \notin S
    BY DEF WithPartners
  <2>2. CASE fits
    <3>1. Kept(parent, end, r)
      BY <1>7, <2>1, <2>2
    <3> QED
      BY <1>1, <2>2, <3>1
  <2>3. CASE ~fits
    <3>1. Kept(parent, mid, r)
      BY <1>5, <2>1
    <3> QED
      BY <1>1, <2>3, <3>1
  <2> QED
    BY <2>2, <2>3
<1>10. S \in SUBSET Players
  BY <1>4
<1> HIDE DEF S
<1> QED
  BY <1>1, <1>8, <1>9, <1>10, StandingKeepsOffers

\* internalMoveItem of one of the two offers that are exchanged.
LEMMA MovedKeeps ==
    ASSUME IInv, OffersInv, NEW at, Acyclic(at), NEW i \in Items, NEW q \in Players,
           NEW to \in Moved(at, i, q)
    PROVE  /\ Acyclic(to)
           /\ \A r \in Players : Reaches(at, r) /\ r \notin ClosedByMove(at, i, to[i]) =>
                  Kept(at, to, r) /\ Reaches(to, r)
<1>1. CASE QueryDestination(at, q, i) = {}
  <2>1. to = at
    BY <1>1 DEF Moved
  <2> QED
    BY <2>1 DEF Kept
<1>2. CASE QueryDestination(at, q, i) # {}
  <2>1. PICK c \in QueryDestination(at, q, i) : to = [at EXCEPT ![i] = c]
    BY <1>2 DEF Moved
  <2>2. QueryAdd(at, i, c)
    BY <2>1 DEF QueryDestination, FirstDestinations, DeeperDestinations
  <2>3. MayHold(at, i, c)
    BY <2>2, QueryAddHolds
  <2>4. Acyclic(to)
    BY <2>1, <2>3, MoveAcyclic
  <2>5. to[i] = c
    BY <2>1 DEF Acyclic
  <2>6. ASSUME NEW r \in Players, Reaches(at, r), r \notin ClosedByMove(at, i, c)
        PROVE  Kept(at, to, r) /\ Reaches(to, r)
    <3>1. r \notin ClosedByRemove(at, i) /\ r \notin ClosedByAdd([at EXCEPT ![i] = c], i)
      BY <2>6, ClosedParts
    <3> QED
      BY <2>1, <2>3, <2>6, <3>1, MoveKeeps
  <2> QED
    BY <2>4, <2>5, <2>6
<1> QED
  BY <1>1, <1>2

LEMMA TransferKeepsOffers ==
    ASSUME IInv, IInv', OffersInv, NEW p \in Players, NEW q \in Players, Transfer(p, q),
           TransferPossible(p, q), position' = position
    PROVE  OffersInv'
<1>1. PICK mid \in Moved(parent, tradeItem[p], q) :
          \E end \in Moved(mid, tradeItem[q], p) :
              /\ parent' = end
              /\ InternalCloseTrade({p} \cup ClosedByMove(parent, tradeItem[p], mid[tradeItem[p]])
                     \cup ClosedByMove(mid, tradeItem[q], end[tradeItem[q]]))
  BY DEF Transfer
<1>2. PICK end \in Moved(mid, tradeItem[q], p) :
          /\ parent' = end
          /\ InternalCloseTrade({p} \cup ClosedByMove(parent, tradeItem[p], mid[tradeItem[p]])
                 \cup ClosedByMove(mid, tradeItem[q], end[tradeItem[q]]))
  BY <1>1
<1> DEFINE first == ClosedByMove(parent, tradeItem[p], mid[tradeItem[p]])
           second == ClosedByMove(mid, tradeItem[q], end[tradeItem[q]])
           S == {p} \cup first \cup second
<1>3. tradeItem[p] \in Items /\ tradeItem[q] \in Items
  BY DEF TransferPossible, IInv, TypeOK
<1>4. Acyclic(parent)
  BY DEF OffersInv
<1>5. /\ Acyclic(mid)
      /\ \A r \in Players : Reaches(parent, r) /\ r \notin first =>
             Kept(parent, mid, r) /\ Reaches(mid, r)
  BY <1>3, <1>4, MovedKeeps
<1>6. /\ Acyclic(end)
      /\ \A r \in Players : Reaches(mid, r) /\ r \notin second => Kept(mid, end, r)
  BY <1>3, <1>5, MovedKeeps
<1>7. S \in SUBSET Players
  BY ClosersArePlayers DEF IInv, TypeOK
<1> HIDE DEF first, second
<1>8. ASSUME NEW r \in Players \ WithPartners(S)
      PROVE  Kept(parent, parent', r)
  <2>1. r \notin first /\ r \notin second
    BY DEF WithPartners
  <2>2. Kept(parent, mid, r) /\ Reaches(mid, r)
    BY <1>5, <2>1, TradersAreOnline
  <2>3. Kept(mid, end, r)
    BY <1>6, <2>1, <2>2
  <2> QED
    BY <1>2, <2>2, <2>3, KeptTwice
<1>9. InternalCloseTrade(S) /\ parent' = end
  BY <1>2 DEF first, second
<1> HIDE DEF S
<1> QED
  BY <1>6, <1>7, <1>8, <1>9, StandingKeepsOffers

\* Trades are closed, and nothing moves.
LEMMA ClosingKeepsOffers ==
    ASSUME IInv, IInv', OffersInv, NEW S \in SUBSET Players, InternalCloseTrade(S),
           position' = position, parent' = parent
    PROVE  OffersInv'
<1>1. Acyclic(parent') /\ \A r \in Players : Kept(parent, parent', r)
  BY DEF OffersInv, Kept
<1> QED
  BY <1>1, StandingKeepsOffers

LEMMA AcceptKeepsOffers ==
    ASSUME IInv, IInv', OffersInv, NEW p \in Players, AcceptTrade(p)
    PROVE  OffersInv'
<1> DEFINE q == tradePartner[p]
<1>1. /\ MayAccept(p)
      /\ \/ /\ tradeState[q] # "ACCEPT"
            /\ tradeState' = [tradeState EXCEPT ![p] = "ACCEPT"]
            /\ UNCHANGED <<tradePartner, tradeItem, tradeItems, refs, shown, parent>>
         \/ tradeState[q] = "ACCEPT" /\ Exchange(p, q)
      /\ online' = online /\ position' = position
  BY DEF AcceptTrade
<1>2. q \in Players
  BY <1>1 DEF MayAccept, IInv, SidesAgree, InTrade
<1>3. CASE UNCHANGED <<tradePartner, tradeItem, tradeItems, refs, shown, parent>>
  BY <1>1, <1>3 DEF OffersInv, OffersApart, OffersAsShown, TradersTogether, HasOffer,
                    Accessible, Carries, TopParent, PositionOf
<1>4. CASE tradeState[q] = "ACCEPT" /\ Exchange(p, q)
  <2>1. CASE TransferPossible(p, q)
    BY <1>1, <1>2, <1>4, <2>1, TransferKeepsOffers DEF Exchange
  <2>2. CASE ~TransferPossible(p, q)
    BY <1>1, <1>4, <2>2, ClosingKeepsOffers DEF Exchange
  <2> QED
    BY <2>1, <2>2
<1> QED
  BY <1>1, <1>3, <1>4

\* Who walks out of reach of his item or his partner closes the trade; the items
\* that others offer are not with him.
LEMMA WalkKeepsOffers ==
    ASSUME IInv, IInv', OffersInv, NEW p \in Players, NEW place \in Places, Walk(p, place)
    PROVE  OffersInv'
<1> DEFINE S == IF ClosedByWalk(p, place) THEN {p} ELSE {}
<1>1. /\ position' = [position EXCEPT ![p] = place] /\ parent' = parent
      /\ InternalCloseTrade(S)
  BY DEF Walk
<1>2. /\ position \in [Players -> Places] /\ parent \in [Items -> Cylinders]
      /\ S \in SUBSET Players
  BY DEF IInv, TypeOK
<1>3. position'[p] = place /\ \A r \in Players \ {p} : position'[r] = position[r]
  BY <1>1, <1>2
<1>4. \A r \in Players : Kept(parent, parent', r)
  BY <1>1 DEF Kept
<1>5. Acyclic(parent')
  BY <1>1 DEF OffersInv
<1>6. p \notin WithPartners(S) => ~ClosedByWalk(p, place)
  BY DEF WithPartners
<1> HIDE DEF S
<1>7. ASSUME NEW r \in Players \ WithPartners(S), HasOffer(r)
      PROVE  Accessible(parent, r, tradeItem[r])'
  <2> DEFINE o == tradeItem[r]
             top == TopParent(parent, o)
  <2>1. tradeItem'[r] = o /\ o \in Items
    BY <1>1, <1>7, TradersAreOnline DEF InternalCloseTrade, Release
  <2>2. Accessible(parent, r, o)
    BY <1>7 DEF OffersInv, TradersTogether
  <2>3. SUFFICES ASSUME ~Carries(parent, r, o)
                 PROVE  top \in Places /\ InRange(ItemReach, position'[r], top)
    BY <1>1, <2>1 DEF Accessible, Carries
  <2>4. top \in Places /\ InRange(ItemReach, position[r], top)
    BY <2>2, <2>3 DEF Accessible
  <2>5. CASE r = p
    <3>1. PositionOf(parent, o) = top
      BY <2>4, TradeConstants DEF PositionOf
    <3>2. InRange(ItemReach, place, PositionOf(parent, o))
      BY <1>6, <1>7, <2>3, <2>5 DEF ClosedByWalk
    <3> QED
      BY <1>3, <2>4, <2>5, <3>1, <3>2
  <2>6. CASE r # p
    BY <1>3, <2>4, <2>6
  <2> QED
    BY <2>5, <2>6
<1>8. ASSUME NEW r \in Players \ WithPartners(S), tradePartner[r] # NoPlayer
      PROVE  InRange(PartnerReach, position'[r], position'[tradePartner[r]])
  <2> DEFINE q == tradePartner[r]
  <2>1. InTrade(r, q) /\ q \in Players /\ q # r /\ tradePartner[q] = r
    BY <1>8 DEF IInv, SidesAgree, OutOfTrade, InTrade
  <2>2. InRange(PartnerReach, position[r], position[q])
    BY <1>8 DEF OffersInv, TradersTogether
  <2>3. CASE r = p
    <3>1. InRange(PartnerReach, place, position[q])
      BY <1>6, <1>8, <2>3 DEF ClosedByWalk
    <3> QED
      BY <1>3, <2>1, <2>3, <3>1
  <2>4. CASE q = p
    <3>1. p \notin WithPartners(S)
      BY <1>2, <2>1, <2>4, <1>8, PartnersLeaveTogether DEF IInv, SidesAgree, OutOfTrade
    <3>2. InRange(PartnerReach, place, position[r])
      BY <1>6, <2>1, <2>4, <3>1, TradeConstants DEF ClosedByWalk
    <3>3. InRange(PartnerReach, position[r], place)
      BY <3>2 DEF InRange
    <3> QED
      BY <1>3, <2>1, <2>4, <3>3
  <2>5. CASE r # p /\ q # p
    BY <1>3, <2>1, <2>2, <2>5
  <2> QED
    BY <2>3, <2>4, <2>5
<1> QED
  BY <1>1, <1>2, <1>4, <1>5, <1>7, <1>8, CloseKeepsOffers

\* A new offer is in reach, and apart from what is traded already.
LEMMA RequestKeepsOffers ==
    ASSUME IInv, IInv', OffersInv, NEW p \in Players, NEW q \in Players, NEW i \in Items, RequestTrade(p, q, i)
    PROVE  OffersInv'
<1>1. /\ InRange(PartnerReach, position[p], position[q])
      /\ Accessible(parent, p, i) /\ ~AlreadyTraded(i)
      /\ PlayerMayStart(p, q) /\ PartnerMayStart(p, q) /\ p # q
      /\ tradeItem' = [tradeItem EXCEPT ![p] = i]
      /\ tradeItems' = tradeItems \cup {i}
      /\ shown' = [shown EXCEPT ![p] = Inside(parent, i)]
      /\ position' = position /\ parent' = parent
      /\ tradePartner' = [tradePartner EXCEPT ![p] = q, ![q] = p]
            \/ tradePartner' = [tradePartner EXCEPT ![p] = q]
  BY DEF RequestTrade, StartTrade
<1>2. /\ position \in [Players -> Places] /\ parent \in [Items -> Cylinders]
      /\ tradeItem \in [Players -> Items \cup {NoItem}] /\ shown \in [Players -> SUBSET Items]
      /\ tradePartner \in [Players -> Players \cup {NoPlayer}] /\ tradeItems \subseteq Items
  BY DEF IInv, TypeOK
<1>3. ASSUME NEW r \in Players
      PROVE  /\ tradeItem'[r] = IF r = p THEN i ELSE tradeItem[r]
             /\ shown'[r] = IF r = p THEN Inside(parent, i) ELSE shown[r]
             /\ \/ tradePartner'[r] = tradePartner[r]
                \/ r = p /\ tradePartner'[r] = q
                \/ r = q /\ tradePartner'[r] = p
  BY <1>1, <1>2
<1>4. Acyclic(parent)
  BY DEF OffersInv
<1>5. TopParent(parent, i) # Nowhere
  BY <1>1, <1>2, AccessibleTop, TradeConstants
<1>6. OffersAsShown'
  <2>1. SUFFICES ASSUME NEW r \in Players, HasOffer(r)'
                 PROVE  /\ Inside(parent, tradeItem'[r]) = shown'[r]
                        /\ TopParent(parent, tradeItem'[r]) # Nowhere
    BY <1>1 DEF OffersAsShown
  <2>2. CASE r = p
    BY <1>3, <1>5, <2>2
  <2>3. CASE r # p
    BY <1>3, <2>1, <2>3 DEF HasOffer, OffersInv, OffersAsShown
  <2> QED
    BY <2>2, <2>3
<1>7. OffersApart'
  <2>1. \A j \in tradeItems : j # i /\ j \notin Inside(parent, i) /\ i \notin Inside(parent, j)
    BY <1>1 DEF AlreadyTraded
  <2>2. i \notin Inside(parent, i)
    BY <1>4 DEF Acyclic, Inside
  <2> QED
    BY <1>1, <2>1, <2>2 DEF OffersApart, OffersInv
<1>8. TradersTogether'
  <2>1. ASSUME NEW r \in Players, HasOffer(r)'
        PROVE  Accessible(parent, r, tradeItem[r])'
    <3>1. Accessible(parent, r, tradeItem'[r])
      <4>1. CASE r = p
        BY <1>1, <1>3, <4>1
      <4>2. CASE r # p
        BY <1>3, <2>1, <4>2 DEF HasOffer, OffersInv, TradersTogether
      <4> QED
        BY <4>1, <4>2
    <3> QED
      BY <1>1, <3>1 DEF Accessible, Carries
  <2>2. ASSUME NEW r \in Players, tradePartner'[r] # NoPlayer
        PROVE  InRange(PartnerReach, position[r], position[tradePartner'[r]])
    <3>1. CASE tradePartner'[r] = tradePartner[r]
      BY <2>2, <3>1 DEF OffersInv, TradersTogether
    <3>2. InRange(PartnerReach, position[q], position[p])
      BY <1>1 DEF InRange
    <3> QED
      BY <1>1, <1>3, <3>1, <3>2
  <2> QED
    BY <1>1, <2>1, <2>2 DEF TradersTogether
<1> QED
  BY <1>1, <1>4, <1>6, <1>7, <1>8 DEF OffersInv

LEMMA DisappearKeepsOffers ==
    ASSUME IInv, IInv', OffersInv, NEW p \in Players, Disappear(p)
    PROVE  OffersInv'
<1>1. /\ position' = position /\ parent' = parent
      /\ InternalCloseTrade(IF tradePartner[p] # NoPlayer THEN {p} ELSE {})
  BY DEF Disappear
<1> QED
  BY <1>1, ClosingKeepsOffers

LEMMA OffersStay ==
    ASSUME OffersInv, UNCHANGED <<position, parent, tradePartner, tradeItem, tradeItems, shown>>
    PROVE  OffersInv'
  BY DEF OffersInv, OffersApart, OffersAsShown, TradersTogether, HasOffer,
         Accessible, Carries, TopParent, PositionOf

----------------------------------------------------------------------------
(* The theorems.                                                           *)

LEMMA Initially == Init => IInv
<1> SUFFICES ASSUME Init PROVE IInv
  OBVIOUS
<1>1. TypeOK
  BY TradeConstants DEF Init, TypeOK, Cylinders, Places
<1>2. SidesAgree
  BY DEF Init, SidesAgree, OutOfTrade, HasOffer
<1>3. OffersRegistered
  BY DEF Init, OffersRegistered, OffersOf, HasOffer
<1> QED
  BY <1>1, <1>2, <1>3 DEF IInv

LEMMA Inductive == IInv /\ [Next]_vars => IInv'
<1> SUFFICES ASSUME IInv, [Next]_vars PROVE IInv'
  OBVIOUS
<1>1. ASSUME NEW p \in Players, NEW q \in Players, NEW i \in Items, RequestTrade(p, q, i)
      PROVE  IInv'
  BY <1>1, RequestKeepsInvariant
<1>2. ASSUME NEW p \in Players, AcceptTrade(p) \/ CloseTrade(p) \/ Disappear(p) \/ Login(p)
      PROVE  IInv'
  BY <1>2, AcceptKeepsInvariant, CloseTradeKeepsInvariant, DisappearKeepsInvariant, LoginKeepsInvariant
<1>3. ASSUME NEW p \in Players, NEW i \in Items, NEW c \in Cylinders, MoveItem(p, i, c)
      PROVE  IInv'
  BY <1>3, MoveKeepsInvariant
<1>4. ASSUME NEW p \in Players, NEW i \in Items, NEW j \in Items, ExchangeItem(p, i, j)
      PROVE  IInv'
  BY <1>4, ExchangeItemKeepsInvariant
<1>5. ASSUME NEW i \in Items, RemoveItem(i)
      PROVE  IInv'
  BY <1>5, RemoveKeepsInvariant
<1>6. ASSUME NEW p \in Players, NEW place \in Places, Walk(p, place)
      PROVE  IInv'
  BY <1>6, WalkKeepsInvariant
<1>7. CASE UNCHANGED vars
  BY <1>7 DEF vars, IInv, TypeOK, SidesAgree, OutOfTrade, InTrade, HasOffer,
              OffersRegistered, OffersOf
<1> QED
  BY <1>1, <1>2, <1>3, <1>4, <1>5, <1>6, <1>7 DEF Next

LEMMA Invariance == Spec => []IInv
  BY Initially, Inductive, PTL DEF Spec

\* At the start nothing is on offer, and every item lies on the floor.
LEMMA OffersBegin == Init => OffersInv
<1> SUFFICES ASSUME Init PROVE OffersInv
  OBVIOUS
<1>1. 0 \in Places /\ 0 \in Cylinders /\ 0 \notin Items
  BY TradeConstants DEF Places, Cylinders
<1>2. parent \in [Items -> Cylinders] /\ \A i \in Items : parent[i] = 0
  BY <1>1 DEF Init
<1>3. ASSUME NEW i \in Items
      PROVE  i \notin Above(parent, i)
  <2>1. parent[i] \in {0} /\ \A c \in {0} \cap Items : parent[c] \in {0}
    BY <1>1, <1>2
  <2>2. Above(parent, i) \subseteq {0}
    BY <1>2, <2>1, AboveIsLeast
  <2> QED
    BY <1>1, <2>2
<1>4. Acyclic(parent)
  BY <1>2, <1>3 DEF Acyclic
<1>5. \A p \in Players : ~HasOffer(p) /\ tradePartner[p] = NoPlayer
  BY DEF Init, HasOffer
<1>6. OffersApart
  BY DEF Init, OffersApart
<1> QED
  BY <1>4, <1>5, <1>6 DEF OffersInv, OffersAsShown, TradersTogether

LEMMA OffersInductive == IInv /\ OffersInv /\ [Next]_vars => OffersInv'
<1> SUFFICES ASSUME IInv, OffersInv, [Next]_vars PROVE OffersInv'
  OBVIOUS
<1>0. IInv'
  BY Inductive
<1>1. ASSUME NEW p \in Players, NEW q \in Players, NEW i \in Items, RequestTrade(p, q, i)
      PROVE  OffersInv'
  BY <1>0, <1>1, RequestKeepsOffers
<1>2. ASSUME NEW p \in Players, AcceptTrade(p)
      PROVE  OffersInv'
  BY <1>0, <1>2, AcceptKeepsOffers
<1>3. ASSUME NEW p \in Players, CloseTrade(p)
      PROVE  OffersInv'
  <2>1. {p} \in SUBSET Players /\ InternalCloseTrade({p})
        /\ position' = position /\ parent' = parent
    BY <1>3 DEF CloseTrade
  <2> QED
    BY <1>0, <2>1, ClosingKeepsOffers
<1>4. ASSUME NEW p \in Players, Disappear(p)
      PROVE  OffersInv'
  BY <1>0, <1>4, DisappearKeepsOffers
<1>5. ASSUME NEW p \in Players, Login(p)
      PROVE  OffersInv'
  <2>1. UNCHANGED <<position, parent, tradePartner, tradeItem, tradeItems, shown>>
    BY <1>5 DEF Login, traders, registry
  <2> QED
    BY <2>1, OffersStay
<1>6. ASSUME NEW p \in Players, NEW i \in Items, NEW c \in Cylinders, MoveItem(p, i, c)
      PROVE  OffersInv'
  BY <1>0, <1>6, MoveKeepsOffers
<1>7. ASSUME NEW p \in Players, NEW i \in Items, NEW j \in Items, ExchangeItem(p, i, j)
      PROVE  OffersInv'
  BY <1>0, <1>7, ExchangeItemKeepsOffers
<1>8. ASSUME NEW i \in Items, RemoveItem(i)
      PROVE  OffersInv'
  BY <1>0, <1>8, RemoveKeepsOffers
<1>9. ASSUME NEW p \in Players, NEW place \in Places, Walk(p, place)
      PROVE  OffersInv'
  BY <1>0, <1>9, WalkKeepsOffers
<1>10. CASE UNCHANGED vars
  BY <1>10, OffersStay DEF vars
<1> QED
  BY <1>1, <1>2, <1>3, <1>4, <1>5, <1>6, <1>7, <1>8, <1>9, <1>10 DEF Next

LEMMA OffersInvariance == Spec => []OffersInv
  BY Invariance, OffersBegin, OffersInductive, PTL DEF Spec

\* Every variable keeps to its type for any number of players and items.
THEOREM TradeTypes == Spec => []TypeOK
<1>1. IInv => TypeOK
  BY DEF IInv
<1> QED
  BY Invariance, <1>1, PTL

\* The two sides of every trade agree, however many players request, accept and
\* cancel trades, move items, walk and log out meanwhile.
THEOREM TradeSidesAgree == Spec => []SidesAgree
<1>1. IInv => SidesAgree
  BY DEF IInv
<1> QED
  BY Invariance, <1>1, PTL

\* Game::tradeItems is exactly the set of items on offer, each with one owner and
\* one reference.
THEOREM TradeOffersRegistered == Spec => []OffersRegistered
<1>1. IInv => OffersRegistered
  BY DEF IInv
<1> QED
  BY Invariance, <1>1, PTL

\* An offer that stands is what the partner was shown: nothing was put into it or
\* taken out at any depth, by whatever player or script, and it still exists.
THEOREM TradeOffersAsShown == Spec => []OffersAsShown
<1>1. OffersInv => OffersAsShown
  BY DEF OffersInv
<1> QED
  BY OffersInvariance, <1>1, PTL

\* Who trades has the item offered and the partner in reach: carrying the item
\* away, walking away or being walked away from closes the trade in the same step.
THEOREM TradeTradersTogether == Spec => []TradersTogether
<1>1. OffersInv => TradersTogether
  BY DEF OffersInv
<1> QED
  BY OffersInvariance, <1>1, PTL

\* No item on offer lies inside another one, and no item ends up inside itself,
\* not even by the two moves of an exchange.
THEOREM TradeNestingSound == Spec => []NestingSound
<1>1. OffersInv => NestingSound
  BY DEF OffersInv, OffersApart, Acyclic, NestingSound
<1> QED
  BY OffersInvariance, <1>1, PTL

----------------------------------------------------------------------------
(* Room. No container holds more than it has room for, so that where an    *)
(* item has left, another one can come.                                    *)

RoomKept(at) == \A c \in Containers : Cardinality(DirectlyIn(at, c)) <= Room

LEMMA FewerItems ==
    ASSUME NEW S \in SUBSET Items, NEW T \in SUBSET S
    PROVE  /\ Cardinality(S) \in Nat /\ Cardinality(T) \in Nat
           /\ Cardinality(T) <= Cardinality(S)
<1>1. IsFiniteSet(S)
  BY Finite, FS_Subset
<1> QED
  BY <1>1, FS_Subset, FS_CardinalityType

LEMMA MoveKeepsRoom ==
    ASSUME NEW at \in [Items -> Cylinders], RoomKept(at), NEW i \in Items, NEW c,
           c \in Containers => Cardinality(DirectlyIn(at, c)) < Room
    PROVE  RoomKept([at EXCEPT ![i] = c])
<1> DEFINE to == [at EXCEPT ![i] = c]
<1>1. \A x \in Items : to[x] = IF x = i THEN c ELSE at[x]
  OBVIOUS
<1> HIDE DEF to
<1> SUFFICES ASSUME NEW d \in Containers
             PROVE  Cardinality(DirectlyIn(to, d)) <= Room
  BY DEF RoomKept, to
<1>2. Cardinality(DirectlyIn(at, d)) <= Room
  BY DEF RoomKept
<1>3. /\ DirectlyIn(at, d) \in SUBSET Items /\ DirectlyIn(to, d) \in SUBSET Items
      /\ IsFiniteSet(DirectlyIn(at, d)) /\ Cardinality(DirectlyIn(at, d)) \in Nat
  <2>1. DirectlyIn(at, d) \in SUBSET Items /\ DirectlyIn(to, d) \in SUBSET Items
    BY DEF DirectlyIn
  <2> QED
    BY <2>1, Finite, FS_Subset, FS_CardinalityType
<1>4. CASE d # c
  <2>1. DirectlyIn(to, d) \in SUBSET DirectlyIn(at, d)
    BY <1>1, <1>4 DEF DirectlyIn
  <2>2. /\ Cardinality(DirectlyIn(to, d)) \in Nat
        /\ Cardinality(DirectlyIn(to, d)) <= Cardinality(DirectlyIn(at, d))
    BY <1>3, <2>1, FewerItems
  <2> QED
    BY <1>2, <1>3, <2>2, TradeConstants
<1>5. CASE d = c
  <2>1. DirectlyIn(to, d) \in SUBSET (DirectlyIn(at, d) \cup {i})
    BY <1>1 DEF DirectlyIn
  <2>2. DirectlyIn(at, d) \cup {i} \in SUBSET Items
    BY <1>3
  <2>3. /\ Cardinality(DirectlyIn(to, d)) \in Nat
        /\ Cardinality(DirectlyIn(to, d)) <= Cardinality(DirectlyIn(at, d) \cup {i})
    BY <2>1, <2>2, FewerItems
  <2>4. Cardinality(DirectlyIn(at, d) \cup {i}) <= Cardinality(DirectlyIn(at, d)) + 1
    <3> DEFINE D == DirectlyIn(at, d)
    <3>1. IsFiniteSet(D) /\ Cardinality(D) \in Nat
      BY <1>3
    <3> HIDE DEF D
    <3>2. Cardinality(D \cup {i}) = IF i \in D THEN Cardinality(D) ELSE Cardinality(D) + 1
      BY <3>1, FS_AddElement
    <3>3. Cardinality(D \cup {i}) <= Cardinality(D) + 1
      BY <3>1, <3>2
    <3> QED
      BY <3>3 DEF D
  <2>5. Cardinality(DirectlyIn(at, d)) < Room
    BY <1>5
  <2>6. Cardinality(DirectlyIn(at, d) \cup {i}) \in Nat
    BY <2>2, FewerItems
  <2> QED
    BY <1>3, <2>3, <2>4, <2>5, <2>6, TradeConstants
<1> QED
  BY <1>4, <1>5

LEMMA AddedKeepsRoom ==
    ASSUME NEW at \in [Items -> Cylinders], RoomKept(at), NEW i \in Items, NEW c, QueryAdd(at, i, c)
    PROVE  RoomKept([at EXCEPT ![i] = c])
<1>1. c \in Containers => Cardinality(DirectlyIn(at, c)) < Room
  BY TradeConstants DEF QueryAdd, CanAddToContainer
<1> QED
  BY <1>1, MoveKeepsRoom

LEMMA MovedKeepsRoom ==
    ASSUME NEW at, Acyclic(at), RoomKept(at), NEW i \in Items, NEW q \in Players, NEW to \in Moved(at, i, q)
    PROVE  RoomKept(to) /\ Acyclic(to)
<1>1. CASE QueryDestination(at, q, i) = {}
  BY <1>1 DEF Moved
<1>2. CASE QueryDestination(at, q, i) # {}
  <2>1. PICK c \in QueryDestination(at, q, i) : to = [at EXCEPT ![i] = c]
    BY <1>2 DEF Moved
  <2>2. QueryAdd(at, i, c)
    BY <2>1 DEF QueryDestination, FirstDestinations, DeeperDestinations
  <2>3. at \in [Items -> Cylinders]
    BY DEF Acyclic
  <2>4. Acyclic(to)
    BY <2>1, <2>2, QueryAddHolds, MoveAcyclic
  <2> QED
    BY <2>1, <2>2, <2>3, <2>4, AddedKeepsRoom
<1> QED
  BY <1>1, <1>2

\* Only requests that move items change what containers hold.
LEMMA RoomStep ==
    ASSUME IInv, OffersInv, RoomKept(parent), [Next]_vars
    PROVE  RoomKept(parent')
<1>0. Acyclic(parent) /\ parent \in [Items -> Cylinders]
  BY DEF OffersInv, Acyclic
<1>1. CASE parent' = parent
  BY <1>1
<1>2. ASSUME NEW p \in Players, AcceptTrade(p), parent' # parent
      PROVE  RoomKept(parent')
  <2> DEFINE q == tradePartner[p]
  <2>1. Exchange(p, q) /\ MayAccept(p)
    BY <1>2 DEF AcceptTrade
  <2>2. TransferPossible(p, q) /\ Transfer(p, q)
    BY <1>2, <2>1 DEF Exchange
  <2>3. q \in Players /\ tradeItem[p] \in Items /\ tradeItem[q] \in Items
    BY <2>1, <2>2 DEF MayAccept, TransferPossible, IInv, TypeOK
  <2> HIDE DEF q
  <2>4. PICK mid \in Moved(parent, tradeItem[p], q) : parent' \in Moved(mid, tradeItem[q], p)
    BY <2>2 DEF Transfer
  <2>5. RoomKept(mid) /\ Acyclic(mid)
    BY <1>0, <2>3, <2>4, MovedKeepsRoom
  <2> QED
    BY <2>3, <2>4, <2>5, MovedKeepsRoom
<1>3. ASSUME NEW p \in Players, NEW i \in Items, NEW c \in Cylinders, MoveItem(p, i, c)
      PROVE  RoomKept(parent')
  BY <1>0, <1>3, AddedKeepsRoom DEF MoveItem
<1>4. ASSUME NEW p \in Players, NEW i \in Items, NEW j \in Items, ExchangeItem(p, i, j)
      PROVE  RoomKept(parent')
  <2> DEFINE mid == [parent EXCEPT ![j] = parent[i]]
  <2>1. /\ QueryAdd(parent, j, parent[i])
        /\ parent' = IF QueryAdd(mid, i, p) THEN [mid EXCEPT ![i] = p] ELSE mid
    BY <1>4 DEF ExchangeItem
  <2>2. mid \in [Items -> Cylinders] /\ RoomKept(mid)
    BY <1>0, <2>1, AddedKeepsRoom
  <2> HIDE DEF mid
  <2>3. QueryAdd(mid, i, p) => RoomKept([mid EXCEPT ![i] = p])
    BY <2>2, AddedKeepsRoom
  <2> QED
    BY <2>1, <2>2, <2>3
<1>5. ASSUME NEW i \in Items, RemoveItem(i)
      PROVE  RoomKept(parent')
  <2>1. Nowhere \notin Containers
    BY TradeConstants
  <2> QED
    BY <1>0, <1>5, <2>1, MoveKeepsRoom DEF RemoveItem
<1>6. ASSUME NEW p \in Players, NEW q \in Players, NEW i \in Items, RequestTrade(p, q, i)
      PROVE  parent' = parent
  BY <1>6 DEF RequestTrade
<1>7. ASSUME NEW p \in Players, CloseTrade(p) \/ Disappear(p) \/ Login(p)
      PROVE  parent' = parent
  BY <1>7 DEF CloseTrade, Disappear, Login
<1>8. ASSUME NEW p \in Players, NEW place \in Places, Walk(p, place)
      PROVE  parent' = parent
  BY <1>8 DEF Walk
<1>9. CASE UNCHANGED vars
  BY <1>9 DEF vars
<1> QED
  BY <1>1, <1>2, <1>3, <1>4, <1>5, <1>6, <1>7, <1>8, <1>9 DEF Next

LEMMA RoomAtFirst == Init => RoomKept(parent)
<1> SUFFICES ASSUME Init, NEW c \in Containers
             PROVE  Cardinality(DirectlyIn(parent, c)) <= Room
  BY DEF RoomKept
<1>1. 0 \in Places /\ c \notin Places
  BY TradeConstants DEF Places
<1>2. DirectlyIn(parent, c) = {}
  BY <1>1 DEF Init, DirectlyIn
<1> QED
  BY <1>2, FS_EmptySet, TradeConstants

LEMMA RoomInvariance == Spec => []RoomKept(parent)
<1>1. IInv /\ OffersInv /\ RoomKept(parent) /\ [Next]_vars => RoomKept(parent)'
  BY RoomStep
<1> QED
  BY <1>1, RoomAtFirst, Invariance, OffersInvariance, PTL DEF Spec

----------------------------------------------------------------------------
(* Where the items of an exchange arrive.                                  *)

\* What i is moved out of or into stays below i when it was below.
LEMMA MoveKeepsBelow ==
    ASSUME NEW at, Acyclic(at), NEW i \in Items, NEW c, MayHold(at, i, c),
           NEW x \in Items, i \in Above(at, x)
    PROVE  i \in Above([at EXCEPT ![i] = c], x)
<1> DEFINE to == [at EXCEPT ![i] = c]
<1>1. at \in [Items -> Cylinders] /\ x # i
  BY DEF Acyclic
<1>2. to \in [Items -> Cylinders] /\ \A z \in Items \ {i} : to[z] = at[z]
  BY <1>1 DEF MayHold
<1> HIDE DEF to
<1>3. ASSUME i \notin Above(to, x)
      PROVE  FALSE
  <2>1. to[x] \in Above(to, x) /\ \A z \in Above(to, x) \cap Items : to[z] \in Above(to, x)
    BY <1>2, AboveIsClosed
  <2>2. Above(at, x) \subseteq Above(to, x)
    BY <1>1, <1>2, <1>3, <2>1, AboveIsLeast
  <2> QED
    BY <1>3, <2>2
<1> QED
  BY <1>3 DEF to

\* A destination is the receiver or a container below one of the searched slots.
Below(at, s, c) == s = c \/ s \in Above(at, c)

LEMMA DestinationIs ==
    ASSUME NEW at, Acyclic(at), NEW p \in Players, NEW i \in Items, NEW c \in QueryDestination(at, p, i)
    PROVE  /\ QueryAdd(at, i, c) /\ MayHold(at, i, c)
           /\ \/ c = p
              \/ /\ c \in Containers /\ c \in Items /\ p \in Above(at, c)
                 /\ \E s \in Items : at[s] = p /\ s # i /\ s # tradeItem[p] /\ Below(at, s, c)
<1>1. at \in [Items -> Cylinders]
  BY DEF Acyclic
<1>2. QueryAdd(at, i, c)
  BY DEF QueryDestination, FirstDestinations, DeeperDestinations
<1>3. MayHold(at, i, c)
  BY <1>2, QueryAddHolds
<1>4. c # p => c \in Containers /\ \E s \in Searched(at, p, i) : Below(at, s, c)
  BY DEF QueryDestination, FirstDestinations, DeeperDestinations, Below
<1>5. ASSUME c # p
      PROVE  /\ c \in Containers /\ c \in Items /\ p \in Above(at, c)
             /\ \E s \in Items : at[s] = p /\ s # i /\ s # tradeItem[p] /\ Below(at, s, c)
  <2>1. PICK s \in Searched(at, p, i) : Below(at, s, c)
    BY <1>4, <1>5
  <2>2. s \in Items /\ at[s] = p /\ s # i /\ s # tradeItem[p]
    BY DEF Searched, DirectlyIn
  <2>3. c \in Containers /\ c \in Items
    BY <1>4, <1>5, TradeConstants
  <2>4. p \in Above(at, s)
    BY <1>1, <2>2, AboveIsClosed
  <2>5. p \in Above(at, c)
    BY <1>1, <2>1, <2>2, <2>3, <2>4, AboveUnfolds DEF Below
  <2> QED
    BY <2>1, <2>2, <2>3, <2>5
<1> QED
  BY <1>2, <1>3, <1>5

LEMMA DestinationExists ==
    ASSUME NEW at, NEW p, NEW i, NEW c, QueryAdd(at, i, c),
           c = p \/ (c \in Containers /\ \E s \in Items : at[s] = p /\ s # i /\ s # tradeItem[p] /\ Below(at, s, c))
    PROVE  QueryDestination(at, p, i) # {}
<1>1. CASE c = p
  BY <1>1 DEF QueryDestination, FirstDestinations
<1>2. ASSUME c \in Containers, NEW s \in Items, at[s] = p, s # i, s # tradeItem[p], Below(at, s, c)
      PROVE  QueryDestination(at, p, i) # {}
  <2>1. s \in Searched(at, p, i)
    BY <1>2 DEF Searched, DirectlyIn
  <2>2. CASE s = c
    BY <1>2, <2>1, <2>2 DEF QueryDestination, FirstDestinations
  <2>3. CASE s \in Above(at, c)
    BY <1>2, <2>1, <2>3 DEF QueryDestination, DeeperDestinations
  <2> QED
    BY <1>2, <2>2, <2>3 DEF Below
<1> QED
  BY <1>1, <1>2

LEMMA ArrivesAt ==
    ASSUME NEW at, Acyclic(at), NEW p \in Players, NEW i \in Items, NEW c \in QueryDestination(at, p, i)
    PROVE  Carries([at EXCEPT ![i] = c], p, i)
<1> DEFINE to == [at EXCEPT ![i] = c]
<1>1. /\ MayHold(at, i, c)
      /\ c = p \/ (c \in Containers /\ c \in Items /\ p \in Above(at, c))
  BY DestinationIs
<1>2. to \in [Items -> Cylinders] /\ to[i] = c
  BY <1>1 DEF Acyclic, MayHold
<1>3. c \in Items => Above(to, c) = Above(at, c)
  BY <1>1, MoveElsewhere DEF MayHold
<1> HIDE DEF to
<1>4. c \in Above(to, i)
  BY <1>2, AboveIsClosed
<1>5. c \in Items => Above(to, c) \subseteq Above(to, i)
  BY <1>2, <1>4, AboveUnfolds
<1>6. p \in Above(to, i)
  BY <1>1, <1>3, <1>4, <1>5
<1> QED
  BY <1>6 DEF to, Carries

\* What is below a slot and is not in the slot itself is in a container.
LEMMA BelowASlot ==
    ASSUME NEW at, Acyclic(at), NEW p \in Players, NEW s \in Items, at[s] = p, NEW x \in Items, x # s,
           NEW d \in Items, Below(at, s, d), Below(at, x, d)
    PROVE  at[x] \in Containers /\ Below(at, s, at[x])
<1>1. at \in [Items -> Cylinders] /\ p \notin Items
  BY TradeConstants DEF Acyclic
<1>2. x \notin Above(at, s)
  BY <1>1, AboveUnfolds
<1>3. s \in Above(at, x)
  <2>1. CASE s = d
    BY <1>2, <2>1 DEF Below
  <2>2. CASE x = d
    BY <2>2 DEF Below
  <2>3. CASE s \in Above(at, d) /\ x \in Above(at, d)
    BY <1>1, <1>2, <2>3, AboveIsChain
  <2> QED
    BY <2>1, <2>2, <2>3 DEF Below
<1>4. s = at[x] \/ (at[x] \in Items /\ s \in Above(at, at[x]))
  BY <1>1, <1>3, AboveUnfolds
<1>5. at[x] \in Items /\ at[x] \in Cylinders
  BY <1>1, <1>4
<1>6. at[x] \in Containers
  BY <1>5, TradeConstants DEF Cylinders
<1> QED
  BY <1>4, <1>6 DEF Below

\* p's half of an exchange after q's half: what p gave away is not in the way, so
\* that there is still a place for what p gets, unless it now holds more.
LEMMA StillRoom ==
    ASSUME Acyclic(parent), RoomKept(parent), NEW p \in Players, NEW q \in Players, p # q,
           NEW a \in Items, NEW b \in Items, a # b, a \notin Above(parent, b), b \notin Above(parent, a),
           tradeItem[p] = a, NEW e \in QueryDestination(parent, q, a),
           QueryDestination(parent, p, b) # {}, b \notin Above([parent EXCEPT ![a] = e], a)
    PROVE  QueryDestination([parent EXCEPT ![a] = e], p, b) # {}
<1> DEFINE mid == [parent EXCEPT ![a] = e]
<1>1. parent \in [Items -> Cylinders] /\ \A x \in Items : x \notin Above(parent, x)
  BY DEF Acyclic
<1>2. p \notin Items /\ q \notin Items /\ p \notin Containers /\ q \notin Containers
  BY TradeConstants
<1>3. /\ MayHold(parent, a, e)
      /\ e = q \/ (e \in Containers /\ e \in Items /\ q \in Above(parent, e))
  BY DestinationIs
<1>4. PICK d \in QueryDestination(parent, p, b) : TRUE
  OBVIOUS
<1>5. /\ QueryAdd(parent, b, d)
      /\ \/ d = p
         \/ /\ d \in Containers /\ d \in Items /\ p \in Above(parent, d)
            /\ \E s \in Items : parent[s] = p /\ s # b /\ s # a /\ Below(parent, s, d)
  BY DestinationIs
<1>6. q \in Above(mid, a)
  BY ArrivesAt DEF Carries
<1>7. ASSUME NEW x \in Items
      PROVE  /\ mid \in [Items -> Cylinders]
             /\ x # a /\ a \notin Above(parent, x) => Above(mid, x) = Above(parent, x)
             /\ Above(mid, x) \subseteq Above(parent, x) \cup {e} \cup (IF e \in Items THEN Above(parent, e) ELSE {})
             /\ a \in Above(parent, x) => a \in Above(mid, x)
  <2>1. /\ mid \in [Items -> Cylinders]
        /\ x # a /\ a \notin Above(parent, x) => Above(mid, x) = Above(parent, x)
        /\ Above(mid, x) \subseteq Above(parent, x) \cup {e} \cup (IF e \in Items THEN Above(parent, e) ELSE {})
    <3>1. Acyclic(parent) /\ MayHold(parent, a, e) /\ a \in Items /\ x \in Items
      BY <1>3
    <3>2. mid \in [Items -> Cylinders]
      BY <3>1 DEF Acyclic, MayHold
    <3>3. ASSUME x # a, a \notin Above(parent, x)
          PROVE  Above(mid, x) = Above(parent, x)
      BY <3>1, <3>3, MoveElsewhere
    <3>4. Above(mid, x) \subseteq Above(parent, x) \cup {e} \cup (IF e \in Items THEN Above(parent, e) ELSE {})
      BY <3>1, MoveElsewhere
    <3> QED
      BY <3>2, <3>3, <3>4
  <2>2. a \in Above(parent, x) => a \in Above(mid, x)
    BY <1>3, MoveKeepsBelow
  <2> HIDE DEF mid
  <2> QED
    BY <2>1, <2>2
<1>8. mid \in [Items -> Cylinders] /\ mid[a] = e /\ \A x \in Items \ {a} : mid[x] = parent[x]
  BY <1>1, <1>7
<1> HIDE DEF mid
\* Weights: b holds what it held, and p carries no more.
<1>9. Inside(mid, b) \subseteq Inside(parent, b)
  <2>1. SUFFICES ASSUME NEW x \in Items, b \in Above(mid, x)
                 PROVE  b \in Above(parent, x)
    BY DEF Inside
  <2>2. x # a
    BY <2>1 DEF mid
  <2>3. CASE a \notin Above(parent, x)
    BY <1>7, <2>1, <2>2, <2>3
  <2>4. CASE a \in Above(parent, x)
    <3>1. b # e /\ (e \in Items => b \notin Above(parent, e))
      <4>1. e \in Above(mid, a)
        BY <1>8, AboveIsClosed
      <4>2. b # e
        BY <4>1 DEF mid
      <4>3. ASSUME e \in Items
            PROVE  b \notin Above(parent, e)
        <5>1. Above(mid, e) = Above(parent, e)
          BY <1>3, <1>7, <4>3 DEF MayHold
        <5>2. Above(mid, e) \subseteq Above(mid, a)
          BY <1>8, <4>1, <4>3, AboveUnfolds
        <5> QED
          BY <5>1, <5>2 DEF mid
      <4> QED
        BY <4>2, <4>3
    <3> QED
      BY <1>7, <2>1, <3>1
  <2> QED
    BY <2>3, <2>4
<1>10. Inside(mid, p) \subseteq Inside(parent, p)
  <2>1. SUFFICES ASSUME NEW x \in Items, p \in Above(mid, x)
                 PROVE  p \in Above(parent, x)
    BY DEF Inside
  <2>2. CASE x # a /\ a \notin Above(parent, x)
    BY <1>7, <2>1, <2>2
  <2>3. CASE x = a \/ a \in Above(parent, x)
    <3>1. x = a \/ a \in Above(mid, x)
      BY <1>7, <2>3
    <3>2. q \in Above(mid, x)
      BY <1>6, <1>8, <3>1, AboveUnfolds
    <3>3. p = q
      BY <1>2, <1>8, <2>1, <3>2, AboveIsChain
    <3> QED
      BY <3>3
  <2> QED
    BY <2>2, <2>3
<1>11. HasCapacity(mid, p, b)
  <2>1. HasCapacity(parent, p, b)
    <3>1. CASE d = p
      BY <1>2, <1>5, <3>1, TradeConstants DEF QueryAdd, CanAddToSlot
    <3>2. CASE d # p
      <4>1. d \in Containers /\ d \in Items /\ p \in Above(parent, d) \ Items
        BY <1>2, <1>5, <3>2
      <4>2. TopParent(parent, d) = p
        BY <1>1, <4>1, TopIs
      <4>3. CanAddToContainer(parent, b, d)
        BY <1>5, <4>1, TradeConstants DEF QueryAdd
      <4> QED
        BY <4>2, <4>3 DEF CanAddToContainer
    <3> QED
      BY <3>1, <3>2
  <2>2. CASE Carries(parent, p, b)
    <3>1. Above(mid, b) = Above(parent, b)
      BY <1>7
    <3> QED
      BY <2>2, <3>1 DEF HasCapacity, Carries
  <2>3. CASE ~Carries(parent, p, b)
    <3>1. 1 + Cardinality(Inside(parent, b)) < Capacity - Cardinality(Inside(parent, p))
      BY <2>1, <2>3 DEF HasCapacity
    <3>2. /\ Cardinality(Inside(mid, b)) <= Cardinality(Inside(parent, b))
          /\ Cardinality(Inside(mid, b)) \in Nat /\ Cardinality(Inside(parent, b)) \in Nat
      <4>1. Inside(parent, b) \in SUBSET Items /\ Inside(mid, b) \in SUBSET Inside(parent, b)
        BY <1>9 DEF Inside
      <4> QED
        BY <4>1, FewerItems
    <3>3. /\ Cardinality(Inside(mid, p)) <= Cardinality(Inside(parent, p))
          /\ Cardinality(Inside(mid, p)) \in Nat /\ Cardinality(Inside(parent, p)) \in Nat
      <4>1. Inside(parent, p) \in SUBSET Items /\ Inside(mid, p) \in SUBSET Inside(parent, p)
        BY <1>10 DEF Inside
      <4> QED
        BY <4>1, FewerItems
    <3>4. 1 + Cardinality(Inside(mid, b)) < Capacity - Cardinality(Inside(mid, p))
      BY <3>1, <3>2, <3>3, TradeConstants
    <3> QED
      BY <3>4 DEF HasCapacity
  <2> QED
    BY <2>2, <2>3
\* What is with p was not touched, but that a may have left.
<1>12. ASSUME NEW c, c = p \/ (c \in Items /\ p \in Above(parent, c))
       PROVE  DirectlyIn(mid, c) \subseteq DirectlyIn(parent, c) \ {a}
  <2>1. e # c
    <3>1. SUFFICES ASSUME e = c
                   PROVE  FALSE
      OBVIOUS
    <3>2. c \in Items /\ p \in Above(parent, c) /\ q \in Above(parent, c)
      BY <1>2, <1>3, <1>12, <3>1
    <3>3. p = q
      BY <1>1, <1>2, <3>2, AboveIsChain
    <3> QED
      BY <3>3
  <2> QED
    BY <1>8, <2>1 DEF DirectlyIn
<1>13. ASSUME NEW c \in Containers, p \in Above(parent, c), c # a, a \notin Above(parent, c),
              c # b, b \notin Above(parent, c), Cardinality(DirectlyIn(parent, c) \ {a}) < Room
       PROVE  QueryAdd(mid, b, c)
  <2>1. c \in Items
    BY TradeConstants
  <2>2. Above(mid, c) = Above(parent, c)
    BY <1>7, <1>13, <2>1
  <2>3. TopParent(mid, c) = p
    <3>1. p \in Above(mid, c) \ Items
      BY <1>2, <1>13, <2>2
    <3> QED
      BY <1>8, <2>1, <3>1, TopIs
  <2>4. ~WouldContainItself(mid, b, c)
    BY <1>13, <2>2 DEF WouldContainItself
  <2>5. Cardinality(DirectlyIn(mid, c)) < Room
    <3>1. DirectlyIn(parent, c) \ {a} \in SUBSET Items /\ DirectlyIn(mid, c) \in SUBSET (DirectlyIn(parent, c) \ {a})
      BY <1>12, <1>13, <2>1 DEF DirectlyIn
    <3>2. /\ Cardinality(DirectlyIn(parent, c) \ {a}) \in Nat /\ Cardinality(DirectlyIn(mid, c)) \in Nat
          /\ Cardinality(DirectlyIn(mid, c)) <= Cardinality(DirectlyIn(parent, c) \ {a})
      BY <3>1, FewerItems
    <3> QED
      BY <1>13, <3>2, TradeConstants
  <2>6. CanAddToContainer(mid, b, c)
    BY <1>11, <2>3, <2>4, <2>5 DEF CanAddToContainer
  <2> QED
    BY <2>6, TradeConstants DEF QueryAdd
<1>14. CASE d = p
  <2>1. Cardinality(DirectlyIn(parent, p)) < Slots
    BY <1>2, <1>5, <1>14, TradeConstants DEF QueryAdd, CanAddToSlot
  <2>2. DirectlyIn(mid, p) \in SUBSET DirectlyIn(parent, p) /\ DirectlyIn(parent, p) \in SUBSET Items
    BY <1>12 DEF DirectlyIn
  <2>3. Cardinality(DirectlyIn(mid, p)) < Slots
    <3>1. /\ Cardinality(DirectlyIn(parent, p)) \in Nat /\ Cardinality(DirectlyIn(mid, p)) \in Nat
          /\ Cardinality(DirectlyIn(mid, p)) <= Cardinality(DirectlyIn(parent, p))
      BY <2>2, FewerItems
    <3> QED
      BY <2>1, <3>1, TradeConstants
  <2>4. QueryAdd(mid, b, p)
    BY <1>2, <1>11, <2>3, TradeConstants DEF QueryAdd, CanAddToSlot
  <2>5. QueryDestination(mid, p, b) # {}
    BY <2>4, DestinationExists
  <2> QED
    BY <2>5 DEF mid
<1>15. CASE d # p
  <2>1. d \in Containers /\ d \in Items /\ p \in Above(parent, d)
    BY <1>5, <1>15
  <2>2. PICK s \in Items : parent[s] = p /\ s # b /\ s # a /\ Below(parent, s, d)
    BY <1>5, <1>15
  <2>3. ~WouldContainItself(parent, b, d) /\ Cardinality(DirectlyIn(parent, d)) < Room
    BY <1>5, <2>1, TradeConstants DEF QueryAdd, CanAddToContainer
  <2>4. d # b /\ b \notin Above(parent, d)
    BY <2>3 DEF WouldContainItself
  <2>5. mid[s] = p
    BY <1>8, <2>2
  <2>6. ASSUME NEW c \in Containers, QueryAdd(mid, b, c), c # a, a \notin Above(parent, c), Below(parent, s, c)
        PROVE  QueryDestination(mid, p, b) # {}
    <3>1. c \in Items
      BY TradeConstants
    <3>2. Above(mid, c) = Above(parent, c)
      BY <1>7, <2>6, <3>1
    <3>3. Below(mid, s, c)
      BY <2>6, <3>2 DEF Below
    <3> QED
      BY <2>2, <2>5, <2>6, <3>3, DestinationExists
  <2>7. CASE ~Below(parent, a, d)
    <3>1. d # a /\ a \notin Above(parent, d)
      BY <2>7 DEF Below
    <3>2. Cardinality(DirectlyIn(parent, d) \ {a}) < Room
      <4>1. DirectlyIn(parent, d) \in SUBSET Items /\ DirectlyIn(parent, d) \ {a} \in SUBSET DirectlyIn(parent, d)
        BY DEF DirectlyIn
      <4>2. /\ Cardinality(DirectlyIn(parent, d)) \in Nat /\ Cardinality(DirectlyIn(parent, d) \ {a}) \in Nat
            /\ Cardinality(DirectlyIn(parent, d) \ {a}) <= Cardinality(DirectlyIn(parent, d))
        BY <4>1, FewerItems
      <4> QED
        BY <2>3, <4>2, TradeConstants
    <3>3. QueryAdd(mid, b, d)
      BY <1>13, <2>1, <2>4, <3>1, <3>2
    <3>4. QueryDestination(mid, p, b) # {}
      BY <2>1, <2>2, <2>6, <3>1, <3>3
    <3> QED
      BY <3>4 DEF mid
  <2>8. CASE Below(parent, a, d)
    <3> DEFINE c == parent[a]
    <3>1. c \in Containers /\ Below(parent, s, c)
      BY <2>1, <2>2, <2>8, BelowASlot
    <3>2. c \in Items /\ c \in Above(parent, a) /\ Above(parent, c) \subseteq Above(parent, a)
      BY <1>1, <3>1, AboveIsClosed, AboveUnfolds, TradeConstants
    <3>3. c # a /\ a \notin Above(parent, c) /\ c # b /\ b \notin Above(parent, c)
      BY <1>1, <3>2
    <3>4. p \in Above(parent, c)
      <4>1. p \in Above(parent, s)
        BY <1>1, <2>2, AboveIsClosed
      <4> QED
        BY <1>1, <2>2, <3>1, <3>2, <4>1, AboveUnfolds DEF Below
    <3>5. Cardinality(DirectlyIn(parent, c) \ {a}) < Room
      <4> DEFINE D == DirectlyIn(parent, c)
      <4>1. a \in D /\ IsFiniteSet(D)
        BY Finite, FS_Subset DEF DirectlyIn
      <4>2. Cardinality(D) <= Room
        BY <3>1 DEF RoomKept
      <4> HIDE DEF D
      <4>3. /\ Cardinality(D \ {a}) = Cardinality(D) - 1 /\ Cardinality(D) \in Nat
        BY <4>1, FS_RemoveElement, FS_CardinalityType
      <4>4. Cardinality(D \ {a}) < Room
        BY <4>2, <4>3, TradeConstants
      <4> QED
        BY <4>4 DEF D
    <3> HIDE DEF c
    <3>6. QueryAdd(mid, b, c)
      BY <1>13, <3>1, <3>3, <3>4, <3>5
    <3>7. QueryDestination(mid, p, b) # {}
      BY <2>6, <3>1, <3>3, <3>6
    <3> QED
      BY <3>7 DEF mid
  <2> QED
    BY <2>7, <2>8
<1> QED
  BY <1>14, <1>15

\* An accepted trade that moves anything moves both items, unless the first one
\* was put into the second one.
LEMMA AcceptIsMutual ==
    ASSUME IInv, OffersInv, RoomKept(parent), NEW p \in Players, AcceptTrade(p), parent' # parent
    PROVE  LET q == tradePartner[p]
           IN  \/ Carries(parent', q, tradeItem[p]) /\ Carries(parent', p, tradeItem[q])
               \/ PutIntoOffer(p, q)
<1> DEFINE q == tradePartner[p]
           a == tradeItem[p]
           b == tradeItem[q]
<1>1. MayAccept(p) /\ Exchange(p, q)
  BY DEF AcceptTrade
<1>2. TransferPossible(p, q) /\ Transfer(p, q)
  BY <1>1 DEF Exchange
<1>3. q \in Players /\ p # q
  BY <1>1 DEF MayAccept, IInv, SidesAgree, InTrade
<1>4. a \in Items /\ b \in Items
  BY <1>2, <1>3 DEF TransferPossible, IInv, TypeOK
<1>5. a # b /\ a \in tradeItems /\ b \in tradeItems
  <2>1. HasOffer(p) /\ HasOffer(q)
    BY <1>2 DEF TransferPossible, HasOffer
  <2> QED
    BY <1>3, <2>1 DEF IInv, OffersRegistered, OffersOf, HasOffer
<1>6. a \notin Above(parent, b) /\ b \notin Above(parent, a)
  BY <1>4, <1>5 DEF OffersInv, OffersApart, Inside
<1>7. Acyclic(parent) /\ parent \in [Items -> Cylinders]
  BY DEF OffersInv, Acyclic
<1>8. QueryDestination(parent, q, a) # {} /\ QueryDestination(parent, p, b) # {}
  BY <1>2 DEF TransferPossible
<1>9. PICK mid \in Moved(parent, a, q) : parent' \in Moved(mid, b, p)
  BY <1>2 DEF Transfer
<1>10. PICK e \in QueryDestination(parent, q, a) : mid = [parent EXCEPT ![a] = e]
  BY <1>8, <1>9 DEF Moved
<1> HIDE DEF q, a, b
<1>11. /\ MayHold(parent, a, e)
       /\ \/ e = q
          \/ /\ e \in Containers /\ e \in Items /\ q \in Above(parent, e)
             /\ \E s \in Items : parent[s] = q /\ s # a /\ s # tradeItem[q] /\ Below(parent, s, e)
  BY <1>3, <1>4, <1>7, DestinationIs
<1>12. Acyclic(mid) /\ mid \in [Items -> Cylinders] /\ mid[a] = e /\ mid[b] = parent[b]
  BY <1>4, <1>5, <1>7, <1>10, <1>11, MoveAcyclic DEF Acyclic
<1>13. Carries(mid, q, a)
  BY <1>3, <1>4, <1>7, <1>10, ArrivesAt
<1>14. ASSUME NEW d \in QueryDestination(mid, p, b), parent' = [mid EXCEPT ![b] = d]
       PROVE  Carries(parent', p, b) /\ MayHold(mid, b, d)
  BY <1>4, <1>12, <1>14, ArrivesAt, DestinationIs
<1>15. CASE b \notin Above(mid, a)
  <2>1. tradeItem[p] = a
    BY DEF a
  <2>2. QueryDestination(mid, p, b) # {}
    BY <1>3, <1>4, <1>5, <1>6, <1>7, <1>8, <1>10, <1>15, <2>1, StillRoom
  <2>3. PICK d \in QueryDestination(mid, p, b) : parent' = [mid EXCEPT ![b] = d]
    BY <1>9, <2>2 DEF Moved
  <2>4. Carries(parent', p, b) /\ MayHold(mid, b, d)
    BY <1>14, <2>3
  <2>5. Above(parent', a) = Above(mid, a)
    <3>1. a # b /\ b \notin Above(mid, a) => Above([mid EXCEPT ![b] = d], a) = Above(mid, a)
      <4>1. Acyclic(mid) /\ a \in Items /\ b \in Items /\ MayHold(mid, b, d)
        BY <1>4, <1>12, <2>4
      <4> QED
        BY <4>1, MoveElsewhere
    <3> QED
      BY <1>5, <1>15, <2>3, <3>1
  <2>6. Carries(parent', q, a)
    BY <1>13, <2>5 DEF Carries
  <2> QED
    BY <2>4, <2>6 DEF q, a, b
<1>16. CASE b \in Above(mid, a)
  <2>1. e \in Items /\ Below(parent, b, e)
    <3>1. b = e \/ (e \in Items /\ b \in Above(mid, e))
      BY <1>4, <1>12, <1>16, AboveUnfolds
    <3>2. e \in Items => Above(mid, e) = Above(parent, e)
      BY <1>4, <1>7, <1>10, <1>11, MoveElsewhere DEF MayHold
    <3> QED
      BY <1>4, <3>1, <3>2 DEF Below
  <2>2. parent[b] \in Containers
    <3>1. q \notin Items
      BY <1>3, TradeConstants
    <3>2. PICK s \in Items : parent[s] = q /\ s # b /\ Below(parent, s, e)
      BY <1>11, <2>1, <3>1 DEF b
    <3> QED
      BY <1>3, <1>4, <1>7, <2>1, <3>2, BelowASlot
  <2>3. CASE QueryDestination(mid, p, b) = {}
    <3>1. parent' = mid
      BY <1>9, <2>3 DEF Moved
    <3>2. a \in Inside(parent', b) /\ parent'[b] = parent[b]
      BY <1>4, <1>12, <1>16, <3>1 DEF Inside
    <3> QED
      BY <2>2, <3>2 DEF PutIntoOffer, q, a, b
  <2>4. CASE QueryDestination(mid, p, b) # {}
    <3>1. PICK d \in QueryDestination(mid, p, b) : parent' = [mid EXCEPT ![b] = d]
      BY <1>9, <2>4 DEF Moved
    <3>2. Carries(parent', p, b) /\ MayHold(mid, b, d)
      BY <1>14, <3>1
    <3>3. b \in Above(parent', a)
      BY <1>4, <1>12, <1>16, <3>1, <3>2, MoveKeepsBelow
    <3>4. a \in Inside(parent', b)
      BY <1>4, <3>3 DEF Inside
    <3> QED
      BY <2>2, <3>2, <3>4 DEF PutIntoOffer, q, a, b
  <2> QED
    BY <2>3, <2>4
<1> QED
  BY <1>15, <1>16

\* For any nesting of containers, any room and any weights: an accepted trade
\* moves both items or none, although the second move finds inventories that the
\* first one changed and the code looks at neither result; but one offer may be
\* put into the other one.
THEOREM TradeExchangeIsMutual == Spec => ExchangeIsMutual
<1>1. IInv /\ OffersInv /\ RoomKept(parent) =>
          \A p \in Players :
              LET q == tradePartner[p]
              IN  AcceptTrade(p) /\ parent' # parent =>
                      \/ Carries(parent', q, tradeItem[p]) /\ Carries(parent', p, tradeItem[q])
                      \/ PutIntoOffer(p, q)
  BY AcceptIsMutual
<1> QED
  BY <1>1, Invariance, OffersInvariance, RoomInvariance, PTL DEF ExchangeIsMutual
=============================================================================
