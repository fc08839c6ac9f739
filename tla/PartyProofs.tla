---------------------------- MODULE PartyProofs ----------------------------
(***************************************************************************)
(* Proofs about Party, for any players and any addresses. A world (a       *)
(* record of the players' pointers, their invitations and the parties) is  *)
(* looked at one address at a time: AgreesOn says that the players and the *)
(* party there agree, and Loose what of it is left in the middle of        *)
(* Party::leaveParty. An operator that changes one address leaves what     *)
(* AgreesOn says of the others.                                            *)
(***************************************************************************)
EXTENDS Party, SequenceTheorems, TLAPS

(***************************************************************************)
(* The inductive invariant.                                                *)
(***************************************************************************)
\* A party that is not deleted, as a value.
Live ==
    [leader : Players, members : Seq(Players), invited : SUBSET Players,
     points : SUBSET Players, active : BOOLEAN, enabled : BOOLEAN]

InOrder(p) == p.leader \notin ToSet(p.members) /\ IsInjective(p.members)

Sharing(p) ==
    p.active /\ p.enabled => p.members # <<>> /\ Obliged(p) \subseteq p.points

Sound == {p \in Live : InOrder(p) /\ Sharing(p)}

Worlds ==
    [party : [Players -> Parties \cup {NoParty}],
     invitations : [Players -> SUBSET Parties],
     parties : [Parties -> Sound \cup {Deleted}]]

\* Who belongs to party P, who is invited to it, and who knows of it.
AgreesOn(w, on, asked, P) ==
    /\ \A q \in Players :
          /\ w.party[q] = P <=> w.parties[P] # Deleted /\ q \in People(w.parties[P])
          /\ q \in w.parties[P].invited => P \in w.invitations[q] /\ q \in on
          /\ P \in w.invitations[q] => q \in w.parties[P].invited \/ <<q, P>> \in asked
          /\ w.party[q] = P /\ q \in w.parties[P].invited => <<q, P>> \in asked
    /\ w.parties[P] # Deleted => ~IsEmpty(w.parties[P]) /\ People(w.parties[P]) \subseteq on

Agree(w, on, asked) ==
    w \in Worlds /\ \A P \in Parties : AgreesOn(w, on, asked, P)

\* What is left of it before a party disbands.
Loose(w, asked, P) ==
    \A q \in Players :
       /\ w.party[q] = P => q \in People(w.parties[P])
       /\ q \in People(w.parties[P]) => w.party[q] \in {P, NoParty}
       /\ P \in w.invitations[q] => q \in w.parties[P].invited \/ <<q, P>> \in asked

IInv ==
    /\ Agree(World, online, askedSelf)
    /\ online \subseteq Players
    /\ users \in [Parties -> SUBSET online]
    /\ fault => askedSelf # {}

(***************************************************************************)
(* Lists of members.                                                       *)
(***************************************************************************)
\* The element that is found is the only one of its kind, and it alone is erased.
LEMMA ErasedProperties ==
  ASSUME NEW s \in Seq(Players), NEW e, IsInjective(s)
  PROVE  /\ Erased(s, e) \in Seq(Players)
         /\ ToSet(Erased(s, e)) = ToSet(s) \ {e}
         /\ IsInjective(Erased(s, e))
<1>1. CASE e \notin ToSet(s)
  BY <1>1 DEF Erased
<1>2. CASE e \in ToSet(s)
  <2> DEFINE k == CHOOSE i \in DOMAIN s : s[i] = e
             n == Len(s)
             a == SubSeq(s, 1, k - 1)
             b == SubSeq(s, k + 1, n)
             r == a \o b
  <2>1. k \in 1 .. n /\ s[k] = e /\ n \in Nat /\ DOMAIN s = 1 .. n
    BY <1>2 DEF ToSet
  <2>2. Erased(s, e) = r
    BY <1>2 DEF Erased, RemoveAt
  <2> HIDE DEF k
  <2>3. \A i \in 1 .. n : s[i] \in Players
    OBVIOUS
  <2>4. /\ a \in Seq(Players) /\ Len(a) = k - 1
        /\ \A i \in 1 .. k - 1 : a[i] = s[i]
    <3>1. 1 \in Int /\ k - 1 \in Int /\ \A i \in 1 .. k - 1 : s[i] \in Players
      BY <2>1, <2>3
    <3>2. /\ a \in Seq(Players)
          /\ Len(a) = IF 1 <= k - 1 THEN k - 1 - 1 + 1 ELSE 0
          /\ \A i \in 1 .. k - 1 - 1 + 1 : a[i] = s[1 + i - 1]
      BY <3>1, SubSeqProperties
    <3> QED
      BY <2>1, <3>2
  <2>5. /\ b \in Seq(Players) /\ Len(b) = n - k
        /\ \A i \in 1 .. n - k : b[i] = s[k + i]
    <3>1. k + 1 \in Int /\ n \in Int /\ \A i \in k + 1 .. n : s[i] \in Players
      BY <2>1, <2>3
    <3>2. /\ b \in Seq(Players)
          /\ Len(b) = IF k + 1 <= n THEN n - (k + 1) + 1 ELSE 0
          /\ \A i \in 1 .. n - (k + 1) + 1 : b[i] = s[k + 1 + i - 1]
      BY <3>1, SubSeqProperties
    <3> HIDE DEF b, n
    <3>3. n - (k + 1) + 1 = n - k /\ (k + 1 <= n \/ n - k = 0)
      <4>1. k \in Int /\ n \in Int /\ k <= n
        BY <2>1
      <4> QED
        BY <4>1
    <3>4. b \in Seq(Players) /\ Len(b) = n - k
      BY <3>2, <3>3
    <3>5. ASSUME NEW i \in 1 .. n - k
          PROVE  b[i] = s[k + i]
      <4>1. k + 1 + i - 1 = k + i
        BY <2>1
      <4>2. b[i] = s[k + 1 + i - 1]
        BY <3>2, <3>3
      <4> QED
        BY <4>1, <4>2
    <3> QED
      BY <3>4, <3>5
  <2> HIDE DEF a, b
  <2>6. /\ r \in Seq(Players) /\ Len(r) = n - 1 /\ DOMAIN r = 1 .. n - 1
        /\ \A i \in 1 .. n - 1 : r[i] = IF i < k THEN s[i] ELSE s[i + 1]
    <3>1. /\ r \in Seq(Players)
          /\ Len(r) = Len(a) + Len(b)
          /\ \A i \in 1 .. Len(a) + Len(b) : r[i] = IF i <= Len(a) THEN a[i] ELSE b[i - Len(a)]
      BY <2>4, <2>5, ConcatProperties
    <3>2. Len(r) = n - 1
      BY <2>1, <2>4, <2>5, <3>1
    <3>3. ASSUME NEW i \in 1 .. n - 1
          PROVE  r[i] = IF i < k THEN s[i] ELSE s[i + 1]
      <4>1. r[i] = IF i <= k - 1 THEN a[i] ELSE b[i - (k - 1)]
        BY <2>1, <2>4, <2>5, <3>1
      <4>2. i < k => i \in 1 .. k - 1
        BY <2>1
      <4>3. i >= k => i - (k - 1) \in 1 .. n - k /\ k + (i - (k - 1)) = i + 1
        BY <2>1
      <4> QED
        BY <2>1, <2>4, <2>5, <4>1, <4>2, <4>3
    <3> QED
      BY <3>1, <3>2, <3>3
  <2> HIDE DEF r
  <2>7. ToSet(r) = ToSet(s) \ {e}
    <3>1. ASSUME NEW x \in ToSet(r)
          PROVE  x \in ToSet(s) \ {e}
      <4>1. PICK i \in 1 .. n - 1 : x = r[i]
        BY <2>6 DEF ToSet
      <4>2. PICK j \in 1 .. n : x = s[j] /\ j # k
        BY <2>1, <2>6, <4>1
      <4> QED
        BY <2>1, <4>2 DEF IsInjective, ToSet
    <3>2. ASSUME NEW x \in ToSet(s), x # e
          PROVE  x \in ToSet(r)
      <4>1. PICK j \in 1 .. n : x = s[j] /\ j # k
        BY <2>1, <3>2 DEF ToSet
      <4>2. CASE j < k
        BY <2>1, <2>6, <4>1, <4>2 DEF ToSet
      <4>3. CASE j > k
        <5>1. j - 1 \in 1 .. n - 1 /\ r[j - 1] = s[j]
          BY <2>1, <2>6, <4>3
        <5> QED
          BY <2>6, <4>1, <5>1 DEF ToSet
      <4> QED
        BY <2>1, <4>1, <4>2, <4>3
    <3> QED
      BY <3>1, <3>2
  <2>8. IsInjective(r)
    <3> SUFFICES ASSUME NEW i \in 1 .. n - 1, NEW j \in 1 .. n - 1, r[i] = r[j]
                 PROVE  i = j
      BY <2>6 DEF IsInjective
    <3> DEFINE x == IF i < k THEN i ELSE i + 1
               y == IF j < k THEN j ELSE j + 1
    <3>1. x \in 1 .. n /\ y \in 1 .. n /\ s[x] = s[y]
      BY <2>1, <2>6
    <3>2. x = y
      BY <2>1, <3>1 DEF IsInjective
    <3> QED
      BY <2>1, <3>2
  <2> QED
    BY <2>2, <2>6, <2>7, <2>8
<1> QED
  BY <1>1, <1>2

LEMMA PrependProperties ==
  ASSUME NEW s \in Seq(Players), NEW l \in Players, l \notin ToSet(s), IsInjective(s)
  PROVE  /\ <<l>> \o s \in Seq(Players)
         /\ ToSet(<<l>> \o s) = {l} \cup ToSet(s)
         /\ IsInjective(<<l>> \o s)
         /\ <<l>> \o s # <<>>
<1> DEFINE r == <<l>> \o s
           n == Len(s)
<1>1. n \in Nat /\ DOMAIN s = 1 .. n
  OBVIOUS
<1>2. /\ r \in Seq(Players) /\ DOMAIN r = 1 .. n + 1 /\ Len(r) = n + 1
      /\ \A i \in 1 .. n + 1 : r[i] = IF i = 1 THEN l ELSE s[i - 1]
  OBVIOUS
<1> HIDE DEF r
<1>3. ToSet(r) = {l} \cup ToSet(s)
  <2>1. l \in ToSet(r) /\ \A j \in 1 .. n : s[j] \in ToSet(r)
    <3>1. r[1] = l /\ 1 \in 1 .. n + 1 /\ \A j \in 1 .. n : j + 1 \in 1 .. n + 1 /\ r[j + 1] = s[j]
      BY <1>1, <1>2
    <3> QED
      BY <1>2, <3>1 DEF ToSet
  <2>2. \A i \in 1 .. n + 1 : r[i] \in {l} \cup ToSet(s)
    BY <1>1, <1>2 DEF ToSet
  <2> QED
    BY <1>1, <1>2, <2>1, <2>2 DEF ToSet
<1>4. IsInjective(r)
  <2> SUFFICES ASSUME NEW i \in 1 .. n + 1, NEW j \in 1 .. n + 1, r[i] = r[j]
               PROVE  i = j
    BY <1>2 DEF IsInjective
  <2>1. \A x \in 1 .. n : s[x] # l /\ \A y \in 1 .. n : s[x] = s[y] => x = y
    BY <1>1 DEF IsInjective, ToSet
  <2>2. \A x \in 1 .. n + 1 : x # 1 => x - 1 \in 1 .. n /\ r[x] = s[x - 1]
    BY <1>1, <1>2
  <2>3. r[1] = l
    BY <1>1, <1>2
  <2>4. i = 1 <=> j = 1
    BY <2>1, <2>2, <2>3
  <2>5. CASE i # 1
    <3>1. i - 1 \in 1 .. n /\ j - 1 \in 1 .. n /\ s[i - 1] = s[j - 1]
      BY <2>2, <2>4, <2>5
    <3>2. i - 1 = j - 1
      BY <2>1, <3>1
    <3> QED
      BY <1>1, <3>2
  <2> QED
    BY <2>4, <2>5
<1>5. r # <<>>
  BY <1>1, <1>2
<1> QED
  BY <1>2, <1>3, <1>4, <1>5 DEF r

LEMMA AppendedProperties ==
  ASSUME NEW s \in Seq(Players), NEW l \in Players, l \notin ToSet(s), IsInjective(s)
  PROVE  /\ Append(s, l) \in Seq(Players)
         /\ ToSet(Append(s, l)) = ToSet(s) \cup {l}
         /\ IsInjective(Append(s, l))
         /\ Append(s, l) # <<>>
<1> DEFINE r == Append(s, l)
           n == Len(s)
<1>1. n \in Nat /\ DOMAIN s = 1 .. n
  OBVIOUS
<1>2. /\ r \in Seq(Players) /\ DOMAIN r = 1 .. n + 1 /\ Len(r) = n + 1
      /\ \A i \in 1 .. n + 1 : r[i] = IF i = n + 1 THEN l ELSE s[i]
  OBVIOUS
<1> HIDE DEF r
<1>3. ToSet(r) = ToSet(s) \cup {l}
  <2>1. l \in ToSet(r) /\ \A j \in 1 .. n : s[j] \in ToSet(r)
    <3>1. r[n + 1] = l /\ n + 1 \in 1 .. n + 1 /\ \A j \in 1 .. n : j \in 1 .. n + 1 /\ r[j] = s[j]
      BY <1>1, <1>2
    <3> QED
      BY <1>2, <3>1 DEF ToSet
  <2>2. \A i \in 1 .. n + 1 : r[i] \in {l} \cup ToSet(s)
    BY <1>1, <1>2 DEF ToSet
  <2> QED
    BY <1>1, <1>2, <2>1, <2>2 DEF ToSet
<1>4. IsInjective(r)
  <2> SUFFICES ASSUME NEW i \in 1 .. n + 1, NEW j \in 1 .. n + 1, r[i] = r[j]
               PROVE  i = j
    BY <1>2 DEF IsInjective
  <2>1. \A x \in 1 .. n : s[x] # l /\ \A y \in 1 .. n : s[x] = s[y] => x = y
    BY <1>1 DEF IsInjective, ToSet
  <2>2. r[n + 1] = l /\ \A x \in 1 .. n + 1 : x # n + 1 => x \in 1 .. n /\ r[x] = s[x]
    BY <1>1, <1>2
  <2>3. i = n + 1 <=> j = n + 1
    BY <2>1, <2>2
  <2> QED
    BY <2>1, <2>2, <2>3
<1>5. r # <<>>
  BY <1>1, <1>2
<1> QED
  BY <1>2, <1>3, <1>4, <1>5 DEF r

(***************************************************************************)
(* A party as a value.                                                     *)
(***************************************************************************)
LEMMA DeletedFields ==
  /\ Deleted.leader = NoPlayer /\ Deleted.members = <<>> /\ Deleted.invited = {}
  /\ Deleted.points = {} /\ Deleted.active = FALSE /\ Deleted.enabled = FALSE
BY DEF Deleted

LEMMA LiveExists ==
  ASSUME NEW p \in Live
  PROVE  p # Deleted
BY DeletedFields, PartyConstants DEF Live

\* The test of shared experience is made on what the party has become.
LEMMA UpdatedSound ==
  ASSUME NEW p \in Live, InOrder(p), NEW able \in BOOLEAN
  PROVE  /\ Updated(p, able) \in Sound
         /\ Updated(p, able).leader = p.leader
         /\ Updated(p, able).members = p.members
         /\ Updated(p, able).invited = p.invited
<1> DEFINE u == Updated(p, able)
<1>1. CASE ~p.active
  <2>1. u = p
    BY <1>1 DEF Updated
  <2> QED
    BY <1>1, <2>1 DEF Sound, Sharing
<1>2. CASE p.active
  <2>1. u = [p EXCEPT !.enabled = CanShare(p, able)]
    BY <1>2 DEF Updated
  <2>2. CanShare(p, able) \in BOOLEAN
    BY DEF CanShare
  <2> HIDE DEF u
  <2>3. /\ u \in Live /\ u.leader = p.leader /\ u.members = p.members
        /\ u.invited = p.invited /\ u.points = p.points
    BY <2>1, <2>2 DEF Live
  <2>4. u.enabled = CanShare(p, able)
    BY <2>1 DEF Live
  <2>5. InOrder(u) /\ People(u) = People(p)
    BY <2>3 DEF InOrder, People
  <2>6. Sharing(u)
    BY <2>3, <2>4, <2>5 DEF Sharing, CanShare, Obliged
  <2> QED
    BY <2>3, <2>5, <2>6 DEF Sound, u
<1> QED
  BY <1>1, <1>2

\* The leadership passes to a member: the same people, and each of them once.
LEMMA PassedToOrder ==
  ASSUME NEW p \in Live, InOrder(p), NEW h \in ToSet(p.members)
  PROVE  LET u == PassedTo(p, h) IN
         /\ u \in Live /\ InOrder(u)
         /\ u.leader = h
         /\ ToSet(u.members) = {p.leader} \cup (ToSet(p.members) \ {h})
         /\ u.members # <<>>
         /\ u.invited = p.invited
<1> DEFINE e == Erased(p.members, h)
           m == <<p.leader>> \o e
           u == PassedTo(p, h)
<1>1. /\ p.members \in Seq(Players) /\ p.leader \in Players
      /\ IsInjective(p.members) /\ p.leader \notin ToSet(p.members)
  BY DEF Live, InOrder
<1>2. h \in Players
  BY <1>1 DEF ToSet
<1>3. e \in Seq(Players) /\ ToSet(e) = ToSet(p.members) \ {h} /\ IsInjective(e)
  BY <1>1, ErasedProperties
<1> HIDE DEF e
<1>4. /\ m \in Seq(Players) /\ ToSet(m) = {p.leader} \cup ToSet(e)
      /\ IsInjective(m) /\ m # <<>>
  BY <1>1, <1>3, PrependProperties
<1>5. u = [p EXCEPT !.leader = h, !.members = m]
  BY DEF PassedTo, e
<1> HIDE DEF m, u
<1>6. u \in Live /\ u.leader = h /\ u.members = m /\ u.invited = p.invited
  BY <1>2, <1>4, <1>5 DEF Live
<1>7. InOrder(u)
  BY <1>1, <1>3, <1>4, <1>6 DEF InOrder
<1> QED
  BY <1>3, <1>4, <1>6, <1>7 DEF u

LEMMA HeadIsMember ==
  ASSUME NEW s \in Seq(Players), s # <<>>
  PROVE  Head(s) \in ToSet(s)
<1>1. 1 \in DOMAIN s /\ Head(s) = s[1]
  OBVIOUS
<1> QED
  BY <1>1 DEF ToSet

\* Whoever leads after the player has left, only he is gone.
LEMMA WithoutSound ==
  ASSUME NEW p \in Sound, NEW player \in People(p), NEW able \in BOOLEAN
  PROVE  LET u == Without(p, player, able) IN
         /\ u \in Sound
         /\ u.invited = p.invited \ {player}
         /\ ~MissingLeader(p, player) => People(u) = People(p) \ {player}
         /\ MissingLeader(p, player) => People(u) = People(p)
<1> DEFINE i == Inherited(p, player)
           e == Erased(i.members, player)
           v == [i EXCEPT !.members = e, !.invited = @ \ {player}, !.points = @ \ {player}]
           u == Without(p, player, able)
<1>1. /\ p \in Live /\ InOrder(p) /\ p.leader \in Players /\ p.members \in Seq(Players)
      /\ p.leader \notin ToSet(p.members)
  BY DEF Sound, Live, InOrder
<1>2. /\ i \in Live /\ InOrder(i) /\ i.invited = p.invited
      /\ ~MissingLeader(p, player) =>
            i.leader # player /\ {i.leader} \cup (ToSet(i.members) \ {player}) = People(p) \ {player}
      /\ MissingLeader(p, player) => i = p
  <2>1. CASE player = p.leader /\ ~MissingLeader(p, player)
    <3> DEFINE h == Head(p.members)
    <3>1. h \in ToSet(p.members)
      BY <1>1, <2>1, HeadIsMember DEF MissingLeader
    <3>2. i = PassedTo(p, h)
      BY <2>1 DEF Inherited
    <3> HIDE DEF h, i
    <3>3. /\ i \in Live /\ InOrder(i) /\ i.leader = h /\ i.invited = p.invited
          /\ ToSet(i.members) = {p.leader} \cup (ToSet(p.members) \ {h})
      BY <1>1, <3>1, <3>2, PassedToOrder
    <3>4. h # player
      BY <1>1, <2>1, <3>1
    <3>5. {i.leader} \cup (ToSet(i.members) \ {player}) = People(p) \ {player}
      BY <1>1, <2>1, <3>1, <3>3, <3>4 DEF People
    <3> QED
      BY <2>1, <3>3, <3>4, <3>5
  <2>2. CASE ~(player = p.leader /\ ~MissingLeader(p, player))
    <3>1. i = p
      BY <2>2 DEF Inherited
    <3>2. MissingLeader(p, player) <=> player = p.leader
      BY <2>2 DEF MissingLeader
    <3> HIDE DEF i
    <3>3. player # p.leader =>
            {p.leader} \cup (ToSet(p.members) \ {player}) = People(p) \ {player}
      BY DEF People
    <3> QED
      BY <1>1, <3>1, <3>2, <3>3
  <2> QED
    BY <2>1, <2>2
<1>3. u = Updated(v, able)
  BY DEF Without
<1> HIDE DEF i, u
<1>4. i.members \in Seq(Players) /\ IsInjective(i.members)
  BY <1>2 DEF Live, InOrder
<1>5. e \in Seq(Players) /\ ToSet(e) = ToSet(i.members) \ {player} /\ IsInjective(e)
  BY <1>4, ErasedProperties
<1> HIDE DEF e
<1>6. /\ v \in Live /\ v.leader = i.leader /\ v.members = e
      /\ v.invited = i.invited \ {player}
  BY <1>2, <1>5 DEF Live
<1> HIDE DEF v
<1>7. InOrder(v)
  BY <1>2, <1>5, <1>6 DEF InOrder
<1>8. /\ u \in Sound /\ u.leader = v.leader /\ u.members = v.members
      /\ u.invited = v.invited
  BY <1>3, <1>6, <1>7, UpdatedSound
<1>9. People(u) = {i.leader} \cup (ToSet(i.members) \ {player})
  BY <1>5, <1>6, <1>8 DEF People
<1>10. MissingLeader(p, player) => People(u) = People(p)
  BY <1>1, <1>2, <1>9 DEF MissingLeader, People
<1> QED
  BY <1>2, <1>6, <1>8, <1>9, <1>10 DEF u

(***************************************************************************)
(* Worlds, one address at a time.                                          *)
(***************************************************************************)
LEMMA WorldFields ==
  World.party = party /\ World.invitations = invitations /\ World.parties = parties
BY DEF World

LEMMA WorldParts ==
  ASSUME NEW w \in Worlds, NEW q \in Players, NEW P \in Parties
  PROVE  /\ w.party[q] \in Parties \cup {NoParty}
         /\ w.invitations[q] \in SUBSET Parties
         /\ w.parties[P] \in Sound \cup {Deleted}
BY DEF Worlds

\* A place that is not touched.
LEMMA OthersAgree ==
  ASSUME NEW w, NEW v, NEW on, NEW on2, NEW asked, NEW asked2, NEW Q \in Parties,
         AgreesOn(w, on, asked, Q),
         v.parties[Q] = w.parties[Q],
         \A q \in Players :
            /\ v.party[q] = Q <=> w.party[q] = Q
            /\ Q \in v.invitations[q] <=> Q \in w.invitations[q],
         on \subseteq on2, asked \subseteq asked2
  PROVE  AgreesOn(v, on2, asked2, Q)
<1>1. v.parties[Q] # Deleted =>
        ~IsEmpty(v.parties[Q]) /\ People(v.parties[Q]) \subseteq on2
  BY DEF AgreesOn
<1>2. ASSUME NEW q \in Players
      PROVE  /\ v.party[q] = Q <=> v.parties[Q] # Deleted /\ q \in People(v.parties[Q])
             /\ q \in v.parties[Q].invited => Q \in v.invitations[q] /\ q \in on2
             /\ Q \in v.invitations[q] => q \in v.parties[Q].invited \/ <<q, Q>> \in asked2
             /\ v.party[q] = Q /\ q \in v.parties[Q].invited => <<q, Q>> \in asked2
  BY DEF AgreesOn
<1> QED
  BY <1>1, <1>2 DEF AgreesOn

\* Nobody is left with a pointer to a party that disbands, nor with its invitation.
LEMMA DisbandedAgrees ==
  ASSUME NEW w \in Worlds, NEW on, NEW asked, NEW P \in Parties,
         Loose(w, asked, P),
         \A Q \in Parties \ {P} : AgreesOn(w, on, asked, Q)
  PROVE  LET v == Disbanded(w, P) IN
         /\ Agree(v, on, asked)
         /\ \A q \in Players : /\ v.party[q] \in {NoParty, w.party[q]}
                               /\ v.invitations[q] \subseteq w.invitations[q]
<1> DEFINE p == w.parties[P]
           v == Disbanded(w, P)
<1>1. /\ v.party = [q \in Players |-> IF q \in People(p) THEN NoParty ELSE w.party[q]]
      /\ v.invitations =
           [q \in Players |-> w.invitations[q] \ (IF q \in p.invited THEN {P} ELSE {})]
      /\ v.parties = [w.parties EXCEPT ![P] = Deleted]
      /\ v = [party |-> v.party, invitations |-> v.invitations, parties |-> v.parties]
  BY DEF Disbanded
<1> HIDE DEF v
<1>2. v \in Worlds
  <2>1. v.party \in [Players -> Parties \cup {NoParty}]
    BY <1>1, WorldParts
  <2>2. v.invitations \in [Players -> SUBSET Parties]
    BY <1>1, WorldParts
  <2>3. v.parties \in [Parties -> Sound \cup {Deleted}]
    BY <1>1 DEF Worlds
  <2> QED
    BY <1>1, <2>1, <2>2, <2>3 DEF Worlds
<1>3. \A q \in Players : /\ v.party[q] \in {NoParty, w.party[q]}
                         /\ v.invitations[q] \subseteq w.invitations[q]
  BY <1>1
<1>4. AgreesOn(v, on, asked, P)
  <2>1. v.parties[P] = Deleted
    BY <1>1 DEF Worlds
  <2>2. ASSUME NEW q \in Players
        PROVE  v.party[q] # P /\ (P \in v.invitations[q] => <<q, P>> \in asked)
    BY <1>1, PartyConstants DEF Loose
  <2> QED
    BY <2>1, <2>2, DeletedFields DEF AgreesOn
<1>5. ASSUME NEW Q \in Parties, Q # P
      PROVE  AgreesOn(v, on, asked, Q)
  <2>1. v.parties[Q] = w.parties[Q]
    BY <1>1, <1>5 DEF Worlds
  <2>2. ASSUME NEW q \in Players
        PROVE  /\ v.party[q] = Q <=> w.party[q] = Q
               /\ Q \in v.invitations[q] <=> Q \in w.invitations[q]
    <3>1. v.party[q] = IF q \in People(p) THEN NoParty ELSE w.party[q]
      BY <1>1
    <3>2. v.invitations[q] = w.invitations[q] \ (IF q \in p.invited THEN {P} ELSE {})
      BY <1>1
    <3>3. Q # NoParty /\ (q \in People(p) => w.party[q] \in {P, NoParty})
      BY PartyConstants DEF Loose
    <3> QED
      BY <1>5, <3>1, <3>2, <3>3
  <2> QED
    BY <1>5, <2>1, <2>2, OthersAgree
<1> QED
  BY <1>2, <1>3, <1>4, <1>5 DEF Agree, v

LEMMA IfEmptyAgrees ==
  ASSUME NEW w \in Worlds, NEW on, NEW asked, NEW P \in Parties,
         Loose(w, asked, P),
         \A Q \in Parties \ {P} : AgreesOn(w, on, asked, Q),
         ~IsEmpty(w.parties[P]) => AgreesOn(w, on, asked, P)
  PROVE  LET v == IfEmpty(w, P) IN
         /\ Agree(v, on, asked)
         /\ \A q \in Players : /\ v.party[q] \in {NoParty, w.party[q]}
                               /\ v.invitations[q] \subseteq w.invitations[q]
<1>1. CASE IsEmpty(w.parties[P])
  BY <1>1, DisbandedAgrees DEF IfEmpty
<1>2. CASE ~IsEmpty(w.parties[P])
  BY <1>2 DEF IfEmpty, Agree
<1> QED
  BY <1>1, <1>2

\* What is left of a party without the player who leaves it: leader, members and their
\* pointers still match, and it disbands when there is nobody to share with.
LEMMA DepartedAgrees ==
  ASSUME NEW w, NEW on, NEW asked, Agree(w, on, asked), NEW player \in Players,
         w.party[player] # NoParty, NEW able \in BOOLEAN
  PROVE  LET v == Departed(w, player, able) IN
         /\ Agree(v, on, asked)
         /\ v.party[player] = NoParty
         /\ v.invitations[player] \subseteq w.invitations[player]
<1> DEFINE P == w.party[player]
           p == w.parties[P]
           u == Without(p, player, able)
           left == [w EXCEPT !.parties[P] = Without(@, player, able),
                             !.party[player] = NoParty]
           v == Departed(w, player, able)
<1>1. w \in Worlds /\ P \in Parties
  BY DEF Agree, Worlds
<1>2. AgreesOn(w, on, asked, P)
  BY <1>1 DEF Agree
<1>3. p \in Sound /\ player \in People(p)
  BY <1>1, <1>2, WorldParts DEF AgreesOn
<1>4. /\ u \in Sound
      /\ u.invited = p.invited \ {player}
      /\ ~MissingLeader(p, player) => People(u) = People(p) \ {player}
      /\ MissingLeader(p, player) => People(u) = People(p)
  BY <1>3, WithoutSound
<1>5. /\ left.parties = [w.parties EXCEPT ![P] = u]
      /\ left.party = [w.party EXCEPT ![player] = NoParty]
      /\ left.invitations = w.invitations
      /\ left \in Worlds
  <2>1. /\ left.parties = [w.parties EXCEPT ![P] = u]
        /\ left.party = [w.party EXCEPT ![player] = NoParty]
        /\ left.invitations = w.invitations
        /\ left = [w EXCEPT !.parties = [w.parties EXCEPT ![P] = u],
                            !.party = [w.party EXCEPT ![player] = NoParty]]
    BY <1>1 DEF Worlds
  <2> HIDE DEF u
  <2>2. left \in Worlds
    BY <1>1, <1>4, <2>1 DEF Worlds
  <2> QED
    BY <2>1, <2>2
<1>6. v = IF MissingLeader(p, player) THEN Disbanded(left, P) ELSE IfEmpty(left, P)
  BY DEF Departed
<1> HIDE DEF u, left, v
<1>7. /\ left.parties[P] = u
      /\ left.party[player] = NoParty
      /\ \A q \in Players \ {player} : left.party[q] = w.party[q]
      /\ \A Q \in Parties \ {P} : left.parties[Q] = w.parties[Q]
  BY <1>1, <1>5 DEF Worlds
<1> HIDE DEF P
<1>8. \A q \in Players : /\ w.party[q] = P <=> q \in People(p)
                         /\ q \in p.invited => P \in w.invitations[q] /\ q \in on
                         /\ P \in w.invitations[q] => q \in p.invited \/ <<q, P>> \in asked
                         /\ w.party[q] = P /\ q \in p.invited => <<q, P>> \in asked
  BY <1>2, <1>3, LiveExists DEF AgreesOn, Sound
<1>9. w.party[player] = P /\ P # NoParty
  BY DEF P
<1> HIDE DEF p
<1>10. Loose(left, asked, P)
  BY <1>4, <1>5, <1>7, <1>8, <1>9 DEF Loose
<1>11. ASSUME NEW Q \in Parties \ {P}
       PROVE  AgreesOn(left, on, asked, Q)
  <2>1. AgreesOn(w, on, asked, Q)
    BY DEF Agree
  <2>2. \A q \in Players : /\ left.party[q] = Q <=> w.party[q] = Q
                           /\ Q \in left.invitations[q] <=> Q \in w.invitations[q]
    BY <1>5, <1>7, <1>9, PartyConstants
  <2>3. left.parties[Q] = w.parties[Q]
    BY <1>7
  <2> QED
    BY <2>1, <2>2, <2>3, OthersAgree
<1>12. ASSUME ~MissingLeader(p, player), ~IsEmpty(u)
       PROVE  AgreesOn(left, on, asked, P)
  <2>1. People(u) \subseteq on /\ u # Deleted
    BY <1>2, <1>3, <1>4, <1>12, LiveExists DEF AgreesOn, Sound, p
  <2> QED
    BY <1>4, <1>5, <1>7, <1>8, <1>9, <1>12, <2>1 DEF AgreesOn
<1>13. /\ Agree(v, on, asked)
       /\ v.party[player] \in {NoParty, left.party[player]}
       /\ v.invitations[player] \subseteq left.invitations[player]
  <2>1. CASE MissingLeader(p, player)
    BY <1>1, <1>5, <1>6, <1>10, <1>11, <2>1, DisbandedAgrees DEF P
  <2>2. CASE ~MissingLeader(p, player)
    BY <1>1, <1>5, <1>6, <1>7, <1>10, <1>11, <1>12, <2>2, IfEmptyAgrees DEF P
  <2> QED
    BY <2>1, <2>2
<1> QED
  BY <1>5, <1>7, <1>13 DEF v

\* All invitations of a player are declined, and the parties that wait for him alone
\* disband: each of them has nobody but its leader.
LEMMA DeclinedAgrees ==
  ASSUME NEW w, NEW on, NEW asked, Agree(w, on, asked), NEW player \in Players
  PROVE  LET v == Declined(w, player) IN
         Agree(v, on, asked) /\ v.invitations[player] = {}
<1> DEFINE knows == {P \in w.invitations[player] : player \in w.parties[P].invited}
           gone == {P \in knows : w.parties[P].members = <<>> /\ w.parties[P].invited = {player}}
           v == Declined(w, player)
<1>1. /\ v.party = [q \in Players |-> IF w.party[q] \in gone THEN NoParty ELSE w.party[q]]
      /\ v.invitations = [w.invitations EXCEPT ![player] = {}]
      /\ v.parties = [P \in Parties |->
                         IF P \in gone THEN Deleted
                         ELSE IF P \in knows
                         THEN [w.parties[P] EXCEPT !.invited = @ \ {player}]
                         ELSE w.parties[P]]
      /\ v = [party |-> v.party, invitations |-> v.invitations, parties |-> v.parties]
  BY DEF Declined
<1>2. w \in Worlds /\ gone \subseteq knows /\ knows \subseteq Parties
  BY DEF Agree, Worlds
<1>3. \A P \in Parties :
         /\ P \in knows <=> P \in w.invitations[player] /\ player \in w.parties[P].invited
         /\ P \in gone <=> P \in knows /\ w.parties[P].members = <<>>
                                       /\ w.parties[P].invited = {player}
  BY <1>2
<1> HIDE DEF v, knows, gone
<1>4. ASSUME NEW P \in Parties, P \in knows
      PROVE  LET u == [w.parties[P] EXCEPT !.invited = @ \ {player}] IN
             /\ u \in Sound /\ u.leader = w.parties[P].leader
             /\ u.members = w.parties[P].members
             /\ u.invited = w.parties[P].invited \ {player}
  <2> DEFINE p == w.parties[P]
             u == [p EXCEPT !.invited = @ \ {player}]
  <2>1. p \in Sound
    BY <1>2, <1>3, <1>4, WorldParts, DeletedFields
  <2> HIDE DEF p
  <2>2. /\ u \in Live /\ u.leader = p.leader /\ u.members = p.members
        /\ u.invited = p.invited \ {player} /\ u.points = p.points
        /\ u.active = p.active /\ u.enabled = p.enabled
    BY <2>1 DEF Sound, Live
  <2> HIDE DEF u
  <2>3. u \in Sound
    BY <2>1, <2>2 DEF Sound, InOrder, Sharing, People, Obliged
  <2> QED
    BY <2>2, <2>3 DEF u, p
<1>5. v \in Worlds
  <2>1. v.party \in [Players -> Parties \cup {NoParty}]
    BY <1>1, <1>2 DEF Worlds
  <2>2. v.invitations \in [Players -> SUBSET Parties]
    BY <1>1, <1>2 DEF Worlds
  <2>3. v.parties \in [Parties -> Sound \cup {Deleted}]
    BY <1>1, <1>2, <1>4, WorldParts
  <2> QED
    BY <1>1, <2>1, <2>2, <2>3 DEF Worlds
<1>6. /\ v.invitations[player] = {}
      /\ \A q \in Players \ {player} : v.invitations[q] = w.invitations[q]
  BY <1>1, <1>2 DEF Worlds
<1>7. ASSUME NEW P \in Parties
      PROVE  AgreesOn(v, on, asked, P)
  <2> DEFINE p == w.parties[P]
             u == v.parties[P]
  <2>1. AgreesOn(w, on, asked, P)
    BY DEF Agree
  <2>2. P # NoParty
    BY PartyConstants
  <2>3. CASE P \in gone
    <3>1. u = Deleted
      BY <1>1, <2>3
    <3>2. \A q \in Players : v.party[q] # P
      BY <1>1, <2>2, <2>3
    <3>3. p.invited = {player}
      BY <1>3, <2>3
    <3>4. \A q \in Players : P \in v.invitations[q] => <<q, P>> \in asked
      BY <1>6, <2>1, <3>3 DEF AgreesOn
    <3> QED
      BY <3>1, <3>2, <3>4, DeletedFields DEF AgreesOn
  <2>4. CASE P \notin gone
    <3>1. \A q \in Players : v.party[q] = P <=> w.party[q] = P
      BY <1>1, <2>2, <2>4
    <3>2. /\ u.leader = p.leader /\ u.members = p.members
          /\ u.invited = p.invited \ {player}
          /\ p # Deleted <=> u # Deleted
      <4>1. CASE P \in knows
        <5>1. u = [w.parties[P] EXCEPT !.invited = @ \ {player}]
          BY <1>1, <2>4, <4>1
        <5>2. p # Deleted
          BY <1>3, <4>1, DeletedFields
        <5> QED
          BY <1>4, <4>1, <5>1, <5>2, LiveExists DEF Sound
      <4>2. CASE P \notin knows
        <5>1. u = p
          BY <1>1, <2>4, <4>2
        <5>2. player \notin p.invited
          BY <1>3, <2>1, <4>2 DEF AgreesOn
        <5>3. p.invited \ {player} = p.invited
          BY <5>2
        <5> QED
          BY <5>1, <5>3
      <4> QED
        BY <4>1, <4>2
    <3>3. IsEmpty(u) => IsEmpty(p)
      <4>1. IsEmpty(u) => p.members = <<>> /\ p.invited \subseteq {player}
        BY <3>2 DEF IsEmpty
      <4>2. player \in p.invited => P \in knows
        BY <1>3, <2>1 DEF AgreesOn
      <4>3. p.invited \subseteq {player} => p.invited = {} \/ p.invited = {player}
        OBVIOUS
      <4> QED
        BY <1>3, <2>4, <4>1, <4>2, <4>3 DEF IsEmpty
    <3>4. People(u) = People(p)
      BY <3>2 DEF People
    <3> HIDE DEF u, p
    <3>5. u # Deleted => ~IsEmpty(u) /\ People(u) \subseteq on
      BY <2>1, <3>2, <3>3, <3>4 DEF AgreesOn, p
    <3>6. ASSUME NEW q \in Players
          PROVE  /\ v.party[q] = P <=> u # Deleted /\ q \in People(u)
                 /\ q \in u.invited => P \in v.invitations[q] /\ q \in on
                 /\ P \in v.invitations[q] => q \in u.invited \/ <<q, P>> \in asked
                 /\ v.party[q] = P /\ q \in u.invited => <<q, P>> \in asked
      BY <1>6, <2>1, <3>1, <3>2, <3>4 DEF AgreesOn, p
    <3> QED
      BY <3>5, <3>6 DEF AgreesOn, u
  <2> QED
    BY <2>3, <2>4
<1> QED
  BY <1>5, <1>6, <1>7 DEF Agree, v

LEMMA UninvitedAgrees ==
  ASSUME NEW w, NEW on, NEW asked, Agree(w, on, asked), NEW P \in Parties,
         NEW player \in Players, player \in w.parties[P].invited
  PROVE  Agree(Uninvited(w, player, P), on, asked)
<1> DEFINE p == w.parties[P]
           u == [p EXCEPT !.invited = @ \ {player}]
           left == [w EXCEPT !.parties[P].invited = @ \ {player},
                             !.invitations[player] = @ \ {P}]
<1>1. w \in Worlds /\ AgreesOn(w, on, asked, P)
  BY DEF Agree
<1>2. p \in Sound /\ p # Deleted
  BY <1>1, WorldParts, DeletedFields
<1>3. /\ u \in Live /\ u.leader = p.leader /\ u.members = p.members
      /\ u.invited = p.invited \ {player} /\ u.points = p.points
      /\ u.active = p.active /\ u.enabled = p.enabled
  BY <1>2 DEF Sound, Live
<1>4. /\ left.parties = [w.parties EXCEPT ![P] = u]
      /\ left.party = w.party
      /\ left.invitations = [w.invitations EXCEPT ![player] = @ \ {P}]
      /\ left = [w EXCEPT !.parties = [w.parties EXCEPT ![P] = u],
                          !.invitations = [w.invitations EXCEPT ![player] = @ \ {P}]]
  BY <1>1 DEF Worlds
<1> HIDE DEF u
<1>5. u \in Sound
  BY <1>2, <1>3 DEF Sound, InOrder, Sharing, People, Obliged
<1>6. left \in Worlds
  BY <1>1, <1>4, <1>5 DEF Worlds
<1>7. /\ left.parties[P] = u
      /\ \A Q \in Parties \ {P} : left.parties[Q] = w.parties[Q]
      /\ left.invitations[player] = w.invitations[player] \ {P}
      /\ \A q \in Players \ {player} : left.invitations[q] = w.invitations[q]
  BY <1>1, <1>4 DEF Worlds
<1>8. Uninvited(w, player, P) = IfEmpty(left, P)
  BY DEF Uninvited
<1> HIDE DEF left, p
<1>9. People(u) = People(p)
  BY <1>3 DEF People
<1>10. \A q \in Players : /\ w.party[q] = P <=> q \in People(p)
                          /\ q \in p.invited => P \in w.invitations[q] /\ q \in on
                          /\ P \in w.invitations[q] => q \in p.invited \/ <<q, P>> \in asked
                          /\ w.party[q] = P /\ q \in p.invited => <<q, P>> \in asked
  BY <1>1, <1>2 DEF AgreesOn, p
<1>11. Loose(left, asked, P)
  BY <1>3, <1>4, <1>7, <1>9, <1>10 DEF Loose
<1>12. ASSUME NEW Q \in Parties \ {P}
       PROVE  AgreesOn(left, on, asked, Q)
  <2>1. AgreesOn(w, on, asked, Q)
    BY DEF Agree
  <2>2. \A q \in Players : /\ left.party[q] = Q <=> w.party[q] = Q
                           /\ Q \in left.invitations[q] <=> Q \in w.invitations[q]
    BY <1>4, <1>7
  <2>3. left.parties[Q] = w.parties[Q]
    BY <1>7
  <2> QED
    BY <2>1, <2>2, <2>3, OthersAgree
<1>13. ASSUME ~IsEmpty(u)
       PROVE  AgreesOn(left, on, asked, P)
  <2>1. People(u) \subseteq on /\ u # Deleted
    BY <1>1, <1>2, <1>5, <1>9, LiveExists DEF AgreesOn, Sound, p
  <2> QED
    BY <1>3, <1>4, <1>7, <1>9, <1>10, <1>13, <2>1 DEF AgreesOn
<1> QED
  BY <1>6, <1>7, <1>8, <1>11, <1>12, <1>13, IfEmptyAgrees

\* A party that changes neither its people nor its invitations.
LEMMA SamePeopleAgree ==
  ASSUME NEW w, NEW v, NEW on, NEW asked, Agree(w, on, asked), NEW P \in Parties,
         w.parties[P] # Deleted,
         NEW u \in Sound, People(u) = People(w.parties[P]), ~IsEmpty(u),
         u.invited = w.parties[P].invited,
         v = [w EXCEPT !.parties = [w.parties EXCEPT ![P] = u]]
  PROVE  Agree(v, on, asked)
<1>1. w \in Worlds /\ AgreesOn(w, on, asked, P)
  BY DEF Agree
<1>2. /\ v \in Worlds /\ v.party = w.party /\ v.invitations = w.invitations
      /\ v.parties[P] = u
      /\ \A Q \in Parties \ {P} : v.parties[Q] = w.parties[Q]
  BY <1>1 DEF Worlds
<1>3. ASSUME NEW Q \in Parties \ {P}
      PROVE  AgreesOn(v, on, asked, Q)
  <2>1. AgreesOn(w, on, asked, Q)
    BY DEF Agree
  <2> QED
    BY <1>2, <2>1, OthersAgree
<1>4. u # Deleted
  BY LiveExists DEF Sound
<1>5. AgreesOn(v, on, asked, P)
  BY <1>1, <1>2, <1>4 DEF AgreesOn
<1> QED
  BY <1>2, <1>3, <1>5 DEF Agree

\* One address changes, and the rest is as it was.
LEMMA OneChangedAgree ==
  ASSUME NEW w, NEW v \in Worlds, NEW on, NEW asked, NEW asked2,
         Agree(w, on, asked), asked \subseteq asked2, NEW P \in Parties,
         \A Q \in Parties \ {P} :
            /\ v.parties[Q] = w.parties[Q]
            /\ \A q \in Players : /\ v.party[q] = Q <=> w.party[q] = Q
                                  /\ Q \in v.invitations[q] <=> Q \in w.invitations[q],
         AgreesOn(v, on, asked2, P)
  PROVE  Agree(v, on, asked2)
<1>1. ASSUME NEW Q \in Parties \ {P}
      PROVE  AgreesOn(v, on, asked2, Q)
  <2>1. AgreesOn(w, on, asked, Q) /\ v.parties[Q] = w.parties[Q]
    BY DEF Agree
  <2>2. ASSUME NEW q \in Players
        PROVE  /\ v.party[q] = Q <=> w.party[q] = Q
               /\ Q \in v.invitations[q] <=> Q \in w.invitations[q]
    BY Zenon
  <2> QED
    BY <2>1, <2>2, OthersAgree
<1> QED
  BY <1>1 DEF Agree

(***************************************************************************)
(* Every step keeps the invariant.                                         *)
(***************************************************************************)
LEMMA InitialInvariant == Init => IInv
<1> SUFFICES ASSUME Init
             PROVE  IInv
  OBVIOUS
<1> DEFINE w == World
<1>1. /\ w.party = [p \in Players |-> NoParty]
      /\ w.invitations = [p \in Players |-> {}]
      /\ w.parties = [P \in Parties |-> Deleted]
      /\ w = [party |-> w.party, invitations |-> w.invitations, parties |-> w.parties]
  BY DEF World, Init
<1> HIDE DEF w
<1>2. w \in Worlds
  BY <1>1 DEF Worlds
<1>3. ASSUME NEW P \in Parties
      PROVE  AgreesOn(w, online, askedSelf, P)
  BY <1>1, PartyConstants, DeletedFields DEF AgreesOn
<1> QED
  BY <1>2, <1>3 DEF IInv, Agree, Init, w

LEMMA InvitedToParty ==
  ASSUME IInv, ~fault, NEW player \in Players, NEW invited \in Players,
         InviteToParty(player, invited)
  PROVE  IInv'
<1> DEFINE w == World
           v == World'
<1>1. /\ w.party = party /\ w.invitations = invitations /\ w.parties = parties
      /\ v.party = party' /\ v.invitations = invitations' /\ v.parties = parties'
      /\ v = [party |-> v.party, invitations |-> v.invitations, parties |-> v.parties]
  BY DEF World
<1> HIDE DEF w, v
<1>2. Agree(w, online, askedSelf) /\ w \in Worlds
  BY DEF IInv, Agree, w
<1>3. /\ invited \in online /\ party[invited] = NoParty
      /\ online' = online /\ users' = users /\ fault' = fault
  BY DEF InviteToParty
<1>4. PICK P \in Parties :
        /\ IF party[player] = NoParty
           THEN /\ ~Exists(P)
                /\ parties' = [parties EXCEPT ![P] = [NewParty(player) EXCEPT !.invited = {invited}]]
                /\ party' = [party EXCEPT ![player] = P]
           ELSE /\ P = party[player]
                /\ parties[P].leader = player
                /\ invited \notin parties[P].invited
                /\ parties' = [parties EXCEPT ![P].invited = @ \cup {invited}]
                /\ UNCHANGED party
        /\ invitations' = [invitations EXCEPT ![invited] = @ \cup {P}]
        /\ askedSelf' = IF player = invited THEN askedSelf \cup {<<player, P>>} ELSE askedSelf
  BY DEF InviteToParty
<1>5. /\ askedSelf \subseteq askedSelf'
      /\ player = invited => <<player, P>> \in askedSelf'
  BY <1>4
<1>6. AgreesOn(w, online, askedSelf, P) /\ w.parties[P] \in Sound \cup {Deleted}
  BY <1>2, WorldParts DEF Agree
<1>7. /\ v.invitations \in [Players -> SUBSET Parties]
      /\ v.invitations[invited] = w.invitations[invited] \cup {P}
      /\ \A q \in Players \ {invited} : v.invitations[q] = w.invitations[q]
  BY <1>1, <1>2, <1>4 DEF Worlds
<1>8. PICK u \in Sound :
        /\ v.parties = [w.parties EXCEPT ![P] = u]
        /\ v.party \in [Players -> Parties \cup {NoParty}]
        /\ \A q \in Players : v.party[q] \in {w.party[q], P}
        /\ \A q \in Players : v.party[q] # w.party[q] => w.party[q] = NoParty
        /\ \A q \in Players : v.party[q] = P <=> q \in People(u)
        /\ v.party[invited] = P => player = invited
        /\ u.invited = w.parties[P].invited \cup {invited}
        /\ People(u) \subseteq online
        /\ w.parties[P].invited = {} \/ v.party = w.party
  <2>1. CASE party[player] = NoParty
    <3> DEFINE u == [NewParty(player) EXCEPT !.invited = {invited}]
    <3>1. /\ u.leader = player /\ u.members = <<>> /\ u.invited = {invited}
          /\ u.points = {} /\ u.active = FALSE /\ u.enabled = FALSE
          /\ u \in Live
      <4>1. <<>> \in Seq(Players)
        OBVIOUS
      <4> QED
        BY <4>1 DEF NewParty, Deleted, Live
    <3>2. v.parties = [w.parties EXCEPT ![P] = u] /\ w.parties[P] = Deleted
      BY <1>1, <1>4, <2>1 DEF Exists
    <3> HIDE DEF u
    <3>3. u \in Sound /\ People(u) = {player}
      BY <3>1 DEF Sound, InOrder, Sharing, People, IsInjective, ToSet
    <3>4. v.party = [w.party EXCEPT ![player] = P]
      BY <1>1, <1>4, <2>1
    <3>5. \A q \in Players : w.party[q] # P
      BY <1>6, <3>2 DEF AgreesOn
    <3>6. /\ v.party \in [Players -> Parties \cup {NoParty}]
          /\ v.party[player] = P
          /\ \A q \in Players \ {player} : v.party[q] = w.party[q]
      BY <1>2, <3>4 DEF Worlds
    <3>7. u.invited = w.parties[P].invited \cup {invited}
      BY <3>1, <3>2, DeletedFields
    <3>8. player \in online /\ w.party[player] = NoParty
      BY <1>1, <2>1 DEF InviteToParty
    <3> QED
      <4>1. w.parties[P].invited = {}
        BY <3>2, DeletedFields
      <4>2. \A q \in Players : v.party[q] = P <=> q \in People(u)
        BY <3>3, <3>5, <3>6
      <4>3. People(u) \subseteq online
        BY <3>3, <3>8
      <4> QED
        BY <3>2, <3>3, <3>6, <3>7, <3>8, <4>1, <4>2, <4>3
  <2>2. CASE party[player] # NoParty
    <3> DEFINE p == w.parties[P]
               u == [p EXCEPT !.invited = p.invited \cup {invited}]
    <3>1. /\ P = w.party[player] /\ p.leader = player
          /\ v.parties = [w.parties EXCEPT ![P] = u]
          /\ v.party = w.party
      BY <1>1, <1>2, <1>4, <2>2 DEF Worlds
    <3>2. p # Deleted /\ p \in Sound
      BY <1>6, <3>1, DeletedFields, PartyConstants
    <3> HIDE DEF p
    <3>3. /\ u \in Live /\ u.leader = p.leader /\ u.members = p.members
          /\ u.invited = p.invited \cup {invited} /\ u.points = p.points
          /\ u.active = p.active /\ u.enabled = p.enabled
      BY <3>2 DEF Sound, Live
    <3> HIDE DEF u
    <3>4. u \in Sound /\ People(u) = People(p)
      BY <3>2, <3>3 DEF Sound, InOrder, Sharing, People, Obliged
    <3>5. (\A q \in Players : w.party[q] = P <=> q \in People(p)) /\ People(p) \subseteq online
      BY <1>6, <3>2 DEF AgreesOn, p
    <3>6. v.party \in [Players -> Parties \cup {NoParty}]
      BY <1>2, <3>1 DEF Worlds
    <3>7. v.party[invited] # P
      BY <1>1, <1>3, <3>1, PartyConstants
    <3>8. /\ \A q \in Players : v.party[q] = P <=> q \in People(u)
          /\ u.invited = w.parties[P].invited \cup {invited}
          /\ People(u) \subseteq online
      BY <3>1, <3>3, <3>4, <3>5 DEF p
    <3> QED
      BY <3>1, <3>4, <3>6, <3>7, <3>8
  <2> QED
    BY <2>1, <2>2
<1>9. /\ v.parties \in [Parties -> Sound \cup {Deleted}]
      /\ v.parties[P] = u
      /\ \A Q \in Parties \ {P} : v.parties[Q] = w.parties[Q]
  BY <1>2, <1>8 DEF Worlds
<1>10. v \in Worlds
  BY <1>1, <1>7, <1>8, <1>9 DEF Worlds
<1>11. AgreesOn(v, online, askedSelf', P)
  <2>1. u # Deleted /\ ~IsEmpty(u) /\ People(u) \subseteq online
    BY <1>8, LiveExists DEF Sound, IsEmpty
  <2>2. ASSUME NEW q \in Players
        PROVE  /\ v.party[q] = P <=> q \in People(u)
               /\ q \in u.invited => P \in v.invitations[q] /\ q \in online
               /\ P \in v.invitations[q] => q \in u.invited \/ <<q, P>> \in askedSelf'
               /\ v.party[q] = P /\ q \in u.invited => <<q, P>> \in askedSelf'
    <3>1. CASE q = invited
      BY <1>3, <1>5, <1>7, <1>8, <3>1
    <3>2. CASE q # invited
      <4>1. v.invitations[q] = w.invitations[q] /\ (q \in u.invited <=> q \in w.parties[P].invited)
        BY <1>7, <1>8, <3>2
      <4>2. /\ q \in w.parties[P].invited => P \in w.invitations[q] /\ q \in online
            /\ P \in w.invitations[q] => q \in w.parties[P].invited \/ <<q, P>> \in askedSelf
            /\ w.party[q] = P /\ q \in w.parties[P].invited => <<q, P>> \in askedSelf
        BY <1>6 DEF AgreesOn
      <4>3. v.party[q] = P /\ q \in u.invited => w.party[q] = P
        BY <1>6, <1>8, <4>1 DEF AgreesOn
      <4> QED
        BY <1>5, <1>8, <4>1, <4>2, <4>3
    <3> QED
      BY <3>1, <3>2
  <2> QED
    BY <1>9, <2>1, <2>2 DEF AgreesOn
<1>12. ASSUME NEW Q \in Parties \ {P}
       PROVE  /\ v.parties[Q] = w.parties[Q]
              /\ \A q \in Players : /\ v.party[q] = Q <=> w.party[q] = Q
                                    /\ Q \in v.invitations[q] <=> Q \in w.invitations[q]
  BY <1>7, <1>8, <1>9, PartyConstants
<1>13. Agree(v, online, askedSelf')
  BY <1>2, <1>5, <1>10, <1>11, <1>12, OneChangedAgree
<1> QED
  BY <1>3, <1>13 DEF IInv, v

\* The party of a player becomes x and then looks at shared experience again.
LEMMA OwnPartyUpdated ==
  ASSUME IInv, NEW player \in Players, party[player] # NoParty,
         NEW x \in Live, NEW able \in BOOLEAN, InOrder(x),
         People(x) = People(parties[party[player]]),
         x.invited = parties[party[player]].invited,
         x.members = <<>> => parties[party[player]].members = <<>>,
         parties' = [parties EXCEPT ![party[player]] = Updated(x, able)],
         party' = party, invitations' = invitations, askedSelf' = askedSelf,
         online' = online, users' = users, fault' = fault
  PROVE  IInv'
<1> DEFINE w == World
           v == World'
           P == party[player]
           u == Updated(x, able)
<1>1. /\ w.party = party /\ w.invitations = invitations /\ w.parties = parties
      /\ v = [w EXCEPT !.parties = [w.parties EXCEPT ![P] = u]]
  BY DEF World
<1>2. Agree(w, online, askedSelf) /\ w \in Worlds
  BY DEF IInv, Agree
<1> HIDE DEF w, v
<1>3. P \in Parties
  BY <1>1, <1>2 DEF Worlds
<1>4. u \in Sound /\ u.leader = x.leader /\ u.members = x.members /\ u.invited = x.invited
  BY UpdatedSound
<1>5. AgreesOn(w, online, askedSelf, P)
  BY <1>2, <1>3 DEF Agree
<1>6. parties[P] # Deleted /\ ~IsEmpty(parties[P])
  BY <1>1, <1>5 DEF AgreesOn
<1> HIDE DEF u, P
<1>7. People(u) = People(parties[P]) /\ ~IsEmpty(u) /\ u.invited = parties[P].invited
  BY <1>4, <1>6 DEF People, IsEmpty, P
<1>8. Agree(v, online, askedSelf)
  BY <1>1, <1>2, <1>3, <1>4, <1>6, <1>7, SamePeopleAgree
<1> QED
  BY <1>8 DEF IInv, v

\* The party of a player, as the requests find it.
LEMMA OwnParty ==
  ASSUME IInv, NEW player \in Players, party[player] # NoParty
  PROVE  /\ party[player] \in Parties
         /\ parties[party[player]] \in Live /\ InOrder(parties[party[player]])
<1> DEFINE P == party[player]
<1>1. World \in Worlds /\ \A Q \in Parties : AgreesOn(World, online, askedSelf, Q)
  BY DEF IInv, Agree
<1>2. P \in Parties /\ parties \in [Parties -> Sound \cup {Deleted}]
  BY <1>1, WorldFields DEF Worlds
<1>3. parties[P] # Deleted
  BY <1>1, <1>2, WorldFields DEF AgreesOn
<1> QED
  BY <1>2, <1>3 DEF Sound

LEMMA LeadershipPassed ==
  ASSUME IInv, NEW player \in Players, NEW newLeader \in Players,
         PassLeadership(player, newLeader)
  PROVE  IInv'
<1> DEFINE p == parties[party[player]]
           x == PassedTo(p, newLeader)
<1>1. party[player] # NoParty /\ newLeader \in ToSet(p.members)
  BY DEF PassLeadership, InParty
<1>2. PICK able \in BOOLEAN : parties' = [parties EXCEPT ![party[player]] = Updated(x, able)]
  BY DEF PassLeadership
<1>3. p \in Live /\ InOrder(p)
  BY <1>1, OwnParty
<1>4. /\ x \in Live /\ InOrder(x) /\ x.leader = newLeader
      /\ ToSet(x.members) = {p.leader} \cup (ToSet(p.members) \ {newLeader})
      /\ x.members # <<>> /\ x.invited = p.invited
  BY <1>1, <1>3, PassedToOrder
<1> HIDE DEF x
<1>5. People(x) = People(p)
  BY <1>1, <1>4 DEF People
<1> QED
  BY <1>1, <1>2, <1>4, <1>5, OwnPartyUpdated DEF PassLeadership

LEMMA SharedExperienceSet ==
  ASSUME IInv, NEW player \in Players, NEW on \in BOOLEAN,
         SetSharedExperience(player, on)
  PROVE  IInv'
<1> DEFINE p == parties[party[player]]
           x == [p EXCEPT !.active = on]
<1>1. party[player] # NoParty
  BY DEF SetSharedExperience, InParty
<1>2. p \in Live /\ InOrder(p) /\ party[player] \in Parties
  BY <1>1, OwnParty
<1>3. PICK able \in BOOLEAN : parties' = [parties EXCEPT ![party[player]] = Updated(x, able)]
  BY DEF SetSharedExperience
<1>4. /\ x \in Live /\ x.leader = p.leader /\ x.members = p.members
      /\ x.invited = p.invited
  BY <1>2 DEF Live
<1> HIDE DEF x
<1>5. InOrder(x) /\ People(x) = People(p)
  BY <1>2, <1>4 DEF InOrder, People
<1> QED
  BY <1>1, <1>3, <1>4, <1>5, OwnPartyUpdated DEF SetSharedExperience

LEMMA PointsChanged ==
  ASSUME IInv, NEW player \in Players, EarnPoints(player) \/ BecomeIdle(player)
  PROVE  IInv'
<1> DEFINE p == parties[party[player]]
<1>1. party[player] # NoParty
  BY DEF EarnPoints, BecomeIdle, InParty
<1>2. p \in Live /\ InOrder(p) /\ party[player] \in Parties
  BY <1>1, OwnParty
<1>3. PICK able \in BOOLEAN, points \in SUBSET Players :
         parties' = [parties EXCEPT ![party[player]] =
                        Updated([p EXCEPT !.points = points], able)]
  <2>1. CASE EarnPoints(player)
    <3>1. PICK able \in BOOLEAN :
             parties' = [parties EXCEPT ![party[player]] =
                            Updated([p EXCEPT !.points = p.points \cup {player}], able)]
      BY <2>1 DEF EarnPoints
    <3>2. p.points \cup {player} \in SUBSET Players
      BY <1>2 DEF Live
    <3> QED
      BY <3>1, <3>2
  <2>2. CASE BecomeIdle(player)
    <3>1. PICK able \in BOOLEAN :
             parties' = [parties EXCEPT ![party[player]] =
                            Updated([p EXCEPT !.points = p.points \ {player}], able)]
      BY <2>2 DEF BecomeIdle
    <3>2. p.points \ {player} \in SUBSET Players
      BY <1>2 DEF Live
    <3> QED
      BY <3>1, <3>2
  <2> QED
    BY <2>1, <2>2
<1> DEFINE x == [p EXCEPT !.points = points]
<1>4. /\ x \in Live /\ x.leader = p.leader /\ x.members = p.members
      /\ x.invited = p.invited
  BY <1>2 DEF Live
<1> HIDE DEF x
<1>5. InOrder(x) /\ People(x) = People(p)
  BY <1>2, <1>4 DEF InOrder, People
<1>6. parties' = [parties EXCEPT ![party[player]] = Updated(x, able)]
  BY <1>3 DEF x
<1> QED
  BY <1>1, <1>4, <1>5, <1>6, OwnPartyUpdated DEF EarnPoints, BecomeIdle

LEMMA MovedOrAdvanced ==
  ASSUME IInv, NEW player \in Players, MoveOrAdvance(player)
  PROVE  IInv'
<1> DEFINE p == parties[party[player]]
<1>1. party[player] # NoParty
  BY DEF MoveOrAdvance, InParty
<1>2. p \in Live /\ InOrder(p) /\ party[player] \in Parties
  BY <1>1, OwnParty
<1>3. PICK able \in BOOLEAN : parties' = [parties EXCEPT ![party[player]] = Updated(p, able)]
  BY DEF MoveOrAdvance
<1> QED
  BY <1>1, <1>2, <1>3, OwnPartyUpdated DEF MoveOrAdvance

LEMMA JoinedParty ==
  ASSUME IInv, NEW player \in Players, NEW leader \in Players, JoinParty(player, leader)
  PROVE  IInv'
<1> DEFINE w == World
           v == World'
           P == party[leader]
           p == parties[P]
           x == [p EXCEPT !.members = Append(@, player), !.invited = @ \ {player}]
<1>1. /\ player \in online /\ party[player] = NoParty
      /\ P # NoParty /\ player \in p.invited
      /\ party' = [party EXCEPT ![player] = P]
      /\ invitations' = [invitations EXCEPT ![player] = @ \ {P}]
      /\ UNCHANGED <<online, users, askedSelf, fault>>
  BY DEF JoinParty, Inviting
<1>2. PICK able \in BOOLEAN : parties' = [parties EXCEPT ![P] = Updated(x, able)]
  BY DEF JoinParty
<1>3. P \in Parties /\ p \in Live /\ InOrder(p)
  BY <1>1, OwnParty
<1>4. /\ w.party = party /\ w.invitations = invitations /\ w.parties = parties
      /\ v.party = party' /\ v.invitations = invitations' /\ v.parties = parties'
      /\ v = [party |-> v.party, invitations |-> v.invitations, parties |-> v.parties]
  BY DEF World
<1>5. Agree(w, online, askedSelf) /\ w \in Worlds
  BY DEF IInv, Agree
<1> HIDE DEF w, v
<1>6. AgreesOn(w, online, askedSelf, P)
  BY <1>3, <1>5 DEF Agree
<1>7. /\ \A q \in Players : /\ party[q] = P <=> q \in People(p)
                            /\ q \in p.invited => P \in invitations[q] /\ q \in online
                            /\ P \in invitations[q] => q \in p.invited \/ <<q, P>> \in askedSelf
                            /\ party[q] = P /\ q \in p.invited => <<q, P>> \in askedSelf
      /\ People(p) \subseteq online
  BY <1>3, <1>4, <1>6, LiveExists DEF AgreesOn
<1>8. p.members \in Seq(Players) /\ IsInjective(p.members) /\ player \notin ToSet(p.members)
      /\ player # p.leader
  BY <1>1, <1>3, <1>7 DEF Live, InOrder, People
<1>9. /\ Append(p.members, player) \in Seq(Players)
      /\ ToSet(Append(p.members, player)) = ToSet(p.members) \cup {player}
      /\ IsInjective(Append(p.members, player))
      /\ Append(p.members, player) # <<>>
  BY <1>8, AppendedProperties
<1>10. /\ x \in Live /\ x.leader = p.leader /\ x.members = Append(p.members, player)
       /\ x.invited = p.invited \ {player}
  BY <1>3, <1>9 DEF Live
<1> HIDE DEF x
<1>11. InOrder(x)
  BY <1>3, <1>8, <1>9, <1>10 DEF InOrder
<1> DEFINE u == Updated(x, able)
<1>12. /\ u \in Sound /\ u.leader = x.leader /\ u.members = x.members
       /\ u.invited = x.invited
  BY <1>10, <1>11, UpdatedSound
<1>13. v.parties = [w.parties EXCEPT ![P] = u]
  BY <1>2, <1>4
<1> HIDE DEF u, P, p
<1>14. People(u) = People(p) \cup {player} /\ ~IsEmpty(u) /\ u # Deleted
  BY <1>9, <1>10, <1>12, LiveExists DEF People, IsEmpty, Sound
<1>15. /\ v \in Worlds /\ v.parties[P] = u
       /\ \A Q \in Parties \ {P} : v.parties[Q] = w.parties[Q]
       /\ v.party[player] = P /\ v.invitations[player] = w.invitations[player] \ {P}
       /\ \A q \in Players \ {player} : v.party[q] = w.party[q] /\ v.invitations[q] = w.invitations[q]
  <2>1. v.party \in [Players -> Parties \cup {NoParty}]
    BY <1>1, <1>3, <1>4, <1>5 DEF Worlds
  <2>2. v.invitations \in [Players -> SUBSET Parties]
    BY <1>1, <1>4, <1>5 DEF Worlds
  <2>3. v.parties \in [Parties -> Sound \cup {Deleted}]
    BY <1>5, <1>12, <1>13 DEF Worlds
  <2>4. v \in Worlds
    BY <1>4, <2>1, <2>2, <2>3 DEF Worlds
  <2> QED
    BY <1>1, <1>3, <1>4, <1>5, <1>13, <2>4 DEF Worlds
<1>16. AgreesOn(v, online, askedSelf, P)
  <2>1. ASSUME NEW q \in Players
        PROVE  /\ v.party[q] = P <=> q \in People(u)
               /\ q \in u.invited => P \in v.invitations[q] /\ q \in online
               /\ P \in v.invitations[q] => q \in u.invited \/ <<q, P>> \in askedSelf
               /\ v.party[q] = P /\ q \in u.invited => <<q, P>> \in askedSelf
    <3>1. CASE q = player
      BY <1>10, <1>12, <1>14, <1>15, <3>1
    <3>2. CASE q # player
      BY <1>4, <1>7, <1>10, <1>12, <1>14, <1>15, <3>2
    <3> QED
      BY <3>1, <3>2
  <2>2. People(u) \subseteq online
    BY <1>1, <1>7, <1>14
  <2> QED
    BY <1>14, <1>15, <2>1, <2>2 DEF AgreesOn
<1>17. ASSUME NEW Q \in Parties \ {P}
       PROVE  /\ v.parties[Q] = w.parties[Q]
              /\ \A q \in Players : /\ v.party[q] = Q <=> w.party[q] = Q
                                    /\ Q \in v.invitations[q] <=> Q \in w.invitations[q]
  <2>1. ASSUME NEW q \in Players
        PROVE  /\ v.party[q] = Q <=> w.party[q] = Q
               /\ Q \in v.invitations[q] <=> Q \in w.invitations[q]
    BY <1>1, <1>4, <1>15, PartyConstants
  <2> QED
    BY <1>15, <2>1
<1>18. Agree(v, online, askedSelf)
  BY <1>3, <1>5, <1>15, <1>16, <1>17, OneChangedAgree
<1> QED
  BY <1>1, <1>18 DEF IInv, v

\* A request whose outcome is the world v.
LEMMA WorldReplaced ==
  ASSUME IInv, NEW v, Agree(v, online, askedSelf), Becomes(v),
         UNCHANGED <<online, users, askedSelf, fault>>
  PROVE  IInv'
<1>1. v = [party |-> v.party, invitations |-> v.invitations, parties |-> v.parties]
  BY DEF Agree, Worlds
<1>2. World' = v
  BY <1>1 DEF Becomes, World
<1> QED
  BY <1>2 DEF IInv

LEMMA InvitationRevoked ==
  ASSUME IInv, NEW player \in Players, NEW invited \in Players,
         RevokeInvitation(player, invited)
  PROVE  IInv'
<1> DEFINE P == party[player]
           v == Uninvited(World, invited, P)
<1>1. P # NoParty /\ invited \in parties[P].invited
  BY DEF RevokeInvitation, Inviting
<1>2. P \in Parties
  BY <1>1, OwnParty
<1>3. Agree(v, online, askedSelf)
  <2>1. Agree(World, online, askedSelf) /\ invited \in World.parties[P].invited
    BY <1>1, WorldFields DEF IInv
  <2> QED
    BY <1>2, <2>1, UninvitedAgrees
<1>4. Becomes(v) /\ UNCHANGED <<online, users, askedSelf, fault>>
  BY DEF RevokeInvitation
<1> QED
  BY <1>3, <1>4, WorldReplaced

LEMMA PartyLeft ==
  ASSUME IInv, NEW player \in Players, LeaveParty(player)
  PROVE  IInv'
<1>1. PICK able \in BOOLEAN : Becomes(Departed(World, player, able))
  BY DEF LeaveParty
<1>2. Agree(World, online, askedSelf) /\ World.party[player] # NoParty
  BY WorldFields DEF IInv, LeaveParty, InParty
<1>3. Agree(Departed(World, player, able), online, askedSelf)
  BY <1>2, DepartedAgrees
<1>4. UNCHANGED <<online, users, askedSelf, fault>>
  BY DEF LeaveParty
<1> QED
  BY <1>1, <1>3, <1>4, WorldReplaced

LEMMA ChannelChanged ==
  ASSUME IInv, NEW player \in Players,
         RequestChannels(player) \/ OpenChannel(player) \/ CloseChannel(player)
  PROVE  IInv'
<1>1. UNCHANGED <<online, party, invitations, parties, askedSelf, fault>>
  BY DEF RequestChannels, OpenChannel, CloseChannel, partyVars
<1>2. users' \in [Parties -> SUBSET online]
  BY DEF IInv, RequestChannels, OpenChannel, CloseChannel
<1>3. World' = World
  BY <1>1 DEF World
<1> QED
  BY <1>1, <1>2, <1>3 DEF IInv

\* Who is in the game, and the users of channels, may grow.
LEMMA LoggedInOrTakenOver ==
  ASSUME IInv, NEW player \in Players, Login(player) \/ TakeOver(player)
  PROVE  IInv'
<1>1. /\ online \subseteq online' /\ online' \subseteq Players
      /\ UNCHANGED <<party, invitations, parties, askedSelf, fault>>
  BY DEF IInv, Login, TakeOver, partyVars
<1>2. users' \in [Parties -> SUBSET online']
  BY DEF IInv, Login, TakeOver, RemovedFromAll
<1>3. World' = World
  BY <1>1 DEF World
<1> DEFINE w == World
<1>4. w \in Worlds /\ \A P \in Parties : AgreesOn(w, online, askedSelf, P)
  BY DEF IInv, Agree
<1> HIDE DEF w
<1>5. ASSUME NEW P \in Parties
      PROVE  AgreesOn(w, online', askedSelf, P)
  BY <1>1, <1>4, OthersAgree
<1>6. Agree(w, online', askedSelf)
  BY <1>4, <1>5 DEF Agree
<1> QED
  BY <1>1, <1>2, <1>3, <1>6 DEF IInv, w

\* A player without a party and without invitations may go.
LEMMA GoneAgree ==
  ASSUME NEW v, NEW on, NEW asked, Agree(v, on, asked), NEW player \in Players,
         v.party[player] = NoParty, v.invitations[player] = {}
  PROVE  Agree(v, on \ {player}, {e \in asked : e[1] # player})
<1> DEFINE on2 == on \ {player}
           asked2 == {e \in asked : e[1] # player}
<1>1. \A q \in Players : q # player => /\ q \in on2 <=> q \in on
                                       /\ \A P \in Parties : <<q, P>> \in asked2 <=> <<q, P>> \in asked
  OBVIOUS
<1> HIDE DEF on2, asked2
<1>2. ASSUME NEW P \in Parties
      PROVE  AgreesOn(v, on2, asked2, P)
  <2>1. AgreesOn(v, on, asked, P) /\ P # NoParty /\ v.parties[P] \in Sound \cup {Deleted}
    BY PartyConstants, WorldParts DEF Agree
  <2>2. /\ v.party[player] # P /\ player \notin v.parties[P].invited
        /\ v.parties[P] # Deleted => player \notin People(v.parties[P])
    BY <2>1 DEF AgreesOn
  <2>3. v.parties[P] # Deleted => People(v.parties[P]) \subseteq on2
    BY <2>1, <2>2 DEF AgreesOn, on2
  <2>4. ASSUME NEW q \in Players
        PROVE  /\ v.party[q] = P <=> v.parties[P] # Deleted /\ q \in People(v.parties[P])
               /\ q \in v.parties[P].invited => P \in v.invitations[q] /\ q \in on2
               /\ P \in v.invitations[q] => q \in v.parties[P].invited \/ <<q, P>> \in asked2
               /\ v.party[q] = P /\ q \in v.parties[P].invited => <<q, P>> \in asked2
    BY <1>1, <2>1, <2>2 DEF AgreesOn
  <2> QED
    BY <2>1, <2>3, <2>4 DEF AgreesOn
<1> QED
  BY <1>2 DEF Agree, on2, asked2

LEMMA LoggedOut ==
  ASSUME IInv, ~fault, NEW player \in Players, Logout(player)
  PROVE  IInv'
<1> DEFINE w == Declined(World, player)
<1>1. PICK able \in BOOLEAN :
         Becomes(IF w.party[player] = NoParty THEN w ELSE Departed(w, player, able))
  BY DEF Logout
<1> DEFINE v == IF w.party[player] = NoParty THEN w ELSE Departed(w, player, able)
<1>2. Agree(w, online, askedSelf) /\ w.invitations[player] = {}
  BY DeclinedAgrees DEF IInv
<1> HIDE DEF w
<1>3. /\ Agree(v, online, askedSelf)
      /\ v.party[player] = NoParty /\ v.invitations[player] = {}
  BY <1>2, DepartedAgrees
<1> HIDE DEF v
<1>4. /\ online' = online \ {player}
      /\ askedSelf' = {e \in askedSelf : e[1] # player}
      /\ users' = RemovedFromAll(player)
      /\ fault' = fault
  BY DEF Logout
<1>5. Agree(v, online', askedSelf')
  BY <1>3, <1>4, GoneAgree
<1>6. World' = v
  <2>1. v = [party |-> v.party, invitations |-> v.invitations, parties |-> v.parties]
    BY <1>3 DEF Agree, Worlds
  <2>2. Becomes(v)
    BY <1>1 DEF v
  <2> QED
    BY <2>1, <2>2 DEF Becomes, World
<1>7. users' \in [Parties -> SUBSET online']
  BY <1>4 DEF IInv, RemovedFromAll
<1> QED
  BY <1>4, <1>5, <1>6, <1>7 DEF IInv

\* Only an invitation to himself survives its party.
LEMMA LoggedOutOfDeletedParty ==
  ASSUME IInv, NEW player \in Players, LogoutFaults(player)
  PROVE  IInv'
<1>1. UNCHANGED <<online, party, invitations, parties, askedSelf, users>>
  BY DEF LogoutFaults, partyVars
<1>2. World \in Worlds /\ \A P \in Parties : AgreesOn(World, online, askedSelf, P)
  BY DEF IInv, Agree
<1>3. PICK P \in invitations[player] : parties[P] = Deleted
  BY DEF LogoutFaults, Exists
<1>4. P \in Parties
  BY <1>2, WorldFields DEF Worlds
<1>5. <<player, P>> \in askedSelf
  BY <1>2, <1>3, <1>4, WorldFields, DeletedFields DEF AgreesOn
<1>6. World' = World
  BY <1>1 DEF World
<1> QED
  BY <1>1, <1>5, <1>6 DEF IInv

LEMMA Invariant == Spec => []IInv
<1>1. IInv /\ [Next]_vars => IInv'
  <2> SUFFICES ASSUME IInv, [Next]_vars
               PROVE  IInv'
    OBVIOUS
  <2>1. ASSUME ~fault, NEW p \in Players, NEW q \in Players,
               \/ InviteToParty(p, q) \/ JoinParty(p, q)
               \/ RevokeInvitation(p, q) \/ PassLeadership(p, q)
        PROVE  IInv'
    BY <2>1, InvitedToParty, JoinedParty, InvitationRevoked, LeadershipPassed
  <2>2. ASSUME ~fault, NEW p \in Players, LeaveParty(p) \/ Logout(p) \/ LogoutFaults(p)
        PROVE  IInv'
    BY <2>2, PartyLeft, LoggedOut, LoggedOutOfDeletedParty
  <2>3. ASSUME NEW p \in Players, EarnPoints(p) \/ BecomeIdle(p) \/ MoveOrAdvance(p)
        PROVE  IInv'
    BY <2>3, PointsChanged, MovedOrAdvanced
  <2>4. ASSUME NEW p \in Players,
               \/ RequestChannels(p) \/ OpenChannel(p) \/ CloseChannel(p)
               \/ Login(p) \/ TakeOver(p)
        PROVE  IInv'
    BY <2>4, ChannelChanged, LoggedInOrTakenOver
  <2>5. ASSUME NEW p \in Players, NEW on \in BOOLEAN, SetSharedExperience(p, on)
        PROVE  IInv'
    BY <2>5, SharedExperienceSet
  <2>6. CASE UNCHANGED vars
    <3>1. World' = World
      BY <2>6 DEF World, vars
    <3> QED
      BY <2>6, <3>1 DEF IInv, vars
  <2> QED
    BY <2>1, <2>2, <2>3, <2>4, <2>5, <2>6 DEF Next
<1> QED
  BY <1>1, InitialInvariant, PTL DEF Spec

(***************************************************************************)
(* The theorems.                                                           *)
(***************************************************************************)
\* For any players and addresses the players' pointers and invitations and the parties'
\* lists agree, in whatever order players join, lead, leave, decline and log out, and
\* also when an address is given out again.
THEOREM PartyPlayersAgree == Spec => []PlayersAgree
<1>1. IInv => PlayersAgree
  <2> SUFFICES ASSUME IInv
               PROVE  PlayersAgree
    OBVIOUS
  <2>1. \A P \in Parties :
           AgreesOn(World, online, askedSelf, P) /\ parties[P] \in Sound \cup {Deleted}
    BY WorldFields, WorldParts DEF IInv, Agree, Worlds
  <2>2. ASSUME NEW p \in Players, NEW P \in Parties
        PROVE  /\ party[p] = P <=> Exists(P) /\ p \in People(parties[P])
               /\ p \in parties[P].invited => P \in invitations[p] /\ p \in online
               /\ P \in invitations[p] => p \in parties[P].invited \/ <<p, P>> \in askedSelf
    BY <2>1, WorldFields DEF AgreesOn, Exists
  <2>3. ASSUME NEW P \in Parties, Exists(P)
        PROVE  /\ ~IsEmpty(parties[P])
               /\ IsInjective(<<parties[P].leader>> \o parties[P].members)
               /\ People(parties[P]) \subseteq online
    <3>1. ~IsEmpty(parties[P]) /\ People(parties[P]) \subseteq online
      BY <2>1, <2>3, WorldFields DEF AgreesOn, Exists
    <3>2. /\ parties[P].leader \in Players /\ parties[P].members \in Seq(Players)
          /\ InOrder(parties[P])
      BY <2>1, <2>3 DEF Exists, Sound, Live
    <3> QED
      BY <3>1, <3>2, PrependProperties DEF InOrder
  <2>4. fault => askedSelf # {}
    BY DEF IInv
  <2> QED
    BY <2>2, <2>3, <2>4 DEF PlayersAgree
<1> QED
  BY <1>1, Invariant, PTL

\* For any players and any outcomes of the tests of levels, places and times, experience
\* is shared only as long as each player of the party, but those of Exempt, has done
\* something for it.
THEOREM PartySharesWithAll == Spec => []SharedNeedsAll
<1>1. IInv => SharedNeedsAll
  <2> SUFFICES ASSUME IInv, NEW P \in Parties, parties[P].active, parties[P].enabled
               PROVE  parties[P].members # <<>> /\ Obliged(parties[P]) \subseteq parties[P].points
    BY DEF SharedNeedsAll
  <2>1. parties[P] \in Sound \cup {Deleted}
    BY WorldFields, WorldParts DEF IInv, Agree, Worlds
  <2> QED
    BY <2>1, DeletedFields DEF Sound, Sharing
<1> QED
  BY <1>1, Invariant, PTL

\* For any players and addresses the users of a party's channel are in the game, whoever
\* has left the party without closing it.
THEOREM PartyUsersOnline == Spec => []UsersOnline
<1>1. IInv => UsersOnline
  BY DEF IInv, UsersOnline
<1> QED
  BY <1>1, Invariant, PTL
=============================================================================
