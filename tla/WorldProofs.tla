---------------------------- MODULE WorldProofs ----------------------------
(***************************************************************************)
(* Theorems about the creatures and the spawns of a world of any size.     *)
(*                                                                         *)
(* Creatures: every use of a creature is held by somebody, and whoever has *)
(* no health left will be looked at. Both rest on `Sound', which says of a *)
(* world that its uses are due, that masters and summons agree, that what  *)
(* does not exist has no master, and that who is let think is on the map   *)
(* and listed. The callbacks of the code are operators on worlds, and for  *)
(* each of them a lemma says what it makes of a sound world: one Like it,  *)
(* where nobody came or went, or one After it, where some were removed.    *)
(* That plain pointers lead to whom one sees on the map rests on `Led':    *)
(* who is on the map points only at whom it sees there, new objects point  *)
(* at nobody, and summons have none themselves and stay only as long as    *)
(* their master does. A callback leaves the pointers the Same, or Loosed,  *)
(* or Steers them to others in view; a removal or a movement keeps a world *)
(* Led because everybody who sees the creature or its summons is in turn   *)
(* told of it, and what the turn of each brings about no later one undoes. *)
(* That monsters know the opponents they see rests on `Aware': who Faces   *)
(* an opponent Knows it, or was told to overlook it. A step Heeds this     *)
(* when no monster faces anybody anew and none forgets whom it still       *)
(* faces; where one does, somebody came, moved or was convinced, and the   *)
(* turn of each who sees it makes the two Acquainted.                      *)
(*                                                                         *)
(* Spawns: one that is short of monsters looks again. The check counts the *)
(* entries of spawnedMap, the property the monsters that live; that they   *)
(* are as many after a check rests on an entry per monster, on a slot per  *)
(* monster in the zone, and on monsters that are placed being new.         *)
(***************************************************************************)
EXTENDS Creatures, Spawns, FiniteSetTheorems, WellFoundedInduction, TLAPS

----------------------------------------------------------------------------
(* Worlds, and what of a sound one an operation may change.                *)

Someone == Creatures \cup {Nobody}

\* Worlds of well-typed fields.
Worlds ==
    [status : [Creatures -> {"none", "placed", "removed"}], place : [Creatures -> Places],
     alive : [Creatures -> BOOLEAN], uses : [Creatures -> Int], releases : [Creatures -> Nat],
     check : [Creatures -> BOOLEAN], listed : [Creatures -> BOOLEAN],
     master : [Creatures -> Someone], summons : [Creatures -> SUBSET Monsters],
     attacked : [Creatures -> Someone], followed : [Creatures -> Someone],
     targets : [Creatures -> SUBSET Creatures], friends : [Creatures -> SUBSET Creatures],
     idle : [Creatures -> BOOLEAN], inRange : [Creatures -> BOOLEAN],
     overlooked : [Creatures -> SUBSET Creatures]]

B(p) == IF p THEN 1 ELSE 0
\* How many of the sets f[d] hold c.
Refs(f, c) == Cardinality({d \in Creatures : c \in f[d]})

\* Every use is held.
Due(w) ==
    \A c \in Creatures :
        w.uses[c] = B(w.status[c] = "placed") + B(w.listed[c]) + Refs(w.summons, c)
                    + Refs(w.targets, c) + Refs(w.friends, c) + w.releases[c]
Agree(w) == \A c, s \in Creatures : w.master[s] = c <=> s \in w.summons[c]
\* Who does not exist has no master.
Fresh(w) ==
    \A c \in Creatures :
        w.status[c] = "none" => w.master[c] = Nobody /\ ~w.listed[c] /\ w.alive[c]
\* Who thinks is on the map and listed, and so is who has no health left.
Minded(w) ==
    \A c \in Creatures :
        /\ w.check[c] => w.status[c] = "placed" /\ w.listed[c]
        /\ w.status[c] = "placed" /\ ~w.alive[c] => w.check[c]

Sound == {w \in Worlds : Due(w) /\ Agree(w) /\ Fresh(w) /\ Minded(w)}

\* Nobody came or went.
Like(w) ==
    {v \in Sound : /\ v.status = w.status
                   /\ \A c \in Creatures : w.listed[c] => v.listed[c]
                   /\ \A p \in Adventurers : w.check[p] => v.check[p]}

\* Nobody came, some may have been removed.
After(w) ==
    {v \in Sound : /\ \A c \in Creatures :
                        /\ v.status[c] = "none" <=> w.status[c] = "none"
                        /\ v.status[c] = "placed" => w.status[c] = "placed"
                        /\ w.listed[c] => v.listed[c]
                   /\ \A p \in Adventurers : w.check[p] => v.check[p] \/ v.status[p] # "placed"}

LEMMA Typed ==
    ASSUME NEW w \in Worlds
    PROVE  /\ w.status \in [Creatures -> {"none", "placed", "removed"}]
           /\ w.place \in [Creatures -> Places] /\ w.alive \in [Creatures -> BOOLEAN]
           /\ w.uses \in [Creatures -> Int] /\ w.releases \in [Creatures -> Nat]
           /\ w.check \in [Creatures -> BOOLEAN] /\ w.listed \in [Creatures -> BOOLEAN]
           /\ w.master \in [Creatures -> Someone] /\ w.summons \in [Creatures -> SUBSET Monsters]
           /\ w.attacked \in [Creatures -> Someone] /\ w.followed \in [Creatures -> Someone]
           /\ w.targets \in [Creatures -> SUBSET Creatures]
           /\ w.friends \in [Creatures -> SUBSET Creatures]
           /\ w.idle \in [Creatures -> BOOLEAN] /\ w.inRange \in [Creatures -> BOOLEAN]
           /\ w.overlooked \in [Creatures -> SUBSET Creatures]
  BY DEF Worlds

LEMMA Reflexive ==
    ASSUME NEW w \in Sound
    PROVE  w \in Like(w) /\ w \in After(w) /\ w \in Worlds
  BY Typed DEF Like, After, Sound

LEMMA LikeFollows ==
    ASSUME NEW w, NEW v \in Like(w), NEW u \in Like(v)
    PROVE  u \in Like(w) /\ v \in Sound /\ u \in Sound
  BY DEF Like

LEMMA AfterFollows ==
    ASSUME NEW w \in Sound, NEW v \in After(w), NEW u \in After(v)
    PROVE  u \in After(w) /\ v \in Sound /\ u \in Sound
<1>1. v.status \in [Creatures -> {"none", "placed", "removed"}] /\ Adventurers \subseteq Creatures
  BY Typed DEF Sound, After, Creatures
<1> QED
  BY <1>1 DEF After

LEMMA LikeIsAfter ==
    ASSUME NEW w \in Sound, NEW v \in Like(w)
    PROVE  v \in After(w) /\ v \in Sound
  BY Typed DEF Like, After, Sound

With(f, m, X) == [f EXCEPT ![m] = X]

\* How many sets hold c when that of m becomes X.
LEMMA RefsWith ==
    ASSUME NEW f \in [Creatures -> SUBSET Creatures], NEW m \in Creatures,
           NEW X \in SUBSET Creatures, NEW c \in Creatures
    PROVE  /\ Refs(f, c) \in Nat
           /\ Refs(With(f, m, X), c) = Refs(f, c) + B(c \in X) - B(c \in f[m])
           /\ c \in f[m] => Refs(f, c) > 0
<1> DEFINE S == {d \in Creatures : c \in f[d]}
           T == {d \in Creatures : c \in [f EXCEPT ![m] = X][d]}
<1>1. IsFiniteSet(Creatures)
  BY CreaturesConstants, FS_Union DEF Creatures
<1>2. S \subseteq Creatures /\ T \subseteq Creatures
  OBVIOUS
<1>3. IsFiniteSet(S) /\ IsFiniteSet(T) /\ Cardinality(S) \in Nat /\ Cardinality(T) \in Nat
  BY <1>1, <1>2, FS_Subset, FS_CardinalityType
<1>4. Refs(f, c) = Cardinality(S) /\ Refs(With(f, m, X), c) = Cardinality(T)
  BY DEF Refs, With
<1>5. m \in S <=> c \in f[m]
  OBVIOUS
<1>6. c \in X => T = S \cup {m}
  OBVIOUS
<1>7. c \notin X => T = S \ {m}
  OBVIOUS
<1>8. c \in f[m] => Cardinality(S) > 0
  BY <1>3, <1>5, FS_EmptySet
<1> HIDE DEF S, T
<1>9. /\ m \notin S => Cardinality(S \cup {m}) = Cardinality(S) + 1
      /\ m \in S => Cardinality(S \cup {m}) = Cardinality(S)
      /\ m \in S => Cardinality(S \ {m}) = Cardinality(S) - 1
      /\ m \notin S => Cardinality(S \ {m}) = Cardinality(S)
  BY <1>3, FS_AddElement, FS_RemoveElement
<1>10. Cardinality(T) = Cardinality(S) + B(c \in X) - B(c \in f[m])
  <2>1. CASE c \in X
    <3>1. T = S \cup {m}
      BY <1>6, <2>1
    <3> QED
      BY <1>3, <1>5, <1>9, <2>1, <3>1 DEF B
  <2>2. CASE c \notin X
    <3>1. T = S \ {m}
      BY <1>7, <2>2
    <3> QED
      BY <1>3, <1>5, <1>9, <2>2, <3>1 DEF B
  <2> QED
    BY <2>1, <2>2
<1> QED
  BY <1>3, <1>4, <1>8, <1>10

----------------------------------------------------------------------------
(* Worlds with one field changed.                                          *)

LEMMA Changed ==
    ASSUME NEW w \in Worlds
    PROVE  /\ \A u \in [Creatures -> Int] : [w EXCEPT !.uses = u] \in Worlds
           /\ \A u \in [Creatures -> BOOLEAN] :
                /\ [w EXCEPT !.alive = u] \in Worlds /\ [w EXCEPT !.check = u] \in Worlds
                /\ [w EXCEPT !.listed = u] \in Worlds /\ [w EXCEPT !.idle = u] \in Worlds
                /\ [w EXCEPT !.inRange = u] \in Worlds
           /\ \A u \in [Creatures -> Someone] :
                /\ [w EXCEPT !.master = u] \in Worlds /\ [w EXCEPT !.attacked = u] \in Worlds
                /\ [w EXCEPT !.followed = u] \in Worlds
           /\ \A u \in [Creatures -> SUBSET Monsters] : [w EXCEPT !.summons = u] \in Worlds
           /\ \A u \in [Creatures -> SUBSET Creatures] :
                /\ [w EXCEPT !.targets = u] \in Worlds /\ [w EXCEPT !.friends = u] \in Worlds
                /\ [w EXCEPT !.overlooked = u] \in Worlds
           /\ \A u \in [Creatures -> {"none", "placed", "removed"}] :
                [w EXCEPT !.status = u] \in Worlds
           /\ \A u \in [Creatures -> Places] : [w EXCEPT !.place = u] \in Worlds
           /\ \A u \in [Creatures -> Nat] : [w EXCEPT !.releases = u] \in Worlds
<1>1. \A u \in [Creatures -> Int] : [w EXCEPT !.uses = u] \in Worlds
  BY DEF Worlds
<1>2. \A u \in [Creatures -> BOOLEAN] :
                /\ [w EXCEPT !.alive = u] \in Worlds /\ [w EXCEPT !.check = u] \in Worlds
                /\ [w EXCEPT !.listed = u] \in Worlds
  BY DEF Worlds
<1>3. \A u \in [Creatures -> BOOLEAN] :
                /\ [w EXCEPT !.idle = u] \in Worlds
                /\ [w EXCEPT !.inRange = u] \in Worlds
  BY DEF Worlds
<1>4. \A u \in [Creatures -> Someone] :
                /\ [w EXCEPT !.master = u] \in Worlds /\ [w EXCEPT !.attacked = u] \in Worlds
                /\ [w EXCEPT !.followed = u] \in Worlds
  BY DEF Worlds
<1>5. \A u \in [Creatures -> SUBSET Monsters] : [w EXCEPT !.summons = u] \in Worlds
  BY DEF Worlds
<1>6. \A u \in [Creatures -> SUBSET Creatures] :
                /\ [w EXCEPT !.targets = u] \in Worlds /\ [w EXCEPT !.friends = u] \in Worlds
                /\ [w EXCEPT !.overlooked = u] \in Worlds
  BY DEF Worlds
<1>7. \A u \in [Creatures -> {"none", "placed", "removed"}] : [w EXCEPT !.status = u] \in Worlds
  BY DEF Worlds
<1>8. /\ \A u \in [Creatures -> Places] : [w EXCEPT !.place = u] \in Worlds
      /\ \A u \in [Creatures -> Nat] : [w EXCEPT !.releases = u] \in Worlds
  BY DEF Worlds
<1> QED
  BY <1>1, <1>2, <1>3, <1>4, <1>5, <1>6, <1>7, <1>8

\* The fields on which it depends whether a world is sound.
Held(w) == <<w.status, w.alive, w.uses, w.releases, w.check, w.listed, w.master, w.summons,
             w.targets, w.friends>>

\* A world that differs in other fields only is sound too.
LEMMA SameHeld ==
    ASSUME NEW w \in Sound, NEW v \in Worlds, Held(v) = Held(w)
    PROVE  v \in Like(w)
  BY DEF Held, Like, Sound, Due, Agree, Fresh, Minded

LEMMA Irrelevant ==
    ASSUME NEW w \in Sound
    PROVE  /\ \A u \in [Creatures -> BOOLEAN] :
                [w EXCEPT !.idle = u] \in Like(w) /\ [w EXCEPT !.inRange = u] \in Like(w)
           /\ \A u \in [Creatures -> Someone] :
                [w EXCEPT !.attacked = u] \in Like(w) /\ [w EXCEPT !.followed = u] \in Like(w)
           /\ \A u \in [Creatures -> SUBSET Creatures] : [w EXCEPT !.overlooked = u] \in Like(w)
           /\ \A u \in [Creatures -> Places] : [w EXCEPT !.place = u] \in Like(w)
<1>1. w \in Worlds
  BY DEF Sound
<1>2. ASSUME NEW u
      PROVE  /\ Held([w EXCEPT !.idle = u]) = Held(w)
             /\ Held([w EXCEPT !.inRange = u]) = Held(w)
             /\ Held([w EXCEPT !.attacked = u]) = Held(w)
             /\ Held([w EXCEPT !.followed = u]) = Held(w)
             /\ Held([w EXCEPT !.overlooked = u]) = Held(w)
             /\ Held([w EXCEPT !.place = u]) = Held(w)
  BY <1>1 DEF Held, Worlds
<1> QED
  BY <1>1, <1>2, Changed, SameHeld

LEMMA AddCheckIs ==
    ASSUME NEW w \in Worlds, NEW c \in Creatures, ~w.listed[c], w.status[c] # "removed"
    PROVE  /\ AddCreatureCheck(w, c) \in Worlds
           /\ AddCreatureCheck(w, c).status = w.status
           /\ AddCreatureCheck(w, c).alive = w.alive
           /\ AddCreatureCheck(w, c).uses = With(w.uses, c, w.uses[c] + 1)
           /\ AddCreatureCheck(w, c).releases = w.releases
           /\ AddCreatureCheck(w, c).check = With(w.check, c, TRUE)
           /\ AddCreatureCheck(w, c).listed = With(w.listed, c, TRUE)
           /\ AddCreatureCheck(w, c).master = w.master
           /\ AddCreatureCheck(w, c).summons = w.summons
           /\ AddCreatureCheck(w, c).targets = w.targets
           /\ AddCreatureCheck(w, c).friends = w.friends
<1> DEFINE v == AddCreatureCheck(w, c)
           a == [w EXCEPT !.check = [w.check EXCEPT ![c] = TRUE]]
           b == [a EXCEPT !.listed = [w.listed EXCEPT ![c] = TRUE]]
           d == [b EXCEPT !.uses = [w.uses EXCEPT ![c] = w.uses[c] + 1]]
<1>1. v = d
  BY DEF AddCreatureCheck, Used, Worlds
<1>2. a \in Worlds
  BY Changed, Typed
<1>3. b \in Worlds
  <2>1. [w.listed EXCEPT ![c] = TRUE] \in [Creatures -> BOOLEAN]
    BY Typed
  <2> HIDE DEF a
  <2> QED
    BY <1>2, <2>1, Changed
<1>4. d \in Worlds
  <2>1. [w.uses EXCEPT ![c] = w.uses[c] + 1] \in [Creatures -> Int]
    BY Typed
  <2> HIDE DEF b
  <2> QED
    BY <1>3, <2>1, Changed
<1> QED
  BY <1>1, <1>4 DEF Worlds, With

----------------------------------------------------------------------------
(* References: taken, given up and counted.                                *)

\* A world with other references and uses.
Refill(w, u, ms, su, ta, fr) ==
    [w EXCEPT !.uses = u, !.master = ms, !.summons = su, !.targets = ta, !.friends = fr]

LEMMA Refilled ==
    ASSUME NEW w \in Worlds, NEW u \in [Creatures -> Int],
           NEW ms \in [Creatures -> Someone], NEW su \in [Creatures -> SUBSET Monsters],
           NEW ta \in [Creatures -> SUBSET Creatures], NEW fr \in [Creatures -> SUBSET Creatures]
    PROVE  /\ Refill(w, u, ms, su, ta, fr) \in Worlds
           /\ Refill(w, u, ms, su, ta, fr).status = w.status
           /\ Refill(w, u, ms, su, ta, fr).alive = w.alive
           /\ Refill(w, u, ms, su, ta, fr).releases = w.releases
           /\ Refill(w, u, ms, su, ta, fr).check = w.check
           /\ Refill(w, u, ms, su, ta, fr).listed = w.listed
           /\ Refill(w, u, ms, su, ta, fr).uses = u
           /\ Refill(w, u, ms, su, ta, fr).master = ms
           /\ Refill(w, u, ms, su, ta, fr).summons = su
           /\ Refill(w, u, ms, su, ta, fr).targets = ta
           /\ Refill(w, u, ms, su, ta, fr).friends = fr
<1> DEFINE a == [w EXCEPT !.uses = u, !.master = ms]
           b == [a EXCEPT !.summons = su]
           d == [b EXCEPT !.targets = ta, !.friends = fr]
<1>1. a \in Worlds
  BY Changed
<1>2. b \in Worlds
  <2> HIDE DEF a
  <2> QED
    BY <1>1, Changed
<1>3. d \in Worlds
  <2>  HIDE DEF b
  <2> QED
    BY <1>2, Changed
<1>4. Refill(w, u, ms, su, ta, fr) = d
  BY DEF Worlds, Refill
<1> QED
  BY <1>3, <1>4 DEF Worlds

LEMMA RefsAre ==
    ASSUME NEW w \in Worlds, NEW c \in Creatures
    PROVE  /\ Refs(w.summons, c) \in Nat /\ Refs(w.targets, c) \in Nat /\ Refs(w.friends, c) \in Nat
           /\ w.summons \in [Creatures -> SUBSET Creatures]
<1>1. /\ w.summons \in [Creatures -> SUBSET Creatures]
      /\ w.targets \in [Creatures -> SUBSET Creatures]
      /\ w.friends \in [Creatures -> SUBSET Creatures]
  BY Typed DEF Creatures
<1> QED
  BY <1>1, RefsWith

\* References are taken or given up, and the uses go with them.
LEMMA Balanced ==
    ASSUME NEW w \in Sound, NEW v \in Worlds,
           v.status = w.status, v.alive = w.alive, v.releases = w.releases,
           v.check = w.check, v.listed = w.listed, Agree(v),
           \A c \in Creatures : v.status[c] = "none" => v.master[c] = Nobody,
           \A c \in Creatures : v.uses[c] = w.uses[c] + (Refs(v.summons, c) - Refs(w.summons, c))
                                           + (Refs(v.targets, c) - Refs(w.targets, c))
                                           + (Refs(v.friends, c) - Refs(w.friends, c))
    PROVE  v \in Like(w)
<1>1. Fresh(v) /\ Minded(v)
  BY DEF Fresh, Minded, Sound
<1>2. ASSUME NEW c \in Creatures
      PROVE  v.uses[c] = B(v.status[c] = "placed") + B(v.listed[c]) + Refs(v.summons, c)
                         + Refs(v.targets, c) + Refs(v.friends, c) + v.releases[c]
  <2>1. /\ w \in Worlds /\ w.uses[c] \in Int /\ w.releases[c] \in Int
        /\ w.uses[c] = B(w.status[c] = "placed") + B(w.listed[c]) + Refs(w.summons, c)
                       + Refs(w.targets, c) + Refs(w.friends, c) + w.releases[c]
        /\ v.uses[c] = w.uses[c] + (Refs(v.summons, c) - Refs(w.summons, c))
                                 + (Refs(v.targets, c) - Refs(w.targets, c))
                                 + (Refs(v.friends, c) - Refs(w.friends, c))
        /\ v.status[c] = w.status[c] /\ v.listed[c] = w.listed[c] /\ v.releases[c] = w.releases[c]
    BY Typed DEF Sound, Due
  <2>2. /\ Refs(w.summons, c) \in Int /\ Refs(w.targets, c) \in Int /\ Refs(w.friends, c) \in Int
        /\ Refs(v.summons, c) \in Int /\ Refs(v.targets, c) \in Int /\ Refs(v.friends, c) \in Int
        /\ B(w.status[c] = "placed") \in Int /\ B(w.listed[c]) \in Int
    BY <2>1, RefsAre DEF B
  <2> QED
    BY <2>1, <2>2
<1> QED
  BY <1>1, <1>2 DEF Like, Sound, Due

----------------------------------------------------------------------------
(* What the operators of the model do to references.                       *)

LEMMA RefsGained ==
    ASSUME NEW f \in [Creatures -> SUBSET Creatures], NEW m \in Creatures,
           NEW s \in Creatures, s \notin f[m], NEW d \in Creatures
    PROVE  Refs(With(f, m, f[m] \cup {s}), d) = Refs(f, d) + B(d = s)
<1>1. f[m] \cup {s} \in SUBSET Creatures
  OBVIOUS
<1>2. /\ Refs(f, d) \in Nat
      /\ Refs(With(f, m, f[m] \cup {s}), d)
            = Refs(f, d) + B(d \in f[m] \cup {s}) - B(d \in f[m])
  BY <1>1, RefsWith
<1>3. CASE d = s
  <2>1. B(d \in f[m] \cup {s}) = 1 /\ B(d \in f[m]) = 0 /\ B(d = s) = 1
    BY <1>3 DEF B
  <2> QED
    BY <1>2, <2>1
<1>4. CASE d # s /\ d \in f[m]
  <2>1. B(d \in f[m] \cup {s}) = 1 /\ B(d \in f[m]) = 1 /\ B(d = s) = 0
    BY <1>4 DEF B
  <2> QED
    BY <1>2, <2>1
<1>5. CASE d # s /\ d \notin f[m]
  <2>1. B(d \in f[m] \cup {s}) = 0 /\ B(d \in f[m]) = 0 /\ B(d = s) = 0
    BY <1>5 DEF B
  <2> QED
    BY <1>2, <2>1
<1> QED
  BY <1>3, <1>4, <1>5

LEMMA RefsLost ==
    ASSUME NEW f \in [Creatures -> SUBSET Creatures], NEW m \in Creatures,
           NEW S \in SUBSET f[m], NEW d \in Creatures
    PROVE  Refs(With(f, m, f[m] \ S), d) = Refs(f, d) - B(d \in S)
<1>1. f[m] \ S \in SUBSET Creatures
  OBVIOUS
<1>2. /\ Refs(f, d) \in Nat
      /\ Refs(With(f, m, f[m] \ S), d) = Refs(f, d) + B(d \in f[m] \ S) - B(d \in f[m])
  BY <1>1, RefsWith
<1>3. CASE d \in S
  <2>1. B(d \in f[m] \ S) = 0 /\ B(d \in f[m]) = 1 /\ B(d \in S) = 1
    BY <1>3 DEF B
  <2> QED
    BY <1>2, <2>1
<1>4. CASE d \notin S /\ d \in f[m]
  <2>1. B(d \in f[m] \ S) = 1 /\ B(d \in f[m]) = 1 /\ B(d \in S) = 0
    BY <1>4 DEF B
  <2> QED
    BY <1>2, <2>1
<1>5. CASE d \notin S /\ d \notin f[m]
  <2>1. B(d \in f[m] \ S) = 0 /\ B(d \in f[m]) = 0 /\ B(d \in S) = 0
    BY <1>5 DEF B
  <2> QED
    BY <1>2, <2>1
<1> QED
  BY <1>3, <1>4, <1>5

LEMMA UsedOnce ==
    ASSUME NEW u \in [Creatures -> Int], NEW c \in Creatures, NEW d \in Creatures
    PROVE  /\ With(u, c, u[c] + 1) \in [Creatures -> Int]
           /\ With(u, c, u[c] + 1)[d] = u[d] + B(d = c)
<1>1. CASE d = c
  BY <1>1 DEF B, With
<1>2. CASE d # c
  BY <1>2 DEF B, With
<1> QED
  BY <1>1, <1>2

LEMMA ReleasedIs ==
    ASSUME NEW w \in Worlds, NEW S, NEW v, v = ReleasedAll(w, S)
    PROVE  /\ v \in Worlds
           /\ v.status = w.status /\ v.alive = w.alive /\ v.releases = w.releases
           /\ v.check = w.check /\ v.listed = w.listed
           /\ v.master = w.master /\ v.summons = w.summons
           /\ v.targets = w.targets /\ v.friends = w.friends
           /\ \A d \in Creatures : v.uses[d] = w.uses[d] - B(d \in S)
<1> DEFINE u == [c \in Creatures |-> IF c \in S THEN w.uses[c] - 1 ELSE w.uses[c]]
<1>1. v = [w EXCEPT !.uses = u]
  BY DEF ReleasedAll, Worlds
<1>2. u \in [Creatures -> Int] /\ \A d \in Creatures : w.uses[d] \in Int
  BY Typed
<1>3. \A d \in Creatures : u[d] = w.uses[d] - B(d \in S)
  BY <1>2 DEF B
<1> HIDE DEF u
<1>4. v \in Worlds
  BY <1>1, <1>2, Changed
<1>5. /\ v.status = w.status /\ v.alive = w.alive /\ v.releases = w.releases
      /\ v.check = w.check /\ v.listed = w.listed
      /\ v.master = w.master /\ v.summons = w.summons
      /\ v.targets = w.targets /\ v.friends = w.friends /\ v.uses = u
  BY <1>1 DEF Worlds
<1> QED
  BY <1>3, <1>4, <1>5

\* A master takes a summons, one use and one reference more.
LEMMA AddSummonIs ==
    ASSUME NEW w \in Worlds, NEW c \in Creatures, NEW s \in Monsters, s \notin w.summons[c],
           NEW v, v = AddSummon(w, c, s)
    PROVE  /\ v \in Worlds /\ v.status = w.status /\ v.alive = w.alive /\ v.releases = w.releases
           /\ v.check = w.check /\ v.listed = w.listed
           /\ v.targets = w.targets /\ v.friends = w.friends
           /\ v.master = With(w.master, s, c)
           /\ v.summons = With(w.summons, c, w.summons[c] \cup {s})
           /\ \A d \in Creatures :
                /\ v.uses[d] = w.uses[d] + B(d = s)
                /\ Refs(v.summons, d) = Refs(w.summons, d) + B(d = s)
<1> DEFINE u == With(w.uses, s, w.uses[s] + 1)
           ms == With(w.master, s, c)
           su == With(w.summons, c, w.summons[c] \cup {s})
<1>1. s \in Creatures /\ c \in Someone
  BY DEF Creatures, Someone
<1>2. /\ u \in [Creatures -> Int] /\ ms \in [Creatures -> Someone]
      /\ su \in [Creatures -> SUBSET Monsters]
      /\ w.targets \in [Creatures -> SUBSET Creatures]
      /\ w.friends \in [Creatures -> SUBSET Creatures]
      /\ w.uses \in [Creatures -> Int]
  BY <1>1, Typed DEF With
<1>3. v = Refill(w, u, ms, su, w.targets, w.friends)
  BY DEF AddSummon, Used, Worlds, Refill, With
<1>4. ASSUME NEW d \in Creatures
      PROVE  u[d] = w.uses[d] + B(d = s) /\ Refs(su, d) = Refs(w.summons, d) + B(d = s)
  <2>1. u[d] = w.uses[d] + B(d = s)
    BY <1>1, <1>2, UsedOnce
  <2>2. w.summons \in [Creatures -> SUBSET Creatures]
    BY RefsAre
  <2>3. Refs(su, d) = Refs(w.summons, d) + B(d = s)
    BY <1>1, <2>2, RefsGained
  <2> QED
    BY <2>1, <2>3
<1> HIDE DEF u, ms, su
<1>5. /\ v \in Worlds /\ v.status = w.status /\ v.alive = w.alive /\ v.releases = w.releases
      /\ v.check = w.check /\ v.listed = w.listed
      /\ v.targets = w.targets /\ v.friends = w.friends
      /\ v.uses = u /\ v.master = ms /\ v.summons = su
  BY <1>2, <1>3, Refilled
<1>6. \A d \in Creatures : /\ v.uses[d] = w.uses[d] + B(d = s)
                           /\ Refs(v.summons, d) = Refs(w.summons, d) + B(d = s)
  BY <1>4, <1>5
<1> QED
  BY <1>5, <1>6 DEF ms, su

LEMMA MonstersAre == Monsters \subseteq Creatures /\ Adventurers \subseteq Creatures
  BY DEF Creatures

LEMMA NobodyIs == Nobody \notin Creatures /\ Nobody \in Someone /\ Creatures \subseteq Someone
  BY CreaturesConstants DEF Creatures, Someone

\* What exists and has no master can be taken as a summons.
LEMMA AddSummonLike ==
    ASSUME NEW w \in Sound, NEW c \in Creatures, NEW s \in Monsters,
           w.master[s] = Nobody, w.status[s] # "none"
    PROVE  AddSummon(w, c, s) \in Like(w)
<1> DEFINE v == AddSummon(w, c, s)
<1>1. w \in Worlds /\ s \in Creatures /\ s \notin w.summons[c]
  BY MonstersAre, NobodyIs DEF Sound, Agree
<1>0. v = AddSummon(w, c, s)
  OBVIOUS
<1> HIDE DEF v
<1>2. /\ v \in Worlds /\ v.status = w.status /\ v.alive = w.alive /\ v.releases = w.releases
      /\ v.check = w.check /\ v.listed = w.listed
      /\ v.targets = w.targets /\ v.friends = w.friends
      /\ v.master = With(w.master, s, c)
      /\ v.summons = With(w.summons, c, w.summons[c] \cup {s})
      /\ \A d \in Creatures :
            /\ v.uses[d] = w.uses[d] + B(d = s)
            /\ Refs(v.summons, d) = Refs(w.summons, d) + B(d = s)
  BY <1>0, <1>1, AddSummonIs
<1>3. Agree(v)
  BY <1>1, <1>2, Typed, NobodyIs DEF Agree, Sound, With
<1>4. \A d \in Creatures : v.status[d] = "none" => v.master[d] = Nobody
  BY <1>1, <1>2, Typed DEF Fresh, Sound, With
<1>5. \A d \in Creatures : /\ w.uses[d] \in Int /\ B(d = s) \in Int
                           /\ Refs(w.summons, d) \in Nat /\ Refs(w.targets, d) \in Nat
                           /\ Refs(w.friends, d) \in Nat
  BY <1>1, Typed, RefsAre DEF B
<1>6. ASSUME NEW d \in Creatures
      PROVE  v.uses[d] = w.uses[d] + (Refs(v.summons, d) - Refs(w.summons, d))
                                   + (Refs(v.targets, d) - Refs(w.targets, d))
                                   + (Refs(v.friends, d) - Refs(w.friends, d))
  <2> DEFINE one == B(d = s)
  <2>1. v.uses[d] = w.uses[d] + one /\ Refs(v.summons, d) = Refs(w.summons, d) + one
    BY <1>2
  <2>2. /\ w.uses[d] \in Int /\ one \in Int /\ Refs(w.summons, d) \in Nat
        /\ Refs(w.targets, d) \in Nat /\ Refs(w.friends, d) \in Nat
    BY <1>5
  <2> HIDE DEF one
  <2> QED
    BY <1>2, <2>1, <2>2
<1>7. v \in Like(w)
  BY <1>2, <1>3, <1>4, <1>6, Balanced
<1> QED
  BY <1>7 DEF v

\* A summons is released with its use, or was none.
LEMMA RemoveSummonLike ==
    ASSUME NEW w \in Sound, NEW c \in Creatures, NEW s
    PROVE  RemoveSummon(w, c, s) \in Like(w)
<1>1. CASE s \notin w.summons[c]
  BY <1>1, Reflexive DEF RemoveSummon
<1>2. CASE s \in w.summons[c]
  <2> DEFINE ms == With(w.master, s, Nobody)
             su == With(w.summons, c, w.summons[c] \ {s})
             u == [d \in Creatures |-> IF d \in {s} THEN w.uses[d] - 1 ELSE w.uses[d]]
             v == Refill(w, u, ms, su, w.targets, w.friends)
  <2>1. /\ w \in Worlds /\ s \in Creatures /\ w.master \in [Creatures -> Someone]
        /\ w.summons \in [Creatures -> SUBSET Monsters] /\ w.uses \in [Creatures -> Int]
        /\ w.targets \in [Creatures -> SUBSET Creatures]
        /\ w.friends \in [Creatures -> SUBSET Creatures]
    BY <1>2, Typed, MonstersAre DEF Sound
  <2>2. RemoveSummon(w, c, s) = v
    BY <1>2, <2>1 DEF RemoveSummon, ReleasedAll, Worlds, Refill, With
  <2>3. /\ u \in [Creatures -> Int] /\ ms \in [Creatures -> Someone]
        /\ su \in [Creatures -> SUBSET Monsters]
    BY <2>1, NobodyIs DEF With
  <2>4. ASSUME NEW d \in Creatures
        PROVE  u[d] = w.uses[d] - B(d \in {s}) /\ Refs(su, d) = Refs(w.summons, d) - B(d \in {s})
    <3>1. u[d] = w.uses[d] - B(d \in {s})
      BY <2>1 DEF B
    <3>2. {s} \in SUBSET w.summons[c]
      BY <1>2
    <3>3. w.summons \in [Creatures -> SUBSET Creatures]
      BY <2>1, RefsAre
    <3>4. Refs(su, d) = Refs(w.summons, d) - B(d \in {s})
      BY <3>2, <3>3, RefsLost
    <3> QED
      BY <3>1, <3>4
  <2> HIDE DEF u, ms, su
  <2>5. /\ v \in Worlds /\ v.status = w.status /\ v.alive = w.alive /\ v.releases = w.releases
        /\ v.check = w.check /\ v.listed = w.listed
        /\ v.targets = w.targets /\ v.friends = w.friends
        /\ v.uses = u /\ v.master = ms /\ v.summons = su
    BY <2>1, <2>3, Refilled
  <2> HIDE DEF v
  <2>6. Agree(v)
    BY <1>2, <2>1, <2>5, NobodyIs DEF Agree, Sound, With, ms, su
  <2>7. \A d \in Creatures : v.status[d] = "none" => v.master[d] = Nobody
    BY <2>1, <2>5 DEF Fresh, Sound, With, ms
  <2>8. \A d \in Creatures : /\ w.uses[d] \in Int /\ B(d \in {s}) \in Int
                             /\ Refs(w.summons, d) \in Nat /\ Refs(w.targets, d) \in Nat
                             /\ Refs(w.friends, d) \in Nat
    BY <2>1, RefsAre DEF B
  <2>9. \A d \in Creatures : v.uses[d] = w.uses[d] + (Refs(v.summons, d) - Refs(w.summons, d))
                                         + (Refs(v.targets, d) - Refs(w.targets, d))
                                         + (Refs(v.friends, d) - Refs(w.friends, d))
    BY <2>4, <2>5, <2>8
  <2> QED
    BY <2>2, <2>5, <2>6, <2>7, <2>9, Balanced
<1> QED
  BY <1>1, <1>2

\* The lists of m forget T and F, when b is w with their uses released.
LEMMA ForgottenLike ==
    ASSUME NEW w \in Sound, NEW m \in Creatures,
           NEW T \in SUBSET w.targets[m], NEW F \in SUBSET w.friends[m], NEW b \in Worlds,
           b.status = w.status, b.alive = w.alive, b.releases = w.releases,
           b.check = w.check, b.listed = w.listed,
           b.master = w.master, b.summons = w.summons,
           b.targets = w.targets, b.friends = w.friends,
           \A d \in Creatures : b.uses[d] = w.uses[d] - B(d \in T) - B(d \in F)
    PROVE  /\ Refill(b, b.uses, b.master, b.summons, With(b.targets, m, w.targets[m] \ T),
                     With(b.friends, m, w.friends[m] \ F)) \in Like(w)
           /\ Refill(b, b.uses, b.master, b.summons, With(b.targets, m, w.targets[m] \ T),
                     With(b.friends, m, w.friends[m] \ F)).alive = w.alive
<1> DEFINE v == Refill(b, b.uses, b.master, b.summons, With(b.targets, m, w.targets[m] \ T),
                       With(b.friends, m, w.friends[m] \ F))
           ta == With(w.targets, m, w.targets[m] \ T)
           fr == With(w.friends, m, w.friends[m] \ F)
<1>1. /\ w \in Worlds /\ w.targets \in [Creatures -> SUBSET Creatures]
      /\ w.friends \in [Creatures -> SUBSET Creatures]
  BY Typed DEF Sound
<1>2. ASSUME NEW d \in Creatures
      PROVE  /\ Refs(ta, d) = Refs(w.targets, d) - B(d \in T)
             /\ Refs(fr, d) = Refs(w.friends, d) - B(d \in F)
  BY <1>1, RefsLost
<1>3. /\ ta \in [Creatures -> SUBSET Creatures] /\ fr \in [Creatures -> SUBSET Creatures]
      /\ b.uses \in [Creatures -> Int] /\ b.master \in [Creatures -> Someone]
      /\ b.summons \in [Creatures -> SUBSET Monsters]
  BY <1>1, Typed DEF With
<1>4. v = Refill(b, b.uses, b.master, b.summons, ta, fr)
  OBVIOUS
<1> HIDE DEF ta, fr
<1>5. /\ v \in Worlds /\ v.status = w.status /\ v.alive = w.alive /\ v.releases = w.releases
      /\ v.check = w.check /\ v.listed = w.listed
      /\ v.targets = ta /\ v.friends = fr
      /\ v.uses = b.uses /\ v.master = w.master /\ v.summons = w.summons
  <2> DEFINE x == Refill(b, b.uses, b.master, b.summons, ta, fr)
  <2> HIDE DEF v
  <2>1. /\ x \in Worlds /\ x.status = b.status /\ x.alive = b.alive /\ x.releases = b.releases
        /\ x.check = b.check /\ x.listed = b.listed
        /\ x.targets = ta /\ x.friends = fr
        /\ x.uses = b.uses /\ x.master = b.master /\ x.summons = b.summons
    BY <1>3, Refilled
  <2> HIDE DEF x
  <2>2. v = x
    BY <1>4 DEF x
  <2> QED
    BY <2>1, <2>2
<1> HIDE DEF v
<1>6. Agree(v) /\ \A d \in Creatures : v.status[d] = "none" => v.master[d] = Nobody
  <2>1. Agree(w) /\ Fresh(w)
    BY DEF Sound
  <2>2. Agree(v)
    BY <1>5, <2>1 DEF Agree
  <2>3. \A d \in Creatures : v.status[d] = "none" => v.master[d] = Nobody
    BY <1>5, <2>1 DEF Fresh
  <2> QED
    BY <2>2, <2>3
<1>7. ASSUME NEW d \in Creatures
      PROVE  v.uses[d] = w.uses[d] + (Refs(v.summons, d) - Refs(w.summons, d))
                                   + (Refs(v.targets, d) - Refs(w.targets, d))
                                   + (Refs(v.friends, d) - Refs(w.friends, d))
  <2> DEFINE t == B(d \in T)
             f == B(d \in F)
  <2>1. /\ v.uses[d] = w.uses[d] - t - f /\ Refs(v.summons, d) = Refs(w.summons, d)
        /\ Refs(v.targets, d) = Refs(w.targets, d) - t
        /\ Refs(v.friends, d) = Refs(w.friends, d) - f
    BY <1>2, <1>5
  <2>2. /\ w.uses[d] \in Int /\ t \in Int /\ f \in Int
        /\ Refs(w.summons, d) \in Nat /\ Refs(w.targets, d) \in Nat /\ Refs(w.friends, d) \in Nat
    BY <1>1, Typed, RefsAre DEF B
  <2> HIDE DEF t, f
  <2> QED
    BY <2>1, <2>2
<1>8. v \in Like(w) /\ v.alive = w.alive
  BY <1>5, <1>6, <1>7, Balanced
<1> QED
  BY <1>8 DEF v

\* A monster forgets friends and targets, with their uses.
LEMMA ListsClearedLike ==
    ASSUME NEW w \in Sound, NEW m \in Creatures
    PROVE  ListsCleared(w, m) \in Like(w) /\ ListsCleared(w, m).alive = w.alive
<1> DEFINE T == w.targets[m]
           F == w.friends[m]
           a == ReleasedAll(w, T)
           b == ReleasedAll(a, F)
<1>1. w \in Worlds
  BY DEF Sound
<1>2. a \in Worlds
  BY <1>1, ReleasedIs
<1>3. /\ b \in Worlds
      /\ b.status = w.status /\ b.alive = w.alive /\ b.releases = w.releases
      /\ b.check = w.check /\ b.listed = w.listed
      /\ b.master = w.master /\ b.summons = w.summons
      /\ b.targets = w.targets /\ b.friends = w.friends
      /\ \A d \in Creatures : b.uses[d] = w.uses[d] - B(d \in T) - B(d \in F)
  BY <1>1, <1>2, ReleasedIs
<1>4. ListsCleared(w, m) =
        Refill(b, b.uses, b.master, b.summons, With(b.targets, m, w.targets[m] \ T),
                                  With(b.friends, m, w.friends[m] \ F))
  <2>1. ListsCleared(w, m) = [b EXCEPT !.targets[m] = {}, !.friends[m] = {}]
    BY DEF ListsCleared
  <2>2. w.targets[m] \ T = {} /\ w.friends[m] \ F = {}
    OBVIOUS
  <2> HIDE DEF a, b, T, F
  <2> QED
    BY <1>3, <2>1, <2>2 DEF Refill, With, Worlds
<1>5. T \in SUBSET w.targets[m] /\ F \in SUBSET w.friends[m]
  OBVIOUS
<1> HIDE DEF b, T, F
<1>6. Refill(b, b.uses, b.master, b.summons, With(b.targets, m, w.targets[m] \ T),
             With(b.friends, m, w.friends[m] \ F)) \in Like(w)
  BY <1>3, <1>5, ForgottenLike
<1>7. Refill(b, b.uses, b.master, b.summons, With(b.targets, m, w.targets[m] \ T),
             With(b.friends, m, w.friends[m] \ F)).alive = w.alive
  BY <1>3, <1>5, ForgottenLike
<1> QED
  BY <1>4, <1>6, <1>7

----------------------------------------------------------------------------
(* Whom the server lets think.                                             *)

LEMMA CheckedIs ==
    ASSUME NEW w \in Worlds, NEW ch \in [Creatures -> BOOLEAN],
           NEW v, v = [w EXCEPT !.check = ch]
    PROVE  /\ v \in Worlds /\ v.status = w.status /\ v.alive = w.alive
           /\ v.uses = w.uses /\ v.releases = w.releases
           /\ v.check = ch /\ v.listed = w.listed
           /\ v.master = w.master /\ v.summons = w.summons /\ v.targets = w.targets
           /\ v.friends = w.friends
<1>1. v \in Worlds
  BY Changed
<1> QED
  BY <1>1 DEF Worlds

\* Who is on the map thinks from now on, and is listed with a use.
LEMMA AddCheckLike ==
    ASSUME NEW w \in Sound, NEW c \in Creatures, w.status[c] # "none"
    PROVE  /\ AddCreatureCheck(w, c) \in Like(w)
           /\ w.status[c] = "placed" => AddCreatureCheck(w, c).check[c]
<1>0. /\ w \in Worlds /\ w.status[c] \in {"none", "placed", "removed"}
      /\ w.check \in [Creatures -> BOOLEAN] /\ w.listed \in [Creatures -> BOOLEAN]
      /\ w.uses \in [Creatures -> Int]
  BY Typed DEF Sound
<1>1. CASE w.status[c] = "removed"
  BY <1>1, Reflexive DEF AddCreatureCheck
<1>2. CASE w.status[c] = "placed" /\ w.listed[c]
  <2> DEFINE ch == With(w.check, c, TRUE)
             v == [w EXCEPT !.check = ch]
  <2>1. AddCreatureCheck(w, c) = v
    BY <1>0, <1>2 DEF AddCreatureCheck, Worlds, With
  <2>2. ch \in [Creatures -> BOOLEAN] /\ ch[c] = TRUE
        /\ \A d \in Creatures : d # c => ch[d] = w.check[d]
    BY <1>0 DEF With
  <2> HIDE DEF ch
  <2>3. /\ v \in Worlds /\ v.status = w.status /\ v.alive = w.alive
        /\ v.uses = w.uses /\ v.releases = w.releases
        /\ v.check = ch /\ v.listed = w.listed
        /\ v.master = w.master /\ v.summons = w.summons /\ v.targets = w.targets
        /\ v.friends = w.friends
    BY <1>0, <2>2, CheckedIs
  <2> HIDE DEF v
  <2>4. Due(v) /\ Agree(v) /\ Fresh(v)
    BY <2>3 DEF Sound, Due, Agree, Fresh
  <2>5. Minded(v)
    BY <1>2, <2>2, <2>3 DEF Sound, Minded
  <2> QED
    BY <2>1, <2>2, <2>3, <2>4, <2>5, MonstersAre DEF Like, Sound
<1>3. CASE w.status[c] = "placed" /\ ~w.listed[c]
  <2> DEFINE v == AddCreatureCheck(w, c)
  <2>1. /\ v \in Worlds /\ v.status = w.status /\ v.alive = w.alive
        /\ v.uses = With(w.uses, c, w.uses[c] + 1) /\ v.releases = w.releases
        /\ v.check = With(w.check, c, TRUE) /\ v.listed = With(w.listed, c, TRUE)
        /\ v.master = w.master /\ v.summons = w.summons /\ v.targets = w.targets
        /\ v.friends = w.friends
    BY <1>0, <1>3, AddCheckIs
  <2> HIDE DEF v
  <2>2. /\ v.check[c] /\ v.listed[c]
        /\ \A d \in Creatures : d # c => v.check[d] = w.check[d] /\ v.listed[d] = w.listed[d]
    BY <1>0, <2>1 DEF With
  <2>3. Agree(v) /\ Fresh(v)
    <3>1. Agree(v)
      BY <2>1 DEF Sound, Agree
    <3>2. Fresh(v)
      BY <1>3, <2>1, <2>2 DEF Sound, Fresh
    <3> QED
      BY <3>1, <3>2
  <2>4. Minded(v)
    BY <1>3, <2>1, <2>2 DEF Sound, Minded
  <2>5. ASSUME NEW d \in Creatures
        PROVE  v.uses[d] = B(v.status[d] = "placed") + B(v.listed[d]) + Refs(v.summons, d)
                           + Refs(v.targets, d) + Refs(v.friends, d) + v.releases[d]
    <3> DEFINE p == B(w.status[d] = "placed")
               l == B(w.listed[d])
               k == B(v.listed[d])
               one == B(d = c)
    <3>1. w.uses[d] = p + l + Refs(w.summons, d) + Refs(w.targets, d) + Refs(w.friends, d)
                      + w.releases[d]
      BY DEF Sound, Due
    <3>2. v.uses[d] = w.uses[d] + one
      BY <1>0, <2>1, UsedOnce
    <3>3. k = l + one
      BY <1>3, <2>2 DEF B
    <3>4. /\ p \in Int /\ l \in Int /\ k \in Int /\ one \in Int /\ Refs(w.summons, d) \in Int
          /\ Refs(w.targets, d) \in Int /\ Refs(w.friends, d) \in Int /\ w.releases[d] \in Int
          /\ v.uses[d] \in Int
      BY <1>0, <2>1, Typed, RefsAre DEF B
    <3>5. B(v.status[d] = "placed") = p
      BY <2>1
    <3> HIDE DEF p, l, k, one
    <3>6. v.uses[d] = p + k + Refs(w.summons, d) + Refs(w.targets, d) + Refs(w.friends, d)
                      + w.releases[d]
      BY <3>1, <3>2, <3>3, <3>4
    <3> QED
      BY <2>1, <3>5, <3>6 DEF k
  <2>6. v \in Like(w)
    BY <2>1, <2>2, <2>3, <2>4, <2>5, MonstersAre DEF Like, Sound, Due
  <2> QED
    BY <2>2, <2>6 DEF v
<1> QED
  BY <1>0, <1>1, <1>2, <1>3

\* A monster that lives may stop to think.
LEMMA RemoveCheckLike ==
    ASSUME NEW w \in Sound, NEW m \in Monsters, w.alive[m]
    PROVE  RemoveCreatureCheck(w, m) \in Like(w)
<1>0. /\ w \in Worlds /\ m \in Creatures /\ m \notin Adventurers
      /\ w.check \in [Creatures -> BOOLEAN]
  BY Typed, MonstersAre, CreaturesConstants DEF Sound
<1>1. CASE ~w.listed[m]
  BY <1>1, Reflexive DEF RemoveCreatureCheck
<1>2. CASE w.listed[m]
  <2> DEFINE ch == With(w.check, m, FALSE)
             v == [w EXCEPT !.check = ch]
  <2>1. RemoveCreatureCheck(w, m) = v
    BY <1>0, <1>2 DEF RemoveCreatureCheck, Worlds, With
  <2>2. ch \in [Creatures -> BOOLEAN] /\ ~ch[m]
        /\ \A d \in Creatures : d # m => ch[d] = w.check[d]
    BY <1>0 DEF With
  <2> HIDE DEF ch
  <2>3. /\ v \in Worlds /\ v.status = w.status /\ v.alive = w.alive
        /\ v.uses = w.uses /\ v.releases = w.releases
        /\ v.check = ch /\ v.listed = w.listed
        /\ v.master = w.master /\ v.summons = w.summons /\ v.targets = w.targets
        /\ v.friends = w.friends
    BY <1>0, <2>2, CheckedIs
  <2> HIDE DEF v
  <2>4. Due(v) /\ Agree(v) /\ Fresh(v)
    BY <2>3 DEF Sound, Due, Agree, Fresh
  <2>5. Minded(v)
    BY <1>2, <2>2, <2>3 DEF Sound, Minded
  <2> QED
    BY <1>0, <2>1, <2>2, <2>3, <2>4, <2>5, MonstersAre DEF Like, Sound
<1> QED
  BY <1>1, <1>2

\* A monster that sleeps forgets all; one without health never stops to think.
LEMMA SetIdleLike ==
    ASSUME NEW w \in Sound, NEW m \in Monsters, w.status[m] # "none", NEW asleep
    PROVE  SetIdle(w, m, asleep) \in Like(w)
<1>0. m \in Creatures /\ w \in Worlds /\ w.idle \in [Creatures -> BOOLEAN]
  BY MonstersAre, Typed DEF Sound
<1>1. CASE w.status[m] = "removed" \/ ~w.alive[m]
  BY <1>1, Reflexive DEF SetIdle
<1>2. CASE w.status[m] # "removed" /\ w.alive[m] /\ asleep
  <2> DEFINE a == [w EXCEPT !.idle = With(w.idle, m, TRUE)]
             b == ListsCleared(a, m)
  <2>1. SetIdle(w, m, asleep) = RemoveCreatureCheck(b, m)
    BY <1>0, <1>2 DEF SetIdle, Worlds, With
  <2>2. a \in Like(w) /\ a.alive = w.alive
    <3>1. With(w.idle, m, TRUE) \in [Creatures -> BOOLEAN]
      BY <1>0 DEF With
    <3>2. a.alive = w.alive
      BY <1>0 DEF Worlds
    <3> QED
      BY <3>1, <3>2, Irrelevant
  <2> HIDE DEF a
  <2>3. a \in Sound /\ b \in Like(a) /\ b.alive = a.alive
    BY <1>0, <2>2, ListsClearedLike, LikeIsAfter
  <2> HIDE DEF b
  <2>4. b \in Sound /\ RemoveCreatureCheck(b, m) \in Like(b)
    BY <1>2, <2>2, <2>3, RemoveCheckLike, LikeIsAfter
  <2>5. b \in Like(w)
    BY <2>2, <2>3, LikeFollows
  <2> QED
    BY <2>1, <2>4, <2>5, LikeFollows
<1>3. CASE w.status[m] # "removed" /\ w.alive[m] /\ ~asleep
  <2> DEFINE a == [w EXCEPT !.idle = With(w.idle, m, FALSE)]
  <2>1. SetIdle(w, m, asleep) = AddCreatureCheck(a, m)
    BY <1>0, <1>3 DEF SetIdle, Worlds, With
  <2>2. a \in Like(w)
    <3>1. With(w.idle, m, FALSE) \in [Creatures -> BOOLEAN]
      BY <1>0 DEF With
    <3> QED
      BY <3>1, Irrelevant
  <2>3. a.status = w.status
    BY <2>2 DEF Like
  <2> HIDE DEF a
  <2>4. a \in Sound /\ AddCreatureCheck(a, m) \in Like(a)
    BY <1>0, <2>2, <2>3, AddCheckLike, LikeIsAfter
  <2> QED
    BY <2>1, <2>2, <2>4, LikeFollows
<1> QED
  BY <1>1, <1>2, <1>3

LEMMA UpdateIdleLike ==
    ASSUME NEW w \in Sound, NEW m \in Monsters, w.status[m] # "none"
    PROVE  UpdateIdleStatus(w, m) \in Like(w)
  BY SetIdleLike DEF UpdateIdleStatus

----------------------------------------------------------------------------
(* Pointers to others.                                                     *)

LEMMA SetFollowLike ==
    ASSUME NEW w \in Sound, NEW c \in Creatures, NEW t \in Someone
    PROVE  SetFollowCreature(w, c, t) \in Like(w)
<1>1. /\ w \in Worlds /\ w.followed \in [Creatures -> Someone]
      /\ w.attacked \in [Creatures -> Someone] /\ Nobody \in Someone
  BY Typed, NobodyIs DEF Sound
<1> DEFINE fo(x) == [w EXCEPT !.followed = With(w.followed, c, x)]
           at(x) == With(w.attacked, c, x)
<1>2. ASSUME NEW x \in Someone
      PROVE  fo(x) \in Like(w) /\ fo(x) \in Sound /\ fo(x).attacked = w.attacked
  <2>1. With(w.followed, c, x) \in [Creatures -> Someone]
    BY <1>1 DEF With
  <2>2. fo(x) \in Like(w)
    BY <2>1, Irrelevant
  <2>3. fo(x).attacked = w.attacked
    BY <1>1 DEF Worlds
  <2> HIDE DEF fo
  <2> QED
    BY <2>2, <2>3, LikeIsAfter
<1>3. CASE t = Nobody \/ w.followed[c] = t \/ CanSee(w, c, t)
  <2>1. SetFollowCreature(w, c, t) = fo(t)
    BY <1>1, <1>3 DEF SetFollowCreature, Worlds, With
  <2> QED
    BY <1>2, <2>1
<1>4. CASE ~(t = Nobody \/ w.followed[c] = t \/ CanSee(w, c, t))
  <2> DEFINE x == IF c \in Adventurers THEN Nobody ELSE w.attacked[c]
  <2>1. SetFollowCreature(w, c, t) = [fo(Nobody) EXCEPT !.attacked = at(x)]
    BY <1>1, <1>4 DEF SetFollowCreature, Worlds, With
  <2>2. at(x) \in [Creatures -> Someone]
    BY <1>1 DEF With
  <2> HIDE DEF at, x
  <2>3. [fo(Nobody) EXCEPT !.attacked = at(x)] \in Like(fo(Nobody))
    BY <1>1, <1>2, <2>2, Irrelevant
  <2> QED
    BY <1>1, <1>2, <2>1, <2>3, LikeFollows
<1> QED
  BY <1>3, <1>4

LEMMA SetAttackedLike ==
    ASSUME NEW w \in Sound, NEW c \in Creatures, NEW t \in Someone
    PROVE  SetAttackedCreature(w, c, t) \in Like(w)
<1> DEFINE Sees(d) == t = Nobody \/ CanSee(w, d, t)
           at == [d \in Creatures |-> IF d = c \/ (d \in w.summons[c] /\ Sees(c))
                                      THEN (IF Sees(d) THEN t ELSE Nobody)
                                      ELSE w.attacked[d]]
           v == [w EXCEPT !.attacked = at]
<1>1. w \in Worlds /\ w.attacked \in [Creatures -> Someone] /\ Nobody \in Someone
  BY Typed, NobodyIs DEF Sound
<1>2. SetAttackedCreature(w, c, t) =
        IF c \in Adventurers /\ t = Nobody THEN SetFollowCreature(v, c, Nobody) ELSE v
  BY <1>1 DEF SetAttackedCreature, Worlds
<1>3. at \in [Creatures -> Someone]
  BY <1>1
<1> HIDE DEF at
<1>4. v \in Like(w)
  BY <1>3, Irrelevant
<1> HIDE DEF v
<1>5. v \in Sound /\ SetFollowCreature(v, c, Nobody) \in Like(v)
  BY <1>1, <1>4, LikeIsAfter, SetFollowLike
<1> QED
  BY <1>2, <1>4, <1>5, LikeFollows

LEMMA LostLike ==
    ASSUME NEW w \in Sound, NEW c \in Creatures, NEW t
    PROVE  Lost(w, c, t) \in Like(w)
<1> DEFINE v == IF w.attacked[c] = t THEN SetAttackedCreature(w, c, Nobody) ELSE w
<1>1. v \in Like(w) /\ Nobody \in Someone
  BY Reflexive, SetAttackedLike, NobodyIs
<1>2. Lost(w, c, t) = IF v.followed[c] = t THEN SetFollowCreature(v, c, Nobody) ELSE v
  BY DEF Lost
<1> HIDE DEF v
<1>3. v \in Sound /\ SetFollowCreature(v, c, Nobody) \in Like(v)
  BY <1>1, LikeIsAfter, SetFollowLike
<1> QED
  BY <1>1, <1>2, <1>3, LikeFollows

\* Whoever loses health is not new; a player that is on the map is checked.
\* Who loses the last health thinks: a monster is woken up, a player always does.
LEMMA HealthLostLike ==
    ASSUME NEW w \in Sound, NEW c \in Creatures, w.status[c] # "none",
           c \in Adventurers /\ w.status[c] = "placed" => w.check[c], NEW dies \in BOOLEAN
    PROVE  HealthLost(w, c, dies) \in Like(w)
<1> DEFINE v == IF c \in Monsters THEN SetIdle(w, c, FALSE) ELSE w
           al == With(v.alive, c, ~dies)
           u == [v EXCEPT !.alive = al]
<1>1. v \in Like(w) /\ v \in Sound /\ v \in Worlds /\ v.status = w.status
      /\ v.status[c] \in {"none", "placed", "removed"}
  <2>1. v \in Like(w)
    BY SetIdleLike, Reflexive
  <2> HIDE DEF v
  <2> QED
    BY <2>1, LikeIsAfter, Reflexive, Typed DEF Like
<1>2. v.status[c] = "placed" => v.check[c]
  <2>1. CASE c \in Adventurers
    BY <1>1, <2>1 DEF Like
  <2>2. CASE c \in Monsters /\ w.status[c] = "placed" /\ ~w.alive[c]
    <3>1. v = w
      BY <2>2 DEF SetIdle
    <3> QED
      BY <2>2, <3>1 DEF Sound, Minded
  <2>3. CASE c \in Monsters /\ w.status[c] = "placed" /\ w.alive[c]
    <3> DEFINE a == [w EXCEPT !.idle = With(w.idle, c, FALSE)]
    <3>0. w \in Worlds /\ w.idle \in [Creatures -> BOOLEAN]
      BY Typed DEF Sound
    <3>1. v = AddCreatureCheck(a, c)
      BY <2>3, <3>0 DEF SetIdle, With, Worlds
    <3>2. a \in Like(w)
      <4>1. With(w.idle, c, FALSE) \in [Creatures -> BOOLEAN]
        BY <3>0 DEF With
      <4> QED
        BY <4>1, Irrelevant
    <3> HIDE DEF a
    <3>3. a \in Sound /\ a.status = w.status
      BY <3>2, LikeIsAfter DEF Like
    <3> QED
      BY <2>3, <3>1, <3>3, AddCheckLike
  <2> QED
    BY <1>1, <2>1, <2>2, <2>3 DEF Creatures
<1>3. HealthLost(w, c, dies) = u
  <2> HIDE DEF v
  <2>1. HealthLost(w, c, dies) = [v EXCEPT !.alive[c] = ~dies]
    BY DEF HealthLost, v
  <2> QED
    BY <1>1, <2>1 DEF With, Worlds
<1> HIDE DEF v
<1>4. /\ al \in [Creatures -> BOOLEAN]
      /\ \A d \in Creatures : d # c => al[d] = v.alive[d]
  BY <1>1, Typed DEF With
<1> HIDE DEF al
<1>5. /\ u \in Worlds /\ u.status = v.status /\ u.alive = al
      /\ u.uses = v.uses /\ u.releases = v.releases
      /\ u.check = v.check /\ u.listed = v.listed
      /\ u.master = v.master /\ u.summons = v.summons /\ u.targets = v.targets
      /\ u.friends = v.friends
  <2>1. u \in Worlds
    BY <1>1, <1>4, Changed
  <2> QED
    BY <1>1, <2>1 DEF Worlds
<1> HIDE DEF u
<1>6. Due(u) /\ Agree(u)
  BY <1>1, <1>5 DEF Sound, Due, Agree
<1>7. Fresh(u)
  BY <1>1, <1>4, <1>5 DEF Sound, Fresh
<1>8. Minded(u)
  BY <1>1, <1>2, <1>4, <1>5 DEF Sound, Minded
<1>9. u \in Like(v)
  BY <1>5, <1>6, <1>7, <1>8 DEF Like, Sound
<1> QED
  BY <1>1, <1>3, <1>9, LikeFollows

----------------------------------------------------------------------------
(* What a monster knows of others.                                         *)

LEMMA RefsNat ==
    ASSUME NEW f \in [Creatures -> SUBSET Creatures], NEW d \in Creatures
    PROVE  Refs(f, d) \in Nat
<1>1. {} \in SUBSET Creatures
  OBVIOUS
<1> QED
  BY <1>1, RefsWith

\* One more reference to a creature, or one less, in the lists of a monster.
\* Lists may change with the uses of those that they gain and lose.
LEMMA NotedLike ==
    ASSUME NEW w \in Sound,
           NEW ta \in [Creatures -> SUBSET Creatures], NEW fr \in [Creatures -> SUBSET Creatures],
           NEW u \in [Creatures -> Int],
           \A d \in Creatures : u[d] = w.uses[d] + (Refs(ta, d) - Refs(w.targets, d))
                                                 + (Refs(fr, d) - Refs(w.friends, d))
    PROVE  /\ Refill(w, u, w.master, w.summons, ta, fr) \in Like(w)
           /\ Refill(w, u, w.master, w.summons, ta, fr).alive = w.alive
           /\ Refill(w, u, w.master, w.summons, ta, fr).targets = ta
<1> DEFINE v == Refill(w, u, w.master, w.summons, ta, fr)
<1>1. /\ w \in Worlds /\ w.master \in [Creatures -> Someone]
      /\ w.summons \in [Creatures -> SUBSET Monsters]
      /\ \A d \in Creatures : w.uses[d] \in Int
  BY Typed DEF Sound
<1>2. /\ v \in Worlds /\ v.status = w.status /\ v.alive = w.alive /\ v.releases = w.releases
      /\ v.check = w.check /\ v.listed = w.listed
      /\ v.targets = ta /\ v.friends = fr
      /\ v.uses = u /\ v.master = w.master /\ v.summons = w.summons
  BY <1>1, Refilled
<1> HIDE DEF v
<1>3. Agree(v) /\ \A d \in Creatures : v.status[d] = "none" => v.master[d] = Nobody
  BY <1>2 DEF Agree, Fresh, Sound
<1>4. ASSUME NEW d \in Creatures
      PROVE  v.uses[d] = w.uses[d] + (Refs(v.summons, d) - Refs(w.summons, d))
                                   + (Refs(v.targets, d) - Refs(w.targets, d))
                                   + (Refs(v.friends, d) - Refs(w.friends, d))
  <2>1. /\ Refs(w.summons, d) \in Int /\ Refs(w.targets, d) \in Int /\ Refs(w.friends, d) \in Int
        /\ Refs(ta, d) \in Int /\ Refs(fr, d) \in Int
    BY <1>1, RefsAre, RefsNat
  <2> QED
    BY <1>1, <1>2, <2>1
<1> QED
  BY <1>2, <1>3, <1>4, Balanced DEF v

LEMMA FoundLike ==
    ASSUME NEW w \in Sound, NEW m \in Creatures, NEW c \in Creatures
    PROVE  FriendFound(w, m, c) \in Like(w) /\ OpponentFound(w, m, c) \in Like(w)
<1> DEFINE u == With(w.uses, c, w.uses[c] + 1)
           ta == With(w.targets, m, w.targets[m] \cup {c})
           fr == With(w.friends, m, w.friends[m] \cup {c})
<1>1. /\ w \in Worlds /\ w.targets \in [Creatures -> SUBSET Creatures]
      /\ w.friends \in [Creatures -> SUBSET Creatures] /\ w.uses \in [Creatures -> Int]
  BY Typed DEF Sound
<1>2. /\ ta \in [Creatures -> SUBSET Creatures] /\ fr \in [Creatures -> SUBSET Creatures]
      /\ u \in [Creatures -> Int]
  BY <1>1 DEF With
<1>3. \A d \in Creatures : /\ u[d] = w.uses[d] + B(d = c) /\ B(d = c) \in Int /\ w.uses[d] \in Int
                           /\ Refs(w.targets, d) \in Nat /\ Refs(w.friends, d) \in Nat
  <2>1. \A d \in Creatures : u[d] = w.uses[d] + B(d = c)
    BY <1>1, UsedOnce
  <2> QED
    BY <1>1, <2>1, RefsAre DEF B
<1>4. ASSUME IsFriend(w, m, c), c \notin w.friends[m]
      PROVE  FriendFound(w, m, c) \in Like(w)
  <2>1. FriendFound(w, m, c) = Refill(w, u, w.master, w.summons, w.targets, fr)
    BY <1>1, <1>4 DEF FriendFound, Used, Refill, With, Worlds
  <2>2. \A d \in Creatures : Refs(fr, d) = Refs(w.friends, d) + B(d = c)
    BY <1>1, <1>4, RefsGained
  <2> HIDE DEF u, ta, fr
  <2>3. \A d \in Creatures : u[d] = w.uses[d] + (Refs(w.targets, d) - Refs(w.targets, d))
                                              + (Refs(fr, d) - Refs(w.friends, d))
    <3> TAKE d \in Creatures
    <3> DEFINE one == B(d = c)
    <3>1. /\ u[d] = w.uses[d] + one /\ Refs(fr, d) = Refs(w.friends, d) + one
          /\ one \in Int /\ w.uses[d] \in Int /\ Refs(w.targets, d) \in Nat
          /\ Refs(w.friends, d) \in Nat
      BY <1>3, <2>2
    <3> HIDE DEF one
    <3> QED
      BY <3>1
  <2>4. Refill(w, u, w.master, w.summons, w.targets, fr) \in Like(w)
    BY <1>1, <1>2, <2>3, NotedLike
  <2> QED
    BY <2>1, <2>4
<1>5. ASSUME IsOpponent(w, m, c), c \notin w.targets[m]
      PROVE  OpponentFound(w, m, c) \in Like(w)
  <2>1. OpponentFound(w, m, c) = Refill(w, u, w.master, w.summons, ta, w.friends)
    BY <1>1, <1>5 DEF OpponentFound, Used, Refill, With, Worlds
  <2>2. \A d \in Creatures : Refs(ta, d) = Refs(w.targets, d) + B(d = c)
    BY <1>1, <1>5, RefsGained
  <2> HIDE DEF u, ta, fr
  <2>3. \A d \in Creatures : u[d] = w.uses[d] + (Refs(ta, d) - Refs(w.targets, d))
                                              + (Refs(w.friends, d) - Refs(w.friends, d))
    <3> TAKE d \in Creatures
    <3> DEFINE one == B(d = c)
    <3>1. /\ u[d] = w.uses[d] + one /\ Refs(ta, d) = Refs(w.targets, d) + one
          /\ one \in Int /\ w.uses[d] \in Int /\ Refs(w.targets, d) \in Nat
          /\ Refs(w.friends, d) \in Nat
      BY <1>3, <2>2
    <3> HIDE DEF one
    <3> QED
      BY <3>1
  <2>4. Refill(w, u, w.master, w.summons, ta, w.friends) \in Like(w)
    BY <1>1, <1>2, <2>3, NotedLike
  <2> QED
    BY <2>1, <2>4
<1>6. ~(IsFriend(w, m, c) /\ c \notin w.friends[m]) => FriendFound(w, m, c) = w
  BY DEF FriendFound
<1>7. ~(IsOpponent(w, m, c) /\ c \notin w.targets[m]) => OpponentFound(w, m, c) = w
  BY DEF OpponentFound
<1>8. FriendFound(w, m, c) \in Like(w)
  BY <1>4, <1>6, Reflexive
<1>9. OpponentFound(w, m, c) \in Like(w)
  BY <1>5, <1>7, Reflexive
<1> QED
  BY <1>8, <1>9

LEMMA OnFoundLike ==
    ASSUME NEW w \in Sound, NEW m \in Monsters, w.status[m] # "none", NEW c \in Creatures
    PROVE  OnCreatureFound(w, m, c) \in Like(w)
<1> DEFINE a == FriendFound(w, m, c)
           b == OpponentFound(a, m, c)
<1>1. m \in Creatures
  BY MonstersAre
<1>2. a \in Like(w) /\ a \in Sound
  BY <1>1, FoundLike, LikeIsAfter
<1> HIDE DEF a
<1>3. b \in Like(a) /\ b \in Like(w) /\ b \in Sound /\ b.status = w.status
  <2>1. b \in Like(a)
    BY <1>1, <1>2, FoundLike
  <2> HIDE DEF b
  <2>2. b \in Like(w) /\ b \in Sound
    BY <1>2, <2>1, LikeFollows
  <2> QED
    BY <2>1, <2>2 DEF Like
<1>4. OnCreatureFound(w, m, c) = UpdateIdleStatus(b, m)
  BY DEF OnCreatureFound, a
<1> HIDE DEF b
<1>5. UpdateIdleStatus(b, m) \in Like(b)
  BY <1>3, UpdateIdleLike
<1> QED
  BY <1>3, <1>4, <1>5, LikeFollows

LEMMA SeenLike ==
    ASSUME NEW w \in Sound, NEW m \in Monsters, w.status[m] # "none", NEW c,
           NEW sees \in BOOLEAN
    PROVE  /\ [w EXCEPT !.inRange[m] = sees] \in Like(w)
           /\ MasterSeen(w, m, c, sees) \in Like(w)
<1> DEFINE a == [w EXCEPT !.inRange = With(w.inRange, m, sees)]
<1>1. w \in Worlds /\ m \in Creatures /\ w.inRange \in [Creatures -> BOOLEAN]
  BY MonstersAre, Typed DEF Sound
<1>2. a = [w EXCEPT !.inRange[m] = sees]
  BY <1>1 DEF With, Worlds
<1>3. With(w.inRange, m, sees) \in [Creatures -> BOOLEAN]
  BY <1>1 DEF With
<1>4. a \in Like(w)
  BY <1>3, Irrelevant
<1>5. MasterSeen(w, m, c, sees) = IF w.master[m] = c THEN UpdateIdleStatus(a, m) ELSE w
  BY <1>2 DEF MasterSeen
<1> HIDE DEF a
<1>6. a \in Sound /\ a.status = w.status
  BY <1>4, LikeIsAfter DEF Like
<1>7. UpdateIdleStatus(a, m) \in Like(a)
  BY <1>6, UpdateIdleLike
<1> QED
  BY <1>2, <1>4, <1>5, <1>7, LikeFollows, Reflexive

LEMMA OnEnterLike ==
    ASSUME NEW w \in Sound, NEW m \in Monsters, w.status[m] # "none", NEW c \in Creatures
    PROVE  OnCreatureEnter(w, m, c) \in Like(w)
<1> DEFINE a == MasterSeen(w, m, c, TRUE)
<1>1. a \in Like(w)
  BY SeenLike
<1>2. OnCreatureEnter(w, m, c) = OnCreatureFound(a, m, c)
  BY DEF OnCreatureEnter
<1> HIDE DEF a
<1>3. a \in Sound /\ a.status = w.status
  BY <1>1, LikeIsAfter DEF Like
<1>4. OnCreatureFound(a, m, c) \in Like(a)
  BY <1>3, OnFoundLike
<1> QED
  BY <1>1, <1>2, <1>4, LikeFollows

LEMMA FriendLeftLike ==
    ASSUME NEW w \in Sound, NEW m \in Creatures, NEW c
    PROVE  FriendLeft(w, m, c) \in Like(w)
<1>1. CASE ~(IsFriend(w, m, c) /\ c \in w.friends[m])
  BY <1>1, Reflexive DEF FriendLeft
<1>2. CASE IsFriend(w, m, c) /\ c \in w.friends[m]
  <2> DEFINE b == ReleasedAll(w, {c})
  <2>1. w \in Worlds
    BY DEF Sound
  <2>2. /\ b \in Worlds
        /\ b.status = w.status /\ b.alive = w.alive /\ b.releases = w.releases
        /\ b.check = w.check /\ b.listed = w.listed
        /\ b.master = w.master /\ b.summons = w.summons
        /\ b.targets = w.targets /\ b.friends = w.friends
        /\ \A d \in Creatures : b.uses[d] = w.uses[d] - B(d \in {c})
    BY <2>1, ReleasedIs
  <2>3. FriendLeft(w, m, c) = Refill(b, b.uses, b.master, b.summons,
                                     With(b.targets, m, w.targets[m] \ {}),
                                     With(b.friends, m, w.friends[m] \ {c}))
    <3>1. w.targets[m] \ {} = w.targets[m] /\ With(w.targets, m, w.targets[m]) = w.targets
      BY <2>1, Typed DEF With
    <3>2. b.targets = w.targets /\ b.friends = w.friends
      BY <2>2
    <3>3. FriendLeft(w, m, c) = Refill(b, b.uses, b.master, b.summons, w.targets,
                                       With(w.friends, m, w.friends[m] \ {c}))
      BY <1>2, <2>1 DEF FriendLeft, ReleasedAll, Refill, With, Worlds
    <3> HIDE DEF b
    <3> QED
      BY <3>1, <3>2, <3>3
  <2> HIDE DEF b
  <2>4. \A d \in Creatures : b.uses[d] = w.uses[d] - B(d \in {}) - B(d \in {c})
    BY <2>1, <2>2, Typed DEF B
  <2>5. {} \in SUBSET w.targets[m] /\ {c} \in SUBSET w.friends[m]
    BY <1>2
  <2>6. Refill(b, b.uses, b.master, b.summons, With(b.targets, m, w.targets[m] \ {}),
               With(b.friends, m, w.friends[m] \ {c})) \in Like(w)
    BY <2>2, <2>4, <2>5, ForgottenLike
  <2> QED
    BY <2>3, <2>6
<1> QED
  BY <1>1, <1>2

LEMMA OpponentLeftLike ==
    ASSUME NEW w \in Sound, NEW m \in Monsters, w.status[m] # "none", NEW c
    PROVE  OpponentLeft(w, m, c) \in Like(w)
<1>0. w \in Worlds /\ m \in Creatures
  BY MonstersAre DEF Sound
<1>1. CASE ~(IsOpponent(w, m, c) /\ c \in w.targets[m])
  BY <1>1, Reflexive DEF OpponentLeft
<1>2. CASE IsOpponent(w, m, c) /\ c \in w.targets[m]
  <2> DEFINE b == ReleasedAll(w, {c})
             v == ReleasedAll([w EXCEPT !.targets[m] = @ \ {c}], {c})
  <2>1. OpponentLeft(w, m, c) = IF v.targets[m] = {} THEN UpdateIdleStatus(v, m) ELSE v
    BY <1>2 DEF OpponentLeft
  <2>2. /\ b \in Worlds
        /\ b.status = w.status /\ b.alive = w.alive /\ b.releases = w.releases
        /\ b.check = w.check /\ b.listed = w.listed
        /\ b.master = w.master /\ b.summons = w.summons
        /\ b.targets = w.targets /\ b.friends = w.friends
        /\ \A d \in Creatures : b.uses[d] = w.uses[d] - B(d \in {c})
    BY <1>0, ReleasedIs
  <2>3. v = Refill(b, b.uses, b.master, b.summons, With(b.targets, m, w.targets[m] \ {c}),
                   With(b.friends, m, w.friends[m] \ {}))
    <3>1. w.friends[m] \ {} = w.friends[m] /\ With(w.friends, m, w.friends[m]) = w.friends
      BY <1>0, Typed DEF With
    <3>2. b.targets = w.targets /\ b.friends = w.friends
      BY <2>2
    <3>3. v = Refill(b, b.uses, b.master, b.summons, With(w.targets, m, w.targets[m] \ {c}),
                     w.friends)
      BY <1>0 DEF ReleasedAll, Refill, With, Worlds
    <3> HIDE DEF b, v
    <3> QED
      BY <3>1, <3>2, <3>3
  <2> HIDE DEF b, v
  <2>4. \A d \in Creatures : b.uses[d] = w.uses[d] - B(d \in {c}) - B(d \in {})
    BY <1>0, <2>2, Typed DEF B
  <2>5. {c} \in SUBSET w.targets[m] /\ {} \in SUBSET w.friends[m]
    BY <1>2
  <2>6. v \in Like(w)
    BY <1>0, <2>2, <2>3, <2>4, <2>5, ForgottenLike
  <2>7. v \in Sound /\ v.status = w.status
    BY <2>6, LikeIsAfter DEF Like
  <2>8. UpdateIdleStatus(v, m) \in Like(v)
    BY <2>7, UpdateIdleLike
  <2> QED
    BY <2>1, <2>6, <2>8, LikeFollows
<1> QED
  BY <1>1, <1>2

LEMMA OverlooksLike ==
    ASSUME NEW w \in Sound, NEW m \in Creatures, NEW X \in SUBSET Creatures
    PROVE  [w EXCEPT !.overlooked[m] = X] \in Like(w)
<1>1. w \in Worlds /\ w.overlooked \in [Creatures -> SUBSET Creatures]
  BY Typed DEF Sound
<1>2. [w EXCEPT !.overlooked[m] = X] = [w EXCEPT !.overlooked = With(w.overlooked, m, X)]
  BY <1>1 DEF With, Worlds
<1>3. With(w.overlooked, m, X) \in [Creatures -> SUBSET Creatures]
  BY <1>1 DEF With
<1> QED
  BY <1>2, <1>3, Irrelevant

LEMMA OnLeaveLike ==
    ASSUME NEW w \in Sound, NEW m \in Monsters, w.status[m] # "none", NEW c
    PROVE  OnCreatureLeave(w, m, c) \in Like(w)
<1> DEFINE a == MasterSeen(w, m, c, FALSE)
           b == FriendLeft(a, m, c)
           d == OpponentLeft(b, m, c)
<1>0. m \in Creatures
  BY MonstersAre
<1>1. OnCreatureLeave(w, m, c) = [d EXCEPT !.overlooked[m] = d.overlooked[m] \ {c}]
  BY DEF OnCreatureLeave
<1>2. a \in Like(w)
  BY SeenLike
<1> HIDE DEF a
<1>3. a \in Sound /\ a.status = w.status
  BY <1>2, LikeIsAfter DEF Like
<1>4. b \in Like(a)
  BY <1>0, <1>3, FriendLeftLike
<1> HIDE DEF b
<1>5. b \in Sound /\ b.status = w.status /\ b \in Like(w)
  BY <1>2, <1>3, <1>4, LikeFollows DEF Like
<1>6. d \in Like(b)
  BY <1>5, OpponentLeftLike
<1> HIDE DEF d
<1>7. d \in Sound /\ d \in Like(w)
  BY <1>5, <1>6, LikeFollows
<1>8. d.overlooked[m] \ {c} \in SUBSET Creatures
  BY <1>0, <1>7, Typed DEF Sound
<1>9. [d EXCEPT !.overlooked[m] = d.overlooked[m] \ {c}] \in Like(d)
  BY <1>0, <1>7, <1>8, OverlooksLike
<1> QED
  BY <1>1, <1>7, <1>9, LikeFollows

LEMMA SelectLike ==
    ASSUME NEW w \in Sound, NEW m \in Creatures, NEW t \in Someone
    PROVE  SelectTarget(w, m, t) \in Like(w)
<1> DEFINE a == SetAttackedCreature(w, m, t)
<1>1. a \in Like(w)
  BY SetAttackedLike
<1>2. SelectTarget(w, m, t) \in {w, SetFollowCreature(a, m, t)}
  BY DEF SelectTarget
<1> HIDE DEF a
<1>3. SetFollowCreature(a, m, t) \in Like(a)
  BY <1>1, LikeIsAfter, SetFollowLike
<1> QED
  BY <1>1, <1>2, <1>3, LikeFollows, Reflexive

----------------------------------------------------------------------------
(* What leaves the pointers and the map as they are.                       *)

\* The fields of a world.
Fields == {"status", "place", "alive", "uses", "releases", "check", "listed", "master", "summons",
           "attacked", "followed", "targets", "friends", "idle", "inRange", "overlooked"}

\* v is a world like w but for what the server counts, lists and lets think.
Same(w, v) ==
    /\ DOMAIN v = Fields
    /\ v.status = w.status /\ v.place = w.place /\ v.master = w.master /\ v.summons = w.summons
    /\ v.attacked = w.attacked /\ v.followed = w.followed

LEMMA WorldFields == ASSUME NEW w \in Worlds PROVE DOMAIN w = Fields
  BY DEF Worlds, Fields

LEMMA SameFollows ==
    ASSUME NEW w, NEW v, NEW u, Same(w, v), Same(v, u)
    PROVE  Same(w, u) /\ DOMAIN v = Fields
  BY DEF Same

LEMMA ListsSame ==
    ASSUME NEW w, DOMAIN w = Fields, NEW m, NEW c
    PROVE  /\ Same(w, AddCreatureCheck(w, m))
           /\ Same(w, RemoveCreatureCheck(w, m)) /\ Same(w, ListsCleared(w, m))
           /\ Same(w, FriendFound(w, m, c)) /\ Same(w, OpponentFound(w, m, c))
           /\ Same(w, FriendLeft(w, m, c))
<1>1. Same(w, AddCreatureCheck(w, m))
  BY DEF Same, Fields, AddCreatureCheck, Used
<1>2. Same(w, RemoveCreatureCheck(w, m))
  BY DEF Same, Fields, RemoveCreatureCheck
<1>3. Same(w, ListsCleared(w, m))
  BY DEF Same, Fields, ListsCleared, ReleasedAll
<1>4. Same(w, FriendFound(w, m, c)) /\ Same(w, OpponentFound(w, m, c))
  BY DEF Same, Fields, FriendFound, OpponentFound, Used
<1>5. Same(w, FriendLeft(w, m, c))
  BY DEF Same, Fields, FriendLeft, ReleasedAll
<1> QED
  BY <1>1, <1>2, <1>3, <1>4, <1>5

LEMMA SetIdleSame ==
    ASSUME NEW w, DOMAIN w = Fields, NEW m, NEW asleep
    PROVE  Same(w, SetIdle(w, m, asleep))
<1>1. CASE ~(w.status[m] = "removed" \/ ~w.alive[m]) /\ asleep
  BY <1>1 DEF Same, Fields, SetIdle, RemoveCreatureCheck, ListsCleared, ReleasedAll
<1>2. CASE ~(w.status[m] = "removed" \/ ~w.alive[m]) /\ ~asleep
  BY <1>2 DEF Same, Fields, SetIdle, AddCreatureCheck, Used
<1>3. CASE w.status[m] = "removed" \/ ~w.alive[m]
  BY <1>3 DEF Same, SetIdle
<1> QED
  BY <1>1, <1>2, <1>3

LEMMA UpdateIdleSame ==
    ASSUME NEW w, DOMAIN w = Fields, NEW m
    PROVE  Same(w, UpdateIdleStatus(w, m))
  BY SetIdleSame DEF UpdateIdleStatus

LEMMA OnFoundSame ==
    ASSUME NEW w, DOMAIN w = Fields, NEW m, NEW c
    PROVE  Same(w, OnCreatureFound(w, m, c))
<1> DEFINE a == FriendFound(w, m, c)
           b == OpponentFound(a, m, c)
<1>1. Same(w, a)
  BY ListsSame
<1>2. OnCreatureFound(w, m, c) = UpdateIdleStatus(b, m)
  BY DEF OnCreatureFound
<1> HIDE DEF a
<1>3. Same(a, b)
  BY <1>1, ListsSame DEF Same
<1> HIDE DEF b
<1>4. Same(b, UpdateIdleStatus(b, m))
  BY <1>3, UpdateIdleSame DEF Same
<1> QED
  BY <1>1, <1>2, <1>3, <1>4 DEF Same

LEMMA SeenSame ==
    ASSUME NEW w, DOMAIN w = Fields, NEW m, NEW c, NEW sees
    PROVE  /\ Same(w, [w EXCEPT !.inRange[m] = sees])
           /\ Same(w, MasterSeen(w, m, c, sees))
<1> DEFINE a == [w EXCEPT !.inRange[m] = sees]
<1>1. Same(w, a)
  BY DEF Same, Fields
<1>2. MasterSeen(w, m, c, sees) = IF w.master[m] = c THEN UpdateIdleStatus(a, m) ELSE w
  BY DEF MasterSeen
<1> HIDE DEF a
<1>3. Same(a, UpdateIdleStatus(a, m)) /\ Same(w, w)
  BY <1>1, UpdateIdleSame DEF Same
<1>4. Same(w, UpdateIdleStatus(a, m))
  BY <1>1, <1>3, SameFollows
<1>5. Same(w, MasterSeen(w, m, c, sees))
  BY <1>2, <1>3, <1>4
<1> QED
  BY <1>1, <1>5 DEF a

LEMMA OnEnterSame ==
    ASSUME NEW w, DOMAIN w = Fields, NEW m, NEW c
    PROVE  Same(w, OnCreatureEnter(w, m, c))
<1> DEFINE a == MasterSeen(w, m, c, TRUE)
<1>1. Same(w, a)
  BY SeenSame
<1>2. OnCreatureEnter(w, m, c) = OnCreatureFound(a, m, c)
  BY DEF OnCreatureEnter
<1> HIDE DEF a
<1>3. Same(a, OnCreatureFound(a, m, c))
  BY <1>1, OnFoundSame DEF Same
<1> QED
  BY <1>1, <1>2, <1>3, SameFollows

LEMMA OpponentLeftSame ==
    ASSUME NEW w, DOMAIN w = Fields, NEW m, NEW c
    PROVE  Same(w, OpponentLeft(w, m, c))
<1> DEFINE v == ReleasedAll([w EXCEPT !.targets[m] = @ \ {c}], {c})
<1>1. OpponentLeft(w, m, c) = IF IsOpponent(w, m, c) /\ c \in w.targets[m]
                              THEN (IF v.targets[m] = {} THEN UpdateIdleStatus(v, m) ELSE v)
                              ELSE w
  BY DEF OpponentLeft
<1>2. Same(w, v) /\ Same(w, w)
  BY DEF Same, Fields, ReleasedAll
<1> HIDE DEF v
<1>3. Same(v, UpdateIdleStatus(v, m))
  BY <1>2, UpdateIdleSame DEF Same
<1>4. Same(w, UpdateIdleStatus(v, m))
  BY <1>2, <1>3, SameFollows
<1> QED
  BY <1>1, <1>2, <1>4

LEMMA OnLeaveSame ==
    ASSUME NEW w, DOMAIN w = Fields, NEW m, NEW c
    PROVE  Same(w, OnCreatureLeave(w, m, c))
<1> DEFINE a == MasterSeen(w, m, c, FALSE)
           b == FriendLeft(a, m, c)
           d == OpponentLeft(b, m, c)
<1>1. OnCreatureLeave(w, m, c) = [d EXCEPT !.overlooked[m] = @ \ {c}]
  BY DEF OnCreatureLeave
<1>2. Same(w, a)
  BY SeenSame
<1> HIDE DEF a
<1>3. Same(a, b)
  BY <1>2, ListsSame DEF Same
<1> HIDE DEF b
<1>4. Same(b, d)
  BY <1>3, OpponentLeftSame DEF Same
<1> HIDE DEF d
<1>5. Same(d, [d EXCEPT !.overlooked[m] = @ \ {c}])
  BY <1>4 DEF Same, Fields
<1> QED
  BY <1>1, <1>2, <1>3, <1>4, <1>5 DEF Same

LEMMA HealthLostSame ==
    ASSUME NEW w, DOMAIN w = Fields, NEW c, NEW dies
    PROVE  Same(w, HealthLost(w, c, dies))
<1> DEFINE v == IF c \in Monsters THEN SetIdle(w, c, FALSE) ELSE w
<1>1. HealthLost(w, c, dies) = [v EXCEPT !.alive[c] = ~dies]
  BY DEF HealthLost
<1>2. Same(w, v)
  <2>1. Same(w, w)
    BY DEF Same
  <2>2. Same(w, SetIdle(w, c, FALSE))
    BY SetIdleSame
  <2> QED
    BY <2>1, <2>2
<1> HIDE DEF v
<1>3. Same(v, [v EXCEPT !.alive[c] = ~dies])
  BY <1>2 DEF Same, Fields
<1> QED
  BY <1>1, <1>2, <1>3, SameFollows

----------------------------------------------------------------------------
(* Whom creatures attack and follow.                                       *)

Points(w, d, t) == t # Nobody /\ (w.attacked[d] = t \/ w.followed[d] = t)

\* Nobody came or went or moved, and nobody refers to or looks at anybody new.
Loosed(w, v) ==
    /\ DOMAIN v = Fields /\ v.status = w.status /\ v.place = w.place
    /\ \A d \in Creatures :
        /\ v.summons[d] \subseteq w.summons[d]
        /\ \A t \in Creatures : Points(v, d, t) => Points(w, d, t)

\* Nobody came or moved. Who points at somebody new sees that one on the map,
\* and whoever was removed is no longer pointed at by those who saw it.
Steers(w, v) ==
    /\ DOMAIN v = Fields /\ v.place = w.place
    /\ \A d \in Creatures :
        /\ v.status[d] = "none" <=> w.status[d] = "none"
        /\ v.status[d] = "placed" => w.status[d] = "placed"
        /\ v.summons[d] \subseteq w.summons[d]
        /\ \A t \in Creatures : Points(v, d, t) =>
            /\ \/ Points(w, d, t)
               \/ w.status[d] # "none" /\ w.status[t] = "placed" /\ CanSee(w, d, t)
            /\ v.status[d] = "placed" /\ w.status[t] = "placed" /\ CanSee(w, d, t)
                  => v.status[t] = "placed"

LEMMA SameLoosed == ASSUME NEW w, NEW v, Same(w, v) PROVE Loosed(w, v)
  BY DEF Same, Loosed, Points

LEMMA LoosedFollows ==
    ASSUME NEW w, NEW v, NEW u, Loosed(w, v), Loosed(v, u)
    PROVE  Loosed(w, u)
  BY DEF Loosed

LEMMA LoosedSteers == ASSUME NEW w, NEW v, Loosed(w, v) PROVE Steers(w, v)
  BY DEF Loosed, Steers

LEMMA SteersFollows ==
    ASSUME NEW w, NEW v, NEW u, Steers(w, v), Steers(v, u)
    PROVE  Steers(w, u)
<1>1. /\ DOMAIN u = Fields /\ u.place = w.place
      /\ \A d, t \in Creatures : CanSee(v, d, t) <=> CanSee(w, d, t)
  BY DEF Steers, CanSee
<1> SUFFICES ASSUME NEW d \in Creatures
             PROVE  /\ u.status[d] = "none" <=> w.status[d] = "none"
                    /\ u.status[d] = "placed" => w.status[d] = "placed"
                    /\ u.summons[d] \subseteq w.summons[d]
                    /\ \A t \in Creatures : Points(u, d, t) =>
                        /\ \/ Points(w, d, t)
                           \/ w.status[d] # "none" /\ w.status[t] = "placed" /\ CanSee(w, d, t)
                        /\ u.status[d] = "placed" /\ w.status[t] = "placed" /\ CanSee(w, d, t)
                              => u.status[t] = "placed"
  BY <1>1 DEF Steers
<1>2. /\ u.status[d] = "none" <=> w.status[d] = "none"
      /\ u.status[d] = "placed" => w.status[d] = "placed"
      /\ u.summons[d] \subseteq w.summons[d]
  BY DEF Steers
<1>3. ASSUME NEW t \in Creatures, Points(u, d, t)
      PROVE  /\ \/ Points(w, d, t)
                \/ w.status[d] # "none" /\ w.status[t] = "placed" /\ CanSee(w, d, t)
             /\ u.status[d] = "placed" /\ w.status[t] = "placed" /\ CanSee(w, d, t)
                   => u.status[t] = "placed"
  <2>1. /\ \/ Points(v, d, t)
           \/ v.status[d] # "none" /\ v.status[t] = "placed" /\ CanSee(v, d, t)
        /\ u.status[d] = "placed" /\ v.status[t] = "placed" /\ CanSee(v, d, t)
              => u.status[t] = "placed"
    BY <1>3 DEF Steers
  <2>2. Points(v, d, t) =>
            /\ \/ Points(w, d, t)
               \/ w.status[d] # "none" /\ w.status[t] = "placed" /\ CanSee(w, d, t)
            /\ v.status[d] = "placed" /\ w.status[t] = "placed" /\ CanSee(w, d, t)
                  => v.status[t] = "placed"
    BY DEF Steers
  <2>3. /\ v.status[d] = "none" <=> w.status[d] = "none"
        /\ v.status[t] = "placed" => w.status[t] = "placed"
        /\ u.status[d] = "placed" => v.status[d] = "placed"
    BY DEF Steers
  <2> QED
    BY <1>1, <2>1, <2>2, <2>3
<1> QED
  BY <1>2, <1>3

\* What a creature points at after it was told to follow t.
LEMMA SetFollowIs ==
    ASSUME NEW w \in Worlds, NEW c \in Creatures, NEW t \in Someone
    PROVE  LET v == SetFollowCreature(w, c, t)
           IN  /\ DOMAIN v = Fields /\ v.status = w.status /\ v.place = w.place
               /\ v.master = w.master /\ v.summons = w.summons
               /\ \A d \in Creatures :
                    /\ v.attacked[d] # w.attacked[d] => d = c /\ v.attacked[d] = Nobody
                    /\ v.followed[d] # w.followed[d] =>
                        d = c /\ (v.followed[d] = Nobody
                                  \/ (v.followed[d] = t /\ CanSee(w, c, t)))
               /\ t = Nobody => v.followed[c] = Nobody
<1>1. CASE t = Nobody \/ w.followed[c] = t
  BY <1>1, Typed, WorldFields DEF SetFollowCreature, Fields
<1>2. CASE ~(t = Nobody \/ w.followed[c] = t) /\ CanSee(w, c, t)
  BY <1>2, Typed, WorldFields DEF SetFollowCreature, Fields
<1>3. CASE ~(t = Nobody \/ w.followed[c] = t) /\ ~CanSee(w, c, t)
  BY <1>3, Typed, WorldFields DEF SetFollowCreature, Fields
<1> QED
  BY <1>1, <1>2, <1>3

LEMMA SetAttackedIs ==
    ASSUME NEW w \in Worlds, NEW c \in Creatures, NEW t \in Someone
    PROVE  LET v == SetAttackedCreature(w, c, t)
           IN  /\ DOMAIN v = Fields /\ v.status = w.status /\ v.place = w.place
               /\ v.master = w.master /\ v.summons = w.summons
               /\ \A d \in Creatures :
                    /\ v.followed[d] \in {w.followed[d], Nobody}
                    /\ v.attacked[d] # w.attacked[d] =>
                        /\ d = c \/ d \in w.summons[c]
                        /\ v.attacked[d] = Nobody
                              \/ (v.attacked[d] = t /\ CanSee(w, d, t))
               /\ t = Nobody => v.attacked[c] = Nobody
<1> DEFINE Sees(d) == t = Nobody \/ CanSee(w, d, t)
           at == [d \in Creatures |-> IF d = c \/ (d \in w.summons[c] /\ Sees(c))
                                      THEN (IF Sees(d) THEN t ELSE Nobody)
                                      ELSE w.attacked[d]]
           v == [w EXCEPT !.attacked = at]
<1>1. SetAttackedCreature(w, c, t) =
        IF c \in Adventurers /\ t = Nobody THEN SetFollowCreature(v, c, Nobody) ELSE v
  BY DEF SetAttackedCreature
<1>2. at \in [Creatures -> Someone]
  BY Typed, NobodyIs
<1>3. \A d \in Creatures : at[d] # w.attacked[d] =>
        /\ d = c \/ d \in w.summons[c]
        /\ at[d] = Nobody \/ (at[d] = t /\ CanSee(w, d, t))
  OBVIOUS
<1>4. t = Nobody => at[c] = Nobody
  OBVIOUS
<1> HIDE DEF at
<1>5. /\ v \in Worlds /\ v.attacked = at
      /\ DOMAIN v = Fields /\ v.status = w.status /\ v.place = w.place
      /\ v.master = w.master /\ v.summons = w.summons /\ v.followed = w.followed
  BY <1>2 DEF Worlds, Fields
<1> HIDE DEF v
<1>6. CASE c \in Adventurers /\ t = Nobody
  <2> DEFINE u == SetFollowCreature(v, c, Nobody)
  <2>1. /\ DOMAIN u = Fields /\ u.status = v.status /\ u.place = v.place
        /\ u.master = v.master /\ u.summons = v.summons
        /\ \A d \in Creatures :
            /\ u.attacked[d] # v.attacked[d] => d = c /\ u.attacked[d] = Nobody
            /\ u.followed[d] # v.followed[d] =>
                    d = c /\ (u.followed[d] = Nobody
                              \/ (u.followed[d] = Nobody /\ CanSee(v, c, Nobody)))
    BY <1>5, SetFollowIs, NobodyIs
  <2>2. SetAttackedCreature(w, c, t) = u
    BY <1>1, <1>6
  <2> HIDE DEF u
  <2> QED
    BY <1>3, <1>4, <1>5, <1>6, <2>1, <2>2
<1>7. CASE ~(c \in Adventurers /\ t = Nobody)
  BY <1>1, <1>3, <1>4, <1>5, <1>7
<1> QED
  BY <1>6, <1>7

LEMMA SameReflexive == ASSUME NEW w \in Sound PROVE Same(w, w) /\ Loosed(w, w) /\ DOMAIN w = Fields
<1>1. DOMAIN w = Fields
  BY WorldFields DEF Sound
<1> QED
  BY <1>1 DEF Same, Loosed

\* Losing sight of t clears the pointers at it and sets none.
LEMMA LostIs ==
    ASSUME NEW w \in Sound, NEW c \in Creatures, NEW t \in Creatures
    PROVE  /\ Loosed(w, Lost(w, c, t)) /\ Lost(w, c, t).master = w.master
           /\ ~Points(Lost(w, c, t), c, t)
           /\ Lost(w, c, t).attacked[c] \in {w.attacked[c], Nobody}
           /\ Lost(w, c, t).followed[c] \in {w.followed[c], Nobody}
<1> DEFINE a == SetAttackedCreature(w, c, Nobody)
           v == IF w.attacked[c] = t THEN a ELSE w
           b == SetFollowCreature(v, c, Nobody)
           u == Lost(w, c, t)
<1>1. u = IF v.followed[c] = t THEN b ELSE v
  BY DEF Lost
<1>2. /\ DOMAIN a = Fields /\ a.status = w.status /\ a.place = w.place
      /\ a.master = w.master /\ a.summons = w.summons
      /\ \A d \in Creatures :
            /\ a.followed[d] \in {w.followed[d], Nobody}
            /\ a.attacked[d] # w.attacked[d] => a.attacked[d] = Nobody
      /\ a.attacked[c] = Nobody
  BY SetAttackedIs, NobodyIs DEF Sound
<1>3. v \in Sound /\ t # Nobody
  BY SetAttackedLike, LikeIsAfter, NobodyIs
<1> HIDE DEF a
<1>4. /\ DOMAIN v = Fields /\ v.status = w.status /\ v.place = w.place
      /\ v.master = w.master /\ v.summons = w.summons
      /\ \A d \in Creatures :
            /\ v.followed[d] \in {w.followed[d], Nobody}
            /\ v.attacked[d] \in {w.attacked[d], Nobody}
      /\ v.attacked[c] # t
  BY <1>2, <1>3, SameReflexive
<1> HIDE DEF v, u
<1>5. /\ DOMAIN b = Fields /\ b.status = v.status /\ b.place = v.place
      /\ b.master = v.master /\ b.summons = v.summons
      /\ \A d \in Creatures :
            /\ b.attacked[d] # v.attacked[d] => b.attacked[d] = Nobody
            /\ b.followed[d] # v.followed[d] => b.followed[d] = Nobody
      /\ b.followed[c] = Nobody
  BY <1>3, SetFollowIs, NobodyIs DEF Sound
<1> HIDE DEF b
<1>6. /\ DOMAIN u = Fields /\ u.status = w.status /\ u.place = w.place
      /\ u.master = w.master /\ u.summons = w.summons
  BY <1>1, <1>4, <1>5
<1>7. ASSUME NEW d \in Creatures
      PROVE  u.attacked[d] \in {w.attacked[d], Nobody} /\ u.followed[d] \in {w.followed[d], Nobody}
  BY <1>1, <1>4, <1>5
<1>8. u.attacked[c] # t /\ u.followed[c] # t
  BY <1>1, <1>3, <1>4, <1>5
<1>9. Loosed(w, u)
  BY <1>6, <1>7 DEF Loosed, Points
<1> QED
  BY <1>6, <1>7, <1>8, <1>9 DEF u, Points

\* Who is told to follow or to attack somebody on the map does so when it sees that one.
LEMMA SetFollowSteers ==
    ASSUME NEW w \in Sound, NEW c \in Creatures, w.status[c] # "none", NEW t \in Someone,
           t # Nobody => w.status[t] = "placed"
    PROVE  /\ Steers(w, SetFollowCreature(w, c, t))
           /\ SetFollowCreature(w, c, t).status = w.status
           /\ SetFollowCreature(w, c, t).summons = w.summons
<1> DEFINE v == SetFollowCreature(w, c, t)
<1>1. /\ DOMAIN v = Fields /\ v.status = w.status /\ v.place = w.place
      /\ v.master = w.master /\ v.summons = w.summons
      /\ \A d \in Creatures :
            /\ v.attacked[d] # w.attacked[d] => d = c /\ v.attacked[d] = Nobody
            /\ v.followed[d] # w.followed[d] =>
                        d = c /\ (v.followed[d] = Nobody
                                  \/ (v.followed[d] = t /\ CanSee(w, c, t)))
  BY SetFollowIs DEF Sound
<1> HIDE DEF v
<1>2. ASSUME NEW d \in Creatures, NEW u \in Creatures, Points(v, d, u)
      PROVE  \/ Points(w, d, u)
             \/ w.status[d] # "none" /\ w.status[u] = "placed" /\ CanSee(w, d, u)
  BY <1>1, <1>2, NobodyIs DEF Points
<1>3. Steers(w, v)
  BY <1>1, <1>2 DEF Steers
<1> QED
  BY <1>1, <1>3 DEF v

LEMMA SetAttackedSteers ==
    ASSUME NEW w \in Sound, NEW c \in Creatures, w.status[c] # "none", NEW t \in Someone,
           t # Nobody => w.status[t] = "placed"
    PROVE  /\ Steers(w, SetAttackedCreature(w, c, t))
           /\ SetAttackedCreature(w, c, t).status = w.status
           /\ SetAttackedCreature(w, c, t).place = w.place
           /\ SetAttackedCreature(w, c, t).summons = w.summons
<1> DEFINE v == SetAttackedCreature(w, c, t)
<1>1. /\ DOMAIN v = Fields /\ v.status = w.status /\ v.place = w.place
      /\ v.master = w.master /\ v.summons = w.summons
      /\ \A d \in Creatures :
            /\ v.followed[d] \in {w.followed[d], Nobody}
            /\ v.attacked[d] # w.attacked[d] =>
                        /\ d = c \/ d \in w.summons[c]
                        /\ v.attacked[d] = Nobody
                              \/ (v.attacked[d] = t /\ CanSee(w, d, t))
  BY SetAttackedIs DEF Sound
<1> HIDE DEF v
<1>2. \A d \in Creatures : d \in w.summons[c] => w.status[d] # "none"
  BY NobodyIs DEF Sound, Agree, Fresh
<1>3. ASSUME NEW d \in Creatures, NEW u \in Creatures, Points(v, d, u)
      PROVE  \/ Points(w, d, u)
             \/ w.status[d] # "none" /\ w.status[u] = "placed" /\ CanSee(w, d, u)
  BY <1>1, <1>2, <1>3, NobodyIs DEF Points
<1>4. Steers(w, v)
  BY <1>1, <1>3 DEF Steers
<1> QED
  BY <1>1, <1>4 DEF v

\* Giving up the own target or whom one follows sets no pointers.
LEMMA GiveUpLoosed ==
    ASSUME NEW w \in Sound, NEW c \in Creatures
    PROVE  /\ Loosed(w, SetFollowCreature(w, c, Nobody))
           /\ Loosed(w, SetAttackedCreature(w, c, Nobody))
<1> DEFINE a == SetFollowCreature(w, c, Nobody)
           b == SetAttackedCreature(w, c, Nobody)
<1>1. /\ DOMAIN a = Fields /\ a.status = w.status /\ a.place = w.place
      /\ a.summons = w.summons
      /\ \A d \in Creatures :
            /\ a.attacked[d] # w.attacked[d] => a.attacked[d] = Nobody
            /\ a.followed[d] # w.followed[d] => a.followed[d] = Nobody
  BY SetFollowIs, NobodyIs DEF Sound
<1>2. /\ DOMAIN b = Fields /\ b.status = w.status /\ b.place = w.place
      /\ b.summons = w.summons
      /\ \A d \in Creatures :
            /\ b.followed[d] \in {w.followed[d], Nobody}
            /\ b.attacked[d] # w.attacked[d] => b.attacked[d] = Nobody
  BY SetAttackedIs, NobodyIs DEF Sound
<1> HIDE DEF a, b
<1>3. Loosed(w, a)
  BY <1>1 DEF Loosed, Points
<1>4. Loosed(w, b)
  BY <1>2 DEF Loosed, Points
<1> QED
  BY <1>3, <1>4 DEF a, b

LEMMA SelectSteers ==
    ASSUME NEW w \in Sound, NEW m \in Creatures, w.status[m] # "none", NEW t \in Someone
    PROVE  Steers(w, SelectTarget(w, m, t)) /\ SelectTarget(w, m, t).status = w.status
<1> DEFINE a == SetAttackedCreature(w, m, t)
<1>1. CASE ~Present(w, t) \/ t \notin w.targets[m]
  BY <1>1, SameReflexive, LoosedSteers DEF SelectTarget
<1>2. CASE Present(w, t) /\ t \in w.targets[m]
  <2>1. SelectTarget(w, m, t) = SetFollowCreature(a, m, t)
    BY <1>2 DEF SelectTarget
  <2>2. Steers(w, a) /\ a.status = w.status /\ a \in Sound
    BY <1>2, SetAttackedSteers, SetAttackedLike, LikeIsAfter DEF Present
  <2> HIDE DEF a
  <2>3. Steers(a, SetFollowCreature(a, m, t)) /\ SetFollowCreature(a, m, t).status = a.status
    BY <1>2, <2>2, SetFollowSteers DEF Present
  <2> QED
    BY <2>1, <2>2, <2>3, SteersFollows
<1> QED
  BY <1>1, <1>2

\* A summons that is given up only frees pointers.
LEMMA RemoveSummonLoosed ==
    ASSUME NEW w \in Sound, NEW c \in Creatures, NEW s
    PROVE  /\ Loosed(w, RemoveSummon(w, c, s)) /\ s \notin RemoveSummon(w, c, s).summons[c]
           /\ RemoveSummon(w, c, s).attacked = w.attacked
           /\ RemoveSummon(w, c, s).followed = w.followed
<1>1. CASE s \notin w.summons[c]
  BY <1>1, SameReflexive DEF RemoveSummon
<1>2. CASE s \in w.summons[c]
  <2> DEFINE b == [w EXCEPT !.master[s] = Nobody, !.summons[c] = @ \ {s}]
             v == RemoveSummon(w, c, s)
  <2>1. /\ w \in Worlds /\ w.summons \in [Creatures -> SUBSET Monsters] /\ DOMAIN w = Fields
    BY Typed, WorldFields DEF Sound
  <2>2. /\ DOMAIN b = Fields /\ b.status = w.status /\ b.place = w.place
        /\ b.attacked = w.attacked /\ b.followed = w.followed
        /\ \A d \in Creatures : b.summons[d] \subseteq w.summons[d]
        /\ s \notin b.summons[c]
    BY <2>1 DEF Fields
  <2>3. v = [b EXCEPT !.uses = v.uses]
    BY <1>2 DEF RemoveSummon, ReleasedAll
  <2> HIDE DEF b, v
  <2>4. /\ DOMAIN v = Fields /\ v.status = w.status /\ v.place = w.place
        /\ v.attacked = w.attacked /\ v.followed = w.followed
        /\ v.summons = b.summons
    BY <2>2, <2>3 DEF Fields
  <2>5. Loosed(w, v)
    BY <2>2, <2>4 DEF Loosed, Points
  <2> QED
    BY <2>2, <2>4, <2>5 DEF v
<1> QED
  BY <1>1, <1>2

LEMMA LeavesMasterLoosed ==
    ASSUME NEW w \in Sound, NEW c \in Creatures
    PROVE  /\ Loosed(w, LeavesMaster(w, c))
           /\ LeavesMaster(w, c).attacked = w.attacked
           /\ LeavesMaster(w, c).followed = w.followed
<1>1. CASE w.master[c] = Nobody
  BY <1>1, SameReflexive DEF LeavesMaster
<1>2. CASE w.master[c] # Nobody
  <2>1. w.master[c] \in Creatures
    BY <1>2, Typed DEF Sound, Someone
  <2> QED
    BY <2>1, RemoveSummonLoosed, SameReflexive DEF LeavesMaster
<1> QED
  BY <1>1, <1>2

\* Summons have none themselves, and are on the map only together with their master.
Flat(w) == \A c \in Creatures : \A s \in w.summons[c] : w.summons[s] = {}
Attended(w) ==
    \A c \in Creatures : \A s \in w.summons[c] :
        w.status[s] = "placed" => w.status[c] = "placed"
\* Who does not exist has no summons and points at nobody.
Blank(w) ==
    \A c \in Creatures : w.status[c] = "none" =>
        w.summons[c] = {} /\ \A t \in Creatures : ~Points(w, c, t)
\* Who is on the map points only at whom it sees there.
Aimed(w) ==
    \A c, t \in Creatures : w.status[c] = "placed" /\ Points(w, c, t) =>
        w.status[t] = "placed" /\ CanSee(w, c, t)

Led(w) == Flat(w) /\ Attended(w) /\ Blank(w) /\ Aimed(w)

LEMMA SteersLeads ==
    ASSUME NEW w \in Sound, NEW v, Steers(w, v)
    PROVE  /\ Flat(w) => Flat(v)
           /\ Blank(w) => Blank(v)
           /\ Aimed(w) => Aimed(v)
<1>1. \A c \in Creatures : w.summons[c] \subseteq Creatures
  BY Typed, MonstersAre DEF Sound
<1>2. ASSUME Flat(w)
      PROVE  Flat(v)
  <2> SUFFICES ASSUME NEW c \in Creatures, NEW s \in v.summons[c]
               PROVE  v.summons[s] = {}
    BY DEF Flat
  <2>1. s \in w.summons[c] /\ s \in Creatures
    BY <1>1 DEF Steers
  <2>2. w.summons[s] = {} /\ v.summons[s] \subseteq w.summons[s]
    BY <1>2, <2>1 DEF Flat, Steers
  <2> QED
    BY <2>2
<1>3. ASSUME Blank(w)
      PROVE  Blank(v)
  <2> SUFFICES ASSUME NEW c \in Creatures, v.status[c] = "none"
               PROVE  v.summons[c] = {} /\ \A t \in Creatures : ~Points(v, c, t)
    BY DEF Blank
  <2>1. w.status[c] = "none" /\ v.summons[c] \subseteq w.summons[c]
    BY DEF Steers
  <2>2. w.summons[c] = {} /\ \A t \in Creatures : ~Points(w, c, t)
    BY <1>3, <2>1 DEF Blank
  <2>3. \A t \in Creatures : ~Points(v, c, t)
    BY <2>1, <2>2 DEF Steers
  <2> QED
    BY <2>1, <2>2, <2>3
<1>4. ASSUME Aimed(w)
      PROVE  Aimed(v)
  <2> SUFFICES ASSUME NEW c \in Creatures, NEW t \in Creatures, v.status[c] = "placed",
                      Points(v, c, t)
               PROVE  v.status[t] = "placed" /\ CanSee(v, c, t)
    BY DEF Aimed
  <2>1. /\ \/ Points(w, c, t)
           \/ w.status[c] # "none" /\ w.status[t] = "placed" /\ CanSee(w, c, t)
        /\ w.status[t] = "placed" /\ CanSee(w, c, t) => v.status[t] = "placed"
        /\ w.status[c] = "placed" /\ v.place = w.place
    BY DEF Steers
  <2>2. w.status[t] = "placed" /\ CanSee(w, c, t)
    BY <1>4, <2>1 DEF Aimed
  <2> QED
    BY <2>1, <2>2 DEF CanSee
<1> QED
  BY <1>2, <1>3, <1>4

\* Where nobody was removed, summons are still attended.
LEMMA SteersLed ==
    ASSUME NEW w \in Sound, NEW v, Steers(w, v), v.status = w.status
    PROVE  /\ Attended(w) => Attended(v)
           /\ Led(w) => Led(v)
<1>1. ASSUME Attended(w)
      PROVE  Attended(v)
  <2> SUFFICES ASSUME NEW c \in Creatures, NEW s \in v.summons[c], v.status[s] = "placed"
               PROVE  v.status[c] = "placed"
    BY DEF Attended
  <2>1. s \in w.summons[c]
    BY DEF Steers
  <2> QED
    BY <1>1, <2>1 DEF Attended
<1> QED
  BY <1>1, SteersLeads DEF Led

LEMMA LoosedLed ==
    ASSUME NEW w \in Sound, NEW v, Loosed(w, v)
    PROVE  Steers(w, v) /\ (Led(w) => Led(v))
<1>1. Steers(w, v) /\ v.status = w.status
  BY LoosedSteers DEF Loosed
<1> QED
  BY <1>1, SteersLed

\* Everybody who sees s is in the order.
Seen(w, order, s) ==
    \A d \in Creatures : w.status[d] = "placed" /\ CanSee(w, d, s) =>
        \E k \in 1 .. Len(order) : order[k] = d
\* ... and so for the summons of c, which are told about with it.
SeenAll(w, order, c) == \A s \in {c} \cup w.summons[c] : Seen(w, order, s)
\* Everybody who sees the place x is in the order.
SeenAt(w, order, x) ==
    \A d \in Creatures : w.status[d] = "placed" /\ Near(w.place[d], x) =>
        \E k \in 1 .. Len(order) : order[k] = d

LEMMA SteersSeen ==
    ASSUME NEW w, NEW v, Steers(w, v), NEW order, NEW c \in Creatures
    PROVE  /\ \A s : Seen(w, order, s) => Seen(v, order, s)
           /\ SeenAll(w, order, c) => SeenAll(v, order, c)
<1>1. ASSUME NEW s, Seen(w, order, s)
      PROVE  Seen(v, order, s)
  BY <1>1 DEF Steers, Seen, CanSee
<1>2. v.summons[c] \subseteq w.summons[c]
  BY DEF Steers
<1> QED
  BY <1>1, <1>2 DEF SeenAll

----------------------------------------------------------------------------
(* Those around are told in turn: what each turn keeps, all of them keep.  *)

\* Induction over the natural numbers for a set.
LEMMA FromZero ==
    ASSUME NEW S, 0 \in S, \A n \in Nat : n \in S => n + 1 \in S
    PROVE  \A n \in Nat : n \in S
<1> DEFINE T == Nat \ S
<1>1. SUFFICES ASSUME T # {}
               PROVE  FALSE
  OBVIOUS
<1>2. PICK n \in T : \A m \in T : ~ (<<m, n>> \in OpToRel(<, Nat))
  BY <1>1, WFMin, NatLessThanWellFounded, Zenon
<1>3. \A m \in T : ~(m < n)
  BY <1>2, Zenon DEF OpToRel
<1>4. n # 0 /\ n - 1 \in Nat /\ n - 1 < n /\ n = (n - 1) + 1
  OBVIOUS
<1>5. n - 1 \in S
  BY <1>3, <1>4
<1> QED
  BY <1>4, <1>5

\* What every turn keeps holds after each, and after the last.
LEMMA TurnsStay ==
    ASSUME NEW W, NEW n \in Nat, NEW f, f[0] \in W, \A k \in 1 .. n : f[k - 1] \in W => f[k] \in W
    PROVE  f[n] \in W /\ \A k \in 0 .. n : f[k] \in W
<1> DEFINE S == {k \in Nat : k <= n => f[k] \in W}
<1>1. 0 \in S
  OBVIOUS
<1>2. ASSUME NEW k \in Nat, k \in S
      PROVE  k + 1 \in S
  <2>1. CASE k + 1 <= n
    <3>1. k <= n /\ k + 1 \in 1 .. n /\ (k + 1) - 1 = k
      BY <2>1
    <3> QED
      BY <1>2, <3>1
  <2>2. CASE ~(k + 1 <= n)
    BY <2>2
  <2> QED
    BY <2>1, <2>2
<1> HIDE DEF S
<1>3. \A k \in Nat : k \in S
  BY <1>1, <1>2, FromZero
<1> QED
  BY <1>3 DEF S

\* What the turn of s brings about and later turns keep holds after the last,
\* when s is told: M[s] are the worlds where it holds.
LEMMA TurnsMark ==
    ASSUME NEW W, NEW n \in Nat, NEW f, f[0] \in W, \A k \in 1 .. n : f[k - 1] \in W => f[k] \in W,
           NEW S, NEW order, NEW M,
           \A k \in 1 .. n : f[k - 1] \in W /\ order[k] \in S => f[k] \in M[order[k]],
           \A k \in 1 .. n, s \in S : f[k - 1] \in W /\ f[k - 1] \in M[s] => f[k] \in M[s]
    PROVE  \A j \in 1 .. n : order[j] \in S => f[n] \in M[order[j]]
<1> SUFFICES ASSUME NEW j \in 1 .. n, order[j] \in S
             PROVE  f[n] \in M[order[j]]
  OBVIOUS
<1> DEFINE s == order[j]
           T == {k \in Nat : j <= k /\ k <= n => f[k] \in M[s]}
<1>1. 0 \in T
  OBVIOUS
<1>2. \A k \in 0 .. n : f[k] \in W
  BY TurnsStay
<1>3. ASSUME NEW k \in Nat, k \in T
      PROVE  k + 1 \in T
  <2>1. SUFFICES ASSUME j <= k + 1, k + 1 <= n
                 PROVE  f[k + 1] \in M[s]
    OBVIOUS
  <2>2. k + 1 \in 1 .. n /\ (k + 1) - 1 = k /\ k \in 0 .. n /\ k <= n
    BY <2>1
  <2>3. CASE k + 1 = j
    BY <1>2, <2>2, <2>3
  <2>4. CASE k + 1 # j
    <3>1. j <= k
      BY <2>1, <2>4
    <3>2. f[k] \in M[s]
      BY <1>3, <2>2, <3>1
    <3> QED
      BY <1>2, <2>2, <3>2
  <2> QED
    BY <2>3, <2>4
<1> HIDE DEF T
<1>4. n \in T
  BY <1>1, <1>3, FromZero
<1>5. j <= n /\ n <= n
  OBVIOUS
<1> QED
  BY <1>4, <1>5 DEF T

Turns(W, w, n, F) ==
    {f \in [0 .. n -> W] : f[0] = w /\ \A k \in 1 .. n : f[k] = F[<<f[k - 1], k>>]}

\* For turns that stay in W there is a function that has what comes after each.
LEMMA TurnsExist ==
    ASSUME NEW W, NEW w \in W, NEW n \in Nat, NEW F \in [W \X (1 .. n) -> W]
    PROVE  Turns(W, w, n, F) # {}
<1> DEFINE Runs(m) == {f \in [0 .. m -> W] :
                        f[0] = w /\ \A k \in 1 .. m : f[k] = F[<<f[k - 1], k>>]}
           S == {m \in Nat : m <= n => Runs(m) # {}}
<1>1. 0 \in S
  <2>1. [k \in 0 .. 0 |-> w] \in Runs(0)
    OBVIOUS
  <2> QED
    BY <2>1
<1>2. ASSUME NEW m \in Nat, m \in S
      PROVE  m + 1 \in S
  <2>1. SUFFICES ASSUME m + 1 <= n
                 PROVE  Runs(m + 1) # {}
    OBVIOUS
  <2>2. PICK f : f \in Runs(m)
    BY <1>2, <2>1
  <2>3. /\ f \in [0 .. m -> W] /\ f[0] = w /\ \A k \in 1 .. m : f[k] = F[<<f[k - 1], k>>]
    BY <2>2
  <2> DEFINE g == [k \in 0 .. m + 1 |-> IF k = m + 1 THEN F[<<f[m], m + 1>>] ELSE f[k]]
  <2>4. F[<<f[m], m + 1>>] \in W
    <3>1. f[m] \in W /\ m + 1 \in 1 .. n
      BY <2>1, <2>3
    <3>2. <<f[m], m + 1>> \in W \X (1 .. n)
      BY <3>1
    <3> QED
      BY <3>2
  <2>5. g \in [0 .. m + 1 -> W] /\ g[0] = w
    BY <2>3, <2>4
  <2>6. ASSUME NEW k \in 1 .. m + 1
        PROVE  g[k] = F[<<g[k - 1], k>>]
    <3>1. CASE k = m + 1
      <4>1. k \in 0 .. m + 1 /\ k - 1 \in 0 .. m + 1 /\ k - 1 # m + 1 /\ k - 1 = m
        BY <3>1
      <4> QED
        BY <3>1, <4>1
    <3>2. CASE k # m + 1
      <4>1. /\ k \in 1 .. m /\ k - 1 \in 0 .. m /\ k \in 0 .. m + 1 /\ k - 1 \in 0 .. m + 1
            /\ k - 1 # m + 1
        BY <3>2
      <4>2. g[k] = f[k] /\ g[k - 1] = f[k - 1]
        BY <3>2, <4>1
      <4> QED
        BY <2>3, <4>1, <4>2
    <3> QED
      BY <3>1, <3>2
  <2> HIDE DEF g
  <2>7. g \in Runs(m + 1)
    BY <2>5, <2>6
  <2> QED
    BY <2>7
<1> HIDE DEF S
<1>3. n \in S
  BY <1>1, <1>2, FromZero
<1> QED
  BY <1>3 DEF S, Turns

\* An order without repetitions that is as long as there are elements has them all.
LEMMA InjectiveIsOnto ==
    ASSUME NEW S, IsFiniteSet(S), NEW f \in [1 .. Cardinality(S) -> S],
           \A i, j \in 1 .. Cardinality(S) : f[i] = f[j] => i = j
    PROVE  \A s \in S : \E k \in 1 .. Cardinality(S) : f[k] = s
<1> SUFFICES ASSUME NEW s \in S, \A k \in 1 .. Cardinality(S) : f[k] # s
             PROVE  FALSE
  OBVIOUS
<1> DEFINE n == Cardinality(S)
           D == 1 .. n
           T == S \ {s}
<1>1. n \in Nat /\ IsFiniteSet(T) /\ Cardinality(T) = n - 1
  BY FS_CardinalityType, FS_RemoveElement
<1>2. IsFiniteSet(D) /\ Cardinality(D) = n
  <2>1. IsFiniteSet(D) /\ Cardinality(D) = IF 1 > n THEN 0 ELSE n - 1 + 1
    BY <1>1, FS_Interval
  <2>2. n > 0 \/ n = 0
    BY <1>1
  <2> QED
    BY <1>1, <2>1, <2>2
<1>3. f \in [D -> T]
  OBVIOUS
<1> HIDE DEF n, D, T
<1>4. Cardinality(T) < Cardinality(D)
  BY <1>1, <1>2
<1>5. \E i, j \in D : i # j /\ f[i] = f[j]
  BY <1>1, <1>2, <1>3, <1>4, FS_PigeonHole
<1> QED
  BY <1>5 DEF D, n

LEMMA OrdersAre ==
    ASSUME NEW S \in SUBSET Creatures, NEW order \in OrdersOf[S]
    PROVE  order \in Seq(Creatures) /\ \A s \in S : \E k \in 1 .. Len(order) : order[k] = s
<1>1. IsFiniteSet(S)
  BY CreaturesConstants, FS_Union, FS_Subset DEF Creatures
<1>2. Cardinality(S) \in Nat
  BY <1>1, FS_CardinalityType
<1>3. /\ order \in [1 .. Cardinality(S) -> S]
      /\ \A i, j \in 1 .. Cardinality(S) : order[i] = order[j] => i = j
  BY DEF OrdersOf, SetToSeqs
<1>4. \A s \in S : \E k \in 1 .. Cardinality(S) : order[k] = s
  BY <1>1, <1>3, InjectiveIsOnto
<1>5. order \in Seq(S) /\ Len(order) = Cardinality(S)
  BY <1>2, <1>3
<1>6. order \in Seq(Creatures)
  BY <1>2, <1>3
<1> QED
  BY <1>4, <1>5, <1>6

LEMMA SetToSeqIs ==
    ASSUME NEW S \in SUBSET Creatures
    PROVE  /\ SetToSeq(S) \in Seq(Creatures)
           /\ \A s \in S : \E k \in 1 .. Len(SetToSeq(S)) : SetToSeq(S)[k] = s
<1>1. IsFiniteSet(S)
  BY CreaturesConstants, FS_Union, FS_Subset DEF Creatures
<1>2. Cardinality(S) \in Nat
  BY <1>1, FS_CardinalityType
<1>3. \E f \in [1 .. Cardinality(S) -> S] : IsInjective(f)
  <2>1. PICK f : f \in Bijection(1 .. Cardinality(S), S)
    BY <1>1, FS_CardinalityType DEF ExistsBijection
  <2> QED
    BY <2>1 DEF Bijection, Injection, IsInjective
<1> DEFINE q == SetToSeq(S)
<1>4. q \in [1 .. Cardinality(S) -> S] /\ IsInjective(q)
  BY <1>3 DEF SetToSeq
<1> HIDE DEF q
<1>5. \A i, j \in 1 .. Cardinality(S) : q[i] = q[j] => i = j
  BY <1>4 DEF IsInjective
<1>6. \A s \in S : \E k \in 1 .. Cardinality(S) : q[k] = s
  BY <1>1, <1>4, <1>5, InjectiveIsOnto
<1>7. q \in Seq(Creatures) /\ Len(q) = Cardinality(S)
  BY <1>2, <1>4
<1> QED
  BY <1>6, <1>7 DEF q

----------------------------------------------------------------------------
(* What monsters know of those whom they face.                             *)

\* A monster without a master sees an opponent, and knows of it.
Faces(w, m, c) ==
    /\ w.status[m] = "placed" /\ w.alive[m] /\ w.master[m] = Nobody
    /\ w.status[c] = "placed" /\ CanSee(w, m, c)
    /\ c \in Adventurers \/ w.master[c] \in Adventurers
Knows(w, m, c) == c \in w.overlooked[m] \/ (c \in w.targets[m] /\ w.check[m])

\* m does not meet c anew, and does not forget c that it still faces.
Heed(w, v, m, c) == Faces(v, m, c) => Faces(w, m, c) /\ (Knows(w, m, c) => Knows(v, m, c))
Heeds(w, v) == \A m \in Monsters, c \in Creatures : Heed(w, v, m, c)
\* ... but where c is one of the two, or m the one that may forget.
HeedsBut(w, v, c) ==
    \A m \in Monsters, d \in Creatures : m # c /\ d # c => Heed(w, v, m, d)
HeedsOthers(w, v, m) ==
    \A k \in Monsters, c \in Creatures :
        Faces(v, k, c) => Faces(w, k, c) /\ (k # m /\ Knows(w, k, c) => Knows(v, k, c))

Minds(w, m) == \A c \in Creatures : Faces(w, m, c) => Knows(w, m, c)
Aware(w) == \A m \in Monsters : Minds(w, m)

\* Nothing changed of what the above is about.
Calm(w, v) ==
    /\ DOMAIN v = Fields
    /\ v.status = w.status /\ v.place = w.place /\ v.alive = w.alive /\ v.master = w.master
    /\ v.overlooked = w.overlooked /\ v.targets = w.targets /\ v.check = w.check

LEMMA CalmHeeds == ASSUME NEW w, NEW v, Calm(w, v) PROVE Heeds(w, v)
  BY DEF Calm, Heeds, Heed, Faces, Knows, CanSee

LEMMA CalmFollows ==
    ASSUME NEW w, NEW v, NEW u, Calm(w, v), Calm(v, u)
    PROVE  Calm(w, u)
  BY DEF Calm

LEMMA HeedFollows ==
    ASSUME NEW w, NEW v, NEW u, NEW m, NEW c, Heed(w, v, m, c), Heed(v, u, m, c)
    PROVE  Heed(w, u, m, c)
  BY DEF Heed

LEMMA HeedsFollows ==
    ASSUME NEW w, NEW v, NEW u
    PROVE  /\ Heeds(w, w)
           /\ Heeds(w, v) /\ Heeds(v, u) => Heeds(w, u)
           /\ \A c : HeedsBut(w, v, c) /\ HeedsBut(v, u, c) => HeedsBut(w, u, c)
           /\ \A m : HeedsOthers(w, v, m) /\ HeedsOthers(v, u, m) => HeedsOthers(w, u, m)
           /\ Heeds(w, v) => \A c : HeedsBut(w, v, c) /\ HeedsOthers(w, v, c)
<1>1. Heeds(w, w)
  BY DEF Heeds, Heed
<1>2. Heeds(w, v) /\ Heeds(v, u) => Heeds(w, u)
  BY HeedFollows DEF Heeds
<1>3. \A c : HeedsBut(w, v, c) /\ HeedsBut(v, u, c) => HeedsBut(w, u, c)
  BY HeedFollows DEF HeedsBut
<1>4. \A m : HeedsOthers(w, v, m) /\ HeedsOthers(v, u, m) => HeedsOthers(w, u, m)
  BY DEF HeedsOthers
<1>5. Heeds(w, v) => \A c : HeedsBut(w, v, c) /\ HeedsOthers(w, v, c)
  BY DEF Heeds, Heed, HeedsBut, HeedsOthers
<1> QED
  BY <1>1, <1>2, <1>3, <1>4, <1>5

LEMMA MindsStays ==
    ASSUME NEW w, NEW v, Heeds(w, v)
    PROVE  /\ \A m \in Monsters : Minds(w, m) => Minds(v, m)
           /\ Aware(w) => Aware(v)
  BY DEF Heeds, Heed, Minds, Aware

LEMMA OthersAndOwn ==
    ASSUME NEW w, NEW v, NEW m \in Monsters, HeedsOthers(w, v, m), Minds(v, m)
    PROVE  Heeds(w, v)
  BY DEF Heeds, Heed, HeedsOthers, Minds

\* Whoever sees is seen, and no monster is its own opponent.
LEMMA SeesBack ==
    ASSUME NEW w \in Worlds, NEW c \in Creatures, NEW d \in Creatures
    PROVE  /\ CanSee(w, c, d) <=> CanSee(w, d, c)
           /\ CanSee(w, c, c) /\ (c \in Monsters => ~Faces(w, c, c))
<1>1. \A x, y \in Int : (Near(x, y) <=> Near(y, x)) /\ Near(x, x)
  BY CreaturesConstants DEF Near
<1>2. w.place[c] \in Int /\ w.place[d] \in Int
  BY Typed, CreaturesConstants
<1>3. c \in Monsters => ~Faces(w, c, c)
  BY CreaturesConstants DEF Faces
<1> QED
  BY <1>1, <1>2, <1>3 DEF CanSee

LEMMA CalmReflexive == ASSUME NEW w \in Sound PROVE Calm(w, w)
  BY WorldFields DEF Calm, Sound

LEMMA CalmLists ==
    ASSUME NEW w, DOMAIN w = Fields, NEW m, NEW c
    PROVE  Calm(w, Used(w, c)) /\ Calm(w, FriendFound(w, m, c)) /\ Calm(w, FriendLeft(w, m, c))
<1>1. Calm(w, Used(w, c))
  BY DEF Calm, Fields, Used
<1>2. Calm(w, FriendFound(w, m, c))
  BY DEF Calm, Fields, FriendFound, Used
<1>3. Calm(w, FriendLeft(w, m, c))
  BY DEF Calm, Fields, FriendLeft, ReleasedAll
<1> QED
  BY <1>1, <1>2, <1>3

LEMMA CalmFollow ==
    ASSUME NEW w, DOMAIN w = Fields, NEW c, NEW t
    PROVE  Calm(w, SetFollowCreature(w, c, t))
  BY DEF Calm, Fields, SetFollowCreature

LEMMA CalmAttacked ==
    ASSUME NEW w, DOMAIN w = Fields, NEW c, NEW t
    PROVE  Calm(w, SetAttackedCreature(w, c, t))
<1> DEFINE Sees(d) == t = Nobody \/ CanSee(w, d, t)
           at == [d \in Creatures |-> IF d = c \/ (d \in w.summons[c] /\ Sees(c))
                                      THEN (IF Sees(d) THEN t ELSE Nobody)
                                      ELSE w.attacked[d]]
           v == [w EXCEPT !.attacked = at]
<1>1. SetAttackedCreature(w, c, t) =
        IF c \in Adventurers /\ t = Nobody THEN SetFollowCreature(v, c, Nobody) ELSE v
  BY DEF SetAttackedCreature
<1> HIDE DEF at
<1>2. Calm(w, v)
  BY DEF Calm, Fields
<1> HIDE DEF v
<1>3. Calm(v, SetFollowCreature(v, c, Nobody))
  BY <1>2, CalmFollow DEF Calm
<1> QED
  BY <1>1, <1>2, <1>3, CalmFollows

LEMMA CalmLost ==
    ASSUME NEW w, Calm(w, w), NEW c, NEW t
    PROVE  Calm(w, Lost(w, c, t)) /\ Calm(w, LostIfUnseen(w, c, t))
<1> DEFINE a == SetAttackedCreature(w, c, Nobody)
           v == IF w.attacked[c] = t THEN a ELSE w
           b == SetFollowCreature(v, c, Nobody)
<1>1. Lost(w, c, t) = IF v.followed[c] = t THEN b ELSE v
  BY DEF Lost
<1>2. Calm(w, a)
  BY CalmAttacked DEF Calm
<1> HIDE DEF a
<1>3. Calm(w, v)
  BY <1>2
<1> HIDE DEF v
<1>4. Calm(v, b)
  BY <1>3, CalmFollow DEF Calm
<1> HIDE DEF b
<1>5. Calm(w, Lost(w, c, t))
  BY <1>1, <1>3, <1>4, CalmFollows
<1> QED
  BY <1>5 DEF LostIfUnseen

LEMMA CalmNoticed ==
    ASSUME NEW w, Calm(w, w), NEW s, NEW c
    PROVE  Calm(w, Noticed(w, s, c))
<1> DEFINE v == IF c \in {s, w.followed[s]} THEN LostIfUnseen(w, s, w.followed[s]) ELSE w
<1>1. Noticed(w, s, c) =
        IF c \in {s, v.attacked[s]} THEN LostIfUnseen(v, s, v.attacked[s]) ELSE v
  BY DEF Noticed
<1>2. Calm(w, v)
  BY CalmLost
<1> HIDE DEF v
<1>3. Calm(v, v)
  BY <1>2 DEF Calm
<1>4. \A t : Calm(v, LostIfUnseen(v, s, t))
  BY <1>3, CalmLost
<1> QED
  BY <1>1, <1>2, <1>4, CalmFollows

LEMMA CalmSelect ==
    ASSUME NEW w, Calm(w, w), NEW m, NEW t
    PROVE  Calm(w, SelectTarget(w, m, t)) /\ Calm(w, Chased(w, m, t))
<1> DEFINE a == SetAttackedCreature(w, m, t)
<1>1. Calm(w, a)
  BY CalmAttacked DEF Calm
<1>2. SelectTarget(w, m, t) = IF ~Present(w, t) \/ t \notin w.targets[m] THEN w
                              ELSE SetFollowCreature(a, m, t)
  BY DEF SelectTarget
<1> HIDE DEF a
<1>3. Calm(a, SetFollowCreature(a, m, t))
  BY <1>1, CalmFollow DEF Calm
<1>4. Calm(w, SelectTarget(w, m, t))
  BY <1>1, <1>2, <1>3, CalmFollows
<1> QED
  BY <1>4 DEF Chased

\* To sleep or to wake up is about m only, and who wakes up forgets nobody.
LEMMA SetIdleIs ==
    ASSUME NEW w \in Worlds, NEW m \in Creatures, NEW asleep
    PROVE  LET v == SetIdle(w, m, asleep)
           IN  /\ v.alive = w.alive /\ v.overlooked = w.overlooked
               /\ \A d \in Creatures : d # m =>
                    v.targets[d] = w.targets[d] /\ (w.check[d] => v.check[d])
               /\ ~asleep =>
                    /\ v.targets = w.targets /\ (w.check[m] => v.check[m])
                    /\ w.status[m] = "placed" /\ w.alive[m] => v.check[m]
<1> DEFINE v == SetIdle(w, m, asleep)
<1>0. w.status[m] \in {"none", "placed", "removed"}
  BY Typed
<1>1. CASE w.status[m] = "removed" \/ ~w.alive[m]
  BY <1>1 DEF SetIdle
<1>2. CASE w.status[m] # "removed" /\ w.alive[m] /\ asleep
  <2> DEFINE a == [w EXCEPT !.idle[m] = TRUE]
             b == ListsCleared(a, m)
  <2>1. v = RemoveCreatureCheck(b, m)
    BY <1>2 DEF SetIdle
  <2>2. /\ b.alive = w.alive /\ b.overlooked = w.overlooked /\ b.check = w.check
        /\ \A d \in Creatures : d # m => b.targets[d] = w.targets[d]
        /\ DOMAIN b = Fields
    BY Typed, WorldFields DEF Fields, ListsCleared, ReleasedAll
  <2> HIDE DEF a, b
  <2>3. /\ v.alive = b.alive /\ v.overlooked = b.overlooked /\ v.targets = b.targets
        /\ \A d \in Creatures : d # m => (b.check[d] => v.check[d])
    BY <2>1, <2>2, Typed DEF Fields, RemoveCreatureCheck
  <2> QED
    BY <1>2, <2>2, <2>3
<1>3. CASE w.status[m] # "removed" /\ w.alive[m] /\ ~asleep
  <2> DEFINE a == [w EXCEPT !.idle[m] = FALSE]
  <2>1. v = AddCreatureCheck(a, m)
    BY <1>3 DEF SetIdle
  <2>2. /\ a.alive = w.alive /\ a.overlooked = w.overlooked /\ a.check = w.check
        /\ a.targets = w.targets /\ a.status = w.status /\ DOMAIN a = Fields
    BY WorldFields DEF Fields
  <2> HIDE DEF a
  <2>3. /\ v.alive = a.alive /\ v.overlooked = a.overlooked /\ v.targets = a.targets
        /\ \A d \in Creatures : a.check[d] => v.check[d]
        /\ v.check[m]
    BY <1>3, <2>1, <2>2, Typed DEF Fields, AddCreatureCheck, Used
  <2> QED
    BY <1>3, <2>2, <2>3
<1> QED
  BY <1>1, <1>2, <1>3

LEMMA AddCheckHeeds ==
    ASSUME NEW w \in Worlds, NEW c \in Creatures
    PROVE  Heeds(w, AddCreatureCheck(w, c))
<1> DEFINE v == AddCreatureCheck(w, c)
<1>1. /\ v.alive = w.alive /\ v.overlooked = w.overlooked /\ v.targets = w.targets
      /\ \A d \in Creatures : w.check[d] => v.check[d]
  BY Typed, WorldFields DEF Fields, AddCreatureCheck, Used
<1>2. Same(w, v)
  BY WorldFields, ListsSame
<1> HIDE DEF v
<1>3. Heeds(w, v)
  BY <1>1, <1>2, MonstersAre DEF Heeds, Heed, Faces, Knows, Same, CanSee
<1> QED
  BY <1>3 DEF v

\* Who is not dead loses no check by itself; what m knew it may forget.
LEMMA SetIdleHeeds ==
    ASSUME NEW w \in Worlds, NEW m \in Monsters, NEW asleep
    PROVE  /\ HeedsOthers(w, SetIdle(w, m, asleep), m)
           /\ ~asleep => Heeds(w, SetIdle(w, m, asleep))
<1> DEFINE v == SetIdle(w, m, asleep)
<1>0. m \in Creatures /\ Monsters \subseteq Creatures
  BY MonstersAre
<1>1. Same(w, v)
  BY WorldFields, SetIdleSame
<1>2. /\ v.alive = w.alive /\ v.overlooked = w.overlooked
      /\ \A d \in Creatures : d # m =>
            v.targets[d] = w.targets[d] /\ (w.check[d] => v.check[d])
      /\ ~asleep => v.targets = w.targets /\ (w.check[m] => v.check[m])
  BY <1>0, SetIdleIs
<1> HIDE DEF v
<1>3. \A k \in Monsters, c \in Creatures : Faces(v, k, c) => Faces(w, k, c)
  BY <1>1, <1>2 DEF Faces, Same, CanSee
<1>4. \A k \in Monsters, c \in Creatures : k # m /\ Knows(w, k, c) => Knows(v, k, c)
  BY <1>0, <1>2 DEF Knows
<1>5. ~asleep => \A c \in Creatures : Knows(w, m, c) => Knows(v, m, c)
  BY <1>0, <1>2 DEF Knows
<1>6. HeedsOthers(w, v, m)
  BY <1>3, <1>4 DEF HeedsOthers
<1>7. ~asleep => Heeds(w, v)
  BY <1>3, <1>4, <1>5 DEF Heeds, Heed
<1> QED
  BY <1>6, <1>7 DEF v

\* A monster without a master sleeps only when it has no target.
LEMMA UpdateIdleHeeds ==
    ASSUME NEW w \in Worlds, NEW m \in Monsters
    PROVE  LET v == UpdateIdleStatus(w, m)
           IN  /\ Heeds(w, v) /\ v.alive = w.alive /\ v.overlooked = w.overlooked
               /\ \A c \in Creatures : Faces(v, m, c) /\ c \in w.targets[m] => Knows(v, m, c)
<1> DEFINE asleep == IF IsSummon(w, m)
                     THEN ~w.inRange[m] \/ (w.master[m] \in Monsters /\ w.idle[w.master[m]])
                     ELSE w.targets[m] = {}
           v == SetIdle(w, m, asleep)
<1>0. m \in Creatures /\ Monsters \subseteq Creatures
  BY MonstersAre
<1>1. UpdateIdleStatus(w, m) = v
  BY DEF UpdateIdleStatus
<1>2. w.master[m] = Nobody => (asleep <=> w.targets[m] = {})
  BY DEF IsSummon
<1> HIDE DEF asleep
<1>3. Same(w, v)
  BY WorldFields, SetIdleSame
<1>4. HeedsOthers(w, v, m) /\ (~asleep => Heeds(w, v))
  BY SetIdleHeeds
<1>5. /\ v.alive = w.alive /\ v.overlooked = w.overlooked
      /\ ~asleep => /\ v.targets = w.targets
                    /\ w.status[m] = "placed" /\ w.alive[m] => v.check[m]
  BY <1>0, SetIdleIs
<1> HIDE DEF v
<1>6. ASSUME NEW c \in Creatures, Faces(v, m, c), c \in w.targets[m]
      PROVE  Knows(v, m, c)
  <2>1. w.master[m] = Nobody /\ w.status[m] = "placed" /\ w.alive[m]
    BY <1>3, <1>5, <1>6 DEF Faces, Same
  <2>2. ~asleep
    BY <1>2, <1>6, <2>1
  <2> QED
    BY <1>5, <1>6, <2>1, <2>2 DEF Knows
<1>7. ASSUME NEW c \in Creatures, Faces(v, m, c), Knows(w, m, c)
      PROVE  Knows(v, m, c)
  BY <1>5, <1>6, <1>7 DEF Knows
<1>8. Heeds(w, v)
  BY <1>4, <1>7 DEF Heeds, Heed, HeedsOthers
<1> QED
  BY <1>1, <1>5, <1>6, <1>8

LEMMA CalmRange ==
    ASSUME NEW w, DOMAIN w = Fields, NEW m, NEW sees
    PROVE  Calm(w, [w EXCEPT !.inRange[m] = sees])
  BY DEF Calm, Fields

\* m finds c: what it faces from now on it knows.
LEMMA OnFoundHeeds ==
    ASSUME NEW w \in Sound, NEW m \in Monsters, w.status[m] # "none", NEW c \in Creatures
    PROVE  /\ Heeds(w, OnCreatureFound(w, m, c))
           /\ Faces(OnCreatureFound(w, m, c), m, c) => Knows(OnCreatureFound(w, m, c), m, c)
<1> DEFINE a == FriendFound(w, m, c)
           b == OpponentFound(a, m, c)
           v == UpdateIdleStatus(b, m)
<1>0. m \in Creatures /\ DOMAIN w = Fields
  BY MonstersAre, SameReflexive
<1>1. OnCreatureFound(w, m, c) = v
  BY DEF OnCreatureFound
<1>2. Calm(w, a) /\ a \in Sound /\ a \in Worlds
  <2>1. a \in Like(w) /\ Calm(w, a)
    BY <1>0, CalmLists, FoundLike
  <2> QED
    BY <2>1, LikeIsAfter DEF Sound
<1> HIDE DEF a
<1>3. Same(a, b)
  BY <1>2, WorldFields, ListsSame
<1>4. /\ b.alive = a.alive /\ b.overlooked = a.overlooked /\ b.check = a.check
      /\ \A d \in Creatures : a.targets[d] \subseteq b.targets[d]
      /\ IsOpponent(a, m, c) => c \in b.targets[m]
  BY <1>0, <1>2, Typed, WorldFields DEF Fields, OpponentFound, Used
<1>5. b \in Worlds
  BY <1>0, <1>2, FoundLike, LikeIsAfter DEF Sound
<1> HIDE DEF b
<1>6. Heeds(a, b)
  BY <1>3, <1>4, MonstersAre DEF Heeds, Heed, Faces, Knows, Same, CanSee
<1>7. /\ Heeds(b, v) /\ v.alive = b.alive
      /\ Faces(v, m, c) /\ c \in b.targets[m] => Knows(v, m, c)
  BY <1>5, UpdateIdleHeeds
<1> HIDE DEF v
<1>8. Heeds(w, v)
  BY <1>2, <1>6, <1>7, CalmHeeds, HeedsFollows
<1>9. ASSUME Faces(v, m, c)
      PROVE  Knows(v, m, c)
  <2>1. Faces(a, m, c)
    BY <1>6, <1>7, <1>9 DEF Heeds, Heed
  <2>2. IsOpponent(a, m, c)
    BY <2>1, CreaturesConstants DEF Faces, IsOpponent
  <2> QED
    BY <1>4, <1>7, <1>9, <2>2
<1> QED
  BY <1>1, <1>8, <1>9

LEMMA MasterSeenHeeds ==
    ASSUME NEW w \in Worlds, NEW m \in Monsters, NEW c, NEW sees \in BOOLEAN
    PROVE  Heeds(w, MasterSeen(w, m, c, sees))
<1> DEFINE a == [w EXCEPT !.inRange[m] = sees]
<1>1. Calm(w, a) /\ a \in Worlds
  <2>1. DOMAIN w = Fields /\ m \in Creatures
    BY WorldFields, MonstersAre
  <2>2. a \in Worlds
    BY <2>1 DEF Worlds
  <2> QED
    BY <2>1, <2>2, CalmRange
<1>2. MasterSeen(w, m, c, sees) = IF w.master[m] = c THEN UpdateIdleStatus(a, m) ELSE w
  BY DEF MasterSeen
<1> HIDE DEF a
<1>3. Heeds(a, UpdateIdleStatus(a, m))
  BY <1>1, UpdateIdleHeeds
<1> QED
  BY <1>1, <1>2, <1>3, CalmHeeds, HeedsFollows

LEMMA OnEnterHeeds ==
    ASSUME NEW w \in Sound, NEW m \in Monsters, w.status[m] # "none", NEW c \in Creatures
    PROVE  /\ Heeds(w, OnCreatureEnter(w, m, c))
           /\ Faces(OnCreatureEnter(w, m, c), m, c) => Knows(OnCreatureEnter(w, m, c), m, c)
<1> DEFINE a == MasterSeen(w, m, c, TRUE)
<1>1. a \in Like(w) /\ Heeds(w, a)
  BY SeenLike, MasterSeenHeeds DEF Sound
<1>2. OnCreatureEnter(w, m, c) = OnCreatureFound(a, m, c)
  BY DEF OnCreatureEnter
<1> HIDE DEF a
<1>3. a \in Sound /\ a.status[m] # "none"
  BY <1>1 DEF Like
<1>4. /\ Heeds(a, OnCreatureFound(a, m, c))
      /\ Faces(OnCreatureFound(a, m, c), m, c) => Knows(OnCreatureFound(a, m, c), m, c)
  BY <1>3, OnFoundHeeds
<1> QED
  BY <1>1, <1>2, <1>4, HeedsFollows

\* Who leaves is forgotten by m, and nobody else is.
LEMMA OpponentLeftHeeds ==
    ASSUME NEW w \in Sound, NEW m \in Monsters, w.status[m] # "none", NEW c \in Creatures,
           NEW k \in Monsters, NEW d \in Creatures, k # m \/ d # c
    PROVE  Heed(w, OpponentLeft(w, m, c), k, d)
<1> DEFINE v == ReleasedAll([w EXCEPT !.targets[m] = @ \ {c}], {c})
<1>0. m \in Creatures /\ k \in Creatures /\ w \in Worlds /\ DOMAIN w = Fields
  BY MonstersAre, SameReflexive DEF Sound
<1>1. OpponentLeft(w, m, c) = IF IsOpponent(w, m, c) /\ c \in w.targets[m]
                              THEN (IF v.targets[m] = {} THEN UpdateIdleStatus(v, m) ELSE v)
                              ELSE w
  BY DEF OpponentLeft
<1>2. /\ Same(w, v) /\ v.alive = w.alive /\ v.overlooked = w.overlooked /\ v.check = w.check
      /\ v.targets = [w.targets EXCEPT ![m] = @ \ {c}]
  BY <1>0 DEF Same, Fields, ReleasedAll
<1>3. v \in Worlds
  <2> DEFINE b == [w EXCEPT !.targets[m] = @ \ {c}]
  <2>1. b \in Worlds
    BY <1>0 DEF Worlds
  <2> HIDE DEF b
  <2>2. v \in Worlds
    BY <2>1, ReleasedIs DEF b
  <2> QED
    BY <2>2
<1> HIDE DEF v
<1>4. w.targets \in [Creatures -> SUBSET Creatures]
  BY <1>0, Typed
<1>5. Heed(w, v, k, d)
  BY <1>0, <1>2, <1>4 DEF Heed, Faces, Knows, Same, CanSee
<1>6. Heed(v, UpdateIdleStatus(v, m), k, d)
  BY <1>3, UpdateIdleHeeds DEF Heeds
<1>7. Heed(w, UpdateIdleStatus(v, m), k, d) /\ Heed(w, w, k, d)
  BY <1>5, <1>6, HeedFollows DEF Heed
<1> QED
  BY <1>1, <1>5, <1>7

LEMMA OnLeaveHeeds ==
    ASSUME NEW w \in Sound, NEW m \in Monsters, w.status[m] # "none", NEW c \in Creatures,
           NEW k \in Monsters, NEW d \in Creatures, k # m \/ d # c
    PROVE  Heed(w, OnCreatureLeave(w, m, c), k, d)
<1> DEFINE a == MasterSeen(w, m, c, FALSE)
           b == FriendLeft(a, m, c)
           e == OpponentLeft(b, m, c)
           v == [e EXCEPT !.overlooked[m] = @ \ {c}]
<1>0. m \in Creatures /\ k \in Creatures
  BY MonstersAre
<1>1. OnCreatureLeave(w, m, c) = v
  BY DEF OnCreatureLeave
<1>2. a \in Like(w) /\ Heed(w, a, k, d)
  BY SeenLike, MasterSeenHeeds DEF Sound, Heeds
<1> HIDE DEF a
<1>3. a \in Sound /\ a.status = w.status
  BY <1>2 DEF Like
<1>4. b \in Like(a) /\ Calm(a, b)
  BY <1>0, <1>3, FriendLeftLike, CalmLists, SameReflexive
<1> HIDE DEF b
<1>5. b \in Sound /\ b.status = w.status
  BY <1>3, <1>4 DEF Like
<1>6. e \in Like(b) /\ Heed(b, e, k, d)
  BY <1>5, OpponentLeftLike, OpponentLeftHeeds
<1> HIDE DEF e
<1>7. e \in Worlds /\ DOMAIN e = Fields /\ e.overlooked \in [Creatures -> SUBSET Creatures]
  BY <1>6, WorldFields, Typed DEF Like, Sound
<1>8. Same(e, v) /\ v.alive = e.alive /\ v.targets = e.targets /\ v.check = e.check
      /\ v.overlooked = [e.overlooked EXCEPT ![m] = @ \ {c}]
  BY <1>7 DEF Same, Fields
<1> HIDE DEF v
<1>9. Heed(e, v, k, d)
  BY <1>0, <1>7, <1>8 DEF Heed, Faces, Knows, Same, CanSee
<1>10. Heed(a, b, k, d)
  BY <1>4, CalmHeeds DEF Heeds
<1>11. Heed(w, b, k, d)
  BY <1>2, <1>10, HeedFollows
<1>12. Heed(w, e, k, d)
  BY <1>6, <1>11, HeedFollows
<1> QED
  BY <1>1, <1>9, <1>12, HeedFollows

\* Only a summons that is alive on the map may face others without its master.
LEMMA RemoveSummonHeeds ==
    ASSUME NEW w \in Sound, NEW c \in Creatures, NEW s \in Creatures
    PROVE  /\ HeedsBut(w, RemoveSummon(w, c, s), s)
           /\ w.status[s] # "placed" \/ ~w.alive[s] => Heeds(w, RemoveSummon(w, c, s))
<1> DEFINE v == RemoveSummon(w, c, s)
<1>0. w \in Worlds /\ DOMAIN w = Fields /\ w.master \in [Creatures -> Someone]
  BY Typed, SameReflexive DEF Sound
<1>1. /\ v.status = w.status /\ v.place = w.place /\ v.alive = w.alive
      /\ v.overlooked = w.overlooked /\ v.targets = w.targets /\ v.check = w.check
      /\ \A d \in Creatures : v.master[d] = w.master[d] \/ (d = s /\ v.master[d] = Nobody)
  BY <1>0 DEF Fields, RemoveSummon, ReleasedAll
<1> HIDE DEF v
<1>2. Nobody \notin Adventurers
  BY CreaturesConstants
<1>3. ASSUME NEW m \in Monsters, NEW d \in Creatures, m # s \/ w.status[s] # "placed" \/ ~w.alive[s]
      PROVE  Heed(w, v, m, d)
  BY <1>1, <1>2, <1>3, MonstersAre DEF Heed, Faces, Knows, CanSee
<1> QED
  BY <1>3 DEF HeedsBut, Heeds, v

\* A monster faces nobody before it is on the map or when it has a master.
LEMMA AddSummonHeeds ==
    ASSUME NEW w \in Worlds, NEW c \in Creatures, NEW s \in Monsters
    PROVE  /\ HeedsBut(w, AddSummon(w, c, s), s)
           /\ \A d \in Creatures : ~Faces(AddSummon(w, c, s), s, d)
           /\ w.status[s] # "placed" => Heeds(w, AddSummon(w, c, s))
<1> DEFINE v == AddSummon(w, c, s)
<1>0. DOMAIN w = Fields /\ w.master \in [Creatures -> Someone] /\ s \in Creatures
  BY Typed, WorldFields, MonstersAre
<1>1. /\ v.status = w.status /\ v.place = w.place /\ v.alive = w.alive
      /\ v.overlooked = w.overlooked /\ v.targets = w.targets /\ v.check = w.check
      /\ v.master = [w.master EXCEPT ![s] = c]
  BY <1>0 DEF Fields, AddSummon, Used
<1> HIDE DEF v
<1>2. \A d \in Creatures : ~Faces(v, s, d)
  BY <1>0, <1>1, NobodyIs DEF Faces
<1>3. ASSUME NEW m \in Monsters, NEW d \in Creatures, d # s \/ w.status[s] # "placed"
      PROVE  Heed(w, v, m, d)
  BY <1>0, <1>1, <1>2, <1>3, MonstersAre DEF Heed, Faces, Knows, CanSee
<1> QED
  BY <1>2, <1>3 DEF HeedsBut, Heeds, v

\* Who lost health thinks, or faces nobody when it has none left.
LEMMA HealthLostHeeds ==
    ASSUME NEW w \in Worlds, NEW c \in Creatures, NEW dies \in BOOLEAN, dies \/ w.alive[c]
    PROVE  Heeds(w, HealthLost(w, c, dies)) /\ HealthLost(w, c, dies).alive[c] = ~dies
<1> DEFINE b == IF c \in Monsters THEN SetIdle(w, c, FALSE) ELSE w
           v == [b EXCEPT !.alive[c] = ~dies]
<1>1. HealthLost(w, c, dies) = v
  BY DEF HealthLost
<1>2. Heeds(w, b) /\ b.alive = w.alive /\ DOMAIN b = Fields
  <2>1. Heeds(w, w) /\ DOMAIN w = Fields
    BY HeedsFollows, WorldFields
  <2>2. DOMAIN SetIdle(w, c, FALSE) = Fields
    BY <2>1, SetIdleSame DEF Same
  <2>3. SetIdle(w, c, FALSE).alive = w.alive
    BY SetIdleIs
  <2>4. c \in Monsters => Heeds(w, SetIdle(w, c, FALSE))
    BY SetIdleHeeds
  <2> QED
    BY <2>1, <2>2, <2>3, <2>4
<1> HIDE DEF b
<1>3. /\ v.status = b.status /\ v.place = b.place /\ v.master = b.master
      /\ v.overlooked = b.overlooked /\ v.targets = b.targets /\ v.check = b.check
      /\ v.alive = [w.alive EXCEPT ![c] = ~dies] /\ w.alive \in [Creatures -> BOOLEAN]
  BY <1>2, Typed DEF Fields
<1> HIDE DEF v
<1>4. Heeds(b, v)
  BY <1>2, <1>3, MonstersAre DEF Heeds, Heed, Faces, Knows, CanSee
<1> QED
  BY <1>1, <1>2, <1>3, <1>4, HeedsFollows

LEMMA ListsClearedHeeds ==
    ASSUME NEW w \in Worlds, NEW m \in Creatures
    PROVE  HeedsBut(w, ListsCleared(w, m), m)
<1> DEFINE v == ListsCleared(w, m)
<1>1. DOMAIN w = Fields /\ w.targets \in [Creatures -> SUBSET Creatures]
  BY WorldFields, Typed
<1>2. Same(w, v)
  BY <1>1, ListsSame
<1>3. /\ v.alive = w.alive /\ v.overlooked = w.overlooked /\ v.check = w.check
      /\ \A d \in Creatures : d # m => v.targets[d] = w.targets[d]
  BY <1>1 DEF Fields, ListsCleared, ReleasedAll
<1> HIDE DEF v
<1>4. HeedsBut(w, v, m)
  BY <1>2, <1>3, MonstersAre DEF HeedsBut, Heed, Faces, Knows, Same, CanSee
<1> QED
  BY <1>4 DEF v

\* All know whom they face where c is not one of the two; s knows of c, or c of all.
AwareBut(w, c) ==
    \A m \in Monsters, d \in Creatures : m # c /\ d # c /\ Faces(w, m, d) => Knows(w, m, d)
Acquainted(w, s, c) ==
    s \in Monsters => IF s = c THEN Minds(w, c) ELSE Faces(w, s, c) => Knows(w, s, c)

LEMMA AcquaintedStays ==
    ASSUME NEW w, NEW v, Heeds(w, v), NEW c \in Creatures
    PROVE  /\ \A s : Acquainted(w, s, c) => Acquainted(v, s, c)
           /\ AwareBut(w, c) => AwareBut(v, c)
<1>1. ASSUME NEW s, Acquainted(w, s, c)
      PROVE  Acquainted(v, s, c)
  BY <1>1, MindsStays DEF Acquainted, Heeds, Heed
<1> QED
  BY <1>1 DEF AwareBut, Heeds, Heed

\* When everybody who sees c is acquainted with it, all know whom they face.
LEMMA AllAcquainted ==
    ASSUME NEW w \in Worlds, NEW c \in Creatures, AwareBut(w, c),
           \A s \in Creatures : w.status[s] = "placed" /\ CanSee(w, s, c) => Acquainted(w, s, c)
    PROVE  Aware(w)
<1> SUFFICES ASSUME NEW m \in Monsters, NEW d \in Creatures, Faces(w, m, d)
             PROVE  Knows(w, m, d)
  BY DEF Aware, Minds
<1>1. m \in Creatures /\ w.status[m] = "placed" /\ CanSee(w, m, d) /\ CanSee(w, m, m)
  BY MonstersAre, SeesBack DEF Faces
<1>2. CASE m = c
  BY <1>1, <1>2 DEF Acquainted, Minds
<1>3. CASE m # c /\ d = c
  BY <1>1, <1>3 DEF Acquainted
<1>4. CASE m # c /\ d # c
  BY <1>4 DEF AwareBut
<1> QED
  BY <1>2, <1>3, <1>4

----------------------------------------------------------------------------
(* Callbacks that tell others.                                             *)

\* A monster that dies kills and releases its summons.
LEMMA SummonsKilledLike ==
    ASSUME NEW w \in Sound, NEW m \in Creatures
    PROVE  /\ SummonsKilled(w, m) \in Like(w) /\ Loosed(w, SummonsKilled(w, m))
           /\ SummonsKilled(w, m).summons[m] = {} /\ Heeds(w, SummonsKilled(w, m))
<1> DEFINE W == {v \in Like(w) : Loosed(w, v) /\ Heeds(w, v)}
           S == w.summons[m]
           order == SetToSeq(S)
           n == Len(order)
           Kill(v, s) == RemoveSummon(HealthLost(v, s, TRUE), m, s)
           after[k \in 0 .. n] ==
                IF k = 0 THEN w
                ELSE IF order[k] \in S THEN Kill(after[k - 1], order[k])
                ELSE after[k - 1]
<1>1. SummonsKilled(w, m) = after[n]
  BY DEF SummonsKilled, Told
<1>2. /\ S \in SUBSET Monsters /\ w \in W /\ n \in Nat
      /\ \A k \in 1 .. n : order[k] \in Creatures
      /\ \A s \in S : \E k \in 1 .. n : order[k] = s
  <2>1. S \in SUBSET Monsters /\ S \in SUBSET Creatures
    BY Typed, MonstersAre DEF Sound
  <2>2. order \in Seq(Creatures) /\ \A s \in S : \E k \in 1 .. n : order[k] = s
    BY <2>1, SetToSeqIs
  <2> HIDE DEF order
  <2> QED
    BY <2>1, <2>2, Reflexive, SameReflexive, HeedsFollows
<1>3. ASSUME NEW v \in W, NEW s \in S
      PROVE  Kill(v, s) \in W /\ s \notin Kill(v, s).summons[m] /\ Loosed(v, Kill(v, s))
  <2>1. /\ s \in Monsters /\ s \in Creatures /\ s \notin Adventurers /\ w.status[s] # "none"
        /\ v \in Sound /\ v.status[s] # "none"
    <3>1. s \in Monsters /\ s \in Creatures /\ s \notin Adventurers
      BY <1>2, MonstersAre, CreaturesConstants
    <3>2. w.master[s] = m /\ m # Nobody
      BY <3>1, NobodyIs DEF Sound, Agree
    <3>3. w.status[s] # "none"
      BY <3>1, <3>2 DEF Sound, Fresh
    <3> QED
      BY <3>1, <3>3, LikeIsAfter DEF Like
  <2> DEFINE a == HealthLost(v, s, TRUE)
  <2>2. a \in Like(v) /\ Loosed(v, a)
    BY <2>1, HealthLostLike, HealthLostSame, SameReflexive, SameLoosed
  <2>h. Heeds(w, v) /\ Heeds(v, a) /\ ~a.alive[s]
    BY <2>1, HealthLostHeeds DEF Sound
  <2> HIDE DEF a
  <2>3. a \in Sound /\ RemoveSummon(a, m, s) \in Like(a) /\ a \in Like(w)
    BY <2>2, LikeFollows, LikeIsAfter, RemoveSummonLike
  <2>4. RemoveSummon(a, m, s) \in Like(w)
    BY <2>3, LikeFollows
  <2>5. Loosed(a, RemoveSummon(a, m, s)) /\ s \notin RemoveSummon(a, m, s).summons[m]
    BY <2>3, RemoveSummonLoosed
  <2>6. Loosed(v, RemoveSummon(a, m, s)) /\ Loosed(w, RemoveSummon(a, m, s))
    BY <2>2, <2>5, LoosedFollows
  <2>7. Heeds(a, RemoveSummon(a, m, s))
    BY <2>1, <2>3, <2>h, RemoveSummonHeeds
  <2>8. Heeds(w, RemoveSummon(a, m, s))
    BY <2>7, <2>h, HeedsFollows
  <2> QED
    BY <2>4, <2>5, <2>6, <2>8 DEF a
<1> HIDE DEF W, S, order, n, Kill
<1> DEFINE F == [p \in W \X (1 .. n) |->
                IF order[p[2]] \in S THEN Kill(p[1], order[p[2]]) ELSE p[1]]
<1>4. F \in [W \X (1 .. n) -> W]
  BY <1>3
<1>5. PICK f \in [0 .. n -> W] : f[0] = w /\ \A k \in 1 .. n : f[k] = F[<<f[k - 1], k>>]
  <2> HIDE DEF F
  <2>1. Turns(W, w, n, F) # {}
    BY <1>2, <1>4, TurnsExist
  <2> QED
    BY <2>1 DEF Turns
<1>6. f = [k \in 0 .. n |-> IF k = 0 THEN w
                            ELSE IF order[k] \in S THEN Kill(f[k - 1], order[k]) ELSE f[k - 1]]
  <2>1. ASSUME NEW k \in 1 .. n
        PROVE  f[k] = IF order[k] \in S THEN Kill(f[k - 1], order[k]) ELSE f[k - 1]
    <3>1. k - 1 \in 0 .. n
      BY <1>2
    <3>2. <<f[k - 1], k>> \in W \X (1 .. n)
      BY <1>5, <3>1
    <3> QED
      BY <1>5, <3>2
  <2>2. \A k \in 0 .. n : k # 0 => k \in 1 .. n
    BY <1>2
  <2> HIDE DEF F
  <2>3. \A k \in 0 .. n : f[k] = IF k = 0 THEN w
                                 ELSE IF order[k] \in S THEN Kill(f[k - 1], order[k]) ELSE f[k - 1]
    BY <1>5, <2>1, <2>2
  <2> QED
    BY <1>5, <2>3
<1>7. after = [k \in 0 .. n |-> IF k = 0 THEN w
                                ELSE IF order[k] \in S THEN Kill(after[k - 1], order[k])
                                ELSE after[k - 1]]
  BY <1>6, Zenon
<1> HIDE DEF after
<1>8. \A k \in 1 .. n : after[k] = IF order[k] \in S THEN Kill(after[k - 1], order[k])
                                   ELSE after[k - 1]
  <2> HIDE DEF F
  <2>1. \A k \in 1 .. n : k \in 0 .. n /\ k # 0
    BY <1>2
  <2> QED
    BY <1>7, <2>1
<1> HIDE DEF F
<1>9. after[0] = w
  <2>1. 0 \in 0 .. n
    BY <1>2
  <2> QED
    BY <1>7, <2>1
<1>a. ASSUME NEW k \in 1 .. n, after[k - 1] \in W
      PROVE  after[k] \in W
  <2>1. CASE order[k] \in S
    <3>1. after[k] = Kill(after[k - 1], order[k])
      BY <1>8, <2>1
    <3> QED
      BY <1>3, <1>a, <2>1, <3>1
  <2>2. CASE order[k] \notin S
    <3>1. after[k] = after[k - 1]
      BY <1>8, <2>2
    <3> QED
      BY <1>a, <3>1
  <2> QED
    BY <2>1, <2>2
<1>10. after[n] \in W
  BY <1>2, <1>9, <1>a, TurnsStay
<1> DEFINE M == [s \in S |-> {v \in W : s \notin v.summons[m]}]
<1>11. ASSUME NEW k \in 1 .. n, after[k - 1] \in W, order[k] \in S
       PROVE  after[k] \in M[order[k]]
  BY <1>3, <1>8, <1>11
<1>12. ASSUME NEW k \in 1 .. n, NEW s \in S, after[k - 1] \in W, after[k - 1] \in M[s]
       PROVE  after[k] \in M[s]
  <2>1. CASE order[k] \in S
    <3>1. after[k] \in W /\ Loosed(after[k - 1], after[k])
      BY <1>3, <1>8, <1>12, <2>1
    <3> QED
      BY <1>12, <3>1 DEF Loosed
  <2>2. CASE order[k] \notin S
    BY <1>8, <1>12, <2>2
  <2> QED
    BY <2>1, <2>2
<1> HIDE DEF M
<1>13. \A j \in 1 .. n : order[j] \in S => after[n] \in M[order[j]]
  BY <1>2, <1>9, <1>a, <1>11, <1>12, TurnsMark
<1>14. ASSUME NEW s \in S
       PROVE  s \notin after[n].summons[m]
  <2>1. PICK j \in 1 .. n : order[j] = s
    BY <1>2
  <2>2. after[n] \in M[s]
    BY <1>13, <2>1
  <2> QED
    BY <2>2 DEF M
<1>15. after[n].summons[m] = {}
  <2>1. Loosed(w, after[n])
    BY <1>10 DEF W
  <2>2. after[n].summons[m] \subseteq w.summons[m]
    BY <2>1 DEF Loosed
  <2> QED
    BY <1>14, <2>2 DEF S
<1> QED
  BY <1>1, <1>10, <1>15 DEF W

\* A monster releases who is gone and takes who is there.
LEMMA UpdateTargetListLike ==
    ASSUME NEW w \in Sound, NEW m \in Monsters, w.status[m] # "none", NEW order \in Seq(Creatures)
    PROVE  /\ UpdateTargetList(w, m, order) \in Like(w)
           /\ Same(w, UpdateTargetList(w, m, order))
           /\ HeedsOthers(w, UpdateTargetList(w, m, order), m)
           /\ Seen(w, order, m) => Minds(UpdateTargetList(w, m, order), m)
<1> DEFINE Gone(X) == {c \in X : ~w.alive[c] \/ ~CanSee(w, m, c)}
           e == ReleasedAll(w, Gone(w.friends[m]))
           b == ReleasedAll(e, Gone(w.targets[m]))
           r == Refill(b, b.uses, b.master, b.summons,
                       With(b.targets, m, w.targets[m] \ Gone(w.targets[m])),
                       With(b.friends, m, w.friends[m] \ Gone(w.friends[m])))
           q == [r EXCEPT !.overlooked[m] = {}]
           a == [b EXCEPT !.friends[m] = @ \ Gone(@), !.targets[m] = @ \ Gone(@),
                          !.overlooked[m] = {}]
           Find(v, c) == IF c = m THEN v ELSE OnCreatureFound(v, m, c)
           S == Spectators(w, w.place[m])
           W == {v \in Like(w) : Same(w, v) /\ HeedsOthers(w, v, m)}
           n == Len(order)
           after[k \in 0 .. n] ==
                IF k = 0 THEN a
                ELSE IF order[k] \in S THEN Find(after[k - 1], order[k])
                ELSE after[k - 1]
<1>1. w \in Worlds /\ m \in Creatures
  BY MonstersAre DEF Sound
<1>2. e \in Worlds
  BY <1>1, ReleasedIs
<1>3. /\ b \in Worlds
      /\ b.status = w.status /\ b.alive = w.alive /\ b.releases = w.releases
      /\ b.check = w.check /\ b.listed = w.listed
      /\ b.master = w.master /\ b.summons = w.summons
      /\ b.targets = w.targets /\ b.friends = w.friends
      /\ \A d \in Creatures :
            b.uses[d] = w.uses[d] - B(d \in Gone(w.targets[m])) - B(d \in Gone(w.friends[m]))
  <2> DEFINE T == Gone(w.targets[m])
             G == Gone(w.friends[m])
  <2> HIDE DEF T, G
  <2>1. /\ e.status = w.status /\ e.alive = w.alive /\ e.releases = w.releases
        /\ e.check = w.check /\ e.listed = w.listed
        /\ e.master = w.master /\ e.summons = w.summons
        /\ e.targets = w.targets /\ e.friends = w.friends
        /\ \A d \in Creatures : e.uses[d] = w.uses[d] - B(d \in G)
    BY <1>1, ReleasedIs DEF G
  <2> HIDE DEF e
  <2>2. /\ b \in Worlds
        /\ b.status = e.status /\ b.alive = e.alive /\ b.releases = e.releases
        /\ b.check = e.check /\ b.listed = e.listed
        /\ b.master = e.master /\ b.summons = e.summons
        /\ b.targets = e.targets /\ b.friends = e.friends
        /\ \A d \in Creatures : b.uses[d] = e.uses[d] - B(d \in T)
    BY <1>2, ReleasedIs DEF T
  <2> HIDE DEF b
  <2>3. \A d \in Creatures : w.uses[d] \in Int /\ B(d \in T) \in Int /\ B(d \in G) \in Int
    BY <1>1, Typed DEF B
  <2>4. ASSUME NEW d \in Creatures
        PROVE  b.uses[d] = w.uses[d] - B(d \in T) - B(d \in G)
    <3> DEFINE t == B(d \in T)
               g == B(d \in G)
    <3>1. /\ b.uses[d] = e.uses[d] - t /\ e.uses[d] = w.uses[d] - g
          /\ w.uses[d] \in Int /\ t \in Int /\ g \in Int
      BY <2>1, <2>2, <2>3
    <3> HIDE DEF t, g
    <3>2. b.uses[d] = w.uses[d] - t - g
      BY <3>1
    <3> QED
      BY <3>2 DEF t, g
  <2> QED
    BY <2>1, <2>2, <2>4 DEF T, G
<1>4. q \in Like(w)
  <2>1. Gone(w.targets[m]) \in SUBSET w.targets[m] /\ Gone(w.friends[m]) \in SUBSET w.friends[m]
    OBVIOUS
  <2> HIDE DEF Gone, b
  <2>2. r \in Like(w)
    BY <1>1, <1>3, <2>1, ForgottenLike
  <2> HIDE DEF r
  <2>3. r \in Sound /\ {} \in SUBSET Creatures
    BY <2>2, LikeIsAfter
  <2>4. q \in Like(r)
    BY <1>1, <2>3, OverlooksLike
  <2> QED
    BY <2>2, <2>4, LikeFollows
<1>5. a = q
  <2> HIDE DEF b
  <2>1. a = [b EXCEPT !.friends[m] = w.friends[m] \ Gone(w.friends[m]),
                      !.targets[m] = w.targets[m] \ Gone(w.targets[m]),
                      !.overlooked[m] = {}]
    BY <1>3 DEF Worlds
  <2> HIDE DEF a, Gone
  <2> QED
    BY <1>3, <2>1 DEF Refill, With, Worlds
<1>S. Same(w, a)
  <2>1. /\ DOMAIN b = Fields /\ b.status = w.status /\ b.place = w.place
        /\ b.master = w.master /\ b.summons = w.summons
        /\ b.attacked = w.attacked /\ b.followed = w.followed
    BY <1>1, WorldFields DEF ReleasedAll, Fields
  <2> HIDE DEF b
  <2> QED
    BY <2>1 DEF Same, Fields
<1>H. HeedsOthers(w, a, m)
  <2>1. /\ DOMAIN b = Fields /\ b.alive = w.alive /\ b.targets = w.targets
        /\ b.check = w.check /\ b.overlooked = w.overlooked
    BY <1>1, WorldFields DEF ReleasedAll, Fields
  <2> HIDE DEF b
  <2>2. /\ a.alive = w.alive /\ a.check = w.check
        /\ \A d \in Creatures : d # m =>
            a.targets[d] = w.targets[d] /\ a.overlooked[d] = w.overlooked[d]
    BY <1>1, <2>1, Typed DEF Fields
  <2> HIDE DEF a
  <2> QED
    BY <1>S, <2>2, MonstersAre DEF HeedsOthers, Faces, Knows, Same, CanSee
<1>6. UpdateTargetList(w, m, order) = after[n]
  BY DEF UpdateTargetList, Told
<1> HIDE DEF a, b, e, q, r
<1>w. n \in Nat /\ a \in W /\ \A k \in 1 .. n : order[k] \in Creatures
  BY <1>4, <1>5, <1>S, <1>H
<1>o. ASSUME NEW v \in W, NEW s \in S
      PROVE  /\ Find(v, s) \in W /\ Heeds(v, Find(v, s))
             /\ Faces(Find(v, s), m, s) => Knows(Find(v, s), m, s)
  <2>1. v \in Sound /\ v.status[m] # "none" /\ s \in Creatures /\ v \in Worlds
    BY LikeIsAfter DEF Like, Spectators, Sound
  <2>2. OnCreatureFound(v, m, s) \in Like(v) /\ Same(v, OnCreatureFound(v, m, s))
    BY <2>1, OnFoundLike, OnFoundSame, SameReflexive
  <2>3. OnCreatureFound(v, m, s) \in Like(w) /\ Same(w, OnCreatureFound(v, m, s))
    BY <2>2, LikeFollows, SameFollows
  <2>4. /\ Heeds(v, OnCreatureFound(v, m, s)) /\ Heeds(v, v)
        /\ Faces(OnCreatureFound(v, m, s), m, s) => Knows(OnCreatureFound(v, m, s), m, s)
    BY <2>1, OnFoundHeeds, HeedsFollows
  <2>5. HeedsOthers(w, OnCreatureFound(v, m, s), m)
    BY <2>4, HeedsFollows
  <2>6. ~Faces(v, m, m)
    BY <1>1, <2>1, SeesBack
  <2> QED
    BY <2>3, <2>4, <2>5, <2>6
<1> HIDE DEF W, S, n, Find, a
<1> DEFINE F == [z \in W \X (1 .. n) |->
                IF order[z[2]] \in S THEN Find(z[1], order[z[2]]) ELSE z[1]]
<1>t1. F \in [W \X (1 .. n) -> W]
  BY <1>o
<1>t2. PICK f \in [0 .. n -> W] : f[0] = a /\ \A k \in 1 .. n : f[k] = F[<<f[k - 1], k>>]
  <2> HIDE DEF F
  <2>1. Turns(W, a, n, F) # {}
    BY <1>w, <1>t1, TurnsExist
  <2> QED
    BY <2>1 DEF Turns
<1>t3. f = [k \in 0 .. n |-> IF k = 0 THEN a
                             ELSE IF order[k] \in S THEN Find(f[k - 1], order[k]) ELSE f[k - 1]]
  <2>1. ASSUME NEW k \in 1 .. n
        PROVE  f[k] = IF order[k] \in S THEN Find(f[k - 1], order[k]) ELSE f[k - 1]
    <3>1. k - 1 \in 0 .. n
      BY <1>w
    <3>2. <<f[k - 1], k>> \in W \X (1 .. n)
      BY <1>t2, <3>1
    <3> QED
      BY <1>t2, <3>2
  <2>2. \A k \in 0 .. n : k # 0 => k \in 1 .. n
    BY <1>w
  <2> HIDE DEF F
  <2>3. \A k \in 0 .. n : f[k] = IF k = 0 THEN a
                                 ELSE IF order[k] \in S THEN Find(f[k - 1], order[k]) ELSE f[k - 1]
    BY <1>t2, <2>1, <2>2
  <2> QED
    BY <1>t2, <2>3
<1>t4. after = [k \in 0 .. n |-> IF k = 0 THEN a
                                 ELSE IF order[k] \in S THEN Find(after[k - 1], order[k])
                                 ELSE after[k - 1]]
  BY <1>t3, Zenon
<1> HIDE DEF after
<1>t5. after[0] \in W /\ \A k \in 1 .. n : after[k - 1] \in W => after[k] \in W
  <2> HIDE DEF F
  <2>1. 0 \in 0 .. n /\ \A k \in 1 .. n : k \in 0 .. n /\ k # 0
    BY <1>w
  <2> QED
    BY <1>w, <1>o, <1>t4, <2>1
<1>t6. after[n] \in W
  BY <1>w, <1>t5, TurnsStay
<1> DEFINE M == [s \in S |-> {v \in W : Faces(v, m, s) => Knows(v, m, s)}]
<1>t7. ASSUME NEW k \in 1 .. n, after[k - 1] \in W
       PROVE  /\ order[k] \in S => after[k] \in M[order[k]]
              /\ \A s \in S : after[k - 1] \in M[s] => after[k] \in M[s]
  <2>1. k \in 0 .. n /\ k # 0
    BY <1>w
  <2>2. after[k] = IF order[k] \in S THEN Find(after[k - 1], order[k]) ELSE after[k - 1]
    BY <1>t4, <2>1
  <2>3. ASSUME order[k] \in S
        PROVE  /\ after[k] \in W /\ Heeds(after[k - 1], after[k])
               /\ Faces(after[k], m, order[k]) => Knows(after[k], m, order[k])
    BY <1>t7, <1>o, <2>2, <2>3
  <2>4. ASSUME NEW s \in S, after[k - 1] \in M[s]
        PROVE  after[k] \in M[s]
    <3>1. s \in Creatures
      BY DEF S, Spectators
    <3> QED
      BY <2>2, <2>3, <2>4, <3>1 DEF Heeds, Heed
  <2> QED
    BY <2>3, <2>4
<1> HIDE DEF M
<1>t8. \A j \in 1 .. n : order[j] \in S => after[n] \in M[order[j]]
  BY <1>w, <1>t5, <1>t7, TurnsMark
<1>t9. ASSUME Seen(w, order, m)
       PROVE  Minds(after[n], m)
  <2> SUFFICES ASSUME NEW c \in Creatures, Faces(after[n], m, c)
               PROVE  Knows(after[n], m, c)
    BY DEF Minds
  <2>1. w.status[c] = "placed" /\ CanSee(w, m, c)
    BY <1>t6 DEF W, Same, Faces, CanSee
  <2>2. CanSee(w, c, m)
    BY <1>1, <2>1, SeesBack
  <2>3. c \in S
    BY <2>1, <2>2 DEF S, Spectators, Present, CanSee
  <2>4. PICK j \in 1 .. n : order[j] = c
    BY <1>t9, <2>1, <2>2 DEF Seen, n
  <2>5. after[n] \in M[c]
    BY <1>t8, <2>3, <2>4
  <2> QED
    BY <2>3, <2>5 DEF M
<1> QED
  BY <1>6, <1>t6, <1>t9 DEF W

LEMMA LooksAgainLike ==
    ASSUME NEW w \in Sound, NEW m \in Monsters, w.status[m] # "none", NEW order \in Seq(Creatures)
    PROVE  /\ LooksAgain(w, m, order) \in Like(w) /\ Same(w, LooksAgain(w, m, order))
           /\ Seen(w, order, m) =>
                Heeds(w, LooksAgain(w, m, order)) /\ Minds(LooksAgain(w, m, order), m)
<1> DEFINE a == UpdateTargetList(w, m, order)
<1>1. /\ a \in Like(w) /\ Same(w, a) /\ HeedsOthers(w, a, m)
      /\ Seen(w, order, m) => Minds(a, m)
  BY UpdateTargetListLike
<1>2. LooksAgain(w, m, order) = UpdateIdleStatus(a, m)
  BY DEF LooksAgain
<1> HIDE DEF a
<1>3. a \in Sound /\ a.status = w.status
  BY <1>1, LikeIsAfter DEF Like
<1>4. UpdateIdleStatus(a, m) \in Like(a) /\ Same(a, UpdateIdleStatus(a, m))
  BY <1>3, UpdateIdleLike, UpdateIdleSame, SameReflexive
<1>5. Heeds(a, UpdateIdleStatus(a, m))
  BY <1>3, UpdateIdleHeeds DEF Sound
<1>6. Seen(w, order, m) => Heeds(w, a)
  BY <1>1, OthersAndOwn
<1>7. Seen(w, order, m) => Heeds(w, UpdateIdleStatus(a, m)) /\ Minds(UpdateIdleStatus(a, m), m)
  BY <1>1, <1>5, <1>6, HeedsFollows, MindsStays
<1> QED
  BY <1>1, <1>2, <1>4, <1>7, LikeFollows, SameFollows

LEMMA LooksAroundLike ==
    ASSUME NEW w \in Sound, NEW m \in Monsters, w.status[m] # "none", NEW order \in Seq(Creatures)
    PROVE  /\ LooksAround(w, m, order) \in Like(w) /\ Same(w, LooksAround(w, m, order))
           /\ Seen(w, order, m) =>
                Heeds(w, LooksAround(w, m, order)) /\ Minds(LooksAround(w, m, order), m)
<1> DEFINE sees == CanSee(w, m, w.master[m])
           a == IF IsSummon(w, m) THEN [w EXCEPT !.inRange[m] = sees] ELSE w
<1>1. LooksAround(w, m, order) = LooksAgain(a, m, order)
  BY DEF LooksAround, LooksAgain
<1>2. a \in Like(w) /\ Same(w, a) /\ Heeds(w, a)
  <2>1. sees \in BOOLEAN
    BY DEF CanSee, Near
  <2> HIDE DEF sees
  <2>2. /\ [w EXCEPT !.inRange[m] = sees] \in Like(w)
        /\ Same(w, [w EXCEPT !.inRange[m] = sees])
        /\ Calm(w, [w EXCEPT !.inRange[m] = sees])
    BY <2>1, SeenLike, SeenSame, SameReflexive, CalmRange
  <2> QED
    BY <2>2, Reflexive, SameReflexive, CalmHeeds, HeedsFollows
<1> HIDE DEF a
<1>3. a \in Sound /\ a.status = w.status
  BY <1>2, LikeIsAfter DEF Like
<1>4. /\ LooksAgain(a, m, order) \in Like(a) /\ Same(a, LooksAgain(a, m, order))
      /\ Seen(a, order, m) => Heeds(a, LooksAgain(a, m, order)) /\ Minds(LooksAgain(a, m, order), m)
  BY <1>3, LooksAgainLike
<1>5. Seen(w, order, m) => Seen(a, order, m)
  BY <1>2 DEF Same, Seen, CanSee
<1> QED
  BY <1>1, <1>2, <1>4, <1>5, LikeFollows, SameFollows, HeedsFollows

\* c with the use of the map, before anybody is told.
Newborn(w, c, x) == Used([w EXCEPT !.status[c] = "placed", !.place[c] = x], c)

\* Everybody around the new creature is told, and it thinks.
LEMMA PlacedLike ==
    ASSUME NEW w, NEW c \in Creatures, NEW x, NEW order \in Seq(Creatures),
           NEW a, a = Newborn(w, c, x),
           a \in Sound, a.status[c] = "placed", a.place[c] = x, Seen(a, order, c)
    PROVE  /\ Placed(w, c, x, order) \in Like(a) /\ Placed(w, c, x, order).check[c]
           /\ Same(a, Placed(w, c, x, order))
           /\ AwareBut(a, c) => Aware(Placed(w, c, x, order))
<1> DEFINE Appear(u, s) == IF s \notin Monsters THEN u
                           ELSE IF s = c THEN LooksAround(u, s, order)
                           ELSE OnCreatureEnter(u, s, c)
           S == Spectators(a, x)
           W == {v \in Like(a) : Same(a, v) /\ Heeds(a, v)}
           n == Len(order)
           after[k \in 0 .. n] ==
                IF k = 0 THEN a
                ELSE IF order[k] \in S THEN Appear(after[k - 1], order[k])
                ELSE after[k - 1]
<1>1. Placed(w, c, x, order) = AddCreatureCheck(after[n], c)
  BY DEF Placed, Told, Newborn
<1>w. n \in Nat /\ a \in W /\ \A k \in 1 .. n : order[k] \in Creatures
  BY Reflexive, SameReflexive, HeedsFollows
<1>o. ASSUME NEW v \in W, NEW s \in S
      PROVE  Appear(v, s) \in W /\ Heeds(v, Appear(v, s)) /\ Acquainted(Appear(v, s), s, c)
  <2>1. /\ v \in Sound /\ v.status[s] # "none" /\ s \in Creatures
        /\ Heeds(a, v) /\ Seen(v, order, c)
    BY LikeIsAfter DEF Like, Spectators, Present, Seen, Same, CanSee
  <2>2. CASE s \notin Monsters
    BY <2>2, HeedsFollows DEF Acquainted
  <2>3. CASE s \in Monsters /\ s = c
    <3>1. /\ LooksAround(v, s, order) \in Like(v) /\ Same(v, LooksAround(v, s, order))
          /\ Heeds(v, LooksAround(v, s, order)) /\ Minds(LooksAround(v, s, order), s)
      BY <2>1, <2>3, LooksAroundLike
    <3>2. LooksAround(v, s, order) \in Like(a) /\ Same(a, LooksAround(v, s, order))
      BY <3>1, LikeFollows, SameFollows
    <3>3. Heeds(a, LooksAround(v, s, order))
      BY <2>1, <3>1, HeedsFollows
    <3> QED
      BY <2>3, <3>1, <3>2, <3>3 DEF Acquainted
  <2>4. CASE s \in Monsters /\ s # c
    <3>1. /\ OnCreatureEnter(v, s, c) \in Like(v) /\ Same(v, OnCreatureEnter(v, s, c))
          /\ Heeds(v, OnCreatureEnter(v, s, c))
          /\ Faces(OnCreatureEnter(v, s, c), s, c) => Knows(OnCreatureEnter(v, s, c), s, c)
      BY <2>1, <2>4, OnEnterLike, OnEnterSame, SameReflexive, OnEnterHeeds
    <3>2. OnCreatureEnter(v, s, c) \in Like(a) /\ Same(a, OnCreatureEnter(v, s, c))
      BY <3>1, LikeFollows, SameFollows
    <3>3. Heeds(a, OnCreatureEnter(v, s, c))
      BY <2>1, <3>1, HeedsFollows
    <3> QED
      BY <2>4, <3>1, <3>2, <3>3 DEF Acquainted
  <2> QED
    BY <2>2, <2>3, <2>4
<1> HIDE DEF W, S, n, Appear
<1> DEFINE F == [z \in W \X (1 .. n) |->
                IF order[z[2]] \in S THEN Appear(z[1], order[z[2]]) ELSE z[1]]
<1>t1. F \in [W \X (1 .. n) -> W]
  BY <1>o
<1>t2. PICK f \in [0 .. n -> W] : f[0] = a /\ \A k \in 1 .. n : f[k] = F[<<f[k - 1], k>>]
  <2> HIDE DEF F
  <2>1. Turns(W, a, n, F) # {}
    BY <1>w, <1>t1, TurnsExist
  <2> QED
    BY <2>1 DEF Turns
<1>t3. f = [k \in 0 .. n |-> IF k = 0 THEN a
                             ELSE IF order[k] \in S THEN Appear(f[k - 1], order[k])
                             ELSE f[k - 1]]
  <2>1. ASSUME NEW k \in 1 .. n
        PROVE  f[k] = IF order[k] \in S THEN Appear(f[k - 1], order[k]) ELSE f[k - 1]
    <3>1. k - 1 \in 0 .. n
      BY <1>w
    <3>2. <<f[k - 1], k>> \in W \X (1 .. n)
      BY <1>t2, <3>1
    <3> QED
      BY <1>t2, <3>2
  <2>2. \A k \in 0 .. n : k # 0 => k \in 1 .. n
    BY <1>w
  <2> HIDE DEF F
  <2>3. \A k \in 0 .. n : f[k] = IF k = 0 THEN a
                                 ELSE IF order[k] \in S THEN Appear(f[k - 1], order[k])
                                 ELSE f[k - 1]
    BY <1>t2, <2>1, <2>2
  <2> QED
    BY <1>t2, <2>3
<1>t4. after = [k \in 0 .. n |-> IF k = 0 THEN a
                                 ELSE IF order[k] \in S THEN Appear(after[k - 1], order[k])
                                 ELSE after[k - 1]]
  BY <1>t3, Zenon
<1> HIDE DEF after
<1>t5. after[0] \in W /\ \A k \in 1 .. n : after[k - 1] \in W => after[k] \in W
  <2> HIDE DEF F
  <2>1. 0 \in 0 .. n /\ \A k \in 1 .. n : k \in 0 .. n /\ k # 0
    BY <1>w
  <2> QED
    BY <1>w, <1>o, <1>t4, <2>1
<1>t6. after[n] \in W
  BY <1>w, <1>t5, TurnsStay
<1> DEFINE M == [s \in S |-> {v \in W : Acquainted(v, s, c)}]
<1>t7. ASSUME NEW k \in 1 .. n, after[k - 1] \in W
       PROVE  /\ order[k] \in S => after[k] \in M[order[k]]
              /\ \A s \in S : after[k - 1] \in M[s] => after[k] \in M[s]
  <2>1. k \in 0 .. n /\ k # 0
    BY <1>w
  <2>2. after[k] = IF order[k] \in S THEN Appear(after[k - 1], order[k]) ELSE after[k - 1]
    BY <1>t4, <2>1
  <2>3. ASSUME order[k] \in S
        PROVE  /\ after[k] \in W /\ Heeds(after[k - 1], after[k])
               /\ Acquainted(after[k], order[k], c)
    BY <1>t7, <1>o, <2>2, <2>3
  <2>4. ASSUME NEW s \in S, after[k - 1] \in M[s]
        PROVE  after[k] \in M[s]
    BY <2>2, <2>3, <2>4, AcquaintedStays
  <2> QED
    BY <2>3, <2>4
<1> HIDE DEF M
<1>t8. \A j \in 1 .. n : order[j] \in S => after[n] \in M[order[j]]
  BY <1>w, <1>t5, <1>t7, TurnsMark
<1>t9. ASSUME AwareBut(a, c)
       PROVE  Aware(after[n])
  <2>1. AwareBut(after[n], c) /\ after[n] \in Worlds
    BY <1>t6, <1>t9, AcquaintedStays DEF W, Like, Sound
  <2>2. ASSUME NEW s \in Creatures, after[n].status[s] = "placed", CanSee(after[n], s, c)
        PROVE  Acquainted(after[n], s, c)
    <3>1. a.status[s] = "placed" /\ CanSee(a, s, c)
      BY <1>t6, <2>2 DEF W, Same, CanSee
    <3>2. s \in S
      BY <3>1 DEF S, Spectators, Present, CanSee
    <3>3. PICK j \in 1 .. n : order[j] = s
      BY <3>1 DEF Seen, n
    <3>4. after[n] \in M[s]
      BY <1>t8, <3>2, <3>3
    <3> QED
      BY <3>2, <3>4 DEF M
  <2> QED
    BY <2>1, <2>2, AllAcquainted
<1> DEFINE v == after[n]
<1>2. v \in Like(a) /\ Same(a, v) /\ v \in Sound /\ v.status[c] = "placed"
  BY <1>t6, LikeIsAfter DEF W, Like
<1>3. /\ AddCreatureCheck(v, c) \in Like(v) /\ AddCreatureCheck(v, c).check[c]
      /\ Same(v, AddCreatureCheck(v, c))
  BY <1>2, AddCheckLike, ListsSame, SameReflexive
<1>4. AddCreatureCheck(v, c) \in Like(a) /\ Same(a, AddCreatureCheck(v, c))
  BY <1>2, <1>3, LikeFollows, SameFollows
<1>5. AwareBut(a, c) => Aware(AddCreatureCheck(v, c))
  <2> HIDE DEF v
  <2>1. Heeds(v, AddCreatureCheck(v, c))
    BY <1>2, AddCheckHeeds DEF Sound
  <2>2. AwareBut(a, c) => Aware(v)
    BY <1>t9 DEF v
  <2> QED
    BY <2>1, <2>2, MindsStays
<1> QED
  BY <1>1, <1>3, <1>4, <1>5

----------------------------------------------------------------------------
(* Creatures leave the map.                                                *)

\* c is off the map, and the map's reference waits to be released.
TakenAway(w, c) ==
    RemoveCreatureCheck([w EXCEPT !.status[c] = "removed", !.releases[c] = @ + 1], c)

LEMMA TakenAwayIs ==
    ASSUME NEW w \in Sound, NEW c \in Creatures, w.status[c] = "placed"
    PROVE  /\ TakenAway(w, c) \in Worlds
           /\ TakenAway(w, c).status = With(w.status, c, "removed")
           /\ TakenAway(w, c).releases = With(w.releases, c, w.releases[c] + 1)
           /\ TakenAway(w, c).check = With(w.check, c, FALSE)
           /\ TakenAway(w, c).listed = w.listed /\ TakenAway(w, c).alive = w.alive
           /\ TakenAway(w, c).uses = w.uses /\ TakenAway(w, c).master = w.master
           /\ TakenAway(w, c).summons = w.summons /\ TakenAway(w, c).targets = w.targets
           /\ TakenAway(w, c).friends = w.friends /\ TakenAway(w, c).place = w.place
           /\ TakenAway(w, c).attacked = w.attacked /\ TakenAway(w, c).followed = w.followed
           /\ TakenAway(w, c).overlooked = w.overlooked
<1> DEFINE a == [w EXCEPT !.status = [w.status EXCEPT ![c] = "removed"]]
           b == [a EXCEPT !.releases = [w.releases EXCEPT ![c] = w.releases[c] + 1]]
           e == [b EXCEPT !.check = [w.check EXCEPT ![c] = FALSE]]
<1>1. w \in Worlds
  BY DEF Sound
<1>2. a \in Worlds
  BY <1>1, Changed, Typed
<1>3. b \in Worlds
  <2>1. [w.releases EXCEPT ![c] = w.releases[c] + 1] \in [Creatures -> Nat]
    BY <1>1, Typed
  <2> HIDE DEF a
  <2> QED
    BY <1>2, <2>1, Changed
<1>4. e \in Worlds
  <2>1. [w.check EXCEPT ![c] = FALSE] \in [Creatures -> BOOLEAN]
    BY <1>1, Typed
  <2> HIDE DEF b
  <2> QED
    BY <1>3, <2>1, Changed
<1>5. b = [w EXCEPT !.status[c] = "removed", !.releases[c] = @ + 1]
  BY <1>1 DEF Worlds
<1>6. b.check = w.check /\ b.listed = w.listed
  BY <1>1 DEF Worlds
<1>7. TakenAway(w, c) = e
  <2>1. CASE w.listed[c]
    <3> HIDE DEF b
    <3>1. TakenAway(w, c) = [b EXCEPT !.check[c] = FALSE]
      BY <1>5, <1>6, <2>1 DEF TakenAway, RemoveCreatureCheck
    <3> QED
      BY <1>6, <3>1
  <2>2. CASE ~w.listed[c]
    <3>1. ~w.check[c] /\ w.check \in [Creatures -> BOOLEAN]
      BY <1>1, <2>2, Typed DEF Sound, Minded
    <3>2. [w.check EXCEPT ![c] = FALSE] = w.check
      BY <3>1
    <3>3. e = b
      <4> HIDE DEF a
      <4>1. b = [b EXCEPT !.check = b.check]
        BY <1>3 DEF Worlds
      <4> QED
        BY <1>6, <3>2, <4>1
    <3> HIDE DEF b
    <3> QED
      BY <1>5, <1>6, <2>2, <3>3 DEF TakenAway, RemoveCreatureCheck
  <2> QED
    BY <2>1, <2>2
<1> QED
  BY <1>1, <1>4, <1>7 DEF Worlds, With

\* The use of the map becomes one to release.
LEMMA TakenAwayAfter ==
    ASSUME NEW w \in Sound, NEW c \in Creatures, w.status[c] = "placed"
    PROVE  TakenAway(w, c) \in After(w)
<1> DEFINE v == TakenAway(w, c)
<1>1. /\ v \in Worlds
      /\ v.status = With(w.status, c, "removed")
      /\ v.releases = With(w.releases, c, w.releases[c] + 1)
      /\ v.check = With(w.check, c, FALSE)
      /\ v.listed = w.listed /\ v.alive = w.alive /\ v.uses = w.uses /\ v.master = w.master
      /\ v.summons = w.summons /\ v.targets = w.targets /\ v.friends = w.friends
  BY TakenAwayIs
<1> HIDE DEF v
<1>2. /\ w \in Worlds /\ w.status \in [Creatures -> {"none", "placed", "removed"}]
      /\ w.check \in [Creatures -> BOOLEAN] /\ w.releases \in [Creatures -> Nat]
      /\ w.uses \in [Creatures -> Int]
  BY Typed DEF Sound
<1>3. Due(v)
  <2> SUFFICES ASSUME NEW d \in Creatures
               PROVE  v.uses[d] = B(v.status[d] = "placed") + B(v.listed[d]) + Refs(v.summons, d)
                                  + Refs(v.targets, d) + Refs(v.friends, d) + v.releases[d]
    BY DEF Due
  <2> DEFINE l == B(w.listed[d])
             s == Refs(w.summons, d)
             t == Refs(w.targets, d)
             f == Refs(w.friends, d)
             r == w.releases[d]
             p == B(w.status[d] = "placed")
             q == B(v.status[d] = "placed")
             k == v.releases[d]
  <2>1. w.uses[d] = p + l + s + t + f + r
    BY DEF Sound, Due
  <2>2. l \in Int /\ s \in Int /\ t \in Int /\ f \in Int /\ r \in Int /\ p \in Int /\ q \in Int
    BY <1>2, RefsAre DEF B
  <2>3. q + k = p + r
    <3>1. CASE d = c
      <4>1. v.status[d] = "removed" /\ k = r + 1
        BY <1>1, <1>2, <3>1 DEF With
      <4>2. q = 0 /\ p = 1
        BY <3>1, <4>1 DEF B
      <4> QED
        BY <2>2, <4>1, <4>2
    <3>2. CASE d # c
      <4>1. v.status[d] = w.status[d] /\ k = r
        BY <1>1, <1>2, <3>2 DEF With
      <4> QED
        BY <4>1
    <3> QED
      BY <3>1, <3>2
  <2>4. k \in Int
    BY <1>1, Typed
  <2>5. v.uses[d] = q + l + s + t + f + k
    <3>1. v.uses[d] = w.uses[d]
      BY <1>1
    <3> HIDE DEF l, s, t, f, r, p, q, k
    <3> QED
      BY <2>1, <2>2, <2>3, <2>4, <3>1
  <2> QED
    BY <1>1, <2>5
<1>4. Agree(v) /\ Fresh(v) /\ Minded(v)
  BY <1>1, <1>2 DEF Sound, Agree, Fresh, Minded, With
<1>5. v \in Sound
  BY <1>1, <1>3, <1>4 DEF Sound
<1>6. v \in After(w)
  BY <1>1, <1>2, <1>5, MonstersAre DEF After, With
<1> QED
  BY <1>6 DEF v

LEMMA LeavesMasterLike ==
    ASSUME NEW w \in Sound, NEW c \in Creatures
    PROVE  LeavesMaster(w, c) \in Like(w)
<1>1. w.master[c] \in Someone
  BY Typed DEF Sound
<1>2. CASE w.master[c] = Nobody
  <2>1. LeavesMaster(w, c) = w
    BY <1>2 DEF LeavesMaster
  <2> QED
    BY <2>1, Reflexive
<1>3. CASE w.master[c] # Nobody
  <2>1. w.master[c] \in Creatures
    BY <1>1, <1>3 DEF Someone
  <2>2. RemoveSummon(w, w.master[c], c) \in Like(w)
    BY <2>1, RemoveSummonLike
  <2> QED
    BY <2>2, Reflexive DEF LeavesMaster
<1> QED
  BY <1>2, <1>3

LEMMA OthersAreBut ==
    ASSUME NEW w, NEW v, NEW c
    PROVE  /\ HeedsOthers(w, v, c) => HeedsBut(w, v, c)
           /\ HeedsBut(w, v, c) /\ v.status[c] # "placed" => Heeds(w, v)
  BY DEF HeedsOthers, HeedsBut, Heeds, Heed, Faces

LEMMA LeavesMasterHeeds ==
    ASSUME NEW w \in Sound, NEW c \in Creatures
    PROVE  HeedsBut(w, LeavesMaster(w, c), c)
<1>1. HeedsBut(w, w, c)
  BY HeedsFollows
<1>2. w.master[c] # Nobody => w.master[c] \in Creatures
  BY Typed DEF Sound, Someone
<1>3. w.master[c] # Nobody => HeedsBut(w, RemoveSummon(w, w.master[c], c), c)
  BY <1>2, RemoveSummonHeeds
<1> QED
  BY <1>1, <1>3 DEF LeavesMaster

\* Whoever is told that c leaves forgets nobody else.
LEMMA DisappearHeeds ==
    ASSUME NEW w \in Sound, NEW c \in Creatures, NEW s \in Creatures, w.status[s] # "none"
    PROVE  /\ HeedsBut(w, Lost(w, s, c), c)
           /\ s \in Monsters => HeedsBut(w, OnCreatureLeave(w, s, c), c)
           /\ c \in Monsters => HeedsBut(w, SetIdle(w, c, TRUE), c)
<1>1. HeedsBut(w, Lost(w, s, c), c)
  BY CalmReflexive, CalmLost, CalmHeeds, HeedsFollows
<1>2. s \in Monsters => HeedsBut(w, OnCreatureLeave(w, s, c), c)
  BY OnLeaveHeeds DEF HeedsBut
<1>3. c \in Monsters => HeedsBut(w, SetIdle(w, c, TRUE), c)
  BY SetIdleHeeds, OthersAreBut DEF Sound
<1> QED
  BY <1>1, <1>2, <1>3

\* Everybody around is told that c leaves, who no longer thinks.
LEMMA LeftAfter ==
    ASSUME NEW w \in Sound, NEW c \in Creatures, w.status[c] = "placed",
           NEW order \in Seq(Creatures), Seen(w, order, c)
    PROVE  /\ Left(w, c, order) \in After(w) /\ Left(w, c, order) \in Sound
           /\ Steers(w, Left(w, c, order))
           /\ Left(w, c, order).status = With(w.status, c, "removed")
           /\ Heeds(w, Left(w, c, order))
<1> DEFINE Disappear(v, s) ==
                CASE s = c /\ s \in Monsters    -> SetIdle(LeavesMaster(Lost(v, s, c), c), c, TRUE)
                  [] s = c /\ s \notin Monsters -> LeavesMaster(Lost(v, s, c), c)
                  [] s # c /\ s \in Monsters    -> OnCreatureLeave(Lost(v, s, c), s, c)
                  [] s # c /\ s \notin Monsters -> Lost(v, s, c)
           S == Spectators(w, w.place[c])
           W == {v \in Like(w) : Loosed(w, v) /\ HeedsBut(w, v, c)}
           n == Len(order)
           after[k \in 0 .. n] ==
                IF k = 0 THEN w
                ELSE IF order[k] \in S THEN Disappear(after[k - 1], order[k])
                ELSE after[k - 1]
<1>1. Left(w, c, order) = TakenAway(after[n], c)
  BY DEF Left, Told, TakenAway
<1>w. n \in Nat /\ w \in W /\ \A k \in 1 .. n : order[k] \in Creatures
  <2>1. HeedsBut(w, w, c)
    BY HeedsFollows
  <2> QED
    BY <2>1, Reflexive, SameReflexive
<1>o. ASSUME NEW v \in W, NEW s \in S
      PROVE  /\ Disappear(v, s) \in W /\ Loosed(v, Disappear(v, s))
             /\ ~Points(Disappear(v, s), s, c)
  <2>1. v \in Sound /\ v.status[s] # "none" /\ s \in Creatures
    BY LikeIsAfter DEF Like, Spectators, Present
  <2> DEFINE a == Lost(v, s, c)
  <2>2. a \in Like(v) /\ Loosed(v, a) /\ ~Points(a, s, c) /\ HeedsBut(v, a, c)
    BY <2>1, LostLike, LostIs, DisappearHeeds
  <2>3. Disappear(v, s) =
                CASE s = c /\ s \in Monsters    -> SetIdle(LeavesMaster(a, c), c, TRUE)
                  [] s = c /\ s \notin Monsters -> LeavesMaster(a, c)
                  [] s # c /\ s \in Monsters    -> OnCreatureLeave(a, s, c)
                  [] s # c /\ s \notin Monsters -> a
    OBVIOUS
  <2> HIDE DEF a, Disappear
  <2>4. a \in W /\ a \in Sound /\ a.status[s] # "none"
    <3>1. a \in W /\ a \in Sound
      BY <2>2, LikeFollows, LoosedFollows, HeedsFollows
    <3> QED
      BY <2>1, <2>2, <3>1 DEF Like
  <2>8. ASSUME NEW b \in Like(a), Loosed(a, b), HeedsBut(a, b, c)
        PROVE  b \in W /\ Loosed(v, b) /\ ~Points(b, s, c)
    <3>1. b \in Like(w) /\ Loosed(v, b) /\ Loosed(w, b) /\ HeedsBut(w, b, c)
      BY <2>2, <2>4, <2>8, LikeFollows, LoosedFollows, HeedsFollows
    <3>2. ~Points(b, s, c)
      BY <2>1, <2>2, <2>8 DEF Loosed
    <3> QED
      BY <3>1, <3>2
  <2>5. CASE s = c
    <3> DEFINE b == LeavesMaster(a, c)
    <3>1. b \in Like(a) /\ Loosed(a, b) /\ HeedsBut(a, b, c)
      BY <2>4, LeavesMasterLike, LeavesMasterLoosed, LeavesMasterHeeds
    <3>2. b \in Sound
      BY <2>4, <3>1, LikeFollows
    <3>3. b.status[c] # "none"
      BY <2>4, <2>5, <3>1 DEF Like
    <3>4. CASE s \in Monsters
      <4>1. Disappear(v, s) = SetIdle(b, c, TRUE)
        BY <2>3, <2>5, <3>4
      <4> HIDE DEF b
      <4>2. SetIdle(b, c, TRUE) \in Like(b) /\ Loosed(b, SetIdle(b, c, TRUE))
        BY <2>5, <3>2, <3>3, <3>4, SetIdleLike, SetIdleSame, SameReflexive, SameLoosed
      <4>h. HeedsBut(b, SetIdle(b, c, TRUE), c)
        BY <2>5, <3>2, <3>3, <3>4, DisappearHeeds
      <4>3. /\ SetIdle(b, c, TRUE) \in Like(a) /\ Loosed(a, SetIdle(b, c, TRUE))
            /\ HeedsBut(a, SetIdle(b, c, TRUE), c)
        BY <3>1, <4>2, <4>h, LikeFollows, LoosedFollows, HeedsFollows
      <4> QED
        BY <2>8, <4>1, <4>3
    <3>5. CASE s \notin Monsters
      <4>1. Disappear(v, s) = b
        BY <2>3, <2>5, <3>5
      <4> QED
        BY <2>8, <3>1, <4>1
    <3> QED
      BY <3>4, <3>5
  <2>6. CASE s # c /\ s \in Monsters
    <3>1. Disappear(v, s) = OnCreatureLeave(a, s, c)
      BY <2>3, <2>6
    <3>2. /\ OnCreatureLeave(a, s, c) \in Like(a) /\ Loosed(a, OnCreatureLeave(a, s, c))
          /\ HeedsBut(a, OnCreatureLeave(a, s, c), c)
      BY <2>1, <2>4, <2>6, OnLeaveLike, OnLeaveSame, SameReflexive, SameLoosed, DisappearHeeds
    <3> QED
      BY <2>8, <3>1, <3>2
  <2>7. CASE s # c /\ s \notin Monsters
    <3>1. Disappear(v, s) = a
      BY <2>3, <2>7
    <3> QED
      BY <2>2, <2>4, <3>1
  <2> QED
    BY <2>5, <2>6, <2>7
<1> HIDE DEF W, S, n, Disappear
<1> DEFINE F == [z \in W \X (1 .. n) |->
                IF order[z[2]] \in S THEN Disappear(z[1], order[z[2]]) ELSE z[1]]
<1>t1. F \in [W \X (1 .. n) -> W]
  BY <1>o
<1>t2. PICK f \in [0 .. n -> W] : f[0] = w /\ \A k \in 1 .. n : f[k] = F[<<f[k - 1], k>>]
  <2> HIDE DEF F
  <2>1. Turns(W, w, n, F) # {}
    BY <1>w, <1>t1, TurnsExist
  <2> QED
    BY <2>1 DEF Turns
<1>t3. f = [k \in 0 .. n |-> IF k = 0 THEN w
                             ELSE IF order[k] \in S THEN Disappear(f[k - 1], order[k])
                             ELSE f[k - 1]]
  <2>1. ASSUME NEW k \in 1 .. n
        PROVE  f[k] = IF order[k] \in S THEN Disappear(f[k - 1], order[k]) ELSE f[k - 1]
    <3>1. k - 1 \in 0 .. n
      BY <1>w
    <3>2. <<f[k - 1], k>> \in W \X (1 .. n)
      BY <1>t2, <3>1
    <3> QED
      BY <1>t2, <3>2
  <2>2. \A k \in 0 .. n : k # 0 => k \in 1 .. n
    BY <1>w
  <2> HIDE DEF F
  <2>3. \A k \in 0 .. n : f[k] = IF k = 0 THEN w
                                 ELSE IF order[k] \in S THEN Disappear(f[k - 1], order[k])
                                 ELSE f[k - 1]
    BY <1>t2, <2>1, <2>2
  <2> QED
    BY <1>t2, <2>3
<1>t4. after = [k \in 0 .. n |-> IF k = 0 THEN w
                                 ELSE IF order[k] \in S THEN Disappear(after[k - 1], order[k])
                                 ELSE after[k - 1]]
  BY <1>t3, Zenon
<1> HIDE DEF after
<1>t5. after[0] \in W /\ \A k \in 1 .. n : after[k - 1] \in W => after[k] \in W
  <2> HIDE DEF F
  <2>1. 0 \in 0 .. n /\ \A k \in 1 .. n : k \in 0 .. n /\ k # 0
    BY <1>w
  <2> QED
    BY <1>w, <1>o, <1>t4, <2>1
<1>t6. after[n] \in W
  BY <1>w, <1>t5, TurnsStay
<1> DEFINE v == after[n]
<1>2. v \in Like(w) /\ Loosed(w, v) /\ HeedsBut(w, v, c)
  BY <1>t6 DEF W
<1>m. \A s \in S : (\E k \in 1 .. n : order[k] = s) => ~Points(v, s, c)
  <2> DEFINE M == [s \in S |-> {u \in W : ~Points(u, s, c)}]
  <2>1. \A k \in 1 .. n : after[k] = IF order[k] \in S THEN Disappear(after[k - 1], order[k])
                                     ELSE after[k - 1]
    <3>1. \A k \in 1 .. n : k \in 0 .. n /\ k # 0
      BY <1>w
    <3> QED
      BY <1>t4, <3>1
  <2>2. ASSUME NEW k \in 1 .. n, after[k - 1] \in W, order[k] \in S
        PROVE  after[k] \in M[order[k]]
    BY <1>o, <2>1, <2>2
  <2>3. ASSUME NEW k \in 1 .. n, NEW s \in S, after[k - 1] \in W, after[k - 1] \in M[s]
        PROVE  after[k] \in M[s]
    <3>1. CASE order[k] \in S
      <4>1. after[k] \in W /\ Loosed(after[k - 1], after[k])
        BY <1>o, <2>1, <2>3, <3>1
      <4>2. s \in Creatures /\ c \in Creatures /\ ~Points(after[k - 1], s, c)
        BY <2>3 DEF S, Spectators
      <4>3. ~Points(after[k], s, c)
        BY <4>1, <4>2 DEF Loosed
      <4> QED
        BY <4>1, <4>3
    <3>2. CASE order[k] \notin S
      BY <2>1, <2>3, <3>2
    <3> QED
      BY <3>1, <3>2
  <2> HIDE DEF M
  <2>4. \A j \in 1 .. n : order[j] \in S => after[n] \in M[order[j]]
    BY <1>w, <1>t5, <2>2, <2>3, TurnsMark
  <2>5. ASSUME NEW s \in S, NEW k \in 1 .. n, order[k] = s
        PROVE  ~Points(v, s, c)
    <3>1. after[n] \in M[s]
      BY <2>4, <2>5
    <3> QED
      BY <3>1 DEF M
  <2> QED
    BY <2>5
<1>g. \A d \in Creatures : w.status[d] = "placed" /\ CanSee(w, d, c) => ~Points(v, d, c)
  BY <1>m DEF S, n, Spectators, Present, CanSee, Seen
<1> HIDE DEF v
<1>3. v \in After(w) /\ v \in Sound /\ v.status[c] = "placed"
  BY <1>2, LikeIsAfter DEF Like
<1>4. TakenAway(v, c) \in After(v)
  BY <1>3, TakenAwayAfter
<1>5. TakenAway(v, c) \in After(w) /\ TakenAway(v, c) \in Sound
  BY <1>3, <1>4, AfterFollows
<1>6. /\ TakenAway(v, c).status = With(v.status, c, "removed")
      /\ TakenAway(v, c).place = v.place /\ TakenAway(v, c).summons = v.summons
      /\ TakenAway(v, c).attacked = v.attacked /\ TakenAway(v, c).followed = v.followed
      /\ DOMAIN TakenAway(v, c) = Fields
  BY <1>3, TakenAwayIs, WorldFields
<1> DEFINE u == TakenAway(v, c)
<1> HIDE DEF u
<1>7. /\ DOMAIN u = Fields /\ u.place = w.place /\ u.status = With(w.status, c, "removed")
      /\ \A d \in Creatures :
            /\ u.summons[d] \subseteq w.summons[d]
            /\ \A t \in Creatures : Points(u, d, t) => Points(v, d, t) /\ Points(w, d, t)
  BY <1>2, <1>6 DEF u, Loosed, Points
<1>8. /\ u.status[c] = "removed"
      /\ \A d \in Creatures : d # c => u.status[d] = w.status[d]
  BY <1>7, Typed DEF With, Sound
<1>9. Steers(w, u)
  BY <1>g, <1>7, <1>8 DEF Steers
<1>h. Heeds(w, u)
  <2>1. /\ u.place = v.place /\ u.alive = v.alive /\ u.master = v.master
        /\ u.overlooked = v.overlooked /\ u.targets = v.targets
        /\ u.status = With(v.status, c, "removed") /\ u.check = With(v.check, c, FALSE)
    BY <1>3, TakenAwayIs DEF u
  <2>2. v.status \in [Creatures -> {"none", "placed", "removed"}]
        /\ v.check \in [Creatures -> BOOLEAN]
    BY <1>3, Typed DEF Sound
  <2>3. HeedsBut(v, u, c)
    BY <2>1, <2>2, MonstersAre DEF HeedsBut, Heed, Faces, Knows, CanSee, With
  <2> QED
    BY <1>2, <1>8, <2>3, HeedsFollows, OthersAreBut
<1> QED
  BY <1>1, <1>5, <1>7, <1>9, <1>h DEF v, u

\* Summons go with their master, while they are on the map.
LEMMA RemovedAfter ==
    ASSUME NEW w \in Sound, NEW c \in Creatures, w.status[c] = "placed",
           NEW order \in Seq(Creatures), SeenAll(w, order, c), Flat(w)
    PROVE  /\ Removed(w, c, order) \in After(w) /\ Removed(w, c, order) \in Sound
           /\ Steers(w, Removed(w, c, order))
           /\ Attended(w) => Attended(Removed(w, c, order))
           /\ Heeds(w, Removed(w, c, order))
           /\ Removed(w, c, order).status[c] # "placed"
           /\ \A d \in Creatures : d \notin {c} \cup w.summons[c] =>
                  Removed(w, c, order).status[d] = w.status[d]
<1> DEFINE Follow(v, s) == IF Present(v, s) THEN Left(v, s, order) ELSE v
           a == Left(w, c, order)
           S == w.summons[c]
           W == {v \in After(w) : /\ Steers(w, v) /\ v.status[c] # "placed"
                                  /\ Heeds(w, v)
                                  /\ \A d \in Creatures :
                                        d \notin {c} \cup S => v.status[d] = w.status[d]}
           n == Len(order)
           after[k \in 0 .. n] ==
                IF k = 0 THEN a
                ELSE IF order[k] \in S THEN Follow(after[k - 1], order[k])
                ELSE after[k - 1]
<1>1. Removed(w, c, order) = after[n]
  BY DEF Removed, Told
<1>w. n \in Nat /\ a \in W /\ \A k \in 1 .. n : order[k] \in Creatures
  <2>1. /\ a \in After(w) /\ Steers(w, a) /\ a.status = With(w.status, c, "removed")
        /\ Heeds(w, a)
    BY LeftAfter DEF SeenAll
  <2> HIDE DEF a
  <2>2. /\ a.status[c] # "placed"
        /\ \A d \in Creatures : d \notin {c} \cup S => a.status[d] = w.status[d]
    BY <2>1, Typed DEF With, Sound
  <2> QED
    BY <2>1, <2>2
<1>o. ASSUME NEW v \in W, NEW s \in S
      PROVE  /\ Follow(v, s) \in W /\ Follow(v, s).status[s] # "placed"
             /\ \A d \in Creatures : Follow(v, s).status[d] = "placed" => v.status[d] = "placed"
  <2>1. v \in Sound /\ s \in Creatures
    BY Typed, MonstersAre DEF After, Sound
  <2>2. CASE Present(v, s)
    <3> DEFINE u == Left(v, s, order)
    <3>1. Seen(v, order, s)
      BY SteersSeen DEF SeenAll
    <3>2. /\ u \in After(v) /\ Steers(v, u) /\ u.status = With(v.status, s, "removed")
          /\ Heeds(v, u)
      BY <2>1, <2>2, <3>1, LeftAfter DEF Present
    <3>3. Follow(v, s) = u
      BY <2>2
    <3> HIDE DEF u, Follow
    <3>4. /\ u.status[s] = "removed"
          /\ \A d \in Creatures : d # s => u.status[d] = v.status[d]
      BY <2>1, <3>2, Typed DEF With, Sound
    <3>5. u \in After(w) /\ Steers(w, u) /\ Heeds(w, u)
      BY <3>2, AfterFollows, SteersFollows, HeedsFollows
    <3>6. /\ u.status[c] # "placed"
          /\ \A d \in Creatures : d \notin {c} \cup S => u.status[d] = w.status[d]
      BY <2>1, <3>4
    <3>7. \A d \in Creatures : u.status[d] = "placed" => v.status[d] = "placed"
      BY <3>2 DEF Steers
    <3> QED
      BY <3>3, <3>4, <3>5, <3>6, <3>7
  <2> QED
    BY <2>2 DEF Present
<1> HIDE DEF W, S, n, Follow, a
<1> DEFINE F == [z \in W \X (1 .. n) |->
                IF order[z[2]] \in S THEN Follow(z[1], order[z[2]]) ELSE z[1]]
<1>t1. F \in [W \X (1 .. n) -> W]
  BY <1>o
<1>t2. PICK f \in [0 .. n -> W] : f[0] = a /\ \A k \in 1 .. n : f[k] = F[<<f[k - 1], k>>]
  <2> HIDE DEF F
  <2>1. Turns(W, a, n, F) # {}
    BY <1>w, <1>t1, TurnsExist
  <2> QED
    BY <2>1 DEF Turns
<1>t3. f = [k \in 0 .. n |-> IF k = 0 THEN a
                             ELSE IF order[k] \in S THEN Follow(f[k - 1], order[k])
                             ELSE f[k - 1]]
  <2>1. ASSUME NEW k \in 1 .. n
        PROVE  f[k] = IF order[k] \in S THEN Follow(f[k - 1], order[k]) ELSE f[k - 1]
    <3>1. k - 1 \in 0 .. n
      BY <1>w
    <3>2. <<f[k - 1], k>> \in W \X (1 .. n)
      BY <1>t2, <3>1
    <3> QED
      BY <1>t2, <3>2
  <2>2. \A k \in 0 .. n : k # 0 => k \in 1 .. n
    BY <1>w
  <2> HIDE DEF F
  <2>3. \A k \in 0 .. n : f[k] = IF k = 0 THEN a
                                 ELSE IF order[k] \in S THEN Follow(f[k - 1], order[k])
                                 ELSE f[k - 1]
    BY <1>t2, <2>1, <2>2
  <2> QED
    BY <1>t2, <2>3
<1>t4. after = [k \in 0 .. n |-> IF k = 0 THEN a
                                 ELSE IF order[k] \in S THEN Follow(after[k - 1], order[k])
                                 ELSE after[k - 1]]
  BY <1>t3, Zenon
<1> HIDE DEF after
<1>t5. after[0] \in W /\ \A k \in 1 .. n : after[k - 1] \in W => after[k] \in W
  <2> HIDE DEF F
  <2>1. 0 \in 0 .. n /\ \A k \in 1 .. n : k \in 0 .. n /\ k # 0
    BY <1>w
  <2> QED
    BY <1>w, <1>o, <1>t4, <2>1
<1>t6. after[n] \in W
  BY <1>w, <1>t5, TurnsStay
<1> DEFINE v == after[n]
<1>2. /\ v \in After(w) /\ Steers(w, v) /\ v.status[c] # "placed" /\ Heeds(w, v)
      /\ \A d \in Creatures : d \notin {c} \cup S => v.status[d] = w.status[d]
  BY <1>t6 DEF W
<1>m. \A s \in S : (\E k \in 1 .. n : order[k] = s) => v.status[s] # "placed"
  <2> DEFINE M == [s \in S |-> {u \in W : u.status[s] # "placed"}]
  <2>1. \A k \in 1 .. n : after[k] = IF order[k] \in S THEN Follow(after[k - 1], order[k])
                                     ELSE after[k - 1]
    <3>1. \A k \in 1 .. n : k \in 0 .. n /\ k # 0
      BY <1>w
    <3> QED
      BY <1>t4, <3>1
  <2>2. ASSUME NEW k \in 1 .. n, after[k - 1] \in W, order[k] \in S
        PROVE  after[k] \in M[order[k]]
    BY <1>o, <2>1, <2>2
  <2>3. ASSUME NEW k \in 1 .. n, NEW s \in S, after[k - 1] \in W, after[k - 1] \in M[s]
        PROVE  after[k] \in M[s]
    <3>1. CASE order[k] \in S
      <4>1. s \in Creatures
        BY Typed, MonstersAre DEF S, Sound
      <4> QED
        BY <1>o, <2>1, <2>3, <3>1, <4>1
    <3>2. CASE order[k] \notin S
      BY <2>1, <2>3, <3>2
    <3> QED
      BY <3>1, <3>2
  <2> HIDE DEF M
  <2>4. \A j \in 1 .. n : order[j] \in S => after[n] \in M[order[j]]
    BY <1>w, <1>t5, <2>2, <2>3, TurnsMark
  <2>5. ASSUME NEW s \in S, NEW k \in 1 .. n, order[k] = s
        PROVE  v.status[s] # "placed"
    <3>1. after[n] \in M[s]
      BY <2>4, <2>5
    <3> QED
      BY <3>1 DEF M
  <2> QED
    BY <2>5
<1> HIDE DEF v
<1>g. \A s \in S : v.status[s] # "placed"
  <2> SUFFICES ASSUME NEW s \in S, w.status[s] = "placed"
               PROVE  v.status[s] # "placed"
    BY <1>2, Typed, MonstersAre DEF S, Sound, Steers
  <2>1. s \in Creatures /\ CanSee(w, s, s)
    <3>1. s \in Creatures /\ w.place[s] \in Int
      BY Typed, MonstersAre, CreaturesConstants DEF S, Sound
    <3> QED
      BY <3>1, CreaturesConstants DEF CanSee, Near
  <2>2. \E k \in 1 .. n : order[k] = s
    BY <2>1 DEF SeenAll, Seen, S, n
  <2> QED
    BY <1>m, <2>2
<1>3. ASSUME Attended(w)
      PROVE  Attended(v)
  <2> SUFFICES ASSUME NEW d \in Creatures, NEW s \in v.summons[d], v.status[s] = "placed"
               PROVE  v.status[d] = "placed"
    BY DEF Attended
  <2>1. s \in w.summons[d] /\ s \in Creatures
    BY <1>2, Typed, MonstersAre DEF Steers, Sound
  <2>2. w.status[s] = "placed" /\ w.status[d] = "placed"
    BY <1>2, <1>3, <2>1 DEF Steers, Attended
  <2>3. d # c
    BY <1>g, <2>1 DEF S
  <2>4. d \notin S
    BY <2>1 DEF Flat, S
  <2> QED
    BY <1>2, <2>2, <2>3, <2>4
<1> QED
  BY <1>1, <1>2, <1>3 DEF S, v, After

\* So nobody on the map is led astray by a removal.
LEMMA RemovedLed ==
    ASSUME NEW w \in Sound, NEW c \in Creatures, w.status[c] = "placed",
           NEW order \in Seq(Creatures), SeenAll(w, order, c), Led(w)
    PROVE  Led(Removed(w, c, order))
<1> DEFINE v == Removed(w, c, order)
<1>1. Steers(w, v) /\ Attended(v)
  BY RemovedAfter DEF Led
<1> HIDE DEF v
<1>2. Led(v)
  BY <1>1, SteersLeads DEF Led
<1> QED
  BY <1>2 DEF v

\* A death removes, and releases from the master what the removal did not.
LEMMA DiedAfter ==
    ASSUME NEW w \in Sound, NEW c \in Creatures, w.status[c] = "placed",
           NEW order \in Seq(Creatures), SeenAll(w, order, c), Led(w)
    PROVE  /\ Died(w, c, order) \in After(w) /\ Died(w, c, order) \in Sound
           /\ Led(Died(w, c, order)) /\ Heeds(w, Died(w, c, order))
<1> DEFINE a == SetAttackedCreature(w, c, Nobody)
           b == SummonsKilled(a, c)
           e == IF c \in Monsters THEN ListsCleared(b, c) ELSE w
           r == Removed(e, c, order)
           d == IF r.master[c] = Nobody THEN r ELSE RemoveSummon(r, r.master[c], c)
<1>1. Died(w, c, order) = d
  BY DEF Died
<1>2. a \in Like(w) /\ a \in Sound /\ Loosed(w, a) /\ Heeds(w, a)
  <2>1. Calm(w, a)
    BY CalmAttacked, SameReflexive
  <2> QED
    BY <2>1, SetAttackedLike, NobodyIs, LikeIsAfter, GiveUpLoosed, CalmHeeds
<1>3. b \in Like(w) /\ b \in Sound /\ Loosed(w, b) /\ Heeds(w, b)
  <2> HIDE DEF a
  <2>1. b \in Like(a) /\ Loosed(a, b) /\ Heeds(a, b)
    BY <1>2, SummonsKilledLike
  <2> QED
    BY <1>2, <2>1, LikeFollows, LoosedFollows, HeedsFollows
<1>4. e \in Like(w) /\ e \in Sound /\ Loosed(w, e) /\ HeedsBut(w, e, c)
  <2> HIDE DEF b
  <2>1. ListsCleared(b, c) \in Like(b)
    BY <1>3, ListsClearedLike
  <2>2. ListsCleared(b, c) \in Like(w) /\ ListsCleared(b, c) \in Sound
    BY <1>3, <2>1, LikeFollows
  <2>3. Loosed(b, ListsCleared(b, c))
    BY <1>3, ListsSame, SameReflexive, SameLoosed
  <2>4. Loosed(w, ListsCleared(b, c))
    BY <1>3, <2>3, LoosedFollows
  <2>5. HeedsBut(w, ListsCleared(b, c), c) /\ HeedsBut(w, w, c)
    BY <1>3, ListsClearedHeeds, HeedsFollows DEF Sound
  <2> QED
    BY <2>2, <2>4, <2>5, Reflexive, SameReflexive
<1> HIDE DEF e
<1>5. e \in After(w) /\ e.status[c] = "placed"
  BY <1>4, LikeIsAfter DEF Like
<1>L. Led(e) /\ SeenAll(e, order, c) /\ Flat(e)
  <2>1. Led(e) /\ Steers(w, e)
    BY <1>4, LoosedLed
  <2> QED
    BY <2>1, SteersSeen DEF Led
<1>6. r \in After(e) /\ r \in Sound /\ Led(r)
  BY <1>4, <1>5, <1>L, RemovedAfter, RemovedLed
<1>h. Heeds(w, r) /\ r.status[c] # "placed"
  <2>1. Heeds(e, r) /\ r.status[c] # "placed"
    BY <1>4, <1>5, <1>L, RemovedAfter
  <2> HIDE DEF r
  <2> QED
    BY <1>4, <2>1, HeedsFollows, OthersAreBut
<1> HIDE DEF r
<1>7. d \in After(r) /\ Led(d) /\ Heeds(r, d)
  <2>1. CASE r.master[c] = Nobody
    BY <1>6, <2>1, Reflexive, HeedsFollows
  <2>2. CASE r.master[c] # Nobody
    <3>1. r.master[c] \in Creatures
      BY <1>6, <2>2, Typed DEF Someone, Sound
    <3>2. RemoveSummon(r, r.master[c], c) \in Like(r)
      BY <1>6, <3>1, RemoveSummonLike
    <3>3. RemoveSummon(r, r.master[c], c) \in After(r)
      BY <1>6, <3>2, LikeIsAfter
    <3>4. Loosed(r, RemoveSummon(r, r.master[c], c))
      BY <1>6, <3>1, RemoveSummonLoosed
    <3>5. Led(RemoveSummon(r, r.master[c], c))
      BY <1>6, <3>4, LoosedLed
    <3>6. Heeds(r, RemoveSummon(r, r.master[c], c))
      BY <1>6, <1>h, <3>1, RemoveSummonHeeds
    <3> QED
      BY <2>2, <3>3, <3>5, <3>6
  <2> QED
    BY <2>1, <2>2
<1> HIDE DEF d
<1>8. r \in After(w)
  BY <1>5, <1>6, AfterFollows
<1>9. d \in After(w) /\ d \in Sound
  BY <1>6, <1>7, <1>8, AfterFollows
<1> QED
  BY <1>1, <1>7, <1>9, <1>h, HeedsFollows

----------------------------------------------------------------------------
(* Creatures move.                                                         *)

LEMMA SelfSeen ==
    ASSUME NEW w \in Sound, NEW c \in Creatures
    PROVE  CanSee(w, c, c)
<1>1. w.place[c] \in Int
  BY Typed, CreaturesConstants DEF Sound
<1> QED
  BY <1>1, CreaturesConstants DEF CanSee, Near

\* Each who is told of the movement of c gives up what it no longer sees of it.
Marked(w, v, s, c) ==
    \A t \in Creatures : Points(v, s, t) /\ c \in {s, t} => CanSee(w, s, t)

LEMMA MarkStays ==
    ASSUME NEW w, NEW v, NEW u, NEW s \in Creatures, NEW c, v.place = w.place, Steers(v, u)
    PROVE  /\ Marked(w, v, s, c) => Marked(w, u, s, c)
           /\ Marked(v, u, s, c) => Marked(w, u, s, c)
  BY DEF Marked, Steers, CanSee

LEMMA LostIfUnseenLike ==
    ASSUME NEW w \in Sound, NEW s \in Creatures, NEW t
    PROVE  LostIfUnseen(w, s, t) \in Like(w) /\ LostIfUnseen(w, s, t) \in Sound
<1>1. LostIfUnseen(w, s, t) \in Like(w)
  BY LostLike, Reflexive DEF LostIfUnseen
<1> QED
  BY <1>1, LikeIsAfter

LEMMA NoticedLike ==
    ASSUME NEW w \in Sound, NEW s \in Creatures, NEW c
    PROVE  Noticed(w, s, c) \in Like(w) /\ Noticed(w, s, c) \in Sound
<1> DEFINE a == IF c \in {s, w.followed[s]} THEN LostIfUnseen(w, s, w.followed[s]) ELSE w
           b == IF c \in {s, a.attacked[s]} THEN LostIfUnseen(a, s, a.attacked[s]) ELSE a
<1>1. Noticed(w, s, c) = b
  BY DEF Noticed
<1>2. a \in Like(w) /\ a \in Sound
  BY LostIfUnseenLike, Reflexive
<1> HIDE DEF a
<1>3. b \in Like(a)
  BY <1>2, LostIfUnseenLike, Reflexive
<1> QED
  BY <1>1, <1>2, <1>3, LikeFollows

LEMMA LostIfUnseenIs ==
    ASSUME NEW w \in Sound, NEW s \in Creatures, NEW t \in Someone
    PROVE  LET v == LostIfUnseen(w, s, t)
           IN  /\ Loosed(w, v) /\ v.attacked[s] \in {w.attacked[s], Nobody}
               /\ v.followed[s] \in {w.followed[s], Nobody}
               /\ t \in Creatures /\ ~CanSee(w, s, t) => ~Points(v, s, t)
<1>1. CASE t # Nobody /\ ~CanSee(w, s, t)
  <2>1. t \in Creatures /\ LostIfUnseen(w, s, t) = Lost(w, s, t)
    BY <1>1 DEF Someone, LostIfUnseen
  <2> QED
    BY <2>1, LostIs
<1>2. CASE t = Nobody
  BY <1>2, NobodyIs, SameReflexive DEF LostIfUnseen
<1>3. CASE CanSee(w, s, t)
  BY <1>3, SameReflexive DEF LostIfUnseen
<1> QED
  BY <1>1, <1>2, <1>3

\* When c has moved, s sees it if it still points at it, and c sees whom it points at.
LEMMA NoticedIs ==
    ASSUME NEW w \in Sound, NEW s \in Creatures, NEW c \in Creatures
    PROVE  /\ Loosed(w, Noticed(w, s, c))
           /\ \A t \in Creatures : Points(Noticed(w, s, c), s, t) /\ c \in {s, t} => CanSee(w, s, t)
<1> DEFINE a == IF c \in {s, w.followed[s]} THEN LostIfUnseen(w, s, w.followed[s]) ELSE w
           b == IF c \in {s, a.attacked[s]} THEN LostIfUnseen(a, s, a.attacked[s]) ELSE a
<1>1. Noticed(w, s, c) = b
  BY DEF Noticed
<1>2. w.followed[s] \in Someone
  BY Typed DEF Sound
<1>3. /\ a \in Sound /\ Loosed(w, a)
      /\ a.followed[s] \in {w.followed[s], Nobody}
      /\ w.followed[s] \in Creatures /\ c \in {s, w.followed[s]} /\ ~CanSee(w, s, w.followed[s])
            => ~Points(a, s, w.followed[s])
  BY <1>2, LostIfUnseenLike, LostIfUnseenIs, SameReflexive
<1>4. ASSUME NEW t \in Creatures, a.followed[s] = t, c \in {s, t}
      PROVE  CanSee(w, s, t)
  <2>1. t # Nobody /\ t = w.followed[s] /\ Points(a, s, t)
    BY <1>3, <1>4, NobodyIs DEF Points
  <2> HIDE DEF a
  <2> QED
    BY <1>3, <1>4, <2>1
<1> HIDE DEF a
<1>5. a.attacked[s] \in Someone
  BY <1>3, Typed DEF Sound
<1>6. /\ Loosed(a, b) /\ b.attacked[s] \in {a.attacked[s], Nobody}
      /\ b.followed[s] \in {a.followed[s], Nobody}
      /\ a.attacked[s] \in Creatures /\ c \in {s, a.attacked[s]} /\ ~CanSee(a, s, a.attacked[s])
            => ~Points(b, s, a.attacked[s])
  BY <1>3, <1>5, LostIfUnseenIs, SameReflexive
<1> HIDE DEF b
<1>7. \A t \in Creatures : CanSee(a, s, t) <=> CanSee(w, s, t)
  BY <1>3 DEF Loosed, CanSee
<1>8. ASSUME NEW t \in Creatures, Points(b, s, t), c \in {s, t}
      PROVE  CanSee(w, s, t)
  <2>1. CASE b.followed[s] = t
    <3>1. a.followed[s] = t
      BY <1>6, <2>1, NobodyIs
    <3> QED
      BY <1>4, <1>8, <3>1
  <2>2. CASE b.attacked[s] = t
    <3>1. a.attacked[s] = t
      BY <1>6, <2>2, NobodyIs
    <3> QED
      BY <1>6, <1>7, <1>8, <3>1
  <2> QED
    BY <1>8, <2>1, <2>2 DEF Points
<1>9. Loosed(w, b)
  BY <1>3, <1>6, LoosedFollows
<1> QED
  BY <1>1, <1>8, <1>9

LEMMA SeenMovingLike ==
    ASSUME NEW w \in Sound, NEW m \in Monsters, w.status[m] # "none", NEW c \in Creatures,
           NEW sees \in BOOLEAN, NEW saw \in BOOLEAN
    PROVE  /\ SeenMoving(w, m, c, sees, saw) \in Like(w)
           /\ Same(w, SeenMoving(w, m, c, sees, saw))
           /\ (~sees => ~CanSee(w, m, c)) => Heeds(w, SeenMoving(w, m, c, sees, saw))
           /\ sees /\ ~saw /\ Faces(SeenMoving(w, m, c, sees, saw), m, c)
                => Knows(SeenMoving(w, m, c, sees, saw), m, c)
<1>1. CASE sees /\ ~saw
  <2>1. SeenMoving(w, m, c, sees, saw) = OnCreatureEnter(w, m, c)
    BY <1>1 DEF SeenMoving
  <2> QED
    BY <1>1, <2>1, OnEnterLike, OnEnterSame, SameReflexive, OnEnterHeeds
<1>2. CASE ~sees /\ saw
  <2>1. SeenMoving(w, m, c, sees, saw) = OnCreatureLeave(w, m, c)
    BY <1>2 DEF SeenMoving
  <2> DEFINE v == OnCreatureLeave(w, m, c)
  <2>2. v \in Like(w) /\ Same(w, v)
    BY OnLeaveLike, OnLeaveSame, SameReflexive
  <2>3. \A k \in Monsters, d \in Creatures : k # m \/ d # c => Heed(w, v, k, d)
    BY OnLeaveHeeds
  <2> HIDE DEF v
  <2>4. ~CanSee(w, m, c) => Heed(w, v, m, c)
    BY <2>2 DEF Heed, Faces, Same, CanSee
  <2>5. ~CanSee(w, m, c) => Heeds(w, v)
    BY <2>3, <2>4 DEF Heeds
  <2> QED
    BY <1>2, <2>1, <2>2, <2>5 DEF v
<1>3. CASE sees <=> saw
  <2>1. SeenMoving(w, m, c, sees, saw) = w
    BY <1>3 DEF SeenMoving
  <2> QED
    BY <1>3, <2>1, Reflexive, SameReflexive, HeedsFollows
<1> QED
  BY <1>1, <1>2, <1>3

LEMMA ChasedLike ==
    ASSUME NEW w \in Sound, NEW m \in Monsters, w.status[m] # "none", NEW c \in Creatures
    PROVE  /\ Chased(w, m, c) \in Like(w) /\ Steers(w, Chased(w, m, c))
<1>1. SelectTarget(w, m, c) \in Like(w) /\ Steers(w, SelectTarget(w, m, c))
  BY SelectLike, SelectSteers, MonstersAre, NobodyIs
<1> QED
  BY <1>1, Reflexive, SameReflexive, LoosedSteers DEF Chased

LEMMA WatchedLike ==
    ASSUME NEW w \in Sound, NEW m \in Monsters, w.status[m] # "none", NEW c \in Creatures,
           NEW sees \in BOOLEAN, NEW saw \in BOOLEAN
    PROVE  /\ Watched(w, m, c, sees, saw) \in Like(w) /\ Watched(w, m, c, sees, saw) \in Sound
           /\ Steers(w, Watched(w, m, c, sees, saw))
           /\ (~sees => ~CanSee(w, m, c)) => Heeds(w, Watched(w, m, c, sees, saw))
           /\ sees /\ ~saw /\ Faces(Watched(w, m, c, sees, saw), m, c)
                => Knows(Watched(w, m, c, sees, saw), m, c)
<1> DEFINE a == SeenMoving(w, m, c, sees, saw)
           b == IF sees /\ a.master[m] = c THEN [a EXCEPT !.inRange[m] = TRUE] ELSE a
           d == UpdateIdleStatus(b, m)
<1>1. Watched(w, m, c, sees, saw) = Chased(d, m, c)
  BY DEF Watched
<1>2. /\ a \in Like(w) /\ Same(w, a)
      /\ (~sees => ~CanSee(w, m, c)) => Heeds(w, a)
      /\ sees /\ ~saw /\ Faces(a, m, c) => Knows(a, m, c)
  BY SeenMovingLike
<1> HIDE DEF a
<1>3. a \in Sound /\ a.status = w.status
  BY <1>2, LikeIsAfter DEF Like
<1>4. b \in Like(a) /\ Same(a, b) /\ Heeds(a, b)
  <2>1. /\ [a EXCEPT !.inRange[m] = TRUE] \in Like(a) /\ Same(a, [a EXCEPT !.inRange[m] = TRUE])
        /\ Calm(a, [a EXCEPT !.inRange[m] = TRUE])
    BY <1>3, SeenLike, SeenSame, SameReflexive, CalmRange
  <2> QED
    BY <1>3, <2>1, Reflexive, SameReflexive, CalmHeeds, HeedsFollows
<1> HIDE DEF b
<1>5. b \in Like(w) /\ b \in Sound /\ b.status = w.status
  <2>1. b \in Like(w) /\ b \in Sound
    BY <1>2, <1>4, LikeFollows
  <2> QED
    BY <2>1 DEF Like
<1>6. d \in Like(b) /\ Same(b, d)
  BY <1>5, UpdateIdleLike, UpdateIdleSame, SameReflexive
<1>h. Heeds(b, d)
  BY <1>5, UpdateIdleHeeds DEF Sound
<1> HIDE DEF d
<1>7. d \in Like(w) /\ d \in Sound /\ d.status[m] # "none" /\ Steers(w, d)
  <2>1. d \in Like(w) /\ d \in Sound
    BY <1>5, <1>6, LikeFollows
  <2>2. Same(w, d)
    BY <1>2, <1>4, <1>6, SameFollows
  <2> QED
    BY <2>1, <2>2, SameLoosed, LoosedSteers DEF Same
<1>8. Chased(d, m, c) \in Like(d) /\ Steers(d, Chased(d, m, c))
  BY <1>7, ChasedLike
<1> DEFINE e == Chased(d, m, c)
<1>9. Heeds(d, e)
  BY <1>7, CalmReflexive, CalmSelect, CalmHeeds
<1> HIDE DEF e
<1>10. Heeds(a, e)
  BY <1>4, <1>h, <1>9, HeedsFollows
<1>11. (~sees => ~CanSee(w, m, c)) => Heeds(w, e)
  BY <1>2, <1>10, HeedsFollows
<1>12. sees /\ ~saw /\ Faces(e, m, c) => Knows(e, m, c)
  BY <1>2, <1>10 DEF Heeds, Heed
<1> QED
  BY <1>1, <1>7, <1>8, <1>11, <1>12, LikeFollows, SteersFollows DEF e

LEMMA FarRemovedAfter ==
    ASSUME NEW w \in Sound, NEW far \in SUBSET Creatures, NEW order \in Seq(Creatures),
           \A s \in far : w.summons[s] = {} /\ Seen(w, order, s), Flat(w), Attended(w)
    PROVE  LET v == FarRemoved(w, far, order)
           IN  /\ v \in After(w) /\ v \in Sound /\ Steers(w, v) /\ Attended(v) /\ Heeds(w, v)
               /\ \A d \in Creatures : d \notin far => v.status[d] = w.status[d]
<1> DEFINE Drop(v, s) == IF Present(v, s) THEN Removed(v, s, order) ELSE v
           S == far
           W == {v \in After(w) : /\ Steers(w, v) /\ Attended(v) /\ Heeds(w, v)
                                  /\ \A d \in Creatures : d \notin S => v.status[d] = w.status[d]}
           n == Len(order)
           after[k \in 0 .. n] ==
                IF k = 0 THEN w
                ELSE IF order[k] \in S THEN Drop(after[k - 1], order[k])
                ELSE after[k - 1]
<1>1. FarRemoved(w, far, order) = after[n]
  BY DEF FarRemoved, Told
<1>w. n \in Nat /\ w \in W /\ \A k \in 1 .. n : order[k] \in Creatures
  BY Reflexive, SameReflexive, LoosedSteers, HeedsFollows
<1>o. ASSUME NEW v \in W, NEW s \in S
      PROVE  Drop(v, s) \in W
  <2>1. v \in Sound /\ s \in Creatures
    BY DEF After
  <2>2. CASE Present(v, s)
    <3> DEFINE u == Removed(v, s, order)
    <3>1. v.summons[s] = {}
      BY <2>1 DEF Steers
    <3>2. SeenAll(v, order, s) /\ Flat(v)
      <4>1. Seen(v, order, s)
        BY <2>1, SteersSeen
      <4> QED
        BY <3>1, <4>1, SteersLeads DEF SeenAll
    <3>3. /\ u \in After(v) /\ Steers(v, u) /\ Attended(u) /\ Heeds(v, u)
          /\ \A d \in Creatures : d \notin {s} \cup v.summons[s] => u.status[d] = v.status[d]
      BY <2>1, <2>2, <3>2, RemovedAfter DEF Present
    <3> HIDE DEF u
    <3>4. u \in After(w) /\ Steers(w, u) /\ Heeds(w, u)
      BY <3>3, AfterFollows, SteersFollows, HeedsFollows
    <3>5. \A d \in Creatures : d \notin S => u.status[d] = w.status[d]
      BY <3>1, <3>3
    <3>6. u \in W
      BY <3>3, <3>4, <3>5
    <3> QED
      BY <2>2, <3>6 DEF u
  <2> QED
    BY <2>2
<1> HIDE DEF W, S, n, Drop
<1> DEFINE F == [z \in W \X (1 .. n) |->
                IF order[z[2]] \in S THEN Drop(z[1], order[z[2]]) ELSE z[1]]
<1>t1. F \in [W \X (1 .. n) -> W]
  BY <1>o
<1>t2. PICK f \in [0 .. n -> W] : f[0] = w /\ \A k \in 1 .. n : f[k] = F[<<f[k - 1], k>>]
  <2> HIDE DEF F
  <2>1. Turns(W, w, n, F) # {}
    BY <1>w, <1>t1, TurnsExist
  <2> QED
    BY <2>1 DEF Turns
<1>t3. f = [k \in 0 .. n |-> IF k = 0 THEN w
                             ELSE IF order[k] \in S THEN Drop(f[k - 1], order[k]) ELSE f[k - 1]]
  <2>1. ASSUME NEW k \in 1 .. n
        PROVE  f[k] = IF order[k] \in S THEN Drop(f[k - 1], order[k]) ELSE f[k - 1]
    <3>1. k - 1 \in 0 .. n
      BY <1>w
    <3>2. <<f[k - 1], k>> \in W \X (1 .. n)
      BY <1>t2, <3>1
    <3> QED
      BY <1>t2, <3>2
  <2>2. \A k \in 0 .. n : k # 0 => k \in 1 .. n
    BY <1>w
  <2> HIDE DEF F
  <2>3. \A k \in 0 .. n : f[k] = IF k = 0 THEN w
                                 ELSE IF order[k] \in S THEN Drop(f[k - 1], order[k]) ELSE f[k - 1]
    BY <1>t2, <2>1, <2>2
  <2> QED
    BY <1>t2, <2>3
<1>t4. after = [k \in 0 .. n |-> IF k = 0 THEN w
                                 ELSE IF order[k] \in S THEN Drop(after[k - 1], order[k])
                                 ELSE after[k - 1]]
  BY <1>t3, Zenon
<1> HIDE DEF after
<1>t5. after[0] \in W /\ \A k \in 1 .. n : after[k - 1] \in W => after[k] \in W
  <2> HIDE DEF F
  <2>1. 0 \in 0 .. n /\ \A k \in 1 .. n : k \in 0 .. n /\ k # 0
    BY <1>w
  <2> QED
    BY <1>w, <1>o, <1>t4, <2>1
<1>t6. after[n] \in W
  BY <1>w, <1>t5, TurnsStay
<1> QED
  BY <1>1, <1>t6 DEF W, S, After

\* Everybody around both places is told; the creature that moves may lose summons.
LEMMA MovedAfter ==
    ASSUME NEW w \in Sound, NEW c \in Creatures, NEW x \in Places, w.status[c] = "placed",
           NEW far \in SUBSET Creatures, far \subseteq w.summons[c], NEW order \in Seq(Creatures),
           SeenAll(w, order, c), SeenAt(w, order, x), Led(w)
    PROVE  /\ Moved(w, c, x, far, order) \in After(w) /\ Moved(w, c, x, far, order) \in Sound
           /\ Led(Moved(w, c, x, far, order)) /\ Moved(w, c, x, far, order).status[c] = "placed"
           /\ Aware(w) => Aware(Moved(w, c, x, far, order))
<1> DEFINE from == w.place[c]
           Tell(u, s) ==
                CASE s = c /\ s \in Monsters    -> 
                        LooksAround(Noticed(FarRemoved(u, far, order), s, c), s, order)
                  [] s = c /\ s \notin Monsters -> Noticed(FarRemoved(u, far, order), s, c)
                  [] s # c /\ s \in Monsters    -> 
                        Watched(Noticed(u, s, c), s, c, Near(u.place[s], x), Near(u.place[s], from))
                  [] s # c /\ s \notin Monsters -> Noticed(u, s, c)
           a == [w EXCEPT !.place[c] = x]
           S == Spectators(w, from) \cup Spectators(w, x)
           W == {v \in After(w) : /\ Steers(a, v) /\ Attended(v) /\ v.status[c] = "placed"
                                  /\ Heeds(a, v)}
           n == Len(order)
           after[k \in 0 .. n] ==
                IF k = 0 THEN a
                ELSE IF order[k] \in S THEN Tell(after[k - 1], order[k])
                ELSE after[k - 1]
<1>1. Moved(w, c, x, far, order) = after[n]
  BY DEF Moved, Told
<1>h. \E k \in 1 .. Len(order) : order[k] = c
  BY SelfSeen DEF SeenAll, Seen
<1>f. c \notin far /\ \A s \in far : w.summons[s] = {} /\ Seen(w, order, s)
  BY DEF Led, Flat, SeenAll
<1>2. a \in Like(w) /\ a \in Sound
  <2>1. [w.place EXCEPT ![c] = x] \in [Creatures -> Places]
    BY Typed DEF Sound
  <2>2. a = [w EXCEPT !.place = [w.place EXCEPT ![c] = x]]
    OBVIOUS
  <2>3. a \in Like(w)
    BY <2>1, <2>2, Irrelevant
  <2> QED
    BY <2>3, LikeIsAfter
<1>3. /\ a.status = w.status /\ a.summons = w.summons
      /\ a.attacked = w.attacked /\ a.followed = w.followed
      /\ \A d \in Creatures : d # c => a.place[d] = w.place[d]
  OBVIOUS
<1>q. /\ a.alive = w.alive /\ a.master = w.master /\ a.targets = w.targets
      /\ a.check = w.check /\ a.overlooked = w.overlooked /\ a.place[c] = x
  BY Typed, WorldFields DEF Fields, Sound
<1> HIDE DEF a
<1>4. \A d, t \in Creatures : Points(a, d, t) <=> Points(w, d, t)
  BY <1>3 DEF Points
<1>5. Flat(a) /\ Attended(a) /\ Blank(a)
  BY <1>3, <1>4 DEF Led, Flat, Attended, Blank
<1>6. \A s \in far : a.summons[s] = {} /\ Seen(a, order, s)
  <2> SUFFICES ASSUME NEW s \in far
               PROVE  a.summons[s] = {} /\ Seen(a, order, s)
    OBVIOUS
  <2>1. s # c /\ s \in Creatures /\ w.summons[s] = {} /\ Seen(w, order, s)
    BY <1>f
  <2>2. a.place[s] = w.place[s]
    BY <1>3, <2>1
  <2> QED
    BY <1>3, <1>h, <2>1, <2>2 DEF Seen, CanSee
<1>r. ASSUME NEW s \in Creatures, s # c, Near(w.place[s], from), Aware(w)
      PROVE  Acquainted(a, s, c)
  BY <1>3, <1>q, <1>r DEF Acquainted, Aware, Minds, Faces, Knows, CanSee
<1>s. Aware(w) => AwareBut(a, c)
  BY <1>3, <1>q, MonstersAre DEF AwareBut, Aware, Minds, Faces, Knows, CanSee
<1>t. Seen(a, order, c)
  BY <1>3, <1>h, <1>q DEF Seen, SeenAt, CanSee
<1>w. n \in Nat /\ a \in W /\ \A k \in 1 .. n : order[k] \in Creatures
  <2>1. a \in After(w) /\ Steers(a, a) /\ Heeds(a, a)
    BY <1>2, LikeIsAfter, SameReflexive, LoosedSteers, HeedsFollows
  <2> QED
    BY <1>3, <1>5, <2>1
<1>o. ASSUME NEW v \in W, NEW s \in S
      PROVE  /\ Tell(v, s) \in W /\ Steers(v, Tell(v, s)) /\ Marked(a, Tell(v, s), s, c)
             /\ Heeds(v, Tell(v, s)) /\ (Aware(w) => Acquainted(Tell(v, s), s, c))
  <2> HIDE DEF from
  <2>1. v \in Sound /\ s \in Creatures /\ v.status[s] # "none" /\ v.place = a.place
        /\ Heeds(a, v)
    BY DEF After, Spectators, Present, Steers
  <2>2. ASSUME NEW u \in After(v), Steers(v, u), Attended(u), u.status[c] = "placed", Heeds(v, u)
        PROVE  u \in W /\ u \in Sound /\ u.status[s] # "none" /\ u.place = a.place
    <3>1. u \in After(w) /\ Steers(a, u) /\ Heeds(a, u)
      BY <2>1, <2>2, AfterFollows, SteersFollows, HeedsFollows
    <3> QED
      BY <2>1, <2>2, <3>1 DEF After, Steers
  <2> HIDE DEF W
  <2>3. ASSUME NEW b \in Sound, Attended(b), b.status[c] = "placed", NEW u \in Like(b), Steers(b, u)
        PROVE  u \in After(b) /\ Attended(u) /\ u.status[c] = "placed"
    <3>1. u \in After(b) /\ u.status = b.status
      BY <2>3, LikeIsAfter DEF Like
    <3> QED
      BY <2>3, <3>1, SteersLed
  <2>4. Attended(v) /\ v.status[c] = "placed" /\ Steers(a, v)
    BY DEF W
  <2>5. CASE s = c
    <3> DEFINE b == FarRemoved(v, far, order)
               d == Noticed(b, s, c)
               e == LooksAround(d, s, order)
    <3>1. /\ s \in Monsters => Tell(v, s) = e
          /\ s \notin Monsters => Tell(v, s) = d
      BY <2>5
    <3> HIDE DEF Tell
    <3>2. Flat(v) /\ \A z \in far : v.summons[z] = {} /\ Seen(v, order, z)
      <4>1. Flat(v)
        BY <1>2, <1>5, <2>4, SteersLeads
      <4>2. \A z \in far : v.summons[z] = {}
        BY <1>6, <2>4 DEF Steers
      <4> QED
        BY <1>6, <2>4, <4>1, <4>2, SteersSeen
    <3>3. /\ b \in After(v) /\ b \in Sound /\ Steers(v, b) /\ Attended(b)
          /\ b.status[c] = "placed" /\ Heeds(v, b)
      <4>1. /\ b \in After(v) /\ b \in Sound /\ Steers(v, b) /\ Attended(b) /\ Heeds(v, b)
            /\ \A z \in Creatures : z \notin far => b.status[z] = v.status[z]
        BY <2>1, <2>4, <3>2, FarRemovedAfter
      <4> QED
        BY <1>f, <2>4, <4>1
    <3> HIDE DEF b
    <3>4. d \in Like(b) /\ d \in Sound /\ Loosed(b, d) /\ Marked(b, d, s, c)
      BY <2>1, <3>3, NoticedLike, NoticedIs DEF Marked
    <3>9. Heeds(v, d)
      <4>1. Heeds(b, d)
        BY <3>3, CalmReflexive, CalmNoticed, CalmHeeds
      <4> HIDE DEF d
      <4> QED
        BY <3>3, <4>1, HeedsFollows
    <3> HIDE DEF d
    <3>5. /\ d \in After(v) /\ Steers(v, d) /\ Attended(d) /\ d.status[c] = "placed"
          /\ d.place = a.place /\ b.place = a.place
      <4>1. Steers(b, d)
        BY <3>4, LoosedSteers
      <4>2. d \in After(b) /\ Attended(d) /\ d.status[c] = "placed"
        BY <2>3, <3>3, <3>4, <4>1
      <4>3. d \in After(v) /\ Steers(v, d)
        BY <2>1, <3>3, <4>1, <4>2, AfterFollows, SteersFollows
      <4> QED
        BY <2>1, <3>3, <4>1, <4>2, <4>3 DEF Steers
    <3>6. Marked(a, d, s, c)
      BY <3>4, <3>5 DEF Marked, CanSee
    <3>7. CASE s \in Monsters
      <4>1. e \in Like(d) /\ Steers(d, e) /\ Heeds(d, e) /\ Minds(e, s)
        <5>1. d.status[s] # "none"
          BY <2>5, <3>5
        <5>3. Steers(a, d)
          BY <2>4, <3>5, SteersFollows
        <5>4. Seen(d, order, s)
          BY <1>t, <2>5, <5>3, SteersSeen
        <5>2. e \in Like(d) /\ Same(d, e) /\ Heeds(d, e) /\ Minds(e, s)
          BY <3>4, <3>7, <5>1, <5>4, LooksAroundLike
        <5> QED
          BY <5>2, SameLoosed, LoosedSteers
      <4> HIDE DEF e
      <4>2. e \in After(d) /\ Attended(e) /\ e.status[c] = "placed"
        BY <2>3, <3>4, <3>5, <4>1
      <4>3. e \in After(v) /\ Steers(v, e)
        BY <2>1, <3>5, <4>1, <4>2, AfterFollows, SteersFollows
      <4>4. Marked(a, e, s, c)
        BY <2>1, <3>5, <3>6, <4>1, MarkStays
      <4>5. Heeds(v, e) /\ Acquainted(e, s, c)
        BY <2>5, <3>9, <4>1, HeedsFollows DEF Acquainted
      <4> QED
        BY <2>2, <3>1, <3>7, <4>2, <4>3, <4>4, <4>5
    <3>8. CASE s \notin Monsters
      <4>1. Acquainted(d, s, c)
        BY <3>8 DEF Acquainted
      <4> QED
        BY <2>2, <3>1, <3>5, <3>6, <3>8, <3>9, <4>1
    <3> QED
      BY <3>7, <3>8
  <2>6. CASE s # c
    <3> DEFINE d == Noticed(v, s, c)
               sees == Near(v.place[s], x)
               saw == Near(v.place[s], from)
               e == Watched(d, s, c, sees, saw)
    <3>1. /\ s \in Monsters => Tell(v, s) = e
          /\ s \notin Monsters => Tell(v, s) = d
      BY <2>6
    <3>2. sees \in BOOLEAN /\ saw \in BOOLEAN
      BY DEF Near
    <3>8. (sees <=> CanSee(a, s, c)) /\ (saw <=> Near(w.place[s], from))
      BY <1>3, <1>q, <2>1, <2>6 DEF CanSee
    <3> HIDE DEF Tell, sees, saw
    <3>3. d \in Like(v) /\ d \in Sound /\ Loosed(v, d) /\ Marked(v, d, s, c)
      BY <2>1, NoticedLike, NoticedIs DEF Marked
    <3>9. Heeds(v, d)
      BY <2>1, CalmReflexive, CalmNoticed, CalmHeeds
    <3> HIDE DEF d
    <3>4. /\ d \in After(v) /\ Steers(v, d) /\ Attended(d) /\ d.status[c] = "placed"
          /\ d.place = a.place /\ d.status[s] # "none"
      <4>1. Steers(v, d)
        BY <3>3, LoosedSteers
      <4>2. d \in After(v) /\ Attended(d) /\ d.status[c] = "placed"
        BY <2>1, <2>3, <2>4, <3>3, <4>1
      <4> QED
        BY <2>1, <4>1, <4>2 DEF Steers, After
    <3>5. Marked(a, d, s, c)
      BY <2>1, <3>3 DEF Marked, CanSee
    <3>6. CASE s \in Monsters
      <4>6. ~sees => ~CanSee(d, s, c)
        BY <3>4, <3>8 DEF CanSee
      <4>1. /\ e \in Like(d) /\ Steers(d, e) /\ Heeds(d, e)
            /\ sees /\ ~saw /\ Faces(e, s, c) => Knows(e, s, c)
        BY <3>2, <3>3, <3>4, <3>6, <4>6, WatchedLike
      <4> HIDE DEF e
      <4>2. e \in After(d) /\ Attended(e) /\ e.status[c] = "placed"
        BY <2>3, <3>3, <3>4, <4>1
      <4>3. e \in After(v) /\ Steers(v, e)
        BY <2>1, <3>4, <4>1, <4>2, AfterFollows, SteersFollows
      <4>4. Marked(a, e, s, c)
        BY <2>1, <3>4, <3>5, <4>1, MarkStays
      <4>7. Heeds(v, e)
        BY <3>9, <4>1, HeedsFollows
      <4>5. ASSUME Aware(w)
            PROVE  Acquainted(e, s, c)
        <5>1. CASE saw
          <6>1. Acquainted(a, s, c)
            BY <1>r, <2>1, <2>6, <3>8, <4>5, <5>1
          <6>2. Heeds(a, e)
            BY <2>1, <4>7, HeedsFollows
          <6> QED
            BY <6>1, <6>2, AcquaintedStays
        <5>2. CASE ~saw /\ sees
          BY <2>6, <4>1, <5>2 DEF Acquainted
        <5>3. CASE ~sees
          <6>1. ~CanSee(e, s, c)
            BY <3>4, <4>1, <4>6, <5>3 DEF Steers, CanSee
          <6> QED
            BY <2>6, <6>1 DEF Acquainted, Faces
        <5> QED
          BY <5>1, <5>2, <5>3
      <4> QED
        BY <2>2, <3>1, <3>6, <4>2, <4>3, <4>4, <4>5, <4>7
    <3>7. CASE s \notin Monsters
      <4>1. Acquainted(d, s, c)
        BY <3>7 DEF Acquainted
      <4> QED
        BY <2>2, <3>1, <3>4, <3>5, <3>7, <3>9, <4>1
    <3> QED
      BY <3>6, <3>7
  <2> QED
    BY <2>5, <2>6
<1> HIDE DEF W, S, n, Tell
<1> DEFINE F == [z \in W \X (1 .. n) |->
                IF order[z[2]] \in S THEN Tell(z[1], order[z[2]]) ELSE z[1]]
<1>t1. F \in [W \X (1 .. n) -> W]
  BY <1>o
<1>t2. PICK f \in [0 .. n -> W] : f[0] = a /\ \A k \in 1 .. n : f[k] = F[<<f[k - 1], k>>]
  <2> HIDE DEF F
  <2>1. Turns(W, a, n, F) # {}
    BY <1>w, <1>t1, TurnsExist
  <2> QED
    BY <2>1 DEF Turns
<1>t3. f = [k \in 0 .. n |-> IF k = 0 THEN a
                             ELSE IF order[k] \in S THEN Tell(f[k - 1], order[k]) ELSE f[k - 1]]
  <2>1. ASSUME NEW k \in 1 .. n
        PROVE  f[k] = IF order[k] \in S THEN Tell(f[k - 1], order[k]) ELSE f[k - 1]
    <3>1. k - 1 \in 0 .. n
      BY <1>w
    <3>2. <<f[k - 1], k>> \in W \X (1 .. n)
      BY <1>t2, <3>1
    <3> QED
      BY <1>t2, <3>2
  <2>2. \A k \in 0 .. n : k # 0 => k \in 1 .. n
    BY <1>w
  <2> HIDE DEF F
  <2>3. \A k \in 0 .. n : f[k] = IF k = 0 THEN a
                                 ELSE IF order[k] \in S THEN Tell(f[k - 1], order[k]) ELSE f[k - 1]
    BY <1>t2, <2>1, <2>2
  <2> QED
    BY <1>t2, <2>3
<1>t4. after = [k \in 0 .. n |-> IF k = 0 THEN a
                                 ELSE IF order[k] \in S THEN Tell(after[k - 1], order[k])
                                 ELSE after[k - 1]]
  BY <1>t3, Zenon
<1> HIDE DEF after
<1>t5. after[0] \in W /\ \A k \in 1 .. n : after[k - 1] \in W => after[k] \in W
  <2> HIDE DEF F
  <2>1. 0 \in 0 .. n /\ \A k \in 1 .. n : k \in 0 .. n /\ k # 0
    BY <1>w
  <2> QED
    BY <1>w, <1>o, <1>t4, <2>1
<1>t6. after[n] \in W
  BY <1>w, <1>t5, TurnsStay
<1> DEFINE v == after[n]
<1>7. /\ v \in After(w) /\ v \in Sound /\ Steers(a, v) /\ Attended(v)
      /\ v.status[c] = "placed" /\ Heeds(a, v)
  BY <1>t6 DEF W, After
<1>m. \A s \in S : (\E k \in 1 .. n : order[k] = s) => Marked(a, v, s, c)
  <2> DEFINE M == [s \in S |-> {u \in W : Marked(a, u, s, c)}]
  <2>1. \A k \in 1 .. n : after[k] = IF order[k] \in S THEN Tell(after[k - 1], order[k])
                                     ELSE after[k - 1]
    <3>1. \A k \in 1 .. n : k \in 0 .. n /\ k # 0
      BY <1>w
    <3> QED
      BY <1>t4, <3>1
  <2>2. ASSUME NEW k \in 1 .. n, after[k - 1] \in W, order[k] \in S
        PROVE  after[k] \in M[order[k]]
    BY <1>o, <2>1, <2>2
  <2>3. ASSUME NEW k \in 1 .. n, NEW s \in S, after[k - 1] \in W, after[k - 1] \in M[s]
        PROVE  after[k] \in M[s]
    <3>1. CASE order[k] \in S
      <4>1. after[k] \in W /\ Steers(after[k - 1], after[k])
        BY <1>o, <2>1, <2>3, <3>1
      <4>2. s \in Creatures /\ Marked(a, after[k - 1], s, c) /\ after[k - 1].place = a.place
        BY <2>3 DEF S, Spectators, W, Steers
      <4>3. Marked(a, after[k], s, c)
        BY <4>1, <4>2, MarkStays
      <4> QED
        BY <4>1, <4>3
    <3>2. CASE order[k] \notin S
      BY <2>1, <2>3, <3>2
    <3> QED
      BY <3>1, <3>2
  <2> HIDE DEF M
  <2>4. \A j \in 1 .. n : order[j] \in S => after[n] \in M[order[j]]
    BY <1>w, <1>t5, <2>2, <2>3, TurnsMark
  <2>5. ASSUME NEW s \in S, NEW k \in 1 .. n, order[k] = s
        PROVE  Marked(a, v, s, c)
    <3>1. after[n] \in M[s]
      BY <2>4, <2>5
    <3> QED
      BY <3>1 DEF M
  <2> QED
    BY <2>5
<1>n. ASSUME Aware(w), NEW s \in S, NEW j \in 1 .. n, order[j] = s
      PROVE  Acquainted(v, s, c)
  <2> DEFINE M == [z \in S |-> {u \in W : Acquainted(u, z, c)}]
  <2>1. ASSUME NEW k \in 1 .. n, after[k - 1] \in W
        PROVE  /\ order[k] \in S => after[k] \in M[order[k]]
               /\ \A z \in S : after[k - 1] \in M[z] => after[k] \in M[z]
    <3>1. k \in 0 .. n /\ k # 0
      BY <1>w
    <3>2. after[k] = IF order[k] \in S THEN Tell(after[k - 1], order[k]) ELSE after[k - 1]
      BY <1>t4, <3>1
    <3>3. ASSUME order[k] \in S
          PROVE  /\ after[k] \in W /\ Heeds(after[k - 1], after[k])
                 /\ Acquainted(after[k], order[k], c)
      BY <1>n, <1>o, <2>1, <3>2, <3>3
    <3>4. ASSUME NEW z \in S, after[k - 1] \in M[z]
          PROVE  after[k] \in M[z]
      BY <3>2, <3>3, <3>4, AcquaintedStays
    <3> QED
      BY <3>3, <3>4
  <2> HIDE DEF M
  <2>2. \A k \in 1 .. n : order[k] \in S => after[n] \in M[order[k]]
    BY <1>w, <1>t5, <2>1, TurnsMark
  <2>3. after[n] \in M[s]
    BY <1>n, <2>2
  <2> QED
    BY <2>3 DEF M
<1> HIDE DEF v
<1>8. \A d \in Creatures : w.status[d] = "placed" /\ CanSee(w, d, c) => Marked(a, v, d, c)
  BY <1>m DEF S, from, n, Spectators, Present, CanSee, SeenAll, Seen
<1>9. Aimed(v)
  <2> SUFFICES ASSUME NEW d \in Creatures, NEW t \in Creatures, v.status[d] = "placed",
                      Points(v, d, t)
               PROVE  v.status[t] = "placed" /\ CanSee(v, d, t)
    BY DEF Aimed
  <2>1. /\ \/ Points(a, d, t)
           \/ a.status[t] = "placed" /\ CanSee(a, d, t)
        /\ a.status[t] = "placed" /\ CanSee(a, d, t) => v.status[t] = "placed"
        /\ a.status[d] = "placed" /\ v.place = a.place
    BY <1>7 DEF Steers
  <2>2. a.status[t] = "placed" /\ CanSee(a, d, t)
    <3> SUFFICES ASSUME Points(w, d, t)
                 PROVE  a.status[t] = "placed" /\ CanSee(a, d, t)
      BY <1>4, <2>1
    <3>1. w.status[d] = "placed" /\ w.status[t] = "placed" /\ CanSee(w, d, t)
      BY <1>3, <2>1 DEF Led, Aimed
    <3>2. CASE c \in {d, t}
      <4>1. Marked(a, v, d, c)
        BY <1>8, <3>1, <3>2, SelfSeen
      <4> QED
        BY <1>3, <3>1, <3>2, <4>1 DEF Marked
    <3>3. CASE c \notin {d, t}
      BY <1>3, <3>1, <3>3 DEF CanSee
    <3> QED
      BY <3>2, <3>3
  <2> QED
    BY <2>1, <2>2 DEF CanSee
<1>10. Led(v)
  BY <1>2, <1>5, <1>7, <1>9, SteersLeads DEF Led
<1>11. ASSUME Aware(w)
       PROVE  Aware(v)
  <2>1. AwareBut(v, c) /\ v \in Worlds
    BY <1>7, <1>11, <1>s, AcquaintedStays DEF Sound
  <2>2. ASSUME NEW s \in Creatures, v.status[s] = "placed", CanSee(v, s, c)
        PROVE  Acquainted(v, s, c)
    <3>1. w.status[s] = "placed" /\ CanSee(a, s, c)
      BY <1>3, <1>7, <2>2 DEF Steers, CanSee
    <3>2. s \in S
      <4>1. CASE s = c
        BY <3>1, <4>1, SelfSeen DEF S, from, Spectators, Present, CanSee
      <4>2. CASE s # c
        BY <1>3, <1>q, <3>1, <4>2 DEF S, Spectators, Present, CanSee
      <4> QED
        BY <4>1, <4>2
    <3>3. PICK j \in 1 .. n : order[j] = s
      BY <1>3, <1>t, <3>1 DEF Seen, n
    <3> QED
      BY <1>n, <1>11, <3>2, <3>3
  <2> QED
    BY <2>1, <2>2, AllAcquainted
<1> QED
  BY <1>1, <1>7, <1>10, <1>11 DEF v

----------------------------------------------------------------------------
(* Monsters are convinced, sent home, and think.                           *)

\* Everybody on the map is in the order.
AllAsked(w, order) ==
    \A d \in Creatures : w.status[d] = "placed" => \E k \in 1 .. Len(order) : order[k] = d

\* Every monster that faces c knows of it.
Noted(w, c) == \A m \in Monsters : Faces(w, m, c) => Knows(w, m, c)

LEMMA AllConvincedLike ==
    ASSUME NEW w \in Sound, NEW p, NEW m \in Creatures, NEW order \in Seq(Creatures),
           AllAsked(w, order)
    PROVE  /\ AllConvinced(w, p, m, order) \in Like(w) /\ Same(w, AllConvinced(w, p, m, order))
           /\ Heeds(w, AllConvinced(w, p, m, order))
           /\ w.status[m] = "placed" => Noted(AllConvinced(w, p, m, order), m)
<1> DEFINE Look(q, s) == IF s \in Monsters /\ (IsFriend(q, s, m) \/ IsOpponent(q, s, m))
                         THEN LooksAgain(q, s, order) ELSE q
           S == Spectators(w, w.place[m]) \cup Spectators(w, w.place[p])
           W == {v \in Like(w) : Same(w, v) /\ Heeds(w, v)}
           n == Len(order)
           after[k \in 0 .. n] ==
                IF k = 0 THEN w
                ELSE IF order[k] \in S THEN Look(after[k - 1], order[k])
                ELSE after[k - 1]
<1>1. AllConvinced(w, p, m, order) = after[n]
  BY DEF AllConvinced, Told
<1>w. n \in Nat /\ w \in W /\ \A k \in 1 .. n : order[k] \in Creatures
  BY Reflexive, SameReflexive, HeedsFollows
<1>o. ASSUME NEW v \in W, NEW s \in S
      PROVE  /\ Look(v, s) \in W /\ Heeds(v, Look(v, s))
             /\ s \in Monsters /\ Faces(Look(v, s), s, m) => Knows(Look(v, s), s, m)
  <2>1. /\ v \in Sound /\ v.status[s] # "none" /\ s \in Creatures
        /\ Heeds(w, v) /\ Seen(v, order, s)
    BY LikeIsAfter DEF Like, Spectators, Present, Seen, AllAsked
  <2>2. CASE s \in Monsters
    <3>1. /\ LooksAgain(v, s, order) \in Like(v) /\ Same(v, LooksAgain(v, s, order))
          /\ Heeds(v, LooksAgain(v, s, order)) /\ Minds(LooksAgain(v, s, order), s)
      BY <2>1, <2>2, LooksAgainLike
    <3>2. Heeds(w, LooksAgain(v, s, order)) /\ Heeds(v, v)
      BY <2>1, <3>1, HeedsFollows
    <3>3. LooksAgain(v, s, order) \in W
      BY <3>1, <3>2, LikeFollows, SameFollows
    <3>4. ~IsOpponent(v, s, m) => ~Faces(v, s, m)
      BY CreaturesConstants DEF IsOpponent, Faces
    <3>5. Faces(LooksAgain(v, s, order), s, m) => Knows(LooksAgain(v, s, order), s, m)
      BY <3>1 DEF Minds
    <3> QED
      BY <2>2, <3>1, <3>2, <3>3, <3>4, <3>5
  <2>3. CASE s \notin Monsters
    BY <2>3, HeedsFollows
  <2> QED
    BY <2>2, <2>3
<1> HIDE DEF W, S, n, Look
<1> DEFINE F == [z \in W \X (1 .. n) |->
                IF order[z[2]] \in S THEN Look(z[1], order[z[2]]) ELSE z[1]]
<1>t1. F \in [W \X (1 .. n) -> W]
  BY <1>o
<1>t2. PICK f \in [0 .. n -> W] : f[0] = w /\ \A k \in 1 .. n : f[k] = F[<<f[k - 1], k>>]
  <2> HIDE DEF F
  <2>1. Turns(W, w, n, F) # {}
    BY <1>w, <1>t1, TurnsExist
  <2> QED
    BY <2>1 DEF Turns
<1>t3. f = [k \in 0 .. n |-> IF k = 0 THEN w
                             ELSE IF order[k] \in S THEN Look(f[k - 1], order[k]) ELSE f[k - 1]]
  <2>1. ASSUME NEW k \in 1 .. n
        PROVE  f[k] = IF order[k] \in S THEN Look(f[k - 1], order[k]) ELSE f[k - 1]
    <3>1. k - 1 \in 0 .. n
      BY <1>w
    <3>2. <<f[k - 1], k>> \in W \X (1 .. n)
      BY <1>t2, <3>1
    <3> QED
      BY <1>t2, <3>2
  <2>2. \A k \in 0 .. n : k # 0 => k \in 1 .. n
    BY <1>w
  <2> HIDE DEF F
  <2>3. \A k \in 0 .. n : f[k] = IF k = 0 THEN w
                                 ELSE IF order[k] \in S THEN Look(f[k - 1], order[k]) ELSE f[k - 1]
    BY <1>t2, <2>1, <2>2
  <2> QED
    BY <1>t2, <2>3
<1>t4. after = [k \in 0 .. n |-> IF k = 0 THEN w
                                 ELSE IF order[k] \in S THEN Look(after[k - 1], order[k])
                                 ELSE after[k - 1]]
  BY <1>t3, Zenon
<1> HIDE DEF after
<1>t5. after[0] \in W /\ \A k \in 1 .. n : after[k - 1] \in W => after[k] \in W
  <2> HIDE DEF F
  <2>1. 0 \in 0 .. n /\ \A k \in 1 .. n : k \in 0 .. n /\ k # 0
    BY <1>w
  <2> QED
    BY <1>w, <1>o, <1>t4, <2>1
<1>t6. after[n] \in W
  BY <1>w, <1>t5, TurnsStay
<1> DEFINE M == [s \in S |-> {v \in W : s \in Monsters /\ Faces(v, s, m) => Knows(v, s, m)}]
<1>t7. ASSUME NEW k \in 1 .. n, after[k - 1] \in W
       PROVE  /\ order[k] \in S => after[k] \in M[order[k]]
              /\ \A s \in S : after[k - 1] \in M[s] => after[k] \in M[s]
  <2>1. k \in 0 .. n /\ k # 0
    BY <1>w
  <2>2. after[k] = IF order[k] \in S THEN Look(after[k - 1], order[k]) ELSE after[k - 1]
    BY <1>t4, <2>1
  <2>3. ASSUME order[k] \in S
        PROVE  /\ after[k] \in W /\ Heeds(after[k - 1], after[k])
               /\ order[k] \in Monsters /\ Faces(after[k], order[k], m)
                    => Knows(after[k], order[k], m)
    BY <1>t7, <1>o, <2>2, <2>3
  <2>4. ASSUME NEW s \in S, after[k - 1] \in M[s]
        PROVE  after[k] \in M[s]
    BY <2>2, <2>3, <2>4 DEF Heeds, Heed
  <2> QED
    BY <2>3, <2>4
<1> HIDE DEF M
<1>t8. \A j \in 1 .. n : order[j] \in S => after[n] \in M[order[j]]
  BY <1>w, <1>t5, <1>t7, TurnsMark
<1>t9. ASSUME w.status[m] = "placed"
       PROVE  Noted(after[n], m)
  <2> SUFFICES ASSUME NEW s \in Monsters, Faces(after[n], s, m)
               PROVE  Knows(after[n], s, m)
    BY DEF Noted
  <2>1. w.status[s] = "placed" /\ CanSee(w, s, m) /\ s \in Creatures
    BY <1>t6, MonstersAre DEF W, Same, Faces, CanSee
  <2>2. s \in S
    BY <2>1 DEF S, Spectators, Present, CanSee
  <2>3. PICK j \in 1 .. n : order[j] = s
    BY <2>1 DEF AllAsked, n
  <2>4. after[n] \in M[s]
    BY <1>t8, <2>2, <2>3
  <2> QED
    BY <2>2, <2>4 DEF M
<1> QED
  BY <1>1, <1>t6, <1>t9 DEF W

LEMMA ConvincedLike ==
    ASSUME NEW w \in Sound, NEW p, NEW m \in Monsters, w.status[m] # "none",
           NEW order \in Seq(Creatures), AllAsked(w, order)
    PROVE  /\ Convinced(w, p, m, order) \in Like(w) /\ Loosed(w, Convinced(w, p, m, order))
           /\ Convinced(w, p, m, order).summons[m] = {}
           /\ Heeds(w, Convinced(w, p, m, order))
           /\ w.status[m] = "placed" => Noted(Convinced(w, p, m, order), m)
<1> DEFINE a == SetFollowCreature(w, m, Nobody)
           b == SetAttackedCreature(a, m, Nobody)
           d == SummonsKilled(b, m)
           e == [d EXCEPT !.inRange[m] = TRUE]
           f == LooksAgain(e, m, order)
<1>1. Convinced(w, p, m, order) = AllConvinced(f, p, m, order)
  BY DEF Convinced
<1>2. m \in Creatures /\ Nobody \in Someone
  BY MonstersAre, NobodyIs
<1>3. a \in Like(w) /\ a \in Sound /\ Loosed(w, a) /\ Heeds(w, a)
  <2>1. Heeds(w, a)
    BY SameReflexive, CalmFollow, CalmHeeds
  <2> QED
    BY <1>2, <2>1, SetFollowLike, LikeIsAfter, GiveUpLoosed
<1> HIDE DEF a
<1>4. b \in Like(a) /\ Loosed(a, b) /\ Heeds(a, b)
  <2>1. Heeds(a, b)
    BY <1>3, SameReflexive, CalmAttacked, CalmHeeds
  <2> QED
    BY <1>2, <1>3, <2>1, SetAttackedLike, GiveUpLoosed
<1> HIDE DEF b
<1>5. b \in Like(w) /\ b \in Sound
  BY <1>3, <1>4, LikeFollows
<1>6. d \in Like(b) /\ Loosed(b, d) /\ d.summons[m] = {} /\ Heeds(b, d)
  BY <1>2, <1>5, SummonsKilledLike
<1> HIDE DEF d
<1>7. d \in Like(w) /\ d \in Sound
  BY <1>5, <1>6, LikeFollows
<1>8. d.status[m] # "none"
  BY <1>7 DEF Like
<1>9. e \in Like(d) /\ Same(d, e) /\ Heeds(d, e)
  <2>1. Heeds(d, e)
    BY <1>7, SameReflexive, CalmRange, CalmHeeds
  <2> QED
    BY <1>7, <1>8, <2>1, SeenLike, SeenSame, SameReflexive
<1> HIDE DEF e
<1>10. e \in Like(w) /\ e \in Sound
  BY <1>7, <1>9, LikeFollows
<1>11. e.status[m] # "none"
  BY <1>10 DEF Like
<1>a. ASSUME NEW v \in Like(w)
      PROVE  AllAsked(v, order)
  BY DEF AllAsked, Like
<1>12. f \in Like(e) /\ Same(e, f) /\ Heeds(e, f)
  <2>1. Seen(e, order, m)
    BY <1>10, <1>a DEF AllAsked, Seen
  <2> QED
    BY <1>10, <1>11, <2>1, LooksAgainLike
<1> HIDE DEF f
<1>13. f \in Like(w) /\ f \in Sound
  BY <1>10, <1>12, LikeFollows
<1> DEFINE g == AllConvinced(f, p, m, order)
<1>14. /\ g \in Like(f) /\ Same(f, g) /\ Heeds(f, g)
       /\ f.status[m] = "placed" => Noted(g, m)
  BY <1>2, <1>13, <1>a, AllConvincedLike
<1> HIDE DEF g
<1>15. g \in Like(w)
  BY <1>13, <1>14, LikeFollows
<1>16. Same(d, g)
  BY <1>9, <1>12, <1>14, SameFollows
<1>17. Loosed(w, d) /\ Loosed(d, g)
  BY <1>3, <1>4, <1>6, <1>16, LoosedFollows, SameLoosed
<1>18. Loosed(w, g) /\ g.summons[m] = {}
  BY <1>6, <1>16, <1>17, LoosedFollows DEF Same
<1>19. Heeds(w, g)
  <2>1. Heeds(w, b)
    BY <1>3, <1>4, HeedsFollows
  <2>2. Heeds(b, e)
    BY <1>6, <1>9, HeedsFollows
  <2>3. Heeds(e, g)
    BY <1>12, <1>14, HeedsFollows
  <2>4. Heeds(w, e)
    BY <2>1, <2>2, HeedsFollows
  <2> QED
    BY <2>3, <2>4, HeedsFollows
<1>20. w.status[m] = "placed" => Noted(g, m)
  BY <1>13, <1>14 DEF Like
<1> QED
  BY <1>1, <1>15, <1>18, <1>19, <1>20 DEF g

\* A convinced monster changes its master.
LEMMA GivenUpLike ==
    ASSUME NEW w \in Sound, NEW p \in Creatures, NEW m \in Monsters, w.status[m] # "none"
    PROVE  AddSummon(IF IsSummon(w, m) THEN RemoveSummon(w, w.master[m], m) ELSE w, p, m)
               \in Like(w)
<1> DEFINE a == IF IsSummon(w, m) THEN RemoveSummon(w, w.master[m], m) ELSE w
<1>1. m \in Creatures
  BY MonstersAre
<1>2. a \in Like(w) /\ a \in Sound /\ a.master[m] = Nobody
  <2>1. CASE ~IsSummon(w, m)
    BY <2>1, Reflexive DEF IsSummon
  <2>2. CASE IsSummon(w, m)
    <3>1. w.master[m] \in Creatures /\ w \in Worlds
      BY <1>1, <2>2, Typed DEF IsSummon, Someone, Sound
    <3>2. m \in w.summons[w.master[m]]
      BY <1>1, <3>1 DEF Sound, Agree
    <3> DEFINE b == [w EXCEPT !.master[m] = Nobody, !.summons[w.master[m]] = @ \ {m}]
               d == ReleasedAll(b, {m})
    <3>3. a = d
      BY <2>2, <3>2 DEF RemoveSummon
    <3>4. b.master[m] = Nobody
      BY <1>1, <3>1 DEF Worlds
    <3>5. d.master = b.master
      <4> HIDE DEF b
      <4>1. d = [b EXCEPT !.uses = d.uses]
        BY DEF ReleasedAll
      <4> QED
        BY DEF ReleasedAll
    <3>6. a \in Like(w)
      BY <2>2, <3>1, RemoveSummonLike
    <3>7. a \in Sound
      BY <3>6, LikeIsAfter
    <3> HIDE DEF a, b, d
    <3> QED
      BY <3>3, <3>4, <3>5, <3>6, <3>7
  <2> QED
    BY <2>1, <2>2
<1> HIDE DEF a
<1>3. a.status[m] # "none"
  BY <1>2 DEF Like
<1>4. AddSummon(a, p, m) \in Like(a)
  BY <1>2, <1>3, AddSummonLike
<1>5. AddSummon(a, p, m) \in Like(w)
  BY <1>2, <1>4, LikeFollows
<1> QED
  BY <1>5 DEF a

LEMMA AddSummonPoints ==
    ASSUME NEW w \in Sound, NEW c \in Creatures, NEW s \in Creatures
    PROVE  LET v == AddSummon(w, c, s)
           IN  /\ DOMAIN v = Fields /\ v.status = w.status /\ v.place = w.place
               /\ v.attacked = w.attacked /\ v.followed = w.followed
               /\ v.summons[c] = w.summons[c] \cup {s}
               /\ \A d \in Creatures : d # c => v.summons[d] = w.summons[d]
<1> DEFINE b == [w EXCEPT !.master[s] = c, !.summons[c] = @ \cup {s}]
           v == AddSummon(w, c, s)
<1>1. w.summons \in [Creatures -> SUBSET Monsters] /\ DOMAIN w = Fields
  BY Typed, SameReflexive DEF Sound
<1>2. /\ DOMAIN b = Fields /\ b.status = w.status /\ b.place = w.place
      /\ b.attacked = w.attacked /\ b.followed = w.followed
      /\ b.summons[c] = w.summons[c] \cup {s}
      /\ \A d \in Creatures : d # c => b.summons[d] = w.summons[d]
  BY <1>1 DEF Fields
<1>3. v = [b EXCEPT !.uses = v.uses]
  BY DEF AddSummon, Used
<1> HIDE DEF b, v
<1>4. /\ DOMAIN v = Fields /\ v.status = b.status /\ v.place = b.place
      /\ v.attacked = b.attacked /\ v.followed = b.followed /\ v.summons = b.summons
  BY <1>2, <1>3 DEF Fields
<1> QED
  BY <1>2, <1>4 DEF v

\* A convinced monster that has given up its own summons is led by its new master.
LEMMA ConvincedLed ==
    ASSUME NEW w \in Sound, Led(w), NEW p \in Adventurers, NEW m \in Monsters,
           w.status[p] = "placed", w.status[m] = "placed",
           NEW v,
           v = AddSummon(IF IsSummon(w, m) THEN RemoveSummon(w, w.master[m], m) ELSE w, p, m),
           NEW u, Loosed(v, u), u.summons[m] = {}
    PROVE  Led(u)
<1> DEFINE a == IF IsSummon(w, m) THEN RemoveSummon(w, w.master[m], m) ELSE w
<1>1. m \in Creatures /\ p \in Creatures /\ p \notin Monsters
  BY MonstersAre, CreaturesConstants
<1>2. a \in Sound /\ Loosed(w, a)
  <2>1. CASE ~IsSummon(w, m)
    BY <2>1, SameReflexive
  <2>2. CASE IsSummon(w, m)
    <3>1. w.master[m] \in Creatures
      BY <1>1, <2>2, Typed DEF IsSummon, Someone, Sound
    <3>2. RemoveSummon(w, w.master[m], m) \in Like(w)
      BY <3>1, RemoveSummonLike
    <3> QED
      BY <2>2, <3>1, <3>2, LikeIsAfter, RemoveSummonLoosed
  <2> QED
    BY <2>1, <2>2
<1>3. v = AddSummon(a, p, m)
  OBVIOUS
<1> HIDE DEF a
<1>4. Led(a) /\ a.status = w.status
  BY <1>2, LoosedLed DEF Loosed
<1>5. /\ v.status = a.status /\ v.place = a.place
      /\ v.attacked = a.attacked /\ v.followed = a.followed
      /\ v.summons[p] = a.summons[p] \cup {m}
      /\ \A d \in Creatures : d # p => v.summons[d] = a.summons[d]
  BY <1>1, <1>2, <1>3, AddSummonPoints
<1>6. /\ u.status = a.status /\ u.place = a.place
      /\ \A d \in Creatures :
            /\ u.summons[d] \subseteq v.summons[d]
            /\ \A t \in Creatures : Points(u, d, t) => Points(a, d, t)
  BY <1>5 DEF Loosed, Points
<1>7. \A c \in Creatures : a.summons[c] \subseteq Monsters
  BY <1>2, Typed DEF Sound
<1>8. Flat(u)
  <2> SUFFICES ASSUME NEW c \in Creatures, NEW s \in u.summons[c], s # m
               PROVE  u.summons[s] = {}
    BY DEF Flat
  <2>1. s \in a.summons[c]
    BY <1>5, <1>6
  <2>2. s \in Creatures /\ s # p /\ a.summons[s] = {}
    BY <1>1, <1>4, <1>7, <2>1, MonstersAre DEF Led, Flat
  <2> QED
    BY <1>5, <1>6, <2>2
<1>9. Attended(u)
  <2> SUFFICES ASSUME NEW c \in Creatures, NEW s \in u.summons[c], u.status[s] = "placed", c # p
               PROVE  u.status[c] = "placed"
    BY <1>4, <1>6 DEF Attended
  <2>1. s \in a.summons[c]
    BY <1>5, <1>6
  <2> QED
    BY <1>4, <1>6, <2>1 DEF Led, Attended
<1>10. Blank(u)
  <2> SUFFICES ASSUME NEW c \in Creatures, u.status[c] = "none"
               PROVE  u.summons[c] = {} /\ \A t \in Creatures : ~Points(u, c, t)
    BY DEF Blank
  <2>1. c # p /\ a.summons[c] = {} /\ \A t \in Creatures : ~Points(a, c, t)
    BY <1>4, <1>6 DEF Led, Blank
  <2> QED
    BY <1>5, <1>6, <2>1
<1>11. Aimed(u)
  BY <1>4, <1>6 DEF Led, Aimed, CanSee
<1> QED
  BY <1>8, <1>9, <1>10, <1>11 DEF Led

\* All know of a convinced monster, which has a master now and faces nobody.
LEMMA ConvincedKnown ==
    ASSUME NEW w \in Sound, Aware(w), NEW p \in Creatures, NEW m \in Monsters, NEW v,
           v = AddSummon(IF IsSummon(w, m) THEN RemoveSummon(w, w.master[m], m) ELSE w, p, m),
           NEW u, Heeds(v, u), Noted(u, m)
    PROVE  Aware(u)
<1> DEFINE a == IF IsSummon(w, m) THEN RemoveSummon(w, w.master[m], m) ELSE w
<1>1. m \in Creatures
  BY MonstersAre
<1>2. a \in Worlds /\ HeedsBut(w, a, m)
  <2>1. CASE ~IsSummon(w, m)
    BY <2>1, HeedsFollows DEF Sound
  <2>2. CASE IsSummon(w, m)
    <3>1. w.master[m] \in Creatures
      BY <1>1, <2>2, Typed DEF IsSummon, Someone, Sound
    <3>2. RemoveSummon(w, w.master[m], m) \in Like(w)
      BY <3>1, RemoveSummonLike
    <3>3. RemoveSummon(w, w.master[m], m) \in Worlds
      BY <3>2 DEF Like, Sound
    <3> QED
      BY <1>1, <2>2, <3>1, <3>3, RemoveSummonHeeds
  <2> QED
    BY <2>1, <2>2
<1>3. v = AddSummon(a, p, m)
  OBVIOUS
<1> HIDE DEF a
<1>4. HeedsBut(a, v, m) /\ \A d \in Creatures : ~Faces(v, m, d)
  BY <1>2, <1>3, AddSummonHeeds
<1>5. HeedsBut(w, v, m)
  BY <1>2, <1>4, HeedsFollows
<1>6. AwareBut(v, m)
  BY <1>5 DEF HeedsBut, Heed, Aware, Minds, AwareBut
<1>7. AwareBut(u, m) /\ \A d \in Creatures : ~Faces(u, m, d)
  BY <1>1, <1>4, <1>6, AcquaintedStays DEF Heeds, Heed
<1> QED
  BY <1>7 DEF AwareBut, Noted, Aware, Minds

LEMMA SentHomeAfter ==
    ASSUME NEW w \in Sound, NEW m \in Monsters, w.status[m] = "placed", NEW x \in Places,
           NEW order \in Seq(Creatures), SeenAll(w, order, m), SeenAt(w, order, x), Led(w)
    PROVE  /\ SentHome(w, m, x, order) \in After(w) /\ SentHome(w, m, x, order) \in Sound
           /\ Led(SentHome(w, m, x, order)) /\ (Aware(w) => Aware(SentHome(w, m, x, order)))
<1> DEFINE a == Moved(w, m, x, {}, order)
           b == SetIdle(a, m, TRUE)
           X == {c \in Creatures : c # m /\ Present(b, c) /\ CanSee(b, m, c) /\ IsOpponent(b, m, c)}
           d == [b EXCEPT !.overlooked[m] = X]
<1>1. SentHome(w, m, x, order) = d
  BY DEF SentHome
<1>2. m \in Creatures /\ {} \in SUBSET Creatures
  BY MonstersAre
<1>3. a \in After(w) /\ a \in Sound /\ Led(a) /\ (Aware(w) => Aware(a))
  BY <1>2, MovedAfter
<1>4. a.status[m] # "none"
  BY <1>2, <1>3 DEF After
<1> HIDE DEF a
<1>5. b \in Like(a) /\ b \in Sound /\ Same(a, b) /\ HeedsOthers(a, b, m)
  <2>1. HeedsOthers(a, b, m)
    BY <1>3, SetIdleHeeds DEF Sound
  <2> QED
    BY <1>3, <1>4, <2>1, SetIdleLike, LikeIsAfter, SetIdleSame, SameReflexive
<1>6. X \in SUBSET Creatures
  OBVIOUS
<1>H. HeedsOthers(b, d, m) /\ Minds(d, m)
  <2> HIDE DEF b
  <2>1. DOMAIN b = Fields /\ b \in Worlds /\ b.overlooked \in [Creatures -> SUBSET Creatures]
    BY <1>5, Typed DEF Same, Sound
  <2>2. /\ d.status = b.status /\ d.place = b.place /\ d.alive = b.alive
        /\ d.master = b.master /\ d.targets = b.targets /\ d.check = b.check
        /\ \A k \in Creatures : k # m => d.overlooked[k] = b.overlooked[k]
        /\ d.overlooked[m] = X
    BY <1>2, <2>1 DEF Fields
  <2>3. ~Faces(b, m, m)
    BY <1>2, <2>1, SeesBack
  <2>4. ASSUME NEW c \in Creatures, Faces(b, m, c)
        PROVE  c \in X
    BY <2>3, <2>4, CreaturesConstants DEF Faces, Present, IsOpponent
  <2> HIDE DEF d, X
  <2>5. \A k, c : Faces(d, k, c) <=> Faces(b, k, c)
    BY <2>2 DEF Faces, CanSee
  <2>6. HeedsOthers(b, d, m)
    BY <2>2, <2>5, MonstersAre DEF HeedsOthers, Knows
  <2>7. Minds(d, m)
    BY <2>2, <2>4, <2>5 DEF Minds, Knows
  <2> QED
    BY <2>6, <2>7
<1> HIDE DEF b, X
<1>7. d \in Like(b)
  BY <1>2, <1>5, <1>6, OverlooksLike
<1>L. Led(d)
  <2>1. DOMAIN b = Fields
    BY <1>5 DEF Same
  <2>2. Same(b, d)
    BY <2>1 DEF Same, Fields
  <2>3. Loosed(a, d)
    BY <1>5, <2>2, SameFollows, SameLoosed
  <2> QED
    BY <1>3, <2>3, LoosedLed
<1>8. d \in Like(a)
  BY <1>5, <1>7, LikeFollows
<1>9. d \in After(a)
  BY <1>3, <1>8, LikeIsAfter
<1> HIDE DEF d
<1>A. Aware(w) => Aware(d)
  <2>1. Heeds(a, d)
    BY <1>5, <1>H, HeedsFollows, OthersAndOwn
  <2> QED
    BY <1>3, <2>1, MindsStays
<1>10. d \in After(w) /\ d \in Sound
  BY <1>3, <1>9, AfterFollows
<1> QED
  BY <1>1, <1>10, <1>L, <1>A

LEMMA ThoughtLike ==
    ASSUME NEW w \in Sound, NEW m \in Monsters, w.status[m] = "placed", NEW t \in Someone, Led(w)
    PROVE  /\ Thought(UpdateIdleStatus(w, m), m, t) \in Like(w)
           /\ Led(Thought(UpdateIdleStatus(w, m), m, t))
           /\ Heeds(w, Thought(UpdateIdleStatus(w, m), m, t))
<1> DEFINE a == UpdateIdleStatus(w, m)
<1>1. a \in Like(w) /\ a \in Sound /\ Led(a) /\ Heeds(w, a)
  <2>1. Same(w, a)
    BY UpdateIdleSame, SameReflexive
  <2> QED
    BY <2>1, UpdateIdleLike, LikeIsAfter, SameLoosed, LoosedLed, UpdateIdleHeeds DEF Sound
<1> HIDE DEF a
<1>2. m \in Creatures /\ Nobody \in Someone
  BY MonstersAre, NobodyIs
<1>3. a.master[m] \in Someone /\ \A c \in Creatures : a.attacked[c] \in Someone
  BY <1>1, <1>2, Typed DEF Sound
<1>p. a.status[m] = "placed"
  BY <1>1 DEF Like
<1>l. ASSUME NEW v, Steers(a, v), v.status = a.status
      PROVE  Led(v)
  BY <1>1, <1>l, SteersLed
<1>4. ASSUME IsSummon(a, m)
      PROVE  Obeyed(a, m) \in Like(a) /\ Led(Obeyed(a, m))
  <2>1. a.master[m] \in Creatures
    BY <1>3, <1>4 DEF IsSummon, Someone
  <2>2. a.attacked[a.master[m]] \in Someone /\ a.attacked[m] \in Someone
    BY <1>2, <1>3, <2>1
  <2>3. /\ SelectTarget(a, m, a.attacked[a.master[m]]) \in Like(a)
        /\ SetFollowCreature(a, m, a.master[m]) \in Like(a)
        /\ SetFollowCreature(a, m, Nobody) \in Like(a)
        /\ SetFollowCreature(a, m, a.attacked[m]) \in Like(a)
    BY <1>1, <1>2, <1>3, <2>2, SelectLike, SetFollowLike
  <2>4. a.status[a.master[m]] = "placed"
    BY <1>1, <1>2, <1>p, <2>1 DEF Led, Attended, Sound, Agree
  <2>5. a.attacked[m] # Nobody => a.status[a.attacked[m]] = "placed"
    BY <1>1, <1>2, <1>p, <2>2 DEF Led, Aimed, Points, Someone
  <2>6. /\ Led(SetFollowCreature(a, m, a.master[m]))
        /\ Led(SetFollowCreature(a, m, Nobody))
        /\ Led(SetFollowCreature(a, m, a.attacked[m]))
    BY <1>1, <1>2, <1>3, <1>p, <1>l, <2>2, <2>4, <2>5, SetFollowSteers
  <2>7. Led(SelectTarget(a, m, a.attacked[a.master[m]]))
    BY <1>1, <1>2, <1>p, <1>l, <2>2, SelectSteers
  <2> QED
    BY <2>3, <2>6, <2>7 DEF Obeyed
<1>5. SelectTarget(a, m, t) \in Like(a) /\ Led(SelectTarget(a, m, t))
  BY <1>1, <1>2, <1>p, <1>l, SelectLike, SelectSteers
<1>6. Thought(a, m, t) \in Like(a) /\ Led(Thought(a, m, t))
  BY <1>1, <1>4, <1>5, Reflexive DEF Thought
<1>7. Thought(a, m, t) \in Like(w)
  BY <1>1, <1>6, LikeFollows
<1>8. Calm(a, Thought(a, m, t))
  <2>1. Calm(a, a) /\ DOMAIN a = Fields
    BY <1>1, CalmReflexive, SameReflexive
  <2>2. \A s : Calm(a, SelectTarget(a, m, s)) /\ Calm(a, SetFollowCreature(a, m, s))
    BY <2>1, CalmSelect, CalmFollow
  <2> QED
    BY <2>1, <2>2 DEF Thought, Obeyed
<1>9. Heeds(w, Thought(a, m, t))
  BY <1>1, <1>8, CalmHeeds, HeedsFollows
<1> QED
  BY <1>6, <1>7, <1>9 DEF a

----------------------------------------------------------------------------
(* Objects that nobody uses are deleted.                                   *)

LEMMA OrphanedIs ==
    ASSUME NEW w \in Worlds, NEW c \in Creatures, NEW S
    PROVE  /\ Orphaned(w, c, S) \in Worlds
           /\ Orphaned(w, c, S).status = w.status /\ Orphaned(w, c, S).alive = w.alive
           /\ Orphaned(w, c, S).uses = w.uses /\ Orphaned(w, c, S).releases = w.releases
           /\ Orphaned(w, c, S).check = w.check /\ Orphaned(w, c, S).listed = w.listed
           /\ Orphaned(w, c, S).summons = With(w.summons, c, {})
           /\ Orphaned(w, c, S).targets = w.targets /\ Orphaned(w, c, S).friends = w.friends
           /\ Orphaned(w, c, S).master = [d \in Creatures |-> IF d \in S \cup {c} THEN Nobody
                                                              ELSE w.master[d]]
<1> DEFINE su == With(w.summons, c, {})
           at == [d \in Creatures |-> IF d \in S \cup {c} THEN Nobody ELSE w.attacked[d]]
           ms == [d \in Creatures |-> IF d \in S \cup {c} THEN Nobody ELSE w.master[d]]
<1>1. /\ su \in [Creatures -> SUBSET Monsters]
      /\ at \in [Creatures -> Someone] /\ ms \in [Creatures -> Someone]
  BY Typed, NobodyIs DEF With
<1>2. Orphaned(w, c, S) = [w EXCEPT !.summons = su, !.attacked = at, !.master = ms]
  BY DEF Orphaned, Worlds, With
<1> HIDE DEF su, at, ms
<1>3. Orphaned(w, c, S) \in Worlds
  BY <1>1, <1>2 DEF Worlds
<1>4. /\ Orphaned(w, c, S).status = w.status /\ Orphaned(w, c, S).alive = w.alive
      /\ Orphaned(w, c, S).uses = w.uses /\ Orphaned(w, c, S).releases = w.releases
      /\ Orphaned(w, c, S).check = w.check /\ Orphaned(w, c, S).listed = w.listed
      /\ Orphaned(w, c, S).targets = w.targets /\ Orphaned(w, c, S).friends = w.friends
      /\ Orphaned(w, c, S).summons = su /\ Orphaned(w, c, S).master = ms
  BY <1>2 DEF Worlds
<1> QED
  BY <1>3, <1>4 DEF su, ms

LEMMA ForgetfulIs ==
    ASSUME NEW w \in Worlds, NEW c \in Creatures
    PROVE  /\ Forgetful(w, c) \in Worlds
           /\ Forgetful(w, c).status = w.status /\ Forgetful(w, c).alive = w.alive
           /\ Forgetful(w, c).uses = w.uses /\ Forgetful(w, c).releases = w.releases
           /\ Forgetful(w, c).check = w.check /\ Forgetful(w, c).listed = w.listed
           /\ Forgetful(w, c).master = w.master /\ Forgetful(w, c).summons = w.summons
           /\ Forgetful(w, c).targets = With(w.targets, c, {})
           /\ Forgetful(w, c).friends = With(w.friends, c, {})
  BY DEF Forgetful, Worlds, With

LEMMA AnewIs ==
    ASSUME NEW w \in Worlds, NEW c \in Creatures
    PROVE  /\ Anew(w, c) \in Worlds
           /\ Anew(w, c).status = With(w.status, c, "none")
           /\ Anew(w, c).alive = With(w.alive, c, TRUE)
           /\ Anew(w, c).uses = w.uses /\ Anew(w, c).releases = w.releases
           /\ Anew(w, c).check = w.check /\ Anew(w, c).listed = w.listed
           /\ Anew(w, c).master = w.master /\ Anew(w, c).summons = w.summons
           /\ Anew(w, c).targets = w.targets /\ Anew(w, c).friends = w.friends
<1>1. w.place[c] \in Places
  BY Typed
<1>2. Nowhere \in Places /\ Nobody \in Someone
  BY <1>1, NobodyIs DEF Nowhere
<1> QED
  BY <1>2 DEF Anew, Worlds, With

LEMMA DeletedIs ==
    ASSUME NEW w \in Worlds, NEW c \in Creatures
    PROVE  /\ Deleted(w, c) \in Worlds
           /\ Deleted(w, c).status = With(w.status, c, "none")
           /\ Deleted(w, c).alive = With(w.alive, c, TRUE)
           /\ Deleted(w, c).releases = w.releases /\ Deleted(w, c).check = w.check
           /\ Deleted(w, c).listed = w.listed
           /\ Deleted(w, c).master = [d \in Creatures |-> IF d \in w.summons[c] \cup {c} THEN Nobody
                                                         ELSE w.master[d]]
           /\ Deleted(w, c).summons = With(w.summons, c, {})
           /\ Deleted(w, c).targets = With(w.targets, c, {})
           /\ Deleted(w, c).friends = With(w.friends, c, {})
           /\ \A d \in Creatures : Deleted(w, c).uses[d] =
                  w.uses[d] - B(d \in w.summons[c]) - B(d \in w.targets[c]) - B(d \in w.friends[c])
<1> DEFINE S == w.summons[c]
           T == w.targets[c]
           G == w.friends[c]
           a == ReleasedAll(w, S)
           b == ReleasedAll(a, T)
           v == ReleasedAll(b, G)
           e == Orphaned(v, c, S)
           h == Forgetful(e, c)
           r == Anew(h, c)
<1>1. /\ a \in Worlds /\ a.status = w.status /\ a.alive = w.alive /\ a.releases = w.releases
      /\ a.check = w.check /\ a.listed = w.listed /\ a.master = w.master /\ a.summons = w.summons
      /\ a.targets = w.targets /\ a.friends = w.friends
      /\ \A d \in Creatures : a.uses[d] = w.uses[d] - B(d \in S)
  BY ReleasedIs
<1>2. Deleted(w, c) = r
  BY DEF Deleted
<1> HIDE DEF a, S, T, G
<1>3. /\ b \in Worlds /\ b.status = a.status /\ b.alive = a.alive /\ b.releases = a.releases
      /\ b.check = a.check /\ b.listed = a.listed /\ b.master = a.master /\ b.summons = a.summons
      /\ b.targets = a.targets /\ b.friends = a.friends
      /\ \A d \in Creatures : b.uses[d] = a.uses[d] - B(d \in T)
  BY <1>1, ReleasedIs
<1> HIDE DEF b
<1>4. /\ v \in Worlds /\ v.status = b.status /\ v.alive = b.alive /\ v.releases = b.releases
      /\ v.check = b.check /\ v.listed = b.listed /\ v.master = b.master /\ v.summons = b.summons
      /\ v.targets = b.targets /\ v.friends = b.friends
      /\ \A d \in Creatures : v.uses[d] = b.uses[d] - B(d \in G)
  BY <1>3, ReleasedIs
<1> HIDE DEF v
<1>5. /\ v.status = w.status /\ v.alive = w.alive /\ v.releases = w.releases
      /\ v.check = w.check /\ v.listed = w.listed /\ v.master = w.master /\ v.summons = w.summons
      /\ v.targets = w.targets /\ v.friends = w.friends
  BY <1>1, <1>3, <1>4
<1>6. \A d \in Creatures : v.uses[d] = w.uses[d] - B(d \in S) - B(d \in T) - B(d \in G)
  <2> SUFFICES ASSUME NEW d \in Creatures
               PROVE  v.uses[d] = w.uses[d] - B(d \in S) - B(d \in T) - B(d \in G)
    OBVIOUS
  <2> DEFINE s == B(d \in S)
             t == B(d \in T)
             g == B(d \in G)
  <2>1. w.uses[d] \in Int /\ s \in Int /\ t \in Int /\ g \in Int
    BY Typed DEF B
  <2>2. a.uses[d] = w.uses[d] - s /\ b.uses[d] = a.uses[d] - t /\ v.uses[d] = b.uses[d] - g
    BY <1>1, <1>3, <1>4
  <2> HIDE DEF s, t, g
  <2>3. v.uses[d] = w.uses[d] - s - t - g
    BY <2>1, <2>2
  <2> QED
    BY <2>3 DEF s, t, g
<1>7. /\ e \in Worlds /\ e.status = v.status /\ e.alive = v.alive
      /\ e.uses = v.uses /\ e.releases = v.releases /\ e.check = v.check /\ e.listed = v.listed
      /\ e.summons = With(v.summons, c, {}) /\ e.targets = v.targets /\ e.friends = v.friends
      /\ e.master = [d \in Creatures |-> IF d \in S \cup {c} THEN Nobody ELSE v.master[d]]
  BY <1>4, OrphanedIs
<1> HIDE DEF e
<1>8. /\ h \in Worlds /\ h.status = e.status /\ h.alive = e.alive
      /\ h.uses = e.uses /\ h.releases = e.releases /\ h.check = e.check /\ h.listed = e.listed
      /\ h.master = e.master /\ h.summons = e.summons
      /\ h.targets = With(e.targets, c, {}) /\ h.friends = With(e.friends, c, {})
  <2>1. e \in Worlds
    BY <1>7
  <2> QED
    BY <2>1, ForgetfulIs
<1> HIDE DEF h
<1>9. /\ r \in Worlds /\ r.status = With(h.status, c, "none")
      /\ r.alive = With(h.alive, c, TRUE)
      /\ r.uses = h.uses /\ r.releases = h.releases /\ r.check = h.check /\ r.listed = h.listed
      /\ r.master = h.master /\ r.summons = h.summons
      /\ r.targets = h.targets /\ r.friends = h.friends
  <2>1. h \in Worlds
    BY <1>8
  <2> QED
    BY <2>1, AnewIs
<1> HIDE DEF r
<1>10. r.master = [d \in Creatures |-> IF d \in S \cup {c} THEN Nobody ELSE w.master[d]]
  BY <1>5, <1>7, <1>8, <1>9
<1>11. /\ r.status = With(w.status, c, "none") /\ r.alive = With(w.alive, c, TRUE)
       /\ r.releases = w.releases /\ r.check = w.check /\ r.listed = w.listed
       /\ r.summons = With(w.summons, c, {})
       /\ r.targets = With(w.targets, c, {}) /\ r.friends = With(w.friends, c, {})
       /\ r.uses = v.uses
  BY <1>5, <1>7, <1>8, <1>9
<1> QED
  BY <1>2, <1>6, <1>9, <1>10, <1>11 DEF S, T, G

\* Nobody refers to an object without uses.
LEMMA Unused ==
    ASSUME NEW w \in Sound, NEW c \in Creatures, w.uses[c] = 0
    PROVE  /\ w.status[c] # "placed" /\ ~w.listed[c] /\ ~w.check[c] /\ w.releases[c] = 0
           /\ w.master[c] = Nobody
           /\ \A d \in Creatures :
                c \notin w.summons[d] /\ c \notin w.targets[d] /\ c \notin w.friends[d]
<1>1. /\ w \in Worlds /\ w.releases[c] \in Nat /\ w.master[c] \in Someone
      /\ w.summons \in [Creatures -> SUBSET Creatures]
      /\ w.targets \in [Creatures -> SUBSET Creatures]
      /\ w.friends \in [Creatures -> SUBSET Creatures]
  BY Typed, RefsAre DEF Sound
<1> DEFINE p == B(w.status[c] = "placed")
           l == B(w.listed[c])
           s == Refs(w.summons, c)
           t == Refs(w.targets, c)
           f == Refs(w.friends, c)
           r == w.releases[c]
<1>2. p + l + s + t + f + r = 0
  BY DEF Sound, Due
<1>3. p \in Nat /\ l \in Nat /\ s \in Nat /\ t \in Nat /\ f \in Nat /\ r \in Nat
  BY <1>1, RefsAre DEF B
<1>4. p = 0 /\ l = 0 /\ s = 0 /\ t = 0 /\ f = 0 /\ r = 0
  <2> HIDE DEF p, l, s, t, f, r
  <2> QED
    BY <1>1, <1>2, <1>3
<1>5. w.status[c] # "placed" /\ ~w.listed[c]
  BY <1>4 DEF B
<1>6. \A d \in Creatures : c \notin w.summons[d] /\ c \notin w.targets[d] /\ c \notin w.friends[d]
  <2> SUFFICES ASSUME NEW d \in Creatures
               PROVE  c \notin w.summons[d] /\ c \notin w.targets[d] /\ c \notin w.friends[d]
    OBVIOUS
  <2>1. /\ c \in w.summons[d] => s > 0
        /\ c \in w.targets[d] => t > 0
        /\ c \in w.friends[d] => f > 0
    BY <1>1, RefsWith
  <2> HIDE DEF s, t, f
  <2> QED
    BY <1>4, <2>1
<1>7. w.master[c] = Nobody /\ ~w.check[c]
  BY <1>1, <1>5, <1>6 DEF Sound, Agree, Minded, Someone
<1> QED
  BY <1>4, <1>5, <1>6, <1>7

\* No pointers are set by a deletion, and none of those who stay is affected.
LEMMA DeletedPoints ==
    ASSUME NEW w \in Sound, NEW c \in Creatures
    PROVE  LET v == Deleted(w, c)
           IN  /\ \A d \in Creatures : d # c => v.place[d] = w.place[d]
               /\ \A d, t \in Creatures : Points(v, d, t) => Points(w, d, t) /\ d # c
<1> DEFINE S == w.summons[c]
           a == ReleasedAll(w, S)
           b == ReleasedAll(a, w.targets[c])
           v == ReleasedAll(b, w.friends[c])
           u == Deleted(w, c)
<1>1. DOMAIN w = Fields
  BY SameReflexive
<1>2. /\ DOMAIN v = Fields /\ v.place = w.place
      /\ v.attacked = w.attacked /\ v.followed = w.followed
  <2>1. Same(w, a)
    BY <1>1 DEF Same, Fields, ReleasedAll
  <2> HIDE DEF a
  <2>2. Same(a, b)
    BY <2>1 DEF Same, Fields, ReleasedAll
  <2> HIDE DEF b
  <2>3. Same(b, v)
    BY <2>2 DEF Same, Fields, ReleasedAll
  <2> HIDE DEF v
  <2> QED
    BY <2>1, <2>2, <2>3 DEF Same
<1>3. u = Anew(Forgetful(Orphaned(v, c, S), c), c)
  BY DEF Deleted
<1>4. /\ u.place = [v.place EXCEPT ![c] = Nowhere]
      /\ u.attacked = [d \in Creatures |-> IF d \in S \cup {c} THEN Nobody ELSE v.attacked[d]]
      /\ u.followed = [v.followed EXCEPT ![c] = Nobody]
  <2> DEFINE e == Orphaned(v, c, S)
             h == Forgetful(e, c)
  <2>1. /\ DOMAIN e = Fields /\ e.place = v.place /\ e.followed = v.followed
        /\ e.attacked = [d \in Creatures |-> IF d \in S \cup {c} THEN Nobody ELSE v.attacked[d]]
    BY <1>2 DEF Orphaned, Fields
  <2>2. u = Anew(h, c)
    BY <1>3
  <2> HIDE DEF e
  <2>3. /\ DOMAIN h = Fields /\ h.place = e.place /\ h.followed = e.followed
        /\ h.attacked = e.attacked
    BY <2>1 DEF Forgetful, Fields
  <2> HIDE DEF h
  <2>4. /\ u.place = [h.place EXCEPT ![c] = Nowhere] /\ u.attacked = h.attacked
        /\ u.followed = [h.followed EXCEPT ![c] = Nobody]
    BY <2>2, <2>3 DEF Anew, Fields
  <2> QED
    BY <2>1, <2>3, <2>4
<1> HIDE <1>3
<1>5. w.place \in [Creatures -> Places] /\ w.followed \in [Creatures -> Someone]
  BY Typed DEF Sound
<1>6. /\ \A d \in Creatures : d # c => u.place[d] = w.place[d] /\ u.followed[d] = w.followed[d]
      /\ u.followed[c] = Nobody /\ u.attacked[c] = Nobody
      /\ \A d \in Creatures : u.attacked[d] \in {w.attacked[d], Nobody}
  BY <1>2, <1>4, <1>5
<1>7. \A d, t \in Creatures : Points(u, d, t) => Points(w, d, t) /\ d # c
  BY <1>6 DEF Points
<1> QED
  BY <1>6, <1>7 DEF u

\* Only what is deleted forgets whom it was told to overlook.
LEMMA DeletedOverlooks ==
    ASSUME NEW w \in Sound, NEW c \in Creatures
    PROVE  \A d \in Creatures : d # c => Deleted(w, c).overlooked[d] = w.overlooked[d]
<1> DEFINE S == w.summons[c]
           a == ReleasedAll(w, S)
           b == ReleasedAll(a, w.targets[c])
           v == ReleasedAll(b, w.friends[c])
           u == Deleted(w, c)
<1>1. DOMAIN w = Fields /\ w.overlooked \in [Creatures -> SUBSET Creatures]
  BY SameReflexive, Typed DEF Sound
<1>2. DOMAIN v = Fields /\ v.overlooked = w.overlooked
  <2>1. DOMAIN a = Fields /\ a.overlooked = w.overlooked
    BY <1>1 DEF Fields, ReleasedAll
  <2> HIDE DEF a
  <2>2. DOMAIN b = Fields /\ b.overlooked = w.overlooked
    BY <2>1 DEF Fields, ReleasedAll
  <2> HIDE DEF b
  <2> QED
    BY <2>2 DEF Fields, ReleasedAll
<1>3. u = Anew(Forgetful(Orphaned(v, c, S), c), c)
  BY DEF Deleted
<1> HIDE DEF v
<1>4. u.overlooked = [v.overlooked EXCEPT ![c] = {}]
  <2> DEFINE e == Orphaned(v, c, S)
             h == Forgetful(e, c)
  <2>1. DOMAIN e = Fields /\ e.overlooked = v.overlooked
    BY <1>2 DEF Orphaned, Fields
  <2>2. u = Anew(h, c)
    BY <1>3
  <2> HIDE DEF e
  <2>3. DOMAIN h = Fields /\ h.overlooked = [v.overlooked EXCEPT ![c] = {}]
    BY <2>1 DEF Forgetful, Fields
  <2> HIDE DEF h
  <2>4. u.overlooked = h.overlooked
    BY <2>2, <2>3 DEF Anew, Fields
  <2> QED
    BY <2>3, <2>4
<1> HIDE <1>3
<1> QED
  BY <1>1, <1>2, <1>4 DEF u

\* The summons of what is deleted are off the map, and it faces nobody itself.
LEMMA DeletedHeeds ==
    ASSUME NEW w \in Sound, NEW c \in Creatures, w.uses[c] = 0, Led(w)
    PROVE  Heeds(w, Deleted(w, c))
<1> DEFINE v == Deleted(w, c)
<1>1. /\ v.status = With(w.status, c, "none") /\ v.alive = With(w.alive, c, TRUE)
      /\ v.check = w.check /\ v.targets = With(w.targets, c, {})
      /\ v.master = [d \in Creatures |-> IF d \in w.summons[c] \cup {c} THEN Nobody
                                         ELSE w.master[d]]
  BY DeletedIs DEF Sound
<1>2. \A d \in Creatures : d # c => v.place[d] = w.place[d] /\ v.overlooked[d] = w.overlooked[d]
  BY DeletedPoints, DeletedOverlooks
<1> HIDE DEF v
<1>3. /\ w.status \in [Creatures -> {"none", "placed", "removed"}]
      /\ w.alive \in [Creatures -> BOOLEAN]
      /\ w.targets \in [Creatures -> SUBSET Creatures]
  BY Typed DEF Sound
<1>4. /\ v.status[c] # "placed"
      /\ \A d \in Creatures : d # c => /\ v.status[d] = w.status[d] /\ v.alive[d] = w.alive[d]
                                        /\ v.targets[d] = w.targets[d]
  BY <1>1, <1>3 DEF With
<1>5. \A s \in w.summons[c] : w.status[s] # "placed"
  BY Unused DEF Led, Attended
<1>6. \A d \in Creatures : d # c /\ w.status[d] = "placed" => v.master[d] = w.master[d]
  BY <1>1, <1>5
<1> SUFFICES ASSUME NEW m \in Monsters, NEW d \in Creatures, Faces(v, m, d)
             PROVE  Faces(w, m, d) /\ (Knows(w, m, d) => Knows(v, m, d))
  BY DEF Heeds, Heed, v
<1>7. m \in Creatures /\ m # c /\ d # c
  BY <1>4, MonstersAre DEF Faces
<1>8. w.status[m] = "placed" /\ w.status[d] = "placed"
  BY <1>4, <1>7 DEF Faces
<1>9. Faces(w, m, d)
  BY <1>2, <1>4, <1>6, <1>7, <1>8 DEF Faces, CanSee
<1>10. Knows(w, m, d) => Knows(v, m, d)
  BY <1>1, <1>2, <1>4, <1>7 DEF Knows
<1> QED
  BY <1>9, <1>10

\* What collecting what nobody uses leaves as it is.
Kept(w) == {v \in Sound : /\ v.check = w.check /\ v.listed = w.listed
                          /\ \A c \in Creatures : v.status[c] = "placed" => w.status[c] = "placed"
                          /\ Led(w) => Led(v) /\ Heeds(w, v)}

\* What is deleted gives up its own references; nobody had one to it.
LEMMA DeletedKept ==
    ASSUME NEW w \in Sound, NEW c \in Creatures, w.uses[c] = 0
    PROVE  Deleted(w, c) \in Kept(w)
<1> DEFINE v == Deleted(w, c)
           S == w.summons[c]
           T == w.targets[c]
           G == w.friends[c]
<1>1. /\ v \in Worlds
      /\ v.status = With(w.status, c, "none") /\ v.alive = With(w.alive, c, TRUE)
      /\ v.releases = w.releases /\ v.check = w.check /\ v.listed = w.listed
      /\ v.master = [d \in Creatures |-> IF d \in S \cup {c} THEN Nobody ELSE w.master[d]]
      /\ v.summons = With(w.summons, c, {})
      /\ v.targets = With(w.targets, c, {}) /\ v.friends = With(w.friends, c, {})
      /\ \A d \in Creatures : v.uses[d] = w.uses[d] - B(d \in S) - B(d \in T) - B(d \in G)
  BY DeletedIs DEF Sound
<1>2. /\ w.status[c] # "placed" /\ ~w.listed[c] /\ ~w.check[c]
      /\ w.master[c] = Nobody
      /\ \A d \in Creatures : c \notin w.summons[d]
  BY Unused
<1> HIDE DEF v
<1>3. /\ w \in Worlds /\ w.status \in [Creatures -> {"none", "placed", "removed"}]
      /\ w.alive \in [Creatures -> BOOLEAN]
      /\ w.releases \in [Creatures -> Nat] /\ w.uses \in [Creatures -> Int]
      /\ w.summons \in [Creatures -> SUBSET Creatures]
      /\ w.targets \in [Creatures -> SUBSET Creatures]
      /\ w.friends \in [Creatures -> SUBSET Creatures]
  BY Typed, RefsAre DEF Sound
<1>4. Due(v)
  <2> SUFFICES ASSUME NEW d \in Creatures
               PROVE  v.uses[d] = B(v.status[d] = "placed") + B(v.listed[d]) + Refs(v.summons, d)
                                  + Refs(v.targets, d) + Refs(v.friends, d) + v.releases[d]
    BY DEF Due
  <2> DEFINE l == B(w.listed[d])
             p == B(w.status[d] = "placed")
             s == Refs(w.summons, d)
             t == Refs(w.targets, d)
             f == Refs(w.friends, d)
             r == w.releases[d]
             bs == B(d \in S)
             bt == B(d \in T)
             bg == B(d \in G)
  <2>1. w.uses[d] = p + l + s + t + f + r
    BY DEF Sound, Due
  <2>2. l \in Int /\ s \in Int /\ t \in Int /\ f \in Int /\ r \in Int /\ p \in Int
        /\ bs \in Int /\ bt \in Int /\ bg \in Int
    BY <1>3, RefsAre DEF B
  <2>3. B(v.status[d] = "placed") = p
    BY <1>1, <1>2, <1>3 DEF With, B
  <2>4. /\ Refs(v.summons, d) = s - bs
        /\ Refs(v.targets, d) = t - bt
        /\ Refs(v.friends, d) = f - bg
    <3>1. B(d \in {}) = 0 /\ {} \in SUBSET Creatures
      BY DEF B
    <3>2. /\ Refs(With(w.summons, c, {}), d) = s + B(d \in {}) - bs
          /\ Refs(With(w.targets, c, {}), d) = t + B(d \in {}) - bt
          /\ Refs(With(w.friends, c, {}), d) = f + B(d \in {}) - bg
      BY <1>3, <3>1, RefsWith
    <3> HIDE DEF s, t, f, bs, bt, bg
    <3> QED
      BY <1>1, <2>2, <3>1, <3>2
  <2>5. v.uses[d] = w.uses[d] - bs - bt - bg
    BY <1>1
  <2> HIDE DEF l, s, t, f, r, p, bs, bt, bg
  <2>6. v.uses[d] = p + l + (s - bs) + (t - bt) + (f - bg) + r
    BY <2>1, <2>2, <2>5
  <2>7. B(v.listed[d]) = l /\ v.releases[d] = r
    BY <1>1 DEF l, r
  <2> QED
    BY <2>3, <2>4, <2>6, <2>7
<1>5. Agree(v)
  <2> SUFFICES ASSUME NEW a \in Creatures, NEW s \in Creatures
               PROVE  v.master[s] = a <=> s \in v.summons[a]
    BY DEF Agree
  <2>1. w.master[s] = a <=> s \in w.summons[a]
    BY DEF Sound, Agree
  <2>2. s \in S <=> w.master[s] = c
    BY DEF Sound, Agree
  <2>3. Nobody # a
    BY NobodyIs
  <2>4. v.summons[a] = IF a = c THEN {} ELSE w.summons[a]
    BY <1>1, <1>3 DEF With
  <2>5. v.master[s] = IF s \in S \cup {c} THEN Nobody ELSE w.master[s]
    BY <1>1
  <2> HIDE DEF S
  <2> QED
    BY <1>2, <2>1, <2>2, <2>3, <2>4, <2>5
<1>6. Fresh(v)
  <2> SUFFICES ASSUME NEW d \in Creatures, v.status[d] = "none"
               PROVE  v.master[d] = Nobody /\ ~v.listed[d] /\ v.alive[d]
    BY DEF Fresh
  <2>1. d = c \/ (d # c /\ w.status[d] = "none")
    BY <1>1, <1>3 DEF With
  <2>2. d # c /\ w.status[d] = "none" => w.master[d] = Nobody /\ ~w.listed[d] /\ w.alive[d]
    BY DEF Sound, Fresh
  <2> QED
    BY <1>1, <1>2, <1>3, <2>1, <2>2 DEF With
<1>7. Minded(v)
  <2> SUFFICES ASSUME NEW d \in Creatures
               PROVE  /\ v.check[d] => v.status[d] = "placed" /\ v.listed[d]
                      /\ v.status[d] = "placed" /\ ~v.alive[d] => v.check[d]
    BY DEF Minded
  <2>1. /\ w.check[d] => w.status[d] = "placed" /\ w.listed[d]
        /\ w.status[d] = "placed" /\ ~w.alive[d] => w.check[d]
    BY DEF Sound, Minded
  <2>2. d # c => v.status[d] = w.status[d] /\ v.alive[d] = w.alive[d]
    BY <1>1, <1>3 DEF With
  <2>3. v.status[c] = "none"
    BY <1>1, <1>3 DEF With
  <2> QED
    BY <1>1, <1>2, <2>1, <2>2, <2>3
<1>8. \A d \in Creatures : v.status[d] = "placed" => w.status[d] = "placed"
  BY <1>1, <1>3 DEF With
<1>p. /\ \A d \in Creatures : d # c => v.place[d] = w.place[d]
      /\ \A d, t \in Creatures : Points(v, d, t) => Points(w, d, t) /\ d # c
  BY DeletedPoints DEF v
<1>L. ASSUME Led(w)
      PROVE  Led(v)
  <2>1. /\ v.status[c] = "none" /\ v.summons[c] = {}
        /\ \A d \in Creatures : /\ v.summons[d] \subseteq w.summons[d]
                                /\ d # c => v.status[d] = w.status[d]
    BY <1>1, <1>3 DEF With
  <2>2. \A d \in Creatures : w.summons[d] \subseteq Creatures /\ c \notin w.summons[d]
    BY <1>2, <1>3
  <2>3. Flat(v)
    BY <1>L, <2>1, <2>2 DEF Led, Flat
  <2>4. Attended(v)
    <3> SUFFICES ASSUME NEW d \in Creatures, NEW s \in v.summons[d], v.status[s] = "placed"
                 PROVE  v.status[d] = "placed"
      BY DEF Attended
    <3>1. s \in w.summons[d] /\ s \in Creatures /\ s # c /\ d # c
      BY <2>1, <2>2
    <3>2. w.status[s] = "placed"
      BY <2>1, <3>1
    <3>3. w.status[d] = "placed"
      BY <1>L, <3>1, <3>2 DEF Led, Attended
    <3> QED
      BY <2>1, <3>1, <3>3
  <2>5. Blank(v)
    <3> SUFFICES ASSUME NEW d \in Creatures, v.status[d] = "none", d # c
                 PROVE  v.summons[d] = {} /\ \A t \in Creatures : ~Points(v, d, t)
      BY <1>p, <2>1 DEF Blank
    <3>1. w.status[d] = "none"
      BY <2>1
    <3>2. w.summons[d] = {} /\ \A t \in Creatures : ~Points(w, d, t)
      BY <1>L, <3>1 DEF Led, Blank
    <3> QED
      BY <1>p, <2>1, <3>2
  <2>6. Aimed(v)
    <3> SUFFICES ASSUME NEW d \in Creatures, NEW t \in Creatures, v.status[d] = "placed",
                        Points(v, d, t)
                 PROVE  v.status[t] = "placed" /\ CanSee(v, d, t)
      BY DEF Aimed
    <3>1. d # c /\ w.status[d] = "placed" /\ Points(w, d, t)
      BY <1>p, <2>1
    <3>2. w.status[t] = "placed" /\ CanSee(w, d, t)
      BY <1>L, <3>1 DEF Led, Aimed
    <3>3. t # c
      BY <1>2, <3>2
    <3> QED
      BY <1>p, <2>1, <3>1, <3>2, <3>3 DEF CanSee
  <2> QED
    BY <2>3, <2>4, <2>5, <2>6 DEF Led
<1>H. Led(w) => Heeds(w, v)
  BY DeletedHeeds DEF v
<1>9. v \in Kept(w)
  BY <1>1, <1>4, <1>5, <1>6, <1>7, <1>8, <1>L, <1>H DEF Kept, Sound
<1> QED
  BY <1>9 DEF v

LEMMA OneDeletedKept ==
    ASSUME NEW w \in Sound
    PROVE  OneDeleted(w) \in Kept(w)
<1> DEFINE dead == {c \in Creatures : w.status[c] # "none" /\ w.uses[c] = 0}
           c == CHOOSE d \in dead : TRUE
<1>1. OneDeleted(w) = IF dead = {} THEN w ELSE Deleted(w, c)
  BY DEF OneDeleted
<1>2. CASE dead = {}
  BY <1>1, <1>2, HeedsFollows DEF Kept
<1>3. CASE dead # {}
  <2>1. c \in dead
    BY <1>3
  <2>2. c \in Creatures /\ w.uses[c] = 0
    BY <2>1
  <2> HIDE DEF c
  <2>3. Deleted(w, c) \in Kept(w)
    BY <2>2, DeletedKept
  <2> QED
    BY <1>1, <1>3, <2>3
<1> QED
  BY <1>2, <1>3

\* However many objects are deleted one after the other.
LEMMA CollectedKept ==
    ASSUME NEW w \in Sound
    PROVE  Collected(w) \in Kept(w)
<1> DEFINE W == Kept(w)
           n == Cardinality(Creatures)
           after[k \in 0 .. n] == IF k = 0 THEN w ELSE OneDeleted(after[k - 1])
           F == [z \in W \X (1 .. n) |-> OneDeleted(z[1])]
<1>1. Collected(w) = after[n]
  BY DEF Collected
<1>w. n \in Nat /\ w \in W
  <2>1. IsFiniteSet(Creatures)
    BY CreaturesConstants, FS_Union DEF Creatures
  <2> QED
    BY <2>1, FS_CardinalityType, HeedsFollows DEF Kept
<1>o. ASSUME NEW v \in W
      PROVE  OneDeleted(v) \in W
  <2>1. v \in Sound
    BY DEF Kept
  <2>2. OneDeleted(v) \in Kept(v)
    BY <2>1, OneDeletedKept
  <2>3. Led(w) => Led(OneDeleted(v)) /\ Heeds(w, OneDeleted(v))
    BY <2>2, HeedsFollows DEF Kept
  <2> QED
    BY <2>2, <2>3 DEF Kept
<1> HIDE DEF W, n
<1>t1. F \in [W \X (1 .. n) -> W]
  BY <1>o
<1>t2. PICK f \in [0 .. n -> W] : f[0] = w /\ \A k \in 1 .. n : f[k] = F[<<f[k - 1], k>>]
  <2> HIDE DEF F
  <2>1. Turns(W, w, n, F) # {}
    BY <1>w, <1>t1, TurnsExist
  <2> QED
    BY <2>1 DEF Turns
<1>t3. f = [k \in 0 .. n |-> IF k = 0 THEN w ELSE OneDeleted(f[k - 1])]
  <2>1. ASSUME NEW k \in 1 .. n
        PROVE  f[k] = OneDeleted(f[k - 1])
    <3>1. k - 1 \in 0 .. n
      BY <1>w
    <3>2. <<f[k - 1], k>> \in W \X (1 .. n)
      BY <1>t2, <3>1
    <3> QED
      BY <1>t2, <3>2
  <2>2. \A k \in 0 .. n : k # 0 => k \in 1 .. n
    BY <1>w
  <2> HIDE DEF F
  <2>3. \A k \in 0 .. n : f[k] = IF k = 0 THEN w ELSE OneDeleted(f[k - 1])
    BY <1>t2, <2>1, <2>2
  <2> QED
    BY <1>t2, <2>3
<1>t4. after = [k \in 0 .. n |-> IF k = 0 THEN w ELSE OneDeleted(after[k - 1])]
  BY <1>t3, Zenon
<1> HIDE DEF after
<1>t5. after[0] \in W /\ \A k \in 1 .. n : after[k - 1] \in W => after[k] \in W
  <2> HIDE DEF F
  <2>1. 0 \in 0 .. n /\ \A k \in 1 .. n : k \in 0 .. n /\ k # 0
    BY <1>w
  <2> QED
    BY <1>w, <1>o, <1>t4, <2>1
<1>t6. after[n] \in W
  BY <1>w, <1>t5, TurnsStay
<1> QED
  BY <1>1, <1>t6 DEF W

\* Cleanup releases as often as releases were to be.
LEMMA CleanedAfter ==
    ASSUME NEW w \in Sound
    PROVE  Cleaned(w) \in After(w) /\ Same(w, Cleaned(w)) /\ Calm(w, Cleaned(w))
<1> DEFINE us == [c \in Creatures |-> w.uses[c] - w.releases[c]]
           re == [c \in Creatures |-> 0]
           v == Cleaned(w)
<1>1. /\ w \in Worlds /\ w.releases \in [Creatures -> Nat] /\ w.uses \in [Creatures -> Int]
      /\ w.status \in [Creatures -> {"none", "placed", "removed"}]
  BY Typed DEF Sound
<1>2. us \in [Creatures -> Int] /\ re \in [Creatures -> Nat]
  BY <1>1
<1>3. v = [w EXCEPT !.uses = us, !.releases = re]
  BY <1>1 DEF Cleaned, Worlds
<1>s. Same(w, v) /\ Calm(w, v)
  BY SameReflexive DEF Same, Calm, Fields, Cleaned
<1> HIDE DEF v, us, re
<1>4. /\ v \in Worlds /\ v.uses = us /\ v.releases = re /\ v.status = w.status
      /\ v.alive = w.alive /\ v.check = w.check /\ v.listed = w.listed /\ v.master = w.master
      /\ v.summons = w.summons /\ v.targets = w.targets /\ v.friends = w.friends
  BY <1>1, <1>2, <1>3 DEF Worlds
<1>5. Due(v)
  <2> SUFFICES ASSUME NEW d \in Creatures
               PROVE  v.uses[d] = B(v.status[d] = "placed") + B(v.listed[d]) + Refs(v.summons, d)
                                  + Refs(v.targets, d) + Refs(v.friends, d) + v.releases[d]
    BY DEF Due
  <2> DEFINE l == B(w.listed[d])
             p == B(w.status[d] = "placed")
             s == Refs(w.summons, d)
             t == Refs(w.targets, d)
             f == Refs(w.friends, d)
             r == w.releases[d]
  <2>1. w.uses[d] = p + l + s + t + f + r
    BY DEF Sound, Due
  <2>2. l \in Int /\ s \in Int /\ t \in Int /\ f \in Int /\ r \in Int /\ p \in Int
    BY <1>1, RefsAre DEF B
  <2>3. v.uses[d] = w.uses[d] - r /\ v.releases[d] = 0
    BY <1>4 DEF us, re
  <2> HIDE DEF l, s, t, f, r, p
  <2>4. v.uses[d] = p + l + s + t + f + v.releases[d]
    BY <2>1, <2>2, <2>3
  <2> QED
    BY <1>4, <2>4 DEF p, l, s, t, f
<1>6. v \in Sound
  BY <1>4, <1>5 DEF Sound, Agree, Fresh, Minded
<1>7. v \in After(w)
  BY <1>4, <1>6 DEF After
<1> QED
  BY <1>s, <1>7 DEF v

----------------------------------------------------------------------------
(* Creatures enter the map.                                                *)

\* Everything is sound but that c, which comes into being, may have a master already.
Entering(w, c) ==
    /\ w \in Worlds /\ Due(w) /\ Agree(w) /\ Minded(w)
    /\ w.status[c] = "none" /\ ~w.listed[c] /\ w.alive[c]
    /\ \A d \in Creatures :
        w.status[d] = "none" /\ d # c => w.master[d] = Nobody /\ ~w.listed[d] /\ w.alive[d]

LEMMA NewbornIs ==
    ASSUME NEW w \in Worlds, NEW c \in Creatures, NEW x \in Places
    PROVE  /\ Newborn(w, c, x) \in Worlds
           /\ Newborn(w, c, x).status = With(w.status, c, "placed")
           /\ Newborn(w, c, x).uses = With(w.uses, c, w.uses[c] + 1)
           /\ Newborn(w, c, x).alive = w.alive /\ Newborn(w, c, x).releases = w.releases
           /\ Newborn(w, c, x).check = w.check /\ Newborn(w, c, x).listed = w.listed
           /\ Newborn(w, c, x).master = w.master /\ Newborn(w, c, x).summons = w.summons
           /\ Newborn(w, c, x).targets = w.targets /\ Newborn(w, c, x).friends = w.friends
           /\ Newborn(w, c, x).place = With(w.place, c, x)
           /\ Newborn(w, c, x).attacked = w.attacked /\ Newborn(w, c, x).followed = w.followed
           /\ Newborn(w, c, x).overlooked = w.overlooked
<1> DEFINE v == [w EXCEPT !.status[c] = "placed", !.place[c] = x]
<1>1. v \in Worlds /\ v.uses = w.uses
  BY DEF Worlds
<1>2. /\ v.status = With(w.status, c, "placed") /\ v.alive = w.alive /\ v.releases = w.releases
      /\ v.check = w.check /\ v.listed = w.listed /\ v.master = w.master /\ v.summons = w.summons
      /\ v.targets = w.targets /\ v.friends = w.friends
      /\ v.place = With(w.place, c, x) /\ v.attacked = w.attacked /\ v.followed = w.followed
      /\ v.overlooked = w.overlooked
  BY DEF Worlds, With
<1>3. Newborn(w, c, x) = [v EXCEPT !.uses = With(w.uses, c, w.uses[c] + 1)]
  BY <1>1 DEF Newborn, Used, With
<1> HIDE DEF v
<1>4. With(w.uses, c, w.uses[c] + 1) \in [Creatures -> Int]
  BY UsedOnce, Typed
<1> DEFINE u == With(w.uses, c, w.uses[c] + 1)
           n == [v EXCEPT !.uses = u]
<1> HIDE DEF u
<1>5. n \in Worlds /\ n.uses = u
  BY <1>1, <1>4 DEF Worlds, u
<1>6. /\ n.status = v.status /\ n.alive = v.alive /\ n.releases = v.releases
      /\ n.check = v.check /\ n.listed = v.listed /\ n.master = v.master /\ n.summons = v.summons
      /\ n.targets = v.targets /\ n.friends = v.friends
      /\ n.place = v.place /\ n.attacked = v.attacked /\ n.followed = v.followed
      /\ n.overlooked = v.overlooked
  BY <1>1 DEF Worlds
<1>7. Newborn(w, c, x) = n
  BY <1>3 DEF u
<1> HIDE DEF n
<1> QED
  BY <1>2, <1>5, <1>6, <1>7 DEF u

\* What enters the map is met by those around, nobody else meets anybody.
LEMMA NewbornHeeds ==
    ASSUME NEW w \in Worlds, NEW c \in Creatures, NEW x \in Places
    PROVE  /\ HeedsBut(w, Newborn(w, c, x), c)
           /\ Aware(w) => AwareBut(Newborn(w, c, x), c)
<1> DEFINE v == Newborn(w, c, x)
<1>1. /\ v.status = With(w.status, c, "placed") /\ v.place = With(w.place, c, x)
      /\ v.alive = w.alive /\ v.check = w.check /\ v.master = w.master
      /\ v.targets = w.targets /\ v.overlooked = w.overlooked
  BY NewbornIs
<1> HIDE DEF v
<1>2. \A d \in Creatures : d # c => v.status[d] = w.status[d] /\ v.place[d] = w.place[d]
  BY <1>1, Typed DEF With
<1>3. HeedsBut(w, v, c)
  BY <1>1, <1>2, MonstersAre DEF HeedsBut, Heed, Faces, Knows, CanSee
<1>4. Aware(w) => AwareBut(v, c)
  BY <1>3 DEF HeedsBut, Heed, Aware, Minds, AwareBut
<1> QED
  BY <1>3, <1>4 DEF v

\* The map takes what enters it with a use.
LEMMA NewbornSound ==
    ASSUME NEW w, NEW c \in Creatures, Entering(w, c), NEW x \in Places
    PROVE  Newborn(w, c, x) \in Sound
<1> DEFINE v == Newborn(w, c, x)
<1>1. w \in Worlds
  BY DEF Entering
<1>2. /\ v \in Worlds
      /\ v.status = With(w.status, c, "placed")
      /\ v.uses = With(w.uses, c, w.uses[c] + 1)
      /\ v.alive = w.alive /\ v.releases = w.releases /\ v.check = w.check
      /\ v.listed = w.listed /\ v.master = w.master /\ v.summons = w.summons
      /\ v.targets = w.targets /\ v.friends = w.friends
  BY <1>1, NewbornIs
<1> HIDE DEF v
<1>3. /\ w.status \in [Creatures -> {"none", "placed", "removed"}]
      /\ w.uses \in [Creatures -> Int] /\ w.releases \in [Creatures -> Nat]
  BY <1>1, Typed
<1>4. Due(v)
  <2> SUFFICES ASSUME NEW d \in Creatures
               PROVE  v.uses[d] = B(v.status[d] = "placed") + B(v.listed[d]) + Refs(v.summons, d)
                                  + Refs(v.targets, d) + Refs(v.friends, d) + v.releases[d]
    BY DEF Due
  <2> DEFINE l == B(w.listed[d])
             p == B(w.status[d] = "placed")
             q == B(v.status[d] = "placed")
             s == Refs(w.summons, d)
             t == Refs(w.targets, d)
             f == Refs(w.friends, d)
             r == w.releases[d]
             one == B(d = c)
  <2>1. w.uses[d] = p + l + s + t + f + r
    BY DEF Entering, Due
  <2>2. l \in Int /\ s \in Int /\ t \in Int /\ f \in Int /\ r \in Int /\ p \in Int /\ one \in Int
    BY <1>1, <1>3, RefsAre DEF B
  <2>3. v.uses[d] = w.uses[d] + one
    BY <1>2, <1>3, UsedOnce
  <2>4. q = p + one
    <3>1. CASE d = c
      BY <1>2, <1>3, <3>1 DEF With, B, Entering
    <3>2. CASE d # c
      <4>1. v.status[d] = w.status[d]
        BY <1>2, <1>3, <3>2 DEF With
      <4>2. one = 0 /\ q = p /\ p \in Int
        BY <3>2, <4>1 DEF B
      <4> HIDE DEF one, q, p
      <4> QED
        BY <4>2
    <3> QED
      BY <3>1, <3>2
  <2> HIDE DEF l, s, t, f, r, p, q, one
  <2>5. v.uses[d] = q + l + s + t + f + r
    BY <2>1, <2>2, <2>3, <2>4
  <2> QED
    BY <1>2, <2>5 DEF q, l, s, t, f, r
<1>5. Agree(v) /\ Fresh(v) /\ Minded(v)
  BY <1>2, <1>3 DEF Entering, Agree, Fresh, Minded, With
<1>6. v \in Sound
  BY <1>2, <1>4, <1>5 DEF Sound
<1> QED
  BY <1>6 DEF v

LEMMA SoundEnters ==
    ASSUME NEW w \in Sound, NEW c \in Creatures, w.status[c] = "none"
    PROVE  Entering(w, c)
  BY DEF Sound, Fresh, Entering

\* A summons has its master before it is on the map.
LEMMA SummonEnters ==
    ASSUME NEW w \in Sound, NEW c \in Creatures, NEW m \in Monsters, w.status[m] = "none"
    PROVE  /\ Entering(AddSummon(w, c, m), m)
           /\ AddSummon(w, c, m).status = w.status
           /\ AddSummon(w, c, m).check = w.check /\ AddSummon(w, c, m).listed = w.listed
<1> DEFINE v == AddSummon(w, c, m)
<1>1. w \in Worlds /\ m \in Creatures /\ w.master[m] = Nobody
  BY MonstersAre DEF Sound, Fresh
<1>2. m \notin w.summons[c]
  BY <1>1, NobodyIs DEF Sound, Agree
<1>3. /\ v \in Worlds /\ v.status = w.status /\ v.alive = w.alive /\ v.releases = w.releases
      /\ v.check = w.check /\ v.listed = w.listed
      /\ v.targets = w.targets /\ v.friends = w.friends
      /\ v.master = With(w.master, m, c)
      /\ v.summons = With(w.summons, c, w.summons[c] \cup {m})
      /\ \A d \in Creatures :
            /\ v.uses[d] = w.uses[d] + B(d = m)
            /\ Refs(v.summons, d) = Refs(w.summons, d) + B(d = m)
  BY <1>1, <1>2, AddSummonIs
<1> HIDE DEF v
<1>4. Agree(v)
  BY <1>1, <1>3, Typed, NobodyIs DEF Agree, Sound, With
<1>5. Due(v)
  <2> SUFFICES ASSUME NEW d \in Creatures
               PROVE  v.uses[d] = B(v.status[d] = "placed") + B(v.listed[d]) + Refs(v.summons, d)
                                  + Refs(v.targets, d) + Refs(v.friends, d) + v.releases[d]
    BY DEF Due
  <2> DEFINE l == B(w.listed[d])
             p == B(w.status[d] = "placed")
             s == Refs(w.summons, d)
             t == Refs(w.targets, d)
             f == Refs(w.friends, d)
             r == w.releases[d]
             one == B(d = m)
             k == Refs(v.summons, d)
  <2>1. w.uses[d] = p + l + s + t + f + r
    BY DEF Sound, Due
  <2>2. l \in Int /\ s \in Int /\ t \in Int /\ f \in Int /\ r \in Int /\ p \in Int /\ one \in Int
    BY <1>1, Typed, RefsAre DEF B
  <2>3. v.uses[d] = w.uses[d] + one /\ k = s + one
    BY <1>3
  <2> HIDE DEF l, s, t, f, r, p, k, one
  <2>4. v.uses[d] = p + l + k + t + f + r
    BY <2>1, <2>2, <2>3
  <2> QED
    BY <1>3, <2>4 DEF p, l, k, t, f, r
<1>6. Minded(v)
  BY <1>3 DEF Sound, Minded
<1>7. Entering(v, m)
  BY <1>1, <1>3, <1>4, <1>5, <1>6, Typed DEF Entering, Sound, Fresh, With
<1> QED
  BY <1>3, <1>7 DEF v

\* Nobody points at a new creature yet, and a new summons has a master on the
\* map that is no summons itself.
LEMMA NewbornLed ==
    ASSUME NEW w \in Sound, Led(w), NEW c \in Creatures, w.status[c] = "none", NEW x \in Places,
           NEW v \in Worlds, v.status = w.status, v.place = w.place,
           v.attacked = w.attacked, v.followed = w.followed,
           \A d \in Creatures :
                /\ v.summons[d] \subseteq w.summons[d] \cup {c}
                /\ c \in v.summons[d] =>
                        w.status[d] = "placed" /\ \A e \in Creatures : d \notin w.summons[e]
    PROVE  Led(Newborn(v, c, x))
<1> DEFINE a == Newborn(v, c, x)
<1>1. /\ a.status = With(w.status, c, "placed") /\ a.place = With(w.place, c, x)
      /\ a.attacked = w.attacked /\ a.followed = w.followed /\ a.summons = v.summons
  BY NewbornIs
<1> HIDE DEF a
<1>2. /\ a.status[c] = "placed"
      /\ \A d \in Creatures : d # c => a.status[d] = w.status[d] /\ a.place[d] = w.place[d]
      /\ \A d \in Creatures : w.summons[d] \subseteq Creatures
  BY <1>1, Typed, MonstersAre DEF With, Sound
<1>3. \A d, t \in Creatures : Points(a, d, t) <=> Points(w, d, t)
  BY <1>1 DEF Points
<1>4. w.summons[c] = {} /\ \A t \in Creatures : ~Points(w, c, t)
  BY DEF Led, Blank
<1>5. Flat(a)
  <2> SUFFICES ASSUME NEW d \in Creatures, NEW s \in v.summons[d], NEW z \in v.summons[s]
               PROVE  FALSE
    BY <1>1 DEF Flat
  <2>1. s = c \/ s \in w.summons[d]
    OBVIOUS
  <2>2. s \in Creatures
    BY <1>2, <2>1
  <2>3. w.summons[s] = {}
    BY <1>4, <2>1 DEF Led, Flat
  <2>4. z = c
    BY <2>2, <2>3
  <2>5. w.status[s] = "placed" /\ s \notin w.summons[d]
    BY <2>2, <2>4
  <2> QED
    BY <2>1, <2>5
<1>6. Attended(a)
  <2> SUFFICES ASSUME NEW d \in Creatures, NEW s \in v.summons[d], a.status[s] = "placed"
               PROVE  a.status[d] = "placed"
    BY <1>1 DEF Attended
  <2>1. w.status[d] = "placed"
    <3>1. CASE s = c
      BY <3>1
    <3>2. CASE s # c
      <4>1. s \in w.summons[d] /\ s \in Creatures
        BY <1>2, <3>2
      <4>2. w.status[s] = "placed"
        BY <1>2, <3>2, <4>1
      <4> QED
        BY <4>1, <4>2 DEF Led, Attended
    <3> QED
      BY <3>1, <3>2
  <2> QED
    BY <1>2, <2>1
<1>7. Blank(a)
  <2> SUFFICES ASSUME NEW d \in Creatures, a.status[d] = "none"
               PROVE  v.summons[d] = {} /\ \A t \in Creatures : ~Points(w, d, t)
    BY <1>1, <1>3 DEF Blank
  <2>1. d # c /\ w.status[d] = "none"
    BY <1>2
  <2>2. w.summons[d] = {} /\ \A t \in Creatures : ~Points(w, d, t)
    BY <2>1 DEF Led, Blank
  <2>3. c \notin v.summons[d]
    BY <2>1
  <2> QED
    BY <2>2, <2>3
<1>8. Aimed(a)
  <2> SUFFICES ASSUME NEW d \in Creatures, NEW t \in Creatures, a.status[d] = "placed",
                      Points(w, d, t)
               PROVE  a.status[t] = "placed" /\ CanSee(a, d, t)
    BY <1>3 DEF Aimed
  <2>1. d # c /\ w.status[d] = "placed"
    BY <1>2, <1>4
  <2>2. w.status[t] = "placed" /\ CanSee(w, d, t)
    BY <2>1 DEF Led, Aimed
  <2> QED
    BY <1>2, <2>1, <2>2 DEF CanSee
<1> QED
  BY <1>5, <1>6, <1>7, <1>8 DEF Led, a

----------------------------------------------------------------------------
(* The invariant, and the actions.                                         *)

\* A sound world, led by its pointers, where monsters know whom they face, in the
\* middle of a round r: whom the round has yet to look at is listed, and players on
\* the map are let think.
Going(w, r) ==
    /\ w \in Sound /\ Led(w) /\ Aware(w)
    /\ r \subseteq {c \in Creatures : w.listed[c]}
    /\ \A p \in Adventurers : w.status[p] = "placed" => w.check[p]

LEMMA OrdersTyped ==
    ASSUME NEW c \in Creatures, NEW X, NEW order \in Orders(c, X)
    PROVE  order \in Seq(Creatures)
<1> DEFINE around == X \cup {place[s] : s \in summons[c] \cup {c}}
           S == {c} \cup {d \in Creatures : /\ status[d] = "placed"
                                            /\ \E x \in around : Near(place[d], x)}
<1>1. order \in OrdersOf[S]
  BY DEF Orders
<1>2. S \in SUBSET Creatures
  OBVIOUS
<1> HIDE DEF S
<1> QED
  BY <1>1, <1>2, OrdersAre

\* Told are all who see c, one of its summons or a place of X, and c itself.
LEMMA OrdersSee ==
    ASSUME NEW c \in Creatures, NEW X, NEW order \in Orders(c, X)
    PROVE  /\ SeenAll(World, order, c) /\ \A x \in X : SeenAt(World, order, x)
           /\ \E k \in 1 .. Len(order) : order[k] = c
<1> DEFINE around == X \cup {place[s] : s \in summons[c] \cup {c}}
           S == {c} \cup {d \in Creatures : /\ status[d] = "placed"
                                            /\ \E x \in around : Near(place[d], x)}
<1>1. order \in OrdersOf[S]
  BY DEF Orders
<1>2. S \in SUBSET Creatures
  OBVIOUS
<1>3. \A d \in S : \E k \in 1 .. Len(order) : order[k] = d
  <2> HIDE DEF S
  <2> QED
    BY <1>1, <1>2, OrdersAre
<1>4. ASSUME NEW s \in {c} \cup summons[c], NEW d \in Creatures, status[d] = "placed",
             Near(place[d], place[s])
      PROVE  d \in S
  BY <1>4
<1>6. ASSUME NEW x \in X, NEW d \in Creatures, status[d] = "placed", Near(place[d], x)
      PROVE  d \in S
  BY <1>6
<1>7. c \in S
  OBVIOUS
<1> HIDE DEF S
<1>5. ASSUME NEW s \in {c} \cup summons[c]
      PROVE  Seen(World, order, s)
  BY <1>3, <1>4, <1>5 DEF Seen, CanSee, World
<1>8. \A x \in X : SeenAt(World, order, x)
  BY <1>3, <1>6 DEF SeenAt, World
<1> QED
  BY <1>3, <1>5, <1>7, <1>8 DEF SeenAll, World

\* What an operation makes of a sound world lets the round go on.
LEMMA Onward ==
    ASSUME NEW w, NEW r, Going(w, r), NEW v \in After(w), Led(v), Aware(v), NEW q \in SUBSET r
    PROVE  Going(v, q)
<1>1. v \in Sound /\ w \in Sound
  BY DEF After, Going
<1>2. q \subseteq {c \in Creatures : v.listed[c]}
  BY DEF After, Going
<1>3. \A p \in Adventurers : v.status[p] = "placed" => v.check[p]
  BY MonstersAre DEF After, Going
<1> QED
  BY <1>1, <1>2, <1>3 DEF Going

LEMMA CollectedGoing ==
    ASSUME NEW w, NEW r, Going(w, r)
    PROVE  Going(Collected(w), r)
<1>1. Collected(w) \in Kept(w)
  BY CollectedKept DEF Going
<1>2. Aware(Collected(w))
  BY <1>1, MindsStays DEF Kept, Going
<1> QED
  BY <1>1, <1>2, MonstersAre DEF Kept, Going

\* A step makes of the world what is left when all without uses are deleted.
LEMMA Becomes ==
    ASSUME NEW w \in Sound, Become(w)
    PROVE  World' = Collected(w)
<1> DEFINE v == Collected(w)
<1>1. v \in Worlds
  BY CollectedKept DEF Kept, Sound
<1>2. World' = [status |-> v.status, place |-> v.place, alive |-> v.alive, uses |-> v.uses,
          releases |-> v.releases, check |-> v.check, listed |-> v.listed, master |-> v.master,
          summons |-> v.summons, attacked |-> v.attacked, followed |-> v.followed,
          targets |-> v.targets, friends |-> v.friends, idle |-> v.idle, inRange |-> v.inRange,
          overlooked |-> v.overlooked]
  BY DEF Become, World
<1> HIDE DEF v
<1>3. v = [status |-> v.status, place |-> v.place, alive |-> v.alive, uses |-> v.uses,
          releases |-> v.releases, check |-> v.check, listed |-> v.listed, master |-> v.master,
          summons |-> v.summons, attacked |-> v.attacked, followed |-> v.followed,
          targets |-> v.targets, friends |-> v.friends, idle |-> v.idle, inRange |-> v.inRange,
          overlooked |-> v.overlooked]
  BY <1>1 DEF Worlds
<1> QED
  BY <1>2, <1>3 DEF v

LEMMA BecomesGoing ==
    ASSUME NEW w, NEW q, Going(w, q), Become(w)
    PROVE  Going(World', q)
<1>1. w \in Sound
  BY DEF Going
<1>2. World' = Collected(w)
  BY <1>1, Becomes
<1> QED
  BY <1>2, CollectedGoing

LEMMA PlacedGoing ==
    ASSUME NEW w, NEW r, Going(w, r), NEW c \in Creatures, w.status[c] = "none",
           NEW v, Entering(v, c), v.status = w.status, v.check = w.check, v.listed = w.listed,
           v.place = w.place, Aware(v),
           NEW x \in Places, Led(Newborn(v, c, x)), NEW order \in Seq(Creatures),
           SeenAt(w, order, x), \E k \in 1 .. Len(order) : order[k] = c
    PROVE  Going(Placed(v, c, x, order), r)
<1> DEFINE a == Newborn(v, c, x)
           u == Placed(v, c, x, order)
<1>1. v \in Worlds /\ v.status \in [Creatures -> {"none", "placed", "removed"}]
  BY Typed DEF Entering
<1>2. a \in Sound /\ Led(a)
  BY NewbornSound
<1>3. /\ a.status = With(v.status, c, "placed") /\ a.place = With(v.place, c, x)
      /\ a.check = v.check /\ a.listed = v.listed
  BY <1>1, NewbornIs
<1>A. AwareBut(a, c)
  BY <1>1, NewbornHeeds
<1>4. a = Newborn(v, c, x)
  OBVIOUS
<1> HIDE DEF a
<1>5. a.status[c] = "placed" /\ \A d \in Creatures : d # c => a.status[d] = w.status[d]
  BY <1>1, <1>3 DEF With
<1>p. a.place[c] = x /\ \A d \in Creatures : d # c => a.place[d] = w.place[d]
  <2>1. v.place \in [Creatures -> Places]
    BY <1>1, Typed
  <2> QED
    BY <1>3, <2>1 DEF With
<1>s. Seen(a, order, c)
  <2> SUFFICES ASSUME NEW d \in Creatures, a.status[d] = "placed", CanSee(a, d, c)
               PROVE  \E k \in 1 .. Len(order) : order[k] = d
    BY DEF Seen
  <2>1. CASE d = c
    BY <2>1
  <2>2. CASE d # c
    BY <1>5, <1>p, <2>2 DEF SeenAt, CanSee
  <2> QED
    BY <2>1, <2>2
<1>6. u \in Like(a) /\ u.check[c] /\ Same(a, u) /\ Aware(u)
  <2>1. a \in Sound /\ a.status[c] = "placed" /\ a.place[c] = x
    BY <1>2, <1>5, <1>p
  <2>2. /\ Placed(v, c, x, order) \in Like(a) /\ Placed(v, c, x, order).check[c]
        /\ Same(a, Placed(v, c, x, order))
        /\ AwareBut(a, c) => Aware(Placed(v, c, x, order))
    BY <1>4, <1>s, <2>1, PlacedLike
  <2> QED
    BY <1>A, <2>2
<1> HIDE DEF u
<1>7. u \in Sound /\ Led(u)
  BY <1>2, <1>6, LikeIsAfter, SameLoosed, LoosedLed
<1>8. r \subseteq {d \in Creatures : u.listed[d]}
  BY <1>3, <1>6 DEF Going, Like
<1>9. ASSUME NEW p \in Adventurers, u.status[p] = "placed"
      PROVE  u.check[p]
  <2>1. CASE p = c
    BY <1>6, <2>1
  <2>2. CASE p # c
    <3>1. u.status[p] = w.status[p]
      BY <1>5, <1>6, <2>2, MonstersAre DEF Like
    <3>2. w.check[p]
      BY <1>9, <3>1 DEF Going
    <3> QED
      BY <1>3, <1>6, <3>2 DEF Like
  <2> QED
    BY <2>1, <2>2
<1>10. Going(u, r)
  BY <1>6, <1>7, <1>8, <1>9 DEF Going
<1> QED
  BY <1>10 DEF u

\* Who no longer thinks is taken off the list, the use is to be released.
LEMMA UnlistedGoing ==
    ASSUME NEW w, NEW r, Going(w, r), NEW c \in r, ~w.check[c]
    PROVE  Going([w EXCEPT !.listed[c] = FALSE, !.releases[c] = @ + 1], r \ {c})
<1> DEFINE v == [w EXCEPT !.listed[c] = FALSE, !.releases[c] = @ + 1]
           li == [w.listed EXCEPT ![c] = FALSE]
           re == [w.releases EXCEPT ![c] = w.releases[c] + 1]
<1>1. /\ w \in Sound /\ w \in Worlds /\ c \in Creatures /\ w.listed[c]
      /\ w.releases \in [Creatures -> Nat] /\ w.uses \in [Creatures -> Int]
      /\ w.status \in [Creatures -> {"none", "placed", "removed"}]
      /\ w.listed \in [Creatures -> BOOLEAN]
  BY Typed DEF Going, Sound
<1>2. li \in [Creatures -> BOOLEAN] /\ re \in [Creatures -> Nat]
  BY <1>1
<1>3. v = [w EXCEPT !.listed = li, !.releases = re]
  BY <1>1 DEF Worlds
<1>s. Same(w, v) /\ Calm(w, v)
  BY <1>1, SameReflexive DEF Same, Calm, Fields
<1> HIDE DEF v, li, re
<1>L. Led(v) /\ Aware(v)
  BY <1>1, <1>s, SameLoosed, LoosedLed, CalmHeeds, MindsStays DEF Going
<1>4. /\ v \in Worlds /\ v.uses = w.uses /\ v.releases = re /\ v.status = w.status
      /\ v.alive = w.alive /\ v.check = w.check /\ v.listed = li /\ v.master = w.master
      /\ v.summons = w.summons /\ v.targets = w.targets /\ v.friends = w.friends
  BY <1>1, <1>2, <1>3 DEF Worlds
<1>5. Due(v)
  <2> SUFFICES ASSUME NEW d \in Creatures
               PROVE  v.uses[d] = B(v.status[d] = "placed") + B(v.listed[d]) + Refs(v.summons, d)
                                  + Refs(v.targets, d) + Refs(v.friends, d) + v.releases[d]
    BY DEF Due
  <2> DEFINE l == B(w.listed[d])
             k == B(v.listed[d])
             p == B(w.status[d] = "placed")
             s == Refs(w.summons, d)
             t == Refs(w.targets, d)
             f == Refs(w.friends, d)
             r1 == w.releases[d]
             r2 == v.releases[d]
  <2>1. w.uses[d] = p + l + s + t + f + r1
    BY DEF Going, Sound, Due
  <2>2. l \in Int /\ s \in Int /\ t \in Int /\ f \in Int /\ r1 \in Int /\ p \in Int
    BY <1>1, RefsAre DEF B
  <2>3. k \in Int /\ r2 \in Int /\ k + r2 = l + r1
    <3>1. CASE d = c
      <4>1. k = 0 /\ l = 1 /\ r2 = r1 + 1
        BY <1>1, <1>4, <3>1 DEF li, re, B
      <4> HIDE DEF k, l, r1, r2
      <4> QED
        BY <2>2, <4>1
    <3>2. CASE d # c
      <4>1. k = l /\ r2 = r1
        BY <1>1, <1>4, <3>2 DEF li, re
      <4> HIDE DEF k, l, r1, r2
      <4> QED
        BY <2>2, <4>1
    <3> QED
      BY <3>1, <3>2
  <2>4. v.uses[d] = w.uses[d]
    BY <1>4
  <2> HIDE DEF l, s, t, f, r1, r2, p, k
  <2>5. v.uses[d] = p + k + s + t + f + r2
    BY <2>1, <2>2, <2>3, <2>4
  <2> QED
    BY <1>4, <2>5 DEF p, k, s, t, f, r2
<1>6. Agree(v) /\ Fresh(v) /\ Minded(v)
  BY <1>1, <1>4 DEF Sound, Agree, Fresh, Minded, li
<1>7. v \in Sound
  BY <1>4, <1>5, <1>6 DEF Sound
<1>8. r \ {c} \subseteq {d \in Creatures : v.listed[d]}
  BY <1>1, <1>4 DEF li, Going
<1>9. Going(v, r \ {c})
  BY <1>4, <1>7, <1>8, <1>L DEF Going
<1> QED
  BY <1>9 DEF v

CreaturesIInv == Going(World, round)

LEMMA WorldIs ==
    /\ World.status = status /\ World.place = place /\ World.alive = alive /\ World.uses = uses
    /\ World.releases = releases /\ World.check = check /\ World.listed = listed
    /\ World.master = master /\ World.summons = summons /\ World.attacked = attacked
    /\ World.followed = followed /\ World.targets = targets /\ World.friends = friends
    /\ World.overlooked = overlooked
  BY DEF World

LEMMA LookedGoing ==
    ASSUME NEW c, NEW w, Going(w, round \ {c}), Looked(c, w)
    PROVE  Going(World', round')
<1> DEFINE v == IF round' = {} THEN Cleaned(w) ELSE w
<1>1. round' = round \ {c} /\ Become(v)
  BY DEF Looked
<1>2. w \in Sound /\ Led(w) /\ Aware(w)
  BY DEF Going
<1>3. v \in After(w) /\ Led(v) /\ Aware(v)
  BY <1>2, CleanedAfter, Reflexive, SameLoosed, LoosedLed, CalmHeeds, MindsStays
<1> HIDE DEF v
<1>4. Going(v, round')
  BY <1>1, <1>3, Onward
<1> QED
  BY <1>1, <1>4, BecomesGoing

\* The monsters of the start have one use, that of the map.
LEMMA CreaturesInitHolds == CreaturesInit => CreaturesIInv
<1> SUFFICES ASSUME CreaturesInit
             PROVE  CreaturesIInv
  OBVIOUS
<1>1. PICK born \in SUBSET Monsters, x \in [Creatures -> Places] :
        /\ status = [c \in Creatures |-> IF c \in born THEN "placed" ELSE "none"]
        /\ place = [c \in Creatures |-> IF c \in born THEN x[c] ELSE Nowhere]
        /\ uses = [c \in Creatures |-> IF c \in born THEN 1 ELSE 0]
        /\ alive = [c \in Creatures |-> TRUE]
        /\ releases = [c \in Creatures |-> 0]
        /\ check = [c \in Creatures |-> FALSE]
        /\ listed = [c \in Creatures |-> FALSE]
        /\ master = [c \in Creatures |-> Nobody]
        /\ summons = [c \in Creatures |-> {}]
        /\ attacked = [c \in Creatures |-> Nobody]
        /\ followed = [c \in Creatures |-> Nobody]
        /\ targets = [c \in Creatures |-> {}]
        /\ friends = [c \in Creatures |-> {}]
        /\ idle = [c \in Creatures |-> TRUE]
        /\ inRange = [c \in Creatures |-> FALSE]
        /\ overlooked = [c \in Creatures |-> {}]
        /\ round = {}
  BY DEF CreaturesInit
<1>2. \A c \in Creatures : Nowhere \in Places
  BY DEF Nowhere
<1>3. World \in Worlds
  <2>1. /\ status \in [Creatures -> {"none", "placed", "removed"}]
        /\ place \in [Creatures -> Places]
        /\ uses \in [Creatures -> Int] /\ releases \in [Creatures -> Nat]
    BY <1>1, <1>2
  <2>2. /\ master \in [Creatures -> Someone] /\ attacked \in [Creatures -> Someone]
        /\ followed \in [Creatures -> Someone]
    BY <1>1, NobodyIs
  <2>3. /\ alive \in [Creatures -> BOOLEAN] /\ check \in [Creatures -> BOOLEAN]
        /\ listed \in [Creatures -> BOOLEAN] /\ idle \in [Creatures -> BOOLEAN]
        /\ inRange \in [Creatures -> BOOLEAN]
    BY <1>1
  <2>4. /\ summons \in [Creatures -> SUBSET Monsters]
        /\ targets \in [Creatures -> SUBSET Creatures]
        /\ friends \in [Creatures -> SUBSET Creatures]
        /\ overlooked \in [Creatures -> SUBSET Creatures]
    BY <1>1
  <2> QED
    BY <2>1, <2>2, <2>3, <2>4 DEF World, Worlds
<1>4. Due(World)
  <2> SUFFICES ASSUME NEW c \in Creatures
               PROVE  uses[c] = B(status[c] = "placed") + B(listed[c]) + Refs(summons, c)
                                + Refs(targets, c) + Refs(friends, c) + releases[c]
    BY WorldIs DEF Due
  <2>1. Refs(summons, c) = 0 /\ Refs(targets, c) = 0 /\ Refs(friends, c) = 0
    <3>1. /\ {d \in Creatures : c \in summons[d]} = {}
          /\ {d \in Creatures : c \in targets[d]} = {}
          /\ {d \in Creatures : c \in friends[d]} = {}
      BY <1>1
    <3> QED
      BY <3>1, FS_EmptySet DEF Refs
  <2>2. B(listed[c]) = 0 /\ releases[c] = 0 /\ uses[c] = B(status[c] = "placed")
    BY <1>1 DEF B
  <2>3. uses[c] \in Int
    BY <1>1
  <2> QED
    BY <2>1, <2>2, <2>3
<1>5. Agree(World) /\ Fresh(World) /\ Minded(World)
  BY <1>1, WorldIs, NobodyIs DEF Agree, Fresh, Minded
<1>6. \A p \in Adventurers : World.status[p] # "placed"
  BY <1>1, WorldIs, MonstersAre, CreaturesConstants
<1>7. World \in Sound
  BY <1>3, <1>4, <1>5 DEF Sound
<1>8. \A c \in Creatures : World.summons[c] = {} /\ \A t \in Creatures : ~Points(World, c, t)
  BY <1>1, WorldIs DEF Points
<1>9. Led(World)
  BY <1>8 DEF Led, Flat, Attended, Blank, Aimed
<1>10. Aware(World)
  <2>1. \A m \in Monsters, c \in Creatures : ~Faces(World, m, c)
    BY <1>1, <1>6, WorldIs, CreaturesConstants DEF Faces
  <2> QED
    BY <2>1 DEF Aware, Minds
<1> QED
  BY <1>1, <1>6, <1>7, <1>9, <1>10 DEF CreaturesIInv, Going

LEMMA CleanupGoes == CreaturesIInv /\ Cleanup => CreaturesIInv'
<1> SUFFICES ASSUME CreaturesIInv, Cleanup
             PROVE  CreaturesIInv'
  OBVIOUS
<1>1. World \in Sound /\ Led(World) /\ Become(Cleaned(World)) /\ round' = round
  BY DEF CreaturesIInv, Going, Cleanup
<1>2. Cleaned(World) \in After(World) /\ Led(Cleaned(World)) /\ Aware(Cleaned(World))
  BY <1>1, CleanedAfter, SameLoosed, LoosedLed, CalmHeeds, MindsStays DEF CreaturesIInv, Going
<1>3. Going(Cleaned(World), round)
  BY <1>2, Onward DEF CreaturesIInv
<1> QED
  BY <1>1, <1>3, BecomesGoing DEF CreaturesIInv

LEMMA CheckCreaturesGoes ==
    ASSUME CreaturesIInv, NEW bucket \in SUBSET Creatures, CheckCreatures(bucket)
    PROVE  CreaturesIInv'
<1>1. World' = World
  BY DEF CheckCreatures, World
<1>2. round' \subseteq {c \in Creatures : World.listed[c]}
  BY WorldIs DEF CheckCreatures
<1> QED
  BY <1>1, <1>2 DEF CreaturesIInv, Going

LEMMA SetTargetGoes ==
    ASSUME CreaturesIInv, NEW p \in Adventurers, NEW t \in Creatures \cup {Nobody},
           NEW chases \in BOOLEAN,
           SetTarget(p, t, chases)
    PROVE  CreaturesIInv'
<1> DEFINE w == SetAttackedCreature(World, p, t)
           f == IF chases THEN t ELSE Nobody
           v == IF t = Nobody \/ ~CanSee(World, p, t) THEN w ELSE SetFollowCreature(w, p, f)
<1>1. /\ World \in Sound /\ Led(World) /\ p \in Creatures /\ t \in Someone /\ f \in Someone
      /\ Become(v) /\ round' = round
      /\ World.status[p] = "placed" /\ (t # Nobody => World.status[t] = "placed")
      /\ f \in {t, Nobody}
  BY WorldIs, MonstersAre, NobodyIs DEF CreaturesIInv, Going, SetTarget, Someone
<1>2. /\ w \in Like(World) /\ w \in Sound
      /\ Steers(World, w) /\ w.status = World.status /\ Led(w) /\ Heeds(World, w)
  <2>1. w \in Like(World) /\ w \in Sound
    BY <1>1, SetAttackedLike, LikeIsAfter
  <2>2. Steers(World, w) /\ w.status = World.status
    BY <1>1, SetAttackedSteers
  <2>3. Heeds(World, w)
    BY <1>1, SameReflexive, CalmAttacked, CalmHeeds
  <2> QED
    BY <1>1, <2>1, <2>2, <2>3, SteersLed
<1> HIDE DEF w, f
<1>3. v \in Like(w) /\ Led(v) /\ Heeds(w, v)
  <2>1. SetFollowCreature(w, p, f) \in Like(w)
    BY <1>1, <1>2, SetFollowLike
  <2>2. /\ Steers(w, SetFollowCreature(w, p, f))
        /\ SetFollowCreature(w, p, f).status = w.status
    BY <1>1, <1>2, SetFollowSteers
  <2>3. Led(SetFollowCreature(w, p, f))
    BY <1>2, <2>2, SteersLed
  <2>4. Heeds(w, SetFollowCreature(w, p, f))
    BY <1>2, SameReflexive, CalmFollow, CalmHeeds
  <2> QED
    BY <1>2, <2>1, <2>3, <2>4, Reflexive, HeedsFollows
<1> HIDE DEF v
<1>4. v \in After(World)
  BY <1>1, <1>2, <1>3, LikeFollows, LikeIsAfter
<1>A. Aware(v)
  BY <1>2, <1>3, MindsStays DEF CreaturesIInv, Going
<1>5. Going(v, round)
  BY <1>3, <1>4, <1>A, Onward DEF CreaturesIInv
<1> QED
  BY <1>1, <1>5, BecomesGoing DEF CreaturesIInv

LEMMA HitGoes ==
    ASSUME CreaturesIInv, NEW c \in Creatures, NEW dies \in BOOLEAN, Hit(c, dies)
    PROVE  CreaturesIInv'
<1> DEFINE v == HealthLost(World, c, dies)
<1>1. World \in Sound /\ Led(World) /\ World.status[c] = "placed" /\ Become(v) /\ round' = round
  BY WorldIs DEF CreaturesIInv, Going, Hit
<1>2. c \in Adventurers => World.check[c]
  BY <1>1 DEF CreaturesIInv, Going
<1>3. v \in Like(World) /\ Led(v)
  BY <1>1, <1>2, HealthLostLike, HealthLostSame, SameReflexive, SameLoosed, LoosedLed
<1>A. Aware(v)
  <2>1. World \in Worlds /\ World.alive[c] /\ Aware(World)
    BY WorldIs DEF CreaturesIInv, Going, Sound, Hit
  <2>2. Heeds(World, v)
    BY <2>1, HealthLostHeeds
  <2> QED
    BY <2>1, <2>2, MindsStays
<1> HIDE DEF v
<1>4. v \in After(World)
  BY <1>1, <1>3, LikeIsAfter
<1>5. Going(v, round)
  BY <1>3, <1>4, <1>A, Onward DEF CreaturesIInv
<1> QED
  BY <1>1, <1>5, BecomesGoing DEF CreaturesIInv

LEMMA PlaceCreatureGoes ==
    ASSUME CreaturesIInv, NEW c \in Creatures, NEW x \in Places, NEW order \in Orders(c, {x}),
           PlaceCreature(c, x, order)
    PROVE  CreaturesIInv'
<1>1. World.status[c] = "none" /\ Become(Placed(World, c, x, order)) /\ round' = round
  BY WorldIs DEF PlaceCreature
<1>2. /\ order \in Seq(Creatures) /\ SeenAt(World, order, x)
      /\ \E k \in 1 .. Len(order) : order[k] = c
  BY OrdersTyped, OrdersSee
<1>3. World \in Sound /\ Led(World) /\ Aware(World)
  BY DEF CreaturesIInv, Going
<1>4. Entering(World, c)
  BY <1>1, <1>3, SoundEnters
<1>L. Led(Newborn(World, c, x))
  <2>1. \A d \in Creatures : c \notin World.summons[d]
    BY <1>1, <1>3, NobodyIs DEF Sound, Agree, Fresh
  <2>2. World \in Worlds
    BY <1>3 DEF Sound
  <2> QED
    BY <1>1, <1>3, <2>1, <2>2, NewbornLed
<1>5. Going(Placed(World, c, x, order), round)
  BY <1>1, <1>2, <1>3, <1>4, <1>L, PlacedGoing DEF CreaturesIInv
<1> QED
  BY <1>1, <1>5, BecomesGoing DEF CreaturesIInv

LEMMA SummonGoes ==
    ASSUME CreaturesIInv, NEW c \in Creatures, NEW m \in Monsters, NEW x \in Places,
           NEW order \in Orders(m, {x}), Summon(c, m, x, order)
    PROVE  CreaturesIInv'
<1> DEFINE v == AddSummon(World, c, m)
<1>1. World.status[m] = "none" /\ World.status[c] = "placed"
      /\ (c \in Adventurers \/ World.master[c] = Nobody)
      /\ Become(Placed(v, m, x, order)) /\ round' = round
  BY WorldIs DEF Summon, IsSummon
<1>2. /\ order \in Seq(Creatures) /\ SeenAt(World, order, x) /\ m \in Creatures
      /\ \E k \in 1 .. Len(order) : order[k] = m
  BY OrdersTyped, OrdersSee, MonstersAre
<1>3. World \in Sound /\ Led(World) /\ Aware(World)
  BY DEF CreaturesIInv, Going
<1>4. Entering(v, m) /\ v.status = World.status /\ v.check = World.check /\ v.listed = World.listed
  BY <1>1, <1>3, SummonEnters
<1>A. Aware(v) /\ v.place = World.place
  <2>1. World \in Worlds /\ World.status[m] # "placed"
    BY <1>1, <1>3 DEF Sound
  <2>2. Heeds(World, v)
    BY <2>1, AddSummonHeeds
  <2>3. v.place = World.place
    BY <1>2, <1>3, AddSummonPoints
  <2> QED
    BY <1>3, <2>2, <2>3, MindsStays
<1>L. Led(Newborn(v, m, x))
  <2>1. /\ v.status = World.status /\ v.place = World.place
        /\ v.attacked = World.attacked /\ v.followed = World.followed
        /\ v.summons[c] = World.summons[c] \cup {m}
        /\ \A d \in Creatures : d # c => v.summons[d] = World.summons[d]
    BY <1>2, <1>3, AddSummonPoints
  <2>2. v \in Worlds
    BY <1>4 DEF Entering
  <2> HIDE DEF v
  <2>3. \A d \in Creatures : m \notin World.summons[d]
    BY <1>1, <1>2, <1>3, NobodyIs DEF Sound, Agree, Fresh
  <2>4. \A d \in Creatures : c \notin World.summons[d]
    BY <1>1, <1>3, Typed, NobodyIs, CreaturesConstants DEF Sound, Agree
  <2> QED
    BY <1>1, <1>2, <1>3, <2>1, <2>2, <2>3, <2>4, NewbornLed
<1> HIDE DEF v
<1>5. Going(Placed(v, m, x, order), round)
  BY <1>1, <1>2, <1>4, <1>L, <1>A, PlacedGoing DEF CreaturesIInv
<1> QED
  BY <1>1, <1>5, BecomesGoing DEF CreaturesIInv

LEMMA RemoveCreatureGoes ==
    ASSUME CreaturesIInv, NEW c \in Creatures, NEW order \in Orders(c, {}), RemoveCreature(c, order)
    PROVE  CreaturesIInv'
<1>1. /\ World \in Sound /\ Led(World) /\ World.status[c] = "placed"
      /\ Become(Removed(World, c, order)) /\ round' = round
  BY WorldIs DEF CreaturesIInv, Going, RemoveCreature
<1>2. order \in Seq(Creatures) /\ SeenAll(World, order, c)
  BY OrdersTyped, OrdersSee
<1>3. Removed(World, c, order) \in After(World) /\ Led(Removed(World, c, order))
  BY <1>1, <1>2, RemovedAfter, RemovedLed DEF Led
<1>A. Aware(Removed(World, c, order))
  BY <1>1, <1>2, RemovedAfter, MindsStays DEF Led, CreaturesIInv, Going
<1>4. Going(Removed(World, c, order), round)
  BY <1>3, <1>A, Onward DEF CreaturesIInv
<1> QED
  BY <1>1, <1>4, BecomesGoing DEF CreaturesIInv

LEMMA MoveCreatureGoes ==
    ASSUME CreaturesIInv, NEW c \in Creatures, NEW x \in Places, NEW order \in Orders(c, {x}),
           NEW far \in SUBSET summons[c], MoveCreature(c, x, far, order)
    PROVE  CreaturesIInv'
<1>1. /\ World \in Sound /\ Led(World) /\ World.status[c] = "placed"
      /\ Become(Moved(World, c, x, far, order)) /\ round' = round
  BY WorldIs DEF CreaturesIInv, Going, MoveCreature
<1>2. /\ order \in Seq(Creatures) /\ SeenAll(World, order, c)
      /\ SeenAt(World, order, x)
      /\ far \in SUBSET Creatures /\ far \subseteq World.summons[c]
  <2>1. World.summons[c] \in SUBSET Monsters
    BY <1>1, Typed DEF Sound
  <2> QED
    BY <2>1, WorldIs, OrdersTyped, OrdersSee, MonstersAre
<1>3. /\ Moved(World, c, x, far, order) \in After(World) /\ Led(Moved(World, c, x, far, order))
      /\ Aware(Moved(World, c, x, far, order))
  BY <1>1, <1>2, MovedAfter DEF CreaturesIInv, Going
<1>4. Going(Moved(World, c, x, far, order), round)
  BY <1>3, Onward DEF CreaturesIInv
<1> QED
  BY <1>1, <1>4, BecomesGoing DEF CreaturesIInv

LEMMA ConvinceGoes ==
    ASSUME CreaturesIInv, NEW p \in Adventurers, NEW m \in Monsters,
           NEW order \in Orders(m, Places),
           Convince(p, m, order)
    PROVE  CreaturesIInv'
<1> DEFINE w == AddSummon(IF IsSummon(World, m) THEN RemoveSummon(World, World.master[m], m)
                          ELSE World, p, m)
           v == Convinced(w, p, m, order)
<1>1. /\ World \in Sound /\ Led(World) /\ World.status[p] = "placed" /\ World.status[m] = "placed"
      /\ Become(v) /\ round' = round
  BY WorldIs DEF CreaturesIInv, Going, Convince
<1>2. order \in Seq(Creatures) /\ p \in Creatures /\ m \in Creatures
  BY OrdersTyped, MonstersAre
<1>3. w \in Like(World)
  BY <1>1, <1>2, GivenUpLike
<1>e. w = AddSummon(IF IsSummon(World, m) THEN RemoveSummon(World, World.master[m], m)
                    ELSE World, p, m)
  OBVIOUS
<1> HIDE DEF w
<1>4. w \in Sound /\ w.status[m] = "placed" /\ AllAsked(w, order)
  <2>1. \A d \in Creatures : World.status[d] = "placed" =>
            \E x \in Places : Near(World.place[d], x)
    <3>1. \A d \in Creatures : World.place[d] \in Places
      BY <1>1, Typed DEF Sound
    <3> QED
      BY <1>1, <3>1, SeesBack DEF Sound, CanSee
  <2>2. AllAsked(World, order)
    BY <1>2, <2>1, OrdersSee DEF SeenAt, AllAsked
  <2> QED
    BY <1>1, <1>3, <2>2, LikeIsAfter DEF Like, AllAsked
<1>5. v \in Like(w) /\ Loosed(w, v) /\ v.summons[m] = {} /\ Heeds(w, v) /\ Noted(v, m)
  BY <1>2, <1>4, ConvincedLike
<1> HIDE DEF v
<1>6. v \in After(World)
  BY <1>1, <1>3, <1>5, LikeFollows, LikeIsAfter
<1>L. Led(v)
  BY <1>1, <1>5, <1>e, ConvincedLed
<1>A. Aware(v)
  BY <1>1, <1>2, <1>5, <1>e, ConvincedKnown DEF CreaturesIInv, Going
<1>7. Going(v, round)
  BY <1>6, <1>L, <1>A, Onward DEF CreaturesIInv
<1> QED
  BY <1>1, <1>7, BecomesGoing DEF CreaturesIInv

LEMMA LookedAfter ==
    ASSUME CreaturesIInv, NEW c, NEW w \in After(World), Led(w), Aware(w), Looked(c, w)
    PROVE  CreaturesIInv'
<1>1. Going(w, round \ {c})
  BY Onward DEF CreaturesIInv
<1> QED
  BY <1>1, LookedGoing DEF CreaturesIInv

LEMMA ThinkPlayerGoes == ASSUME CreaturesIInv, NEW p, ThinkPlayer(p) PROVE CreaturesIInv'
<1>1. World \in After(World) /\ Led(World) /\ Aware(World)
  BY Reflexive DEF CreaturesIInv, Going
<1> QED
  BY <1>1, LookedAfter DEF ThinkPlayer

LEMMA CheckedArePlaced ==
    ASSUME CreaturesIInv, NEW c \in Creatures, check[c]
    PROVE  World \in Sound /\ Led(World) /\ World.status[c] = "placed"
  BY WorldIs DEF CreaturesIInv, Going, Sound, Minded

LEMMA ThinkGoes ==
    ASSUME CreaturesIInv, NEW m \in Monsters, NEW t \in Creatures \cup {Nobody}, Think(m, t)
    PROVE  CreaturesIInv'
<1> DEFINE v == Thought(UpdateIdleStatus(World, m), m, t)
<1>1. check[m] /\ Looked(m, v) /\ t \in Someone
  BY DEF Think, Someone
<1>2. World \in Sound /\ Led(World) /\ World.status[m] = "placed"
  BY <1>1, MonstersAre, CheckedArePlaced
<1>3. v \in Like(World) /\ Led(v) /\ Aware(v)
  BY <1>1, <1>2, ThoughtLike, MindsStays DEF CreaturesIInv, Going
<1> HIDE DEF v
<1>4. v \in After(World)
  BY <1>2, <1>3, LikeIsAfter
<1> QED
  BY <1>1, <1>3, <1>4, LookedAfter

LEMMA DespawnGoes ==
    ASSUME CreaturesIInv, NEW m \in Monsters, NEW x \in Places, NEW order \in Orders(m, {x}),
           Despawn(m, x, order)
    PROVE  CreaturesIInv'
<1>1. check[m] /\ Looked(m, SentHome(World, m, x, order))
  BY DEF Despawn
<1>2. /\ World \in Sound /\ Led(World) /\ World.status[m] = "placed"
      /\ order \in Seq(Creatures) /\ SeenAll(World, order, m)
      /\ SeenAt(World, order, x)
  BY <1>1, MonstersAre, CheckedArePlaced, OrdersTyped, OrdersSee
<1>3. /\ SentHome(World, m, x, order) \in After(World) /\ Led(SentHome(World, m, x, order))
      /\ Aware(SentHome(World, m, x, order))
  BY <1>2, SentHomeAfter DEF CreaturesIInv, Going
<1> QED
  BY <1>1, <1>3, LookedAfter

LEMMA DieGoes ==
    ASSUME CreaturesIInv, NEW c \in Creatures, NEW order \in Orders(c, {}), Die(c, order)
    PROVE  CreaturesIInv'
<1>1. check[c] /\ Looked(c, Died(World, c, order))
  BY DEF Die
<1>2. /\ World \in Sound /\ Led(World) /\ World.status[c] = "placed"
      /\ order \in Seq(Creatures) /\ SeenAll(World, order, c)
  BY <1>1, CheckedArePlaced, OrdersTyped, OrdersSee
<1>3. /\ Died(World, c, order) \in After(World) /\ Led(Died(World, c, order))
      /\ Aware(Died(World, c, order))
  BY <1>2, DiedAfter, MindsStays DEF CreaturesIInv, Going
<1> QED
  BY <1>1, <1>3, LookedAfter

LEMMA UnlistGoes == ASSUME CreaturesIInv, NEW c \in Creatures, Unlist(c) PROVE CreaturesIInv'
<1> DEFINE v == [World EXCEPT !.listed[c] = FALSE, !.releases[c] = @ + 1]
<1>1. ~World.check[c] /\ Looked(c, v)
  BY WorldIs DEF Unlist
<1>2. c \in round
  BY <1>1 DEF Looked
<1>3. Going(v, round \ {c})
  BY <1>1, <1>2, UnlistedGoing DEF CreaturesIInv
<1> HIDE DEF v
<1> QED
  BY <1>1, <1>3, LookedGoing DEF CreaturesIInv

\* Every step keeps the invariant.
LEMMA CreaturesNextHolds == CreaturesIInv /\ [CreaturesNext]_creaturesVars => CreaturesIInv'
<1> SUFFICES ASSUME CreaturesIInv, [CreaturesNext]_creaturesVars
             PROVE  CreaturesIInv'
  OBVIOUS
<1>1. CASE Cleanup
  BY <1>1, CleanupGoes
<1>2. ASSUME NEW bucket \in SUBSET Creatures, CheckCreatures(bucket)
      PROVE  CreaturesIInv'
  BY <1>2, CheckCreaturesGoes
<1>3. ASSUME NEW p \in Adventurers,
             \/ \E t \in Creatures \cup {Nobody}, chases \in BOOLEAN : SetTarget(p, t, chases)
             \/ ThinkPlayer(p)
      PROVE  CreaturesIInv'
  BY <1>3, SetTargetGoes, ThinkPlayerGoes
<1>4. ASSUME NEW m \in Monsters, NEW t \in Creatures \cup {Nobody}, Think(m, t)
      PROVE  CreaturesIInv'
  BY <1>4, ThinkGoes
<1>5. ASSUME NEW c \in Creatures, (\E dies \in BOOLEAN : Hit(c, dies)) \/ Unlist(c)
      PROVE  CreaturesIInv'
  BY <1>5, HitGoes, UnlistGoes
<1>6. ASSUME NEW c \in Creatures, NEW x \in Places, NEW order \in Orders(c, {x}),
             \/ PlaceCreature(c, x, order)
             \/ \E d \in Creatures : c \in Monsters /\ Summon(d, c, x, order)
             \/ \E far \in SUBSET summons[c] : MoveCreature(c, x, far, order)
             \/ c \in Monsters /\ Despawn(c, x, order)
      PROVE  CreaturesIInv'
  <2>1. CASE PlaceCreature(c, x, order)
    BY <2>1, PlaceCreatureGoes
  <2>2. CASE \E d \in Creatures : c \in Monsters /\ Summon(d, c, x, order)
    BY <2>2, SummonGoes
  <2>3. CASE \E far \in SUBSET summons[c] : MoveCreature(c, x, far, order)
    BY <2>3, MoveCreatureGoes
  <2>4. CASE c \in Monsters /\ Despawn(c, x, order)
    BY <2>4, DespawnGoes
  <2> QED
    BY <1>6, <2>1, <2>2, <2>3, <2>4
<1>7. ASSUME NEW c \in Creatures, NEW order \in Orders(c, {}),
             RemoveCreature(c, order) \/ Die(c, order)
      PROVE  CreaturesIInv'
  BY <1>7, RemoveCreatureGoes, DieGoes
<1>8. ASSUME NEW p \in Adventurers, NEW m \in Monsters, NEW order \in Orders(m, Places),
             Convince(p, m, order)
      PROVE  CreaturesIInv'
  BY <1>8, ConvinceGoes
<1>9. CASE UNCHANGED creaturesVars
  <2>1. World' = World /\ round' = round
    BY <1>9 DEF creaturesVars, World
  <2> QED
    BY <2>1 DEF CreaturesIInv
<1> QED
  BY <1>1, <1>2, <1>3, <1>4, <1>5, <1>6, <1>7, <1>8, <1>9 DEF CreaturesNext

LEMMA GoingUses == CreaturesIInv => UsesCounted
<1> SUFFICES ASSUME CreaturesIInv, NEW c \in Creatures
             PROVE  uses[c] = Holders(c) + releases[c]
  BY DEF UsesCounted
<1>1. uses[c] = B(status[c] = "placed") + B(listed[c]) + Refs(summons, c)
                + Refs(targets, c) + Refs(friends, c) + releases[c]
  BY WorldIs DEF CreaturesIInv, Going, Sound, Due
<1> QED
  BY <1>1 DEF Holders, B, Refs

LEMMA GoingDeath == CreaturesIInv => DeathNoticed
  BY WorldIs DEF CreaturesIInv, Going, Sound, Minded, DeathNoticed

LEMMA GoingPointers == CreaturesIInv => PointersLead
<1> SUFFICES ASSUME CreaturesIInv
             PROVE  PointersLead
  OBVIOUS
<1>1. World \in Sound /\ Aimed(World) /\ Agree(World)
  BY DEF CreaturesIInv, Going, Led, Sound
<1>2. \A c, s \in Creatures : master[s] = c <=> s \in summons[c]
  BY <1>1, WorldIs DEF Agree
<1>3. ASSUME NEW c \in Creatures, status[c] = "placed",
             NEW t \in {attacked[c], followed[c]} \ {Nobody}
      PROVE  status[t] = "placed" /\ Near(place[c], place[t])
  <2>1. t \in Creatures
    BY <1>1, WorldIs, Typed DEF Sound, Someone
  <2>2. World.status[c] = "placed" /\ Points(World, c, t)
    BY <1>3, WorldIs DEF Points
  <2> QED
    BY <1>1, <2>1, <2>2, WorldIs DEF Aimed, CanSee
<1> QED
  BY <1>2, <1>3 DEF PointersLead

LEMMA GoingOpponents == CreaturesIInv => OpponentsKnown
<1> SUFFICES ASSUME CreaturesIInv, NEW m \in Monsters, NEW c \in Creatures,
                    status[m] = "placed", alive[m], master[m] = Nobody,
                    status[c] = "placed", Near(place[m], place[c]),
                    IsOpponent(World, m, c), c \notin overlooked[m]
             PROVE  c \in targets[m] /\ check[m]
  BY DEF OpponentsKnown
<1>1. Faces(World, m, c)
  BY WorldIs, CreaturesConstants DEF Faces, CanSee, IsOpponent
<1>2. Knows(World, m, c)
  BY <1>1 DEF CreaturesIInv, Going, Aware, Minds
<1> QED
  BY <1>2, WorldIs DEF Knows

\* Every use of a creature is held by the map, a list of checks, a master, a
\* monster's lists or the list of things to release, whatever the callbacks do.
THEOREM UsesAreCounted == CreaturesSpec => []UsesCounted
  BY CreaturesInitHolds, CreaturesNextHolds, GoingUses, PTL DEF CreaturesSpec

\* Whoever has no health left on the map is listed and will be looked at.
THEOREM DeathIsNoticed == CreaturesSpec => []DeathNoticed
  BY CreaturesInitHolds, CreaturesNextHolds, GoingDeath, PTL DEF CreaturesSpec

\* Who is on the map attacks and follows only whom it sees there, and masters and
\* summons agree, although the code clears plain pointers only in the callbacks of
\* those who see a creature move, vanish or die: the callbacks reach all who point.
THEOREM PointersLeadOn == CreaturesSpec => []PointersLead
  BY CreaturesInitHolds, CreaturesNextHolds, GoingPointers, PTL DEF CreaturesSpec

\* A monster without a master knows every opponent that it sees and is let think,
\* whichever of the two came, moved, woke up, lost its master or was convinced, and
\* in whatever order those around were told: only those around when it was sent home
\* are overlooked, until it looks around again.
THEOREM OpponentsAreKnown == CreaturesSpec => []OpponentsKnown
  BY CreaturesInitHolds, CreaturesNextHolds, GoingOpponents, PTL DEF CreaturesSpec

----------------------------------------------------------------------------
(* Spawns.                                                                 *)

SpawnsTypeOK ==
    /\ started \in BOOLEAN /\ checkSpawnEvent \in BOOLEAN /\ deserted \in BOOLEAN
    /\ spawned \subseteq (Slots \cup {0}) \X Beasts /\ IsFiniteSet(spawned)
    /\ beast \in [Beasts -> {"none", "inside", "outside", "removed"}]

Living == {b \in Spawned : beast[b] # "removed"}

OneEntryEach == \A e, f \in spawned : e[2] = f[2] => e = f
OneInASlot == \A e, f \in spawned : e[1] = f[1] /\ e # f => e[1] = 0
TheirsExist == \A e \in spawned : beast[e[2]] # "none"
SpawnsLooksAgain ==
    started /\ Cardinality(Living) < Cardinality(Slots) => checkSpawnEvent \/ deserted

SpawnsIInv == SpawnsTypeOK /\ OneEntryEach /\ OneInASlot /\ TheirsExist /\ SpawnsLooksAgain

----------------------------------------------------------------------------
(* The entries of monsters that are placed, and those that a cleanup keeps. *)

LEMMA NewEntries ==
    ASSUME NEW S \in SUBSET Slots, NEW new \in Injection(S, Unborn)
    PROVE  /\ DOMAIN new = S /\ Range(new) \subseteq Unborn
           /\ Entries(new) \subseteq (Slots \cup {0}) \X Beasts
           /\ IsFiniteSet(Entries(new)) /\ Cardinality(Entries(new)) = Cardinality(S)
           /\ \A e \in Entries(new) : e[1] \in S /\ e[2] \in Range(new)
           /\ \A e, f \in Entries(new) : e[1] = f[1] \/ e[2] = f[2] => e = f
<1>1. /\ new \in [S -> Unborn] /\ DOMAIN new = S
      /\ \A s, t \in S : new[s] = new[t] => s = t
  BY DEF Injection, IsInjective
<1>2. Range(new) \subseteq Unborn /\ \A s \in S : new[s] \in Range(new)
  BY <1>1 DEF Range
<1>3. \A e \in Entries(new) : \E s \in S : e = <<s, new[s]>>
  BY <1>1 DEF Entries
<1>4. \A e \in Entries(new) : e[1] \in S /\ e[2] = new[e[1]] /\ e = <<e[1], e[2]>>
  BY <1>3
<1>5. \A e, f \in Entries(new) : e[1] = f[1] \/ e[2] = f[2] => e = f
  BY <1>1, <1>4
<1>6. Entries(new) \subseteq (Slots \cup {0}) \X Beasts
  BY <1>1, <1>3 DEF Unborn
<1>7. IsFiniteSet(Entries(new)) /\ Cardinality(Entries(new)) = Cardinality(S)
  <2> DEFINE pair == [s \in S |-> <<s, new[s]>>]
  <2>1. pair \in [S -> Entries(new)]
    BY <1>1 DEF Entries
  <2>2. \A s, t \in S : pair[s] = pair[t] => s = t
    OBVIOUS
  <2>3. \A e \in Entries(new) : \E s \in S : pair[s] = e
    BY <1>3
  <2>4. pair \in Bijection(S, Entries(new))
    <3> HIDE DEF pair
    <3> QED
      BY <2>1, <2>2, <2>3 DEF Bijection, Injection, IsInjective, Surjection
  <2>5. IsFiniteSet(S)
    BY SpawnsConstants, FS_Subset
  <2> HIDE DEF pair
  <2> QED
    BY <2>4, <2>5, FS_Bijection DEF ExistsBijection
<1> QED
  BY <1>1, <1>2, <1>4, <1>5, <1>6, <1>7

LEMMA CleanedUpEntries ==
    ASSUME SpawnsTypeOK, OneEntryEach, OneInASlot
    PROVE  /\ CleanedUp \subseteq (Slots \cup {0}) \X Beasts /\ IsFiniteSet(CleanedUp)
           /\ \A e \in CleanedUp : e[2] \in Spawned /\ beast[e[2]] # "removed"
           /\ \A e, f \in CleanedUp : e[2] = f[2] => e = f
           /\ \A e, f \in CleanedUp : e[1] = f[1] /\ e # f => e[1] = 0
<1> DEFINE kept == {e \in spawned : beast[e[2]] # "removed"}
           to == [e \in kept |-> <<IF beast[e[2]] = "outside" THEN 0 ELSE e[1], e[2]>>]
<1>1. kept \subseteq (Slots \cup {0}) \X Beasts
  BY DEF SpawnsTypeOK
<1>2. \A e \in CleanedUp : \E d \in kept : e = to[d]
  BY DEF CleanedUp
<1>3. \A d \in kept : to[d] \in CleanedUp
  BY DEF CleanedUp
<1>4. \A d \in kept : /\ to[d] \in (Slots \cup {0}) \X Beasts
                      /\ to[d][2] = d[2] /\ (to[d][1] = 0 \/ to[d][1] = d[1])
  BY <1>1
<1>5. \A d \in kept : d \in spawned /\ d[2] \in Spawned /\ beast[d[2]] # "removed"
  BY DEF Spawned
<1>6. IsFiniteSet(CleanedUp)
  <2>1. IsFiniteSet(kept)
    BY FS_Subset DEF SpawnsTypeOK
  <2>2. to \in Surjection(kept, CleanedUp)
    <3>1. to \in [kept -> CleanedUp]
      BY <1>3
    <3> HIDE DEF to, kept
    <3> QED
      BY <1>2, <3>1 DEF Surjection
  <2> HIDE DEF to, kept
  <2> QED
    BY <2>1, <2>2, FS_Surjection
<1> HIDE DEF to, kept
<1>7. \A e, f \in CleanedUp : e[2] = f[2] => e = f
  BY <1>2, <1>4, <1>5 DEF OneEntryEach
<1>8. \A e, f \in CleanedUp : e[1] = f[1] /\ e # f => e[1] = 0
  BY <1>2, <1>4, <1>5 DEF OneInASlot
<1> QED
  BY <1>2, <1>4, <1>5, <1>6, <1>7, <1>8

\* As many monsters as entries.
LEMMA SpawnedCount ==
    ASSUME NEW entries, NEW monsters, IsFiniteSet(entries),
           \A e, f \in entries : e[2] = f[2] => e = f,
           monsters = {e[2] : e \in entries}
    PROVE  Cardinality(monsters) = Cardinality(entries)
<1> DEFINE of == [e \in entries |-> e[2]]
<1>1. of \in [entries -> monsters]
  OBVIOUS
<1>2. \A e, f \in entries : of[e] = of[f] => e = f
  OBVIOUS
<1>3. \A b \in monsters : \E e \in entries : of[e] = b
  OBVIOUS
<1>4. of \in Bijection(entries, monsters)
  <2> HIDE DEF of
  <2> QED
    BY <1>1, <1>2, <1>3 DEF Bijection, Injection, IsInjective, Surjection
<1> HIDE DEF of
<1> QED
  BY <1>4, FS_Bijection DEF ExistsBijection

----------------------------------------------------------------------------
(* The operations.                                                         *)

LEMMA StartupKeeps ==
    ASSUME SpawnsIInv, NEW S \in SUBSET Slots, NEW new \in Injection(S, Unborn), SpawnsStartup(new)
    PROVE  SpawnsIInv'
<1>1. /\ started' = TRUE /\ spawned' = Entries(new) /\ beast' = Born(new)
      /\ deserted' = (DOMAIN new # Slots) /\ checkSpawnEvent' = checkSpawnEvent
  BY DEF SpawnsStartup
<1>2. /\ DOMAIN new = S /\ Range(new) \subseteq Unborn
      /\ Entries(new) \subseteq (Slots \cup {0}) \X Beasts
      /\ IsFiniteSet(Entries(new)) /\ Cardinality(Entries(new)) = Cardinality(S)
      /\ \A e \in Entries(new) : e[1] \in S /\ e[2] \in Range(new)
      /\ \A e, f \in Entries(new) : e[1] = f[1] \/ e[2] = f[2] => e = f
  BY NewEntries
<1>3. SpawnsTypeOK'
  BY <1>1, <1>2 DEF SpawnsIInv, SpawnsTypeOK, Born
<1>4. \A e \in spawned' : beast'[e[2]] = "inside"
  BY <1>1, <1>2 DEF Born, Unborn
<1>5. SpawnsLooksAgain'
  <2>1. CASE S = Slots
    <3>1. Living' = Spawned'
      BY <1>4 DEF Living, Spawned
    <3>2. Spawned' = {e[2] : e \in spawned'}
      BY DEF Spawned
    <3>3. \A e, f \in spawned' : e[2] = f[2] => e = f
      BY <1>1, <1>2
    <3>4. Cardinality(Spawned') = Cardinality(spawned')
      BY <1>1, <1>2, <3>2, <3>3, SpawnedCount
    <3>5. Cardinality(Slots) \in Nat
      BY SpawnsConstants, FS_CardinalityType
    <3> QED
      BY <1>1, <1>2, <2>1, <3>1, <3>4, <3>5 DEF SpawnsLooksAgain
  <2>2. CASE S # Slots
    BY <1>1, <1>2, <2>2 DEF SpawnsLooksAgain
  <2> QED
    BY <2>1, <2>2
<1> QED
  BY <1>1, <1>2, <1>3, <1>4, <1>5 DEF SpawnsIInv, OneEntryEach, OneInASlot, TheirsExist

LEMMA CheckKeeps ==
    ASSUME SpawnsIInv, NEW S \in SUBSET Slots, NEW new \in Injection(S, Unborn),
           NEW near \in SUBSET Slots, NEW tried \in SUBSET Slots, CheckSpawn(near, tried, new)
    PROVE  SpawnsIInv'
<1>1. /\ spawned' = CleanedUp \cup Entries(new)
      /\ beast' = [b \in Beasts |->
                      IF b \in Spawned /\ beast[b] = "removed" THEN "none" ELSE Born(new)[b]]
      /\ checkSpawnEvent' = GoesOn(spawned') /\ deserted' = FALSE /\ started' = started
      /\ \A s \in DOMAIN new : \A entry \in CleanedUp : entry[1] # s
  BY DEF CheckSpawn
<1>2. /\ DOMAIN new = S /\ Range(new) \subseteq Unborn
      /\ Entries(new) \subseteq (Slots \cup {0}) \X Beasts
      /\ IsFiniteSet(Entries(new)) /\ Cardinality(Entries(new)) = Cardinality(S)
      /\ \A e \in Entries(new) : e[1] \in S /\ e[2] \in Range(new)
      /\ \A e, f \in Entries(new) : e[1] = f[1] \/ e[2] = f[2] => e = f
  BY NewEntries
<1>3. /\ CleanedUp \subseteq (Slots \cup {0}) \X Beasts /\ IsFiniteSet(CleanedUp)
      /\ \A e \in CleanedUp : e[2] \in Spawned /\ beast[e[2]] # "removed"
      /\ \A e, f \in CleanedUp : e[2] = f[2] => e = f
      /\ \A e, f \in CleanedUp : e[1] = f[1] /\ e # f => e[1] = 0
  BY CleanedUpEntries DEF SpawnsIInv
<1>4. Spawned \cap Unborn = {} /\ Spawned \subseteq Beasts
  BY DEF SpawnsIInv, SpawnsTypeOK, TheirsExist, Spawned, Unborn
<1>5. \A e \in spawned' : /\ e \in CleanedUp \/ e \in Entries(new)
                          /\ e[2] \in Beasts
  BY <1>1, <1>2, <1>3
<1>6. \A b \in Beasts : Born(new)[b] = IF b \in Range(new) THEN "inside" ELSE beast[b]
  BY DEF Born
<1>7. ASSUME NEW e \in spawned'
      PROVE  beast'[e[2]] \notin {"none", "removed"}
  <2>1. CASE e \in CleanedUp
    <3>1. e[2] \in Spawned /\ beast[e[2]] # "removed" /\ e[2] \in Beasts
      BY <1>3, <1>5, <2>1
    <3>2. beast[e[2]] # "none"
      BY <3>1 DEF SpawnsIInv, TheirsExist, Spawned
    <3> QED
      BY <1>1, <1>6, <3>1, <3>2
  <2>2. CASE e \in Entries(new)
    <3>1. e[2] \in Range(new) /\ e[2] \notin Spawned /\ e[2] \in Beasts
      BY <1>2, <1>4, <1>5, <2>2
    <3> QED
      BY <1>1, <1>6, <3>1
  <2> QED
    BY <1>5, <2>1, <2>2
<1>8. OneEntryEach'
  <2>1. \A e \in CleanedUp, f \in Entries(new) : e[2] # f[2]
    BY <1>2, <1>3, <1>4
  <2> QED
    BY <1>1, <1>2, <1>3, <2>1 DEF OneEntryEach
<1>9. OneInASlot'
  <2>1. \A e \in CleanedUp, f \in Entries(new) : e[1] # f[1]
    BY <1>1, <1>2
  <2> QED
    BY <1>1, <1>2, <1>3, <2>1 DEF OneInASlot
<1>10. SpawnsTypeOK'
  <2>1. IsFiniteSet(spawned')
    BY <1>1, <1>2, <1>3, FS_Union
  <2>2. spawned' \subseteq (Slots \cup {0}) \X Beasts
    BY <1>1, <1>2, <1>3
  <2>3. beast' \in [Beasts -> {"none", "inside", "outside", "removed"}]
    BY <1>1, <1>6 DEF SpawnsIInv, SpawnsTypeOK
  <2>4. checkSpawnEvent' \in BOOLEAN
    BY <1>1 DEF GoesOn
  <2> QED
    BY <1>1, <2>1, <2>2, <2>3, <2>4 DEF SpawnsIInv, SpawnsTypeOK
<1>11. SpawnsLooksAgain'
  <2>1. Living' = Spawned'
    BY <1>7 DEF Living, Spawned
  <2>2. Spawned' = {e[2] : e \in spawned'}
    BY DEF Spawned
  <2>3. Cardinality(Spawned') = Cardinality(spawned')
    BY <1>8, <1>10, <2>2, SpawnedCount DEF OneEntryEach, SpawnsTypeOK
  <2> QED
    BY <1>1, <2>1, <2>3 DEF SpawnsLooksAgain, GoesOn
<1> QED
  BY <1>7, <1>8, <1>9, <1>10, <1>11 DEF SpawnsIInv, TheirsExist

LEMMA WanderKeeps ==
    ASSUME SpawnsIInv, NEW b \in Beasts, Wander(b)
    PROVE  SpawnsIInv'
<1>1. /\ beast[b] \in {"inside", "outside"}
      /\ beast' = [beast EXCEPT ![b] = IF @ = "inside" THEN "outside" ELSE "inside"]
      /\ UNCHANGED <<started, spawned, checkSpawnEvent, deserted>>
  BY DEF Wander
<1>2. beast \in [Beasts -> {"none", "inside", "outside", "removed"}]
  BY DEF SpawnsIInv, SpawnsTypeOK
<1>3. /\ beast' \in [Beasts -> {"none", "inside", "outside", "removed"}]
      /\ \A c \in Beasts : /\ beast'[c] = "removed" <=> beast[c] = "removed"
                           /\ beast'[c] = "none" <=> beast[c] = "none"
  BY <1>1, <1>2
<1>4. Spawned' = Spawned /\ Spawned \subseteq Beasts
  BY <1>1 DEF SpawnsIInv, SpawnsTypeOK, Spawned
<1>5. Living' = Living
  BY <1>3, <1>4 DEF Living
<1>6. SpawnsTypeOK'
  BY <1>1, <1>3 DEF SpawnsIInv, SpawnsTypeOK
<1>7. OneEntryEach' /\ OneInASlot'
  BY <1>1 DEF SpawnsIInv, OneEntryEach, OneInASlot
<1>8. TheirsExist'
  BY <1>1, <1>3 DEF SpawnsIInv, SpawnsTypeOK, TheirsExist
<1>9. SpawnsLooksAgain'
  BY <1>1, <1>5 DEF SpawnsIInv, SpawnsLooksAgain
<1> QED
  BY <1>6, <1>7, <1>8, <1>9 DEF SpawnsIInv

LEMMA DisappearsKeeps ==
    ASSUME SpawnsIInv, NEW b \in Beasts, BeastDisappears(b)
    PROVE  SpawnsIInv'
<1>1. /\ beast' = [beast EXCEPT ![b] = "removed"] /\ checkSpawnEvent' = TRUE
      /\ UNCHANGED <<started, spawned, deserted>>
  BY DEF BeastDisappears
<1>2. beast \in [Beasts -> {"none", "inside", "outside", "removed"}]
  BY DEF SpawnsIInv, SpawnsTypeOK
<1>3. /\ beast' \in [Beasts -> {"none", "inside", "outside", "removed"}]
      /\ \A c \in Beasts : beast[c] # "none" => beast'[c] # "none"
  BY <1>1, <1>2
<1>4. SpawnsTypeOK'
  BY <1>1, <1>3 DEF SpawnsIInv, SpawnsTypeOK
<1>5. OneEntryEach' /\ OneInASlot'
  BY <1>1 DEF SpawnsIInv, OneEntryEach, OneInASlot
<1>6. TheirsExist'
  BY <1>1, <1>3 DEF SpawnsIInv, SpawnsTypeOK, TheirsExist
<1> QED
  BY <1>1, <1>4, <1>5, <1>6 DEF SpawnsIInv, SpawnsLooksAgain

LEMMA ConvincedKeeps ==
    ASSUME SpawnsIInv, NEW b \in Beasts, BeastConvinced(b)
    PROVE  SpawnsIInv'
<1>1. /\ beast' = [beast EXCEPT ![b] = "none"] /\ deserted' = TRUE
      /\ spawned' = {entry \in spawned : entry[2] # b}
      /\ UNCHANGED <<started, checkSpawnEvent>>
  BY DEF BeastConvinced
<1>2. beast \in [Beasts -> {"none", "inside", "outside", "removed"}]
  BY DEF SpawnsIInv, SpawnsTypeOK
<1>3. /\ beast' \in [Beasts -> {"none", "inside", "outside", "removed"}]
      /\ \A c \in Beasts \ {b} : beast'[c] = beast[c]
  BY <1>1, <1>2
<1>4. IsFiniteSet(spawned') /\ spawned' \subseteq spawned
  BY <1>1, FS_Subset DEF SpawnsIInv, SpawnsTypeOK
<1>5. SpawnsTypeOK'
  BY <1>1, <1>3, <1>4 DEF SpawnsIInv, SpawnsTypeOK
<1>6. OneEntryEach' /\ OneInASlot'
  BY <1>4 DEF SpawnsIInv, OneEntryEach, OneInASlot
<1>7. TheirsExist'
  BY <1>1, <1>3 DEF SpawnsIInv, SpawnsTypeOK, TheirsExist
<1> QED
  BY <1>1, <1>5, <1>6, <1>7 DEF SpawnsIInv, SpawnsLooksAgain

LEMMA Inductive == SpawnsIInv /\ [SpawnsNext]_spawnsVars => SpawnsIInv'
<1> SUFFICES ASSUME SpawnsIInv, [SpawnsNext]_spawnsVars PROVE SpawnsIInv'
  OBVIOUS
<1>1. ASSUME NEW S \in SUBSET Slots, NEW new \in Injection(S, Unborn), SpawnsStartup(new)
      PROVE  SpawnsIInv'
  BY <1>1, StartupKeeps
<1>2. ASSUME NEW S \in SUBSET Slots, NEW new \in Injection(S, Unborn),
             NEW near \in SUBSET Slots, NEW tried \in SUBSET Slots, CheckSpawn(near, tried, new)
      PROVE  SpawnsIInv'
  BY <1>2, CheckKeeps
<1>3. ASSUME NEW b \in Beasts, Wander(b) \/ BeastDisappears(b) \/ BeastConvinced(b)
      PROVE  SpawnsIInv'
  BY <1>3, WanderKeeps, DisappearsKeeps, ConvincedKeeps
<1>4. ASSUME UNCHANGED <<started, spawned, beast, checkSpawnEvent, deserted>>
      PROVE  SpawnsIInv'
  BY <1>4 DEF SpawnsIInv, SpawnsTypeOK, OneEntryEach, OneInASlot, TheirsExist,
                  SpawnsLooksAgain, Living, Spawned
<1>5. ASSUME NEW s \in Slots, IntervalPasses(s)
      PROVE  SpawnsIInv'
  BY <1>4, <1>5 DEF IntervalPasses
<1>6. CASE UNCHANGED spawnsVars
  BY <1>4, <1>6 DEF spawnsVars
<1> QED
  BY <1>1, <1>2, <1>3, <1>5, <1>6 DEF SpawnsNext

LEMMA Initially == SpawnsInit => SpawnsIInv
<1> SUFFICES ASSUME SpawnsInit PROVE SpawnsIInv
  OBVIOUS
<1>1. SpawnsTypeOK
  BY FS_EmptySet DEF SpawnsInit, SpawnsTypeOK
<1> QED
  BY <1>1 DEF SpawnsInit, SpawnsIInv, OneEntryEach, OneInASlot, TheirsExist, SpawnsLooksAgain

\* However many slots a spawn has and whatever becomes of its monsters, as long as
\* fewer of them live than it has slots its check is scheduled, unless it lost one
\* by persuasion or could not place it at the start since its last check.
THEOREM SpawnsLookAgain == SpawnsSpec => []SpawnLooksAgain
<1>1. SpawnsIInv => SpawnLooksAgain
  BY DEF SpawnsIInv, SpawnLooksAgain, SpawnsLooksAgain, OneInASlot, Living
<1> QED
  BY Initially, Inductive, <1>1, PTL DEF SpawnsSpec
=============================================================================
