-------------------------- MODULE ConnectionProofs --------------------------
(***************************************************************************)
(* The theorems of Connection: what is counted is what is there, no object *)
(* is used after its deletion, and the game's writes keep their order. The *)
(* counts are of elements of the two queues, so the first part says how    *)
(* Append and Tail change them.                                            *)
(***************************************************************************)
EXTENDS Connection, SequenceTheorems, FiniteSetTheorems, TLAPS

-----------------------------------------------------------------------------
(* Sequences: the elements, their counts and their positions.              *)

LEMMA ToSetIndices ==
    ASSUME NEW T, NEW s \in Seq(T)
    PROVE  /\ ToSet(s) = {s[i] : i \in 1 .. Len(s)}
           /\ ToSet(s) \subseteq T
           /\ DOMAIN s = 1 .. Len(s) /\ Len(s) \in Nat
BY DEF ToSet

LEMMA CountType ==
    ASSUME NEW T, NEW s \in Seq(T), NEW S
    PROVE  CountIn(s, S) \in Nat /\ IsFiniteSet({i \in DOMAIN s : s[i] \in S})
<1>1. IsFiniteSet(1 .. Len(s))
  BY FS_Interval
<1>2. {i \in DOMAIN s : s[i] \in S} \subseteq 1 .. Len(s)
  OBVIOUS
<1>3. IsFiniteSet({i \in DOMAIN s : s[i] \in S})
  BY <1>1, <1>2, FS_Subset
<1> QED
  BY <1>3, FS_CardinalityType DEF CountIn

LEMMA CountPositive ==
    ASSUME NEW T, NEW s \in Seq(T), NEW S
    PROVE  CountIn(s, S) > 0 <=> \E i \in DOMAIN s : s[i] \in S
<1> DEFINE I == {i \in DOMAIN s : s[i] \in S}
<1>1. IsFiniteSet(I)
  BY CountType
<1>2. Cardinality(I) = 0 <=> I = {}
  BY <1>1, FS_EmptySet
<1>3. Cardinality(I) \in Nat
  BY <1>1, FS_CardinalityType
<1> QED
  BY <1>2, <1>3 DEF CountIn

LEMMA AppendFacts ==
    ASSUME NEW T, NEW s \in Seq(T), NEW e \in T
    PROVE  /\ Append(s, e) \in Seq(T)
           /\ Len(Append(s, e)) = Len(s) + 1
           /\ \A i \in 1 .. Len(s) : Append(s, e)[i] = s[i]
           /\ Append(s, e)[Len(s) + 1] = e
           /\ ToSet(Append(s, e)) = ToSet(s) \cup {e}
<1>1. /\ Append(s, e) \in Seq(T)
      /\ Len(Append(s, e)) = Len(s) + 1
      /\ \A i \in 1 .. Len(s) : Append(s, e)[i] = s[i]
      /\ Append(s, e)[Len(s) + 1] = e
  BY AppendProperties
<1>2. /\ ToSet(s) = {s[i] : i \in 1 .. Len(s)}
      /\ ToSet(Append(s, e)) = {Append(s, e)[i] : i \in 1 .. Len(s) + 1}
      /\ Len(s) \in Nat
  BY <1>1, ToSetIndices
<1>3. \A i \in 1 .. Len(s) + 1 : i \in 1 .. Len(s) \/ i = Len(s) + 1
  BY <1>2
<1>4. \A i \in 1 .. Len(s) : i \in 1 .. Len(s) + 1
  BY <1>2
<1>5. Len(s) + 1 \in 1 .. Len(s) + 1
  BY <1>2
<1> QED
  BY <1>1, <1>2, <1>3, <1>4, <1>5

LEMMA AppendCount ==
    ASSUME NEW T, NEW s \in Seq(T), NEW e \in T, NEW S
    PROVE  CountIn(Append(s, e), S) = CountIn(s, S) + (IF e \in S THEN 1 ELSE 0)
<1> DEFINE n == Len(s)
           I == {i \in DOMAIN s : s[i] \in S}
           J == {i \in DOMAIN Append(s, e) : Append(s, e)[i] \in S}
<1>1. /\ Append(s, e) \in Seq(T) /\ Len(Append(s, e)) = n + 1
      /\ \A i \in 1 .. n : Append(s, e)[i] = s[i]
      /\ Append(s, e)[n + 1] = e
      /\ n \in Nat
  BY AppendFacts
<1>2. DOMAIN s = 1 .. n /\ DOMAIN Append(s, e) = 1 .. n + 1
  BY <1>1
<1> HIDE DEF n
<1>3. J = IF e \in S THEN I \cup {n + 1} ELSE I
  BY <1>1, <1>2
<1>4. n + 1 \notin I
  BY <1>1, <1>2
<1>5. IsFiniteSet(I) /\ Cardinality(I) \in Nat
  BY CountType DEF CountIn
<1> HIDE DEF I, J
<1>6. Cardinality(I \cup {n + 1}) = Cardinality(I) + 1
  BY <1>4, <1>5, FS_AddElement
<1>7. Cardinality(J) = Cardinality(I) + (IF e \in S THEN 1 ELSE 0)
  BY <1>3, <1>5, <1>6
<1> QED
  BY <1>7 DEF CountIn, I, J

LEMMA TailFacts ==
    ASSUME NEW T, NEW s \in Seq(T), s # <<>>
    PROVE  /\ Head(s) \in T /\ Head(s) = s[1] /\ Tail(s) \in Seq(T)
           /\ Len(s) \in Nat /\ Len(s) >= 1 /\ Len(Tail(s)) = Len(s) - 1
           /\ \A i \in 1 .. Len(Tail(s)) : Tail(s)[i] = s[i + 1]
           /\ ToSet(s) = ToSet(Tail(s)) \cup {Head(s)}
           /\ IsDistinct(s) => IsDistinct(Tail(s)) /\ Head(s) \notin ToSet(Tail(s))
<1> DEFINE n == Len(s)
           t == Tail(s)
<1>1. /\ Head(s) \in T /\ t \in Seq(T) /\ Len(t) = n - 1
      /\ \A i \in 1 .. n - 1 : t[i] = s[i + 1]
  BY HeadTailProperties
<1>2. Head(s) = s[1] /\ n \in Nat /\ n >= 1
  BY EmptySeq
<1>3. /\ ToSet(s) = {s[i] : i \in 1 .. n} /\ DOMAIN s = 1 .. n
      /\ ToSet(t) = {t[i] : i \in 1 .. n - 1} /\ DOMAIN t = 1 .. n - 1
  BY <1>1, ToSetIndices
<1> HIDE DEF n, t
<1>4. \A i \in 1 .. n : i # 1 => i - 1 \in 1 .. n - 1 /\ t[i - 1] = s[i]
  <2> SUFFICES ASSUME NEW i \in 1 .. n, i # 1
               PROVE  i - 1 \in 1 .. n - 1 /\ t[i - 1] = s[i]
    OBVIOUS
  <2>1. i - 1 \in 1 .. n - 1 /\ (i - 1) + 1 = i
    BY <1>2
  <2> QED
    BY <1>1, <2>1
<1>5. \A i \in 1 .. n - 1 : i + 1 \in 1 .. n /\ i + 1 # 1
  BY <1>2
<1>6. ToSet(s) = ToSet(t) \cup {Head(s)}
  <2>1. \A x \in ToSet(s) : x \in ToSet(t) \cup {Head(s)}
    BY <1>2, <1>3, <1>4
  <2>2. \A x \in ToSet(t) : x \in ToSet(s)
    BY <1>1, <1>3, <1>5
  <2>3. 1 \in 1 .. n
    BY <1>2
  <2>4. Head(s) \in ToSet(s)
    BY <1>2, <1>3, <2>3
  <2> QED
    BY <2>1, <2>2, <2>4
<1>7. ASSUME IsDistinct(s)
      PROVE  IsDistinct(t) /\ Head(s) \notin ToSet(t)
  <2>1. \A i, j \in 1 .. n - 1 : i + 1 = j + 1 => i = j
    BY <1>2
  <2>2. 1 \in 1 .. n
    BY <1>2
  <2>3. \A i, j \in 1 .. n : s[i] = s[j] => i = j
    BY <1>3, <1>7 DEF IsDistinct
  <2>4. \A i \in 1 .. n - 1 : t[i] # s[1]
    BY <1>1, <1>5, <2>2, <2>3
  <2>5. \A i, j \in 1 .. n - 1 : t[i] = t[j] => i = j
    BY <1>1, <1>5, <2>1, <2>3
  <2> QED
    BY <1>2, <1>3, <2>4, <2>5 DEF IsDistinct
<1> QED
  BY <1>1, <1>2, <1>6, <1>7 DEF n, t

LEMMA TailCount ==
    ASSUME NEW T, NEW s \in Seq(T), s # <<>>, NEW S
    PROVE  CountIn(Tail(s), S) = CountIn(s, S) - (IF Head(s) \in S THEN 1 ELSE 0)
<1> DEFINE n == Len(s)
           I == {i \in DOMAIN s : s[i] \in S}
           J == {i \in DOMAIN Tail(s) : Tail(s)[i] \in S}
           K == I \ {1}
           up == [i \in J |-> i + 1]
<1>1. /\ Head(s) = s[1] /\ Tail(s) \in Seq(T) /\ Len(Tail(s)) = n - 1
      /\ \A i \in 1 .. n - 1 : Tail(s)[i] = s[i + 1]
      /\ n \in Nat /\ n >= 1
  BY TailFacts
<1>2. DOMAIN s = 1 .. n /\ DOMAIN Tail(s) = 1 .. n - 1
  BY <1>1
<1> HIDE DEF n
<1>3. up \in [J -> K]
  BY <1>1, <1>2
<1>4. \A i, j \in J : up[i] = up[j] => i = j
  BY <1>2
<1>5. \A k \in K : \E i \in J : up[i] = k
  <2> SUFFICES ASSUME NEW k \in K PROVE \E i \in J : up[i] = k
    OBVIOUS
  <2>1. k - 1 \in J /\ up[k - 1] = k
    BY <1>1, <1>2
  <2> QED
    BY <2>1
<1>6. ExistsBijection(J, K)
  BY <1>3, <1>4, <1>5 DEF ExistsBijection, Bijection, Injection, Surjection, IsInjective
<1>7. IsFiniteSet(I) /\ IsFiniteSet(J) /\ Cardinality(I) \in Nat /\ Cardinality(J) \in Nat
  BY <1>1, CountType DEF CountIn
<1>8. 1 \in I <=> Head(s) \in S
  BY <1>1, <1>2
<1> HIDE DEF I, J, up
<1>9. Cardinality(K) = Cardinality(J)
  <2>1. IsFiniteSet(J)
    BY <1>7
  <2> QED
    BY <1>6, <2>1, FS_Bijection
<1>10. Cardinality(J) = Cardinality(I) - (IF Head(s) \in S THEN 1 ELSE 0)
  <2>1. CASE Head(s) \in S
    <3>1. Cardinality(K) = Cardinality(I) - 1
      BY <1>7, <1>8, <2>1, FS_RemoveElement
    <3> QED
      BY <1>9, <2>1, <3>1
  <2>2. CASE Head(s) \notin S
    <3>1. K = I
      BY <1>8, <2>2
    <3> HIDE DEF K
    <3> QED
      BY <1>7, <1>9, <2>2, <3>1
  <2> QED
    BY <2>1, <2>2
<1>11. CountIn(Tail(s), S) = Cardinality(J) /\ CountIn(s, S) = Cardinality(I)
  BY DEF CountIn, I, J
<1> QED
  BY <1>10, <1>11

\* RemoveAt of SequencesExt.
LEMMA RemoveFacts ==
    ASSUME NEW T, NEW s \in Seq(T), NEW k \in 1 .. Len(s)
    PROVE  /\ RemoveAt(s, k) \in Seq(T)
           /\ Len(RemoveAt(s, k)) = Len(s) - 1
           /\ \A i \in 1 .. Len(s) - 1 : RemoveAt(s, k)[i] = IF i < k THEN s[i] ELSE s[i + 1]
           /\ ToSet(s) = ToSet(RemoveAt(s, k)) \cup {s[k]}
           /\ IsDistinct(s) => IsDistinct(RemoveAt(s, k)) /\ s[k] \notin ToSet(RemoveAt(s, k))
<1> DEFINE n == Len(s)
           left == SubSeq(s, 1, k - 1)
           right == SubSeq(s, k + 1, n)
           r == RemoveAt(s, k)
<1>1. n \in Nat /\ DOMAIN s = 1 .. n /\ k \in 1 .. n /\ \A i \in 1 .. n : s[i] \in T
  BY ElementOfSeq
<1>2. /\ left \in Seq(T) /\ Len(left) = k - 1
      /\ \A i \in 1 .. k - 1 : left[i] = s[i]
  <2>1. \A i \in 1 .. k - 1 : s[i] \in T
    BY <1>1
  <2>2. /\ left \in Seq(T) /\ Len(left) = IF 1 <= k - 1 THEN k - 1 - 1 + 1 ELSE 0
        /\ \A i \in 1 .. k - 1 - 1 + 1 : left[i] = s[1 + i - 1]
    BY <1>1, <2>1, SubSeqProperties
  <2> HIDE DEF left
  <2> QED
    BY <1>1, <2>2
<1>3. /\ right \in Seq(T) /\ Len(right) = n - k
      /\ \A i \in 1 .. n - k : right[i] = s[k + i]
  <2>1. \A i \in k + 1 .. n : s[i] \in T
    BY <1>1
  <2>2. /\ right \in Seq(T) /\ Len(right) = IF k + 1 <= n THEN n - (k + 1) + 1 ELSE 0
        /\ \A i \in 1 .. n - (k + 1) + 1 : right[i] = s[(k + 1) + i - 1]
    BY <1>1, <2>1, SubSeqProperties
  <2> HIDE DEF right, n
  <2>3. \A i \in 1 .. n - k : (k + 1) + i - 1 = k + i
    BY <1>1
  <2> QED
    BY <1>1, <2>2, <2>3
<1>4. r = left \o right
  BY DEF RemoveAt
<1> HIDE DEF left, right, r, n
<1>5. /\ r \in Seq(T) /\ Len(r) = n - 1
      /\ \A i \in 1 .. n - 1 : r[i] = IF i <= k - 1 THEN left[i] ELSE right[i - (k - 1)]
  <2>1. /\ r \in Seq(T) /\ Len(r) = (k - 1) + (n - k)
        /\ \A i \in 1 .. (k - 1) + (n - k) : r[i] = IF i <= k - 1 THEN left[i] ELSE right[i - (k - 1)]
    <3>1. /\ r \in Seq(T) /\ Len(r) = Len(left) + Len(right)
          /\ \A i \in 1 .. Len(left) + Len(right) :
                r[i] = IF i <= Len(left) THEN left[i] ELSE right[i - Len(left)]
      BY <1>2, <1>3, <1>4, ConcatProperties
    <3> QED
      BY <1>2, <1>3, <3>1
  <2>2. (k - 1) + (n - k) = n - 1
    BY <1>1
  <2> QED
    BY <2>1, <2>2
<1>6. \A i \in 1 .. n - 1 : r[i] = IF i < k THEN s[i] ELSE s[i + 1]
  <2> SUFFICES ASSUME NEW i \in 1 .. n - 1
               PROVE  r[i] = IF i < k THEN s[i] ELSE s[i + 1]
    OBVIOUS
  <2>1. CASE i < k
    BY <1>1, <1>2, <1>5, <2>1
  <2>2. CASE ~(i < k)
    <3>1. i - (k - 1) \in 1 .. n - k /\ k + (i - (k - 1)) = i + 1
      BY <1>1, <2>2
    <3> QED
      BY <1>1, <1>3, <1>5, <2>2, <3>1
  <2> QED
    BY <2>1, <2>2
<1>7. /\ ToSet(r) = {r[i] : i \in 1 .. n - 1} /\ DOMAIN r = 1 .. n - 1
      /\ ToSet(s) = {s[i] : i \in 1 .. n}
  BY <1>1, <1>5, ToSetIndices DEF n
<1>8. \A i \in 1 .. n - 1 : \E j \in 1 .. n : j # k /\ j = (IF i < k THEN i ELSE i + 1) /\ r[i] = s[j]
  BY <1>1, <1>6
<1>9. \A j \in 1 .. n : j # k => \E i \in 1 .. n - 1 : r[i] = s[j]
  <2> SUFFICES ASSUME NEW j \in 1 .. n, j # k PROVE \E i \in 1 .. n - 1 : r[i] = s[j]
    OBVIOUS
  <2>1. CASE j < k
    BY <1>1, <1>6, <2>1
  <2>2. CASE ~(j < k)
    <3>1. j - 1 \in 1 .. n - 1 /\ ~(j - 1 < k) /\ (j - 1) + 1 = j
      BY <1>1, <2>2
    <3> QED
      BY <1>6, <3>1
  <2> QED
    BY <2>1, <2>2
<1>10. ToSet(s) = ToSet(r) \cup {s[k]}
  BY <1>1, <1>7, <1>8, <1>9
<1>11. ASSUME IsDistinct(s)
       PROVE  IsDistinct(r) /\ s[k] \notin ToSet(r)
  <2>1. \A i, j \in 1 .. n - 1 :
            (IF i < k THEN i ELSE i + 1) = (IF j < k THEN j ELSE j + 1) => i = j
    BY <1>1
  <2>2. \A i, j \in 1 .. n : s[i] = s[j] => i = j
    BY <1>1, <1>11 DEF IsDistinct
  <2>3. \A i, j \in 1 .. n - 1 : r[i] = r[j] => i = j
    <3> SUFFICES ASSUME NEW i \in 1 .. n - 1, NEW j \in 1 .. n - 1, r[i] = r[j]
                 PROVE  i = j
      OBVIOUS
    <3>1. (IF i < k THEN i ELSE i + 1) = (IF j < k THEN j ELSE j + 1)
      BY <1>8, <2>2
    <3> QED
      BY <2>1, <3>1
  <2> QED
    BY <1>1, <1>7, <1>8, <2>2, <2>3 DEF IsDistinct
<1> QED
  BY <1>5, <1>6, <1>10, <1>11 DEF r, n

LEMMA ConcatDistinct ==
    ASSUME NEW T, NEW s \in Seq(T), NEW t \in Seq(T)
    PROVE  IsDistinct(s \o t) <=> IsDistinct(s) /\ IsDistinct(t) /\ ToSet(s) \cap ToSet(t) = {}
<1> DEFINE m == Len(s)
           n == Len(t)
           c == s \o t
<1>1. /\ m \in Nat /\ n \in Nat /\ DOMAIN s = 1 .. m /\ DOMAIN t = 1 .. n
      /\ ToSet(s) = {s[i] : i \in 1 .. m} /\ ToSet(t) = {t[i] : i \in 1 .. n}
  BY ToSetIndices
<1>2. /\ c \in Seq(T) /\ Len(c) = m + n
      /\ \A i \in 1 .. m + n : c[i] = IF i <= m THEN s[i] ELSE t[i - m]
  BY ConcatProperties
<1>3. DOMAIN c = 1 .. m + n
  BY <1>2
<1> HIDE DEF m, n, c
<1>4. /\ \A i \in 1 .. m : i \in 1 .. m + n /\ c[i] = s[i]
      /\ \A i \in 1 .. n : i + m \in 1 .. m + n /\ c[i + m] = t[i]
      /\ \A i \in 1 .. m + n : i \notin 1 .. m => i - m \in 1 .. n /\ c[i] = t[i - m]
  BY <1>1, <1>2
<1>5. ASSUME IsDistinct(c)
      PROVE  IsDistinct(s) /\ IsDistinct(t) /\ ToSet(s) \cap ToSet(t) = {}
  <2>1. \A i, j \in 1 .. n : i + m = j + m => i = j
    BY <1>1
  <2>2. \A i \in 1 .. m, j \in 1 .. n : i # j + m
    BY <1>1
  <2>3. \A i, j \in 1 .. m + n : c[i] = c[j] => i = j
    BY <1>3, <1>5 DEF IsDistinct
  <2>4. \A i, j \in 1 .. m : s[i] = s[j] => i = j
    BY <1>4, <2>3
  <2>5. \A i, j \in 1 .. n : t[i] = t[j] => i = j
    BY <1>4, <2>1, <2>3
  <2>6. \A i \in 1 .. m, j \in 1 .. n : s[i] # t[j]
    BY <1>4, <2>2, <2>3
  <2> QED
    BY <1>1, <2>4, <2>5, <2>6 DEF IsDistinct
<1>6. ASSUME IsDistinct(s), IsDistinct(t), ToSet(s) \cap ToSet(t) = {}
      PROVE  IsDistinct(c)
  <2>1. \A i, j \in 1 .. m + n : i - m = j - m => i = j
    BY <1>1
  <2>2. \A i, j \in 1 .. m : s[i] = s[j] => i = j
    BY <1>1, <1>6 DEF IsDistinct
  <2>3. \A i, j \in 1 .. n : t[i] = t[j] => i = j
    BY <1>1, <1>6 DEF IsDistinct
  <2>4. \A i \in 1 .. m, j \in 1 .. n : s[i] # t[j]
    BY <1>1, <1>6
  <2>5. \A i, j \in 1 .. m + n : c[i] = c[j] => i = j
    <3> SUFFICES ASSUME NEW i \in 1 .. m + n, NEW j \in 1 .. m + n, c[i] = c[j] PROVE i = j
      OBVIOUS
    <3>1. CASE i \in 1 .. m /\ j \in 1 .. m
      BY <1>4, <2>2, <3>1
    <3>2. CASE i \in 1 .. m /\ j \notin 1 .. m
      BY <1>4, <2>4, <3>2
    <3>3. CASE i \notin 1 .. m /\ j \in 1 .. m
      BY <1>4, <2>4, <3>3
    <3>4. CASE i \notin 1 .. m /\ j \notin 1 .. m
      BY <1>4, <2>1, <2>3, <3>4
    <3> QED
      BY <3>1, <3>2, <3>3, <3>4
  <2> QED
    BY <1>3, <2>5 DEF IsDistinct
<1> QED
  BY <1>5, <1>6 DEF c

-----------------------------------------------------------------------------
(* The inductive invariant.                                                *)

EventNames == {"connect", "releaseConnection", "releaseProtocol"}
Queued == TaskNames \cup Messages
DispatcherPlaces == {"idle", "body", "refuse", "disconnect", "moveQueue", "sendAll"}

StateTypes ==
    /\ connectionState \in {"OPEN", "CLOSING", "REQUEST_CLOSE", "CLOSED"}
    /\ pendingRead \in Int /\ pendingWrite \in Int
    /\ errors \subseteq {"read", "write"}

IoTypes ==
    /\ socket \in {"open", "closed", "deleted"}
    /\ osRead \in {"none", "header", "body"} /\ osWrite \in {"none", "busy"}
    /\ readTimer \in {"armed", "off"} /\ writeTimer \in {"armed", "off"}
    /\ ioQueue \in Seq(Handlers)

RefTypes ==
    /\ {writing, written, outputBuffer} \subseteq Messages \cup {NoMessage}
    /\ refCount \in Int /\ protocolRefs \in Int
    /\ protocol \in {"attached", "detached", "deleted"}
    /\ client \in {"none", "linked"}

BufferTypes ==
    /\ autoSend \in Seq(Messages) /\ toAddQueue \in Seq(Messages)
    /\ first \in [Messages -> Nat] /\ last \in [Messages -> Nat]
    /\ writes \in Nat /\ wireLast \in Nat
    /\ overflow \in {"no", "yes"}

DispatcherTypes ==
    /\ tasks \in Seq(Queued) /\ events \subseteq EventNames
    /\ dpc \in DispatcherPlaces /\ cursor \in Nat
    /\ dpc = "sendAll" => cursor \in Nat \ {0}

TypeOK == StateTypes /\ IoTypes /\ RefTypes /\ BufferTypes /\ DispatcherTypes

USE DEF StateTypes, IoTypes, RefTypes, BufferTypes, DispatcherTypes

WriteHandlers == {"write", "writeError"}
Timeouts == {"readTimeout", "writeTimeout"}
WritesUnderWay == CountIn(ioQueue, WriteHandlers) + (IF osWrite = "none" THEN 0 ELSE 1)

\* The operations of the system and the handlers that are to be executed.
IoInv ==
    /\ WritesUnderWay = (IF writing = NoMessage THEN 0 ELSE 1)
    /\ connectionState = "OPEN" =>
        /\ socket = "open"
        /\ pendingRead = 1 /\ ReadsUnderWay = 1
        /\ pendingWrite = (IF writing = NoMessage THEN 0 ELSE 1)
    /\ socket # "open" => osRead = "none" /\ osWrite = "none"
    /\ connectionState = "CLOSED" => socket # "open"

\* What follows the last handler is only a timeout that came too late.
AfterStop(q) == \A i, j \in DOMAIN q : q[i] = "stop" /\ i < j => q[j] \in Timeouts

StopLast ==
    /\ AfterStop(ioQueue)
    /\ socket = "deleted" => ToSet(ioQueue) \subseteq Timeouts

\* The tasks and events that close and release the connection.
CloseInv ==
    /\ Pending("close") = (IF connectionState = "REQUEST_CLOSE" THEN 1 ELSE 0)
    /\ Pending("releaseConnection") + HasStopped = (IF connectionState = "CLOSED" THEN 1 ELSE 0)

\* In a list of tasks: a login is the first one, a player who asks to log out
\* did so before the connection was asked to close, and messages are queued once.
LoginFirst(t) == \A i \in DOMAIN t : t[i] = "login" => i = 1
LogoutsBefore(t) == \A i, j \in DOMAIN t : t[i] = "logout" /\ t[j] = "close" => i < j
OnceIn(t) == \A i, j \in DOMAIN t : t[i] = t[j] /\ t[i] \in Messages => i = j
MessagesIn(t) == {m \in Messages : m \in ToSet(t)}

\* The protocol, and the tasks that are bound to it.
ProtocolInv ==
    /\ connectionState = "OPEN" => protocol = "attached"
    /\ connectionState \in {"CLOSING", "CLOSED"} => protocol # "attached"
    /\ Pending("releaseProtocol") = (IF protocol = "detached" THEN 1 ELSE 0)
    /\ protocol = "deleted" => client = "none"
    /\ LoginFirst(tasks)
    /\ "login" \in ToSet(tasks) => protocol = "attached" /\ ~Connecting
    /\ Pending("connect") <= 1
    /\ LogoutsBefore(tasks)
    /\ "logout" \in ToSet(tasks) => protocol = "attached"

\* The references, one for each message that is out.
CountInv ==
    /\ IsFiniteSet(Outstanding)
    /\ refCount = Cardinality(Outstanding)
    /\ protocolRefs = refCount + (IF Connecting THEN 1 ELSE 0)
    /\ protocolRefs > 0 => protocol # "deleted"
    /\ refCount > 0 => socket # "deleted" /\ "stop" \notin ToSet(ioQueue)

ConnectionInv == TypeOK /\ IoInv /\ StopLast /\ CloseInv /\ ProtocolInv /\ CountInv /\ SentOnce

-----------------------------------------------------------------------------
(* The dispatcher's list of tasks and the queue of handlers.               *)

LEMMA OccursIn ==
    ASSUME NEW T, NEW s \in Seq(T), NEW x
    PROVE  /\ Occurrences(s, x) \in Nat
           /\ Occurrences(s, x) > 0 <=> x \in ToSet(s)
<1>1. Occurrences(s, x) \in Nat
  BY CountType DEF Occurrences
<1>2. Occurrences(s, x) > 0 <=> \E i \in DOMAIN s : s[i] \in {x}
  BY CountPositive DEF Occurrences
<1> QED
  BY <1>1, <1>2 DEF ToSet

LEMMA QueueAppend ==
    ASSUME NEW t \in Seq(Queued), NEW x \in Queued
    PROVE  /\ Append(t, x) \in Seq(Queued)
           /\ ToSet(Append(t, x)) = ToSet(t) \cup {x}
           /\ \A name : Occurrences(Append(t, x), name) =
                            Occurrences(t, name) + (IF x = name THEN 1 ELSE 0)
           /\ OnceIn(t) /\ x \notin MessagesIn(t) => OnceIn(Append(t, x))
           /\ LoginFirst(t) /\ x # "login" => LoginFirst(Append(t, x))
           /\ LogoutsBefore(t) /\ (x = "logout" => "close" \notin ToSet(t)) =>
                LogoutsBefore(Append(t, x))
<1> DEFINE n == Len(t)
           q == Append(t, x)
<1>1. /\ q \in Seq(Queued) /\ Len(q) = n + 1
      /\ \A i \in 1 .. n : q[i] = t[i]
      /\ q[n + 1] = x
      /\ ToSet(q) = ToSet(t) \cup {x}
  BY AppendFacts
<1>2. /\ n \in Nat /\ DOMAIN t = 1 .. n
      /\ ToSet(t) = {t[i] : i \in 1 .. n}
  BY ToSetIndices
<1>3. DOMAIN q = 1 .. n + 1
  BY <1>1
<1>4. ASSUME NEW name
      PROVE  Occurrences(q, name) = Occurrences(t, name) + (IF x = name THEN 1 ELSE 0)
  <2>1. Occurrences(q, name) = Occurrences(t, name) + (IF x \in {name} THEN 1 ELSE 0)
    BY AppendCount DEF Occurrences
  <2> QED
    BY <2>1
<1> HIDE DEF n, q
<1>5. \A i \in 1 .. n + 1 : i \in 1 .. n \/ i = n + 1
  BY <1>2
<1>6. \A i \in 1 .. n : i < n + 1
  BY <1>2
<1>7. ASSUME OnceIn(t), x \notin MessagesIn(t)
      PROVE  OnceIn(q)
  <2>1. \A i \in 1 .. n : t[i] = x => x \notin Messages
    BY <1>2, <1>7 DEF MessagesIn
  <2> QED
    BY <1>1, <1>2, <1>3, <1>5, <1>7, <2>1 DEF OnceIn
<1>8. ASSUME LoginFirst(t), x # "login"
      PROVE  LoginFirst(q)
  BY <1>1, <1>2, <1>3, <1>5, <1>8 DEF LoginFirst
<1>9. ASSUME LogoutsBefore(t), x = "logout" => "close" \notin ToSet(t)
      PROVE  LogoutsBefore(q)
  <2>1. SUFFICES ASSUME NEW i \in 1 .. n + 1, NEW j \in 1 .. n + 1, q[i] = "logout", q[j] = "close"
                 PROVE  i < j
    BY <1>3 DEF LogoutsBefore
  <2>2. CASE i \in 1 .. n /\ j \in 1 .. n
    BY <1>1, <1>2, <1>9, <2>1, <2>2 DEF LogoutsBefore
  <2>3. CASE i \in 1 .. n /\ j = n + 1
    BY <1>6, <2>3
  <2>4. CASE i = n + 1 /\ j \in 1 .. n
    <3>1. t[j] = "close" /\ x = "logout"
      BY <1>1, <2>1, <2>4
    <3>2. "close" \in ToSet(t)
      BY <1>2, <2>4, <3>1
    <3> QED
      BY <1>9, <3>1, <3>2
  <2>5. CASE i = n + 1 /\ j = n + 1
    BY <2>1, <2>5
  <2> QED
    BY <1>5, <2>2, <2>3, <2>4, <2>5
<1> QED
  BY <1>1, <1>4, <1>7, <1>8, <1>9 DEF q

LEMMA QueueTail ==
    ASSUME NEW t \in Seq(Queued), t # <<>>
    PROVE  /\ Tail(t) \in Seq(Queued) /\ Head(t) \in Queued
           /\ ToSet(t) = ToSet(Tail(t)) \cup {Head(t)}
           /\ \A name : Occurrences(Tail(t), name) =
                            Occurrences(t, name) - (IF Head(t) = name THEN 1 ELSE 0)
           /\ OnceIn(t) => OnceIn(Tail(t)) /\ MessagesIn(Tail(t)) = MessagesIn(t) \ {Head(t)}
           /\ LoginFirst(t) => LoginFirst(Tail(t)) /\ "login" \notin ToSet(Tail(t))
           /\ LogoutsBefore(t) => LogoutsBefore(Tail(t))
           /\ LogoutsBefore(t) /\ Head(t) = "close" => "logout" \notin ToSet(t)
<1> DEFINE n == Len(t)
           q == Tail(t)
<1>1. /\ q \in Seq(Queued) /\ Len(q) = n - 1
      /\ \A i \in 1 .. n - 1 : q[i] = t[i + 1]
      /\ ToSet(t) = ToSet(q) \cup {Head(t)}
      /\ Head(t) = t[1] /\ Head(t) \in Queued
      /\ n \in Nat /\ n >= 1
  BY TailFacts
<1>2. /\ DOMAIN t = 1 .. n /\ ToSet(t) = {t[i] : i \in 1 .. n}
      /\ DOMAIN q = 1 .. n - 1 /\ ToSet(q) = {q[i] : i \in 1 .. n - 1}
  BY <1>1, ToSetIndices
<1>3. ASSUME NEW name
      PROVE  Occurrences(q, name) = Occurrences(t, name) - (IF Head(t) = name THEN 1 ELSE 0)
  <2>1. Occurrences(q, name) = Occurrences(t, name) - (IF Head(t) \in {name} THEN 1 ELSE 0)
    BY TailCount DEF Occurrences
  <2> QED
    BY <2>1
<1> HIDE DEF n, q
<1>4. \A i \in 1 .. n - 1 : i + 1 \in 1 .. n /\ i + 1 # 1 /\ ~(i + 1 < 1)
  BY <1>1
<1>5. \A i, j \in 1 .. n - 1 : (i + 1 = j + 1 => i = j) /\ (i + 1 < j + 1 => i < j)
  BY <1>1
<1>6. 1 \in 1 .. n
  BY <1>1
<1>7. ASSUME OnceIn(t)
      PROVE  OnceIn(q) /\ MessagesIn(q) = MessagesIn(t) \ {Head(t)}
  <2>1. OnceIn(q)
    BY <1>1, <1>2, <1>4, <1>5, <1>7 DEF OnceIn
  <2>2. \A i \in 1 .. n - 1 : q[i] \in Messages => q[i] # Head(t)
    BY <1>1, <1>2, <1>4, <1>6, <1>7 DEF OnceIn
  <2>3. \A m \in Messages : m \in ToSet(q) <=> m \in ToSet(t) /\ m # Head(t)
    BY <1>1, <1>2, <2>2
  <2> QED
    BY <2>1, <2>3 DEF MessagesIn
<1>8. ASSUME LoginFirst(t)
      PROVE  LoginFirst(q) /\ "login" \notin ToSet(q)
  <2>1. \A i \in 1 .. n - 1 : q[i] # "login"
    BY <1>1, <1>2, <1>4, <1>8 DEF LoginFirst
  <2> QED
    BY <1>2, <2>1 DEF LoginFirst
<1>9. ASSUME LogoutsBefore(t)
      PROVE  LogoutsBefore(q)
  BY <1>1, <1>2, <1>4, <1>5, <1>9 DEF LogoutsBefore
<1>10. ASSUME LogoutsBefore(t), Head(t) = "close"
       PROVE  "logout" \notin ToSet(t)
  <2>1. \A i \in 1 .. n : ~(i < 1)
    BY <1>1
  <2>2. \A i \in 1 .. n : t[i] # "logout"
    BY <1>1, <1>2, <1>6, <1>10, <2>1 DEF LogoutsBefore
  <2> QED
    BY <1>2, <2>2
<1> QED
  BY <1>1, <1>3, <1>7, <1>8, <1>9, <1>10 DEF q

LEMMA HandlerAppend ==
    ASSUME NEW q \in Seq(Handlers), NEW h \in Handlers
    PROVE  /\ Append(q, h) \in Seq(Handlers)
           /\ ToSet(Append(q, h)) = ToSet(q) \cup {h}
           /\ \A S : CountIn(Append(q, h), S) = CountIn(q, S) + (IF h \in S THEN 1 ELSE 0)
           /\ AfterStop(q) /\ (h \in Timeouts \/ "stop" \notin ToSet(q)) => AfterStop(Append(q, h))
<1> DEFINE n == Len(q)
           r == Append(q, h)
<1>1. /\ r \in Seq(Handlers) /\ Len(r) = n + 1
      /\ \A i \in 1 .. n : r[i] = q[i]
      /\ r[n + 1] = h
      /\ ToSet(r) = ToSet(q) \cup {h}
  BY AppendFacts
<1>2. n \in Nat /\ DOMAIN q = 1 .. n /\ ToSet(q) = {q[i] : i \in 1 .. n}
  BY ToSetIndices
<1>3. DOMAIN r = 1 .. n + 1
  BY <1>1
<1>4. \A S : CountIn(r, S) = CountIn(q, S) + (IF h \in S THEN 1 ELSE 0)
  BY AppendCount
<1> HIDE DEF n, r
<1>5. \A i \in 1 .. n + 1 : i \in 1 .. n \/ i = n + 1
  BY <1>2
<1>6. \A j \in 1 .. n : ~(n + 1 < j)
  BY <1>2
<1>7. ~(n + 1 < n + 1)
  BY <1>2
<1>8. ASSUME AfterStop(q), h \in Timeouts \/ "stop" \notin ToSet(q)
      PROVE  AfterStop(r)
  <2>1. SUFFICES ASSUME NEW i \in 1 .. n + 1, NEW j \in 1 .. n + 1, r[i] = "stop", i < j
                 PROVE  r[j] \in Timeouts
    BY <1>3 DEF AfterStop
  <2>2. i \in 1 .. n
    BY <1>5, <1>6, <1>7, <2>1
  <2>3. q[i] = "stop" /\ "stop" \in ToSet(q)
    BY <1>1, <1>2, <2>1, <2>2
  <2>4. CASE j \in 1 .. n
    BY <1>1, <1>2, <1>8, <2>1, <2>2, <2>3, <2>4 DEF AfterStop
  <2>5. CASE j = n + 1
    BY <1>1, <1>8, <2>3, <2>5
  <2> QED
    BY <1>5, <2>4, <2>5
<1> QED
  BY <1>1, <1>4, <1>8 DEF r

LEMMA HandlerTail ==
    ASSUME NEW q \in Seq(Handlers), q # <<>>
    PROVE  /\ Tail(q) \in Seq(Handlers) /\ Head(q) \in Handlers /\ Head(q) \in ToSet(q)
           /\ ToSet(Tail(q)) \subseteq ToSet(q)
           /\ \A S : CountIn(Tail(q), S) = CountIn(q, S) - (IF Head(q) \in S THEN 1 ELSE 0)
           /\ AfterStop(q) => AfterStop(Tail(q))
           /\ AfterStop(q) /\ Head(q) = "stop" => ToSet(Tail(q)) \subseteq Timeouts
<1> DEFINE n == Len(q)
           r == Tail(q)
<1>1. /\ r \in Seq(Handlers) /\ Len(r) = n - 1
      /\ \A i \in 1 .. n - 1 : r[i] = q[i + 1]
      /\ ToSet(q) = ToSet(r) \cup {Head(q)}
      /\ Head(q) = q[1] /\ Head(q) \in Handlers
      /\ n \in Nat /\ n >= 1
  BY TailFacts
<1>2. /\ DOMAIN q = 1 .. n /\ DOMAIN r = 1 .. n - 1
      /\ ToSet(r) = {r[i] : i \in 1 .. n - 1}
  BY <1>1, ToSetIndices
<1>3. \A S : CountIn(r, S) = CountIn(q, S) - (IF Head(q) \in S THEN 1 ELSE 0)
  BY TailCount
<1> HIDE DEF n, r
<1>4. \A i \in 1 .. n - 1 : i + 1 \in 1 .. n /\ 1 < i + 1
  BY <1>1
<1>5. \A i, j \in 1 .. n - 1 : i < j => i + 1 < j + 1
  BY <1>1
<1>6. 1 \in 1 .. n
  BY <1>1
<1>7. ASSUME AfterStop(q)
      PROVE  AfterStop(r)
  BY <1>1, <1>2, <1>4, <1>5, <1>7 DEF AfterStop
<1>8. ASSUME AfterStop(q), Head(q) = "stop"
      PROVE  ToSet(r) \subseteq Timeouts
  <2>1. \A i \in 1 .. n - 1 : q[i + 1] \in Timeouts
    BY <1>1, <1>2, <1>4, <1>6, <1>8 DEF AfterStop
  <2> QED
    BY <1>1, <1>2, <2>1
<1> QED
  BY <1>1, <1>3, <1>7, <1>8 DEF r

LEMMA NoStop ==
    ASSUME NEW q \in Seq(Handlers), "stop" \notin ToSet(q)
    PROVE  AfterStop(q)
BY DEF AfterStop, ToSet

\* The handlers that are called because the socket is closed.
LEMMA AfterClose ==
    ASSUME NEW rest \in Seq(Handlers), NEW q \in HandlersAfterClose(rest), TypeOK
    PROVE  /\ q \in Seq(Handlers)
           /\ socket # "open" => q = rest
           /\ CountIn(q, WriteHandlers) = CountIn(rest, WriteHandlers)
                    + (IF socket = "open" /\ osWrite = "busy" THEN 1 ELSE 0)
           /\ Occurrences(q, "stop") = Occurrences(rest, "stop")
           /\ "stop" \notin ToSet(rest) => "stop" \notin ToSet(q)
<1>1. CASE socket # "open"
  <2>1. q = rest
    BY <1>1 DEF HandlersAfterClose
  <2>2. CountIn(rest, WriteHandlers) \in Nat
    BY CountType
  <2> QED
    BY <1>1, <2>1, <2>2
<1>2. CASE socket = "open"
  <2> DEFINE r == CASE osRead = "header" -> <<"headerError">>
                    [] osRead = "body"   -> <<"packetError">>
                    [] OTHER             -> <<>>
             w == IF osWrite = "busy" THEN <<"writeError">> ELSE <<>>
  <2>1. q = rest \o (r \o w) \/ q = rest \o (w \o r)
    BY <1>2 DEF HandlersAfterClose, Aborted
  <2>2. \/ r = <<>>
        \/ \E a \in {"headerError", "packetError"} : r = <<a>>
    BY DEF TypeOK
  <2>3. \/ w = <<>> /\ osWrite # "busy"
        \/ w = <<"writeError">> /\ osWrite = "busy"
    OBVIOUS
  <2> HIDE DEF r, w
  <2>4. "writeError" \in WriteHandlers /\ {"headerError", "packetError"} \cap WriteHandlers = {}
    BY DEF WriteHandlers
  <2>5. {"writeError", "headerError", "packetError"} \subseteq Handlers
    BY DEF Handlers
  <2>6. CountIn(rest, WriteHandlers) \in Nat
    BY CountType
  <2>7. CASE r = <<>> /\ w = <<>>
    <3>1. q = rest
      BY <2>1, <2>7, ConcatEmptySeq
    <3> QED
      BY <1>2, <2>3, <2>6, <2>7, <3>1
  <2>8. ASSUME NEW a \in {"headerError", "packetError"}, r = <<a>>, w = <<>>
        PROVE  /\ q = Append(rest, a)
               /\ osWrite # "busy"
    <3>1. r \o w = <<a>> /\ w \o r = <<a>>
      BY <2>8
    <3> QED
      BY <2>1, <2>3, <2>8, <3>1, <2>5, AppendIsConcat
  <2>9. ASSUME r = <<>>, w = <<"writeError">>
        PROVE  /\ q = Append(rest, "writeError")
               /\ osWrite = "busy"
    <3>1. r \o w = <<"writeError">> /\ w \o r = <<"writeError">>
      BY <2>9
    <3> QED
      BY <2>1, <2>3, <2>9, <3>1, <2>5, AppendIsConcat
  <2>10. ASSUME NEW a \in {"headerError", "packetError"}, r = <<a>>, w = <<"writeError">>
         PROVE  /\ \/ q = Append(Append(rest, a), "writeError")
                   \/ q = Append(Append(rest, "writeError"), a)
                /\ osWrite = "busy"
    <3>1. a \in Handlers /\ "writeError" \in Handlers
      BY <2>5
    <3>2. \A b, c \in Handlers : rest \o (<<b>> \o <<c>>) = Append(Append(rest, b), c)
      <4> SUFFICES ASSUME NEW b \in Handlers, NEW c \in Handlers
                   PROVE  rest \o (<<b>> \o <<c>>) = Append(Append(rest, b), c)
        OBVIOUS
      <4>1. <<b>> \in Seq(Handlers) /\ <<c>> \in Seq(Handlers)
        OBVIOUS
      <4>2. rest \o (<<b>> \o <<c>>) = (rest \o <<b>>) \o <<c>>
        BY <4>1, ConcatAssociative
      <4>3. rest \o <<b>> = Append(rest, b) /\ Append(rest, b) \in Seq(Handlers)
        BY AppendIsConcat
      <4>4. Append(rest, b) \o <<c>> = Append(Append(rest, b), c)
        BY <4>3, AppendIsConcat
      <4> QED
        BY <4>2, <4>3, <4>4
    <3> QED
      BY <2>1, <2>3, <2>10, <3>1, <3>2
  <2>11. ASSUME NEW s \in Seq(Handlers), NEW a \in {"writeError", "headerError", "packetError"}
         PROVE  /\ Append(s, a) \in Seq(Handlers)
                /\ CountIn(Append(s, a), WriteHandlers) =
                        CountIn(s, WriteHandlers) + (IF a = "writeError" THEN 1 ELSE 0)
                /\ Occurrences(Append(s, a), "stop") = Occurrences(s, "stop")
                /\ "stop" \notin ToSet(s) => "stop" \notin ToSet(Append(s, a))
    <3>1. a \in Handlers /\ a \notin {"stop"} /\ (a \in WriteHandlers <=> a = "writeError")
      BY <2>5 DEF WriteHandlers
    <3>2. CountIn(Append(s, a), {"stop"}) = CountIn(s, {"stop"}) + 0
      BY <3>1, HandlerAppend
    <3>3. CountIn(s, {"stop"}) \in Nat
      BY CountType
    <3> QED
      BY <3>1, <3>2, <3>3, HandlerAppend DEF Occurrences
  <2>12. CASE w = <<>> /\ \E a \in {"headerError", "packetError"} : r = <<a>>
    <3>1. PICK a \in {"headerError", "packetError"} : r = <<a>>
      BY <2>12
    <3>2. q = Append(rest, a) /\ osWrite # "busy" /\ a # "writeError"
      BY <2>8, <2>12, <3>1
    <3> QED
      BY <1>2, <2>6, <2>11, <3>2
  <2>13. CASE w = <<"writeError">> /\ r = <<>>
    BY <1>2, <2>9, <2>11, <2>13
  <2>14. CASE w = <<"writeError">> /\ \E a \in {"headerError", "packetError"} : r = <<a>>
    <3>1. PICK a \in {"headerError", "packetError"} : r = <<a>>
      BY <2>14
    <3>2. /\ \/ q = Append(Append(rest, a), "writeError")
             \/ q = Append(Append(rest, "writeError"), a)
          /\ osWrite = "busy" /\ a # "writeError"
      BY <2>10, <2>14, <3>1
    <3>3. CASE q = Append(Append(rest, a), "writeError")
      <4> DEFINE s == Append(rest, a)
      <4>1. /\ s \in Seq(Handlers)
            /\ CountIn(s, WriteHandlers) = CountIn(rest, WriteHandlers)
            /\ Occurrences(s, "stop") = Occurrences(rest, "stop")
            /\ "stop" \notin ToSet(rest) => "stop" \notin ToSet(s)
        BY <2>6, <2>11, <3>2
      <4> HIDE DEF s
      <4>2. q = Append(s, "writeError")
        BY <3>3 DEF s
      <4> QED
        BY <1>2, <2>11, <3>2, <4>1, <4>2
    <3>4. CASE q = Append(Append(rest, "writeError"), a)
      <4> DEFINE s == Append(rest, "writeError")
      <4>1. /\ s \in Seq(Handlers)
            /\ CountIn(s, WriteHandlers) = CountIn(rest, WriteHandlers) + 1
            /\ Occurrences(s, "stop") = Occurrences(rest, "stop")
            /\ "stop" \notin ToSet(rest) => "stop" \notin ToSet(s)
        BY <2>11
      <4> HIDE DEF s
      <4>2. q = Append(s, a)
        BY <3>4 DEF s
      <4>3. CountIn(q, WriteHandlers) = CountIn(s, WriteHandlers) + 0
        BY <2>11, <3>2, <4>1, <4>2
      <4> QED
        BY <1>2, <2>6, <2>11, <3>2, <4>1, <4>2, <4>3
    <3> QED
      BY <3>2, <3>3, <3>4
  <2> QED
    BY <2>2, <2>3, <2>7, <2>12, <2>13, <2>14
<1> QED
  BY <1>1, <1>2

-----------------------------------------------------------------------------
(* What the invariant says of the state that an action finds.              *)

LEMMA PendingFacts ==
    ASSUME TypeOK, NEW name
    PROVE  /\ Pending(name) \in Nat
           /\ Pending(name) > 0 <=> name \in ToSet(tasks) \cup events
           /\ Occurrences(tasks, name) \in Nat
           /\ Occurrences(tasks, name) > 0 <=> name \in ToSet(tasks)
<1>1. /\ Occurrences(tasks, name) \in Nat
      /\ Occurrences(tasks, name) > 0 <=> name \in ToSet(tasks)
  BY OccursIn DEF TypeOK
<1> QED
  BY <1>1 DEF Pending

\* Once the connection is to be stopped it is closed, and there is one handler for it.
LEMMA StopFacts ==
    ASSUME ConnectionInv
    PROVE  /\ HasStopped \in Nat
           /\ HasStopped > 0 <=> "stop" \in ToSet(ioQueue) \/ socket = "deleted"
           /\ HasStopped > 0 => /\ connectionState = "CLOSED"
                                /\ socket # "open"
                                /\ Pending("releaseConnection") = 0
           /\ "stop" \in ToSet(ioQueue) => /\ socket # "deleted"
                                           /\ Occurrences(ioQueue, "stop") = 1
           /\ Pending("releaseConnection") > 0 => connectionState = "CLOSED" /\ HasStopped = 0
           /\ connectionState # "CLOSED" => HasStopped = 0 /\ Pending("releaseConnection") = 0
<1> USE DEF ConnectionInv
<1>1. /\ Occurrences(ioQueue, "stop") \in Nat
      /\ Occurrences(ioQueue, "stop") > 0 <=> "stop" \in ToSet(ioQueue)
  BY OccursIn DEF TypeOK
<1>2. HasStopped = Occurrences(ioQueue, "stop") + (IF socket = "deleted" THEN 1 ELSE 0)
  BY DEF HasStopped
<1>3. /\ HasStopped \in Nat
      /\ HasStopped > 0 <=> "stop" \in ToSet(ioQueue) \/ socket = "deleted"
  BY <1>1, <1>2
<1>4. Pending("releaseConnection") \in Nat
  BY PendingFacts
<1>5. Pending("releaseConnection") + HasStopped = (IF connectionState = "CLOSED" THEN 1 ELSE 0)
  BY DEF CloseInv
<1>6. HasStopped > 0 => connectionState = "CLOSED" /\ Pending("releaseConnection") = 0
                        /\ HasStopped = 1
  BY <1>3, <1>4, <1>5
<1>7. Pending("releaseConnection") > 0 => connectionState = "CLOSED" /\ HasStopped = 0
  BY <1>3, <1>4, <1>5
<1>8. connectionState # "CLOSED" => HasStopped = 0 /\ Pending("releaseConnection") = 0
  BY <1>3, <1>4, <1>5
<1>9. connectionState = "CLOSED" => socket # "open"
  BY DEF IoInv
<1>10. "stop" \in ToSet(ioQueue) => socket # "deleted" /\ Occurrences(ioQueue, "stop") = 1
  BY <1>1, <1>2, <1>3, <1>6
<1> QED
  BY <1>3, <1>6, <1>7, <1>8, <1>9, <1>10

\* The first handler of the queue.
LEMMA HeadFacts ==
    ASSUME ConnectionInv, NEW handlers, Runs(handlers)
    PROVE  /\ Head(ioQueue) \in handlers /\ Head(ioQueue) \in ToSet(ioQueue)
           /\ ioQueue # <<>> /\ ioQueue \in Seq(Handlers) /\ Tail(ioQueue) \in Seq(Handlers)
           /\ socket = "deleted" => Head(ioQueue) \in Timeouts
           /\ written = NoMessage
<1>1. ioQueue \in Seq(Handlers) /\ ioQueue # <<>> /\ Head(ioQueue) \in handlers
  BY DEF ConnectionInv, TypeOK, Runs
<1>2. Tail(ioQueue) \in Seq(Handlers) /\ Head(ioQueue) \in ToSet(ioQueue)
  BY <1>1, HandlerTail
<1>3. socket = "deleted" => ToSet(ioQueue) \subseteq Timeouts
  BY DEF ConnectionInv, StopLast
<1> QED
  BY <1>1, <1>2, <1>3 DEF Runs

\* A socket that was deleted is not used: only timeouts that came too late are
\* executed then, and they find that the connection is gone.
LEMMA SocketAlive ==
    ASSUME ConnectionInv
    PROVE  /\ OnWriteOperation => socket # "deleted"
           /\ OnStopOperation => socket # "deleted" /\ "stop" \in ToSet(ioQueue)
           /\ IsAlive => socket # "deleted"
           /\ connectionState = "REQUEST_CLOSE" => socket # "deleted"
<1>1. ASSUME OnWriteOperation PROVE socket # "deleted"
  <2>1. Runs({"write", "writeError"})
    BY <1>1 DEF OnWriteOperation
  <2>2. /\ Head(ioQueue) \in {"write", "writeError"}
        /\ socket = "deleted" => Head(ioQueue) \in Timeouts
    BY <2>1, HeadFacts
  <2> QED
    BY <2>2 DEF Timeouts
<1>2. ASSUME OnStopOperation PROVE socket # "deleted" /\ "stop" \in ToSet(ioQueue)
  <2>1. Runs({"stop"})
    BY <1>2 DEF OnStopOperation
  <2>2. Head(ioQueue) \in {"stop"} /\ Head(ioQueue) \in ToSet(ioQueue)
    BY <2>1, HeadFacts
  <2>3. "stop" \in ToSet(ioQueue)
    BY <2>2
  <2> QED
    BY <2>3, StopFacts
<1>3. ASSUME IsAlive, socket = "deleted" PROVE FALSE
  <2>1. osRead = "none" /\ osWrite = "none"
    BY <1>3 DEF ConnectionInv, IoInv
  <2>2. ToSet(ioQueue) \subseteq Timeouts
    BY <1>3 DEF ConnectionInv, StopLast
  <2>3. PICK i \in 2 .. Len(ioQueue) : ioQueue[i] \notin {"readTimeout", "writeTimeout", "stop"}
    BY <1>3, <2>1 DEF IsAlive
  <2>4. ToSet(ioQueue) = {ioQueue[k] : k \in 1 .. Len(ioQueue)} /\ Len(ioQueue) \in Nat
    BY ToSetIndices DEF ConnectionInv, TypeOK
  <2>5. i \in 1 .. Len(ioQueue)
    BY <2>3, <2>4
  <2>6. ioQueue[i] \in ToSet(ioQueue)
    BY <2>4, <2>5
  <2> QED
    BY <2>2, <2>3, <2>6 DEF Timeouts
<1>4. connectionState = "REQUEST_CLOSE" => socket # "deleted"
  <2>1. connectionState = "REQUEST_CLOSE" => HasStopped = 0
    BY StopFacts
  <2>2. socket = "deleted" => HasStopped > 0
    BY StopFacts
  <2> QED
    BY <2>1, <2>2
<1> QED
  BY <1>1, <1>2, <1>3, <1>4

-----------------------------------------------------------------------------
(* What closeConnection, closeSocket and send do.                          *)

LEMMA CloseFacts ==
    ASSUME TypeOK, NEW queued \in Seq(Queued), CloseConnection(queued)
    PROVE  /\ connectionState' \in {"REQUEST_CLOSE", "CLOSED"}
           /\ connectionState' = "CLOSED" <=> connectionState = "CLOSED"
           /\ tasks' \in Seq(Queued)
           /\ \A name : name # "close" =>
                /\ Occurrences(tasks', name) = Occurrences(queued, name)
                /\ name \in ToSet(tasks') <=> name \in ToSet(queued)
           /\ Occurrences(tasks', "close") = Occurrences(queued, "close")
                    + (IF connectionState = "REQUEST_CLOSE" THEN 0 ELSE
                       IF connectionState' = "REQUEST_CLOSE" THEN 1 ELSE 0)
           /\ MessagesIn(tasks') = MessagesIn(queued)
           /\ OnceIn(queued) => OnceIn(tasks')
           /\ LoginFirst(queued) => LoginFirst(tasks')
           /\ LogoutsBefore(queued) => LogoutsBefore(tasks')
<1>1. "close" \in Queued /\ "close" \notin Messages
  BY ConnectionConstants DEF Queued, TaskNames
<1>2. \A name : Occurrences(queued, name) \in Nat
  BY OccursIn
<1>3. CASE IsClosing
  <2>1. tasks' = queued /\ connectionState' = connectionState
    BY <1>3 DEF CloseConnection
  <2> QED
    BY <1>2, <1>3, <2>1 DEF IsClosing
<1>4. CASE ~IsClosing
  <2>1. tasks' = Append(queued, "close") /\ connectionState' = "REQUEST_CLOSE"
    BY <1>4 DEF CloseConnection
  <2>2. connectionState # "REQUEST_CLOSE" /\ connectionState # "CLOSED"
    BY <1>4 DEF IsClosing
  <2>3. /\ tasks' \in Seq(Queued) /\ ToSet(tasks') = ToSet(queued) \cup {"close"}
        /\ \A name : Occurrences(tasks', name) =
                         Occurrences(queued, name) + (IF "close" = name THEN 1 ELSE 0)
    BY <1>1, <2>1, QueueAppend
  <2>4. "close" \notin MessagesIn(queued)
    BY <1>1 DEF MessagesIn
  <2>5. /\ OnceIn(queued) => OnceIn(tasks')
        /\ LoginFirst(queued) => LoginFirst(tasks')
        /\ LogoutsBefore(queued) => LogoutsBefore(tasks')
    BY <1>1, <2>1, <2>4, QueueAppend
  <2>6. MessagesIn(tasks') = MessagesIn(queued)
    BY <1>1, <2>3 DEF MessagesIn
  <2>7. ASSUME NEW name, name # "close"
        PROVE  /\ Occurrences(tasks', name) = Occurrences(queued, name)
               /\ name \in ToSet(tasks') <=> name \in ToSet(queued)
    BY <1>2, <2>3, <2>7
  <2>8. Occurrences(tasks', "close") = Occurrences(queued, "close") + 1
    BY <2>3
  <2> QED
    BY <2>1, <2>2, <2>3, <2>5, <2>6, <2>7, <2>8
<1> QED
  BY <1>3, <1>4

LEMMA SocketFacts ==
    ASSUME TypeOK, SocketCloses, socket # "deleted"
    PROVE  /\ socket' = "closed"
           /\ pendingRead' \in Int /\ pendingWrite' \in Int
           /\ osRead' \in {"none", "header", "body"} /\ osWrite' \in {"none", "busy"}
           /\ socket # "open" => UNCHANGED <<osRead, osWrite>>
           /\ socket = "open" => osRead' = "none" /\ osWrite' = "none"
BY DEF TypeOK, SocketCloses

LEMMA SendTypes ==
    ASSUME TypeOK, NEW m \in Messages, Send(m)
    PROVE  /\ tasks' \in Seq(Queued) /\ toAddQueue' \in Seq(Messages)
           /\ {outputBuffer', writing'} \subseteq Messages \cup {NoMessage}
           /\ pendingWrite' \in Int /\ osWrite' \in {"none", "busy"}
           /\ writeTimer' \in {"armed", "off"} /\ wireLast' \in Nat
<1>1. Append(toAddQueue, m) \in Seq(Messages)
  BY AppendFacts DEF TypeOK
<1>2. Append(tasks, m) \in Seq(Queued)
  BY QueueAppend DEF TypeOK, Queued
<1>3. BufferWithout(m) \in Messages \cup {NoMessage}
  BY DEF TypeOK, BufferWithout
<1>4. last[m] \in Nat
  BY DEF TypeOK
<1>5. CASE AcceptsMessage /\ pendingWrite > 0
  BY <1>1, <1>5 DEF Send, TypeOK
<1>6. CASE AcceptsMessage /\ ~(pendingWrite > 0)
  BY <1>3, <1>4, <1>6 DEF Send, InternalSend, TypeOK
<1>7. CASE ~AcceptsMessage
  BY <1>2, <1>3, <1>7 DEF Send, TypeOK
<1> QED
  BY <1>5, <1>6, <1>7

-----------------------------------------------------------------------------
(* Every step keeps the types.                                             *)

LEMMA TypeStep ==
    ASSUME ConnectionInv, [Next]_vars
    PROVE  TypeOK'
<1> USE DEF stateVars, ioVars, refVars, bufferVars, dispatcherVars
<1>a. TypeOK
  BY DEF ConnectionInv
<1>b. \A h \in Handlers : Append(ioQueue, h) \in Seq(Handlers)
  BY <1>a, HandlerAppend DEF TypeOK
<1>c. \A x \in Queued : Append(tasks, x) \in Seq(Queued)
  BY <1>a, QueueAppend DEF TypeOK
<1>d. tasks # <<>> => Tail(tasks) \in Seq(Queued)
  BY <1>a, QueueTail DEF TypeOK
<1>e. toAddQueue # <<>> => Tail(toAddQueue) \in Seq(Messages) /\ Head(toAddQueue) \in Messages
  BY <1>a, TailFacts DEF TypeOK
<1>f. \A m \in Messages : Append(autoSend, m) \in Seq(Messages)
  BY <1>a, AppendFacts DEF TypeOK
<1>g. Messages \subseteq Queued /\ TaskNames \subseteq Queued
  BY DEF Queued
<1>h. \A m : BufferWithout(m) \in Messages \cup {NoMessage}
  BY <1>a DEF TypeOK, BufferWithout
<1>1. CASE ReadCompletes
  BY <1>a, <1>b, <1>1 DEF ReadCompletes, TypeOK, Handlers
<1>2. CASE WriteCompletes
  BY <1>a, <1>b, <1>2 DEF WriteCompletes, TypeOK, Handlers
<1>3. CASE ReadTimerExpires
  BY <1>a, <1>b, <1>3 DEF ReadTimerExpires, TypeOK, Handlers
<1>4. CASE WriteTimerExpires
  BY <1>a, <1>b, <1>4 DEF WriteTimerExpires, TypeOK, Handlers
<1>5. CASE ParseHeader
  <2>1. Tail(ioQueue) \in Seq(Handlers)
    BY <1>5, HeadFacts DEF ParseHeader
  <2>2. errors' \subseteq {"read", "write"}
    BY <1>a, <1>5 DEF ParseHeader, ReadFails, TypeOK
  <2>3. CASE connectionState # "OPEN" \/ "read" \in errors'
    <3>1. CloseConnection(tasks) /\ readTimer' = "off" /\ UNCHANGED osRead
      BY <1>5, <2>3 DEF ParseHeader
    <3>2. connectionState' \in {"REQUEST_CLOSE", "CLOSED"} /\ tasks' \in Seq(Queued)
      BY <1>a, <3>1, CloseFacts DEF TypeOK
    <3> QED
      BY <1>a, <1>5, <2>1, <2>2, <3>1, <3>2 DEF ParseHeader, TypeOK
  <2>4. CASE ~(connectionState # "OPEN" \/ "read" \in errors')
    BY <1>a, <1>5, <2>1, <2>2, <2>4 DEF ParseHeader, TypeOK
  <2> QED
    BY <2>3, <2>4
<1>6. CASE ParsePacket
  <2>1. Tail(ioQueue) \in Seq(Handlers)
    BY <1>6, HeadFacts DEF ParsePacket
  <2>2. errors' \subseteq {"read", "write"}
    BY <1>a, <1>6 DEF ParsePacket, ReadFails, TypeOK
  <2>3. CloseConnection(tasks) =>
            connectionState' \in {"REQUEST_CLOSE", "CLOSED"} /\ tasks' \in Seq(Queued)
    BY <1>a, CloseFacts DEF TypeOK
  <2>4. "logout" \in Queued
    BY <1>g DEF TaskNames
  <2>5. /\ connectionState' \in {"OPEN", "CLOSING", "REQUEST_CLOSE", "CLOSED"}
        /\ tasks' \in Seq(Queued)
    BY <1>a, <1>c, <1>6, <2>3, <2>4 DEF ParsePacket, TypeOK
  <2>6. readTimer' \in {"armed", "off"} /\ osRead' \in {"none", "header", "body"}
    BY <1>a, <1>6 DEF ParsePacket, TypeOK
  <2> QED
    BY <1>a, <1>6, <2>1, <2>2, <2>5, <2>6 DEF ParsePacket, TypeOK
<1>7. CASE OnWriteOperation
  <2>1. Tail(ioQueue) \in Seq(Handlers)
    BY <1>7, HeadFacts DEF OnWriteOperation
  <2>2. errors' \subseteq {"read", "write"}
    BY <1>a, <1>7 DEF OnWriteOperation, TypeOK
  <2>3. CASE connectionState # "OPEN" \/ "write" \in errors'
    <3>1. CloseSocket(Tail(ioQueue)) /\ CloseConnection(tasks)
      BY <1>7, <2>3 DEF OnWriteOperation
    <3>2. connectionState' \in {"REQUEST_CLOSE", "CLOSED"} /\ tasks' \in Seq(Queued)
      BY <1>a, <3>1, CloseFacts DEF TypeOK
    <3>3. ioQueue' \in Seq(Handlers)
      BY <1>a, <2>1, <3>1, AfterClose DEF CloseSocket
    <3>4. /\ socket' = "closed"
          /\ pendingRead' \in Int /\ pendingWrite' \in Int
          /\ osRead' \in {"none", "header", "body"} /\ osWrite' \in {"none", "busy"}
      BY <1>a, <1>7, <3>1, SocketAlive, SocketFacts DEF CloseSocket
    <3> QED
      BY <1>a, <1>7, <2>2, <3>2, <3>3, <3>4 DEF OnWriteOperation, TypeOK
  <2>4. CASE ~(connectionState # "OPEN" \/ "write" \in errors')
    <3>1. /\ pendingWrite' \in Int /\ ioQueue' \in Seq(Handlers)
          /\ UNCHANGED <<connectionState, pendingRead, socket, osRead, osWrite, tasks>>
      <4>1. pendingWrite - 1 \in Int
        BY <1>a DEF TypeOK
      <4> QED
        BY <1>7, <2>1, <2>4, <4>1 DEF OnWriteOperation
    <3> QED
      BY <1>a, <1>7, <2>2, <3>1 DEF OnWriteOperation, TypeOK
  <2> QED
    BY <2>3, <2>4
<1>8. CASE WrittenReleased
  BY <1>a, <1>c, <1>g, <1>8 DEF WrittenReleased, TypeOK
<1>9. ASSUME NEW handler \in Timeouts, NEW pending, NEW kind, OnTimeout(handler, pending, kind)
      PROVE  TypeOK'
  <2>1. Tail(ioQueue) \in Seq(Handlers)
    BY <1>9, HeadFacts DEF OnTimeout
  <2>2. CASE IsAlive /\ (pending > 0 \/ kind \in errors)
    <3>1. CloseSocket(Tail(ioQueue)) /\ CloseConnection(tasks)
      BY <1>9, <2>2 DEF OnTimeout
    <3>2. connectionState' \in {"REQUEST_CLOSE", "CLOSED"} /\ tasks' \in Seq(Queued)
      BY <1>a, <3>1, CloseFacts DEF TypeOK
    <3>3. ioQueue' \in Seq(Handlers)
      BY <1>a, <2>1, <3>1, AfterClose DEF CloseSocket
    <3>4. /\ socket' = "closed"
          /\ pendingRead' \in Int /\ pendingWrite' \in Int
          /\ osRead' \in {"none", "header", "body"} /\ osWrite' \in {"none", "busy"}
      BY <1>a, <2>2, <3>1, SocketAlive, SocketFacts DEF CloseSocket
    <3> QED
      BY <1>a, <1>9, <3>2, <3>3, <3>4 DEF OnTimeout, TypeOK
  <2>3. CASE ~(IsAlive /\ (pending > 0 \/ kind \in errors))
    <3>1. /\ ioQueue' \in Seq(Handlers)
          /\ UNCHANGED <<connectionState, pendingRead, pendingWrite, socket, osRead, osWrite,
                         tasks>>
      BY <1>9, <2>1, <2>3 DEF OnTimeout
    <3> QED
      BY <1>a, <1>9, <3>1 DEF OnTimeout, TypeOK
  <2> QED
    BY <2>2, <2>3
<1>10. CASE OnReadTimeout \/ OnWriteTimeout
  BY <1>9, <1>10 DEF OnReadTimeout, OnWriteTimeout, Timeouts
<1>11. CASE OnStopOperation
  <2>1. Tail(ioQueue) \in Seq(Handlers)
    BY <1>11, HeadFacts DEF OnStopOperation
  <2>2. socket' = "deleted"
    BY <1>11, SocketAlive DEF OnStopOperation
  <2> QED
    BY <1>a, <1>11, <2>1, <2>2 DEF OnStopOperation, TypeOK
<1>12. CASE LoginTask
  <2>1. /\ tasks' \in Seq(Queued) /\ client' \in {"none", "linked"} /\ protocolRefs' \in Int
        /\ events' \subseteq EventNames /\ dpc' \in {"body", "refuse", "moveQueue"}
    <3>1. protocolRefs \in Int /\ protocolRefs + 1 \in Int /\ client \in {"none", "linked"}
          /\ events \subseteq EventNames /\ events \cup {"connect"} \subseteq EventNames
      BY <1>a DEF TypeOK, EventNames
    <3> QED
      BY <1>d, <1>12, <3>1 DEF LoginTask, Takes
  <2> QED
    BY <1>a, <1>12, <2>1 DEF LoginTask, TypeOK, DispatcherPlaces
<1>13. CASE ConnectTask
  <2>1. /\ tasks' \in Seq(Queued) /\ client' \in {"none", "linked"} /\ protocolRefs' \in Int
        /\ dpc' \in {"body", "refuse"}
    BY <1>a, <1>d, <1>13 DEF ConnectTask, Takes, TypeOK
  <2> QED
    BY <1>a, <1>13, <2>1 DEF ConnectTask, TypeOK, DispatcherPlaces
<1>14. CASE LogoutTask
  <2>1. Tail(tasks) \in Seq(Queued)
    BY <1>d, <1>14 DEF LogoutTask, Takes
  <2>2. CloseConnection(Tail(tasks)) =>
            connectionState' \in {"REQUEST_CLOSE", "CLOSED"} /\ tasks' \in Seq(Queued)
    BY <1>a, <2>1, CloseFacts
  <2>3. /\ connectionState' \in {"OPEN", "CLOSING", "REQUEST_CLOSE", "CLOSED"}
        /\ tasks' \in Seq(Queued)
    BY <1>a, <1>14, <2>1, <2>2 DEF LogoutTask, TypeOK
  <2> QED
    BY <1>a, <1>14, <2>3 DEF LogoutTask, TypeOK, DispatcherPlaces
<1>15. CASE CloseConnectionTask
  <2>1. tasks' \in Seq(Queued) /\ dpc' = "moveQueue"
    BY <1>d, <1>15 DEF CloseConnectionTask, Takes
  <2>2. /\ protocol' \in {"attached", "detached", "deleted"}
        /\ client' \in {"none", "linked"}
    BY <1>a, <1>15 DEF CloseConnectionTask, ReleaseProtocol, TypeOK
  <2> DEFINE more == events \cup (IF protocol = "attached" THEN ProtocolRetry ELSE {})
  <2>3. more \subseteq EventNames
    BY <1>a DEF TypeOK, ProtocolRetry, EventNames
  <2>4. CASE connectionState # "REQUEST_CLOSE"
    BY <1>a, <1>15, <2>1, <2>2, <2>4 DEF CloseConnectionTask, TypeOK, DispatcherPlaces
  <2>5. CASE connectionState = "REQUEST_CLOSE" /\ (pendingWrite = 0 \/ "write" \in errors)
    <3>1. /\ SocketCloses /\ connectionState' = "CLOSED"
          /\ \E handlers \in HandlersAfterClose(ioQueue) : ReleaseConnection(more, handlers)
      BY <1>15, <2>5 DEF CloseConnectionTask
    <3>2. PICK handlers \in HandlersAfterClose(ioQueue) : ReleaseConnection(more, handlers)
      BY <3>1
    <3>3. handlers \in Seq(Handlers)
      BY <1>a, AfterClose DEF TypeOK
    <3>4. Append(handlers, "stop") \in Seq(Handlers)
      BY <3>3, HandlerAppend DEF Handlers
    <3>5. ioQueue' \in Seq(Handlers) /\ events' \subseteq EventNames
      BY <2>3, <3>2, <3>3, <3>4 DEF ReleaseConnection, EventNames
    <3>6. /\ socket' = "closed"
          /\ pendingRead' \in Int /\ pendingWrite' \in Int
          /\ osRead' \in {"none", "header", "body"} /\ osWrite' \in {"none", "busy"}
      BY <1>a, <2>5, <3>1, SocketAlive, SocketFacts
    <3> QED
      BY <1>a, <1>15, <2>1, <2>2, <3>1, <3>5, <3>6 DEF CloseConnectionTask, TypeOK, DispatcherPlaces
  <2>6. CASE connectionState = "REQUEST_CLOSE" /\ ~(pendingWrite = 0 \/ "write" \in errors)
    <3>1. /\ connectionState' = "CLOSING" /\ events' = more
          /\ UNCHANGED <<pendingRead, pendingWrite, socket, osRead, osWrite, ioQueue>>
      BY <1>15, <2>6 DEF CloseConnectionTask
    <3> QED
      BY <1>a, <1>15, <2>1, <2>2, <2>3, <3>1 DEF CloseConnectionTask, TypeOK, DispatcherPlaces
  <2> QED
    BY <2>4, <2>5, <2>6
<1>16. CASE ReleaseConnectionTask
  <2>1. ioQueue' \in Seq(Handlers) /\ events' \subseteq EventNames
    BY <1>a, <1>b, <1>16 DEF ReleaseConnectionTask, ReleaseConnection, TypeOK, EventNames, Handlers
  <2> QED
    BY <1>a, <1>d, <1>16, <2>1 DEF ReleaseConnectionTask, Takes, TypeOK, DispatcherPlaces
<1>17. CASE ReleaseProtocolTask
  BY <1>a, <1>d, <1>17 DEF ReleaseProtocolTask, ReleaseProtocol, ProtocolRetry, Takes, TypeOK,
                           EventNames, DispatcherPlaces
<1>18. ASSUME NEW m \in Messages, InternalReleaseMessage(m)
       PROVE  TypeOK'
  BY <1>a, <1>d, <1>18 DEF InternalReleaseMessage, Takes, TypeOK, DispatcherPlaces
<1>19. CASE OtherTask
  BY <1>a, <1>19 DEF OtherTask, TypeOK, DispatcherPlaces
<1>20. CASE GameWrites
  <2>a. /\ UNCHANGED <<stateVars, ioVars, protocol, client, toAddQueue, wireLast>>
        /\ UNCHANGED <<tasks, events, dpc, cursor>>
    BY <1>20 DEF GameWrites
  <2>1. writes + 1 \in Nat
    BY <1>a DEF TypeOK
  <2>2. CASE WritesToBuffer
    BY <1>a, <1>20, <2>1, <2>2 DEF GameWrites, WritesToBuffer, TypeOK
  <2>3. ASSUME NEW m \in Messages, WritesToNewMessage(m)
        PROVE  TypeOK'
    <3>1. refCount' \in Int /\ protocolRefs' \in Int
      BY <1>a, <2>3 DEF WritesToNewMessage, TakeMessage, TypeOK
    <3>2. /\ outputBuffer' \in Messages \cup {NoMessage} /\ autoSend' \in Seq(Messages)
          /\ first' \in [Messages -> Nat] /\ last' \in [Messages -> Nat]
      BY <1>a, <1>f, <2>1, <2>3 DEF WritesToNewMessage, TypeOK
    <3>3. overflow' \in {"no", "yes"}
      BY <1>a, <2>3 DEF WritesToNewMessage, TypeOK
    <3>4. writes' \in Nat
      BY <1>20, <2>1 DEF GameWrites
    <3> QED
      <4>1. StateTypes'
        BY <1>a, <2>a, <3>1, <3>2, <3>3, <3>4 DEF TypeOK
      <4>2. IoTypes'
        BY <1>a, <2>a, <3>1, <3>2, <3>3, <3>4 DEF TypeOK
      <4>3. RefTypes'
        BY <1>a, <2>a, <3>1, <3>2, <3>3, <3>4 DEF TypeOK
      <4>4. BufferTypes'
        BY <1>a, <2>a, <3>1, <3>2, <3>3, <3>4 DEF TypeOK
      <4>5. DispatcherTypes'
        BY <1>a, <2>a, <3>1, <3>2, <3>3, <3>4 DEF TypeOK
      <4> HIDE DEF StateTypes, IoTypes, RefTypes, BufferTypes, DispatcherTypes
      <4> QED
        BY <4>1, <4>2, <4>3, <4>4, <4>5 DEF TypeOK
  <2> QED
    BY <1>20, <2>2, <2>3 DEF GameWrites
<1>21. CASE GameDisconnects
  <2>1. connectionState' \in {"REQUEST_CLOSE", "CLOSED"} /\ tasks' \in Seq(Queued)
    BY <1>a, <1>21, CloseFacts DEF GameDisconnects, TypeOK
  <2>2. /\ UNCHANGED <<pendingRead, pendingWrite, errors>>
        /\ UNCHANGED <<ioVars, refVars, bufferVars, events, dpc, cursor>>
    BY <1>21 DEF GameDisconnects
  <2> QED
    <3>1. StateTypes'
      BY <1>a, <2>1, <2>2 DEF TypeOK
    <3>2. IoTypes'
      BY <1>a, <2>1, <2>2 DEF TypeOK
    <3>3. RefTypes'
      BY <1>a, <2>1, <2>2 DEF TypeOK
    <3>4. BufferTypes'
      BY <1>a, <2>1, <2>2 DEF TypeOK
    <3>5. DispatcherTypes'
      BY <1>a, <2>1, <2>2 DEF TypeOK
    <3> HIDE DEF StateTypes, IoTypes, RefTypes, BufferTypes, DispatcherTypes
    <3> QED
      BY <3>1, <3>2, <3>3, <3>4, <3>5 DEF TypeOK
<1>22. CASE BodyEnds
  BY <1>a, <1>22 DEF BodyEnds, TypeOK, DispatcherPlaces
<1>23. CASE RefuseLogin
  <2>a. /\ UNCHANGED <<connectionState, pendingRead, errors, socket, osRead, readTimer, ioQueue>>
        /\ UNCHANGED <<written, protocol, client, autoSend, first, last, writes, overflow,
                       events, cursor>>
    BY <1>23 DEF RefuseLogin
  <2>1. CASE protocol = "attached"
    <3>1. PICK m \in Messages : TakeMessage(m) /\ Send(m)
      BY <1>23, <2>1 DEF RefuseLogin
    <3>2. /\ tasks' \in Seq(Queued) /\ toAddQueue' \in Seq(Messages)
          /\ {outputBuffer', writing'} \subseteq Messages \cup {NoMessage}
          /\ pendingWrite' \in Int /\ osWrite' \in {"none", "busy"}
          /\ writeTimer' \in {"armed", "off"} /\ wireLast' \in Nat
      BY <1>a, <3>1, SendTypes
    <3> QED
      <4>1. refCount' \in Int /\ protocolRefs' \in Int
        BY <1>a, <3>1 DEF TakeMessage, TypeOK
      <4>2. dpc' = "disconnect"
        BY <1>23, <2>1 DEF RefuseLogin
      <4> QED
        <5>1. StateTypes'
          BY <1>a, <2>a, <3>2, <4>1, <4>2 DEF TypeOK
        <5>2. IoTypes'
          BY <1>a, <2>a, <3>2, <4>1, <4>2 DEF TypeOK
        <5>3. RefTypes'
          BY <1>a, <2>a, <3>2, <4>1, <4>2 DEF TypeOK
        <5>4. BufferTypes'
          BY <1>a, <2>a, <3>2, <4>1, <4>2 DEF TypeOK
        <5>5. DispatcherTypes'
          BY <1>a, <2>a, <3>2, <4>1, <4>2 DEF TypeOK, DispatcherPlaces
        <5> HIDE DEF StateTypes, IoTypes, RefTypes, BufferTypes, DispatcherTypes
        <5> QED
          BY <5>1, <5>2, <5>3, <5>4, <5>5 DEF TypeOK
  <2>2. CASE protocol # "attached"
    <3>1. dpc' = "moveQueue"
      BY <1>23, <2>2 DEF RefuseLogin
    <3>2. UNCHANGED <<refCount, protocolRefs, outputBuffer, toAddQueue, pendingWrite,
                      writeTimer, osWrite, writing, wireLast, tasks>>
      BY <1>23, <2>2 DEF RefuseLogin
    <3> QED
      <4>1. StateTypes'
        BY <1>a, <2>a, <3>1, <3>2 DEF TypeOK
      <4>2. IoTypes'
        BY <1>a, <2>a, <3>1, <3>2 DEF TypeOK
      <4>3. RefTypes'
        BY <1>a, <2>a, <3>1, <3>2 DEF TypeOK
      <4>4. BufferTypes'
        BY <1>a, <2>a, <3>1, <3>2 DEF TypeOK
      <4>5. DispatcherTypes'
        BY <1>a, <2>a, <3>1, <3>2 DEF TypeOK, DispatcherPlaces
      <4> HIDE DEF StateTypes, IoTypes, RefTypes, BufferTypes, DispatcherTypes
      <4> QED
        BY <4>1, <4>2, <4>3, <4>4, <4>5 DEF TypeOK
  <2> QED
    BY <2>1, <2>2
<1>24. CASE Disconnect
  <2>1. connectionState' \in {"REQUEST_CLOSE", "CLOSED"} /\ tasks' \in Seq(Queued)
    BY <1>a, <1>24, CloseFacts DEF Disconnect, TypeOK
  <2>2. /\ dpc' = "moveQueue" /\ UNCHANGED <<pendingRead, pendingWrite, errors>>
        /\ UNCHANGED <<ioVars, refVars, bufferVars, events, cursor>>
    BY <1>24 DEF Disconnect
  <2> QED
    <3>1. StateTypes'
      BY <1>a, <2>1, <2>2 DEF TypeOK
    <3>2. IoTypes'
      BY <1>a, <2>1, <2>2 DEF TypeOK
    <3>3. RefTypes'
      BY <1>a, <2>1, <2>2 DEF TypeOK
    <3>4. BufferTypes'
      BY <1>a, <2>1, <2>2 DEF TypeOK
    <3>5. DispatcherTypes'
      BY <1>a, <2>1, <2>2 DEF TypeOK, DispatcherPlaces
    <3> HIDE DEF StateTypes, IoTypes, RefTypes, BufferTypes, DispatcherTypes
    <3> QED
      BY <3>1, <3>2, <3>3, <3>4, <3>5 DEF TypeOK
<1>25. CASE MoveMessage
  <2>1. toAddQueue' \in Seq(Messages) /\ Head(toAddQueue) \in Messages
    BY <1>e, <1>25 DEF MoveMessage
  <2>2. /\ autoSend' \in Seq(Messages) /\ tasks' \in Seq(Queued)
        /\ outputBuffer' \in Messages \cup {NoMessage}
    BY <1>a, <1>c, <1>f, <1>g, <1>h, <1>25, <2>1 DEF MoveMessage, TypeOK
  <2>3. /\ UNCHANGED <<stateVars, ioVars, refVars>>
        /\ UNCHANGED <<first, last, writes, wireLast, overflow, events, dpc, cursor>>
    BY <1>25 DEF MoveMessage
  <2> QED
    <3>1. StateTypes'
      BY <1>a, <2>1, <2>2, <2>3 DEF TypeOK
    <3>2. IoTypes'
      BY <1>a, <2>1, <2>2, <2>3 DEF TypeOK
    <3>3. RefTypes'
      BY <1>a, <2>1, <2>2, <2>3 DEF TypeOK
    <3>4. BufferTypes'
      BY <1>a, <2>1, <2>2, <2>3 DEF TypeOK
    <3>5. DispatcherTypes'
      BY <1>a, <2>1, <2>2, <2>3 DEF TypeOK
    <3> HIDE DEF StateTypes, IoTypes, RefTypes, BufferTypes, DispatcherTypes
    <3> QED
      BY <3>1, <3>2, <3>3, <3>4, <3>5 DEF TypeOK
<1>26. CASE MoveEnds
  BY <1>a, <1>26 DEF MoveEnds, TypeOK, DispatcherPlaces
<1>27. CASE SendLater
  <2>1. cursor' \in Nat \ {0}
    BY <1>a, <1>27 DEF SendLater, TypeOK
  <2>2. UNCHANGED <<stateVars, ioVars, refVars, bufferVars>> /\ UNCHANGED <<tasks, events, dpc>>
    BY <1>27 DEF SendLater
  <2> QED
    <3>1. StateTypes'
      BY <1>a, <2>1, <2>2 DEF TypeOK
    <3>2. IoTypes'
      BY <1>a, <2>1, <2>2 DEF TypeOK
    <3>3. RefTypes'
      BY <1>a, <2>1, <2>2 DEF TypeOK
    <3>4. BufferTypes'
      BY <1>a, <2>1, <2>2 DEF TypeOK
    <3>5. DispatcherTypes'
      BY <1>a, <2>1, <2>2 DEF TypeOK
    <3> HIDE DEF StateTypes, IoTypes, RefTypes, BufferTypes, DispatcherTypes
    <3> QED
      BY <3>1, <3>2, <3>3, <3>4, <3>5 DEF TypeOK
<1>28. CASE SendNow
  <2>1. cursor \in 1 .. Len(autoSend)
    BY <1>a, <1>28 DEF SendNow, TypeOK
  <2>2. autoSend[cursor] \in Messages /\ RemoveAt(autoSend, cursor) \in Seq(Messages)
    BY <1>a, <2>1, RemoveFacts DEF TypeOK
  <2>3. /\ tasks' \in Seq(Queued) /\ toAddQueue' \in Seq(Messages)
        /\ {outputBuffer', writing'} \subseteq Messages \cup {NoMessage}
        /\ pendingWrite' \in Int /\ osWrite' \in {"none", "busy"}
        /\ writeTimer' \in {"armed", "off"} /\ wireLast' \in Nat
    BY <1>a, <1>28, <2>2, SendTypes DEF SendNow
  <2>4. autoSend' \in Seq(Messages)
    BY <1>28, <2>2 DEF SendNow
  <2>5. /\ UNCHANGED <<connectionState, pendingRead, errors, socket, osRead, readTimer, ioQueue>>
        /\ UNCHANGED <<written, refVars, first, last, writes, overflow, events, dpc, cursor>>
    BY <1>28 DEF SendNow
  <2> QED
    <3>1. StateTypes'
      BY <1>a, <2>3, <2>4, <2>5 DEF TypeOK
    <3>2. IoTypes'
      BY <1>a, <2>3, <2>4, <2>5 DEF TypeOK
    <3>3. RefTypes'
      BY <1>a, <2>3, <2>4, <2>5 DEF TypeOK
    <3>4. BufferTypes'
      BY <1>a, <2>3, <2>4, <2>5 DEF TypeOK
    <3>5. DispatcherTypes'
      BY <1>a, <2>3, <2>4, <2>5 DEF TypeOK
    <3> HIDE DEF StateTypes, IoTypes, RefTypes, BufferTypes, DispatcherTypes
    <3> QED
      BY <3>1, <3>2, <3>3, <3>4, <3>5 DEF TypeOK
<1>29. CASE SendAllEnds
  BY <1>a, <1>29 DEF SendAllEnds, TypeOK, DispatcherPlaces
<1>30. ASSUME NEW event \in events, EventDue(event)
       PROVE  TypeOK'
  <2>1. event \in Queued
    BY <1>a, <1>g DEF TypeOK, EventNames, TaskNames
  <2> QED
    BY <1>a, <1>c, <1>30, <2>1 DEF EventDue, TypeOK
<1>31. CASE UNCHANGED vars
  BY <1>a, <1>31 DEF vars, TypeOK
<1> QED
  BY <1>1, <1>2, <1>3, <1>4, <1>5, <1>6, <1>7, <1>8, <1>10, <1>11, <1>12, <1>13, <1>14, <1>15,
     <1>16, <1>17, <1>18, <1>19, <1>20, <1>21, <1>22, <1>23, <1>24, <1>25, <1>26, <1>27, <1>28,
     <1>29, <1>30, <1>31 DEF Next, System, IoThread, Task, SendAll

-----------------------------------------------------------------------------
(* The operations of the system.                                           *)

LEMMA IoUnchanged ==
    ASSUME IoInv, UNCHANGED <<connectionState, pendingRead, pendingWrite, socket, osRead,
                              osWrite, ioQueue, writing>>
    PROVE  IoInv'
BY DEF IoInv, WritesUnderWay, ReadsUnderWay

\* The connection is asked to close, and its socket is not touched.
LEMMA IoRequested ==
    ASSUME IoInv, connectionState' # "OPEN", connectionState' = "CLOSED" => connectionState = "CLOSED",
           UNCHANGED <<pendingRead, pendingWrite, socket, osRead, osWrite, ioQueue, writing>>
    PROVE  IoInv'
BY DEF IoInv, WritesUnderWay, ReadsUnderWay

\* The handlers of reads and writes in the queue, before and after its first is executed.
LEMMA HeadCounts ==
    ASSUME ConnectionInv, NEW handlers, Runs(handlers), NEW S
    PROVE  /\ CountIn(ioQueue, S) \in Nat /\ CountIn(Tail(ioQueue), S) \in Nat
           /\ CountIn(ioQueue, S) = CountIn(Tail(ioQueue), S) + (IF Head(ioQueue) \in S THEN 1 ELSE 0)
<1>1. ioQueue \in Seq(Handlers) /\ ioQueue # <<>> /\ Tail(ioQueue) \in Seq(Handlers)
  BY HeadFacts
<1>2. CountIn(ioQueue, S) \in Nat /\ CountIn(Tail(ioQueue), S) \in Nat
  BY <1>1, CountType
<1>3. CountIn(Tail(ioQueue), S) = CountIn(ioQueue, S) - (IF Head(ioQueue) \in S THEN 1 ELSE 0)
  BY <1>1, HandlerTail
<1> QED
  BY <1>2, <1>3

\* closeSocket: what the system had to do is done with, by handlers.
LEMMA IoSocketCloses ==
    ASSUME ConnectionInv, NEW rest \in Seq(Handlers), SocketCloses, socket # "deleted",
           NEW q \in HandlersAfterClose(rest)
    PROVE  /\ CountIn(q, WriteHandlers) + (IF osWrite' = "none" THEN 0 ELSE 1) =
                CountIn(rest, WriteHandlers) + (IF osWrite = "none" THEN 0 ELSE 1)
           /\ socket' = "closed" /\ osRead' = "none" /\ osWrite' = "none"
<1>1. TypeOK /\ IoInv
  BY DEF ConnectionInv
<1>2. socket' = "closed"
  BY <1>1, SocketFacts
<1>3. osRead' = "none" /\ osWrite' = "none"
  <2>1. CASE socket = "open"
    BY <1>1, <2>1, SocketFacts
  <2>2. CASE socket # "open"
    BY <1>1, <2>2, SocketFacts DEF IoInv
  <2> QED
    BY <2>1, <2>2
<1>4. CountIn(q, WriteHandlers) = CountIn(rest, WriteHandlers)
                + (IF socket = "open" /\ osWrite = "busy" THEN 1 ELSE 0)
  BY <1>1, AfterClose
<1>5. (socket = "open" /\ osWrite = "busy") <=> osWrite # "none"
  BY <1>1 DEF IoInv, TypeOK
<1>6. CountIn(rest, WriteHandlers) \in Nat
  BY CountType
<1> QED
  BY <1>2, <1>3, <1>4, <1>5, <1>6

LEMMA SendIo ==
    ASSUME ConnectionInv, NEW m \in Messages, Send(m),
           UNCHANGED <<connectionState, pendingRead, socket, osRead, ioQueue>>
    PROVE  IoInv'
<1>1. TypeOK /\ IoInv
  BY DEF ConnectionInv
<1>2. CASE AcceptsMessage /\ ~(pendingWrite > 0)
  <2>1. /\ pendingWrite' = pendingWrite + 1 /\ osWrite' = "busy" /\ writing' = m
        /\ connectionState = "OPEN"
    BY <1>2 DEF Send, InternalSend, AcceptsMessage
  <2>2. writing = NoMessage /\ pendingWrite = 0 /\ socket = "open" /\ WritesUnderWay = 0
    BY <1>1, <1>2, <2>1 DEF IoInv
  <2>3. CountIn(ioQueue, WriteHandlers) \in Nat
    BY <1>1, CountType DEF TypeOK
  <2>4. CountIn(ioQueue, WriteHandlers) = 0
    BY <2>2, <2>3 DEF WritesUnderWay
  <2>5. m # NoMessage
    BY ConnectionConstants
  <2>6. WritesUnderWay' = 1
    BY <2>1, <2>4 DEF WritesUnderWay
  <2>7. ReadsUnderWay' = ReadsUnderWay
    BY DEF ReadsUnderWay
  <2> QED
    BY <1>1, <2>1, <2>2, <2>5, <2>6, <2>7 DEF IoInv
<1>3. CASE ~(AcceptsMessage /\ ~(pendingWrite > 0))
  <2>1. UNCHANGED <<pendingWrite, osWrite, writing>>
    BY <1>3 DEF Send
  <2> QED
    BY <1>1, <2>1, IoUnchanged
<1> QED
  BY <1>2, <1>3

LEMMA IoStep ==
    ASSUME ConnectionInv, [Next]_vars
    PROVE  IoInv'
<1> USE DEF stateVars, ioVars, refVars, bufferVars, dispatcherVars
<1>a. TypeOK /\ IoInv
  BY DEF ConnectionInv
<1>b. \A S : CountIn(ioQueue, S) \in Nat
  BY <1>a, CountType DEF TypeOK
<1>c. \A h \in Handlers : \A S :
         CountIn(Append(ioQueue, h), S) = CountIn(ioQueue, S) + (IF h \in S THEN 1 ELSE 0)
  BY <1>a, HandlerAppend DEF TypeOK
<1>d. ReadHandlers \cap WriteHandlers = {} /\ Timeouts \cap (ReadHandlers \cup WriteHandlers) = {}
      /\ "stop" \notin ReadHandlers \cup WriteHandlers
      /\ ReadHandlers \cup WriteHandlers \cup Timeouts \cup {"stop"} \subseteq Handlers
  BY DEF ReadHandlers, WriteHandlers, Timeouts, Handlers
<1>1. CASE ReadCompletes
  <2>1. PICK h \in ReadHandlers : ioQueue' = Append(ioQueue, h)
    BY <1>1 DEF ReadCompletes, ReadHandlers
  <2>2. /\ CountIn(ioQueue', ReadHandlers) = CountIn(ioQueue, ReadHandlers) + 1
        /\ CountIn(ioQueue', WriteHandlers) = CountIn(ioQueue, WriteHandlers)
    BY <1>b, <1>c, <1>d, <2>1
  <2>3. osRead # "none" /\ osRead' = "none"
        /\ UNCHANGED <<connectionState, pendingRead, pendingWrite, socket, osWrite, writing>>
    BY <1>1 DEF ReadCompletes
  <2>4. ReadsUnderWay' = ReadsUnderWay
    BY <1>b, <2>2, <2>3 DEF ReadsUnderWay
  <2>5. WritesUnderWay' = WritesUnderWay
    BY <2>2, <2>3 DEF WritesUnderWay
  <2> QED
    BY <1>a, <2>3, <2>4, <2>5 DEF IoInv
<1>2. CASE WriteCompletes
  <2>1. PICK h \in WriteHandlers : ioQueue' = Append(ioQueue, h)
    BY <1>2 DEF WriteCompletes, WriteHandlers
  <2>2. /\ CountIn(ioQueue', ReadHandlers) = CountIn(ioQueue, ReadHandlers)
        /\ CountIn(ioQueue', WriteHandlers) = CountIn(ioQueue, WriteHandlers) + 1
    BY <1>b, <1>c, <1>d, <2>1
  <2>3. osWrite = "busy" /\ osWrite' = "none"
        /\ UNCHANGED <<connectionState, pendingRead, pendingWrite, socket, osRead, writing>>
    BY <1>2 DEF WriteCompletes
  <2>4. ReadsUnderWay' = ReadsUnderWay
    BY <2>2, <2>3 DEF ReadsUnderWay
  <2>5. WritesUnderWay' = WritesUnderWay
    BY <1>b, <2>2, <2>3 DEF WritesUnderWay
  <2> QED
    BY <1>a, <2>3, <2>4, <2>5 DEF IoInv
<1>3. CASE ReadTimerExpires \/ WriteTimerExpires
  <2>1. PICK h \in Timeouts : ioQueue' = Append(ioQueue, h)
    BY <1>3 DEF ReadTimerExpires, WriteTimerExpires, Timeouts
  <2>2. /\ CountIn(ioQueue', ReadHandlers) = CountIn(ioQueue, ReadHandlers)
        /\ CountIn(ioQueue', WriteHandlers) = CountIn(ioQueue, WriteHandlers)
    BY <1>b, <1>c, <1>d, <2>1
  <2>3. UNCHANGED <<connectionState, pendingRead, pendingWrite, socket, osRead, osWrite, writing>>
    BY <1>3 DEF ReadTimerExpires, WriteTimerExpires
  <2>4. ReadsUnderWay' = ReadsUnderWay /\ WritesUnderWay' = WritesUnderWay
    BY <2>2, <2>3 DEF ReadsUnderWay, WritesUnderWay
  <2> QED
    BY <1>a, <2>3, <2>4 DEF IoInv
<1>4. ASSUME Runs(ReadHandlers), ioQueue' = Tail(ioQueue),
             UNCHANGED <<pendingRead, pendingWrite, socket, osWrite, writing>>,
             \/ CloseConnection(tasks) /\ connectionState' # "OPEN" /\ UNCHANGED osRead
             \/ /\ connectionState = "OPEN" /\ osRead' \in {"header", "body"}
                /\ CloseConnection(tasks) \/ UNCHANGED connectionState
      PROVE  IoInv'
  <2>1. Head(ioQueue) \in ReadHandlers
    BY <1>4, HeadFacts
  <2>2. /\ CountIn(ioQueue, ReadHandlers) = CountIn(ioQueue', ReadHandlers) + 1
        /\ CountIn(ioQueue', ReadHandlers) \in Nat
    BY <1>4, <2>1, HeadCounts
  <2>3. CountIn(ioQueue, WriteHandlers) = CountIn(ioQueue', WriteHandlers)
    <3>1. /\ CountIn(ioQueue, WriteHandlers) =
                CountIn(ioQueue', WriteHandlers) + (IF Head(ioQueue) \in WriteHandlers THEN 1 ELSE 0)
          /\ CountIn(ioQueue', WriteHandlers) \in Nat
      BY <1>4, HeadCounts
    <3> QED
      BY <1>d, <2>1, <3>1
  <2>4. WritesUnderWay' = WritesUnderWay
    BY <1>4, <2>3 DEF WritesUnderWay
  <2>5. CloseConnection(tasks) =>
            connectionState' # "OPEN" /\ (connectionState' = "CLOSED" => connectionState = "CLOSED")
    BY <1>a, CloseFacts DEF TypeOK
  <2>6. CASE CloseConnection(tasks) /\ UNCHANGED osRead
    BY <1>a, <1>4, <2>4, <2>5, <2>6 DEF IoInv
  <2>7. CASE /\ connectionState = "OPEN" /\ osRead' \in {"header", "body"}
             /\ CloseConnection(tasks) \/ UNCHANGED connectionState
    <3>1. ReadsUnderWay = 1 /\ socket = "open"
      BY <1>a, <2>7 DEF IoInv
    <3>2. CountIn(ioQueue', ReadHandlers) = 0
      BY <2>2, <3>1 DEF ReadsUnderWay
    <3>3. ReadsUnderWay' = 1
      BY <2>7, <3>2 DEF ReadsUnderWay
    <3> QED
      BY <1>a, <1>4, <2>4, <2>5, <2>7, <3>1, <3>3 DEF IoInv
  <2> QED
    BY <1>4, <2>6, <2>7
<1>5. CASE ParseHeader
  <2>1. Runs(ReadHandlers) /\ ioQueue' = Tail(ioQueue)
        /\ UNCHANGED <<pendingRead, pendingWrite, socket, osWrite, writing>>
    BY <1>5 DEF ParseHeader, Runs, ReadHandlers
  <2>2. \/ CloseConnection(tasks) /\ UNCHANGED osRead
        \/ connectionState = "OPEN" /\ osRead' = "body" /\ UNCHANGED connectionState
    BY <1>5 DEF ParseHeader
  <2>3. CloseConnection(tasks) => connectionState' # "OPEN"
    BY <1>a, CloseFacts DEF TypeOK
  <2> QED
    BY <1>4, <2>1, <2>2, <2>3
<1>6. CASE ParsePacket
  <2>1. Runs(ReadHandlers) /\ ioQueue' = Tail(ioQueue)
        /\ UNCHANGED <<pendingRead, pendingWrite, socket, osWrite, writing>>
    BY <1>6 DEF ParsePacket, Runs, ReadHandlers
  <2>2. \/ CloseConnection(tasks) /\ UNCHANGED osRead
        \/ /\ connectionState = "OPEN" /\ osRead' = "header"
           /\ CloseConnection(tasks) \/ UNCHANGED connectionState
    BY <1>6 DEF ParsePacket
  <2>3. CloseConnection(tasks) => connectionState' # "OPEN"
    BY <1>a, CloseFacts DEF TypeOK
  <2> QED
    BY <1>4, <2>1, <2>2, <2>3
<1>7. CASE OnWriteOperation
  <2>1. Runs(WriteHandlers) /\ writing' = NoMessage
    BY <1>7 DEF OnWriteOperation, Runs, WriteHandlers
  <2>2. Head(ioQueue) \in WriteHandlers /\ Tail(ioQueue) \in Seq(Handlers)
    BY <2>1, HeadFacts
  <2>3. /\ CountIn(ioQueue, WriteHandlers) = CountIn(Tail(ioQueue), WriteHandlers) + 1
        /\ CountIn(Tail(ioQueue), WriteHandlers) \in Nat
    BY <2>1, <2>2, HeadCounts
  <2>4. WritesUnderWay \in {0, 1} /\ (WritesUnderWay = 1 => writing # NoMessage)
    BY <1>a DEF IoInv
  <2>5. CountIn(Tail(ioQueue), WriteHandlers) = 0 /\ osWrite = "none" /\ writing # NoMessage
    BY <2>3, <2>4 DEF WritesUnderWay
  <2>6. CASE connectionState # "OPEN" \/ "write" \in errors'
    <3>1. SocketCloses /\ ioQueue' \in HandlersAfterClose(Tail(ioQueue)) /\ CloseConnection(tasks)
      BY <1>7, <2>6 DEF OnWriteOperation, CloseSocket
    <3>2. socket # "deleted"
      BY <1>7, SocketAlive
    <3>3. /\ CountIn(ioQueue', WriteHandlers) + (IF osWrite' = "none" THEN 0 ELSE 1) = 0 + 0
          /\ socket' = "closed" /\ osRead' = "none" /\ osWrite' = "none"
      BY <2>2, <2>5, <3>1, <3>2, IoSocketCloses
    <3>4. WritesUnderWay' = 0
      BY <3>3 DEF WritesUnderWay
    <3>5. connectionState' # "OPEN"
      BY <1>a, <3>1, CloseFacts DEF TypeOK
    <3> QED
      BY <2>1, <3>3, <3>4, <3>5 DEF IoInv
  <2>7. CASE ~(connectionState # "OPEN" \/ "write" \in errors')
    <3>1. /\ pendingWrite' = pendingWrite - 1 /\ ioQueue' = Tail(ioQueue)
          /\ UNCHANGED <<connectionState, pendingRead, socket, osRead, osWrite>>
      BY <1>7, <2>7 DEF OnWriteOperation
    <3>2. /\ connectionState = "OPEN" /\ pendingWrite = 1 /\ ReadsUnderWay = 1
          /\ socket = "open" /\ pendingRead = 1
      BY <1>a, <2>5, <2>7 DEF IoInv
    <3>3. CountIn(ioQueue', ReadHandlers) = CountIn(ioQueue, ReadHandlers)
      <4>1. /\ CountIn(ioQueue, ReadHandlers) =
                  CountIn(ioQueue', ReadHandlers) + (IF Head(ioQueue) \in ReadHandlers THEN 1 ELSE 0)
            /\ CountIn(ioQueue', ReadHandlers) \in Nat
        BY <2>1, <3>1, HeadCounts
      <4> QED
        BY <1>d, <2>2, <4>1
    <3>4. ReadsUnderWay' = 1 /\ WritesUnderWay' = 0
      BY <2>5, <3>1, <3>2, <3>3 DEF ReadsUnderWay, WritesUnderWay
    <3> QED
      BY <2>1, <3>1, <3>2, <3>4 DEF IoInv
  <2> QED
    BY <2>6, <2>7
<1>8. ASSUME NEW handler \in Timeouts, NEW pending, NEW kind, OnTimeout(handler, pending, kind)
      PROVE  IoInv'
  <2>1. Runs(Timeouts)
    BY <1>8 DEF OnTimeout, Runs
  <2>2. Head(ioQueue) \in Timeouts /\ Tail(ioQueue) \in Seq(Handlers)
    BY <2>1, HeadFacts
  <2>3. /\ CountIn(Tail(ioQueue), WriteHandlers) = CountIn(ioQueue, WriteHandlers)
        /\ CountIn(Tail(ioQueue), ReadHandlers) = CountIn(ioQueue, ReadHandlers)
    <3>1. Head(ioQueue) \notin WriteHandlers /\ Head(ioQueue) \notin ReadHandlers
      BY <1>d, <2>2
    <3>2. /\ CountIn(ioQueue, WriteHandlers) = CountIn(Tail(ioQueue), WriteHandlers) + 0
          /\ CountIn(Tail(ioQueue), WriteHandlers) \in Nat
      BY <2>1, <3>1, HeadCounts
    <3>3. /\ CountIn(ioQueue, ReadHandlers) = CountIn(Tail(ioQueue), ReadHandlers) + 0
          /\ CountIn(Tail(ioQueue), ReadHandlers) \in Nat
      BY <2>1, <3>1, HeadCounts
    <3> QED
      BY <3>2, <3>3
  <2>4. UNCHANGED writing
    BY <1>8 DEF OnTimeout
  <2>5. CASE IsAlive /\ (pending > 0 \/ kind \in errors)
    <3>1. SocketCloses /\ ioQueue' \in HandlersAfterClose(Tail(ioQueue)) /\ CloseConnection(tasks)
      BY <1>8, <2>5 DEF OnTimeout, CloseSocket
    <3>2. socket # "deleted"
      BY <2>5, SocketAlive
    <3>3. /\ CountIn(ioQueue', WriteHandlers) + (IF osWrite' = "none" THEN 0 ELSE 1) =
                CountIn(ioQueue, WriteHandlers) + (IF osWrite = "none" THEN 0 ELSE 1)
          /\ socket' = "closed" /\ osRead' = "none" /\ osWrite' = "none"
      BY <2>2, <2>3, <3>1, <3>2, IoSocketCloses
    <3>4. WritesUnderWay' = WritesUnderWay
      BY <3>3 DEF WritesUnderWay
    <3>5. connectionState' # "OPEN"
      BY <1>a, <3>1, CloseFacts DEF TypeOK
    <3> QED
      BY <1>a, <2>4, <3>3, <3>4, <3>5 DEF IoInv
  <2>6. CASE ~(IsAlive /\ (pending > 0 \/ kind \in errors))
    <3>1. /\ ioQueue' = Tail(ioQueue)
          /\ UNCHANGED <<connectionState, pendingRead, pendingWrite, socket, osRead, osWrite>>
      BY <1>8, <2>6 DEF OnTimeout
    <3>2. WritesUnderWay' = WritesUnderWay /\ ReadsUnderWay' = ReadsUnderWay
      BY <2>3, <3>1 DEF WritesUnderWay, ReadsUnderWay
    <3> QED
      BY <1>a, <2>4, <3>1, <3>2 DEF IoInv
  <2> QED
    BY <2>5, <2>6
<1>9. CASE OnReadTimeout \/ OnWriteTimeout
  BY <1>8, <1>9 DEF OnReadTimeout, OnWriteTimeout, Timeouts
<1>10. CASE OnStopOperation
  <2>1. Runs({"stop"}) /\ ioQueue' = Tail(ioQueue) /\ "stop" \in ToSet(ioQueue)
    BY <1>10, SocketAlive DEF OnStopOperation
  <2>2. socket' = "deleted" /\ UNCHANGED <<connectionState, osRead, osWrite, writing>>
    BY <1>10, SocketAlive DEF OnStopOperation
  <2>3. connectionState = "CLOSED" /\ socket # "open"
    BY <2>1, StopFacts
  <2>4. Head(ioQueue) = "stop"
    BY <2>1, HeadFacts
  <2>5. /\ CountIn(ioQueue, WriteHandlers) = CountIn(ioQueue', WriteHandlers) + 0
        /\ CountIn(ioQueue', WriteHandlers) \in Nat
    BY <1>d, <2>1, <2>4, HeadCounts
  <2>6. WritesUnderWay' = WritesUnderWay
    BY <2>2, <2>5 DEF WritesUnderWay
  <2> QED
    BY <1>a, <2>2, <2>3, <2>6 DEF IoInv
<1>11. CASE LogoutTask
  <2>1. UNCHANGED <<pendingRead, pendingWrite, socket, osRead, osWrite, ioQueue, writing>>
    BY <1>11 DEF LogoutTask
  <2>2. Tail(tasks) \in Seq(Queued)
    BY <1>a, <1>11, QueueTail DEF LogoutTask, Takes, TypeOK
  <2>3. CASE CloseConnection(Tail(tasks))
    BY <1>a, <2>1, <2>2, <2>3, CloseFacts, IoRequested
  <2>4. CASE UNCHANGED connectionState
    BY <1>a, <2>1, <2>4, IoUnchanged
  <2> QED
    BY <1>11, <2>3, <2>4 DEF LogoutTask
<1>12. CASE GameDisconnects \/ Disconnect
  <2>1. /\ UNCHANGED <<pendingRead, pendingWrite, socket, osRead, osWrite, ioQueue, writing>>
        /\ CloseConnection(tasks)
    BY <1>12 DEF GameDisconnects, Disconnect
  <2>2. connectionState' # "OPEN" /\ (connectionState' = "CLOSED" => connectionState = "CLOSED")
    BY <1>a, <2>1, CloseFacts DEF TypeOK
  <2> QED
    BY <1>a, <2>1, <2>2, IoRequested
<1>13. ASSUME NEW q \in Seq(Handlers), NEW rest,
              ReleaseConnection(rest, q)
       PROVE  CountIn(ioQueue', WriteHandlers) = CountIn(q, WriteHandlers)
  <2>1. ioQueue' = q \/ ioQueue' = Append(q, "stop")
    BY <1>13 DEF ReleaseConnection
  <2>2. CountIn(q, WriteHandlers) \in Nat
    BY CountType
  <2>3. CountIn(Append(q, "stop"), WriteHandlers) = CountIn(q, WriteHandlers) + 0
    BY <1>d, HandlerAppend
  <2>4. CountIn(Append(q, "stop"), WriteHandlers) = CountIn(q, WriteHandlers)
    BY <2>2, <2>3
  <2> QED
    BY <2>1, <2>4
<1>14. CASE CloseConnectionTask
  <2>1. UNCHANGED writing
    BY <1>14 DEF CloseConnectionTask
  <2>2. CASE connectionState # "REQUEST_CLOSE"
    BY <1>a, <1>14, <2>1, <2>2, IoUnchanged DEF CloseConnectionTask
  <2>3. CASE connectionState = "REQUEST_CLOSE" /\ (pendingWrite = 0 \/ "write" \in errors)
    <3>1. /\ connectionState' = "CLOSED"
          /\ SocketCloses
          /\ \E rest : \E q \in HandlersAfterClose(ioQueue) : ReleaseConnection(rest, q)
      BY <1>14, <2>3 DEF CloseConnectionTask
    <3>2. PICK rest, q : q \in HandlersAfterClose(ioQueue) /\ ReleaseConnection(rest, q)
      BY <3>1
    <3>3. q \in Seq(Handlers)
      BY <1>a, <3>2, AfterClose DEF TypeOK
    <3>4. CountIn(ioQueue', WriteHandlers) = CountIn(q, WriteHandlers)
      BY <1>13, <3>2, <3>3
    <3>5. socket # "deleted" /\ ioQueue \in Seq(Handlers)
      BY <1>a, <2>3, SocketAlive DEF TypeOK
    <3>6. /\ CountIn(q, WriteHandlers) + (IF osWrite' = "none" THEN 0 ELSE 1) =
                CountIn(ioQueue, WriteHandlers) + (IF osWrite = "none" THEN 0 ELSE 1)
          /\ socket' = "closed" /\ osRead' = "none" /\ osWrite' = "none"
      BY <3>1, <3>2, <3>5, IoSocketCloses
    <3>7. WritesUnderWay' = WritesUnderWay
      BY <3>4, <3>6 DEF WritesUnderWay
    <3> QED
      BY <1>a, <2>1, <3>1, <3>6, <3>7 DEF IoInv
  <2>4. CASE connectionState = "REQUEST_CLOSE" /\ ~(pendingWrite = 0 \/ "write" \in errors)
    <3>1. /\ connectionState' = "CLOSING"
          /\ UNCHANGED <<pendingRead, pendingWrite, socket, osRead, osWrite, ioQueue>>
      BY <1>14, <2>4 DEF CloseConnectionTask
    <3> QED
      BY <1>a, <2>1, <3>1, IoRequested
  <2> QED
    BY <2>2, <2>3, <2>4
<1>15. CASE ReleaseConnectionTask
  <2>1. /\ ReleaseConnection(events, ioQueue)
        /\ UNCHANGED <<connectionState, pendingRead, pendingWrite, socket, osRead, osWrite, writing>>
    BY <1>15 DEF ReleaseConnectionTask
  <2>2. CountIn(ioQueue', WriteHandlers) = CountIn(ioQueue, WriteHandlers)
    BY <1>a, <1>13, <2>1 DEF TypeOK
  <2>3. connectionState = "CLOSED"
    <3>1. "releaseConnection" \in ToSet(tasks)
      BY <1>a, <1>15, QueueTail DEF ReleaseConnectionTask, Takes, TypeOK
    <3>2. Pending("releaseConnection") > 0
      BY <1>a, <3>1, PendingFacts
    <3> QED
      BY <3>2, StopFacts
  <2>4. WritesUnderWay' = WritesUnderWay
    BY <2>1, <2>2 DEF WritesUnderWay
  <2> QED
    BY <1>a, <2>1, <2>3, <2>4 DEF IoInv
<1>16. CASE RefuseLogin
  <2>1. UNCHANGED <<connectionState, pendingRead, socket, osRead, ioQueue>>
    BY <1>16 DEF RefuseLogin
  <2>2. CASE protocol = "attached"
    <3>1. PICK m \in Messages : Send(m)
      BY <1>16, <2>2 DEF RefuseLogin
    <3> QED
      BY <2>1, <3>1, SendIo
  <2>3. CASE protocol # "attached"
    BY <1>a, <1>16, <2>1, <2>3, IoUnchanged DEF RefuseLogin
  <2> QED
    BY <2>2, <2>3
<1>17. CASE SendNow
  <2>1. cursor \in 1 .. Len(autoSend)
    BY <1>a, <1>17 DEF SendNow, TypeOK
  <2>2. autoSend[cursor] \in Messages
    BY <1>a, <2>1 DEF TypeOK
  <2>3. Send(autoSend[cursor]) /\ UNCHANGED <<connectionState, pendingRead, socket, osRead, ioQueue>>
    BY <1>17 DEF SendNow
  <2> QED
    BY <2>2, <2>3, SendIo
<1>18. CASE \/ WrittenReleased \/ LoginTask \/ ConnectTask \/ ReleaseProtocolTask
            \/ (\E m \in Messages : InternalReleaseMessage(m))
            \/ OtherTask \/ GameWrites \/ BodyEnds \/ MoveMessage \/ MoveEnds \/ SendLater
            \/ SendAllEnds \/ (\E event \in events : EventDue(event)) \/ UNCHANGED vars
  <2>1. UNCHANGED <<connectionState, pendingRead, pendingWrite, socket, osRead, osWrite,
                    ioQueue, writing>>
    BY <1>18 DEF WrittenReleased, LoginTask, ConnectTask, ReleaseProtocolTask, InternalReleaseMessage,
                 OtherTask, GameWrites, BodyEnds, MoveMessage, MoveEnds, SendLater, SendAllEnds,
                 EventDue, vars
  <2> QED
    BY <1>a, <2>1, IoUnchanged
<1> QED
  BY <1>1, <1>2, <1>3, <1>5, <1>6, <1>7, <1>9, <1>10, <1>11, <1>12, <1>14, <1>15, <1>16, <1>17,
     <1>18 DEF Next, System, IoThread, Task, SendAll

-----------------------------------------------------------------------------
(* The handler that stops the connection.                                  *)

\* releaseConnection, when no such handler waits: it comes last, or an event is
\* there instead.
LEMMA ReleaseStops ==
    ASSUME TypeOK, NEW q \in Seq(Handlers), NEW waiting, ReleaseConnection(waiting, q),
           "stop" \notin ToSet(q), socket' # "deleted"
    PROVE  /\ AfterStop(ioQueue')
           /\ HasStopped' = (IF refCount > 0 THEN 0 ELSE 1)
           /\ events' = waiting \cup (IF refCount > 0 THEN {"releaseConnection"} ELSE {})
           /\ refCount > 0 => "stop" \notin ToSet(ioQueue')
<1>1. Occurrences(q, "stop") = 0
  <2>1. Occurrences(q, "stop") \in Nat /\ ~(Occurrences(q, "stop") > 0)
    BY OccursIn
  <2> QED
    BY <2>1
<1>2. CASE refCount > 0
  <2>1. ioQueue' = q /\ events' = waiting \cup {"releaseConnection"}
    BY <1>2 DEF ReleaseConnection
  <2>2. HasStopped' = 0
    BY <1>1, <2>1 DEF HasStopped
  <2> QED
    BY <1>2, <2>1, <2>2, NoStop
<1>3. CASE ~(refCount > 0)
  <2>1. ioQueue' = Append(q, "stop") /\ events' = waiting
    BY <1>3 DEF ReleaseConnection
  <2>2. AfterStop(q)
    BY NoStop
  <2>3. /\ AfterStop(Append(q, "stop"))
        /\ CountIn(Append(q, "stop"), {"stop"}) = CountIn(q, {"stop"}) + 1
    BY <2>2, HandlerAppend DEF Handlers
  <2>4. Occurrences(ioQueue', "stop") = 1
    BY <1>1, <2>1, <2>3 DEF Occurrences
  <2>5. HasStopped' = 1
    BY <2>4 DEF HasStopped
  <2> QED
    BY <1>3, <2>1, <2>3, <2>5
<1> QED
  BY <1>2, <1>3

\* A handler is executed, and it is not this one.
LEMMA StopTail ==
    ASSUME ConnectionInv, NEW handlers, Runs(handlers), "stop" \notin handlers
    PROVE  /\ AfterStop(Tail(ioQueue))
           /\ ToSet(Tail(ioQueue)) \subseteq ToSet(ioQueue)
           /\ Occurrences(Tail(ioQueue), "stop") = Occurrences(ioQueue, "stop")
           /\ Tail(ioQueue) \in Seq(Handlers)
<1>1. ioQueue \in Seq(Handlers) /\ ioQueue # <<>> /\ Head(ioQueue) # "stop"
  BY HeadFacts
<1>2. AfterStop(ioQueue)
  BY DEF ConnectionInv, StopLast
<1>3. /\ CountIn(ioQueue, {"stop"}) \in Nat
      /\ CountIn(Tail(ioQueue), {"stop"}) = CountIn(ioQueue, {"stop"}) - 0
  BY <1>1, HandlerTail, CountType
<1>4. Occurrences(Tail(ioQueue), "stop") = Occurrences(ioQueue, "stop")
  BY <1>3 DEF Occurrences
<1> QED
  BY <1>1, <1>2, <1>4, HandlerTail

\* closeSocket by a handler that is not this one.
LEMMA StopAfterClose ==
    ASSUME ConnectionInv, NEW handlers, Runs(handlers), "stop" \notin handlers,
           CloseSocket(Tail(ioQueue)), socket # "deleted"
    PROVE  StopLast' /\ HasStopped' = HasStopped
<1>1. /\ AfterStop(Tail(ioQueue)) /\ Tail(ioQueue) \in Seq(Handlers)
      /\ ToSet(Tail(ioQueue)) \subseteq ToSet(ioQueue)
      /\ Occurrences(Tail(ioQueue), "stop") = Occurrences(ioQueue, "stop")
  BY StopTail
<1>2. TypeOK /\ ioQueue' \in HandlersAfterClose(Tail(ioQueue)) /\ SocketCloses
  BY DEF ConnectionInv, CloseSocket
<1>3. /\ socket # "open" => ioQueue' = Tail(ioQueue)
      /\ Occurrences(ioQueue', "stop") = Occurrences(Tail(ioQueue), "stop")
      /\ "stop" \notin ToSet(Tail(ioQueue)) => "stop" \notin ToSet(ioQueue')
      /\ ioQueue' \in Seq(Handlers)
  BY <1>1, <1>2, AfterClose
<1>4. socket' = "closed"
  BY <1>2, SocketFacts
<1>5. socket = "open" => "stop" \notin ToSet(ioQueue)
  BY StopFacts
<1>6. AfterStop(ioQueue')
  BY <1>1, <1>3, <1>5, NoStop
<1>7. HasStopped' = HasStopped
  BY <1>1, <1>3, <1>4 DEF HasStopped
<1> QED
  BY <1>4, <1>6, <1>7 DEF StopLast

LEMMA StopStep ==
    ASSUME ConnectionInv, [Next]_vars
    PROVE  /\ StopLast'
           /\ HasStopped' = HasStopped \/ CloseConnectionTask \/ ReleaseConnectionTask
<1> USE DEF stateVars, ioVars, refVars, bufferVars, dispatcherVars
<1>a. TypeOK /\ IoInv /\ StopLast
  BY DEF ConnectionInv
<1>b. \A h \in Handlers \ {"stop"} : AfterStop(ioQueue) /\ (h \in Timeouts \/ "stop" \notin ToSet(ioQueue)) =>
         /\ AfterStop(Append(ioQueue, h))
         /\ ToSet(Append(ioQueue, h)) = ToSet(ioQueue) \cup {h}
         /\ Occurrences(Append(ioQueue, h), "stop") = Occurrences(ioQueue, "stop")
  <2> SUFFICES ASSUME NEW h \in Handlers \ {"stop"}, AfterStop(ioQueue),
                      h \in Timeouts \/ "stop" \notin ToSet(ioQueue)
               PROVE  /\ AfterStop(Append(ioQueue, h))
                      /\ ToSet(Append(ioQueue, h)) = ToSet(ioQueue) \cup {h}
                      /\ Occurrences(Append(ioQueue, h), "stop") = Occurrences(ioQueue, "stop")
    OBVIOUS
  <2>1. ioQueue \in Seq(Handlers)
    BY <1>a DEF TypeOK
  <2>2. /\ AfterStop(Append(ioQueue, h))
        /\ ToSet(Append(ioQueue, h)) = ToSet(ioQueue) \cup {h}
        /\ CountIn(Append(ioQueue, h), {"stop"}) = CountIn(ioQueue, {"stop"}) + 0
        /\ CountIn(ioQueue, {"stop"}) \in Nat
    BY <2>1, HandlerAppend, CountType
  <2> QED
    BY <2>2 DEF Occurrences
<1>1. CASE ReadCompletes \/ WriteCompletes
  <2>1. socket = "open" /\ UNCHANGED socket
    BY <1>a, <1>1 DEF ReadCompletes, WriteCompletes, IoInv
  <2>2. "stop" \notin ToSet(ioQueue)
    BY <2>1, StopFacts
  <2>3. PICK h \in Handlers \ {"stop"} : ioQueue' = Append(ioQueue, h)
    BY <1>1 DEF ReadCompletes, WriteCompletes, Handlers
  <2>4. AfterStop(ioQueue') /\ Occurrences(ioQueue', "stop") = Occurrences(ioQueue, "stop")
    BY <1>a, <1>b, <2>2, <2>3 DEF StopLast
  <2> QED
    BY <2>1, <2>4 DEF StopLast, HasStopped
<1>2. CASE ReadTimerExpires \/ WriteTimerExpires
  <2>1. UNCHANGED socket
    BY <1>2 DEF ReadTimerExpires, WriteTimerExpires
  <2>2. PICK h \in Timeouts : ioQueue' = Append(ioQueue, h)
    BY <1>2 DEF ReadTimerExpires, WriteTimerExpires, Timeouts
  <2>3. h \in Handlers \ {"stop"}
    BY <2>2 DEF Timeouts, Handlers
  <2>4. /\ AfterStop(ioQueue') /\ Occurrences(ioQueue', "stop") = Occurrences(ioQueue, "stop")
        /\ ToSet(ioQueue') = ToSet(ioQueue) \cup {h}
    BY <1>a, <1>b, <2>2, <2>3 DEF StopLast
  <2> QED
    BY <1>a, <2>1, <2>2, <2>4 DEF StopLast, HasStopped
<1>3. ASSUME NEW handlers, Runs(handlers), "stop" \notin handlers, ioQueue' = Tail(ioQueue),
             UNCHANGED socket
      PROVE  StopLast' /\ HasStopped' = HasStopped
  <2>1. /\ AfterStop(ioQueue')
        /\ ToSet(ioQueue') \subseteq ToSet(ioQueue)
        /\ Occurrences(ioQueue', "stop") = Occurrences(ioQueue, "stop")
    BY <1>3, StopTail
  <2> QED
    BY <1>a, <1>3, <2>1 DEF StopLast, HasStopped
<1>4. CASE ParseHeader \/ ParsePacket
  <2>1. Runs(ReadHandlers) /\ ioQueue' = Tail(ioQueue) /\ UNCHANGED socket
    BY <1>4 DEF ParseHeader, ParsePacket, Runs, ReadHandlers
  <2>2. "stop" \notin ReadHandlers
    BY DEF ReadHandlers
  <2> QED
    BY <1>3, <2>1, <2>2
<1>5. CASE OnWriteOperation
  <2>1. Runs({"write", "writeError"}) /\ "stop" \notin {"write", "writeError"}
    BY <1>5 DEF OnWriteOperation
  <2>2. \/ CloseSocket(Tail(ioQueue))
        \/ ioQueue' = Tail(ioQueue) /\ UNCHANGED socket
    BY <1>5 DEF OnWriteOperation
  <2> QED
    BY <1>3, <1>5, <2>1, <2>2, StopAfterClose, SocketAlive
<1>6. ASSUME NEW handler \in Timeouts, NEW pending, NEW kind, OnTimeout(handler, pending, kind)
      PROVE  StopLast' /\ HasStopped' = HasStopped
  <2>1. Runs({handler}) /\ "stop" \notin {handler}
    BY <1>6 DEF OnTimeout, Timeouts
  <2>2. \/ CloseSocket(Tail(ioQueue)) /\ socket # "deleted"
        \/ ioQueue' = Tail(ioQueue) /\ UNCHANGED socket
    BY <1>6, SocketAlive DEF OnTimeout
  <2> QED
    BY <1>3, <2>1, <2>2, StopAfterClose
<1>7. CASE OnReadTimeout \/ OnWriteTimeout
  BY <1>6, <1>7 DEF OnReadTimeout, OnWriteTimeout, Timeouts
<1>8. CASE OnStopOperation
  <2>1. /\ Runs({"stop"}) /\ ioQueue' = Tail(ioQueue)
        /\ socket' = "deleted" /\ socket # "deleted"
    BY <1>8, SocketAlive DEF OnStopOperation
  <2>2. ioQueue \in Seq(Handlers) /\ ioQueue # <<>> /\ Head(ioQueue) = "stop"
    BY <2>1, HeadFacts
  <2>3. /\ AfterStop(ioQueue') /\ ToSet(ioQueue') \subseteq Timeouts
        /\ CountIn(ioQueue', {"stop"}) = CountIn(ioQueue, {"stop"}) - 1
        /\ CountIn(ioQueue, {"stop"}) \in Nat
    BY <1>a, <2>1, <2>2, HandlerTail, CountType DEF StopLast
  <2>4. HasStopped' = HasStopped
    BY <2>1, <2>3 DEF HasStopped, Occurrences
  <2> QED
    BY <2>3, <2>4 DEF StopLast
<1>9. CASE CloseConnectionTask
  <2>1. CASE /\ connectionState = "REQUEST_CLOSE"
             /\ pendingWrite = 0 \/ "write" \in errors
    <3>1. /\ SocketCloses
          /\ \E waiting : \E q \in HandlersAfterClose(ioQueue) : ReleaseConnection(waiting, q)
      BY <1>9, <2>1 DEF CloseConnectionTask
    <3>2. PICK waiting, q : q \in HandlersAfterClose(ioQueue) /\ ReleaseConnection(waiting, q)
      BY <3>1
    <3>3. "stop" \notin ToSet(ioQueue) /\ socket # "deleted"
      BY <2>1, StopFacts, SocketAlive
    <3>4. q \in Seq(Handlers) /\ "stop" \notin ToSet(q)
      BY <1>a, <3>2, <3>3, AfterClose DEF TypeOK
    <3>5. socket' = "closed"
      BY <1>a, <3>1, <3>3, SocketFacts
    <3>6. AfterStop(ioQueue')
      BY <1>a, <3>2, <3>4, <3>5, ReleaseStops
    <3> QED
      BY <1>9, <3>5, <3>6 DEF StopLast
  <2>2. CASE ~(connectionState = "REQUEST_CLOSE" /\ (pendingWrite = 0 \/ "write" \in errors))
    <3>1. UNCHANGED <<ioQueue, socket>>
      BY <1>9, <2>2 DEF CloseConnectionTask
    <3> QED
      BY <1>a, <1>9, <3>1 DEF StopLast
  <2> QED
    BY <2>1, <2>2
<1>10. CASE ReleaseConnectionTask
  <2>1. /\ ReleaseConnection(events, ioQueue) /\ UNCHANGED socket
        /\ "releaseConnection" \in ToSet(tasks)
    BY <1>a, <1>10, QueueTail DEF ReleaseConnectionTask, Takes, TypeOK
  <2>2. HasStopped = 0
    BY <1>a, <2>1, PendingFacts, StopFacts
  <2>3. "stop" \notin ToSet(ioQueue) /\ socket' # "deleted"
    BY <2>1, <2>2, StopFacts
  <2>4. AfterStop(ioQueue')
    BY <1>a, <2>1, <2>3, ReleaseStops DEF TypeOK
  <2> QED
    BY <1>10, <2>3, <2>4 DEF StopLast
<1>11. CASE \/ WrittenReleased \/ LoginTask \/ ConnectTask \/ LogoutTask \/ ReleaseProtocolTask
            \/ (\E m \in Messages : InternalReleaseMessage(m))
            \/ OtherTask \/ GameWrites \/ GameDisconnects \/ BodyEnds \/ RefuseLogin \/ Disconnect
            \/ MoveMessage \/ MoveEnds \/ SendLater \/ SendNow
            \/ SendAllEnds \/ (\E event \in events : EventDue(event)) \/ UNCHANGED vars
  <2>1. UNCHANGED <<socket, ioQueue>>
    BY <1>11 DEF WrittenReleased, LoginTask, ConnectTask, LogoutTask, ReleaseProtocolTask,
                 InternalReleaseMessage, OtherTask, GameWrites, GameDisconnects, BodyEnds, RefuseLogin,
                 Disconnect, MoveMessage, MoveEnds, SendLater, SendNow, SendAllEnds, EventDue, vars
  <2> QED
    BY <1>a, <2>1 DEF StopLast, HasStopped
<1> QED
  BY <1>1, <1>2, <1>4, <1>5, <1>7, <1>8, <1>9, <1>10, <1>11
     DEF Next, System, IoThread, Task, SendAll

-----------------------------------------------------------------------------
(* The tasks and events of the connection and its protocol.                *)

TasksInv == CloseInv /\ ProtocolInv

LEMMA NamesAreNoMessages ==
    TaskNames \cap Messages = {} /\ TaskNames \subseteq Queued /\ Messages \subseteq Queued
BY ConnectionConstants DEF Queued

\* The list, the events and the objects stay.
LEMMA TasksSame ==
    ASSUME TasksInv, HasStopped' = HasStopped,
           UNCHANGED <<connectionState, protocol, client, tasks, events>>
    PROVE  TasksInv'
BY DEF TasksInv, CloseInv, ProtocolInv, Pending, Connecting

\* Only the counts and the order of the named tasks matter.
LEMMA TasksLike ==
    ASSUME TypeOK, TasksInv, HasStopped' = HasStopped,
           UNCHANGED <<connectionState, protocol, client, events>>,
           \A name \in TaskNames : Occurrences(tasks', name) = Occurrences(tasks, name),
           \A name \in TaskNames : name \in ToSet(tasks') <=> name \in ToSet(tasks),
           LoginFirst(tasks'), LogoutsBefore(tasks')
    PROVE  TasksInv'
<1>1. \A name \in TaskNames : Pending(name)' = Pending(name)
  BY DEF Pending
<1>2. Connecting' <=> Connecting
  BY DEF Connecting, TaskNames
<1> QED
  BY <1>1, <1>2 DEF TasksInv, CloseInv, ProtocolInv, TaskNames

LEMMA TasksMessage ==
    ASSUME TypeOK, TasksInv, NEW m \in Messages, tasks' = Append(tasks, m),
           HasStopped' = HasStopped, UNCHANGED <<connectionState, protocol, client, events>>
    PROVE  TasksInv'
<1>1. m \in Queued /\ m \notin TaskNames
  BY NamesAreNoMessages
<1>2. /\ \A name : Occurrences(tasks', name) = Occurrences(tasks, name) + (IF m = name THEN 1 ELSE 0)
      /\ ToSet(tasks') = ToSet(tasks) \cup {m}
      /\ LoginFirst(tasks) => LoginFirst(tasks')
      /\ LogoutsBefore(tasks) => LogoutsBefore(tasks')
  BY <1>1, QueueAppend DEF TypeOK, TaskNames
<1>3. \A name : Occurrences(tasks, name) \in Nat
  BY PendingFacts
<1>4. \A name \in TaskNames : Occurrences(tasks', name) = Occurrences(tasks, name)
  BY <1>1, <1>2, <1>3
<1>5. LoginFirst(tasks') /\ LogoutsBefore(tasks')
  BY <1>2 DEF TasksInv, ProtocolInv
<1>6. \A name \in TaskNames : name \in ToSet(tasks') <=> name \in ToSet(tasks)
  BY <1>1, <1>2
<1> QED
  BY <1>4, <1>5, <1>6, TasksLike

\* closeConnection, with the list as it is or without a logout.
LEMMA TasksClose ==
    ASSUME TypeOK, TasksInv, NEW queued \in Seq(Queued), CloseConnection(queued),
           HasStopped' = HasStopped, UNCHANGED <<protocol, client, events>>,
           \A name \in TaskNames \ {"logout"} : Occurrences(queued, name) = Occurrences(tasks, name),
           \A name \in TaskNames \ {"logout"} : name \in ToSet(queued) <=> name \in ToSet(tasks),
           "logout" \in ToSet(queued) => "logout" \in ToSet(tasks),
           LoginFirst(queued), LogoutsBefore(queued)
    PROVE  TasksInv'
<1>1. /\ connectionState' \in {"REQUEST_CLOSE", "CLOSED"}
      /\ connectionState' = "CLOSED" <=> connectionState = "CLOSED"
      /\ \A name : name # "close" =>
            /\ Occurrences(tasks', name) = Occurrences(queued, name)
            /\ name \in ToSet(tasks') <=> name \in ToSet(queued)
      /\ Occurrences(tasks', "close") = Occurrences(queued, "close")
                + (IF connectionState = "REQUEST_CLOSE" THEN 0 ELSE
                   IF connectionState' = "REQUEST_CLOSE" THEN 1 ELSE 0)
      /\ LoginFirst(tasks') /\ LogoutsBefore(tasks')
  BY CloseFacts
<1>2. \A name \in TaskNames \ {"logout", "close"} : Pending(name)' = Pending(name)
  BY <1>1 DEF Pending
<1>3. Pending("close")' = (IF connectionState' = "REQUEST_CLOSE" THEN 1 ELSE 0)
  <2>1. "close" \notin events
    BY DEF TypeOK, EventNames
  <2>2. Occurrences(tasks, "close") = (IF connectionState = "REQUEST_CLOSE" THEN 1 ELSE 0)
    <3>1. Pending("close") = Occurrences(tasks, "close") + 0
      BY <2>1 DEF Pending
    <3>2. Pending("close") = (IF connectionState = "REQUEST_CLOSE" THEN 1 ELSE 0)
      BY DEF TasksInv, CloseInv
    <3>3. Occurrences(tasks, "close") \in Nat
      BY PendingFacts
    <3> QED
      BY <3>1, <3>2, <3>3
  <2>3. Occurrences(queued, "close") = Occurrences(tasks, "close")
    BY DEF TaskNames
  <2>4. Occurrences(tasks', "close") = (IF connectionState' = "REQUEST_CLOSE" THEN 1 ELSE 0)
    <3>1. CASE connectionState = "REQUEST_CLOSE"
      <4>1. connectionState' = "REQUEST_CLOSE"
        BY <1>1, <3>1
      <4> QED
        BY <1>1, <2>2, <2>3, <3>1, <4>1
    <3>2. CASE connectionState # "REQUEST_CLOSE"
      BY <1>1, <2>2, <2>3, <3>2
    <3> QED
      BY <3>1, <3>2
  <2> QED
    BY <2>1, <2>4 DEF Pending
<1>4. Connecting' <=> Connecting
  BY <1>1 DEF Connecting, TaskNames
<1>5. CloseInv'
  <2>1. Pending("releaseConnection")' = Pending("releaseConnection")
    BY <1>2 DEF TaskNames
  <2> QED
    BY <1>1, <1>3, <2>1 DEF TasksInv, CloseInv
<1>6. ProtocolInv'
  <2>1. /\ Pending("releaseProtocol")' = Pending("releaseProtocol")
        /\ Pending("connect")' = Pending("connect")
    BY <1>2 DEF TaskNames
  <2>2. /\ "login" \in ToSet(tasks') => "login" \in ToSet(tasks)
        /\ "logout" \in ToSet(tasks') => "logout" \in ToSet(tasks)
    BY <1>1 DEF TaskNames
  <2> QED
    BY <1>1, <1>4, <2>1, <2>2 DEF TasksInv, ProtocolInv
<1> QED
  BY <1>5, <1>6 DEF TasksInv

\* The case of the list as it is.
LEMMA TasksCloseNow ==
    ASSUME TypeOK, TasksInv, CloseConnection(tasks),
           HasStopped' = HasStopped, UNCHANGED <<protocol, client, events>>
    PROVE  TasksInv'
<1>1. tasks \in Seq(Queued) /\ LoginFirst(tasks) /\ LogoutsBefore(tasks)
  BY DEF TypeOK, TasksInv, ProtocolInv
<1> QED
  BY <1>1, TasksClose

\* The first task of the list.
LEMMA TaskHead ==
    ASSUME TypeOK, TasksInv, NEW task, Takes(task)
    PROVE  /\ tasks # <<>> /\ Head(tasks) = task /\ task \in ToSet(tasks) /\ task \in Queued
           /\ Tail(tasks) \in Seq(Queued)
           /\ \A name : name # task =>
                /\ Occurrences(Tail(tasks), name) = Occurrences(tasks, name)
                /\ name \in ToSet(Tail(tasks)) <=> name \in ToSet(tasks)
           /\ Occurrences(Tail(tasks), task) = Occurrences(tasks, task) - 1
           /\ ToSet(Tail(tasks)) \subseteq ToSet(tasks)
           /\ LoginFirst(Tail(tasks)) /\ "login" \notin ToSet(Tail(tasks))
           /\ LogoutsBefore(Tail(tasks))
           /\ task = "close" => "logout" \notin ToSet(tasks)
<1>1. tasks \in Seq(Queued) /\ tasks # <<>> /\ Head(tasks) = task
  BY DEF TypeOK, Takes
<1>2. LoginFirst(tasks) /\ LogoutsBefore(tasks)
  BY DEF TasksInv, ProtocolInv
<1>3. /\ Tail(tasks) \in Seq(Queued) /\ Head(tasks) \in Queued
      /\ ToSet(tasks) = ToSet(Tail(tasks)) \cup {Head(tasks)}
      /\ \A name : Occurrences(Tail(tasks), name) =
                       Occurrences(tasks, name) - (IF Head(tasks) = name THEN 1 ELSE 0)
      /\ LoginFirst(tasks) => LoginFirst(Tail(tasks)) /\ "login" \notin ToSet(Tail(tasks))
      /\ LogoutsBefore(tasks) => LogoutsBefore(Tail(tasks))
      /\ LogoutsBefore(tasks) /\ Head(tasks) = "close" => "logout" \notin ToSet(tasks)
  BY <1>1, QueueTail
<1>4. ASSUME NEW name, name # task
      PROVE  Occurrences(Tail(tasks), name) = Occurrences(tasks, name)
  <2>1. Occurrences(Tail(tasks), name) = Occurrences(tasks, name) - 0
    BY <1>1, <1>3, <1>4
  <2>2. Occurrences(tasks, name) \in Nat
    BY PendingFacts
  <2> QED
    BY <2>1, <2>2
<1> QED
  BY <1>1, <1>2, <1>3, <1>4

\* A task that is neither about closing nor bound to the protocol, or the first
\* login: what stays of the list.
LEMMA TasksTail ==
    ASSUME TypeOK, TasksInv, NEW task, Takes(task),
           task \notin {"close", "releaseConnection", "releaseProtocol", "connect"},
           tasks' = Tail(tasks), HasStopped' = HasStopped,
           UNCHANGED <<connectionState, protocol, client, events>>
    PROVE  TasksInv'
<1>1. /\ \A name : name # task =>
            /\ Occurrences(tasks', name) = Occurrences(tasks, name)
            /\ name \in ToSet(tasks') <=> name \in ToSet(tasks)
      /\ ToSet(tasks') \subseteq ToSet(tasks)
      /\ LoginFirst(tasks') /\ LogoutsBefore(tasks')
  BY TaskHead
<1>2. \A name \in {"close", "releaseConnection", "releaseProtocol", "connect"} :
         Pending(name)' = Pending(name)
  BY <1>1 DEF Pending
<1>3. Connecting' <=> Connecting
  BY <1>1 DEF Connecting
<1>4. CloseInv'
  BY <1>2 DEF TasksInv, CloseInv
<1>5. ProtocolInv'
  BY <1>1, <1>2, <1>3 DEF TasksInv, ProtocolInv
<1> QED
  BY <1>4, <1>5 DEF TasksInv

LEMMA LoginTaskInv ==
    ASSUME ConnectionInv, LoginTask, HasStopped' = HasStopped
    PROVE  TasksInv'
<1> USE DEF stateVars, ioVars, bufferVars
<1>a. TypeOK /\ TasksInv
  BY DEF ConnectionInv, TasksInv
<1>b. Takes("login") /\ tasks' = Tail(tasks) /\ UNCHANGED <<connectionState, protocol>>
  BY DEF LoginTask
<1>1. /\ "login" \in ToSet(tasks)
      /\ \A name : name # "login" =>
            /\ Occurrences(tasks', name) = Occurrences(tasks, name)
            /\ name \in ToSet(tasks') <=> name \in ToSet(tasks)
      /\ LoginFirst(tasks') /\ LogoutsBefore(tasks') /\ "login" \notin ToSet(tasks')
  BY <1>a, <1>b, TaskHead
<1>2. protocol = "attached" /\ ~Connecting
  BY <1>a, <1>1 DEF TasksInv, ProtocolInv
<1>3. events' = events \/ events' = events \cup {"connect"}
  BY DEF LoginTask
<1>4. Pending("connect")' <= 1
  <2>1. "connect" \notin ToSet(tasks)
    BY <1>2 DEF Connecting
  <2>2. Occurrences(tasks, "connect") = 0
    <3>1. /\ Occurrences(tasks, "connect") \in Nat
          /\ Occurrences(tasks, "connect") > 0 <=> "connect" \in ToSet(tasks)
      BY <1>a, PendingFacts
    <3> QED
      BY <2>1, <3>1
  <2>3. Occurrences(tasks', "connect") = 0
    BY <1>1, <2>2
  <2> QED
    BY <2>3 DEF Pending
<1>5. \A name \in {"close", "releaseConnection", "releaseProtocol"} : Pending(name)' = Pending(name)
  BY <1>1, <1>3 DEF Pending
<1>6. CloseInv'
  BY <1>a, <1>b, <1>5 DEF TasksInv, CloseInv
<1>7. ProtocolInv'
  BY <1>a, <1>b, <1>1, <1>2, <1>4, <1>5 DEF TasksInv, ProtocolInv
<1> QED
  BY <1>6, <1>7 DEF TasksInv

LEMMA ConnectTaskInv ==
    ASSUME ConnectionInv, ConnectTask, HasStopped' = HasStopped
    PROVE  TasksInv'
<1> USE DEF stateVars, ioVars, bufferVars
<1>a. TypeOK /\ TasksInv
  BY DEF ConnectionInv, TasksInv
<1>b. Takes("connect") /\ tasks' = Tail(tasks) /\ UNCHANGED <<connectionState, protocol, events>>
  BY DEF ConnectTask
<1>1. /\ "connect" \in ToSet(tasks)
      /\ \A name : name # "connect" =>
            /\ Occurrences(tasks', name) = Occurrences(tasks, name)
            /\ name \in ToSet(tasks') <=> name \in ToSet(tasks)
      /\ Occurrences(tasks', "connect") = Occurrences(tasks, "connect") - 1
      /\ LoginFirst(tasks') /\ LogoutsBefore(tasks') /\ "login" \notin ToSet(tasks')
  BY <1>a, <1>b, TaskHead
<1>2. Connecting
  BY <1>1 DEF Connecting
<1>3. protocol # "deleted"
  <2>1. protocolRefs = Cardinality(Outstanding) + 1 /\ Cardinality(Outstanding) \in Nat
    BY <1>2, FS_CardinalityType DEF ConnectionInv, CountInv
  <2>2. protocolRefs > 0
    BY <2>1
  <2> QED
    BY <2>2 DEF ConnectionInv, CountInv
<1>4. Pending("connect")' <= 1
  <2>1. Occurrences(tasks, "connect") \in Nat /\ Pending("connect") <= 1
    BY <1>a, PendingFacts DEF TasksInv, ProtocolInv
  <2>2. Pending("connect")' = Pending("connect") - 1 /\ Pending("connect") \in Nat
    <3>1. Pending("connect") \in Nat
      BY <1>a, PendingFacts
    <3> QED
      BY <1>b, <1>1, <2>1, <3>1 DEF Pending
  <2> QED
    BY <2>1, <2>2
<1>5. \A name \in {"close", "releaseConnection", "releaseProtocol"} : Pending(name)' = Pending(name)
  BY <1>b, <1>1 DEF Pending
<1>6. CloseInv'
  BY <1>a, <1>b, <1>5 DEF TasksInv, CloseInv
<1>7. ProtocolInv'
  BY <1>a, <1>b, <1>1, <1>3, <1>4, <1>5 DEF TasksInv, ProtocolInv
<1> QED
  BY <1>6, <1>7 DEF TasksInv

\* The task that closes the connection: the protocol is released first.
LEMMA CloseTaskInv ==
    ASSUME ConnectionInv, CloseConnectionTask
    PROVE  TasksInv'
<1>a. TypeOK /\ TasksInv
  BY DEF ConnectionInv, TasksInv
<1>b. Takes("close") /\ tasks' = Tail(tasks)
  BY DEF CloseConnectionTask
<1>1. /\ "close" \in ToSet(tasks) /\ "logout" \notin ToSet(tasks)
      /\ \A name : name # "close" =>
            /\ Occurrences(tasks', name) = Occurrences(tasks, name)
            /\ name \in ToSet(tasks') <=> name \in ToSet(tasks)
      /\ Occurrences(tasks', "close") = Occurrences(tasks, "close") - 1
      /\ LoginFirst(tasks') /\ LogoutsBefore(tasks') /\ "login" \notin ToSet(tasks')
  BY <1>a, <1>b, TaskHead
<1>2. "close" \notin events
  BY <1>a DEF TypeOK, EventNames
<1>3. connectionState = "REQUEST_CLOSE" /\ Occurrences(tasks', "close") = 0
  <2>1. Occurrences(tasks, "close") \in Nat /\ Occurrences(tasks, "close") > 0
    BY <1>a, <1>1, PendingFacts
  <2>2. Pending("close") = Occurrences(tasks, "close")
    BY <1>2, <2>1 DEF Pending
  <2>3. Pending("close") = (IF connectionState = "REQUEST_CLOSE" THEN 1 ELSE 0)
    BY <1>a DEF TasksInv, CloseInv
  <2> QED
    BY <1>1, <2>1, <2>2, <2>3
<1>4. HasStopped = 0 /\ Pending("releaseConnection") = 0
  BY <1>3, StopFacts
<1>5. "releaseConnection" \notin events /\ Occurrences(tasks, "releaseConnection") = 0
  <2>1. /\ Pending("releaseConnection") > 0 <=>
                "releaseConnection" \in ToSet(tasks) \cup events
        /\ Occurrences(tasks, "releaseConnection") \in Nat
        /\ Occurrences(tasks, "releaseConnection") > 0 <=> "releaseConnection" \in ToSet(tasks)
    BY <1>a, PendingFacts
  <2> QED
    BY <1>4, <2>1
<1> DEFINE waiting == events \cup (IF protocol = "attached" THEN ProtocolRetry ELSE {})
<1>6. /\ IF protocol = "attached" THEN ReleaseProtocol ELSE UNCHANGED <<protocol, client>>
      /\ \/ connectionState' = "CLOSING" /\ events' = waiting
            /\ UNCHANGED <<ioQueue, socket>>
         \/ /\ connectionState' = "CLOSED" /\ SocketCloses
            /\ \E q \in HandlersAfterClose(ioQueue) : ReleaseConnection(waiting, q)
  BY <1>3 DEF CloseConnectionTask
<1>7. ProtocolRetry \subseteq {"releaseProtocol"}
  BY DEF ProtocolRetry
<1>8. ASSUME connectionState' = "CLOSING", events' = waiting, UNCHANGED <<ioQueue, socket>>
      PROVE  CloseInv'
  <2>1. HasStopped' = 0
    BY <1>4, <1>8 DEF HasStopped
  <2>2. Pending("releaseConnection")' = 0 /\ Pending("close")' = 0
    BY <1>1, <1>2, <1>3, <1>5, <1>7, <1>8 DEF Pending
  <2> QED
    BY <1>8, <2>1, <2>2 DEF CloseInv
<1>9. ASSUME connectionState' = "CLOSED", SocketCloses,
             \E q \in HandlersAfterClose(ioQueue) : ReleaseConnection(waiting, q)
      PROVE  CloseInv'
  <2>1. PICK q \in HandlersAfterClose(ioQueue) : ReleaseConnection(waiting, q)
    BY <1>9
  <2>2. "stop" \notin ToSet(ioQueue) /\ socket # "deleted"
    BY <1>3, StopFacts, SocketAlive
  <2>3. q \in Seq(Handlers) /\ "stop" \notin ToSet(q)
    BY <1>a, <2>1, <2>2, AfterClose DEF TypeOK
  <2>4. socket' = "closed"
    BY <1>a, <1>9, <2>2, SocketFacts
  <2>5. /\ HasStopped' = (IF refCount > 0 THEN 0 ELSE 1)
        /\ events' = waiting \cup (IF refCount > 0 THEN {"releaseConnection"} ELSE {})
    BY <1>a, <2>1, <2>3, <2>4, ReleaseStops
  <2> HIDE DEF waiting
  <2>6. "releaseConnection" \notin waiting /\ "close" \notin waiting
    BY <1>2, <1>5, <1>7 DEF waiting
  <2>7. /\ Pending("releaseConnection")' = (IF refCount > 0 THEN 1 ELSE 0)
        /\ Pending("close")' = 0
    BY <1>1, <1>3, <1>5, <2>5, <2>6 DEF Pending
  <2>8. Pending("releaseConnection")' + HasStopped' = 1
    BY <2>5, <2>7
  <2> QED
    BY <1>9, <2>7, <2>8 DEF CloseInv
<1>10. /\ CloseInv' /\ connectionState' \in {"CLOSING", "CLOSED"}
       /\ \A name \in {"connect", "releaseProtocol"} : name \in events' <=> name \in waiting
  <2>1. CASE connectionState' = "CLOSING"
    <3>1. events' = waiting /\ UNCHANGED <<ioQueue, socket>>
      BY <1>6, <2>1
    <3> QED
      BY <1>8, <2>1, <3>1
  <2>2. CASE connectionState' # "CLOSING"
    <3>1. /\ connectionState' = "CLOSED" /\ SocketCloses
          /\ \E q \in HandlersAfterClose(ioQueue) : ReleaseConnection(waiting, q)
      BY <1>6, <2>2
    <3>2. \/ events' = waiting \/ events' = waiting \cup {"releaseConnection"}
      BY <3>1 DEF ReleaseConnection
    <3> QED
      BY <1>9, <3>1, <3>2
  <2> QED
    BY <1>6, <2>1, <2>2
<1>11. protocol' # "attached" /\ (protocol' = "deleted" => client' = "none")
  BY <1>a, <1>6 DEF TasksInv, ProtocolInv, ReleaseProtocol
<1>12. Pending("connect")' = Pending("connect")
  <2>1. "connect" \in waiting <=> "connect" \in events
    BY <1>7
  <2> QED
    BY <1>1, <1>10, <2>1 DEF Pending
<1>13. Pending("releaseProtocol")' = (IF protocol' = "detached" THEN 1 ELSE 0)
  <2>0. Pending("releaseProtocol") = (IF protocol = "detached" THEN 1 ELSE 0)
    BY <1>a DEF TasksInv, ProtocolInv
  <2>1. CASE protocol = "attached"
    <3>1. /\ Pending("releaseProtocol") > 0 <=> "releaseProtocol" \in ToSet(tasks) \cup events
          /\ Occurrences(tasks, "releaseProtocol") \in Nat
          /\ Occurrences(tasks, "releaseProtocol") > 0 <=> "releaseProtocol" \in ToSet(tasks)
      BY <1>a, PendingFacts
    <3>2. "releaseProtocol" \notin events /\ Occurrences(tasks, "releaseProtocol") = 0
      BY <2>0, <2>1, <3>1
    <3>3. "releaseProtocol" \in events' <=> protocolRefs > 0
      BY <1>10, <2>1, <3>2 DEF ProtocolRetry
    <3>4. protocol' = (IF protocolRefs > 0 THEN "detached" ELSE "deleted")
      BY <1>6, <2>1 DEF ReleaseProtocol
    <3> QED
      BY <1>1, <3>2, <3>3, <3>4 DEF Pending
  <2>2. CASE protocol # "attached"
    <3>1. protocol' = protocol /\ ("releaseProtocol" \in events' <=> "releaseProtocol" \in events)
      BY <1>6, <1>10, <2>2
    <3> QED
      BY <1>1, <2>0, <3>1 DEF Pending
  <2> QED
    BY <2>1, <2>2
<1>14. ProtocolInv'
  <2>1. Pending("connect")' <= 1
    BY <1>a, <1>12 DEF TasksInv, ProtocolInv
  <2>2. "login" \notin ToSet(tasks') /\ "logout" \notin ToSet(tasks')
    BY <1>1
  <2> QED
    BY <1>1, <1>10, <1>11, <1>13, <2>1, <2>2 DEF ProtocolInv
<1> QED
  BY <1>10, <1>14 DEF TasksInv

LEMMA ReleaseConnectionTaskInv ==
    ASSUME ConnectionInv, ReleaseConnectionTask
    PROVE  TasksInv'
<1> USE DEF stateVars, refVars
<1>a. TypeOK /\ TasksInv
  BY DEF ConnectionInv, TasksInv
<1>b. /\ Takes("releaseConnection") /\ tasks' = Tail(tasks)
      /\ UNCHANGED <<connectionState, socket, protocol, client>>
      /\ ReleaseConnection(events, ioQueue)
  BY DEF ReleaseConnectionTask
<1>1. /\ "releaseConnection" \in ToSet(tasks)
      /\ \A name : name # "releaseConnection" =>
            /\ Occurrences(tasks', name) = Occurrences(tasks, name)
            /\ name \in ToSet(tasks') <=> name \in ToSet(tasks)
      /\ Occurrences(tasks', "releaseConnection") = Occurrences(tasks, "releaseConnection") - 1
      /\ LoginFirst(tasks') /\ LogoutsBefore(tasks') /\ "login" \notin ToSet(tasks')
  BY <1>a, <1>b, TaskHead
<1>2. /\ Occurrences(tasks, "releaseConnection") \in Nat
      /\ Occurrences(tasks, "releaseConnection") > 0
      /\ Pending("releaseConnection") > 0
  BY <1>a, <1>1, PendingFacts
<1>3. connectionState = "CLOSED" /\ HasStopped = 0
  BY <1>2, StopFacts
<1>4. Pending("releaseConnection") = 1
  <2>1. Pending("releaseConnection") + 0 = 1
    BY <1>a, <1>3 DEF TasksInv, CloseInv
  <2>2. Pending("releaseConnection") \in Nat
    BY <1>a, PendingFacts
  <2> QED
    BY <2>1, <2>2
<1>5. "releaseConnection" \notin events /\ Occurrences(tasks', "releaseConnection") = 0
  BY <1>1, <1>2, <1>4 DEF Pending
<1>6. /\ HasStopped' = (IF refCount > 0 THEN 0 ELSE 1)
      /\ events' = events \cup (IF refCount > 0 THEN {"releaseConnection"} ELSE {})
  <2>1. "stop" \notin ToSet(ioQueue) /\ socket' # "deleted"
    BY <1>b, <1>3, StopFacts
  <2> QED
    BY <1>a, <1>b, <2>1, ReleaseStops DEF TypeOK
<1>7. Pending("releaseConnection")' = (IF refCount > 0 THEN 1 ELSE 0)
  BY <1>5, <1>6 DEF Pending
<1>8. \A name \in {"close", "connect", "releaseProtocol"} : Pending(name)' = Pending(name)
  BY <1>1, <1>6 DEF Pending
<1>9. CloseInv'
  <2>1. Pending("releaseConnection")' + HasStopped' = 1
    BY <1>6, <1>7
  <2> QED
    BY <1>a, <1>b, <1>3, <1>8, <2>1 DEF TasksInv, CloseInv
<1>10. ProtocolInv'
  BY <1>a, <1>b, <1>1, <1>8 DEF TasksInv, ProtocolInv
<1> QED
  BY <1>9, <1>10 DEF TasksInv

LEMMA ReleaseProtocolTaskInv ==
    ASSUME ConnectionInv, ReleaseProtocolTask, HasStopped' = HasStopped
    PROVE  TasksInv'
<1> USE DEF stateVars
<1>a. TypeOK /\ TasksInv
  BY DEF ConnectionInv, TasksInv
<1>b. /\ Takes("releaseProtocol") /\ tasks' = Tail(tasks)
      /\ UNCHANGED connectionState
      /\ client' = "none"
      /\ protocol' = (IF protocolRefs > 0 THEN "detached" ELSE "deleted")
      /\ events' = events \cup (IF protocolRefs > 0 THEN {"releaseProtocol"} ELSE {})
  BY DEF ReleaseProtocolTask, ReleaseProtocol, ProtocolRetry
<1>1. /\ "releaseProtocol" \in ToSet(tasks)
      /\ \A name : name # "releaseProtocol" =>
            /\ Occurrences(tasks', name) = Occurrences(tasks, name)
            /\ name \in ToSet(tasks') <=> name \in ToSet(tasks)
      /\ Occurrences(tasks', "releaseProtocol") = Occurrences(tasks, "releaseProtocol") - 1
      /\ LoginFirst(tasks') /\ LogoutsBefore(tasks') /\ "login" \notin ToSet(tasks')
  BY <1>a, <1>b, TaskHead
<1>2. /\ Occurrences(tasks, "releaseProtocol") \in Nat
      /\ Occurrences(tasks, "releaseProtocol") > 0
      /\ Pending("releaseProtocol") > 0
  BY <1>a, <1>1, PendingFacts
<1>3. protocol = "detached" /\ Pending("releaseProtocol") = 1
  BY <1>a, <1>2 DEF TasksInv, ProtocolInv
<1>4. "releaseProtocol" \notin events /\ Occurrences(tasks', "releaseProtocol") = 0
  BY <1>1, <1>2, <1>3 DEF Pending
<1>5. Pending("releaseProtocol")' = (IF protocol' = "detached" THEN 1 ELSE 0)
  BY <1>b, <1>4 DEF Pending
<1>6. \A name \in {"close", "connect", "releaseConnection"} : Pending(name)' = Pending(name)
  BY <1>b, <1>1 DEF Pending
<1>7. CloseInv'
  BY <1>a, <1>b, <1>6 DEF TasksInv, CloseInv
<1>8. "logout" \notin ToSet(tasks') /\ connectionState # "OPEN"
  BY <1>a, <1>1, <1>3 DEF TasksInv, ProtocolInv
<1>9. ProtocolInv'
  BY <1>a, <1>b, <1>1, <1>5, <1>6, <1>8 DEF TasksInv, ProtocolInv
<1> QED
  BY <1>7, <1>9 DEF TasksInv

LEMMA EventDueInv ==
    ASSUME ConnectionInv, NEW event \in events, EventDue(event), HasStopped' = HasStopped
    PROVE  TasksInv'
<1> USE DEF stateVars, refVars
<1>a. TypeOK /\ TasksInv
  BY DEF ConnectionInv, TasksInv
<1>b. /\ events' = events \ {event} /\ tasks' = Append(tasks, event)
      /\ UNCHANGED <<connectionState, protocol, client>>
  BY DEF EventDue
<1>1. event \in EventNames /\ event \in Queued
  BY <1>a DEF TypeOK, EventNames, Queued, TaskNames
<1>2. /\ \A name : Occurrences(tasks', name) = Occurrences(tasks, name) + (IF event = name THEN 1 ELSE 0)
      /\ ToSet(tasks') = ToSet(tasks) \cup {event}
      /\ LoginFirst(tasks) => LoginFirst(tasks')
      /\ LogoutsBefore(tasks) => LogoutsBefore(tasks')
  <2>1. tasks \in Seq(Queued) /\ event # "login" /\ event # "logout"
    BY <1>a, <1>1 DEF TypeOK, EventNames
  <2> QED
    BY <1>b, <1>1, <2>1, QueueAppend
<1>3. \A name : Pending(name)' = Pending(name)
  <2> SUFFICES ASSUME NEW name PROVE Pending(name)' = Pending(name)
    OBVIOUS
  <2>1. Occurrences(tasks, name) \in Nat
    BY <1>a, PendingFacts
  <2>2. CASE name = event
    <3>1. name \in events /\ name \notin events'
      BY <1>b, <2>2
    <3>2. Occurrences(tasks', name) = Occurrences(tasks, name) + 1
      BY <1>2, <2>2
    <3> QED
      BY <2>1, <3>1, <3>2 DEF Pending
  <2>3. CASE name # event
    <3>1. name \in events <=> name \in events'
      BY <1>b, <2>3
    <3>2. Occurrences(tasks', name) = Occurrences(tasks, name)
      BY <1>2, <2>1, <2>3
    <3> QED
      BY <2>1, <3>1, <3>2 DEF Pending
  <2> QED
    BY <2>2, <2>3
<1>4. Connecting' <=> Connecting
  BY <1>b, <1>2 DEF Connecting
<1>5. CloseInv'
  BY <1>a, <1>b, <1>3 DEF TasksInv, CloseInv
<1>6. "login" \in ToSet(tasks') <=> "login" \in ToSet(tasks)
  BY <1>1, <1>2 DEF EventNames
<1>7. "logout" \in ToSet(tasks') <=> "logout" \in ToSet(tasks)
  BY <1>1, <1>2 DEF EventNames
<1>8. ProtocolInv'
  BY <1>a, <1>b, <1>2, <1>3, <1>4, <1>6, <1>7 DEF TasksInv, ProtocolInv
<1> QED
  BY <1>5, <1>8 DEF TasksInv

LEMMA TasksStep ==
    ASSUME ConnectionInv, [Next]_vars
    PROVE  TasksInv'
<1> USE DEF stateVars, ioVars, refVars, bufferVars, dispatcherVars
<1>a. TypeOK /\ TasksInv
  BY DEF ConnectionInv, TasksInv
<1>b. HasStopped' = HasStopped \/ CloseConnectionTask \/ ReleaseConnectionTask
  BY StopStep
<1>c. ASSUME HasStopped' = HasStopped, UNCHANGED <<connectionState, protocol, client, tasks, events>>
      PROVE  TasksInv'
  BY <1>a, <1>c, TasksSame
<1>d. ASSUME HasStopped' = HasStopped, UNCHANGED <<connectionState, protocol, client, events>>,
             NEW m \in Messages, tasks' = Append(tasks, m)
      PROVE  TasksInv'
  BY <1>a, <1>d, TasksMessage
<1>e. ASSUME HasStopped' = HasStopped, UNCHANGED <<protocol, client, events>>, CloseConnection(tasks)
      PROVE  TasksInv'
  BY <1>a, <1>e, TasksCloseNow
<1>1. CASE CloseConnectionTask
  BY <1>1, CloseTaskInv
<1>2. CASE ReleaseConnectionTask
  BY <1>2, ReleaseConnectionTaskInv
<1>3. SUFFICES ASSUME HasStopped' = HasStopped
               PROVE  TasksInv'
  BY <1>b, <1>1, <1>2
<1>4. CASE \/ ReadCompletes \/ WriteCompletes \/ ReadTimerExpires \/ WriteTimerExpires
           \/ OnStopOperation \/ OtherTask \/ GameWrites \/ BodyEnds \/ MoveEnds \/ SendLater
           \/ SendAllEnds \/ UNCHANGED vars
  <2>1. UNCHANGED <<connectionState, protocol, client, tasks, events>>
    BY <1>4 DEF ReadCompletes, WriteCompletes, ReadTimerExpires, WriteTimerExpires, OnStopOperation,
                OtherTask, GameWrites, BodyEnds, MoveEnds, SendLater, SendAllEnds, vars
  <2> QED
    BY <1>3, <1>c, <2>1
<1>5. CASE ParseHeader
  <2>1. /\ UNCHANGED <<protocol, client, events>>
        /\ CloseConnection(tasks) \/ UNCHANGED <<connectionState, tasks>>
    BY <1>5 DEF ParseHeader
  <2> QED
    BY <1>3, <1>c, <1>e, <2>1
<1>6. CASE ParsePacket
  <2>1. UNCHANGED <<protocol, client, events>>
    BY <1>6 DEF ParsePacket
  <2>2. \/ CloseConnection(tasks)
        \/ UNCHANGED <<connectionState, tasks>>
        \/ /\ connectionState = "OPEN" /\ tasks' = Append(tasks, "logout")
           /\ UNCHANGED connectionState
    BY <1>6 DEF ParsePacket
  <2>3. CASE connectionState = "OPEN" /\ tasks' = Append(tasks, "logout") /\ UNCHANGED connectionState
    <3>1. protocol = "attached"
      BY <1>a, <2>3 DEF TasksInv, ProtocolInv
    <3>2. "close" \notin ToSet(tasks)
      <4>1. Pending("close") = 0
        BY <1>a, <2>3 DEF TasksInv, CloseInv
      <4>2. Pending("close") > 0 <=> "close" \in ToSet(tasks) \cup events
        BY <1>a, PendingFacts
      <4> QED
        BY <4>1, <4>2
    <3>3. "logout" \in Queued
      BY DEF Queued, TaskNames
    <3>4. /\ \A name : Occurrences(tasks', name) =
                           Occurrences(tasks, name) + (IF "logout" = name THEN 1 ELSE 0)
          /\ ToSet(tasks') = ToSet(tasks) \cup {"logout"}
          /\ LoginFirst(tasks) => LoginFirst(tasks')
          /\ LogoutsBefore(tasks) => LogoutsBefore(tasks')
      BY <1>a, <2>3, <3>2, <3>3, QueueAppend DEF TypeOK
    <3>5. \A name \in {"close", "releaseConnection", "releaseProtocol", "connect"} :
             Pending(name)' = Pending(name)
      <4> SUFFICES ASSUME NEW name \in {"close", "releaseConnection", "releaseProtocol", "connect"}
                   PROVE  Pending(name)' = Pending(name)
        OBVIOUS
      <4>1. Occurrences(tasks', name) = Occurrences(tasks, name) + 0
        BY <3>4
      <4>2. Occurrences(tasks, name) \in Nat
        BY <1>a, PendingFacts
      <4> QED
        BY <2>1, <4>1, <4>2 DEF Pending
    <3>6. Connecting' <=> Connecting
      BY <2>1, <3>4 DEF Connecting
    <3>7. CloseInv'
      BY <1>3, <1>a, <2>3, <3>5 DEF TasksInv, CloseInv
    <3>8. ProtocolInv'
      BY <1>a, <2>1, <2>3, <3>1, <3>4, <3>5, <3>6 DEF TasksInv, ProtocolInv
    <3> QED
      BY <3>7, <3>8 DEF TasksInv
  <2> QED
    BY <1>3, <1>c, <1>e, <2>1, <2>2, <2>3
<1>7. CASE OnWriteOperation
  <2>1. /\ UNCHANGED <<protocol, client, events>>
        /\ CloseConnection(tasks) \/ UNCHANGED <<connectionState, tasks>>
    BY <1>7 DEF OnWriteOperation
  <2> QED
    BY <1>3, <1>c, <1>e, <2>1
<1>8. CASE OnReadTimeout \/ OnWriteTimeout
  <2>1. /\ UNCHANGED <<protocol, client, events>>
        /\ CloseConnection(tasks) \/ UNCHANGED <<connectionState, tasks>>
    BY <1>8 DEF OnReadTimeout, OnWriteTimeout, OnTimeout
  <2> QED
    BY <1>3, <1>c, <1>e, <2>1
<1>9. CASE WrittenReleased
  <2>1. /\ UNCHANGED <<connectionState, protocol, client, events>>
        /\ tasks' = Append(tasks, written) /\ written \in Messages
    BY <1>a, <1>9 DEF WrittenReleased, TypeOK
  <2> QED
    BY <1>3, <1>d, <2>1
<1>10. CASE LoginTask
  BY <1>3, <1>10, LoginTaskInv
<1>11. CASE ConnectTask
  BY <1>3, <1>11, ConnectTaskInv
<1>12. CASE LogoutTask
  <2>1. Takes("logout") /\ UNCHANGED <<protocol, client, events>>
    BY <1>12 DEF LogoutTask
  <2>2. \/ CloseConnection(Tail(tasks))
        \/ tasks' = Tail(tasks) /\ UNCHANGED connectionState
    BY <1>12 DEF LogoutTask
  <2>3. CASE tasks' = Tail(tasks) /\ UNCHANGED connectionState
    BY <1>3, <1>a, <2>1, <2>3, TasksTail
  <2>4. CASE CloseConnection(Tail(tasks))
    <3>1. /\ Tail(tasks) \in Seq(Queued)
          /\ \A name : name # "logout" =>
                /\ Occurrences(Tail(tasks), name) = Occurrences(tasks, name)
                /\ name \in ToSet(Tail(tasks)) <=> name \in ToSet(tasks)
          /\ ToSet(Tail(tasks)) \subseteq ToSet(tasks)
          /\ LoginFirst(Tail(tasks)) /\ LogoutsBefore(Tail(tasks))
      BY <1>a, <2>1, TaskHead
    <3> QED
      BY <1>3, <1>a, <2>1, <2>4, <3>1, TasksClose
  <2> QED
    BY <2>2, <2>3, <2>4
<1>13. CASE ReleaseProtocolTask
  BY <1>3, <1>13, ReleaseProtocolTaskInv
<1>14. ASSUME NEW m \in Messages, InternalReleaseMessage(m)
       PROVE  TasksInv'
  <2>1. /\ Takes(m) /\ tasks' = Tail(tasks)
        /\ UNCHANGED <<connectionState, protocol, client, events>>
    BY <1>14 DEF InternalReleaseMessage
  <2>2. m \notin {"close", "releaseConnection", "releaseProtocol", "connect"}
    BY NamesAreNoMessages DEF TaskNames
  <2> QED
    BY <1>3, <1>a, <2>1, <2>2, TasksTail
<1>15. CASE GameDisconnects \/ Disconnect
  <2>1. UNCHANGED <<protocol, client, events>> /\ CloseConnection(tasks)
    BY <1>15 DEF GameDisconnects, Disconnect
  <2> QED
    BY <1>3, <1>e, <2>1
<1>16. ASSUME NEW m \in Messages, Send(m), UNCHANGED <<connectionState, protocol, client, events>>
       PROVE  TasksInv'
  <2>1. UNCHANGED tasks \/ tasks' = Append(tasks, m)
    BY <1>16 DEF Send
  <2> QED
    BY <1>3, <1>c, <1>d, <1>16, <2>1
<1>17. CASE RefuseLogin
  <2>1. UNCHANGED <<connectionState, protocol, client, events>>
    BY <1>17 DEF RefuseLogin
  <2>2. UNCHANGED tasks \/ \E m \in Messages : Send(m)
    BY <1>17 DEF RefuseLogin
  <2> QED
    BY <1>3, <1>c, <1>16, <2>1, <2>2
<1>18. CASE SendNow
  <2>1. cursor \in 1 .. Len(autoSend)
    BY <1>a, <1>18 DEF SendNow, TypeOK
  <2>2. autoSend[cursor] \in Messages
    BY <1>a, <2>1 DEF TypeOK
  <2>3. Send(autoSend[cursor]) /\ UNCHANGED <<connectionState, protocol, client, events>>
    BY <1>18 DEF SendNow
  <2> QED
    BY <1>16, <2>2, <2>3
<1>19. CASE MoveMessage
  <2>1. /\ UNCHANGED <<connectionState, protocol, client, events>>
        /\ UNCHANGED tasks \/ tasks' = Append(tasks, Head(toAddQueue))
        /\ toAddQueue # <<>>
    BY <1>19 DEF MoveMessage
  <2>2. Head(toAddQueue) \in Messages
    BY <1>a, <2>1, TailFacts DEF TypeOK
  <2> QED
    BY <1>3, <1>c, <1>d, <2>1, <2>2
<1>20. ASSUME NEW event \in events, EventDue(event)
       PROVE  TasksInv'
  BY <1>3, <1>20, EventDueInv
<1> QED
  BY <1>1, <1>2, <1>4, <1>5, <1>6, <1>7, <1>8, <1>9, <1>10, <1>11, <1>12, <1>13, <1>14, <1>15,
     <1>17, <1>18, <1>19, <1>20 DEF Next, System, IoThread, Task, SendAll

-----------------------------------------------------------------------------
(* Where the messages are.                                                 *)

LEMMA AppendDistinct ==
    ASSUME NEW T, NEW s \in Seq(T), NEW e \in T, e \notin ToSet(s), IsDistinct(s)
    PROVE  IsDistinct(Append(s, e))
<1> DEFINE n == Len(s)
           r == Append(s, e)
<1>1. /\ r \in Seq(T) /\ Len(r) = n + 1
      /\ \A i \in 1 .. n : r[i] = s[i]
      /\ r[n + 1] = e
  BY AppendFacts
<1>2. n \in Nat /\ DOMAIN s = 1 .. n /\ ToSet(s) = {s[i] : i \in 1 .. n}
  BY ToSetIndices
<1>3. DOMAIN r = 1 .. n + 1
  BY <1>1
<1> HIDE DEF n, r
<1>4. \A i \in 1 .. n + 1 : i \in 1 .. n \/ i = n + 1
  BY <1>2
<1>5. \A i \in 1 .. n : s[i] # e
  BY <1>2
<1>6. \A i, j \in 1 .. n : s[i] = s[j] => i = j
  BY <1>2 DEF IsDistinct
<1> QED
  BY <1>1, <1>3, <1>4, <1>5, <1>6 DEF IsDistinct, r

\* The messages of the pool's two lists, in the hands of the system and of a handler,
\* of the buffer and of the tasks, each in one place.
HeldIn(lists, w, v, b) == ({w, v, b} \cup lists) \ {NoMessage}
Apart(auto, put, w, v, b, released) ==
    /\ auto \cap put = {}
    /\ {w, v} \cap (auto \cup put) = {}
    /\ w = v => w = NoMessage
    /\ HeldIn(auto \cup put, w, v, b) \cap released = {}
    /\ b # NoMessage => b \in (auto \cup put) \ {w, v}

LEMMA SentOnceParts ==
    ASSUME TypeOK
    PROVE  /\ SentOnce <=> /\ IsDistinct(autoSend) /\ IsDistinct(toAddQueue) /\ OnceIn(tasks)
                           /\ Apart(ToSet(autoSend), ToSet(toAddQueue), writing, written,
                                    outputBuffer, MessagesIn(tasks))
           /\ Outstanding = HeldIn(ToSet(autoSend) \cup ToSet(toAddQueue), writing, written, outputBuffer)
                                \cup MessagesIn(tasks)
<1>1. autoSend \in Seq(Messages) /\ toAddQueue \in Seq(Messages)
  BY DEF TypeOK
<1>2. /\ Deferred = ToSet(toAddQueue) /\ Released = MessagesIn(tasks)
      /\ Held = HeldIn(ToSet(autoSend) \cup ToSet(toAddQueue), writing, written, outputBuffer)
  BY DEF Deferred, Released, Held, MessagesIn, HeldIn
<1>3. IsDistinct(autoSend \o toAddQueue) <=>
        IsDistinct(autoSend) /\ IsDistinct(toAddQueue) /\ ToSet(autoSend) \cap ToSet(toAddQueue) = {}
  BY <1>1, ConcatDistinct
<1>4. (\A i, j \in DOMAIN tasks : tasks[i] = tasks[j] /\ tasks[i] \in Messages => i = j) <=> OnceIn(tasks)
  BY DEF OnceIn
<1>5. Outstanding = HeldIn(ToSet(autoSend) \cup ToSet(toAddQueue), writing, written, outputBuffer)
                        \cup MessagesIn(tasks)
  BY <1>2 DEF Outstanding
<1>6. SentOnce <=> /\ IsDistinct(autoSend) /\ IsDistinct(toAddQueue) /\ OnceIn(tasks)
                   /\ Apart(ToSet(autoSend), ToSet(toAddQueue), writing, written,
                            outputBuffer, MessagesIn(tasks))
  BY <1>2, <1>3, <1>4 DEF SentOnce, Apart
<1> QED
  BY <1>5, <1>6

\* The same of the next state.
LEMMA SentOncePartsNext ==
    ASSUME TypeOK'
    PROVE  /\ SentOnce' <=> /\ IsDistinct(autoSend') /\ IsDistinct(toAddQueue') /\ OnceIn(tasks')
                            /\ Apart(ToSet(autoSend'), ToSet(toAddQueue'), writing', written',
                                     outputBuffer', MessagesIn(tasks'))
           /\ Outstanding' = HeldIn(ToSet(autoSend') \cup ToSet(toAddQueue'), writing', written',
                                    outputBuffer') \cup MessagesIn(tasks')
<1>1. autoSend' \in Seq(Messages) /\ toAddQueue' \in Seq(Messages)
  BY DEF TypeOK
<1>2. /\ Deferred' = ToSet(toAddQueue') /\ Released' = MessagesIn(tasks')
      /\ Held' = HeldIn(ToSet(autoSend') \cup ToSet(toAddQueue'), writing', written', outputBuffer')
  BY DEF Deferred, Released, Held, MessagesIn, HeldIn
<1>3. IsDistinct(autoSend' \o toAddQueue') <=>
        IsDistinct(autoSend') /\ IsDistinct(toAddQueue') /\ ToSet(autoSend') \cap ToSet(toAddQueue') = {}
  BY <1>1, ConcatDistinct
<1>4. (\A i, j \in DOMAIN tasks' : tasks'[i] = tasks'[j] /\ tasks'[i] \in Messages => i = j)
          <=> OnceIn(tasks')
  BY DEF OnceIn
<1>5. Outstanding' = HeldIn(ToSet(autoSend') \cup ToSet(toAddQueue'), writing', written', outputBuffer')
                        \cup MessagesIn(tasks')
  BY <1>2 DEF Outstanding
<1>6. SentOnce' <=> /\ IsDistinct(autoSend') /\ IsDistinct(toAddQueue') /\ OnceIn(tasks')
                    /\ Apart(ToSet(autoSend'), ToSet(toAddQueue'), writing', written',
                             outputBuffer', MessagesIn(tasks'))
  BY <1>2, <1>3, <1>4 DEF SentOnce, Apart
<1> QED
  BY <1>5, <1>6

\* No message moves: tasks that are no messages come and go.
LEMMA MessagesSame ==
    ASSUME TypeOK, TypeOK', SentOnce,
           UNCHANGED <<writing, written, outputBuffer, autoSend, toAddQueue>>,
           OnceIn(tasks'), MessagesIn(tasks') = MessagesIn(tasks)
    PROVE  SentOnce' /\ Outstanding' = Outstanding
BY SentOnceParts, SentOncePartsNext

\* send: m leaves the list of sendAll, or is new, and goes to one of three places.
LEMMA SendMoves ==
    ASSUME TypeOK, TypeOK', IoInv, NEW m \in Messages, Send(m), UNCHANGED written,
           IsDistinct(autoSend'), IsDistinct(toAddQueue), OnceIn(tasks), m \notin ToSet(autoSend'),
           Apart(ToSet(autoSend') \cup {m}, ToSet(toAddQueue), writing, written, outputBuffer,
                 MessagesIn(tasks))
    PROVE  /\ SentOnce'
           /\ Outstanding' = HeldIn(ToSet(autoSend') \cup {m} \cup ToSet(toAddQueue), writing, written,
                                    outputBuffer) \cup MessagesIn(tasks)
<1> DEFINE A == ToSet(autoSend')
           D == ToSet(toAddQueue)
           R == MessagesIn(tasks)
<1>1. m # NoMessage /\ m \in Queued
  BY ConnectionConstants DEF Queued
<1>2. m \notin D /\ m \notin R /\ m \notin {writing, written} /\ m \notin A
  BY <1>1 DEF Apart, HeldIn
<1>3. toAddQueue \in Seq(Messages) /\ tasks \in Seq(Queued)
  BY DEF TypeOK
<1>4. CASE AcceptsMessage /\ pendingWrite > 0
  <2>1. toAddQueue' = Append(toAddQueue, m) /\ UNCHANGED <<outputBuffer, writing, tasks>>
    BY <1>4 DEF Send
  <2>2. IsDistinct(toAddQueue') /\ ToSet(toAddQueue') = D \cup {m}
    BY <1>2, <1>3, <2>1, AppendDistinct, AppendFacts
  <2> HIDE DEF A, D, R
  <2>3. Apart(A, D \cup {m}, writing, written, outputBuffer, R)
    BY <1>2 DEF Apart, HeldIn, A, D, R
  <2>4. HeldIn(A \cup (D \cup {m}), writing, written, outputBuffer)
            = HeldIn(A \cup {m} \cup D, writing, written, outputBuffer)
    BY DEF HeldIn
  <2> QED
    BY <2>1, <2>2, <2>3, <2>4, SentOncePartsNext DEF A, D, R
<1>5. CASE AcceptsMessage /\ ~(pendingWrite > 0)
  <2>1. /\ outputBuffer' = BufferWithout(m) /\ writing' = m
        /\ UNCHANGED <<toAddQueue, tasks>>
    BY <1>5 DEF Send, InternalSend
  <2>2. writing = NoMessage
    BY <1>5 DEF AcceptsMessage, IoInv
  <2> HIDE DEF A, D, R
  <2>3. Apart(A, D, m, written, BufferWithout(m), R)
    BY <1>1, <1>2, <2>2 DEF Apart, HeldIn, BufferWithout, A, D, R
  <2>4. HeldIn(A \cup D, m, written, BufferWithout(m))
            = HeldIn(A \cup {m} \cup D, writing, written, outputBuffer)
    BY <1>1, <2>2 DEF HeldIn, BufferWithout
  <2> QED
    BY <2>1, <2>3, <2>4, SentOncePartsNext DEF A, D, R
<1>6. CASE ~AcceptsMessage
  <2>1. /\ outputBuffer' = BufferWithout(m) /\ tasks' = Append(tasks, m)
        /\ UNCHANGED <<toAddQueue, writing>>
    BY <1>6 DEF Send
  <2>2. ToSet(tasks') = ToSet(tasks) \cup {m} /\ OnceIn(tasks')
    BY <1>1, <1>2, <1>3, <2>1, QueueAppend
  <2>3. MessagesIn(tasks') = R \cup {m}
    BY <2>2 DEF MessagesIn
  <2> HIDE DEF A, D, R
  <2>4. Apart(A, D, writing, written, BufferWithout(m), R \cup {m})
    BY <1>1, <1>2 DEF Apart, HeldIn, BufferWithout, A, D, R
  <2>5. HeldIn(A \cup D, writing, written, BufferWithout(m)) \cup (R \cup {m})
            = HeldIn(A \cup {m} \cup D, writing, written, outputBuffer) \cup R
    BY <1>1 DEF HeldIn, BufferWithout
  <2> QED
    BY <2>1, <2>2, <2>3, <2>4, <2>5, SentOncePartsNext DEF A, D, R
<1> QED
  BY <1>4, <1>5, <1>6

\* What a step does to the messages that are out, and to the count of them.
MessagesKept == Outstanding' = Outstanding /\ refCount' = refCount
MessageTaken ==
    \E m \in Messages \ Outstanding :
        /\ Outstanding' = Outstanding \cup {m}
        /\ refCount' = refCount + 1 /\ protocolRefs' = protocolRefs + 1
        /\ protocol = "attached" /\ UNCHANGED <<events, connectionState, protocol, socket, ioQueue>>
        /\ "connect" \in ToSet(tasks') <=> "connect" \in ToSet(tasks)
MessageReturned ==
    \E m \in Outstanding :
        /\ Outstanding' = Outstanding \ {m}
        /\ refCount' = refCount - 1 /\ protocolRefs' = protocolRefs - 1
        /\ UNCHANGED <<events, protocol, socket, ioQueue>>
        /\ "connect" \in ToSet(tasks') <=> "connect" \in ToSet(tasks)

LEMMA ReleaseMessageMoves ==
    ASSUME ConnectionInv, TypeOK', NEW m \in Messages, InternalReleaseMessage(m)
    PROVE  SentOnce' /\ MessageReturned
<1> USE DEF stateVars, ioVars
<1>a. TypeOK /\ SentOnce
  BY DEF ConnectionInv
<1>1. /\ tasks \in Seq(Queued) /\ tasks # <<>> /\ Head(tasks) = m /\ tasks' = Tail(tasks)
      /\ UNCHANGED <<writing, written, outputBuffer, autoSend, toAddQueue>>
      /\ UNCHANGED <<events, protocol, socket, ioQueue>>
      /\ refCount' = refCount - 1 /\ protocolRefs' = protocolRefs - 1
  BY <1>a DEF InternalReleaseMessage, Takes, TypeOK
<1>2. OnceIn(tasks)
  BY <1>a, SentOnceParts
<1>3. /\ OnceIn(tasks') /\ MessagesIn(tasks') = MessagesIn(tasks) \ {m}
      /\ ToSet(tasks) = ToSet(tasks') \cup {m}
  BY <1>1, <1>2, QueueTail
<1>4. m \in MessagesIn(tasks) /\ m # "connect"
  BY <1>3, NamesAreNoMessages DEF MessagesIn, TaskNames
<1> DEFINE H == HeldIn(ToSet(autoSend) \cup ToSet(toAddQueue), writing, written, outputBuffer)
           R == MessagesIn(tasks)
<1>5. /\ Outstanding = H \cup R /\ H \cap R = {}
      /\ Apart(ToSet(autoSend), ToSet(toAddQueue), writing, written, outputBuffer, R)
      /\ IsDistinct(autoSend) /\ IsDistinct(toAddQueue)
  BY <1>a, SentOnceParts DEF Apart
<1>6. Apart(ToSet(autoSend), ToSet(toAddQueue), writing, written, outputBuffer, R \ {m})
  BY <1>5 DEF Apart
<1>7. SentOnce' /\ Outstanding' = H \cup (R \ {m})
  BY <1>1, <1>3, <1>5, <1>6, SentOncePartsNext
<1> HIDE DEF H, R
<1>8. Outstanding' = Outstanding \ {m} /\ m \in Outstanding
  BY <1>4, <1>5, <1>7 DEF R
<1> QED
  BY <1>1, <1>3, <1>4, <1>7, <1>8 DEF MessageReturned

LEMMA NewMessageMoves ==
    ASSUME ConnectionInv, TypeOK', NEW m \in Messages, WritesToNewMessage(m), GameWrites
    PROVE  SentOnce' /\ MessageTaken
<1> USE DEF stateVars, ioVars
<1>a. TypeOK /\ SentOnce
  BY DEF ConnectionInv
<1>1. /\ UNCHANGED <<writing, written, toAddQueue, tasks>>
      /\ UNCHANGED <<events, connectionState, protocol, socket, ioQueue>>
      /\ autoSend' = Append(autoSend, m) /\ outputBuffer' = m /\ protocol = "attached"
      /\ m \notin Outstanding /\ refCount' = refCount + 1 /\ protocolRefs' = protocolRefs + 1
  BY DEF GameWrites, WritesToNewMessage, TakeMessage
<1> DEFINE A == ToSet(autoSend)
           D == ToSet(toAddQueue)
           R == MessagesIn(tasks)
<1>2. /\ Outstanding = HeldIn(A \cup D, writing, written, outputBuffer) \cup R
      /\ Apart(A, D, writing, written, outputBuffer, R)
      /\ IsDistinct(autoSend) /\ IsDistinct(toAddQueue) /\ OnceIn(tasks)
  BY <1>a, SentOnceParts
<1>3. m # NoMessage
  BY ConnectionConstants
<1>4. m \notin A /\ m \notin D /\ m \notin R /\ m \notin {writing, written}
  BY <1>1, <1>2, <1>3 DEF HeldIn
<1>5. IsDistinct(autoSend') /\ ToSet(autoSend') = A \cup {m}
  <2>1. autoSend \in Seq(Messages)
    BY <1>a DEF TypeOK
  <2>2. IsDistinct(Append(autoSend, m))
    BY <1>2, <1>4, <2>1, AppendDistinct
  <2>3. ToSet(Append(autoSend, m)) = A \cup {m}
    BY <2>1, AppendFacts
  <2> QED
    BY <1>1, <2>2, <2>3
<1> HIDE DEF A, D, R
<1>6. Apart(A \cup {m}, D, writing, written, m, R)
  BY <1>2, <1>3, <1>4 DEF Apart, HeldIn
<1>7. HeldIn((A \cup {m}) \cup D, writing, written, m) = HeldIn(A \cup D, writing, written, outputBuffer) \cup {m}
  BY <1>2, <1>3 DEF HeldIn, Apart
<1>8. SentOnce' /\ Outstanding' = Outstanding \cup {m}
  BY <1>1, <1>2, <1>5, <1>6, <1>7, SentOncePartsNext DEF A, D, R
<1> QED
  BY <1>1, <1>8 DEF MessageTaken

LEMMA RefuseMoves ==
    ASSUME ConnectionInv, TypeOK', RefuseLogin, protocol = "attached"
    PROVE  SentOnce' /\ MessageTaken
<1> USE DEF stateVars, ioVars
<1>a. TypeOK /\ SentOnce /\ IoInv
  BY DEF ConnectionInv
<1>1. PICK m \in Messages : TakeMessage(m) /\ Send(m)
  BY DEF RefuseLogin
<1>2. /\ UNCHANGED <<written, autoSend>>
      /\ UNCHANGED <<events, connectionState, protocol, socket, ioQueue>>
      /\ m \notin Outstanding /\ refCount' = refCount + 1 /\ protocolRefs' = protocolRefs + 1
  BY <1>1 DEF RefuseLogin, TakeMessage
<1> DEFINE A == ToSet(autoSend)
           D == ToSet(toAddQueue)
           R == MessagesIn(tasks)
<1>3. /\ Outstanding = HeldIn(A \cup D, writing, written, outputBuffer) \cup R
      /\ Apart(A, D, writing, written, outputBuffer, R)
      /\ IsDistinct(autoSend) /\ IsDistinct(toAddQueue) /\ OnceIn(tasks)
  BY <1>a, SentOnceParts
<1>4. m # NoMessage
  BY ConnectionConstants
<1>5. m \notin A /\ m \notin D /\ m \notin R /\ m \notin {writing, written}
  BY <1>2, <1>3, <1>4 DEF HeldIn
<1>6. Apart(A \cup {m}, D, writing, written, outputBuffer, R)
  <2> HIDE DEF A, D, R
  <2> QED
    BY <1>3, <1>4, <1>5 DEF Apart, HeldIn
<1>7. /\ SentOnce'
      /\ Outstanding' = HeldIn(A \cup {m} \cup D, writing, written, outputBuffer) \cup R
  BY <1>a, <1>1, <1>2, <1>3, <1>5, <1>6, SendMoves
<1>8. Outstanding' = Outstanding \cup {m}
  <2> HIDE DEF A, D, R
  <2> QED
    BY <1>3, <1>4, <1>7 DEF HeldIn
<1>9. "connect" \in ToSet(tasks') <=> "connect" \in ToSet(tasks)
  <2>1. UNCHANGED tasks \/ tasks' = Append(tasks, m)
    BY <1>1 DEF Send
  <2>2. m \in Queued /\ m # "connect"
    BY NamesAreNoMessages DEF TaskNames
  <2>3. tasks' = Append(tasks, m) => ToSet(tasks') = ToSet(tasks) \cup {m}
    BY <1>a, <2>2, QueueAppend DEF TypeOK
  <2> QED
    BY <2>1, <2>2, <2>3
<1> QED
  BY <1>2, <1>7, <1>8, <1>9 DEF MessageTaken

LEMMA SendNowMoves ==
    ASSUME ConnectionInv, TypeOK', SendNow
    PROVE  SentOnce' /\ MessagesKept
<1> USE DEF stateVars, ioVars, refVars
<1>a. TypeOK /\ SentOnce /\ IoInv
  BY DEF ConnectionInv
<1> DEFINE m == autoSend[cursor]
           A == ToSet(autoSend)
           B == ToSet(autoSend')
           D == ToSet(toAddQueue)
           R == MessagesIn(tasks)
<1>1. /\ cursor \in 1 .. Len(autoSend) /\ Send(m) /\ autoSend' = RemoveAt(autoSend, cursor)
      /\ UNCHANGED <<written, refCount>>
  BY <1>a DEF SendNow, TypeOK
<1>2. m \in Messages
  BY <1>a, <1>1 DEF TypeOK
<1>3. /\ Outstanding = HeldIn(A \cup D, writing, written, outputBuffer) \cup R
      /\ Apart(A, D, writing, written, outputBuffer, R)
      /\ IsDistinct(autoSend) /\ IsDistinct(toAddQueue) /\ OnceIn(tasks)
  BY <1>a, SentOnceParts
<1>4. A = B \cup {m} /\ IsDistinct(autoSend') /\ m \notin B
  <2>1. autoSend \in Seq(Messages)
    BY <1>a DEF TypeOK
  <2>2. /\ A = ToSet(RemoveAt(autoSend, cursor)) \cup {autoSend[cursor]}
        /\ IsDistinct(RemoveAt(autoSend, cursor))
        /\ autoSend[cursor] \notin ToSet(RemoveAt(autoSend, cursor))
    BY <1>1, <1>3, <2>1, RemoveFacts
  <2> QED
    BY <1>1, <2>2
<1> HIDE DEF m
<1>5. Apart(B \cup {m}, D, writing, written, outputBuffer, R)
  BY <1>3, <1>4
<1>6. /\ SentOnce'
      /\ Outstanding' = HeldIn(B \cup {m} \cup D, writing, written, outputBuffer) \cup R
  BY <1>a, <1>1, <1>2, <1>3, <1>4, <1>5, SendMoves
<1> QED
  BY <1>1, <1>3, <1>4, <1>6 DEF MessagesKept

LEMMA MoveMessageMoves ==
    ASSUME ConnectionInv, TypeOK', MoveMessage
    PROVE  SentOnce' /\ MessagesKept
<1> USE DEF stateVars, ioVars, refVars
<1>a. TypeOK /\ SentOnce
  BY DEF ConnectionInv
<1> DEFINE m == Head(toAddQueue)
           A == ToSet(autoSend)
           D == ToSet(toAddQueue)
           E == ToSet(toAddQueue')
           R == MessagesIn(tasks)
<1>1. /\ toAddQueue # <<>> /\ toAddQueue' = Tail(toAddQueue)
      /\ UNCHANGED <<writing, written, refCount>>
  BY DEF MoveMessage
<1>2. /\ Outstanding = HeldIn(A \cup D, writing, written, outputBuffer) \cup R
      /\ Apart(A, D, writing, written, outputBuffer, R)
      /\ IsDistinct(autoSend) /\ IsDistinct(toAddQueue) /\ OnceIn(tasks)
  BY <1>a, SentOnceParts
<1>3. m \in Messages /\ D = E \cup {m} /\ IsDistinct(toAddQueue') /\ m \notin E
  BY <1>a, <1>1, <1>2, TailFacts DEF TypeOK
<1>4. m # NoMessage /\ m \in Queued /\ m \notin A /\ m \notin R /\ m \notin {writing, written}
  BY <1>2, <1>3, ConnectionConstants DEF Queued, Apart, HeldIn
<1>5. \/ autoSend' = Append(autoSend, m) /\ UNCHANGED <<outputBuffer, tasks>>
      \/ /\ outputBuffer' = BufferWithout(m) /\ tasks' = Append(tasks, m)
         /\ UNCHANGED autoSend
  BY DEF MoveMessage
<1> HIDE DEF m, A, D, E, R
<1>6. CASE autoSend' = Append(autoSend, m) /\ UNCHANGED <<outputBuffer, tasks>>
  <2>1. IsDistinct(autoSend') /\ ToSet(autoSend') = A \cup {m}
    <3>1. autoSend \in Seq(Messages)
      BY <1>a DEF TypeOK
    <3>2. IsDistinct(Append(autoSend, m))
      BY <1>2, <1>3, <1>4, <3>1, AppendDistinct DEF A
    <3>3. ToSet(Append(autoSend, m)) = A \cup {m}
      BY <1>3, <3>1, AppendFacts DEF A
    <3> QED
      BY <1>6, <3>2, <3>3
  <2>2. Apart(A \cup {m}, E, writing, written, outputBuffer, R)
    BY <1>2, <1>3, <1>4 DEF Apart, HeldIn
  <2>3. HeldIn((A \cup {m}) \cup E, writing, written, outputBuffer)
            = HeldIn(A \cup D, writing, written, outputBuffer)
    BY <1>3 DEF HeldIn
  <2>4. SentOnce' /\ Outstanding' = Outstanding
    BY <1>1, <1>2, <1>3, <1>6, <2>1, <2>2, <2>3, SentOncePartsNext DEF E, R
  <2> QED
    BY <1>1, <2>4 DEF MessagesKept
<1>7. CASE /\ outputBuffer' = BufferWithout(m) /\ tasks' = Append(tasks, m)
           /\ UNCHANGED autoSend
  <2>1. ToSet(tasks') = ToSet(tasks) \cup {m} /\ OnceIn(tasks')
    BY <1>a, <1>2, <1>4, <1>7, QueueAppend DEF TypeOK, R
  <2>2. MessagesIn(tasks') = R \cup {m}
    BY <1>3, <2>1 DEF MessagesIn, R
  <2>3. Apart(A, E, writing, written, BufferWithout(m), R \cup {m})
    BY <1>2, <1>3, <1>4 DEF Apart, HeldIn, BufferWithout
  <2>4. HeldIn(A \cup E, writing, written, BufferWithout(m)) \cup (R \cup {m})
            = HeldIn(A \cup D, writing, written, outputBuffer) \cup R
    BY <1>3, <1>4 DEF HeldIn, BufferWithout
  <2>5. SentOnce' /\ Outstanding' = Outstanding
    BY <1>1, <1>2, <1>3, <1>7, <2>1, <2>2, <2>3, <2>4, SentOncePartsNext DEF A, E
  <2> QED
    BY <1>1, <2>5 DEF MessagesKept
<1> QED
  BY <1>5, <1>6, <1>7

LEMMA HandlerMoves ==
    ASSUME ConnectionInv, TypeOK'
    PROVE  /\ OnWriteOperation => SentOnce' /\ MessagesKept
           /\ WrittenReleased => SentOnce' /\ MessagesKept
<1> USE DEF stateVars, ioVars, refVars, bufferVars
<1>a. TypeOK /\ SentOnce
  BY DEF ConnectionInv
<1> DEFINE A == ToSet(autoSend)
           D == ToSet(toAddQueue)
           R == MessagesIn(tasks)
<1>1. /\ Outstanding = HeldIn(A \cup D, writing, written, outputBuffer) \cup R
      /\ Apart(A, D, writing, written, outputBuffer, R)
      /\ IsDistinct(autoSend) /\ IsDistinct(toAddQueue) /\ OnceIn(tasks)
  BY <1>a, SentOnceParts
<1>2. ASSUME OnWriteOperation
      PROVE  SentOnce' /\ MessagesKept
  <2>1. /\ written = NoMessage /\ written' = writing /\ writing' = NoMessage
        /\ UNCHANGED <<outputBuffer, autoSend, toAddQueue, refCount>>
        /\ CloseConnection(tasks) \/ UNCHANGED tasks
    BY <1>2 DEF OnWriteOperation, Runs
  <2>2. OnceIn(tasks') /\ MessagesIn(tasks') = R
    BY <1>a, <1>1, <2>1, CloseFacts DEF TypeOK
  <2> HIDE DEF A, D, R
  <2>3. Apart(A, D, NoMessage, writing, outputBuffer, R)
    BY <1>1, <2>1 DEF Apart, HeldIn
  <2>4. HeldIn(A \cup D, NoMessage, writing, outputBuffer) = HeldIn(A \cup D, writing, written, outputBuffer)
    BY <2>1 DEF HeldIn
  <2>5. SentOnce' /\ Outstanding' = Outstanding
    BY <1>1, <2>1, <2>2, <2>3, <2>4, SentOncePartsNext DEF A, D, R
  <2> QED
    BY <2>1, <2>5 DEF MessagesKept
<1>3. ASSUME WrittenReleased
      PROVE  SentOnce' /\ MessagesKept
  <2>1. /\ written # NoMessage /\ written' = NoMessage /\ tasks' = Append(tasks, written)
        /\ UNCHANGED <<writing, outputBuffer, autoSend, toAddQueue, refCount>>
    BY <1>3 DEF WrittenReleased
  <2>2. written \in Messages /\ written \in Queued /\ written \notin R /\ written # writing
    BY <1>a, <1>1, <2>1 DEF TypeOK, Queued, Apart, HeldIn
  <2>3. ToSet(tasks') = ToSet(tasks) \cup {written} /\ OnceIn(tasks')
    BY <1>a, <1>1, <2>1, <2>2, QueueAppend DEF TypeOK
  <2>4. MessagesIn(tasks') = R \cup {written}
    BY <2>2, <2>3 DEF MessagesIn
  <2> HIDE DEF A, D, R
  <2>5. Apart(A, D, writing, NoMessage, outputBuffer, R \cup {written})
    <3>1. NoMessage \notin A \cup D
      BY <1>a, ConnectionConstants, ToSetIndices DEF TypeOK, A, D
    <3>2. /\ A \cap D = {} /\ {writing, written} \cap (A \cup D) = {}
          /\ HeldIn(A \cup D, writing, written, outputBuffer) \cap R = {}
          /\ outputBuffer # NoMessage => outputBuffer \in (A \cup D) \ {writing, written}
      BY <1>1 DEF Apart
    <3>3. outputBuffer # NoMessage => outputBuffer # written
      BY <3>2
    <3>4. HeldIn(A \cup D, writing, NoMessage, outputBuffer) \cap (R \cup {written}) = {}
      BY <2>1, <2>2, <3>2, <3>3 DEF HeldIn
    <3> QED
      BY <3>1, <3>2, <3>4 DEF Apart
  <2>6. HeldIn(A \cup D, writing, NoMessage, outputBuffer) \cup (R \cup {written})
            = HeldIn(A \cup D, writing, written, outputBuffer) \cup R
    BY <1>1, <2>1 DEF HeldIn, Apart
  <2>7. SentOnce' /\ Outstanding' = Outstanding
    BY <1>1, <2>1, <2>3, <2>4, <2>5, <2>6, SentOncePartsNext DEF A, D
  <2> QED
    BY <2>1, <2>7 DEF MessagesKept
<1> QED
  BY <1>2, <1>3

\* Only login and connect change whether a login waits.
LEMMA ConnectingStep ==
    ASSUME ConnectionInv, [Next]_vars, ~LoginTask, ~ConnectTask
    PROVE  Connecting' <=> Connecting
<1> USE DEF stateVars, ioVars, refVars, bufferVars, dispatcherVars
<1>a. TypeOK /\ TasksInv /\ tasks \in Seq(Queued)
  BY DEF ConnectionInv, TasksInv, TypeOK
<1>b. ASSUME "connect" \in events' <=> "connect" \in events,
             "connect" \in ToSet(tasks') <=> "connect" \in ToSet(tasks)
      PROVE  Connecting' <=> Connecting
  BY <1>b DEF Connecting
<1>c. CloseConnection(tasks) => ("connect" \in ToSet(tasks') <=> "connect" \in ToSet(tasks))
  BY <1>a, CloseFacts
<1>d. \A x \in Queued : x # "connect" =>
         ("connect" \in ToSet(Append(tasks, x)) <=> "connect" \in ToSet(tasks))
  <2> SUFFICES ASSUME NEW x \in Queued, x # "connect"
               PROVE  "connect" \in ToSet(Append(tasks, x)) <=> "connect" \in ToSet(tasks)
    OBVIOUS
  <2>1. ToSet(Append(tasks, x)) = ToSet(tasks) \cup {x}
    BY <1>a, QueueAppend
  <2> QED
    BY <2>1
<1>e. \A task : Takes(task) /\ task # "connect" =>
         ("connect" \in ToSet(Tail(tasks)) <=> "connect" \in ToSet(tasks))
  BY <1>a, TaskHead
<1>f. \A m \in Messages : m \in Queued /\ m # "connect"
  BY NamesAreNoMessages DEF TaskNames
<1>1. CASE \/ ReadCompletes \/ WriteCompletes \/ ReadTimerExpires \/ WriteTimerExpires
           \/ OnStopOperation \/ OtherTask \/ GameWrites \/ BodyEnds \/ MoveEnds \/ SendLater
           \/ SendAllEnds \/ UNCHANGED vars
  <2>1. UNCHANGED <<tasks, events>>
    BY <1>1 DEF ReadCompletes, WriteCompletes, ReadTimerExpires, WriteTimerExpires, OnStopOperation,
                OtherTask, GameWrites, BodyEnds, MoveEnds, SendLater, SendAllEnds, vars
  <2> QED
    BY <1>b, <2>1
<1>2. CASE ParseHeader \/ OnWriteOperation \/ OnReadTimeout \/ OnWriteTimeout \/ GameDisconnects
           \/ Disconnect
  <2>1. UNCHANGED events /\ (CloseConnection(tasks) \/ UNCHANGED tasks)
    BY <1>2 DEF ParseHeader, OnWriteOperation, OnReadTimeout, OnWriteTimeout, OnTimeout,
                GameDisconnects, Disconnect
  <2> QED
    BY <1>b, <1>c, <2>1
<1>3. CASE ParsePacket
  <2>1. /\ UNCHANGED events
        /\ CloseConnection(tasks) \/ UNCHANGED tasks \/ tasks' = Append(tasks, "logout")
    BY <1>3 DEF ParsePacket
  <2>2. "logout" \in Queued
    BY DEF Queued, TaskNames
  <2> QED
    BY <1>b, <1>c, <1>d, <2>1, <2>2
<1>4. CASE WrittenReleased
  <2>1. UNCHANGED events /\ tasks' = Append(tasks, written) /\ written \in Messages
    BY <1>a, <1>4 DEF WrittenReleased, TypeOK
  <2> QED
    BY <1>b, <1>d, <1>f, <2>1
<1>5. CASE LogoutTask
  <2>1. /\ UNCHANGED events /\ Takes("logout")
        /\ CloseConnection(Tail(tasks)) \/ tasks' = Tail(tasks)
    BY <1>5 DEF LogoutTask
  <2>2. Tail(tasks) \in Seq(Queued)
    BY <1>a, <2>1, TaskHead
  <2>3. CloseConnection(Tail(tasks)) =>
            ("connect" \in ToSet(tasks') <=> "connect" \in ToSet(Tail(tasks)))
    BY <1>a, <2>2, CloseFacts
  <2>4. "connect" \in ToSet(Tail(tasks)) <=> "connect" \in ToSet(tasks)
    BY <1>e, <2>1
  <2> QED
    BY <1>b, <2>1, <2>3, <2>4
<1>6. CASE CloseConnectionTask
  <2>1. Takes("close") /\ tasks' = Tail(tasks)
    BY <1>6 DEF CloseConnectionTask
  <2>2. "connect" \in events' <=> "connect" \in events
    BY <1>6 DEF CloseConnectionTask, ReleaseConnection, ProtocolRetry
  <2> QED
    BY <1>b, <1>e, <2>1, <2>2
<1>7. CASE ReleaseConnectionTask
  <2>1. Takes("releaseConnection") /\ tasks' = Tail(tasks)
    BY <1>7 DEF ReleaseConnectionTask
  <2>2. "connect" \in events' <=> "connect" \in events
    BY <1>7 DEF ReleaseConnectionTask, ReleaseConnection
  <2> QED
    BY <1>b, <1>e, <2>1, <2>2
<1>8. CASE ReleaseProtocolTask
  <2>1. Takes("releaseProtocol") /\ tasks' = Tail(tasks)
    BY <1>8 DEF ReleaseProtocolTask
  <2>2. "connect" \in events' <=> "connect" \in events
    BY <1>8 DEF ReleaseProtocolTask, ProtocolRetry
  <2> QED
    BY <1>b, <1>e, <2>1, <2>2
<1>9. ASSUME NEW m \in Messages, InternalReleaseMessage(m)
      PROVE  Connecting' <=> Connecting
  <2>1. Takes(m) /\ tasks' = Tail(tasks) /\ UNCHANGED events
    BY <1>9 DEF InternalReleaseMessage
  <2> QED
    BY <1>b, <1>e, <1>f, <2>1
<1>10. CASE RefuseLogin
  <2>1. UNCHANGED events /\ (UNCHANGED tasks \/ \E m \in Messages : tasks' = Append(tasks, m))
    BY <1>10 DEF RefuseLogin, Send
  <2> QED
    BY <1>b, <1>d, <1>f, <2>1
<1>11. CASE SendNow
  <2>1. cursor \in 1 .. Len(autoSend)
    BY <1>a, <1>11 DEF SendNow, TypeOK
  <2>2. autoSend[cursor] \in Messages
    BY <1>a, <2>1 DEF TypeOK
  <2>3. UNCHANGED events /\ (UNCHANGED tasks \/ tasks' = Append(tasks, autoSend[cursor]))
    BY <1>11 DEF SendNow, Send
  <2> QED
    BY <1>b, <1>d, <1>f, <2>2, <2>3
<1>12. CASE MoveMessage
  <2>1. /\ UNCHANGED events /\ toAddQueue # <<>>
        /\ UNCHANGED tasks \/ tasks' = Append(tasks, Head(toAddQueue))
    BY <1>12 DEF MoveMessage
  <2>2. Head(toAddQueue) \in Messages
    BY <1>a, <2>1, TailFacts DEF TypeOK
  <2> QED
    BY <1>b, <1>d, <1>f, <2>1, <2>2
<1>13. ASSUME NEW event \in events, EventDue(event)
       PROVE  Connecting' <=> Connecting
  <2>1. events' = events \ {event} /\ tasks' = Append(tasks, event)
    BY <1>13 DEF EventDue
  <2>2. event \in Queued
    BY <1>a DEF TypeOK, EventNames, Queued, TaskNames
  <2>3. ToSet(tasks') = ToSet(tasks) \cup {event}
    BY <1>a, <2>1, <2>2, QueueAppend
  <2> QED
    BY <2>1, <2>3 DEF Connecting
<1> QED
  BY <1>1, <1>2, <1>3, <1>4, <1>5, <1>6, <1>7, <1>8, <1>9, <1>10, <1>11, <1>12, <1>13
     DEF Next, System, IoThread, Task, SendAll

LEMMA MessagesStep ==
    ASSUME ConnectionInv, TypeOK', [Next]_vars
    PROVE  /\ SentOnce'
           /\ \/ MessagesKept /\ (protocolRefs' = protocolRefs \/ LoginTask \/ ConnectTask)
              \/ MessageTaken /\ ~LoginTask /\ ~ConnectTask
              \/ MessageReturned /\ ~LoginTask /\ ~ConnectTask
<1> USE DEF stateVars, ioVars, refVars, bufferVars, dispatcherVars
<1>a. TypeOK /\ TasksInv /\ SentOnce /\ tasks \in Seq(Queued)
  BY DEF ConnectionInv, TasksInv, TypeOK
<1>b. OnceIn(tasks)
  BY <1>a, SentOnceParts
<1>c. ASSUME UNCHANGED <<writing, written, outputBuffer, autoSend, toAddQueue, refCount>>,
             OnceIn(tasks'), MessagesIn(tasks') = MessagesIn(tasks)
      PROVE  SentOnce' /\ MessagesKept
  BY <1>a, <1>c, MessagesSame DEF MessagesKept
<1>d. CloseConnection(tasks) => OnceIn(tasks') /\ MessagesIn(tasks') = MessagesIn(tasks)
  BY <1>a, <1>b, CloseFacts
<1>e. \A x \in TaskNames : tasks' = Append(tasks, x) =>
         OnceIn(tasks') /\ MessagesIn(tasks') = MessagesIn(tasks)
  <2> SUFFICES ASSUME NEW x \in TaskNames, tasks' = Append(tasks, x)
               PROVE  OnceIn(tasks') /\ MessagesIn(tasks') = MessagesIn(tasks)
    OBVIOUS
  <2>1. x \in Queued /\ x \notin Messages
    BY NamesAreNoMessages
  <2>2. x \notin MessagesIn(tasks)
    BY <2>1 DEF MessagesIn
  <2>3. ToSet(tasks') = ToSet(tasks) \cup {x} /\ OnceIn(tasks')
    BY <1>a, <1>b, <2>1, <2>2, QueueAppend
  <2> QED
    BY <2>1, <2>3 DEF MessagesIn
<1>f. \A task \in TaskNames : Takes(task) =>
         /\ OnceIn(Tail(tasks)) /\ MessagesIn(Tail(tasks)) = MessagesIn(tasks)
         /\ Tail(tasks) \in Seq(Queued)
  <2> SUFFICES ASSUME NEW task \in TaskNames, Takes(task)
               PROVE  /\ OnceIn(Tail(tasks)) /\ MessagesIn(Tail(tasks)) = MessagesIn(tasks)
                      /\ Tail(tasks) \in Seq(Queued)
    OBVIOUS
  <2>1. tasks # <<>> /\ Head(tasks) = task
    BY DEF Takes
  <2>2. /\ OnceIn(Tail(tasks)) /\ Tail(tasks) \in Seq(Queued)
        /\ MessagesIn(Tail(tasks)) = MessagesIn(tasks) \ {task}
    BY <1>a, <1>b, <2>1, QueueTail
  <2>3. task \notin MessagesIn(tasks)
    BY NamesAreNoMessages DEF MessagesIn
  <2> QED
    BY <2>2, <2>3
<1>1. CASE \/ ReadCompletes \/ WriteCompletes \/ ReadTimerExpires \/ WriteTimerExpires
           \/ OnStopOperation \/ OtherTask \/ BodyEnds \/ MoveEnds \/ SendLater
           \/ SendAllEnds \/ UNCHANGED vars
  <2>1. /\ UNCHANGED <<writing, written, outputBuffer, autoSend, toAddQueue, refCount>>
        /\ UNCHANGED <<tasks, protocolRefs>>
    BY <1>1 DEF ReadCompletes, WriteCompletes, ReadTimerExpires, WriteTimerExpires, OnStopOperation,
                OtherTask, BodyEnds, MoveEnds, SendLater, SendAllEnds, vars
  <2> QED
    BY <1>b, <1>c, <2>1
<1>2. CASE ParseHeader \/ OnReadTimeout \/ OnWriteTimeout \/ GameDisconnects \/ Disconnect
  <2>1. /\ UNCHANGED <<writing, written, outputBuffer, autoSend, toAddQueue, refCount, protocolRefs>>
        /\ CloseConnection(tasks) \/ UNCHANGED tasks
    BY <1>2 DEF ParseHeader, OnReadTimeout, OnWriteTimeout, OnTimeout, GameDisconnects, Disconnect
  <2> QED
    BY <1>b, <1>c, <1>d, <2>1
<1>3. CASE ParsePacket
  <2>1. /\ UNCHANGED <<writing, written, outputBuffer, autoSend, toAddQueue, refCount, protocolRefs>>
        /\ CloseConnection(tasks) \/ UNCHANGED tasks \/ tasks' = Append(tasks, "logout")
    BY <1>3 DEF ParsePacket
  <2>2. "logout" \in TaskNames
    BY DEF TaskNames
  <2> QED
    BY <1>b, <1>c, <1>d, <1>e, <2>1, <2>2
<1>4. CASE OnWriteOperation
  <2>1. UNCHANGED protocolRefs
    BY <1>4 DEF OnWriteOperation
  <2> QED
    BY <1>4, <2>1, HandlerMoves
<1>5. CASE WrittenReleased
  <2>1. UNCHANGED protocolRefs
    BY <1>5 DEF WrittenReleased
  <2> QED
    BY <1>5, <2>1, HandlerMoves
<1>6. CASE LoginTask
  <2>1. /\ UNCHANGED <<writing, written, outputBuffer, autoSend, toAddQueue, refCount>>
        /\ Takes("login") /\ tasks' = Tail(tasks)
    BY <1>6 DEF LoginTask
  <2> QED
    BY <1>6, <1>c, <1>f, <2>1 DEF TaskNames
<1>7. CASE ConnectTask
  <2>1. /\ UNCHANGED <<writing, written, outputBuffer, autoSend, toAddQueue, refCount>>
        /\ Takes("connect") /\ tasks' = Tail(tasks)
    BY <1>7 DEF ConnectTask
  <2> QED
    BY <1>7, <1>c, <1>f, <2>1 DEF TaskNames
<1>8. CASE LogoutTask
  <2>1. /\ UNCHANGED <<writing, written, outputBuffer, autoSend, toAddQueue, refCount, protocolRefs>>
        /\ CloseConnection(Tail(tasks)) \/ tasks' = Tail(tasks)
        /\ Takes("logout")
    BY <1>8 DEF LogoutTask
  <2>2. /\ OnceIn(Tail(tasks)) /\ MessagesIn(Tail(tasks)) = MessagesIn(tasks)
        /\ Tail(tasks) \in Seq(Queued)
    BY <1>f, <2>1 DEF TaskNames
  <2>3. CloseConnection(Tail(tasks)) =>
            OnceIn(tasks') /\ MessagesIn(tasks') = MessagesIn(Tail(tasks))
    BY <1>a, <2>2, CloseFacts
  <2> QED
    BY <1>c, <2>1, <2>2, <2>3
<1>9. CASE CloseConnectionTask \/ ReleaseConnectionTask \/ ReleaseProtocolTask
  <2>1. /\ UNCHANGED <<writing, written, outputBuffer, autoSend, toAddQueue, refCount, protocolRefs>>
        /\ tasks' = Tail(tasks)
        /\ Takes("close") \/ Takes("releaseConnection") \/ Takes("releaseProtocol")
    BY <1>9 DEF CloseConnectionTask, ReleaseConnectionTask, ReleaseProtocolTask
  <2>2. OnceIn(tasks') /\ MessagesIn(tasks') = MessagesIn(tasks)
    BY <1>f, <2>1 DEF TaskNames
  <2> QED
    BY <1>c, <2>1, <2>2
<1>10. ASSUME NEW m \in Messages, InternalReleaseMessage(m)
       PROVE  SentOnce' /\ MessageReturned /\ ~LoginTask /\ ~ConnectTask
  <2>1. Takes(m) /\ m # "login" /\ m # "connect"
    BY <1>10, NamesAreNoMessages DEF InternalReleaseMessage, TaskNames
  <2>2. ~LoginTask /\ ~ConnectTask
    BY <2>1 DEF LoginTask, ConnectTask, Takes
  <2> QED
    BY <1>10, <2>2, ReleaseMessageMoves
<1>11. CASE GameWrites
  <2>1. ~LoginTask /\ ~ConnectTask
    BY <1>11 DEF GameWrites, LoginTask, ConnectTask, Takes
  <2>2. CASE WritesToBuffer
    <3>1. /\ UNCHANGED <<writing, written, outputBuffer, autoSend, toAddQueue, refCount>>
          /\ UNCHANGED <<tasks, protocolRefs>>
      BY <1>11, <2>2 DEF GameWrites, WritesToBuffer
    <3> QED
      BY <1>b, <1>c, <3>1
  <2>3. ASSUME NEW m \in Messages, WritesToNewMessage(m)
        PROVE  SentOnce' /\ MessageTaken
    BY <1>11, <2>3, NewMessageMoves
  <2>4. WritesToBuffer \/ \E m \in Messages : WritesToNewMessage(m)
    BY <1>11 DEF GameWrites
  <2> QED
    BY <2>1, <2>2, <2>3, <2>4
<1>12. CASE RefuseLogin
  <2>1. ~LoginTask /\ ~ConnectTask
    BY <1>12 DEF RefuseLogin, LoginTask, ConnectTask, Takes
  <2>2. CASE protocol = "attached"
    BY <1>12, <2>1, <2>2, RefuseMoves
  <2>3. CASE protocol # "attached"
    <3>1. /\ UNCHANGED <<writing, written, outputBuffer, autoSend, toAddQueue, refCount>>
          /\ UNCHANGED <<tasks, protocolRefs>>
      BY <1>12, <2>3 DEF RefuseLogin
    <3> QED
      BY <1>b, <1>c, <3>1
  <2> QED
    BY <2>2, <2>3
<1>13. CASE MoveMessage
  <2>1. UNCHANGED protocolRefs
    BY <1>13 DEF MoveMessage
  <2> QED
    BY <1>13, <2>1, MoveMessageMoves
<1>14. CASE SendNow
  <2>1. UNCHANGED protocolRefs
    BY <1>14 DEF SendNow
  <2> QED
    BY <1>14, <2>1, SendNowMoves
<1>15. ASSUME NEW event \in events, EventDue(event)
       PROVE  SentOnce' /\ MessagesKept /\ protocolRefs' = protocolRefs
  <2>1. /\ UNCHANGED <<writing, written, outputBuffer, autoSend, toAddQueue, refCount, protocolRefs>>
        /\ tasks' = Append(tasks, event)
    BY <1>15 DEF EventDue
  <2>2. event \in TaskNames
    BY <1>a DEF TypeOK, EventNames, TaskNames
  <2> QED
    BY <1>c, <1>e, <2>1, <2>2
<1> QED
  BY <1>1, <1>2, <1>3, <1>4, <1>5, <1>6, <1>7, <1>8, <1>9, <1>10, <1>11, <1>12, <1>13, <1>14, <1>15
     DEF Next, System, IoThread, Task, SendAll

-----------------------------------------------------------------------------
(* The references.                                                         *)

\* While messages refer to the connection nothing stops it.
LEMMA ReferredNotStopped ==
    ASSUME ConnectionInv, TypeOK', [Next]_vars, refCount > 0
    PROVE  HasStopped' = 0
<1> USE DEF stateVars, ioVars, refVars, bufferVars, dispatcherVars
<1>a. TypeOK
  BY DEF ConnectionInv
<1>1. HasStopped = 0
  <2>1. socket # "deleted" /\ "stop" \notin ToSet(ioQueue)
    BY DEF ConnectionInv, CountInv
  <2> QED
    BY <2>1, StopFacts
<1>2. HasStopped' = HasStopped \/ CloseConnectionTask \/ ReleaseConnectionTask
  BY StopStep
<1>3. "stop" \notin ToSet(ioQueue) /\ socket # "deleted"
  BY <1>1, StopFacts
<1>4. ioQueue \in Seq(Handlers)
  BY <1>a DEF TypeOK
<1>5. CASE CloseConnectionTask
  <2>1. CASE UNCHANGED <<ioQueue, socket>>
    BY <1>1, <2>1 DEF HasStopped
  <2>2. CASE ~UNCHANGED <<ioQueue, socket>>
    <3>1. /\ SocketCloses
          /\ \E waiting : \E q \in HandlersAfterClose(ioQueue) : ReleaseConnection(waiting, q)
      BY <1>5, <2>2 DEF CloseConnectionTask
    <3>2. PICK waiting, q : q \in HandlersAfterClose(ioQueue) /\ ReleaseConnection(waiting, q)
      BY <3>1
    <3>3. q \in Seq(Handlers) /\ "stop" \notin ToSet(q)
      BY <1>a, <1>3, <1>4, <3>2, AfterClose
    <3>4. socket' = "closed"
      BY <1>a, <1>3, <3>1, SocketFacts
    <3> QED
      BY <1>a, <3>2, <3>3, <3>4, ReleaseStops
  <2> QED
    BY <2>1, <2>2
<1>6. CASE ReleaseConnectionTask
  <2>1. ReleaseConnection(events, ioQueue) /\ UNCHANGED socket
    BY <1>6 DEF ReleaseConnectionTask
  <2> QED
    BY <1>a, <1>3, <1>4, <2>1, ReleaseStops
<1> QED
  BY <1>1, <1>2, <1>5, <1>6

\* The protocol is deleted only by releaseProtocol, when nothing refers to it.
LEMMA ProtocolDeleted ==
    ASSUME [Next]_vars, protocol' # protocol
    PROVE  protocolRefs' = protocolRefs /\ (protocol' = "deleted" => ~(protocolRefs > 0))
<1> USE DEF stateVars, ioVars, refVars, bufferVars, dispatcherVars
<1>1. CASE CloseConnectionTask
  BY <1>1 DEF CloseConnectionTask, ReleaseProtocol
<1>2. CASE ReleaseProtocolTask
  BY <1>2 DEF ReleaseProtocolTask, ReleaseProtocol
<1>3. CASE System \/ IoThread \/ OtherTask \/ BodyEnds \/ SendAll \/ UNCHANGED vars
  BY <1>3 DEF System, ReadCompletes, WriteCompletes, ReadTimerExpires, WriteTimerExpires, IoThread,
              ParseHeader, ParsePacket, OnWriteOperation, WrittenReleased, OnReadTimeout,
              OnWriteTimeout, OnTimeout, OnStopOperation, OtherTask, BodyEnds, SendAll, MoveMessage,
              MoveEnds, SendLater, SendNow, SendAllEnds, vars
<1>4. CASE LoginTask \/ ConnectTask \/ LogoutTask \/ ReleaseConnectionTask
           \/ (\E m \in Messages : InternalReleaseMessage(m))
  BY <1>4 DEF LoginTask, ConnectTask, LogoutTask, ReleaseConnectionTask, InternalReleaseMessage
<1>5. CASE GameWrites \/ GameDisconnects \/ RefuseLogin \/ Disconnect
           \/ (\E event \in events : EventDue(event))
  BY <1>5 DEF GameWrites, GameDisconnects, RefuseLogin, Disconnect, EventDue
<1> QED
  BY <1>1, <1>2, <1>3, <1>4, <1>5 DEF Next, Task

LEMMA CountStep ==
    ASSUME ConnectionInv, TypeOK', [Next]_vars
    PROVE  CountInv'
<1> USE DEF stateVars, ioVars, refVars, bufferVars, dispatcherVars
<1>a. TypeOK /\ TasksInv /\ CountInv
  BY DEF ConnectionInv, TasksInv
<1>b. IsFiniteSet(Outstanding) /\ refCount = Cardinality(Outstanding) /\ refCount \in Nat
  BY <1>a, FS_CardinalityType DEF CountInv
<1>1. \/ MessagesKept /\ (protocolRefs' = protocolRefs \/ LoginTask \/ ConnectTask)
      \/ MessageTaken /\ ~LoginTask /\ ~ConnectTask
      \/ MessageReturned /\ ~LoginTask /\ ~ConnectTask
  BY MessagesStep
<1>2. /\ IsFiniteSet(Outstanding') /\ refCount' = Cardinality(Outstanding')
  <2>1. CASE MessagesKept
    BY <1>b, <2>1 DEF MessagesKept
  <2>2. CASE MessageTaken
    <3>1. PICK m \in Messages \ Outstanding :
                    Outstanding' = Outstanding \cup {m} /\ refCount' = refCount + 1
      BY <2>2 DEF MessageTaken
    <3>2. IsFiniteSet(Outstanding \cup {m}) /\ Cardinality(Outstanding \cup {m}) = Cardinality(Outstanding) + 1
      BY <1>b, FS_AddElement
    <3> QED
      BY <1>b, <3>1, <3>2
  <2>3. CASE MessageReturned
    <3>1. PICK m \in Outstanding :
                    Outstanding' = Outstanding \ {m} /\ refCount' = refCount - 1
      BY <2>3 DEF MessageReturned
    <3>2. IsFiniteSet(Outstanding \ {m}) /\ Cardinality(Outstanding \ {m}) = Cardinality(Outstanding) - 1
      BY <1>b, FS_RemoveElement
    <3> QED
      BY <1>b, <3>1, <3>2
  <2> QED
    BY <1>1, <2>1, <2>2, <2>3
<1>3. refCount' \in Nat
  BY <1>2, FS_CardinalityType
<1>4. protocolRefs = refCount + (IF Connecting THEN 1 ELSE 0)
  BY <1>a DEF CountInv
<1>5. protocolRefs' = refCount' + (IF Connecting' THEN 1 ELSE 0)
  <2>1. CASE LoginTask
    <3>1. "login" \in ToSet(tasks) /\ ("connect" \in ToSet(Tail(tasks)) <=> "connect" \in ToSet(tasks))
      BY <1>a, <2>1, TaskHead DEF LoginTask
    <3>2. ~Connecting
      BY <1>a, <3>1 DEF TasksInv, ProtocolInv
    <3>3. /\ refCount' = refCount /\ tasks' = Tail(tasks)
          /\ \/ protocolRefs' = protocolRefs /\ events' = events
             \/ protocolRefs' = protocolRefs + 1 /\ "connect" \in events'
      BY <2>1 DEF LoginTask
    <3>4. "connect" \notin ToSet(tasks') /\ "connect" \notin events
      BY <3>1, <3>2, <3>3 DEF Connecting
    <3>5. CASE protocolRefs' = protocolRefs /\ events' = events
      <4>1. ~Connecting'
        BY <3>4, <3>5 DEF Connecting
      <4> QED
        BY <1>4, <3>2, <3>3, <3>5, <4>1
    <3>6. CASE protocolRefs' = protocolRefs + 1 /\ "connect" \in events'
      <4>1. Connecting'
        BY <3>6 DEF Connecting
      <4> QED
        BY <1>b, <1>4, <3>2, <3>3, <3>6, <4>1
    <3> QED
      BY <3>3, <3>5, <3>6
  <2>2. CASE ConnectTask
    <3>1. /\ refCount' = refCount /\ tasks' = Tail(tasks) /\ events' = events
          /\ protocolRefs' = protocolRefs - 1
          /\ Takes("connect")
      BY <2>2 DEF ConnectTask
    <3>2. /\ "connect" \in ToSet(tasks)
          /\ Occurrences(tasks', "connect") = Occurrences(tasks, "connect") - 1
          /\ tasks' \in Seq(Queued)
      BY <1>a, <3>1, TaskHead
    <3>3. Pending("connect") <= 1 /\ Occurrences(tasks, "connect") \in Nat
          /\ Occurrences(tasks, "connect") > 0
      BY <1>a, <3>2, PendingFacts DEF TasksInv, ProtocolInv
    <3>4. "connect" \notin events /\ Occurrences(tasks', "connect") = 0
      BY <3>2, <3>3 DEF Pending
    <3>5. "connect" \notin ToSet(tasks')
      BY <3>2, <3>4, OccursIn
    <3>6. Connecting /\ ~Connecting'
      BY <3>1, <3>2, <3>4, <3>5 DEF Connecting
    <3> QED
      BY <1>b, <1>4, <3>1, <3>6
  <2>3. CASE ~LoginTask /\ ~ConnectTask
    <3>1. Connecting' <=> Connecting
      BY <2>3, ConnectingStep
    <3>2. \E e \in {-1, 0, 1} : protocolRefs' = protocolRefs + e /\ refCount' = refCount + e
      <4>1. CASE MessagesKept /\ protocolRefs' = protocolRefs
        <5>1. protocolRefs' = protocolRefs + 0 /\ refCount' = refCount + 0
          BY <1>a, <4>1 DEF MessagesKept, TypeOK
        <5> QED
          BY <5>1
      <4>2. CASE MessageTaken
        BY <4>2 DEF MessageTaken
      <4>3. CASE MessageReturned
        <5>1. protocolRefs' = protocolRefs + (-1) /\ refCount' = refCount + (-1)
          BY <1>a, <4>3 DEF MessageReturned, TypeOK
        <5> QED
          BY <5>1
      <4> QED
        BY <1>1, <2>3, <4>1, <4>2, <4>3
    <3>3. PICK e \in {-1, 0, 1} : protocolRefs' = protocolRefs + e /\ refCount' = refCount + e
      BY <3>2
    <3>4. CASE Connecting
      <4>1. protocolRefs = refCount + 1
        BY <1>4, <3>4
      <4>2. protocolRefs' = refCount' + 1
        BY <1>b, <3>3, <4>1
      <4>3. Connecting'
        BY <3>1, <3>4
      <4> QED
        BY <4>2, <4>3
    <3>5. CASE ~Connecting
      <4>1. protocolRefs = refCount
        BY <1>b, <1>4, <3>5
      <4>2. protocolRefs' = refCount' + 0
        BY <1>b, <1>3, <3>3, <4>1
      <4>3. ~Connecting'
        BY <3>1, <3>5
      <4> QED
        BY <4>2, <4>3
    <3> QED
      BY <3>4, <3>5
  <2> QED
    BY <2>1, <2>2, <2>3
<1>6. protocolRefs' > 0 => protocol' # "deleted"
  <2>1. CASE protocol' # protocol
    BY <2>1, ProtocolDeleted
  <2>2. CASE protocol' = protocol /\ protocol = "attached"
    BY <2>2
  <2>3. CASE protocol' = protocol /\ protocol # "attached"
    <3>1. ~LoginTask
      <4>1. Takes("login") => "login" \in ToSet(tasks)
        BY <1>a, TaskHead
      <4>2. "login" \notin ToSet(tasks)
        BY <1>a, <2>3 DEF TasksInv, ProtocolInv
      <4> QED
        BY <4>1, <4>2 DEF LoginTask
    <3>2. ~MessageTaken
      BY <2>3 DEF MessageTaken
    <3>3. protocolRefs' = protocolRefs \/ protocolRefs' = protocolRefs - 1
      BY <1>1, <3>1, <3>2 DEF MessageReturned, ConnectTask
    <3>4. protocolRefs \in Int
      BY <1>a DEF TypeOK
    <3>5. protocolRefs' > 0 => protocolRefs > 0
      BY <3>3, <3>4
    <3> QED
      BY <1>a, <2>3, <3>5 DEF CountInv
  <2> QED
    BY <2>1, <2>2, <2>3
<1>7. refCount' > 0 => HasStopped' = 0
  <2>1. CASE refCount > 0
    BY <2>1, ReferredNotStopped
  <2>2. CASE ~(refCount > 0)
    <3>1. MessagesKept => ~(refCount' > 0)
      BY <2>2 DEF MessagesKept
    <3>2. MessageReturned => ~(refCount' > 0)
      BY <1>b, <2>2 DEF MessageReturned
    <3>3. MessageTaken => HasStopped' = 0
      <4>1. MessageTaken => connectionState # "CLOSED" /\ UNCHANGED <<socket, ioQueue>>
        BY <1>a DEF MessageTaken, TasksInv, ProtocolInv
      <4>2. connectionState # "CLOSED" => HasStopped = 0
        BY StopFacts
      <4>3. UNCHANGED <<socket, ioQueue>> => HasStopped' = HasStopped
        BY DEF HasStopped
      <4> QED
        BY <4>1, <4>2, <4>3
    <3> QED
      BY <1>1, <3>1, <3>2, <3>3
  <2> QED
    BY <2>1, <2>2
<1>8. HasStopped' = 0 => socket' # "deleted" /\ "stop" \notin ToSet(ioQueue')
  <2>1. /\ Occurrences(ioQueue', "stop") \in Nat
        /\ Occurrences(ioQueue', "stop") > 0 <=> "stop" \in ToSet(ioQueue')
    BY OccursIn DEF TypeOK
  <2>2. HasStopped' = Occurrences(ioQueue', "stop") + (IF socket' = "deleted" THEN 1 ELSE 0)
    BY DEF HasStopped
  <2> QED
    BY <2>1, <2>2
<1> QED
  BY <1>2, <1>5, <1>6, <1>7, <1>8 DEF CountInv

-----------------------------------------------------------------------------
(* The invariant and what follows from it.                                 *)

LEMMA ConnectionInit ==
    ASSUME Init
    PROVE  ConnectionInv
<1> USE DEF Init
<1>1. "login" \in Queued /\ "login" \notin Messages
  BY NamesAreNoMessages DEF TaskNames
<1>2. \A S : CountIn(<<>>, S) = 0
  BY FS_EmptySet DEF CountIn
<1>3. \A name : Occurrences(<<"login">>, name) = (IF name = "login" THEN 1 ELSE 0)
  <2> SUFFICES ASSUME NEW name
               PROVE  Occurrences(<<"login">>, name) = (IF name = "login" THEN 1 ELSE 0)
    OBVIOUS
  <2> DEFINE I == {i \in DOMAIN <<"login">> : <<"login">>[i] \in {name}}
  <2>1. CASE name = "login"
    <3>1. I = {1}
      BY <2>1
    <3> QED
      BY <2>1, <3>1, FS_Singleton DEF Occurrences, CountIn
  <2>2. CASE name # "login"
    <3>1. I = {}
      BY <2>2
    <3> QED
      BY <2>2, <3>1, FS_EmptySet DEF Occurrences, CountIn
  <2> QED
    BY <2>1, <2>2
<1>4. TypeOK
  BY <1>1 DEF TypeOK, EventNames, DispatcherPlaces
<1>5. ToSet(<<"login">>) = {"login"} /\ ToSet(<<>>) = {}
  BY DEF ToSet
<1>6. IoInv
  BY <1>2 DEF IoInv, WritesUnderWay, ReadsUnderWay
<1>7. StopLast
  BY <1>5 DEF StopLast, AfterStop
<1>8. CloseInv
  <2>1. Occurrences(tasks, "close") = 0 /\ Occurrences(tasks, "releaseConnection") = 0
    BY <1>3
  <2>2. Pending("close") = 0 /\ Pending("releaseConnection") = 0
    BY <2>1 DEF Pending
  <2>3. HasStopped = 0
    BY <1>2 DEF HasStopped, Occurrences
  <2> QED
    BY <2>2, <2>3 DEF CloseInv
<1>9. ProtocolInv
  BY <1>3, <1>5 DEF ProtocolInv, Pending, Connecting, LoginFirst, LogoutsBefore
<1>10. MessagesIn(tasks) = {} /\ OnceIn(tasks)
  BY <1>1, <1>5 DEF MessagesIn, OnceIn
<1>11. SentOnce /\ Outstanding = {}
  <2>1. IsDistinct(autoSend) /\ IsDistinct(toAddQueue)
    BY DEF IsDistinct
  <2>2. Apart(ToSet(autoSend), ToSet(toAddQueue), writing, written, outputBuffer, MessagesIn(tasks))
    BY <1>5, <1>10 DEF Apart, HeldIn
  <2>3. HeldIn(ToSet(autoSend) \cup ToSet(toAddQueue), writing, written, outputBuffer) = {}
    BY <1>5 DEF HeldIn
  <2> QED
    BY <1>4, <1>10, <2>1, <2>2, <2>3, SentOnceParts
<1>12. CountInv
  BY <1>5, <1>11, FS_EmptySet DEF CountInv, Connecting
<1> QED
  BY <1>4, <1>6, <1>7, <1>8, <1>9, <1>11, <1>12 DEF ConnectionInv

LEMMA ConnectionStep ==
    ASSUME ConnectionInv, [Next]_vars
    PROVE  ConnectionInv'
<1>1. TypeOK'
  BY TypeStep
<1>2. IoInv'
  BY IoStep
<1>3. StopLast'
  BY StopStep
<1>4. CloseInv' /\ ProtocolInv'
  BY TasksStep DEF TasksInv
<1>5. CountInv'
  BY <1>1, CountStep
<1>6. SentOnce'
  BY <1>1, MessagesStep
<1> QED
  BY <1>1, <1>2, <1>3, <1>4, <1>5, <1>6 DEF ConnectionInv

THEOREM ConnectionInductive == Spec => []ConnectionInv
<1>1. Init => ConnectionInv
  BY ConnectionInit
<1>2. ConnectionInv /\ [Next]_vars => ConnectionInv'
  BY ConnectionStep
<1> QED
  BY <1>1, <1>2, PTL DEF Spec

LEMMA InvRefs ==
    ASSUME ConnectionInv
    PROVE  RefsCounted
BY DEF ConnectionInv, IoInv, CloseInv, CountInv, RefsCounted

LEMMA InvAlive ==
    ASSUME ConnectionInv
    PROVE  ObjectsAlive
<1>a. TypeOK /\ ProtocolInv /\ CountInv
  BY DEF ConnectionInv
<1>1. socket # "fault"
  BY <1>a DEF TypeOK
<1>2. ASSUME protocol = "deleted", NEW name \in {"login", "logout", "connect", "releaseProtocol"}
      PROVE  Pending(name) = 0
  <2>1. Pending(name) \in Nat /\ (Pending(name) > 0 <=> name \in ToSet(tasks) \cup events)
    BY <1>a, PendingFacts
  <2>2. CASE name \in {"login", "logout"}
    <3>1. name \notin events
      BY <1>a, <2>2 DEF TypeOK, EventNames
    <3>2. name \notin ToSet(tasks)
      BY <1>2, <1>a, <2>2 DEF ProtocolInv
    <3> QED
      BY <2>1, <3>1, <3>2
  <2>3. CASE name = "connect"
    <3>1. refCount \in Nat
      BY <1>a, FS_CardinalityType DEF CountInv
    <3>2. ~Connecting
      BY <1>2, <1>a, <3>1 DEF CountInv
    <3> QED
      BY <2>1, <2>3, <3>2 DEF Connecting
  <2>4. CASE name = "releaseProtocol"
    BY <1>2, <1>a, <2>4 DEF ProtocolInv
  <2> QED
    BY <2>2, <2>3, <2>4
<1>3. protocol = "deleted" => client = "none"
  BY <1>a DEF ProtocolInv
<1> QED
  BY <1>1, <1>2, <1>3 DEF ObjectsAlive

\* Whatever the io_service thread and the dispatcher do in turn, the counts of
\* Connection and Protocol are the messages that refer to them, two writes are never
\* under way, one task closes the connection and one attempt releases it, and a
\* message is in one place (connection.cpp, protocol.cpp, outputmessage.cpp).
THEOREM ConnectionRefsCounted == Spec => []RefsCounted
BY ConnectionInductive, InvRefs, PTL

\* No handler of the io_service thread uses the socket after onStopOperation has
\* deleted it, and no task is bound to a protocol that releaseProtocol has deleted.
THEOREM ConnectionObjectsAlive == Spec => []ObjectsAlive
BY ConnectionInductive, InvAlive, PTL

-----------------------------------------------------------------------------
(* The order of the writes. Until the game writes for the first time only  *)
(* the refusal of a login is sent. From then on a message is begun when    *)
(* the one before it is full, so that two messages wait only in their      *)
(* order and at a time when neither of them can be put off.                *)

Waiting == ToSet(autoSend) \cup Deferred
NothingWaits == autoSend = <<>> /\ toAddQueue = <<>>
Early == "login" \in ToSet(tasks) \/ Connecting \/ dpc = "refuse"

Begun == \A m \in Waiting : wireLast < first[m] /\ (m = outputBuffer \/ IsFull(m))

OneWaits == Len(autoSend) + Len(toAddQueue) <= 1
TwoWait ==
    /\ Len(autoSend) = 2 /\ toAddQueue = <<>> /\ writing = NoMessage
    /\ IsFull(autoSend[1]) /\ last[autoSend[1]] < first[autoSend[2]]
    /\ dpc = "sendAll" => cursor = 1

OrderInv ==
    /\ wireLast <= writes /\ \A m \in Messages : first[m] <= last[m] /\ last[m] <= writes
    /\ Early => writes = 0 /\ client = "none" /\ NothingWaits
    /\ dpc = "refuse" => "login" \notin ToSet(tasks) /\ ~Connecting
    /\ client = "linked" /\ writes = 0 => NothingWaits
    /\ writes > 0 /\ overflow = "no" => Begun /\ (OneWaits \/ TwoWait)

\* No task is a login but the first one of the connection.
LEMMA LoginStep ==
    ASSUME ConnectionInv, [Next]_vars
    PROVE  "login" \in ToSet(tasks') => "login" \in ToSet(tasks)
<1> USE DEF stateVars, ioVars, refVars, bufferVars, dispatcherVars
<1>a. TypeOK /\ TasksInv /\ tasks \in Seq(Queued)
  BY DEF ConnectionInv, TasksInv, TypeOK
<1> DEFINE Goal == "login" \in ToSet(tasks') => "login" \in ToSet(tasks)
<1>b. ASSUME NEW queued \in Seq(Queued), ToSet(queued) \subseteq ToSet(tasks),
             CloseConnection(queued) \/ tasks' = queued
      PROVE  Goal
  BY <1>a, <1>b, CloseFacts
<1>c. ASSUME NEW x \in Queued, x # "login", tasks' = Append(tasks, x)
      PROVE  Goal
  <2>1. ToSet(tasks') = ToSet(tasks) \cup {x}
    BY <1>a, <1>c, QueueAppend
  <2> QED
    BY <1>c, <2>1
<1>d. \A m \in Messages : m \in Queued /\ m # "login"
  BY NamesAreNoMessages DEF TaskNames
<1>e. ASSUME NEW task, Takes(task), CloseConnection(Tail(tasks)) \/ tasks' = Tail(tasks)
      PROVE  Goal
  <2>1. Tail(tasks) \in Seq(Queued) /\ ToSet(Tail(tasks)) \subseteq ToSet(tasks)
    BY <1>a, <1>e, TaskHead
  <2> QED
    BY <1>b, <1>e, <2>1
<1>1. CASE \/ ReadCompletes \/ WriteCompletes \/ ReadTimerExpires \/ WriteTimerExpires
           \/ OnStopOperation \/ OtherTask \/ GameWrites \/ BodyEnds \/ MoveEnds \/ SendLater
           \/ SendAllEnds \/ UNCHANGED vars
  <2>1. UNCHANGED tasks
    BY <1>1 DEF ReadCompletes, WriteCompletes, ReadTimerExpires, WriteTimerExpires, OnStopOperation,
                OtherTask, GameWrites, BodyEnds, MoveEnds, SendLater, SendAllEnds, vars
  <2> QED
    BY <1>a, <1>b, <2>1
<1>2. CASE ParseHeader \/ OnWriteOperation \/ OnReadTimeout \/ OnWriteTimeout \/ GameDisconnects
           \/ Disconnect
  <2>1. CloseConnection(tasks) \/ UNCHANGED tasks
    BY <1>2 DEF ParseHeader, OnWriteOperation, OnReadTimeout, OnWriteTimeout, OnTimeout,
                GameDisconnects, Disconnect
  <2> QED
    BY <1>a, <1>b, <2>1
<1>3. CASE ParsePacket
  <2>1. CloseConnection(tasks) \/ UNCHANGED tasks \/ tasks' = Append(tasks, "logout")
    BY <1>3 DEF ParsePacket
  <2>2. "logout" \in Queued
    BY DEF Queued, TaskNames
  <2> QED
    BY <1>a, <1>b, <1>c, <2>1, <2>2
<1>4. CASE WrittenReleased
  <2>1. tasks' = Append(tasks, written) /\ written \in Messages
    BY <1>a, <1>4 DEF WrittenReleased, TypeOK
  <2> QED
    BY <1>c, <1>d, <2>1
<1>5. CASE LoginTask \/ ConnectTask \/ LogoutTask
  <2>1. \E task : Takes(task) /\ (CloseConnection(Tail(tasks)) \/ tasks' = Tail(tasks))
    BY <1>5 DEF LoginTask, ConnectTask, LogoutTask
  <2> QED
    BY <1>e, <2>1
<1>6. CASE CloseConnectionTask \/ ReleaseConnectionTask \/ ReleaseProtocolTask
  <2>1. \E task : Takes(task) /\ tasks' = Tail(tasks)
    BY <1>6 DEF CloseConnectionTask, ReleaseConnectionTask, ReleaseProtocolTask
  <2> QED
    BY <1>e, <2>1
<1>7. ASSUME NEW m \in Messages, InternalReleaseMessage(m)
      PROVE  Goal
  <2>1. Takes(m) /\ tasks' = Tail(tasks)
    BY <1>7 DEF InternalReleaseMessage
  <2> QED
    BY <1>e, <2>1
<1>8. CASE RefuseLogin
  <2>1. UNCHANGED tasks \/ \E m \in Messages : tasks' = Append(tasks, m)
    BY <1>8 DEF RefuseLogin, Send
  <2> QED
    BY <1>a, <1>b, <1>c, <1>d, <2>1
<1>9. CASE SendNow
  <2>1. cursor \in 1 .. Len(autoSend)
    BY <1>a, <1>9 DEF SendNow, TypeOK
  <2>2. autoSend[cursor] \in Messages
    BY <1>a, <2>1 DEF TypeOK
  <2>3. UNCHANGED tasks \/ tasks' = Append(tasks, autoSend[cursor])
    BY <1>9 DEF SendNow, Send
  <2> QED
    BY <1>a, <1>b, <1>c, <1>d, <2>2, <2>3
<1>10. CASE MoveMessage
  <2>1. toAddQueue # <<>> /\ (UNCHANGED tasks \/ tasks' = Append(tasks, Head(toAddQueue)))
    BY <1>10 DEF MoveMessage
  <2>2. Head(toAddQueue) \in Messages
    BY <1>a, <2>1, TailFacts DEF TypeOK
  <2> QED
    BY <1>a, <1>b, <1>c, <1>d, <2>1, <2>2
<1>11. ASSUME NEW event \in events, EventDue(event)
       PROVE  Goal
  <2>1. tasks' = Append(tasks, event)
    BY <1>11 DEF EventDue
  <2>2. event \in Queued /\ event # "login"
    BY <1>a DEF TypeOK, EventNames, Queued, TaskNames
  <2> QED
    BY <1>c, <2>1, <2>2
<1> QED
  BY <1>1, <1>2, <1>3, <1>4, <1>5, <1>6, <1>7, <1>8, <1>9, <1>10, <1>11
     DEF Next, System, IoThread, Task, SendAll

\* Only a login and connect decide whether the player gets a client.
LEMMA EarlyStep ==
    ASSUME ConnectionInv, OrderInv, [Next]_vars
    PROVE  /\ Early' => Early /\ client' = "none"
           /\ dpc' = "refuse" => "login" \notin ToSet(tasks') /\ ~Connecting'
           /\ client' = "linked" => client = "linked" \/ Early
<1> USE DEF stateVars, ioVars, refVars, bufferVars, dispatcherVars
<1>a. TypeOK /\ TasksInv /\ tasks \in Seq(Queued)
  BY DEF ConnectionInv, TasksInv, TypeOK
<1>b. "login" \in ToSet(tasks') => "login" \in ToSet(tasks)
  BY LoginStep
<1>c. Early => client = "none"
  BY DEF OrderInv
<1>1. CASE LoginTask
  <2>1. Takes("login") /\ tasks' = Tail(tasks)
    BY <1>1 DEF LoginTask
  <2>2. "login" \in ToSet(tasks) /\ "login" \notin ToSet(tasks')
        /\ ToSet(tasks') \subseteq ToSet(tasks)
    BY <1>a, <2>1, TaskHead
  <2>3. ~Connecting
    BY <1>a, <2>2 DEF TasksInv, ProtocolInv
  <2>4. dpc' = "refuse" \/ dpc' = "body" => ~Connecting'
    <3>1. dpc' = "refuse" \/ dpc' = "body" => events' = events
      BY <1>1 DEF LoginTask
    <3> QED
      BY <2>2, <2>3, <3>1 DEF Connecting
  <2>5. dpc' # "body" => client' = client
    BY <1>1 DEF LoginTask
  <2>6. client = "none"
    BY <1>c, <2>2 DEF Early
  <2> QED
    BY <2>2, <2>4, <2>5, <2>6 DEF Early
<1>2. CASE ConnectTask
  <2>1. Takes("connect") /\ tasks' = Tail(tasks) /\ events' = events
    BY <1>2 DEF ConnectTask
  <2>2. /\ "connect" \in ToSet(tasks) /\ "login" \notin ToSet(tasks')
        /\ Occurrences(tasks', "connect") = Occurrences(tasks, "connect") - 1
    BY <1>a, <2>1, TaskHead
  <2>3. Pending("connect") <= 1
    BY <1>a DEF TasksInv, ProtocolInv
  <2>4. Occurrences(tasks, "connect") \in Nat /\ Occurrences(tasks, "connect") > 0
    BY <1>a, <2>2, PendingFacts
  <2>5. Occurrences(tasks', "connect") = 0 /\ "connect" \notin events'
    BY <2>1, <2>2, <2>3, <2>4 DEF Pending
  <2>6. "connect" \notin ToSet(tasks')
    <3>1. tasks' \in Seq(Queued)
      BY <1>a, <2>1, TaskHead
    <3> QED
      BY <2>5, <3>1, OccursIn
  <2>7. dpc' # "body" => client' = client /\ dpc' = "refuse"
    BY <1>2 DEF ConnectTask
  <2>8. Early
    BY <2>2 DEF Early, Connecting
  <2> QED
    BY <1>c, <2>2, <2>5, <2>6, <2>7, <2>8 DEF Early, Connecting
<1>3. CASE ~LoginTask /\ ~ConnectTask
  <2>1. Connecting' <=> Connecting
    BY <1>3, ConnectingStep
  <2>2. (dpc' = "refuse" => dpc = "refuse") /\ client' \in {client, "none"}
    <3>1. CASE UNCHANGED vars
      BY <3>1 DEF vars
    <3>2. CASE System
      BY <3>2 DEF System, ReadCompletes, WriteCompletes, ReadTimerExpires, WriteTimerExpires
    <3>3. CASE IoThread
      BY <3>3 DEF IoThread, ParseHeader, ParsePacket, OnWriteOperation, WrittenReleased,
                  OnReadTimeout, OnWriteTimeout, OnTimeout, OnStopOperation
    <3>4. CASE LogoutTask \/ ReleaseConnectionTask \/ ReleaseProtocolTask
               \/ \E m \in Messages : InternalReleaseMessage(m)
      BY <3>4 DEF LogoutTask, ReleaseConnectionTask, ReleaseProtocolTask, ReleaseProtocol,
                  InternalReleaseMessage
    <3>5. CASE CloseConnectionTask
      <4>1. dpc' = "moveQueue"
        BY <3>5 DEF CloseConnectionTask
      <4>2. client' \in {client, "none"}
        BY <3>5 DEF CloseConnectionTask, ReleaseProtocol
      <4> QED
        BY <4>1, <4>2
    <3>6. CASE OtherTask \/ GameWrites \/ GameDisconnects \/ BodyEnds \/ Disconnect
      BY <3>6 DEF OtherTask, GameWrites, GameDisconnects, BodyEnds, Disconnect
    <3>7. CASE RefuseLogin
      BY <3>7 DEF RefuseLogin
    <3>8. CASE SendAll
      BY <3>8 DEF SendAll, MoveMessage, MoveEnds, SendLater, SendNow, SendAllEnds
    <3>9. CASE \E event \in events : EventDue(event)
      BY <3>9 DEF EventDue
    <3> QED
      BY <1>3, <3>1, <3>2, <3>3, <3>4, <3>5, <3>6, <3>7, <3>8, <3>9 DEF Next, Task
  <2> QED
    BY <1>b, <1>c, <2>1, <2>2 DEF Early, OrderInv
<1> QED
  BY <1>1, <1>2, <1>3

\* What the invariants say of the messages that wait.
LEMMA WaitingFacts ==
    ASSUME ConnectionInv
    PROVE  /\ Waiting \subseteq Held /\ Waiting \subseteq Messages /\ Held \cap Released = {}
           /\ Held \subseteq Outstanding /\ IsFiniteSet(Outstanding)
           /\ writing \notin Waiting /\ (writing # NoMessage => writing \in Held)
           /\ outputBuffer # NoMessage => outputBuffer \in Waiting
           /\ \A i \in 1 .. Len(autoSend) : autoSend[i] \in Waiting
           /\ \A i, j \in 1 .. Len(autoSend) : autoSend[i] = autoSend[j] => i = j
           /\ AcceptsMessage /\ writing = NoMessage => pendingWrite = 0
<1>a. TypeOK /\ IoInv /\ CountInv /\ SentOnce
  BY DEF ConnectionInv
<1>b. autoSend \in Seq(Messages) /\ toAddQueue \in Seq(Messages)
  BY <1>a DEF TypeOK
<1>1. /\ ToSet(autoSend) \subseteq Messages /\ ToSet(toAddQueue) \subseteq Messages
      /\ ToSet(autoSend) = {autoSend[i] : i \in 1 .. Len(autoSend)}
      /\ DOMAIN autoSend = 1 .. Len(autoSend)
  BY <1>b, ToSetIndices
<1>2. Waiting \subseteq Held /\ Waiting \subseteq Messages
  BY <1>1, ConnectionConstants DEF Waiting, Deferred, Held
<1>3. Held \cap Released = {} /\ Held \subseteq Outstanding /\ IsFiniteSet(Outstanding)
  BY <1>a DEF SentOnce, CountInv, Outstanding
<1>4. writing \notin Waiting /\ (writing # NoMessage => writing \in Held)
  BY <1>a DEF SentOnce, Waiting, Held
<1>5. outputBuffer # NoMessage => outputBuffer \in Waiting
  BY <1>a DEF SentOnce, Waiting
<1>6. \A i \in 1 .. Len(autoSend) : autoSend[i] \in Waiting
  BY <1>1 DEF Waiting
<1>7. \A i, j \in 1 .. Len(autoSend) : autoSend[i] = autoSend[j] => i = j
  <2>1. IsDistinct(autoSend)
    BY <1>a, <1>b, ConcatDistinct DEF SentOnce
  <2> QED
    BY <1>1, <2>1 DEF IsDistinct
<1>8. AcceptsMessage /\ writing = NoMessage => pendingWrite = 0
  BY <1>a DEF IoInv, AcceptsMessage
<1> QED
  BY <1>2, <1>3, <1>4, <1>5, <1>6, <1>7, <1>8

LEMMA OrderStays ==
    ASSUME ConnectionInv, OrderInv, [Next]_vars, UNCHANGED bufferVars,
           TwoWait => /\ writing' \in {writing, NoMessage}
                      /\ dpc' = "sendAll" => (dpc = "sendAll" /\ cursor' = cursor) \/ cursor' = 1
    PROVE  OrderInv'
<1>1. UNCHANGED <<outputBuffer, autoSend, toAddQueue, first, last, writes, wireLast, overflow>>
  BY DEF bufferVars
<1>2. /\ Early' => Early /\ client' = "none"
      /\ dpc' = "refuse" => "login" \notin ToSet(tasks') /\ ~Connecting'
      /\ client' = "linked" => client = "linked" \/ Early
  BY EarlyStep
<1>3. NothingWaits' <=> NothingWaits
  BY <1>1 DEF NothingWaits
<1>4. Begun => Begun'
  BY <1>1 DEF Begun, Waiting, Deferred, IsFull
<1>5. OneWaits => OneWaits'
  BY <1>1 DEF OneWaits
<1>6. TwoWait => TwoWait'
  BY <1>1 DEF TwoWait, IsFull
<1> QED
  BY <1>1, <1>2, <1>3, <1>4, <1>5, <1>6 DEF OrderInv

LEMMA SendLaterOrder ==
    ASSUME ConnectionInv, OrderInv, [Next]_vars, SendLater
    PROVE  OrderInv'
<1>1. /\ dpc = "sendAll" /\ ~IsFull(autoSend[cursor])
      /\ UNCHANGED bufferVars
  BY DEF SendLater
<1>2. ~TwoWait
  BY <1>1 DEF TwoWait
<1> QED
  BY <1>1, <1>2, OrderStays

LEMMA SendNowOrder ==
    ASSUME ConnectionInv, OrderInv, [Next]_vars, SendNow
    PROVE  OrderInv'
<1> DEFINE m == autoSend[cursor]
<1>a. TypeOK
  BY DEF ConnectionInv
<1>b. autoSend \in Seq(Messages) /\ toAddQueue \in Seq(Messages) /\ Len(autoSend) \in Nat
      /\ Len(toAddQueue) \in Nat
  BY <1>a DEF TypeOK
<1>1. /\ dpc = "sendAll" /\ cursor <= Len(autoSend) /\ Send(m)
      /\ autoSend' = RemoveAt(autoSend, cursor)
      /\ UNCHANGED <<first, last, writes, overflow, client, dpc, cursor>>
  BY DEF SendNow, refVars
<1>2. cursor \in 1 .. Len(autoSend)
  BY <1>a, <1>1 DEF TypeOK
<1>3. /\ autoSend' \in Seq(Messages) /\ Len(autoSend') = Len(autoSend) - 1
      /\ \A i \in 1 .. Len(autoSend) - 1 :
            autoSend'[i] = IF i < cursor THEN autoSend[i] ELSE autoSend[i + 1]
      /\ m \in Messages
  <2>1. /\ RemoveAt(autoSend, cursor) \in Seq(Messages)
        /\ Len(RemoveAt(autoSend, cursor)) = Len(autoSend) - 1
        /\ \A i \in 1 .. Len(autoSend) - 1 : RemoveAt(autoSend, cursor)[i] =
                                    IF i < cursor THEN autoSend[i] ELSE autoSend[i + 1]
    BY <1>b, <1>2, RemoveFacts
  <2>2. m \in Messages
    BY <1>b, <1>2
  <2> QED
    BY <1>1, <2>1, <2>2
<1>4. ~NothingWaits
  BY <1>2, <1>b DEF NothingWaits
<1>5. ~Early' /\ dpc' # "refuse" /\ ~(client' = "linked" /\ writes = 0)
  BY <1>1, <1>4, EarlyStep DEF OrderInv
<1>6. \/ /\ toAddQueue' = Append(toAddQueue, m) /\ outputBuffer' = outputBuffer
         /\ wireLast' = wireLast /\ AcceptsMessage /\ pendingWrite > 0
      \/ /\ toAddQueue' = toAddQueue /\ outputBuffer' = BufferWithout(m)
         /\ wireLast' \in {wireLast, last[m]}
  BY <1>1 DEF Send, InternalSend
<1>7. /\ writes \in Nat /\ wireLast \in Nat /\ last[m] \in Nat /\ pendingWrite \in Int
      /\ last[m] <= writes /\ wireLast <= writes
  BY <1>a, <1>3 DEF TypeOK, OrderInv
<1>8. wireLast' <= writes'
  BY <1>1, <1>6, <1>7
<1>9. ASSUME writes > 0, overflow = "no"
      PROVE  Begun' /\ OneWaits'
  <2>1. Begun /\ (OneWaits \/ TwoWait)
    BY <1>9 DEF OrderInv
  <2>2. CASE OneWaits
    <3>1. Len(autoSend) = 1 /\ Len(toAddQueue) = 0 /\ cursor = 1
      <4>1. Len(autoSend) + Len(toAddQueue) <= 1 /\ Len(autoSend) \in Nat /\ Len(toAddQueue) \in Nat
        BY <1>b, <2>2 DEF OneWaits
      <4>2. \A a, b \in Nat : \A c \in 1 .. a : a + b <= 1 => a = 1 /\ b = 0 /\ c = 1
        OBVIOUS
      <4> QED
        BY <1>2, <4>1, <4>2
    <3>2. toAddQueue = <<>> /\ Len(autoSend') = 0
      BY <1>b, <1>3, <3>1
    <3>3. ToSet(autoSend') = {}
      <4>1. ToSet(autoSend') = {autoSend'[i] : i \in 1 .. Len(autoSend')}
        BY <1>3, ToSetIndices
      <4> QED
        BY <3>2, <4>1
    <3>4. m \in Waiting
      BY <1>2, WaitingFacts
    <3>5. CASE /\ toAddQueue' = Append(toAddQueue, m) /\ outputBuffer' = outputBuffer
               /\ wireLast' = wireLast
      <4>1. ToSet(toAddQueue') = ToSet(toAddQueue) \cup {m} /\ Len(toAddQueue') = 1
        <5>1. /\ ToSet(Append(toAddQueue, m)) = ToSet(toAddQueue) \cup {m}
              /\ Len(Append(toAddQueue, m)) = Len(toAddQueue) + 1
          BY <1>b, <1>3, AppendFacts
        <5> QED
          BY <3>1, <3>5, <5>1
      <4>2. ToSet(toAddQueue) = {}
        BY <3>2 DEF ToSet
      <4>3. Waiting' = {m}
        BY <3>3, <4>1, <4>2 DEF Waiting, Deferred
      <4>4. wireLast < first[m] /\ (m = outputBuffer \/ IsFull(m))
        BY <2>1, <3>4 DEF Begun
      <4> QED
        BY <1>1, <3>2, <3>5, <4>1, <4>3, <4>4 DEF Begun, OneWaits, IsFull
    <3>6. CASE toAddQueue' = toAddQueue
      <4>1. ToSet(toAddQueue') = {}
        BY <3>2, <3>6 DEF ToSet
      <4>2. Waiting' = {}
        BY <3>3, <4>1 DEF Waiting, Deferred
      <4> QED
        BY <3>1, <3>2, <3>6, <4>2 DEF Begun, OneWaits
    <3> QED
      BY <1>6, <3>5, <3>6
  <2>3. CASE TwoWait
    <3> DEFINE y == autoSend[2]
    <3>1. /\ Len(autoSend) = 2 /\ toAddQueue = <<>> /\ cursor = 1 /\ writing = NoMessage
          /\ last[m] < first[y]
      BY <1>1, <2>3 DEF TwoWait
    <3>2. pendingWrite = 0 \/ ~AcceptsMessage
      BY <3>1, WaitingFacts
    <3>3. /\ toAddQueue' = <<>> /\ outputBuffer' = BufferWithout(m)
          /\ wireLast' \in {wireLast, last[m]}
      BY <1>6, <1>7, <3>1, <3>2
    <3>4. Len(autoSend') = 1 /\ autoSend'[1] = y
      BY <1>3, <3>1
    <3>5. Waiting' = {y}
      <4>1. ToSet(autoSend') = {autoSend'[i] : i \in 1 .. Len(autoSend')}
        BY <1>3, ToSetIndices
      <4>2. ToSet(toAddQueue') = {}
        BY <3>3 DEF ToSet
      <4> QED
        BY <3>4, <4>1, <4>2 DEF Waiting, Deferred
    <3>6. y \in Waiting /\ y # m
      BY <3>1, WaitingFacts
    <3>7. wireLast < first[y] /\ (y = outputBuffer \/ IsFull(y))
      BY <2>1, <3>6 DEF Begun
    <3>8. y = outputBuffer => y = outputBuffer'
      BY <3>3, <3>6 DEF BufferWithout
    <3>9. Begun'
      BY <1>1, <3>1, <3>3, <3>5, <3>7, <3>8 DEF Begun, IsFull
    <3> QED
      BY <3>3, <3>4, <3>9 DEF OneWaits
  <2> QED
    BY <2>1, <2>2, <2>3
<1> QED
  BY <1>1, <1>5, <1>8, <1>9 DEF OrderInv

LEMMA MoveMessageOrder ==
    ASSUME ConnectionInv, OrderInv, [Next]_vars, MoveMessage
    PROVE  OrderInv'
<1> DEFINE h == Head(toAddQueue)
<1>a. TypeOK
  BY DEF ConnectionInv
<1>b. autoSend \in Seq(Messages) /\ toAddQueue \in Seq(Messages) /\ Len(autoSend) \in Nat
      /\ Len(toAddQueue) \in Nat
  BY <1>a DEF TypeOK
<1>1. /\ toAddQueue # <<>> /\ toAddQueue' = Tail(toAddQueue) /\ dpc = "moveQueue"
      /\ \/ autoSend' = Append(autoSend, h) /\ outputBuffer' = outputBuffer
         \/ autoSend' = autoSend /\ outputBuffer' = BufferWithout(h)
      /\ UNCHANGED <<first, last, writes, wireLast, overflow, client, dpc>>
  BY DEF MoveMessage, refVars
<1>2. ~Early' /\ dpc' # "refuse" /\ ~(client' = "linked" /\ writes = 0)
  BY <1>1, EarlyStep DEF OrderInv, NothingWaits
<1>3. /\ h \in Messages /\ Tail(toAddQueue) \in Seq(Messages) /\ Len(toAddQueue) >= 1
      /\ Len(Tail(toAddQueue)) = Len(toAddQueue) - 1 /\ ToSet(toAddQueue) = ToSet(Tail(toAddQueue)) \cup {h}
  BY <1>b, <1>1, TailFacts
<1>4. ASSUME writes > 0, overflow = "no"
      PROVE  Begun' /\ OneWaits'
  <2>1. Begun /\ OneWaits
    BY <1>1, <1>4 DEF OrderInv, TwoWait
  <2>2. Len(toAddQueue) = 1 /\ Len(autoSend) = 0
    <3>1. \A a, b \in Nat : a + b <= 1 /\ b >= 1 => b = 1 /\ a = 0
      OBVIOUS
    <3> QED
      BY <1>b, <1>3, <2>1, <3>1 DEF OneWaits
  <2>3. autoSend = <<>> /\ toAddQueue' = <<>> /\ Len(toAddQueue') = 0
    BY <1>b, <1>1, <1>3, <2>2
  <2>4. ToSet(toAddQueue') = {} /\ ToSet(autoSend) = {}
    BY <2>3 DEF ToSet
  <2>5. h \in Waiting
    BY <1>3 DEF Waiting, Deferred
  <2>6. CASE autoSend' = Append(autoSend, h) /\ outputBuffer' = outputBuffer
    <3>1. /\ ToSet(Append(autoSend, h)) = ToSet(autoSend) \cup {h}
          /\ Len(Append(autoSend, h)) = Len(autoSend) + 1
      BY <1>b, <1>3, AppendFacts
    <3>2. Waiting' = {h} /\ Len(autoSend') = 1
      BY <2>2, <2>4, <2>6, <3>1 DEF Waiting, Deferred
    <3>3. wireLast < first[h] /\ (h = outputBuffer \/ IsFull(h))
      BY <2>1, <2>5 DEF Begun
    <3>4. Begun'
      BY <1>1, <2>6, <3>2, <3>3 DEF Begun, IsFull
    <3>5. OneWaits'
      BY <2>3, <3>2 DEF OneWaits
    <3> QED
      BY <3>4, <3>5
  <2>7. CASE autoSend' = autoSend
    <3>1. Waiting' = {}
      BY <2>4, <2>7 DEF Waiting, Deferred
    <3> QED
      BY <2>2, <2>3, <2>7, <3>1 DEF Begun, OneWaits
  <2> QED
    BY <1>1, <2>6, <2>7
<1> QED
  BY <1>1, <1>2, <1>4 DEF OrderInv

LEMMA ReleaseMessageOrder ==
    ASSUME ConnectionInv, OrderInv, [Next]_vars, NEW m \in Messages, InternalReleaseMessage(m)
    PROVE  OrderInv'
<1>a. TypeOK /\ TasksInv
  BY DEF ConnectionInv, TasksInv
<1>1. /\ Takes(m) /\ dpc' = "moveQueue"
      /\ first' = [first EXCEPT ![m] = 0] /\ last' = [last EXCEPT ![m] = 0]
      /\ UNCHANGED <<writing, outputBuffer, autoSend, toAddQueue, writes, wireLast, overflow, client>>
  BY DEF InternalReleaseMessage, ioVars
<1>2. m \notin Waiting
  <2>1. m \in Released
    BY <1>a, <1>1, TaskHead DEF Released
  <2> QED
    BY <2>1, WaitingFacts
<1>3. /\ first \in [Messages -> Nat] /\ last \in [Messages -> Nat] /\ writes \in Nat
  BY <1>a DEF TypeOK
<1>4. /\ \A n \in Messages \ {m} : first'[n] = first[n] /\ last'[n] = last[n]
      /\ first'[m] = 0 /\ last'[m] = 0
  BY <1>1, <1>3
<1>5. wireLast' <= writes' /\ \A n \in Messages : first'[n] <= last'[n] /\ last'[n] <= writes'
  BY <1>1, <1>3, <1>4 DEF OrderInv
<1>6. Waiting' = Waiting /\ Waiting \subseteq Messages \ {m}
  BY <1>1, <1>2, WaitingFacts DEF Waiting, Deferred
<1>7. \A n \in Waiting : first'[n] = first[n] /\ last'[n] = last[n] /\ (IsFull(n)' <=> IsFull(n))
  BY <1>4, <1>6 DEF IsFull
<1>8. Begun => Begun'
  BY <1>1, <1>6, <1>7 DEF Begun, IsFull
<1>9. OneWaits => OneWaits'
  BY <1>1 DEF OneWaits
<1>10. TwoWait => TwoWait'
  <2>1. TwoWait => autoSend[1] \in Waiting /\ autoSend[2] \in Waiting
    BY WaitingFacts DEF TwoWait
  <2> QED
    BY <1>1, <1>7, <2>1 DEF TwoWait, IsFull
<1>11. NothingWaits' <=> NothingWaits
  BY <1>1 DEF NothingWaits
<1> QED
  BY <1>1, <1>5, <1>8, <1>9, <1>10, <1>11, EarlyStep DEF OrderInv

LEMMA RefuseOrder ==
    ASSUME ConnectionInv, OrderInv, [Next]_vars, RefuseLogin
    PROVE  OrderInv'
<1>a. TypeOK
  BY DEF ConnectionInv
<1>1. /\ dpc = "refuse" /\ dpc' # "refuse"
      /\ UNCHANGED <<first, last, writes, overflow, client>>
  BY DEF RefuseLogin
<1>2. writes = 0 /\ client = "none" /\ "login" \notin ToSet(tasks) /\ ~Connecting
  BY <1>1 DEF OrderInv, Early
<1>3. ~Early'
  <2>1. ~LoginTask /\ ~ConnectTask
    BY <1>1 DEF LoginTask, ConnectTask, Takes
  <2> QED
    BY <1>1, <1>2, <2>1, LoginStep, ConnectingStep DEF Early
<1>4. wireLast' <= writes'
  <2>1. wireLast' = wireLast \/ \E m \in Messages : wireLast' = last[m]
    BY DEF RefuseLogin, Send, InternalSend
  <2> QED
    BY <1>1, <2>1 DEF OrderInv
<1> QED
  BY <1>1, <1>2, <1>3, <1>4 DEF OrderInv

LEMMA WriteToBufferOrder ==
    ASSUME ConnectionInv, OrderInv, [Next]_vars, GameWrites, WritesToBuffer
    PROVE  OrderInv'
<1> DEFINE b == outputBuffer
<1>a. TypeOK
  BY DEF ConnectionInv
<1>1. /\ dpc = "body" /\ dpc' = "body" /\ client = "linked" /\ writes' = writes + 1
      /\ b # NoMessage /\ ~IsFull(b) /\ last' = [last EXCEPT ![b] = writes + 1]
      /\ UNCHANGED <<writing, outputBuffer, autoSend, toAddQueue, first, wireLast, overflow, client>>
  BY DEF GameWrites, WritesToBuffer, ioVars
<1>2. /\ first \in [Messages -> Nat] /\ last \in [Messages -> Nat]
      /\ writes \in Nat /\ wireLast \in Nat /\ b \in Messages
  BY <1>a, <1>1 DEF TypeOK
<1>3. b \in Waiting
  BY <1>1, WaitingFacts
<1>4. ~NothingWaits
  BY <1>3 DEF NothingWaits, Waiting, Deferred, ToSet
<1>5. writes > 0 /\ ~Early'
  BY <1>1, <1>2, <1>4, EarlyStep DEF OrderInv
<1>6. /\ last'[b] = writes + 1
      /\ \A m \in Messages \ {b} : last'[m] = last[m] /\ (IsFull(m)' <=> IsFull(m))
  BY <1>1, <1>2 DEF IsFull
<1>7. wireLast' <= writes' /\ \A m \in Messages : first'[m] <= last'[m] /\ last'[m] <= writes'
  <2>1. wireLast <= writes /\ \A m \in Messages : first[m] <= last[m] /\ last[m] <= writes
    BY DEF OrderInv
  <2>2. wireLast' <= writes'
    BY <1>1, <1>2, <2>1
  <2>3. ASSUME NEW m \in Messages
        PROVE  first'[m] <= last'[m] /\ last'[m] <= writes'
    <3>1. first[m] \in Nat /\ last[m] \in Nat /\ first[m] <= last[m] /\ last[m] <= writes
      BY <1>2, <2>1
    <3>2. CASE m = b
      BY <1>1, <1>2, <1>6, <3>1, <3>2
    <3>3. CASE m # b
      BY <1>1, <1>2, <1>6, <3>1, <3>3
    <3> QED
      BY <3>2, <3>3
  <2> QED
    BY <2>2, <2>3
<1>8. Waiting' = Waiting /\ Waiting \subseteq Messages
  BY <1>1, WaitingFacts DEF Waiting, Deferred
<1>9. ASSUME Begun
      PROVE  Begun'
  <2>1. ASSUME NEW m \in Waiting
        PROVE  wireLast' < first'[m] /\ (m = outputBuffer' \/ IsFull(m)')
    BY <1>1, <1>6, <1>8, <1>9 DEF Begun
  <2> QED
    BY <1>8, <2>1 DEF Begun, IsFull
<1>10. OneWaits => OneWaits'
  BY <1>1 DEF OneWaits
<1>11. TwoWait => TwoWait'
  <2>1. TwoWait => autoSend[1] \in Waiting /\ autoSend[1] # b
    BY <1>1, WaitingFacts DEF TwoWait
  <2>2. autoSend[1] \in Messages \ {b} =>
            last'[autoSend[1]] = last[autoSend[1]] /\ (IsFull(autoSend[1])' <=> IsFull(autoSend[1]))
    BY <1>1, <1>6 DEF IsFull
  <2> QED
    BY <1>1, <1>8, <2>1, <2>2 DEF TwoWait, IsFull
<1>12. ~(client' = "linked" /\ writes' = 0) /\ dpc' # "refuse"
  BY <1>1, <1>2
<1> QED
  BY <1>1, <1>5, <1>7, <1>9, <1>10, <1>11, <1>12 DEF OrderInv

LEMMA WriteToNewMessageOrder ==
    ASSUME ConnectionInv, OrderInv, [Next]_vars, GameWrites, NEW m \in Messages, WritesToNewMessage(m)
    PROVE  OrderInv'
<1>a. TypeOK
  BY DEF ConnectionInv
<1>1. /\ dpc = "body" /\ dpc' = "body" /\ client = "linked" /\ writes' = writes + 1
      /\ m \notin Outstanding /\ (outputBuffer # NoMessage => IsFull(outputBuffer))
      /\ outputBuffer' = m /\ autoSend' = Append(autoSend, m)
      /\ first' = [first EXCEPT ![m] = writes + 1] /\ last' = [last EXCEPT ![m] = writes + 1]
      /\ UNCHANGED <<writing, toAddQueue, wireLast, client>>
  BY DEF GameWrites, WritesToNewMessage, TakeMessage, ioVars
<1>b. overflow' = "no" => /\ overflow = "no" /\ toAddQueue = <<>>
                          /\ ~(Cardinality(ToSet(autoSend) \cup Held) > 1)
  BY DEF WritesToNewMessage
<1>2. /\ first \in [Messages -> Nat] /\ last \in [Messages -> Nat]
      /\ writes \in Nat /\ wireLast \in Nat
      /\ autoSend \in Seq(Messages) /\ Len(autoSend) \in Nat
  BY <1>a DEF TypeOK
<1>3. ~Early' /\ dpc' # "refuse" /\ ~(client' = "linked" /\ writes' = 0) /\ writes' > 0
  BY <1>1, <1>2, EarlyStep DEF OrderInv
<1>4. /\ first'[m] = writes + 1 /\ last'[m] = writes + 1
      /\ \A n \in Messages \ {m} : first'[n] = first[n] /\ last'[n] = last[n]
  BY <1>1, <1>2
<1>5. wireLast' <= writes' /\ \A n \in Messages : first'[n] <= last'[n] /\ last'[n] <= writes'
  <2>1. wireLast <= writes /\ \A n \in Messages : first[n] <= last[n] /\ last[n] <= writes
    BY DEF OrderInv
  <2>2. wireLast' <= writes'
    BY <1>1, <1>2, <2>1
  <2>3. ASSUME NEW n \in Messages
        PROVE  first'[n] <= last'[n] /\ last'[n] <= writes'
    <3>1. first[n] \in Nat /\ last[n] \in Nat /\ first[n] <= last[n] /\ last[n] <= writes
      BY <1>2, <2>1
    <3>2. CASE n = m
      BY <1>1, <1>2, <1>4, <3>2
    <3>3. CASE n # m
      BY <1>1, <1>2, <1>4, <3>1, <3>3
    <3> QED
      BY <3>2, <3>3
  <2> QED
    BY <2>2, <2>3
<1>6. /\ Len(autoSend') = Len(autoSend) + 1 /\ autoSend'[Len(autoSend) + 1] = m
      /\ \A i \in 1 .. Len(autoSend) : autoSend'[i] = autoSend[i]
      /\ ToSet(autoSend') = ToSet(autoSend) \cup {m}
  BY <1>1, <1>2, AppendFacts
<1>7. wireLast < first'[m]
  BY <1>2, <1>4 DEF OrderInv
<1>8. ASSUME overflow' = "no"
      PROVE  Begun' /\ (OneWaits' \/ TwoWait')
  <2>1. toAddQueue = <<>> /\ toAddQueue' = <<>> /\ Len(toAddQueue') = 0 /\ overflow = "no"
    BY <1>1, <1>b, <1>8
  <2>2. ToSet(toAddQueue) = {}
    BY <2>1 DEF ToSet
  <2>3. Waiting = ToSet(autoSend) /\ Waiting' = ToSet(autoSend) \cup {m}
    BY <1>6, <2>1, <2>2 DEF Waiting, Deferred
  <2>4. CASE autoSend = <<>>
    <3>1. ToSet(autoSend) = {} /\ Len(autoSend) = 0
      BY <2>4 DEF ToSet
    <3>2. Begun'
      BY <1>1, <1>7, <2>3, <3>1 DEF Begun
    <3>3. OneWaits'
      BY <1>6, <2>1, <3>1 DEF OneWaits
    <3> QED
      BY <3>2, <3>3
  <2>5. CASE autoSend # <<>>
    <3> DEFINE x == autoSend[1]
    <3>1. Len(autoSend) >= 1 /\ 1 \in 1 .. Len(autoSend)
      BY <1>2, <2>5
    <3>2. x \in Waiting /\ x \in Held /\ x \in Messages /\ x # m
      <4>1. autoSend[1] \in Waiting /\ Waiting \subseteq Held /\ Waiting \subseteq Messages
            /\ Held \subseteq Outstanding
        BY <3>1, WaitingFacts
      <4> QED
        BY <1>1, <4>1
    <3>3. \A z \in Held : z = x
      <4>1. ToSet(autoSend) \cup Held = Held
        BY <2>3, WaitingFacts
      <4>2. IsFiniteSet(Held)
        BY WaitingFacts, FS_Subset
      <4>3. Cardinality(Held) \in Nat /\ Cardinality(Held) # 0
        BY <3>2, <4>2, FS_CardinalityType, FS_EmptySet
      <4>4. Cardinality(Held) = 1
        <5>1. ~(Cardinality(Held) > 1)
          BY <1>b, <1>8, <4>1
        <5> HIDE DEF x
        <5> QED
          BY <4>3, <5>1
      <4> QED
        BY <3>2, <4>2, <4>4, FS_Singleton
    <3>4. Len(autoSend) = 1
      <4>1. ASSUME Len(autoSend) >= 2
            PROVE  FALSE
        <5>1. 1 \in 1 .. Len(autoSend) /\ 2 \in 1 .. Len(autoSend)
          BY <1>2, <4>1
        <5>2. autoSend[2] \in Held /\ autoSend[2] # x
          BY <5>1, WaitingFacts
        <5> QED
          BY <3>3, <5>2
      <4>2. Len(autoSend) \in Nat /\ Len(autoSend) >= 1 /\ ~(Len(autoSend) >= 2)
        BY <1>2, <3>1, <4>1
      <4>3. \A k \in Nat : k >= 1 /\ ~(k >= 2) => k = 1
        OBVIOUS
      <4> QED
        BY <4>2, <4>3
    <3>5. writing = NoMessage
      BY <3>2, <3>3, WaitingFacts
    <3>6. Begun
      <4>1. writes > 0
        BY <1>1, <1>2, <2>5 DEF OrderInv, NothingWaits
      <4> QED
        BY <2>1, <4>1 DEF OrderInv
    <3>7. wireLast < first[x] /\ IsFull(x)
      <4>1. x # NoMessage
        BY <3>2, ConnectionConstants
      <4> QED
        <5>1. outputBuffer # NoMessage => IsFull(outputBuffer)
          BY <1>1
        <5>2. wireLast < first[x] /\ (x = outputBuffer \/ IsFull(x))
          BY <3>2, <3>6 DEF Begun
        <5> HIDE DEF x
        <5> QED
          BY <4>1, <5>1, <5>2
    <3>8. first'[x] = first[x] /\ last'[x] = last[x] /\ IsFull(x)'
      <4>1. first'[x] = first[x] /\ last'[x] = last[x]
        BY <1>4, <3>2
      <4>2. autoSend'[1] = x
        BY <1>6, <3>1
      <4> QED
        BY <1>6, <3>1, <3>7, <4>1, <4>2 DEF IsFull
    <3>9. ToSet(autoSend) = {x}
      <4>1. \A z \in ToSet(autoSend) : z = x
        BY <2>3, <3>3, WaitingFacts
      <4> QED
        BY <2>3, <3>2, <4>1
    <3>10. autoSend'[1] = x /\ autoSend'[2] = m /\ Len(autoSend') = 2
      BY <1>6, <3>1, <3>4
    <3>11. last[x] < writes + 1
      <4>1. last[x] \in Nat /\ last[x] <= writes
        BY <1>2, <3>2 DEF OrderInv
      <4> QED
        BY <1>2, <4>1
    <3> HIDE DEF x
    <3>12. Begun'
      BY <1>1, <1>7, <2>3, <3>7, <3>8, <3>9 DEF Begun, IsFull
    <3>13. TwoWait'
      BY <1>1, <1>4, <2>1, <3>5, <3>7, <3>8, <3>10, <3>11 DEF TwoWait, IsFull
    <3> QED
      BY <3>12, <3>13
  <2> QED
    BY <2>4, <2>5
<1> QED
  BY <1>3, <1>5, <1>8 DEF OrderInv

\* The actions that neither send a message nor write to one.
LEMMA OtherOrder ==
    ASSUME ConnectionInv, OrderInv, [Next]_vars,
           \/ System \/ IoThread \/ LoginTask \/ ConnectTask \/ LogoutTask \/ CloseConnectionTask
           \/ ReleaseConnectionTask \/ ReleaseProtocolTask \/ OtherTask \/ GameDisconnects \/ BodyEnds
           \/ Disconnect \/ MoveEnds \/ SendAllEnds \/ UNCHANGED vars
           \/ \E event \in events : EventDue(event)
    PROVE  OrderInv'
<1> USE DEF stateVars, ioVars, refVars, dispatcherVars
<1> DEFINE Stays == /\ UNCHANGED bufferVars
                    /\ writing' \in {writing, NoMessage}
                    /\ dpc' = "sendAll" => (dpc = "sendAll" /\ cursor' = cursor) \/ cursor' = 1
<1>1. CASE System
  <2>1. Stays
    BY <1>1 DEF System, ReadCompletes, WriteCompletes, ReadTimerExpires, WriteTimerExpires
  <2> QED
    BY <2>1, OrderStays
<1>2. CASE IoThread
  <2>1. Stays
    BY <1>2 DEF IoThread, ParseHeader, ParsePacket, OnWriteOperation, WrittenReleased,
                OnReadTimeout, OnWriteTimeout, OnTimeout, OnStopOperation
  <2> QED
    BY <2>1, OrderStays
<1>3. CASE LoginTask \/ ConnectTask \/ LogoutTask
  <2>1. Stays
    BY <1>3 DEF LoginTask, ConnectTask, LogoutTask
  <2> QED
    BY <2>1, OrderStays
<1>4. CASE CloseConnectionTask
  <2>1. UNCHANGED bufferVars /\ writing' = writing /\ dpc' = "moveQueue"
    BY <1>4 DEF CloseConnectionTask
  <2> QED
    BY <2>1, OrderStays
<1>5. CASE ReleaseConnectionTask \/ ReleaseProtocolTask
  <2>1. Stays
    BY <1>5 DEF ReleaseConnectionTask, ReleaseProtocolTask
  <2> QED
    BY <2>1, OrderStays
<1>6. CASE OtherTask \/ GameDisconnects \/ BodyEnds \/ Disconnect
  <2>1. Stays
    BY <1>6 DEF OtherTask, GameDisconnects, BodyEnds, Disconnect
  <2> QED
    BY <2>1, OrderStays
<1>7. CASE MoveEnds \/ SendAllEnds
  <2>1. Stays
    BY <1>7 DEF MoveEnds, SendAllEnds
  <2> QED
    BY <2>1, OrderStays
<1>8. CASE UNCHANGED vars
  <2>1. Stays
    BY <1>8 DEF vars
  <2> QED
    BY <2>1, OrderStays
<1>9. CASE \E event \in events : EventDue(event)
  <2>1. Stays
    BY <1>9 DEF EventDue
  <2> QED
    BY <2>1, OrderStays
<1> QED
  BY <1>1, <1>2, <1>3, <1>4, <1>5, <1>6, <1>7, <1>8, <1>9

LEMMA OrderStep ==
    ASSUME ConnectionInv, OrderInv, [Next]_vars
    PROVE  OrderInv'
<1>1. CASE GameWrites
  <2>1. WritesToBuffer \/ \E m \in Messages : WritesToNewMessage(m)
    BY <1>1 DEF GameWrites
  <2> QED
    BY <1>1, <2>1, WriteToBufferOrder, WriteToNewMessageOrder
<1>2. CASE SendAll
  BY <1>2, MoveMessageOrder, SendLaterOrder, SendNowOrder, OtherOrder DEF SendAll
<1>3. CASE Task
  BY <1>3, ReleaseMessageOrder, OtherOrder DEF Task
<1>4. CASE RefuseLogin
  BY <1>4, RefuseOrder
<1>5. CASE \/ System \/ IoThread \/ OtherTask \/ GameDisconnects \/ BodyEnds \/ Disconnect
           \/ UNCHANGED vars \/ \E event \in events : EventDue(event)
  BY <1>5, OtherOrder
<1> QED
  BY <1>1, <1>2, <1>3, <1>4, <1>5 DEF Next

LEMMA OrderInit ==
    ASSUME Init
    PROVE  OrderInv
<1>1. /\ \A m \in Messages : first[m] = 0 /\ last[m] = 0
      /\ writes = 0 /\ wireLast = 0 /\ client = "none" /\ dpc # "refuse"
      /\ autoSend = <<>> /\ toAddQueue = <<>>
  BY DEF Init
<1> QED
  BY <1>1 DEF OrderInv, NothingWaits

LEMMA InvOrder ==
    ASSUME ConnectionInv, OrderInv
    PROVE  WritesInOrder
<1>a. /\ first \in [Messages -> Nat] /\ last \in [Messages -> Nat]
      /\ writes \in Nat /\ wireLast \in Nat
  BY DEF ConnectionInv, TypeOK
<1> SUFFICES ASSUME overflow = "no", NEW m \in Waiting, first[m] # 0
             PROVE  first[m] > wireLast
  BY DEF WritesInOrder, Waiting
<1>1. m \in Messages
  BY WaitingFacts
<1>2. first[m] \in Nat /\ last[m] \in Nat /\ first[m] <= last[m] /\ last[m] <= writes
  BY <1>a, <1>1 DEF OrderInv
<1>3. writes > 0
  BY <1>a, <1>2
<1>4. wireLast < first[m]
  BY <1>3 DEF OrderInv, Begun
<1> QED
  BY <1>a, <1>2, <1>4

\* Whatever the connection puts off, sends or drops, no message that waits to be
\* sent holds a write that is older than one the client got already, unless a message
\* was begun while two others were under way or one was put off: then the code itself
\* gives up the order (OutputMessagePool::sendAll, Connection::send, getOutputBuffer).
THEOREM ConnectionWritesInOrder == Spec => []WritesInOrder
<1>1. Init => OrderInv
  BY OrderInit
<1>2. ConnectionInv /\ OrderInv /\ [Next]_vars => OrderInv'
  BY OrderStep
<1>3. ConnectionInv /\ OrderInv => WritesInOrder
  BY InvOrder
<1> QED
  BY <1>1, <1>2, <1>3, ConnectionInductive, PTL DEF Spec

=============================================================================
