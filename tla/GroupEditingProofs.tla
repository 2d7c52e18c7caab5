------------------------- MODULE GroupEditingProofs -------------------------
(***************************************************************************)
(* Proofs about GroupEditing: the types, that the tree of Edit_Group shows *)
(* what is edited, and that, whatever is edited in the dialogs, the main   *)
(* window never lists a group.                                             *)
(*                                                                         *)
(* The last is inductive as it stands: only group_editing_complete writes  *)
(* the list, and it makes the new one of the main window's groups and of   *)
(* the old list, which both have nothing in them.  The first two need it   *)
(* (what edit_group copies is known to have the type only because it is    *)
(* empty), and that nothing is selected in a row that there is not.        *)
(*                                                                         *)
(* A container lists its keys in their order.  That there is such a list   *)
(* is proved of any finite set and any order of its members, by induction  *)
(* on the number of its members.                                           *)
(***************************************************************************)
EXTENDS GroupEditing, FiniteSetTheorems, SequenceTheorems, WellFoundedInduction, TLAPS

-----------------------------------------------------------------------------
(* Listing a set in order. *)

\* Natural induction, for the set of the numbers of which something holds.
LEMMA Induction ==
    ASSUME NEW S, 0 \in S, \A n \in Nat : n \in S => n + 1 \in S
    PROVE  \A n \in Nat : n \in S
<1> DEFINE R == {p \in Nat \X Nat : p[1] < p[2]}
           T == {n \in Nat : n \notin S}
<1>1. IsWellFoundedOn(R, Nat)
  BY NatLessThanWellFounded DEF OpToRel
<1> SUFFICES ASSUME T # {} PROVE FALSE
  OBVIOUS
<1>2. PICK n \in T : \A m \in T : ~ (<<m, n>> \in R)
  <2> HIDE DEF R, T
  <2> T \subseteq Nat
    BY DEF T
  <2> QED
    BY <1>1, WFMin
<1>3. \A m \in Nat : m < n => m \in S
  BY <1>2
<1>4. n # 0 /\ n - 1 \in Nat /\ n - 1 < n
  OBVIOUS
<1>5. n - 1 \in S /\ (n - 1) + 1 = n
  BY <1>3, <1>4
<1> QED
  BY <1>5, <1>4

\* A strict order in which any two members of D are related.
Orders(R, D) ==
    /\ \A x, y \in D : x = y \/ <<x, y>> \in R \/ <<y, x>> \in R
    /\ \A x, y, z \in D : <<x, y>> \in R /\ <<y, z>> \in R => <<x, z>> \in R

IsLast(x, S, R) == x \in S /\ \A y \in S \ {x} : <<y, x>> \in R

Lists(s, S, R, n) ==
    /\ s \in [1 .. n -> S]
    /\ \A x \in S : \E i \in 1 .. n : s[i] = x
    /\ \A i, j \in 1 .. n : i < j => <<s[i], s[j]>> \in R

Sized(D, n) == {S \in SUBSET D : IsFiniteSet(S) /\ Cardinality(S) = n}

\* A set that is not empty has a last member.
LEMMA LastExists ==
    ASSUME NEW D, NEW R, Orders(R, D)
    PROVE  \A n \in Nat : \A S \in Sized(D, n + 1) : \E x \in S : IsLast(x, S, R)
<1> DEFINE T == {n \in Nat : \A S \in Sized(D, n + 1) : \E x \in S : IsLast(x, S, R)}
<1>1. ASSUME NEW n \in Nat, NEW S \in Sized(D, n + 1), n = 0 \/ n - 1 \in T
      PROVE  \E x \in S : IsLast(x, S, R)
  <2>1. S \subseteq D /\ IsFiniteSet(S) /\ Cardinality(S) = n + 1
    BY DEF Sized
  <2>2. PICK a \in S : TRUE
    <3>1. S # {}
      BY <2>1, FS_EmptySet
    <3> QED
      BY <3>1
  <2>3. /\ IsFiniteSet(S \ {a}) /\ Cardinality(S \ {a}) = n
    BY <2>1, <2>2, FS_RemoveElement
  <2>4. CASE n = 0
    <3>1. S \ {a} = {}
      BY <2>3, <2>4, FS_EmptySet
    <3> QED
      BY <3>1, <2>2 DEF IsLast
  <2>5. CASE n # 0
    <3>1. n - 1 \in T /\ (n - 1) + 1 = n
      BY <1>1, <2>5
    <3>2. S \ {a} \in Sized(D, (n - 1) + 1)
      BY <2>1, <2>3, <3>1 DEF Sized
    <3>3. PICK x \in S \ {a} : IsLast(x, S \ {a}, R)
      BY <3>1, <3>2
    <3>4. a \in D /\ x \in D /\ a # x /\ \A y \in S : y \in D
      BY <2>1, <2>2
    <3>5. CASE <<a, x>> \in R
      <4>1. IsLast(x, S, R)
        BY <3>3, <3>5 DEF IsLast
      <4> QED
        BY <4>1
    <3>6. CASE <<x, a>> \in R
      <4>1. ASSUME NEW y \in S \ {a} PROVE <<y, a>> \in R
        <5>1. y = x \/ <<y, x>> \in R
          BY <3>3, <4>1 DEF IsLast
        <5> QED
          BY <5>1, <3>4, <3>6, <4>1 DEF Orders
      <4>2. IsLast(a, S, R)
        BY <4>1, <2>2 DEF IsLast
      <4> QED
        BY <4>2
    <3> QED
      BY <3>4, <3>5, <3>6 DEF Orders
  <2> QED
    BY <2>4, <2>5
<1>2. 0 \in T
  BY <1>1
<1>3. ASSUME NEW n \in Nat, n \in T PROVE n + 1 \in T
  <2>1. (n + 1) - 1 = n /\ n + 1 \in Nat
    OBVIOUS
  <2>2. \A S \in Sized(D, (n + 1) + 1) : \E x \in S : IsLast(x, S, R)
    BY <1>1, <1>3, <2>1
  <2> QED
    BY <2>1, <2>2
<1> HIDE DEF T
<1>4. \A n \in Nat : n \in T
  BY <1>2, <1>3, Induction
<1> QED
  BY <1>4 DEF T

\* Every finite set can be listed in order.
LEMMA ListExists ==
    ASSUME NEW D, NEW R, Orders(R, D)
    PROVE  \A n \in Nat : \A S \in Sized(D, n) : \E s : Lists(s, S, R, n)
<1> DEFINE T == {n \in Nat : \A S \in Sized(D, n) : \E s : Lists(s, S, R, n)}
<1>1. 0 \in T
  <2>1. ASSUME NEW S \in Sized(D, 0) PROVE \E s : Lists(s, S, R, 0)
    <3>1. S = {}
      BY FS_EmptySet DEF Sized
    <3>2. Lists([i \in 1 .. 0 |-> i], S, R, 0)
      BY <3>1 DEF Lists
    <3> QED
      BY <3>2
  <2> QED
    BY <2>1
<1>2. ASSUME NEW n \in Nat, n \in T PROVE n + 1 \in T
  <2>1. ASSUME NEW S \in Sized(D, n + 1) PROVE \E s : Lists(s, S, R, n + 1)
    <3>1. S \subseteq D /\ IsFiniteSet(S) /\ Cardinality(S) = n + 1
      BY DEF Sized
    <3>2. PICK x \in S : IsLast(x, S, R)
      BY LastExists
    <3>3. IsFiniteSet(S \ {x}) /\ Cardinality(S \ {x}) = n
      <4>1. x \in S
        BY <3>2 DEF IsLast
      <4>2. IsFiniteSet(S \ {x}) /\ Cardinality(S \ {x}) = Cardinality(S) - 1
        BY <3>1, <4>1, FS_RemoveElement
      <4> QED
        BY <3>1, <4>2
    <3>4. S \ {x} \in Sized(D, n)
      BY <3>1, <3>3 DEF Sized
    <3>5. PICK s : Lists(s, S \ {x}, R, n)
      BY <1>2, <3>4
    <3> DEFINE t == [i \in 1 .. (n + 1) |-> IF i = n + 1 THEN x ELSE s[i]]
    <3>6. t[n + 1] = x /\ \A i \in 1 .. n : t[i] = s[i]
      OBVIOUS
    <3>7. \A i \in 1 .. n : s[i] \in S \ {x}
      BY <3>5 DEF Lists
    <3>8. t \in [1 .. (n + 1) -> S]
      BY <3>2, <3>7
    <3> HIDE DEF t
    <3>9. ASSUME NEW y \in S PROVE \E i \in 1 .. (n + 1) : t[i] = y
      <4>1. CASE y = x
        BY <3>6, <4>1
      <4>2. CASE y # x
        <5>1. PICK i \in 1 .. n : s[i] = y
          BY <3>5, <4>2, <3>9 DEF Lists
        <5>2. i \in 1 .. (n + 1) /\ t[i] = y
          BY <5>1, <3>6
        <5> QED
          BY <5>2
      <4> QED
        BY <4>1, <4>2
    <3>10. ASSUME NEW i \in 1 .. (n + 1), NEW j \in 1 .. (n + 1), i < j
           PROVE  <<t[i], t[j]>> \in R
      <4>1. i \in 1 .. n /\ t[i] = s[i]
        BY <3>6, <3>10
      <4>2. CASE j = n + 1
        <5>1. s[i] \in S \ {x} /\ t[j] = x
          BY <3>6, <3>7, <4>1, <4>2
        <5> QED
          BY <4>1, <5>1, <3>2 DEF IsLast
      <4>3. CASE j # n + 1
        <5>1. j \in 1 .. n /\ t[j] = s[j]
          BY <3>6, <4>3
        <5> QED
          BY <4>1, <5>1, <3>5, <3>10 DEF Lists
      <4> QED
        BY <4>2, <4>3
    <3>11. Lists(t, S, R, n + 1)
      BY <3>8, <3>9, <3>10 DEF Lists
    <3> QED
      BY <3>11
  <2> QED
    BY <2>1
<1> HIDE DEF T
<1>3. \A n \in Nat : n \in T
  BY <1>1, <1>2, Induction
<1> QED
  BY <1>3 DEF T

\* The members of S in increasing order.
LEMMA InOrderLower ==
    ASSUME NEW S \in SUBSET Nat, IsFiniteSet(S)
    PROVE  /\ InOrder(S, Lower) \in [1 .. Cardinality(S) -> S]
           /\ \A x \in S : \E i \in 1 .. Cardinality(S) : InOrder(S, Lower)[i] = x
<1> DEFINE n == Cardinality(S)
           R == {p \in Nat \X Nat : p[1] < p[2]}
           A == [1 .. n -> S]
           Ordered(s) == /\ \A x \in S : \E i \in DOMAIN s : s[i] = x
                         /\ \A i, j \in DOMAIN s : i < j => s[i] < s[j]
<1>1. n \in Nat
  BY FS_CardinalityType
<1>2. Orders(R, Nat)
  BY DEF Orders
<1>3. S \in Sized(Nat, n)
  BY DEF Sized
<1>4. PICK s : Lists(s, S, R, n)
  <2> HIDE DEF n, R
  <2> QED
    BY <1>1, <1>2, <1>3, ListExists
<1>5. s \in A /\ Ordered(s)
  BY <1>4 DEF Lists
<1>6. InOrder(S, Lower) = CHOOSE q \in A : Ordered(q)
  BY DEF InOrder, Lower
<1>7. InOrder(S, Lower) \in A /\ Ordered(InOrder(S, Lower))
  <2> HIDE DEF A, Ordered
  <2> QED
    BY <1>5, <1>6
<1> QED
  BY <1>7

\* A set of pairs in their order.
LEMMA InOrderPairs ==
    ASSUME NEW S \in SUBSET (Nat \X Nat), IsFiniteSet(S)
    PROVE  /\ InOrder(S, EarlierPair) \in [1 .. Cardinality(S) -> S]
           /\ \A x \in S : \E i \in 1 .. Cardinality(S) : InOrder(S, EarlierPair)[i] = x
<1> DEFINE n == Cardinality(S)
           P == Nat \X Nat
           R == {p \in P \X P : EarlierPair(p[1], p[2])}
           A == [1 .. n -> S]
           Ordered(s) == /\ \A x \in S : \E i \in DOMAIN s : s[i] = x
                         /\ \A i, j \in DOMAIN s : i < j => EarlierPair(s[i], s[j])
<1>1. n \in Nat
  BY FS_CardinalityType
<1>2. Orders(R, P)
  <2>1. \A x, y \in P : x = y \/ EarlierPair(x, y) \/ EarlierPair(y, x)
    BY DEF EarlierPair
  <2>2. \A x, y, z \in P : EarlierPair(x, y) /\ EarlierPair(y, z) => EarlierPair(x, z)
    BY DEF EarlierPair
  <2>3. \A x, y \in P : <<x, y>> \in R <=> EarlierPair(x, y)
    OBVIOUS
  <2> HIDE DEF P, R
  <2> QED
    BY <2>1, <2>2, <2>3 DEF Orders
<1>3. S \in Sized(P, n)
  BY DEF Sized
<1>4. PICK s : Lists(s, S, R, n)
  <2> HIDE DEF n, R, P
  <2> QED
    BY <1>1, <1>2, <1>3, ListExists
<1>5. s \in A /\ Ordered(s)
  <2>1. \A x, y : <<x, y>> \in R => EarlierPair(x, y)
    OBVIOUS
  <2> HIDE DEF R
  <2>2. s \in A /\ DOMAIN s = 1 .. n
    BY <1>4 DEF Lists
  <2>3. \A x \in S : \E i \in DOMAIN s : s[i] = x
    BY <1>4, <2>2 DEF Lists
  <2>4. \A i, j \in DOMAIN s : i < j => EarlierPair(s[i], s[j])
    <3> HIDE DEF n, A
    <3> QED
      BY <1>4, <2>1, <2>2 DEF Lists
  <2> QED
    BY <2>2, <2>3, <2>4
<1>6. InOrder(S, EarlierPair) = CHOOSE q \in A : Ordered(q)
  BY DEF InOrder
<1>7. InOrder(S, EarlierPair) \in A /\ Ordered(InOrder(S, EarlierPair))
  <2> HIDE DEF A, Ordered
  <2> QED
    BY <1>5, <1>6
<1> QED
  BY <1>7
-----------------------------------------------------------------------------
(* Sequences. *)

\* What At has are the elements at the indices it is given, and no others.
LEMMA AtProperties ==
    ASSUME NEW D, NEW s \in Seq(D), NEW S \in SUBSET DOMAIN s
    PROVE  /\ At(s, S) \in Seq(D)
           /\ \A i \in S : \E k \in DOMAIN At(s, S) : At(s, S)[k] = s[i]
           /\ \A k \in DOMAIN At(s, S) : \E i \in S : At(s, S)[k] = s[i]
<1> DEFINE kept == InOrder(S, Lower)
           n == Cardinality(S)
           r == At(s, S)
<1>1. IsFiniteSet(S) /\ n \in Nat /\ S \subseteq Nat
  <2>1. IsFiniteSet(1 .. Len(s)) /\ DOMAIN s = 1 .. Len(s) /\ Len(s) \in Nat
    BY LenProperties, FS_Interval
  <2>2. IsFiniteSet(S)
    BY <2>1, FS_Subset
  <2> QED
    BY <2>1, <2>2, FS_CardinalityType
<1>2. kept \in [1 .. n -> S] /\ \A i \in S : \E k \in 1 .. n : kept[k] = i
  BY <1>1, InOrderLower
<1>3. Len(kept) = n
  BY <1>1, <1>2
<1>4. r = [k \in 1 .. n |-> s[kept[k]]]
  BY <1>3 DEF At
<1> HIDE DEF kept, n, r
<1>5. \A k \in 1 .. n : kept[k] \in DOMAIN s /\ s[kept[k]] \in D
  <2>1. \A i \in DOMAIN s : s[i] \in D
    BY LenProperties
  <2> QED
    BY <1>2, <2>1
<1>6. r \in Seq(D) /\ DOMAIN r = 1 .. n
  BY <1>1, <1>4, <1>5
<1>7. ASSUME NEW i \in S PROVE \E k \in DOMAIN r : r[k] = s[i]
  <2>1. PICK k \in 1 .. n : kept[k] = i
    BY <1>2
  <2>2. k \in DOMAIN r /\ r[k] = s[i]
    BY <1>4, <1>6, <2>1
  <2> QED
    BY <2>2
<1>8. \A k \in DOMAIN r : \E i \in S : r[k] = s[i]
  BY <1>2, <1>4, <1>6
<1> QED
  BY <1>6, <1>7, <1>8 DEF r

\* RemoveAt leaves out one element and no other.
LEMMA Removed ==
    ASSUME NEW D, NEW s \in Seq(D), NEW k \in DOMAIN s
    PROVE  /\ RemoveAt(s, k) \in Seq(D)
           /\ \A i \in DOMAIN s : i # k => \E j \in DOMAIN RemoveAt(s, k) : RemoveAt(s, k)[j] = s[i]
<1> DEFINE L == Len(s)
           a == SubSeq(s, 1, k - 1)
           z == SubSeq(s, k + 1, L)
           r == RemoveAt(s, k)
<1>1. L \in Nat /\ DOMAIN s = 1 .. L /\ k \in 1 .. L /\ \A i \in 1 .. L : s[i] \in D
  BY LenProperties
<1>2. r = a \o z
  BY DEF RemoveAt
<1> HIDE DEF L, r
<1>3. /\ a \in Seq(D) /\ Len(a) = k - 1
      /\ \A i \in 1 .. (k - 1) : a[i] = s[i]
  <2> DEFINE m == k - 1
  <2>1. m \in Nat /\ m \in Int /\ 1 \in Int /\ \A i \in 1 .. m : s[i] \in D
    BY <1>1
  <2>2. a = SubSeq(s, 1, m)
    OBVIOUS
  <2> HIDE DEF m, a
  <2>3. /\ SubSeq(s, 1, m) \in Seq(D)
        /\ Len(SubSeq(s, 1, m)) = IF 1 <= m THEN m - 1 + 1 ELSE 0
        /\ \A i \in 1 .. m - 1 + 1 : SubSeq(s, 1, m)[i] = s[1 + i - 1]
    BY <2>1, SubSeqProperties
  <2>4. Len(a) = m /\ \A i \in 1 .. m : a[i] = s[i]
    <3>1. \A i \in 1 .. m : i \in 1 .. m - 1 + 1 /\ 1 + i - 1 = i
      BY <2>1
    <3> QED
      BY <2>1, <2>2, <2>3, <3>1
  <2> QED
    BY <2>2, <2>3, <2>4 DEF m
<1>4. /\ z \in Seq(D) /\ Len(z) = L - k
      /\ \A i \in 1 .. (L - k) : z[i] = s[k + i]
  <2> DEFINE m == k + 1
  <2>1. m \in Int /\ L \in Int /\ \A i \in m .. L : s[i] \in D
    BY <1>1
  <2>2. z = SubSeq(s, m, L)
    OBVIOUS
  <2> HIDE DEF m, z
  <2>3. /\ SubSeq(s, m, L) \in Seq(D)
        /\ Len(SubSeq(s, m, L)) = IF m <= L THEN L - m + 1 ELSE 0
        /\ \A i \in 1 .. L - m + 1 : SubSeq(s, m, L)[i] = s[m + i - 1]
    BY <2>1, SubSeqProperties
  <2>4. Len(z) = L - k
    BY <1>1, <2>2, <2>3 DEF m
  <2>5. \A i \in 1 .. (L - k) : i \in 1 .. L - m + 1 /\ m + i - 1 = k + i
    BY <1>1 DEF m
  <2> QED
    BY <2>2, <2>3, <2>4, <2>5
<1> HIDE DEF a, z
<1>5. /\ r \in Seq(D) /\ Len(r) = (k - 1) + (L - k)
      /\ \A i \in 1 .. (k - 1) + (L - k) : r[i] = IF i <= k - 1 THEN a[i] ELSE z[i - (k - 1)]
  BY <1>2, <1>3, <1>4, ConcatProperties
<1>6. ASSUME NEW i \in 1 .. L, i # k
      PROVE  \E j \in 1 .. (L - 1) : r[j] = s[i]
  <2>1. CASE i < k
    <3>1. i \in 1 .. (k - 1) /\ i \in 1 .. (L - 1) /\ i \in 1 .. (k - 1) + (L - k) /\ i <= k - 1
      BY <1>1, <2>1
    <3> QED
      BY <1>3, <1>5, <3>1
  <2>2. CASE i > k
    <3> DEFINE j == i - 1
               h == i - k
    <3>1. /\ j \in 1 .. (L - 1) /\ j \in 1 .. (k - 1) + (L - k) /\ ~(j <= k - 1)
          /\ h \in 1 .. (L - k) /\ j - (k - 1) = h /\ k + h = i
      BY <1>1, <2>2
    <3> HIDE DEF j, h
    <3>2. r[j] = z[h] /\ z[h] = s[i]
      BY <1>4, <1>5, <3>1
    <3> QED
      BY <3>1, <3>2
  <2> QED
    BY <1>1, <1>6, <2>1, <2>2
<1>7. DOMAIN r = 1 .. (L - 1)
  <2>1. DOMAIN r = 1 .. Len(r)
    BY <1>5, LenProperties
  <2> QED
    BY <1>1, <1>5, <2>1
<1>8. \A i \in 1 .. L : i # k => \E j \in 1 .. (L - 1) : r[j] = s[i]
  BY <1>6
<1> QED
  BY <1>1, <1>5, <1>7, <1>8 DEF r

-----------------------------------------------------------------------------
(* The containers and the tree's rows. *)

Container == [Group -> Seq(Names)]

Shows(t, g, n) ==
    \E r \in DOMAIN t : /\ t[r].group = g
                        /\ \E k \in DOMAIN t[r].computers : t[r].computers[k] = n

\* Whatever the container has the tree shows, and the reverse.
ShowsAll(c, t) == \A g \in Group : \A n : InGroup(c, g, n) => Shows(t, g, n)
ShowsOnly(c, t) == \A g \in Group : \A n : Shows(t, g, n) => InGroup(c, g, n)

\* What a function has for finitely many arguments is finite.
LEMMA FiniteImage ==
    ASSUME NEW S, IsFiniteSet(S), NEW f
    PROVE  IsFiniteSet({f[x] : x \in S})
<1> DEFINE T == {f[x] : x \in S}
           h == [x \in S |-> f[x]]
<1>1. h \in Surjection(S, T)
  BY DEF Surjection
<1> HIDE DEF T, h
<1>2. IsFiniteSet(T)
  BY <1>1, FS_Surjection
<1> QED
  BY <1>2 DEF T

\* A container has finitely many pairs.
LEMMA EntriesFinite ==
    ASSUME NEW c \in Container
    PROVE  IsFiniteSet(Entries(c)) /\ Entries(c) \in SUBSET (Nat \X Nat)
<1> DEFINE Of(g) == {<<g, i>> : i \in DOMAIN c[g]}
           F == {Of(g) : g \in Group}
<1>1. \A g \in Group : g \in Nat /\ DOMAIN c[g] = 1 .. Len(c[g]) /\ Len(c[g]) \in Nat
  <2>1. \A g \in Group : c[g] \in Seq(Names)
    BY DEF Container
  <2> QED
    BY <2>1, GroupEditingAssumption, LenProperties
<1>2. ASSUME NEW g \in Group PROVE IsFiniteSet(Of(g))
  <2> DEFINE n == Len(c[g])
             f == [i \in 1 .. n |-> <<g, i>>]
  <2>1. IsFiniteSet(1 .. n)
    BY <1>1, FS_Interval
  <2>2. Of(g) = {f[i] : i \in 1 .. n}
    BY <1>1
  <2> HIDE DEF f, n
  <2>3. IsFiniteSet({f[i] : i \in 1 .. n})
    BY <2>1, FiniteImage
  <2> QED
    BY <2>2, <2>3
<1>3. IsFiniteSet(F)
  <2> DEFINE f == [g \in Group |-> Of(g)]
  <2>1. F = {f[g] : g \in Group}
    OBVIOUS
  <2> HIDE DEF f
  <2>2. IsFiniteSet({f[g] : g \in Group})
    BY GroupEditingAssumption, FiniteImage
  <2> QED
    BY <2>1, <2>2
<1>4. IsFiniteSet(UNION F)
  <2>1. \A T \in F : IsFiniteSet(T)
    BY <1>2
  <2> HIDE DEF F
  <2> QED
    BY <1>3, <2>1, FS_UNION
<1>5. Entries(c) = UNION F
  BY DEF Entries
<1>6. Entries(c) \in SUBSET (Nat \X Nat)
  BY <1>1 DEF Entries
<1> QED
  BY <1>4, <1>5, <1>6

\* The rows made of a container have the type, and show it and nothing else.
LEMMA RowsShow ==
    ASSUME NEW c \in Container
    PROVE  /\ RowsOf(c) \in Seq(RowType)
           /\ ShowsAll(c, RowsOf(c)) /\ ShowsOnly(c, RowsOf(c))
<1> DEFINE E == Entries(c)
           pairs == InOrder(E, EarlierPair)
           n == Cardinality(E)
           t == RowsOf(c)
<1>1. IsFiniteSet(E) /\ E \in SUBSET (Nat \X Nat) /\ n \in Nat
  BY EntriesFinite, FS_CardinalityType
<1>2. pairs \in [1 .. n -> E] /\ \A e \in E : \E k \in 1 .. n : pairs[k] = e
  <2> HIDE DEF E
  <2> QED
    BY <1>1, InOrderPairs
<1>3. \A e \in E : e[1] \in Group
  BY DEF Entries
<1>4. \A g \in Group : c[g] \in Seq(Names)
  BY DEF Container
<1>5. t = [k \in 1 .. n |-> [group |-> pairs[k][1], computers |-> c[pairs[k][1]]]]
  <2>1. Len(pairs) = n
    BY <1>1, <1>2
  <2> QED
    BY <2>1 DEF RowsOf
<1>6. \A g \in Group : \A i \in DOMAIN c[g] : <<g, i>> \in E
  BY DEF Entries
<1> HIDE DEF E, pairs, n, t
<1>7. \A k \in 1 .. n : pairs[k][1] \in Group
  BY <1>2, <1>3
<1>8. t \in Seq(RowType) /\ DOMAIN t = 1 .. n
  <2>1. \A k \in 1 .. n : [group |-> pairs[k][1], computers |-> c[pairs[k][1]]] \in RowType
    BY <1>4, <1>7 DEF RowType
  <2> QED
    BY <1>1, <1>5, <2>1
<1>9. \A k \in 1 .. n : t[k].group = pairs[k][1] /\ t[k].computers = c[pairs[k][1]]
  BY <1>5
<1>10. ASSUME NEW g \in Group, NEW a, InGroup(c, g, a)
       PROVE  Shows(t, g, a)
  <2>1. PICK i \in DOMAIN c[g] : c[g][i] = a
    BY <1>10 DEF InGroup
  <2>2. PICK k \in 1 .. n : pairs[k] = <<g, i>>
    BY <1>2, <1>6
  <2>3. k \in DOMAIN t /\ t[k].group = g /\ t[k].computers = c[g]
    BY <1>8, <1>9, <2>2
  <2> QED
    BY <2>1, <2>3 DEF Shows
<1>11. ASSUME NEW g \in Group, NEW a, Shows(t, g, a)
       PROVE  InGroup(c, g, a)
  BY <1>8, <1>9, <1>11 DEF Shows, InGroup
<1> QED
  BY <1>8, <1>10, <1>11 DEF t, ShowsAll, ShowsOnly

\* Adding a name makes a container of a container.
LEMMA AddTyped ==
    ASSUME NEW c \in Container, NEW g \in Group, NEW n \in Names
    PROVE  add_computer_name(c, g, n) \in Container
<1>1. c[g] \in Seq(Names)
  BY DEF Container
<1>2. Append(c[g], n) \in Seq(Names)
  BY <1>1, AppendProperties
<1> QED
  BY <1>2 DEF add_computer_name, Container

\* When a computer is removed from its group, and from the one row it was
\* selected in, what is left is shown (remove_computer_slot).
LEMMA RemoveComputer ==
    ASSUME NEW c \in Container, NEW t \in Seq(RowType), ShowsAll(c, t),
           NEW r \in DOMAIN t, NEW k \in DOMAIN t[r].computers
    PROVE  LET d == remove_computer_name(c, t[r].group, t[r].computers[k])
               u == [t EXCEPT ![r].computers = RemoveAt(@, k)]
           IN  d \in Container /\ u \in Seq(RowType) /\ ShowsAll(d, u)
<1> DEFINE g == t[r].group
           s == t[r].computers
           a == s[k]
           left == {i \in DOMAIN c[g] : c[g][i] # a}
           d == remove_computer_name(c, g, a)
           u == [t EXCEPT ![r].computers = RemoveAt(@, k)]
<1>1. t[r] \in RowType /\ g \in Group /\ s \in Seq(Names)
  <2>1. t[r] \in RowType
    BY LenProperties
  <2> QED
    BY <2>1 DEF RowType
<1>2. /\ RemoveAt(s, k) \in Seq(Names)
      /\ \A i \in DOMAIN s : i # k => \E j \in DOMAIN RemoveAt(s, k) : RemoveAt(s, k)[j] = s[i]
  <2> HIDE DEF s
  <2> QED
    BY <1>1, Removed DEF s
<1>3. u[r] = [group |-> g, computers |-> RemoveAt(s, k)]
  BY <1>1 DEF RowType
<1>4. /\ u \in Seq(RowType) /\ DOMAIN u = DOMAIN t
      /\ \A q \in DOMAIN t : q # r => u[q] = t[q]
  <2> DEFINE row == [group |-> g, computers |-> RemoveAt(s, k)]
  <2>1. row \in RowType
    BY <1>1, <1>2 DEF RowType
  <2>2. u = [t EXCEPT ![r] = row]
    <3>1. [t[r] EXCEPT !.computers = RemoveAt(s, k)] = row
      BY <1>1 DEF RowType
    <3>2. u = [t EXCEPT ![r] = [t[r] EXCEPT !.computers = RemoveAt(s, k)]]
      OBVIOUS
    <3> QED
      BY <3>1, <3>2
  <2> HIDE DEF row, u
  <2>3. \A q \in DOMAIN t : t[q] \in RowType
    BY LenProperties
  <2> QED
    BY <2>1, <2>2, <2>3
<1>5. c[g] \in Seq(Names) /\ left \in SUBSET DOMAIN c[g]
  BY <1>1 DEF Container
<1>6. /\ At(c[g], left) \in Seq(Names)
      /\ \A j \in DOMAIN At(c[g], left) : \E i \in left : At(c[g], left)[j] = c[g][i]
  <2> DEFINE cg == c[g]
  <2> HIDE DEF left, cg
  <2> QED
    BY <1>5, AtProperties DEF cg
<1>7. d = [c EXCEPT ![g] = At(c[g], left)]
  BY DEF remove_computer_name
<1>8. d \in Container
  BY <1>1, <1>6, <1>7 DEF Container
<1> DEFINE kept == At(c[g], left)
<1> HIDE DEF kept
<1>9. ASSUME NEW h \in Group, NEW m, InGroup(d, h, m)
      PROVE  InGroup(c, h, m) /\ ~(h = g /\ m = a)
  <2>1. PICK j \in DOMAIN d[h] : d[h][j] = m
    BY <1>9 DEF InGroup
  <2>2. CASE h = g
    <3>1. d[g] = kept
      BY <1>1, <1>7 DEF kept, Container
    <3>2. PICK i \in left : kept[j] = c[g][i]
      BY <1>6, <2>1, <2>2, <3>1 DEF kept
    <3>3. i \in DOMAIN c[g] /\ c[g][i] # a /\ c[g][i] = m
      BY <2>1, <2>2, <3>1, <3>2
    <3> HIDE DEF g, a
    <3> QED
      BY <2>2, <3>3 DEF InGroup
  <2>3. CASE h # g
    <3>1. d[h] = c[h]
      BY <1>7, <2>3 DEF Container
    <3> QED
      BY <2>1, <2>3, <3>1 DEF InGroup
  <2> QED
    BY <2>2, <2>3
<1>10. ASSUME NEW h \in Group, NEW m, InGroup(d, h, m)
       PROVE  Shows(u, h, m)
  <2>1. Shows(t, h, m) /\ ~(h = g /\ m = a)
    BY <1>9, <1>10 DEF ShowsAll
  <2>2. PICK q \in DOMAIN t : /\ t[q].group = h
                              /\ \E i \in DOMAIN t[q].computers : t[q].computers[i] = m
    BY <2>1 DEF Shows
  <2>3. PICK i \in DOMAIN t[q].computers : t[q].computers[i] = m
    BY <2>2
  <2>4. CASE q # r
    <3>1. q \in DOMAIN u /\ u[q] = t[q]
      BY <1>4, <2>4
    <3> HIDE DEF u
    <3> QED
      BY <2>2, <3>1 DEF Shows
  <2>5. CASE q = r
    <3>1. i # k /\ i \in DOMAIN s /\ s[i] = m
      BY <2>1, <2>2, <2>3, <2>5
    <3>2. PICK j \in DOMAIN RemoveAt(s, k) : RemoveAt(s, k)[j] = s[i]
      BY <1>2, <3>1
    <3>3. u[q].group = h /\ u[q].computers = RemoveAt(s, k) /\ q \in DOMAIN u
      BY <1>3, <1>4, <2>2, <2>5
    <3> HIDE DEF u
    <3> QED
      BY <3>1, <3>2, <3>3 DEF Shows
  <2> QED
    BY <2>4, <2>5
<1>11. d \in Container /\ u \in Seq(RowType) /\ ShowsAll(d, u)
  BY <1>4, <1>8, <1>10 DEF ShowsAll
<1> QED
  BY <1>11

\* Likewise a group, and the one of its rows that was selected
\* (remove_group_slot).
LEMMA RemoveGroup ==
    ASSUME NEW c \in Container, NEW t \in Seq(RowType), ShowsAll(c, t),
           NEW r \in DOMAIN t
    PROVE  LET d == remove_group_name(c, t[r].group)
               u == RemoveAt(t, r)
           IN  d \in Container /\ u \in Seq(RowType) /\ ShowsAll(d, u)
<1> DEFINE g == t[r].group
           d == remove_group_name(c, g)
           u == RemoveAt(t, r)
<1>1. g \in Group
  <2>1. t[r] \in RowType
    BY LenProperties
  <2> QED
    BY <2>1 DEF RowType
<1>2. /\ u \in Seq(RowType)
      /\ \A q \in DOMAIN t : q # r => \E j \in DOMAIN u : u[j] = t[q]
  BY Removed
<1>3. d = [c EXCEPT ![g] = <<>>]
  BY DEF remove_group_name
<1>4. d \in Container
  BY <1>1, <1>3 DEF Container
<1>5. ASSUME NEW h \in Group, NEW m, InGroup(d, h, m)
      PROVE  h # g /\ InGroup(c, h, m)
  <2>1. h # g
    <3>1. h = g => d[h] = <<>>
      BY <1>1, <1>3 DEF Container
    <3> QED
      BY <1>5, <3>1 DEF InGroup
  <2>2. d[h] = c[h]
    BY <1>3, <2>1 DEF Container
  <2> QED
    BY <1>5, <2>1, <2>2 DEF InGroup
<1>6. ASSUME NEW h \in Group, NEW m, InGroup(d, h, m)
      PROVE  Shows(u, h, m)
  <2>1. Shows(t, h, m) /\ h # g
    BY <1>5, <1>6 DEF ShowsAll
  <2>2. PICK q \in DOMAIN t : /\ t[q].group = h
                              /\ \E i \in DOMAIN t[q].computers : t[q].computers[i] = m
    BY <2>1 DEF Shows
  <2>3. q # r
    BY <2>1, <2>2
  <2>4. PICK j \in DOMAIN u : u[j] = t[q]
    BY <1>2, <2>3
  <2> HIDE DEF u
  <2> QED
    BY <2>2, <2>4 DEF Shows
<1>7. d \in Container /\ u \in Seq(RowType) /\ ShowsAll(d, u)
  BY <1>2, <1>4, <1>6 DEF ShowsAll
<1> QED
  BY <1>7

-----------------------------------------------------------------------------
(* The main window. *)

\* Nothing in order is nothing (the order of a multimap's keys).
LEMMA InOrderOfNothing == InOrder({}, Lower) = <<>>
<1>1. IsFiniteSet({}) /\ Cardinality({}) = 0
  BY FS_EmptySet
<1>2. InOrder({}, Lower) \in [1 .. 0 -> {}]
  BY <1>1, InOrderLower
<1>3. InOrder({}, Lower) \in Seq({}) /\ Len(InOrder({}, Lower)) = 0
  BY <1>2
<1> QED
  BY <1>3

\* The slot makes an empty list of an empty one, as long as the main window's
\* groups are empty (group_editing_complete).
LEMMA NothingComesOfNothing ==
    ASSUME groups = NoGroups
    PROVE  WithNew(WithoutMissing(<<>>)) = <<>>
<1>1. WithoutMissing(<<>>) = <<>>
  <2>1. {i \in DOMAIN <<>> : ~Erased(<<>>, i)} = {}
    OBVIOUS
  <2>2. At(<<>>, {}) = <<>>
    BY InOrderOfNothing DEF At
  <2> QED
    BY <2>1, <2>2 DEF WithoutMissing
<1>2. WithNew(<<>>) = <<>>
  <2>1. {g \in Group : contains_group_name(groups, g)
                        /\ \A i \in DOMAIN <<>> : <<>>[i].group # g} = {}
    BY DEF contains_group_name, NoGroups
  <2> DEFINE added == [k \in 1 .. Len(<<>>) |->
                          [group |-> <<>>[k], playlist |-> "ADD PLAYLIST HERE"]]
  <2>2. WithNew(<<>>) = <<>> \o added
    BY <2>1, InOrderOfNothing DEF WithNew
  <2>3. added = <<>>
    OBVIOUS
  <2> QED
    BY <2>2, <2>3
<1> QED
  BY <1>1, <1>2

-----------------------------------------------------------------------------
(* The inductive invariant. *)

\* What is selected is in the tree.
SelectedIn(t, sel) ==
    /\ sel \in Nat \X Nat
    /\ sel[1] \in 0 .. Len(t)
    /\ sel[1] = 0 => sel[2] = 0
    /\ sel[1] # 0 => sel[2] \in 0 .. Len(t[sel[1]].computers)

\* The dialogs and the process.
ControlOK ==
    /\ shown \subseteq {"edit", "computer", "group", "upload"}
    /\ holds \in [Small -> {"none", "current", "stale"}]
    /\ group_name \in Group
    /\ removed \in BOOLEAN
    /\ process \in {"up", "ended"}

TreeOK ==
    /\ edited \in Container
    /\ tree \in Seq(RowType)
    /\ ShowsAll(edited, tree)
    /\ ~removed => ShowsOnly(edited, tree)

IInv == ControlOK /\ TreeOK /\ SelectedIn(tree, selected) /\ NothingIsListed

\* The properties follow from it.
LEMMA TypesFollow == ASSUME IInv PROVE TypeOK
<1>1. groups \in [Group -> Seq(Names)]
  BY DEF IInv, NothingIsListed, NoGroups
<1>2. group_playlist \in Seq([group : Group, playlist : {"ADD PLAYLIST HERE"}])
  BY DEF IInv, NothingIsListed
<1> QED
  BY <1>1, <1>2 DEF IInv, ControlOK, TreeOK, SelectedIn, TypeOK, Container, Row

\* So the tree shows what is edited.
LEMMA ShowingFollows == ASSUME TreeOK PROVE TreeShowsEdited
<1> DEFINE pairs == {<<e[1], edited[e[1]][e[2]]>> : e \in Entries(edited)}
           rows  == UNION {{<<tree[r].group, tree[r].computers[k]>> :
                               k \in DOMAIN tree[r].computers} : r \in DOMAIN tree}
<1>1. \A p : p \in pairs <=> \E g \in Group : \E a : p = <<g, a>> /\ InGroup(edited, g, a)
  <2>1. \A e : e \in Entries(edited)
                  <=> \E g \in Group : \E i \in DOMAIN edited[g] : e = <<g, i>>
    BY DEF Entries
  <2>2. ASSUME NEW p \in pairs
        PROVE  \E g \in Group : \E a : p = <<g, a>> /\ InGroup(edited, g, a)
    <3>1. PICK e \in Entries(edited) : p = <<e[1], edited[e[1]][e[2]]>>
      OBVIOUS
    <3>2. PICK g \in Group : \E i \in DOMAIN edited[g] : e = <<g, i>>
      BY <2>1
    <3>3. PICK i \in DOMAIN edited[g] : e = <<g, i>>
      BY <3>2
    <3>4. p = <<g, edited[g][i]>> /\ InGroup(edited, g, edited[g][i])
      BY <3>1, <3>3 DEF InGroup
    <3> QED
      BY <3>4
  <2>3. ASSUME NEW g \in Group, NEW a, InGroup(edited, g, a)
        PROVE  <<g, a>> \in pairs
    <3>1. PICK i \in DOMAIN edited[g] : edited[g][i] = a
      BY <2>3 DEF InGroup
    <3>2. <<g, i>> \in Entries(edited)
      BY <2>1
    <3> QED
      BY <3>1, <3>2
  <2> QED
    BY <2>2, <2>3
<1>2. \A p : p \in rows <=> \E g \in Group : \E a : p = <<g, a>> /\ Shows(tree, g, a)
  <2>1. \A r \in DOMAIN tree : tree[r].group \in Group
    <3>1. \A r \in DOMAIN tree : tree[r] \in RowType
      BY LenProperties DEF TreeOK
    <3> QED
      BY <3>1 DEF RowType
  <2> QED
    BY <2>1 DEF Shows
<1> HIDE DEF pairs, rows
<1>3. pairs \subseteq rows
  BY <1>1, <1>2 DEF TreeOK, ShowsAll
<1>4. ~removed => rows \subseteq pairs
  BY <1>1, <1>2 DEF TreeOK, ShowsOnly
<1> QED
  BY <1>3, <1>4 DEF TreeShowsEdited, pairs, rows

\* A tree that is built anew shows what is edited (repopulate_tree_widget).
LEMMA Rebuilt ==
    ASSUME edited' \in Container, repopulate_tree_widget
    PROVE  TreeOK' /\ SelectedIn(tree, selected)' /\ removed' \in BOOLEAN
<1>1. /\ tree' \in Seq(RowType)
      /\ ShowsAll(edited', tree') /\ ShowsOnly(edited', tree')
  BY RowsShow DEF repopulate_tree_widget
<1>2. SelectedIn(tree, selected)'
  <2>1. selected' = <<0, 0>> /\ Len(tree') \in Nat
    BY <1>1, LenProperties DEF repopulate_tree_widget, NoSelection
  <2> QED
    BY <2>1 DEF SelectedIn
<1> QED
  BY <1>1, <1>2 DEF repopulate_tree_widget, TreeOK

\* What is selected is a row, or a child of one.
LEMMA Chosen ==
    ASSUME IInv
    PROVE  /\ GroupSelected => selected[1] \in DOMAIN tree
           /\ ComputerSelected => /\ selected[1] \in DOMAIN tree
                                  /\ selected[2] \in DOMAIN Row.computers
<1>1. SelectedIn(tree, selected) /\ tree \in Seq(RowType)
  BY DEF IInv, TreeOK
<1>2. DOMAIN tree = 1 .. Len(tree) /\ Len(tree) \in Nat
  BY <1>1, LenProperties
<1>3. selected[1] # 0 => selected[1] \in DOMAIN tree
  BY <1>1, <1>2 DEF SelectedIn
<1>4. ASSUME selected[1] \in DOMAIN tree
      PROVE  DOMAIN Row.computers = 1 .. Len(Row.computers) /\ Len(Row.computers) \in Nat
  <2>1. Row \in RowType
    BY <1>1, <1>4, LenProperties DEF Row
  <2>2. Row.computers \in Seq(Names)
    BY <2>1 DEF RowType
  <2> QED
    BY <2>2, LenProperties
<1>5. ASSUME ComputerSelected
      PROVE  selected[1] \in DOMAIN tree /\ selected[2] \in DOMAIN Row.computers
  <2>1. selected[1] # 0
    BY <1>1, <1>5 DEF SelectedIn, ComputerSelected
  <2>2. selected[2] \in 0 .. Len(Row.computers) /\ selected[2] # 0
    BY <1>1, <1>5, <2>1 DEF SelectedIn, ComputerSelected, Row
  <2> QED
    BY <1>3, <1>4, <2>1, <2>2
<1> QED
  BY <1>3, <1>5 DEF GroupSelected

-----------------------------------------------------------------------------
(* The steps. *)

\* The invariant holds when the window is opened.
LEMMA InitOK == Init => IInv
<1> SUFFICES ASSUME Init PROVE IInv
  OBVIOUS
<1>1. ControlOK /\ NothingIsListed
  BY DEF Init, ControlOK, NothingIsListed
<1>2. TreeOK
  <2>1. edited \in Container /\ \A g \in Group : edited[g] = <<>>
    BY DEF Init, NoGroups, Container
  <2>2. tree = <<>>
    BY DEF Init
  <2>3. ShowsAll(edited, tree)
    BY <2>1 DEF ShowsAll, InGroup
  <2>4. ShowsOnly(edited, tree)
    BY <2>2 DEF ShowsOnly, Shows
  <2> QED
    BY <2>1, <2>2, <2>3, <2>4 DEF TreeOK
<1>3. SelectedIn(tree, selected)
  BY DEF Init, SelectedIn, NoSelection
<1> QED
  BY <1>1, <1>2, <1>3 DEF IInv

\* A step that leaves the tree and what is edited as they are.
LEMMA TreeStays ==
    ASSUME IInv, UNCHANGED <<main, edited, tree, selected, removed>>, ControlOK'
    PROVE  IInv'
BY DEF IInv, TreeOK, SelectedIn, NothingIsListed, main

\* edit_group shows the group anew.
LEMMA EditStep == ASSUME IInv, edit_group PROVE IInv'
<1>1. edited' \in Container
  BY DEF edit_group, IInv, NothingIsListed, NoGroups, Container
<1>2. TreeOK' /\ SelectedIn(tree, selected)' /\ removed' \in BOOLEAN
  BY <1>1, Rebuilt DEF edit_group
<1>3. Superseded \in [Small -> {"none", "current", "stale"}]
  BY DEF IInv, ControlOK, Superseded
<1>4. ControlOK'
  BY <1>2, <1>3 DEF IInv, ControlOK, edit_group
<1>5. NothingIsListed'
  BY DEF IInv, NothingIsListed, edit_group, main
<1> QED
  BY <1>2, <1>4, <1>5 DEF IInv

\* Selecting a row changes nothing else.
LEMMA SelectStep == ASSUME IInv, Select PROVE IInv'
<1>1. PICK r \in DOMAIN tree : \E k \in 0 .. Len(tree[r].computers) : selected' = <<r, k>>
  BY DEF Select
<1>2. PICK k \in 0 .. Len(tree[r].computers) : selected' = <<r, k>>
  BY <1>1
<1>3. SelectedIn(tree, selected)'
  <2>1. tree \in Seq(RowType) /\ tree' = tree
    BY DEF IInv, TreeOK, Select
  <2>2. DOMAIN tree = 1 .. Len(tree) /\ Len(tree) \in Nat
    BY <2>1, LenProperties
  <2> DEFINE n == Len(tree)
             m == Len(tree[r].computers)
  <2>3. /\ n \in Nat /\ r \in 1 .. n /\ k \in 0 .. m
        /\ Len(tree') = n /\ Len(tree'[r].computers) = m /\ m \in Nat
    <3>1. tree[r] \in RowType
      BY <2>1, LenProperties
    <3>2. tree[r].computers \in Seq(Names)
      BY <3>1 DEF RowType
    <3> QED
      BY <2>1, <2>2, <3>2, <1>2, LenProperties
  <2>4. selected'[1] = r /\ selected'[2] = k
    BY <1>2
  <2> HIDE DEF n, m
  <2>5. selected' \in Nat \X Nat
    BY <1>2, <2>3
  <2>6. selected'[1] \in 0 .. n /\ selected'[1] # 0
    BY <2>3, <2>4
  <2> QED
    BY <2>3, <2>4, <2>5, <2>6 DEF SelectedIn
<1>4. ControlOK' /\ TreeOK' /\ NothingIsListed'
  BY DEF IInv, ControlOK, TreeOK, NothingIsListed, Select, main
<1> QED
  BY <1>3, <1>4 DEF IInv

\* Opening a dialog reads the selection.
LEMMA OpenSteps ==
    ASSUME IInv, \/ add_computer_slot \/ add_group_slot
                 \/ show_schedule_upload_dialog \/ upload_ok_clicked
    PROVE  IInv'
<1>1. CASE add_computer_slot
  <2>1. Row.group \in Group
    <3>1. selected[1] \in DOMAIN tree
      BY <1>1, Chosen DEF add_computer_slot
    <3>2. Row \in RowType
      BY <3>1, LenProperties DEF IInv, TreeOK, Row
    <3> QED
      BY <3>2 DEF RowType
  <2>2. ControlOK'
    BY <1>1, <2>1 DEF IInv, ControlOK, add_computer_slot
  <2> QED
    BY <1>1, <2>2, TreeStays DEF add_computer_slot
<1>2. CASE add_group_slot
  <2>1. ControlOK'
    BY <1>2 DEF IInv, ControlOK, add_group_slot
  <2> QED
    BY <1>2, <2>1, TreeStays DEF add_group_slot
<1>3. CASE show_schedule_upload_dialog
  <2>1. ControlOK'
    BY <1>3 DEF IInv, ControlOK, show_schedule_upload_dialog
  <2> QED
    BY <1>3, <2>1, TreeStays DEF show_schedule_upload_dialog
<1>4. CASE upload_ok_clicked
  <2>1. ControlOK'
    BY <1>4 DEF IInv, ControlOK, upload_ok_clicked
  <2> QED
    BY <1>4, <2>1, TreeStays DEF upload_ok_clicked
<1> QED
  BY <1>1, <1>2, <1>3, <1>4

\* A dialog that is cancelled changes nothing.
LEMMA CancelStep ==
    ASSUME IInv, NEW d \in {"edit", "computer", "group", "upload"}, cancel_clicked(d)
    PROVE  IInv'
<1>1. ControlOK'
  BY DEF IInv, ControlOK, cancel_clicked
<1> QED
  BY <1>1, TreeStays DEF cancel_clicked

\* edit_ok_clicked closes the window.
LEMMA OkStep == ASSUME IInv, edit_ok_clicked PROVE IInv'
<1>1. NothingIsListed'
  BY NothingComesOfNothing DEF IInv, NothingIsListed, edit_ok_clicked, group_editing_complete
<1>2. UNCHANGED main
  BY <1>1 DEF IInv, NothingIsListed, main
<1>3. ControlOK'
  BY DEF IInv, ControlOK, edit_ok_clicked
<1> QED
  BY <1>2, <1>3, TreeStays DEF edit_ok_clicked

\* remove_computer_slot removes a row and its entry.
LEMMA RemoveComputerStep == ASSUME IInv, remove_computer_slot PROVE IInv'
<1> DEFINE r == selected[1]
           k == selected[2]
<1>1. r \in DOMAIN tree /\ k \in DOMAIN tree[r].computers
  BY Chosen DEF remove_computer_slot, Row
<1>2. edited \in Container /\ tree \in Seq(RowType) /\ ShowsAll(edited, tree)
  BY DEF IInv, TreeOK
<1>3. /\ edited' = remove_computer_name(edited, tree[r].group, tree[r].computers[k])
      /\ tree' = [tree EXCEPT ![r].computers = RemoveAt(@, k)]
  BY DEF remove_computer_slot, Row
<1> HIDE DEF r, k
<1>4. edited' \in Container /\ tree' \in Seq(RowType) /\ ShowsAll(edited', tree')
  BY <1>1, <1>2, <1>3, RemoveComputer
<1>5. TreeOK'
  BY <1>4 DEF TreeOK, remove_computer_slot
<1>6. SelectedIn(tree, selected)'
  <2>1. selected' = <<0, 0>> /\ Len(tree') \in Nat
    BY <1>4, LenProperties DEF remove_computer_slot, NoSelection
  <2> QED
    BY <2>1 DEF SelectedIn
<1>7. ControlOK' /\ NothingIsListed'
  BY DEF IInv, ControlOK, NothingIsListed, remove_computer_slot, main
<1> QED
  BY <1>5, <1>6, <1>7 DEF IInv

\* remove_group_slot removes the entries of a group, and the row selected.
LEMMA RemoveGroupStep == ASSUME IInv, remove_group_slot PROVE IInv'
<1> DEFINE r == selected[1]
<1>1. r \in DOMAIN tree
  BY Chosen DEF remove_group_slot
<1>2. edited \in Container /\ tree \in Seq(RowType) /\ ShowsAll(edited, tree)
  BY DEF IInv, TreeOK
<1>3. edited' = remove_group_name(edited, tree[r].group) /\ tree' = RemoveAt(tree, r)
  BY DEF remove_group_slot, Row
<1> HIDE DEF r
<1>4. edited' \in Container /\ tree' \in Seq(RowType) /\ ShowsAll(edited', tree')
  BY <1>1, <1>2, <1>3, RemoveGroup
<1>5. TreeOK'
  BY <1>4 DEF TreeOK, remove_group_slot
<1>6. SelectedIn(tree, selected)'
  <2>1. selected' = <<0, 0>> /\ Len(tree') \in Nat
    BY <1>4, LenProperties DEF remove_group_slot, NoSelection
  <2> QED
    BY <2>1 DEF SelectedIn
<1>7. ControlOK' /\ NothingIsListed'
  BY DEF IInv, ControlOK, NothingIsListed, remove_group_slot, main
<1> QED
  BY <1>5, <1>6, <1>7 DEF IInv

\* The small dialogs, whatever container they hold.
LEMMA AddsStep ==
    ASSUME IInv, NEW d, NEW isNew, NEW c \in Container, Adds(d, isNew, c)
    PROVE  IInv'
<1>1. edited' \in Container
  BY DEF IInv, TreeOK, Adds
<1>2. TreeOK' /\ SelectedIn(tree, selected)' /\ removed' \in BOOLEAN
  BY <1>1, Rebuilt DEF Adds
<1>3. ControlOK' /\ NothingIsListed'
  BY <1>2 DEF IInv, ControlOK, NothingIsListed, Adds, main
<1> QED
  BY <1>2, <1>3 DEF IInv

\* What a dialog adds is shown.
LEMMA AddStep ==
    ASSUME IInv, \/ \E n \in Computer : add_computer_ok_clicked(n)
                 \/ \E g \in Group : add_group_ok_clicked(g)
    PROVE  IInv'
<1>1. edited \in Container /\ group_name \in Group
  BY DEF IInv, TreeOK, ControlOK
<1>2. ASSUME NEW n \in Computer, add_computer_ok_clicked(n)
      PROVE  IInv'
  <2>1. add_computer_name(edited, group_name, n) \in Container
    BY <1>1, AddTyped DEF Names
  <2> QED
    BY <1>2, <2>1, AddsStep DEF add_computer_ok_clicked
<1>3. ASSUME NEW g \in Group, add_group_ok_clicked(g)
      PROVE  IInv'
  <2>1. add_group_name(edited, g) \in Container
    BY <1>1, AddTyped DEF Names, add_group_name
  <2> QED
    BY <1>3, <2>1, AddsStep DEF add_group_ok_clicked
<1> QED
  BY <1>2, <1>3

\* The invariant holds in every reachable state of the editor.
LEMMA Inductive == Spec => []IInv
<1>1. ASSUME IInv, [Next]_vars PROVE IInv'
  <2>1. CASE UNCHANGED vars
    <3>1. ControlOK'
      BY <1>1, <2>1 DEF vars, IInv, ControlOK
    <3> QED
      BY <1>1, <2>1, <3>1, TreeStays DEF vars, main
  <2>2. CASE Next
    BY <1>1, <2>2, EditStep, SelectStep, OpenSteps, CancelStep, OkStep,
       RemoveComputerStep, RemoveGroupStep, AddStep DEF Next
  <2> QED
    BY <1>1, <2>1, <2>2
<1> QED
  BY InitOK, <1>1, PTL DEF Spec

-----------------------------------------------------------------------------
\* The types; whatever is selected in Edit_Group's tree is there, in whatever
\* order the dialogs are used (remove_computer_slot, remove_group_slot).
THEOREM TypeCorrect == Spec => []TypeOK
BY Inductive, TypesFollow, PTL

\* Every pair that is edited is in the tree, and can be selected there; and
\* nothing else is, unless something was removed since the tree was built
\* (repopulate_tree_widget).
THEOREM WhatIsEditedIsShown == Spec => []TreeShowsEdited
<1>1. IInv => TreeShowsEdited
  BY ShowingFollows DEF IInv
<1> QED
  BY <1>1, Inductive, PTL

\* The main window never lists a group, for any number of groups and computers
\* and any number of pairs (set_groups_and_computer_names,
\* group_editing_complete).
THEOREM NothingIsEverListed == Spec => []NothingIsListed
<1>1. IInv => NothingIsListed
  BY DEF IInv
<1> QED
  BY <1>1, Inductive, PTL
====
