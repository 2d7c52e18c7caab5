---------------------------- MODULE XmlTreeProofs ----------------------------
(***************************************************************************)
(* Lemmas about module XmlTree: what the parser makes of a text is what it *)
(* makes of its parts one after another, and the indices of a tree's nodes *)
(* can be listed in their order.  Then that parsing undoes printing, and   *)
(* what is parsed of a text that was cut, or that goes on behind its end.  *)
(***************************************************************************)
EXTENDS XmlTree, FiniteSetTheorems, SequenceTheorems, WellFoundedInduction, TLAPS

-----------------------------------------------------------------------------
(* Induction. *)

\* Natural induction, for the set of the numbers of which something holds.
LEMMA Induction ==
    ASSUME NEW S, 0 \in S, \A n \in Nat : n \in S => n + 1 \in S
    PROVE  \A n \in Nat : n \in S
<1> DEFINE R == {p \in Nat \X Nat : p[1] < p[2]}
           T == {n \in Nat : n \notin S}
<1>1. IsWellFoundedOn(R, Nat)
  BY NatLessThanWellFounded DEF OpToRel
<1> SUFFICES ASSUME T # {} PROVE FALSE
  OBVIOUS
<1>2. PICK n \in T : \A m \in T : ~ (<<m, n>> \in R)
  <2> HIDE DEF R, T
  <2> T \subseteq Nat
    BY DEF T
  <2> QED
    BY <1>1, WFMin
<1>3. \A m \in Nat : m < n => m \in S
  BY <1>2
<1>4. n # 0 /\ n - 1 \in Nat /\ n - 1 < n
  OBVIOUS
<1>5. n - 1 \in S /\ (n - 1) + 1 = n
  BY <1>3, <1>4
<1> QED
  BY <1>5, <1>4

-----------------------------------------------------------------------------
(* Sequences. *)

\* The flattening of a sequence of sequences is built from their prefixes.
Flattens(g, ss) ==
    /\ g[0] = <<>>
    /\ \A i \in 1 .. Len(ss) : g[i] = g[i - 1] \o ss[i]

\* There are these prefixes, and the last is what FlattenSeq gives.
LEMMA FlattenPrefixes ==
    ASSUME NEW D, NEW ss \in Seq(Seq(D))
    PROVE  \E g \in [0 .. Len(ss) -> Seq(D)] : Flattens(g, ss) /\ FlattenSeq(ss) = g[Len(ss)]
<1> DEFINE L == Len(ss)
           IsPrefixes(g, m) == /\ g[0] = <<>>
                               /\ \A i \in 1 .. m : g[i] = g[i - 1] \o ss[i]
           S == {m \in Nat : m <= L => \E g \in [0 .. m -> Seq(D)] : IsPrefixes(g, m)}
<1>1. L \in Nat /\ \A i \in 1 .. L : ss[i] \in Seq(D)
  BY LenProperties
<1> HIDE DEF L, IsPrefixes
<1>2. 0 \in S
  <2> DEFINE g == [n \in 0 .. 0 |-> <<>>]
  <2>1. g \in [0 .. 0 -> Seq(D)] /\ g[0] = <<>>
    OBVIOUS
  <2>2. IsPrefixes(g, 0)
    BY <2>1 DEF IsPrefixes
  <2> HIDE DEF g
  <2> QED
    BY <2>1, <2>2
<1>3. ASSUME NEW m \in Nat, m \in S PROVE m + 1 \in S
  <2>0. ASSUME m + 1 <= L PROVE \E g \in [0 .. (m + 1) -> Seq(D)] : IsPrefixes(g, m + 1)
    <3>1. m <= L
      BY <1>1, <2>0
    <3>2. PICK f \in [0 .. m -> Seq(D)] : IsPrefixes(f, m)
      BY <1>3, <3>1
    <3>3. f[0] = <<>> /\ \A i \in 1 .. m : f[i] = f[i - 1] \o ss[i]
      BY <3>2 DEF IsPrefixes
    <3>4. m + 1 \in 1 .. L /\ m \in 0 .. m
      BY <1>1, <2>0
    <3>5. f[m] \in Seq(D) /\ ss[m + 1] \in Seq(D)
      BY <1>1, <3>2, <3>4
    <3> DEFINE z == f[m] \o ss[m + 1]
               g == [n \in 0 .. (m + 1) |-> IF n = m + 1 THEN z ELSE f[n]]
    <3>6. z \in Seq(D)
      BY <3>5, ConcatProperties
    <3>7. z = f[m] \o ss[m + 1]
      OBVIOUS
    <3> HIDE DEF z
    <3>8. g \in [0 .. (m + 1) -> Seq(D)]
      BY <3>2, <3>6
    <3>9. g[0] = <<>>
      BY <3>3
    <3>10. ASSUME NEW i \in 1 .. (m + 1) PROVE g[i] = g[i - 1] \o ss[i]
      <4>1. g[i - 1] = f[i - 1]
        BY <3>10
      <4>2. CASE i = m + 1
        <5>1. g[i] = z /\ i - 1 = m
          BY <4>2
        <5> QED
          BY <3>7, <4>1, <4>2, <5>1
      <4>3. CASE i # m + 1
        <5>1. g[i] = f[i] /\ i \in 1 .. m
          BY <3>10, <4>3
        <5> QED
          BY <3>3, <4>1, <5>1
      <4> QED
        BY <4>2, <4>3
    <3>11. IsPrefixes(g, m + 1)
      BY <3>9, <3>10 DEF IsPrefixes
    <3> HIDE DEF g
    <3> QED
      BY <3>8, <3>11
  <2> QED
    BY <2>0
<1> HIDE DEF S
<1>4. L \in S
  BY <1>1, <1>2, <1>3, Induction
<1>5. PICK g \in [0 .. L -> Seq(D)] : IsPrefixes(g, L)
  <2>1. L <= L
    BY <1>1
  <2> QED
    BY <1>1, <1>4, <2>1 DEF S
<1>6. /\ g[0] = <<>> /\ g[L] \in Seq(D)
       /\ \A i \in 1 .. L : g[i] = g[i - 1] \o ss[i]
  <2>1. IsPrefixes(g, L)
    BY <1>5
  <2>2. g[0] = <<>> /\ \A i \in 1 .. L : g[i] = g[i - 1] \o ss[i]
    BY <2>1 DEF IsPrefixes
  <2>3. L \in 0 .. L
    BY <1>1
  <2>4. g[L] \in Seq(D)
    BY <1>5, <2>3
  <2> QED
    BY <2>2, <2>4
<1>7. CASE L = 0
  <2>1. FlattenSeq(ss) = ss /\ ss = <<>>
    BY <1>7 DEF FlattenSeq, L
  <2> QED
    BY <1>5, <1>6, <1>7, <2>1 DEF Flattens, L
<1>8. CASE L # 0
  <2> DEFINE IsFlatten(f) == f = [i \in 1 .. L |-> IF i = 1 THEN ss[i] ELSE f[i - 1] \o ss[i]]
             flatten == CHOOSE f : IsFlatten(f)
             h == [i \in 1 .. L |-> g[i]]
  <2>1. FlattenSeq(ss) = flatten[L]
    BY <1>8 DEF FlattenSeq, L
  <2>2. IsFlatten(h)
    <3>1. ASSUME NEW i \in 1 .. L
          PROVE  h[i] = IF i = 1 THEN ss[i] ELSE h[i - 1] \o ss[i]
      <4>1. CASE i = 1
        <5>1. g[1] = <<>> \o ss[1]
          <6>1. 1 \in 1 .. L /\ 1 - 1 = 0
            BY <4>1, <3>1
          <6>2. g[1] = g[1 - 1] \o ss[1]
            BY <1>6, <6>1
          <6> QED
            BY <1>6, <6>1, <6>2
        <5>2. <<>> \o ss[1] = ss[1]
          BY <1>1, <4>1, <3>1, ConcatEmptySeq
        <5> QED
          BY <4>1, <5>1, <5>2, <3>1
      <4>2. CASE i # 1
        <5>1. i - 1 \in 1 .. L /\ h[i - 1] = g[i - 1]
          BY <1>1, <4>2, <3>1
        <5> QED
          BY <1>6, <4>2, <5>1, <3>1
      <4> QED
        BY <4>1, <4>2
    <3> QED
      BY <3>1
  <2>3. IsFlatten(flatten)
    <3> HIDE DEF IsFlatten, h
    <3> QED
      BY <2>2
  <2> DEFINE U == {n \in Nat : n + 1 <= L => flatten[n + 1] = h[n + 1]}
  <2>4. 0 \in U
    <3> HIDE DEF flatten, h
    <3>1. ASSUME 0 + 1 <= L PROVE flatten[0 + 1] = h[0 + 1]
      <4>1. 1 \in 1 .. L
        BY <1>1, <3>1
      <4>2. flatten[1] = ss[1]
        BY <2>3, <4>1
      <4>3. h[1] = ss[1]
        BY <2>2, <4>1
      <4> QED
        BY <4>2, <4>3
    <3> QED
      BY <3>1
  <2>5. ASSUME NEW n \in Nat, n \in U PROVE n + 1 \in U
    <3> SUFFICES ASSUME (n + 1) + 1 <= L PROVE flatten[(n + 1) + 1] = h[(n + 1) + 1]
      OBVIOUS
    <3> DEFINE k == (n + 1) + 1
    <3>1. k \in 1 .. L /\ k # 1 /\ k - 1 = n + 1 /\ n + 1 <= L
      BY <1>1
    <3>2. flatten[k - 1] = h[k - 1]
      BY <2>5, <3>1
    <3> HIDE DEF k, flatten, h
    <3>3. flatten[k] = flatten[k - 1] \o ss[k]
      BY <2>3, <3>1
    <3>4. h[k] = h[k - 1] \o ss[k]
      BY <2>2, <3>1
    <3> QED
      BY <3>2, <3>3, <3>4 DEF k
  <2> HIDE DEF U
  <2>6. \A n \in Nat : n \in U
    BY <2>4, <2>5, Induction
  <2>7. flatten[L] = h[L]
    <3>1. L - 1 \in Nat /\ (L - 1) + 1 = L /\ L - 1 \in U
      BY <1>1, <1>8, <2>6
    <3> QED
      BY <3>1 DEF U
  <2>8. h[L] = g[L]
    BY <1>1, <1>8
  <2>9. FlattenSeq(ss) = g[L]
    BY <2>1, <2>7, <2>8
  <2> QED
    BY <1>5, <1>6, <2>9 DEF Flattens, L
<1> QED
  BY <1>7, <1>8

-----------------------------------------------------------------------------
(* Runs of the parser. *)

\* f has the parser's states from p on, after each atom of a text.
Runs(f, p, text) ==
    f = [n \in 0 .. Len(text) |-> IF n = 0 THEN p ELSE ParseAtom(f[n - 1], text[n])]

\* Read from state p on, the text leads to state q.
Leads(p, text, q) == \E f : Runs(f, p, text) /\ f[Len(text)] = q

\* A run is determined by its start and its text.
LEMMA RunUnique ==
    ASSUME NEW p, NEW text, Len(text) \in Nat, NEW f, Runs(f, p, text), NEW g, Runs(g, p, text)
    PROVE  f[Len(text)] = g[Len(text)]
<1> DEFINE L == Len(text)
           S == {n \in Nat : n <= L => f[n] = g[n]}
<1>1. L \in Nat
  OBVIOUS
<1> HIDE DEF L
<1>2. 0 \in S
  BY <1>1 DEF Runs, L
<1>3. ASSUME NEW n \in Nat, n \in S PROVE n + 1 \in S
  <2> SUFFICES ASSUME n + 1 <= L PROVE f[n + 1] = g[n + 1]
    OBVIOUS
  <2>1. n + 1 \in 0 .. L /\ n + 1 # 0 /\ (n + 1) - 1 = n /\ n <= L
    BY <1>1
  <2>2. f[n + 1] = ParseAtom(f[(n + 1) - 1], text[n + 1])
    BY <2>1 DEF Runs, L
  <2>3. g[n + 1] = ParseAtom(g[(n + 1) - 1], text[n + 1])
    BY <2>1 DEF Runs, L
  <2>4. f[n] = g[n]
    BY <1>3, <2>1
  <2> QED
    BY <2>1, <2>2, <2>3, <2>4
<1> HIDE DEF S
<1>4. L \in S
  BY <1>1, <1>2, <1>3, Induction
<1> QED
  BY <1>1, <1>4 DEF S, L

\* What a text leads to is what Parse goes on from.
LEMMA LeadsParse ==
    ASSUME NEW text, Len(text) \in Nat, NEW q, Leads(StartOfText, text, q)
    PROVE  Parse(text) = EndOfText(q, text).nodes
<1> DEFINE parsed == CHOOSE f : Runs(f, StartOfText, text)
<1>1. PICK f : Runs(f, StartOfText, text) /\ f[Len(text)] = q
  BY DEF Leads
<1>2. Runs(parsed, StartOfText, text)
  BY <1>1
<1>3. parsed[Len(text)] = q
  <2> HIDE DEF parsed
  <2> QED
    BY <1>1, <1>2, RunUnique
<1>4. Parse(text) = EndOfText(parsed[Len(text)], text).nodes
  BY DEF Parse, Runs
<1> QED
  BY <1>3, <1>4

\* The empty text leads nowhere else.
LEMMA LeadsNothing == ASSUME NEW p PROVE Leads(p, <<>>, p)
<1> DEFINE f == [n \in 0 .. 0 |-> p]
<1>1. Len(<<>>) = 0 /\ f[0] = p
  OBVIOUS
<1>2. Runs(f, p, <<>>)
  BY <1>1 DEF Runs
<1> QED
  BY <1>1, <1>2 DEF Leads

\* A text with one more atom.
LEMMA LeadsAtom ==
    ASSUME NEW D, NEW s \in Seq(D), NEW a \in D, NEW p, NEW q, Leads(p, s, q)
    PROVE  Leads(p, Append(s, a), ParseAtom(q, a))
<1> DEFINE L == Len(s)
           t == Append(s, a)
<1>1. L \in Nat
  BY LenProperties
<1>2. Len(t) = L + 1 /\ t[L + 1] = a /\ \A i \in 1 .. L : t[i] = s[i]
  BY AppendProperties
<1>3. PICK f : Runs(f, p, s) /\ f[L] = q
  BY DEF Leads
<1> HIDE DEF L, t
<1> DEFINE g == [n \in 0 .. (L + 1) |-> IF n = L + 1 THEN ParseAtom(q, a) ELSE f[n]]
<1>4. f[0] = p /\ \A n \in 1 .. L : f[n] = ParseAtom(f[n - 1], s[n])
  BY <1>1, <1>3 DEF Runs, L
<1>5. ASSUME NEW n \in 0 .. (L + 1)
      PROVE  g[n] = IF n = 0 THEN p ELSE ParseAtom(g[n - 1], t[n])
  <2>1. CASE n = 0
    BY <1>1, <1>4, <2>1
  <2>2. CASE n \in 1 .. L
    <3>1. g[n] = f[n] /\ g[n - 1] = f[n - 1] /\ t[n] = s[n] /\ n # 0
      BY <1>1, <1>2, <2>2
    <3> QED
      BY <1>4, <2>2, <3>1
  <2>3. CASE n = L + 1
    <3>1. g[n] = ParseAtom(q, a) /\ n - 1 = L /\ n # 0
      BY <1>1, <2>3
    <3>2. g[n - 1] = f[L]
      BY <1>1, <3>1
    <3> QED
      BY <1>2, <1>3, <2>3, <3>1, <3>2
  <2> QED
    BY <1>1, <2>1, <2>2, <2>3
<1>6. g[L + 1] = ParseAtom(q, a)
  BY <1>1
<1>7. Runs(g, p, t)
  <2>1. g = [n \in 0 .. (L + 1) |-> g[n]]
    OBVIOUS
  <2> HIDE DEF g
  <2> QED
    BY <1>2, <1>5, <2>1 DEF Runs
<1> HIDE DEF g
<1>8. Leads(p, t, ParseAtom(q, a))
  BY <1>2, <1>6, <1>7 DEF Leads
<1> QED
  BY <1>8 DEF t

\* A text after a text.
LEMMA LeadsOn ==
    ASSUME NEW D, NEW s \in Seq(D), NEW t \in Seq(D),
           NEW p, NEW q, Leads(p, s, q), NEW r, Leads(q, t, r)
    PROVE  Leads(p, s \o t, r)
<1> DEFINE L == Len(s)
           M == Len(t)
           u == s \o t
<1>1. L \in Nat /\ M \in Nat
  BY LenProperties
<1>2. /\ Len(u) = L + M
      /\ \A i \in 1 .. (L + M) : u[i] = IF i <= L THEN s[i] ELSE t[i - L]
  BY ConcatProperties
<1>3. PICK f : Runs(f, p, s) /\ f[L] = q
  BY DEF Leads
<1>4. PICK g : Runs(g, q, t) /\ g[M] = r
  BY DEF Leads
<1> HIDE DEF L, M, u
<1>5. f[0] = p /\ \A n \in 1 .. L : f[n] = ParseAtom(f[n - 1], s[n])
  BY <1>1, <1>3 DEF Runs, L
<1>6. g[0] = q /\ \A n \in 1 .. M : g[n] = ParseAtom(g[n - 1], t[n])
  <2>1. g = [n \in 0 .. M |-> IF n = 0 THEN q ELSE ParseAtom(g[n - 1], t[n])]
    BY <1>4 DEF Runs, M
  <2> QED
    BY <1>1, <2>1
<1> DEFINE h == [n \in 0 .. (L + M) |-> IF n <= L THEN f[n] ELSE g[n - L]]
<1>7. ASSUME NEW n \in 0 .. (L + M)
      PROVE  h[n] = IF n = 0 THEN p ELSE ParseAtom(h[n - 1], u[n])
  <2>1. CASE n = 0
    BY <1>1, <1>5, <2>1
  <2>2. CASE n \in 1 .. L
    <3>1. h[n] = f[n] /\ h[n - 1] = f[n - 1] /\ u[n] = s[n] /\ n # 0
      BY <1>1, <1>2, <2>2
    <3> QED
      BY <1>5, <2>2, <3>1
  <2>3. CASE n > L
    <3> DEFINE m == n - L
    <3>1. m \in 1 .. M /\ h[n] = g[m] /\ u[n] = t[m] /\ n # 0
      BY <1>1, <1>2, <2>3
    <3>2. h[n - 1] = g[m - 1]
      <4>1. CASE n - 1 = L
        BY <1>1, <1>3, <1>6, <4>1
      <4>2. CASE n - 1 # L
        <5>1. ~(n - 1 <= L) /\ n - 1 \in 0 .. (L + M) /\ (n - 1) - L = m - 1
          BY <1>1, <2>3, <4>2
        <5> QED
          BY <5>1
      <4> QED
        BY <4>1, <4>2
    <3> HIDE DEF m, h
    <3> QED
      BY <1>6, <3>1, <3>2
  <2> QED
    BY <1>1, <2>1, <2>2, <2>3
<1>8. h[L + M] = r
  <2>1. CASE M = 0
    BY <1>1, <1>3, <1>4, <1>6, <2>1
  <2>2. CASE M # 0
    <3>1. ~(L + M <= L) /\ (L + M) - L = M
      BY <1>1, <2>2
    <3> QED
      BY <1>1, <1>4, <3>1
  <2> QED
    BY <2>1, <2>2
<1>9. Runs(h, p, u)
  <2>1. h = [n \in 0 .. (L + M) |-> h[n]]
    OBVIOUS
  <2> HIDE DEF h
  <2> QED
    BY <1>2, <1>7, <2>1 DEF Runs
<1> HIDE DEF h
<1>10. Leads(p, u, r)
  BY <1>2, <1>8, <1>9 DEF Leads
<1> QED
  BY <1>10 DEF u

\* A sequence of two.
LEMMA AppendSecond == ASSUME NEW a, NEW b PROVE Append(<<a>>, b) = <<a, b>>
<1> DEFINE D == {a, b}
           s == Append(<<a>>, b)
           t == <<a, b>>
<1>1. <<a>> \in Seq(D) /\ b \in D /\ Len(<<a>>) = 1 /\ <<a>>[1] = a
  OBVIOUS
<1>2. Len(s) = 2 /\ s \in Seq(D) /\ s[1] = a /\ s[2] = b
  <2> HIDE DEF D
  <2> QED
  BY <1>1, AppendProperties
<1>3. t \in Seq(D) /\ Len(t) = 2 /\ t[1] = a /\ t[2] = b
  OBVIOUS
<1> HIDE DEF s, t
<1>4. \A i \in 1 .. 2 : i = 1 \/ i = 2
  OBVIOUS
<1>5. s = t
  BY <1>2, <1>3, <1>4, SeqEqual
<1> QED
  BY <1>5 DEF s, t

\* A sequence of five.
LEMMA ConcatFive ==
    ASSUME NEW a, NEW b, NEW c, NEW d, NEW e
    PROVE  (<<a, b>> \o <<c>>) \o <<d, e>> = <<a, b, c, d, e>>
<1> DEFINE D == {a, b, c, d, e}
           s == (<<a, b>> \o <<c>>) \o <<d, e>>
           t == <<a, b, c, d, e>>
           u == <<a, b>> \o <<c>>
<1>1. /\ <<a, b>> \in Seq(D) /\ <<c>> \in Seq(D) /\ <<d, e>> \in Seq(D)
      /\ Len(<<a, b>>) = 2 /\ Len(<<c>>) = 1 /\ Len(<<d, e>>) = 2
  OBVIOUS
<1>2. u \in Seq(D) /\ Len(u) = 3 /\ u[1] = a /\ u[2] = b /\ u[3] = c
  <2> DEFINE x == <<a, b>>
             y == <<c>>
  <2>1. x \in Seq(D) /\ y \in Seq(D) /\ Len(x) = 2 /\ Len(y) = 1 /\ x[1] = a /\ x[2] = b /\ y[1] = c
    BY <1>1
  <2>2. u = x \o y
    OBVIOUS
  <2> HIDE DEF D, x, y, u
  <2>3. Len(u) = 3 /\ u \in Seq(D)
    BY <2>1, <2>2, ConcatProperties
  <2>4. \A i \in 1 .. 3 : u[i] = IF i <= 2 THEN x[i] ELSE y[i - 2]
    BY <2>1, <2>2, ConcatProperties
  <2>5. u[1] = x[1] /\ u[2] = x[2] /\ u[3] = y[1]
    BY <2>4
  <2> QED
    BY <2>1, <2>3, <2>5
<1>3. /\ s \in Seq(D) /\ Len(s) = 5
      /\ s[1] = a /\ s[2] = b /\ s[3] = c /\ s[4] = d /\ s[5] = e
  <2> DEFINE y == <<d, e>>
  <2>1. y \in Seq(D) /\ Len(y) = 2 /\ y[1] = d /\ y[2] = e
    BY <1>1
  <2>2. s = u \o y
    OBVIOUS
  <2> HIDE DEF D, y, u, s
  <2>20. u \in Seq(D) /\ Len(u) = 3
    BY <1>2
  <2>21. /\ Len(s) = Len(u) + Len(y) /\ s \in Seq(D)
         /\ \A i \in 1 .. Len(u) + Len(y) : s[i] = IF i <= Len(u) THEN u[i] ELSE y[i - Len(u)]
    BY <2>1, <2>2, <2>20, ConcatProperties
  <2>3. Len(s) = 5 /\ s \in Seq(D)
    BY <2>1, <2>20, <2>21
  <2>4. \A i \in 1 .. 5 : s[i] = IF i <= 3 THEN u[i] ELSE y[i - 3]
    BY <2>1, <2>20, <2>21
  <2>5. s[1] = u[1] /\ s[2] = u[2] /\ s[3] = u[3] /\ s[4] = y[1] /\ s[5] = y[2]
    BY <2>4
  <2> QED
    BY <1>2, <2>1, <2>3, <2>5
<1>4. t \in Seq(D) /\ Len(t) = 5 /\ t[1] = a /\ t[2] = b /\ t[3] = c /\ t[4] = d /\ t[5] = e
  OBVIOUS
<1> HIDE DEF s, t
<1>5. \A i \in 1 .. 5 : i = 1 \/ i = 2 \/ i = 3 \/ i = 4 \/ i = 5
  OBVIOUS
<1>6. s = t
  BY <1>3, <1>4, <1>5, SeqEqual
<1> QED
  BY <1>6 DEF s, t

-----------------------------------------------------------------------------
(* What the parser makes of a part of a text. *)

Node(N, V) == [name : N, depth : Nat, attribute : Seq(V), text : Seq(V)]

\* States of the parser between two tags: elements with names in N, and values
\* made of V.
ParserState(N, V) ==
    [nodes : Seq(Node(N, V)), open : Seq(Nat), at : {"content", "failed"}]

\* After an error, nothing more is read.
LEMMA FailedRead ==
    ASSUME NEW N, NEW V, NEW p \in ParserState(N, V), p.at = "failed",
           NEW text, Len(text) \in Nat
    PROVE  Leads(p, text, p)
<1>1. \A a : ParseAtom(p, a) = p
  <2>1. [p EXCEPT !.at = "failed"] = p
    BY DEF ParserState
  <2> QED
    BY <2>1 DEF ParseAtom, Reaches
<1> DEFINE f == [n \in 0 .. Len(text) |-> p]
<1>2. Runs(f, p, text)
  <2>1. ASSUME NEW n \in 0 .. Len(text)
        PROVE  f[n] = IF n = 0 THEN p ELSE ParseAtom(f[n - 1], text[n])
    <3>1. CASE n = 0
      BY <3>1
    <3>2. CASE n # 0
      <4>1. f[n - 1] = p
        BY <3>2
      <4> QED
        BY <1>1, <4>1, <3>2
    <3> QED
      BY <3>1, <3>2
  <2>2. f = [n \in 0 .. Len(text) |-> f[n]]
    OBVIOUS
  <2> HIDE DEF f
  <2> QED
    BY <2>1, <2>2 DEF Runs
<1>3. f[Len(text)] = p
  OBVIOUS
<1> QED
  BY <1>2, <1>3 DEF Leads

\* A start tag without an attribute.
LEMMA StartTagRead ==
    ASSUME NEW N, NEW V, NEW p \in ParserState(N, V), p.at = "content", NEW n \in N
    PROVE  LET q == [nodes |-> Append(p.nodes, [name |-> n, depth |-> Len(p.open) + 1,
                                                 attribute |-> <<>>, text |-> <<>>]),
                     open  |-> Append(p.open, Len(p.nodes) + 1),
                     at    |-> "content"]
           IN  q \in ParserState(N, V) /\ Leads(p, <<Open(n), Gt>>, q)
<1> DEFINE new == [name |-> n, depth |-> Len(p.open) + 1, attribute |-> <<>>, text |-> <<>>]
           ns == Append(p.nodes, new)
           os == Append(p.open, Len(p.nodes) + 1)
           q == [nodes |-> ns, open |-> os, at |-> "content"]
           D == {Open(n), Gt}
<1>1. p.nodes \in Seq(Node(N, V)) /\ p.open \in Seq(Nat)
  BY DEF ParserState
<1>2. new \in Node(N, V) /\ Len(p.nodes) + 1 \in Nat
  BY <1>1, LenProperties DEF Node
<1>3. ns \in Seq(Node(N, V)) /\ os \in Seq(Nat)
  <2> HIDE DEF new
  <2> QED
    BY <1>1, <1>2, AppendProperties
<1>4. ParseAtom(p, Open(n)) = [nodes |-> ns, open |-> os, at |-> "name"]
  <2>1. ParseAtom(p, Open(n)) = Pushed(p, n)
    BY DEF ParseAtom, Open, AtomOf, Reaches
  <2> QED
    BY <2>1 DEF Pushed
<1> HIDE DEF ns, os, new
<1>5. ParseAtom([nodes |-> ns, open |-> os, at |-> "name"], Gt) = q
  BY DEF ParseAtom, Gt, AtomOf, Reaches
<1>6. q \in ParserState(N, V)
  BY <1>3 DEF ParserState
<1> HIDE DEF q
<1>7. Leads(p, <<>>, p)
  BY LeadsNothing
<1>8. Leads(p, Append(<<>>, Open(n)), ParseAtom(p, Open(n)))
  <2>1. <<>> \in Seq(D) /\ Open(n) \in D
    OBVIOUS
  <2> HIDE DEF D
  <2> QED
    BY <1>7, <2>1, LeadsAtom
<1>9. Leads(p, Append(<<Open(n)>>, Gt), ParseAtom(ParseAtom(p, Open(n)), Gt))
  <2>1. <<Open(n)>> \in Seq(D) /\ Gt \in D /\ Append(<<>>, Open(n)) = <<Open(n)>>
    OBVIOUS
  <2> HIDE DEF D
  <2> QED
    BY <1>8, <2>1, LeadsAtom
<1>10. Append(<<Open(n)>>, Gt) = <<Open(n), Gt>>
  BY AppendSecond
<1>11. Leads(p, <<Open(n), Gt>>, q)
  BY <1>4, <1>5, <1>9, <1>10
<1> QED
  BY <1>6, <1>11 DEF q, ns, os, new

\* A piece of text, which goes to the innermost open element.
LEMMA TextRead ==
    ASSUME NEW N, NEW V, NEW p \in ParserState(N, V), p.at = "content",
           p.open # <<>>, Cursor(p) \in DOMAIN p.nodes, NEW x \in V
    PROVE  LET q == [p EXCEPT !.nodes[Cursor(p)].text = Append(@, x)]
           IN  q \in ParserState(N, V) /\ Leads(p, <<Text(x)>>, q)
<1> DEFINE k == Cursor(p)
           nk == p.nodes[k]
           q == [p EXCEPT !.nodes[Cursor(p)].text = Append(@, x)]
<1>1. p.nodes \in Seq(Node(N, V)) /\ p.open \in Seq(Nat)
  BY DEF ParserState
<1>2. nk \in Node(N, V)
  BY <1>1, LenProperties
<1>3. [nk EXCEPT !.text = Append(@, x)] \in Node(N, V)
  <2>1. nk.text \in Seq(V)
    BY <1>2 DEF Node
  <2>2. Append(nk.text, x) \in Seq(V)
    BY <2>1, AppendProperties
  <2> QED
    BY <1>2, <2>2 DEF Node
<1>4. [p.nodes EXCEPT ![k] = [nk EXCEPT !.text = Append(@, x)]] \in Seq(Node(N, V))
  <2> DEFINE z == [nk EXCEPT !.text = Append(@, x)]
  <2> HIDE DEF z, k
  <2>1. z \in Node(N, V) /\ k \in DOMAIN p.nodes
    BY <1>3 DEF z, k
  <2>2. [p.nodes EXCEPT ![k] = z] \in Seq(Node(N, V))
    BY <1>1, <2>1, ExceptSeq
  <2> QED
    BY <2>2 DEF z
<1>5. q = [p EXCEPT !.nodes = [p.nodes EXCEPT ![k] = [nk EXCEPT !.text = Append(@, x)]]]
  BY DEF ParserState
<1>6. q \in ParserState(N, V)
  BY <1>4, <1>5 DEF ParserState
<1>7. ParseAtom(p, Text(x)) = q
  BY DEF ParseAtom, WithText, PieceOf, IsData, Text, AtomOf
<1>8. Leads(p, Append(<<>>, Text(x)), ParseAtom(p, Text(x)))
  <2> DEFINE D == {Text(x)}
  <2>1. <<>> \in Seq(D) /\ Text(x) \in D /\ Leads(p, <<>>, p)
    BY LeadsNothing
  <2> HIDE DEF D
  <2> QED
    BY <2>1, LeadsAtom
<1>9. Append(<<>>, Text(x)) = <<Text(x)>>
  OBVIOUS
<1> QED
  BY <1>6, <1>7, <1>8, <1>9

\* An end tag, which fits or ends the parse.
LEMMA EndTagRead ==
    ASSUME NEW N, NEW V, NEW p \in ParserState(N, V), p.at = "content", NEW n
    PROVE  LET q == IF ClosesCursor(p, n) THEN Popped(p) ELSE [p EXCEPT !.at = "failed"]
           IN  q \in ParserState(N, V) /\ Leads(p, <<Lt, Close(n)>>, q)
<1> DEFINE r == [p EXCEPT !.at = "end tag"]
           q == IF ClosesCursor(p, n) THEN Popped(p) ELSE [p EXCEPT !.at = "failed"]
           D == {Lt, Close(n)}
<1>1. ParseAtom(p, Lt) = r
  BY DEF ParseAtom, Lt, AtomOf, Reaches
<1>2. r.open = p.open /\ r.nodes = p.nodes /\ r.at = "end tag"
  BY DEF ParserState
<1>3. ClosesCursor(r, n) <=> ClosesCursor(p, n)
  BY <1>2 DEF ClosesCursor, Cursor
<1>4. Popped(r) = Popped(p)
  <2>1. \A o : [r EXCEPT !.open = o, !.at = "content"] = [p EXCEPT !.open = o, !.at = "content"]
    BY DEF ParserState
  <2> QED
    BY <1>2, <2>1 DEF Popped
<1>5. [r EXCEPT !.at = "failed"] = [p EXCEPT !.at = "failed"]
  BY DEF ParserState
<1>6. ParseAtom(r, Close(n)) = q
  <2>1. CASE ClosesCursor(p, n)
    <3>1. ParseAtom(r, Close(n)) = Popped(r)
      <4> HIDE DEF r
      <4> QED
        BY <1>2, <1>3, <2>1 DEF ParseAtom, Close, AtomOf, Reaches
    <3> QED
      BY <1>4, <2>1, <3>1
  <2>2. CASE ~ClosesCursor(p, n)
    <3>1. ParseAtom(r, Close(n)) = [r EXCEPT !.at = "failed"]
      <4> HIDE DEF r
      <4> QED
        BY <1>2, <1>3, <2>2 DEF ParseAtom, Close, AtomOf, Reaches
    <3> QED
      BY <1>5, <2>2, <3>1
  <2> QED
    BY <2>1, <2>2
<1>7. q \in ParserState(N, V)
  <2>1. CASE ClosesCursor(p, n)
    <3>1. p.open \in Seq(Nat) /\ p.open # <<>>
      BY <2>1 DEF ClosesCursor, ParserState
    <3>2. Front(p.open) \in Seq(Nat)
      <4> DEFINE os == p.open
                 m == Len(os) - 1
      <4>1. \A i \in 1 .. m : os[i] \in Nat
        <5>1. os \in Seq(Nat) /\ Len(os) \in Nat /\ \A i \in 1 .. Len(os) : os[i] \in Nat
          BY <3>1, LenProperties
        <5> QED
          BY <5>1
      <4>2. m \in Int /\ os \in Seq(Nat)
        BY <3>1, LenProperties
      <4> HIDE DEF m, os
      <4>3. SubSeq(os, 1, m) \in Seq(Nat)
        BY <4>1, <4>2, SubSeqProperties
      <4> QED
        BY <4>3 DEF Front, m, os
    <3> QED
      BY <2>1, <3>2 DEF Popped, ParserState
  <2>2. CASE ~ClosesCursor(p, n)
    BY <2>2 DEF ParserState
  <2> QED
    BY <2>1, <2>2
<1> HIDE DEF q, r
<1>8. Leads(p, Append(<<>>, Lt), ParseAtom(p, Lt))
  <2>1. <<>> \in Seq(D) /\ Lt \in D /\ Leads(p, <<>>, p)
    BY LeadsNothing
  <2> HIDE DEF D
  <2> QED
    BY <2>1, LeadsAtom
<1>9. Leads(p, Append(<<Lt>>, Close(n)), ParseAtom(ParseAtom(p, Lt), Close(n)))
  <2>1. <<Lt>> \in Seq(D) /\ Close(n) \in D /\ Append(<<>>, Lt) = <<Lt>>
    OBVIOUS
  <2> HIDE DEF D
  <2> QED
    BY <1>8, <2>1, LeadsAtom
<1>10. Append(<<Lt>>, Close(n)) = <<Lt, Close(n)>>
  BY AppendSecond
<1>11. Leads(p, <<Lt, Close(n)>>, q)
  BY <1>1, <1>6, <1>9, <1>10
<1> QED
  BY <1>7, <1>11 DEF q

\* An element with one piece of text.
LEMMA ElementRead ==
    ASSUME NEW N, NEW V, NEW p \in ParserState(N, V), p.at = "content",
           NEW n \in N, NEW x \in V
    PROVE  LET q == [nodes |-> Append(p.nodes, [name |-> n, depth |-> Len(p.open) + 1,
                                                 attribute |-> <<>>, text |-> <<x>>]),
                     open  |-> p.open,
                     at    |-> "content"]
           IN  /\ q \in ParserState(N, V)
               /\ Leads(p, <<Open(n), Gt, Text(x), Lt, Close(n)>>, q)
<1> DEFINE L == Len(p.nodes)
           new == [name |-> n, depth |-> Len(p.open) + 1, attribute |-> <<>>, text |-> <<>>]
           full == [name |-> n, depth |-> Len(p.open) + 1, attribute |-> <<>>, text |-> <<x>>]
           os == Append(p.open, L + 1)
           p1 == [nodes |-> Append(p.nodes, new), open |-> os, at |-> "content"]
           p2 == [nodes |-> Append(p.nodes, full), open |-> os, at |-> "content"]
           q == [nodes |-> Append(p.nodes, full), open  |-> p.open, at |-> "content"]
<1>1. p1 \in ParserState(N, V) /\ Leads(p, <<Open(n), Gt>>, p1)
  BY StartTagRead
<1>2. p.nodes \in Seq(Node(N, V)) /\ p.open \in Seq(Nat) /\ L \in Nat
  BY LenProperties DEF ParserState
<1>3. /\ os \in Seq(Nat) /\ Len(os) = Len(p.open) + 1 /\ os[Len(os)] = L + 1
      /\ os # <<>> /\ Front(os) = p.open
  <2> DEFINE w == p.open
             m == Len(w)
  <2>1. w \in Seq(Nat) /\ m \in Nat /\ L + 1 \in Nat
    BY <1>2, LenProperties
  <2>2. os = Append(w, L + 1)
    OBVIOUS
  <2> HIDE DEF w, os, L
  <2>3. /\ os \in Seq(Nat) /\ Len(os) = m + 1 /\ os[m + 1] = L + 1
        /\ \A i \in 1 .. m : os[i] = w[i]
    BY <2>1, <2>2, AppendProperties
  <2>4. Front(os) = SubSeq(os, 1, m)
    BY <2>1, <2>3 DEF Front
  <2>5. /\ SubSeq(os, 1, m) \in Seq(Nat) /\ Len(SubSeq(os, 1, m)) = m
        /\ \A i \in 1 .. m : SubSeq(os, 1, m)[i] = os[i]
    <3> HIDE DEF m
    <3>1. \A i \in 1 .. m : os[i] \in Nat
      BY <2>1, <2>3, LenProperties
    <3>2. /\ SubSeq(os, 1, m) \in Seq(Nat)
          /\ Len(SubSeq(os, 1, m)) = IF 1 <= m THEN m - 1 + 1 ELSE 0
          /\ \A i \in 1 .. m - 1 + 1 : SubSeq(os, 1, m)[i] = os[1 + i - 1]
      BY <2>1, <2>3, <3>1, SubSeqProperties
    <3>3. \A i \in 1 .. m : i \in 1 .. m - 1 + 1 /\ 1 + i - 1 = i
      BY <2>1
    <3> QED
      BY <2>1, <3>2, <3>3
  <2>6. Front(os) = w
    BY <2>1, <2>3, <2>4, <2>5, SeqEqual
  <2>7. os # <<>>
    BY <2>1, <2>3
  <2> QED
    BY <2>1, <2>3, <2>6, <2>7 DEF w, m
<1>4. new \in Node(N, V) /\ full \in Node(N, V)
  BY <1>2, LenProperties DEF Node
<1>5. /\ Append(p.nodes, new) \in Seq(Node(N, V)) /\ Append(p.nodes, full) \in Seq(Node(N, V))
      /\ Len(Append(p.nodes, new)) = L + 1 /\ Append(p.nodes, new)[L + 1] = new
      /\ Len(Append(p.nodes, full)) = L + 1 /\ Append(p.nodes, full)[L + 1] = full
      /\ L + 1 \in DOMAIN Append(p.nodes, new)
  <2> HIDE DEF new, full
  <2>1. /\ Append(p.nodes, new) \in Seq(Node(N, V)) /\ Append(p.nodes, full) \in Seq(Node(N, V))
        /\ Len(Append(p.nodes, new)) = L + 1 /\ Append(p.nodes, new)[L + 1] = new
        /\ Len(Append(p.nodes, full)) = L + 1 /\ Append(p.nodes, full)[L + 1] = full
    BY <1>2, <1>4, AppendProperties
  <2>2. L + 1 \in DOMAIN Append(p.nodes, new)
    BY <1>2, <2>1, LenProperties
  <2> QED
    BY <2>1, <2>2
<1>6. [Append(p.nodes, new) EXCEPT ![L + 1] = full] = Append(p.nodes, full)
  <2> DEFINE a == Append(p.nodes, new)
             b == Append(p.nodes, full)
             a1 == [a EXCEPT ![L + 1] = full]
  <2>1. /\ Len(a) = L + 1 /\ Len(b) = L + 1
        /\ \A i \in 1 .. L : a[i] = p.nodes[i] /\ b[i] = p.nodes[i]
    <3> HIDE DEF new, full
    <3> QED
      BY <1>2, <1>4, AppendProperties
  <2>2. a \in Seq(Node(N, V)) /\ b \in Seq(Node(N, V)) /\ b[L + 1] = full
    BY <1>5
  <2> HIDE DEF a, b, full, L
  <2>3. /\ a1 \in Seq(Node(N, V)) /\ Len(a1) = L + 1
        /\ \A j \in 1 .. (L + 1) : a1[j] = IF j = L + 1 THEN full ELSE a[j]
    <3>1. L + 1 \in 1 .. Len(a)
      BY <1>2, <2>1
    <3> QED
      BY <1>4, <2>1, <2>2, <3>1, ExceptSeq
  <2> HIDE DEF a1
  <2>4. \A j \in 1 .. (L + 1) : a1[j] = b[j]
    <3>1. \A j \in 1 .. (L + 1) : j = L + 1 \/ j \in 1 .. L
      BY <1>2
    <3> QED
      BY <1>2, <2>1, <2>2, <2>3, <3>1
  <2>5. a1 = b
    BY <2>1, <2>2, <2>3, <2>4, SeqEqual
  <2> QED
    BY <2>5 DEF a1, a, b, full
<1>7. /\ p1.at = "content" /\ p1.open = os /\ p1.open # <<>>
      /\ Cursor(p1) = L + 1 /\ Cursor(p1) \in DOMAIN p1.nodes
  BY <1>3, <1>5 DEF Cursor, Last
<1>8. [p1 EXCEPT !.nodes[Cursor(p1)].text = Append(@, x)] = p2
  <2>1. [new EXCEPT !.text = Append(@, x)] = full
    OBVIOUS
  <2>2. p1.nodes[L + 1] = new
    BY <1>5
  <2>3. [p1 EXCEPT !.nodes[Cursor(p1)].text = Append(@, x)]
          = [p1 EXCEPT !.nodes = [p1.nodes EXCEPT ![L + 1]
                                    = [p1.nodes[L + 1] EXCEPT !.text = Append(@, x)]]]
    BY <1>7
  <2>4. [p1 EXCEPT !.nodes = Append(p.nodes, full)] = p2
    <3>1. \A y, z : [[nodes |-> y, open |-> os, at |-> "content"] EXCEPT !.nodes = z]
                       = [nodes |-> z, open |-> os, at |-> "content"]
      <4> HIDE DEF os
      <4> QED
        OBVIOUS
    <3> QED
      BY <3>1
  <2>5. [p1.nodes EXCEPT ![L + 1] = [p1.nodes[L + 1] EXCEPT !.text = Append(@, x)]]
           = Append(p.nodes, full)
    <3>1. p1.nodes = Append(p.nodes, new)
      OBVIOUS
    <3> HIDE DEF p1
    <3> QED
      BY <1>6, <2>1, <2>2, <3>1
  <2> QED
    BY <2>3, <2>4, <2>5
<1> HIDE DEF p1
<1>9. p2 \in ParserState(N, V) /\ Leads(p1, <<Text(x)>>, p2)
  <2>1. p1 \in ParserState(N, V) /\ p1.at = "content" /\ p1.open # <<>>
        /\ Cursor(p1) \in DOMAIN p1.nodes
    BY <1>1, <1>7
  <2> DEFINE r == [p1 EXCEPT !.nodes[Cursor(p1)].text = Append(@, x)]
  <2>2. r \in ParserState(N, V) /\ Leads(p1, <<Text(x)>>, r)
    BY <2>1, TextRead
  <2>3. r = p2
    BY <1>8
  <2> HIDE DEF r, p2
  <2> QED
    BY <2>2, <2>3
<1>10. ClosesCursor(p2, n) /\ Popped(p2) = q
  <2>1. p2.open = os /\ p2.nodes[L + 1].name = n
    BY <1>5
  <2>2. Cursor(p2) = L + 1
    BY <1>3, <2>1 DEF Cursor, Last
  <2>3. Popped(p2) = q
    <3>1. \A y, z : [[nodes |-> y, open |-> os, at |-> "content"] EXCEPT !.open = z, !.at = "content"]
                       = [nodes |-> y, open |-> z, at |-> "content"]
      <4> HIDE DEF os
      <4> TAKE y, z
      <4> DEFINE r == [nodes |-> y, open |-> os, at |-> "content"]
                 t == [nodes |-> y, open |-> z, at |-> "content"]
      <4>1. [r EXCEPT !.open = z, !.at = "content"] = [[r EXCEPT !.open = z] EXCEPT !.at = "content"]
        OBVIOUS
      <4>2. [r EXCEPT !.open = z] = t
        OBVIOUS
      <4>3. [t EXCEPT !.at = "content"] = t
        OBVIOUS
      <4> QED
        BY <4>1, <4>2, <4>3
    <3>2. Popped(p2) = [p2 EXCEPT !.open = Front(os), !.at = "content"]
      BY <2>1 DEF Popped
    <3> QED
      BY <1>3, <3>1, <3>2
  <2> QED
    BY <1>3, <2>1, <2>2, <2>3 DEF ClosesCursor
<1>11. q \in ParserState(N, V) /\ Leads(p2, <<Lt, Close(n)>>, q)
  <2>1. p2.at = "content"
    OBVIOUS
  <2> HIDE DEF p2, q
  <2> QED
    BY <1>9, <1>10, <2>1, EndTagRead
<1> HIDE DEF p2, q
<1> DEFINE D == {Open(n), Gt, Text(x), Lt, Close(n)}
<1>12. Leads(p, <<Open(n), Gt>> \o <<Text(x)>>, p2)
  <2>1. <<Open(n), Gt>> \in Seq(D) /\ <<Text(x)>> \in Seq(D)
    OBVIOUS
  <2> HIDE DEF D
  <2> QED
    BY <1>1, <1>9, <2>1, LeadsOn
<1>13. Leads(p, (<<Open(n), Gt>> \o <<Text(x)>>) \o <<Lt, Close(n)>>, q)
  <2>1. <<Open(n), Gt>> \in Seq(D) /\ <<Text(x)>> \in Seq(D) /\ <<Lt, Close(n)>> \in Seq(D)
    OBVIOUS
  <2> HIDE DEF D
  <2>2. <<Open(n), Gt>> \o <<Text(x)>> \in Seq(D)
    BY <2>1, ConcatProperties
  <2> QED
    BY <1>11, <1>12, <2>1, <2>2, LeadsOn
<1>14. Leads(p, <<Open(n), Gt, Text(x), Lt, Close(n)>>, q)
  BY <1>13, ConcatFive
<1> QED
  BY <1>11, <1>14 DEF q

-----------------------------------------------------------------------------
(* Indices in their order. *)

Ascends(t, n) == \A i, j \in 1 .. n : i < j => t[i] < t[j]

\* The numbers in an ascending list are as many as its places.
LEMMA AscendingCardinality ==
    ASSUME NEW n \in Nat, NEW t \in [1 .. n -> Nat], Ascends(t, n)
    PROVE  IsFiniteSet({t[i] : i \in 1 .. n}) /\ Cardinality({t[i] : i \in 1 .. n}) = n
<1> DEFINE S == {t[i] : i \in 1 .. n}
<1>1. IsFiniteSet(1 .. n) /\ Cardinality(1 .. n) = n
  BY FS_Interval
<1>2. t \in Bijection(1 .. n, S)
  <2>1. \A i, j \in 1 .. n : t[i] = t[j] => i = j
    <3>1. \A i, j \in 1 .. n : t[i] \in Nat /\ t[j] \in Nat /\ (i < j \/ j < i \/ i = j)
      OBVIOUS
    <3> QED
      BY <3>1 DEF Ascends
  <2>2. t \in [1 .. n -> S]
    OBVIOUS
  <2>3. t \in Injection(1 .. n, S)
    BY <2>1, <2>2 DEF Injection, IsInjective
  <2>4. t \in Surjection(1 .. n, S)
    BY <2>2 DEF Surjection
  <2> QED
    BY <2>3, <2>4 DEF Bijection
<1>3. ExistsBijection(1 .. n, S)
  BY <1>2 DEF ExistsBijection
<1> HIDE DEF S
<1>4. IsFiniteSet(S) /\ Cardinality(S) = n
  BY <1>1, <1>3, FS_Bijection
<1> QED
  BY <1>4 DEF S

\* InOrder lists a set as an ascending list of its members does.
LEMMA InOrderIs ==
    ASSUME NEW n \in Nat, NEW t \in [1 .. n -> Nat], Ascends(t, n)
    PROVE  InOrder({t[i] : i \in 1 .. n}) = t
<1> DEFINE S == {t[i] : i \in 1 .. n}
           UpTo(k) == {j \in S : j <= k}
<1>1. Cardinality(S) = n
  BY AscendingCardinality
<1>2. ASSUME NEW m \in 1 .. n PROVE Cardinality(UpTo(t[m])) = m
  <2> DEFINE u == [i \in 1 .. m |-> t[i]]
             T == {u[i] : i \in 1 .. m}
  <2>1. m \in Nat /\ u \in [1 .. m -> Nat] /\ Ascends(u, m)
    BY DEF Ascends
  <2>2. Cardinality(T) = m
    <3> HIDE DEF u
    <3> QED
      BY <2>1, AscendingCardinality
  <2>3. \A i \in 1 .. n : t[i] <= t[m] <=> i <= m
    <3>1. \A i \in 1 .. n : t[i] \in Nat /\ t[m] \in Nat /\ i \in Nat
      OBVIOUS
    <3>2. \A i \in 1 .. n : i < m => t[i] < t[m]
      BY DEF Ascends
    <3>3. \A i \in 1 .. n : m < i => t[m] < t[i]
      BY DEF Ascends
    <3> QED
      BY <3>1, <3>2, <3>3
  <2>4. UpTo(t[m]) = T
    <3>1. \A i \in 1 .. m : i \in 1 .. n /\ u[i] = t[i] /\ i <= m
      OBVIOUS
    <3>2. ASSUME NEW j \in UpTo(t[m]) PROVE j \in T
      <4>1. PICK i \in 1 .. n : j = t[i] /\ t[i] <= t[m]
        OBVIOUS
      <4>2. i \in 1 .. m /\ u[i] = j
        BY <2>3, <4>1
      <4> QED
        BY <4>2
    <3>3. ASSUME NEW j \in T PROVE j \in UpTo(t[m])
      <4>1. PICK i \in 1 .. m : j = u[i]
        OBVIOUS
      <4>2. i \in 1 .. n /\ j = t[i] /\ t[i] <= t[m]
        BY <2>3, <3>1, <4>1
      <4> QED
        BY <4>2
    <3> QED
      BY <3>2, <3>3
  <2> QED
    BY <2>2, <2>4
<1>3. ASSUME NEW m \in 1 .. n
      PROVE  (CHOOSE k \in S : Cardinality(UpTo(k)) = m) = t[m]
  <2>1. t[m] \in S /\ Cardinality(UpTo(t[m])) = m
    BY <1>2
  <2>2. \A k \in S : Cardinality(UpTo(k)) = m => k = t[m]
    <3>1. ASSUME NEW k \in S, Cardinality(UpTo(k)) = m PROVE k = t[m]
      <4>1. PICK i \in 1 .. n : k = t[i]
        BY <3>1
      <4>2. Cardinality(UpTo(k)) = i
        BY <1>2, <4>1
      <4> QED
        BY <3>1, <4>1, <4>2
    <3> QED
      BY <3>1
  <2> HIDE DEF S, UpTo
  <2> QED
    BY <2>1, <2>2
<1>4. InOrder(S) = [m \in 1 .. n |-> CHOOSE k \in S : Cardinality(UpTo(k)) = m]
  <2> HIDE DEF S
  <2> QED
    BY <1>1 DEF InOrder
<1>5. InOrder(S) = [m \in 1 .. n |-> t[m]]
  <2> HIDE DEF S, UpTo
  <2> QED
    BY <1>3, <1>4
<1>6. t = [m \in 1 .. n |-> t[m]]
  OBVIOUS
<1> QED
  BY <1>5, <1>6

Lists(t, n, S) == t \in [1 .. n -> S] /\ Ascends(t, n) /\ S = {t[i] : i \in 1 .. n}

\* A set of numbers up to m can be listed so.
LEMMA ListExists ==
    ASSUME NEW m \in Nat, NEW S \in SUBSET (1 .. m)
    PROVE  \E n \in Nat : \E t : Lists(t, n, S)
<1> DEFINE Listed(T) == \E n \in Nat : \E t : Lists(t, n, T)
           U == {k \in Nat : \A T \in SUBSET (1 .. k) : Listed(T)}
<1>1. 0 \in U
  <2>1. Listed({})
    <3> DEFINE t == [i \in 1 .. 0 |-> i]
    <3>1. 0 \in Nat /\ t \in [1 .. 0 -> {}] /\ Ascends(t, 0) /\ {} = {t[i] : i \in 1 .. 0}
      BY DEF Ascends
    <3>2. Lists(t, 0, {})
      BY <3>1 DEF Lists
    <3> QED
      BY <3>2
  <2>2. \A T \in SUBSET (1 .. 0) : T = {}
    OBVIOUS
  <2> QED
    BY <2>1, <2>2
<1>2. ASSUME NEW k \in Nat, k \in U PROVE k + 1 \in U
  <2>1. ASSUME NEW T \in SUBSET (1 .. (k + 1)) PROVE Listed(T)
    <3> DEFINE R == T \ {k + 1}
    <3>1. R \in SUBSET (1 .. k)
      OBVIOUS
    <3>2. Listed(R)
      BY <1>2, <3>1
    <3>3. CASE k + 1 \notin T
      <4>1. R = T
        BY <3>3
      <4> QED
        BY <3>2, <4>1
    <3>4. CASE k + 1 \in T
      <4>1. PICK n \in Nat : \E t : Lists(t, n, R)
        BY <3>2
      <4>21. PICK t : Lists(t, n, R)
        BY <4>1
      <4>2. t \in [1 .. n -> R] /\ Ascends(t, n) /\ R = {t[i] : i \in 1 .. n}
        BY <4>21 DEF Lists
      <4> DEFINE u == [i \in 1 .. (n + 1) |-> IF i = n + 1 THEN k + 1 ELSE t[i]]
      <4>3. u[n + 1] = k + 1 /\ \A i \in 1 .. n : u[i] = t[i] /\ t[i] \in R
        BY <4>2
      <4>4. u \in [1 .. (n + 1) -> T]
        BY <3>4, <4>3
      <4> HIDE DEF u
      <4>5. Ascends(u, n + 1)
        <5>1. ASSUME NEW i \in 1 .. (n + 1), NEW j \in 1 .. (n + 1), i < j PROVE u[i] < u[j]
          <6>0. i \in 1 .. n /\ u[i] = t[i]
            BY <4>3, <5>1
          <6>1. i \in 1 .. n /\ u[i] = t[i] /\ t[i] \in 1 .. k
            <7> HIDE DEF R
            <7> QED
              BY <3>1, <4>2, <6>0
          <6>2. CASE j = n + 1
            BY <4>3, <6>1, <6>2
          <6>3. CASE j # n + 1
            <7>1. j \in 1 .. n /\ u[j] = t[j]
              BY <4>3, <6>3
            <7> QED
              BY <4>2, <5>1, <6>1, <7>1 DEF Ascends
          <6> QED
            BY <6>2, <6>3
        <5> QED
          BY <5>1 DEF Ascends
      <4>6. T = {u[i] : i \in 1 .. (n + 1)}
        <5>1. ASSUME NEW x \in T PROVE \E i \in 1 .. (n + 1) : x = u[i]
          <6>1. CASE x = k + 1
            BY <4>3, <6>1
          <6>2. CASE x # k + 1
            <7>1. PICK i \in 1 .. n : x = t[i]
              BY <4>2, <5>1, <6>2
            <7>2. i \in 1 .. (n + 1) /\ x = u[i]
              BY <4>3, <7>1
            <7> QED
              BY <7>2
          <6> QED
            BY <6>1, <6>2
        <5>2. \A i \in 1 .. (n + 1) : u[i] \in T
          BY <4>4
        <5> QED
          BY <5>1, <5>2
      <4>7. Lists(u, n + 1, T)
        BY <4>4, <4>5, <4>6 DEF Lists
      <4>8. n + 1 \in Nat
        OBVIOUS
      <4> QED
        BY <4>7, <4>8
    <3> HIDE DEF Listed
    <3> QED
      BY <3>3, <3>4
  <2> QED
    BY <2>1
<1> HIDE DEF U, Listed
<1>3. m \in U
  BY <1>1, <1>2, Induction
<1>4. Listed(S)
  BY <1>3 DEF U
<1> QED
  BY <1>4 DEF Listed

\* So InOrder lists any such set.
LEMMA InOrderAscends ==
    ASSUME NEW m \in Nat, NEW S \in SUBSET (1 .. m)
    PROVE  \E n \in Nat : InOrder(S) \in [1 .. n -> S] /\ Ascends(InOrder(S), n)
<1>1. PICK n \in Nat : \E t : Lists(t, n, S)
  BY ListExists
<1>2. PICK t : Lists(t, n, S)
  BY <1>1
<1>3. t \in [1 .. n -> S] /\ Ascends(t, n) /\ S = {t[i] : i \in 1 .. n}
  BY <1>2 DEF Lists
<1>4. t \in [1 .. n -> Nat]
  <2>1. \A x \in S : x \in Nat
    OBVIOUS
  <2> QED
    BY <1>3, <2>1
<1>5. InOrder(S) = t
  BY <1>3, <1>4, InOrderIs
<1> QED
  BY <1>3, <1>5

-----------------------------------------------------------------------------
(* More about sequences. *)

\* Induction on sequences, for the set of those of which something holds.
LEMMA SequenceInduction ==
    ASSUME NEW D, NEW S, <<>> \in S, \A s \in Seq(D) : \A e \in D : s \in S => Append(s, e) \in S
    PROVE  \A s \in Seq(D) : s \in S
<1> DEFINE T == {n \in Nat : \A s \in Seq(D) : Len(s) = n => s \in S}
<1>1. 0 \in T
  <2>1. \A s \in Seq(D) : Len(s) = 0 => s = <<>>
    BY EmptySeq
  <2> QED
    BY <2>1
<1>2. ASSUME NEW n \in Nat, n \in T PROVE n + 1 \in T
  <2> SUFFICES ASSUME NEW s \in Seq(D), Len(s) = n + 1 PROVE s \in S
    OBVIOUS
  <2>1. s # <<>>
    BY EmptySeq
  <2>2. PICK u \in Seq(D), x \in D : s = Append(u, x)
    BY <2>1, SequenceEmptyOrAppend
  <2>3. Len(u) \in Nat /\ Len(s) = Len(u) + 1
    BY <2>2, AppendProperties, LenProperties
  <2>4. u \in S
    BY <1>2, <2>3
  <2> QED
    BY <2>2, <2>4
<1> HIDE DEF T
<1>3. \A n \in Nat : n \in T
  BY <1>1, <1>2, Induction
<1>4. ASSUME NEW s \in Seq(D) PROVE s \in S
  <2>1. Len(s) \in Nat /\ Len(s) \in T
    BY <1>3, LenProperties
  <2> QED
    BY <2>1 DEF T
<1> QED
  BY <1>4

\* A list of one more member.
LEMMA AppendMember ==
    ASSUME NEW D, NEW n \in Nat, NEW f, \A i \in 1 .. (n + 1) : f[i] \in D
    PROVE  /\ [i \in 1 .. n |-> f[i]] \in Seq(D)
           /\ [i \in 1 .. (n + 1) |-> f[i]] = Append([i \in 1 .. n |-> f[i]], f[n + 1])
<1> DEFINE s == [i \in 1 .. n |-> f[i]]
           t == [i \in 1 .. (n + 1) |-> f[i]]
           u == Append(s, f[n + 1])
<1>1. s \in Seq(D) /\ Len(s) = n /\ t \in Seq(D) /\ Len(t) = n + 1 /\ f[n + 1] \in D
  OBVIOUS
<1>2. /\ \A i \in 1 .. n : s[i] = f[i]
      /\ \A i \in 1 .. (n + 1) : t[i] = f[i]
  OBVIOUS
<1> HIDE DEF s, t, u
<1>3. /\ u \in Seq(D) /\ Len(u) = n + 1 /\ u[n + 1] = f[n + 1]
      /\ \A i \in 1 .. n : u[i] = s[i]
  BY <1>1, AppendProperties DEF u
<1>4. \A i \in 1 .. (n + 1) : i \in 1 .. n \/ i = n + 1
  OBVIOUS
<1>5. \A i \in 1 .. (n + 1) : t[i] = u[i]
  BY <1>2, <1>3, <1>4
<1>6. t = u
  BY <1>1, <1>3, <1>5, SeqEqual
<1> QED
  BY <1>1, <1>6 DEF s, t, u

\* Flattening, from left to right.
LEMMA FlattenNothing == FlattenSeq(<<>>) = <<>>
<1>1. <<>> \in Seq(Seq({})) /\ Len(<<>>) = 0
  OBVIOUS
<1>2. PICK g \in [0 .. Len(<<>>) -> Seq({})] : Flattens(g, <<>>) /\ FlattenSeq(<<>>) = g[Len(<<>>)]
  BY <1>1, FlattenPrefixes
<1> QED
  BY <1>1, <1>2 DEF Flattens

\* The flattening of one sequence more.
LEMMA FlattenAppend ==
    ASSUME NEW D, NEW ss \in Seq(Seq(D)), NEW s \in Seq(D)
    PROVE  /\ FlattenSeq(ss) \in Seq(D)
           /\ FlattenSeq(Append(ss, s)) = FlattenSeq(ss) \o s
<1> DEFINE L == Len(ss)
           tt == Append(ss, s)
<1>1. L \in Nat
  BY LenProperties
<1>2. tt \in Seq(Seq(D)) /\ Len(tt) = L + 1 /\ tt[L + 1] = s /\ \A i \in 1 .. L : tt[i] = ss[i]
  BY AppendProperties
<1>3. PICK g \in [0 .. L -> Seq(D)] : Flattens(g, ss) /\ FlattenSeq(ss) = g[L]
  BY FlattenPrefixes
<1> HIDE DEF tt
<1>4. PICK h \in [0 .. Len(tt) -> Seq(D)] : Flattens(h, tt) /\ FlattenSeq(tt) = h[Len(tt)]
  BY <1>2, FlattenPrefixes
<1>5. g[0] = <<>> /\ \A i \in 1 .. L : g[i] = g[i - 1] \o ss[i]
  BY <1>3 DEF Flattens
<1>6. h[0] = <<>> /\ \A i \in 1 .. (L + 1) : h[i] = h[i - 1] \o tt[i]
  BY <1>2, <1>4 DEF Flattens
<1> HIDE DEF L
<1> DEFINE S == {n \in Nat : n <= L => g[n] = h[n]}
<1>7. 0 \in S
  BY <1>5, <1>6
<1>8. ASSUME NEW n \in Nat, n \in S PROVE n + 1 \in S
  <2> SUFFICES ASSUME n + 1 <= L PROVE g[n + 1] = h[n + 1]
    OBVIOUS
  <2>1. n + 1 \in 1 .. L /\ n + 1 \in 1 .. (L + 1) /\ (n + 1) - 1 = n /\ n <= L
    BY <1>1
  <2>2. g[n + 1] = g[(n + 1) - 1] \o ss[n + 1] /\ h[n + 1] = h[(n + 1) - 1] \o tt[n + 1]
    BY <1>5, <1>6, <2>1
  <2>3. g[n] = h[n] /\ tt[n + 1] = ss[n + 1]
    BY <1>2, <1>8, <2>1
  <2> QED
    BY <2>1, <2>2, <2>3
<1> HIDE DEF S
<1>9. L \in S
  BY <1>1, <1>7, <1>8, Induction
<1>10. g[L] = h[L]
  BY <1>1, <1>9 DEF S
<1>11. h[L + 1] = h[L] \o s
  <2>1. L + 1 \in 1 .. (L + 1) /\ (L + 1) - 1 = L
    BY <1>1
  <2> QED
    BY <1>2, <1>6, <2>1
<1>12. g[L] \in Seq(D)
  <2>1. L \in 0 .. L
    BY <1>1
  <2> QED
    BY <1>3, <2>1
<1> QED
  BY <1>2, <1>3, <1>4, <1>10, <1>11, <1>12 DEF tt

-----------------------------------------------------------------------------
(* What the parser makes of single atoms. *)

State(ns, os, at) == [nodes |-> ns, open |-> os, at |-> at]
Elem(n, d, a, t) == [name |-> n, depth |-> d, attribute |-> a, text |-> t]

\* Closing an element changes the stack of open elements only.
LEMMA PoppedIs ==
    ASSUME NEW ns, NEW os, NEW at
    PROVE  Popped(State(ns, os, at)) = State(ns, Front(os), "content")
<1> DEFINE f == Front(os)
           p == State(ns, os, at)
<1>1. Popped(p) = [p EXCEPT !.open = f, !.at = "content"]
  BY DEF Popped, State
<1> HIDE DEF f
<1>2. [p EXCEPT !.open = f, !.at = "content"] = [[p EXCEPT !.open = f] EXCEPT !.at = "content"]
  BY DEF State
<1>3. [p EXCEPT !.open = f] = State(ns, f, at)
  BY DEF State
<1>4. [State(ns, f, at) EXCEPT !.at = "content"] = State(ns, f, "content")
  BY DEF State
<1> QED
  BY <1>1, <1>2, <1>3, <1>4 DEF f

\* The atoms of a tag change the stack of open elements and where the parser is.
LEMMA TagAtoms ==
    ASSUME NEW ns, NEW os
    PROVE  /\ \A n : ParseAtom(State(ns, os, "content"), Open(n))
                        = State(Append(ns, Elem(n, Len(os) + 1, <<>>, <<>>)),
                                Append(os, Len(ns) + 1), "name")
           /\ ParseAtom(State(ns, os, "name"), Attribute) = State(ns, os, "value")
           /\ ParseAtom(State(ns, os, "value"), Quote) = State(ns, os, "tag")
           /\ \A at \in {"name", "tag"} :
                 /\ ParseAtom(State(ns, os, at), Gt) = State(ns, os, "content")
                 /\ ParseAtom(State(ns, os, at), SlashGt) = State(ns, Front(os), "content")
           /\ ParseAtom(State(ns, os, "content"), Lt) = State(ns, os, "end tag")
           /\ \A n : os # <<>> /\ ns[Last(os)].name = n =>
                 ParseAtom(State(ns, os, "end tag"), Close(n)) = State(ns, Front(os), "content")
<1>1. \A at : /\ State(ns, os, at).nodes = ns
              /\ State(ns, os, at).open = os
              /\ State(ns, os, at).at = at
  BY DEF State
<1>2. \A at, b : [State(ns, os, at) EXCEPT !.at = b] = State(ns, os, b)
  BY DEF State
<1>3. \A at : Popped(State(ns, os, at)) = State(ns, Front(os), "content")
  BY PoppedIs
<1>4. \A n : ParseAtom(State(ns, os, "content"), Open(n))
                = State(Append(ns, Elem(n, Len(os) + 1, <<>>, <<>>)), Append(os, Len(ns) + 1), "name")
  <2> TAKE n
  <2> HIDE DEF State
  <2>1. ParseAtom(State(ns, os, "content"), Open(n)) = Pushed(State(ns, os, "content"), n)
    BY <1>1 DEF ParseAtom, Open, AtomOf
  <2> QED
    BY <1>1, <2>1 DEF Pushed, Elem, State
<1>5. ParseAtom(State(ns, os, "name"), Attribute) = State(ns, os, "value")
  BY <1>1, <1>2 DEF ParseAtom, Reaches, Attribute, AtomOf
<1>6. ParseAtom(State(ns, os, "value"), Quote) = State(ns, os, "tag")
  BY <1>1, <1>2 DEF ParseAtom, Reaches, Quote, AtomOf
<1>7. \A at \in {"name", "tag"} : ParseAtom(State(ns, os, at), Gt) = State(ns, os, "content")
  BY <1>1, <1>2 DEF ParseAtom, Reaches, Gt, AtomOf
<1>8. \A at \in {"name", "tag"} :
         ParseAtom(State(ns, os, at), SlashGt) = State(ns, Front(os), "content")
  BY <1>1, <1>3 DEF ParseAtom, SlashGt, AtomOf
<1>9. ParseAtom(State(ns, os, "content"), Lt) = State(ns, os, "end tag")
  BY <1>1, <1>2 DEF ParseAtom, Reaches, Lt, AtomOf
<1>10. ASSUME NEW n, os # <<>>, ns[Last(os)].name = n
       PROVE  ParseAtom(State(ns, os, "end tag"), Close(n)) = State(ns, Front(os), "content")
  <2>1. ClosesCursor(State(ns, os, "end tag"), n)
    BY <1>1, <1>10 DEF ClosesCursor, Cursor
  <2> QED
    BY <1>1, <1>3, <2>1 DEF ParseAtom, Close, AtomOf
<1> QED
  BY <1>4, <1>5, <1>6, <1>7, <1>8, <1>9, <1>10

\* The end of a sequence.
LEMMA EndOfAppend ==
    ASSUME NEW D, NEW o \in Seq(D), NEW e \in D
    PROVE  Append(o, e) # <<>> /\ Last(Append(o, e)) = e /\ Front(Append(o, e)) = o
<1> DEFINE t == Append(o, e)
           m == Len(o)
<1>1. m \in Nat
  BY LenProperties
<1>2. t \in Seq(D) /\ t # <<>> /\ Len(t) = m + 1 /\ t[m + 1] = e /\ \A i \in 1 .. m : t[i] = o[i]
  BY AppendProperties
<1> HIDE DEF t
<1>3. Last(t) = e
  BY <1>2 DEF Last
<1>4. Front(t) = SubSeq(t, 1, m)
  BY <1>1, <1>2 DEF Front
<1>5. SubSeq(t, 1, m) = o
  <2>1. \A i \in 1 .. m : t[i] \in D
    BY <1>2, LenProperties
  <2> DEFINE u == SubSeq(t, 1, m)
  <2>2. /\ u \in Seq(D)
        /\ Len(u) = IF 1 <= m THEN m - 1 + 1 ELSE 0
        /\ \A i \in 1 .. m - 1 + 1 : u[i] = t[1 + i - 1]
    <3> HIDE DEF m
    <3> QED
      BY <1>1, <2>1, SubSeqProperties
  <2>3. \A i \in 1 .. m : i \in 1 .. m - 1 + 1 /\ 1 + i - 1 = i
    BY <1>1
  <2> HIDE DEF u, m
  <2>4. Len(u) = m /\ \A i \in 1 .. m : u[i] = o[i]
    BY <1>1, <1>2, <2>2, <2>3
  <2>5. Len(o) = m
    BY DEF m
  <2>6. u = o
    BY <2>2, <2>4, <2>5, SeqEqual
  <2> QED
    BY <2>6 DEF u
<1> QED
  BY <1>2, <1>3, <1>4, <1>5 DEF t

\* Replacing the last member.
LEMMA ReplaceLast ==
    ASSUME NEW D, NEW ns \in Seq(D), NEW x \in D, NEW y \in D
    PROVE  [Append(ns, x) EXCEPT ![Len(ns) + 1] = y] = Append(ns, y)
<1> DEFINE s == Append(ns, x)
           t == Append(ns, y)
           m == Len(ns)
           u == [s EXCEPT ![m + 1] = y]
<1>1. m \in Nat
  BY LenProperties
<1>2. /\ s \in Seq(D) /\ Len(s) = m + 1 /\ \A i \in 1 .. m : s[i] = ns[i]
      /\ t \in Seq(D) /\ Len(t) = m + 1 /\ t[m + 1] = y /\ \A i \in 1 .. m : t[i] = ns[i]
  BY AppendProperties
<1> HIDE DEF s, t, m
<1>3. /\ u \in Seq(D) /\ Len(u) = m + 1
      /\ \A j \in 1 .. (m + 1) : u[j] = IF j = m + 1 THEN y ELSE s[j]
  <2>1. m + 1 \in 1 .. Len(s)
    BY <1>1, <1>2
  <2> QED
    BY <1>2, <2>1, ExceptSeq
<1> HIDE DEF u
<1>4. \A j \in 1 .. (m + 1) : j = m + 1 \/ j \in 1 .. m
  BY <1>1
<1>5. \A j \in 1 .. (m + 1) : u[j] = t[j]
  BY <1>2, <1>3, <1>4
<1>6. u = t
  BY <1>2, <1>3, <1>5, SeqEqual
<1> QED
  BY <1>6 DEF s, t, m, u

\* A piece of data goes to the value the parser is in, of the innermost element.
LEMMA DataAtoms ==
    ASSUME NEW D, NEW ns \in Seq(D), NEW O, NEW o \in Seq(O), Len(ns) + 1 \in O,
           NEW n, NEW d, NEW a, NEW t, NEW x, NEW c \in {Text(x), Entity(x)},
           Elem(n, d, a, t) \in D
    PROVE  LET os == Append(o, Len(ns) + 1)
               Nodes(b, u) == Append(ns, Elem(n, d, b, u))
           IN  /\ Elem(n, d, Append(a, x), t) \in D =>
                     ParseAtom(State(Nodes(a, t), os, "value"), c)
                         = State(Nodes(Append(a, x), t), os, "value")
               /\ Elem(n, d, a, Append(t, x)) \in D =>
                     ParseAtom(State(Nodes(a, t), os, "content"), c)
                         = State(Nodes(a, Append(t, x)), os, "content")
<1> DEFINE k == Len(ns) + 1
           os == Append(o, k)
           e == Elem(n, d, a, t)
           ms == Append(ns, e)
<1>1. PieceOf(c) = x /\ c.kind \notin {"quote", "attribute", "open", "lt"}
  BY DEF PieceOf, IsData, Text, Entity, AtomOf
<1>2. os # <<>> /\ Last(os) = k
  BY EndOfAppend
<1>3. ms[k] = e
  BY AppendProperties
<1>4. \A at : /\ State(ms, os, at).nodes = ms
              /\ State(ms, os, at).open = os
              /\ State(ms, os, at).at = at
  BY DEF State
<1>5. \A at : Cursor(State(ms, os, at)) = k
  BY <1>2, <1>4 DEF Cursor
<1>6. \A at, y : y \in D =>
         [State(ms, os, at) EXCEPT !.nodes = [ms EXCEPT ![k] = y]] = State(Append(ns, y), os, at)
  <2> SUFFICES ASSUME NEW at, NEW y \in D
               PROVE  [State(ms, os, at) EXCEPT !.nodes = [ms EXCEPT ![k] = y]]
                          = State(Append(ns, y), os, at)
    OBVIOUS
  <2>1. [ms EXCEPT ![k] = y] = Append(ns, y)
    BY ReplaceLast
  <2>2. \A z, w : [State(z, os, at) EXCEPT !.nodes = w] = State(w, os, at)
    <3> HIDE DEF os
    <3> QED
      BY DEF State
  <2> HIDE DEF ms, os, k
  <2> QED
    BY <2>1, <2>2
<1>7. /\ [e EXCEPT !.attribute = Append(@, x)] = Elem(n, d, Append(a, x), t)
      /\ [e EXCEPT !.text = Append(@, x)] = Elem(n, d, a, Append(t, x))
  <2>1. \A w : /\ [e EXCEPT !.attribute = w] = Elem(n, d, w, t)
               /\ [e EXCEPT !.text = w] = Elem(n, d, a, w)
    BY DEF Elem
  <2>2. e.attribute = a /\ e.text = t
    BY DEF Elem
  <2> HIDE DEF e
  <2> QED
    BY <2>1, <2>2
<1> HIDE DEF e, k, os
<1>8. ASSUME Elem(n, d, Append(a, x), t) \in D
      PROVE  ParseAtom(State(ms, os, "value"), c)
                = State(Append(ns, Elem(n, d, Append(a, x), t)), os, "value")
  <2> DEFINE p == State(ms, os, "value")
  <2>1. p.at = "value" /\ p.nodes = ms /\ Cursor(p) = k
    BY <1>4, <1>5
  <2>2. [p EXCEPT !.nodes[k].attribute = Append(@, x)]
           = [p EXCEPT !.nodes = [ms EXCEPT ![k] = [e EXCEPT !.attribute = Append(@, x)]]]
    <3> HIDE DEF ms
    <3>1. p.nodes[k] = e
      BY <1>3, <2>1
    <3> QED
      BY <1>3, <2>1, <3>1
  <2> HIDE DEF p, ms
  <2>3. ParseAtom(p, c) = [p EXCEPT !.nodes[k].attribute = Append(@, x)]
    BY <1>1, <2>1 DEF ParseAtom, WithAttribute
  <2> QED
    BY <1>6, <1>7, <1>8, <2>2, <2>3 DEF p
<1>9. ASSUME Elem(n, d, a, Append(t, x)) \in D
      PROVE  ParseAtom(State(ms, os, "content"), c)
                = State(Append(ns, Elem(n, d, a, Append(t, x))), os, "content")
  <2> DEFINE p == State(ms, os, "content")
  <2>1. p.at = "content" /\ p.nodes = ms /\ Cursor(p) = k /\ p.open # <<>>
    BY <1>2, <1>4, <1>5
  <2>2. [p EXCEPT !.nodes[k].text = Append(@, x)]
           = [p EXCEPT !.nodes = [ms EXCEPT ![k] = [e EXCEPT !.text = Append(@, x)]]]
    <3> HIDE DEF ms
    <3>1. p.nodes[k] = e
      BY <1>3, <2>1
    <3> QED
      BY <1>3, <2>1, <3>1
  <2> HIDE DEF p, ms
  <2>3. ParseAtom(p, c) = [p EXCEPT !.nodes[Cursor(p)].text = Append(@, x)]
    BY <1>1, <2>1 DEF ParseAtom, WithText
  <2>4. ParseAtom(p, c) = [p EXCEPT !.nodes[k].text = Append(@, x)]
    BY <2>1, <2>3
  <2> QED
    BY <1>6, <1>7, <1>9, <2>2, <2>4 DEF p
<1> QED
  BY <1>8, <1>9 DEF e, ms, os, k

-----------------------------------------------------------------------------
(* What is printed of an element, read again. *)

DataOf(V) == {Text(x) : x \in V} \cup {Entity(x) : x \in V}

AtomsOver(N, V) ==
    {Open(n) : n \in N} \cup {Close(n) : n \in N} \cup {Attribute, Quote, Gt, SlashGt, Lt}
        \cup DataOf(V)

\* A piece is written as data, whether it needs an entity or not.
LEMMA EscapedAppend ==
    ASSUME NEW V, NEW v \in Seq(V), NEW x \in V
    PROVE  \E c \in {Text(x), Entity(x)} : Escaped(Append(v, x)) = Append(Escaped(v), c)
<1> DEFINE c == IF x \in Special THEN Entity(x) ELSE Text(x)
           w == Append(v, x)
           m == Len(v)
           s == Escaped(w)
           u == Append(Escaped(v), c)
<1>1. m \in Nat /\ DOMAIN v = 1 .. m /\ \A i \in 1 .. m : v[i] \in V
  BY LenProperties
<1>2. /\ w \in Seq(V) /\ Len(w) = m + 1 /\ w[m + 1] = x
      /\ \A i \in 1 .. m : w[i] = v[i]
  BY AppendProperties
<1>3. DOMAIN w = 1 .. (m + 1) /\ \A i \in 1 .. (m + 1) : w[i] \in V
  BY <1>2, LenProperties
<1> HIDE DEF w, m
<1>4. /\ Escaped(v) \in Seq(DataOf(V)) /\ Len(Escaped(v)) = m
      /\ \A i \in 1 .. m : Escaped(v)[i] = IF v[i] \in Special THEN Entity(v[i]) ELSE Text(v[i])
  <2>1. \A i \in 1 .. m : (IF v[i] \in Special THEN Entity(v[i]) ELSE Text(v[i])) \in DataOf(V)
    BY <1>1 DEF DataOf
  <2> QED
    BY <1>1, <2>1 DEF Escaped
<1>5. /\ s \in Seq(DataOf(V)) /\ Len(s) = m + 1
      /\ \A i \in 1 .. (m + 1) : s[i] = IF w[i] \in Special THEN Entity(w[i]) ELSE Text(w[i])
  <2>1. \A i \in 1 .. (m + 1) : (IF w[i] \in Special THEN Entity(w[i]) ELSE Text(w[i])) \in DataOf(V)
    BY <1>3 DEF DataOf
  <2>2. m + 1 \in Nat
    BY <1>1
  <2> QED
    BY <1>3, <2>1, <2>2 DEF Escaped
<1>6. c \in DataOf(V) /\ c \in {Text(x), Entity(x)}
  BY DEF DataOf
<1>7. s[m + 1] = c
  BY <1>1, <1>2, <1>5
<1> HIDE DEF c, s, u
<1>8. /\ u \in Seq(DataOf(V)) /\ Len(u) = m + 1 /\ u[m + 1] = c
      /\ \A i \in 1 .. m : u[i] = Escaped(v)[i]
  BY <1>4, <1>6, AppendProperties DEF u
<1>9. \A i \in 1 .. m : s[i] = u[i]
  BY <1>1, <1>2, <1>4, <1>5, <1>8
<1>10. \A i \in 1 .. (m + 1) : i \in 1 .. m \/ i = m + 1
  BY <1>1
<1>11. \A i \in 1 .. (m + 1) : s[i] = u[i]
  BY <1>7, <1>8, <1>9, <1>10
<1>12. s = u
  BY <1>5, <1>8, <1>11, SeqEqual
<1> QED
  BY <1>6, <1>12 DEF s, u, w

\* A value is written with one atom for each of its pieces.
LEMMA EscapedIs ==
    ASSUME NEW V, NEW v \in Seq(V)
    PROVE  Escaped(v) \in Seq(DataOf(V)) /\ Len(Escaped(v)) = Len(v)
<1>1. Len(v) \in Nat /\ DOMAIN v = 1 .. Len(v) /\ \A i \in 1 .. Len(v) : v[i] \in V
  BY LenProperties
<1>2. \A i \in 1 .. Len(v) : (IF v[i] \in Special THEN Entity(v[i]) ELSE Text(v[i])) \in DataOf(V)
  BY <1>1 DEF DataOf
<1> QED
  BY <1>1, <1>2 DEF Escaped

\* Nothing is written of nothing.
LEMMA EscapedNothing == Escaped(<<>>) = <<>>
<1>1. DOMAIN <<>> = {}
  OBVIOUS
<1> QED
  BY <1>1 DEF Escaped

\* A piece of data is read into the attribute of the element that is open
\* (strconv_attribute).
LEMMA ValueAtom ==
    ASSUME NEW D, NEW ns \in Seq(D), NEW O, NEW o \in Seq(O), Len(ns) + 1 \in O,
           NEW n, NEW d, NEW a, NEW t, NEW x, NEW c \in {Text(x), Entity(x)},
           Elem(n, d, a, t) \in D, Elem(n, d, Append(a, x), t) \in D
    PROVE  ParseAtom(State(Append(ns, Elem(n, d, a, t)), Append(o, Len(ns) + 1), "value"), c)
               = State(Append(ns, Elem(n, d, Append(a, x), t)), Append(o, Len(ns) + 1), "value")
BY DataAtoms

\* A value that was written is read as it was, be it of an attribute or a text.
LEMMA EscapedRead ==
    ASSUME NEW N, NEW V, NEW ns \in Seq(Node(N, V)), NEW o \in Seq(Nat),
           NEW n \in N, NEW d \in Nat
    PROVE  LET os == Append(o, Len(ns) + 1)
               Nodes(a, t) == Append(ns, Elem(n, d, a, t))
           IN  \A v \in Seq(V) :
                 /\ Leads(State(Nodes(<<>>, <<>>), os, "value"), Escaped(v),
                          State(Nodes(v, <<>>), os, "value"))
                 /\ \A a \in Seq(V) :
                       Leads(State(Nodes(a, <<>>), os, "content"), Escaped(v),
                             State(Nodes(a, v), os, "content"))
<1> DEFINE os == Append(o, Len(ns) + 1)
           Nodes(a, t) == Append(ns, Elem(n, d, a, t))
           InValue(v) == Leads(State(Nodes(<<>>, <<>>), os, "value"), Escaped(v),
                               State(Nodes(v, <<>>), os, "value"))
           InText(a, v) == Leads(State(Nodes(a, <<>>), os, "content"), Escaped(v),
                                 State(Nodes(a, v), os, "content"))
           S == {v \in Seq(V) : InValue(v) /\ \A a \in Seq(V) : InText(a, v)}
<1>1. Len(ns) + 1 \in Nat /\ <<>> \in Seq(V)
  BY LenProperties
<1>2. \A a, t \in Seq(V) : Elem(n, d, a, t) \in Node(N, V)
  BY DEF Elem, Node
<1>3. ASSUME NEW v \in Seq(V), NEW u \in Seq(V), NEW x \in V, NEW c \in {Text(x), Entity(x)},
             Append(v, x) \in Seq(V)
      PROVE  ParseAtom(State(Append(ns, Elem(n, d, v, u)), os, "value"), c)
                = State(Append(ns, Elem(n, d, Append(v, x), u)), os, "value")
  <2>1. Elem(n, d, v, u) \in Node(N, V) /\ Elem(n, d, Append(v, x), u) \in Node(N, V)
    BY <1>2, <1>3
  <2> QED
    BY <1>1, <2>1, ValueAtom
<1>4. <<>> \in S
  <2>1. InValue(<<>>) /\ \A a \in Seq(V) : InText(a, <<>>)
    <3> HIDE DEF os
    <3> QED
      BY EscapedNothing, LeadsNothing
  <2> HIDE DEF InValue, InText
  <2> QED
    BY <1>1, <2>1
<1>5. ASSUME NEW v \in Seq(V), NEW x \in V, v \in S PROVE Append(v, x) \in S
  <2>1. PICK c \in {Text(x), Entity(x)} : Escaped(Append(v, x)) = Append(Escaped(v), c)
    BY EscapedAppend
  <2>2. Escaped(v) \in Seq(DataOf(V)) /\ c \in DataOf(V) /\ Append(v, x) \in Seq(V)
    BY EscapedIs, AppendProperties DEF DataOf
  <2>3. InValue(Append(v, x))
    <3> DEFINE p == State(Nodes(<<>>, <<>>), os, "value")
               q == State(Nodes(v, <<>>), os, "value")
    <3>1. Leads(p, Escaped(v), q)
      BY <1>5
    <3>2. ParseAtom(q, c) = State(Nodes(Append(v, x), <<>>), os, "value")
      BY <1>1, <2>2, <1>3
    <3> HIDE DEF p, q
    <3>3. Leads(p, Append(Escaped(v), c), ParseAtom(q, c))
      BY <2>2, <3>1, LeadsAtom
    <3> QED
      BY <2>1, <3>2, <3>3 DEF p
  <2>4. ASSUME NEW a \in Seq(V) PROVE InText(a, Append(v, x))
    <3> DEFINE p == State(Nodes(a, <<>>), os, "content")
               q == State(Nodes(a, v), os, "content")
    <3>1. Leads(p, Escaped(v), q)
      BY <1>5
    <3>2. ParseAtom(q, c) = State(Nodes(a, Append(v, x)), os, "content")
      <4>1. Elem(n, d, a, v) \in Node(N, V) /\ Elem(n, d, a, Append(v, x)) \in Node(N, V)
        BY <1>2, <2>2
      <4> QED
        BY <1>1, <4>1, DataAtoms
    <3> HIDE DEF p, q
    <3>3. Leads(p, Append(Escaped(v), c), ParseAtom(q, c))
      BY <2>2, <3>1, LeadsAtom
    <3> QED
      BY <2>1, <3>2, <3>3 DEF p
  <2> HIDE DEF InValue, InText
  <2> QED
    BY <2>2, <2>3, <2>4
<1> HIDE DEF S
<1>6. \A v \in Seq(V) : v \in S
  BY <1>4, <1>5, SequenceInduction
<1>7. \A v \in Seq(V) : InValue(v) /\ \A a \in Seq(V) : InText(a, v)
  <2> HIDE DEF InValue, InText
  <2> QED
    BY <1>6 DEF S
<1> QED
  BY <1>7

\* One atom.
LEMMA LeadsOne == ASSUME NEW p, NEW a PROVE Leads(p, <<a>>, ParseAtom(p, a))
<1> DEFINE D == {a}
<1>1. <<>> \in Seq(D) /\ a \in D /\ Leads(p, <<>>, p) /\ Append(<<>>, a) = <<a>>
  BY LeadsNothing
<1> HIDE DEF D
<1> QED
  BY <1>1, LeadsAtom

\* The atoms of a tag are atoms.
LEMMA TagAtomsAre ==
    ASSUME NEW N, NEW V
    PROVE  /\ \A n \in N : Open(n) \in AtomsOver(N, V) /\ Close(n) \in AtomsOver(N, V)
           /\ {Attribute, Quote, Gt, SlashGt, Lt} \subseteq AtomsOver(N, V)
           /\ DataOf(V) \subseteq AtomsOver(N, V)
BY DEF AtomsOver

\* The start tag of an element, and its text, make a new element of the tree.
LEMMA StartTagPrinted ==
    ASSUME NEW N, NEW V, NEW ns \in Seq(Node(N, V)), NEW o \in Seq(Nat),
           NEW ts, NEW k, ts[k] \in Node(N, V)
    PROVE  /\ StartTag(ts, k) \in Seq(AtomsOver(N, V))
           /\ Leads(State(ns, o, "content"), StartTag(ts, k),
                    State(Append(ns, Elem(ts[k].name, Len(o) + 1, ts[k].attribute, ts[k].text)),
                          IF IsEmpty(ts, k) THEN o ELSE Append(o, Len(ns) + 1), "content"))
<1> DEFINE A == AtomsOver(N, V)
           n == ts[k].name
           value == ts[k].attribute
           t == ts[k].text
           d == Len(o) + 1
           os == Append(o, Len(ns) + 1)
           NodesWith(b, u) == Append(ns, Elem(n, d, b, u))
           first == <<Open(n)>>
           second == IF value = <<>> THEN <<>> ELSE <<Attribute>> \o Escaped(value) \o <<Quote>>
           third == IF IsEmpty(ts, k) THEN <<SlashGt>> ELSE <<Gt>> \o Escaped(t)
           p0 == State(ns, o, "content")
           p1 == State(NodesWith(<<>>, <<>>), os, "name")
           place == IF value = <<>> THEN "name" ELSE "tag"
           p2 == State(NodesWith(value, <<>>), os, place)
           p3 == State(NodesWith(value, t), IF IsEmpty(ts, k) THEN o ELSE os, "content")
<1>1. n \in N /\ value \in Seq(V) /\ t \in Seq(V) /\ d \in Nat /\ <<>> \in Seq(V)
  BY LenProperties DEF Node
<1>2. Len(ns) + 1 \in Nat
  BY LenProperties
<1>3. /\ \A v \in Seq(V) : Escaped(v) \in Seq(A)
      /\ first \in Seq(A) /\ <<Attribute>> \in Seq(A) /\ <<Quote>> \in Seq(A)
      /\ <<SlashGt>> \in Seq(A) /\ <<Gt>> \in Seq(A)
  <2>1. Open(n) \in A /\ {Attribute, Quote, Gt, SlashGt, Lt} \subseteq A /\ DataOf(V) \subseteq A
    BY <1>1, TagAtomsAre
  <2>2. \A v \in Seq(V) : Escaped(v) \in Seq(DataOf(V))
    BY EscapedIs
  <2>3. \A a : a \in A => <<a>> \in Seq(A)
    OBVIOUS
  <2> HIDE DEF A
  <2>4. \A v \in Seq(V) : Escaped(v) \in Seq(A)
    BY <2>1, <2>2, SeqMonotonic
  <2> QED
    BY <2>1, <2>3, <2>4
<1>4. Leads(p0, first, p1)
  <2>1. ParseAtom(p0, Open(n)) = p1
    BY TagAtoms
  <2> HIDE DEF p0, p1
  <2> QED
    BY <2>1, LeadsOne
<1>5. second \in Seq(A) /\ Leads(p1, second, p2)
  <2>1. CASE value = <<>>
    <3>1. p2 = p1 /\ second = <<>>
      BY <2>1
    <3>2. <<>> \in Seq(A)
      OBVIOUS
    <3> HIDE DEF p1, p2, second, A
    <3> QED
      BY <3>1, <3>2, LeadsNothing
  <2>2. CASE value # <<>>
    <3> DEFINE q1 == State(NodesWith(<<>>, <<>>), os, "value")
               q2 == State(NodesWith(value, <<>>), os, "value")
    <3>1. Leads(p1, <<Attribute>>, q1)
      <4>1. ParseAtom(p1, Attribute) = q1
        BY TagAtoms
      <4> HIDE DEF p1, q1
      <4> QED
        BY <4>1, LeadsOne
    <3>2. Leads(q1, Escaped(value), q2)
      BY <1>1, EscapedRead
    <3>3. Leads(q2, <<Quote>>, p2)
      <4>1. ParseAtom(q2, Quote) = p2
        BY <2>2, TagAtoms
      <4> HIDE DEF p2, q2
      <4> QED
        BY <4>1, LeadsOne
    <3> HIDE DEF p1, p2, q1, q2, A, value
    <3>4. /\ <<Attribute>> \o Escaped(value) \in Seq(A)
          /\ Leads(p1, <<Attribute>> \o Escaped(value), q2)
      BY <1>1, <1>3, <3>1, <3>2, LeadsOn, ConcatProperties
    <3>5. /\ <<Attribute>> \o Escaped(value) \o <<Quote>> \in Seq(A)
          /\ Leads(p1, <<Attribute>> \o Escaped(value) \o <<Quote>>, p2)
      BY <1>3, <3>3, <3>4, LeadsOn, ConcatProperties
    <3> QED
      BY <2>2, <3>5
  <2> QED
    BY <2>1, <2>2
<1>6. third \in Seq(A) /\ Leads(p2, third, p3)
  <2>1. CASE IsEmpty(ts, k)
    <3>1. t = <<>> /\ third = <<SlashGt>>
      BY <2>1 DEF IsEmpty
    <3>2. Front(os) = o
      BY <1>2, EndOfAppend
    <3>3. ParseAtom(p2, SlashGt) = State(NodesWith(value, <<>>), Front(os), "content")
      <4>1. place \in {"name", "tag"}
        OBVIOUS
      <4> HIDE DEF place
      <4> QED
        BY <4>1, TagAtoms
    <3>4. ParseAtom(p2, SlashGt) = p3
      BY <2>1, <3>1, <3>2, <3>3
    <3> HIDE DEF p2, p3
    <3> QED
      BY <1>3, <3>1, <3>4, LeadsOne
  <2>2. CASE ~IsEmpty(ts, k)
    <3> DEFINE q == State(NodesWith(value, <<>>), os, "content")
    <3>1. ParseAtom(p2, Gt) = q
      <4>1. place \in {"name", "tag"}
        OBVIOUS
      <4> HIDE DEF place
      <4> QED
        BY <4>1, TagAtoms
    <3>2. Leads(q, Escaped(t), p3)
      <4>1. p3 = State(NodesWith(value, t), os, "content")
        BY <2>2
      <4> HIDE DEF p3
      <4> QED
        BY <1>1, <4>1, EscapedRead
    <3> HIDE DEF p2, p3, q, A, t
    <3>3. Leads(p2, <<Gt>>, q)
      BY <3>1, LeadsOne
    <3>4. /\ <<Gt>> \o Escaped(t) \in Seq(A)
          /\ Leads(p2, <<Gt>> \o Escaped(t), p3)
      BY <1>1, <1>3, <3>2, <3>3, LeadsOn, ConcatProperties
    <3> QED
      BY <2>2, <3>4
  <2> QED
    BY <2>1, <2>2
<1>7. StartTag(ts, k) = (first \o second) \o third
  BY DEF StartTag
<1> HIDE DEF p0, p1, p2, p3, first, second, third, A
<1>8. first \o second \in Seq(A) /\ Leads(p0, first \o second, p2)
  BY <1>3, <1>4, <1>5, LeadsOn, ConcatProperties
<1>9. (first \o second) \o third \in Seq(A) /\ Leads(p0, (first \o second) \o third, p3)
  BY <1>6, <1>8, LeadsOn, ConcatProperties
<1> QED
  BY <1>7, <1>9 DEF p0, p3, A

-----------------------------------------------------------------------------
(* A tree is printed and read again. *)

\* One element at depth d and what is below it.
IsTree(ts, d) ==
    /\ ts # <<>> /\ ts[1].depth = d
    /\ \A k \in 2 .. Len(ts) : ts[k].depth > d /\ ts[k].depth <= ts[k - 1].depth + 1

\* Element j is the last at its depth among the first k.
IsLastAt(ts, k, e, j) ==
    j \in 1 .. k /\ ts[j].depth = e /\ \A i \in j + 1 .. k : ts[i].depth # e

\* It is the one that is found.
LEMMA LastAtIs ==
    ASSUME NEW ts, NEW k \in Nat, NEW e, NEW j, IsLastAt(ts, k, e, j)
    PROVE  LastAt(ts, k, e) = j
<1>1. \A l \in 1 .. k : ts[l].depth = e /\ (\A i \in l + 1 .. k : ts[i].depth # e) => l = j
  <2> SUFFICES ASSUME NEW l \in 1 .. k, ts[l].depth = e, \A i \in l + 1 .. k : ts[i].depth # e
               PROVE  l = j
    OBVIOUS
  <2>1. ~(l < j)
    BY DEF IsLastAt
  <2>2. ~(j < l)
    BY DEF IsLastAt
  <2>3. j \in Nat /\ l \in Nat
    BY DEF IsLastAt
  <2> QED
    BY <2>1, <2>2, <2>3
<1>2. j \in 1 .. k /\ ts[j].depth = e /\ \A i \in j + 1 .. k : ts[i].depth # e
  BY DEF IsLastAt
<1> QED
  BY <1>1, <1>2 DEF LastAt

\* At every depth from the root's to its own, an element has one around it.
LEMMA LastAtExists ==
    ASSUME NEW N, NEW V, NEW ts \in Seq(Node(N, V)), NEW d \in Nat, IsTree(ts, d),
           NEW k \in 1 .. Len(ts), NEW e \in d .. ts[k].depth
    PROVE  IsLastAt(ts, k, e, LastAt(ts, k, e))
<1> DEFINE L == Len(ts)
           Exists(m) == \A c \in d .. ts[m].depth : \E j : IsLastAt(ts, m, c, j)
           S == {m \in Nat : m + 1 <= L => Exists(m + 1)}
<1>1. L \in Nat /\ \A i \in 1 .. L : ts[i].depth \in Nat
  <2>1. \A i \in 1 .. L : ts[i] \in Node(N, V)
    BY LenProperties
  <2> QED
    BY <2>1, LenProperties DEF Node
<1>2. /\ ts[1].depth = d
      /\ \A i \in 2 .. L : ts[i].depth > d /\ ts[i].depth <= ts[i - 1].depth + 1
  BY DEF IsTree
<1> HIDE DEF L
<1>3. 0 \in S
  <2>1. ASSUME NEW c \in d .. ts[1].depth PROVE IsLastAt(ts, 1, c, 1)
    BY <1>2 DEF IsLastAt
  <2>2. Exists(1)
    BY <2>1
  <2>3. 0 + 1 = 1
    OBVIOUS
  <2> HIDE DEF Exists
  <2> QED
    BY <2>2, <2>3
<1>4. ASSUME NEW m \in Nat, m \in S PROVE m + 1 \in S
  <2> DEFINE a == m + 1
             b == (m + 1) + 1
  <2> SUFFICES ASSUME b <= L PROVE Exists(b)
    OBVIOUS
  <2>1. a \in 1 .. L /\ b \in 2 .. L /\ b - 1 = a /\ a \in Nat /\ b \in Nat /\ b = a + 1
    BY <1>1
  <2>2. Exists(a)
    BY <1>4, <2>1
  <2> HIDE DEF a, b
  <2>3. ts[b].depth <= ts[a].depth + 1 /\ ts[a].depth \in Nat /\ ts[b].depth \in Nat
    BY <1>1, <1>2, <2>1
  <2> SUFFICES ASSUME NEW c \in d .. ts[b].depth PROVE \E j : IsLastAt(ts, b, c, j)
    OBVIOUS
  <2>4. CASE c = ts[b].depth
    <3>1. IsLastAt(ts, b, c, b)
      BY <2>1, <2>4 DEF IsLastAt
    <3> QED
      BY <3>1
  <2>5. CASE c # ts[b].depth
    <3>1. c \in d .. ts[a].depth
      BY <2>3, <2>5
    <3>2. PICK j : IsLastAt(ts, a, c, j)
      BY <2>2, <3>1
    <3>3. \A i \in j + 1 .. b : i \in j + 1 .. a \/ i = b
      BY <2>1, <3>2 DEF IsLastAt
    <3>4. IsLastAt(ts, b, c, j)
      BY <2>1, <2>5, <3>2, <3>3 DEF IsLastAt
    <3> QED
      BY <3>4
  <2> QED
    BY <2>4, <2>5
<1> HIDE DEF S
<1>5. k - 1 \in Nat /\ (k - 1) + 1 = k /\ k <= L
  BY DEF L
<1>6. k - 1 \in S
  BY <1>3, <1>4, <1>5, Induction
<1>7. Exists(k)
  BY <1>5, <1>6 DEF S
<1>8. PICK j : IsLastAt(ts, k, e, j)
  BY <1>7
<1>9. k \in Nat
  OBVIOUS
<1> QED
  BY <1>8, <1>9, LastAtIs

\* The elements that are open at depth e: those around the last of the first k.
Path(ts, k, d, e) == [j \in 1 .. (e - d) |-> LastAt(ts, k, d + j - 1)]

\* The next element is within those around the last but the deepest of them.
LEMMA PathOfNext ==
    ASSUME NEW N, NEW V, NEW ts \in Seq(Node(N, V)), NEW d \in Nat, IsTree(ts, d),
           NEW k \in 1 .. (Len(ts) - 1)
    PROVE  Path(ts, k + 1, d, ts[k + 1].depth) = Path(ts, k, d, ts[k + 1].depth)
<1> DEFINE b == k + 1
           e == ts[b].depth
<1>1. /\ Len(ts) \in Nat /\ k \in 1 .. Len(ts) /\ b \in 2 .. Len(ts) /\ b - 1 = k
      /\ k \in Nat /\ b \in Nat
  BY LenProperties
<1>2. \A i \in 1 .. Len(ts) : ts[i].depth \in Nat
  <2>1. \A i \in 1 .. Len(ts) : ts[i] \in Node(N, V)
    BY LenProperties
  <2> QED
    BY <2>1 DEF Node
<1>3. e \in Nat /\ ts[k].depth \in Nat /\ e <= ts[k].depth + 1
  BY <1>1, <1>2 DEF IsTree
<1>4. ASSUME NEW j \in 1 .. (e - d)
      PROVE  LastAt(ts, b, d + j - 1) = LastAt(ts, k, d + j - 1)
  <2> DEFINE c == d + j - 1
             l == LastAt(ts, k, c)
  <2>1. c \in d .. ts[k].depth /\ c # e
    <3> HIDE DEF e
    <3>1. c \in Nat /\ d <= c /\ c <= e - 1
      BY <1>3, <1>4
    <3> QED
      BY <1>3, <3>1
  <2>2. IsLastAt(ts, k, c, l)
    <3> HIDE DEF c
    <3> QED
      BY <1>1, <2>1, LastAtExists
  <2> HIDE DEF c, l
  <2>3. \A i \in l + 1 .. b : i \in l + 1 .. k \/ i = b
    BY <1>1, <2>2 DEF IsLastAt
  <2>4. IsLastAt(ts, b, c, l)
    BY <1>1, <2>1, <2>2, <2>3 DEF IsLastAt
  <2>5. LastAt(ts, b, c) = l
    <3> HIDE DEF b
    <3> QED
      BY <1>1, <2>4, LastAtIs
  <2> QED
    BY <2>5 DEF c, l
<1> QED
  BY <1>4 DEF Path

\* A path one element longer.
LEMMA PathGrows ==
    ASSUME NEW N, NEW V, NEW ts \in Seq(Node(N, V)), NEW d \in Nat, IsTree(ts, d),
           NEW k \in 1 .. Len(ts), NEW e \in d .. ts[k].depth
    PROVE  /\ Path(ts, k, d, e) \in Seq(Nat)
           /\ Len(Path(ts, k, d, e)) = e - d
           /\ LastAt(ts, k, e) \in 1 .. k
           /\ Path(ts, k, d, e + 1) = Append(Path(ts, k, d, e), LastAt(ts, k, e))
<1> DEFINE m == e - d
           f == [j \in 1 .. (m + 1) |-> LastAt(ts, k, d + j - 1)]
<1>1. ts[k].depth \in Nat /\ k \in Nat
  <2>1. ts[k] \in Node(N, V)
    BY LenProperties
  <2> QED
    BY <2>1 DEF Node
<1>2. m \in Nat /\ (e + 1) - d = m + 1 /\ d + (m + 1) - 1 = e
  BY <1>1
<1>3. \A j \in 1 .. (m + 1) : LastAt(ts, k, d + j - 1) \in 1 .. k
  <2> SUFFICES ASSUME NEW j \in 1 .. (m + 1) PROVE LastAt(ts, k, d + j - 1) \in 1 .. k
    OBVIOUS
  <2> DEFINE c == d + j - 1
  <2>1. c \in d .. ts[k].depth
    BY <1>1
  <2> HIDE DEF c
  <2>2. IsLastAt(ts, k, c, LastAt(ts, k, c))
    BY <2>1, LastAtExists
  <2> QED
    BY <2>2 DEF IsLastAt, c
<1> HIDE DEF m
<1>4. \A j \in 1 .. (m + 1) : f[j] \in Nat
  BY <1>3
<1>5. /\ f = [j \in 1 .. (m + 1) |-> f[j]]
      /\ Path(ts, k, d, e + 1) = f
      /\ Path(ts, k, d, e) = [j \in 1 .. m |-> f[j]]
  <2>1. \A j \in 1 .. m : f[j] = LastAt(ts, k, d + j - 1)
    BY <1>2
  <2>2. Path(ts, k, d, e) = [j \in 1 .. m |-> LastAt(ts, k, d + j - 1)]
    BY DEF Path, m
  <2> QED
    BY <1>2, <2>1, <2>2 DEF Path
<1>6. f[m + 1] = LastAt(ts, k, e)
  BY <1>2
<1>7. LastAt(ts, k, e) \in 1 .. k
  <2>1. m + 1 \in 1 .. (m + 1)
    BY <1>2
  <2> QED
    BY <1>2, <1>3, <2>1
<1> HIDE DEF f
<1>8. /\ [j \in 1 .. m |-> f[j]] \in Seq(Nat)
      /\ [j \in 1 .. (m + 1) |-> f[j]] = Append([j \in 1 .. m |-> f[j]], f[m + 1])
  BY <1>2, <1>4, AppendMember
<1>9. Len([j \in 1 .. m |-> f[j]]) = m
  BY <1>2
<1> QED
  BY <1>5, <1>6, <1>7, <1>8, <1>9 DEF m

\* The end tag of the innermost element.
LEMMA EndTagPrinted ==
    ASSUME NEW ms, NEW o \in Seq(Nat), NEW l \in Nat, NEW n, ms[l].name = n
    PROVE  Leads(State(ms, Append(o, l), "content"), <<Lt, Close(n)>>, State(ms, o, "content"))
<1> DEFINE os == Append(o, l)
           p == State(ms, os, "content")
           q == State(ms, os, "end tag")
           r == State(ms, o, "content")
           D == {Lt, Close(n)}
<1>1. os # <<>> /\ Last(os) = l /\ Front(os) = o
  BY EndOfAppend
<1> HIDE DEF os
<1>2. ParseAtom(p, Lt) = q
  BY TagAtoms
<1>3. ParseAtom(q, Close(n)) = r
  BY <1>1, TagAtoms
<1> HIDE DEF p, q, r
<1>4. Leads(p, <<Lt>>, q)
  BY <1>2, LeadsOne
<1>5. <<Lt>> \in Seq(D) /\ Close(n) \in D
  OBVIOUS
<1> HIDE DEF D
<1>6. Leads(p, Append(<<Lt>>, Close(n)), r)
  BY <1>3, <1>4, <1>5, LeadsAtom
<1>7. Append(<<Lt>>, Close(n)) = <<Lt, Close(n)>>
  BY AppendSecond
<1> QED
  BY <1>6, <1>7 DEF p, r, os

\* The end tags of the elements around the last, from its own outwards.
LEMMA EndTagsPrinted ==
    ASSUME NEW N, NEW V, NEW ts \in Seq(Node(N, V)), NEW d \in Nat, IsTree(ts, d),
           NEW k \in 1 .. Len(ts), NEW e \in d .. (ts[k].depth + 1), NEW c \in d .. e,
           NEW ms, \A j \in 1 .. k : ms[j].name = ts[j].name
    PROVE  LET text == FlattenSeq([i \in 1 .. (e - c) |->
                          <<Lt, Close(ts[LastAt(ts, k, e - i)].name)>>])
           IN  /\ text \in Seq(AtomsOver(N, V))
               /\ Leads(State(ms, Path(ts, k, d, e), "content"), text,
                        State(ms, Path(ts, k, d, c), "content"))
<1> DEFINE A == AtomsOver(N, V)
           n == e - c
           NameAt(i) == ts[LastAt(ts, k, e - i)].name
           f == [i \in 1 .. n |-> <<Lt, Close(NameAt(i))>>]
           p == State(ms, Path(ts, k, d, e), "content")
           Closed(m) == State(ms, Path(ts, k, d, e - m), "content")
           first(m) == [i \in 1 .. m |-> f[i]]
           Good(m) == FlattenSeq(first(m)) \in Seq(A) /\ Leads(p, FlattenSeq(first(m)), Closed(m))
           S == {m \in Nat : m <= n => Good(m)}
<1>1. ts[k].depth \in Nat /\ k \in Nat /\ k <= Len(ts) /\ \A i \in 1 .. k : ts[i].name \in N
  <2>1. k \in Nat /\ k <= Len(ts) /\ \A i \in 1 .. Len(ts) : ts[i] \in Node(N, V)
    BY LenProperties
  <2>2. \A i \in 1 .. k : ts[i] \in Node(N, V)
    BY <2>1, LenProperties
  <2> QED
    BY <2>1, <2>2 DEF Node
<1>2. n \in Nat /\ e \in Nat /\ c \in Nat
  BY <1>1
<1>3. \A i \in 1 .. n : e - i \in d .. ts[k].depth
  BY <1>1, <1>2
<1>4. \A i \in 1 .. n : LastAt(ts, k, e - i) \in 1 .. k
  BY <1>3, PathGrows
<1>5. \A i \in 1 .. n : f[i] = <<Lt, Close(NameAt(i))>> /\ NameAt(i) \in N
  BY <1>1, <1>4
<1>6. \A i \in 1 .. n : f[i] \in Seq(A)
  <2>1. Lt \in A /\ \A x \in N : Close(x) \in A
    BY TagAtomsAre
  <2> HIDE DEF A
  <2>2. \A a, b \in A : <<a, b>> \in Seq(A)
    OBVIOUS
  <2> QED
    BY <1>5, <2>1, <2>2
<1>7. 0 \in S
  <2>1. first(0) = <<>> /\ FlattenSeq(first(0)) = <<>>
    BY FlattenNothing
  <2>2. Closed(0) = p
    <3>1. e - 0 = e
      BY <1>2
    <3> QED
      BY <3>1
  <2>3. <<>> \in Seq(A)
    OBVIOUS
  <2> HIDE DEF first, Closed, A, p
  <2> QED
    BY <2>1, <2>2, <2>3, LeadsNothing
<1>8. ASSUME NEW m \in Nat, m \in S PROVE m + 1 \in S
  <2> SUFFICES ASSUME m + 1 <= n PROVE Good(m + 1)
    OBVIOUS
  <2> DEFINE i == m + 1
             l == LastAt(ts, k, e - i)
             o == Path(ts, k, d, e - i)
             s == FlattenSeq(first(m))
  <2>1. i \in 1 .. n /\ m <= n /\ (e - i) + 1 = e - m
    <3> HIDE DEF n
    <3> QED
      BY <1>2
  <2>2. Good(m)
    BY <1>8, <2>1
  <2>3. s \in Seq(A) /\ Leads(p, s, Closed(m))
    BY <2>2
  <2>4. first(m) \in Seq(Seq(A)) /\ first(i) = Append(first(m), f[i])
    <3>1. \A j \in 1 .. i : f[j] \in Seq(A)
      BY <1>2, <1>6, <2>1
    <3> HIDE DEF f, A
    <3> QED
      BY <3>1, AppendMember
  <2>5. FlattenSeq(first(i)) = s \o f[i]
    <3> HIDE DEF first, f, A
    <3> QED
      BY <1>6, <2>1, <2>4, FlattenAppend
  <2>6. o \in Seq(Nat) /\ l \in 1 .. k /\ Path(ts, k, d, e - m) = Append(o, l)
    <3>1. e - i \in d .. ts[k].depth
      BY <1>3, <2>1
    <3> DEFINE a == e - i
    <3> HIDE DEF i
    <3>2. /\ Path(ts, k, d, a) \in Seq(Nat) /\ LastAt(ts, k, a) \in 1 .. k
          /\ Path(ts, k, d, a + 1) = Append(Path(ts, k, d, a), LastAt(ts, k, a))
      <4> HIDE DEF a
      <4>1. a \in d .. ts[k].depth
        BY <3>1 DEF a
      <4> QED
        BY <4>1, PathGrows
    <3> QED
      BY <2>1, <3>2
  <2>7. ms[l].name = NameAt(i) /\ f[i] = <<Lt, Close(NameAt(i))>>
    BY <1>5, <2>1, <2>6
  <2>8. Leads(State(ms, Append(o, l), "content"), <<Lt, Close(NameAt(i))>>, State(ms, o, "content"))
    <3> DEFINE x == NameAt(i)
    <3>1. ms[l].name = x /\ l \in Nat
      BY <1>1, <2>6, <2>7
    <3> HIDE DEF x, l, o
    <3>2. Leads(State(ms, Append(o, l), "content"), <<Lt, Close(x)>>, State(ms, o, "content"))
      BY <2>6, <3>1, EndTagPrinted
    <3> QED
      BY <3>2 DEF x
  <2>9. Leads(Closed(m), f[i], Closed(i))
    BY <2>6, <2>7, <2>8
  <2> HIDE DEF p, s, f, A, Closed, first
  <2>10. s \o f[i] \in Seq(A) /\ Leads(p, s \o f[i], Closed(i))
    BY <1>6, <2>1, <2>3, <2>9, LeadsOn, ConcatProperties
  <2> QED
    BY <2>5, <2>10
<1> HIDE DEF S
<1>9. n \in S
  BY <1>2, <1>7, <1>8, Induction
<1>10. Good(n)
  <2>1. n <= n
    <3> HIDE DEF n
    <3> QED
      BY <1>2
  <2> HIDE DEF Good, n
  <2> QED
    BY <1>9, <2>1 DEF S
<1>11. first(n) = f /\ e - n = c
  BY <1>1, <1>2
<1>12. FlattenSeq(f) \in Seq(A) /\ Leads(p, FlattenSeq(f), State(ms, Path(ts, k, d, c), "content"))
  <2> HIDE DEF A, f, n, p
  <2> QED
    BY <1>10, <1>11
<1> QED
  BY <1>12

\* An element and what closes after it.
Piece(ts, k) == StartTag(ts, k) \o EndTags(ts, k)
Printed(ts, n) == FlattenSeq([k \in 1 .. n |-> Piece(ts, k)])

NextDepth(ts, k) == IF k = Len(ts) THEN ts[1].depth ELSE ts[k + 1].depth

\* The first elements of a tree at depth d, as the root of a document has them.
Moved(ts, n, d) ==
    [k \in 1 .. n |-> Elem(ts[k].name, ts[k].depth - d + 1, ts[k].attribute, ts[k].text)]

AfterElements(ts, d, n) == State(Moved(ts, n, d), Path(ts, n, d, NextDepth(ts, n)), "content")

\* The facts about an element of a tree that the lemmas about it need.
LEMMA TreeElement ==
    ASSUME NEW N, NEW V, NEW ts \in Seq(Node(N, V)), NEW d \in Nat, IsTree(ts, d),
           NEW k \in 1 .. Len(ts)
    PROVE  /\ ts[k] \in Node(N, V) /\ ts[k].depth \in Nat /\ ts[k].depth >= d
           /\ NextDepth(ts, k) \in d .. (ts[k].depth + 1)
           /\ IsEmpty(ts, k) => NextDepth(ts, k) \in d .. ts[k].depth
<1>1. Len(ts) \in Nat /\ k \in Nat /\ \A i \in 1 .. Len(ts) : ts[i] \in Node(N, V)
  BY LenProperties
<1>2. \A i \in 1 .. Len(ts) : ts[i].depth \in Nat
  BY <1>1 DEF Node
<1>3. /\ ts[1].depth = d
      /\ \A i \in 2 .. Len(ts) : ts[i].depth > d /\ ts[i].depth <= ts[i - 1].depth + 1
  BY DEF IsTree
<1>4. ts[k].depth >= d
  <2>1. CASE k = 1
    BY <1>3, <2>1
  <2>2. CASE k # 1
    <3>1. k \in 2 .. Len(ts)
      BY <1>1, <2>2
    <3> QED
      BY <1>2, <1>3, <3>1
  <2> QED
    BY <2>1, <2>2
<1>5. CASE k = Len(ts)
  BY <1>1, <1>2, <1>3, <1>4, <1>5 DEF NextDepth
<1>6. CASE k # Len(ts)
  <2> DEFINE b == k + 1
  <2>1. b \in 2 .. Len(ts) /\ b \in 1 .. Len(ts) /\ b - 1 = k
    BY <1>1, <1>6
  <2> HIDE DEF b
  <2>2. ts[b].depth \in Nat /\ ts[b].depth > d /\ ts[b].depth <= ts[k].depth + 1
    BY <1>2, <1>3, <2>1
  <2>3. NextDepth(ts, k) = ts[b].depth
    BY <1>6 DEF NextDepth, b
  <2>4. ASSUME IsEmpty(ts, k) PROVE ts[b].depth <= ts[k].depth
    <3>1. b \notin Below(ts, k)
      BY <2>4 DEF IsEmpty
    <3>2. DepthOf(ts, k) = ts[k].depth
      BY <1>1 DEF DepthOf
    <3>3. b \in k + 1 .. Len(ts) /\ \A i \in k + 1 .. b : i = b
      BY <1>1, <2>1 DEF b
    <3>4. ~(ts[b].depth > ts[k].depth)
      BY <3>1, <3>2, <3>3 DEF Below
    <3> QED
      BY <1>2, <2>2, <3>4
  <2> QED
    BY <1>1, <1>2, <1>4, <2>2, <2>3, <2>4
<1> QED
  BY <1>1, <1>2, <1>4, <1>5, <1>6

\* Read from where the last element ended, an element is added to the tree.
LEMMA PieceRead ==
    ASSUME NEW N, NEW V, NEW ts \in Seq(Node(N, V)), NEW d \in Nat, IsTree(ts, d),
           NEW n \in Nat, n + 1 <= Len(ts)
    PROVE  /\ Moved(ts, n, d) \in Seq(Node(N, V)) /\ Len(Moved(ts, n, d)) = n
           /\ Moved(ts, n + 1, d)
                  = Append(Moved(ts, n, d),
                           Elem(ts[n + 1].name, ts[n + 1].depth - d + 1,
                                ts[n + 1].attribute, ts[n + 1].text))
           /\ Path(ts, n, d, NextDepth(ts, n)) \in Seq(Nat)
           /\ Len(Path(ts, n, d, NextDepth(ts, n))) = ts[n + 1].depth - d
           /\ StartTag(ts, n + 1) \in Seq(AtomsOver(N, V))
           /\ EndTags(ts, n + 1) \in Seq(AtomsOver(N, V))
           /\ \E os \in Seq(Nat) :
                 /\ \A j \in DOMAIN os : os[j] \in 1 .. n + 1
                 /\ Leads(AfterElements(ts, d, n), StartTag(ts, n + 1),
                          State(Moved(ts, n + 1, d), os, "content"))
                 /\ Leads(State(Moved(ts, n + 1, d), os, "content"), EndTags(ts, n + 1),
                          AfterElements(ts, d, n + 1))
<1> DEFINE b == n + 1
           x == ts[b]
           e == x.depth
           ns == Moved(ts, n, d)
           ms == Moved(ts, b, d)
           o == Path(ts, n, d, NextDepth(ts, n))
           from == IF IsEmpty(ts, b) THEN e - 1 ELSE e
           next == NextDepth(ts, b)
           A == AtomsOver(N, V)
<1>1. b \in 1 .. Len(ts) /\ n \in 0 .. Len(ts) /\ b # 0 /\ Len(ts) \in Nat /\ b \in Nat /\ n # Len(ts)
  BY LenProperties
<1>2. x \in Node(N, V) /\ e \in Nat /\ e >= d
  BY <1>1, TreeElement
<1>3. next \in d .. (e + 1) /\ (IsEmpty(ts, b) => next \in d .. e)
  BY <1>1, TreeElement
<1>4. \A i \in 1 .. b :
         Elem(ts[i].name, ts[i].depth - d + 1, ts[i].attribute, ts[i].text) \in Node(N, V)
  <2> SUFFICES ASSUME NEW i \in 1 .. b
               PROVE  Elem(ts[i].name, ts[i].depth - d + 1, ts[i].attribute, ts[i].text) \in Node(N, V)
    OBVIOUS
  <2>1. i \in 1 .. Len(ts)
    BY <1>1
  <2>2. ts[i] \in Node(N, V) /\ ts[i].depth \in Nat /\ ts[i].depth >= d
    BY <2>1, TreeElement
  <2> QED
    BY <2>2 DEF Node, Elem
<1>5. /\ ns \in Seq(Node(N, V)) /\ Len(ns) = n
      /\ ms = Append(ns, Elem(x.name, e - d + 1, x.attribute, x.text))
  <2> DEFINE f == [i \in 1 .. b |-> Elem(ts[i].name, ts[i].depth - d + 1, ts[i].attribute, ts[i].text)]
  <2>1. /\ f = ms /\ f = [i \in 1 .. b |-> f[i]] /\ ns = [i \in 1 .. n |-> f[i]]
        /\ f[b] = Elem(x.name, e - d + 1, x.attribute, x.text)
        /\ \A i \in 1 .. b : f[i] \in Node(N, V)
    BY <1>1, <1>4 DEF Moved
  <2> HIDE DEF f, ms, ns, x, e
  <2>2. /\ [i \in 1 .. n |-> f[i]] \in Seq(Node(N, V))
        /\ [i \in 1 .. b |-> f[i]] = Append([i \in 1 .. n |-> f[i]], f[b])
    BY <2>1, AppendMember
  <2>3. Len([i \in 1 .. n |-> f[i]]) = n
    OBVIOUS
  <2> QED
    BY <2>1, <2>2, <2>3
<1>6. /\ NextDepth(ts, n) = e /\ o = Path(ts, b, d, e)
      /\ o \in Seq(Nat) /\ Len(o) = e - d
      /\ Path(ts, b, d, e + 1) = Append(o, b)
  <2>1. NextDepth(ts, n) = e
    BY <1>1 DEF NextDepth
  <2>2. o = Path(ts, b, d, e)
    <3>1. CASE n = 0
      <4>1. e = d
        BY <3>1 DEF IsTree
      <4>2. \A y : Path(ts, y, d, e) = <<>>
        BY <4>1 DEF Path
      <4> QED
        BY <2>1, <4>2
    <3>2. CASE n # 0
      <4>1. n \in 1 .. (Len(ts) - 1)
        BY <1>1, <3>2
      <4> QED
        BY <2>1, <4>1, PathOfNext
    <3> QED
      BY <3>1, <3>2
  <2>3. e \in d .. ts[b].depth
    BY <1>2
  <2>4. /\ Path(ts, b, d, e) \in Seq(Nat) /\ Len(Path(ts, b, d, e)) = e - d
        /\ Path(ts, b, d, e + 1) = Append(Path(ts, b, d, e), LastAt(ts, b, e))
    <3> HIDE DEF b, e, x
    <3> QED
      BY <1>1, <2>3, PathGrows
  <2>5. LastAt(ts, b, e) = b
    <3>1. IsLastAt(ts, b, e, b)
      BY <1>1 DEF IsLastAt
    <3> HIDE DEF b, e, x
    <3> QED
      BY <1>1, <3>1, LastAtIs
  <2> HIDE DEF o
  <2> QED
    BY <2>1, <2>2, <2>4, <2>5
<1>7. /\ StartTag(ts, b) \in Seq(A)
      /\ Leads(AfterElements(ts, d, n), StartTag(ts, b),
               State(ms, Path(ts, b, d, from + 1), "content"))
  <2>1. /\ StartTag(ts, b) \in Seq(A)
        /\ Leads(State(ns, o, "content"), StartTag(ts, b),
                 State(Append(ns, Elem(x.name, Len(o) + 1, x.attribute, x.text)),
                       IF IsEmpty(ts, b) THEN o ELSE Append(o, Len(ns) + 1), "content"))
    <3> HIDE DEF b, ns, o
    <3> QED
      BY <1>2, <1>5, <1>6, StartTagPrinted
  <2>2. Path(ts, b, d, from + 1) = IF IsEmpty(ts, b) THEN o ELSE Append(o, Len(ns) + 1)
    <3>1. CASE IsEmpty(ts, b)
      <4>1. from + 1 = e
        BY <1>2, <3>1
      <4> HIDE DEF from
      <4> QED
        BY <1>6, <3>1, <4>1
    <3>2. CASE ~IsEmpty(ts, b)
      <4>1. from + 1 = e + 1
        BY <3>2
      <4> HIDE DEF from, o
      <4> QED
        BY <1>5, <1>6, <3>2, <4>1
    <3> QED
      BY <3>1, <3>2
  <2>3. AfterElements(ts, d, n) = State(ns, o, "content")
    BY DEF AfterElements
  <2>4. ms = Append(ns, Elem(x.name, Len(o) + 1, x.attribute, x.text))
    BY <1>5, <1>6
  <2> HIDE DEF ms, ns, o, from, A, x, e, b
  <2> QED
    BY <2>1, <2>2, <2>3, <2>4
<1>8. /\ EndTags(ts, b) \in Seq(A)
      /\ Leads(State(ms, Path(ts, b, d, from + 1), "content"), EndTags(ts, b),
               AfterElements(ts, d, b))
  <2> DEFINE a == from + 1
             text == FlattenSeq([i \in 1 .. (a - next) |->
                                    <<Lt, Close(ts[LastAt(ts, b, a - i)].name)>>])
  <2>1. a \in d .. (ts[b].depth + 1) /\ next \in d .. a /\ a \in Nat /\ next \in Nat
        /\ from + 1 = a /\ from - next + 1 = a - next /\ \A i \in Nat : from - i + 1 = a - i
    <3>1. CASE IsEmpty(ts, b)
      BY <1>2, <1>3, <3>1
    <3>2. CASE ~IsEmpty(ts, b)
      BY <1>2, <1>3, <3>2
    <3> QED
      BY <3>1, <3>2
  <2>2. \A j \in 1 .. b : ms[j].name = ts[j].name
    BY DEF Moved, Elem
  <2>3. EndTags(ts, b) = text
    <3>1. EndTags(ts, b) = FlattenSeq([i \in 1 .. (from - next + 1) |->
                                <<Lt, Close(ts[LastAt(ts, b, from - i + 1)].name)>>])
      BY DEF EndTags, NextDepth
    <3> HIDE DEF from, next, a, b
    <3>2. \A i \in 1 .. (a - next) : from - i + 1 = a - i
      BY <2>1
    <3> QED
      BY <2>1, <3>1, <3>2
  <2> HIDE DEF from, next, a, ms, b
  <2>4. /\ text \in Seq(A)
        /\ Leads(State(ms, Path(ts, b, d, a), "content"), text,
                 State(ms, Path(ts, b, d, next), "content"))
    BY <1>1, <2>1, <2>2, EndTagsPrinted
  <2>5. AfterElements(ts, d, b) = State(ms, Path(ts, b, d, next), "content")
    BY DEF AfterElements, ms, next
  <2> HIDE DEF text, A
  <2> QED
    BY <2>1, <2>3, <2>4, <2>5
<1>9. Path(ts, b, d, from + 1) \in Seq(Nat)
  <2>1. CASE IsEmpty(ts, b)
    <3>1. from + 1 = e
      BY <1>2, <2>1
    <3> HIDE DEF from
    <3> QED
      BY <1>6, <3>1
  <2>2. CASE ~IsEmpty(ts, b)
    <3>1. from + 1 = e + 1
      BY <2>2
    <3>2. Append(o, b) \in Seq(Nat)
      <4> HIDE DEF o
      <4> QED
        BY <1>1, <1>6
    <3> HIDE DEF from
    <3> QED
      BY <1>6, <3>1, <3>2
  <2> QED
    BY <2>1, <2>2
<1>10. \A j \in DOMAIN Path(ts, b, d, from + 1) : Path(ts, b, d, from + 1)[j] \in 1 .. b
  <2> DEFINE f == from + 1
  <2>1. f \in Nat /\ f <= e + 1
    BY <1>2
  <2> SUFFICES ASSUME NEW j \in 1 .. (f - d) PROVE LastAt(ts, b, d + j - 1) \in 1 .. b
    BY DEF Path
  <2> HIDE DEF from, f
  <2>2. d + j - 1 \in d .. ts[b].depth
    BY <1>2, <2>1
  <2> DEFINE c == d + j - 1
  <2>3. c \in d .. ts[b].depth
    BY <2>2
  <2> HIDE DEF c, b
  <2>4. IsLastAt(ts, b, c, LastAt(ts, b, c))
    BY <1>1, <2>3, LastAtExists
  <2> QED
    BY <2>4 DEF IsLastAt, c
<1> HIDE DEF ms, ns, o, from, A
<1>11. \E os \in Seq(Nat) :
          /\ \A j \in DOMAIN os : os[j] \in 1 .. b
          /\ Leads(AfterElements(ts, d, n), StartTag(ts, b), State(ms, os, "content"))
          /\ Leads(State(ms, os, "content"), EndTags(ts, b), AfterElements(ts, d, b))
  BY <1>7, <1>8, <1>9, <1>10
<1> QED
  BY <1>5, <1>6, <1>7, <1>8, <1>11 DEF ms, ns, o, A

\* Read from the start, the text of the first elements is their tree.
LEMMA PrintedRead ==
    ASSUME NEW N, NEW V, NEW ts \in Seq(Node(N, V)), NEW d \in Nat, IsTree(ts, d)
    PROVE  /\ Printed(ts, 0) = <<>>
           /\ \A n \in 0 .. Len(ts) : /\ Printed(ts, n) \in Seq(AtomsOver(N, V))
                                      /\ Leads(StartOfText, Printed(ts, n), AfterElements(ts, d, n))
           /\ \A n \in 0 .. (Len(ts) - 1) : Printed(ts, n + 1) = Printed(ts, n) \o Piece(ts, n + 1)
           /\ AfterElements(ts, d, Len(ts)) = State(Moved(ts, Len(ts), d), <<>>, "content")
           /\ PrintAll(ts) = Printed(ts, Len(ts))
<1> DEFINE L == Len(ts)
           A == AtomsOver(N, V)
           Good(n) == /\ Printed(ts, n) \in Seq(A)
                      /\ Leads(StartOfText, Printed(ts, n), AfterElements(ts, d, n))
           S == {n \in Nat : n <= L => Good(n)}
           f == [k \in 1 .. L |-> Piece(ts, k)]
<1>1. L \in Nat /\ L # 0 /\ ts[1].depth = d /\ DOMAIN ts = 1 .. L
  <2>1. L \in Nat /\ ts # <<>> /\ ts[1].depth = d /\ DOMAIN ts = 1 .. L
    BY LenProperties DEF IsTree
  <2> QED
    BY <2>1, EmptySeq
<1>2. \A k \in 1 .. L : f[k] = Piece(ts, k) /\ f[k] \in Seq(A)
  <2> SUFFICES ASSUME NEW k \in 1 .. L PROVE Piece(ts, k) \in Seq(A)
    OBVIOUS
  <2> DEFINE m == k - 1
  <2>1. m \in Nat /\ m + 1 <= L /\ m + 1 = k
    BY <1>1
  <2> HIDE DEF m
  <2>2. StartTag(ts, m + 1) \in Seq(A) /\ EndTags(ts, m + 1) \in Seq(A)
    BY <2>1, PieceRead
  <2> HIDE DEF A
  <2>3. StartTag(ts, k) \o EndTags(ts, k) \in Seq(A)
    BY <2>1, <2>2, ConcatProperties
  <2> QED
    BY <2>3 DEF Piece
<1>3. Printed(ts, 0) = <<>>
  <2>1. [k \in 1 .. 0 |-> Piece(ts, k)] = <<>>
    OBVIOUS
  <2> QED
    BY <2>1, FlattenNothing DEF Printed
<1>4. ASSUME NEW n \in 0 .. (L - 1)
      PROVE  Printed(ts, n + 1) = Printed(ts, n) \o Piece(ts, n + 1)
  <2>1. n \in Nat /\ n + 1 \in 1 .. L /\ \A i \in 1 .. (n + 1) : i \in 1 .. L
    BY <1>1
  <2> DEFINE g(m) == [i \in 1 .. m |-> f[i]]
  <2>2. \A m \in 0 .. L : g(m) = [i \in 1 .. m |-> Piece(ts, i)]
    BY <1>1, <1>2
  <2>3. g(n) \in Seq(Seq(A)) /\ g(n + 1) = Append(g(n), f[n + 1])
    <3>1. \A i \in 1 .. (n + 1) : f[i] \in Seq(A)
      BY <1>2, <2>1
    <3> HIDE DEF f, A
    <3> QED
      BY <2>1, <3>1, AppendMember
  <2>4. FlattenSeq(g(n + 1)) = FlattenSeq(g(n)) \o f[n + 1]
    <3> HIDE DEF f, g, A
    <3> QED
      BY <1>2, <2>1, <2>3, FlattenAppend
  <2>5. Printed(ts, n) = FlattenSeq(g(n)) /\ Printed(ts, n + 1) = FlattenSeq(g(n + 1))
    <3>1. n \in 0 .. L /\ n + 1 \in 0 .. L
      BY <1>1
    <3> HIDE DEF g
    <3> QED
      BY <2>2, <3>1 DEF Printed
  <2> HIDE DEF f, g
  <2> QED
    BY <1>2, <2>1, <2>4, <2>5
<1>5. 0 \in S
  <2>1. AfterElements(ts, d, 0) = StartOfText
    <3>1. NextDepth(ts, 0) = d
      <4>1. 0 + 1 = 1
        OBVIOUS
      <4> QED
        BY <1>1, <4>1 DEF NextDepth
    <3>2. \A y : Path(ts, y, d, d) = <<>>
      BY DEF Path
    <3>3. Moved(ts, 0, d) = <<>>
      BY DEF Moved
    <3> QED
      BY <3>1, <3>2, <3>3 DEF AfterElements, State, StartOfText
  <2>2. <<>> \in Seq(A)
    OBVIOUS
  <2> HIDE DEF A
  <2>3. Good(0)
    BY <1>3, <2>1, <2>2, LeadsNothing
  <2> QED
    BY <2>3
<1>6. ASSUME NEW n \in Nat, n \in S PROVE n + 1 \in S
  <2> SUFFICES ASSUME n + 1 <= L PROVE Good(n + 1)
    OBVIOUS
  <2>1. n <= L /\ n \in 0 .. (L - 1)
    BY <1>1
  <2>2. Good(n)
    BY <1>6, <2>1
  <2>3. /\ StartTag(ts, n + 1) \in Seq(A) /\ EndTags(ts, n + 1) \in Seq(A)
        /\ \E os \in Seq(Nat) :
                 /\ Leads(AfterElements(ts, d, n), StartTag(ts, n + 1),
                          State(Moved(ts, n + 1, d), os, "content"))
                 /\ Leads(State(Moved(ts, n + 1, d), os, "content"), EndTags(ts, n + 1),
                          AfterElements(ts, d, n + 1))
    BY PieceRead
  <2> HIDE DEF A
  <2>4. PICK q : /\ Leads(AfterElements(ts, d, n), StartTag(ts, n + 1), q)
                 /\ Leads(q, EndTags(ts, n + 1), AfterElements(ts, d, n + 1))
    BY <2>3
  <2>5. /\ Piece(ts, n + 1) \in Seq(A)
        /\ Leads(AfterElements(ts, d, n), Piece(ts, n + 1), AfterElements(ts, d, n + 1))
    BY <2>3, <2>4, LeadsOn, ConcatProperties DEF Piece
  <2>6. /\ Printed(ts, n) \o Piece(ts, n + 1) \in Seq(A)
        /\ Leads(StartOfText, Printed(ts, n) \o Piece(ts, n + 1), AfterElements(ts, d, n + 1))
    BY <2>2, <2>5, LeadsOn, ConcatProperties
  <2> QED
    BY <1>4, <2>1, <2>6
<1> HIDE DEF S
<1>7. \A n \in Nat : n \in S
  BY <1>5, <1>6, Induction
<1>8. \A n \in 0 .. L : Good(n)
  <2> HIDE DEF Good
  <2> QED
    BY <1>1, <1>7 DEF S
<1>9. AfterElements(ts, d, L) = State(Moved(ts, L, d), <<>>, "content")
  <2>1. NextDepth(ts, L) = d
    BY <1>1 DEF NextDepth
  <2>2. \A y : Path(ts, y, d, d) = <<>>
    BY DEF Path
  <2> QED
    BY <2>1, <2>2 DEF AfterElements
<1>10. PrintAll(ts) = Printed(ts, L)
  BY <1>1 DEF PrintAll, Printed, Piece
<1> QED
  BY <1>3, <1>4, <1>8, <1>9, <1>10

\* What is printed of a tree is read as that tree, at the depth of a document's
\* root (xml_node::print, xml_document::load).
THEOREM ParseUndoesPrint ==
    ASSUME NEW N, NEW V, NEW ts \in Seq(Node(N, V)), NEW d \in Nat, IsTree(ts, d)
    PROVE  Parse(PrintAll(ts)) = Moved(ts, Len(ts), d)
<1> DEFINE text == PrintAll(ts)
           q == State(Moved(ts, Len(ts), d), <<>>, "content")
<1>1. text \in Seq(AtomsOver(N, V)) /\ Leads(StartOfText, text, q)
  <2>1. Len(ts) \in 0 .. Len(ts)
    BY LenProperties
  <2> QED
    BY <2>1, PrintedRead
<1>2. q.nodes = Moved(ts, Len(ts), d) /\ q.open = <<>> /\ q.at = "content"
  BY DEF State
<1> HIDE DEF q, text
<1>3. Len(text) \in Nat
  BY <1>1, LenProperties
<1>4. Parse(text) = EndOfText(q, text).nodes
  BY <1>1, <1>3, LeadsParse
<1>5. EndOfText(q, text) = q
  BY <1>2 DEF EndOfText
<1> QED
  BY <1>2, <1>4, <1>5 DEF text

-----------------------------------------------------------------------------
(* Reading anything. *)

\* At most the values of element k are other ones, and its name a damaged one.
AltersOnly(ns, k, ms) ==
    /\ Len(ms) = Len(ns)
    /\ \A i \in 1 .. Len(ns) : /\ i # k => ms[i] = ns[i]
                               /\ ms[i].depth = ns[i].depth
                               /\ ms[i].name \in {ns[i].name, Damaged}

\* The places in a start tag.
InTag == {"name", "tag", "value", "next tag", "next value"}
Places == InTag \cup {"content", "end tag", "failed"}

\* What an atom makes of the parser's state: another place in the text, a change
\* of the innermost element, an element closed, or one more.
AtomMakes(ns, os, at, a, ms, l, to) ==
    /\ to \in InTag => l # <<>>
    /\ to = "end tag" => a.kind = "lt"
    /\ \/ ms = ns /\ l = os
       \/ os # <<>> /\ l = os /\ AltersOnly(ns, Last(os), ms)
       \/ os # <<>> /\ l = Front(os) /\ ms = ns /\ a.kind \in {"slashgt", "close"}
       \/ /\ a.kind = "open" \/ at = "end tag"
          /\ l = Append(os, Len(ns) + 1)
          /\ \E n \in {a.of, Damaged} : ms = Append(ns, Elem(n, Len(os) + 1, <<>>, <<>>))

\* An element with one more piece in a value, or with a damaged name.
OtherElements(e, U) ==
    {[e EXCEPT !.text = Append(e.text, x)] : x \in U}
        \cup {[e EXCEPT !.attribute = Append(e.attribute, x)] : x \in U}
        \cup {[e EXCEPT !.name = Damaged]}

\* Such an element is one of the same kind, at the same depth.
LEMMA OtherElement ==
    ASSUME NEW U, Damaged \in U, NEW e \in Node(U, U), NEW m \in OtherElements(e, U)
    PROVE  m \in Node(U, U) /\ m.name \in {e.name, Damaged} /\ m.depth = e.depth
<1>1. e.text \in Seq(U) /\ e.attribute \in Seq(U)
  BY DEF Node
<1>2. ASSUME NEW u \in Seq(U), m = [e EXCEPT !.text = u] \/ m = [e EXCEPT !.attribute = u]
      PROVE  m \in Node(U, U) /\ m.name \in {e.name, Damaged} /\ m.depth = e.depth
  BY <1>2 DEF Node
<1>3. CASE m = [e EXCEPT !.name = Damaged]
  <2>1. \A n : [e EXCEPT !.name = n].name = n /\ [e EXCEPT !.name = n].depth = e.depth
    BY DEF Node
  <2>2. \A n \in U : [e EXCEPT !.name = n] \in Node(U, U)
    BY DEF Node
  <2> QED
    BY <1>3, <2>1, <2>2
<1>4. ASSUME NEW x \in U, \/ m = [e EXCEPT !.text = Append(e.text, x)]
                         \/ m = [e EXCEPT !.attribute = Append(e.attribute, x)]
      PROVE  m \in Node(U, U) /\ m.name \in {e.name, Damaged} /\ m.depth = e.depth
  <2> DEFINE u == Append(e.text, x)
             v == Append(e.attribute, x)
  <2>1. u \in Seq(U) /\ v \in Seq(U)
    BY <1>1, AppendProperties
  <2>2. m = [e EXCEPT !.text = u] \/ m = [e EXCEPT !.attribute = v]
    BY <1>4
  <2> HIDE DEF u, v
  <2> QED
    BY <1>2, <2>1, <2>2
<1> QED
  BY <1>3, <1>4 DEF OtherElements

\* Another element in the place of one alters only that.
LEMMA Altered ==
    ASSUME NEW U, NEW ns \in Seq(Node(U, U)), NEW k \in DOMAIN ns, NEW m \in Node(U, U),
           m.name \in {ns[k].name, Damaged}, m.depth = ns[k].depth
    PROVE  /\ [ns EXCEPT ![k] = m] \in Seq(Node(U, U))
           /\ AltersOnly(ns, k, [ns EXCEPT ![k] = m])
<1> DEFINE ms == [ns EXCEPT ![k] = m]
<1>1. k \in 1 .. Len(ns)
  BY LenProperties
<1>2. /\ ms \in Seq(Node(U, U)) /\ Len(ms) = Len(ns)
      /\ \A j \in 1 .. Len(ns) : ms[j] = IF j = k THEN m ELSE ns[j]
  BY <1>1, ExceptSeq
<1> HIDE DEF ms
<1>3. AltersOnly(ns, k, ms)
  BY <1>1, <1>2 DEF AltersOnly
<1> QED
  BY <1>2, <1>3 DEF ms

\* The parser's state with another element in the place of one.
WithElement(p, k, m) == [p EXCEPT !.nodes[k] = m]

\* A change of the innermost element alters only that.
LEMMA InnermostAltered ==
    ASSUME NEW U, Damaged \in U, NEW ns \in Seq(Node(U, U)), NEW os \in Seq(Nat), NEW at,
           NEW k \in DOMAIN ns, NEW m \in OtherElements(ns[k], U)
    PROVE  \E ms \in Seq(Node(U, U)) :
              /\ WithElement(State(ns, os, at), k, m) = State(ms, os, at)
              /\ AltersOnly(ns, k, ms)
<1> DEFINE ms == [ns EXCEPT ![k] = m]
           e == ns[k]
<1>1. e \in Node(U, U) /\ m \in OtherElements(e, U)
  BY LenProperties
<1>2. m \in Node(U, U) /\ m.name \in {e.name, Damaged} /\ m.depth = e.depth
  <2> HIDE DEF e
  <2> QED
    BY <1>1, OtherElement
<1>3. ms \in Seq(Node(U, U)) /\ AltersOnly(ns, k, ms)
  BY <1>2, Altered
<1>4. WithElement(State(ns, os, at), k, m) = State(ms, os, at)
  <2>1. State(ns, os, at).nodes = ns
    BY DEF State
  <2>2. WithElement(State(ns, os, at), k, m) = [State(ns, os, at) EXCEPT !.nodes = ms]
    BY <2>1 DEF WithElement
  <2> HIDE DEF ms
  <2>3. [State(ns, os, at) EXCEPT !.nodes = ms] = State(ms, os, at)
    BY DEF State
  <2> QED
    BY <2>2, <2>3
<1> QED
  BY <1>3, <1>4

\* Whatever the atom, the parser leaves all but the innermost element as it is.
LEMMA AtomRead ==
    ASSUME NEW U, Damaged \in U, NEW ns \in Seq(Node(U, U)), NEW os \in Seq(Nat),
           NEW at \in Places,
           os # <<>> => Last(os) \in DOMAIN ns, at \in InTag => os # <<>>, NEW a, a.of \in U
    PROVE  \E ms \in Seq(Node(U, U)) : \E l \in Seq(Nat) : \E to \in Places :
              /\ ParseAtom(State(ns, os, at), a) = State(ms, l, to)
              /\ AtomMakes(ns, os, at, a, ms, l, to)
<1> DEFINE p == State(ns, os, at)
           k == Last(os)
           q == ParseAtom(p, a)
           Goal == \E ms \in Seq(Node(U, U)) : \E l \in Seq(Nat) : \E to \in Places :
                      q = State(ms, l, to) /\ AtomMakes(ns, os, at, a, ms, l, to)
<1>1. p.nodes = ns /\ p.open = os /\ p.at = at /\ Cursor(p) = k
  BY DEF State, Cursor
<1>2. \A y, l, z, t : Reaches(State(y, l, z), t) = State(y, l, t)
  BY DEF Reaches, State
<1>3. os # <<>> => k \in DOMAIN ns
  OBVIOUS
<1>4. /\ InTag \subseteq Places /\ "content" \in Places /\ "end tag" \in Places
      /\ "failed" \in Places
      /\ "name" \in InTag /\ "tag" \in InTag /\ "value" \in InTag
      /\ "next tag" \in InTag /\ "next value" \in InTag
      /\ "content" \notin InTag /\ "end tag" \notin InTag /\ "failed" \notin InTag
  BY DEF Places, InTag
<1>5. PieceOf(a) \in U
  BY DEF PieceOf
<1> HIDE DEF k
<1>19. ASSUME os # <<>>, NEW m \in OtherElements(ns[k], U)
       PROVE  \E ms \in Seq(Node(U, U)) :
                 WithElement(p, k, m) = State(ms, os, at) /\ AltersOnly(ns, k, ms)
  BY <1>3, <1>19, InnermostAltered
<1> SUFFICES Goal
  BY DEF q, p
<1> HIDE DEF q
\* What is only another place in the text.
<1>6. ASSUME NEW t \in Places, q = Reaches(p, t), t \in InTag => os # <<>>,
             t = "end tag" => a.kind = "lt"
      PROVE  Goal
  <2>1. q = State(ns, os, t)
    BY <1>2, <1>6
  <2>2. AtomMakes(ns, os, at, a, ns, os, t)
    BY <1>6 DEF AtomMakes
  <2> HIDE DEF p
  <2> QED
    BY <2>1, <2>2
\* Nothing.
<1>7. ASSUME q = p, at # "end tag" PROVE Goal
  <2>1. AtomMakes(ns, os, at, a, ns, os, at)
    BY <1>7 DEF AtomMakes
  <2> QED
    BY <1>7, <2>1
\* An element is closed.
<1>8. ASSUME q = Popped(p), os # <<>>, a.kind \in {"slashgt", "close"}
      PROVE  Goal
  <2> DEFINE f == Front(os)
  <2>2. f \in Seq(Nat)
    <3>1. PICK s \in Seq(Nat), e \in Nat : os = Append(s, e)
      BY <1>8, SequenceEmptyOrAppend
    <3> QED
      BY <3>1, EndOfAppend
  <2>3. AtomMakes(ns, os, at, a, ns, f, "content")
    BY <1>4, <1>8 DEF AtomMakes
  <2>4. q = State(ns, f, "content")
    BY <1>8, PoppedIs
  <2> HIDE DEF f, p
  <2> QED
    BY <1>4, <2>2, <2>3, <2>4
\* The innermost element changes.
<1>9. ASSUME os # <<>>, NEW m \in OtherElements(ns[k], U), NEW t \in Places \ {"end tag"},
             q = Reaches(WithElement(p, k, m), t)
      PROVE  Goal
  <2>1. PICK ms \in Seq(Node(U, U)) :
           WithElement(p, k, m) = State(ms, os, at) /\ AltersOnly(ns, k, ms)
    BY <1>9, <1>19
  <2>2. q = State(ms, os, t)
    <3>1. Reaches(State(ms, os, at), t) = State(ms, os, t)
      BY <1>2
    <3> HIDE DEF p
    <3> QED
      BY <1>9, <2>1, <3>1
  <2>3. AtomMakes(ns, os, at, a, ms, os, t)
    BY <1>9, <2>1 DEF AtomMakes, k
  <2> HIDE DEF p
  <2> QED
    BY <2>2, <2>3
\* An element begins.
<1>10. ASSUME NEW n \in {a.of, Damaged}, q = Pushed(p, n), a.kind = "open" \/ at = "end tag"
       PROVE  Goal
  <2> DEFINE x == Elem(n, Len(os) + 1, <<>>, <<>>)
             ms == Append(ns, x)
             l == Append(os, Len(ns) + 1)
  <2>1. q = State(ms, l, "name")
    BY <1>1, <1>10 DEF Pushed, State, Elem
  <2>2. Len(os) + 1 \in Nat /\ Len(ns) + 1 \in Nat /\ <<>> \in Seq(U) /\ n \in U
    BY LenProperties
  <2>3. x \in Node(U, U)
    BY <2>2 DEF Node, Elem
  <2>4. AtomMakes(ns, os, at, a, ms, l, "name") <=> l # <<>>
    BY <1>4, <1>10 DEF AtomMakes
  <2> HIDE DEF x
  <2>5. ms \in Seq(Node(U, U)) /\ l \in Seq(Nat) /\ l # <<>>
    <3>1. ms \in Seq(Node(U, U))
      BY <2>3, AppendProperties
    <3> HIDE DEF ms
    <3> DEFINE i == Len(ns) + 1
    <3>2. i \in Nat
      BY <2>2
    <3> HIDE DEF i
    <3>3. Append(os, i) \in Seq(Nat) /\ Append(os, i) # <<>>
      BY <3>2, AppendProperties
    <3>4. l \in Seq(Nat) /\ l # <<>>
      BY <3>3 DEF i
    <3> QED
      BY <3>1, <3>4
  <2> HIDE DEF ms, l, p
  <2> QED
    BY <1>4, <2>1, <2>4, <2>5
\* A change that leaves the place.
<1>11. ASSUME os # <<>>, NEW m \in OtherElements(ns[k], U), at # "end tag",
              q = WithElement(p, k, m)
       PROVE  Goal
  <2>1. PICK ms \in Seq(Node(U, U)) :
           WithElement(p, k, m) = State(ms, os, at) /\ AltersOnly(ns, k, ms)
    BY <1>11, <1>19
  <2>2. AtomMakes(ns, os, at, a, ms, os, at)
    BY <1>11, <2>1 DEF AtomMakes, k
  <2> HIDE DEF p
  <2> QED
    BY <1>11, <2>1, <2>2
<1> HIDE DEF Goal, p
<1>12. ASSUME NEW x \in U
       PROVE  /\ os # <<>> => \E m \in OtherElements(ns[k], U) :
                                 WithText(p, x) = WithElement(p, k, m)
              /\ \E m \in OtherElements(ns[k], U) :
                                 WithAttribute(p, x) = WithElement(p, k, m)
              /\ \E m \in OtherElements(ns[k], U) : Renamed(p) = WithElement(p, k, m)
  <2> DEFINE u == [ns[k] EXCEPT !.text = Append(ns[k].text, x)]
             v == [ns[k] EXCEPT !.attribute = Append(ns[k].attribute, x)]
             w == [ns[k] EXCEPT !.name = Damaged]
  <2>1. {u, v, w} \subseteq OtherElements(ns[k], U)
    BY DEF OtherElements
  <2>2. os # <<>> => WithText(p, x) = WithElement(p, k, u)
    BY <1>1 DEF WithText, WithElement
  <2>3. WithAttribute(p, x) = WithElement(p, k, v)
    BY <1>1 DEF WithAttribute, WithElement
  <2>4. Renamed(p) = WithElement(p, k, w)
    BY <1>1 DEF Renamed, WithElement
  <2> HIDE DEF u, v, w
  <2> QED
    BY <2>1, <2>2, <2>3, <2>4
<1>13. CASE at = "content"
  <2>1. CASE a.kind = "open"
    <3>1. q = Pushed(p, a.of)
      BY <1>1, <1>13, <2>1 DEF q, ParseAtom
    <3> QED
      BY <1>10, <2>1, <3>1
  <2>2. CASE a.kind = "lt"
    <3>1. q = Reaches(p, "end tag")
      BY <1>1, <1>13, <2>2 DEF q, ParseAtom
    <3> QED
      BY <1>4, <1>6, <2>2, <3>1
  <2>3. CASE a.kind \notin {"open", "lt"}
    <3>1. q = WithText(p, PieceOf(a))
      BY <1>1, <1>13, <2>3 DEF q, ParseAtom
    <3>2. CASE os = <<>>
      <4>1. q = p
        BY <1>1, <3>1, <3>2 DEF WithText
      <4> QED
        BY <1>7, <1>13, <4>1
    <3>3. CASE os # <<>>
      BY <1>5, <1>11, <1>12, <1>13, <3>1, <3>3
    <3> QED
      BY <3>2, <3>3
  <2> QED
    BY <2>1, <2>2, <2>3
<1>14. CASE at = "value"
  <2>1. os # <<>>
    BY <1>4, <1>14
  <2>2. CASE a.kind = "quote"
    <3>1. q = Reaches(p, "tag")
      BY <1>1, <1>14, <2>2 DEF q, ParseAtom
    <3> QED
      BY <1>4, <1>6, <2>1, <3>1
  <2>3. CASE a.kind = "attribute"
    <3>1. q = Reaches(WithAttribute(p, Damaged), "tag")
      BY <1>1, <1>14, <2>3 DEF q, ParseAtom
    <3>2. PICK m \in OtherElements(ns[k], U) :
             WithAttribute(p, Damaged) = WithElement(p, k, m)
      BY <1>12
    <3>3. "tag" \in Places \ {"end tag"}
      BY <1>4
    <3> QED
      BY <1>9, <2>1, <3>1, <3>2, <3>3
  <2>4. CASE a.kind \notin {"quote", "attribute"}
    <3>1. q = WithAttribute(p, PieceOf(a))
      BY <1>1, <1>14, <2>4 DEF q, ParseAtom
    <3> QED
      BY <1>5, <1>11, <1>12, <1>14, <2>1, <3>1
  <2> QED
    BY <2>2, <2>3, <2>4
<1>15. CASE at = "next value"
  <2>1. q = IF a.kind \in {"quote", "attribute"} THEN Reaches(p, "next tag") ELSE p
    BY <1>1, <1>15 DEF q, ParseAtom
  <2> QED
    BY <1>4, <1>6, <1>7, <1>15, <2>1
<1>16. CASE at = "end tag"
  <2>1. CASE a.kind = "close" /\ ClosesCursor(p, a.of)
    <3>1. q = Popped(p)
      BY <1>1, <1>16, <2>1 DEF q, ParseAtom
    <3>2. os # <<>>
      BY <1>1, <2>1 DEF ClosesCursor
    <3> QED
      BY <1>8, <2>1, <3>1, <3>2
  <2>2. CASE a.kind = "text"
    <3>1. q = Pushed(p, Damaged)
      BY <1>1, <1>16, <2>2 DEF q, ParseAtom
    <3> QED
      BY <1>10, <1>16, <3>1
  <2>3. CASE a.kind # "text" /\ ~(a.kind = "close" /\ ClosesCursor(p, a.of))
    <3>1. q = Reaches(p, "failed")
      BY <1>1, <1>16, <2>3 DEF q, ParseAtom
    <3> QED
      BY <1>4, <1>6, <3>1
  <2> QED
    BY <2>1, <2>2, <2>3
<1>17. CASE at \in {"name", "tag", "next tag"}
  <2>1. os # <<>>
    BY <1>4, <1>17
  <2>2. CASE at = "name" /\ a.kind = "text"
    <3>1. q = Renamed(p)
      BY <1>1, <2>2 DEF q, ParseAtom
    <3> QED
      BY <1>5, <1>11, <1>12, <2>1, <2>2, <3>1
  <2>3. CASE a.kind = "attribute"
    <3>1. q = Reaches(p, "value") \/ q = Reaches(p, "next value")
      BY <1>1, <1>17, <2>3 DEF q, ParseAtom
    <3> QED
      BY <1>4, <1>6, <2>1, <3>1
  <2>4. CASE a.kind = "gt"
    <3>1. q = Reaches(p, "content")
      BY <1>1, <1>17, <2>4 DEF q, ParseAtom
    <3> QED
      BY <1>4, <1>6, <3>1
  <2>5. CASE a.kind = "slashgt"
    <3>1. q = Popped(p)
      BY <1>1, <1>17, <2>5 DEF q, ParseAtom
    <3> QED
      BY <1>8, <2>1, <2>5, <3>1
  <2>6. CASE ~(at = "name" /\ a.kind = "text") /\ a.kind \notin {"attribute", "gt", "slashgt"}
    <3>1. q = Reaches(p, "failed")
      BY <1>1, <1>17, <2>6 DEF q, ParseAtom
    <3> QED
      BY <1>4, <1>6, <3>1
  <2> QED
    BY <2>2, <2>3, <2>4, <2>5, <2>6
<1>18. CASE at = "failed"
  <2>1. q = Reaches(p, "failed")
    BY <1>1, <1>18 DEF q, ParseAtom
  <2> QED
    BY <1>4, <1>6, <2>1
<1> QED
  BY <1>13, <1>14, <1>15, <1>16, <1>17, <1>18 DEF Places, InTag

\* The end mark takes nothing that is missed.
EndsWell(at, text) ==
    \/ at = "content" /\ ~IsData(Last(text))
    \/ at = "end tag" /\ ~EntityBefore(text)
    \/ at = "failed"

\* The end of the text changes the innermost element, if any.
LEMMA EndRead ==
    ASSUME NEW U, Damaged \in U, NEW ns \in Seq(Node(U, U)), NEW os \in Seq(Nat),
           NEW at \in Places, os # <<>> => Last(os) \in DOMAIN ns,
           at \in InTag => os # <<>>, NEW text
    PROVE  LET ms == EndOfText(State(ns, os, at), text).nodes IN
           /\ ms \in Seq(Node(U, U))
           /\ ms = ns \/ (os # <<>> /\ AltersOnly(ns, Last(os), ms))
           /\ EndsWell(at, text) => ms = ns
<1> DEFINE p == State(ns, os, at)
           k == Last(os)
           q == EndOfText(p, text)
           Goal == /\ q.nodes \in Seq(Node(U, U))
                   /\ q.nodes = ns \/ (os # <<>> /\ AltersOnly(ns, Last(os), q.nodes))
                   /\ EndsWell(at, text) => q.nodes = ns
<1>1. p.nodes = ns /\ p.open = os /\ p.at = at /\ Cursor(p) = k
  BY DEF State, Cursor
<1>2. \A y : State(y, os, at).nodes = y
  BY DEF State
<1>3. os # <<>> => \A m \in OtherElements(ns[k], U) : \E ms \in Seq(Node(U, U)) :
         WithElement(State(ns, os, at), k, m) = State(ms, os, at) /\ AltersOnly(ns, k, ms)
  <2>1. os # <<>> => k \in DOMAIN ns
    OBVIOUS
  <2> HIDE DEF k
  <2> QED
    BY <2>1, InnermostAltered
<1> HIDE DEF k
<1> SUFFICES Goal
  BY DEF p
<1> HIDE DEF q
<1>4. ASSUME os # <<>>, ~EndsWell(at, text), NEW m \in OtherElements(ns[k], U),
             q = WithElement(p, k, m)
      PROVE  Goal
  <2>1. PICK ms \in Seq(Node(U, U)) :
           WithElement(p, k, m) = State(ms, os, at) /\ AltersOnly(ns, k, ms)
    BY <1>3, <1>4
  <2>2. q.nodes = ms
    BY <1>2, <1>4, <2>1
  <2> QED
    BY <1>4, <2>1, <2>2 DEF k
<1>5. CASE q = p
  BY <1>1, <1>5
<1> HIDE DEF Goal, p
<1>6. /\ os # <<>> => \E m \in OtherElements(ns[k], U) :
                         WithText(p, Damaged) = WithElement(p, k, m)
      /\ \E m \in OtherElements(ns[k], U) : WithAttribute(p, Damaged) = WithElement(p, k, m)
      /\ \E m \in OtherElements(ns[k], U) : Renamed(p) = WithElement(p, k, m)
  <2> DEFINE u == [ns[k] EXCEPT !.text = Append(ns[k].text, Damaged)]
             v == [ns[k] EXCEPT !.attribute = Append(ns[k].attribute, Damaged)]
             w == [ns[k] EXCEPT !.name = Damaged]
  <2>1. {u, v, w} \subseteq OtherElements(ns[k], U)
    BY DEF OtherElements
  <2>2. os # <<>> => WithText(p, Damaged) = WithElement(p, k, u)
    BY <1>1 DEF WithText, WithElement
  <2>3. WithAttribute(p, Damaged) = WithElement(p, k, v)
    BY <1>1 DEF WithAttribute, WithElement
  <2>4. Renamed(p) = WithElement(p, k, w)
    BY <1>1 DEF Renamed, WithElement
  <2> HIDE DEF u, v, w
  <2> QED
    BY <2>1, <2>2, <2>3, <2>4
<1>7. CASE q = Renamed(p) /\ at = "name"
  BY <1>4, <1>6, <1>7 DEF InTag, EndsWell
<1>8. CASE q = WithAttribute(p, Damaged) /\ at \in {"value", "tag"}
  BY <1>4, <1>6, <1>8 DEF InTag, EndsWell
<1>9. CASE q = WithText(p, Damaged) /\ ~EndsWell(at, text)
  <2>1. CASE os = <<>>
    <3>1. q = p
      BY <1>1, <1>9, <2>1 DEF WithText
    <3> QED
      BY <1>5, <3>1
  <2>2. CASE os # <<>>
    BY <1>4, <1>6, <1>9, <2>2
  <2> QED
    BY <2>1, <2>2
<1>10. \/ q = p
       \/ q = Renamed(p) /\ at = "name"
       \/ q = WithAttribute(p, Damaged) /\ at \in {"value", "tag"}
       \/ q = WithText(p, Damaged) /\ ~EndsWell(at, text)
  BY <1>1 DEF q, EndOfText, EndsWell
<1> QED
  BY <1>5, <1>7, <1>8, <1>9, <1>10

\* Elements ms that begin with the elements ns, none of which is open any more.
Grown(ns, ms, l) ==
    /\ Len(ms) >= Len(ns) /\ \A i \in 1 .. Len(ns) : ms[i] = ns[i]
    /\ \A j \in DOMAIN l : l[j] \in (Len(ns) + 1) .. Len(ms)
    /\ Len(ms) > Len(ns) => ms[Len(ns) + 1].depth = 1

\* The last of the open elements, and those that are open without it.
LEMMA OpenElements ==
    ASSUME NEW os \in Seq(Nat), os # <<>>
    PROVE  /\ Last(os) \in Nat /\ Front(os) \in Seq(Nat)
           /\ \E j \in DOMAIN os : Last(os) = os[j]
           /\ \A j \in DOMAIN Front(os) : j \in DOMAIN os /\ Front(os)[j] = os[j]
<1>1. PICK s \in Seq(Nat), e \in Nat : os = Append(s, e)
  BY SequenceEmptyOrAppend
<1>2. Last(os) = e /\ Front(os) = s
  BY <1>1, EndOfAppend
<1>3. /\ Len(s) \in Nat /\ Len(os) = Len(s) + 1 /\ os[Len(s) + 1] = e
      /\ \A j \in 1 .. Len(s) : os[j] = s[j]
      /\ DOMAIN os = 1 .. Len(os) /\ DOMAIN s = 1 .. Len(s)
  BY <1>1, AppendProperties, LenProperties
<1>4. Len(s) + 1 \in DOMAIN os /\ \A j \in 1 .. Len(s) : j \in DOMAIN os
  BY <1>3
<1> QED
  BY <1>2, <1>3, <1>4

\* An element that changes is none of the first.
LEMMA AltersGrown ==
    ASSUME NEW U, NEW ns \in Seq(Node(U, U)), NEW ms \in Seq(Node(U, U)), NEW l,
           Grown(ns, ms, l), NEW k \in (Len(ns) + 1) .. Len(ms),
           NEW xs \in Seq(Node(U, U)), AltersOnly(ms, k, xs)
    PROVE  Grown(ns, xs, l)
<1>1. /\ Len(ns) \in Nat /\ Len(ms) \in Nat /\ Len(xs) = Len(ms) /\ k \in Nat
      /\ Len(ms) >= Len(ns) /\ Len(ms) > Len(ns) => Len(ns) + 1 \in 1 .. Len(ms)
  BY LenProperties DEF AltersOnly, Grown
<1>2. \A i \in 1 .. Len(ms) : (i # k => xs[i] = ms[i]) /\ xs[i].depth = ms[i].depth
  BY DEF AltersOnly
<1>3. \A i \in 1 .. Len(ns) : i \in 1 .. Len(ms) /\ i # k
  BY <1>1
<1> QED
  BY <1>1, <1>2, <1>3 DEF Grown

\* What begins the tree stays when one atom more is read.
LEMMA AtomGrown ==
    ASSUME NEW U, NEW ns \in Seq(Node(U, U)), NEW ms \in Seq(Node(U, U)), NEW l \in Seq(Nat),
           Grown(ns, ms, l), Damaged \in U, NEW a, a.of \in U,
           NEW xs \in Seq(Node(U, U)), NEW o \in Seq(Nat), NEW at, NEW to,
           AtomMakes(ms, l, at, a, xs, o, to)
    PROVE  Grown(ns, xs, o)
<1>1. /\ Len(ns) \in Nat /\ Len(ms) \in Nat /\ Len(l) \in Nat
      /\ Len(ms) >= Len(ns) /\ \A i \in 1 .. Len(ns) : ms[i] = ns[i]
      /\ \A j \in DOMAIN l : l[j] \in (Len(ns) + 1) .. Len(ms)
      /\ DOMAIN l = 1 .. Len(l)
  BY LenProperties DEF Grown
<1>2. l # <<>> => /\ Last(l) \in (Len(ns) + 1) .. Len(ms)
                  /\ \A j \in DOMAIN Front(l) : Front(l)[j] \in (Len(ns) + 1) .. Len(ms)
  <2> SUFFICES ASSUME l # <<>>
               PROVE  /\ Last(l) \in (Len(ns) + 1) .. Len(ms)
                      /\ \A j \in DOMAIN Front(l) : Front(l)[j] \in (Len(ns) + 1) .. Len(ms)
    OBVIOUS
  <2>1. /\ \E j \in DOMAIN l : Last(l) = l[j]
        /\ \A j \in DOMAIN Front(l) : j \in DOMAIN l /\ Front(l)[j] = l[j]
    BY OpenElements
  <2>2. \A j \in DOMAIN l : l[j] \in (Len(ns) + 1) .. Len(ms)
    BY <1>1
  <2>3. Last(l) \in (Len(ns) + 1) .. Len(ms)
    BY <2>1, <2>2
  <2>4. \A j \in DOMAIN Front(l) : Front(l)[j] \in (Len(ns) + 1) .. Len(ms)
    BY <2>1, <2>2
  <2> QED
    BY <2>3, <2>4
<1>3. CASE xs = ms /\ o = l
  BY <1>3
<1>4. CASE l # <<>> /\ o = l /\ AltersOnly(ms, Last(l), xs)
  BY <1>2, <1>4, AltersGrown
<1>5. CASE l # <<>> /\ o = Front(l) /\ xs = ms
  BY <1>2, <1>5 DEF Grown
<1>6. ASSUME NEW tag \in {a.of, Damaged}, xs = Append(ms, Elem(tag, Len(l) + 1, <<>>, <<>>)),
             o = Append(l, Len(ms) + 1)
      PROVE  Grown(ns, xs, o)
  <2> DEFINE x == Elem(tag, Len(l) + 1, <<>>, <<>>)
             n == Len(ms) + 1
  <2>1. x \in Node(U, U) /\ x.depth = Len(l) + 1
    <3>1. <<>> \in Seq(U) /\ Len(l) + 1 \in Nat
      BY <1>1
    <3> QED
      BY <3>1 DEF Elem, Node
  <2>2. n \in Nat /\ n = Len(ms) + 1
    BY <1>1
  <2> HIDE DEF x
  <2>3. /\ Len(xs) = Len(ms) + 1 /\ xs[Len(ms) + 1] = x
        /\ \A i \in 1 .. Len(ms) : xs[i] = ms[i]
    BY <1>6, <2>1, AppendProperties DEF x
  <2> HIDE DEF n
  <2>4. /\ Len(o) = Len(l) + 1 /\ o[Len(l) + 1] = n
        /\ \A j \in 1 .. Len(l) : o[j] = l[j]
        /\ DOMAIN o = 1 .. Len(o)
    <3>1. o = Append(l, n)
      BY <1>6 DEF n
    <3> QED
      BY <2>2, <3>1, AppendProperties, LenProperties
  <2>5. \A j \in DOMAIN o : o[j] \in (Len(ns) + 1) .. Len(xs)
    <3> TAKE j \in DOMAIN o
    <3>1. CASE j = Len(l) + 1
      BY <1>1, <2>2, <2>3, <2>4, <3>1
    <3>2. CASE j # Len(l) + 1
      <4>1. j \in 1 .. Len(l)
        BY <1>1, <2>4, <3>2
      <4>2. o[j] = l[j] /\ l[j] \in (Len(ns) + 1) .. Len(ms)
        BY <1>1, <2>4, <4>1
      <4> QED
        BY <1>1, <2>3, <4>2
    <3> QED
      BY <3>1, <3>2
  <2>6. Len(xs) >= Len(ns) /\ \A i \in 1 .. Len(ns) : xs[i] = ns[i]
    BY <1>1, <2>3
  <2>7. xs[Len(ns) + 1].depth = 1
    <3>1. CASE Len(ms) = Len(ns)
      <4>1. l = <<>>
        <5>1. DOMAIN l = {}
          BY <1>1, <3>1
        <5>2. Len(l) = 0
          BY <1>1, <5>1
        <5> QED
          BY <5>2, EmptySeq
      <4>2. Len(l) + 1 = 1
        BY <4>1
      <4> QED
        BY <2>1, <2>3, <3>1, <4>2
    <3>2. CASE Len(ms) # Len(ns)
      <4>1. Len(ns) + 1 \in 1 .. Len(ms) /\ ms[Len(ns) + 1].depth = 1
        BY <1>1, <3>2 DEF Grown
      <4> QED
        BY <2>3, <4>1
    <3> QED
      BY <3>1, <3>2
  <2> QED
    BY <2>5, <2>6, <2>7 DEF Grown
<1> QED
  BY <1>3, <1>4, <1>5, <1>6 DEF AtomMakes

\* What comes behind a document changes nothing of its tree; an element that
\* comes there is next to the root.
LEMMA RestRead ==
    ASSUME NEW U, Damaged \in U, NEW ns \in Seq(Node(U, U)), NEW A, \A a \in A : a.of \in U
    PROVE  \A text \in Seq(A) :
              \E ms \in Seq(Node(U, U)) : \E l \in Seq(Nat) : \E to \in Places :
                 /\ Leads(State(ns, <<>>, "content"), text, State(ms, l, to))
                 /\ Grown(ns, ms, l) /\ (to \in InTag => l # <<>>)
<1> DEFINE p == State(ns, <<>>, "content")
           Good(text, ms, l, to) == /\ Leads(p, text, State(ms, l, to))
                                    /\ Grown(ns, ms, l) /\ (to \in InTag => l # <<>>)
           S == {text \in Seq(A) : \E ms \in Seq(Node(U, U)) : \E l \in Seq(Nat) :
                                      \E to \in Places : Good(text, ms, l, to)}
<1>1. <<>> \in S
  <2>1. Leads(p, <<>>, p)
    BY LeadsNothing
  <2>2. Grown(ns, ns, <<>>)
    BY LenProperties DEF Grown
  <2>3. Good(<<>>, ns, <<>>, "content")
    BY <2>1, <2>2 DEF InTag
  <2>4. "content" \in Places /\ <<>> \in Seq(Nat) /\ <<>> \in Seq(A)
    BY DEF Places
  <2> HIDE DEF Good
  <2> QED
    BY <2>3, <2>4
<1>2. ASSUME NEW s \in Seq(A), NEW a \in A, s \in S PROVE Append(s, a) \in S
  <2>1. PICK ms \in Seq(Node(U, U)), l \in Seq(Nat), to \in Places : Good(s, ms, l, to)
    <3> HIDE DEF Good
    <3> QED
      BY <1>2
  <2>2. l # <<>> => Last(l) \in DOMAIN ms
    <3>1. /\ Len(ns) \in Nat /\ DOMAIN ms = 1 .. Len(ms)
          /\ \A j \in DOMAIN l : l[j] \in (Len(ns) + 1) .. Len(ms)
      BY <2>1, LenProperties DEF Grown
    <3>2. l # <<>> => \E j \in DOMAIN l : Last(l) = l[j]
      BY OpenElements
    <3> QED
      BY <3>1, <3>2
  <2>3. to \in InTag => l # <<>>
    BY <2>1
  <2>4. a.of \in U
    BY <1>2
  <2>5. PICK xs \in Seq(Node(U, U)), o \in Seq(Nat), t \in Places :
           /\ ParseAtom(State(ms, l, to), a) = State(xs, o, t)
           /\ AtomMakes(ms, l, to, a, xs, o, t)
    BY <2>2, <2>3, <2>4, AtomRead
  <2>6. Grown(ns, xs, o)
    BY <2>1, <2>4, <2>5, AtomGrown
  <2>7. Leads(p, Append(s, a), State(xs, o, t))
    <3> DEFINE q == State(ms, l, to)
    <3>1. Leads(p, s, q)
      BY <2>1
    <3> HIDE DEF p, q
    <3>2. Leads(p, Append(s, a), ParseAtom(q, a))
      BY <1>2, <3>1, LeadsAtom
    <3> QED
      BY <2>5, <3>2 DEF q
  <2>8. Good(Append(s, a), xs, o, t)
    BY <2>5, <2>6, <2>7 DEF AtomMakes
  <2>9. Append(s, a) \in Seq(A)
    BY <1>2, AppendProperties
  <2> HIDE DEF Good
  <2> QED
    BY <2>8, <2>9
<1> HIDE DEF S
<1>3. \A text \in Seq(A) : text \in S
  BY <1>1, <1>2, SequenceInduction
<1>4. \A text \in Seq(A) : \E ms \in Seq(Node(U, U)) : \E l \in Seq(Nat) :
         \E to \in Places : Good(text, ms, l, to)
  <2> HIDE DEF Good
  <2> QED
    BY <1>3 DEF S
<1> QED
  BY <1>4

\* A text of which the first part is a document: its elements come first.
LEMMA ReadBeyond ==
    ASSUME NEW U, Damaged \in U, NEW ns \in Seq(Node(U, U)), NEW A, \A a \in A : a.of \in U,
           NEW s \in Seq(A), Leads(StartOfText, s, State(ns, <<>>, "content")), NEW t \in Seq(A)
    PROVE  /\ Parse(s \o t) \in Seq(Node(U, U))
           /\ Grown(ns, Parse(s \o t), <<>>)
           /\ t = <<>> => Parse(s \o t) = ns
<1> DEFINE p == State(ns, <<>>, "content")
           text == s \o t
           tree == Parse(text)
<1>1. PICK ms \in Seq(Node(U, U)), l \in Seq(Nat), to \in Places :
         /\ Leads(p, t, State(ms, l, to))
         /\ Grown(ns, ms, l) /\ (to \in InTag => l # <<>>)
  BY RestRead
<1> DEFINE q == State(ms, l, to)
           xs == EndOfText(q, text).nodes
<1>2. text \in Seq(A) /\ Len(text) \in Nat
  BY ConcatProperties, LenProperties
<1>3. Leads(StartOfText, text, q)
  <2>1. Leads(StartOfText, s, p) /\ Leads(p, t, q)
    BY <1>1
  <2> HIDE DEF p, q
  <2> QED
    BY <2>1, LeadsOn
<1>4. tree = xs
  <2> HIDE DEF q, text
  <2> QED
    BY <1>2, <1>3, LeadsParse
<1>5. l # <<>> => Last(l) \in (Len(ns) + 1) .. Len(ms)
  <2>1. l # <<>> => \E j \in DOMAIN l : Last(l) = l[j]
    BY OpenElements
  <2> QED
    BY <1>1, <2>1 DEF Grown
<1>6. l # <<>> => Last(l) \in DOMAIN ms
  BY <1>5, LenProperties
<1>7. xs \in Seq(Node(U, U)) /\ (xs = ms \/ (l # <<>> /\ AltersOnly(ms, Last(l), xs)))
  <2> HIDE DEF text
  <2> QED
    BY <1>1, <1>6, EndRead
<1> HIDE DEF xs, tree
<1>8. Grown(ns, xs, l)
  <2>1. CASE xs = ms
    BY <1>1, <2>1
  <2>2. CASE l # <<>> /\ AltersOnly(ms, Last(l), xs)
    BY <1>1, <1>5, <1>7, <2>2, AltersGrown
  <2> QED
    BY <1>7, <2>1, <2>2
<1>9. Grown(ns, xs, <<>>)
  BY <1>8 DEF Grown
<1>10. ASSUME t = <<>> PROVE tree = ns
  <2>1. text = s
    BY <1>10
  <2>2. Len(s) \in Nat
    BY LenProperties
  <2>3. tree = EndOfText(p, s).nodes
    <3>1. Leads(StartOfText, s, p)
      OBVIOUS
    <3> HIDE DEF p
    <3>2. Parse(s) = EndOfText(p, s).nodes
      BY <2>2, <3>1, LeadsParse
    <3> QED
      BY <2>1, <3>2 DEF tree
  <2>4. p.nodes = ns /\ p.open = <<>> /\ p.at = "content"
    BY DEF State
  <2>5. EndOfText(p, s) = p
    BY <2>4 DEF EndOfText
  <2> QED
    BY <2>3, <2>4, <2>5
<1> QED
  BY <1>4, <1>7, <1>9, <1>10 DEF tree, text

-----------------------------------------------------------------------------
(* Reading the beginning of what was printed. *)

Begins(u, s) == Len(u) <= Len(s) /\ \A i \in 1 .. Len(u) : u[i] = s[i]

\* What begins a text of two parts ends in one of them.
LEMMA BeginsConcat ==
    ASSUME NEW D, NEW s \in Seq(D), NEW t \in Seq(D), NEW u \in Seq(D), Begins(u, s \o t)
    PROVE  \/ Begins(u, s)
           \/ \E v \in Seq(D) : v # <<>> /\ u = s \o v /\ Begins(v, t)
<1> DEFINE L == Len(s)
           M == Len(u)
           c == s \o t
<1>1. L \in Nat /\ M \in Nat /\ Len(t) \in Nat
  BY LenProperties
<1>2. /\ Len(c) = L + Len(t)
      /\ \A i \in 1 .. (L + Len(t)) : c[i] = IF i <= L THEN s[i] ELSE t[i - L]
  BY ConcatProperties
<1>3. M <= L + Len(t) /\ \A i \in 1 .. M : u[i] = c[i]
  BY <1>2 DEF Begins
<1>4. CASE M <= L
  <2>1. \A i \in 1 .. M : u[i] = s[i]
    <3> HIDE DEF c, L, M
    <3> QED
      BY <1>1, <1>2, <1>3, <1>4
  <2>2. Begins(u, s)
    BY <1>4, <2>1 DEF Begins
  <2> QED
    BY <2>2
<1>5. CASE M > L
  <2> DEFINE v == [i \in 1 .. (M - L) |-> u[L + i]]
             w == s \o v
  <2>1. \A i \in 1 .. M : u[i] \in D
    BY LenProperties
  <2>2. v \in Seq(D) /\ Len(v) = M - L /\ \A i \in 1 .. (M - L) : v[i] = u[L + i]
    <3> HIDE DEF M, L
    <3>1. M - L \in Nat /\ \A i \in 1 .. (M - L) : L + i \in 1 .. M
      BY <1>1, <1>5
    <3>2. \A i \in 1 .. (M - L) : u[L + i] \in D
      BY <2>1, <3>1
    <3> QED
      BY <3>1, <3>2
  <2> HIDE DEF v, c
  <2>3. /\ w \in Seq(D) /\ Len(w) = L + (M - L)
        /\ \A i \in 1 .. (L + (M - L)) : w[i] = IF i <= L THEN s[i] ELSE v[i - L]
    BY <2>2, ConcatProperties
  <2>4. \A i \in 1 .. M : w[i] = u[i]
    <3> TAKE i \in 1 .. M
    <3> HIDE DEF w
    <3>0. /\ i \in 1 .. (L + (M - L)) /\ i \in 1 .. (L + Len(t)) /\ i \in Nat
      BY <1>1, <1>3
    <3>1. CASE i <= L
      <4>1. w[i] = s[i] /\ c[i] = s[i] /\ u[i] = c[i]
        BY <1>2, <1>3, <2>3, <3>0, <3>1
      <4> QED
        BY <4>1
    <3>2. CASE ~(i <= L)
      <4>1. i - L \in 1 .. (M - L) /\ L + (i - L) = i
        BY <1>1, <3>0, <3>2
      <4>2. w[i] = v[i - L] /\ v[i - L] = u[L + (i - L)]
        BY <2>2, <2>3, <3>0, <3>2, <4>1
      <4> QED
        BY <4>1, <4>2
    <3> QED
      BY <3>1, <3>2
  <2>5. Len(w) = M
    BY <1>1, <2>3
  <2> HIDE DEF w
  <2>6. w = u
    BY <2>3, <2>4, <2>5, SeqEqual
  <2>7. Begins(v, t)
    <3>1. Len(v) <= Len(t)
      <4> HIDE DEF L, M
      <4> QED
        BY <1>1, <1>3, <2>2
    <3>2. ASSUME NEW i \in 1 .. Len(v) PROVE v[i] = t[i]
      <4> HIDE DEF L, M
      <4>1. /\ i \in 1 .. (M - L) /\ L + i \in 1 .. M /\ L + i \in 1 .. (L + Len(t))
            /\ ~(L + i <= L) /\ (L + i) - L = i
        BY <1>1, <1>3, <1>5, <2>2
      <4>2. v[i] = u[L + i] /\ u[L + i] = c[L + i] /\ c[L + i] = t[(L + i) - L]
        BY <1>2, <1>3, <2>2, <4>1
      <4> QED
        BY <4>1, <4>2
    <3> QED
      BY <3>1, <3>2 DEF Begins
  <2>8. v # <<>>
    <3>1. Len(v) # 0
      <4> HIDE DEF L, M
      <4> QED
        BY <1>1, <1>5, <2>2
    <3>2. Len(<<>>) = 0
      OBVIOUS
    <3> QED
      BY <3>1, <3>2
  <2> QED
    BY <2>2, <2>6, <2>7, <2>8 DEF w
<1>6. M <= L \/ M > L
  BY <1>1
<1> QED
  BY <1>4, <1>5, <1>6

\* What begins a sequence has its members.
LEMMA BeginsMember ==
    ASSUME NEW D, NEW D2, NEW s \in Seq(D), NEW u \in Seq(D2), Begins(u, s)
    PROVE  u \in Seq(D)
<1>1. Len(u) \in Nat /\ Len(s) \in Nat /\ Len(u) <= Len(s)
  BY LenProperties DEF Begins
<1>2. \A i \in 1 .. Len(u) : i \in 1 .. Len(s) /\ u[i] = s[i]
  BY <1>1 DEF Begins
<1>3. \A i \in 1 .. Len(u) : u[i] \in D
  BY <1>2, LenProperties
<1>4. u \in [1 .. Len(u) -> D]
  <2>1. u \in [1 .. Len(u) -> D2]
    BY LenProperties
  <2> QED
    BY <1>3, <2>1
<1> QED
  BY <1>1, <1>4, SeqDef

\* What begins a single one and is not empty is that one.
LEMMA BeginsOne ==
    ASSUME NEW D, NEW v \in Seq(D), v # <<>>, NEW a \in D, Begins(v, <<a>>)
    PROVE  v = <<a>>
<1> DEFINE c == <<a>>
<1>1. Len(v) \in Nat /\ Len(v) # 0
  BY EmptySeq
<1>2. c \in Seq(D) /\ Len(c) = 1
  OBVIOUS
<1> HIDE DEF c
<1>3. Len(v) = Len(c) /\ \A i \in 1 .. Len(v) : v[i] = c[i]
  BY <1>1, <1>2 DEF Begins, c
<1> QED
  BY <1>2, <1>3, SeqEqual DEF c

\* A sequence of members of a set is a sequence over that set.
LEMMA MembersOf ==
    ASSUME NEW D, NEW E, NEW s \in Seq(D), \A i \in 1 .. Len(s) : s[i] \in E
    PROVE  s \in Seq(E)
<1>1. Len(s) \in Nat /\ s \in [1 .. Len(s) -> D]
  BY LenProperties
<1>2. s \in [1 .. Len(s) -> E]
  BY <1>1
<1> QED
  BY <1>1, <1>2, SeqDef

\* The atoms of a start tag, and of the text behind it, that neither begin it nor
\* end the element.
Inner(V) == {Attribute, Quote, Gt} \cup DataOf(V)

\* What a start tag is made of.
LEMMA StartTagBody ==
    ASSUME NEW N, NEW V, NEW ts, NEW k, ts[k] \in Node(N, V)
    PROVE  \E body \in Seq(AtomsOver(N, V)) :
              /\ StartTag(ts, k) = <<Open(ts[k].name)>> \o body
              /\ \/ body \in Seq(Inner(V))
                 \/ IsEmpty(ts, k) /\ \E y \in Seq(Inner(V)) : body = y \o <<SlashGt>>
<1> DEFINE A == AtomsOver(N, V)
           I == Inner(V)
           value == ts[k].attribute
           t == ts[k].text
           first == <<Open(ts[k].name)>>
           second == IF value = <<>> THEN <<>> ELSE <<Attribute>> \o Escaped(value) \o <<Quote>>
           third == IF IsEmpty(ts, k) THEN <<SlashGt>> ELSE <<Gt>> \o Escaped(t)
<1>1. ts[k].name \in N /\ value \in Seq(V) /\ t \in Seq(V)
  BY DEF Node
<1>2. /\ Open(ts[k].name) \in A /\ SlashGt \in A /\ I \subseteq A
      /\ Attribute \in I /\ Quote \in I /\ Gt \in I /\ DataOf(V) \subseteq I
  BY <1>1, TagAtomsAre DEF Inner
<1> HIDE DEF A, I
<1>3. \A v \in Seq(V) : Escaped(v) \in Seq(I)
  <2>1. \A v \in Seq(V) : Escaped(v) \in Seq(DataOf(V))
    BY EscapedIs
  <2> QED
    BY <1>2, <2>1, SeqMonotonic
<1>4. \A a, D : a \in D => <<a>> \in Seq(D)
  OBVIOUS
<1>5. first \in Seq(A) /\ <<SlashGt>> \in Seq(A) /\ <<Gt>> \in Seq(I)
      /\ <<Attribute>> \in Seq(I) /\ <<Quote>> \in Seq(I) /\ <<>> \in Seq(I)
  BY <1>2, <1>4
<1>6. Escaped(value) \in Seq(I) /\ Escaped(t) \in Seq(I)
  BY <1>1, <1>3
<1>7. second \in Seq(I)
  <2>1. <<Attribute>> \o Escaped(value) \in Seq(I)
    <3> HIDE DEF value
    <3> QED
      BY <1>5, <1>6, ConcatProperties
  <2>2. (<<Attribute>> \o Escaped(value)) \o <<Quote>> \in Seq(I)
    <3> DEFINE x == <<Attribute>> \o Escaped(value)
    <3> HIDE DEF x, value
    <3> QED
      BY <1>5, <2>1, ConcatProperties DEF x
  <2> HIDE DEF value
  <2> QED
    BY <1>5, <2>2
<1>8. StartTag(ts, k) = (first \o second) \o third
  BY DEF StartTag
<1>9. second \in Seq(A) /\ third \in Seq(A) /\ (~IsEmpty(ts, k) => third \in Seq(I))
  <2>1. second \in Seq(A)
    <3> HIDE DEF second
    <3> QED
      BY <1>2, <1>7, SeqMonotonic
  <2>2. <<Gt>> \o Escaped(t) \in Seq(I)
    <3> HIDE DEF t
    <3> QED
      BY <1>5, <1>6, ConcatProperties
  <2>3. <<Gt>> \o Escaped(t) \in Seq(A)
    <3> DEFINE x == <<Gt>> \o Escaped(t)
    <3> HIDE DEF x, t
    <3> QED
      BY <1>2, <2>2, SeqMonotonic DEF x
  <2> HIDE DEF second, t
  <2> QED
    BY <1>5, <2>1, <2>2, <2>3
<1> DEFINE body == second \o third
<1>10. third = <<SlashGt>> \/ ~IsEmpty(ts, k)
  OBVIOUS
<1> HIDE DEF first, second, third
<1>11. body \in Seq(A) /\ StartTag(ts, k) = first \o body
  BY <1>5, <1>8, <1>9, ConcatProperties, ConcatAssociative
<1>12. CASE IsEmpty(ts, k)
  <2>1. body = second \o <<SlashGt>>
    BY <1>10, <1>12
  <2> HIDE DEF body
  <2> QED
    BY <1>7, <1>11, <1>12, <2>1 DEF first, A, I
<1>13. CASE ~IsEmpty(ts, k)
  <2>1. body \in Seq(I)
    BY <1>7, <1>9, <1>13, ConcatProperties
  <2> HIDE DEF body
  <2> QED
    BY <1>11, <2>1 DEF first, A, I
<1> QED
  BY <1>12, <1>13

\* The second atom of an end tag comes behind the first.
Alternates(s) == \A i \in 1 .. Len(s) : s[i].kind = "close" <=> i # 1 /\ s[i - 1].kind = "lt"

\* What begins such a sequence is one.
LEMMA BeginsAlternates ==
    ASSUME NEW D, NEW s \in Seq(D), Alternates(s), NEW D2, NEW u \in Seq(D2), Begins(u, s)
    PROVE  Alternates(u)
<1>1. Len(u) \in Nat /\ Len(s) \in Nat /\ Len(u) <= Len(s)
  BY LenProperties DEF Begins
<1>2. \A i \in 1 .. Len(u) : u[i] = s[i]
  BY DEF Begins
<1> SUFFICES ASSUME NEW i \in 1 .. Len(u)
             PROVE  u[i].kind = "close" <=> i # 1 /\ u[i - 1].kind = "lt"
  BY DEF Alternates
<1>3. i \in 1 .. Len(s) /\ u[i] = s[i] /\ (i # 1 => u[i - 1] = s[i - 1])
  <2>1. i # 1 => i - 1 \in 1 .. Len(u)
    BY <1>1
  <2> QED
    BY <1>1, <1>2, <2>1
<1>4. s[i].kind = "close" <=> i # 1 /\ s[i - 1].kind = "lt"
  BY <1>3 DEF Alternates
<1> QED
  BY <1>3, <1>4

\* End tags are made of two kinds of atoms, in turn.
LEMMA EndTagAtoms ==
    ASSUME NEW N, NEW V, NEW ts \in Seq(Node(N, V)), NEW d \in Nat, IsTree(ts, d),
           NEW k \in 1 .. Len(ts), EndTags(ts, k) \in Seq(AtomsOver(N, V))
    PROVE  /\ EndTags(ts, k) \in Seq({a \in AtomsOver(N, V) : a.kind \in {"lt", "close"}})
           /\ Alternates(EndTags(ts, k))
<1> DEFINE A == AtomsOver(N, V)
           from == IF IsEmpty(ts, k) THEN ts[k].depth - 1 ELSE ts[k].depth
           next == NextDepth(ts, k)
           m == from - next + 1
           B == {Lt} \cup {Close(ts[LastAt(ts, k, from - i + 1)].name) : i \in 1 .. m}
           ss == [i \in 1 .. m |-> <<Lt, Close(ts[LastAt(ts, k, from - i + 1)].name)>>]
<1>1. m \in Nat
  BY TreeElement
<1>2. ss \in Seq(Seq(B))
  <2>1. \A i \in 1 .. m : ss[i] \in Seq(B)
    <3> SUFFICES ASSUME NEW i \in 1 .. m PROVE <<Lt, Close(ts[LastAt(ts, k, from - i + 1)].name)>> \in Seq(B)
      OBVIOUS
    <3>1. Lt \in B /\ Close(ts[LastAt(ts, k, from - i + 1)].name) \in B
      OBVIOUS
    <3> HIDE DEF B
    <3> QED
      BY <3>1
  <2>2. ss = [i \in 1 .. m |-> ss[i]]
    OBVIOUS
  <2> HIDE DEF ss, m, B
  <2>3. [i \in 1 .. m |-> ss[i]] \in Seq(Seq(B))
    BY <1>1, <2>1
  <2> QED
    BY <2>2, <2>3
<1>3. EndTags(ts, k) = FlattenSeq(ss)
  BY DEF EndTags, NextDepth
<1>4. \A b \in B : b.kind \in {"lt", "close"}
  <2>1. Lt.kind = "lt" /\ \A n : Close(n).kind = "close"
    BY DEF Lt, Close, AtomOf
  <2> HIDE DEF m, from
  <2> QED
    BY <2>1
<1> HIDE DEF B, ss
<1>9. /\ Len(ss) = m
      /\ \A i \in 1 .. m : ss[i] = <<Lt, Close(ts[LastAt(ts, k, from - i + 1)].name)>>
  <2> HIDE DEF m
  <2> QED
    BY <1>1 DEF ss
<1> HIDE DEF m
<1>10. PICK g \in [0 .. m -> Seq(B)] : Flattens(g, ss) /\ FlattenSeq(ss) = g[m]
  BY <1>2, <1>9, FlattenPrefixes
<1>5. FlattenSeq(ss) \in Seq(B)
  <2>1. m \in 0 .. m
    BY <1>1
  <2> QED
    BY <1>10, <2>1
<1> DEFINE Ends(t) == t = <<>> \/ t[Len(t)].kind = "close"
           S == {n \in Nat : n <= m => Alternates(g[n]) /\ Ends(g[n])}
<1>11. 0 \in S
  <2>1. g[0] = <<>>
    BY <1>10 DEF Flattens
  <2> QED
    BY <2>1 DEF Alternates
<1>12. ASSUME NEW n \in Nat, n \in S PROVE n + 1 \in S
  <2> SUFFICES ASSUME n + 1 <= m PROVE Alternates(g[n + 1]) /\ Ends(g[n + 1])
    OBVIOUS
  <2>1. n \in 0 .. m /\ n + 1 \in 1 .. m /\ (n + 1) - 1 = n
    BY <1>1
  <2> DEFINE t == g[n]
             x == Close(ts[LastAt(ts, k, from - (n + 1) + 1)].name)
             y == <<Lt, x>>
  <2>2. t \in Seq(B) /\ Alternates(t) /\ Ends(t)
    BY <1>1, <1>12, <2>1
  <2>3. g[n + 1] = t \o y
    BY <1>9, <1>10, <2>1 DEF Flattens
  <2>4. Lt.kind = "lt" /\ x.kind = "close"
    BY DEF Lt, Close, AtomOf
  <2> HIDE DEF t, x, from
  <2>5. /\ y \in Seq({Lt, x}) /\ Len(y) = 2 /\ y[1] = Lt /\ y[2] = x
    OBVIOUS
  <2> HIDE DEF y
  <2> DEFINE c == t \o y
  <2>6. /\ Len(t) \in Nat /\ Len(c) = Len(t) + 2
        /\ \A i \in 1 .. Len(t) : c[i] = t[i]
        /\ c[Len(t) + 1] = Lt /\ c[Len(t) + 2] = x
    <3>1. Seq(B) \subseteq Seq(B \cup {x, Lt}) /\ Seq({Lt, x}) \subseteq Seq(B \cup {x, Lt})
      BY SeqMonotonic
    <3>2. t \in Seq(B \cup {x, Lt}) /\ y \in Seq(B \cup {x, Lt})
      BY <2>2, <2>5, <3>1
    <3>3. /\ Len(c) = Len(t) + Len(y)
          /\ \A i \in 1 .. (Len(t) + Len(y)) : c[i] = IF i <= Len(t) THEN t[i] ELSE y[i - Len(t)]
      BY <3>2, ConcatProperties
    <3>4. Len(t) \in Nat
      BY <2>2, LenProperties
    <3> HIDE DEF c
    <3>5. /\ \A i \in 1 .. Len(t) : i \in 1 .. (Len(t) + Len(y)) /\ i <= Len(t)
          /\ Len(t) + 1 \in 1 .. (Len(t) + Len(y)) /\ ~(Len(t) + 1 <= Len(t))
          /\ Len(t) + 2 \in 1 .. (Len(t) + Len(y)) /\ ~(Len(t) + 2 <= Len(t))
          /\ (Len(t) + 1) - Len(t) = 1 /\ (Len(t) + 2) - Len(t) = 2
      BY <2>5, <3>4
    <3>6. /\ \A i \in 1 .. Len(t) : c[i] = t[i]
          /\ c[Len(t) + 1] = y[1] /\ c[Len(t) + 2] = y[2]
      BY <3>3, <3>5
    <3> QED
      BY <2>5, <3>3, <3>4, <3>5, <3>6
  <2> HIDE DEF c
  <2>7. Ends(c)
    BY <2>4, <2>6
  <2>8. ASSUME NEW i \in 1 .. Len(c)
        PROVE  c[i].kind = "close" <=> i # 1 /\ c[i - 1].kind = "lt"
    <3>1. CASE i \in 1 .. Len(t)
      <4>1. c[i] = t[i] /\ (i # 1 => c[i - 1] = t[i - 1])
        <5>1. i # 1 => i - 1 \in 1 .. Len(t)
          BY <2>6, <3>1
        <5> QED
          BY <2>6, <3>1, <5>1
      <4>2. t[i].kind = "close" <=> i # 1 /\ t[i - 1].kind = "lt"
        BY <2>2, <3>1 DEF Alternates
      <4> QED
        BY <4>1, <4>2
    <3>2. CASE i = Len(t) + 1
      <4>1. c[i].kind = "lt"
        BY <2>4, <2>6, <3>2
      <4>2. CASE i # 1
        <5>1. i - 1 = Len(t) /\ Len(t) \in 1 .. Len(t)
          BY <2>6, <3>2, <4>2
        <5>2. t # <<>>
          BY <5>1
        <5>3. c[i - 1].kind = "close"
          BY <2>2, <2>6, <5>1, <5>2
        <5> QED
          BY <4>1, <5>3
      <4> QED
        BY <4>1, <4>2
    <3>3. CASE i = Len(t) + 2
      <4>1. i - 1 = Len(t) + 1 /\ i # 1
        BY <2>6, <3>3
      <4> QED
        BY <2>4, <2>6, <3>3, <4>1
    <3> QED
      BY <2>6, <3>1, <3>2, <3>3
  <2> QED
    BY <2>3, <2>7, <2>8 DEF Alternates, c
<1>13. Alternates(g[m])
  <2> HIDE DEF S
  <2>1. m \in S
    BY <1>1, <1>11, <1>12, Induction
  <2> QED
    BY <1>1, <2>1 DEF S
<1> DEFINE s == EndTags(ts, k)
<1>6. s \in Seq(B) /\ s \in Seq(A)
  BY <1>3, <1>5
<1> HIDE DEF s, A
<1>7. \A i \in 1 .. Len(s) : s[i] \in {a \in A : a.kind \in {"lt", "close"}}
  BY <1>4, <1>6, LenProperties
<1>8. s \in Seq({a \in A : a.kind \in {"lt", "close"}})
  BY <1>6, <1>7, MembersOf
<1> QED
  BY <1>3, <1>8, <1>10, <1>13 DEF s, A

\* Within a start tag, and in the text behind it, only that element changes.
LEMMA InnerRead ==
    ASSUME NEW U, NEW ns \in Seq(Node(U, U)), NEW os \in Seq(Nat), os # <<>>,
           Last(os) \in DOMAIN ns, Damaged \in U, NEW at \in Places, at # "end tag", NEW A,
           \A a \in A : a.of \in U /\ a.kind \notin {"open", "slashgt", "close", "lt"}
    PROVE  \A text \in Seq(A) :
              \E ms \in Seq(Node(U, U)) : \E to \in Places :
                 /\ Leads(State(ns, os, at), text, State(ms, os, to))
                 /\ AltersOnly(ns, Last(os), ms) /\ to # "end tag"
<1> DEFINE p == State(ns, os, at)
           k == Last(os)
           Good(text, ms, to) == /\ Leads(p, text, State(ms, os, to))
                                 /\ AltersOnly(ns, k, ms) /\ to # "end tag"
           S == {text \in Seq(A) : \E ms \in Seq(Node(U, U)) : \E to \in Places :
                                      Good(text, ms, to)}
<1>1. <<>> \in S
  <2>1. Leads(p, <<>>, p)
    BY LeadsNothing
  <2>2. AltersOnly(ns, k, ns)
    BY DEF AltersOnly
  <2>3. <<>> \in Seq(A)
    BY EmptySeq
  <2> HIDE DEF p, k
  <2>4. Good(<<>>, ns, at)
    BY <2>1, <2>2 DEF p
  <2> HIDE DEF Good
  <2> QED
    BY <2>3, <2>4
<1>2. ASSUME NEW s \in Seq(A), NEW a \in A, s \in S PROVE Append(s, a) \in S
  <2>1. PICK ms \in Seq(Node(U, U)), to \in Places : Good(s, ms, to)
    <3> HIDE DEF Good
    <3> QED
      BY <1>2
  <2>2. k \in DOMAIN ms
    <3>1. Len(ms) = Len(ns)
      BY <2>1 DEF AltersOnly
    <3> QED
      BY <3>1, LenProperties
  <2>3. a.of \in U /\ a.kind \notin {"open", "slashgt", "close", "lt"}
    BY <1>2
  <2>4. PICK xs \in Seq(Node(U, U)), o \in Seq(Nat), t \in Places :
           /\ ParseAtom(State(ms, os, to), a) = State(xs, o, t)
           /\ AtomMakes(ms, os, to, a, xs, o, t)
    BY <2>2, <2>3, AtomRead
  <2>5. o = os /\ (xs = ms \/ AltersOnly(ms, k, xs)) /\ t # "end tag"
    BY <2>1, <2>3, <2>4 DEF AtomMakes
  <2>6. AltersOnly(ns, k, xs)
    BY <2>1, <2>5 DEF AltersOnly
  <2>7. Leads(p, Append(s, a), State(xs, os, t))
    <3> DEFINE q == State(ms, os, to)
    <3>1. Leads(p, s, q)
      BY <2>1
    <3> HIDE DEF p, q
    <3>2. Leads(p, Append(s, a), ParseAtom(q, a))
      BY <1>2, <3>1, LeadsAtom
    <3> QED
      BY <2>4, <2>5, <3>2 DEF q
  <2>8. Good(Append(s, a), xs, t)
    BY <2>5, <2>6, <2>7
  <2>9. Append(s, a) \in Seq(A)
    BY <1>2, AppendProperties
  <2> HIDE DEF Good
  <2> QED
    BY <2>8, <2>9
<1> HIDE DEF S
<1>3. \A text \in Seq(A) : text \in S
  BY <1>1, <1>2, SequenceInduction
<1>4. \A text \in Seq(A) : \E ms \in Seq(Node(U, U)) : \E to \in Places : Good(text, ms, to)
  <2> HIDE DEF Good
  <2> QED
    BY <1>3 DEF S
<1> QED
  BY <1>4

\* One member of a set is a sequence over that set.
LEMMA SequenceOfOne == ASSUME NEW D, NEW a \in D PROVE <<a>> \in Seq(D)
OBVIOUS

\* Nor does anything else if the < of its end tag comes behind.
LEMMA InnerReadOn ==
    ASSUME NEW U, NEW ns \in Seq(Node(U, U)), NEW os \in Seq(Nat), os # <<>>,
           Last(os) \in DOMAIN ns, Damaged \in U, "" \in U,
           NEW at \in Places, at # "end tag", NEW A,
           \A a \in A : a.of \in U /\ a.kind \notin {"open", "slashgt", "close", "lt"},
           NEW text \in Seq(A)
    PROVE  \E ms \in Seq(Node(U, U)) : \E to \in Places :
              /\ Leads(State(ns, os, at), text \o <<Lt>>, State(ms, os, to))
              /\ AltersOnly(ns, Last(os), ms)
<1> DEFINE p == State(ns, os, at)
           k == Last(os)
<1>1. PICK ms \in Seq(Node(U, U)), to \in Places :
         /\ Leads(p, text, State(ms, os, to)) /\ AltersOnly(ns, k, ms) /\ to # "end tag"
  BY InnerRead
<1>2. k \in DOMAIN ms
  <2>1. Len(ms) = Len(ns)
    BY <1>1 DEF AltersOnly
  <2> QED
    BY <2>1, LenProperties
<1>3. Lt.of \in U /\ Lt.kind = "lt"
  BY DEF Lt, AtomOf
<1>4. PICK xs \in Seq(Node(U, U)), o \in Seq(Nat), t \in Places :
         /\ ParseAtom(State(ms, os, to), Lt) = State(xs, o, t)
         /\ AtomMakes(ms, os, to, Lt, xs, o, t)
  BY <1>2, <1>3, AtomRead
<1>5. o = os /\ (xs = ms \/ AltersOnly(ms, k, xs))
  BY <1>1, <1>3, <1>4 DEF AtomMakes
<1>6. AltersOnly(ns, k, xs)
  BY <1>1, <1>5 DEF AltersOnly
<1>7. Leads(p, text \o <<Lt>>, State(xs, os, t))
  <2> DEFINE q == State(ms, os, to)
             r == State(xs, os, t)
  <2>1. Leads(p, text, q) /\ ParseAtom(q, Lt) = r
    BY <1>1, <1>4, <1>5
  <2> HIDE DEF p, q, r
  <2>2. Leads(q, <<Lt>>, r)
    BY <2>1, LeadsOne
  <2>3. text \in Seq(A \cup {Lt}) /\ <<Lt>> \in Seq(A \cup {Lt})
    <3> DEFINE D == A \cup {Lt}
    <3>1. A \subseteq D /\ Lt \in D
      OBVIOUS
    <3> HIDE DEF D
    <3>2. text \in Seq(D)
      BY <3>1, SeqMonotonic
    <3>4. <<Lt>> \in Seq(D)
      BY <3>1, SequenceOfOne
    <3> QED
      BY <3>2, <3>4 DEF D
  <2> QED
    BY <2>1, <2>2, <2>3, LeadsOn DEF r
<1> QED
  BY <1>6, <1>7

\* Open elements are among the parsed ones.
Within(os, ns) == \A j \in DOMAIN os : os[j] \in DOMAIN ns

\* End tags close elements and do nothing else.
Closes(ns, os, text, l, to) ==
    /\ Leads(State(ns, os, "content"), text, State(ns, l, to))
    /\ Within(l, ns) /\ to \in {"content", "end tag", "failed"}
    /\ to = "content" => text = <<>> \/ Last(text).kind = "close"
    /\ to = "end tag" => text # <<>> /\ Last(text).kind = "lt"

\* Within end tags, nothing of the tree changes.
LEMMA ClosingRead ==
    ASSUME NEW ns, NEW os \in Seq(Nat), Within(os, ns), NEW B,
           \A a \in B : a.kind \in {"lt", "close"}
    PROVE  \A text \in Seq(B) : Alternates(text) =>
              \E l \in Seq(Nat) : \E to \in Places : Closes(ns, os, text, l, to)
<1> DEFINE p == State(ns, os, "content")
           Good(s, l, to) == Closes(ns, os, s, l, to)
           S == {s \in Seq(B) : Alternates(s) =>
                                    \E l \in Seq(Nat) : \E to \in Places : Good(s, l, to)}
<1>1. <<>> \in S
  <2>1. Leads(p, <<>>, p)
    BY LeadsNothing
  <2>2. Good(<<>>, os, "content") /\ "content" \in Places
    BY <2>1 DEF Places, Closes
  <2>3. <<>> \in Seq(B)
    BY EmptySeq
  <2> HIDE DEF Good
  <2> QED
    BY <2>2, <2>3
<1>2. ASSUME NEW s \in Seq(B), NEW a \in B, s \in S PROVE Append(s, a) \in S
  <2> DEFINE t == Append(s, a)
  <2>1. /\ t \in Seq(B) /\ Len(s) \in Nat /\ Len(t) = Len(s) + 1 /\ t[Len(s) + 1] = a
        /\ \A i \in 1 .. Len(s) : t[i] = s[i]
    BY <1>2, AppendProperties, LenProperties
  <2>2. Last(t) = a /\ t # <<>>
    BY <1>2, EndOfAppend, <2>1
  <2>3. s # <<>> => Last(s) \in B /\ Last(s) = s[Len(s)] /\ Len(s) # 0
    <3>1. s # <<>> => Len(s) # 0
      BY EmptySeq
    <3>2. Len(s) # 0 => s[Len(s)] \in B
      BY <2>1, LenProperties
    <3> QED
      BY <3>1, <3>2 DEF Last
  <2> HIDE DEF t
  <2> SUFFICES ASSUME Alternates(t)
               PROVE  \E l \in Seq(Nat) : \E to \in Places : Good(t, l, to)
    BY <2>1 DEF t
  <2>4. Alternates(s)
    <3>1. Begins(s, t)
      BY <2>1 DEF Begins
    <3> QED
      BY <2>1, <3>1, BeginsAlternates
  <2>5. a.kind = "close" <=> s # <<>> /\ Last(s).kind = "lt"
    <3>1. t[Len(s) + 1].kind = "close" <=> Len(s) + 1 # 1 /\ t[Len(s) + 1 - 1].kind = "lt"
      BY <2>1 DEF Alternates
    <3>2. CASE s = <<>>
      <4>1. Len(s) + 1 = 1
        BY <3>2
      <4> QED
        BY <2>1, <3>1, <3>2, <4>1
    <3>3. CASE s # <<>>
      <4>1. Len(s) + 1 # 1 /\ Len(s) + 1 - 1 = Len(s) /\ t[Len(s)] = s[Len(s)]
        BY <2>1, <2>3, <3>3
      <4> QED
        BY <2>1, <2>3, <3>1, <3>3, <4>1
    <3> QED
      BY <3>2, <3>3
  <2>6. PICK l \in Seq(Nat), to \in Places : Good(s, l, to)
    <3> HIDE DEF Good
    <3> QED
      BY <1>2, <2>4
  <2> DEFINE q == State(ns, l, to)
  <2>7. Leads(p, t, ParseAtom(q, a))
    <3>1. Leads(p, s, q)
      BY <2>6 DEF Closes
    <3> HIDE DEF p, q
    <3> QED
      BY <1>2, <3>1, LeadsAtom DEF t
  <2>8. /\ q.nodes = ns /\ q.open = l /\ q.at = to
        /\ \A x : Reaches(q, x) = State(ns, l, x)
        /\ Popped(q) = State(ns, Front(l), "content")
    <3>1. q.nodes = ns /\ q.open = l /\ q.at = to
      BY DEF State
    <3>2. \A x : Reaches(q, x) = State(ns, l, x)
      BY DEF State, Reaches
    <3>3. Popped(q) = State(ns, Front(l), "content")
      BY PoppedIs
    <3> QED
      BY <3>1, <3>2, <3>3
  <2>9. a.kind \in {"lt", "close"}
    BY <1>2
  <2>10. Within(l, ns) /\ to \in {"content", "end tag", "failed"}
    BY <2>6 DEF Closes
  <2> HIDE DEF q
  <2>11. CASE to = "content"
    <3>1. a.kind = "lt"
      <4>1. s = <<>> \/ Last(s).kind = "close"
        BY <2>6, <2>11 DEF Closes
      <4> QED
        BY <2>5, <2>9, <4>1
    <3>2. ParseAtom(q, a) = State(ns, l, "end tag")
      BY <2>8, <2>11, <3>1 DEF ParseAtom
    <3>3. Good(t, l, "end tag") /\ "end tag" \in Places
      BY <2>2, <2>7, <2>10, <3>1, <3>2 DEF Closes, Places
    <3> HIDE DEF Good
    <3> QED
      BY <3>3
  <2>12. CASE to = "end tag"
    <3>1. a.kind = "close"
      <4>1. s # <<>> /\ Last(s).kind = "lt"
        BY <2>6, <2>12 DEF Closes
      <4> QED
        BY <2>5, <4>1
    <3>2. CASE ClosesCursor(q, a.of)
      <4>1. l # <<>>
        BY <2>8, <3>2 DEF ClosesCursor
      <4>2. ParseAtom(q, a) = State(ns, Front(l), "content")
        BY <2>8, <2>12, <3>1, <3>2 DEF ParseAtom
      <4>3. Front(l) \in Seq(Nat) /\ Within(Front(l), ns)
        <5>1. Front(l) \in Seq(Nat) /\ \A j \in DOMAIN Front(l) : j \in DOMAIN l /\ Front(l)[j] = l[j]
          BY <4>1, OpenElements
        <5>2. \A j \in DOMAIN l : l[j] \in DOMAIN ns
          BY <2>10 DEF Within
        <5> QED
          BY <5>1, <5>2 DEF Within
      <4>4. Good(t, Front(l), "content") /\ "content" \in Places
        BY <2>2, <2>7, <3>1, <4>2, <4>3 DEF Closes, Places
      <4> HIDE DEF Good
      <4> QED
        BY <4>3, <4>4
    <3>3. CASE ~ClosesCursor(q, a.of)
      <4>1. ParseAtom(q, a) = State(ns, l, "failed")
        BY <2>8, <2>12, <3>1, <3>3 DEF ParseAtom
      <4>2. Good(t, l, "failed") /\ "failed" \in Places
        BY <2>7, <2>10, <4>1 DEF Closes, Places
      <4> HIDE DEF Good
      <4> QED
        BY <4>2
    <3> QED
      BY <3>2, <3>3
  <2>13. CASE to = "failed"
    <3>1. ParseAtom(q, a) = State(ns, l, "failed")
      BY <2>8, <2>13 DEF ParseAtom
    <3>2. Good(t, l, "failed") /\ "failed" \in Places
      BY <2>7, <2>10, <3>1 DEF Closes, Places
    <3> HIDE DEF Good
    <3> QED
      BY <3>2
  <2> QED
    BY <2>10, <2>11, <2>12, <2>13
<1> HIDE DEF S
<1>3. \A s \in Seq(B) : s \in S
  BY <1>1, <1>2, SequenceInduction
<1> QED
  BY <1>3 DEF S

\* What comes last in a concatenation is last in its second part.
LEMMA LastOfConcat ==
    ASSUME NEW D, NEW s \in Seq(D), NEW t \in Seq(D), t # <<>>
    PROVE  s \o t # <<>> /\ Last(s \o t) = Last(t)
<1> DEFINE L == Len(s)
           M == Len(t)
           c == s \o t
<1>1. L \in Nat /\ M \in Nat /\ M # 0
  BY EmptySeq, LenProperties
<1>2. /\ c \in Seq(D) /\ Len(c) = L + M
      /\ \A i \in 1 .. (L + M) : c[i] = IF i <= L THEN s[i] ELSE t[i - L]
  BY ConcatProperties
<1>3. Last(t) = t[M]
  BY DEF Last
<1> HIDE DEF L, M, c
<1>4. L + M \in 1 .. (L + M) /\ ~(L + M <= L) /\ (L + M) - L = M
  BY <1>1
<1>5. c[L + M] = t[M]
  BY <1>2, <1>4
<1>6. Last(c) = t[M]
  BY <1>2, <1>5 DEF Last
<1>7. c # <<>>
  BY <1>1, <1>2
<1> QED
  BY <1>3, <1>6, <1>7 DEF c

\* The last but one of a concatenation is no data, and so none comes before the last.
LEMMA NoEntityBefore ==
    ASSUME NEW D, NEW s \in Seq(D), NEW t \in Seq(D), t # <<>>,
           IF Len(t) = 1 THEN s # <<>> /\ ~IsData(Last(s)) ELSE ~IsData(t[Len(t) - 1])
    PROVE  ~EntityBefore(s \o t)
<1> DEFINE L == Len(s)
           M == Len(t)
           c == s \o t
<1>1. L \in Nat /\ M \in Nat /\ M # 0
  BY EmptySeq, LenProperties
<1>2. /\ Len(c) = L + M
      /\ \A i \in 1 .. (L + M) : c[i] = IF i <= L THEN s[i] ELSE t[i - L]
  BY ConcatProperties
<1>3. L # 0 => L + M - 1 \in 1 .. (L + M)
  BY <1>1
<1>4. L + M - 1 # 0 => ~IsData(c[L + M - 1])
  <2> HIDE DEF c
  <2>1. CASE M = 1
    <3>1. L # 0 /\ ~IsData(s[L])
      BY <2>1, EmptySeq DEF Last
    <3> HIDE DEF L, M
    <3>2. L + M - 1 = L /\ L \in 1 .. (L + M) /\ L <= L
      BY <1>1, <2>1, <3>1
    <3>3. c[L] = s[L]
      BY <1>2, <3>2
    <3> QED
      BY <3>1, <3>2, <3>3
  <2>2. CASE M # 1
    <3>1. ~IsData(t[M - 1])
      BY <2>2
    <3> HIDE DEF L, M
    <3>2. L + M - 1 \in 1 .. (L + M) /\ ~(L + M - 1 <= L) /\ (L + M - 1) - L = M - 1
      BY <1>1, <2>2
    <3>3. c[L + M - 1] = t[M - 1]
      BY <1>2, <3>2
    <3> QED
      BY <3>1, <3>3
  <2> QED
    BY <2>1, <2>2
<1> HIDE DEF L, M, c
<1> SUFFICES ASSUME NEW i \in 1 .. Len(c) - 1, \A j \in i .. Len(c) - 1 : IsData(c[j])
             PROVE  FALSE
  BY DEF EntityBefore, c
<1>5. Len(c) - 1 = L + M - 1 /\ L + M - 1 \in i .. Len(c) - 1 /\ L + M - 1 # 0
  BY <1>1, <1>2
<1> QED
  BY <1>4, <1>5

\* The first elements of a tree; the last of them may be damaged.
CutOf(ms, ts) ==
    /\ Len(ms) <= Len(ts)
    /\ \A i \in 1 .. Len(ms) : /\ i < Len(ms) => ms[i] = ts[i]
                               /\ ms[i].depth = ts[i].depth
                               /\ ms[i].name \in {ts[i].name, Damaged}

\* The names and pieces that are read when names are in N and values of pieces
\* in V.
ReadOf(N, V) == N \cup V \cup {"", Damaged}

\* They hold what is read of a text with those names and pieces.
LEMMA ReadOfIs ==
    ASSUME NEW N, NEW V
    PROVE  /\ Damaged \in ReadOf(N, V)
           /\ Seq(Node(N, V)) \subseteq Seq(Node(ReadOf(N, V), ReadOf(N, V)))
           /\ \A a \in AtomsOver(N, V) : a.of \in ReadOf(N, V)
<1> DEFINE U == ReadOf(N, V)
<1>1. N \subseteq U /\ V \subseteq U /\ "" \in U /\ Damaged \in U
  BY DEF ReadOf
<1> HIDE DEF U
<1>2. \A s \in Seq(V) : s \in Seq(U)
  BY <1>1, SeqMonotonic
<1>3. Node(N, V) \subseteq Node(U, U)
  BY <1>1, <1>2 DEF Node
<1>4. \A s \in Seq(Node(N, V)) : s \in Seq(Node(U, U))
  BY <1>3, SeqMonotonic
<1>5. \A a \in AtomsOver(N, V) : a.of \in U
  <2>1. \A z : Open(z).of = z /\ Close(z).of = z /\ Text(z).of = z /\ Entity(z).of = z
    BY DEF Open, Close, Text, Entity, AtomOf
  <2>2. /\ Attribute.of = "" /\ Quote.of = "" /\ Gt.of = ""
        /\ SlashGt.of = "" /\ Lt.of = ""
    BY DEF Attribute, Quote, Gt, SlashGt, Lt, AtomOf
  <2> SUFFICES ASSUME NEW a \in AtomsOver(N, V) PROVE a.of \in U
    OBVIOUS
  <2>3. \/ \E z \in N : a = Open(z) \/ a = Close(z)
        \/ a = Attribute \/ a = Quote \/ a = Gt \/ a = SlashGt \/ a = Lt
        \/ \E z \in V : a = Text(z) \/ a = Entity(z)
    BY DEF AtomsOver, DataOf
  <2>4. CASE \E z \in N : a = Open(z) \/ a = Close(z)
    <3>1. PICK z \in N : a = Open(z) \/ a = Close(z)
      BY <2>4
    <3>2. a.of = z
      BY <2>1, <3>1
    <3> QED
      BY <1>1, <3>2
  <2>5. CASE a = Attribute \/ a = Quote \/ a = Gt \/ a = SlashGt \/ a = Lt
    BY <1>1, <2>2, <2>5
  <2>6. CASE \E z \in V : a = Text(z) \/ a = Entity(z)
    <3>1. PICK z \in V : a = Text(z) \/ a = Entity(z)
      BY <2>6
    <3>2. a.of = z
      BY <2>1, <3>1
    <3> QED
      BY <1>1, <3>2
  <2> QED
    BY <2>3, <2>4, <2>5, <2>6
<1> QED
  BY <1>1, <1>4, <1>5 DEF U

\* The text ends within a start tag, in the text behind it, or in its end tag.
LEMMA StartTagCut ==
    ASSUME NEW N, NEW V, NEW ns \in Seq(Node(N, V)), NEW o \in Seq(Nat), NEW n \in N,
           NEW pre \in Seq(AtomsOver(N, V)), Leads(StartOfText, pre, State(ns, o, "content")),
           NEW w \in Seq(AtomsOver(N, V)),
           w \in Seq(Inner(V)) \/ \E y \in Seq(Inner(V)) : w = y \o <<Lt>>,
           NEW x \in Node(N, V), x.name = n, x.depth = Len(o) + 1
    PROVE  LET tree == Parse(pre \o (<<Open(n)>> \o w)) IN
           /\ tree \in Seq(Node(ReadOf(N, V), ReadOf(N, V)))
           /\ CutOf(tree, Append(ns, x))
<1> DEFINE A == AtomsOver(N, V)
           U == ReadOf(N, V)
           k == Len(ns) + 1
           y == Elem(n, Len(o) + 1, <<>>, <<>>)
           ms == Append(ns, y)
           os == Append(o, k)
           p0 == State(ns, o, "content")
           p1 == State(ms, os, "name")
           first == <<Open(n)>>
           text == pre \o (first \o w)
           tree == Parse(text)
<1>1. /\ Damaged \in U /\ \A s \in Seq(Node(N, V)) : s \in Seq(Node(U, U))
      /\ \A a \in A : a.of \in U
  BY ReadOfIs
<1>2. k \in Nat /\ k = Len(ns) + 1 /\ Len(ns) \in Nat /\ Len(o) + 1 \in Nat /\ <<>> \in Seq(V)
  BY LenProperties
<1>3. Leads(p0, first, p1)
  <2>1. \A z : ParseAtom(State(ns, o, "content"), Open(z))
                   = State(Append(ns, Elem(z, Len(o) + 1, <<>>, <<>>)),
                           Append(o, Len(ns) + 1), "name")
    BY TagAtoms
  <2>2. ParseAtom(p0, Open(n)) = p1
    BY <2>1
  <2> HIDE DEF p0, p1
  <2> QED
    BY <2>2, LeadsOne
<1>4. /\ first \in Seq(A) /\ Inner(V) \subseteq A
      /\ \A a \in Inner(V) : a.of \in U /\ a.kind \notin {"open", "slashgt", "close", "lt"}
  <2>1. Open(n) \in A /\ {Attribute, Quote, Gt, SlashGt, Lt} \subseteq A /\ DataOf(V) \subseteq A
    BY TagAtomsAre
  <2>2. Inner(V) \subseteq A
    BY <2>1 DEF Inner
  <2>3. \A a \in Inner(V) : a.kind \notin {"open", "slashgt", "close", "lt"}
    <3>1. \A z : Text(z).kind = "text" /\ Entity(z).kind = "entity"
      BY DEF Text, Entity, AtomOf
    <3>2. Attribute.kind = "attribute" /\ Quote.kind = "quote" /\ Gt.kind = "gt"
      BY DEF Attribute, Quote, Gt, AtomOf
    <3>3. \A a \in Inner(V) : a.kind \in {"text", "entity", "attribute", "quote", "gt"}
      BY <3>1, <3>2 DEF Inner, DataOf
    <3> QED
      BY <3>3
  <2> HIDE DEF A, U
  <2>4. <<Open(n)>> \in Seq(A)
    BY <2>1
  <2> QED
    BY <1>1, <2>2, <2>3, <2>4
<1>5. y \in Node(N, V) /\ y.name = n /\ y.depth = Len(o) + 1
  BY <1>2 DEF Node, Elem
<1> HIDE DEF k, y
<1>6. /\ ms \in Seq(Node(N, V)) /\ Len(ms) = Len(ns) + 1 /\ ms[Len(ns) + 1] = y
      /\ \A i \in 1 .. Len(ns) : ms[i] = ns[i]
  BY <1>5, AppendProperties
<1>7. os \in Seq(Nat) /\ os # <<>> /\ Last(os) = k
  BY <1>2, EndOfAppend, AppendProperties
<1> HIDE DEF ms, os
<1>8. ms \in Seq(Node(U, U)) /\ k \in DOMAIN ms /\ "name" \in Places /\ "" \in U
  <2>1. DOMAIN ms = 1 .. Len(ms)
    BY <1>6, LenProperties
  <2>2. "" \in U
    BY DEF ReadOf
  <2>3. "name" \in Places
    BY DEF Places, InTag
  <2>4. k \in DOMAIN ms
    BY <1>2, <1>6, <2>1
  <2> HIDE DEF U
  <2>5. ms \in Seq(Node(U, U))
    BY <1>1, <1>6
  <2> QED
    BY <2>2, <2>3, <2>4, <2>5
<1>9. PICK zs \in Seq(Node(U, U)), to \in Places :
         Leads(p1, w, State(zs, os, to)) /\ AltersOnly(ms, k, zs)
  <2> HIDE DEF A, U
  <2>1. CASE w \in Seq(Inner(V))
    BY <1>1, <1>4, <1>7, <1>8, <2>1, InnerRead
  <2>2. ASSUME NEW z \in Seq(Inner(V)), w = z \o <<Lt>>
        PROVE  \E zs \in Seq(Node(U, U)) : \E to \in Places :
                  Leads(p1, w, State(zs, os, to)) /\ AltersOnly(ms, k, zs)
    BY <1>1, <1>4, <1>7, <1>8, <2>2, InnerReadOn
  <2> QED
    BY <2>1, <2>2
<1> DEFINE q == State(zs, os, to)
           xs == EndOfText(q, text).nodes
<1>10. text \in Seq(A) /\ Leads(StartOfText, text, q)
  <2>1. w \in Seq(A) /\ Leads(StartOfText, pre, p0) /\ Leads(p1, w, q)
    <3>1. w \in Seq(A)
      OBVIOUS
    <3> QED
      BY <1>9, <3>1
  <2>2. pre \in Seq(A)
    OBVIOUS
  <2> HIDE DEF p0, p1, q, A, first
  <2>3. first \o w \in Seq(A) /\ Leads(p0, first \o w, q)
    BY <1>3, <1>4, <2>1, LeadsOn, ConcatProperties DEF first
  <2>4. pre \o (first \o w) \in Seq(A) /\ Leads(StartOfText, pre \o (first \o w), q)
    <3> DEFINE s == first \o w
    <3> HIDE DEF s
    <3> QED
      BY <2>1, <2>2, <2>3, LeadsOn, ConcatProperties DEF s
  <2> QED
    BY <2>4
<1>11. tree = xs
  <2>1. Len(text) \in Nat
    <3> HIDE DEF text, A
    <3> QED
      BY <1>10, LenProperties
  <2> HIDE DEF q, text
  <2> QED
    BY <1>10, <2>1, LeadsParse
<1>12. k \in DOMAIN zs
  <2>1. Len(zs) = Len(ms)
    BY <1>9 DEF AltersOnly
  <2> QED
    BY <1>8, <1>6, <2>1, LenProperties
<1>13. xs \in Seq(Node(U, U)) /\ (xs = zs \/ AltersOnly(zs, k, xs))
  <2> HIDE DEF text, U
  <2> QED
    BY <1>1, <1>7, <1>12, EndRead
<1> HIDE DEF xs
<1>14. AltersOnly(ms, k, xs)
  <2>1. AltersOnly(ms, k, zs)
    BY <1>9
  <2> QED
    BY <1>13, <2>1 DEF AltersOnly
<1>15. /\ Len(Append(ns, x)) = Len(ns) + 1 /\ Append(ns, x)[Len(ns) + 1] = x
       /\ \A i \in 1 .. Len(ns) : Append(ns, x)[i] = ns[i]
  BY AppendProperties
<1>16. CutOf(xs, Append(ns, x))
  <2> DEFINE ts == Append(ns, x)
  <2>1. Len(xs) = Len(ns) + 1
    BY <1>6, <1>14 DEF AltersOnly
  <2>2. ASSUME NEW i \in 1 .. (Len(ns) + 1)
        PROVE  /\ i < Len(ns) + 1 => xs[i] = ts[i]
               /\ xs[i].depth = ts[i].depth /\ xs[i].name \in {ts[i].name, Damaged}
    <3> HIDE DEF ts
    <3>1. /\ i # k => xs[i] = ms[i]
          /\ xs[i].depth = ms[i].depth /\ xs[i].name \in {ms[i].name, Damaged}
      BY <1>6, <1>14 DEF AltersOnly
    <3>2. CASE i = Len(ns) + 1
      BY <1>2, <1>5, <1>6, <1>15, <3>1, <3>2 DEF ts
    <3>3. CASE i # Len(ns) + 1
      <4>1. i \in 1 .. Len(ns) /\ i # k
        BY <1>2, <3>3
      <4>2. xs[i] = ms[i] /\ ms[i] = ns[i] /\ ts[i] = ns[i]
        BY <1>6, <1>15, <3>1, <4>1 DEF ts
      <4> QED
        BY <4>2
    <3> QED
      BY <3>2, <3>3
  <2> HIDE DEF ts
  <2> QED
    BY <1>2, <1>15, <2>1, <2>2 DEF CutOf, ts
<1> QED
  BY <1>11, <1>13, <1>16

\* Concatenations can be grouped anew.
Regrouped(A) == \A r, s, t \in Seq(A) : (r \o s) \o t = r \o (s \o t)

\* They can whatever they are made of.
LEMMA Regroups == ASSUME NEW A PROVE Regrouped(A)
BY ConcatAssociative DEF Regrouped

\* The text ends behind a start tag, within the end tags.
LEMMA EndTagsCut ==
    ASSUME NEW N, NEW V, NEW ms \in Seq(Node(N, V)), NEW os \in Seq(Nat), Within(os, ms),
           NEW s \in Seq(AtomsOver(N, V)), Leads(StartOfText, s, State(ms, os, "content")),
           NEW B, B \subseteq AtomsOver(N, V), \A a \in B : a.kind \in {"lt", "close"},
           NEW z \in Seq(B), z \in Seq(AtomsOver(N, V)),
           Alternates(z), ~IsData(Last(s \o z)),
           z # <<>> /\ Last(z).kind = "lt" => ~EntityBefore(s \o z)
    PROVE  Parse(s \o z) = ms
<1> DEFINE A == AtomsOver(N, V)
           U == ReadOf(N, V)
           p == State(ms, os, "content")
           text == s \o z
<1>1. Damaged \in U /\ ms \in Seq(Node(U, U))
  BY ReadOfIs
<1>4. PICK l \in Seq(Nat), to \in Places : Closes(ms, os, z, l, to)
  BY ClosingRead
<1>5. /\ Leads(p, z, State(ms, l, to)) /\ Within(l, ms)
      /\ to \in {"content", "end tag", "failed"}
      /\ to = "end tag" => z # <<>> /\ Last(z).kind = "lt"
  BY <1>4 DEF Closes
<1> DEFINE q == State(ms, l, to)
<1>6. text \in Seq(A) /\ Leads(StartOfText, text, q)
  <2>1. s \in Seq(A) /\ z \in Seq(A) /\ Leads(StartOfText, s, p) /\ Leads(p, z, q)
    BY <1>5
  <2> HIDE DEF p, q, A
  <2> QED
    BY <2>1, LeadsOn, ConcatProperties
<1>7. Parse(text) = EndOfText(q, text).nodes
  <2>1. Len(text) \in Nat
    <3> HIDE DEF text, A
    <3> QED
      BY <1>6, LenProperties
  <2> HIDE DEF q, text
  <2> QED
    BY <1>6, <2>1, LeadsParse
<1>8. l # <<>> => Last(l) \in DOMAIN ms
  <2>1. l # <<>> => \E j \in DOMAIN l : Last(l) = l[j]
    BY OpenElements
  <2> QED
    BY <1>5, <2>1 DEF Within
<1>9. EndOfText(q, text).nodes = ms
  <2>1. EndsWell(to, text)
    BY <1>5 DEF EndsWell
  <2>2. to \in InTag => l # <<>>
    BY <1>5 DEF InTag
  <2> HIDE DEF text, U
  <2> QED
    BY <1>1, <1>8, <2>1, <2>2, EndRead
<1> QED
  BY <1>7, <1>9

\* The text ends in the text of one element.
LEMMA PieceCut ==
    ASSUME NEW N, NEW V, NEW ts \in Seq(Node(N, V)), NEW d \in Nat, IsTree(ts, d),
           NEW n \in Nat, n + 1 <= Len(ts),
           NEW pre \in Seq(AtomsOver(N, V)), Leads(StartOfText, pre, AfterElements(ts, d, n)),
           NEW v \in Seq(AtomsOver(N, V)), v # <<>>, Begins(v, Piece(ts, n + 1))
    PROVE  /\ Parse(pre \o v) \in Seq(Node(ReadOf(N, V), ReadOf(N, V)))
           /\ CutOf(Parse(pre \o v), Moved(ts, n + 1, d))
<1> DEFINE b == n + 1
           A == AtomsOver(N, V)
           U == ReadOf(N, V)
           ns == Moved(ts, n, d)
           ms == Moved(ts, b, d)
           o == Path(ts, n, d, NextDepth(ts, n))
           x == Elem(ts[b].name, ts[b].depth - d + 1, ts[b].attribute, ts[b].text)
           E == {a \in A : a.kind \in {"lt", "close"}}
           tag == StartTag(ts, b)
           tree == Parse(pre \o v)
           Goal == tree \in Seq(Node(U, U)) /\ CutOf(tree, ms)
<1>1. b \in 1 .. Len(ts)
  BY LenProperties
<1>2. ts[b] \in Node(N, V) /\ ts[b].depth \in Nat /\ ts[b].depth >= d /\ ts[b].name \in N
  <2>1. ts[b] \in Node(N, V) /\ ts[b].depth \in Nat /\ ts[b].depth >= d
    <3> HIDE DEF b
    <3> QED
      BY <1>1, TreeElement
  <2> QED
    BY <2>1 DEF Node
<1>3. /\ ns \in Seq(Node(N, V)) /\ Len(ns) = n /\ ms = Append(ns, x)
      /\ o \in Seq(Nat) /\ Len(o) = ts[b].depth - d
      /\ tag \in Seq(A) /\ EndTags(ts, b) \in Seq(A)
  <2>1. /\ Moved(ts, n, d) \in Seq(Node(N, V)) /\ Len(Moved(ts, n, d)) = n
        /\ Moved(ts, n + 1, d)
               = Append(Moved(ts, n, d),
                        Elem(ts[n + 1].name, ts[n + 1].depth - d + 1,
                             ts[n + 1].attribute, ts[n + 1].text))
        /\ Path(ts, n, d, NextDepth(ts, n)) \in Seq(Nat)
        /\ Len(Path(ts, n, d, NextDepth(ts, n))) = ts[n + 1].depth - d
        /\ StartTag(ts, n + 1) \in Seq(AtomsOver(N, V))
        /\ EndTags(ts, n + 1) \in Seq(AtomsOver(N, V))
    BY PieceRead
  <2> QED
    BY <2>1
<1>4. PICK os \in Seq(Nat) : /\ \A j \in DOMAIN os : os[j] \in 1 .. b
                             /\ Leads(AfterElements(ts, d, n), tag, State(ms, os, "content"))
  BY PieceRead
<1>5. AfterElements(ts, d, n) = State(ns, o, "content")
  BY DEF AfterElements
<1>6. x \in Node(N, V) /\ x.name = ts[b].name /\ x.depth = Len(o) + 1
  <2>1. ts[b].depth - d + 1 \in Nat /\ Len(o) + 1 = ts[b].depth - d + 1
    <3> DEFINE e == ts[b].depth
               m == Len(o)
    <3>1. e \in Nat /\ e >= d /\ m = e - d
      BY <1>2, <1>3
    <3> HIDE DEF e, m
    <3>2. e - d + 1 \in Nat /\ m + 1 = e - d + 1
      BY <3>1
    <3> QED
      BY <3>2 DEF e, m
  <2> QED
    BY <1>2, <2>1 DEF Node, Elem
<1>7. ms \in Seq(Node(N, V)) /\ DOMAIN ms = 1 .. b
  <2> HIDE DEF x, ns, ms
  <2>1. ms \in Seq(Node(N, V)) /\ Len(ms) = n + 1
    BY <1>3, <1>6, AppendProperties
  <2> QED
    BY <2>1, LenProperties
<1>8. EndTags(ts, b) \in Seq(E) /\ Alternates(EndTags(ts, b))
  <2> HIDE DEF b
  <2> QED
    BY <1>1, <1>3, EndTagAtoms
<1>9. /\ E \subseteq A /\ \A a \in E : a.kind \in {"lt", "close"} /\ ~IsData(a)
      /\ <<>> \in Seq(E) /\ Alternates(<<>>)
  BY DEF IsData, Alternates
<1>19. \A a \in E : a.kind = "lt" => a = Lt
  <2>1. \A z : Open(z).kind = "open" /\ Close(z).kind = "close"
              /\ Text(z).kind = "text" /\ Entity(z).kind = "entity"
    BY DEF Open, Close, Text, Entity, AtomOf
  <2>2. /\ Attribute.kind = "attribute" /\ Quote.kind = "quote" /\ Gt.kind = "gt"
        /\ SlashGt.kind = "slashgt"
    BY DEF Attribute, Quote, Gt, SlashGt, AtomOf
  <2> SUFFICES ASSUME NEW a \in AtomsOver(N, V), a.kind = "lt" PROVE a = Lt
    OBVIOUS
  <2>3. \/ \E z \in N : a = Open(z) \/ a = Close(z)
        \/ a = Attribute \/ a = Quote \/ a = Gt \/ a = SlashGt \/ a = Lt
        \/ \E z \in V : a = Text(z) \/ a = Entity(z)
    BY DEF AtomsOver, DataOf
  <2> QED
    BY <2>1, <2>2, <2>3
<1> HIDE DEF ns, ms, o, x, tag, E
\* Behind the start tag.
<1>10. ASSUME NEW z \in Seq(E), Alternates(z), v = tag \o z, ~IsData(Last(v)),
              z # <<>> /\ Last(z).kind = "lt" => ~EntityBefore((pre \o tag) \o z)
       PROVE  Goal
  <2>1. z \in Seq(A)
    <3> HIDE DEF A
    <3> QED
      BY <1>10, <1>9, SeqMonotonic
  <2> DEFINE s == pre \o tag
  <2>2. s \in Seq(A) /\ Leads(StartOfText, s, State(ms, os, "content"))
    <3> HIDE DEF A
    <3>1. pre \in Seq(A)
      BY DEF A
    <3> QED
      BY <1>3, <1>4, <3>1, LeadsOn, ConcatProperties
  <2>3. pre \o v = s \o z
    <3> HIDE DEF A
    <3>1. pre \in Seq(A)
      BY DEF A
    <3>2. tag \in Seq(A)
      BY <1>3
    <3>3. (pre \o tag) \o z = pre \o (tag \o z)
      <4>1. Regrouped(A)
        BY Regroups
      <4> QED
        BY <2>1, <3>1, <3>2, <4>1 DEF Regrouped
    <3> QED
      BY <1>10, <3>3
  <2>4. ~IsData(Last(s \o z))
    <3>1. Last(pre \o v) = Last(v)
      BY LastOfConcat
    <3> QED
      BY <1>10, <2>3, <3>1
  <2>5. Within(os, ms)
    BY <1>4, <1>7 DEF Within
  <2>6. Parse(s \o z) = ms
    BY <1>7, <2>1, <2>2, <2>4, <2>5, <1>10, <1>9, EndTagsCut DEF s
  <2>7. tree = ms
    BY <2>3, <2>6
  <2>8. CutOf(ms, ms)
    BY LenProperties, <1>7 DEF CutOf
  <2>9. ms \in Seq(Node(U, U))
    BY <1>7, ReadOfIs
  <2> HIDE DEF tree, U
  <2> QED
    BY <2>7, <2>8, <2>9
\* Within it.
<1>11. ASSUME NEW w \in Seq(A), v = <<Open(ts[b].name)>> \o w,
              w \in Seq(Inner(V)) \/ \E y \in Seq(Inner(V)) : w = y \o <<Lt>>
       PROVE  Goal
  <2> DEFINE m == ts[b].name
             known == Parse(pre \o (<<Open(m)>> \o w))
  <2>1. /\ m \in N /\ Leads(StartOfText, pre, State(ns, o, "content"))
        /\ x.name = m
    BY <1>2, <1>5, <1>6
  <2>2. tree = known
    BY <1>11
  <2> HIDE DEF m, b
  <2>3. known \in Seq(Node(U, U)) /\ CutOf(known, Append(ns, x))
    BY <1>3, <1>6, <1>11, <2>1, StartTagCut
  <2> HIDE DEF known, tree, U
  <2> QED
    BY <1>3, <2>2, <2>3
<1> HIDE DEF Goal
<1>12. PICK body \in Seq(A) :
          /\ tag = <<Open(ts[b].name)>> \o body
          /\ \/ body \in Seq(Inner(V))
             \/ \E y \in Seq(Inner(V)) : body = y \o <<SlashGt>>
  <2> HIDE DEF b
  <2>1. \E body \in Seq(AtomsOver(N, V)) :
           /\ StartTag(ts, b) = <<Open(ts[b].name)>> \o body
           /\ \/ body \in Seq(Inner(V))
              \/ IsEmpty(ts, b) /\ \E y \in Seq(Inner(V)) : body = y \o <<SlashGt>>
    BY <1>2, StartTagBody
  <2> QED
    BY <2>1 DEF tag
<1> DEFINE first == <<Open(ts[b].name)>>
<1>13. /\ first \in Seq(A) /\ <<SlashGt>> \in Seq(A) /\ <<Lt>> \in Seq(A)
       /\ <<>> \in Seq(Inner(V)) /\ <<>> \in Seq(A)
       /\ \A w \in Seq(Inner(V)) : w \in Seq(A)
  <2>1. Open(ts[b].name) \in A /\ SlashGt \in A /\ Lt \in A /\ Inner(V) \subseteq A
    BY <1>2, TagAtomsAre DEF Inner
  <2> HIDE DEF A
  <2>2. first \in Seq(A) /\ <<SlashGt>> \in Seq(A) /\ <<Lt>> \in Seq(A)
    BY <2>1, SequenceOfOne
  <2>3. <<>> \in Seq(Inner(V)) /\ <<>> \in Seq(A)
    BY EmptySeq
  <2>4. \A w \in Seq(Inner(V)) : w \in Seq(A)
    BY <2>1, SeqMonotonic
  <2> QED
    BY <2>2, <2>3, <2>4
<1>14. ~IsData(SlashGt)
  BY DEF IsData, SlashGt, AtomOf
<1>15. ASSUME Begins(v, tag) PROVE Goal
  <2>1. CASE Begins(v, first)
    <3>1. v = first
      <4>1. Open(ts[b].name) \in A
        BY <1>2, TagAtomsAre
      <4>2. v \in Seq(A)
        OBVIOUS
      <4> HIDE DEF A, b
      <4> QED
        BY <2>1, <4>1, <4>2, BeginsOne
    <3>2. v = first \o <<>>
      <4> HIDE DEF first, A
      <4> QED
        BY <1>13, <3>1, ConcatEmptySeq
    <3> QED
      BY <1>11, <1>13, <3>2
  <2>2. ASSUME NEW w \in Seq(A), v = first \o w, Begins(w, body) PROVE Goal
    <3>1. CASE body \in Seq(Inner(V))
      <4>1. w \in Seq(Inner(V))
        <5> HIDE DEF A
        <5> QED
          BY <2>2, <3>1, BeginsMember
      <4> QED
        BY <1>11, <2>2, <4>1
    <3>2. ASSUME NEW y \in Seq(Inner(V)), body = y \o <<SlashGt>> PROVE Goal
      <4>1. y \in Seq(A)
        BY <1>13, <3>2
      <4>2. CASE Begins(w, y)
        <5>1. w \in Seq(Inner(V))
          <6> HIDE DEF A
          <6> QED
            BY <2>2, <3>2, <4>2, BeginsMember
        <5> QED
          BY <1>11, <2>2, <5>1
      <4>3. ASSUME NEW r \in Seq(A), r # <<>>, w = y \o r, Begins(r, <<SlashGt>>) PROVE Goal
        <5>1. r = <<SlashGt>>
          <6>1. SlashGt \in A
            BY TagAtomsAre
          <6> HIDE DEF A
          <6> QED
            BY <4>3, <6>1, BeginsOne
        <5>2. v = tag
          BY <1>12, <2>2, <3>2, <4>3, <5>1
        <5>3. Last(v) = SlashGt
          <6>1. Last(<<SlashGt>>) = SlashGt /\ <<SlashGt>> # <<>>
            BY DEF Last
          <6>2. w # <<>> /\ Last(w) = Last(r)
            <7> HIDE DEF A
            <7> QED
              BY <4>1, <4>3, LastOfConcat
          <6>3. Last(v) = Last(w)
            <7> HIDE DEF A, first
            <7> QED
              BY <1>13, <2>2, <6>2, LastOfConcat
          <6> QED
            BY <5>1, <6>1, <6>2, <6>3
        <5>4. v = tag \o <<>>
          <6> HIDE DEF A
          <6> QED
            BY <1>3, <5>2, ConcatEmptySeq
        <5> QED
          BY <1>10, <1>9, <1>14, <5>3, <5>4
      <4>4. \/ Begins(w, y)
            \/ \E r \in Seq(A) : r # <<>> /\ w = y \o r /\ Begins(r, <<SlashGt>>)
        <5> HIDE DEF A
        <5> QED
          BY <1>13, <2>2, <3>2, <4>1, BeginsConcat
      <4> QED
        BY <4>2, <4>3, <4>4
    <3> QED
      BY <1>12, <3>1, <3>2
  <2>3. Begins(v, first) \/ \E w \in Seq(A) : w # <<>> /\ v = first \o w /\ Begins(w, body)
    <3>1. v \in Seq(A) /\ Begins(v, first \o body)
      BY <1>12, <1>15
    <3> HIDE DEF A, first
    <3> QED
      BY <1>12, <1>13, <3>1, BeginsConcat
  <2> QED
    BY <2>1, <2>2, <2>3
<1>16. ASSUME NEW z \in Seq(A), z # <<>>, v = tag \o z, Begins(z, EndTags(ts, b)) PROVE Goal
  <2>1. z \in Seq(E) /\ Alternates(z)
    <3> HIDE DEF A, b
    <3> QED
      BY <1>8, <1>16, BeginsMember, BeginsAlternates
  <2>2. Last(v) = Last(z)
    <3> HIDE DEF A
    <3> QED
      BY <1>3, <1>16, LastOfConcat
  <2>3. Len(z) \in Nat /\ Len(z) # 0 /\ Last(z) = z[Len(z)] /\ \A i \in 1 .. Len(z) : z[i] \in E
    BY <1>16, <2>1, EmptySeq, LenProperties DEF Last
  <2>4. Last(z) \in E
    <3>1. Len(z) \in 1 .. Len(z)
      BY <2>3
    <3> QED
      BY <2>3, <3>1
  <2>5. ~IsData(Last(v))
    BY <1>9, <2>2, <2>4
  <2>6. ASSUME IF Len(z) = 1 THEN ~IsData(Last(tag)) ELSE ~IsData(z[Len(z) - 1])
        PROVE  ~EntityBefore((pre \o tag) \o z)
    <3> DEFINE s == pre \o tag
    <3>1. pre \in Seq(A) /\ tag \in Seq(A) /\ tag # <<>>
      <4>1. Len(first) = 1 /\ Len(body) \in Nat /\ tag = first \o body /\ first \in Seq(A)
        BY <1>12, <1>13, LenProperties
      <4> HIDE DEF first, A
      <4>2. Len(tag) = 1 + Len(body)
        BY <1>12, <4>1, ConcatProperties
      <4>3. tag # <<>>
        BY <4>1, <4>2
      <4> QED
        BY <1>3, <4>3 DEF A
    <3> HIDE DEF A
    <3>2. s \in Seq(A) /\ s # <<>> /\ Last(s) = Last(tag)
      BY <3>1, ConcatProperties, LastOfConcat
    <3> HIDE DEF s
    <3>3. ~EntityBefore(s \o z)
      BY <1>16, <2>6, <3>2, NoEntityBefore
    <3> QED
      BY <3>3 DEF s
  <2>7. CASE Last(z).kind # "lt"
    BY <1>10, <1>16, <2>1, <2>5, <2>7
  <2>8. CASE Last(z).kind = "lt" /\ Len(z) # 1
    <3>1. Len(z) - 1 \in 1 .. Len(z) /\ Len(z) \in 1 .. Len(z)
      <4> DEFINE m == Len(z)
      <4>1. m \in Nat /\ m # 0 /\ m # 1
        BY <2>3, <2>8
      <4> HIDE DEF m
      <4>2. m - 1 \in 1 .. m /\ m \in 1 .. m
        BY <4>1
      <4> QED
        BY <4>2 DEF m
    <3>2. z[Len(z) - 1].kind # "lt"
      <4>1. z[Len(z)].kind = "close" <=> Len(z) # 1 /\ z[Len(z) - 1].kind = "lt"
        BY <2>1, <3>1 DEF Alternates
      <4> QED
        BY <2>3, <2>8, <4>1
    <3>3. ~IsData(z[Len(z) - 1])
      BY <1>9, <2>3, <3>1
    <3>4. ~EntityBefore((pre \o tag) \o z)
      BY <2>6, <2>8, <3>3
    <3> QED
      BY <1>10, <1>16, <2>1, <2>5, <3>4
  <2>9. CASE Last(z).kind = "lt" /\ Len(z) = 1
    <3>1. z = <<Lt>>
      <4>1. z[1] = Lt
        BY <1>19, <2>3, <2>4, <2>9
      <4> DEFINE c == <<Lt>>
      <4>2. c \in Seq(A) /\ Len(c) = 1 /\ c[1] = Lt
        BY <1>13
      <4> HIDE DEF c, A
      <4>3. z = c
        BY <1>16, <2>9, <4>1, <4>2, SeqEqual
      <4> QED
        BY <4>3 DEF c
    <3>2. CASE body \in Seq(Inner(V))
      <4> DEFINE w == body \o <<Lt>>
      <4>1. w \in Seq(A) /\ v = first \o w
        <5>1. (first \o body) \o <<Lt>> = first \o (body \o <<Lt>>)
          <6> DEFINE c == <<Lt>>
          <6>1. Regrouped(A)
            BY Regroups
          <6> HIDE DEF A, first
          <6>2. c \in Seq(A)
            BY <1>13
          <6>3. first \in Seq(A) /\ body \in Seq(A)
            BY <1>12, <1>13
          <6> HIDE DEF c
          <6>4. (first \o body) \o c = first \o (body \o c)
            BY <6>1, <6>2, <6>3 DEF Regrouped
          <6> QED
            BY <6>4 DEF c
        <5>2. body \o <<Lt>> \in Seq(A)
          <6> HIDE DEF A
          <6> QED
            BY <1>12, <1>13, ConcatProperties
        <5> QED
          BY <1>12, <1>16, <3>1, <5>1, <5>2
      <4> HIDE DEF w, A
      <4> QED
        BY <1>11, <3>2, <4>1 DEF w
    <3>3. ASSUME NEW y \in Seq(Inner(V)), body = y \o <<SlashGt>> PROVE Goal
      <4>1. Last(tag) = SlashGt
        <5>1. Last(<<SlashGt>>) = SlashGt /\ <<SlashGt>> # <<>>
          BY DEF Last
        <5>2. y \in Seq(A)
          BY <1>13, <3>3
        <5>3. body # <<>> /\ Last(body) = SlashGt
          <6> HIDE DEF A
          <6> QED
            BY <1>13, <3>3, <5>1, <5>2, LastOfConcat
        <5>4. tag = first \o body
          BY <1>12
        <5> HIDE DEF A, first
        <5>5. Last(first \o body) = Last(body)
          BY <1>12, <1>13, <5>3, LastOfConcat
        <5> QED
          BY <5>3, <5>4, <5>5
      <4>2. ~EntityBefore((pre \o tag) \o z)
        BY <1>14, <2>6, <2>9, <4>1
      <4> QED
        BY <1>10, <1>16, <2>1, <2>5, <4>2
    <3> QED
      BY <1>12, <3>2, <3>3
  <2> QED
    BY <2>7, <2>8, <2>9
<1>17. \/ Begins(v, tag)
       \/ \E z \in Seq(A) : z # <<>> /\ v = tag \o z /\ Begins(z, EndTags(ts, b))
  <2>1. v \in Seq(A) /\ Begins(v, tag \o EndTags(ts, b))
    BY DEF Piece, tag
  <2> HIDE DEF A, b
  <2> QED
    BY <1>3, <2>1, BeginsConcat
<1>18. Goal
  BY <1>15, <1>16, <1>17
<1> QED
  BY <1>18 DEF Goal, ms

\* A text that ends in the middle of what is printed of a tree is read as the
\* first elements of that tree, each at its depth; all but the last of them have
\* their names and values, the last may have a damaged name or other values
\* (xml_document::load of a request that was cut, or an upload's first part).
THEOREM CutRead ==
    ASSUME NEW N, NEW V, NEW ts \in Seq(Node(N, V)), NEW d \in Nat, IsTree(ts, d),
           NEW u \in Seq(AtomsOver(N, V)), Begins(u, PrintAll(ts))
    PROVE  /\ Parse(u) \in Seq(Node(ReadOf(N, V), ReadOf(N, V)))
           /\ CutOf(Parse(u), Moved(ts, Len(ts), d))
<1> DEFINE L == Len(ts)
           A == AtomsOver(N, V)
           R == Seq(Node(ReadOf(N, V), ReadOf(N, V)))
           Good(w) == Parse(w) \in R /\ CutOf(Parse(w), Moved(ts, L, d))
           CutRightly(n) == \A w \in Seq(A) : Begins(w, Printed(ts, n)) => Good(w)
           S == {n \in Nat : n <= L => CutRightly(n)}
<1>1. L \in Nat
  BY LenProperties
<1>2. /\ Printed(ts, 0) = <<>>
      /\ \A n \in 0 .. L : /\ Printed(ts, n) \in Seq(A)
                           /\ Leads(StartOfText, Printed(ts, n), AfterElements(ts, d, n))
      /\ \A n \in 0 .. (L - 1) : Printed(ts, n + 1) = Printed(ts, n) \o Piece(ts, n + 1)
      /\ PrintAll(ts) = Printed(ts, L)
  BY PrintedRead
<1>3. \A n \in Nat : Len(Moved(ts, n, d)) = n
  BY DEF Moved
<1>4. ASSUME NEW n \in 0 .. L, NEW ms, Len(ms) \in Nat, CutOf(ms, Moved(ts, n, d))
      PROVE  CutOf(ms, Moved(ts, L, d))
  <2>1. \A i \in 1 .. n : Moved(ts, n, d)[i] = Moved(ts, L, d)[i]
    BY <1>1 DEF Moved
  <2>2. Len(Moved(ts, n, d)) = n /\ Len(Moved(ts, L, d)) = L
    BY <1>1, <1>3
  <2> HIDE DEF L
  <2> QED
    BY <1>1, <1>4, <2>1, <2>2 DEF CutOf
<1>5. 0 \in S
  <2> SUFFICES ASSUME NEW w \in Seq(A), Begins(w, <<>>) PROVE Good(w)
    BY <1>2
  <2>1. w = <<>>
    <3>1. Len(w) = 0
      BY LenProperties DEF Begins
    <3> HIDE DEF A
    <3> QED
      BY <3>1, EmptySeq
  <2>2. Parse(w) = EndOfText(StartOfText, w).nodes
    <3>1. Leads(StartOfText, w, StartOfText) /\ Len(w) \in Nat
      BY <2>1, LeadsNothing
    <3> QED
      BY <3>1, LeadsParse
  <2>3. EndOfText(StartOfText, w).nodes = <<>>
    BY DEF EndOfText, StartOfText
  <2>4. CutOf(<<>>, Moved(ts, L, d))
    <3>1. Len(Moved(ts, L, d)) = L
      BY <1>1, <1>3
    <3> QED
      BY <1>1, <3>1 DEF CutOf
  <2>5. <<>> \in R
    OBVIOUS
  <2> HIDE DEF R
  <2> QED
    BY <2>2, <2>3, <2>4, <2>5
<1>6. ASSUME NEW n \in Nat, n \in S PROVE n + 1 \in S
  <2> SUFFICES ASSUME n + 1 <= L, NEW w \in Seq(A), Begins(w, Printed(ts, n + 1)) PROVE Good(w)
    OBVIOUS
  <2>1. n \in 0 .. L /\ n \in 0 .. (L - 1) /\ n + 1 \in 0 .. L
    BY <1>1
  <2>2. CutRightly(n)
    BY <1>6, <2>1
  <2> DEFINE pre == Printed(ts, n)
             piece == Piece(ts, n + 1)
  <2>3. pre \in Seq(A) /\ piece \in Seq(A) /\ Begins(w, pre \o piece)
    <3>1. StartTag(ts, n + 1) \in Seq(A) /\ EndTags(ts, n + 1) \in Seq(A)
      BY PieceRead
    <3> HIDE DEF A
    <3>2. piece \in Seq(A)
      BY <3>1, ConcatProperties DEF Piece
    <3>3. Printed(ts, n + 1) = Printed(ts, n) \o Piece(ts, n + 1)
      BY <1>2, <2>1
    <3> QED
      BY <1>2, <2>1, <3>2, <3>3
  <2>4. CASE Begins(w, pre)
    BY <2>2, <2>4
  <2>5. ASSUME NEW v \in Seq(A), v # <<>>, w = pre \o v, Begins(v, piece) PROVE Good(w)
    <3>1. Leads(StartOfText, pre, AfterElements(ts, d, n))
      BY <1>2, <2>1
    <3>2. Parse(pre \o v) \in R /\ CutOf(Parse(pre \o v), Moved(ts, n + 1, d))
      <4>1. pre \in Seq(AtomsOver(N, V)) /\ v \in Seq(AtomsOver(N, V))
            /\ Begins(v, Piece(ts, n + 1)) /\ n + 1 <= Len(ts)
        BY <2>3, <2>5
      <4> HIDE DEF pre, A, L
      <4> QED
        BY <2>5, <3>1, <4>1, PieceCut
    <3>3. Len(Parse(w)) \in Nat
      BY <2>5, <3>2, LenProperties
    <3> HIDE DEF pre, R
    <3> QED
      BY <1>4, <2>1, <2>5, <3>2, <3>3
  <2>6. Begins(w, pre) \/ \E v \in Seq(A) : v # <<>> /\ w = pre \o v /\ Begins(v, piece)
    <3> HIDE DEF A, pre, piece
    <3> QED
      BY <2>3, BeginsConcat
  <2> HIDE DEF Good
  <2> QED
    BY <2>4, <2>5, <2>6
<1> HIDE DEF S
<1>7. L \in S
  BY <1>1, <1>5, <1>6, Induction
<1>8. CutRightly(L)
  <2> HIDE DEF CutRightly
  <2> QED
    BY <1>1, <1>7 DEF S
<1> QED
  BY <1>2, <1>8
=============================================================================
