----------------------------- MODULE RopeProofs -----------------------------
(***************************************************************************)
(* Theorems about Rope for every alphabet, leaf size and bound: the tree   *)
(* holds the text whatever is done to it, lookups find what is there, and  *)
(* edits keep the tree balanced if what is built to be inserted is.        *)
(*                                                                         *)
(* The model recurses over trees through functions of their height.  That  *)
(* those functions exist, and what they give, is proved by induction on    *)
(* the height; then what is said of leaves and of branches is said of all  *)
(* trees (TreeInduction).                                                  *)
(***************************************************************************)
EXTENDS Rope, TLAPS, WellFoundedInduction, FiniteSetTheorems

-----------------------------------------------------------------------------
(* Induction and recursion.  A set takes the predicate's place, which the  *)
(* provers cannot instantiate in the library's theorems.                   *)

\* The order of the natural numbers, as a set.
Less == {ss \in Nat \X Nat : ss[1] < ss[2]}

\* Induction on the natural numbers.
LEMMA NatSetInduction ==
    ASSUME NEW T, 0 \in T, \A n \in Nat : n \in T => n + 1 \in T
    PROVE  Nat \subseteq T
<1> SUFFICES ASSUME Nat \ T # {} PROVE FALSE
  OBVIOUS
<1>1. IsWellFoundedOn(Less, Nat)
  BY NatLessThanWellFounded DEF OpToRel, Less
<1>2. PICK n \in Nat \ T : \A m \in Nat \ T : ~ (<<m, n>> \in Less)
  BY <1>1, WFMin
<1>3. n # 0 /\ n - 1 \in Nat /\ (n - 1) + 1 = n
  BY <1>2
<1>4. n - 1 \in T
  <2> SUFFICES ASSUME n - 1 \in Nat \ T PROVE FALSE
    BY <1>3
  <2>1. n - 1 < n
    BY <1>2, <1>3
  <2>2. <<n - 1, n>> \in Less
    BY <1>2, <1>3, <2>1 DEF Less
  <2> QED BY <1>2, <2>2
<1> QED BY <1>2, <1>3, <1>4

\* h is the first n + 1 values of the recursion from base by step.
Upto(h, n, base, step) == h[0] = base /\ \A i \in 0 .. n - 1 : h[i + 1] = step[i][h[i]]

IsRun(f, base, step) ==
    /\ f = [n \in Nat |-> f[n]]
    /\ f[0] = base
    /\ \A n \in Nat : f[n + 1] = step[n][f[n]]

\* A recursion that gets each value from the one before has a solution, whatever
\* its values are.
LEMMA StepsExist ==
    ASSUME NEW base, NEW step
    PROVE  \E f : IsRun(f, base, step)
<1> DEFINE U(h, n) == Upto(h, n, base, step)
           T == {n \in Nat : \E h : U(h, n)}
           S == {n \in Nat : \A g, h : U(g, n) /\ U(h, n) => g[n] = h[n]}
<1>1. \A n \in Nat : \A h : U(h, n + 1) => U(h, n) /\ h[n + 1] = step[n][h[n]]
  <2> SUFFICES ASSUME NEW n \in Nat, NEW h, U(h, n + 1)
               PROVE  U(h, n) /\ h[n + 1] = step[n][h[n]]
    OBVIOUS
  <2>1. n \in 0 .. (n + 1) - 1 /\ \A i \in 0 .. n - 1 : i \in 0 .. (n + 1) - 1
    OBVIOUS
  <2> QED BY <2>1 DEF Upto
<1>2. \A n \in Nat : n \in T
  <2>1. 0 \in T
    <3>1. U([i \in {0} |-> base], 0)
      BY DEF Upto
    <3> HIDE DEF U
    <3> QED BY <3>1
  <2>2. ASSUME NEW n \in Nat, n \in T PROVE n + 1 \in T
    <3>1. PICK h : U(h, n)
      BY <2>2
    <3> DEFINE g == [i \in 0 .. n + 1 |-> IF i = n + 1 THEN step[n][h[n]] ELSE h[i]]
    <3>2. g[n + 1] = step[n][h[n]] /\ \A i \in 0 .. n : g[i] = h[i]
      OBVIOUS
    <3> HIDE DEF g
    <3>3. 0 \in 0 .. n /\ n \in 0 .. n /\ \A i \in 0 .. (n + 1) - 1 :
              i \in 0 .. n /\ (i = n \/ (i \in 0 .. n - 1 /\ i + 1 \in 0 .. n))
      OBVIOUS
    <3>4. U(g, n + 1)
      BY <3>1, <3>2, <3>3 DEF Upto
    <3> HIDE DEF U
    <3> QED BY <3>4
  <2> HIDE DEF T
  <2> QED BY <2>1, <2>2, NatSetInduction
<1>3. \A n \in Nat : n \in S
  <2>1. 0 \in S
    BY DEF Upto
  <2>2. ASSUME NEW n \in Nat, n \in S PROVE n + 1 \in S
    <3> HIDE DEF U
    <3>1. ASSUME NEW g, NEW h, U(g, n + 1), U(h, n + 1) PROVE g[n + 1] = h[n + 1]
      <4>1. U(g, n) /\ U(h, n)
        BY <1>1, <3>1
      <4>2. g[n] = h[n]
        BY <2>2, <4>1
      <4> QED BY <1>1, <3>1, <4>2
    <3> QED BY <3>1
  <2> HIDE DEF S
  <2> QED BY <2>1, <2>2, NatSetInduction
<1> DEFINE f == [n \in Nat |-> (CHOOSE h : U(h, n))[n]]
<1> HIDE DEF U
<1>4. ASSUME NEW n \in Nat, NEW h, U(h, n) PROVE f[n] = h[n]
  <2>1. U(CHOOSE g : U(g, n), n)
    BY <1>4
  <2>2. (CHOOSE g : U(g, n))[n] = h[n]
    BY <1>3, <1>4, <2>1
  <2> QED BY <2>2
<1>5. f = [n \in Nat |-> f[n]]
  OBVIOUS
<1> HIDE DEF f
<1>6. f[0] = base
  <2>1. PICK h : U(h, 0)
    BY <1>2
  <2> QED BY <1>4, <2>1 DEF U, Upto
<1>7. ASSUME NEW n \in Nat PROVE f[n + 1] = step[n][f[n]]
  <2>1. PICK h : U(h, n + 1)
    BY <1>2
  <2>2. U(h, n) /\ h[n + 1] = step[n][h[n]]
    BY <1>1, <2>1
  <2>3. f[n] = h[n] /\ f[n + 1] = h[n + 1]
    BY <1>4, <2>1, <2>2
  <2> QED BY <2>2, <2>3
<1> QED BY <1>5, <1>6, <1>7 DEF IsRun

\* Its values are in the sets V[n] if each step leads from one to the next.
LEMMA LayersExist ==
    ASSUME NEW V, NEW base \in V[0], NEW step,
           \A n \in Nat : \A g \in V[n] : step[n][g] \in V[n + 1]
    PROVE  \E f : IsRun(f, base, step) /\ \A n \in Nat : f[n] \in V[n]
<1>1. PICK f : IsRun(f, base, step)
  BY StepsExist
<1> DEFINE T == {n \in Nat : f[n] \in V[n]}
<1>2. 0 \in T
  BY <1>1 DEF IsRun
<1>3. \A n \in Nat : n \in T => n + 1 \in T
  BY <1>1 DEF IsRun
<1>4. Nat \subseteq T
  <2> HIDE DEF T
  <2> QED BY <1>2, <1>3, NatSetInduction
<1> QED BY <1>1, <1>4

-----------------------------------------------------------------------------
(* Trees.                                                                  *)

Grown(S) == Leafs \cup BranchesOver(S)

NodesUpto(h, n) == h[0] = Leafs /\ \A i \in 0 .. n - 1 : h[i + 1] = Grown(h[i])

\* The sets of trees of bounded height are defined.
LEMMA NodesExist ==
    NodeOf[0] = Leafs /\ \A h \in Nat : NodeOf[h + 1] = Grown(NodeOf[h])
<1> DEFINE T == {n \in Nat : \E h : NodesUpto(h, n)}
           S == {n \in Nat : \A g, h : NodesUpto(g, n) /\ NodesUpto(h, n) => g[n] = h[n]}
<1>1. \A n \in Nat : \A h : NodesUpto(h, n + 1) => NodesUpto(h, n) /\ h[n + 1] = Grown(h[n])
  <2> SUFFICES ASSUME NEW n \in Nat, NEW h, NodesUpto(h, n + 1)
               PROVE  NodesUpto(h, n) /\ h[n + 1] = Grown(h[n])
    OBVIOUS
  <2>1. n \in 0 .. (n + 1) - 1 /\ \A i \in 0 .. n - 1 : i \in 0 .. (n + 1) - 1
    OBVIOUS
  <2> QED BY <2>1 DEF NodesUpto
<1>2. \A n \in Nat : n \in T
  <2>1. 0 \in T
    <3>1. NodesUpto([i \in {0} |-> Leafs], 0)
      BY DEF NodesUpto
    <3> QED BY <3>1
  <2>2. ASSUME NEW n \in Nat, n \in T PROVE n + 1 \in T
    <3>1. PICK h : NodesUpto(h, n)
      BY <2>2
    <3> DEFINE g == [i \in 0 .. n + 1 |-> IF i = n + 1 THEN Grown(h[n]) ELSE h[i]]
    <3>2. g[n + 1] = Grown(h[n]) /\ \A i \in 0 .. n : g[i] = h[i]
      OBVIOUS
    <3> HIDE DEF g
    <3>3. 0 \in 0 .. n /\ n \in 0 .. n /\ \A i \in 0 .. (n + 1) - 1 :
              i \in 0 .. n /\ (i = n \/ (i \in 0 .. n - 1 /\ i + 1 \in 0 .. n))
      OBVIOUS
    <3>4. NodesUpto(g, n + 1)
      BY <3>1, <3>2, <3>3 DEF NodesUpto
    <3> QED BY <3>4
  <2> HIDE DEF T
  <2> QED BY <2>1, <2>2, NatSetInduction
<1>3. \A n \in Nat : n \in S
  <2>1. 0 \in S
    BY DEF NodesUpto
  <2>2. ASSUME NEW n \in Nat, n \in S PROVE n + 1 \in S
    <3>1. ASSUME NEW g, NEW h, NodesUpto(g, n + 1), NodesUpto(h, n + 1)
          PROVE  g[n + 1] = h[n + 1]
      <4>1. NodesUpto(g, n) /\ NodesUpto(h, n)
        BY <1>1, <3>1
      <4>2. g[n] = h[n]
        BY <2>2, <4>1
      <4> QED BY <1>1, <3>1, <4>2
    <3> QED BY <3>1
  <2> HIDE DEF S
  <2> QED BY <2>1, <2>2, NatSetInduction
<1> DEFINE f == [n \in Nat |-> (CHOOSE h : NodesUpto(h, n))[n]]
           Rec(g) == [h \in Nat |-> IF h = 0 THEN Leafs ELSE Grown(g[h - 1])]
<1>4. ASSUME NEW n \in Nat, NEW h, NodesUpto(h, n) PROVE f[n] = h[n]
  <2>1. NodesUpto(CHOOSE g : NodesUpto(g, n), n)
    BY <1>4
  <2>2. (CHOOSE g : NodesUpto(g, n))[n] = h[n]
    BY <1>3, <1>4, <2>1
  <2> QED BY <2>2
<1>0. f = [n \in Nat |-> f[n]]
  OBVIOUS
<1> HIDE DEF f
<1>5. f = Rec(f)
  <2> SUFFICES ASSUME NEW n \in Nat
               PROVE  f[n] = IF n = 0 THEN Leafs ELSE Grown(f[n - 1])
    BY <1>0
  <2>1. PICK h : NodesUpto(h, n)
    BY <1>2
  <2>2. f[n] = h[n]
    BY <1>4, <2>1
  <2>3. CASE n = 0
    BY <2>1, <2>2, <2>3 DEF NodesUpto
  <2>4. CASE n # 0
    <3>1. n - 1 \in Nat /\ (n - 1) + 1 = n
      BY <2>4
    <3>2. NodesUpto(h, n - 1) /\ h[n] = Grown(h[n - 1])
      BY <1>1, <2>1, <3>1
    <3>3. f[n - 1] = h[n - 1]
      BY <1>4, <3>1, <3>2
    <3> QED BY <2>2, <2>4, <3>2, <3>3
  <2> QED BY <2>3, <2>4
<1>6. NodeOf = CHOOSE g : g = Rec(g)
  BY DEF NodeOf, Grown
<1>7. NodeOf = Rec(NodeOf)
  <2> HIDE DEF Rec
  <2> QED BY <1>5, <1>6
<1>8. ASSUME NEW h \in Nat PROVE NodeOf[h + 1] = Grown(NodeOf[h])
  <2>1. h + 1 \in Nat /\ h + 1 # 0 /\ (h + 1) - 1 = h
    OBVIOUS
  <2> QED BY <1>7, <2>1
<1> QED BY <1>7, <1>8
-----------------------------------------------------------------------------
(* Sequences and the newlines in them.                                     *)

LEMMA SameSequence ==
    ASSUME NEW S, NEW s \in Seq(S), NEW t \in Seq(S), Len(s) = Len(t),
           \A i \in 1 .. Len(s) : s[i] = t[i]
    PROVE  s = t
OBVIOUS

LEMMA ConcatAt ==
    ASSUME NEW S, NEW s \in Seq(S), NEW t \in Seq(S)
    PROVE  /\ s \o t \in Seq(S)
           /\ Len(s \o t) = Len(s) + Len(t)
           /\ \A i \in 1 .. Len(s) : (s \o t)[i] = s[i]
           /\ \A i \in 1 .. Len(t) : (s \o t)[Len(s) + i] = t[i]
           /\ \A i \in Len(s) + 1 .. Len(s) + Len(t) : (s \o t)[i] = t[i - Len(s)]
<1>1. Len(s) \in Nat /\ Len(t) \in Nat
  OBVIOUS
<1>2. /\ s \o t \in Seq(S)
      /\ Len(s \o t) = Len(s) + Len(t)
  OBVIOUS
<1>3. \A i \in 1 .. Len(s) : (s \o t)[i] = s[i]
  OBVIOUS
<1>4. \A i \in Len(s) + 1 .. Len(s) + Len(t) : (s \o t)[i] = t[i - Len(s)]
  OBVIOUS
<1>5. ASSUME NEW i \in 1 .. Len(t) PROVE (s \o t)[Len(s) + i] = t[i]
  <2>1. Len(s) + i \in Len(s) + 1 .. Len(s) + Len(t) /\ (Len(s) + i) - Len(s) = i
    BY <1>1
  <2> QED BY <1>4, <2>1
<1> QED BY <1>2, <1>3, <1>4, <1>5

LEMMA SubSeqAt ==
    ASSUME NEW S, NEW s \in Seq(S), NEW m \in Nat, NEW n \in Nat, n <= Len(s)
    PROVE  /\ SubSeq(s, m + 1, n) \in Seq(S)
           /\ Len(SubSeq(s, m + 1, n)) = IF m <= n THEN n - m ELSE 0
           /\ \A i \in 1 .. Len(SubSeq(s, m + 1, n)) : SubSeq(s, m + 1, n)[i] = s[m + i]
OBVIOUS

\* A part of a concatenation is made of a part of each.
LEMMA PartOfConcat ==
    ASSUME NEW S, NEW a \in Seq(S), NEW b \in Seq(S), NEW m \in Nat, NEW n \in Nat,
           n <= Len(a) + Len(b)
    PROVE  SubSeq(a \o b, m + 1, n)
             = (IF m < Len(a) THEN SubSeq(a, m + 1, Least(n, Len(a))) ELSE <<>>)
               \o (IF n > Len(a) THEN SubSeq(b, Most(m - Len(a), 0) + 1, n - Len(a)) ELSE <<>>)
<1> DEFINE c == SubSeq(a \o b, m + 1, n)
           l == IF m < Len(a) THEN SubSeq(a, m + 1, Least(n, Len(a))) ELSE <<>>
           r == IF n > Len(a) THEN SubSeq(b, Most(m - Len(a), 0) + 1, n - Len(a)) ELSE <<>>
<1>0. Len(a) \in Nat /\ Len(b) \in Nat
  OBVIOUS
<1>9. Most(m - Len(a), 0) = IF m < Len(a) THEN 0 ELSE m - Len(a)
  BY <1>0 DEF Most
<1>1. /\ c \in Seq(S)
      /\ Len(c) = IF m <= n THEN n - m ELSE 0
      /\ \A i \in 1 .. Len(c) : c[i] = (a \o b)[m + i]
  BY ConcatAt, SubSeqAt
<1>2. /\ l \in Seq(S)
      /\ Len(l) = IF m < Len(a) /\ m <= n THEN Least(n, Len(a)) - m ELSE 0
      /\ \A i \in 1 .. Len(l) : l[i] = a[m + i]
  <2>1. CASE m < Len(a)
    <3> DEFINE j == Least(n, Len(a))
    <3>1. j \in Nat /\ j <= Len(a) /\ (m <= j <=> m <= n)
      BY <1>0, <2>1 DEF Least
    <3>2. l = SubSeq(a, m + 1, j)
      BY <2>1
    <3> HIDE DEF l, j
    <3>3. /\ l \in Seq(S) /\ Len(l) = IF m <= j THEN j - m ELSE 0
          /\ \A i \in 1 .. Len(l) : l[i] = a[m + i]
      BY <3>1, <3>2, SubSeqAt
    <3>4. Len(l) = IF m < Len(a) /\ m <= n THEN j - m ELSE 0
      BY <2>1, <3>1, <3>3
    <3> QED BY <3>3, <3>4 DEF j
  <2>2. CASE ~(m < Len(a))
    BY <2>2
  <2> QED BY <2>1, <2>2
<1>3. /\ r \in Seq(S)
      /\ Len(r) = IF n > Len(a) /\ m <= n THEN n - Len(a) - Most(m - Len(a), 0) ELSE 0
      /\ \A i \in 1 .. Len(r) : r[i] = b[Most(m - Len(a), 0) + i]
  <2>1. CASE n > Len(a)
    <3> DEFINE f == Most(m - Len(a), 0)
               j == n - Len(a)
    <3>1. f \in Nat /\ j \in Nat /\ j <= Len(b) /\ (f <= j <=> m <= n)
      BY <1>0, <2>1 DEF Most
    <3>2. r = SubSeq(b, f + 1, j)
      BY <2>1
    <3> HIDE DEF r, f, j
    <3>3. /\ r \in Seq(S) /\ Len(r) = IF f <= j THEN j - f ELSE 0
          /\ \A i \in 1 .. Len(r) : r[i] = b[f + i]
      BY <3>1, <3>2, SubSeqAt
    <3>4. Len(r) = IF n > Len(a) /\ m <= n THEN j - f ELSE 0
      BY <2>1, <3>1, <3>3
    <3> QED BY <3>3, <3>4 DEF f, j
  <2>2. CASE ~(n > Len(a))
    BY <2>2
  <2> QED BY <2>1, <2>2
<1> HIDE DEF c, l, r
<1>4. l \o r \in Seq(S) /\ Len(l \o r) = Len(c)
  <2>1. /\ Len(c) = IF m <= n THEN n - m ELSE 0
        /\ Len(l) = IF m < Len(a) /\ m <= n THEN Least(n, Len(a)) - m ELSE 0
        /\ Len(r) = IF n > Len(a) /\ m <= n THEN n - Len(a) - Most(m - Len(a), 0) ELSE 0
    BY <1>1, <1>2, <1>3
  <2>2. Len(l) + Len(r) = Len(c)
    <3>1. CASE m <= n /\ m < Len(a)
      <4>1. CASE n > Len(a)
        <5>1. Len(l) = Len(a) - m /\ Len(r) = n - Len(a) /\ Len(c) = n - m
          BY <1>0, <1>9, <2>1, <3>1, <4>1 DEF Least
        <5> QED BY <1>0, <5>1
      <4>2. CASE ~(n > Len(a))
        BY <1>0, <2>1, <3>1, <4>2 DEF Least
      <4> QED BY <4>1, <4>2
    <3>2. CASE m <= n /\ ~(m < Len(a))
      BY <1>0, <2>1, <3>2 DEF Least, Most
    <3>3. CASE ~(m <= n)
      BY <1>0, <2>1, <3>3
    <3> QED BY <3>1, <3>2, <3>3
  <2> QED BY <1>2, <1>3, <2>2, ConcatAt
<1>5. ASSUME NEW i \in 1 .. Len(c) PROVE c[i] = (l \o r)[i]
  <2>0. Len(l) \in Nat /\ Len(r) \in Nat /\ Len(c) = Len(l) + Len(r)
    <3>1. Len(l \o r) = Len(l) + Len(r)
      BY <1>2, <1>3, ConcatAt
    <3> QED BY <1>2, <1>3, <1>4, <3>1
  <2>1. i \in Nat /\ Len(l) \in Nat /\ Len(r) \in Nat /\ i <= Len(l) + Len(r)
    BY <2>0
  <2>2. CASE i <= Len(l)
    <3>1. i \in 1 .. Len(l) /\ m + i \in 1 .. Len(a)
      BY <1>0, <1>2, <2>1, <2>2 DEF Least
    <3>2. (a \o b)[m + i] = a[m + i] /\ (l \o r)[i] = l[i]
      BY <1>2, <1>3, <3>1, ConcatAt
    <3> QED BY <1>1, <1>2, <3>1, <3>2
  <2>3. CASE i > Len(l)
    <3>1. i \in Len(l) + 1 .. Len(l) + Len(r) /\ i - Len(l) \in 1 .. Len(r)
      BY <2>1, <2>3
    <3>2. /\ m + i \in Len(a) + 1 .. Len(a) + Len(b)
          /\ (m + i) - Len(a) = Most(m - Len(a), 0) + (i - Len(l))
      <4>1. /\ Len(c) = IF m <= n THEN n - m ELSE 0
            /\ Len(l) = IF m < Len(a) /\ m <= n THEN Least(n, Len(a)) - m ELSE 0
        BY <1>1, <1>2
      <4>2. m <= n
        BY <2>0, <2>1, <4>1
      <4>3. CASE m < Len(a)
        <5>1. n > Len(a)
          BY <1>0, <2>0, <2>1, <2>3, <4>1, <4>2, <4>3 DEF Least
        <5>2. Len(l) = Len(a) - m
          BY <1>0, <4>1, <4>2, <4>3, <5>1 DEF Least
        <5>3. m + i <= n
          BY <1>0, <2>0, <2>1, <4>1, <4>2
        <5>4. m + i > Len(a) /\ m + i <= Len(a) + Len(b)
          BY <1>0, <2>1, <2>3, <5>2, <5>3
        <5>5. Most(m - Len(a), 0) = 0 /\ (m + i) - Len(a) = 0 + (i - Len(l))
          BY <1>0, <1>9, <2>1, <4>3, <5>2
        <5> QED BY <1>0, <2>1, <5>4, <5>5
      <4>4. CASE ~(m < Len(a))
        <5>1. m + i <= n /\ Len(l) = 0
          BY <1>0, <2>0, <2>1, <4>1, <4>2, <4>4
        <5>2. m + i > Len(a) /\ m + i <= Len(a) + Len(b)
          BY <1>0, <2>1, <2>3, <4>4, <5>1
        <5>3. Most(m - Len(a), 0) = m - Len(a)
          BY <1>9, <4>4
        <5>4. (m + i) - Len(a) = (m - Len(a)) + (i - Len(l))
          BY <1>0, <2>1, <5>1
        <5> QED BY <1>0, <2>1, <5>2, <5>3, <5>4
      <4> QED BY <4>3, <4>4
    <3>3. (a \o b)[m + i] = b[(m + i) - Len(a)]
      BY <3>2, ConcatAt
    <3>4. (l \o r)[i] = r[i - Len(l)]
      <4>1. l \in Seq(S) /\ r \in Seq(S) /\ i \in Len(l) + 1 .. Len(l) + Len(r)
        BY <1>2, <1>3, <3>1
      <4> QED BY <4>1, ConcatAt
    <3>5. r[i - Len(l)] = b[Most(m - Len(a), 0) + (i - Len(l))]
      BY <1>3, <3>1
    <3>6. c[i] = (a \o b)[m + i]
      BY <1>1
    <3> QED BY <3>2, <3>3, <3>4, <3>5, <3>6
  <2> QED BY <2>1, <2>2, <2>3
<1>6. c = l \o r
  BY <1>1, <1>4, <1>5, SameSequence
<1> QED BY <1>6 DEF c, l, r

\* A concatenation, split: within the first part or within the second.
LEMMA HeadOfConcat ==
    ASSUME NEW S, NEW a \in Seq(S), NEW b \in Seq(S), NEW p \in Nat, p <= Len(a)
    PROVE  /\ SubSeq(a \o b, 1, p) = SubSeq(a, 1, p)
           /\ SubSeq(a \o b, p + 1, Len(a \o b)) = SubSeq(a, p + 1, Len(a)) \o b
<1>0. Len(a) \in Nat /\ Len(b) \in Nat /\ Len(a \o b) = Len(a) + Len(b)
  BY ConcatAt
<1>1. SubSeq(a \o b, 0 + 1, p) = SubSeq(a, 1, p)
  <2>1. CASE p = 0
    BY <2>1
  <2>2. CASE p # 0
    <3>1. 0 < Len(a) /\ ~(p > Len(a)) /\ Least(p, Len(a)) = p
      BY <1>0, <2>2 DEF Least
    <3>2. SubSeq(a \o b, 0 + 1, p) = SubSeq(a, 0 + 1, p) \o <<>>
      BY <1>0, <3>1, PartOfConcat
    <3> QED BY <1>0, <3>2
  <2> QED BY <2>1, <2>2
<1>2. SubSeq(a \o b, p + 1, Len(a) + Len(b)) = SubSeq(a, p + 1, Len(a)) \o b
  <2> DEFINE n == Len(a) + Len(b)
  <2>1. Most(p - Len(a), 0) = 0 /\ Least(n, Len(a)) = Len(a) /\ n - Len(a) = Len(b) /\ n \in Nat
    BY <1>0 DEF Most, Least
  <2>5. SubSeq(a \o b, p + 1, n)
          = (IF p < Len(a) THEN SubSeq(a, p + 1, Least(n, Len(a))) ELSE <<>>)
            \o (IF n > Len(a) THEN SubSeq(b, Most(p - Len(a), 0) + 1, n - Len(a)) ELSE <<>>)
    <3> HIDE DEF n
    <3>1. n <= Len(a) + Len(b)
      BY <1>0 DEF n
    <3> QED BY <2>1, <3>1, PartOfConcat
  <2>2. SubSeq(a \o b, p + 1, n)
          = (IF p < Len(a) THEN SubSeq(a, p + 1, Len(a)) ELSE <<>>)
            \o (IF n > Len(a) THEN SubSeq(b, 0 + 1, Len(b)) ELSE <<>>)
    <3> HIDE DEF n
    <3> QED BY <2>1, <2>5
  <2>3. (IF p < Len(a) THEN SubSeq(a, p + 1, Len(a)) ELSE <<>>) = SubSeq(a, p + 1, Len(a))
    BY <1>0
  <2>4. (IF n > Len(a) THEN SubSeq(b, 0 + 1, Len(b)) ELSE <<>>) = b
    <3>1. CASE Len(b) = 0
      BY <1>0, <3>1
    <3>2. CASE Len(b) # 0
      BY <1>0, <3>2
    <3> QED BY <3>1, <3>2
  <2> QED BY <2>2, <2>3, <2>4
<1>3. SubSeq(a \o b, 1, p) = SubSeq(a, 1, p)
  BY <1>1
<1> QED BY <1>0, <1>2, <1>3

LEMMA TailOfConcat ==
    ASSUME NEW S, NEW a \in Seq(S), NEW b \in Seq(S), NEW p \in Nat, p <= Len(b)
    PROVE  /\ SubSeq(a \o b, 1, Len(a) + p) = a \o SubSeq(b, 1, p)
           /\ SubSeq(a \o b, Len(a) + p + 1, Len(a \o b)) = SubSeq(b, p + 1, Len(b))
<1>0. Len(a) \in Nat /\ Len(b) \in Nat /\ Len(a \o b) = Len(a) + Len(b)
  BY ConcatAt
<1>1. SubSeq(a \o b, 0 + 1, Len(a) + p) = a \o SubSeq(b, 1, p)
  <2> DEFINE n == Len(a) + p
  <2>1. Most(0 - Len(a), 0) = 0 /\ Least(n, Len(a)) = Len(a) /\ n - Len(a) = p
        /\ n \in Nat /\ n <= Len(a) + Len(b)
    BY <1>0 DEF Most, Least
  <2>5. SubSeq(a \o b, 0 + 1, n)
          = (IF 0 < Len(a) THEN SubSeq(a, 0 + 1, Least(n, Len(a))) ELSE <<>>)
            \o (IF n > Len(a) THEN SubSeq(b, Most(0 - Len(a), 0) + 1, n - Len(a)) ELSE <<>>)
    <3> HIDE DEF n
    <3> QED BY <2>1, PartOfConcat
  <2>2. SubSeq(a \o b, 0 + 1, n)
          = (IF 0 < Len(a) THEN SubSeq(a, 0 + 1, Len(a)) ELSE <<>>)
            \o (IF n > Len(a) THEN SubSeq(b, 0 + 1, p) ELSE <<>>)
    <3> HIDE DEF n
    <3> QED BY <2>1, <2>5
  <2>3. (IF 0 < Len(a) THEN SubSeq(a, 0 + 1, Len(a)) ELSE <<>>) = a
    BY <1>0
  <2>4. (IF n > Len(a) THEN SubSeq(b, 0 + 1, p) ELSE <<>>) = SubSeq(b, 1, p)
    BY <1>0
  <2> QED BY <2>2, <2>3, <2>4
<1>2. SubSeq(a \o b, Len(a) + p + 1, Len(a) + Len(b)) = SubSeq(b, p + 1, Len(b))
  <2> DEFINE n == Len(a) + Len(b)
             m == Len(a) + p
  <2>1. Most(m - Len(a), 0) = p /\ n - Len(a) = Len(b) /\ n \in Nat /\ m \in Nat
        /\ ~(m < Len(a))
    BY <1>0 DEF Most
  <2>5. SubSeq(a \o b, m + 1, n)
          = (IF m < Len(a) THEN SubSeq(a, m + 1, Least(n, Len(a))) ELSE <<>>)
            \o (IF n > Len(a) THEN SubSeq(b, Most(m - Len(a), 0) + 1, n - Len(a)) ELSE <<>>)
    <3>1. n <= Len(a) + Len(b)
      BY <1>0
    <3> HIDE DEF n, m
    <3> QED BY <2>1, <3>1, PartOfConcat
  <2>2. SubSeq(a \o b, m + 1, n)
          = <<>> \o (IF n > Len(a) THEN SubSeq(b, p + 1, Len(b)) ELSE <<>>)
    <3> HIDE DEF n, m
    <3> QED BY <2>1, <2>5
  <2>3. (IF n > Len(a) THEN SubSeq(b, p + 1, Len(b)) ELSE <<>>) = SubSeq(b, p + 1, Len(b))
    BY <1>0
  <2>4. SubSeq(b, p + 1, Len(b)) \in Seq(S)
    BY <1>0, SubSeqAt
  <2> QED BY <2>2, <2>3, <2>4
<1> QED BY <1>0, <1>1, <1>2

LEMMA ConcatAssoc ==
    ASSUME NEW S, NEW a \in Seq(S), NEW b \in Seq(S), NEW c \in Seq(S)
    PROVE  (a \o b) \o c = a \o (b \o c)
OBVIOUS

LEMMA WholeSeq ==
    ASSUME NEW S, NEW a \in Seq(S)
    PROVE  /\ SubSeq(a, 1, Len(a)) = a /\ a \o <<>> = a /\ <<>> \o a = a
           /\ SubSeq(a, 1, 0) = <<>> /\ <<>> \in Seq(S) /\ Len(a) \in Nat
           /\ (Len(a) = 0 <=> a = <<>>)
OBVIOUS

\* The places of the newlines.
Ends(s) == {i \in DOMAIN s : s[i] = Newline}

LEMMA NewlinesType ==
    ASSUME NEW S, NEW s \in Seq(S)
    PROVE  IsFiniteSet(Ends(s)) /\ Newlines(s) \in Nat /\ Newlines(s) <= Len(s)
<1>1. IsFiniteSet(1 .. Len(s)) /\ Cardinality(1 .. Len(s)) = Len(s)
  <2>1. Len(s) \in Nat
    OBVIOUS
  <2> QED BY <2>1, FS_Interval
<1>2. Ends(s) \in SUBSET (1 .. Len(s)) /\ Newlines(s) = Cardinality(Ends(s))
  BY DEF Ends, Newlines
<1>3. IsFiniteSet(Ends(s)) /\ Cardinality(Ends(s)) <= Cardinality(1 .. Len(s))
  BY <1>1, <1>2, FS_Subset
<1>4. Cardinality(Ends(s)) \in Nat
  BY <1>3, FS_CardinalityType
<1> QED BY <1>1, <1>2, <1>3, <1>4

\* The newlines of a concatenation are those of its parts.
LEMMA NewlinesOfConcat ==
    ASSUME NEW S, NEW a \in Seq(S), NEW b \in Seq(S)
    PROVE  Newlines(a \o b) = Newlines(a) + Newlines(b)
<1> DEFINE moved == {i \in Len(a) + 1 .. Len(a) + Len(b) : b[i - Len(a)] = Newline}
           f == [i \in Ends(b) |-> Len(a) + i]
<1>0. Len(a) \in Nat /\ Len(b) \in Nat
  OBVIOUS
<1>1. Ends(a) \cup moved = Ends(a \o b)
  <2>1. DOMAIN (a \o b) = 1 .. Len(a) + Len(b) /\ DOMAIN a = 1 .. Len(a)
    BY ConcatAt
  <2>2. \A i \in 1 .. Len(a) + Len(b) : i \in 1 .. Len(a) \/ i \in Len(a) + 1 .. Len(a) + Len(b)
    BY <1>0
  <2>3. \A i : i \in 1 .. Len(a) \/ i \in Len(a) + 1 .. Len(a) + Len(b)
               => i \in 1 .. Len(a) + Len(b)
    BY <1>0
  <2>4. \A i \in 1 .. Len(a) : (a \o b)[i] = a[i]
    BY ConcatAt
  <2>5. \A i \in Len(a) + 1 .. Len(a) + Len(b) : (a \o b)[i] = b[i - Len(a)]
    BY ConcatAt
  <2> QED BY <2>1, <2>2, <2>3, <2>4, <2>5 DEF Ends
<1>2. Ends(a) \cap moved = {}
  <2>1. Ends(a) \subseteq 1 .. Len(a)
    BY DEF Ends
  <2> QED BY <1>0, <2>1
<1>3. f \in Bijection(Ends(b), moved)
  <2>0. Ends(b) \subseteq 1 .. Len(b) /\ \A i \in 1 .. Len(b) : i \in Ends(b) <=> b[i] = Newline
    BY DEF Ends
  <2>1. \A i \in 1 .. Len(b) : /\ Len(a) + i \in Len(a) + 1 .. Len(a) + Len(b)
                               /\ (Len(a) + i) - Len(a) = i
    BY <1>0
  <2>2. \A i \in Len(a) + 1 .. Len(a) + Len(b) : /\ i - Len(a) \in 1 .. Len(b)
                                                 /\ Len(a) + (i - Len(a)) = i
    BY <1>0
  <2>3. f \in [Ends(b) -> moved]
    BY <2>0, <2>1
  <2>4. \A i, j \in Ends(b) : f[i] = f[j] => i = j
    BY <2>0, <2>1
  <2>5. \A j \in moved : \E i \in Ends(b) : f[i] = j
    <3> TAKE j \in moved
    <3>1. j - Len(a) \in 1 .. Len(b) /\ b[j - Len(a)] = Newline /\ Len(a) + (j - Len(a)) = j
      BY <2>2
    <3>2. j - Len(a) \in Ends(b)
      BY <2>0, <3>1
    <3> WITNESS j - Len(a) \in Ends(b)
    <3> QED BY <3>1, <3>2
  <2> HIDE DEF f, moved
  <2> QED BY <2>3, <2>4, <2>5 DEF Bijection, Injection, Surjection, IsInjective
<1>4. IsFiniteSet(moved) /\ Cardinality(moved) = Newlines(b) /\ Newlines(b) \in Nat
  <2>1. IsFiniteSet(Ends(b)) /\ Cardinality(Ends(b)) = Newlines(b) /\ Newlines(b) \in Nat
    BY NewlinesType DEF Ends, Newlines
  <2>2. ExistsBijection(Ends(b), moved)
    BY <1>3 DEF ExistsBijection
  <2> HIDE DEF moved
  <2> QED BY <2>1, <2>2, FS_Bijection
<1>5. IsFiniteSet(Ends(a)) /\ Cardinality(Ends(a)) = Newlines(a) /\ Newlines(a) \in Nat
  BY NewlinesType DEF Ends, Newlines
<1>6. Cardinality(Ends(a) \cup moved)
        = Cardinality(Ends(a)) + Cardinality(moved) - Cardinality(Ends(a) \cap moved)
  <2> HIDE DEF moved
  <2> QED BY <1>4, <1>5, FS_Union
<1>7. Newlines(a \o b) = Cardinality(Ends(a \o b))
  BY DEF Ends, Newlines
<1> HIDE DEF moved
<1>8. Cardinality(Ends(a) \cap moved) = 0
  BY <1>2, FS_EmptySet
<1>9. Cardinality(Ends(a) \cup moved) = Newlines(a \o b)
  BY <1>1, <1>7
<1>10. Newlines(a \o b) = Newlines(a) + Newlines(b) - 0
  BY <1>4, <1>5, <1>6, <1>8, <1>9
<1> QED BY <1>4, <1>5, <1>10

-----------------------------------------------------------------------------
(* What the nodes are.                                                     *)

Node == UNION {NodeOf[h] : h \in Nat}

LEMMA LeafIs ==
    ASSUME NEW s \in Seq(Char)
    PROVE  /\ Leaf(s) \in Leafs /\ IsLeaf(Leaf(s)) /\ Leaf(s).buf = s
           /\ Leaf(s).newlines = Newlines(s) /\ Newlines(s) \in Nat
           /\ TextLen(Leaf(s)) = Len(s) /\ Height(Leaf(s)) = 0
<1>1. Newlines(s) \in Nat
  BY NewlinesType
<1> HIDE DEF Newlines
<1>2. Leaf(s).buf = s /\ Leaf(s).newlines = Newlines(s) /\ DOMAIN Leaf(s) = {"buf", "newlines"}
  BY DEF Leaf
<1>3. Leaf(s) \in [buf : Seq(Char), newlines : Nat] /\ Leaf(s) = Leaf(Leaf(s).buf)
  BY <1>1, <1>2 DEF Leaf
<1>4. IsLeaf(Leaf(s))
  BY <1>2 DEF IsLeaf
<1> QED BY <1>1, <1>2, <1>3, <1>4 DEF Leafs, TextLen, Height

LEMMA LeafsAre ==
    ASSUME NEW n \in Leafs
    PROVE  n.buf \in Seq(Char) /\ n = Leaf(n.buf) /\ IsLeaf(n)
<1>1. n \in [buf : Seq(Char), newlines : Nat] /\ n = Leaf(n.buf)
  BY DEF Leafs
<1>2. "buf" \in DOMAIN n /\ n.buf \in Seq(Char)
  BY <1>1
<1> QED BY <1>1, <1>2 DEF IsLeaf

\* What the cached counts of a node are.
Counted(n) == TextLen(n) \in Nat /\ n.newlines \in Nat /\ Height(n) \in Nat

LEMMA BranchIs ==
    ASSUME NEW S, NEW l \in S, NEW r \in S, Counted(l), Counted(r)
    PROVE  LET n == Branch(l, r)
           IN  /\ n \in BranchesOver(S) /\ ~IsLeaf(n)
               /\ n.left = l /\ n.right = r /\ n.leftLen = TextLen(l)
               /\ TextLen(n) = TextLen(l) + TextLen(r)
               /\ n.newlines = l.newlines + r.newlines
               /\ Height(n) = 1 + Most(Height(l), Height(r))
<1> DEFINE n == Branch(l, r)
<1>1. /\ n.left = l /\ n.right = r /\ n.leftLen = TextLen(l)
      /\ n.len = TextLen(l) + TextLen(r)
      /\ n.newlines = l.newlines + r.newlines
      /\ n.height = 1 + Most(Height(l), Height(r))
      /\ DOMAIN n = {"left", "right", "leftLen", "len", "newlines", "height"}
  BY DEF Branch
<1>2. n.leftLen \in Nat /\ n.len \in Nat /\ n.newlines \in Nat /\ n.height \in Nat
  BY <1>1 DEF Counted, Most
<1>3. n = Branch(n.left, n.right)
  BY <1>1
<1>4. n \in [left : S, right : S, leftLen : Nat, len : Nat, newlines : Nat, height : Nat]
  <2>1. n = [left |-> l, right |-> r, leftLen |-> n.leftLen, len |-> n.len,
             newlines |-> n.newlines, height |-> n.height]
    BY DEF Branch
  <2> HIDE DEF n
  <2> QED BY <1>2, <2>1
<1>5. ~IsLeaf(n)
  BY <1>1 DEF IsLeaf
<1> HIDE DEF n
<1>6. n \in BranchesOver(S) /\ TextLen(n) = n.len /\ Height(n) = n.height
  BY <1>3, <1>4, <1>5 DEF BranchesOver, TextLen, Height
<1> QED BY <1>1, <1>5, <1>6 DEF n

LEMMA BranchesAre ==
    ASSUME NEW S, NEW n \in BranchesOver(S)
    PROVE  /\ n.left \in S /\ n.right \in S /\ n = Branch(n.left, n.right)
           /\ ~IsLeaf(n) /\ Counted(n)
<1>1. /\ n \in [left : S, right : S, leftLen : Nat, len : Nat, newlines : Nat, height : Nat]
      /\ n = Branch(n.left, n.right)
  BY DEF BranchesOver
<1>2. /\ DOMAIN n = {"left", "right", "leftLen", "len", "newlines", "height"}
      /\ n.left \in S /\ n.right \in S /\ n.len \in Nat /\ n.newlines \in Nat
      /\ n.height \in Nat
  BY <1>1
<1>3. ~IsLeaf(n)
  BY <1>2 DEF IsLeaf
<1> QED BY <1>1, <1>2, <1>3 DEF Counted, TextLen, Height

\* A node is a leaf, or a branch over nodes that are less deep.
LEMMA NodeCases ==
    ASSUME NEW h \in Nat, NEW n \in NodeOf[h]
    PROVE  /\ n \in Node /\ Counted(n)
           /\ IsLeaf(n) => n \in Leafs
           /\ ~IsLeaf(n) => h # 0 /\ h - 1 \in Nat /\ n \in BranchesOver(NodeOf[h - 1])
<1>1. n \in Node
  BY DEF Node
<1>2. n \in Leafs \/ (h # 0 /\ h - 1 \in Nat /\ n \in BranchesOver(NodeOf[h - 1]))
  <2>1. CASE h = 0
    BY <2>1, NodesExist
  <2>2. CASE h # 0
    <3>1. h - 1 \in Nat /\ (h - 1) + 1 = h
      BY <2>2
    <3>2. NodeOf[h] = Grown(NodeOf[h - 1])
      BY <3>1, NodesExist
    <3> QED BY <2>2, <3>1, <3>2 DEF Grown
  <2> QED BY <2>1, <2>2
<1>3. CASE n \in Leafs
  <2>1. n.buf \in Seq(Char) /\ n = Leaf(n.buf) /\ IsLeaf(n)
    BY <1>3, LeafsAre
  <2>2. Counted(Leaf(n.buf))
    BY <2>1, LeafIs DEF Counted
  <2> QED BY <1>1, <1>3, <2>1, <2>2
<1>4. CASE h # 0 /\ h - 1 \in Nat /\ n \in BranchesOver(NodeOf[h - 1])
  BY <1>1, <1>4, BranchesAre
<1> QED BY <1>2, <1>3, <1>4

LEMMA NodeIs ==
    ASSUME NEW h \in Nat
    PROVE  Leafs \subseteq NodeOf[h] /\ BranchesOver(NodeOf[h]) \subseteq NodeOf[h + 1]
<1>1. Leafs \subseteq NodeOf[h]
  <2>1. CASE h = 0
    BY <2>1, NodesExist
  <2>2. CASE h # 0
    <3>1. h - 1 \in Nat /\ (h - 1) + 1 = h
      BY <2>2
    <3>2. NodeOf[h] = Grown(NodeOf[h - 1])
      BY <3>1, NodesExist
    <3> QED BY <3>2 DEF Grown
  <2> QED BY <2>1, <2>2
<1>2. NodeOf[h + 1] = Grown(NodeOf[h])
  BY NodesExist
<1> QED BY <1>1, <1>2 DEF Grown

LEMMA OverMore ==
    ASSUME NEW S, NEW U, S \subseteq U
    PROVE  BranchesOver(S) \subseteq BranchesOver(U)
<1> SUFFICES ASSUME NEW n \in BranchesOver(S) PROVE n \in BranchesOver(U)
  OBVIOUS
<1>1. /\ n \in [left : S, right : S, leftLen : Nat, len : Nat, newlines : Nat, height : Nat]
      /\ n = Branch(n.left, n.right)
  BY DEF BranchesOver
<1>2. n \in [left : U, right : U, leftLen : Nat, len : Nat, newlines : Nat, height : Nat]
  BY <1>1
<1> QED BY <1>1, <1>2 DEF BranchesOver

\* The trees of height h are among those of any greater height.
LEMMA NodesGrow ==
    ASSUME NEW h \in Nat, NEW k \in Nat, h <= k
    PROVE  NodeOf[h] \subseteq NodeOf[k]
<1> DEFINE T == {j \in Nat : NodeOf[j] \subseteq NodeOf[j + 1]}
           U == {j \in Nat : NodeOf[h] \subseteq NodeOf[h + j]}
<1>1. \A j \in Nat : j \in T
  <2>1. 0 \in T
    BY NodesExist, NodeIs
  <2>2. ASSUME NEW j \in Nat, j \in T PROVE j + 1 \in T
    <3>1. NodeOf[j] \subseteq NodeOf[j + 1]
      BY <2>2
    <3>2. NodeOf[j + 1] = Grown(NodeOf[j]) /\ NodeOf[(j + 1) + 1] = Grown(NodeOf[j + 1])
      BY NodesExist
    <3>3. Grown(NodeOf[j]) \subseteq Grown(NodeOf[j + 1])
      BY <3>1, OverMore DEF Grown
    <3> QED BY <3>2, <3>3
  <2> HIDE DEF T
  <2> QED BY <2>1, <2>2, NatSetInduction
<1>2. 0 \in U
  OBVIOUS
<1>3. ASSUME NEW j \in Nat, j \in U PROVE j + 1 \in U
  <2>1. h + j \in Nat /\ (h + j) + 1 = h + (j + 1)
    OBVIOUS
  <2> QED BY <1>1, <1>3, <2>1
<1>4. k - h \in U
  <2> HIDE DEF U
  <2>1. k - h \in Nat
    OBVIOUS
  <2> QED BY <1>2, <1>3, <2>1, NatSetInduction
<1>5. h + (k - h) = k
  OBVIOUS
<1> QED BY <1>4, <1>5

\* What holds of leaves, and of a branch when it holds of its parts, holds of trees.
LEMMA TreeInduction ==
    ASSUME NEW T, Leafs \subseteq T,
           \A l, r \in Node : l \in T /\ r \in T => Branch(l, r) \in T
    PROVE  Node \subseteq T
<1> DEFINE U == {h \in Nat : NodeOf[h] \subseteq T}
<1>1. 0 \in U
  BY NodesExist
<1>2. ASSUME NEW h \in Nat, h \in U PROVE h + 1 \in U
  <2> SUFFICES ASSUME NEW n \in NodeOf[h + 1] PROVE n \in T
    OBVIOUS
  <2>1. n \in Leafs \/ n \in BranchesOver(NodeOf[h])
    BY NodesExist DEF Grown
  <2>2. CASE n \in BranchesOver(NodeOf[h])
    <3>1. n.left \in NodeOf[h] /\ n.right \in NodeOf[h] /\ n = Branch(n.left, n.right)
      BY <2>2, BranchesAre
    <3>2. n.left \in Node /\ n.right \in Node
      BY <3>1 DEF Node
    <3> QED BY <1>2, <3>1, <3>2
  <2> QED BY <2>1, <2>2
<1>3. \A h \in Nat : NodeOf[h] \subseteq T
  <2>1. Nat \subseteq U
    <3> HIDE DEF U
    <3> QED BY <1>1, <1>2, NatSetInduction
  <2> QED BY <2>1
<1> QED BY <1>3 DEF Node

\* Nodes, leaves and branches without their heights.
LEMMA LeafIn ==
    ASSUME NEW s \in Seq(Char)
    PROVE  Leaf(s) \in Node /\ \A h \in Nat : Leaf(s) \in NodeOf[h]
<1>1. Leaf(s) \in Leafs
  BY LeafIs
<1> QED BY <1>1, NodeIs DEF Node

LEMMA BranchIn ==
    ASSUME NEW l \in Node, NEW r \in Node
    PROVE  LET n == Branch(l, r)
           IN  /\ n \in Node /\ ~IsLeaf(n)
               /\ n.left = l /\ n.right = r /\ n.leftLen = TextLen(l)
               /\ TextLen(n) = TextLen(l) + TextLen(r)
               /\ n.newlines = l.newlines + r.newlines
               /\ Height(n) = 1 + Most(Height(l), Height(r))
<1>1. PICK h \in Nat, k \in Nat : l \in NodeOf[h] /\ r \in NodeOf[k]
  BY DEF Node
<1> DEFINE m == Most(h, k)
<1>2. m \in Nat /\ h <= m /\ k <= m
  BY DEF Most
<1>3. l \in NodeOf[m] /\ r \in NodeOf[m]
  <2> HIDE DEF m
  <2> QED BY <1>1, <1>2, NodesGrow
<1> HIDE DEF m
<1>4. Counted(l) /\ Counted(r)
  BY <1>1, NodeCases
<1> DEFINE n == Branch(l, r)
<1>5. /\ n \in BranchesOver(NodeOf[m]) /\ ~IsLeaf(n)
      /\ n.left = l /\ n.right = r /\ n.leftLen = TextLen(l)
      /\ TextLen(n) = TextLen(l) + TextLen(r)
      /\ n.newlines = l.newlines + r.newlines
      /\ Height(n) = 1 + Most(Height(l), Height(r))
  BY <1>3, <1>4, BranchIs
<1> HIDE DEF n
<1>6. n \in NodeOf[m + 1]
  BY <1>2, <1>5, NodeIs
<1>7. n \in Node
  BY <1>2, <1>6 DEF Node
<1> QED BY <1>5, <1>7 DEF n

LEMMA NodeOut ==
    ASSUME NEW n \in Node
    PROVE  /\ Counted(n)
           /\ IsLeaf(n) => n.buf \in Seq(Char) /\ n = Leaf(n.buf)
           /\ ~IsLeaf(n) => n.left \in Node /\ n.right \in Node /\ n = Branch(n.left, n.right)
<1>1. PICK h \in Nat : n \in NodeOf[h]
  BY DEF Node
<1>2. CASE IsLeaf(n)
  BY <1>1, <1>2, NodeCases, LeafsAre
<1>3. CASE ~IsLeaf(n)
  <2>1. Counted(n) /\ h - 1 \in Nat /\ n \in BranchesOver(NodeOf[h - 1])
    BY <1>1, <1>3, NodeCases
  <2>2. n.left \in NodeOf[h - 1] /\ n.right \in NodeOf[h - 1] /\ n = Branch(n.left, n.right)
    BY <2>1, BranchesAre
  <2> QED BY <1>3, <2>1, <2>2 DEF Node
<1> QED BY <1>2, <1>3

\* The height of a node is the least of those it has.
LEMMA HeightFits ==
    ASSUME NEW n \in Node
    PROVE  /\ Height(n) \in Nat /\ n \in NodeOf[Height(n)]
           /\ \A h \in Nat : n \in NodeOf[h] => Height(n) <= h
<1> DEFINE T == {m \in Node : /\ m \in NodeOf[Height(m)]
                              /\ \A h \in Nat : m \in NodeOf[h] => Height(m) <= h}
<1>1. Leafs \subseteq T
  <2> SUFFICES ASSUME NEW m \in Leafs PROVE m \in T
    OBVIOUS
  <2>1. m.buf \in Seq(Char) /\ m = Leaf(m.buf)
    BY LeafsAre
  <2>2. Height(m) = 0 /\ m \in Node
    BY <2>1, LeafIs, LeafIn
  <2> QED BY <2>2, NodesExist
<1>2. ASSUME NEW l \in Node, NEW r \in Node, l \in T, r \in T PROVE Branch(l, r) \in T
  <2> DEFINE m == Branch(l, r)
             k == Most(Height(l), Height(r))
  <2>1. /\ m \in Node /\ ~IsLeaf(m) /\ m.left = l /\ m.right = r /\ Height(m) = 1 + k
    BY BranchIn
  <2>2. Counted(l) /\ Counted(r) /\ Height(l) \in Nat /\ Height(r) \in Nat
    BY NodeOut DEF Counted
  <2>3. k \in Nat /\ Height(l) <= k /\ Height(r) <= k /\ 1 + k = k + 1
    BY <2>2 DEF Most
  <2>4. l \in NodeOf[k] /\ r \in NodeOf[k]
    <3> HIDE DEF k
    <3> QED BY <1>2, <2>2, <2>3, NodesGrow
  <2>5. m \in NodeOf[k + 1]
    <3>1. m \in BranchesOver(NodeOf[k])
      BY <2>2, <2>4, BranchIs
    <3> HIDE DEF m, k
    <3> QED BY <2>3, <3>1, NodeIs
  <2>6. ASSUME NEW h \in Nat, m \in NodeOf[h] PROVE Height(m) <= h
    <3> HIDE DEF m
    <3>1. h - 1 \in Nat /\ m \in BranchesOver(NodeOf[h - 1])
      BY <2>1, <2>6, NodeCases
    <3>2. l \in NodeOf[h - 1] /\ r \in NodeOf[h - 1]
      BY <2>1, <3>1, BranchesAre
    <3>3. Height(l) <= h - 1 /\ Height(r) <= h - 1
      BY <1>2, <3>1, <3>2
    <3> QED BY <2>1, <2>2, <3>3 DEF Most
  <2> HIDE DEF m, k
  <2>7. m \in T
    BY <2>1, <2>3, <2>5, <2>6
  <2> QED BY <2>7 DEF m
<1>3. Node \subseteq T
  <2> HIDE DEF T
  <2> QED BY <1>1, <1>2, TreeInduction
<1>4. Height(n) \in Nat
  BY NodeOut DEF Counted
<1> QED BY <1>3, <1>4

-----------------------------------------------------------------------------
(* The text of a tree.                                                     *)

LEMMA TextDefined ==
    ASSUME NEW h \in Nat
    PROVE  /\ textAt[h] \in [NodeOf[h] -> Seq(Char)]
           /\ \A n \in NodeOf[h] : textAt[h][n] = TextBy(textAt[h - 1], n)
<1> DEFINE V == [k \in Nat |-> [NodeOf[k] -> Seq(Char)]]
           base == [n \in NodeOf[0] |-> TextBy(<<>>, n)]
           step == [k \in Nat |-> [g \in V[k] |-> [n \in NodeOf[k + 1] |-> TextBy(g, n)]]]
           Rec(f) == [k \in Nat |-> [n \in NodeOf[k] |-> TextBy(f[k - 1], n)]]
<1>1. \A n \in NodeOf[0] : IsLeaf(n) /\ n.buf \in Seq(Char)
  BY NodesExist, LeafsAre
<1>2. base \in V[0]
  BY <1>1 DEF TextBy
<1>3. ASSUME NEW k \in Nat, NEW g \in V[k]
      PROVE  step[k][g] = [n \in NodeOf[k + 1] |-> TextBy(g, n)] /\ step[k][g] \in V[k + 1]
  <2>1. ASSUME NEW n \in NodeOf[k + 1] PROVE TextBy(g, n) \in Seq(Char)
    <3>1. CASE IsLeaf(n)
      <4>1. n \in Leafs
        BY <3>1, NodeCases
      <4> QED BY <3>1, <4>1, LeafsAre DEF TextBy
    <3>2. CASE ~IsLeaf(n)
      <4>1. n \in BranchesOver(NodeOf[(k + 1) - 1]) /\ (k + 1) - 1 = k
        BY <3>2, NodeCases
      <4>2. n.left \in NodeOf[k] /\ n.right \in NodeOf[k]
        BY <4>1, BranchesAre
      <4> QED BY <3>2, <4>2 DEF TextBy
    <3> QED BY <3>1, <3>2
  <2>2. step[k][g] = [n \in NodeOf[k + 1] |-> TextBy(g, n)]
    OBVIOUS
  <2> QED BY <2>1, <2>2
<1>4. PICK f : IsRun(f, base, step) /\ \A k \in Nat : f[k] \in V[k]
  <2> HIDE DEF base, step, V
  <2> QED BY <1>2, <1>3, LayersExist
<1>5. ASSUME NEW k \in Nat PROVE f[k] = [n \in NodeOf[k] |-> TextBy(f[k - 1], n)]
  <2>1. CASE k = 0
    <3>1. f[k] = base
      BY <1>4, <2>1 DEF IsRun
    <3>2. \A n \in NodeOf[k] : TextBy(<<>>, n) = TextBy(f[k - 1], n)
      BY <1>1, <2>1 DEF TextBy
    <3> QED BY <2>1, <3>1, <3>2
  <2>2. CASE k # 0
    <3>1. k - 1 \in Nat /\ (k - 1) + 1 = k
      BY <2>2
    <3>2. f[k] = step[k - 1][f[k - 1]] /\ f[k - 1] \in V[k - 1]
      BY <1>4, <3>1 DEF IsRun
    <3> HIDE DEF step, V
    <3> QED BY <1>3, <3>1, <3>2
  <2> QED BY <2>1, <2>2
<1>6. f = Rec(f)
  <2>1. f = [k \in Nat |-> f[k]]
    BY <1>4 DEF IsRun
  <2> QED BY <1>5, <2>1
<1>7. textAt = CHOOSE g : g = Rec(g)
  BY DEF textAt
<1>8. textAt = Rec(textAt)
  <2> HIDE DEF Rec
  <2> QED BY <1>6, <1>7
<1> DEFINE T == {k \in Nat : textAt[k] \in V[k]}
<1>9. \A k \in Nat : textAt[k] = [n \in NodeOf[k] |-> TextBy(textAt[k - 1], n)]
  BY <1>8
<1>10. 0 \in T
  BY <1>1, <1>9 DEF TextBy
<1>11. ASSUME NEW k \in Nat, k \in T PROVE k + 1 \in T
  <2>1. (k + 1) - 1 = k /\ k + 1 \in Nat
    OBVIOUS
  <2>2. textAt[k + 1] = [n \in NodeOf[k + 1] |-> TextBy(textAt[k], n)]
    BY <1>9, <2>1
  <2>3. textAt[k] \in V[k]
    BY <1>11
  <2> HIDE DEF step, V
  <2> QED BY <1>3, <2>1, <2>2, <2>3
<1>12. h \in T
  <2> HIDE DEF T
  <2> QED BY <1>10, <1>11, NatSetInduction
<1> QED BY <1>9, <1>12

LEMMA TextAtAnyHeight ==
    ASSUME NEW h \in Nat, NEW n \in NodeOf[h]
    PROVE  textAt[h][n] = TextOf(n)
<1> DEFINE T == {m \in Node : \A k \in Nat : m \in NodeOf[k] => textAt[k][m] = TextOf(m)}
<1>1. Leafs \subseteq T
  <2> SUFFICES ASSUME NEW m \in Leafs PROVE m \in T
    OBVIOUS
  <2>1. m.buf \in Seq(Char) /\ m = Leaf(m.buf) /\ IsLeaf(m)
    BY LeafsAre
  <2>2. m \in Node /\ Height(m) = 0 /\ m \in NodeOf[0]
    BY <2>1, LeafIs, LeafIn
  <2>3. \A k \in Nat : m \in NodeOf[k] => textAt[k][m] = m.buf
    BY <2>1, TextDefined DEF TextBy
  <2> QED BY <2>2, <2>3 DEF TextOf
<1>2. ASSUME NEW l \in Node, NEW r \in Node, l \in T, r \in T PROVE Branch(l, r) \in T
  <2> DEFINE m == Branch(l, r)
  <2>1. m \in Node /\ ~IsLeaf(m) /\ m.left = l /\ m.right = r
    BY BranchIn
  <2> HIDE DEF m
  <2>2. ASSUME NEW k \in Nat, m \in NodeOf[k] PROVE textAt[k][m] = TextOf(l) \o TextOf(r)
    <3>1. k - 1 \in Nat /\ m \in BranchesOver(NodeOf[k - 1])
      BY <2>1, <2>2, NodeCases
    <3>2. l \in NodeOf[k - 1] /\ r \in NodeOf[k - 1]
      BY <2>1, <3>1, BranchesAre
    <3>3. textAt[k - 1][l] = TextOf(l) /\ textAt[k - 1][r] = TextOf(r)
      BY <1>2, <3>1, <3>2
    <3> QED BY <2>1, <2>2, <3>3, TextDefined DEF TextBy
  <2>3. Height(m) \in Nat /\ m \in NodeOf[Height(m)]
    BY <2>1, HeightFits
  <2>4. TextOf(m) = TextOf(l) \o TextOf(r)
    BY <2>2, <2>3 DEF TextOf
  <2>5. m \in T
    BY <2>1, <2>2, <2>4
  <2> QED BY <2>5 DEF m
<1>3. Node \subseteq T
  <2> HIDE DEF T
  <2> QED BY <1>1, <1>2, TreeInduction
<1>4. n \in Node
  BY DEF Node
<1> QED BY <1>3, <1>4

LEMMA TextOfLeaf ==
    ASSUME NEW s \in Seq(Char)
    PROVE  TextOf(Leaf(s)) = s
<1>1. Leaf(s) \in NodeOf[0] /\ IsLeaf(Leaf(s)) /\ Leaf(s).buf = s
  BY LeafIs, LeafIn
<1>2. textAt[0][Leaf(s)] = s
  BY <1>1, TextDefined DEF TextBy
<1> QED BY <1>1, <1>2, TextAtAnyHeight

LEMMA TextOfBranch ==
    ASSUME NEW l \in Node, NEW r \in Node
    PROVE  TextOf(Branch(l, r)) = TextOf(l) \o TextOf(r)
<1> DEFINE n == Branch(l, r)
<1>1. n \in Node /\ ~IsLeaf(n) /\ n.left = l /\ n.right = r
  BY BranchIn
<1> HIDE DEF n
<1>2. PICK h \in Nat : n \in NodeOf[h]
  BY <1>1 DEF Node
<1>3. h - 1 \in Nat /\ n \in BranchesOver(NodeOf[h - 1])
  BY <1>1, <1>2, NodeCases
<1>4. l \in NodeOf[h - 1] /\ r \in NodeOf[h - 1]
  BY <1>1, <1>3, BranchesAre
<1>5. textAt[h][n] = textAt[h - 1][l] \o textAt[h - 1][r]
  BY <1>1, <1>2, TextDefined DEF TextBy
<1>6. textAt[h][n] = TextOf(n) /\ textAt[h - 1][l] = TextOf(l) /\ textAt[h - 1][r] = TextOf(r)
  BY <1>2, <1>3, <1>4, TextAtAnyHeight
<1> QED BY <1>5, <1>6 DEF n

\* The counts a node caches are those of its text.
LEMMA TextCounted ==
    ASSUME NEW n \in Node
    PROVE  /\ TextOf(n) \in Seq(Char)
           /\ TextLen(n) = Len(TextOf(n))
           /\ n.newlines = Newlines(TextOf(n))
<1> DEFINE T == {m \in Node : /\ TextOf(m) \in Seq(Char)
                              /\ TextLen(m) = Len(TextOf(m))
                              /\ m.newlines = Newlines(TextOf(m))}
<1>1. Leafs \subseteq T
  <2> SUFFICES ASSUME NEW m \in Leafs PROVE m \in T
    OBVIOUS
  <2>1. m.buf \in Seq(Char) /\ m = Leaf(m.buf)
    BY LeafsAre
  <2> QED BY <2>1, LeafIs, LeafIn, TextOfLeaf
<1>2. ASSUME NEW l \in Node, NEW r \in Node, l \in T, r \in T PROVE Branch(l, r) \in T
  <2>1. Branch(l, r) \in Node /\ TextOf(Branch(l, r)) = TextOf(l) \o TextOf(r)
    BY BranchIn, TextOfBranch
  <2>2. TextLen(Branch(l, r)) = Len(TextOf(l)) + Len(TextOf(r))
        /\ Branch(l, r).newlines = Newlines(TextOf(l)) + Newlines(TextOf(r))
    BY <1>2, BranchIn
  <2>3. TextOf(l) \in Seq(Char) /\ TextOf(r) \in Seq(Char)
    BY <1>2
  <2>4. TextOf(l) \o TextOf(r) \in Seq(Char)
        /\ Len(TextOf(l) \o TextOf(r)) = Len(TextOf(l)) + Len(TextOf(r))
    BY <2>3, ConcatAt
  <2>5. Newlines(TextOf(l) \o TextOf(r)) = Newlines(TextOf(l)) + Newlines(TextOf(r))
    BY <2>3, NewlinesOfConcat
  <2> QED BY <2>1, <2>2, <2>4, <2>5
<1>3. Node \subseteq T
  <2> HIDE DEF T
  <2> QED BY <1>1, <1>2, TreeInduction
<1> QED BY <1>3

-----------------------------------------------------------------------------
(* Rebalancing and joining.                                                *)

\* n is a tree that holds s.
Holds(n, s) == n \in Node /\ TextOf(n) = s

LEMMA RotateRightKeeps ==
    ASSUME NEW n \in Node, ~IsLeaf(n)
    PROVE  Holds(RotateRight(n), TextOf(n)) /\ ~IsLeaf(RotateRight(n))
<1>1. n.left \in Node /\ n.right \in Node /\ n = Branch(n.left, n.right)
  BY NodeOut
<1>2. CASE IsLeaf(n.left)
  BY <1>2 DEF RotateRight, Holds
<1>3. CASE ~IsLeaf(n.left)
  <2> DEFINE ll == n.left.left
             lr == n.left.right
             inner == Branch(lr, n.right)
  <2>1. ll \in Node /\ lr \in Node /\ n.left = Branch(ll, lr)
    BY <1>1, <1>3, NodeOut
  <2> HIDE DEF ll, lr
  <2>2. inner \in Node /\ TextOf(inner) = TextOf(lr) \o TextOf(n.right)
    BY <1>1, <2>1, BranchIn, TextOfBranch
  <2> HIDE DEF inner
  <2>3. /\ Branch(ll, inner) \in Node /\ ~IsLeaf(Branch(ll, inner))
        /\ TextOf(Branch(ll, inner)) = TextOf(ll) \o TextOf(inner)
    BY <2>1, <2>2, BranchIn, TextOfBranch
  <2>4. TextOf(n) = (TextOf(ll) \o TextOf(lr)) \o TextOf(n.right)
    <3>1. TextOf(n) = TextOf(n.left) \o TextOf(n.right)
      BY <1>1, TextOfBranch
    <3>2. TextOf(n.left) = TextOf(ll) \o TextOf(lr)
      BY <2>1, TextOfBranch
    <3> QED BY <3>1, <3>2
  <2>5. TextOf(ll) \in Seq(Char) /\ TextOf(lr) \in Seq(Char) /\ TextOf(n.right) \in Seq(Char)
    BY <1>1, <2>1, TextCounted
  <2>6. TextOf(n) = TextOf(ll) \o (TextOf(lr) \o TextOf(n.right))
    BY <2>4, <2>5, ConcatAssoc
  <2>7. RotateRight(n) = Branch(ll, inner)
    BY <1>3 DEF RotateRight, ll, lr, inner
  <2> QED BY <2>2, <2>3, <2>6, <2>7 DEF Holds
<1> QED BY <1>2, <1>3

LEMMA RotateLeftKeeps ==
    ASSUME NEW n \in Node, ~IsLeaf(n)
    PROVE  Holds(RotateLeft(n), TextOf(n)) /\ ~IsLeaf(RotateLeft(n))
<1>1. n.left \in Node /\ n.right \in Node /\ n = Branch(n.left, n.right)
  BY NodeOut
<1>2. CASE IsLeaf(n.right)
  BY <1>2 DEF RotateLeft, Holds
<1>3. CASE ~IsLeaf(n.right)
  <2> DEFINE rl == n.right.left
             rr == n.right.right
             inner == Branch(n.left, rl)
  <2>1. rl \in Node /\ rr \in Node /\ n.right = Branch(rl, rr)
    BY <1>1, <1>3, NodeOut
  <2> HIDE DEF rl, rr
  <2>2. inner \in Node /\ TextOf(inner) = TextOf(n.left) \o TextOf(rl)
    BY <1>1, <2>1, BranchIn, TextOfBranch
  <2> HIDE DEF inner
  <2>3. /\ Branch(inner, rr) \in Node /\ ~IsLeaf(Branch(inner, rr))
        /\ TextOf(Branch(inner, rr)) = TextOf(inner) \o TextOf(rr)
    BY <2>1, <2>2, BranchIn, TextOfBranch
  <2>4. TextOf(n) = TextOf(n.left) \o (TextOf(rl) \o TextOf(rr))
    <3>1. TextOf(n) = TextOf(n.left) \o TextOf(n.right)
      BY <1>1, TextOfBranch
    <3>2. TextOf(n.right) = TextOf(rl) \o TextOf(rr)
      BY <2>1, TextOfBranch
    <3> QED BY <3>1, <3>2
  <2>5. TextOf(rl) \in Seq(Char) /\ TextOf(rr) \in Seq(Char) /\ TextOf(n.left) \in Seq(Char)
    BY <1>1, <2>1, TextCounted
  <2>6. TextOf(n) = (TextOf(n.left) \o TextOf(rl)) \o TextOf(rr)
    <3>1. TextOf(n.left) \o (TextOf(rl) \o TextOf(rr)) = (TextOf(n.left) \o TextOf(rl)) \o TextOf(rr)
      BY <2>5, ConcatAssoc
    <3> QED BY <2>4, <3>1
  <2>7. RotateLeft(n) = Branch(inner, rr)
    BY <1>3 DEF RotateLeft, rl, rr, inner
  <2> QED BY <2>2, <2>3, <2>6, <2>7 DEF Holds
<1> QED BY <1>2, <1>3

\* Whichever rotations it takes, balancing keeps the text.
LEMMA BalanceKeeps ==
    ASSUME NEW l \in Node, NEW r \in Node
    PROVE  Holds(Balance(Branch(l, r)), TextOf(l) \o TextOf(r))
<1> DEFINE n == Branch(l, r)
<1>1. /\ n \in Node /\ ~IsLeaf(n) /\ n.left = l /\ n.right = r
      /\ TextOf(n) = TextOf(l) \o TextOf(r)
  BY BranchIn, TextOfBranch
<1> HIDE DEF n
<1>2. ASSUME NEW m \in Node PROVE BalanceFactor(m) \in Int
  <2>1. CASE IsLeaf(m)
    BY <2>1 DEF BalanceFactor
  <2>2. CASE ~IsLeaf(m)
    <3>1. Height(m.left) \in Nat /\ Height(m.right) \in Nat
      BY <2>2, NodeOut DEF Counted
    <3> QED BY <2>2, <3>1 DEF BalanceFactor
  <2> QED BY <2>1, <2>2
<1>3. ASSUME NEW m \in Node, BalanceFactor(m) # 0 PROVE ~IsLeaf(m)
  BY <1>3 DEF BalanceFactor
<1>4. CASE BalanceFactor(n) > 1
  <2> DEFINE m == IF BalanceFactor(n.left) < 0 THEN Branch(RotateLeft(n.left), n.right) ELSE n
  <2>1. Balance(n) = RotateRight(m)
    <3>1. ~(BalanceFactor(n) < -1)
      BY <1>1, <1>2, <1>4
    <3> QED BY <1>4, <3>1 DEF Balance
  <2>2. m \in Node /\ ~IsLeaf(m) /\ TextOf(m) = TextOf(n)
    <3>1. CASE BalanceFactor(n.left) < 0
      <4>1. ~IsLeaf(l)
        BY <1>1, <1>3, <3>1
      <4>2. RotateLeft(l) \in Node /\ TextOf(RotateLeft(l)) = TextOf(l)
        BY <4>1, RotateLeftKeeps DEF Holds
      <4>3. m = Branch(RotateLeft(l), r)
        BY <1>1, <3>1
      <4> HIDE DEF m
      <4>4. m \in Node /\ ~IsLeaf(m)
        BY <4>2, <4>3, BranchIn
      <4>5. TextOf(m) = TextOf(l) \o TextOf(r)
        BY <4>2, <4>3, TextOfBranch
      <4> QED BY <1>1, <4>4, <4>5
    <3>2. CASE ~(BalanceFactor(n.left) < 0)
      BY <1>1, <3>2
    <3> QED BY <3>1, <3>2
  <2> HIDE DEF m
  <2>3. Holds(Balance(n), TextOf(n))
    BY <2>1, <2>2, RotateRightKeeps
  <2> QED BY <1>1, <2>3 DEF n
<1>5. CASE BalanceFactor(n) < -1
  <2> DEFINE m == IF BalanceFactor(n.right) > 0 THEN Branch(n.left, RotateRight(n.right)) ELSE n
  <2>1. Balance(n) = RotateLeft(m)
    <3>1. ~(BalanceFactor(n) > 1)
      BY <1>1, <1>2, <1>5
    <3> QED BY <1>5, <3>1 DEF Balance
  <2>2. m \in Node /\ ~IsLeaf(m) /\ TextOf(m) = TextOf(n)
    <3>1. CASE BalanceFactor(n.right) > 0
      <4>1. ~IsLeaf(r)
        BY <1>1, <1>3, <3>1
      <4>2. RotateRight(r) \in Node /\ TextOf(RotateRight(r)) = TextOf(r)
        BY <4>1, RotateRightKeeps DEF Holds
      <4>3. m = Branch(l, RotateRight(r))
        BY <1>1, <3>1
      <4> HIDE DEF m
      <4>4. m \in Node /\ ~IsLeaf(m)
        BY <4>2, <4>3, BranchIn
      <4>5. TextOf(m) = TextOf(l) \o TextOf(r)
        BY <4>2, <4>3, TextOfBranch
      <4> QED BY <1>1, <4>4, <4>5
    <3>2. CASE ~(BalanceFactor(n.right) > 0)
      BY <1>1, <3>2
    <3> QED BY <3>1, <3>2
  <2> HIDE DEF m
  <2>3. Holds(Balance(n), TextOf(n))
    BY <2>1, <2>2, RotateLeftKeeps
  <2> QED BY <1>1, <2>3 DEF n
<1>6. CASE ~(BalanceFactor(n) > 1) /\ ~(BalanceFactor(n) < -1)
  <2>1. Balance(n) = n
    BY <1>6 DEF Balance
  <2> QED BY <1>1, <2>1 DEF Holds, n
<1> QED BY <1>4, <1>5, <1>6

\* Joining for trees of height h holds the texts one after the other, if joining
\* does for those that are less deep.
LEMMA JoinByKeeps ==
    ASSUME NEW h \in Nat, NEW l \in NodeOf[h], NEW r \in NodeOf[h], NEW g,
           h # 0 => \A a, b \in NodeOf[h - 1] : Holds(g[a][b], TextOf(a) \o TextOf(b))
    PROVE  Holds(JoinBy(g, l, r), TextOf(l) \o TextOf(r))
<1>1. l \in Node /\ r \in Node
  BY DEF Node
<1>2. /\ TextOf(l) \in Seq(Char) /\ TextLen(l) = Len(TextOf(l)) /\ TextLen(l) \in Nat
      /\ TextOf(r) \in Seq(Char) /\ TextLen(r) = Len(TextOf(r)) /\ TextLen(r) \in Nat
      /\ Height(l) \in Nat /\ Height(r) \in Nat /\ Height(l) <= h /\ Height(r) <= h
  BY <1>1, TextCounted, HeightFits, NodeOut DEF Counted
<1>3. CASE TextLen(l) = 0
  <2>1. JoinBy(g, l, r) = r
    BY <1>3 DEF JoinBy
  <2>2. TextOf(l) \o TextOf(r) = TextOf(r)
    BY <1>2, <1>3, WholeSeq
  <2> QED BY <1>1, <2>1, <2>2 DEF Holds
<1>4. CASE TextLen(l) # 0 /\ TextLen(r) = 0
  <2>1. JoinBy(g, l, r) = l
    BY <1>4 DEF JoinBy
  <2>2. TextOf(l) \o TextOf(r) = TextOf(l)
    BY <1>2, <1>4, WholeSeq
  <2> QED BY <1>1, <2>1, <2>2 DEF Holds
<1>5. CASE TextLen(l) # 0 /\ TextLen(r) # 0
  <2>1. CASE Mergeable(l, r)
    <3>1. JoinBy(g, l, r) = Leaf(l.buf \o r.buf)
      BY <1>5, <2>1 DEF JoinBy
    <3>2. IsLeaf(l) /\ IsLeaf(r)
      BY <2>1 DEF Mergeable
    <3>3. /\ l.buf \in Seq(Char) /\ l = Leaf(l.buf) /\ r.buf \in Seq(Char) /\ r = Leaf(r.buf)
      BY <1>1, <3>2, NodeOut
    <3>4. TextOf(l) = l.buf /\ TextOf(r) = r.buf /\ l.buf \o r.buf \in Seq(Char)
      BY <3>3, TextOfLeaf, ConcatAt
    <3> QED BY <3>1, <3>4, LeafIn, TextOfLeaf DEF Holds
  <2>2. CASE ~Mergeable(l, r) /\ Height(l) > Height(r) + 1
    <3>1. JoinBy(g, l, r) = Balance(Branch(l.left, g[l.right][r]))
      BY <1>5, <2>2 DEF JoinBy
    <3>2. ~IsLeaf(l) /\ h # 0 /\ h - 1 \in Nat /\ Height(r) <= h - 1
      <4>1. Height(l) # 0
        BY <1>2, <2>2
      <4> QED BY <1>2, <2>2, <4>1 DEF Height
    <3>3. l.left \in NodeOf[h - 1] /\ l.right \in NodeOf[h - 1] /\ l = Branch(l.left, l.right)
      BY <3>2, NodeCases, BranchesAre
    <3>4. r \in NodeOf[h - 1]
      BY <1>1, <1>2, <3>2, HeightFits, NodesGrow
    <3>5. g[l.right][r] \in Node /\ TextOf(g[l.right][r]) = TextOf(l.right) \o TextOf(r)
      BY <3>2, <3>3, <3>4 DEF Holds
    <3>6. l.left \in Node /\ l.right \in Node
      BY <3>2, <3>3 DEF Node
    <3>7. Holds(JoinBy(g, l, r), TextOf(l.left) \o (TextOf(l.right) \o TextOf(r)))
      BY <3>1, <3>5, <3>6, BalanceKeeps
    <3>8. TextOf(l) = TextOf(l.left) \o TextOf(l.right)
      BY <3>3, <3>6, TextOfBranch
    <3>9. TextOf(l.left) \in Seq(Char) /\ TextOf(l.right) \in Seq(Char)
      BY <3>6, TextCounted
    <3>10. TextOf(r) \in Seq(Char)
      BY <1>2
    <3>11. (TextOf(l.left) \o TextOf(l.right)) \o TextOf(r)
             = TextOf(l.left) \o (TextOf(l.right) \o TextOf(r))
      BY <3>9, <3>10, ConcatAssoc
    <3> QED BY <3>7, <3>8, <3>11
  <2>3. CASE ~Mergeable(l, r) /\ ~(Height(l) > Height(r) + 1) /\ Height(r) > Height(l) + 1
    <3>1. JoinBy(g, l, r) = Balance(Branch(g[l][r.left], r.right))
      BY <1>5, <2>3 DEF JoinBy
    <3>2. ~IsLeaf(r) /\ h # 0 /\ h - 1 \in Nat /\ Height(l) <= h - 1
      <4>1. Height(r) # 0
        BY <1>2, <2>3
      <4> QED BY <1>2, <2>3, <4>1 DEF Height
    <3>3. r.left \in NodeOf[h - 1] /\ r.right \in NodeOf[h - 1] /\ r = Branch(r.left, r.right)
      BY <3>2, NodeCases, BranchesAre
    <3>4. l \in NodeOf[h - 1]
      BY <1>1, <1>2, <3>2, HeightFits, NodesGrow
    <3>5. g[l][r.left] \in Node /\ TextOf(g[l][r.left]) = TextOf(l) \o TextOf(r.left)
      BY <3>2, <3>3, <3>4 DEF Holds
    <3>6. r.left \in Node /\ r.right \in Node
      BY <3>2, <3>3 DEF Node
    <3>7. Holds(JoinBy(g, l, r), (TextOf(l) \o TextOf(r.left)) \o TextOf(r.right))
      BY <3>1, <3>5, <3>6, BalanceKeeps
    <3>8. TextOf(r) = TextOf(r.left) \o TextOf(r.right)
      BY <3>3, <3>6, TextOfBranch
    <3>9. TextOf(r.left) \in Seq(Char) /\ TextOf(r.right) \in Seq(Char)
      BY <3>6, TextCounted
    <3>10. TextOf(l) \in Seq(Char)
      BY <1>2
    <3>11. (TextOf(l) \o TextOf(r.left)) \o TextOf(r.right)
             = TextOf(l) \o (TextOf(r.left) \o TextOf(r.right))
      BY <3>9, <3>10, ConcatAssoc
    <3> QED BY <3>7, <3>8, <3>11
  <2>4. CASE ~Mergeable(l, r) /\ ~(Height(l) > Height(r) + 1) /\ ~(Height(r) > Height(l) + 1)
    <3>1. JoinBy(g, l, r) = Branch(l, r)
      BY <1>5, <2>4 DEF JoinBy
    <3>2. Branch(l, r) \in Node /\ TextOf(Branch(l, r)) = TextOf(l) \o TextOf(r)
      BY <1>1, BranchIn, TextOfBranch
    <3> QED BY <3>1, <3>2 DEF Holds
  <2> QED BY <2>1, <2>2, <2>3, <2>4
<1> QED BY <1>3, <1>4, <1>5

JoinStep(h, g) == [l \in NodeOf[h] |-> [r \in NodeOf[h] |-> JoinBy(g, l, r)]]

JoinsAt(h) ==
    {g \in [NodeOf[h] -> [NodeOf[h] -> Node]] :
        \A a, b \in NodeOf[h] : Holds(g[a][b], TextOf(a) \o TextOf(b))}

LEMMA JoinStepKeeps ==
    ASSUME NEW h \in Nat, NEW g, h # 0 => g \in JoinsAt(h - 1)
    PROVE  JoinStep(h, g) \in JoinsAt(h)
<1>1. ASSUME NEW a \in NodeOf[h], NEW b \in NodeOf[h]
      PROVE  Holds(JoinBy(g, a, b), TextOf(a) \o TextOf(b))
  BY JoinByKeeps DEF JoinsAt
<1>2. \A a, b \in NodeOf[h] : JoinStep(h, g)[a][b] = JoinBy(g, a, b)
  BY DEF JoinStep
<1>3. JoinStep(h, g) \in [NodeOf[h] -> [NodeOf[h] -> Node]]
  BY <1>1 DEF JoinStep, Holds
<1> QED BY <1>1, <1>2, <1>3 DEF JoinsAt

LEMMA JoinDefined ==
    ASSUME NEW h \in Nat
    PROVE  joinAt[h] \in JoinsAt(h) /\ joinAt[h] = JoinStep(h, joinAt[h - 1])
<1> DEFINE V == [k \in Nat |-> JoinsAt(k)]
           base == JoinStep(0, <<>>)
           step == [k \in Nat |-> [g \in V[k] |-> JoinStep(k + 1, g)]]
           Rec(f) == [k \in Nat |-> JoinStep(k, f[k - 1])]
<1>1. \A k \in Nat : V[k] = JoinsAt(k) /\ \A g \in V[k] : step[k][g] = JoinStep(k + 1, g)
  OBVIOUS
<1> HIDE DEF V, step
<1>2. base \in V[0]
  BY <1>1, JoinStepKeeps
<1>3. \A k \in Nat : \A g \in V[k] : step[k][g] \in V[k + 1]
  <2> TAKE k \in Nat
  <2> TAKE g \in V[k]
  <2>1. k + 1 \in Nat /\ (k + 1) - 1 = k
    OBVIOUS
  <2> QED BY <1>1, <2>1, JoinStepKeeps
<1> HIDE DEF base
<1>4. PICK f : IsRun(f, base, step) /\ \A k \in Nat : f[k] \in V[k]
  BY <1>2, <1>3, LayersExist
<1>5. ASSUME NEW k \in Nat PROVE f[k] = JoinStep(k, f[k - 1])
  <2>1. CASE k = 0
    <3>1. f[k] = JoinStep(0, <<>>)
      BY <1>4, <2>1 DEF IsRun, base
    <3>2. \A a, b \in NodeOf[0] : JoinBy(<<>>, a, b) = JoinBy(f[k - 1], a, b)
      <4> TAKE a, b \in NodeOf[0]
      <4>1. Height(a) = 0 /\ Height(b) = 0
        BY NodesExist, LeafsAre DEF Height
      <4> QED BY <4>1 DEF JoinBy
    <3> QED BY <2>1, <3>1, <3>2 DEF JoinStep
  <2>2. CASE k # 0
    <3>1. k - 1 \in Nat /\ (k - 1) + 1 = k
      BY <2>2
    <3> QED BY <1>1, <1>4, <3>1 DEF IsRun
  <2> QED BY <2>1, <2>2
<1>6. f = Rec(f)
  <2>1. f = [k \in Nat |-> f[k]]
    BY <1>4 DEF IsRun
  <2> QED BY <1>5, <2>1
<1>7. joinAt = CHOOSE g : g = Rec(g)
  BY DEF joinAt, JoinStep
<1>8. joinAt = Rec(joinAt)
  <2> HIDE DEF Rec
  <2> QED BY <1>6, <1>7
<1>9. \A k \in Nat : joinAt[k] = JoinStep(k, joinAt[k - 1])
  BY <1>8
<1> DEFINE T == {k \in Nat : joinAt[k] \in JoinsAt(k)}
<1>10. 0 \in T
  BY <1>9, JoinStepKeeps
<1>11. ASSUME NEW k \in Nat, k \in T PROVE k + 1 \in T
  <2>1. k + 1 \in Nat /\ (k + 1) - 1 = k
    OBVIOUS
  <2> QED BY <1>9, <1>11, <2>1, JoinStepKeeps
<1>12. h \in T
  <2> HIDE DEF T
  <2> QED BY <1>10, <1>11, NatSetInduction
<1> QED BY <1>9, <1>12

\* Joining two trees holds their texts one after the other.
LEMMA JoinKeeps ==
    ASSUME NEW l \in Node, NEW r \in Node
    PROVE  Holds(Join(l, r), TextOf(l) \o TextOf(r))
<1> DEFINE h == Most(Height(l), Height(r))
<1>1. Height(l) \in Nat /\ Height(r) \in Nat
  BY HeightFits
<1>2. h \in Nat /\ Height(l) <= h /\ Height(r) <= h
  BY <1>1 DEF Most
<1>3. Join(l, r) = joinAt[h][l][r]
  BY DEF Join
<1> HIDE DEF h
<1>4. l \in NodeOf[h] /\ r \in NodeOf[h]
  BY <1>1, <1>2, HeightFits, NodesGrow
<1>5. joinAt[h] \in JoinsAt(h)
  BY <1>2, JoinDefined
<1> QED BY <1>3, <1>4, <1>5 DEF JoinsAt

-----------------------------------------------------------------------------
(* Splitting.                                                              *)

LEMMA Bounds ==
    ASSUME NEW S, NEW t \in Seq(S), NEW pos \in Nat
    PROVE  /\ Len(t) \in Nat
           /\ pos <= Len(t) => Least(pos, Len(t)) = pos
           /\ pos >= Len(t) => /\ Least(pos, Len(t)) = Len(t)
                               /\ SubSeq(t, 1, Least(pos, Len(t))) = t
                               /\ SubSeq(t, pos + 1, Len(t)) = <<>>
<1>1. Len(t) \in Nat
  OBVIOUS
<1>2. ASSUME pos <= Len(t) PROVE Least(pos, Len(t)) = pos
  BY <1>1, <1>2 DEF Least
<1>3. ASSUME pos >= Len(t)
      PROVE  /\ Least(pos, Len(t)) = Len(t)
             /\ SubSeq(t, 1, Least(pos, Len(t))) = t
             /\ SubSeq(t, pos + 1, Len(t)) = <<>>
  <2>1. Least(pos, Len(t)) = Len(t)
    BY <1>1, <1>3 DEF Least
  <2>2. SubSeq(t, 1, Len(t)) = t
    BY WholeSeq
  <2>3. SubSeq(t, pos + 1, Len(t)) = <<>>
    BY <1>1, <1>3
  <2> QED BY <2>1, <2>2, <2>3
<1> QED BY <1>1, <1>2, <1>3

\* The parts of t, divided at pos.
Divided(parts, t, pos) ==
    /\ parts \in Node \X Node
    /\ TextOf(parts[1]) = SubSeq(t, 1, Least(pos, Len(t)))
    /\ TextOf(parts[2]) = SubSeq(t, pos + 1, Len(t))

LEMMA SplitByDivides ==
    ASSUME NEW h \in Nat, NEW n \in NodeOf[h], NEW pos \in Nat, NEW g,
           h # 0 => \A m \in NodeOf[h - 1], p \in Nat : Divided(g[m][p], TextOf(m), p)
    PROVE  Divided(SplitBy(g, n, pos), TextOf(n), pos)
<1> DEFINE t == TextOf(n)
<1>1. n \in Node
  BY DEF Node
<1>2. t \in Seq(Char) /\ TextLen(n) = Len(t) /\ Len(t) \in Nat
  BY <1>1, TextCounted, WholeSeq
<1>3. Empty \in Node /\ TextOf(Empty) = <<>>
  <2>1. <<>> \in Seq(Char)
    OBVIOUS
  <2> QED BY <2>1, LeafIn, TextOfLeaf DEF Empty
<1> HIDE DEF t
<1>4. CASE pos = 0
  <2>1. SplitBy(g, n, pos) = <<Empty, n>>
    BY <1>4 DEF SplitBy
  <2>2. Least(pos, Len(t)) = 0
    BY <1>2, <1>4 DEF Least
  <2>3. SubSeq(t, 1, 0) = <<>> /\ SubSeq(t, 1, Len(t)) = t
    BY <1>2, WholeSeq
  <2>4. SubSeq(t, pos + 1, Len(t)) = t
    BY <1>4, <2>3
  <2>5. <<Empty, n>> \in Node \X Node /\ <<Empty, n>>[1] = Empty /\ <<Empty, n>>[2] = n
    BY <1>1, <1>3
  <2> QED BY <1>3, <2>1, <2>2, <2>3, <2>4, <2>5 DEF Divided, t
<1>5. CASE pos > 0 /\ pos >= TextLen(n)
  <2>1. SplitBy(g, n, pos) = <<n, Empty>>
    BY <1>2, <1>5 DEF SplitBy
  <2>2. SubSeq(t, 1, Least(pos, Len(t))) = t /\ SubSeq(t, pos + 1, Len(t)) = <<>>
    BY <1>2, <1>5, Bounds
  <2>3. <<n, Empty>> \in Node \X Node /\ <<n, Empty>>[1] = n /\ <<n, Empty>>[2] = Empty
    BY <1>1, <1>3
  <2> QED BY <1>3, <2>1, <2>2, <2>3 DEF Divided, t
<1>6. CASE pos > 0 /\ pos < TextLen(n)
  <2>0. Least(pos, Len(t)) = pos /\ pos <= Len(t)
    BY <1>2, <1>6 DEF Least
  <2>1. ASSUME NEW a \in Node, NEW b \in Node, SplitBy(g, n, pos) = <<a, b>>,
               TextOf(a) = SubSeq(t, 1, pos), TextOf(b) = SubSeq(t, pos + 1, Len(t))
        PROVE  Divided(SplitBy(g, n, pos), t, pos)
    <3>1. <<a, b>> \in Node \X Node /\ <<a, b>>[1] = a /\ <<a, b>>[2] = b
      OBVIOUS
    <3> QED BY <2>0, <2>1, <3>1 DEF Divided
  <2>2. CASE IsLeaf(n)
    <3> DEFINE a == SubSeq(n.buf, 1, pos)
               b == SubSeq(n.buf, pos + 1, Len(n.buf))
    <3>1. n.buf \in Seq(Char) /\ n = Leaf(n.buf)
      BY <1>1, <2>2, NodeOut
    <3>2. t = n.buf
      BY <3>1, TextOfLeaf DEF t
    <3>3. a \in Seq(Char) /\ b \in Seq(Char)
      <4>1. 0 \in Nat /\ 0 + 1 = 1
        OBVIOUS
      <4>2. SubSeq(n.buf, 0 + 1, pos) \in Seq(Char)
        BY <2>0, <3>1, <3>2, SubSeqAt
      <4>3. SubSeq(n.buf, pos + 1, Len(n.buf)) \in Seq(Char)
        BY <1>2, <3>1, <3>2, SubSeqAt
      <4> QED BY <4>1, <4>2, <4>3
    <3>4. SplitBy(g, n, pos) = <<Leaf(a), Leaf(b)>>
      BY <1>2, <1>6, <2>2 DEF SplitBy
    <3> HIDE DEF a, b
    <3>5. Leaf(a) \in Node /\ Leaf(b) \in Node /\ TextOf(Leaf(a)) = a /\ TextOf(Leaf(b)) = b
      BY <3>3, LeafIn, TextOfLeaf
    <3> QED BY <2>1, <3>2, <3>4, <3>5 DEF a, b, t
  <2>3. CASE ~IsLeaf(n)
    <3> DEFINE lt == TextOf(n.left)
               rt == TextOf(n.right)
    <3>1. h # 0 /\ h - 1 \in Nat /\ n \in BranchesOver(NodeOf[h - 1])
      BY <2>3, NodeCases
    <3>2. n.left \in NodeOf[h - 1] /\ n.right \in NodeOf[h - 1] /\ n = Branch(n.left, n.right)
      BY <3>1, BranchesAre
    <3>3. n.left \in Node /\ n.right \in Node
      BY <3>1, <3>2 DEF Node
    <3>4. lt \in Seq(Char) /\ rt \in Seq(Char) /\ n.leftLen = Len(lt) /\ t = lt \o rt
      <4>1. TextOf(n) = lt \o rt
        BY <3>2, <3>3, TextOfBranch
      <4>2. n.leftLen = TextLen(n.left)
        BY <3>2, <3>3, BranchIn
      <4>3. lt \in Seq(Char) /\ rt \in Seq(Char) /\ TextLen(n.left) = Len(lt)
        BY <3>3, TextCounted
      <4> QED BY <4>1, <4>2, <4>3 DEF t
    <3>5. Len(lt) \in Nat /\ Len(rt) \in Nat /\ Len(t) = Len(lt) + Len(rt)
      BY <3>4, ConcatAt, WholeSeq
    <3>6. CASE pos = n.leftLen
      <4>1. SplitBy(g, n, pos) = <<n.left, n.right>>
        BY <1>2, <1>6, <2>3, <3>6 DEF SplitBy
      <4>2. SubSeq(t, 1, pos) = SubSeq(lt, 1, pos)
            /\ SubSeq(t, pos + 1, Len(t)) = SubSeq(lt, pos + 1, Len(lt)) \o rt
        <5> HIDE DEF lt, rt
        <5> QED BY <3>4, <3>5, <3>6, HeadOfConcat
      <4>3. SubSeq(lt, 1, pos) = lt /\ SubSeq(lt, pos + 1, Len(lt)) = <<>> /\ <<>> \o rt = rt
        <5> HIDE DEF lt, rt
        <5>1. SubSeq(lt, 1, Least(pos, Len(lt))) = lt /\ Least(pos, Len(lt)) = Len(lt)
              /\ SubSeq(lt, pos + 1, Len(lt)) = <<>>
          BY <3>4, <3>5, <3>6, Bounds
        <5> QED BY <3>4, <3>6, <5>1, WholeSeq
      <4> QED BY <2>1, <3>3, <4>1, <4>2, <4>3 DEF t
    <3>7. CASE pos < n.leftLen
      <4> DEFINE s == g[n.left][pos]
      <4>1. SplitBy(g, n, pos) = <<s[1], Join(s[2], n.right)>>
        BY <1>2, <1>6, <2>3, <3>4, <3>5, <3>7 DEF SplitBy
      <4>2. Divided(s, lt, pos)
        BY <3>1, <3>2
      <4> HIDE DEF s
      <4>3. /\ s[1] \in Node /\ s[2] \in Node
            /\ TextOf(s[1]) = SubSeq(lt, 1, Least(pos, Len(lt)))
            /\ TextOf(s[2]) = SubSeq(lt, pos + 1, Len(lt))
        BY <4>2 DEF Divided
      <4>4. Least(pos, Len(lt)) = pos /\ pos <= Len(lt)
        BY <3>4, <3>5, <3>7 DEF Least
      <4>5. Join(s[2], n.right) \in Node /\ TextOf(Join(s[2], n.right)) = TextOf(s[2]) \o rt
        BY <3>3, <4>3, JoinKeeps DEF Holds
      <4>6. SubSeq(t, 1, pos) = SubSeq(lt, 1, pos)
            /\ SubSeq(t, pos + 1, Len(t)) = SubSeq(lt, pos + 1, Len(lt)) \o rt
        <5> HIDE DEF lt, rt
        <5> QED BY <3>4, <4>4, HeadOfConcat
      <4> QED BY <2>1, <4>1, <4>3, <4>4, <4>5, <4>6 DEF t
    <3>8. CASE pos > n.leftLen
      <4> DEFINE p == pos - n.leftLen
                 s == g[n.right][p]
      <4>1. SplitBy(g, n, pos) = <<Join(n.left, s[1]), s[2]>>
        BY <1>2, <1>6, <2>3, <3>4, <3>5, <3>8 DEF SplitBy
      <4>2. p \in Nat /\ p <= Len(rt) /\ Len(lt) + p = pos
        BY <1>2, <1>6, <3>4, <3>5, <3>8
      <4> HIDE DEF p
      <4>3. Divided(s, rt, p)
        BY <3>1, <3>2, <4>2
      <4> HIDE DEF s
      <4>4. /\ s[1] \in Node /\ s[2] \in Node
            /\ TextOf(s[1]) = SubSeq(rt, 1, Least(p, Len(rt)))
            /\ TextOf(s[2]) = SubSeq(rt, p + 1, Len(rt))
        BY <4>3 DEF Divided
      <4>5. Least(p, Len(rt)) = p
        BY <3>5, <4>2 DEF Least
      <4>6. Join(n.left, s[1]) \in Node /\ TextOf(Join(n.left, s[1])) = lt \o TextOf(s[1])
        BY <3>3, <4>4, JoinKeeps DEF Holds
      <4>7. SubSeq(t, 1, pos) = lt \o SubSeq(rt, 1, p)
            /\ SubSeq(t, pos + 1, Len(t)) = SubSeq(rt, p + 1, Len(rt))
        <5> HIDE DEF lt, rt
        <5>1. SubSeq(lt \o rt, 1, Len(lt) + p) = lt \o SubSeq(rt, 1, p)
              /\ SubSeq(lt \o rt, Len(lt) + p + 1, Len(lt \o rt)) = SubSeq(rt, p + 1, Len(rt))
          BY <3>4, <4>2, TailOfConcat
        <5> QED BY <3>4, <4>2, <5>1
      <4> QED BY <2>1, <4>1, <4>4, <4>5, <4>6, <4>7 DEF t
    <3> QED BY <3>4, <3>5, <3>6, <3>7, <3>8
  <2> QED BY <2>2, <2>3 DEF t
<1> QED BY <1>2, <1>4, <1>5, <1>6

SplitStep(h, g) == [n \in NodeOf[h] |-> [pos \in Nat |-> SplitBy(g, n, pos)]]

SplitsAt(h) ==
    {g \in [NodeOf[h] -> [Nat -> Node \X Node]] :
        \A m \in NodeOf[h], p \in Nat : Divided(g[m][p], TextOf(m), p)}

LEMMA SplitStepKeeps ==
    ASSUME NEW h \in Nat, NEW g, h # 0 => g \in SplitsAt(h - 1)
    PROVE  SplitStep(h, g) \in SplitsAt(h)
<1>1. ASSUME NEW m \in NodeOf[h], NEW p \in Nat
      PROVE  Divided(SplitBy(g, m, p), TextOf(m), p)
  BY SplitByDivides DEF SplitsAt
<1>2. \A m \in NodeOf[h], p \in Nat : SplitStep(h, g)[m][p] = SplitBy(g, m, p)
  BY DEF SplitStep
<1>3. SplitStep(h, g) \in [NodeOf[h] -> [Nat -> Node \X Node]]
  BY <1>1 DEF SplitStep, Divided
<1> QED BY <1>1, <1>2, <1>3 DEF SplitsAt

LEMMA SplitDefined ==
    ASSUME NEW h \in Nat
    PROVE  splitAt[h] \in SplitsAt(h) /\ splitAt[h] = SplitStep(h, splitAt[h - 1])
<1> DEFINE V == [k \in Nat |-> SplitsAt(k)]
           base == SplitStep(0, <<>>)
           step == [k \in Nat |-> [g \in V[k] |-> SplitStep(k + 1, g)]]
           Rec(f) == [k \in Nat |-> SplitStep(k, f[k - 1])]
<1>1. \A k \in Nat : V[k] = SplitsAt(k) /\ \A g \in V[k] : step[k][g] = SplitStep(k + 1, g)
  OBVIOUS
<1> HIDE DEF V, step
<1>2. base \in V[0]
  BY <1>1, SplitStepKeeps
<1>3. \A k \in Nat : \A g \in V[k] : step[k][g] \in V[k + 1]
  <2> TAKE k \in Nat
  <2> TAKE g \in V[k]
  <2>1. k + 1 \in Nat /\ (k + 1) - 1 = k
    OBVIOUS
  <2> QED BY <1>1, <2>1, SplitStepKeeps
<1> HIDE DEF base
<1>4. PICK f : IsRun(f, base, step) /\ \A k \in Nat : f[k] \in V[k]
  BY <1>2, <1>3, LayersExist
<1>5. ASSUME NEW k \in Nat PROVE f[k] = SplitStep(k, f[k - 1])
  <2>1. CASE k = 0
    <3>1. f[k] = SplitStep(0, <<>>)
      BY <1>4, <2>1 DEF IsRun, base
    <3>2. \A m \in NodeOf[0], p \in Nat : SplitBy(<<>>, m, p) = SplitBy(f[k - 1], m, p)
      <4> TAKE m \in NodeOf[0], p \in Nat
      <4>1. IsLeaf(m)
        BY NodesExist, LeafsAre
      <4> QED BY <4>1 DEF SplitBy
    <3> QED BY <2>1, <3>1, <3>2 DEF SplitStep
  <2>2. CASE k # 0
    <3>1. k - 1 \in Nat /\ (k - 1) + 1 = k
      BY <2>2
    <3> QED BY <1>1, <1>4, <3>1 DEF IsRun
  <2> QED BY <2>1, <2>2
<1>6. f = Rec(f)
  <2>1. f = [k \in Nat |-> f[k]]
    BY <1>4 DEF IsRun
  <2> QED BY <1>5, <2>1
<1>7. splitAt = CHOOSE g : g = Rec(g)
  BY DEF splitAt, SplitStep
<1>8. splitAt = Rec(splitAt)
  <2> HIDE DEF Rec
  <2> QED BY <1>6, <1>7
<1>9. \A k \in Nat : splitAt[k] = SplitStep(k, splitAt[k - 1])
  BY <1>8
<1> DEFINE T == {k \in Nat : splitAt[k] \in SplitsAt(k)}
<1>10. 0 \in T
  BY <1>9, SplitStepKeeps
<1>11. ASSUME NEW k \in Nat, k \in T PROVE k + 1 \in T
  <2>1. k + 1 \in Nat /\ (k + 1) - 1 = k
    OBVIOUS
  <2> QED BY <1>9, <1>11, <2>1, SplitStepKeeps
<1>12. h \in T
  <2> HIDE DEF T
  <2> QED BY <1>10, <1>11, NatSetInduction
<1> QED BY <1>9, <1>12

\* Splitting divides the text at the place.
LEMMA SplitDivides ==
    ASSUME NEW n \in Node, NEW pos \in Nat
    PROVE  Divided(Split(n, pos), TextOf(n), pos)
<1>1. Height(n) \in Nat /\ n \in NodeOf[Height(n)]
  BY HeightFits
<1>2. splitAt[Height(n)] \in SplitsAt(Height(n))
  BY <1>1, SplitDefined
<1> QED BY <1>1, <1>2 DEF Split, SplitsAt

-----------------------------------------------------------------------------
(* Building a tree over a text.                                            *)

LEMMA Half ==
    ASSUME NEW n \in Nat
    PROVE  LET k == (n + 1) \div 2
           IN  k \in Nat /\ (2 * k = n \/ 2 * k = n + 1)
OBVIOUS

LEMMA DivUp ==
    ASSUME NEW n \in Nat \ {0}, NEW m \in Nat \ {0}
    PROVE  LET k == (n + m - 1) \div m
           IN  k \in Nat \ {0} /\ (k - 1) * m < n /\ n <= k * m
OBVIOUS

LEMMA TimesGrows ==
    ASSUME NEW i \in Nat, NEW j \in Nat, NEW m \in Nat, i <= j
    PROVE  i * m <= j * m /\ i * m \in Nat
OBVIOUS

LEMMA TwoParts ==
    ASSUME NEW S, NEW s \in Seq(S), NEW i \in Nat, NEW j \in Nat, NEW k \in Nat,
           i <= j, j <= k, k <= Len(s)
    PROVE  SubSeq(s, i + 1, j) \o SubSeq(s, j + 1, k) = SubSeq(s, i + 1, k)
<1> DEFINE a == SubSeq(s, i + 1, j)
           b == SubSeq(s, j + 1, k)
           c == SubSeq(s, i + 1, k)
<1>0. Len(s) \in Nat
  OBVIOUS
<1>1. /\ a \in Seq(S) /\ Len(a) = j - i /\ \A x \in 1 .. Len(a) : a[x] = s[i + x]
      /\ b \in Seq(S) /\ Len(b) = k - j /\ \A x \in 1 .. Len(b) : b[x] = s[j + x]
      /\ c \in Seq(S) /\ Len(c) = k - i /\ \A x \in 1 .. Len(c) : c[x] = s[i + x]
  BY <1>0, SubSeqAt
<1> HIDE DEF a, b, c
<1>2. /\ a \o b \in Seq(S) /\ Len(a \o b) = Len(c)
      /\ \A x \in 1 .. Len(a) : (a \o b)[x] = a[x]
      /\ \A x \in Len(a) + 1 .. Len(a) + Len(b) : (a \o b)[x] = b[x - Len(a)]
  <2>1. a \in Seq(S) /\ b \in Seq(S) /\ Len(a) + Len(b) = Len(c)
    BY <1>1
  <2> QED BY <2>1, ConcatAt
<1>3. ASSUME NEW x \in 1 .. Len(c) PROVE (a \o b)[x] = c[x]
  <2>0. Len(a) \in Nat /\ x \in Nat
    BY <1>1
  <2>1. CASE x <= Len(a)
    <3>1. x \in 1 .. Len(a)
      BY <1>1, <2>1
    <3> QED BY <1>1, <1>2, <3>1
  <2>2. CASE ~(x <= Len(a))
    <3>1. /\ x \in Len(a) + 1 .. Len(a) + Len(b) /\ x - Len(a) \in 1 .. Len(b)
          /\ j + (x - Len(a)) = i + x
      BY <1>1, <2>0, <2>2
    <3> QED BY <1>1, <1>2, <3>1
  <2> QED BY <2>1, <2>2
<1>4. a \o b = c
  BY <1>1, <1>2, <1>3, SameSequence
<1> QED BY <1>4 DEF a, b, c

\* The nodes hold the text s between them, each up to the place o gives for it.
Cut(o, nodes, s) ==
    /\ o \in [0 .. Len(nodes) -> Nat]
    /\ o[0] = 0 /\ o[Len(nodes)] = Len(s)
    /\ \A i \in 0 .. Len(nodes) : o[i] <= Len(s)
    /\ \A i \in 1 .. Len(nodes) :
          o[i - 1] <= o[i] /\ TextOf(nodes[i]) = SubSeq(s, o[i - 1] + 1, o[i])

Row(nodes, s) == nodes \in Seq(Node) /\ nodes # <<>> /\ \E o : Cut(o, nodes, s)

LEMMA ChunksAreARow ==
    ASSUME NEW s \in Seq(Char), s # <<>>
    PROVE  Row(Chunks(s), s)
<1> DEFINE n == (Len(s) + LeafMax - 1) \div LeafMax
           o == [i \in 0 .. n |-> Least(i * LeafMax, Len(s))]
           part(i) == SubSeq(s, (i - 1) * LeafMax + 1, Least(i * LeafMax, Len(s)))
<1>1. Len(s) \in Nat \ {0} /\ LeafMax \in Nat \ {0}
  BY WholeSeq, RopeAssumption
<1>2. n \in Nat \ {0} /\ (n - 1) * LeafMax < Len(s) /\ Len(s) <= n * LeafMax
  BY <1>1, DivUp
<1>3. Chunks(s) = [i \in 1 .. n |-> Leaf(part(i))]
  BY DEF Chunks
<1> HIDE DEF n
<1>4. ASSUME NEW i \in 0 .. n
      PROVE  /\ i * LeafMax \in Nat /\ o[i] = Least(i * LeafMax, Len(s))
             /\ o[i] \in Nat /\ o[i] <= Len(s)
  <2>1. i * LeafMax \in Nat
    BY <1>1, <1>2, TimesGrows
  <2> QED BY <1>1, <2>1 DEF Least
<1>5. o[0] = 0 /\ o[n] = Len(s)
  BY <1>1, <1>2 DEF Least
<1>6. ASSUME NEW i \in 1 .. n
      PROVE  /\ i - 1 \in 0 .. n /\ o[i - 1] = (i - 1) * LeafMax /\ o[i - 1] <= o[i]
             /\ part(i) = SubSeq(s, o[i - 1] + 1, o[i]) /\ part(i) \in Seq(Char)
  <2>1. i - 1 \in Nat /\ n - 1 \in Nat /\ i - 1 <= n - 1 /\ i \in Nat /\ i - 1 <= i
        /\ i - 1 \in 0 .. n /\ i \in 0 .. n
    BY <1>2
  <2>2. (i - 1) * LeafMax <= (n - 1) * LeafMax /\ (i - 1) * LeafMax \in Nat
    BY <1>1, <2>1, TimesGrows
  <2>3. (i - 1) * LeafMax <= i * LeafMax /\ i * LeafMax \in Nat /\ (n - 1) * LeafMax \in Nat
    BY <1>1, <2>1, TimesGrows
  <2>4. (i - 1) * LeafMax <= Len(s)
    BY <1>1, <1>2, <2>2, <2>3
  <2>5. o[i - 1] = (i - 1) * LeafMax
    <3>1. o[i - 1] = Least((i - 1) * LeafMax, Len(s))
      BY <1>4, <2>1
    <3> QED BY <1>1, <2>2, <2>4, <3>1 DEF Least
  <2>6. o[i] = Least(i * LeafMax, Len(s)) /\ o[i] \in Nat /\ o[i] <= Len(s)
    BY <1>4, <2>1
  <2> HIDE DEF o
  <2>7. o[i - 1] <= o[i]
    BY <1>1, <2>2, <2>3, <2>4, <2>5, <2>6 DEF Least
  <2>8. part(i) = SubSeq(s, o[i - 1] + 1, o[i])
    BY <2>5, <2>6
  <2>9. part(i) \in Seq(Char)
    BY <2>2, <2>5, <2>6, <2>8, SubSeqAt
  <2> QED BY <2>1, <2>5, <2>7, <2>8, <2>9
<1>7. ASSUME NEW i \in 1 .. n
      PROVE  Chunks(s)[i] \in Node /\ TextOf(Chunks(s)[i]) = part(i)
  <2>1. Chunks(s)[i] = Leaf(part(i))
    BY <1>3
  <2>2. part(i) \in Seq(Char)
    BY <1>6
  <2> HIDE DEF part
  <2> QED BY <2>1, <2>2, LeafIn, TextOfLeaf
<1>8. Chunks(s) \in Seq(Node) /\ Len(Chunks(s)) = n /\ Chunks(s) # <<>>
  <2> HIDE DEF part
  <2>1. Chunks(s) \in [1 .. n -> Node]
    BY <1>3, <1>7
  <2>2. Len(Chunks(s)) = n
    BY <1>2, <2>1
  <2> QED BY <1>2, <2>1, <2>2
<1>9. Cut(o, Chunks(s), s)
  <2>1. o \in [0 .. n -> Nat]
    <3>1. o = [i \in 0 .. n |-> o[i]]
      OBVIOUS
    <3> HIDE DEF o
    <3> QED BY <1>4, <3>1
  <2> HIDE DEF o, part
  <2> QED BY <1>4, <1>5, <1>6, <1>7, <1>8, <2>1 DEF Cut
<1> QED BY <1>8, <1>9 DEF Row

\* Pairing up keeps the text; of several nodes it leaves fewer.
LEMMA PairedIsARow ==
    ASSUME NEW s \in Seq(Char), NEW nodes, Row(nodes, s)
    PROVE  /\ Row(Paired(nodes), s)
           /\ Len(nodes) \in Nat \ {0} /\ Len(Paired(nodes)) \in Nat \ {0}
           /\ IF Len(nodes) = 1 THEN Len(Paired(nodes)) = 1
                                ELSE Len(Paired(nodes)) < Len(nodes)
<1> DEFINE n == Len(nodes)
           k == (n + 1) \div 2
           two(i) == IF 2 * i <= n THEN Branch(nodes[2 * i - 1], nodes[2 * i]) ELSE nodes[2 * i - 1]
<1>1. PICK o : Cut(o, nodes, s)
  BY DEF Row
<1>2. /\ nodes \in Seq(Node) /\ n \in Nat \ {0}
      /\ \A i \in 1 .. n : nodes[i] \in Node
  <2>1. nodes \in Seq(Node) /\ nodes # <<>>
    BY DEF Row
  <2> QED BY <2>1
<1>3. k \in Nat \ {0} /\ (2 * k = n \/ 2 * k = n + 1)
  <2>1. k \in Nat /\ (2 * k = n \/ 2 * k = n + 1)
    BY <1>2, Half
  <2> HIDE DEF k
  <2> QED BY <1>2, <2>1
<1>4. Paired(nodes) = [i \in 1 .. k |-> two(i)]
  BY DEF Paired
<1> HIDE DEF n, k
<1> DEFINE q == [i \in 0 .. k |-> o[Least(2 * i, n)]]
<1>5. /\ o[0] = 0 /\ o[n] = Len(s) /\ Len(s) \in Nat
      /\ \A i \in 0 .. n : o[i] \in Nat /\ o[i] <= Len(s)
      /\ \A i \in 1 .. n : o[i - 1] <= o[i] /\ TextOf(nodes[i]) = SubSeq(s, o[i - 1] + 1, o[i])
  <2>1. Len(s) \in Nat
    OBVIOUS
  <2> QED BY <1>1, <2>1 DEF Cut, n
<1>6. ASSUME NEW i \in 0 .. k
      PROVE  Least(2 * i, n) \in 0 .. n /\ q[i] = o[Least(2 * i, n)]
             /\ q[i] \in Nat /\ q[i] <= Len(s)
  <2>1. Least(2 * i, n) \in 0 .. n
    BY <1>2, <1>3 DEF Least
  <2> QED BY <1>5, <2>1
<1>7. q[0] = 0 /\ q[k] = Len(s)
  <2>1. Least(2 * 0, n) = 0 /\ Least(2 * k, n) = n /\ 0 \in 0 .. k /\ k \in 0 .. k
    BY <1>2, <1>3 DEF Least
  <2> QED BY <1>5, <2>1
<1>8. ASSUME NEW i \in 1 .. k
      PROVE  /\ two(i) \in Node /\ q[i - 1] <= q[i]
             /\ TextOf(two(i)) = SubSeq(s, q[i - 1] + 1, q[i])
  <2>1. /\ i \in 0 .. k /\ i - 1 \in 0 .. k /\ 2 * i - 1 \in 1 .. n
        /\ 2 * (i - 1) = (2 * i - 1) - 1 /\ (2 * i - 1) - 1 <= n
    BY <1>2, <1>3
  <2>2. q[i - 1] = o[(2 * i - 1) - 1]
    <3>1. Least(2 * (i - 1), n) = (2 * i - 1) - 1
      BY <1>2, <2>1 DEF Least
    <3> QED BY <1>6, <2>1, <3>1
  <2>3. CASE 2 * i <= n
    <3>1. 2 * i \in 1 .. n /\ Least(2 * i, n) = 2 * i /\ 2 * i - 1 \in 0 .. n
          /\ (2 * i - 1) - 1 \in 0 .. n /\ 2 * i \in 0 .. n
      BY <1>2, <2>1, <2>3 DEF Least
    <3>2. q[i] = o[2 * i]
      BY <1>6, <2>1, <3>1
    <3>3. /\ nodes[2 * i - 1] \in Node /\ nodes[2 * i] \in Node
          /\ two(i) = Branch(nodes[2 * i - 1], nodes[2 * i])
      BY <1>2, <2>1, <2>3, <3>1
    <3>4. /\ TextOf(nodes[2 * i - 1]) = SubSeq(s, o[(2 * i - 1) - 1] + 1, o[2 * i - 1])
          /\ TextOf(nodes[2 * i]) = SubSeq(s, o[2 * i - 1] + 1, o[2 * i])
          /\ o[(2 * i - 1) - 1] <= o[2 * i - 1] /\ o[2 * i - 1] <= o[2 * i]
      BY <1>5, <2>1, <3>1
    <3>5. /\ o[(2 * i - 1) - 1] \in Nat /\ o[2 * i - 1] \in Nat /\ o[2 * i] \in Nat
          /\ o[2 * i] <= Len(s)
      BY <1>5, <3>1
    <3> HIDE DEF q, two
    <3>6. TextOf(two(i)) = TextOf(nodes[2 * i - 1]) \o TextOf(nodes[2 * i]) /\ two(i) \in Node
      <4> DEFINE a == nodes[2 * i - 1]
                 b == nodes[2 * i]
      <4>1. a \in Node /\ b \in Node /\ two(i) = Branch(a, b)
        BY <3>3
      <4> HIDE DEF a, b
      <4>2. two(i) \in Node /\ TextOf(two(i)) = TextOf(a) \o TextOf(b)
        BY <4>1, BranchIn, TextOfBranch
      <4> QED BY <4>2 DEF a, b
    <3>7. TextOf(two(i)) = SubSeq(s, o[(2 * i - 1) - 1] + 1, o[2 * i])
      <4> DEFINE x == o[(2 * i - 1) - 1]
                 y == o[2 * i - 1]
                 z == o[2 * i]
      <4>1. TextOf(two(i)) = SubSeq(s, x + 1, y) \o SubSeq(s, y + 1, z)
        BY <3>4, <3>6
      <4>2. x \in Nat /\ y \in Nat /\ z \in Nat /\ x <= y /\ y <= z /\ z <= Len(s)
        BY <3>4, <3>5
      <4> HIDE DEF x, y, z
      <4>3. SubSeq(s, x + 1, y) \o SubSeq(s, y + 1, z) = SubSeq(s, x + 1, z)
        BY <4>2, TwoParts
      <4>4. TextOf(two(i)) = SubSeq(s, x + 1, z)
        BY <4>1, <4>3
      <4> QED BY <4>4 DEF x, z
    <3>8. o[(2 * i - 1) - 1] <= o[2 * i]
      BY <3>4, <3>5
    <3> QED BY <2>2, <3>2, <3>6, <3>7, <3>8
  <2>4. CASE ~(2 * i <= n)
    <3>1. Least(2 * i, n) = n /\ 2 * i - 1 = n
      BY <1>2, <1>3, <2>4 DEF Least
    <3>2. q[i] = o[2 * i - 1]
      BY <1>6, <2>1, <3>1
    <3>3. nodes[2 * i - 1] \in Node /\ two(i) = nodes[2 * i - 1]
      BY <1>2, <2>1, <2>4
    <3>4. /\ TextOf(nodes[2 * i - 1]) = SubSeq(s, o[(2 * i - 1) - 1] + 1, o[2 * i - 1])
          /\ o[(2 * i - 1) - 1] <= o[2 * i - 1]
      BY <1>5, <2>1
    <3> QED BY <2>2, <3>2, <3>3, <3>4
  <2> QED BY <2>3, <2>4
<1>9. Paired(nodes) \in Seq(Node) /\ Len(Paired(nodes)) = k /\ Paired(nodes) # <<>>
      /\ \A i \in 1 .. k : Paired(nodes)[i] = two(i)
  <2>1. \A i \in 1 .. k : two(i) \in Node
    BY <1>8
  <2> HIDE DEF two
  <2>2. Paired(nodes) \in [1 .. k -> Node] /\ \A i \in 1 .. k : Paired(nodes)[i] = two(i)
    BY <1>4, <2>1
  <2>3. Len(Paired(nodes)) = k
    BY <1>3, <2>2
  <2> QED BY <1>3, <2>2, <2>3
<1>10. Cut(q, Paired(nodes), s)
  <2>1. q \in [0 .. k -> Nat]
    <3>1. q = [i \in 0 .. k |-> q[i]]
      OBVIOUS
    <3> HIDE DEF q
    <3> QED BY <1>6, <3>1
  <2> HIDE DEF q, two
  <2> QED BY <1>6, <1>7, <1>8, <1>9, <2>1 DEF Cut
<1>11. IF n = 1 THEN k = 1 ELSE k < n
  BY <1>2, <1>3
<1> QED BY <1>2, <1>3, <1>9, <1>10, <1>11 DEF Row, n

LEMMA RoundsDefined ==
    ASSUME NEW s \in Seq(Char), NEW nodes, Row(nodes, s)
    PROVE  /\ Rounds(nodes)[0] = nodes
           /\ \A i \in Nat : Rounds(nodes)[i + 1] = Paired(Rounds(nodes)[i])
           /\ \A i \in Nat : Row(Rounds(nodes)[i], s)
<1> DEFINE W == {x \in Seq(Node) : Row(x, s)}
           V == [k \in Nat |-> W]
           step == [k \in Nat |-> [x \in W |-> Paired(x)]]
           Rec(f) == [i \in Nat |-> IF i = 0 THEN nodes ELSE Paired(f[i - 1])]
<1>1. \A x : x \in W <=> Row(x, s)
  BY DEF Row
<1> HIDE DEF W
<1>2. \A k \in Nat : V[k] = W /\ \A x \in W : step[k][x] = Paired(x)
  OBVIOUS
<1> HIDE DEF V, step
<1>3. nodes \in V[0]
  BY <1>1, <1>2
<1>4. \A k \in Nat : \A x \in V[k] : step[k][x] \in V[k + 1]
  <2> TAKE k \in Nat
  <2> TAKE x \in V[k]
  <2>1. k + 1 \in Nat /\ Row(x, s) /\ step[k][x] = Paired(x) /\ V[k + 1] = W
    BY <1>1, <1>2
  <2>2. Row(Paired(x), s)
    BY <2>1, PairedIsARow
  <2> QED BY <1>1, <2>1, <2>2
<1>5. PICK f : IsRun(f, nodes, step) /\ \A k \in Nat : f[k] \in V[k]
  BY <1>3, <1>4, LayersExist
<1>6. ASSUME NEW k \in Nat PROVE f[k] = IF k = 0 THEN nodes ELSE Paired(f[k - 1])
  <2>1. CASE k = 0
    BY <1>5, <2>1 DEF IsRun
  <2>2. CASE k # 0
    <3>1. k - 1 \in Nat /\ (k - 1) + 1 = k
      BY <2>2
    <3> QED BY <1>2, <1>5, <2>2, <3>1 DEF IsRun
  <2> QED BY <2>1, <2>2
<1>7. f = Rec(f)
  <2>1. f = [k \in Nat |-> f[k]]
    BY <1>5 DEF IsRun
  <2> QED BY <1>6, <2>1
<1>8. Rounds(nodes) = CHOOSE g : g = Rec(g)
  BY DEF Rounds
<1>9. Rounds(nodes) = Rec(Rounds(nodes))
  <2> HIDE DEF Rec
  <2> QED BY <1>7, <1>8
<1> DEFINE r == Rounds(nodes)
<1>10. r = Rec(r)
  BY <1>9
<1> HIDE DEF r
<1>11. r[0] = nodes /\ \A i \in Nat : r[i + 1] = Paired(r[i])
  <2>1. r[0] = nodes
    BY <1>10
  <2>2. ASSUME NEW i \in Nat PROVE r[i + 1] = Paired(r[i])
    <3>1. i + 1 \in Nat /\ i + 1 # 0 /\ (i + 1) - 1 = i
      OBVIOUS
    <3> QED BY <1>10, <3>1
  <2> QED BY <2>1, <2>2
<1> DEFINE T == {i \in Nat : Row(r[i], s)}
<1>12. 0 \in T
  BY <1>11
<1>13. ASSUME NEW i \in Nat, i \in T PROVE i + 1 \in T
  <2>1. Row(r[i], s)
    BY <1>13
  <2>2. Row(Paired(r[i]), s)
    BY <2>1, PairedIsARow
  <2> QED BY <1>11, <2>2
<1>14. Nat \subseteq T
  <2> HIDE DEF T
  <2> QED BY <1>12, <1>13, NatSetInduction
<1> QED BY <1>11, <1>14 DEF r

\* As many rounds as there are nodes leave one, which holds the whole text.
LEMMA MergeAllHolds ==
    ASSUME NEW s \in Seq(Char), NEW nodes, Row(nodes, s)
    PROVE  Holds(MergeAll(nodes), s)
<1> DEFINE r == Rounds(nodes)
           n == Len(nodes)
           T == {i \in Nat : Len(r[i]) = 1 \/ Len(r[i]) + i <= n}
<1>1. /\ r[0] = nodes
      /\ \A i \in Nat : r[i + 1] = Paired(r[i]) /\ Row(r[i], s)
  BY RoundsDefined
<1> HIDE DEF r
<1>2. n \in Nat \ {0}
  BY PairedIsARow
<1>3. 0 \in T
  <2>1. Len(r[0]) = n
    BY <1>1
  <2> HIDE DEF n
  <2>2. Len(r[0]) + 0 <= n
    BY <1>2, <2>1
  <2> QED BY <2>2
<1>4. ASSUME NEW i \in Nat, i \in T PROVE i + 1 \in T
  <2>1. Row(r[i], s) /\ r[i + 1] = Paired(r[i])
    BY <1>1
  <2>2. /\ Len(r[i]) \in Nat \ {0} /\ Len(Paired(r[i])) \in Nat \ {0}
        /\ IF Len(r[i]) = 1 THEN Len(Paired(r[i])) = 1 ELSE Len(Paired(r[i])) < Len(r[i])
    BY <2>1, PairedIsARow
  <2>3. Len(r[i]) = 1 \/ Len(r[i]) + i <= n
    BY <1>4
  <2> HIDE DEF n
  <2> QED BY <1>2, <2>1, <2>2, <2>3
<1>5. Len(r[n]) = 1
  <2>1. n \in T
    <3> HIDE DEF T
    <3> QED BY <1>2, <1>3, <1>4, NatSetInduction
  <2>2. Len(r[n]) \in Nat \ {0}
    BY <1>1, <1>2, PairedIsARow
  <2> HIDE DEF n
  <2> QED BY <1>2, <2>1, <2>2
<1>6. PICK o : Cut(o, r[n], s)
  BY <1>1, <1>2 DEF Row
<1>7. /\ r[n] \in Seq(Node) /\ r[n][1] \in Node
      /\ TextOf(r[n][1]) = SubSeq(s, o[0] + 1, o[1]) /\ o[0] = 0 /\ o[1] = Len(s)
  <2>1. r[n] \in Seq(Node)
    BY <1>1, <1>2 DEF Row
  <2>2. 1 \in 1 .. Len(r[n]) /\ 1 - 1 = 0
    BY <1>5
  <2>3. TextOf(r[n][1]) = SubSeq(s, o[1 - 1] + 1, o[1]) /\ o[0] = 0 /\ o[1] = Len(s)
    BY <1>5, <1>6, <2>2 DEF Cut
  <2> QED BY <2>1, <2>2, <2>3
<1>8. TextOf(r[n][1]) = s
  <2>1. SubSeq(s, 1, Len(s)) = s
    BY WholeSeq
  <2> QED BY <1>7, <2>1
<1> QED BY <1>7, <1>8 DEF MergeAll, Holds, r

LEMMA BuildHolds ==
    ASSUME NEW s \in Seq(Char)
    PROVE  Holds(Build(s), s)
<1>1. CASE s = <<>>
  BY <1>1, LeafIn, TextOfLeaf DEF Build, Empty, Holds
<1>2. CASE s # <<>>
  <2>1. Build(s) = MergeAll(Chunks(s))
    BY <1>2 DEF Build
  <2> QED BY <1>2, <2>1, ChunksAreARow, MergeAllHolds
<1> QED BY <1>1, <1>2

-----------------------------------------------------------------------------
(* Editing.                                                                *)

Before(t, pos) == SubSeq(t, 1, Least(pos, Len(t)))
After(t, pos) == SubSeq(t, pos + 1, Len(t))

LEMMA BeforeAfter ==
    ASSUME NEW S, NEW t \in Seq(S), NEW pos \in Nat
    PROVE  /\ Before(t, pos) \in Seq(S) /\ Len(Before(t, pos)) = Least(pos, Len(t))
           /\ After(t, pos) \in Seq(S)
           /\ Len(After(t, pos)) = IF pos <= Len(t) THEN Len(t) - pos ELSE 0
           /\ \A i \in 1 .. Len(After(t, pos)) : After(t, pos)[i] = t[pos + i]
           /\ Before(t, pos) \o After(t, pos) = t
<1>1. Len(t) \in Nat /\ Least(pos, Len(t)) \in Nat /\ Least(pos, Len(t)) <= Len(t) /\ 0 + 1 = 1
  BY WholeSeq DEF Least
<1>2. /\ SubSeq(t, 0 + 1, Least(pos, Len(t))) \in Seq(S)
      /\ Len(SubSeq(t, 0 + 1, Least(pos, Len(t)))) = Least(pos, Len(t)) - 0
  <2>1. 0 <= Least(pos, Len(t)) /\ 0 \in Nat
    BY <1>1
  <2> QED BY <1>1, <2>1, SubSeqAt
<1>3. Before(t, pos) \in Seq(S) /\ Len(Before(t, pos)) = Least(pos, Len(t))
  BY <1>1, <1>2 DEF Before
<1>4. /\ After(t, pos) \in Seq(S)
      /\ Len(After(t, pos)) = IF pos <= Len(t) THEN Len(t) - pos ELSE 0
      /\ \A i \in 1 .. Len(After(t, pos)) : After(t, pos)[i] = t[pos + i]
  <2>1. Len(t) <= Len(t)
    BY <1>1
  <2> QED BY <1>1, <2>1, SubSeqAt DEF After
<1>5. Before(t, pos) \o After(t, pos) = t
  <2>1. CASE pos <= Len(t)
    <3>1. Least(pos, Len(t)) = pos
      BY <1>1, <2>1 DEF Least
    <3>2. 0 \in Nat /\ 0 <= pos /\ Len(t) <= Len(t)
      BY <1>1
    <3>3. SubSeq(t, 0 + 1, pos) \o SubSeq(t, pos + 1, Len(t)) = SubSeq(t, 0 + 1, Len(t))
      BY <1>1, <2>1, <3>2, TwoParts
    <3>4. SubSeq(t, 1, pos) \o SubSeq(t, pos + 1, Len(t)) = SubSeq(t, 1, Len(t))
      BY <1>1, <3>3, Zenon
    <3>5. SubSeq(t, 1, Len(t)) = t
      BY WholeSeq
    <3> QED BY <3>1, <3>4, <3>5 DEF Before, After
  <2>2. CASE ~(pos <= Len(t))
    <3>1. pos >= Len(t)
      BY <1>1, <2>2
    <3>2. Before(t, pos) = t /\ After(t, pos) = <<>>
      BY <3>1, Bounds DEF Before, After
    <3>3. t \o <<>> = t
      BY WholeSeq
    <3> QED BY <3>2, <3>3
  <2> QED BY <2>1, <2>2
<1> QED BY <1>3, <1>4, <1>5

LEMMA AfterAfter ==
    ASSUME NEW S, NEW t \in Seq(S), NEW p \in Nat, NEW q \in Nat
    PROVE  After(After(t, p), q) = After(t, p + q)
<1> DEFINE a == After(t, p)
           b == After(a, q)
           c == After(t, p + q)
<1>1. /\ a \in Seq(S) /\ Len(a) = IF p <= Len(t) THEN Len(t) - p ELSE 0
      /\ \A i \in 1 .. Len(a) : a[i] = t[p + i]
  BY BeforeAfter
<1> HIDE DEF a
<1>2. /\ b \in Seq(S) /\ Len(b) = IF q <= Len(a) THEN Len(a) - q ELSE 0
      /\ \A i \in 1 .. Len(b) : b[i] = a[q + i]
  BY <1>1, BeforeAfter
<1>3. p + q \in Nat /\ Len(t) \in Nat
  BY WholeSeq
<1>4. /\ c \in Seq(S) /\ Len(c) = IF p + q <= Len(t) THEN Len(t) - (p + q) ELSE 0
      /\ \A i \in 1 .. Len(c) : c[i] = t[(p + q) + i]
  BY <1>3, BeforeAfter
<1> HIDE DEF b, c
<1>5. Len(b) = Len(c)
  BY <1>1, <1>2, <1>3, <1>4
<1>6. ASSUME NEW i \in 1 .. Len(b) PROVE b[i] = c[i]
  <2>1. q + i \in 1 .. Len(a) /\ p + (q + i) = (p + q) + i
    BY <1>1, <1>2, <1>3
  <2> QED BY <1>1, <1>2, <1>4, <1>5, <2>1
<1>7. b = c
  BY <1>2, <1>4, <1>5, <1>6, SameSequence
<1> QED BY <1>7 DEF a, b, c

\* An insertion puts the new text between what is before the place and what is after.
LEMMA InsertedHolds ==
    ASSUME NEW n \in Node, NEW pos \in Nat, NEW new \in Seq(Char)
    PROVE  Holds(Inserted(n, pos, new),
                 (Before(TextOf(n), pos) \o new) \o After(TextOf(n), pos))
<1> DEFINE t == TextOf(n)
<1>1. t \in Seq(Char)
  BY TextCounted
<1> HIDE DEF t
<1>2. /\ Before(t, pos) \in Seq(Char) /\ After(t, pos) \in Seq(Char)
      /\ Before(t, pos) \o After(t, pos) = t
  BY <1>1, BeforeAfter
<1>3. CASE new = <<>>
  <2>1. Inserted(n, pos, new) = n
    BY <1>3 DEF Inserted
  <2>2. Before(t, pos) \o new = Before(t, pos)
    BY <1>2, <1>3, WholeSeq
  <2> QED BY <1>2, <2>1, <2>2 DEF Holds, t
<1>4. CASE new # <<>>
  <2> DEFINE s == Split(n, pos)
  <2>1. Inserted(n, pos, new) = Join(Join(s[1], Build(new)), s[2])
    BY <1>4 DEF Inserted
  <2>2. Divided(s, t, pos)
    BY SplitDivides DEF t
  <2> HIDE DEF s
  <2>3. /\ s[1] \in Node /\ s[2] \in Node
        /\ TextOf(s[1]) = Before(t, pos) /\ TextOf(s[2]) = After(t, pos)
    BY <2>2 DEF Divided, Before, After
  <2>4. Build(new) \in Node /\ TextOf(Build(new)) = new
    BY BuildHolds DEF Holds
  <2>5. /\ Join(s[1], Build(new)) \in Node
        /\ TextOf(Join(s[1], Build(new))) = Before(t, pos) \o new
    <3>1. Holds(Join(s[1], Build(new)), TextOf(s[1]) \o TextOf(Build(new)))
      BY <2>3, <2>4, JoinKeeps
    <3> QED BY <2>3, <2>4, <3>1 DEF Holds
  <2>6. Holds(Join(Join(s[1], Build(new)), s[2]), (Before(t, pos) \o new) \o After(t, pos))
    <3> DEFINE l == Join(s[1], Build(new))
    <3>1. l \in Node /\ TextOf(l) = Before(t, pos) \o new
      BY <2>5
    <3> HIDE DEF l
    <3>2. Holds(Join(l, s[2]), (Before(t, pos) \o new) \o After(t, pos))
      BY <2>3, <3>1, JoinKeeps
    <3> QED BY <3>2 DEF l
  <2> QED BY <2>1, <2>6 DEF t
<1> QED BY <1>3, <1>4

\* A deletion leaves what is before the place and what is count further.
LEMMA DeletedHolds ==
    ASSUME NEW n \in Node, NEW pos \in Nat, NEW count \in Nat
    PROVE  Holds(Deleted(n, pos, count),
                 Before(TextOf(n), pos) \o After(TextOf(n), pos + count))
<1> DEFINE t == TextOf(n)
<1>1. t \in Seq(Char) /\ TextLen(n) = Len(t) /\ Len(t) \in Nat /\ pos + count \in Nat
  BY TextCounted, WholeSeq
<1> HIDE DEF t
<1>2. /\ Before(t, pos) \in Seq(Char) /\ After(t, pos) \in Seq(Char)
      /\ Before(t, pos) \o After(t, pos) = t
  BY <1>1, BeforeAfter
<1>3. CASE count = 0
  <2>1. Deleted(n, pos, count) = n /\ pos + count = pos
    BY <1>3 DEF Deleted
  <2> QED BY <1>2, <2>1 DEF Holds, t
<1>4. CASE count # 0 /\ pos >= TextLen(n)
  <2>1. Deleted(n, pos, count) = n
    BY <1>4 DEF Deleted
  <2>2. Before(t, pos) = t
    BY <1>1, <1>4, Bounds DEF Before
  <2>3. After(t, pos + count) = <<>>
    <3>1. pos + count >= Len(t)
      BY <1>1, <1>4
    <3> QED BY <1>1, <3>1, Bounds DEF After
  <2>4. t \o <<>> = t
    BY <1>1, WholeSeq
  <2> QED BY <2>1, <2>2, <2>3, <2>4 DEF Holds, t
<1>5. CASE count # 0 /\ ~(pos >= TextLen(n))
  <2> DEFINE s == Split(n, pos)
             c == Least(count, TextLen(n) - pos)
             r == Split(s[2], c)
  <2>1. Deleted(n, pos, count) = Join(s[1], r[2])
    BY <1>5 DEF Deleted
  <2>2. Divided(s, t, pos)
    BY SplitDivides DEF t
  <2> HIDE DEF s
  <2>3. /\ s[1] \in Node /\ s[2] \in Node
        /\ TextOf(s[1]) = Before(t, pos) /\ TextOf(s[2]) = After(t, pos)
    BY <2>2 DEF Divided, Before, After
  <2>4. c \in Nat /\ (c = count \/ (c = Len(t) - pos /\ c <= count))
    BY <1>1, <1>5 DEF Least
  <2> HIDE DEF c
  <2>5. Divided(r, After(t, pos), c)
    BY <2>3, <2>4, SplitDivides
  <2> HIDE DEF r
  <2>6. r[2] \in Node /\ TextOf(r[2]) = After(After(t, pos), c)
    BY <2>5 DEF Divided, After
  <2>7. After(After(t, pos), c) = After(t, pos + c)
    BY <1>1, <2>4, AfterAfter
  <2>8. After(t, pos + c) = After(t, pos + count)
    <3>1. CASE c = count
      BY <3>1
    <3>2. CASE c = Len(t) - pos /\ c <= count
      <4>1. pos + c \in Nat /\ pos + c >= Len(t) /\ pos + count >= Len(t)
        BY <1>1, <2>4, <3>2
      <4>2. After(t, pos + c) = <<>> /\ After(t, pos + count) = <<>>
        BY <1>1, <4>1, Bounds DEF After
      <4> QED BY <4>2
    <3> QED BY <2>4, <3>1, <3>2
  <2> QED BY <2>1, <2>3, <2>6, <2>7, <2>8, JoinKeeps DEF t
<1> QED BY <1>3, <1>4, <1>5

\* An insertion after a deletion at the same place.
LEMMA ReplacedHolds ==
    ASSUME NEW n \in Node, NEW pos \in Nat, NEW count \in Nat, NEW new \in Seq(Char)
    PROVE  Holds(Inserted(Deleted(n, pos, count), pos, new),
                 (Before(TextOf(n), pos) \o new) \o After(TextOf(n), pos + count))
<1> DEFINE t == TextOf(n)
           a == Before(t, pos)
           b == After(t, pos + count)
           d == a \o b
           m == Deleted(n, pos, count)
<1>1. t \in Seq(Char) /\ Len(t) \in Nat /\ pos + count \in Nat
  BY TextCounted, WholeSeq
<1>2. m \in Node /\ TextOf(m) = d
  BY DeletedHolds DEF Holds
<1> HIDE DEF m, t
<1>3. /\ a \in Seq(Char) /\ Len(a) = Least(pos, Len(t)) /\ b \in Seq(Char)
      /\ Len(b) = IF pos + count <= Len(t) THEN Len(t) - (pos + count) ELSE 0
  BY <1>1, BeforeAfter
<1> HIDE DEF a, b
<1>4. Len(a) \in Nat /\ Len(b) \in Nat /\ d \in Seq(Char) /\ Len(d) = Len(a) + Len(b)
  BY <1>3, ConcatAt, WholeSeq
<1>5. Before(d, pos) = a /\ After(d, pos) = b
  <2>1. CASE pos <= Len(t)
    <3>1. Len(a) = pos
      BY <1>1, <1>3, <2>1 DEF Least
    <3>2. Least(pos, Len(d)) = pos
      BY <1>4, <3>1 DEF Least
    <3>0. pos \in Nat /\ pos <= Len(a)
      BY <3>1, <1>4
    <3>3. SubSeq(a \o b, 1, pos) = SubSeq(a, 1, pos)
          /\ SubSeq(a \o b, pos + 1, Len(a \o b)) = SubSeq(a, pos + 1, Len(a)) \o b
      BY <1>3, <3>0, HeadOfConcat
    <3>4. SubSeq(a, 1, Len(a)) = a /\ SubSeq(a, Len(a) + 1, Len(a)) = <<>> /\ <<>> \o b = b
      <4>1. SubSeq(a, 1, Len(a)) = a /\ <<>> \o b = b
        BY <1>3, WholeSeq
      <4>2. Len(a) >= Len(a)
        BY <1>4
      <4>3. SubSeq(a, Len(a) + 1, Len(a)) = <<>>
        BY <1>3, <1>4, <4>2, Bounds
      <4> QED BY <4>1, <4>3
    <3> QED BY <3>1, <3>2, <3>3, <3>4 DEF Before, After
  <2>2. CASE ~(pos <= Len(t))
    <3>1. Len(b) = 0 /\ Len(a) = Len(t)
      BY <1>1, <1>3, <2>2 DEF Least
    <3>2. b = <<>> /\ a \o <<>> = a
      BY <1>3, <3>1, WholeSeq
    <3>3. d = a /\ pos >= Len(a)
      BY <1>1, <2>2, <3>1, <3>2
    <3>4. Before(a, pos) = a /\ After(a, pos) = <<>>
      BY <1>3, <3>3, Bounds DEF Before, After
    <3> QED BY <3>2, <3>3, <3>4
  <2> QED BY <2>1, <2>2
<1> HIDE DEF d
<1>6. Holds(Inserted(m, pos, new), (Before(d, pos) \o new) \o After(d, pos))
  BY <1>2, InsertedHolds
<1> QED BY <1>5, <1>6 DEF m, a, b, t

-----------------------------------------------------------------------------
(* The theorem.                                                            *)

\* The text is one, and the root a tree that holds it.
IInv == text \in Seq(Char) /\ Holds(root, text)

LEMMA SeqOfIsSeq ==
    ASSUME NEW S, NEW n \in Nat
    PROVE  SeqOf(S, n) \subseteq Seq(S)
<1> SUFFICES ASSUME NEW s \in SeqOf(S, n) PROVE s \in Seq(S)
  OBVIOUS
<1>1. PICK m \in 0 .. n : s \in [1 .. m -> S]
  BY DEF SeqOf
<1> QED BY <1>1

LEMMA InitIInv == Init => IInv
<1> SUFFICES ASSUME Init PROVE IInv
  OBVIOUS
<1>1. text \in Seq(Char)
  <2>1. text \in SeqOf(Char, MaxLen) \/ text \in SeqOf({Newline}, MaxBlank)
    BY DEF Init
  <2>2. text \in Seq(Char) \/ text \in Seq({Newline})
    BY <2>1, SeqOfIsSeq, RopeAssumption
  <2>3. CASE text \in Seq({Newline})
    <3>1. \A i \in 1 .. Len(text) : text[i] \in {Newline}
      BY <2>3
    <3> QED BY <2>3, <3>1, RopeAssumption
  <2> QED BY <2>2, <2>3
<1> QED BY <1>1, BuildHolds DEF Init, IInv

LEMMA EditKeeps ==
    ASSUME IInv, NEW pos \in Nat, NEW count \in Nat, NEW new \in Seq(Char), NEW result,
           Edit(pos, count, new, result),
           Holds(result, (Before(text, pos) \o new) \o After(text, pos + count))
    PROVE  IInv'
<1>1. root' = result /\ text' = (Before(text, pos) \o new) \o After(text, pos + count)
  BY DEF Edit, Spliced, Before, After
<1>2. text' \in Seq(Char)
  <2>1. text \in Seq(Char) /\ pos + count \in Nat
    BY DEF IInv
  <2>2. Before(text, pos) \in Seq(Char) /\ After(text, pos + count) \in Seq(Char)
    BY <2>1, BeforeAfter
  <2>3. Before(text, pos) \o new \in Seq(Char)
    BY <2>2, ConcatAt
  <2> QED BY <1>1, <2>2, <2>3, ConcatAt
<1> QED BY <1>1, <1>2 DEF IInv, Holds

LEMMA NextIInv == IInv /\ [Next]_vars => IInv'
<1> SUFFICES ASSUME IInv, [Next]_vars PROVE IInv'
  OBVIOUS
<1>1. root \in Node /\ text \in Seq(Char) /\ TextOf(root) = text
  BY DEF IInv, Holds
<1>2. Place \subseteq Nat /\ Insertions \subseteq Seq(Char)
  <2>1. Len(text) \in Nat
    BY <1>1, WholeSeq
  <2>2. Insertions \subseteq Seq(Char)
    BY SeqOfIsSeq, RopeAssumption DEF Insertions
  <2> QED BY <2>1, <2>2 DEF Place
<1>3. ASSUME NEW pos \in Place, NEW new \in Insertions, Insert(pos, new) PROVE IInv'
  <2>1. pos \in Nat /\ new \in Seq(Char) /\ 0 \in Nat /\ pos + 0 = pos
    BY <1>2
  <2>2. Holds(Inserted(root, pos, new), (Before(text, pos) \o new) \o After(text, pos))
    BY <1>1, <2>1, InsertedHolds
  <2>3. Edit(pos, 0, new, Inserted(root, pos, new))
    BY <1>3 DEF Insert
  <2> QED BY <2>1, <2>2, <2>3, EditKeeps
<1>4. ASSUME NEW pos \in Place, NEW count \in Place, Delete(pos, count) PROVE IInv'
  <2>1. pos \in Nat /\ count \in Nat /\ pos + count \in Nat /\ <<>> \in Seq(Char)
    BY <1>2
  <2>2. Holds(Deleted(root, pos, count), Before(text, pos) \o After(text, pos + count))
    BY <1>1, <2>1, DeletedHolds
  <2>3. Before(text, pos) \in Seq(Char)
    BY <1>1, <2>1, BeforeAfter
  <2>4. Before(text, pos) \o <<>> = Before(text, pos)
    BY <2>3, WholeSeq
  <2>5. Edit(pos, count, <<>>, Deleted(root, pos, count))
    BY <1>4 DEF Delete
  <2> QED BY <2>1, <2>2, <2>4, <2>5, EditKeeps
<1>5. ASSUME NEW pos \in Place, NEW count \in Place, NEW new \in Insertions,
             Replace(pos, count, new)
      PROVE  IInv'
  <2>1. pos \in Nat /\ count \in Nat /\ new \in Seq(Char)
    BY <1>2
  <2>2. Holds(Inserted(Deleted(root, pos, count), pos, new),
              (Before(text, pos) \o new) \o After(text, pos + count))
    BY <1>1, <2>1, ReplacedHolds
  <2>3. Edit(pos, count, new, Inserted(Deleted(root, pos, count), pos, new))
    BY <1>5 DEF Replace
  <2> QED BY <2>1, <2>2, <2>3, EditKeeps
<1>6. CASE UNCHANGED vars
  BY <1>6 DEF vars, IInv, Holds
<1> QED BY <1>3, <1>4, <1>5, <1>6 DEF Next

LEMMA AlwaysIInv == Spec => []IInv
<1> QED BY InitIInv, NextIInv, PTL DEF Spec

\* However edits split, join and rotate the tree of a buffer, its leaves in order are
\* always the text that the same edits make of a plain sequence: insert, delete and
\* replace (rope_buffer.rs:235-275) for any alphabet, leaf size, lengths and number of
\* edits.
THEOREM HoldsTextAlways == Spec => []HoldsText
<1>1. IInv => HoldsText
  BY DEF IInv, Holds, HoldsText
<1> QED BY <1>1, AlwaysIInv, PTL

-----------------------------------------------------------------------------
(* Looking up characters and slices.                                       *)

\* The parts of a branch, and its text.
LEMMA PartsOf ==
    ASSUME NEW h \in Nat, NEW n \in NodeOf[h], ~IsLeaf(n)
    PROVE  /\ h # 0 /\ h - 1 \in Nat /\ n.left \in NodeOf[h - 1] /\ n.right \in NodeOf[h - 1]
           /\ TextOf(n.left) \in Seq(Char) /\ TextOf(n.right) \in Seq(Char)
           /\ TextOf(n) = TextOf(n.left) \o TextOf(n.right)
           /\ n.leftLen = Len(TextOf(n.left)) /\ n.leftLen \in Nat
           /\ n.left.newlines = Newlines(TextOf(n.left)) /\ n.left.newlines \in Nat
<1>1. h # 0 /\ h - 1 \in Nat /\ n \in BranchesOver(NodeOf[h - 1])
  BY NodeCases
<1>2. n.left \in NodeOf[h - 1] /\ n.right \in NodeOf[h - 1] /\ n = Branch(n.left, n.right)
  BY <1>1, BranchesAre
<1>3. n.left \in Node /\ n.right \in Node
  BY <1>1, <1>2 DEF Node
<1>4. TextOf(n) = TextOf(n.left) \o TextOf(n.right)
  BY <1>2, <1>3, TextOfBranch
<1>5. n.leftLen = TextLen(n.left)
  BY <1>2, <1>3, BranchIn
<1>6. /\ TextOf(n.left) \in Seq(Char) /\ TextLen(n.left) = Len(TextOf(n.left))
      /\ n.left.newlines = Newlines(TextOf(n.left)) /\ TextOf(n.right) \in Seq(Char)
  BY <1>3, TextCounted
<1>7. TextLen(n.left) \in Nat /\ n.left.newlines \in Nat
  BY <1>3, NodeOut DEF Counted
<1> QED BY <1>1, <1>2, <1>4, <1>5, <1>6, <1>7

LEMMA LeafText ==
    ASSUME NEW h \in Nat, NEW n \in NodeOf[h], IsLeaf(n)
    PROVE  n \in Leafs /\ n.buf \in Seq(Char) /\ TextOf(n) = n.buf
<1>1. n \in Leafs
  BY NodeCases
<1>2. n.buf \in Seq(Char) /\ n = Leaf(n.buf)
  BY <1>1, LeafsAre
<1> QED BY <1>1, <1>2, TextOfLeaf

\* Whatever a leaf gives for a place, past its end too.
Found == {m.buf[p + 1] : m \in Leafs, p \in Nat}

CharStep(h, g) == [n \in NodeOf[h] |-> [pos \in Nat |-> CharBy(g, n, pos)]]

CharsAt(h) ==
    {g \in [NodeOf[h] -> [Nat -> Found]] :
        \A m \in NodeOf[h], p \in Nat : p < Len(TextOf(m)) => g[m][p] = TextOf(m)[p + 1]}

LEMMA CharStepKeeps ==
    ASSUME NEW h \in Nat, NEW g, h # 0 => g \in CharsAt(h - 1)
    PROVE  CharStep(h, g) \in CharsAt(h)
<1>1. ASSUME NEW m \in NodeOf[h], NEW p \in Nat
      PROVE  /\ CharBy(g, m, p) \in Found
             /\ p < Len(TextOf(m)) => CharBy(g, m, p) = TextOf(m)[p + 1]
  <2>1. CASE IsLeaf(m)
    <3>1. m \in Leafs /\ TextOf(m) = m.buf
      BY <2>1, LeafText
    <3> QED BY <2>1, <3>1 DEF CharBy, Found
  <2>2. CASE ~IsLeaf(m)
    <3> DEFINE lt == TextOf(m.left)
               rt == TextOf(m.right)
               q == p - m.leftLen
    <3>1. /\ h # 0 /\ h - 1 \in Nat /\ m.left \in NodeOf[h - 1] /\ m.right \in NodeOf[h - 1]
          /\ lt \in Seq(Char) /\ rt \in Seq(Char) /\ TextOf(m) = lt \o rt
          /\ m.leftLen = Len(lt) /\ m.leftLen \in Nat
      BY <2>2, PartsOf
    <3>2. g \in CharsAt(h - 1)
      BY <3>1
    <3>3. CASE p < m.leftLen
      <4>1. CharBy(g, m, p) = g[m.left][p]
        BY <2>2, <3>3 DEF CharBy
      <4>2. g[m.left][p] \in Found /\ g[m.left][p] = lt[p + 1]
        BY <3>1, <3>2, <3>3 DEF CharsAt
      <4>3. (lt \o rt)[p + 1] = lt[p + 1]
        <5>1. p + 1 \in 1 .. Len(lt)
          BY <3>1, <3>3
        <5> HIDE DEF lt, rt
        <5> QED BY <3>1, <5>1, ConcatAt
      <4> QED BY <3>1, <4>1, <4>2, <4>3
    <3>4. CASE ~(p < m.leftLen)
      <4>1. CharBy(g, m, p) = g[m.right][q]
        BY <2>2, <3>4 DEF CharBy
      <4>2. q \in Nat /\ p = Len(lt) + q
        BY <3>1, <3>4
      <4> HIDE DEF q
      <4>3. g[m.right][q] \in Found /\ (q < Len(rt) => g[m.right][q] = rt[q + 1])
        BY <3>1, <3>2, <4>2 DEF CharsAt
      <4>4. ASSUME p < Len(TextOf(m)) PROVE q < Len(rt) /\ (lt \o rt)[p + 1] = rt[q + 1]
        <5> HIDE DEF lt, rt
        <5>1. Len(lt) \in Nat /\ Len(rt) \in Nat /\ Len(lt \o rt) = Len(lt) + Len(rt)
          BY <3>1, ConcatAt, WholeSeq
        <5>2. q < Len(rt) /\ q + 1 \in 1 .. Len(rt) /\ p + 1 = Len(lt) + (q + 1)
          BY <3>1, <4>2, <4>4, <5>1
        <5>3. (lt \o rt)[Len(lt) + (q + 1)] = rt[q + 1]
          <6> DEFINE i == q + 1
          <6>1. i \in 1 .. Len(rt)
            BY <5>2
          <6> HIDE DEF i
          <6>2. (lt \o rt)[Len(lt) + i] = rt[i]
            BY <3>1, <6>1, ConcatAt
          <6> QED BY <6>2 DEF i
        <5> QED BY <5>2, <5>3
      <4> QED BY <3>1, <4>1, <4>3, <4>4
    <3> QED BY <3>3, <3>4
  <2> QED BY <2>1, <2>2
<1>2. \A m \in NodeOf[h], p \in Nat : CharStep(h, g)[m][p] = CharBy(g, m, p)
  BY DEF CharStep
<1>3. CharStep(h, g) \in [NodeOf[h] -> [Nat -> Found]]
  BY <1>1 DEF CharStep
<1> QED BY <1>1, <1>2, <1>3 DEF CharsAt

LEMMA CharDefined ==
    ASSUME NEW h \in Nat
    PROVE  charAt[h] \in CharsAt(h)
<1> DEFINE V == [k \in Nat |-> CharsAt(k)]
           base == CharStep(0, <<>>)
           step == [k \in Nat |-> [g \in V[k] |-> CharStep(k + 1, g)]]
           Rec(f) == [k \in Nat |-> CharStep(k, f[k - 1])]
<1>1. \A k \in Nat : V[k] = CharsAt(k) /\ \A g \in V[k] : step[k][g] = CharStep(k + 1, g)
  OBVIOUS
<1> HIDE DEF V, step
<1>2. base \in V[0]
  BY <1>1, CharStepKeeps
<1>3. \A k \in Nat : \A g \in V[k] : step[k][g] \in V[k + 1]
  <2> TAKE k \in Nat
  <2> TAKE g \in V[k]
  <2>1. k + 1 \in Nat /\ (k + 1) - 1 = k
    OBVIOUS
  <2> QED BY <1>1, <2>1, CharStepKeeps
<1> HIDE DEF base
<1>4. PICK f : IsRun(f, base, step) /\ \A k \in Nat : f[k] \in V[k]
  BY <1>2, <1>3, LayersExist
<1>5. ASSUME NEW k \in Nat PROVE f[k] = CharStep(k, f[k - 1])
  <2>1. CASE k = 0
    <3>1. f[k] = CharStep(0, <<>>)
      BY <1>4, <2>1 DEF IsRun, base
    <3>2. \A m \in NodeOf[0], p \in Nat : CharBy(<<>>, m, p) = CharBy(f[k - 1], m, p)
      <4> TAKE m \in NodeOf[0], p \in Nat
      <4>1. IsLeaf(m)
        BY NodesExist, LeafsAre
      <4> QED BY <4>1 DEF CharBy
    <3> QED BY <2>1, <3>1, <3>2 DEF CharStep
  <2>2. CASE k # 0
    <3>1. k - 1 \in Nat /\ (k - 1) + 1 = k
      BY <2>2
    <3> QED BY <1>1, <1>4, <3>1 DEF IsRun
  <2> QED BY <2>1, <2>2
<1>6. f = Rec(f)
  <2>1. f = [k \in Nat |-> f[k]]
    BY <1>4 DEF IsRun
  <2> QED BY <1>5, <2>1
<1>7. charAt = CHOOSE g : g = Rec(g)
  BY DEF charAt, CharStep
<1>8. charAt = Rec(charAt)
  <2> HIDE DEF Rec
  <2> QED BY <1>6, <1>7
<1>9. \A k \in Nat : charAt[k] = CharStep(k, charAt[k - 1])
  BY <1>8
<1> DEFINE T == {k \in Nat : charAt[k] \in CharsAt(k)}
<1>10. 0 \in T
  BY <1>9, CharStepKeeps
<1>11. ASSUME NEW k \in Nat, k \in T PROVE k + 1 \in T
  <2>1. k + 1 \in Nat /\ (k + 1) - 1 = k
    OBVIOUS
  <2> QED BY <1>9, <1>11, <2>1, CharStepKeeps
<1>12. h \in T
  <2> HIDE DEF T
  <2> QED BY <1>10, <1>11, NatSetInduction
<1> QED BY <1>12

LEMMA CharAtRight ==
    ASSUME NEW n \in Node, NEW pos \in Nat, pos < Len(TextOf(n))
    PROVE  CharAt(n, pos) = TextOf(n)[pos + 1]
<1>1. Height(n) \in Nat /\ n \in NodeOf[Height(n)]
  BY HeightFits
<1>2. charAt[Height(n)] \in CharsAt(Height(n))
  BY <1>1, CharDefined
<1> QED BY <1>1, <1>2 DEF CharAt, CharsAt

CollectStep(h, g) ==
    [n \in NodeOf[h] |-> [start \in Nat |-> [end \in Nat |-> CollectBy(g, n, start, end)]]]

CollectsAt(h) ==
    {g \in [NodeOf[h] -> [Nat -> [Nat -> Seq(Char)]]] :
        \A m \in NodeOf[h], p, q \in Nat :
            q <= Len(TextOf(m)) => g[m][p][q] = SubSeq(TextOf(m), p + 1, q)}

LEMMA CollectsAre ==
    ASSUME NEW h \in Nat, NEW g \in CollectsAt(h), NEW m \in NodeOf[h],
           NEW p \in Nat, NEW q \in Nat
    PROVE  /\ g[m][p][q] \in Seq(Char)
           /\ q <= Len(TextOf(m)) => g[m][p][q] = SubSeq(TextOf(m), p + 1, q)
<1>1. g \in [NodeOf[h] -> [Nat -> [Nat -> Seq(Char)]]]
  BY DEF CollectsAt
<1>2. g[m] \in [Nat -> [Nat -> Seq(Char)]]
  BY <1>1
<1>3. g[m][p][q] \in Seq(Char)
  BY <1>2
<1>4. q <= Len(TextOf(m)) => g[m][p][q] = SubSeq(TextOf(m), p + 1, q)
  BY DEF CollectsAt
<1> QED BY <1>3, <1>4

LEMMA CollectStepKeeps ==
    ASSUME NEW h \in Nat, NEW g, h # 0 => g \in CollectsAt(h - 1)
    PROVE  CollectStep(h, g) \in CollectsAt(h)
<1>1. ASSUME NEW m \in NodeOf[h], NEW p \in Nat, NEW q \in Nat
      PROVE  /\ CollectBy(g, m, p, q) \in Seq(Char)
             /\ q <= Len(TextOf(m)) => CollectBy(g, m, p, q) = SubSeq(TextOf(m), p + 1, q)
  <2>1. CASE p >= q
    <3>1. CollectBy(g, m, p, q) = <<>>
      BY <2>1 DEF CollectBy
    <3>2. <<>> \in Seq(Char)
      OBVIOUS
    <3>3. ASSUME q <= Len(TextOf(m)) PROVE SubSeq(TextOf(m), p + 1, q) = <<>>
      <4>1. p + 1 > q
        BY <2>1
      <4> QED BY <4>1
    <3> QED BY <3>1, <3>2, <3>3
  <2>2. CASE ~(p >= q) /\ IsLeaf(m)
    <3> DEFINE a == Least(p, Len(m.buf))
               b == Least(q, Len(m.buf))
    <3>1. m.buf \in Seq(Char) /\ TextOf(m) = m.buf /\ Len(m.buf) \in Nat
      BY <2>2, LeafText, WholeSeq
    <3>2. CollectBy(g, m, p, q) = SubSeq(m.buf, a + 1, b)
      BY <2>2 DEF CollectBy
    <3>3. a \in Nat /\ b \in Nat /\ b <= Len(m.buf)
          /\ (q <= Len(TextOf(m)) => a = p /\ b = q)
      BY <2>2, <3>1 DEF Least
    <3> HIDE DEF a, b
    <3>4. SubSeq(m.buf, a + 1, b) \in Seq(Char)
      BY <3>1, <3>3, SubSeqAt
    <3> QED BY <3>1, <3>2, <3>3, <3>4
  <2>3. CASE ~(p >= q) /\ ~IsLeaf(m)
    <3> DEFINE lt == TextOf(m.left)
               rt == TextOf(m.right)
               l == IF p < m.leftLen THEN g[m.left][p][Least(q, m.leftLen)] ELSE <<>>
               r == IF q > m.leftLen
                    THEN g[m.right][Most(p - m.leftLen, 0)][q - m.leftLen] ELSE <<>>
    <3>1. /\ h # 0 /\ h - 1 \in Nat /\ m.left \in NodeOf[h - 1] /\ m.right \in NodeOf[h - 1]
          /\ lt \in Seq(Char) /\ rt \in Seq(Char) /\ TextOf(m) = lt \o rt
          /\ m.leftLen = Len(lt) /\ m.leftLen \in Nat
      BY <2>3, PartsOf
    <3>2. \A x \in NodeOf[h - 1], i, j \in Nat :
              /\ g[x][i][j] \in Seq(Char)
              /\ j <= Len(TextOf(x)) => g[x][i][j] = SubSeq(TextOf(x), i + 1, j)
      <4>1. g \in CollectsAt(h - 1)
        BY <3>1
      <4> QED BY <3>1, <4>1, CollectsAre
    <3>3. CollectBy(g, m, p, q) = l \o r
      BY <2>3 DEF CollectBy
    <3>4. Least(q, m.leftLen) \in Nat /\ Least(q, m.leftLen) <= m.leftLen
          /\ Most(p - m.leftLen, 0) \in Nat
      BY <3>1 DEF Least, Most
    <3>5. l \in Seq(Char)
          /\ l = IF p < Len(lt) THEN SubSeq(lt, p + 1, Least(q, Len(lt))) ELSE <<>>
      <4>1. CASE p < m.leftLen
        <5>1. l = g[m.left][p][Least(q, m.leftLen)]
          BY <4>1
        <5>2. l \in Seq(Char) /\ l = SubSeq(lt, p + 1, Least(q, m.leftLen))
          <6> DEFINE j == Least(q, m.leftLen)
          <6>1. j \in Nat /\ j <= Len(lt)
            BY <3>1, <3>4
          <6> HIDE DEF j
          <6>2. g[m.left][p][j] \in Seq(Char) /\ g[m.left][p][j] = SubSeq(lt, p + 1, j)
            BY <3>1, <3>2, <6>1
          <6> QED BY <5>1, <6>2 DEF j
        <5> HIDE DEF l, lt
        <5> QED BY <3>1, <4>1, <5>2
      <4>2. CASE ~(p < m.leftLen)
        BY <3>1, <4>2
      <4> QED BY <4>1, <4>2
    <3>6. r \in Seq(Char)
      <4>1. CASE q > m.leftLen
        <5>1. q - m.leftLen \in Nat
          BY <3>1, <4>1
        <5> QED BY <3>1, <3>2, <3>4, <4>1, <5>1
      <4>2. CASE ~(q > m.leftLen)
        BY <4>2
      <4> QED BY <4>1, <4>2
    <3>7. ASSUME q <= Len(TextOf(m))
          PROVE  r = IF q > Len(lt) THEN SubSeq(rt, Most(p - Len(lt), 0) + 1, q - Len(lt)) ELSE <<>>
      <4>1. CASE q > m.leftLen
        <5>1. Len(lt \o rt) = Len(lt) + Len(rt) /\ Len(rt) \in Nat
          <6> HIDE DEF lt, rt
          <6> QED BY <3>1, ConcatAt, WholeSeq
        <5>2. q - m.leftLen \in Nat /\ q - m.leftLen <= Len(rt)
          BY <3>1, <3>7, <4>1, <5>1
        <5>3. r = g[m.right][Most(p - m.leftLen, 0)][q - m.leftLen]
          BY <4>1
        <5>4. r = SubSeq(rt, Most(p - m.leftLen, 0) + 1, q - m.leftLen)
          <6> DEFINE i == Most(p - m.leftLen, 0)
                     j == q - m.leftLen
          <6>1. i \in Nat /\ j \in Nat /\ j <= Len(rt) /\ r = g[m.right][i][j]
            BY <3>1, <3>4, <5>2, <5>3
          <6> HIDE DEF i, j, r
          <6>2. g[m.right][i][j] = SubSeq(rt, i + 1, j)
            BY <3>1, <3>2, <6>1
          <6> QED BY <6>1, <6>2 DEF i, j
        <5> HIDE DEF r, lt, rt
        <5> QED BY <3>1, <4>1, <5>4
      <4>2. CASE ~(q > m.leftLen)
        BY <3>1, <4>2
      <4> QED BY <4>1, <4>2
    <3>8. l \o r \in Seq(Char)
      <4> HIDE DEF l, r
      <4> QED BY <3>5, <3>6, ConcatAt
    <3>9. ASSUME q <= Len(TextOf(m)) PROVE l \o r = SubSeq(TextOf(m), p + 1, q)
      <4> HIDE DEF l, r, lt, rt
      <4>1. q <= Len(lt) + Len(rt)
        BY <3>1, <3>9, ConcatAt
      <4>2. SubSeq(lt \o rt, p + 1, q)
              = (IF p < Len(lt) THEN SubSeq(lt, p + 1, Least(q, Len(lt))) ELSE <<>>)
                \o (IF q > Len(lt) THEN SubSeq(rt, Most(p - Len(lt), 0) + 1, q - Len(lt)) ELSE <<>>)
        BY <3>1, <4>1, PartOfConcat
      <4> QED BY <3>1, <3>5, <3>7, <3>9, <4>2
    <3> HIDE DEF l, r
    <3> QED BY <3>3, <3>8, <3>9
  <2> QED BY <2>1, <2>2, <2>3
<1>2. \A m \in NodeOf[h], p, q \in Nat : CollectStep(h, g)[m][p][q] = CollectBy(g, m, p, q)
  BY DEF CollectStep
<1>3. CollectStep(h, g) \in [NodeOf[h] -> [Nat -> [Nat -> Seq(Char)]]]
  BY <1>1 DEF CollectStep
<1>4. ASSUME NEW m \in NodeOf[h], NEW p \in Nat, NEW q \in Nat, q <= Len(TextOf(m))
      PROVE  CollectStep(h, g)[m][p][q] = SubSeq(TextOf(m), p + 1, q)
  BY <1>1, <1>2, <1>4
<1> QED BY <1>3, <1>4 DEF CollectsAt

LEMMA CollectDefined ==
    ASSUME NEW h \in Nat
    PROVE  collectAt[h] \in CollectsAt(h)
<1> DEFINE V == [k \in Nat |-> CollectsAt(k)]
           base == CollectStep(0, <<>>)
           step == [k \in Nat |-> [g \in V[k] |-> CollectStep(k + 1, g)]]
           Rec(f) == [k \in Nat |-> CollectStep(k, f[k - 1])]
<1>1. \A k \in Nat : V[k] = CollectsAt(k) /\ \A g \in V[k] : step[k][g] = CollectStep(k + 1, g)
  OBVIOUS
<1> HIDE DEF V, step
<1>2. base \in V[0]
  BY <1>1, CollectStepKeeps
<1>3. \A k \in Nat : \A g \in V[k] : step[k][g] \in V[k + 1]
  <2> TAKE k \in Nat
  <2> TAKE g \in V[k]
  <2>1. k + 1 \in Nat /\ (k + 1) - 1 = k
    OBVIOUS
  <2> QED BY <1>1, <2>1, CollectStepKeeps
<1> HIDE DEF base
<1>4. PICK f : IsRun(f, base, step) /\ \A k \in Nat : f[k] \in V[k]
  BY <1>2, <1>3, LayersExist
<1>5. ASSUME NEW k \in Nat PROVE f[k] = CollectStep(k, f[k - 1])
  <2>1. CASE k = 0
    <3>1. f[k] = CollectStep(0, <<>>)
      BY <1>4, <2>1 DEF IsRun, base
    <3>2. \A m \in NodeOf[0], p, q \in Nat : CollectBy(<<>>, m, p, q) = CollectBy(f[k - 1], m, p, q)
      <4> TAKE m \in NodeOf[0], p, q \in Nat
      <4>1. IsLeaf(m)
        BY NodesExist, LeafsAre
      <4> QED BY <4>1 DEF CollectBy
    <3> QED BY <2>1, <3>1, <3>2 DEF CollectStep
  <2>2. CASE k # 0
    <3>1. k - 1 \in Nat /\ (k - 1) + 1 = k
      BY <2>2
    <3> QED BY <1>1, <1>4, <3>1 DEF IsRun
  <2> QED BY <2>1, <2>2
<1>6. f = Rec(f)
  <2>1. f = [k \in Nat |-> f[k]]
    BY <1>4 DEF IsRun
  <2> QED BY <1>5, <2>1
<1>7. collectAt = CHOOSE g : g = Rec(g)
  BY DEF collectAt, CollectStep
<1>8. collectAt = Rec(collectAt)
  <2> HIDE DEF Rec
  <2> QED BY <1>6, <1>7
<1>9. \A k \in Nat : collectAt[k] = CollectStep(k, collectAt[k - 1])
  BY <1>8
<1> DEFINE T == {k \in Nat : collectAt[k] \in CollectsAt(k)}
<1>10. 0 \in T
  BY <1>9, CollectStepKeeps
<1>11. ASSUME NEW k \in Nat, k \in T PROVE k + 1 \in T
  <2>1. k + 1 \in Nat /\ (k + 1) - 1 = k
    OBVIOUS
  <2> QED BY <1>9, <1>11, <2>1, CollectStepKeeps
<1>12. h \in T
  <2> HIDE DEF T
  <2> QED BY <1>10, <1>11, NatSetInduction
<1> QED BY <1>12

LEMMA SliceRight ==
    ASSUME NEW n \in Node, NEW start \in Nat, NEW end \in Nat
    PROVE  Slice(n, start, end)
             = SubSeq(TextOf(n), start + 1, Least(end, Len(TextOf(n))))
<1> DEFINE t == TextOf(n)
           a == Least(start, Len(t))
           b == Least(end, Len(t))
<1>1. Height(n) \in Nat /\ n \in NodeOf[Height(n)]
  BY HeightFits
<1>2. collectAt[Height(n)] \in CollectsAt(Height(n))
  BY <1>1, CollectDefined
<1>3. t \in Seq(Char) /\ TextLen(n) = Len(t) /\ Len(t) \in Nat
  BY TextCounted, WholeSeq
<1>4. a \in Nat /\ b \in Nat /\ b <= Len(t) /\ (a = start \/ (a = Len(t) /\ start >= Len(t)))
  BY <1>3 DEF Least
<1>5. Slice(n, start, end) = collectAt[Height(n)][n][a][b]
  BY <1>3 DEF Slice
<1> HIDE DEF a, b
<1>6. Slice(n, start, end) = SubSeq(t, a + 1, b)
  BY <1>1, <1>2, <1>4, <1>5 DEF CollectsAt
<1> HIDE DEF t
<1>7. SubSeq(t, a + 1, b) = SubSeq(t, start + 1, b)
  <2>1. CASE a = start
    BY <2>1
  <2>2. CASE a = Len(t) /\ start >= Len(t)
    <3>1. a + 1 > b /\ start + 1 > b
      BY <1>3, <1>4, <2>2
    <3>2. SubSeq(t, a + 1, b) = <<>> /\ SubSeq(t, start + 1, b) = <<>>
      BY <1>3, <1>4, <3>1
    <3> QED BY <3>2
  <2> QED BY <1>4, <2>1, <2>2
<1> QED BY <1>6, <1>7 DEF t, b

-----------------------------------------------------------------------------
(* Counting newlines and finding one by its number.                        *)

\* The newlines among the first p characters.
EndsIn(t, p) == {i \in 1 .. p : t[i] = Newline}

LEMMA EndsInType ==
    ASSUME NEW t, NEW p \in Nat
    PROVE  IsFiniteSet(EndsIn(t, p)) /\ Cardinality(EndsIn(t, p)) \in Nat
<1>1. IsFiniteSet(1 .. p)
  BY FS_Interval
<1>2. EndsIn(t, p) \in SUBSET (1 .. p)
  BY DEF EndsIn
<1>3. IsFiniteSet(EndsIn(t, p))
  BY <1>1, <1>2, FS_Subset
<1> QED BY <1>3, FS_CardinalityType

LEMMA EndsInIs ==
    ASSUME NEW S, NEW t \in Seq(S), NEW p \in Nat, p <= Len(t)
    PROVE  Newlines(SubSeq(t, 1, p)) = Cardinality(EndsIn(t, p))
<1>1. /\ SubSeq(t, 0 + 1, p) \in Seq(S)
      /\ Len(SubSeq(t, 0 + 1, p)) = IF 0 <= p THEN p - 0 ELSE 0
      /\ \A i \in 1 .. Len(SubSeq(t, 0 + 1, p)) : SubSeq(t, 0 + 1, p)[i] = t[0 + i]
  BY SubSeqAt
<1> DEFINE s == SubSeq(t, 1, p)
<1>2. s \in Seq(S) /\ Len(s) = p /\ \A i \in 1 .. Len(s) : s[i] = t[i]
  <2>1. 0 + 1 = 1 /\ \A i \in 1 .. p : 0 + i = i
    OBVIOUS
  <2>2. SubSeq(t, 0 + 1, p) = s
    BY <2>1, Zenon
  <2> HIDE DEF s
  <2> QED BY <1>1, <2>1, <2>2
<1> HIDE DEF s
<1>3. {i \in DOMAIN s : s[i] = Newline} = EndsIn(t, p)
  BY <1>2 DEF EndsIn
<1> QED BY <1>3 DEF Newlines, s

LEMMA EndsInAll ==
    ASSUME NEW S, NEW t \in Seq(S)
    PROVE  Newlines(t) = Cardinality(EndsIn(t, Len(t)))
<1>1. {i \in DOMAIN t : t[i] = Newline} = EndsIn(t, Len(t))
  BY DEF EndsIn
<1> QED BY <1>1 DEF Newlines

\* More characters hold more newlines, or none in what was added.
LEMMA EndsGrow ==
    ASSUME NEW t, NEW p \in Nat, NEW q \in Nat, p <= q
    PROVE  /\ EndsIn(t, p) \subseteq EndsIn(t, q)
           /\ Cardinality(EndsIn(t, p)) <= Cardinality(EndsIn(t, q))
           /\ Cardinality(EndsIn(t, p)) = Cardinality(EndsIn(t, q))
                => \A i \in 1 .. q : t[i] = Newline => i <= p
<1>1. EndsIn(t, p) \in SUBSET EndsIn(t, q)
  BY DEF EndsIn
<1>2. IsFiniteSet(EndsIn(t, q))
  BY EndsInType
<1>3. /\ Cardinality(EndsIn(t, p)) <= Cardinality(EndsIn(t, q))
      /\ Cardinality(EndsIn(t, p)) = Cardinality(EndsIn(t, q)) => EndsIn(t, q) = EndsIn(t, p)
  BY <1>1, <1>2, FS_Subset
<1>4. EndsIn(t, q) = EndsIn(t, p) => \A i \in 1 .. q : t[i] = Newline => i <= p
  BY DEF EndsIn
<1> QED BY <1>1, <1>3, <1>4

\* Newlines with the same number of newlines up to them are one.
LEMMA NthUnique ==
    ASSUME NEW t, NEW i \in Nat \ {0}, NEW j \in Nat \ {0}, t[i] = Newline, t[j] = Newline,
           Cardinality(EndsIn(t, i)) = Cardinality(EndsIn(t, j))
    PROVE  i = j
<1>1. CASE i <= j
  <2>1. \A x \in 1 .. j : t[x] = Newline => x <= i
    BY <1>1, EndsGrow
  <2> QED BY <1>1, <2>1
<1>2. CASE j <= i
  <2>1. \A x \in 1 .. i : t[x] = Newline => x <= j
    BY <1>2, EndsGrow
  <2> QED BY <1>2, <2>1
<1> QED BY <1>1, <1>2

\* There is one for every number below how many there are.
LEMMA NthExists ==
    ASSUME NEW t, NEW m \in Nat, NEW k \in Nat, k < Cardinality(EndsIn(t, m))
    PROVE  \E i \in 1 .. m : t[i] = Newline /\ Cardinality(EndsIn(t, i)) = k + 1
<1> DEFINE T == {j \in Nat : \A x \in Nat : x < Cardinality(EndsIn(t, j)) =>
                    \E i \in 1 .. j : t[i] = Newline /\ Cardinality(EndsIn(t, i)) = x + 1}
<1>1. 0 \in T
  <2>1. EndsIn(t, 0) = {}
    BY DEF EndsIn
  <2>2. Cardinality(EndsIn(t, 0)) = 0
    BY <2>1, FS_EmptySet
  <2> QED BY <2>2
<1>2. ASSUME NEW j \in Nat, j \in T PROVE j + 1 \in T
  <2> SUFFICES ASSUME NEW x \in Nat, x < Cardinality(EndsIn(t, j + 1))
               PROVE  \E i \in 1 .. j + 1 :
                         t[i] = Newline /\ Cardinality(EndsIn(t, i)) = x + 1
    OBVIOUS
  <2>1. IsFiniteSet(EndsIn(t, j)) /\ Cardinality(EndsIn(t, j)) \in Nat
        /\ j + 1 \in 1 .. j + 1 /\ 1 .. j \subseteq 1 .. j + 1 /\ ~(j + 1 \in EndsIn(t, j))
    BY EndsInType DEF EndsIn
  <2>2. CASE x < Cardinality(EndsIn(t, j))
    BY <1>2, <2>1, <2>2
  <2>3. CASE ~(x < Cardinality(EndsIn(t, j)))
    <3>1. CASE t[j + 1] = Newline
      <4>1. EndsIn(t, j + 1) = EndsIn(t, j) \cup {j + 1}
        BY <3>1 DEF EndsIn
      <4>2. Cardinality(EndsIn(t, j + 1)) = Cardinality(EndsIn(t, j)) + 1
        BY <2>1, <4>1, FS_AddElement
      <4>3. Cardinality(EndsIn(t, j + 1)) = x + 1
        BY <2>1, <2>3, <4>2
      <4> QED BY <2>1, <3>1, <4>3
    <3>2. CASE t[j + 1] # Newline
      <4>1. EndsIn(t, j + 1) = EndsIn(t, j)
        BY <3>2 DEF EndsIn
      <4> QED BY <2>3, <4>1
    <3> QED BY <3>1, <3>2
  <2> QED BY <2>2, <2>3
<1>3. m \in T
  <2> HIDE DEF T
  <2> QED BY <1>1, <1>2, NatSetInduction
<1> QED BY <1>3

CountStep(h, g) == [n \in NodeOf[h] |-> [pos \in Nat |-> CountBy(g, n, pos)]]

CountsAt(h) ==
    {g \in [NodeOf[h] -> [Nat -> Nat]] :
        \A m \in NodeOf[h], p \in Nat : g[m][p] = Newlines(Before(TextOf(m), p))}

LEMMA CountStepKeeps ==
    ASSUME NEW h \in Nat, NEW g, h # 0 => g \in CountsAt(h - 1)
    PROVE  CountStep(h, g) \in CountsAt(h)
<1>1. ASSUME NEW m \in NodeOf[h], NEW p \in Nat
      PROVE  CountBy(g, m, p) \in Nat /\ CountBy(g, m, p) = Newlines(Before(TextOf(m), p))
  <2>0. Before(TextOf(m), p) \in Seq(Char) /\ TextOf(m) \in Seq(Char)
        /\ Newlines(Before(TextOf(m), p)) \in Nat /\ Len(TextOf(m)) \in Nat
    <3>1. m \in Node
      BY DEF Node
    <3>2. TextOf(m) \in Seq(Char)
      BY <3>1, TextCounted
    <3> QED BY <3>2, BeforeAfter, NewlinesType, WholeSeq
  <2>1. CASE p = 0
    <3>1. CountBy(g, m, p) = 0
      BY <2>1 DEF CountBy
    <3>2. Len(Before(TextOf(m), p)) = 0
      <4>1. Len(Before(TextOf(m), p)) = Least(p, Len(TextOf(m)))
        BY <2>0, BeforeAfter
      <4> QED BY <2>0, <2>1, <4>1 DEF Least
    <3>3. Newlines(Before(TextOf(m), p)) <= 0
      BY <2>0, <3>2, NewlinesType
    <3> QED BY <2>0, <3>1, <3>3
  <2>2. CASE p # 0 /\ IsLeaf(m)
    <3>1. m.buf = TextOf(m)
      BY <2>2, LeafText
    <3>2. CountBy(g, m, p) = Newlines(Before(TextOf(m), p))
      BY <2>2, <3>1 DEF CountBy, Before
    <3> QED BY <2>0, <3>2
  <2>3. CASE p # 0 /\ ~IsLeaf(m)
    <3> DEFINE lt == TextOf(m.left)
               rt == TextOf(m.right)
               q == p - m.leftLen
    <3>1. /\ h # 0 /\ h - 1 \in Nat /\ m.left \in NodeOf[h - 1] /\ m.right \in NodeOf[h - 1]
          /\ lt \in Seq(Char) /\ rt \in Seq(Char) /\ TextOf(m) = lt \o rt
          /\ m.leftLen = Len(lt) /\ m.leftLen \in Nat
          /\ m.left.newlines = Newlines(lt)
      BY <2>3, PartsOf
    <3>2. \A x \in NodeOf[h - 1], j \in Nat : g[x][j] = Newlines(Before(TextOf(x), j))
      BY <3>1 DEF CountsAt
    <3>3. Len(lt) \in Nat /\ Len(rt) \in Nat /\ Len(lt \o rt) = Len(lt) + Len(rt)
      <4> HIDE DEF lt, rt
      <4> QED BY <3>1, ConcatAt, WholeSeq
    <3>4. CASE p <= m.leftLen
      <4>1. CountBy(g, m, p) = g[m.left][p]
        BY <2>3, <3>4 DEF CountBy
      <4>2. Before(lt \o rt, p) = Before(lt, p)
        <5> HIDE DEF lt, rt
        <5>1. Least(p, Len(lt \o rt)) = p /\ Least(p, Len(lt)) = p
          BY <3>1, <3>3, <3>4 DEF Least
        <5>2. SubSeq(lt \o rt, 1, p) = SubSeq(lt, 1, p)
          BY <3>1, <3>4, HeadOfConcat
        <5> QED BY <5>1, <5>2 DEF Before
      <4>3. CountBy(g, m, p) = Newlines(Before(TextOf(m), p))
        BY <3>1, <3>2, <4>1, <4>2
      <4> QED BY <2>0, <4>3
    <3>5. CASE ~(p <= m.leftLen)
      <4>1. CountBy(g, m, p) = m.left.newlines + g[m.right][q]
        BY <2>3, <3>5 DEF CountBy
      <4>2. q \in Nat /\ p = Len(lt) + q
        BY <3>1, <3>5
      <4> HIDE DEF q
      <4>3. Before(lt \o rt, p) = lt \o Before(rt, q)
        <5> HIDE DEF lt, rt
        <5>1. CASE q <= Len(rt)
          <6>1. Least(p, Len(lt \o rt)) = Len(lt) + q /\ Least(q, Len(rt)) = q
            BY <3>3, <4>2, <5>1 DEF Least
          <6>2. SubSeq(lt \o rt, 1, Len(lt) + q) = lt \o SubSeq(rt, 1, q)
            BY <3>1, <4>2, <5>1, TailOfConcat
          <6> QED BY <6>1, <6>2 DEF Before
        <5>2. CASE ~(q <= Len(rt))
          <6>1. p >= Len(lt \o rt) /\ q >= Len(rt) /\ p \in Nat
            BY <3>3, <4>2, <5>2
          <6>2. Before(lt \o rt, p) = lt \o rt /\ Before(rt, q) = rt
            <7>1. lt \o rt \in Seq(Char)
              BY <3>1, ConcatAt
            <7> QED BY <3>1, <4>2, <6>1, <7>1, Bounds DEF Before
          <6> QED BY <6>2
        <5> QED BY <5>1, <5>2
      <4>4. Newlines(lt \o Before(rt, q)) = Newlines(lt) + Newlines(Before(rt, q))
        <5> HIDE DEF lt, rt
        <5>1. Before(rt, q) \in Seq(Char)
          BY <3>1, <4>2, BeforeAfter
        <5> QED BY <3>1, <5>1, NewlinesOfConcat
      <4>5. g[m.right][q] = Newlines(Before(rt, q))
        BY <3>1, <3>2, <4>2
      <4>6. CountBy(g, m, p) = Newlines(Before(TextOf(m), p))
        BY <3>1, <4>1, <4>3, <4>4, <4>5
      <4> QED BY <2>0, <4>6
    <3> QED BY <3>4, <3>5
  <2> QED BY <2>1, <2>2, <2>3
<1>2. \A m \in NodeOf[h], p \in Nat : CountStep(h, g)[m][p] = CountBy(g, m, p)
  BY DEF CountStep
<1>3. CountStep(h, g) \in [NodeOf[h] -> [Nat -> Nat]]
  BY <1>1 DEF CountStep
<1> QED BY <1>1, <1>2, <1>3 DEF CountsAt

LEMMA CountDefined ==
    ASSUME NEW h \in Nat
    PROVE  countAt[h] \in CountsAt(h)
<1> DEFINE V == [k \in Nat |-> CountsAt(k)]
           base == CountStep(0, <<>>)
           step == [k \in Nat |-> [g \in V[k] |-> CountStep(k + 1, g)]]
           Rec(f) == [k \in Nat |-> CountStep(k, f[k - 1])]
<1>1. \A k \in Nat : V[k] = CountsAt(k) /\ \A g \in V[k] : step[k][g] = CountStep(k + 1, g)
  OBVIOUS
<1> HIDE DEF V, step
<1>2. base \in V[0]
  BY <1>1, CountStepKeeps
<1>3. \A k \in Nat : \A g \in V[k] : step[k][g] \in V[k + 1]
  <2> TAKE k \in Nat
  <2> TAKE g \in V[k]
  <2>1. k + 1 \in Nat /\ (k + 1) - 1 = k
    OBVIOUS
  <2> QED BY <1>1, <2>1, CountStepKeeps
<1> HIDE DEF base
<1>4. PICK f : IsRun(f, base, step) /\ \A k \in Nat : f[k] \in V[k]
  BY <1>2, <1>3, LayersExist
<1>5. ASSUME NEW k \in Nat PROVE f[k] = CountStep(k, f[k - 1])
  <2>1. CASE k = 0
    <3>1. f[k] = CountStep(0, <<>>)
      BY <1>4, <2>1 DEF IsRun, base
    <3>2. \A m \in NodeOf[0], p \in Nat : CountBy(<<>>, m, p) = CountBy(f[k - 1], m, p)
      <4> TAKE m \in NodeOf[0], p \in Nat
      <4>1. IsLeaf(m)
        BY NodesExist, LeafsAre
      <4> QED BY <4>1 DEF CountBy
    <3> QED BY <2>1, <3>1, <3>2 DEF CountStep
  <2>2. CASE k # 0
    <3>1. k - 1 \in Nat /\ (k - 1) + 1 = k
      BY <2>2
    <3> QED BY <1>1, <1>4, <3>1 DEF IsRun
  <2> QED BY <2>1, <2>2
<1>6. f = Rec(f)
  <2>1. f = [k \in Nat |-> f[k]]
    BY <1>4 DEF IsRun
  <2> QED BY <1>5, <2>1
<1>7. countAt = CHOOSE g : g = Rec(g)
  BY DEF countAt, CountStep
<1>8. countAt = Rec(countAt)
  <2> HIDE DEF Rec
  <2> QED BY <1>6, <1>7
<1>9. \A k \in Nat : countAt[k] = CountStep(k, countAt[k - 1])
  BY <1>8
<1> DEFINE T == {k \in Nat : countAt[k] \in CountsAt(k)}
<1>10. 0 \in T
  BY <1>9, CountStepKeeps
<1>11. ASSUME NEW k \in Nat, k \in T PROVE k + 1 \in T
  <2>1. k + 1 \in Nat /\ (k + 1) - 1 = k
    OBVIOUS
  <2> QED BY <1>9, <1>11, <2>1, CountStepKeeps
<1>12. h \in T
  <2> HIDE DEF T
  <2> QED BY <1>10, <1>11, NatSetInduction
<1> QED BY <1>12

LEMMA NewlinesBeforeRight ==
    ASSUME NEW n \in Node, NEW pos \in Nat, pos <= Len(TextOf(n))
    PROVE  NewlinesBefore(n, pos) = Cardinality(EndsIn(TextOf(n), pos))
<1>1. Height(n) \in Nat /\ n \in NodeOf[Height(n)]
  BY HeightFits
<1>2. countAt[Height(n)] \in CountsAt(Height(n))
  BY <1>1, CountDefined
<1>3. NewlinesBefore(n, pos) = Newlines(Before(TextOf(n), pos))
  BY <1>1, <1>2 DEF NewlinesBefore, CountsAt
<1>4. TextOf(n) \in Seq(Char)
  BY TextCounted
<1>5. Least(pos, Len(TextOf(n))) = pos
  BY <1>4, Bounds
<1> QED BY <1>3, <1>4, <1>5, EndsInIs DEF Before

\* p is one before newline k of t, counting from 0, or None when there is none.
NthIs(p, t, k) ==
    IF k < Newlines(t)
    THEN p + 1 \in 1 .. Len(t) /\ t[p + 1] = Newline
         /\ Newlines(SubSeq(t, 1, p + 1)) = k + 1
    ELSE p = None

NthStep(h, g) == [n \in NodeOf[h] |-> [k \in Nat |-> NthBy(g, n, k)]]

NthsAt(h) ==
    {g \in [NodeOf[h] -> [Nat -> Int]] :
        \A m \in NodeOf[h], k \in Nat : NthIs(g[m][k], TextOf(m), k)}

LEMMA NthInLeaf ==
    ASSUME NEW t \in Seq(Char), NEW k \in Nat
    PROVE  LET at == {i \in DOMAIN t :
                         t[i] = Newline /\ Newlines(SubSeq(t, 1, i)) = k + 1}
               p == IF at = {} THEN None ELSE (CHOOSE i \in at : TRUE) - 1
           IN  p \in Int /\ NthIs(p, t, k)
<1> DEFINE at == {i \in DOMAIN t : t[i] = Newline /\ Newlines(SubSeq(t, 1, i)) = k + 1}
           p == IF at = {} THEN None ELSE (CHOOSE i \in at : TRUE) - 1
<1>1. Len(t) \in Nat /\ Newlines(t) = Cardinality(EndsIn(t, Len(t))) /\ Newlines(t) \in Nat
      /\ DOMAIN t = 1 .. Len(t)
  BY WholeSeq, EndsInAll, NewlinesType
<1>2. ASSUME NEW i \in 1 .. Len(t)
      PROVE  Newlines(SubSeq(t, 1, i)) = Cardinality(EndsIn(t, i))
  BY <1>1, EndsInIs
<1>3. CASE k < Newlines(t)
  <2>1. PICK i \in 1 .. Len(t) : t[i] = Newline /\ Cardinality(EndsIn(t, i)) = k + 1
    BY <1>1, <1>3, NthExists
  <2>2. i \in at
    BY <1>1, <1>2, <2>1
  <2> DEFINE c == CHOOSE j \in at : TRUE
  <2>3. c \in at /\ p = c - 1
    BY <2>2
  <2> HIDE DEF c, p
  <2>4. c \in 1 .. Len(t) /\ t[c] = Newline /\ Newlines(SubSeq(t, 1, c)) = k + 1
    BY <1>1, <2>3
  <2>5. p \in Int /\ p + 1 = c
    BY <1>1, <2>3, <2>4
  <2>6. NthIs(p, t, k)
    <3> HIDE DEF at
    <3> QED BY <1>3, <2>4, <2>5 DEF NthIs
  <2> QED BY <2>5, <2>6 DEF p
<1>4. CASE ~(k < Newlines(t))
  <2>1. ASSUME NEW i \in at PROVE FALSE
    <3>1. i \in 1 .. Len(t) /\ Cardinality(EndsIn(t, i)) = k + 1
      BY <1>1, <1>2
    <3>2. Cardinality(EndsIn(t, i)) <= Cardinality(EndsIn(t, Len(t)))
      BY <1>1, <3>1, EndsGrow
    <3> QED BY <1>1, <1>4, <3>1, <3>2
  <2>2. p = None
    BY <2>1
  <2> HIDE DEF p, at
  <2>3. p \in Int /\ NthIs(p, t, k)
    BY <1>4, <2>2 DEF NthIs, None
  <2> QED BY <2>3 DEF p, at
<1> QED BY <1>3, <1>4

LEMMA NthStepKeeps ==
    ASSUME NEW h \in Nat, NEW g, h # 0 => g \in NthsAt(h - 1)
    PROVE  NthStep(h, g) \in NthsAt(h)
<1>1. ASSUME NEW m \in NodeOf[h], NEW k \in Nat
      PROVE  NthBy(g, m, k) \in Int /\ NthIs(NthBy(g, m, k), TextOf(m), k)
  <2>1. CASE IsLeaf(m)
    <3>1. m.buf \in Seq(Char) /\ TextOf(m) = m.buf
      BY <2>1, LeafText
    <3> QED BY <2>1, <3>1, NthInLeaf DEF NthBy
  <2>2. CASE ~IsLeaf(m)
    <3> DEFINE lt == TextOf(m.left)
               rt == TextOf(m.right)
               c == lt \o rt
               j == k - m.left.newlines
    <3>1. /\ h # 0 /\ h - 1 \in Nat /\ m.left \in NodeOf[h - 1] /\ m.right \in NodeOf[h - 1]
          /\ lt \in Seq(Char) /\ rt \in Seq(Char) /\ TextOf(m) = c
          /\ m.leftLen = Len(lt) /\ m.leftLen \in Nat
          /\ m.left.newlines = Newlines(lt) /\ m.left.newlines \in Nat
      BY <2>2, PartsOf
    <3>2. \A x \in NodeOf[h - 1], i \in Nat : g[x][i] \in Int /\ NthIs(g[x][i], TextOf(x), i)
      BY <3>1 DEF NthsAt
    <3>3. /\ Len(lt) \in Nat /\ Len(rt) \in Nat /\ Len(c) = Len(lt) + Len(rt)
          /\ Newlines(lt) \in Nat /\ Newlines(rt) \in Nat
          /\ Newlines(c) = Newlines(lt) + Newlines(rt)
      <4> HIDE DEF lt, rt
      <4>1. Len(lt) \in Nat /\ Len(rt) \in Nat /\ Len(c) = Len(lt) + Len(rt)
        BY <3>1, ConcatAt, WholeSeq
      <4>2. Newlines(lt) \in Nat /\ Newlines(rt) \in Nat
        BY <3>1, NewlinesType
      <4>3. Newlines(c) = Newlines(lt) + Newlines(rt)
        BY <3>1, NewlinesOfConcat
      <4> QED BY <4>1, <4>2, <4>3
    <3>4. CASE k < m.left.newlines
      <4> DEFINE p == g[m.left][k]
      <4>1. NthBy(g, m, k) = p
        BY <2>2, <3>4 DEF NthBy
      <4>2. p \in Int /\ NthIs(p, lt, k)
        BY <3>1, <3>2
      <4> HIDE DEF p, lt, rt, c
      <4>3. /\ p + 1 \in 1 .. Len(lt) /\ lt[p + 1] = Newline
            /\ Newlines(SubSeq(lt, 1, p + 1)) = k + 1
        BY <3>1, <3>4, <4>2 DEF NthIs
      <4>4. p + 1 \in Nat /\ p + 1 <= Len(lt) /\ p + 1 \in 1 .. Len(c)
        BY <3>3, <4>3
      <4>5. c[p + 1] = Newline
        BY <3>1, <4>3, ConcatAt DEF c
      <4>6. SubSeq(c, 1, p + 1) = SubSeq(lt, 1, p + 1)
        BY <3>1, <4>4, HeadOfConcat DEF c
      <4>7. k < Newlines(c)
        BY <3>1, <3>3, <3>4
      <4>8. NthIs(p, c, k)
        BY <4>3, <4>4, <4>5, <4>6, <4>7 DEF NthIs
      <4> QED BY <3>1, <4>1, <4>2, <4>8
    <3>5. CASE ~(k < m.left.newlines)
      <4> DEFINE p == g[m.right][j]
      <4>1. NthBy(g, m, k) = IF p = None THEN None ELSE m.leftLen + p
        BY <2>2, <3>5 DEF NthBy
      <4>2. j \in Nat /\ k = Newlines(lt) + j
        BY <3>1, <3>3, <3>5
      <4> HIDE DEF j
      <4>3. p \in Int /\ NthIs(p, rt, j)
        BY <3>1, <3>2, <4>2
      <4> HIDE DEF p, lt, rt, c
      <4>4. CASE j < Newlines(rt)
        <5>1. /\ p + 1 \in 1 .. Len(rt) /\ rt[p + 1] = Newline
              /\ Newlines(SubSeq(rt, 1, p + 1)) = j + 1
          BY <4>3, <4>4 DEF NthIs
        <5>2. /\ p + 1 \in Nat /\ p + 1 <= Len(rt) /\ p # None
              /\ (m.leftLen + p) + 1 = Len(lt) + (p + 1)
              /\ Len(lt) + (p + 1) \in 1 .. Len(c) /\ m.leftLen + p \in Int
          BY <3>1, <3>3, <4>3, <5>1 DEF None
        <5>3. NthBy(g, m, k) = m.leftLen + p
          BY <4>1, <5>2
        <5>4. c[Len(lt) + (p + 1)] = Newline
          <6>1. \A i \in 1 .. Len(rt) : (lt \o rt)[Len(lt) + i] = rt[i]
            <7>1. lt \in Seq(Char) /\ rt \in Seq(Char)
              BY <3>1
            <7> QED BY <7>1, ConcatAt
          <6> QED BY <5>1, <6>1 DEF c
        <5>5. SubSeq(c, 1, Len(lt) + (p + 1)) = lt \o SubSeq(rt, 1, p + 1)
          <6> DEFINE i == p + 1
          <6>1. i \in Nat /\ i <= Len(rt)
            BY <5>2
          <6> HIDE DEF i
          <6>2. SubSeq(lt \o rt, 1, Len(lt) + i) = lt \o SubSeq(rt, 1, i)
            BY <3>1, <6>1, TailOfConcat
          <6> QED BY <6>2 DEF c, i
        <5>6. Newlines(lt \o SubSeq(rt, 1, p + 1)) = Newlines(lt) + (j + 1)
          <6>1. SubSeq(rt, 1, p + 1) \in Seq(Char)
            <7>1. Least(p + 1, Len(rt)) = p + 1
              BY <3>1, <5>2, Bounds
            <7> QED BY <3>1, <5>2, <7>1, BeforeAfter DEF Before
          <6> QED BY <3>1, <5>1, <6>1, NewlinesOfConcat
        <5>7. k < Newlines(c) /\ Newlines(lt) + (j + 1) = k + 1
          BY <3>3, <4>2, <4>4
        <5>8. NthIs(m.leftLen + p, c, k)
          BY <5>2, <5>4, <5>5, <5>6, <5>7 DEF NthIs
        <5> QED BY <3>1, <5>2, <5>3, <5>8
      <4>5. CASE ~(j < Newlines(rt))
        <5>1. p = None /\ None \in Int
          BY <4>3, <4>5 DEF NthIs, None
        <5>2. ~(k < Newlines(c))
          BY <3>3, <4>2, <4>5
        <5>3. NthBy(g, m, k) = None
          BY <4>1, <5>1
        <5>4. NthIs(None, c, k)
          BY <5>2 DEF NthIs
        <5> QED BY <3>1, <5>1, <5>3, <5>4
      <4> QED BY <4>4, <4>5
    <3> QED BY <3>4, <3>5
  <2> QED BY <2>1, <2>2
<1>2. \A m \in NodeOf[h], k \in Nat : NthStep(h, g)[m][k] = NthBy(g, m, k)
  BY DEF NthStep
<1>3. NthStep(h, g) \in [NodeOf[h] -> [Nat -> Int]]
  BY <1>1 DEF NthStep
<1> QED BY <1>1, <1>2, <1>3 DEF NthsAt

LEMMA NthDefined ==
    ASSUME NEW h \in Nat
    PROVE  nthAt[h] \in NthsAt(h)
<1> DEFINE V == [k \in Nat |-> NthsAt(k)]
           base == NthStep(0, <<>>)
           step == [k \in Nat |-> [g \in V[k] |-> NthStep(k + 1, g)]]
           Rec(f) == [k \in Nat |-> NthStep(k, f[k - 1])]
<1>1. \A k \in Nat : V[k] = NthsAt(k) /\ \A g \in V[k] : step[k][g] = NthStep(k + 1, g)
  OBVIOUS
<1> HIDE DEF V, step
<1>2. base \in V[0]
  BY <1>1, NthStepKeeps
<1>3. \A k \in Nat : \A g \in V[k] : step[k][g] \in V[k + 1]
  <2> TAKE k \in Nat
  <2> TAKE g \in V[k]
  <2>1. k + 1 \in Nat /\ (k + 1) - 1 = k
    OBVIOUS
  <2> QED BY <1>1, <2>1, NthStepKeeps
<1> HIDE DEF base
<1>4. PICK f : IsRun(f, base, step) /\ \A k \in Nat : f[k] \in V[k]
  BY <1>2, <1>3, LayersExist
<1>5. ASSUME NEW k \in Nat PROVE f[k] = NthStep(k, f[k - 1])
  <2>1. CASE k = 0
    <3>1. f[k] = NthStep(0, <<>>)
      BY <1>4, <2>1 DEF IsRun, base
    <3>2. \A m \in NodeOf[0], j \in Nat : NthBy(<<>>, m, j) = NthBy(f[k - 1], m, j)
      <4> TAKE m \in NodeOf[0], j \in Nat
      <4>1. IsLeaf(m)
        BY NodesExist, LeafsAre
      <4> QED BY <4>1 DEF NthBy
    <3> QED BY <2>1, <3>1, <3>2 DEF NthStep
  <2>2. CASE k # 0
    <3>1. k - 1 \in Nat /\ (k - 1) + 1 = k
      BY <2>2
    <3> QED BY <1>1, <1>4, <3>1 DEF IsRun
  <2> QED BY <2>1, <2>2
<1>6. f = Rec(f)
  <2>1. f = [k \in Nat |-> f[k]]
    BY <1>4 DEF IsRun
  <2> QED BY <1>5, <2>1
<1>7. nthAt = CHOOSE g : g = Rec(g)
  BY DEF nthAt, NthStep
<1>8. nthAt = Rec(nthAt)
  <2> HIDE DEF Rec
  <2> QED BY <1>6, <1>7
<1>9. \A k \in Nat : nthAt[k] = NthStep(k, nthAt[k - 1])
  BY <1>8
<1> DEFINE T == {k \in Nat : nthAt[k] \in NthsAt(k)}
<1>10. 0 \in T
  BY <1>9, NthStepKeeps
<1>11. ASSUME NEW k \in Nat, k \in T PROVE k + 1 \in T
  <2>1. k + 1 \in Nat /\ (k + 1) - 1 = k
    OBVIOUS
  <2> QED BY <1>9, <1>11, <2>1, NthStepKeeps
<1>12. h \in T
  <2> HIDE DEF T
  <2> QED BY <1>10, <1>11, NatSetInduction
<1> QED BY <1>12

LEMMA NthNewlineRight ==
    ASSUME NEW n \in Node, NEW k \in Nat, k < Newlines(TextOf(n))
    PROVE  LET i == NthNewline(n, k) + 1
           IN  /\ NthNewline(n, k) \in Int /\ i \in 1 .. Len(TextOf(n))
               /\ TextOf(n)[i] = Newline
               /\ Cardinality(EndsIn(TextOf(n), i)) = k + 1
<1> DEFINE p == NthNewline(n, k)
           t == TextOf(n)
<1>1. Height(n) \in Nat /\ n \in NodeOf[Height(n)]
  BY HeightFits
<1>2. nthAt[Height(n)] \in NthsAt(Height(n))
  BY <1>1, NthDefined
<1>3. p \in Int /\ NthIs(p, t, k)
  BY <1>1, <1>2 DEF NthNewline, NthsAt
<1>4. t \in Seq(Char) /\ Len(t) \in Nat
  BY TextCounted, WholeSeq
<1> HIDE DEF p, t
<1>5. /\ p + 1 \in 1 .. Len(t) /\ t[p + 1] = Newline
      /\ Newlines(SubSeq(t, 1, p + 1)) = k + 1
  BY <1>3 DEF NthIs, t
<1>6. Newlines(SubSeq(t, 1, p + 1)) = Cardinality(EndsIn(t, p + 1))
  <2>1. p + 1 \in Nat /\ p + 1 <= Len(t)
    BY <1>4, <1>5
  <2> QED BY <1>4, <2>1, EndsInIs
<1> QED BY <1>3, <1>5, <1>6 DEF p, t

-----------------------------------------------------------------------------
(* Lines and columns.                                                      *)

\* i is where line c of t starts: the place after its c-th newline, or 0.
StartOf(t, i, c) ==
    /\ i \in 0 .. Len(t) /\ Cardinality(EndsIn(t, i)) = c
    /\ i # 0 => t[i] = Newline

LEMMA FirstLine ==
    ASSUME NEW S, NEW t \in Seq(S)
    PROVE  StartOf(t, 0, 0)
<1>1. EndsIn(t, 0) = {} /\ Len(t) \in Nat
  BY WholeSeq DEF EndsIn
<1>2. Cardinality(EndsIn(t, 0)) = 0
  BY <1>1, FS_EmptySet
<1> QED BY <1>1, <1>2 DEF StartOf

\* The last newline before a place on a line is the one the line starts after.
LEMMA LastEnd ==
    ASSUME NEW S, NEW t \in Seq(S), NEW pos \in Nat, NEW i, NEW c,
           StartOf(t, i, c), i <= pos, Cardinality(EndsIn(t, pos)) = c
    PROVE  Max(EndsIn(t, pos) \cup {0}) = i
<1> DEFINE Ends0 == EndsIn(t, pos) \cup {0}
           m == CHOOSE x \in Ends0 : \A y \in Ends0 : x >= y
<1>1. i \in Nat /\ i \in 0 .. Len(t) /\ Cardinality(EndsIn(t, i)) = c /\ (i # 0 => t[i] = Newline)
  BY DEF StartOf
<1>2. Ends0 \subseteq Nat /\ i \in Ends0
  BY <1>1 DEF EndsIn
<1>3. ASSUME NEW y \in Ends0 PROVE i >= y
  <2>1. CASE y = 0
    BY <1>1, <2>1
  <2>2. CASE y \in EndsIn(t, pos)
    <3>1. \A x \in 1 .. pos : t[x] = Newline => x <= i
      BY <1>1, EndsGrow
    <3>2. y \in 1 .. pos /\ t[y] = Newline
      BY <2>2 DEF EndsIn
    <3> QED BY <1>1, <3>1, <3>2
  <2> QED BY <2>1, <2>2
<1> HIDE DEF Ends0
<1>4. m \in Ends0 /\ \A y \in Ends0 : m >= y
  BY <1>2, <1>3
<1>5. Max(Ends0) = m
  BY DEF Max
<1> HIDE DEF m
<1>6. m >= i /\ i >= m /\ m \in Nat
  BY <1>2, <1>3, <1>4
<1>7. m = i
  BY <1>1, <1>6
<1> QED BY <1>5, <1>7 DEF Ends0

LEMMA LineStartRight ==
    ASSUME NEW n \in Node, NEW line \in Nat, line <= Newlines(TextOf(n))
    PROVE  StartOf(TextOf(n), LineStart(n, line), line)
<1> DEFINE t == TextOf(n)
<1>1. t \in Seq(Char) /\ n.newlines = Newlines(t) /\ Newlines(t) \in Nat
  BY TextCounted, NewlinesType
<1>2. CASE line = 0
  <2>1. LineStart(n, line) = 0
    <3>1. ~(line > n.newlines) /\ ~(line \in 1 .. n.newlines)
      BY <1>1, <1>2
    <3> QED BY <1>2, <3>1 DEF LineStart
  <2> HIDE DEF t
  <2>2. StartOf(t, 0, 0)
    BY <1>1, FirstLine
  <2> QED BY <1>2, <2>1, <2>2 DEF t
<1>3. CASE line # 0
  <2> DEFINE k == line - 1
             i == NthNewline(n, k) + 1
  <2>1. k \in Nat /\ k < Newlines(t) /\ k + 1 = line
    BY <1>1, <1>3
  <2>2. LineStart(n, line) = i
    <3>1. ~(line > n.newlines) /\ line \in 1 .. n.newlines
      BY <1>1, <1>3
    <3> QED BY <1>3, <3>1 DEF LineStart
  <2> HIDE DEF k
  <2>3. /\ NthNewline(n, k) \in Int /\ i \in 1 .. Len(t) /\ t[i] = Newline
        /\ Cardinality(EndsIn(t, i)) = k + 1
    BY <2>1, NthNewlineRight
  <2> HIDE DEF i, t
  <2>4. i \in 0 .. Len(t)
    BY <1>1, <2>3, WholeSeq
  <2>5. StartOf(t, i, line)
    BY <2>1, <2>3, <2>4 DEF StartOf
  <2> QED BY <2>2, <2>5 DEF t
<1> QED BY <1>2, <1>3

\* A line ends at the end of the text or before a newline.
LEMMA LineEndRight ==
    ASSUME NEW n \in Node, NEW line \in Nat, line <= Newlines(TextOf(n))
    PROVE  LET t == TextOf(n)
               e == LineEnd(n, line)
           IN  /\ e \in 0 .. Len(t) /\ LineStart(n, line) <= e
               /\ Cardinality(EndsIn(t, e)) = line
               /\ e = Len(t) \/ t[e + 1] = Newline
<1> DEFINE t == TextOf(n)
           e == LineEnd(n, line)
           start == LineStart(n, line)
<1>1. /\ t \in Seq(Char) /\ n.newlines = Newlines(t) /\ Newlines(t) \in Nat
      /\ TextLen(n) = Len(t) /\ Len(t) \in Nat
  BY TextCounted, NewlinesType, WholeSeq
<1>2. StartOf(t, start, line)
  BY LineStartRight
<1>3. start \in 0 .. Len(t) /\ start \in Nat /\ Cardinality(EndsIn(t, start)) = line
  BY <1>1, <1>2 DEF StartOf
<1>4. CASE line < Newlines(t)
  <2>1. e = NthNewline(n, line)
    BY <1>1, <1>4 DEF LineEnd
  <2>2. /\ e \in Int /\ e + 1 \in 1 .. Len(t) /\ t[e + 1] = Newline
        /\ Cardinality(EndsIn(t, e + 1)) = line + 1
    BY <1>4, <2>1, NthNewlineRight
  <2> HIDE DEF e, start, t
  <2>3. e \in Nat /\ e \in 0 .. Len(t) /\ e + 1 \in Nat
    BY <1>1, <2>2
  <2>4. Cardinality(EndsIn(t, e)) = line
    <3>1. EndsIn(t, e + 1) = EndsIn(t, e) \cup {e + 1} /\ ~(e + 1 \in EndsIn(t, e))
      BY <2>2, <2>3 DEF EndsIn
    <3>2. IsFiniteSet(EndsIn(t, e)) /\ Cardinality(EndsIn(t, e)) \in Nat
      BY <2>3, EndsInType
    <3>3. Cardinality(EndsIn(t, e + 1)) = Cardinality(EndsIn(t, e)) + 1
      BY <3>1, <3>2, FS_AddElement
    <3> QED BY <2>2, <3>2, <3>3
  <2>5. start <= e
    <3> SUFFICES ASSUME e + 1 <= start PROVE FALSE
      BY <1>3, <2>3
    <3>1. Cardinality(EndsIn(t, e + 1)) <= Cardinality(EndsIn(t, start))
      BY <1>3, <2>3, EndsGrow
    <3> QED BY <1>3, <2>2, <3>1
  <2> QED BY <2>2, <2>3, <2>4, <2>5 DEF t, e, start
<1>5. CASE ~(line < Newlines(t))
  <2>1. e = Len(t)
    BY <1>1, <1>5 DEF LineEnd
  <2>2. line = Newlines(t)
    BY <1>1, <1>5
  <2> HIDE DEF e, start, t
  <2>3. Cardinality(EndsIn(t, e)) = line
    BY <1>1, <2>1, <2>2, EndsInAll
  <2> QED BY <1>1, <1>3, <2>1, <2>3 DEF t, e, start
<1> QED BY <1>4, <1>5

LEMMA OffsetRight ==
    ASSUME NEW n \in Node, NEW offset \in Nat
    PROVE  LET t == TextOf(n)
               pos == Least(offset, Len(t))
           IN  OffsetToLineCol(n, offset)
                 = <<Cardinality(EndsIn(t, pos)), pos - Max(EndsIn(t, pos) \cup {0})>>
<1> DEFINE t == TextOf(n)
           pos == Least(offset, Len(t))
           nl == Cardinality(EndsIn(t, pos))
           i == IF nl = 0 THEN 0 ELSE NthNewline(n, nl - 1) + 1
<1>1. t \in Seq(Char) /\ TextLen(n) = Len(t) /\ Len(t) \in Nat
  BY TextCounted, WholeSeq
<1>2. pos \in Nat /\ pos <= Len(t)
  BY <1>1 DEF Least
<1>3. OffsetToLineCol(n, offset) = <<nl, pos - i>>
  <2>1. pos = Least(offset, TextLen(n))
    BY <1>1
  <2> HIDE DEF pos
  <2>2. NewlinesBefore(n, pos) = nl
    BY <1>2, NewlinesBeforeRight
  <2> HIDE DEF nl
  <2> QED BY <2>1, <2>2 DEF OffsetToLineCol
<1> HIDE DEF pos
<1>4. nl \in Nat
  BY <1>2, EndsInType
<1>5. StartOf(t, i, nl) /\ i <= pos
  <2>1. CASE nl = 0
    <3>1. i = 0
      BY <2>1
    <3> HIDE DEF i, nl
    <3>2. StartOf(t, 0, 0)
      <4> HIDE DEF t
      <4> QED BY <1>1, FirstLine
    <3> QED BY <1>2, <2>1, <3>1, <3>2
  <2>2. CASE nl # 0
    <3>1. nl - 1 \in Nat /\ (nl - 1) + 1 = nl /\ i = NthNewline(n, nl - 1) + 1
      BY <1>4, <2>2
    <3>2. nl - 1 < Newlines(t)
      <4> HIDE DEF t
      <4>1. nl <= Cardinality(EndsIn(t, Len(t)))
        BY <1>1, <1>2, EndsGrow
      <4>2. Cardinality(EndsIn(t, Len(t))) = Newlines(t) /\ Newlines(t) \in Nat
        BY <1>1, EndsInAll, NewlinesType
      <4> QED BY <1>4, <4>1, <4>2
    <3> HIDE DEF i, nl
    <3>3. i \in 1 .. Len(t) /\ t[i] = Newline /\ Cardinality(EndsIn(t, i)) = nl
      BY <3>1, <3>2, NthNewlineRight
    <3> HIDE DEF t
    <3>4. i \in 0 .. Len(t) /\ i \in Nat
      BY <1>1, <3>3
    <3>5. StartOf(t, i, nl)
      BY <3>3, <3>4 DEF StartOf
    <3>6. i <= pos
      <4> SUFFICES ASSUME pos <= i PROVE i <= pos
        BY <1>2, <3>4
      <4>1. \A x \in 1 .. i : t[x] = Newline => x <= pos
        BY <1>2, <3>3, <3>4, EndsGrow DEF nl
      <4> QED BY <1>1, <3>3, <4>1
    <3> QED BY <3>5, <3>6
  <2> QED BY <2>1, <2>2
<1> HIDE DEF i, t
<1>6. Max(EndsIn(t, pos) \cup {0}) = i
  BY <1>1, <1>2, <1>5, LastEnd DEF nl
<1> QED BY <1>3, <1>6 DEF t, pos, nl

LEMMA LineColRight ==
    ASSUME NEW n \in Node, NEW line \in Nat, NEW col \in Nat
    PROVE  LET t  == TextOf(n)
               at == LineColToOffset(n, line, col)
           IN  IF line > Newlines(t) THEN at = Len(t)
               ELSE /\ at \in 0 .. Len(t)
                    /\ Cardinality(EndsIn(t, at)) = line
                    /\ at - Max(EndsIn(t, at) \cup {0}) <= col
                    /\ at - Max(EndsIn(t, at) \cup {0}) < col
                         => at = Len(t) \/ t[at + 1] = Newline
<1> DEFINE t == TextOf(n)
           at == LineColToOffset(n, line, col)
           start == LineStart(n, line)
           e == LineEnd(n, line)
<1>1. /\ t \in Seq(Char) /\ n.newlines = Newlines(t) /\ Newlines(t) \in Nat
      /\ TextLen(n) = Len(t) /\ Len(t) \in Nat
  BY TextCounted, NewlinesType, WholeSeq
<1>2. CASE line > Newlines(t)
  BY <1>1, <1>2 DEF LineColToOffset
<1>3. CASE ~(line > Newlines(t))
  <2>1. line <= Newlines(t)
    BY <1>1, <1>3
  <2>2. StartOf(t, start, line)
    BY <2>1, LineStartRight
  <2>3. start \in 0 .. Len(t) /\ Cardinality(EndsIn(t, start)) = line
    BY <2>2 DEF StartOf
  <2>4. /\ e \in 0 .. Len(t) /\ start <= e /\ Cardinality(EndsIn(t, e)) = line
        /\ e = Len(t) \/ t[e + 1] = Newline
    BY <2>1, LineEndRight
  <2>5. at = start + Least(col, e - start)
    BY <1>1, <1>3 DEF LineColToOffset
  <2> HIDE DEF at, start, e
  <2>6. /\ at \in Nat /\ start \in Nat /\ e \in Nat /\ start <= at /\ at <= e
        /\ at - start <= col /\ (at - start < col => at = e) /\ at \in 0 .. Len(t)
    <3> HIDE DEF t
    <3> QED BY <1>1, <2>3, <2>4, <2>5 DEF Least
  <2>7. Cardinality(EndsIn(t, at)) = line
    <3>1. Cardinality(EndsIn(t, start)) <= Cardinality(EndsIn(t, at))
      BY <2>6, EndsGrow
    <3>2. Cardinality(EndsIn(t, at)) <= Cardinality(EndsIn(t, e))
      BY <2>6, EndsGrow
    <3>3. Cardinality(EndsIn(t, at)) \in Nat
      BY <2>6, EndsInType
    <3> QED BY <2>3, <2>4, <3>1, <3>2, <3>3
  <2>8. Max(EndsIn(t, at) \cup {0}) = start
    <3> HIDE DEF t
    <3> QED BY <1>1, <2>2, <2>6, <2>7, LastEnd
  <2>9. at - start < col => at = Len(t) \/ t[at + 1] = Newline
    BY <2>4, <2>6
  <2> QED BY <1>3, <2>6, <2>7, <2>8, <2>9 DEF t, at
<1> QED BY <1>2, <1>3

-----------------------------------------------------------------------------

LEMMA LookupsFollow == IInv => LookupsRight
<1> SUFFICES ASSUME IInv PROVE LookupsRight
  OBVIOUS
<1>1. /\ root \in Node /\ text \in Seq(Char) /\ TextOf(root) = text
      /\ Len(text) \in Nat /\ Place \subseteq Nat
  <2>1. text \in Seq(Char)
    BY DEF IInv
  <2>2. Len(text) \in Nat
    BY <2>1, WholeSeq
  <2> QED BY <2>1, <2>2 DEF IInv, Holds, Place
<1>2. ASSUME NEW pos \in 0 .. Len(text) - 1 PROVE CharAt(root, pos) = text[pos + 1]
  <2>1. pos \in Nat /\ pos < Len(text)
    BY <1>1
  <2> QED BY <1>1, <2>1, CharAtRight
<1>3. ASSUME NEW start \in Place, NEW end \in Place
      PROVE  Slice(root, start, end) = SubSeq(text, start + 1, Least(end, Len(text)))
  BY <1>1, SliceRight
<1>4. \A pos : LineCol(pos)
                 = <<Cardinality(EndsIn(text, pos)), pos - Max(EndsIn(text, pos) \cup {0})>>
  BY DEF LineCol, EndsIn
<1>5. ASSUME NEW pos \in Place
      PROVE  OffsetToLineCol(root, pos) = LineCol(Least(pos, Len(text)))
  BY <1>1, <1>4, OffsetRight
<1>6. ASSUME NEW line \in Place, NEW col \in Place
      PROVE  LET at == LineColToOffset(root, line, col)
                 lc == LineCol(at)
             IN  IF line > Newlines(text) THEN at = Len(text)
                 ELSE /\ lc[1] = line /\ lc[2] <= col
                      /\ lc[2] < col => at = Len(text) \/ text[at + 1] = Newline
  <2> DEFINE at == LineColToOffset(root, line, col)
             m == Max(EndsIn(text, at) \cup {0})
  <2>1. IF line > Newlines(text) THEN at = Len(text)
        ELSE /\ Cardinality(EndsIn(text, at)) = line
             /\ at - m <= col
             /\ at - m < col => at = Len(text) \/ text[at + 1] = Newline
    BY <1>1, LineColRight
  <2>2. LineCol(at)[1] = Cardinality(EndsIn(text, at)) /\ LineCol(at)[2] = at - m
    BY <1>4
  <2> HIDE DEF at, m
  <2>3. IF line > Newlines(text) THEN at = Len(text)
        ELSE /\ LineCol(at)[1] = line /\ LineCol(at)[2] <= col
             /\ LineCol(at)[2] < col => at = Len(text) \/ text[at + 1] = Newline
    BY <2>1, <2>2
  <2> QED BY <2>3 DEF at
<1> QED BY <1>2, <1>3, <1>5, <1>6 DEF LookupsRight

\* After any edits, characters, slices, lines and columns are found where the text has
\* them, by the lengths and newline counts the branches cache, and a column past the
\* end of its line means the end (rope_buffer.rs:227, 277-361, 459-503, 698-760).
THEOREM LookupsAlwaysRight == Spec => []LookupsRight
BY LookupsFollow, AlwaysIInv, PTL

-----------------------------------------------------------------------------
(* The nodes of a tree, and its shape.                                     *)

LEMMA PartsDefined ==
    ASSUME NEW h \in Nat
    PROVE  /\ partsAt[h] \in [NodeOf[h] -> SUBSET Node]
           /\ \A n \in NodeOf[h] : partsAt[h][n] = PartsBy(partsAt[h - 1], n)
<1> DEFINE V == [k \in Nat |-> [NodeOf[k] -> SUBSET Node]]
           base == [n \in NodeOf[0] |-> PartsBy(<<>>, n)]
           step == [k \in Nat |-> [g \in V[k] |-> [n \in NodeOf[k + 1] |-> PartsBy(g, n)]]]
           Rec(f) == [k \in Nat |-> [n \in NodeOf[k] |-> PartsBy(f[k - 1], n)]]
<1>1. \A n \in NodeOf[0] : IsLeaf(n) /\ n \in Node
  BY NodesExist, LeafsAre DEF Node
<1>2. base \in V[0]
  BY <1>1 DEF PartsBy
<1>3. ASSUME NEW k \in Nat, NEW g \in V[k]
      PROVE  step[k][g] = [n \in NodeOf[k + 1] |-> PartsBy(g, n)] /\ step[k][g] \in V[k + 1]
  <2>1. ASSUME NEW n \in NodeOf[k + 1] PROVE PartsBy(g, n) \in SUBSET Node
    <3>0. n \in Node
      BY NodeCases
    <3>1. CASE IsLeaf(n)
      BY <3>0, <3>1 DEF PartsBy
    <3>2. CASE ~IsLeaf(n)
      <4>1. n \in BranchesOver(NodeOf[(k + 1) - 1]) /\ (k + 1) - 1 = k
        BY <3>2, NodeCases
      <4>2. n.left \in NodeOf[k] /\ n.right \in NodeOf[k]
        BY <4>1, BranchesAre
      <4> QED BY <3>0, <3>2, <4>2 DEF PartsBy
    <3> QED BY <3>1, <3>2
  <2>2. step[k][g] = [n \in NodeOf[k + 1] |-> PartsBy(g, n)]
    OBVIOUS
  <2> QED BY <2>1, <2>2
<1>4. PICK f : IsRun(f, base, step) /\ \A k \in Nat : f[k] \in V[k]
  <2> HIDE DEF base, step, V
  <2> QED BY <1>2, <1>3, LayersExist
<1>5. ASSUME NEW k \in Nat PROVE f[k] = [n \in NodeOf[k] |-> PartsBy(f[k - 1], n)]
  <2>1. CASE k = 0
    <3>1. f[k] = base
      BY <1>4, <2>1 DEF IsRun
    <3>2. \A n \in NodeOf[k] : PartsBy(<<>>, n) = PartsBy(f[k - 1], n)
      BY <1>1, <2>1 DEF PartsBy
    <3> QED BY <2>1, <3>1, <3>2
  <2>2. CASE k # 0
    <3>1. k - 1 \in Nat /\ (k - 1) + 1 = k
      BY <2>2
    <3>2. f[k] = step[k - 1][f[k - 1]] /\ f[k - 1] \in V[k - 1]
      BY <1>4, <3>1 DEF IsRun
    <3> HIDE DEF step, V
    <3> QED BY <1>3, <3>1, <3>2
  <2> QED BY <2>1, <2>2
<1>6. f = Rec(f)
  <2>1. f = [k \in Nat |-> f[k]]
    BY <1>4 DEF IsRun
  <2> QED BY <1>5, <2>1
<1>7. partsAt = CHOOSE g : g = Rec(g)
  BY DEF partsAt
<1>8. partsAt = Rec(partsAt)
  <2> HIDE DEF Rec
  <2> QED BY <1>6, <1>7
<1> DEFINE T == {k \in Nat : partsAt[k] \in V[k]}
<1>9. \A k \in Nat : partsAt[k] = [n \in NodeOf[k] |-> PartsBy(partsAt[k - 1], n)]
  BY <1>8
<1>10. 0 \in T
  <2>1. partsAt[0] = [n \in NodeOf[0] |-> PartsBy(partsAt[0 - 1], n)]
    BY <1>9
  <2>2. \A n \in NodeOf[0] : PartsBy(partsAt[0 - 1], n) = {n} /\ {n} \in SUBSET Node
    BY <1>1 DEF PartsBy
  <2> HIDE DEF step
  <2> QED BY <2>1, <2>2
<1>11. ASSUME NEW k \in Nat, k \in T PROVE k + 1 \in T
  <2>1. (k + 1) - 1 = k /\ k + 1 \in Nat
    OBVIOUS
  <2>2. partsAt[k + 1] = [n \in NodeOf[k + 1] |-> PartsBy(partsAt[k], n)]
    BY <1>9, <2>1
  <2>3. partsAt[k] \in V[k]
    BY <1>11
  <2> HIDE DEF step, V
  <2> QED BY <1>3, <2>1, <2>2, <2>3
<1>12. h \in T
  <2> HIDE DEF T
  <2> QED BY <1>10, <1>11, NatSetInduction
<1> QED BY <1>9, <1>12

LEMMA PartsAtAnyHeight ==
    ASSUME NEW h \in Nat, NEW n \in NodeOf[h]
    PROVE  partsAt[h][n] = Parts(n)
<1> DEFINE T == {m \in Node : \A k \in Nat : m \in NodeOf[k] => partsAt[k][m] = Parts(m)}
<1>1. Leafs \subseteq T
  <2> SUFFICES ASSUME NEW m \in Leafs PROVE m \in T
    OBVIOUS
  <2>1. m.buf \in Seq(Char) /\ m = Leaf(m.buf) /\ IsLeaf(m)
    BY LeafsAre
  <2>2. m \in Node /\ Height(m) = 0 /\ m \in NodeOf[0]
    BY <2>1, LeafIs, LeafIn
  <2>3. \A k \in Nat : m \in NodeOf[k] => partsAt[k][m] = {m}
    BY <2>1, PartsDefined DEF PartsBy
  <2>4. Parts(m) = {m}
    BY <2>2, <2>3 DEF Parts
  <2> QED BY <2>2, <2>3, <2>4
<1>2. ASSUME NEW l \in Node, NEW r \in Node, l \in T, r \in T PROVE Branch(l, r) \in T
  <2> DEFINE m == Branch(l, r)
  <2>1. m \in Node /\ ~IsLeaf(m) /\ m.left = l /\ m.right = r
    BY BranchIn
  <2> HIDE DEF m
  <2>2. ASSUME NEW k \in Nat, m \in NodeOf[k]
        PROVE  partsAt[k][m] = {m} \cup Parts(l) \cup Parts(r)
    <3>1. k - 1 \in Nat /\ m \in BranchesOver(NodeOf[k - 1])
      BY <2>1, <2>2, NodeCases
    <3>2. l \in NodeOf[k - 1] /\ r \in NodeOf[k - 1]
      BY <2>1, <3>1, BranchesAre
    <3>3. partsAt[k - 1][l] = Parts(l) /\ partsAt[k - 1][r] = Parts(r)
      BY <1>2, <3>1, <3>2
    <3>4. partsAt[k][m] = PartsBy(partsAt[k - 1], m)
      BY <2>2, PartsDefined
    <3> QED BY <2>1, <3>3, <3>4 DEF PartsBy
  <2>3. Height(m) \in Nat /\ m \in NodeOf[Height(m)]
    BY <2>1, HeightFits
  <2>4. Parts(m) = {m} \cup Parts(l) \cup Parts(r)
    BY <2>2, <2>3 DEF Parts
  <2>5. m \in T
    BY <2>1, <2>2, <2>4
  <2> QED BY <2>5 DEF m
<1>3. Node \subseteq T
  <2> HIDE DEF T
  <2> QED BY <1>1, <1>2, TreeInduction
<1>4. n \in Node
  BY DEF Node
<1> QED BY <1>3, <1>4

LEMMA PartsOfLeaf ==
    ASSUME NEW s \in Seq(Char)
    PROVE  Parts(Leaf(s)) = {Leaf(s)}
<1>1. Leaf(s) \in NodeOf[0] /\ IsLeaf(Leaf(s))
  BY LeafIs, LeafIn
<1>2. partsAt[0][Leaf(s)] = {Leaf(s)}
  BY <1>1, PartsDefined DEF PartsBy
<1> QED BY <1>1, <1>2, PartsAtAnyHeight

LEMMA PartsOfBranch ==
    ASSUME NEW l \in Node, NEW r \in Node
    PROVE  Parts(Branch(l, r)) = {Branch(l, r)} \cup Parts(l) \cup Parts(r)
<1> DEFINE n == Branch(l, r)
<1>1. n \in Node /\ ~IsLeaf(n) /\ n.left = l /\ n.right = r
  BY BranchIn
<1> HIDE DEF n
<1>2. PICK h \in Nat : n \in NodeOf[h]
  BY <1>1 DEF Node
<1>3. h - 1 \in Nat /\ n \in BranchesOver(NodeOf[h - 1])
  BY <1>1, <1>2, NodeCases
<1>4. l \in NodeOf[h - 1] /\ r \in NodeOf[h - 1]
  BY <1>1, <1>3, BranchesAre
<1>5. partsAt[h][n] = {n} \cup partsAt[h - 1][l] \cup partsAt[h - 1][r]
  BY <1>1, <1>2, PartsDefined DEF PartsBy
<1>6. partsAt[h][n] = Parts(n) /\ partsAt[h - 1][l] = Parts(l) /\ partsAt[h - 1][r] = Parts(r)
  BY <1>2, <1>3, <1>4, PartsAtAnyHeight
<1> QED BY <1>5, <1>6 DEF n

\* n holds some text, its leaves are within their limit, nothing in it is empty, and
\* it is balanced if e.
Shaped(n, e) == n \in Node /\ TextLen(n) > 0 /\ Filled(n) /\ (e => Even(n))

\* The heights of two subtrees side by side.
Level(l, r) == Height(l) - Height(r) \in -1 .. 1

LEMMA ShapeOfLeaf ==
    ASSUME NEW s \in Seq(Char)
    PROVE  /\ Filled(Leaf(s)) <=> Len(s) <= LeafMax
           /\ Even(Leaf(s))
<1>1. IsLeaf(Leaf(s)) /\ Leaf(s).buf = s
  BY LeafIs
<1>2. Parts(Leaf(s)) = {Leaf(s)}
  BY PartsOfLeaf
<1>3. BalanceFactor(Leaf(s)) \in -1 .. 1
  BY <1>1 DEF BalanceFactor
<1> HIDE DEF Leaf
<1> QED BY <1>1, <1>2, <1>3 DEF Filled, Even

LEMMA ShapeOfBranch ==
    ASSUME NEW l \in Node, NEW r \in Node
    PROVE  /\ Filled(Branch(l, r)) <=> /\ Filled(l) /\ Filled(r)
                                       /\ TextLen(l) > 0 /\ TextLen(r) > 0
           /\ Even(Branch(l, r)) <=> Even(l) /\ Even(r) /\ Level(l, r)
<1> DEFINE n == Branch(l, r)
<1>1. n \in Node /\ ~IsLeaf(n) /\ n.left = l /\ n.right = r
  BY BranchIn
<1>2. Parts(n) = {n} \cup Parts(l) \cup Parts(r)
  BY PartsOfBranch
<1> HIDE DEF n
<1>3. BalanceFactor(n) = Height(l) - Height(r)
  BY <1>1 DEF BalanceFactor
<1>4. Even(n) <=> Even(l) /\ Even(r) /\ Level(l, r)
  BY <1>2, <1>3 DEF Even, Level
<1>5. Filled(n) <=> Filled(l) /\ Filled(r) /\ TextLen(l) > 0 /\ TextLen(r) > 0
  BY <1>1, <1>2 DEF Filled
<1> QED BY <1>4, <1>5 DEF n

LEMMA ShapedBranch ==
    ASSUME NEW e \in BOOLEAN, NEW l \in Node, NEW r \in Node
    PROVE  Shaped(Branch(l, r), e) <=> Shaped(l, e) /\ Shaped(r, e) /\ (e => Level(l, r))
<1>1. /\ Branch(l, r) \in Node /\ TextLen(Branch(l, r)) = TextLen(l) + TextLen(r)
      /\ TextLen(l) \in Nat /\ TextLen(r) \in Nat
  BY BranchIn, NodeOut DEF Counted
<1>2. TextLen(l) > 0 /\ TextLen(r) > 0 => TextLen(Branch(l, r)) > 0
  BY <1>1
<1> QED BY <1>1, <1>2, ShapeOfBranch DEF Shaped

-----------------------------------------------------------------------------
(* Rebalancing.                                                            *)

LEMMA FullBranch ==
    ASSUME NEW l \in Node, NEW r \in Node, Shaped(l, FALSE), Shaped(r, FALSE)
    PROVE  Branch(l, r) \in Node /\ Shaped(Branch(l, r), FALSE)
BY BranchIn, ShapedBranch

LEMMA RotateRightFills ==
    ASSUME NEW n \in Node, ~IsLeaf(n), Shaped(n, FALSE)
    PROVE  Shaped(RotateRight(n), FALSE)
<1>1. n.left \in Node /\ n.right \in Node /\ n = Branch(n.left, n.right)
  BY NodeOut
<1>2. CASE IsLeaf(n.left)
  BY <1>2 DEF RotateRight
<1>3. CASE ~IsLeaf(n.left)
  <2> DEFINE a == n.left.left
             b == n.left.right
             r == n.right
  <2>1. a \in Node /\ b \in Node /\ n.left = Branch(a, b)
    BY <1>1, <1>3, NodeOut
  <2>2. RotateRight(n) = Branch(a, Branch(b, r))
    BY <1>3 DEF RotateRight
  <2>3. r \in Node /\ n = Branch(Branch(a, b), r)
    BY <1>1, <2>1
  <2> HIDE DEF a, b, r
  <2>4. Shaped(a, FALSE) /\ Shaped(b, FALSE) /\ Shaped(r, FALSE)
    <3>1. Branch(a, b) \in Node
      BY <2>1, BranchIn
    <3>2. Shaped(Branch(a, b), FALSE) /\ Shaped(r, FALSE)
      BY <2>3, <3>1, ShapedBranch
    <3> QED BY <2>1, <3>2, ShapedBranch
  <2> DEFINE x == Branch(b, r)
  <2>5. x \in Node /\ Shaped(x, FALSE)
    BY <2>1, <2>3, <2>4, FullBranch
  <2>6. RotateRight(n) = Branch(a, x)
    BY <2>2
  <2> HIDE DEF x
  <2> QED BY <2>1, <2>3, <2>4, <2>5, <2>6, FullBranch
<1> QED BY <1>2, <1>3

LEMMA RotateLeftFills ==
    ASSUME NEW n \in Node, ~IsLeaf(n), Shaped(n, FALSE)
    PROVE  Shaped(RotateLeft(n), FALSE)
<1>1. n.left \in Node /\ n.right \in Node /\ n = Branch(n.left, n.right)
  BY NodeOut
<1>2. CASE IsLeaf(n.right)
  BY <1>2 DEF RotateLeft
<1>3. CASE ~IsLeaf(n.right)
  <2> DEFINE l == n.left
             a == n.right.left
             b == n.right.right
  <2>1. a \in Node /\ b \in Node /\ n.right = Branch(a, b)
    BY <1>1, <1>3, NodeOut
  <2>2. RotateLeft(n) = Branch(Branch(l, a), b)
    BY <1>3 DEF RotateLeft
  <2>3. l \in Node /\ n = Branch(l, Branch(a, b))
    BY <1>1, <2>1
  <2> HIDE DEF l, a, b
  <2>4. Shaped(l, FALSE) /\ Shaped(a, FALSE) /\ Shaped(b, FALSE)
    <3>1. Branch(a, b) \in Node
      BY <2>1, BranchIn
    <3>2. Shaped(l, FALSE) /\ Shaped(Branch(a, b), FALSE)
      BY <2>3, <3>1, ShapedBranch
    <3> QED BY <2>1, <3>2, ShapedBranch
  <2> DEFINE x == Branch(l, a)
  <2>5. x \in Node /\ Shaped(x, FALSE)
    BY <2>1, <2>3, <2>4, FullBranch
  <2>6. RotateLeft(n) = Branch(x, b)
    BY <2>2
  <2> HIDE DEF x
  <2> QED BY <2>1, <2>3, <2>4, <2>5, <2>6, FullBranch
<1> QED BY <1>2, <1>3

\* Balancing leaves nothing empty.
LEMMA BalanceFills ==
    ASSUME NEW l \in Node, NEW r \in Node, Shaped(l, FALSE), Shaped(r, FALSE)
    PROVE  Shaped(Balance(Branch(l, r)), FALSE)
<1> DEFINE n == Branch(l, r)
<1>1. n \in Node /\ ~IsLeaf(n) /\ n.left = l /\ n.right = r /\ Shaped(n, FALSE)
  BY BranchIn, ShapedBranch
<1> HIDE DEF n
<1>2. BalanceFactor(n) \in Int
  BY <1>1, NodeOut DEF BalanceFactor, Counted
<1>3. CASE BalanceFactor(n) > 1
  <2> DEFINE m == IF BalanceFactor(l) < 0 THEN Branch(RotateLeft(l), r) ELSE n
  <2>1. Balance(n) = RotateRight(m)
    <3>1. ~(BalanceFactor(n) < -1)
      BY <1>2, <1>3
    <3> QED BY <1>1, <1>3, <3>1 DEF Balance
  <2>2. m \in Node /\ ~IsLeaf(m) /\ Shaped(m, FALSE)
    <3>1. CASE BalanceFactor(l) < 0
      <4>1. ~IsLeaf(l)
        BY <3>1 DEF BalanceFactor
      <4>2. RotateLeft(l) \in Node /\ Shaped(RotateLeft(l), FALSE)
        BY <4>1, RotateLeftFills DEF Shaped
      <4> QED BY <3>1, <4>2, BranchIn, FullBranch
    <3>2. CASE ~(BalanceFactor(l) < 0)
      BY <1>1, <3>2
    <3> QED BY <3>1, <3>2
  <2> HIDE DEF m
  <2> QED BY <2>1, <2>2, RotateRightFills DEF n
<1>4. CASE BalanceFactor(n) < -1
  <2> DEFINE m == IF BalanceFactor(r) > 0 THEN Branch(l, RotateRight(r)) ELSE n
  <2>1. Balance(n) = RotateLeft(m)
    <3>1. ~(BalanceFactor(n) > 1)
      BY <1>2, <1>4
    <3> QED BY <1>1, <1>4, <3>1 DEF Balance
  <2>2. m \in Node /\ ~IsLeaf(m) /\ Shaped(m, FALSE)
    <3>1. CASE BalanceFactor(r) > 0
      <4>1. ~IsLeaf(r)
        BY <3>1 DEF BalanceFactor
      <4>2. RotateRight(r) \in Node /\ Shaped(RotateRight(r), FALSE)
        BY <4>1, RotateRightFills DEF Shaped
      <4> QED BY <3>1, <4>2, BranchIn, FullBranch
    <3>2. CASE ~(BalanceFactor(r) > 0)
      BY <1>1, <3>2
    <3> QED BY <3>1, <3>2
  <2> HIDE DEF m
  <2> QED BY <2>1, <2>2, RotateLeftFills DEF n
<1>5. CASE ~(BalanceFactor(n) > 1) /\ ~(BalanceFactor(n) < -1)
  BY <1>1, <1>5 DEF Balance, n
<1> QED BY <1>3, <1>4, <1>5

\* Two balanced trees over a branch: it is balanced, and one higher than the higher.
LEMMA EvenBranch ==
    ASSUME NEW l \in Node, NEW r \in Node, Shaped(l, TRUE), Shaped(r, TRUE), Level(l, r)
    PROVE  /\ Branch(l, r) \in Node /\ Shaped(Branch(l, r), TRUE)
           /\ Height(Branch(l, r)) = 1 + Most(Height(l), Height(r))
BY BranchIn, ShapedBranch

LEMMA EvenInside ==
    ASSUME NEW n \in Node, ~IsLeaf(n), Shaped(n, TRUE)
    PROVE  /\ n.left \in Node /\ n.right \in Node /\ n = Branch(n.left, n.right)
           /\ Shaped(n.left, TRUE) /\ Shaped(n.right, TRUE) /\ Level(n.left, n.right)
           /\ Height(n) = 1 + Most(Height(n.left), Height(n.right))
<1> DEFINE a == n.left
           b == n.right
<1>1. a \in Node /\ b \in Node /\ n = Branch(a, b)
  BY NodeOut
<1> HIDE DEF a, b
<1>2. Shaped(a, TRUE) /\ Shaped(b, TRUE) /\ Level(a, b)
  <2>1. Shaped(Branch(a, b), TRUE)
    BY <1>1
  <2> QED BY <1>1, <2>1, ShapedBranch
<1>3. Height(n) = 1 + Most(Height(a), Height(b))
  BY <1>1, BranchIn
<1> QED BY <1>1, <1>2, <1>3 DEF a, b

\* What balancing makes of l and r: a balanced tree, that is higher than both when they
\* were level and else may be as high as the higher.
Rebalanced(n, l, r) ==
    /\ Shaped(n, TRUE)
    /\ Height(n) \in Most(Height(l), Height(r)) .. Most(Height(l), Height(r)) + 1
    /\ Level(l, r) => Height(n) = Most(Height(l), Height(r)) + 1

LEMMA BalanceRight ==
    ASSUME NEW l \in Node, NEW r \in Node, Shaped(l, TRUE), Shaped(r, TRUE),
           Height(l) = Height(r) + 2
    PROVE  Rebalanced(Balance(Branch(l, r)), l, r)
<1> DEFINE k == Height(r)
           n == Branch(l, r)
           a == l.left
           b == l.right
<1>1. k \in Nat /\ Height(l) = k + 2
  BY HeightFits
<1>2. n.left = l /\ n.right = r /\ ~IsLeaf(n) /\ BalanceFactor(n) = 2
  BY <1>1, BranchIn DEF BalanceFactor
<1>3. ~IsLeaf(l)
  BY <1>1 DEF Height
<1>4. /\ a \in Node /\ b \in Node /\ l = Branch(a, b) /\ Shaped(a, TRUE) /\ Shaped(b, TRUE)
      /\ Level(a, b) /\ Height(l) = 1 + Most(Height(a), Height(b))
  BY <1>3, EvenInside
<1>5. Height(a) \in Nat /\ Height(b) \in Nat
  BY <1>4, HeightFits
<1>6. BalanceFactor(l) = Height(a) - Height(b)
  BY <1>3 DEF BalanceFactor
<1>7. Balance(n) = RotateRight(IF BalanceFactor(l) < 0 THEN Branch(RotateLeft(l), r) ELSE n)
  BY <1>2 DEF Balance
<1>8. Most(Height(l), Height(r)) = k + 2 /\ ~Level(l, r)
  BY <1>1 DEF Most, Level
<1>9. ASSUME NEW x, Balance(n) = x, Shaped(x, TRUE), Height(x) \in k + 2 .. k + 3
      PROVE  Rebalanced(Balance(n), l, r)
  <2>1. k + 3 = (k + 2) + 1
    BY <1>1
  <2> QED BY <1>8, <1>9, <2>1 DEF Rebalanced
<1> HIDE DEF k, n, a, b
<1>10. CASE Height(a) >= Height(b)
  <2>1. /\ Height(a) = k + 1 /\ Height(b) \in k .. k + 1 /\ ~(BalanceFactor(l) < 0)
    BY <1>1, <1>4, <1>5, <1>6, <1>10 DEF Most, Level
  <2>2. Level(b, r)
    BY <1>1, <2>1 DEF Level, k
  <2>3. /\ Branch(b, r) \in Node /\ Shaped(Branch(b, r), TRUE)
        /\ Height(Branch(b, r)) = 1 + Height(b)
    <3>1. Most(Height(b), Height(r)) = Height(b)
      BY <1>1, <2>1 DEF Most, k
    <3>2. /\ Branch(b, r) \in Node /\ Shaped(Branch(b, r), TRUE)
          /\ Height(Branch(b, r)) = 1 + Most(Height(b), Height(r))
      BY <1>4, <2>2, EvenBranch
    <3> QED BY <3>1, <3>2
  <2> DEFINE x == Branch(b, r)
             y == Branch(a, x)
  <2>4. Balance(n) = y
    <3>1. Balance(n) = RotateRight(n)
      BY <1>7, <2>1
    <3> QED BY <1>2, <1>3, <3>1 DEF RotateRight, a, b
  <2>5. x \in Node /\ Shaped(x, TRUE) /\ Height(x) \in k + 1 .. k + 2
    <3>1. 1 + Height(b) \in k + 1 .. k + 2
      BY <1>1, <2>1
    <3> QED BY <2>3, <3>1
  <2> HIDE DEF x
  <2>6. Level(a, x)
    BY <1>1, <2>1, <2>5 DEF Level
  <2>7. Shaped(y, TRUE) /\ Height(y) = 1 + Most(Height(a), Height(x))
    BY <1>4, <2>5, <2>6, EvenBranch
  <2> HIDE DEF y
  <2>8. Height(y) \in k + 2 .. k + 3
    BY <1>1, <2>1, <2>5, <2>7 DEF Most
  <2> QED BY <1>9, <2>4, <2>7, <2>8 DEF n
<1>11. CASE ~(Height(a) >= Height(b))
  <2>1. Height(b) = k + 1 /\ Height(a) = k /\ BalanceFactor(l) < 0
    BY <1>1, <1>4, <1>5, <1>6, <1>11 DEF Most, Level
  <2>2. ~IsLeaf(b)
    BY <1>1, <2>1 DEF Height
  <2> DEFINE c == b.left
             d == b.right
  <2>3. /\ c \in Node /\ d \in Node /\ Shaped(c, TRUE) /\ Shaped(d, TRUE)
        /\ Level(c, d) /\ Height(b) = 1 + Most(Height(c), Height(d))
    BY <1>4, <2>2, EvenInside
  <2>4. RotateLeft(l) = Branch(Branch(a, c), d)
    BY <2>2 DEF RotateLeft, a, b
  <2> HIDE DEF c, d
  <2>5. /\ Height(c) \in Nat /\ Height(d) \in Nat
        /\ Height(c) \in k - 1 .. k /\ Height(d) \in k - 1 .. k
    <3>1. Height(c) \in Nat /\ Height(d) \in Nat
      BY <2>3, HeightFits
    <3> QED BY <1>1, <2>1, <2>3, <3>1 DEF Most, Level
  <2> DEFINE x == Branch(a, c)
             y == Branch(d, r)
  <2>6. x \in Node /\ Shaped(x, TRUE) /\ Height(x) = k + 1
    <3>1. Level(a, c) /\ Most(Height(a), Height(c)) = k /\ 1 + k = k + 1
      BY <1>1, <2>1, <2>5 DEF Level, Most
    <3> QED BY <1>4, <2>3, <3>1, EvenBranch
  <2>7. y \in Node /\ Shaped(y, TRUE) /\ Height(y) = k + 1
    <3>1. Level(d, r) /\ Most(Height(d), Height(r)) = k /\ 1 + k = k + 1
      BY <1>1, <2>5 DEF Level, Most, k
    <3> QED BY <2>3, <3>1, EvenBranch
  <2>8. Balance(n) = Branch(x, y)
    <3> DEFINE z == Branch(x, d)
               w == Branch(z, r)
    <3>1. Balance(n) = RotateRight(w)
      BY <1>7, <2>1, <2>4
    <3>2. z \in Node /\ ~IsLeaf(z) /\ z.left = x /\ z.right = d
      <4> HIDE DEF x
      <4> QED BY <2>3, <2>6, BranchIn
    <3> HIDE DEF z, x
    <3>3. w.left = z /\ w.right = r
      BY <3>2, BranchIn
    <3> HIDE DEF w
    <3> QED BY <3>1, <3>2, <3>3 DEF RotateRight
  <2> HIDE DEF x, y
  <2>9. /\ Shaped(Branch(x, y), TRUE) /\ Height(Branch(x, y)) \in k + 2 .. k + 3
    <3>1. Level(x, y) /\ Most(Height(x), Height(y)) = k + 1
      BY <1>1, <2>6, <2>7 DEF Level, Most
    <3>2. Shaped(Branch(x, y), TRUE) /\ Height(Branch(x, y)) = 1 + (k + 1)
      BY <2>6, <2>7, <3>1, EvenBranch
    <3>3. 1 + (k + 1) \in k + 2 .. k + 3
      BY <1>1
    <3> QED BY <3>2, <3>3
  <2> QED BY <1>9, <2>8, <2>9 DEF n
<1> QED BY <1>10, <1>11

LEMMA BalanceLeft ==
    ASSUME NEW l \in Node, NEW r \in Node, Shaped(l, TRUE), Shaped(r, TRUE),
           Height(r) = Height(l) + 2
    PROVE  Rebalanced(Balance(Branch(l, r)), l, r)
<1> DEFINE k == Height(l)
           n == Branch(l, r)
           a == r.left
           b == r.right
<1>1. k \in Nat /\ Height(r) = k + 2
  BY HeightFits
<1>2. n.left = l /\ n.right = r /\ ~IsLeaf(n) /\ BalanceFactor(n) = -2
  BY <1>1, BranchIn DEF BalanceFactor
<1>3. ~IsLeaf(r)
  BY <1>1 DEF Height
<1>4. /\ a \in Node /\ b \in Node /\ r = Branch(a, b) /\ Shaped(a, TRUE) /\ Shaped(b, TRUE)
      /\ Level(a, b) /\ Height(r) = 1 + Most(Height(a), Height(b))
  BY <1>3, EvenInside
<1>5. Height(a) \in Nat /\ Height(b) \in Nat
  BY <1>4, HeightFits
<1>6. BalanceFactor(r) = Height(a) - Height(b)
  BY <1>3 DEF BalanceFactor
<1>7. Balance(n) = RotateLeft(IF BalanceFactor(r) > 0 THEN Branch(l, RotateRight(r)) ELSE n)
  BY <1>2 DEF Balance
<1>8. Most(Height(l), Height(r)) = k + 2 /\ ~Level(l, r)
  BY <1>1 DEF Most, Level
<1>9. ASSUME NEW x, Balance(n) = x, Shaped(x, TRUE), Height(x) \in k + 2 .. k + 3
      PROVE  Rebalanced(Balance(n), l, r)
  <2>1. k + 3 = (k + 2) + 1
    BY <1>1
  <2> QED BY <1>8, <1>9, <2>1 DEF Rebalanced
<1> HIDE DEF k, n, a, b
<1>10. CASE Height(b) >= Height(a)
  <2>1. /\ Height(b) = k + 1 /\ Height(a) \in k .. k + 1 /\ ~(BalanceFactor(r) > 0)
    BY <1>1, <1>4, <1>5, <1>6, <1>10 DEF Most, Level
  <2>2. Level(l, a)
    BY <1>1, <2>1 DEF Level, k
  <2>3. /\ Branch(l, a) \in Node /\ Shaped(Branch(l, a), TRUE)
        /\ Height(Branch(l, a)) = 1 + Height(a)
    <3>1. Most(Height(l), Height(a)) = Height(a)
      BY <1>1, <2>1 DEF Most, k
    <3>2. /\ Branch(l, a) \in Node /\ Shaped(Branch(l, a), TRUE)
          /\ Height(Branch(l, a)) = 1 + Most(Height(l), Height(a))
      BY <1>4, <2>2, EvenBranch
    <3> QED BY <3>1, <3>2
  <2> DEFINE x == Branch(l, a)
             y == Branch(x, b)
  <2>4. Balance(n) = y
    <3>1. Balance(n) = RotateLeft(n)
      BY <1>7, <2>1
    <3> QED BY <1>2, <1>3, <3>1 DEF RotateLeft, a, b
  <2>5. x \in Node /\ Shaped(x, TRUE) /\ Height(x) \in k + 1 .. k + 2
    <3>1. 1 + Height(a) \in k + 1 .. k + 2
      BY <1>1, <2>1
    <3> QED BY <2>3, <3>1
  <2> HIDE DEF x
  <2>6. Level(x, b)
    BY <1>1, <2>1, <2>5 DEF Level
  <2>7. Shaped(y, TRUE) /\ Height(y) = 1 + Most(Height(x), Height(b))
    BY <1>4, <2>5, <2>6, EvenBranch
  <2> HIDE DEF y
  <2>8. Height(y) \in k + 2 .. k + 3
    BY <1>1, <2>1, <2>5, <2>7 DEF Most
  <2> QED BY <1>9, <2>4, <2>7, <2>8 DEF n
<1>11. CASE ~(Height(b) >= Height(a))
  <2>1. Height(a) = k + 1 /\ Height(b) = k /\ BalanceFactor(r) > 0
    BY <1>1, <1>4, <1>5, <1>6, <1>11 DEF Most, Level
  <2>2. ~IsLeaf(a)
    BY <1>1, <2>1 DEF Height
  <2> DEFINE c == a.left
             d == a.right
  <2>3. /\ c \in Node /\ d \in Node /\ Shaped(c, TRUE) /\ Shaped(d, TRUE)
        /\ Level(c, d) /\ Height(a) = 1 + Most(Height(c), Height(d))
    BY <1>4, <2>2, EvenInside
  <2>4. RotateRight(r) = Branch(c, Branch(d, b))
    BY <2>2 DEF RotateRight, a, b
  <2> HIDE DEF c, d
  <2>5. /\ Height(c) \in Nat /\ Height(d) \in Nat
        /\ Height(c) \in k - 1 .. k /\ Height(d) \in k - 1 .. k
    <3>1. Height(c) \in Nat /\ Height(d) \in Nat
      BY <2>3, HeightFits
    <3> QED BY <1>1, <2>1, <2>3, <3>1 DEF Most, Level
  <2> DEFINE x == Branch(l, c)
             y == Branch(d, b)
  <2>6. x \in Node /\ Shaped(x, TRUE) /\ Height(x) = k + 1
    <3>1. Level(l, c) /\ Most(Height(l), Height(c)) = k /\ 1 + k = k + 1
      BY <1>1, <2>5 DEF Level, Most, k
    <3> QED BY <2>3, <3>1, EvenBranch
  <2>7. y \in Node /\ Shaped(y, TRUE) /\ Height(y) = k + 1
    <3>1. Level(d, b) /\ Most(Height(d), Height(b)) = k /\ 1 + k = k + 1
      BY <1>1, <2>1, <2>5 DEF Level, Most
    <3> QED BY <1>4, <2>3, <3>1, EvenBranch
  <2>8. Balance(n) = Branch(x, y)
    <3> DEFINE z == Branch(c, y)
               w == Branch(l, z)
    <3>1. Balance(n) = RotateLeft(w)
      BY <1>7, <2>1, <2>4
    <3>2. z \in Node /\ ~IsLeaf(z) /\ z.left = c /\ z.right = y
      <4> HIDE DEF y
      <4> QED BY <2>3, <2>7, BranchIn
    <3> HIDE DEF z, y
    <3>3. w.left = l /\ w.right = z
      BY <3>2, BranchIn
    <3> HIDE DEF w
    <3> QED BY <3>1, <3>2, <3>3 DEF RotateLeft
  <2> HIDE DEF x, y
  <2>9. /\ Shaped(Branch(x, y), TRUE) /\ Height(Branch(x, y)) \in k + 2 .. k + 3
    <3>1. Level(x, y) /\ Most(Height(x), Height(y)) = k + 1
      BY <1>1, <2>6, <2>7 DEF Level, Most
    <3>2. Shaped(Branch(x, y), TRUE) /\ Height(Branch(x, y)) = 1 + (k + 1)
      BY <2>6, <2>7, <3>1, EvenBranch
    <3>3. 1 + (k + 1) \in k + 2 .. k + 3
      BY <1>1
    <3> QED BY <3>2, <3>3
  <2> QED BY <1>9, <2>8, <2>9 DEF n
<1> QED BY <1>10, <1>11

\* Balancing trees whose heights are at most two apart.
LEMMA BalanceEvens ==
    ASSUME NEW l \in Node, NEW r \in Node, Shaped(l, TRUE), Shaped(r, TRUE),
           Height(l) - Height(r) \in -2 .. 2
    PROVE  Rebalanced(Balance(Branch(l, r)), l, r)
<1>1. Height(l) \in Nat /\ Height(r) \in Nat
  BY HeightFits
<1>2. CASE Level(l, r)
  <2> DEFINE n == Branch(l, r)
  <2>1. /\ Shaped(n, TRUE) /\ Height(n) = 1 + Most(Height(l), Height(r))
    BY <1>2, EvenBranch
  <2>2. Balance(n) = n
    <3>1. n.left = l /\ n.right = r /\ ~IsLeaf(n)
      BY BranchIn
    <3> HIDE DEF n
    <3>2. BalanceFactor(n) \in -1 .. 1
      BY <1>2, <3>1 DEF BalanceFactor, Level
    <3>3. ~(BalanceFactor(n) > 1) /\ ~(BalanceFactor(n) < -1)
      BY <3>2
    <3> QED BY <3>3 DEF Balance
  <2> HIDE DEF n
  <2>3. Most(Height(l), Height(r)) \in Nat
    BY <1>1 DEF Most
  <2>4. Height(n) \in Most(Height(l), Height(r)) .. Most(Height(l), Height(r)) + 1
        /\ Height(n) = Most(Height(l), Height(r)) + 1
    BY <2>1, <2>3
  <2>5. Rebalanced(n, l, r)
    BY <2>1, <2>4 DEF Rebalanced
  <2> QED BY <2>2, <2>5 DEF n
<1>3. CASE ~Level(l, r)
  <2>1. Height(l) = Height(r) + 2 \/ Height(r) = Height(l) + 2
    BY <1>1, <1>3 DEF Level
  <2> QED BY <2>1, BalanceRight, BalanceLeft
<1> QED BY <1>2, <1>3

-----------------------------------------------------------------------------
(* Joining and splitting.                                                  *)

\* What joining l and r gives: a tree as high as the higher, or one more.
Linked(t, l, r, e) ==
    /\ Shaped(t, e)
    /\ e => Height(t) \in Most(Height(l), Height(r)) .. Most(Height(l), Height(r)) + 1

LEMMA JoinDown ==
    ASSUME NEW e \in BOOLEAN, NEW l \in Node, NEW r \in Node, NEW t,
           Shaped(l, e), Shaped(r, e), Height(l) > Height(r) + 1, Linked(t, l.right, r, e)
    PROVE  Linked(Balance(Branch(l.left, t)), l, r, e)
<1> DEFINE a == l.left
           b == l.right
           n == Balance(Branch(a, t))
<1>1. Height(l) \in Nat /\ Height(r) \in Nat /\ ~IsLeaf(l)
  BY HeightFits DEF Height
<1>2. a \in Node /\ b \in Node /\ l = Branch(a, b)
  BY <1>1, NodeOut
<1>3. t \in Node /\ Shaped(t, e)
  BY DEF Linked, Shaped
<1>4. CASE ~e
  <2> HIDE DEF a, b
  <2>1. Shaped(Branch(a, b), FALSE) /\ Shaped(t, FALSE)
    BY <1>2, <1>3, <1>4 DEF Shaped
  <2>2. Shaped(a, FALSE)
    BY <1>2, <2>1, ShapedBranch
  <2>3. Shaped(n, FALSE)
    BY <1>2, <1>3, <2>1, <2>2, BalanceFills
  <2> QED BY <1>4, <2>3 DEF Linked, Shaped, n, a
<1>5. CASE e
  <2>1. /\ Shaped(a, TRUE) /\ Shaped(b, TRUE) /\ Level(a, b)
        /\ Height(l) = 1 + Most(Height(a), Height(b))
    BY <1>1, <1>5, EvenInside
  <2>2. /\ Height(a) \in Nat /\ Height(b) \in Nat /\ Height(t) \in Nat
        /\ Height(t) \in Most(Height(b), Height(r)) .. Most(Height(b), Height(r)) + 1
    BY <1>2, <1>3, <1>5, HeightFits DEF Linked
  <2> HIDE DEF a, b, n
  <2>3. Height(a) - Height(t) \in -2 .. 2
    BY <1>1, <2>1, <2>2 DEF Most, Level
  <2>4. Shaped(t, TRUE)
    BY <1>3, <1>5
  <2>5. Rebalanced(n, a, t)
    BY <1>2, <1>3, <2>1, <2>3, <2>4, BalanceEvens DEF n
  <2>6. Shaped(n, TRUE) /\ n \in Node /\ Height(n) \in Nat
    BY <2>5, HeightFits DEF Rebalanced, Shaped
  <2>7. Height(n) \in Height(l) .. Height(l) + 1
    BY <1>1, <2>1, <2>2, <2>5, <2>6 DEF Rebalanced, Most, Level
  <2>8. Most(Height(l), Height(r)) = Height(l)
    BY <1>1 DEF Most
  <2> QED BY <1>5, <2>6, <2>7, <2>8 DEF Linked, n, a
<1> QED BY <1>4, <1>5

LEMMA JoinUp ==
    ASSUME NEW e \in BOOLEAN, NEW l \in Node, NEW r \in Node, NEW t,
           Shaped(l, e), Shaped(r, e), Height(r) > Height(l) + 1, Linked(t, l, r.left, e)
    PROVE  Linked(Balance(Branch(t, r.right)), l, r, e)
<1> DEFINE a == r.left
           b == r.right
           n == Balance(Branch(t, b))
<1>1. Height(l) \in Nat /\ Height(r) \in Nat /\ ~IsLeaf(r)
  BY HeightFits DEF Height
<1>2. a \in Node /\ b \in Node /\ r = Branch(a, b)
  BY <1>1, NodeOut
<1>3. t \in Node /\ Shaped(t, e)
  BY DEF Linked, Shaped
<1>4. CASE ~e
  <2> HIDE DEF a, b
  <2>1. Shaped(Branch(a, b), FALSE) /\ Shaped(t, FALSE)
    BY <1>2, <1>3, <1>4 DEF Shaped
  <2>2. Shaped(b, FALSE)
    BY <1>2, <2>1, ShapedBranch
  <2>3. Shaped(n, FALSE)
    BY <1>2, <1>3, <2>1, <2>2, BalanceFills
  <2> QED BY <1>4, <2>3 DEF Linked, Shaped, n, b
<1>5. CASE e
  <2>1. /\ Shaped(a, TRUE) /\ Shaped(b, TRUE) /\ Level(a, b)
        /\ Height(r) = 1 + Most(Height(a), Height(b))
    BY <1>1, <1>5, EvenInside
  <2>2. /\ Height(a) \in Nat /\ Height(b) \in Nat /\ Height(t) \in Nat
        /\ Height(t) \in Most(Height(l), Height(a)) .. Most(Height(l), Height(a)) + 1
    BY <1>2, <1>3, <1>5, HeightFits DEF Linked
  <2> HIDE DEF a, b, n
  <2>3. Height(t) - Height(b) \in -2 .. 2
    BY <1>1, <2>1, <2>2 DEF Most, Level
  <2>4. Shaped(t, TRUE)
    BY <1>3, <1>5
  <2>5. Rebalanced(n, t, b)
    BY <1>2, <1>3, <2>1, <2>3, <2>4, BalanceEvens DEF n
  <2>6. Shaped(n, TRUE) /\ n \in Node /\ Height(n) \in Nat
    BY <2>5, HeightFits DEF Rebalanced, Shaped
  <2>7. Height(n) \in Height(r) .. Height(r) + 1
    BY <1>1, <2>1, <2>2, <2>5, <2>6 DEF Rebalanced, Most, Level
  <2>8. Most(Height(l), Height(r)) = Height(r)
    BY <1>1 DEF Most
  <2> QED BY <1>5, <2>6, <2>7, <2>8 DEF Linked, n, b
<1> QED BY <1>4, <1>5

\* Joining for trees of height h, if it links those that are less deep.
LEMMA JoinByLinks ==
    ASSUME NEW e \in BOOLEAN, NEW h \in Nat, NEW l \in NodeOf[h], NEW r \in NodeOf[h], NEW g,
           Shaped(l, e), Shaped(r, e),
           h # 0 => \A a, b \in NodeOf[h - 1] :
                       Shaped(a, e) /\ Shaped(b, e) => Linked(g[a][b], a, b, e)
    PROVE  Linked(JoinBy(g, l, r), l, r, e)
<1>1. /\ l \in Node /\ r \in Node /\ TextLen(l) \in Nat /\ TextLen(r) \in Nat
      /\ TextLen(l) # 0 /\ TextLen(r) # 0
      /\ Height(l) \in Nat /\ Height(r) \in Nat /\ Height(l) <= h /\ Height(r) <= h
  BY HeightFits, NodeOut DEF Counted, Shaped
<1>2. CASE Mergeable(l, r)
  <2>1. JoinBy(g, l, r) = Leaf(l.buf \o r.buf)
    BY <1>1, <1>2 DEF JoinBy
  <2>2. IsLeaf(l) /\ IsLeaf(r) /\ Len(l.buf) + Len(r.buf) <= LeafMax /\ Len(l.buf) > 0
    BY <1>2 DEF Mergeable, TextLen, Shaped
  <2>3. l.buf \in Seq(Char) /\ r.buf \in Seq(Char)
    BY <1>1, <2>2, NodeOut
  <2> DEFINE s == l.buf \o r.buf
  <2>4. s \in Seq(Char) /\ Len(s) = Len(l.buf) + Len(r.buf)
    BY <2>3, ConcatAt
  <2> HIDE DEF s
  <2>5. Len(s) <= LeafMax /\ Len(s) > 0
    <3> DEFINE p == Len(l.buf)
               q == Len(r.buf)
               k == Len(s)
    <3>1. p \in Nat /\ q \in Nat /\ LeafMax \in Nat
      BY <2>3, WholeSeq, RopeAssumption
    <3>2. k = p + q
      BY <2>4
    <3>3. p + q <= LeafMax /\ p > 0
      BY <2>2
    <3> HIDE DEF p, q, k
    <3>4. k <= LeafMax /\ k > 0
      BY <3>1, <3>2, <3>3
    <3> QED BY <3>4 DEF k
  <2>6. Shaped(Leaf(s), e) /\ Height(Leaf(s)) = 0
    BY <2>4, <2>5, LeafIn, LeafIs, ShapeOfLeaf DEF Shaped
  <2>7. Height(l) = 0 /\ Height(r) = 0
    BY <2>2 DEF Height
  <2> QED BY <2>1, <2>6, <2>7 DEF Linked, Most, s
<1>3. CASE ~Mergeable(l, r) /\ Height(l) > Height(r) + 1
  <2>1. JoinBy(g, l, r) = Balance(Branch(l.left, g[l.right][r]))
    BY <1>1, <1>3 DEF JoinBy
  <2>2. ~IsLeaf(l) /\ h # 0 /\ h - 1 \in Nat /\ Height(r) <= h - 1
    BY <1>1, <1>3 DEF Height
  <2>3. l.left \in NodeOf[h - 1] /\ l.right \in NodeOf[h - 1] /\ l = Branch(l.left, l.right)
    BY <2>2, NodeCases, BranchesAre
  <2>4. r \in NodeOf[h - 1]
    BY <1>1, <2>2, HeightFits, NodesGrow
  <2>5. Shaped(l.right, e)
    <3> DEFINE a == l.left
               b == l.right
    <3>1. a \in Node /\ b \in Node /\ l = Branch(a, b)
      BY <2>2, <2>3 DEF Node
    <3> HIDE DEF a, b
    <3>2. Shaped(Branch(a, b), e)
      BY <3>1
    <3>3. Shaped(b, e)
      BY <3>1, <3>2, ShapedBranch
    <3> QED BY <3>3 DEF b
  <2>6. Linked(g[l.right][r], l.right, r, e)
    BY <2>2, <2>3, <2>4, <2>5
  <2> QED BY <1>1, <1>3, <2>1, <2>6, JoinDown
<1>4. CASE ~Mergeable(l, r) /\ ~(Height(l) > Height(r) + 1) /\ Height(r) > Height(l) + 1
  <2>1. JoinBy(g, l, r) = Balance(Branch(g[l][r.left], r.right))
    BY <1>1, <1>4 DEF JoinBy
  <2>2. ~IsLeaf(r) /\ h # 0 /\ h - 1 \in Nat /\ Height(l) <= h - 1
    BY <1>1, <1>4 DEF Height
  <2>3. r.left \in NodeOf[h - 1] /\ r.right \in NodeOf[h - 1] /\ r = Branch(r.left, r.right)
    BY <2>2, NodeCases, BranchesAre
  <2>4. l \in NodeOf[h - 1]
    BY <1>1, <2>2, HeightFits, NodesGrow
  <2>5. Shaped(r.left, e)
    <3> DEFINE a == r.left
               b == r.right
    <3>1. a \in Node /\ b \in Node /\ r = Branch(a, b)
      BY <2>2, <2>3 DEF Node
    <3> HIDE DEF a, b
    <3>2. Shaped(Branch(a, b), e)
      BY <3>1
    <3>3. Shaped(a, e)
      BY <3>1, <3>2, ShapedBranch
    <3> QED BY <3>3 DEF a
  <2>6. Linked(g[l][r.left], l, r.left, e)
    BY <2>2, <2>3, <2>4, <2>5
  <2> QED BY <1>1, <1>4, <2>1, <2>6, JoinUp
<1>5. CASE ~Mergeable(l, r) /\ ~(Height(l) > Height(r) + 1) /\ ~(Height(r) > Height(l) + 1)
  <2>1. JoinBy(g, l, r) = Branch(l, r)
    BY <1>1, <1>5 DEF JoinBy
  <2>2. Level(l, r)
    BY <1>1, <1>5 DEF Level
  <2>3. Shaped(Branch(l, r), e)
    BY <1>1, <2>2, ShapedBranch
  <2>4. Height(Branch(l, r)) = 1 + Most(Height(l), Height(r))
    BY <1>1, BranchIn
  <2>5. 1 + Most(Height(l), Height(r))
          \in Most(Height(l), Height(r)) .. Most(Height(l), Height(r)) + 1
    BY <1>1 DEF Most
  <2> QED BY <2>1, <2>3, <2>4, <2>5 DEF Linked
<1> QED BY <1>2, <1>3, <1>4, <1>5

LEMMA JoinLinks ==
    ASSUME NEW e \in BOOLEAN, NEW l \in Node, NEW r \in Node, Shaped(l, e), Shaped(r, e)
    PROVE  Linked(Join(l, r), l, r, e)
<1> DEFINE T == {k \in Nat : \A a, b \in NodeOf[k] :
                    Shaped(a, e) /\ Shaped(b, e) => Linked(joinAt[k][a][b], a, b, e)}
           h == Most(Height(l), Height(r))
<1>1. ASSUME NEW k \in Nat, k # 0 => k - 1 \in T PROVE k \in T
  <2> SUFFICES ASSUME NEW a \in NodeOf[k], NEW b \in NodeOf[k], Shaped(a, e), Shaped(b, e)
               PROVE  Linked(joinAt[k][a][b], a, b, e)
    OBVIOUS
  <2>1. joinAt[k][a][b] = JoinBy(joinAt[k - 1], a, b)
    <3>1. joinAt[k] = JoinStep(k, joinAt[k - 1])
      BY JoinDefined
    <3> QED BY <3>1 DEF JoinStep
  <2> QED BY <1>1, <2>1, JoinByLinks
<1>2. Nat \subseteq T
  <2>1. 0 \in T
    BY <1>1
  <2>2. ASSUME NEW k \in Nat, k \in T PROVE k + 1 \in T
    <3>1. k + 1 \in Nat /\ (k + 1) - 1 = k
      OBVIOUS
    <3> HIDE DEF T
    <3> QED BY <1>1, <2>2, <3>1
  <2> HIDE DEF T
  <2> QED BY <2>1, <2>2, NatSetInduction
<1>3. h \in Nat /\ Height(l) \in Nat /\ Height(r) \in Nat /\ Height(l) <= h /\ Height(r) <= h
  BY HeightFits DEF Most
<1>4. Join(l, r) = joinAt[h][l][r]
  BY DEF Join
<1> HIDE DEF h
<1>5. l \in NodeOf[h] /\ r \in NodeOf[h]
  BY <1>3, HeightFits, NodesGrow
<1> QED BY <1>2, <1>3, <1>4, <1>5

\* The same of a tree that may be empty.
Shape(n, e) == n = Empty \/ Shaped(n, e)

LEMMA EmptyIs == Empty \in Node /\ TextLen(Empty) = 0 /\ Filled(Empty) /\ Even(Empty)
<1>1. <<>> \in Seq(Char) /\ Len(<<>>) = 0 /\ 0 <= LeafMax
  BY RopeAssumption
<1> QED BY <1>1, LeafIn, LeafIs, ShapeOfLeaf DEF Empty

LEMMA JoinShapes ==
    ASSUME NEW e \in BOOLEAN, NEW l, NEW r, Shape(l, e), Shape(r, e)
    PROVE  Shape(Join(l, r), e)
<1>1. l \in Node /\ r \in Node
  BY EmptyIs DEF Shape, Shaped
<1>2. CASE Shaped(l, e) /\ Shaped(r, e)
  BY <1>1, <1>2, JoinLinks DEF Linked, Shape
<1>3. CASE l = Empty \/ r = Empty
  <2> DEFINE h == Most(Height(l), Height(r))
  <2>1. h \in Nat /\ Height(l) \in Nat /\ Height(r) \in Nat /\ Height(l) <= h /\ Height(r) <= h
    BY <1>1, HeightFits DEF Most
  <2>2. Join(l, r) = joinAt[h][l][r]
    BY DEF Join
  <2> HIDE DEF h
  <2>3. l \in NodeOf[h] /\ r \in NodeOf[h]
    BY <1>1, <2>1, HeightFits, NodesGrow
  <2>4. Join(l, r) = JoinBy(joinAt[h - 1], l, r)
    <3>1. joinAt[h] = JoinStep(h, joinAt[h - 1])
      BY <2>1, JoinDefined
    <3>2. joinAt[h][l][r] = JoinBy(joinAt[h - 1], l, r)
      BY <2>3, <3>1 DEF JoinStep
    <3> QED BY <2>2, <3>2
  <2>5. JoinBy(joinAt[h - 1], l, r) \in {l, r}
    BY <1>3, EmptyIs DEF JoinBy
  <2> QED BY <2>4, <2>5
<1> QED BY <1>2, <1>3 DEF Shape

\* Both parts of a split.
Parted(s, e) == Shape(s[1], e) /\ Shape(s[2], e)

LEMMA SplitByShapes ==
    ASSUME NEW e \in BOOLEAN, NEW h \in Nat, NEW n \in NodeOf[h], NEW pos \in Nat, NEW g,
           Shape(n, e),
           h # 0 => \A m \in NodeOf[h - 1], p \in Nat : Shape(m, e) => Parted(g[m][p], e)
    PROVE  Parted(SplitBy(g, n, pos), e)
<1>1. n \in Node /\ TextLen(n) \in Nat /\ Shape(Empty, e)
  BY NodeCases DEF Counted, Shape
<1>2. CASE pos = 0
  BY <1>1, <1>2 DEF SplitBy, Parted
<1>3. CASE pos > 0 /\ pos >= TextLen(n)
  BY <1>1, <1>3 DEF SplitBy, Parted
<1>4. CASE pos > 0 /\ pos < TextLen(n)
  <2>0. Shaped(n, e)
    BY <1>4, EmptyIs DEF Shape
  <2>1. CASE IsLeaf(n)
    <3> DEFINE a == SubSeq(n.buf, 1, pos)
               b == SubSeq(n.buf, pos + 1, Len(n.buf))
    <3>1. SplitBy(g, n, pos) = <<Leaf(a), Leaf(b)>>
      BY <1>1, <1>4, <2>1 DEF SplitBy
    <3>2. n.buf \in Seq(Char) /\ n = Leaf(n.buf) /\ Len(n.buf) \in Nat
      BY <1>1, <2>1, NodeOut
    <3>3. Len(n.buf) <= LeafMax /\ pos < Len(n.buf)
      <4>1. Filled(Leaf(n.buf))
        BY <2>0, <3>2 DEF Shaped
      <4>2. Len(n.buf) <= LeafMax
        BY <3>2, <4>1, ShapeOfLeaf
      <4> QED BY <1>4, <2>1, <4>2 DEF TextLen
    <3>4. /\ a \in Seq(Char) /\ Len(a) = pos
          /\ b \in Seq(Char) /\ Len(b) = Len(n.buf) - pos
      <4>1. SubSeq(n.buf, 0 + 1, pos) \in Seq(Char) /\ Len(SubSeq(n.buf, 0 + 1, pos)) = pos
        BY <3>2, <3>3, SubSeqAt
      <4>2. b \in Seq(Char) /\ Len(b) = Len(n.buf) - pos
        BY <3>2, <3>3, SubSeqAt
      <4> QED BY <4>1, <4>2
    <3> HIDE DEF a, b
    <3>5. ASSUME NEW s \in Seq(Char), Len(s) <= LeafMax, Len(s) > 0 PROVE Shape(Leaf(s), e)
      BY <3>5, LeafIn, LeafIs, ShapeOfLeaf DEF Shape, Shaped
    <3>6. Len(a) <= LeafMax /\ Len(a) > 0 /\ Len(b) <= LeafMax /\ Len(b) > 0
      BY <1>4, <3>2, <3>3, <3>4, RopeAssumption
    <3> DEFINE x == Leaf(a)
               y == Leaf(b)
    <3>7. Shape(x, e) /\ Shape(y, e)
      BY <3>4, <3>5, <3>6
    <3>8. SplitBy(g, n, pos) = <<x, y>>
      BY <3>1
    <3> HIDE DEF x, y
    <3> QED BY <3>7, <3>8 DEF Parted
  <2>2. CASE ~IsLeaf(n)
    <3> DEFINE l == n.left
               r == n.right
    <3>1. h # 0 /\ h - 1 \in Nat /\ n \in BranchesOver(NodeOf[h - 1])
      BY <2>2, NodeCases
    <3>2. l \in NodeOf[h - 1] /\ r \in NodeOf[h - 1] /\ n = Branch(l, r)
      BY <3>1, BranchesAre
    <3>3. l \in Node /\ r \in Node
      BY <3>1, <3>2 DEF Node
    <3>4. n.leftLen = TextLen(l) /\ TextLen(l) \in Nat
      <4>1. n.leftLen = TextLen(l)
        BY <3>2, <3>3, BranchIn
      <4> QED BY <3>3, <4>1, NodeOut DEF Counted
    <3> HIDE DEF l, r
    <3>5. Shape(l, e) /\ Shape(r, e)
      <4>1. Shaped(Branch(l, r), e)
        BY <2>0, <3>2
      <4>2. Shaped(l, e) /\ Shaped(r, e)
        BY <3>3, <4>1, ShapedBranch
      <4> QED BY <4>2 DEF Shape
    <3>6. CASE pos = n.leftLen
      <4>1. SplitBy(g, n, pos) = <<l, r>>
        BY <1>1, <1>4, <2>2, <3>6 DEF SplitBy, l, r
      <4> QED BY <3>5, <4>1 DEF Parted
    <3>7. CASE pos < n.leftLen
      <4> DEFINE s == g[l][pos]
      <4>1. SplitBy(g, n, pos) = <<s[1], Join(s[2], r)>>
        BY <1>1, <1>4, <2>2, <3>4, <3>7 DEF SplitBy, l, r
      <4>2. Parted(s, e)
        BY <3>1, <3>2, <3>5
      <4> HIDE DEF s
      <4>3. Shape(Join(s[2], r), e)
        BY <3>5, <4>2, JoinShapes DEF Parted
      <4> QED BY <4>1, <4>2, <4>3 DEF Parted
    <3>8. CASE pos > n.leftLen
      <4> DEFINE p == pos - n.leftLen
                 s == g[r][p]
      <4>1. SplitBy(g, n, pos) = <<Join(l, s[1]), s[2]>>
        BY <1>1, <1>4, <2>2, <3>4, <3>8 DEF SplitBy, l, r
      <4>2. p \in Nat
        BY <3>4, <3>8
      <4> HIDE DEF p
      <4>3. Parted(s, e)
        BY <3>1, <3>2, <3>5, <4>2
      <4> HIDE DEF s
      <4>4. Shape(Join(l, s[1]), e)
        BY <3>5, <4>3, JoinShapes DEF Parted
      <4> QED BY <4>1, <4>3, <4>4 DEF Parted
    <3> QED BY <3>4, <3>6, <3>7, <3>8
  <2> QED BY <2>1, <2>2
<1> QED BY <1>1, <1>2, <1>3, <1>4

LEMMA SplitShapes ==
    ASSUME NEW e \in BOOLEAN, NEW n, NEW pos \in Nat, Shape(n, e)
    PROVE  Parted(Split(n, pos), e)
<1> DEFINE T == {k \in Nat : \A m \in NodeOf[k], p \in Nat :
                    Shape(m, e) => Parted(splitAt[k][m][p], e)}
<1>1. ASSUME NEW k \in Nat, k # 0 => k - 1 \in T PROVE k \in T
  <2> SUFFICES ASSUME NEW m \in NodeOf[k], NEW p \in Nat, Shape(m, e)
               PROVE  Parted(splitAt[k][m][p], e)
    OBVIOUS
  <2>1. splitAt[k][m][p] = SplitBy(splitAt[k - 1], m, p)
    <3>1. splitAt[k] = SplitStep(k, splitAt[k - 1])
      BY SplitDefined
    <3> QED BY <3>1 DEF SplitStep
  <2> QED BY <1>1, <2>1, SplitByShapes
<1>2. Nat \subseteq T
  <2>1. 0 \in T
    BY <1>1
  <2>2. ASSUME NEW k \in Nat, k \in T PROVE k + 1 \in T
    <3>1. k + 1 \in Nat /\ (k + 1) - 1 = k
      OBVIOUS
    <3> HIDE DEF T
    <3> QED BY <1>1, <2>2, <3>1
  <2> HIDE DEF T
  <2> QED BY <2>1, <2>2, NatSetInduction
<1>3. Height(n) \in Nat /\ n \in NodeOf[Height(n)]
  <2>1. n \in Node
    BY EmptyIs DEF Shape, Shaped
  <2> QED BY <2>1, HeightFits
<1> QED BY <1>2, <1>3 DEF Split

-----------------------------------------------------------------------------
(* What is built, and what edits leave.                                    *)

AllShaped(nodes) == \A i \in 1 .. Len(nodes) : Shaped(nodes[i], FALSE)

LEMMA ChunksShaped ==
    ASSUME NEW s \in Seq(Char), s # <<>>
    PROVE  AllShaped(Chunks(s))
<1> DEFINE n == (Len(s) + LeafMax - 1) \div LeafMax
           k == Len(s)
           part(i) == SubSeq(s, (i - 1) * LeafMax + 1, Least(i * LeafMax, k))
<1>1. k \in Nat \ {0} /\ LeafMax \in Nat \ {0}
  BY WholeSeq, RopeAssumption
<1>2. n \in Nat \ {0} /\ (n - 1) * LeafMax < k /\ k <= n * LeafMax
  BY <1>1, DivUp
<1>3. Chunks(s) = [i \in 1 .. n |-> Leaf(part(i))]
  BY DEF Chunks
<1> HIDE DEF n
<1>4. Len(Chunks(s)) = n
  BY <1>2, <1>3
<1>5. ASSUME NEW i \in 1 .. n PROVE Shaped(Leaf(part(i)), FALSE)
  <2> DEFINE x == (i - 1) * LeafMax
             y == i * LeafMax
             z == (n - 1) * LeafMax
  <2>1. i - 1 \in Nat /\ n - 1 \in Nat /\ i - 1 <= n - 1 /\ i \in Nat
    BY <1>2
  <2>2. x <= z /\ x \in Nat /\ y = x + LeafMax /\ z \in Nat
    BY <1>1, <2>1, TimesGrows
  <2> DEFINE m == Least(y, k)
             q == SubSeq(s, x + 1, m)
  <2>3. part(i) = q /\ z < k
    BY <1>2
  <2> HIDE DEF x, y, z, k, part
  <2>4. m \in Nat /\ m <= k /\ x < m /\ m - x <= LeafMax
    BY <1>1, <2>2, <2>3 DEF Least
  <2> HIDE DEF m
  <2>5. q \in Seq(Char) /\ Len(q) = m - x
    BY <2>2, <2>4, SubSeqAt DEF k
  <2> HIDE DEF q
  <2>6. Len(q) > 0 /\ Len(q) <= LeafMax
    BY <2>2, <2>4, <2>5
  <2>7. Shaped(Leaf(q), FALSE)
    BY <2>5, <2>6, LeafIn, LeafIs, ShapeOfLeaf DEF Shaped
  <2> QED BY <2>3, <2>7
<1> HIDE DEF part
<1> QED BY <1>3, <1>4, <1>5 DEF AllShaped

LEMMA PairedShaped ==
    ASSUME NEW s \in Seq(Char), NEW nodes, Row(nodes, s), AllShaped(nodes)
    PROVE  AllShaped(Paired(nodes))
<1> DEFINE n == Len(nodes)
           k == (n + 1) \div 2
           two(i) == IF 2 * i <= n THEN Branch(nodes[2 * i - 1], nodes[2 * i]) ELSE nodes[2 * i - 1]
<1>1. n \in Nat \ {0} /\ \A i \in 1 .. n : nodes[i] \in Node /\ Shaped(nodes[i], FALSE)
  <2>1. n \in Nat \ {0}
    BY PairedIsARow
  <2>2. \A i \in 1 .. n : Shaped(nodes[i], FALSE)
    BY DEF AllShaped
  <2> QED BY <2>1, <2>2 DEF Shaped
<1>2. k \in Nat /\ (2 * k = n \/ 2 * k = n + 1)
  BY <1>1, Half
<1>3. Paired(nodes) = [i \in 1 .. k |-> two(i)]
  BY DEF Paired
<1> HIDE DEF n, k
<1>4. Len(Paired(nodes)) = k
  BY <1>2, <1>3
<1>5. ASSUME NEW i \in 1 .. k PROVE Shaped(two(i), FALSE)
  <2>1. 2 * i - 1 \in 1 .. n
    BY <1>1, <1>2
  <2>2. CASE 2 * i <= n
    <3> DEFINE a == nodes[2 * i - 1]
               b == nodes[2 * i]
    <3>1. 2 * i \in 1 .. n
      BY <1>1, <2>2
    <3>2. a \in Node /\ b \in Node /\ Shaped(a, FALSE) /\ Shaped(b, FALSE)
      BY <1>1, <2>1, <3>1
    <3>3. two(i) = Branch(a, b)
      BY <2>2
    <3> HIDE DEF a, b, two
    <3> QED BY <3>2, <3>3, FullBranch
  <2>3. CASE ~(2 * i <= n)
    BY <1>1, <2>1, <2>3
  <2> QED BY <2>2, <2>3
<1> HIDE DEF two
<1> QED BY <1>3, <1>4, <1>5 DEF AllShaped

LEMMA MergeAllShaped ==
    ASSUME NEW s \in Seq(Char), NEW nodes, Row(nodes, s), AllShaped(nodes)
    PROVE  Shaped(MergeAll(nodes), FALSE)
<1> DEFINE r == Rounds(nodes)
           T == {i \in Nat : AllShaped(r[i])}
<1>1. r[0] = nodes /\ \A i \in Nat : r[i + 1] = Paired(r[i]) /\ Row(r[i], s)
  BY RoundsDefined
<1> HIDE DEF r
<1>2. 0 \in T
  BY <1>1
<1>3. ASSUME NEW i \in Nat, i \in T PROVE i + 1 \in T
  BY <1>1, <1>3, PairedShaped
<1>4. Nat \subseteq T
  <2> HIDE DEF T
  <2> QED BY <1>2, <1>3, NatSetInduction
<1>5. Len(nodes) \in Nat
  BY PairedIsARow
<1>6. Len(r[Len(nodes)]) \in Nat \ {0}
  BY <1>1, <1>5, PairedIsARow
<1>7. Shaped(r[Len(nodes)][1], FALSE)
  <2>1. AllShaped(r[Len(nodes)])
    BY <1>4, <1>5
  <2>2. 1 \in 1 .. Len(r[Len(nodes)])
    BY <1>6
  <2> QED BY <2>1, <2>2 DEF AllShaped
<1> QED BY <1>7 DEF MergeAll, r

LEMMA BuildShapes ==
    ASSUME NEW e \in BOOLEAN, NEW s \in Seq(Char), e => Even(Build(s))
    PROVE  Shape(Build(s), e)
<1>1. CASE s = <<>>
  BY <1>1 DEF Build, Shape
<1>2. CASE s # <<>>
  <2>1. Build(s) = MergeAll(Chunks(s))
    BY <1>2 DEF Build
  <2>2. Shaped(Build(s), FALSE)
    BY <1>2, <2>1, ChunksAreARow, ChunksShaped, MergeAllShaped
  <2> QED BY <2>2 DEF Shape, Shaped
<1> QED BY <1>1, <1>2

LEMMA InsertedShapes ==
    ASSUME NEW e \in BOOLEAN, NEW n, NEW pos \in Nat, NEW new \in Seq(Char),
           Shape(n, e), e => Even(Build(new))
    PROVE  Shape(Inserted(n, pos, new), e)
<1>1. CASE new = <<>>
  BY <1>1 DEF Inserted
<1>2. CASE new # <<>>
  <2> DEFINE s == Split(n, pos)
             b == Build(new)
  <2>1. Inserted(n, pos, new) = Join(Join(s[1], b), s[2])
    BY <1>2 DEF Inserted
  <2>2. Parted(s, e)
    BY SplitShapes
  <2>3. Shape(b, e)
    BY BuildShapes
  <2> HIDE DEF s, b
  <2>4. Shape(Join(s[1], b), e)
    BY <2>2, <2>3, JoinShapes DEF Parted
  <2> QED BY <2>1, <2>2, <2>4, JoinShapes DEF Parted
<1> QED BY <1>1, <1>2

LEMMA DeletedShapes ==
    ASSUME NEW e \in BOOLEAN, NEW n, NEW pos \in Nat, NEW count \in Nat, Shape(n, e)
    PROVE  Shape(Deleted(n, pos, count), e)
<1>0. TextLen(n) \in Nat
  <2>1. n \in Node
    BY EmptyIs DEF Shape, Shaped
  <2> QED BY <2>1, NodeOut DEF Counted
<1>1. CASE count = 0 \/ pos >= TextLen(n)
  BY <1>1 DEF Deleted
<1>2. CASE ~(count = 0 \/ pos >= TextLen(n))
  <2> DEFINE s == Split(n, pos)
             c == Least(count, TextLen(n) - pos)
             r == Split(s[2], c)
  <2>1. Deleted(n, pos, count) = Join(s[1], r[2])
    BY <1>2 DEF Deleted
  <2>2. Parted(s, e)
    BY SplitShapes
  <2>3. c \in Nat
    BY <1>0, <1>2 DEF Least
  <2> HIDE DEF s, c
  <2>4. Parted(r, e)
    BY <2>2, <2>3, SplitShapes DEF Parted
  <2> HIDE DEF r
  <2> QED BY <2>1, <2>2, <2>4, JoinShapes DEF Parted
<1> QED BY <1>1, <1>2

-----------------------------------------------------------------------------
(* How deep a balanced tree is.                                            *)

LEMMA TwosAre ==
    Twos[0] = 1 /\ \A h \in Nat : Twos[h] \in Nat /\ Twos[h + 1] = 2 * Twos[h]
<1> DEFINE V == [k \in Nat |-> Nat]
           step == [k \in Nat |-> [x \in Nat |-> 2 * x]]
           Rec(g) == [h \in Nat |-> IF h = 0 THEN 1 ELSE 2 * g[h - 1]]
<1>1. 1 \in V[0] /\ \A k \in Nat : \A x \in V[k] : step[k][x] = 2 * x /\ step[k][x] \in V[k + 1]
  OBVIOUS
<1>2. PICK f : IsRun(f, 1, step) /\ \A k \in Nat : f[k] \in V[k]
  <2> HIDE DEF V, step
  <2> QED BY <1>1, LayersExist
<1>3. \A k \in Nat : f[k + 1] = 2 * f[k]
  BY <1>1, <1>2 DEF IsRun
<1>4. f = Rec(f)
  <2>1. f = [k \in Nat |-> f[k]] /\ f[0] = 1
    BY <1>2 DEF IsRun
  <2>2. ASSUME NEW k \in Nat PROVE f[k] = IF k = 0 THEN 1 ELSE 2 * f[k - 1]
    <3>1. CASE k = 0
      BY <2>1, <3>1
    <3>2. CASE k # 0
      <4>1. k - 1 \in Nat /\ (k - 1) + 1 = k
        BY <3>2
      <4>2. f[(k - 1) + 1] = 2 * f[k - 1]
        BY <1>3, <4>1
      <4> QED BY <3>2, <4>1, <4>2
    <3> QED BY <3>1, <3>2
  <2> QED BY <2>1, <2>2
<1>5. Twos = CHOOSE g : g = Rec(g)
  BY DEF Twos
<1>6. Twos = Rec(Twos)
  <2> HIDE DEF Rec
  <2> QED BY <1>4, <1>5
<1>7. Twos[0] = 1
  BY <1>6
<1>8. ASSUME NEW h \in Nat PROVE Twos[h + 1] = 2 * Twos[h]
  <2>1. h + 1 \in Nat /\ h + 1 # 0 /\ (h + 1) - 1 = h
    OBVIOUS
  <2> QED BY <1>6, <2>1
<1> DEFINE T == {h \in Nat : Twos[h] \in Nat}
<1>9. Nat \subseteq T
  <2>1. 0 \in T
    BY <1>7
  <2>2. ASSUME NEW h \in Nat, h \in T PROVE h + 1 \in T
    BY <1>8, <2>2
  <2> HIDE DEF T
  <2> QED BY <2>1, <2>2, NatSetInduction
<1> QED BY <1>7, <1>8, <1>9

LEMMA SquareOfEquals ==
    ASSUME NEW a \in Nat, NEW b \in Nat, NEW p \in Nat, a * a >= p, b * b >= p
    PROVE  (a + b) * (a + b) >= 2 * p
OBVIOUS

LEMMA SquareOfNeighbours ==
    ASSUME NEW a \in Nat, NEW b \in Nat, NEW p \in Nat, a * a >= 2 * p, b * b >= p
    PROVE  /\ (a + b) * (a + b) >= 4 * p
           /\ (b + a) * (b + a) >= 4 * p
OBVIOUS

\* A balanced tree with k characters is at most twice as high as the logarithm of k.
LEMMA EvenIsShallow ==
    ASSUME NEW n \in Node, Shaped(n, TRUE)
    PROVE  Twos[Height(n)] <= TextLen(n) * TextLen(n)
<1> DEFINE Flat(m) == TextLen(m) * TextLen(m) >= Twos[Height(m)]
           T == {m \in Node : Shaped(m, TRUE) => Flat(m)}
<1>1. Leafs \subseteq T
  <2> SUFFICES ASSUME NEW m \in Leafs, Shaped(m, TRUE) PROVE m \in Node /\ Flat(m)
    BY NodeIs DEF Node
  <2>1. m \in Node /\ IsLeaf(m) /\ TextLen(m) \in Nat /\ TextLen(m) > 0
    BY LeafsAre, NodeOut DEF Shaped, Counted
  <2>2. Twos[Height(m)] = 1
    BY <2>1, TwosAre DEF Height
  <2> DEFINE k == TextLen(m)
  <2>3. k \in Nat /\ k > 0
    BY <2>1
  <2> HIDE DEF k
  <2>4. k * k >= 1
    BY <2>3
  <2> QED BY <2>1, <2>2, <2>4 DEF k
<1>2. ASSUME NEW l \in Node, NEW r \in Node, l \in T, r \in T PROVE Branch(l, r) \in T
  <2> DEFINE m == Branch(l, r)
             a == TextLen(l)
             b == TextLen(r)
             h == Height(l)
             k == Height(r)
  <2>1. /\ m \in Node /\ TextLen(m) = a + b /\ Height(m) = 1 + Most(h, k)
        /\ a \in Nat /\ b \in Nat /\ h \in Nat /\ k \in Nat
    BY BranchIn, NodeOut DEF Counted
  <2> SUFFICES ASSUME Shaped(m, TRUE) PROVE Flat(m)
    BY <2>1
  <2>2. Shaped(l, TRUE) /\ Shaped(r, TRUE) /\ h - k \in -1 .. 1
    BY ShapedBranch DEF Level
  <2>3. a * a >= Twos[h] /\ b * b >= Twos[k]
    BY <1>2, <2>2
  <2> HIDE DEF m, a, b, h, k
  <2>4. CASE h = k
    <3>1. Height(m) = h + 1
      BY <2>1, <2>4 DEF Most
    <3>2. Twos[Height(m)] = 2 * Twos[h] /\ Twos[h] \in Nat
      BY <2>1, <3>1, TwosAre
    <3>3. (a + b) * (a + b) >= 2 * Twos[h]
      BY <2>1, <2>3, <2>4, <3>2, SquareOfEquals
    <3> QED BY <2>1, <3>2, <3>3
  <2>5. CASE h = k + 1
    <3>1. Height(m) = (k + 1) + 1
      BY <2>1, <2>5 DEF Most
    <3>2. Twos[h] = 2 * Twos[k] /\ Twos[Height(m)] = 2 * Twos[h] /\ Twos[k] \in Nat
      BY <2>1, <2>5, <3>1, TwosAre
    <3> DEFINE p == Twos[k]
    <3>3. p \in Nat /\ a * a >= 2 * p /\ b * b >= p /\ Twos[Height(m)] = 2 * (2 * p)
      BY <2>3, <3>2
    <3> HIDE DEF p
    <3>4. (a + b) * (a + b) >= 4 * p
      BY <2>1, <3>3, SquareOfNeighbours
    <3>5. 2 * (2 * p) = 4 * p
      BY <3>3
    <3> QED BY <2>1, <3>3, <3>4, <3>5
  <2>6. CASE k = h + 1
    <3>1. Height(m) = (h + 1) + 1
      BY <2>1, <2>6 DEF Most
    <3>2. Twos[k] = 2 * Twos[h] /\ Twos[Height(m)] = 2 * Twos[k] /\ Twos[h] \in Nat
      BY <2>1, <2>6, <3>1, TwosAre
    <3> DEFINE p == Twos[h]
    <3>3. p \in Nat /\ b * b >= 2 * p /\ a * a >= p /\ Twos[Height(m)] = 2 * (2 * p)
      BY <2>3, <3>2
    <3> HIDE DEF p
    <3>4. (a + b) * (a + b) >= 4 * p
      BY <2>1, <3>3, SquareOfNeighbours
    <3>5. 2 * (2 * p) = 4 * p
      BY <3>3
    <3> QED BY <2>1, <3>3, <3>4, <3>5
  <2> QED BY <2>1, <2>2, <2>4, <2>5, <2>6
<1>3. Node \subseteq T
  <2> HIDE DEF T
  <2> QED BY <1>1, <1>2, TreeInduction
<1>4. Flat(n)
  BY <1>3
<1>5. TextLen(n) \in Nat /\ Twos[Height(n)] \in Nat
  BY NodeOut, TwosAre DEF Counted
<1> HIDE DEF T
<1>6. TextLen(n) * TextLen(n) \in Nat
  BY <1>5
<1> QED BY <1>4, <1>5, <1>6

-----------------------------------------------------------------------------

\* The tree has its shape, balanced if all that was built was.
ShapeInv == IInv /\ even \in BOOLEAN /\ Shape(root, even)

LEMMA ShapeFollows == ShapeInv => StaysShallow
<1> SUFFICES ASSUME ShapeInv PROVE StaysShallow
  OBVIOUS
<1>1. Filled(root) /\ (even => Even(root))
  BY EmptyIs DEF ShapeInv, Shape, Shaped
<1>2. ASSUME even, text # <<>> PROVE Twos[Height(root)] <= Len(text) * Len(text)
  <2>1. root \in Node /\ text \in Seq(Char) /\ TextLen(root) = Len(text)
    BY TextCounted DEF ShapeInv, IInv, Holds
  <2>2. Len(text) # 0
    BY <1>2, <2>1
  <2>3. Shaped(root, TRUE)
    BY <1>2, <2>1, <2>2, EmptyIs DEF ShapeInv, Shape, Shaped
  <2> QED BY <2>1, <2>3, EvenIsShallow
<1> QED BY <1>1, <1>2 DEF StaysShallow

LEMMA InitShapeInv == Init => ShapeInv
<1> SUFFICES ASSUME Init PROVE ShapeInv
  OBVIOUS
<1>1. IInv
  BY InitIInv
<1>2. even \in BOOLEAN /\ (even => Even(Build(text))) /\ root = Build(text)
  BY DEF Init, Even
<1> QED BY <1>1, <1>2, BuildShapes DEF ShapeInv, IInv

LEMMA EditShapes ==
    ASSUME ShapeInv, IInv', NEW pos, NEW count, NEW new, NEW result,
           Edit(pos, count, new, result),
           \A e \in BOOLEAN : Shape(root, e) /\ (e => Even(Build(new))) => Shape(result, e)
    PROVE  ShapeInv'
<1>1. even' \in BOOLEAN /\ (even' => even /\ Even(Build(new))) /\ root' = result
  BY DEF Edit, Even
<1>2. Shape(root, even')
  BY <1>1 DEF ShapeInv, Shape, Shaped
<1>3. Shape(result, even')
  BY <1>1, <1>2
<1> QED BY <1>1, <1>3 DEF ShapeInv, Shape, Shaped

LEMMA NextShapeInv == ShapeInv /\ [Next]_vars => ShapeInv'
<1> SUFFICES ASSUME ShapeInv, [Next]_vars PROVE ShapeInv'
  OBVIOUS
<1>1. IInv /\ IInv'
  BY NextIInv DEF ShapeInv
<1>2. Place \subseteq Nat /\ Insertions \subseteq Seq(Char)
  <2>1. Len(text) \in Nat
    BY <1>1, WholeSeq DEF IInv
  <2>2. Insertions \subseteq Seq(Char)
    BY SeqOfIsSeq, RopeAssumption DEF Insertions
  <2> QED BY <2>1, <2>2 DEF Place
<1>3. ASSUME NEW pos \in Place, NEW new \in Insertions, Insert(pos, new) PROVE ShapeInv'
  <2>1. \A e \in BOOLEAN : Shape(root, e) /\ (e => Even(Build(new)))
                             => Shape(Inserted(root, pos, new), e)
    BY <1>2, InsertedShapes
  <2> QED BY <1>1, <1>3, <2>1, EditShapes DEF Insert
<1>4. ASSUME NEW pos \in Place, NEW count \in Place, Delete(pos, count) PROVE ShapeInv'
  <2>1. \A e \in BOOLEAN : Shape(root, e) => Shape(Deleted(root, pos, count), e)
    BY <1>2, DeletedShapes
  <2> QED BY <1>1, <1>4, <2>1, EditShapes DEF Delete
<1>5. ASSUME NEW pos \in Place, NEW count \in Place, NEW new \in Insertions,
             Replace(pos, count, new)
      PROVE  ShapeInv'
  <2>1. \A e \in BOOLEAN : Shape(root, e) /\ (e => Even(Build(new)))
                             => Shape(Inserted(Deleted(root, pos, count), pos, new), e)
    BY <1>2, DeletedShapes, InsertedShapes
  <2> QED BY <1>1, <1>5, <2>1, EditShapes DEF Replace
<1>6. CASE UNCHANGED vars
  BY <1>1, <1>6 DEF vars, ShapeInv, Shape, Shaped
<1> QED BY <1>3, <1>4, <1>5, <1>6 DEF Next

\* Whatever is inserted, deleted and replaced, no leaf grows past its limit and no branch
\* holds an empty one; and as long as every tree built to be inserted was balanced, so is
\* the root, which with k characters is at most 2 log2(k) high (rope_buffer.rs:507-688).
THEOREM ShallowAlways == Spec => []StaysShallow
BY InitShapeInv, NextShapeInv, ShapeFollows, PTL DEF Spec

-----------------------------------------------------------------------------
(* What is built of a few leaves.                                          *)

\* A text that fits in four leaves is cut into four at most.
LEMMA FourChunks ==
    ASSUME NEW s \in Seq(Char), s # <<>>, Len(s) <= 4 * LeafMax
    PROVE  /\ Len(Chunks(s)) \in 1 .. 4
           /\ \A i \in 1 .. Len(Chunks(s)) :
                 LET c == Chunks(s)[i]
                 IN  c \in Node /\ Height(c) = 0 /\ Shaped(c, FALSE) /\ Even(c)
<1> DEFINE n == (Len(s) + LeafMax - 1) \div LeafMax
           part(i) == SubSeq(s, (i - 1) * LeafMax + 1, Least(i * LeafMax, Len(s)))
<1>1. Len(s) \in Nat \ {0} /\ LeafMax \in Nat \ {0}
  BY WholeSeq, RopeAssumption
<1>2. n \in Nat \ {0} /\ (n - 1) * LeafMax < Len(s)
  BY <1>1, DivUp
<1>3. Chunks(s) = [i \in 1 .. n |-> Leaf(part(i))]
  BY DEF Chunks
<1> HIDE DEF n, part
<1>4. Len(Chunks(s)) = n
  BY <1>2, <1>3
<1>5. n <= 4
  <2> SUFFICES ASSUME 4 <= n - 1 PROVE FALSE
    BY <1>2
  <2>1. 4 * LeafMax <= (n - 1) * LeafMax /\ n - 1 \in Nat
    BY <1>1, <1>2, TimesGrows
  <2>2. (n - 1) * LeafMax \in Nat /\ 4 * LeafMax \in Nat
    BY <1>1, <2>1, TimesGrows
  <2> QED BY <1>1, <1>2, <2>1, <2>2
<1>6. ASSUME NEW i \in 1 .. n
      PROVE  LET c == Chunks(s)[i]
             IN  c \in Node /\ Height(c) = 0 /\ Shaped(c, FALSE) /\ Even(c)
  <2> DEFINE c == Chunks(s)[i]
  <2>1. Shaped(c, FALSE)
    BY <1>4, ChunksShaped DEF AllShaped
  <2>2. c = Leaf(part(i))
    BY <1>3
  <2> HIDE DEF c
  <2>3. c \in Node /\ IsLeaf(c)
    BY <2>1, <2>2 DEF Shaped, IsLeaf, Leaf
  <2>4. c = Leaf(c.buf) /\ c.buf \in Seq(Char)
    BY <2>3, NodeOut
  <2>5. Even(c) /\ Height(c) = 0
    BY <2>3, <2>4, ShapeOfLeaf DEF Height
  <2> QED BY <2>1, <2>3, <2>5 DEF c
<1>7. n \in 1 .. 4
  BY <1>2, <1>5
<1> DEFINE Q(c) == c \in Node /\ Height(c) = 0 /\ Shaped(c, FALSE) /\ Even(c)
<1>8. \A i \in 1 .. n : Q(Chunks(s)[i])
  BY <1>6
<1> HIDE DEF Q
<1>9. Len(Chunks(s)) \in 1 .. 4 /\ \A i \in 1 .. Len(Chunks(s)) : Q(Chunks(s)[i])
  BY <1>4, <1>7, <1>8
<1> QED BY <1>9 DEF Q

\* Merging up to four leaves.
LEMMA FewMerge ==
    ASSUME NEW s \in Seq(Char), NEW nodes, Row(nodes, s), Len(nodes) \in 1 .. 4
    PROVE  MergeAll(nodes) =
             CASE Len(nodes) = 1 -> nodes[1]
               [] Len(nodes) = 2 -> Branch(nodes[1], nodes[2])
               [] Len(nodes) = 3 -> Branch(Branch(nodes[1], nodes[2]), nodes[3])
               [] Len(nodes) = 4 -> Branch(Branch(nodes[1], nodes[2]), Branch(nodes[3], nodes[4]))
<1> DEFINE r == Rounds(nodes)
<1>1. r[0] = nodes /\ \A i \in Nat : r[i + 1] = Paired(r[i])
  BY RoundsDefined
<1>2. MergeAll(nodes) = r[Len(nodes)][1]
  BY DEF MergeAll
<1> HIDE DEF r
<1>3. r[1] = Paired(nodes) /\ r[2] = Paired(r[1]) /\ r[3] = Paired(r[2]) /\ r[4] = Paired(r[3])
  <2>1. r[0 + 1] = Paired(r[0]) /\ r[1 + 1] = Paired(r[1])
        /\ r[2 + 1] = Paired(r[2]) /\ r[3 + 1] = Paired(r[3])
    BY <1>1
  <2> QED BY <1>1, <2>1
<1>4. ASSUME NEW x, Len(x) = 1 PROVE Len(Paired(x)) = 1 /\ Paired(x)[1] = x[1]
  <2>1. (Len(x) + 1) \div 2 = 1
    BY <1>4
  <2>2. Paired(x) = [i \in 1 .. 1 |-> IF 2 * i <= Len(x) THEN Branch(x[2 * i - 1], x[2 * i])
                                      ELSE x[2 * i - 1]]
    BY <2>1 DEF Paired
  <2>3. Paired(x)[1] = IF 2 * 1 <= Len(x) THEN Branch(x[2 * 1 - 1], x[2 * 1])
                       ELSE x[2 * 1 - 1]
    BY <2>2
  <2>4. ~(2 * 1 <= Len(x)) /\ 2 * 1 - 1 = 1
    BY <1>4
  <2> QED BY <2>2, <2>3, <2>4
<1>5. ASSUME NEW x, Len(x) = 2 PROVE Len(Paired(x)) = 1 /\ Paired(x)[1] = Branch(x[1], x[2])
  <2>1. (Len(x) + 1) \div 2 = 1
    BY <1>5
  <2>2. Paired(x) = [i \in 1 .. 1 |-> IF 2 * i <= Len(x) THEN Branch(x[2 * i - 1], x[2 * i])
                                      ELSE x[2 * i - 1]]
    BY <2>1 DEF Paired
  <2>3. Paired(x)[1] = IF 2 * 1 <= Len(x) THEN Branch(x[2 * 1 - 1], x[2 * 1])
                       ELSE x[2 * 1 - 1]
    BY <2>2
  <2>4. 2 * 1 <= Len(x) /\ 2 * 1 - 1 = 1 /\ 2 * 1 = 2
    BY <1>5
  <2> QED BY <2>2, <2>3, <2>4
<1>6. ASSUME NEW x, Len(x) \in {3, 4}
      PROVE  /\ Len(Paired(x)) = 2 /\ Paired(x)[1] = Branch(x[1], x[2])
             /\ Paired(x)[2] = IF Len(x) = 4 THEN Branch(x[3], x[4]) ELSE x[3]
  <2> DEFINE n == Len(x)
  <2>0. n \in {3, 4}
    BY <1>6
  <2> HIDE DEF n
  <2>1. (n + 1) \div 2 = 2
    <3>1. CASE n = 3
      BY <3>1
    <3>2. CASE n = 4
      BY <3>2
    <3> QED BY <2>0, <3>1, <3>2
  <2>2. Paired(x) = [i \in 1 .. 2 |-> IF 2 * i <= Len(x) THEN Branch(x[2 * i - 1], x[2 * i])
                                      ELSE x[2 * i - 1]]
    BY <2>1 DEF Paired, n
  <2>3. /\ Paired(x)[1] = IF 2 * 1 <= Len(x) THEN Branch(x[2 * 1 - 1], x[2 * 1])
                          ELSE x[2 * 1 - 1]
        /\ Paired(x)[2] = IF 2 * 2 <= Len(x) THEN Branch(x[2 * 2 - 1], x[2 * 2])
                          ELSE x[2 * 2 - 1]
    BY <2>2
  <2>4. 2 * 1 <= Len(x) /\ 2 * 1 - 1 = 1 /\ 2 * 1 = 2 /\ 2 * 2 - 1 = 3 /\ 2 * 2 = 4
        /\ (2 * 2 <= Len(x) <=> Len(x) = 4)
    <3>1. 2 * 1 <= n /\ (2 * 2 <= n <=> n = 4)
      BY <2>0
    <3> QED BY <3>1 DEF n
  <2> QED BY <2>2, <2>3, <2>4
<1>7. CASE Len(nodes) = 1
  BY <1>2, <1>3, <1>4, <1>7
<1>8. CASE Len(nodes) = 2
  BY <1>2, <1>3, <1>4, <1>5, <1>8
<1>9. CASE Len(nodes) = 3
  BY <1>2, <1>3, <1>4, <1>5, <1>6, <1>9
<1>10. CASE Len(nodes) = 4
  BY <1>2, <1>3, <1>4, <1>5, <1>6, <1>10
<1> QED BY <1>7, <1>8, <1>9, <1>10

\* What is built of a text that fits in four leaves is balanced (rope_buffer.rs:423-457);
\* five leaves make heights of two and zero.
THEOREM FourLeavesBuildEven ==
    ASSUME NEW s \in Seq(Char), Len(s) <= 4 * LeafMax
    PROVE  Even(Build(s))
<1>1. CASE s = <<>>
  BY <1>1, EmptyIs DEF Build
<1>2. CASE s # <<>>
  <2> DEFINE c == Chunks(s)
  <2>1. Row(c, s) /\ Len(c) \in 1 .. 4 /\ Build(s) = MergeAll(c)
    BY <1>2, ChunksAreARow, FourChunks DEF Build
  <2>2. \A i \in 1 .. Len(c) : /\ c[i] \in Node /\ Height(c[i]) = 0
                               /\ Shaped(c[i], FALSE) /\ Even(c[i])
    BY <1>2, FourChunks
  <2> HIDE DEF c
  <2>3. \A i \in 1 .. Len(c) : c[i] \in Node /\ Height(c[i]) = 0 /\ Shaped(c[i], TRUE)
    BY <2>2 DEF Shaped
  <2>4. ASSUME NEW x \in Node, NEW y \in Node, Shaped(x, TRUE), Shaped(y, TRUE),
               Height(x) \in 0 .. 1, Height(y) \in 0 .. 1
        PROVE  /\ Branch(x, y) \in Node /\ Shaped(Branch(x, y), TRUE)
               /\ Height(x) = 0 /\ Height(y) = 0 => Height(Branch(x, y)) = 1
    <3>1. Level(x, y) /\ (Height(x) = 0 /\ Height(y) = 0 => 1 + Most(Height(x), Height(y)) = 1)
      BY <2>4 DEF Level, Most
    <3>2. /\ Branch(x, y) \in Node /\ Shaped(Branch(x, y), TRUE)
          /\ Height(Branch(x, y)) = 1 + Most(Height(x), Height(y))
      BY <2>4, <3>1, EvenBranch
    <3> QED BY <3>1, <3>2
  <2> DEFINE Two(i, j) == Branch(c[i], c[j])
  <2>5. ASSUME NEW i \in 1 .. Len(c), NEW j \in 1 .. Len(c)
        PROVE  Two(i, j) \in Node /\ Shaped(Two(i, j), TRUE) /\ Height(Two(i, j)) = 1
    <3>1. /\ c[i] \in Node /\ Height(c[i]) = 0 /\ Shaped(c[i], TRUE)
          /\ c[j] \in Node /\ Height(c[j]) = 0 /\ Shaped(c[j], TRUE)
      BY <2>3
    <3>2. Height(c[i]) \in 0 .. 1 /\ Height(c[j]) \in 0 .. 1
      BY <3>1
    <3> QED BY <2>4, <3>1, <3>2
  <2>6. CASE Len(c) = 1
    <3>1. Build(s) = c[1] /\ 1 \in 1 .. Len(c)
      BY <2>1, <2>6, FewMerge
    <3> QED BY <2>2, <3>1
  <2>7. CASE Len(c) = 2
    <3>1. Build(s) = Branch(c[1], c[2]) /\ 1 \in 1 .. Len(c) /\ 2 \in 1 .. Len(c)
      BY <2>1, <2>7, FewMerge
    <3> QED BY <2>3, <2>4, <3>1 DEF Shaped
  <2>8. CASE Len(c) = 3
    <3> DEFINE x == Two(1, 2)
    <3>1. /\ Build(s) = Branch(x, c[3])
          /\ 1 \in 1 .. Len(c) /\ 2 \in 1 .. Len(c) /\ 3 \in 1 .. Len(c)
      BY <2>1, <2>8, FewMerge
    <3>2. x \in Node /\ Shaped(x, TRUE) /\ Height(x) = 1
      BY <2>5, <3>1
    <3> HIDE DEF x, Two
    <3> QED BY <2>3, <2>4, <3>1, <3>2 DEF Shaped
  <2>9. CASE Len(c) = 4
    <3> DEFINE x == Two(1, 2)
               y == Two(3, 4)
    <3>1. /\ Build(s) = Branch(x, y) /\ 1 \in 1 .. Len(c) /\ 2 \in 1 .. Len(c)
          /\ 3 \in 1 .. Len(c) /\ 4 \in 1 .. Len(c)
      BY <2>1, <2>9, FewMerge
    <3>2. x \in Node /\ Shaped(x, TRUE) /\ Height(x) = 1
      BY <2>5, <3>1
    <3>3. y \in Node /\ Shaped(y, TRUE) /\ Height(y) = 1
      BY <2>5, <3>1
    <3> HIDE DEF x, y, Two
    <3> QED BY <2>4, <3>1, <3>2, <3>3 DEF Shaped
  <2> QED BY <2>1, <2>6, <2>7, <2>8, <2>9
<1> QED BY <1>1, <1>2

LEMMA InsertionsFit ==
    ASSUME NEW s \in Insertions
    PROVE  s \in Seq(Char) /\ Len(s) <= MaxInsert
<1>1. PICK m \in 0 .. MaxInsert : s \in [1 .. m -> Char]
  BY DEF Insertions, SeqOf
<1>2. s \in Seq(Char) /\ Len(s) = m
  BY <1>1, RopeAssumption
<1> QED BY <1>1, <1>2, RopeAssumption

LEMMA NextEven ==
    ASSUME MaxInsert <= 4 * LeafMax
    PROVE  even /\ [Next]_vars => even'
<1> SUFFICES ASSUME even, [Next]_vars PROVE even'
  OBVIOUS
<1>1. ASSUME NEW new \in Seq(Char), Len(new) <= 4 * LeafMax, NEW pos, NEW count, NEW result,
             Edit(pos, count, new, result)
      PROVE  even'
  BY <1>1, FourLeavesBuildEven DEF Edit
<1>2. ASSUME NEW new \in Insertions PROVE new \in Seq(Char) /\ Len(new) <= 4 * LeafMax
  <2>1. new \in Seq(Char) /\ Len(new) <= MaxInsert /\ Len(new) \in Nat
    BY InsertionsFit, WholeSeq
  <2> QED BY <2>1, RopeAssumption
<1>3. ASSUME NEW pos \in Place, NEW new \in Insertions, Insert(pos, new) PROVE even'
  BY <1>1, <1>2, <1>3 DEF Insert
<1>4. ASSUME NEW pos \in Place, NEW count \in Place, Delete(pos, count) PROVE even'
  <2>1. <<>> \in Seq(Char) /\ Len(<<>>) <= 4 * LeafMax
    BY RopeAssumption
  <2> QED BY <1>1, <1>4, <2>1 DEF Delete
<1>5. ASSUME NEW pos \in Place, NEW count \in Place, NEW new \in Insertions,
             Replace(pos, count, new)
      PROVE  even'
  BY <1>1, <1>2, <1>5 DEF Replace
<1>6. CASE UNCHANGED vars
  BY <1>6 DEF vars
<1> QED BY <1>3, <1>4, <1>5, <1>6 DEF Next

\* A buffer whose first tree is balanced stays so through all edits that insert no more
\* at once than four leaves hold: typing never unbalances it (rope_buffer.rs:544-595).
THEOREM SmallEditsKeepEven ==
    ASSUME MaxInsert <= 4 * LeafMax
    PROVE  Spec /\ Even(root) => []Even(root)
<1>1. Init /\ Even(root) => ShapeInv /\ even
  BY InitShapeInv DEF Init
<1>2. ShapeInv /\ even /\ [Next]_vars => (ShapeInv /\ even)'
  BY NextShapeInv, NextEven
<1>3. ShapeInv /\ even => Even(root)
  BY ShapeFollows DEF StaysShallow
<1> QED BY <1>1, <1>2, <1>3, PTL DEF Spec
=============================================================================
