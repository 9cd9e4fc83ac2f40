----------------------------- MODULE FlowProofs -----------------------------
(***************************************************************************)
(* Theorems about MethodRun for every set of bodies and every bound: what  *)
(* the analysis reports of the paths it follows is true of them.           *)
(*                                                                         *)
(* The model recurses over statements through functions of their depth.    *)
(* That these exist, and what they give, comes first; then that the code   *)
(* lowering makes of a statement, followed by code that is right about the *)
(* environment the walk leaves, is right about the environment it began    *)
(* with (Translated).  The invariant says that the instructions left are   *)
(* right about an environment the heap agrees with.                        *)
(***************************************************************************)
EXTENDS MethodRun, TLAPS, WellFoundedInduction

-----------------------------------------------------------------------------
(* Induction and recursion.  A set takes the predicate's place, which the  *)
(* provers cannot instantiate in the library's theorems.                   *)

\* The order of the natural numbers, as a set.
Less == {ss \in Nat \X Nat : ss[1] < ss[2]}

\* Induction on the natural numbers.
LEMMA NatSetInduction ==
    ASSUME NEW T, 0 \in T, \A n \in Nat : n \in T => n + 1 \in T
    PROVE  Nat \subseteq T
<1> SUFFICES ASSUME Nat \ T # {} PROVE FALSE
  OBVIOUS
<1>1. IsWellFoundedOn(Less, Nat)
  BY NatLessThanWellFounded DEF OpToRel, Less
<1>2. PICK n \in Nat \ T : \A m \in Nat \ T : ~ (<<m, n>> \in Less)
  BY <1>1, WFMin
<1>3. n # 0 /\ n - 1 \in Nat /\ (n - 1) + 1 = n
  BY <1>2
<1>4. n - 1 \in T
  <2> SUFFICES ASSUME n - 1 \in Nat \ T PROVE FALSE
    BY <1>3
  <2>1. n - 1 < n
    BY <1>2, <1>3
  <2>2. <<n - 1, n>> \in Less
    BY <1>2, <1>3, <2>1 DEF Less
  <2> QED BY <1>2, <2>2
<1> QED BY <1>2, <1>3, <1>4

\* The same up to a bound.
LEMMA UptoInduction ==
    ASSUME NEW N \in Nat, NEW T, 0 \in T, \A i \in 0 .. N - 1 : i \in T => i + 1 \in T
    PROVE  0 .. N \subseteq T
<1> DEFINE U == {n \in Nat : n <= N => n \in T}
<1>1. 0 \in U
  OBVIOUS
<1>2. ASSUME NEW n \in Nat, n \in U PROVE n + 1 \in U
  <2> SUFFICES ASSUME n + 1 <= N PROVE n + 1 \in T
    OBVIOUS
  <2>1. n \in 0 .. N - 1 /\ n <= N
    OBVIOUS
  <2> QED BY <1>2, <2>1
<1>3. Nat \subseteq U
  <2> HIDE DEF U
  <2> QED BY <1>1, <1>2, NatSetInduction
<1> QED BY <1>3

\* f gets each value from the one before, by steps that lead from the sets V[i]
\* to the next.
IsFold(f, N, V, base, step) ==
    /\ f = [i \in 0 .. N |-> f[i]] /\ \A i \in 0 .. N : f[i] \in V[i]
    /\ f[0] = base /\ \A i \in 1 .. N : f[i] = step[i][f[i - 1]]

LEMMA LayersExist ==
    ASSUME NEW N \in Nat, NEW V, NEW base \in V[0], NEW step,
           \A i \in 1 .. N : \A x \in V[i - 1] : step[i][x] \in V[i]
    PROVE  \E f : IsFold(f, N, V, base, step)
<1> DEFINE Upto(n, f) == /\ \A i \in 0 .. n : f[i] \in V[i]
                         /\ f[0] = base /\ \A i \in 1 .. n : f[i] = step[i][f[i - 1]]
           T == {n \in Nat : \E f : Upto(n, f)}
<1>1. 0 \in T
  <2>1. Upto(0, [i \in 0 .. 0 |-> base])
    OBVIOUS
  <2> HIDE DEF Upto
  <2> QED BY <2>1
<1>2. ASSUME NEW n \in 0 .. N - 1, n \in T PROVE n + 1 \in T
  <2>1. PICK f : Upto(n, f)
    BY <1>2
  <2> DEFINE m == n + 1
             g == [i \in 0 .. m |-> IF i = m THEN step[m][f[n]] ELSE f[i]]
  <2>2. m \in 1 .. N /\ m \in Nat /\ n \in Nat /\ m - 1 = n /\ n # m
    OBVIOUS
  <2>3. n \in 0 .. n /\ 0 \in 0 .. n
    BY <2>2
  <2>4. step[m][f[n]] \in V[m]
    <3>1. f[n] \in V[m - 1]
      BY <2>1, <2>2, <2>3
    <3> HIDE DEF m
    <3> QED BY <2>2, <3>1
  <2>5. g[m] = step[m][f[n]] /\ \A i \in 0 .. n : g[i] = f[i]
    BY <2>2
  <2>6. \A i \in 1 .. m : i = m \/ (i \in 1 .. n /\ i \in 0 .. n /\ i - 1 \in 0 .. n)
    OBVIOUS
  <2>7. \A i \in 0 .. m : i = m \/ i \in 0 .. n
    OBVIOUS
  <2>8. Upto(m, g)
    <3> HIDE DEF m, g
    <3>1. g[0] = base /\ \A i \in 0 .. m : g[i] \in V[i]
      BY <2>1, <2>3, <2>4, <2>5, <2>7
    <3>2. ASSUME NEW i \in 1 .. m PROVE g[i] = step[i][g[i - 1]]
      <4>1. CASE i = m
        BY <2>2, <2>3, <2>5, <4>1
      <4>2. CASE i # m
        <5>1. i \in 1 .. n /\ i \in 0 .. n /\ i - 1 \in 0 .. n
          BY <2>6, <4>2
        <5>2. f[i] = step[i][f[i - 1]]
          BY <2>1, <5>1
        <5> QED BY <2>5, <5>1, <5>2
      <4> QED BY <4>1, <4>2
    <3> QED BY <3>1, <3>2
  <2> HIDE DEF g, m, Upto
  <2>9. m \in T
    BY <2>2, <2>8
  <2> QED BY <2>9 DEF m
<1>3. 0 .. N \subseteq T
  <2> HIDE DEF T
  <2> QED BY <1>1, <1>2, UptoInduction
<1>4. PICK f : Upto(N, f)
  BY <1>3
<1> DEFINE g == [i \in 0 .. N |-> f[i]]
<1>5. g = [i \in 0 .. N |-> g[i]] /\ \A i \in 0 .. N : g[i] = f[i]
  OBVIOUS
<1>6. 0 \in 0 .. N /\ \A i \in 1 .. N : i \in 0 .. N /\ i - 1 \in 0 .. N
  OBVIOUS
<1>7. Upto(N, g)
  <2> HIDE DEF g
  <2> QED BY <1>4, <1>5, <1>6
<1> HIDE DEF g
<1> QED BY <1>5, <1>7 DEF IsFold

-----------------------------------------------------------------------------
(* Sequences.                                                              *)

\* A sequence, of whatever.
IsSeq(c) == c \in Seq({c[i] : i \in DOMAIN c})

LEMMA SeqIsSeq ==
    ASSUME NEW S, NEW c \in Seq(S)
    PROVE  IsSeq(c)
<1>1. c \in [1 .. Len(c) -> {c[i] : i \in DOMAIN c}] /\ Len(c) \in Nat
  OBVIOUS
<1>2. c \in Seq({c[i] : i \in DOMAIN c})
  BY <1>1
<1> QED BY <1>2 DEF IsSeq

\* Sequences have a set of elements in common.
LEMMA CommonSet ==
    ASSUME NEW a, NEW b, NEW c, IsSeq(a), IsSeq(b), IsSeq(c)
    PROVE  \E S : a \in Seq(S) /\ b \in Seq(S) /\ c \in Seq(S)
<1> DEFINE S == {a[i] : i \in DOMAIN a} \cup {b[i] : i \in DOMAIN b} \cup {c[i] : i \in DOMAIN c}
<1>1. ASSUME NEW x, NEW A, NEW B, x \in Seq(A), A \subseteq B
      PROVE  x \in Seq(B)
  BY <1>1
<1>2. a \in Seq(S)
  <2>1. {a[i] : i \in DOMAIN a} \subseteq S
    OBVIOUS
  <2> HIDE DEF S
  <2> QED BY <1>1, <2>1 DEF IsSeq
<1>3. b \in Seq(S)
  <2>1. {b[i] : i \in DOMAIN b} \subseteq S
    OBVIOUS
  <2> HIDE DEF S
  <2> QED BY <1>1, <2>1 DEF IsSeq
<1>4. c \in Seq(S)
  <2>1. {c[i] : i \in DOMAIN c} \subseteq S
    OBVIOUS
  <2> HIDE DEF S
  <2> QED BY <1>1, <2>1 DEF IsSeq
<1> HIDE DEF S
<1> QED BY <1>2, <1>3, <1>4

LEMMA ConcatIsSeq ==
    ASSUME NEW a, NEW b, IsSeq(a), IsSeq(b)
    PROVE  IsSeq(a \o b)
<1>1. PICK S : a \in Seq(S) /\ b \in Seq(S)
  BY CommonSet
<1>2. a \o b \in Seq(S)
  BY <1>1
<1> QED BY <1>2, SeqIsSeq

Associate(a, b, c) == (a \o b) \o c = a \o (b \o c)

LEMMA ConcatAssoc ==
    ASSUME NEW a, NEW b, NEW c, IsSeq(a), IsSeq(b), IsSeq(c)
    PROVE  Associate(a, b, c)
<1>1. PICK S : a \in Seq(S) /\ b \in Seq(S) /\ c \in Seq(S)
  BY CommonSet
<1> QED BY <1>1 DEF Associate

LEMMA EmptyConcat ==
    ASSUME NEW c, IsSeq(c)
    PROVE  <<>> \o c = c
<1>1. PICK S : c \in Seq(S)
  BY DEF IsSeq
<1> QED BY <1>1

LEMMA OneIsSeq ==
    ASSUME NEW x
    PROVE  IsSeq(<<x>>)
<1>1. <<x>> \in Seq({x})
  OBVIOUS
<1> QED BY <1>1, SeqIsSeq

\* The first instruction of a sequence, and the rest of it.
LEMMA FirstAndRest ==
    ASSUME NEW x, NEW c, IsSeq(c)
    PROVE  /\ IsSeq(<<x>> \o c) /\ <<x>> \o c # <<>>
           /\ Head(<<x>> \o c) = x /\ Tail(<<x>> \o c) = c
<1>1. PICK S : <<x>> \in Seq(S) /\ c \in Seq(S)
  BY OneIsSeq, CommonSet
<1>2. x \in S
  BY <1>1
<1>3. /\ <<x>> \o c # <<>> /\ Head(<<x>> \o c) = x /\ Tail(<<x>> \o c) = c
  BY <1>1, <1>2
<1> QED BY <1>3, OneIsSeq, ConcatIsSeq

-----------------------------------------------------------------------------
(* Statements.                                                             *)

Grown(S) == Leaf \cup Over(S)

\* The sets of statements of bounded depth are defined.
LEMMA StmtLayers ==
    /\ StmtOf[0] = Leaf
    /\ \A h \in 1 .. MaxDepth : StmtOf[h] = Grown(StmtOf[h - 1])
<1> DEFINE Rec(f) == [h \in Depth |-> Leaf \cup IF h = 0 THEN {} ELSE Over(f[h - 1])]
           Upto(n, f) == f[0] = Leaf /\ \A i \in 1 .. n : f[i] = Grown(f[i - 1])
           T == {n \in Nat : \E f : Upto(n, f)}
<1>0. MaxDepth \in Nat
  BY LocalAssumption
<1>1. 0 \in T
  <2>1. Upto(0, [i \in 0 .. 0 |-> Leaf])
    OBVIOUS
  <2> HIDE DEF Upto
  <2> QED BY <2>1
<1>2. ASSUME NEW n \in Nat, n \in T PROVE n + 1 \in T
  <2>1. PICK f : Upto(n, f)
    BY <1>2
  <2> DEFINE m == n + 1
             g == [i \in 0 .. m |-> IF i = m THEN Grown(f[n]) ELSE f[i]]
  <2>2. m \in Nat /\ m - 1 = n /\ n # m /\ n \in 0 .. n /\ 0 \in 0 .. n
    OBVIOUS
  <2>3. g[m] = Grown(f[n]) /\ \A i \in 0 .. n : g[i] = f[i]
    BY <2>2
  <2>4. \A i \in 1 .. m : i = m \/ (i \in 1 .. n /\ i \in 0 .. n /\ i - 1 \in 0 .. n)
    OBVIOUS
  <2> HIDE DEF m, g
  <2>5. ASSUME NEW i \in 1 .. m PROVE g[i] = Grown(g[i - 1])
    <3>1. CASE i = m
      BY <2>2, <2>3, <3>1
    <3>2. CASE i # m
      BY <2>1, <2>3, <2>4, <3>2
    <3> QED BY <3>1, <3>2
  <2>6. Upto(m, g)
    BY <2>1, <2>2, <2>3, <2>5
  <2> HIDE DEF Upto
  <2>7. m \in T
    BY <2>2, <2>6
  <2> QED BY <2>7 DEF m
<1>3. Nat \subseteq T
  <2> HIDE DEF T
  <2> QED BY <1>1, <1>2, NatSetInduction
<1>4. PICK f : Upto(MaxDepth, f)
  BY <1>0, <1>3
<1> DEFINE g == [h \in Depth |-> f[h]]
<1>5. g = [h \in Depth |-> g[h]] /\ \A h \in Depth : g[h] = f[h]
  OBVIOUS
<1>6. 0 \in Depth /\ \A h \in Depth : h = 0 \/ (h \in 1 .. MaxDepth /\ h - 1 \in Depth)
  BY <1>0 DEF Depth
<1>7. g = Rec(g)
  <2> SUFFICES ASSUME NEW h \in Depth
               PROVE  g[h] = Leaf \cup IF h = 0 THEN {} ELSE Over(g[h - 1])
    <3> HIDE DEF g
    <3> QED BY <1>5
  <2> HIDE DEF g
  <2>1. CASE h = 0
    BY <1>4, <1>5, <1>6, <2>1
  <2>2. CASE h # 0
    BY <1>4, <1>5, <1>6, <2>2 DEF Grown
  <2> QED BY <2>1, <2>2
<1>8. StmtOf = CHOOSE k : k = Rec(k)
  BY DEF StmtOf
<1>9. StmtOf = Rec(StmtOf)
  <2> HIDE DEF Rec, g
  <2> QED BY <1>7, <1>8
<1>10. 0 \in Depth /\ \A h \in 1 .. MaxDepth : h \in Depth /\ h # 0
  BY <1>0 DEF Depth
<1> QED BY <1>9, <1>10 DEF Grown

LEMMA OverGrows ==
    ASSUME NEW S, NEW U, S \subseteq U
    PROVE  Over(S) \subseteq Over(U)
<1>1. ASSUME NEW A, NEW B, A \subseteq B PROVE Seq(A) \subseteq Seq(B)
  BY <1>1
<1>2. Seq(S) \subseteq Seq(U) /\ Seq(Seq(S)) \subseteq Seq(Seq(U))
  BY <1>1
<1> QED BY <1>2 DEF Over

\* A statement of some depth is one of any greater depth.
LEMMA StmtGrows ==
    ASSUME NEW h \in Depth
    PROVE  StmtOf[h] \subseteq Stmt
<1> DEFINE T == {n \in Nat : n < MaxDepth => StmtOf[n] \subseteq StmtOf[n + 1]}
           U == {n \in Nat : n <= MaxDepth => StmtOf[MaxDepth - n] \subseteq Stmt}
<1>0. MaxDepth \in Nat
  BY LocalAssumption
<1>1. Nat \subseteq T
  <2>1. 0 \in T
    <3>1. 0 < MaxDepth => 0 + 1 \in 1 .. MaxDepth
      BY <1>0
    <3> QED BY <3>1, StmtLayers DEF Grown
  <2>2. ASSUME NEW n \in Nat, n \in T PROVE n + 1 \in T
    <3> DEFINE m == n + 1
    <3> SUFFICES ASSUME m < MaxDepth PROVE StmtOf[m] \subseteq StmtOf[m + 1]
      OBVIOUS
    <3>1. m \in 1 .. MaxDepth /\ m + 1 \in 1 .. MaxDepth /\ m - 1 = n /\ (m + 1) - 1 = m
      BY <1>0
    <3>2. StmtOf[n] \subseteq StmtOf[m]
      BY <1>0, <2>2
    <3> HIDE DEF m
    <3>3. Over(StmtOf[n]) \subseteq Over(StmtOf[m])
      BY <3>2, OverGrows
    <3>4. StmtOf[m] = Grown(StmtOf[n]) /\ StmtOf[m + 1] = Grown(StmtOf[m])
      BY <3>1, StmtLayers
    <3> QED BY <3>3, <3>4 DEF Grown
  <2> HIDE DEF T
  <2> QED BY <2>1, <2>2, NatSetInduction
<1>2. Nat \subseteq U
  <2>1. 0 \in U
    BY <1>0 DEF Stmt
  <2>2. ASSUME NEW n \in Nat, n \in U PROVE n + 1 \in U
    <3> SUFFICES ASSUME n + 1 <= MaxDepth PROVE StmtOf[MaxDepth - (n + 1)] \subseteq Stmt
      OBVIOUS
    <3> DEFINE m == MaxDepth - (n + 1)
    <3>1. m \in Nat /\ m < MaxDepth /\ m + 1 = MaxDepth - n /\ n <= MaxDepth
      BY <1>0
    <3>2. StmtOf[MaxDepth - n] \subseteq Stmt
      BY <2>2, <3>1
    <3> HIDE DEF m
    <3>3. StmtOf[m] \subseteq StmtOf[m + 1]
      BY <1>1, <3>1
    <3>4. StmtOf[m] \subseteq Stmt
      BY <3>1, <3>2, <3>3
    <3> QED BY <3>4 DEF m
  <2> HIDE DEF U
  <2> QED BY <2>1, <2>2, NatSetInduction
<1>3. MaxDepth - h \in Nat /\ MaxDepth - h <= MaxDepth /\ MaxDepth - (MaxDepth - h) = h
  BY <1>0 DEF Depth
<1>4. MaxDepth - h \in U
  BY <1>2, <1>3
<1> QED BY <1>3, <1>4

\* The fields of a statement that contains no others.
LEMMA LeafFields ==
    ASSUME NEW s \in Leaf
    PROVE  \/ s.op \in {"let", "assign"} /\ s.var \in Var /\ s.value \in Value
           \/ s.op \in {"pass", "store", "alias"} /\ s.var \in Var
           \/ s.op = "delete" /\ s.var \in Var
           \/ s.op = "return" /\ s.var \in Var \cup {NoVar}
           \/ s.op \in {"break", "continue"}
BY DEF Leaf

LEMMA OverFields ==
    ASSUME NEW S, NEW s \in Over(S)
    PROVE  \/ s.op = "block" /\ s.stmts \in Seq(S)
           \/ s.op = "if" /\ s.then \in S /\ s.els \in Seq(S)
           \/ s.op \in {"while", "do", "defer"} /\ s.body \in S
           \/ s.op = "switch" /\ s.arms \in Seq(Seq(S)) /\ s.default \in BOOLEAN
BY DEF Over

LEMMA StmtCases ==
    ASSUME NEW h \in Depth, NEW s \in StmtOf[h]
    PROVE  s \in Leaf \/ (h # 0 /\ h - 1 \in Depth /\ s \in Over(StmtOf[h - 1]))
<1>1. h = 0 \/ (h \in 1 .. MaxDepth /\ h - 1 \in Depth /\ h # 0)
  BY LocalAssumption DEF Depth
<1> QED BY <1>1, StmtLayers DEF Grown

LEMMA InsideLeaf ==
    ASSUME NEW s \in Leaf
    PROVE  Inside(s) = {}
BY LeafFields DEF Inside

LEMMA InsideOver ==
    ASSUME NEW S, NEW s \in Over(S)
    PROVE  Inside(s) \subseteq S
<1>1. ASSUME NEW c \in Seq(S) PROVE ToSet(c) \subseteq S
  BY DEF ToSet
<1>2. CASE s.op = "block" /\ s.stmts \in Seq(S)
  BY <1>1, <1>2 DEF Inside
<1>3. CASE s.op = "if" /\ s.then \in S /\ s.els \in Seq(S)
  BY <1>1, <1>3 DEF Inside
<1>4. CASE s.op \in {"while", "do", "defer"} /\ s.body \in S
  BY <1>4 DEF Inside
<1>5. CASE s.op = "switch" /\ s.arms \in Seq(Seq(S))
  <2>1. \A i \in DOMAIN s.arms : s.arms[i] \in Seq(S)
    BY <1>5
  <2>2. \A i \in DOMAIN s.arms : ToSet(s.arms[i]) \subseteq S
    BY <1>1, <2>1
  <2>3. Inside(s) = UNION {ToSet(s.arms[i]) : i \in DOMAIN s.arms}
    BY <1>5 DEF Inside
  <2> QED BY <2>2, <2>3
<1> QED BY <1>2, <1>3, <1>4, <1>5, OverFields

-----------------------------------------------------------------------------
(* The kinds of statements.                                                *)

KindsIn(g, s) == {s.op} \cup UNION {g[t] : t \in Inside(s)}

LEMMA KindsLayers ==
    \A h \in Depth : \A s \in StmtOf[h] : kindsAt[h][s] = KindsIn(kindsAt[h - 1], s)
<1> DEFINE Op == {s.op : s \in Stmt}
           V == [h \in Depth |-> [StmtOf[h] -> SUBSET Op]]
           base == [s \in StmtOf[0] |-> {s.op}]
           step == [h \in 1 .. MaxDepth |->
                      [g \in V[h - 1] |-> [s \in StmtOf[h] |-> KindsIn(g, s)]]]
           Rec(f) == [h \in Depth |-> [s \in StmtOf[h] |->
                        {s.op} \cup UNION {f[h - 1][t] : t \in Inside(s)}]]
<1>0. MaxDepth \in Nat
  BY LocalAssumption
<1>1. 0 \in Depth /\ \A h \in 1 .. MaxDepth : h \in Depth /\ h - 1 \in Depth /\ h # 0
  BY <1>0 DEF Depth
<1>2. \A h \in Depth : \A s \in StmtOf[h] : s.op \in Op
  BY StmtGrows
<1>3. base \in V[0]
  BY <1>1, <1>2
<1>4. ASSUME NEW h \in 1 .. MaxDepth, NEW g \in V[h - 1] PROVE step[h][g] \in V[h]
  <2>1. g \in [StmtOf[h - 1] -> SUBSET Op]
    BY <1>1
  <2>2. ASSUME NEW s \in StmtOf[h] PROVE KindsIn(g, s) \in SUBSET Op
    <3>1. Inside(s) \subseteq StmtOf[h - 1]
      BY <1>1, StmtCases, InsideLeaf, InsideOver
    <3>2. \A t \in Inside(s) : g[t] \subseteq Op
      BY <2>1, <3>1
    <3>3. s.op \in Op
      BY <1>1, <1>2
    <3> HIDE DEF Op
    <3> QED BY <3>2, <3>3 DEF KindsIn
  <2>3. step[h][g] = [s \in StmtOf[h] |-> KindsIn(g, s)]
    <3> HIDE DEF V
    <3> QED OBVIOUS
  <2>4. [s \in StmtOf[h] |-> KindsIn(g, s)] \in [StmtOf[h] -> SUBSET Op]
    <3> HIDE DEF Op
    <3> QED BY <2>2
  <2> QED BY <1>1, <2>3, <2>4
<1>a. PICK f : IsFold(f, MaxDepth, V, base, step)
  <2> HIDE DEF V, base, step
  <2> QED BY <1>0, <1>3, <1>4, LayersExist
<1>5. /\ f = [i \in 0 .. MaxDepth |-> f[i]] /\ \A i \in 0 .. MaxDepth : f[i] \in V[i]
      /\ f[0] = base /\ \A i \in 1 .. MaxDepth : f[i] = step[i][f[i - 1]]
  <2> HIDE DEF V, base, step
  <2> QED BY <1>a DEF IsFold
<1>6. f = Rec(f)
  <2> SUFFICES ASSUME NEW h \in Depth
               PROVE  f[h] = [s \in StmtOf[h] |-> {s.op} \cup UNION {f[h - 1][t] : t \in Inside(s)}]
    <3> HIDE DEF V, base, step
    <3> QED BY <1>5 DEF Depth
  <2>1. CASE h = 0
    <3>1. ASSUME NEW s \in StmtOf[0]
          PROVE  {s.op} \cup UNION {f[h - 1][t] : t \in Inside(s)} = {s.op}
      <4>1. Inside(s) = {}
        BY StmtLayers, InsideLeaf
      <4> QED BY <4>1
    <3> QED BY <1>5, <2>1, <3>1
  <2>2. CASE h # 0
    <3>1. h \in 1 .. MaxDepth /\ h - 1 \in Depth /\ h - 1 \in 0 .. MaxDepth
      BY <1>0, <2>2 DEF Depth
    <3>2. f[h] = step[h][f[h - 1]] /\ f[h - 1] \in V[h - 1]
      <4> HIDE DEF V, base, step
      <4> QED BY <1>5, <3>1
    <3>3. f[h] = [s \in StmtOf[h] |-> KindsIn(f[h - 1], s)]
      <4> HIDE DEF V
      <4> QED BY <3>1, <3>2
    <3> QED BY <3>3 DEF KindsIn
  <2> QED BY <2>1, <2>2
<1>7. kindsAt = CHOOSE k : k = Rec(k)
  BY DEF kindsAt
<1>8. kindsAt = Rec(kindsAt)
  <2> HIDE DEF Rec
  <2> QED BY <1>6, <1>7
<1> SUFFICES ASSUME NEW h \in Depth, NEW s \in StmtOf[h]
             PROVE  kindsAt[h][s] = {s.op} \cup UNION {kindsAt[h - 1][t] : t \in Inside(s)}
  BY DEF KindsIn
<1>9. kindsAt[h] = [t \in StmtOf[h] |-> {t.op} \cup UNION {kindsAt[h - 1][u] : u \in Inside(t)}]
  <2> HIDE DEF V, base, step
  <2> QED BY <1>8
<1> HIDE DEF V, base, step, Rec
<1> QED BY <1>9, Zenon

\* A statement made only of some kinds contains only such.
LEMMA KindsInside ==
    ASSUME NEW h \in Depth, NEW s \in StmtOf[h], NEW K, kindsAt[h][s] \subseteq K
    PROVE  /\ s.op \in K
           /\ \A t \in Inside(s) : kindsAt[h - 1][t] \subseteq K
BY KindsLayers DEF KindsIn

-----------------------------------------------------------------------------
(* The walk of the analysis.                                               *)

Straight == {"let", "assign", "delete", "pass", "store", "alias"}

LEMMA FlowKind ==
    ASSUME NEW env \in Env, NEW s, s.op \in Straight, s.var \in Var
    PROVE  Flow(env, s) \in Env
<1>1. \A k \in State : [env EXCEPT ![s.var] = k] \in Env
  BY DEF Env
<1>2. AllocKind(s.value) \in State
  BY DEF AllocKind, State
<1>3. env[s.var] \in State
  BY DEF Env
<1>4. {"Deleted", "untracked", "Dropped", "Moved"} \subseteq State
  BY DEF State
<1>5. /\ Delete(env, s.var) \in Env /\ FlowArg(env, s.var) \in Env
      /\ SetDropped(env, s.var) \in Env /\ SetMoved(env, s.var) \in Env
  BY <1>1, <1>3, <1>4 DEF Delete, FlowArg, SetDropped, SetMoved
<1>6. CASE s.op \in {"let", "assign"}
  BY <1>1, <1>2, <1>6 DEF Flow
<1>7. CASE s.op \in {"delete", "pass", "store", "alias"}
  BY <1>5, <1>7 DEF Flow
<1> QED BY <1>6, <1>7 DEF Straight

LEMMA MergeKind ==
    ASSUME NEW a \in Env, NEW b \in Env
    PROVE  Merge(a, b) \in Env
BY DEF Merge, Env, State

\* What a walk over codes of C results in.
Walks(C) == [code : C, env : Env, falls : BOOLEAN]

WalkedOn(before, next) ==
    IF before.falls THEN Walked(Append(before.code, next.code), next.env, next.falls)
    ELSE before

\* a is the walk over a sequence of statements, step by step.
IsWalk(a, g, stmts, env) ==
    /\ a[0] = Walked(<<>>, env, TRUE)
    /\ \A i \in 1 .. Len(stmts) : a[i] = WalkedOn(a[i - 1], g[stmts[i]][a[i - 1].env])

LEMMA WalkSteps ==
    ASSUME NEW S, NEW g \in [S -> [Env -> Walks(S)]], NEW stmts \in Seq(S), NEW env \in Env
    PROVE  \E a : /\ IsWalk(a, g, stmts, env) /\ WalkSeqBy(g, stmts, env) = a[Len(stmts)]
                  /\ \A i \in 0 .. Len(stmts) : a[i] \in Walks(Seq(S))
<1> DEFINE N == Len(stmts)
           D == Walks(Seq(S))
           V == [i \in 0 .. N |-> D]
           base == Walked(<<>>, env, TRUE)
           step == [i \in 1 .. N |-> [w \in D |-> WalkedOn(w, g[stmts[i]][w.env])]]
           Rec(f) == [i \in 0 .. N |->
                        IF i = 0 THEN Walked(<<>>, env, TRUE)
                        ELSE LET before == f[i - 1]
                                 next   == g[stmts[i]][before.env]
                             IN  IF before.falls
                                 THEN Walked(Append(before.code, next.code), next.env, next.falls)
                                 ELSE before]
           a == CHOOSE f : f = Rec(f)
<1>0. N \in Nat /\ N \in 0 .. N /\ 0 \in 0 .. N /\ \A i \in 1 .. N :
          i \in 0 .. N /\ i - 1 \in 0 .. N /\ i # 0
  OBVIOUS
<1>1. base \in D
  BY DEF Walked, Walks
<1>2. ASSUME NEW i \in 1 .. N, NEW w \in D PROVE WalkedOn(w, g[stmts[i]][w.env]) \in D
  <2>1. stmts[i] \in S /\ w.env \in Env /\ w.code \in Seq(S)
    BY DEF Walks
  <2>2. g[stmts[i]][w.env] \in Walks(S)
    BY <2>1
  <2> DEFINE next == g[stmts[i]][w.env]
  <2> HIDE DEF next
  <2>3. next.code \in S /\ next.env \in Env /\ next.falls \in BOOLEAN
    BY <2>2 DEF Walks, next
  <2>4. Append(w.code, next.code) \in Seq(S)
    BY <2>1, <2>3
  <2>5. Walked(Append(w.code, next.code), next.env, next.falls) \in D
    BY <2>3, <2>4 DEF Walked, Walks
  <2> HIDE DEF D
  <2>6. WalkedOn(w, next) \in D
    BY <2>5 DEF WalkedOn
  <2> QED BY <2>6 DEF next
<1>3. PICK f : IsFold(f, N, V, base, step)
  <2>1. base \in V[0]
    <3> HIDE DEF D, base
    <3> QED BY <1>0, <1>1
  <2>2. \A i \in 1 .. N : \A x \in V[i - 1] : step[i][x] \in V[i]
    <3> HIDE DEF D, base
    <3> QED BY <1>0, <1>2
  <2> HIDE DEF D, V, base, step, N
  <2> QED BY <1>0, <2>1, <2>2, LayersExist
<1>4. f = Rec(f)
  <2> SUFFICES ASSUME NEW i \in 0 .. N
               PROVE  f[i] = IF i = 0 THEN base ELSE WalkedOn(f[i - 1], g[stmts[i]][f[i - 1].env])
    <3>1. f = [i \in 0 .. N |-> f[i]]
      BY <1>3 DEF IsFold
    <3> HIDE DEF N
    <3> QED BY <3>1 DEF WalkedOn
  <2> HIDE DEF D, base, step, N
  <2>1. CASE i = 0
    BY <1>3, <2>1 DEF IsFold
  <2>2. CASE i # 0
    <3>1. i \in 1 .. N /\ i - 1 \in 0 .. N
      BY <1>0, <2>2
    <3>2. f[i] = step[i][f[i - 1]] /\ f[i - 1] \in V[i - 1]
      BY <1>3, <3>1 DEF IsFold
    <3>3. f[i - 1] \in D
      BY <3>1, <3>2
    <3>4. step[i][f[i - 1]] = WalkedOn(f[i - 1], g[stmts[i]][f[i - 1].env])
      BY <3>1, <3>3 DEF step
    <3> QED BY <2>2, <3>2, <3>4
  <2> QED BY <2>1, <2>2
<1>5. a = Rec(a)
  <2> HIDE DEF Rec
  <2> QED BY <1>4
<1>6. WalkSeqBy(g, stmts, env) = a[N]
  BY DEF WalkSeqBy
<1> HIDE DEF a
<1>7. IsWalk(a, g, stmts, env)
  <2>1. a[0] = base
    <3> HIDE DEF N
    <3> QED BY <1>0, <1>5
  <2>2. ASSUME NEW i \in 1 .. N PROVE a[i] = WalkedOn(a[i - 1], g[stmts[i]][a[i - 1].env])
    <3> HIDE DEF N
    <3> QED BY <1>0, <1>5 DEF WalkedOn
  <2> QED BY <2>1, <2>2 DEF IsWalk
<1>8. \A i \in 0 .. N : a[i] \in D
  <2> DEFINE T == {i \in 0 .. N : a[i] \in D}
  <2> HIDE DEF D, N
  <2>1. 0 \in T
    BY <1>0, <1>1, <1>7 DEF IsWalk
  <2>2. ASSUME NEW i \in 0 .. N - 1, i \in T PROVE i + 1 \in T
    <3> DEFINE j == i + 1
    <3>1. j \in 1 .. N /\ j \in 0 .. N /\ j - 1 = i
      BY <1>0
    <3> HIDE DEF j
    <3>2. a[j] = WalkedOn(a[i], g[stmts[j]][a[i].env])
      BY <1>7, <3>1 DEF IsWalk, N
    <3>3. a[j] \in D
      BY <1>2, <2>2, <3>1, <3>2
    <3>4. j \in T
      BY <3>1, <3>3
    <3> QED BY <3>4 DEF j
  <2> HIDE DEF T
  <2>3. 0 .. N \subseteq T
    BY <1>0, <2>1, <2>2, UptoInduction
  <2> QED BY <2>3 DEF T
<1> HIDE DEF Rec
<1> QED BY <1>6, <1>7, <1>8

\* The walk w over a sequence of statements goes through the first of them, one for
\* each code it leaves; a[j] is its result after j.
Through(a, w, g, stmts) ==
    LET m == Len(w.code)
    IN  /\ m <= Len(stmts) /\ a[m].env = w.env /\ a[m].falls = w.falls
        /\ \A j \in 1 .. m :
              LET r == g[stmts[j]][a[j - 1].env]
              IN  a[j - 1].falls /\ w.code[j] = r.code /\ a[j].env = r.env /\ a[j].falls = r.falls

LEMMA WalkThrough ==
    ASSUME NEW S, NEW g \in [S -> [Env -> Walks(S)]], NEW stmts \in Seq(S), NEW env \in Env
    PROVE  LET w == WalkSeqBy(g, stmts, env)
           IN  /\ w \in Walks(Seq(S))
               /\ \E a : /\ Through(a, w, g, stmts) /\ a[0].env = env /\ a[0].falls
                         /\ \A j \in 0 .. Len(w.code) : a[j].env \in Env /\ a[j].falls \in BOOLEAN
<1> DEFINE N == Len(stmts)
           w == WalkSeqBy(g, stmts, env)
<1>1. PICK a : /\ IsWalk(a, g, stmts, env) /\ w = a[N]
               /\ \A i \in 0 .. N : a[i] \in Walks(Seq(S))
  BY WalkSteps
<1> DEFINE OK(i) == /\ Through(a, a[i], g, stmts) /\ (a[i].falls => Len(a[i].code) = i)
                    /\ Len(a[i].code) <= i
           T == {i \in 0 .. N : OK(i)}
<1>0. N \in Nat /\ N \in 0 .. N /\ 0 \in 0 .. N
  OBVIOUS
<1>2. 0 \in T
  <2>1. a[0].code = <<>> /\ a[0].env = env /\ a[0].falls = TRUE
    BY <1>1 DEF IsWalk, Walked
  <2> QED BY <1>0, <2>1 DEF Through
<1>3. ASSUME NEW i \in 0 .. N - 1, i \in T PROVE i + 1 \in T
  <2> DEFINE j == i + 1
             r == g[stmts[j]][a[i].env]
  <2>1. j \in 1 .. N /\ j \in 0 .. N /\ j - 1 = i /\ i \in 0 .. N /\ i \in Nat /\ i < j /\ i <= N
    BY <1>0
  <2>2. a[i].env \in Env /\ a[i].code \in Seq(S) /\ a[i].falls \in BOOLEAN
    BY <1>1, <2>1 DEF Walks
  <2>3. OK(i)
    BY <1>3
  <2> HIDE DEF j
  <2>4. a[j] = WalkedOn(a[i], r)
    BY <1>1, <2>1 DEF IsWalk
  <2>5. OK(j)
    <3>1. CASE ~a[i].falls
      <4>1. a[j] = a[i]
        BY <2>4, <3>1 DEF WalkedOn
      <4>2. Len(a[i].code) \in Nat
        BY <2>2
      <4> HIDE DEF r
      <4> QED BY <2>1, <2>3, <3>1, <4>1, <4>2
    <3>2. CASE a[i].falls
      <4> DEFINE c == a[i].code
      <4>1. Len(c) = i
        BY <2>3, <3>2
      <4>2. stmts[j] \in S
        BY <2>1
      <4>3. r.code \in S
        BY <2>2, <4>2 DEF Walks
      <4>4. a[j].code = Append(c, r.code) /\ a[j].env = r.env /\ a[j].falls = r.falls
        <5> HIDE DEF r
        <5>1. a[j] = Walked(Append(c, r.code), r.env, r.falls)
          BY <2>4, <3>2 DEF WalkedOn
        <5> HIDE DEF c
        <5> QED BY <5>1 DEF Walked
      <4> HIDE DEF c, r
      <4>5. c \in Seq(S)
        BY <2>2 DEF c
      <4>6. /\ Len(a[j].code) = j /\ a[j].code[j] = r.code
            /\ \A n \in 1 .. i : a[j].code[n] = c[n]
        BY <2>1, <4>1, <4>3, <4>4, <4>5 DEF j
      <4>7. ASSUME NEW n \in 1 .. j
            PROVE  LET q == g[stmts[n]][a[n - 1].env]
                   IN  /\ a[n - 1].falls /\ a[j].code[n] = q.code
                       /\ a[n].env = q.env /\ a[n].falls = q.falls
        <5>1. CASE n = j
          BY <2>1, <3>2, <4>4, <4>6, <5>1 DEF r
        <5>2. CASE n # j
          <6>1. n \in 1 .. i
            BY <5>2 DEF j
          <6>2. Len(a[i].code) = i
            BY <4>1 DEF c
          <6>3. LET q == g[stmts[n]][a[n - 1].env]
                IN  /\ a[n - 1].falls /\ c[n] = q.code
                    /\ a[n].env = q.env /\ a[n].falls = q.falls
            BY <2>3, <6>1, <6>2 DEF Through, c
          <6> QED BY <4>6, <6>1, <6>3
        <5> QED BY <5>1, <5>2
      <4>8. Through(a, a[j], g, stmts)
        <5>1. j <= Len(stmts)
          BY <2>1
        <5> HIDE DEF N
        <5> QED BY <4>6, <4>7, <5>1 DEF Through
      <4>9. Len(a[j].code) <= j
        BY <2>1, <4>6
      <4> QED BY <4>6, <4>8, <4>9
    <3> QED BY <2>2, <3>1, <3>2
  <2>6. j \in T
    BY <2>1, <2>5
  <2> QED BY <2>6 DEF j
<1>4. 0 .. N \subseteq T
  <2> HIDE DEF T, N
  <2> QED BY <1>0, <1>2, <1>3, UptoInduction
<1>5. OK(N)
  <2> HIDE DEF N, OK
  <2> QED BY <1>0, <1>4
<1>6. w \in Walks(Seq(S)) /\ Through(a, w, g, stmts) /\ Len(w.code) <= N
  <2> HIDE DEF w
  <2> QED BY <1>0, <1>1, <1>5
<1>7. \A j \in 0 .. Len(w.code) : a[j].env \in Env /\ a[j].falls \in BOOLEAN
  <2> HIDE DEF w
  <2>1. w.code \in Seq(S)
    BY <1>6 DEF Walks
  <2>2. \A j \in 0 .. Len(w.code) : j \in 0 .. N
    BY <1>0, <1>6, <2>1
  <2> HIDE DEF N
  <2> QED BY <1>1, <2>2 DEF Walks
<1>8. a[0].env = env /\ a[0].falls
  BY <1>1 DEF IsWalk, Walked
<1> HIDE DEF w
<1> QED BY <1>6, <1>7, <1>8 DEF w

\* The walks of the statements of S.
WalkersOf(S) == [S -> [Env -> Walks(S)]]

LEMMA LeafWalk ==
    ASSUME NEW g, NEW s \in Leaf, NEW env \in Env
    PROVE  WalkBy(g, s, env) \in Walks(Leaf)
<1>1. CASE s.op \in {"let", "assign", "pass", "store", "alias"} /\ s.var \in Var
  <2>1. WalkBy(g, s, env) = Walked(s, Flow(env, s), TRUE)
    BY <1>1 DEF WalkBy
  <2>2. Flow(env, s) \in Env
    BY <1>1, FlowKind DEF Straight
  <2> QED BY <2>1, <2>2 DEF Walked, Walks
<1>2. CASE s.op = "delete" /\ s.var \in Var
  <2>1. WalkBy(g, s, env) = WalkDelete(s, env)
    BY <1>2 DEF WalkBy
  <2>2. Flow(env, s) \in Env
    BY <1>2, FlowKind DEF Straight
  <2>3. [op |-> s.op, var |-> s.var, alarm |-> DeleteAlarm(env, s.var)] \in Leaf
    BY <1>2 DEF Leaf, DeleteAlarm, Alarm, NoAlarm
  <2> QED BY <2>1, <2>2, <2>3 DEF WalkDelete, Walked, Walks
<1>3. CASE s.op = "return" /\ s.var \in Var \cup {NoVar}
  <2> DEFINE after == IF s.var \in Var THEN SetMoved(env, s.var) ELSE env
  <2>1. WalkBy(g, s, env) = WalkReturn(s, env)
    BY <1>3 DEF WalkBy
  <2>2. after \in Env
    BY DEF SetMoved, Env, State
  <2>3. ExitScan(after) \in SUBSET Var
    BY DEF ExitScan
  <2>4. [op |-> s.op, var |-> s.var, leaks |-> ExitScan(after)] \in Leaf
    <3> HIDE DEF after
    <3> QED BY <1>3, <2>3 DEF Leaf
  <2>5. WalkReturn(s, env)
          = Walked([op |-> s.op, var |-> s.var, leaks |-> ExitScan(after)], after, FALSE)
    BY DEF WalkReturn
  <2> HIDE DEF after
  <2> QED BY <2>1, <2>2, <2>4, <2>5 DEF Walked, Walks
<1>4. CASE s.op \in {"break", "continue"}
  <2>1. WalkBy(g, s, env) = Walked(s, env, FALSE)
    BY <1>4 DEF WalkBy
  <2> QED BY <2>1 DEF Walked, Walks
<1> QED BY <1>1, <1>2, <1>3, <1>4, LeafFields

LEMMA OverWalk ==
    ASSUME NEW S, NEW g \in WalkersOf(S), NEW s \in Over(S), NEW env \in Env
    PROVE  WalkBy(g, s, env) \in Walks(Over(S))
<1>0. ASSUME NEW stmts \in Seq(S) PROVE WalkSeqBy(g, stmts, env) \in Walks(Seq(S))
  BY <1>0, WalkThrough DEF WalkersOf
<1>1. CASE s.op = "block" /\ s.stmts \in Seq(S)
  <2> DEFINE b == WalkSeqBy(g, s.stmts, env)
  <2>1. b \in Walks(Seq(S))
    BY <1>0, <1>1
  <2> HIDE DEF b
  <2>2. [op |-> s.op, stmts |-> b.code] \in Over(S)
    BY <1>1, <2>1 DEF Over, Walks
  <2>3. WalkBy(g, s, env) = Walked([op |-> s.op, stmts |-> b.code], b.env, b.falls)
    BY <1>1 DEF WalkBy, WalkBlockBy, b
  <2> QED BY <2>1, <2>2, <2>3 DEF Walked, Walks
<1>2. CASE s.op = "if" /\ s.then \in S /\ s.els \in Seq(S)
  <2> DEFINE t == g[s.then][env]
             e == WalkSeqBy(g, s.els, env)
             joined == CASE t.falls = e.falls -> Merge(t.env, e.env)
                         [] t.falls /\ ~e.falls -> t.env
                         [] ~t.falls /\ e.falls -> e.env
  <2>1. t \in Walks(S) /\ e \in Walks(Seq(S))
    BY <1>0, <1>2 DEF WalkersOf
  <2>2. WalkBy(g, s, env) = WalkIfBy(g, s, env)
    BY <1>2 DEF WalkBy
  <2>3. WalkIfBy(g, s, env)
          = Walked([op |-> s.op, then |-> t.code, els |-> e.code], joined, t.falls \/ e.falls)
    BY DEF WalkIfBy
  <2> HIDE DEF t, e
  <2>4. t.env \in Env /\ e.env \in Env /\ t.falls \in BOOLEAN /\ e.falls \in BOOLEAN
    BY <2>1 DEF Walks
  <2>5. joined \in Env
    BY <2>4, MergeKind
  <2> HIDE DEF joined
  <2>6. [op |-> s.op, then |-> t.code, els |-> e.code] \in Over(S)
    BY <1>2, <2>1 DEF Over, Walks
  <2>7. (t.falls \/ e.falls) \in BOOLEAN
    OBVIOUS
  <2> QED BY <2>2, <2>3, <2>5, <2>6, <2>7 DEF Walked, Walks
<1>3. CASE s.op \in {"while", "do", "defer"} /\ s.body \in S
  <2> DEFINE b == g[s.body][env]
  <2>1. b \in Walks(S)
    BY <1>3 DEF WalkersOf
  <2> HIDE DEF b
  <2>2. Merge(env, b.env) \in Env
    BY <2>1, MergeKind DEF Walks
  <2>3. [op |-> s.op, body |-> b.code] \in Over(S)
    BY <1>3, <2>1 DEF Over, Walks
  <2>4. WalkBy(g, s, env) = Walked([op |-> s.op, body |-> b.code], Merge(env, b.env), TRUE)
    BY <1>3 DEF WalkBy, WalkOnceBy, b
  <2> QED BY <2>2, <2>3, <2>4 DEF Walked, Walks
<1>4. CASE s.op = "switch" /\ s.arms \in Seq(Seq(S)) /\ s.default \in BOOLEAN
  <2> DEFINE arm == [i \in DOMAIN s.arms |-> WalkSeqBy(g, s.arms[i], env)]
             codes == [i \in DOMAIN arm |-> arm[i].code]
             merged == [v \in Var |->
                          IF \A i \in DOMAIN arm : arm[i].falls => arm[i].env[v] = env[v]
                                      THEN env[v] ELSE "untracked"]
  <2>1. \A i \in DOMAIN arm : arm[i] \in Walks(Seq(S))
    BY <1>0, <1>4
  <2>2. codes \in Seq(Seq(S))
    <3>1. ASSUME NEW i \in 1 .. Len(s.arms) PROVE codes[i] \in Seq(S)
      <4>1. i \in DOMAIN arm
        BY <1>4
      <4>2. codes[i] = arm[i].code
        BY <4>1
      <4>3. arm[i] \in Walks(Seq(S))
        BY <2>1, <4>1
      <4> HIDE DEF arm, codes
      <4> QED BY <4>2, <4>3 DEF Walks
    <3>2. /\ DOMAIN codes = 1 .. Len(s.arms) /\ Len(s.arms) \in Nat
          /\ codes = [i \in 1 .. Len(s.arms) |-> codes[i]]
      BY <1>4
    <3> HIDE DEF codes
    <3> QED BY <3>1, <3>2
  <2>3. merged \in Env
    <3> HIDE DEF arm
    <3> QED BY DEF Env, State
  <2>4. WalkBy(g, s, env) = WalkSwitchBy(g, s, env)
    BY <1>4 DEF WalkBy
  <2>5. WalkSwitchBy(g, s, env)
          = Walked([op |-> s.op, arms |-> codes, default |-> s.default], merged, TRUE)
    BY DEF WalkSwitchBy
  <2> HIDE DEF codes, merged
  <2>6. [op |-> s.op, arms |-> codes, default |-> s.default] \in Over(S)
    BY <1>4, <2>2 DEF Over
  <2> QED BY <2>3, <2>4, <2>5, <2>6 DEF Walked, Walks
<1> QED BY <1>1, <1>2, <1>3, <1>4, OverFields

\* What the walk gives for a statement, in terms of the walks one level down.
LEMMA WalkLayers ==
    \A h \in Depth :
        /\ walkAt[h] \in WalkersOf(StmtOf[h])
        /\ \A s \in StmtOf[h], env \in Env : walkAt[h][s][env] = WalkBy(walkAt[h - 1], s, env)
<1> DEFINE V == [h \in Depth |-> WalkersOf(StmtOf[h])]
           Layer(h, g) == [s \in StmtOf[h] |-> [env \in Env |-> WalkBy(g, s, env)]]
           base == Layer(0, <<>>)
           step == [h \in 1 .. MaxDepth |-> [g \in V[h - 1] |-> Layer(h, g)]]
           Rec(f) == [h \in Depth |-> [s \in StmtOf[h] |-> [env \in Env |->
                        WalkBy(IF h = 0 THEN <<>> ELSE f[h - 1], s, env)]]]
<1>0. MaxDepth \in Nat
  BY LocalAssumption
<1>1. 0 \in Depth /\ \A h \in 1 .. MaxDepth : h \in Depth /\ h - 1 \in Depth /\ h # 0
  BY <1>0 DEF Depth
<1>2. ASSUME NEW g PROVE Layer(0, g) \in V[0]
  <2>1. \A s \in StmtOf[0], env \in Env : WalkBy(g, s, env) \in Walks(StmtOf[0])
    BY StmtLayers, LeafWalk
  <2> QED BY <1>1, <2>1 DEF WalkersOf
<1>3. ASSUME NEW h \in 1 .. MaxDepth, NEW g \in V[h - 1] PROVE Layer(h, g) \in V[h]
  <2> DEFINE S == StmtOf[h - 1]
  <2>1. g \in WalkersOf(S)
    BY <1>1
  <2>2. StmtOf[h] = Leaf \cup Over(S)
    BY StmtLayers DEF Grown
  <2> HIDE DEF S
  <2>3. ASSUME NEW s \in StmtOf[h], NEW env \in Env
        PROVE  WalkBy(g, s, env) \in Walks(StmtOf[h])
    <3>1. CASE s \in Leaf
      BY <2>2, <3>1, LeafWalk DEF Walks
    <3>2. CASE s \in Over(S)
      BY <2>1, <2>2, <3>2, OverWalk DEF Walks
    <3> QED BY <2>2, <3>1, <3>2
  <2> QED BY <1>1, <2>3 DEF WalkersOf
<1>4. PICK f : IsFold(f, MaxDepth, V, base, step)
  <2>1. base \in V[0]
    <3> HIDE DEF V, Layer
    <3> QED BY <1>2
  <2>2. \A h \in 1 .. MaxDepth : \A g \in V[h - 1] : step[h][g] \in V[h]
    <3> HIDE DEF V, Layer
    <3> QED BY <1>3
  <2> HIDE DEF V, base, step
  <2> QED BY <1>0, <2>1, <2>2, LayersExist
<1>5. f = Rec(f)
  <2> SUFFICES ASSUME NEW h \in Depth
               PROVE  f[h] = Layer(h, IF h = 0 THEN <<>> ELSE f[h - 1])
    <3>1. f = [h \in Depth |-> f[h]]
      BY <1>4 DEF IsFold, Depth
    <3> QED BY <3>1
  <2> HIDE DEF Layer, V
  <2>1. CASE h = 0
    BY <1>4, <2>1 DEF IsFold
  <2>2. CASE h # 0
    <3>1. h \in 1 .. MaxDepth /\ h - 1 \in 0 .. MaxDepth
      BY <1>0, <2>2 DEF Depth
    <3>2. f[h] = step[h][f[h - 1]] /\ f[h - 1] \in V[h - 1]
      <4> HIDE DEF base, step
      <4> QED BY <1>4, <3>1 DEF IsFold
    <3>3. f[h] = Layer(h, f[h - 1])
      BY <3>1, <3>2
    <3> QED BY <2>2, <3>3
  <2> QED BY <2>1, <2>2
<1>6. walkAt = CHOOSE k : k = Rec(k)
  BY DEF walkAt
<1>7. walkAt = Rec(walkAt)
  <2> HIDE DEF Rec
  <2> QED BY <1>5, <1>6
<1>8. \A h \in Depth : walkAt[h] = Layer(h, IF h = 0 THEN <<>> ELSE walkAt[h - 1])
  BY <1>7
<1>9. \A h \in Depth : walkAt[h] \in V[h]
  <2> DEFINE T == {h \in Nat : h \in Depth => walkAt[h] \in V[h]}
  <2> HIDE DEF Layer, V, Rec
  <2>1. 0 \in T
    BY <1>1, <1>2, <1>8
  <2>2. ASSUME NEW n \in Nat, n \in T PROVE n + 1 \in T
    <3> DEFINE h == n + 1
    <3> SUFFICES ASSUME h \in Depth PROVE walkAt[h] \in V[h]
      OBVIOUS
    <3>1. h \in 1 .. MaxDepth /\ h # 0 /\ h - 1 = n /\ n \in Depth
      BY <1>0 DEF Depth
    <3> HIDE DEF h
    <3> QED BY <1>3, <1>8, <2>2, <3>1
  <2>3. Nat \subseteq T
    <3> HIDE DEF T
    <3> QED BY <2>1, <2>2, NatSetInduction
  <2>4. \A h \in Depth : h \in Nat
    BY <1>0 DEF Depth
  <2> QED BY <2>3, <2>4
<1>10. ASSUME NEW h \in Depth, NEW s \in StmtOf[h], NEW env \in Env
       PROVE  walkAt[h][s][env] = WalkBy(walkAt[h - 1], s, env)
  <2> DEFINE below == IF h = 0 THEN <<>> ELSE walkAt[h - 1]
  <2>1. walkAt[h][s][env] = WalkBy(below, s, env)
    <3>1. walkAt[h] = Layer(h, below)
      BY <1>8
    <3> HIDE DEF below
    <3>2. Layer(h, below)[s][env] = WalkBy(below, s, env)
      BY Zenon
    <3> HIDE DEF Layer
    <3> QED BY <3>1, <3>2
  <2>2. CASE h # 0
    BY <2>1, <2>2
  <2>3. CASE h = 0
    <3>1. s \in Leaf
      BY <2>3, StmtLayers
    <3> HIDE DEF Layer, V, Rec, below
    <3>2. \A g : WalkBy(g, s, env) = WalkBy(<<>>, s, env)
      BY <3>1, LeafFields DEF WalkBy
    <3>3. WalkBy(below, s, env) = WalkBy(<<>>, s, env)
      BY <3>2
    <3> QED BY <2>1, <3>2, <3>3
  <2> QED BY <2>2, <2>3
<1> HIDE DEF Layer, Rec, base, step
<1>11. \A h \in Depth : V[h] = WalkersOf(StmtOf[h])
  BY DEF V
<1> HIDE DEF V
<1> QED BY <1>9, <1>10, <1>11

-----------------------------------------------------------------------------
(* The states of lowering.                                                 *)

\* The states lowering is in where nothing is deferred: the allocations that
\* are registered have sites of their own.
AllocOf(n) == [site : 1 .. n, kind : {"direct", "slot"}, bind : Var \cup {NoVar}]
FrameOf(n) == [entry : Nat, allocs : Seq(AllocOf(n)), defers : {<<>>}, nesting : Nat]
Good       == {low \in Lowering : low.frames # <<>> /\ low.frames \in Seq(FrameOf(low.sites))}

\* Lowering a statement leads from low to next.
Onto(low, next) ==
    /\ next \in Good /\ Len(next.frames) = Len(low.frames)
    /\ next.loops = low.loops /\ low.sites <= next.sites

LEMMA SeqMonotone ==
    ASSUME NEW A, NEW B, A \subseteq B
    PROVE  Seq(A) \subseteq Seq(B)
OBVIOUS

LEMMA FramesGrow ==
    ASSUME NEW m \in Nat, NEW n \in Nat, m <= n
    PROVE  Seq(FrameOf(m)) \subseteq Seq(FrameOf(n))
<1>1. AllocOf(m) \subseteq AllocOf(n)
  BY DEF AllocOf
<1>2. Seq(AllocOf(m)) \subseteq Seq(AllocOf(n))
  BY <1>1, SeqMonotone
<1>3. FrameOf(m) \subseteq FrameOf(n)
  BY <1>2 DEF FrameOf
<1> QED BY <1>3, SeqMonotone

LEMMA FramesKind ==
    ASSUME NEW n \in Nat
    PROVE  Seq(FrameOf(n)) \subseteq Seq(Frames)
<1>1. AllocOf(n) \subseteq Alloc
  BY DEF AllocOf, Alloc
<1>2. Seq(AllocOf(n)) \subseteq Seq(Alloc)
  BY <1>1, SeqMonotone
<1>3. <<>> \in Seq(Deferred)
  OBVIOUS
<1>4. FrameOf(n) \subseteq Frames
  BY <1>2, <1>3 DEF FrameOf, Frames
<1> QED BY <1>4, SeqMonotone

\* Changes that keep a state of lowering good.
LEMMA GoodRest ==
    ASSUME NEW low \in Good, NEW next \in Lowering,
           next.frames = low.frames, next.loops = low.loops, next.sites = low.sites
    PROVE  Onto(low, next)
<1>1. low.frames # <<>> /\ low.frames \in Seq(FrameOf(low.sites)) /\ low.sites \in Nat
  BY DEF Good, Lowering
<1>2. next \in Good /\ low.sites <= next.sites
  BY <1>1 DEF Good
<1> QED BY <1>2 DEF Onto

LEMMA OntoTrans ==
    ASSUME NEW a \in Good, NEW b, NEW c, Onto(a, b), Onto(b, c)
    PROVE  Onto(a, c)
<1>1. a.sites \in Nat /\ b.sites \in Nat /\ c.sites \in Nat
  BY DEF Onto, Good, Lowering
<1> QED BY <1>1 DEF Onto

LEMMA OntoSelf ==
    ASSUME NEW a \in Good
    PROVE  Onto(a, a)
<1>1. a.sites \in Nat
  BY DEF Good, Lowering
<1> QED BY <1>1 DEF Onto

\* Opening basic blocks.
LEMMA SwitchToGood ==
    ASSUME NEW low \in Good
    PROVE  /\ Onto(low, SwitchTo(low)) /\ ~SwitchTo(low).ended
           /\ Onto(low, Branch(low)) /\ ~Branch(low).ended
           /\ \A n \in Nat : Onto(low, Join(low, n)) /\ ~Join(low, n).ended
<1>1. low \in Lowering
  BY DEF Good
<1>2. low.blocks + 1 \in Nat /\ low.nesting \in Nat /\ low.nesting + 1 \in Nat
  BY <1>1 DEF Lowering
<1>3. ASSUME NEW n \in Nat PROVE Onto(low, Join(low, n)) /\ ~Join(low, n).ended
  <2> DEFINE next == Join(low, n)
  <2>1. next \in Lowering
    BY <1>1, <1>2 DEF Join, SwitchTo, Lowering
  <2>2. /\ next.frames = low.frames /\ next.loops = low.loops /\ next.sites = low.sites
        /\ next.ended = FALSE
    BY <1>1 DEF Join, SwitchTo, Lowering
  <2> HIDE DEF next
  <2>3. Onto(low, next)
    BY <2>1, <2>2, GoodRest
  <2> QED BY <2>2, <2>3 DEF next
<1>4. Branch(low) = Join(low, low.nesting + 1) /\ SwitchTo(low) = Join(low, low.nesting)
  BY <1>1 DEF Join, Branch, SwitchTo, Lowering
<1> QED BY <1>2, <1>3, <1>4

\* Noting a gap.
LEMMA GapGood ==
    ASSUME NEW low \in Good, NEW name \in Gaps, NEW found
    PROVE  Onto(low, Gap(low, name, found)) /\ Gap(low, name, found).ended = low.ended
<1> DEFINE next == Gap(low, name, found)
           gaps == IF found THEN low.gaps \cup {name} ELSE low.gaps
<1>1. low \in Lowering
  BY DEF Good
<1>2. gaps \in SUBSET Gaps
  BY <1>1 DEF Lowering
<1>3. next = [low EXCEPT !.gaps = gaps]
  BY <1>1 DEF Gap, Lowering
<1> HIDE DEF gaps, next
<1>4. next \in Lowering
  BY <1>1, <1>2, <1>3 DEF Lowering
<1>5. /\ next.frames = low.frames /\ next.loops = low.loops /\ next.sites = low.sites
      /\ next.ended = low.ended
  BY <1>1, <1>3 DEF Lowering
<1>6. Onto(low, next)
  BY <1>4, <1>5, GoodRest
<1> QED BY <1>5, <1>6 DEF next

\* Changing the frames and the sites.
Reframed(low, frames, sites) == [low EXCEPT !.frames = frames, !.sites = sites]

LEMMA GoodFrames ==
    ASSUME NEW low \in Good, NEW sites \in Nat, NEW frames \in Seq(FrameOf(sites)),
           frames # <<>>
    PROVE  LET next == Reframed(low, frames, sites)
           IN  /\ next \in Good /\ next.frames = frames /\ next.sites = sites
               /\ next.loops = low.loops /\ next.ended = low.ended
<1> DEFINE next == [low EXCEPT !.frames = frames, !.sites = sites]
<1>1. low \in Lowering
  BY DEF Good
<1>2. frames \in Seq(Frames)
  BY FramesKind
<1>3. next \in Lowering
  BY <1>1, <1>2 DEF Lowering
<1>4. /\ next.frames = frames /\ next.sites = sites /\ next.loops = low.loops
      /\ next.ended = low.ended
  BY <1>1 DEF Lowering
<1> HIDE DEF next
<1>5. next \in Good
  BY <1>3, <1>4 DEF Good
<1> QED BY <1>4, <1>5 DEF next, Reframed

\* Opening and closing a frame.
LEMMA PushGood ==
    ASSUME NEW low \in Good
    PROVE  /\ Push(low) \in Good /\ Len(Push(low).frames) = Len(low.frames) + 1
           /\ Push(low).sites = low.sites /\ Push(low).loops = low.loops
           /\ Push(low).ended = low.ended
<1> DEFINE frames == Append(low.frames, Frame(low.block, low.nesting))
           next == [low EXCEPT !.frames = frames, !.sites = low.sites]
<1>1. low \in Lowering /\ low.frames \in Seq(FrameOf(low.sites))
  BY DEF Good
<1>2. low.block \in Nat /\ low.nesting \in Nat /\ low.sites \in Nat
  BY <1>1 DEF Lowering
<1>3. <<>> \in Seq(AllocOf(low.sites))
  OBVIOUS
<1>4. Frame(low.block, low.nesting) \in FrameOf(low.sites)
  BY <1>2, <1>3 DEF Frame, FrameOf
<1>5. /\ frames \in Seq(FrameOf(low.sites)) /\ frames # <<>>
      /\ Len(frames) = Len(low.frames) + 1
  BY <1>1, <1>4
<1>6. next = Push(low)
  BY <1>1 DEF Push, Lowering
<1> HIDE DEF frames
<1>7. /\ next \in Good /\ next.frames = frames /\ next.sites = low.sites
      /\ next.loops = low.loops /\ next.ended = low.ended
  <2>1. next = Reframed(low, frames, low.sites)
    BY DEF Reframed
  <2> HIDE DEF next
  <2> QED BY <1>2, <1>5, <2>1, GoodFrames
<1> HIDE DEF next
<1> QED BY <1>5, <1>6, <1>7

LEMMA PopGood ==
    ASSUME NEW low \in Good, Len(low.frames) > 1
    PROVE  /\ Pop(low) \in Good /\ Len(Pop(low).frames) = Len(low.frames) - 1
           /\ Pop(low).sites = low.sites /\ Pop(low).loops = low.loops
           /\ Pop(low).ended = low.ended
<1> DEFINE frames == Front(low.frames)
           next == [low EXCEPT !.frames = frames, !.sites = low.sites]
<1>1. low \in Lowering /\ low.frames \in Seq(FrameOf(low.sites)) /\ low.sites \in Nat
  BY DEF Good, Lowering
<1>2. /\ frames \in Seq(FrameOf(low.sites)) /\ frames # <<>>
      /\ Len(frames) = Len(low.frames) - 1
  <2> DEFINE F == FrameOf(low.sites)
             k == Len(low.frames) - 1
  <2>1. low.frames \in Seq(F) /\ k \in 1 .. Len(low.frames) /\ k <= Len(low.frames)
    BY <1>1
  <2> HIDE DEF F
  <2>2. SubSeq(low.frames, 1, k) \in Seq(F) /\ Len(SubSeq(low.frames, 1, k)) = k
    BY <2>1
  <2>3. frames = SubSeq(low.frames, 1, k)
    BY DEF Front
  <2>4. Len(frames) = k /\ frames \in Seq(F) /\ k > 0
    BY <2>1, <2>2, <2>3
  <2> HIDE DEF frames, k
  <2>5. frames # <<>>
    BY <2>4
  <2> QED BY <2>4, <2>5 DEF F, k
<1>3. next = Pop(low)
  BY <1>1 DEF Pop, Lowering
<1> HIDE DEF frames
<1>4. /\ next \in Good /\ next.frames = frames /\ next.sites = low.sites
      /\ next.loops = low.loops /\ next.ended = low.ended
  <2>1. next = Reframed(low, frames, low.sites)
    BY DEF Reframed
  <2> HIDE DEF next
  <2> QED BY <1>1, <1>2, <2>1, GoodFrames
<1> HIDE DEF next
<1> QED BY <1>2, <1>3, <1>4

\* Registering a scope allocation in the innermost frame.
LEMMA LowerScopeGood ==
    ASSUME NEW low \in Good, NEW s \in Leaf, Allocates(s)
    PROVE  LET r == LowerScope(s, low)
           IN  /\ Onto(low, r.low) /\ r.low.ended = low.ended
               /\ r.code =
                     <<[op |-> s.op, var |-> s.var, value |-> s.value, site |-> low.sites + 1]>>
<1> DEFINE n == low.sites + 1
           kind == AllocKindIn(low)
           alloc == [site |-> n, kind |-> kind, bind |-> IF s.op = "let" THEN s.var ELSE NoVar]
           frames == [low.frames EXCEPT ![Len(low.frames)].allocs = Append(@, alloc)]
           next == [low EXCEPT !.frames = frames, !.sites = n]
           name == "conditional allocation in a loop"
           found == low.nesting # Last(low.frames).nesting /\ InLoop(low)
<1>1. /\ low \in Lowering /\ low.frames \in Seq(FrameOf(low.sites)) /\ low.sites \in Nat
      /\ low.frames # <<>>
  BY DEF Good, Lowering
<1>2. n \in Nat /\ low.sites <= n /\ n \in 1 .. n
  BY <1>1
<1>3. alloc \in AllocOf(n)
  <2>1. s.var \in Var
    BY LeafFields DEF Allocates
  <2>2. kind \in {"direct", "slot"}
    BY DEF AllocKindIn
  <2> HIDE DEF n, kind
  <2> QED BY <1>2, <2>1, <2>2 DEF AllocOf
<1> HIDE DEF alloc
<1>4. frames \in Seq(FrameOf(n)) /\ frames # <<>> /\ Len(frames) = Len(low.frames)
  <2> DEFINE m == Len(low.frames)
             top == low.frames[m]
  <2>1. low.frames \in Seq(FrameOf(n)) /\ m \in 1 .. Len(low.frames)
    BY <1>1, <1>2, FramesGrow
  <2>2. top \in FrameOf(n)
    BY <2>1
  <2> HIDE DEF n
  <2>3. [top EXCEPT !.allocs = Append(@, alloc)] \in FrameOf(n)
    <3>1. top.allocs \in Seq(AllocOf(n))
      BY <2>2 DEF FrameOf
    <3>2. Append(top.allocs, alloc) \in Seq(AllocOf(n))
      BY <1>3, <3>1
    <3> DEFINE allocs == Append(top.allocs, alloc)
    <3> HIDE DEF top, allocs
    <3>3. [top EXCEPT !.allocs = allocs] \in FrameOf(n)
      BY <2>2, <3>2 DEF FrameOf, allocs
    <3> QED BY <3>3 DEF allocs
  <2>4. frames = [low.frames EXCEPT ![m] = [top EXCEPT !.allocs = Append(@, alloc)]]
    OBVIOUS
  <2> HIDE DEF top, frames
  <2> QED BY <1>1, <2>1, <2>3, <2>4
<1>5. LowerScope(s, low)
        = Lowered(<<[op |-> s.op, var |-> s.var, value |-> s.value, site |-> n]>>,
                  Gap(next, name, found))
  <2>1. [low EXCEPT !.sites = @ + 1, !.frames[Len(low.frames)].allocs = Append(@, alloc)] = next
    <3> HIDE DEF alloc
    <3> QED BY <1>1 DEF Lowering
  <2> HIDE DEF next, frames
  <2> QED BY <2>1 DEF LowerScope, alloc
<1> HIDE DEF frames, n
<1>6. /\ next \in Good /\ next.frames = frames /\ next.sites = n
      /\ next.loops = low.loops /\ next.ended = low.ended
  <2>1. next = Reframed(low, frames, n)
    BY DEF Reframed
  <2> HIDE DEF next
  <2> QED BY <1>2, <1>4, <2>1, GoodFrames
<1> HIDE DEF next, found
<1>7. Onto(low, next)
  BY <1>2, <1>4, <1>6 DEF Onto
<1>8. Onto(next, Gap(next, name, found)) /\ Gap(next, name, found).ended = next.ended
  BY <1>6, GapGood DEF Gaps
<1>9. Onto(low, Gap(next, name, found))
  BY <1>7, <1>8, OntoTrans
<1> DEFINE last == Gap(next, name, found)
<1> HIDE DEF last
<1>10. Onto(low, last) /\ last.ended = low.ended
  BY <1>6, <1>8, <1>9 DEF last
<1>11. LowerScope(s, low)
        = Lowered(<<[op |-> s.op, var |-> s.var, value |-> s.value, site |-> n]>>, last)
  BY <1>5 DEF last
<1> QED BY <1>10, <1>11 DEF Lowered, n

\* A delete takes an allocation off a frame, or none.
LEMMA LowerDeleteGood ==
    ASSUME NEW low \in Good, NEW s
    PROVE  LET r == LowerDelete(s, low)
           IN  /\ Onto(low, r.low) /\ r.low.ended = low.ended
               /\ r.code = <<Deletes(s, low)>>
<1> DEFINE off == {p \in BoundTo(s.var, low) : At(p, low).kind = "direct"}
           at == CHOOSE p \in off : TRUE
           f == at[1]
           i == at[2]
           n == low.sites
           allocs == RemoveAt(low.frames[f].allocs, i)
           frames == [low.frames EXCEPT ![f].allocs = allocs]
           next == [low EXCEPT !.frames = frames, !.sites = n]
           name == "conditional delete"
           found == low.frames[f].nesting # low.nesting
           last == IF off = {} THEN low ELSE Gap(next, name, found)
<1>1. /\ low \in Lowering /\ low.frames \in Seq(FrameOf(n)) /\ n \in Nat
      /\ low.frames # <<>>
  BY DEF Good, Lowering
<1>2. CASE off = {}
  <2>1. last = low
    BY <1>2
  <2> HIDE DEF last, off
  <2>2. Onto(low, last) /\ last.ended = low.ended
    BY <2>1, OntoSelf
  <2>3. LowerDelete(s, low) = Lowered(<<Deletes(s, low)>>, last)
    BY <1>2, <2>1 DEF LowerDelete, off
  <2> QED BY <2>2, <2>3 DEF Lowered
<1>3. CASE off # {}
  <2>1. f \in DOMAIN low.frames /\ i \in DOMAIN low.frames[f].allocs
    <3>1. at \in off
      <4> HIDE DEF off
      <4> QED BY <1>3
    <3>2. at \in Bindings(s.var, low)
      <4> HIDE DEF at
      <4> QED BY <3>1 DEF BoundTo
    <3> HIDE DEF at
    <3> QED BY <3>2 DEF Bindings
  <2> HIDE DEF n, at
  <2>2. low.frames[f] \in FrameOf(n)
    BY <1>1, <2>1
  <2>3. low.frames[f].allocs \in Seq(AllocOf(n))
    BY <2>2 DEF FrameOf
  <2>4. allocs \in Seq(AllocOf(n))
    <3> DEFINE c == low.frames[f].allocs
               A == AllocOf(n)
    <3> HIDE DEF c, A
    <3>1. c \in Seq(A) /\ i \in 1 .. Len(c)
      BY <2>1, <2>3 DEF c, A
    <3>2. SubSeq(c, 1, i - 1) \in Seq(A) /\ SubSeq(c, i + 1, Len(c)) \in Seq(A)
      BY <3>1
    <3> QED BY <3>2 DEF RemoveAt, c, A
  <2> HIDE DEF allocs
  <2>5. frames \in Seq(FrameOf(n)) /\ frames # <<>> /\ Len(frames) = Len(low.frames)
    <3> DEFINE x == [low.frames[f] EXCEPT !.allocs = allocs]
    <3>1. x \in FrameOf(n)
      BY <2>2, <2>4 DEF FrameOf
    <3>2. frames = [low.frames EXCEPT ![f] = x]
      OBVIOUS
    <3> HIDE DEF x, frames
    <3> QED BY <1>1, <2>1, <3>1, <3>2
  <2>6. [low EXCEPT !.frames[f].allocs = allocs] = next
    BY <1>1 DEF Lowering, n
  <2>7. LowerDelete(s, low) = Lowered(<<Deletes(s, low)>>, last)
    <3> DEFINE x == [low EXCEPT !.frames[f].allocs = allocs]
    <3>1. LowerDelete(s, low)
            = Lowered(<<Deletes(s, low)>>, IF off = {} THEN low ELSE Gap(x, name, found))
      BY Zenon DEF LowerDelete, allocs, at
    <3>2. x = next
      BY <2>6
    <3> HIDE DEF x, next, found, off
    <3> QED BY <1>3, <3>1, <3>2
  <2> HIDE DEF frames
  <2>8. /\ next \in Good /\ next.frames = frames /\ next.sites = n
        /\ next.loops = low.loops /\ next.ended = low.ended
    <3>1. next = Reframed(low, frames, n)
      BY DEF Reframed
    <3> HIDE DEF next
    <3> QED BY <1>1, <2>5, <3>1, GoodFrames
  <2> HIDE DEF next, found
  <2>9. Onto(low, next)
    BY <1>1, <2>5, <2>8 DEF Onto, n
  <2>10. Onto(next, Gap(next, name, found)) /\ Gap(next, name, found).ended = next.ended
    BY <2>8, GapGood DEF Gaps
  <2>11. last = Gap(next, name, found)
    BY <1>3
  <2> HIDE DEF last, name
  <2>12. Onto(low, last) /\ last.ended = low.ended
    BY <2>8, <2>9, <2>10, <2>11, OntoTrans
  <2> QED BY <2>7, <2>12 DEF Lowered
<1> QED BY <1>2, <1>3

\* Entering and leaving a statement that jumps may target.
LEMMA EnterGood ==
    ASSUME NEW low \in Good, NEW repeats \in BOOLEAN
    PROVE  LET next == Enter(low, repeats)
           IN  /\ next \in Good /\ next.frames = low.frames /\ next.sites = low.sites
               /\ next.loops = Append(low.loops, [depth |-> Len(low.frames), repeats |-> repeats])
<1> DEFINE next == Enter(low, repeats)
           target == [depth |-> Len(low.frames), repeats |-> repeats]
<1>1. low \in Lowering /\ low.frames # <<>> /\ low.frames \in Seq(FrameOf(low.sites))
  BY DEF Good
<1>2. target \in [depth : Nat, repeats : BOOLEAN]
  BY <1>1
<1>3. Append(low.loops, target) \in Seq([depth : Nat, repeats : BOOLEAN])
  BY <1>1, <1>2 DEF Lowering
<1>4. next = [low EXCEPT !.loops = Append(low.loops, target)]
  BY <1>1 DEF Enter, Lowering
<1> DEFINE loops == Append(low.loops, target)
<1> HIDE DEF target, next, loops
<1>5. next \in Lowering
  BY <1>1, <1>3, <1>4 DEF Lowering, loops
<1>6. next.frames = low.frames /\ next.sites = low.sites /\ next.loops = loops
  BY <1>1, <1>4 DEF Lowering, loops
<1>7. next \in Good
  BY <1>1, <1>5, <1>6 DEF Good
<1> QED BY <1>6, <1>7 DEF next, loops, target

LEMMA LeaveGood ==
    ASSUME NEW low \in Good, NEW next, NEW repeats \in BOOLEAN, NEW n \in Nat,
           Onto(Branch(Enter(low, repeats)), next)
    PROVE  Onto(low, Leave(next, n)) /\ ~Leave(next, n).ended
<1> DEFINE entered == Enter(low, repeats)
           target == [depth |-> Len(low.frames), repeats |-> repeats]
           left == [next EXCEPT !.loops = Front(@)]
<1>1. low \in Lowering /\ low.sites \in Nat
  BY DEF Good, Lowering
<1>2. /\ entered \in Good /\ entered.frames = low.frames /\ entered.sites = low.sites
      /\ entered.loops = Append(low.loops, target)
  BY EnterGood
<1> HIDE DEF entered
<1>3. Onto(entered, next)
  BY <1>2, SwitchToGood, OntoTrans DEF entered
<1>4. /\ next \in Good /\ Len(next.frames) = Len(low.frames) /\ low.sites <= next.sites
      /\ next.loops = Append(low.loops, target)
  BY <1>2, <1>3 DEF Onto
<1>5. next \in Lowering /\ low.loops \in Seq([depth : Nat, repeats : BOOLEAN])
  BY <1>1, <1>4 DEF Good, Lowering
<1> HIDE DEF target
<1>6. Front(next.loops) = low.loops
  <2>1. target \in [depth : Nat, repeats : BOOLEAN]
    BY <1>1, <1>4, <1>5 DEF target, Good
  <2> QED BY <1>4, <1>5, <2>1 DEF Front
<1>7. left = [next EXCEPT !.loops = low.loops]
  BY <1>5, <1>6 DEF Lowering
<1> HIDE DEF left
<1>8. left \in Lowering
  BY <1>5, <1>7 DEF Lowering
<1>9. left.frames = next.frames /\ left.sites = next.sites /\ left.loops = low.loops
  BY <1>5, <1>7 DEF Lowering
<1>10. left \in Good
  BY <1>4, <1>8, <1>9 DEF Good
<1>11. Onto(left, Leave(next, n)) /\ ~Leave(next, n).ended
  BY <1>10, SwitchToGood DEF Leave, left
<1>12. Onto(low, left)
  BY <1>4, <1>9, <1>10 DEF Onto
<1> QED BY <1>11, <1>12, OntoTrans

-----------------------------------------------------------------------------
(* The cleanup, and statements in sequence.                                *)

LEMMA FlattenKind ==
    ASSUME NEW X, NEW seqs \in Seq(Seq(X))
    PROVE  FlattenSeq(seqs) \in Seq(X)
<1> DEFINE N == Len(seqs)
           V == [i \in 0 .. N |-> Seq(X)]
           step == [i \in 1 .. N |-> [c \in Seq(X) |-> c \o seqs[i]]]
           Rec(f) == [i \in 1 .. N |-> IF i = 1 THEN seqs[i] ELSE f[i - 1] \o seqs[i]]
           a == CHOOSE f : f = Rec(f)
<1>0. N \in Nat /\ N \in 0 .. N /\ 0 \in 0 .. N
  OBVIOUS
<1>1. CASE N = 0
  BY <1>1 DEF FlattenSeq
<1>2. CASE N # 0
  <2>1. PICK f : IsFold(f, N, V, <<>>, step)
    <3>1. <<>> \in V[0]
      BY <1>0
    <3>2. \A i \in 1 .. N : \A c \in V[i - 1] : step[i][c] \in V[i]
      <4> SUFFICES ASSUME NEW i \in 1 .. N, NEW c \in V[i - 1] PROVE step[i][c] \in V[i]
        OBVIOUS
      <4>1. i - 1 \in 0 .. N /\ i \in 0 .. N
        BY <1>0
      <4>2. c \in Seq(X)
        BY <4>1
      <4>3. step[i][c] = c \o seqs[i] /\ seqs[i] \in Seq(X)
        BY <4>2
      <4>4. c \o seqs[i] \in Seq(X)
        BY <4>2, <4>3
      <4> HIDE DEF step
      <4> QED BY <4>1, <4>3, <4>4
    <3> HIDE DEF N, V, step
    <3> QED BY <1>0, <3>1, <3>2, LayersExist
  <2>2. \A i \in 0 .. N : f[i] \in Seq(X)
    <3> HIDE DEF step
    <3> QED BY <2>1 DEF IsFold
  <2>3. f[0] = <<>> /\ \A i \in 1 .. N : f[i] = f[i - 1] \o seqs[i]
    <3>1. \A i \in 1 .. N : i - 1 \in 0 .. N
      BY <1>0
    <3>2. \A i \in 1 .. N : f[i - 1] \in Seq(X)
      BY <2>2, <3>1
    <3> HIDE DEF V, N
    <3> QED BY <2>1, <3>2 DEF IsFold
  <2> DEFINE h == [i \in 1 .. N |-> f[i]]
  <2>4. h = Rec(h)
    <3> SUFFICES ASSUME NEW i \in 1 .. N
                 PROVE  f[i] = IF i = 1 THEN seqs[i] ELSE h[i - 1] \o seqs[i]
      OBVIOUS
    <3>1. CASE i = 1
      <4>1. 1 \in 1 .. N /\ 1 - 1 = 0
        BY <1>0, <1>2
      <4>2. seqs[1] \in Seq(X)
        BY <4>1
      <4>3. f[1] = <<>> \o seqs[1]
        <5> HIDE DEF N
        <5> QED BY <2>3, <4>1
      <4>4. <<>> \o seqs[1] = seqs[1]
        BY <4>2
      <4> QED BY <3>1, <4>3, <4>4
    <3>2. CASE i # 1
      <4>1. i - 1 \in 1 .. N
        BY <1>0, <3>2
      <4> QED BY <2>3, <3>2, <4>1
    <3> QED BY <3>1, <3>2
  <2>5. a = Rec(a)
    <3> HIDE DEF Rec, h
    <3> QED BY <2>4
  <2>6. FlattenSeq(seqs) = a[N]
    BY <1>2, Zenon DEF FlattenSeq
  <2> HIDE DEF a
  <2>7. \A i \in 1 .. N : a[i] = IF i = 1 THEN seqs[i] ELSE a[i - 1] \o seqs[i]
    <3> SUFFICES ASSUME NEW i \in 1 .. N
                 PROVE  a[i] = IF i = 1 THEN seqs[i] ELSE a[i - 1] \o seqs[i]
      OBVIOUS
    <3> HIDE DEF N
    <3> QED BY <2>5
  <2> DEFINE T == {i \in 0 .. N : i = 0 \/ a[i] \in Seq(X)}
  <2>8. ASSUME NEW i \in 0 .. N - 1, i \in T PROVE i + 1 \in T
    <3> DEFINE j == i + 1
    <3>1. j \in 1 .. N /\ j \in 0 .. N /\ j - 1 = i /\ (i = 0 <=> j = 1)
      BY <1>0
    <3> HIDE DEF j, N
    <3>2. seqs[j] \in Seq(X)
      BY <3>1 DEF N
    <3>3. a[j] \in Seq(X)
      <4>1. a[j] = IF j = 1 THEN seqs[j] ELSE a[i] \o seqs[j]
        BY <2>7, <3>1
      <4>2. j # 1 => a[i] \in Seq(X)
        BY <2>8, <3>1
      <4>3. CASE j = 1
        BY <3>2, <4>1, <4>3
      <4>4. CASE j # 1
        BY <3>2, <4>1, <4>2, <4>4
      <4> QED BY <4>3, <4>4
    <3>4. j \in T
      BY <3>1, <3>3
    <3> QED BY <3>4 DEF j
  <2>9. 0 .. N \subseteq T
    <3>1. 0 \in T
      BY <1>0
    <3> HIDE DEF T, N
    <3> QED BY <1>0, <2>8, <3>1, UptoInduction
  <2> HIDE DEF N
  <2> QED BY <1>0, <1>2, <2>6, <2>9
<1> QED BY <1>1, <1>2

\* Instructions of the cleanup.
FreeOf(n) == [op : {"free"}, site : 1 .. n, kind : {"direct", "slot"}]

LEMMA ReverseKind ==
    ASSUME NEW X, NEW c \in Seq(X)
    PROVE  Reverse(c) \in Seq(X) /\ Len(Reverse(c)) = Len(c)
<1>1. \A i \in 1 .. Len(c) : (Len(c) - i) + 1 \in 1 .. Len(c)
  OBVIOUS
<1> QED BY <1>1 DEF Reverse

LEMMA FreesKind ==
    ASSUME NEW n \in Nat, NEW frames \in Seq(FrameOf(n))
    PROVE  Frees(frames) \in Seq(FreeOf(n))
<1> DEFINE seqs == [i \in DOMAIN frames |-> FreesOf(Reverse(Reverse(frames)[i].allocs))]
<1>1. ASSUME NEW allocs \in Seq(AllocOf(n)) PROVE FreesOf(allocs) \in Seq(FreeOf(n))
  <2>1. \A i \in DOMAIN allocs : allocs[i] \in AllocOf(n)
    OBVIOUS
  <2>2. \A i \in DOMAIN allocs :
            [op |-> "free", site |-> allocs[i].site, kind |-> allocs[i].kind] \in FreeOf(n)
    BY <2>1 DEF AllocOf, FreeOf
  <2>3. DOMAIN allocs = 1 .. Len(allocs) /\ Len(allocs) \in Nat
    OBVIOUS
  <2> QED BY <2>2, <2>3 DEF FreesOf
<1>2. ASSUME NEW i \in DOMAIN frames PROVE seqs[i] \in Seq(FreeOf(n))
  <2> DEFINE frame == Reverse(frames)[i]
  <2>1. frame \in FrameOf(n)
    BY ReverseKind
  <2> HIDE DEF frame
  <2>2. frame.allocs \in Seq(AllocOf(n))
    BY <2>1 DEF FrameOf
  <2>3. Reverse(frame.allocs) \in Seq(AllocOf(n))
    BY <2>2, ReverseKind
  <2> QED BY <1>1, <2>3 DEF frame
<1>3. seqs \in Seq(Seq(FreeOf(n)))
  <2>1. DOMAIN frames = 1 .. Len(frames) /\ Len(frames) \in Nat
    OBVIOUS
  <2>2. seqs = [i \in DOMAIN frames |-> seqs[i]]
    OBVIOUS
  <2> HIDE DEF seqs
  <2> QED BY <1>2, <2>1, <2>2
<1>4. Frees(frames) = FlattenSeq(seqs)
  BY DEF Frees
<1> HIDE DEF seqs
<1> QED BY <1>3, <1>4, FlattenKind

\* No statement is deferred, so there is none to run.
LEMMA NoDefers ==
    ASSUME NEW n \in Nat, NEW frames \in Seq(FrameOf(n)), NEW low \in Lowering, NEW g
    PROVE  LowerDefersBy(g, frames, low) = Lowered(<<>>, low)
<1> DEFINE seqs == [i \in DOMAIN frames |-> Reverse(Reverse(frames)[i].defers)]
           pending == FlattenSeq(seqs)
           base == Lowered(<<>>, [low EXCEPT !.nesting = @ + 1])
           Rec(f) == [i \in 0 .. Len(pending) |->
                        IF i = 0 THEN base
                        ELSE LET before == f[i - 1]
                                 body   == g[pending[i].body][before.low]
                             IN  Lowered(before.code \o <<[op |-> "run", id |-> pending[i].id]>>
                                                     \o body.code, body.low)]
           a == CHOOSE f : f = Rec(f)
<1>1. \A i \in DOMAIN frames : seqs[i] = <<>>
  <2> SUFFICES ASSUME NEW i \in DOMAIN frames PROVE seqs[i] = <<>>
    OBVIOUS
  <2> DEFINE frame == Reverse(frames)[i]
  <2>1. frame \in FrameOf(n)
    BY ReverseKind
  <2> HIDE DEF frame
  <2>2. frame.defers = <<>>
    BY <2>1 DEF FrameOf
  <2>3. Reverse(<<>>) = <<>>
    <3>1. <<>> \in Seq({}) /\ Len(<<>>) = 0
      OBVIOUS
    <3>2. Reverse(<<>>) \in Seq({}) /\ Len(Reverse(<<>>)) = 0
      BY <3>1, ReverseKind
    <3> QED BY <3>2
  <2> QED BY <2>2, <2>3 DEF frame
<1>2. seqs \in Seq(Seq({}))
  <2>1. DOMAIN frames = 1 .. Len(frames) /\ Len(frames) \in Nat /\ <<>> \in Seq({})
    OBVIOUS
  <2>2. seqs = [i \in DOMAIN frames |-> seqs[i]]
    OBVIOUS
  <2> HIDE DEF seqs
  <2>3. \A i \in DOMAIN frames : seqs[i] \in Seq({})
    BY <1>1, <2>1
  <2> QED BY <2>1, <2>2, <2>3
<1> HIDE DEF seqs
<1>3. pending \in Seq({})
  BY <1>2, FlattenKind
<1> HIDE DEF pending
<1>4. Len(pending) = 0
  BY <1>3
<1>5. [i \in 0 .. 0 |-> base] = Rec([i \in 0 .. 0 |-> base])
  BY <1>4
<1>6. a = Rec(a)
  <2> HIDE DEF Rec
  <2> QED BY <1>5
<1>7. LowerDefersBy(g, frames, low)
        = Lowered(a[Len(pending)].code, [a[Len(pending)].low EXCEPT !.nesting = low.nesting])
  BY Zenon DEF LowerDefersBy, pending, seqs
<1> HIDE DEF a
<1>8. a[0] = base
  BY <1>4, <1>6
<1>9. [base.low EXCEPT !.nesting = low.nesting] = low
  BY DEF Lowered, Lowering
<1> QED BY <1>4, <1>7, <1>8, <1>9 DEF Lowered

LoweredOn(before, next) ==
    IF before.low.ended THEN before ELSE Lowered(before.code \o next.code, next.low)

\* a is the lowering of a sequence of statements, step by step.
IsLowering(a, g, stmts, low) ==
    /\ a[0] = Lowered(<<>>, low)
    /\ \A i \in 1 .. Len(stmts) : a[i] = LoweredOn(a[i - 1], g[stmts[i]][a[i - 1].low])

LEMMA LowerSteps ==
    ASSUME NEW g, NEW stmts, Len(stmts) \in Nat, NEW low \in Good,
           \A i \in 1 .. Len(stmts), lo \in Good :
              ~lo.ended => /\ g[stmts[i]][lo].low \in Good
                           /\ IsSeq(g[stmts[i]][lo].code)
    PROVE  \E a : /\ IsLowering(a, g, stmts, low)
                  /\ LowerSeqBy(g, stmts, low) = a[Len(stmts)]
<1> DEFINE N == Len(stmts)
           codes == {g[stmts[p[1]]][p[2]].code : p \in {q \in (1 .. N) \X Good : ~q[2].ended}}
           I == UNION {{c[i] : i \in DOMAIN c} : c \in codes}
           D == [code : Seq(I), low : Good]
           V == [i \in 0 .. N |-> D]
           base == Lowered(<<>>, low)
           step == [i \in 1 .. N |-> [x \in D |-> LoweredOn(x, g[stmts[i]][x.low])]]
           Rec(f) == [i \in 0 .. N |->
                        IF i = 0 THEN Lowered(<<>>, low)
                        ELSE LET before == f[i - 1]
                                 next   == g[stmts[i]][before.low]
                             IN  IF before.low.ended THEN before
                                 ELSE Lowered(before.code \o next.code, next.low)]
           a == CHOOSE f : f = Rec(f)
<1>0. N \in Nat /\ N \in 0 .. N /\ 0 \in 0 .. N /\ \A i \in 1 .. N :
          i \in 0 .. N /\ i - 1 \in 0 .. N /\ i # 0
  OBVIOUS
<1>1. base \in D
  BY DEF Lowered
<1>2. ASSUME NEW i \in 1 .. N, NEW x \in D PROVE LoweredOn(x, g[stmts[i]][x.low]) \in D
  <2> DEFINE next == g[stmts[i]][x.low]
             c == next.code
  <2>1. CASE x.low.ended
    BY <2>1 DEF LoweredOn
  <2>2. CASE ~x.low.ended
    <3>1. x.low \in Good /\ x.code \in Seq(I)
      OBVIOUS
    <3>2. next.low \in Good /\ IsSeq(c)
      BY <2>2, <3>1
    <3>3. c \in codes
      <4> DEFINE p == <<i, x.low>>
      <4>1. p \in {q \in (1 .. N) \X Good : ~q[2].ended}
        BY <2>2, <3>1
      <4>2. c = g[stmts[p[1]]][p[2]].code
        OBVIOUS
      <4> HIDE DEF p, c, N
      <4> QED BY <4>1, <4>2
    <3> HIDE DEF codes, c, next
    <3>4. {c[j] : j \in DOMAIN c} \subseteq I
      BY <3>3
    <3> HIDE DEF I
    <3>5. c \in Seq(I)
      BY <3>2, <3>4, SeqMonotone DEF IsSeq
    <3>6. x.code \o c \in Seq(I)
      BY <3>1, <3>5
    <3>7. Lowered(x.code \o c, next.low) \in D
      BY <3>2, <3>6 DEF Lowered
    <3> HIDE DEF D
    <3> QED BY <2>2, <3>7 DEF LoweredOn, next, c
  <2> QED BY <2>1, <2>2
<1> HIDE DEF I
<1>3. PICK f : IsFold(f, N, V, base, step)
  <2>1. base \in V[0]
    <3> HIDE DEF D, base
    <3> QED BY <1>0, <1>1
  <2>2. \A i \in 1 .. N : \A x \in V[i - 1] : step[i][x] \in V[i]
    <3> HIDE DEF D, base
    <3> QED BY <1>0, <1>2
  <2> HIDE DEF D, V, base, step, N
  <2> QED BY <1>0, <2>1, <2>2, LayersExist
<1>4. f = Rec(f)
  <2> SUFFICES ASSUME NEW i \in 0 .. N
               PROVE  f[i] = IF i = 0 THEN base ELSE LoweredOn(f[i - 1], g[stmts[i]][f[i - 1].low])
    <3>1. f = [i \in 0 .. N |-> f[i]]
      BY <1>3 DEF IsFold
    <3> HIDE DEF N
    <3> QED BY <3>1 DEF LoweredOn
  <2> HIDE DEF D, base, step, N
  <2>1. CASE i = 0
    BY <1>3, <2>1 DEF IsFold
  <2>2. CASE i # 0
    <3>1. i \in 1 .. N /\ i - 1 \in 0 .. N
      BY <1>0, <2>2
    <3>2. f[i] = step[i][f[i - 1]] /\ f[i - 1] \in V[i - 1]
      BY <1>3, <3>1 DEF IsFold
    <3>3. f[i - 1] \in D
      BY <3>1, <3>2
    <3>4. step[i][f[i - 1]] = LoweredOn(f[i - 1], g[stmts[i]][f[i - 1].low])
      BY <3>1, <3>3 DEF step
    <3> QED BY <2>2, <3>2, <3>4
  <2> QED BY <2>1, <2>2
<1>5. a = Rec(a)
  <2> HIDE DEF Rec
  <2> QED BY <1>4
<1>6. LowerSeqBy(g, stmts, low) = a[N]
  BY DEF LowerSeqBy
<1> HIDE DEF a
<1>7. IsLowering(a, g, stmts, low)
  <2>1. a[0] = base
    <3> HIDE DEF N
    <3> QED BY <1>0, <1>5
  <2>2. ASSUME NEW i \in 1 .. N PROVE a[i] = LoweredOn(a[i - 1], g[stmts[i]][a[i - 1].low])
    <3> HIDE DEF N
    <3> QED BY <1>0, <1>5 DEF LoweredOn
  <2> QED BY <2>1, <2>2 DEF IsLowering
<1> HIDE DEF Rec
<1> QED BY <1>6, <1>7

\* a is the lowering of the arms of a switch, one after the other.
IsArms(a, g, arms, low) ==
    /\ a[0] = Lowered(<<>>, low)
    /\ \A i \in 1 .. Len(arms) :
          LET arm == LowerSeqBy(g, arms[i], SwitchTo(a[i - 1].low))
          IN  a[i] = Lowered(Append(a[i - 1].code, arm.code), arm.low)

LEMMA ArmSteps ==
    ASSUME NEW g, NEW s, Len(s.arms) \in Nat, NEW low \in Good,
           Branch(Enter(low, FALSE)) \in Good,
           \A i \in 1 .. Len(s.arms), lo \in Good :
              LowerSeqBy(g, s.arms[i], SwitchTo(lo)).low \in Good
    PROVE  \E a : /\ IsArms(a, g, s.arms, Branch(Enter(low, FALSE)))
                  /\ LET all == a[Len(s.arms)]
                     IN  LowerSwitchBy(g, s, low)
                           = Lowered(
                                <<[op |-> "switch", arms |-> all.code, default |-> s.default]>>,
                                Leave(all.low, low.nesting))
<1> DEFINE N == Len(s.arms)
           first == Branch(Enter(low, FALSE))
           Arm(i, lo) == LowerSeqBy(g, s.arms[i], SwitchTo(lo))
           I == {Arm(p[1], p[2]).code : p \in (1 .. N) \X Good}
           D == [code : Seq(I), low : Good]
           V == [i \in 0 .. N |-> D]
           base == Lowered(<<>>, first)
           Next0(i, x) == Lowered(Append(x.code, Arm(i, x.low).code), Arm(i, x.low).low)
           step == [i \in 1 .. N |-> [x \in D |-> Next0(i, x)]]
           Rec(f) == [i \in 0 .. N |->
                        IF i = 0 THEN Lowered(<<>>, Branch(Enter(low, FALSE)))
                        ELSE LET before == f[i - 1]
                                 arm    == LowerSeqBy(g, s.arms[i], SwitchTo(before.low))
                             IN  Lowered(Append(before.code, arm.code), arm.low)]
           a == CHOOSE f : f = Rec(f)
<1>0. N \in Nat /\ N \in 0 .. N /\ 0 \in 0 .. N /\ \A i \in 1 .. N :
          i \in 0 .. N /\ i - 1 \in 0 .. N /\ i # 0
  OBVIOUS
<1>1. base \in D
  <2>1. first \in Good
    BY Zenon
  <2> HIDE DEF I, first
  <2>2. <<>> \in Seq(I)
    OBVIOUS
  <2> QED BY <2>1, <2>2 DEF Lowered
<1>2. ASSUME NEW i \in 1 .. N, NEW x \in D PROVE Next0(i, x) \in D
  <2> DEFINE arm == Arm(i, x.low)
  <2>1. x.low \in Good /\ x.code \in Seq(I)
    OBVIOUS
  <2>2. arm.low \in Good
    BY <2>1
  <2>3. arm.code \in I
    <3>1. <<i, x.low>> \in (1 .. N) \X Good
      BY <2>1
    <3> HIDE DEF N
    <3> QED BY <3>1
  <2> HIDE DEF Arm, I, arm
  <2>4. Append(x.code, arm.code) \in Seq(I)
    BY <2>1, <2>3
  <2>5. Lowered(Append(x.code, arm.code), arm.low) \in D
    BY <2>2, <2>4 DEF Lowered
  <2> HIDE DEF D
  <2> QED BY <2>5 DEF arm
<1> HIDE DEF I, Arm
<1>3. PICK f : IsFold(f, N, V, base, step)
  <2>1. base \in V[0]
    <3> HIDE DEF D, base
    <3> QED BY <1>0, <1>1
  <2>2. \A i \in 1 .. N : \A x \in V[i - 1] : step[i][x] \in V[i]
    <3> HIDE DEF D, base, Next0
    <3> QED BY <1>0, <1>2
  <2> HIDE DEF D, V, base, step, N
  <2> QED BY <1>0, <2>1, <2>2, LayersExist
<1>4. f = Rec(f)
  <2> SUFFICES ASSUME NEW i \in 0 .. N
               PROVE  f[i] = IF i = 0 THEN base ELSE Next0(i, f[i - 1])
    <3>1. f = [i \in 0 .. N |-> f[i]]
      BY <1>3 DEF IsFold
    <3> HIDE DEF N
    <3> QED BY <3>1 DEF Arm
  <2> HIDE DEF D, base, step, N, Next0
  <2>1. CASE i = 0
    BY <1>3, <2>1 DEF IsFold
  <2>2. CASE i # 0
    <3>1. i \in 1 .. N /\ i - 1 \in 0 .. N
      BY <1>0, <2>2
    <3>2. f[i] = step[i][f[i - 1]] /\ f[i - 1] \in V[i - 1]
      BY <1>3, <3>1 DEF IsFold
    <3>3. f[i - 1] \in D
      BY <3>1, <3>2
    <3>4. step[i][f[i - 1]] = Next0(i, f[i - 1])
      BY <3>1, <3>3 DEF step
    <3> QED BY <2>2, <3>2, <3>4
  <2> QED BY <2>1, <2>2
<1>5. a = Rec(a)
  <2> HIDE DEF Rec
  <2> QED BY <1>4
<1>6. LowerSwitchBy(g, s, low)
        = Lowered(<<[op |-> "switch", arms |-> a[N].code, default |-> s.default]>>,
                  Leave(a[N].low, low.nesting))
  BY DEF LowerSwitchBy
<1> HIDE DEF a
<1>7. IsArms(a, g, s.arms, first)
  <2>1. a[0] = base
    <3> HIDE DEF N
    <3> QED BY <1>0, <1>5
  <2>2. ASSUME NEW i \in 1 .. N PROVE a[i] = Next0(i, a[i - 1])
    <3> HIDE DEF N
    <3> QED BY <1>0, <1>5 DEF Arm
  <2> QED BY <2>1, <2>2 DEF IsArms, Arm
<1> HIDE DEF Rec
<1> QED BY <1>6, <1>7

\* What lowering makes of a statement, in terms of lowering with one fewer open.
LEMMA LowerLayers ==
    ASSUME NEW k \in 0 .. 2 * MaxDepth, NEW s \in Stmt, NEW low \in Lowering
    PROVE  \E g : lowerAt[k][s][low] = LowerBy(g, s, low) /\ (k # 0 => g = lowerAt[k - 1])
<1> DEFINE N == 2 * MaxDepth
           Of(g) == [t \in Stmt |-> [lo \in Lowering |-> LowerBy(g, t, lo)]]
           Rec(f) == [i \in 0 .. N |-> [t \in Stmt |-> [lo \in Lowering |->
                        LowerBy(IF i = 0 THEN <<>> ELSE f[i - 1], t, lo)]]]
           Upto(n, f) == f[0] = Of(<<>>) /\ \A i \in 1 .. n : f[i] = Of(f[i - 1])
           T == {n \in Nat : \E f : Upto(n, f)}
<1>0. N \in Nat /\ 0 \in 0 .. N /\ \A i \in 0 .. N : i # 0 => i \in 1 .. N /\ i - 1 \in 0 .. N
  BY LocalAssumption
<1> HIDE DEF N, Of
<1>1. 0 \in T
  <2>1. Upto(0, [i \in 0 .. 0 |-> Of(<<>>)])
    OBVIOUS
  <2> HIDE DEF Upto
  <2> QED BY <2>1
<1>2. ASSUME NEW n \in Nat, n \in T PROVE n + 1 \in T
  <2>1. PICK f : Upto(n, f)
    BY <1>2
  <2> DEFINE m == n + 1
             g == [i \in 0 .. m |-> IF i = m THEN Of(f[n]) ELSE f[i]]
  <2>2. m \in Nat /\ m - 1 = n /\ n # m /\ n \in 0 .. n /\ 0 \in 0 .. n
    OBVIOUS
  <2>3. g[m] = Of(f[n]) /\ \A i \in 0 .. n : g[i] = f[i]
    BY <2>2
  <2>4. \A i \in 1 .. m : i = m \/ (i \in 1 .. n /\ i \in 0 .. n /\ i - 1 \in 0 .. n)
    OBVIOUS
  <2> HIDE DEF m, g
  <2>5. ASSUME NEW i \in 1 .. m PROVE g[i] = Of(g[i - 1])
    <3>1. CASE i = m
      BY <2>2, <2>3, <3>1
    <3>2. CASE i # m
      BY <2>1, <2>3, <2>4, <3>2
    <3> QED BY <3>1, <3>2
  <2>6. Upto(m, g)
    BY <2>1, <2>2, <2>3, <2>5
  <2> HIDE DEF Upto
  <2>7. m \in T
    BY <2>2, <2>6
  <2> QED BY <2>7 DEF m
<1>3. Nat \subseteq T
  <2> HIDE DEF T
  <2> QED BY <1>1, <1>2, NatSetInduction
<1>4. PICK f : Upto(N, f)
  BY <1>0, <1>3
<1> DEFINE g == [i \in 0 .. N |-> f[i]]
<1>5. g = [i \in 0 .. N |-> g[i]] /\ \A i \in 0 .. N : g[i] = f[i]
  OBVIOUS
<1>6. g = Rec(g)
  <2> SUFFICES ASSUME NEW i \in 0 .. N PROVE g[i] = Of(IF i = 0 THEN <<>> ELSE g[i - 1])
    <3> HIDE DEF g
    <3> QED BY <1>5 DEF Of
  <2> HIDE DEF g
  <2>1. CASE i = 0
    BY <1>4, <1>5, <2>1
  <2>2. CASE i # 0
    BY <1>0, <1>4, <1>5, <2>2
  <2> QED BY <2>1, <2>2
<1>7. lowerAt = CHOOSE h : h = Rec(h)
  BY DEF lowerAt, N
<1>8. lowerAt = Rec(lowerAt)
  <2> HIDE DEF Rec, g
  <2> QED BY <1>6, <1>7
<1> DEFINE below == IF k = 0 THEN <<>> ELSE lowerAt[k - 1]
<1>9. lowerAt[k] = Of(below)
  <2>1. k \in 0 .. N
    BY DEF N
  <2> HIDE DEF below
  <2>2. lowerAt[k] = Of(IF k = 0 THEN <<>> ELSE lowerAt[k - 1])
    BY <1>8, <2>1 DEF Of
  <2> QED BY <2>2 DEF below
<1> HIDE DEF below, Rec, Upto, g
<1>10. lowerAt[k][s][low] = LowerBy(below, s, low)
  BY <1>9 DEF Of
<1> QED BY <1>10 DEF below

-----------------------------------------------------------------------------
(* Code that is right about an environment.                                *)

\* The statements of which nothing is left unknown: there are no branches, and the
\* locals are not given to anyone.
ExactKinds == {"block", "let", "assign", "delete", "return"}

\* Code that frees what was allocated at the first n sites, and returns.
Leaving(c, n) ==
    /\ IsSeq(c)
    /\ \E k \in 1 .. Len(c) :
          c[k].op = "ret" /\ \A j \in 1 .. k - 1 : c[j].op = "free" /\ c[j].site \in 1 .. n

\* What is reported at the first instruction of c holds of the environment e.
\* Where the analysis is exact, all that holds is reported.
Fine(c, e, exact, n) ==
    /\ IsSeq(c) /\ c # <<>> /\ e \in Env
    /\ LET x == Head(c)
       IN  \/ x.op \in {"let", "assign"} /\ x.var \in Var /\ x.value \in Value
           \/ /\ x.op = "delete" /\ x.var \in Var
              /\ x.alarm = "Deleted" => e[x.var] = "Deleted"
              /\ exact /\ DeleteAlarm(e, x.var) # NoAlarm => x.alarm # NoAlarm
           \/ x.op = "free" /\ x.site \in 1 .. n
           \/ /\ x.op = "return" /\ x.var \in Var \cup {NoVar}
              /\ x.leaks \subseteq ExitScan(e) \ {x.var} /\ Leaving(Tail(c), n)
           \/ x.op = "end" /\ x.leaks \subseteq ExitScan(e) /\ Tail(c) = <<>>
           \/ ~exact /\ x.op \in {"pass", "store", "alias"} /\ x.var \in Var
           \/ ~exact /\ x.op \in {"if", "switch", "while", "do", "loop", "exit"}

\* The code and the environments after that instruction.
Then(c, e) ==
    LET x    == Head(c)
        rest == Tail(c)
    IN  CASE x.op \in Straight -> {<<rest, Flow(e, x)>>}
          [] x.op \in {"free", "loop", "exit"} -> {<<rest, e>>}
          [] x.op = "if" -> {<<x.then \o rest, e>>, <<x.else \o rest, e>>}
          [] x.op = "switch" ->
                {<<rest, e>>}
                \cup {<<arm \o <<[op |-> "exit"]>> \o rest, e>> : arm \in ToSet(x.arms)}
          [] x.op \in {"while", "do"} ->
                {<<rest, e>>, <<x.turn \o <<[op |-> "loop", turn |-> x.turn]>> \o rest, e>>}
          [] OTHER -> {}

\* G is right: what is reported in it holds, on every path.
Closed(G, exact, n) ==
    \A p \in G : Fine(p[1], p[2], exact, n) /\ Then(p[1], p[2]) \subseteq G

RightPair(p, exact, n)  == \E G : p \in G /\ Closed(G, exact, n)
Right(c, e, exact, n)   == RightPair(<<c, e>>, exact, n)

LEMMA RightSteps ==
    ASSUME NEW c, NEW e, NEW exact, NEW n, Right(c, e, exact, n)
    PROVE  Fine(c, e, exact, n) /\ \A p \in Then(c, e) : RightPair(p, exact, n)
<1> DEFINE p == <<c, e>>
<1>1. p[1] = c /\ p[2] = e
  OBVIOUS
<1> HIDE DEF p
<1>2. PICK G : p \in G /\ Closed(G, exact, n)
  BY DEF Right, RightPair, p
<1>3. Fine(c, e, exact, n) /\ Then(c, e) \subseteq G
  BY <1>1, <1>2 DEF Closed
<1> QED BY <1>2, <1>3 DEF RightPair

LEMMA RightIntro ==
    ASSUME NEW c, NEW e, NEW exact, NEW n, Fine(c, e, exact, n),
           \A p \in Then(c, e) : RightPair(p, exact, n)
    PROVE  Right(c, e, exact, n)
<1> DEFINE q == <<c, e>>
           Of(p) == CHOOSE G : p \in G /\ Closed(G, exact, n)
           G == {q} \cup UNION {Of(p) : p \in Then(c, e)}
<1>1. q[1] = c /\ q[2] = e
  OBVIOUS
<1>2. \A p \in Then(c, e) : p \in Of(p) /\ Closed(Of(p), exact, n)
  BY DEF RightPair
<1> HIDE DEF q, Of
<1>3. ASSUME NEW r \in G PROVE Fine(r[1], r[2], exact, n) /\ Then(r[1], r[2]) \subseteq G
  <2>1. CASE r = q
    <3>1. Then(c, e) \subseteq G
      BY <1>2
    <3> HIDE DEF G
    <3> QED BY <1>1, <2>1, <3>1
  <2>2. CASE r # q
    <3>1. PICK p \in Then(c, e) : r \in Of(p)
      BY <2>2
    <3>2. Of(p) \subseteq G
      OBVIOUS
    <3> HIDE DEF G
    <3> QED BY <1>2, <3>1, <3>2 DEF Closed
  <2> QED BY <2>1, <2>2
<1>4. q \in G
  OBVIOUS
<1> HIDE DEF G
<1>5. Closed(G, exact, n)
  BY <1>3 DEF Closed
<1> QED BY <1>4, <1>5 DEF Right, RightPair, q

\* Code that is right about an environment is right about one that knows more.
Weaker(e, f) == \A v \in Var : e[v] = f[v] \/ e[v] = "untracked"

LEMMA FlowWeaker ==
    ASSUME NEW e \in Env, NEW f \in Env, Weaker(e, f), NEW s, s.op \in Straight, s.var \in Var
    PROVE  Weaker(Flow(e, s), Flow(f, s))
<1>1. \A k : Weaker([e EXCEPT ![s.var] = k], [f EXCEPT ![s.var] = k])
  BY DEF Weaker, Env
<1>2. /\ Weaker(Delete(e, s.var), Delete(f, s.var)) /\ Weaker(FlowArg(e, s.var), FlowArg(f, s.var))
      /\ Weaker(SetDropped(e, s.var), SetDropped(f, s.var))
      /\ Weaker(SetMoved(e, s.var), SetMoved(f, s.var))
  BY DEF Weaker, Env, Delete, FlowArg, SetDropped, SetMoved, Owning
<1>3. CASE s.op \in {"let", "assign"}
  BY <1>1, <1>3 DEF Flow
<1>4. CASE s.op \in {"delete", "pass", "store", "alias"}
  BY <1>2, <1>4 DEF Flow
<1> QED BY <1>3, <1>4 DEF Straight

LEMMA FineWeaker ==
    ASSUME NEW c, NEW e, NEW f \in Env, NEW n, Weaker(e, f), Fine(c, e, FALSE, n)
    PROVE  Fine(c, f, FALSE, n)
<1>1. ExitScan(e) \subseteq ExitScan(f)
  BY DEF Weaker, ExitScan, Fine, Env
<1>2. \A v \in Var : e[v] = "Deleted" => f[v] = "Deleted"
  BY DEF Weaker
<1> QED BY <1>1, <1>2 DEF Fine

LEMMA ThenWeaker ==
    ASSUME NEW c, NEW e, NEW f \in Env, NEW n, Weaker(e, f), Fine(c, e, FALSE, n),
           NEW q \in Then(c, f)
    PROVE  /\ q = <<q[1], q[2]>> /\ q[2] \in Env
           /\ \E p \in Then(c, e) : q[1] = p[1] /\ Weaker(p[2], q[2])
<1> DEFINE x == Head(c)
           rest == Tail(c)
<1>0. e \in Env
  BY DEF Fine
<1>a. ASSUME NEW d, q = <<d, f>>, <<d, e>> \in Then(c, e)
      PROVE  /\ q = <<q[1], q[2]>> /\ q[2] \in Env
             /\ \E p \in Then(c, e) : q[1] = p[1] /\ Weaker(p[2], q[2])
  BY <1>a
<1>1. CASE x.op \in Straight
  <2>1. Then(c, e) = {<<rest, Flow(e, x)>>} /\ q = <<rest, Flow(f, x)>>
    BY <1>1 DEF Then, Straight
  <2>2. x.var \in Var
    BY <1>1 DEF Fine, Straight
  <2>3. Flow(f, x) \in Env /\ Weaker(Flow(e, x), Flow(f, x))
    BY <1>0, <1>1, <2>2, FlowKind, FlowWeaker
  <2> HIDE DEF x, rest
  <2> QED BY <2>1, <2>3
<1>2. CASE x.op \in {"free", "loop", "exit"}
  <2>1. q = <<rest, f>> /\ <<rest, e>> \in Then(c, e)
    BY <1>2 DEF Then, Straight
  <2> QED BY <1>a, <2>1
<1>3. CASE x.op = "if"
  <2>1. \/ q = <<x.then \o rest, f>> /\ <<x.then \o rest, e>> \in Then(c, e)
        \/ q = <<x.else \o rest, f>> /\ <<x.else \o rest, e>> \in Then(c, e)
    BY <1>3 DEF Then, Straight
  <2> QED BY <1>a, <2>1
<1>4. CASE x.op = "switch"
  <2> DEFINE On(e0) == {<<arm \o <<[op |-> "exit"]>> \o rest, e0>> : arm \in ToSet(x.arms)}
  <2>1. \A e0 : Then(c, e0) = {<<rest, e0>>} \cup On(e0)
    BY <1>4 DEF Then, Straight
  <2>2. CASE q = <<rest, f>>
    BY <1>a, <2>1, <2>2
  <2>3. CASE q \in On(f)
    <3>1. PICK arm \in ToSet(x.arms) : q = <<arm \o <<[op |-> "exit"]>> \o rest, f>>
      BY <2>3
    <3>2. <<arm \o <<[op |-> "exit"]>> \o rest, e>> \in On(e)
      OBVIOUS
    <3> HIDE DEF On
    <3> QED BY <1>a, <2>1, <3>1, <3>2
  <2> HIDE DEF On
  <2> QED BY <2>1, <2>2, <2>3
<1>5. CASE x.op \in {"while", "do"}
  <2> DEFINE d == x.turn \o <<[op |-> "loop", turn |-> x.turn]>> \o rest
  <2>1. \/ q = <<rest, f>> /\ <<rest, e>> \in Then(c, e)
        \/ q = <<d, f>> /\ <<d, e>> \in Then(c, e)
    BY <1>5 DEF Then, Straight
  <2> QED BY <1>a, <2>1
<1>6. CASE x.op \in {"return", "end"}
  BY <1>6 DEF Then, Straight
<1> QED BY <1>1, <1>2, <1>3, <1>4, <1>5, <1>6 DEF Fine, Straight

LEMMA RightWeaker ==
    ASSUME NEW c, NEW e, NEW f \in Env, NEW n, Weaker(e, f), Right(c, e, FALSE, n)
    PROVE  Right(c, f, FALSE, n)
<1>1. PICK G : <<c, e>> \in G /\ Closed(G, FALSE, n)
  BY DEF Right, RightPair
<1> DEFINE More(p) == {<<p[1], h>> : h \in {h \in Env : Weaker(p[2], h)}}
           H == UNION {More(p) : p \in G}
<1>2. ASSUME NEW p \in G, NEW q, q = <<q[1], q[2]>>, q[2] \in Env, q[1] = p[1], Weaker(p[2], q[2])
      PROVE  q \in H
  <2>1. q \in More(p)
    BY <1>2
  <2> HIDE DEF More
  <2> QED BY <2>1
<1>3. ASSUME NEW q \in H PROVE Fine(q[1], q[2], FALSE, n) /\ Then(q[1], q[2]) \subseteq H
  <2>1. PICK p \in G : q \in More(p)
    OBVIOUS
  <2>2. q[1] = p[1] /\ q[2] \in Env /\ Weaker(p[2], q[2])
    BY <2>1
  <2> HIDE DEF H, More
  <2>3. Fine(p[1], p[2], FALSE, n) /\ Then(p[1], p[2]) \subseteq G
    BY <1>1 DEF Closed
  <2>4. Fine(q[1], q[2], FALSE, n)
    BY <2>2, <2>3, FineWeaker
  <2>5. ASSUME NEW r \in Then(q[1], q[2]) PROVE r \in H
    <3>1. /\ r = <<r[1], r[2]>> /\ r[2] \in Env
          /\ \E o \in Then(p[1], p[2]) : r[1] = o[1] /\ Weaker(o[2], r[2])
      BY <2>2, <2>3, ThenWeaker
    <3>2. PICK o \in Then(p[1], p[2]) : r[1] = o[1] /\ Weaker(o[2], r[2])
      BY <3>1
    <3>3. o \in G
      BY <2>3
    <3> QED BY <1>2, <3>1, <3>2, <3>3
  <2> QED BY <2>4, <2>5
<1>4. <<c, f>> \in H
  <2> DEFINE q == <<c, f>>
             p == <<c, e>>
  <2>1. q = <<q[1], q[2]>> /\ q[2] \in Env /\ q[1] = p[1] /\ Weaker(p[2], q[2]) /\ p \in G
    BY <1>1
  <2> HIDE DEF H, q, p
  <2>2. q \in H
    BY <1>2, <2>1
  <2> QED BY <2>2 DEF q
<1> HIDE DEF H
<1>5. Closed(H, FALSE, n)
  BY <1>3 DEF Closed
<1> QED BY <1>4, <1>5 DEF Right, RightPair

\* The first instruction of code, in the terms of the lemmas below.
LEMMA FineFirst ==
    ASSUME NEW x, NEW rest, IsSeq(rest), NEW e \in Env, NEW exact, NEW n,
           \/ x.op \in {"let", "assign"} /\ x.var \in Var /\ x.value \in Value
           \/ /\ x.op = "delete" /\ x.var \in Var
              /\ x.alarm = "Deleted" => e[x.var] = "Deleted"
              /\ exact /\ DeleteAlarm(e, x.var) # NoAlarm => x.alarm # NoAlarm
           \/ x.op = "free" /\ x.site \in 1 .. n
           \/ /\ x.op = "return" /\ x.var \in Var \cup {NoVar}
              /\ x.leaks \subseteq ExitScan(e) \ {x.var} /\ Leaving(rest, n)
           \/ x.op = "end" /\ x.leaks \subseteq ExitScan(e) /\ rest = <<>>
           \/ ~exact /\ x.op \in {"pass", "store", "alias"} /\ x.var \in Var
           \/ ~exact /\ x.op \in {"if", "switch", "while", "do", "loop", "exit"}
    PROVE  Fine(<<x>> \o rest, e, exact, n)
<1> DEFINE c == <<x>> \o rest
<1>1. IsSeq(c) /\ c # <<>> /\ Head(c) = x /\ Tail(c) = rest
  BY FirstAndRest
<1> HIDE DEF c
<1>2. Fine(c, e, exact, n)
  BY <1>1 DEF Fine
<1> QED BY <1>2 DEF c

\* An instruction without branches.
LEMMA RightStraight ==
    ASSUME NEW x, NEW rest, IsSeq(rest), NEW e, NEW exact, NEW n, x.op \in Straight,
           Fine(<<x>> \o rest, e, exact, n), Right(rest, Flow(e, x), exact, n)
    PROVE  Right(<<x>> \o rest, e, exact, n)
<1> DEFINE c == <<x>> \o rest
<1>1. Head(c) = x /\ Tail(c) = rest
  BY FirstAndRest
<1> HIDE DEF c
<1>2. Then(c, e) = {<<rest, Flow(e, x)>>}
  BY <1>1 DEF Then, Straight
<1>3. Right(c, e, exact, n)
  BY <1>2, RightIntro DEF Right, c
<1> QED BY <1>3 DEF c

LEMMA RightOver ==
    ASSUME NEW x, NEW rest, IsSeq(rest), NEW e, NEW exact, NEW n,
           x.op \in {"free", "loop", "exit"},
           Fine(<<x>> \o rest, e, exact, n), Right(rest, e, exact, n)
    PROVE  Right(<<x>> \o rest, e, exact, n)
<1> DEFINE c == <<x>> \o rest
<1>1. Head(c) = x /\ Tail(c) = rest
  BY FirstAndRest
<1> HIDE DEF c
<1>2. Then(c, e) = {<<rest, e>>}
  BY <1>1 DEF Then, Straight
<1>3. Right(c, e, exact, n)
  BY <1>2, RightIntro DEF Right, c
<1> QED BY <1>3 DEF c

LEMMA RightIsSeq ==
    ASSUME NEW c, NEW e, NEW exact, NEW n, Right(c, e, exact, n)
    PROVE  IsSeq(c) /\ e \in Env
BY RightSteps DEF Fine

\* The cleanup changes nothing the analysis knows.
LEMMA RightFrees ==
    ASSUME NEW n \in Nat, NEW c \in Seq(FreeOf(n)), NEW rest, NEW e, NEW exact,
           Right(rest, e, exact, n)
    PROVE  Right(c \o rest, e, exact, n)
<1> DEFINE N == Len(c)
           From(i) == SubSeq(c, (N - i) + 1, N) \o rest
           T == {i \in 0 .. N : Right(From(i), e, exact, n)}
<1>0. N \in Nat /\ IsSeq(rest) /\ IsSeq(c) /\ e \in Env
  BY RightIsSeq, SeqIsSeq
<1>1. 0 \in T
  <2>1. SubSeq(c, (N - 0) + 1, N) = <<>>
    BY <1>0
  <2>2. From(0) = rest
    BY <1>0, <2>1, EmptyConcat
  <2> HIDE DEF N, From
  <2> QED BY <1>0, <2>2
<1>2. ASSUME NEW i \in 0 .. N - 1, i \in T PROVE i + 1 \in T
  <2> DEFINE k == N - i
             x == c[k]
             after == SubSeq(c, k + 1, N)
  <2>1. k \in 1 .. N /\ (N - (i + 1)) + 1 = k /\ i + 1 \in 0 .. N /\ x \in FreeOf(n)
    BY <1>0
  <2>2. Right(after \o rest, e, exact, n)
    BY <1>2
  <2>3. SubSeq(c, k, N) = <<x>> \o after /\ after \in Seq(FreeOf(n))
    BY <2>1
  <2>4. From(i + 1) = SubSeq(c, k, N) \o rest
    BY <2>1
  <2> HIDE DEF From, k, after, x
  <2>5. IsSeq(after) /\ IsSeq(<<x>>)
    BY <2>3, SeqIsSeq, OneIsSeq
  <2>6. From(i + 1) = <<x>> \o (after \o rest)
    <3>1. (<<x>> \o after) \o rest = <<x>> \o (after \o rest)
      <4>1. Associate(<<x>>, after, rest)
        BY <1>0, <2>5, ConcatAssoc
      <4> QED BY <4>1 DEF Associate
    <3> HIDE DEF N
    <3> QED BY <2>3, <2>4, <3>1
  <2>7. IsSeq(after \o rest)
    BY <1>0, <2>5, ConcatIsSeq
  <2>8. x.op = "free" /\ x.site \in 1 .. n
    BY <2>1 DEF FreeOf
  <2>9. Fine(<<x>> \o (after \o rest), e, exact, n)
    BY <1>0, <2>7, <2>8, FineFirst
  <2>10. Right(<<x>> \o (after \o rest), e, exact, n)
    BY <2>2, <2>7, <2>8, <2>9, RightOver
  <2> QED BY <2>1, <2>6, <2>10
<1>3. N \in T
  <2>1. 0 .. N \subseteq T
    <3> HIDE DEF T, N
    <3> QED BY <1>0, <1>1, <1>2, UptoInduction
  <2> HIDE DEF T
  <2> QED BY <1>0, <2>1
<1>4. SubSeq(c, (N - N) + 1, N) = c
  BY <1>0
<1> QED BY <1>3, <1>4

\* Frees and then a return.
LEMMA LeavingFrees ==
    ASSUME NEW n \in Nat, NEW c \in Seq(FreeOf(n)), NEW rest, IsSeq(rest)
    PROVE  Leaving((c \o <<[op |-> "ret"]>>) \o rest, n)
<1> DEFINE ret == [op |-> "ret"]
           d == (c \o <<ret>>) \o rest
<1>1. IsSeq(c) /\ IsSeq(<<ret>>)
  BY SeqIsSeq, OneIsSeq
<1>2. PICK S : c \in Seq(S) /\ <<ret>> \in Seq(S) /\ rest \in Seq(S)
  BY <1>1, CommonSet
<1>3. d \in Seq(S)
  BY <1>2
<1>4. /\ Len(c) + 1 \in 1 .. Len(d) /\ d[Len(c) + 1] = ret
      /\ \A j \in 1 .. Len(c) : d[j] = c[j]
  <2>1. c \o <<ret>> \in Seq(S) /\ Len(c \o <<ret>>) = Len(c) + 1 /\ Len(c) \in Nat
    BY <1>2
  <2>2. (c \o <<ret>>)[Len(c) + 1] = ret /\ \A j \in 1 .. Len(c) : (c \o <<ret>>)[j] = c[j]
    BY <1>2
  <2>3. Len(c) + 1 \in 1 .. Len(d)
    BY <1>2, <2>1
  <2>4. \A j \in 1 .. Len(c) + 1 : d[j] = (c \o <<ret>>)[j]
    BY <1>2, <2>1
  <2> HIDE DEF ret, d
  <2> QED BY <2>1, <2>2, <2>3, <2>4
<1>5. \A j \in 1 .. Len(c) : c[j].op = "free" /\ c[j].site \in 1 .. n
  <2>1. \A j \in 1 .. Len(c) : c[j] \in FreeOf(n)
    OBVIOUS
  <2> QED BY <2>1 DEF FreeOf
<1>6. Len(c) \in Nat /\ (Len(c) + 1) - 1 = Len(c) /\ ret.op = "ret"
  BY <1>2
<1> HIDE DEF d, ret
<1>7. IsSeq(d)
  BY <1>3, SeqIsSeq
<1>8. Leaving(d, n)
  BY <1>4, <1>5, <1>6, <1>7 DEF Leaving
<1> QED BY <1>8 DEF d, ret

-----------------------------------------------------------------------------
(* Lowering and the walk agree.                                            *)

\* l is what lowering made of a statement in the state low, and w is where the
\* walk came from the environment e: followed by code that is right about w, the
\* code is right about e.
Translated(w, l, e, low, exact) ==
    /\ Onto(low, l.low) /\ IsSeq(l.code) /\ (l.low.ended => ~w.falls)
    /\ \A n \in Nat : \A rest :
          /\ l.low.sites <= n /\ IsSeq(rest)
          /\ w.falls => Right(rest, w.env, exact, n)
          => Right(l.code \o rest, e, exact, n)

\* Lowering translates the statements of P as g walks them.
Translates(g, lower, P, exact) ==
    \A t \in P, e \in Env, low \in Good :
        ~low.ended => Translated(g[t][e], lower[g[t][e].code][low], e, low, exact)

LEMMA TranslatedNothing ==
    ASSUME NEW w, NEW e \in Env, NEW low \in Good, NEW exact, ~low.ended, w.env = e, w.falls
    PROVE  Translated(w, Lowered(<<>>, low), e, low, exact)
<1> DEFINE l == Lowered(<<>>, low)
<1>1. l.code = <<>> /\ l.low = low
  BY DEF Lowered
<1>2. IsSeq(<<>>)
  <2>1. <<>> \in Seq({})
    OBVIOUS
  <2> QED BY <2>1, SeqIsSeq
<1> HIDE DEF l
<1>3. Translated(w, l, e, low, exact)
  BY <1>1, <1>2, OntoSelf, EmptyConcat DEF Translated
<1> QED BY <1>3 DEF l

LEMMA TranslatedThen ==
    ASSUME NEW v, NEW k, NEW w, NEW l, NEW e, NEW low \in Good, NEW exact,
           Translated(v, k, e, low, exact), v.falls, Translated(w, l, v.env, k.low, exact)
    PROVE  Translated(w, Lowered(k.code \o l.code, l.low), e, low, exact)
<1> DEFINE c == k.code \o l.code
           r == Lowered(c, l.low)
<1>1. r.code = c /\ r.low = l.low
  BY DEF Lowered
<1>2. Onto(low, k.low) /\ Onto(k.low, l.low) /\ IsSeq(k.code) /\ IsSeq(l.code)
  BY DEF Translated
<1>3. Onto(low, l.low) /\ k.low.sites <= l.low.sites
  BY <1>2, OntoTrans DEF Onto
<1>4. IsSeq(c)
  BY <1>2, ConcatIsSeq
<1>5. k.low.sites \in Nat /\ l.low.sites \in Nat
  BY <1>2 DEF Onto, Good, Lowering
<1>6. ASSUME NEW n \in Nat, NEW rest, l.low.sites <= n, IsSeq(rest),
             w.falls => Right(rest, w.env, exact, n)
      PROVE  Right(c \o rest, e, exact, n)
  <2>1. Right(l.code \o rest, v.env, exact, n)
    BY <1>6 DEF Translated
  <2>2. IsSeq(l.code \o rest) /\ k.low.sites <= n
    BY <1>2, <1>3, <1>5, <1>6, ConcatIsSeq
  <2>3. Right(k.code \o (l.code \o rest), e, exact, n)
    BY <2>1, <2>2 DEF Translated
  <2>4. c \o rest = k.code \o (l.code \o rest)
    <3>1. IsSeq(k.code) /\ IsSeq(l.code) /\ IsSeq(rest)
      BY <1>2, <1>6
    <3> DEFINE kc == k.code
               lc == l.code
    <3>2. IsSeq(kc) /\ IsSeq(lc)
      BY <3>1
    <3> HIDE DEF kc, lc
    <3>3. (kc \o lc) \o rest = kc \o (lc \o rest)
      <4>1. Associate(kc, lc, rest)
        BY <3>1, <3>2, ConcatAssoc
      <4> QED BY <4>1 DEF Associate
    <3> QED BY <3>3 DEF kc, lc
  <2> QED BY <2>3, <2>4
<1>7. l.low.ended => ~w.falls
  BY DEF Translated
<1> HIDE DEF r, c
<1>8. Translated(w, r, e, low, exact)
  BY <1>1, <1>3, <1>4, <1>6, <1>7 DEF Translated
<1> QED BY <1>8 DEF r, c

LEMMA SeqTranslated ==
    ASSUME NEW S, NEW g \in WalkersOf(S), NEW lower, NEW exact, NEW P \in SUBSET S,
           Translates(g, lower, P, exact),
           NEW stmts \in Seq(P), NEW e \in Env, NEW low \in Good, ~low.ended
    PROVE  LET w == WalkSeqBy(g, stmts, e)
           IN  Translated(w, LowerSeqBy(lower, w.code, low), e, low, exact)
<1> DEFINE w == WalkSeqBy(g, stmts, e)
           m == Len(w.code)
<1>1. stmts \in Seq(S)
  BY SeqMonotone
<1>2. PICK a : /\ Through(a, w, g, stmts) /\ a[0].env = e /\ a[0].falls
               /\ \A j \in 0 .. Len(w.code) : a[j].env \in Env /\ a[j].falls \in BOOLEAN
  BY <1>1, WalkThrough DEF WalkersOf
<1>3. w \in Walks(Seq(S))
  BY <1>1, WalkThrough DEF WalkersOf
<1> HIDE DEF w
<1>4. m \in Nat /\ w.code \in Seq(S)
  BY <1>3 DEF Walks
<1>5. ASSUME NEW j \in 1 .. m
      PROVE  /\ stmts[j] \in P /\ a[j - 1].env \in Env /\ a[j - 1].falls
             /\ w.code[j] = g[stmts[j]][a[j - 1].env].code
             /\ a[j].env = g[stmts[j]][a[j - 1].env].env
             /\ a[j].falls = g[stmts[j]][a[j - 1].env].falls
  <2>1. j \in 1 .. Len(stmts)
    BY <1>2, <1>4 DEF Through
  <2>2. stmts[j] \in P
    BY <2>1
  <2>3. j - 1 \in 0 .. m
    BY <1>4
  <2> QED BY <1>2, <2>2, <2>3 DEF Through
<1>6. \A j \in 1 .. m, lo \in Good :
          ~lo.ended => Translated(g[stmts[j]][a[j - 1].env], lower[w.code[j]][lo],
                                  a[j - 1].env, lo, exact)
  <2> SUFFICES ASSUME NEW j \in 1 .. m, NEW lo \in Good, ~lo.ended
               PROVE  Translated(g[stmts[j]][a[j - 1].env], lower[w.code[j]][lo],
                                 a[j - 1].env, lo, exact)
    OBVIOUS
  <2> DEFINE t == stmts[j]
             d == a[j - 1].env
             q == g[t][d]
  <2>1. t \in P /\ d \in Env
    BY <1>5
  <2>2. w.code[j] = q.code
    BY <1>5
  <2>3. Translated(q, lower[q.code][lo], d, lo, exact)
    <3> HIDE DEF t, d
    <3> QED BY <2>1 DEF Translates
  <2> QED BY <2>2, <2>3
<1>7. \A j \in 1 .. m, lo \in Good :
          ~lo.ended => lower[w.code[j]][lo].low \in Good /\ IsSeq(lower[w.code[j]][lo].code)
  BY <1>6 DEF Translated, Onto
<1>8. PICK b : /\ IsLowering(b, lower, w.code, low)
               /\ LowerSeqBy(lower, w.code, low) = b[m]
  <2> DEFINE c == w.code
  <2>1. \A i \in 1 .. Len(c), lo \in Good :
            ~lo.ended => lower[c[i]][lo].low \in Good /\ IsSeq(lower[c[i]][lo].code)
    BY <1>7
  <2> HIDE DEF c
  <2>2. \E b : IsLowering(b, lower, c, low) /\ LowerSeqBy(lower, c, low) = b[Len(c)]
    BY <1>4, <2>1, LowerSteps DEF c
  <2> QED BY <2>2 DEF c
<1> DEFINE T == {j \in 0 .. m : Translated(a[j], b[j], e, low, exact)}
<1>9. 0 \in T
  <2>1. b[0] = Lowered(<<>>, low)
    BY <1>8 DEF IsLowering
  <2>2. Translated(a[0], b[0], e, low, exact)
    BY <1>2, <2>1, TranslatedNothing
  <2> QED BY <1>4, <2>2
<1>10. ASSUME NEW i \in 0 .. m - 1, i \in T PROVE i + 1 \in T
  <2> DEFINE j == i + 1
             r == g[stmts[j]][a[i].env]
             l == lower[w.code[j]][b[i].low]
  <2>1. j \in 1 .. m /\ j \in 0 .. m /\ j - 1 = i
    BY <1>4
  <2>2. Translated(a[i], b[i], e, low, exact)
    BY <1>10
  <2> HIDE DEF j
  <2>3. a[i].falls /\ a[j].env = r.env /\ a[j].falls = r.falls
    BY <1>5, <2>1
  <2>4. b[i].low \in Good /\ ~b[i].low.ended
    BY <2>2, <2>3 DEF Translated, Onto
  <2>5. Translated(r, l, a[i].env, b[i].low, exact)
    BY <1>6, <2>1, <2>4
  <2>6. b[j] = Lowered(b[i].code \o l.code, l.low)
    BY <1>8, <2>1, <2>4 DEF IsLowering, LoweredOn
  <2> HIDE DEF r, l
  <2>7. Translated(r, b[j], e, low, exact)
    BY <2>2, <2>3, <2>5, <2>6, TranslatedThen
  <2>8. Translated(a[j], b[j], e, low, exact)
    BY <2>3, <2>7 DEF Translated
  <2>9. j \in T
    BY <2>1, <2>8
  <2> QED BY <2>9 DEF j
<1>11. m \in T
  <2>1. 0 .. m \subseteq T
    <3> HIDE DEF T, m
    <3> QED BY <1>4, <1>9, <1>10, UptoInduction
  <2> HIDE DEF T, m
  <2> QED BY <1>4, <2>1
<1>12. a[m].env = w.env /\ a[m].falls = w.falls
  BY <1>2 DEF Through
<1>13. Translated(w, b[m], e, low, exact)
  <2>1. Translated(a[m], b[m], e, low, exact)
    BY <1>11
  <2> HIDE DEF m
  <2> QED BY <1>12, <2>1 DEF Translated
<1> QED BY <1>8, <1>13 DEF w

\* One instruction without branches.
LEMMA OneTranslated ==
    ASSUME NEW x, NEW w, NEW r, NEW e \in Env, NEW low \in Good, NEW exact,
           Onto(low, r), ~r.ended, w.env = Flow(e, x), w.falls, x.var \in Var,
           \/ x.op \in {"let", "assign"} /\ x.value \in Value
           \/ x.op = "delete" /\ x.alarm = DeleteAlarm(e, x.var)
           \/ ~exact /\ x.op \in {"pass", "store", "alias"}
    PROVE  Translated(w, Lowered(<<x>>, r), e, low, exact)
<1> DEFINE l == Lowered(<<x>>, r)
<1>1. l.code = <<x>> /\ l.low = r
  BY DEF Lowered
<1> HIDE DEF l
<1>2. ASSUME NEW n \in Nat, NEW rest, IsSeq(rest), Right(rest, w.env, exact, n)
      PROVE  Right(<<x>> \o rest, e, exact, n)
  <2>1. x.op \in Straight
    BY DEF Straight
  <2>2. x.op = "delete" => /\ x.alarm = "Deleted" => e[x.var] = "Deleted"
                           /\ DeleteAlarm(e, x.var) # NoAlarm => x.alarm # NoAlarm
    BY DEF DeleteAlarm, NoAlarm
  <2>3. Fine(<<x>> \o rest, e, exact, n)
    BY <1>2, <2>2, FineFirst
  <2> QED BY <1>2, <2>1, <2>3, RightStraight
<1>3. IsSeq(l.code)
  BY <1>1, OneIsSeq
<1>4. Translated(w, l, e, low, exact)
  BY <1>1, <1>2, <1>3 DEF Translated
<1> QED BY <1>4 DEF l

LEMMA ReturnTranslated ==
    ASSUME NEW s \in Leaf, s.op = "return", NEW g, NEW lower, NEW exact,
           NEW e \in Env, NEW low \in Good
    PROVE  LET w == WalkBy(g, s, e)
           IN  Translated(w, LowerBy(lower, w.code, low), e, low, exact)
<1> DEFINE after == IF s.var \in Var THEN SetMoved(e, s.var) ELSE e
           x == [op |-> s.op, var |-> s.var, leaks |-> ExitScan(after)]
           w == Walked(x, after, FALSE)
           frees == Frees(low.frames)
           ret == [op |-> "ret"]
           r == [low EXCEPT !.ended = TRUE]
           l == Lowered((<<x>> \o frees) \o <<ret>>, r)
<1>0. low \in Lowering /\ low.frames \in Seq(FrameOf(low.sites)) /\ low.sites \in Nat
  BY DEF Good, Lowering
<1>1. s.var \in Var \cup {NoVar}
  BY LeafFields
<1>2. WalkBy(g, s, e) = w
  BY DEF WalkBy, WalkReturn
<1>3. LowerBy(lower, x, low) = l
  <2>1. x.op = "return"
    OBVIOUS
  <2> HIDE DEF x
  <2>2. LowerBy(lower, x, low) = LowerReturnBy(lower, x, low)
    BY <2>1 DEF LowerBy, Allocates
  <2>3. LowerDefersBy(lower, low.frames, low) = Lowered(<<>>, low)
    BY <1>0, NoDefers
  <2>4. LowerReturnBy(lower, x, low)
          = Lowered(<<x>> \o <<>> \o Frees(low.frames) \o <<ret>>, r)
    BY <2>3 DEF LowerReturnBy, Lowered
  <2>5. <<x>> \o <<>> = <<x>>
    OBVIOUS
  <2> QED BY <2>2, <2>4, <2>5
<1>4. frees \in Seq(FreeOf(low.sites))
  BY <1>0, FreesKind
<1>5. x.op = "return" /\ x.var = s.var /\ x.leaks \subseteq ExitScan(e) \ {x.var}
  <2>1. ExitScan(after) \subseteq ExitScan(e) \ {s.var}
    BY <1>1 DEF ExitScan, SetMoved, Env, Owning
  <2> QED BY <2>1
<1>6. Onto(low, r)
  <2>1. r \in Lowering
    BY <1>0 DEF Lowering
  <2>2. r.frames = low.frames /\ r.loops = low.loops /\ r.sites = low.sites
    BY <1>0 DEF Lowering
  <2> HIDE DEF r
  <2> QED BY <2>1, <2>2, GoodRest
<1>7. r.sites = low.sites
  BY <1>0 DEF Lowering
<1>8. w.code = x /\ w.falls = FALSE /\ l.code = (<<x>> \o frees) \o <<ret>> /\ l.low = r
  BY DEF Walked, Lowered
<1> HIDE DEF w, l, r, x, frees, ret
<1>9. IsSeq(frees) /\ IsSeq(<<ret>>) /\ IsSeq(<<x>>)
  BY <1>4, SeqIsSeq, OneIsSeq
<1>10. IsSeq(l.code)
  BY <1>8, <1>9, ConcatIsSeq
<1>11. ASSUME NEW n \in Nat, NEW rest, low.sites <= n, IsSeq(rest)
       PROVE  Right(l.code \o rest, e, exact, n)
  <2> DEFINE d == (frees \o <<ret>>) \o rest
             c == <<x>> \o d
  <2>1. FreeOf(low.sites) \subseteq FreeOf(n)
    BY <1>0, <1>11 DEF FreeOf
  <2>2. frees \in Seq(FreeOf(n))
    BY <1>4, <2>1, SeqMonotone
  <2>3. Leaving(d, n)
    BY <1>11, <2>2, LeavingFrees DEF ret
  <2>4. IsSeq(d)
    BY <2>3 DEF Leaving
  <2>5. l.code \o rest = c
    <3>1. (<<x>> \o frees) \o <<ret>> = <<x>> \o (frees \o <<ret>>)
      <4>1. Associate(<<x>>, frees, <<ret>>)
        BY <1>9, ConcatAssoc
      <4> QED BY <4>1 DEF Associate
    <3>2. IsSeq(frees \o <<ret>>)
      BY <1>9, ConcatIsSeq
    <3>3. (<<x>> \o (frees \o <<ret>>)) \o rest = <<x>> \o ((frees \o <<ret>>) \o rest)
      <4>1. Associate(<<x>>, frees \o <<ret>>, rest)
        BY <1>9, <1>11, <3>2, ConcatAssoc
      <4> QED BY <4>1 DEF Associate
    <3> QED BY <1>8, <3>1, <3>3
  <2> HIDE DEF d
  <2>6. Fine(c, e, exact, n)
    BY <1>1, <1>5, <2>3, <2>4, FineFirst
  <2>7. Head(c) = x
    BY <2>4, FirstAndRest
  <2> HIDE DEF c
  <2>8. Then(c, e) = {}
    BY <1>5, <2>7 DEF Then, Straight
  <2>9. Right(c, e, exact, n)
    BY <2>6, <2>8, RightIntro
  <2> QED BY <2>5, <2>9
<1>12. Translated(w, l, e, low, exact)
  BY <1>6, <1>7, <1>8, <1>10, <1>11 DEF Translated
<1> QED BY <1>2, <1>3, <1>8, <1>12

LEMMA LeafTranslated ==
    ASSUME NEW s \in Leaf, NEW g, NEW lower, NEW exact, NEW e \in Env, NEW low \in Good,
           ~low.ended, s.op \notin {"break", "continue"}, exact => s.op \in ExactKinds
    PROVE  LET w == WalkBy(g, s, e)
           IN  Translated(w, LowerBy(lower, w.code, low), e, low, exact)
<1>1. CASE s.op \in {"let", "assign", "pass", "store", "alias"}
  <2> DEFINE w == Walked(s, Flow(e, s), TRUE)
  <2>1. WalkBy(g, s, e) = w
    BY <1>1 DEF WalkBy
  <2>2. w.code = s /\ w.env = Flow(e, s) /\ w.falls = TRUE
    BY DEF Walked
  <2>3. /\ s.var \in Var
        /\ \/ s.op \in {"let", "assign"} /\ s.value \in Value
           \/ s.op \in {"pass", "store", "alias"}
    BY <1>1, LeafFields
  <2> HIDE DEF w
  <2>4. CASE Allocates(s)
    <3> DEFINE l == LowerScope(s, low)
               x == [op |-> s.op, var |-> s.var, value |-> s.value, site |-> low.sites + 1]
    <3>1. LowerBy(lower, s, low) = l
      BY <2>4 DEF LowerBy, Allocates
    <3>2. Onto(low, l.low) /\ ~l.low.ended /\ l.code = <<x>>
      BY <2>4, LowerScopeGood
    <3>3. x.op = s.op /\ x.var = s.var /\ x.value = s.value
      OBVIOUS
    <3>4. s.op \in {"let", "assign"} /\ s.value \in Value
      BY <2>3, <2>4 DEF Allocates
    <3> HIDE DEF l, x
    <3>5. Flow(e, x) = Flow(e, s)
      BY <3>3, <3>4 DEF Flow
    <3>6. Translated(w, Lowered(<<x>>, l.low), e, low, exact)
      BY <2>2, <2>3, <3>2, <3>3, <3>4, <3>5, OneTranslated
    <3>7. Translated(w, l, e, low, exact)
      <4> DEFINE k == Lowered(<<x>>, l.low)
      <4>1. k.code = l.code /\ k.low = l.low
        BY <3>2 DEF Lowered
      <4> HIDE DEF k
      <4>2. Translated(w, k, e, low, exact)
        BY <3>6 DEF k
      <4> QED BY <4>1, <4>2 DEF Translated
    <3> QED BY <2>1, <2>2, <3>1, <3>7
  <2>5. CASE ~Allocates(s)
    <3>1. LowerBy(lower, s, low) = Lowered(<<s>>, low)
      BY <1>1, <2>5 DEF LowerBy
    <3>2. Onto(low, low)
      BY OntoSelf
    <3>3. \/ s.op \in {"let", "assign"} /\ s.value \in Value
          \/ ~exact /\ s.op \in {"pass", "store", "alias"}
      BY <2>3 DEF ExactKinds
    <3>4. Translated(w, Lowered(<<s>>, low), e, low, exact)
      BY <2>2, <2>3, <3>2, <3>3, OneTranslated
    <3> QED BY <2>1, <2>2, <3>1, <3>4
  <2> QED BY <2>4, <2>5
<1>2. CASE s.op = "delete"
  <2> DEFINE d == [op |-> s.op, var |-> s.var, alarm |-> DeleteAlarm(e, s.var)]
             w == Walked(d, Flow(e, s), TRUE)
             l == LowerDelete(d, low)
             x == Deletes(d, low)
  <2>1. WalkBy(g, s, e) = w
    BY <1>2 DEF WalkBy, WalkDelete
  <2>2. w.code = d /\ w.env = Flow(e, s) /\ w.falls = TRUE
    BY DEF Walked
  <2>3. s.var \in Var
    BY <1>2, LeafFields
  <2>4. d.op = "delete" /\ d.var = s.var /\ d.alarm = DeleteAlarm(e, s.var)
    BY <1>2
  <2> HIDE DEF w, d
  <2>5. x.op = "delete" /\ x.var = s.var /\ x.alarm = DeleteAlarm(e, x.var)
    BY <2>4 DEF Deletes
  <2>6. LowerBy(lower, d, low) = l
    BY <2>4 DEF LowerBy, Allocates
  <2>7. Onto(low, l.low) /\ ~l.low.ended /\ l.code = <<x>>
    BY LowerDeleteGood
  <2> HIDE DEF l, x
  <2>8. Flow(e, x) = Flow(e, s)
    BY <1>2, <2>5 DEF Flow
  <2>9. Translated(w, Lowered(<<x>>, l.low), e, low, exact)
    BY <2>2, <2>3, <2>5, <2>7, <2>8, OneTranslated
  <2>10. Translated(w, l, e, low, exact)
    <3> DEFINE k == Lowered(<<x>>, l.low)
    <3>1. k.code = l.code /\ k.low = l.low
      BY <2>7 DEF Lowered
    <3> HIDE DEF k
    <3>2. Translated(w, k, e, low, exact)
      BY <2>9 DEF k
    <3> QED BY <3>1, <3>2 DEF Translated
  <2> QED BY <2>1, <2>2, <2>6, <2>10
<1>3. CASE s.op = "return"
  BY <1>3, ReturnTranslated
<1> QED BY <1>1, <1>2, <1>3, LeafFields

LEMMA BlockTranslated ==
    ASSUME NEW S, NEW g \in WalkersOf(S), NEW lower, NEW exact, NEW P \in SUBSET S,
           Translates(g, lower, P, exact),
           NEW s, s.op = "block", s.stmts \in Seq(P), NEW e \in Env, NEW low \in Good, ~low.ended
    PROVE  LET w == WalkBy(g, s, e)
           IN  Translated(w, LowerBy(lower, w.code, low), e, low, exact)
<1> DEFINE b == WalkSeqBy(g, s.stmts, e)
           c == [op |-> s.op, stmts |-> b.code]
           w == Walked(c, b.env, b.falls)
           L == LowerSeqBy(lower, b.code, Push(low))
           top == Last(L.low.frames)
           cleared == IF \E a \in ToSet(top.allocs) : a.kind = "slot" THEN SwitchTo(L.low)
                      ELSE L.low
           frees == Frees(<<top>>)
           l == IF L.low.ended THEN Lowered(L.code, Pop(L.low))
                ELSE Lowered(L.code \o <<>> \o frees, Pop(cleared))
<1>1. WalkBy(g, s, e) = w
  BY DEF WalkBy, WalkBlockBy
<1>2. w.code = c /\ w.env = b.env /\ w.falls = b.falls
  BY DEF Walked
<1>3. Push(low) \in Good /\ ~Push(low).ended
  BY PushGood
<1>4. Translated(b, L, e, Push(low), exact)
  BY <1>3, SeqTranslated
<1>5. Onto(Push(low), L.low) /\ IsSeq(L.code)
  BY <1>4 DEF Translated
<1>6. /\ L.low \in Good /\ L.low \in Lowering /\ L.low.sites \in Nat
      /\ L.low.frames \in Seq(FrameOf(L.low.sites)) /\ L.low.frames # <<>>
  BY <1>5 DEF Onto, Good, Lowering
<1>7. top \in FrameOf(L.low.sites)
  <2> DEFINE F == FrameOf(L.low.sites)
             frames == L.low.frames
  <2>1. frames \in Seq(F) /\ frames # <<>>
    BY <1>6
  <2> HIDE DEF F, frames
  <2>2. Last(frames) \in F
    BY <2>1 DEF Last
  <2> QED BY <2>2 DEF F, frames
<1>8. LowerBy(lower, c, low) = l
  <2>1. c.op = "block" /\ c.stmts = b.code
    OBVIOUS
  <2> HIDE DEF c, b
  <2>2. LowerBy(lower, c, low) = LowerBlockBy(lower, c, low)
    BY <2>1 DEF LowerBy, Allocates
  <2>3. LowerDefersBy(lower, <<top>>, L.low) = Lowered(<<>>, L.low)
    <3> HIDE DEF top, L
    <3>1. <<top>> \in Seq(FrameOf(L.low.sites))
      BY <1>7
    <3> QED BY <1>6, <3>1, NoDefers
  <2>4. LowerBlockBy(lower, c, low) = l
    <3> DEFINE d == LowerDefersBy(lower, <<Last(L.low.frames)>>, L.low)
               top0 == Last(d.low.frames)
               freed0 == IF \E a \in ToSet(top0.allocs) : a.kind = "slot"
                         THEN SwitchTo(d.low) ELSE d.low
    <3>1. LowerBlockBy(lower, c, low)
            = IF L.low.ended THEN Lowered(L.code, Pop(L.low))
              ELSE Lowered(L.code \o d.code \o Frees(<<top0>>), Pop(freed0))
      BY <2>1 DEF LowerBlockBy
    <3>2. d.code = <<>> /\ d.low = L.low
      BY <2>3 DEF Lowered
    <3> HIDE DEF d, L
    <3> QED BY <3>1, <3>2
  <2> QED BY <2>2, <2>4
<1>9. frees \in Seq(FreeOf(L.low.sites))
  <2> HIDE DEF top, L
  <2>1. <<top>> \in Seq(FrameOf(L.low.sites))
    BY <1>7
  <2> QED BY <1>6, <2>1, FreesKind
<1> HIDE DEF w, c, b, L, frees
<1>10. ASSUME NEW z, Onto(L.low, z)
       PROVE  /\ Onto(low, Pop(z)) /\ Pop(z).ended = z.ended /\ Pop(z).sites = z.sites
              /\ z.sites \in Nat /\ L.low.sites <= z.sites
  <2>1. Onto(Push(low), z)
    BY <1>3, <1>5, <1>10, OntoTrans
  <2>2. /\ z \in Good /\ Len(z.frames) = Len(low.frames) + 1 /\ z.loops = low.loops
        /\ low.sites <= z.sites
    BY <2>1, PushGood DEF Onto
  <2>3. Len(low.frames) \in Nat /\ Len(low.frames) > 0 /\ z.sites \in Nat
    <3>1. low.frames # <<>> /\ low.frames \in Seq(FrameOf(low.sites))
      BY DEF Good
    <3>2. Len(low.frames) \in Nat /\ Len(low.frames) > 0
      BY <3>1
    <3> QED BY <2>2, <3>2 DEF Good, Lowering
  <2>4. /\ Pop(z) \in Good /\ Len(Pop(z).frames) = Len(z.frames) - 1
        /\ Pop(z).sites = z.sites /\ Pop(z).loops = z.loops /\ Pop(z).ended = z.ended
    BY <2>2, <2>3, PopGood
  <2>5. Onto(low, Pop(z))
    BY <2>2, <2>3, <2>4 DEF Onto
  <2> QED BY <1>10, <2>3, <2>4, <2>5 DEF Onto
<1>11. CASE L.low.ended
  <2>1. l = Lowered(L.code, Pop(L.low))
    BY <1>11
  <2>2. l.code = L.code /\ l.low = Pop(L.low)
    BY <2>1 DEF Lowered
  <2> HIDE DEF l
  <2>3. /\ Onto(low, l.low) /\ l.low.ended /\ l.low.sites = L.low.sites
    BY <1>6, <1>10, <1>11, <2>2, OntoSelf
  <2>4. Translated(w, l, e, low, exact)
    BY <1>2, <1>4, <1>5, <1>11, <2>2, <2>3 DEF Translated
  <2> QED BY <1>1, <1>2, <1>8, <2>4
<1>12. CASE ~L.low.ended
  <2>1. l = Lowered(L.code \o <<>> \o frees, Pop(cleared))
    BY <1>12
  <2>2. L.code \o <<>> = L.code
    <3>1. L.code \in Seq({L.code[i] : i \in DOMAIN L.code})
      BY <1>5 DEF IsSeq
    <3> QED BY <3>1
  <2>3. l.code = L.code \o frees /\ l.low = Pop(cleared)
    BY <2>1, <2>2 DEF Lowered
  <2>4. Onto(L.low, cleared) /\ ~cleared.ended
    BY <1>6, <1>12, OntoSelf, SwitchToGood
  <2> HIDE DEF l, cleared
  <2>5. Onto(low, l.low) /\ ~l.low.ended /\ l.low.sites \in Nat /\ L.low.sites <= l.low.sites
    BY <1>10, <2>3, <2>4
  <2>6. IsSeq(frees)
    BY <1>9, SeqIsSeq
  <2>7. IsSeq(l.code)
    BY <1>5, <2>3, <2>6, ConcatIsSeq
  <2>8. ASSUME NEW n \in Nat, NEW rest, l.low.sites <= n, IsSeq(rest),
               w.falls => Right(rest, w.env, exact, n)
        PROVE  Right(l.code \o rest, e, exact, n)
    <3>1. L.low.sites <= n
      BY <1>6, <2>5, <2>8
    <3>2. FreeOf(L.low.sites) \subseteq FreeOf(n)
      BY <1>6, <3>1 DEF FreeOf
    <3>3. frees \in Seq(FreeOf(n))
      BY <1>9, <3>2, SeqMonotone
    <3>4. w.falls => Right(frees \o rest, w.env, exact, n)
      BY <2>8, <3>3, RightFrees
    <3>5. IsSeq(frees \o rest)
      BY <2>6, <2>8, ConcatIsSeq
    <3>6. Right(L.code \o (frees \o rest), e, exact, n)
      BY <1>2, <1>4, <3>1, <3>4, <3>5 DEF Translated
    <3> DEFINE k == L.code
    <3>7. IsSeq(k)
      BY <1>5
    <3> HIDE DEF k
    <3>8. (k \o frees) \o rest = k \o (frees \o rest)
      <4>1. Associate(k, frees, rest)
        BY <2>6, <2>8, <3>7, ConcatAssoc
      <4> QED BY <4>1 DEF Associate
    <3> QED BY <2>3, <3>6, <3>8 DEF k
  <2>9. Translated(w, l, e, low, exact)
    BY <2>5, <2>7, <2>8 DEF Translated
  <2> QED BY <1>1, <1>2, <1>8, <2>9
<1> QED BY <1>11, <1>12

LEMMA IfTranslated ==
    ASSUME NEW S, NEW g \in WalkersOf(S), NEW lower, NEW P \in SUBSET S,
           Translates(g, lower, P, FALSE),
           NEW s, s.op = "if", s.then \in P, s.els \in Seq(P), NEW e \in Env, NEW low \in Good
    PROVE  LET w == WalkBy(g, s, e)
           IN  Translated(w, LowerBy(lower, w.code, low), e, low, FALSE)
<1> DEFINE t == g[s.then][e]
           u == WalkSeqBy(g, s.els, e)
           joined == CASE t.falls = u.falls -> Merge(t.env, u.env)
                       [] t.falls /\ ~u.falls -> t.env
                       [] ~t.falls /\ u.falls -> u.env
           c == [op |-> s.op, then |-> t.code, els |-> u.code]
           w == Walked(c, joined, t.falls \/ u.falls)
           lt == lower[t.code][Branch(low)]
           lu == LowerSeqBy(lower, u.code, SwitchTo(lt.low))
           x == [op |-> "if", then |-> lt.code, else |-> lu.code]
           r == Join(lu.low, low.nesting)
           l == Lowered(<<x>>, r)
<1>1. WalkBy(g, s, e) = w
  <2>1. WalkBy(g, s, e) = WalkIfBy(g, s, e)
    BY DEF WalkBy
  <2> QED BY <2>1 DEF WalkIfBy
<1>2. w.code = c /\ w.env = joined /\ w.falls = (t.falls \/ u.falls)
  BY DEF Walked
<1>3. LowerBy(lower, c, low) = l
  <2>1. c.op = "if" /\ c.then = t.code /\ c.els = u.code
    OBVIOUS
  <2> HIDE DEF c, t, u
  <2>2. LowerBy(lower, c, low) = LowerIfBy(lower, c, low)
    BY <2>1 DEF LowerBy, Allocates
  <2> QED BY <2>1, <2>2 DEF LowerIfBy
<1>4. /\ low.nesting \in Nat /\ Onto(low, Branch(low)) /\ Branch(low) \in Good
      /\ ~Branch(low).ended
  BY SwitchToGood DEF Onto, Good, Lowering
<1>5. Translated(t, lt, e, Branch(low), FALSE)
  BY <1>4 DEF Translates
<1> HIDE DEF lt
<1>6. Onto(Branch(low), lt.low) /\ lt.low \in Good
  BY <1>5 DEF Translated, Onto
<1>7. Onto(lt.low, SwitchTo(lt.low)) /\ SwitchTo(lt.low) \in Good /\ ~SwitchTo(lt.low).ended
  BY <1>6, SwitchToGood DEF Onto
<1>8. Translated(u, lu, e, SwitchTo(lt.low), FALSE)
  BY <1>7, SeqTranslated
<1>9. /\ t.env \in Env /\ u.env \in Env /\ t.falls \in BOOLEAN /\ u.falls \in BOOLEAN
  <2>1. t \in Walks(S)
    BY DEF WalkersOf
  <2>2. u \in Walks(Seq(S))
    <3>1. s.els \in Seq(S)
      BY SeqMonotone
    <3> QED BY <3>1, WalkThrough DEF WalkersOf
  <2> HIDE DEF t, u
  <2> QED BY <2>1, <2>2 DEF Walks
<1> HIDE DEF t, u, lu
<1>10. /\ t.falls => Weaker(joined, t.env)
       /\ u.falls => Weaker(joined, u.env)
  BY <1>9 DEF Weaker, Merge
<1> HIDE DEF joined
<1>11. Onto(SwitchTo(lt.low), lu.low) /\ lu.low \in Good
  BY <1>8 DEF Translated, Onto
<1>12. Onto(lu.low, r) /\ ~r.ended
  BY <1>4, <1>11, SwitchToGood
<1> HIDE DEF r
<1>13. Onto(low, lt.low) /\ Onto(lt.low, lu.low) /\ Onto(low, lu.low) /\ Onto(low, r)
  BY <1>4, <1>6, <1>7, <1>11, <1>12, OntoTrans
<1>14. /\ lt.low.sites <= lu.low.sites /\ lu.low.sites <= r.sites
       /\ lt.low.sites \in Nat /\ lu.low.sites \in Nat /\ r.sites \in Nat
  BY <1>6, <1>11, <1>12, <1>13 DEF Onto, Good, Lowering
<1>15. IsSeq(lt.code) /\ IsSeq(lu.code)
  BY <1>5, <1>8 DEF Translated
<1>16. l.code = <<x>> /\ l.low = r
  BY DEF Lowered
<1>17. x.op = "if" /\ x.then = lt.code /\ x.else = lu.code
  OBVIOUS
<1> HIDE DEF x, l, w
<1>18. ASSUME NEW n \in Nat, NEW rest, r.sites <= n, IsSeq(rest),
              w.falls => Right(rest, w.env, FALSE, n)
       PROVE  Right(<<x>> \o rest, e, FALSE, n)
  <2> DEFINE d == <<x>> \o rest
  <2>1. Head(d) = x /\ Tail(d) = rest
    BY <1>18, FirstAndRest
  <2>2. lt.low.sites <= n /\ lu.low.sites <= n
    BY <1>14, <1>18
  <2>3. t.falls => Right(rest, t.env, FALSE, n)
    BY <1>2, <1>9, <1>10, <1>18, RightWeaker
  <2>4. u.falls => Right(rest, u.env, FALSE, n)
    BY <1>2, <1>9, <1>10, <1>18, RightWeaker
  <2>5. Right(lt.code \o rest, e, FALSE, n)
    BY <1>5, <1>18, <2>2, <2>3 DEF Translated
  <2>6. Right(lu.code \o rest, e, FALSE, n)
    BY <1>8, <1>18, <2>2, <2>4 DEF Translated
  <2>7. Fine(d, e, FALSE, n)
    BY <1>17, <1>18, FineFirst
  <2> HIDE DEF d
  <2>8. Then(d, e) = {<<lt.code \o rest, e>>, <<lu.code \o rest, e>>}
    BY <1>17, <2>1 DEF Then, Straight
  <2>9. Right(d, e, FALSE, n)
    BY <2>5, <2>6, <2>7, <2>8, RightIntro DEF Right
  <2> QED BY <2>9 DEF d
<1>19. IsSeq(l.code)
  BY <1>16, OneIsSeq
<1>20. Translated(w, l, e, low, FALSE)
  BY <1>12, <1>13, <1>16, <1>18, <1>19 DEF Translated
<1> QED BY <1>1, <1>2, <1>3, <1>20

LEMMA LoopTranslated ==
    ASSUME NEW S, NEW g \in WalkersOf(S), NEW lower, NEW P \in SUBSET S,
           Translates(g, lower, P, FALSE),
           NEW s, s.op = "while" \/ s.op = "do", s.body \in P, NEW e \in Env, NEW low \in Good
    PROVE  LET w == WalkBy(g, s, e)
           IN  Translated(w, LowerBy(lower, w.code, low), e, low, FALSE)
<1> DEFINE b == g[s.body][e]
           c == [op |-> s.op, body |-> b.code]
           w == Walked(c, Merge(e, b.env), TRUE)
           first == Branch(Enter(low, TRUE))
           lb == lower[b.code][first]
           x == [op |-> s.op, turn |-> lb.code]
           r == Leave(lb.low, low.nesting)
           l == Lowered(<<x>>, r)
           loop == [op |-> "loop", turn |-> lb.code]
<1>1. WalkBy(g, s, e) = w
  BY DEF WalkBy, WalkOnceBy
<1>2. w.code = c /\ w.env = Merge(e, b.env) /\ w.falls = TRUE
  BY DEF Walked
<1>3. LowerBy(lower, c, low) = l
  <2>1. c.op = s.op /\ c.body = b.code
    OBVIOUS
  <2> HIDE DEF c, b
  <2>2. LowerBy(lower, c, low) = LowerLoopBy(lower, c, low)
    BY <2>1 DEF LowerBy, Allocates
  <2> QED BY <2>1, <2>2 DEF LowerLoopBy
<1>4. low.nesting \in Nat
  BY DEF Good, Lowering
<1>5. first \in Good /\ ~first.ended
  <2>1. Enter(low, TRUE) \in Good
    BY EnterGood
  <2> DEFINE entered == Enter(low, TRUE)
  <2> HIDE DEF entered
  <2>2. Branch(entered) \in Good /\ ~Branch(entered).ended
    BY <2>1, SwitchToGood DEF Onto, entered
  <2> QED BY <2>2 DEF entered
<1>6. Translated(b, lb, e, first, FALSE)
  <2> HIDE DEF first
  <2> QED BY <1>5 DEF Translates
<1> HIDE DEF lb
<1>7. Onto(first, lb.low) /\ IsSeq(lb.code)
  BY <1>6 DEF Translated
<1>8. Onto(low, r) /\ ~r.ended
  BY <1>4, <1>7, LeaveGood
<1>9. r.sites = lb.low.sites /\ r.sites \in Nat
  <2>1. lb.low \in Lowering
    BY <1>7 DEF Onto, Good
  <2> QED BY <2>1 DEF Leave, Join, SwitchTo, Lowering
<1>10. b.env \in Env
  <2>1. b \in Walks(S)
    BY DEF WalkersOf
  <2> HIDE DEF b
  <2> QED BY <2>1 DEF Walks
<1>11. l.code = <<x>> /\ l.low = r
  BY DEF Lowered
<1>12. /\ x.op = s.op /\ x.turn = lb.code
       /\ loop.op = "loop" /\ loop = [op |-> "loop", turn |-> x.turn]
  OBVIOUS
<1> HIDE DEF x, l, w, r, first, b, loop
<1>13. Weaker(Merge(e, b.env), e) /\ Weaker(Merge(e, b.env), b.env)
  BY DEF Weaker, Merge
<1>14. ASSUME NEW n \in Nat, NEW rest, r.sites <= n, IsSeq(rest),
              w.falls => Right(rest, w.env, FALSE, n)
       PROVE  Right(<<x>> \o rest, e, FALSE, n)
  <2> DEFINE d == <<x>> \o rest
             again == <<loop>> \o rest
             turn == (lb.code \o <<loop>>) \o rest
  <2>1. Head(d) = x /\ Tail(d) = rest
    BY <1>14, FirstAndRest
  <2>2. Right(rest, Merge(e, b.env), FALSE, n)
    BY <1>2, <1>14
  <2>3. Right(rest, e, FALSE, n) /\ Right(rest, b.env, FALSE, n)
    BY <1>10, <1>13, <2>2, RightWeaker
  <2>4. Fine(again, b.env, FALSE, n)
    BY <1>10, <1>12, <1>14, FineFirst
  <2>5. Right(again, b.env, FALSE, n)
    <3> DEFINE f == b.env
               exact == FALSE
    <3>1. /\ loop.op \in {"free", "loop", "exit"} /\ IsSeq(rest)
          /\ Fine(<<loop>> \o rest, f, exact, n) /\ Right(rest, f, exact, n)
      BY <1>12, <1>14, <2>3, <2>4
    <3> HIDE DEF f, exact
    <3>2. Right(<<loop>> \o rest, f, exact, n)
      BY <3>1, RightOver
    <3> QED BY <3>2 DEF f, exact
  <2>6. IsSeq(again) /\ IsSeq(<<loop>>)
    BY <1>14, OneIsSeq, ConcatIsSeq
  <2>7. Right(lb.code \o again, e, FALSE, n)
    <3> HIDE DEF again
    <3> QED BY <1>6, <1>9, <1>14, <2>5, <2>6 DEF Translated
  <2>8. turn = lb.code \o again
    <3> DEFINE k == lb.code
    <3>1. IsSeq(k)
      BY <1>7
    <3> HIDE DEF k
    <3>2. (k \o <<loop>>) \o rest = k \o (<<loop>> \o rest)
      <4>1. Associate(k, <<loop>>, rest)
        BY <1>14, <2>6, <3>1, ConcatAssoc
      <4> QED BY <4>1 DEF Associate
    <3> QED BY <3>2 DEF k
  <2>9. Fine(d, e, FALSE, n)
    BY <1>12, <1>14, FineFirst
  <2> HIDE DEF d, again
  <2>10. Then(d, e) = {<<rest, e>>, <<turn, e>>}
    BY <1>12, <2>1 DEF Then, Straight
  <2>11. Right(d, e, FALSE, n)
    <3> HIDE DEF turn
    <3> QED BY <2>3, <2>7, <2>8, <2>9, <2>10, RightIntro DEF Right
  <2> QED BY <2>11 DEF d
<1>15. IsSeq(l.code)
  BY <1>11, OneIsSeq
<1>16. Translated(w, l, e, low, FALSE)
  BY <1>8, <1>11, <1>14, <1>15 DEF Translated
<1> QED BY <1>1, <1>2, <1>3, <1>16

LEMMA SwitchTranslated ==
    ASSUME NEW S, NEW g \in WalkersOf(S), NEW lower, NEW P \in SUBSET S,
           Translates(g, lower, P, FALSE),
           NEW s, s.op = "switch", s.arms \in Seq(Seq(P)), NEW e \in Env, NEW low \in Good
    PROVE  LET w == WalkBy(g, s, e)
           IN  Translated(w, LowerBy(lower, w.code, low), e, low, FALSE)
<1> DEFINE N == Len(s.arms)
           arm == [i \in DOMAIN s.arms |-> WalkSeqBy(g, s.arms[i], e)]
           codes == [i \in DOMAIN arm |-> arm[i].code]
           merged == [v \in Var |-> IF \A i \in DOMAIN arm : arm[i].falls => arm[i].env[v] = e[v]
                                    THEN e[v] ELSE "untracked"]
           c == [op |-> s.op, arms |-> codes, default |-> s.default]
           w == Walked(c, merged, TRUE)
           first == Branch(Enter(low, FALSE))
           Of(i, lo) == LowerSeqBy(lower, codes[i], SwitchTo(lo))
<1>0. /\ N \in Nat /\ DOMAIN s.arms = 1 .. N /\ DOMAIN arm = 1 .. N /\ DOMAIN codes = 1 .. N
      /\ Len(codes) = N
  <2>1. N \in Nat /\ DOMAIN s.arms = 1 .. N
    OBVIOUS
  <2>2. DOMAIN codes = 1 .. N
    BY <2>1
  <2>3. codes \in Seq({codes[i] : i \in 1 .. N})
    <3>1. codes = [i \in 1 .. N |-> codes[i]]
      BY <2>1
    <3> HIDE DEF codes
    <3> QED BY <2>1, <3>1
  <2> HIDE DEF N
  <2>4. Len(codes) = N
    BY <2>1, <2>2, <2>3
  <2> QED BY <2>1, <2>2, <2>4
<1>1. WalkBy(g, s, e) = w
  <2>1. WalkBy(g, s, e) = WalkSwitchBy(g, s, e)
    BY DEF WalkBy
  <2> QED BY <2>1 DEF WalkSwitchBy
<1>2. w.code = c /\ w.env = merged /\ w.falls = TRUE
  BY DEF Walked
<1>3. first \in Good
  <2>1. Enter(low, FALSE) \in Good
    BY EnterGood
  <2> DEFINE entered == Enter(low, FALSE)
  <2>2. first = Branch(entered) /\ entered \in Good
    BY <2>1
  <2> HIDE DEF entered, first
  <2> QED BY <2>2, SwitchToGood DEF Onto
<1>4. ASSUME NEW i \in 1 .. N, NEW lo \in Good
      PROVE  /\ Translated(arm[i], Of(i, lo), e, SwitchTo(lo), FALSE)
             /\ Onto(lo, Of(i, lo).low) /\ arm[i].env \in Env
  <2> DEFINE b == WalkSeqBy(g, s.arms[i], e)
  <2>1. arm[i] = b /\ codes[i] = b.code
    BY <1>0
  <2>2. s.arms[i] \in Seq(P)
    BY <1>0
  <2>3. SwitchTo(lo) \in Good /\ ~SwitchTo(lo).ended /\ Onto(lo, SwitchTo(lo))
    BY SwitchToGood DEF Onto
  <2>4. Translated(b, LowerSeqBy(lower, b.code, SwitchTo(lo)), e, SwitchTo(lo), FALSE)
    BY <2>2, <2>3, SeqTranslated
  <2>5. b \in Walks(Seq(S))
    <3>1. s.arms[i] \in Seq(S)
      BY <2>2, SeqMonotone
    <3> QED BY <3>1, WalkThrough DEF WalkersOf
  <2> DEFINE k == Of(i, lo)
  <2> HIDE DEF b, arm, codes
  <2>6. Translated(b, k, e, SwitchTo(lo), FALSE)
    BY <2>1, <2>4
  <2> HIDE DEF k
  <2>7. Onto(lo, k.low)
    BY <2>3, <2>6, OntoTrans DEF Translated
  <2>8. b.env \in Env
    BY <2>5 DEF Walks
  <2> QED BY <2>1, <2>6, <2>7, <2>8 DEF k
<1>5. c.op = "switch" /\ c.arms = codes /\ c.default = s.default
  OBVIOUS
<1> HIDE DEF c, codes, N
<1>6. LowerBy(lower, c, low) = LowerSwitchBy(lower, c, low)
  BY <1>5 DEF LowerBy, Allocates
<1>7. PICK a : /\ IsArms(a, lower, c.arms, first)
               /\ LowerSwitchBy(lower, c, low)
                    = Lowered(<<[op |-> "switch", arms |-> a[N].code, default |-> c.default]>>,
                              Leave(a[N].low, low.nesting))
  <2>1. \A i \in 1 .. N, lo \in Good : LowerSeqBy(lower, c.arms[i], SwitchTo(lo)).low \in Good
    BY <1>4, <1>5 DEF Onto
  <2>2. Len(c.arms) = N /\ N \in Nat
    BY <1>0, <1>5
  <2> QED BY <1>3, <2>1, <2>2, ArmSteps
<1>8. /\ a[0] = Lowered(<<>>, first)
      /\ \A i \in 1 .. N : a[i] = Lowered(Append(a[i - 1].code, Of(i, a[i - 1].low).code),
                                          Of(i, a[i - 1].low).low)
  BY <1>0, <1>5, <1>7 DEF IsArms
\* Each arm is translated, and every site it uses is one of those known at the end.
<1> DEFINE Fit(i, j) == /\ a[i].low.sites \in Nat
                        /\ \A n \in Nat : \A rest :
                              /\ a[i].low.sites <= n /\ IsSeq(rest)
                              /\ arm[j].falls => Right(rest, arm[j].env, FALSE, n)
                              => Right(a[i].code[j] \o rest, e, FALSE, n)
           Upto(i) == /\ Onto(first, a[i].low) /\ a[i].code \in Seq({a[i].code[j] : j \in 1 .. i})
                      /\ Len(a[i].code) = i
                      /\ \A j \in 1 .. i : IsSeq(a[i].code[j]) /\ Fit(i, j)
           T == {i \in 0 .. N : Upto(i)}
<1> HIDE DEF w, arm, merged, first
<1>9. 0 \in T
  <2>1. a[0].code = <<>> /\ a[0].low = first
    BY <1>8 DEF Lowered
  <2>2. Onto(first, first)
    BY <1>3, OntoSelf
  <2>3. \A A : <<>> \in Seq(A) /\ Len(<<>>) = 0
    OBVIOUS
  <2>4. \A j \in 1 .. 0 : FALSE
    OBVIOUS
  <2>5. Upto(0)
    <3> HIDE DEF Fit
    <3> QED BY <2>1, <2>2, <2>3, <2>4
  <2> HIDE DEF Upto
  <2> QED BY <1>0, <2>5
<1>10. ASSUME NEW i0 \in 0 .. N - 1, i0 \in T PROVE i0 + 1 \in T
  <2> DEFINE i == i0 + 1
             k == Of(i, a[i0].low)
             old == a[i0].code
  <2>1. i \in 1 .. N /\ i \in 0 .. N /\ i - 1 = i0 /\ i0 \in Nat /\ i \in Nat
    BY <1>0
  <2>2. Upto(i0)
    BY <1>10
  <2>3. a[i0].low \in Good
    BY <2>2 DEF Onto
  <2> HIDE DEF i
  <2>4. a[i] = Lowered(Append(old, k.code), k.low)
    BY <1>8, <2>1
  <2>5. /\ Translated(arm[i], k, e, SwitchTo(a[i0].low), FALSE)
        /\ Onto(a[i0].low, k.low)
    BY <1>4, <2>1, <2>3
  <2> HIDE DEF k, Of
  <2>6. a[i].code = Append(old, k.code) /\ a[i].low = k.low
    BY <2>4 DEF Lowered
  <2>7. Onto(first, a[i].low) /\ a[i0].low.sites <= a[i].low.sites
        /\ a[i0].low.sites \in Nat /\ a[i].low.sites \in Nat
    <3>1. Onto(first, k.low) /\ k.low \in Good
      BY <1>3, <2>2, <2>5, OntoTrans DEF Onto
    <3> QED BY <2>3, <2>5, <2>6, <3>1 DEF Onto, Good, Lowering
  <2>8. /\ Len(a[i].code) = i /\ a[i].code[i] = k.code
        /\ \A j \in 1 .. i0 : a[i].code[j] = old[j]
        /\ a[i].code \in Seq({a[i].code[j] : j \in 1 .. i})
    <3> DEFINE A == {old[j] : j \in 1 .. i0}
               B == A \cup {k.code}
               new == Append(old, k.code)
    <3>1. old \in Seq(A) /\ Len(old) = i0
      BY <2>2
    <3>2. old \in Seq(B)
      <4> HIDE DEF A
      <4> QED BY <3>1, SeqMonotone
    <3>3. k.code \in B
      OBVIOUS
    <3> HIDE DEF A, B
    <3>4. new \in Seq(B) /\ Len(new) = i0 + 1 /\ new[i0 + 1] = k.code
      BY <3>1, <3>2, <3>3
    <3>5. \A j \in 1 .. i0 : new[j] = old[j]
      BY <3>1, <3>2, <3>3
    <3> HIDE DEF new, old
    <3>6. DOMAIN new = 1 .. i /\ Len(new) = i
      BY <2>1, <3>4 DEF i
    <3>7. new \in Seq({new[j] : j \in 1 .. i})
      <4>1. IsSeq(new)
        BY <3>4, SeqIsSeq
      <4> QED BY <3>6, <4>1 DEF IsSeq
    <3>8. a[i].code = new
      BY <2>6 DEF new
    <3> QED BY <3>4, <3>5, <3>6, <3>7, <3>8 DEF i
  <2>9. ASSUME NEW j \in 1 .. i PROVE IsSeq(a[i].code[j]) /\ Fit(i, j)
    <3>1. CASE j = i
      <4>1. IsSeq(k.code)
        BY <2>5 DEF Translated
      <4>2. \A n \in Nat : \A rest :
                /\ k.low.sites <= n /\ IsSeq(rest)
                /\ arm[j].falls => Right(rest, arm[j].env, FALSE, n)
                => Right(k.code \o rest, e, FALSE, n)
        BY <2>5, <3>1 DEF Translated
      <4> QED BY <2>6, <2>7, <2>8, <3>1, <4>1, <4>2
    <3>2. CASE j # i
      <4>1. j \in 1 .. i0
        BY <2>1, <3>2 DEF i
      <4>2. IsSeq(old[j]) /\ Fit(i0, j)
        BY <2>2, <4>1
      <4>3. a[i].code[j] = old[j]
        BY <2>8, <4>1
      <4>4. ASSUME NEW n \in Nat, NEW rest, a[i].low.sites <= n, IsSeq(rest),
                   arm[j].falls => Right(rest, arm[j].env, FALSE, n)
            PROVE  Right(old[j] \o rest, e, FALSE, n)
        <5>1. a[i0].low.sites <= n
          BY <2>7, <4>4
        <5> QED BY <4>2, <4>4, <5>1
      <4> HIDE DEF old
      <4> QED BY <2>7, <4>2, <4>3, <4>4
    <3> QED BY <3>1, <3>2
  <2>10. Upto(i)
    <3> HIDE DEF Fit
    <3> QED BY <2>7, <2>8, <2>9
  <2>11. i \in T
    <3> HIDE DEF Upto
    <3> QED BY <2>1, <2>10
  <2> QED BY <2>11 DEF i
<1>11. Upto(N)
  <2>1. 0 .. N \subseteq T
    <3> HIDE DEF T
    <3> QED BY <1>0, <1>9, <1>10, UptoInduction
  <2>2. N \in T
    <3> HIDE DEF T
    <3> QED BY <1>0, <2>1
  <2> HIDE DEF Upto
  <2> QED BY <2>2
<1> DEFINE all == a[N]
           x == [op |-> "switch", arms |-> all.code, default |-> c.default]
           r == Leave(all.low, low.nesting)
           l == Lowered(<<x>>, r)
<1>12. LowerBy(lower, c, low) = l
  BY <1>6, <1>7
<1>13. low.nesting \in Nat
  BY DEF Good, Lowering
<1>14. Onto(low, r) /\ ~r.ended
  <2>1. Onto(Branch(Enter(low, FALSE)), all.low)
    BY <1>11 DEF first
  <2> QED BY <1>13, <2>1, LeaveGood
<1>15. r.sites = all.low.sites /\ r.sites \in Nat
  <2>1. all.low \in Lowering
    BY <1>11 DEF Onto, Good
  <2> HIDE DEF all
  <2> QED BY <2>1 DEF Leave, Join, SwitchTo, Lowering
<1>16. l.code = <<x>> /\ l.low = r
  BY DEF Lowered
<1>17. x.op = "switch" /\ x.arms = all.code
  OBVIOUS
<1>18. ToSet(all.code) = {all.code[j] : j \in 1 .. N}
  <2>1. DOMAIN all.code = 1 .. N
    BY <1>11
  <2> QED BY <2>1 DEF ToSet
<1>19. \A j \in 1 .. N : IsSeq(all.code[j]) /\ Fit(N, j)
  BY <1>11
<1>20. /\ Weaker(merged, e)
       /\ \A j \in 1 .. N : arm[j].falls => Weaker(merged, arm[j].env)
  BY <1>0 DEF Weaker, merged
<1> HIDE DEF x, l, r, Upto, T
<1>21. ASSUME NEW n \in Nat, NEW rest, r.sites <= n, IsSeq(rest),
              w.falls => Right(rest, w.env, FALSE, n)
       PROVE  Right(<<x>> \o rest, e, FALSE, n)
  <2> DEFINE d == <<x>> \o rest
             exit == [op |-> "exit"]
  <2>1. Head(d) = x /\ Tail(d) = rest
    BY <1>21, FirstAndRest
  <2>2. Right(rest, merged, FALSE, n)
    BY <1>2, <1>21
  <2>3. Right(rest, e, FALSE, n)
    BY <1>20, <2>2, RightWeaker
  <2>4. ASSUME NEW j \in 1 .. N
        PROVE  Right((all.code[j] \o <<exit>>) \o rest, e, FALSE, n)
    <3> DEFINE f == arm[j].env
               next == <<exit>> \o rest
               k == all.code[j]
    <3>1. exit.op = "exit"
      OBVIOUS
    <3> HIDE DEF exit
    <3>2. f \in Env
      BY <1>3, <1>4
    <3>3. arm[j].falls => Right(rest, f, FALSE, n)
      <4> SUFFICES ASSUME arm[j].falls PROVE Right(rest, f, FALSE, n)
        OBVIOUS
      <4>1. Weaker(merged, f)
        BY <1>20
      <4> HIDE DEF f
      <4> QED BY <2>2, <3>2, <4>1, RightWeaker
    <3> HIDE DEF f, k
    <3>4. Fine(next, f, FALSE, n)
      BY <1>21, <3>1, <3>2, FineFirst
    <3>5. arm[j].falls => Right(next, f, FALSE, n)
      <4> DEFINE exact == FALSE
      <4>1. exit.op \in {"free", "loop", "exit"}
        BY <3>1
      <4>2. Fine(next, f, exact, n) /\ (arm[j].falls => Right(rest, f, exact, n))
        BY <3>3, <3>4
      <4> HIDE DEF exact
      <4>3. arm[j].falls => Right(next, f, exact, n)
        BY <1>21, <4>1, <4>2, RightOver
      <4> QED BY <4>3 DEF exact
    <3>6. IsSeq(<<exit>>) /\ IsSeq(next)
      BY <1>21, OneIsSeq, ConcatIsSeq
    <3>7. IsSeq(k)
      BY <1>19 DEF k
    <3>8. (k \o <<exit>>) \o rest = k \o next
      <4>1. Associate(k, <<exit>>, rest)
        BY <1>21, <3>6, <3>7, ConcatAssoc
      <4> QED BY <4>1 DEF Associate
    <3> HIDE DEF next
    <3>9. Right(k \o next, e, FALSE, n)
      <4>1. Fit(N, j) /\ all.low.sites <= n
        BY <1>15, <1>19, <1>21
      <4> QED BY <3>5, <3>6, <4>1 DEF f, k
    <3> QED BY <3>8, <3>9 DEF k
  <2>5. Fine(d, e, FALSE, n)
    BY <1>17, <1>21, FineFirst
  <2> HIDE DEF d, all
  <2>6. Then(d, e) = {<<rest, e>>} \cup {<<k \o <<exit>> \o rest, e>> : k \in ToSet(all.code)}
    BY <1>17, <2>1 DEF Then, Straight
  <2> HIDE DEF exit
  <2>7. \A p \in Then(d, e) : RightPair(p, FALSE, n)
    BY <1>18, <2>3, <2>4, <2>6 DEF Right
  <2>8. Right(d, e, FALSE, n)
    BY <2>5, <2>7, RightIntro
  <2> QED BY <2>8 DEF d
<1>22. IsSeq(l.code)
  BY <1>16, OneIsSeq
<1>23. Translated(w, l, e, low, FALSE)
  BY <1>14, <1>16, <1>21, <1>22 DEF Translated
<1> QED BY <1>1, <1>2, <1>12, <1>23

\* A statement made of statements of P, that are walked and lowered alike.
LEMMA OverTranslated ==
    ASSUME NEW S, NEW g \in WalkersOf(S), NEW lower, NEW exact \in BOOLEAN, NEW P \in SUBSET S,
           Translates(g, lower, P, exact),
           NEW s \in Over(S), Inside(s) \subseteq P, s.op # "defer", exact => s.op \in ExactKinds,
           NEW e \in Env, NEW low \in Good, ~low.ended
    PROVE  LET w == WalkBy(g, s, e)
           IN  Translated(w, LowerBy(lower, w.code, low), e, low, exact)
<1>1. ASSUME NEW c \in Seq(S), ToSet(c) \subseteq P
      PROVE  c \in Seq(P)
  <2>1. \A i \in 1 .. Len(c) : c[i] \in P
    BY <1>1 DEF ToSet
  <2> QED BY <2>1
<1>2. CASE s.op = "block" /\ s.stmts \in Seq(S)
  <2>1. ToSet(s.stmts) \subseteq P
    BY <1>2 DEF Inside
  <2>2. s.stmts \in Seq(P)
    BY <1>1, <1>2, <2>1
  <2> QED BY <1>2, <2>2, BlockTranslated
<1>3. CASE s.op # "block"
  <2>1. ~exact
    BY <1>3, OverFields DEF ExactKinds
  <2> DEFINE w == WalkBy(g, s, e)
  <2>2. Translates(g, lower, P, FALSE)
    BY <2>1
  <2>3. CASE s.op = "if" /\ s.then \in S /\ s.els \in Seq(S)
    <3>1. s.then \in P /\ ToSet(s.els) \subseteq P
      BY <2>3 DEF Inside
    <3>2. s.els \in Seq(P)
      BY <1>1, <2>3, <3>1
    <3>3. Translated(w, LowerBy(lower, w.code, low), e, low, FALSE)
      BY <2>2, <2>3, <3>1, <3>2, IfTranslated
    <3> QED BY <2>1, <3>3
  <2>4. CASE s.op \in {"while", "do"} /\ s.body \in S
    <3>1. (s.op = "while" \/ s.op = "do") /\ s.body \in P
      BY <2>4 DEF Inside
    <3>2. Translated(w, LowerBy(lower, w.code, low), e, low, FALSE)
      BY <2>2, <3>1, LoopTranslated
    <3> QED BY <2>1, <3>2
  <2>5. CASE s.op = "switch" /\ s.arms \in Seq(Seq(S))
    <3>1. ASSUME NEW i \in 1 .. Len(s.arms) PROVE s.arms[i] \in Seq(P)
      <4>1. s.arms[i] \in Seq(S) /\ i \in DOMAIN s.arms
        BY <2>5
      <4>2. ToSet(s.arms[i]) \subseteq P
        BY <2>5, <4>1 DEF Inside
      <4> QED BY <1>1, <4>1, <4>2
    <3>2. s.arms \in Seq(Seq(P))
      BY <2>5, <3>1
    <3>3. Translated(w, LowerBy(lower, w.code, low), e, low, FALSE)
      BY <2>2, <2>5, <3>2, SwitchTranslated
    <3> QED BY <2>1, <3>3
  <2> QED BY <1>3, <2>3, <2>4, <2>5, OverFields
<1> QED BY <1>2, <1>3, OverFields

\* Whatever statement of the kinds K, the code lowering makes of it is right about
\* what the walk knows before it, if what follows is right about what it knows after.
LEMMA StmtTranslated ==
    ASSUME NEW K, K \cap {"break", "continue", "defer"} = {},
           NEW exact \in BOOLEAN, exact => K \subseteq ExactKinds,
           NEW h \in Depth, NEW k \in 0 .. 2 * MaxDepth, h <= k
    PROVE  Translates(walkAt[h], lowerAt[k], {s \in StmtOf[h] : kindsAt[h][s] \subseteq K}, exact)
<1> DEFINE Of(i) == {s \in StmtOf[i] : kindsAt[i][s] \subseteq K}
           M == 2 * MaxDepth
           T == {i \in Nat : i \in Depth =>
                    \A j \in 0 .. M : i <= j => Translates(walkAt[i], lowerAt[j], Of(i), exact)}
<1>0. MaxDepth \in Nat /\ M \in Nat /\ \A i \in Depth : i \in Nat
  BY LocalAssumption DEF Depth
<1>1. ASSUME NEW i \in Depth, NEW j \in 0 .. M, i <= j,
             i # 0 => Translates(walkAt[i - 1], lowerAt[j - 1], Of(i - 1), exact)
      PROVE  Translates(walkAt[i], lowerAt[j], Of(i), exact)
  <2> SUFFICES ASSUME NEW s \in Of(i), NEW e \in Env, NEW low \in Good, ~low.ended
               PROVE  Translated(walkAt[i][s][e], lowerAt[j][walkAt[i][s][e].code][low],
                                 e, low, exact)
    BY DEF Translates
  <2> DEFINE w == walkAt[i][s][e]
             g == walkAt[i - 1]
  <2>1. s \in StmtOf[i] /\ kindsAt[i][s] \subseteq K
    OBVIOUS
  <2>2. w = WalkBy(g, s, e)
    BY <2>1, WalkLayers
  <2>3. w.code \in Stmt
    <3>1. w \in Walks(StmtOf[i])
      BY <2>1, WalkLayers DEF WalkersOf
    <3> HIDE DEF w
    <3>2. w.code \in StmtOf[i]
      BY <3>1 DEF Walks
    <3> QED BY <3>2, StmtGrows
  <2>4. low \in Lowering
    BY DEF Good
  <2> HIDE DEF w
  <2>5. PICK lower : /\ lowerAt[j][w.code][low] = LowerBy(lower, w.code, low)
                     /\ j # 0 => lower = lowerAt[j - 1]
    BY <2>3, <2>4, LowerLayers
  <2>6. s.op \in K /\ \A t \in Inside(s) : kindsAt[i - 1][t] \subseteq K
    BY <2>1, KindsInside
  <2>7. s.op \notin {"break", "continue", "defer"} /\ (exact => s.op \in ExactKinds)
    BY <2>6
  <2>8. CASE s \in Leaf
    <3> DEFINE v == WalkBy(g, s, e)
    <3>1. Translated(v, LowerBy(lower, v.code, low), e, low, exact)
      BY <2>7, <2>8, LeafTranslated
    <3> HIDE DEF v
    <3>2. w = v
      BY <2>2 DEF v
    <3> QED BY <2>5, <3>1, <3>2 DEF w
  <2>9. CASE i # 0 /\ i - 1 \in Depth /\ s \in Over(StmtOf[i - 1])
    <3> DEFINE v == WalkBy(g, s, e)
               S == StmtOf[i - 1]
    <3>1. g \in WalkersOf(S)
      BY <2>9, WalkLayers
    <3>2. j # 0
      BY <1>0, <1>1, <2>9
    <3>3. Inside(s) \subseteq Of(i - 1)
      BY <2>6, <2>9, InsideOver
    <3>4. Translates(g, lower, Of(i - 1), exact)
      BY <1>1, <2>5, <2>9, <3>2
    <3>5. Of(i - 1) \in SUBSET S
      OBVIOUS
    <3>6. s \in Over(S)
      BY <2>9
    <3> HIDE DEF g, S, Of
    <3>7. Translated(v, LowerBy(lower, v.code, low), e, low, exact)
      BY <2>7, <3>1, <3>3, <3>4, <3>5, <3>6, OverTranslated
    <3> HIDE DEF v
    <3>8. w = v
      BY <2>2 DEF v
    <3> QED BY <2>5, <3>7, <3>8 DEF w
  <2> QED BY <2>1, <2>8, <2>9, StmtCases
<1> HIDE DEF Of
<1>2. 0 \in T
  <2> SUFFICES ASSUME 0 \in Depth, NEW j \in 0 .. M
               PROVE  Translates(walkAt[0], lowerAt[j], Of(0), exact)
    OBVIOUS
  <2> QED BY <1>0, <1>1
<1>3. ASSUME NEW n \in Nat, n \in T PROVE n + 1 \in T
  <2> DEFINE i == n + 1
  <2> SUFFICES ASSUME i \in Depth, NEW j \in 0 .. M, i <= j
               PROVE  Translates(walkAt[i], lowerAt[j], Of(i), exact)
    OBVIOUS
  <2>1. n \in Depth /\ i - 1 = n /\ j - 1 \in 0 .. M /\ n <= j - 1
    BY <1>0 DEF Depth
  <2>2. Translates(walkAt[n], lowerAt[j - 1], Of(n), exact)
    BY <1>3, <2>1
  <2> HIDE DEF i
  <2> QED BY <1>1, <2>1, <2>2
<1>4. Nat \subseteq T
  <2> HIDE DEF T
  <2> QED BY <1>2, <1>3, NatSetInduction
<1>5. Translates(walkAt[h], lowerAt[k], Of(h), exact)
  <2> HIDE DEF Of
  <2> QED BY <1>0, <1>4
<1> QED BY <1>5 DEF Of

-----------------------------------------------------------------------------
(* The run.                                                                *)

Exact == about.kinds \subseteq ExactKinds

\* What the environment says of the local v is so in the heap.
AgreesOn(v, e) ==
    /\ e[v] = "Owned" => ptr[v] \in Object \ (freed \cup letGo \cup scoped)
    /\ e[v] = "OwnedScope" => ptr[v] \in scoped
    /\ e[v] = "Deleted" => ptr[v] \in freed
    /\ Exact => /\ e[v] \in {"Owned", "OwnedScope", "Deleted", "untracked"}
                /\ e[v] = "untracked" => ptr[v] = Null

Agrees(e) == \A v \in Var : AgreesOn(v, e)

\* A run has stopped at a double free, or goes on, or cleans up to return.
Stopped == crashed /\ work = <<>>

Ahead(n) ==
    /\ ~crashed /\ claimed = {}
    /\ \E e \in Env : Right(work, e, Exact, n) /\ Agrees(e)

Leaves(n) ==
    /\ ~crashed /\ (work = <<>> \/ Leaving(work, n))
    /\ claimed \cap (freed \cup letGo \cup scoped \cup {Null}) = {}

\* Two locals never hold one object.
Apart == \A v, w \in Var : ptr[v] = ptr[w] /\ ptr[v] # Null => v = w

Followed ==
    /\ TypeOK /\ objects \in Nat /\ Apart
    /\ \E n \in Nat : DOMAIN site = 1 .. n /\ (Stopped \/ Ahead(n) \/ Leaves(n))

\* Nothing is said of second turns of loops; where the analysis is exact there
\* are none.
IInv ==
    /\ turns \in Nat
    /\ Exact /\ FollowsAll => turns = 0
    /\ turns = 0 /\ FollowsAll => Followed

LEMMA LeavingSteps ==
    ASSUME NEW n, NEW c, Leaving(c, n)
    PROVE  /\ c # <<>>
           /\ \/ Head(c).op = "ret"
              \/ Head(c).op = "free" /\ Head(c).site \in 1 .. n /\ Leaving(Tail(c), n)
<1>1. PICK S : c \in Seq(S)
  BY DEF Leaving, IsSeq
<1>2. PICK k \in 1 .. Len(c) :
         c[k].op = "ret" /\ \A j \in 1 .. k - 1 : c[j].op = "free" /\ c[j].site \in 1 .. n
  BY DEF Leaving
<1>3. c # <<>> /\ Head(c) = c[1]
  BY <1>1, <1>2
<1>4. CASE k = 1
  BY <1>2, <1>3, <1>4
<1>5. CASE k # 1
  <2> DEFINE d == Tail(c)
  <2>1. /\ d \in Seq(S) /\ k - 1 \in 1 .. Len(d) /\ Len(d) = Len(c) - 1
        /\ \A j \in 1 .. Len(d) : d[j] = c[j + 1]
    BY <1>1, <1>2, <1>5
  <2>2. d[k - 1].op = "ret"
    BY <1>1, <1>2, <2>1
  <2>3. \A j \in 1 .. (k - 1) - 1 : d[j].op = "free" /\ d[j].site \in 1 .. n
    <3> SUFFICES ASSUME NEW j \in 1 .. (k - 1) - 1
                 PROVE  d[j].op = "free" /\ d[j].site \in 1 .. n
      OBVIOUS
    <3>1. j + 1 \in 1 .. k - 1 /\ j \in 1 .. Len(d)
      BY <1>1, <1>2, <2>1
    <3>2. d[j] = c[j + 1]
      BY <2>1, <3>1
    <3> HIDE DEF d
    <3> QED BY <1>2, <3>1, <3>2
  <2>4. 1 \in 1 .. k - 1
    BY <1>1, <1>2, <1>5
  <2>5. c[1].op = "free" /\ c[1].site \in 1 .. n
    BY <1>2, <2>4
  <2> HIDE DEF d
  <2>6. IsSeq(d)
    BY <2>1, SeqIsSeq
  <2>7. Leaving(d, n)
    BY <2>1, <2>2, <2>3, <2>6 DEF Leaving
  <2> QED BY <1>3, <2>5, <2>7 DEF d
<1> QED BY <1>4, <1>5

\* The next instruction, if there is one.
LEMMA NextInstruction ==
    ASSUME Followed, work # <<>>
    PROVE  /\ ~crashed /\ TypeOK /\ objects \in Nat /\ Apart
           /\ \E n \in Nat :
                 /\ DOMAIN site = 1 .. n
                 /\ \/ /\ claimed = {}
                       /\ \E e \in Env : /\ Fine(work, e, Exact, n) /\ Agrees(e)
                                         /\ \A p \in Then(work, e) : RightPair(p, Exact, n)
                    \/ /\ claimed \cap (freed \cup letGo \cup scoped \cup {Null}) = {}
                       /\ \/ Instr.op = "ret"
                          \/ /\ Instr.op = "free" /\ Instr.site \in 1 .. n
                             /\ Leaving(Tail(work), n)
<1>1. PICK n \in Nat : DOMAIN site = 1 .. n /\ (Stopped \/ Ahead(n) \/ Leaves(n))
  BY DEF Followed
<1>2. ~crashed
  BY <1>1 DEF Stopped, Ahead, Leaves
<1>3. CASE Ahead(n)
  <2>1. PICK e \in Env : Right(work, e, Exact, n) /\ Agrees(e)
    BY <1>3 DEF Ahead
  <2>2. Fine(work, e, Exact, n) /\ \A p \in Then(work, e) : RightPair(p, Exact, n)
    BY <2>1, RightSteps
  <2> QED BY <1>1, <1>2, <1>3, <2>1, <2>2 DEF Followed, Ahead
<1>4. CASE Leaves(n)
  BY <1>1, <1>2, <1>4, LeavingSteps DEF Followed, Leaves, Instr
<1> QED BY <1>1, <1>2, <1>3, <1>4 DEF Stopped

\* Where the run is after a step to a pair of code and environment.
LEMMA AheadOn ==
    ASSUME NEW n, NEW e \in Env, Right(work', e, Exact, n), Agrees(e)', about' = about,
           ~crashed', claimed' = {}
    PROVE  Ahead(n)'
BY DEF Ahead, Exact

\* A step over an instruction without branches.
LEMMA StraightOn ==
    ASSUME Followed, Running(Straight), about' = about, work' = Tail(work)
    PROVE  /\ ~crashed /\ TypeOK /\ objects \in Nat /\ Apart /\ claimed = {} /\ Instr.var \in Var
           /\ \E n \in Nat, e \in Env, f \in Env :
                 /\ DOMAIN site = 1 .. n /\ Fine(work, e, Exact, n) /\ Agrees(e)
                 /\ f = Flow(e, Instr) /\ Right(work', f, Exact, n)
<1>1. work # <<>> /\ Instr = Head(work) /\ Instr.op \in Straight
  BY DEF Running, Instr
<1>2. Instr.op \notin {"ret", "free"}
  BY <1>1 DEF Straight
<1>3. PICK n \in Nat :
         /\ DOMAIN site = 1 .. n /\ claimed = {}
         /\ \E e \in Env : /\ Fine(work, e, Exact, n) /\ Agrees(e)
                           /\ \A p \in Then(work, e) : RightPair(p, Exact, n)
  BY <1>1, <1>2, NextInstruction
<1>4. PICK e \in Env : /\ Fine(work, e, Exact, n) /\ Agrees(e)
                       /\ \A p \in Then(work, e) : RightPair(p, Exact, n)
  BY <1>3
<1>5. Instr.var \in Var
  BY <1>1, <1>4 DEF Fine, Straight
<1>6. Flow(e, Instr) \in Env
  BY <1>1, <1>5, FlowKind
<1>7. Right(work', Flow(e, Instr), Exact, n)
  <2>1. Then(work, e) = {<<Tail(work), Flow(e, Instr)>>}
    BY <1>1 DEF Then, Straight
  <2> QED BY <1>4, <2>1 DEF Right
<1> QED BY <1>1, <1>3, <1>4, <1>5, <1>6, <1>7, NextInstruction

LEMMA AllocateFollowed ==
    ASSUME Followed, Allocate
    PROVE  Followed'
<1> DEFINE x == Instr
           o == objects + 1
<1>1. /\ x.op \in {"let", "assign"} /\ x.value # "null" /\ Running(Straight)
      /\ work' = Tail(work) /\ about' = about /\ objects' = o /\ ptr' = [ptr EXCEPT ![x.var] = o]
      /\ UNCHANGED <<freed, crashed, letGo, strayed, claimed, turns>>
      /\ \/ /\ x.value = "scope" /\ site' = [site EXCEPT ![x.site] = o]
            /\ scoped' = scoped \cup {o}
         \/ x.value # "scope" /\ UNCHANGED <<site, scoped>>
  BY DEF Allocate, Running, Instr, Step, Straight, history
<1>2. ~crashed /\ TypeOK /\ objects \in Nat /\ Apart /\ claimed = {} /\ x.var \in Var
  BY <1>1, StraightOn
<1>3. PICK n \in Nat, e \in Env, f \in Env :
         /\ DOMAIN site = 1 .. n /\ Fine(work, e, Exact, n) /\ Agrees(e)
         /\ f = Flow(e, x) /\ Right(work', f, Exact, n)
  BY <1>1, StraightOn
<1>4. /\ f = [e EXCEPT ![x.var] = AllocKind(x.value)]
      /\ x.value \in {"new", "scope"}
  <2>1. x.value \in Value
    BY <1>1, <1>3 DEF Fine, Instr
  <2> QED BY <1>1, <1>3, <2>1 DEF Flow, Value
<1>5. /\ o \in Nat /\ Object \subseteq Object' /\ o \in Object' /\ o \notin Object
      /\ Null \notin Object /\ o # Null
  BY <1>1, <1>2 DEF Object, Null
<1> HIDE DEF x, o
<1>6. TypeOK'
  BY <1>1, <1>2, <1>5 DEF TypeOK
<1>7. Apart'
  BY <1>1, <1>2, <1>5 DEF TypeOK, Apart
<1>8. Agrees(f)'
  <2> SUFFICES ASSUME NEW v \in Var PROVE AgreesOn(v, f)'
    BY DEF Agrees
  <2>1. CASE v = x.var
    <3>1. f[v] = AllocKind(x.value) /\ ptr'[v] = o
      BY <1>1, <1>2, <1>3, <1>4, <2>1 DEF TypeOK, Env
    <3>2. o \notin freed \cup letGo \cup scoped
      BY <1>2, <1>5 DEF TypeOK
    <3>3. /\ ptr'[v] \in Object' \ (freed' \cup letGo' \cup scoped)
          /\ x.value = "scope" => o \in scoped'
      BY <1>1, <1>5, <3>1, <3>2
    <3> QED BY <1>1, <1>4, <3>1, <3>3 DEF AllocKind, AgreesOn
  <2>2. CASE v # x.var
    <3>1. f[v] = e[v] /\ ptr'[v] = ptr[v]
      BY <1>1, <1>2, <1>3, <1>4, <2>2 DEF TypeOK, Env
    <3>2. ptr[v] \in Object => ptr[v] # o
      BY <1>5
    <3>3. /\ ptr'[v] \in Object => ptr'[v] \in Object'
          /\ freed' = freed /\ letGo' = letGo /\ scoped' \in {scoped, scoped \cup {o}}
          /\ Exact' = Exact
      BY <1>1, <1>5, <3>1 DEF Exact
    <3> QED BY <1>3, <3>1, <3>2, <3>3 DEF Agrees, AgreesOn
  <2> QED BY <2>1, <2>2
<1>9. Ahead(n)'
  BY <1>1, <1>2, <1>3, <1>8, AheadOn
<1>10. DOMAIN site' = 1 .. n /\ objects' \in Nat
  BY <1>1, <1>3, <1>5
<1> QED BY <1>6, <1>7, <1>9, <1>10 DEF Followed

LEMMA ClearFollowed ==
    ASSUME Followed, Clear
    PROVE  Followed'
<1> DEFINE x == Instr
<1>1. /\ x.op \in {"let", "assign"} /\ x.value = "null" /\ Running(Straight)
      /\ work' = Tail(work) /\ about' = about /\ ptr' = [ptr EXCEPT ![x.var] = Null]
      /\ UNCHANGED <<site, objects, freed, crashed, scoped, letGo, strayed, claimed, turns>>
  BY DEF Clear, Running, Instr, Step, Straight, history
<1>2. ~crashed /\ TypeOK /\ objects \in Nat /\ Apart /\ claimed = {} /\ x.var \in Var
  BY <1>1, StraightOn
<1>3. PICK n \in Nat, e \in Env, f \in Env :
         /\ DOMAIN site = 1 .. n /\ Fine(work, e, Exact, n) /\ Agrees(e)
         /\ f = Flow(e, x) /\ Right(work', f, Exact, n)
  BY <1>1, StraightOn
<1>4. f = [e EXCEPT ![x.var] = "untracked"]
  BY <1>1, <1>3 DEF Flow, AllocKind
<1>5. Object' = Object /\ Exact' = Exact
  BY <1>1 DEF Object, Exact
<1> HIDE DEF x
<1>6. TypeOK'
  BY <1>1, <1>2, <1>5 DEF TypeOK
<1>7. Apart'
  BY <1>1, <1>2, <1>5 DEF TypeOK, Apart
<1>8. Agrees(f)'
  <2> SUFFICES ASSUME NEW v \in Var PROVE AgreesOn(v, f)'
    BY DEF Agrees
  <2>1. CASE v = x.var
    <3>1. f[v] = "untracked" /\ ptr'[v] = Null
      BY <1>1, <1>2, <1>3, <1>4, <2>1 DEF TypeOK, Env
    <3> QED BY <3>1 DEF AgreesOn
  <2>2. CASE v # x.var
    <3>1. f[v] = e[v] /\ ptr'[v] = ptr[v]
      BY <1>1, <1>2, <1>3, <1>4, <2>2 DEF TypeOK, Env
    <3> QED BY <1>1, <1>3, <1>5, <3>1 DEF Agrees, AgreesOn
  <2> QED BY <2>1, <2>2
<1>9. Ahead(n)'
  BY <1>1, <1>2, <1>3, <1>8, AheadOn
<1> QED BY <1>1, <1>2, <1>3, <1>6, <1>7, <1>9 DEF Followed

\* Deleting a local that owns its object frees that object alone; what another
\* local holds is another object.
LEMMA DeleteLocalFollowed ==
    ASSUME Followed, DeleteLocal
    PROVE  Followed'
<1> DEFINE x == Instr
           obj == ptr[x.var]
<1>1. /\ x.op = "delete" /\ Running(Straight) /\ about' = about
      /\ freed' = freed \cup ({obj} \ {Null}) /\ crashed' = (obj \in freed)
      /\ work' = IF obj \in freed THEN <<>> ELSE Tail(work)
      /\ UNCHANGED <<ptr, objects, scoped, letGo, claimed, turns>>
  BY DEF DeleteLocal, Release, Running, Instr, Straight
<1>2. /\ DOMAIN site' = DOMAIN site /\ \A i \in DOMAIN site : site'[i] \in {site[i], Null}
      /\ \E B : strayed' \subseteq strayed \cup (B \cap scoped)
  <2> DEFINE bound == {site[a.site] : a \in x.bound}
  <2>1. strayed' \subseteq strayed \cup ((bound \cup {obj}) \cap scoped)
    BY DEF DeleteLocal, Instr
  <2>2. DOMAIN site' = DOMAIN site /\ \A i \in DOMAIN site : site'[i] \in {site[i], Null}
    BY DEF DeleteLocal
  <2> HIDE DEF bound, obj
  <2> QED BY <2>1, <2>2
<1>3. ~crashed /\ TypeOK /\ objects \in Nat /\ Apart /\ claimed = {} /\ x.var \in Var
  <2>1. work # <<>> /\ Instr.op \notin {"ret", "free"}
    BY <1>1 DEF Running
  <2>2. PICK n \in Nat :
           /\ claimed = {}
           /\ \E e \in Env : Fine(work, e, Exact, n)
    BY <2>1, NextInstruction
  <2>3. x.var \in Var
    BY <1>1, <2>2 DEF Fine, Instr
  <2> QED BY <2>1, <2>2, <2>3, NextInstruction
<1>4. Object' = Object /\ Exact' = Exact /\ obj \in Object \cup {Null}
  BY <1>1, <1>3 DEF Object, Exact, TypeOK
<1>5. PICK n \in Nat : DOMAIN site = 1 .. n
  BY DEF Followed
<1>6. TypeOK' /\ Apart' /\ objects' \in Nat
  <2> HIDE DEF x, obj
  <2> QED BY <1>1, <1>2, <1>3, <1>4 DEF TypeOK, Apart
<1>7. CASE obj \in freed
  <2>1. Stopped'
    BY <1>1, <1>7 DEF Stopped
  <2> HIDE DEF x, obj
  <2> QED BY <1>2, <1>5, <1>6, <2>1 DEF Followed
<1>8. CASE obj \notin freed
  <2>0. work' = Tail(work)
    BY <1>1, <1>8
  <2>1. PICK m \in Nat, e \in Env, f \in Env :
           /\ DOMAIN site = 1 .. m /\ Fine(work, e, Exact, m) /\ Agrees(e)
           /\ f = Flow(e, x) /\ Right(work', f, Exact, m)
    BY <1>1, <2>0, StraightOn
  <2>2. f = Delete(e, x.var)
    BY <1>1, <2>1 DEF Flow
  <2>3. (obj # Null /\ f[x.var] = "Deleted") \/ f = e
    <3>1. e[x.var] \in Owning => obj # Null
      BY <1>3, <2>1 DEF Agrees, AgreesOn, TypeOK, Owning, Object, Null
    <3> HIDE DEF x, obj
    <3> QED BY <1>3, <2>1, <2>2, <3>1 DEF Delete, Owning, Env
  <2>4. \A v \in Var : v # x.var => f[v] = e[v] /\ (obj # Null => ptr[v] # obj)
    <3>1. \A v \in Var : v # x.var => f[v] = e[v]
      BY <2>1, <2>2 DEF Delete, Env
    <3>2. \A v \in Var : v # x.var => (obj # Null => ptr[v] # obj)
      BY <1>3 DEF Apart
    <3> QED BY <3>1, <3>2
  <2>5. f = e => e[x.var] \notin Owning
    BY <2>1, <2>2 DEF Delete, Owning, Env
  <2>6. Agrees(f)'
    <3> SUFFICES ASSUME NEW v \in Var PROVE AgreesOn(v, f)'
      BY DEF Agrees
    <3>1. AgreesOn(v, e)
      BY <2>1 DEF Agrees
    <3> HIDE DEF x
    <3>2. CASE v = x.var
      <4>1. ptr'[v] = obj
        BY <1>1, <3>2
      <4>2. CASE obj # Null /\ f[x.var] = "Deleted"
        <5>1. ptr'[v] \in freed' /\ f[v] = "Deleted"
          BY <1>1, <3>2, <4>1, <4>2
        <5> QED BY <5>1 DEF AgreesOn
      <4>3. CASE f = e
        <5>1. f[v] \notin {"Owned", "OwnedScope"} /\ freed \subseteq freed' /\ ptr' = ptr
          BY <1>1, <2>5, <3>2, <4>3 DEF Owning
        <5> QED BY <1>4, <3>1, <4>3, <5>1 DEF AgreesOn
      <4> QED BY <2>3, <4>2, <4>3
    <3>3. CASE v # x.var
      <4> DEFINE held == ptr[v]
      <4>1. /\ f[v] = e[v] /\ ptr' = ptr /\ freed \subseteq freed' /\ letGo' = letGo
            /\ scoped' = scoped /\ Object' = Object
        BY <1>1, <1>4, <2>4, <3>3
      <4>2. held \in Object /\ held \in freed' => held \in freed
        BY <1>1, <2>4, <3>3
      <4> QED BY <1>4, <3>1, <4>1, <4>2 DEF AgreesOn
    <3> QED BY <3>2, <3>3
  <2>7. ~crashed' /\ claimed' = {}
    BY <1>1, <1>3, <1>8
  <2>8. Ahead(m)'
    BY <1>1, <2>1, <2>6, <2>7, AheadOn
  <2> HIDE DEF x, obj
  <2> QED BY <1>2, <1>6, <2>1, <2>8 DEF Followed
<1> QED BY <1>7, <1>8

\* A call or a store leaves the heap alone; what is stored is let go.
LEMMA PassFollowed ==
    ASSUME Followed, Pass \/ LetGo
    PROVE  Followed'
<1> DEFINE x == Instr
<1>1. /\ x.op \in {"pass", "store", "alias"} /\ Running(Straight)
      /\ work' = Tail(work) /\ about' = about
      /\ UNCHANGED <<ptr, site, objects, freed, crashed, scoped, strayed, claimed, turns>>
      /\ \/ x.op = "pass" /\ letGo' = letGo
         \/ x.op \in {"store", "alias"} /\ letGo' = letGo \cup ({ptr[x.var]} \ {Null})
  BY DEF Pass, LetGo, Running, Instr, Step, Straight, history, heap
<1>2. ~crashed /\ TypeOK /\ objects \in Nat /\ Apart /\ claimed = {} /\ x.var \in Var
  BY <1>1, StraightOn
<1>3. PICK n \in Nat, e \in Env, f \in Env :
         /\ DOMAIN site = 1 .. n /\ Fine(work, e, Exact, n) /\ Agrees(e)
         /\ f = Flow(e, x) /\ Right(work', f, Exact, n)
  BY <1>1, StraightOn
<1>4. /\ Object' = Object /\ Exact' = Exact /\ ~Exact
      /\ ptr[x.var] \in Object \cup {Null}
  BY <1>1, <1>2, <1>3 DEF Object, Exact, TypeOK, Fine, Instr
<1>5. \/ x.op = "pass" /\ f = FlowArg(e, x.var)
      \/ x.op \in {"store", "alias"} /\ f \in {SetDropped(e, x.var), SetMoved(e, x.var)}
  BY <1>1, <1>3 DEF Flow
<1> HIDE DEF x
<1>6. TypeOK' /\ Apart'
  BY <1>1, <1>2, <1>4 DEF TypeOK, Apart
<1>7. /\ \A v \in Var : f[v] \in {"Owned", "OwnedScope", "Deleted"} => f[v] = e[v]
      /\ x.op # "pass" => f[x.var] # "Owned"
  BY <1>2, <1>3, <1>5 DEF FlowArg, SetDropped, SetMoved, Owning, Env
<1>8. Agrees(f)'
  <2> SUFFICES ASSUME NEW v \in Var PROVE AgreesOn(v, f)'
    BY DEF Agrees
  <2>1. AgreesOn(v, e) /\ (f[v] \in {"Owned", "OwnedScope", "Deleted"} => f[v] = e[v])
    BY <1>3, <1>7 DEF Agrees
  <2>2. f[v] = "Owned" => ptr[v] \notin letGo'
    <3> SUFFICES ASSUME f[v] = "Owned" PROVE ptr[v] \notin letGo'
      OBVIOUS
    <3>1. ptr[v] \in Object \ letGo /\ ptr[v] # Null
      BY <1>2, <2>1 DEF AgreesOn, Object, Null
    <3>2. CASE x.op = "pass"
      BY <1>1, <3>1, <3>2
    <3>3. CASE x.op # "pass"
      <4>1. v # x.var
        BY <1>7, <3>3
      <4>2. ptr[v] # ptr[x.var]
        BY <1>2, <3>1, <4>1 DEF Apart
      <4> QED BY <1>1, <3>1, <4>2
    <3> QED BY <3>2, <3>3
  <2> QED BY <1>1, <1>4, <2>1, <2>2 DEF AgreesOn
<1>9. Ahead(n)'
  BY <1>1, <1>2, <1>3, <1>8, AheadOn
<1> QED BY <1>1, <1>2, <1>3, <1>6, <1>9 DEF Followed

\* The cleanup frees what a site of the method allocated, which is no local's own.
LEMMA FreeScopedFollowed ==
    ASSUME Followed, FreeScoped
    PROVE  Followed'
<1> DEFINE obj == site[Instr.site]
<1>1. /\ work # <<>> /\ Instr = Head(work) /\ Instr.op = "free" /\ about' = about
      /\ UNCHANGED <<ptr, site, objects, scoped, letGo, strayed, claimed, turns>>
      /\ \/ work' = Tail(work) /\ UNCHANGED <<freed, crashed>>
         \/ /\ freed' = freed \cup ({obj} \ {Null}) /\ crashed' = (obj \in freed)
            /\ work' = IF obj \in freed THEN <<>> ELSE Tail(work)
  BY DEF FreeScoped, Release, Running, Instr, Step, history
<1>2. ~crashed /\ TypeOK /\ objects \in Nat /\ Apart
  BY <1>1, NextInstruction
<1>3. PICK n \in Nat :
         /\ DOMAIN site = 1 .. n
         /\ \/ /\ claimed = {}
               /\ \E e \in Env : /\ Fine(work, e, Exact, n) /\ Agrees(e)
                                 /\ \A p \in Then(work, e) : RightPair(p, Exact, n)
            \/ /\ claimed \cap (freed \cup letGo \cup scoped \cup {Null}) = {}
               /\ Instr.site \in 1 .. n /\ Leaving(Tail(work), n)
  BY <1>1, NextInstruction
<1>4. Object' = Object /\ Exact' = Exact
  BY <1>1 DEF Object, Exact
<1>5. Instr.site \in 1 .. n
  BY <1>1, <1>3 DEF Fine
<1>6. obj \in scoped \cup {Null} /\ scoped \subseteq Object
  BY <1>2, <1>3, <1>5 DEF TypeOK
<1>7. freed \subseteq freed' /\ freed' \subseteq freed \cup scoped
  BY <1>1, <1>6
<1> HIDE DEF obj
<1>8. TypeOK' /\ Apart'
  <2>1. freed' \subseteq Object
    BY <1>2, <1>6, <1>7 DEF TypeOK
  <2>2. crashed' = crashed \/ crashed' = (obj \in freed)
    BY <1>1
  <2>3. crashed' \in BOOLEAN
    <3>1. crashed \in BOOLEAN /\ (obj \in freed) \in BOOLEAN
      BY <1>2 DEF TypeOK
    <3> QED BY <2>2, <3>1, Zenon
  <2> QED BY <1>1, <1>2, <1>4, <2>1, <2>3 DEF TypeOK, Apart
<1>9. Stopped' \/ (~crashed' /\ work' = Tail(work))
  BY <1>1, <1>2 DEF Stopped
<1>10. ASSUME ~crashed', work' = Tail(work) PROVE Ahead(n)' \/ Leaves(n)'
  <2>1. CASE claimed = {} /\ \E e \in Env : /\ Fine(work, e, Exact, n) /\ Agrees(e)
                                            /\ \A p \in Then(work, e) : RightPair(p, Exact, n)
    <3>1. PICK e \in Env : Agrees(e) /\ \A p \in Then(work, e) : RightPair(p, Exact, n)
      BY <2>1
    <3>2. Then(work, e) = {<<Tail(work), e>>}
      BY <1>1 DEF Then, Straight
    <3>3. Right(work', e, Exact, n)
      BY <1>10, <3>1, <3>2 DEF Right
    <3>4. Agrees(e)'
      <4> SUFFICES ASSUME NEW v \in Var PROVE AgreesOn(v, e)'
        BY DEF Agrees
      <4>1. AgreesOn(v, e)
        BY <3>1 DEF Agrees
      <4> QED BY <1>1, <1>4, <1>7, <4>1 DEF AgreesOn
    <3> QED BY <1>1, <1>10, <2>1, <3>3, <3>4, AheadOn
  <2>2. CASE claimed \cap (freed \cup letGo \cup scoped \cup {Null}) = {} /\ Leaving(Tail(work), n)
    <3>1. (claimed \cap (freed \cup letGo \cup scoped \cup {Null}))' = {}
      BY <1>1, <1>7, <2>2 DEF Null
    <3> QED BY <1>10, <2>2, <3>1 DEF Leaves
  <2> QED BY <1>3, <2>1, <2>2
<1> QED BY <1>1, <1>2, <1>3, <1>8, <1>9, <1>10 DEF Followed

\* A step to code that is among what comes next.
LEMMA TurnFollowed ==
    ASSUME Followed, work # <<>>, Instr.op \in {"if", "switch", "while", "do", "loop", "exit"},
           \A e : <<work', e>> \in Then(work, e),
           UNCHANGED <<about, heap, letGo, strayed, claimed, turns>>
    PROVE  Followed'
<1>1. /\ ~crashed /\ TypeOK /\ objects \in Nat /\ Apart
      /\ \E n \in Nat :
            /\ DOMAIN site = 1 .. n /\ claimed = {}
            /\ \E e \in Env : /\ Fine(work, e, Exact, n) /\ Agrees(e)
                              /\ \A p \in Then(work, e) : RightPair(p, Exact, n)
  <2>1. Instr.op \notin {"ret", "free"}
    OBVIOUS
  <2> QED BY <2>1, NextInstruction
<1>2. PICK n \in Nat, e \in Env :
         /\ DOMAIN site = 1 .. n /\ claimed = {} /\ Agrees(e)
         /\ \A p \in Then(work, e) : RightPair(p, Exact, n)
  BY <1>1
<1>3. Right(work', e, Exact, n)
  BY <1>2 DEF Right
<1>4. Agrees(e)' /\ TypeOK' /\ Apart' /\ ~crashed' /\ claimed' = {}
  BY <1>1, <1>2 DEF heap, Agrees, AgreesOn, TypeOK, Apart, Object, Exact
<1>5. Ahead(n)'
  BY <1>3, <1>4, AheadOn
<1> QED BY <1>1, <1>2, <1>4, <1>5 DEF Followed, heap

LEMMA BranchFollowed ==
    ASSUME Followed, If \/ Switch \/ EnterLoop \/ GoOn
    PROVE  Followed'
<1> DEFINE rest == Tail(work)
           exit == <<[op |-> "exit"]>>
           loop == <<[op |-> "loop", turn |-> Instr.turn]>>
<1>1. CASE If
  <2>1. /\ work # <<>> /\ Instr.op = "if" /\ work' \in {Instr.then \o rest, Instr.else \o rest}
        /\ UNCHANGED <<about, heap, letGo, strayed, claimed, turns>>
    BY <1>1 DEF If, Running, Instr, Goto
  <2>2. \A e : <<work', e>> \in Then(work, e)
    BY <2>1 DEF Then, Straight, Instr
  <2> QED BY <2>1, <2>2, TurnFollowed
<1>2. CASE Switch
  <2> DEFINE Arms(e) == {<<arm \o exit \o rest, e>> : arm \in ToSet(Instr.arms)}
  <2>1. /\ work # <<>> /\ Instr.op = "switch"
        /\ UNCHANGED <<about, heap, letGo, strayed, claimed, turns>>
        /\ \/ \E arm \in ToSet(Instr.arms) : work' = arm \o exit \o rest
           \/ work' = rest
    BY <1>2 DEF Switch, Running, Instr, Goto
  <2>2. \A e : <<work', e>> = <<rest, e>> \/ <<work', e>> \in Arms(e)
    BY <2>1
  <2>3. \A e : Then(work, e) = {<<rest, e>>} \cup Arms(e)
    BY <2>1 DEF Then, Straight, Instr
  <2> HIDE DEF Arms, rest
  <2>4. \A e : <<work', e>> \in Then(work, e)
    BY <2>2, <2>3
  <2> QED BY <2>1, <2>4, TurnFollowed
<1>3. CASE EnterLoop
  <2>1. /\ work # <<>> /\ Instr.op \in {"while", "do"}
        /\ UNCHANGED <<about, heap, letGo, strayed, claimed, turns>>
        /\ work' \in {Instr.turn \o loop \o rest, rest}
    BY <1>3 DEF EnterLoop, Running, Instr, Goto
  <2>2. \A e : <<work', e>> \in Then(work, e)
    BY <2>1 DEF Then, Straight, Instr
  <2> QED BY <2>1, <2>2, TurnFollowed
<1>4. CASE GoOn
  <2>1. /\ work # <<>> /\ Instr.op \in {"loop", "exit"} /\ work' = rest
        /\ UNCHANGED <<about, heap, letGo, strayed, claimed, turns>>
    BY <1>4 DEF GoOn, Running, Instr, Goto
  <2>2. \A e : <<work', e>> \in Then(work, e)
    BY <2>1 DEF Then, Straight, Instr
  <2> QED BY <2>1, <2>2, TurnFollowed
<1> QED BY <1>1, <1>2, <1>3, <1>4

\* At an exit the locals reported as leaks hold objects that nobody else has, and
\* the value returned is not among them.
LEMMA ExitFollowed ==
    ASSUME Followed, Return \/ End
    PROVE  Followed'
<1> DEFINE x == Instr
           out == IF x.op = "return" THEN {ptr[v] : v \in {x.var} \cap Var} \ {Null} ELSE {}
<1>1. /\ work # <<>> /\ x = Head(work) /\ x.op \in {"return", "end"}
      /\ work' = Tail(work) /\ about' = about
      /\ claimed' = {ptr[v] : v \in x.leaks} /\ letGo' = letGo \cup out
      /\ UNCHANGED <<ptr, site, objects, freed, crashed, scoped, strayed, turns>>
  BY DEF Return, End, Running, Instr, Step, heap
<1>2. ~crashed /\ TypeOK /\ objects \in Nat /\ Apart
  BY <1>1, NextInstruction
<1>3. PICK n \in Nat, e \in Env :
         DOMAIN site = 1 .. n /\ Fine(work, e, Exact, n) /\ Agrees(e)
  <2>1. x.op \notin {"ret", "free"}
    BY <1>1
  <2> QED BY <1>1, <2>1, NextInstruction
<1>4. /\ x.leaks \subseteq ExitScan(e) /\ (work' = <<>> \/ Leaving(work', n))
      /\ x.op = "return" => x.var \notin x.leaks
  BY <1>1, <1>3 DEF Fine
<1>5. Object' = Object /\ out \subseteq Object /\ Null \notin Object
  BY <1>1, <1>2 DEF TypeOK, Object, Null
<1> HIDE DEF x
<1>6. TypeOK' /\ Apart'
  <2> HIDE DEF out
  <2> QED BY <1>1, <1>2, <1>5 DEF TypeOK, Apart
<1>7. ASSUME NEW v \in x.leaks
      PROVE  ptr[v] \in Object \ (freed \cup letGo' \cup scoped)
  <2>1. v \in Var /\ e[v] = "Owned"
    BY <1>4 DEF ExitScan
  <2>2. ptr[v] \in Object \ (freed \cup letGo \cup scoped)
    BY <1>3, <2>1 DEF Agrees, AgreesOn
  <2>3. ptr[v] \notin out
    <3> SUFFICES ASSUME x.op = "return", x.var \in Var, ptr[v] = ptr[x.var] PROVE FALSE
      OBVIOUS
    <3>1. v # x.var
      BY <1>4
    <3> QED BY <1>2, <1>5, <2>1, <2>2, <3>1 DEF Apart
  <2> QED BY <1>1, <2>2, <2>3
<1> HIDE DEF out
<1>8. Leaves(n)'
  <2>1. claimed' \cap (freed \cup letGo' \cup scoped \cup {Null}) = {}
    BY <1>1, <1>5, <1>7
  <2> QED BY <1>1, <1>2, <1>4, <2>1 DEF Leaves, Null
<1> QED BY <1>1, <1>2, <1>3, <1>6, <1>8 DEF Followed

LEMMA RetFollowed ==
    ASSUME Followed, Ret
    PROVE  Followed'
<1>1. /\ work # <<>> /\ Instr = Head(work) /\ Instr.op = "ret" /\ work' = <<>>
      /\ UNCHANGED <<about, ptr, site, objects, freed, crashed, scoped, letGo, strayed, claimed,
                     turns>>
  BY DEF Ret, Running, Instr, Goto, heap
<1>2. ~crashed /\ TypeOK /\ objects \in Nat /\ Apart
  BY <1>1, NextInstruction
<1>3. \A n, e : Fine(work, e, Exact, n) => Instr.op # "ret"
  BY <1>1 DEF Fine
<1>4. PICK n \in Nat :
         DOMAIN site = 1 .. n /\ claimed \cap (freed \cup letGo \cup scoped \cup {Null}) = {}
  BY <1>1, <1>3, NextInstruction
<1>5. TypeOK' /\ Apart' /\ Leaves(n)'
  BY <1>1, <1>2, <1>4 DEF TypeOK, Apart, Leaves, Object, Null
<1> QED BY <1>1, <1>2, <1>4, <1>5 DEF Followed

\* The other instructions do not occur in code the analysis follows, nor do loops
\* where it is exact.
LEMMA NeverFollowed ==
    ASSUME Followed, work # <<>>
    PROVE  /\ Instr.op \notin {"declare", "run", "break", "continue"}
           /\ Exact => Instr.op # "loop"
<1>1. \A n, e : Fine(work, e, Exact, n) =>
          /\ Instr.op \notin {"declare", "run", "break", "continue"}
          /\ Exact => Instr.op # "loop"
  BY DEF Fine, Instr
<1> QED BY <1>1, NextInstruction

LEMMA StepFollowed ==
    ASSUME Followed, [Next]_vars, turns' = turns
    PROVE  Followed'
<1>1. CASE UNCHANGED vars
  BY <1>1 DEF vars, heap, history, Followed, TypeOK, Apart, Stopped, Ahead, Leaves, Agrees, AgreesOn,
              Exact, Object, Null
<1>2. CASE Allocate
  BY <1>2, AllocateFollowed
<1>3. CASE Clear
  BY <1>3, ClearFollowed
<1>4. CASE DeleteLocal
  BY <1>4, DeleteLocalFollowed
<1>5. CASE Pass \/ LetGo
  BY <1>5, PassFollowed
<1>6. CASE FreeScoped
  BY <1>6, FreeScopedFollowed
<1>7. CASE If \/ Switch \/ EnterLoop \/ GoOn
  BY <1>7, BranchFollowed
<1>8. CASE Return \/ End
  BY <1>8, ExitFollowed
<1>9. CASE Ret
  BY <1>9, RetFollowed
<1>10. CASE Again
  <2>1. turns' = turns + 1 /\ turns \in Nat
    BY <1>10 DEF Again, Followed, TypeOK
  <2> QED BY <2>1
<1>11. CASE Declare \/ RunDeferred \/ \E mark \in DOMAIN work : Continue(mark) \/ Break(mark)
  BY <1>11, NeverFollowed DEF Declare, RunDeferred, Continue, Break, Running, Instr
<1> QED BY <1>1, <1>2, <1>3, <1>4, <1>5, <1>6, <1>7, <1>8, <1>9, <1>10, <1>11 DEF Next

LEMMA LowerInitGood == LowerInit \in Good
<1> DEFINE f == Frame(0, 0)
<1>1. f = [entry |-> 0, allocs |-> <<>>, defers |-> <<>>, nesting |-> 0]
  BY DEF Frame
<1>2. f \in FrameOf(0)
  <2> DEFINE A == Seq(AllocOf(0))
  <2>1. <<>> \in A /\ FrameOf(0) = [entry : Nat, allocs : A, defers : {<<>>}, nesting : Nat]
    BY DEF FrameOf
  <2> HIDE DEF A, f
  <2> QED BY <1>1, <2>1
<1> HIDE DEF f
<1>3. <<f>> \in Seq(FrameOf(0)) /\ <<f>> # <<>>
  BY <1>2
<1>4. <<f>> \in Seq(Frames)
  BY <1>3, FramesKind
<1>5. LowerInit = [frames |-> <<f>>, loops |-> <<>>, block |-> 0, blocks |-> 0,
                   sites |-> 0, defers |-> 0, ended |-> FALSE, nesting |-> 0, gaps |-> {}]
  BY DEF LowerInit, f
<1>6. <<>> \in Seq([depth : Nat, repeats : BOOLEAN]) /\ {} \in SUBSET Gaps
  OBVIOUS
<1>7. LowerInit \in Lowering
  BY <1>4, <1>5, <1>6 DEF Lowering
<1> QED BY <1>3, <1>5, <1>7 DEF Good

\* The code of a whole method is right about the environment that knows nothing.
LEMMA MethodRight ==
    ASSUME NEW body \in Stmt, NEW exact \in BOOLEAN,
           Kinds(body) \cap {"break", "continue", "defer"} = {},
           exact => Kinds(body) \subseteq ExactKinds
    PROVE  LET checked == CheckDeleteFlow(body)
               lowered == Lower(checked.body, LowerInit)
               end     == [op |-> "end", leaks |-> checked.leaks]
           IN  /\ lowered.low.sites \in Nat
               /\ Right(Append(lowered.code, end), NoEnv, exact, lowered.low.sites)
<1> DEFINE b == walkAt[MaxDepth][body][NoEnv]
           l == lowerAt[2 * MaxDepth][b.code][LowerInit]
           leaks == IF b.falls THEN ExitScan(b.env) ELSE {}
           end == [op |-> "end", leaks |-> leaks]
           n == l.low.sites
<1>1. /\ CheckDeleteFlow(body).body = b.code /\ CheckDeleteFlow(body).leaks = leaks
      /\ Lower(b.code, LowerInit) = l
  <2>1. CheckDeleteFlow(body) = [body |-> b.code, leaks |-> leaks]
    BY DEF CheckDeleteFlow, Walk
  <2>2. Lower(b.code, LowerInit) = l
    BY DEF Lower
  <2> HIDE DEF b, l, leaks
  <2> QED BY <2>1, <2>2
<1>2. NoEnv \in Env /\ LowerInit \in Good /\ ~LowerInit.ended
  BY LowerInitGood DEF NoEnv, Env, State, LowerInit
<1>3. MaxDepth \in Depth /\ 2 * MaxDepth \in 0 .. 2 * MaxDepth /\ MaxDepth <= 2 * MaxDepth
  BY LocalAssumption DEF Depth
<1>4. body \in StmtOf[MaxDepth]
  BY DEF Stmt
<1>5. Translated(b, l, NoEnv, LowerInit, exact)
  <2> DEFINE K == Kinds(body)
             P == {s \in StmtOf[MaxDepth] : kindsAt[MaxDepth][s] \subseteq K}
  <2>1. body \in P
    BY <1>4 DEF Kinds
  <2>2. K \cap {"break", "continue", "defer"} = {} /\ (exact => K \subseteq ExactKinds)
    OBVIOUS
  <2> HIDE DEF K
  <2>3. Translates(walkAt[MaxDepth], lowerAt[2 * MaxDepth], P, exact)
    BY <1>3, <2>2, StmtTranslated
  <2> HIDE DEF P
  <2> QED BY <1>2, <2>1, <2>3 DEF Translates
<1>6. b.env \in Env
  <2>1. b \in Walks(StmtOf[MaxDepth])
    BY <1>2, <1>3, <1>4, WalkLayers DEF WalkersOf
  <2> HIDE DEF b
  <2> QED BY <2>1 DEF Walks
<1> HIDE DEF b, l
<1>7. n \in Nat /\ IsSeq(l.code)
  BY <1>5 DEF Translated, Onto, Good, Lowering
<1>8. b.falls => Right(<<end>>, b.env, exact, n)
  <2> SUFFICES ASSUME b.falls PROVE Right(<<end>>, b.env, exact, n)
    OBVIOUS
  <2>1. end.op = "end" /\ end.leaks = ExitScan(b.env)
    OBVIOUS
  <2> HIDE DEF end, n
  <2>2. IsSeq(<<>>) /\ <<end>> = <<end>> \o <<>> /\ Head(<<end>>) = end
    <3>1. <<>> \in Seq({})
      OBVIOUS
    <3>2. <<end>> = <<end>> \o <<>> /\ Head(<<end>>) = end
      OBVIOUS
    <3> QED BY <3>1, <3>2, SeqIsSeq
  <2>3. Fine(<<end>> \o <<>>, b.env, exact, n)
    BY <1>6, <2>1, <2>2, FineFirst
  <2>4. Then(<<end>>, b.env) = {}
    BY <2>1, <2>2 DEF Then, Straight
  <2> QED BY <2>2, <2>3, <2>4, RightIntro
<1>9. IsSeq(<<end>>) /\ Append(l.code, end) = l.code \o <<end>>
  <2>1. PICK S : l.code \in Seq(S)
    BY <1>7 DEF IsSeq
  <2> HIDE DEF end
  <2> QED BY <2>1, OneIsSeq
<1>10. Right(l.code \o <<end>>, NoEnv, exact, n)
  <2> DEFINE rest == <<end>>
  <2>1. l.low.sites <= n /\ IsSeq(rest) /\ (b.falls => Right(rest, b.env, exact, n))
    BY <1>7, <1>8, <1>9
  <2> HIDE DEF rest
  <2>2. Right(l.code \o rest, NoEnv, exact, n)
    BY <1>5, <1>7, <2>1 DEF Translated
  <2> QED BY <2>2 DEF rest
<1> HIDE DEF end
<1>11. Right(Append(l.code, end), NoEnv, exact, n)
  BY <1>9, <1>10
<1> QED BY <1>1, <1>7, <1>11 DEF end

LEMMA InitFollowed ==
    ASSUME Init, FollowsAll
    PROVE  Followed
<1>0. PICK d \in Dialects : \E body \in Written(d) :
         LET checked == CheckDeleteFlow(body)
             lowered == Lower(checked.body, LowerInit)
         IN  /\ work = Append(lowered.code, [op |-> "end", leaks |-> checked.leaks])
             /\ site = [i \in 1 .. lowered.low.sites |-> Null]
             /\ about = [gaps |-> lowered.low.gaps, kinds |-> Kinds(body)]
  BY DEF Init
<1>1. PICK body \in Written(d) :
         LET checked == CheckDeleteFlow(body)
             lowered == Lower(checked.body, LowerInit)
         IN  /\ work = Append(lowered.code, [op |-> "end", leaks |-> checked.leaks])
             /\ site = [i \in 1 .. lowered.low.sites |-> Null]
             /\ about = [gaps |-> lowered.low.gaps, kinds |-> Kinds(body)]
  BY <1>0
<1>2. body \in Stmt
  BY MethodRunAssumption
<1> DEFINE exact == Kinds(body) \subseteq ExactKinds
           checked == CheckDeleteFlow(body)
           lowered == Lower(checked.body, LowerInit)
           n == lowered.low.sites
<1>3. about.kinds = Kinds(body)
  <2> HIDE DEF lowered
  <2> QED BY <1>1 DEF lowered
<1>4. Kinds(body) \cap {"break", "continue", "defer"} = {} /\ Exact = exact
  BY <1>3 DEF FollowsAll, Exact
<1>5. n \in Nat /\ Right(work, NoEnv, exact, n)
  BY <1>1, <1>2, <1>4, MethodRight
<1>6. DOMAIN site = 1 .. n /\ \A i \in DOMAIN site : site[i] = Null
  BY <1>1
<1> HIDE DEF exact, n
<1>7. /\ ptr = [v \in Var |-> Null] /\ objects = 0 /\ turns = 0
      /\ freed = {} /\ scoped = {} /\ letGo = {} /\ strayed = {} /\ claimed = {}
      /\ crashed = FALSE
  BY DEF Init
<1>8. NoEnv \in Env /\ Agrees(NoEnv)
  <2>1. \A v \in Var : NoEnv[v] = "untracked" /\ ptr[v] = Null
    BY <1>7 DEF NoEnv
  <2>2. \A v \in Var : AgreesOn(v, NoEnv)
    BY <2>1 DEF AgreesOn
  <2> QED BY <2>2 DEF Agrees, NoEnv, Env, State
<1>9. TypeOK /\ Apart /\ objects \in Nat
  <2>1. crashed \in BOOLEAN /\ turns \in 0 .. MaxTurns
    <3>1. 0 \in 0 .. MaxTurns
      BY MethodRunAssumption
    <3>2. crashed \in BOOLEAN
      BY <1>7
    <3> QED BY <1>7, <3>1, <3>2
  <2>2. ptr \in [Var -> Object \cup {Null}] /\ Apart
    BY <1>7 DEF Apart
  <2> QED BY <1>6, <1>7, <2>1, <2>2 DEF TypeOK
<1>10. Ahead(n)
  BY <1>4, <1>5, <1>7, <1>8 DEF Ahead
<1> QED BY <1>5, <1>6, <1>9, <1>10 DEF Followed

LEMMA ExactFollows == Exact => FollowsAll
BY DEF Exact, FollowsAll, ExactKinds

\* The invariant, which says nothing of second turns and of bodies the analysis does
\* not follow.
LEMMA Invariant == Spec => []IInv
<1>1. Init => IInv
  <2>1. Init => turns = 0
    BY DEF Init
  <2> QED BY <2>1, InitFollowed DEF IInv
<1>2. IInv /\ [Next]_vars => IInv'
  <2> SUFFICES ASSUME IInv, [Next]_vars PROVE IInv'
    OBVIOUS
  <2>1. turns \in Nat /\ (turns' = turns \/ (Again /\ turns' = turns + 1))
    BY DEF IInv, Next, vars, history, heap, Allocate, Clear, DeleteLocal, Pass, LetGo, FreeScoped,
           If, Switch, EnterLoop, Again, Continue, Break, GoOn, Declare, RunDeferred, Return, Ret, End
  <2>2. about' = about
    BY DEF Next, vars, Allocate, Clear, DeleteLocal, Pass, LetGo, FreeScoped, If, Switch,
           EnterLoop, Again, Continue, Break, GoOn, Declare, RunDeferred, Return, Ret, End,
           Step, Release, Goto
  <2>3. Exact' = Exact /\ FollowsAll' = FollowsAll
    BY <2>2 DEF Exact, FollowsAll
  <2>4. CASE turns' = turns
    BY <2>1, <2>3, <2>4, StepFollowed DEF IInv
  <2>5. CASE Again /\ turns' = turns + 1
    <3>1. turns' \in Nat /\ turns' # 0
      BY <2>1, <2>5
    <3>2. ~(Exact /\ FollowsAll)
      <4> SUFFICES ASSUME Exact, FollowsAll PROVE FALSE
        OBVIOUS
      <4>1. Followed
        BY DEF IInv
      <4>2. work # <<>> /\ Instr.op = "loop"
        BY <2>5 DEF Again, Running, Instr
      <4> QED BY <4>1, <4>2, NeverFollowed
    <3> QED BY <2>3, <3>1, <3>2 DEF IInv
  <2> QED BY <2>1, <2>4, <2>5
<1> QED BY <1>1, <1>2, PTL DEF Spec

\* A delete reported to delete again what was deleted does: on every path the
\* analysis follows the object was freed before (newbf-sema/src/ownership.rs, "zero
\* false positives").
THEOREM AlarmsAreTrue == Spec => []AlarmsTrue
<1>1. IInv => AlarmsTrue
  <2> SUFFICES ASSUME IInv, Running({"delete"}), Instr.alarm = "Deleted", turns = 0, FollowsAll
               PROVE  ptr[Instr.var] \in freed
    BY DEF AlarmsTrue
  <2>1. Followed /\ work # <<>> /\ Instr = Head(work) /\ Instr.op = "delete"
    BY DEF IInv, Running, Instr
  <2>2. PICK n \in Nat, e \in Env : Fine(work, e, Exact, n) /\ Agrees(e)
    <3>1. Instr.op \notin {"ret", "free"}
      BY <2>1
    <3> QED BY <2>1, <3>1, NextInstruction
  <2>3. Instr.var \in Var /\ e[Instr.var] = "Deleted"
    BY <2>1, <2>2 DEF Fine
  <2> QED BY <2>2, <2>3 DEF Agrees, AgreesOn
<1> QED BY <1>1, Invariant, PTL

\* No leak is reported of an object that was freed, that somebody else was given or
\* that its block frees, on the paths the analysis follows (ExitScan at every exit).
THEOREM LeaksAreTrue == Spec => []LeaksTrue
<1>1. IInv => LeaksTrue
  <2> SUFFICES ASSUME IInv, work = <<>>, ~crashed, turns = 0, FollowsAll
               PROVE  FalseLeaks = {}
    BY DEF LeaksTrue
  <2>1. PICK n \in Nat : Ahead(n) \/ Leaves(n)
    BY DEF IInv, Followed, Stopped
  <2>2. ~Ahead(n)
    BY RightSteps DEF Ahead, Fine
  <2> QED BY <2>1, <2>2 DEF Leaves, FalseLeaks
<1> QED BY <1>1, Invariant, PTL

\* In a method without branches whose locals are given to nobody, no second delete of
\* an object goes unreported: there the analysis knows all.
THEOREM NoDoubleFreeIsSilent == Spec => []NoSilentDoubleFree
<1>1. IInv => NoSilentDoubleFree
  <2> SUFFICES ASSUME IInv, Running({"delete"}), Exact, ptr[Instr.var] \in freed
               PROVE  Instr.alarm # NoAlarm
    BY DEF NoSilentDoubleFree, Exact, ExactKinds
  <2>1. Followed /\ work # <<>> /\ Instr = Head(work) /\ Instr.op = "delete"
    BY ExactFollows DEF IInv, Running, Instr
  <2>2. PICK n \in Nat, e \in Env : Fine(work, e, Exact, n) /\ Agrees(e)
    <3>1. Instr.op \notin {"ret", "free"}
      BY <2>1
    <3> QED BY <2>1, <3>1, NextInstruction
  <2>3. Instr.var \in Var /\ (DeleteAlarm(e, Instr.var) # NoAlarm => Instr.alarm # NoAlarm)
    BY <2>1, <2>2 DEF Fine
  <2>4. AgreesOn(Instr.var, e) /\ ptr[Instr.var] # Null
    BY <2>1, <2>2, <2>3 DEF Agrees, Followed, TypeOK, Object, Null
  <2>5. e[Instr.var] \in {"Owned", "OwnedScope", "Deleted"}
    BY <2>4 DEF AgreesOn
  <2>6. e[Instr.var] # "Owned"
    BY <2>4 DEF AgreesOn
  <2> QED BY <2>3, <2>5, <2>6 DEF DeleteAlarm, NoAlarm
<1> QED BY <1>1, Invariant, PTL
=============================================================================
