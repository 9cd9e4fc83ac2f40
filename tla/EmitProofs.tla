----------------------------- MODULE EmitProofs -----------------------------
(***************************************************************************)
(* Theorems about EmitRounds and the texts it compares, for every set of   *)
(* types, every set of texts and all caps.                                 *)
(***************************************************************************)
EXTENDS EmitRounds, TLAPS, WellFoundedInduction, FiniteSetTheorems

-----------------------------------------------------------------------------
(* Induction.  The library's induction theorems take predicates, which the *)
(* provers cannot instantiate; here a set takes the predicate's place.     *)

\* The order of the natural numbers, as a set.
Less == {ss \in Nat \X Nat : ss[1] < ss[2]}

\* A set of natural numbers that is not empty has a least element.
LEMMA LeastNat ==
    ASSUME NEW T \in SUBSET Nat, T # {}
    PROVE  \E n \in T : \A m \in T : n <= m
<1>1. IsWellFoundedOn(Less, Nat)
  BY NatLessThanWellFounded DEF OpToRel, Less
<1>2. PICK n \in T : \A m \in T : ~ (<<m, n>> \in Less)
  BY <1>1, WFMin
<1>3. ASSUME NEW m \in T PROVE n <= m
  <2>1. ~(m < n)
    BY <1>2 DEF Less
  <2>2. m \in Nat /\ n \in Nat
    OBVIOUS
  <2> QED BY <2>1, <2>2
<1> QED BY <1>3

\* Induction on the natural numbers, with a set in the place of the predicate.
LEMMA NatSetInduction ==
    ASSUME NEW T, 0 \in T, \A n \in Nat : n \in T => n + 1 \in T
    PROVE  Nat \subseteq T
<1> SUFFICES ASSUME Nat \ T # {} PROVE FALSE
  OBVIOUS
<1>1. Nat \ T \in SUBSET Nat
  OBVIOUS
<1>2. PICK n \in Nat \ T : \A m \in Nat \ T : n <= m
  BY <1>1, LeastNat
<1>3. n # 0 /\ n - 1 \in Nat /\ n - 1 \in T
  BY <1>2
<1> QED BY <1>2, <1>3

\* A function that is defined by a step from each number to the next exists.
IsRun(f, base, step) == f[0] = base /\ \A n \in Nat : f[n + 1] = step[n][f[n]]

LEMMA StepsExist ==
    ASSUME NEW S, NEW base \in S, NEW step \in [Nat -> [S -> S]]
    PROVE  \E f \in [Nat -> S] : IsRun(f, base, step)
<1> DEFINE Upto(n, h) == h[0] = base /\ \A i \in 0 .. n - 1 : h[i + 1] = step[i][h[i]]
           T == {n \in Nat : \E h \in [0 .. n -> S] : Upto(n, h)}
           U == {n \in Nat : \A m \in Nat : \A g \in [0 .. n -> S], h \in [0 .. m -> S] :
                                n <= m /\ Upto(n, g) /\ Upto(m, h) => g[n] = h[n]}
<1>1. Nat \subseteq T
  <2>1. 0 \in T
    <3>1. [i \in 0 .. 0 |-> base] \in [0 .. 0 -> S] /\ Upto(0, [i \in 0 .. 0 |-> base])
      OBVIOUS
    <3> QED BY <3>1
  <2>2. ASSUME NEW n \in Nat, n \in T PROVE n + 1 \in T
    <3>1. PICK h \in [0 .. n -> S] : Upto(n, h)
      BY <2>2
    <3> DEFINE g == [i \in 0 .. n + 1 |-> IF i = n + 1 THEN step[n][h[n]] ELSE h[i]]
    <3>2. g \in [0 .. n + 1 -> S]
      OBVIOUS
    <3>3. g[0] = base /\ g[n + 1] = step[n][h[n]] /\ g[n] = h[n]
      BY <3>1
    <3>4. ASSUME NEW i \in 0 .. n - 1 PROVE g[i + 1] = step[i][g[i]]
      BY <3>1
    <3>5. Upto(n + 1, g)
      <4> HIDE DEF g
      <4>1. \A i \in 0 .. (n + 1) - 1 : i \in 0 .. n - 1 \/ i = n
        OBVIOUS
      <4> QED BY <3>3, <3>4, <4>1
    <3> HIDE DEF g, Upto
    <3> QED BY <3>2, <3>5
  <2> HIDE DEF T
  <2> QED BY <2>1, <2>2, NatSetInduction
<1>2. Nat \subseteq U
  <2>1. 0 \in U
    OBVIOUS
  <2>2. ASSUME NEW n \in Nat, n \in U PROVE n + 1 \in U
    <3> SUFFICES ASSUME NEW m \in Nat, NEW g \in [0 .. n + 1 -> S], NEW h \in [0 .. m -> S],
                        n + 1 <= m, Upto(n + 1, g), Upto(m, h)
                 PROVE  g[n + 1] = h[n + 1]
      <4> HIDE DEF Upto
      <4>1. n + 1 \in Nat
        OBVIOUS
      <4> QED BY <4>1
    <3> DEFINE k == [i \in 0 .. n |-> g[i]]
    <3>1. k \in [0 .. n -> S] /\ k[n] = g[n]
      OBVIOUS
    <3>2. Upto(n, k)
      <4>1. k[0] = base
        OBVIOUS
      <4>2. ASSUME NEW i \in 0 .. n - 1 PROVE k[i + 1] = step[i][k[i]]
        <5>1. i \in 0 .. (n + 1) - 1 /\ i \in 0 .. n /\ i + 1 \in 0 .. n
          OBVIOUS
        <5>2. k[i] = g[i] /\ k[i + 1] = g[i + 1]
          BY <5>1
        <5>3. g[i + 1] = step[i][g[i]]
          BY <5>1
        <5> QED BY <5>2, <5>3
      <4> QED BY <4>1, <4>2
    <3> HIDE DEF k
    <3>3. g[n] = h[n]
      <4> HIDE DEF Upto
      <4>1. n <= m
        OBVIOUS
      <4> QED BY <2>2, <3>1, <3>2, <4>1
    <3>4. n \in 0 .. (n + 1) - 1 /\ n \in 0 .. m - 1
      OBVIOUS
    <3> QED BY <3>3, <3>4
  <2> HIDE DEF U
  <2> QED BY <2>1, <2>2, NatSetInduction
<1> DEFINE at == [n \in Nat |-> CHOOSE h \in [0 .. n -> S] : Upto(n, h)]
           f == [n \in Nat |-> at[n][n]]
<1>3. ASSUME NEW n \in Nat PROVE at[n] \in [0 .. n -> S] /\ Upto(n, at[n])
  <2> HIDE DEF Upto
  <2> QED BY <1>1
<1>4. ASSUME NEW n \in Nat PROVE f[n] = at[n][n] /\ at[n][n] \in S
  <2> HIDE DEF at, Upto
  <2>1. at[n] \in [0 .. n -> S] /\ n \in 0 .. n
    BY <1>3
  <2> QED BY <2>1
<1>5. f[0] = base
  <2>1. Upto(0, at[0])
    <3> HIDE DEF at, Upto
    <3> QED BY <1>3
  <2> QED BY <1>4, <2>1
<1>6. ASSUME NEW n \in Nat PROVE f[n + 1] = step[n][f[n]]
  <2> DEFINE g == at[n] h == at[n + 1]
  <2>1. /\ g \in [0 .. n -> S] /\ Upto(n, g) /\ h \in [0 .. n + 1 -> S] /\ Upto(n + 1, h)
    <3> HIDE DEF at, Upto
    <3>1. n + 1 \in Nat
      OBVIOUS
    <3> QED BY <1>3, <3>1
  <2>4. f[n] = g[n] /\ f[n + 1] = h[n + 1]
    OBVIOUS
  <2> HIDE DEF g, h, f, at
  <2>2. g[n] = h[n]
    <3> HIDE DEF Upto
    <3>1. n <= n + 1 /\ n + 1 \in Nat /\ n \in U
      BY <1>2
    <3> QED BY <2>1, <3>1
  <2>3. h[n + 1] = step[n][h[n]]
    <3>1. n \in 0 .. (n + 1) - 1
      OBVIOUS
    <3> QED BY <2>1, <3>1
  <2> QED BY <2>2, <2>3, <2>4
<1>7. f \in [Nat -> S]
  BY <1>4
<1> HIDE DEF f
<1> QED BY <1>5, <1>6, <1>7 DEF IsRun

-----------------------------------------------------------------------------
(* normalize, prefix by prefix.                                            *)

\* What texts are made of before and after normalize, and what of it a plain text has.
Piece == Token \cup {"torn"}

PlainInk == {"x", "y", "punct", "lit", "rem"}

NState == [out : Seq(Piece), space : BOOLEAN, comment : BOOLEAN]

LEMMA TokensArePieces == Seq(Token) \subseteq Seq(Piece)
BY DEF Piece

\* From a, one token c leads to b, case by case.
Stepped(a, c, b) ==
    /\ b \in NState
    /\ a.comment /\ c # "nl" => b = a
    /\ ~a.comment /\ ~Tears(a, c) =>
          /\ c = "cm" => b.out = a.out /\ b.space = a.space /\ b.comment
          /\ c \in PlainInk => b.out = Append(a.out, c) /\ ~b.space /\ ~b.comment
    /\ ~(a.comment /\ c # "nl") /\ IsSpace(c) =>
          /\ b.out = IF a.space \/ a.out = <<>> THEN a.out ELSE Append(a.out, "sp")
          /\ b.space <=> a.space \/ c = "sp" \/ a.out # <<>>
          /\ ~b.comment

LEMMA FrontSeq ==
    ASSUME NEW w \in Seq(Piece), w # <<>>
    PROVE  Append(Front(w), "torn") \in Seq(Piece)
<1>1. Len(w) \in Nat /\ Len(w) >= 1 /\ \A i \in 1 .. Len(w) : w[i] \in Piece
  OBVIOUS
<1>2. Front(w) \in Seq(Piece)
  BY <1>1 DEF Front
<1> QED BY <1>2 DEF Piece

LEMMA NormalStepCases ==
    ASSUME NEW a \in NState, NEW c \in Token
    PROVE  Stepped(a, c, NormalStep(a, c))
<1> SUFFICES ASSUME NEW b, b = NormalStep(a, c) PROVE Stepped(a, c, b)
  OBVIOUS
<1> USE DEF Stepped
<1>1. /\ a.out \in Seq(Piece) /\ a.space \in BOOLEAN /\ a.comment \in BOOLEAN
      /\ \A w \in Piece : Append(a.out, w) \in Seq(Piece)
  BY DEF NState
<1>2. {"sp", "lit", c} \subseteq Piece
  BY DEF Token, Piece
<1>3. \A w \in Piece : \A cut \in BOOLEAN :
          [out |-> Append(a.out, w), space |-> FALSE, comment |-> cut] \in NState
  BY <1>1 DEF NState
<1>4. CASE a.comment /\ c # "nl"
  <2>1. b = a
    BY <1>4 DEF NormalStep
  <2> QED BY <1>4, <2>1 DEF IsSpace
<1>5. CASE ~(a.comment /\ c # "nl") /\ Tears(a, c)
  <2>0. c # "wide" /\ ~IsSpace(c)
    BY <1>5 DEF Tears, Slash, BlockComment, IsSpace
  <2>1. b = [out |-> Append(Front(a.out), "torn"), space |-> FALSE, comment |-> TRUE]
    BY <1>5, <2>0 DEF NormalStep
  <2>2. a.out # <<>> /\ c \in Slash
    BY <1>5 DEF Tears
  <2>3. b \in NState
    BY <1>1, <2>1, <2>2, FrontSeq DEF NState
  <2>4. ~IsSpace(c) /\ c # "nl"
    BY <2>2 DEF IsSpace, Slash, BlockComment
  <2> QED BY <1>5, <2>3, <2>4
<1>6. CASE ~(a.comment /\ c # "nl") /\ ~Tears(a, c) /\ c = "cm"
  <2>1. b = [a EXCEPT !.comment = TRUE]
    BY <1>6 DEF NormalStep, IsSpace
  <2>2. b \in NState /\ b.out = a.out /\ b.space = a.space /\ b.comment /\ ~IsSpace(c)
    BY <1>1, <1>6, <2>1 DEF NState, IsSpace
  <2> QED BY <1>6, <2>2 DEF PlainInk
<1>7. CASE ~(a.comment /\ c # "nl") /\ IsSpace(c)
  <2> DEFINE out == IF a.space \/ a.out = <<>> THEN a.out ELSE Append(a.out, "sp")
             space == a.space \/ c = "sp" \/ a.out # <<>>
  <2>1. c \notin Slash /\ c # "cm" /\ c # "wide" /\ c \notin PlainInk
    BY <1>7 DEF IsSpace, Slash, BlockComment, PlainInk
  <2>2. ~Tears(a, c)
    BY <2>1 DEF Tears
  <2>3. b = [out |-> out, space |-> space, comment |-> FALSE]
    BY <1>7, <2>1, <2>2 DEF NormalStep
  <2>4. out \in Seq(Piece) /\ space \in BOOLEAN
    BY <1>1, <1>2
  <2>5. b \in NState /\ b.out = out /\ (b.space <=> space) /\ ~b.comment
    <3> HIDE DEF out, space
    <3> QED BY <2>3, <2>4 DEF NState
  <2> QED BY <1>7, <2>1, <2>5
<1>8. CASE /\ ~(a.comment /\ c # "nl") /\ ~Tears(a, c)
           /\ c # "cm" /\ ~IsSpace(c)
  <2> DEFINE word == IF c = "wide" THEN "lit" ELSE c
             cut == c \in {"url", "remurl"}
  <2>1. b = [out |-> Append(a.out, word), space |-> FALSE, comment |-> cut]
    <3>1. CASE c = "wide"
      <4>1. word = "lit" /\ cut = FALSE
        BY <3>1
      <4>2. b = [out |-> Append(a.out, "lit"), space |-> FALSE, comment |-> FALSE]
        BY <1>8, <3>1 DEF NormalStep, IsSpace
      <4> QED BY <4>1, <4>2
    <3>2. CASE c # "wide"
      BY <1>8, <3>2 DEF NormalStep
    <3> QED BY <3>1, <3>2
  <2>2. word \in Piece /\ cut \in BOOLEAN
    BY <1>2
  <2>3. b \in NState /\ b.out = Append(a.out, word) /\ ~b.space /\ (b.comment <=> cut)
    <3> HIDE DEF word, cut
    <3> QED BY <1>3, <2>1, <2>2
  <2>4. c \in PlainInk => word = c /\ ~cut
    BY DEF PlainInk
  <2> HIDE DEF word, cut
  <2> QED BY <1>8, <2>3, <2>4 DEF IsSpace
<1> QED BY <1>4, <1>5, <1>6, <1>7, <1>8 DEF IsSpace

\* The recursion of Normalizing is well defined: what it says of each prefix.
LEMMA NormalizingSteps ==
    ASSUME NEW s \in Seq(Token)
    PROVE  /\ Normalizing(s) \in [0 .. Len(s) -> NState]
           /\ Normalizing(s)[0] = Blank
           /\ \A i \in 0 .. Len(s) - 1 :
                 Normalizing(s)[i + 1] = NormalStep(Normalizing(s)[i], s[i + 1])
<1> DEFINE step == [n \in Nat |-> [a \in NState |->
                      IF n < Len(s) THEN NormalStep(a, s[n + 1]) ELSE a]]
           Rec(g) == [i \in 0 .. Len(s) |->
                         IF i = 0 THEN Blank ELSE NormalStep(g[i - 1], s[i])]
<1>1. Len(s) \in Nat /\ \A n \in Nat : n < Len(s) => s[n + 1] \in Token
  OBVIOUS
<1>2. step \in [Nat -> [NState -> NState]]
  BY <1>1, NormalStepCases DEF Stepped
<1>3. Blank \in NState
  BY DEF Blank, NState
<1>4. PICK f \in [Nat -> NState] : f[0] = Blank /\ \A n \in Nat : f[n + 1] = step[n][f[n]]
  <2> HIDE DEF step
  <2>1. \E f \in [Nat -> NState] : IsRun(f, Blank, step)
    BY <1>2, <1>3, StepsExist
  <2> QED BY <2>1 DEF IsRun
<1> DEFINE g == [i \in 0 .. Len(s) |-> f[i]]
<1>5. g = Rec(g)
  <2> SUFFICES ASSUME NEW i \in 0 .. Len(s)
               PROVE  f[i] = IF i = 0 THEN Blank ELSE NormalStep(g[i - 1], s[i])
    OBVIOUS
  <2>1. CASE i = 0
    BY <1>4, <2>1
  <2>2. CASE i # 0
    <3>1. i - 1 \in Nat /\ i - 1 < Len(s) /\ i - 1 \in 0 .. Len(s) /\ (i - 1) + 1 = i
      BY <2>2, <1>1
    <3>2. f[i] = step[i - 1][f[i - 1]] /\ f[i - 1] \in NState /\ g[i - 1] = f[i - 1]
      BY <1>4, <3>1
    <3> QED BY <2>2, <3>1, <3>2
  <2> QED BY <2>1, <2>2
<1> DEFINE h == Normalizing(s)
<1>6. h = CHOOSE x : x = Rec(x)
  BY DEF Normalizing
<1>7. h = Rec(h)
  <2> HIDE DEF g, h, Rec
  <2> QED BY <1>5, <1>6
<1>8. h[0] = Blank /\ \A i \in 0 .. Len(s) - 1 : h[i + 1] = NormalStep(h[i], s[i + 1])
  <2> HIDE DEF h
  <2>1. 0 \in 0 .. Len(s) /\ \A i \in 0 .. Len(s) - 1 : i + 1 \in 0 .. Len(s) /\ i + 1 # 0
    BY <1>1
  <2> QED BY <1>7, <2>1
<1>9. h \in [0 .. Len(s) -> NState]
  <2> DEFINE T == {n \in Nat : n <= Len(s) => h[n] \in NState}
  <2> HIDE DEF h
  <2>1. 0 \in T
    BY <1>3, <1>8
  <2>2. ASSUME NEW n \in Nat, n \in T PROVE n + 1 \in T
    <3> SUFFICES ASSUME n + 1 <= Len(s) PROVE h[n + 1] \in NState
      OBVIOUS
    <3>1. n \in 0 .. Len(s) - 1 /\ h[n] \in NState /\ s[n + 1] \in Token
      BY <1>1, <2>2
    <3>2. NormalStep(h[n], s[n + 1]) \in NState
      BY <3>1, NormalStepCases DEF Stepped
    <3> QED BY <1>8, <3>1, <3>2
  <2>3. Nat \subseteq T
    <3> HIDE DEF T
    <3> QED BY <2>1, <2>2, NatSetInduction
  <2>4. \A i \in 0 .. Len(s) : h[i] \in NState
    BY <1>1, <2>3
  <2> QED BY <1>7, <2>4
<1> QED BY <1>8, <1>9

\* What is written in a prefix, and the words of what is normalised.
InkUpto(s, i) == {j \in InkAt(s) : j <= i}

PlainUpto(s, i) ==
    \A j \in InkUpto(s, i) : /\ s[j] \in PlainInk
                             /\ s[j] = "rem" /\ j + 1 <= i => s[j + 1] \notin Slash

Words(out) == {p \in DOMAIN out : out[p] # "sp"}

\* f leads from what is written in a prefix to the words of out.
Matches(f, s, i, out) ==
    /\ f \in [InkUpto(s, i) -> Words(out)]
    /\ \A p \in Words(out) : \E j \in InkUpto(s, i) : f[j] = p
    /\ \A j, k \in InkUpto(s, i) : j < k => f[j] < f[k]
    /\ \A j \in InkUpto(s, i) :
          /\ out[f[j]] = s[j]
          /\ f[j] - 1 \in Words(out) <=> j - 1 \in InkAt(s)

\* Words with single blanks between them, and perhaps one at the end.
Tidy(out) ==
    /\ \A p \in DOMAIN out : out[p] \in PlainInk \cup {"sp"}
    /\ out # <<>> => out[1] # "sp"
    /\ \A p \in 1 .. Len(out) - 1 : out[p] = "sp" => out[p + 1] # "sp"

(***************************************************************************)
(* What normalize knows after a plain prefix: it is in a comment when the  *)
(* compiler is, and its output has what is written so far, with a blank at *)
(* its end unless the prefix ends in something written.                    *)
(***************************************************************************)
Known(s, i, a) ==
    PlainUpto(s, i) =>
        /\ a.comment <=> InComment(s, i)
        /\ Tidy(a.out)
        /\ a.out # <<>> => (a.space <=> a.out[Len(a.out)] = "sp")
        /\ ~a.comment => (Len(a.out) \in Words(a.out) <=> i \in InkAt(s))
        /\ \E f : Matches(f, s, i, a.out)

LEMMA PlainEarlier ==
    ASSUME NEW s \in Seq(Token), NEW i \in 0 .. Len(s) - 1, PlainUpto(s, i + 1)
    PROVE  PlainUpto(s, i)
<1>1. \A j \in InkUpto(s, i) : j \in InkUpto(s, i + 1) /\ (j + 1 <= i => j + 1 <= i + 1)
  BY DEF InkUpto, InkAt
<1> QED BY <1>1 DEF PlainUpto

LEMMA InCommentStep ==
    ASSUME NEW s \in Seq(Token), NEW i \in 0 .. Len(s) - 1
    PROVE  InComment(s, i + 1) <=> s[i + 1] = "cm" \/ (InComment(s, i) /\ s[i + 1] # "nl")
<1>1. ASSUME InComment(s, i + 1) PROVE s[i + 1] = "cm" \/ (InComment(s, i) /\ s[i + 1] # "nl")
  <2>1. PICK j \in 1 .. i + 1 : s[j] = "cm" /\ \A k \in j .. i + 1 : s[k] # "nl"
    BY <1>1 DEF InComment
  <2>2. CASE j = i + 1
    BY <2>1, <2>2
  <2>3. CASE j # i + 1
    <3>1. j \in 1 .. i /\ i + 1 \in j .. i + 1 /\ \A k \in j .. i : k \in j .. i + 1
      BY <2>3
    <3> QED BY <2>1, <3>1 DEF InComment
  <2> QED BY <2>2, <2>3
<1>2. ASSUME s[i + 1] = "cm" PROVE InComment(s, i + 1)
  <2>1. i + 1 \in 1 .. i + 1 /\ \A k \in i + 1 .. i + 1 : k = i + 1
    OBVIOUS
  <2> QED BY <1>2, <2>1 DEF InComment
<1>3. ASSUME InComment(s, i), s[i + 1] # "nl" PROVE InComment(s, i + 1)
  <2>1. PICK j \in 1 .. i : s[j] = "cm" /\ \A k \in j .. i : s[k] # "nl"
    BY <1>3 DEF InComment
  <2>2. j \in 1 .. i + 1 /\ \A k \in j .. i + 1 : k \in j .. i \/ k = i + 1
    OBVIOUS
  <2> QED BY <1>3, <2>1, <2>2 DEF InComment
<1> QED BY <1>1, <1>2, <1>3

LEMMA InkStep ==
    ASSUME NEW s \in Seq(Token), NEW i \in 0 .. Len(s) - 1
    PROVE  /\ i + 1 \in InkAt(s) <=> s[i + 1] \notin {"sp", "nl", "cm"} /\ ~InComment(s, i)
           /\ i + 1 \in InkAt(s) => InkUpto(s, i + 1) = InkUpto(s, i) \cup {i + 1}
           /\ i + 1 \notin InkAt(s) => InkUpto(s, i + 1) = InkUpto(s, i)
           /\ InkUpto(s, i) \subseteq 1 .. i
<1>1. i + 1 \in DOMAIN s /\ InkAt(s) \subseteq 1 .. Len(s)
  BY DEF InkAt
<1>2. i + 1 \in InkAt(s) <=> s[i + 1] \notin {"sp", "nl", "cm"} /\ ~InComment(s, i)
  BY <1>1, InCommentStep DEF InkAt, IsSpace
<1>3. \A j \in InkAt(s) : j \in 1 .. Len(s) /\ (j <= i + 1 <=> j <= i \/ j = i + 1)
  BY <1>1
<1>4. i + 1 \in InkAt(s) => InkUpto(s, i + 1) = InkUpto(s, i) \cup {i + 1}
  BY <1>3 DEF InkUpto
<1>5. i + 1 \notin InkAt(s) => InkUpto(s, i + 1) = InkUpto(s, i)
  BY <1>3 DEF InkUpto
<1>6. InkUpto(s, i) \subseteq 1 .. i
  BY <1>3 DEF InkUpto
<1> QED BY <1>2, <1>4, <1>5, <1>6

\* Before the text there is nothing.
LEMMA KnownStart == ASSUME NEW s \in Seq(Token) PROVE Known(s, 0, Blank)
<1>1. InkAt(s) \subseteq 1 .. Len(s) /\ InkUpto(s, 0) = {}
  BY DEF InkAt, InkUpto
<1>2. Blank.out = <<>> /\ DOMAIN Blank.out = {} /\ Words(Blank.out) = {} /\ Len(Blank.out) = 0
      /\ ~Blank.comment
  BY DEF Blank, Words
<1>3. ~InComment(s, 0) /\ 0 \notin InkAt(s)
  BY <1>1 DEF InComment
<1>4. Tidy(Blank.out)
  BY <1>2 DEF Tidy
<1>5. Matches([j \in {} |-> 0], s, 0, Blank.out)
  BY <1>1, <1>2 DEF Matches
<1> QED BY <1>2, <1>3, <1>4, <1>5 DEF Known

\* A step that adds no code to the prefix and no word to the output.
LEMMA KnownQuiet ==
    ASSUME NEW s \in Seq(Token), NEW i \in 0 .. Len(s) - 1, NEW a, NEW b,
           Known(s, i, a), PlainUpto(s, i), i + 1 \notin InkAt(s),
           b.comment <=> InComment(s, i + 1), Tidy(b.out),
           Words(b.out) = Words(a.out), \A p \in Words(a.out) : b.out[p] = a.out[p],
           b.out # <<>> => (b.space <=> b.out[Len(b.out)] = "sp"),
           ~b.comment => Len(b.out) \notin Words(b.out)
    PROVE  Known(s, i + 1, b)
<1>1. InkUpto(s, i + 1) = InkUpto(s, i)
  BY InkStep
<1>3. PICK f : Matches(f, s, i, a.out)
  BY DEF Known
<1>4. Matches(f, s, i + 1, b.out)
  BY <1>1, <1>3 DEF Matches
<1> QED BY <1>4 DEF Known

\* v is w with c at its end.
Longer(w, c, v) ==
    /\ v # <<>> /\ Len(w) \in Nat /\ Len(v) = Len(w) + 1
    /\ DOMAIN w = 1 .. Len(w) /\ DOMAIN v = 1 .. Len(w) + 1
    /\ v[Len(w) + 1] = c
    /\ \A p \in 1 .. Len(w) : v[p] = w[p]

LEMMA Appended ==
    ASSUME NEW w \in Seq(Piece), NEW c \in Piece
    PROVE  Longer(w, c, Append(w, c))
BY DEF Longer

\* A word is added to both.
LEMMA KnownWord ==
    ASSUME NEW s \in Seq(Token), NEW i \in 0 .. Len(s) - 1, NEW a \in NState, NEW b,
           Known(s, i, a), PlainUpto(s, i), ~a.comment, s[i + 1] \in PlainInk,
           b.out = Append(a.out, s[i + 1]), ~b.space, ~b.comment
    PROVE  Known(s, i + 1, b)
<1> DEFINE c == s[i + 1]
           n == Len(a.out) + 1
<1>0. c # "sp" /\ c \notin {"sp", "nl", "cm"} /\ c \in Piece
  BY DEF PlainInk, Piece, Token
<1>1. /\ ~InComment(s, i) /\ Tidy(a.out)
      /\ Len(a.out) \in Words(a.out) <=> i \in InkAt(s)
  BY DEF Known
<1>2. /\ i + 1 \in InkAt(s) /\ InkUpto(s, i + 1) = InkUpto(s, i) \cup {i + 1}
      /\ ~InComment(s, i + 1) /\ InkUpto(s, i) \subseteq 1 .. i
  BY <1>0, <1>1, InkStep, InCommentStep
<1>3. /\ a.out \in Seq(Piece) /\ Len(a.out) \in Nat /\ DOMAIN a.out = 1 .. n - 1
      /\ Len(b.out) = n /\ DOMAIN b.out = 1 .. n /\ b.out[n] = c /\ b.out # <<>>
      /\ \A p \in 1 .. n - 1 : b.out[p] = a.out[p]
  <2>1. a.out \in Seq(Piece) /\ c \in Piece
    BY <1>0 DEF NState
  <2>2. b.out = Append(a.out, c)
    OBVIOUS
  <2>3. n - 1 = Len(a.out)
    BY <2>1
  <2>4. /\ b.out # <<>> /\ Len(a.out) \in Nat /\ Len(b.out) = Len(a.out) + 1
        /\ DOMAIN a.out = 1 .. Len(a.out) /\ DOMAIN b.out = 1 .. Len(a.out) + 1
        /\ b.out[Len(a.out) + 1] = c /\ \A p \in 1 .. Len(a.out) : b.out[p] = a.out[p]
    <3> HIDE DEF c
    <3>1. Longer(a.out, c, b.out)
      BY <2>1, <2>2, Appended
    <3> QED BY <3>1 DEF Longer
  <2> QED BY <2>1, <2>3, <2>4
<1>4. Words(b.out) = Words(a.out) \cup {n} /\ Words(a.out) \subseteq 1 .. n - 1
  BY <1>0, <1>3 DEF Words
<1>6. Tidy(b.out)
  <2>1. \A p \in DOMAIN b.out : b.out[p] \in PlainInk \cup {"sp"}
    BY <1>1, <1>3 DEF Tidy
  <2>2. b.out[1] # "sp"
    BY <1>0, <1>1, <1>3 DEF Tidy
  <2>3. ASSUME NEW p \in 1 .. Len(b.out) - 1, b.out[p] = "sp" PROVE b.out[p + 1] # "sp"
    <3>1. CASE p + 1 = n
      BY <1>0, <1>3, <3>1
    <3>2. CASE p + 1 # n
      <4>1. n \in Nat /\ Len(a.out) = n - 1
        BY <1>3
      <4>2. p \in 1 .. Len(a.out) - 1 /\ p \in 1 .. n - 1 /\ p + 1 \in 1 .. n - 1
        BY <1>3, <3>2, <4>1
      <4>3. b.out[p] = a.out[p] /\ b.out[p + 1] = a.out[p + 1]
        BY <1>3, <4>2
      <4> QED BY <1>1, <2>3, <4>2, <4>3 DEF Tidy
    <3> QED BY <3>1, <3>2
  <2> QED BY <2>1, <2>2, <2>3 DEF Tidy
<1>7. \E g : Matches(g, s, i + 1, b.out)
  <2>1. PICK f : Matches(f, s, i, a.out)
    BY DEF Known
  <2> DEFINE g == [j \in InkUpto(s, i + 1) |-> IF j = i + 1 THEN n ELSE f[j]]
  <2>2. /\ g[i + 1] = n /\ i + 1 \notin InkUpto(s, i)
        /\ \A j \in InkUpto(s, i) : g[j] = f[j] /\ f[j] \in Words(a.out) /\ f[j] < n /\ j < i + 1
    BY <1>2, <1>4, <2>1 DEF Matches
  <2>3. g \in [InkUpto(s, i + 1) -> Words(b.out)]
    BY <1>2, <1>4, <2>2
  <2> HIDE DEF g
  <2>4. \A p \in Words(b.out) : \E j \in InkUpto(s, i + 1) : g[j] = p
    BY <1>2, <1>4, <2>1, <2>2 DEF Matches
  <2>5. ASSUME NEW j \in InkUpto(s, i + 1), NEW k \in InkUpto(s, i + 1), j < k
        PROVE  g[j] < g[k]
    <3>1. j \in InkUpto(s, i) /\ (k \in InkUpto(s, i) \/ k = i + 1)
      BY <1>2, <2>5
    <3> QED BY <2>1, <2>2, <2>5, <3>1 DEF Matches
  <2>6. ASSUME NEW j \in InkUpto(s, i + 1)
        PROVE  /\ b.out[g[j]] = s[j]
               /\ g[j] - 1 \in Words(b.out) <=> j - 1 \in InkAt(s)
    <3>1. CASE j = i + 1
      <4>1. n - 1 \in Words(b.out) <=> Len(a.out) \in Words(a.out)
        BY <1>3, <1>4
      <4> QED BY <1>1, <1>3, <2>2, <3>1, <4>1
    <3>2. CASE j \in InkUpto(s, i)
      <4>1. f[j] \in 1 .. n - 1 /\ (f[j] - 1 \in Words(b.out) <=> f[j] - 1 \in Words(a.out))
        BY <1>3, <1>4, <2>2, <3>2
      <4> QED BY <1>3, <2>1, <2>2, <3>2, <4>1 DEF Matches
    <3> QED BY <1>2, <3>1, <3>2
  <2> QED BY <2>3, <2>4, <2>5, <2>6 DEF Matches
<1>8. n \in Words(b.out) /\ b.out[Len(b.out)] # "sp"
  BY <1>0, <1>3, <1>4
<1> QED BY <1>2, <1>3, <1>6, <1>7, <1>8 DEF Known

\* When the output ends in a block comment, the prefix does.
LEMMA LastWord ==
    ASSUME NEW s \in Seq(Token), NEW i \in 0 .. Len(s) - 1, NEW a \in NState,
           Known(s, i, a), PlainUpto(s, i), ~a.comment, a.out # <<>>, Last(a.out) = "rem"
    PROVE  i \in InkUpto(s, i) /\ s[i] = "rem"
<1> DEFINE n == Len(a.out)
<1>1. n \in DOMAIN a.out /\ a.out[n] = "rem" /\ n \in Nat /\ \A p \in DOMAIN a.out : p <= n
  BY DEF NState, Last
<1>2. n \in Words(a.out) /\ Words(a.out) \subseteq DOMAIN a.out
  BY <1>1 DEF Words
<1>3. i \in InkAt(s)
  BY <1>2 DEF Known
<1>4. i \in InkUpto(s, i) /\ InkUpto(s, i) \subseteq 1 .. i
  BY <1>3, InkStep DEF InkUpto
<1>5. PICK f : Matches(f, s, i, a.out)
  BY DEF Known
<1>6. PICK j \in InkUpto(s, i) : f[j] = n
  BY <1>2, <1>5 DEF Matches
<1>7. j = i
  <2> SUFFICES ASSUME j # i PROVE FALSE
    OBVIOUS
  <2>1. j < i
    BY <1>4
  <2>2. n < f[i] /\ f[i] \in Words(a.out)
    BY <1>4, <1>5, <1>6, <2>1 DEF Matches
  <2>3. f[i] <= n
    BY <1>1, <1>2, <2>2
  <2>4. f[i] \in Int
    <3>1. DOMAIN a.out \subseteq Int
      BY DEF NState
    <3> QED BY <1>2, <2>2, <3>1
  <2> QED BY <1>1, <2>2, <2>3, <2>4
<1> QED BY <1>1, <1>4, <1>5, <1>6, <1>7 DEF Matches

LEMMA KnownStep ==
    ASSUME NEW s \in Seq(Token), NEW i \in 0 .. Len(s) - 1, NEW a \in NState,
           Known(s, i, a)
    PROVE  Known(s, i + 1, NormalStep(a, s[i + 1]))
<1> DEFINE c == s[i + 1]
           b == NormalStep(a, c)
<1>1. c \in Token /\ a.out \in Seq(Piece) /\ "sp" \in Piece
  BY DEF NState, Token, Piece
<1>0. Stepped(a, c, b)
  BY <1>1, NormalStepCases
<1> HIDE DEF b
<1>2. /\ b \in NState
      /\ a.comment /\ c # "nl" => b = a
      /\ ~a.comment /\ ~Tears(a, c) =>
            /\ c = "cm" => b.out = a.out /\ b.space = a.space /\ b.comment
            /\ c \in PlainInk => b.out = Append(a.out, c) /\ ~b.space /\ ~b.comment
      /\ ~(a.comment /\ c # "nl") /\ IsSpace(c) =>
            /\ b.out = IF a.space \/ a.out = <<>> THEN a.out ELSE Append(a.out, "sp")
            /\ b.space <=> a.space \/ c = "sp" \/ a.out # <<>>
            /\ ~b.comment
  BY <1>0 DEF Stepped
<1>3. CASE ~PlainUpto(s, i + 1)
  BY <1>3 DEF Known, b
<1>4. CASE PlainUpto(s, i + 1)
  <2>0. PlainUpto(s, i)
    BY <1>4, PlainEarlier
  <2>1. /\ a.comment <=> InComment(s, i)
        /\ Tidy(a.out) /\ (a.out # <<>> => (a.space <=> a.out[Len(a.out)] = "sp"))
    BY <2>0 DEF Known
  <2>2. CASE a.comment /\ c # "nl"
    <3>1. InComment(s, i + 1) /\ i + 1 \notin InkAt(s) /\ b = a
      BY <1>2, <2>1, <2>2, InkStep, InCommentStep
    <3> QED BY <2>0, <2>1, <2>2, <3>1, KnownQuiet DEF b
  <2>7. ASSUME ~a.comment PROVE ~Tears(a, c)
    <3> SUFFICES ASSUME Tears(a, c) PROVE FALSE
      OBVIOUS
    <3>1. c \in Slash /\ a.out # <<>> /\ Last(a.out) = "rem"
      BY DEF Tears
    <3>2. i \in InkUpto(s, i) /\ s[i] = "rem"
      BY <2>0, <2>7, <3>1, LastWord
    <3>3. i \in InkUpto(s, i + 1)
      BY <3>2 DEF InkUpto, InkAt
    <3> QED BY <1>4, <3>1, <3>2, <3>3 DEF PlainUpto
  <2>3. CASE ~a.comment /\ c = "cm"
    <3>1. InComment(s, i + 1) /\ i + 1 \notin InkAt(s)
      BY <2>1, <2>3, InkStep, InCommentStep
    <3> QED BY <1>2, <2>0, <2>1, <2>3, <2>7, <3>1, KnownQuiet DEF b
  <2>4. CASE ~a.comment /\ c \notin PlainInk /\ c # "cm" /\ ~IsSpace(c)
    <3>1. i + 1 \in InkUpto(s, i + 1)
      BY <2>1, <2>4, InkStep DEF IsSpace
    <3> QED BY <1>4, <2>4, <3>1 DEF PlainUpto
  <2>5. CASE ~(a.comment /\ c # "nl") /\ IsSpace(c)
    <3>1. ~InComment(s, i + 1) /\ i + 1 \notin InkAt(s)
      BY <2>1, <2>5, InkStep, InCommentStep DEF IsSpace
    <3>2. CASE a.space \/ a.out = <<>>
      <4>1. b.out = a.out /\ ~b.comment
        BY <1>2, <2>5, <3>2
      <4>2. Len(b.out) \notin Words(b.out)
        BY <1>1, <2>1, <3>2, <4>1 DEF Words
      <4>3. b.out # <<>> => (b.space <=> b.out[Len(b.out)] = "sp")
        BY <1>2, <2>1, <2>5, <3>2, <4>1
      <4> QED BY <2>0, <2>1, <3>1, <4>1, <4>2, <4>3, KnownQuiet DEF b
    <3>3. CASE ~(a.space \/ a.out = <<>>)
      <4> DEFINE n == Len(a.out) + 1
      <4>1. b.out = Append(a.out, "sp") /\ b.space /\ ~b.comment
        BY <1>2, <2>5, <3>3
      <4>2. /\ n \in Nat /\ n > 1 /\ DOMAIN a.out = 1 .. n - 1 /\ Len(b.out) = n
            /\ DOMAIN b.out = 1 .. n /\ b.out[n] = "sp" /\ b.out # <<>>
            /\ \A p \in 1 .. n - 1 : b.out[p] = a.out[p]
        BY <1>1, <3>3, <4>1
      <4>3. a.out[n - 1] # "sp"
        BY <2>1, <3>3, <4>2
      <4> HIDE DEF n
      <4>4. Words(b.out) = Words(a.out) /\ n \notin Words(b.out)
        BY <4>2 DEF Words
      <4>5. Tidy(b.out)
        <5>1. \A p \in DOMAIN b.out : b.out[p] \in PlainInk \cup {"sp"}
          BY <2>1, <4>2 DEF Tidy
        <5>2. b.out[1] # "sp"
          BY <2>1, <3>3, <4>2 DEF Tidy
        <5>3. ASSUME NEW p \in 1 .. Len(b.out) - 1, b.out[p] = "sp" PROVE b.out[p + 1] # "sp"
          <6>1. p # n - 1
            BY <4>2, <4>3, <5>3
          <6>2. p \in 1 .. n - 2 /\ p + 1 \in 1 .. n - 1 /\ n - 1 = Len(a.out)
            BY <4>2, <6>1 DEF n
          <6>3. b.out[p] = a.out[p] /\ b.out[p + 1] = a.out[p + 1]
            BY <4>2, <6>2
          <6>4. p \in 1 .. Len(a.out) - 1
            BY <4>2, <6>2
          <6> QED BY <2>1, <5>3, <6>3, <6>4 DEF Tidy
        <5> QED BY <5>1, <5>2, <5>3 DEF Tidy
      <4>6. \A p \in Words(a.out) : b.out[p] = a.out[p]
        BY <4>2 DEF Words
      <4> QED BY <2>0, <3>1, <4>1, <4>2, <4>4, <4>5, <4>6, KnownQuiet DEF b
    <3> QED BY <3>2, <3>3
  <2>6. CASE ~a.comment /\ c \in PlainInk
    <3>1. b.out = Append(a.out, c) /\ ~b.space /\ ~b.comment
      BY <1>2, <2>6, <2>7
    <3> QED BY <2>0, <2>6, <3>1, KnownWord DEF b
  <2> QED BY <2>2, <2>3, <2>4, <2>5, <2>6 DEF IsSpace
<1> QED BY <1>3, <1>4

\* What normalize knows after any prefix of a text.
LEMMA KnownAlways ==
    ASSUME NEW s \in Seq(Token)
    PROVE  /\ Normalizing(s)[Len(s)] \in NState
           /\ Known(s, Len(s), Normalizing(s)[Len(s)])
<1> DEFINE at == Normalizing(s)
           T == {i \in Nat : i <= Len(s) => Known(s, i, at[i])}
<1>1. /\ at \in [0 .. Len(s) -> NState] /\ at[0] = Blank
      /\ \A i \in 0 .. Len(s) - 1 : at[i + 1] = NormalStep(at[i], s[i + 1])
  BY NormalizingSteps
<1> HIDE DEF at
<1>2. 0 \in T
  BY <1>1, KnownStart
<1>3. ASSUME NEW i \in Nat, i \in T PROVE i + 1 \in T
  <2> SUFFICES ASSUME i + 1 <= Len(s) PROVE Known(s, i + 1, at[i + 1])
    OBVIOUS
  <2>1. i \in 0 .. Len(s) - 1 /\ at[i] \in NState /\ Known(s, i, at[i])
    BY <1>1, <1>3
  <2> QED BY <1>1, <2>1, KnownStep
<1>4. Len(s) \in T
  <2> HIDE DEF T
  <2>1. Nat \subseteq T
    BY <1>2, <1>3, NatSetInduction
  <2> QED BY <2>1
<1> QED BY <1>1, <1>4 DEF at

\* What a normalised text looks like: words with single blanks between them.
NormalForm(r) == Tidy(r) /\ (r # <<>> => r[Len(r)] # "sp")

LEMMA NormalFormInk ==
    ASSUME NEW r \in Seq(Piece), Tidy(r)
    PROVE  InkAt(r) = Words(r)
<1>1. \A p \in DOMAIN r : r[p] # "cm" /\ r[p] # "nl" /\ (IsSpace(r[p]) <=> r[p] = "sp")
  BY DEF Tidy, IsSpace, PlainInk
<1>2. \A p \in DOMAIN r : ~InComment(r, p)
  BY <1>1 DEF InComment
<1> QED BY <1>1, <1>2 DEF InkAt, Words

LEMMA TrimmedForm ==
    ASSUME NEW o \in Seq(Piece)
    PROVE  /\ Trimmed(o) \in Seq(Piece)
           /\ Tidy(o) => /\ NormalForm(Trimmed(o)) /\ Words(Trimmed(o)) = Words(o)
                         /\ \A p \in Words(o) : Trimmed(o)[p] = o[p]
<1>1. CASE ~(o # <<>> /\ Last(o) = "sp")
  <2>1. Trimmed(o) = o /\ (o # <<>> => o[Len(o)] # "sp")
    BY <1>1 DEF Trimmed, Last
  <2> QED BY <2>1 DEF NormalForm
<1>2. CASE o # <<>> /\ Last(o) = "sp"
  <2> DEFINE r == Trimmed(o)
             n == Len(o)
  <2>1. r = SubSeq(o, 1, n - 1)
    BY <1>2 DEF Trimmed, Front
  <2>2. /\ r \in Seq(Piece) /\ n \in Nat /\ n >= 1 /\ o[n] = "sp" /\ Len(r) = n - 1
        /\ DOMAIN r = 1 .. n - 1 /\ DOMAIN o = 1 .. n
        /\ \A p \in 1 .. n - 1 : r[p] = o[p]
    <3>1. n \in Nat /\ n >= 1 /\ o[n] = "sp" /\ DOMAIN o = 1 .. n
      BY <1>2 DEF Last
    <3>2. \A p \in 1 .. n - 1 : o[p] \in Piece
      OBVIOUS
    <3>3. r = [p \in 1 .. n - 1 |-> o[p]]
      BY <2>1, <3>1
    <3> HIDE DEF r, n
    <3> QED BY <3>1, <3>2, <3>3
  <2> HIDE DEF r, n
  <2>3. Words(r) = Words(o) /\ \A p \in Words(o) : r[p] = o[p]
    BY <2>2 DEF Words
  <2>4. ASSUME Tidy(o) PROVE NormalForm(r)
    <3>1. \A p \in DOMAIN r : r[p] \in PlainInk \cup {"sp"}
      BY <2>2, <2>4 DEF Tidy
    <3>2. r # <<>> => r[1] # "sp" /\ r[Len(r)] # "sp"
      <4> SUFFICES ASSUME r # <<>> PROVE r[1] # "sp" /\ r[Len(r)] # "sp"
        OBVIOUS
      <4>1. n >= 2
        BY <2>2
      <4>2. o[1] # "sp"
        BY <1>2, <2>4 DEF Tidy
      <4>3. n - 1 \in 1 .. Len(o) - 1 /\ (n - 1) + 1 = n
        BY <2>2, <4>1 DEF n
      <4>4. o[n - 1] # "sp"
        BY <2>2, <2>4, <4>3 DEF Tidy
      <4> QED BY <2>2, <4>1, <4>2, <4>4
    <3>3. \A p \in 1 .. Len(r) - 1 : r[p] = "sp" => r[p + 1] # "sp"
      <4> SUFFICES ASSUME NEW p \in 1 .. Len(r) - 1, r[p] = "sp" PROVE r[p + 1] # "sp"
        OBVIOUS
      <4>1. p \in 1 .. Len(o) - 1 /\ p \in 1 .. n - 1 /\ p + 1 \in 1 .. n - 1
        BY <2>2 DEF n
      <4>2. r[p] = o[p] /\ r[p + 1] = o[p + 1]
        BY <2>2, <4>1
      <4> QED BY <2>4, <4>1, <4>2 DEF Tidy
    <3> QED BY <3>1, <3>2, <3>3 DEF NormalForm, Tidy
  <2> QED BY <2>2, <2>3, <2>4 DEF r
<1> QED BY <1>1, <1>2

\* f leads from what is written in s to what is written in u.
Corresponds(f, s, u) ==
    /\ f \in [InkAt(s) -> InkAt(u)]
    /\ \A j \in InkAt(u) : \E i \in InkAt(s) : f[i] = j
    /\ \A i, j \in InkAt(s) : i < j => f[i] < f[j]
    /\ \A i \in InkAt(s) : /\ u[f[i]] = s[i]
                           /\ f[i] - 1 \in InkAt(u) <=> i - 1 \in InkAt(s)

LEMMA SameLayoutBy ==
    ASSUME NEW s, NEW u
    PROVE  SameLayout(s, u) <=> \E f : Corresponds(f, s, u)
<1>1. ASSUME NEW f \in [InkAt(s) -> InkAt(u)]
      PROVE  Corresponds(f, s, u) <=> /\ Follows(f, s, u, InkAt(u))
                                      /\ \A i \in InkAt(s) : f[i] - 1 \in InkAt(u) <=> i - 1 \in InkAt(s)
  <2>1. DOMAIN f = InkAt(s)
    OBVIOUS
  <2> QED BY <2>1 DEF Corresponds, Follows
<1>2. \A f : Corresponds(f, s, u) => f \in [InkAt(s) -> InkAt(u)]
  BY DEF Corresponds
<1> QED BY <1>1, <1>2 DEF SameLayout

LEMMA InkPlaces == ASSUME NEW s \in Seq(Piece) PROVE InkAt(s) \subseteq Nat \ {0}
BY DEF InkAt

\* A plain text that is normalised differs from what it was in its layout only, and is in
\* its normal form.
LEMMA NormalSame ==
    ASSUME NEW s \in Seq(Token), IsPlain(s)
    PROVE  Normal(s) \in Seq(Piece) /\ NormalForm(Normal(s)) /\ SameLayout(s, Normal(s))
<1> DEFINE a == Normalizing(s)[Len(s)]
           r == Normal(s)
<1>1. a \in NState /\ Known(s, Len(s), a) /\ r = Trimmed(a.out)
  BY KnownAlways DEF Normal
<1> HIDE DEF a, r
<1>2. a.out \in Seq(Piece) /\ Len(s) \in Nat /\ InkAt(s) \subseteq 1 .. Len(s)
  BY <1>1 DEF NState, InkAt
<1>3. InkUpto(s, Len(s)) = InkAt(s) /\ PlainUpto(s, Len(s))
  <2>1. InkUpto(s, Len(s)) = InkAt(s)
    BY <1>2 DEF InkUpto
  <2>2. \A j \in InkAt(s) : j + 1 <= Len(s) => j + 1 \in DOMAIN s
    BY <1>2
  <2> QED BY <2>1, <2>2 DEF PlainUpto, IsPlain, PlainInk
<1>4. r \in Seq(Piece)
  BY <1>1, <1>2, TrimmedForm
<1>5. Tidy(a.out) /\ \E f : Matches(f, s, Len(s), a.out)
  BY <1>1, <1>3 DEF Known
<1>6. /\ NormalForm(r) /\ Words(r) = Words(a.out)
      /\ \A p \in Words(a.out) : r[p] = a.out[p]
  BY <1>1, <1>2, <1>5, TrimmedForm
<1>7. InkAt(r) = Words(a.out)
  BY <1>4, <1>6, NormalFormInk DEF NormalForm
<1>8. PICK f : Matches(f, s, Len(s), a.out)
  BY <1>5
<1>9. Corresponds(f, s, r)
  BY <1>3, <1>6, <1>7, <1>8 DEF Matches, Corresponds
<1> QED BY <1>4, <1>6, <1>9, SameLayoutBy DEF r

-----------------------------------------------------------------------------
(* Texts that differ in their layout only.                                 *)

LEMMA SameLayoutTurns ==
    ASSUME NEW s \in Seq(Piece), NEW u \in Seq(Piece), SameLayout(s, u)
    PROVE  SameLayout(u, s)
<1>1. PICK f : Corresponds(f, s, u)
  BY SameLayoutBy
<1> DEFINE g == [j \in InkAt(u) |-> CHOOSE i \in InkAt(s) : f[i] = j]
<1>2. \A j \in InkAt(u) : g[j] \in InkAt(s) /\ f[g[j]] = j
  BY <1>1 DEF Corresponds
<1>3. \A i \in InkAt(s) : f[i] \in InkAt(u)
  BY <1>1 DEF Corresponds
<1>4. InkAt(s) \subseteq Nat /\ InkAt(u) \subseteq Nat
  BY InkPlaces
<1>5. \A i, j \in InkAt(s) : f[i] = f[j] => i = j
  <2> SUFFICES ASSUME NEW i \in InkAt(s), NEW j \in InkAt(s), f[i] = f[j], i # j PROVE FALSE
    OBVIOUS
  <2>1. i < j \/ j < i
    BY <1>4
  <2>2. f[i] < f[j] \/ f[j] < f[i]
    BY <1>1, <2>1 DEF Corresponds
  <2> QED BY <1>3, <1>4, <2>2
<1>6. g \in [InkAt(u) -> InkAt(s)]
  BY <1>2
<1> HIDE DEF g
<1>7. \A i \in InkAt(s) : \E j \in InkAt(u) : g[j] = i
  BY <1>2, <1>3, <1>5
<1>8. ASSUME NEW j \in InkAt(u), NEW k \in InkAt(u), j < k PROVE g[j] < g[k]
  <2>1. g[k] < g[j] => k < j
    BY <1>1, <1>2 DEF Corresponds
  <2>2. g[k] # g[j]
    BY <1>2, <1>4, <1>8
  <2> QED BY <1>2, <1>4, <1>8, <2>1, <2>2
<1>9. ASSUME NEW j \in InkAt(u)
      PROVE  s[g[j]] = u[j] /\ (g[j] - 1 \in InkAt(s) <=> j - 1 \in InkAt(u))
  BY <1>1, <1>2 DEF Corresponds
<1>10. Corresponds(g, u, s)
  BY <1>6, <1>7, <1>8, <1>9 DEF Corresponds
<1> QED BY <1>10, SameLayoutBy

LEMMA SameLayoutJoins ==
    ASSUME NEW s, NEW u, NEW v, SameLayout(s, u), SameLayout(u, v)
    PROVE  SameLayout(s, v)
<1>1. PICK f : Corresponds(f, s, u)
  BY SameLayoutBy
<1>2. PICK g : Corresponds(g, u, v)
  BY SameLayoutBy
<1> DEFINE h == [i \in InkAt(s) |-> g[f[i]]]
<1>3. \A i \in InkAt(s) : f[i] \in InkAt(u) /\ g[f[i]] \in InkAt(v) /\ h[i] = g[f[i]]
  BY <1>1, <1>2 DEF Corresponds
<1>4. h \in [InkAt(s) -> InkAt(v)]
  BY <1>3
<1> HIDE DEF h
<1>5. \A k \in InkAt(v) : \E i \in InkAt(s) : h[i] = k
  <2> TAKE k \in InkAt(v)
  <2>1. PICK j \in InkAt(u) : g[j] = k
    BY <1>2 DEF Corresponds
  <2>2. PICK i \in InkAt(s) : f[i] = j
    BY <1>1 DEF Corresponds
  <2> QED BY <1>3, <2>1, <2>2
<1>6. \A i, j \in InkAt(s) : i < j => h[i] < h[j]
  BY <1>1, <1>2, <1>3 DEF Corresponds
<1>7. \A i \in InkAt(s) : v[h[i]] = s[i] /\ (h[i] - 1 \in InkAt(v) <=> i - 1 \in InkAt(s))
  BY <1>1, <1>2, <1>3 DEF Corresponds
<1>8. Corresponds(h, s, v)
  BY <1>4, <1>5, <1>6, <1>7 DEF Corresponds
<1> QED BY <1>8, SameLayoutBy

\* Two normal forms that differ in their layout only have their words at the same places.
LEMMA WordsInPlace ==
    ASSUME NEW r \in Seq(Piece), NEW v \in Seq(Piece), NormalForm(r), NormalForm(v),
           NEW f, Corresponds(f, r, v)
    PROVE  \A p \in Words(r) : f[p] = p
<1> DEFINE T == {p \in Words(r) : f[p] # p}
<1>1. /\ InkAt(r) = Words(r) /\ InkAt(v) = Words(v)
      /\ Len(r) \in Nat /\ Len(v) \in Nat /\ Words(r) \subseteq Nat \ {0} /\ Words(v) \subseteq Nat \ {0}
  BY NormalFormInk DEF NormalForm, Words
<1>2. /\ f \in [Words(r) -> Words(v)]
      /\ \A q \in Words(v) : \E p \in Words(r) : f[p] = q
      /\ \A p, q \in Words(r) : p < q => f[p] < f[q]
      /\ \A p \in Words(r) : f[p] - 1 \in Words(v) <=> p - 1 \in Words(r)
  BY <1>1 DEF Corresponds
<1>3. \A p, q \in Words(r) : f[p] < f[q] => p < q
  <2> SUFFICES ASSUME NEW p \in Words(r), NEW q \in Words(r), f[p] < f[q], ~(p < q) PROVE FALSE
    OBVIOUS
  <2>1. f[p] \in Nat /\ f[q] \in Nat /\ (p = q \/ q < p)
    BY <1>1, <1>2
  <2>2. f[q] < f[p] \/ f[q] = f[p]
    BY <1>2, <2>1
  <2> QED BY <2>1, <2>2
<1>4. ASSUME NEW w \in Seq(Piece), NormalForm(w), NEW p \in Words(w), p - 1 \notin Words(w)
      PROVE  p = 1 \/ (p > 2 /\ p - 2 \in Words(w))
  <2>1. p \in 1 .. Len(w) /\ Len(w) \in Nat
    BY DEF Words
  <2>2. p # 1 => p - 1 \in DOMAIN w /\ w[p - 1] = "sp"
    BY <1>4, <2>1 DEF Words
  <2>3. p # 2
    <3> SUFFICES ASSUME p = 2 PROVE FALSE
      OBVIOUS
    <3>1. w[1] = "sp" /\ w # <<>>
      BY <2>1, <2>2
    <3> QED BY <1>4, <3>1 DEF NormalForm, Tidy
  <2>4. p > 2 => p - 2 \in 1 .. Len(w) - 1 /\ (p - 2) + 1 = p - 1
    BY <2>1
  <2>5. p > 2 => w[p - 2] # "sp"
    BY <1>4, <2>2, <2>4 DEF NormalForm, Tidy
  <2>6. p > 2 => p - 2 \in DOMAIN w
    BY <2>1
  <2> QED BY <2>1, <2>3, <2>5, <2>6 DEF Words
<1> SUFFICES ASSUME T # {} PROVE FALSE
  OBVIOUS
<1>5. PICK p \in T : \A q \in T : p <= q
  BY <1>1, LeastNat
<1>6. p \in Words(r) /\ f[p] # p /\ f[p] \in Words(v) /\ p \in Nat /\ p > 0 /\ f[p] \in Nat /\ f[p] > 0
  BY <1>1, <1>2
<1>7. \A q \in Words(r) : q < p => f[q] = q
  BY <1>1, <1>5, <1>6
<1>8. \A q \in Words(v) : q < f[p] => q \in Words(r) /\ q < p /\ f[q] = q
  <2> SUFFICES ASSUME NEW q \in Words(v), q < f[p] PROVE q \in Words(r) /\ q < p /\ f[q] = q
    OBVIOUS
  <2>1. PICK k \in Words(r) : f[k] = q
    BY <1>2
  <2>2. k < p
    BY <1>3, <1>6, <2>1
  <2> QED BY <1>7, <2>1, <2>2
<1>9. \A q \in Words(r) : q < p => q \in Words(v) /\ q < f[p]
  BY <1>2, <1>6, <1>7
<1> HIDE DEF T
<1>10. CASE p - 1 \in Words(r)
  <2>1. f[p] - 1 \in Words(v) /\ p - 1 < f[p]
    BY <1>2, <1>6, <1>9, <1>10
  <2>2. f[p] - 1 < p
    BY <1>6, <1>8, <2>1
  <2> QED BY <1>6, <2>1, <2>2
<1>11. CASE p - 1 \notin Words(r)
  <2>1. f[p] - 1 \notin Words(v)
    BY <1>2, <1>6, <1>11
  <2>2. p = 1 \/ (p > 2 /\ p - 2 \in Words(r))
    BY <1>4, <1>6, <1>11
  <2>3. f[p] = 1 \/ (f[p] > 2 /\ f[p] - 2 \in Words(v))
    BY <1>4, <1>6, <2>1
  <2>4. f[p] > 2 => f[p] - 2 < p /\ f[p] - 2 \in Words(r)
    BY <1>6, <1>8, <2>3
  <2>5. p > 2 => p - 2 < f[p] /\ p - 2 \in Words(v)
    BY <1>6, <1>9, <2>2
  <2>6. f[p] - 2 # p - 1 /\ p - 2 # f[p] - 1
    BY <1>11, <2>1, <2>2, <2>3, <2>4, <2>5, <1>6
  <2> QED BY <1>6, <2>2, <2>3, <2>4, <2>5, <2>6
<1> QED BY <1>10, <1>11

\* They are the same text.
LEMMA OneNormalForm ==
    ASSUME NEW r \in Seq(Piece), NEW v \in Seq(Piece), NormalForm(r), NormalForm(v),
           SameLayout(r, v)
    PROVE  r = v
<1>1. PICK f : Corresponds(f, r, v)
  BY SameLayoutBy
<1>2. InkAt(r) = Words(r) /\ InkAt(v) = Words(v)
  BY NormalFormInk DEF NormalForm
<1>3. \A p \in Words(r) : f[p] = p
  BY <1>1, WordsInPlace
<1>4. Words(r) = Words(v) /\ \A p \in Words(r) : v[p] = r[p]
  <2>1. /\ \A p \in Words(r) : f[p] \in Words(v) /\ v[f[p]] = r[p]
        /\ \A q \in Words(v) : \E p \in Words(r) : f[p] = q
    BY <1>1, <1>2 DEF Corresponds
  <2>2. \A p \in Words(r) : p \in Words(v) /\ v[p] = r[p]
    <3> TAKE p \in Words(r)
    <3> QED BY <1>3, <2>1
  <2>3. \A q \in Words(v) : q \in Words(r)
    <3> TAKE q \in Words(v)
    <3>1. PICK p \in Words(r) : f[p] = q
      BY <2>1
    <3> QED BY <1>3, <3>1
  <2> QED BY <2>2, <2>3
<1>5. /\ Len(r) \in Nat /\ DOMAIN r = 1 .. Len(r) /\ (r = <<>> <=> Len(r) = 0)
      /\ Len(v) \in Nat /\ DOMAIN v = 1 .. Len(v) /\ (v = <<>> <=> Len(v) = 0)
  OBVIOUS
<1>6. (Len(r) # 0 => Len(r) \in Words(r)) /\ (Len(v) # 0 => Len(v) \in Words(v))
  BY <1>5 DEF NormalForm, Words
<1>7. Words(r) \subseteq 1 .. Len(r) /\ Words(v) \subseteq 1 .. Len(v)
  BY <1>5 DEF Words
<1>8. Len(r) = Len(v)
  <2>1. Len(r) # 0 => Len(r) <= Len(v)
    BY <1>4, <1>5, <1>6, <1>7
  <2>2. Len(v) # 0 => Len(v) <= Len(r)
    BY <1>4, <1>5, <1>6, <1>7
  <2>3. Len(r) \in Nat /\ Len(v) \in Nat
    OBVIOUS
  <2>4. ASSUME NEW m \in Nat, NEW n \in Nat, m # 0 => m <= n, n # 0 => n <= m PROVE m = n
    BY <2>4
  <2> QED BY <2>1, <2>2, <2>3, <2>4
<1>9. ASSUME NEW p \in 1 .. Len(r) PROVE r[p] = v[p]
  <2>1. CASE p \in Words(r)
    BY <1>4, <2>1
  <2>2. CASE p \notin Words(r)
    BY <1>4, <1>5, <1>8, <2>2 DEF Words
  <2> QED BY <2>1, <2>2
<1> QED BY <1>5, <1>8, <1>9

\* Two plain texts, of any length and however they end, normalise to the same exactly when
\* they differ in their layout only: line comments, line ends, and how blank a blank is
\* (normalize, emit.rs:212).
THEOREM NormalizeRight ==
    ASSUME NEW s \in Seq(Token), NEW u \in Seq(Token), IsPlain(s), IsPlain(u)
    PROVE  Normal(s) = Normal(u) <=> SameLayout(s, u)
<1>1. /\ Normal(s) \in Seq(Piece) /\ NormalForm(Normal(s)) /\ SameLayout(s, Normal(s))
      /\ Normal(u) \in Seq(Piece) /\ NormalForm(Normal(u)) /\ SameLayout(u, Normal(u))
      /\ s \in Seq(Piece) /\ u \in Seq(Piece)
  BY NormalSame, TokensArePieces
<1>2. ASSUME Normal(s) = Normal(u) PROVE SameLayout(s, u)
  BY <1>1, <1>2, SameLayoutTurns, SameLayoutJoins
<1>3. ASSUME SameLayout(s, u) PROVE Normal(s) = Normal(u)
  <2>1. SameLayout(Normal(s), Normal(u))
    BY <1>1, <1>3, SameLayoutTurns, SameLayoutJoins
  <2> QED BY <1>1, <2>1, OneNormalForm
<1> QED BY <1>2, <1>3

-----------------------------------------------------------------------------
(* Bytes.                                                                  *)

Units == [owner : Type, text : Text]

LEMMA TextsAreTexts == \A t \in Text : Texts[t] \in Seq(Token) /\ t \in Nat
BY EmitAssumption DEF Text

LEMMA ByteLenNat == ASSUME NEW s \in Seq(Token) PROVE ByteLen(s) \in Nat
<1> DEFINE longer == {i \in DOMAIN s : s[i] \notin {"x", "y", "punct", "sp", "nl"}}
<1>1. Len(s) \in Nat /\ DOMAIN s = 1 .. Len(s) /\ longer \subseteq 1 .. Len(s)
  OBVIOUS
<1>2. IsFiniteSet(1 .. Len(s))
  BY <1>1, FS_Interval
<1>3. IsFiniteSet(longer)
  <2> HIDE DEF longer
  <2> QED BY <1>1, <1>2, FS_Subset
<1>4. Cardinality(longer) \in Nat
  BY <1>3, FS_CardinalityType
<1> QED BY <1>1, <1>4 DEF ByteLen

\* The bytes of the element k of es.
BytesAt(es, k) == {k} \X (1 .. ByteLen(Texts[es[k].text]))

LEMMA BytesFinite ==
    ASSUME NEW S, NEW es \in Seq(S), \A k \in DOMAIN es : es[k].text \in Text
    PROVE  /\ IsFiniteSet(BytesIn(es)) /\ OutputOf(es) \in Nat
           /\ \A k \in DOMAIN es : ByteLen(Texts[es[k].text]) \in Nat
<1> DEFINE B == {BytesAt(es, k) : k \in DOMAIN es}
           f == [k \in DOMAIN es |-> BytesAt(es, k)]
<1>1. DOMAIN es = 1 .. Len(es) /\ Len(es) \in Nat
  OBVIOUS
<1>2. IsFiniteSet(DOMAIN es)
  BY <1>1, FS_Interval
<1>3. f \in Surjection(DOMAIN es, B)
  BY DEF Surjection
<1>4. IsFiniteSet(B)
  <2> HIDE DEF f, B
  <2> QED BY <1>2, <1>3, FS_Surjection
<1>5. \A k \in DOMAIN es : ByteLen(Texts[es[k].text]) \in Nat
  BY TextsAreTexts, ByteLenNat
<1>6. ASSUME NEW k \in DOMAIN es PROVE IsFiniteSet(BytesAt(es, k))
  <2> DEFINE n == ByteLen(Texts[es[k].text])
  <2>1. n \in Nat
    BY <1>5
  <2> HIDE DEF n
  <2>2. IsFiniteSet(1 .. n) /\ IsFiniteSet({k})
    <3>1. 1 \in Int /\ n \in Int
      BY <2>1
    <3>2. IsFiniteSet(1 .. n)
      BY <3>1, FS_Interval
    <3>3. IsFiniteSet({k})
      BY FS_Singleton
    <3> QED BY <3>2, <3>3
  <2>3. IsFiniteSet({k} \X (1 .. n))
    BY <2>2, FS_Product
  <2> QED BY <2>3 DEF BytesAt, n
<1>7. IsFiniteSet(UNION B)
  <2>1. \A X \in B : IsFiniteSet(X)
    BY <1>6
  <2> HIDE DEF B
  <2> QED BY <1>4, <2>1, FS_UNION
<1>8. BytesIn(es) = UNION B
  BY DEF BytesIn, BytesAt
<1> HIDE DEF B
<1>9. IsFiniteSet(BytesIn(es))
  BY <1>7, <1>8
<1> QED BY <1>5, <1>9, FS_CardinalityType DEF OutputOf

LEMMA BytesMembers ==
    ASSUME NEW es, NEW x
    PROVE  x \in BytesIn(es) <=>
              /\ x = <<x[1], x[2]>> /\ x[1] \in DOMAIN es
              /\ x[2] \in 1 .. ByteLen(Texts[es[x[1]].text])
BY DEF BytesIn

\* Units whose texts come from different emissions add at most the bytes of those.
LEMMA BytesAdded ==
    ASSUME NEW gen \in Seq(Units), NEW units \in Seq(Units), NEW S, NEW out \in Seq(S),
           \A k \in DOMAIN out : out[k].text \in Text,
           NEW h \in [DOMAIN units -> DOMAIN out], IsInjective(h),
           \A k \in DOMAIN units : units[k].text = out[h[k]].text
    PROVE  OutputOf(gen \o units) <= OutputOf(gen) + OutputOf(out)
<1> DEFINE m == Len(gen)
           all == gen \o units
           old == BytesIn(gen)
           new == BytesIn(all) \ old
           f == [x \in new |-> <<h[x[1] - m], x[2]>>]
<1>1. /\ m \in Nat /\ DOMAIN gen = 1 .. m /\ Len(units) \in Nat /\ DOMAIN units = 1 .. Len(units)
      /\ all \in Seq(Units) /\ DOMAIN all = 1 .. m + Len(units)
      /\ \A k \in 1 .. m : all[k] = gen[k]
      /\ \A k \in DOMAIN all : k \notin 1 .. m =>
            k - m \in DOMAIN units /\ all[k] = units[k - m]
  OBVIOUS
<1> HIDE DEF all, m
<1>2. /\ \A k \in DOMAIN gen : gen[k].text \in Text
      /\ \A k \in DOMAIN units : units[k].text \in Text
      /\ \A k \in DOMAIN all : all[k].text \in Text
  <2>1. ASSUME NEW es \in Seq(Units) PROVE \A k \in DOMAIN es : es[k].text \in Text
    <3>1. \A k \in DOMAIN es : es[k] \in Units
      OBVIOUS
    <3> QED BY <3>1 DEF Units
  <2> QED BY <1>1, <2>1
<1>3. /\ IsFiniteSet(old) /\ IsFiniteSet(BytesIn(all)) /\ IsFiniteSet(BytesIn(out))
      /\ OutputOf(gen) \in Nat /\ OutputOf(out) \in Nat
  BY <1>1, <1>2, BytesFinite
<1>4. ASSUME NEW x \in new
      PROVE  /\ x = <<x[1], x[2]>> /\ x[1] \in DOMAIN all
             /\ x[1] - m \in DOMAIN units
             /\ <<h[x[1] - m], x[2]>> \in BytesIn(out)
  <2>1. /\ x = <<x[1], x[2]>> /\ x[1] \in DOMAIN all
        /\ x[2] \in 1 .. ByteLen(Texts[all[x[1]].text])
    BY BytesMembers
  <2>2. x[1] \notin 1 .. m
    <3> SUFFICES ASSUME x[1] \in 1 .. m PROVE FALSE
      OBVIOUS
    <3>1. x \in old
      BY <1>1, <2>1, BytesMembers
    <3> QED BY <3>1
  <2>3. x[1] - m \in DOMAIN units /\ all[x[1]] = units[x[1] - m]
    BY <1>1, <2>1, <2>2
  <2>4. h[x[1] - m] \in DOMAIN out /\ all[x[1]].text = out[h[x[1] - m]].text
    BY <2>3
  <2>5. <<h[x[1] - m], x[2]>> \in BytesIn(out)
    BY <2>1, <2>4, BytesMembers
  <2> QED BY <2>1, <2>3, <2>5
<1>5. f \in Injection(new, BytesIn(out))
  <2>1. f \in [new -> BytesIn(out)]
    <3> HIDE DEF new
    <3> QED BY <1>4
  <2>2. ASSUME NEW x \in new, NEW y \in new, f[x] = f[y] PROVE x = y
    <3>1. h[x[1] - m] = h[y[1] - m] /\ x[2] = y[2]
      <4> HIDE DEF new
      <4> QED BY <2>2
    <3>2. x[1] - m \in DOMAIN units /\ y[1] - m \in DOMAIN units
      BY <1>4
    <3>3. x[1] - m = y[1] - m
      BY <3>1, <3>2 DEF IsInjective
    <3>4. x[1] \in Int /\ y[1] \in Int
      <4>1. x[1] \in DOMAIN all /\ y[1] \in DOMAIN all
        BY <1>4
      <4>2. DOMAIN all \subseteq Int
        BY <1>1
      <4> QED BY <4>1, <4>2
    <3>5. x[1] = y[1]
      BY <1>1, <3>3, <3>4
    <3> QED BY <1>4, <3>1, <3>5
  <2> HIDE DEF new, f
  <2>3. IsInjective(f)
    BY <2>1, <2>2 DEF IsInjective
  <2> QED BY <2>1, <2>3 DEF Injection
<1>6. IsFiniteSet(new) /\ Cardinality(new) <= OutputOf(out)
  <2> HIDE DEF new, f
  <2> QED BY <1>3, <1>5, FS_Injection DEF OutputOf
<1>7. BytesIn(all) \subseteq old \cup new
  OBVIOUS
<1> HIDE DEF new, old
<1>8. /\ IsFiniteSet(old \cup new)
      /\ Cardinality(old \cup new) = Cardinality(old) + Cardinality(new) - Cardinality(old \cap new)
  BY <1>3, <1>6, FS_Union
<1>9. Cardinality(BytesIn(all)) <= Cardinality(old \cup new)
  BY <1>7, <1>8, FS_Subset
<1>10. IsFiniteSet(old \cap new)
  BY <1>3, FS_Intersection
<1>11. /\ Cardinality(old \cap new) \in Nat /\ Cardinality(old) \in Nat
       /\ Cardinality(new) \in Nat /\ Cardinality(BytesIn(all)) \in Nat
  BY <1>3, <1>6, <1>10, FS_CardinalityType
<1> QED BY <1>3, <1>6, <1>8, <1>9, <1>11 DEF OutputOf, all, old

-----------------------------------------------------------------------------
(* The loop.                                                               *)

Calls == [id : 1 .. Cardinality(SimpleNames), text : Text]

LoopOK ==
    /\ pc \in {"lower", "run", "done"} /\ (pc # "done" => outcome = "none")
    /\ structOf \in StructIds /\ jobs \in SUBSET Type
    /\ sink \in Seq(Calls)
    /\ generated \in Seq(Units) /\ emitted \subseteq Units
    /\ rounds \in 0 .. MaxRounds /\ bytes \in Nat

\* The sink holds what generators of this round emitted, under this round's ids.
SinkOK ==
    /\ pc # "run" => sink = <<>>
    /\ \A k \in DOMAIN sink : \E o \in jobs :
          structOf[Simple[o]] = sink[k].id /\ [owner |-> o, text |-> sink[k].text] \in emitted

\* The loop goes on, or converged.
Going == pc \in {"lower", "run"} \/ outcome = "fixpoint"

\* Every key that was seen has one unit, and every emission of a type with a name of its own
\* a key or a place in the sink.
KeysOK ==
    /\ \A i, j \in DOMAIN generated : Key(generated[i]) = Key(generated[j]) => i = j
    /\ \A i \in DOMAIN generated : Key(generated[i]) \in seen
    /\ Going => \A key \in seen : \E i \in DOMAIN generated : Key(generated[i]) = key
    /\ Going => \A e \in emitted : HasOwnName(e.owner) =>
                   Key(e) \in seen \/ \E k \in DOMAIN sink : Unit(sink[k]) = e

\* What a type with a name of its own got, its generators emitted.
HomeOK == \A i \in DOMAIN generated : HasOwnName(generated[i].owner) => generated[i] \in emitted

BytesOK == OutputOf(generated) <= bytes /\ OutputOf(generated) <= MaxBytes

EmitInv == LoopOK /\ SinkOK /\ KeysOK /\ HomeOK /\ BytesOK

\* Numbers up to a limit have a greatest.
LEMMA GreatestOf ==
    ASSUME NEW c \in Nat, NEW T \in SUBSET (1 .. c), T # {}
    PROVE  \E n \in T : \A m \in T : m <= n
<1> DEFINE U == {c - m : m \in T}
<1>1. U \in SUBSET Nat /\ U # {}
  <2>1. \A m \in T : m \in Nat /\ m <= c /\ c - m \in Nat
    OBVIOUS
  <2>2. PICK m \in T : TRUE
    OBVIOUS
  <2>3. c - m \in U
    OBVIOUS
  <2> QED BY <2>1, <2>3
<1>2. PICK k \in U : \A j \in U : k <= j
  <2> HIDE DEF U
  <2> QED BY <1>1, LeastNat
<1>3. PICK n \in T : k = c - n
  BY <1>2
<1>4. ASSUME NEW m \in T PROVE m <= n
  <2>1. c - n <= c - m
    BY <1>2, <1>3
  <2>2. m \in Int /\ n \in Int
    OBVIOUS
  <2> QED BY <2>1, <2>2
<1> QED BY <1>4

\* owner_id_to_qual finds a type of the simple name the generator's type has, and the type
\* itself when no other has the name.
LEMMA UnitKnown ==
    ASSUME LoopOK, NEW e, NEW o \in jobs, structOf[Simple[o]] = e.id
    PROVE  /\ Unit(e).text = e.text /\ Unit(e).owner \in jobs
           /\ Unit(e) = [owner |-> Unit(e).owner, text |-> e.text]
           /\ Simple[Unit(e).owner] = Simple[o]
           /\ HasOwnName(o) => Unit(e) = [owner |-> o, text |-> e.text]
<1> DEFINE T == {p \in jobs : Simple[p] = Simple[o]}
<1>1. jobs \subseteq Type /\ Cardinality(Type) \in Nat /\ Type = 1 .. Cardinality(Type)
  BY EmitAssumption, FS_CardinalityType DEF LoopOK
<1>2. \A p \in Type : Simple[p] \in SimpleNames
  BY DEF SimpleNames
<1>3. \A p \in jobs : structOf[Simple[p]] = e.id => Simple[p] = Simple[o]
  BY <1>1, <1>2 DEF LoopOK, StructIds, IsInjective
<1>4. PICK n \in T : \A m \in T : m <= n
  <2>1. T \in SUBSET (1 .. Cardinality(Type)) /\ T # {}
    BY <1>1
  <2> HIDE DEF T
  <2> QED BY <1>1, <2>1, GreatestOf
<1>5. OwnerOf(e.id) \in jobs /\ structOf[Simple[OwnerOf(e.id)]] = e.id
  <2>1. structOf[Simple[n]] = e.id /\ \A p \in jobs : Simple[p] = Simple[n] => p <= n
    BY <1>4
  <2> QED BY <2>1 DEF OwnerOf
<1>6. Simple[OwnerOf(e.id)] = Simple[o]
  BY <1>3, <1>5
<1>7. HasOwnName(o) => OwnerOf(e.id) = o
  BY <1>1, <1>5, <1>6 DEF HasOwnName
<1> QED BY <1>5, <1>6, <1>7 DEF Unit

LEMMA SinkUnits ==
    ASSUME LoopOK, SinkOK, NEW k \in DOMAIN sink
    PROVE  /\ Unit(sink[k]) \in Units /\ Unit(sink[k]).text = sink[k].text /\ sink[k].text \in Text
           /\ HasOwnName(Unit(sink[k]).owner) => Unit(sink[k]) \in emitted
<1>1. PICK o \in jobs :
         structOf[Simple[o]] = sink[k].id /\ [owner |-> o, text |-> sink[k].text] \in emitted
  BY DEF SinkOK
<1>2. /\ Unit(sink[k]).text = sink[k].text /\ Unit(sink[k]).owner \in jobs
      /\ Unit(sink[k]) = [owner |-> Unit(sink[k]).owner, text |-> sink[k].text]
      /\ Simple[Unit(sink[k]).owner] = Simple[o]
      /\ HasOwnName(o) => Unit(sink[k]) = [owner |-> o, text |-> sink[k].text]
  BY <1>1, UnitKnown
<1>3. sink[k] \in Calls
  <2>1. sink \in Seq(Calls)
    BY DEF LoopOK
  <2>2. ASSUME NEW S, sink \in Seq(S) PROVE sink[k] \in S
    BY <2>2
  <2> QED BY <2>1, <2>2
<1>4. sink[k].text \in Text /\ jobs \subseteq Type
  BY <1>3 DEF Calls, LoopOK
<1>5. Unit(sink[k]) \in Units
  BY <1>2, <1>4 DEF Units
<1>6. HasOwnName(Unit(sink[k]).owner) => Unit(sink[k]).owner = o
  BY <1>2, <1>4 DEF HasOwnName
<1> QED BY <1>1, <1>2, <1>4, <1>5, <1>6

\* What a round splices: every new key once.
LEMMA NewUnitsRight ==
    ASSUME LoopOK, SinkOK, NEW units \in Listings(NewUnits(sink))
    PROVE  /\ units \in Seq(Units)
           /\ \A i, j \in DOMAIN units : Key(units[i]) = Key(units[j]) => i = j
           /\ \A i \in DOMAIN units : /\ Key(units[i]) \notin seen
                                      /\ \E k \in DOMAIN sink : Key(units[i]) = Key(Unit(sink[k]))
           /\ \A k \in DOMAIN sink : \/ Key(Unit(sink[k])) \in seen
                                     \/ \E i \in DOMAIN units : Key(units[i]) = Key(Unit(sink[k]))
           /\ \E h \in [DOMAIN units -> DOMAIN sink] :
                 IsInjective(h) /\ \A i \in DOMAIN units : units[i].text = sink[h[i]].text
           /\ \A i \in DOMAIN units : \E k \in DOMAIN sink : units[i] = Unit(sink[k])
<1> DEFINE D == DOMAIN sink
           U(k) == Unit(sink[k])
           F == {k \in D : /\ Key(U(k)) \notin seen
                           /\ \A j \in 1 .. k - 1 : Key(U(j)) # Key(U(k))}
           N == NewUnits(sink)
           c == Cardinality(N)
           g == [k \in F |-> U(k)]
<1>1. D = 1 .. Len(sink) /\ Len(sink) \in Nat
  <2>1. sink \in Seq(Calls)
    BY DEF LoopOK
  <2> QED BY <2>1
<1>2. N = {U(k) : k \in F}
  BY DEF NewUnits
<1>3. IsFiniteSet(N) /\ c \in Nat
  <2>1. IsFiniteSet(D)
    BY <1>1, FS_Interval
  <2>2. F \subseteq D
    OBVIOUS
  <2>3. IsFiniteSet(F)
    <3> HIDE DEF F, D
    <3> QED BY <2>1, <2>2, FS_Subset
  <2>4. g \in Surjection(F, N)
    <3> HIDE DEF F, U, N
    <3> QED BY <1>2 DEF Surjection
  <2> HIDE DEF F, g, N
  <2> QED BY <2>3, <2>4, FS_Surjection, FS_CardinalityType
<1>4. /\ units \in [1 .. c -> N] /\ DOMAIN units = 1 .. c
      /\ \A i, j \in 1 .. c : i < j => Before(units[i], units[j])
  BY DEF Listings
<1>5. N \subseteq Units /\ F \subseteq D
  BY <1>2, SinkUnits
<1>6. units \in Seq(Units)
  <2> HIDE DEF N, c
  <2>1. units \in [1 .. c -> Units]
    BY <1>4, <1>5
  <2> QED BY <1>3, <2>1
<1>7. \A v \in Units : ~Before(v, v)
  <2> TAKE v \in Units
  <2>1. v.owner \in Int /\ v.text \in Nat
    <3>1. Type \subseteq Int
      BY EmitAssumption, FS_CardinalityType
    <3> QED BY <3>1, TextsAreTexts DEF Units
  <2> QED BY <2>1 DEF Before
<1> HIDE DEF F, N, c, U, D
<1>8. \A i, j \in 1 .. c : units[i] = units[j] => i = j
  <2> SUFFICES ASSUME NEW i \in 1 .. c, NEW j \in 1 .. c, units[i] = units[j], i # j
               PROVE  FALSE
    OBVIOUS
  <2>1. Before(units[i], units[j]) \/ Before(units[j], units[i])
    BY <1>3, <1>4
  <2>2. units[i] \in Units
    BY <1>4, <1>5
  <2> QED BY <1>7, <2>1, <2>2
<1>9. \A v \in N : \E i \in 1 .. c : units[i] = v
  <2>1. units \in Injection(1 .. c, N)
    BY <1>4, <1>8 DEF Injection, IsInjective
  <2>2. Cardinality(1 .. c) = c
    <3>1. 1 \in Int /\ c \in Int
      BY <1>3
    <3>2. Cardinality(1 .. c) = IF 1 > c THEN 0 ELSE c - 1 + 1
      BY <3>1, FS_Interval
    <3> QED BY <1>3, <3>2
  <2>3. units \in Surjection(1 .. c, N)
    BY <1>3, <2>1, <2>2, FS_Injection DEF c
  <2> QED BY <2>3 DEF Surjection
<1> DEFINE h == [i \in 1 .. c |-> CHOOSE k \in F : U(k) = units[i]]
<1>10. \A i \in 1 .. c : h[i] \in F /\ U(h[i]) = units[i]
  <2> TAKE i \in 1 .. c
  <2>1. \E k \in F : U(k) = units[i]
    BY <1>2, <1>4
  <2> QED BY <2>1
<1>11. h \in [1 .. c -> D]
  BY <1>5, <1>10
<1> HIDE DEF h
<1>12. \A i, j \in 1 .. c : h[i] = h[j] => i = j
  BY <1>8, <1>10
<1>13. \A k \in F : /\ k \in D /\ Key(U(k)) \notin seen
                    /\ \A j \in 1 .. k - 1 : Key(U(j)) # Key(U(k))
  BY DEF F
<1>14. \A j, k \in F : Key(U(j)) = Key(U(k)) => j = k
  <2> SUFFICES ASSUME NEW j \in F, NEW k \in F, Key(U(j)) = Key(U(k)), j # k PROVE FALSE
    OBVIOUS
  <2>1. j \in 1 .. Len(sink) /\ k \in 1 .. Len(sink)
    BY <1>1, <1>13
  <2>2. j \in 1 .. k - 1 \/ k \in 1 .. j - 1
    BY <1>1, <2>1
  <2> QED BY <1>13, <2>2
<1>15. \A i, j \in 1 .. c : Key(units[i]) = Key(units[j]) => i = j
  BY <1>10, <1>12, <1>14
<1>16. \A i \in 1 .. c : /\ Key(units[i]) \notin seen
                         /\ \E k \in D : Key(units[i]) = Key(U(k))
  BY <1>10, <1>13
<1>17. ASSUME NEW k \in D, Key(U(k)) \notin seen
       PROVE  \E i \in 1 .. c : Key(units[i]) = Key(U(k))
  <2> DEFINE T == {j \in D : Key(U(j)) = Key(U(k))}
  <2>1. T \in SUBSET Nat /\ T # {}
    BY <1>1, <1>17
  <2>2. PICK m \in T : \A j \in T : m <= j
    BY <2>1, LeastNat
  <2>3. \A j \in 1 .. m - 1 : j \in D /\ j \notin T
    BY <1>1, <2>2
  <2>4. m \in F
    BY <1>17, <2>2, <2>3 DEF F
  <2>5. U(m) \in N
    BY <1>2, <2>4
  <2> QED BY <1>9, <2>2, <2>5
<1>18. IsInjective(h)
  BY <1>11, <1>12 DEF IsInjective
<1>19. \A i \in 1 .. c : units[i].text = sink[h[i]].text
  <2> TAKE i \in 1 .. c
  <2>1. h[i] \in DOMAIN sink
    BY <1>11 DEF D
  <2>2. Unit(sink[h[i]]).text = sink[h[i]].text
    BY <2>1, SinkUnits
  <2> QED BY <1>10, <2>2 DEF U
<1>20. \A i \in 1 .. c : \E k \in D : units[i] = U(k)
  BY <1>10, <1>13
<1> QED BY <1>4, <1>6, <1>11, <1>15, <1>16, <1>17, <1>18, <1>19, <1>20 DEF D, U

LEMMA InitEmitInv == Init => EmitInv
<1> SUFFICES ASSUME Init PROVE EmitInv
  OBVIOUS
<1>1. LoopOK
  BY EmitAssumption DEF Init, LoopOK
<1>2. SinkOK
  BY DEF Init, SinkOK
<1>3. KeysOK
  BY DEF Init, KeysOK
<1>5. HomeOK
  BY DEF Init, HomeOK
<1>4. BytesOK
  <2>1. BytesIn(generated) = {}
    BY DEF Init, BytesIn
  <2>2. OutputOf(generated) = 0
    BY <2>1, FS_EmptySet DEF OutputOf
  <2> QED BY <2>2, EmitAssumption DEF Init, BytesOK
<1> QED BY <1>1, <1>2, <1>3, <1>4, <1>5 DEF EmitInv

\* The end of a run that splices nothing more.
LEMMA EndKeeps ==
    ASSUME EmitInv, NEW how, how # "fixpoint", End(how), sink' = <<>>,
           UNCHANGED <<structOf, jobs, generated, emitted, rounds>>,
           bytes' \in Nat, bytes' >= bytes, seen \subseteq seen'
    PROVE  EmitInv'
<1> USE DEF EmitInv
<1>1. pc' = "done" /\ outcome' # "fixpoint"
  BY DEF End
<1>2. LoopOK'
  BY <1>1 DEF LoopOK, StructIds
<1>3. SinkOK'
  BY <1>1 DEF SinkOK
<1>4. KeysOK'
  BY <1>1 DEF KeysOK, Key, Going, Normalize
<1>5. BytesOK'
  <2>1. \A k \in DOMAIN generated : generated[k].text \in Text
    <3>1. \A k \in DOMAIN generated : generated[k] \in Units
      BY DEF LoopOK
    <3> QED BY <3>1 DEF Units
  <2>2. OutputOf(generated) \in Nat
    BY <2>1, BytesFinite DEF LoopOK
  <2>3. OutputOf(generated') = OutputOf(generated)
    OBVIOUS
  <2> QED BY <2>2, <2>3, EmitAssumption DEF BytesOK, LoopOK
<1>6. HomeOK'
  BY DEF HomeOK
<1> QED BY <1>2, <1>3, <1>4, <1>5, <1>6

\* Lowering starts a round with an empty sink and new ids, or ends the run.
LEMMA LowerKeeps == ASSUME EmitInv, Lower PROVE EmitInv'
<1> USE DEF EmitInv
<1>1. sink = <<>> /\ outcome = "none" /\ pc = "lower" /\ sink' = <<>>
  BY DEF Lower, End, SinkOK, LoopOK
<1>2. CASE \E how \in {"settled", "round cap"} : End(how) /\ UNCHANGED rounds
  <2>1. structOf' \in StructIds /\ jobs' \in SUBSET Type /\ pc' = "done" /\ outcome' # "fixpoint"
    BY <1>2 DEF Lower, End
  <2>2. UNCHANGED <<generated, seen, bytes, emitted, rounds>>
    BY <1>2 DEF Lower
  <2>3. LoopOK'
    BY <1>1, <2>1, <2>2 DEF LoopOK, StructIds
  <2>4. SinkOK' /\ BytesOK' /\ HomeOK'
    BY <1>1, <2>2 DEF SinkOK, BytesOK, HomeOK
  <2>5. KeysOK'
    BY <2>1, <2>2 DEF KeysOK, Going
  <2> QED BY <2>3, <2>4, <2>5
<1>3. CASE pc' = "run" /\ outcome' = outcome /\ rounds < MaxRounds /\ rounds' = rounds + 1
  <2>1. structOf' \in StructIds /\ jobs' \in SUBSET Type
    BY DEF Lower
  <2>2. UNCHANGED <<generated, seen, bytes, emitted>>
    BY DEF Lower
  <2>3. LoopOK'
    <3>1. rounds' \in 0 .. MaxRounds
      BY <1>3, EmitAssumption DEF LoopOK
    <3> QED BY <1>1, <1>3, <2>1, <2>2, <3>1 DEF LoopOK, StructIds
  <2>4. SinkOK' /\ BytesOK' /\ HomeOK'
    BY <1>1, <2>2 DEF SinkOK, BytesOK, HomeOK
  <2>5. KeysOK'
    <3>1. Going /\ \A e \in emitted : HasOwnName(e.owner) => Key(e) \in seen
      BY <1>1 DEF KeysOK, Going
    <3> QED BY <2>2, <3>1 DEF KeysOK
  <2> QED BY <2>3, <2>4, <2>5
<1>4. ~(rounds >= MaxRounds) => rounds < MaxRounds
  BY EmitAssumption DEF LoopOK
<1> QED BY <1>2, <1>3, <1>4 DEF Lower

\* An emission is in the sink under its type's id.
LEMMA EmitKeeps ==
    ASSUME EmitInv, NEW o \in Type, NEW t \in Text, Emit(o, t)
    PROVE  EmitInv'
<1> USE DEF EmitInv
<1> DEFINE new == [id |-> structOf[Simple[o]], text |-> t]
           e == [owner |-> o, text |-> t]
<1>1. /\ pc = "run" /\ o \in jobs /\ sink' = Append(sink, new) /\ emitted' = emitted \cup {e}
      /\ UNCHANGED <<pc, structOf, jobs, generated, seen, rounds, bytes, outcome>>
  BY DEF Emit
<1>2. new \in Calls /\ e \in Units
  BY DEF LoopOK, StructIds, SimpleNames, Units, Calls
<1>3. HasOwnName(o) => Unit(new) = e
  BY <1>1, UnitKnown
<1> DEFINE n == Len(sink)
<1>4. /\ n \in Nat /\ DOMAIN sink = 1 .. n /\ DOMAIN sink' = 1 .. n + 1
      /\ \A k \in 1 .. n : sink'[k] = sink[k]
      /\ sink'[n + 1] = new /\ sink' \in Seq(Calls)
  <2>1. sink \in Seq(Calls)
    BY DEF LoopOK
  <2> HIDE DEF new
  <2> QED BY <1>1, <1>2, <2>1
<1> HIDE DEF n
<1>5. LoopOK'
  <2>1. emitted' \subseteq Units
    BY <1>1, <1>2 DEF LoopOK
  <2> QED BY <1>1, <1>4, <2>1 DEF LoopOK, StructIds
<1>6. SinkOK'
  <2>1. ASSUME NEW k \in DOMAIN sink'
        PROVE  \E p \in jobs' : /\ structOf'[Simple[p]] = sink'[k].id
                                /\ [owner |-> p, text |-> sink'[k].text] \in emitted'
    <3>1. CASE k = n + 1
      BY <1>1, <1>4, <3>1
    <3>2. CASE k \in DOMAIN sink
      BY <1>1, <1>4, <3>2 DEF SinkOK
    <3>3. k = n + 1 \/ k \in DOMAIN sink
      BY <1>4, <2>1
    <3> QED BY <3>1, <3>2, <3>3
  <2> QED BY <1>1, <2>1 DEF SinkOK
<1>7. KeysOK'
  <2>1. Going
    BY <1>1 DEF Going
  <2>2. ASSUME NEW d \in emitted', HasOwnName(d.owner)
        PROVE  Key(d) \in seen \/ \E k \in DOMAIN sink' : Unit(sink'[k]) = d
    <3>1. CASE d = e
      BY <1>3, <1>4, <2>2, <3>1
    <3>2. CASE d \in emitted
      BY <1>4, <2>1, <2>2, <3>2 DEF KeysOK
    <3> QED BY <1>1, <3>1, <3>2
  <2>3. \A v : Unit(v)' = Unit(v)
    BY <1>1 DEF Unit, OwnerOf
  <2>4. \A d \in emitted' : HasOwnName(d.owner) =>
            Key(d) \in seen' \/ \E k \in DOMAIN sink' : Unit(sink[k])' = d
    BY <1>1, <2>2, <2>3
  <2> QED BY <1>1, <2>1, <2>4 DEF KeysOK
<1>8. BytesOK' /\ HomeOK'
  BY <1>1 DEF BytesOK, HomeOK
<1> QED BY <1>5, <1>6, <1>7, <1>8

\* A round is collected: what is new is spliced, unless a cap or a parse error ends the run.
LEMMA CollectKeeps == ASSUME EmitInv, Collect PROVE EmitInv'
<1> USE DEF EmitInv
<1> DEFINE K(k) == Key(Unit(sink[k]))
           n == OutputOf(sink)
<1>1. PICK units \in Listings(NewUnits(sink)) :
         /\ pc = "run" /\ ~errors
         /\ sink' = <<>>
         /\ bytes' = bytes + n
         /\ seen' = seen \cup {K(k) : k \in DOMAIN sink}
         /\ \/ OverCap(n) /\ End("byte cap") /\ UNCHANGED generated
            \/ ~OverCap(n) /\ units = <<>> /\ End("fixpoint") /\ UNCHANGED generated
            \/ ~OverCap(n) /\ ~Parse(units) /\ End("failed") /\ UNCHANGED generated
            \/ /\ ~OverCap(n) /\ units # <<>> /\ Parse(units)
               /\ generated' = generated \o units
               /\ pc' = "lower" /\ outcome' = outcome
         /\ UNCHANGED <<structOf, jobs, errors, rounds, emitted>>
  BY DEF Collect
<1>2. /\ units \in Seq(Units)
      /\ \A i, j \in DOMAIN units : Key(units[i]) = Key(units[j]) => i = j
      /\ \A i \in DOMAIN units : Key(units[i]) \notin seen /\ \E k \in DOMAIN sink : Key(units[i]) = K(k)
      /\ \A k \in DOMAIN sink : K(k) \in seen \/ \E i \in DOMAIN units : Key(units[i]) = K(k)
      /\ \E h \in [DOMAIN units -> DOMAIN sink] :
            IsInjective(h) /\ \A i \in DOMAIN units : units[i].text = sink[h[i]].text
      /\ \A i \in DOMAIN units : \E k \in DOMAIN sink : units[i] = Unit(sink[k])
  BY NewUnitsRight
<1>3. /\ sink \in Seq(Calls)
      /\ \A k \in DOMAIN sink : sink[k].text \in Text
  BY SinkUnits DEF LoopOK
<1>4. n \in Nat
  BY <1>3, BytesFinite
<1>5. /\ sink' = <<>> /\ bytes' = bytes + n
       /\ UNCHANGED <<structOf, jobs, rounds, emitted>>
  BY <1>1
<1>6. \A key : key \in seen' <=> key \in seen \/ \E k \in DOMAIN sink : K(k) = key
  BY <1>1
<1> HIDE DEF n, K
<1>7. bytes' \in Nat /\ bytes' >= bytes /\ bytes \in Nat
  BY <1>4, <1>5 DEF LoopOK
<1>8. Going /\ outcome = "none"
  BY <1>1 DEF Going, LoopOK
<1>9. \A e \in emitted : HasOwnName(e.owner) => Key(e) \in seen'
  <2> SUFFICES ASSUME NEW e \in emitted, HasOwnName(e.owner) PROVE Key(e) \in seen'
    OBVIOUS
  <2>1. CASE Key(e) \in seen
    BY <1>6, <2>1
  <2>2. CASE \E k \in DOMAIN sink : Unit(sink[k]) = e
    BY <1>6, <2>2 DEF K
  <2> QED BY <1>8, <2>1, <2>2 DEF KeysOK
<1>10. CASE \E how \in {"byte cap", "failed"} : End(how) /\ UNCHANGED generated
  BY <1>1, <1>7, <1>10, EndKeeps
<1>11. CASE units = <<>> /\ End("fixpoint") /\ UNCHANGED generated
  <2>1. seen' = seen
    <3>1. DOMAIN units = {}
      BY <1>11
    <3>2. \A k \in DOMAIN sink : K(k) \in seen
      BY <1>2, <3>1
    <3>3. \A key : key \in seen' <=> key \in seen
      BY <1>6, <3>2
    <3> QED BY <1>1, <3>3
  <2>2. LoopOK'
    BY <1>1, <1>7, <1>11 DEF LoopOK, StructIds, End
  <2>3. SinkOK'
    BY <1>5 DEF SinkOK
  <2>4. KeysOK'
    BY <1>8, <1>9, <1>11, <2>1, <1>1 DEF KeysOK
  <2>5. BytesOK'
    <3>1. \A k \in DOMAIN generated : generated[k].text \in Text
      <4>1. \A k \in DOMAIN generated : generated[k] \in Units
        BY DEF LoopOK
      <4> QED BY <4>1 DEF Units
    <3>2. OutputOf(generated) \in Nat
      BY <3>1, BytesFinite DEF LoopOK
    <3> QED BY <1>7, <1>11, <3>2 DEF BytesOK, LoopOK
  <2>6. HomeOK'
    BY <1>5, <1>11 DEF HomeOK
  <2> QED BY <2>2, <2>3, <2>4, <2>5, <2>6
<1>12. CASE /\ ~OverCap(n) /\ generated' = generated \o units
            /\ pc' = "lower" /\ outcome' = outcome
  <2> DEFINE m == Len(generated)
  <2>1. /\ m \in Nat /\ DOMAIN generated = 1 .. m
        /\ Len(units) \in Nat /\ DOMAIN units = 1 .. Len(units)
        /\ generated' \in Seq(Units) /\ DOMAIN generated' = 1 .. m + Len(units)
        /\ \A k \in 1 .. m : generated'[k] = generated[k]
        /\ \A k \in DOMAIN units : generated'[m + k] = units[k] /\ m + k \in DOMAIN generated'
        /\ \A k \in DOMAIN generated' : k \notin 1 .. m =>
              k - m \in DOMAIN units /\ generated'[k] = units[k - m]
    <3>1. generated \in Seq(Units)
      BY DEF LoopOK
    <3> QED BY <1>2, <1>12, <3>1
  <2> HIDE DEF m
  <2>2. LoopOK'
    BY <1>7, <1>8, <1>12, <1>5, <2>1 DEF LoopOK, StructIds
  <2>3. SinkOK'
    BY <1>5 DEF SinkOK
  <2>4. KeysOK'
    <3>1. ASSUME NEW i \in DOMAIN generated', NEW j \in DOMAIN generated',
                 Key(generated'[i]) = Key(generated'[j])
          PROVE  i = j
      <4>1. CASE i \in 1 .. m /\ j \in 1 .. m
        BY <2>1, <3>1, <4>1 DEF KeysOK
      <4>2. ASSUME NEW a \in 1 .. m, NEW b \in DOMAIN generated' \ (1 .. m)
            PROVE  Key(generated'[a]) # Key(generated'[b])
        <5>1. Key(generated'[a]) \in seen
          BY <2>1 DEF KeysOK
        <5>2. Key(generated'[b]) \notin seen
          BY <1>2, <2>1
        <5> QED BY <5>1, <5>2
      <4>3. CASE i \notin 1 .. m /\ j \notin 1 .. m
        <5>1. /\ i - m \in DOMAIN units /\ generated'[i] = units[i - m]
              /\ j - m \in DOMAIN units /\ generated'[j] = units[j - m]
          BY <2>1, <4>3
        <5>2. i - m = j - m
          BY <1>2, <3>1, <5>1
        <5>3. i \in Int /\ j \in Int
          BY <2>1
        <5> QED BY <2>1, <5>2, <5>3
      <4> QED BY <3>1, <4>1, <4>2, <4>3
    <3>2. ASSUME NEW i \in DOMAIN generated' PROVE Key(generated'[i]) \in seen'
      <4>1. CASE i \in 1 .. m
        BY <1>1, <2>1, <4>1 DEF KeysOK
      <4>2. CASE i \notin 1 .. m
        <5>1. i - m \in DOMAIN units /\ generated'[i] = units[i - m]
          BY <2>1, <4>2
        <5>2. PICK k \in DOMAIN sink : Key(units[i - m]) = K(k)
          BY <1>2, <5>1
        <5> QED BY <1>6, <5>1, <5>2
      <4> QED BY <4>1, <4>2
    <3>3. ASSUME NEW key \in seen' PROVE \E i \in DOMAIN generated' : Key(generated'[i]) = key
      <4>1. CASE key \in seen
        <5>1. PICK i \in DOMAIN generated : Key(generated[i]) = key
          BY <1>8, <4>1 DEF KeysOK
        <5>2. i \in DOMAIN generated' /\ generated'[i] = generated[i]
          BY <2>1
        <5> QED BY <5>1, <5>2
      <4>2. CASE key \notin seen
        <5>1. PICK i \in DOMAIN units : Key(units[i]) = key
          BY <1>2, <1>6, <4>2
        <5> QED BY <2>1, <5>1
      <4> QED BY <4>1, <4>2
    <3> QED BY <1>1, <1>9, <3>1, <3>2, <3>3 DEF KeysOK
  <2>5. BytesOK'
    <3>1. OutputOf(generated \o units) <= OutputOf(generated) + n
      <4>1. generated \in Seq(Units)
        BY DEF LoopOK
      <4>2. PICK h \in [DOMAIN units -> DOMAIN sink] :
               IsInjective(h) /\ \A i \in DOMAIN units : units[i].text = sink[h[i]].text
        BY <1>2
      <4> QED BY <1>2, <1>3, <4>1, <4>2, BytesAdded DEF n
    <3>2. \A k \in DOMAIN generated : generated[k].text \in Text
      <4>1. \A k \in DOMAIN generated : generated[k] \in Units
        BY DEF LoopOK
      <4> QED BY <4>1 DEF Units
    <3>3. \A k \in DOMAIN generated' : generated'[k].text \in Text
      <4>1. \A k \in DOMAIN generated' : generated'[k] \in Units
        BY <2>1
      <4> QED BY <4>1 DEF Units
    <3>4. OutputOf(generated) \in Nat /\ OutputOf(generated \o units) \in Nat
      BY <1>12, <2>1, <3>2, <3>3, BytesFinite DEF LoopOK
    <3>5. bytes + n <= MaxBytes
      BY <1>4, <1>12, EmitAssumption DEF OverCap, LoopOK
    <3>6. OutputOf(generated') = OutputOf(generated \o units)
      BY <1>12
    <3>7. OutputOf(generated) <= bytes /\ MaxBytes \in Nat
      BY EmitAssumption DEF BytesOK
    <3>8. OutputOf(generated \o units) <= bytes + n
      BY <1>4, <1>7, <3>1, <3>4, <3>7
    <3>9. OutputOf(generated \o units) <= MaxBytes
      BY <1>4, <1>7, <3>4, <3>5, <3>7, <3>8
    <3> QED BY <1>5, <3>6, <3>8, <3>9 DEF BytesOK
  <2>6. HomeOK'
    <3> SUFFICES ASSUME NEW i \in DOMAIN generated', HasOwnName(generated'[i].owner)
                 PROVE  generated'[i] \in emitted
      BY <1>5 DEF HomeOK
    <3>1. CASE i \in 1 .. m
      BY <2>1, <3>1 DEF HomeOK
    <3>2. CASE i \notin 1 .. m
      <4>1. i - m \in DOMAIN units /\ generated'[i] = units[i - m]
        BY <2>1, <3>2
      <4>2. PICK k \in DOMAIN sink : units[i - m] = Unit(sink[k])
        BY <1>2, <4>1
      <4> QED BY <4>1, <4>2, SinkUnits
    <3> QED BY <3>1, <3>2
  <2> QED BY <2>2, <2>3, <2>4, <2>5, <2>6
<1> QED BY <1>1, <1>10, <1>11, <1>12

LEMMA NothingChanged ==
    ASSUME EmitInv,
           UNCHANGED <<pc, structOf, jobs, sink, generated, seen, rounds, bytes, outcome, emitted>>
    PROVE  EmitInv'
<1>1. LoopOK'
  BY DEF EmitInv, LoopOK, StructIds
<1>2. SinkOK'
  BY DEF EmitInv, SinkOK
<1>3. KeysOK'
  BY DEF EmitInv, KeysOK, Going, Unit, OwnerOf
<1>4. BytesOK' /\ HomeOK'
  BY DEF EmitInv, BytesOK, HomeOK
<1> QED BY <1>1, <1>2, <1>3, <1>4 DEF EmitInv

LEMMA NextEmitInv == EmitInv /\ [Next]_vars => EmitInv'
<1> SUFFICES ASSUME EmitInv, [Next]_vars PROVE EmitInv'
  OBVIOUS
<1>1. CASE Malformed
  <2>1. sink' = <<>> /\ End("malformed") /\ UNCHANGED <<structOf, jobs, generated, seen, emitted, rounds, bytes>>
    BY <1>1 DEF Malformed, EmitInv, SinkOK
  <2>2. bytes' \in Nat /\ bytes' >= bytes
    BY <2>1 DEF EmitInv, LoopOK
  <2> QED BY <2>1, <2>2, EndKeeps
<1>2. CASE Lower
  BY <1>2, LowerKeeps
<1>3. CASE EmitError
  <2>1. UNCHANGED <<pc, structOf, jobs, sink, generated, seen, rounds, bytes, outcome, emitted>>
    BY <1>3 DEF EmitError
  <2> QED BY <2>1, NothingChanged
<1>4. CASE RunFails
  <2>1. /\ sink' = <<>> /\ End("failed")
        /\ UNCHANGED <<structOf, jobs, generated, seen, emitted, rounds, bytes>>
    BY <1>4 DEF RunFails
  <2>2. bytes' \in Nat /\ bytes' >= bytes
    BY <2>1 DEF EmitInv, LoopOK
  <2> QED BY <2>1, <2>2, EndKeeps
<1>5. CASE Collect
  BY <1>5, CollectKeeps
<1>6. ASSUME NEW o \in Type, NEW t \in Text, Emit(o, t) PROVE EmitInv'
  BY <1>6, EmitKeeps
<1>7. CASE UNCHANGED vars
  <2>1. UNCHANGED <<pc, structOf, jobs, sink, generated, seen, rounds, bytes, outcome, emitted>>
    BY <1>7 DEF vars
  <2> QED BY <2>1, NothingChanged
<1> QED BY <1>1, <1>2, <1>3, <1>4, <1>5, <1>6, <1>7 DEF Next

\* The units have texts.
LEMMA UnitTexts ==
    ASSUME LoopOK, NEW i \in DOMAIN generated
    PROVE  generated[i] \in Units /\ Texts[generated[i].text] \in Seq(Token)
<1>1. generated[i] \in Units
  BY DEF LoopOK
<1> QED BY <1>1, TextsAreTexts DEF Units

\* Whatever the generators emit and whatever else they emit: of plain texts that differ in
\* their layout only, one is spliced into a type.
THEOREM SplicedAtMostOnce == Spec => []SplicedOnce
<1>1. EmitInv => SplicedOnce
  <2> SUFFICES ASSUME EmitInv, NEW i \in DOMAIN generated, NEW j \in DOMAIN generated,
                      generated[i].owner = generated[j].owner,
                      {generated[i].text, generated[j].text} \subseteq Plain,
                      <<generated[i].text, generated[j].text>> \in Alike
               PROVE  i = j
    BY DEF SplicedOnce
  <2> DEFINE s == Texts[generated[i].text]
             u == Texts[generated[j].text]
  <2>1. s \in Seq(Token) /\ u \in Seq(Token)
    BY UnitTexts DEF EmitInv
  <2>2. IsPlain(s) /\ IsPlain(u) /\ SameLayout(s, u)
    BY DEF Alike, Plain
  <2>3. Normal(s) = Normal(u)
    <3> HIDE DEF s, u
    <3> QED BY <2>1, <2>2, NormalizeRight
  <2>4. Key(generated[i]) = Key(generated[j])
    BY <2>3 DEF Key, Normalize
  <2> QED BY <2>4 DEF EmitInv, KeysOK
<1> QED BY <1>1, InitEmitInv, NextEmitInv, PTL DEF Spec

\* Whatever other types emit and however struct ids shift from round to round: while the
\* loop goes on, and when it converged, every emission of a type that has a name of its own
\* and emits plain texts is in a unit of that type, but for its layout.
THEOREM NothingLost == Spec => []NothingDropped
<1>1. EmitInv => NothingDropped
  <2> SUFFICES ASSUME EmitInv, pc = "lower" \/ outcome = "fixpoint",
                      NEW e \in emitted, HasOwnName(e.owner), EmitsPlainly(e.owner)
               PROVE  \E k \in DOMAIN generated : /\ generated[k].owner = e.owner
                                                  /\ <<generated[k].text, e.text>> \in Alike
    BY DEF NothingDropped
  <2>1. Going /\ sink = <<>>
    BY DEF EmitInv, LoopOK, SinkOK, Going
  <2>2. Key(e) \in seen
    BY <2>1 DEF EmitInv, KeysOK
  <2>3. PICK k \in DOMAIN generated : Key(generated[k]) = Key(e)
    BY <2>1, <2>2 DEF EmitInv, KeysOK
  <2> DEFINE s == Texts[e.text]
             u == Texts[generated[k].text]
  <2>4. /\ generated[k].owner = e.owner /\ Normal(s) = Normal(u)
        /\ generated[k].text \in Text /\ e.text \in Text
    BY <2>3, UnitTexts DEF Key, Normalize, EmitInv, LoopOK, Units
  <2>5. generated[k] \in emitted
    BY <2>4 DEF EmitInv, HomeOK
  <2>6. s \in Seq(Token) /\ u \in Seq(Token) /\ IsPlain(s) /\ IsPlain(u)
    BY <2>4, <2>5, TextsAreTexts DEF EmitsPlainly, Plain
  <2>7. SameLayout(u, s)
    <3> HIDE DEF s, u
    <3> QED BY <2>4, <2>6, NormalizeRight
  <2> QED BY <2>4, <2>7 DEF Alike
<1> QED BY <1>1, InitEmitInv, NextEmitInv, PTL DEF Spec

\* However the emissions fall into rounds: no run goes past its round cap, and what it
\* splices stays within its byte cap.
THEOREM CapsAlwaysHold == Spec => []CapsHold
<1>1. EmitInv => CapsHold
  BY EmitAssumption DEF EmitInv, LoopOK, BytesOK, CapsHold
<1> QED BY <1>1, InitEmitInv, NextEmitInv, PTL DEF Spec

=============================================================================
