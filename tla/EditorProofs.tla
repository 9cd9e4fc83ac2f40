---------------------------- MODULE EditorProofs ----------------------------
(***************************************************************************)
(* Theorems about Editor for every alphabet, every set of pasted texts and *)
(* of files, every cap on the history and every bound on the text.         *)
(***************************************************************************)
EXTENDS Editor, SequenceTheorems, TLAPS

(***************************************************************************)
(* What the two operators on texts return.                                 *)
(***************************************************************************)

\* A slice of a text inside its bounds.
LEMMA SliceShape ==
    ASSUME NEW t \in Seq(Char), NEW lo \in Nat, NEW hi \in Nat,
           lo <= hi, hi <= Len(t)
    PROVE  /\ Slice(t, lo, hi) \in Seq(Char)
           /\ Len(Slice(t, lo, hi)) = hi - lo
           /\ \A i \in 1 .. hi - lo : Slice(t, lo, hi)[i] = t[lo + i]
<1>0. Len(t) \in Nat
  BY LenProperties
<1>1. Slice(t, lo, hi) = SubSeq(t, lo + 1, hi)
  <2>1. AtMost(lo, Len(t)) = lo /\ AtMost(hi, Len(t)) = hi
    BY <1>0 DEF AtMost
  <2> QED BY <2>1 DEF Slice
<1>2. \A i \in lo + 1 .. hi : t[i] \in Char
  BY ElementOfSeq
<1>3. lo + 1 \in Int /\ hi \in Int
  OBVIOUS
<1>4. /\ SubSeq(t, lo + 1, hi) \in Seq(Char)
      /\ Len(SubSeq(t, lo + 1, hi)) = IF lo + 1 <= hi THEN hi - (lo + 1) + 1 ELSE 0
      /\ \A i \in 1 .. hi - (lo + 1) + 1 : SubSeq(t, lo + 1, hi)[i] = t[lo + 1 + i - 1]
  BY <1>2, <1>3, SubSeqProperties
<1> QED BY <1>1, <1>4

\* A slice is a text, whatever its bounds.
LEMMA SliceType ==
    ASSUME NEW t \in Seq(Char), NEW lo \in Nat, NEW hi \in Nat
    PROVE  Slice(t, lo, hi) \in Seq(Char)
<1> DEFINE m == AtMost(lo, Len(t)) + 1
           n == AtMost(hi, Len(t))
<1>1. m \in 1 .. Len(t) + 1 /\ n \in 0 .. Len(t)
  BY LenProperties DEF AtMost
<1>2. \A i \in m .. n : t[i] \in Char
  BY <1>1, ElementOfSeq
<1>3. SubSeq(t, m, n) \in Seq(Char)
  BY <1>1, <1>2, SubSeqProperties
<1> QED BY <1>3 DEF Slice

LEMMA SpliceType ==
    ASSUME NEW t \in Seq(Char), NEW at \in Nat, NEW n \in Nat, NEW new \in Seq(Char)
    PROVE  Splice(t, at, n, new) \in Seq(Char)
<1>1. Len(t) \in Nat /\ at + n \in Nat /\ 0 \in Nat
  BY LenProperties
<1>2. Slice(t, 0, at) \in Seq(Char)
  BY <1>1, SliceType
<1>3. Slice(t, at + n, Len(t)) \in Seq(Char)
  BY <1>1, SliceType
<1>4. Slice(t, 0, at) \o new \in Seq(Char)
  BY <1>2, ConcatProperties
<1> QED BY <1>3, <1>4, ConcatProperties DEF Splice

\* Three pieces in a row, character by character.
LEMMA ThreePieces ==
    ASSUME NEW pre \in Seq(Char), NEW mid \in Seq(Char), NEW suf \in Seq(Char)
    PROVE  /\ (pre \o mid) \o suf \in Seq(Char)
           /\ Len((pre \o mid) \o suf) = Len(pre) + Len(mid) + Len(suf)
           /\ \A i \in 1 .. Len(pre) + Len(mid) + Len(suf) :
                 ((pre \o mid) \o suf)[i] =
                    IF i <= Len(pre) THEN pre[i]
                    ELSE IF i <= Len(pre) + Len(mid) THEN mid[i - Len(pre)]
                    ELSE suf[i - (Len(pre) + Len(mid))]
<1>1. Len(pre) \in Nat /\ Len(mid) \in Nat /\ Len(suf) \in Nat
  BY LenProperties
<1>2. /\ pre \o mid \in Seq(Char) /\ Len(pre \o mid) = Len(pre) + Len(mid)
      /\ \A i \in 1 .. Len(pre) + Len(mid) :
            (pre \o mid)[i] = IF i <= Len(pre) THEN pre[i] ELSE mid[i - Len(pre)]
  BY ConcatProperties
<1>3. /\ (pre \o mid) \o suf \in Seq(Char)
      /\ Len((pre \o mid) \o suf) = Len(pre \o mid) + Len(suf)
      /\ \A i \in 1 .. Len(pre \o mid) + Len(suf) :
            ((pre \o mid) \o suf)[i] =
               IF i <= Len(pre \o mid) THEN (pre \o mid)[i] ELSE suf[i - Len(pre \o mid)]
  BY <1>2, ConcatProperties
<1> QED BY <1>1, <1>2, <1>3

\* A splice inside the text's bounds, character by character.
LEMMA SpliceShape ==
    ASSUME NEW t \in Seq(Char), NEW at \in Nat, NEW n \in Nat,
           NEW new \in Seq(Char), at + n <= Len(t)
    PROVE  /\ Splice(t, at, n, new) \in Seq(Char)
           /\ Len(Splice(t, at, n, new)) = Len(t) - n + Len(new)
           /\ \A i \in 1 .. Len(t) - n + Len(new) :
                 Splice(t, at, n, new)[i] =
                    IF i <= at THEN t[i]
                    ELSE IF i <= at + Len(new) THEN new[i - at]
                    ELSE t[i - Len(new) + n]
<1>0. Len(t) \in Nat /\ Len(new) \in Nat /\ at + n \in Nat /\ 0 \in Nat
  BY LenProperties
<1>1. PICK pre \in Seq(Char) : /\ pre = Slice(t, 0, at) /\ Len(pre) = at
                               /\ \A i \in 1 .. at : pre[i] = t[i]
  <2>1. 0 <= at /\ at <= Len(t)
    BY <1>0
  <2>2. /\ Slice(t, 0, at) \in Seq(Char) /\ Len(Slice(t, 0, at)) = at - 0
        /\ \A i \in 1 .. at - 0 : Slice(t, 0, at)[i] = t[0 + i]
    BY <1>0, <2>1, SliceShape
  <2> QED BY <2>2
<1>2. PICK suf \in Seq(Char) : /\ suf = Slice(t, at + n, Len(t))
                               /\ Len(suf) = Len(t) - (at + n)
                               /\ \A i \in 1 .. Len(t) - (at + n) : suf[i] = t[at + n + i]
  <2>1. Len(t) <= Len(t)
    BY <1>0
  <2>2. /\ Slice(t, at + n, Len(t)) \in Seq(Char)
        /\ Len(Slice(t, at + n, Len(t))) = Len(t) - (at + n)
        /\ \A i \in 1 .. Len(t) - (at + n) :
              Slice(t, at + n, Len(t))[i] = t[at + n + i]
    BY <2>1, <1>0, SliceShape
  <2> QED BY <2>2
<1>3. Splice(t, at, n, new) = (pre \o new) \o suf
  BY <1>1, <1>2 DEF Splice
<1>p. Len(pre) = at /\ \A i \in 1 .. at : pre[i] = t[i]
  BY <1>1
<1>s. /\ Len(suf) = Len(t) - (at + n)
      /\ \A i \in 1 .. Len(t) - (at + n) : suf[i] = t[at + n + i]
  BY <1>2
<1>4. /\ (pre \o new) \o suf \in Seq(Char)
      /\ Len((pre \o new) \o suf) = at + Len(new) + Len(suf)
      /\ \A i \in 1 .. at + Len(new) + Len(suf) :
            ((pre \o new) \o suf)[i] =
                    IF i <= at THEN pre[i]
                    ELSE IF i <= at + Len(new) THEN new[i - at]
                    ELSE suf[i - (at + Len(new))]
  <2>1. /\ (pre \o new) \o suf \in Seq(Char)
        /\ Len((pre \o new) \o suf) = Len(pre) + Len(new) + Len(suf)
        /\ \A i \in 1 .. Len(pre) + Len(new) + Len(suf) :
              ((pre \o new) \o suf)[i] =
                      IF i <= Len(pre) THEN pre[i]
                      ELSE IF i <= Len(pre) + Len(new) THEN new[i - Len(pre)]
                      ELSE suf[i - (Len(pre) + Len(new))]
    BY ThreePieces
  <2>2. Len(pre) = at
    BY <1>p
  <2> QED BY <2>1, <2>2
<1>5. at + Len(new) + Len(suf) = Len(t) - n + Len(new)
  BY <1>0, <1>s
<1>6. ASSUME NEW i \in 1 .. Len(t) - n + Len(new)
      PROVE  ((pre \o new) \o suf)[i] =
                    IF i <= at THEN t[i]
                    ELSE IF i <= at + Len(new) THEN new[i - at]
                    ELSE t[i - Len(new) + n]
  <2>1. CASE i <= at
    BY <2>1, <1>0, <1>p, <1>4, <1>5
  <2>2. CASE i > at /\ i <= at + Len(new)
    BY <2>2, <1>0, <1>4, <1>5
  <2>3. CASE i > at + Len(new)
    <3>1. i - (at + Len(new)) \in 1 .. Len(t) - (at + n)
      BY <2>3, <1>0
    <3>2. ((pre \o new) \o suf)[i] = suf[i - (at + Len(new))]
      <4>1. i \in 1 .. at + Len(new) + Len(suf) /\ ~(i <= at) /\ ~(i <= at + Len(new))
        BY <2>3, <1>0, <1>5
      <4> QED BY <1>4, <4>1
    <3>3. at + n + (i - (at + Len(new))) = i - Len(new) + n
      BY <1>0
    <3>4. suf[i - (at + Len(new))] = t[i - Len(new) + n]
      BY <3>1, <3>3, <1>s
    <3>5. ~(i <= at) /\ ~(i <= at + Len(new))
      BY <2>3, <1>0
    <3> QED BY <3>2, <3>4, <3>5
  <2>4. i <= at \/ (i > at /\ i <= at + Len(new)) \/ i > at + Len(new)
    BY <1>0
  <2> QED BY <2>1, <2>2, <2>3, <2>4
<1> QED BY <1>3, <1>4, <1>5, <1>6

\* The same when it takes out as many characters as another text has.
IsSplice(c, t, at, n, new) ==
    /\ c \in Seq(Char)
    /\ Len(c) = Len(t) - n + Len(new)
    /\ \A i \in 1 .. Len(t) - n + Len(new) :
          c[i] = IF i <= at THEN t[i]
                 ELSE IF i <= at + Len(new) THEN new[i - at]
                 ELSE t[i - Len(new) + n]

LEMMA SpliceIsSplice ==
    ASSUME NEW t \in Seq(Char), NEW at \in Nat, NEW n \in Nat,
           NEW new \in Seq(Char), at + n <= Len(t)
    PROVE  IsSplice(Splice(t, at, n, new), t, at, n, new)
BY SpliceShape DEF IsSplice

LEMMA SpliceOfLen ==
    ASSUME NEW t \in Seq(Char), NEW at \in Nat, NEW old \in Seq(Char),
           NEW new \in Seq(Char), at + Len(old) <= Len(t)
    PROVE  IsSplice(Splice(t, at, Len(old), new), t, at, Len(old), new)
<1>1. PICK n \in Nat : n = Len(old)
  BY LenProperties
<1>2. at + n <= Len(t)
  BY <1>1
<1>3. IsSplice(Splice(t, at, n, new), t, at, n, new)
  BY <1>2, SpliceIsSplice
<1> QED BY <1>1, <1>3

\* r is what a holds after its first s characters.
Occurs(r, a, s) == \A i \in 1 .. Len(r) : r[i] = a[s + i]

\* Replacing what replaced a slice by that slice gives the text again.
LEMMA SpliceBack ==
    ASSUME NEW a \in Seq(Char), NEW s \in Nat, NEW r \in Seq(Char), NEW q \in Seq(Char),
           s + Len(r) <= Len(a), Occurs(r, a, s)
    PROVE  a = Splice(Splice(a, s, Len(r), q), s, Len(q), r)
<1>0. Len(r) \in Nat /\ Len(q) \in Nat /\ Len(a) \in Nat /\ s + Len(r) \in Nat
  BY LenProperties
<1>1. PICK b \in Seq(Char) : b = Splice(a, s, Len(r), q) /\ IsSplice(b, a, s, Len(r), q)
  BY SpliceOfLen DEF IsSplice
<1>b. /\ Len(b) = Len(a) - Len(r) + Len(q)
      /\ \A i \in 1 .. Len(a) - Len(r) + Len(q) :
              b[i] = IF i <= s THEN a[i] ELSE IF i <= s + Len(q) THEN q[i - s]
                     ELSE a[i - Len(q) + Len(r)]
  BY <1>1 DEF IsSplice
<1>2. s + Len(q) <= Len(b)
  BY <1>0, <1>b
<1>3. PICK c \in Seq(Char) : c = Splice(b, s, Len(q), r) /\ IsSplice(c, b, s, Len(q), r)
  <2>1. IsSplice(Splice(b, s, Len(q), r), b, s, Len(q), r)
    BY <1>2, SpliceOfLen
  <2> QED BY <2>1 DEF IsSplice
<1>c. /\ Len(c) = Len(b) - Len(q) + Len(r)
      /\ \A i \in 1 .. Len(b) - Len(q) + Len(r) :
              c[i] = IF i <= s THEN b[i] ELSE IF i <= s + Len(r) THEN r[i - s]
                     ELSE b[i - Len(r) + Len(q)]
  BY <1>3 DEF IsSplice
<1>5. Len(c) = Len(a)
  BY <1>0, <1>b, <1>c
<1>6. ASSUME NEW i \in 1 .. Len(a) PROVE a[i] = c[i]
  <2>1. CASE i <= s
    <3>1. i \in 1 .. Len(b) - Len(q) + Len(r) /\ i \in 1 .. Len(a) - Len(r) + Len(q)
      BY <2>1, <1>0, <1>b
    <3>2. c[i] = b[i]
      BY <2>1, <3>1, <1>c
    <3>3. b[i] = a[i]
      BY <2>1, <3>1, <1>b
    <3> QED BY <3>2, <3>3
  <2>2. CASE i > s /\ i <= s + Len(r)
    <3>1. i - s \in 1 .. Len(r) /\ s + (i - s) = i
      BY <2>2, <1>0
    <3>2. c[i] = r[i - s]
      BY <2>2, <1>0, <1>b, <1>c, <1>5
    <3> QED BY <3>1, <3>2 DEF Occurs
  <2>3. CASE i > s + Len(r)
    <3> DEFINE j == i - Len(r) + Len(q)
    <3>1. j \in 1 .. Len(b) /\ j > s + Len(q) /\ j - Len(q) + Len(r) = i
      BY <2>3, <1>0, <1>b
    <3>2. c[i] = b[j]
      BY <2>3, <1>0, <1>b, <1>c, <1>5
    <3> HIDE DEF j
    <3>3. b[j] = a[j - Len(q) + Len(r)]
      BY <3>1, <1>0, <1>b
    <3> QED BY <3>1, <3>2, <3>3
  <2> QED BY <2>1, <2>2, <2>3, <1>0
<1> QED BY <1>1, <1>3, <1>5, <1>6, SeqEqual

\* What occurs in a text is the slice of it.
LEMMA SliceIs ==
    ASSUME NEW a \in Seq(Char), NEW s \in Nat, NEW r \in Seq(Char),
           s + Len(r) <= Len(a), Occurs(r, a, s)
    PROVE  Slice(a, s, s + Len(r)) = r
<1>1. PICK hi \in Nat : hi = s + Len(r) /\ Len(r) \in Nat
  BY LenProperties
<1>2. s <= hi /\ hi <= Len(a) /\ hi - s = Len(r)
  BY <1>1
<1>3. /\ Slice(a, s, hi) \in Seq(Char) /\ Len(Slice(a, s, hi)) = hi - s
      /\ \A i \in 1 .. hi - s : Slice(a, s, hi)[i] = a[s + i]
  BY <1>2, SliceShape
<1>4. \A i \in 1 .. Len(r) : Slice(a, s, hi)[i] = r[i]
  BY <1>2, <1>3 DEF Occurs
<1>5. Slice(a, s, hi) = r
  BY <1>2, <1>3, <1>4, SeqEqual
<1> QED BY <1>1, <1>5

\* The converse.
LEMMA SliceOccurs ==
    ASSUME NEW a \in Seq(Char), NEW s \in Nat, NEW hi \in Nat, s <= hi, hi <= Len(a)
    PROVE  /\ Slice(a, s, hi) \in Seq(Char) /\ Len(Slice(a, s, hi)) = hi - s
           /\ Occurs(Slice(a, s, hi), a, s)
<1>1. /\ Slice(a, s, hi) \in Seq(Char) /\ Len(Slice(a, s, hi)) = hi - s
      /\ \A i \in 1 .. hi - s : Slice(a, s, hi)[i] = a[s + i]
  BY SliceShape
<1> QED BY <1>1 DEF Occurs

\* What Takes says of the text before.
LEMMA TakesOccurs ==
    ASSUME NEW op \in Edit, NEW a \in Seq(Char), NEW b, Takes(op, a, b)
    PROVE  /\ op.start \in Nat /\ op.removed \in Seq(Char) /\ op.inserted \in Seq(Char)
           /\ op.start + Len(op.removed) <= Len(a)
           /\ Occurs(op.removed, a, op.start)
<1>1. /\ op.start \in Nat /\ op.removed \in Seq(Char) /\ op.inserted \in Seq(Char)
      /\ Len(op.removed) \in Nat /\ Len(a) \in Nat
  BY LenProperties DEF Edit
<1>2. PICK lo \in Nat, hi \in Nat : lo = op.start /\ hi = op.start + Len(op.removed)
  BY <1>1
<1>3. lo <= hi /\ hi <= Len(a) /\ op.start + Len(op.removed) <= Len(a)
  BY <1>1, <1>2 DEF Takes
<1>4. Occurs(Slice(a, lo, hi), a, lo)
  BY <1>3, SliceOccurs
<1>5. Slice(a, lo, hi) = op.removed
  BY <1>2 DEF Takes
<1>6. Occurs(op.removed, a, op.start)
  BY <1>2, <1>4, <1>5
<1> QED BY <1>1, <1>3, <1>6

\* An edit can be taken back: what it made of a text, it makes the text again.
LEMMA TakesBack ==
    ASSUME NEW op \in Edit, NEW a \in Seq(Char), NEW b, Takes(op, a, b)
    PROVE  a = Splice(b, op.start, Len(op.inserted), op.removed)
<1>1. a = Splice(Splice(a, op.start, Len(op.removed), op.inserted),
                 op.start, Len(op.inserted), op.removed)
  BY TakesOccurs, SpliceBack
<1> QED BY <1>1 DEF Takes

\* The characters of c, where nq characters q replace n of t's nt after at.
Replaced(c, t, at, nt, n, nq, q) ==
    \A i \in 1 .. nt - n + nq :
       c[i] = IF i <= at THEN t[i] ELSE IF i <= at + nq THEN q[i - at]
              ELSE t[i - nq + n]

\* What a splice is, over numbers instead of lengths.
LEMMA SpliceReplaces ==
    ASSUME NEW t \in Seq(Char), NEW at \in Nat, NEW nt \in Nat, NEW n \in Nat,
           NEW nq \in Nat, NEW q \in Seq(Char), nt = Len(t), nq = Len(q), at + n <= nt
    PROVE  \E c \in Seq(Char) : /\ c = Splice(t, at, n, q) /\ Len(c) = nt - n + nq
                                /\ Replaced(c, t, at, nt, n, nq, q)
<1>1. IsSplice(Splice(t, at, n, q), t, at, n, q)
  BY SpliceIsSplice
<1>2. /\ Splice(t, at, n, q) \in Seq(Char)
      /\ Len(Splice(t, at, n, q)) = Len(t) - n + Len(q)
      /\ Replaced(Splice(t, at, n, q), t, at, Len(t), n, Len(q), q)
  BY <1>1 DEF IsSplice, Replaced
<1> QED BY <1>2

\* An insertion right after what replaced a slice is part of the replacement.
LEMMA SpliceOn ==
    ASSUME NEW a \in Seq(Char), NEW s \in Nat, NEW r \in Seq(Char), NEW q \in Seq(Char),
           NEW new \in Seq(Char), s + Len(r) <= Len(a)
    PROVE  Splice(Splice(a, s, Len(r), q), s + Len(q), 0, new)
              = Splice(a, s, Len(r), q \o new)
<1>0. PICK la \in Nat, lr \in Nat, lq \in Nat, ln \in Nat :
         la = Len(a) /\ lr = Len(r) /\ lq = Len(q) /\ ln = Len(new)
  BY LenProperties
<1>1. s + lr <= la
  BY <1>0
<1>2. PICK k \in Nat, lb \in Nat, lw \in Nat, z \in Nat :
         k = s + lq /\ lb = la - lr + lq /\ lw = lq + ln /\ z = 0
  BY <1>1
<1>3. PICK b \in Seq(Char) : /\ b = Splice(a, s, lr, q) /\ Len(b) = lb
                             /\ Replaced(b, a, s, la, lr, lq, q)
  BY <1>0, <1>1, <1>2, SpliceReplaces
<1>4. PICK c \in Seq(Char) : /\ c = Splice(b, k, z, new) /\ Len(c) = lb - z + ln
                             /\ Replaced(c, b, k, lb, z, ln, new)
  <2>1. k + z <= lb
    BY <1>1, <1>2
  <2>2. lb = Len(b) /\ ln = Len(new)
    BY <1>0, <1>3
  <2> QED BY <2>1, <2>2, SpliceReplaces
<1>5. PICK w \in Seq(Char) : /\ w = q \o new /\ Len(w) = lq + ln
                             /\ Replaced(w, q, lq, lq, z, ln, new)
  <2>1. /\ q \o new \in Seq(Char) /\ Len(q \o new) = Len(q) + Len(new)
        /\ \A i \in 1 .. Len(q) + Len(new) :
              (q \o new)[i] = IF i <= Len(q) THEN q[i] ELSE new[i - Len(q)]
    BY ConcatProperties
  <2>2. Len(q) = lq /\ Len(new) = ln
    BY <1>0
  <2>3. \A i \in 1 .. lq + ln :
              (q \o new)[i] = IF i <= lq THEN q[i] ELSE new[i - lq]
    BY <2>1, <2>2
  <2>4. ASSUME NEW i \in 1 .. lq - z + ln
        PROVE  (q \o new)[i] = IF i <= lq THEN q[i] ELSE IF i <= lq + ln THEN new[i - lq]
                               ELSE q[i - ln + z]
    <3>1. i \in 1 .. lq + ln /\ i <= lq + ln
      BY <1>2
    <3> QED BY <2>3, <3>1
  <2>5. Replaced(q \o new, q, lq, lq, z, ln, new)
    BY <2>4 DEF Replaced
  <2> QED BY <2>1, <2>2, <2>5
<1>6. PICK d \in Seq(Char) : /\ d = Splice(a, s, lr, w) /\ Len(d) = la - lr + lw
                             /\ Replaced(d, a, s, la, lr, lw, w)
  <2>1. lw = Len(w) /\ la = Len(a)
    BY <1>0, <1>2, <1>5
  <2> QED BY <1>1, <2>1, SpliceReplaces
<1>7. ASSUME NEW i \in 1 .. lb + ln PROVE c[i] = d[i]
  <2>b. \A j \in 1 .. la - lr + lq :
          b[j] = IF j <= s THEN a[j] ELSE IF j <= s + lq THEN q[j - s] ELSE a[j - lq + lr]
    BY <1>3 DEF Replaced
  <2>c. c[i] = IF i <= k THEN b[i] ELSE IF i <= k + ln THEN new[i - k] ELSE b[i - ln + z]
    BY <1>2, <1>4 DEF Replaced
  <2>w. \A j \in 1 .. lq - z + ln :
          w[j] = IF j <= lq THEN q[j] ELSE IF j <= lq + ln THEN new[j - lq]
                 ELSE q[j - ln + z]
    BY <1>5 DEF Replaced
  <2>d. d[i] = IF i <= s THEN a[i] ELSE IF i <= s + lw THEN w[i - s] ELSE a[i - lw + lr]
    BY <1>2, <1>6 DEF Replaced
  <2>1. CASE i <= s
    BY <2>1, <1>1, <1>2, <2>b, <2>c, <2>d
  <2>2. CASE i > s /\ i <= k
    <3>1. c[i] = q[i - s]
      BY <2>2, <1>1, <1>2, <2>b, <2>c
    <3>2. ~(i <= s) /\ i <= s + lw /\ i - s \in 1 .. lq - z + ln /\ i - s <= lq
      BY <2>2, <1>1, <1>2
    <3>3. d[i] = w[i - s]
      BY <3>2, <2>d
    <3> QED BY <3>1, <3>2, <3>3, <2>w
  <2>3. CASE i > k /\ i <= k + ln
    <3>1. ~(i <= k) /\ ~(i <= s) /\ i <= s + lw
      BY <2>3, <1>2
    <3>2. c[i] = new[i - k] /\ d[i] = w[i - s]
      BY <2>3, <2>c, <2>d, <3>1
    <3>3. /\ i - s \in 1 .. lq - z + ln /\ ~(i - s <= lq) /\ i - s <= lq + ln
          /\ (i - s) - lq = i - k
      BY <2>3, <1>2
    <3> QED BY <3>2, <3>3, <2>w
  <2>4. CASE i > k + ln
    <3>1. /\ i - ln \in 1 .. la - lr + lq /\ i - ln > s + lq
          /\ (i - ln) - lq + lr = i - lw + lr /\ i - ln + z = i - ln
      BY <2>4, <1>1, <1>2
    <3>2. c[i] = b[i - ln]
      BY <2>4, <1>2, <2>c, <3>1
    <3>3. ~(i <= s) /\ ~(i <= s + lw)
      BY <2>4, <1>2
    <3>4. d[i] = a[i - lw + lr]
      BY <3>3, <2>d
    <3> DEFINE m == i - ln
    <3>5. m \in 1 .. la - lr + lq /\ ~(m <= s) /\ ~(m <= s + lq) /\ m - lq + lr = i - lw + lr
      BY <1>1, <1>2, <3>1
    <3> HIDE DEF m
    <3>6. b[m] = a[m - lq + lr]
      BY <2>b, <3>5
    <3> QED BY <3>2, <3>4, <3>5, <3>6 DEF m
  <2> QED BY <1>2, <2>1, <2>2, <2>3, <2>4
<1>8. Len(c) = Len(d) /\ Len(c) = lb + ln
  BY <1>2, <1>4, <1>6
<1>9. c = d
  BY <1>7, <1>8, SeqEqual
<1>10. Splice(a, s, Len(r), q) = b /\ Splice(b, s + Len(q), 0, new) = c
  BY <1>0, <1>2, <1>3, <1>4
<1>11. Splice(a, s, Len(r), q \o new) = d
  BY <1>0, <1>5, <1>6
<1> QED BY <1>9, <1>10, <1>11

\* Taking out a slice and then what stands before it is taking out both.
LEMMA SpliceBefore ==
    ASSUME NEW a \in Seq(Char), NEW s \in Nat, NEW r \in Seq(Char), NEW x \in Seq(Char),
           Len(x) = 1, (s + 1) + Len(r) <= Len(a)
    PROVE  Splice(Splice(a, s + 1, Len(r), <<>>), s, 1, <<>>)
              = Splice(a, s, Len(x \o r), <<>>)
<1>l. PICK la \in Nat, lr \in Nat : la = Len(a) /\ lr = Len(r)
  BY LenProperties
<1>n. PICK k \in Nat, z \in Nat, u \in Nat : k = s + 1 /\ z = 0 /\ u = 1
  OBVIOUS
<1>e. PICK e \in Seq(Char) : e = <<>> /\ z = Len(e)
  <2>1. <<>> \in Seq(Char) /\ Len(<<>>) = 0
    OBVIOUS
  <2> QED BY <1>n, <2>1
<1>0. /\ la = Len(a) /\ lr = Len(r) /\ k = s + 1 /\ z = 0 /\ u = 1
      /\ e = <<>> /\ z = Len(e)
  BY <1>l, <1>n, <1>e
<1>a. k + lr <= la
  BY <1>l, <1>n
<1>1. PICK lb \in Nat, lx \in Nat : k + lr <= la /\ lb = la - lr + z /\ lx = 1 + lr
  <2>1. la - lr + z \in Nat /\ 1 + lr \in Nat
    BY <1>n, <1>a
  <2> QED BY <1>a, <2>1
<1>2. PICK b \in Seq(Char) : /\ b = Splice(a, k, lr, e) /\ Len(b) = la - lr + z
                             /\ Replaced(b, a, k, la, lr, z, e)
  <2>1. la = Len(a) /\ z = Len(e) /\ k + lr <= la
    BY <1>0, <1>1
  <2> QED BY <2>1, SpliceReplaces
<1>3. PICK c \in Seq(Char) : /\ c = Splice(b, s, u, e) /\ Len(c) = lb - u + z
                             /\ Replaced(c, b, s, lb, u, z, e)
  <2>1. lb = Len(b) /\ z = Len(e)
    BY <1>0, <1>1, <1>2
  <2>2. s + u <= lb
    BY <1>0, <1>1
  <2> QED BY <2>1, <2>2, SpliceReplaces
<1>4. Len(x \o r) = lx
  <2>1. Len(x \o r) = Len(x) + Len(r)
    BY ConcatProperties
  <2> QED BY <1>l, <1>1, <2>1
<1>5. PICK d \in Seq(Char) : /\ d = Splice(a, s, lx, e) /\ Len(d) = la - lx + z
                             /\ Replaced(d, a, s, la, lx, z, e)
  <2>1. la = Len(a) /\ z = Len(e)
    BY <1>0
  <2>2. s + lx <= la
    BY <1>0, <1>1
  <2> QED BY <2>1, <2>2, SpliceReplaces
<1>6. ASSUME NEW i \in 1 .. la - lx PROVE c[i] = d[i]
  <2>b. \A j \in 1 .. la - lr + z :
          b[j] = IF j <= k THEN a[j] ELSE IF j <= k + z THEN e[j - k] ELSE a[j - z + lr]
    BY <1>2 DEF Replaced
  <2>r. i \in 1 .. lb - u + z /\ i \in 1 .. la - lx + z
    BY <1>0, <1>1
  <2>c. c[i] = IF i <= s THEN b[i] ELSE IF i <= s + z THEN e[i - s] ELSE b[i - z + u]
    BY <2>r, <1>3 DEF Replaced
  <2>d. d[i] = IF i <= s THEN a[i] ELSE IF i <= s + z THEN e[i - s] ELSE a[i - z + lx]
    BY <2>r, <1>5 DEF Replaced
  <2>1. CASE i <= s
    <3>1. i <= k /\ i \in 1 .. la - lr + z
      BY <2>1, <1>0, <1>1
    <3>2. b[i] = a[i]
      BY <3>1, <2>b
    <3> QED BY <2>1, <2>c, <2>d, <3>2
  <2>2. CASE ~(i <= s)
    <3>1. /\ ~(i <= s + z) /\ i - z + u \in 1 .. la - lr + z
          /\ ~(i - z + u <= k) /\ ~(i - z + u <= k + z)
          /\ (i - z + u) - z + lr = i - z + lx
      BY <2>2, <1>0, <1>1
    <3>2. c[i] = b[i - z + u] /\ d[i] = a[i - z + lx]
      BY <2>2, <2>c, <2>d, <3>1
    <3>3. b[i - z + u] = a[(i - z + u) - z + lr]
      BY <2>b, <3>1
    <3> QED BY <3>1, <3>2, <3>3
  <2> QED BY <2>1, <2>2
<1>7. Len(c) = Len(d) /\ Len(c) = la - lx
  <2>1. Len(c) = lb - u + z /\ Len(d) = la - lx + z
    BY <1>3, <1>5
  <2>2. lb - u + z = la - lx /\ la - lx + z = la - lx
    BY <1>n, <1>1
  <2> QED BY <2>1, <2>2
<1>8. c = d
  BY <1>6, <1>7, SeqEqual
<1>9. Splice(a, s + 1, Len(r), <<>>) = b /\ Splice(b, s, 1, <<>>) = c
  BY <1>0, <1>2, <1>3
<1>10. Splice(a, s, Len(x \o r), <<>>) = d
  BY <1>0, <1>4, <1>5
<1> QED BY <1>8, <1>9, <1>10

-----------------------------------------------------------------------------
(***************************************************************************)
(* The edits that the operations record, and what they do to a text.       *)
(***************************************************************************)

\* Enough for an edit to take a text to what its replacement makes of it.
LEMMA TakesIf ==
    ASSUME NEW op \in Edit, NEW a \in Seq(Char),
           op.start + Len(op.removed) <= Len(a), Occurs(op.removed, a, op.start),
           op.before <= Len(a),
           op.after <= Len(Splice(a, op.start, Len(op.removed), op.inserted))
    PROVE  Takes(op, a, Splice(a, op.start, Len(op.removed), op.inserted))
<1>1. op.start \in Nat /\ op.removed \in Seq(Char)
  BY DEF Edit
<1>2. Slice(a, op.start, op.start + Len(op.removed)) = op.removed
  BY <1>1, SliceIs
<1> QED BY <1>2 DEF Takes

LEMMA InsertionTakes ==
    ASSUME NEW a \in Seq(Char), NEW at \in Nat, NEW new \in Seq(Char), at <= Len(a)
    PROVE  /\ Insertion(at, new) \in Edit
           /\ Takes(Insertion(at, new), a, Splice(a, at, 0, new))
           /\ Splice(a, at, 0, new) \in Seq(Char)
           /\ at + Len(new) <= Len(Splice(a, at, 0, new))
<1> DEFINE op == Insertion(at, new)
<1>1. Len(new) \in Nat /\ Len(a) \in Nat /\ <<>> \in Seq(Char) /\ Len(<<>>) = 0
  BY LenProperties
<1>2. op \in Edit
  BY <1>1 DEF Insertion, Edit
<1>3. /\ op.start = at /\ op.removed = <<>> /\ op.inserted = new
      /\ op.before = at /\ op.after = at + Len(new)
  BY DEF Insertion
<1>4. PICK b \in Seq(Char) : b = Splice(a, at, 0, new) /\ Len(b) = Len(a) + Len(new)
  <2>1. PICK z \in Nat : z = 0 /\ at + z <= Len(a)
    BY <1>1
  <2>2. IsSplice(Splice(a, at, z, new), a, at, z, new)
    BY <2>1, SpliceIsSplice
  <2>3. Splice(a, at, z, new) \in Seq(Char) /\ Len(Splice(a, at, z, new)) = Len(a) - z + Len(new)
    BY <2>2 DEF IsSplice
  <2> QED BY <1>1, <2>1, <2>3
<1>5. Splice(a, op.start, Len(op.removed), op.inserted) = b
  BY <1>1, <1>3, <1>4
<1>6. op.start + Len(op.removed) <= Len(a) /\ op.before <= Len(a) /\ op.after <= Len(b)
  BY <1>1, <1>3, <1>4
<1>7. Occurs(op.removed, a, op.start)
  BY <1>1, <1>3 DEF Occurs
<1> HIDE DEF op
<1>8. Takes(op, a, b)
  BY <1>2, <1>5, <1>6, <1>7, TakesIf
<1>9. at + Len(new) <= Len(b)
  BY <1>1, <1>4
<1> QED BY <1>2, <1>4, <1>8, <1>9 DEF op

LEMMA DeletionTakes ==
    ASSUME text \in Seq(Char), NEW lo \in Nat, NEW hi \in Nat, NEW before \in Nat,
           lo <= hi, hi <= Len(text), before <= Len(text)
    PROVE  /\ Deletion(lo, hi, before) \in Edit
           /\ Takes(Deletion(lo, hi, before), text, Splice(text, lo, hi - lo, <<>>))
           /\ Splice(text, lo, hi - lo, <<>>) \in Seq(Char)
           /\ lo <= Len(Splice(text, lo, hi - lo, <<>>))
<1> DEFINE op == Deletion(lo, hi, before)
<1>1. <<>> \in Seq(Char) /\ Len(<<>>) = 0 /\ Len(text) \in Nat
  BY LenProperties
<1>2. PICK r \in Seq(Char) : r = Slice(text, lo, hi) /\ Len(r) = hi - lo /\ Occurs(r, text, lo)
  BY SliceOccurs
<1>3. op \in Edit
  BY <1>1, <1>2 DEF Deletion, Edit
<1>4. /\ op.start = lo /\ op.removed = r /\ op.inserted = <<>>
      /\ op.before = before /\ op.after = lo
  BY <1>2 DEF Deletion
<1>5. PICK b \in Seq(Char) : b = Splice(text, lo, hi - lo, <<>>) /\ lo <= Len(b)
  <2>1. PICK n \in Nat : n = hi - lo /\ lo + n = hi
    OBVIOUS
  <2>2. lo + n <= Len(text)
    BY <2>1
  <2>3. IsSplice(Splice(text, lo, n, <<>>), text, lo, n, <<>>)
    BY <1>1, <2>2, SpliceIsSplice
  <2>4. /\ Splice(text, lo, n, <<>>) \in Seq(Char)
        /\ Len(Splice(text, lo, n, <<>>)) = Len(text) - n + 0
    BY <1>1, <2>3 DEF IsSplice
  <2>5. lo <= Len(text) - n + 0
    BY <1>1, <2>2
  <2> QED BY <2>1, <2>4, <2>5
<1>6. Splice(text, op.start, Len(op.removed), op.inserted) = b
  BY <1>2, <1>4, <1>5
<1>7. /\ op.start + Len(op.removed) <= Len(text) /\ op.before <= Len(text)
      /\ op.after <= Len(b)
  <2>1. lo + (hi - lo) = hi
    OBVIOUS
  <2> QED BY <1>2, <1>4, <1>5, <2>1
<1>8. Occurs(op.removed, text, op.start)
  BY <1>2, <1>4
<1> HIDE DEF op
<1>9. Takes(op, text, b)
  BY <1>3, <1>6, <1>7, <1>8, TakesIf
<1> QED BY <1>3, <1>5, <1>9 DEF op

-----------------------------------------------------------------------------
(***************************************************************************)
(* Stacks of edits and of texts, which grow and shrink together.           *)
(***************************************************************************)

Text == Seq(Char)

\* The edit recorded last was made for the text recorded last.
LEMMA LastTakes ==
    ASSUME NEW ops \in Seq(Edit), NEW texts \in Seq(Text), NEW t \in Text,
           LeadTo(ops, texts, t), ops # <<>>
    PROVE  /\ texts # <<>> /\ Last(ops) \in Edit /\ Last(texts) \in Text
           /\ Takes(Last(ops), Last(texts), t)
<1>1. Len(ops) \in Nat \ {0} /\ Len(texts) = Len(ops)
  BY EmptySeq DEF LeadTo
<1>2. Len(ops) \in 1 .. Len(ops) /\ Len(ops) \in 1 .. Len(texts)
  BY <1>1
<1>3. ops[Len(ops)] \in Edit /\ texts[Len(ops)] \in Text
  BY <1>2, ElementOfSeq
<1>4. Takes(ops[Len(ops)], texts[Len(ops)], t)
  BY <1>2 DEF LeadTo
<1>5. texts # <<>>
  BY <1>1, EmptySeq
<1> QED BY <1>1, <1>3, <1>4, <1>5 DEF Last

\* What Front leaves of a stack.
LEMMA FrontShape ==
    ASSUME NEW S, NEW s \in Seq(S), s # <<>>
    PROVE  /\ Front(s) \in Seq(S) /\ Len(Front(s)) = Len(s) - 1
           /\ \A i \in 1 .. Len(s) - 1 : Front(s)[i] = s[i]
<1>1. Len(s) \in Nat \ {0}
  BY EmptySeq
<1>2. \A i \in 1 .. Len(s) - 1 : s[i] \in S
  BY <1>1, ElementOfSeq
<1>3. 1 \in Int /\ Len(s) - 1 \in Int
  BY <1>1
<1>4. /\ SubSeq(s, 1, Len(s) - 1) \in Seq(S)
      /\ Len(SubSeq(s, 1, Len(s) - 1)) =
            IF 1 <= Len(s) - 1 THEN (Len(s) - 1) - 1 + 1 ELSE 0
      /\ \A i \in 1 .. (Len(s) - 1) - 1 + 1 : SubSeq(s, 1, Len(s) - 1)[i] = s[1 + i - 1]
  BY <1>2, <1>3, SubSeqProperties
<1>5. Len(SubSeq(s, 1, Len(s) - 1)) = Len(s) - 1
  <2>1. Len(SubSeq(s, 1, Len(s) - 1)) =
            IF 1 <= Len(s) - 1 THEN (Len(s) - 1) - 1 + 1 ELSE 0
    BY <1>4
  <2>2. CASE 1 <= Len(s) - 1
    BY <1>1, <2>1, <2>2
  <2>3. CASE ~(1 <= Len(s) - 1)
    <3>1. PICK n \in Nat : n = Len(s) /\ n # 0
      BY <1>1
    <3>2. n = 1
      BY <3>1, <2>3
    <3>3. Len(s) - 1 = 0
      BY <3>1, <3>2
    <3> QED BY <2>1, <2>3, <3>3
  <2> QED BY <2>2, <2>3
<1>6. \A i \in 1 .. Len(s) - 1 : SubSeq(s, 1, Len(s) - 1)[i] = s[i]
  <2>1. \A i \in 1 .. (Len(s) - 1) - 1 + 1 : SubSeq(s, 1, Len(s) - 1)[i] = s[1 + i - 1]
    BY <1>4
  <2>2. (Len(s) - 1) - 1 + 1 = Len(s) - 1 /\ \A i \in 1 .. Len(s) - 1 : 1 + i - 1 = i
    BY <1>1
  <2> QED BY <2>1, <2>2
<1> QED BY <1>4, <1>5, <1>6 DEF Front

\* Taking the last edit back leaves the others leading to the text before it.
LEMMA FrontLeads ==
    ASSUME NEW ops \in Seq(Edit), NEW texts \in Seq(Text), NEW t \in Text,
           LeadTo(ops, texts, t), ops # <<>>
    PROVE  LeadTo(Front(ops), Front(texts), Last(texts))
<1>1. Len(ops) \in Nat \ {0} /\ Len(texts) = Len(ops) /\ texts # <<>>
  BY EmptySeq, LastTakes DEF LeadTo
<1>2. /\ Front(ops) \in Seq(Edit) /\ Len(Front(ops)) = Len(ops) - 1
      /\ \A i \in 1 .. Len(ops) - 1 : Front(ops)[i] = ops[i]
  BY FrontShape
<1>3. /\ Front(texts) \in Seq(Text) /\ Len(Front(texts)) = Len(texts) - 1
      /\ \A i \in 1 .. Len(texts) - 1 : Front(texts)[i] = texts[i]
  BY <1>1, FrontShape
<1>4. ASSUME NEW i \in 1 .. Len(ops) - 1
      PROVE  Takes(Front(ops)[i], Front(texts)[i],
                   IF i = Len(ops) - 1 THEN Last(texts) ELSE Front(texts)[i + 1])
  <2>1. Takes(ops[i], texts[i], texts[i + 1])
    BY <1>1 DEF LeadTo
  <2>2. Front(ops)[i] = ops[i] /\ Front(texts)[i] = texts[i]
    BY <1>1, <1>2, <1>3
  <2>3. texts[i + 1] = IF i = Len(ops) - 1 THEN Last(texts) ELSE Front(texts)[i + 1]
    BY <1>1, <1>3 DEF Last
  <2> QED BY <2>1, <2>2, <2>3
<1> QED BY <1>1, <1>2, <1>3, <1>4 DEF LeadTo

\* Forgetting the oldest edit leaves the others as they were.
LEMMA TailLeads ==
    ASSUME NEW ops \in Seq(Edit), NEW texts \in Seq(Text), NEW t \in Text,
           LeadTo(ops, texts, t), ops # <<>>
    PROVE  LeadTo(Tail(ops), Tail(texts), t)
<1>1. Len(ops) \in Nat \ {0} /\ Len(texts) = Len(ops) /\ texts # <<>>
  BY EmptySeq, LastTakes DEF LeadTo
<1>2. /\ Tail(ops) \in Seq(Edit) /\ Len(Tail(ops)) = Len(ops) - 1
      /\ \A i \in 1 .. Len(ops) - 1 : Tail(ops)[i] = ops[i + 1]
  BY HeadTailProperties
<1>3. /\ Tail(texts) \in Seq(Text) /\ Len(Tail(texts)) = Len(ops) - 1
      /\ \A i \in 1 .. Len(ops) - 1 : Tail(texts)[i] = texts[i + 1]
  BY <1>1, HeadTailProperties
<1>4. ASSUME NEW i \in 1 .. Len(ops) - 1
      PROVE  Takes(Tail(ops)[i], Tail(texts)[i],
                   IF i = Len(ops) - 1 THEN t ELSE Tail(texts)[i + 1])
  <2>1. i + 1 \in 1 .. Len(ops) /\ (i + 1 = Len(ops) <=> i = Len(ops) - 1)
    BY <1>1
  <2>2. Takes(ops[i + 1], texts[i + 1], IF i + 1 = Len(ops) THEN t ELSE texts[(i + 1) + 1])
    BY <2>1 DEF LeadTo
  <2>3. i # Len(ops) - 1 => Tail(texts)[i + 1] = texts[(i + 1) + 1]
    BY <1>1, <1>3
  <2> QED BY <2>1, <2>2, <2>3, <1>2, <1>3
<1> QED BY <1>1, <1>2, <1>3, <1>4 DEF LeadTo

\* An edit of the text they lead to goes on top.
LEMMA AppendLeads ==
    ASSUME NEW ops \in Seq(Edit), NEW texts \in Seq(Text), NEW t \in Text, NEW u \in Text,
           NEW op \in Edit, LeadTo(ops, texts, t), Takes(op, t, u)
    PROVE  LeadTo(Append(ops, op), Append(texts, t), u)
<1>1. Len(ops) \in Nat /\ Len(texts) = Len(ops)
  BY LenProperties DEF LeadTo
<1>2. /\ Len(Append(ops, op)) = Len(ops) + 1 /\ Append(ops, op)[Len(ops) + 1] = op
      /\ \A i \in 1 .. Len(ops) : Append(ops, op)[i] = ops[i]
  BY AppendProperties
<1>3. /\ Len(Append(texts, t)) = Len(ops) + 1 /\ Append(texts, t)[Len(ops) + 1] = t
      /\ \A i \in 1 .. Len(ops) : Append(texts, t)[i] = texts[i]
  BY <1>1, AppendProperties
<1>4. ASSUME NEW i \in 1 .. Len(ops) + 1
      PROVE  Takes(Append(ops, op)[i], Append(texts, t)[i],
                   IF i = Len(ops) + 1 THEN u ELSE Append(texts, t)[i + 1])
  <2>1. CASE i = Len(ops) + 1
    BY <2>1, <1>2, <1>3
  <2>2. CASE i # Len(ops) + 1
    <3>1. i \in 1 .. Len(ops)
      BY <2>2, <1>1
    <3>2. Takes(ops[i], texts[i], IF i = Len(ops) THEN t ELSE texts[i + 1])
      BY <3>1 DEF LeadTo
    <3>3. Append(texts, t)[i + 1] = IF i = Len(ops) THEN t ELSE texts[i + 1]
      BY <3>1, <1>1, <1>3
    <3> QED BY <2>2, <3>1, <3>2, <3>3, <1>2, <1>3
  <2> QED BY <2>1, <2>2
<1> QED BY <1>1, <1>2, <1>3, <1>4 DEF LeadTo

\* So does it when the oldest edit has to make room for it.
LEMMA PushLeads ==
    ASSUME NEW ops \in Seq(Edit), NEW texts \in Seq(Text), NEW t \in Text, NEW u \in Text,
           NEW op \in Edit, LeadTo(ops, texts, t), Takes(op, t, u)
    PROVE  /\ LeadTo(Push(ops, op), Push(texts, t), u)
           /\ Push(ops, op) \in Seq(Edit) /\ Push(texts, t) \in Seq(Text)
<1>1. Len(ops) \in Nat /\ Len(texts) = Len(ops) /\ UndoCap \in Nat \ {0}
  BY LenProperties, EditorAssumption DEF LeadTo
<1>2. CASE Len(ops) < UndoCap
  <2>1. Push(ops, op) = Append(ops, op) /\ Push(texts, t) = Append(texts, t)
    BY <1>1, <1>2 DEF Push
  <2> QED BY <2>1, AppendLeads, AppendProperties
<1>3. CASE ~(Len(ops) < UndoCap)
  <2>1. ops # <<>> /\ texts # <<>>
    BY <1>1, <1>3, EmptySeq
  <2>2. Push(ops, op) = Append(Tail(ops), op) /\ Push(texts, t) = Append(Tail(texts), t)
    BY <1>1, <1>3 DEF Push
  <2>3. Tail(ops) \in Seq(Edit) /\ Tail(texts) \in Seq(Text)
    BY <2>1, HeadTailProperties
  <2>4. LeadTo(Tail(ops), Tail(texts), t)
    BY <2>1, TailLeads
  <2>5. LeadTo(Append(Tail(ops), op), Append(Tail(texts), t), u)
    BY <2>3, <2>4, AppendLeads
  <2>6. Append(Tail(ops), op) \in Seq(Edit) /\ Append(Tail(texts), t) \in Seq(Text)
    BY <2>3, AppendProperties
  <2> QED BY <2>2, <2>5, <2>6
<1> QED BY <1>2, <1>3

\* The edit recorded last may grow with the text.
LEMMA AmendLeads ==
    ASSUME NEW ops \in Seq(Edit), NEW texts \in Seq(Text), NEW t \in Text, NEW u \in Text,
           NEW op \in Edit, ops # <<>>, LeadTo(ops, texts, t), Takes(op, Last(texts), u)
    PROVE  /\ LeadTo([ops EXCEPT ![Len(ops)] = op], texts, u)
           /\ [ops EXCEPT ![Len(ops)] = op] \in Seq(Edit)
<1>1. Len(ops) \in Nat \ {0} /\ Len(texts) = Len(ops) /\ Len(ops) \in 1 .. Len(ops)
  BY EmptySeq DEF LeadTo
<1> DEFINE new == [ops EXCEPT ![Len(ops)] = op]
<1>2. /\ new \in Seq(Edit) /\ Len(new) = Len(ops)
      /\ \A j \in 1 .. Len(ops) : new[j] = IF j = Len(ops) THEN op ELSE ops[j]
  BY <1>1, ExceptSeq
<1> HIDE DEF new
<1>3. ASSUME NEW i \in 1 .. Len(ops)
      PROVE  Takes(new[i], texts[i], IF i = Len(ops) THEN u ELSE texts[i + 1])
  <2>1. CASE i = Len(ops)
    BY <2>1, <1>1, <1>2 DEF Last
  <2>2. CASE i # Len(ops)
    BY <2>2, <1>2 DEF LeadTo
  <2> QED BY <2>1, <2>2
<1>4. LeadTo(new, texts, u)
  BY <1>1, <1>2, <1>3 DEF LeadTo
<1> QED BY <1>2, <1>4 DEF new

\* An edit taken back can be applied again, and those undone before it after.
LEMMA UndoneLeads ==
    ASSUME NEW ops \in Seq(Edit), NEW texts \in Seq(Text), NEW t \in Text, NEW u \in Text,
           NEW op \in Edit, NEW low \in Nat,
           LeadFrom(t, ops, texts, low), Takes(op, u, t)
    PROVE  LeadFrom(u, Append(ops, op), Append(texts, t), low)
<1>1. Len(ops) \in Nat /\ Len(texts) = Len(ops)
  BY LenProperties DEF LeadFrom
<1>2. /\ Len(Append(ops, op)) = Len(ops) + 1 /\ Append(ops, op)[Len(ops) + 1] = op
      /\ \A i \in 1 .. Len(ops) : Append(ops, op)[i] = ops[i]
  BY AppendProperties
<1>3. /\ Len(Append(texts, t)) = Len(ops) + 1 /\ Append(texts, t)[Len(ops) + 1] = t
      /\ \A i \in 1 .. Len(ops) : Append(texts, t)[i] = texts[i]
  BY <1>1, AppendProperties
<1>4. ASSUME NEW i \in low + 1 .. Len(ops) + 1
      PROVE  Takes(Append(ops, op)[i],
                   IF i = Len(ops) + 1 THEN u ELSE Append(texts, t)[i + 1],
                   Append(texts, t)[i])
  <2>1. CASE i = Len(ops) + 1
    BY <2>1, <1>2, <1>3
  <2>2. CASE i # Len(ops) + 1
    <3>1. i \in low + 1 .. Len(ops) /\ i \in 1 .. Len(ops)
      BY <2>2, <1>1
    <3>2. Takes(ops[i], IF i = Len(ops) THEN t ELSE texts[i + 1], texts[i])
      BY <3>1 DEF LeadFrom
    <3>3. Append(texts, t)[i + 1] = IF i = Len(ops) THEN t ELSE texts[i + 1]
      BY <3>1, <1>1, <1>3
    <3> QED BY <2>2, <3>1, <3>2, <3>3, <1>2, <1>3
  <2> QED BY <2>1, <2>2
<1> QED BY <1>1, <1>2, <1>3, <1>4 DEF LeadFrom

\* Applying the last one again leaves the others to follow it.
LEMMA RedoneLeads ==
    ASSUME NEW ops \in Seq(Edit), NEW texts \in Seq(Text), NEW t \in Text,
           NEW low \in Nat, low < Len(ops), LeadFrom(t, ops, texts, low)
    PROVE  /\ Takes(Last(ops), t, Last(texts)) /\ Last(texts) \in Text
           /\ LeadFrom(Last(texts), Front(ops), Front(texts), low)
<1>1. Len(ops) \in Nat \ {0} /\ Len(texts) = Len(ops) /\ ops # <<>> /\ texts # <<>>
  BY LenProperties, EmptySeq DEF LeadFrom
<1>2. Len(ops) \in low + 1 .. Len(ops) /\ Len(ops) \in 1 .. Len(texts)
  BY <1>1
<1>3. Takes(Last(ops), t, Last(texts)) /\ Last(texts) \in Text
  BY <1>1, <1>2, ElementOfSeq DEF LeadFrom, Last
<1>4. /\ Front(ops) \in Seq(Edit) /\ Len(Front(ops)) = Len(ops) - 1
      /\ \A i \in 1 .. Len(ops) - 1 : Front(ops)[i] = ops[i]
  BY <1>1, FrontShape
<1>5. /\ Front(texts) \in Seq(Text) /\ Len(Front(texts)) = Len(ops) - 1
      /\ \A i \in 1 .. Len(ops) - 1 : Front(texts)[i] = texts[i]
  BY <1>1, FrontShape
<1>6. ASSUME NEW i \in low + 1 .. Len(ops) - 1
      PROVE  Takes(Front(ops)[i],
                   IF i = Len(ops) - 1 THEN Last(texts) ELSE Front(texts)[i + 1],
                   Front(texts)[i])
  <2>1. i \in low + 1 .. Len(ops) /\ i # Len(ops) /\ i \in 1 .. Len(ops) - 1
    BY <1>1
  <2>2. Takes(ops[i], texts[i + 1], texts[i])
    BY <2>1 DEF LeadFrom
  <2>3. texts[i + 1] = IF i = Len(ops) - 1 THEN Last(texts) ELSE Front(texts)[i + 1]
    BY <1>1, <1>5, <2>1 DEF Last
  <2> QED BY <2>1, <2>2, <2>3, <1>4, <1>5
<1>7. LeadFrom(Last(texts), Front(ops), Front(texts), low)
  BY <1>4, <1>5, <1>6 DEF LeadFrom
<1> QED BY <1>3, <1>7

-----------------------------------------------------------------------------
(***************************************************************************)
(* What holds of any history, one gone astray too: the types, and a text   *)
(* for every edit.                                                         *)
(***************************************************************************)

Even == Len(past) = Len(undo) /\ Len(future) = Len(redo)

Shape == TypeOK /\ Even

\* The parts of a state that has its shape.
LEMMA Shaped ==
    ASSUME Shape
    PROVE  /\ text \in Text /\ undo \in Seq(Edit) /\ redo \in Seq(Edit)
           /\ past \in Seq(Text) /\ future \in Seq(Text) /\ stale \in Nat
           /\ cursor \in Nat /\ anchor \in Nat /\ Len(text) \in Nat
           /\ Len(undo) \in Nat /\ Len(redo) \in Nat
           /\ Len(past) = Len(undo) /\ Len(future) = Len(redo)
<1>1. text \in Seq(Char) /\ undo \in Seq(Edit) /\ redo \in Seq(Edit)
  BY DEF Shape, TypeOK
<1>2. Len(text) \in Nat /\ Len(undo) \in Nat /\ Len(redo) \in Nat
  BY <1>1, LenProperties
<1> QED BY <1>2 DEF Shape, TypeOK, Even, Text

LEMMA PushShape ==
    ASSUME NEW S, NEW s \in Seq(S), NEW x \in S
    PROVE  /\ Push(s, x) \in Seq(S)
           /\ Len(Push(s, x)) = IF Len(s) < UndoCap THEN Len(s) + 1 ELSE Len(s)
<1>1. Len(s) \in Nat /\ UndoCap \in Nat \ {0}
  BY LenProperties, EditorAssumption DEF EditorAssumption
<1>2. CASE Len(s) < UndoCap
  <2>1. Push(s, x) = Append(s, x)
    BY <1>2 DEF Push
  <2> QED BY <1>2, <2>1, AppendProperties
<1>3. CASE ~(Len(s) < UndoCap)
  <2>1. Push(s, x) = Append(Tail(s), x) /\ s # <<>>
    BY <1>1, <1>3, EmptySeq DEF Push
  <2>2. Tail(s) \in Seq(S) /\ Len(Tail(s)) = Len(s) - 1
    BY <2>1, HeadTailProperties
  <2>3. Append(Tail(s), x) \in Seq(S) /\ Len(Append(Tail(s), x)) = Len(s) - 1 + 1
    BY <2>2, AppendProperties
  <2> QED BY <1>1, <1>3, <2>1, <2>3
<1> QED BY <1>2, <1>3

\* Stacks of one length stay of one length.
LEMMA BothPushed ==
    ASSUME NEW ops \in Seq(Edit), NEW texts \in Seq(Text), Len(texts) = Len(ops),
           NEW op \in Edit, NEW t \in Text
    PROVE  /\ Push(ops, op) \in Seq(Edit) /\ Push(texts, t) \in Seq(Text)
           /\ Len(Push(texts, t)) = Len(Push(ops, op))
<1>1. /\ Push(ops, op) \in Seq(Edit)
      /\ Len(Push(ops, op)) = IF Len(ops) < UndoCap THEN Len(ops) + 1 ELSE Len(ops)
  BY PushShape
<1>2. /\ Push(texts, t) \in Seq(Text)
      /\ Len(Push(texts, t)) = IF Len(texts) < UndoCap THEN Len(texts) + 1 ELSE Len(texts)
  BY PushShape
<1> QED BY <1>1, <1>2

LEMMA InsertionIsEdit ==
    ASSUME NEW at \in Nat, NEW new \in Seq(Char)
    PROVE  Insertion(at, new) \in Edit
<1>1. Len(new) \in Nat /\ at + Len(new) \in Nat /\ <<>> \in Seq(Char)
  BY LenProperties
<1> QED BY <1>1 DEF Insertion, Edit

LEMMA DeletionIsEdit ==
    ASSUME text \in Seq(Char), NEW lo \in Nat, NEW hi \in Nat, NEW before \in Nat
    PROVE  Deletion(lo, hi, before) \in Edit
<1>1. Slice(text, lo, hi) \in Seq(Char) /\ <<>> \in Seq(Char)
  BY SliceType
<1> QED BY <1>1 DEF Deletion, Edit

\* A change of the text keeps the shape if the undo stack keeps its own, and
\* the redo stack too.
LEMMA ChangedShape ==
    ASSUME Shape, text' \in Text, cursor' \in Nat, anchor' \in Nat,
           undo' \in Seq(Edit), past' \in Seq(Text), Len(past') = Len(undo'),
           redo' \in Seq(Edit), future' \in Seq(Text), Len(future') = Len(redo'),
           stale' \in Nat, corrupt' \in BOOLEAN, astray' \in 0 .. MaxAstray,
           coalesce' \in {"none", "insert", "backspace"}, Dirty
    PROVE  Shape'
<1>1. dirty' \in BOOLEAN /\ torn' \in BOOLEAN
  BY Zenon DEF Dirty
<1>2. disk' \in Seq(Char)
  BY DEF Dirty
<1>3. TypeOK'
  BY <1>1, <1>2 DEF TypeOK, Text
<1> QED BY <1>3 DEF Shape, Even

LEMMA EditedShape ==
    ASSUME Shape, text' \in Text, cursor' \in Nat, anchor' \in Nat,
           undo' \in Seq(Edit), past' \in Seq(Text), Len(past') = Len(undo'),
           coalesce' \in {"none", "insert", "backspace"}, Dirty, ClearRedo,
           UNCHANGED corrupt, astray' \in 0 .. MaxAstray
    PROVE  Shape'
<1>1. redo' \in Seq(Edit) /\ future' \in Seq(Text) /\ stale' \in Nat
  BY DEF ClearRedo
<1>2. Len(future') = Len(redo')
  BY DEF ClearRedo
<1>3. corrupt' \in BOOLEAN
  BY DEF Shape, TypeOK
<1> QED BY <1>1, <1>2, <1>3, ChangedShape

LEMMA RecordShape ==
    ASSUME Shape, NEW op \in Edit, Record(op)
    PROVE  undo' \in Seq(Edit) /\ past' \in Seq(Text) /\ Len(past') = Len(undo')
BY Shaped, BothPushed DEF Record

LEMMA AmendShape ==
    ASSUME Shape, undo # <<>>, NEW op \in Edit, Amend(op)
    PROVE  undo' \in Seq(Edit) /\ past' \in Seq(Text) /\ Len(past') = Len(undo')
<1>1. undo \in Seq(Edit) /\ Len(undo) \in Nat /\ past \in Seq(Text) /\ Len(past) = Len(undo)
  BY Shaped
<1>2. undo' = [undo EXCEPT ![Len(undo)] = op] /\ past' = past
  BY DEF Amend
<1>3. [undo EXCEPT ![Len(undo)] = op] \in Seq(Edit) /\ Len([undo EXCEPT ![Len(undo)] = op]) = Len(undo)
  BY <1>1, ExceptSeq
<1> QED BY <1>1, <1>2, <1>3

LEMMA LastIsEdit ==
    ASSUME NEW s \in Seq(Edit), s # <<>>
    PROVE  /\ Last(s) \in Edit /\ Last(s).start \in Nat
           /\ Last(s).removed \in Seq(Char) /\ Last(s).inserted \in Seq(Char)
           /\ Last(s).before \in Nat /\ Last(s).after \in Nat
           /\ Len(Last(s).removed) \in Nat /\ Len(Last(s).inserted) \in Nat
<1>1. Len(s) \in 1 .. Len(s)
  BY EmptySeq, LenProperties
<1>2. Last(s) \in Edit
  BY <1>1, ElementOfSeq DEF Last
<1>3. /\ Last(s).start \in Nat /\ Last(s).before \in Nat /\ Last(s).after \in Nat
      /\ Last(s).removed \in Seq(Char) /\ Last(s).inserted \in Seq(Char)
  BY <1>2 DEF Edit
<1> QED BY <1>2, <1>3, LenProperties

\* The selection's ends.
LEMMA EndsShape ==
    ASSUME Shape
    PROVE  Lo \in Nat /\ Hi \in Nat /\ Lo <= Hi /\ Hi - Lo \in Nat
<1>1. cursor \in Nat /\ anchor \in Nat
  BY Shaped
<1> QED BY <1>1 DEF Lo, Hi, AtMost

LEMMA InsertKeepsShape ==
    ASSUME Shape, astray' \in 0 .. MaxAstray, NEW new \in Seq(Char), NEW kind \in {"none", "insert"},
           Insert(new, kind) \/ InsertMore(new, kind)
    PROVE  Shape'
<1>1. /\ text' = Splice(text, cursor, 0, new) /\ MoveTo(cursor + Len(new))
      /\ coalesce' = kind /\ Dirty /\ ClearRedo /\ UNCHANGED corrupt
  BY DEF Insert, InsertMore
<1>2. /\ text \in Seq(Char) /\ cursor \in Nat /\ undo \in Seq(Edit) /\ 0 \in Nat
      /\ Len(new) \in Nat
  BY Shaped, LenProperties DEF Text
<1>3. text' \in Text
  BY <1>1, <1>2, SpliceType DEF Text
<1>4. cursor' \in Nat /\ anchor' \in Nat
  BY <1>1, <1>2 DEF MoveTo
<1>5. undo' \in Seq(Edit) /\ past' \in Seq(Text) /\ Len(past') = Len(undo')
  <2>1. CASE Insert(new, kind)
    BY <2>1, <1>2, InsertionIsEdit, RecordShape DEF Insert
  <2>2. CASE InsertMore(new, kind)
    <3> DEFINE last == Last(undo)
               op == [last EXCEPT !.inserted = @ \o new, !.after = cursor + Len(new)]
    <3>1. undo # <<>> /\ last.kind = "Inserted" /\ Amend(op)
      BY <2>2 DEF InsertMore, Continues
    <3>2. last \in Edit /\ last.inserted \in Seq(Char)
      BY <1>2, <3>1, LastIsEdit
    <3>3. last.inserted \o new \in Seq(Char) /\ cursor + Len(new) \in Nat
      BY <1>2, <3>2, ConcatProperties
    <3> HIDE DEF last
    <3>4. op \in Edit
      BY <3>1, <3>2, <3>3 DEF Edit
    <3> QED BY <3>1, <3>4, AmendShape
  <2> QED BY <2>1, <2>2
<1>6. coalesce' \in {"none", "insert", "backspace"}
  BY <1>1
<1> QED BY <1>1, <1>3, <1>4, <1>5, <1>6, EditedShape

\* What deleting the selection does to the text and its recording.
LEMMA CutShape ==
    ASSUME Shape
    PROVE  /\ Splice(text, Lo, Hi - Lo, <<>>) \in Text
           /\ Deletion(Lo, Hi, cursor) \in Edit
<1>1. text \in Seq(Char) /\ cursor \in Nat /\ <<>> \in Seq(Char)
  BY Shaped DEF Text
<1> QED BY <1>1, EndsShape, SpliceType, DeletionIsEdit DEF Text

LEMMA InsertOverKeepsShape ==
    ASSUME Shape, astray' \in 0 .. MaxAstray, NEW new \in Seq(Char), NEW kind \in {"none", "insert"},
           InsertOver(new, kind)
    PROVE  Shape'
<1> DEFINE bare == Splice(text, Lo, Hi - Lo, <<>>)
           cut == Deletion(Lo, Hi, cursor)
           ins == Insertion(Lo, new)
<1>1. /\ text' = Splice(bare, Lo, 0, new)
      /\ undo' = Push(Push(undo, cut), ins) /\ past' = Push(Push(past, text), bare)
      /\ MoveTo(Lo + Len(new)) /\ coalesce' = kind /\ Dirty /\ ClearRedo
      /\ UNCHANGED corrupt
  BY DEF InsertOver
<1>2. /\ text \in Text /\ undo \in Seq(Edit) /\ past \in Seq(Text) /\ Len(past) = Len(undo)
      /\ Lo \in Nat /\ Len(new) \in Nat /\ 0 \in Nat
  BY Shaped, EndsShape, LenProperties
<1>3. cut \in Edit /\ ins \in Edit /\ bare \in Text
  BY <1>2, CutShape, InsertionIsEdit
<1> HIDE DEF bare, cut, ins
<1>4. /\ Push(undo, cut) \in Seq(Edit) /\ Push(past, text) \in Seq(Text)
      /\ Len(Push(undo, cut)) = Len(Push(past, text))
  BY <1>2, <1>3, BothPushed
<1>5. undo' \in Seq(Edit) /\ past' \in Seq(Text) /\ Len(past') = Len(undo')
  BY <1>1, <1>3, <1>4, BothPushed
<1>6. text' \in Text /\ cursor' \in Nat /\ anchor' \in Nat
  BY <1>1, <1>2, <1>3, SpliceType DEF Text, MoveTo
<1>7. coalesce' \in {"none", "insert", "backspace"}
  BY <1>1
<1> QED BY <1>1, <1>5, <1>6, <1>7, EditedShape

LEMMA DeleteKeepsShape ==
    ASSUME Shape, astray' \in 0 .. MaxAstray,
           DeleteSelection \/ InsertNothing \/ Backspace \/ BackspaceMore \/ DeleteForward
    PROVE  Shape'
<1>1. /\ text \in Seq(Char) /\ undo \in Seq(Edit) /\ cursor \in Nat /\ anchor \in Nat
      /\ <<>> \in Seq(Char) /\ 1 \in Nat /\ redo \in Seq(Edit) /\ future \in Seq(Text)
      /\ Len(redo) \in Nat /\ Len(future) = Len(redo) /\ corrupt \in BOOLEAN
  BY Shaped DEF Text, Shape, TypeOK
<1>2. CASE DeleteSelection \/ InsertNothing
  <2>1. /\ text' = Splice(text, Lo, Hi - Lo, <<>>) /\ Record(Deletion(Lo, Hi, cursor))
        /\ MoveTo(Lo) /\ coalesce' = "none" /\ Dirty /\ UNCHANGED corrupt
        /\ ClearRedo \/ (stale' = Len(redo) /\ UNCHANGED <<redo, future>>)
    BY <1>2 DEF DeleteSelection, InsertNothing
  <2>2. text' \in Text /\ cursor' \in Nat /\ anchor' \in Nat
    BY <2>1, CutShape, EndsShape DEF MoveTo
  <2>3. undo' \in Seq(Edit) /\ past' \in Seq(Text) /\ Len(past') = Len(undo')
    BY <2>1, CutShape, RecordShape
  <2>4. coalesce' \in {"none", "insert", "backspace"}
    BY <2>1
  <2>5. CASE ClearRedo
    BY <2>1, <2>2, <2>3, <2>4, <2>5, EditedShape
  <2>6. CASE stale' = Len(redo) /\ UNCHANGED <<redo, future>>
    <3>1. /\ redo' \in Seq(Edit) /\ future' \in Seq(Text) /\ Len(future') = Len(redo')
          /\ stale' \in Nat /\ corrupt' \in BOOLEAN
      BY <1>1, <2>1, <2>6
    <3> QED BY <2>1, <2>2, <2>3, <2>4, <3>1, ChangedShape
  <2> QED BY <2>1, <2>5, <2>6
<1>3. CASE Backspace \/ BackspaceMore
  <2>1. /\ text' = Splice(text, cursor - 1, 1, <<>>) /\ cursor > 0 /\ MoveTo(cursor - 1)
        /\ coalesce' = "backspace" /\ Dirty /\ ClearRedo /\ UNCHANGED corrupt
    BY <1>3 DEF Backspace, BackspaceMore
  <2>2. PICK lo \in Nat : lo = cursor - 1
    BY <1>1, <2>1
  <2>3. text' \in Text /\ cursor' \in Nat /\ anchor' \in Nat
    BY <1>1, <2>1, <2>2, SpliceType DEF Text, MoveTo
  <2>4. undo' \in Seq(Edit) /\ past' \in Seq(Text) /\ Len(past') = Len(undo')
    <3>1. CASE Backspace
      <4>1. Record(Deletion(lo, cursor, cursor))
        BY <2>2, <3>1 DEF Backspace
      <4> QED BY <1>1, <4>1, DeletionIsEdit, RecordShape
    <3>2. CASE BackspaceMore
      <4> DEFINE last == Last(undo)
                 x == Slice(text, lo, cursor)
                 op == [last EXCEPT !.removed = x \o @, !.start = lo, !.after = lo]
      <4>1. undo # <<>> /\ last.kind = "Deleted" /\ Amend(op)
        BY <2>2, <3>2 DEF BackspaceMore, ExtendsBack
      <4>2. last \in Edit /\ last.removed \in Seq(Char) /\ x \in Seq(Char)
        BY <1>1, <4>1, LastIsEdit, SliceType
      <4> HIDE DEF last, x
      <4>3. x \o last.removed \in Seq(Char)
        BY <4>2, ConcatProperties
      <4>4. op \in Edit
        BY <4>1, <4>2, <4>3 DEF Edit
      <4> QED BY <4>1, <4>4, AmendShape
    <3> QED BY <1>3, <3>1, <3>2
  <2>5. coalesce' \in {"none", "insert", "backspace"}
    BY <2>1
  <2> QED BY <2>1, <2>3, <2>4, <2>5, EditedShape
<1>4. CASE DeleteForward
  <2>1. /\ text' = Splice(text, cursor, 1, <<>>) /\ Record(Deletion(cursor, cursor + 1, cursor))
        /\ cursor' = cursor /\ anchor' = anchor
        /\ coalesce' = "none" /\ Dirty /\ ClearRedo /\ UNCHANGED corrupt
    BY <1>4 DEF DeleteForward
  <2>2. cursor + 1 \in Nat
    BY <1>1
  <2>3. Deletion(cursor, cursor + 1, cursor) \in Edit
    BY <1>1, <2>2, DeletionIsEdit
  <2>4. undo' \in Seq(Edit) /\ past' \in Seq(Text) /\ Len(past') = Len(undo')
    BY <2>1, <2>3, RecordShape
  <2>5. text' \in Text /\ cursor' \in Nat /\ anchor' \in Nat
    BY <1>1, <2>1, SpliceType DEF Text
  <2>6. coalesce' \in {"none", "insert", "backspace"}
    BY <2>1
  <2> QED BY <2>1, <2>4, <2>5, <2>6, EditedShape
<1> QED BY <1>2, <1>3, <1>4

LEMMA ReplayKeepsShape ==
    ASSUME Shape, astray' \in 0 .. MaxAstray, Undo \/ Redo
    PROVE  Shape'
<1>1. /\ text \in Seq(Char) /\ text \in Text /\ undo \in Seq(Edit) /\ redo \in Seq(Edit)
      /\ past \in Seq(Text) /\ future \in Seq(Text) /\ stale \in Nat /\ corrupt \in BOOLEAN
      /\ Len(undo) \in Nat /\ Len(redo) \in Nat /\ Len(past) = Len(undo) /\ Len(future) = Len(redo)
  BY Shaped DEF Text, Shape, TypeOK
<1>2. CASE Undo
  <2> DEFINE op == Last(undo)
  <2>1. /\ undo # <<>> /\ text' = Splice(text, op.start, Len(op.inserted), op.removed)
        /\ cursor' = op.before /\ anchor' = op.before
        /\ undo' = Front(undo) /\ past' = Front(past)
        /\ redo' = Append(redo, op) /\ future' = Append(future, text)
        /\ coalesce' = "none" /\ Dirty /\ stale' = stale /\ corrupt' = corrupt
    BY <1>2 DEF Undo, MoveTo
  <2>2. /\ op \in Edit /\ op.start \in Nat /\ op.removed \in Seq(Char) /\ op.before \in Nat
        /\ Len(op.inserted) \in Nat
    BY <1>1, <2>1, LastIsEdit
  <2> HIDE DEF op
  <2>3. text' \in Text /\ cursor' \in Nat /\ anchor' \in Nat
    BY <1>1, <2>1, <2>2, SpliceType DEF Text
  <2>4. past # <<>>
    BY <1>1, <2>1, EmptySeq
  <2>5. undo' \in Seq(Edit) /\ past' \in Seq(Text) /\ Len(past') = Len(undo')
    BY <1>1, <2>1, <2>4, FrontShape
  <2>6. redo' \in Seq(Edit) /\ future' \in Seq(Text) /\ Len(future') = Len(redo')
    BY <1>1, <2>1, <2>2, AppendProperties
  <2>7. stale' \in Nat /\ corrupt' \in BOOLEAN /\ coalesce' \in {"none", "insert", "backspace"}
    BY <1>1, <2>1
  <2> QED BY <2>1, <2>3, <2>5, <2>6, <2>7, ChangedShape
<1>3. CASE Redo
  <2> DEFINE op == Last(redo)
  <2>1. /\ redo # <<>> /\ text' = Splice(text, op.start, Len(op.removed), op.inserted)
        /\ cursor' = op.after /\ anchor' = op.after
        /\ redo' = Front(redo) /\ future' = Front(future)
        /\ undo' = Append(undo, op) /\ past' = Append(past, text)
        /\ coalesce' = "none" /\ Dirty
        /\ corrupt' = (corrupt \/ Len(redo) <= stale)
        /\ stale' = AtMost(stale, Len(redo) - 1)
    BY <1>3 DEF Redo, MoveTo
  <2>2. /\ op \in Edit /\ op.start \in Nat /\ op.inserted \in Seq(Char) /\ op.after \in Nat
        /\ Len(op.removed) \in Nat
    BY <1>1, <2>1, LastIsEdit
  <2> HIDE DEF op
  <2>3. text' \in Text /\ cursor' \in Nat /\ anchor' \in Nat
    BY <1>1, <2>1, <2>2, SpliceType DEF Text
  <2>4. Len(redo) \in Nat \ {0} /\ future # <<>>
    BY <1>1, <2>1, EmptySeq
  <2>5. redo' \in Seq(Edit) /\ future' \in Seq(Text) /\ Len(future') = Len(redo')
    BY <1>1, <2>1, <2>4, FrontShape
  <2>6. undo' \in Seq(Edit) /\ past' \in Seq(Text) /\ Len(past') = Len(undo')
    BY <1>1, <2>1, <2>2, AppendProperties
  <2>7. stale' \in Nat
    BY <1>1, <2>1, <2>4 DEF AtMost
  <2>8. corrupt' \in BOOLEAN /\ coalesce' \in {"none", "insert", "backspace"}
    BY <2>1, Zenon
  <2> QED BY <2>1, <2>3, <2>5, <2>6, <2>7, <2>8, ChangedShape
<1> QED BY <1>2, <1>3

LEMMA DecodedIsText ==
    ASSUME NEW t \in Seq(Char)
    PROVE  Decode(t) \in Seq(Char)
BY HeadTailProperties DEF Decode

LEMMA LoadKeepsShape ==
    ASSUME NEW t \in Files, Load(t), astray' = 0
    PROVE  Shape'
<1>1. /\ text' = Decode(t) /\ disk' = t /\ cursor' = 0 /\ anchor' = 0
      /\ undo' = <<>> /\ past' = <<>> /\ redo' = <<>> /\ future' = <<>> /\ stale' = 0
      /\ coalesce' = "none" /\ dirty' = FALSE /\ torn' = FALSE /\ corrupt' = FALSE
  BY DEF Load, MoveTo, ClearRedo
<1>2. t \in Seq(Char) /\ Decode(t) \in Seq(Char)
  BY EditorAssumption, DecodedIsText DEF EditorAssumption
<1>3. dirty' \in BOOLEAN /\ torn' \in BOOLEAN /\ corrupt' \in BOOLEAN
  BY <1>1, Zenon
<1>4. 0 \in 0 .. MaxAstray
  BY EditorAssumption DEF EditorAssumption
<1>5. /\ undo' \in Seq(Edit) /\ past' \in Seq(Seq(Char)) /\ redo' \in Seq(Edit)
      /\ future' \in Seq(Seq(Char)) /\ Len(past') = Len(undo') /\ Len(future') = Len(redo')
      /\ stale' \in Nat /\ cursor' \in Nat /\ anchor' \in Nat
      /\ coalesce' \in {"none", "insert", "backspace"}
  BY <1>1
<1>6. text' \in Seq(Char) /\ disk' \in Seq(Char)
  BY <1>1, <1>2
<1> QED BY <1>3, <1>4, <1>5, <1>6 DEF Shape, TypeOK, Even

LEMMA QuietKeepsShape ==
    ASSUME Shape, astray' \in 0 .. MaxAstray, UNCHANGED <<text, undo, redo, history>>,
           cursor' \in Nat, anchor' \in Nat, coalesce' \in {"none", "insert", "backspace"},
           dirty' \in BOOLEAN, torn' \in BOOLEAN, disk' \in Seq(Char)
    PROVE  Shape'
BY DEF Shape, TypeOK, Even, history

\* What is typed and pasted are texts.
LEMMA NewTexts == \A new \in Typed \cup Clipboard : new \in Seq(Char)
<1>1. \A c \in Char : <<c>> \in Seq(Char)
  OBVIOUS
<1>2. \A new \in Typed : new \in Seq(Char)
  BY <1>1, DecodedIsText DEF Typed
<1>3. \A new \in Clipboard : new \in Seq(Char)
  BY EditorAssumption, DecodedIsText DEF EditorAssumption, Clipboard
<1> QED BY <1>2, <1>3

\* Every step keeps the shape, whatever state the history is in.
LEMMA NextShape == Shape /\ [Next]_vars => Shape'
<1> SUFFICES ASSUME Shape, [Next]_vars PROVE Shape'
  OBVIOUS
<1>1. CASE UNCHANGED vars
  BY <1>1 DEF vars, fileVars, history, Shape, TypeOK, Even
<1>2. ASSUME NEW t \in Files, Load(t), astray' = 0 PROVE Shape'
  BY <1>2, LoadKeepsShape
<1>3. ASSUME Command, astray' = (IF corrupt' THEN astray + 1 ELSE 0), astray' <= MaxAstray
      PROVE  Shape'
  <2>1. astray' \in 0 .. MaxAstray
    <3>1. astray \in Nat
      BY DEF Shape, TypeOK
    <3> QED BY <1>3, <3>1, EditorAssumption DEF EditorAssumption
  <2>2. /\ cursor \in Nat /\ anchor \in Nat /\ Len(text) \in Nat /\ text \in Seq(Char)
        /\ coalesce \in {"none", "insert", "backspace"} /\ disk \in Seq(Char)
    BY Shaped DEF Shape, TypeOK, Text
  <2>3. dirty \in BOOLEAN /\ torn \in BOOLEAN
    BY DEF Shape, TypeOK
  <2>4. CASE \/ \E at \in 0 .. Len(text), extend \in BOOLEAN : Move(at, extend)
             \/ SelectAll
    <3>1. cursor' \in Nat /\ anchor' \in Nat /\ coalesce' = "none"
      BY <2>2, <2>4 DEF Move, SelectAll, AtMost
    <3>2. UNCHANGED <<text, undo, redo, fileVars, history>>
      BY <2>4 DEF Move, SelectAll
    <3>3. dirty' = dirty /\ torn' = torn /\ disk' = disk
      BY <3>2 DEF fileVars
    <3>4. dirty' \in BOOLEAN /\ torn' \in BOOLEAN
      BY <2>3, <3>3, Zenon
    <3> QED BY <2>1, <2>2, <3>1, <3>2, <3>3, <3>4, QuietKeepsShape
  <2>5. ASSUME NEW new \in Typed \cup Clipboard, NEW kind \in {"none", "insert"},
               Insert(new, kind) \/ InsertMore(new, kind) \/ InsertOver(new, kind)
        PROVE  Shape'
    BY <2>1, <2>5, NewTexts, InsertKeepsShape, InsertOverKeepsShape
  <2>6. CASE DeleteSelection \/ InsertNothing \/ Backspace \/ BackspaceMore \/ DeleteForward
    BY <2>1, <2>6, DeleteKeepsShape
  <2>7. CASE Undo \/ Redo
    BY <2>1, <2>7, ReplayKeepsShape
  <2>8. CASE Save \/ SaveFails
    <3>1. /\ UNCHANGED <<text, undo, redo, history>>
          /\ cursor' = cursor /\ anchor' = anchor /\ coalesce' = coalesce
      BY <2>8 DEF Save, SaveFails
    <3>2. disk' = text \/ disk' = <<>>
      BY <2>8 DEF Save, SaveFails
    <3>3. disk' \in Seq(Char)
      <4>1. <<>> \in Seq(Char)
        OBVIOUS
      <4> QED BY <2>2, <3>2, <4>1
    <3>4. dirty' \in {dirty, FALSE} /\ torn' \in {FALSE, ~dirty}
      BY <2>8, Zenon DEF Save, SaveFails
    <3>5. dirty' \in BOOLEAN /\ torn' \in BOOLEAN
      BY <2>3, <3>4, Zenon
    <3> QED BY <2>1, <2>2, <3>1, <3>3, <3>5, QuietKeepsShape
  <2> QED BY <1>3, <2>4, <2>5, <2>6, <2>7, <2>8 DEF Command
<1> QED BY <1>1, <1>2, <1>3 DEF Next

-----------------------------------------------------------------------------
(***************************************************************************)
(* The invariant: besides, unless the history has gone astray, the stacks  *)
(* fit the text and the cursor lies inside it.                             *)
(***************************************************************************)

Fits == UndoFits /\ RedoFits /\ CursorInText

IInv == Shape /\ Fits

\* What an operation on an intact history may rely on.
LEMMA Intact ==
    ASSUME IInv, ~corrupt
    PROVE  /\ text \in Text /\ undo \in Seq(Edit) /\ redo \in Seq(Edit)
           /\ past \in Seq(Text) /\ future \in Seq(Text) /\ stale \in Nat
           /\ cursor \in Nat /\ anchor \in Nat /\ Len(text) \in Nat
           /\ cursor <= Len(text) /\ anchor <= Len(text)
           /\ LeadTo(undo, past, text) /\ LeadFrom(text, redo, future, stale)
BY Shaped DEF IInv, Fits, UndoFits, RedoFits, CursorInText

\* With nothing to apply again, whatever is there follows.
LEMMA NothingUndone ==
    ASSUME ClearRedo
    PROVE  /\ redo' \in Seq(Edit) /\ future' \in Seq(Text) /\ stale' \in Nat
           /\ LeadFrom(text', redo', future', stale')
<1>1. redo' = <<>> /\ future' = <<>> /\ stale' = 0
  BY DEF ClearRedo
<1>2. Len(redo') = 0 /\ Len(future') = 0 /\ \A i \in stale' + 1 .. 0 : FALSE
  BY <1>1
<1> QED BY <1>1, <1>2 DEF LeadFrom

\* A change of the text that is recorded, or made part of the edit recorded
\* last, with the cursor at a place in the new text, and the redo stack cleared.
LEMMA Edited ==
    ASSUME IInv, ~corrupt, NEW at \in Nat,
           text' \in Text, undo' \in Seq(Edit), past' \in Seq(Text),
           LeadTo(undo', past', text'), MoveTo(at), at <= Len(text'),
           ClearRedo
    PROVE  Fits'
<1>1. /\ redo' \in Seq(Edit) /\ future' \in Seq(Text) /\ stale' \in Nat
      /\ LeadFrom(text', redo', future', stale')
  BY NothingUndone
<1>2. cursor' = at /\ anchor' = at
  BY DEF MoveTo
<1> QED BY <1>1, <1>2 DEF Fits, UndoFits, RedoFits, CursorInText

LEMMA RecordLeads ==
    ASSUME IInv, ~corrupt, NEW op \in Edit, text' \in Text, Takes(op, text, text'), Record(op)
    PROVE  undo' \in Seq(Edit) /\ past' \in Seq(Text) /\ LeadTo(undo', past', text')
BY Intact, PushLeads DEF Record

LEMMA AmendKeepsLeading ==
    ASSUME IInv, ~corrupt, undo # <<>>, NEW op \in Edit,
           text' \in Text, Takes(op, Last(past), text'), Amend(op)
    PROVE  undo' \in Seq(Edit) /\ past' \in Seq(Text) /\ LeadTo(undo', past', text')
<1>1. /\ LeadTo([undo EXCEPT ![Len(undo)] = op], past, text')
      /\ [undo EXCEPT ![Len(undo)] = op] \in Seq(Edit)
  BY Intact, AmendLeads
<1> QED BY <1>1, Intact DEF Amend

-----------------------------------------------------------------------------

LEMMA InsertStep ==
    ASSUME IInv, ~corrupt, NEW new \in Seq(Char), NEW kind \in {"none", "insert"},
           Insert(new, kind)
    PROVE  Fits'
<1>1. text' = Splice(text, cursor, 0, new) /\ Record(Insertion(cursor, new))
  BY DEF Insert
<1>2. text \in Seq(Char) /\ cursor \in Nat /\ cursor <= Len(text) /\ Len(new) \in Nat
  BY Intact, LenProperties DEF Text
<1>3. /\ Insertion(cursor, new) \in Edit /\ Takes(Insertion(cursor, new), text, text')
      /\ text' \in Text /\ cursor + Len(new) <= Len(text')
  BY <1>1, <1>2, InsertionTakes DEF Text
<1>4. undo' \in Seq(Edit) /\ past' \in Seq(Text) /\ LeadTo(undo', past', text')
  BY <1>1, <1>3, RecordLeads
<1>5. /\ cursor + Len(new) \in Nat /\ MoveTo(cursor + Len(new)) /\ coalesce' = kind
      /\ Dirty /\ ClearRedo /\ UNCHANGED corrupt
  BY <1>2 DEF Insert
<1> QED BY <1>3, <1>4, <1>5, Edited

LEMMA InsertMoreStep ==
    ASSUME IInv, ~corrupt, NEW new \in Seq(Char), NEW kind \in {"none", "insert"},
           InsertMore(new, kind)
    PROVE  Fits'
<1> DEFINE last == Last(undo)
           op == [last EXCEPT !.inserted = @ \o new, !.after = cursor + Len(new)]
<1>1. text' = Splice(text, cursor, 0, new) /\ Amend(op)
  BY DEF InsertMore
<1>2. /\ text \in Seq(Char) /\ cursor \in Nat /\ cursor <= Len(text) /\ Len(new) \in Nat
      /\ LeadTo(undo, past, text) /\ undo \in Seq(Edit) /\ past \in Seq(Text)
  BY Intact, LenProperties DEF Text
<1>3. undo # <<>> /\ last.kind = "Inserted" /\ last.start + Len(last.inserted) = cursor
  BY DEF InsertMore, Continues
<1>4. /\ last \in Edit /\ Last(past) \in Seq(Char) /\ Takes(last, Last(past), text)
  BY <1>2, <1>3, LastTakes DEF Text
<1>5. /\ text' \in Text /\ cursor + Len(new) <= Len(text')
  BY <1>1, <1>2, InsertionTakes DEF Text
<1>6. /\ last.start \in Nat /\ last.removed \in Seq(Char) /\ last.inserted \in Seq(Char)
      /\ last.start + Len(last.removed) <= Len(Last(past))
      /\ Occurs(last.removed, Last(past), last.start)
  BY <1>4, TakesOccurs
<1>7. text = Splice(Last(past), last.start, Len(last.removed), last.inserted)
      /\ last.before <= Len(Last(past)) /\ last.before \in Nat
  BY <1>4 DEF Takes, Edit
<1>8. text' = Splice(Last(past), last.start, Len(last.removed), last.inserted \o new)
  <2>1. Splice(Splice(Last(past), last.start, Len(last.removed), last.inserted),
               last.start + Len(last.inserted), 0, new)
          = Splice(Last(past), last.start, Len(last.removed), last.inserted \o new)
    BY <1>4, <1>6, SpliceOn
  <2> QED BY <1>1, <1>3, <1>7, <2>1
<1>9. /\ op.start = last.start /\ op.removed = last.removed
      /\ op.inserted = last.inserted \o new /\ op.before = last.before
      /\ op.after = cursor + Len(new) /\ op.kind = "Inserted"
  BY <1>3, <1>4 DEF Edit
<1>10. op \in Edit
  <2>1. last.inserted \o new \in Seq(Char) /\ cursor + Len(new) \in Nat
    BY <1>2, <1>6, ConcatProperties
  <2> QED BY <1>3, <1>4, <2>1 DEF Edit
<1> HIDE DEF op, last
<1>11. Takes(op, Last(past), text')
  <2>1. text' = Splice(Last(past), op.start, Len(op.removed), op.inserted)
    BY <1>8, <1>9
  <2>2. /\ op.start + Len(op.removed) <= Len(Last(past)) /\ op.before <= Len(Last(past))
        /\ Occurs(op.removed, Last(past), op.start) /\ op.after <= Len(text')
    BY <1>5, <1>6, <1>7, <1>9
  <2> QED BY <1>4, <1>10, <2>1, <2>2, TakesIf
<1>12. undo' \in Seq(Edit) /\ past' \in Seq(Text) /\ LeadTo(undo', past', text')
  BY <1>1, <1>3, <1>5, <1>10, <1>11, AmendKeepsLeading
<1>13. /\ cursor + Len(new) \in Nat /\ MoveTo(cursor + Len(new)) /\ coalesce' = kind
       /\ Dirty /\ ClearRedo /\ UNCHANGED corrupt
  BY <1>2 DEF InsertMore
<1> QED BY <1>5, <1>12, <1>13, Edited

\* The selection lies in the text, and deleting it is an edit.
LEMMA SelectionTakes ==
    ASSUME IInv, ~corrupt
    PROVE  /\ Lo \in Nat /\ Hi \in Nat /\ Lo <= Hi /\ Hi <= Len(text)
           /\ Deletion(Lo, Hi, cursor) \in Edit
           /\ Takes(Deletion(Lo, Hi, cursor), text, Splice(text, Lo, Hi - Lo, <<>>))
           /\ Splice(text, Lo, Hi - Lo, <<>>) \in Seq(Char)
           /\ Lo <= Len(Splice(text, Lo, Hi - Lo, <<>>))
<1>1. /\ text \in Seq(Char) /\ cursor \in Nat /\ anchor \in Nat
      /\ cursor <= Len(text) /\ anchor <= Len(text)
  BY Intact DEF Text
<1>2. Lo \in Nat /\ Hi \in Nat /\ Lo <= Hi /\ Hi <= Len(text)
  BY <1>1 DEF Lo, Hi, AtMost
<1> QED BY <1>1, <1>2, DeletionTakes

LEMMA InsertOverStep ==
    ASSUME IInv, ~corrupt, NEW new \in Seq(Char), NEW kind \in {"none", "insert"},
           InsertOver(new, kind)
    PROVE  Fits'
<1> DEFINE bare == Splice(text, Lo, Hi - Lo, <<>>)
           cut == Deletion(Lo, Hi, cursor)
           ins == Insertion(Lo, new)
<1>1. /\ text' = Splice(bare, Lo, 0, new)
      /\ undo' = Push(Push(undo, cut), ins) /\ past' = Push(Push(past, text), bare)
      /\ MoveTo(Lo + Len(new)) /\ coalesce' = kind /\ Dirty /\ ClearRedo
      /\ UNCHANGED corrupt
  BY DEF InsertOver
<1>2. /\ text \in Text /\ undo \in Seq(Edit) /\ past \in Seq(Text)
      /\ LeadTo(undo, past, text)
  BY Intact
<1>3. /\ Lo \in Nat /\ cut \in Edit /\ Takes(cut, text, bare)
      /\ bare \in Seq(Char) /\ bare \in Text /\ Lo <= Len(bare)
  BY SelectionTakes DEF Text
<1> HIDE DEF bare, cut
<1>4. /\ ins \in Edit /\ Takes(ins, bare, text') /\ text' \in Text
      /\ Lo + Len(new) <= Len(text')
  BY <1>1, <1>3, InsertionTakes DEF Text
<1> HIDE DEF ins
<1>5. /\ LeadTo(Push(undo, cut), Push(past, text), bare)
      /\ Push(undo, cut) \in Seq(Edit) /\ Push(past, text) \in Seq(Text)
  BY <1>2, <1>3, PushLeads
<1>6. undo' \in Seq(Edit) /\ past' \in Seq(Text) /\ LeadTo(undo', past', text')
  BY <1>1, <1>3, <1>4, <1>5, PushLeads
<1>7. Lo + Len(new) \in Nat
  BY <1>3, LenProperties
<1> QED BY <1>1, <1>4, <1>6, <1>7, Edited

LEMMA DeleteSelectionStep ==
    ASSUME IInv, ~corrupt, DeleteSelection
    PROVE  Fits'
<1>1. /\ text' = Splice(text, Lo, Hi - Lo, <<>>) /\ Record(Deletion(Lo, Hi, cursor))
      /\ MoveTo(Lo) /\ coalesce' = "none" /\ Dirty /\ ClearRedo /\ UNCHANGED corrupt
  BY DEF DeleteSelection
<1>2. /\ Lo \in Nat /\ Lo <= Len(text') /\ text' \in Text
      /\ Deletion(Lo, Hi, cursor) \in Edit /\ Takes(Deletion(Lo, Hi, cursor), text, text')
  BY <1>1, SelectionTakes DEF Text
<1>3. undo' \in Seq(Edit) /\ past' \in Seq(Text) /\ LeadTo(undo', past', text')
  BY <1>1, <1>2, RecordLeads
<1> QED BY <1>1, <1>2, <1>3, Edited

LEMMA InsertNothingStep ==
    ASSUME IInv, ~corrupt, InsertNothing
    PROVE  Fits'
<1>1. /\ text' = Splice(text, Lo, Hi - Lo, <<>>) /\ Record(Deletion(Lo, Hi, cursor))
      /\ cursor' = Lo /\ anchor' = Lo /\ coalesce' = "none"
      /\ dirty' = TRUE /\ disk' = <<>> /\ torn' = FALSE
      /\ stale' = Len(redo) /\ redo' = redo /\ future' = future /\ corrupt' = corrupt
  BY DEF InsertNothing, MoveTo, Dirty
<1>2. /\ Lo \in Nat /\ Lo <= Len(text') /\ text' \in Text
      /\ Deletion(Lo, Hi, cursor) \in Edit /\ Takes(Deletion(Lo, Hi, cursor), text, text')
  BY <1>1, SelectionTakes DEF Text
<1>3. undo' \in Seq(Edit) /\ past' \in Seq(Text) /\ LeadTo(undo', past', text')
  BY <1>1, <1>2, RecordLeads
<1>4. /\ redo \in Seq(Edit) /\ future \in Seq(Text) /\ Len(redo) \in Nat
      /\ Len(future) = Len(redo)
  BY Intact, LenProperties DEF LeadFrom
<1>5. LeadFrom(text', redo', future', stale')
  <2>1. \A i \in Len(redo) + 1 .. Len(redo) : FALSE
    BY <1>4
  <2> QED BY <1>1, <1>4, <2>1 DEF LeadFrom
<1> QED BY <1>1, <1>2, <1>3, <1>5 DEF Fits, UndoFits, RedoFits, CursorInText

LEMMA BackspaceStep ==
    ASSUME IInv, ~corrupt, Backspace
    PROVE  Fits'
<1>1. /\ text' = Splice(text, cursor - 1, 1, <<>>)
      /\ Record(Deletion(cursor - 1, cursor, cursor))
      /\ MoveTo(cursor - 1) /\ coalesce' = "backspace" /\ Dirty /\ ClearRedo
      /\ UNCHANGED corrupt /\ cursor > 0
  BY DEF Backspace
<1>2. text \in Seq(Char) /\ cursor \in Nat /\ cursor <= Len(text) /\ Len(text) \in Nat
  BY Intact DEF Text
<1>3. /\ cursor - 1 \in Nat /\ cursor - 1 <= cursor /\ cursor - (cursor - 1) = 1
  BY <1>1, <1>2
<1>4. /\ Deletion(cursor - 1, cursor, cursor) \in Edit
      /\ Takes(Deletion(cursor - 1, cursor, cursor), text, text')
      /\ text' \in Text /\ cursor - 1 <= Len(text')
  <2>1. PICK lo \in Nat : lo = cursor - 1
    BY <1>3
  <2>2. lo <= cursor /\ cursor - lo = 1
    BY <1>2, <2>1
  <2>3. /\ Deletion(lo, cursor, cursor) \in Edit
        /\ Takes(Deletion(lo, cursor, cursor), text, Splice(text, lo, cursor - lo, <<>>))
        /\ Splice(text, lo, cursor - lo, <<>>) \in Seq(Char)
        /\ lo <= Len(Splice(text, lo, cursor - lo, <<>>))
    BY <1>2, <2>2, DeletionTakes
  <2> QED BY <1>1, <2>1, <2>2, <2>3 DEF Text
<1>5. undo' \in Seq(Edit) /\ past' \in Seq(Text) /\ LeadTo(undo', past', text')
  BY <1>1, <1>4, RecordLeads
<1> QED BY <1>1, <1>3, <1>4, <1>5, Edited

LEMMA DeleteForwardStep ==
    ASSUME IInv, ~corrupt, DeleteForward
    PROVE  Fits'
<1>1. /\ text' = Splice(text, cursor, 1, <<>>)
      /\ Record(Deletion(cursor, cursor + 1, cursor))
      /\ cursor' = cursor /\ anchor' = anchor /\ anchor = cursor
      /\ coalesce' = "none" /\ Dirty /\ ClearRedo
      /\ UNCHANGED corrupt /\ cursor < Len(text)
  BY DEF DeleteForward, HasSelection
<1>2. text \in Seq(Char) /\ cursor \in Nat /\ cursor <= Len(text) /\ Len(text) \in Nat
  BY Intact DEF Text
<1>3. /\ Deletion(cursor, cursor + 1, cursor) \in Edit
      /\ Takes(Deletion(cursor, cursor + 1, cursor), text, text')
      /\ text' \in Text /\ cursor <= Len(text')
  <2>1. PICK hi \in Nat : hi = cursor + 1
    BY <1>2
  <2>2. cursor <= hi /\ hi <= Len(text) /\ hi - cursor = 1
    BY <1>1, <1>2, <2>1
  <2>3. /\ Deletion(cursor, hi, cursor) \in Edit
        /\ Takes(Deletion(cursor, hi, cursor), text, Splice(text, cursor, hi - cursor, <<>>))
        /\ Splice(text, cursor, hi - cursor, <<>>) \in Seq(Char)
        /\ cursor <= Len(Splice(text, cursor, hi - cursor, <<>>))
    BY <1>2, <2>2, DeletionTakes
  <2> QED BY <1>1, <2>1, <2>2, <2>3 DEF Text
<1>4. undo' \in Seq(Edit) /\ past' \in Seq(Text) /\ LeadTo(undo', past', text')
  BY <1>1, <1>3, RecordLeads
<1>5. MoveTo(cursor)
  BY <1>1 DEF MoveTo
<1> QED BY <1>1, <1>2, <1>3, <1>4, <1>5, Edited

LEMMA BackspaceMoreStep ==
    ASSUME IInv, ~corrupt, BackspaceMore
    PROVE  Fits'
<1> DEFINE last == Last(undo)
           x == Slice(text, cursor - 1, cursor)
           op == [last EXCEPT !.removed = x \o @, !.start = cursor - 1, !.after = cursor - 1]
<1>1. text' = Splice(text, cursor - 1, 1, <<>>) /\ Amend(op) /\ cursor > 0
  BY DEF BackspaceMore
<1>2. /\ text \in Seq(Char) /\ cursor \in Nat /\ cursor <= Len(text) /\ Len(text) \in Nat
      /\ LeadTo(undo, past, text) /\ undo \in Seq(Edit) /\ past \in Seq(Text)
  BY Intact DEF Text
<1>3. undo # <<>> /\ last.kind = "Deleted" /\ last.start = cursor
  BY DEF BackspaceMore, ExtendsBack
<1>4. /\ last \in Edit /\ Last(past) \in Seq(Char) /\ Takes(last, Last(past), text)
  BY <1>2, <1>3, LastTakes DEF Text
<1>5. PICK s \in Nat : s = cursor - 1 /\ s + 1 = cursor
  BY <1>1, <1>2
<1>6. PICK a \in Seq(Char) : a = Last(past)
  BY <1>4
<1>r. PICK r \in Seq(Char), lr \in Nat, la \in Nat :
         r = last.removed /\ lr = Len(r) /\ la = Len(a)
  BY <1>4, TakesOccurs, LenProperties
<1>z. <<>> \in Seq(Char)
  OBVIOUS
<1>7. (s + 1) + lr <= la /\ Occurs(r, a, s + 1)
  BY <1>3, <1>4, <1>5, <1>6, <1>r, TakesOccurs
<1>8. /\ text = Splice(a, s + 1, lr, <<>>)
      /\ last.inserted = <<>> /\ last.before <= la /\ last.before \in Nat
  BY <1>3, <1>4, <1>5, <1>6, <1>r DEF Takes, Edit
<1>9. x \in Seq(Char) /\ Len(x) = 1 /\ Occurs(x, text, s)
  <2>1. PICK hi \in Nat : hi = cursor
    BY <1>2
  <2>2. s <= hi /\ hi <= Len(text) /\ hi - s = 1
    BY <1>2, <1>5, <2>1
  <2>3. /\ Slice(text, s, hi) \in Seq(Char) /\ Len(Slice(text, s, hi)) = hi - s
        /\ Occurs(Slice(text, s, hi), text, s)
    BY <1>2, <2>2, SliceOccurs
  <2> QED BY <1>5, <2>1, <2>2, <2>3
<1> HIDE DEF x
<1>10. Occurs(x, a, s)
  <2>1. text[s + 1] = a[s + 1]
    <3>1. PICK k \in Nat : k = s + 1
      OBVIOUS
    <3>2. k + lr <= Len(a)
      BY <1>7, <1>r, <3>1
    <3>3. IsSplice(Splice(a, k, lr, <<>>), a, k, lr, <<>>)
      BY <1>z, <3>2, SpliceIsSplice
    <3>4. IsSplice(text, a, k, lr, <<>>)
      BY <1>8, <3>1, <3>3
    <3>5. \A i \in 1 .. Len(a) - lr + Len(<<>>) : i <= k => text[i] = a[i]
      BY <3>4 DEF IsSplice
    <3>6. \A i \in 1 .. la - lr : i <= k => text[i] = a[i]
      <4>1. Len(a) - lr + Len(<<>>) = la - lr
        BY <1>r
      <4> QED BY <3>5, <4>1
    <3>7. k \in 1 .. la - lr /\ k <= k
      BY <1>7, <3>1
    <3> QED BY <3>1, <3>6, <3>7
  <2>2. x[1] = text[s + 1]
    BY <1>9 DEF Occurs
  <2>3. \A i \in 1 .. Len(x) : i = 1
    BY <1>9
  <2> QED BY <2>1, <2>2, <2>3 DEF Occurs
<1>11. /\ x \o r \in Seq(Char)
       /\ Len(x \o r) = 1 + lr
       /\ Occurs(x \o r, a, s)
  <2>1. /\ x \o r \in Seq(Char)
        /\ Len(x \o r) = Len(x) + lr
        /\ \A i \in 1 .. Len(x) + lr :
              (x \o r)[i]
                 = IF i <= Len(x) THEN x[i] ELSE r[i - Len(x)]
    <3>1. /\ x \o r \in Seq(Char) /\ Len(x \o r) = Len(x) + Len(r)
          /\ \A i \in 1 .. Len(x) + Len(r) :
                (x \o r)[i] = IF i <= Len(x) THEN x[i] ELSE r[i - Len(x)]
      BY <1>9, ConcatProperties
    <3> QED BY <3>1, <1>r
  <2>2. /\ Len(x \o r) = 1 + lr
        /\ \A i \in 1 .. 1 + lr :
              (x \o r)[i] = IF i <= 1 THEN x[i] ELSE r[i - 1]
    BY <1>9, <2>1
  <2>3. x[1] = a[s + 1]
    BY <1>9, <1>10 DEF Occurs
  <2>4. \A i \in 1 .. lr : r[i] = a[(s + 1) + i]
    BY <1>7, <1>r DEF Occurs
  <2>5. ASSUME NEW i \in 1 .. 1 + lr
        PROVE  (x \o r)[i] = a[s + i]
    <3>1. CASE i = 1
      BY <3>1, <2>2, <2>3
    <3>2. CASE i # 1
      <4>1. i - 1 \in 1 .. lr /\ (s + 1) + (i - 1) = s + i /\ ~(i <= 1)
        BY <3>2, <1>7
      <4> QED BY <4>1, <2>2, <2>4
    <3> QED BY <3>1, <3>2
  <2> QED BY <2>1, <2>2, <2>5 DEF Occurs
<1>12. text' = Splice(a, s, Len(x \o r), <<>>)
  <2>1. (s + 1) + Len(r) <= Len(a)
    BY <1>7, <1>r
  <2>2. Splice(Splice(a, s + 1, Len(r), <<>>), s, 1, <<>>)
           = Splice(a, s, Len(x \o r), <<>>)
    BY <1>9, <2>1, SpliceBefore
  <2> QED BY <1>1, <1>5, <1>8, <1>r, <2>2
<1>13. /\ op.start = s /\ op.removed = x \o r /\ op.inserted = <<>>
       /\ op.before = last.before /\ op.after = s /\ op.kind = "Deleted"
  BY <1>3, <1>4, <1>5, <1>8, <1>r DEF Edit
<1>14. op \in Edit
  BY <1>3, <1>4, <1>5, <1>11, <1>r DEF Edit
<1> HIDE DEF op, last
<1>15. text' \in Text /\ s <= Len(text')
  <2>1. PICK n \in Nat : n = 1 + lr /\ n = Len(x \o r)
    BY <1>11
  <2>l. s + n <= Len(a)
    <3>1. s + n <= la
      BY <1>7, <2>1
    <3> QED BY <1>r, <3>1
  <2>2. IsSplice(Splice(a, s, n, <<>>), a, s, n, <<>>)
    BY <1>z, <2>l, SpliceIsSplice
  <2>3. Splice(a, s, n, <<>>) \in Seq(Char) /\ Len(Splice(a, s, n, <<>>)) = Len(a) - n + 0
    BY <2>2 DEF IsSplice
  <2>4. s <= Len(a) - n + 0
    BY <1>r, <2>l
  <2> QED BY <1>12, <2>1, <2>3, <2>4 DEF Text
<1>16. Takes(op, Last(past), text')
  <2>1. text' = Splice(a, op.start, Len(op.removed), op.inserted)
    BY <1>12, <1>13
  <2>2. op.start + Len(op.removed) <= Len(a)
    <3>1. s + (1 + lr) <= la
      BY <1>7
    <3> QED BY <3>1, <1>r, <1>11, <1>13
  <2>3. op.before <= Len(a) /\ Occurs(op.removed, a, op.start) /\ op.after <= Len(text')
    BY <1>r, <1>8, <1>11, <1>13, <1>15
  <2> QED BY <1>6, <1>14, <2>1, <2>2, <2>3, TakesIf
<1>17. undo' \in Seq(Edit) /\ past' \in Seq(Text) /\ LeadTo(undo', past', text')
  BY <1>1, <1>3, <1>14, <1>15, <1>16, AmendKeepsLeading
<1>18. /\ MoveTo(s) /\ coalesce' = "backspace" /\ Dirty /\ ClearRedo /\ UNCHANGED corrupt
  BY <1>5 DEF BackspaceMore
<1> QED BY <1>15, <1>17, <1>18, Edited

LEMMA UndoStep ==
    ASSUME IInv, ~corrupt, Undo
    PROVE  Fits'
<1> DEFINE op == Last(undo)
<1>1. /\ undo # <<>> /\ text' = Splice(text, op.start, Len(op.inserted), op.removed)
      /\ cursor' = op.before /\ anchor' = op.before
      /\ undo' = Front(undo) /\ past' = Front(past)
      /\ redo' = Append(redo, op) /\ future' = Append(future, text)
      /\ coalesce' = "none" /\ dirty' = TRUE /\ disk' = <<>> /\ torn' = FALSE
      /\ stale' = stale /\ corrupt' = corrupt
  BY DEF Undo, MoveTo, Dirty
<1>2. /\ text \in Text /\ undo \in Seq(Edit) /\ past \in Seq(Text)
      /\ redo \in Seq(Edit) /\ future \in Seq(Text) /\ stale \in Nat
      /\ LeadTo(undo, past, text) /\ LeadFrom(text, redo, future, stale)
  BY Intact
<1>3. /\ past # <<>> /\ op \in Edit /\ Last(past) \in Text /\ Takes(op, Last(past), text)
  BY <1>1, <1>2, LastTakes
<1>4. text' = Last(past)
  BY <1>1, <1>3, TakesBack DEF Text
<1>5. LeadTo(undo', past', text')
  BY <1>1, <1>2, <1>4, FrontLeads
<1>6. undo' \in Seq(Edit) /\ past' \in Seq(Text)
  BY <1>1, <1>2, <1>3, FrontShape
<1>7. op.before \in Nat /\ op.before <= Len(text')
  BY <1>3, <1>4 DEF Takes, Edit
<1> HIDE DEF op
<1>8. LeadFrom(text', redo', future', stale')
  BY <1>1, <1>2, <1>3, <1>4, UndoneLeads
<1>9. redo' \in Seq(Edit) /\ future' \in Seq(Text)
  BY <1>1, <1>2, <1>3, AppendProperties
<1>11. cursor' <= Len(text') /\ anchor' <= Len(text')
  BY <1>1, <1>7
<1> QED BY <1>5, <1>8, <1>11 DEF Fits, UndoFits, RedoFits, CursorInText

LEMMA RedoStep ==
    ASSUME IInv, ~corrupt, Redo
    PROVE  Fits'
<1> DEFINE op == Last(redo)
<1>1. /\ redo # <<>> /\ text' = Splice(text, op.start, Len(op.removed), op.inserted)
      /\ cursor' = op.after /\ anchor' = op.after
      /\ redo' = Front(redo) /\ future' = Front(future)
      /\ undo' = Append(undo, op) /\ past' = Append(past, text)
      /\ coalesce' = "none" /\ dirty' = TRUE /\ disk' = <<>> /\ torn' = FALSE
      /\ corrupt' = (corrupt \/ Len(redo) <= stale)
      /\ stale' = AtMost(stale, Len(redo) - 1)
  BY DEF Redo, MoveTo, Dirty
<1>2. /\ text \in Text /\ undo \in Seq(Edit) /\ past \in Seq(Text)
      /\ redo \in Seq(Edit) /\ future \in Seq(Text) /\ stale \in Nat
      /\ LeadTo(undo, past, text) /\ LeadFrom(text, redo, future, stale)
  BY Intact
<1>3. Len(redo) \in Nat \ {0} /\ Len(future) = Len(redo) /\ future # <<>>
  BY <1>1, <1>2, EmptySeq DEF LeadFrom
<1>4. op \in Edit
  <2>1. Len(redo) \in 1 .. Len(redo)
    BY <1>3
  <2> QED BY <1>2, <2>1, ElementOfSeq DEF Last
<1>5. /\ op.start \in Nat /\ op.removed \in Seq(Char) /\ op.inserted \in Seq(Char)
      /\ op.after \in Nat /\ Len(op.removed) \in Nat
  BY <1>4, LenProperties DEF Edit
<1> HIDE DEF op
<1>6. text' \in Text
  BY <1>1, <1>2, <1>5, SpliceType DEF Text
<1>7. undo' \in Seq(Edit) /\ past' \in Seq(Text)
  BY <1>1, <1>2, <1>4, AppendProperties
<1>8. redo' \in Seq(Edit) /\ future' \in Seq(Text)
  BY <1>1, <1>2, <1>3, FrontShape
<1>9. stale' \in Nat
  BY <1>1, <1>2, <1>3 DEF AtMost
<1>11. ASSUME ~corrupt'
       PROVE  /\ LeadTo(undo', past', text') /\ LeadFrom(text', redo', future', stale')
              /\ op.after <= Len(text')
  <2>1. ~(Len(redo) <= stale)
    BY <1>1, <1>11, Zenon
  <2>2. stale < Len(redo) /\ stale' = stale
    BY <1>1, <1>2, <1>3, <2>1 DEF AtMost
  <2>3. /\ Takes(op, text, Last(future)) /\ Last(future) \in Text
        /\ LeadFrom(Last(future), Front(redo), Front(future), stale)
    BY <1>2, <2>2, RedoneLeads DEF op
  <2>4. text' = Last(future) /\ op.after <= Len(text')
    BY <1>1, <2>3 DEF Takes
  <2>5. LeadTo(undo', past', text')
    BY <1>1, <1>2, <1>4, <1>6, <2>3, <2>4, AppendLeads
  <2> QED BY <1>1, <2>2, <2>3, <2>4, <2>5
<1>12. cursor' = op.after /\ anchor' = op.after
  BY <1>1
<1> QED BY <1>11, <1>12 DEF Fits, UndoFits, RedoFits, CursorInText

LEMMA LoadStep ==
    ASSUME NEW t \in Files, Load(t)
    PROVE  Fits'
<1>1. /\ text' = Decode(t) /\ cursor' = 0 /\ anchor' = 0
      /\ undo' = <<>> /\ past' = <<>> /\ ClearRedo
  BY DEF Load, MoveTo
<1>2. Decode(t) \in Seq(Char) /\ Len(Decode(t)) \in Nat
  BY EditorAssumption, DecodedIsText, LenProperties DEF EditorAssumption
<1>3. /\ redo' \in Seq(Edit) /\ future' \in Seq(Text) /\ stale' \in Nat
      /\ LeadFrom(text', redo', future', stale')
  BY <1>1, NothingUndone
<1>4. undo' \in Seq(Edit) /\ past' \in Seq(Text) /\ LeadTo(undo', past', text')
  <2>1. undo' = <<>> /\ past' = <<>>
    BY <1>1
  <2>2. \A i \in 1 .. 0 : FALSE
    OBVIOUS
  <2> QED BY <2>1, <2>2 DEF LeadTo
<1>6. cursor' <= Len(text') /\ anchor' <= Len(text')
  <2>1. cursor' = 0 /\ anchor' = 0 /\ text' = Decode(t)
    BY <1>1, Zenon
  <2> QED BY <1>2, <2>1
<1> QED BY <1>3, <1>4, <1>6 DEF Fits, UndoFits, RedoFits, CursorInText

\* Moving the cursor inside the text, saving, and doing nothing change neither
\* the text nor the stacks.
LEMMA QuietStep ==
    ASSUME IInv, UNCHANGED <<text, undo, redo, history>>,
           ~corrupt => cursor' <= Len(text) /\ anchor' <= Len(text)
    PROVE  Fits'
BY DEF IInv, Fits, UndoFits, RedoFits, CursorInText, history

LEMMA MoveStep ==
    ASSUME IInv, ~corrupt, NEW at \in Nat, NEW extend \in BOOLEAN, Move(at, extend)
    PROVE  Fits'
<1>1. text \in Text /\ cursor \in Nat /\ anchor \in Nat /\ Len(text) \in Nat
      /\ cursor <= Len(text) /\ anchor <= Len(text)
  BY Intact
<1>2. AtMost(at, Len(text)) \in Nat /\ AtMost(at, Len(text)) <= Len(text)
  BY <1>1 DEF AtMost
<1>3. /\ cursor' = AtMost(at, Len(text)) /\ anchor' \in {anchor, cursor'}
      /\ coalesce' = "none" /\ UNCHANGED <<text, undo, redo, fileVars, history>>
  BY DEF Move
<1>4. /\ cursor' \in Nat /\ anchor' \in Nat
      /\ cursor' <= Len(text) /\ anchor' <= Len(text)
  BY <1>1, <1>2, <1>3
<1> QED BY <1>3, <1>4, QuietStep

LEMMA SelectAllStep ==
    ASSUME IInv, ~corrupt, SelectAll
    PROVE  Fits'
<1>1. Len(text) \in Nat
  BY Intact
<1>2. /\ cursor' = Len(text) /\ anchor' = 0 /\ coalesce' = "none"
      /\ UNCHANGED <<text, undo, redo, fileVars, history>>
  BY DEF SelectAll
<1> QED BY <1>1, <1>2, QuietStep

LEMMA SaveStep ==
    ASSUME IInv, Save \/ SaveFails
    PROVE  Fits'
<1>1. UNCHANGED <<text, cursor, anchor, undo, redo, coalesce, history>>
  BY DEF Save, SaveFails
<1>2. ~corrupt => cursor' <= Len(text) /\ anchor' <= Len(text)
  BY <1>1 DEF IInv, Fits, CursorInText
<1> QED BY <1>1, <1>2, QuietStep

\* The invariant holds at the start.
LEMMA InitIInv == Init => IInv
<1> SUFFICES ASSUME Init PROVE IInv
  OBVIOUS
<1>1. /\ text = <<>> /\ cursor = 0 /\ anchor = 0 /\ undo = <<>> /\ redo = <<>>
      /\ coalesce = "none" /\ dirty = FALSE /\ disk = <<>> /\ torn = FALSE
      /\ past = <<>> /\ future = <<>> /\ stale = 0 /\ corrupt = FALSE /\ astray = 0
  BY DEF Init
<1>2. Shape
  <2>1. dirty \in BOOLEAN /\ torn \in BOOLEAN /\ corrupt \in BOOLEAN
    BY <1>1, Zenon
  <2>2. /\ text = <<>> /\ cursor = 0 /\ anchor = 0 /\ undo = <<>> /\ redo = <<>>
        /\ coalesce = "none" /\ disk = <<>> /\ past = <<>> /\ future = <<>> /\ stale = 0
    BY <1>1, Zenon
  <2>3. astray \in 0 .. MaxAstray
    BY <1>1, EditorAssumption DEF EditorAssumption
  <2>4. TypeOK
    BY <2>1, <2>2, <2>3 DEF TypeOK
  <2> QED BY <2>2, <2>4 DEF Shape, Even
<1>3. LeadTo(undo, past, text) /\ LeadFrom(text, redo, future, stale)
  <2>1. undo = <<>> /\ past = <<>> /\ redo = <<>> /\ future = <<>> /\ stale = 0
    BY <1>1, Zenon
  <2>2. \A i \in 1 .. 0 : FALSE
    OBVIOUS
  <2>3. \A i \in 0 + 1 .. 0 : FALSE
    OBVIOUS
  <2> QED BY <2>1, <2>2, <2>3 DEF LeadTo, LeadFrom
<1>4. cursor <= Len(text) /\ anchor <= Len(text)
  <2>1. cursor = 0 /\ anchor = 0 /\ text = <<>>
    BY <1>1, Zenon
  <2> QED BY <2>1
<1> QED BY <1>2, <1>3, <1>4 DEF IInv, Fits, UndoFits, RedoFits, CursorInText

\* Every step preserves the invariant.
LEMMA NextIInv == IInv /\ [Next]_vars => IInv'
<1> SUFFICES ASSUME IInv, [Next]_vars PROVE IInv'
  OBVIOUS
<1>0. Shape'
  BY NextShape DEF IInv
<1>1. ASSUME UNCHANGED vars PROVE Fits'
  BY <1>1 DEF vars, fileVars, history, IInv, Fits, UndoFits, RedoFits, CursorInText
<1>2. ASSUME NEW t \in Files, Load(t) PROVE Fits'
  BY <1>2, LoadStep
<1>3. ASSUME ~corrupt, Command PROVE Fits'
  <2>1. ASSUME NEW at \in 0 .. Len(text), NEW extend \in BOOLEAN, Move(at, extend)
        PROVE  Fits'
    <3>1. at \in Nat
      BY <1>3, Intact
    <3> QED BY <1>3, <2>1, <3>1, MoveStep
  <2>2. CASE SelectAll
    BY <1>3, <2>2, SelectAllStep
  <2>3. ASSUME NEW new \in Typed \cup Clipboard, NEW kind \in {"none", "insert"},
               Insert(new, kind) \/ InsertMore(new, kind) \/ InsertOver(new, kind)
        PROVE  Fits'
    BY <1>3, <2>3, NewTexts, InsertStep, InsertMoreStep, InsertOverStep
  <2>4. CASE InsertNothing
    BY <1>3, <2>4, InsertNothingStep
  <2>5. CASE DeleteSelection
    BY <1>3, <2>5, DeleteSelectionStep
  <2>6. CASE Backspace
    BY <1>3, <2>6, BackspaceStep
  <2>7. CASE BackspaceMore
    BY <1>3, <2>7, BackspaceMoreStep
  <2>8. CASE DeleteForward
    BY <1>3, <2>8, DeleteForwardStep
  <2>9. CASE Undo
    BY <1>3, <2>9, UndoStep
  <2>10. CASE Redo
    BY <1>3, <2>10, RedoStep
  <2>11. CASE Save \/ SaveFails
    BY <2>11, SaveStep
  <2> QED BY <1>3, <2>1, <2>2, <2>3, <2>4, <2>5, <2>6, <2>7, <2>8, <2>9, <2>10, <2>11
          DEF Command
<1>4. ASSUME corrupt, Command PROVE Fits'
  <2>1. corrupt'
    BY <1>4 DEF Command, Move, SelectAll, Insert, InsertMore, InsertOver, InsertNothing,
                DeleteSelection, Backspace, BackspaceMore, DeleteForward, Undo, Redo,
                Save, SaveFails, history
  <2> QED BY <2>1 DEF Fits, UndoFits, RedoFits, CursorInText
<1>5. Fits'
  BY <1>1, <1>2, <1>3, <1>4 DEF Next
<1> QED BY <1>0, <1>5 DEF IInv

THEOREM Invariance == Spec => []IInv
<1> QED BY InitIInv, NextIInv, PTL DEF Spec

-----------------------------------------------------------------------------

\* The editor's state is of its type, whatever is typed, pasted or loaded, and with
\* the positions and edits of a history gone astray too.
THEOREM TypeCorrect == Spec => []TypeOK
<1>1. IInv => TypeOK
  BY DEF IInv, Shape
<1> QED BY Invariance, <1>1, PTL

\* Undo (fedit.rs, undo) always meets the text its edit was recorded for: it
\* leads back through the texts there were, for any cap on the history and any
\* sequence of typing, deleting, pasting, merging, evicting and redoing in which
\* no stale edit is redone.
THEOREM UndoIsRight == Spec => []UndoFits
<1>1. IInv => UndoFits
  BY DEF IInv, Fits
<1> QED BY Invariance, <1>1, PTL

\* Redo (fedit.rs, redo) meets the text its edit was undone from, as long as
\* nothing that decodes to nothing has replaced a selection since.
THEOREM RedoIsRight == Spec => []RedoFits
<1>1. IInv => RedoFits
  BY DEF IInv, Fits
<1> QED BY Invariance, <1>1, PTL

\* Cursor and anchor are places of the text until a stale edit is redone: nothing
\* but the redo stack that do_insert leaves standing (fedit.rs:703-706) takes them
\* out of it.
THEOREM CursorInside == Spec => []CursorInText
<1>1. IInv => CursorInText
  BY DEF IInv, Fits
<1> QED BY Invariance, <1>1, PTL

\* A buffer shown as clean is what was written to the file or read from it
\* (fedit.rs, save_to, load_from and every edit), unless a failed save emptied the
\* file meanwhile.
THEOREM CleanMeansSaved == Spec => []CleanIsSaved
<1> DEFINE Inv == dirty \in BOOLEAN /\ CleanIsSaved
<1>1. Init => Inv
  <2>1. Init => dirty = FALSE /\ text = disk
    BY DEF Init
  <2> QED BY <2>1, Zenon DEF CleanIsSaved
<1>2. Inv /\ [Next]_vars => Inv'
  <2> SUFFICES ASSUME Inv, [Next]_vars PROVE Inv'
    OBVIOUS
  <2>1. ASSUME dirty' = TRUE PROVE Inv'
    BY <2>1, Zenon DEF CleanIsSaved
  <2>2. ASSUME text' = text, dirty' = dirty, disk' = disk, torn' = torn PROVE Inv'
    BY <2>2, Zenon DEF CleanIsSaved
  <2>3. ASSUME text' \in {disk', Decode(disk')}, dirty' = FALSE PROVE Inv'
    BY <2>3, Zenon DEF CleanIsSaved
  <2>4. CASE UNCHANGED vars
    BY <2>2, <2>4 DEF vars, fileVars
  <2>5. ASSUME NEW t \in Files, Load(t) PROVE Inv'
    BY <2>3, <2>5 DEF Load
  <2>6. CASE Command
    <3>1. CASE Save
      BY <3>1, <2>3, Zenon DEF Save
    <3>2. CASE SaveFails
      BY <3>2, Zenon DEF SaveFails, CleanIsSaved
    <3>3. CASE \/ \E at \in 0 .. Len(text), extend \in BOOLEAN : Move(at, extend)
               \/ SelectAll
      BY <3>3, <2>2 DEF Move, SelectAll, fileVars
    <3>4. CASE \/ \E new \in Typed \cup Clipboard, kind \in {"none", "insert"} :
                     \/ Insert(new, kind) \/ InsertMore(new, kind)
                     \/ InsertOver(new, kind)
               \/ InsertNothing \/ DeleteSelection \/ Backspace \/ BackspaceMore
               \/ DeleteForward \/ Undo \/ Redo
      BY <3>4, <2>1 DEF Insert, InsertMore, InsertOver, InsertNothing, DeleteSelection,
                        Backspace, BackspaceMore, DeleteForward, Undo, Redo, Dirty
    <3> QED BY <2>6, <3>1, <3>2, <3>3, <3>4 DEF Command
  <2> QED BY <2>4, <2>5, <2>6 DEF Next
<1>3. Inv => CleanIsSaved
  OBVIOUS
<1> QED BY <1>1, <1>2, <1>3, PTL DEF Spec
=============================================================================
