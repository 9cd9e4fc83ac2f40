-------------------------------- MODULE Rope --------------------------------
(***************************************************************************)
(* The rope behind the editor (igui/src/rope_buffer.rs): a binary tree     *)
(* over leaves of at most LeafMax characters whose branches cache lengths, *)
(* newline counts and heights.  Edits split the tree and join the parts.   *)
(* What recurses over the tree is a function of a height h and of the      *)
(* trees that are not deeper: ...By is the body of the code's function,    *)
(* again its call for a subtree.                                           *)
(***************************************************************************)
EXTENDS Integers, Sequences, SequencesExt, FiniteSets

CONSTANTS Char,      \* code points
          Newline,   \* the one that ends a line
          LeafMax,   \* LEAF_MAX
          MaxLen,    \* bound: characters in the buffer
          MaxBlank,  \* bound: the same for a buffer of newlines only, which may be
                     \* longer: the shape of the tree depends on lengths alone
          MaxInsert  \* bound: characters inserted at once

ASSUME RopeAssumption ==
    /\ Newline \in Char
    /\ LeafMax \in Nat \ {0} /\ MaxLen \in Nat
    /\ MaxBlank \in Nat /\ MaxLen <= MaxBlank /\ MaxInsert \in Nat

VARIABLES root,  \* the tree
          text,  \* history: the same edits made on a plain sequence
          even   \* history: whether every tree that was built was balanced

vars == <<root, text, even>>

Least(a, b) == IF a < b THEN a ELSE b
Most(a, b) == IF a < b THEN b ELSE a

-----------------------------------------------------------------------------
(* Nodes.                                                                  *)

Newlines(s) == Cardinality({i \in DOMAIN s : s[i] = Newline})

Leaf(s) == [buf |-> s, newlines |-> Newlines(s)]
Empty == Leaf(<<>>)

IsLeaf(n) == "buf" \in DOMAIN n
TextLen(n) == IF IsLeaf(n) THEN Len(n.buf) ELSE n.len
Height(n) == IF IsLeaf(n) THEN 0 ELSE n.height

\* Mutant of Branch: the newlines of the right subtree are not counted.
MutBranch(l, r) ==
    [left |-> l, right |-> r, leftLen |-> TextLen(l), len |-> TextLen(l) + TextLen(r),
     newlines |-> l.newlines, height |-> 1 + Most(Height(l), Height(r))]

Branch(l, r) ==
    [left |-> l, right |-> r, leftLen |-> TextLen(l), len |-> TextLen(l) + TextLen(r),
     newlines |-> l.newlines + r.newlines, height |-> 1 + Most(Height(l), Height(r))]

\* The trees of height h at most.
Leafs == {n \in [buf : Seq(Char), newlines : Nat] : n = Leaf(n.buf)}

BranchesOver(S) ==
    {n \in [left : S, right : S, leftLen : Nat, len : Nat, newlines : Nat, height : Nat] :
        n = Branch(n.left, n.right)}

NodeOf[h \in Nat] ==
    IF h = 0 THEN Leafs ELSE Leafs \cup BranchesOver(NodeOf[h - 1])

BalanceFactor(n) == IF IsLeaf(n) THEN 0 ELSE Height(n.left) - Height(n.right)

-----------------------------------------------------------------------------
(* Building.  An odd node out is handed up as it is.                       *)

Chunks(s) ==
    [i \in 1 .. (Len(s) + LeafMax - 1) \div LeafMax |->
        Leaf(SubSeq(s, (i - 1) * LeafMax + 1, Least(i * LeafMax, Len(s))))]

Paired(nodes) ==
    [i \in 1 .. (Len(nodes) + 1) \div 2 |->
        IF 2 * i <= Len(nodes) THEN Branch(nodes[2 * i - 1], nodes[2 * i])
        ELSE nodes[2 * i - 1]]

\* As many rounds as there are nodes; the last ones pass a single node on.
Rounds(nodes) ==
    LET round[i \in Nat] == IF i = 0 THEN nodes ELSE Paired(round[i - 1])
    IN  round

MergeAll(nodes) == Rounds(nodes)[Len(nodes)][1]

Build(s) == IF s = <<>> THEN Empty ELSE MergeAll(Chunks(s))

-----------------------------------------------------------------------------
(* Balancing, splitting and joining.                                       *)

RotateRight(n) ==
    IF IsLeaf(n.left) THEN n
    ELSE Branch(n.left.left, Branch(n.left.right, n.right))

\* Mutant of RotateLeft: the inner subtree changes sides.
MutRotateLeft(n) ==
    IF IsLeaf(n.right) THEN n
    ELSE Branch(Branch(n.right.left, n.left), n.right.right)

RotateLeft(n) ==
    IF IsLeaf(n.right) THEN n
    ELSE Branch(Branch(n.left, n.right.left), n.right.right)

Balance(n) ==
    CASE BalanceFactor(n) > 1 ->
            RotateRight(IF BalanceFactor(n.left) < 0
                        THEN Branch(RotateLeft(n.left), n.right) ELSE n)
      [] BalanceFactor(n) < -1 ->
            RotateLeft(IF BalanceFactor(n.right) > 0
                       THEN Branch(n.left, RotateRight(n.right)) ELSE n)
      [] OTHER -> n

Mergeable(l, r) == IsLeaf(l) /\ IsLeaf(r) /\ TextLen(l) + TextLen(r) <= LeafMax

\* Mutant of JoinBy: the parts become a branch whatever their heights.
MutJoinBy(again, l, r) ==
    CASE TextLen(l) = 0 -> r
      [] TextLen(l) # 0 /\ TextLen(r) = 0 -> l
      [] TextLen(l) # 0 /\ TextLen(r) # 0 ->
            IF Mergeable(l, r) THEN Leaf(l.buf \o r.buf) ELSE Branch(l, r)

JoinBy(again, l, r) ==
    CASE TextLen(l) = 0 -> r
      [] TextLen(l) # 0 /\ TextLen(r) = 0 -> l
      [] TextLen(l) # 0 /\ TextLen(r) # 0 ->
            IF Mergeable(l, r) THEN Leaf(l.buf \o r.buf)
            ELSE IF Height(l) > Height(r) + 1
                 THEN Balance(Branch(l.left, again[l.right][r]))
            ELSE IF Height(r) > Height(l) + 1
                 THEN Balance(Branch(again[l][r.left], r.right))
            ELSE Branch(l, r)

joinAt[h \in Nat] ==
    [l \in NodeOf[h] |-> [r \in NodeOf[h] |-> JoinBy(joinAt[h - 1], l, r)]]

Join(l, r) == joinAt[Most(Height(l), Height(r))][l][r]

SplitBy(again, n, pos) ==
    CASE pos = 0 -> <<Empty, n>>
      [] pos > 0 /\ pos >= TextLen(n) -> <<n, Empty>>
      [] pos > 0 /\ pos < TextLen(n) ->
            IF IsLeaf(n) THEN <<Leaf(SubSeq(n.buf, 1, pos)),
                                Leaf(SubSeq(n.buf, pos + 1, Len(n.buf)))>>
            ELSE IF pos = n.leftLen THEN <<n.left, n.right>>
            ELSE IF pos < n.leftLen
                 THEN LET s == again[n.left][pos] IN <<s[1], Join(s[2], n.right)>>
                 ELSE LET s == again[n.right][pos - n.leftLen]
                      IN  <<Join(n.left, s[1]), s[2]>>

splitAt[h \in Nat] ==
    [n \in NodeOf[h] |-> [pos \in Nat |-> SplitBy(splitAt[h - 1], n, pos)]]

Split(n, pos) == splitAt[Height(n)][n][pos]

-----------------------------------------------------------------------------
(* The shape of a tree.                                                    *)

\* A node and all below it.
PartsBy(again, n) == IF IsLeaf(n) THEN {n} ELSE {n} \cup again[n.left] \cup again[n.right]

partsAt[h \in Nat] == [n \in NodeOf[h] |-> PartsBy(partsAt[h - 1], n)]

Parts(n) == partsAt[Height(n)][n]

\* The AVL invariant.
Even(n) == \A m \in Parts(n) : BalanceFactor(m) \in -1 .. 1

\* Leaves are within their limit, and nothing in a branch is empty.
Filled(n) ==
    \A m \in Parts(n) : IF IsLeaf(m) THEN Len(m.buf) <= LeafMax
                        ELSE TextLen(m.left) > 0 /\ TextLen(m.right) > 0

Twos[h \in Nat] == IF h = 0 THEN 1 ELSE 2 * Twos[h - 1]

-----------------------------------------------------------------------------
(* The editing interface.                                                  *)

Inserted(n, pos, new) ==
    IF new = <<>> THEN n
    ELSE LET s == Split(n, pos) IN Join(Join(s[1], Build(new)), s[2])

Deleted(n, pos, count) ==
    IF count = 0 \/ pos >= TextLen(n) THEN n
    ELSE LET s == Split(n, pos)
         IN  Join(s[1], Split(s[2], Least(count, TextLen(n) - pos))[2])

\* Bound: one place past the end stands for all of them.
Place == 0 .. Len(text) + 1
Insertions == SeqOf(Char, MaxInsert)

\* What an edit means: count characters from pos on give way to new.
Spliced(s, pos, count, new) ==
    SubSeq(s, 1, Least(pos, Len(s))) \o new \o SubSeq(s, pos + count + 1, Len(s))

Fits(s) == Len(s) <= MaxLen \/ (Len(s) <= MaxBlank /\ Newlines(s) = Len(s))

Edit(pos, count, new, result) ==
    /\ text' = Spliced(text, pos, count, new)
    /\ Fits(text')
    /\ root' = result
    /\ even' = (even /\ Even(Build(new)))

Insert(pos, new) == Edit(pos, 0, new, Inserted(root, pos, new))
Delete(pos, count) == Edit(pos, count, <<>>, Deleted(root, pos, count))
Replace(pos, count, new) ==
    Edit(pos, count, new, Inserted(Deleted(root, pos, count), pos, new))

\* new or from_slice
Init == /\ text \in SeqOf(Char, MaxLen) \cup SeqOf({Newline}, MaxBlank)
        /\ root = Build(text)
        /\ even = Even(root)

Next ==
    \/ \E pos \in Place, new \in Insertions : Insert(pos, new)
    \/ \E pos, count \in Place : Delete(pos, count)
    \/ \E pos, count \in Place, new \in Insertions : Replace(pos, count, new)

Spec == Init /\ [][Next]_vars

-----------------------------------------------------------------------------
(* Looking things up.                                                      *)

CharBy(again, n, pos) ==
    IF IsLeaf(n) THEN n.buf[pos + 1]
    ELSE IF pos < n.leftLen THEN again[n.left][pos] ELSE again[n.right][pos - n.leftLen]

charAt[h \in Nat] == [n \in NodeOf[h] |-> [pos \in Nat |-> CharBy(charAt[h - 1], n, pos)]]

CharAt(n, pos) == charAt[Height(n)][n][pos]

CollectBy(again, n, start, end) ==
    IF start >= end THEN <<>>
    ELSE IF IsLeaf(n)
         THEN SubSeq(n.buf, Least(start, Len(n.buf)) + 1, Least(end, Len(n.buf)))
    ELSE (IF start < n.leftLen THEN again[n.left][start][Least(end, n.leftLen)] ELSE <<>>)
         \o (IF end > n.leftLen
             THEN again[n.right][Most(start - n.leftLen, 0)][end - n.leftLen] ELSE <<>>)

collectAt[h \in Nat] ==
    [n \in NodeOf[h] |->
        [start \in Nat |-> [end \in Nat |-> CollectBy(collectAt[h - 1], n, start, end)]]]

Slice(n, start, end) ==
    collectAt[Height(n)][n][Least(start, TextLen(n))][Least(end, TextLen(n))]

CountBy(again, n, pos) ==
    IF pos = 0 THEN 0
    ELSE IF IsLeaf(n) THEN Newlines(SubSeq(n.buf, 1, Least(pos, Len(n.buf))))
    ELSE IF pos <= n.leftLen THEN again[n.left][pos]
    ELSE n.left.newlines + again[n.right][pos - n.leftLen]

countAt[h \in Nat] == [n \in NodeOf[h] |-> [pos \in Nat |-> CountBy(countAt[h - 1], n, pos)]]

NewlinesBefore(n, pos) == countAt[Height(n)][n][pos]

None == -1

\* Offset of newline k, counting both from 0.
NthBy(again, n, k) ==
    IF IsLeaf(n)
    THEN LET at == {i \in DOMAIN n.buf :
                       n.buf[i] = Newline /\ Newlines(SubSeq(n.buf, 1, i)) = k + 1}
         IN  IF at = {} THEN None ELSE (CHOOSE i \in at : TRUE) - 1
    ELSE IF k < n.left.newlines THEN again[n.left][k]
    ELSE LET p == again[n.right][k - n.left.newlines]
         IN  IF p = None THEN None ELSE n.leftLen + p

nthAt[h \in Nat] == [n \in NodeOf[h] |-> [k \in Nat |-> NthBy(nthAt[h - 1], n, k)]]

NthNewline(n, k) == nthAt[Height(n)][n][k]

LineStart(n, line) ==
    CASE line = 0 -> 0
      [] line > n.newlines -> None
      [] line \in 1 .. n.newlines -> NthNewline(n, line - 1) + 1

LineEnd(n, line) == IF line < n.newlines THEN NthNewline(n, line) ELSE TextLen(n)

OffsetToLineCol(n, offset) ==
    LET pos == Least(offset, TextLen(n))
        nl  == NewlinesBefore(n, pos)
    IN  <<nl, pos - (IF nl = 0 THEN 0 ELSE NthNewline(n, nl - 1) + 1)>>

LineColToOffset(n, line, col) ==
    IF line > n.newlines THEN TextLen(n)
    ELSE LineStart(n, line) + Least(col, LineEnd(n, line) - LineStart(n, line))

-----------------------------------------------------------------------------

\* The leaves in order.
TextBy(again, n) == IF IsLeaf(n) THEN n.buf ELSE again[n.left] \o again[n.right]

textAt[h \in Nat] == [n \in NodeOf[h] |-> TextBy(textAt[h - 1], n)]

TextOf(n) == textAt[Height(n)][n]

\* However an edit splits, joins and rotates the tree, it does to the text what
\* it says: the leaves in order are the text.
HoldsText == TextOf(root) = text

\* The line and column of an offset, counted on the text.
LineCol(pos) ==
    LET ends == {i \in 1 .. pos : text[i] = Newline}
    IN  <<Cardinality(ends), pos - Max(ends \cup {0})>>

\* Slices, characters, lines and columns are found where the text has them, by
\* the cached counts; columns past the end of a line mean its end.
LookupsRight ==
    /\ \A pos \in 0 .. Len(text) - 1 : CharAt(root, pos) = text[pos + 1]
    /\ \A start, end \in Place :
          Slice(root, start, end) = SubSeq(text, start + 1, Least(end, Len(text)))
    /\ \A pos \in Place :
          OffsetToLineCol(root, pos) = LineCol(Least(pos, Len(text)))
    /\ \A line, col \in Place :
          LET at == LineColToOffset(root, line, col)
              lc == LineCol(at)
          IN  IF line > Newlines(text) THEN at = Len(text)
              ELSE /\ lc[1] = line /\ lc[2] <= col
                   /\ lc[2] < col => at = Len(text) \/ text[at + 1] = Newline

\* Edits keep leaves within their limit and leave no empty ones in a branch, and they
\* keep a balanced tree balanced, so long as what is built to be inserted is balanced.
\* Such a tree is at most twice as deep as the logarithm of its length.
StaysShallow ==
    /\ Filled(root)
    /\ even => /\ Even(root)
               /\ text # <<>> => Twos[Height(root)] <= Len(text) * Len(text)
=============================================================================
