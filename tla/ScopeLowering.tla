--------------------------- MODULE ScopeLowering ---------------------------
(***************************************************************************)
(* How lowering (newbf-sema/src/lower.rs) makes a method body clean up     *)
(* after itself: the objects allocated with `scope` are freed and the      *)
(* deferred statements run at every exit of a block.  Lowering walks the   *)
(* body once, with the frames of the open blocks and the targets of the    *)
(* jumps; a statement becomes a sequence of instructions, in which         *)
(* [op |-> "free"] frees what an allocation site allocated.  ...By is the  *)
(* code for a statement, again its call for another one.                   *)
(***************************************************************************)
EXTENDS DeleteFlow

\* A scope allocation, a deferred statement, and an open block: the basic block
\* it was opened in, its scope allocations and its deferred statements.
Alloc    == [site : Nat, kind : {"direct", "slot"}, bind : Var \cup {NoVar}]
Deferred == [id : Nat, body : Stmt]
Frames   == [entry : Nat, allocs : Seq(Alloc), defers : Seq(Deferred), nesting : Nat]

Frame(entry, nesting) ==
    [entry |-> entry, allocs |-> <<>>, defers |-> <<>>, nesting |-> nesting]

\* The shapes the cleanup is known not to cover.
Gaps == {"conditional allocation in a loop", "conditional delete", "continue in a switch",
         "jump over a defer", "conditional defer"}

\* The states of lowering.  `nesting` counts the conditional statements that are
\* open, and `gaps` notes the gaps met; they are no part of the code.
Lowering ==
    [frames : Seq(Frames), loops : Seq([depth : Nat, repeats : BOOLEAN]),
     block : Nat, blocks : Nat, sites : Nat, defers : Nat,
     ended : BOOLEAN, nesting : Nat, gaps : SUBSET Gaps]

LowerInit ==
    [frames |-> <<Frame(0, 0)>>, loops |-> <<>>, block |-> 0, blocks |-> 0,
     sites |-> 0, defers |-> 0, ended |-> FALSE, nesting |-> 0, gaps |-> {}]

Lowered(code, low) == [code |-> code, low |-> low]

Gap(low, name, found) == [low EXCEPT !.gaps = IF found THEN @ \cup {name} ELSE @]

\* Go on in a basic block of its own.
SwitchTo(low) ==
    [low EXCEPT !.block = low.blocks + 1, !.blocks = @ + 1, !.ended = FALSE]

\* The basic block of a branch, and the one where a statement's paths join.
Branch(low)        == [SwitchTo(low) EXCEPT !.nesting = @ + 1]
Join(low, nesting) == [SwitchTo(low) EXCEPT !.nesting = nesting]

InLoop(low) == \E i \in DOMAIN low.loops : low.loops[i].repeats

\* Mutant of AllocKindIn: every allocation is taken to dominate the exits.
MutAllocKindIn(low) == "direct"

\* An allocation made in the basic block its frame was opened in dominates the
\* frame's exits; any other is freed through a slot that is null until then.
AllocKindIn(low) == IF low.block = Last(low.frames).entry THEN "direct" ELSE "slot"

LowerScope(s, low) ==
    LET kind  == AllocKindIn(low)
        alloc == [site |-> low.sites + 1, kind |-> kind,
                  bind |-> IF s.op = "let" THEN s.var ELSE NoVar]
        next  == [low EXCEPT !.sites = @ + 1,
                             !.frames[Len(low.frames)].allocs = Append(@, alloc)]
    IN  Lowered(<<[op |-> s.op, var |-> s.var, value |-> s.value, site |-> alloc.site]>>,
                Gap(next, "conditional allocation in a loop",
                    low.nesting # Last(low.frames).nesting /\ InLoop(low)))

\* Where scope allocations bound to v are registered: frame and index.
Bindings(v, low) ==
    {p \in UNION {{f} \X DOMAIN low.frames[f].allocs : f \in DOMAIN low.frames} :
        low.frames[p[1]].allocs[p[2]].bind = v}

\* The last of them, as a set.
BoundTo(v, low) ==
    {p \in Bindings(v, low) : \A q \in Bindings(v, low) :
        q[1] < p[1] \/ (q[1] = p[1] /\ q[2] <= p[2])}

At(p, low) == low.frames[p[1]].allocs[p[2]]

Deletes(s, low) ==
    [op |-> s.op, var |-> s.var, alarm |-> s.alarm,
     bound |-> {At(p, low) : p \in BoundTo(s.var, low)}]

\* Mutant of LowerDelete: the binding stays registered.
MutLowerDelete(s, low) == Lowered(<<Deletes(s, low)>>, low)

\* delete v frees what v holds, then takes the scope allocation bound to v off
\* its frame or, if that one has a slot, clears the slot.
LowerDelete(s, low) ==
    LET off    == {p \in BoundTo(s.var, low) : At(p, low).kind = "direct"}
        at     == CHOOSE p \in off : TRUE
        allocs == RemoveAt(low.frames[at[1]].allocs, at[2])
    IN  Lowered(<<Deletes(s, low)>>,
                IF off = {} THEN low
                ELSE Gap([low EXCEPT !.frames[at[1]].allocs = allocs], "conditional delete",
                         low.frames[at[1]].nesting # low.nesting))

\* Instructions that free the allocations of frames, the last one first.
FreesOf(allocs) ==
    [i \in DOMAIN allocs |->
        [op |-> "free", site |-> allocs[i].site, kind |-> allocs[i].kind]]

Frees(frames) ==
    FlattenSeq([i \in DOMAIN frames |-> FreesOf(Reverse(Reverse(frames)[i].allocs))])

FramesAbove(low, depth) == SubSeq(low.frames, depth + 1, Len(low.frames))

LowerSeqBy(again, stmts, low) ==
    LET after[i \in 0 .. Len(stmts)] ==
            IF i = 0 THEN Lowered(<<>>, low)
            ELSE LET before == after[i - 1]
                     next   == again[stmts[i]][before.low]
                 IN  IF before.low.ended THEN before
                     ELSE Lowered(before.code \o next.code, next.low)
    IN  after[Len(stmts)]

\* The deferred statements of frames, the last one first.
LowerDefersBy(again, frames, low) ==
    LET pending == FlattenSeq([i \in DOMAIN frames |-> Reverse(Reverse(frames)[i].defers)])
        ran[i \in 0 .. Len(pending)] ==
            IF i = 0 THEN Lowered(<<>>, [low EXCEPT !.nesting = @ + 1])
            ELSE LET before == ran[i - 1]
                     body   == again[pending[i].body][before.low]
                 IN  Lowered(before.code \o <<[op |-> "run", id |-> pending[i].id]>>
                                         \o body.code, body.low)
        all == ran[Len(pending)]
    IN  Lowered(all.code, [all.low EXCEPT !.nesting = low.nesting])

\* A block runs its deferred statements and frees its allocations when control
\* falls off its end; a jump has done so already.
Push(low) == [low EXCEPT !.frames = Append(@, Frame(low.block, low.nesting))]
Pop(low)  == [low EXCEPT !.frames = Front(@)]

LowerBlockBy(again, s, low) ==
    LET b      == LowerSeqBy(again, s.stmts, Push(low))
        d      == LowerDefersBy(again, <<Last(b.low.frames)>>, b.low)
        top    == Last(d.low.frames)
        freed  == IF \E a \in ToSet(top.allocs) : a.kind = "slot" THEN SwitchTo(d.low) ELSE d.low
    IN  IF b.low.ended THEN Lowered(b.code, Pop(b.low))
        ELSE Lowered(b.code \o d.code \o Frees(<<top>>), Pop(freed))

LowerIfBy(again, s, low) ==
    LET t == again[s.then][Branch(low)]
        e == LowerSeqBy(again, s.els, SwitchTo(t.low))
    IN  Lowered(<<[op |-> "if", then |-> t.code, else |-> e.code]>>, Join(e.low, low.nesting))

\* Jumps find the frames that are open where their target was.
Enter(low, repeats) ==
    [low EXCEPT !.loops = Append(@, [depth |-> Len(low.frames), repeats |-> repeats])]

Leave(low, nesting) == Join([low EXCEPT !.loops = Front(@)], nesting)

LowerLoopBy(again, s, low) ==
    LET b == again[s.body][Branch(Enter(low, TRUE))]
    IN  Lowered(<<[op |-> s.op, turn |-> b.code]>>, Leave(b.low, low.nesting))

LowerSwitchBy(again, s, low) ==
    LET upTo[i \in 0 .. Len(s.arms)] ==
            IF i = 0 THEN Lowered(<<>>, Branch(Enter(low, FALSE)))
            ELSE LET before == upTo[i - 1]
                     arm    == LowerSeqBy(again, s.arms[i], SwitchTo(before.low))
                 IN  Lowered(Append(before.code, arm.code), arm.low)
        all == upTo[Len(s.arms)]
    IN  Lowered(<<[op |-> "switch", arms |-> all.code, default |-> s.default]>>,
                Leave(all.low, low.nesting))

\* break and continue free what was allocated since the target was entered; a
\* switch is a target for both.
LowerJump(s, low) ==
    LET target == Last(low.loops)
        above  == FramesAbove(low, target.depth)
        next   == [low EXCEPT !.ended = TRUE]
    IN  Lowered(Frees(above) \o <<s>>,
                Gap(Gap(next, "continue in a switch", s.op = "continue" /\ ~target.repeats),
                    "jump over a defer", \E f \in ToSet(above) : f.defers # <<>>))

\* Mutant of LowerReturnBy: only the innermost frame is cleaned up.
MutLowerReturnBy(again, s, low) ==
    LET d == LowerDefersBy(again, low.frames, low)
    IN  Lowered(<<s>> \o d.code \o Frees(<<Last(d.low.frames)>>) \o <<[op |-> "ret"]>>,
                [d.low EXCEPT !.ended = TRUE])

\* return evaluates its value, runs every deferred statement and frees every
\* allocation.
LowerReturnBy(again, s, low) ==
    LET d == LowerDefersBy(again, low.frames, low)
    IN  Lowered(<<s>> \o d.code \o Frees(d.low.frames) \o <<[op |-> "ret"]>>,
                [d.low EXCEPT !.ended = TRUE])

\* Mutant of LowerDefer: statements are queued in front.
MutLowerDefer(s, low) ==
    Lowered(<<[op |-> "declare", id |-> low.defers + 1]>>,
            [low EXCEPT !.defers = @ + 1,
                        !.frames[Len(low.frames)].defers =
                            <<[id |-> low.defers + 1, body |-> s.body]>> \o @])

\* defer queues its statement; [op |-> "declare"] marks the place it stood.
LowerDefer(s, low) ==
    LET id   == low.defers + 1
        next == [low EXCEPT !.defers = id, !.frames[Len(low.frames)].defers =
                                Append(@, [id |-> id, body |-> s.body])]
    IN  Lowered(<<[op |-> "declare", id |-> id]>>,
                Gap(next, "conditional defer", low.nesting # Last(low.frames).nesting))

Allocates(s) == s.op \in {"let", "assign"} /\ s.value = "scope"

LowerBy(again, s, low) ==
    CASE Allocates(s)                    -> LowerScope(s, low)
      [] s.op = "delete"                 -> LowerDelete(s, low)
      [] s.op = "block"                  -> LowerBlockBy(again, s, low)
      [] s.op = "if"                     -> LowerIfBy(again, s, low)
      [] s.op \in {"while", "do"}        -> LowerLoopBy(again, s, low)
      [] s.op = "switch"                 -> LowerSwitchBy(again, s, low)
      [] s.op \in {"break", "continue"}  -> LowerJump(s, low)
      [] s.op = "return"                 -> LowerReturnBy(again, s, low)
      [] s.op = "defer"                  -> LowerDefer(s, low)
      [] OTHER                           -> Lowered(<<s>>, low)

\* Lowering with at most k statements open.  A return opens the deferred
\* statements of the blocks around it, so there may be more of them than a body
\* is deep.
lowerAt[k \in 0 .. 2 * MaxDepth] ==
    [s \in Stmt |-> [low \in Lowering |->
        LowerBy(IF k = 0 THEN <<>> ELSE lowerAt[k - 1], s, low)]]

Lower(s, low) == lowerAt[2 * MaxDepth][s][low]
=============================================================================
