------------------------------- MODULE Editor -------------------------------
(***************************************************************************)
(* The text editor pane (igui/src/fedit.rs): one buffer, a cursor and a    *)
(* selection anchor, and two stacks of edits that undo and redo replay.    *)
(*                                                                         *)
(* The text is a sequence of characters; the rope that stores it is module *)
(* Rope.  What is typed, pasted or read from a file is decoded first, which *)
(* drops a byte order mark it begins with.  Positions count the characters *)
(* before them.  Where the code has                                        *)
(* three kinds of edit, each a case of the same replacement, an edit here  *)
(* is one record; do_replace, the only source of the third kind, has no    *)
(* caller.                                                                 *)
(***************************************************************************)
EXTENDS Integers, Sequences, SequencesExt

CONSTANTS Char,      \* characters
          Bom,       \* the byte order mark, one of them
          Pasted,    \* what Enter, Tab and the clipboard insert
          Files,     \* contents of files that are opened
          UndoCap,   \* UNDO_CAP
          MaxLen,    \* bound: length of the text
          MaxRedo,   \* bound: edits to apply again
          MaxEdits,  \* bound: edits on both stacks
          MaxAstray  \* bound: commands once a stale edit was applied again

ASSUME EditorAssumption ==
    /\ Bom \in Char
    /\ Pasted \subseteq Seq(Char) /\ Files \subseteq Seq(Char)
    /\ UndoCap \in Nat \ {0}
    /\ MaxLen \in Nat /\ MaxRedo \in Nat /\ MaxEdits \in Nat /\ MaxAstray \in Nat

VARIABLES text,      \* buffer
          cursor,
          anchor,    \* the other end of the selection; no selection at cursor
          undo,      \* edits applied, oldest first
          redo,      \* edits undone, the next one to apply again last
          coalesce,  \* the kind of edit the next one may extend, or "none"
          dirty,
          disk,      \* history: the file, while the buffer is clean
          torn,      \* history: whether a failed save emptied the file meanwhile
          past,      \* history: past[i] is the text before undo[i] was applied
          future,    \* history: future[i] is the text after redo[i] was applied
          stale,     \* history: edits at the bottom of redo, made for texts that
                     \* were edited since
          corrupt,   \* history: whether a stale edit was applied again
          astray     \* history: commands since then, that one included

history == <<past, future, stale, corrupt>>
fileVars == <<dirty, disk, torn>>
vars == <<text, cursor, anchor, undo, redo, coalesce, fileVars, history, astray>>

\* UndoOp: inserted replaced removed at start; the cursor before and after.
Edit ==
    {e \in [kind : {"Inserted", "Deleted"}, start : Nat,
            removed : Seq(Char), inserted : Seq(Char), before : Nat, after : Nat] :
        <<>> = IF e.kind = "Deleted" THEN e.inserted ELSE e.removed}

\* utf8_to_codepoints
Decode(t) == IF t # <<>> /\ Head(t) = Bom THEN Tail(t) ELSE t

\* WM_CHAR inserts one character.
Typed     == {Decode(<<c>>) : c \in Char}
Clipboard == {Decode(t) : t \in Pasted}

TypeOK ==
    /\ text \in Seq(Char)
    /\ cursor \in Nat /\ anchor \in Nat
    /\ undo \in Seq(Edit) /\ redo \in Seq(Edit)
    /\ coalesce \in {"none", "insert", "backspace"}
    /\ dirty \in BOOLEAN /\ torn \in BOOLEAN /\ corrupt \in BOOLEAN
    /\ disk \in Seq(Char)
    /\ past \in Seq(Seq(Char)) /\ future \in Seq(Seq(Char))
    /\ stale \in Nat /\ astray \in 0 .. MaxAstray

Init ==
    /\ text = <<>> /\ cursor = 0 /\ anchor = 0
    /\ undo = <<>> /\ redo = <<>> /\ coalesce = "none"
    /\ dirty = FALSE /\ disk = <<>> /\ torn = FALSE
    /\ past = <<>> /\ future = <<>> /\ stale = 0 /\ corrupt = FALSE /\ astray = 0

-----------------------------------------------------------------------------

AtMost(n, bound) == IF n <= bound THEN n ELSE bound

\* slice, and splice_out followed by splice_in, which clamp to the text.
Slice(t, lo, hi) == SubSeq(t, AtMost(lo, Len(t)) + 1, AtMost(hi, Len(t)))
Splice(t, at, n, new) == Slice(t, 0, at) \o new \o Slice(t, at + n, Len(t))

HasSelection == cursor # anchor
Lo == AtMost(cursor, anchor)
Hi == IF cursor <= anchor THEN anchor ELSE cursor

Insertion(at, new) ==
    [kind |-> "Inserted", start |-> at, removed |-> <<>>, inserted |-> new,
     before |-> at, after |-> at + Len(new)]

Deletion(lo, hi, before) ==
    [kind |-> "Deleted", start |-> lo, removed |-> Slice(text, lo, hi),
     inserted |-> <<>>, before |-> before, after |-> lo]

\* push_undo: the oldest edit makes room.
Push(stack, x) == Append(IF Len(stack) < UndoCap THEN stack ELSE Tail(stack), x)

ClearRedo == redo' = <<>> /\ future' = <<>> /\ stale' = 0

Dirty == dirty' = TRUE /\ disk' = <<>> /\ torn' = FALSE

MoveTo(at) == cursor' = at /\ anchor' = at

\* A change of the text that is recorded as op.
Record(op) ==
    /\ undo' = Push(undo, op)
    /\ past' = Push(past, text)

\* A change of the text that becomes part of the edit recorded last.
Amend(op) ==
    /\ undo' = [undo EXCEPT ![Len(undo)] = op]
    /\ UNCHANGED past

-----------------------------------------------------------------------------
(* Movement, clicks and drags: every one ends in set_cursor_offset.        *)

Move(at, extend) ==
    /\ cursor' = AtMost(at, Len(text))
    /\ anchor' = IF extend THEN anchor ELSE cursor'
    /\ coalesce' = "none"
    /\ UNCHANGED <<text, undo, redo, fileVars, history>>

SelectAll ==
    /\ anchor' = 0 /\ cursor' = Len(text)
    /\ coalesce' = "none"
    /\ UNCHANGED <<text, undo, redo, fileVars, history>>

-----------------------------------------------------------------------------
(* Insertion.                                                              *)

\* Whether a typed character extends the edit recorded last.
Continues(kind) ==
    /\ kind = "insert" /\ coalesce = "insert"
    /\ undo # <<>> /\ Last(undo).kind = "Inserted"
    /\ Last(undo).start + Len(Last(undo).inserted) = cursor

\* do_insert without a selection.
Insert(new, kind) ==
    /\ ~HasSelection /\ new # <<>> /\ ~Continues(kind)
    /\ text' = Splice(text, cursor, 0, new)
    /\ Record(Insertion(cursor, new))
    /\ MoveTo(cursor + Len(new))
    /\ coalesce' = kind
    /\ Dirty
    /\ ClearRedo
    /\ UNCHANGED corrupt

\* do_insert, typing on.
InsertMore(new, kind) ==
    /\ ~HasSelection /\ new # <<>> /\ Continues(kind)
    /\ text' = Splice(text, cursor, 0, new)
    /\ Amend([Last(undo) EXCEPT !.inserted = @ \o new, !.after = cursor + Len(new)])
    /\ MoveTo(cursor + Len(new))
    /\ coalesce' = kind
    /\ Dirty
    /\ ClearRedo
    /\ UNCHANGED corrupt

\* do_insert over a selection records two edits.
InsertOver(new, kind) ==
    LET bare == Splice(text, Lo, Hi - Lo, <<>>)
    IN  /\ HasSelection /\ new # <<>>
        /\ text' = Splice(bare, Lo, 0, new)
        /\ undo' = Push(Push(undo, Deletion(Lo, Hi, cursor)), Insertion(Lo, new))
        /\ past' = Push(Push(past, text), bare)
        /\ MoveTo(Lo + Len(new))
        /\ coalesce' = kind
        /\ Dirty
        /\ ClearRedo
        /\ UNCHANGED corrupt

\* do_insert of a text that decodes to nothing over a selection: it returns
\* once the selection is deleted, and the edits undone stay.
InsertNothing ==
    /\ HasSelection /\ <<>> \in Typed \cup Clipboard
    /\ text' = Splice(text, Lo, Hi - Lo, <<>>)
    /\ Record(Deletion(Lo, Hi, cursor))
    /\ MoveTo(Lo)
    /\ coalesce' = "none"
    /\ Dirty
    /\ stale' = Len(redo)
    /\ UNCHANGED <<redo, future, corrupt>>

-----------------------------------------------------------------------------
(* Deletion.                                                               *)

\* Backspace and Delete over a selection, and Cut once the clipboard took it.
DeleteSelection ==
    /\ HasSelection
    /\ text' = Splice(text, Lo, Hi - Lo, <<>>)
    /\ Record(Deletion(Lo, Hi, cursor))
    /\ MoveTo(Lo)
    /\ coalesce' = "none"
    /\ Dirty
    /\ ClearRedo
    /\ UNCHANGED corrupt

ExtendsBack ==
    /\ coalesce = "backspace"
    /\ undo # <<>> /\ Last(undo).kind = "Deleted" /\ Last(undo).start = cursor

Backspace ==
    /\ ~HasSelection /\ cursor > 0 /\ ~ExtendsBack
    /\ text' = Splice(text, cursor - 1, 1, <<>>)
    /\ Record(Deletion(cursor - 1, cursor, cursor))
    /\ MoveTo(cursor - 1)
    /\ coalesce' = "backspace"
    /\ Dirty
    /\ ClearRedo
    /\ UNCHANGED corrupt

\* Mutant of BackspaceMore: the characters are kept in the order they went.
MutBackspaceMore ==
    /\ ~HasSelection /\ cursor > 0 /\ ExtendsBack
    /\ text' = Splice(text, cursor - 1, 1, <<>>)
    /\ Amend([Last(undo) EXCEPT !.removed = @ \o Slice(text, cursor - 1, cursor),
                                !.start = cursor - 1, !.after = cursor - 1])
    /\ MoveTo(cursor - 1)
    /\ coalesce' = "backspace"
    /\ Dirty
    /\ ClearRedo
    /\ UNCHANGED corrupt

\* Backspace after Backspace: the edit grows to the left.
BackspaceMore ==
    /\ ~HasSelection /\ cursor > 0 /\ ExtendsBack
    /\ text' = Splice(text, cursor - 1, 1, <<>>)
    /\ Amend([Last(undo) EXCEPT !.removed = Slice(text, cursor - 1, cursor) \o @,
                                !.start = cursor - 1, !.after = cursor - 1])
    /\ MoveTo(cursor - 1)
    /\ coalesce' = "backspace"
    /\ Dirty
    /\ ClearRedo
    /\ UNCHANGED corrupt

\* Mutant of DeleteForward: what was undone can still be applied again.
MutDeleteForward ==
    /\ ~HasSelection /\ cursor < Len(text)
    /\ text' = Splice(text, cursor, 1, <<>>)
    /\ Record(Deletion(cursor, cursor + 1, cursor))
    /\ coalesce' = "none"
    /\ Dirty
    /\ UNCHANGED <<cursor, anchor, redo, future, stale, corrupt>>

DeleteForward ==
    /\ ~HasSelection /\ cursor < Len(text)
    /\ text' = Splice(text, cursor, 1, <<>>)
    /\ Record(Deletion(cursor, cursor + 1, cursor))
    /\ coalesce' = "none"
    /\ Dirty
    /\ ClearRedo
    /\ UNCHANGED <<cursor, anchor, corrupt>>

-----------------------------------------------------------------------------
(* Undo and redo.                                                          *)

\* Mutant of Undo: the buffer counts as saved if it did before.
MutUndo ==
    LET op == Last(undo)
    IN  /\ undo # <<>>
        /\ text' = Splice(text, op.start, Len(op.inserted), op.removed)
        /\ MoveTo(op.before)
        /\ undo' = Front(undo) /\ past' = Front(past)
        /\ redo' = Append(redo, op) /\ future' = Append(future, text)
        /\ coalesce' = "none"
        /\ UNCHANGED <<fileVars, stale, corrupt>>

Undo ==
    LET op == Last(undo)
    IN  /\ undo # <<>>
        /\ text' = Splice(text, op.start, Len(op.inserted), op.removed)
        /\ MoveTo(op.before)
        /\ undo' = Front(undo) /\ past' = Front(past)
        /\ redo' = Append(redo, op) /\ future' = Append(future, text)
        /\ coalesce' = "none"
        /\ Dirty
        /\ UNCHANGED <<stale, corrupt>>

\* Mutant of Redo: the cursor goes where it was before the edit.
MutRedo ==
    LET op == Last(redo)
    IN  /\ redo # <<>>
        /\ text' = Splice(text, op.start, Len(op.removed), op.inserted)
        /\ MoveTo(op.before)
        /\ redo' = Front(redo) /\ future' = Front(future)
        /\ undo' = Append(undo, op) /\ past' = Append(past, text)
        /\ coalesce' = "none"
        /\ Dirty
        /\ corrupt' = (corrupt \/ Len(redo) <= stale)
        /\ stale' = AtMost(stale, Len(redo) - 1)

Redo ==
    LET op == Last(redo)
    IN  /\ redo # <<>>
        /\ text' = Splice(text, op.start, Len(op.removed), op.inserted)
        /\ MoveTo(op.after)
        /\ redo' = Front(redo) /\ future' = Front(future)
        /\ undo' = Append(undo, op) /\ past' = Append(past, text)
        /\ coalesce' = "none"
        /\ Dirty
        /\ corrupt' = (corrupt \/ Len(redo) <= stale)
        /\ stale' = AtMost(stale, Len(redo) - 1)

-----------------------------------------------------------------------------
(* Files.                                                                  *)

Load(t) ==
    /\ text' = Decode(t) /\ disk' = t
    /\ MoveTo(0)
    /\ undo' = <<>> /\ past' = <<>>
    /\ ClearRedo
    /\ coalesce' = "none" /\ dirty' = FALSE
    /\ torn' = FALSE /\ corrupt' = FALSE

\* save_to; what may be typed on is still one edit with what was typed before.
Save ==
    /\ disk' = text /\ torn' = FALSE
    /\ dirty' = FALSE
    /\ UNCHANGED <<text, cursor, anchor, undo, redo, coalesce, history>>

\* The file was opened, hence emptied, and not written.
SaveFails ==
    /\ disk' = <<>> /\ torn' = ~dirty
    /\ UNCHANGED <<text, cursor, anchor, undo, redo, coalesce, dirty, history>>

Command ==
    \/ \E at \in 0 .. Len(text), extend \in BOOLEAN : Move(at, extend)
    \/ SelectAll
    \/ \E new \in Typed \ {<<>>} : Insert(new, "insert") \/ InsertMore(new, "insert")
                                  \/ InsertOver(new, "insert")
    \/ \E new \in Clipboard \ {<<>>} : Insert(new, "none") \/ InsertOver(new, "none")
    \/ InsertNothing
    \/ DeleteSelection \/ Backspace \/ BackspaceMore \/ DeleteForward
    \/ Undo \/ Redo \/ Save \/ SaveFails

\* Bounds: no longer text, no more edits to apply again (stale ones add up) or on
\* both stacks, and no more commands on a history gone astray.
Next ==
    \/ /\ Command /\ Len(text') <= MaxLen /\ Len(redo') <= MaxRedo
       /\ Len(undo') + Len(redo') <= MaxEdits
       /\ astray' = (IF corrupt' THEN astray + 1 ELSE 0) /\ astray' <= MaxAstray
    \/ \E t \in Files : Load(t) /\ astray' = 0

Spec == Init /\ [][Next]_vars

-----------------------------------------------------------------------------

\* op turns text a into text b, the cursor lying inside both.
Takes(op, a, b) ==
    /\ op.start + Len(op.removed) <= Len(a)
    /\ Slice(a, op.start, op.start + Len(op.removed)) = op.removed
    /\ b = Splice(a, op.start, Len(op.removed), op.inserted)
    /\ op.before <= Len(a) /\ op.after <= Len(b)

\* Edits applied one after the other, each to its text, the last one giving t;
\* and edits to apply again, those above the low ones, the last one first to t.
LeadTo(ops, texts, t) ==
    /\ Len(texts) = Len(ops)
    /\ \A i \in 1 .. Len(ops) :
          Takes(ops[i], texts[i], IF i = Len(ops) THEN t ELSE texts[i + 1])

LeadFrom(t, ops, texts, low) ==
    /\ Len(texts) = Len(ops)
    /\ \A i \in low + 1 .. Len(ops) :
          Takes(ops[i], IF i = Len(ops) THEN t ELSE texts[i + 1], texts[i])

\* Undo leads back through the texts there were, whatever was merged into one
\* edit, evicted or redone: each edit on the stack fits the text it will meet.
UndoFits == ~corrupt => LeadTo(undo, past, text)

\* Redo leads forward through the texts that were undone, down to what was
\* there before something that decodes to nothing replaced a selection.
RedoFits == ~corrupt => LeadFrom(text, redo, future, stale)

\* Cursor and anchor stay inside the text through every edit, undo and redo, as
\* long as no stale edit was applied again.
CursorInText == ~corrupt => cursor <= Len(text) /\ anchor <= Len(text)

\* The positions as fedit.rs declares them, offsets into the rope, whatever was
\* done: all the code's slices and movements start from them.
PositionsInText == cursor <= Len(text) /\ anchor <= Len(text)

\* A buffer shown as clean is what was written to the file or what was read from
\* it, unless a failed save emptied the file: undo and redo across a save make it
\* dirty again.
CleanIsSaved == ~dirty => text \in {disk, Decode(disk)} \/ torn
=============================================================================
