----------------------------- MODULE MethodBody -----------------------------
(***************************************************************************)
(* Method bodies, as far as the ownership of class instances is concerned. *)
(* A statement is a record; conditions are not represented, since either   *)
(* outcome is possible.  A delete and a return have a place for what the   *)
(* analysis reports of them: its `alarm`, the locals that are `leaks`.      *)
(***************************************************************************)
EXTENDS Integers, Sequences, SequencesExt

CONSTANTS Outer,    \* the local declared first in a body
          Inner,    \* the local that any block may declare
          MaxDepth  \* bound: how deep statements are nested in a body

ASSUME LocalAssumption == Outer # Inner /\ MaxDepth \in Nat

Var == {Outer, Inner}
NoVar == "none"

Value == {"new", "scope", "null"}

Let(v, value) == [op |-> "let", var |-> v, value |-> value]

\* What a delete is reported for: the binding is deleted already, or its scope
\* frees it too.
Alarm == {"Deleted", "OwnedScope"}
NoAlarm == "none"

\* The statements that contain no others.
Leaf ==
    [op : {"let", "assign"}, var : Var, value : Value]
    \cup [op : {"pass", "store", "alias"}, var : Var]
    \cup [op : {"delete"}, var : Var, alarm : Alarm \cup {NoAlarm}]
    \cup [op : {"return"}, var : Var \cup {NoVar}, leaks : SUBSET Var]
    \cup [op : {"break", "continue"}]

\* The statements made of those of S.
Over(S) ==
    [op : {"block"}, stmts : Seq(S)]
    \cup [op : {"if"}, then : S, els : Seq(S)]
    \cup [op : {"while", "do", "defer"}, body : S]
    \cup [op : {"switch"}, arms : Seq(Seq(S)), default : BOOLEAN]

Depth == 0 .. MaxDepth

\* The statements of depth h at most.
StmtOf[h \in Depth] == Leaf \cup IF h = 0 THEN {} ELSE Over(StmtOf[h - 1])

Stmt == StmtOf[MaxDepth]
=============================================================================
