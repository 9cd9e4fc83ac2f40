----------------------------- MODULE Ownership -----------------------------
(***************************************************************************)
(* The lattice of the delete-flow analysis (newbf-sema/src/ownership.rs):  *)
(* what the compiler believes of each local, and what one simple statement *)
(* does to that belief.  An environment gives every local a state; a local *)
(* the analysis does not follow is "untracked".                            *)
(***************************************************************************)
CONSTANT Local

State == {"Owned", "OwnedScope", "Deleted", "Moved", "Dropped", "untracked"}

Env == [Local -> State]

NoEnv == [v \in Local |-> "untracked"]

Owning == {"Owned", "OwnedScope"}

\* What an initializer or an assigned value makes of its target.
AllocKind(value) ==
    CASE value = "new"   -> "Owned"
      [] value = "scope" -> "OwnedScope"
      [] OTHER           -> "untracked"

\* Mutant of SetMoved: a local that is returned or aliased stays owned.
MutSetMoved(env, v) == env

\* return v, let other = v
SetMoved(env, v) ==
    [env EXCEPT ![v] = IF @ \in Owning THEN "Moved" ELSE @]

\* field = v
SetDropped(env, v) ==
    [env EXCEPT ![v] = IF @ \in Owning THEN "Dropped" ELSE @]

\* f(v) borrows; a deleted local that is passed is let go.
FlowArg(env, v) ==
    [env EXCEPT ![v] = IF @ = "Deleted" THEN "untracked" ELSE @]

\* Mutant of Delete: a deleted local is let go.
MutDelete(env, v) ==
    [env EXCEPT ![v] = IF @ \in Owning THEN "untracked" ELSE @]

Delete(env, v) ==
    [env EXCEPT ![v] = IF @ \in Owning THEN "Deleted" ELSE @]

\* delete v is reported, in other words, if v was deleted already or belongs to
\* its scope.
DeleteAlarm(env, v) == IF env[v] \in {"Deleted", "OwnedScope"} THEN env[v] ELSE "none"

\* The leaks reported at an exit edge.
ExitScan(env) == {v \in Local : env[v] = "Owned"}

\* Mutant of Merge: one of the paths is taken for all of them.
MutMerge(a, b) == a

\* Where paths join, a local keeps its state only if both agree on it.
Merge(a, b) == [v \in Local |-> IF a[v] = b[v] THEN a[v] ELSE "untracked"]

Flow(env, s) ==
    CASE s.op \in {"let", "assign"} -> [env EXCEPT ![s.var] = AllocKind(s.value)]
      [] s.op = "delete" -> Delete(env, s.var)
      [] s.op = "pass"   -> FlowArg(env, s.var)
      [] s.op = "store"  -> SetDropped(env, s.var)
      [] s.op = "alias"  -> SetMoved(env, s.var)
=============================================================================
