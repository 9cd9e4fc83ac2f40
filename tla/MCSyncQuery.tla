---------------------------- MODULE MCSyncQuery ----------------------------
(***************************************************************************)
(* Two language threads and two panes, any of which may stand for another. *)
(***************************************************************************)
EXTENDS SyncQuery, TLC

Symmetry == Permutations(Thread) \cup Permutations(Pane)
=============================================================================
