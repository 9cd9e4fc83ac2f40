---------------------------- MODULE MCAllocSites ----------------------------
(***************************************************************************)
(* A module with a table of two sites and one with a single site.          *)
(***************************************************************************)
EXTENDS AllocSites, TLC

CONSTANTS big, small, r1, r2

MCTable    == {big, small}
MCTableLen == (big :> 2) @@ (small :> 1)
MCReporter == {r1, r2}
=============================================================================
