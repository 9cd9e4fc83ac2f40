---------------------------- MODULE MCGuardFront ----------------------------
(***************************************************************************)
(* Two interchangeable threads and two allocations, in any modes.          *)
(***************************************************************************)
EXTENDS GuardFront, TLC

Symmetry == Permutations(Thread)
=============================================================================
