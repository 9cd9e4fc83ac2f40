------------------------------ MODULE MCGuard ------------------------------
(***************************************************************************)
(* Small instance of Guard: with 4-byte pages and a 2-byte header the      *)
(* sizes 2, 0, 3 and 4 take 1, 2, 2 and 3 pages, so one request fits a     *)
(* fresh range twice, two fill it (one for its slack page, one for its     *)
(* header) and one needs a larger range of its own.                        *)
(***************************************************************************)
EXTENDS Guard, TLC

Symmetry == Permutations(Thread)
=============================================================================
