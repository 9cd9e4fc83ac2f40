---------------------------- MODULE GuardParams ----------------------------
(***************************************************************************)
(* Parameters shared by the modules of the memory guard.                   *)
(*                                                                         *)
(* Addresses are page numbers.  The user pointer an allocation returns is  *)
(* its region's base plus the fixed header size, so base and user pointer  *)
(* are one-to-one and both are written as the base page.                   *)
(***************************************************************************)
EXTENDS Integers

CONSTANTS NumPages,  \* pages of address space the OS can hand out
          GenMod,    \* generations wrap modulo this (u32 in the code)
          Phase,     \* lifecycle phases an allocation is tagged with
          Comptime   \* the phase of compile-time evaluation

ASSUME GuardParamsAssumption ==
    /\ NumPages \in Nat
    /\ GenMod \in Nat \ {0, 1}
    /\ Comptime \in Phase

Page == 1 .. NumPages   \* page 0 holds the null pointer and is never mapped
=============================================================================
