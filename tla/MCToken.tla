------------------------------ MODULE MCToken ------------------------------
(***************************************************************************)
(* TokenStore for TLC.                                                     *)
(***************************************************************************)
EXTENDS TokenStore, TLC

CallSymmetry == Permutations(Calls)
=============================================================================
