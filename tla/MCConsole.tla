----------------------------- MODULE MCConsole -----------------------------
(***************************************************************************)
(* Console for TLC: two accounts, one location of each.                    *)
(***************************************************************************)
EXTENDS Console, TLC

CONSTANTS a, b, x, y

MCListing == (a :> {x}) @@ (b :> {y})

TabSymmetry == Permutations(Tabs)
=============================================================================
