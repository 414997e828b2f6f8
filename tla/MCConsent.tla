----------------------------- MODULE MCConsent -----------------------------
(***************************************************************************)
(* ConsentFlow for TLC.                                                    *)
(***************************************************************************)
EXTENDS ConsentFlow, TLC

\* Callbacks are alike, and so are the grants that are still to come.
FlowSymmetry == Permutations(Callbacks) \cup Permutations(Grants \ {FirstGrant})
=============================================================================
