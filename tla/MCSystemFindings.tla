-------------------------- MODULE MCSystemFindings --------------------------
(***************************************************************************)
(* What the documentation says of the whole pipeline and the code does not *)
(* keep: the run finds it violated.                                        *)
(***************************************************************************)
EXTENDS MCSystem

\* SPEC.md 1529: with REQUIRE_APPROVAL_FOR_ALL on, "every review requires a
\* human's explicit approval before anything reaches Google".
HumanApprovesEverything == OnlyApprovedShown
=============================================================================
