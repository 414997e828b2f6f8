----------------------------- MODULE MCPublish -----------------------------
(***************************************************************************)
(* Values for model-checking PublishWorkflow.                              *)
(***************************************************************************)
EXTENDS PublishRefinement, TLC

\* No text has outer whitespace.
MCTrim == [t \in Texts |-> t]

\* Admins are interchangeable, and so are processes of a kind.
MCSymmetry ==
    Permutations(Requests) \cup Permutations(Sweepers) \cup Permutations(Actors)
=============================================================================
