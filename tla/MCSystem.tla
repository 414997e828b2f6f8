----------------------------- MODULE MCSystem -----------------------------
(***************************************************************************)
(* Values for model-checking ReviewSystem.                                 *)
(***************************************************************************)
EXTENDS ReviewSystem

\* No text has outer whitespace.
MCTrim == [t \in Texts |-> t]

\* Four stars with an innocent text, then one star.
MCWords == <<[rating |-> 4, text |-> "good"], [rating |-> 1, text |-> "bad"]>>

MCRiskyTexts == {"risky"}

\* A business that lets four- and five-star replies post themselves.
MCOwnSettings ==
    [autoPublishFiveStar |-> TRUE, autoPublishFourStar |-> TRUE,
     minAutoPublishRating |-> 4]
=============================================================================
