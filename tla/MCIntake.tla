----------------------------- MODULE MCIntake -----------------------------
(***************************************************************************)
(* Values for model-checking ReviewIntake.                                 *)
(***************************************************************************)
EXTENDS ReviewIntake, TLC

CONSTANTS good, bad, risky   \* what a customer may write

\* No text has outer whitespace.
MCTrim == [t \in Texts |-> t]

\* Five stars, then one star, then five again with a keyword, and an update
\* that leaves the words as they are.
WordsWorsen ==
    <<[rating |-> 5, text |-> good], [rating |-> 1, text |-> bad],
      [rating |-> 5, text |-> risky], [rating |-> 5, text |-> risky]>>

\* The second edit restores the first words.
WordsReturn ==
    <<[rating |-> 5, text |-> good], [rating |-> 4, text |-> good],
      [rating |-> 5, text |-> good]>>

MCRiskyTexts == {risky}

\* A business that lets four- and five-star replies post themselves.
MCOwnSettings ==
    [autoPublishFiveStar |-> TRUE, autoPublishFourStar |-> TRUE,
     minAutoPublishRating |-> 4]
=============================================================================
