-------------------------- MODULE PolicyTightening --------------------------
(***************************************************************************)
(* The publishing decision as its inputs change one at a time, each step a *)
(* change for the worse: the model reports more risk, the customer's text  *)
(* matches a keyword, an earlier attempt was flagged, a reply shows up on  *)
(* Google, the business switches auto-publishing off or asks for more      *)
(* stars, the product asks for approval of everything.                     *)
(***************************************************************************)
EXTENDS PublishingPolicy

CONSTANT Minimums    \* values min_auto_publish_rating may have, in range or not

ASSUME MinimumsAssumption == Minimums \subseteq Int

VARIABLE input

Settings ==
    [autoPublishFiveStar : BOOLEAN, autoPublishFourStar : BOOLEAN,
     minAutoPublishRating : Minimums]

Inputs ==
    [rating : Ratings \cup {NoRating}, keywordMatched : BOOLEAN,
     hasExistingGoogleReply : BOOLEAN, aiRisk : RISK_LEVELS,
     aiNeedsHumanReview : BOOLEAN, settings : Settings \cup {NoSettings},
     prior : BOOLEAN, requireApprovalForAll : BOOLEAN]

decisionFor(i) ==
    evaluateReviewForPublishing(
        i.rating, i.keywordMatched, i.hasExistingGoogleReply,
        [risk |-> i.aiRisk, needsHumanReview |-> i.aiNeedsHumanReview],
        i.settings, i.prior, i.requireApprovalForAll).decision

Init == input \in Inputs

RiskRises ==
    \E risk \in RISK_LEVELS :
        /\ RISK_RANK[risk] > RISK_RANK[input.aiRisk]
        /\ input' = [input EXCEPT !.aiRisk = risk]

KeywordAppears      == input' = [input EXCEPT !.keywordMatched = TRUE]
ModelAsksForHuman   == input' = [input EXCEPT !.aiNeedsHumanReview = TRUE]
EarlierAttemptFlagged == input' = [input EXCEPT !.prior = TRUE]
ReplyAppears        == input' = [input EXCEPT !.hasExistingGoogleReply = TRUE]
ApprovalForAll      == input' = [input EXCEPT !.requireApprovalForAll = TRUE]

FiveStarOff ==
    /\ input.settings # NoSettings
    /\ input' = [input EXCEPT !.settings.autoPublishFiveStar = FALSE]

FourStarOff ==
    /\ input.settings # NoSettings
    /\ input' = [input EXCEPT !.settings.autoPublishFourStar = FALSE]

MinimumRises ==
    /\ input.settings # NoSettings
    /\ \E minimum \in Minimums :
           /\ minimum > input.settings.minAutoPublishRating
           /\ input' = [input EXCEPT !.settings.minAutoPublishRating = minimum]

Next ==
    \/ RiskRises
    \/ KeywordAppears
    \/ ModelAsksForHuman
    \/ EarlierAttemptFlagged
    \/ ReplyAppears
    \/ ApprovalForAll
    \/ FiveStarOff
    \/ FourStarOff
    \/ MinimumRises

Spec == Init /\ [][Next]_input

---------------------------------------------------------------------------
\* A reply posts itself exactly when a low-risk four- or five-star review that
\* nobody ever flagged and nobody answered meets settings that ask for it; no
\* input makes up for another (publishing-policy.ts, evaluate-review.ts).
AutoPublishIsEarned ==
    decisionFor(input) = "AUTO_PUBLISH" <=>
        /\ ~input.requireApprovalForAll
        /\ ~input.hasExistingGoogleReply
        /\ ~input.prior /\ ~input.aiNeedsHumanReview /\ ~input.keywordMatched
        /\ input.aiRisk = "low"
        /\ input.settings # NoSettings
        /\ \/ /\ input.rating = 5
              /\ input.settings.autoPublishFiveStar
           \/ /\ input.rating = 4
              /\ input.settings.autoPublishFourStar
              /\ input.settings.minAutoPublishRating <= 4

Strictness == [AUTO_PUBLISH |-> 0, REQUIRE_APPROVAL |-> 1, BLOCKED |-> 2]

\* No change for the worse makes the decision more permissive: configuration
\* and the model's own report "can only make auto-publishing stricter"
\* (publishing-policy.ts), whatever stands in the settings row.
NeverLoosens ==
    [][Strictness[decisionFor(input')] >= Strictness[decisionFor(input)]]_input
=============================================================================
