-------------------------- MODULE PublishingPolicy --------------------------
(***************************************************************************)
(* What decides whether a drafted reply may post itself:                   *)
(* policies/risk-classifier.ts, policies/publishing-policy.ts and          *)
(* policies/evaluate-review.ts.                                            *)
(*                                                                         *)
(* The keyword scan is reduced to whether any high-risk category matched   *)
(* the customer's text; the reason codes are left out.                     *)
(***************************************************************************)
EXTENDS Integers

RISK_LEVELS == {"low", "medium", "high"}

RISK_RANK == [low |-> 0, medium |-> 1, high |-> 2]

maxRisk(a, b) == IF RISK_RANK[a] >= RISK_RANK[b] THEN a ELSE b

classifyRisk(keywordMatched, aiRisk, aiNeedsHumanReview) ==
    LET riskLevel == maxRisk(aiRisk, IF keywordMatched THEN "high" ELSE "low")
    IN  [riskLevel        |-> riskLevel,
         needsHumanReview |-> aiNeedsHumanReview \/ riskLevel # "low"]

---------------------------------------------------------------------------
Ratings  == 1..5
NoRating == 0         \* Google's STAR_RATING_UNSPECIFIED, null in the code

NoSettings == [none |-> TRUE]    \* no business_settings row

DEFAULT_PUBLISHING_SETTINGS ==
    [autoPublishFiveStar |-> FALSE, autoPublishFourStar |-> FALSE,
     minAutoPublishRating |-> 4]

\* Mutant: a minimum out of range counts as the default.
clampToDefault(minimum) == IF minimum \in 4..5 THEN minimum ELSE 4

\* Math.min(5, Math.max(4, minimum))
clampMinAutoPublishRating(minimum) ==
    IF minimum < 4 THEN 4 ELSE IF minimum > 5 THEN 5 ELSE minimum

effectiveSettings(settings) ==
    IF settings = NoSettings THEN DEFAULT_PUBLISHING_SETTINGS ELSE settings

\* The rules no setting can turn off.
mandatoryApproval(rating, riskLevel, needsHumanReview, requireApprovalForAll) ==
    \/ requireApprovalForAll
    \/ rating = NoRating
    \/ rating <= 3
    \/ riskLevel # "low"
    \/ needsHumanReview

allowedBySettings(rating, settings) ==
    /\ rating >= clampMinAutoPublishRating(settings.minAutoPublishRating)
    /\ rating = 5 => settings.autoPublishFiveStar
    /\ rating = 4 => settings.autoPublishFourStar

decidePublishing(rating, riskLevel, needsHumanReview, hasReply, settings, forAll) ==
    IF hasReply THEN "BLOCKED"
    ELSE IF \/ mandatoryApproval(rating, riskLevel, needsHumanReview, forAll)
            \/ ~allowedBySettings(rating, effectiveSettings(settings))
         THEN "REQUIRE_APPROVAL"
    ELSE "AUTO_PUBLISH"

---------------------------------------------------------------------------
\* Mutant: only this attempt's own signal counts.
stickyNot(prior, needsHumanReview) == needsHumanReview

humanReviewStaysRequired(prior, needsHumanReview) == prior \/ needsHumanReview

evaluateReviewForPublishing(rating, keyword, hasReply, ai, settings, prior, forAll) ==
    LET classification == classifyRisk(keyword, ai.risk, ai.needsHumanReview)
        required == humanReviewStaysRequired(prior, classification.needsHumanReview)
    IN  [needsHumanReview    |-> classification.needsHumanReview,
         humanReviewRequired |-> required,
         decision |-> decidePublishing(rating, classification.riskLevel, required,
                                       hasReply, settings, forAll)]
=============================================================================
