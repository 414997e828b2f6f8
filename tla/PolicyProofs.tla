---------------------------- MODULE PolicyProofs ----------------------------
(***************************************************************************)
(* The publishing decision is right and monotone for every value the       *)
(* settings row may hold, not only for the minimums TLC was given.         *)
(***************************************************************************)
EXTENDS PolicyTightening, TLAPS

\* The inputs stay inputs.
LEMMA InputsStay == Spec => [](input \in Inputs)
<1>1. Init => input \in Inputs
  BY DEF Init
<1>2. input \in Inputs /\ [Next]_input => (input \in Inputs)'
  <2> SUFFICES ASSUME input \in Inputs, [Next]_input PROVE input' \in Inputs
    OBVIOUS
  <2>1. CASE RiskRises
    BY <2>1, MinimumsAssumption DEF RiskRises, Inputs, Settings
  <2>2. CASE KeywordAppears
    BY <2>2, MinimumsAssumption DEF KeywordAppears, Inputs, Settings
  <2>3. CASE ModelAsksForHuman
    BY <2>3, MinimumsAssumption DEF ModelAsksForHuman, Inputs, Settings
  <2>4. CASE EarlierAttemptFlagged
    BY <2>4, MinimumsAssumption DEF EarlierAttemptFlagged, Inputs, Settings
  <2>5. CASE ReplyAppears
    BY <2>5, MinimumsAssumption DEF ReplyAppears, Inputs, Settings
  <2>6. CASE ApprovalForAll
    BY <2>6, MinimumsAssumption DEF ApprovalForAll, Inputs, Settings
  <2>7. CASE FiveStarOff
    BY <2>7, MinimumsAssumption DEF FiveStarOff, Inputs, Settings
  <2>8. CASE FourStarOff
    BY <2>8, MinimumsAssumption DEF FourStarOff, Inputs, Settings
  <2>9. CASE MinimumRises
    BY <2>9, MinimumsAssumption DEF MinimumRises, Inputs, Settings
  <2>10. CASE UNCHANGED input
    BY <2>10
  <2> QED
    BY <2>1, <2>2, <2>3, <2>4, <2>5, <2>6, <2>7, <2>8, <2>9, <2>10 DEF Next
<1> QED
  BY <1>1, <1>2, PTL DEF Spec

\* What the decision comes to.
LEMMA WhatIsEarned ==
    ASSUME NEW i \in Inputs
    PROVE  /\ decisionFor(i) = "BLOCKED" <=> i.hasExistingGoogleReply
           /\ decisionFor(i) = "AUTO_PUBLISH" <=>
                 /\ ~i.requireApprovalForAll
                 /\ ~i.hasExistingGoogleReply
                 /\ ~i.prior /\ ~i.aiNeedsHumanReview /\ ~i.keywordMatched
                 /\ i.aiRisk = "low"
                 /\ i.settings # NoSettings
                 /\ \/ /\ i.rating = 5
                       /\ i.settings.autoPublishFiveStar
                    \/ /\ i.rating = 4
                       /\ i.settings.autoPublishFourStar
                       /\ i.settings.minAutoPublishRating <= 4
           /\ decisionFor(i) \in {"AUTO_PUBLISH", "REQUIRE_APPROVAL", "BLOCKED"}
<1> DEFINE c == classifyRisk(i.keywordMatched, i.aiRisk, i.aiNeedsHumanReview)
           r == humanReviewStaysRequired(i.prior, c.needsHumanReview)
           m == mandatoryApproval(i.rating, c.riskLevel, r, i.requireApprovalForAll)
           s == allowedBySettings(i.rating, effectiveSettings(i.settings))
<1>1. decisionFor(i) = IF i.hasExistingGoogleReply THEN "BLOCKED"
                       ELSE IF m \/ ~s THEN "REQUIRE_APPROVAL" ELSE "AUTO_PUBLISH"
  BY DEF decisionFor, evaluateReviewForPublishing, decidePublishing
<1>2. c.riskLevel = "low" <=> ~i.keywordMatched /\ i.aiRisk = "low"
  BY DEF classifyRisk, maxRisk, RISK_RANK, RISK_LEVELS, Inputs
<1>3. c.needsHumanReview <=> i.aiNeedsHumanReview \/ c.riskLevel # "low"
  BY DEF classifyRisk
<1>4. m <=> \/ i.requireApprovalForAll \/ i.rating \notin {4, 5} \/ i.keywordMatched
            \/ i.aiRisk # "low" \/ i.prior \/ i.aiNeedsHumanReview
  BY <1>2, <1>3
     DEF mandatoryApproval, humanReviewStaysRequired, Inputs, Ratings, NoRating
<1>5. ASSUME i.settings = NoSettings, i.rating \in {4, 5} PROVE ~s
  BY <1>5 DEF effectiveSettings, allowedBySettings, DEFAULT_PUBLISHING_SETTINGS
<1>6. ASSUME i.settings # NoSettings, i.rating \in {4, 5}
      PROVE  s <=> \/ /\ i.rating = 5
                      /\ i.settings.autoPublishFiveStar
                   \/ /\ i.rating = 4
                      /\ i.settings.autoPublishFourStar
                      /\ i.settings.minAutoPublishRating <= 4
  <2>1. effectiveSettings(i.settings) = i.settings
    BY <1>6 DEF effectiveSettings
  <2>2. i.settings.minAutoPublishRating \in Int
    BY <1>6, MinimumsAssumption DEF Inputs, Settings
  <2> QED
    BY <1>6, <2>1, <2>2 DEF allowedBySettings, clampMinAutoPublishRating
<1> HIDE DEF c, r, m, s
<1>7. i.hasExistingGoogleReply \in BOOLEAN
  BY DEF Inputs
<1> QED
  BY <1>1, <1>4, <1>5, <1>6, <1>7

\* Only a review that earns it is posted unasked, whatever the settings row
\* holds (publishing-policy.ts, evaluate-review.ts).
THEOREM AutoPublishCorrect == Spec => []AutoPublishIsEarned
<1>1. input \in Inputs => AutoPublishIsEarned
  BY WhatIsEarned DEF AutoPublishIsEarned
<1> QED
  BY <1>1, InputsStay, PTL

\* No change for the worse makes the decision more permissive.
THEOREM TighteningCorrect == Spec => NeverLoosens
<1>1. ASSUME input \in Inputs, input' \in Inputs, [Next]_input
      PROVE  Strictness[decisionFor(input')] >= Strictness[decisionFor(input)]
  <2> DEFINE d == decisionFor(input)
             e == decisionFor(input')
  <2>1. /\ d \in {"AUTO_PUBLISH", "REQUIRE_APPROVAL", "BLOCKED"}
        /\ e \in {"AUTO_PUBLISH", "REQUIRE_APPROVAL", "BLOCKED"}
    BY <1>1, WhatIsEarned
  <2>2. d = "BLOCKED" => e = "BLOCKED"
    <3>1. input.hasExistingGoogleReply => input'.hasExistingGoogleReply
      BY <1>1
         DEF Next, Inputs, RiskRises, KeywordAppears, ModelAsksForHuman,
             EarlierAttemptFlagged, ReplyAppears, ApprovalForAll, FiveStarOff,
             FourStarOff, MinimumRises
    <3> QED
      BY <1>1, <3>1, WhatIsEarned
  <2>3. e = "AUTO_PUBLISH" => d = "AUTO_PUBLISH"
    <3> SUFFICES ASSUME e = "AUTO_PUBLISH" PROVE d = "AUTO_PUBLISH"
      OBVIOUS
    <3>1. CASE RiskRises
      BY <1>1, <3>1, WhatIsEarned, MinimumsAssumption
         DEF RiskRises, Inputs, Settings, RISK_LEVELS, RISK_RANK
    <3>2. CASE KeywordAppears
      BY <1>1, <3>2, WhatIsEarned, MinimumsAssumption
         DEF KeywordAppears, Inputs, Settings, RISK_LEVELS, RISK_RANK
    <3>3. CASE ModelAsksForHuman
      BY <1>1, <3>3, WhatIsEarned, MinimumsAssumption
         DEF ModelAsksForHuman, Inputs, Settings, RISK_LEVELS, RISK_RANK
    <3>4. CASE EarlierAttemptFlagged
      BY <1>1, <3>4, WhatIsEarned, MinimumsAssumption
         DEF EarlierAttemptFlagged, Inputs, Settings, RISK_LEVELS, RISK_RANK
    <3>5. CASE ReplyAppears
      BY <1>1, <3>5, WhatIsEarned, MinimumsAssumption
         DEF ReplyAppears, Inputs, Settings, RISK_LEVELS, RISK_RANK
    <3>6. CASE ApprovalForAll
      BY <1>1, <3>6, WhatIsEarned, MinimumsAssumption
         DEF ApprovalForAll, Inputs, Settings, RISK_LEVELS, RISK_RANK
    <3>7. CASE FiveStarOff
      BY <1>1, <3>7, WhatIsEarned, MinimumsAssumption
         DEF FiveStarOff, Inputs, Settings, RISK_LEVELS, RISK_RANK
    <3>8. CASE FourStarOff
      BY <1>1, <3>8, WhatIsEarned, MinimumsAssumption
         DEF FourStarOff, Inputs, Settings, RISK_LEVELS, RISK_RANK
    <3>9. CASE MinimumRises
      BY <1>1, <3>9, WhatIsEarned, MinimumsAssumption
         DEF MinimumRises, Inputs, Settings, RISK_LEVELS, RISK_RANK
    <3>10. CASE UNCHANGED input
      BY <3>10
    <3> QED
      BY <1>1, <3>1, <3>2, <3>3, <3>4, <3>5, <3>6, <3>7, <3>8, <3>9, <3>10 DEF Next
  <2> HIDE DEF d, e
  <2>4. Strictness[e] >= Strictness[d]
    BY <2>1, <2>2, <2>3 DEF Strictness
  <2> QED
    BY <2>4 DEF d, e
<1>2. (input \in Inputs) /\ (input \in Inputs)' /\ [Next]_input
        => [Strictness[decisionFor(input')] >= Strictness[decisionFor(input)]]_input
  BY <1>1
<1> QED
  BY <1>2, InputsStay, PTL DEF Spec, NeverLoosens
=============================================================================
