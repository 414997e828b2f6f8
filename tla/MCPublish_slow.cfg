SPECIFICATION Spec
CONSTANTS
    AiTexts = {draft}
    HumanTexts = {edited}
    OwnerTexts = {owner}
    NoText = NoText
    Actors = {alice, bob}
    Nobody = Nobody
    Trim <- MCTrim
    Requests = {r1, r2}
    Sweepers = {s1}
    RequireApprovalForAll = TRUE
    LeftoverDrafts = FALSE
    ThresholdCoversAttempt = FALSE
    OwnerMayReply = TRUE
    MaxFaults = 2
SYMMETRY MCSymmetry
INVARIANTS PublishedRecordIsTrue
PROPERTIES PublishedOnce
