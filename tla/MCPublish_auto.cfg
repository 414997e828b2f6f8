\* The policy's auto-publishing on: admin requests and overlapping sweeps.
SPECIFICATION FairSpec
CONSTANTS
    AiTexts = {draft}
    HumanTexts = {edited}
    OwnerTexts = {owner}
    NoText = NoText
    Actors = {alice}
    Nobody = Nobody
    Trim <- MCTrim
    Requests = {r1}
    Sweepers = {s1, s2}
    RequireApprovalForAll = FALSE
    LeftoverDrafts = FALSE
    ThresholdCoversAttempt = TRUE
    OwnerMayReply = TRUE
    MaxFaults = 1
PROPERTIES ImplementsReplySlot GeneratedIsHandled
