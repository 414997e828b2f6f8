\* Human approval of everything, the shipped default.
SPECIFICATION FairSpec
CONSTANTS
    AiTexts = {draft}
    HumanTexts = {edited}
    OwnerTexts = {owner}
    NoText = NoText
    Actors = {alice, bob}
    Nobody = Nobody
    Trim <- MCTrim
    Requests = {r1, r2}
    Sweepers = {s1}
    RequireApprovalForAll = TRUE
    LeftoverDrafts = FALSE
    ThresholdCoversAttempt = TRUE
    OwnerMayReply = TRUE
    MaxFaults = 2
INVARIANTS TypeOK SinglePublisher InFlightIsApproved OnlyApprovedShown
PROPERTIES NeverOverwrites PendingResolves
