\* Auto-publishing on: a request and the sweep overlap, a job overlaps neither,
\* crashes and failed writes anywhere.
SPECIFICATION SystemSpec
CONSTANTS
    AiTexts = {draft}
    HumanTexts = {edited}
    OwnerTexts = {owner}
    NoText = NoText
    Actors = {alice}
    Nobody = Nobody
    Trim <- MCTrim
    Requests = {r1}
    Sweepers = {s1}
    RequireApprovalForAll = FALSE
    LeftoverDrafts = FALSE
    ThresholdCoversAttempt = TRUE
    OwnerMayReply = TRUE
    MaxFaults = 2
    Deliveries = {d1}
    Admins = {a1}
    MaxVersion = 2
    Words <- MCWords
    RiskyTexts <- MCRiskyTexts
    OwnSettings <- MCOwnSettings
    Named = TRUE
    DatabaseMayFail = TRUE
    MayCrash = TRUE
    OneAtATime = TRUE
    JobsAlone = TRUE
INVARIANTS ApprovalIsCurrent AutoPostIsEarned
PROPERTIES SystemPublishedOnce BlockedForGood
