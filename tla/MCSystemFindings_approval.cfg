SPECIFICATION SystemSpec
CONSTANTS
    AiTexts = {draft}
    HumanTexts = {edited}
    OwnerTexts = {owner}
    NoText = NoText
    Actors = {alice}
    Nobody = Nobody
    Trim <- MCTrim
    Requests = {r1}
    Sweepers = {s1}
    RequireApprovalForAll = TRUE
    LeftoverDrafts = FALSE
    ThresholdCoversAttempt = TRUE
    OwnerMayReply = FALSE
    MaxFaults = 2
    Deliveries = {d1}
    Admins = {a1}
    MaxVersion = 2
    Words <- MCWords
    RiskyTexts <- MCRiskyTexts
    OwnSettings <- MCOwnSettings
    Named = TRUE
    DatabaseMayFail = TRUE
    MayCrash = FALSE
    OneAtATime = TRUE
    JobsAlone = TRUE
INVARIANTS HumanApprovesEverything
