SPECIFICATION IntakeFairSpec
CONSTANTS
    AiTexts = {draft}
    HumanTexts = {edited}
    OwnerTexts = {owner}
    NoText = NoText
    Actors = {alice}
    Nobody = Nobody
    Trim <- MCTrim
    good = good
    bad = bad
    risky = risky
    RiskyTexts <- MCRiskyTexts
    OwnSettings <- MCOwnSettings
    Deliveries = {d1}
    Admins = {}
    MaxVersion = 3
    Words <- WordsReturn
    RequireApprovalForAll = TRUE
    Named = TRUE
    OneAtATime = TRUE
    DatabaseMayFail = FALSE
    MayCrash = TRUE
    MaxFaults = 2
INVARIANT AckedIsStored
PROPERTY LastWordsAreHandled
