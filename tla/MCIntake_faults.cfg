SPECIFICATION IntakeSpec
CONSTANTS
    AiTexts = {draft}
    HumanTexts = {edited}
    OwnerTexts = {owner}
    NoText = NoText
    Actors = {alice}
    Nobody = Nobody
    Trim <- MCTrim
    good = good
    bad = bad
    risky = risky
    RiskyTexts <- MCRiskyTexts
    OwnSettings <- MCOwnSettings
    Deliveries = {d1}
    Admins = {a1}
    MaxVersion = 4
    Words <- WordsWorsen
    RequireApprovalForAll = FALSE
    Named = FALSE
    OneAtATime = TRUE
    DatabaseMayFail = TRUE
    MayCrash = TRUE
    MaxFaults = 2
INVARIANTS IntakeTypeOK FlagSticks GeneratedIsEarned NoWordsLost DraftedOnce
