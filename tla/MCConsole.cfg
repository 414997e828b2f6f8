\* One Settings tab and two Connection tabs, two requests of theirs and one
\* thing typed in all, and one reconnection.
SPECIFICATION ConsoleSpec
CONSTANTS
    a = a
    b = b
    x = x
    y = y
    Accounts = {a, b}
    GoogleLocations = {x, y}
    Listing <- MCListing
    Voices = {v}
    NoVoice = NoVoice
    NoSettings = NoSettings
    MaxConnections = 2
    Panels = {p1}
    MaxEdits = 1
    Tabs = {t1, t2}
    NoAccount = NoAccount
    NoPlace = NoPlace
    MaxClicks = 2
SYMMETRY TabSymmetry
\* The bounds on clicks, edits and connections are used up in the end.
CHECK_DEADLOCK FALSE
INVARIANTS ConsoleTypeOK NothingOutlivesItsConnection StoredUnderItsAccount
PROPERTIES SettingsChangeBySaving UntypedStays
