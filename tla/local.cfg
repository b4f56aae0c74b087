\* CookieBridge, LabelSequence, MailboxScan, DashboardPage: each on its own
SPECIFICATION FairSpec
CONSTANTS
    MaxChanges = 2
    MaxDisturbances = 2
    Generations = {g1, g2}
    MaxNumber = 2
    MaxRestarts = 1
    MaxUid = 4
    Batch = 2
    MaxValidity = 1
    Rows = {r1}
    Remarks = {a, b}
    Gone = Gone
    MaxActs = 3
    MaxInFlight = 3
INVARIANTS
    NoChangeForgotten
    NoLabelTwice
    CursorCoversEverything
    RemarkSurvives
PROPERTIES
    LatestCookiesWin
    PageCatchesUp
CHECK_DEADLOCK FALSE
