\* AdminLogin, HostedAccounts, InboxPage: each on its own
SPECIFICATION Spec
CONSTANTS
    Calls = {c1, c2, c3}
    Passwords = {p1, p2}
    MaxPasswordChanges = 2
    Accounts = {x, y}
    AppleIds = {i1, i2, i3}
    Dsids = {d1, d2}
    Keys = {k1, k2}
    Uploads = {u1, u2}
    Nobody = Nobody
    MaxDisruptions = 2
    Shares = {s1, s2}
    Bad = Bad
    NoShare = NoShare
INVARIANTS
    SessionsKnowThePassword
    EveryAccountHasItsInventory
    OnlyTheOpenedMailbox
PROPERTIES
    AccountsStayApart
    CookiesNeverGoBack
CHECK_DEADLOCK FALSE
