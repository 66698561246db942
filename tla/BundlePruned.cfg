SPECIFICATION BundleSpec
CONSTANTS
    TurnIds = {a1, a2}
    EventIds = {}
    StoreRawText = {FALSE}
    Jobs = {j1}
    RetainDays = {1}
    LastDay = 2
    MaxRuns = 1
    Ours = {a1, a2}
    Period = {0, 1, 2}
    RowLimit = 2
    MaxRows = 4
    m1 = m1
    p1 = p1
    p2 = p2
    AppOwner <- Owners
    NoAccount = NoAccount
    Searches <- Asking
    Admin = Admin
    RowHashes = {1, 2, 3}
    LastTime = 1
    PageSize = 1
INVARIANTS BundleReverifies
