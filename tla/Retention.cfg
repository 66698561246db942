SPECIFICATION StoredSpec
CONSTANTS
    TurnIds = {a1, a2}
    EventIds = {a1, a2}
    StoreRawText = {TRUE}
    Jobs = {j1, j2}
    RetainDays = {1, 2}
    LastDay = 3
    MaxRuns = 1
    Gateways = {g1}
    Dashboards = {db}
    Creatives = {c1}
    MaxEdits = 1
    Label = label
    Blank = blank
    Output = output
    Null = Null
    GENESIS = genesis
    MaxRecords = 4
    MaxKeys = 2
SYMMETRY Symmetry
INVARIANTS SurvivorsLinked NoTextWithoutRecord ServedVersion VerifyTellsTheTruth
PROPERTIES WatermarkCoversDeletions EventsLeaveWithRecord
