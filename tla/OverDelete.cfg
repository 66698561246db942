SPECIFICATION StoredSpec
CONSTANTS
    TurnIds = {a1, a2}
    EventIds = {}
    StoreRawText = {FALSE}
    Jobs = {j1}
    RetainDays = {1}
    LastDay = 2
    MaxRuns = 1
    Gateways = {g1}
    Dashboards = {db}
    Creatives = {c1}
    MaxEdits = 1
    Label = label
    Blank = blank
    Output = output
    Null = Null
    GENESIS = genesis
    MaxRecords = 0
    MaxKeys = 1
PROPERTIES NeverOverDeletes
