SPECIFICATION LogSpec
CONSTANTS
    Calls = {c1, c2, c3}
    Conversations = {v1}
    Users = {}
    NoUser = NoUser
    NoCall = NoCall
    AppCaps <- OneTurnApart
    Overrides <- OneAdOnly
    LastDay = 0
    AuditIds = {u1, u2}
    NoAudit = NoAudit
    DayLength = 1
    LastTick = 2
    MaxRenders = 3
    WindowDays = 2
SYMMETRY Alike
INVARIANTS ChainLinked OneLatestVersion CountersMatchRecords ReplyMatchesRecord
    OverviewAddsUp
PROPERTIES AppendOnly ImplementsLedger
