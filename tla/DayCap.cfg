SPECIFICATION FairSpec
CONSTANTS
    Calls = {c1, c2}
    Conversations = {v1, v2}
    Users = {u1}
    NoUser = NoUser
    NoCall = NoCall
    AppCaps <- OnePerDay
    Overrides <- Unchanged
    LastDay = 1
INVARIANTS CapsHonoured
PROPERTIES Answered
