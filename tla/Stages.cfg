SPECIFICATION StagesSpec
CONSTANTS
    NoUser = NoUser
    Countries = {"US"}
    Members = {}
    EU = "EU"
    NoRegion = NoRegion
    Tiers = {"free"}
    Sensitive = {"self_harm", "weapons"}
    Categories = {"general", "crafts"}
    Domains = {}
    Sources = {}
    SensitiveCap = 200
    NoAnswer = NoAnswer
    a1 = a1
    a2 = a2
    Asks = {a1, a2}
    MaxMessages = 3
    MaxWords = 6
    Garbled = Garbled
    Conversations <- SomeTalk
    Normalized <- NormalWords
    SensitiveRegistry <- SensitiveRules
    CommercialRegistry <- CommercialRules
    Intents <- IntentWeights
    Informational <- Questions
    Canonical <- Spelling
    Contents <- Replies
    Policy <- Merging
    Adapters = 3
    AdapterOf <- Demand
    Creatives <- Catalogue
    AdDomains <- Names
    Covers <- Subdomains
    MaxCandidates = 2
    NoNetwork = NoNetwork
    NoOffer = NoOffer
    t1 = t1
    t2 = t2
    k1 = k1
    k2 = k2
    Turns = {t1, t2}
    MaxSteps = 2
    Keys = {k1, k2}
    Plans <- MixedPlans
    MaxTurns = 1
    MaxChunks = 1
    None = None
INVARIANTS CacheIsTransparent CompoundsHideOnlyTheirWords BestAllowedWins
    OneEvaluatePerTurn AttestsWhatWasShown
PROPERTIES WaitsEnd
CHECK_DEADLOCK FALSE
