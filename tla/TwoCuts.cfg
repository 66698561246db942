SPECIFICATION ConversationSpec
CONSTANTS
    NoUser = NoUser
    Countries = {"US"}
    Members = {}
    EU = "EU"
    NoRegion = NoRegion
    Tiers = {"free"}
    Sensitive = {"self_harm", "weapons"}
    Categories = {"general", "crafts"}
    Domains = {}
    Sources = {}
    SensitiveCap = 200
    NoAnswer = NoAnswer
    a1 = a1
    a2 = a2
    Asks = {a1, a2}
    MaxMessages = 3
    MaxWords = 6
    Garbled = Garbled
    Conversations <- CutTalk
    Normalized <- NormalWords
    SensitiveRegistry <- SensitiveRules
    CommercialRegistry <- CommercialRules
    Intents <- IntentWeights
    Informational <- Questions
    Canonical <- Spelling
    Contents <- Replies
    Policy <- Merging
INVARIANT RulesAreTheFloor
CHECK_DEADLOCK FALSE
