SPECIFICATION DecisionSpec
CONSTANTS
    NoUser = NoUser
    Countries = {"US", "DE", "FR", "JP"}
    Members = {"DE", "FR"}
    EU = "EU"
    NoRegion = NoRegion
    Tiers = {"free", "plus"}
    Sensitive = {"self_harm", "health"}
    Categories = {"general", "software", "software.ci"}
    Domains = {}
    Sources = {"direct"}
    SensitiveCap = 2
    NoAnswer = NoAnswer
    Requests = {r1, r2}
    Processes = {g1, g2}
    Apps = {"a1", "a2"}
    Texts = {"product", "crisis"}
    StoredPolicy <- Policy1
    RulesOf <- Rules1
    Answers <- Answers1
    Inputs <- Requests1
    Ttl = 2
    MaxEntries = 1
    LastTime = 3
    Slots = {t1}
    CreativeIds = {c1}
    Networks = {"amazon", "impact"}
    NoNetwork = NoNetwork
    NoList = NoList
    OfferPolicies <- Policies1
    CreativeRows <- Rows1
    Asks <- Asks1
    Beneath <- Under
    MaxParsed = 1
SYMMETRY Symmetry
INVARIANTS AnswerFitsRequest NoStaleAnswer NeverServesSelfHarm EngineOnlyTightens
PROPERTIES DeliveryAgrees
