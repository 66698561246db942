---------------------------- MODULE PolicyRules ----------------------------
(***************************************************************************)
(* What decides whether a turn may carry an ad, as operators: a request's  *)
(* overrides merged into the app's stored policy, the two classifier       *)
(* stages merged under that policy (packages/core/src/classify), and the   *)
(* policy engine over the result (packages/core/src/policy).               *)
(*                                                                         *)
(* Scores in [0, 1] are natural numbers, lists are sets, and a region is a *)
(* country or the token EU.  An override is a record with the fields of a  *)
(* policy: a field the request leaves out is one that repeats the stored   *)
(* value, which no rule of the merge tells from its absence.  Of demand,   *)
(* sources is what the policy enables and what the request leaves enabled. *)
(***************************************************************************)
EXTENDS FrequencyCaps

CONSTANTS
    Countries, Members,         \* Members: the countries EU stands for
    EU, NoRegion,
    Tiers, Sensitive, Categories, Domains, Sources,
    SensitiveCap,               \* scoring.sensitive.max_intent
    NoAnswer                    \* the language model did not answer

ASSUME PolicyAssumption ==
    /\ Members \subseteq Countries /\ EU \notin Countries /\ NoRegion \notin Countries
    /\ SensitiveCap \in Nat
    /\ "free" \in Tiers /\ "self_harm" \in Sensitive /\ "general" \in Categories

Policies ==
    [tiers: SUBSET Tiers, allow_paid: BOOLEAN, regions: SUBSET (Countries \cup {EU}),
     blocked: SUBSET Sensitive, detection: {"balanced", "strict"},
     min_intent: Nat, min_confidence: Nat, caps: CapValues,
     exclusions: SUBSET Domains, sources: SUBSET Sources, raw_text: BOOLEAN]

\* What the schema refuses to store.
ValidPolicy(p) ==
    /\ p \in Policies
    /\ "self_harm" \in p.blocked
    /\ ~p.allow_paid => p.tiers \subseteq {"free"}

ExpandRegions(allow) ==
    (allow \ {EU}) \cup (IF EU \in allow THEN Members ELSE {})

-----------------------------------------------------------------------------
(* mergeOverrides: every field moves in its stricter direction or not.     *)

\* Variant: the request's list takes the place of the stored one.
RegionsOverridden(p, o) == o.regions

\* Regions the stored list covers; a list rejected in full is ignored.
MergedRegions(p, o) ==
    LET kept == {e \in o.regions : ExpandRegions({e}) \subseteq ExpandRegions(p.regions)}
    IN IF kept # {} \/ o.regions = {} THEN kept ELSE p.regions

\* Turning paid tiers off drops them from the list as well.
MergedTiers(p, o) ==
    {t \in p.tiers \cap o.tiers : p.allow_paid /\ ~o.allow_paid => t = "free"}

MergeOverrides(p, o) ==
    [tiers |-> MergedTiers(p, o),
     allow_paid |-> p.allow_paid /\ o.allow_paid,
     regions |-> MergedRegions(p, o),
     blocked |-> p.blocked \cup o.blocked,
     detection |-> IF "strict" \in {p.detection, o.detection} THEN "strict" ELSE "balanced",
     min_intent |-> Higher(p.min_intent, o.min_intent),
     min_confidence |-> Higher(p.min_confidence, o.min_confidence),
     caps |-> StricterCaps(p.caps, o.caps),
     exclusions |-> p.exclusions \cup o.exclusions,
     sources |-> p.sources \cap o.sources,
     raw_text |-> p.raw_text /\ o.raw_text]

-----------------------------------------------------------------------------
(* The classifier.  A rules result has the categories of its commercial    *)
(* matches (none: general), its flags and those of them that are strong.   *)

Classifications ==
    [intent: Nat, categories: SUBSET Categories, sensitive: SUBSET Sensitive,
     confidence: Nat]
RulesResults ==
    [intent: Nat, commercial: SUBSET Categories, sensitive: SUBSET Sensitive,
     strong: SUBSET Sensitive, confidence: Nat]

\* What the rules stage can return: a flag caps the intent.
Capped(intent, flags) ==
    IF "self_harm" \in flags THEN 0
    ELSE IF flags # {} THEN Lower(intent, SensitiveCap) ELSE intent

RulesOnly(rules) ==
    [intent |-> rules.intent, sensitive |-> rules.sensitive,
     categories |-> IF rules.commercial = {} THEN {"general"} ELSE rules.commercial,
     confidence |-> rules.confidence]

RulesFired(rules) == rules.sensitive # {} \/ rules.commercial # {}

StagesCorroborate(rules, llm) ==
    /\ rules.sensitive \subseteq llm.sensitive
    /\ rules.commercial = {} \/ rules.commercial \cap llm.categories # {}

MergedConfidence(rules, llm) ==
    IF ~RulesFired(rules) THEN llm.confidence
    ELSE IF StagesCorroborate(rules, llm)
         THEN Higher(rules.confidence, llm.confidence)
         ELSE Lower(rules.confidence, llm.confidence)

\* Variant: an unsure model's flags never count.
UnsureIgnored(rules, llm, p) ==
    rules.sensitive \cup (IF llm.confidence >= p.min_confidence THEN llm.sensitive ELSE {})

\* The rules' flags stay; balanced detection believes a sure model only,
\* self_harm apart.
MergedSensitive(rules, llm, p) ==
    rules.sensitive \cup
        (IF p.detection = "strict" \/ llm.confidence >= p.min_confidence
         THEN llm.sensitive ELSE llm.sensitive \cap {"self_harm"})

Merged(rules, llm, p) ==
    LET flags == MergedSensitive(rules, llm, p)
    IN [intent |-> Capped(llm.intent, flags), categories |-> llm.categories,
        sensitive |-> flags, confidence |-> MergedConfidence(rules, llm)]

\* A strong flag is not put to the model; without an answer the rules decide.
Classified(rules, llm, p) ==
    IF rules.strong # {} \/ llm = NoAnswer THEN RulesOnly(rules) ELSE Merged(rules, llm, p)

-----------------------------------------------------------------------------
(* evaluatePolicy.  A user is [tier, region, hash].                        *)

TierServed(p, user) == user.tier \in p.tiers /\ (user.tier = "free" \/ p.allow_paid)
RegionAllowed(p, user) == user.region # NoRegion /\ user.region \in ExpandRegions(p.regions)
NothingBlocked(p, cls) ==
    (p.blocked \cup {"self_harm"}) \cap (cls.sensitive \cup cls.categories) = {}

\* Every rule but the competitor exclusions, which mediation applies.
Allowed(p, cls, user, state) ==
    /\ TierServed(p, user)
    /\ RegionAllowed(p, user)
    /\ NothingBlocked(p, cls)
    /\ cls.confidence >= p.min_confidence
    /\ cls.intent >= p.min_intent
    /\ WithinCaps(state, p.caps, user.hash)
=============================================================================
