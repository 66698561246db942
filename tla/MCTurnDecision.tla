--------------------------- MODULE MCTurnDecision ---------------------------
(* Finite instances of TurnDecision and Delivery: what a turn is judged    *)
(* on, and what it may then carry.  A behaviour is of one of the two, its  *)
(* focus; the other stays where it starts.  Scores are tenths.             *)
EXTENDS TurnDecision, Delivery, TLC

VARIABLE focus

Base ==
    [tiers |-> {"free", "plus"}, allow_paid |-> TRUE, regions |-> {"US", "EU"},
     blocked |-> {"self_harm", "health"}, detection |-> "balanced",
     min_intent |-> 4, min_confidence |-> 5,
     caps |-> [per_session |-> 2, per_user_per_day |-> 2, min_turns_between |-> 1],
     exclusions |-> {}, sources |-> {"direct"}, raw_text |-> FALSE]
Policy1 == [a1 |-> Base, a2 |-> Base]

\* A product question, and one with a strong self_harm phrase in it.
Rules1 ==
    [product |-> [intent |-> 6, commercial |-> {"software"}, sensitive |-> {},
                  strong |-> {}, confidence |-> 8],
     crisis |-> [intent |-> 0, commercial |-> {}, sensitive |-> {"self_harm"},
                 strong |-> {"self_harm"}, confidence |-> 9]]

\* A sure model; an unsure one that flags health, or self_harm.
Sure == [intent |-> 8, categories |-> {"software"}, sensitive |-> {}, confidence |-> 9]
Unsure(flag) == [intent |-> 8, categories |-> {"software"}, sensitive |-> {flag},
                 confidence |-> IF flag = "health" THEN 6 ELSE 4]
Answers1 == {Sure, Unsure("health"), Unsure("self_harm")}

NoAds == [session_count |-> 0, day_count |-> 0, turns_since_last |-> Never]
Input(a, text, override, tier, region) ==
    [app |-> a, text |-> text, override |-> override, state |-> NoAds,
     user |-> [tier |-> tier, region |-> region, hash |-> NoUser]]

Strict == [Base EXCEPT !.detection = "strict", !.min_confidence = 7]
Surer == [Base EXCEPT !.min_confidence = 7]
FreeOnly == [Base EXCEPT !.allow_paid = FALSE]
\* A region the policy lacks next to one it has, and one it lacks alone.
OtherRegions == {[Base EXCEPT !.regions = {"JP", "DE"}], [Base EXCEPT !.regions = {"JP"}]}

Requests1 ==
    {Input("a1", "product", o, "free", "US") : o \in {Base, Strict, Surer}}
    \cup {Input("a2", "product", Base, "free", "US"), Input("a1", "crisis", Base, "free", "US")}
    \cup {Input("a1", "product", FreeOnly, "plus", "US")}
    \cup {Input("a1", "product", o, "free", "JP") : o \in OtherRegions}

-----------------------------------------------------------------------------
Entry(source, network, enabled) == [source |-> source, network |-> network, enabled |-> enabled]
Direct(enabled) == Entry("direct", NoNetwork, enabled)
Policies1 ==
    {[demand |-> <<Direct(TRUE), Entry("affiliate", "impact", FALSE),
                   Entry("affiliate", "amazon", TRUE)>>,
      regions |-> {"US", "EU"}, blocked |-> {"self_harm"}],
     [demand |-> <<Direct(FALSE), Entry("koah", NoNetwork, TRUE),
                   Entry("affiliate", "amazon", TRUE), Entry("affiliate", "impact", TRUE)>>,
      regions |-> {"DE"}, blocked |-> {"self_harm", "health"}]}

Target(base, wild) == [base |-> base, wild |-> wild]
Ad(source, network, targets, regions, builds) ==
    [active |-> TRUE, source |-> source, network |-> network, targets |-> targets,
     regions |-> regions, builds |-> builds]
\* Direct in the EU, paused, and aimed at nothing that is a category; an
\* affiliate creative of any network, of one, and one in a region no policy
\* has; a stub's.
Rows1 ==
    LET wide == {Target("software", TRUE)}
        either == {"amazon", "impact"}
        direct == Ad("direct", NoNetwork, wide, {"EU"}, {})
    IN {direct, [direct EXCEPT !.active = FALSE],
        [direct EXCEPT !.targets = {Target("health", TRUE)}],
        Ad("affiliate", NoNetwork, {Target("software.ci", FALSE)}, {}, either),
        Ad("affiliate", "impact", wide \cup {Target("general", FALSE)}, {"US", "DE"}, {"impact"}),
        Ad("affiliate", NoNetwork, wide, {"JP"}, either),
        Ad("koah", NoNetwork, wide, {}, {})}

Ask(region, regions, off) ==
    [region |-> region, categories |-> {"software.ci"}, sensitive |-> {},
     regions |-> regions, blocked |-> {}, off |-> off]
Off(source, network) == [source |-> source, network |-> network]
Asks1 ==
    {Ask("DE", NoList, {}), Ask("DE", {"DE", "JP"}, {Off("affiliate", "amazon")}),
     Ask("US", NoList, {Off("affiliate", NoNetwork), Off("gravity", NoNetwork)})}

Under ==
    [c \in {"software", "software.ci", "general", "self_harm", "health"} |->
        CASE c = "software" -> {"software.ci"} [] c = "health" -> {"health.pharmacy"} [] OTHER -> {}]

DecisionInit ==
    /\ focus \in {"decision", "delivery"}
    /\ Init /\ DeliveryInit
    /\ focus = "decision" => /\ app = CHOOSE a \in [policy: OfferPolicies, accounts: {{}}] : TRUE
                            /\ catalogue = CHOOSE f \in [CreativeIds -> CreativeRows] : TRUE

DecisionNext ==
    /\ UNCHANGED focus
    /\ \/ focus = "decision" /\ Next /\ UNCHANGED deliveryVars
       \/ focus = "delivery" /\ DeliveryNext /\ UNCHANGED vars

DecisionSpec == DecisionInit /\ [][DecisionNext]_<<focus, vars, deliveryVars>>

Symmetry == Permutations(Requests) \cup Permutations(Processes)
=============================================================================
