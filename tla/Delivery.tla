------------------------------ MODULE Delivery ------------------------------
(***************************************************************************)
(* Three parts of the code answer, each for itself, whether and how a      *)
(* creative reaches a user of an app: the demand adapters of a turn        *)
(* (packages/core/src/demand, gateway evaluate/adapters.ts), the diagnosis *)
(* the CLI, the dashboard and the no_fill warning print                    *)
(* (core/src/demand/deliverability.ts), and the click redirect, which      *)
(* builds the link anew (gateway/src/click).  Policies are parsed through  *)
(* a cache (evaluate/policy-loader.ts) and edited meanwhile, as are the    *)
(* app's affiliate accounts and its catalogue.                             *)
(*                                                                         *)
(* A policy is [demand, regions, blocked], demand a sequence of [source,   *)
(* network, enabled].  A creative's row is [active, source, network,       *)
(* targets, regions, builds]: a target is [base, wild], and builds are the *)
(* networks whose account fills the url_template.  The app has accounts    *)
(* with some networks.  An ask is what a request and its classification    *)
(* bring: [region, categories, sensitive] and the overrides [regions,      *)
(* blocked, off], off being the demand entries turned off; regions is      *)
(* NoList where the request does not override them.  Every stored policy   *)
(* parses (policy-save.ts), and every row is a CatalogCreative.            *)
(***************************************************************************)
EXTENDS PolicyRules, Sequences

CONSTANTS
    Slots,              \* conversations, each with one turn at a time
    CreativeIds, Networks, NoNetwork, NoList,
    OfferPolicies,      \* what the policy editor may save
    CreativeRows,       \* what the creative editor may save
    Asks,
    Beneath,            \* Beneath[c]: the categories under c in the taxonomy
    MaxParsed           \* POLICY_CACHE_MAX_ENTRIES

DemandEntries ==
    [source: {"direct", "affiliate", "koah", "gravity"}, network: Networks \cup {NoNetwork},
     enabled: BOOLEAN]

\* No content category is a sensitive one or lies under one (taxonomy.ts).
ASSUME DeliveryAssumption ==
    /\ MaxParsed \in Nat \ {0} /\ NoNetwork \notin Networks
    /\ \A s \in Sensitive : s \notin Categories /\ Beneath[s] \cap Categories = {}
    /\ \A c \in DOMAIN Beneath : \A d \in Beneath[c] \cap DOMAIN Beneath : Beneath[d] \subseteq Beneath[c]
    /\ \A policy \in OfferPolicies :
           policy.demand \in Seq(DemandEntries) /\ policy.blocked \subseteq Sensitive
    /\ Sensitive \cup UNION {{t.base : t \in row.targets} : row \in CreativeRows} \subseteq DOMAIN Beneath
    /\ \A ask \in Asks :
           /\ ask.categories \subseteq Categories
           /\ ask.sensitive \cup ask.blocked \subseteq Sensitive

VARIABLES
    app,        \* apps: policy_yaml and affiliate_config
    catalogue,  \* creatives
    parsed,     \* the process's policy loader
    turn        \* the turn of each conversation

deliveryVars == <<app, catalogue, parsed, turn>>

-----------------------------------------------------------------------------
(* Overrides of demand and regions; the rest of the merge is PolicyRules'. *)

Matches(entry, off) ==
    /\ entry.source = off.source
    /\ off.network \in {NoNetwork, entry.network}

MergeDemand(demand, offs) ==
    [i \in DOMAIN demand |->
        [demand[i] EXCEPT !.enabled = @ /\ ~ \E off \in offs : Matches(demand[i], off)]]

Effective(policy, ask) ==
    [demand |-> MergeDemand(policy.demand, ask.off),
     regions |-> IF ask.regions = NoList THEN policy.regions ELSE MergedRegions(policy, ask),
     blocked |-> policy.blocked \cup ask.blocked]

Enabled(policy) == {policy.demand[i] : i \in {j \in DOMAIN policy.demand : policy.demand[j].enabled}}
EnabledSources(policy) == {entry.source : entry \in Enabled(policy)}
EnabledNetworks(policy) == {entry.network : entry \in {e \in Enabled(policy) : e.source = "affiliate"}}

-----------------------------------------------------------------------------
(* What the adapters offer for a turn.                                     *)

MatchesTarget(target, category) ==
    IF target.wild THEN category \in Beneath[target.base] ELSE category = target.base

ServesRegion(row, region) == row.regions = {} \/ region \in ExpandRegions(row.regions)

\* matchScore above 0.
MatchScore(row, ask) ==
    /\ row.active
    /\ ServesRegion(row, ask.region)
    /\ \E target \in row.targets, category \in ask.categories : MatchesTarget(target, category)

Template == [via |-> "template", network |-> NoNetwork]
LandingPage == [via |-> "landing_page", network |-> NoNetwork]
Tracked(network) == [via |-> "affiliate", network |-> network]
Links == {Template, LandingPage} \cup {Tracked(n) : n \in Networks}

\* buildAffiliateUrl: the owner has an account and it fills the template.
Builds(row, network, accounts) == network \in accounts \cap row.builds

\* The adapter of a demand entry offers a creative under a link; those of koah
\* and gravity are stubs and offer nothing.
Offers(entry, row, link, ask, accounts) ==
    /\ MatchScore(row, ask)
    /\ \/ entry.source = "direct" /\ row.source = "direct" /\ link = Template
       \/ /\ entry.source = "affiliate" /\ row.source = "affiliate"
          /\ row.network \in {NoNetwork, entry.network}
          /\ Builds(row, entry.network, accounts)
          /\ link = Tracked(entry.network)

-----------------------------------------------------------------------------
(* What the diagnosis says.                                                *)

IsBlockedCategory(target, policy) ==
    \E s \in policy.blocked : target.base = s \/ target.base \in Beneath[s]

NetworksFor(row, policy) ==
    IF row.network = NoNetwork THEN EnabledNetworks(policy) ELSE {row.network}

AffiliateReady(row, policy, accounts) ==
    /\ row.network # NoNetwork => row.network \in EnabledNetworks(policy)
    /\ NetworksFor(row, policy) \cap accounts # {}

ServesSomeAllowedRegion(row, policy) ==
    LET allowed == ExpandRegions(policy.regions)
    IN IF row.regions = {} THEN allowed # {} ELSE ExpandRegions(row.regions) \cap allowed # {}

CreativeDeliverability(row, policy, accounts) ==
    /\ row.active
    /\ row.source \in EnabledSources(policy)
    /\ row.source = "affiliate" => AffiliateReady(row, policy, accounts)
    /\ ServesSomeAllowedRegion(row, policy)
    /\ \E target \in row.targets : ~IsBlockedCategory(target, policy)

-----------------------------------------------------------------------------
(* The policy loader: an entry is [key, policy].                           *)

\* Variant: a policy is kept by its app.
KeptByApp(policy) == "app"

\* The app and its policy_hash, which identifies the parsed document.
LoaderKey(policy) == policy

Loaded(policy) ==
    LET hits == {entry \in parsed : entry.key = LoaderKey(policy)}
    IN IF hits = {} THEN policy ELSE (CHOOSE entry \in hits : TRUE).policy

\* A miss is kept, and some older entry may have to go for it.
Load(policy) ==
    LET entry == [key |-> LoaderKey(policy), policy |-> policy]
    IN IF \E hit \in parsed : hit.key = entry.key THEN UNCHANGED parsed
       ELSE IF Cardinality(parsed) < MaxParsed THEN parsed' = parsed \cup {entry}
       ELSE \E gone \in parsed : parsed' = (parsed \ {gone}) \cup {entry}

-----------------------------------------------------------------------------
(* A turn, and the click on what it served.                                *)

NewTurn == [phase |-> "idle"]

DeliveryInit ==
    /\ app \in [policy: OfferPolicies, accounts: SUBSET Networks]
    /\ catalogue \in [CreativeIds -> CreativeRows]
    /\ parsed = {}
    /\ turn = [t \in Slots |-> NewTurn]

\* The key's app row is read when the request is authenticated.
BeginTurn(t, ask) ==
    /\ turn[t].phase \in {"idle", "unfilled", "served", "clicked"}
    /\ turn' = [turn EXCEPT ![t] = [phase |-> "received", app |-> app, ask |-> ask]]
    /\ UNCHANGED <<app, catalogue, parsed>>

\* Step 2: the stored policy of that row, and the request's overrides.
LoadPolicy(t) ==
    LET stored == turn[t].app.policy
    IN /\ turn[t].phase = "received"
       /\ turn' = [turn EXCEPT ![t] = [phase |-> "judging", app |-> @.app, ask |-> @.ask,
                                       policy |-> Effective(Loaded(stored), @.ask)]]
       /\ Load(stored)
       /\ UNCHANGED <<app, catalogue>>

\* Steps 5 and 6, with the catalogue of that moment and the accounts of the
\* app row.  Which offer wins is Mediation's; the others are excluded, worse
\* or late, and so may all be.
Serve(t, c, link) ==
    LET ask == turn[t].ask
        policy == turn[t].policy
    IN /\ turn[t].phase = "judging"
       /\ RegionAllowed(policy, ask) /\ NothingBlocked(policy, ask)
       /\ \E entry \in Enabled(policy) :
              Offers(entry, catalogue[c], link, ask, turn[t].app.accounts)
       /\ turn' = [turn EXCEPT ![t] =
             [phase |-> "served", app |-> @.app, ask |-> ask,
              creative |-> c, row |-> catalogue[c], link |-> link]]
       /\ UNCHANGED <<app, catalogue, parsed>>

Suppress(t) ==
    /\ turn[t].phase = "judging"
    /\ turn' = [turn EXCEPT ![t] = [phase |-> "unfilled"]]
    /\ UNCHANGED <<app, catalogue, parsed>>

\* The creative's own network, else the first enabled one of the policy.
AffiliateNetworkOf(row, demand) ==
    LET on == {i \in DOMAIN demand : demand[i].source = "affiliate" /\ demand[i].enabled}
    IN IF row.network # NoNetwork THEN row.network
       ELSE IF on = {} THEN NoNetwork
       ELSE demand[CHOOSE i \in on : \A j \in on : i <= j].network

ResolveDestination(row, policy, accounts) ==
    LET network == AffiliateNetworkOf(row, policy.demand)
    IN IF row.source # "affiliate" THEN Template
       ELSE IF network # NoNetwork /\ Builds(row, network, accounts) THEN Tracked(network)
       ELSE LandingPage

\* GET /c/:audit_id: rows and policy as they are now.  The click event is
\* written before the answer; when that fails there is no redirect.
Click(t) ==
    LET row == catalogue[turn[t].creative]
    IN /\ turn[t].phase = "served"
       /\ turn' = [turn EXCEPT ![t] =
             [phase |-> "clicked",
              location |-> ResolveDestination(row, Loaded(app.policy), app.accounts)]]
       /\ Load(app.policy)
       /\ UNCHANGED <<app, catalogue>>

-----------------------------------------------------------------------------
(* The dashboard's edits, and a restart of the gateway.                    *)

\* policy_yaml and policy_hash go in one statement.
SavePolicy(policy) ==
    /\ app' = [app EXCEPT !.policy = policy]
    /\ UNCHANGED <<catalogue, parsed, turn>>

SetAffiliateConfig(accounts) ==
    /\ app' = [app EXCEPT !.accounts = accounts]
    /\ UNCHANGED <<catalogue, parsed, turn>>

SaveCreative(c, row) ==
    /\ catalogue' = [catalogue EXCEPT ![c] = row]
    /\ UNCHANGED <<app, parsed, turn>>

RestartLoader ==
    /\ parsed' = {}
    /\ turn' = [t \in Slots |-> IF turn[t].phase \in {"received", "judging"}
                                THEN NewTurn ELSE turn[t]]
    /\ UNCHANGED <<app, catalogue>>

DeliveryNext ==
    \/ \E t \in Slots :
           \/ \E ask \in Asks : BeginTurn(t, ask)
           \/ LoadPolicy(t) \/ Suppress(t) \/ Click(t)
           \/ \E c \in CreativeIds, link \in Links : Serve(t, c, link)
    \/ \E policy \in OfferPolicies : SavePolicy(policy)
    \/ \E accounts \in SUBSET Networks : SetAffiliateConfig(accounts)
    \/ \E c \in CreativeIds, row \in CreativeRows : SaveCreative(c, row)
    \/ RestartLoader

DeliverySpec == DeliveryInit /\ [][DeliveryNext]_deliveryVars

-----------------------------------------------------------------------------
(* Properties.                                                             *)

\* A served creative is one the diagnosis calls deliverable, of the rows the
\* turn read, under the stored policy (what the CLI and the dashboard print)
\* and under the one the request made of it (what the no_fill warning uses):
\* what is reported blocked is never served.
ServedAsDiagnosed(t) ==
    turn[t].phase = "judging" /\ turn'[t].phase = "served" =>
        LET read == turn[t].app
            ask == turn[t].ask
            row == turn'[t].row
        IN /\ CreativeDeliverability(row, read.policy, read.accounts)
           /\ CreativeDeliverability(row, Effective(read.policy, ask), read.accounts)

\* A click leads where the served link led while nothing of it was edited,
\* as long as there is only one network the creative could be served through.
ClickedAsServed(t) ==
    turn[t].phase = "served" /\ turn'[t].phase = "clicked" =>
        LET row == turn[t].row
        IN app = turn[t].app /\ catalogue[turn[t].creative] = row
           /\ Cardinality(NetworksFor(row, app.policy)) <= 1
               => turn'[t].location = turn[t].link

\* The adapters, the diagnosis and the click redirect agree on a creative,
\* whatever is edited or cached while a turn runs.
DeliveryAgrees == [][\A t \in Slots : ServedAsDiagnosed(t) /\ ClickedAsServed(t)]_deliveryVars
=============================================================================
