------------------------------ MODULE Tenants ------------------------------
(***************************************************************************)
(* Apps, their keys and their policies, as the dashboard's forms           *)
(* (packages/dashboard/app/(dashboard)/apps/actions.ts) and the gateway's  *)
(* scripts write them, beside the turns that are judged under them.  A     *)
(* form is a server action: it reads who asks, then whether the app it     *)
(* names is theirs, then writes, and awaits the database each time.        *)
(* Meanwhile an operator may give an account another role or an app        *)
(* another owner.                                                          *)
(*                                                                         *)
(* An app is named by the errand that registers it, and so is a key: the   *)
(* errand that registers an app issues its first one.  A policy document   *)
(* is [app_id, body], and its own hash; one that does not parse is         *)
(* Unreadable.  That a cookie is good is Accounts' business, that a key    *)
(* still works is Admission's, and what accounts and policies do to a turn *)
(* is Delivery's.                                                          *)
(***************************************************************************)
EXTENDS Naturals, FiniteSets

CONSTANTS
    Errands,        \* forms submitted and scripts run
    People,         \* accounts of the dashboard
    Bodies,         \* what a policy may say, Default among them
    Default, Blank, Unreadable,
    Elsewhere,      \* the id of an app of some other gateway
    Orders,         \* what may be asked: functions from Errands to orders
    Turns,
    MaxInterventions        \* bound on roles and owners changed

BreakGlass == "operator"        \* OPERATOR_USER_ID
Shell == "shell"                \* whoever runs a script
NoOwner == "null"
Documents == [app_id : Errands \cup {Elsewhere}, body : Bodies]
Order == [kind : {"create", "save", "affiliate", "revoke", "key"},
          by : People \cup {BreakGlass, Shell},
          app : Errands, key : Errands, policy : Documents \cup {Blank, Unreadable}]

ASSUME TenantsAssumption ==
    /\ MaxInterventions \in Nat
    /\ Orders \subseteq [Errands -> Order] /\ Default \in Bodies
    /\ Elsewhere \notin Errands /\ {BreakGlass, Shell, NoOwner} \cap People = {}

VARIABLES
    role,       \* users.role
    apps,       \* rows of apps: [owner, policy, version, accounts], or NoApp
    keys,       \* rows of api_keys: [app, revoked], or NoKey
    order,      \* what each errand asks
    errand,     \* its handler: [pc, scope, saw, told]
    judged,     \* of each turn: the app row it read
    interventions

rowVars == <<role, apps, keys>>
tenantVars == <<rowVars, order, errand, judged, interventions>>

-----------------------------------------------------------------------------
NoApp == [version |-> 0]
NoKey == [app |-> Elsewhere, revoked |-> FALSE]
NoScope == [role |-> "none", owner |-> NoOwner]
AdminScope == [role |-> "admin", owner |-> NoOwner]
MemberScope(u) == [role |-> "member", owner |-> u]
Silent == [app |-> Elsewhere, version |-> 0, policy |-> Blank]
NewErrand == [pc |-> "idle", scope |-> NoScope, saw |-> {}, told |-> Silent]

Registered == {a \in Errands : apps[a] # NoApp}

TenantsInit ==
    /\ role \in [People -> {"member", "admin"}]
    /\ apps = [a \in Errands |-> NoApp]
    /\ keys = [k \in Errands |-> NoKey]
    /\ order \in Orders
    /\ errand = [e \in Errands |-> NewErrand]
    /\ judged = [t \in Turns |-> Silent]
    /\ interventions = 0

\* scopeFor: the role of the row, not of the cookie.
ScopeFor(who) ==
    IF who \in People /\ role[who] = "member" THEN MemberScope(who) ELSE AdminScope

\* ownsRow, appScopeCondition.
OwnsRow(scope, a) == scope.role = "admin" \/ apps[a].owner = scope.owner

\* appIsVisible, and the join of listApiKeys.
AppIsVisible(scope, a) == a \in Registered /\ OwnsRow(scope, a)

Visible(who) == {a \in Registered : AppIsVisible(ScopeFor(who), a)}

\* sessionOwnerId; a script leaves the owner out.
SessionOwner(who) == IF who \in People THEN who ELSE NoOwner

Ends(e, told) ==
    errand' = [errand EXCEPT ![e] = [NewErrand EXCEPT !.pc = "done", !.told = told]]
Refuse(e) == Ends(e, Silent)

\* validatePolicyYaml: the document parses, and names the app where there is
\* one to name.
Parses(policy) == policy # Unreadable
NamesApp(policy, a) == policy \in Documents /\ policy.app_id = a

\* The forms: a new app's policy may be left out, an edited one may not.
Acceptable(o) ==
    CASE o.kind = "create" -> Parses(o.policy)
      [] o.kind = "save" -> NamesApp(o.policy, o.app)
      [] OTHER -> TRUE

-----------------------------------------------------------------------------
(* A server action.                                                        *)

\* requireSession, of an app or a key the page before it has shown, or a
\* script's start.
RequireSession(e) ==
    LET o == order[e] IN
    /\ errand[e].pc = "idle"
    /\ o.kind # "create" => o.app \in Registered
    /\ o.kind = "revoke" => keys[o.key] # NoKey
    /\ errand' = [errand EXCEPT ![e].pc = IF o.kind = "create" \/ o.by = Shell
                                          THEN "writing" ELSE "checking",
                                ![e].scope = ScopeFor(o.by), ![e].saw = Visible(o.by)]
    /\ UNCHANGED <<rowVars, order, judged, interventions>>

\* Variant: the key is looked for among all keys.
AnyKeys(scope, a) == {k \in Errands : keys[k] # NoKey /\ AppIsVisible(scope, a)}
\* listApiKeys: the keys of an app this scope may see.
ListApiKeys(scope, a) ==
    {k \in Errands : keys[k] # NoKey /\ keys[k].app = a /\ AppIsVisible(scope, a)}

\* The ownership check, by the scope the session had.
CheckVisible(e) ==
    LET o == order[e]
        scope == errand[e].scope
        mine == IF o.kind = "revoke" THEN o.key \in ListApiKeys(scope, o.app)
                ELSE AppIsVisible(scope, o.app)
    IN /\ errand[e].pc = "checking"
       /\ IF ~mine THEN Refuse(e)
          ELSE errand' = [errand EXCEPT ![e].pc = "writing", ![e].saw = @ \cup Visible(o.by)]
       /\ UNCHANGED <<rowVars, order, judged, interventions>>

\* registerApp: the app and its first key, in one transaction.
RegisterApp(e) ==
    LET o == order[e]
        stored == IF o.policy = Blank THEN [app_id |-> e, body |-> Default] ELSE o.policy
    IN /\ errand[e].pc = "writing" /\ o.kind = "create"
       /\ IF ~Acceptable(o) THEN Refuse(e) /\ UNCHANGED <<apps, keys>>
          ELSE /\ apps' = [apps EXCEPT ![e] = [owner |-> SessionOwner(o.by), policy |-> stored,
                                               version |-> 1, accounts |-> FALSE]]
               /\ keys' = [keys EXCEPT ![e] = [app |-> e, revoked |-> FALSE]]
               /\ Ends(e, [app |-> e, version |-> 1, policy |-> stored])
       /\ UNCHANGED <<role, order, judged, interventions>>

\* The bump, computed by Postgres in the UPDATE.
NextVersion(a) == apps[a].version + 1

SavePolicy(e) ==
    LET o == order[e]
        version == NextVersion(o.app)
    IN /\ errand[e].pc = "writing" /\ o.kind = "save"
       /\ IF ~Acceptable(o) THEN Refuse(e) /\ UNCHANGED apps
          ELSE /\ apps' = [apps EXCEPT ![o.app].policy = o.policy, ![o.app].version = version]
               /\ Ends(e, [app |-> o.app, version |-> version, policy |-> o.policy])
       /\ UNCHANGED <<role, keys, order, judged, interventions>>

\* setAffiliateConfig: the column, and nothing of the policy beside it.
SetAffiliateConfig(e) ==
    /\ errand[e].pc = "writing" /\ order[e].kind = "affiliate"
    /\ apps' = [apps EXCEPT ![order[e].app].accounts = ~@]
    /\ Ends(e, Silent)
    /\ UNCHANGED <<role, keys, order, judged, interventions>>

RevokeApiKey(e) ==
    /\ errand[e].pc = "writing" /\ order[e].kind = "revoke"
    /\ keys' = [keys EXCEPT ![order[e].key].revoked = TRUE]
    /\ Ends(e, Silent)
    /\ UNCHANGED <<role, apps, order, judged, interventions>>

\* issueApiKey, of the create-key script.
IssueApiKey(e) ==
    /\ errand[e].pc = "writing" /\ order[e].kind = "key"
    /\ keys' = [keys EXCEPT ![e] = [app |-> order[e].app, revoked |-> FALSE]]
    /\ Ends(e, Silent)
    /\ UNCHANGED <<role, apps, order, judged, interventions>>

\* The statement fails, or the process goes: nothing is written.
WriteFails(e) ==
    /\ errand[e].pc \in {"checking", "writing"}
    /\ Refuse(e)
    /\ UNCHANGED <<rowVars, order, judged, interventions>>

-----------------------------------------------------------------------------
(* Beside the forms.                                                       *)

\* A turn reads the app's row with its key, is judged under its policy, and
\* its record carries its version.
Judge(t) ==
    /\ judged[t] = Silent
    /\ \E k \in Errands :
           /\ keys[k] # NoKey /\ ~keys[k].revoked
           /\ LET a == keys[k].app IN
              judged' = [judged EXCEPT ![t] =
                  [app |-> a, version |-> apps[a].version, policy |-> apps[a].policy]]
    /\ UNCHANGED <<rowVars, order, errand, interventions>>

\* docs/deploy.md, "Accounts": there is no page for either.
Intervene == interventions < MaxInterventions /\ interventions' = interventions + 1

SetRole(u) ==
    /\ Intervene
    /\ role' = [role EXCEPT ![u] = IF @ = "admin" THEN "member" ELSE "admin"]
    /\ UNCHANGED <<apps, keys, order, errand, judged>>

HandOver(a, owner) ==
    /\ a \in Registered /\ Intervene
    /\ apps' = [apps EXCEPT ![a].owner = owner]
    /\ UNCHANGED <<role, keys, order, errand, judged>>

TenantsNext ==
    \/ \E e \in Errands :
           \/ RequireSession(e) \/ CheckVisible(e) \/ RegisterApp(e) \/ SavePolicy(e)
           \/ SetAffiliateConfig(e) \/ RevokeApiKey(e) \/ IssueApiKey(e) \/ WriteFails(e)
    \/ \E t \in Turns : Judge(t)
    \/ \E u \in People : SetRole(u)
    \/ \E a \in Errands, owner \in People \cup {NoOwner} : HandOver(a, owner)

TenantsSpec == TenantsInit /\ [][TenantsNext]_tenantVars

-----------------------------------------------------------------------------
(* Properties.                                                             *)

\* Every place a version of a policy was seen: rows, records, answers.
Sightings ==
    {[app |-> a, version |-> apps[a].version, policy |-> apps[a].policy] : a \in Registered}
    \cup {judged[t] : t \in Turns} \cup {errand[e].told : e \in Errands}

\* admin-store.ts: two operators who save at once do not land on one version,
\* so that whoever holds a record can tell which document it was judged under.
VersionsNameDocuments ==
    \A x, y \in Sightings : x.app = y.app /\ x.version = y.version => x.policy = y.policy

\* A step changes a row of an app, or of one of its keys.
Touched(a) ==
    \/ apps[a] # apps'[a]
    \/ \E k \in Errands : keys[k] # NoKey /\ keys[k].app = a /\ keys[k] # keys'[k]

\* actions.ts: "an app this session cannot read is an app it cannot write": a
\* form changes an app only if whoever sent it could see the app at some
\* moment since, whatever was handed over or demoted meanwhile.
OwnersWrite ==
    \A e \in Errands, a \in Registered :
        errand'[e] # errand[e] /\ Touched(a) => order[e].by = Shell \/ a \in errand[e].saw

\* What the console edits: every version is one document, and every edit is
\* its author's to make.
EditsHold == []VersionsNameDocuments /\ [][OwnersWrite]_tenantVars
=============================================================================
