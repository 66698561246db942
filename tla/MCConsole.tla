----------------------------- MODULE MCConsole -----------------------------
(* Finite instances of what runs beside the evaluate path and shares no    *)
(* row with it: the credential forms, the catalogue, the forms of apps and *)
(* the retention scheduler.  A behaviour is of one of them, its focus; the *)
(* others stay where they start.                                           *)
(*                                                                         *)
(* Forms: a signup, beside another form from its own client or not, and a  *)
(* third from another client.  Catalogue: a creative from the editor, an   *)
(* import that may name the advertiser otherwise, and a third writer.      *)
(* Apps: two members register one each, one of them with a policy that     *)
(* names another app, one edits the first, and a fourth errand follows.    *)
EXTENDS Accounts, Catalogue, RetentionScheduler, Tenants

CONSTANTS r1, r2, r3, ip1, ip2, e1, p1, p2,
          w1, w2, w3, c1, c2, c3, c4, c5, d1, n1, n2, h1, h2, x, y, shared, private,
          o1, o2, o3, o4, ann, ben, b1

VARIABLE focus

Form(k, c, p) == [kind |-> k, client |-> c, email |-> e1, password |-> p]
MixedPlans ==
    {[r \in {r1, r2, r3} |-> CASE r = r1 -> Form("signup", ip1, p1)
                               [] r = r2 -> Form(k, c, p1)
                               [] r = r3 -> Form(l, ip2, p2)] :
        k \in {"signup", "login"}, l \in {"login", "operator"}, c \in {ip1, ip2}}

New(c, h, p) == [id |-> c, headline |-> h, copy |-> p]
WritingIn(catalog, kind, name, entries) ==
    [kind |-> kind, domain |-> d1, name |-> name, catalog |-> catalog, entries |-> entries]
Writing(kind, name, entries) == WritingIn(shared, kind, name, entries)
MixedJobs ==
    {[w \in {w1, w2, w3} |->
        CASE w = w1 -> first
          [] w = w2 -> Writing("seed", n, <<New(c2, h1, y), New(c3, h2, y)>>)
          [] w = w3 -> third] :
        first \in {Writing("create", n1, <<New(c1, h1, x)>>),
                   Writing("seed", n1, <<New(c1, h1, x)>>)},
        n \in {n1, n2},
        third \in {Writing("create", n2, <<New(c4, h1, x)>>),
                   Writing("create", Listed, <<New(c4, h1, x)>>),
                   Writing("update", Listed, <<New(c1, h2, y)>>),
                   Writing("update", n1, <<New(c3, h1, y)>>),
                   WritingIn(private, "update", Listed, <<New(c2, h1, y)>>),
                   Writing("seed", n1, <<New(c4, h2, x), New(c5, h1, y)>>)}}

Ordered(kind, by, app, key, policy) ==
    [kind |-> kind, by |-> by, app |-> app, key |-> key, policy |-> policy]
Document(a, b) == [app_id |-> a, body |-> b]
MixedOrders ==
    {[o \in {o1, o2, o3, o4} |->
        CASE o = o1 -> Ordered("create", ann, o1, o1, Document(Elsewhere, b1))
          [] o = o2 -> Ordered("create", other, o2, o2, Blank)
          [] o = o3 -> Ordered("save", ann, o1, o1, Document(o1, b1))
          [] o = o4 -> last] :
        other \in {ben, BreakGlass},
        last \in {Ordered("save", ann, o1, o1, Document(o1, Default)),
                  Ordered("save", ben, o1, o1, Document(o1, Default)),
                  Ordered("save", ben, o2, o2, Document(o1, b1)),
                  Ordered("affiliate", ann, o2, o2, Blank),
                  Ordered("revoke", ben, o2, o1, Blank),
                  Ordered("revoke", ben, o1, o1, Blank),
                  Ordered("key", Shell, o1, o1, Blank),
                  Ordered("create", ann, o4, o4, Unreadable)}}

ConsoleInit ==
    /\ focus \in {"forms", "catalogue", "apps", "scheduler"}
    /\ Init /\ CatalogueInit /\ SchedulerInit /\ TenantsInit
    /\ focus # "forms" => /\ form = CHOOSE f \in Plans : TRUE
                          /\ adminPassword = CHOOSE p \in Passwords : TRUE
    /\ focus # "catalogue" => job = CHOOSE j \in Jobs : TRUE
    /\ focus # "apps" => /\ order = CHOOSE o \in Orders : TRUE
                         /\ role = [u \in People |-> "member"]
    /\ role[ann] = "member"

ConsoleNext ==
    /\ UNCHANGED focus
    /\ \/ focus = "forms" /\ Next /\ UNCHANGED <<catalogueVars, schedulerVars, tenantVars>>
       \/ focus = "catalogue" /\ CatalogueNext /\ UNCHANGED <<vars, schedulerVars, tenantVars>>
       \/ focus = "apps" /\ TenantsNext /\ UNCHANGED <<vars, catalogueVars, schedulerVars>>
       \/ focus = "scheduler" /\ SchedulerNext /\ UNCHANGED <<vars, catalogueVars, tenantVars>>

ConsoleSpec ==
    /\ ConsoleInit
    /\ [][ConsoleNext]_<<focus, vars, catalogueVars, schedulerVars, tenantVars>>
    /\ \A p \in Processes : WF_schedulerVars(
           focus = "scheduler" /\ Work(p) /\ UNCHANGED <<focus, vars, catalogueVars, tenantVars>>)
=============================================================================
