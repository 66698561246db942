----------------------------- MODULE AuditPages -----------------------------
(* The search of /audit (packages/dashboard/lib/audit-queries.ts and       *)
(* audit-filters.ts): somebody turns its pages, by links that carry the    *)
(* position of a row, while the gateway appends to the logs of several     *)
(* apps, an attestation at the time of its turn, and retention deletes     *)
(* from their old ends.                                                    *)
(*                                                                         *)
(* A record_hash is a number nobody else has, in no relation to time.      *)
(* Filters by reason are like those by decision.  A page is the set of its *)
(* rows, whose order on the screen is the one of Newer.                    *)
EXTENDS Integers, FiniteSets

CONSTANTS
    AppOwner,       \* apps, and the account that owns each, or NoAccount
    NoAccount,      \* the owner of an app the operator registered
    Admin,          \* the viewer who sees every app
    Searches,       \* viewers (accounts, or Admin) and the filters of their URLs
    RowHashes,         \* bound: the record hashes to be had
    LastTime,       \* bound: the clock stops there
    PageSize

ASSUME AuditPagesAssumption ==
    /\ RowHashes \subseteq Nat /\ IsFiniteSet(RowHashes)
    /\ LastTime \in Nat /\ PageSize \in Nat \ {0}
    /\ \A s \in Searches : s.viewer # NoAccount /\ s.from <= s.to

VARIABLES
    log,        \* audit_records, of all apps
    clock,
    search,     \* the viewer, the filters of the URL
    shown       \* the page on the screen, and what the search found then

pageVars == <<log, clock, search, shown>>

LogApps == DOMAIN AppOwner
AnyApp == "all"
AnyDecision == "any"
DecisionNames == {"serve", "suppress"}

-----------------------------------------------------------------------------
(* The order of the log: (ts, record_hash).                                *)

IsNewer(r, q) == r.ts > q.ts \/ (r.ts = q.ts /\ r.hash > q.hash)
Comes(direction, r, q) == IF direction = "older" THEN IsNewer(r, q) ELSE IsNewer(q, r)
First(direction, S, n) == {r \in S : Cardinality({q \in S : Comes(direction, q, r)}) < n}

(* What the position in a link, if there is one, lets through: the rows    *)
(* past it.                                                                *)
PastVariant(cursor, r) ==
    \A q \in cursor.from : IF cursor.direction = "older" THEN r.ts < q.ts ELSE r.ts > q.ts
Past(cursor, r) == \A q \in cursor.from : Comes(cursor.direction, q, r)
NoCursor == [direction |-> "older", from |-> {}]

(* A day of the filters is one tick; both ends are within the window.      *)
(* parseAuditFilters swaps days given the wrong way round.                 *)
InSearch(r) ==
    /\ r.ts \in search.from .. search.to
    /\ search.decision \in {AnyDecision, r.decision}
ScopedApps ==
    {a \in LogApps : (search.viewer = Admin \/ AppOwner[a] = search.viewer)
                     /\ search.app \in {AnyApp, a}}
Matching == {r \in log : r.app \in ScopedApps /\ InSearch(r)}
PageSlice(a, cursor, limit) ==
    First(cursor.direction, {r \in Matching : r.app = a /\ Past(cursor, r)}, limit)
AuditPageQuery(cursor, limit) ==
    First(cursor.direction, UNION {PageSlice(a, cursor, limit) : a \in ScopedApps}, limit)

NewestOf(S) == CHOOSE r \in S : \A q \in S \ {r} : IsNewer(r, q)
OldestRow(S) == CHOOSE r \in S : \A q \in S \ {r} : IsNewer(q, r)

(* One row more than is shown is fetched, and tells whether to go on.      *)
ListAuditPage(cursor) ==
    LET fetched == AuditPageQuery(cursor, PageSize + 1)
        rows == First(cursor.direction, fetched, PageSize)
        extra == fetched # rows
        backwards == cursor.direction = "newer"
    IN  [rows |-> rows, log |-> Matching, direction |-> cursor.direction,
         newer |-> rows # {} /\ (IF backwards THEN extra ELSE cursor # NoCursor),
         older |-> rows # {} /\ (backwards \/ extra)]

-----------------------------------------------------------------------------
NoPage == [rows |-> {}, log |-> {}, direction |-> "none", newer |-> FALSE, older |-> FALSE]

PagesInit ==
    /\ log = {} /\ clock = 0
    /\ search \in Searches
    /\ shown = NoPage

Show(cursor) ==
    /\ shown' = ListAuditPage(cursor)
    /\ UNCHANGED <<log, clock, search>>

OpenSearch == shown = NoPage /\ Show(NoCursor)
Older ==
    /\ shown.older
    /\ Show([direction |-> "older", from |-> {OldestRow(shown.rows)}])
Newer ==
    /\ shown.newer
    /\ Show([direction |-> "newer", from |-> {NewestOf(shown.rows)}])

-----------------------------------------------------------------------------
(* External: the gateway and its retention job.                            *)
FreshHash(h) == \A r \in log : r.hash # h
AddRow(r) == /\ log' = log \cup {r}
             /\ UNCHANGED <<clock, search, shown>>

(* The ts of a turn was read before its transaction.                       *)
AppendTurn(a, h, decision) ==
    \E ts \in {clock - 1, clock} \cap Nat :
        AddRow([app |-> a, ts |-> ts, hash |-> h, decision |-> decision])
AppendAttestation(r, h) == AddRow([r EXCEPT !.hash = h])
DeleteOldest(a) ==
    /\ \E r \in log :
           /\ r.app = a /\ \A q \in log : q.app = a => q.ts >= r.ts
           /\ log' = log \ {r} /\ shown' = [shown EXCEPT !.log = @ \ {r}]
    /\ UNCHANGED <<clock, search>>
PassTime == clock < LastTime /\ clock' = clock + 1 /\ UNCHANGED <<log, search, shown>>

PagesNext ==
    \/ OpenSearch \/ Older \/ Newer \/ PassTime
    \/ \E a \in LogApps : DeleteOldest(a)
    \/ \E h \in {h \in RowHashes : FreshHash(h)} :
           \/ \E a \in LogApps, d \in DecisionNames : AppendTurn(a, h, d)
           \/ \E r \in log : AppendAttestation(r, h)

PagesSpec == PagesInit /\ [][PagesNext]_pageVars

-----------------------------------------------------------------------------
(* Turning a page shows the rows that follow, none of them left out and    *)
(* none again (audit-queries.ts rule 2): of the rows that were there both  *)
(* when the page before was read and when this one is, those past its edge *)
(* come next, as many as fit, a link to further ones is missing only where *)
(* there are none, and nothing is of an app the viewer may not see.        *)
Turned(before, page) ==
    LET there == IF before = NoPage THEN page.log ELSE before.log
        follows == {r \in there : \A q \in before.rows : Comes(page.direction, q, r)}
    IN  /\ page.rows \cap before.rows = {}
        /\ \A r \in page.rows : r.app \in ScopedApps /\ InSearch(r)
        /\ \A r \in follows \ page.rows :
               /\ Cardinality(page.rows) = PageSize
               /\ \A q \in page.rows : Comes(page.direction, q, r)
               /\ IF page.direction = "older" THEN page.older ELSE page.newer
PagesCoverTheLog == [][log' = log => Turned(shown, shown')]_<<shown, search>>
=============================================================================
