---------------------------- MODULE Impressions ----------------------------
(* From a block on somebody's screen to the numbers of the overview.  The  *)
(* React slot (packages/sdk/src/react) renders the decision it is given,   *)
(* unless it stands inside the assistant's message or was dismissed, and   *)
(* reports it seen at most once per decision; the reports, each made once, *)
(* may be lost or late; POST /v1/events inserts them; and a page of the    *)
(* dashboard counts turns and events in two queries, while turns are being *)
(* recorded and attested.                                                  *)
(*                                                                         *)
(* There is one app, with one slot.  React's effects after paint come in a *)
(* step of their own, before the next render.  The report of a dismissal,  *)
(* which nothing counted here depends on, is left out, clicks are in       *)
(* Delivery, and deletions in Retention.                                   *)
EXTENDS Integers, FiniteSets, FiniteSetsExt

CONSTANTS
    AuditIds,       \* the turns there may be
    NoAudit,           \* the audit id of a decision the gateway did not make
    DayLength,      \* ticks in a day
    LastTick,       \* bound: the clock stops there
    MaxRenders,     \* bound: times the app renders the slot anew
    WindowDays      \* METRICS_WINDOW_DAYS

ASSUME ImpressionsAssumption ==
    /\ NoAudit \notin AuditIds
    /\ DayLength \in Nat \ {0} /\ LastTick \in Nat
    /\ MaxRenders \in Nat /\ WindowDays \in Nat \ {0}

VARIABLES
    slot,       \* the mounted component: its props, state and refs
    renders,
    posted,     \* impressions under way: how many, by audit id
    rows,       \* audit_records
    eventRows,  \* the impressions in table events: how many, by audit id
    tick,
    overview,   \* a page being loaded
    displayed   \* history: the turns that stood on the screen outside a message,
                \* or were watched when their node left one

impressionVars == <<slot, renders, posted, rows, eventRows, tick, overview, displayed>>

Nothing == [i \in AuditIds |-> 0]
DayOf(ts) == ts \div DayLength

-----------------------------------------------------------------------------
(* The gateway: turns, their attestations, and events.                     *)

Recorded == {r.id : r \in rows}
Latest(i) == CHOOSE r \in rows : r.id = i /\ r.latest
ServesAd(i) == i \in Recorded /\ Latest(i).decision = "serve"
gatewayVars == <<posted, rows, eventRows, tick>>
browserVars == <<slot, renders, displayed>>

(* External: see AuditChain.  A turn's ts was read before it committed, and *)
(* an attestation has that of its turn.                                    *)
RecordTurn(i) ==
    /\ i \notin Recorded
    /\ \E ts \in {tick - 1, tick} \cap Nat, d \in {"serve", "suppress"} :
           rows' = rows \cup {[id |-> i, ts |-> ts, decision |-> d, latest |-> TRUE, version |-> 1]}
    /\ UNCHANGED <<posted, eventRows, tick, overview, browserVars>>
AttestTurn(i) ==
    /\ i \in Recorded /\ Latest(i).version = 1
    /\ rows' = (rows \ {Latest(i)}) \cup {[Latest(i) EXCEPT !.latest = FALSE],
                                           [Latest(i) EXCEPT !.version = 2]}
    /\ UNCHANGED <<posted, eventRows, tick, overview, browserVars>>
PassTick ==
    /\ tick < LastTick /\ tick' = tick + 1
    /\ UNCHANGED <<posted, rows, eventRows, overview, browserVars>>

(* ownerOf and insert: a second impression meets the unique index.  A lost *)
(* report is one that stays under way.                                     *)
InsertEvent(i) ==
    /\ posted[i] > 0 /\ posted' = [posted EXCEPT ![i] = @ - 1]
    /\ eventRows' = IF i \in Recorded /\ eventRows[i] = 0
                    THEN [eventRows EXCEPT ![i] = @ + 1] ELSE eventRows
    /\ UNCHANGED <<rows, tick, overview, browserVars>>

-----------------------------------------------------------------------------
(* The slot.  shown is the audit id of its decision; nested, whether it is *)
(* within a boundary; inside, whether its node is in a marked message.     *)

Mounted(i, nested, inside) ==
    [shown |-> i, nested |-> nested, inside |-> inside, blocked |-> FALSE, dismissed |-> NoAudit,
     fired |-> NoAudit, watched |-> NoAudit, due |-> FALSE]

CanRender(s) ==
    ServesAd(s.shown) /\ ~s.nested /\ ~s.blocked /\ s.dismissed # s.shown

(* The layout effect checks the node when the block appears, not when only *)
(* the decision in it changes; a block it blocks is gone before paint.     *)
Committed(before, s) ==
    LET appears == CanRender(s) /\ ~CanRender(before)
    IN  [s EXCEPT !.blocked = @ \/ (appears /\ s.inside), !.due = TRUE]

OnScreen(s) == IF CanRender(s) /\ ~s.inside THEN {s.shown} ELSE {}
Becomes(s) ==
    /\ slot' = s /\ displayed' = displayed \cup OnScreen(s)
    /\ UNCHANGED <<rows, eventRows, tick, overview>>

AppRenders == renders < MaxRenders /\ renders' = renders + 1 /\ UNCHANGED posted
Answerable == Recorded \cup {NoAudit}

Mount ==
    /\ AppRenders
    /\ \E i \in Answerable, nested, inside \in BOOLEAN :
           Becomes(Committed(Mounted(NoAudit, nested, inside), Mounted(i, nested, inside)))
NewDecision ==
    /\ AppRenders /\ ~slot.due
    /\ \E i \in Answerable \ {slot.shown} : Becomes(Committed(slot, [slot EXCEPT !.shown = i]))

(* useImpression's effect: the old observer goes, a new one may come.      *)
RunEffects ==
    /\ slot.due
    /\ LET watched == IF CanRender(slot) /\ slot.fired # slot.shown THEN slot.shown ELSE NoAudit
       IN  Becomes([slot EXCEPT !.due = FALSE, !.watched = watched])
    /\ UNCHANGED <<renders, posted>>

(* The app moves the node, which renders nothing.  Before the effects of a *)
(* new decision have run, the node that leaves a message is still watched  *)
(* for the decision before.                                                *)
MoveNode ==
    /\ CanRender(slot)
    /\ slot' = [slot EXCEPT !.inside = ~@]
    /\ displayed' = displayed \cup OnScreen(slot')
                      \cup (IF slot.inside THEN {slot.watched} \ {NoAudit} ELSE {})
    /\ UNCHANGED <<renders, posted, rows, eventRows, tick, overview>>

(* The observer's callback, and handleImpression, which looks at the node  *)
(* again.  Until the effects have run, it is for the decision before.      *)
Visible ==
    LET i == slot.watched
        seen == [slot EXCEPT !.fired = i, !.watched = NoAudit]
    IN  /\ CanRender(slot) /\ i # NoAudit /\ slot.fired # i
        /\ IF slot.inside THEN Becomes([seen EXCEPT !.blocked = TRUE]) /\ UNCHANGED posted
           ELSE Becomes(seen) /\ posted' = [posted EXCEPT ![i] = @ + 1]
        /\ UNCHANGED renders

HandleDismiss ==
    /\ CanRender(slot) /\ ~slot.due
    /\ Becomes(Committed(slot, [slot EXCEPT !.dismissed = slot.shown]))
    /\ UNCHANGED <<renders, posted>>

-----------------------------------------------------------------------------
(* The overview: two queries with one window, in any order.                *)

InWindowVariant(r, until) == DayOf(r.ts) > DayOf(until) - WindowDays /\ r.ts < until
InWindow(r, until) == r.latest /\ DayOf(r.ts) > DayOf(until) - WindowDays /\ r.ts < until

WindowOf(until) == DayOf(until) - WindowDays + 1 .. DayOf(until)
TurnsOn(day, decision, until) ==
    {r \in rows : InWindow(r, until) /\ DayOf(r.ts) = day /\ r.decision = decision}

DecisionsPerDay(until) ==
    [day \in WindowOf(until) |->
        [decision \in {"serve", "suppress"} |-> Cardinality(TurnsOn(day, decision, until))]]

(* Events joined to the rows of their audit id, on the turn's day.         *)
ImpressionsPerDay(until) ==
    [day \in WindowOf(until) |->
        MapThenSumSet(LAMBDA r : eventRows[r.id],
                      {r \in rows : InWindow(r, until) /\ DayOf(r.ts) = day})]

Unread == <<>>
NoOverview == [until |-> -1, decisions |-> Unread, events |-> Unread, turns |-> {}]

(* The end of the window is the time the page began to load.               *)
Until == IF overview = NoOverview THEN tick ELSE overview.until
ReadDecisions ==
    /\ overview.decisions = Unread
    /\ overview' = [overview EXCEPT !.decisions = DecisionsPerDay(Until), !.until = Until,
                                    !.turns = Recorded]
    /\ UNCHANGED <<gatewayVars, browserVars>>
ReadEvents ==
    /\ overview.events = Unread
    /\ overview' = [overview EXCEPT !.events = ImpressionsPerDay(Until), !.until = Until]
    /\ UNCHANGED <<gatewayVars, browserVars>>

-----------------------------------------------------------------------------
ImpressionsInit ==
    /\ slot = Mounted(NoAudit, FALSE, FALSE) /\ renders = 0 /\ displayed = {}
    /\ posted = Nothing /\ eventRows = Nothing
    /\ rows = {} /\ tick = 1 /\ overview = NoOverview

ImpressionsNext ==
    \/ Mount \/ NewDecision \/ RunEffects \/ MoveNode \/ Visible \/ HandleDismiss
    \/ \E i \in AuditIds : \/ RecordTurn(i) \/ AttestTurn(i)
                           \/ InsertEvent(i)
    \/ PassTick \/ ReadDecisions \/ ReadEvents

ImpressionsSpec == ImpressionsInit /\ [][ImpressionsNext]_impressionVars

-----------------------------------------------------------------------------
(* The turns of a day that a set holds and the overview's window covers.   *)
OfDay(S, day) ==
    {i \in S : DayOf(Latest(i).ts) = day /\ Latest(i).ts < overview.until}

(* The overview adds up (metrics.ts, use-impression.ts), whatever is being *)
(* recorded, attested, rendered again or reported meanwhile: every turn is *)
(* in one count of its day, attested or not; a day has no more impressions *)
(* than turns whose block stood on a screen outside the assistant's        *)
(* message, or was still watched when its node was moved out; and, unless  *)
(* a turn of its window was recorded between the two queries, none more    *)
(* than it has serves.                                                     *)
OverviewAddsUp ==
    LET o == overview
        late == {i \in Recorded \ o.turns : Latest(i).ts < o.until}
    IN  /\ o.decisions # Unread => \A day \in WindowOf(o.until) :
               /\ o.decisions[day]["serve"] = Cardinality(OfDay({i \in o.turns : ServesAd(i)}, day))
               /\ o.decisions[day]["suppress"] =
                      Cardinality(OfDay({i \in o.turns : ~ServesAd(i)}, day))
        /\ o.events # Unread => \A day \in WindowOf(o.until) :
               /\ o.events[day] <= Cardinality(OfDay(displayed, day))
               /\ o.decisions # Unread /\ late = {} =>
                      o.events[day] <= o.decisions[day]["serve"]
=============================================================================
