--------------------------- MODULE FrequencyCaps ---------------------------
(***************************************************************************)
(* The frequency-cap arithmetic of packages/core/src/policy: what a cap    *)
(* row is, what the policy engine reads from it, how a turn changes it and *)
(* how a request's overrides combine with the stored caps.  The second     *)
(* half counts the same quantities directly on a set of recorded turns, so *)
(* that the counters the gateway keeps can be compared with the history    *)
(* they summarise.                                                         *)
(*                                                                         *)
(* A caps record is [per_session, per_user_per_day, min_turns_between].    *)
(* A recorded turn has at least the fields seq, conv, user, day, outcome   *)
(* and caps; it served an ad when outcome is "serve".                      *)
(***************************************************************************)
EXTENDS Integers, FiniteSets

CONSTANT NoUser     \* user_hash null: the request named no user

Never == -1         \* turns_since_last null: no ad was served yet
NoIndex == 0        \* last_turn_index null: real indices start at 1

CapValues == [per_session: Nat, per_user_per_day: Nat, min_turns_between: Nat]

EmptyCapRow == [session_count |-> 0, turn_count |-> 0,
                last_turn_index |-> NoIndex, user_hash |-> NoUser]

CapStates == [session_count: Nat, day_count: Nat, turns_since_last: Nat \cup {Never}]

\* The engine's view of a conversation's row and the user's count for the day.
CapStateFrom(row, dayCount) ==
    [session_count |-> row.session_count,
     day_count |-> dayCount,
     turns_since_last |-> IF row.last_turn_index = NoIndex
                          THEN Never
                          ELSE row.turn_count - row.last_turn_index]

\* Variant: the index of the turn before is remembered.
LateCapRow(row, served, user) ==
    [session_count |-> row.session_count + (IF served THEN 1 ELSE 0),
     turn_count |-> row.turn_count + 1,
     last_turn_index |-> IF served THEN row.turn_count ELSE row.last_turn_index,
     user_hash |-> IF row.user_hash = NoUser THEN user ELSE row.user_hash]

\* The row after one more turn; the first user hash seen stays.
NextCapRow(row, served, user) ==
    [session_count |-> row.session_count + (IF served THEN 1 ELSE 0),
     turn_count |-> row.turn_count + 1,
     last_turn_index |-> IF served THEN row.turn_count + 1 ELSE row.last_turn_index,
     user_hash |-> IF row.user_hash = NoUser THEN user ELSE row.user_hash]

Lower(a, b) == IF b < a THEN b ELSE a
Higher(a, b) == IF b > a THEN b ELSE a

\* A request may only tighten the stored caps.
StricterCaps(stored, override) ==
    [per_session |-> Lower(stored.per_session, override.per_session),
     per_user_per_day |-> Lower(stored.per_user_per_day, override.per_user_per_day),
     min_turns_between |-> Higher(stored.min_turns_between, override.min_turns_between)]

\* The frequency_caps rule: every cap must have room; the day cap needs a user.
WithinCaps(state, caps, user) ==
    /\ state.session_count < caps.per_session
    /\ user # NoUser => state.day_count < caps.per_user_per_day
    /\ \/ state.turns_since_last = Never
       \/ state.turns_since_last >= caps.min_turns_between

-----------------------------------------------------------------------------
(* The same quantities counted on recorded turns T.                        *)

Served(t) == t.outcome = "serve"
TurnsOf(T, conv) == {t \in T : t.conv = conv}
ServesOf(T, conv) == {t \in TurnsOf(T, conv) : Served(t)}
DayServes(T, user, day) == {t \in T : Served(t) /\ t.user = user /\ t.day = day}

\* The conversation's turns up to and including t: their number is t's index.
UpTo(T, t) == {x \in TurnsOf(T, t.conv) : x.seq <= t.seq}
Before(T, t) == {x \in T : x.seq < t.seq}
Between(T, s, t) == {x \in TurnsOf(T, t.conv) : s.seq < x.seq /\ x.seq < t.seq}

\* A turn that served was, counting the turns before it, within the caps it
\* was decided under.
Honoured(T, t) ==
    Served(t) =>
        /\ Cardinality(ServesOf(Before(T, t), t.conv)) < t.caps.per_session
        /\ t.user # NoUser =>
               Cardinality(DayServes(Before(T, t), t.user, t.day))
                   < t.caps.per_user_per_day
        /\ \A s \in ServesOf(Before(T, t), t.conv) :
               Cardinality(Between(T, s, t)) >= t.caps.min_turns_between
=============================================================================
