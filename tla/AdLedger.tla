------------------------------ MODULE AdLedger ------------------------------
(***************************************************************************)
(* What the gateway promises about one app, with no locks, transactions or *)
(* counters: a ledger of turns that only grows, in which a turn enters at  *)
(* the end, at once and for good, and serves an ad only if the turns       *)
(* already there leave room under its caps; and a set of turns whose       *)
(* output the app has attested, each at most once and only after the turn  *)
(* was recorded.                                                           *)
(***************************************************************************)
EXTENDS FrequencyCaps

VARIABLES
    turns,      \* the recorded turns
    attested    \* the ids of the turns whose output was attested

ledger == <<turns, attested>>

Init ==
    /\ turns = {}
    /\ attested = {}

\* Turn t is recorded after every earlier one, under an id of its own.
Record(t) ==
    /\ \A x \in turns : x.seq < t.seq /\ x.id # t.id
    /\ turns' = turns \cup {t}
    /\ Honoured(turns', t)
    /\ UNCHANGED attested

\* The recorded turn with id i gets its one attestation.
Attest(i) ==
    /\ i \notin attested
    /\ attested' = attested \cup {i}
    /\ UNCHANGED turns

Next ==
    \/ \E t \in turns' \ turns : Record(t)
    \/ \E t \in turns : Attest(t.id)

Spec == Init /\ [][Next]_ledger
=============================================================================
