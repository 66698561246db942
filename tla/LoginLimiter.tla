---------------------------- MODULE LoginLimiter ----------------------------
(***************************************************************************)
(* The fixed-window limiter of the credential forms                        *)
(* (packages/dashboard/lib/rate-limit.ts): one process, one Map from a     *)
(* client's key to its window [startedAt, count].                          *)
(***************************************************************************)
EXTENDS Naturals, FiniteSets

CONSTANTS
    Clients,        \* rate limit keys: addresses, or the shared bucket
    Limit,          \* attempts per window
    WindowLength,
    MaxKeys

ASSUME LimiterAssumption ==
    /\ Limit \in Nat \ {0} /\ WindowLength \in Nat \ {0} /\ MaxKeys \in Nat \ {0}

NoWindow == [startedAt |-> 0, count |-> 0]
Tracked(windows) == {c \in Clients : windows[c].count > 0}

Elapsed(window, now) == now - window.startedAt >= WindowLength

\* prune: the elapsed windows of a full map go.
Pruned(windows, now) ==
    [c \in Clients |-> IF windows[c].count > 0 /\ Elapsed(windows[c], now)
                       THEN NoWindow ELSE windows[c]]

\* evictOldest: whom a map that is still full forgets (sort keeps the order of
\* insertion among equals; either may go here).
Evictions(windows) ==
    LET excess == Cardinality(Tracked(windows)) - MaxKeys + 1
    IN {gone \in SUBSET Tracked(windows) :
           /\ Cardinality(gone) = excess
           /\ \A g \in gone, k \in Tracked(windows) \ gone :
                  windows[g].startedAt <= windows[k].startedAt}

\* What the map may hold when check looks the key up.
Rooms(windows, key, now) ==
    IF key \in Tracked(windows) \/ Cardinality(Tracked(windows)) < MaxKeys
    THEN {windows}
    ELSE LET pruned == Pruned(windows, now) IN
         IF Cardinality(Tracked(pruned)) < MaxKeys
         THEN {pruned}
         ELSE {[c \in Clients |-> IF c \in gone THEN NoWindow ELSE pruned[c]] :
                   gone \in Evictions(pruned)}

\* Variant: every attempt opens a window of its own.
AlwaysFresh(window, now) == [startedAt |-> now, count |-> 1]

\* The window an attempt is charged to: a new one when there is none or the
\* old one has elapsed.
ChargedWindow(window, now) ==
    IF window.count = 0 \/ Elapsed(window, now)
    THEN [startedAt |-> now, count |-> 1]
    ELSE [window EXCEPT !.count = @ + 1]

Allowed(window) == window.count <= Limit
=============================================================================
