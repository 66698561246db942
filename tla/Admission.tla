----------------------------- MODULE Admission -----------------------------
(***************************************************************************)
(* What stands between a request and its route (packages/gateway/src/auth  *)
(* and rate-limit): bearerAuth finds the key, verifies its secret, or      *)
(* finds it in a cache of recently verified ones, and turns revoked keys   *)
(* and wrong roles away; rateLimit takes a token from the key's bucket, a  *)
(* row all processes share.  Each gate is one bearerAuth of one process    *)
(* (app.ts makes two: the write routes', which are limited, and the read   *)
(* routes'), with a cache of its own.  Keys are issued and revoked by      *)
(* other processes (scripts, dashboard) meanwhile; processes restart.      *)
(*                                                                         *)
(* The secret of key k is k.  A bearer that does not parse is turned away  *)
(* before anything is read and is left out; so are last_used_at, which     *)
(* nothing here reads back, and a key without its app, which a foreign key *)
(* rules out.  Clocks of different processes need not agree; the clock of  *)
(* one does not go back.                                                   *)
(***************************************************************************)
EXTENDS Integers, FiniteSets

CONSTANTS
    Keys,
    Roles, RoleOf,  \* [Keys -> Roles]
    Processes,
    Gates, GateOf,  \* [process, roles, limited] of each gate
    Requests,       \* requests under way at a time
    Bearers,        \* <<key, secret>>: what they present
    Token, Burst, Rate,     \* as in TokenBucket
    Revokers,       \* gates whose cache a revocation may be given
    Ttl,            \* of a cached key, seconds
    MaxEntries,     \* of a cache
    MaxTime,        \* bound: the clocks' last second
    NoBucket

ASSUME AdmissionAssumption ==
    /\ Token \in Nat \ {0} /\ Burst \in Nat \ {0} /\ Rate \in Nat \ {0}
    /\ Ttl \in Nat \ {0} /\ MaxEntries \in Nat \ {0} /\ MaxTime \in Nat
    /\ RoleOf \in [Keys -> Roles] /\ Revokers \subseteq Gates
    /\ Bearers \subseteq Keys \X Keys
    /\ GateOf \in [Gates -> [process : Processes, roles : SUBSET Roles, limited : BOOLEAN]]
    /\ NoBucket \notin [tokens : Int, updatedAt : 0..MaxTime]

VARIABLES
    status,         \* api_keys: "unissued", "live", "revoked"
    cache,          \* verified-key cache of each gate: [key, secret, expires]
    clock,          \* of each process
    request,        \* [step, gate, key, secret, cached, now, late]
    dropping,       \* <<key, gate>>: a revocation that has yet to clear the cache
    bucket,         \* rate_limits: [tokens, updatedAt] or NoBucket
    spent           \* per key: requests its bucket allowed, and since when

vars == <<status, cache, clock, request, dropping, bucket, spent>>

Times == 0..MaxTime
Full == Burst * Token
Greater(x, y) == IF x > y THEN x ELSE y
Lesser(x, y) == IF x < y THEN x ELSE y

\* A request that was turned away (401, 403, 429, 503) is forgotten, one that
\* was admitted is remembered.
Idle == [step |-> "idle"]
Admitted(q) == [step |-> "admitted", key |-> q.key, secret |-> q.secret, late |-> q.late]

\* late: the key was revoked before its row was read.
Found(g, k, s) ==
    [step |-> "verify", gate |-> g, key |-> k, secret |-> s, cached |-> FALSE, now |-> 0,
     late |-> status[k] = "revoked"]

Init ==
    /\ status = [k \in Keys |-> "unissued"]
    /\ cache = [g \in Gates |-> {}]
    /\ clock = [p \in Processes |-> 0]
    /\ request = [r \in Requests |-> Idle]
    /\ dropping = {}
    /\ bucket = [k \in Keys |-> NoBucket]
    /\ spent = [k \in Keys |-> [count |-> 0, since |-> 0]]

-----------------------------------------------------------------------------
(* The verified-key cache.  A map in insertion order: as clocks do not go  *)
(* back, the entry that expires first is the oldest.                       *)

Now(g) == clock[GateOf[g].process]

Entries(g, k, s) == {e \in cache[g] : e.key = k /\ e.secret = s}

Expired(e, g) == e.expires <= Now(g)

\* get: an entry that has expired is dropped.
Hit(g, k, s) == \E e \in Entries(g, k, s) : ~Expired(e, g)
AfterGet(g, k, s) == cache[g] \ {e \in Entries(g, k, s) : Expired(e, g)}

\* The caches set may leave: one entry over the limit evicts the oldest.
Trimmed(entries) ==
    IF Cardinality(entries) <= MaxEntries THEN {entries}
    ELSE {entries \ {e} : e \in {x \in entries : \A y \in entries : x.expires <= y.expires}}

AfterSet(g, k, s) ==
    Trimmed((cache[g] \ Entries(g, k, s))
            \cup {[key |-> k, secret |-> s, expires |-> Now(g) + Ttl]})

Without(entries, k) == {e \in entries : e.key # k}

-----------------------------------------------------------------------------
(* authenticate.                                                           *)

At(r, step) == request[r].step = step

UnderWay(r) == request[r].step \in {"verify", "app", "take"}

Becomes(r, q) == request' = [request EXCEPT ![r] = q]
TurnAway(r) == Becomes(r, Idle)

\* Variant: a key that was cached is not looked at again.
TrustingJudge(r, q, entries, cached) ==
    IF q.late /\ ~cached
    THEN TurnAway(r) /\ cache' = [cache EXCEPT ![q.gate] = Without(entries, q.key)]
    ELSE /\ Becomes(r, [q EXCEPT !.step = "app", !.cached = cached])
         /\ cache' = [cache EXCEPT ![q.gate] = entries]

\* The secret is right: a key whose row is revoked is turned away and forgotten.
Judge(r, q, entries, cached) ==
    IF q.late
    THEN TurnAway(r) /\ cache' = [cache EXCEPT ![q.gate] = Without(entries, q.key)]
    ELSE /\ Becomes(r, [q EXCEPT !.step = "app", !.cached = cached])
         /\ cache' = [cache EXCEPT ![q.gate] = entries]

\* A request comes in and the row of its prefix is read, cached or not; on
\* a hit no secret is verified.  An unknown prefix is turned away, and so is
\* a request whose row cannot be read.
FindByPrefix(r, g, k, s) ==
    /\ ~UnderWay(r)
    /\ \/ /\ TurnAway(r)
          /\ UNCHANGED cache
       \/ /\ status[k] # "unissued"
          /\ IF Hit(g, k, s)
             THEN Judge(r, Found(g, k, s), AfterGet(g, k, s), TRUE)
             ELSE /\ Becomes(r, Found(g, k, s))
                  /\ cache' = [cache EXCEPT ![g] = AfterGet(g, k, s)]
    /\ UNCHANGED <<status, clock, dropping, bucket, spent>>

VerifySecret(r) ==
    LET q == request[r] IN
    /\ At(r, "verify")
    /\ IF q.secret = q.key
       THEN Judge(r, q, cache[q.gate], FALSE)
       ELSE TurnAway(r) /\ UNCHANGED cache
    /\ UNCHANGED <<status, clock, dropping, bucket, spent>>

\* The app is read, a verified key is cached, the role checked; rateLimit
\* reads the clock.
FindApp(r) ==
    LET q == request[r] IN
    /\ At(r, "app")
    /\ IF q.cached THEN UNCHANGED cache
       ELSE \E entries \in AfterSet(q.gate, q.key, q.secret) :
                cache' = [cache EXCEPT ![q.gate] = entries]
    /\ \/ /\ RoleOf[q.key] \notin GateOf[q.gate].roles
          /\ TurnAway(r)
       \/ /\ RoleOf[q.key] \in GateOf[q.gate].roles /\ GateOf[q.gate].limited
          /\ Becomes(r, [q EXCEPT !.step = "take", !.cached = FALSE, !.now = Now(q.gate)])
       \/ /\ RoleOf[q.key] \in GateOf[q.gate].roles /\ ~GateOf[q.gate].limited
          /\ Becomes(r, Admitted(q))
    /\ UNCHANGED <<status, clock, dropping, bucket, spent>>

\* The read fails: the key is not judged (503).
StoreFails(r) ==
    /\ At(r, "app")
    /\ TurnAway(r)
    /\ UNCHANGED <<status, cache, clock, dropping, bucket, spent>>

-----------------------------------------------------------------------------
(* rateLimit.                                                              *)

\* Variant: a refused request has paid.
ChargedTokens(b) == b.tokens

\* A negative balance is that of a refused request, whose charge is given back.
HeldTokens(b) == IF b.tokens >= 0 THEN b.tokens ELSE b.tokens + Token

\* Variant: the row takes the time of the last request, be it earlier.
LastClock(b, now) ==
    [tokens |-> Lesser(Full, HeldTokens(b) + Rate * Greater(0, now - b.updatedAt)) - Token,
     updatedAt |-> now]

\* The upsert on a row that is there.
Refilled(b, now) ==
    [tokens |-> Lesser(Full, HeldTokens(b) + Rate * Greater(0, now - b.updatedAt)) - Token,
     updatedAt |-> Greater(b.updatedAt, now)]

TakeToken(b, now) ==
    IF b = NoBucket THEN [tokens |-> Full - Token, updatedAt |-> now] ELSE Refilled(b, now)

\* -tokens / rps, rounded up.
DecisionFromTokens(tokens) ==
    IF tokens >= 0
    THEN [allowed |-> TRUE, remaining |-> tokens \div Token, retryAfter |-> 0]
    ELSE [allowed |-> FALSE, remaining |-> 0,
          retryAfter |-> Greater(1, (-tokens + Rate - 1) \div Rate)]

\* The statement commits.
Charge(k, now) ==
    LET charged == TakeToken(bucket[k], now)
    IN  /\ bucket' = [bucket EXCEPT ![k] = charged]
        /\ spent' = [spent EXCEPT ![k] =
                [count |-> IF charged.tokens >= 0 THEN @.count + 1 ELSE @.count,
                 since |-> IF bucket[k] = NoBucket THEN now ELSE @.since]]

Take(r) ==
    LET q == request[r] IN
    /\ At(r, "take")
    /\ Charge(q.key, q.now)
    /\ Becomes(r, IF DecisionFromTokens(bucket'[q.key].tokens).allowed THEN Admitted(q) ELSE Idle)
    /\ UNCHANGED <<status, cache, clock, dropping>>

\* A limiter that fails lets the request through, charged or not.
TakeFails(r) ==
    LET q == request[r] IN
    /\ At(r, "take")
    /\ Becomes(r, Admitted(q))
    /\ \/ UNCHANGED <<bucket, spent>>
       \/ Charge(q.key, q.now)
    /\ UNCHANGED <<status, cache, clock, dropping>>

-----------------------------------------------------------------------------
(* Around the requests.                                                    *)

IssueApiKey(k) ==
    /\ status[k] = "unissued"
    /\ status' = [status EXCEPT ![k] = "live"]
    /\ UNCHANGED <<cache, clock, request, dropping, bucket, spent>>

\* revokeApiKey: the row first, then the cache it was given, if any.
RevokeApiKey(k, given) ==
    /\ status[k] # "unissued"
    /\ status' = [status EXCEPT ![k] = "revoked"]
    /\ dropping' = dropping \cup {<<k, g>> : g \in given}
    /\ UNCHANGED <<cache, clock, request, bucket, spent>>

Invalidate(k, g) ==
    /\ <<k, g>> \in dropping
    /\ dropping' = dropping \ {<<k, g>>}
    /\ cache' = [cache EXCEPT ![g] = Without(@, k)]
    /\ UNCHANGED <<status, clock, request, bucket, spent>>

Tick(p) ==
    /\ clock[p] < MaxTime
    /\ clock' = [clock EXCEPT ![p] = @ + 1]
    /\ UNCHANGED <<status, cache, request, dropping, bucket, spent>>

OfProcess(p) == {g \in Gates : GateOf[g].process = p}

\* The process dies: its caches and its requests are gone.
Restart(p) ==
    /\ cache' = [g \in Gates |-> IF g \in OfProcess(p) THEN {} ELSE cache[g]]
    /\ request' = [r \in Requests |->
                    IF UnderWay(r) /\ request[r].gate \in OfProcess(p) THEN Idle ELSE request[r]]
    /\ dropping' = {d \in dropping : d[2] \notin OfProcess(p)}
    /\ UNCHANGED <<status, clock, bucket, spent>>

Next ==
    \/ \E r \in Requests :
        \/ \E g \in Gates, bearer \in Bearers : FindByPrefix(r, g, bearer[1], bearer[2])
        \/ VerifySecret(r) \/ FindApp(r) \/ StoreFails(r)
        \/ Take(r) \/ TakeFails(r)
    \/ \E k \in Keys :
        \/ IssueApiKey(k)
        \/ \E given \in {{}} \cup {{g} : g \in Revokers} : RevokeApiKey(k, given)
        \/ \E g \in Revokers : Invalidate(k, g)
    \/ \E p \in Processes : Tick(p) \/ Restart(p)

Spec == Init /\ [][Next]_vars

-----------------------------------------------------------------------------
(* Properties.                                                             *)

\* Each variable has its type; a cache stays within its limit.
TypeOK ==
    /\ status \in [Keys -> {"unissued", "live", "revoked"}]
    /\ \A g \in Gates :
        /\ cache[g] \subseteq [key : Keys, secret : Keys, expires : 1..(MaxTime + Ttl)]
        /\ Cardinality(cache[g]) <= MaxEntries
    /\ clock \in [Processes -> Times]
    /\ \A r \in Requests :
        \/ request[r] = Idle
        \/ request[r] \in [step : {"admitted"}, key : Keys, secret : Keys, late : BOOLEAN]
        \/ request[r] \in
            [step : {"verify", "app", "take"}, gate : Gates, key : Keys, secret : Keys,
             cached : BOOLEAN, now : Times, late : BOOLEAN]
    /\ dropping \subseteq Keys \X Revokers
    /\ bucket \in [Keys -> [tokens : (-Token)..(Full - Token), updatedAt : Times] \cup {NoBucket}]
    /\ \A k \in Keys : spent[k].count \in Nat /\ spent[k].since \in Times

\* A request that comes in after its key was revoked is never admitted,
\* whatever the caches of the processes still hold (verified-cache.ts:11).
RevokedStaysOut == \A r \in Requests : At(r, "admitted") => ~request[r].late

\* A request is admitted only with the secret of the key it names: that a
\* key was verified a moment ago lets no other secret pass.
OwnSecretOnly == \A r \in Requests : At(r, "admitted") => request[r].secret = request[r].key

\* The requests the limiter allowed a key are no more than the burst and
\* what the rate gives in the time the bucket has seen, however far apart
\* the clocks of the processes are and in whatever order they ask.
RateBound ==
    \A k \in Keys :
        bucket[k] # NoBucket =>
            spent[k].count * Token <= Full + Rate * (bucket[k].updatedAt - spent[k].since)

\* How a row is seen as an ideal bucket; no row is a full one.
Level(b) == IF b = NoBucket THEN Full ELSE HeldTokens(b)
AsOf(b) == IF b = NoBucket THEN 0 ELSE b.updatedAt
Verdict(b) == DecisionFromTokens(IF b = NoBucket THEN Full ELSE b.tokens)

TheBucket ==
    INSTANCE TokenBucket WITH
        level <- [k \in Keys |-> Level(bucket[k])],
        asOf <- [k \in Keys |-> AsOf(bucket[k])],
        verdict <- [k \in Keys |-> Verdict(bucket[k])]

\* The rows are ideal buckets: refused requests cost nothing (limiter.ts:12)
\* and Retry-After is the shortest wait that is long enough.
BucketSpec == TheBucket!Spec
=============================================================================
