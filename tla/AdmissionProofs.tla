-------------------------- MODULE AdmissionProofs --------------------------
(***************************************************************************)
(* Admission is safe for any number of keys, processes, gates and requests *)
(* and any burst and rate.  The invariant adds to the properties what they *)
(* rest on: only verified secrets are cached; a request past its           *)
(* verification has the right secret and read a row that was live; what a  *)
(* bucket has allowed and what it still holds are paid for by the burst    *)
(* and the time it has seen.                                               *)
(***************************************************************************)
EXTENDS Admission, FiniteSetTheorems, TLAPS

Entry == [key : Keys, secret : Keys, expires : 1..(MaxTime + Ttl)]

SoundCache(entries) ==
    /\ entries \subseteq Entry
    /\ IsFiniteSet(entries) /\ Cardinality(entries) <= MaxEntries
    /\ \A e \in entries : e.secret = e.key

UnderWayRequests ==
    [step : {"verify", "app", "take"}, gate : Gates, key : Keys, secret : Keys,
     cached : BOOLEAN, now : Times, late : BOOLEAN]

AdmittedRequests == [step : {"admitted"}, key : Keys, secret : Keys, late : BOOLEAN]

\* Past its verification.
Cleared(q) == q.secret = q.key /\ ~q.late

SoundRequest(q) ==
    \/ q = Idle
    \/ q \in AdmittedRequests /\ Cleared(q)
    \/ q \in UnderWayRequests /\ (q.step # "verify" => Cleared(q))

BucketRow == [tokens : (-Token)..(Full - Token), updatedAt : Times]

PaidFor(b, s) ==
    /\ s.since <= b.updatedAt
    /\ s.count * Token + HeldTokens(b) <= Full + Rate * (b.updatedAt - s.since)

Requested == [Requests -> AdmittedRequests \cup UnderWayRequests \cup {Idle}]

SimpleTypes ==
    /\ status \in [Keys -> {"unissued", "live", "revoked"}]
    /\ clock \in [Processes -> Times]
    /\ dropping \subseteq Keys \X Revokers

SoundCaches ==
    /\ cache \in [Gates -> SUBSET Entry]
    /\ \A g \in Gates : SoundCache(cache[g])

SoundRequests ==
    /\ request \in Requested
    /\ \A r \in Requests : SoundRequest(request[r])

SoundBuckets ==
    /\ bucket \in [Keys -> BucketRow \cup {NoBucket}]
    /\ spent \in [Keys -> [count : Nat, since : Times]]
    /\ \A k \in Keys :
        IF bucket[k] = NoBucket THEN spent[k].count = 0 ELSE PaidFor(bucket[k], spent[k])

IInv == SimpleTypes /\ SoundCaches /\ SoundRequests /\ SoundBuckets

-----------------------------------------------------------------------------
(* The cache.                                                              *)

\* A part of a sound cache is sound.
LEMMA PartOfSound ==
    ASSUME NEW entries, SoundCache(entries), NEW part \in SUBSET entries
    PROVE  SoundCache(part)
  BY FS_Subset, FS_CardinalityType, AdmissionAssumption DEF SoundCache

\* What set leaves of a sound cache is sound when the secret is the key's.
LEMMA SetKeepsSound ==
    ASSUME NEW entries, SoundCache(entries), NEW gone, NEW e \in Entry, e.secret = e.key,
           NEW left \in Trimmed((entries \ gone) \cup {e})
    PROVE  SoundCache(left)
  <1> DEFINE rest == entries \ gone
             added == rest \cup {e}
  <1>1. SoundCache(rest)
    BY PartOfSound
  <1>2. IsFiniteSet(added) /\ Cardinality(added) <= MaxEntries + 1 /\ Cardinality(added) \in Nat
    <2>1. IsFiniteSet(rest) /\ Cardinality(rest) \in Nat /\ Cardinality(rest) <= MaxEntries
      BY <1>1, FS_CardinalityType DEF SoundCache
    <2>2. /\ IsFiniteSet(added)
          /\ \/ Cardinality(added) = Cardinality(rest)
             \/ Cardinality(added) = Cardinality(rest) + 1
      BY <2>1, FS_AddElement
    <2> QED
      BY <2>1, <2>2, AdmissionAssumption
  <1>3. added \subseteq Entry /\ \A x \in added : x.secret = x.key
    BY <1>1 DEF SoundCache
  <1>4. CASE Cardinality(added) <= MaxEntries
    BY <1>2, <1>3, <1>4 DEF SoundCache, Trimmed
  <1>5. CASE Cardinality(added) > MaxEntries
    <2>1. PICK x \in added : left = added \ {x}
      BY <1>2, <1>5, AdmissionAssumption DEF Trimmed
    <2>2. IsFiniteSet(left) /\ Cardinality(left) = Cardinality(added) - 1
      BY <2>1, <1>2, FS_RemoveElement
    <2> QED
      BY <2>1, <2>2, <1>2, <1>3, AdmissionAssumption DEF SoundCache
  <1> QED
    BY <1>2, <1>4, <1>5, AdmissionAssumption

\* A sound cache in the place of one keeps the caches sound.
LEMMA CacheReplaced ==
    ASSUME SoundCaches, NEW g \in Gates, NEW entries, SoundCache(entries),
           cache' = [cache EXCEPT ![g] = entries]
    PROVE  SoundCaches'
  <1>1. entries \in SUBSET Entry
    BY DEF SoundCache
  <1>2. cache' \in [Gates -> SUBSET Entry]
    BY <1>1 DEF SoundCaches
  <1>3. ASSUME NEW h \in Gates PROVE SoundCache(cache'[h])
    BY DEF SoundCaches
  <1> QED
    BY <1>2, <1>3 DEF SoundCaches

\* A sound request in the place of one keeps the requests sound.
LEMMA RequestReplaced ==
    ASSUME SoundRequests, NEW r \in Requests, NEW q, SoundRequest(q), Becomes(r, q)
    PROVE  SoundRequests'
  <1>1. q \in AdmittedRequests \cup UnderWayRequests \cup {Idle}
    BY DEF SoundRequest
  <1>2. request' \in Requested
    BY <1>1 DEF SoundRequests, Requested, Becomes
  <1>3. ASSUME NEW s \in Requests PROVE SoundRequest(request'[s])
    BY DEF SoundRequests, Requested, Becomes
  <1> QED
    BY <1>2, <1>3 DEF SoundRequests

-----------------------------------------------------------------------------
(* The bucket.                                                             *)

\* The burst is at least a token, and refilling gives nothing negative.
LEMMA Refilling ==
    /\ Full \in Nat /\ Full >= Token /\ Token \in Nat \ {0}
    /\ \A e \in Nat : Rate * e \in Nat
  BY AdmissionAssumption DEF Full

\* What a bucket holds lies between nothing and the burst.
LEMMA HeldRange ==
    ASSUME NEW b \in BucketRow
    PROVE  HeldTokens(b) \in 0..Full
  BY Refilling DEF BucketRow, HeldTokens

\* An upsert leaves a row, and pays for what it allows.
LEMMA TakeIsPaidFor ==
    ASSUME NEW b \in BucketRow, NEW s \in [count : Nat, since : Times], PaidFor(b, s),
           NEW now \in Times
    PROVE  LET c == Refilled(b, now)
               n == IF c.tokens >= 0 THEN s.count + 1 ELSE s.count
           IN  c \in BucketRow /\ PaidFor(c, [s EXCEPT !.count = n])
  <1> DEFINE c == Refilled(b, now)
             n == IF c.tokens >= 0 THEN s.count + 1 ELSE s.count
             elapsed == Greater(0, now - b.updatedAt)
             held == HeldTokens(b)
             full == Lesser(Full, held + Rate * elapsed)
             seen == b.updatedAt - s.since
  <1>1. /\ b.updatedAt \in Nat /\ now \in Nat /\ s.since \in Nat /\ s.count \in Nat
        /\ b.updatedAt \in Times
    BY DEF BucketRow, Times
  <1>2. elapsed \in Nat /\ c.updatedAt = b.updatedAt + elapsed /\ c.updatedAt \in Times
    BY <1>1 DEF Refilled, Greater, Times
  <1>3. held \in 0..Full
    BY HeldRange
  <1>4. Rate * elapsed \in Nat
    BY <1>2, Refilling
  <1>5. full \in 0..Full /\ full <= held + Rate * elapsed /\ c.tokens = full - Token
    BY <1>3, <1>4, Refilling DEF Lesser, Refilled
  <1>6. c \in BucketRow
    BY <1>2, <1>5, Refilling DEF BucketRow, Refilled
  <1>7. HeldTokens(c) = IF c.tokens >= 0 THEN full - Token ELSE full
    BY <1>5, Refilling DEF HeldTokens
  <1>8. seen \in Nat /\ s.count * Token + held <= Full + Rate * seen
    BY <1>1 DEF PaidFor
  <1>9. Rate * (seen + elapsed) = Rate * seen + Rate * elapsed
    BY <1>2, <1>8, AdmissionAssumption
  <1>10. c.updatedAt - s.since = seen + elapsed
    BY <1>1, <1>2
  <1>11. (s.count + 1) * Token = s.count * Token + Token /\ s.count * Token \in Nat
    BY <1>1, Refilling
  <1>12. Rate * seen \in Nat
    BY <1>8, Refilling
  <1>13. n * Token + HeldTokens(c) <= Full + Rate * (c.updatedAt - s.since)
    <2>1. n * Token + HeldTokens(c) = s.count * Token + full
      BY <1>5, <1>7, <1>11, Refilling
    <2> HIDE DEF n, c, full, held, elapsed, seen
    <2>2. s.count * Token + full <= s.count * Token + held + Rate * elapsed
      BY <1>3, <1>4, <1>5, <1>11
    <2> QED
      BY <2>1, <2>2, <1>3, <1>4, <1>5, <1>8, <1>9, <1>10, <1>11, <1>12, Refilling
  <1>14. s.since <= c.updatedAt
    BY <1>1, <1>2, <1>8
  <1> QED
    BY <1>6, <1>13, <1>14 DEF PaidFor

\* The first upsert of a key.
LEMMA FirstTake ==
    ASSUME NEW now \in Times
    PROVE  LET c == [tokens |-> Full - Token, updatedAt |-> now]
           IN  c \in BucketRow /\ PaidFor(c, [count |-> 1, since |-> now]) /\ c.tokens >= 0
  <1>1. now - now = 0 /\ Rate * 0 = 0 /\ 1 * Token = Token
    BY AdmissionAssumption DEF Times
  <1> QED
    BY <1>1, Refilling DEF BucketRow, PaidFor, HeldTokens, Times

\* A committed upsert keeps the buckets sound.
LEMMA ChargeKeepsSound ==
    ASSUME SoundBuckets, NEW k \in Keys, NEW now \in Times, Charge(k, now)
    PROVE  SoundBuckets'
  <1> DEFINE c == TakeToken(bucket[k], now)
             n == IF c.tokens >= 0 THEN spent[k].count + 1 ELSE spent[k].count
             s == [count |-> n, since |-> IF bucket[k] = NoBucket THEN now ELSE spent[k].since]
  <1>1. /\ bucket' = [bucket EXCEPT ![k] = c]
        /\ spent' = [spent EXCEPT ![k] = s]
    BY DEF Charge, SoundBuckets
  <1>2. c \in BucketRow /\ PaidFor(c, s) /\ s \in [count : Nat, since : Times]
    <2>1. CASE bucket[k] = NoBucket
      <3>1. spent[k].count = 0 /\ c = [tokens |-> Full - Token, updatedAt |-> now]
        BY <2>1 DEF SoundBuckets, TakeToken
      <3>2. s = [count |-> 1, since |-> now]
        BY <2>1, <3>1, FirstTake
      <3> QED
        BY <3>1, <3>2, FirstTake
    <2>2. CASE bucket[k] # NoBucket
      <3>1. /\ bucket[k] \in BucketRow /\ PaidFor(bucket[k], spent[k])
            /\ spent[k] \in [count : Nat, since : Times]
        BY <2>2 DEF SoundBuckets
      <3>2. c = Refilled(bucket[k], now)
        BY <2>2 DEF TakeToken
      <3>3. s = [spent[k] EXCEPT !.count = n]
        BY <2>2, <3>1
      <3>4. n \in Nat
        BY <3>1
      <3> HIDE DEF s
      <3>5. c \in BucketRow /\ PaidFor(c, s)
        BY <3>1, <3>2, <3>3, TakeIsPaidFor
      <3> QED
        BY <3>1, <3>3, <3>4, <3>5
    <2> QED
      BY <2>1, <2>2
  <1>3. c # NoBucket
    BY <1>2, AdmissionAssumption DEF BucketRow, Times
  <1> HIDE DEF c, s
  <1> QED
    BY <1>1, <1>2, <1>3 DEF SoundBuckets

-----------------------------------------------------------------------------
(* The invariant.                                                          *)

\* The initial state satisfies the invariant.
LEMMA Initially == Init => IInv
  <1> SUFFICES ASSUME Init PROVE IInv
    OBVIOUS
  <1>1. SimpleTypes
    BY AdmissionAssumption DEF Init, SimpleTypes, Times
  <1>2. SoundCaches
    BY FS_EmptySet, AdmissionAssumption DEF Init, SoundCaches, SoundCache
  <1>3. SoundRequests
    BY DEF Init, SoundRequests, Requested, SoundRequest
  <1>4. SoundBuckets
    BY AdmissionAssumption DEF Init, SoundBuckets, Times
  <1> QED
    BY <1>1, <1>2, <1>3, <1>4 DEF IInv

\* Judging a request whose secret is right keeps caches and requests sound.
LEMMA JudgeKeepsSound ==
    ASSUME SoundCaches, SoundRequests, NEW r \in Requests,
           NEW q \in UnderWayRequests, q.secret = q.key,
           NEW entries \in SUBSET cache[q.gate], NEW cached \in BOOLEAN,
           Judge(r, q, entries, cached)
    PROVE  SoundCaches' /\ SoundRequests'
  <1>1. q.gate \in Gates
    BY DEF UnderWayRequests
  <1>2. SoundCache(entries) /\ SoundCache(Without(entries, q.key))
    <2>1. SoundCache(cache[q.gate])
      BY <1>1 DEF SoundCaches
    <2> QED
      BY <2>1, PartOfSound DEF Without
  <1>3. CASE q.late
    BY <1>1, <1>2, <1>3, CacheReplaced, RequestReplaced DEF Judge, TurnAway, SoundRequest
  <1>4. CASE ~q.late
    <2> DEFINE p == [q EXCEPT !.step = "app", !.cached = cached]
    <2>1. SoundRequest(p)
      BY <1>4 DEF SoundRequest, UnderWayRequests, Cleared
    <2> QED
      BY <1>1, <1>2, <1>4, <2>1, CacheReplaced, RequestReplaced DEF Judge
  <1> QED
    BY <1>3, <1>4

\* Every step preserves it, one case per action.
LEMMA Inductive == IInv /\ [Next]_vars => IInv'
  <1> SUFFICES ASSUME IInv, [Next]_vars PROVE IInv'
    OBVIOUS
  <1> USE DEF IInv
  <1>1. ASSUME NEW r \in Requests, NEW g \in Gates, NEW b \in Bearers,
               FindByPrefix(r, g, b[1], b[2])
        PROVE  IInv'
    <2> DEFINE k == b[1]
               s == b[2]
               q == Found(g, k, s)
    <2>1. k \in Keys /\ s \in Keys
      BY AdmissionAssumption
    <2>2. SimpleTypes' /\ SoundBuckets'
      BY <1>1 DEF FindByPrefix, SimpleTypes, SoundBuckets
    <2>3. q \in UnderWayRequests /\ q.gate = g /\ q.secret = s /\ q.key = k /\ q.step = "verify"
      BY <2>1, AdmissionAssumption DEF Found, UnderWayRequests, Times
    <2>4. AfterGet(g, k, s) \in SUBSET cache[g]
      BY DEF AfterGet
    <2>5. SoundCache(AfterGet(g, k, s))
      BY <2>4, PartOfSound DEF SoundCaches
    <2>6. CASE TurnAway(r) /\ UNCHANGED cache
      BY <2>2, <2>6, RequestReplaced DEF TurnAway, SoundRequest, SoundCaches
    <2>7. CASE Hit(g, k, s) /\ Judge(r, q, AfterGet(g, k, s), TRUE)
      <3>1. s = k
        BY <2>7 DEF Hit, Entries, SoundCaches, SoundCache
      <3> HIDE DEF q, k, s
      <3> QED
        BY <2>2, <2>3, <2>4, <2>7, <3>1, JudgeKeepsSound
    <2>8. CASE Becomes(r, q) /\ cache' = [cache EXCEPT ![g] = AfterGet(g, k, s)]
      <3>1. SoundRequest(q)
        BY <2>3 DEF SoundRequest
      <3> HIDE DEF q, k, s
      <3> QED
        BY <2>2, <2>5, <2>8, <3>1, CacheReplaced, RequestReplaced
    <2> QED
      BY <1>1, <2>6, <2>7, <2>8 DEF FindByPrefix
  <1>2. ASSUME NEW r \in Requests, VerifySecret(r) PROVE IInv'
    <2> DEFINE q == request[r]
    <2>1. q \in UnderWayRequests
      BY <1>2 DEF SoundRequests, SoundRequest, VerifySecret, At, Idle, AdmittedRequests
    <2>2. SimpleTypes' /\ SoundBuckets'
      BY <1>2 DEF VerifySecret, SimpleTypes, SoundBuckets
    <2>3. CASE q.secret = q.key /\ Judge(r, q, cache[q.gate], FALSE)
      BY <2>1, <2>2, <2>3, JudgeKeepsSound
    <2>4. CASE TurnAway(r) /\ UNCHANGED cache
      BY <2>2, <2>4, RequestReplaced DEF TurnAway, SoundRequest, SoundCaches
    <2> QED
      BY <1>2, <2>3, <2>4 DEF VerifySecret
  <1>3. ASSUME NEW r \in Requests, FindApp(r) PROVE IInv'
    <2> DEFINE q == request[r]
    <2>1. q \in UnderWayRequests /\ Cleared(q)
      BY <1>3 DEF SoundRequests, SoundRequest, FindApp, At, Idle, AdmittedRequests
    <2>2. q.gate \in Gates /\ q.key \in Keys /\ q.secret \in Keys /\ Now(q.gate) \in Times
      BY <2>1, AdmissionAssumption DEF UnderWayRequests, Now, SimpleTypes
    <2>3. SimpleTypes' /\ SoundBuckets'
      BY <1>3 DEF FindApp, SimpleTypes, SoundBuckets
    <2>4. SoundCaches'
      <3>1. CASE q.cached
        BY <1>3, <3>1 DEF FindApp, SoundCaches
      <3>2. CASE ~q.cached
        <4> DEFINE e == [key |-> q.key, secret |-> q.secret, expires |-> Now(q.gate) + Ttl]
        <4>1. e \in Entry /\ e.secret = e.key
          BY <2>1, <2>2, AdmissionAssumption DEF Entry, Cleared, Times
        <4>2. PICK left \in Trimmed((cache[q.gate] \ Entries(q.gate, q.key, q.secret)) \cup {e}) :
                cache' = [cache EXCEPT ![q.gate] = left]
          BY <1>3, <3>2 DEF FindApp, AfterSet
        <4> HIDE DEF e
        <4>3. SoundCache(left)
          BY <2>2, <4>1, SetKeepsSound DEF SoundCaches
        <4> QED
          BY <2>2, <4>2, <4>3, CacheReplaced
      <3> QED
        BY <3>1, <3>2
    <2>5. SoundRequests'
      <3> DEFINE p == [q EXCEPT !.step = "take", !.cached = FALSE, !.now = Now(q.gate)]
      <3>1. SoundRequest(Idle)
        BY DEF SoundRequest
      <3>2. SoundRequest(p)
        BY <2>1, <2>2 DEF SoundRequest, UnderWayRequests, Cleared
      <3>3. SoundRequest(Admitted(q))
        BY <2>1 DEF SoundRequest, Admitted, AdmittedRequests, UnderWayRequests, Cleared
      <3>4. Becomes(r, Idle) \/ Becomes(r, p) \/ Becomes(r, Admitted(q))
        BY <1>3 DEF FindApp, TurnAway
      <3> HIDE DEF p
      <3> QED
        BY <3>1, <3>2, <3>3, <3>4, RequestReplaced
    <2> QED
      BY <2>3, <2>4, <2>5
  <1>4. ASSUME NEW r \in Requests, StoreFails(r) PROVE IInv'
    <2>1. SimpleTypes' /\ SoundBuckets' /\ SoundCaches'
      BY <1>4 DEF StoreFails, SimpleTypes, SoundBuckets, SoundCaches
    <2> QED
      BY <1>4, <2>1, RequestReplaced DEF StoreFails, TurnAway, SoundRequest
  <1>5. ASSUME NEW r \in Requests, Take(r) \/ TakeFails(r) PROVE IInv'
    <2> DEFINE q == request[r]
    <2>1. q \in UnderWayRequests /\ Cleared(q)
      BY <1>5 DEF SoundRequests, SoundRequest, Take, TakeFails, At, Idle, AdmittedRequests
    <2>2. SimpleTypes' /\ SoundCaches'
      BY <1>5 DEF Take, TakeFails, SimpleTypes, SoundCaches
    <2>3. SoundBuckets'
      <3>1. CASE UNCHANGED <<bucket, spent>>
        BY <3>1 DEF SoundBuckets
      <3>2. CASE Charge(q.key, q.now)
        BY <2>1, <3>2, ChargeKeepsSound DEF UnderWayRequests
      <3> QED
        BY <1>5, <3>1, <3>2 DEF Take, TakeFails
    <2>4. SoundRequest(Admitted(q)) /\ SoundRequest(Idle)
      BY <2>1 DEF SoundRequest, Admitted, AdmittedRequests, UnderWayRequests, Cleared
    <2>5. Becomes(r, Admitted(q)) \/ Becomes(r, Idle)
      BY <1>5 DEF Take, TakeFails
    <2> QED
      BY <2>2, <2>3, <2>4, <2>5, RequestReplaced
  <1>6. ASSUME NEW k \in Keys, IssueApiKey(k) PROVE IInv'
    BY <1>6 DEF IssueApiKey, SimpleTypes, SoundCaches, SoundRequests, SoundBuckets
  <1>7. ASSUME NEW k \in Keys, NEW given \in {{}} \cup {{g} : g \in Revokers},
               RevokeApiKey(k, given)
        PROVE  IInv'
    <2>1. given \subseteq Revokers
      OBVIOUS
    <2>2. SimpleTypes'
      BY <1>7, <2>1 DEF RevokeApiKey, SimpleTypes
    <2> QED
      BY <1>7, <2>2 DEF RevokeApiKey, SoundCaches, SoundRequests, SoundBuckets
  <1>8. ASSUME NEW k \in Keys, NEW g \in Revokers, Invalidate(k, g) PROVE IInv'
    <2>1. SimpleTypes' /\ SoundRequests' /\ SoundBuckets'
      BY <1>8 DEF Invalidate, SimpleTypes, SoundRequests, SoundBuckets
    <2>2. g \in Gates /\ cache' = [cache EXCEPT ![g] = Without(cache[g], k)]
      BY <1>8, AdmissionAssumption DEF Invalidate
    <2>3. SoundCache(Without(cache[g], k))
      BY <2>2, PartOfSound DEF SoundCaches, Without
    <2> QED
      BY <2>1, <2>2, <2>3, CacheReplaced
  <1>9. ASSUME NEW p \in Processes, Tick(p) PROVE IInv'
    <2>1. SimpleTypes'
      BY <1>9, AdmissionAssumption DEF Tick, SimpleTypes, Times
    <2> QED
      BY <1>9, <2>1 DEF Tick, SoundCaches, SoundRequests, SoundBuckets
  <1>10. ASSUME NEW p \in Processes, Restart(p) PROVE IInv'
    <2>1. SimpleTypes' /\ SoundBuckets'
      BY <1>10 DEF Restart, SimpleTypes, SoundBuckets
    <2>2. SoundCaches'
      <3>1. cache' \in [Gates -> SUBSET Entry]
        BY <1>10 DEF Restart, SoundCaches
      <3>2. ASSUME NEW g \in Gates PROVE SoundCache(cache'[g])
        <4>1. cache'[g] \in SUBSET cache[g]
          BY <1>10 DEF Restart
        <4> QED
          BY <4>1, PartOfSound DEF SoundCaches
      <3> QED
        BY <3>1, <3>2 DEF SoundCaches
    <2>3. SoundRequests'
      BY <1>10 DEF Restart, SoundRequests, Requested, SoundRequest
    <2> QED
      BY <2>1, <2>2, <2>3
  <1>11. CASE UNCHANGED vars
    BY <1>11 DEF vars, SimpleTypes, SoundCaches, SoundRequests, SoundBuckets
  <1> QED
    BY <1>1, <1>2, <1>3, <1>4, <1>5, <1>6, <1>7, <1>8, <1>9, <1>10, <1>11 DEF Next

\* The invariant always holds.
THEOREM Invariance == Spec => []IInv
  BY Initially, Inductive, PTL DEF Spec

-----------------------------------------------------------------------------
(* The theorems.                                                           *)

\* Every table, cache and request stays well formed, and no cache outgrows
\* its limit.
THEOREM TypeCorrect == Spec => []TypeOK
  <1>1. IInv => TypeOK
    BY DEF IInv, SimpleTypes, SoundCaches, SoundCache, SoundRequests, SoundRequest,
           SoundBuckets, TypeOK, Entry, AdmittedRequests, UnderWayRequests, BucketRow
  <1> QED
    BY <1>1, Invariance, PTL

\* No request that came in after its key was revoked is admitted.
THEOREM RevokedKeysStayOut == Spec => []RevokedStaysOut
  <1>1. IInv => RevokedStaysOut
    BY DEF IInv, SoundRequests, SoundRequest, RevokedStaysOut, At, Cleared, Idle, UnderWayRequests
  <1> QED
    BY <1>1, Invariance, PTL

\* No request is admitted with another secret than its key's.
THEOREM SecretsMatch == Spec => []OwnSecretOnly
  <1>1. IInv => OwnSecretOnly
    BY DEF IInv, SoundRequests, SoundRequest, OwnSecretOnly, At, Cleared, Idle, UnderWayRequests
  <1> QED
    BY <1>1, Invariance, PTL

\* No bucket allows more than its burst and its rate.
THEOREM RateIsBounded == Spec => []RateBound
  <1>1. ASSUME IInv, NEW k \in Keys, bucket[k] # NoBucket
        PROVE  spent[k].count * Token <= Full + Rate * (bucket[k].updatedAt - spent[k].since)
    <2>1. bucket[k] \in BucketRow /\ PaidFor(bucket[k], spent[k]) /\ spent[k].count \in Nat
      BY <1>1 DEF IInv, SoundBuckets
    <2>2. HeldTokens(bucket[k]) \in 0..Full
      BY <2>1, HeldRange
    <2>3. /\ spent[k].count * Token \in Int /\ Full \in Nat
          /\ Rate * (bucket[k].updatedAt - spent[k].since) \in Int
      BY <1>1, <2>1, Refilling, AdmissionAssumption DEF IInv, SoundBuckets, BucketRow, Times
    <2> QED
      BY <2>1, <2>2, <2>3 DEF PaidFor
  <1>2. IInv => RateBound
    BY <1>1 DEF RateBound
  <1> QED
    BY <1>2, Invariance, PTL

-----------------------------------------------------------------------------
(* The rows are ideal token buckets.                                       *)

\* Rounding up: the least number of seconds whose gain covers what is missing.
LEMMA RoundedUp ==
    ASSUME NEW missing \in 1..Token
    PROVE  LET w == (missing + Rate - 1) \div Rate
           IN  /\ w \in 1..Token
               /\ Rate * w >= missing
               /\ \A v \in 1..(w - 1) : Rate * v < missing
  <1> DEFINE a == missing + Rate - 1
             w == a \div Rate
  <1>1. Rate \in Nat /\ Rate >= 1 /\ Token \in Nat /\ missing \in Nat /\ missing >= 1 /\ a \in Nat
    BY AdmissionAssumption
  <1>2. w \in Int /\ Rate * w <= a /\ a < Rate * w + Rate
    BY <1>1
  <1> HIDE DEF w
  <1>3. w >= 1
    <2>1. ASSUME w <= 0 PROVE FALSE
      <3>1. Rate * w <= 0
        BY <1>1, <1>2, <2>1
      <3> QED
        BY <1>1, <1>2, <3>1
    <2> QED
      BY <1>2, <2>1
  <1>4. Rate * w >= missing
    BY <1>1, <1>2
  <1>5. w <= missing
    <2>1. ASSUME w >= missing + 1 PROVE FALSE
      <3>1. Rate * w >= Rate * (missing + 1)
        BY <1>1, <1>2, <2>1
      <3>2. Rate * (missing + 1) = Rate * missing + Rate /\ Rate * missing >= missing
        BY <1>1
      <3> QED
        BY <1>1, <1>2, <3>1, <3>2
    <2> QED
      BY <1>1, <1>2, <2>1
  <1>6. ASSUME NEW v \in 1..(w - 1) PROVE Rate * v < missing
    <2>1. Rate * v <= Rate * (w - 1)
      BY <1>1, <1>2
    <2>2. Rate * (w - 1) = Rate * w - Rate
      BY <1>1, <1>2
    <2> QED
      BY <1>1, <1>2, <2>1, <2>2
  <1> QED
    BY <1>1, <1>2, <1>3, <1>4, <1>5, <1>6 DEF w

\* Retry-After is the shortest wait that is long enough.
LEMMA RetryAfterIsExact ==
    ASSUME NEW held \in 0..(Token - 1)
    PROVE  DecisionFromTokens(held - Token) = TheBucket!Refused(held)
  <1> DEFINE missing == Token - held
             w == (missing + Rate - 1) \div Rate
             Enough(s) == held + Rate * s >= Token
             Shortest(s) == Enough(s) /\ \A shorter \in 1..(s - 1) : held + Rate * shorter < Token
  <1>1. Token \in Nat \ {0} /\ Rate \in Nat \ {0} /\ missing \in 1..Token
    BY AdmissionAssumption
  <1>2. w \in 1..Token /\ Rate * w >= missing /\ \A v \in 1..(w - 1) : Rate * v < missing
    <2> HIDE DEF missing
    <2> QED
      BY <1>1, RoundedUp
  <1>3. -(held - Token) = missing
    BY <1>1
  <1>4. held - Token < 0
    BY <1>1
  <1>5. DecisionFromTokens(held - Token) = [allowed |-> FALSE, remaining |-> 0, retryAfter |-> w]
    <2>1. Greater(1, w) = w
      BY <1>2 DEF Greater
    <2> HIDE DEF missing
    <2>2. ~(held - Token >= 0)
      BY <1>1, <1>4
    <2> QED
      BY <1>3, <2>1, <2>2 DEF DecisionFromTokens
  <1> HIDE DEF w
  <1>6. Shortest(w)
    <2>1. Enough(w)
      BY <1>1, <1>2
    <2>2. ASSUME NEW v \in 1..(w - 1) PROVE held + Rate * v < Token
      BY <1>1, <1>2
    <2> QED
      BY <2>1, <2>2
  <1>7. ASSUME NEW s \in 1..Token, Shortest(s) PROVE s = w
    <2>1. CASE s < w
      <3>1. Rate * s < missing /\ Rate * s \in Nat
        BY <1>1, <1>2, <2>1
      <3> QED
        BY <1>1, <1>7, <3>1
    <2>2. CASE w < s
      <3>1. held + Rate * w < Token
        BY <1>2, <1>7, <2>2
      <3>2. held + Rate * w >= Token
        BY <1>6
      <3>3. held + Rate * w \in Int
        BY <1>1, <1>2
      <3> QED
        BY <1>1, <3>1, <3>2, <3>3
    <2> QED
      BY <1>2, <2>1, <2>2
  <1>8. TheBucket!SecondsToToken(held) = CHOOSE s \in 1..Token : Shortest(s)
    BY DEF TheBucket!SecondsToToken
  <1>9. (CHOOSE s \in 1..Token : Shortest(s)) = w
    <2> HIDE DEF Shortest
    <2> QED
      BY <1>2, <1>6, <1>7
  <1> QED
    BY <1>5, <1>8, <1>9 DEF TheBucket!Refused

\* An upsert is a question to the ideal bucket.
LEMMA UpsertAsks ==
    ASSUME NEW b \in BucketRow \cup {NoBucket}, NEW now \in Times
    PROVE  LET c == TakeToken(b, now)
               held == Lesser(Full, Level(b) + Rate * (AsOf(c) - AsOf(b)))
           IN  /\ c \in BucketRow /\ c # NoBucket
               /\ AsOf(c) \in Times /\ AsOf(c) >= AsOf(b)
               /\ \/ /\ held >= Token
                     /\ Level(c) = held - Token
                     /\ Verdict(c) = TheBucket!Allowed(held - Token)
                  \/ /\ held < Token
                     /\ Level(c) = held
                     /\ Verdict(c) = TheBucket!Refused(held)
  <1> DEFINE c == TakeToken(b, now)
             held == Lesser(Full, Level(b) + Rate * (AsOf(c) - AsOf(b)))
  <1>1. /\ c \in BucketRow /\ AsOf(c) = c.updatedAt /\ c # NoBucket
        /\ AsOf(c) \in Times /\ AsOf(c) >= AsOf(b)
        /\ held \in 0..Full /\ c.tokens = held - Token
    <2>1. CASE b = NoBucket
      <3>1. c = [tokens |-> Full - Token, updatedAt |-> now]
        BY <2>1 DEF TakeToken
      <3>2. c \in BucketRow
        BY <3>1, FirstTake
      <3>3. c # NoBucket
        BY <3>2, AdmissionAssumption DEF BucketRow, Times
      <3>4. AsOf(c) = now /\ AsOf(b) = 0 /\ now \in Nat
        BY <2>1, <3>1, <3>3 DEF AsOf, Times
      <3>5. Level(b) = Full /\ Rate * (now - 0) \in Nat
        BY <2>1, <3>4, Refilling DEF Level
      <3>6. held = Full
        BY <3>4, <3>5, Refilling DEF Lesser
      <3> QED
        BY <3>1, <3>2, <3>3, <3>4, <3>6, Refilling
    <2>2. CASE b # NoBucket
      <3> DEFINE elapsed == Greater(0, now - b.updatedAt)
      <3>1. b \in BucketRow /\ b.updatedAt \in Times
        BY <2>2 DEF BucketRow
      <3>2. /\ elapsed \in Nat /\ c.updatedAt = b.updatedAt + elapsed /\ c.updatedAt \in Times
            /\ c.tokens = Lesser(Full, HeldTokens(b) + Rate * elapsed) - Token
        BY <2>2, <3>1 DEF TakeToken, Refilled, Greater, Times
      <3>3. c = [tokens |-> c.tokens, updatedAt |-> c.updatedAt]
        BY <2>2 DEF TakeToken, Refilled
      <3>4. HeldTokens(b) \in 0..Full /\ Rate * elapsed \in Nat
        BY <3>1, <3>2, HeldRange, Refilling
      <3> HIDE DEF c, elapsed
      <3>5. c \in BucketRow /\ c # NoBucket
        <4>1. c.tokens \in (-Token)..(Full - Token)
          BY <3>2, <3>4, Refilling DEF Lesser
        <4> QED
          BY <3>2, <3>3, <4>1, AdmissionAssumption DEF BucketRow, Times
      <3>6. AsOf(c) = c.updatedAt /\ AsOf(b) = b.updatedAt /\ Level(b) = HeldTokens(b)
        BY <2>2, <3>5 DEF AsOf, Level
      <3>7. AsOf(c) - AsOf(b) = elapsed
        BY <3>1, <3>2, <3>6 DEF Times
      <3>8. held = Lesser(Full, HeldTokens(b) + Rate * elapsed)
        BY <3>6, <3>7
      <3>9. held \in 0..Full
        BY <3>4, <3>8, Refilling DEF Lesser
      <3> QED
        BY <3>1, <3>2, <3>5, <3>6, <3>8, <3>9 DEF Times
    <2> QED
      BY <2>1, <2>2
  <1> HIDE DEF c, held
  <1>2. CASE held >= Token
    <2>1. c.tokens >= 0 /\ Level(c) = held - Token
      BY <1>1, <1>2, Refilling DEF Level, HeldTokens
    <2>2. Verdict(c) = TheBucket!Allowed(held - Token)
      BY <1>1, <2>1 DEF Verdict, DecisionFromTokens, TheBucket!Allowed
    <2> QED
      BY <1>1, <1>2, <2>1, <2>2 DEF c, held
  <1>3. CASE held < Token
    <2>1. ~(c.tokens >= 0) /\ Level(c) = held
      BY <1>1, <1>3, Refilling DEF Level, HeldTokens
    <2>2. held \in 0..(Token - 1)
      BY <1>1, <1>3, Refilling
    <2>3. Verdict(c) = TheBucket!Refused(held)
      BY <1>1, <2>2, RetryAfterIsExact DEF Verdict
    <2> QED
      BY <1>1, <1>3, <2>1, <2>3 DEF c, held
  <1> QED
    BY <1>1, <1>2, <1>3, Refilling

\* Every bucket of the database is an ideal token bucket: refused requests
\* cost nothing, no interval is refilled twice, and Retry-After is exact.
THEOREM RowsAreBuckets == Spec => BucketSpec
  <1>1. Init => TheBucket!Init
    <2>1. DecisionFromTokens(Full) = TheBucket!Allowed(TheBucket!Full)
      BY Refilling DEF DecisionFromTokens, TheBucket!Allowed, TheBucket!Full, Full
    <2> QED
      BY <2>1 DEF Init, TheBucket!Init, TheBucket!Full, Full, Level, AsOf, Verdict
  <1>2. IInv /\ [Next]_vars =>
            [TheBucket!Next]_<<[k \in Keys |-> Level(bucket[k])],
                               [k \in Keys |-> AsOf(bucket[k])],
                               [k \in Keys |-> Verdict(bucket[k])]>>
    <2> SUFFICES ASSUME IInv, [Next]_vars
                 PROVE  \/ TheBucket!Next
                        \/ UNCHANGED <<[k \in Keys |-> Level(bucket[k])],
                                       [k \in Keys |-> AsOf(bucket[k])],
                                       [k \in Keys |-> Verdict(bucket[k])]>>
      OBVIOUS
    <2>1. CASE UNCHANGED bucket
      BY <2>1
    <2>2. ASSUME NEW r \in Requests, Charge(request[r].key, request[r].now), At(r, "take")
          PROVE  TheBucket!Next
      <3> DEFINE k == request[r].key
                 b == bucket[k]
                 c == TakeToken(b, request[r].now)
                 t == AsOf(c)
                 held == Lesser(Full, Level(b) + Rate * (t - AsOf(b)))
      <3>1. k \in Keys /\ request[r].now \in Times
        BY <2>2 DEF IInv, SoundRequests, SoundRequest, At, Idle, AdmittedRequests, UnderWayRequests
      <3>2. b \in BucketRow \cup {NoBucket} /\ bucket' = [bucket EXCEPT ![k] = c]
        BY <2>2, <3>1 DEF IInv, SoundBuckets, Charge
      <3>3. /\ t \in Times /\ t >= AsOf(b)
            /\ \/ /\ held >= Token
                  /\ Level(c) = held - Token
                  /\ Verdict(c) = TheBucket!Allowed(held - Token)
               \/ /\ held < Token
                  /\ Level(c) = held
                  /\ Verdict(c) = TheBucket!Refused(held)
        <4> HIDE DEF b
        <4> QED
          BY <3>1, <3>2, UpsertAsks
      <3> HIDE DEF c, k
      <3>4. /\ [j \in Keys |-> Level(bucket'[j])]
                    = [[j \in Keys |-> Level(bucket[j])] EXCEPT ![k] = Level(c)]
            /\ [j \in Keys |-> AsOf(bucket'[j])]
                    = [[j \in Keys |-> AsOf(bucket[j])] EXCEPT ![k] = AsOf(c)]
            /\ [j \in Keys |-> Verdict(bucket'[j])]
                    = [[j \in Keys |-> Verdict(bucket[j])] EXCEPT ![k] = Verdict(c)]
        BY <3>1, <3>2 DEF IInv, SoundBuckets
      <3>5. /\ [j \in Keys |-> Level(bucket[j])][k] = Level(b)
            /\ [j \in Keys |-> AsOf(bucket[j])][k] = AsOf(b)
        BY <3>1
      <3>6. TheBucket!Ask(k, t)
        <4>1. /\ TheBucket!Full = Full
              /\ \A x, y : TheBucket!Lesser(x, y) = Lesser(x, y)
          BY DEF TheBucket!Full, Full, TheBucket!Lesser, Lesser
        <4> HIDE DEF b
        <4> QED
          BY <3>3, <3>4, <3>5, <4>1 DEF TheBucket!Ask
      <3> QED
        BY <3>1, <3>3, <3>6 DEF TheBucket!Next, TheBucket!Times, Times
    <2>3. \/ UNCHANGED bucket
          \/ \E r \in Requests : At(r, "take") /\ Charge(request[r].key, request[r].now)
      BY DEF Next, vars, FindByPrefix, VerifySecret, FindApp, StoreFails, Take, TakeFails,
         IssueApiKey, RevokeApiKey, Invalidate, Tick, Restart
    <2> QED
      BY <2>1, <2>2, <2>3
  <1> QED
    BY <1>1, <1>2, Invariance, PTL
       DEF Spec, BucketSpec, TheBucket!Spec
=============================================================================
