---------------------------- MODULE TurnDecision ----------------------------
(***************************************************************************)
(* A turn from its arrival to the policy engine's verdict                  *)
(* (packages/gateway/src/evaluate/pipeline.ts, steps 2 to 5): the request's *)
(* overrides are merged into the stored policy, the classification is      *)
(* looked up in the two-tier cache (evaluate/classify-cache-pg.ts), else   *)
(* computed from the rules and a language model under a deadline           *)
(* (packages/core/src/classify), cached in both tiers, and judged.         *)
(*                                                                         *)
(* Several gateway processes share one classify_cache table; each has its  *)
(* own LRU.  A cached classification is modelled by where it came from:    *)
(* the text, the policy fields it was merged under, the model's answer and *)
(* the time of that answer, of which Class gives the classification.       *)
(***************************************************************************)
EXTENDS PolicyRules

CONSTANTS
    Requests, Processes,
    Apps, Texts,
    StoredPolicy,       \* the policy of each app
    RulesOf,            \* the rules stage's result for each text
    Answers,            \* what the language model may answer
    Inputs,             \* [app, text, override, user, state] a request may bring
    Ttl,                \* DEFAULT_CACHE_TTL_MS
    MaxEntries,         \* DEFAULT_CACHE_MAX_ENTRIES
    LastTime            \* bound: the clock stops here

ASSUME DecisionAssumption ==
    /\ \A a \in Apps : ValidPolicy(StoredPolicy[a])
    /\ \A t \in Texts : RulesOf[t] \in RulesResults
    /\ Answers \subseteq Classifications /\ NoAnswer \notin Answers
    /\ \A i \in Inputs : /\ i.app \in Apps /\ i.text \in Texts
                         /\ i.override \in Policies /\ i.state \in CapStates
    /\ Ttl \in Nat \ {0} /\ MaxEntries \in Nat \ {0} /\ LastTime \in Nat

VARIABLES
    lru,        \* each process's in-memory tier: rows
    pg,         \* table classify_cache
    req,        \* where each request is
    clock

vars == <<lru, pg, req, clock>>

NoInput == [app |-> "none"]
NoValue == [app |-> "none"]
NoRow == [key |-> "none"]
NewRequest == [phase |-> "new", proc |-> "none", input |-> NoInput, row |-> NoRow,
               value |-> NoValue, write |-> NoRow, at |-> 0]

Init ==
    /\ lru = [g \in Processes |-> {}]
    /\ pg = {}
    /\ req = [r \in Requests |-> NewRequest]
    /\ clock = 0

Policy(r) == MergeOverrides(StoredPolicy[req[r].input.app], req[r].input.override)

-----------------------------------------------------------------------------
(* The cache.                                                              *)

\* Variant: a key without the app.
UnscopedKey(input, p) ==
    [text |-> input.text, detection |-> p.detection, min_confidence |-> p.min_confidence]

\* scopedCacheKey over classifyCacheKey: the text and what the merge reads.
Key(input, p) ==
    [app |-> input.app, text |-> input.text,
     detection |-> p.detection, min_confidence |-> p.min_confidence]

KeyOf(r) == Key(req[r].input, Policy(r))

Row(k, value, expires) == [key |-> k, value |-> value, expires |-> expires]
Others(entries, k) == {row \in entries : row.key # k}
Fresh(entries, k) == {row \in entries : row.key = k /\ row.expires > clock}

\* get: an expired entry is dropped.
AfterGet(entries, k) == Others(entries, k) \cup Fresh(entries, k)

\* set: when there are too many, one entry goes, and never the new one; that
\* it is the least recently used one is left open.
AfterSet(entries, row) ==
    LET rest == Others(entries, row.key)
    IN IF Cardinality(rest) < MaxEntries
       THEN {rest \cup {row}}
       ELSE {(rest \ {gone}) \cup {row} : gone \in rest}

-----------------------------------------------------------------------------
(* A request.                                                              *)

\* open(): the LRU, else the table.
Receive(r, g, input) ==
    LET p == MergeOverrides(StoredPolicy[input.app], input.override)
        k == Key(input, p)
    IN /\ req[r].phase = "new"
       /\ req' = [req EXCEPT ![r].proc = g, ![r].input = input,
             ![r].phase = IF Fresh(lru[g], k) # {} THEN "classifying" ELSE "reading"]
       /\ lru' = [lru EXCEPT ![g] = AfterGet(@, k)]
       /\ UNCHANGED <<pg, clock>>

\* The SELECT, which skips expired rows and counts a failure as a miss.
ReadPg(r) ==
    /\ req[r].phase = "reading"
    /\ \E row \in Fresh(pg, KeyOf(r)) \cup {NoRow} :
           req' = [req EXCEPT ![r].phase = "seeding", ![r].row = row]
    /\ UNCHANGED <<lru, pg, clock>>

\* Variant: a row found in the table starts a new lifetime in the LRU.
SeedFresh(r) ==
    /\ req[r].phase = "seeding"
    /\ req' = [req EXCEPT ![r].phase = "classifying", ![r].row = NoRow]
    /\ IF req[r].row # NoRow
       THEN \E entries \in AfterSet(lru[req[r].proc],
                                    [req[r].row EXCEPT !.expires = clock + Ttl]) :
                lru' = [lru EXCEPT ![req[r].proc] = entries]
       ELSE UNCHANGED lru
    /\ UNCHANGED <<pg, clock>>

\* The rest of open(): the row goes into the LRU with what is left of it.
Seed(r) ==
    /\ req[r].phase = "seeding"
    /\ req' = [req EXCEPT ![r].phase = "classifying", ![r].row = NoRow]
    /\ IF req[r].row # NoRow /\ req[r].row.expires > clock
       THEN \E entries \in AfterSet(lru[req[r].proc], req[r].row) :
                lru' = [lru EXCEPT ![req[r].proc] = entries]
       ELSE UNCHANGED lru
    /\ UNCHANGED <<pg, clock>>

Value(r, llm) ==
    [app |-> req[r].input.app, text |-> req[r].input.text,
     detection |-> Policy(r).detection, min_confidence |-> Policy(r).min_confidence,
     llm |-> llm, born |-> clock]
Class(value) == Classified(RulesOf[value.text], value.llm, value)

\* Both tiers: the LRU at once, the table by a statement of its own.
Cached(r, llm) ==
    LET row == Row(KeyOf(r), Value(r, llm), clock + Ttl)
    IN /\ \E entries \in AfterSet(lru[req[r].proc], row) :
              lru' = [lru EXCEPT ![req[r].proc] = entries]
       /\ req' = [req EXCEPT ![r].phase = "deciding", ![r].at = clock,
                             ![r].value = row.value, ![r].write = row]

Uncached(r) ==
    /\ req' = [req EXCEPT ![r].phase = "deciding", ![r].at = clock,
                          ![r].value = Value(r, NoAnswer)]
    /\ UNCHANGED lru

\* classify() up to the model: a hit ends it, a strong flag as well.
Classify(r) ==
    LET hits == Fresh(lru[req[r].proc], KeyOf(r))
        strong == RulesOf[req[r].input.text].strong # {}
    IN /\ req[r].phase = "classifying"
       /\ \/ \E hit \in hits :
                 /\ req' = [req EXCEPT ![r].phase = "deciding", ![r].at = clock,
                                       ![r].value = hit.value]
                 /\ UNCHANGED lru
          \/ hits = {} /\ strong /\ Cached(r, NoAnswer)
          \/ /\ hits = {} /\ ~strong
             /\ req' = [req EXCEPT ![r].phase = "asking"]
             /\ lru' = [lru EXCEPT ![req[r].proc] = AfterGet(@, KeyOf(r))]
       /\ UNCHANGED <<pg, clock>>

LlmAnswers(r, answer) ==
    /\ req[r].phase = "asking"
    /\ Cached(r, answer)
    /\ UNCHANGED <<pg, clock>>

\* The deadline, a refusal, or no model at all: a later answer is ignored and
\* the fallback is not cached.
LlmFails(r) ==
    /\ req[r].phase = "asking"
    /\ Uncached(r)
    /\ UNCHANGED <<pg, clock>>

\* The upsert queued by Cached, which may fail.
WritePg(r) ==
    LET row == req[r].write
    IN /\ row # NoRow
       /\ \/ pg' = {other \in pg : other.key # row.key} \cup {row}
          \/ pg' = pg
       /\ req' = [req EXCEPT ![r].write = NoRow]
       /\ UNCHANGED <<lru, clock>>

\* evaluatePolicy, and the answer once the cache write was attempted.
Evaluate(r) ==
    /\ req[r].phase = "deciding" /\ req[r].write = NoRow
    /\ req' = [req EXCEPT ![r].phase = "done"]
    /\ UNCHANGED <<lru, pg, clock>>

\* A process restarts with an empty LRU; its requests and writes are lost.
Restart(g) ==
    /\ lru' = [lru EXCEPT ![g] = {}]
    /\ req' = [r \in Requests |->
          IF req[r].proc = g /\ req[r].phase # "done"
          THEN [NewRequest EXCEPT !.phase = "lost"] ELSE req[r]]
    /\ UNCHANGED <<pg, clock>>

Tick ==
    /\ clock < LastTime
    /\ clock' = clock + 1
    /\ UNCHANGED <<lru, pg, req>>

Step(r) ==
    \/ \E g \in Processes, input \in Inputs : Receive(r, g, input)
    \/ ReadPg(r) \/ Seed(r) \/ Classify(r)
    \/ \E answer \in Answers : LlmAnswers(r, answer)
    \/ LlmFails(r) \/ WritePg(r) \/ Evaluate(r)

Next == (\E r \in Requests : Step(r)) \/ (\E g \in Processes : Restart(g)) \/ Tick
Spec == Init /\ [][Next]_vars

-----------------------------------------------------------------------------
(* Properties.                                                             *)

Phases == {"new", "reading", "seeding", "classifying", "asking", "deciding", "done", "lost"}
Keys == [app: Apps, text: Texts, detection: {"balanced", "strict"}, min_confidence: Nat]
Values == [app: Apps, text: Texts, detection: {"balanced", "strict"}, min_confidence: Nat,
           llm: Answers \cup {NoAnswer}, born: Nat]
Rows == [key: Keys, value: Values, expires: Nat]
Reqs == [phase: Phases, proc: Processes \cup {"none"}, input: Inputs \cup {NoInput},
         row: Rows \cup {NoRow}, value: Values \cup {NoValue},
         write: Rows \cup {NoRow}, at: Nat]

TypeOK ==
    /\ lru \in [Processes -> SUBSET Rows]
    /\ pg \subseteq Rows
    /\ req \in [Requests -> Reqs]
    /\ clock \in 0..LastTime

\* Both tiers hold one row for a key, and the LRU no more than its limit.
OneRowPerKey(rows) == \A x, y \in rows : x.key = y.key => x = y

Done == {r \in Requests : req[r].phase = "done"}
Stored(r) == StoredPolicy[req[r].input.app]
Rules(r) == RulesOf[req[r].input.text]
MayServe(r) == Allowed(Policy(r), Class(req[r].value), req[r].input.user, req[r].input.state)

\* Whatever the caches held, a turn is judged on a classification of its own
\* text, made for its own app, merged under its own effective policy: no two
\* apps and no two strictnesses share an answer.
AnswerFitsRequest ==
    \A r \in Done :
        /\ req[r].value.app = req[r].input.app
        /\ Class(req[r].value) = Classified(Rules(r), req[r].value.llm, Policy(r))

\* No turn is judged on a model's answer older than the cache's lifetime, by
\* whatever way through the two tiers it came (a seeded copy keeps the row's
\* remaining lifetime).
NoStaleAnswer == \A r \in Done : req[r].at - req[r].value.born < Ttl

\* A failure of the model cannot pin the weaker rules-only answer: what
\* either tier holds had the model's answer or did not need it.
FallbackNotCached ==
    \A row \in pg \cup UNION {lru[g] : g \in Processes} :
        row.value.llm # NoAnswer \/ RulesOf[row.value.text].strong # {}

\* A turn in which either stage saw self_harm carries no ad, whatever the
\* policy, the overrides, the model's confidence and the caches.
NeverServesSelfHarm ==
    \A r \in Done : MayServe(r) =>
        /\ "self_harm" \notin Rules(r).sensitive
        /\ req[r].value.llm # NoAnswer => "self_harm" \notin req[r].value.llm.sensitive

\* Overrides only make a policy stricter: a turn the merged policy lets
\* through, the stored policy lets through on the same classification.
EngineOnlyTightens ==
    \A r \in Done : MayServe(r) =>
        Allowed(Stored(r), Class(req[r].value), req[r].input.user, req[r].input.state)

=============================================================================
