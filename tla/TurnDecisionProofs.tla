------------------------- MODULE TurnDecisionProofs -------------------------
(***************************************************************************)
(* Theorems about what a turn is judged on and what it may carry: the      *)
(* policy engine and overrides (PolicyRules), the caches between a request *)
(* and its classification (TurnDecision), and the adapters, the diagnosis  *)
(* and the click (Delivery).                                               *)
(*                                                                         *)
(* Nothing the caches do can change what a request is judged on because    *)
(* every row, in either tier and on its way between them, is sound: its    *)
(* key names the app, text and policy fields its value was made from, it   *)
(* expires no later than one lifetime after the answer in it, and it has   *)
(* the model's answer unless a strong flag made that unnecessary           *)
(* (SoundRow).  A request only takes a row of its own key.                 *)
(***************************************************************************)
EXTENDS TurnDecision, Delivery, FiniteSetTheorems, WellFoundedInduction, TLAPS

-----------------------------------------------------------------------------
(***************************************************************************)
(* What holds of the policy engine, the overrides and the classifier's     *)
(* merge for every policy, override, user, cap state and classification.   *)
(***************************************************************************)
-----------------------------------------------------------------------------
(* Overrides.                                                              *)

\* The merged list of regions is one, and covers no country the stored list
\* does not (mergeRegions; isRegionAllowed).
LEMMA RegionsTighten ==
    ASSUME NEW p, NEW o
    PROVE  /\ MergedRegions(p, o) \subseteq p.regions \cup o.regions
           /\ ExpandRegions(MergedRegions(p, o)) \subseteq ExpandRegions(p.regions)
<1> DEFINE kept == {e \in o.regions : ExpandRegions({e}) \subseteq ExpandRegions(p.regions)}
<1>1. ExpandRegions(kept) \subseteq ExpandRegions(p.regions)
  <2> SUFFICES ASSUME NEW c \in ExpandRegions(kept)
               PROVE  c \in ExpandRegions(p.regions)
    OBVIOUS
  <2>1. \E e \in kept : c \in ExpandRegions({e})
    BY DEF ExpandRegions
  <2> QED
    BY <2>1
<1>2. MergedRegions(p, o) = kept \/ MergedRegions(p, o) = p.regions
  BY DEF MergedRegions
<1> QED
  BY <1>1, <1>2

\* Stricter caps are caps, and a state within them is within the stored ones
\* (mergeFrequencyCaps; checkFrequencyCaps).
LEMMA CapsTighten ==
    ASSUME NEW p \in CapValues, NEW o \in CapValues
    PROVE  /\ StricterCaps(p, o) \in CapValues
           /\ \A state \in CapStates : \A user :
                  WithinCaps(state, StricterCaps(p, o), user) => WithinCaps(state, p, user)
<1>1. /\ p.per_session \in Nat /\ o.per_session \in Nat
      /\ p.per_user_per_day \in Nat /\ o.per_user_per_day \in Nat
      /\ p.min_turns_between \in Nat /\ o.min_turns_between \in Nat
  BY DEF CapValues
<1> DEFINE s == StricterCaps(p, o)
<1>2. /\ s.per_session \in Nat /\ s.per_session <= p.per_session
      /\ s.per_user_per_day \in Nat /\ s.per_user_per_day <= p.per_user_per_day
      /\ s.min_turns_between \in Nat /\ p.min_turns_between <= s.min_turns_between
  BY <1>1 DEF StricterCaps, Lower, Higher
<1>3. s \in CapValues
  BY <1>2 DEF StricterCaps, CapValues
<1>4. ASSUME NEW state \in CapStates, NEW user, WithinCaps(state, s, user)
      PROVE  WithinCaps(state, p, user)
  <2>1. /\ state.session_count \in Nat /\ state.day_count \in Nat
        /\ state.turns_since_last \in Nat \cup {Never}
    BY DEF CapStates
  <2>2. Never \in Int /\ Never = -1
    BY DEF Never
  <2> HIDE DEF s
  <2> QED
    BY <1>1, <1>2, <1>4, <2>1, <2>2 DEF WithinCaps
<1> QED
  BY <1>3, <1>4

\* Merging an override into a policy gives a policy (mergeOverrides).
LEMMA MergeIsPolicy ==
    ASSUME NEW p \in Policies, NEW o \in Policies
    PROVE  MergeOverrides(p, o) \in Policies
<1>1. MergedTiers(p, o) \in SUBSET Tiers
  BY DEF MergedTiers, Policies
<1>2. MergedRegions(p, o) \in SUBSET (Countries \cup {EU})
  BY RegionsTighten DEF Policies
<1>3. StricterCaps(p.caps, o.caps) \in CapValues
  BY CapsTighten DEF Policies
<1>4. /\ Higher(p.min_intent, o.min_intent) \in Nat
      /\ Higher(p.min_confidence, o.min_confidence) \in Nat
  BY DEF Higher, Policies
<1>5. /\ (p.allow_paid /\ o.allow_paid) \in BOOLEAN /\ (p.raw_text /\ o.raw_text) \in BOOLEAN
      /\ p.blocked \cup o.blocked \in SUBSET Sensitive
      /\ p.exclusions \cup o.exclusions \in SUBSET Domains
      /\ p.sources \cap o.sources \in SUBSET Sources
  BY DEF Policies
<1> QED
  BY <1>1, <1>2, <1>3, <1>4, <1>5 DEF MergeOverrides, Policies

\* The refinements of the schema survive a merge: self_harm stays blocked and
\* paid tiers stay out unless both sides allow them.
THEOREM MergeKeepsPolicyValid ==
    ASSUME NEW p, ValidPolicy(p), NEW o \in Policies
    PROVE  ValidPolicy(MergeOverrides(p, o))
<1>1. p \in Policies
  BY DEF ValidPolicy
<1>2. MergeOverrides(p, o) \in Policies
  BY <1>1, MergeIsPolicy
<1>3. "self_harm" \in MergeOverrides(p, o).blocked
  BY DEF MergeOverrides, ValidPolicy
<1>4. ~MergeOverrides(p, o).allow_paid => MergeOverrides(p, o).tiers \subseteq {"free"}
  <2>1. MergeOverrides(p, o).tiers = MergedTiers(p, o)
    BY DEF MergeOverrides
  <2>2. MergeOverrides(p, o).allow_paid = (p.allow_paid /\ o.allow_paid)
    BY DEF MergeOverrides
  <2> QED
    BY <2>1, <2>2 DEF MergedTiers, ValidPolicy
<1> QED
  BY <1>2, <1>3, <1>4 DEF ValidPolicy

\* Whatever the merged policy lets through, the stored one lets through on
\* the same classification: no override widens any rule of evaluatePolicy.
THEOREM MergeTightensEngine ==
    ASSUME NEW p \in Policies, NEW o \in Policies,
           NEW cls, cls.confidence \in Nat, cls.intent \in Nat,
           NEW user, NEW state \in CapStates,
           Allowed(MergeOverrides(p, o), cls, user, state)
    PROVE  Allowed(p, cls, user, state)
<1> DEFINE q == MergeOverrides(p, o)
<1>1. /\ q.tiers = MergedTiers(p, o) /\ q.allow_paid = (p.allow_paid /\ o.allow_paid)
      /\ q.regions = MergedRegions(p, o) /\ q.blocked = p.blocked \cup o.blocked
      /\ q.min_intent = Higher(p.min_intent, o.min_intent)
      /\ q.min_confidence = Higher(p.min_confidence, o.min_confidence)
      /\ q.caps = StricterCaps(p.caps, o.caps)
  BY DEF MergeOverrides
<1>2. /\ TierServed(q, user) /\ RegionAllowed(q, user) /\ NothingBlocked(q, cls)
      /\ cls.confidence >= q.min_confidence /\ cls.intent >= q.min_intent
      /\ WithinCaps(state, q.caps, user.hash)
  BY DEF Allowed
<1> HIDE DEF q
<1>3. TierServed(p, user)
  BY <1>1, <1>2 DEF TierServed, MergedTiers
<1>4. RegionAllowed(p, user)
  BY <1>1, <1>2, RegionsTighten DEF RegionAllowed
<1>5. NothingBlocked(p, cls)
  BY <1>1, <1>2 DEF NothingBlocked
<1>6. cls.confidence >= p.min_confidence /\ cls.intent >= p.min_intent
  BY <1>1, <1>2 DEF Higher, Policies
<1>7. WithinCaps(state, p.caps, user.hash)
  BY <1>1, <1>2, CapsTighten DEF Policies
<1> QED
  BY <1>3, <1>4, <1>5, <1>6, <1>7 DEF Allowed

-----------------------------------------------------------------------------
(* The classifier.                                                         *)

\* What either way through the classifier returns (rulesClassification,
\* mergeClassifications).
LEMMA ClassifiedType ==
    ASSUME NEW rules \in RulesResults, NEW llm \in Classifications \cup {NoAnswer},
           NEW p, p.min_confidence \in Nat
    PROVE  Classified(rules, llm, p) \in Classifications
<1>1. CASE rules.strong # {} \/ llm = NoAnswer
  <2>1. Classified(rules, llm, p) = RulesOnly(rules)
    BY <1>1 DEF Classified
  <2>2. /\ rules.intent \in Nat /\ rules.confidence \in Nat
        /\ rules.sensitive \in SUBSET Sensitive /\ rules.commercial \in SUBSET Categories
    BY DEF RulesResults
  <2> QED
    BY <2>1, <2>2, PolicyAssumption DEF RulesOnly, Classifications
<1>2. CASE ~(rules.strong # {} \/ llm = NoAnswer)
  <2>1. Classified(rules, llm, p) = Merged(rules, llm, p) /\ llm \in Classifications
    BY <1>2 DEF Classified
  <2>2. MergedSensitive(rules, llm, p) \in SUBSET Sensitive
    BY <2>1 DEF MergedSensitive, RulesResults, Classifications
  <2>3. /\ llm.intent \in Nat /\ llm.confidence \in Nat /\ rules.confidence \in Nat
        /\ llm.categories \in SUBSET Categories
    BY <2>1 DEF RulesResults, Classifications
  <2>4. MergedConfidence(rules, llm) \in Nat
    BY <2>3 DEF MergedConfidence, Higher, Lower
  <2>5. Capped(llm.intent, MergedSensitive(rules, llm, p)) \in Nat
    BY <2>3, PolicyAssumption DEF Capped, Lower
  <2> QED
    BY <2>1, <2>2, <2>3, <2>4, <2>5 DEF Merged, Classifications
<1> QED
  BY <1>1, <1>2

\* The self_harm floor: whichever stage saw it, the classification the engine
\* is given has it, under any policy and at any confidence.
LEMMA SelfHarmStays ==
    ASSUME NEW rules, NEW llm, NEW p,
           \/ "self_harm" \in rules.sensitive
           \/ rules.strong = {} /\ llm # NoAnswer /\ "self_harm" \in llm.sensitive
    PROVE  "self_harm" \in Classified(rules, llm, p).sensitive
<1>1. RulesOnly(rules).sensitive = rules.sensitive
  BY DEF RulesOnly
<1>2. Merged(rules, llm, p).sensitive = MergedSensitive(rules, llm, p)
  BY DEF Merged
<1> QED
  BY <1>1, <1>2 DEF Classified, MergedSensitive

\* And the engine lets no such classification through, even under a policy
\* whose list does not name self_harm (checkBlockedCategories).
LEMMA SelfHarmIsBlocked ==
    ASSUME NEW p, NEW cls, NEW user, NEW state, "self_harm" \in cls.sensitive
    PROVE  ~Allowed(p, cls, user, state)
BY DEF Allowed, NothingBlocked

-----------------------------------------------------------------------------
(* The inductive invariant.                                                *)

KeyFor(input) == Key(input, MergeOverrides(StoredPolicy[input.app], input.override))
KeyOfValue(value) == [app |-> value.app, text |-> value.text,
                      detection |-> value.detection, min_confidence |-> value.min_confidence]
IsStrong(text) == RulesOf[text].strong # {}

SoundRow(row) ==
    /\ row.key = KeyOfValue(row.value)
    /\ row.value.born <= clock
    /\ row.expires <= row.value.born + Ttl
    /\ row.value.llm = NoAnswer <=> IsStrong(row.value.text)

SoundCaches ==
    /\ \A row \in pg : SoundRow(row)
    /\ \A g \in Processes : \A row \in lru[g] : SoundRow(row)

\* What a request knows in each phase.
SoundRequest(r) ==
    /\ req[r].phase \notin {"new", "lost"} =>
           req[r].input \in Inputs /\ req[r].proc \in Processes
    /\ req[r].phase \in {"new", "lost"} => req[r].row = NoRow /\ req[r].write = NoRow
    /\ req[r].row # NoRow => SoundRow(req[r].row)
    /\ req[r].write # NoRow => SoundRow(req[r].write)
    /\ req[r].phase = "asking" => ~IsStrong(req[r].input.text)
    /\ req[r].phase \in {"deciding", "done"} =>
           /\ req[r].value \in Values
           /\ KeyOfValue(req[r].value) = KeyFor(req[r].input)
           /\ req[r].at - req[r].value.born < Ttl
           /\ req[r].value.llm # NoAnswer => ~IsStrong(req[r].input.text)

SoundRequests == \A r \in Requests : SoundRequest(r)

IInv == TypeOK /\ SoundCaches /\ SoundRequests

-----------------------------------------------------------------------------
(* Keys and rows.                                                          *)

\* The key of an input is a key, and names the input's app and text.
LEMMA KeyForType ==
    ASSUME NEW i \in Inputs
    PROVE  /\ KeyFor(i) \in Keys
           /\ KeyFor(i).app = i.app /\ KeyFor(i).text = i.text
           /\ MergeOverrides(StoredPolicy[i.app], i.override) \in Policies
           /\ i.app \in Apps /\ i.text \in Texts
<1> DEFINE p == MergeOverrides(StoredPolicy[i.app], i.override)
<1>1. i.app \in Apps /\ i.text \in Texts /\ i.override \in Policies
  BY DecisionAssumption
<1>2. StoredPolicy[i.app] \in Policies
  BY <1>1, DecisionAssumption DEF ValidPolicy
<1>3. p \in Policies
  BY <1>1, <1>2, MergeIsPolicy
<1>4. p.detection \in {"balanced", "strict"} /\ p.min_confidence \in Nat
  BY <1>3 DEF Policies
<1> HIDE DEF p
<1>5. KeyFor(i) = Key(i, p)
  BY DEF KeyFor, p
<1> QED
  BY <1>1, <1>3, <1>4, <1>5 DEF Key, Keys, p

\* A row that is found has the key that was looked up and is in the tier.
LEMMA FreshIsSound ==
    ASSUME NEW entries, NEW k, NEW row \in Fresh(entries, k)
    PROVE  row \in entries /\ row.key = k /\ row.expires > clock
BY DEF Fresh

\* get and set put nothing into the in-memory tier but the row that is set.
LEMMA LruKeepsRows ==
    ASSUME NEW entries
    PROVE  /\ \A k : AfterGet(entries, k) \subseteq entries
           /\ \A row : \A after \in AfterSet(entries, row) : after \subseteq entries \cup {row}
<1>1. \A k : AfterGet(entries, k) \subseteq entries
  BY DEF AfterGet, Others, Fresh
<1>2. ASSUME NEW row, NEW after \in AfterSet(entries, row)
      PROVE  after \subseteq entries \cup {row}
  <2>1. Others(entries, row.key) \subseteq entries
    BY DEF Others
  <2> QED
    BY <1>2, <2>1 DEF AfterSet
<1> QED
  BY <1>1, <1>2

\* The classification of a value is that of its text, its model's answer and
\* the policy of the key it is stored under.
LEMMA ClassOfKey ==
    ASSUME NEW i \in Inputs, NEW value \in Values, KeyOfValue(value) = KeyFor(i)
    PROVE  /\ value.app = i.app /\ value.text = i.text
           /\ Class(value) = Classified(RulesOf[i.text], value.llm,
                  MergeOverrides(StoredPolicy[i.app], i.override))
<1> DEFINE p == MergeOverrides(StoredPolicy[i.app], i.override)
<1>1. /\ value.app = i.app /\ value.text = i.text
      /\ value.detection = p.detection /\ value.min_confidence = p.min_confidence
  BY DEF KeyOfValue, KeyFor, Key
<1> HIDE DEF p
<1>2. MergedSensitive(RulesOf[i.text], value.llm, value)
        = MergedSensitive(RulesOf[i.text], value.llm, p)
  BY <1>1 DEF MergedSensitive
<1>3. Class(value) = Classified(RulesOf[i.text], value.llm, p)
  BY <1>1, <1>2 DEF Class, Classified, Merged
<1> QED
  BY <1>1, <1>3 DEF p

\* What a computed classification is: a value of the request's key, born now.
LEMMA ValueIsSound ==
    ASSUME TypeOK, NEW r \in Requests, req[r].input \in Inputs,
           NEW llm \in Answers \cup {NoAnswer}
    PROVE  /\ Value(r, llm) \in Values
           /\ KeyOfValue(Value(r, llm)) = KeyFor(req[r].input)
           /\ Value(r, llm).born = clock /\ Value(r, llm).llm = llm
           /\ Value(r, llm).text = req[r].input.text
           /\ KeyOf(r) = KeyFor(req[r].input)
<1>1. Policy(r) \in Policies /\ req[r].input.app \in Apps /\ req[r].input.text \in Texts
  BY KeyForType DEF Policy
<1>2. Policy(r).detection \in {"balanced", "strict"} /\ Policy(r).min_confidence \in Nat
  BY <1>1 DEF Policies
<1>3. clock \in Nat
  BY DecisionAssumption DEF TypeOK
<1>4. KeyOf(r) = KeyFor(req[r].input)
  BY DEF KeyOf, KeyFor, Policy
<1>5. KeyOfValue(Value(r, llm)) = KeyOf(r)
  BY DEF KeyOfValue, Value, KeyOf, Key
<1> QED
  BY <1>1, <1>2, <1>3, <1>4, <1>5 DEF Value, Values

-----------------------------------------------------------------------------
(* The invariant is inductive.                                             *)

\* A request no step touches stays sound while the clock stands still.
LEMMA OthersStaySound ==
    ASSUME NEW x \in Requests, SoundRequest(x), req'[x] = req[x], clock' = clock
    PROVE  SoundRequest(x)'
BY DEF SoundRequest, SoundRow, KeyFor, Key, KeyOfValue, IsStrong

\* The well-formedness of what a request becomes is all that TypeOK asks of a
\* step that changes one request.
LEMMA OneRequestTyped ==
    ASSUME TypeOK, NEW r \in Requests, NEW q \in Reqs, req' = [req EXCEPT ![r] = q]
    PROVE  req' \in [Requests -> Reqs] /\ req'[r] = q
           /\ \A x \in Requests : x # r => req'[x] = req[x]
BY DEF TypeOK

\* open() starts: the request gets its input and its process.
LEMMA ReceiveKeepsInv ==
    ASSUME IInv, NEW r \in Requests, NEW g \in Processes, NEW i \in Inputs,
           Receive(r, g, i)
    PROVE  IInv'
<1> DEFINE k == Key(i, MergeOverrides(StoredPolicy[i.app], i.override))
           phase == IF Fresh(lru[g], k) # {} THEN "classifying" ELSE "reading"
           q == [req[r] EXCEPT !.proc = g, !.input = i, !.phase = phase]
<1>1. /\ req[r].phase = "new" /\ req' = [req EXCEPT ![r] = q]
      /\ lru' = [lru EXCEPT ![g] = AfterGet(@, k)] /\ pg' = pg /\ clock' = clock
  BY DEF Receive, IInv, TypeOK, Reqs
<1>2. req[r] \in Reqs /\ lru \in [Processes -> SUBSET Rows]
  BY DEF IInv, TypeOK
<1>3. phase \in {"classifying", "reading"}
  OBVIOUS
<1> HIDE DEF phase, k
<1>4. q \in Reqs
  BY <1>2, <1>3 DEF Reqs, Phases
<1>5. /\ q.phase = phase /\ q.input = i /\ q.proc = g
      /\ q.row = req[r].row /\ q.write = req[r].write
  BY <1>2 DEF Reqs
<1> HIDE DEF q
<1>6. /\ req' \in [Requests -> Reqs] /\ req'[r] = q
      /\ \A x \in Requests : x # r => req'[x] = req[x]
  BY <1>1, <1>4, OneRequestTyped DEF IInv
<1>7. \A h \in Processes : lru'[h] \subseteq lru[h]
  BY <1>1, <1>2, LruKeepsRows
<1>8. TypeOK'
  BY <1>1, <1>2, <1>6, <1>7, LruKeepsRows DEF IInv, TypeOK
<1>9. SoundCaches'
  BY <1>1, <1>7 DEF IInv, SoundCaches, SoundRow
<1>10. SoundRequest(r)'
  <2>1. q.row = NoRow /\ q.write = NoRow
    BY <1>1, <1>5 DEF IInv, SoundRequests, SoundRequest
  <2> QED
    BY <1>3, <1>5, <1>6, <2>1 DEF SoundRequest
<1>11. ASSUME NEW x \in Requests, x # r PROVE SoundRequest(x)'
  BY <1>1, <1>6, <1>11, OthersStaySound DEF IInv, SoundRequests
<1> QED
  BY <1>8, <1>9, <1>10, <1>11 DEF IInv, SoundRequests

\* The row read from the table is sound and has the request's key.
LEMMA ReadPgKeepsInv ==
    ASSUME IInv, NEW r \in Requests, ReadPg(r)
    PROVE  IInv'
<1>1. PICK row \in Fresh(pg, KeyOf(r)) \cup {NoRow} :
          req' = [req EXCEPT ![r].phase = "seeding", ![r].row = row]
  BY DEF ReadPg
<1> DEFINE q == [req[r] EXCEPT !.phase = "seeding", !.row = row]
<1>2. req[r].phase = "reading" /\ req[r] \in Reqs /\ UNCHANGED <<lru, pg, clock>>
  BY DEF ReadPg, IInv, TypeOK
<1>3. row # NoRow => row \in pg
  BY FreshIsSound
<1>4. row \in Rows \cup {NoRow}
  BY <1>3 DEF IInv, TypeOK
<1>5. q \in Reqs
  BY <1>2, <1>4 DEF Reqs, Phases
<1>6. /\ q.phase = "seeding" /\ q.row = row /\ q.input = req[r].input
      /\ q.proc = req[r].proc /\ q.write = req[r].write
  BY <1>2 DEF Reqs
<1>7. req' = [req EXCEPT ![r] = q]
  BY <1>1, <1>2 DEF IInv, TypeOK
<1> HIDE DEF q
<1>8. /\ req' \in [Requests -> Reqs] /\ req'[r] = q
      /\ \A x \in Requests : x # r => req'[x] = req[x]
  BY <1>5, <1>7, OneRequestTyped DEF IInv
<1>9. TypeOK'
  BY <1>2, <1>8 DEF IInv, TypeOK
<1>10. SoundCaches'
  BY <1>2 DEF IInv, SoundCaches, SoundRow
<1>11. SoundRequest(r)'
  <2>1. row # NoRow => SoundRow(row)
    BY <1>3 DEF IInv, SoundCaches
  <2>2. SoundRequest(r)
    BY DEF IInv, SoundRequests
  <2> QED
    BY <1>2, <1>6, <1>8, <2>1, <2>2 DEF SoundRequest, SoundRow
<1>12. ASSUME NEW x \in Requests, x # r PROVE SoundRequest(x)'
  BY <1>2, <1>8, <1>12, OthersStaySound DEF IInv, SoundRequests
<1> QED
  BY <1>9, <1>10, <1>11, <1>12 DEF IInv, SoundRequests

\* The row of the table becomes one of the process's own, expiry and all.
LEMMA SeedKeepsInv ==
    ASSUME IInv, NEW r \in Requests, Seed(r)
    PROVE  IInv'
<1> DEFINE q == [req[r] EXCEPT !.phase = "classifying", !.row = NoRow]
           g == req[r].proc
<1>1. /\ req[r].phase = "seeding" /\ req[r] \in Reqs /\ UNCHANGED <<pg, clock>>
      /\ req' = [req EXCEPT ![r].phase = "classifying", ![r].row = NoRow]
  BY DEF Seed, IInv, TypeOK
<1>2. SoundRequest(r)
  BY DEF IInv, SoundRequests
<1>3. q \in Reqs
  BY <1>1 DEF Reqs, Phases
<1>4. /\ q.phase = "classifying" /\ q.row = NoRow /\ q.input = req[r].input
      /\ q.proc = req[r].proc /\ q.write = req[r].write
  BY <1>1 DEF Reqs
<1>5. req' = [req EXCEPT ![r] = q]
  BY <1>1 DEF IInv, TypeOK
<1> HIDE DEF q
<1>6. /\ req' \in [Requests -> Reqs] /\ req'[r] = q
      /\ \A x \in Requests : x # r => req'[x] = req[x]
  BY <1>3, <1>5, OneRequestTyped DEF IInv
<1>7. lru \in [Processes -> SUBSET Rows]
  BY DEF IInv, TypeOK
<1>8. /\ lru' \in [Processes -> SUBSET Rows]
      /\ \A h \in Processes : \A row \in lru'[h] :
             row \in lru[h] \/ (row = req[r].row /\ req[r].row # NoRow)
  <2>1. CASE req[r].row # NoRow /\ req[r].row.expires > clock
    <3>1. PICK entries \in AfterSet(lru[g], req[r].row) : lru' = [lru EXCEPT ![g] = entries]
      BY <2>1 DEF Seed
    <3>2. entries \subseteq lru[g] \cup {req[r].row}
      BY <3>1, LruKeepsRows
    <3>3. g \in Processes
      BY <1>1, <1>2 DEF SoundRequest
    <3>4. req[r].row \in Rows
      BY <1>1, <2>1 DEF Reqs
    <3>5. lru' \in [Processes -> SUBSET Rows]
      BY <1>7, <3>1, <3>2, <3>3, <3>4
    <3> QED
      BY <1>7, <2>1, <3>1, <3>2, <3>3, <3>5
  <2>2. CASE ~(req[r].row # NoRow /\ req[r].row.expires > clock)
    <3>1. lru' = lru
      BY <2>2 DEF Seed
    <3> QED
      BY <1>7, <3>1
  <2> QED
    BY <2>1, <2>2
<1>9. TypeOK'
  BY <1>1, <1>6, <1>8 DEF IInv, TypeOK
<1>10. SoundCaches'
  <2>1. req[r].row # NoRow => SoundRow(req[r].row)
    BY <1>2 DEF SoundRequest
  <2> QED
    BY <1>1, <1>8, <2>1 DEF IInv, SoundCaches, SoundRow
<1>11. SoundRequest(r)'
  BY <1>1, <1>2, <1>4, <1>6 DEF SoundRequest, SoundRow
<1>12. ASSUME NEW x \in Requests, x # r PROVE SoundRequest(x)'
  BY <1>1, <1>6, <1>12, OthersStaySound DEF IInv, SoundRequests
<1> QED
  BY <1>9, <1>10, <1>11, <1>12 DEF IInv, SoundRequests

\* A classification computed now is cached under the request's own key, with
\* one lifetime from now, and the request goes on with it.
LEMMA CachedKeepsInv ==
    ASSUME IInv, NEW r \in Requests, NEW llm \in Answers \cup {NoAnswer},
           req[r].phase \in {"classifying", "asking"},
           llm = NoAnswer <=> IsStrong(req[r].input.text),
           Cached(r, llm), UNCHANGED <<pg, clock>>
    PROVE  IInv'
<1> DEFINE v == Value(r, llm)
           row == Row(KeyOf(r), v, clock + Ttl)
           g == req[r].proc
           q == [req[r] EXCEPT !.phase = "deciding", !.at = clock, !.value = v, !.write = row]
<1>1. req[r] \in Reqs /\ lru \in [Processes -> SUBSET Rows] /\ clock \in Nat
  BY DecisionAssumption DEF IInv, TypeOK
<1>2. SoundRequest(r) /\ req[r].input \in Inputs /\ g \in Processes
  BY DEF IInv, SoundRequests, SoundRequest
<1>3. /\ v \in Values /\ KeyOfValue(v) = KeyFor(req[r].input)
      /\ v.born = clock /\ v.llm = llm /\ v.text = req[r].input.text
      /\ KeyOf(r) = KeyFor(req[r].input) /\ KeyOf(r) \in Keys
  BY <1>2, ValueIsSound, KeyForType DEF IInv
<1> HIDE DEF v
<1>4. /\ row.key = KeyOf(r) /\ row.value = v /\ row.expires = clock + Ttl
      /\ row \in Rows
  BY <1>1, <1>3, DecisionAssumption DEF Row, Rows
<1>5. PICK entries \in AfterSet(lru[g], row) : lru' = [lru EXCEPT ![g] = entries]
  BY DEF Cached, v
<1>6. req' = [req EXCEPT ![r].phase = "deciding", ![r].at = clock,
                         ![r].value = v, ![r].write = row]
  BY <1>4 DEF Cached, Row, v
<1> HIDE DEF row
<1>7. q \in Reqs
  BY <1>1, <1>3, <1>4 DEF Reqs, Phases
<1>8. /\ q.phase = "deciding" /\ q.at = clock /\ q.value = v /\ q.write = row
      /\ q.input = req[r].input /\ q.proc = g /\ q.row = req[r].row
  BY <1>1 DEF Reqs
<1>9. req' = [req EXCEPT ![r] = q]
  BY <1>6 DEF IInv, TypeOK
<1> HIDE DEF q
<1>10. /\ req' \in [Requests -> Reqs] /\ req'[r] = q
       /\ \A x \in Requests : x # r => req'[x] = req[x]
  BY <1>7, <1>9, OneRequestTyped DEF IInv
<1>11. entries \subseteq lru[g] \cup {row}
  BY <1>5, LruKeepsRows
<1>12. TypeOK'
  BY <1>1, <1>2, <1>4, <1>5, <1>10, <1>11 DEF IInv, TypeOK
<1>13. SoundRow(row)
  BY <1>1, <1>3, <1>4, DecisionAssumption DEF SoundRow
<1>14. SoundCaches'
  <2>1. \A h \in Processes : \A x \in lru'[h] : x \in lru[h] \/ x = row
    BY <1>1, <1>2, <1>5, <1>11
  <2> QED
    BY <1>13, <2>1 DEF IInv, SoundCaches, SoundRow
<1>15. SoundRequest(r)'
  <2>1. /\ KeyOfValue(q.value) = KeyFor(q.input) /\ q.at - q.value.born < Ttl
        /\ q.value.llm # NoAnswer => ~IsStrong(q.input.text)
    BY <1>1, <1>3, <1>8, DecisionAssumption
  <2> QED
    BY <1>2, <1>3, <1>8, <1>10, <1>13, <2>1
       DEF SoundRequest, SoundRow, KeyOfValue, KeyFor, Key, IsStrong
<1>16. ASSUME NEW x \in Requests, x # r PROVE SoundRequest(x)'
  BY <1>10, <1>16, OthersStaySound DEF IInv, SoundRequests
<1> QED
  BY <1>12, <1>14, <1>15, <1>16 DEF IInv, SoundRequests

\* A hit, a strong flag, or the question to the model.
LEMMA ClassifyKeepsInv ==
    ASSUME IInv, NEW r \in Requests, Classify(r)
    PROVE  IInv'
<1> DEFINE g == req[r].proc
<1>1. /\ req[r].phase = "classifying" /\ req[r] \in Reqs /\ UNCHANGED <<pg, clock>>
      /\ lru \in [Processes -> SUBSET Rows] /\ clock \in Nat
  BY DecisionAssumption DEF Classify, IInv, TypeOK
<1>2. SoundRequest(r) /\ req[r].input \in Inputs /\ g \in Processes
  BY <1>1 DEF IInv, SoundRequests, SoundRequest
<1>3. KeyOf(r) = KeyFor(req[r].input)
  BY DEF KeyOf, KeyFor, Policy
<1>4. ASSUME NEW hit \in Fresh(lru[g], KeyOf(r)), UNCHANGED lru,
             req' = [req EXCEPT ![r].phase = "deciding", ![r].at = clock,
                                ![r].value = hit.value]
      PROVE  IInv'
  <2> DEFINE q == [req[r] EXCEPT !.phase = "deciding", !.at = clock, !.value = hit.value]
  <2>1. hit \in lru[g] /\ hit.key = KeyOf(r) /\ hit.expires > clock
    BY FreshIsSound
  <2>2. SoundRow(hit) /\ hit \in Rows
    BY <1>1, <1>2, <2>1 DEF IInv, SoundCaches
  <2>3. hit.value \in Values /\ hit.expires \in Nat
    BY <2>2 DEF Rows
  <2>4. q \in Reqs
    BY <1>1, <2>3 DEF Reqs, Phases
  <2>5. /\ q.phase = "deciding" /\ q.at = clock /\ q.value = hit.value
        /\ q.input = req[r].input /\ q.proc = g /\ q.row = req[r].row /\ q.write = req[r].write
    BY <1>1 DEF Reqs
  <2>6. req' = [req EXCEPT ![r] = q]
    BY <1>4 DEF IInv, TypeOK
  <2> HIDE DEF q
  <2>7. /\ req' \in [Requests -> Reqs] /\ req'[r] = q
        /\ \A x \in Requests : x # r => req'[x] = req[x]
    BY <2>4, <2>6, OneRequestTyped DEF IInv
  <2>8. TypeOK' /\ SoundCaches'
    BY <1>1, <1>4, <2>7 DEF IInv, TypeOK, SoundCaches, SoundRow
  <2>9. SoundRequest(r)'
    <3>1. KeyOfValue(q.value) = KeyFor(q.input) /\ q.value.text = q.input.text
      <4>1. KeyOfValue(hit.value) = KeyFor(req[r].input)
        BY <1>3, <2>1, <2>2 DEF SoundRow
      <4>2. hit.value.text = req[r].input.text
        BY <1>2, <2>3, <4>1, ClassOfKey
      <4> QED
        BY <2>5, <4>1, <4>2
    <3>2. q.at - q.value.born < Ttl
      <4>1. hit.value.born \in Nat
        BY <2>3 DEF Values
      <4> QED
        BY <1>1, <2>1, <2>2, <2>3, <2>5, <4>1, DecisionAssumption DEF SoundRow
    <3>3. q.value.llm # NoAnswer => ~IsStrong(q.input.text)
      BY <2>2, <2>5, <3>1 DEF SoundRow
    <3> QED
      BY <1>1, <1>2, <2>3, <2>5, <2>7, <3>1, <3>2, <3>3
         DEF SoundRequest, SoundRow, KeyOfValue, KeyFor, Key, IsStrong
  <2>10. ASSUME NEW x \in Requests, x # r PROVE SoundRequest(x)'
    BY <1>1, <2>7, <2>10, OthersStaySound DEF IInv, SoundRequests
  <2> QED
    BY <2>8, <2>9, <2>10 DEF IInv, SoundRequests
<1>5. ASSUME IsStrong(req[r].input.text), Cached(r, NoAnswer)
      PROVE  IInv'
  BY <1>1, <1>5, CachedKeepsInv
<1>6. ASSUME ~IsStrong(req[r].input.text), req' = [req EXCEPT ![r].phase = "asking"],
             lru' = [lru EXCEPT ![g] = AfterGet(@, KeyOf(r))]
      PROVE  IInv'
  <2> DEFINE q == [req[r] EXCEPT !.phase = "asking"]
  <2>1. q \in Reqs
    BY <1>1 DEF Reqs, Phases
  <2>2. /\ q.phase = "asking" /\ q.input = req[r].input /\ q.proc = g
        /\ q.row = req[r].row /\ q.write = req[r].write
    BY <1>1 DEF Reqs
  <2>3. req' = [req EXCEPT ![r] = q]
    BY <1>6 DEF IInv, TypeOK
  <2> HIDE DEF q
  <2>4. /\ req' \in [Requests -> Reqs] /\ req'[r] = q
        /\ \A x \in Requests : x # r => req'[x] = req[x]
    BY <2>1, <2>3, OneRequestTyped DEF IInv
  <2>5. \A h \in Processes : lru'[h] \subseteq lru[h]
    BY <1>1, <1>6, LruKeepsRows
  <2>6. lru' \in [Processes -> SUBSET Rows]
    <3>1. lru[g] \in SUBSET Rows
      BY <1>1, <1>2
    <3>2. AfterGet(lru[g], KeyOf(r)) \subseteq lru[g]
      BY LruKeepsRows
    <3> QED
      BY <1>1, <1>6, <3>1, <3>2
  <2>7. TypeOK' /\ SoundCaches'
    BY <1>1, <2>4, <2>5, <2>6 DEF IInv, TypeOK, SoundCaches, SoundRow
  <2>8. SoundRequest(r)'
    BY <1>1, <1>2, <1>6, <2>2, <2>4 DEF SoundRequest, SoundRow, IsStrong
  <2>9. ASSUME NEW x \in Requests, x # r PROVE SoundRequest(x)'
    BY <1>1, <2>4, <2>9, OthersStaySound DEF IInv, SoundRequests
  <2> QED
    BY <2>7, <2>8, <2>9 DEF IInv, SoundRequests
<1> QED
  BY <1>4, <1>5, <1>6 DEF Classify, IsStrong

\* The model answers in time, or the request goes on without it.
LEMMA LlmKeepsInv ==
    ASSUME IInv, NEW r \in Requests,
           (\E answer \in Answers : LlmAnswers(r, answer)) \/ LlmFails(r)
    PROVE  IInv'
<1>1. CASE \E answer \in Answers : LlmAnswers(r, answer)
  <2>1. PICK answer \in Answers : LlmAnswers(r, answer)
    BY <1>1
  <2>2. req[r].phase = "asking" /\ Cached(r, answer) /\ UNCHANGED <<pg, clock>>
    BY <2>1 DEF LlmAnswers
  <2>3. ~IsStrong(req[r].input.text)
    BY <2>2 DEF IInv, SoundRequests, SoundRequest
  <2>4. answer # NoAnswer
    BY DecisionAssumption
  <2> QED
    BY <2>2, <2>3, <2>4, CachedKeepsInv
<1>2. CASE LlmFails(r)
  <2> DEFINE v == Value(r, NoAnswer)
             q == [req[r] EXCEPT !.phase = "deciding", !.at = clock, !.value = v]
  <2>1. /\ req[r].phase = "asking" /\ req[r] \in Reqs /\ UNCHANGED <<lru, pg, clock>>
        /\ clock \in Nat
        /\ req' = [req EXCEPT ![r].phase = "deciding", ![r].at = clock, ![r].value = v]
    BY <1>2, DecisionAssumption DEF LlmFails, Uncached, IInv, TypeOK
  <2>2. SoundRequest(r) /\ req[r].input \in Inputs
    BY <2>1 DEF IInv, SoundRequests, SoundRequest
  <2>3. /\ v \in Values /\ KeyOfValue(v) = KeyFor(req[r].input)
        /\ v.born = clock /\ v.llm = NoAnswer
    BY <2>2, ValueIsSound DEF IInv
  <2> HIDE DEF v
  <2>4. q \in Reqs
    BY <2>1, <2>3 DEF Reqs, Phases
  <2>5. /\ q.phase = "deciding" /\ q.at = clock /\ q.value = v /\ q.input = req[r].input
        /\ q.proc = req[r].proc /\ q.row = req[r].row /\ q.write = req[r].write
    BY <2>1 DEF Reqs
  <2>6. req' = [req EXCEPT ![r] = q]
    BY <2>1 DEF IInv, TypeOK
  <2> HIDE DEF q
  <2>7. /\ req' \in [Requests -> Reqs] /\ req'[r] = q
        /\ \A x \in Requests : x # r => req'[x] = req[x]
    BY <2>4, <2>6, OneRequestTyped DEF IInv
  <2>8. TypeOK' /\ SoundCaches'
    BY <2>1, <2>7 DEF IInv, TypeOK, SoundCaches, SoundRow
  <2>9. SoundRequest(r)'
    <3>1. q.at - q.value.born < Ttl
      BY <2>1, <2>3, <2>5, DecisionAssumption
    <3>2. KeyOfValue(q.value) = KeyFor(q.input) /\ q.value.llm = NoAnswer
      BY <2>3, <2>5
    <3>3. /\ q.row # NoRow => SoundRow(q.row)
          /\ q.write # NoRow => SoundRow(q.write)
          /\ q.input \in Inputs /\ q.proc \in Processes /\ q.value \in Values
      BY <2>1, <2>2, <2>3, <2>5 DEF SoundRequest
    <3> QED
      BY <2>1, <2>5, <2>7, <3>1, <3>2, <3>3
         DEF SoundRequest, SoundRow, KeyOfValue, KeyFor, Key, IsStrong
  <2>10. ASSUME NEW x \in Requests, x # r PROVE SoundRequest(x)'
    BY <2>1, <2>7, <2>10, OthersStaySound DEF IInv, SoundRequests
  <2> QED
    BY <2>8, <2>9, <2>10 DEF IInv, SoundRequests
<1> QED
  BY <1>1, <1>2

\* The row the request computed reaches the table, or does not.
LEMMA WritePgKeepsInv ==
    ASSUME IInv, NEW r \in Requests, WritePg(r)
    PROVE  IInv'
<1> DEFINE row == req[r].write
           q == [req[r] EXCEPT !.write = NoRow]
<1>1. /\ row # NoRow /\ req[r] \in Reqs /\ UNCHANGED <<lru, clock>>
      /\ req' = [req EXCEPT ![r].write = NoRow]
      /\ pg' \subseteq pg \cup {row}
  BY DEF WritePg, IInv, TypeOK
<1>2. SoundRequest(r)
  BY DEF IInv, SoundRequests
<1>3. row \in Rows /\ SoundRow(row)
  BY <1>1, <1>2 DEF Reqs, SoundRequest
<1>4. q \in Reqs
  BY <1>1 DEF Reqs
<1>5. /\ q.phase = req[r].phase /\ q.at = req[r].at /\ q.value = req[r].value
      /\ q.input = req[r].input /\ q.proc = req[r].proc /\ q.row = req[r].row
      /\ q.write = NoRow
  BY <1>1 DEF Reqs
<1>6. req' = [req EXCEPT ![r] = q]
  BY <1>1 DEF IInv, TypeOK
<1> HIDE DEF q
<1>7. /\ req' \in [Requests -> Reqs] /\ req'[r] = q
      /\ \A x \in Requests : x # r => req'[x] = req[x]
  BY <1>4, <1>6, OneRequestTyped DEF IInv
<1>8. TypeOK'
  BY <1>1, <1>3, <1>7 DEF IInv, TypeOK
<1>9. SoundCaches'
  BY <1>1, <1>3 DEF IInv, SoundCaches, SoundRow
<1>10. SoundRequest(r)'
  BY <1>1, <1>2, <1>5, <1>7 DEF SoundRequest, SoundRow, KeyOfValue, KeyFor, Key, IsStrong
<1>11. ASSUME NEW x \in Requests, x # r PROVE SoundRequest(x)'
  BY <1>1, <1>7, <1>11, OthersStaySound DEF IInv, SoundRequests
<1> QED
  BY <1>8, <1>9, <1>10, <1>11 DEF IInv, SoundRequests

\* The engine's verdict changes nothing but the phase.
LEMMA EvaluateKeepsInv ==
    ASSUME IInv, NEW r \in Requests, Evaluate(r)
    PROVE  IInv'
<1> DEFINE q == [req[r] EXCEPT !.phase = "done"]
<1>1. /\ req[r].phase = "deciding" /\ req[r] \in Reqs /\ UNCHANGED <<lru, pg, clock>>
      /\ req' = [req EXCEPT ![r].phase = "done"]
  BY DEF Evaluate, IInv, TypeOK
<1>2. SoundRequest(r)
  BY DEF IInv, SoundRequests
<1>3. q \in Reqs
  BY <1>1 DEF Reqs, Phases
<1>4. /\ q.phase = "done" /\ q.at = req[r].at /\ q.value = req[r].value
      /\ q.input = req[r].input /\ q.proc = req[r].proc /\ q.row = req[r].row
      /\ q.write = req[r].write
  BY <1>1 DEF Reqs
<1>5. req' = [req EXCEPT ![r] = q]
  BY <1>1 DEF IInv, TypeOK
<1> HIDE DEF q
<1>6. /\ req' \in [Requests -> Reqs] /\ req'[r] = q
      /\ \A x \in Requests : x # r => req'[x] = req[x]
  BY <1>3, <1>5, OneRequestTyped DEF IInv
<1>7. TypeOK' /\ SoundCaches'
  BY <1>1, <1>6 DEF IInv, TypeOK, SoundCaches, SoundRow
<1>8. SoundRequest(r)'
  BY <1>1, <1>2, <1>4, <1>6 DEF SoundRequest, SoundRow, KeyOfValue, KeyFor, Key, IsStrong
<1>9. ASSUME NEW x \in Requests, x # r PROVE SoundRequest(x)'
  BY <1>1, <1>6, <1>9, OthersStaySound DEF IInv, SoundRequests
<1> QED
  BY <1>7, <1>8, <1>9 DEF IInv, SoundRequests

\* A process dies and takes its entries and its requests with it.
LEMMA RestartKeepsInv ==
    ASSUME IInv, NEW g \in Processes, Restart(g)
    PROVE  IInv'
<1> DEFINE lost == [NewRequest EXCEPT !.phase = "lost"]
<1>1. /\ lost \in Reqs /\ lost.phase = "lost" /\ lost.row = NoRow /\ lost.write = NoRow
  BY DEF NewRequest, Reqs, Phases
<1> HIDE DEF lost
<1>2. /\ lru' = [lru EXCEPT ![g] = {}] /\ UNCHANGED <<pg, clock>>
      /\ req' = [r \in Requests |->
             IF req[r].proc = g /\ req[r].phase # "done" THEN lost ELSE req[r]]
  BY DEF Restart, lost
<1>3. \A r \in Requests : req'[r] = lost \/ req'[r] = req[r]
  BY <1>2
<1>4. TypeOK'
  BY <1>1, <1>2 DEF IInv, TypeOK
<1>5. SoundCaches'
  BY <1>2 DEF IInv, TypeOK, SoundCaches, SoundRow
<1>6. ASSUME NEW r \in Requests PROVE SoundRequest(r)'
  <2>1. CASE req'[r] = lost
    BY <1>1, <2>1 DEF SoundRequest
  <2>2. CASE req'[r] = req[r]
    BY <1>2, <2>2, OthersStaySound DEF IInv, SoundRequests
  <2> QED
    BY <1>3, <2>1, <2>2
<1> QED
  BY <1>4, <1>5, <1>6 DEF IInv, SoundRequests

\* Time passes: rows get older, no request does.
LEMMA TickKeepsInv ==
    ASSUME IInv, Tick
    PROVE  IInv'
<1>1. /\ clock \in 0..LastTime /\ clock < LastTime /\ clock' = clock + 1
      /\ UNCHANGED <<lru, pg, req>> /\ LastTime \in Nat
  BY DecisionAssumption DEF Tick, IInv, TypeOK
<1>2. TypeOK'
  BY <1>1 DEF IInv, TypeOK
<1>3. ASSUME NEW row \in Rows, SoundRow(row) PROVE SoundRow(row)'
  <2>1. row.value.born \in Nat
    BY DEF Rows, Values
  <2> QED
    BY <1>1, <1>3, <2>1 DEF SoundRow
<1>4. SoundCaches'
  BY <1>1, <1>3 DEF IInv, TypeOK, SoundCaches
<1>5. ASSUME NEW r \in Requests PROVE SoundRequest(r)'
  <2>1. SoundRequest(r) /\ req[r] \in Reqs
    BY DEF IInv, TypeOK, SoundRequests
  <2>2. req[r].row \in Rows \cup {NoRow} /\ req[r].write \in Rows \cup {NoRow}
    BY <2>1 DEF Reqs
  <2>3. /\ req[r].row # NoRow => SoundRow(req[r].row)'
        /\ req[r].write # NoRow => SoundRow(req[r].write)'
    <3>1. \A row \in Rows : SoundRow(row) => SoundRow(row)'
      BY <1>3
    <3> QED
      BY <1>1, <2>1, <2>2, <3>1 DEF SoundRequest, SoundRow
  <2> QED
    BY <1>1, <2>1, <2>3 DEF SoundRequest, SoundRow, KeyOfValue, KeyFor, Key, IsStrong
<1> QED
  BY <1>2, <1>4, <1>5 DEF IInv, SoundRequests

\* Initially nothing is cached and nothing has arrived.
LEMMA InitInv == Init => IInv
<1> SUFFICES ASSUME Init PROVE IInv
  OBVIOUS
<1>1. NewRequest \in Reqs /\ NewRequest.phase = "new"
      /\ NewRequest.row = NoRow /\ NewRequest.write = NoRow
  BY DEF NewRequest, Reqs, Phases
<1>2. 0 \in 0..LastTime
  BY DecisionAssumption
<1> QED
  BY <1>1, <1>2 DEF Init, IInv, TypeOK, SoundCaches, SoundRequests, SoundRequest

\* Every step keeps the invariant.
LEMMA NextInv == IInv /\ [Next]_vars => IInv'
<1> SUFFICES ASSUME IInv, [Next]_vars PROVE IInv'
  OBVIOUS
<1>1. ASSUME NEW r \in Requests, Step(r) PROVE IInv'
  BY <1>1, ReceiveKeepsInv, ReadPgKeepsInv, SeedKeepsInv, ClassifyKeepsInv, LlmKeepsInv,
     WritePgKeepsInv, EvaluateKeepsInv DEF Step
<1>2. CASE UNCHANGED vars
  BY <1>2 DEF vars, IInv, TypeOK, SoundCaches, SoundRequests, SoundRequest, SoundRow,
     KeyOfValue, KeyFor, Key, IsStrong
<1> QED
  BY <1>1, <1>2, RestartKeepsInv, TickKeepsInv DEF Next

\* The caches and the requests stay sound.
THEOREM Invariance == Spec => []IInv
BY InitInv, NextInv, PTL DEF Spec

-----------------------------------------------------------------------------
(* What the invariant gives.                                               *)

\* A request that is done has a typed input and a sound value.
LEMMA DoneIsSound ==
    ASSUME IInv, NEW r \in Done
    PROVE  /\ req[r].input \in Inputs /\ req[r].value \in Values
           /\ KeyOfValue(req[r].value) = KeyFor(req[r].input)
           /\ req[r].value.llm \in Classifications \cup {NoAnswer}
           /\ Policy(r) = MergeOverrides(StoredPolicy[req[r].input.app], req[r].input.override)
           /\ Class(req[r].value) = Classified(Rules(r), req[r].value.llm, Policy(r))
           /\ Class(req[r].value) \in Classifications
           /\ Stored(r) \in Policies
<1>1. /\ req[r].input \in Inputs /\ req[r].value \in Values
      /\ KeyOfValue(req[r].value) = KeyFor(req[r].input)
  BY DEF Done, IInv, SoundRequests, SoundRequest
<1>2. req[r].value.llm \in Classifications \cup {NoAnswer}
  BY <1>1, DecisionAssumption DEF Values
<1>3. Class(req[r].value) = Classified(Rules(r), req[r].value.llm, Policy(r))
  BY <1>1, ClassOfKey DEF Rules, Policy
<1>4. Rules(r) \in RulesResults
  BY <1>1, DecisionAssumption DEF Rules
<1>5. Policy(r) \in Policies
  BY <1>1, KeyForType DEF Policy
<1>6. Policy(r).min_confidence \in Nat
  BY <1>5 DEF Policies
<1>7. Class(req[r].value) \in Classifications
  BY <1>2, <1>3, <1>4, <1>6, ClassifiedType
<1>8. Stored(r) \in Policies
  BY <1>1, DecisionAssumption DEF Stored, ValidPolicy
<1> QED
  BY <1>1, <1>2, <1>3, <1>7, <1>8 DEF Policy

\* Requests, caches and clock stay well formed.
THEOREM TypeCorrect == Spec => []TypeOK
BY Invariance, PTL DEF IInv

\* A turn is judged on a classification of its own text, app and policy.
THEOREM AnswersFit == Spec => []AnswerFitsRequest
<1>1. IInv => AnswerFitsRequest
  <2> SUFFICES ASSUME IInv, NEW r \in Done
               PROVE  /\ req[r].value.app = req[r].input.app
                      /\ Class(req[r].value) = Classified(Rules(r), req[r].value.llm, Policy(r))
    BY DEF AnswerFitsRequest
  <2>1. /\ req[r].input \in Inputs /\ req[r].value \in Values
        /\ KeyOfValue(req[r].value) = KeyFor(req[r].input)
    BY DoneIsSound
  <2> QED
    BY <2>1, DoneIsSound, ClassOfKey
<1> QED
  BY <1>1, Invariance, PTL

\* No turn is judged on an answer older than the cache's lifetime.
THEOREM AnswersAreFresh == Spec => []NoStaleAnswer
<1>1. IInv => NoStaleAnswer
  BY DEF IInv, SoundRequests, SoundRequest, NoStaleAnswer, Done
<1> QED
  BY <1>1, Invariance, PTL

\* Neither tier ever holds a fallback.
THEOREM FallbacksStayOut == Spec => []FallbackNotCached
<1>1. IInv => FallbackNotCached
  BY DEF IInv, SoundCaches, SoundRow, FallbackNotCached, IsStrong
<1> QED
  BY <1>1, Invariance, PTL

\* A turn in which the rules or the model saw self_harm carries no ad.
THEOREM SelfHarmNeverServed == Spec => []NeverServesSelfHarm
<1>1. IInv => NeverServesSelfHarm
  <2> SUFFICES ASSUME IInv, NEW r \in Done, MayServe(r)
               PROVE  /\ "self_harm" \notin Rules(r).sensitive
                      /\ req[r].value.llm # NoAnswer =>
                             "self_harm" \notin req[r].value.llm.sensitive
    BY DEF NeverServesSelfHarm
  <2>1. Class(req[r].value) = Classified(Rules(r), req[r].value.llm, Policy(r))
    BY DoneIsSound
  <2>2. "self_harm" \notin Class(req[r].value).sensitive
    BY SelfHarmIsBlocked DEF MayServe
  <2>3. req[r].value.llm # NoAnswer => Rules(r).strong = {}
    BY DEF IInv, SoundRequests, SoundRequest, Done, IsStrong, Rules
  <2> QED
    BY <2>1, <2>2, <2>3, SelfHarmStays
<1> QED
  BY <1>1, Invariance, PTL

\* No override lets a turn through the engine that the stored policy stops.
THEOREM OverridesTightenEngine == Spec => []EngineOnlyTightens
<1>1. IInv => EngineOnlyTightens
  <2> SUFFICES ASSUME IInv, NEW r \in Done, MayServe(r)
               PROVE  Allowed(Stored(r), Class(req[r].value), req[r].input.user,
                              req[r].input.state)
    BY DEF EngineOnlyTightens
  <2>1. /\ req[r].input \in Inputs /\ Stored(r) \in Policies
        /\ Class(req[r].value) \in Classifications
        /\ Policy(r) = MergeOverrides(Stored(r), req[r].input.override)
    BY DoneIsSound DEF Stored
  <2>2. req[r].input.override \in Policies /\ req[r].input.state \in CapStates
    BY <2>1, DecisionAssumption
  <2>3. Class(req[r].value).confidence \in Nat /\ Class(req[r].value).intent \in Nat
    BY <2>1 DEF Classifications
  <2> QED
    BY <2>1, <2>2, <2>3, MergeTightensEngine DEF MayServe
<1> QED
  BY <1>1, Invariance, PTL

-----------------------------------------------------------------------------
(***************************************************************************)
(* The adapters, the diagnosis and the click agree on a creative, for any  *)
(* policies, creatives, networks, asks and size of the loader's cache.     *)
(* The loader answers with the policy it was asked for, because what it    *)
(* keeps is kept under itself; so the policy a turn is judged under is the *)
(* one of the app row it read (JudgedUnder), and a served turn remembers   *)
(* an entry of that policy which offered its creative (OfferedBy).         *)
(***************************************************************************)
AppRows == [policy: OfferPolicies, accounts: SUBSET Networks]

OfferedBy(read, ask, row, link) ==
    \E entry \in Enabled(Effective(read.policy, ask)) : Offers(entry, row, link, ask, read.accounts)

JudgedUnder(t) ==
    /\ turn[t].phase \in {"received", "judging", "served"} =>
           turn[t].app \in AppRows /\ turn[t].ask \in Asks
    /\ turn[t].phase = "judging" => turn[t].policy = Effective(turn[t].app.policy, turn[t].ask)
    /\ turn[t].phase = "served" => OfferedBy(turn[t].app, turn[t].ask, turn[t].row, turn[t].link)

DeliveryInv ==
    /\ app \in AppRows /\ catalogue \in [CreativeIds -> CreativeRows]
    /\ \A entry \in parsed : entry.key = entry.policy
    /\ DOMAIN turn = Slots
    /\ \A t \in Slots : JudgedUnder(t)

\* What a request leaves of the demand was enabled in the stored policy.
LEMMA OverridesOnlyDisable ==
    ASSUME NEW policy \in OfferPolicies, NEW ask, NEW entry \in Enabled(Effective(policy, ask))
    PROVE  \E stored \in Enabled(policy) :
               stored.source = entry.source /\ stored.network = entry.network
<1>1. PICK i \in DOMAIN Effective(policy, ask).demand :
          /\ Effective(policy, ask).demand[i].enabled
          /\ entry = Effective(policy, ask).demand[i]
  BY DEF Enabled
<1>2. Effective(policy, ask).demand = MergeDemand(policy.demand, ask.off)
  BY DEF Effective
<1>3. i \in DOMAIN policy.demand
  BY <1>1, <1>2 DEF MergeDemand
<1>4. policy.demand[i] \in DemandEntries
  BY <1>3, DeliveryAssumption
<1>5. entry = [policy.demand[i] EXCEPT !.enabled =
                  @ /\ ~ \E off \in ask.off : Matches(policy.demand[i], off)]
  BY <1>1, <1>2, <1>3 DEF MergeDemand
<1>6. /\ entry.source = policy.demand[i].source /\ entry.network = policy.demand[i].network
      /\ entry.enabled = (policy.demand[i].enabled
                             /\ ~ \E off \in ask.off : Matches(policy.demand[i], off))
  BY <1>4, <1>5 DEF DemandEntries
<1>7. policy.demand[i].enabled
  BY <1>1, <1>6
<1> QED BY <1>3, <1>6, <1>7 DEF Enabled

\* A category blocked as sensitive is over no target of a served creative.
LEMMA ServedTargetIsFree ==
    ASSUME NEW row \in CreativeRows, NEW ask \in Asks, MatchScore(row, ask),
           NEW policy, policy.blocked \subseteq Sensitive
    PROVE  \E target \in row.targets : ~IsBlockedCategory(target, policy)
<1>1. PICK target \in row.targets, category \in ask.categories : MatchesTarget(target, category)
  BY DEF MatchScore
<1>2. category \in Categories
  BY DeliveryAssumption
<1>3. target.base \in DOMAIN Beneath
  BY DeliveryAssumption
<1>4. ASSUME NEW s \in Sensitive PROVE target.base # s /\ target.base \notin Beneath[s]
  <2>1. s \notin Categories /\ Beneath[s] \cap Categories = {} /\ s \in DOMAIN Beneath
    BY DeliveryAssumption
  <2>2. target.base \in Beneath[s] => Beneath[target.base] \subseteq Beneath[s]
    BY <1>3, <2>1, DeliveryAssumption
  <2> QED BY <1>1, <1>2, <2>1, <2>2 DEF MatchesTarget
<1> QED BY <1>4 DEF IsBlockedCategory

\* An offer under what a request left of a policy is deliverable under any
\* policy that enables as much, allows the region and blocks only what is
\* sensitive.
LEMMA OfferIsDeliverable ==
    ASSUME NEW row \in CreativeRows, NEW ask \in Asks, NEW link, NEW accounts, NEW entry,
           Offers(entry, row, link, ask, accounts),
           NEW policy, policy.blocked \subseteq Sensitive,
           \E e \in Enabled(policy) : e.source = entry.source /\ e.network = entry.network,
           ask.region \in ExpandRegions(policy.regions)
    PROVE  CreativeDeliverability(row, policy, accounts)
<1>1. row.active /\ row.source = entry.source /\ MatchScore(row, ask)
  BY DEF Offers, MatchScore
<1>2. row.source \in EnabledSources(policy)
  BY <1>1 DEF EnabledSources
<1>3. row.source = "affiliate" => AffiliateReady(row, policy, accounts)
  <2> SUFFICES ASSUME row.source = "affiliate" PROVE AffiliateReady(row, policy, accounts)
    OBVIOUS
  <2>1. row.network \in {NoNetwork, entry.network} /\ entry.network \in accounts
    BY DEF Offers, Builds
  <2>2. entry.network \in EnabledNetworks(policy)
    BY <1>1 DEF EnabledNetworks
  <2> QED BY <2>1, <2>2 DEF AffiliateReady, NetworksFor
<1>4. ServesSomeAllowedRegion(row, policy)
  BY <1>1 DEF ServesSomeAllowedRegion, MatchScore, ServesRegion
<1>5. \E target \in row.targets : ~IsBlockedCategory(target, policy)
  BY <1>1, ServedTargetIsFree
<1> QED BY <1>1, <1>2, <1>3, <1>4, <1>5 DEF CreativeDeliverability

LEMMA ServesAreDiagnosed ==
    ASSUME DeliveryInv, NEW t \in Slots, NEW c \in CreativeIds, NEW link, Serve(t, c, link)
    PROVE  /\ OfferedBy(turn[t].app, turn[t].ask, catalogue[c], link)
           /\ CreativeDeliverability(catalogue[c], turn[t].app.policy, turn[t].app.accounts)
           /\ CreativeDeliverability(catalogue[c], Effective(turn[t].app.policy, turn[t].ask),
                                     turn[t].app.accounts)
<1> DEFINE read == turn[t].app
           ask == turn[t].ask
           row == catalogue[c]
           policy == Effective(read.policy, ask)
<1>1. /\ read \in AppRows /\ ask \in Asks /\ row \in CreativeRows
      /\ turn[t].policy = policy
  BY DEF Serve, DeliveryInv, JudgedUnder
<1>2. read.policy \in OfferPolicies
  BY <1>1 DEF AppRows
<1> HIDE DEF read, ask, row
<1>3. PICK entry \in Enabled(policy) : Offers(entry, row, link, ask, read.accounts)
  BY <1>1 DEF Serve, read, ask, row
<1>4. RegionAllowed(policy, ask)
  BY <1>1 DEF Serve, read, ask
<1>5. read.policy.blocked \subseteq Sensitive /\ policy.blocked \subseteq Sensitive
  BY <1>1, <1>2, DeliveryAssumption DEF Effective
<1>6. policy.regions \in {read.policy.regions, MergedRegions(read.policy, ask)}
  BY DEF Effective
<1>7. ask.region \in ExpandRegions(policy.regions) /\ ask.region \in ExpandRegions(read.policy.regions)
  BY <1>4, <1>6, RegionsTighten DEF RegionAllowed
<1>8. \E e \in Enabled(read.policy) : e.source = entry.source /\ e.network = entry.network
  BY <1>2, OverridesOnlyDisable
<1> HIDE DEF policy
<1>9. CreativeDeliverability(row, policy, read.accounts)
  BY <1>1, <1>3, <1>5, <1>7, OfferIsDeliverable
<1>10. CreativeDeliverability(row, read.policy, read.accounts)
  BY <1>1, <1>3, <1>5, <1>7, <1>8, OfferIsDeliverable
<1> QED BY <1>3, <1>9, <1>10 DEF OfferedBy, read, ask, row, policy

-----------------------------------------------------------------------------
\* The loader's answer is what was asked for, and what it keeps stays so.
LEMMA LoaderIsTrue ==
    ASSUME \A entry \in parsed : entry.key = entry.policy, NEW policy
    PROVE  /\ Loaded(policy) = policy
           /\ Load(policy) => \A entry \in parsed' : entry.key = entry.policy
<1>1. Loaded(policy) = policy
  <2> DEFINE hits == {entry \in parsed : entry.key = LoaderKey(policy)}
  <2>1. \A entry \in hits : entry.policy = policy
    BY DEF LoaderKey
  <2>2. hits # {} => (CHOOSE entry \in hits : TRUE) \in hits
    OBVIOUS
  <2> HIDE DEF hits
  <2>3. hits # {} => (CHOOSE entry \in hits : TRUE).policy = policy
    BY <2>1, <2>2
  <2> QED BY <2>3 DEF Loaded, hits
<1>2. ASSUME Load(policy) PROVE \A entry \in parsed' : entry.key = entry.policy
  <2> DEFINE new == [key |-> LoaderKey(policy), policy |-> policy]
  <2>1. new.key = new.policy
    BY DEF LoaderKey
  <2>2. parsed' \subseteq parsed \cup {new}
    BY <1>2 DEF Load
  <2> QED BY <2>1, <2>2
<1> QED BY <1>1, <1>2

\* One turn changes, and the others are as they were.
LEMMA OneTurnChanges ==
    ASSUME DeliveryInv, NEW t \in Slots, NEW r, turn' = [turn EXCEPT ![t] = r]
    PROVE  /\ DOMAIN turn' = Slots /\ turn'[t] = r
           /\ JudgedUnder(t)' => \A u \in Slots : JudgedUnder(u)'
<1>1. DOMAIN turn' = Slots /\ turn'[t] = r /\ \A u \in Slots \ {t} : turn'[u] = turn[u]
  BY DEF DeliveryInv
<1>2. \A u \in Slots \ {t} : JudgedUnder(u)'
  BY <1>1 DEF DeliveryInv, JudgedUnder, OfferedBy
<1> QED BY <1>1, <1>2

LEMMA DeliveryInitHolds == DeliveryInit => DeliveryInv
BY DEF DeliveryInit, DeliveryInv, JudgedUnder, NewTurn, AppRows

LEMMA TurnKeeps ==
    ASSUME DeliveryInv, NEW t \in Slots,
           \/ \E ask \in Asks : BeginTurn(t, ask)
           \/ LoadPolicy(t) \/ Suppress(t) \/ Click(t)
           \/ \E c \in CreativeIds, link \in Links : Serve(t, c, link)
    PROVE  DeliveryInv'
<1>0. app' = app /\ catalogue' = catalogue
  BY DEF BeginTurn, LoadPolicy, Suppress, Click, Serve
<1>1. app' \in AppRows /\ catalogue' \in [CreativeIds -> CreativeRows]
  BY <1>0 DEF DeliveryInv
<1>2. CASE \E ask \in Asks : BeginTurn(t, ask)
  <2>1. PICK ask \in Asks : BeginTurn(t, ask)
    BY <1>2
  <2>2. turn' = [turn EXCEPT ![t] = [phase |-> "received", app |-> app, ask |-> ask]] /\ parsed' = parsed
    BY <2>1 DEF BeginTurn
  <2>3. DOMAIN turn' = Slots /\ turn'[t] = [phase |-> "received", app |-> app, ask |-> ask]
    BY <2>2 DEF DeliveryInv
  <2>4. JudgedUnder(t)'
    BY <2>3 DEF JudgedUnder, DeliveryInv
  <2> QED BY <1>1, <2>2, <2>3, <2>4, OneTurnChanges DEF DeliveryInv
<1>3. CASE LoadPolicy(t)
  <2> DEFINE r == [phase |-> "judging", app |-> turn[t].app, ask |-> turn[t].ask,
                   policy |-> Effective(Loaded(turn[t].app.policy), turn[t].ask)]
  <2>1. /\ turn[t].phase = "received" /\ turn' = [turn EXCEPT ![t] = r]
        /\ Load(turn[t].app.policy)
    BY <1>3 DEF LoadPolicy, DeliveryInv
  <2>2. Loaded(turn[t].app.policy) = turn[t].app.policy /\ \A entry \in parsed' : entry.key = entry.policy
    BY <2>1, LoaderIsTrue DEF DeliveryInv
  <2>3. turn[t].app \in AppRows /\ turn[t].ask \in Asks
    BY <2>1 DEF DeliveryInv, JudgedUnder
  <2>4. DOMAIN turn' = Slots /\ turn'[t] = r
    BY <2>1 DEF DeliveryInv
  <2>5. JudgedUnder(t)'
    BY <2>2, <2>3, <2>4 DEF JudgedUnder
  <2> HIDE DEF r
  <2> QED BY <1>1, <2>1, <2>2, <2>4, <2>5, OneTurnChanges DEF DeliveryInv
<1>4. CASE Suppress(t)
  <2>1. turn' = [turn EXCEPT ![t] = [phase |-> "unfilled"]] /\ parsed' = parsed
    BY <1>4 DEF Suppress
  <2>2. DOMAIN turn' = Slots /\ turn'[t] = [phase |-> "unfilled"]
    BY <2>1 DEF DeliveryInv
  <2>3. JudgedUnder(t)'
    BY <2>2 DEF JudgedUnder
  <2> QED BY <1>1, <2>1, <2>2, <2>3, OneTurnChanges DEF DeliveryInv
<1>5. CASE Click(t)
  <2>1. PICK location : turn' = [turn EXCEPT ![t] = [phase |-> "clicked", location |-> location]]
    BY <1>5 DEF Click
  <2>2. DOMAIN turn' = Slots /\ turn'[t] = [phase |-> "clicked", location |-> location]
    BY <2>1 DEF DeliveryInv
  <2>3. JudgedUnder(t)'
    BY <2>2 DEF JudgedUnder
  <2>4. \A entry \in parsed' : entry.key = entry.policy
    BY <1>5, LoaderIsTrue DEF Click, DeliveryInv
  <2> QED BY <1>1, <2>1, <2>2, <2>3, <2>4, OneTurnChanges DEF DeliveryInv
<1>6. CASE \E c \in CreativeIds, link \in Links : Serve(t, c, link)
  <2>1. PICK c \in CreativeIds, link \in Links : Serve(t, c, link)
    BY <1>6
  <2> DEFINE r == [phase |-> "served", app |-> turn[t].app, ask |-> turn[t].ask,
                   creative |-> c, row |-> catalogue[c], link |-> link]
  <2>2. turn[t].phase = "judging" /\ turn' = [turn EXCEPT ![t] = r] /\ parsed' = parsed
    BY <2>1 DEF Serve, DeliveryInv
  <2>3. turn[t].app \in AppRows /\ turn[t].ask \in Asks
    BY <2>2 DEF DeliveryInv, JudgedUnder
  <2>4. OfferedBy(turn[t].app, turn[t].ask, catalogue[c], link)
    BY <2>1, ServesAreDiagnosed
  <2>5. DOMAIN turn' = Slots /\ turn'[t] = r
    BY <2>2 DEF DeliveryInv
  <2>6. JudgedUnder(t)'
    BY <2>3, <2>4, <2>5 DEF JudgedUnder, OfferedBy
  <2> HIDE DEF r
  <2> QED BY <1>1, <2>2, <2>5, <2>6, OneTurnChanges DEF DeliveryInv
<1> QED BY <1>2, <1>3, <1>4, <1>5, <1>6

LEMMA DeliveryStepKeeps == DeliveryInv /\ [DeliveryNext]_deliveryVars => DeliveryInv'
<1> SUFFICES ASSUME DeliveryInv, [DeliveryNext]_deliveryVars PROVE DeliveryInv'
  OBVIOUS
<1>1. CASE UNCHANGED deliveryVars
  BY <1>1 DEF deliveryVars, DeliveryInv, JudgedUnder, OfferedBy
<1>2. ASSUME NEW policy \in OfferPolicies, SavePolicy(policy) PROVE DeliveryInv'
  BY <1>2 DEF SavePolicy, DeliveryInv, JudgedUnder, OfferedBy, AppRows
<1>3. ASSUME NEW accounts \in SUBSET Networks, SetAffiliateConfig(accounts) PROVE DeliveryInv'
  BY <1>3 DEF SetAffiliateConfig, DeliveryInv, JudgedUnder, OfferedBy, AppRows
<1>4. ASSUME NEW c \in CreativeIds, NEW row \in CreativeRows, SaveCreative(c, row) PROVE DeliveryInv'
  BY <1>4 DEF SaveCreative, DeliveryInv, JudgedUnder, OfferedBy
<1>5. CASE RestartLoader
  <2>1. /\ parsed' = {} /\ app' = app /\ catalogue' = catalogue /\ DOMAIN turn' = Slots
        /\ \A t \in Slots : turn'[t] = NewTurn \/ turn'[t] = turn[t]
    BY <1>5 DEF RestartLoader
  <2>2. ASSUME NEW t \in Slots PROVE JudgedUnder(t)'
    BY <2>1, <2>2 DEF JudgedUnder, DeliveryInv, OfferedBy, NewTurn
  <2> QED BY <2>1, <2>2 DEF DeliveryInv
<1> QED BY <1>1, <1>2, <1>3, <1>4, <1>5, TurnKeeps DEF DeliveryNext

-----------------------------------------------------------------------------
\* Every set of natural numbers has a least one, unless it is empty.
LEMMA LeastOf ==
    ASSUME NEW S \in SUBSET Nat, S # {}
    PROVE  \E n \in S : \A m \in S : n <= m
<1> DEFINE Below == OpToRel(<, Nat)
<1>1. IsWellFoundedOn(Below, Nat)
  BY NatLessThanWellFounded
<1>2. \A m, n \in Nat : m < n => <<m, n>> \in Below
  BY DEF OpToRel
<1> HIDE DEF Below
<1>3. PICK n \in S : \A m \in S : <<m, n>> \notin Below
  BY <1>1, WFMin
<1>4. \A m \in S : ~(m < n)
  BY <1>2, <1>3
<1> QED BY <1>3, <1>4

\* The first enabled affiliate entry is one of those there are.
LEMMA FirstNetwork ==
    ASSUME NEW policy \in OfferPolicies, NEW row, row.network = NoNetwork,
           EnabledNetworks(policy) # {}
    PROVE  AffiliateNetworkOf(row, policy.demand) \in EnabledNetworks(policy)
<1> DEFINE demand == policy.demand
           on == {i \in DOMAIN demand : demand[i].source = "affiliate" /\ demand[i].enabled}
           first == CHOOSE i \in on : \A j \in on : i <= j
<1>1. demand \in Seq(DemandEntries)
  BY DeliveryAssumption
<1>2. on \in SUBSET Nat
  BY <1>1
<1>3. on # {}
  BY DEF EnabledNetworks, Enabled
<1> HIDE DEF on
<1>4. \E i \in on : \A j \in on : i <= j
  BY <1>2, <1>3, LeastOf
<1>5. first \in on
  BY <1>4
<1> HIDE DEF first
<1>6. demand[first].network \in EnabledNetworks(policy)
  BY <1>5 DEF on, EnabledNetworks, Enabled
<1>7. AffiliateNetworkOf(row, policy.demand) = demand[first].network
  BY <1>3 DEF AffiliateNetworkOf, on, first
<1> QED BY <1>6, <1>7

LEMMA NetworksAreFinite ==
    ASSUME NEW policy \in OfferPolicies
    PROVE  IsFiniteSet(EnabledNetworks(policy))
<1> DEFINE demand == policy.demand
           on == {i \in DOMAIN demand : demand[i].source = "affiliate" /\ demand[i].enabled}
           f == [i \in on |-> demand[i].network]
<1>1. demand \in Seq(DemandEntries)
  BY DeliveryAssumption
<1>2. IsFiniteSet(on)
  <2>1. PICK n \in Nat : DOMAIN demand = 1..n
    BY <1>1
  <2>2. IsFiniteSet(1..n)
    BY FS_Interval
  <2> QED BY <2>1, <2>2, FS_Subset
<1>3. EnabledNetworks(policy) = {demand[i].network : i \in on}
  BY DEF EnabledNetworks, Enabled
<1>4. f \in Surjection(on, EnabledNetworks(policy))
  BY <1>3 DEF Surjection
<1> QED BY <1>2, <1>4, FS_Surjection

\* One network at most, and the click leads where the offer did.
LEMMA ClickFollows ==
    ASSUME NEW read \in AppRows, NEW ask, NEW row, NEW link, OfferedBy(read, ask, row, link),
           Cardinality(NetworksFor(row, read.policy)) <= 1
    PROVE  ResolveDestination(row, read.policy, read.accounts) = link
<1>1. read.policy \in OfferPolicies /\ read.accounts \in SUBSET Networks
  BY DEF AppRows
<1>2. PICK entry \in Enabled(Effective(read.policy, ask)) : Offers(entry, row, link, ask, read.accounts)
  BY DEF OfferedBy
<1>3. CASE row.source = "direct"
  BY <1>2, <1>3 DEF Offers, ResolveDestination
<1>4. CASE row.source = "affiliate"
  <2>1. /\ row.network \in {NoNetwork, entry.network} /\ link = Tracked(entry.network)
        /\ Builds(row, entry.network, read.accounts) /\ entry.source = "affiliate"
    BY <1>2, <1>4 DEF Offers
  <2>2. entry.network # NoNetwork
    BY <1>1, <2>1, DeliveryAssumption DEF Builds
  <2>3. PICK e \in Enabled(read.policy) : e.source = entry.source /\ e.network = entry.network
    BY <1>1, <1>2, OverridesOnlyDisable
  <2>4. entry.network \in EnabledNetworks(read.policy)
    BY <2>1, <2>3 DEF EnabledNetworks
  <2>5. AffiliateNetworkOf(row, read.policy.demand) = entry.network
    <3>1. CASE row.network # NoNetwork
      BY <2>1, <3>1 DEF AffiliateNetworkOf
    <3>2. CASE row.network = NoNetwork
      <4> DEFINE chosen == AffiliateNetworkOf(row, read.policy.demand)
      <4>1. chosen \in EnabledNetworks(read.policy)
        BY <1>1, <2>4, <3>2, FirstNetwork
      <4>2. IsFiniteSet(EnabledNetworks(read.policy)) /\ Cardinality(EnabledNetworks(read.policy)) <= 1
        BY <1>1, <3>2, NetworksAreFinite DEF NetworksFor
      <4> HIDE DEF chosen
      <4>3. {chosen, entry.network} \in SUBSET EnabledNetworks(read.policy)
        BY <2>4, <4>1
      <4>4. Cardinality({chosen, entry.network}) <= Cardinality(EnabledNetworks(read.policy))
        BY <4>2, <4>3, FS_Subset
      <4>5. chosen # entry.network => Cardinality({chosen, entry.network}) = 2
        <5>1. IsFiniteSet({chosen}) /\ Cardinality({chosen}) = 1
          BY FS_Singleton
        <5>2. {chosen, entry.network} = {chosen} \cup {entry.network}
          OBVIOUS
        <5> QED BY <5>1, <5>2, FS_AddElement
      <4>6. Cardinality(EnabledNetworks(read.policy)) \in Nat
        BY <4>2, FS_CardinalityType
      <4> QED BY <4>2, <4>4, <4>5, <4>6 DEF chosen
    <3> QED BY <3>1, <3>2
  <2> QED BY <1>4, <2>1, <2>2, <2>5 DEF ResolveDestination
<1> QED BY <1>2, <1>3, <1>4 DEF Offers

\* What an adapter offers, the diagnosis calls deliverable, and a click leads
\* where the ad did, whatever is edited or cached while the turn runs.
THEOREM AdaptersAndClickAgree == DeliverySpec => DeliveryAgrees
<1>1. ASSUME DeliveryInv, [DeliveryNext]_deliveryVars, NEW t \in Slots
      PROVE  ServedAsDiagnosed(t) /\ ClickedAsServed(t)
  <2>1. CASE \E c \in CreativeIds, link \in Links : Serve(t, c, link)
    <3>1. PICK c \in CreativeIds, link \in Links : Serve(t, c, link)
      BY <2>1
    <3>2. turn[t].phase = "judging"
      BY <3>1 DEF Serve
    <3>3. turn'[t].row = catalogue[c]
      BY <1>1, <3>1 DEF Serve, DeliveryInv
    <3>4. /\ CreativeDeliverability(catalogue[c], turn[t].app.policy, turn[t].app.accounts)
          /\ CreativeDeliverability(catalogue[c], Effective(turn[t].app.policy, turn[t].ask),
                                    turn[t].app.accounts)
      BY <1>1, <3>1, ServesAreDiagnosed
    <3> QED BY <3>2, <3>3, <3>4 DEF ServedAsDiagnosed, ClickedAsServed
  <2>2. CASE Click(t)
    <3> DEFINE row == turn[t].row
               served == turn[t].app
    <3>1. turn[t].phase = "served"
      BY <2>2 DEF Click
    <3>2. /\ served \in AppRows
          /\ OfferedBy(served, turn[t].ask, row, turn[t].link)
      BY <1>1, <3>1 DEF DeliveryInv, JudgedUnder
    <3>3. turn'[t].location =
              ResolveDestination(catalogue[turn[t].creative], Loaded(app.policy), app.accounts)
      BY <1>1, <2>2 DEF Click, DeliveryInv
    <3>4. Loaded(app.policy) = app.policy
      BY <1>1, LoaderIsTrue DEF DeliveryInv
    <3>5. app = served /\ catalogue[turn[t].creative] = row
            /\ Cardinality(NetworksFor(row, app.policy)) <= 1
              => turn'[t].location = turn[t].link
      BY <3>2, <3>3, <3>4, ClickFollows
    <3> QED BY <3>1, <3>5 DEF ServedAsDiagnosed, ClickedAsServed
  <2>3. CASE ~(\E c \in CreativeIds, link \in Links : Serve(t, c, link)) /\ ~Click(t)
    <3>1. turn[t].phase = "judging" => turn'[t].phase # "served"
      BY <1>1, <2>3 DEF DeliveryNext, DeliveryInv, BeginTurn, LoadPolicy, Suppress, Click, Serve,
         SavePolicy, SetAffiliateConfig, SaveCreative, RestartLoader, NewTurn, deliveryVars
    <3>2. turn[t].phase = "served" => turn'[t].phase # "clicked"
      BY <1>1, <2>3 DEF DeliveryNext, DeliveryInv, BeginTurn, LoadPolicy, Suppress, Click, Serve,
         SavePolicy, SetAffiliateConfig, SaveCreative, RestartLoader, NewTurn, deliveryVars
    <3> QED BY <3>1, <3>2 DEF ServedAsDiagnosed, ClickedAsServed
  <2> QED BY <2>1, <2>2, <2>3
<1>2. DeliveryInv /\ [DeliveryNext]_deliveryVars
          => [\A t \in Slots : ServedAsDiagnosed(t) /\ ClickedAsServed(t)]_deliveryVars
  BY <1>1
<1> QED BY <1>2, DeliveryInitHolds, DeliveryStepKeeps, PTL DEF DeliverySpec, DeliveryAgrees
=============================================================================
