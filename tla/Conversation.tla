---------------------------- MODULE Conversation ----------------------------
(***************************************************************************)
(* classify() from the words of a conversation to the answer of one turn   *)
(* (packages/core/src/classify): prepareText cuts the conversation twice,  *)
(* the rules stage matches its dictionary on one cut, the model reads the  *)
(* other, which also names the cached answer, and the call to the model    *)
(* (llm/openai.ts) runs under a timer of its own and one of classify().    *)
(* TurnDecision takes a text for a value and adds the second cache tier,   *)
(* expiry and policies; here there is one process, one policy, and a cache *)
(* that is neither full nor old.                                           *)
(*                                                                         *)
(* A text is its sequence of words, and a cut counts words where the code  *)
(* counts characters.  A regular expression of the dictionary is one more  *)
(* phrase.  Scores are thousandths.  The catch of classify() is left out:  *)
(* neither the gateway's cache nor its model client throws.                *)
(***************************************************************************)
EXTENDS PolicyRules, SequencesExt

CONSTANTS
    Asks,                   \* the calls of classify(), one for a turn
    Conversations,          \* [messages, summary] a turn may bring
    MaxMessages, MaxWords,  \* DEFAULT_PREPARE_OPTIONS
    Normalized,             \* what normalizeText makes of each word, often itself
    SensitiveRegistry,      \* category -> [strong, weak, exclusions]
    CommercialRegistry,     \* category -> [products, topics]
    Intents,                \* phrase -> weight, in hundredths
    Informational,          \* phrases
    Canonical,              \* toTaxonomyToken, on the labels a model may use
    Contents,               \* what a model may write
    Garbled,                \* ... when it is not the JSON asked for
    Policy                  \* [detection, min_confidence]

Gap == "gap"                \* what is left of a masked phrase
Labels == {"user", "assistant"}     \* CLASSIFIED_ROLES

ASSUME ConversationAssumption ==
    /\ MaxMessages \in Nat \ {0} /\ MaxWords \in Nat \ {0}
    /\ DOMAIN SensitiveRegistry \subseteq Sensitive
    /\ DOMAIN CommercialRegistry \subseteq Categories \ {"general"}
    /\ Labels \subseteq DOMAIN Normalized /\ Gap \notin DOMAIN Normalized
    /\ Normalized \in [DOMAIN Normalized -> Seq(DOMAIN Normalized)]
    /\ \A l \in Labels : Normalized[l] = <<l>>
    /\ \A c \in Conversations :
          /\ c.messages \in Seq([role : STRING, content : Seq(DOMAIN Normalized)])
          /\ c.summary \in Seq(DOMAIN Normalized)

\* registry.ts leaves out what normalizes to nothing.
Phrases == Seq(DOMAIN Normalized) \ {<<>>}

\* No occurrence of x shares a word with one of y, unless it is the same one.
Apart(x, y) ==
    \A d \in 0..(Len(x) - 1) :
        (\A k \in 1..Lower(Len(y), Len(x) - d) : x[d + k] = y[k]) => d = 0 /\ x = y

\* The compounds of the data are two words each, and none ends as one begins.
ASSUME DictionaryAssumption ==
    \A c \in DOMAIN SensitiveRegistry :
        LET rules == SensitiveRegistry[c] IN
        /\ rules.strong \cup rules.weak \subseteq Phrases /\ rules.exclusions \in Seq(Phrases)
        /\ \A x, y \in ToSet(rules.exclusions) : Apart(x, y)

VARIABLES
    configured,     \* the gateway has a model
    ask,            \* of each turn: [phase, about, source, outcome, heard]
    fetch,          \* its request to the model: [state, timer]
    cache           \* [key, value], one for a key

conversationVars == <<configured, ask, fetch, cache>>

-----------------------------------------------------------------------------
(* prepareText: one conversation, two texts.                               *)

LastWords(words) == SubSeq(words, Higher(1, Len(words) - MaxWords + 1), Len(words))
Flat(seqs) == FlattenSeq(seqs)

Kept(c) ==
    LET spoken == Flat([i \in DOMAIN c.messages |->
                          IF c.messages[i].role \in Labels THEN <<c.messages[i]>> ELSE <<>>])
    IN SubSeq(spoken, Higher(1, Len(spoken) - MaxMessages + 1), Len(spoken))

Labelled(c) == [i \in DOMAIN Kept(c) |-> <<Kept(c)[i].role>> \o Kept(c)[i].content]
Bare(c) == [i \in DOMAIN Kept(c) |-> Kept(c)[i].content]

\* Each text is cut on its own, so the labels cost the first one words.
Text(c) == LastWords(IF Kept(c) = <<>> THEN c.summary ELSE Flat(Labelled(c)))
RulesText(c) == LastWords(IF Kept(c) = <<>> THEN c.summary ELSE Flat(Bare(c)))

NormalizeText(words) == Flat([i \in DOMAIN words |-> Normalized[words[i]]])

\* Variant: only the newest message names the answer.
NewestWords(c) == NormalizeText(IF Kept(c) = <<>> THEN c.summary ELSE Last(Labelled(c)))
\* classifyCacheKey; versions and policy are the same for every turn.
CacheKey(c) == NormalizeText(Text(c))
CachedUnder == [c \in Conversations |-> CacheKey(c)]

-----------------------------------------------------------------------------
(* The rules stage.                                                        *)

At(words, phrase, i) ==
    i + Len(phrase) - 1 <= Len(words) /\ SubSeq(words, i, i + Len(phrase) - 1) = phrase
FindPhrases(words, phrases) == {p \in phrases : \E i \in DOMAIN words : At(words, p, i)}

\* Variant: the search goes on behind the space two compounds share.
MaskedApart(words, phrase) ==
    LET rest[i \in 1..Len(words) + 2] ==
            IF i > Len(words) THEN <<>>
            ELSE IF At(words, phrase, i)
                 THEN <<Gap>> \o SubSeq(words, i + Len(phrase), Lower(i + Len(phrase), Len(words)))
                      \o rest[i + Len(phrase) + 1]
                 ELSE <<words[i]>> \o rest[i + 1]
    IN rest[1]

\* Every occurrence leaves a gap that no phrase spans.
MaskPhrase(words, phrase) ==
    LET rest[i \in 1..Len(words) + 1] ==
            IF i > Len(words) THEN <<>>
            ELSE IF At(words, phrase, i) THEN <<Gap>> \o rest[i + Len(phrase)]
            ELSE <<words[i]>> \o rest[i + 1]
    IN rest[1]
MaskPhrases(words, phrases) == FoldLeft(MaskPhrase, words, phrases)

SensitiveHits(words, category) ==
    LET rules == SensitiveRegistry[category]
        seen == MaskPhrases(words, rules.exclusions)
    IN [strong |-> FindPhrases(seen, rules.strong), weak |-> FindPhrases(seen, rules.weak)]
\* One strong phrase, or weak_hits_to_flag weak ones.
Flags(hits) == hits.strong # {} \/ Cardinality(hits.weak) >= 2

CommercialHits(words, category) ==
    [products |-> FindPhrases(words, CommercialRegistry[category].products),
     topics |-> FindPhrases(words, CommercialRegistry[category].topics)]

Clamp(x) == Higher(0, Lower(1000, x))
\* 1 - (1 - w) * ..., kept to a millionth; round3 rounds it.
NoisyOr(weights, more) ==
    1000000 - FoldLeft(LAMBDA acc, w : (acc * (100 - w)) \div 100, 1000000, weights \o more)
Rounded(x) == (x + 500) \div 1000

ScoreIntent(intents, commercial, informational) ==
    LET product == \E h \in commercial : h.products # {}
        more == IF product THEN <<70>> ELSE IF commercial # {} THEN <<20>> ELSE <<>>
        weights == [i \in DOMAIN SetToSeq(intents) |-> Intents[SetToSeq(intents)[i]]]
    IN Rounded(Higher(0, NoisyOr(weights, more) - 150000 * Cardinality(informational)))

ScoreConfidence(evidence, product) ==
    Clamp(Lower(950, 300 + 150 * evidence + (IF product THEN 150 ELSE 0)))

ScoreSensitive(hits) ==
    IF hits.strong = {} THEN 750
    ELSE IF Cardinality(hits.strong \cup hits.weak) >= 2 THEN 950 ELSE 900

ClassifyByRules(words) ==
    LET hits == [c \in DOMAIN SensitiveRegistry |-> SensitiveHits(words, c)]
        found == [c \in DOMAIN CommercialRegistry |-> CommercialHits(words, c)]
        flagged == {c \in DOMAIN hits : Flags(hits[c])}
        matched == {c \in DOMAIN found : found[c].products \cup found[c].topics # {}}
        commercial == {found[c] : c \in matched}
        intents == FindPhrases(words, DOMAIN Intents)
        informational == FindPhrases(words, Informational)
        product == \E h \in commercial : h.products # {}
        evidence == Cardinality(intents) + Cardinality(informational)
            + MapThenSumSet(LAMBDA c : Cardinality(found[c].products)
                                       + Cardinality(found[c].topics), matched)
    IN [intent |-> Capped(ScoreIntent(intents, commercial, informational), flagged),
        commercial |-> matched, sensitive |-> flagged,
        strong |-> {c \in flagged : hits[c].strong # {}},
        confidence |-> IF flagged = {} THEN ScoreConfidence(evidence, product)
                       ELSE Max({ScoreSensitive(hits[c]) : c \in flagged})]

RulesOf == [c \in Conversations |-> ClassifyByRules(NormalizeText(RulesText(c)))]
Rules(c) == RulesOf[c]

-----------------------------------------------------------------------------
(* What the model writes.                                                  *)

\* normalizeList: other spellings count, other labels do not.
Known(labels, taxonomy) == {Canonical[l] : l \in labels} \cap taxonomy

ToLlmClassification(content) ==
    LET named == Known(content.categories, Categories)
    IN [intent |-> Clamp(content.intent),
        categories |-> IF named = {} THEN {"general"} ELSE named,
        sensitive |-> Known(content.sensitive, Sensitive),
        confidence |-> Clamp(content.confidence)]

ASSUME AnswerAssumption == \A x \in Contents \ {Garbled} : ToLlmClassification(x) # NoAnswer

-----------------------------------------------------------------------------
(* A turn.                                                                 *)

NoConversation == [messages |-> <<>>, summary |-> <<>>]
NoOutcome == "none"
NewTurn == [phase |-> "new", about |-> NoConversation, source |-> "none",
            outcome |-> NoOutcome, heard |-> Garbled]
NoFetch == [state |-> "none", timer |-> FALSE]

ConversationInit ==
    /\ configured \in BOOLEAN
    /\ ask = [t \in Asks |-> NewTurn]
    /\ fetch = [t \in Asks |-> NoFetch]
    /\ cache = {}

Finished(t, c, source, outcome) ==
    ask' = [ask EXCEPT ![t].phase = "done", ![t].about = c, ![t].source = source,
                        ![t].outcome = outcome]
Stored(key, value) == {e \in cache : e.key # key} \cup {[key |-> key, value |-> value]}
Hits(c) == {e \in cache : e.key = CachedUnder[c]}

\* classify() up to its first await.
Classify(t, c) ==
    LET rules == Rules(c) IN
    /\ ask[t].phase = "new"
    /\ \/ \E e \in Hits(c) :
              Finished(t, c, "cache", e.value) /\ UNCHANGED <<fetch, cache>>
       \/ /\ Hits(c) = {} /\ rules.strong # {}
          /\ Finished(t, c, "rules_short_circuit", RulesOnly(rules))
          /\ cache' = Stored(CachedUnder[c], RulesOnly(rules)) /\ UNCHANGED fetch
       \/ /\ Hits(c) = {} /\ rules.strong = {} /\ (RulesText(c) = <<>> \/ ~configured)
          /\ Finished(t, c, "rules_fallback", RulesOnly(rules)) /\ UNCHANGED <<fetch, cache>>
       \/ /\ Hits(c) = {} /\ rules.strong = {} /\ RulesText(c) # <<>> /\ configured
          /\ ask' = [ask EXCEPT ![t].phase = "asking", ![t].about = c]
          /\ fetch' = [fetch EXCEPT ![t] = [state |-> "sent", timer |-> TRUE]]
          /\ UNCHANGED cache
    /\ UNCHANGED configured

\* Without the model's answer, which is not cached.
FallBack(t) ==
    /\ Finished(t, ask[t].about, "rules_fallback", RulesOnly(Rules(ask[t].about)))
    /\ UNCHANGED cache

\* The client still races its request, and classify() its client.
Awaited(t) == ask[t].phase = "asking" /\ fetch[t].timer
\* The client settles, and stops its timer.
Settles(t) == fetch' = [fetch EXCEPT ![t] = [state |-> "over", timer |-> FALSE]]

Unheard == UNCHANGED <<ask, cache>>

\* Variant: an answer that comes after classify() gave up is cached still.
CacheLate(t, content) ==
    LET c == ask[t].about
    IN IF content = Garbled THEN Unheard
       ELSE /\ cache' = Stored(CachedUnder[c], Merged(Rules(c), ToLlmClassification(content), Policy))
            /\ UNCHANGED ask
\* An answer to a client, or a classify(), that gave up goes nowhere.
Ignored(t, content) == Unheard

\* The response's status.
ModelResponds(t, ok) ==
    /\ fetch[t].state = "sent"
    /\ IF ok THEN fetch' = [fetch EXCEPT ![t].state = "answered"] /\ Unheard
       ELSE Settles(t) /\ IF Awaited(t) THEN FallBack(t) ELSE Unheard
    /\ UNCHANGED configured

\* Its body, parsed and merged.
Answer(t, content) ==
    LET c == ask[t].about
        merged == Merged(Rules(c), ToLlmClassification(content), Policy)
    IN /\ fetch[t].state = "answered"
       /\ Settles(t)
       /\ IF ~Awaited(t) THEN Ignored(t, content)
          ELSE IF content = Garbled THEN FallBack(t)
          ELSE /\ ask' = [ask EXCEPT ![t].phase = "done", ![t].source = "merged",
                                      ![t].outcome = merged, ![t].heard = content]
               /\ cache' = Stored(CachedUnder[c], merged)
       /\ UNCHANGED configured

\* The transport rejects: the network, or the abort.
Reject(t) ==
    /\ fetch[t].state \in {"sent", "answered"}
    /\ Settles(t)
    /\ IF Awaited(t) THEN FallBack(t) ELSE Unheard
    /\ UNCHANGED configured

\* The client's timer: it aborts the request, which need not listen.
ClientTimeout(t) ==
    /\ fetch[t].timer
    /\ fetch' = [fetch EXCEPT ![t].timer = FALSE]
    /\ IF Awaited(t) THEN FallBack(t) ELSE Unheard
    /\ UNCHANGED configured

\* Variant: classify() trusts the client to answer in time.
AfterClient(t) == ask[t].phase = "asking" /\ fetch[t].state = "over"
Overdue(t) == ask[t].phase = "asking"

\* withDeadline: classify() does not wait for a client that is late itself.
ClassifyDeadline(t) ==
    /\ Overdue(t)
    /\ FallBack(t)
    /\ UNCHANGED <<configured, fetch>>

ConversationNext ==
    \E t \in Asks :
        \/ \E c \in Conversations : Classify(t, c)
        \/ \E ok \in BOOLEAN : ModelResponds(t, ok)
        \/ \E content \in Contents : Answer(t, content)
        \/ Reject(t) \/ ClientTimeout(t) \/ ClassifyDeadline(t)

\* Timers of the event loop fire; nothing is asked of model or transport.
ConversationSpec ==
    /\ ConversationInit /\ [][ConversationNext]_conversationVars
    /\ \A t \in Asks : WF_conversationVars(ClassifyDeadline(t))

-----------------------------------------------------------------------------
(* Properties.                                                             *)

Done == {t \in Asks : ask[t].phase = "done"}
Started == {t \in Asks : ask[t].phase # "new"}
Outcome(t) == ask[t].outcome
OwnRules(t) == Rules(ask[t].about)

\* A conversation no cut reaches and in which nobody writes a role label.
Plain(c) ==
    LET words == Flat(IF Kept(c) = <<>> THEN <<c.summary>> ELSE Bare(c))
    IN /\ Len(words) + Len(Kept(c)) <= MaxWords
       /\ ToSet(NormalizeText(words)) \cap Labels = {}

\* However a turn was answered, its own words could have been answered so.
AnswersFitTheWords ==
    \A t \in Done :
        \E llm \in {NoAnswer} \cup {ToLlmClassification(x) : x \in Contents \ {Garbled}} :
            Outcome(t) = Classified(OwnRules(t), llm, Policy)
\* A fallback is not cached, nor an answer that came too late for its turn.
CacheHoldsWhatWasAnswered ==
    \A e \in cache : \E t \in Done :
        /\ CachedUnder[ask[t].about] = e.key /\ Outcome(t) = e.value
        /\ ask[t].source \in {"merged", "rules_short_circuit"}

\* Nobody can tell a cached answer from one made for the turn: what the cache
\* holds some turn was given, and among plain conversations any turn that is
\* given it could have been answered so for its own words.
CacheIsTransparent ==
    /\ CacheHoldsWhatWasAnswered
    /\ (\A t \in Started : Plain(ask[t].about)) => AnswersFitTheWords

\* cache.ts:20: the key is "the normalized text plus everything that changes
\* the answer": a turn keeps the flags the rules raise on its own words, which
\* merge.ts:11 calls the deterministic floor, when its answer is a cached one.
RulesAreTheFloor == \A t \in Done : OwnRules(t).sensitive \subseteq Outcome(t).sensitive

\* types.ts, exclusions: a compound hides the words it is made of and no
\* others, however many of them stand side by side.
CompoundsHideOnlyTheirWords ==
    \A t \in Started, category \in DOMAIN SensitiveRegistry :
        LET words == NormalizeText(RulesText(ask[t].about))
            rules == SensitiveRegistry[category]
            hidden == UNION {x[2]..(x[2] + Len(x[1]) - 1) :
                x \in {y \in ToSet(rules.exclusions) \X (DOMAIN words) : At(words, y[1], y[2])}}
            hits == SensitiveHits(words, category)
        IN \A p \in rules.strong \cup rules.weak :
               p \in hits.strong \cup hits.weak <=>
                   \E i \in DOMAIN words : At(words, p, i) /\ i..(i + Len(p) - 1) \cap hidden = {}

\* classify() has not answered yet.
ClassifyWaits == \E t \in Asks : ask[t].phase = "asking"
=============================================================================
