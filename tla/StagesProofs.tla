---------------------------- MODULE StagesProofs ----------------------------
(***************************************************************************)
(* Theorems about the stages a turn goes through outside the gateway's     *)
(* store: demand mediation (Mediation), the SDKs around the model          *)
(* (SdkTurn), and classify() with its cache (Conversation).                *)
(***************************************************************************)
EXTENDS Mediation, SdkTurn, Conversation, WellFoundedInduction, FiniteSetTheorems,
        SequenceTheorems, TLAPS

-----------------------------------------------------------------------------
(***************************************************************************)
(* The best allowed offer wins, for any adapters, catalogue and exclusion  *)
(* lists, and whatever answers, fails, times out or is aborted when.  The  *)
(* invariant says what a settlement may hold, and that a result, once      *)
(* given, is the ranking of settlements that no longer change.             *)
(***************************************************************************)
Ranked ==
    IF Malformed THEN AllFailed
    ELSE [selected |-> Winner(Offered \ Excluded),
          responses |-> [i \in Indices |-> Summary(i)],
          excluded |-> Excluded]

OffersAreMade ==
    \A i \in Indices :
        settled[i].offers = IF settled[i].kind = "answered" THEN Offers(i) ELSE {}

ResultIsRanked ==
    IF phase = "done" THEN AllSettled /\ result = Ranked ELSE result = NoResult

MediationInv == MediationTypeOK /\ OffersAreMade /\ ResultIsRanked

-----------------------------------------------------------------------------
\* Every set of natural numbers has a least one, unless it is empty.
LEMMA LeastNumber ==
    ASSUME NEW S \in SUBSET Nat, S # {}
    PROVE  \E n \in S : \A m \in S : n <= m
<1> DEFINE Less == OpToRel(<, Nat)
<1>1. IsWellFoundedOn(Less, Nat)
  BY NatLessThanWellFounded
<1>2. \A m, n \in Nat : m < n => <<m, n>> \in Less
  BY DEF OpToRel
<1> HIDE DEF Less
<1>3. PICK n \in S : \A m \in S : ~(<<m, n>> \in Less)
  BY <1>1, WFMin
<1>4. ASSUME NEW m \in S PROVE n <= m
  <2>1. m \in Nat /\ n \in Nat
    OBVIOUS
  <2>2. ~(m < n)
    BY <1>2, <1>3, <2>1
  <2> QED BY <2>1, <2>2
<1> QED BY <1>4

\* eligible.sort, eligible[0]: of offers there is one no other ranks before,
\* since the order of creatives ends with their ids.
LEMMA WinnerIsBest ==
    ASSUME NEW S \in SUBSET Everything, S # {}
    PROVE  Winner(S) \in S /\ \A x \in S : x = Winner(S) \/ RanksBefore(Winner(S), x)
<1>0. /\ \A o \in S : o.creative \in Creatives /\ o.adapter \in Nat /\ o.creative.rank \in Nat
      /\ \A o, x \in S : o.creative = x.creative /\ o.adapter = x.adapter => o = x
  BY MediationAssumption DEF Everything, Indices
<1> DEFINE Rs == {o.creative.rank : o \in S}
<1>1. Rs \in SUBSET Nat /\ Rs # {}
  BY <1>0
<1>2. PICK r \in Rs : \A m \in Rs : r <= m
  BY <1>1, LeastNumber
<1> DEFINE As == {o.adapter : o \in {q \in S : q.creative.rank = r}}
<1>3. As \in SUBSET Nat /\ As # {}
  BY <1>0, <1>2
<1>4. PICK a \in As : \A m \in As : a <= m
  BY <1>3, LeastNumber
<1>5. PICK o \in S : o.creative.rank = r /\ o.adapter = a
  BY <1>4
<1>6. ASSUME NEW x \in S PROVE x = o \/ RanksBefore(o, x)
  <2>1. r <= x.creative.rank /\ r \in Nat /\ x.creative.rank \in Nat
    BY <1>0, <1>1, <1>2
  <2>2. CASE x.creative.rank = r
    <3>1. a <= x.adapter /\ a \in Nat /\ x.adapter \in Nat
      BY <1>0, <1>3, <1>4, <2>2
    <3>2. x.creative = o.creative
      BY <1>0, <1>5, <2>2, MediationAssumption
    <3>3. CASE x.adapter = a
      BY <1>0, <1>5, <3>2, <3>3
    <3>4. CASE x.adapter # a
      BY <1>5, <2>2, <3>1, <3>4 DEF RanksBefore
    <3> QED BY <3>3, <3>4
  <2>3. CASE x.creative.rank # r
    BY <1>5, <2>1, <2>3 DEF RanksBefore
  <2> QED BY <2>2, <2>3
<1> QED BY <1>5, <1>6 DEF Winner

-----------------------------------------------------------------------------
LEMMA RankedIsTyped ==
    ASSUME MediationTypeOK
    PROVE  Ranked.selected \in Everything \cup {NoOffer} /\ Ranked.excluded \subseteq Everything
<1>1. Offered \ Excluded \in SUBSET Everything /\ Excluded \subseteq Everything
  BY DEF Offered, Excluded
<1>2. Winner(Offered \ Excluded) \in Everything \cup {NoOffer}
  BY <1>1, WinnerIsBest DEF Winner
<1> QED BY <1>1, <1>2 DEF Ranked, AllFailed, NoResult

LEMMA MediationInitHolds == MediationInit => MediationInv
BY DEF MediationInit, MediationInv, MediationTypeOK, Outcomes, OffersAreMade, ResultIsRanked, Open,
       NoResult

\* What one adapter settles with is a failure or its offers.
Settlement(i, outcome) ==
    \/ \E kind \in Failures : outcome = Failed(kind)
    \/ outcome = Answered(Offers(i))

LEMMA SettlementFacts ==
    ASSUME NEW i \in Indices, NEW outcome, Settlement(i, outcome)
    PROVE  /\ outcome \in Outcomes
           /\ outcome.offers = IF outcome.kind = "answered" THEN Offers(i) ELSE {}
<1>1. Offers(i) \in SUBSET Creatives
  BY DEF Offers, Eligible
<1>2. ASSUME NEW kind \in Failures, outcome = Failed(kind)
      PROVE  outcome.kind # "answered" /\ outcome.offers = {} /\ outcome \in Outcomes
  BY <1>2 DEF Failed, Failures, Outcomes
<1>3. ASSUME outcome = Answered(Offers(i))
      PROVE  outcome.kind = "answered" /\ outcome.offers = Offers(i)
  BY <1>3 DEF Answered
<1>4. outcome = Answered(Offers(i)) => outcome \in Outcomes
  BY <1>1 DEF Outcomes
<1> QED BY <1>2, <1>3, <1>4 DEF Settlement

\* Before there is a result, settlements may change.
LEMMA SettlingKeeps ==
    ASSUME MediationInv, phase # "done", phase' \in {"idle", "calling"}, result' = result,
           caller' \in {"live", "aborted"}, DOMAIN settled' = Indices,
           exclusions' \in [policy : SUBSET AdDomains, request : SUBSET AdDomains],
           \A S \in {timers', listeners', cancelled', inFlight'} : S \subseteq Indices,
           \A i \in Indices : settled'[i] = settled[i] \/ Settlement(i, settled'[i])
    PROVE  MediationInv'
<1>1. \A i \in Indices :
          /\ settled'[i] \in Outcomes
          /\ settled'[i].offers = IF settled'[i].kind = "answered" THEN Offers(i) ELSE {}
  BY SettlementFacts DEF MediationInv, MediationTypeOK, OffersAreMade
<1>2. Outcomes' = Outcomes
  BY DEF Outcomes
<1>3. MediationTypeOK'
  BY <1>1, <1>2 DEF MediationInv, MediationTypeOK
<1>4. OffersAreMade' /\ ResultIsRanked'
  BY <1>1 DEF OffersAreMade, MediationInv, ResultIsRanked
<1> QED BY <1>3, <1>4 DEF MediationInv

\* Once there is one, a late answer or timer changes none.
LEMMA LateKeeps ==
    ASSUME MediationInv, UNCHANGED <<phase, exclusions, settled, caller, result>>,
           \A S \in {timers', listeners', cancelled', inFlight'} : S \subseteq Indices
    PROVE  MediationInv'
<1>1. MediationTypeOK'
  BY DEF MediationInv, MediationTypeOK, Outcomes
<1>2. OffersAreMade'
  BY DEF MediationInv, OffersAreMade
<1>3. Ranked' = Ranked /\ AllSettled' = AllSettled
  BY DEF Ranked, Malformed, AllFailed, Winner, Offered, Excluded, Summary, AllSettled
<1>4. ResultIsRanked'
  BY <1>3 DEF MediationInv, ResultIsRanked
<1> QED BY <1>1, <1>2, <1>4 DEF MediationInv

LEMMA FinishKeeps ==
    ASSUME MediationInv, NEW i \in Indices, NEW outcome, Settlement(i, outcome),
           Finish(i, outcome), UNCHANGED <<phase, exclusions, caller, result>>,
           cancelled' \subseteq Indices, inFlight' \subseteq Indices
    PROVE  MediationInv'
<1>1. \A S \in {timers', listeners', cancelled', inFlight'} : S \subseteq Indices
  BY DEF Finish, MediationInv, MediationTypeOK
<1>2. CASE settled[i] = Open
  <2>1. phase # "done"
    BY <1>2 DEF MediationInv, ResultIsRanked, AllSettled
  <2>2. settled' = [settled EXCEPT ![i] = outcome] /\ DOMAIN settled = Indices
    BY <1>2 DEF Finish, MediationInv, MediationTypeOK
  <2>3. \A k \in Indices : settled'[k] = settled[k] \/ Settlement(k, settled'[k])
    BY <2>2
  <2>4. DOMAIN settled' = Indices
    BY <2>2
  <2>5. /\ phase' \in {"idle", "calling"} /\ caller' \in {"live", "aborted"}
        /\ exclusions' \in [policy : SUBSET AdDomains, request : SUBSET AdDomains]
    BY <2>1 DEF MediationInv, MediationTypeOK
  <2> QED BY <1>1, <2>1, <2>3, <2>4, <2>5, SettlingKeeps
<1>3. CASE settled[i] # Open
  BY <1>1, <1>3, LateKeeps DEF Finish
<1> QED BY <1>2, <1>3

LEMMA MediateKeeps ==
    ASSUME MediationInv, NEW policy \in SUBSET AdDomains, NEW request \in SUBSET AdDomains,
           Mediate([policy |-> policy, request |-> request])
    PROVE  MediationInv'
<1>1. /\ phase = "idle" /\ phase' = "calling" /\ UNCHANGED <<cancelled, caller, result>>
      /\ exclusions' = [policy |-> policy, request |-> request]
      /\ \/ settled' = [i \in Indices |-> Failed("aborted")]
            /\ UNCHANGED <<timers, listeners, inFlight>>
         \/ UNCHANGED settled /\ timers' = Indices /\ listeners' = Indices /\ inFlight' = Indices
  BY DEF Mediate
<1>2. \A S \in {timers', listeners', cancelled', inFlight'} : S \subseteq Indices
  BY <1>1 DEF MediationInv, MediationTypeOK
<1>3. /\ DOMAIN settled' = Indices
      /\ \A i \in Indices : settled'[i] = settled[i] \/ Settlement(i, settled'[i])
  BY <1>1 DEF Settlement, Failures, MediationInv, MediationTypeOK
<1>4. caller' \in {"live", "aborted"}
  BY <1>1 DEF MediationInv, MediationTypeOK
<1> QED BY <1>1, <1>2, <1>3, <1>4, SettlingKeeps

LEMMA AbortKeeps ==
    ASSUME MediationInv, Abort
    PROVE  MediationInv'
<1>1. /\ phase # "done" /\ caller' = "aborted" /\ UNCHANGED <<phase, exclusions, inFlight, result>>
      /\ settled' = [i \in Indices |-> IF i \in listeners THEN Failed("aborted") ELSE settled[i]]
      /\ cancelled' = cancelled \cup listeners /\ timers' = timers \ listeners /\ listeners' = {}
  BY DEF Abort
<1>2. \A S \in {timers', listeners', cancelled', inFlight'} : S \subseteq Indices
  BY <1>1 DEF MediationInv, MediationTypeOK
<1>3. /\ DOMAIN settled' = Indices
      /\ \A i \in Indices : settled'[i] = settled[i] \/ Settlement(i, settled'[i])
  BY <1>1 DEF Settlement, Failures
<1>4. phase' \in {"idle", "calling"}
      /\ exclusions' \in [policy : SUBSET AdDomains, request : SUBSET AdDomains]
  BY <1>1 DEF MediationInv, MediationTypeOK
<1> QED BY <1>1, <1>2, <1>3, <1>4, SettlingKeeps

LEMMA RankKeeps ==
    ASSUME MediationInv, Rank
    PROVE  MediationInv'
<1>1. /\ phase' = "done" /\ AllSettled /\ result' = Ranked
      /\ UNCHANGED <<exclusions, settled, timers, listeners, cancelled, inFlight, caller>>
  BY DEF Rank, Ranked
<1>2. MediationTypeOK'
  BY <1>1, RankedIsTyped DEF MediationInv, MediationTypeOK, Outcomes
<1>3. OffersAreMade'
  BY <1>1 DEF MediationInv, OffersAreMade
<1>4. Ranked' = Ranked /\ AllSettled' = AllSettled
  BY <1>1 DEF Ranked, Malformed, AllFailed, Winner, Offered, Excluded, Summary, AllSettled
<1> QED BY <1>1, <1>2, <1>3, <1>4 DEF MediationInv, ResultIsRanked

LEMMA MediationStepKeeps == MediationInv /\ [MediationNext]_mediationVars => MediationInv'
<1> SUFFICES ASSUME MediationInv, [MediationNext]_mediationVars PROVE MediationInv'
  OBVIOUS
<1>0. \A S \in {timers, listeners, cancelled, inFlight} : S \subseteq Indices
  BY DEF MediationInv, MediationTypeOK
<1>1. ASSUME NEW i \in Indices, Settle(i) PROVE MediationInv'
  <2>1. PICK outcome \in {Answered(Offers(i)), Failed("malformed"), Failed("adapter_error")} :
            Finish(i, outcome)
    BY <1>1 DEF Settle
  <2>2. Settlement(i, outcome)
    BY <2>1 DEF Settlement, Failures
  <2>3. cancelled' \subseteq Indices /\ inFlight' \subseteq Indices
    BY <1>0, <1>1 DEF Settle
  <2> QED BY <1>1, <2>1, <2>2, <2>3, FinishKeeps DEF Settle
<1>2. ASSUME NEW i \in Indices, TimerFires(i) PROVE MediationInv'
  <2>1. Settlement(i, Failed("timeout"))
    BY DEF Settlement, Failures
  <2>2. cancelled' \subseteq Indices /\ inFlight' \subseteq Indices
    BY <1>0, <1>2 DEF TimerFires
  <2> QED BY <1>2, <2>1, <2>2, FinishKeeps DEF TimerFires
<1>3. CASE UNCHANGED mediationVars
  BY <1>0, <1>3, LateKeeps DEF mediationVars
<1> QED BY <1>1, <1>2, <1>3, MediateKeeps, AbortKeeps, RankKeeps DEF MediationNext

-----------------------------------------------------------------------------
\* Every settlement is an outcome fetchOne can have, and every result names
\* offers there were.
THEOREM MediationTypeCorrect == MediationSpec => []MediationTypeOK
<1>1. MediationInv => MediationTypeOK
  BY DEF MediationInv
<1> QED BY <1>1, MediationInitHolds, MediationStepKeeps, PTL DEF MediationSpec

\* mediate.ts: what is selected was offered in time, is excluded by neither
\* list, and no other such offer is better; the trace counts the same offers.
THEOREM BestOfferIsSelected == MediationSpec => []BestAllowedWins
<1>1. MediationInv => BestAllowedWins
  <2> SUFFICES ASSUME MediationInv, phase = "done" PROVE ExclusionsHold /\ SelectionMatchesTrace
    BY DEF BestAllowedWins, ExclusionsHold, SelectionMatchesTrace
  <2>0. result = Ranked
    BY DEF MediationInv, ResultIsRanked
  <2> DEFINE counted == {i \in Indices : result.responses[i].error = "answered"}
             shown == {o \in Everything : /\ o.adapter \in counted
                                          /\ o.creative \in Offers(o.adapter)
                                          /\ o \notin result.excluded}
  <2>1. CASE Malformed
    <3>1. /\ result.selected = NoOffer /\ result.excluded = {}
          /\ \A i \in Indices : result.responses[i].error = "adapter_error"
      BY <2>0, <2>1 DEF Ranked, AllFailed, NoResult
    <3>2. counted = {} /\ shown = {}
      BY <3>1
    <3> QED BY <3>1, <3>2 DEF ExclusionsHold, SelectionMatchesTrace
  <2>2. CASE ~Malformed
    <3> DEFINE eligible == Offered \ Excluded
    <3>1. /\ result.selected = Winner(eligible) /\ result.excluded = Excluded
          /\ \A i \in Indices : result.responses[i].error = settled[i].kind
      BY <2>0, <2>2 DEF Ranked, Summary
    <3>2. shown = eligible
      <4>1. ASSUME NEW o \in Everything
            PROVE  o.creative \in settled[o.adapter].offers <=>
                       o.adapter \in counted /\ o.creative \in Offers(o.adapter)
        <5>1. o.adapter \in Indices
          BY DEF Everything
        <5> QED BY <3>1, <5>1 DEF MediationInv, OffersAreMade
      <4> QED BY <3>1, <4>1 DEF Offered
    <3>3. eligible \in SUBSET Everything
      BY DEF Offered
    <3>4. \A o \in Everything : o # NoOffer /\ o.creative \in Creatives /\ o.creative.rank \in Nat
      BY MediationAssumption DEF Everything
    <3>5. ExclusionsHold
      <4>1. result.selected # NoOffer => result.selected \in eligible
        BY <3>1, <3>3, WinnerIsBest DEF Winner
      <4>2. \A o \in eligible : ~IsExcluded(o.creative.domain, exclusions)
        BY DEF Excluded
      <4>3. \A o \in Excluded : IsExcluded(o.creative.domain, exclusions)
        BY DEF Excluded
      <4> HIDE DEF eligible
      <4> QED BY <3>1, <4>1, <4>2, <4>3 DEF ExclusionsHold, IsExcluded
    <3>6. result.selected = NoOffer <=> shown = {}
      <4> HIDE DEF eligible, shown
      <4>1. CASE eligible = {}
        BY <3>1, <3>2, <4>1 DEF Winner
      <4>2. CASE eligible # {}
        BY <3>1, <3>2, <3>3, <3>4, <4>2, WinnerIsBest
      <4> QED BY <4>1, <4>2
    <3>7. ASSUME result.selected # NoOffer
          PROVE  /\ result.selected \in shown
                 /\ \A o \in shown : result.selected.creative.rank <= o.creative.rank
      <4> HIDE DEF eligible, shown
      <4>1. eligible # {}
        BY <3>2, <3>6, <3>7
      <4>2. /\ result.selected \in eligible
            /\ \A x \in eligible : x = result.selected \/ RanksBefore(result.selected, x)
        BY <3>1, <3>3, <4>1, WinnerIsBest
      <4>3. ASSUME NEW o \in shown PROVE result.selected.creative.rank <= o.creative.rank
        <5>1. /\ o \in Everything /\ result.selected \in Everything
              /\ o = result.selected \/ RanksBefore(result.selected, o)
          BY <3>2, <3>3, <4>2
        <5>2. o.creative.rank \in Nat /\ result.selected.creative.rank \in Nat
          BY <3>4, <5>1
        <5> QED BY <5>1, <5>2 DEF RanksBefore
      <4> QED BY <3>2, <4>2, <4>3
    <3> QED BY <3>5, <3>6, <3>7 DEF SelectionMatchesTrace
  <2> QED BY <2>1, <2>2
<1> QED BY <1>1, MediationInitHolds, MediationStepKeeps, PTL DEF MediationSpec

-----------------------------------------------------------------------------
(***************************************************************************)
(* What the SDKs attest, and that the steps of a turn share an evaluation, *)
(* for any turns, keys, plans and bound of the turn store.                 *)
(***************************************************************************)
StepRecords ==
    [pc : {"idle", "model", "flush", "attest", "done", "failed"}, eval : Steps \cup {None},
     text : 0..MaxChunks, final : BOOLEAN, void : BOOLEAN]
Over == {"attest", "done", "failed"}

\* A step begins only after all before it ended in tool calls.
StepsInOrder ==
    \A t \in Turns : \A i, j \in 1..MaxSteps :
        i < j /\ step[<<t, j>>].pc # "idle" =>
            step[<<t, i>>].pc = "done" /\ ~step[<<t, i>>].final

BegunHaveEval == \A s \in Steps : step[s].pc = "idle" <=> step[s].eval = None
SinglesAreFinal == \A s \in Steps : ModeOf(s) \notin Middleware => step[s].final
RepliesAreRecorded == \A e \in Steps : call[<<"evaluate", e>>] = "ok" => records[e] # None

Attests(m, shown, held) ==
    /\ m.text = shown.text /\ shown.final /\ shown.pc \in Over
    /\ held[m.eval] # None /\ m.eval = shown.eval
    /\ m.rendered => held[m.eval] = "serve"
SentIsWhatWasShown == \A s \in Steps : sent[s] # None => Attests(sent[s], step[s], records)

ShowInv ==
    /\ TypeOK /\ StepsInOrder /\ BegunHaveEval /\ SinglesAreFinal
    /\ RepliesAreRecorded /\ SentIsWhatWasShown

\* The store, and what became of a turn that is not in it.
Begun(t) == turn[t].mode \in Middleware /\ step[<<t, 1>>].eval # None
Others(t) == {u \in Turns \ {t} : turn[u].mode \in Middleware /\ step[<<u, 1>>].eval # None}
Crowded(t) == Cardinality(Others(t)) >= MaxTurns
Shared(t) == \E u \in Turns \ {t} : turn[u].key = turn[t].key
Tracked(t) ==
    \E n \in DOMAIN store : store[n].key = turn[t].key /\ store[n].eval = step[<<t, 1>>].eval
HasEnded(t) ==
    \E i \in 1..MaxSteps : step[<<t, i>>].final /\ step[<<t, i>>].pc \in Over

KeysDiffer == \A m, n \in DOMAIN store : store[m].key = store[n].key => m = n
KeysAreOfTurns == \A n \in DOMAIN store : \E t \in Turns : Begun(t) /\ turn[t].key = store[n].key
TurnsAreTracked ==
    \A t \in Turns : Begun(t) => Tracked(t) \/ HasEnded(t) \/ Crowded(t) \/ Shared(t)

ShareInv == ShowInv /\ KeysDiffer /\ KeysAreOfTurns /\ TurnsAreTracked /\ OneEvaluatePerTurn

-----------------------------------------------------------------------------
(* What a step of the program does to one model call.                      *)

Progress(s, r) ==
    /\ step' = [step EXCEPT ![s] = r] /\ r \in StepRecords
    /\ step[s].pc \notin {"idle", "done"} /\ r.pc # "idle" /\ r.eval = step[s].eval
    /\ ModeOf(s) \notin Middleware => r.final
    /\ step[s].pc \in Over =>
           r.pc \in Over /\ r.final = step[s].final /\ r.text = step[s].text

LEMMA SdkTypes ==
    ASSUME TypeOK
    PROVE  /\ step \in [Steps -> StepRecords]
           /\ \A s \in Steps : /\ s[1] \in Turns /\ s[2] \in 1..MaxSteps /\ s = <<s[1], s[2]>>
                               /\ turn[s[1]] \in [mode : Modes, key : Keys, steps : 1..MaxSteps]
           /\ \A t \in Turns : turn[t] \in [mode : Modes, key : Keys, steps : 1..MaxSteps]
           /\ \A t \in Turns, i \in 1..MaxSteps : <<t, i>> \in Steps
           /\ MaxSteps \in Nat \ {0} /\ MaxTurns \in Nat \ {0} /\ None \notin Steps
BY SdkAssumption DEF TypeOK, Steps, StepRecords

LEMMA ProgressKeeps ==
    ASSUME ShowInv, NEW s \in Steps, NEW r, Progress(s, r), UNCHANGED turn
    PROVE  /\ step' \in [Steps -> StepRecords]
           /\ StepsInOrder' /\ BegunHaveEval' /\ SinglesAreFinal'
<1>0. TypeOK
  BY DEF ShowInv
<1>1. /\ step \in [Steps -> StepRecords] /\ r \in StepRecords
      /\ step' = [step EXCEPT ![s] = r]
  BY <1>0, SdkTypes DEF Progress
<1>2. step' \in [Steps -> StepRecords]
  BY <1>1
<1>3. step'[s] = r /\ \A q \in Steps : q # s => step'[q] = step[q]
  BY <1>1
<1>4. StepsInOrder'
  <2> SUFFICES ASSUME NEW t \in Turns, NEW i \in 1..MaxSteps, NEW j \in 1..MaxSteps,
                      i < j, step'[<<t, j>>].pc # "idle"
               PROVE  step'[<<t, i>>].pc = "done" /\ ~step'[<<t, i>>].final
    BY DEF StepsInOrder
  <2>1. <<t, i>> \in Steps /\ <<t, j>> \in Steps
    BY DEF Steps
  <2>2. step[<<t, j>>].pc # "idle"
    BY <1>3, <2>1 DEF Progress
  <2>3. step[<<t, i>>].pc = "done" /\ ~step[<<t, i>>].final
    BY <2>2 DEF ShowInv, StepsInOrder
  <2>4. <<t, i>> # s
    BY <2>3 DEF Progress
  <2> QED BY <1>3, <2>1, <2>3, <2>4
<1>5. BegunHaveEval'
  BY <1>3 DEF Progress, ShowInv, BegunHaveEval
<1>6. SinglesAreFinal'
  BY <1>3 DEF Progress, ShowInv, SinglesAreFinal, ModeOf
<1> QED BY <1>2, <1>4, <1>5, <1>6

\* A step that has sent its attestation keeps what the attestation says.
LEMMA ProgressShows ==
    ASSUME ShowInv, NEW s \in Steps, NEW r, Progress(s, r), UNCHANGED <<turn, store, sent, records>>,
           call' \in [Calls -> {"none", "sent", "ok", "error", "unsent"}],
           \A e \in Steps : call'[<<"evaluate", e>>] = "ok" => call[<<"evaluate", e>>] = "ok"
    PROVE  ShowInv'
<1>1. step' \in [Steps -> StepRecords] /\ StepsInOrder' /\ BegunHaveEval' /\ SinglesAreFinal'
  BY ProgressKeeps
<1>2. TypeOK'
  BY <1>1 DEF ShowInv, TypeOK, StepRecords
<1>3. RepliesAreRecorded'
  BY DEF ShowInv, RepliesAreRecorded
<1>4. ASSUME NEW q \in Steps, sent'[q] # None PROVE Attests(sent'[q], step'[q], records')
  <2>1. Attests(sent[q], step[q], records) /\ step \in [Steps -> StepRecords]
    BY <1>4, SdkTypes DEF ShowInv, SentIsWhatWasShown
  <2>2. CASE q = s
    BY <2>1, <2>2 DEF Attests, Progress
  <2>3. CASE q # s
    <3>1. step'[q] = step[q]
      BY <2>1, <2>3 DEF Progress
    <3> QED BY <2>1, <3>1 DEF Attests
  <2> QED BY <2>2, <2>3
<1>5. SentIsWhatWasShown'
  BY <1>4 DEF SentIsWhatWasShown
<1> QED BY <1>1, <1>2, <1>3, <1>5 DEF ShowInv

\* The wire changes no step and no attestation, and no record there is.
LEMMA WireShows ==
    ASSUME ShowInv, UNCHANGED <<turn, store, step, sent>>,
           call' \in [Calls -> {"none", "sent", "ok", "error", "unsent"}],
           records' \in [Steps -> {"serve", "suppress", None}],
           \A e \in Steps : records[e] # None => records'[e] = records[e],
           \A e \in Steps : call'[<<"evaluate", e>>] = "ok" => records'[e] # None
    PROVE  ShowInv'
<1>1. TypeOK'
  BY DEF ShowInv, TypeOK
<1>2. StepsInOrder' /\ BegunHaveEval' /\ SinglesAreFinal'
  BY DEF ShowInv, StepsInOrder, BegunHaveEval, SinglesAreFinal, ModeOf
<1>3. RepliesAreRecorded'
  BY DEF RepliesAreRecorded
<1>4. ASSUME NEW q \in Steps, sent'[q] # None PROVE Attests(sent'[q], step'[q], records')
  <2>1. Attests(sent[q], step[q], records) /\ sent[q].eval \in Steps
    BY <1>4 DEF ShowInv, SentIsWhatWasShown, TypeOK
  <2> QED BY <2>1 DEF Attests
<1>5. SentIsWhatWasShown'
  BY <1>4 DEF SentIsWhatWasShown
<1> QED BY <1>1, <1>2, <1>3, <1>5 DEF ShowInv

-----------------------------------------------------------------------------
(* The turn store.                                                         *)

Entries == [key : Keys, eval : Steps]

\* set: the new entry is the last; the oldest is dropped from a full store.
LEMMA RememberedFacts ==
    ASSUME TypeOK, NEW k \in Keys, NEW e \in Steps,
           NEW new, new = Remembered(k, e), NEW drop, drop = IF Len(store) = MaxTurns THEN 1 ELSE 0
    PROVE  /\ new \in Seq(Entries) /\ Len(new) = Len(store) + 1 - drop /\ Len(new) <= MaxTurns
           /\ Len(store) \in Nat /\ DOMAIN new = 1..Len(new) /\ DOMAIN store = 1..Len(store)
           /\ new[Len(new)] = [key |-> k, eval |-> e]
           /\ \A n \in 1..(Len(new) - 1) : new[n] = store[n + drop]
<1> DEFINE entry == [key |-> k, eval |-> e]
           grown == Append(store, entry)
<1>1. store \in Seq(Entries) /\ DOMAIN store = 1..Len(store) /\ entry \in Entries
  BY SdkTypes DEF TypeOK, Entries
<1>2. Len(store) \in Nat /\ Len(store) <= MaxTurns /\ MaxTurns \in Nat \ {0}
  BY SdkTypes DEF TypeOK, Entries
<1> HIDE DEF entry
<1>3. /\ grown \in Seq(Entries) /\ Len(grown) = Len(store) + 1
      /\ \A i \in 1..Len(store) : grown[i] = store[i]
      /\ grown[Len(store) + 1] = entry
  BY <1>1, AppendProperties
<1> HIDE DEF grown
<1> DEFINE len == Len(store)
           last == Len(grown)
<1>4. len \in Nat /\ len <= MaxTurns /\ MaxTurns \in Nat \ {0} /\ last = len + 1
      /\ drop = IF len = MaxTurns THEN 1 ELSE 0
  BY <1>2, <1>3
<1> HIDE DEF len, last
<1>5. /\ drop \in {0, 1} /\ drop <= len /\ drop = IF last > MaxTurns THEN last - MaxTurns ELSE 0
      /\ drop + 1 \in Int /\ last \in Int /\ drop + 1 <= last
  BY <1>4
<1>6. new = SubSeq(grown, drop + 1, last)
  BY <1>5, Zenon DEF Remembered, entry, grown, last
<1>7. \A i \in (drop + 1)..last : grown[i] \in Entries
  <2>1. \A i \in 1..last : grown[i] \in Entries
    BY <1>3, ElementOfSeq DEF last
  <2> QED BY <1>4, <1>5, <2>1
<1>8. /\ new \in Seq(Entries)
      /\ Len(new) = IF drop + 1 <= last THEN last - (drop + 1) + 1 ELSE 0
      /\ \A i \in 1..(last - (drop + 1) + 1) : new[i] = grown[(drop + 1) + i - 1]
  <2> DEFINE first == drop + 1
  <2>1. first \in Int /\ last \in Int /\ new = SubSeq(grown, first, last)
        /\ \A i \in first..last : grown[i] \in Entries
    BY <1>5, <1>6, <1>7
  <2> HIDE DEF first
  <2>2. /\ new \in Seq(Entries) /\ Len(new) = IF first <= last THEN last - first + 1 ELSE 0
        /\ \A i \in 1..(last - first + 1) : new[i] = grown[first + i - 1]
    BY <2>1, SubSeqProperties
  <2> QED BY <2>2 DEF first
<1>9. Len(new) = len + 1 - drop /\ Len(new) <= MaxTurns /\ Len(new) \in Nat
  <2>1. Len(new) = IF drop + 1 <= last THEN last - (drop + 1) + 1 ELSE 0
    BY <1>8
  <2> QED BY <1>4, <1>5, <2>1
<1>10. ASSUME NEW i \in 1..Len(new) PROVE new[i] = grown[i + drop]
  <2>1. i \in 1..(last - (drop + 1) + 1) /\ (drop + 1) + i - 1 = i + drop
    BY <1>4, <1>5, <1>9
  <2> QED BY <1>8, <2>1
<1>11. DOMAIN new = 1..Len(new)
  BY <1>8, LenProperties
<1>12. new[Len(new)] = entry
  <2>1. Len(new) \in 1..Len(new) /\ Len(new) + drop = len + 1
    BY <1>4, <1>5, <1>9
  <2> QED BY <1>3, <1>10, <2>1 DEF len
<1>13. ASSUME NEW n \in 1..(Len(new) - 1) PROVE new[n] = store[n + drop]
  <2>1. n \in 1..Len(new) /\ n + drop \in 1..len
    BY <1>4, <1>5, <1>9
  <2> QED BY <1>3, <1>10, <2>1 DEF len
<1> QED BY <1>1, <1>2, <1>8, <1>9, <1>11, <1>12, <1>13 DEF entry, len

\* end: the key's entry goes, the others stay in their order.
LEMMA EndedFacts ==
    ASSUME TypeOK, KeysDiffer, NEW k, NEW new, new = Ended(k)
    PROVE  /\ new \in Seq(Entries) /\ Len(new) <= MaxTurns
           /\ \A n \in DOMAIN new : \E m \in DOMAIN store : new[n] = store[m]
           /\ \A m, n \in DOMAIN new : new[m].key = new[n].key => m = n
           /\ \A m \in DOMAIN store : store[m].key # k => \E n \in DOMAIN new : new[n] = store[m]
<1>1. /\ store \in Seq(Entries) /\ Len(store) \in Nat /\ Len(store) <= MaxTurns
      /\ MaxTurns \in Nat /\ DOMAIN store = 1..Len(store)
      /\ \A n \in DOMAIN store : store[n] \in Entries
  <2>1. store \in Seq(Entries) /\ Len(store) <= MaxTurns /\ MaxTurns \in Nat
    BY SdkTypes DEF TypeOK, Entries
  <2> QED BY <2>1, LenProperties, ElementOfSeq
<1>2. CASE Running(k) = {}
  <2>1. new = store
    BY <1>2 DEF Ended
  <2> QED BY <1>1, <2>1 DEF KeysDiffer
<1>3. CASE Running(k) # {}
  <2> DEFINE at == CHOOSE i \in Running(k) : TRUE
  <2>1. at \in 1..Len(store) /\ store[at].key = k
    BY <1>1, <1>3 DEF Running
  <2>2. new = [n \in 1..(Len(store) - 1) |-> store[IF n < at THEN n ELSE n + 1]]
    BY <1>3 DEF Ended
  <2> HIDE DEF at
  <2>3. \A n \in 1..(Len(store) - 1) : (IF n < at THEN n ELSE n + 1) \in 1..Len(store)
    BY <1>1, <2>1
  <2>4. Len(store) - 1 \in Nat
    BY <1>1, <2>1
  <2>5. new \in Seq(Entries) /\ DOMAIN new = 1..(Len(store) - 1) /\ Len(new) = Len(store) - 1
    BY <1>1, <2>2, <2>3, <2>4
  <2>6. \A n \in DOMAIN new : \E m \in DOMAIN store : new[n] = store[m]
    BY <1>1, <2>2, <2>3, <2>5
  <2>7. ASSUME NEW m \in DOMAIN new, NEW n \in DOMAIN new, new[m].key = new[n].key
        PROVE  m = n
    <3>1. (IF m < at THEN m ELSE m + 1) = (IF n < at THEN n ELSE n + 1)
      BY <1>1, <2>2, <2>3, <2>5, <2>7 DEF KeysDiffer
    <3> QED BY <1>1, <2>1, <2>5, <3>1
  <2>8. ASSUME NEW m \in DOMAIN store, store[m].key # k
        PROVE  \E n \in DOMAIN new : new[n] = store[m]
    <3>1. m # at
      BY <2>1, <2>8
    <3>2. CASE m < at
      <4>1. m \in DOMAIN new /\ new[m] = store[m]
        BY <1>1, <2>1, <2>2, <2>5, <3>2
      <4> QED BY <4>1
    <3>3. CASE m > at
      <4>1. m - 1 \in DOMAIN new /\ new[m - 1] = store[m]
        BY <1>1, <2>1, <2>2, <2>5, <3>3
      <4> QED BY <4>1
    <3> QED BY <1>1, <2>1, <3>1, <3>2, <3>3
  <2> QED BY <1>1, <2>5, <2>6, <2>7, <2>8
<1> QED BY <1>2, <1>3

-----------------------------------------------------------------------------
(* Beginning a step.                                                       *)

Began(s, e) ==
    /\ MayBegin(s) /\ e \in Steps /\ step' = Opened(s, e)
    /\ UNCHANGED <<turn, sent, records>>
    /\ call' \in [Calls -> {"none", "sent", "ok", "error", "unsent"}]
    /\ \A c \in Steps : call'[<<"evaluate", c>>] = "ok" => call[<<"evaluate", c>>] = "ok"
    /\ store' \in Seq(Entries) /\ Len(store') <= MaxTurns

LEMMA StartEvaluateFacts ==
    ASSUME TypeOK, NEW s \in Steps, StartEvaluate(s)
    PROVE  /\ call' \in [Calls -> {"none", "sent", "ok", "error", "unsent"}]
           /\ \A c \in Steps : call'[<<"evaluate", c>>] = "ok" => call[<<"evaluate", c>>] = "ok"
<1>1. PICK state \in {"sent", "unsent"} : call' = [call EXCEPT ![<<"evaluate", s>>] = state]
  BY DEF StartEvaluate
<1>2. call \in [Calls -> {"none", "sent", "ok", "error", "unsent"}]
      /\ \A c \in Steps : <<"evaluate", c>> \in Calls
  BY DEF TypeOK, Calls
<1>3. state # "ok"
  BY <1>1
<1>4. call' \in [Calls -> {"none", "sent", "ok", "error", "unsent"}]
  BY <1>1, <1>2
<1>5. ASSUME NEW c \in Steps, call'[<<"evaluate", c>>] = "ok" PROVE call[<<"evaluate", c>>] = "ok"
  BY <1>1, <1>2, <1>3, <1>5
<1> QED BY <1>4, <1>5

LEMMA OpenedFacts ==
    ASSUME TypeOK, NEW s \in Steps, NEW e, Began(s, e)
    PROVE  /\ step' \in [Steps -> StepRecords]
           /\ step'[s] = [step[s] EXCEPT !.pc = "model", !.eval = e]
           /\ \A q \in Steps : q # s => step'[q] = step[q]
           /\ step[s].pc = "idle"
<1>1. step \in [Steps -> StepRecords] /\ e \in Steps
      /\ step' = [step EXCEPT ![s].pc = "model", ![s].eval = e]
  BY SdkTypes DEF Began, Opened
<1>2. step' = [step EXCEPT ![s] = [step[s] EXCEPT !.pc = "model", !.eval = e]]
  BY <1>1
<1>3. [step[s] EXCEPT !.pc = "model", !.eval = e] \in StepRecords
  BY <1>1 DEF StepRecords
<1> QED BY <1>1, <1>2, <1>3 DEF Began, MayBegin

LEMMA BeganShows ==
    ASSUME ShowInv, NEW s \in Steps, NEW e, Began(s, e)
    PROVE  ShowInv'
<1>0. TypeOK
  BY DEF ShowInv
<1>1. /\ step' \in [Steps -> StepRecords] /\ step \in [Steps -> StepRecords] /\ step[s].pc = "idle"
      /\ step'[s] = [step[s] EXCEPT !.pc = "model", !.eval = e]
      /\ \A q \in Steps : q # s => step'[q] = step[q]
  BY <1>0, OpenedFacts, SdkTypes
<1>2. /\ step'[s].pc = "model" /\ step'[s].eval = e /\ e # None
      /\ step'[s].final = step[s].final
  BY <1>0, <1>1, SdkTypes DEF Began, StepRecords
<1>3. TypeOK'
  BY <1>0, <1>1 DEF TypeOK, Began, StepRecords, Entries
<1>4. StepsInOrder'
  <2> SUFFICES ASSUME NEW t \in Turns, NEW i \in 1..MaxSteps, NEW j \in 1..MaxSteps,
                      i < j, step'[<<t, j>>].pc # "idle"
               PROVE  step'[<<t, i>>].pc = "done" /\ ~step'[<<t, i>>].final
    BY DEF StepsInOrder
  <2>1. <<t, i>> \in Steps /\ <<t, j>> \in Steps /\ MaxSteps \in Nat
    BY <1>0, SdkTypes
  <2>2. CASE <<t, j>> = s
    <3>1. s[1] = t /\ s[2] = j /\ j > 1 /\ j - 1 \in 1..MaxSteps
      BY <2>1, <2>2
    <3>2. step[<<t, j - 1>>].pc = "done" /\ ~step[<<t, j - 1>>].final
      BY <3>1 DEF Began, MayBegin
    <3>3. step[<<t, i>>].pc = "done" /\ ~step[<<t, i>>].final
      <4>1. CASE i = j - 1
        BY <3>2, <4>1
      <4>2. CASE i < j - 1
        BY <3>1, <3>2, <4>2 DEF ShowInv, StepsInOrder
      <4> QED BY <3>1, <4>1, <4>2
    <3> QED BY <1>1, <2>1, <3>3
  <2>3. CASE <<t, j>> # s
    <3>1. step[<<t, j>>].pc # "idle"
      BY <1>1, <2>1, <2>3
    <3>2. step[<<t, i>>].pc = "done" /\ ~step[<<t, i>>].final
      BY <3>1 DEF ShowInv, StepsInOrder
    <3> QED BY <1>1, <2>1, <3>2
  <2> QED BY <2>2, <2>3
<1>5. BegunHaveEval'
  BY <1>1, <1>2 DEF ShowInv, BegunHaveEval
<1>6. SinglesAreFinal'
  BY <1>1, <1>2 DEF ShowInv, SinglesAreFinal, ModeOf, Began
<1>7. RepliesAreRecorded'
  BY DEF ShowInv, RepliesAreRecorded, Began
<1>8. ASSUME NEW q \in Steps, sent'[q] # None PROVE Attests(sent'[q], step'[q], records')
  <2>1. Attests(sent[q], step[q], records)
    BY <1>8 DEF ShowInv, SentIsWhatWasShown, Began
  <2>2. q # s
    BY <1>1, <2>1 DEF Attests, Over
  <2>3. step'[q] = step[q]
    BY <1>1, <2>2
  <2> QED BY <2>1, <2>3 DEF Attests, Began
<1>9. SentIsWhatWasShown'
  BY <1>8 DEF SentIsWhatWasShown, Began
<1> QED BY <1>3, <1>4, <1>5, <1>6, <1>7, <1>9 DEF ShowInv

-----------------------------------------------------------------------------
(* The end of a step.                                                      *)

LEMMA AttestTellsTheTruth ==
    ASSUME ShowInv, NEW s \in Steps, AfterEvaluation(s), MayAttest(s),
           NEW option \in Options(s)
    PROVE  LET m == [eval |-> step[s].eval, text |-> step[s].text, rendered |-> Rendered(s, option)]
           IN /\ m \in [eval : Steps, text : 0..MaxChunks, rendered : BOOLEAN]
              /\ m.text = step[s].text /\ m.eval = step[s].eval
              /\ records[m.eval] # None /\ (m.rendered => records[m.eval] = "serve")
<1> DEFINE e == step[s].eval
           rendered == Rendered(s, option)
<1>1. step[s] \in StepRecords /\ step[s].pc = "flush"
  BY SdkTypes DEF ShowInv, AfterEvaluation
<1>2. e \in Steps /\ step[s].text \in 0..MaxChunks
  BY <1>1 DEF StepRecords, ShowInv, BegunHaveEval
<1>3. call[<<"evaluate", e>>] = "ok" /\ Seen(e) = records[e]
  BY DEF MayAttest, Seen
<1>4. records[e] # None
  BY <1>2, <1>3 DEF ShowInv, RepliesAreRecorded
<1>5. rendered \in BOOLEAN /\ (rendered => records[e] = "serve")
  <2>1. CASE option = "unset"
    BY <1>3, <2>1 DEF Rendered
  <2>2. CASE option = "hidden"
    BY <2>2 DEF Rendered
  <2>3. CASE option = "shown"
    <3>1. Seen(e) = "serve"
      BY <2>3 DEF Options
    <3> QED BY <1>3, <2>3, <3>1 DEF Rendered
  <2> QED BY <2>1, <2>2, <2>3 DEF Options
<1> HIDE DEF rendered, e
<1>6. [eval |-> e, text |-> step[s].text, rendered |-> rendered]
          \in [eval : Steps, text : 0..MaxChunks, rendered : BOOLEAN]
  BY <1>2, <1>5
<1> QED BY <1>4, <1>5, <1>6 DEF e, rendered

LEMMA AfterEvaluationProgress ==
    ASSUME TypeOK, NEW s \in Steps, AfterEvaluation(s), SinglesAreFinal
    PROVE  \E r : /\ Progress(s, r) /\ r.pc \in Over
                  /\ r.text = step[s].text /\ r.final = step[s].final
<1>1. step \in [Steps -> StepRecords] /\ step[s].pc = "flush"
  BY SdkTypes DEF AfterEvaluation
<1>2. PICK pc \in {"done", "attest"} : step' = [step EXCEPT ![s].pc = pc]
  BY DEF AfterEvaluation
<1> DEFINE r == [step[s] EXCEPT !.pc = pc]
<1>3. step' = [step EXCEPT ![s] = r]
  BY <1>1, <1>2
<1>4. /\ r \in StepRecords /\ r.pc = pc /\ r.eval = step[s].eval
      /\ r.final = step[s].final /\ r.text = step[s].text
  BY <1>1, <1>2 DEF StepRecords
<1> HIDE DEF r
<1>5. ModeOf(s) \notin Middleware => r.final
  BY <1>4 DEF SinglesAreFinal
<1>6. Progress(s, r) /\ r.pc \in Over
  BY <1>1, <1>2, <1>3, <1>4, <1>5 DEF Progress, Over
<1> QED BY <1>4, <1>6

LEMMA AfterEvaluationShows ==
    ASSUME ShowInv, KeysDiffer, NEW s \in Steps, AfterEvaluation(s)
    PROVE  ShowInv'
<1>0. TypeOK /\ SinglesAreFinal /\ step \in [Steps -> StepRecords] /\ step[s].pc = "flush"
      /\ UNCHANGED <<turn, records>>
  BY SdkTypes DEF ShowInv, AfterEvaluation
<1>1. PICK r : /\ Progress(s, r) /\ r.pc \in Over
               /\ r.text = step[s].text /\ r.final = step[s].final
  BY <1>0, AfterEvaluationProgress
<1>2. step' \in [Steps -> StepRecords] /\ StepsInOrder' /\ BegunHaveEval' /\ SinglesAreFinal'
  BY <1>0, <1>1, ProgressKeeps
<1>3. step'[s] = r /\ r.eval = step[s].eval /\ \A q \in Steps : q # s => step'[q] = step[q]
  BY <1>0, <1>1 DEF Progress
<1>4. store' \in Seq(Entries) /\ Len(store') <= MaxTurns
  BY <1>0, EndedFacts DEF AfterEvaluation, TypeOK, Entries
<1>5. sent[s] = None
  BY <1>0 DEF ShowInv, SentIsWhatWasShown, Attests, Over
<1>6. /\ call' \in [Calls -> {"none", "sent", "ok", "error", "unsent"}]
      /\ \A e \in Steps : call'[<<"evaluate", e>>] = call[<<"evaluate", e>>]
      /\ sent' \in [Steps -> [eval : Steps, text : 0..MaxChunks, rendered : BOOLEAN] \cup {None}]
      /\ \A q \in Steps : q # s => sent'[q] = sent[q]
      /\ sent'[s] # None => Attests(sent'[s], step'[s], records')
  <2>0. /\ call \in [Calls -> {"none", "sent", "ok", "error", "unsent"}]
        /\ sent \in [Steps -> [eval : Steps, text : 0..MaxChunks, rendered : BOOLEAN] \cup {None}]
        /\ \A e \in Steps : <<"evaluate", e>> \in Calls /\ <<"attest", e>> \in Calls
    BY <1>0 DEF TypeOK, Calls
  <2>1. CASE ~MayAttest(s)
    BY <1>5, <2>0, <2>1 DEF AfterEvaluation
  <2>2. CASE MayAttest(s)
    <3>1. PICK state \in {"sent", "unsent"}, option \in Options(s) :
              /\ call' = [call EXCEPT ![<<"attest", s>>] = state]
              /\ sent' = [sent EXCEPT ![s] =
                     IF state = "sent"
                     THEN [eval |-> step[s].eval, text |-> step[s].text,
                           rendered |-> Rendered(s, option)]
                     ELSE None]
      BY <2>2 DEF AfterEvaluation, Attest
    <3> DEFINE m == [eval |-> step[s].eval, text |-> step[s].text, rendered |-> Rendered(s, option)]
    <3>2. /\ m \in [eval : Steps, text : 0..MaxChunks, rendered : BOOLEAN]
          /\ m.text = step[s].text /\ m.eval = step[s].eval
          /\ records[m.eval] # None /\ (m.rendered => records[m.eval] = "serve")
      BY <2>2, AttestTellsTheTruth
    <3>3. sent' = [sent EXCEPT ![s] = IF state = "sent" THEN m ELSE None]
      BY <3>1
    <3> HIDE DEF m
    <3>4. Attests(m, step'[s], records')
      BY <1>0, <1>1, <1>3, <2>2, <3>2 DEF Attests, MayAttest
    <3>5. \A e \in Steps : call'[<<"evaluate", e>>] = call[<<"evaluate", e>>]
      BY <2>0, <3>1
    <3>6. call' \in [Calls -> {"none", "sent", "ok", "error", "unsent"}]
      BY <2>0, <3>1
    <3>7. sent'[s] # None => sent'[s] = m
      BY <2>0, <3>3
    <3>8. sent'[s] # None => Attests(sent'[s], step'[s], records')
      BY <3>4, <3>7
    <3>9. sent' \in [Steps -> [eval : Steps, text : 0..MaxChunks, rendered : BOOLEAN] \cup {None}]
      BY <2>0, <3>2, <3>3
    <3>10. \A q \in Steps : q # s => sent'[q] = sent[q]
      BY <2>0, <3>3
    <3> QED BY <3>5, <3>6, <3>8, <3>9, <3>10
  <2> QED BY <2>1, <2>2
<1>7. TypeOK'
  BY <1>0, <1>2, <1>4, <1>6 DEF TypeOK, StepRecords, Entries
<1>8. RepliesAreRecorded'
  BY <1>0, <1>6 DEF ShowInv, RepliesAreRecorded
<1>9. ASSUME NEW q \in Steps, sent'[q] # None PROVE Attests(sent'[q], step'[q], records')
  <2>1. CASE q = s
    BY <1>6, <1>9, <2>1
  <2>2. CASE q # s
    <3>1. sent'[q] = sent[q] /\ step'[q] = step[q]
      BY <1>3, <1>6, <2>2
    <3>2. Attests(sent[q], step[q], records)
      BY <1>9, <3>1 DEF ShowInv, SentIsWhatWasShown
    <3> QED BY <1>0, <3>1, <3>2 DEF Attests
  <2> QED BY <2>1, <2>2
<1>10. SentIsWhatWasShown'
  BY <1>9 DEF SentIsWhatWasShown
<1> QED BY <1>2, <1>7, <1>8, <1>10 DEF ShowInv

-----------------------------------------------------------------------------
(* The store remembers every turn it must.                                 *)

\* A step that neither begins a model call nor touches the store.
LEMMA QuietShares ==
    ASSUME ShareInv, ShowInv', UNCHANGED <<turn, store>>,
           \A q \in Steps : step'[q].eval = step[q].eval,
           \A q \in Steps : step[q].pc \in Over =>
               step'[q].pc \in Over /\ step'[q].final = step[q].final
    PROVE  ShareInv'
<1>0. TypeOK
  BY DEF ShareInv, ShowInv
<1>a. \A t \in Turns, i \in 1..MaxSteps : <<t, i>> \in Steps
  BY <1>0, SdkTypes
<1>b. 1 \in 1..MaxSteps /\ 2..MaxSteps \subseteq 1..MaxSteps
  BY <1>0, SdkTypes
<1>1. ASSUME NEW t \in Turns
      PROVE  /\ step'[<<t, 1>>].eval = step[<<t, 1>>].eval /\ Begun(t)' = Begun(t)
             /\ Tracked(t)' = Tracked(t) /\ Shared(t)' = Shared(t)
             /\ HasEnded(t) => HasEnded(t)'
  <2>1. step'[<<t, 1>>].eval = step[<<t, 1>>].eval
    BY <1>a, <1>b
  <2>2. Begun(t)' = Begun(t) /\ Tracked(t)' = Tracked(t) /\ Shared(t)' = Shared(t)
    BY <2>1 DEF Begun, Tracked, Shared
  <2>3. HasEnded(t) => HasEnded(t)'
    BY <1>a DEF HasEnded
  <2> QED BY <2>1, <2>2, <2>3
<1>2. ASSUME NEW t \in Turns PROVE Others(t)' = Others(t) /\ Crowded(t)' = Crowded(t)
  <2>1. Others(t)' = Others(t)
    BY <1>1 DEF Others
  <2> QED BY <2>1 DEF Crowded
<1>3. KeysDiffer' /\ KeysAreOfTurns' /\ TurnsAreTracked'
  BY <1>1, <1>2 DEF ShareInv, KeysDiffer, KeysAreOfTurns, TurnsAreTracked
<1>4. OneEvaluatePerTurn'
  <2> SUFFICES ASSUME NEW t \in Turns, NEW i \in 2..MaxSteps,
                      step'[<<t, i>>].eval \notin {None, step'[<<t, 1>>].eval}
               PROVE  Crowded(t)' \/ Shared(t)'
    BY DEF OneEvaluatePerTurn, Crowded, Others, Shared
  <2>1. i \in 1..MaxSteps
    BY <1>b
  <2>2. step[<<t, i>>].eval \notin {None, step[<<t, 1>>].eval}
    BY <1>a, <1>1, <2>1
  <2>3. Crowded(t) \/ Shared(t)
    BY <2>2 DEF ShareInv, OneEvaluatePerTurn, Crowded, Others, Shared
  <2> QED BY <1>1, <1>2, <2>3
<1> QED BY <1>3, <1>4 DEF ShareInv

\* The end of a turn takes its entry, and no other turn's without its key.
LEMMA AfterEvaluationShares ==
    ASSUME ShareInv, NEW s \in Steps, AfterEvaluation(s)
    PROVE  ShareInv'
<1>0. TypeOK /\ SinglesAreFinal /\ KeysDiffer /\ UNCHANGED turn
  BY DEF ShareInv, ShowInv, AfterEvaluation
<1>1. ShowInv'
  BY AfterEvaluationShows DEF ShareInv
<1>2. PICK r : /\ Progress(s, r) /\ r.pc \in Over
               /\ r.text = step[s].text /\ r.final = step[s].final
  BY <1>0, AfterEvaluationProgress
<1>3. /\ step'[s] = r /\ r.eval = step[s].eval
      /\ \A q \in Steps : q # s => step'[q] = step[q]
  BY <1>0, <1>2, SdkTypes DEF Progress
<1>4. /\ \A q \in Steps : step'[q].eval = step[q].eval
      /\ \A q \in Steps : step[q].pc \in Over =>
             step'[q].pc \in Over /\ step'[q].final = step[q].final
  BY <1>2, <1>3
<1>5. CASE store' = store
  BY <1>0, <1>1, <1>4, <1>5, QuietShares
<1>6. CASE step[s].final /\ store' = Ended(KeyOf(s))
  <2>1. /\ \A n \in DOMAIN store' : \E m \in DOMAIN store : store'[n] = store[m]
        /\ \A m, n \in DOMAIN store' : store'[m].key = store'[n].key => m = n
        /\ \A m \in DOMAIN store : store[m].key # KeyOf(s) =>
               \E n \in DOMAIN store' : store'[n] = store[m]
    BY <1>0, <1>6, EndedFacts
  <2>a. \A t \in Turns, i \in 1..MaxSteps : <<t, i>> \in Steps
    BY <1>0, SdkTypes
  <2>b. 1 \in 1..MaxSteps /\ 2..MaxSteps \subseteq 1..MaxSteps
    BY <1>0, SdkTypes
  <2>2. \A t \in Turns : step'[<<t, 1>>].eval = step[<<t, 1>>].eval
    BY <1>4, <2>a, <2>b
  <2>3. \A t \in Turns : Begun(t)' = Begun(t) /\ Shared(t)' = Shared(t)
    BY <1>0, <2>2 DEF Begun, Shared
  <2>4. ASSUME NEW t \in Turns PROVE Others(t)' = Others(t) /\ Crowded(t)' = Crowded(t)
    <3>1. Others(t)' = Others(t)
      BY <1>0, <2>2 DEF Others
    <3> QED BY <3>1 DEF Crowded
  <2>5. KeysDiffer'
    BY <2>1 DEF KeysDiffer
  <2>6. KeysAreOfTurns'
    <3> SUFFICES ASSUME NEW n \in DOMAIN store'
                 PROVE  \E t \in Turns : Begun(t)' /\ turn'[t].key = store'[n].key
      BY DEF KeysAreOfTurns
    <3>1. PICK m \in DOMAIN store : store'[n] = store[m]
      BY <2>1
    <3>2. PICK t \in Turns : Begun(t) /\ turn[t].key = store[m].key
      BY DEF ShareInv, KeysAreOfTurns
    <3> QED BY <1>0, <2>3, <3>1, <3>2
  <2>7. ASSUME NEW t \in Turns, Begun(t)'
        PROVE  Tracked(t)' \/ HasEnded(t)' \/ Crowded(t)' \/ Shared(t)'
    <3>1. Tracked(t) \/ HasEnded(t) \/ Crowded(t) \/ Shared(t)
      BY <2>3, <2>7 DEF ShareInv, TurnsAreTracked
    <3>2. CASE HasEnded(t)
      BY <1>4, <2>a, <3>2 DEF HasEnded
    <3>3. CASE t = s[1]
      <4>1. s = <<t, s[2]>> /\ s[2] \in 1..MaxSteps
        BY <1>0, <3>3, SdkTypes
      <4>2. step'[<<t, s[2]>>].final /\ step'[<<t, s[2]>>].pc \in Over
        BY <1>2, <1>3, <1>6, <4>1
      <4> QED BY <4>1, <4>2 DEF HasEnded
    <3>4. CASE t # s[1] /\ turn[t].key = KeyOf(s)
      <4>1. s[1] \in Turns \ {t}
        BY <1>0, <3>4, SdkTypes
      <4>2. Shared(t)
        BY <3>4, <4>1 DEF Shared, KeyOf
      <4> QED BY <2>3, <4>2
    <3>5. CASE Tracked(t) /\ turn[t].key # KeyOf(s)
      <4>1. PICK m \in DOMAIN store :
                store[m].key = turn[t].key /\ store[m].eval = step[<<t, 1>>].eval
        BY <3>5 DEF Tracked
      <4>2. PICK n \in DOMAIN store' : store'[n] = store[m]
        BY <2>1, <3>5, <4>1
      <4> QED BY <1>0, <2>2, <4>1, <4>2 DEF Tracked
    <3> QED BY <2>3, <2>4, <3>1, <3>2, <3>3, <3>4, <3>5
  <2>8. TurnsAreTracked'
    BY <2>7 DEF TurnsAreTracked
  <2>9. OneEvaluatePerTurn'
    <3> SUFFICES ASSUME NEW t \in Turns, NEW i \in 2..MaxSteps,
                        step'[<<t, i>>].eval \notin {None, step'[<<t, 1>>].eval}
                 PROVE  Crowded(t)' \/ Shared(t)'
      BY DEF OneEvaluatePerTurn, Crowded, Others, Shared
    <3>1. step[<<t, i>>].eval \notin {None, step[<<t, 1>>].eval}
      BY <1>4, <2>a, <2>b, <2>2
    <3>2. Crowded(t) \/ Shared(t)
      BY <3>1 DEF ShareInv, OneEvaluatePerTurn, Crowded, Others, Shared
    <3> QED BY <2>3, <2>4, <3>2
  <2> QED BY <1>1, <2>5, <2>6, <2>8, <2>9 DEF ShareInv
<1> QED BY <1>5, <1>6 DEF AfterEvaluation

\* No model call begins after the one that ended its turn.
LEMMA NoStepAfterTheEnd ==
    ASSUME ShowInv, NEW s \in Steps, MayBegin(s)
    PROVE  ~HasEnded(s[1])
<1> SUFFICES ASSUME NEW i \in 1..MaxSteps, step[<<s[1], i>>].final, step[<<s[1], i>>].pc \in Over
             PROVE  FALSE
  BY DEF HasEnded
<1>1. /\ s[1] \in Turns /\ s[2] \in 1..MaxSteps /\ s = <<s[1], s[2]>> /\ MaxSteps \in Nat
      /\ step[s].pc = "idle" /\ step[<<s[1], i>>].pc # "idle"
  BY SdkTypes DEF ShowInv, MayBegin, Over
<1>2. i # s[2]
  BY <1>1
<1>3. CASE i > s[2]
  <2>1. step[<<s[1], s[2]>>].pc = "done"
    BY <1>1, <1>3 DEF ShowInv, StepsInOrder
  <2> QED BY <1>1, <2>1
<1>4. CASE i < s[2]
  <2>1. /\ s[2] - 1 \in 1..MaxSteps /\ s[2] > 1
        /\ step[<<s[1], s[2] - 1>>].pc = "done" /\ ~step[<<s[1], s[2] - 1>>].final
    BY <1>1, <1>4 DEF MayBegin
  <2>2. i < s[2] - 1
    BY <1>1, <1>4, <2>1
  <2> QED BY <1>1, <2>1, <2>2 DEF ShowInv, StepsInOrder
<1> QED BY <1>1, <1>2, <1>3, <1>4

LEMMA FirstStepIsDone ==
    ASSUME ShowInv, NEW s \in Steps, MayBegin(s), s[2] > 1
    PROVE  step[<<s[1], 1>>].pc = "done" /\ step[<<s[1], 1>>].eval # None
<1>1. /\ s[1] \in Turns /\ s[2] \in 1..MaxSteps /\ MaxSteps \in Nat
      /\ \A i \in 1..MaxSteps : <<s[1], i>> \in Steps
  BY SdkTypes DEF ShowInv
<1>2. s[2] - 1 \in 1..MaxSteps /\ 1 \in 1..MaxSteps /\ step[<<s[1], s[2] - 1>>].pc = "done"
  BY <1>1 DEF MayBegin
<1>3. step[<<s[1], 1>>].pc = "done"
  <2>1. CASE s[2] - 1 = 1
    BY <1>2, <2>1
  <2>2. CASE 1 < s[2] - 1
    BY <1>1, <1>2, <2>2 DEF ShowInv, StepsInOrder
  <2> QED BY <1>1, <1>2, <2>1, <2>2
<1> QED BY <1>1, <1>2, <1>3 DEF ShowInv, BegunHaveEval

\* What has begun, ended, crowded out or shared its key stays so.
LEMMA BeganIsMonotone ==
    ASSUME ShareInv, NEW s \in Steps, NEW e, Began(s, e), NEW t \in Turns
    PROVE  /\ Begun(t) => Begun(t)' /\ step'[<<t, 1>>].eval = step[<<t, 1>>].eval
           /\ Begun(t)' => Begun(t) \/ (<<t, 1>> = s /\ step'[<<t, 1>>].eval = e)
           /\ ModeOf(s) \in Middleware /\ t = s[1] => Begun(t)'
           /\ HasEnded(t) => HasEnded(t)'
           /\ Shared(t)' = Shared(t)
           /\ Crowded(t) => Crowded(t)'
           /\ step[<<t, 1>>].eval # None => step'[<<t, 1>>].eval = step[<<t, 1>>].eval
<1>0. TypeOK /\ ShowInv /\ MayBegin(s) /\ UNCHANGED turn
  BY DEF ShareInv, ShowInv, Began
<1>1. /\ step'[s].eval = e /\ e # None /\ step[s].pc = "idle" /\ step[s].eval = None
      /\ \A q \in Steps : q # s => step'[q] = step[q]
  <2>1. step[s] \in StepRecords /\ e \in Steps /\ None \notin Steps
    BY <1>0, SdkTypes DEF Began
  <2>2. /\ step'[s] = [step[s] EXCEPT !.pc = "model", !.eval = e] /\ step[s].pc = "idle"
        /\ \A q \in Steps : q # s => step'[q] = step[q]
    BY <1>0, OpenedFacts
  <2> QED BY <2>1, <2>2 DEF StepRecords, ShareInv, ShowInv, BegunHaveEval
<1>a. \A u \in Turns, i \in 1..MaxSteps : <<u, i>> \in Steps
  BY <1>0, SdkTypes
<1>b. 1 \in 1..MaxSteps
  BY <1>0, SdkTypes
<1>2. \A u \in Turns : step[<<u, 1>>].eval # None => step'[<<u, 1>>].eval = step[<<u, 1>>].eval
  BY <1>1, <1>a, <1>b
<1>3. \A u \in Turns : Begun(u) => Begun(u)' /\ step'[<<u, 1>>].eval = step[<<u, 1>>].eval
  BY <1>0, <1>2 DEF Begun
<1>4. Begun(t)' => Begun(t) \/ (<<t, 1>> = s /\ step'[<<t, 1>>].eval = e)
  BY <1>0, <1>1, <1>a, <1>b DEF Begun
<1>5. ASSUME ModeOf(s) \in Middleware, t = s[1] PROVE Begun(t)'
  <2>1. s = <<t, s[2]>> /\ s[2] \in 1..MaxSteps /\ MaxSteps \in Nat
    BY <1>0, <1>5, SdkTypes
  <2>2. CASE s[2] = 1
    BY <1>0, <1>1, <1>5, <2>1, <2>2 DEF Begun, ModeOf
  <2>3. CASE s[2] > 1
    <3>1. step[<<t, 1>>].eval # None
      BY <1>0, <1>5, <2>3, FirstStepIsDone
    <3> QED BY <1>0, <1>2, <1>5, <3>1 DEF Begun, ModeOf
  <2> QED BY <2>1, <2>2, <2>3
<1>6. HasEnded(t) => HasEnded(t)'
  BY <1>1, <1>a DEF HasEnded, Over
<1>7. Shared(t)' = Shared(t)
  BY <1>0 DEF Shared
<1>8. ASSUME Crowded(t) PROVE Crowded(t)'
  <2>1. Others(t) \subseteq Others(t)'
    <3> SUFFICES ASSUME NEW u \in Turns \ {t}, turn[u].mode \in Middleware, step[<<u, 1>>].eval # None
                 PROVE  turn'[u].mode \in Middleware /\ step'[<<u, 1>>].eval # None
      BY DEF Others
    <3> QED BY <1>0, <1>2
  <2>2. Others(t)' \subseteq Turns /\ IsFiniteSet(Turns)
    BY SdkAssumption DEF Others
  <2>3. IsFiniteSet(Others(t)')
    BY <2>2, FS_Subset
  <2>4. IsFiniteSet(Others(t)) /\ Cardinality(Others(t)) <= Cardinality(Others(t)')
    BY <2>1, <2>3, FS_Subset
  <2>5. Cardinality(Others(t)) \in Nat /\ Cardinality(Others(t)') \in Nat /\ MaxTurns \in Nat
    BY <1>0, <2>3, <2>4, FS_CardinalityType, SdkTypes
  <2> DEFINE a == Cardinality(Others(t))
             b == Cardinality(Others(t)')
  <2>6. a >= MaxTurns
    BY <1>8 DEF Crowded
  <2> HIDE DEF a, b
  <2>7. b >= MaxTurns
    <3>1. a \in Nat /\ b \in Nat /\ MaxTurns \in Nat /\ a <= b
      BY <2>4, <2>5 DEF a, b
    <3> QED BY <2>6, <3>1
  <2> QED BY <2>7 DEF Crowded, b
<1> QED BY <1>2, <1>3, <1>4, <1>5, <1>6, <1>7, <1>8

\* A step that joins or asks keeps the invariant if it joins its own turn's
\* evaluation whenever the store should have it.
LEMMA BeganShares ==
    ASSUME ShareInv, NEW s \in Steps, NEW e, Began(s, e),
           KeysDiffer', KeysAreOfTurns', TurnsAreTracked',
           s[2] > 1 => e = step[<<s[1], 1>>].eval \/ Crowded(s[1]) \/ Shared(s[1])
    PROVE  ShareInv'
<1>0. TypeOK /\ ShowInv /\ MayBegin(s)
  BY DEF ShareInv, ShowInv, Began
<1>1. ShowInv'
  BY <1>0, BeganShows
<1>2. /\ step'[s].eval = e
      /\ \A q \in Steps : q # s => step'[q] = step[q]
  <2>1. step[s] \in StepRecords
    BY <1>0, SdkTypes
  <2>2. /\ step'[s] = [step[s] EXCEPT !.pc = "model", !.eval = e]
        /\ \A q \in Steps : q # s => step'[q] = step[q]
    BY <1>0, OpenedFacts
  <2> QED BY <2>1, <2>2 DEF StepRecords
<1>a. \A u \in Turns, i \in 1..MaxSteps : <<u, i>> \in Steps
  BY <1>0, SdkTypes
<1>b. 1 \in 1..MaxSteps /\ MaxSteps \in Nat
  BY <1>0, SdkTypes
<1>3. OneEvaluatePerTurn'
  <2> SUFFICES ASSUME NEW t \in Turns, NEW i \in 2..MaxSteps,
                      step'[<<t, i>>].eval \notin {None, step'[<<t, 1>>].eval}
               PROVE  Crowded(t)' \/ Shared(t)'
    BY DEF OneEvaluatePerTurn, Crowded, Others, Shared
  <2>0. i \in 1..MaxSteps /\ i > 1 /\ <<t, i>> \in Steps
    BY <1>a, <1>b
  <2>1. CASE <<t, i>> = s
    <3>1. t = s[1] /\ s[2] > 1
      BY <2>0, <2>1
    <3>2. step[<<t, 1>>].eval # None
      BY <1>0, <3>1, FirstStepIsDone
    <3>3. step'[<<t, 1>>].eval = step[<<t, 1>>].eval
      BY <3>2, BeganIsMonotone
    <3>4. e # step[<<t, 1>>].eval
      BY <1>2, <2>1, <3>3
    <3> QED BY <3>1, <3>4, BeganIsMonotone
  <2>2. CASE <<t, i>> # s
    <3>1. step[<<t, i>>].eval = step'[<<t, i>>].eval /\ step[<<t, i>>].eval # None
      BY <1>2, <2>0, <2>2
    <3>2. step[<<t, i>>].pc # "idle"
      BY <2>0, <3>1 DEF ShareInv, ShowInv, BegunHaveEval
    <3>3. step[<<t, 1>>].pc = "done"
      BY <1>b, <2>0, <3>2 DEF ShareInv, ShowInv, StepsInOrder
    <3>4. step[<<t, 1>>].eval # None
      BY <1>a, <1>b, <3>3 DEF ShareInv, ShowInv, BegunHaveEval
    <3>5. step[<<t, i>>].eval # step[<<t, 1>>].eval
      BY <3>1, <3>4, BeganIsMonotone
    <3>6. Crowded(t) \/ Shared(t)
      BY <3>1, <3>5 DEF ShareInv, OneEvaluatePerTurn, Crowded, Others, Shared
    <3> QED BY <3>6, BeganIsMonotone
  <2> QED BY <2>1, <2>2
<1> QED BY <1>1, <1>3 DEF ShareInv

LEMMA JoiningShares ==
    ASSUME ShareInv, NEW s \in Steps, NEW i \in Running(KeyOf(s)), Began(s, store[i].eval),
           ModeOf(s) \in Middleware, UNCHANGED store
    PROVE  ShareInv'
<1> DEFINE e == store[i].eval
<1>0. /\ TypeOK /\ ShowInv /\ MayBegin(s) /\ UNCHANGED turn /\ Began(s, e)
      /\ i \in DOMAIN store /\ store[i].key = KeyOf(s)
      /\ s[1] \in Turns /\ s = <<s[1], s[2]>>
  BY SdkTypes DEF ShareInv, ShowInv, Began, Running
<1>1. KeysDiffer'
  BY DEF ShareInv, KeysDiffer
<1>2. KeysAreOfTurns'
  BY <1>0, BeganIsMonotone DEF ShareInv, KeysAreOfTurns
<1>3. ASSUME NEW t \in Turns, Begun(t)'
      PROVE  Tracked(t)' \/ HasEnded(t)' \/ Crowded(t)' \/ Shared(t)'
  <2>1. CASE Begun(t)
    <3>1. Tracked(t) => Tracked(t)'
      BY <1>0, <2>1, BeganIsMonotone DEF Tracked
    <3> QED BY <1>0, <2>1, <3>1, BeganIsMonotone DEF ShareInv, TurnsAreTracked
  <2>2. CASE ~Begun(t)
    <3>1. <<t, 1>> = s /\ step'[<<t, 1>>].eval = e
      BY <1>0, <1>3, <2>2, BeganIsMonotone
    <3>2. Tracked(t)'
      BY <1>0, <3>1 DEF Tracked, KeyOf
    <3> QED BY <3>2
  <2> QED BY <2>1, <2>2
<1>4. TurnsAreTracked'
  BY <1>3 DEF TurnsAreTracked
<1>5. ASSUME s[2] > 1 PROVE e = step[<<s[1], 1>>].eval \/ Crowded(s[1]) \/ Shared(s[1])
  <2>1. Begun(s[1])
    BY <1>0, <1>5, FirstStepIsDone DEF Begun, ModeOf
  <2>2. ~HasEnded(s[1])
    BY <1>0, NoStepAfterTheEnd
  <2>3. Tracked(s[1]) \/ Crowded(s[1]) \/ Shared(s[1])
    BY <1>0, <2>1, <2>2 DEF ShareInv, TurnsAreTracked
  <2>4. ASSUME Tracked(s[1]) PROVE e = step[<<s[1], 1>>].eval
    BY <1>0, <2>4 DEF Tracked, ShareInv, KeysDiffer, KeyOf
  <2> QED BY <2>3, <2>4
<1> HIDE DEF e
<1> QED BY <1>0, <1>1, <1>2, <1>4, <1>5, BeganShares

\* The oldest entry goes when as many newer turns are in the store.
LEMMA EvictedIsCrowdedOut ==
    ASSUME NEW new, NEW t \in Turns, MaxTurns \in Nat, turn' = turn,
           \A n \in 1..MaxTurns :
               /\ new[n].key # turn[t].key
               /\ \E u \in Turns : Begun(u)' /\ turn[u].key = new[n].key,
           \A m, n \in 1..MaxTurns : new[m].key = new[n].key => m = n
    PROVE  Crowded(t)'
<1> DEFINE S == Others(t)'
           owner == [n \in 1..MaxTurns |-> CHOOSE u \in S : turn[u].key = new[n].key]
<1>1. IsFiniteSet(S) /\ Cardinality(S) \in Nat
  <2>1. S \in SUBSET Turns /\ IsFiniteSet(Turns)
    BY SdkAssumption DEF Others
  <2> QED BY <2>1, FS_Subset, FS_CardinalityType
<1>2. ASSUME NEW n \in 1..MaxTurns PROVE \E u \in S : turn[u].key = new[n].key
  <2>1. PICK u \in Turns : Begun(u)' /\ turn[u].key = new[n].key
    OBVIOUS
  <2>2. u # t
    BY <2>1
  <2>3. u \in S
    BY <2>1, <2>2 DEF Others, Begun
  <2> QED BY <2>1, <2>3
<1>3. \A n \in 1..MaxTurns : owner[n] \in S /\ turn[owner[n]].key = new[n].key
  BY <1>2
<1> HIDE DEF S
<1>4. owner \in [1..MaxTurns -> S]
  BY <1>3
<1> HIDE DEF owner
<1>5. IsFiniteSet(1..MaxTurns) /\ Cardinality(1..MaxTurns) = MaxTurns
  BY FS_Interval
<1>6. \A m, n \in 1..MaxTurns : owner[m] = owner[n] => m = n
  BY <1>3
<1>7. ~(Cardinality(S) < Cardinality(1..MaxTurns))
  BY <1>1, <1>4, <1>5, <1>6, FS_PigeonHole
<1>8. Cardinality(S) >= MaxTurns
  BY <1>1, <1>5, <1>7
<1> QED BY <1>8 DEF Crowded, S

LEMMA AskingShares ==
    ASSUME ShareInv, NEW s \in Steps, Running(KeyOf(s)) = {}, Began(s, s),
           ModeOf(s) \in Middleware, store' = Remembered(KeyOf(s), s)
    PROVE  ShareInv'
<1> DEFINE k == KeyOf(s)
           drop == IF Len(store) = MaxTurns THEN 1 ELSE 0
           len == Len(store)
<1>0. /\ TypeOK /\ ShowInv /\ MayBegin(s) /\ turn' = turn /\ k \in Keys
      /\ s[1] \in Turns /\ s = <<s[1], s[2]>> /\ turn[s[1]].key = k
      /\ \A n \in DOMAIN store : store[n].key # k
      /\ MaxTurns \in Nat \ {0}
  <2>1. TypeOK /\ ShowInv /\ MayBegin(s) /\ turn' = turn
    BY DEF ShareInv, ShowInv, Began
  <2>2. s[1] \in Turns /\ s = <<s[1], s[2]>> /\ turn[s[1]].key \in Keys /\ MaxTurns \in Nat \ {0}
    BY <2>1, SdkTypes
  <2> QED BY <2>1, <2>2 DEF Running, KeyOf
<1>1. /\ Len(store') = len + 1 - drop /\ Len(store') <= MaxTurns
      /\ len \in Nat /\ DOMAIN store' = 1..Len(store') /\ DOMAIN store = 1..len
      /\ store'[Len(store')] = [key |-> k, eval |-> s]
      /\ \A n \in 1..(Len(store') - 1) : store'[n] = store[n + drop]
  BY <1>0, RememberedFacts
<1> DEFINE newLen == Len(store')
<1>a. newLen = len + 1 - drop /\ len \in Nat /\ newLen <= MaxTurns
  BY <1>1
<1>b. drop = IF len = MaxTurns THEN 1 ELSE 0
  OBVIOUS
<1> HIDE DEF k, drop, len, newLen
<1>2. /\ drop \in {0, 1} /\ newLen = len + 1 - drop /\ len \in Nat /\ newLen <= MaxTurns
      /\ drop = 1 <=> len = MaxTurns
  BY <1>a, <1>b
<1>3. \A n \in 1..newLen : n = newLen \/ (n \in 1..(newLen - 1) /\ n + drop \in 1..len)
  BY <1>2
<1>4. /\ newLen \in 1..newLen /\ DOMAIN store' = 1..newLen /\ DOMAIN store = 1..len
      /\ store'[newLen] = [key |-> k, eval |-> s]
      /\ \A n \in 1..(newLen - 1) : store'[n] = store[n + drop]
  <2>1. newLen \in 1..newLen
    BY <1>0, <1>2
  <2> QED BY <1>1, <2>1 DEF newLen, len, drop, k
<1>5. \A m, n \in 1..newLen : store'[m].key = store'[n].key => m = n
  <2> SUFFICES ASSUME NEW m \in 1..newLen, NEW n \in 1..newLen, store'[m].key = store'[n].key
               PROVE  m = n
    OBVIOUS
  <2>1. CASE m = newLen /\ n = newLen
    BY <2>1
  <2>2. CASE m = newLen /\ n # newLen
    BY <1>0, <1>3, <1>4, <2>2
  <2>3. CASE m # newLen /\ n = newLen
    BY <1>0, <1>3, <1>4, <2>3
  <2>4. CASE m # newLen /\ n # newLen
    <3>1. /\ m + drop \in DOMAIN store /\ n + drop \in DOMAIN store
          /\ store[m + drop].key = store[n + drop].key
      BY <1>3, <1>4, <2>4
    <3>2. m + drop = n + drop
      BY <3>1 DEF ShareInv, KeysDiffer
    <3> QED BY <1>2, <3>2
  <2> QED BY <2>1, <2>2, <2>3, <2>4
<1>6. ASSUME NEW n \in 1..newLen
      PROVE  \E u \in Turns : Begun(u)' /\ turn[u].key = store'[n].key
  <2>1. CASE n = newLen
    <3>1. Begun(s[1])'
      BY <1>0, BeganIsMonotone
    <3> QED BY <1>0, <1>4, <2>1, <3>1
  <2>2. CASE n # newLen
    <3>1. n + drop \in DOMAIN store /\ store'[n] = store[n + drop]
      BY <1>3, <1>4, <2>2
    <3>2. PICK u \in Turns : Begun(u) /\ turn[u].key = store[n + drop].key
      BY <3>1 DEF ShareInv, KeysAreOfTurns
    <3> QED BY <3>1, <3>2, BeganIsMonotone
  <2> QED BY <2>1, <2>2
<1>7. KeysDiffer' /\ KeysAreOfTurns'
  BY <1>0, <1>4, <1>5, <1>6 DEF KeysDiffer, KeysAreOfTurns
<1>8. ASSUME NEW t \in Turns, Tracked(t), Begun(t) PROVE Tracked(t)' \/ Crowded(t)'
  <2>1. PICK m \in 1..len : store[m].key = turn[t].key /\ store[m].eval = step[<<t, 1>>].eval
    BY <1>4, <1>8 DEF Tracked
  <2>2. step'[<<t, 1>>].eval = step[<<t, 1>>].eval
    BY <1>8, BeganIsMonotone
  <2>3. CASE m > drop
    <3>1. m - drop \in 1..(newLen - 1) /\ (m - drop) + drop = m
      BY <1>2, <2>3
    <3>2. m - drop \in DOMAIN store' /\ store'[m - drop] = store[m]
      BY <1>2, <1>4, <3>1
    <3> QED BY <1>0, <2>1, <2>2, <3>2 DEF Tracked
  <2>4. CASE m <= drop
    <3>1. m = 1 /\ drop = 1 /\ newLen = MaxTurns
      BY <1>2, <2>4
    <3>2. ASSUME NEW n \in 1..MaxTurns PROVE store'[n].key # turn[t].key
      <4>1. CASE n = newLen
        BY <1>0, <1>4, <2>1, <4>1
      <4>2. CASE n # newLen
        <5>1. n + 1 \in DOMAIN store /\ store'[n] = store[n + 1] /\ m \in DOMAIN store /\ n + 1 # m
          BY <1>3, <1>4, <3>1, <4>2
        <5> QED BY <2>1, <5>1 DEF ShareInv, KeysDiffer
      <4> QED BY <4>1, <4>2
    <3>3. MaxTurns \in Nat
      BY <1>0
    <3>4. \A n \in 1..MaxTurns : \E u \in Turns : Begun(u)' /\ turn[u].key = store'[n].key
      BY <1>6, <3>1
    <3>5. \A i, n \in 1..MaxTurns : store'[i].key = store'[n].key => i = n
      BY <1>5, <3>1
    <3> QED BY <1>0, <3>2, <3>3, <3>4, <3>5, EvictedIsCrowdedOut
  <2> QED BY <1>2, <2>3, <2>4
<1>9. ASSUME NEW t \in Turns, Begun(t)'
      PROVE  Tracked(t)' \/ HasEnded(t)' \/ Crowded(t)' \/ Shared(t)'
  <2>1. CASE Begun(t)
    BY <1>8, <2>1, BeganIsMonotone DEF ShareInv, TurnsAreTracked
  <2>2. CASE ~Begun(t)
    <3>1. <<t, 1>> = s /\ step'[<<t, 1>>].eval = s
      BY <1>9, <2>2, BeganIsMonotone
    <3>2. Tracked(t)'
      BY <1>0, <1>4, <3>1 DEF Tracked
    <3> QED BY <3>2
  <2> QED BY <2>1, <2>2
<1>10. TurnsAreTracked'
  BY <1>9 DEF TurnsAreTracked
<1>11. ASSUME s[2] > 1 PROVE Crowded(s[1]) \/ Shared(s[1])
  <2>1. Begun(s[1])
    BY <1>0, <1>11, FirstStepIsDone DEF Begun, ModeOf
  <2>2. ~HasEnded(s[1])
    BY <1>0, NoStepAfterTheEnd
  <2>3. ~Tracked(s[1])
    BY <1>0 DEF Tracked
  <2> QED BY <1>0, <2>1, <2>2, <2>3 DEF ShareInv, TurnsAreTracked
<1> QED BY <1>7, <1>10, <1>11, BeganShares

LEMMA SingleShares ==
    ASSUME ShareInv, NEW s \in Steps, Began(s, s), ModeOf(s) \notin Middleware, UNCHANGED store
    PROVE  ShareInv'
<1>0. /\ TypeOK /\ ShowInv /\ MayBegin(s) /\ turn' = turn
      /\ s[1] \in Turns /\ s[2] \in 1..MaxSteps /\ MaxSteps \in Nat /\ s = <<s[1], s[2]>>
  BY SdkTypes DEF ShareInv, ShowInv, Began
<1>1. KeysDiffer' /\ KeysAreOfTurns'
  BY <1>0, BeganIsMonotone DEF ShareInv, KeysDiffer, KeysAreOfTurns
<1>2. ASSUME NEW t \in Turns, Begun(t)'
      PROVE  Tracked(t)' \/ HasEnded(t)' \/ Crowded(t)' \/ Shared(t)'
  <2>1. turn[t].mode \in Middleware
    BY <1>0, <1>2 DEF Begun
  <2>2. t # s[1]
    BY <2>1 DEF ModeOf
  <2>a. <<t, 1>> # s
    BY <1>0, <2>2
  <2>3. Begun(t)
    BY <1>2, <2>a, BeganIsMonotone
  <2>4. Tracked(t) => Tracked(t)'
    BY <1>0, <2>3, BeganIsMonotone DEF Tracked
  <2> QED BY <2>3, <2>4, BeganIsMonotone DEF ShareInv, TurnsAreTracked
<1>3. TurnsAreTracked'
  BY <1>2 DEF TurnsAreTracked
<1>4. ~(s[2] > 1)
  <2> SUFFICES ASSUME s[2] > 1 PROVE FALSE
    OBVIOUS
  <2>1. ~step[<<s[1], s[2] - 1>>].final
    BY <1>0 DEF MayBegin
  <2>2. s[2] - 1 \in 1..MaxSteps
    BY <1>0
  <2>3. <<s[1], s[2] - 1>> \in Steps
    BY <1>0, <2>2, SdkTypes
  <2>4. ModeOf(<<s[1], s[2] - 1>>) = ModeOf(s)
    BY DEF ModeOf
  <2> QED BY <2>1, <2>3, <2>4 DEF ShareInv, ShowInv, SinglesAreFinal
<1> QED BY <1>1, <1>3, <1>4, BeganShares

-----------------------------------------------------------------------------
LEMMA SdkInitHolds == Init => ShareInv
<1> SUFFICES ASSUME Init PROVE ShareInv
  OBVIOUS
<1>1. TypeOK
  BY SdkAssumption DEF Init, TypeOK, NewStep
<1>2. \A s \in Steps : step[s] = NewStep /\ sent[s] = None
  BY DEF Init
<1>3. \A t \in Turns, i \in 1..MaxSteps : <<t, i>> \in Steps
  BY <1>1, SdkTypes
<1>4. 1 \in 1..MaxSteps /\ 2..MaxSteps \subseteq 1..MaxSteps
  BY <1>1, SdkTypes
<1>5. StepsInOrder /\ BegunHaveEval /\ SinglesAreFinal /\ SentIsWhatWasShown
  BY <1>2, <1>3 DEF NewStep, StepsInOrder, BegunHaveEval, SinglesAreFinal, SentIsWhatWasShown
<1>6. RepliesAreRecorded
  BY DEF Init, RepliesAreRecorded, Calls
<1>7. KeysDiffer /\ KeysAreOfTurns
  BY DEF Init, KeysDiffer, KeysAreOfTurns
<1>8. TurnsAreTracked /\ OneEvaluatePerTurn
  BY <1>2, <1>3, <1>4 DEF NewStep, TurnsAreTracked, Begun, OneEvaluatePerTurn
<1> QED BY <1>1, <1>5, <1>6, <1>7, <1>8 DEF ShareInv, ShowInv

LEMMA ProgressShares ==
    ASSUME ShareInv, NEW s \in Steps, NEW r, Progress(s, r), UNCHANGED <<turn, store, sent, records>>,
           call' \in [Calls -> {"none", "sent", "ok", "error", "unsent"}],
           \A e \in Steps : call'[<<"evaluate", e>>] = "ok" => call[<<"evaluate", e>>] = "ok"
    PROVE  ShareInv'
<1>1. ShowInv'
  BY ProgressShows DEF ShareInv
<1>2. step \in [Steps -> StepRecords]
  BY SdkTypes DEF ShareInv, ShowInv
<1>3. /\ \A q \in Steps : step'[q].eval = step[q].eval
      /\ \A q \in Steps : step[q].pc \in Over =>
             step'[q].pc \in Over /\ step'[q].final = step[q].final
  BY <1>2 DEF Progress
<1> QED BY <1>1, <1>3, QuietShares

\* Every other step of a model call changes its record and no other state;
\* cancelling it settles its own calls.
LEMMA RecordStepShares ==
    ASSUME ShareInv, NEW s \in Steps,
           \/ Transform(s) \/ OnChunk(s) \/ AbortStream(s) \/ ModelEnds(s) \/ ModelFails(s)
           \/ GenerateRaises(s) \/ Cancelled(s) \/ AfterAttest(s) \/ FlushDeadline(s)
    PROVE  ShareInv'
<1>0. /\ step \in [Steps -> StepRecords] /\ step[s] \in StepRecords /\ MaxChunks \in Nat
      /\ call \in [Calls -> {"none", "sent", "ok", "error", "unsent"}]
      /\ \A e \in Steps : <<"evaluate", e>> \in Calls
      /\ ModeOf(s) \notin Middleware => step[s].final
  <2>1. TypeOK /\ SinglesAreFinal
    BY DEF ShareInv, ShowInv
  <2> QED BY <2>1, SdkTypes, SdkAssumption DEF TypeOK, Calls, SinglesAreFinal
<1>1. ASSUME Transform(s) PROVE \E r : Progress(s, r)
  <2> DEFINE r == [step[s] EXCEPT !.text = @ + 1]
  <2>1. step' = [step EXCEPT ![s] = r]
    BY <1>0, <1>1 DEF Transform
  <2>2. r \in StepRecords /\ r.pc = "model" /\ r.eval = step[s].eval /\ r.final = step[s].final
    BY <1>0, <1>1 DEF Transform, StepRecords
  <2>3. step[s].pc = "model" /\ ModeOf(s) \in Middleware
    BY <1>1 DEF Transform, Middleware
  <2> HIDE DEF r
  <2> QED BY <2>1, <2>2, <2>3 DEF Progress, Over
<1>2. ASSUME OnChunk(s) PROVE \E r : Progress(s, r)
  <2> DEFINE text == IF step[s].pc = "model" /\ ~step[s].void THEN step[s].text + 1 ELSE step[s].text
             r == [step[s] EXCEPT !.text = text]
  <2>1. step' = [step EXCEPT ![s] = r]
    BY <1>0, <1>2 DEF OnChunk
  <2>2. text \in 0..MaxChunks /\ (step[s].pc # "model" => text = step[s].text)
    BY <1>0, <1>2 DEF OnChunk, StepRecords
  <2> HIDE DEF text
  <2>3. /\ r \in StepRecords /\ r.pc = step[s].pc /\ r.eval = step[s].eval
        /\ r.final = step[s].final /\ r.text = text
    BY <1>0, <2>2 DEF StepRecords
  <2>4. step[s].pc \in {"model", "flush", "attest"}
    BY <1>2 DEF OnChunk
  <2> HIDE DEF r
  <2> QED BY <1>0, <2>1, <2>2, <2>3, <2>4 DEF Progress, Over
<1>3. ASSUME AbortStream(s) PROVE \E r : Progress(s, r)
  <2> DEFINE r == [step[s] EXCEPT !.void = TRUE]
  <2>1. step' = [step EXCEPT ![s] = r]
    BY <1>0, <1>3 DEF AbortStream
  <2>2. /\ r \in StepRecords /\ r.pc = step[s].pc /\ r.eval = step[s].eval
        /\ r.final = step[s].final /\ r.text = step[s].text
    BY <1>0 DEF StepRecords
  <2>3. step[s].pc \in {"model", "flush", "attest"}
    BY <1>3 DEF AbortStream
  <2> HIDE DEF r
  <2> QED BY <1>0, <2>1, <2>2, <2>3 DEF Progress
<1>4. ASSUME ModelEnds(s) PROVE \E r : Progress(s, r)
  <2>1. PICK final \in BOOLEAN :
            /\ final \/ ModeOf(s) \in Middleware
            /\ step' = [step EXCEPT ![s].pc = "flush", ![s].final = final]
    BY <1>4 DEF ModelEnds
  <2> DEFINE r == [step[s] EXCEPT !.pc = "flush", !.final = final]
  <2>2. step' = [step EXCEPT ![s] = r]
    BY <1>0, <2>1
  <2>3. /\ r \in StepRecords /\ r.pc = "flush" /\ r.eval = step[s].eval /\ r.final = final
    BY <1>0 DEF StepRecords
  <2>4. step[s].pc = "model"
    BY <1>4 DEF ModelEnds
  <2> HIDE DEF r
  <2> QED BY <2>1, <2>2, <2>3, <2>4 DEF Progress, Over
<1>5. ASSUME NEW pc \in {"failed", "done"}, step' = [step EXCEPT ![s].pc = pc],
             step[s].pc \in {"model", "flush", "attest"}
      PROVE  \E r : Progress(s, r)
  <2> DEFINE r == [step[s] EXCEPT !.pc = pc]
  <2>1. step' = [step EXCEPT ![s] = r]
    BY <1>0, <1>5
  <2>2. /\ r \in StepRecords /\ r.pc = pc /\ r.eval = step[s].eval
        /\ r.final = step[s].final /\ r.text = step[s].text
    BY <1>0 DEF StepRecords
  <2> HIDE DEF r
  <2> QED BY <1>0, <1>5, <2>1, <2>2 DEF Progress, Over
<1>6. \E r : Progress(s, r)
  BY <1>1, <1>2, <1>3, <1>4, <1>5
     DEF ModelFails, GenerateRaises, Cancelled, AfterAttest, FlushDeadline
<1>7. UNCHANGED <<turn, store, sent, records>>
  BY DEF Transform, OnChunk, AbortStream, ModelEnds, ModelFails, GenerateRaises, Cancelled,
         AfterAttest, FlushDeadline
<1>8. /\ call' \in [Calls -> {"none", "sent", "ok", "error", "unsent"}]
      /\ \A e \in Steps : call'[<<"evaluate", e>>] = "ok" => call[<<"evaluate", e>>] = "ok"
  <2>1. \/ call' = call
        \/ call' = [c \in Calls |-> IF c[2] = s /\ call[c] = "sent" THEN "error" ELSE call[c]]
    BY DEF Transform, OnChunk, AbortStream, ModelEnds, ModelFails, GenerateRaises, Cancelled,
           AfterAttest, FlushDeadline
  <2> QED BY <1>0, <2>1
<1> QED BY <1>6, <1>7, <1>8, ProgressShares

LEMMA WireShares ==
    ASSUME ShareInv,
           \/ \E e \in Steps : Handle(e)
           \/ \E c \in Calls : Respond(c) \/ CallFails(c) \/ Deadline(c)
    PROVE  ShareInv'
<1>0. /\ call \in [Calls -> {"none", "sent", "ok", "error", "unsent"}]
      /\ records \in [Steps -> {"serve", "suppress", None}]
      /\ \A e \in Steps : <<"evaluate", e>> \in Calls
      /\ \A e \in Steps : call[<<"evaluate", e>>] = "ok" => records[e] # None
      /\ None \notin Steps /\ UNCHANGED <<turn, store, step, sent>>
  <2>1. TypeOK /\ RepliesAreRecorded
    BY DEF ShareInv, ShowInv
  <2> QED BY <2>1, SdkTypes DEF TypeOK, Calls, RepliesAreRecorded, Handle, Respond, CallFails, Deadline
<1>1. ASSUME NEW e \in Steps, Handle(e) PROVE ShowInv'
  <2>1. PICK decision \in {"serve", "suppress"} : records' = [records EXCEPT ![e] = decision]
    BY <1>1 DEF Handle
  <2>2. records[e] = None /\ UNCHANGED call
    BY <1>1 DEF Handle
  <2>3. records' \in [Steps -> {"serve", "suppress", None}]
    BY <1>0, <2>1
  <2>4. \A q \in Steps : records[q] # None => records'[q] = records[q]
    BY <1>0, <2>1, <2>2
  <2>5. \A q \in Steps : call'[<<"evaluate", q>>] = "ok" => records'[q] # None
    BY <1>0, <2>2, <2>4
  <2> QED BY <1>0, <2>2, <2>3, <2>4, <2>5, WireShows DEF ShareInv
<1>2. ASSUME NEW c \in Calls, Respond(c) \/ CallFails(c) \/ Deadline(c) PROVE ShowInv'
  <2>1. PICK state \in {"ok", "error"} :
            /\ call' = [call EXCEPT ![c] = state]
            /\ state = "ok" => Answerable(c)
    BY <1>2 DEF Respond, CallFails, Deadline
  <2>2. UNCHANGED records
    BY <1>2 DEF Respond, CallFails, Deadline
  <2>3. call' \in [Calls -> {"none", "sent", "ok", "error", "unsent"}]
    BY <1>0, <2>1
  <2>4. ASSUME NEW q \in Steps, call'[<<"evaluate", q>>] = "ok" PROVE records'[q] # None
    <3>1. CASE c = <<"evaluate", q>>
      <4>1. state = "ok" /\ c[1] = "evaluate" /\ c[2] = q
        BY <1>0, <2>1, <2>4, <3>1
      <4> QED BY <2>1, <2>2, <4>1 DEF Answerable
    <3>2. CASE c # <<"evaluate", q>>
      BY <1>0, <2>1, <2>2, <2>4, <3>2
    <3> QED BY <3>1, <3>2
  <2> QED BY <1>0, <2>2, <2>3, <2>4, WireShows DEF ShareInv
<1>3. ShowInv'
  BY <1>1, <1>2
<1>4. /\ \A q \in Steps : step'[q].eval = step[q].eval
      /\ \A q \in Steps : step[q].pc \in Over =>
             step'[q].pc \in Over /\ step'[q].final = step[q].final
  BY <1>0
<1> QED BY <1>0, <1>3, <1>4, QuietShares

LEMMA BeginShares ==
    ASSUME ShareInv, NEW s \in Steps, BeginTurn(s) \/ BeginSingle(s)
    PROVE  ShareInv'
<1>0. /\ TypeOK /\ MayBegin(s) /\ KeyOf(s) \in Keys /\ UNCHANGED <<turn, sent, records>>
      /\ store \in Seq(Entries) /\ Len(store) <= MaxTurns
      /\ call \in [Calls -> {"none", "sent", "ok", "error", "unsent"}]
  <2>1. TypeOK
    BY DEF ShareInv, ShowInv
  <2> QED BY <2>1, SdkTypes DEF TypeOK, Entries, BeginTurn, BeginSingle, KeyOf
<1>1. ASSUME BeginTurn(s), NEW i \in Running(KeyOf(s)), step' = Opened(s, store[i].eval),
             UNCHANGED <<store, call>>
      PROVE  ShareInv'
  <2>1. store[i].eval \in Steps
    <3>1. i \in 1..Len(store)
      BY <1>0, LenProperties DEF Running
    <3>2. store[i] \in Entries
      BY <1>0, <3>1, ElementOfSeq
    <3> QED BY <3>2 DEF Entries
  <2>2. Began(s, store[i].eval)
    BY <1>0, <1>1, <2>1 DEF Began
  <2> QED BY <1>1, <2>2, JoiningShares DEF BeginTurn
<1>2. ASSUME BeginTurn(s), Running(KeyOf(s)) = {}, step' = Opened(s, s),
             store' = Remembered(KeyOf(s), s), StartEvaluate(s)
      PROVE  ShareInv'
  <2>1. store' \in Seq(Entries) /\ Len(store') <= MaxTurns
    BY <1>0, <1>2, RememberedFacts
  <2>2. Began(s, s)
    BY <1>0, <1>2, <2>1, StartEvaluateFacts DEF Began
  <2> QED BY <1>2, <2>2, AskingShares DEF BeginTurn
<1>3. ASSUME BeginSingle(s) PROVE ShareInv'
  <2>1. Began(s, s)
    BY <1>0, <1>3, StartEvaluateFacts DEF Began, BeginSingle
  <2> QED BY <1>3, <2>1, SingleShares DEF BeginSingle
<1> QED BY <1>1, <1>2, <1>3 DEF BeginTurn

LEMMA SdkStepKeeps == ShareInv /\ [Next]_vars => ShareInv'
<1> SUFFICES ASSUME ShareInv, [Next]_vars PROVE ShareInv'
  OBVIOUS
<1>1. CASE UNCHANGED vars
  <2>1. ShowInv /\ UNCHANGED <<turn, store, step, call, sent, records>>
    BY <1>1 DEF ShareInv, vars
  <2>2. ShowInv'
    BY <2>1, WireShows DEF ShowInv, TypeOK, RepliesAreRecorded
  <2> QED BY <2>1, <2>2, QuietShares
<1>2. ASSUME NEW s \in Steps,
             \/ BeginTurn(s) \/ BeginSingle(s)
             \/ Transform(s) \/ OnChunk(s) \/ AbortStream(s)
             \/ ModelEnds(s) \/ ModelFails(s) \/ GenerateRaises(s) \/ Cancelled(s)
             \/ AfterEvaluation(s) \/ AfterAttest(s) \/ FlushDeadline(s)
      PROVE  ShareInv'
  BY <1>2, BeginShares, RecordStepShares, AfterEvaluationShares
<1> QED BY <1>1, <1>2, WireShares DEF Next

-----------------------------------------------------------------------------
\* Every model call, HTTP call, attestation and entry of the turn store is
\* what the SDKs can hold, and the store keeps its bound.
THEOREM SdkTypeCorrect == Spec => []TypeOK
<1>1. ShareInv => TypeOK
  BY DEF ShareInv, ShowInv
<1> QED BY <1>1, SdkInitHolds, SdkStepKeeps, PTL DEF Spec

\* turn.ts, middleware.ts: the steps of a turn share one evaluation, unless as
\* many other turns as the store holds, or one with the same ids, intervened.
THEOREM StepsShareOneEvaluation == Spec => []OneEvaluatePerTurn
<1>1. ShareInv => OneEvaluatePerTurn
  BY DEF ShareInv
<1> QED BY <1>1, SdkInitHolds, SdkStepKeeps, PTL DEF Spec

\* attestAnswer, in either language: what is attested is the whole final
\* answer under the record of its own turn, once, and as rendered only under
\* a record that serves.
THEOREM AttestationsAreTrue == Spec => []AttestsWhatWasShown
<1>1. ShareInv => AttestsWhatWasShown
  <2> SUFFICES ASSUME ShowInv, NEW t \in Turns
               PROVE  /\ \A i \in 1..MaxSteps :
                             LET s == <<t, i>> m == sent[s] IN
                             m # None =>
                                 /\ m.text = step[s].text
                                 /\ step[s].final
                                 /\ step[s].pc \in {"attest", "done", "failed"}
                                 /\ records[m.eval] # None /\ m.eval = step[s].eval
                                 /\ m.rendered => records[m.eval] = "serve"
                      /\ Cardinality({i \in 1..MaxSteps : sent[<<t, i>>] # None}) <= 1
    BY DEF ShareInv, AttestsWhatWasShown
  <2>0. \A i \in 1..MaxSteps : <<t, i>> \in Steps
    BY SdkTypes DEF ShowInv
  <2>1. ASSUME NEW i \in 1..MaxSteps, sent[<<t, i>>] # None
        PROVE  Attests(sent[<<t, i>>], step[<<t, i>>], records)
    BY <2>0, <2>1 DEF ShowInv, SentIsWhatWasShown
  <2> DEFINE S == {i \in 1..MaxSteps : sent[<<t, i>>] # None}
  <2>2. \A i, j \in S : i = j
    <3> SUFFICES ASSUME NEW i \in S, NEW j \in S, i < j PROVE FALSE
      OBVIOUS
    <3>1. step[<<t, j>>].pc # "idle" /\ step[<<t, i>>].final
      BY <2>1 DEF Attests, Over
    <3> QED BY <3>1 DEF ShowInv, StepsInOrder
  <2>3. Cardinality(S) <= 1
    <3>1. CASE S = {}
      <4> HIDE DEF S
      <4>1. Cardinality({}) = 0
        BY FS_EmptySet
      <4> QED BY <3>1, <4>1
    <3>2. CASE S # {}
      <4>1. PICK i \in S : TRUE
        BY <3>2
      <4>2. S = {i}
        BY <2>2, <4>1
      <4>3. Cardinality({i}) = 1
        BY FS_Singleton
      <4> HIDE DEF S
      <4> QED BY <4>2, <4>3
    <3> QED BY <3>1, <3>2
  <2> QED BY <2>1, <2>3 DEF Attests, Over
<1> QED BY <1>1, SdkInitHolds, SdkStepKeeps, PTL DEF Spec

-----------------------------------------------------------------------------
(***************************************************************************)
(* Sequences of sequences.  FlattenSeq recurses over its argument: that    *)
(* the recursion has a solution, and that it has one only, is induction on *)
(* the numbers up to a length (Climb), and each fact about it comes from a *)
(* chain of concatenations that solves it.                                 *)
(***************************************************************************)
\* Induction up to n, on the members of a set.
LEMMA Climb ==
    ASSUME NEW n \in Nat, NEW S, 0 \in S, \A i \in 0..(n - 1) : i \in S => i + 1 \in S
    PROVE  \A i \in 0..n : i \in S
<1> DEFINE Out == {i \in 0..n : i \notin S}
<1> SUFFICES ASSUME Out # {} PROVE FALSE
  OBVIOUS
<1>0. Out \in SUBSET Nat
  OBVIOUS
<1>1. PICK m \in Out : \A i \in Out : m <= i
  <2> HIDE DEF Out
  <2> QED BY <1>0, LeastNumber
<1>2. m \in 1..n /\ m - 1 \in 0..(n - 1)
  OBVIOUS
<1>3. m - 1 \in S
  BY <1>1, <1>2
<1> QED BY <1>2, <1>3

(***************************************************************************)
(* Flat is the last of the concatenations that begin with none and take    *)
(* one sequence more each time.                                            *)
(***************************************************************************)
Follows(f, seqs, n) ==
    f[0] = <<>> /\ \A i \in 0..(n - 1) : f[i + 1] = f[i] \o seqs[i + 1]

LEMMA ChainExists ==
    ASSUME NEW W, NEW seqs \in Seq(Seq(W))
    PROVE  \E f \in [0..Len(seqs) -> Seq(W)] : Follows(f, seqs, Len(seqs))
<1> DEFINE N == Len(seqs)
           S == {n \in 0..N : \E f \in [0..n -> Seq(W)] : Follows(f, seqs, n)}
<1>1. 0 \in S
  <2>1. PICK f : f = [i \in 0..0 |-> <<>>]
    OBVIOUS
  <2>2. f \in [0..0 -> Seq(W)] /\ f[0] = <<>>
    BY <2>1, EmptySeq
  <2>3. Follows(f, seqs, 0)
    BY <2>2 DEF Follows
  <2> QED BY <2>2, <2>3
<1>2. ASSUME NEW n \in 0..(N - 1), n \in S PROVE n + 1 \in S
  <2>1. PICK f \in [0..n -> Seq(W)] : Follows(f, seqs, n)
    BY <1>2
  <2>2. seqs[n + 1] \in Seq(W) /\ f[n] \in Seq(W)
    BY ElementOfSeq
  <2>3. PICK last \in Seq(W) : last = f[n] \o seqs[n + 1]
    BY <2>2, ConcatProperties
  <2>4. PICK g : g = [i \in 0..(n + 1) |-> IF i <= n THEN f[i] ELSE last]
    OBVIOUS
  <2>5. g \in [0..(n + 1) -> Seq(W)]
    BY <2>4
  <2>6. Follows(g, seqs, n + 1)
    <3>1. g[0] = <<>>
      BY <2>1, <2>4 DEF Follows
    <3>2. ASSUME NEW i \in 0..n PROVE g[i + 1] = g[i] \o seqs[i + 1]
      <4>1. CASE i = n
        <5>1. n \in 0..(n + 1) /\ n + 1 \in 0..(n + 1) /\ ~(n + 1 <= n) /\ n <= n
          OBVIOUS
        <5>2. g[n + 1] = last /\ g[n] = f[n]
          BY <2>4, <5>1
        <5> QED BY <2>3, <4>1, <5>2
      <4>2. CASE i # n
        <5>1. f[i + 1] = f[i] \o seqs[i + 1]
          <6>1. i \in 0..(n - 1)
            BY <4>2
          <6> QED BY <2>1, <6>1 DEF Follows
        <5>2. g[i + 1] = f[i + 1] /\ g[i] = f[i]
          BY <2>4, <4>2
        <5> QED BY <5>1, <5>2
      <4> QED BY <4>1, <4>2
    <3>3. (n + 1) - 1 = n
      OBVIOUS
    <3> QED BY <3>1, <3>2, <3>3 DEF Follows
  <2> QED BY <2>5, <2>6
<1>3. \A n \in 0..N : n \in S
  <2>1. N \in Nat
    OBVIOUS
  <2> HIDE DEF S, N
  <2> QED BY <1>1, <1>2, <2>1, Climb
<1>4. N \in 0..N
  OBVIOUS
<1> QED BY <1>3, <1>4

\* Chains of the same sequences end with the same concatenation.
LEMMA ChainsAgree ==
    ASSUME NEW n \in Nat, NEW seqs, NEW f, NEW g, Follows(f, seqs, n), Follows(g, seqs, n)
    PROVE  f[n] = g[n]
<1> DEFINE S == {i \in 0..n : f[i] = g[i]}
<1>1. 0 \in S
  BY DEF Follows
<1>3. ASSUME NEW i \in 0..(n - 1), i \in S PROVE i + 1 \in S
  <2>1. f[i + 1] = f[i] \o seqs[i + 1] /\ g[i + 1] = g[i] \o seqs[i + 1]
    BY DEF Follows
  <2>2. i + 1 \in 0..n /\ f[i] = g[i]
    BY <1>3
  <2> QED BY <2>1, <2>2
<1>2. \A i \in 0..n : i \in S
  <2> HIDE DEF S
  <2> QED BY <1>1, <1>3, Climb
<1> QED BY <1>2

LEMMA FlatEnds ==
    ASSUME NEW W, NEW seqs \in Seq(Seq(W)), NEW f, Follows(f, seqs, Len(seqs))
    PROVE  Flat(seqs) = f[Len(seqs)]
<1>1. CASE seqs = <<>>
  BY <1>1 DEF Flat, FlattenSeq, Follows
<1>2. CASE seqs # <<>>
  <2> DEFINE Flattens(g) ==
                 g = [i \in 1..Len(seqs) |-> IF i = 1 THEN seqs[i] ELSE g[i - 1] \o seqs[i]]
             flatten == CHOOSE g : Flattens(g)
  <2>1. Len(seqs) \in Nat \ {0}
    BY <1>2, EmptySeq
  <2>2. PICK h \in [0..Len(seqs) -> Seq(W)] : Follows(h, seqs, Len(seqs))
    BY ChainExists
  <2>3. h[1] = seqs[1]
    <3>3. 0 \in 0..(Len(seqs) - 1) /\ 0 + 1 = 1
      BY <2>1
    <3>4. h[0 + 1] = h[0] \o seqs[0 + 1] /\ h[0] = <<>>
      BY <2>2, <3>3 DEF Follows
    <3>1. h[1] = h[0] \o seqs[1] /\ h[0] = <<>>
      BY <3>3, <3>4
    <3>2. seqs[1] \in Seq(W)
      BY <2>1, ElementOfSeq
    <3> QED BY <3>1, <3>2, ConcatEmptySeq
  <2>4. \E g : Flattens(g)
    <3>1. PICK g : g = [i \in 1..Len(seqs) |-> h[i]]
      OBVIOUS
    <3>2. ASSUME NEW i \in 1..Len(seqs)
          PROVE  g[i] = IF i = 1 THEN seqs[i] ELSE g[i - 1] \o seqs[i]
      <4>1. CASE i = 1
        BY <2>3, <3>1, <4>1
      <4>2. CASE i # 1
        <5>1. i - 1 \in 0..(Len(seqs) - 1) /\ i - 1 \in 1..Len(seqs)
          BY <2>1, <4>2
        <5>2. h[(i - 1) + 1] = h[i - 1] \o seqs[(i - 1) + 1]
          BY <2>2, <5>1 DEF Follows
        <5>3. (i - 1) + 1 = i
          BY <2>1
        <5>4. g[i - 1] = h[i - 1] /\ g[i] = h[i]
          BY <3>1, <5>1
        <5> QED BY <4>2, <5>2, <5>3, <5>4
      <4> QED BY <4>1, <4>2
    <3>3. Flattens(g)
      BY <3>1, <3>2
    <3> HIDE DEF Flattens
    <3> QED BY <3>3
  <2>5. Flattens(flatten)
    BY <2>4
  <2>6. Flat(seqs) = flatten[Len(seqs)]
    BY <2>1 DEF Flat, FlattenSeq
  <2>7. PICK g : g = [i \in 0..Len(seqs) |-> IF i = 0 THEN <<>> ELSE flatten[i]]
    OBVIOUS
  <2>8. Follows(g, seqs, Len(seqs))
    <3> HIDE DEF flatten
    <3>1. g[0] = <<>>
      BY <2>1, <2>7
    <3>2. ASSUME NEW i \in 0..(Len(seqs) - 1) PROVE g[i + 1] = g[i] \o seqs[i + 1]
      <4>1. seqs[i + 1] \in Seq(W)
        BY <2>1, ElementOfSeq
      <4>2. CASE i = 0
        <5>1. g[1] = seqs[1]
          BY <2>1, <2>5, <2>7
        <5>2. i + 1 = 1
          BY <4>2
        <5>3. <<>> \o seqs[i + 1] = seqs[i + 1]
          BY <4>1, ConcatEmptySeq
        <5> QED BY <3>1, <4>2, <5>1, <5>2, <5>3
      <4>3. CASE i # 0
        <5>1. i + 1 \in 1..Len(seqs) /\ i + 1 # 1 /\ (i + 1) - 1 = i
          BY <2>1, <4>3
        <5>2. flatten[i + 1] = flatten[(i + 1) - 1] \o seqs[i + 1]
          BY <2>5, <5>1
        <5>3. g[i + 1] = flatten[i + 1] /\ g[i] = flatten[i]
          BY <2>1, <2>7, <4>3, <5>1
        <5> QED BY <5>1, <5>2, <5>3
      <4> QED BY <4>2, <4>3
    <3> QED BY <3>1, <3>2 DEF Follows
  <2>9. g[Len(seqs)] = f[Len(seqs)]
    BY <2>1, <2>8, ChainsAgree
  <2> QED BY <2>1, <2>6, <2>7, <2>9
<1> QED BY <1>1, <1>2

LEMMA FlatChain ==
    ASSUME NEW W, NEW seqs \in Seq(Seq(W))
    PROVE  \E f \in [0..Len(seqs) -> Seq(W)] :
               Follows(f, seqs, Len(seqs)) /\ Flat(seqs) = f[Len(seqs)]
BY ChainExists, FlatEnds

LEMMA FlatType == ASSUME NEW W, NEW seqs \in Seq(Seq(W)) PROVE Flat(seqs) \in Seq(W)
<1>1. Len(seqs) \in Nat
  OBVIOUS
<1> QED BY <1>1, FlatChain

-----------------------------------------------------------------------------
IsConcat(r, s, t) == r = s \o t

LEMMA ConcatIsAssociative ==
    ASSUME NEW W, NEW x \in Seq(W), NEW y \in Seq(W), NEW z \in Seq(W), NEW p, NEW q, NEW r,
           IsConcat(p, x, y), IsConcat(q, y, z), IsConcat(r, x, q)
    PROVE  IsConcat(r, p, z)
<1>1. (x \o y) \o z = x \o (y \o z)
  BY ConcatAssociative
<1> QED BY <1>1 DEF IsConcat

\* It takes two sequences of sequences one after the other.
LEMMA FlatConcat ==
    ASSUME NEW W, NEW a \in Seq(Seq(W)), NEW b \in Seq(Seq(W))
    PROVE  Flat(a \o b) = Flat(a) \o Flat(b)
<1>1. PICK m, n \in Nat : m = Len(a) /\ n = Len(b)
  BY LenProperties
<1>2. PICK f : f \in [0..m -> Seq(W)] /\ Follows(f, a, m) /\ Flat(a) = f[m]
  BY <1>1, FlatChain
<1>3. PICK g : g \in [0..n -> Seq(W)] /\ Follows(g, b, n) /\ Flat(b) = g[n]
  BY <1>1, FlatChain
<1>4. PICK h : h = [i \in 0..(m + n) |-> IF i <= m THEN f[i] ELSE f[m] \o g[i - m]]
  OBVIOUS
<1>5. PICK c \in Seq(Seq(W)) : c = a \o b
  BY ConcatProperties
<1>6. Len(c) = m + n
  BY <1>1, <1>5, ConcatProperties
<1>7. \A i \in 0..n : h[m + i] = f[m] \o g[i]
  <2> TAKE i \in 0..n
  <2>2. CASE i = 0
    <3>1. h[m + i] = f[m]
      BY <1>4, <2>2
    <3>2. f[m] \in Seq(W) /\ g[i] = <<>>
      BY <1>2, <1>3, <2>2 DEF Follows
    <3> QED BY <3>1, <3>2, ConcatEmptySeq
  <2>3. CASE i # 0
    <3>1. m + i \in 0..(m + n) /\ ~(m + i <= m) /\ (m + i) - m = i
      BY <2>3
    <3> QED BY <1>4, <3>1
  <2> QED BY <2>2, <2>3
<1>8. ASSUME NEW i \in 0..((m + n) - 1) PROVE h[i + 1] = h[i] \o c[i + 1]
  <2>1. i \in Nat
    OBVIOUS
  <2>2. CASE i < m
    <3>1. i \in 0..(m - 1) /\ i + 1 \in 1..m
      BY <2>1, <2>2
    <3>2. f[i + 1] = f[i] \o a[i + 1]
      BY <1>2, <3>1 DEF Follows
    <3>3. h[i + 1] = f[i + 1] /\ h[i] = f[i]
      BY <1>4, <2>2
    <3>4. c[i + 1] = a[i + 1]
      BY <1>1, <1>5, <3>1, ConcatProperties
    <3> QED BY <3>2, <3>3, <3>4
  <2>3. CASE ~(i < m)
    <3>1. PICK j \in 0..(n - 1) : i = m + j
      BY <2>3
    <3>2. g[j + 1] = g[j] \o b[j + 1]
      BY <1>3, <3>1 DEF Follows
    <3>3. h[i] = f[m] \o g[j] /\ h[i + 1] = f[m] \o g[j + 1]
      <4>1. j \in 0..n /\ j + 1 \in 0..n /\ i + 1 = m + (j + 1)
        BY <3>1
      <4> QED BY <1>7, <3>1, <4>1
    <3>4. c[i + 1] = b[j + 1]
      <4>1. i + 1 \in 1..(Len(a) + Len(b)) /\ ~(i + 1 <= Len(a)) /\ (i + 1) - Len(a) = j + 1
        BY <1>1, <3>1
      <4>2. c[i + 1] = IF i + 1 <= Len(a) THEN a[i + 1] ELSE b[(i + 1) - Len(a)]
        BY <1>5, <4>1, ConcatProperties
      <4> QED BY <4>1, <4>2
    <3>5. f[m] \in Seq(W) /\ g[j] \in Seq(W) /\ b[j + 1] \in Seq(W)
      <4>1. m \in 0..m /\ j \in 0..n /\ j + 1 \in 1..n
        BY <3>1
      <4> QED BY <1>1, <1>2, <1>3, <4>1, ElementOfSeq
    <3>6. /\ IsConcat(h[i], f[m], g[j]) /\ IsConcat(h[i + 1], f[m], g[j + 1])
          /\ IsConcat(g[j + 1], g[j], b[j + 1])
      BY <3>2, <3>3 DEF IsConcat
    <3>7. IsConcat(h[i + 1], h[i], b[j + 1])
      BY <3>5, <3>6, ConcatIsAssociative
    <3> QED BY <3>4, <3>7 DEF IsConcat
  <2> QED BY <2>2, <2>3
<1>9. Follows(h, c, m + n)
  <2>1. h[0] = <<>>
    BY <1>2, <1>4 DEF Follows
  <2> QED BY <1>8, <2>1 DEF Follows
<1>10. h[m + n] = f[m] \o g[n]
  <2>1. n \in 0..n
    OBVIOUS
  <2> QED BY <1>7, <2>1
<1>11. Flat(c) = h[m + n]
  BY <1>6, <1>9, FlatEnds
<1> QED BY <1>2, <1>3, <1>5, <1>10, <1>11

\* Each of several things translated, as normalizeText does it with words.
WordByWord(g, words) == [i \in DOMAIN words |-> g[words[i]]]
Translate(g, words) == Flat(WordByWord(g, words))

\* What goes through concatenations goes through it.
Through(h, W) == \A s, t \in Seq(W) : h[s \o t] = h[s] \o h[t]

LEMMA FlatThrough ==
    ASSUME NEW W, NEW V, NEW h \in [Seq(W) -> Seq(V)], Through(h, W), NEW seqs \in Seq(Seq(W))
    PROVE  h[Flat(seqs)] = Translate(h, seqs)
<1>1. PICK n \in Nat : n = Len(seqs)
  BY LenProperties
<1>2. PICK f \in [0..n -> Seq(W)] : Follows(f, seqs, n) /\ Flat(seqs) = f[n]
  BY <1>1, FlatChain
<1>3. PICK g : g = [i \in 0..n |-> h[f[i]]]
  OBVIOUS
<1>4. PICK images : images = WordByWord(h, seqs) /\ images = [i \in DOMAIN seqs |-> h[seqs[i]]]
  BY DEF WordByWord
<1>5. \A i \in 1..n : seqs[i] \in Seq(W)
  BY <1>1, ElementOfSeq
<1>6. images \in Seq(Seq(V)) /\ Len(images) = n /\ \A i \in 1..n : images[i] = h[seqs[i]]
  <2>1. DOMAIN seqs = 1..n
    BY <1>1, LenProperties
  <2> QED BY <1>4, <1>5, <2>1
<1>7. Follows(g, images, n)
  <2>1. h[<<>>] = <<>>
    <3>1. <<>> \in Seq(W) /\ <<>> \o <<>> = <<>>
      BY EmptySeq, ConcatEmptySeq
    <3>2. h[<<>>] \in Seq(V) /\ h[<<>>] = h[<<>>] \o h[<<>>]
      BY <3>1 DEF Through
    <3> QED BY <3>2, ConcatEqualIffEmpty
  <2>2. g[0] = <<>>
    BY <1>2, <1>3, <2>1 DEF Follows
  <2>3. ASSUME NEW i \in 0..(n - 1) PROVE g[i + 1] = g[i] \o images[i + 1]
    <3>1. i \in 0..n /\ i + 1 \in 0..n /\ i + 1 \in 1..n
      OBVIOUS
    <3>2. f[i + 1] = f[i] \o seqs[i + 1]
      BY <1>2 DEF Follows
    <3>3. f[i] \in Seq(W) /\ seqs[i + 1] \in Seq(W)
      BY <1>5, <3>1
    <3>4. h[f[i + 1]] = h[f[i]] \o h[seqs[i + 1]]
      BY <3>2, <3>3 DEF Through
    <3> QED BY <1>3, <1>6, <3>1, <3>4
  <2> QED BY <2>2, <2>3 DEF Follows
<1>8. Flat(images) = g[n]
  BY <1>6, <1>7, FlatEnds
<1> QED BY <1>2, <1>3, <1>4, <1>8 DEF Translate

\* One word of each sequence more is as many words more as there are sequences.
LEMMA FlatLength ==
    ASSUME NEW W, NEW a \in Seq(Seq(W)), NEW b \in Seq(Seq(W)), Len(a) = Len(b),
           \A i \in 1..Len(a) : Len(a[i]) = Len(b[i]) + 1
    PROVE  Len(Flat(a)) = Len(Flat(b)) + Len(a)
<1>1. PICK n \in Nat : n = Len(a) /\ n = Len(b)
  BY LenProperties
<1>2. PICK f \in [0..n -> Seq(W)] : Follows(f, a, n) /\ Flat(a) = f[n]
  BY <1>1, FlatChain
<1>3. PICK g \in [0..n -> Seq(W)] : Follows(g, b, n) /\ Flat(b) = g[n]
  BY <1>1, FlatChain
<1> DEFINE S == {i \in 0..n : Len(f[i]) = Len(g[i]) + i}
<1>4. 0 \in S
  BY <1>2, <1>3, EmptySeq DEF Follows
<1>5. ASSUME NEW i \in 0..(n - 1), i \in S PROVE i + 1 \in S
  <2>1. i \in 0..n /\ i + 1 \in 0..n /\ i + 1 \in 1..n
    OBVIOUS
  <2>2. f[i + 1] = f[i] \o a[i + 1] /\ g[i + 1] = g[i] \o b[i + 1]
    BY <1>2, <1>3 DEF Follows
  <2>3. f[i] \in Seq(W) /\ g[i] \in Seq(W) /\ a[i + 1] \in Seq(W) /\ b[i + 1] \in Seq(W)
    BY <1>1, <2>1, ElementOfSeq
  <2>4. Len(f[i + 1]) = Len(f[i]) + Len(a[i + 1]) /\ Len(g[i + 1]) = Len(g[i]) + Len(b[i + 1])
    BY <2>2, <2>3, ConcatProperties
  <2>5. Len(f[i]) = Len(g[i]) + i /\ Len(a[i + 1]) = Len(b[i + 1]) + 1
    BY <1>1, <1>5, <2>1
  <2>6. Len(f[i]) \in Nat /\ Len(g[i]) \in Nat /\ Len(a[i + 1]) \in Nat /\ Len(b[i + 1]) \in Nat
    BY <2>3, LenProperties
  <2>7. Len(f[i + 1]) = Len(g[i + 1]) + (i + 1)
    <3>1. PICK x, y, z \in Nat :
                 x = Len(f[i]) /\ y = Len(g[i]) /\ z = Len(b[i + 1])
      BY <2>6
    <3>2. Len(f[i + 1]) = x + (z + 1) /\ Len(g[i + 1]) = y + z /\ x = y + i
      BY <2>4, <2>5, <3>1
    <3>3. x + (z + 1) = (y + z) + (i + 1)
      BY <3>2
    <3> QED BY <3>2, <3>3
  <2> QED BY <2>1, <2>7
<1>6. \A i \in 0..n : i \in S
  <2> HIDE DEF S
  <2> QED BY <1>4, <1>5, Climb
<1> QED BY <1>1, <1>2, <1>3, <1>6

\* What has a member of S for each number up to n is a sequence of n of them.
LEMMA SequenceOf ==
    ASSUME NEW S, NEW n \in Nat, NEW s \in [1..n -> S]
    PROVE  s \in Seq(S) /\ Len(s) = n
OBVIOUS

LEMMA FlatOne == ASSUME NEW W, NEW s \in Seq(W) PROVE Flat(<<s>>) = s
<1>1. PICK seqs : seqs = <<s>>
  OBVIOUS
<1>4. seqs \in Seq(Seq(W)) /\ Len(seqs) = 1 /\ seqs[1] = s
  BY <1>1
<1>2. PICK f : f = [i \in 0..1 |-> IF i = 0 THEN <<>> ELSE s]
  OBVIOUS
<1>3. Follows(f, seqs, 1)
  <2>1. f[0] = <<>> /\ f[1] = s
    BY <1>2
  <2>2. f[1] = f[0] \o seqs[1]
    BY <1>4, <2>1, ConcatEmptySeq
  <2>3. \A i \in 0..(1 - 1) : i = 0 /\ i + 1 = 1
    OBVIOUS
  <2> QED BY <2>1, <2>2, <2>3 DEF Follows
<1>5. Flat(seqs) = f[1]
  BY <1>3, <1>4, FlatEnds
<1> QED BY <1>1, <1>2, <1>5

-----------------------------------------------------------------------------
\* a is what g makes of the words, each by itself.
Renders(a, g, words, V) ==
    a \in Seq(Seq(V)) /\ Len(a) = Len(words) /\ \A i \in 1..Len(words) : a[i] = g[words[i]]

LEMMA WordsTranslated ==
    ASSUME NEW W, NEW V, NEW g \in [W -> Seq(V)], NEW words \in Seq(W)
    PROVE  Renders(WordByWord(g, words), g, words, V)
<1>1. PICK n \in Nat : n = Len(words) /\ DOMAIN words = 1..n
  BY LenProperties
<1>2. PICK a : a = WordByWord(g, words) /\ a = [i \in DOMAIN words |-> g[words[i]]]
  BY DEF WordByWord
<1>3. ASSUME NEW i \in 1..n PROVE a[i] = g[words[i]] /\ a[i] \in Seq(V)
  BY <1>1, <1>2, ElementOfSeq
<1>4. a \in [1..n -> Seq(V)]
  BY <1>1, <1>2, <1>3
<1>5. a \in Seq(Seq(V)) /\ Len(a) = n
  BY <1>4, SequenceOf
<1> QED BY <1>1, <1>2, <1>3, <1>5 DEF Renders

LEMMA TranslationType ==
    ASSUME NEW W, NEW V, NEW g \in [W -> Seq(V)], NEW words \in Seq(W)
    PROVE  Translate(g, words) \in Seq(V)
<1>1. Renders(WordByWord(g, words), g, words, V)
  BY WordsTranslated
<1> QED BY <1>1, FlatType DEF Translate, Renders

LEMMA TranslationOfOne ==
    ASSUME NEW W, NEW V, NEW g \in [W -> Seq(V)], NEW w \in W
    PROVE  Translate(g, <<w>>) = g[w]
<1>1. WordByWord(g, <<w>>) = <<g[w]>>
  BY DEF WordByWord
<1> QED BY <1>1, FlatOne DEF Translate

GoesThrough(g, W) ==
    \A s, t \in Seq(W) : Translate(g, s \o t) = Translate(g, s) \o Translate(g, t)

LEMMA TranslationGoesThrough ==
    ASSUME NEW W, NEW V, NEW g \in [W -> Seq(V)]
    PROVE  GoesThrough(g, W)
<1> SUFFICES ASSUME NEW s \in Seq(W), NEW t \in Seq(W)
             PROVE  Translate(g, s \o t) = Translate(g, s) \o Translate(g, t)
  BY DEF GoesThrough
<1>1. PICK a : a = WordByWord(g, s)
  OBVIOUS
<1>2. PICK b : b = WordByWord(g, t)
  OBVIOUS
<1>3. PICK c : c = WordByWord(g, s \o t)
  OBVIOUS
<1>4. /\ a \in Seq(Seq(V)) /\ Len(a) = Len(s) /\ \A i \in 1..Len(s) : a[i] = g[s[i]]
      /\ b \in Seq(Seq(V)) /\ Len(b) = Len(t) /\ \A i \in 1..Len(t) : b[i] = g[t[i]]
  <2>1. Renders(a, g, s, V)
    BY <1>1, WordsTranslated
  <2>2. Renders(b, g, t, V)
    BY <1>2, WordsTranslated
  <2> QED BY <2>1, <2>2 DEF Renders
<1>5. /\ c \in Seq(Seq(V)) /\ Len(c) = Len(s) + Len(t)
      /\ \A i \in 1..(Len(s) + Len(t)) :
             c[i] = g[IF i <= Len(s) THEN s[i] ELSE t[i - Len(s)]]
  <2>1. PICK u \in Seq(W) : u = s \o t
    BY ConcatProperties
  <2>2. /\ Len(u) = Len(s) + Len(t)
        /\ \A i \in 1..(Len(s) + Len(t)) :
               u[i] = IF i <= Len(s) THEN s[i] ELSE t[i - Len(s)]
    BY <2>1, ConcatProperties
  <2>3. c \in Seq(Seq(V)) /\ Len(c) = Len(u) /\ \A i \in 1..Len(u) : c[i] = g[u[i]]
    <3>1. Renders(c, g, u, V)
      BY <1>3, <2>1, WordsTranslated
    <3> QED BY <3>1 DEF Renders
  <2> QED BY <2>2, <2>3
<1>6. c = a \o b
  <2>1. PICK d : d = a \o b
    OBVIOUS
  <2>4. d \in Seq(Seq(V)) /\ Len(d) = Len(c)
    <3>1. a \in Seq(Seq(V)) /\ b \in Seq(Seq(V))
      BY <1>4
    <3>2. d \in Seq(Seq(V)) /\ Len(d) = Len(a) + Len(b)
      BY <2>1, <3>1, ConcatProperties
    <3> QED BY <1>4, <1>5, <3>2
  <2>2. ASSUME NEW i \in 1..Len(c) PROVE c[i] = d[i]
    <3>1. i \in 1..(Len(s) + Len(t)) /\ Len(s) \in Nat /\ Len(t) \in Nat
      BY <1>5
    <3>2. d[i] = IF i <= Len(s) THEN a[i] ELSE b[i - Len(s)]
      <4>1. i \in 1..(Len(a) + Len(b))
        BY <1>4, <3>1
      <4>2. d[i] = IF i <= Len(a) THEN a[i] ELSE b[i - Len(a)]
        BY <1>4, <2>1, <4>1, ConcatProperties
      <4> QED BY <1>4, <4>2
    <3>3. CASE i <= Len(s)
      <4>1. i \in 1..Len(s)
        BY <3>1, <3>3
      <4> QED BY <1>4, <1>5, <3>1, <3>2, <3>3, <4>1
    <3>4. CASE ~(i <= Len(s))
      <4>1. i - Len(s) \in 1..Len(t)
        BY <3>1, <3>4
      <4> QED BY <1>4, <1>5, <3>1, <3>2, <3>4, <4>1
    <3> QED BY <3>3, <3>4
  <2>3. c = d
    BY <1>5, <2>2, <2>4, SeqEqual
  <2> QED BY <2>1, <2>3
<1>7. Flat(c) = Flat(a) \o Flat(b)
  BY <1>4, <1>6, FlatConcat
<1> QED BY <1>1, <1>2, <1>3, <1>7 DEF Translate

\* A text of which each word stays is the same text.
LEMMA IdleTranslation ==
    ASSUME NEW W, NEW g, NEW words \in Seq(W), \A i \in 1..Len(words) : g[words[i]] = <<words[i]>>
    PROVE  Translate(g, words) = words
<1>1. PICK n \in Nat : n = Len(words)
  BY LenProperties
<1>2. PICK a : a = WordByWord(g, words) /\ a = [i \in DOMAIN words |-> g[words[i]]]
  BY DEF WordByWord
<1>3. a \in Seq(Seq(W)) /\ Len(a) = n /\ \A i \in 1..n : a[i] = <<words[i]>>
  <2>1. DOMAIN words = 1..n /\ \A i \in 1..n : words[i] \in W
    BY <1>1, LenProperties
  <2>2. ASSUME NEW i \in 1..n PROVE a[i] = <<words[i]>> /\ <<words[i]>> \in Seq(W)
    BY <1>1, <1>2, <2>1
  <2>3. a \in [1..n -> Seq(W)]
    BY <1>2, <2>1, <2>2
  <2> QED BY <2>2, <2>3, SequenceOf
<1>4. PICK f : f = [i \in 0..n |-> SubSeq(words, 1, i)]
  OBVIOUS
<1>5. Follows(f, a, n)
  <2>1. f[0] = <<>>
    BY <1>4, SubSeqEmpty
  <2>2. ASSUME NEW i \in 0..(n - 1) PROVE f[i + 1] = f[i] \o a[i + 1]
    <3>1. i \in 0..n /\ i + 1 \in 0..n /\ i + 1 \in 1..n /\ (i + 1) - 1 = i
      OBVIOUS
    <3>2. 1 \in 1..n /\ i + 1 \in 1..Len(words)
      BY <1>1, <3>1
    <3>3. SubSeq(words, 1, i + 1) = SubSeq(words, 1, (i + 1) - 1) \o <<words[i + 1]>>
      BY <1>1, <3>2, SubSeqRecursiveSecond
    <3> QED BY <1>3, <1>4, <3>1, <3>3
  <2> QED BY <2>1, <2>2 DEF Follows
<1>6. f[n] = words
  BY <1>1, <1>4, SubSeqFull
<1>7. Flat(a) = f[n]
  BY <1>3, <1>5, FlatEnds
<1> QED BY <1>2, <1>6, <1>7 DEF Translate

-----------------------------------------------------------------------------
(***************************************************************************)
(* What the cache's key says of the text the rules stage reads.            *)
(***************************************************************************)
Word == DOMAIN Normalized
Unlabel == [w \in Word |-> IF w \in Labels THEN <<>> ELSE <<w>>]
Unlabelled == [words \in Seq(Word) |-> Translate(Unlabel, NormalizeText(words))]

LEMMA NormalizationTranslates ==
    \A words : NormalizeText(words) = Translate(Normalized, words)
BY DEF NormalizeText, Translate, WordByWord

LEMMA NormalText ==
    ASSUME NEW words \in Seq(Word)
    PROVE  NormalizeText(words) \in Seq(Word)
<1>1. Normalized \in [Word -> Seq(Word)]
  BY ConversationAssumption DEF Word
<1> QED BY <1>1, NormalizationTranslates, TranslationType

LEMMA UnlabelTypes == Unlabel \in [Word -> Seq(Word)] /\ Labels \subseteq Word
<1>1. \A w \in Word : <<w>> \in Seq(Word) /\ <<>> \in Seq(Word)
  BY EmptySeq
<1> QED BY <1>1, ConversationAssumption DEF Unlabel, Word

LEMMA NormalTexts ==
    ASSUME NEW s \in Seq(Word), NEW t \in Seq(Word)
    PROVE  NormalizeText(s \o t) = NormalizeText(s) \o NormalizeText(t)
<1>1. GoesThrough(Normalized, Word)
  <2>1. Normalized \in [Word -> Seq(Word)]
    BY ConversationAssumption DEF Word
  <2> QED BY <2>1, TranslationGoesThrough
<1> QED BY <1>1, NormalizationTranslates DEF GoesThrough

LEMMA UnlabelTexts ==
    ASSUME NEW s \in Seq(Word), NEW t \in Seq(Word)
    PROVE  Translate(Unlabel, s \o t) = Translate(Unlabel, s) \o Translate(Unlabel, t)
<1>1. GoesThrough(Unlabel, Word)
  BY UnlabelTypes, TranslationGoesThrough
<1> QED BY <1>1 DEF GoesThrough

LEMMA UnlabelGoesThrough ==
    /\ Unlabelled \in [Seq(Word) -> Seq(Word)]
    /\ Through(Unlabelled, Word)
<1>1. Normalized \in [Word -> Seq(Word)]
  BY ConversationAssumption DEF Word
<1>2. Unlabel \in [Word -> Seq(Word)]
  BY UnlabelTypes
<1>3. ASSUME NEW s \in Seq(Word) PROVE Unlabelled[s] \in Seq(Word)
  BY <1>2, NormalText, TranslationType DEF Unlabelled
<1>4. ASSUME NEW s \in Seq(Word), NEW t \in Seq(Word)
      PROVE  Unlabelled[s \o t] = Unlabelled[s] \o Unlabelled[t]
  <2>1. PICK u, v \in Seq(Word) : u = NormalizeText(s) /\ v = NormalizeText(t)
    BY NormalText
  <2>2. NormalizeText(s \o t) = u \o v
    BY <2>1, NormalTexts
  <2>3. Translate(Unlabel, u \o v) = Translate(Unlabel, u) \o Translate(Unlabel, v)
    BY <2>1, UnlabelTexts
  <2>4. s \o t \in Seq(Word)
    BY ConcatProperties
  <2> QED BY <2>1, <2>2, <2>3, <2>4 DEF Unlabelled
<1> QED BY <1>3, <1>4 DEF Through, Unlabelled

\* Without a label in it a text stays ...
LEMMA NothingToUnlabel ==
    ASSUME NEW words \in Seq(Word), ToSet(words) \cap Labels = {}
    PROVE  Translate(Unlabel, words) = words
<1>1. ASSUME NEW i \in 1..Len(words) PROVE Unlabel[words[i]] = <<words[i]>>
  <2>1. words[i] \in Word /\ words[i] \in ToSet(words)
    BY DEF ToSet
  <2> QED BY <2>1 DEF Unlabel
<1> QED BY <1>1, IdleTranslation

\* ... and a label is taken away.
LEMMA LabelsVanish ==
    ASSUME NEW label \in Labels, NEW words \in Seq(Word)
    PROVE  <<label>> \o words \in Seq(Word) /\ Unlabelled[<<label>> \o words] = Unlabelled[words]
<1>1. label \in Word /\ <<label>> \in Seq(Word) /\ Normalized \in [Word -> Seq(Word)]
  BY UnlabelTypes, ConversationAssumption DEF Word
<1>2. Unlabelled[<<label>>] = <<>>
  <2>1. NormalizeText(<<label>>) = <<label>>
    <3>1. PICK g, text : g = Normalized /\ text = Translate(Normalized, <<label>>)
      OBVIOUS
    <3>2. g[label] = <<label>>
      BY <3>1, ConversationAssumption
    <3>3. Translate(g, <<label>>) = g[label]
      <4>1. g \in [Word -> Seq(Word)] /\ label \in Word
        BY <1>1, <3>1
      <4> QED BY <4>1, TranslationOfOne
    <3>4. NormalizeText(<<label>>) = text
      BY <3>1, NormalizationTranslates
    <3> QED BY <3>1, <3>2, <3>3, <3>4
  <2>2. Translate(Unlabel, <<label>>) = <<>>
    <3>1. PICK g : g = Unlabel
      OBVIOUS
    <3>2. g \in [Word -> Seq(Word)] /\ label \in Word
      BY <1>1, <3>1, UnlabelTypes
    <3>3. g[label] = <<>>
      BY <1>1, <3>1 DEF Unlabel
    <3>4. Translate(g, <<label>>) = g[label]
      BY <3>2, TranslationOfOne
    <3> QED BY <3>1, <3>3, <3>4
  <2> QED BY <1>1, <2>1, <2>2 DEF Unlabelled
<1>3. <<label>> \o words \in Seq(Word)
  BY <1>1, ConcatProperties
<1>4. Unlabelled[<<label>> \o words] = Unlabelled[<<label>>] \o Unlabelled[words]
  BY <1>1, UnlabelGoesThrough DEF Through
<1>5. Unlabelled[words] \in Seq(Word)
  BY UnlabelGoesThrough
<1> QED BY <1>2, <1>3, <1>4, <1>5, ConcatEmptySeq

LEMMA KeptMessages ==
    ASSUME NEW c \in Conversations
    PROVE  Kept(c) \in Seq([role : Labels, content : Seq(Word)])
<1> DEFINE Said == [role : Labels, content : Seq(Word)]
           Sent == [role : STRING, content : Seq(Word)]
<1>1. c.messages \in Seq(Sent)
  BY ConversationAssumption DEF Word
<1>2. PICK turns : turns = [i \in DOMAIN c.messages |->
                       IF c.messages[i].role \in Labels THEN <<c.messages[i]>> ELSE <<>>]
  OBVIOUS
<1>3. turns \in Seq(Seq(Said))
  <2>1. PICK n \in Nat : n = Len(c.messages) /\ DOMAIN c.messages = 1..n
    BY <1>1, LenProperties
  <2>2. ASSUME NEW i \in 1..n PROVE turns[i] \in Seq(Said)
    <3>1. PICK m \in Sent : m = c.messages[i]
      BY <1>1, <2>1, ElementOfSeq
    <3>2. turns[i] = IF m.role \in Labels THEN <<m>> ELSE <<>>
      BY <1>2, <2>1, <3>1
    <3>3. m.role \in Labels => m \in Said
      OBVIOUS
    <3>4. m.role \in Labels => <<m>> \in Seq(Said)
      <4> HIDE DEF Said
      <4> QED BY <3>3
    <3>5. <<>> \in Seq(Said)
      BY EmptySeq
    <3> QED BY <3>2, <3>4, <3>5
  <2>3. turns \in [1..n -> Seq(Said)]
    BY <1>2, <2>1, <2>2
  <2> QED BY <2>1, <2>3, SequenceOf
<1> HIDE DEF Said
<1>4. PICK spoken \in Seq(Said) : spoken = Flat(turns)
  BY <1>3, FlatType
<1>5. PICK first \in Nat \ {0} : Kept(c) = SubSeq(spoken, first, Len(spoken))
  <2>1. Higher(1, Len(spoken) - MaxMessages + 1) \in Nat \ {0}
    BY ConversationAssumption DEF Higher
  <2> QED BY <1>2, <1>4, <2>1 DEF Kept
<1>6. \A i \in first..Len(spoken) : spoken[i] \in Said
  BY <1>4, ElementOfSeq
<1> QED BY <1>4, <1>5, <1>6, SubSeqProperties DEF Said

\* What fits is not cut.
LEMMA WholeText ==
    ASSUME NEW W, NEW words \in Seq(W), Len(words) <= MaxWords
    PROVE  LastWords(words) = words
<1>1. Len(words) \in Nat /\ MaxWords \in Nat
  BY ConversationAssumption
<1>2. Higher(1, Len(words) - MaxWords + 1) = 1
  BY <1>1 DEF Higher
<1> QED BY <1>2, SubSeqFull DEF LastWords

\* Both texts of a plain conversation are whole, and its key without its labels
\* is what the rules stage reads.
LEMMA PlainKeys ==
    ASSUME NEW c \in Conversations, Plain(c)
    PROVE  Translate(Unlabel, CacheKey(c)) = NormalizeText(RulesText(c))
<1>0. c.summary \in Seq(Word) /\ MaxWords \in Nat
  BY ConversationAssumption DEF Word
<1>1. CASE Kept(c) = <<>>
  <2>1. PICK words \in Seq(Word) : words = c.summary
    BY <1>0
  <2>2. Flat(<<c.summary>>) = words
    BY <2>1, FlatOne
  <2>3. Len(words) <= MaxWords /\ ToSet(NormalizeText(words)) \cap Labels = {}
    BY <1>0, <1>1, <2>2, EmptySeq DEF Plain
  <2>4. Text(c) = words /\ RulesText(c) = words
    BY <1>1, <2>1, <2>3, WholeText DEF Text, RulesText
  <2>5. NormalizeText(words) \in Seq(Word)
    BY NormalText
  <2> QED BY <2>3, <2>4, <2>5, NothingToUnlabel DEF CacheKey
<1>2. CASE Kept(c) # <<>>
  <2>1. PICK kept, n : /\ kept = Kept(c) /\ n = Len(kept) /\ n \in Nat /\ DOMAIN kept = 1..n
                       /\ \A i \in 1..n : kept[i] \in [role : Labels, content : Seq(Word)]
    BY KeptMessages, LenProperties, ElementOfSeq
  <2>2. PICK labelled, bare : labelled = Labelled(c) /\ bare = Bare(c)
    OBVIOUS
  <2>3. /\ labelled = [i \in 1..n |-> <<kept[i].role>> \o kept[i].content]
        /\ bare = [i \in 1..n |-> kept[i].content]
    BY <2>1, <2>2 DEF Labelled, Bare
  <2>4. ASSUME NEW i \in 1..n
        PROVE  /\ labelled[i] \in Seq(Word) /\ bare[i] \in Seq(Word)
               /\ Unlabelled[labelled[i]] = Unlabelled[bare[i]]
               /\ Len(labelled[i]) = Len(bare[i]) + 1
    <3>1. PICK role \in Labels, content \in Seq(Word) :
                 role = kept[i].role /\ content = kept[i].content
      BY <2>1
    <3>2. labelled[i] = <<role>> \o content /\ bare[i] = content
      BY <2>3, <3>1
    <3>3. <<role>> \in Seq(Word) /\ Len(<<role>>) = 1
      BY UnlabelTypes
    <3>4. Len(<<role>> \o content) = 1 + Len(content) /\ Len(content) \in Nat
      BY <3>3, ConcatProperties, LenProperties
    <3> QED BY <3>2, <3>4, LabelsVanish
  <2>5. /\ labelled \in Seq(Seq(Word)) /\ Len(labelled) = n
        /\ bare \in Seq(Seq(Word)) /\ Len(bare) = n
    <3>1. labelled \in [1..n -> Seq(Word)] /\ bare \in [1..n -> Seq(Word)]
      BY <2>3, <2>4
    <3> QED BY <2>1, <3>1, SequenceOf
  <2>6. PICK spoken, said : spoken = Flat(labelled) /\ said = Flat(bare)
    OBVIOUS
  <2>7. spoken \in Seq(Word) /\ said \in Seq(Word)
    BY <2>5, <2>6, FlatType
  <2>8. Len(spoken) = Len(said) + n
    BY <2>4, <2>5, <2>6, FlatLength
  <2>9. /\ Len(said) + n <= MaxWords
        /\ ToSet(NormalizeText(said)) \cap Labels = {}
    BY <1>2, <2>1, <2>2, <2>6 DEF Plain
  <2>10. Len(said) \in Nat /\ Len(spoken) <= MaxWords /\ Len(said) <= MaxWords
    BY <1>0, <2>1, <2>7, <2>8, <2>9, LenProperties
  <2>11. Text(c) = spoken /\ RulesText(c) = said
    BY <1>2, <2>2, <2>6, <2>7, <2>10, WholeText DEF Text, RulesText
  <2>12. Unlabelled[spoken] = Unlabelled[said]
    <3>1. PICK h : h = Unlabelled
      OBVIOUS
    <3>2. h \in [Seq(Word) -> Seq(Word)] /\ Through(h, Word)
      BY <3>1, UnlabelGoesThrough
    <3>3. h[spoken] = Translate(h, labelled) /\ h[said] = Translate(h, bare)
      BY <2>5, <2>6, <3>2, FlatThrough
    <3>4. WordByWord(h, labelled) = WordByWord(h, bare)
      BY <2>3, <2>4, <3>1 DEF WordByWord
    <3> QED BY <3>1, <3>3, <3>4 DEF Translate
  <2>13. Translate(Unlabel, NormalizeText(said)) = NormalizeText(said)
    BY <2>7, <2>9, NormalText, NothingToUnlabel
  <2> QED BY <2>7, <2>11, <2>12, <2>13 DEF Unlabelled, CacheKey
<1> QED BY <1>1, <1>2

\* Plain conversations with one key are one to the rules.
LEMMA SameKeySameRules ==
    ASSUME NEW c \in Conversations, NEW d \in Conversations, Plain(c), Plain(d),
           CachedUnder[c] = CachedUnder[d]
    PROVE  Rules(c) = Rules(d)
<1>1. CacheKey(c) = CacheKey(d)
  BY DEF CachedUnder
<1>2. NormalizeText(RulesText(c)) = NormalizeText(RulesText(d))
  BY <1>1, PlainKeys
<1> QED BY <1>2 DEF Rules, RulesOf

-----------------------------------------------------------------------------
(***************************************************************************)
(* Whoever answers, what a turn is given was made for a turn of the same   *)
(* key: for itself, or, from the cache, for one that was answered before.  *)
(***************************************************************************)
LlmAnswers == {NoAnswer} \cup {ToLlmClassification(x) : x \in Contents \ {Garbled}}
MadeFor(c, outcome) == \E llm \in LlmAnswers : outcome = Classified(Rules(c), llm, Policy)
Judgements == {Classified(Rules(c), llm, Policy) : c \in Conversations, llm \in LlmAnswers}

AskRows ==
    [phase : {"new", "asking", "done"}, about : Conversations \cup {NoConversation},
     source : {"none", "cache", "merged", "rules_short_circuit", "rules_fallback"},
     outcome : Judgements \cup {NoOutcome}, heard : Contents \cup {Garbled}]

AsksAreTyped ==
    /\ ask \in [Asks -> AskRows]
    /\ \A t \in Started : ask[t].about \in Conversations
    /\ \A t \in Asks : ask[t].phase = "asking" => OwnRules(t).strong = {}

\* Turn u was answered so itself, under the key of conversation c.
GivenBefore(u, c, outcome) ==
    /\ u \in Done /\ ask[u].source \in {"merged", "rules_short_circuit"}
    /\ CachedUnder[ask[u].about] = CachedUnder[c] /\ Outcome(u) = outcome

AnswersAreMade ==
    \A t \in Done :
        IF ask[t].source = "cache"
        THEN \E u \in Asks : GivenBefore(u, ask[t].about, Outcome(t))
        ELSE MadeFor(ask[t].about, Outcome(t))

ConversationInv == AsksAreTyped /\ AnswersAreMade /\ CacheHoldsWhatWasAnswered

LEMMA ConversationInitHolds == ConversationInit => ConversationInv
<1> SUFFICES ASSUME ConversationInit PROVE ConversationInv
  OBVIOUS
<1>1. AsksAreTyped
  BY DEF ConversationInit, AsksAreTyped, AskRows, NewTurn, Started
<1>2. Done = {} /\ cache = {}
  BY DEF ConversationInit, Done, NewTurn
<1> QED BY <1>1, <1>2 DEF ConversationInv, AnswersAreMade, CacheHoldsWhatWasAnswered

\* A turn is answered, and cached at most what it was given.
LEMMA AnswerKeeps ==
    ASSUME ConversationInv, NEW t \in Asks, ask[t].phase # "done", NEW c \in Conversations,
           NEW row \in AskRows, row.phase = "done", row.about = c,
           ask' = [ask EXCEPT ![t] = row],
           IF row.source = "cache"
           THEN \E e \in cache : e.key = CachedUnder[c] /\ e.value = row.outcome
           ELSE MadeFor(c, row.outcome),
           \A e \in cache' : e \in cache \/ /\ row.source \in {"merged", "rules_short_circuit"}
                                            /\ e.key = CachedUnder[c] /\ e.value = row.outcome
    PROVE  ConversationInv'
<1>1. /\ ask \in [Asks -> AskRows] /\ ask' \in [Asks -> AskRows]
      /\ ask'[t] = row /\ \A u \in Asks : u # t => ask'[u] = ask[u]
  BY DEF ConversationInv, AsksAreTyped
<1>2. AsksAreTyped'
  BY <1>1 DEF ConversationInv, AsksAreTyped, Started, OwnRules
<1>3. \A u \in Done : u # t /\ u \in Done' /\ ask'[u] = ask[u]
  BY <1>1 DEF Done
<1>4. t \in Done' /\ \A u \in Done' : u = t \/ u \in Done
  BY <1>1 DEF Done
<1>5. \A u, d, outcome : GivenBefore(u, d, outcome) => GivenBefore(u, d, outcome)'
  BY <1>3 DEF GivenBefore, Outcome
<1>6. ASSUME NEW u \in Done', NEW own, own = ask'[u]
      PROVE  IF own.source = "cache"
             THEN \E v \in Asks : GivenBefore(v, own.about, own.outcome)'
             ELSE MadeFor(own.about, own.outcome)
  <2>1. CASE u \in Done
    <3>1. own = ask[u]
      BY <1>3, <1>6, <2>1
    <3>2. IF own.source = "cache"
          THEN \E v \in Asks : GivenBefore(v, own.about, own.outcome)
          ELSE MadeFor(own.about, own.outcome)
      BY <2>1, <3>1 DEF ConversationInv, AnswersAreMade, Outcome
    <3> QED BY <1>5, <3>2
  <2>2. CASE u = t
    <3>0. own = row
      BY <1>1, <1>6, <2>2
    <3>1. CASE row.source = "cache"
      <4>1. PICK e \in cache : e.key = CachedUnder[c] /\ e.value = row.outcome
        BY <3>1
      <4>2. PICK v \in Asks : GivenBefore(v, c, row.outcome)
        BY <4>1 DEF ConversationInv, CacheHoldsWhatWasAnswered, GivenBefore, Done
      <4> QED BY <1>5, <3>0, <3>1, <4>2
    <3>2. CASE row.source # "cache"
      BY <3>0, <3>2
    <3> QED BY <3>1, <3>2
  <2> QED BY <1>4, <2>1, <2>2
<1>7. AnswersAreMade'
  <2> SUFFICES ASSUME NEW u \in Done'
               PROVE  IF ask'[u].source = "cache"
                      THEN \E v \in Asks : GivenBefore(v, ask[u].about, ask[u].outcome)'
                      ELSE MadeFor(ask'[u].about, ask'[u].outcome)
    BY DEF AnswersAreMade, Outcome, MadeFor
  <2>1. PICK own : own = ask'[u]
    OBVIOUS
  <2>2. IF own.source = "cache"
        THEN \E v \in Asks : GivenBefore(v, own.about, own.outcome)'
        ELSE MadeFor(own.about, own.outcome)
    BY <1>6, <2>1
  <2> QED BY <2>1, <2>2 DEF GivenBefore
<1>8. CacheHoldsWhatWasAnswered'
  <2> SUFFICES ASSUME NEW e \in cache'
               PROVE  \E u \in Done' : /\ CachedUnder[ask'[u].about] = e.key
                                       /\ ask'[u].outcome = e.value
                                       /\ ask'[u].source \in {"merged", "rules_short_circuit"}
    BY DEF CacheHoldsWhatWasAnswered, Outcome
  <2>1. CASE e \in cache
    <3>1. PICK u \in Done : /\ CachedUnder[ask[u].about] = e.key /\ ask[u].outcome = e.value
                            /\ ask[u].source \in {"merged", "rules_short_circuit"}
      BY <2>1 DEF ConversationInv, CacheHoldsWhatWasAnswered, Outcome
    <3> QED BY <1>3, <3>1
  <2>2. CASE e \notin cache
    BY <1>1, <1>4, <2>2
  <2> QED BY <2>1, <2>2
<1> QED BY <1>2, <1>7, <1>8 DEF ConversationInv

\* Nobody is answered.
LEMMA WaitKeeps ==
    ASSUME ConversationInv, UNCHANGED <<ask, cache>>
    PROVE  ConversationInv'
<1>1. AsksAreTyped'
  BY DEF ConversationInv, AsksAreTyped, Started, OwnRules
<1>2. AnswersAreMade' /\ CacheHoldsWhatWasAnswered'
  BY DEF ConversationInv, AnswersAreMade, CacheHoldsWhatWasAnswered, GivenBefore, MadeFor, Done,
         Outcome
<1> QED BY <1>1, <1>2 DEF ConversationInv

\* A row of ask, answered.
GivenAnswer(row, c, source, outcome) ==
    [row EXCEPT !.phase = "done", !.about = c, !.source = source, !.outcome = outcome]

LEMMA AnsweredRow ==
    ASSUME NEW row \in AskRows, NEW c \in Conversations, NEW outcome \in Judgements,
           NEW source \in {"cache", "merged", "rules_short_circuit", "rules_fallback"}
    PROVE  LET after == GivenAnswer(row, c, source, outcome)
           IN /\ after \in AskRows /\ after.phase = "done" /\ after.about = c
              /\ after.source = source /\ after.outcome = outcome
BY DEF AskRows, GivenAnswer

\* The rules answer: without the model, or before it is asked.
LEMMA RulesAnswer ==
    ASSUME NEW c \in Conversations
    PROVE  MadeFor(c, RulesOnly(Rules(c))) /\ RulesOnly(Rules(c)) \in Judgements
<1>1. RulesOnly(Rules(c)) = Classified(Rules(c), NoAnswer, Policy)
  BY DEF Classified
<1>2. NoAnswer \in LlmAnswers
  BY DEF LlmAnswers
<1> QED BY <1>1, <1>2 DEF MadeFor, Judgements

LEMMA ModelAnswer ==
    ASSUME NEW c \in Conversations, Rules(c).strong = {}, NEW content \in Contents \ {Garbled},
           NEW merged, merged = Merged(Rules(c), ToLlmClassification(content), Policy)
    PROVE  MadeFor(c, merged) /\ merged \in Judgements
<1>1. ToLlmClassification(content) # NoAnswer
  BY AnswerAssumption
<1>2. merged = Classified(Rules(c), ToLlmClassification(content), Policy)
  BY <1>1 DEF Classified
<1>3. ToLlmClassification(content) \in LlmAnswers
  BY DEF LlmAnswers
<1> QED BY <1>2, <1>3 DEF MadeFor, Judgements

\* A turn falls back on the rules.
LEMMA FallBackKeeps ==
    ASSUME ConversationInv, NEW t \in Asks, ask[t].phase = "asking", FallBack(t)
    PROVE  ConversationInv'
<1>1. PICK c \in Conversations : c = ask[t].about
  BY DEF ConversationInv, AsksAreTyped, Started
<1>2. ask[t] \in AskRows
  BY DEF ConversationInv, AsksAreTyped
<1>3. PICK outcome \in Judgements : outcome = RulesOnly(Rules(c)) /\ MadeFor(c, outcome)
  BY RulesAnswer
<1>4. PICK row : row = GivenAnswer(ask[t], c, "rules_fallback", outcome)
  OBVIOUS
<1>5. /\ row \in AskRows /\ row.phase = "done" /\ row.about = c
      /\ row.source = "rules_fallback" /\ row.outcome = outcome
  BY <1>2, <1>4, AnsweredRow
<1>6. ask' = [ask EXCEPT ![t] = row] /\ cache' = cache
  BY <1>1, <1>3, <1>4 DEF FallBack, Finished, GivenAnswer
<1> QED BY <1>3, <1>5, <1>6, AnswerKeeps

LEMMA ClassifyKeeps ==
    ASSUME ConversationInv, NEW t \in Asks, NEW c \in Conversations, Classify(t, c)
    PROVE  ConversationInv'
<1>1. ask[t] \in AskRows /\ ask[t].phase = "new"
  BY DEF ConversationInv, AsksAreTyped, Classify
<1>2. ASSUME NEW e \in Hits(c), Finished(t, c, "cache", e.value), UNCHANGED cache
      PROVE  ConversationInv'
  <2>1. e \in cache /\ e.key = CachedUnder[c]
    BY DEF Hits
  <2>2. e.value \in Judgements
    <3>1. PICK u \in Done : /\ Outcome(u) = e.value
                            /\ ask[u].source \in {"merged", "rules_short_circuit"}
      BY <2>1 DEF ConversationInv, CacheHoldsWhatWasAnswered
    <3>2. MadeFor(ask[u].about, e.value) /\ ask[u].about \in Conversations
      BY <3>1 DEF ConversationInv, AnswersAreMade, AsksAreTyped, Started, Done
    <3> QED BY <3>2 DEF MadeFor, Judgements
  <2>3. PICK row : row = GivenAnswer(ask[t], c, "cache", e.value)
    OBVIOUS
  <2>4. /\ row \in AskRows /\ row.phase = "done" /\ row.about = c
        /\ row.source = "cache" /\ row.outcome = e.value
    BY <1>1, <2>2, <2>3, AnsweredRow
  <2>5. ask' = [ask EXCEPT ![t] = row] /\ cache' = cache
    BY <1>2, <2>3 DEF Finished, GivenAnswer
  <2> QED BY <1>1, <2>1, <2>4, <2>5, AnswerKeeps
<1>3. ASSUME NEW source \in {"rules_short_circuit", "rules_fallback"},
             Finished(t, c, source, RulesOnly(Rules(c))),
             \/ cache' = cache
             \/ /\ cache' = Stored(CachedUnder[c], RulesOnly(Rules(c)))
                /\ source = "rules_short_circuit"
      PROVE  ConversationInv'
  <2>1. PICK outcome \in Judgements : outcome = RulesOnly(Rules(c)) /\ MadeFor(c, outcome)
    BY RulesAnswer
  <2>2. PICK row : row = GivenAnswer(ask[t], c, source, outcome)
    OBVIOUS
  <2>3. /\ row \in AskRows /\ row.phase = "done" /\ row.about = c
        /\ row.source = source /\ row.outcome = outcome
    BY <1>1, <2>2, AnsweredRow
  <2>4. ask' = [ask EXCEPT ![t] = row]
    BY <1>3, <2>1, <2>2 DEF Finished, GivenAnswer
  <2>5. \A e \in cache' : e \in cache \/ /\ row.source \in {"merged", "rules_short_circuit"}
                                          /\ e.key = CachedUnder[c] /\ e.value = row.outcome
    BY <1>3, <2>1, <2>3 DEF Stored
  <2> QED BY <1>1, <2>1, <2>3, <2>4, <2>5, AnswerKeeps
<1>4. ASSUME Rules(c).strong = {},
             ask' = [ask EXCEPT ![t].phase = "asking", ![t].about = c], UNCHANGED cache
      PROVE  ConversationInv'
  <2>1. PICK row : row = [ask[t] EXCEPT !.phase = "asking", !.about = c]
    OBVIOUS
  <2>2. row \in AskRows /\ row.phase = "asking" /\ row.about = c
    BY <1>1, <2>1 DEF AskRows
  <2>3. /\ ask' \in [Asks -> AskRows] /\ ask'[t] = row
        /\ \A u \in Asks : u # t => ask'[u] = ask[u]
    BY <1>4, <2>1, <2>2 DEF ConversationInv, AsksAreTyped
  <2>4. AsksAreTyped'
    BY <1>4, <2>2, <2>3 DEF ConversationInv, AsksAreTyped, Started, OwnRules
  <2>5. Done' = Done /\ \A u \in Done : ask'[u] = ask[u]
    BY <1>1, <2>2, <2>3 DEF Done
  <2>6. \A u, d, outcome : GivenBefore(u, d, outcome)' = GivenBefore(u, d, outcome)
    BY <2>5 DEF GivenBefore, Outcome
  <2>7. AnswersAreMade'
    <3> SUFFICES ASSUME NEW u \in Done
                 PROVE  IF ask[u].source = "cache"
                        THEN \E v \in Asks : GivenBefore(v, ask[u].about, ask[u].outcome)'
                        ELSE MadeFor(ask[u].about, ask[u].outcome)
      BY <2>5 DEF AnswersAreMade, Outcome, MadeFor
    <3>1. PICK own : own = ask[u] /\ own = ask'[u]
      BY <2>5
    <3>2. IF own.source = "cache"
          THEN \E v \in Asks : GivenBefore(v, own.about, own.outcome)'
          ELSE MadeFor(own.about, own.outcome)
      BY <2>6, <3>1 DEF ConversationInv, AnswersAreMade, Outcome
    <3> QED BY <3>1, <3>2 DEF GivenBefore
  <2>8. CacheHoldsWhatWasAnswered'
    BY <1>4, <2>5 DEF ConversationInv, CacheHoldsWhatWasAnswered, Outcome
  <2> QED BY <2>4, <2>7, <2>8 DEF ConversationInv
<1> QED BY <1>2, <1>3, <1>4 DEF Classify

\* The body of a response, to a client that waits for it.
LEMMA MergedKeeps ==
    ASSUME ConversationInv, NEW t \in Asks, NEW content \in Contents \ {Garbled},
           Awaited(t), Answer(t, content)
    PROVE  ConversationInv'
<1>1. /\ ask[t] \in AskRows /\ ask[t].phase = "asking"
      /\ ask[t].about \in Conversations /\ Rules(ask[t].about).strong = {}
  BY DEF ConversationInv, AsksAreTyped, Started, OwnRules, Awaited
<1>2. PICK c \in Conversations : c = ask[t].about
  BY <1>1
<1>3. PICK merged \in Judgements :
          /\ merged = Merged(Rules(c), ToLlmClassification(content), Policy)
          /\ MadeFor(c, merged)
  BY <1>1, <1>2, ModelAnswer
<1>4. PICK row : row = [ask[t] EXCEPT !.phase = "done", !.source = "merged",
                                      !.outcome = merged, !.heard = content]
  OBVIOUS
<1>5. /\ row \in AskRows /\ row.phase = "done" /\ row.about = c
      /\ row.source = "merged" /\ row.outcome = merged
  BY <1>1, <1>2, <1>4 DEF AskRows
<1>6. ask' = [ask EXCEPT ![t] = row] /\ cache' = Stored(CachedUnder[c], merged)
  BY <1>2, <1>3, <1>4 DEF Answer
<1>7. \A e \in cache' : e \in cache \/ /\ row.source \in {"merged", "rules_short_circuit"}
                                        /\ e.key = CachedUnder[c] /\ e.value = row.outcome
  BY <1>5, <1>6 DEF Stored
<1>8. row.source # "cache" /\ ask[t].phase # "done" /\ MadeFor(c, row.outcome)
  BY <1>1, <1>3, <1>5
<1>9. ask' = [ask EXCEPT ![t] = row]
  BY <1>6
<1> QED BY <1>5, <1>7, <1>8, <1>9, AnswerKeeps

LEMMA ConversationStepKeeps ==
    ConversationInv /\ [ConversationNext]_conversationVars => ConversationInv'
<1> SUFFICES ASSUME ConversationInv, [ConversationNext]_conversationVars
             PROVE  ConversationInv'
  OBVIOUS
<1>1. CASE UNCHANGED conversationVars
  BY <1>1, WaitKeeps DEF conversationVars
<1>2. ASSUME NEW t \in Asks, NEW c \in Conversations, Classify(t, c) PROVE ConversationInv'
  BY <1>2, ClassifyKeeps
<1>3. ASSUME NEW t \in Asks, NEW ok \in BOOLEAN, ModelResponds(t, ok) PROVE ConversationInv'
  BY <1>3, FallBackKeeps, WaitKeeps DEF ModelResponds, Awaited, Unheard
<1>4. ASSUME NEW t \in Asks, NEW content \in Contents, Answer(t, content) PROVE ConversationInv'
  <2>1. CASE ~Awaited(t)
    BY <1>4, <2>1, WaitKeeps DEF Answer, Ignored, Unheard
  <2>2. CASE Awaited(t) /\ content = Garbled
    BY <1>4, <2>2, FallBackKeeps DEF Answer, Awaited
  <2>3. CASE Awaited(t) /\ content # Garbled
    BY <1>4, <2>3, MergedKeeps
  <2> QED BY <2>1, <2>2, <2>3
<1>5. ASSUME NEW t \in Asks, Reject(t) PROVE ConversationInv'
  BY <1>5, FallBackKeeps, WaitKeeps DEF Reject, Awaited, Unheard
<1>6. ASSUME NEW t \in Asks, ClientTimeout(t) PROVE ConversationInv'
  BY <1>6, FallBackKeeps, WaitKeeps DEF ClientTimeout, Awaited, Unheard
<1>7. ASSUME NEW t \in Asks, ClassifyDeadline(t) PROVE ConversationInv'
  BY <1>7, FallBackKeeps DEF ClassifyDeadline, Overdue
<1> QED BY <1>1, <1>2, <1>3, <1>4, <1>5, <1>6, <1>7 DEF ConversationNext

\* cache.ts, classifier.ts: whatever the model, its transport and the timers
\* do, the cache holds only answers some turn was given for the same key, and
\* among plain conversations an answer it gives fits the words of the turn.
THEOREM CachedAnswersFit == ConversationSpec => []CacheIsTransparent
<1>1. ConversationInv => CacheIsTransparent
  <2> SUFFICES ASSUME ConversationInv PROVE CacheIsTransparent
    OBVIOUS
  <2>1. ASSUME \A t \in Started : Plain(ask[t].about), NEW t \in Done
        PROVE  MadeFor(ask[t].about, Outcome(t))
    <3>1. \A u \in Done : u \in Started /\ ask[u].about \in Conversations
      BY DEF Done, Started, ConversationInv, AsksAreTyped
    <3>2. CASE ask[t].source = "cache"
      <4>1. PICK u \in Done : /\ ask[u].source \in {"merged", "rules_short_circuit"}
                              /\ CachedUnder[ask[u].about] = CachedUnder[ask[t].about]
                              /\ Outcome(u) = Outcome(t)
        BY <3>2 DEF ConversationInv, AnswersAreMade, GivenBefore
      <4>2. Rules(ask[u].about) = Rules(ask[t].about)
        BY <2>1, <3>1, <4>1, SameKeySameRules
      <4>3. MadeFor(ask[u].about, Outcome(u))
        BY <4>1 DEF ConversationInv, AnswersAreMade
      <4> QED BY <4>1, <4>2, <4>3 DEF MadeFor
    <3>3. CASE ask[t].source # "cache"
      BY <3>3 DEF ConversationInv, AnswersAreMade
    <3> QED BY <3>2, <3>3
  <2>2. (\A t \in Started : Plain(ask[t].about)) => AnswersFitTheWords
    BY <2>1 DEF AnswersFitTheWords, MadeFor, LlmAnswers, OwnRules
  <2> QED BY <2>2 DEF CacheIsTransparent, ConversationInv
<1> QED BY <1>1, ConversationInitHolds, ConversationStepKeeps, PTL DEF ConversationSpec

-----------------------------------------------------------------------------

(***************************************************************************)
(* The rules stage masks one compound after the other in a text that gets  *)
(* shorter.  The proof compares it with a text of the same length, whose   *)
(* hidden words are gaps (Blank): each word of the masked text is a word   *)
(* of that one, and each gap a stretch of gaps (Spells).                   *)
(***************************************************************************)
Token == Word \cup {Gap}

Blank(words, hidden) == [i \in 1..Len(words) |-> IF i \in hidden THEN Gap ELSE words[i]]

\* The positions the occurrences of some phrases take.
Taken(words, X) ==
    {j \in 1..Len(words) :
        \E p \in X, i \in DOMAIN words : At(words, p, i) /\ j \in i..(i + Len(p) - 1)}

\* h says where in b each word of u begins.
Spells(h, u, b, from) ==
    /\ h \in [1..(Len(u) + 1) -> 1..(Len(b) + 1)]
    /\ h[1] = from /\ h[Len(u) + 1] = Len(b) + 1
    /\ \A k \in 1..Len(u) :
          /\ h[k] < h[k + 1]
          /\ IF u[k] = Gap THEN \A j \in h[k]..(h[k + 1] - 1) : b[j] = Gap
             ELSE h[k + 1] = h[k] + 1 /\ b[h[k]] = u[k]
StandsFor(u, b, from) == u \in Seq(Token) /\ \E h : Spells(h, u, b, from)

MeetsAt(words, p, i) ==
    i + Len(p) - 1 <= Len(words) /\ \A j \in 1..Len(p) : words[i + j - 1] = p[j]

LEMMA AtMeans ==
    ASSUME NEW S, NEW words \in Seq(S), NEW p \in Seq(S), NEW i \in Nat \ {0}
    PROVE  At(words, p, i) <=> MeetsAt(words, p, i)
<1>1. PICK n \in Nat : n = Len(p) /\ Len(words) \in Nat
  BY LenProperties
<1>2. CASE i + n - 1 <= Len(words)
  <2>1. \A k \in i..(i + n - 1) : words[k] \in S
    BY <1>1, <1>2, ElementOfSeq
  <2>2. PICK s : s = SubSeq(words, i, i + n - 1)
    OBVIOUS
  <2>3. /\ s \in Seq(S) /\ Len(s) = n
        /\ \A j \in 1..n : s[j] = words[i + j - 1]
    <3>1. i \in Int /\ i + n - 1 \in Int /\ (i + n - 1) - i + 1 = n
      BY <1>1
    <3>2. /\ s \in Seq(S) /\ Len(s) = IF i <= i + n - 1 THEN (i + n - 1) - i + 1 ELSE 0
          /\ \A j \in 1..((i + n - 1) - i + 1) : s[j] = words[i + j - 1]
      BY <2>1, <2>2, <3>1, SubSeqProperties
    <3> QED BY <1>1, <3>1, <3>2
  <2>4. (\A j \in 1..n : s[j] = p[j]) => s = p
    BY <1>1, <2>3, SeqEqual
  <2>5. s = p <=> \A j \in 1..n : words[i + j - 1] = p[j]
    BY <2>3, <2>4
  <2> QED BY <1>1, <1>2, <2>2, <2>5 DEF At, MeetsAt
<1>3. CASE ~(i + n - 1 <= Len(words))
  BY <1>1, <1>3 DEF At, MeetsAt
<1> QED BY <1>2, <1>3

LEMMA PhraseFacts ==
    ASSUME NEW p \in Phrases
    PROVE  /\ p \in Seq(Word) /\ p \in Seq(Token) /\ Len(p) \in Nat \ {0}
           /\ \A j \in 1..Len(p) : p[j] \in Word
<1>1. p \in Seq(Word) /\ p # <<>>
  BY DEF Phrases, Word
<1>2. Len(p) \in Nat /\ \A j \in 1..Len(p) : p[j] \in Word
  BY <1>1, LenProperties, ElementOfSeq
<1>3. Len(p) # 0
  BY <1>1, EmptySeq
<1>4. p \in Seq(Token)
  BY <1>1, SeqMonotonic DEF Token
<1> QED BY <1>1, <1>2, <1>3, <1>4

LEMMA GapIsNoWord == Gap \notin Word /\ Gap \in Token /\ Word \subseteq Token
BY ConversationAssumption DEF Word, Token

LEMMA BlankFacts ==
    ASSUME NEW words \in Seq(Word), NEW hidden
    PROVE  /\ Blank(words, hidden) \in Seq(Token)
           /\ Len(Blank(words, hidden)) = Len(words) /\ Len(words) \in Nat
           /\ \A i \in 1..Len(words) :
                 /\ words[i] \in Word /\ words[i] # Gap
                 /\ Blank(words, hidden)[i] = IF i \in hidden THEN Gap ELSE words[i]
<1>1. Len(words) \in Nat /\ \A i \in 1..Len(words) : words[i] \in Word /\ words[i] # Gap
  BY LenProperties, ElementOfSeq, GapIsNoWord
<1>2. PICK b : /\ b = Blank(words, hidden)
               /\ b = [i \in 1..Len(words) |-> IF i \in hidden THEN Gap ELSE words[i]]
  BY DEF Blank
<1>3. b \in [1..Len(words) -> Token]
  BY <1>1, <1>2, GapIsNoWord
<1>4. b \in Seq(Token) /\ Len(b) = Len(words)
  BY <1>1, <1>3, SequenceOf
<1> QED BY <1>1, <1>2, <1>4

\* A phrase stands in a text with gaps where it stood, if none is in it.
LEMMA BlankAt ==
    ASSUME NEW words \in Seq(Word), NEW hidden, NEW p \in Phrases, NEW i \in Nat \ {0}
    PROVE  At(Blank(words, hidden), p, i) <=>
               At(words, p, i) /\ \A j \in i..(i + Len(p) - 1) : j \notin hidden
<1>1. PICK b : b = Blank(words, hidden)
  OBVIOUS
<1>2. PICK n \in Nat \ {0} : n = Len(p) /\ \A j \in 1..n : p[j] \in Word /\ p[j] # Gap
  BY PhraseFacts, GapIsNoWord
<1>3. /\ At(b, p, i) <=> MeetsAt(b, p, i)
      /\ At(words, p, i) <=> MeetsAt(words, p, i)
  BY <1>1, AtMeans, BlankFacts, PhraseFacts
<1>4. /\ Len(b) = Len(words) /\ Len(words) \in Nat
      /\ \A k \in 1..Len(words) : b[k] = IF k \in hidden THEN Gap ELSE words[k]
  BY <1>1, BlankFacts
<1>5. ASSUME MeetsAt(b, p, i)
      PROVE  MeetsAt(words, p, i) /\ \A j \in i..(i + n - 1) : j \notin hidden
  <2>1. ASSUME NEW j \in 1..n PROVE i + j - 1 \notin hidden /\ words[i + j - 1] = p[j]
    <3>1. i + j - 1 \in 1..Len(words)
      BY <1>2, <1>4, <1>5 DEF MeetsAt
    <3>2. b[i + j - 1] = p[j] /\ p[j] # Gap
      BY <1>2, <1>5 DEF MeetsAt
    <3> QED BY <1>4, <3>1, <3>2
  <2>2. ASSUME NEW j \in i..(i + n - 1) PROVE j \notin hidden
    <3>1. j - i + 1 \in 1..n /\ i + (j - i + 1) - 1 = j
      BY <1>2
    <3> QED BY <2>1, <3>1
  <2> QED BY <1>2, <1>4, <1>5, <2>1, <2>2 DEF MeetsAt
<1>6. ASSUME MeetsAt(words, p, i), \A j \in i..(i + n - 1) : j \notin hidden
      PROVE  MeetsAt(b, p, i)
  <2>1. ASSUME NEW j \in 1..n PROVE b[i + j - 1] = p[j]
    <3>1. i + j - 1 \in 1..Len(words) /\ i + j - 1 \in i..(i + n - 1)
      BY <1>2, <1>4, <1>6 DEF MeetsAt
    <3>2. words[i + j - 1] = p[j]
      BY <1>2, <1>6 DEF MeetsAt
    <3> QED BY <1>4, <1>6, <3>1, <3>2
  <2> QED BY <1>2, <1>4, <1>6, <2>1 DEF MeetsAt
<1> QED BY <1>1, <1>2, <1>3, <1>5, <1>6
-----------------------------------------------------------------------------
\* One token more in front, which stands for the stretch from n up to m.
LEMMA TokenBefore ==
    ASSUME NEW b \in Seq(Token), NEW u, NEW x \in Token,
           NEW m \in 1..(Len(b) + 1), NEW n \in 1..(Len(b) + 1), n < m, StandsFor(u, b, m),
           IF x = Gap THEN \A j \in n..(m - 1) : b[j] = Gap ELSE m = n + 1 /\ b[n] = x
    PROVE  StandsFor(<<x>> \o u, b, n)
<1>1. u \in Seq(Token)
  BY DEF StandsFor
<1>2. PICK N \in Nat : N = Len(u) /\ Len(b) \in Nat
  BY <1>1, LenProperties
<1>3. PICK h : Spells(h, u, b, m)
  BY DEF StandsFor
<1>4. /\ h \in [1..(N + 1) -> 1..(Len(b) + 1)] /\ h[1] = m /\ h[N + 1] = Len(b) + 1
      /\ \A k \in 1..N : /\ h[k] < h[k + 1]
                         /\ IF u[k] = Gap THEN \A j \in h[k]..(h[k + 1] - 1) : b[j] = Gap
                            ELSE h[k + 1] = h[k] + 1 /\ b[h[k]] = u[k]
  BY <1>2, <1>3 DEF Spells
<1>5. PICK v : /\ v = <<x>> \o u /\ v \in Seq(Token) /\ Len(v) = N + 1 /\ v[1] = x
               /\ \A k \in 1..N : v[k + 1] = u[k]
  <2>6. PICK s : s = <<x>>
    OBVIOUS
  <2>1. s = <<x>> /\ s \in Seq(Token) /\ Len(s) = 1 /\ s[1] = x
    BY <2>6
  <2>2. PICK v : v = s \o u
    OBVIOUS
  <2>3. /\ v \in Seq(Token) /\ Len(v) = 1 + N
        /\ \A k \in 1..(1 + N) : v[k] = IF k <= 1 THEN s[k] ELSE u[k - 1]
    BY <1>1, <1>2, <2>1, <2>2, ConcatProperties
  <2>4. v[1] = x
    BY <1>2, <2>1, <2>3
  <2>5. ASSUME NEW k \in 1..N PROVE v[k + 1] = u[k]
    <3>1. k + 1 \in 1..(1 + N) /\ ~(k + 1 <= 1) /\ (k + 1) - 1 = k
      BY <1>2
    <3> QED BY <2>3, <3>1
  <2>7. v = <<x>> \o u /\ v \in Seq(Token) /\ Len(v) = N + 1
    BY <1>2, <2>1, <2>2, <2>3
  <2> QED BY <2>4, <2>5, <2>7
<1>6. PICK g : g = [k \in 1..(N + 2) |-> IF k = 1 THEN n ELSE h[k - 1]]
  OBVIOUS
<1>7. g[1] = n /\ \A k \in 1..(N + 1) : g[k + 1] = h[k]
  <2>1. ASSUME NEW k \in 1..(N + 1) PROVE g[k + 1] = h[k]
    <3>1. k + 1 \in 1..(N + 2) /\ k + 1 # 1 /\ (k + 1) - 1 = k
      BY <1>2
    <3> QED BY <1>6, <3>1
  <2> QED BY <1>2, <1>6, <2>1
<1>8. g \in [1..((N + 1) + 1) -> 1..(Len(b) + 1)] /\ g[(N + 1) + 1] = Len(b) + 1
  <2>1. ASSUME NEW k \in 1..(N + 2), k # 1 PROVE h[k - 1] \in 1..(Len(b) + 1)
    <3>1. k - 1 \in 1..(N + 1)
      BY <1>2, <2>1
    <3> QED BY <1>4, <3>1
  <2>2. g \in [1..(N + 2) -> 1..(Len(b) + 1)]
    BY <1>6, <2>1
  <2>3. (N + 1) + 1 = N + 2 /\ N + 1 \in 1..(N + 1)
    BY <1>2
  <2> QED BY <1>4, <1>7, <2>2, <2>3
<1>9. ASSUME NEW k \in 1..(N + 1)
      PROVE  /\ g[k] < g[k + 1]
             /\ IF v[k] = Gap THEN \A j \in g[k]..(g[k + 1] - 1) : b[j] = Gap
                ELSE g[k + 1] = g[k] + 1 /\ b[g[k]] = v[k]
  <2>1. CASE k = 1
    <3>1. g[k + 1] = m /\ g[k] = n /\ v[k] = x
      BY <1>2, <1>4, <1>5, <1>7, <2>1
    <3> QED BY <3>1
  <2>2. CASE k # 1
    <3>1. PICK i \in 1..N : i = k - 1 /\ k = i + 1
      BY <1>2, <2>2
    <3>2. v[k] = u[i] /\ g[k] = h[i] /\ g[k + 1] = h[i + 1]
      <4>1. i \in 1..(N + 1) /\ i + 1 \in 1..(N + 1)
        BY <1>2
      <4> QED BY <1>5, <1>7, <3>1, <4>1
    <3> QED BY <1>4, <3>2
  <2> QED BY <2>1, <2>2
<1>10. Spells(g, v, b, n)
  BY <1>5, <1>7, <1>8, <1>9 DEF Spells
<1> QED BY <1>5, <1>10 DEF StandsFor

\* A text stands for itself.
LEMMA StandsForItself == ASSUME NEW b \in Seq(Token) PROVE StandsFor(b, b, 1)
<1>1. PICK n \in Nat : n = Len(b)
  BY LenProperties
<1>2. PICK h : h = [k \in 1..(n + 1) |-> k]
  OBVIOUS
<1>3. ASSUME NEW k \in 1..n PROVE h[k] = k /\ h[k + 1] = k + 1
  BY <1>2
<1>4. ASSUME NEW k \in 1..n, b[k] = Gap PROVE \A j \in k..((k + 1) - 1) : b[j] = Gap
  <2>1. \A j \in k..((k + 1) - 1) : j = k
    BY <1>1
  <2> QED BY <1>4, <2>1
<1>5. h \in [1..(n + 1) -> 1..(n + 1)] /\ h[1] = 1 /\ h[n + 1] = n + 1
  BY <1>2
<1>6. \A k \in 1..n : h[k] < h[k + 1]
  BY <1>3
<1>7. Spells(h, b, b, 1)
  BY <1>1, <1>3, <1>4, <1>5, <1>6 DEF Spells
<1> QED BY <1>7 DEF StandsFor

LEMMA SpellsInOrder ==
    ASSUME NEW b \in Seq(Token), NEW t \in Seq(Token), NEW h, Spells(h, t, b, 1),
           NEW k \in 1..(Len(t) + 1), NEW l \in 1..(Len(t) + 1), k < l
    PROVE  h[k] < h[l]
<1>1. PICK N \in Nat : N = Len(t) /\ Len(b) \in Nat
  BY LenProperties
<1>2. h \in [1..(N + 1) -> 1..(Len(b) + 1)] /\ \A i \in 1..N : h[i] < h[i + 1]
  BY <1>1 DEF Spells
<1> DEFINE S == {d \in 0..(l - k) : d = 0 \/ h[k] < h[k + d]}
<1>3. l - k \in Nat /\ 0 \in S
  BY <1>1
<1>4. ASSUME NEW d \in 0..((l - k) - 1), d \in S PROVE d + 1 \in S
  <2>1. k + d \in 1..N /\ (k + d) + 1 = k + (d + 1) /\ d + 1 \in 0..(l - k)
    BY <1>1
  <2>2. h[k + d] < h[k + (d + 1)] /\ h[k + d] \in Nat /\ h[k + (d + 1)] \in Nat /\ h[k] \in Nat
    <3>1. k + (d + 1) \in 1..(N + 1) /\ k + d \in 1..(N + 1)
      BY <1>1, <2>1
    <3>2. /\ h[k + d] \in 1..(Len(b) + 1) /\ h[k + (d + 1)] \in 1..(Len(b) + 1)
          /\ h[k] \in 1..(Len(b) + 1)
      <4>1. k \in 1..(N + 1)
        BY <1>1
      <4> QED BY <1>2, <3>1, <4>1
    <3>3. h[k + d] < h[(k + d) + 1]
      BY <1>2, <2>1
    <3> QED BY <1>1, <2>1, <3>2, <3>3
  <2>3. d = 0 => k + d = k
    BY <1>1
  <2> QED BY <1>4, <2>1, <2>2, <2>3
<1>5. l - k \in S
  <2>1. \A d \in 0..(l - k) : d \in S
    <3> HIDE DEF S
    <3> QED BY <1>3, <1>4, Climb
  <2>2. l - k \in 0..(l - k)
    BY <1>3
  <2> QED BY <2>1, <2>2
<1>6. l - k # 0 /\ k + (l - k) = l
  BY <1>1
<1> QED BY <1>5, <1>6

\* What stands in the shorter text stands in the longer one.
LEMMA PhraseIsSpelled ==
    ASSUME NEW b \in Seq(Token), NEW t \in Seq(Token), NEW h, Spells(h, t, b, 1),
           NEW x \in Phrases, NEW k \in 1..Len(t), At(t, x, k)
    PROVE  /\ k + Len(x) \in 1..(Len(t) + 1) /\ h[k + Len(x)] = h[k] + Len(x)
           /\ h[k] \in 1..Len(b) /\ At(b, x, h[k])
<1>1. PICK N \in Nat, B \in Nat : N = Len(t) /\ B = Len(b)
  BY LenProperties
<1>2. PICK n \in Nat \ {0} : n = Len(x) /\ \A j \in 1..n : x[j] # Gap
  BY PhraseFacts, GapIsNoWord
<1>3. /\ h \in [1..(N + 1) -> 1..(B + 1)]
      /\ \A i \in 1..N : t[i] # Gap => h[i + 1] = h[i] + 1 /\ b[h[i]] = t[i]
  BY <1>1 DEF Spells
<1>4. k + n - 1 <= N /\ \A j \in 1..n : t[k + j - 1] = x[j]
  <2>1. k \in Nat \ {0} /\ x \in Seq(Token)
    BY <1>1, PhraseFacts
  <2>2. MeetsAt(t, x, k)
    BY <2>1, AtMeans
  <2> QED BY <1>1, <1>2, <2>2 DEF MeetsAt
<1> DEFINE S == {d \in 0..n : h[k + d] = h[k] + d}
<1>5. 0 \in S
  BY <1>1, <1>3
<1>6. ASSUME NEW d \in 0..(n - 1), h[k + d] = h[k] + d
      PROVE  h[k + (d + 1)] = h[k] + (d + 1) /\ b[h[k] + d] = x[d + 1]
  <2>1. k + d \in 1..N /\ d + 1 \in 1..n /\ k + (d + 1) - 1 = k + d /\ (k + d) + 1 = k + (d + 1)
    BY <1>1, <1>4
  <2>2. t[k + d] = x[d + 1] /\ t[k + d] # Gap
    BY <1>2, <1>4, <2>1
  <2>3. h[(k + d) + 1] = h[k + d] + 1 /\ b[h[k + d]] = t[k + d]
    BY <1>3, <2>1, <2>2
  <2>4. h[k] \in Nat
    BY <1>1, <1>3
  <2>5. b[h[k] + d] = x[d + 1]
    BY <1>6, <2>2, <2>3
  <2>6. h[k + (d + 1)] = (h[k] + d) + 1
    BY <1>6, <2>1, <2>3
  <2>7. (h[k] + d) + 1 = h[k] + (d + 1)
    BY <2>4
  <2> QED BY <2>5, <2>6, <2>7
<1>7. \A d \in 0..n : d \in S
  <2>1. \A d \in 0..(n - 1) : d \in S => d + 1 \in S
    <3>1. \A d \in 0..(n - 1) : d + 1 \in 0..n
      BY <1>2
    <3> QED BY <1>6, <3>1
  <2> HIDE DEF S
  <2> QED BY <1>5, <2>1, Climb
<1>8. \A d \in 0..n : h[k + d] = h[k] + d
  BY <1>7
<1>9. k + n \in 1..(N + 1) /\ h[k + n] = h[k] + n /\ h[k + n] \in 1..(B + 1) /\ h[k] \in 1..(B + 1)
  <2>1. k + n \in 1..(N + 1) /\ k \in 1..(N + 1) /\ n \in 0..n
    BY <1>1, <1>4
  <2> QED BY <1>3, <1>8, <2>1
<1>10. h[k] \in 1..B /\ h[k] + n - 1 <= B
  BY <1>1, <1>2, <1>9
<1>11. ASSUME NEW j \in 1..n PROVE b[h[k] + j - 1] = x[j]
  <2>1. PICK d \in 0..(n - 1) : d = j - 1 /\ d + 1 = j /\ d \in 0..n
    BY <1>2
  <2>2. b[h[k] + d] = x[d + 1]
    BY <1>6, <1>8, <2>1
  <2>3. h[k] + j - 1 = h[k] + d
    BY <1>10, <2>1
  <2> QED BY <2>1, <2>2, <2>3
<1>12. MeetsAt(b, x, h[k])
  BY <1>1, <1>2, <1>10, <1>11 DEF MeetsAt
<1> QED BY <1>1, <1>2, <1>9, <1>10, <1>12, AtMeans, PhraseFacts

\* ... and the other way round.
LEMMA SpelledPhraseIsThere ==
    ASSUME NEW b \in Seq(Token), NEW t \in Seq(Token), NEW h, Spells(h, t, b, 1),
           NEW x \in Phrases, NEW i \in 1..Len(b), At(b, x, i)
    PROVE  \E k \in 1..Len(t) : h[k] = i /\ At(t, x, k)
<1>1. PICK N \in Nat, B \in Nat : N = Len(t) /\ B = Len(b)
  BY LenProperties
<1>2. PICK n \in Nat \ {0} : n = Len(x) /\ \A j \in 1..n : x[j] # Gap
  BY PhraseFacts, GapIsNoWord
<1>3. /\ h \in [1..(N + 1) -> 1..(B + 1)] /\ h[1] = 1 /\ h[N + 1] = B + 1
      /\ \A k \in 1..N :
            /\ t[k] = Gap => \A j \in h[k]..(h[k + 1] - 1) : b[j] = Gap
            /\ t[k] # Gap => h[k + 1] = h[k] + 1 /\ b[h[k]] = t[k]
            /\ h[k] < h[k + 1]
  BY <1>1 DEF Spells
<1>4. i + n - 1 <= B /\ \A j \in 1..n : b[i + j - 1] = x[j]
  <2>1. i \in Nat \ {0} /\ x \in Seq(Token)
    BY <1>1, PhraseFacts
  <2>2. MeetsAt(b, x, i)
    BY <2>1, AtMeans
  <2> QED BY <1>1, <1>2, <2>2 DEF MeetsAt
\* The token that covers a position.
<1>5. PICK k \in 1..N : h[k] = i
  <2> DEFINE Behind == {k \in 1..(N + 1) : h[k] > i}
  <2>1. Behind \in SUBSET Nat /\ N + 1 \in Behind
    BY <1>1, <1>3
  <2>2. PICK l \in Behind : \A k \in Behind : l <= k
    <3> HIDE DEF Behind
    <3> QED BY <2>1, LeastNumber
  <2>3. l - 1 \in 1..N /\ (l - 1) + 1 = l
    <3>1. l # 1
      BY <1>1, <1>3
    <3> QED BY <1>1, <3>1
  <2>4. h[l - 1] <= i /\ i < h[l] /\ h[l - 1] \in Nat /\ h[l] \in Nat
    <3>1. l - 1 \notin Behind
      BY <1>1, <2>2
    <3>2. l - 1 \in 1..(N + 1) /\ l \in 1..(N + 1)
      BY <1>1, <2>3
    <3>3. h[l - 1] \in 1..(B + 1) /\ h[l] \in 1..(B + 1)
      BY <1>3, <3>2
    <3> QED BY <3>1, <3>2, <3>3
  <2>5. b[i] # Gap
    <3>1. 1 \in 1..n /\ i + 1 - 1 = i
      BY <1>1, <1>2
    <3> QED BY <1>2, <1>4, <3>1
  <2>6. t[l - 1] # Gap
    <3>1. i \in h[l - 1]..(h[l] - 1)
      BY <2>4
    <3> QED BY <1>3, <2>3, <2>5, <3>1
  <2>7. h[l] = h[l - 1] + 1
    BY <1>3, <2>3, <2>6
  <2>8. h[l - 1] = i
    BY <2>4, <2>7
  <2> QED BY <2>3, <2>8
<1> DEFINE S == {d \in 0..n : /\ k + d \in 1..(N + 1) /\ h[k + d] = i + d
                              /\ \A j \in 1..d : t[k + j - 1] = x[j]}
<1>6. 0 \in S
  BY <1>1, <1>2, <1>5
<1>7. ASSUME NEW d \in 0..(n - 1), d \in S PROVE d + 1 \in S
  <2>1. /\ k + d \in 1..(N + 1) /\ h[k + d] = i + d
        /\ \A j \in 1..d : t[k + j - 1] = x[j]
    BY <1>7
  <2>2. k + d \in 1..N
    <3>1. i + d # B + 1
      BY <1>1, <1>2, <1>4
    <3>2. h[N + 1] = B + 1
      BY <1>3
    <3>3. k + d # N + 1
      BY <2>1, <3>1, <3>2
    <3> QED BY <1>1, <2>1, <3>3
  <2>3. b[i + d] = x[d + 1] /\ x[d + 1] # Gap
    <3>1. d + 1 \in 1..n /\ i + (d + 1) - 1 = i + d
      BY <1>1, <1>2
    <3> QED BY <1>2, <1>4, <3>1
  <2>4. t[k + d] # Gap
    <3>1. h[k + d] < h[(k + d) + 1] /\ h[(k + d) + 1] \in Nat
      <4>1. (k + d) + 1 \in 1..(N + 1)
        BY <2>2
      <4>2. h[(k + d) + 1] \in 1..(B + 1)
        BY <1>3, <4>1
      <4>3. h[k + d] < h[(k + d) + 1]
        BY <1>3, <2>2
      <4> QED BY <4>2, <4>3
    <3>2. i + d \in h[k + d]..(h[(k + d) + 1] - 1)
      BY <1>1, <2>1, <3>1
    <3> QED BY <1>3, <2>2, <2>3, <3>2
  <2>5. h[(k + d) + 1] = (i + d) + 1 /\ t[k + d] = x[d + 1]
    BY <1>3, <2>1, <2>2, <2>3, <2>4
  <2>6. /\ (k + d) + 1 = k + (d + 1) /\ (i + d) + 1 = i + (d + 1)
        /\ k + (d + 1) \in 1..(N + 1) /\ d + 1 \in 0..n
    BY <1>1, <1>2, <2>2
  <2>7. ASSUME NEW j \in 1..(d + 1) PROVE t[k + j - 1] = x[j]
    <3>1. CASE j \in 1..d
      BY <2>1, <3>1
    <3>2. CASE j \notin 1..d
      <4>1. j = d + 1 /\ k + j - 1 = k + d
        BY <1>1, <3>2
      <4> QED BY <2>5, <4>1
    <3> QED BY <3>1, <3>2
  <2> QED BY <2>5, <2>6, <2>7
<1>8. n \in S
  <2> HIDE DEF S
  <2>1. \A d \in 0..n : d \in S
    BY <1>6, <1>7, Climb
  <2>2. n \in 0..n
    BY <1>2
  <2> QED BY <2>1, <2>2
<1>9. k + n - 1 <= N /\ \A j \in 1..n : t[k + j - 1] = x[j]
  BY <1>1, <1>2, <1>8
<1>10. MeetsAt(t, x, k)
  BY <1>1, <1>2, <1>9 DEF MeetsAt
<1> QED BY <1>1, <1>5, <1>10, AtMeans, PhraseFacts
-----------------------------------------------------------------------------
LEMMA LaterOverlapIsSame ==
    ASSUME NEW words \in Seq(Word), NEW x \in Phrases, NEW y \in Phrases, Apart(x, y),
           NEW i \in 1..Len(words), NEW j \in 1..Len(words), At(words, x, i), At(words, y, j),
           i <= j, j <= i + Len(x) - 1
    PROVE  i = j /\ x = y
<1>1. PICK m \in Nat \ {0}, n \in Nat \ {0} : m = Len(x) /\ n = Len(y)
  BY PhraseFacts
<1>2. /\ \A k \in 1..m : words[i + k - 1] = x[k]
      /\ \A k \in 1..n : words[j + k - 1] = y[k]
  <2>1. i \in Nat \ {0} /\ j \in Nat \ {0}
    BY LenProperties
  <2>2. x \in Seq(Word) /\ y \in Seq(Word)
    BY PhraseFacts
  <2>3. MeetsAt(words, x, i)
    BY <2>1, <2>2, AtMeans
  <2>4. MeetsAt(words, y, j)
    BY <2>1, <2>2, AtMeans
  <2> QED BY <1>1, <2>3, <2>4 DEF MeetsAt
<1>3. PICK d \in 0..(m - 1) : d = j - i /\ i \in Nat /\ j \in Nat
  BY <1>1, LenProperties
<1>4. ASSUME NEW k \in 1..Lower(n, m - d) PROVE x[d + k] = y[k]
  <2>1. k \in 1..n /\ d + k \in 1..m /\ i + (d + k) - 1 = j + k - 1
    BY <1>1, <1>3 DEF Lower
  <2> QED BY <1>2, <2>1
<1>5. d = 0 /\ x = y
  BY <1>1, <1>4 DEF Apart
<1> QED BY <1>3, <1>5

\* Two occurrences that share a word are one.
LEMMA OverlapIsSame ==
    ASSUME NEW words \in Seq(Word), NEW x \in Phrases, NEW y \in Phrases, Apart(x, y), Apart(y, x),
           NEW i \in 1..Len(words), NEW j \in 1..Len(words), At(words, x, i), At(words, y, j),
           NEW l \in i..(i + Len(x) - 1), l \in j..(j + Len(y) - 1)
    PROVE  i = j /\ x = y
<1>1. i \in Nat /\ j \in Nat /\ l \in Nat /\ Len(x) \in Nat /\ Len(y) \in Nat
  BY LenProperties, PhraseFacts
<1>2. CASE i <= j
  BY <1>1, <1>2, LaterOverlapIsSame
<1>3. CASE j <= i
  BY <1>1, <1>3, LaterOverlapIsSame
<1> QED BY <1>1, <1>2, <1>3

\* What of a compound is in sight at all is in sight as a whole, as long as
\* only compounds apart from it are hidden.
LEMMA HiddenWholeOrNot ==
    ASSUME NEW words \in Seq(Word), NEW X \in SUBSET Phrases, NEW x \in Phrases,
           \A y \in X : Apart(x, y) /\ Apart(y, x),
           NEW i \in 1..Len(words), At(words, x, i), NEW l \in i..(i + Len(x) - 1),
           l \notin Taken(words, X)
    PROVE  At(Blank(words, Taken(words, X)), x, i)
<1>1. i \in Nat \ {0} /\ Len(x) \in Nat \ {0} /\ DOMAIN words = 1..Len(words) /\ Len(words) \in Nat
  BY LenProperties, PhraseFacts
<1>2. l \in 1..Len(words)
  <2>1. i + Len(x) - 1 <= Len(words)
    BY DEF At
  <2> QED BY <1>1, <2>1
<1>3. ASSUME NEW j \in i..(i + Len(x) - 1), j \in Taken(words, X) PROVE FALSE
  <2>1. PICK y \in X, k \in 1..Len(words) : At(words, y, k) /\ j \in k..(k + Len(y) - 1)
    BY <1>1, <1>3 DEF Taken
  <2>2. i = k /\ x = y
    BY <2>1, OverlapIsSame
  <2> QED BY <1>1, <1>2, <2>1, <2>2 DEF Taken
<1> QED BY <1>1, <1>3, BlankAt

-----------------------------------------------------------------------------
\* One compound masked: what is left of the tokens from k on.
MaskedFrom(f, t, x, k) ==
    IF k > Len(t) THEN <<>>
    ELSE IF At(t, x, k) THEN <<Gap>> \o f[k + Len(x)]
    ELSE <<t[k]>> \o f[k + 1]

LEMMA MaskSolved ==
    ASSUME NEW t \in Seq(Token), NEW x \in Phrases
    PROVE  \E f : /\ \A k \in 1..(Len(t) + 1) : f[k] = MaskedFrom(f, t, x, k)
                  /\ MaskPhrase(t, x) = f[1]
<1>1. PICK N \in Nat : N = Len(t)
  BY LenProperties
<1>2. Len(x) \in Nat \ {0}
  BY PhraseFacts
<1> DEFINE Ends(n) == (N + 1 - n)..(N + 1)
           S == {n \in 0..N : \E f : \A k \in Ends(n) : f[k] = MaskedFrom(f, t, x, k)}
<1>3. 0 \in S
  <2>1. PICK f : f = [k \in {N + 1} |-> <<>>]
    OBVIOUS
  <2>2. \A k \in Ends(0) : k = N + 1
    BY <1>1
  <2>3. \A k \in Ends(0) : f[k] = MaskedFrom(f, t, x, k)
    BY <1>1, <2>1, <2>2 DEF MaskedFrom
  <2> QED BY <2>3
<1>4. ASSUME NEW n \in 0..(N - 1), n \in S PROVE n + 1 \in S
  <2>1. PICK f : \A k \in Ends(n) : f[k] = MaskedFrom(f, t, x, k)
    BY <1>4
  <2>2. PICK m \in 1..N : m = N - n /\ Ends(n) = (m + 1)..(N + 1) /\ Ends(n + 1) = m..(N + 1)
    BY <1>1
  <2>3. PICK g : g = [k \in m..(N + 1) |-> IF k = m THEN MaskedFrom(f, t, x, m) ELSE f[k]]
    OBVIOUS
  <2>4. \A k \in (m + 1)..(N + 1) : g[k] = f[k]
    BY <2>2, <2>3
  <2>5. ASSUME NEW k \in m..(N + 1) PROVE MaskedFrom(g, t, x, k) = MaskedFrom(f, t, x, k)
    <3>1. CASE k > N
      BY <1>1, <3>1 DEF MaskedFrom
    <3>2. CASE ~(k > N) /\ At(t, x, k)
      <4>1. k + Len(x) \in (m + 1)..(N + 1)
        BY <1>1, <1>2, <3>2 DEF At
      <4> QED BY <1>1, <2>4, <3>2, <4>1 DEF MaskedFrom
    <3>3. CASE ~(k > N) /\ ~At(t, x, k)
      <4>1. k + 1 \in (m + 1)..(N + 1)
        BY <1>1, <3>3
      <4> QED BY <1>1, <2>4, <3>3, <4>1 DEF MaskedFrom
    <3> QED BY <3>1, <3>2, <3>3
  <2>6. ASSUME NEW k \in m..(N + 1) PROVE g[k] = MaskedFrom(g, t, x, k)
    <3>1. CASE k = m
      BY <2>3, <2>5, <3>1
    <3>2. CASE k # m
      <4>1. k \in (m + 1)..(N + 1)
        BY <3>2
      <4> QED BY <2>1, <2>2, <2>4, <2>5, <4>1
    <3> QED BY <3>1, <3>2
  <2>7. n + 1 \in 0..N
    BY <1>1
  <2> QED BY <2>2, <2>6, <2>7
<1>5. N \in S
  <2>1. \A n \in 0..N : n \in S
    <3> HIDE DEF S
    <3> QED BY <1>3, <1>4, Climb
  <2> QED BY <2>1
<1>6. PICK f : \A k \in 1..(N + 1) : f[k] = MaskedFrom(f, t, x, k)
  <2>1. Ends(N) = 1..(N + 1)
    BY <1>1
  <2> QED BY <1>5, <2>1
<1> DEFINE Solves(g) == g = [i \in 1..(Len(t) + 1) |->
                               IF i > Len(t) THEN <<>>
                               ELSE IF At(t, x, i) THEN <<Gap>> \o g[i + Len(x)]
                               ELSE <<t[i]>> \o g[i + 1]]
           rest == CHOOSE g : Solves(g)
<1>7. PICK g : g = [k \in 1..(N + 1) |-> f[k]]
  OBVIOUS
<1>8. ASSUME NEW k \in 1..(N + 1) PROVE g[k] = MaskedFrom(g, t, x, k)
  <2>1. MaskedFrom(g, t, x, k) = MaskedFrom(f, t, x, k)
    <3>1. CASE k > N
      BY <1>1, <3>1 DEF MaskedFrom
    <3>2. CASE ~(k > N) /\ At(t, x, k)
      <4>1. k + Len(x) \in 1..(N + 1)
        BY <1>1, <1>2, <3>2 DEF At
      <4> QED BY <1>1, <1>7, <3>2, <4>1 DEF MaskedFrom
    <3>3. CASE ~(k > N) /\ ~At(t, x, k)
      <4>1. k + 1 \in 1..(N + 1)
        BY <1>1, <3>3
      <4> QED BY <1>1, <1>7, <3>3, <4>1 DEF MaskedFrom
    <3> QED BY <3>1, <3>2, <3>3
  <2> QED BY <1>6, <1>7, <2>1
<1>9. Solves(g)
  <2>1. g = [k \in 1..(N + 1) |-> MaskedFrom(g, t, x, k)]
    BY <1>7, <1>8
  <2> QED BY <1>1, <2>1 DEF MaskedFrom
<1>10. Solves(rest)
  <2> HIDE DEF Solves
  <2> QED BY <1>9
<1>11. MaskPhrase(t, x) = rest[1]
  BY DEF MaskPhrase
<1>12. \A k \in 1..(Len(t) + 1) : rest[k] = MaskedFrom(rest, t, x, k)
  <2> HIDE DEF rest
  <2>1. rest = [k \in 1..(Len(t) + 1) |-> MaskedFrom(rest, t, x, k)]
    BY <1>10 DEF MaskedFrom
  <2> QED BY <2>1
<1> HIDE DEF rest
<1> QED BY <1>11, <1>12

\* No occurrence reaches from before k to k.
Clear(t, x, k) == \A i \in 1..(k - 1) : At(t, x, i) => i + Len(x) <= k

\* No occurrence of a compound overlaps another, so the search, which goes on
\* behind each it finds, finds all.
LEMMA SearchStaysClear ==
    ASSUME NEW t \in Seq(Token), NEW x \in Phrases, Apart(x, x), NEW k \in 1..Len(t), Clear(t, x, k)
    PROVE  IF At(t, x, k) THEN Clear(t, x, k + Len(x)) ELSE Clear(t, x, k + 1)
<1>1. PICK n \in Nat \ {0}, N \in Nat : n = Len(x) /\ N = Len(t)
  BY PhraseFacts, LenProperties
<1>2. CASE ~At(t, x, k)
  <2>1. ASSUME NEW i \in 1..((k + 1) - 1), At(t, x, i) PROVE i + n <= k + 1
    <3>1. i \in 1..(k - 1)
      BY <1>1, <1>2, <2>1
    <3> QED BY <1>1, <2>1, <3>1 DEF Clear
  <2> QED BY <1>1, <1>2, <2>1 DEF Clear
<1>3. CASE At(t, x, k)
  <2>1. ASSUME NEW i \in 1..((k + n) - 1), At(t, x, i) PROVE i + n <= k + n
    <3>1. CASE i <= k
      BY <1>1, <3>1
    <3>2. CASE i > k
      <4>5. k \in Nat \ {0} /\ i \in Nat \ {0} /\ x \in Seq(Token)
        BY <1>1, PhraseFacts
      <4>6. MeetsAt(t, x, k) /\ MeetsAt(t, x, i)
        BY <1>3, <2>1, <4>5, AtMeans
      <4>1. /\ \A j \in 1..n : t[k + j - 1] = x[j]
            /\ \A j \in 1..n : t[i + j - 1] = x[j]
        BY <1>1, <4>6 DEF MeetsAt
      <4>2. PICK d \in 0..(n - 1) : d = i - k
        BY <1>1, <3>2
      <4>3. ASSUME NEW j \in 1..Lower(n, n - d) PROVE x[d + j] = x[j]
        <5>1. j \in 1..n /\ d + j \in 1..n /\ k + (d + j) - 1 = i + j - 1
          BY <1>1, <4>2 DEF Lower
        <5> QED BY <4>1, <5>1
      <4>4. d = 0
        BY <1>1, <4>3 DEF Apart
      <4> QED BY <3>2, <4>2, <4>4
    <3> QED BY <1>1, <3>1, <3>2
  <2> QED BY <1>1, <1>3, <2>1 DEF Clear
<1> QED BY <1>2, <1>3
\* Masking a compound hides its occurrences and nothing else, in a text that
\* others were masked in before.
LEMMA MaskHides ==
    ASSUME NEW words \in Seq(Word), NEW X \in SUBSET Phrases, NEW x \in Phrases, Apart(x, x),
           \A y \in X : Apart(x, y) /\ Apart(y, x),
           NEW t, StandsFor(t, Blank(words, Taken(words, X)), 1)
    PROVE  StandsFor(MaskPhrase(t, x), Blank(words, Taken(words, X \cup {x})), 1)
<1>1. PICK b, c : /\ b = Blank(words, Taken(words, X)) /\ b \in Seq(Token)
                  /\ c = Blank(words, Taken(words, X \cup {x})) /\ c \in Seq(Token)
  BY BlankFacts
<1>2. PICK W \in Nat : W = Len(words) /\ W = Len(b) /\ W = Len(c) /\ DOMAIN words = 1..W
  BY <1>1, BlankFacts, LenProperties
<1>3. \A j \in 1..W : /\ words[j] \in Word /\ words[j] # Gap
                      /\ b[j] = IF j \in Taken(words, X) THEN Gap ELSE words[j]
                      /\ c[j] = IF j \in Taken(words, X \cup {x}) THEN Gap ELSE words[j]
  BY <1>1, <1>2, BlankFacts
<1>4. PICK h : t \in Seq(Token) /\ Spells(h, t, b, 1)
  BY <1>1 DEF StandsFor
<1>5. PICK N \in Nat, n \in Nat \ {0} : N = Len(t) /\ n = Len(x)
  BY <1>4, LenProperties, PhraseFacts
<1>6. /\ h \in [1..(N + 1) -> 1..(W + 1)] /\ h[1] = 1 /\ h[N + 1] = W + 1
      /\ \A k \in 1..N : /\ h[k] < h[k + 1]
                         /\ t[k] = Gap => \A j \in h[k]..(h[k + 1] - 1) : b[j] = Gap
                         /\ t[k] # Gap => h[k + 1] = h[k] + 1 /\ b[h[k]] = t[k]
                         /\ t[k] \in Token
  <2>1. \A k \in 1..N : t[k] \in Token
    BY <1>4, <1>5, ElementOfSeq
  <2> QED BY <1>2, <1>4, <1>5, <2>1 DEF Spells
<1>7. PICK f : /\ \A k \in 1..(N + 1) : f[k] = MaskedFrom(f, t, x, k)
               /\ MaskPhrase(t, x) = f[1]
  BY <1>4, <1>5, MaskSolved
\* What is hidden stays hidden.
<1>8. ASSUME NEW j \in 1..W, b[j] = Gap PROVE c[j] = Gap
  <2>1. j \in Taken(words, X)
    BY <1>3, <1>8
  <2>2. j \in Taken(words, X \cup {x})
    BY <2>1 DEF Taken
  <2> QED BY <1>3, <2>2
\* The search has come to k and no occurrence begins there.
<1>9. ASSUME NEW k \in 1..N, Clear(t, x, k), ~At(t, x, k), t[k] # Gap
      PROVE  c[h[k]] = t[k]
  <2>1. h[k] \in 1..W /\ b[h[k]] = t[k]
    <3>1. h[k] < h[k + 1] /\ h[k + 1] \in 1..(W + 1) /\ h[k] \in 1..(W + 1)
      <4>1. k + 1 \in 1..(N + 1) /\ k \in 1..(N + 1)
        BY <1>5
      <4> QED BY <1>6, <4>1
    <3> QED BY <1>2, <1>6, <1>9, <3>1
  <2>2. h[k] \notin Taken(words, X) /\ words[h[k]] = t[k]
    BY <1>3, <1>9, <2>1
  <2>3. ASSUME NEW i \in 1..W, At(words, x, i), h[k] \in i..(i + n - 1) PROVE FALSE
    <3>1. At(b, x, i)
      BY <1>1, <1>2, <1>5, <2>2, <2>3, HiddenWholeOrNot
    <3>8. i \in 1..Len(b)
      BY <1>2
    <3>9. \E l \in 1..Len(t) : h[l] = i /\ At(t, x, l)
      BY <1>1, <1>4, <3>1, <3>8, SpelledPhraseIsThere
    <3>2. PICK l \in 1..N : h[l] = i /\ At(t, x, l)
      BY <1>5, <3>9
    <3>10. l \in 1..Len(t)
      BY <1>5
    <3>11. l + Len(x) \in 1..(Len(t) + 1) /\ h[l + Len(x)] = h[l] + Len(x)
      BY <1>1, <1>4, <3>2, <3>10, PhraseIsSpelled
    <3>3. l + n \in 1..(N + 1) /\ h[l + n] = i + n
      BY <1>5, <3>2, <3>11
    <3>4. ~(k < l)
      <4>1. k < l => h[k] < h[l]
        <5>1. k \in 1..(N + 1) /\ l \in 1..(N + 1)
          BY <1>5
        <5> QED BY <1>1, <1>4, <1>5, <5>1, SpellsInOrder
      <4> QED BY <1>2, <2>1, <2>3, <3>2, <4>1
    <3>5. l < k
      BY <1>5, <1>9, <3>2, <3>4
    <3>6. l + n <= k
      BY <1>5, <1>9, <3>2, <3>5 DEF Clear
    <3>7. h[l + n] <= h[k]
      <4>1. l + n < k => h[l + n] < h[k]
        <5>1. k \in 1..(N + 1)
          BY <1>5
        <5> QED BY <1>1, <1>4, <1>5, <3>3, <5>1, SpellsInOrder
      <4>2. l + n = k => h[l + n] = h[k]
        OBVIOUS
      <4>3. l + n < k \/ l + n = k
        BY <1>5, <3>6
      <4> QED BY <1>2, <1>5, <2>1, <3>3, <4>1, <4>2, <4>3
    <3> QED BY <1>2, <1>5, <2>1, <2>3, <3>3, <3>7
  <2>4. h[k] \notin Taken(words, X \cup {x})
    <3>1. ASSUME NEW y \in X \cup {x}, NEW i \in 1..W, At(words, y, i), h[k] \in i..(i + Len(y) - 1)
          PROVE  FALSE
      <4>1. CASE y = x
        BY <1>5, <2>3, <3>1, <4>1
      <4>2. CASE y # x
        BY <1>2, <2>1, <2>2, <3>1, <4>2 DEF Taken
      <4> QED BY <4>1, <4>2
    <3> QED BY <1>2, <3>1 DEF Taken
  <2> QED BY <1>3, <2>1, <2>2, <2>4
\* An occurrence is hidden.
<1>10. ASSUME NEW k \in 1..N, At(t, x, k)
       PROVE  /\ k + n \in 1..(N + 1) /\ h[k + n] = h[k] + n
              /\ \A j \in h[k]..(h[k + n] - 1) : c[j] = Gap
  <2>4. k \in 1..Len(t)
    BY <1>5
  <2>5. /\ k + Len(x) \in 1..(Len(t) + 1) /\ h[k + Len(x)] = h[k] + Len(x)
        /\ h[k] \in 1..Len(b) /\ At(b, x, h[k])
    BY <1>1, <1>4, <1>10, <2>4, PhraseIsSpelled
  <2>1. /\ k + n \in 1..(N + 1) /\ h[k + n] = h[k] + n /\ h[k] \in 1..W /\ At(b, x, h[k])
    BY <1>2, <1>5, <2>5
  <2>2. At(words, x, h[k])
    <3>1. h[k] \in Nat \ {0}
      BY <1>2, <2>1
    <3> QED BY <1>1, <2>1, <3>1, BlankAt
  <2>3. ASSUME NEW j \in h[k]..(h[k + n] - 1) PROVE c[j] = Gap
    <3>1. j \in h[k]..(h[k] + Len(x) - 1)
      BY <1>2, <1>5, <2>1
    <3>2. j \in 1..W
      <4>1. h[k] + n - 1 <= W
        BY <1>2, <1>5, <2>2 DEF At
      <4> QED BY <1>2, <1>5, <2>1, <4>1
    <3>3. x \in X \cup {x} /\ h[k] \in DOMAIN words
      BY <1>2, <2>1
    <3>4. j \in Taken(words, X \cup {x})
      BY <1>2, <2>2, <3>1, <3>2, <3>3 DEF Taken
    <3> QED BY <1>3, <3>2, <3>4
  <2> QED BY <2>1, <2>3
<1> DEFINE Fine(k) == Clear(t, x, k) => StandsFor(f[k], c, h[k])
           S == {d \in 0..N : \A k \in (N + 1 - d)..(N + 1) : Fine(k)}
<1>11. Fine(N + 1)
  <2>5. N + 1 \in 1..(N + 1) /\ N + 1 > N
    BY <1>5
  <2>6. f[N + 1] = MaskedFrom(f, t, x, N + 1)
    BY <1>7, <2>5
  <2>1. f[N + 1] = <<>>
    BY <1>5, <2>5, <2>6 DEF MaskedFrom
  <2>2. PICK g : g = [k \in 1..1 |-> W + 1]
    OBVIOUS
  <2>3. Len(<<>>) = 0 /\ <<>> \in Seq(Token)
    BY EmptySeq
  <2>4. Spells(g, <<>>, c, W + 1)
    BY <1>2, <2>2, <2>3 DEF Spells
  <2> QED BY <1>6, <2>1, <2>3, <2>4 DEF StandsFor
<1>12. ASSUME NEW k \in 1..N, Clear(t, x, k), \A i \in (k + 1)..(N + 1) : Fine(i)
       PROVE  StandsFor(f[k], c, h[k])
  <2>1. k \in 1..(N + 1) /\ k + 1 \in 1..(N + 1) /\ ~(k > N)
    BY <1>5
  <2>2. /\ h[k] \in 1..(Len(c) + 1) /\ h[k + 1] \in 1..(Len(c) + 1) /\ h[k] < h[k + 1]
    BY <1>2, <1>6, <2>1
  <2>3. CASE At(t, x, k)
    <3>1. f[k] = <<Gap>> \o f[k + n]
      BY <1>5, <1>7, <2>1, <2>3 DEF MaskedFrom
    <3>2. k + n \in (k + 1)..(N + 1) /\ h[k + n] \in 1..(Len(c) + 1) /\ h[k] < h[k + n]
      BY <1>2, <1>5, <1>6, <1>10, <2>2, <2>3
    <3>3. StandsFor(f[k + n], c, h[k + n])
      <4>1. Clear(t, x, k + n)
        BY <1>4, <1>5, <1>12, <2>3, SearchStaysClear
      <4> QED BY <1>12, <3>2, <4>1
    <3>4. \A j \in h[k]..(h[k + n] - 1) : c[j] = Gap
      BY <1>10, <2>3
    <3> HIDE DEF Fine
    <3> QED BY <1>1, <2>2, <3>1, <3>2, <3>3, <3>4, GapIsNoWord, TokenBefore
  <2>4. CASE ~At(t, x, k)
    <3>1. f[k] = <<t[k]>> \o f[k + 1]
      BY <1>5, <1>7, <2>1, <2>4 DEF MaskedFrom
    <3>2. StandsFor(f[k + 1], c, h[k + 1])
      <4>1. Clear(t, x, k + 1)
        BY <1>4, <1>5, <1>12, <2>4, SearchStaysClear
      <4>2. k + 1 \in (k + 1)..(N + 1)
        BY <1>5
      <4> QED BY <1>12, <4>1, <4>2
    <3>3. t[k] \in Token
      BY <1>6
    <3>4. IF t[k] = Gap THEN \A j \in h[k]..(h[k + 1] - 1) : c[j] = Gap
          ELSE h[k + 1] = h[k] + 1 /\ c[h[k]] = t[k]
      <4>1. CASE t[k] = Gap
        <5>1. ASSUME NEW j \in h[k]..(h[k + 1] - 1) PROVE c[j] = Gap
          <6>1. j \in 1..W
            BY <1>2, <2>2
          <6>2. b[j] = Gap
            BY <1>6, <4>1
          <6> QED BY <1>8, <6>1, <6>2
        <5> QED BY <4>1, <5>1
      <4>2. CASE t[k] # Gap
        BY <1>6, <1>9, <1>12, <2>4, <4>2
      <4> QED BY <4>1, <4>2
    <3> HIDE DEF Fine
    <3> QED BY <1>1, <2>2, <3>1, <3>2, <3>3, <3>4, TokenBefore
  <2> QED BY <2>3, <2>4
<1>13. 0 \in S
  <2>1. \A k \in (N + 1 - 0)..(N + 1) : k = N + 1
    BY <1>5
  <2> HIDE DEF Fine
  <2> QED BY <1>11, <2>1
<1>14. ASSUME NEW d \in 0..(N - 1), d \in S PROVE d + 1 \in S
  <2>1. PICK m \in 1..N : m = N - d /\ N + 1 - d = m + 1 /\ N + 1 - (d + 1) = m
    BY <1>5
  <2>2. Fine(m)
    <3>1. \A i \in (m + 1)..(N + 1) : Fine(i)
      <4> HIDE DEF Fine
      <4> QED BY <1>14, <2>1
    <3> QED BY <1>12, <3>1
  <2>3. \A k \in m..(N + 1) : k = m \/ k \in (m + 1)..(N + 1)
    BY <2>1
  <2>4. d + 1 \in 0..N
    BY <1>5
  <2> HIDE DEF Fine
  <2> QED BY <1>14, <2>1, <2>2, <2>3, <2>4
<1>15. Fine(1)
  <2>1. \A d \in 0..N : d \in S
    <3> HIDE DEF S
    <3> QED BY <1>13, <1>14, Climb
  <2>2. N \in S /\ 1 \in (N + 1 - N)..(N + 1)
    BY <1>5, <2>1
  <2> HIDE DEF Fine
  <2> QED BY <2>2
<1>16. Clear(t, x, 1)
  BY DEF Clear
<1> QED BY <1>1, <1>6, <1>7, <1>15, <1>16

-----------------------------------------------------------------------------
(***************************************************************************)
(* All compounds, one after the other.                                     *)
(***************************************************************************)
LEMMA LastOfFirst ==
    ASSUME NEW m \in Nat, NEW s \in SUBSET (1..(m + 1)), m + 1 \in s
    PROVE  Max(s) = m + 1
<1>1. \A y \in s : m + 1 >= y
  OBVIOUS
<1>2. \A y \in s : (\A z \in s : y >= z) => y = m + 1
  OBVIOUS
<1> QED BY <1>1, <1>2 DEF Max

\* What a fold over the phrases with the indices s yields.
FoldedOver(f, words, phrases, s) ==
    IF s = {} THEN words ELSE MaskPhrase(f[s \ {Max(s)}], phrases[Max(s)])

LEMMA FoldSolved ==
    ASSUME NEW words, NEW phrases \in Seq(Phrases)
    PROVE  \E f : /\ \A s \in SUBSET (1..Len(phrases)) : f[s] = FoldedOver(f, words, phrases, s)
                  /\ MaskPhrases(words, phrases) = f[1..Len(phrases)]
<1>1. PICK N \in Nat : N = Len(phrases) /\ DOMAIN phrases = 1..N
  BY LenProperties
<1> DEFINE S == {n \in 0..N :
                    \E f : \A s \in SUBSET (1..n) : f[s] = FoldedOver(f, words, phrases, s)}
<1>2. 0 \in S
  <2>1. PICK f : f = [s \in {{}} |-> words]
    OBVIOUS
  <2>2. \A s \in SUBSET (1..0) : s = {}
    OBVIOUS
  <2>3. \A s \in SUBSET (1..0) : f[s] = FoldedOver(f, words, phrases, s)
    BY <2>1, <2>2 DEF FoldedOver
  <2>4. 0 \in 0..N
    BY <1>1
  <2> QED BY <2>3, <2>4
<1>3. ASSUME NEW n \in 0..(N - 1), n \in S PROVE n + 1 \in S
  <2>1. PICK f : \A s \in SUBSET (1..n) : f[s] = FoldedOver(f, words, phrases, s)
    BY <1>3
  <2>2. PICK g : g = [s \in SUBSET (1..(n + 1)) |->
                        IF n + 1 \in s THEN MaskPhrase(f[s \ {n + 1}], phrases[n + 1]) ELSE f[s]]
    OBVIOUS
  <2>3. \A s \in SUBSET (1..n) : g[s] = f[s] /\ s \in SUBSET (1..(n + 1))
    <3>1. ASSUME NEW s \in SUBSET (1..n) PROVE n + 1 \notin s /\ s \in SUBSET (1..(n + 1))
      OBVIOUS
    <3> QED BY <2>2, <3>1
  <2>4. ASSUME NEW s \in SUBSET (1..(n + 1)) PROVE g[s] = FoldedOver(g, words, phrases, s)
    <3>1. CASE n + 1 \in s
      <4>1. Max(s) = n + 1
        BY <3>1, LastOfFirst
      <4>2. s \ {n + 1} \in SUBSET (1..n)
        OBVIOUS
      <4> QED BY <2>2, <2>3, <3>1, <4>1, <4>2 DEF FoldedOver
    <3>2. CASE n + 1 \notin s
      <4>1. s \in SUBSET (1..n)
        BY <3>2
      <4>2. s \ {Max(s)} \in SUBSET (1..n)
        BY <4>1
      <4> QED BY <2>1, <2>3, <4>1, <4>2 DEF FoldedOver
    <3> QED BY <3>1, <3>2
  <2>5. n + 1 \in 0..N
    BY <1>1
  <2> QED BY <2>4, <2>5
<1>4. N \in S
  <2> HIDE DEF S
  <2>1. \A n \in 0..N : n \in S
    BY <1>2, <1>3, Climb
  <2> QED BY <2>1
<1>5. PICK f : \A s \in SUBSET (1..N) : f[s] = FoldedOver(f, words, phrases, s)
  BY <1>4
<1> DEFINE Solves(g) == g = [s \in SUBSET DOMAIN phrases |->
                               IF s = {} THEN words
                               ELSE MaskPhrase(g[s \ {Max(s)}], phrases[Max(s)])]
           iter == CHOOSE g : Solves(g)
<1>6. PICK g : g = [s \in SUBSET (1..N) |-> f[s]]
  OBVIOUS
<1>7. Solves(g)
  <2>1. ASSUME NEW s \in SUBSET (1..N) PROVE f[s] = FoldedOver(g, words, phrases, s)
    <3>1. s \ {Max(s)} \in SUBSET (1..N)
      OBVIOUS
    <3> QED BY <1>5, <1>6, <3>1 DEF FoldedOver
  <2>2. g = [s \in SUBSET (1..N) |-> FoldedOver(g, words, phrases, s)]
    BY <1>6, <2>1
  <2> QED BY <1>1, <2>2 DEF FoldedOver
<1>8. Solves(iter)
  <2> HIDE DEF Solves
  <2> QED BY <1>7
<1>9. MaskPhrases(words, phrases) = iter[DOMAIN phrases]
  BY DEF MaskPhrases, FoldLeft, MapThenFoldSet
<1> HIDE DEF iter
<1>10. ASSUME NEW s \in SUBSET (1..N) PROVE iter[s] = FoldedOver(iter, words, phrases, s)
  <2>1. iter = [z \in SUBSET (1..N) |-> FoldedOver(iter, words, phrases, z)]
    BY <1>1, <1>8 DEF FoldedOver
  <2> QED BY <2>1
<1> QED BY <1>1, <1>9, <1>10

LEMMA CompoundsHide ==
    ASSUME NEW words \in Seq(Word), NEW phrases \in Seq(Phrases),
           \A x, y \in ToSet(phrases) : Apart(x, y)
    PROVE  StandsFor(MaskPhrases(words, phrases), Blank(words, Taken(words, ToSet(phrases))), 1)
<1>1. PICK N \in Nat : N = Len(phrases) /\ DOMAIN phrases = 1..N
  BY LenProperties
<1>2. PICK f : /\ \A s \in SUBSET (1..N) : f[s] = FoldedOver(f, words, phrases, s)
               /\ MaskPhrases(words, phrases) = f[1..N]
  BY <1>1, FoldSolved
<1>3. \A i \in 1..N : phrases[i] \in Phrases /\ phrases[i] \in ToSet(phrases)
  BY <1>1, ElementOfSeq DEF ToSet
<1> DEFINE First(n) == {phrases[i] : i \in 1..n}
           S == {n \in 0..N : StandsFor(f[1..n], Blank(words, Taken(words, First(n))), 1)}
<1>4. 0 \in S
  <2>1. 1..0 = {} /\ First(0) = {} /\ {} \in SUBSET (1..N)
    OBVIOUS
  <2>2. f[{}] = words
    BY <1>2, <2>1 DEF FoldedOver
  <2>3. Taken(words, {}) = {}
    BY DEF Taken
  <2>4. Blank(words, {}) = words
    <3>1. words \in Seq(Token)
      BY SeqMonotonic, GapIsNoWord
    <3>2. \A i \in 1..Len(words) : Blank(words, {})[i] = words[i]
      BY BlankFacts
    <3> QED BY <3>1, <3>2, BlankFacts, SeqEqual
  <2>5. words \in Seq(Token)
    BY SeqMonotonic, GapIsNoWord
  <2>6. StandsFor(words, words, 1)
    BY <2>5, StandsForItself
  <2>7. StandsFor(f[1..0], Blank(words, Taken(words, First(0))), 1)
    BY <2>1, <2>2, <2>3, <2>4, <2>6
  <2> HIDE DEF First
  <2> QED BY <2>7
<1>5. ASSUME NEW n \in 0..(N - 1), n \in S PROVE n + 1 \in S
  <2>1. /\ 1..(n + 1) \in SUBSET (1..N) /\ 1..(n + 1) # {} /\ n + 1 \in 1..(n + 1)
        /\ (1..(n + 1)) \ {n + 1} = 1..n /\ n + 1 \in 1..N /\ n + 1 \in 0..N
    <3>1. n \in Nat /\ n + 1 <= N
      BY <1>1
    <3>2. n + 1 \in 1..(n + 1) /\ n + 1 \in 1..N /\ n + 1 \in 0..N
      BY <3>1
    <3>3. \A i \in 1..(n + 1) : i \in 1..N
      BY <1>1, <3>1
    <3>4. \A i : i \in 1..n <=> i \in 1..(n + 1) /\ i # n + 1
      BY <3>1
    <3>5. (1..(n + 1)) \ {n + 1} = 1..n
      BY <3>4
    <3> QED BY <3>2, <3>3, <3>5
  <2>2. Max(1..(n + 1)) = n + 1
    BY <2>1, LastOfFirst
  <2>3. f[1..(n + 1)] = MaskPhrase(f[1..n], phrases[n + 1])
    BY <1>2, <2>1, <2>2 DEF FoldedOver
  <2>4. First(n + 1) = First(n) \cup {phrases[n + 1]}
    BY <2>1
  <2>5. First(n) \in SUBSET Phrases /\ \A y \in First(n) : y \in ToSet(phrases)
    <3>1. \A i \in 1..n : i \in 1..N
      BY <1>1
    <3> QED BY <1>3, <3>1
  <2>6. PICK x \in Phrases : x = phrases[n + 1] /\ x \in ToSet(phrases)
    BY <1>3, <2>1
  <2>7. PICK X \in SUBSET Phrases : X = First(n) /\ \A y \in X : y \in ToSet(phrases)
    BY <2>5
  <2>8. StandsFor(f[1..n], Blank(words, Taken(words, X)), 1)
    BY <1>5, <2>7
  <2>9. Apart(x, x) /\ \A y \in X : Apart(x, y) /\ Apart(y, x)
    BY <2>6, <2>7
  <2>10. StandsFor(MaskPhrase(f[1..n], x), Blank(words, Taken(words, X \cup {x})), 1)
    BY <2>8, <2>9, MaskHides
  <2> QED BY <2>1, <2>3, <2>4, <2>6, <2>7, <2>10
<1>6. N \in S
  <2>1. \A n \in 0..N : n \in S
    <3> HIDE DEF S
    <3> QED BY <1>4, <1>5, Climb
  <2> QED BY <2>1
<1>7. First(N) = ToSet(phrases)
  BY <1>1 DEF ToSet
<1> QED BY <1>2, <1>6, <1>7

\* What is found in a masked text.
LEMMA FoundOutsideCompounds ==
    ASSUME NEW words \in Seq(Word), NEW phrases \in Seq(Phrases),
           \A x, y \in ToSet(phrases) : Apart(x, y), NEW p \in Phrases
    PROVE  LET seen == MaskPhrases(words, phrases)
           IN (\E i \in DOMAIN seen : At(seen, p, i)) <=>
                  \E i \in DOMAIN words :
                      /\ At(words, p, i)
                      /\ \A j \in i..(i + Len(p) - 1) : j \notin Taken(words, ToSet(phrases))
<1>1. PICK seen, hidden, b : /\ seen = MaskPhrases(words, phrases)
                             /\ hidden = Taken(words, ToSet(phrases)) /\ b = Blank(words, hidden)
  OBVIOUS
<1>2. PICK h : seen \in Seq(Token) /\ Spells(h, seen, b, 1)
  BY <1>1, CompoundsHide DEF StandsFor
<1>3. /\ b \in Seq(Token) /\ Len(b) = Len(words) /\ Len(words) \in Nat
      /\ DOMAIN words = 1..Len(words) /\ DOMAIN seen = 1..Len(seen)
  BY <1>1, <1>2, BlankFacts, LenProperties
<1>4. (\E i \in 1..Len(seen) : At(seen, p, i)) <=> \E i \in 1..Len(b) : At(b, p, i)
  <2>1. ASSUME NEW i \in 1..Len(seen), At(seen, p, i) PROVE h[i] \in 1..Len(b) /\ At(b, p, h[i])
    BY <1>2, <1>3, <2>1, PhraseIsSpelled
  <2>2. ASSUME NEW i \in 1..Len(b), At(b, p, i) PROVE \E k \in 1..Len(seen) : At(seen, p, k)
    BY <1>2, <1>3, <2>2, SpelledPhraseIsThere
  <2> QED BY <2>1, <2>2
<1>5. \A i \in 1..Len(words) :
          At(b, p, i) <=> At(words, p, i) /\ \A j \in i..(i + Len(p) - 1) : j \notin hidden
  BY <1>1, <1>3, BlankAt
<1> QED BY <1>1, <1>3, <1>4, <1>5

LEMMA RulesWords == ASSUME NEW c \in Conversations PROVE RulesText(c) \in Seq(Word)
<1>1. PICK words \in Seq(Word) :
          words = IF Kept(c) = <<>> THEN c.summary ELSE Flat(Bare(c))
  <2>1. c.summary \in Seq(Word)
    BY ConversationAssumption DEF Word
  <2>2. PICK n \in Nat : /\ n = Len(Kept(c)) /\ DOMAIN Kept(c) = 1..n
                         /\ \A i \in 1..n : Kept(c)[i] \in [role : Labels, content : Seq(Word)]
    BY KeptMessages, LenProperties, ElementOfSeq
  <2>3. \A i \in 1..n : Kept(c)[i].content \in Seq(Word)
    BY <2>2
  <2>4. Bare(c) \in [1..n -> Seq(Word)]
    BY <2>2, <2>3 DEF Bare
  <2>5. Bare(c) \in Seq(Seq(Word))
    BY <2>4, SequenceOf
  <2> QED BY <2>1, <2>5, FlatType
<1>2. PICK first \in Nat \ {0} : RulesText(c) = SubSeq(words, first, Len(words))
  <2>1. Higher(1, Len(words) - MaxWords + 1) \in Nat \ {0}
    BY ConversationAssumption, LenProperties DEF Higher
  <2> QED BY <1>1, <2>1 DEF RulesText, LastWords
<1>3. \A i \in first..Len(words) : words[i] \in Word
  BY ElementOfSeq, LenProperties
<1> QED BY <1>2, <1>3, LenProperties, SubSeqProperties

\* types.ts, rules/classify.ts: of whatever a turn is about, a compound hides
\* the words it is made of and no others.
THEOREM CompoundsHideTheirOwn == ConversationSpec => []CompoundsHideOnlyTheirWords
<1>1. ConversationInv => CompoundsHideOnlyTheirWords
  <2> SUFFICES ASSUME ConversationInv, NEW t \in Started, NEW category \in DOMAIN SensitiveRegistry
               PROVE  LET words == NormalizeText(RulesText(ask[t].about))
                          rules == SensitiveRegistry[category]
                          hidden == UNION {x[2]..(x[2] + Len(x[1]) - 1) :
                              x \in {y \in ToSet(rules.exclusions) \X (DOMAIN words) :
                                        At(words, y[1], y[2])}}
                          hits == SensitiveHits(words, category)
                      IN \A p \in rules.strong \cup rules.weak :
                             p \in hits.strong \cup hits.weak <=>
                                 \E i \in DOMAIN words :
                                     /\ At(words, p, i)
                                     /\ i..(i + Len(p) - 1) \cap hidden = {}
    BY DEF CompoundsHideOnlyTheirWords
  <2>1. PICK words \in Seq(Word) : words = NormalizeText(RulesText(ask[t].about))
    BY RulesWords, NormalText DEF ConversationInv, AsksAreTyped
  <2>2. PICK rules : rules = SensitiveRegistry[category]
    OBVIOUS
  <2>3. /\ rules.strong \cup rules.weak \subseteq Phrases /\ rules.exclusions \in Seq(Phrases)
        /\ \A x, y \in ToSet(rules.exclusions) : Apart(x, y)
    BY <2>2, DictionaryAssumption
  <2>4. PICK hidden : hidden = UNION {x[2]..(x[2] + Len(x[1]) - 1) :
            x \in {y \in ToSet(rules.exclusions) \X (DOMAIN words) : At(words, y[1], y[2])}}
    OBVIOUS
  <2>5. ASSUME NEW p \in Phrases, NEW i \in DOMAIN words, At(words, p, i)
        PROVE  i..(i + Len(p) - 1) \cap hidden = {} <=>
                   \A j \in i..(i + Len(p) - 1) : j \notin Taken(words, ToSet(rules.exclusions))
    <3>1. \A j \in i..(i + Len(p) - 1) : j \in 1..Len(words)
      <4>1. /\ i \in Nat \ {0} /\ Len(words) \in Nat /\ Len(p) \in Nat
            /\ i + Len(p) - 1 <= Len(words)
        BY <2>5, LenProperties, PhraseFacts DEF At
      <4> QED BY <4>1
    <3>2. ASSUME NEW j \in 1..Len(words)
          PROVE  j \in hidden <=> j \in Taken(words, ToSet(rules.exclusions))
      <4>1. ASSUME j \in hidden PROVE j \in Taken(words, ToSet(rules.exclusions))
        <5>1. PICK x \in {y \in ToSet(rules.exclusions) \X (DOMAIN words) : At(words, y[1], y[2])} :
                  j \in x[2]..(x[2] + Len(x[1]) - 1)
          BY <2>4, <4>1
        <5>2. x[1] \in ToSet(rules.exclusions) /\ x[2] \in DOMAIN words /\ At(words, x[1], x[2])
          BY <5>1
        <5> QED BY <3>2, <5>1, <5>2 DEF Taken
      <4>2. ASSUME j \in Taken(words, ToSet(rules.exclusions)) PROVE j \in hidden
        <5>1. PICK y \in ToSet(rules.exclusions), k \in DOMAIN words :
                  At(words, y, k) /\ j \in k..(k + Len(y) - 1)
          BY <4>2 DEF Taken
        <5>4. PICK x : x = <<y, k>>
          OBVIOUS
        <5>2. x[1] = y /\ x[2] = k
          BY <5>4
        <5>3. x \in {z \in ToSet(rules.exclusions) \X (DOMAIN words) : At(words, z[1], z[2])}
          BY <5>1, <5>2, <5>4
        <5> QED BY <2>4, <5>1, <5>2, <5>3
      <4> QED BY <4>1, <4>2
    <3> QED BY <3>1, <3>2
  <2>6. PICK seen : seen = MaskPhrases(words, rules.exclusions)
    OBVIOUS
  <2>7. PICK hits : hits = SensitiveHits(words, category)
    OBVIOUS
  <2>8. hits.strong = FindPhrases(seen, rules.strong) /\ hits.weak = FindPhrases(seen, rules.weak)
    BY <2>2, <2>6, <2>7 DEF SensitiveHits
  <2>9. ASSUME NEW p \in rules.strong \cup rules.weak
        PROVE  p \in hits.strong \cup hits.weak <=>
                   \E i \in DOMAIN words : At(words, p, i) /\ i..(i + Len(p) - 1) \cap hidden = {}
    <3>1. p \in hits.strong \cup hits.weak <=> \E i \in DOMAIN seen : At(seen, p, i)
      BY <2>8 DEF FindPhrases
    <3>2. p \in Phrases
      BY <2>3
    <3>3. (\E i \in DOMAIN seen : At(seen, p, i)) <=>
              \E i \in DOMAIN words :
                  /\ At(words, p, i)
                  /\ \A j \in i..(i + Len(p) - 1) : j \notin Taken(words, ToSet(rules.exclusions))
      BY <2>3, <2>6, <3>2, FoundOutsideCompounds
    <3> QED BY <2>5, <3>1, <3>2, <3>3
  <2> QED BY <2>1, <2>2, <2>4, <2>7, <2>9
<1> QED BY <1>1, ConversationInitHolds, ConversationStepKeeps, PTL DEF ConversationSpec
=============================================================================
