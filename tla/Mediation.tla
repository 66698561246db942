----------------------------- MODULE Mediation -----------------------------
(***************************************************************************)
(* One turn's demand mediation (packages/core/src/demand): the adapters of *)
(* the effective policy are called in parallel, each under a timer and an  *)
(* AbortController of its own; when each has answered, failed, run out of  *)
(* time or been cancelled, what they offered is filtered by the competitor *)
(* exclusions and ranked, and the best candidate wins.                     *)
(*                                                                         *)
(* A creative is what the catalogue holds: [source, network, domain,       *)
(* matches, rank].  matches says that matchScore is above 0 for this       *)
(* request (active, in the user's region, a category of the turn), rank is *)
(* its place in compareByRevenue, 1 the best; two offers of one creative   *)
(* by two adapters compare equal.  An adapter's links are the creatives it *)
(* can build a URL for under the app's affiliate configuration.            *)
(*                                                                         *)
(* An adapter may answer at any time or never: those in the repository     *)
(* answer at once, their contract (DemandAdapter) allows for I/O.          *)
(***************************************************************************)
EXTENDS Integers, FiniteSets

CONSTANTS
    Adapters,       \* number of adapters, in the order of the policy's demand list
    AdapterOf,      \* [source, network, links] of each
    Creatives,      \* the catalogue
    AdDomains,
    Covers,         \* [d \in AdDomains]: d itself and its subdomains
    MaxCandidates,
    NoNetwork,
    NoOffer            \* nothing selected

Indices == 1..Adapters

ASSUME MediationAssumption ==
    /\ Adapters \in Nat /\ MaxCandidates \in Nat
    /\ \A c \in Creatives : c.domain \in AdDomains /\ c.rank \in Nat
    /\ \A c, d \in Creatives : c.rank = d.rank => c = d      \* ties go by id
    /\ \A i \in Indices, c \in Creatives : NoOffer # [adapter |-> i, creative |-> c]
    /\ \A d \in AdDomains : d \in Covers[d] /\ Covers[d] \subseteq AdDomains

VARIABLES
    phase,          \* mediate(): "idle", "calling", "done"
    exclusions,     \* competitor exclusions: of the policy and of the request
    settled,        \* what fetchOne of each adapter resolved with, or Open
    timers,         \* adapters whose timer runs
    listeners,      \* adapters that listen to the caller's signal
    cancelled,      \* adapters whose own signal is aborted
    inFlight,       \* adapters whose fetch has not settled
    caller,         \* the caller's signal: "live", "aborted"
    result

mediationVars == <<phase, exclusions, settled, timers, listeners, cancelled, inFlight, caller, result>>

-----------------------------------------------------------------------------
(* What an adapter offers, and how offers are judged.                      *)

\* An affiliate creative that names no network goes to any.
Fits(c, i) ==
    /\ c.source = AdapterOf[i].source
    /\ c.source = "affiliate" => c.network \in {NoNetwork, AdapterOf[i].network}

\* The creatives an adapter can serve for the request.
Eligible(i) == {c \in Creatives : c.matches /\ Fits(c, i) /\ c \in AdapterOf[i].links}

\* rankCandidates: its best ones, however many better ones will be excluded.
Offers(i) ==
    {c \in Eligible(i) :
        Cardinality({d \in Eligible(i) : d.rank < c.rank}) < MaxCandidates}

\* Variant: the policy's list only.
ExcludedByPolicy(domain, lists) == \E e \in lists.policy : domain \in Covers[e]

IsExcluded(domain, lists) ==
    \E e \in lists.policy \cup lists.request : domain \in Covers[e]

\* The stable sort of the offers in adapter order.
RanksBefore(x, y) ==
    \/ x.creative.rank < y.creative.rank
    \/ x.creative.rank = y.creative.rank /\ x.adapter < y.adapter

-----------------------------------------------------------------------------
(* fetchOne.                                                               *)

Open == [kind |-> "open", offers |-> {}]
Answered(offers) == [kind |-> "answered", offers |-> offers]
Failed(kind) == [kind |-> kind, offers |-> {}]
Failures == {"timeout", "aborted", "adapter_error", "malformed"}

NoResult == [selected |-> NoOffer, responses |-> <<>>, excluded |-> {}]

MediationInit ==
    /\ phase = "idle"
    /\ exclusions = [policy |-> {}, request |-> {}]
    /\ settled = [i \in Indices |-> Open]
    /\ timers = {} /\ listeners = {} /\ cancelled = {} /\ inFlight = {}
    /\ caller = "live"
    /\ result = NoResult

\* Every adapter is called; a caller that has gone already calls none.
Mediate(lists) ==
    /\ phase = "idle"
    /\ phase' = "calling"
    /\ exclusions' = lists
    /\ IF caller = "aborted"
       THEN /\ settled' = [i \in Indices |-> Failed("aborted")]
            /\ UNCHANGED <<timers, listeners, inFlight>>
       ELSE /\ timers' = Indices /\ listeners' = Indices /\ inFlight' = Indices
            /\ UNCHANGED settled
    /\ UNCHANGED <<cancelled, caller, result>>

\* finish: the first settlement counts and releases the timer and listener.
Finish(i, outcome) ==
    IF settled[i] = Open
    THEN /\ settled' = [settled EXCEPT ![i] = outcome]
         /\ timers' = timers \ {i}
         /\ listeners' = listeners \ {i}
    ELSE UNCHANGED <<settled, timers, listeners>>

\* The adapter's promise settles: with candidates; with a list that has a
\* hole in it, which the type forbids; or with something else or a rejection.
Settle(i) ==
    /\ i \in inFlight
    /\ inFlight' = inFlight \ {i}
    /\ \E outcome \in
           {Answered(Offers(i)), Failed("malformed"), Failed("adapter_error")} :
           Finish(i, outcome)
    /\ UNCHANGED <<phase, exclusions, cancelled, caller, result>>

\* Variant: the signal alone is to make the adapter answer.
SignalOnly(i) ==
    /\ i \in timers
    /\ cancelled' = cancelled \cup {i}
    /\ timers' = timers \ {i}
    /\ UNCHANGED <<phase, exclusions, settled, listeners, inFlight, caller, result>>

TimerFires(i) ==
    /\ i \in timers
    /\ cancelled' = cancelled \cup {i}
    /\ Finish(i, Failed("timeout"))
    /\ UNCHANGED <<phase, exclusions, inFlight, caller, result>>

\* The caller's signal reaches every adapter still listening.
Abort ==
    /\ caller = "live" /\ phase # "done"
    /\ caller' = "aborted"
    /\ settled' = [i \in Indices |-> IF i \in listeners THEN Failed("aborted") ELSE settled[i]]
    /\ cancelled' = cancelled \cup listeners
    /\ timers' = timers \ listeners
    /\ listeners' = {}
    /\ UNCHANGED <<phase, exclusions, inFlight, result>>

-----------------------------------------------------------------------------
(* mediateOrThrow.                                                         *)

AllSettled == \A i \in Indices : settled[i] # Open
Malformed == \E i \in Indices : settled[i].kind = "malformed"
Everything == {[adapter |-> i, creative |-> c] : i \in Indices, c \in Creatives}
Offered == {o \in Everything : o.creative \in settled[o.adapter].offers}
Excluded == {o \in Offered : IsExcluded(o.creative.domain, exclusions)}

\* Variant: the whole list is ranked and the winner dropped if excluded.
WinnerIfAllowed(offers) ==
    LET best == {o \in Offered : \A x \in Offered : x = o \/ RanksBefore(o, x)} \cap offers
    IN IF best = {} THEN NoOffer ELSE CHOOSE o \in best : TRUE

Winner(offers) ==
    IF offers = {} THEN NoOffer
    ELSE CHOOSE o \in offers : \A x \in offers : x = o \/ RanksBefore(o, x)

\* One entry per adapter: how many candidates, and the error.
Summary(i) == [error |-> settled[i].kind, candidates |-> Cardinality(settled[i].offers)]

\* failedAll: every source with the same error, nothing selected.
AllFailed ==
    [NoResult EXCEPT !.responses = [i \in Indices |-> [error |-> "adapter_error", candidates |-> 0]]]

Rank ==
    /\ phase = "calling" /\ AllSettled
    /\ phase' = "done"
    /\ result' = IF Malformed THEN AllFailed
                 ELSE [selected |-> Winner(Offered \ Excluded),
                       responses |-> [i \in Indices |-> Summary(i)],
                       excluded |-> Excluded]
    /\ UNCHANGED <<exclusions, settled, timers, listeners, cancelled, inFlight, caller>>

MediationNext ==
    \/ \E policy, request \in SUBSET AdDomains :
           Mediate([policy |-> policy, request |-> request])
    \/ \E i \in Indices : Settle(i) \/ TimerFires(i)
    \/ Abort \/ Rank
    \/ phase = "done" /\ inFlight = {} /\ UNCHANGED mediationVars

\* Timers fire and promises that all settled go on; nothing makes an adapter
\* answer.
MediationSpec ==
    /\ MediationInit /\ [][MediationNext]_mediationVars
    /\ WF_mediationVars(Rank)
    /\ \A i \in Indices : WF_mediationVars(TimerFires(i))

-----------------------------------------------------------------------------
(* Properties.                                                             *)

Outcomes == {Open} \cup {Failed(kind) : kind \in Failures}
            \cup {Answered(S) : S \in SUBSET Creatives}
MediationTypeOK ==
    /\ phase \in {"idle", "calling", "done"} /\ caller \in {"live", "aborted"}
    /\ exclusions \in [policy: SUBSET AdDomains, request: SUBSET AdDomains]
    /\ DOMAIN settled = Indices /\ \A i \in Indices : settled[i] \in Outcomes
    /\ \A S \in {timers, listeners, cancelled, inFlight} : S \subseteq Indices
    /\ result.selected \in Everything \cup {NoOffer} /\ result.excluded \subseteq Everything

\* No excluded advertiser or subdomain of one is shown, whichever of the two
\* lists names it, and nothing that could have been shown is listed as
\* excluded.
ExclusionsHold ==
    phase = "done" =>
        /\ \A e \in exclusions.policy \cup exclusions.request :
               result.selected # NoOffer => result.selected.creative.domain \notin Covers[e]
        /\ \A o \in result.excluded :
               \E e \in exclusions.policy \cup exclusions.request :
                   o.creative.domain \in Covers[e]

\* What is selected was offered before the adapter's deadline, as the trace
\* says, and is the best of everything the trace counts and does not exclude;
\* there is something whenever there could be.
SelectionMatchesTrace ==
    phase = "done" =>
        LET counted == {i \in Indices : result.responses[i].error = "answered"}
            shown == {o \in Everything : /\ o.adapter \in counted
                                         /\ o.creative \in Offers(o.adapter)
                                         /\ o \notin result.excluded}
        IN /\ result.selected = NoOffer <=> shown = {}
           /\ result.selected # NoOffer =>
                  /\ result.selected \in shown
                  /\ \A o \in shown : result.selected.creative.rank <= o.creative.rank

\* One of the offers made in time is chosen, the best that is allowed, and the
\* trace says which: an exclusion is neither forgotten nor made up, though
\* each adapter cuts its list before the exclusions apply.
BestAllowedWins == ExclusionsHold /\ SelectionMatchesTrace

\* mediate() has not answered yet.
MediateWaits == phase = "calling"
=============================================================================
