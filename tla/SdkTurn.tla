------------------------------ MODULE SdkTurn ------------------------------
(***************************************************************************)
(* Turns of an app that uses the SDKs (packages/sdk, packages/sdk-python): *)
(* the evaluate call runs beside the model, the finished answer is         *)
(* attested, and nothing of it may break or delay the answer.              *)
(*                                                                         *)
(* A turn is made in one of five ways.  "generate" and "stream" are the    *)
(* two paths of adgateMiddleware: a turn may take several model calls      *)
(* (steps), which share one evaluation through the turn store.  "whole" is *)
(* withGeneration (and the synchronous with_generation of Python), "async" *)
(* the asyncio one and the turn of the FastAPI example, "forStream" the    *)
(* handle an app feeds chunk by chunk.                                     *)
(*                                                                         *)
(* The gateway is a party that answers late or never.  What it handles     *)
(* leaves a record and a reply on its way, and a call that has settled no  *)
(* longer listens.                                                         *)
(***************************************************************************)
EXTENDS Naturals, Sequences, FiniteSets

CONSTANTS
    Turns,
    MaxSteps,   \* model calls of one turn
    Keys,       \* conversation and turn id pairs the app gives the middleware
    Plans,      \* how the turns may be made: functions to [mode, key, steps]
    MaxTurns,   \* MAX_TRACKED_TURNS
    MaxChunks,  \* bound on the text of one step
    None

Modes == {"generate", "stream", "whole", "async", "forStream"}
Middleware == {"generate", "stream"}
Steps == Turns \X (1..MaxSteps)
Calls == {"evaluate", "attest"} \X Steps

ASSUME SdkAssumption ==
    /\ MaxSteps \in Nat \ {0} /\ MaxTurns \in Nat \ {0} /\ MaxChunks \in Nat
    /\ IsFiniteSet(Turns) /\ None \notin Steps
    /\ Plans \subseteq [Turns -> [mode : Modes, key : Keys, steps : 1..MaxSteps]]

VARIABLES
    turn,       \* each turn: [mode, key, steps], steps the most model calls
    store,      \* the turn store, oldest first: [key, eval]
    step,       \* each model call: [pc, eval, text, final, void]
    call,       \* HTTP calls: "none", "sent", "ok", "error", or never made: "unsent"
    sent,       \* the attestation each step sent: [eval, text, rendered]
    records     \* at the gateway: the decision of the record of each evaluation

vars == <<turn, store, step, call, sent, records>>

-----------------------------------------------------------------------------
NewStep == [pc |-> "idle", eval |-> None, text |-> 0, final |-> TRUE, void |-> FALSE]

Init ==
    /\ turn \in Plans
    /\ store = <<>>
    /\ step = [s \in Steps |-> NewStep]
    /\ call = [c \in Calls |-> "none"]
    /\ sent = [s \in Steps |-> None]
    /\ records = [e \in Steps |-> None]

ModeOf(s) == turn[s[1]].mode
KeyOf(s) == turn[s[1]].key

\* What evaluate resolved with: the record's decision, or the fail-closed
\* suppress without an audit id.
Seen(e) == IF call[<<"evaluate", e>>] = "ok" THEN records[e] ELSE "error"
Settled(c) == call[c] \in {"ok", "error", "unsent"}

-----------------------------------------------------------------------------
(* The turn store.                                                         *)

Running(k) == {i \in DOMAIN store : store[i].key = k}

\* set: the oldest turns leave a store that is over its bound.
Remembered(k, e) ==
    LET grown == Append(store, [key |-> k, eval |-> e])
        over == IF Len(grown) > MaxTurns THEN Len(grown) - MaxTurns ELSE 0
    IN SubSeq(grown, over + 1, Len(grown))

\* end, whatever turn put the entry there.
Ended(k) ==
    IF Running(k) = {} THEN store
    ELSE LET at == CHOOSE i \in Running(k) : TRUE
         IN [n \in 1..(Len(store) - 1) |-> store[IF n < at THEN n ELSE n + 1]]

-----------------------------------------------------------------------------
(* Beginning a step: the evaluation starts before the model is awaited.    *)

MayBegin(s) ==
    /\ step[s].pc = "idle" /\ s[2] <= turn[s[1]].steps
    /\ s[2] > 1 =>
           LET before == step[<<s[1], s[2] - 1>>]
           IN before.pc = "done" /\ ~before.final

Opened(s, e) == [step EXCEPT ![s].pc = "model", ![s].eval = e]

\* A throwing getUser, or a signal that is already aborted: no request is made.
\* That the app's getUser settles is assumed; nothing bounds it.
StartEvaluate(s) ==
    \E state \in {"sent", "unsent"} : call' = [call EXCEPT ![<<"evaluate", s>>] = state]

\* Variant: each model call of a turn asks anew.
BeginAlways(s) ==
    /\ MayBegin(s) /\ ModeOf(s) \in Middleware
    /\ step' = Opened(s, s)
    /\ store' = Remembered(KeyOf(s), s)
    /\ StartEvaluate(s)
    /\ UNCHANGED <<turn, sent, records>>

\* beginTurn: the running evaluation of the key, or a new one.
BeginTurn(s) ==
    /\ MayBegin(s) /\ ModeOf(s) \in Middleware
    /\ \/ \E i \in Running(KeyOf(s)) :
              /\ step' = Opened(s, store[i].eval)
              /\ UNCHANGED <<store, call>>
       \/ /\ Running(KeyOf(s)) = {}
          /\ step' = Opened(s, s)
          /\ store' = Remembered(KeyOf(s), s)
          /\ StartEvaluate(s)
    /\ UNCHANGED <<turn, sent, records>>

\* withGeneration and forStream: one evaluation, no store.
BeginSingle(s) ==
    /\ MayBegin(s) /\ ModeOf(s) \notin Middleware
    /\ step' = Opened(s, s)
    /\ StartEvaluate(s)
    /\ UNCHANGED <<turn, store, sent, records>>

-----------------------------------------------------------------------------
(* The wire: postJson races the transport against a deadline.              *)

\* The gateway records its decision; its reply may come too late or never.
Handle(e) ==
    /\ call[<<"evaluate", e>>] = "sent" /\ records[e] = None
    /\ \E decision \in {"serve", "suppress"} :
           records' = [records EXCEPT ![e] = decision]
    /\ UNCHANGED <<turn, store, step, call, sent>>

Answerable(c) == c[1] = "evaluate" => records[c[2]] # None

\* A reply with a status and a body the client can use, if it still waits.
Respond(c) ==
    /\ call[c] = "sent" /\ Answerable(c)
    /\ call' = [call EXCEPT ![c] = "ok"]
    /\ UNCHANGED <<turn, store, step, sent, records>>

\* A refused connection, a status outside 2xx, a body that is no
\* EvaluateResponse, the caller's own abort: evaluate fails closed, attest
\* reports it.
CallFails(c) ==
    /\ call[c] = "sent"
    /\ call' = [call EXCEPT ![c] = "error"]
    /\ UNCHANGED <<turn, store, step, sent, records>>

\* Variant: the deadline only signals the transport, and waits for it to obey.
PoliteDeadline(c) ==
    /\ call[c] = "sent" /\ Answerable(c)
    /\ call' = [call EXCEPT ![c] = "error"]
    /\ UNCHANGED <<turn, store, step, sent, records>>

\* The deadline wins the race even when the transport ignores its signal.
Deadline(c) ==
    /\ call[c] = "sent"
    /\ call' = [call EXCEPT ![c] = "error"]
    /\ UNCHANGED <<turn, store, step, sent, records>>

-----------------------------------------------------------------------------
(* The model's answer.                                                     *)

\* A chunk passes through to the user and into the answer.  A call that does
\* not stream has its text at once.
Transform(s) ==
    /\ step[s].pc = "model" /\ ModeOf(s) = "stream"
    /\ step[s].text < MaxChunks
    /\ step' = [step EXCEPT ![s].text = @ + 1]
    /\ UNCHANGED <<turn, store, call, sent, records>>

\* Variant: onChunk takes chunks that come after finish.
TakesLateChunk(s) ==
    /\ ModeOf(s) = "forStream" /\ step[s].pc \in {"model", "flush", "attest"}
    /\ step[s].text < MaxChunks
    /\ step' = [step EXCEPT ![s].text = @ + 1]
    /\ UNCHANGED <<turn, store, call, sent, records>>

\* onChunk drops what comes after finish or abort.
OnChunk(s) ==
    /\ ModeOf(s) = "forStream" /\ step[s].pc \in {"model", "flush", "attest"}
    /\ step[s].text < MaxChunks
    /\ step' = [step EXCEPT ![s].text = IF step[s].pc = "model" /\ ~step[s].void
                                        THEN @ + 1 ELSE @]
    /\ UNCHANGED <<turn, store, call, sent, records>>

\* abort of a forStream handle: nothing may be attested any more.
AbortStream(s) ==
    /\ ModeOf(s) = "forStream" /\ step[s].pc \in {"model", "flush", "attest"}
    /\ ~step[s].void
    /\ step' = [step EXCEPT ![s].void = TRUE]
    /\ UNCHANGED <<turn, store, call, sent, records>>

\* The model is done.  A middleware step may end in tool calls, after which
\* the model is called again; a stream without a finish part is final.
ModelEnds(s) ==
    /\ step[s].pc = "model"
    /\ \E final \in BOOLEAN :
           /\ final \/ ModeOf(s) \in Middleware
           /\ step' = [step EXCEPT ![s].pc = "flush", ![s].final = final]
    /\ UNCHANGED <<turn, store, call, sent, records>>

\* The model throws, or the consumer of a stream walks away: nothing is
\* attested, the evaluation and the store entry are left to themselves.
ModelFails(s) ==
    /\ step[s].pc = "model" /\ ModeOf(s) \in Middleware
    /\ step' = [step EXCEPT ![s].pc = "failed"]
    /\ UNCHANGED <<turn, store, call, sent, records>>

\* generate raises: its error is the caller's, the evaluation is abandoned.
GenerateRaises(s) ==
    /\ step[s].pc = "model" /\ ModeOf(s) = "whole"
    /\ step' = [step EXCEPT ![s].pc = "failed"]
    /\ UNCHANGED <<turn, store, call, sent, records>>

\* asyncio: generate raises or the caller hangs up, at any await; the call
\* under way is cancelled.
Cancelled(s) ==
    /\ ModeOf(s) = "async" /\ step[s].pc \in {"model", "flush", "attest"}
    /\ step' = [step EXCEPT ![s].pc = "failed"]
    /\ call' = [c \in Calls |-> IF c[2] = s /\ call[c] = "sent" THEN "error" ELSE call[c]]
    /\ UNCHANGED <<turn, store, sent, records>>

-----------------------------------------------------------------------------
(* The end of a step.                                                      *)

\* Variant: every step of a turn attests its text.
AlwaysAttests(s) == Seen(step[s].eval) # "error" /\ ~step[s].void

\* There is a record to attest, the text is the answer, and no one aborted.
MayAttest(s) == Seen(step[s].eval) # "error" /\ step[s].final /\ ~step[s].void

\* What an app says of the slot: it may say nothing, and it says that it showed
\* one only when it was given one.
Options(s) == {"unset", "hidden"} \cup (IF Seen(step[s].eval) = "serve" THEN {"shown"} ELSE {})

\* Variant: without an option the slot counts as rendered.
RenderedUnlessHidden(s, option) == option # "hidden"

\* resolveRendered: the app's word, else what the decision says.
Rendered(s, option) ==
    IF option = "unset" THEN Seen(step[s].eval) = "serve" ELSE option = "shown"

\* attestAnswer: the hash of the full text under the evaluation's audit id.
\* A signal that is already aborted sends nothing.
Attest(s) ==
    \E state \in {"sent", "unsent"}, option \in Options(s) :
        /\ call' = [call EXCEPT ![<<"attest", s>>] = state]
        /\ sent' = [sent EXCEPT ![s] =
               IF state = "sent"
               THEN [eval |-> step[s].eval, text |-> step[s].text,
                     rendered |-> Rendered(s, option)]
               ELSE None]

\* When the evaluation has settled: the turn ends with its final step, which
\* attests; the generate path does not wait for that, the others do.
AfterEvaluation(s) ==
    /\ step[s].pc = "flush" /\ Settled(<<"evaluate", step[s].eval>>)
    /\ store' = IF ModeOf(s) \in Middleware /\ step[s].final
                THEN Ended(KeyOf(s)) ELSE store
    /\ IF MayAttest(s)
       THEN /\ Attest(s)
            /\ step' = [step EXCEPT ![s].pc = IF ModeOf(s) = "generate" THEN "done" ELSE "attest"]
       ELSE /\ step' = [step EXCEPT ![s].pc = "done"]
            /\ UNCHANGED <<call, sent>>
    /\ UNCHANGED <<turn, records>>

AfterAttest(s) ==
    /\ step[s].pc = "attest" /\ Settled(<<"attest", s>>)
    /\ step' = [step EXCEPT ![s].pc = "done"]
    /\ UNCHANGED <<turn, store, call, sent, records>>

\* A stream lets go of an attestation that takes too long.
FlushDeadline(s) ==
    /\ ModeOf(s) = "stream" /\ step[s].pc = "attest" /\ ~Settled(<<"attest", s>>)
    /\ step' = [step EXCEPT ![s].pc = "done"]
    /\ UNCHANGED <<turn, store, call, sent, records>>

Next ==
    \/ \E s \in Steps :
           \/ BeginTurn(s) \/ BeginSingle(s)
           \/ Transform(s) \/ OnChunk(s) \/ AbortStream(s)
           \/ ModelEnds(s) \/ ModelFails(s) \/ GenerateRaises(s) \/ Cancelled(s)
           \/ AfterEvaluation(s) \/ AfterAttest(s) \/ FlushDeadline(s)
    \/ \E e \in Steps : Handle(e)
    \/ \E c \in Calls : Respond(c) \/ CallFails(c) \/ Deadline(c)

Spec == Init /\ [][Next]_vars

\* Timers fire and settled promises resume; the model, the network and the
\* gateway owe nothing.
FairSpec ==
    /\ Spec
    /\ \A c \in Calls : WF_vars(Deadline(c))
    /\ \A s \in Steps : WF_vars(AfterEvaluation(s)) /\ WF_vars(AfterAttest(s))

-----------------------------------------------------------------------------
(* Properties.                                                             *)

TypeOK ==
    /\ turn \in Plans
    /\ store \in Seq([key : Keys, eval : Steps]) /\ Len(store) <= MaxTurns
    /\ step \in [Steps -> [pc : {"idle", "model", "flush", "attest", "done", "failed"},
                           eval : Steps \cup {None}, text : 0..MaxChunks,
                           final : BOOLEAN, void : BOOLEAN]]
    /\ call \in [Calls -> {"none", "sent", "ok", "error", "unsent"}]
    /\ sent \in [Steps -> [eval : Steps, text : 0..MaxChunks, rendered : BOOLEAN] \cup {None}]
    /\ records \in [Steps -> {"serve", "suppress", None}]

\* turn.ts: the steps of one turn share one evaluation, one audit record and
\* one cap slot.  Only as many newer turns as the store holds, or another
\* answer under the same pair of ids, can make a step ask again.
OneEvaluatePerTurn ==
    \A t \in Turns, i \in 2..MaxSteps :
        step[<<t, i>>].eval \notin {None, step[<<t, 1>>].eval} =>
            \/ Cardinality({u \in Turns \ {t} :
                   turn[u].mode \in Middleware /\ step[<<u, 1>>].eval # None}) >= MaxTurns
            \/ \E u \in Turns \ {t} : turn[u].key = turn[t].key

\* What is attested is the whole answer of a step that ended its turn, as the
\* user saw it, under the record the gateway made for that turn; a turn
\* attests at most once, and never as rendered unless the record serves.
AttestsWhatWasShown ==
    \A t \in Turns :
        /\ \A i \in 1..MaxSteps :
               LET s == <<t, i>> m == sent[s] IN
               m # None =>
                   /\ m.text = step[s].text
                   /\ step[s].final
                   /\ step[s].pc \in {"attest", "done", "failed"}
                   /\ records[m.eval] # None /\ m.eval = step[s].eval
                   /\ m.rendered => records[m.eval] = "serve"
        /\ Cardinality({i \in 1..MaxSteps : sent[<<t, i>>] # None}) <= 1

\* The user has a step's answer, and the step has not ended.
StepsWait == \E s \in Steps : step[s].pc \in {"flush", "attest"}
=============================================================================
