----------------------------- MODULE AuditChain -----------------------------
(***************************************************************************)
(* One app's audit chain and frequency-cap counters, and the calls that    *)
(* write them: POST /v1/evaluate (packages/gateway/src/evaluate) and       *)
(* POST /v1/attest (packages/gateway/src/attest).  Every statement of the  *)
(* gateway is scoped to one app_id, so one app is the whole story.         *)
(*                                                                         *)
(* A call is a request some gateway process handles; calls interleave at   *)
(* every database round trip.  An evaluation reads the cap state without a *)
(* lock, classifies and mediates, and then persists inside one transaction *)
(* that holds the apps row FOR UPDATE (lockApp): read the chain's tail and *)
(* the cap state again, decide again, insert, update the counters.  A      *)
(* failure anywhere sends it to the fail-closed path, which persists a     *)
(* suppress/error record the same way.  An attestation appends a second,   *)
(* superseding version of a recorded turn under the same lock.             *)
(*                                                                         *)
(* A record's hash is modelled by what it identifies: the audit id and the *)
(* version of the record (1 as recorded, 2 attested).                      *)
(***************************************************************************)
EXTENDS FrequencyCaps

CONSTANTS
    Calls,          \* the requests the gateway receives
    Conversations, Users,
    AppCaps,        \* frequency_caps of the app's stored policy
    Overrides,      \* frequency_caps a request may ask for
    LastDay,        \* bound: the clock stops at this day
    NoCall          \* nobody (holds the app lock)

ASSUME ConstantsAssumption ==
    /\ IsFiniteSet(Calls) /\ NoCall \notin Calls /\ NoUser \notin Users
    /\ LastDay \in Nat
    /\ AppCaps \in CapValues /\ Overrides \subseteq CapValues

VARIABLES
    audit,      \* table audit_records: the rows, without is_latest
    latest,     \* the hashes of the rows with is_latest = true
    capRow,     \* table cap_state, by conversation
    dayCount,   \* table user_day_caps: count by (user, day)
    lock,       \* the call holding the apps row FOR UPDATE, or NoCall
    today,      \* the UTC day the gateway's clock shows
    pc,         \* where each call is
    work,       \* what each evaluation has computed before its transaction
    snap,       \* what each transaction has read under the lock
    reply       \* what each call was answered

tables == <<audit, latest, capRow, dayCount>>
vars == <<audit, latest, capRow, dayCount, lock, today, pc, work, snap, reply>>

-----------------------------------------------------------------------------
Days == 0..LastDay
SomeUser == Users \cup {NoUser}

\* An evaluation draws one id for its turn and a fresh one if it fails closed.
Ids == Calls \X {"turn", "error"}
NoId == <<NoCall, "none">>
Hash(i, version) == [id |-> i, version |-> version]
NoHash == Hash(NoId, 0)     \* prev_hash genesis, supersedes_hash null
Hashes == [id: Ids, version: {1, 2}]

Outcomes == {"serve", "no_fill", "rule", "frequency_cap", "error"}
Rows == [id: Ids, version: {1, 2}, seq: Nat \ {0}, prev: Hashes \cup {NoHash},
         supersedes: Hashes \cup {NoHash}, ts: Days, conv: Conversations,
         user: SomeUser, day: Days, outcome: Outcomes, caps: CapValues]
CapRows == [session_count: Nat, turn_count: Nat, last_turn_index: Nat,
            user_hash: SomeUser]

HashOf(row) == Hash(row.id, row.version)
Turns == {row \in audit : row.supersedes = NoHash}
AttestedIds == {row.id : row \in audit \ Turns}

Verdicts == Outcomes \cup {"pending"}
Works == [conv: Conversations \cup {NoCall}, user: SomeUser, caps: CapValues,
          day: Days, ts: Days, verdict: Verdicts]
Snaps == [seq: Nat, hash: Hashes \cup {NoHash}, current: Hashes \cup {NoHash},
          row: CapRows, day_count: Nat]
Answers == Outcomes \cup {"none", "attested", "not_found", "already_attested", "failed"}
Replies == [outcome: Answers, id: Ids \cup {NoId}, recorded: BOOLEAN]

Phases == {"idle", "classifying", "waiting", "writing", "attesting", "done", "crashed"}
InTransaction == {"writing", "attesting"}
Running == {"classifying", "waiting", "writing", "attesting"}

NoWork == [conv |-> NoCall, user |-> NoUser, caps |-> AppCaps,
           day |-> 0, ts |-> 0, verdict |-> "pending"]
NoSnap == [seq |-> 0, hash |-> NoHash, current |-> NoHash,
           row |-> EmptyCapRow, day_count |-> 0]
NoReply == [outcome |-> "none", id |-> NoId, recorded |-> FALSE]

Init ==
    /\ audit = {} /\ latest = {}
    /\ capRow = [conv \in Conversations |-> EmptyCapRow]
    /\ dayCount = [ud \in Users \X Days |-> 0]
    /\ lock = NoCall /\ today = 0
    /\ pc = [c \in Calls |-> "idle"]
    /\ work = [c \in Calls |-> NoWork]
    /\ snap = [c \in Calls |-> NoSnap]
    /\ reply = [c \in Calls |-> NoReply]

-----------------------------------------------------------------------------
(* Reads.                                                                  *)

DayCount(user, day) == IF user = NoUser THEN 0 ELSE dayCount[<<user, day>>]

\* readLatestAudit: the row with the highest seq, or nothing.
TailRow == CHOOSE row \in audit : \A other \in audit : other.seq <= row.seq
Tail == IF audit = {} THEN [seq |-> 0, hash |-> NoHash]
                      ELSE [seq |-> TailRow.seq, hash |-> HashOf(TailRow)]

\* readLatestVersion: the rows an audit id is served from (one, or none).
LatestVersions(i) == {row \in audit : row.id = i /\ HashOf(row) \in latest}

-----------------------------------------------------------------------------
(* Evaluation, before its transaction.                                     *)

\* The request arrives; the pre-lock cap state is read and judged.  Nothing
\* the caps decide here is final.
ReadCaps(c, conv, user, override) ==
    /\ pc[c] = "idle"
    /\ LET caps == StricterCaps(AppCaps, override)
           state == CapStateFrom(capRow[conv], DayCount(user, today))
           verdict == IF WithinCaps(state, caps, user) THEN "pending" ELSE "frequency_cap"
       IN work' = [work EXCEPT ![c] = [conv |-> conv, user |-> user, caps |-> caps,
                                       day |-> today, ts |-> today, verdict |-> verdict]]
    /\ pc' = [pc EXCEPT ![c] = "classifying"]
    /\ UNCHANGED <<tables, lock, today, snap, reply>>

\* A capped turn asked nobody; another rule's refusal comes first.  The
\* record's timestamp is taken now.
Decided(w, found) ==
    [conv |-> w.conv, user |-> w.user, caps |-> w.caps, day |-> w.day, ts |-> today,
     verdict |-> IF found = "rule" \/ w.verdict = "pending" THEN found ELSE w.verdict]

\* Classification, the other policy rules and mediation have ended: some rule
\* failed, or demand had an ad, or it had none.
Decide(c, found) ==
    /\ pc[c] = "classifying"
    /\ work' = [work EXCEPT ![c] = Decided(@, found)]
    /\ pc' = [pc EXCEPT ![c] = "waiting"]
    /\ UNCHANGED <<tables, lock, today, snap, reply>>

-----------------------------------------------------------------------------
(* The persist transaction.                                                *)

BeginPersist(c) ==
    /\ pc[c] = "waiting"
    /\ lock = NoCall
    /\ lock' = c
    /\ snap' = [snap EXCEPT ![c] =
          [seq |-> Tail.seq, hash |-> Tail.hash, current |-> NoHash,
           row |-> capRow[work[c].conv],
           day_count |-> DayCount(work[c].user, work[c].day)]]
    /\ pc' = [pc EXCEPT ![c] = "writing"]
    /\ UNCHANGED <<tables, today, work, reply>>

\* Variant: the verdict reached without the lock stands.
PreLockOutcome(c) == work[c].verdict

\* The build callback: a turn the pre-lock state allowed is judged again on
\* the cap state read under the lock, and dropped when that caps it.
Outcome(c) ==
    LET fresh == CapStateFrom(snap[c].row, snap[c].day_count)
    IN IF /\ work[c].verdict \in {"serve", "no_fill"}
          /\ ~WithinCaps(fresh, work[c].caps, work[c].user)
       THEN "frequency_cap"
       ELSE work[c].verdict

\* buildEvaluateResponse takes the record that was persisted.
ReplyOutcome(c) == Outcome(c)

TurnId(c) == <<c, IF work[c].verdict = "error" THEN "error" ELSE "turn">>

TurnRow(c) ==
    [id |-> TurnId(c), version |-> 1, seq |-> snap[c].seq + 1, prev |-> snap[c].hash,
     supersedes |-> NoHash, ts |-> work[c].ts, conv |-> work[c].conv,
     user |-> work[c].user, day |-> work[c].day, outcome |-> Outcome(c),
     caps |-> work[c].caps]

UniqueSeq(row) == \A other \in audit : other.seq # row.seq

\* The inserts and updates of the transaction.
InsertTurn(c) ==
    LET row == TurnRow(c)
    IN /\ UniqueSeq(row)
       /\ audit' = audit \cup {row}
       /\ latest' = latest \cup {HashOf(row)}
       /\ capRow' = [capRow EXCEPT
             ![row.conv] = NextCapRow(snap[c].row, Served(row), row.user)]
       /\ dayCount' = IF Served(row) /\ row.user # NoUser
                      THEN [dayCount EXCEPT ![<<row.user, row.day>>] = @ + 1]
                      ELSE dayCount

Commit(c) ==
    /\ pc[c] = "writing"
    /\ InsertTurn(c)
    /\ lock' = NoCall
    /\ pc' = [pc EXCEPT ![c] = "done"]
    /\ reply' = [reply EXCEPT ![c] = [outcome |-> ReplyOutcome(c), id |-> TurnId(c),
                                      recorded |-> TRUE]]
    /\ work' = [work EXCEPT ![c] = NoWork]
    /\ snap' = [snap EXCEPT ![c] = NoSnap]
    /\ UNCHANGED today

-----------------------------------------------------------------------------
(* Failure.  Anything that throws sends the call to failClosed; a second   *)
(* failure is answered without a record.                                   *)

\* Variant: a connection that fails keeps its transaction open.
HeldOnFailure(c) == lock

\* A transaction that ends, however it ends, releases the apps row.
Released(c) == IF lock = c THEN NoCall ELSE lock

\* failClosed draws a new id, day and timestamp and decides under the stored
\* policy; it then persists like any other record.
FailedWork(w) ==
    [conv |-> w.conv, user |-> w.user, caps |-> AppCaps, day |-> today, ts |-> today,
     verdict |-> "error"]

FailClosed(c) ==
    /\ work[c].verdict # "error"
    /\ work' = [work EXCEPT ![c] = FailedWork(@)]
    /\ pc' = [pc EXCEPT ![c] = "waiting"]
    /\ snap' = [snap EXCEPT ![c] = NoSnap]
    /\ UNCHANGED reply

AnswerUnrecorded(c) ==
    /\ work[c].verdict = "error"
    /\ pc' = [pc EXCEPT ![c] = "done"]
    /\ reply' = [reply EXCEPT ![c] = [outcome |-> "error", id |-> TurnId(c),
                                      recorded |-> FALSE]]
    /\ work' = [work EXCEPT ![c] = NoWork]
    /\ snap' = [snap EXCEPT ![c] = NoSnap]

\* An error before or inside the transaction, a lock or statement timeout
\* included: nothing it did stays.
Fail(c) ==
    /\ pc[c] \in {"classifying", "waiting", "writing"}
    /\ lock' = Released(c)
    /\ FailClosed(c) \/ AnswerUnrecorded(c)
    /\ UNCHANGED <<tables, today>>

\* The connection is lost after COMMIT reached the server: the transaction
\* is in the database, and the caller sees an error all the same.
CommitUnacknowledged(c) ==
    /\ pc[c] = "writing"
    /\ InsertTurn(c)
    /\ lock' = Released(c)
    /\ FailClosed(c) \/ AnswerUnrecorded(c)
    /\ UNCHANGED today

\* The gateway process dies; the server rolls its transaction back.
Crash(c) ==
    /\ pc[c] \in Running
    /\ lock' = Released(c)
    /\ pc' = [pc EXCEPT ![c] = "crashed"]
    /\ work' = [work EXCEPT ![c] = NoWork]
    /\ snap' = [snap EXCEPT ![c] = NoSnap]
    /\ UNCHANGED <<tables, today, reply>>

-----------------------------------------------------------------------------
(* Attestation.                                                            *)

\* A current version that has not been attested.
Attestable(row) == row.supersedes = NoHash

Answer(c, outcome, i) ==
    /\ pc' = [pc EXCEPT ![c] = "done"]
    /\ reply' = [reply EXCEPT ![c] = [outcome |-> outcome, id |-> i,
                                      recorded |-> outcome = "attested"]]

\* 404 or 409, decided under the lock, which is released again.
RefuseAttest(c, i) ==
    /\ pc[c] = "idle"
    /\ lock = NoCall
    /\ \/ LatestVersions(i) = {} /\ Answer(c, "not_found", i)
       \/ \E current \in LatestVersions(i) :
              ~Attestable(current) /\ Answer(c, "already_attested", i)
    /\ UNCHANGED <<tables, lock, today, work, snap>>

BeginAttest(c, i) ==
    /\ pc[c] = "idle"
    /\ lock = NoCall
    /\ lock' = c
    /\ \E current \in LatestVersions(i) :
          /\ Attestable(current)
          /\ snap' = [snap EXCEPT ![c] =
                [NoSnap EXCEPT !.seq = Tail.seq, !.hash = Tail.hash,
                               !.current = HashOf(current)]]
    /\ pc' = [pc EXCEPT ![c] = "attesting"]
    /\ UNCHANGED <<tables, today, work, reply>>

\* The row the attestation copies, as read at the start of its transaction.
Current(c) == CHOOSE row \in audit : HashOf(row) = snap[c].current

\* attest(): every field copied, re-signed behind the tail.
Attested(row, tail) ==
    [id |-> row.id, version |-> row.version + 1, seq |-> tail.seq + 1,
     prev |-> tail.hash, supersedes |-> HashOf(row), ts |-> row.ts, conv |-> row.conv,
     user |-> row.user, day |-> row.day, outcome |-> row.outcome, caps |-> row.caps]

\* Variant: the new version is chained to the one it supersedes.
AttestedAfterOriginal(c) ==
    [Attested(Current(c), snap[c]) EXCEPT !.prev = snap[c].current]

AttestedRow(c) == Attested(Current(c), snap[c])

\* Variants: the new version is not made the latest; it replaces the old row.
InsertAttestedAsOld(c) ==
    /\ UniqueSeq(AttestedRow(c))
    /\ audit' = audit \cup {AttestedRow(c)}
    /\ latest' = latest \ {snap[c].current}
    /\ UNCHANGED <<capRow, dayCount>>

InsertAttestedInPlace(c) ==
    /\ UniqueSeq(AttestedRow(c))
    /\ audit' = (audit \ {Current(c)}) \cup {AttestedRow(c)}
    /\ latest' = (latest \ {snap[c].current}) \cup {HashOf(AttestedRow(c))}
    /\ UNCHANGED <<capRow, dayCount>>

\* The update and the insert: the old version stays, no longer the latest; the new one is.
InsertAttested(c) ==
    /\ UniqueSeq(AttestedRow(c))
    /\ audit' = audit \cup {AttestedRow(c)}
    /\ latest' = (latest \ {snap[c].current}) \cup {HashOf(AttestedRow(c))}
    /\ UNCHANGED <<capRow, dayCount>>

CommitAttest(c) ==
    /\ pc[c] = "attesting"
    /\ InsertAttested(c)
    /\ lock' = NoCall
    /\ Answer(c, "attested", snap[c].current.id)
    /\ snap' = [snap EXCEPT ![c] = NoSnap]
    /\ UNCHANGED <<today, work>>

\* A 500: rolled back, or committed without the acknowledgement arriving.
FailAttest(c) ==
    /\ pc[c] = "attesting"
    /\ UNCHANGED tables \/ InsertAttested(c)
    /\ lock' = Released(c)
    /\ Answer(c, "failed", snap[c].current.id)
    /\ snap' = [snap EXCEPT ![c] = NoSnap]
    /\ UNCHANGED <<today, work>>

-----------------------------------------------------------------------------
Tick ==
    /\ today < LastDay
    /\ today' = today + 1
    /\ UNCHANGED <<tables, lock, pc, work, snap, reply>>

Finished ==
    /\ \A c \in Calls : pc[c] \in {"done", "crashed"}
    /\ UNCHANGED vars

Evaluate(c) ==
    \/ \E conv \in Conversations, user \in SomeUser, override \in Overrides :
           ReadCaps(c, conv, user, override)
    \/ \E found \in {"rule", "serve", "no_fill"} : Decide(c, found)
    \/ BeginPersist(c) \/ Commit(c)
    \/ Fail(c) \/ CommitUnacknowledged(c)

AttestCall(c) ==
    \/ \E i \in Ids : RefuseAttest(c, i) \/ BeginAttest(c, i)
    \/ CommitAttest(c) \/ FailAttest(c)

Next == (\E c \in Calls : Evaluate(c) \/ AttestCall(c) \/ Crash(c)) \/ Tick \/ Finished

\* Timeouts bound classification, demand and every statement, so a call that
\* has begun moves on, and a transaction ends.
Progress(c) ==
    \/ \E found \in {"rule", "serve", "no_fill"} : Decide(c, found)
    \/ BeginPersist(c)
    \/ Commit(c) \/ CommitAttest(c)
    \/ pc[c] = "writing" /\ Fail(c)
    \/ FailAttest(c)

Spec == Init /\ [][Next]_vars
FairSpec == Spec /\ \A c \in Calls : WF_vars(Progress(c))

-----------------------------------------------------------------------------
(* Properties.                                                             *)

TypeOK ==
    /\ audit \subseteq Rows
    /\ latest \subseteq Hashes
    /\ capRow \in [Conversations -> CapRows]
    /\ dayCount \in [Users \X Days -> Nat]
    /\ lock \in Calls \cup {NoCall}
    /\ today \in Days
    /\ pc \in [Calls -> Phases]
    /\ work \in [Calls -> Works]
    /\ snap \in [Calls -> Snaps]
    /\ reply \in [Calls -> Replies]

\* The records of the app form one chain: positions 1, 2, 3, ... each taken
\* once, the first chained to genesis and every other to the record just
\* before it, whatever calls raced, failed or died while appending
\* (persist and attest, each under lockApp).
ChainLinked ==
    /\ \A r, s \in audit : r.seq = s.seq => r = s
    /\ \A r \in audit :
           IF r.seq = 1
           THEN r.prev = NoHash
           ELSE \E p \in audit : p.seq = r.seq - 1 /\ r.prev = HashOf(p)

\* The API always has one version of a recorded turn to serve: each id has
\* exactly one is_latest row, the newest of its versions, and an attestation
\* supersedes the version recorded first, after it in the chain.
OneLatestVersion ==
    \A r \in audit :
        /\ \E v \in audit : LatestVersions(r.id) = {v} /\ r.seq <= v.seq
        /\ r.supersedes # NoHash =>
               \E t \in Turns : /\ t.id = r.id /\ HashOf(t) = r.supersedes
                                /\ t.seq < r.seq /\ t.outcome = r.outcome

\* cap_state and user_day_caps summarise the recorded turns exactly: no call
\* that failed, retried or raced leaves a turn or an ad uncounted or counted
\* twice (applyCapUpdates inside the audit transaction).
CountersMatchRecords ==
    /\ \A conv \in Conversations :
        LET serves == ServesOf(Turns, conv)
        IN /\ capRow[conv].turn_count = Cardinality(TurnsOf(Turns, conv))
           /\ capRow[conv].session_count = Cardinality(serves)
           /\ IF serves = {}
              THEN capRow[conv].last_turn_index = NoIndex
              ELSE \E t \in serves :
                       /\ \A s \in serves : s.seq <= t.seq
                       /\ capRow[conv].last_turn_index = Cardinality(UpTo(Turns, t))
    /\ \A user \in Users, day \in Days :
           dayCount[<<user, day>>] = Cardinality(DayServes(Turns, user, day))

\* No ad is ever recorded that the caps in force for its turn did not allow,
\* counting every turn recorded before it: concurrent turns of one
\* conversation, or of one user, never both take the last slot
\* (the re-check in the persist build callback).
CapsHonoured == \A t \in Turns : Honoured(Turns, t)

\* A caller is told what the database holds: a reply that names a record has
\* that record with the same decision, and no reply but a serve reply stands
\* on a serve record (buildEvaluateResponse takes the persisted record).
ReplyMatchesRecord ==
    \A c \in Calls :
        /\ reply[c].recorded =>
               \E v \in audit : v.id = reply[c].id /\
                   IF reply[c].outcome = "attested"
                   THEN v.supersedes # NoHash
                   ELSE v.supersedes = NoHash /\ v.outcome = reply[c].outcome
        /\ reply[c].outcome = "serve" => reply[c].recorded

\* History is never rewritten: a step appends at most one row, at the end,
\* and takes is_latest only from the row the new one supersedes.
Appends ==
    /\ audit \subseteq audit'
    /\ \A r \in audit' \ audit : \A s \in audit' : s = r \/ s.seq < r.seq
    /\ \A h \in latest \ latest' : \E r \in audit' \ audit : r.supersedes = h
AppendOnly == [][Appends]_<<audit, latest>>

\* Locks, transactions and counters add up to the ledger the gateway
\* promises: turns enter one at a time at the end, each within its caps, and
\* each is attested at most once.
Ledger == INSTANCE AdLedger WITH turns <- Turns, attested <- AttestedIds
ImplementsLedger == Ledger!Spec

\* Every call that has begun is answered, unless its process dies.
Answered ==
    \A c \in Calls : pc[c] \in Running ~> pc[c] \in {"done", "crashed"}

=============================================================================
