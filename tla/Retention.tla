----------------------------- MODULE Retention -----------------------------
(***************************************************************************)
(* The retention job (packages/gateway/src/retention) deleting the oldest  *)
(* end of one app's audit chain while evaluations, attestations and events *)
(* go on.  The database runs READ COMMITTED and the job does not take the  *)
(* apps row, so each of its statements sees whatever has committed by then *)
(* and a transaction of the chain's writer may be open around any of them. *)
(* Writers exclude one another (AuditChain), so one transaction slot, tx,  *)
(* stands for all of them.  The job's statements from its DELETE to its    *)
(* COMMIT touch rows nobody else writes but an attestation's UPDATE, which *)
(* waits for them: they are one step.                                      *)
(*                                                                         *)
(* Days stand for timestamps: a record's ts is the day it was built on.    *)
(* Nothing but a record's building is open at midnight: a transaction, a   *)
(* run or an event around it is one that began just after, a turn then     *)
(* carrying yesterday's ts and a run the window of one more day.           *)
(***************************************************************************)
EXTENDS Integers, FiniteSets

CONSTANTS
    TurnIds,        \* the audit ids of the turns that will be evaluated
    EventIds,       \* the turns whose page reports an impression
    StoreRawText,   \* what the policy may say of store_raw_text
    Jobs,           \* retention runs: scheduled ones, and the CLI, which takes no lock
    RetainDays,     \* the windows an app's policy may name over time
    LastDay,        \* bound: the clock stops at this day
    MaxRuns         \* bound: runs each job makes

ASSUME RetentionAssumption ==
    /\ IsFiniteSet(TurnIds) /\ EventIds \subseteq TurnIds
    /\ StoreRawText \subseteq BOOLEAN
    /\ RetainDays \subseteq Nat \ {0} /\ RetainDays # {}
    /\ LastDay \in Nat /\ MaxRuns \in Nat

VARIABLES
    audit,      \* table audit_records
    latest,     \* the hashes of its is_latest rows
    rawText,    \* table raw_text: audit ids
    events,     \* table events: audit ids with an impression
    pending,    \* audit ids whose event passed ownerOf and is not inserted yet
    watermark,  \* table retention_state: the app's row, or NoWatermark
    tx,         \* the open transaction of the chain's writer, or NoTx
    job,        \* what each retention run has read
    used,       \* the audit ids drawn so far; an id is never drawn twice
    today

texts == <<rawText, events, pending>>
vars == <<audit, latest, texts, watermark, tx, job, used, today>>

-----------------------------------------------------------------------------
Days == 0..LastDay
Versions == {1, 2}                  \* as recorded, attested
Hash(i, version) == [id |-> i, version |-> version]
Genesis == [id |-> "genesis", version |-> 0]
HashOf(row) == Hash(row.id, row.version)

NoTx == [kind |-> "none"]
NoWatermark == [through |-> 0, before |-> -1]
IdleJob(runs) == [phase |-> "idle", cutoff |-> -1, through |-> 0, runs |-> runs]

Init ==
    /\ audit = {} /\ latest = {} /\ rawText = {} /\ events = {} /\ pending = {}
    /\ watermark = NoWatermark
    /\ tx = NoTx
    /\ job = [j \in Jobs |-> IdleJob(0)]
    /\ used = {}
    /\ today = 0

Seqs == {row.seq : row \in audit}
Highest(S) == IF S = {} THEN 0 ELSE CHOOSE n \in S : \A m \in S : m <= n
Lowest(S) == CHOOSE n \in S : \A m \in S : n <= m
RowAt(seq) == CHOOSE row \in audit : row.seq = seq
LogTail == IF audit = {} THEN [seq |-> 0, hash |-> Genesis]
                         ELSE [seq |-> Highest(Seqs), hash |-> HashOf(RowAt(Highest(Seqs)))]

-----------------------------------------------------------------------------
(* The chain's writers: persist and attest.                                *)

\* lockApp, readLatestAudit; the record's ts was taken before the lock.
BeginTurn(i, ts) ==
    /\ tx = NoTx
    /\ i \notin used
    /\ used' = used \cup {i}
    /\ tx' = [kind |-> "turn", tail |-> LogTail,
              row |-> [id |-> i, version |-> 1, ts |-> ts, supersedes |-> Genesis]]
    /\ UNCHANGED <<audit, latest, texts, watermark, job, today>>

Attestable(row) == row.supersedes = Genesis

\* The same with readLatestVersion and its check.
BeginAttest(row) ==
    /\ tx = NoTx
    /\ row \in audit /\ HashOf(row) \in latest /\ Attestable(row)
    /\ tx' = [kind |-> "attest", tail |-> LogTail,
              row |-> [id |-> row.id, version |-> row.version + 1, ts |-> row.ts,
                       supersedes |-> HashOf(row)]]
    /\ UNCHANGED <<audit, latest, texts, watermark, job, used, today>>

\* The tail's row is chained to even if the job has deleted it since; so is
\* the superseded one, whose UPDATE then finds no row.
Appended(t) ==
    [id |-> t.row.id, version |-> t.row.version, ts |-> t.row.ts,
     supersedes |-> t.row.supersedes, seq |-> t.tail.seq + 1, prev |-> t.tail.hash]

\* Variant: the old version stays marked as well.
BothLatest(t) == latest \cup {HashOf(t.row)}
\* is_latest moves to the new version.
NowLatest(t) == (latest \ {t.row.supersedes}) \cup {HashOf(t.row)}

\* Conversation text is stored with the turn when the policy says so.
CommitAppend(keepText) ==
    /\ tx # NoTx
    /\ audit' = audit \cup {Appended(tx)}
    /\ latest' = NowLatest(tx)
    /\ rawText' = IF keepText /\ tx.kind = "turn" THEN rawText \cup {tx.row.id} ELSE rawText
    /\ tx' = NoTx
    /\ UNCHANGED <<events, pending, watermark, job, used, today>>

Rollback ==
    /\ tx # NoTx
    /\ tx' = NoTx
    /\ UNCHANGED <<audit, latest, texts, watermark, job, used, today>>

-----------------------------------------------------------------------------
(* POST /v1/events: two statements, no transaction.                        *)

OwnerOf(i) ==
    /\ \E row \in audit : row.id = i /\ HashOf(row) \in latest
    /\ i \notin pending
    /\ pending' = pending \cup {i}
    /\ UNCHANGED <<audit, latest, rawText, events, watermark, tx, job, used, today>>

\* A second impression of an id is ignored.
InsertEvent(i) ==
    /\ i \in pending
    /\ pending' = pending \ {i}
    /\ events' = events \cup {i}
    /\ UNCHANGED <<audit, latest, rawText, watermark, tx, job, used, today>>

-----------------------------------------------------------------------------
(* The retention job.                                                      *)

Kept(cutoff) == {row.seq : row \in {r \in audit : r.ts >= cutoff}}

\* prunableThroughSeq, first statement: the first row the cutoff keeps.
FindKept(j, retain) ==
    LET cutoff == today - retain
    IN /\ job[j].phase = "idle" /\ job[j].runs < MaxRuns
       /\ job' = [job EXCEPT ![j] =
             [phase |-> IF Kept(cutoff) = {} THEN "unbounded" ELSE "bounded",
              cutoff |-> cutoff,
              through |-> IF Kept(cutoff) = {} THEN 0 ELSE Lowest(Kept(cutoff)) - 1,
              runs |-> @.runs + 1]]
       /\ UNCHANGED <<audit, latest, texts, watermark, tx, used, today>>

\* Second statement, when no row was kept: the last row.
FindLast(j) ==
    /\ job[j].phase = "unbounded"
    /\ job' = [job EXCEPT ![j].phase = "bounded", ![j].through = Highest(Seqs)]
    /\ UNCHANGED <<audit, latest, texts, watermark, tx, used, today>>

Prefix(n) == {row \in audit : row.seq <= n}

\* Variant: what is still recorded is looked up before the deletion.
LookedUpFirst(n) == {row.id : row \in Prefix(n)} \ {row.id : row \in audit}

\* Variant: every id that loses a row.
Touched(n) == {row.id : row \in Prefix(n)}

\* The ids that lose their last row.
Orphans(n) == {row.id : row \in Prefix(n)} \ {row.id : row \in audit \ Prefix(n)}

Larger(a, b) == IF b > a THEN b ELSE a
\* Variants: the first watermark stays; the last one overwrites it.
FirstStays(n, cutoff) ==
    IF watermark = NoWatermark THEN [through |-> n, before |-> cutoff] ELSE watermark
Overwritten(n, cutoff) == [through |-> n, before |-> cutoff]

\* writeRetentionState: both columns only move forward.
Advanced(n, cutoff) ==
    [through |-> Larger(watermark.through, n), before |-> Larger(watermark.before, cutoff)]

\* DELETE, orphans, their events and text, watermark, COMMIT.  Writing the
\* first watermark checks its foreign key to the apps row, so it waits for a
\* transaction that holds that row.
Prune(j) ==
    LET n == job[j].through
    IN /\ job[j].phase = "bounded"
       /\ Prefix(n) # {}
       /\ watermark = NoWatermark => tx = NoTx
       /\ audit' = audit \ Prefix(n)
       /\ latest' = latest \ {HashOf(row) : row \in Prefix(n)}
       /\ events' = events \ Orphans(n)
       /\ rawText' = rawText \ Orphans(n)
       /\ watermark' = Advanced(n, job[j].cutoff)
       /\ job' = [job EXCEPT ![j] = IdleJob(@.runs)]
       /\ UNCHANGED <<pending, tx, used, today>>

\* Nothing to delete, a dry run, or a failed run: nothing stays.
LeaveAlone(j) ==
    /\ job[j].phase # "idle"
    /\ job' = [job EXCEPT ![j] = IdleJob(@.runs)]
    /\ UNCHANGED <<audit, latest, texts, watermark, tx, used, today>>

Quiet == tx = NoTx /\ pending = {} /\ \A j \in Jobs : job[j].phase = "idle"

Tick ==
    /\ Quiet
    /\ today < LastDay
    /\ today' = today + 1
    /\ UNCHANGED <<audit, latest, texts, watermark, tx, job, used>>

Finished == Quiet /\ UNCHANGED vars

Writer ==
    \/ \E i \in TurnIds, ts \in Days : ts \in {today - 1, today} /\ BeginTurn(i, ts)
    \/ \E row \in audit : BeginAttest(row)
    \/ \E keepText \in StoreRawText : CommitAppend(keepText)
    \/ Rollback

Event == \E i \in EventIds : OwnerOf(i) \/ InsertEvent(i)

Job == \E j \in Jobs :
    \/ \E retain \in RetainDays : FindKept(j, retain)
    \/ FindLast(j) \/ Prune(j) \/ LeaveAlone(j)

Next == Writer \/ Event \/ Job \/ Tick \/ Finished
Spec == Init /\ [][Next]_vars

-----------------------------------------------------------------------------
(* Properties.                                                             *)

Rows == [id: TurnIds, version: Versions, ts: Days, seq: Nat \ {0},
         supersedes: {Genesis} \cup [id: TurnIds, version: Versions],
         prev: {Genesis} \cup [id: TurnIds, version: Versions]]

TypeOK ==
    /\ audit \subseteq Rows
    /\ latest \subseteq [id: TurnIds, version: Versions]
    /\ rawText \subseteq TurnIds /\ events \subseteq TurnIds /\ pending \subseteq TurnIds
    /\ watermark.through \in Nat /\ watermark.before \in Int
    /\ \A j \in Jobs : /\ job[j].phase \in {"idle", "unbounded", "bounded"}
                       /\ job[j].through \in Nat /\ job[j].runs \in 0..MaxRuns
    /\ used \subseteq TurnIds /\ today \in Days

\* What the job leaves is one unbroken stretch of the chain: positions are
\* taken once, every record is chained to the one before it, and the only
\* record whose predecessor is gone is the oldest, just above positions the
\* watermark says were pruned (queries.ts: "Deleting a PREFIX").
SurvivorsLinked ==
    /\ \A r, s \in audit : r.seq = s.seq => r = s
    /\ \A r \in audit :
           \/ r.seq = 1 /\ r.prev = Genesis
           \/ \E p \in audit : p.seq = r.seq - 1 /\ r.prev = HashOf(p)
           \/ r.seq = Lowest(Seqs) /\ r.seq - 1 <= watermark.through

\* Conversation text never outlives the turn it belongs to: raw_text goes in
\* the transaction that deletes the last record of its audit id.
NoTextWithoutRecord == rawText \subseteq {row.id : row \in audit}

\* An audit id that still has a record has exactly one that is served,
\* whatever version of it the job deleted.
ServedVersion ==
    /\ \A row \in audit : \E v \in audit :
           {w \in audit : w.id = row.id /\ HashOf(w) \in latest} = {v}
    /\ latest \subseteq {HashOf(row) : row \in audit}

\* Records disappear only under the watermark, which is committed with the
\* deletion and never moves back, even when a run applies a longer window
\* than an earlier one or two runs overlap.
WatermarkCoversDeletions ==
    [][/\ \A row \in audit \ audit' : row.seq <= watermark'.through
       /\ watermark.through <= watermark'.through
       /\ watermark.before <= watermark'.before]_<<audit, watermark>>

\* queries.ts: "The first row that must be kept pins everything under it,
\* which over-retains a little and can never over-delete".
NeverOverDeletes ==
    [][\A row \in audit \ audit' : row.ts < watermark'.before]_<<audit, watermark>>

\* Events stay as long as their id has a record and leave with the last one:
\* a run takes no impression of a turn that is still recorded or attested
\* and leaves none of those it found behind (orphanAuditIds; docs/privacy.md:
\* "Kept with its audit record").
RecordedIds(A) == {row.id : row \in A}
EventsLeaveWithRecord ==
    [][\A i \in events \cap RecordedIds(audit) :
           i \in events' <=> i \in RecordedIds(audit')]_vars
=============================================================================
