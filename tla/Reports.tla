------------------------------ MODULE Reports ------------------------------
(***************************************************************************)
(* Verification reports and their bundles (packages/dashboard/lib):        *)
(* collectReportData reads one advertiser's records, the rows their checks *)
(* look at and the retention watermark, statement by statement through a   *)
(* reader that remembers every answer, while evaluations, attestations and *)
(* the retention job go on.  The document states what core's verify says   *)
(* of what was read; the bundle carries the same rows, from which the      *)
(* offline script rebuilds the context of each record.                     *)
(*                                                                         *)
(* One collection is followed to its end: generateReport makes one before  *)
(* its INSERT, loadReportBundle one for each download.  The four workers   *)
(* that verify records interleave as they like.  As in ChainVerify, the    *)
(* checks are those that look at other rows.                               *)
(***************************************************************************)
EXTENDS ChainVerify

CONSTANTS
    Ours,       \* the turns that served the advertiser's creatives
    Period,     \* the days the report covers
    RowLimit    \* MAX_REPORT_RECORDS

ASSUME ReportAssumption ==
    /\ Ours \subseteq TurnIds /\ Period \subseteq Days /\ RowLimit \in Nat \ {0}

VARIABLE
    collection  \* [rows, bySeq, byHash, mark]: what has been read

reportVars == <<allVars, collection>>

Nothing == [kind |-> "nothing"]

ReportInit ==
    /\ VerifyInit
    /\ collection = [rows |-> Nothing,
                     bySeq |-> [n \in {} |-> Unread],
                     byHash |-> [i \in TurnIds |-> Unread],
                     mark |-> Unread]

-----------------------------------------------------------------------------
(* The query for the records.  What is counted beside it is left out.      *)

InRange == {row \in audit : row.id \in Ours /\ HashOf(row) \in latest /\ row.ts \in Period}

\* Oldest first; hashes decide among records of one instant, in no order.
OldestOf(rows) ==
    {kept \in SUBSET rows :
        /\ Cardinality(kept) = IF Cardinality(rows) < RowLimit THEN Cardinality(rows) ELSE RowLimit
        /\ \A k \in kept, other \in rows \ kept : k.ts <= other.ts}

ReportRecords ==
    /\ collection.rows = Nothing
    /\ \E kept \in OldestOf(InRange) :
           collection' = [collection EXCEPT !.rows = [kind |-> "rows", set |-> kept]]
    /\ UNCHANGED allVars

Queried == collection.rows # Nothing
Reported == collection.rows.set

-----------------------------------------------------------------------------
(* The reader: each lookup is made once.                                   *)

\* Positions some check asks for: before a record, or before what it supersedes.
Superseded == {i \in TurnIds : collection.byHash[i].kind = "found"}
Wanted ==
    ({row.seq - 1 : row \in Reported}
        \cup {collection.byHash[i].row.seq - 1 : i \in Superseded}) \ {0}

Answers == DOMAIN collection.bySeq
Absent == {n \in Answers : collection.bySeq[n] = Missing}

ReadSeq(n) ==
    /\ Queried /\ n \in Wanted \ Answers
    /\ collection' = [collection EXCEPT !.bySeq =
          [m \in Answers \cup {n} |-> IF m = n THEN FindBySeq(n) ELSE @[m]]]
    /\ UNCHANGED allVars

\* The version a record supersedes is looked up after its predecessor.
AskedFor(i) ==
    \E row \in Reported :
        /\ row.supersedes = Hash(i, 1)
        /\ row.seq > 1 => row.seq - 1 \in Answers

ReadHash(i) ==
    /\ Queried /\ collection.byHash[i] = Unread /\ AskedFor(i)
    /\ collection' = [collection EXCEPT !.byHash[i] = FindByHash(Hash(i, 1))]
    /\ UNCHANGED allVars

\* The watermark is read for the first predecessor that is not there, and
\* stands for all that follow.
ReadMark ==
    /\ Queried /\ collection.mark = Unread
    /\ Absent # {}
    /\ collection' = [collection EXCEPT !.mark = [kind |-> "mark", row |-> watermark]]
    /\ UNCHANGED allVars

Collected ==
    /\ Queried
    /\ Wanted \subseteq Answers
    /\ \A row \in Reported : row.supersedes # Genesis => collection.byHash[row.id] # Unread
    /\ Absent # {} => collection.mark # Unread

Collect ==
    \/ ReportRecords \/ ReadMark
    \/ Queried /\ \E n \in Wanted : ReadSeq(n)
    \/ \E i \in TurnIds : ReadHash(i)

\* Nothing is followed after the collection.
ReportNext ==
    \/ ~Collected /\ System /\ UNCHANGED collection
    \/ ~Collected /\ Collect
    \/ Collected /\ UNCHANGED reportVars

ReportSpec == ReportInit /\ [][ReportNext]_reportVars

-----------------------------------------------------------------------------
(* What the document states: verify with the gateway's context.            *)

\* Variant: the watermark excuses what lies above it by one.
ExplainedBelow(n) ==
    LET mark == collection.mark.row IN
    IF mark = NoWatermark \/ n >= mark.through THEN Missing ELSE PrunedMarker(mark.before)

\* predecessorOf, on the remembered rows.
Explained(n) ==
    LET mark == collection.mark.row IN
    IF mark = NoWatermark \/ n > mark.through THEN Missing ELSE PrunedMarker(mark.before)

Predecessor(n) ==
    IF n = 0 THEN Missing
    ELSE IF collection.bySeq[n] # Missing THEN collection.bySeq[n] ELSE Explained(n)

SupersedesOk(row, superseded, itsPrevious) ==
    SupersedesDetail(row, superseded, itsPrevious) \in {"not_applicable", "superseded_verified"}

Verified(row) ==
    LET superseded == collection.byHash[row.id] IN
    /\ ChainOk(row, Predecessor(row.seq - 1))
    /\ SupersedesOk(row, superseded,
           IF superseded.kind = "found" THEN Predecessor(superseded.row.seq - 1) ELSE Missing)

-----------------------------------------------------------------------------
(* What the bundle carries, and what the offline script makes of it.       *)

\* supportingOf: each row with the role it was read in.
Supporting ==
    {[row |-> collection.bySeq[n].row, role |-> "predecessor"] :
        n \in {m \in Wanted : collection.bySeq[m].kind = "found"}}
    \cup {[row |-> collection.byHash[i].row, role |-> "superseded"] : i \in Superseded}

\* Variant: whatever is a predecessor is reduced to a reference.
ReducedIfPredecessor(row) ==
    row \in Reported \/ ~\E s \in Supporting : s.row = row /\ s.role = "predecessor"

\* supportingEntries: a row that is only a predecessor is a chain reference,
\* the hash without the document.
KeepsDocument(row) ==
    row \in Reported \/ \E s \in Supporting : s.row = row /\ s.role = "superseded"

Bundled == Reported \cup {s.row : s \in Supporting}

\* predecessorOf: the entry at the position, a supporting one first; null when
\* the bundle has none, for whatever reason.
InBundleAt(n) ==
    LET supporting == {s.row : s \in {t \in Supporting : t.row.seq = n}}
        reported == {row \in Reported : row.seq = n}
    IN IF supporting # {} THEN Found(CHOOSE row \in supporting : TRUE)
       ELSE IF reported # {} THEN Found(CHOOSE row \in reported : TRUE)
       ELSE Missing

\* A reference is no document: what supersedes it cannot be verified.
VerifiesOffline(row) ==
    LET superseded == {s \in Bundled : HashOf(s) = row.supersedes} IN
    /\ ChainOk(row, InBundleAt(row.seq - 1))
    /\ \/ row.supersedes = Genesis
       \/ \E s \in superseded :
              KeepsDocument(s) /\ SupersedesOk(row, Found(s), InBundleAt(s.seq - 1))

-----------------------------------------------------------------------------
(* Properties.                                                             *)

\* Records whose checks lean on the watermark.
Pruned(row) ==
    \/ Predecessor(row.seq - 1).kind = "pruned"
    \/ /\ collection.byHash[row.id].kind = "found"
       /\ Predecessor(collection.byHash[row.id].row.seq - 1).kind = "pruned"

\* report-bundle.ts:13: "the bundle carries everything docs/audit.md's eight
\* checks need".
BundleReverifies ==
    Collected => \A row \in Reported : Verified(row) => VerifiesOffline(row)

\* The same of every record whose neighbours had not been pruned, whatever
\* changes between two reads: what the report calls verified, the bundle
\* proves, though most of its rows are bare references.
UnprunedReverifies ==
    Collected => \A row \in Reported : Verified(row) /\ ~Pruned(row) => VerifiesOffline(row)

\* A report never blames the log for what the retention policy did: only a
\* watermark that moved after it was remembered can make a record that is
\* still there miss its predecessor.
ReportsBlameNoPruning ==
    Collected /\ collection.mark \in {Unread, [kind |-> "mark", row |-> watermark]} =>
        \A row \in Reported \cap audit :
            ChainDetail(row, Predecessor(row.seq - 1)) \in
                {"genesis", "linked", "pruned", "pruned_before_cutoff"}
=============================================================================
