---------------------------- MODULE ChainVerify ----------------------------
(***************************************************************************)
(* GET /v1/verify/:id (packages/gateway/src/audit-api) over a chain that   *)
(* evaluations, attestations and the retention job are changing.  The      *)
(* route finds the version asked for, then buildVerifyContext reads the    *)
(* rows around it, one statement at a time and outside any transaction,    *)
(* and core's verify judges what was read.  Modelled are the two checks    *)
(* that look at other rows, chain and supersedes; the others judge the     *)
(* record alone or against the creative catalogue.                         *)
(*                                                                         *)
(* A row may also be deleted by somebody who is not the job: the deletion  *)
(* verification exists to expose.                                          *)
(***************************************************************************)
EXTENDS Retention

VARIABLES
    reader,     \* one verification: what it has read so far
    tampered    \* the rows somebody else deleted

allVars == <<vars, reader, tampered>>

Unread == [kind |-> "unread"]
Missing == [kind |-> "missing"]                 \* null
Found(row) == [kind |-> "found", row |-> row]
PrunedMarker(cutoff) == [kind |-> "pruned", cutoff |-> cutoff]

NoReader == [phase |-> "idle"]

VerifyInit == Init /\ reader = NoReader /\ tampered = {}

-----------------------------------------------------------------------------
(* core's checks.                                                          *)

\* checkChain: the record's prev_hash against its positional predecessor.
ChainDetail(row, previous) ==
    CASE row.prev = Genesis ->
            IF previous = Missing THEN "genesis" ELSE "genesis_with_previous"
      [] row.prev # Genesis /\ previous.kind = "pruned" ->
            IF row.ts >= previous.cutoff THEN "pruned" ELSE "pruned_before_cutoff"
      [] row.prev # Genesis /\ previous.kind = "missing" -> "previous_missing"
      [] OTHER ->
            IF HashOf(previous.row) = row.prev THEN "linked" ELSE "previous_mismatch"

ChainOk(row, previous) == ChainDetail(row, previous) \in {"genesis", "pruned", "linked"}

\* checkSupersedes: the attested record must still be there and verify too.
SupersedesDetail(row, superseded, itsPrevious) ==
    CASE row.supersedes = Genesis -> "not_applicable"
      [] row.supersedes # Genesis /\ superseded = Missing -> "superseded_missing"
      [] OTHER ->
            IF /\ superseded.row.id = row.id /\ superseded.row.supersedes = Genesis
               /\ ChainOk(superseded.row, itsPrevious)
            THEN "superseded_verified" ELSE "superseded_invalid"

-----------------------------------------------------------------------------
(* The reads.                                                              *)

Locate(row) ==
    /\ reader = NoReader
    /\ row \in audit
    /\ reader' = [phase |-> "previous", row |-> row, previous |-> Unread,
                  superseded |-> Unread, itsPrevious |-> Unread]
    /\ UNCHANGED <<vars, tampered>>

\* findBySeq at seq - 1; position 0 is never looked up.
FindBySeq(seq) ==
    IF seq \in Seqs THEN Found(RowAt(seq)) ELSE Missing

\* Variant: any missing row is explained once the job has pruned anything.
PrunedIfEverPruned(seq) ==
    IF watermark = NoWatermark THEN Missing ELSE PrunedMarker(watermark.before)

\* Variant: off by one.
PrunedBelow(seq) ==
    IF watermark = NoWatermark \/ seq >= watermark.through
    THEN Missing ELSE PrunedMarker(watermark.before)

\* retentionWatermark, read only after the row was not found.
PrunedOrMissing(seq) ==
    IF watermark = NoWatermark \/ seq > watermark.through
    THEN Missing ELSE PrunedMarker(watermark.before)

\* The predecessor of the record, then of the one it supersedes.
ReadPrevious ==
    LET found == FindBySeq(reader.row.seq - 1)
    IN /\ reader.phase = "previous"
       /\ reader' = [reader EXCEPT
             !.previous = found,
             !.phase = IF found = Missing /\ reader.row.seq > 1
                       THEN "watermark" ELSE "superseded"]
       /\ UNCHANGED <<vars, tampered>>

ReadWatermark ==
    /\ reader.phase = "watermark"
    /\ reader' = [reader EXCEPT !.previous = PrunedOrMissing(reader.row.seq - 1),
                                !.phase = "superseded"]
    /\ UNCHANGED <<vars, tampered>>

FindByHash(h) ==
    IF \E row \in audit : HashOf(row) = h
    THEN Found(CHOOSE row \in audit : HashOf(row) = h) ELSE Missing

ReadSuperseded ==
    LET found == IF reader.row.supersedes = Genesis THEN Unread
                 ELSE FindByHash(reader.row.supersedes)
    IN /\ reader.phase = "superseded"
       /\ reader' = [reader EXCEPT
             !.superseded = found,
             !.phase = IF found.kind = "found" THEN "its previous" ELSE "done"]
       /\ UNCHANGED <<vars, tampered>>

ReadItsPrevious ==
    LET seq == reader.superseded.row.seq
        found == FindBySeq(seq - 1)
    IN /\ reader.phase = "its previous"
       /\ reader' = [reader EXCEPT
             !.itsPrevious = found,
             !.phase = IF found = Missing /\ seq > 1 THEN "its watermark" ELSE "done"]
       /\ UNCHANGED <<vars, tampered>>

ReadItsWatermark ==
    /\ reader.phase = "its watermark"
    /\ reader' = [reader EXCEPT
          !.itsPrevious = PrunedOrMissing(reader.superseded.row.seq - 1),
          !.phase = "done"]
    /\ UNCHANGED <<vars, tampered>>

Verify ==
    \/ \E row \in audit : Locate(row)
    \/ ReadPrevious \/ ReadWatermark \/ ReadSuperseded
    \/ ReadItsPrevious \/ ReadItsWatermark

\* One row is deleted behind the gateway's back, while no run is under way.
Tamper ==
    /\ tampered = {}
    /\ \A j \in Jobs : job[j].phase = "idle"
    /\ \E row \in audit :
          /\ audit' = audit \ {row}
          /\ latest' = latest \ {HashOf(row)}
          /\ tampered' = {row}
    /\ UNCHANGED <<texts, watermark, tx, job, used, today, reader>>

\* A verification does not span a day.
System ==
    /\ Next
    /\ today' # today => reader.phase \in {"idle", "done"}
    /\ UNCHANGED <<reader, tampered>>

VerifySpec == VerifyInit /\ [][System \/ Verify]_allVars
TamperedSpec == VerifyInit /\ [][System \/ Verify \/ Tamper]_allVars

-----------------------------------------------------------------------------
(* Properties.                                                             *)

Done == reader.phase = "done"
Chain == ChainDetail(reader.row, reader.previous)
Supersedes == SupersedesDetail(reader.row, reader.superseded, reader.itsPrevious)

\* The job never makes the log look tampered with: whatever it deletes
\* between two reads of a verification, a record that is still there is not
\* said to miss its predecessor, to mismatch it, or to be a genesis record
\* in mid-chain (predecessorOf reads the row before the watermark); nor is a
\* version that is still there said to be invalid by the attestation that
\* supersedes it.
PruningIsExplained ==
    tampered = {} /\ Done =>
        /\ reader.row \in audit => Chain \in {"genesis", "linked", "pruned", "pruned_before_cutoff"}
        /\ Supersedes = "superseded_invalid" => reader.superseded.row \notin audit

\* A row somebody deleted above everything the job has pruned is missed: its
\* successor, read without it, does not verify.
TamperingDetected ==
    Done =>
        \A gone \in tampered :
            /\ reader.row.prev = HashOf(gone) /\ reader.previous.kind # "found"
            /\ gone.seq > watermark.through
            => ~ChainOk(reader.row, reader.previous)
=============================================================================
