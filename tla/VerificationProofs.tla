------------------------- MODULE VerificationProofs -------------------------
(***************************************************************************)
(* What verification and reports say of a log that is appended to, attested*)
(* and pruned between any two of their reads, for any number of turns,     *)
(* runs and windows.                                                       *)
(***************************************************************************)
EXTENDS Reports, RetentionProofs

-----------------------------------------------------------------------------
(* What holds of every row ever seen, deleted or not.                      *)

\* A hash that was computed before: no open transaction computes it again.
Drawn(h) ==
    /\ h.version \in Nat
    /\ h.version # 0 => h.id \in used
    /\ \A g \in latest : g.id = h.id => h.version <= g.version
    /\ tx # NoTx /\ tx.row.id = h.id => h.version < tx.row.version

\* Recorded, or attested once.
VersionOk(row) ==
    \/ row.version = 1 /\ row.supersedes = Genesis
    \/ row.version = 2 /\ row.supersedes = Hash(row.id, 1)

\* A link to what stands at position seq.
LinkTo(seq, hash) ==
    /\ seq \in Nat /\ Drawn(hash)
    /\ IF seq = 0 THEN hash = Genesis ELSE hash.version # 0

RowOk(row) ==
    /\ row.seq \in Nat \ {0} /\ Drawn(HashOf(row))
    /\ VersionOk(row) /\ LinkTo(row.seq - 1, row.prev)

\* Rows are told apart by their hashes, and follow what they are chained to.
History(rows) ==
    /\ \A r \in rows : RowOk(r)
    /\ \A r, s \in rows : HashOf(r) = HashOf(s) => r = s
    /\ \A r, s \in rows : s.prev = HashOf(r) => s.seq = r.seq + 1
    /\ tx # NoTx => \A r \in rows : tx.tail.hash = HashOf(r) => tx.tail.seq = r.seq

WriterInv ==
    /\ \A g \in latest : g.version \in Nat \ {0} /\ g.id \in used
    /\ \A g, h \in latest : g.id = h.id => g = h
    /\ tx # NoTx =>
           /\ LinkTo(tx.tail.seq, tx.tail.hash)
           /\ VersionOk(tx.row)
           /\ \A g \in latest : g.id = tx.row.id => g = tx.row.supersedes

Bounded == \E n \in Nat : \A r \in audit : r.seq <= n

\* Kept whoever deletes what.
LogInv == Types /\ Bounded /\ WriterInv

-----------------------------------------------------------------------------
(* What holds of dates while only the job deletes: a record as it was      *)
(* recorded that is older than the watermark's date stands above one that  *)
(* is not.                                                                 *)

Pinned ==
    \A r \in audit :
        r.supersedes = Genesis /\ r.ts < watermark.before =>
            \E q \in audit : q.seq < r.seq /\ q.ts >= watermark.before

\* What a run that has its bounds relies on: the first row it keeps still
\* stands; or nothing is left to delete; or all above was built since.
RunHolds(n, cutoff) ==
    \/ /\ \E k \in audit : k.seq = n + 1 /\ k.ts >= cutoff
       /\ \A r \in audit : r.seq <= n => r.ts < cutoff
    \/ Prefix(n) = {}
    \/ \A r \in audit : r.supersedes = Genesis /\ r.seq > n => r.ts >= today - 1

Timely ==
    /\ \A r \in audit : r.ts \in Int
    /\ watermark.before <= today - 1
    /\ tx # NoTx => /\ tx.row.ts \in Int
                    /\ tx.row.supersedes = Genesis => tx.row.ts >= today - 1
    /\ \A j \in Jobs :
           /\ job[j].phase # "idle" => job[j].cutoff <= today - 1
           /\ job[j].phase = "bounded" => RunHolds(job[j].through, job[j].cutoff)

DatesInv == Timely /\ Pinned

-----------------------------------------------------------------------------
(* The verification.                                                       *)

ReadRows ==
    IF reader = NoReader THEN {}
    ELSE {reader.row} \cup (IF reader.superseded.kind = "found"
                            THEN {reader.superseded.row} ELSE {})

Seen == audit \cup tampered \cup ReadRows

ReaderPhases == {"previous", "watermark", "superseded", "its previous", "its watermark", "done"}

\* What may be answered about the predecessor of a row.
Answered(row, answer) ==
    /\ answer.kind \in {"missing", "found", "pruned"}
    /\ answer.kind = "missing" => answer = Missing
    /\ answer.kind = "pruned" => row.seq - 1 <= watermark.through

ReaderInv ==
    reader # NoReader =>
        /\ reader = [phase |-> reader.phase, row |-> reader.row, previous |-> reader.previous,
                     superseded |-> reader.superseded, itsPrevious |-> reader.itsPrevious]
        /\ reader.phase \in ReaderPhases
        /\ reader.phase # "previous" => Answered(reader.row, reader.previous)
        /\ reader.superseded.kind = "found" =>
               /\ reader.row.supersedes # Genesis
               /\ HashOf(reader.superseded.row) = reader.row.supersedes
        /\ reader.phase \in {"its previous", "its watermark"} => reader.superseded.kind = "found"
        /\ reader.phase = "done" =>
               \/ reader.row.supersedes = Genesis
               \/ reader.superseded = Missing
               \/ /\ reader.superseded.kind = "found"
                  /\ Answered(reader.superseded.row, reader.itsPrevious)

\* A row whose predecessor the job deleted before it was looked for.
Oldest(row) ==
    row \in audit => row.seq > 1 /\ IsFirst(row) /\ row.seq - 1 <= watermark.through

\* The answer explains a row that is still there.
Accounted(row, answer) ==
    row \in audit =>
        IF row.seq = 1 THEN answer = Missing
        ELSE \/ answer.kind = "found" /\ HashOf(answer.row) = row.prev
             \/ answer.kind = "pruned"

ExplainedInv ==
    reader # NoReader =>
        /\ reader.phase = "watermark" => Oldest(reader.row)
        /\ reader.phase \notin {"previous", "watermark"} => Accounted(reader.row, reader.previous)
        /\ reader.phase = "its watermark" => Oldest(reader.superseded.row)
        /\ reader.phase = "done" /\ reader.superseded.kind = "found" =>
               /\ Accounted(reader.superseded.row, reader.itsPrevious)
               /\ reader.superseded.row \in audit /\ reader.itsPrevious.kind = "pruned" =>
                      reader.superseded.row.ts >= reader.itsPrevious.cutoff

VerifyInv ==
    /\ LogInv /\ History(Seen) /\ ReaderInv
    /\ tampered = {} => IInv /\ DatesInv /\ ExplainedInv

-----------------------------------------------------------------------------
(* The report.                                                             *)

Held ==
    IF collection.rows = Nothing THEN {}
    ELSE Reported
         \cup {collection.bySeq[n].row : n \in {m \in Answers : collection.bySeq[m].kind = "found"}}
         \cup {collection.byHash[i].row : i \in Superseded}

Pool == audit \cup Held

CollectionInv ==
    /\ collection = [rows |-> collection.rows, bySeq |-> collection.bySeq,
                     byHash |-> collection.byHash, mark |-> collection.mark]
    /\ collection.bySeq = [n \in Answers |-> collection.bySeq[n]]
    /\ collection.byHash = [i \in TurnIds |-> collection.byHash[i]]
    /\ ~Queried => Answers = {} /\ Superseded = {}
    /\ \A n \in Answers : \/ collection.bySeq[n] = Missing
                          \/ /\ collection.bySeq[n] = Found(collection.bySeq[n].row)
                             /\ collection.bySeq[n].row.seq = n
    /\ \A i \in TurnIds : \/ collection.byHash[i] \in {Unread, Missing}
                          \/ /\ collection.byHash[i] = Found(collection.byHash[i].row)
                             /\ HashOf(collection.byHash[i].row) = Hash(i, 1)
                             /\ \E row \in Reported : row.supersedes = Hash(i, 1)

\* The predecessor that was remembered of a reported row.
PredecessorsInv ==
    Queried =>
        \A row \in Reported :
            row \in audit /\ row.seq # 1 /\ row.seq - 1 \in Answers =>
                LET answer == collection.bySeq[row.seq - 1] IN
                IF answer = Missing THEN Oldest(row) ELSE HashOf(answer.row) = row.prev

\* Whose hash is in a reported row, or in a version that one supersedes.
Named(rows) ==
    {a \in rows :
        \E row \in Reported :
            \/ HashOf(a) \in {row.prev, row.supersedes}
            \/ \E old \in rows : HashOf(old) = row.supersedes /\ HashOf(a) = old.prev}

\* The rows a report may rely on stood together when it was queried.
NamedInv == Queried => \A a, b \in Named(Pool) : a.seq = b.seq => a = b

ReportInv ==
    /\ IInv /\ LogInv /\ History(Pool)
    /\ used \subseteq TurnIds
    /\ CollectionInv /\ PredecessorsInv /\ NamedInv

-----------------------------------------------------------------------------
(* The log, whoever deletes from it.                                       *)

LEMMA BoundedHasLast ==
    ASSUME Types, Bounded
    PROVE  HasLast
<1> SUFFICES ASSUME audit # {} PROVE \E p \in audit : IsLast(p)
  BY DEF HasLast
<1> DEFINE Above == {n \in Nat : \A r \in audit : r.seq <= n}
<1>1. Above \in SUBSET Nat /\ Above # {}
  BY DEF Bounded
<1>2. \A n : n \in Above <=> n \in Nat /\ \A r \in audit : r.seq <= n
  OBVIOUS
<1> HIDE DEF Above
<1>3. PICK n \in Above : \A m \in Above : n <= m
  BY <1>1, LeastExists
<1>4. n \in Nat /\ \A r \in audit : r.seq \in Nat \ {0} /\ r.seq <= n
  BY <1>2, <1>3 DEF Types
<1>5. ASSUME \A r \in audit : r.seq # n PROVE FALSE
  <2>1. n - 1 \in Nat /\ \A r \in audit : r.seq <= n - 1
    BY <1>4, <1>5
  <2>2. n - 1 \in Above
    BY <1>2, <2>1
  <2> QED BY <1>3, <1>4, <2>2
<1> QED BY <1>4, <1>5 DEF IsLast

\* What a writer chains to.
LEMMA TailIsRecorded ==
    ASSUME Types, Bounded
    PROVE  \/ audit = {} /\ LogTail = [seq |-> 0, hash |-> Genesis]
           \/ \E p \in audit : /\ IsLast(p) /\ LogTail.seq = p.seq /\ LogTail.hash = HashOf(p)
                               /\ LogTail.seq \in Nat \ {0}
<1>1. CASE audit = {}
  BY <1>1 DEF LogTail
<1>2. CASE audit # {}
  <2>1. PICK p \in audit : IsLast(p)
    BY <1>2, BoundedHasLast DEF HasLast
  <2>2. p.seq \in Seqs /\ \A m \in Seqs : m \in Nat \ {0} /\ m <= p.seq
    BY <2>1 DEF Seqs, IsLast, Types
  <2>3. Highest(Seqs) \in Seqs /\ \A m \in Seqs : m <= Highest(Seqs)
    BY <2>2 DEF Highest
  <2>4. Highest(Seqs) = p.seq
    BY <2>2, <2>3
  <2>5. RowAt(p.seq) \in audit /\ RowAt(p.seq).seq = p.seq
    BY DEF RowAt
  <2>6. LogTail.seq = p.seq /\ LogTail.hash = HashOf(RowAt(p.seq))
    BY <1>2, <2>4 DEF LogTail
  <2>7. IsLast(RowAt(p.seq)) /\ LogTail.seq = RowAt(p.seq).seq
    BY <2>1, <2>5, <2>6 DEF IsLast
  <2> QED BY <2>2, <2>5, <2>6, <2>7
<1> QED BY <1>1, <1>2

LEMMA HashesTellApart ==
    ASSUME NEW r, NEW s, HashOf(r) = HashOf(s)
    PROVE  r.id = s.id /\ r.version = s.version
BY DEF HashOf, Hash

\* Deletions, rollbacks and whatever writes no row.
LEMMA ShrinkKeepsLog ==
    ASSUME LogInv, Types', NEW K, NEW L, L \subseteq K, History(K),
           audit' \subseteq audit, latest' \subseteq latest, used' = used, tx' = tx \/ tx' = NoTx
    PROVE  LogInv' /\ History(L)'
<1>1. Bounded'
  BY DEF LogInv, Bounded
<1>2. \A h : Drawn(h) => Drawn(h)'
  BY DEF Drawn
<1>3. \A n, h : LinkTo(n, h) => LinkTo(n, h)'
  BY <1>2 DEF LinkTo
<1>4. WriterInv'
  BY <1>3 DEF LogInv, WriterInv, VersionOk, Hash
<1>5. \A r : RowOk(r) => RowOk(r)'
  BY <1>2, <1>3 DEF RowOk, VersionOk, HashOf, Hash
<1>6. History(L)'
  BY <1>5 DEF History, HashOf, Hash
<1> QED BY <1>1, <1>4, <1>6 DEF LogInv

\* A transaction begins for a version that is not drawn yet.
LEMMA BeginKeepsLog ==
    ASSUME LogInv, NEW K, NEW L, L \subseteq K, audit \subseteq K, History(K),
           NEW t, tx' = t, t # NoTx, t.tail = LogTail,
           UNCHANGED <<audit, latest, watermark, job, today>>,
           used \subseteq used', t.row.id \in used', VersionOk(t.row),
           \A h : Drawn(h) /\ h.id = t.row.id => h.version < t.row.version,
           \A g \in latest : g.id = t.row.id => g = t.row.supersedes
    PROVE  LogInv' /\ History(L)'
<1>1. \A h : Drawn(h) => Drawn(h)'
  BY DEF Drawn
<1>2. \A n, h : LinkTo(n, h) => LinkTo(n, h)'
  BY <1>1 DEF LinkTo
<1>3. Drawn(Genesis)
  BY DEF Drawn, Genesis, LogInv, WriterInv, Types, VersionOk
<1>4. LinkTo(LogTail.seq, LogTail.hash)
  <2>1. CASE LogTail = [seq |-> 0, hash |-> Genesis]
    BY <1>3, <2>1 DEF LinkTo
  <2>2. ASSUME NEW p \in audit, LogTail.seq = p.seq, LogTail.hash = HashOf(p), LogTail.seq \in Nat \ {0}
        PROVE  LinkTo(LogTail.seq, LogTail.hash)
    <3>1. Drawn(HashOf(p)) /\ VersionOk(p)
      BY DEF History, RowOk
    <3>2. HashOf(p).version # 0
      BY <3>1 DEF VersionOk, HashOf, Hash
    <3> QED BY <2>2, <3>1, <3>2 DEF LinkTo
  <2> QED BY <2>1, <2>2, TailIsRecorded DEF LogInv
<1>5. \A r \in K : LogTail.hash = HashOf(r) => LogTail.seq = r.seq
  <2> SUFFICES ASSUME NEW r \in K, LogTail.hash = HashOf(r) PROVE LogTail.seq = r.seq
    OBVIOUS
  <2>1. r.version # 0
    BY DEF History, RowOk, VersionOk
  <2>2. LogTail.hash # Genesis
    BY <2>1 DEF HashOf, Hash, Genesis
  <2>3. PICK p \in audit : LogTail.seq = p.seq /\ LogTail.hash = HashOf(p)
    BY <2>2, TailIsRecorded DEF LogInv
  <2> QED BY <2>3 DEF History
<1>6. t.tail.seq \in Nat
  BY <1>4 DEF LinkTo
<1>7. Types'
  BY <1>6 DEF LogInv, Types, VersionOk
<1>8. WriterInv'
  BY <1>2, <1>4 DEF LogInv, WriterInv, VersionOk, Hash
<1>9. \A r : RowOk(r) => RowOk(r)'
  BY <1>1, <1>2 DEF RowOk, VersionOk, HashOf, Hash
<1>10. History(L)'
  BY <1>5, <1>9 DEF History, HashOf, Hash
<1> QED BY <1>7, <1>8, <1>10 DEF LogInv, Bounded

LEMMA BeginTurnKeepsLog ==
    ASSUME LogInv, NEW K, NEW L, L \subseteq K, audit \subseteq K, History(K),
           NEW i, NEW ts, BeginTurn(i, ts)
    PROVE  LogInv' /\ History(L)'
<1> DEFINE t == [kind |-> "turn", tail |-> LogTail,
                 row |-> [id |-> i, version |-> 1, ts |-> ts, supersedes |-> Genesis]]
<1>1. /\ tx' = t /\ used' = used \cup {i} /\ i \notin used
      /\ UNCHANGED <<audit, latest, watermark, job, today>>
  BY DEF BeginTurn
<1>2. t # NoTx
  BY DEF NoTx
<1>3. t.tail = LogTail /\ t.row.version = 1 /\ t.row.id = i /\ t.row.supersedes = Genesis
  OBVIOUS
<1> HIDE DEF t
<1>4. VersionOk(t.row)
  BY <1>3 DEF VersionOk
<1>5. \A h : Drawn(h) /\ h.id = t.row.id => h.version < t.row.version
  BY <1>1, <1>3 DEF Drawn
<1>6. \A g \in latest : g.id = t.row.id => g = t.row.supersedes
  BY <1>1, <1>3 DEF LogInv, WriterInv
<1> QED BY <1>1, <1>2, <1>3, <1>4, <1>5, <1>6, BeginKeepsLog

LEMMA BeginAttestKeepsLog ==
    ASSUME LogInv, NEW K, NEW L, L \subseteq K, audit \subseteq K, History(K),
           NEW row \in audit, BeginAttest(row)
    PROVE  LogInv' /\ History(L)'
<1> DEFINE t == [kind |-> "attest", tail |-> LogTail,
                 row |-> [id |-> row.id, version |-> row.version + 1, ts |-> row.ts,
                          supersedes |-> HashOf(row)]]
<1>1. /\ tx' = t /\ HashOf(row) \in latest /\ row.supersedes = Genesis
      /\ UNCHANGED <<audit, latest, watermark, job, used, today>>
  BY DEF BeginAttest, Attestable
<1>2. t # NoTx
  BY DEF NoTx
<1>3. /\ t.tail = LogTail /\ t.row.version = row.version + 1 /\ t.row.id = row.id
      /\ t.row.supersedes = HashOf(row)
  OBVIOUS
<1> HIDE DEF t
<1>4. row.version = 1 /\ row.id \in used
  <2>1. Hash(row.id, 1).version # Genesis.version
    BY DEF Hash, Genesis
  <2>2. VersionOk(row) /\ row.id \in used
    BY DEF History, RowOk, LogInv, Types
  <2> QED BY <1>1, <2>1, <2>2 DEF VersionOk
<1>5. HashOf(row).id = row.id /\ HashOf(row).version = 1 /\ HashOf(row) = Hash(row.id, 1)
  BY <1>4 DEF HashOf, Hash
<1>6. VersionOk(t.row)
  BY <1>3, <1>4, <1>5 DEF VersionOk
<1>7. \A h : Drawn(h) /\ h.id = t.row.id => h.version < t.row.version
  BY <1>1, <1>3, <1>4, <1>5 DEF Drawn
<1>8. \A g \in latest : g.id = t.row.id => g = t.row.supersedes
  BY <1>1, <1>3, <1>5 DEF LogInv, WriterInv
<1> QED BY <1>1, <1>2, <1>3, <1>4, <1>6, <1>7, <1>8, BeginKeepsLog

\* The row appended is new under its hash, and no row is chained to it yet.
LEMMA AppendKeepsLog ==
    ASSUME LogInv, NEW K, NEW L, audit \subseteq K, L \subseteq K \cup audit', History(K),
           NEW keepText, CommitAppend(keepText)
    PROVE  LogInv' /\ History(L)'
<1> DEFINE old == tx.row.supersedes
<1>0. PICK new : new = Appended(tx)
  OBVIOUS
<1>1. /\ audit' = audit \cup {new} /\ tx' = NoTx /\ tx # NoTx
      /\ latest' = (latest \ {old}) \cup {HashOf(tx.row)}
      /\ UNCHANGED <<watermark, job, used, today>>
  BY <1>0 DEF CommitAppend, NowLatest
<1>2. /\ new.id = tx.row.id /\ new.version = tx.row.version /\ new.supersedes = old
      /\ new.seq = tx.tail.seq + 1 /\ new.prev = tx.tail.hash
  BY <1>0 DEF Appended
<1> HIDE DEF old
<1>3. /\ tx.tail.seq \in Nat /\ tx.row.version \in Nat \ {0} /\ tx.row.id \in used
      /\ LinkTo(tx.tail.seq, tx.tail.hash) /\ VersionOk(tx.row)
      /\ \A g \in latest : g.id = tx.row.id => g = old
  BY <1>1 DEF LogInv, Types, WriterInv, old
<1>4. HashOf(new) = HashOf(tx.row) /\ HashOf(new).id = tx.row.id
      /\ HashOf(new).version = tx.row.version
  BY <1>2 DEF HashOf, Hash
<1>5. \A h : Drawn(h) => h # HashOf(new) /\ Drawn(h)'
  <2> SUFFICES ASSUME NEW h, Drawn(h) PROVE h # HashOf(new) /\ Drawn(h)'
    OBVIOUS
  <2>1. h.id = tx.row.id => h.version < tx.row.version
    BY <1>1 DEF Drawn
  <2>2. h # HashOf(new)
    BY <1>3, <1>4, <2>1
  <2>3. \A g \in latest' : g.id = h.id => h.version <= g.version
    <3> SUFFICES ASSUME NEW g \in latest', g.id = h.id PROVE h.version <= g.version
      OBVIOUS
    <3>1. CASE g \in latest
      BY <3>1 DEF Drawn
    <3>2. CASE g = HashOf(new)
      <4>1. h.version \in Nat
        BY DEF Drawn
      <4> QED BY <1>3, <1>4, <2>1, <3>2, <4>1
    <3> QED BY <1>1, <1>4, <3>1, <3>2
  <2> QED BY <1>1, <2>2, <2>3 DEF Drawn
<1>6. Drawn(HashOf(new))'
  <2>1. \A g \in latest' : g.id = tx.row.id => g = HashOf(new)
    BY <1>1, <1>3, <1>4
  <2>2. tx.row.version <= tx.row.version
    BY <1>3
  <2>3. PICK h : h = HashOf(new)
    OBVIOUS
  <2>4. Drawn(h)'
    BY <1>1, <1>3, <1>4, <2>1, <2>2, <2>3 DEF Drawn
  <2> QED BY <2>3, <2>4 DEF HashOf, Hash
<1>7. \A n, h : LinkTo(n, h) => LinkTo(n, h)'
  BY <1>5 DEF LinkTo
<1>8. RowOk(new)'
  <2>1. new.seq \in Nat \ {0} /\ new.seq - 1 = tx.tail.seq
    BY <1>2, <1>3
  <2>2. VersionOk(new)
    BY <1>2, <1>3 DEF VersionOk, old
  <2>3. LinkTo(new.seq - 1, new.prev)'
    BY <1>2, <1>3, <1>7, <2>1
  <2> QED BY <1>6, <2>1, <2>2, <2>3 DEF RowOk, VersionOk, Hash, HashOf
<1>9. \A r \in K : RowOk(r) /\ RowOk(r)' /\ HashOf(r) # HashOf(new) /\ r.prev # HashOf(new)
  <2> SUFFICES ASSUME NEW r \in K
               PROVE  RowOk(r) /\ RowOk(r)' /\ HashOf(r) # HashOf(new) /\ r.prev # HashOf(new)
    OBVIOUS
  <2>1. RowOk(r)
    BY DEF History
  <2>2. Drawn(HashOf(r)) /\ Drawn(r.prev)
    BY <2>1 DEF RowOk, LinkTo
  <2>3. RowOk(r)'
    BY <1>5, <1>7, <2>1 DEF RowOk, VersionOk, HashOf, Hash
  <2> QED BY <1>5, <2>1, <2>2, <2>3
<1>10. History(L)'
  <2>1. \A r \in L : r \in K \/ r = new
    BY <1>1
  <2>2. \A r \in L : RowOk(r)'
    BY <1>8, <1>9, <2>1
  <2>3. \A r, s \in L : HashOf(r) = HashOf(s) => r = s
    BY <1>9, <2>1 DEF History
  <2>4. ASSUME NEW r \in L, NEW s \in L, s.prev = HashOf(r) PROVE s.seq = r.seq + 1
    <3>1. r # new
      <4>1. CASE s \in K
        BY <1>9, <2>4, <4>1
      <4>2. CASE s = new
        <5>1. Drawn(s.prev)
          BY <1>2, <1>3, <4>2 DEF LinkTo
        <5> QED BY <1>5, <2>4, <5>1
      <4> QED BY <2>1, <4>1, <4>2
    <3>2. r \in K
      BY <2>1, <3>1
    <3>3. CASE s \in K
      BY <2>4, <3>2, <3>3 DEF History
    <3>4. CASE s = new
      BY <1>1, <1>2, <2>4, <3>2, <3>4 DEF History
    <3> QED BY <2>1, <3>3, <3>4
  <2> QED BY <1>1, <2>2, <2>3, <2>4 DEF History, HashOf, Hash
<1>11. Types'
  BY <1>1, <1>2, <1>3 DEF LogInv, Types
<1>12. Bounded'
  <2>1. PICK n \in Nat : \A r \in audit : r.seq <= n
    BY DEF LogInv, Bounded
  <2>2. PICK m \in Nat : m >= n /\ m >= new.seq
    <3>1. new.seq \in Nat
      BY <1>2, <1>3
    <3> QED BY <3>1
  <2>3. \A r \in audit' : r.seq <= m
    BY <1>1, <2>1, <2>2 DEF LogInv, Types
  <2> QED BY <2>3 DEF Bounded
<1>13. WriterInv'
  BY <1>1, <1>3, <1>4 DEF LogInv, WriterInv
<1> QED BY <1>10, <1>11, <1>12, <1>13 DEF LogInv

\* Every step of the system, for the rows seen before it and its own.
LEMMA SystemKeepsLog ==
    ASSUME LogInv, NEW K, NEW L, audit \subseteq K, L \subseteq K \cup audit', History(K), [Next]_vars
    PROVE  LogInv' /\ History(L)'
<1>1. Types /\ HasLast /\ job \in [Jobs -> JobRows] /\ today \in Nat
  BY BoundedHasLast DEF LogInv, Types
<1>2. ASSUME audit' = audit, latest' = latest, used' = used, watermark' = watermark,
             tx' = tx \/ tx' = NoTx, job' \in [Jobs -> JobRows], today' \in Nat
      PROVE  LogInv' /\ History(L)'
  <2>1. Types'
    BY <1>1, <1>2 DEF Types
  <2> QED BY <1>2, <2>1, ShrinkKeepsLog
<1>3. CASE Writer
  <2>1. CASE Rollback
    BY <1>1, <1>2, <2>1 DEF Rollback
  <2>2. CASE \E i \in TurnIds, ts \in Days : ts \in {today - 1, today} /\ BeginTurn(i, ts)
    <3>1. L \subseteq K
      BY <2>2 DEF BeginTurn
    <3> QED BY <2>2, <3>1, BeginTurnKeepsLog
  <2>3. CASE \E row \in audit : BeginAttest(row)
    <3>1. L \subseteq K
      BY <2>3 DEF BeginAttest
    <3> QED BY <2>3, <3>1, BeginAttestKeepsLog
  <2>4. CASE \E keepText \in StoreRawText : CommitAppend(keepText)
    BY <2>4, AppendKeepsLog
  <2> QED BY <1>3, <2>1, <2>2, <2>3, <2>4 DEF Writer
<1>4. CASE Event
  BY <1>1, <1>2, <1>4 DEF Event, OwnerOf, InsertEvent
<1>5. ASSUME NEW j \in Jobs, Prune(j) PROVE LogInv' /\ History(L)'
  <2>1. PICK n : n = job[j].through
    OBVIOUS
  <2>2. /\ audit' = {r \in audit : ~(r.seq <= n)} /\ watermark' \in [through : Nat, before : Int]
        /\ job' = [job EXCEPT ![j] = IdleJob(@.runs)] /\ UNCHANGED <<tx, used, today>>
        /\ latest' \subseteq latest
    BY <1>1, <1>5, <2>1, PruneFacts DEF Prune
  <2>3. job' \in [Jobs -> JobRows]
    BY <1>1, <2>2 DEF JobRows, IdleJob
  <2>4. Types'
    BY <1>1, <2>2, <2>3 DEF Types
  <2> QED BY <2>2, <2>4, ShrinkKeepsLog
<1>6. ASSUME NEW j \in Jobs, (\E retain \in RetainDays : FindKept(j, retain)) \/ FindLast(j)
      PROVE  LogInv' /\ History(L)'
  <2>1. job' \in [Jobs -> JobRows]
    BY <1>1, <1>6, FindBounds
  <2> QED BY <1>1, <1>2, <1>6, <2>1 DEF FindKept, FindLast
<1>7. ASSUME NEW j \in Jobs, LeaveAlone(j) PROVE LogInv' /\ History(L)'
  <2>1. job' \in [Jobs -> JobRows]
    BY <1>1, <1>7 DEF LeaveAlone, IdleJob, JobRows
  <2> QED BY <1>1, <1>2, <1>7, <2>1 DEF LeaveAlone
<1>8. CASE Tick
  <2>1. today' \in Nat
    BY <1>1, <1>8 DEF Tick
  <2> QED BY <1>1, <1>2, <1>8, <2>1 DEF Tick
<1>9. CASE Finished \/ UNCHANGED vars
  BY <1>1, <1>2, <1>9 DEF Finished, vars
<1> QED BY <1>3, <1>4, <1>5, <1>6, <1>7, <1>8, <1>9 DEF Next, Job

-----------------------------------------------------------------------------
(* Dates, while only the job deletes.                                      *)

\* What Timely says of a transaction and of a run.
TxTimely(t, day) ==
    t # NoTx => t.row.ts \in Int /\ (t.row.supersedes = Genesis => t.row.ts >= day - 1)

RunTimely(run, day) ==
    /\ run.phase # "idle" => run.cutoff <= day - 1
    /\ run.phase = "bounded" => RunHolds(run.through, run.cutoff)

\* What changes no row: a run may start or stop, a transaction begin or end.
LEMMA UnchangedKeepsDates ==
    ASSUME DatesInv, audit' = audit, watermark' = watermark, today' = today,
           TxTimely(tx', today), \A j \in Jobs : RunTimely(job'[j], today)
    PROVE  DatesInv'
<1>1. \A n, c : RunHolds(n, c) => RunHolds(n, c)'
  BY DEF RunHolds, Prefix
<1>2. \A j \in Jobs :
          /\ job'[j].phase # "idle" => job'[j].cutoff <= today' - 1
          /\ job'[j].phase = "bounded" => RunHolds(job'[j].through, job'[j].cutoff)
  BY DEF RunTimely
<1>3. ASSUME NEW j \in Jobs, job'[j].phase = "bounded"
      PROVE  RunHolds(job[j].through, job[j].cutoff)'
  <2>1. PICK n, c : n = job'[j].through /\ c = job'[j].cutoff
    OBVIOUS
  <2>2. RunHolds(n, c)'
    BY <1>1, <1>2, <1>3, <2>1
  <2> QED BY <2>1, <2>2 DEF RunHolds, Prefix
<1>4. Timely'
  BY <1>2, <1>3 DEF DatesInv, Timely, TxTimely
<1>5. Pinned'
  BY DEF DatesInv, Pinned
<1> QED BY <1>4, <1>5 DEF DatesInv

LEMMA SameIsTimely ==
    ASSUME DatesInv
    PROVE  TxTimely(tx, today) /\ TxTimely(NoTx, today) /\ \A j \in Jobs : RunTimely(job[j], today)
BY DEF DatesInv, Timely, TxTimely, RunTimely

\* The first statement finds the first row to keep, under which all is older.
LEMMA FindKeepsDates ==
    ASSUME IInv, DatesInv, NEW j \in Jobs,
           (\E retain \in RetainDays : FindKept(j, retain)) \/ FindLast(j)
    PROVE  DatesInv'
<1>1. /\ job \in [Jobs -> JobRows] /\ today \in Nat
      /\ \A r \in audit : r.seq \in Nat \ {0} /\ r.ts \in Int
  BY DEF IInv, Types, DatesInv, Timely
<1>2. Seqs \in SUBSET Nat
  BY <1>1 DEF Seqs
<1>3. ASSUME NEW retain \in RetainDays, FindKept(j, retain) PROVE DatesInv'
  <2> DEFINE c == today - retain
             n == IF Kept(c) = {} THEN 0 ELSE Lowest(Kept(c)) - 1
  <2>1. /\ job' = [job EXCEPT ![j] =
               [phase |-> IF Kept(c) = {} THEN "unbounded" ELSE "bounded",
                cutoff |-> c, through |-> n, runs |-> job[j].runs + 1]]
        /\ UNCHANGED <<audit, watermark, tx, today>>
    BY <1>1, <1>3 DEF FindKept
  <2>2. c \in Int /\ c <= today - 1
    BY <1>1, RetentionAssumption
  <2> HIDE DEF c
  <2>3. ASSUME Kept(c) # {} PROVE RunHolds(n, c)
    <3>1. Kept(c) \in SUBSET Nat
      BY <1>1 DEF Kept
    <3>2. Lowest(Kept(c)) \in Kept(c) /\ \A m \in Kept(c) : Lowest(Kept(c)) <= m
      BY <2>3, <3>1, LowestIsLeast
    <3>3. PICK low : low = Lowest(Kept(c))
      OBVIOUS
    <3>4. low \in Nat /\ n = low - 1 /\ low \in Kept(c) /\ \A m \in Kept(c) : low <= m
      BY <2>3, <3>1, <3>2, <3>3
    <3> HIDE DEF n
    <3>5. PICK k \in audit : k.seq = low /\ k.ts >= c
      BY <3>4 DEF Kept
    <3>6. k.seq = n + 1
      BY <3>4, <3>5
    <3>7. \A r \in audit : r.seq <= n => r.ts < c
      <4> SUFFICES ASSUME NEW r \in audit, r.seq <= n, r.ts >= c PROVE FALSE
        BY <1>1, <2>2
      <4>1. r.seq \in Kept(c) /\ r.seq \in Nat
        BY <1>1 DEF Kept
      <4> QED BY <3>4, <4>1
    <3> QED BY <3>5, <3>6, <3>7 DEF RunHolds
  <2>4. \A i \in Jobs : i # j => job'[i] = job[i]
    BY <2>1, <1>1
  <2>5. /\ job'[j].cutoff = c /\ job'[j].through = n
        /\ job'[j].phase = "bounded" => Kept(c) # {}
    BY <2>1, <1>1
  <2> HIDE DEF n
  <2>6. \A i \in Jobs : RunTimely(job'[i], today)
    BY <2>2, <2>3, <2>4, <2>5, SameIsTimely DEF RunTimely
  <2> QED BY <2>1, <2>6, SameIsTimely, UnchangedKeepsDates
<1>4. ASSUME FindLast(j) PROVE DatesInv'
  <2>1. PICK n : n = Highest(Seqs)
    OBVIOUS
  <2>2. \A r \in audit : r.seq <= n
    <3> SUFFICES ASSUME NEW r \in audit PROVE r.seq <= n
      OBVIOUS
    <3>1. PICK p \in audit : IsLast(p)
      BY DEF IInv, ChainInv, HasLast
    <3>2. p.seq \in Seqs /\ r.seq \in Seqs /\ \A m \in Seqs : m <= p.seq
      BY <3>1 DEF Seqs, IsLast
    <3>3. Highest(Seqs) \in Seqs /\ \A m \in Seqs : m <= Highest(Seqs)
      BY <3>2 DEF Highest
    <3> QED BY <2>1, <3>2, <3>3
  <2>3. n \in Nat
    <3>1. CASE audit = {}
      BY <2>1, <3>1 DEF Highest, Seqs
    <3>2. CASE audit # {}
      <4>1. PICK p \in audit : IsLast(p)
        BY <3>2 DEF IInv, ChainInv, HasLast
      <4>2. p.seq \in Seqs /\ \A m \in Seqs : m <= p.seq
        BY <4>1 DEF Seqs, IsLast
      <4> QED BY <1>2, <2>1, <4>2 DEF Highest
    <3> QED BY <3>1, <3>2
  <2>4. \A r \in audit : ~(r.seq > n)
    BY <1>1, <2>2, <2>3
  <2>5. RunHolds(n, job[j].cutoff)
    BY <2>4 DEF RunHolds
  <2>6. job[j].phase = "unbounded" /\ job[j].cutoff <= today - 1
    BY <1>4 DEF FindLast, DatesInv, Timely
  <2>7. /\ \A i \in Jobs : i # j => job'[i] = job[i]
        /\ job'[j].cutoff = job[j].cutoff /\ job'[j].through = n
        /\ UNCHANGED <<audit, watermark, tx, today>>
    BY <1>1, <1>4, <2>1 DEF FindLast, JobRows
  <2>8. \A i \in Jobs : RunTimely(job'[i], today)
    BY <2>5, <2>6, <2>7, SameIsTimely DEF RunTimely
  <2> QED BY <2>7, <2>8, SameIsTimely, UnchangedKeepsDates
<1> QED BY <1>3, <1>4

\* A turn is at most a day old when it is appended, and above all others.
LEMMA AppendKeepsDates ==
    ASSUME IInv, DatesInv, NEW keepText, CommitAppend(keepText)
    PROVE  DatesInv'
<1>0. PICK new : new = Appended(tx)
  OBVIOUS
<1>1. audit' = audit \cup {new} /\ tx' = NoTx /\ tx # NoTx
      /\ UNCHANGED <<watermark, job, today>>
  BY <1>0 DEF CommitAppend
<1>2. new.ts \in Int /\ (new.supersedes = Genesis => new.ts >= today - 1)
  BY <1>0, <1>1 DEF Appended, DatesInv, Timely
<1>3. new.seq \in Nat /\ \A r \in audit : r.seq < new.seq /\ r.seq \in Nat /\ r.ts \in Int
  BY <1>0, <1>1, AppendedFacts DEF IInv, Types, DatesInv, Timely
<1>4. watermark.before \in Int /\ today \in Nat /\ watermark.before <= today - 1
  BY DEF IInv, Types, DatesInv, Timely
<1>5. ASSUME NEW n \in Nat, NEW c \in Int, RunHolds(n, c) PROVE RunHolds(n, c)'
  <2>1. CASE (\E k \in audit : k.seq = n + 1 /\ k.ts >= c) /\ \A r \in audit : r.seq <= n => r.ts < c
    <3>1. ~(new.seq <= n)
      BY <1>3, <2>1
    <3> QED BY <1>1, <2>1, <3>1 DEF RunHolds
  <2>2. CASE Prefix(n) = {}
    <3>1. CASE audit = {}
      <4>1. \A r \in audit' : r.supersedes = Genesis => r.ts >= today' - 1
        BY <1>1, <1>2, <3>1
      <4> QED BY <4>1 DEF RunHolds
    <3>2. CASE audit # {}
      <4>1. PICK r \in audit : ~(r.seq <= n)
        BY <2>2, <3>2 DEF Prefix
      <4>2. ~(new.seq <= n)
        BY <1>3, <4>1
      <4>3. Prefix(n)' = {}
        BY <1>1, <2>2, <4>2 DEF Prefix
      <4> QED BY <4>3 DEF RunHolds
    <3> QED BY <3>1, <3>2
  <2>3. CASE \A r \in audit : r.supersedes = Genesis /\ r.seq > n => r.ts >= today - 1
    BY <1>1, <1>2, <2>3 DEF RunHolds
  <2> QED BY <1>5, <2>1, <2>2, <2>3 DEF RunHolds
<1>6. \A j \in Jobs : job[j].through \in Nat /\ job[j].cutoff \in Int
  BY DEF IInv, Types, JobRows
<1>7. ASSUME NEW j \in Jobs, job'[j].phase = "bounded"
      PROVE  RunHolds(job[j].through, job[j].cutoff)'
  <2>1. PICK n, c : n = job[j].through /\ c = job[j].cutoff
    OBVIOUS
  <2>2. RunHolds(n, c)'
    BY <1>1, <1>5, <1>6, <1>7, <2>1 DEF DatesInv, Timely
  <2> QED BY <1>1, <2>1, <2>2 DEF RunHolds, Prefix
<1>8. Timely'
  BY <1>1, <1>2, <1>7 DEF DatesInv, Timely
<1>9. Pinned'
  <2> SUFFICES ASSUME NEW r \in audit', r.supersedes = Genesis, r.ts < watermark.before
               PROVE  \E q \in audit' : q.seq < r.seq /\ q.ts >= watermark.before
    BY <1>1 DEF Pinned
  <2>1. r # new
    BY <1>2, <1>4
  <2> QED BY <1>1, <2>1 DEF DatesInv, Pinned
<1> QED BY <1>8, <1>9 DEF DatesInv

\* A deletion leaves the row that pins what is older than the new date.
LEMMA PruneKeepsDates ==
    ASSUME IInv, DatesInv, NEW j \in Jobs, Prune(j)
    PROVE  DatesInv'
<1>1. PICK n, c : n = job[j].through /\ c = job[j].cutoff
  OBVIOUS
<1>2. /\ n \in Nat /\ audit' = {r \in audit : ~(r.seq <= n)}
      /\ job' = [job EXCEPT ![j] = IdleJob(@.runs)] /\ UNCHANGED <<tx, today>>
      /\ Prefix(n) # {}
  BY <1>1, PruneFacts DEF IInv, Prune
<1>3. /\ \A r \in audit : r.seq \in Nat /\ r.ts \in Int
      /\ c \in Int /\ watermark.before \in Int /\ today \in Nat
      /\ c <= today - 1 /\ watermark.before <= today - 1 /\ RunHolds(n, c)
  BY <1>1 DEF IInv, Types, JobRows, DatesInv, Timely, Prune
<1>4. PICK b : b = watermark'.before
  OBVIOUS
<1>5. b = Larger(watermark.before, c)
  BY <1>1, <1>4 DEF Prune, Advanced
<1>6. b \in Int /\ b <= today - 1 /\ watermark.before <= b /\ c <= b
      /\ (b = c \/ b = watermark.before)
  BY <1>3, <1>5 DEF Larger
<1>7. Pinned'
  <2> SUFFICES ASSUME NEW r \in audit', r.supersedes = Genesis, r.ts < b
               PROVE  \E q \in audit' : q.seq < r.seq /\ q.ts >= b
    BY <1>4 DEF Pinned
  <2>1. r \in audit /\ ~(r.seq <= n) /\ r.seq \in Nat /\ r.ts \in Int
    BY <1>2, <1>3
  <2>2. CASE (\E k \in audit : k.seq = n + 1 /\ k.ts >= c) /\ \A s \in audit : s.seq <= n => s.ts < c
    <3>1. CASE b = c
      <4>1. PICK k \in audit : k.seq = n + 1 /\ k.ts >= c
        BY <2>2
      <4>2. k # r
        BY <1>3, <2>1, <3>1, <4>1
      <4>3. k.seq # r.seq
        BY <2>1, <4>2 DEF IInv, ChainInv, UniqueSeqs
      <4>4. k.seq < r.seq /\ k \in audit'
        BY <1>2, <1>3, <2>1, <4>1, <4>3
      <4> QED BY <3>1, <4>1, <4>4
    <3>2. CASE b = watermark.before
      <4>1. PICK q \in audit : q.seq < r.seq /\ q.ts >= b
        BY <2>1, <3>2 DEF DatesInv, Pinned
      <4>2. ~(q.seq <= n)
        BY <1>3, <1>6, <2>2, <4>1
      <4> QED BY <1>2, <4>1, <4>2
    <3> QED BY <1>6, <3>1, <3>2
  <2>3. CASE \A s \in audit : s.supersedes = Genesis /\ s.seq > n => s.ts >= today - 1
    <3>1. r.ts >= today - 1
      BY <1>2, <2>1, <2>3
    <3> QED BY <1>3, <1>6, <2>1, <3>1
  <2> QED BY <1>2, <1>3, <2>2, <2>3 DEF RunHolds
<1>8. ASSUME NEW m \in Nat, NEW d \in Int, RunHolds(m, d) PROVE RunHolds(m, d)'
  <2>1. CASE (\E k \in audit : k.seq = m + 1 /\ k.ts >= d) /\ \A s \in audit : s.seq <= m => s.ts < d
    <3>1. PICK k \in audit : k.seq = m + 1 /\ k.ts >= d
      BY <2>1
    <3>2. CASE k.seq <= n
      <4>1. \A s \in audit' : ~(s.seq <= m)
        BY <1>2, <1>3, <3>1, <3>2
      <4> QED BY <4>1 DEF RunHolds, Prefix
    <3>3. CASE ~(k.seq <= n)
      BY <1>2, <2>1, <3>1, <3>3 DEF RunHolds
    <3> QED BY <3>2, <3>3
  <2>2. CASE Prefix(m) = {}
    BY <1>2, <2>2 DEF RunHolds, Prefix
  <2>3. CASE \A s \in audit : s.supersedes = Genesis /\ s.seq > m => s.ts >= today - 1
    BY <1>2, <2>3 DEF RunHolds
  <2> QED BY <1>8, <2>1, <2>2, <2>3 DEF RunHolds
<1>9. \A i \in Jobs : job[i].through \in Nat /\ job[i].cutoff \in Int
                      /\ (job'[i] = job[i] \/ job'[i].phase = "idle")
  BY <1>2 DEF IInv, Types, JobRows, IdleJob
<1>10. ASSUME NEW i \in Jobs, job'[i].phase = "bounded"
       PROVE  RunHolds(job[i].through, job[i].cutoff)'
  <2>1. PICK m, d : m = job'[i].through /\ d = job'[i].cutoff
    OBVIOUS
  <2>2. RunHolds(m, d)'
    BY <1>8, <1>9, <1>10, <2>1 DEF DatesInv, Timely
  <2> QED BY <2>1, <2>2 DEF RunHolds, Prefix
<1>11. Timely'
  BY <1>2, <1>4, <1>6, <1>9, <1>10 DEF DatesInv, Timely
<1> QED BY <1>7, <1>11 DEF DatesInv

LEMMA SystemKeepsDates ==
    ASSUME IInv, DatesInv, [Next]_vars
    PROVE  DatesInv'
<1>1. job \in [Jobs -> JobRows] /\ today \in Nat /\ \A r \in audit : r.ts \in Int
  BY DEF IInv, Types, DatesInv, Timely
<1>2. CASE Writer
  <2>1. ASSUME NEW i, NEW ts \in Days, ts \in {today - 1, today}, BeginTurn(i, ts) PROVE DatesInv'
    <3>1. tx'.row.ts = ts /\ ts \in Int /\ ts >= today - 1
      BY <1>1, <2>1 DEF BeginTurn
    <3>2. TxTimely(tx', today)
      BY <3>1 DEF TxTimely
    <3> QED BY <2>1, <3>2, SameIsTimely, UnchangedKeepsDates DEF BeginTurn
  <2>2. ASSUME NEW row \in audit, BeginAttest(row) PROVE DatesInv'
    <3>1. tx'.row.ts = row.ts /\ tx'.row.supersedes = HashOf(row)
      BY <2>2 DEF BeginAttest
    <3>2. HashOf(row) # Genesis
      BY DEF HashOf, Hash, Genesis, IInv, Types
    <3>3. TxTimely(tx', today)
      BY <1>1, <3>1, <3>2 DEF TxTimely
    <3> QED BY <2>2, <3>3, SameIsTimely, UnchangedKeepsDates DEF BeginAttest
  <2>3. CASE Rollback
    BY <2>3, SameIsTimely, UnchangedKeepsDates DEF Rollback
  <2> QED BY <1>2, <2>1, <2>2, <2>3, AppendKeepsDates DEF Writer
<1>3. CASE Event
  BY <1>3, SameIsTimely, UnchangedKeepsDates DEF Event, OwnerOf, InsertEvent
<1>4. ASSUME NEW j \in Jobs, LeaveAlone(j) PROVE DatesInv'
  <2>1. \A i \in Jobs : job'[i] = job[i] \/ job'[i].phase = "idle"
    BY <1>1, <1>4 DEF LeaveAlone, IdleJob
  <2>2. \A i \in Jobs : RunTimely(job'[i], today)
    BY <2>1, SameIsTimely DEF RunTimely
  <2> QED BY <1>4, <2>2, SameIsTimely, UnchangedKeepsDates DEF LeaveAlone
<1>5. CASE Job
  BY <1>4, <1>5, FindKeepsDates, PruneKeepsDates DEF Job
<1>6. CASE Tick
  <2>1. /\ tx' = NoTx /\ today' = today + 1 /\ UNCHANGED <<audit, watermark, job>>
        /\ \A j \in Jobs : job'[j].phase = "idle"
    BY <1>6 DEF Tick, Quiet
  <2>2. watermark.before \in Int /\ watermark.before <= today - 1
    BY DEF IInv, Types, DatesInv, Timely
  <2>3. watermark'.before <= today' - 1
    BY <1>1, <2>1, <2>2
  <2>4. Timely'
    BY <1>1, <2>1, <2>3 DEF Timely
  <2> QED BY <2>1, <2>4 DEF DatesInv, Pinned
<1>7. CASE Finished \/ UNCHANGED vars
  BY <1>7, SameIsTimely, UnchangedKeepsDates DEF Finished, vars
<1> QED BY <1>2, <1>3, <1>5, <1>6, <1>7 DEF Next

-----------------------------------------------------------------------------
(* What a step may do to the rows somebody has read.                       *)

LEMMA StepRows ==
    ASSUME Types, [Next]_vars
    PROVE  /\ watermark.through <= watermark'.through
           /\ watermark.through \in Nat /\ watermark'.through \in Nat
           /\ \/ audit' \subseteq audit
              \/ tx # NoTx /\ audit' = audit \cup {Appended(tx)}
<1>1. watermark.through \in Nat
  BY DEF Types
<1>2. ASSUME NEW j \in Jobs, Prune(j)
      PROVE  watermark.through <= watermark'.through /\ watermark'.through \in Nat
             /\ audit' \subseteq audit
  <2>1. PICK n : n = job[j].through
    OBVIOUS
  <2> QED BY <1>2, <2>1, PruneFacts
<1>3. ASSUME NEW keepText, CommitAppend(keepText)
      PROVE  watermark' = watermark /\ tx # NoTx /\ audit' = audit \cup {Appended(tx)}
  BY <1>3 DEF CommitAppend
<1>4. \/ \E j \in Jobs : Prune(j)
      \/ \E keepText \in StoreRawText : CommitAppend(keepText)
      \/ watermark' = watermark /\ audit' = audit
  BY DEF Next, Writer, BeginTurn, BeginAttest, Rollback, Event, OwnerOf, InsertEvent,
         Job, FindKept, FindLast, LeaveAlone, Tick, Finished, vars
<1> QED BY <1>1, <1>2, <1>3, <1>4

\* A row that is gone does not come back.
LEMMA NoReturn ==
    ASSUME LogInv, [Next]_vars, NEW K, audit \subseteq K, History(K), NEW row \in K, row \in audit'
    PROVE  row \in audit
<1> SUFFICES ASSUME tx # NoTx, row = Appended(tx) PROVE FALSE
  BY StepRows DEF LogInv
<1>1. row.id = tx.row.id /\ row.version = tx.row.version
  BY DEF Appended
<1>2. HashOf(row).id = tx.row.id /\ HashOf(row).version = tx.row.version
  BY <1>1 DEF HashOf, Hash
<1>3. Drawn(HashOf(row))
  BY DEF History, RowOk
<1>4. tx.row.version < tx.row.version /\ tx.row.version \in Nat
  BY <1>2, <1>3 DEF Drawn, LogInv, Types
<1> QED BY <1>4

\* The oldest row stays the oldest as long as it is there.
LEMMA StaysOldest ==
    ASSUME IInv, [Next]_vars, NEW row \in audit, IsFirst(row)
    PROVE  \A s \in audit' : row.seq <= s.seq
<1>1. CASE audit' \subseteq audit
  BY <1>1 DEF IsFirst
<1>2. CASE tx # NoTx /\ audit' = audit \cup {Appended(tx)}
  <2>1. PICK new : new = Appended(tx)
    OBVIOUS
  <2>2. row.seq < new.seq /\ new.seq \in Nat /\ row.seq \in Nat
    BY <1>2, <2>1, AppendedFacts DEF IInv, Types
  <2> QED BY <1>2, <2>1, <2>2 DEF IsFirst
<1> QED BY <1>1, <1>2, StepRows DEF IInv

LEMMA FindBySeqFinds ==
    ASSUME NEW n
    PROVE  \/ FindBySeq(n) = Missing /\ \A r \in audit : r.seq # n
           \/ \E r \in audit : r.seq = n /\ FindBySeq(n) = Found(r)
BY DEF FindBySeq, Seqs, RowAt

LEMMA FindByHashFinds ==
    ASSUME NEW h
    PROVE  \/ FindByHash(h) = Missing
           \/ \E r \in audit : HashOf(r) = h /\ FindByHash(h) = Found(r)
BY DEF FindByHash

\* What the watermark answers.
LEMMA PrunedOrMissingAnswers ==
    ASSUME Types, NEW row, row.seq \in Nat \ {0}
    PROVE  /\ Answered(row, PrunedOrMissing(row.seq - 1))
           /\ row.seq > 1 /\ row.seq - 1 <= watermark.through =>
                  PrunedOrMissing(row.seq - 1) = PrunedMarker(watermark.before)
<1>1. watermark.through \in Nat
  BY DEF Types
<1>2. CASE watermark = NoWatermark
  <2>1. watermark.through = 0
    BY <1>2 DEF NoWatermark
  <2> QED BY <1>2, <2>1 DEF PrunedOrMissing, Answered, Missing
<1>3. CASE watermark # NoWatermark
  BY <1>1, <1>3 DEF PrunedOrMissing, Answered, Missing, PrunedMarker
<1> QED BY <1>2, <1>3

\* Of a row that is there: its predecessor is found and is the one it is
\* chained to, or it is the first of the log, or the oldest.
LEMMA PredecessorFound ==
    ASSUME IInv, NEW row \in audit, RowOk(row)
    PROVE  LET found == FindBySeq(row.seq - 1) IN
           /\ row.seq = 1 => found = Missing
           /\ row.seq # 1 /\ found # Missing => found.kind = "found" /\ HashOf(found.row) = row.prev
           /\ row.seq # 1 /\ found = Missing =>
                  row.seq > 1 /\ IsFirst(row) /\ row.seq - 1 <= watermark.through
<1> DEFINE found == FindBySeq(row.seq - 1)
<1>1. \A r \in audit : r.seq \in Nat \ {0}
  BY DEF IInv, Types
<1>2. \/ found = Missing /\ \A r \in audit : r.seq # row.seq - 1
      \/ \E r \in audit : r.seq = row.seq - 1 /\ found = Found(r)
  BY FindBySeqFinds
<1>3. \A r : Found(r) # Missing /\ Found(r).kind = "found" /\ Found(r).row = r
  BY DEF Found, Missing
<1> HIDE DEF found
<1>4. row.seq = 1 => found = Missing
  BY <1>1, <1>2
<1>5. ASSUME row.seq # 1
      PROVE  /\ found # Missing => found.kind = "found" /\ HashOf(found.row) = row.prev
             /\ found = Missing =>
                    row.seq > 1 /\ IsFirst(row) /\ row.seq - 1 <= watermark.through
  <2>1. \/ \E p \in audit : p.seq = row.seq - 1 /\ row.prev = HashOf(p)
        \/ IsFirst(row) /\ row.seq - 1 <= watermark.through
    BY <1>5 DEF IInv, ChainInv, Linked
  <2>2. ASSUME NEW p \in audit, p.seq = row.seq - 1, row.prev = HashOf(p)
        PROVE  found = Found(p)
    BY <1>2, <2>2 DEF IInv, ChainInv, UniqueSeqs
  <2>3. ASSUME IsFirst(row) PROVE found = Missing
    BY <1>1, <1>2, <2>3 DEF IsFirst
  <2> QED BY <1>1, <1>3, <1>5, <2>1, <2>2, <2>3
<1> QED BY <1>4, <1>5 DEF found

-----------------------------------------------------------------------------
(* The verification's own steps.                                           *)

LEMMA ReadsKeep ==
    ASSUME VerifyInv, UNCHANGED <<vars, tampered>>, Seen' \subseteq Seen,
           ReaderInv', tampered = {} => ExplainedInv'
    PROVE  VerifyInv'
<1>1. [Next]_vars
  OBVIOUS
<1>2. LogInv /\ History(Seen) /\ audit \subseteq Seen
  BY DEF VerifyInv, Seen
<1>3. PICK K, L : K = Seen /\ L = Seen'
  OBVIOUS
<1>4. LogInv' /\ History(L)'
  BY <1>1, <1>2, <1>3, SystemKeepsLog
<1>5. History(Seen)'
  BY <1>3, <1>4 DEF History
<1>6. tampered = {} => IInv' /\ DatesInv'
  BY <1>1, StepKeeps, SystemKeepsDates DEF VerifyInv
<1> QED BY <1>4, <1>5, <1>6 DEF VerifyInv

LEMMA LocateKeeps ==
    ASSUME VerifyInv, NEW row \in audit, Locate(row)
    PROVE  VerifyInv'
<1> DEFINE r == [phase |-> "previous", row |-> row, previous |-> Unread,
                 superseded |-> Unread, itsPrevious |-> Unread]
<1>1. reader' = r /\ UNCHANGED <<vars, tampered>>
  BY DEF Locate
<1>2. /\ r.phase = "previous" /\ r.row = row /\ r.superseded.kind = "unread" /\ r # NoReader
      /\ r = [phase |-> r.phase, row |-> r.row, previous |-> r.previous,
              superseded |-> r.superseded, itsPrevious |-> r.itsPrevious]
  BY DEF Unread, NoReader
<1> HIDE DEF r
<1>3. ReaderInv'
  BY <1>1, <1>2 DEF ReaderInv, ReaderPhases
<1>4. ExplainedInv'
  BY <1>1, <1>2 DEF ExplainedInv
<1>5. Seen' \subseteq Seen
  BY <1>1, <1>2 DEF Seen, ReadRows, vars
<1> QED BY <1>1, <1>3, <1>4, <1>5, ReadsKeep

LEMMA IdleReader == NoReader.phase = "idle"
BY DEF NoReader

\* The row being verified, as it was read.
LEMMA ReaderFacts ==
    ASSUME VerifyInv, reader.phase \in ReaderPhases
    PROVE  /\ reader # NoReader /\ reader.row \in Seen
           /\ reader = [phase |-> reader.phase, row |-> reader.row, previous |-> reader.previous,
                        superseded |-> reader.superseded, itsPrevious |-> reader.itsPrevious]
           /\ RowOk(reader.row) /\ reader.row.seq \in Nat \ {0}
           /\ reader.superseded.kind = "found" =>
                  /\ RowOk(reader.superseded.row) /\ reader.superseded.row.seq \in Nat \ {0}
                  /\ reader.row.supersedes # Genesis
                  /\ HashOf(reader.superseded.row) = reader.row.supersedes
           /\ Types
<1>1. reader # NoReader
  BY IdleReader DEF ReaderPhases
<1>2. reader.row \in Seen
  BY <1>1 DEF Seen, ReadRows
<1>3. reader.superseded.kind = "found" => reader.superseded.row \in Seen
  BY <1>1 DEF Seen, ReadRows
<1> QED BY <1>1, <1>2, <1>3 DEF VerifyInv, ReaderInv, History, RowOk, LogInv

LEMMA ReadPreviousKeeps ==
    ASSUME VerifyInv, ReadPrevious
    PROVE  VerifyInv'
<1> DEFINE found == FindBySeq(reader.row.seq - 1)
           next == IF found = Missing /\ reader.row.seq > 1 THEN "watermark" ELSE "superseded"
<1>1. /\ reader.phase = "previous" /\ UNCHANGED <<vars, tampered>>
      /\ reader' = [reader EXCEPT !.previous = found, !.phase = next]
  BY DEF ReadPrevious
<1>2. reader.phase \in ReaderPhases
  BY <1>1 DEF ReaderPhases
<1>3. reader # NoReader /\ RowOk(reader.row) /\ reader.row.seq \in Nat \ {0}
  BY <1>2, ReaderFacts
<1>4. /\ reader'.phase = next /\ reader'.row = reader.row /\ reader'.previous = found
      /\ reader'.superseded = reader.superseded
      /\ reader' = [phase |-> reader'.phase, row |-> reader'.row, previous |-> reader'.previous,
                    superseded |-> reader'.superseded, itsPrevious |-> reader'.itsPrevious]
  BY <1>1, <1>2, ReaderFacts
<1>5. /\ found = Missing \/ \E r \in audit : found = Found(r)
      /\ found.kind \in {"missing", "found"} /\ (found.kind = "missing" => found = Missing)
  BY FindBySeqFinds DEF Missing, Found
<1>6. next \in {"watermark", "superseded"}
  OBVIOUS
<1>7. reader' # NoReader
  BY <1>4, <1>6, IdleReader
<1>8. ReaderInv'
  <2>1. PICK row, answer : row = reader.row /\ answer = found
    OBVIOUS
  <2> HIDE DEF found, next
  <2>2. Answered(row, answer)'
    BY <1>5, <2>1 DEF Answered
  <2>3. Answered(reader.row, reader.previous)'
    BY <1>4, <2>1, <2>2 DEF Answered
  <2>4. next \in ReaderPhases \ {"its previous", "its watermark", "done"}
    BY <1>6 DEF ReaderPhases
  <2>5. reader.superseded.kind = "found" =>
            /\ reader.row.supersedes # Genesis
            /\ HashOf(reader.superseded.row) = reader.row.supersedes
    BY <1>2, ReaderFacts
  <2> QED BY <1>4, <2>3, <2>4, <2>5 DEF ReaderInv, HashOf, Hash
<1>9. tampered = {} => ExplainedInv'
  <2> SUFFICES ASSUME tampered = {} PROVE ExplainedInv'
    OBVIOUS
  <2>1. reader.row \in audit =>
            /\ next = "watermark" =>
                   reader.row.seq > 1 /\ IsFirst(reader.row) /\ reader.row.seq - 1 <= watermark.through
            /\ next # "watermark" =>
                   IF reader.row.seq = 1 THEN found = Missing
                   ELSE found.kind = "found" /\ HashOf(found.row) = reader.row.prev
    BY <1>3, PredecessorFound DEF VerifyInv
  <2> HIDE DEF found, next
  <2> QED BY <1>1, <1>4, <1>6, <2>1 DEF ExplainedInv, Oldest, Accounted, IsFirst, vars, HashOf, Hash
<1>10. Seen' \subseteq Seen
  BY <1>1, <1>3, <1>4, <1>7 DEF Seen, ReadRows, vars
<1> QED BY <1>1, <1>8, <1>9, <1>10, ReadsKeep

LEMMA ReadWatermarkKeeps ==
    ASSUME VerifyInv, ReadWatermark
    PROVE  VerifyInv'
<1> DEFINE answer == PrunedOrMissing(reader.row.seq - 1)
<1>1. /\ reader.phase = "watermark" /\ UNCHANGED <<vars, tampered>>
      /\ reader' = [reader EXCEPT !.previous = answer, !.phase = "superseded"]
  BY DEF ReadWatermark
<1>2. reader.phase \in ReaderPhases
  BY <1>1 DEF ReaderPhases
<1>3. reader # NoReader /\ RowOk(reader.row) /\ reader.row.seq \in Nat \ {0} /\ Types
  BY <1>2, ReaderFacts
<1>4. /\ reader'.phase = "superseded" /\ reader'.row = reader.row /\ reader'.previous = answer
      /\ reader'.superseded = reader.superseded
      /\ reader' = [phase |-> reader'.phase, row |-> reader'.row, previous |-> reader'.previous,
                    superseded |-> reader'.superseded, itsPrevious |-> reader'.itsPrevious]
  BY <1>1, <1>2, ReaderFacts
<1>5. /\ Answered(reader.row, answer)
      /\ reader.row.seq > 1 /\ reader.row.seq - 1 <= watermark.through =>
             answer = PrunedMarker(watermark.before)
  BY <1>3, PrunedOrMissingAnswers
<1> HIDE DEF answer
<1>6. reader' # NoReader
  BY <1>4, IdleReader
<1>7. ReaderInv'
  <2>1. Answered(reader.row, reader.previous)'
    BY <1>1, <1>4, <1>5 DEF Answered, vars
  <2>2. reader.superseded.kind = "found" =>
            /\ reader.row.supersedes # Genesis
            /\ HashOf(reader.superseded.row) = reader.row.supersedes
    BY <1>2, ReaderFacts
  <2> QED BY <1>4, <2>1, <2>2 DEF ReaderInv, ReaderPhases, HashOf, Hash
<1>8. tampered = {} => ExplainedInv'
  <2> SUFFICES ASSUME tampered = {} PROVE ExplainedInv'
    OBVIOUS
  <2>1. Oldest(reader.row)
    BY <1>1, <1>3 DEF VerifyInv, ExplainedInv
  <2>2. reader.row \in audit => reader.row.seq # 1 /\ answer.kind = "pruned"
    BY <1>3, <1>5, <2>1 DEF Oldest, PrunedMarker
  <2> QED BY <1>1, <1>4, <2>2 DEF ExplainedInv, Accounted, vars
<1>9. Seen' \subseteq Seen
  BY <1>1, <1>3, <1>4, <1>6 DEF Seen, ReadRows, vars
<1> QED BY <1>1, <1>7, <1>8, <1>9, ReadsKeep

LEMMA ReadSupersededKeeps ==
    ASSUME VerifyInv, ReadSuperseded
    PROVE  VerifyInv'
<1> DEFINE found == IF reader.row.supersedes = Genesis THEN Unread
                    ELSE FindByHash(reader.row.supersedes)
           next == IF found.kind = "found" THEN "its previous" ELSE "done"
<1>1. /\ reader.phase = "superseded" /\ UNCHANGED <<vars, tampered>>
      /\ reader' = [reader EXCEPT !.superseded = found, !.phase = next]
  BY DEF ReadSuperseded
<1>2. reader.phase \in ReaderPhases
  BY <1>1 DEF ReaderPhases
<1>3. reader # NoReader
  BY <1>2, ReaderFacts
<1>4. /\ reader'.phase = next /\ reader'.row = reader.row /\ reader'.superseded = found
      /\ reader'.previous = reader.previous
      /\ reader' = [phase |-> reader'.phase, row |-> reader'.row, previous |-> reader'.previous,
                    superseded |-> reader'.superseded, itsPrevious |-> reader'.itsPrevious]
  BY <1>1, <1>2, ReaderFacts
<1>5. \/ reader.row.supersedes = Genesis /\ found.kind = "unread"
      \/ reader.row.supersedes # Genesis /\ found = Missing /\ found.kind = "missing"
      \/ /\ reader.row.supersedes # Genesis /\ found.kind = "found"
         /\ found.row \in audit /\ HashOf(found.row) = reader.row.supersedes
  <2>1. PICK f : f = FindByHash(reader.row.supersedes)
    OBVIOUS
  <2>2. f = Missing \/ \E r \in audit : HashOf(r) = reader.row.supersedes /\ f = Found(r)
    BY <2>1, FindByHashFinds
  <2>3. found = IF reader.row.supersedes = Genesis THEN Unread ELSE f
    BY <2>1
  <2> HIDE DEF found
  <2> QED BY <2>2, <2>3 DEF Missing, Found, Unread
<1>6. next = IF found.kind = "found" THEN "its previous" ELSE "done"
  OBVIOUS
<1> HIDE DEF found, next
<1>7. reader' # NoReader
  BY <1>4, <1>6, IdleReader
<1>8. ReaderInv'
  <2>1. Answered(reader.row, reader.previous)'
    BY <1>1, <1>3, <1>4 DEF VerifyInv, ReaderInv, Answered, vars
  <2>2. PICK f : f = found
    OBVIOUS
  <2>3. f.kind = "found" => (HashOf(f.row) = reader.row.supersedes)'
    BY <1>4, <1>5, <2>2 DEF HashOf, Hash
  <2> QED BY <1>4, <1>5, <1>6, <2>1, <2>2, <2>3 DEF ReaderInv, ReaderPhases, HashOf, Hash
<1>9. tampered = {} => ExplainedInv'
  <2> SUFFICES ASSUME tampered = {} PROVE ExplainedInv'
    OBVIOUS
  <2>1. Accounted(reader.row, reader.previous)
    BY <1>1, <1>3 DEF VerifyInv, ExplainedInv
  <2>2. Accounted(reader.row, reader.previous)'
    BY <1>1, <1>4, <2>1 DEF Accounted, vars, HashOf, Hash
  <2> QED BY <1>4, <1>6, <2>2 DEF ExplainedInv
<1>10. Seen' \subseteq Seen
  BY <1>1, <1>3, <1>4, <1>5, <1>7 DEF Seen, ReadRows, vars
<1> QED BY <1>1, <1>8, <1>9, <1>10, ReadsKeep

LEMMA ReadItsPreviousKeeps ==
    ASSUME VerifyInv, ReadItsPrevious
    PROVE  VerifyInv'
<1> DEFINE row == reader.superseded.row
           found == FindBySeq(row.seq - 1)
           next == IF found = Missing /\ row.seq > 1 THEN "its watermark" ELSE "done"
<1>1. /\ reader.phase = "its previous" /\ UNCHANGED <<vars, tampered>>
      /\ reader' = [reader EXCEPT !.itsPrevious = found, !.phase = next]
  BY DEF ReadItsPrevious
<1>2. reader.phase \in ReaderPhases
  BY <1>1 DEF ReaderPhases
<1>3. reader # NoReader /\ reader.superseded.kind = "found"
  BY <1>1, <1>2, ReaderFacts DEF VerifyInv, ReaderInv
<1>4. RowOk(row) /\ row.seq \in Nat \ {0}
  BY <1>2, <1>3, ReaderFacts
<1>5. /\ reader'.phase = next /\ reader'.row = reader.row /\ reader'.itsPrevious = found
      /\ reader'.superseded = reader.superseded /\ reader'.previous = reader.previous
      /\ reader' = [phase |-> reader'.phase, row |-> reader'.row, previous |-> reader'.previous,
                    superseded |-> reader'.superseded, itsPrevious |-> reader'.itsPrevious]
  BY <1>1, <1>2, ReaderFacts
<1>6. found.kind \in {"missing", "found"} /\ (found.kind = "missing" => found = Missing)
  BY FindBySeqFinds DEF Missing, Found
<1>7. next \in {"its watermark", "done"}
  OBVIOUS
<1>8. reader' # NoReader
  BY <1>5, <1>7, IdleReader
<1>9. ReaderInv'
  <2>1. Answered(reader.row, reader.previous)'
    BY <1>1, <1>3, <1>5 DEF VerifyInv, ReaderInv, Answered, vars
  <2>2. PICK f : f = found
    OBVIOUS
  <2> HIDE DEF found, next
  <2>3. Answered(reader.superseded.row, reader.itsPrevious)'
    BY <1>5, <1>6 DEF Answered
  <2>4. /\ reader.row.supersedes # Genesis
        /\ HashOf(reader.superseded.row) = reader.row.supersedes
    BY <1>2, <1>3, ReaderFacts
  <2> QED BY <1>3, <1>5, <1>7, <2>1, <2>3, <2>4 DEF ReaderInv, ReaderPhases, HashOf, Hash
<1>10. tampered = {} => ExplainedInv'
  <2> SUFFICES ASSUME tampered = {} PROVE ExplainedInv'
    OBVIOUS
  <2>1. Accounted(reader.row, reader.previous)
    BY <1>1, <1>3 DEF VerifyInv, ExplainedInv
  <2>2. Accounted(reader.row, reader.previous)'
    BY <1>1, <1>5, <2>1 DEF Accounted, vars, HashOf, Hash
  <2>3. row \in audit =>
            /\ next = "its watermark" =>
                   row.seq > 1 /\ IsFirst(row) /\ row.seq - 1 <= watermark.through
            /\ next # "its watermark" =>
                   IF row.seq = 1 THEN found = Missing
                   ELSE found.kind = "found" /\ HashOf(found.row) = row.prev
    BY <1>4, PredecessorFound DEF VerifyInv
  <2> HIDE DEF found, next
  <2>4. next = "its watermark" => Oldest(reader.superseded.row)'
    BY <1>1, <1>5, <2>3 DEF Oldest, IsFirst, vars
  <2>5. next = "done" => Accounted(reader.superseded.row, reader.itsPrevious)'
    BY <1>1, <1>5, <2>3 DEF Accounted, vars, HashOf, Hash
  <2>6. (reader'.itsPrevious).kind # "pruned"
    BY <1>5, <1>6
  <2> QED BY <1>5, <1>7, <2>2, <2>4, <2>5, <2>6 DEF ExplainedInv
<1>11. Seen' \subseteq Seen
  BY <1>1, <1>3, <1>5, <1>8 DEF Seen, ReadRows, vars
<1> QED BY <1>1, <1>9, <1>10, <1>11, ReadsKeep

\* Only what was recorded is superseded.
LEMMA SupersedesRecorded ==
    ASSUME NEW row, VersionOk(row), row.supersedes # Genesis,
           NEW old, VersionOk(old), HashOf(old) = row.supersedes
    PROVE  old.id = row.id /\ old.supersedes = Genesis
<1>1. HashOf(old) = Hash(row.id, 1)
  BY DEF VersionOk
<1>2. old.id = row.id /\ old.version = 1
  BY <1>1 DEF HashOf, Hash
<1> QED BY <1>2 DEF VersionOk

LEMMA ReadItsWatermarkKeeps ==
    ASSUME VerifyInv, ReadItsWatermark
    PROVE  VerifyInv'
<1> DEFINE row == reader.superseded.row
           answer == PrunedOrMissing(row.seq - 1)
<1>1. /\ reader.phase = "its watermark" /\ UNCHANGED <<vars, tampered>>
      /\ reader' = [reader EXCEPT !.itsPrevious = answer, !.phase = "done"]
  BY DEF ReadItsWatermark
<1>2. reader.phase \in ReaderPhases
  BY <1>1 DEF ReaderPhases
<1>3. reader # NoReader /\ reader.superseded.kind = "found"
  BY <1>1, <1>2, ReaderFacts DEF VerifyInv, ReaderInv
<1>4. RowOk(row) /\ row.seq \in Nat \ {0} /\ RowOk(reader.row) /\ Types
  BY <1>2, <1>3, ReaderFacts
<1>5. /\ reader'.phase = "done" /\ reader'.row = reader.row /\ reader'.itsPrevious = answer
      /\ reader'.superseded = reader.superseded /\ reader'.previous = reader.previous
      /\ reader' = [phase |-> reader'.phase, row |-> reader'.row, previous |-> reader'.previous,
                    superseded |-> reader'.superseded, itsPrevious |-> reader'.itsPrevious]
  BY <1>1, <1>2, ReaderFacts
<1>6. /\ Answered(row, answer)
      /\ row.seq > 1 /\ row.seq - 1 <= watermark.through =>
             answer = PrunedMarker(watermark.before)
  BY <1>4, PrunedOrMissingAnswers
<1> HIDE DEF answer
<1>7. reader' # NoReader
  BY <1>5, IdleReader
<1>8. ReaderInv'
  <2>1. Answered(reader.row, reader.previous)'
    BY <1>1, <1>3, <1>5 DEF VerifyInv, ReaderInv, Answered, vars
  <2>2. Answered(reader.superseded.row, reader.itsPrevious)'
    BY <1>1, <1>5, <1>6 DEF Answered, vars
  <2>3. /\ reader.row.supersedes # Genesis
        /\ HashOf(reader.superseded.row) = reader.row.supersedes
    BY <1>2, <1>3, ReaderFacts
  <2> QED BY <1>3, <1>5, <2>1, <2>2, <2>3 DEF ReaderInv, ReaderPhases, HashOf, Hash
<1>9. tampered = {} => ExplainedInv'
  <2> SUFFICES ASSUME tampered = {} PROVE ExplainedInv'
    OBVIOUS
  <2>1. Accounted(reader.row, reader.previous) /\ Oldest(row) /\ Pinned /\ Timely
    BY <1>1, <1>3 DEF VerifyInv, ExplainedInv, DatesInv
  <2>2. Accounted(reader.row, reader.previous)'
    BY <1>1, <1>5, <2>1 DEF Accounted, vars, HashOf, Hash
  <2>3. row.supersedes = Genesis
    BY <1>2, <1>3, <1>4, SupersedesRecorded, ReaderFacts DEF RowOk
  <2>4. ASSUME row \in audit
        PROVE  answer.kind = "pruned" /\ answer.cutoff = watermark.before /\ row.seq # 1
               /\ row.ts >= watermark.before
    <3>1. answer = PrunedMarker(watermark.before) /\ row.seq # 1 /\ IsFirst(row)
      BY <1>4, <1>6, <2>1, <2>4 DEF Oldest
    <3>2. ~(row.ts < watermark.before)
      <4>1. \A q \in audit : q.seq \in Nat /\ row.seq <= q.seq
        BY <1>4, <3>1 DEF IsFirst, Types
      <4> QED BY <1>4, <2>1, <2>3, <2>4, <4>1 DEF Pinned
    <3>3. row.ts \in Int /\ watermark.before \in Int
      BY <1>4, <2>1, <2>4 DEF Timely, Types
    <3> QED BY <3>1, <3>2, <3>3 DEF PrunedMarker
  <2>5. Accounted(reader.superseded.row, reader.itsPrevious)'
    BY <1>1, <1>5, <2>4 DEF Accounted, vars
  <2>6. (reader'.superseded).row \in audit' =>
            (reader'.superseded).row.ts >= (reader'.itsPrevious).cutoff
    BY <1>1, <1>5, <2>4 DEF vars
  <2> QED BY <1>5, <2>2, <2>5, <2>6 DEF ExplainedInv
<1>10. Seen' \subseteq Seen
  BY <1>1, <1>3, <1>5, <1>7 DEF Seen, ReadRows, vars
<1> QED BY <1>1, <1>8, <1>9, <1>10, ReadsKeep

-----------------------------------------------------------------------------
(* All steps together.                                                     *)

LEMMA SystemKeeps ==
    ASSUME VerifyInv, [Next]_vars, UNCHANGED <<reader, tampered>>
    PROVE  VerifyInv'
<1>1. LogInv /\ History(Seen) /\ audit \subseteq Seen /\ Types
  BY DEF VerifyInv, Seen, LogInv
<1>2. PICK K, L : K = Seen /\ L = Seen'
  OBVIOUS
<1>3. L \subseteq K \cup audit'
  BY <1>2 DEF Seen, ReadRows
<1>4. LogInv' /\ History(L)'
  BY <1>1, <1>2, <1>3, SystemKeepsLog
<1>5. History(Seen)'
  BY <1>2, <1>4 DEF History
<1>6. tampered = {} => IInv' /\ DatesInv'
  BY StepKeeps, SystemKeepsDates DEF VerifyInv
<1>7. /\ watermark.through <= watermark'.through
      /\ watermark.through \in Nat /\ watermark'.through \in Nat
  BY <1>1, StepRows
<1>8. \A row \in K : RowOk(row) /\ row.seq \in Nat \ {0} /\ (row \in audit' => row \in audit)
  BY <1>1, <1>2, NoReturn DEF History, RowOk
<1>9. ASSUME NEW row \in K, NEW answer, Answered(row, answer) PROVE Answered(row, answer)'
  BY <1>7, <1>8, <1>9 DEF Answered
<1>10. ASSUME NEW row \in K, NEW answer, Accounted(row, answer) PROVE Accounted(row, answer)'
  BY <1>8, <1>10 DEF Accounted, HashOf, Hash
<1>11. ASSUME tampered = {}, NEW row \in K, Oldest(row) PROVE Oldest(row)'
  <2> SUFFICES ASSUME row \in audit'
               PROVE  /\ row.seq > 1 /\ row.seq - 1 <= watermark'.through
                      /\ \A s \in audit' : row.seq <= s.seq
    BY DEF Oldest, IsFirst
  <2>1. row \in audit /\ row.seq > 1 /\ IsFirst(row) /\ row.seq - 1 <= watermark.through
        /\ row.seq \in Nat
    BY <1>8, <1>11 DEF Oldest
  <2>2. \A s \in audit' : row.seq <= s.seq
    BY <1>11, <2>1, StaysOldest DEF VerifyInv
  <2> QED BY <1>7, <2>1, <2>2
<1>12. reader # NoReader => /\ reader.row \in K
                            /\ reader.superseded.kind = "found" => reader.superseded.row \in K
  BY <1>2 DEF Seen, ReadRows
<1>13. ReaderInv'
  <2> SUFFICES ASSUME reader # NoReader PROVE ReaderInv'
    BY DEF ReaderInv
  <2>1. PICK r : r = reader
    OBVIOUS
  <2>2. r.phase # "previous" => Answered(r.row, r.previous)'
    BY <1>9, <1>12, <2>1 DEF VerifyInv, ReaderInv
  <2>3. r.phase = "done" =>
            \/ r.row.supersedes = Genesis
            \/ r.superseded = Missing
            \/ r.superseded.kind = "found" /\ Answered(r.superseded.row, r.itsPrevious)'
    BY <1>9, <1>12, <2>1 DEF VerifyInv, ReaderInv
  <2>4. /\ r = [phase |-> r.phase, row |-> r.row, previous |-> r.previous,
                superseded |-> r.superseded, itsPrevious |-> r.itsPrevious]
        /\ r.phase \in ReaderPhases
        /\ r.superseded.kind = "found" =>
               r.row.supersedes # Genesis /\ HashOf(r.superseded.row) = r.row.supersedes
        /\ r.phase \in {"its previous", "its watermark"} => r.superseded.kind = "found"
    BY <2>1 DEF VerifyInv, ReaderInv
  <2>5. reader' = r
    BY <2>1
  <2> QED BY <2>2, <2>3, <2>4, <2>5 DEF ReaderInv, HashOf, Hash
<1>14. tampered = {} => ExplainedInv'
  <2> SUFFICES ASSUME tampered = {}, reader # NoReader PROVE ExplainedInv'
    BY DEF ExplainedInv
  <2>1. PICK r : r = reader
    OBVIOUS
  <2>2. /\ r.phase = "watermark" => Oldest(r.row)'
        /\ r.phase \in ReaderPhases \ {"previous", "watermark"} => Accounted(r.row, r.previous)'
    BY <1>10, <1>11, <1>12, <2>1 DEF VerifyInv, ExplainedInv
  <2>3. r.phase = "its watermark" => Oldest(r.superseded.row)'
    BY <1>11, <1>12, <2>1 DEF VerifyInv, ExplainedInv, ReaderInv
  <2>4. r.phase = "done" /\ r.superseded.kind = "found" =>
            /\ Accounted(r.superseded.row, r.itsPrevious)'
            /\ r.superseded.row \in audit' /\ r.itsPrevious.kind = "pruned" =>
                   r.superseded.row.ts >= r.itsPrevious.cutoff
    BY <1>8, <1>10, <1>12, <2>1 DEF VerifyInv, ExplainedInv
  <2>5. reader' = r /\ r.phase \in ReaderPhases
    BY <2>1 DEF VerifyInv, ReaderInv
  <2> QED BY <2>2, <2>3, <2>4, <2>5 DEF ExplainedInv
<1> QED BY <1>4, <1>5, <1>6, <1>13, <1>14 DEF VerifyInv

\* Somebody else deletes a row: nothing is promised of the chain any more.
LEMMA TamperKeeps ==
    ASSUME VerifyInv, Tamper
    PROVE  VerifyInv'
<1>1. PICK gone \in audit : /\ audit' = audit \ {gone} /\ latest' = latest \ {HashOf(gone)}
                            /\ tampered' = {gone}
  BY DEF Tamper
<1>2. UNCHANGED <<watermark, tx, job, used, today, reader>>
  BY DEF Tamper
<1>3. LogInv /\ History(Seen) /\ ReaderInv
  BY DEF VerifyInv
<1>4. PICK K, L : K = Seen /\ L = Seen'
  OBVIOUS
<1>5. L \subseteq K
  BY <1>1, <1>2, <1>4 DEF Seen, ReadRows
<1>6. Types'
  BY <1>1, <1>2, <1>3 DEF LogInv, Types
<1>7. LogInv' /\ History(L)'
  BY <1>1, <1>2, <1>3, <1>4, <1>5, <1>6, ShrinkKeepsLog
<1>8. History(Seen)'
  BY <1>4, <1>7 DEF History
<1>9. ReaderInv'
  BY <1>2, <1>3 DEF ReaderInv, Answered, HashOf, Hash
<1> QED BY <1>1, <1>7, <1>8, <1>9 DEF VerifyInv

LEMMA VerifyInitHolds == VerifyInit => VerifyInv
<1> SUFFICES ASSUME VerifyInit PROVE VerifyInv
  OBVIOUS
<1>1. Init /\ reader = NoReader /\ tampered = {} /\ audit = {} /\ latest = {} /\ tx = NoTx
  BY DEF VerifyInit, Init
<1>2. IInv
  BY <1>1, InitHolds
<1>3. 0 \in Nat /\ Bounded
  BY <1>1 DEF Bounded
<1>4. LogInv /\ History(Seen)
  BY <1>1, <1>2, <1>3 DEF LogInv, IInv, WriterInv, History, Seen, ReadRows
<1>5. DatesInv
  <2>1. /\ watermark.before = -1 /\ today = 0
        /\ \A j \in Jobs : job[j].phase = "idle"
    BY <1>1 DEF Init, NoWatermark, IdleJob
  <2> QED BY <1>1, <2>1 DEF DatesInv, Timely, Pinned
<1> QED BY <1>1, <1>2, <1>4, <1>5 DEF VerifyInv, ReaderInv, ExplainedInv

LEMMA VerifyStepKeeps == VerifyInv /\ [System \/ Verify \/ Tamper]_allVars => VerifyInv'
<1>1. ASSUME VerifyInv, System PROVE VerifyInv'
  BY <1>1, SystemKeeps DEF System
<1>2. ASSUME VerifyInv, Verify PROVE VerifyInv'
  BY <1>2, LocateKeeps, ReadPreviousKeeps, ReadWatermarkKeeps, ReadSupersededKeeps,
     ReadItsPreviousKeeps, ReadItsWatermarkKeeps DEF Verify
<1>3. ASSUME VerifyInv, UNCHANGED allVars PROVE VerifyInv'
  BY <1>3, SystemKeeps DEF allVars
<1> QED BY <1>1, <1>2, <1>3, TamperKeeps

-----------------------------------------------------------------------------
(* What the checks say.                                                    *)

\* A row at position 1 is chained to genesis, and no other is.
LEMMA GenesisIsFirst ==
    ASSUME NEW row, RowOk(row)
    PROVE  row.prev = Genesis <=> row.seq = 1
<1>1. row.seq \in Nat \ {0} /\ LinkTo(row.seq - 1, row.prev)
  BY DEF RowOk
<1>2. Genesis.version = 0
  BY DEF Genesis
<1> QED BY <1>1, <1>2 DEF LinkTo

\* An answer that explains a row passes its check, but for the age of a marker.
LEMMA AccountedIsGood ==
    ASSUME NEW row \in audit, RowOk(row), NEW answer, Accounted(row, answer)
    PROVE  /\ ChainDetail(row, answer) \in {"genesis", "linked", "pruned", "pruned_before_cutoff"}
           /\ (answer.kind = "pruned" => row.ts >= answer.cutoff) => ChainOk(row, answer)
<1>1. row.prev = Genesis <=> row.seq = 1
  BY GenesisIsFirst
<1>2. CASE row.seq = 1
  <2>1. ChainDetail(row, answer) = "genesis"
    BY <1>1, <1>2 DEF Accounted, ChainDetail
  <2> QED BY <2>1 DEF ChainOk
<1>3. CASE row.seq # 1 /\ answer.kind = "found" /\ HashOf(answer.row) = row.prev
  <2>1. ChainDetail(row, answer) = "linked"
    BY <1>1, <1>3 DEF ChainDetail
  <2> QED BY <2>1 DEF ChainOk
<1>4. CASE row.seq # 1 /\ answer.kind = "pruned"
  <2>1. ChainDetail(row, answer) =
            IF row.ts >= answer.cutoff THEN "pruned" ELSE "pruned_before_cutoff"
    BY <1>1, <1>4 DEF ChainDetail
  <2> QED BY <1>4, <2>1 DEF ChainOk
<1> QED BY <1>2, <1>3, <1>4 DEF Accounted

\* audit-api: whatever the job deletes between two reads, a record that is
\* still there is never said to be cut off or forged, nor the version its
\* attestation supersedes.
THEOREM PruningExplained == TamperedSpec => []PruningIsExplained
<1>1. VerifyInv => PruningIsExplained
  <2> SUFFICES ASSUME VerifyInv, tampered = {}, Done
               PROVE  /\ reader.row \in audit =>
                             Chain \in {"genesis", "linked", "pruned", "pruned_before_cutoff"}
                      /\ Supersedes = "superseded_invalid" => reader.superseded.row \notin audit
    BY DEF PruningIsExplained
  <2>1. reader.phase \in ReaderPhases /\ reader.phase = "done"
    BY DEF Done, ReaderPhases
  <2>2. /\ reader # NoReader /\ RowOk(reader.row)
        /\ reader.superseded.kind = "found" => RowOk(reader.superseded.row)
    BY <2>1, ReaderFacts
  <2>3. Accounted(reader.row, reader.previous)
    BY <2>1, <2>2 DEF VerifyInv, ExplainedInv
  <2>4. ASSUME Supersedes = "superseded_invalid", reader.superseded.row \in audit PROVE FALSE
    <3>1. reader.row.supersedes # Genesis /\ reader.superseded # Missing
      BY <2>4 DEF Supersedes, SupersedesDetail
    <3>2. reader.superseded.kind = "found"
      BY <2>1, <2>2, <3>1 DEF VerifyInv, ReaderInv
    <3>3. /\ HashOf(reader.superseded.row) = reader.row.supersedes
          /\ VersionOk(reader.row) /\ VersionOk(reader.superseded.row)
      BY <2>1, <2>2, <3>2, ReaderFacts DEF RowOk
    <3>4. /\ reader.superseded.row.id = reader.row.id
          /\ reader.superseded.row.supersedes = Genesis
      BY <3>1, <3>3, SupersedesRecorded
    <3>5. /\ Accounted(reader.superseded.row, reader.itsPrevious)
          /\ reader.itsPrevious.kind = "pruned" =>
                 reader.superseded.row.ts >= reader.itsPrevious.cutoff
      BY <2>1, <2>2, <2>4, <3>2 DEF VerifyInv, ExplainedInv
    <3>6. ChainOk(reader.superseded.row, reader.itsPrevious)
      BY <2>2, <2>4, <3>2, <3>5, AccountedIsGood
    <3>7. Supersedes = "superseded_verified"
      BY <3>1, <3>4, <3>6 DEF Supersedes, SupersedesDetail
    <3> QED BY <2>4, <3>7
  <2> QED BY <2>2, <2>3, <2>4, AccountedIsGood DEF Chain
<1> QED BY <1>1, VerifyInitHolds, VerifyStepKeeps, PTL DEF TamperedSpec

\* core's checkChain: the successor of a row deleted behind the gateway's back
\* does not verify unless the job had pruned up to that row itself.
THEOREM TamperingShows == TamperedSpec => []TamperingDetected
<1>1. VerifyInv => TamperingDetected
  <2> SUFFICES ASSUME VerifyInv, Done, NEW gone \in tampered,
                      reader.row.prev = HashOf(gone), reader.previous.kind # "found",
                      gone.seq > watermark.through
               PROVE  ~ChainOk(reader.row, reader.previous)
    BY DEF TamperingDetected
  <2>1. reader.phase \in ReaderPhases /\ reader.phase = "done"
    BY DEF Done, ReaderPhases
  <2>2. /\ reader # NoReader /\ reader.row \in Seen /\ RowOk(reader.row) /\ Types
        /\ gone \in Seen
    BY <2>1, ReaderFacts DEF Seen
  <2>3. reader.row.seq = gone.seq + 1 /\ RowOk(gone)
    BY <2>2 DEF VerifyInv, History
  <2>4. gone.seq \in Nat \ {0} /\ gone.version # 0 /\ watermark.through \in Nat
    BY <2>2, <2>3 DEF RowOk, VersionOk, Types
  <2>5. reader.row.prev # Genesis
    BY <2>4 DEF HashOf, Hash, Genesis
  <2>6. Answered(reader.row, reader.previous)
    BY <2>1, <2>2 DEF VerifyInv, ReaderInv
  <2>7. reader.previous.kind = "missing"
    BY <2>3, <2>4, <2>6 DEF Answered
  <2>8. ChainDetail(reader.row, reader.previous) = "previous_missing"
    BY <2>5, <2>7 DEF ChainDetail
  <2> QED BY <2>8 DEF ChainOk
<1> QED BY <1>1, VerifyInitHolds, VerifyStepKeeps, PTL DEF TamperedSpec

-----------------------------------------------------------------------------
(* Reports.                                                                *)

\* A collection step reads the log and leaves it alone.
LEMMA CollectKeepsLog ==
    ASSUME ReportInv, UNCHANGED allVars, Pool' \subseteq Pool
    PROVE  /\ IInv' /\ LogInv' /\ History(Pool)'
           /\ used' \subseteq TurnIds
<1>1. [Next]_vars /\ UNCHANGED vars
  BY DEF allVars
<1>2. LogInv /\ History(Pool) /\ audit \subseteq Pool /\ used \subseteq TurnIds
  BY DEF ReportInv, Pool
<1>3. PICK K, L : K = Pool /\ L = Pool'
  OBVIOUS
<1>4. LogInv' /\ History(L)'
  BY <1>1, <1>2, <1>3, SystemKeepsLog
<1>5. History(Pool)'
  BY <1>3, <1>4 DEF History
<1> QED BY <1>1, <1>2, <1>4, <1>5, StepKeeps DEF ReportInv, vars

\* Fewer rows, fewer that are named.
LEMMA NamedShrinks ==
    ASSUME Queried, NamedInv, Queried', Reported' = Reported, Pool' \subseteq Pool
    PROVE  NamedInv'
<1>1. PICK K, L, R : K = Pool /\ L = Pool' /\ R = Reported
  OBVIOUS
<1>2. \A a \in Named(L)' : a \in Named(K)
  BY <1>1 DEF Named, HashOf, Hash
<1>3. \A a, b \in Named(K) : a.seq = b.seq => a = b
  BY <1>1 DEF NamedInv
<1>4. \A a, b \in Named(L)' : a.seq = b.seq => a = b
  BY <1>2, <1>3
<1>5. Named(Pool)' = Named(L)'
  BY <1>1 DEF Named, HashOf, Hash
<1> QED BY <1>4, <1>5 DEF NamedInv

\* The query takes rows that stand together.
LEMMA ReportRecordsKeeps ==
    ASSUME ReportInv, ReportRecords
    PROVE  ReportInv'
<1>1. PICK kept \in OldestOf(InRange) :
          collection' = [collection EXCEPT !.rows = [kind |-> "rows", set |-> kept]]
  BY DEF ReportRecords
<1>2. UNCHANGED allVars /\ collection.rows = Nothing
  BY DEF ReportRecords
<1>3. kept \subseteq audit
  BY DEF OldestOf, InRange
<1>4. collection = [rows |-> collection.rows, bySeq |-> collection.bySeq,
                    byHash |-> collection.byHash, mark |-> collection.mark]
  BY DEF ReportInv, CollectionInv
<1>5. /\ (collection'.rows).set = kept /\ collection'.rows # Nothing
      /\ collection'.bySeq = collection.bySeq /\ collection'.byHash = collection.byHash
      /\ collection' = [rows |-> collection'.rows, bySeq |-> collection'.bySeq,
                        byHash |-> collection'.byHash, mark |-> collection'.mark]
  BY <1>1, <1>4 DEF Nothing
<1>6. /\ Answers = {} /\ Superseded = {}
      /\ \A i \in TurnIds : collection.byHash[i] \in {Unread, Missing}
  <2>1. Answers = {} /\ Superseded = {}
    BY <1>2 DEF ReportInv, CollectionInv, Queried
  <2>2. \A i \in TurnIds : collection.byHash[i].kind # "found"
    BY <2>1 DEF Superseded
  <2>3. \A r : Found(r).kind = "found"
    BY DEF Found
  <2>4. \A i \in TurnIds : \/ collection.byHash[i] \in {Unread, Missing}
                            \/ collection.byHash[i] = Found(collection.byHash[i].row)
    BY DEF ReportInv, CollectionInv
  <2>5. \A i \in TurnIds : collection.byHash[i] \in {Unread, Missing}
    BY <2>2, <2>3, <2>4
  <2> QED BY <2>1, <2>5
<1>7. Answers' = {} /\ Superseded' = {} /\ Reported' = kept /\ Queried'
  BY <1>5, <1>6 DEF Answers, Superseded, Reported, Queried
<1>8. Pool' = audit
  BY <1>2, <1>3, <1>7 DEF Pool, Held, Queried, allVars, vars
<1>9. CollectionInv'
  BY <1>5, <1>6, <1>7 DEF ReportInv, CollectionInv
<1>10. PredecessorsInv'
  BY <1>7 DEF PredecessorsInv
<1>11. NamedInv'
  <2>1. Named(Pool)' \subseteq audit
    BY <1>8 DEF Named
  <2>2. \A a, b \in audit : a.seq = b.seq => a = b
    BY DEF ReportInv, IInv, ChainInv, UniqueSeqs
  <2> QED BY <2>1, <2>2 DEF NamedInv
<1> QED BY <1>2, <1>8, <1>9, <1>10, <1>11, CollectKeepsLog DEF ReportInv, Pool

\* A position is looked up once: what is found links, what is not was pruned.
LEMMA ReadSeqKeeps ==
    ASSUME ReportInv, Queried, NEW n \in Wanted, ReadSeq(n)
    PROVE  ReportInv'
<1>1. PICK found : found = FindBySeq(n)
  OBVIOUS
<1>2. PICK K : K = Answers
  OBVIOUS
<1>3. /\ n \notin K /\ UNCHANGED allVars
      /\ collection' = [collection EXCEPT !.bySeq =
             [m \in K \cup {n} |-> IF m = n THEN found ELSE collection.bySeq[m]]]
  BY <1>1, <1>2 DEF ReadSeq
<1>4. collection = [rows |-> collection.rows, bySeq |-> collection.bySeq,
                    byHash |-> collection.byHash, mark |-> collection.mark]
  BY DEF ReportInv, CollectionInv
<1>5. /\ collection'.rows = collection.rows /\ collection'.byHash = collection.byHash
      /\ collection'.bySeq = [m \in K \cup {n} |-> IF m = n THEN found ELSE collection.bySeq[m]]
      /\ collection' = [rows |-> collection'.rows, bySeq |-> collection'.bySeq,
                        byHash |-> collection'.byHash, mark |-> collection'.mark]
  BY <1>3, <1>4
<1>6. \/ found = Missing
      \/ \E r \in audit : r.seq = n /\ found = Found(r) /\ found.kind = "found" /\ found.row = r
  BY <1>1, FindBySeqFinds DEF Found
<1>7. /\ Answers' = K \cup {n} /\ collection'.bySeq[n] = found
      /\ \A m \in K : collection'.bySeq[m] = collection.bySeq[m]
  BY <1>3, <1>5 DEF Answers
<1>8. /\ Queried' /\ Reported' = Reported /\ Superseded' = Superseded
  BY <1>5 DEF Queried, Reported, Superseded
<1>9. Missing.kind # "found"
  BY DEF Missing
<1>10. Pool' \subseteq Pool
  <2> SUFFICES ASSUME NEW a \in Pool' PROVE a \in Pool
    OBVIOUS
  <2>1. audit' = audit
    BY <1>3 DEF allVars, vars
  <2>2. CASE a \in audit'
    BY <2>1, <2>2 DEF Pool
  <2>3. CASE a \in Held'
    <3>1. \/ a \in Reported
          \/ \E m \in K \cup {n} : (collection'.bySeq[m]).kind = "found" /\ a = (collection'.bySeq[m]).row
          \/ \E i \in Superseded : a = collection.byHash[i].row
      BY <1>5, <1>7, <1>8, <2>3 DEF Held
    <3>2. CASE \E m \in K \cup {n} : (collection'.bySeq[m]).kind = "found" /\ a = (collection'.bySeq[m]).row
      BY <1>2, <1>6, <1>7, <1>9, <3>2 DEF Pool, Held, Queried
    <3> QED BY <3>1, <3>2 DEF Pool, Held, Queried
  <2> QED BY <2>2, <2>3 DEF Pool
<1>11. CollectionInv'
  <2>1. collection'.bySeq = [m \in Answers' |-> collection'.bySeq[m]]
    BY <1>5, <1>7
  <2>2. \A m \in K \cup {n} : \/ collection'.bySeq[m] = Missing
                              \/ /\ collection'.bySeq[m] = Found((collection'.bySeq[m]).row)
                                 /\ (collection'.bySeq[m]).row.seq = m
    BY <1>2, <1>6, <1>7 DEF ReportInv, CollectionInv
  <2>3. \A i \in TurnIds : \/ collection'.byHash[i] \in {Unread, Missing}
                           \/ /\ collection'.byHash[i] = Found((collection'.byHash[i]).row)
                              /\ HashOf((collection'.byHash[i]).row) = Hash(i, 1)
                              /\ \E row \in Reported' : row.supersedes = Hash(i, 1)
    BY <1>5, <1>8 DEF ReportInv, CollectionInv
  <2>4. collection'.byHash = [i \in TurnIds |-> collection'.byHash[i]]
    BY <1>5 DEF ReportInv, CollectionInv
  <2> QED BY <1>5, <1>7, <1>8, <2>1, <2>2, <2>3, <2>4 DEF CollectionInv, HashOf, Hash, Found, Missing, Unread
<1>12. PredecessorsInv'
  <2> SUFFICES ASSUME NEW row \in Reported, row \in audit, row.seq # 1, row.seq - 1 \in K \cup {n}
               PROVE  LET answer == collection'.bySeq[row.seq - 1] IN
                      IF answer = Missing
                      THEN row.seq > 1 /\ IsFirst(row) /\ row.seq - 1 <= watermark.through
                      ELSE HashOf(answer.row) = row.prev
    BY <1>3, <1>7, <1>8 DEF PredecessorsInv, Oldest, IsFirst, allVars, vars, Missing, HashOf, Hash
  <2>1. CASE row.seq - 1 \in K
    BY <1>2, <1>7, <2>1 DEF ReportInv, PredecessorsInv, Oldest
  <2>2. CASE row.seq - 1 = n
    <3>1. RowOk(row)
      BY DEF ReportInv, History, Pool
    <3>2. /\ found # Missing => HashOf(found.row) = row.prev
          /\ found = Missing => row.seq > 1 /\ IsFirst(row) /\ row.seq - 1 <= watermark.through
      BY <1>1, <2>2, <3>1, PredecessorFound DEF ReportInv
    <3> QED BY <1>7, <2>2, <3>2
  <2> QED BY <2>1, <2>2
<1>13. NamedInv'
  BY <1>8, <1>10, NamedShrinks DEF ReportInv
<1> QED BY <1>3, <1>10, <1>11, <1>12, <1>13, CollectKeepsLog DEF ReportInv

LEMMA ReadHashKeeps ==
    ASSUME ReportInv, NEW i \in TurnIds, ReadHash(i)
    PROVE  ReportInv'
<1>1. PICK found : found = FindByHash(Hash(i, 1))
  OBVIOUS
<1>2. /\ UNCHANGED allVars /\ Queried
      /\ collection' = [collection EXCEPT !.byHash[i] = found]
      /\ \E row \in Reported : row.supersedes = Hash(i, 1)
  BY <1>1 DEF ReadHash, AskedFor
<1>3. /\ collection = [rows |-> collection.rows, bySeq |-> collection.bySeq,
                       byHash |-> collection.byHash, mark |-> collection.mark]
      /\ collection.byHash = [k \in TurnIds |-> collection.byHash[k]]
  BY DEF ReportInv, CollectionInv
<1>4. /\ collection'.rows = collection.rows /\ collection'.bySeq = collection.bySeq
      /\ collection'.byHash = [collection.byHash EXCEPT ![i] = found]
      /\ collection' = [rows |-> collection'.rows, bySeq |-> collection'.bySeq,
                        byHash |-> collection'.byHash, mark |-> collection'.mark]
  BY <1>2, <1>3
<1>5. /\ collection'.byHash = [k \in TurnIds |-> IF k = i THEN found ELSE collection.byHash[k]]
      /\ collection'.byHash[i] = found
      /\ \A k \in TurnIds \ {i} : collection'.byHash[k] = collection.byHash[k]
  BY <1>3, <1>4
<1>6. \/ found = Missing
      \/ \E r \in audit : HashOf(r) = Hash(i, 1) /\ found = Found(r)
                          /\ found.kind = "found" /\ found.row = r
  BY <1>1, FindByHashFinds DEF Found
<1>7. Missing.kind # "found"
  BY DEF Missing
<1>8. Queried' /\ Reported' = Reported /\ Answers' = Answers
  BY <1>2, <1>4 DEF Queried, Reported, Answers
<1>9. Pool' \subseteq Pool
  <2> SUFFICES ASSUME NEW a \in Pool' PROVE a \in Pool
    OBVIOUS
  <2>1. audit' = audit
    BY <1>2 DEF allVars, vars
  <2>2. CASE a \in audit'
    BY <2>1, <2>2 DEF Pool
  <2>3. CASE a \in Held'
    <3>1. \/ a \in Reported
          \/ \E m \in Answers : collection.bySeq[m].kind = "found" /\ a = collection.bySeq[m].row
          \/ \E k \in TurnIds : (collection'.byHash[k]).kind = "found" /\ a = (collection'.byHash[k]).row
      BY <1>4, <1>8, <2>3 DEF Held, Superseded
    <3>2. CASE \E k \in TurnIds : (collection'.byHash[k]).kind = "found" /\ a = (collection'.byHash[k]).row
      BY <1>2, <1>5, <1>6, <1>7, <3>2 DEF Pool, Held, Queried, Superseded
    <3> QED BY <1>2, <3>1, <3>2 DEF Pool, Held, Queried
  <2> QED BY <2>2, <2>3 DEF Pool
<1>10. CollectionInv'
  <2>1. \A k \in TurnIds : \/ collection'.byHash[k] \in {Unread, Missing}
                           \/ /\ collection'.byHash[k] = Found((collection'.byHash[k]).row)
                              /\ HashOf((collection'.byHash[k]).row) = Hash(k, 1)
                              /\ \E row \in Reported : row.supersedes = Hash(k, 1)
    BY <1>2, <1>5, <1>6 DEF ReportInv, CollectionInv
  <2>2. collection'.byHash = [k \in TurnIds |-> collection'.byHash[k]]
    BY <1>5
  <2>3. /\ collection'.bySeq = [n \in Answers' |-> collection'.bySeq[n]]
        /\ \A n \in Answers' : \/ collection'.bySeq[n] = Missing
                               \/ /\ collection'.bySeq[n] = Found((collection'.bySeq[n]).row)
                                  /\ (collection'.bySeq[n]).row.seq = n
    BY <1>4, <1>8 DEF ReportInv, CollectionInv
  <2> QED BY <1>4, <1>8, <2>1, <2>2, <2>3 DEF CollectionInv, HashOf, Hash, Found, Missing, Unread
<1>11. PredecessorsInv'
  <2> SUFFICES ASSUME NEW row \in Reported, row \in audit, row.seq # 1, row.seq - 1 \in Answers
               PROVE  LET answer == collection.bySeq[row.seq - 1] IN
                      IF answer = Missing
                      THEN row.seq > 1 /\ IsFirst(row) /\ row.seq - 1 <= watermark.through
                      ELSE HashOf(answer.row) = row.prev
    BY <1>2, <1>4, <1>8
       DEF PredecessorsInv, Oldest, IsFirst, allVars, vars, Missing, HashOf, Hash
  <2> QED BY <1>2 DEF ReportInv, PredecessorsInv, Oldest
<1>12. NamedInv'
  BY <1>2, <1>8, <1>9, NamedShrinks DEF ReportInv
<1> QED BY <1>2, <1>9, <1>10, <1>11, <1>12, CollectKeepsLog DEF ReportInv

LEMMA ReadMarkKeeps ==
    ASSUME ReportInv, ReadMark
    PROVE  ReportInv'
<1>1. /\ UNCHANGED allVars /\ Queried
      /\ collection' = [collection EXCEPT !.mark = [kind |-> "mark", row |-> watermark]]
  BY DEF ReadMark
<1>2. collection = [rows |-> collection.rows, bySeq |-> collection.bySeq,
                    byHash |-> collection.byHash, mark |-> collection.mark]
  BY DEF ReportInv, CollectionInv
<1>3. /\ collection'.rows = collection.rows /\ collection'.bySeq = collection.bySeq
      /\ collection'.byHash = collection.byHash
      /\ collection' = [rows |-> collection'.rows, bySeq |-> collection'.bySeq,
                        byHash |-> collection'.byHash, mark |-> collection'.mark]
  BY <1>1, <1>2
<1>4. /\ Queried' /\ Reported' = Reported /\ Answers' = Answers /\ Superseded' = Superseded
  BY <1>1, <1>3 DEF Queried, Reported, Answers, Superseded
<1>5. Pool' \subseteq Pool
  BY <1>1, <1>3, <1>4 DEF Pool, Held, allVars, vars
<1>6. CollectionInv'
  BY <1>3, <1>4 DEF ReportInv, CollectionInv, HashOf, Hash, Found, Missing, Unread
<1>7. PredecessorsInv'
  BY <1>1, <1>3, <1>4
     DEF ReportInv, PredecessorsInv, Oldest, IsFirst, allVars, vars, Missing, HashOf, Hash
<1>8. NamedInv'
  BY <1>1, <1>4, <1>5, NamedShrinks DEF ReportInv
<1> QED BY <1>1, <1>5, <1>6, <1>7, <1>8, CollectKeepsLog DEF ReportInv

\* Everybody else's steps: a row recorded now is named by none read before.
LEMMA SystemKeepsReport ==
    ASSUME ReportInv, [Next]_vars, collection' = collection
    PROVE  ReportInv'
<1>1. LogInv /\ History(Pool) /\ audit \subseteq Pool /\ Types /\ IInv
  BY DEF ReportInv, Pool, LogInv
<1>2. PICK K, L : K = Pool /\ L = Pool'
  OBVIOUS
<1>3. /\ Held' = Held /\ Queried' = Queried /\ Reported' = Reported /\ Answers' = Answers
      /\ Superseded' = Superseded
  BY DEF Held, Queried, Reported, Answers, Superseded
<1>4. L \subseteq K \cup audit'
  BY <1>2, <1>3 DEF Pool
<1>5. LogInv' /\ History(L)'
  BY <1>1, <1>2, <1>4, SystemKeepsLog
<1>6. History(Pool)'
  BY <1>2, <1>5 DEF History
<1>7. IInv'
  BY <1>1, StepKeeps
<1>8. used' \subseteq TurnIds
  BY DEF ReportInv, Next, Writer, BeginTurn, BeginAttest, CommitAppend, Rollback, Event, OwnerOf,
         InsertEvent, Job, FindKept, FindLast, Prune, LeaveAlone, Tick, Finished, vars
<1>9. CollectionInv'
  BY <1>3 DEF ReportInv, CollectionInv, HashOf, Hash, Found, Missing, Unread
<1>10. /\ watermark.through <= watermark'.through
       /\ watermark.through \in Nat /\ watermark'.through \in Nat
       /\ \/ audit' \subseteq audit
          \/ tx # NoTx /\ audit' = audit \cup {Appended(tx)}
  BY <1>1, StepRows
<1>11. PredecessorsInv'
  <2> SUFFICES ASSUME Queried, NEW row \in Reported, row \in audit', row.seq # 1,
                      row.seq - 1 \in Answers
               PROVE  LET answer == collection.bySeq[row.seq - 1] IN
                      IF answer = Missing
                      THEN row.seq > 1 /\ (\A s \in audit' : row.seq <= s.seq)
                           /\ row.seq - 1 <= watermark'.through
                      ELSE HashOf(answer.row) = row.prev
    BY <1>3 DEF PredecessorsInv, Oldest, IsFirst, Missing, HashOf, Hash
  <2>1. row \in Pool
    BY DEF Pool, Held, Queried
  <2>2. row \in audit /\ row.seq \in Nat
    BY <1>1, <2>1, NoReturn DEF Types
  <2>3. CASE collection.bySeq[row.seq - 1] = Missing
    <3>1. row.seq > 1 /\ IsFirst(row) /\ row.seq - 1 <= watermark.through
      BY <2>2, <2>3 DEF ReportInv, PredecessorsInv, Oldest
    <3>2. \A s \in audit' : row.seq <= s.seq
      BY <1>1, <2>2, <3>1, StaysOldest
    <3> QED BY <1>10, <2>2, <2>3, <3>1, <3>2
  <2>4. CASE collection.bySeq[row.seq - 1] # Missing
    BY <2>2, <2>4 DEF ReportInv, PredecessorsInv
  <2> QED BY <2>3, <2>4
<1>12. NamedInv'
  <2> SUFFICES ASSUME Queried PROVE NamedInv'
    BY <1>3 DEF NamedInv
  <2>1. CASE audit' \subseteq audit
    <3>1. Pool' \subseteq Pool
      BY <1>3, <2>1 DEF Pool
    <3> QED BY <1>3, <3>1, NamedShrinks DEF ReportInv
  <2>2. CASE tx # NoTx /\ audit' = audit \cup {Appended(tx)}
    <3>1. PICK new : new = Appended(tx)
      OBVIOUS
    <3>2. new.id = tx.row.id /\ new.version = tx.row.version /\ VersionOk(tx.row)
      BY <1>1, <2>2, <3>1 DEF Appended, LogInv, WriterInv
    <3>3. HashOf(new).id = tx.row.id /\ HashOf(new).version = tx.row.version
      BY <3>2 DEF HashOf, Hash
    <3>4. \A h : Drawn(h) => h # HashOf(new)
      BY <1>1, <2>2, <3>3 DEF Drawn, Types
    <3>5. ASSUME NEW r \in K PROVE r.prev # HashOf(new) /\ r.supersedes # HashOf(new)
      <4>1. VersionOk(r) /\ Drawn(HashOf(r)) /\ Drawn(r.prev)
        BY <1>1, <1>2 DEF History, RowOk, LinkTo
      <4>2. CASE r.supersedes = Genesis
        <5>1. Genesis.version = 0
          BY DEF Genesis
        <5> QED BY <3>2, <3>3, <3>4, <4>1, <4>2, <5>1 DEF VersionOk
      <4>3. CASE r.version = 2 /\ r.supersedes = Hash(r.id, 1)
        <5> SUFFICES ASSUME r.supersedes = HashOf(new) PROVE FALSE
          BY <3>4, <4>1
        <5>1. tx.row.id = r.id /\ tx.row.version = 1
          BY <3>3, <4>3 DEF Hash
        <5>2. HashOf(r).id = r.id /\ HashOf(r).version = 2
          BY <4>3 DEF HashOf, Hash
        <5> QED BY <2>2, <4>1, <5>1, <5>2 DEF Drawn
      <4> QED BY <3>4, <4>1, <4>2, <4>3 DEF VersionOk
    <3>6. L \subseteq K \cup {new} /\ Reported \subseteq K
      BY <1>2, <1>3, <2>2, <3>1 DEF Pool, Held, Queried
    <3>7. \A a \in Named(L)' : a \in Named(K)
      <4> SUFFICES ASSUME NEW a \in L, NEW row \in Reported,
                          \/ HashOf(a) \in {row.prev, row.supersedes}
                          \/ \E old \in L : HashOf(old) = row.supersedes /\ HashOf(a) = old.prev
                   PROVE  /\ a \in K
                          /\ \/ HashOf(a) \in {row.prev, row.supersedes}
                             \/ \E old \in K : HashOf(old) = row.supersedes /\ HashOf(a) = old.prev
        BY <1>3 DEF Named, HashOf, Hash
      <4>1. \A old \in L : HashOf(old) = row.supersedes => old \in K
        BY <3>5, <3>6
      <4>2. a # new
        BY <3>5, <3>6, <4>1
      <4> QED BY <3>6, <4>1, <4>2
    <3>8. \A a, b \in Named(K) : a.seq = b.seq => a = b
      BY <1>2 DEF ReportInv, NamedInv
    <3>9. Named(Pool)' = Named(L)'
      BY <1>2 DEF Named, HashOf, Hash
    <3>10. \A a, b \in Named(L)' : a.seq = b.seq => a = b
      BY <3>7, <3>8
    <3> QED BY <3>9, <3>10 DEF NamedInv
  <2> QED BY <1>10, <2>1, <2>2
<1> QED BY <1>5, <1>6, <1>7, <1>8, <1>9, <1>11, <1>12 DEF ReportInv

LEMMA ReportInitHolds == ReportInit => ReportInv
<1> SUFFICES ASSUME ReportInit PROVE ReportInv
  OBVIOUS
<1>1. VerifyInv /\ tampered = {} /\ audit = {} /\ used = {} /\ reader = NoReader
  BY VerifyInitHolds DEF ReportInit, VerifyInit, Init
<1>2. collection = [rows |-> Nothing, bySeq |-> [n \in {} |-> Unread],
                    byHash |-> [i \in TurnIds |-> Unread], mark |-> Unread]
  BY DEF ReportInit
<1>3. ~Queried /\ Answers = {} /\ Superseded = {} /\ Held = {}
  BY <1>2 DEF Queried, Answers, Superseded, Held, Unread
<1>4. Pool = Seen
  BY <1>1, <1>3 DEF Pool, Seen, ReadRows
<1>5. CollectionInv
  BY <1>2, <1>3 DEF CollectionInv
<1> QED BY <1>1, <1>3, <1>4, <1>5 DEF ReportInv, VerifyInv, PredecessorsInv, NamedInv

LEMMA ReportStepKeeps == ReportInv /\ [ReportNext]_reportVars => ReportInv'
<1>1. ASSUME ReportInv, System, UNCHANGED collection PROVE ReportInv'
  BY <1>1, SystemKeepsReport DEF System
<1>2. ASSUME ReportInv, Collect PROVE ReportInv'
  BY <1>2, ReportRecordsKeeps, ReadSeqKeeps, ReadHashKeeps, ReadMarkKeeps DEF Collect
<1>3. ASSUME ReportInv, UNCHANGED reportVars PROVE ReportInv'
  BY <1>3, SystemKeepsReport DEF reportVars, allVars
<1> QED BY <1>1, <1>2, <1>3 DEF ReportNext

\* What a finished collection says of the rows it reports.
LEMMA CollectedFacts ==
    ASSUME ReportInv, Collected, NEW row \in Reported
    PROVE  /\ row \in Pool /\ RowOk(row) /\ row.seq \in Nat \ {0} /\ row.id \in TurnIds
           /\ row.seq # 1 => row.seq - 1 \in Answers /\ row.seq - 1 \in Wanted
           /\ VersionOk(row)
<1>1. row \in Pool
  BY DEF Pool, Held, Collected, Queried
<1>2. RowOk(row)
  BY <1>1 DEF ReportInv, History
<1>3. row.seq \in Nat \ {0} /\ VersionOk(row) /\ Drawn(HashOf(row))
  BY <1>2 DEF RowOk
<1>4. row.id \in TurnIds
  BY <1>3 DEF Drawn, VersionOk, HashOf, Hash, ReportInv
<1>5. row.seq # 1 => row.seq - 1 \in Wanted
  BY <1>3 DEF Wanted
<1> QED BY <1>1, <1>2, <1>3, <1>4, <1>5 DEF Collected

\* dashboard's reports: a record that is still there is blamed for nothing the
\* job did, unless the watermark moved after it was remembered.
THEOREM ReportsBlameNobody == ReportSpec => []ReportsBlameNoPruning
<1>1. ReportInv => ReportsBlameNoPruning
  <2> SUFFICES ASSUME ReportInv, Collected,
                      collection.mark \in {Unread, [kind |-> "mark", row |-> watermark]},
                      NEW row \in Reported, row \in audit
               PROVE  ChainDetail(row, Predecessor(row.seq - 1)) \in
                          {"genesis", "linked", "pruned", "pruned_before_cutoff"}
    BY DEF ReportsBlameNoPruning
  <2>1. /\ RowOk(row) /\ row.seq \in Nat \ {0} /\ Types
        /\ row.seq # 1 => row.seq - 1 \in Answers
    BY CollectedFacts DEF ReportInv, LogInv
  <2>2. Accounted(row, Predecessor(row.seq - 1))
    <3>1. CASE row.seq = 1
      BY <2>1, <3>1 DEF Accounted, Predecessor
    <3>2. CASE row.seq # 1 /\ collection.bySeq[row.seq - 1] = Missing
      <4>1. row.seq > 1 /\ row.seq - 1 <= watermark.through
        BY <2>1, <3>2 DEF ReportInv, PredecessorsInv, Oldest, Collected
      <4>2. row.seq - 1 \in Absent
        BY <2>1, <3>2 DEF Absent
      <4>3. collection.mark # Unread
        BY <4>2 DEF Collected
      <4>4. collection.mark.row = watermark
        BY <4>3
      <4>5. Predecessor(row.seq - 1) = Explained(row.seq - 1)
        BY <2>1, <3>2 DEF Predecessor
      <4>6. watermark # NoWatermark
        BY <2>1, <4>1 DEF NoWatermark
      <4>7. Explained(row.seq - 1) = PrunedMarker(watermark.before)
        BY <2>1, <4>1, <4>4, <4>6 DEF Explained, Types
      <4> QED BY <3>2, <4>5, <4>7 DEF Accounted, PrunedMarker
    <3>3. CASE row.seq # 1 /\ collection.bySeq[row.seq - 1] # Missing
      <4>1. /\ HashOf(collection.bySeq[row.seq - 1].row) = row.prev
            /\ collection.bySeq[row.seq - 1].kind = "found"
        <5>1. collection.bySeq[row.seq - 1] = Found(collection.bySeq[row.seq - 1].row)
          BY <2>1, <3>3 DEF ReportInv, CollectionInv
        <5>2. collection.bySeq[row.seq - 1].kind = "found"
          BY <5>1 DEF Found
        <5> QED BY <2>1, <3>3, <5>2 DEF ReportInv, PredecessorsInv, Collected
      <4>2. Predecessor(row.seq - 1) = collection.bySeq[row.seq - 1]
        BY <2>1, <3>3 DEF Predecessor
      <4> QED BY <3>3, <4>1, <4>2 DEF Accounted
    <3> QED BY <3>1, <3>2, <3>3
  <2> QED BY <2>1, <2>2, AccountedIsGood
<1> QED BY <1>1, ReportInitHolds, ReportStepKeeps, PTL DEF ReportSpec

\* A predecessor that was found for the report is the one the bundle gives,
\* as long as no other row it carries stands at that position.
LEMMA InBundleFinds ==
    ASSUME ReportInv, Collected, NEW n \in Wanted, collection.bySeq[n] # Missing,
           \A i \in Superseded : collection.byHash[i].row.seq = n =>
               collection.byHash[i].row = collection.bySeq[n].row
    PROVE  InBundleAt(n) = collection.bySeq[n]
<1> DEFINE rows == {s.row : s \in {t \in Supporting : t.row.seq = n}}
<1>1. n \in Answers
  BY DEF Collected
<1>2. /\ collection.bySeq[n] = Found(collection.bySeq[n].row)
      /\ collection.bySeq[n].row.seq = n
      /\ \A m \in Answers : collection.bySeq[m].kind = "found" => collection.bySeq[m].row.seq = m
  BY <1>1 DEF ReportInv, CollectionInv, Missing
<1>3. collection.bySeq[n].kind = "found"
  BY <1>2 DEF Found
<1>4. collection.bySeq[n].row \in rows
  <2> DEFINE carried == [row |-> collection.bySeq[n].row, role |-> "predecessor"]
  <2>1. carried \in Supporting
    BY <1>3 DEF Supporting
  <2>2. carried.row = collection.bySeq[n].row
    OBVIOUS
  <2> HIDE DEF carried
  <2> QED BY <1>2, <2>1, <2>2
<1>5. \A r \in rows : r = collection.bySeq[n].row
  <2> SUFFICES ASSUME NEW s \in Supporting, s.row.seq = n PROVE s.row = collection.bySeq[n].row
    OBVIOUS
  <2>1. \/ \E m \in Wanted : collection.bySeq[m].kind = "found" /\ s.row = collection.bySeq[m].row
        \/ \E i \in Superseded : s.row = collection.byHash[i].row
    BY DEF Supporting
  <2> QED BY <1>2, <2>1 DEF Collected
<1> HIDE DEF rows
<1>6. rows = {collection.bySeq[n].row}
  BY <1>4, <1>5
<1>7. InBundleAt(n) = Found(CHOOSE row \in rows : TRUE)
  BY <1>6 DEF InBundleAt, rows
<1>8. (CHOOSE row \in rows : TRUE) = collection.bySeq[n].row
  BY <1>6
<1> QED BY <1>2, <1>7, <1>8

\* Nothing stands before the first position.
LEMMA InBundleBeforeFirst ==
    ASSUME ReportInv, Collected
    PROVE  InBundleAt(0) = Missing
<1>1. \A r \in Pool : r.seq # 0
  BY DEF ReportInv, History, RowOk
<1>2. \A s \in Supporting : s.row \in Pool
  <2> SUFFICES ASSUME NEW s \in Supporting PROVE s.row \in Pool
    OBVIOUS
  <2>1. \/ \E m \in Answers : collection.bySeq[m].kind = "found" /\ s.row = collection.bySeq[m].row
        \/ \E i \in Superseded : s.row = collection.byHash[i].row
    BY DEF Supporting, Collected
  <2> QED BY <2>1 DEF Pool, Held, Collected, Queried
<1>3. Reported \subseteq Pool
  BY DEF Pool, Held, Collected, Queried
<1> QED BY <1>1, <1>2, <1>3 DEF InBundleAt

\* What the report found linked, the bundle proves linked.
LEMMA LinkedInBundle ==
    ASSUME ReportInv, Collected, NEW row \in Pool, RowOk(row),
           row.seq # 1 => row.seq - 1 \in Wanted,
           row \in Reported \/ \E r \in Reported : r.supersedes = HashOf(row),
           ChainOk(row, Predecessor(row.seq - 1)), Predecessor(row.seq - 1).kind # "pruned"
    PROVE  ChainOk(row, InBundleAt(row.seq - 1))
<1>1. row.seq \in Nat \ {0} /\ (row.prev = Genesis <=> row.seq = 1)
  BY GenesisIsFirst DEF RowOk
<1>2. CASE row.seq = 1
  <2>1. InBundleAt(row.seq - 1) = Missing /\ Predecessor(row.seq - 1) = Missing
    BY <1>1, <1>2, InBundleBeforeFirst DEF Predecessor
  <2> QED BY <2>1
<1>3. CASE row.seq # 1
  <2> DEFINE n == row.seq - 1
  <2>1. n \in Wanted /\ n \in Answers /\ n # 0 /\ row.prev # Genesis
    BY <1>1, <1>3 DEF Collected
  <2>2. Predecessor(n).kind # "missing" /\ Predecessor(n).kind # "pruned"
    <3>1. ASSUME Predecessor(n).kind = "missing" PROVE FALSE
      <4>1. ChainDetail(row, Predecessor(n)) = "previous_missing"
        BY <2>1, <3>1 DEF ChainDetail
      <4> QED BY <4>1 DEF ChainOk
    <3> QED BY <3>1
  <2>3. collection.bySeq[n] # Missing /\ Predecessor(n) = collection.bySeq[n]
    <3>1. ASSUME collection.bySeq[n] = Missing PROVE FALSE
      <4>1. Predecessor(n) = Explained(n)
        BY <2>1, <3>1 DEF Predecessor
      <4>2. Explained(n).kind \in {"missing", "pruned"}
        BY DEF Explained, Missing, PrunedMarker
      <4> QED BY <2>2, <4>1, <4>2
    <3> QED BY <2>1, <3>1 DEF Predecessor
  <2>4. HashOf(collection.bySeq[n].row) = row.prev
    <3>1. ASSUME HashOf(collection.bySeq[n].row) # row.prev PROVE FALSE
      <4>1. ChainDetail(row, Predecessor(n)) = "previous_mismatch"
        BY <2>1, <2>2, <2>3, <3>1 DEF ChainDetail
      <4> QED BY <4>1 DEF ChainOk
    <3> QED BY <3>1
  <2>5. /\ collection.bySeq[n] = Found(collection.bySeq[n].row)
        /\ collection.bySeq[n].row.seq = n
    BY <2>1, <2>3 DEF ReportInv, CollectionInv
  <2>6. collection.bySeq[n].row \in Named(Pool)
    <3>1. collection.bySeq[n].kind = "found"
      BY <2>5 DEF Found
    <3>2. collection.bySeq[n].row \in Pool
      BY <2>1, <3>1 DEF Pool, Held, Collected, Queried
    <3> QED BY <2>4, <3>2 DEF Named
  <2>7. ASSUME NEW i \in Superseded, collection.byHash[i].row.seq = n
        PROVE  collection.byHash[i].row = collection.bySeq[n].row
    <3>1. i \in TurnIds /\ collection.byHash[i].kind = "found"
      BY DEF Superseded
    <3>2. collection.byHash[i].row \in Pool
      BY DEF Pool, Held, Collected, Queried
    <3>3. HashOf(collection.byHash[i].row) = Hash(i, 1) /\ \E r \in Reported : r.supersedes = Hash(i, 1)
      BY <3>1 DEF ReportInv, CollectionInv, Unread, Missing
    <3>4. collection.byHash[i].row \in Named(Pool)
      BY <3>2, <3>3 DEF Named
    <3> QED BY <2>5, <2>6, <2>7, <3>4 DEF ReportInv, NamedInv, Collected
  <2> HIDE DEF n
  <2>8. InBundleAt(n) = collection.bySeq[n]
    BY <2>1, <2>3, <2>7, InBundleFinds
  <2> QED BY <2>3, <2>8 DEF n
<1> QED BY <1>2, <1>3

\* report-bundle.ts: whatever changes between two reads, a record the report
\* calls verified and whose neighbours had not been pruned is proved by the
\* bundle alone, though most of its rows are bare references.
THEOREM BundlesReverify == ReportSpec => []UnprunedReverifies
<1>1. ReportInv => UnprunedReverifies
  <2> SUFFICES ASSUME ReportInv, Collected, NEW row \in Reported, Verified(row), ~Pruned(row)
               PROVE  VerifiesOffline(row)
    BY DEF UnprunedReverifies
  <2> DEFINE got == collection.byHash[row.id]
  <2>1. /\ row \in Pool /\ RowOk(row) /\ row.id \in TurnIds /\ VersionOk(row)
        /\ row.seq # 1 => row.seq - 1 \in Wanted
    BY CollectedFacts
  <2>2. ChainOk(row, InBundleAt(row.seq - 1))
    BY <2>1, LinkedInBundle DEF Verified, Pruned
  <2>3. CASE row.supersedes = Genesis
    BY <2>2, <2>3 DEF VerifiesOffline
  <2>4. CASE row.supersedes # Genesis
    <3>1. got # Unread
      BY <2>1, <2>4 DEF Collected
    <3>2. got # Missing
      <4>1. ASSUME got = Missing PROVE FALSE
        <5>1. \A previous : SupersedesDetail(row, got, previous) = "superseded_missing"
          BY <2>4, <4>1 DEF SupersedesDetail
        <5> QED BY <5>1 DEF Verified, SupersedesOk
      <4> QED BY <4>1
    <3>3. got = Found(got.row) /\ HashOf(got.row) = Hash(row.id, 1)
      BY <2>1, <3>1, <3>2 DEF ReportInv, CollectionInv
    <3>4. got.kind = "found" /\ row.supersedes = HashOf(got.row) /\ row.id \in Superseded
      BY <2>1, <2>4, <3>3 DEF Found, VersionOk, Superseded
    <3> DEFINE old == got.row
    <3>5. old \in Pool /\ RowOk(old) /\ VersionOk(old)
      <4>1. old \in Pool
        BY <3>4 DEF Pool, Held, Collected, Queried
      <4> QED BY <4>1 DEF ReportInv, History, RowOk
    <3>6. old.seq # 1 => old.seq - 1 \in Wanted
      BY <3>4, <3>5 DEF Wanted, RowOk
    <3>7. Predecessor(old.seq - 1).kind # "pruned" /\ SupersedesOk(row, got, Predecessor(old.seq - 1))
      BY <3>4 DEF Verified, Pruned
    <3>8. /\ old.id = row.id /\ old.supersedes = Genesis
          /\ ChainOk(old, Predecessor(old.seq - 1))
      BY <2>4, <3>2, <3>7 DEF SupersedesOk, SupersedesDetail
    <3>9. ChainOk(old, InBundleAt(old.seq - 1))
      BY <3>4, <3>5, <3>6, <3>7, <3>8, LinkedInBundle
    <3> HIDE DEF old
    <3>10. SupersedesOk(row, Found(old), InBundleAt(old.seq - 1))
      <4>1. Found(old).row = old /\ Found(old) # Missing
        BY DEF Found, Missing
      <4> QED BY <2>4, <3>8, <3>9, <4>1 DEF SupersedesOk, SupersedesDetail
    <3>11. KeepsDocument(old) /\ old \in Bundled
      <4> DEFINE carried == [row |-> collection.byHash[row.id].row, role |-> "superseded"]
      <4>1. carried \in Supporting
        BY <3>4 DEF Supporting
      <4>2. carried.row = old /\ carried.role = "superseded"
        BY DEF old
      <4> HIDE DEF carried
      <4> QED BY <4>1, <4>2 DEF KeepsDocument, Bundled
    <3> QED BY <2>2, <3>4, <3>10, <3>11 DEF VerifiesOffline, old
  <2> QED BY <2>3, <2>4
<1> QED BY <1>1, ReportInitHolds, ReportStepKeeps, PTL DEF ReportSpec
=============================================================================
