--------------------------- MODULE RetentionProofs ---------------------------
(***************************************************************************)
(* What the retention job leaves is linked, served and covered by the      *)
(* watermark, for any number of turns, runs and windows.  The invariant    *)
(* adds what an open transaction may rely on: the tail it read is still    *)
(* the last row, or the job has deleted the whole table, and then the      *)
(* watermark covers that tail; the version it supersedes is still the      *)
(* served one, or every version of its id is gone.                         *)
(***************************************************************************)
EXTENDS Retention, WellFoundedInduction, TLAPS

JobRows == [phase : {"idle", "unbounded", "bounded"}, cutoff : Int, through : Nat, runs : Nat]

Types ==
    /\ \A r \in audit : r.seq \in Nat \ {0} /\ r.version \in Nat \ {0} /\ r.id \in used
    /\ watermark \in [through : Nat, before : Int]
    /\ job \in [Jobs -> JobRows]
    /\ today \in Nat
    /\ tx # NoTx => tx.tail.seq \in Nat /\ tx.row.version \in Nat \ {0} /\ tx.row.id \in used

IsLast(p) == \A s \in audit : s.seq <= p.seq
IsFirst(p) == \A s \in audit : p.seq <= s.seq

UniqueSeqs == \A r, s \in audit : r.seq = s.seq => r = s

HasLast == audit # {} => \E p \in audit : IsLast(p)

\* SurvivorsLinked, with the oldest record found without a CHOOSE.
Linked ==
    \A r \in audit :
        \/ r.seq = 1 /\ r.prev = Genesis
        \/ \E p \in audit : p.seq = r.seq - 1 /\ r.prev = HashOf(p)
        \/ IsFirst(r) /\ r.seq - 1 <= watermark.through

\* What may be appended after.
EndsChain(tail) ==
    IF audit = {}
    THEN tail = [seq |-> 0, hash |-> Genesis] \/ tail.seq <= watermark.through
    ELSE \E p \in audit : IsLast(p) /\ tail.seq = p.seq /\ tail.hash = HashOf(p)

TailHolds == tx # NoTx => EndsChain(tx.tail)

ChainInv == UniqueSeqs /\ HasLast /\ Linked /\ TailHolds

\* The served version of an id is its newest.
IsServed(v) ==
    /\ HashOf(v) \in latest
    /\ \A w \in audit : w.id = v.id =>
           w.seq <= v.seq /\ w.version <= v.version /\ (HashOf(w) \in latest => w = v)

OneServed == \A r \in audit : \E v \in audit : v.id = r.id /\ IsServed(v)

UniqueVersions == \A r, s \in audit : r.id = s.id /\ r.version = s.version => r = s

LatestRecorded == \A h \in latest : \E v \in audit : HashOf(v) = h

SupersedesServed ==
    tx # NoTx =>
        \/ tx.row.supersedes = Genesis /\ \A r \in audit : r.id # tx.row.id
        \/ /\ tx.row.supersedes = Hash(tx.row.id, tx.row.version - 1)
           /\ \A r \in audit : r.id = tx.row.id =>
                  \E v \in audit : HashOf(v) = tx.row.supersedes /\ IsServed(v)

ServedInv == OneServed /\ UniqueVersions /\ LatestRecorded /\ SupersedesServed

IInv == Types /\ ChainInv /\ ServedInv /\ NoTextWithoutRecord

-----------------------------------------------------------------------------
\* A set of natural numbers has a least one.
LEMMA LeastExists ==
    ASSUME NEW S \in SUBSET Nat, S # {}
    PROVE  \E n \in S : \A m \in S : n <= m
<1> DEFINE Less == OpToRel(<, Nat)
<1>1. IsWellFoundedOn(Less, Nat)
  BY NatLessThanWellFounded
<1>2. \A m, n \in Nat : m < n => <<m, n>> \in Less
  BY DEF OpToRel
<1> HIDE DEF Less
<1>3. PICK n \in S : \A m \in S : ~(<<m, n>> \in Less)
  BY <1>1, WFMin
<1>4. ASSUME NEW m \in S PROVE n <= m
  <2>1. m \in Nat /\ n \in Nat
    OBVIOUS
  <2>2. ~(m < n)
    BY <1>2, <1>3, <2>1
  <2> QED BY <2>1, <2>2
<1> QED BY <1>4

LEMMA LowestIsLeast ==
    ASSUME NEW S \in SUBSET Nat, S # {}
    PROVE  Lowest(S) \in S /\ \A m \in S : Lowest(S) <= m
BY LeastExists DEF Lowest

\* What the writers read under the lock is the last row.
LEMMA TailIsLast ==
    ASSUME Types, UniqueSeqs, HasLast
    PROVE  EndsChain(LogTail) /\ LogTail.seq \in Nat
<1>1. CASE audit = {}
  BY <1>1 DEF EndsChain, LogTail
<1>2. CASE audit # {}
  <2>1. PICK p \in audit : IsLast(p)
    BY <1>2 DEF HasLast
  <2>2. p.seq \in Seqs /\ \A m \in Seqs : m \in Nat /\ m <= p.seq
    BY <2>1 DEF Seqs, IsLast, Types
  <2>3. Highest(Seqs) \in Seqs /\ \A m \in Seqs : m <= Highest(Seqs)
    BY <2>2 DEF Highest
  <2>4. Highest(Seqs) = p.seq
    BY <2>2, <2>3
  <2>5. RowAt(p.seq) = p
    BY DEF RowAt, UniqueSeqs
  <2>6. LogTail.seq = p.seq /\ LogTail.hash = HashOf(p)
    BY <1>2, <2>4, <2>5 DEF LogTail
  <2> QED BY <1>2, <2>1, <2>2, <2>6 DEF EndsChain
<1> QED BY <1>1, <1>2

-----------------------------------------------------------------------------
\* Beginning a transaction.
LEMMA BeginKeeps ==
    ASSUME IInv, NEW t, tx' = t, t # NoTx, t.tail = LogTail,
           UNCHANGED <<audit, latest, rawText, watermark, job, today>>,
           used \subseteq used', t.row.version \in Nat \ {0}, t.row.id \in used',
           SupersedesServed'
    PROVE  IInv'
<1>1. EndsChain(LogTail) /\ LogTail.seq \in Nat
  BY TailIsLast DEF IInv, ChainInv
<1>2. Types'
  BY <1>1 DEF IInv, Types
<1>3. TailHolds'
  BY <1>1 DEF TailHolds, EndsChain, IsLast
<1>4. ChainInv'
  BY <1>3 DEF IInv, ChainInv, UniqueSeqs, HasLast, IsLast, Linked, IsFirst
<1>5. ServedInv'
  BY DEF IInv, ServedInv, OneServed, IsServed, UniqueVersions, LatestRecorded
<1> QED BY <1>2, <1>4, <1>5 DEF IInv, NoTextWithoutRecord

LEMMA BeginTurnKeeps ==
    ASSUME IInv, NEW i, NEW ts, BeginTurn(i, ts)
    PROVE  IInv'
<1> DEFINE t == [kind |-> "turn", tail |-> LogTail,
                 row |-> [id |-> i, version |-> 1, ts |-> ts, supersedes |-> Genesis]]
<1>1. /\ tx' = t /\ used' = used \cup {i} /\ i \notin used
      /\ UNCHANGED <<audit, latest, rawText, watermark, job, today>>
  BY DEF BeginTurn, texts
<1>2. t # NoTx
  BY DEF NoTx
<1>3. t.tail = LogTail /\ t.row.version = 1 /\ t.row.id = i /\ t.row.supersedes = Genesis
  OBVIOUS
<1>4. SupersedesServed'
  BY <1>1, <1>3 DEF SupersedesServed, IInv, Types
<1> HIDE DEF t
<1> QED BY <1>1, <1>2, <1>3, <1>4, BeginKeeps

LEMMA BeginAttestKeeps ==
    ASSUME IInv, NEW row \in audit, BeginAttest(row)
    PROVE  IInv'
<1> DEFINE t == [kind |-> "attest", tail |-> LogTail,
                 row |-> [id |-> row.id, version |-> row.version + 1, ts |-> row.ts,
                          supersedes |-> HashOf(row)]]
<1>1. /\ tx' = t /\ HashOf(row) \in latest
      /\ UNCHANGED <<audit, latest, rawText, watermark, job, used, today>>
  BY DEF BeginAttest, texts
<1>2. t # NoTx
  BY DEF NoTx
<1>3. /\ t.tail = LogTail /\ t.row.version = row.version + 1 /\ t.row.id = row.id
      /\ t.row.supersedes = HashOf(row)
  OBVIOUS
<1>4. row.version \in Nat \ {0} /\ row.id \in used
  BY DEF IInv, Types
<1>5. IsServed(row)
  <2>1. PICK v \in audit : v.id = row.id /\ IsServed(v)
    BY DEF IInv, ServedInv, OneServed
  <2>2. v = row
    BY <1>1, <2>1 DEF IsServed
  <2> QED BY <2>1, <2>2
<1>6. HashOf(row) = Hash(row.id, row.version) /\ row.version = (row.version + 1) - 1
  BY <1>4 DEF HashOf
<1> HIDE DEF t
<1>7. SupersedesServed'
  BY <1>1, <1>3, <1>5, <1>6 DEF SupersedesServed, IsServed
<1> QED BY <1>1, <1>2, <1>3, <1>4, <1>7, BeginKeeps

-----------------------------------------------------------------------------
\* What an append adds: a row above all others, and above every version of its
\* id, of which only the superseded one may be served.
LEMMA AppendedFacts ==
    ASSUME IInv, tx # NoTx
    PROVE  LET new == Appended(tx) IN
           /\ new.id = tx.row.id /\ new.version = tx.row.version
           /\ new.seq = tx.tail.seq + 1 /\ new.prev = tx.tail.hash
           /\ new.seq \in Nat \ {0} /\ new.version \in Nat \ {0} /\ new.id \in used
           /\ HashOf(new) = HashOf(tx.row)
           /\ \A s \in audit : s.seq < new.seq
           /\ \A w \in audit : w.id = new.id =>
                  /\ w.version < new.version
                  /\ HashOf(w) \in latest => HashOf(w) = tx.row.supersedes
           /\ \A w \in audit : w.id # new.id => HashOf(w) # tx.row.supersedes
<1> DEFINE new == Appended(tx)
<1>1. /\ new.id = tx.row.id /\ new.version = tx.row.version
      /\ new.seq = tx.tail.seq + 1 /\ new.prev = tx.tail.hash
  BY DEF Appended
<1>2. tx.tail.seq \in Nat /\ tx.row.version \in Nat \ {0} /\ tx.row.id \in used
  BY DEF IInv, Types
<1>3. new.seq \in Nat \ {0} /\ new.version \in Nat \ {0} /\ new.id \in used
  BY <1>1, <1>2
<1>4. HashOf(new) = HashOf(tx.row)
  BY <1>1 DEF HashOf
<1>5. ASSUME NEW s \in audit PROVE s.seq < new.seq
  <2>1. PICK p \in audit : IsLast(p) /\ tx.tail.seq = p.seq
    BY DEF IInv, ChainInv, TailHolds, EndsChain
  <2>2. s.seq \in Nat /\ p.seq \in Nat /\ s.seq <= p.seq
    BY <2>1 DEF IsLast, IInv, Types
  <2> QED BY <1>1, <2>1, <2>2
<1>6. ASSUME NEW w \in audit, w.id = new.id
      PROVE  w.version < new.version /\ (HashOf(w) \in latest => HashOf(w) = tx.row.supersedes)
  <2>1. PICK v \in audit : HashOf(v) = tx.row.supersedes /\ IsServed(v)
                            /\ tx.row.supersedes = Hash(tx.row.id, tx.row.version - 1)
    BY <1>1, <1>6 DEF IInv, ServedInv, SupersedesServed
  <2>2. v.id = tx.row.id /\ v.version = tx.row.version - 1
    BY <2>1 DEF HashOf, Hash
  <2>3. w.version <= v.version /\ (HashOf(w) \in latest => w = v)
    BY <1>1, <1>6, <2>1, <2>2 DEF IsServed
  <2>4. w.version \in Nat
    BY DEF IInv, Types
  <2> QED BY <1>1, <1>2, <2>1, <2>2, <2>3, <2>4
<1>7. ASSUME NEW w \in audit, w.id # new.id PROVE HashOf(w) # tx.row.supersedes
  <2>1. HashOf(w).id = w.id /\ HashOf(w).version = w.version /\ w.version \in Nat \ {0}
    BY DEF HashOf, Hash, IInv, Types
  <2>2. CASE tx.row.supersedes = Genesis
    BY <2>1, <2>2 DEF Genesis
  <2>3. CASE tx.row.supersedes = Hash(tx.row.id, tx.row.version - 1)
    BY <1>1, <1>7, <2>1, <2>3 DEF Hash
  <2> QED BY <2>2, <2>3 DEF IInv, ServedInv, SupersedesServed
<1> HIDE DEF new
<1>8. QED BY <1>1, <1>3, <1>4, <1>5, <1>6, <1>7 DEF new

\* An append keeps the chain: its row is linked to the tail, or stands alone
\* above what the watermark covers.
LEMMA AppendKeepsChain ==
    ASSUME IInv, NEW keepText, CommitAppend(keepText)
    PROVE  ChainInv'
<1> DEFINE new == Appended(tx)
<1>1. audit' = audit \cup {new} /\ tx' = NoTx /\ watermark' = watermark /\ tx # NoTx
  BY DEF CommitAppend
<1>2. /\ new.seq = tx.tail.seq + 1 /\ new.prev = tx.tail.hash /\ new.seq \in Nat \ {0}
      /\ \A s \in audit : s.seq < new.seq
  BY <1>1, AppendedFacts
<1>3. \A s \in audit : s.seq \in Nat \ {0}
  BY DEF IInv, Types
<1>4. tx.tail.seq \in Nat /\ EndsChain(tx.tail) /\ watermark.through \in Nat
  BY <1>1 DEF IInv, Types, ChainInv, TailHolds
<1> HIDE DEF new
<1>5. UniqueSeqs'
  BY <1>1, <1>2, <1>3 DEF IInv, ChainInv, UniqueSeqs
<1>6. HasLast'
  <2>1. \A s \in audit' : s.seq <= new.seq
    BY <1>1, <1>2, <1>3
  <2> QED BY <1>1, <2>1 DEF HasLast, IsLast
<1>7. Linked'
  <2> SUFFICES ASSUME NEW r \in audit'
               PROVE  \/ r.seq = 1 /\ r.prev = Genesis
                      \/ \E p \in audit' : p.seq = r.seq - 1 /\ r.prev = HashOf(p)
                      \/ (\A s \in audit' : r.seq <= s.seq) /\ r.seq - 1 <= watermark'.through
    BY DEF Linked, IsFirst, HashOf
  <2>1. CASE r \in audit
    <3>1. (\A s \in audit : r.seq <= s.seq) => \A s \in audit' : r.seq <= s.seq
      BY <1>1, <1>2, <1>3, <2>1
    <3> QED BY <1>1, <2>1, <3>1 DEF IInv, ChainInv, Linked, IsFirst
  <2>2. CASE r = new
    <3>1. CASE audit = {}
      <4>1. tx.tail = [seq |-> 0, hash |-> Genesis] \/ tx.tail.seq <= watermark.through
        BY <1>4, <3>1 DEF EndsChain
      <4> QED BY <1>1, <1>2, <1>4, <2>2, <3>1, <4>1
    <3>2. CASE audit # {}
      <4>1. PICK p \in audit : tx.tail.seq = p.seq /\ tx.tail.hash = HashOf(p)
        BY <1>4, <3>2 DEF EndsChain
      <4> QED BY <1>1, <1>2, <1>4, <2>2, <4>1
    <3> QED BY <3>1, <3>2
  <2> QED BY <1>1, <2>1, <2>2
<1>8. TailHolds'
  BY <1>1 DEF TailHolds
<1> QED BY <1>5, <1>6, <1>7, <1>8 DEF ChainInv

\* An append moves is_latest to its row: no other version of its id is served,
\* and those of other ids are as they were.
LEMMA AppendKeepsServed ==
    ASSUME IInv, NEW keepText, CommitAppend(keepText)
    PROVE  ServedInv'
<1> DEFINE old == tx.row.supersedes
<1>0. PICK new : new = Appended(tx)
  OBVIOUS
<1>1. /\ audit' = audit \cup {new} /\ tx' = NoTx /\ tx # NoTx
      /\ latest' = (latest \ {old}) \cup {HashOf(tx.row)}
  BY <1>0 DEF CommitAppend, NowLatest
<1>2. /\ HashOf(new) = HashOf(tx.row) /\ new.seq \in Nat /\ new.version \in Nat
      /\ \A s \in audit : s.seq < new.seq
      /\ \A w \in audit : w.id = new.id =>
             w.version < new.version /\ (HashOf(w) \in latest => HashOf(w) = old)
      /\ \A w \in audit : w.id # new.id => HashOf(w) # old
  BY <1>0, <1>1, AppendedFacts
<1> HIDE DEF old
<1>3. \A s \in audit : s.seq \in Nat /\ s.version \in Nat
  BY DEF IInv, Types
<1>4. \A r, s : HashOf(r) = HashOf(s) => r.id = s.id /\ r.version = s.version
  BY DEF HashOf, Hash
<1>5. IsServed(new)'
  <2>1. HashOf(new) \in latest'
    BY <1>1, <1>2
  <2>2. ASSUME NEW w \in audit, w.id = new.id
        PROVE  w.seq <= new.seq /\ w.version <= new.version /\ HashOf(w) \notin latest'
    <3>1. w.version < new.version /\ w.version \in Nat /\ HashOf(w) # HashOf(tx.row)
      BY <1>2, <1>3, <1>4, <2>2
    <3>2. HashOf(w) \notin latest'
      BY <1>1, <1>2, <2>2, <3>1
    <3> QED BY <1>2, <1>3, <3>1, <3>2
  <2>3. new.seq <= new.seq /\ new.version <= new.version
    BY <1>2
  <2> QED BY <1>1, <2>1, <2>2, <2>3 DEF IsServed, HashOf
<1>6. OneServed'
  <2> SUFFICES ASSUME NEW r \in audit' PROVE \E v \in audit' : v.id = r.id /\ IsServed(v)'
    BY DEF OneServed
  <2>1. CASE r.id = new.id
    BY <1>1, <1>5, <2>1
  <2>2. CASE r.id # new.id
    <3>1. PICK v \in audit : v.id = r.id /\ IsServed(v)
      BY <1>1, <2>2 DEF IInv, ServedInv, OneServed
    <3>2. HashOf(v) \in latest'
      BY <1>1, <1>2, <2>2, <3>1 DEF IsServed
    <3>3. ASSUME NEW w \in audit', w.id = v.id
          PROVE  w.seq <= v.seq /\ w.version <= v.version /\ (HashOf(w) \in latest' => w = v)
      <4>1. w \in audit /\ HashOf(w) # HashOf(tx.row)
        BY <1>1, <1>2, <1>4, <2>2, <3>1, <3>3
      <4> QED BY <1>1, <3>1, <3>3, <4>1 DEF IsServed
    <3>4. IsServed(v)'
      BY <3>2, <3>3 DEF IsServed, HashOf
    <3> QED BY <1>1, <3>1, <3>4
  <2> QED BY <2>1, <2>2
<1>7. UniqueVersions'
  <2>1. \A w \in audit : w.id = new.id => w.version # new.version
    BY <1>2, <1>3
  <2> QED BY <1>1, <2>1 DEF IInv, ServedInv, UniqueVersions
<1>8. LatestRecorded'
  BY <1>1, <1>2 DEF IInv, ServedInv, LatestRecorded, HashOf
<1>9. SupersedesServed'
  BY <1>1 DEF SupersedesServed
<1> QED BY <1>6, <1>7, <1>8, <1>9 DEF ServedInv

LEMMA AppendKeeps ==
    ASSUME IInv, NEW keepText, CommitAppend(keepText)
    PROVE  IInv'
<1>1. PICK new : new = Appended(tx)
  OBVIOUS
<1>2. /\ audit' = audit \cup {new} /\ tx' = NoTx /\ tx # NoTx
      /\ UNCHANGED <<watermark, job, used, today>>
      /\ rawText' = IF keepText /\ tx.kind = "turn" THEN rawText \cup {tx.row.id} ELSE rawText
  BY <1>1 DEF CommitAppend
<1>3. /\ new.seq \in Nat \ {0} /\ new.version \in Nat \ {0} /\ new.id \in used
      /\ new.id = tx.row.id
  BY <1>1, <1>2, AppendedFacts
<1>4. Types'
  BY <1>2, <1>3 DEF IInv, Types
<1>5. NoTextWithoutRecord'
  BY <1>2, <1>3 DEF IInv, NoTextWithoutRecord
<1> QED BY <1>4, <1>5, AppendKeepsChain, AppendKeepsServed DEF IInv

-----------------------------------------------------------------------------
\* Pruning.

LEMMA PruneFacts ==
    ASSUME Types, NEW j \in Jobs, Prune(j), NEW n, n = job[j].through
    PROVE  /\ n \in Nat
           /\ audit' = {r \in audit : ~(r.seq <= n)}
           /\ watermark' \in [through : Nat, before : Int]
           /\ n <= watermark'.through /\ watermark.through <= watermark'.through
           /\ watermark.before <= watermark'.before
<1>1. job[j].through \in Nat /\ job[j].cutoff \in Int /\ watermark \in [through : Nat, before : Int]
  BY DEF Types, JobRows
<1>2. watermark' = [through |-> Larger(watermark.through, n),
                    before |-> Larger(watermark.before, job[j].cutoff)]
  BY DEF Prune, Advanced
<1>3. \A a, b \in Int : Larger(a, b) \in {a, b} /\ a <= Larger(a, b) /\ b <= Larger(a, b)
  BY DEF Larger
<1>4. audit' = {r \in audit : ~(r.seq <= n)}
  BY DEF Prune, Prefix
<1> QED BY <1>1, <1>2, <1>3, <1>4

\* A prefix goes: the row above it is the first one, and either the last row
\* stays or none does.
LEMMA PruneKeepsChain ==
    ASSUME IInv, NEW j \in Jobs, Prune(j)
    PROVE  ChainInv'
<1>1. PICK n : n = job[j].through
  OBVIOUS
<1>2. /\ n \in Nat /\ watermark'.through \in Nat /\ watermark.through \in Nat
      /\ n <= watermark'.through /\ watermark.through <= watermark'.through
      /\ audit' = {r \in audit : ~(r.seq <= n)}
  BY <1>1, PruneFacts DEF IInv, Types
<1>3. \A s \in audit : s.seq \in Nat \ {0}
  BY DEF IInv, Types
<1>4. \A p \in audit : IsLast(p) => IF p.seq <= n THEN audit' = {} ELSE p \in audit'
  BY <1>2, <1>3 DEF IsLast
<1>5. UniqueSeqs'
  BY <1>2 DEF IInv, ChainInv, UniqueSeqs
<1>6. HasLast'
  <2>1. CASE audit = {}
    BY <1>2, <2>1 DEF HasLast
  <2>2. CASE audit # {}
    <3>1. PICK p \in audit : IsLast(p)
      BY <2>2 DEF IInv, ChainInv, HasLast
    <3> QED BY <1>2, <1>4, <3>1 DEF HasLast, IsLast
  <2> QED BY <2>1, <2>2
<1>7. Linked'
  <2> SUFFICES ASSUME NEW r \in audit'
               PROVE  \/ r.seq = 1 /\ r.prev = Genesis
                      \/ \E p \in audit' : p.seq = r.seq - 1 /\ r.prev = HashOf(p)
                      \/ (\A s \in audit' : r.seq <= s.seq) /\ r.seq - 1 <= watermark'.through
    BY DEF Linked, IsFirst, HashOf
  <2>1. CASE \E p \in audit : p.seq = r.seq - 1 /\ r.prev = HashOf(p)
    <3>1. PICK p \in audit : p.seq = r.seq - 1 /\ r.prev = HashOf(p)
      BY <2>1
    <3>2. CASE p.seq <= n
      <4>1. r.seq = n + 1
        BY <1>2, <1>3, <3>1, <3>2
      <4>2. \A s \in audit' : r.seq <= s.seq
        BY <1>2, <1>3, <4>1
      <4> QED BY <1>2, <4>1, <4>2
    <3>3. CASE ~(p.seq <= n)
      BY <1>2, <3>1, <3>3
    <3> QED BY <3>2, <3>3
  <2>2. CASE IsFirst(r) /\ r.seq - 1 <= watermark.through
    <3>1. \A s \in audit' : r.seq <= s.seq
      BY <1>2, <2>2 DEF IsFirst
    <3>2. r.seq - 1 <= watermark'.through
      BY <1>2, <1>3, <2>2
    <3> QED BY <3>1, <3>2
  <2> QED BY <1>2, <2>1, <2>2 DEF IInv, ChainInv, Linked
<1>8. TailHolds'
  <2> SUFFICES ASSUME tx # NoTx PROVE EndsChain(tx.tail)'
    BY DEF TailHolds, Prune
  <2>1. UNCHANGED tx /\ EndsChain(tx.tail) /\ tx.tail.seq \in Nat
    BY DEF Prune, IInv, Types, ChainInv, TailHolds
  <2>2. CASE audit = {}
    <3>1. audit' = {}
      BY <1>2, <2>2
    <3> QED BY <1>2, <2>1, <2>2, <3>1 DEF EndsChain
  <2>3. CASE audit # {}
    <3>1. PICK p \in audit : IsLast(p) /\ tx.tail.seq = p.seq /\ tx.tail.hash = HashOf(p)
      BY <2>1, <2>3 DEF EndsChain
    <3>2. CASE p.seq <= n
      BY <1>2, <1>4, <2>1, <3>1, <3>2 DEF EndsChain
    <3>3. CASE ~(p.seq <= n)
      BY <1>2, <1>4, <2>1, <3>1, <3>3 DEF EndsChain, IsLast, HashOf
    <3> QED BY <3>2, <3>3
  <2> QED BY <2>2, <2>3
<1> QED BY <1>5, <1>6, <1>7, <1>8 DEF ChainInv

\* The served version is the newest, so an id that keeps a row keeps it.
LEMMA PruneKeepsServed ==
    ASSUME IInv, NEW j \in Jobs, Prune(j)
    PROVE  ServedInv'
<1>1. PICK n : n = job[j].through
  OBVIOUS
<1>2. /\ n \in Nat /\ audit' = {r \in audit : ~(r.seq <= n)} /\ UNCHANGED tx
      /\ latest' = latest \ {HashOf(r) : r \in Prefix(n)}
  BY <1>1, PruneFacts DEF IInv, Prune
<1>3. \A s \in audit : s.seq \in Nat
  BY DEF IInv, Types
<1>4. \A r, s \in audit : HashOf(r) = HashOf(s) => r = s
  BY DEF HashOf, Hash, IInv, ServedInv, UniqueVersions
<1>5. \A v \in audit' : v \in audit /\ (HashOf(v) \in latest' <=> HashOf(v) \in latest)
  BY <1>2, <1>4 DEF Prefix
<1>6. ASSUME NEW v \in audit, NEW r \in audit', v.id = r.id, IsServed(v)
      PROVE  v \in audit' /\ IsServed(v)'
  <2>1. r.seq <= v.seq
    BY <1>2, <1>6 DEF IsServed
  <2>2. v \in audit'
    BY <1>2, <1>3, <2>1
  <2>3. HashOf(v) \in latest' /\ \A w \in audit' : w.id = v.id =>
            w.seq <= v.seq /\ w.version <= v.version /\ (HashOf(w) \in latest' => w = v)
    BY <1>5, <1>6, <2>2 DEF IsServed
  <2> QED BY <2>2, <2>3 DEF IsServed, HashOf
<1>7. OneServed'
  <2> SUFFICES ASSUME NEW r \in audit' PROVE \E v \in audit' : v.id = r.id /\ IsServed(v)'
    BY DEF OneServed
  <2>1. PICK v \in audit : v.id = r.id /\ IsServed(v)
    BY <1>5 DEF IInv, ServedInv, OneServed
  <2> QED BY <1>6, <2>1
<1>8. UniqueVersions'
  BY <1>5 DEF IInv, ServedInv, UniqueVersions
<1>9. LatestRecorded'
  <2> SUFFICES ASSUME NEW h \in latest' PROVE \E v \in audit' : HashOf(v) = h
    BY DEF LatestRecorded, HashOf
  <2>1. PICK v \in audit : HashOf(v) = h
    BY <1>2 DEF IInv, ServedInv, LatestRecorded
  <2> QED BY <1>2, <2>1 DEF Prefix
<1>10. SupersedesServed'
  <2> SUFFICES ASSUME tx # NoTx,
                      ~(tx.row.supersedes = Genesis /\ \A r \in audit' : r.id # tx.row.id)
               PROVE  /\ tx.row.supersedes = Hash(tx.row.id, tx.row.version - 1)
                      /\ \A r \in audit' : r.id = tx.row.id =>
                             \E v \in audit' : HashOf(v) = tx.row.supersedes /\ IsServed(v)'
    BY <1>2 DEF SupersedesServed, HashOf
  <2>1. /\ tx.row.supersedes = Hash(tx.row.id, tx.row.version - 1)
        /\ \A r \in audit : r.id = tx.row.id =>
               \E v \in audit : HashOf(v) = tx.row.supersedes /\ IsServed(v)
    BY <1>5 DEF IInv, ServedInv, SupersedesServed
  <2>2. ASSUME NEW r \in audit', r.id = tx.row.id
        PROVE  \E v \in audit' : HashOf(v) = tx.row.supersedes /\ IsServed(v)'
    <3>1. PICK v \in audit : HashOf(v) = tx.row.supersedes /\ IsServed(v)
      BY <1>5, <2>1, <2>2
    <3>2. v.id = r.id
      BY <2>1, <2>2, <3>1 DEF HashOf, Hash
    <3> QED BY <1>6, <3>1, <3>2
  <2> QED BY <2>1, <2>2
<1> QED BY <1>7, <1>8, <1>9, <1>10 DEF ServedInv

LEMMA PruneKeeps ==
    ASSUME IInv, NEW j \in Jobs, Prune(j)
    PROVE  IInv'
<1>1. PICK n : n = job[j].through
  OBVIOUS
<1>2. /\ audit' = {r \in audit : ~(r.seq <= n)} /\ watermark' \in [through : Nat, before : Int]
      /\ rawText' = rawText \ Orphans(n)
      /\ job' = [job EXCEPT ![j] = IdleJob(@.runs)] /\ UNCHANGED <<tx, used, today>>
  BY <1>1, PruneFacts DEF IInv, Prune
<1>3. job' \in [Jobs -> JobRows]
  BY <1>2 DEF IInv, Types, JobRows, IdleJob
<1>4. Types'
  BY <1>2, <1>3 DEF IInv, Types
<1>5. NoTextWithoutRecord'
  BY <1>2 DEF IInv, NoTextWithoutRecord, Orphans, Prefix
<1> QED BY <1>4, <1>5, PruneKeepsChain, PruneKeepsServed DEF IInv

-----------------------------------------------------------------------------
\* What neither writes a row nor opens a transaction.
LEMMA OtherKeeps ==
    ASSUME IInv, UNCHANGED <<audit, latest, rawText, watermark, used>>, tx' = tx \/ tx' = NoTx,
           job' \in [Jobs -> JobRows], today' \in Nat
    PROVE  IInv'
<1>1. Types'
  BY DEF IInv, Types
<1>2. ChainInv'
  BY DEF IInv, ChainInv, UniqueSeqs, HasLast, IsLast, Linked, IsFirst, TailHolds, EndsChain
<1>3. ServedInv'
  BY DEF IInv, ServedInv, OneServed, IsServed, UniqueVersions, LatestRecorded, SupersedesServed
<1> QED BY <1>1, <1>2, <1>3 DEF IInv, NoTextWithoutRecord

\* The bounds of a run are positions.
LEMMA FindBounds ==
    ASSUME Types, HasLast, NEW j \in Jobs,
           (\E retain \in RetainDays : FindKept(j, retain)) \/ FindLast(j)
    PROVE  job' \in [Jobs -> JobRows]
<1>1. Seqs \in SUBSET Nat /\ \A m \in Seqs : m # 0
  BY DEF Seqs, Types
<1>2. job \in [Jobs -> JobRows] /\ today \in Nat
  BY DEF Types
<1>3. ASSUME NEW retain \in RetainDays, FindKept(j, retain) PROVE job' \in [Jobs -> JobRows]
  <2> DEFINE cutoff == today - retain
             through == IF Kept(cutoff) = {} THEN 0 ELSE Lowest(Kept(cutoff)) - 1
             phase == IF Kept(cutoff) = {} THEN "unbounded" ELSE "bounded"
  <2>1. cutoff \in Int
    BY <1>2, RetentionAssumption
  <2>2. Kept(cutoff) \subseteq Seqs
    BY DEF Kept, Seqs
  <2> HIDE DEF cutoff
  <2>3. through \in Nat
    <3>1. CASE Kept(cutoff) = {}
      BY <3>1
    <3>2. CASE Kept(cutoff) # {}
      <4>1. Kept(cutoff) \in SUBSET Nat
        BY <1>1, <2>2
      <4>2. Lowest(Kept(cutoff)) \in Kept(cutoff)
        BY <3>2, <4>1, LowestIsLeast
      <4>3. Lowest(Kept(cutoff)) \in Nat \ {0}
        BY <1>1, <2>2, <4>1, <4>2
      <4> QED BY <3>2, <4>3
    <3> QED BY <3>1, <3>2
  <2>4. job[j].runs + 1 \in Nat
    BY <1>2 DEF JobRows
  <2>5. job' = [job EXCEPT ![j] =
           [phase |-> phase, cutoff |-> cutoff, through |-> through, runs |-> job[j].runs + 1]]
    BY <1>2, <1>3 DEF FindKept, cutoff
  <2>6. phase \in {"idle", "unbounded", "bounded"}
    OBVIOUS
  <2> HIDE DEF through, phase
  <2> QED BY <1>2, <2>1, <2>3, <2>4, <2>5, <2>6 DEF JobRows
<1>4. ASSUME FindLast(j) PROVE job' \in [Jobs -> JobRows]
  <2>1. Highest(Seqs) \in Nat
    <3>1. CASE audit = {}
      BY <3>1 DEF Highest, Seqs
    <3>2. CASE audit # {}
      <4>1. PICK p \in audit : IsLast(p)
        BY <3>2 DEF HasLast
      <4>2. p.seq \in Seqs /\ \A m \in Seqs : m <= p.seq
        BY <4>1 DEF Seqs, IsLast
      <4> QED BY <1>1, <4>2 DEF Highest
    <3> QED BY <3>1, <3>2
  <2> DEFINE t == [job[j] EXCEPT !.phase = "bounded", !.through = Highest(Seqs)]
  <2>2. job[j] \in JobRows
    BY <1>2
  <2>3. t \in JobRows
    BY <2>1, <2>2 DEF JobRows
  <2>4. job' = [job EXCEPT ![j] = t]
    BY <1>2, <1>4 DEF FindLast
  <2> QED BY <1>2, <2>3, <2>4
<1> QED BY <1>3, <1>4

LEMMA FindKeeps ==
    ASSUME IInv, NEW j \in Jobs, (\E retain \in RetainDays : FindKept(j, retain)) \/ FindLast(j)
    PROVE  IInv'
<1>1. job' \in [Jobs -> JobRows] /\ today \in Nat
  BY FindBounds DEF IInv, Types, ChainInv
<1> QED BY <1>1, OtherKeeps DEF FindKept, FindLast, texts

LEMMA LeaveAloneKeeps ==
    ASSUME IInv, NEW j \in Jobs, LeaveAlone(j)
    PROVE  IInv'
<1>1. job' \in [Jobs -> JobRows] /\ today' \in Nat
  BY DEF LeaveAlone, IdleJob, JobRows, IInv, Types
<1> QED BY <1>1, OtherKeeps DEF LeaveAlone, texts

\* The initial states satisfy the invariant, and every step keeps it.
LEMMA InitHolds == Init => IInv
<1> SUFFICES ASSUME Init PROVE IInv
  OBVIOUS
<1>1. Types
  BY DEF Init, Types, IdleJob, JobRows, NoWatermark
<1>2. ChainInv
  BY DEF Init, ChainInv, UniqueSeqs, HasLast, Linked, TailHolds
<1>3. ServedInv /\ NoTextWithoutRecord
  BY DEF Init, ServedInv, OneServed, UniqueVersions, LatestRecorded, SupersedesServed,
         NoTextWithoutRecord
<1> QED BY <1>1, <1>2, <1>3 DEF IInv

LEMMA StepKeeps == IInv /\ [Next]_vars => IInv'
<1> SUFFICES ASSUME IInv, [Next]_vars PROVE IInv'
  OBVIOUS
<1>1. job \in [Jobs -> JobRows] /\ today \in Nat
  BY DEF IInv, Types
<1>2. CASE Writer
  <2>1. CASE Rollback
    BY <1>1, <2>1, OtherKeeps DEF Rollback, texts
  <2> QED BY <1>2, <2>1, BeginTurnKeeps, BeginAttestKeeps, AppendKeeps DEF Writer
<1>3. CASE Event
  BY <1>1, <1>3, OtherKeeps DEF Event, OwnerOf, InsertEvent
<1>4. CASE Job
  BY <1>4, FindKeeps, PruneKeeps, LeaveAloneKeeps DEF Job
<1>5. CASE Tick
  <2>1. today' \in Nat
    BY <1>1, <1>5 DEF Tick
  <2> QED BY <1>1, <1>5, <2>1, OtherKeeps DEF Tick, texts
<1>6. CASE Finished \/ UNCHANGED vars
  BY <1>1, <1>6, OtherKeeps DEF Finished, vars, texts
<1> QED BY <1>2, <1>3, <1>4, <1>5, <1>6 DEF Next

-----------------------------------------------------------------------------
\* queries.ts: whatever runs overlap with whatever writers, what is left is one
\* linked stretch whose gap, if any, lies under the watermark.
THEOREM PruningKeepsAStretch == Spec => []SurvivorsLinked
<1>1. IInv => SurvivorsLinked
  <2> SUFFICES ASSUME IInv, NEW r \in audit, IsFirst(r) PROVE r.seq = Lowest(Seqs)
    BY DEF IInv, ChainInv, UniqueSeqs, Linked, SurvivorsLinked
  <2>1. Seqs \in SUBSET Nat /\ r.seq \in Seqs /\ \A m \in Seqs : r.seq <= m
    BY DEF Seqs, IsFirst, IInv, Types
  <2>2. Lowest(Seqs) \in Seqs /\ \A m \in Seqs : Lowest(Seqs) <= m
    BY <2>1, LowestIsLeast
  <2>3. r.seq \in Nat /\ Lowest(Seqs) \in Nat
    BY <2>1, <2>2
  <2>4. r.seq <= Lowest(Seqs) /\ Lowest(Seqs) <= r.seq
    BY <2>1, <2>2
  <2> QED BY <2>3, <2>4
<1> QED BY <1>1, InitHolds, StepKeeps, PTL DEF Spec

\* raw_text goes in the transaction that deletes the last record of its id.
THEOREM TextLeavesWithRecord == Spec => []NoTextWithoutRecord
<1>1. IInv => NoTextWithoutRecord
  BY DEF IInv
<1> QED BY <1>1, InitHolds, StepKeeps, PTL DEF Spec

\* queries.ts, attest/store.ts: an id that still has a record has one that is
\* served, though its older versions were pruned or an attestation of it was
\* open while they were.
THEOREM OneVersionIsServed == Spec => []ServedVersion
<1>1. IInv => ServedVersion
  <2> SUFFICES ASSUME IInv PROVE ServedVersion
    OBVIOUS
  <2>1. ASSUME NEW row \in audit
        PROVE  \E v \in audit : {w \in audit : w.id = row.id /\ HashOf(w) \in latest} = {v}
    <3>1. PICK v \in audit : v.id = row.id /\ IsServed(v)
      BY DEF IInv, ServedInv, OneServed
    <3>2. {w \in audit : w.id = row.id /\ HashOf(w) \in latest} = {v}
      BY <3>1 DEF IsServed
    <3> QED BY <3>2
  <2>2. latest \subseteq {HashOf(row) : row \in audit}
    BY DEF IInv, ServedInv, LatestRecorded
  <2> QED BY <2>1, <2>2 DEF ServedVersion
<1> QED BY <1>1, InitHolds, StepKeeps, PTL DEF Spec

\* writeRetentionState: records disappear only under the watermark, and it
\* never moves back, whatever windows the runs apply and in whatever order.
THEOREM WatermarkIsSound == Spec => WatermarkCoversDeletions
<1> DEFINE Covered == /\ \A row \in audit \ audit' : row.seq <= watermark'.through
                      /\ watermark.through <= watermark'.through
                      /\ watermark.before <= watermark'.before
<1>1. IInv /\ [Next]_vars => [Covered]_<<audit, watermark>>
  <2> SUFFICES ASSUME IInv, [Next]_vars, <<audit, watermark>>' # <<audit, watermark>> PROVE Covered
    OBVIOUS
  <2>1. /\ watermark.through \in Nat /\ watermark.before \in Int
        /\ \A row \in audit : row.seq \in Nat
    BY DEF IInv, Types
  <2>2. ASSUME NEW j \in Jobs, Prune(j) PROVE Covered
    <3>1. PICK n : n = job[j].through
      OBVIOUS
    <3>2. /\ n \in Nat /\ audit' = {r \in audit : ~(r.seq <= n)}
          /\ watermark' \in [through : Nat, before : Int]
          /\ n <= watermark'.through /\ watermark.through <= watermark'.through
          /\ watermark.before <= watermark'.before
      BY <2>2, <3>1, PruneFacts DEF IInv
    <3> QED BY <2>1, <3>2
  <2>3. ASSUME NEW keepText, CommitAppend(keepText) PROVE Covered
    BY <2>1, <2>3 DEF CommitAppend
  <2>4. \/ \E j \in Jobs : Prune(j)
        \/ \E keepText \in StoreRawText : CommitAppend(keepText)
    BY DEF Next, Writer, BeginTurn, BeginAttest, Rollback, Event, OwnerOf, InsertEvent,
           Job, FindKept, FindLast, LeaveAlone, Tick, Finished, vars
  <2> QED BY <2>2, <2>3, <2>4
<1>2. (IInv /\ IInv') /\ [Next]_vars => [Covered]_<<audit, watermark>>
  BY <1>1
<1> QED BY <1>2, InitHolds, StepKeeps, PTL DEF Spec, WatermarkCoversDeletions

\* orphanAuditIds: a run takes the impressions of the ids that lose their last
\* record and of no other.
THEOREM EventsFollowRecords == Spec => EventsLeaveWithRecord
<1> DEFINE Follow == \A i \in events \cap RecordedIds(audit) :
                         i \in events' <=> i \in RecordedIds(audit')
<1>1. [Next]_vars => [Follow]_vars
  <2> SUFFICES ASSUME Next PROVE Follow
    OBVIOUS
  <2>1. ASSUME NEW j \in Jobs, Prune(j) PROVE Follow
    <3>1. PICK n : n = job[j].through
      OBVIOUS
    <3>2. audit' = audit \ Prefix(n) /\ events' = events \ Orphans(n)
      BY <2>1, <3>1 DEF Prune
    <3> QED BY <3>2 DEF Orphans, RecordedIds, Prefix
  <2>2. ASSUME NEW keepText, CommitAppend(keepText) PROVE Follow
    BY <2>2 DEF CommitAppend, RecordedIds
  <2>3. \/ \E j \in Jobs : Prune(j)
        \/ \E keepText \in StoreRawText : CommitAppend(keepText)
        \/ audit' = audit /\ events \subseteq events'
    BY DEF Next, Writer, BeginTurn, BeginAttest, Rollback, Event, OwnerOf, InsertEvent,
           Job, FindKept, FindLast, LeaveAlone, Tick, Finished, vars, texts
  <2>4. CASE audit' = audit /\ events \subseteq events'
    BY <2>4 DEF RecordedIds
  <2> QED BY <2>1, <2>2, <2>3, <2>4
<1> QED BY <1>1, PTL DEF Spec, EventsLeaveWithRecord

-----------------------------------------------------------------------------
(***************************************************************************)
(* What the tables and the transaction hold.  That a record has one of two *)
(* versions rests on what an attestation checks: the version it supersedes *)
(* supersedes none.                                                        *)
(***************************************************************************)
Hashes == [id: TurnIds, version: Versions]

FirstHasVersionOne(row) == row.supersedes = Genesis => row.version = 1

TxShaped ==
    tx # NoTx =>
        /\ tx.tail.hash \in {Genesis} \cup Hashes
        /\ tx.row.id \in TurnIds /\ tx.row.version \in Versions /\ tx.row.ts \in Days
        /\ tx.row.supersedes \in {Genesis} \cup Hashes /\ FirstHasVersionOne(tx.row)

Shaped ==
    /\ \A r \in audit : r \in Rows /\ FirstHasVersionOne(r)
    /\ latest \subseteq Hashes
    /\ rawText \subseteq TurnIds /\ events \subseteq TurnIds /\ pending \subseteq TurnIds
    /\ \A j \in Jobs : job[j].runs <= MaxRuns
    /\ used \subseteq TurnIds /\ today \in Days
    /\ TxShaped

LEMMA ShapedInit == Init => Shaped
<1> SUFFICES ASSUME Init PROVE Shaped
  OBVIOUS
<1>1. \A j \in Jobs : job[j].runs <= MaxRuns
  BY RetentionAssumption DEF Init, IdleJob
<1>2. today \in Days
  BY RetentionAssumption DEF Init, Days
<1> QED BY <1>1, <1>2 DEF Init, Shaped, TxShaped

LEMMA HashesOfRows ==
    ASSUME Shaped, NEW r \in audit
    PROVE  /\ HashOf(r) \in Hashes /\ HashOf(r) # Genesis
           /\ r.id \in TurnIds /\ r.version \in Versions /\ r.ts \in Days
           /\ r.supersedes = Genesis => r.version = 1
<1>1. /\ r.id \in TurnIds /\ r.version \in Versions /\ r.ts \in Days
      /\ r.supersedes = Genesis => r.version = 1
  BY DEF Shaped, Rows, FirstHasVersionOne
<1>2. HashOf(r) \in Hashes /\ HashOf(r).version = r.version
  BY <1>1 DEF HashOf, Hash, Hashes
<1>3. Genesis.version = 0 /\ r.version # 0
  BY <1>1 DEF Genesis, Versions
<1> QED BY <1>1, <1>2, <1>3

LEMMA TailHash ==
    ASSUME IInv, Shaped
    PROVE  LogTail.hash \in {Genesis} \cup Hashes
<1>1. CASE audit = {}
  BY <1>1 DEF LogTail
<1>2. CASE audit # {}
  <2>1. EndsChain(LogTail)
    BY TailIsLast DEF IInv, ChainInv
  <2>2. PICK p \in audit : LogTail.hash = HashOf(p)
    BY <1>2, <2>1 DEF EndsChain
  <2> QED BY <2>2, HashesOfRows
<1> QED BY <1>1, <1>2

LEMMA ShapedStep == IInv /\ IInv' /\ Shaped /\ [Next]_vars => Shaped'
<1> SUFFICES ASSUME IInv, IInv', Shaped, [Next]_vars PROVE Shaped'
  OBVIOUS
<1>1. ASSUME NEW i \in TurnIds, NEW ts \in Days, BeginTurn(i, ts) PROVE Shaped'
  <2>1. TxShaped'
    <3>1. /\ tx' = [kind |-> "turn", tail |-> LogTail,
                    row |-> [id |-> i, version |-> 1, ts |-> ts, supersedes |-> Genesis]]
      BY <1>1 DEF BeginTurn
    <3> QED BY <3>1, TailHash DEF TxShaped, FirstHasVersionOne, Versions
  <2> QED BY <1>1, <2>1 DEF BeginTurn, Shaped, texts
<1>2. ASSUME NEW row \in audit, BeginAttest(row) PROVE Shaped'
  <2>1. TxShaped'
    <3>1. /\ tx' = [kind |-> "attest", tail |-> LogTail,
                    row |-> [id |-> row.id, version |-> row.version + 1, ts |-> row.ts,
                             supersedes |-> HashOf(row)]]
          /\ row.supersedes = Genesis
      BY <1>2 DEF BeginAttest, Attestable
    <3>2. row.version + 1 = 2
      BY <3>1, HashesOfRows
    <3> QED BY <3>1, <3>2, TailHash, HashesOfRows DEF TxShaped, FirstHasVersionOne, Versions
  <2> QED BY <1>2, <2>1 DEF BeginAttest, Shaped, texts
<1>3. ASSUME NEW keepText \in StoreRawText, CommitAppend(keepText) PROVE Shaped'
  <2>1. tx # NoTx /\ audit' = audit \cup {Appended(tx)} /\ tx' = NoTx
    BY <1>3 DEF CommitAppend
  <2>2. /\ tx.tail.seq \in Nat /\ tx.tail.hash \in {Genesis} \cup Hashes
        /\ tx.row.id \in TurnIds /\ tx.row.version \in Versions /\ tx.row.ts \in Days
        /\ tx.row.supersedes \in {Genesis} \cup Hashes /\ FirstHasVersionOne(tx.row)
    BY <2>1 DEF Shaped, TxShaped, IInv, Types
  <2>3. Appended(tx) \in Rows /\ FirstHasVersionOne(Appended(tx))
    <3>1. tx.tail.seq + 1 \in Nat \ {0}
      BY <2>2
    <3> QED BY <2>2, <3>1 DEF Appended, Rows, Hashes, FirstHasVersionOne
  <2>4. latest' \subseteq Hashes
    <3>1. HashOf(tx.row) \in Hashes
      BY <2>2 DEF HashOf, Hash, Hashes
    <3> QED BY <1>3, <3>1 DEF CommitAppend, NowLatest, Shaped
  <2>5. rawText' \subseteq TurnIds
    BY <1>3, <2>2 DEF CommitAppend, Shaped
  <2> QED BY <1>3, <2>1, <2>3, <2>4, <2>5 DEF CommitAppend, Shaped, TxShaped
<1>4. CASE Rollback
  BY <1>4 DEF Rollback, Shaped, TxShaped, texts
<1>5. ASSUME NEW i \in EventIds, OwnerOf(i) \/ InsertEvent(i) PROVE Shaped'
  <2>1. i \in TurnIds
    BY RetentionAssumption
  <2> QED BY <1>5, <2>1 DEF OwnerOf, InsertEvent, Shaped, TxShaped
<1>6. ASSUME NEW j \in Jobs, NEW retain \in RetainDays, FindKept(j, retain) PROVE Shaped'
  <2>1. job \in [Jobs -> JobRows]
    BY DEF IInv, Types
  <2>2. job[j].runs < MaxRuns /\ job[j].runs \in Nat /\ MaxRuns \in Nat
    BY <1>6, <2>1, RetentionAssumption DEF FindKept, JobRows
  <2>3. \A i \in Jobs : job'[i].runs = IF i = j THEN job[i].runs + 1 ELSE job[i].runs
    BY <1>6, <2>1 DEF FindKept
  <2>4. \A i \in Jobs : job'[i].runs <= MaxRuns
    BY <2>2, <2>3 DEF Shaped
  <2> QED BY <1>6, <2>4 DEF FindKept, Shaped, TxShaped, texts
<1>7. ASSUME NEW j \in Jobs, FindLast(j) PROVE Shaped'
  <2>1. job \in [Jobs -> JobRows]
    BY DEF IInv, Types
  <2>2. \A i \in Jobs : job'[i].runs = job[i].runs
    BY <1>7, <2>1 DEF FindLast, JobRows
  <2> QED BY <1>7, <2>2 DEF FindLast, Shaped, TxShaped, texts
<1>8. ASSUME NEW j \in Jobs, Prune(j) PROVE Shaped'
  <2>1. job \in [Jobs -> JobRows]
    BY DEF IInv, Types
  <2>2. \A i \in Jobs : job'[i].runs = job[i].runs
    BY <1>8, <2>1 DEF Prune, IdleJob, JobRows
  <2>3. audit' \subseteq audit /\ latest' \subseteq latest /\ events' \subseteq events
        /\ rawText' \subseteq rawText
    BY <1>8 DEF Prune
  <2> QED BY <1>8, <2>2, <2>3 DEF Prune, Shaped, TxShaped
<1>9. ASSUME NEW j \in Jobs, LeaveAlone(j) PROVE Shaped'
  <2>1. job \in [Jobs -> JobRows]
    BY DEF IInv, Types
  <2>2. \A i \in Jobs : job'[i].runs = job[i].runs
    BY <1>9, <2>1 DEF LeaveAlone, IdleJob, JobRows
  <2> QED BY <1>9, <2>2 DEF LeaveAlone, Shaped, TxShaped, texts
<1>10. CASE Tick
  <2>1. today' \in Days
    BY <1>10, RetentionAssumption DEF Tick, Shaped, Days
  <2> QED BY <1>10, <2>1 DEF Tick, Shaped, TxShaped, texts
<1>11. CASE Finished \/ UNCHANGED vars
  BY <1>11 DEF Finished, vars, texts, Shaped, TxShaped
<1> QED BY <1>1, <1>2, <1>3, <1>4, <1>5, <1>6, <1>7, <1>8, <1>9, <1>10, <1>11
        DEF Next, Writer, Event, Job

\* queries.ts, store.ts: whatever is appended, attested, reported and deleted
\* in whatever order, the tables, the watermark and the runs hold what they
\* may; a record has one of two versions and a run counts no more than allowed.
THEOREM RetentionTypeCorrect == Spec => []TypeOK
<1>1. IInv /\ Shaped => TypeOK
  <2> SUFFICES ASSUME IInv, Shaped PROVE TypeOK
    OBVIOUS
  <2>1. audit \subseteq Rows
    BY DEF Shaped
  <2>2. \A j \in Jobs : /\ job[j].phase \in {"idle", "unbounded", "bounded"}
                        /\ job[j].through \in Nat /\ job[j].runs \in 0..MaxRuns
    BY RetentionAssumption DEF IInv, Types, JobRows, Shaped
  <2>3. watermark.through \in Nat /\ watermark.before \in Int
    BY DEF IInv, Types
  <2> QED BY <2>1, <2>2, <2>3 DEF Shaped, Hashes, TypeOK
<1> QED BY <1>1, ShapedInit, ShapedStep, InitHolds, StepKeeps, PTL DEF Spec
=============================================================================
