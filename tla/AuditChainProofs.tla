-------------------------- MODULE AuditChainProofs --------------------------
(***************************************************************************)
(* Theorems about AuditChain, for any calls, conversations, users, caps    *)
(* and number of days, and about Impressions, for any decisions, day,      *)
(* window and number of renders.                                           *)
(*                                                                         *)
(* The chain is linked because appending is exclusive: a call between its  *)
(* reads and its COMMIT holds the app's row (Exclusive), so the tail it    *)
(* read is still the tail when it inserts (TailIsFresh), and positions     *)
(* have no hole for a new row to fall into (Contiguous).                   *)
(*                                                                         *)
(* An overview adds up because each impression is of a turn that stood on  *)
(* the screen (ReportsAreOfDisplayed), what stood there was served         *)
(* (ScreenIsHonest), and both queries count what was there before one      *)
(* time (OverviewIsFixed).                                                 *)
(***************************************************************************)
EXTENDS AuditChain, Impressions, FiniteSetTheorems, WellFoundedInduction, TLAPS

-----------------------------------------------------------------------------
(* The inductive invariant.                                                *)

\* A call that has started its evaluation has a conversation, and one that
\* has decided has an outcome.
WorkUnderWay ==
    \A c \in Calls :
        /\ pc[c] \in {"classifying", "waiting", "writing"} => work[c].conv \in Conversations
        /\ pc[c] \in {"waiting", "writing"} => work[c].verdict \in Outcomes

\* Only the holder of the app's row is inside a transaction.
Exclusive == \A c \in Calls : pc[c] \in InTransaction => lock = c

\* What it read of the chain's tail still holds.
TailIsFresh ==
    \A c \in Calls : pc[c] \in InTransaction =>
        snap[c].seq = Tail.seq /\ snap[c].hash = Tail.hash

\* So does the version an attestation is about to supersede.
CurrentIsThere ==
    \A c \in Calls : pc[c] = "attesting" =>
        \E row \in audit : HashOf(row) = snap[c].current /\ row.version = 1

\* A row that supersedes nothing is the first version of its turn.
FirstVersions == \A row \in audit : row.supersedes = NoHash => row.version = 1

\* The positions taken are 1 to the number of rows.
Contiguous == \E n \in Nat : {row.seq : row \in audit} = 1..n

IInv ==
    /\ TypeOK
    /\ WorkUnderWay /\ Exclusive /\ TailIsFresh /\ CurrentIsThere
    /\ FirstVersions /\ Contiguous /\ ChainLinked

-----------------------------------------------------------------------------
(* The tail of a chain, and what appending to it does.                     *)

\* readLatestAudit returns the last row, whose position is the chain's length.
LEMMA TailIsLast ==
    ASSUME TypeOK, Contiguous, ChainLinked
    PROVE  /\ Tail.seq \in Nat
           /\ Tail.hash \in Hashes \cup {NoHash}
           /\ {row.seq : row \in audit} = 1..Tail.seq
           /\ Tail.seq = 0 => Tail.hash = NoHash
           /\ Tail.seq # 0 => \E p \in audit : p.seq = Tail.seq /\ Tail.hash = HashOf(p)
<1>1. PICK n \in Nat : {row.seq : row \in audit} = 1..n
  BY DEF Contiguous
<1>2. CASE audit = {}
  <2>1. n = 0
    BY <1>1, <1>2
  <2>2. Tail = [seq |-> 0, hash |-> NoHash]
    BY <1>2 DEF Tail
  <2> QED
    BY <1>1, <2>1, <2>2
<1>3. CASE audit # {}
  <2>1. \A row \in audit : row.seq \in 1..n
    BY <1>1
  <2>2. n \in 1..n
    BY <1>3, <2>1
  <2>3. \E row \in audit : \A other \in audit : other.seq <= row.seq
    BY <1>1, <2>1, <2>2
  <2>4. TailRow \in audit /\ \A other \in audit : other.seq <= TailRow.seq
    BY <2>3 DEF TailRow
  <2>5. TailRow.seq = n
    BY <1>1, <2>1, <2>2, <2>4
  <2>6. Tail = [seq |-> TailRow.seq, hash |-> HashOf(TailRow)]
    BY <1>3 DEF Tail
  <2>7. HashOf(TailRow) \in Hashes
    BY <2>4 DEF TypeOK, Rows, HashOf, Hash, Hashes
  <2> QED
    BY <1>1, <2>2, <2>4, <2>5, <2>6, <2>7
<1> QED
  BY <1>2, <1>3

\* A row put behind the tail keeps the positions without a hole and the
\* chain linked.
LEMMA AppendKeepsChain ==
    ASSUME TypeOK, Contiguous, ChainLinked,
           NEW row \in Rows,
           row.seq = Tail.seq + 1, row.prev = Tail.hash,
           audit' = audit \cup {row}
    PROVE  Contiguous' /\ ChainLinked'
<1> DEFINE n == Tail.seq
<1>1. /\ n \in Nat
      /\ {r.seq : r \in audit} = 1..n
      /\ n = 0 => Tail.hash = NoHash
      /\ n # 0 => \E p \in audit : p.seq = n /\ Tail.hash = HashOf(p)
  BY TailIsLast
<1>2. {r.seq : r \in audit'} = 1..(n + 1)
  <2>1. {r.seq : r \in audit'} = {r.seq : r \in audit} \cup {row.seq}
    OBVIOUS
  <2>2. (1..n) \cup {n + 1} = 1..(n + 1)
    BY <1>1
  <2> HIDE DEF n
  <2> QED
    BY <1>1, <2>1, <2>2 DEF n
<1>3. Contiguous'
  BY <1>1, <1>2 DEF Contiguous
<1>4. \A r \in audit : r.seq \in 1..n
  BY <1>1
<1>5. \A r, s \in audit' : r.seq = s.seq => r = s
  BY <1>1, <1>4 DEF ChainLinked
<1>6. ASSUME NEW r \in audit'
      PROVE  IF r.seq = 1 THEN r.prev = NoHash
             ELSE \E p \in audit' : p.seq = r.seq - 1 /\ r.prev = HashOf(p)
  <2>1. CASE r \in audit
    BY <2>1 DEF ChainLinked
  <2>2. CASE r = row
    BY <1>1, <2>2
  <2> QED
    BY <2>1, <2>2
<1> QED
  BY <1>3, <1>5, <1>6 DEF ChainLinked

-----------------------------------------------------------------------------
(* What the operations compute is well typed.                              *)

\* An override combined with the stored caps is again a caps value.
LEMMA StricterCapsType ==
    ASSUME NEW a \in CapValues, NEW b \in CapValues
    PROVE  StricterCaps(a, b) \in CapValues
BY DEF CapValues, StricterCaps, Lower, Higher

\* Updating a cap row gives a cap row.
LEMMA NextCapRowType ==
    ASSUME NEW row \in CapRows, NEW served \in BOOLEAN, NEW user \in SomeUser
    PROVE  NextCapRow(row, served, user) \in CapRows
BY DEF CapRows, NextCapRow

\* The row an evaluation is about to insert.
LEMMA TurnRowType ==
    ASSUME IInv, NEW c \in Calls, pc[c] = "writing"
    PROVE  /\ TurnRow(c) \in Rows
           /\ TurnRow(c).seq = Tail.seq + 1 /\ TurnRow(c).prev = Tail.hash
           /\ TurnRow(c).version = 1
           /\ TurnRow(c).id \in Ids
           /\ Outcome(c) \in Outcomes
<1>1. work[c] \in Works /\ snap[c] \in Snaps
  BY DEF IInv, TypeOK
<1>2. work[c].conv \in Conversations /\ work[c].verdict \in Outcomes
  BY DEF IInv, WorkUnderWay
<1>3. snap[c].seq = Tail.seq /\ snap[c].hash = Tail.hash
  BY DEF IInv, TailIsFresh, InTransaction
<1>4. Outcome(c) \in Outcomes
  BY <1>2 DEF Outcome, Outcomes
<1>5. TurnId(c) \in Ids
  BY DEF TurnId, Ids
<1>6. /\ snap[c].seq + 1 \in Nat \ {0} /\ snap[c].hash \in Hashes \cup {NoHash}
      /\ work[c].ts \in Days /\ work[c].day \in Days
      /\ work[c].user \in SomeUser /\ work[c].caps \in CapValues
  BY <1>1 DEF Works, Snaps
<1> QED
  BY <1>2, <1>3, <1>4, <1>5, <1>6 DEF TurnRow, Rows

\* The row an attestation is about to insert.
LEMMA AttestedRowType ==
    ASSUME IInv, NEW c \in Calls, pc[c] = "attesting"
    PROVE  /\ AttestedRow(c) \in Rows
           /\ AttestedRow(c).seq = Tail.seq + 1 /\ AttestedRow(c).prev = Tail.hash
           /\ AttestedRow(c).supersedes = snap[c].current
           /\ snap[c].current \in Hashes
<1>1. Current(c) \in audit /\ HashOf(Current(c)) = snap[c].current /\ Current(c).version = 1
  <2>1. PICK row \in audit : HashOf(row) = snap[c].current /\ row.version = 1
    BY DEF IInv, CurrentIsThere
  <2>2. Current(c) \in audit /\ HashOf(Current(c)) = snap[c].current
    BY <2>1 DEF Current
  <2> QED
    BY <2>1, <2>2 DEF HashOf, Hash
<1>2. Current(c) \in Rows
  BY <1>1 DEF IInv, TypeOK
<1>3. HashOf(Current(c)) \in Hashes
  BY <1>1, <1>2 DEF Rows, HashOf, Hash, Hashes
<1>4. /\ snap[c].seq = Tail.seq /\ snap[c].hash = Tail.hash
      /\ snap[c].seq + 1 \in Nat \ {0} /\ snap[c].hash \in Hashes \cup {NoHash}
  BY DEF IInv, TypeOK, TailIsFresh, InTransaction, Snaps
<1> HIDE DEF Current
<1> QED
  BY <1>1, <1>2, <1>3, <1>4 DEF AttestedRow, Attested, Rows

-----------------------------------------------------------------------------
(* The invariant holds initially and is kept by every step.                *)

\* The empty tables satisfy the invariant.
LEMMA InitIInv == Init => IInv
<1> SUFFICES ASSUME Init PROVE IInv
  OBVIOUS
<1> USE DEF Init
<1>1. TypeOK
  <2>1. EmptyCapRow \in CapRows
    BY DEF EmptyCapRow, CapRows, SomeUser, NoIndex
  <2>2. NoHash \in Hashes \cup {NoHash} /\ NoId \in Ids \cup {NoId}
    OBVIOUS
  <2>3. 0 \in Days
    BY ConstantsAssumption DEF Days
  <2>4. NoWork \in Works
    BY <2>3, ConstantsAssumption DEF NoWork, Works, SomeUser, Verdicts
  <2>5. NoSnap \in Snaps
    BY <2>1, <2>2 DEF NoSnap, Snaps
  <2>6. NoReply \in Replies
    BY <2>2 DEF NoReply, Replies, Answers
  <2> QED
    BY <2>1, <2>3, <2>4, <2>5, <2>6 DEF TypeOK, Phases
<1>2. Contiguous
  <2>1. {row.seq : row \in audit} = 1..0
    OBVIOUS
  <2> QED
    BY <2>1 DEF Contiguous
<1> QED
  BY <1>1, <1>2 DEF IInv, WorkUnderWay, Exclusive, TailIsFresh, CurrentIsThere,
                    FirstVersions, ChainLinked, InTransaction

\* A step that inserts nothing leaves the chain and its tail alone.
LEMMA NoInsert ==
    ASSUME IInv, audit' = audit
    PROVE  Contiguous' /\ ChainLinked' /\ FirstVersions' /\ Tail' = Tail
BY DEF IInv, Contiguous, ChainLinked, FirstVersions, Tail, TailRow

\* Who is in no transaction needs no tail.
LEMMA NobodyElse ==
    ASSUME IInv, NEW c \in Calls, lock = c,
           \A d \in Calls : d # c => pc'[d] = pc[d],
           pc'[c] \notin InTransaction
    PROVE  Exclusive' /\ TailIsFresh' /\ CurrentIsThere'
<1>1. \A d \in Calls : pc'[d] \notin InTransaction
  BY DEF IInv, Exclusive
<1> QED
  BY <1>1 DEF Exclusive, TailIsFresh, CurrentIsThere, InTransaction

\* persist's insert and the cap updates of its transaction keep the invariant.
LEMMA InsertTurnKeeps ==
    ASSUME IInv, NEW c \in Calls, pc[c] = "writing", InsertTurn(c)
    PROVE  /\ audit' \subseteq Rows /\ latest' \subseteq Hashes
           /\ capRow' \in [Conversations -> CapRows]
           /\ dayCount' \in [Users \X Days -> Nat]
           /\ Contiguous' /\ ChainLinked' /\ FirstVersions'
<1> DEFINE row == TurnRow(c)
<1>1. /\ row \in Rows /\ row.seq = Tail.seq + 1 /\ row.prev = Tail.hash
      /\ row.version = 1 /\ row.id \in Ids
  BY TurnRowType
<1>2. audit' = audit \cup {row} /\ latest' = latest \cup {HashOf(row)}
  BY DEF InsertTurn
<1>3. /\ capRow' = [capRow EXCEPT ![row.conv] =
                        NextCapRow(snap[c].row, Served(row), row.user)]
      /\ dayCount' = IF Served(row) /\ row.user # NoUser
                     THEN [dayCount EXCEPT ![<<row.user, row.day>>] = @ + 1]
                     ELSE dayCount
  BY DEF InsertTurn
<1> HIDE DEF row
<1>4. row.conv \in Conversations /\ row.user \in SomeUser /\ row.day \in Days
  BY <1>1 DEF Rows
<1>5. NextCapRow(snap[c].row, Served(row), row.user) \in CapRows
  <2>1. snap[c].row \in CapRows
    BY DEF IInv, TypeOK, Snaps
  <2>2. Served(row) \in BOOLEAN
    BY DEF Served
  <2> QED
    BY <1>4, <2>1, <2>2, NextCapRowType
<1>6. HashOf(row) \in Hashes
  BY <1>1 DEF HashOf, Hash, Hashes
<1>7. capRow' \in [Conversations -> CapRows]
  BY <1>3, <1>4, <1>5 DEF IInv, TypeOK
<1>8. dayCount' \in [Users \X Days -> Nat]
  BY <1>3, <1>4 DEF IInv, TypeOK, SomeUser
<1>9. Contiguous' /\ ChainLinked'
  BY <1>1, <1>2, AppendKeepsChain DEF IInv
<1>10. FirstVersions'
  BY <1>1, <1>2 DEF IInv, FirstVersions
<1> QED
  BY <1>1, <1>2, <1>6, <1>7, <1>8, <1>9, <1>10 DEF IInv, TypeOK

\* attest's insert, which moves is_latest to the new version, keeps the invariant.
LEMMA InsertAttestedKeeps ==
    ASSUME IInv, NEW c \in Calls, pc[c] = "attesting", InsertAttested(c)
    PROVE  /\ audit' \subseteq Rows /\ latest' \subseteq Hashes
           /\ Contiguous' /\ ChainLinked' /\ FirstVersions'
           /\ UNCHANGED <<capRow, dayCount>>
<1> DEFINE row == AttestedRow(c)
<1>1. /\ row \in Rows /\ row.seq = Tail.seq + 1 /\ row.prev = Tail.hash
      /\ row.supersedes = snap[c].current /\ snap[c].current \in Hashes
  BY AttestedRowType
<1>2. /\ audit' = audit \cup {row}
      /\ latest' = (latest \ {snap[c].current}) \cup {HashOf(row)}
      /\ UNCHANGED <<capRow, dayCount>>
  BY DEF InsertAttested
<1> HIDE DEF row
<1>3. HashOf(row) \in Hashes
  BY <1>1 DEF HashOf, Hash, Hashes, Rows
<1>4. NoHash \notin Hashes
  BY DEF NoHash, Hash, Hashes
<1>5. Contiguous' /\ ChainLinked'
  BY <1>1, <1>2, AppendKeepsChain DEF IInv
<1>6. FirstVersions'
  BY <1>1, <1>2, <1>4 DEF IInv, FirstVersions
<1> QED
  BY <1>1, <1>2, <1>3, <1>5, <1>6 DEF IInv, TypeOK

\* The tail as a transaction reads it.
LEMMA TailType ==
    ASSUME IInv
    PROVE  Tail.seq \in Nat /\ Tail.hash \in Hashes \cup {NoHash}
BY TailIsLast DEF IInv

\* What a call has computed, once it has decided or failed.
LEMMA DecidedType ==
    ASSUME TypeOK, NEW w \in Works, NEW found \in {"rule", "serve", "no_fill"}
    PROVE  /\ Decided(w, found) \in Works
           /\ Decided(w, found).conv = w.conv
           /\ Decided(w, found).verdict \in Outcomes
<1>1. Decided(w, found).verdict \in Outcomes
  BY DEF Decided, Works, Verdicts, Outcomes
<1> QED
  BY <1>1 DEF TypeOK, Decided, Works, Verdicts

\* The work fail-closed goes on with is well formed.
LEMMA FailedType ==
    ASSUME TypeOK, NEW w \in Works
    PROVE  /\ FailedWork(w) \in Works
           /\ FailedWork(w).conv = w.conv
           /\ FailedWork(w).verdict = "error"
BY ConstantsAssumption DEF TypeOK, FailedWork, Works, Verdicts, Outcomes

\* So is the work of a call that has decided nothing.
LEMMA NothingType ==
    NoWork \in Works /\ NoSnap \in Snaps
BY ConstantsAssumption DEF NoWork, Works, Verdicts, SomeUser, NoSnap, Snaps, Days,
   EmptyCapRow, CapRows, NoIndex

\* However an evaluation fails, it goes on to record the failure or answers.
LEMMA FailureType ==
    ASSUME IInv, NEW c \in Calls, pc[c] \in {"classifying", "waiting", "writing"},
           FailClosed(c) \/ AnswerUnrecorded(c)
    PROVE  /\ work' \in [Calls -> Works] /\ snap' \in [Calls -> Snaps]
           /\ reply' \in [Calls -> Replies] /\ pc' \in [Calls -> Phases]
           /\ WorkUnderWay'
           /\ pc'[c] \in {"waiting", "done"}
           /\ \A d \in Calls : d # c => pc'[d] = pc[d] /\ snap'[d] = snap[d]
<1>1. /\ work \in [Calls -> Works] /\ snap \in [Calls -> Snaps]
      /\ reply \in [Calls -> Replies] /\ pc \in [Calls -> Phases] /\ today \in Days
  BY DEF IInv, TypeOK
<1>2. CASE FailClosed(c)
  <2> USE <1>2 DEF FailClosed
  <2>1. work'[c] = FailedWork(work[c])
    BY <1>1
  <2>2. work'[c] \in Works /\ work'[c].conv = work[c].conv /\ work'[c].verdict = "error"
    BY <1>1, <2>1, FailedType DEF IInv
  <2>3. work' \in [Calls -> Works] /\ \A d \in Calls : d # c => work'[d] = work[d]
    BY <1>1, <2>2
  <2>4. WorkUnderWay'
    BY <1>1, <2>2, <2>3 DEF IInv, WorkUnderWay, Outcomes
  <2> QED
    BY <1>1, <2>3, <2>4, NothingType DEF Phases
<1>3. CASE AnswerUnrecorded(c)
  <2> USE <1>3 DEF AnswerUnrecorded
  <2>1. TurnId(c) \in Ids
    BY DEF TurnId, Ids
  <2>2. WorkUnderWay'
    BY <1>1 DEF IInv, WorkUnderWay
  <2> QED
    BY <1>1, <2>1, <2>2, NothingType DEF Phases, Replies, Answers, Outcomes
<1> QED
  BY <1>2, <1>3

\* Every step of an evaluate call keeps the invariant.
LEMMA EvaluateKeepsIInv ==
    ASSUME IInv, NEW c \in Calls, Evaluate(c)
    PROVE  IInv'
<1> USE DEF InTransaction
<1>1. CASE \E conv \in Conversations, user \in SomeUser, override \in Overrides :
               ReadCaps(c, conv, user, override)
  <2> PICK conv \in Conversations, user \in SomeUser, override \in Overrides :
               ReadCaps(c, conv, user, override)
    BY <1>1
  <2> USE DEF ReadCaps
  <2>1. StricterCaps(AppCaps, override) \in CapValues
    BY ConstantsAssumption, StricterCapsType
  <2>2. PICK verdict \in Verdicts :
            work' = [work EXCEPT ![c] =
                [conv |-> conv, user |-> user, caps |-> StricterCaps(AppCaps, override),
                 day |-> today, ts |-> today, verdict |-> verdict]]
    BY DEF Verdicts, Outcomes
  <2>3. TypeOK'
    BY <2>1, <2>2 DEF IInv, TypeOK, Works, Phases, tables
  <2>4. WorkUnderWay'
    BY <2>2 DEF IInv, TypeOK, WorkUnderWay
  <2>5. Exclusive' /\ TailIsFresh' /\ CurrentIsThere'
    BY NoInsert DEF IInv, TypeOK, Exclusive, TailIsFresh, CurrentIsThere, tables
  <2> QED
    BY <2>3, <2>4, <2>5, NoInsert DEF IInv, tables
<1>2. CASE \E found \in {"rule", "serve", "no_fill"} : Decide(c, found)
  <2> PICK found \in {"rule", "serve", "no_fill"} : Decide(c, found)
    BY <1>2
  <2> USE DEF Decide
  <2>1. work[c] \in Works /\ today \in Days
    BY DEF IInv, TypeOK
  <2>2. work'[c] = Decided(work[c], found)
    BY DEF IInv, TypeOK
  <2>3. work'[c] \in Works /\ work'[c].conv = work[c].conv /\ work'[c].verdict \in Outcomes
    BY <2>1, <2>2, DecidedType DEF IInv
  <2>4. work' \in [Calls -> Works]
    BY <2>3 DEF IInv, TypeOK
  <2>5. TypeOK'
    BY <2>4 DEF IInv, TypeOK, Phases, tables
  <2>6. WorkUnderWay'
    BY <2>3 DEF IInv, TypeOK, WorkUnderWay
  <2>7. Exclusive' /\ TailIsFresh' /\ CurrentIsThere'
    BY NoInsert DEF IInv, TypeOK, Exclusive, TailIsFresh, CurrentIsThere, tables
  <2> QED
    BY <2>5, <2>6, <2>7, NoInsert DEF IInv, tables
<1>3. CASE BeginPersist(c)
  <2> USE <1>3 DEF BeginPersist
  <2>1. capRow[work[c].conv] \in CapRows
    BY DEF IInv, TypeOK, WorkUnderWay
  <2>2. DayCount(work[c].user, work[c].day) \in Nat
    BY DEF IInv, TypeOK, DayCount, Works, SomeUser
  <2>3. snap'[c] \in Snaps /\ snap'[c].seq = Tail.seq /\ snap'[c].hash = Tail.hash
    BY <2>1, <2>2, TailType DEF IInv, TypeOK, Snaps
  <2>4. TypeOK'
    BY <2>3 DEF IInv, TypeOK, Phases, tables
  <2>5. WorkUnderWay'
    BY DEF IInv, TypeOK, WorkUnderWay
  <2>6. \A d \in Calls : pc[d] \notin InTransaction
    BY ConstantsAssumption DEF IInv, Exclusive
  <2>7. Exclusive' /\ TailIsFresh' /\ CurrentIsThere'
    BY <2>3, <2>6, NoInsert DEF IInv, TypeOK, Exclusive, TailIsFresh, CurrentIsThere, tables
  <2> QED
    BY <2>4, <2>5, <2>7, NoInsert DEF IInv, tables
<1>4. CASE Commit(c)
  <2> USE <1>4 DEF Commit
  <2>1. /\ audit' \subseteq Rows /\ latest' \subseteq Hashes
        /\ capRow' \in [Conversations -> CapRows]
        /\ dayCount' \in [Users \X Days -> Nat]
        /\ Contiguous' /\ ChainLinked' /\ FirstVersions'
    BY InsertTurnKeeps
  <2>2. Outcome(c) \in Outcomes /\ TurnId(c) \in Ids
    BY TurnRowType DEF TurnId, Ids
  <2>3. reply' \in [Calls -> Replies]
    BY <2>2 DEF IInv, TypeOK, Replies, Answers, ReplyOutcome
  <2>5. TypeOK'
    BY <2>1, <2>3, NothingType DEF IInv, TypeOK, Phases
  <2>6. WorkUnderWay'
    BY DEF IInv, TypeOK, WorkUnderWay
  <2>7. lock = c
    BY DEF IInv, Exclusive
  <2>8. Exclusive' /\ TailIsFresh' /\ CurrentIsThere'
    BY <2>7, NobodyElse DEF IInv, TypeOK
  <2> QED
    BY <2>1, <2>5, <2>6, <2>8 DEF IInv
<1>5. CASE Fail(c)
  <2> USE <1>5 DEF Fail
  <2>1. /\ work' \in [Calls -> Works] /\ snap' \in [Calls -> Snaps]
        /\ reply' \in [Calls -> Replies] /\ pc' \in [Calls -> Phases]
        /\ WorkUnderWay'
        /\ pc'[c] \in {"waiting", "done"}
        /\ \A d \in Calls : d # c => pc'[d] = pc[d] /\ snap'[d] = snap[d]
    BY FailureType
  <2>2. TypeOK'
    BY <2>1 DEF IInv, TypeOK, Released, tables
  <2>3. Exclusive' /\ TailIsFresh' /\ CurrentIsThere'
    BY <2>1, NoInsert DEF IInv, Exclusive, TailIsFresh, CurrentIsThere, Released, tables
  <2> QED
    BY <2>1, <2>2, <2>3, NoInsert DEF IInv, tables
<1>6. CASE CommitUnacknowledged(c)
  <2> USE <1>6 DEF CommitUnacknowledged
  <2>1. /\ work' \in [Calls -> Works] /\ snap' \in [Calls -> Snaps]
        /\ reply' \in [Calls -> Replies] /\ pc' \in [Calls -> Phases]
        /\ WorkUnderWay'
        /\ pc'[c] \in {"waiting", "done"}
        /\ \A d \in Calls : d # c => pc'[d] = pc[d] /\ snap'[d] = snap[d]
    BY FailureType
  <2>2. /\ audit' \subseteq Rows /\ latest' \subseteq Hashes
        /\ capRow' \in [Conversations -> CapRows]
        /\ dayCount' \in [Users \X Days -> Nat]
        /\ Contiguous' /\ ChainLinked' /\ FirstVersions'
    BY InsertTurnKeeps
  <2>3. TypeOK'
    BY <2>1, <2>2 DEF IInv, TypeOK, Released
  <2>4. lock = c
    BY DEF IInv, Exclusive
  <2>5. Exclusive' /\ TailIsFresh' /\ CurrentIsThere'
    BY <2>1, <2>4, NobodyElse
  <2> QED
    BY <2>1, <2>2, <2>3, <2>5 DEF IInv
<1> QED
  BY <1>1, <1>2, <1>3, <1>4, <1>5, <1>6 DEF Evaluate

\* Every step of an attest call keeps the invariant.
LEMMA AttestCallKeepsIInv ==
    ASSUME IInv, NEW c \in Calls, AttestCall(c)
    PROVE  IInv'
<1> USE DEF InTransaction
<1>1. ASSUME NEW i \in Ids, RefuseAttest(c, i)
      PROVE  IInv'
  <2> USE <1>1 DEF RefuseAttest, Answer
  <2>1. PICK outcome \in Answers :
            /\ pc' = [pc EXCEPT ![c] = "done"]
            /\ reply' = [reply EXCEPT ![c] = [outcome |-> outcome, id |-> i,
                                              recorded |-> outcome = "attested"]]
    BY DEF Answers
  <2>2. TypeOK'
    BY <2>1 DEF IInv, TypeOK, Phases, Replies, tables
  <2>3. WorkUnderWay' /\ Exclusive' /\ TailIsFresh' /\ CurrentIsThere'
    BY <2>1, NoInsert DEF IInv, TypeOK, WorkUnderWay, Exclusive, TailIsFresh,
       CurrentIsThere, tables
  <2> QED
    BY <2>2, <2>3, NoInsert DEF IInv, tables
<1>2. ASSUME NEW i \in Ids, BeginAttest(c, i)
      PROVE  IInv'
  <2> USE <1>2 DEF BeginAttest
  <2>1. PICK current \in LatestVersions(i) :
            /\ Attestable(current)
            /\ snap' = [snap EXCEPT ![c] =
                 [NoSnap EXCEPT !.seq = Tail.seq, !.hash = Tail.hash,
                                !.current = HashOf(current)]]
    OBVIOUS
  <2>2. current \in audit /\ current.version = 1 /\ HashOf(current) \in Hashes
    BY <2>1 DEF IInv, TypeOK, LatestVersions, Attestable, FirstVersions,
       Rows, HashOf, Hash, Hashes
  <2>3. /\ snap'[c] \in Snaps
        /\ snap'[c].seq = Tail.seq /\ snap'[c].hash = Tail.hash
        /\ snap'[c].current = HashOf(current)
    <3>1. snap'[c] = [NoSnap EXCEPT !.seq = Tail.seq, !.hash = Tail.hash,
                                    !.current = HashOf(current)]
      BY <2>1 DEF IInv, TypeOK
    <3> QED
      BY <2>2, <3>1, TailType, NothingType DEF Snaps, NoSnap
  <2>4. TypeOK'
    BY <2>1, <2>3 DEF IInv, TypeOK, Phases, tables
  <2>5. \A d \in Calls : pc[d] \notin InTransaction
    BY ConstantsAssumption DEF IInv, Exclusive
  <2>6. WorkUnderWay' /\ Exclusive' /\ TailIsFresh' /\ CurrentIsThere'
    BY <2>2, <2>3, <2>5, NoInsert DEF IInv, TypeOK, WorkUnderWay, Exclusive,
       TailIsFresh, CurrentIsThere, tables
  <2> QED
    BY <2>4, <2>6, NoInsert DEF IInv, tables
<1>3. CASE CommitAttest(c)
  <2> USE <1>3 DEF CommitAttest, Answer
  <2>1. /\ audit' \subseteq Rows /\ latest' \subseteq Hashes
        /\ Contiguous' /\ ChainLinked' /\ FirstVersions'
        /\ UNCHANGED <<capRow, dayCount>>
    BY InsertAttestedKeeps
  <2>2. snap[c].current.id \in Ids
    BY AttestedRowType DEF Hashes
  <2>3. TypeOK'
    BY <2>1, <2>2, NothingType DEF IInv, TypeOK, Phases, Replies, Answers
  <2>4. lock = c
    BY DEF IInv, Exclusive
  <2>5. WorkUnderWay' /\ Exclusive' /\ TailIsFresh' /\ CurrentIsThere'
    BY <2>4, NobodyElse DEF IInv, TypeOK, WorkUnderWay
  <2> QED
    BY <2>1, <2>3, <2>5 DEF IInv
<1>4. CASE FailAttest(c)
  <2> USE <1>4 DEF FailAttest, Answer
  <2>1. snap[c].current.id \in Ids
    BY AttestedRowType DEF Hashes
  <2>2. lock = c
    BY DEF IInv, Exclusive
  <2>3. WorkUnderWay' /\ Exclusive' /\ TailIsFresh' /\ CurrentIsThere'
    BY <2>2, NobodyElse DEF IInv, TypeOK, WorkUnderWay
  <2>4. CASE UNCHANGED tables
    <3>1. TypeOK'
      BY <2>1, <2>4, NothingType
         DEF IInv, TypeOK, Phases, Replies, Answers, Released, tables
    <3> QED
      BY <2>3, <2>4, <3>1, NoInsert DEF IInv, tables
  <2>5. CASE InsertAttested(c)
    <3>1. /\ audit' \subseteq Rows /\ latest' \subseteq Hashes
          /\ Contiguous' /\ ChainLinked' /\ FirstVersions'
          /\ UNCHANGED <<capRow, dayCount>>
      BY <2>5, InsertAttestedKeeps
    <3>2. TypeOK'
      BY <2>1, <3>1, NothingType DEF IInv, TypeOK, Phases, Replies, Answers, Released
    <3> QED
      BY <2>3, <3>1, <3>2 DEF IInv
  <2> QED
    BY <2>4, <2>5
<1> QED
  BY <1>1, <1>2, <1>3, <1>4 DEF AttestCall

\* The death of a process, which rolls back its transaction, keeps the invariant.
LEMMA CrashKeepsIInv ==
    ASSUME IInv, NEW c \in Calls, Crash(c)
    PROVE  IInv'
<1> USE DEF Crash
<1>1. TypeOK'
  BY NothingType DEF IInv, TypeOK, Phases, Released, tables
<1>2. WorkUnderWay'
  BY DEF IInv, TypeOK, WorkUnderWay
<1>3. Exclusive' /\ TailIsFresh' /\ CurrentIsThere'
  BY NoInsert DEF IInv, TypeOK, Exclusive, TailIsFresh, CurrentIsThere, Released,
     InTransaction, tables
<1> QED
  BY <1>1, <1>2, <1>3, NoInsert DEF IInv, tables

\* The passing of midnight keeps the invariant.
LEMMA ClockKeepsIInv ==
    ASSUME IInv, Tick \/ UNCHANGED vars
    PROVE  IInv'
<1>1. UNCHANGED <<tables, lock, pc, work, snap, reply>> /\ today' \in Days
  BY ConstantsAssumption DEF IInv, TypeOK, Tick, vars, tables, Days
<1>2. TypeOK'
  BY <1>1 DEF IInv, TypeOK, tables
<1>3. WorkUnderWay' /\ Exclusive' /\ TailIsFresh' /\ CurrentIsThere'
  BY <1>1, NoInsert DEF IInv, WorkUnderWay, Exclusive, TailIsFresh, CurrentIsThere, tables
<1> QED
  BY <1>1, <1>2, <1>3, NoInsert DEF IInv, tables

\* The invariant is inductive.
LEMMA NextKeepsIInv == IInv /\ [Next]_vars => IInv'
BY EvaluateKeepsIInv, AttestCallKeepsIInv, CrashKeepsIInv, ClockKeepsIInv
   DEF Next, Finished

\* Everything the calls, the tables and the lock hold is well formed, whatever
\* calls interleave, fail or die: TypeOK is an invariant of persist, attest
\* and the fail-closed path together.
THEOREM TypeCorrect == Spec => []TypeOK
<1>1. IInv => TypeOK
  BY DEF IInv
<1> QED
  BY <1>1, InitIInv, NextKeepsIInv, PTL DEF Spec

\* The audit records of an app form one linked chain without a hole, however
\* many calls append to it at once (persist and attest under lockApp).
THEOREM ChainIsLinked == Spec => []ChainLinked
<1>1. IInv => ChainLinked
  BY DEF IInv
<1> QED
  BY <1>1, InitIInv, NextKeepsIInv, PTL DEF Spec

-----------------------------------------------------------------------------
(* History is never rewritten.                                             *)

\* persist's insert removes and rewrites nothing (AppendOnly).
LEMMA InsertTurnAppends ==
    ASSUME IInv, NEW c \in Calls, pc[c] = "writing", InsertTurn(c)
    PROVE  Appends
<1>1. TurnRow(c).seq = Tail.seq + 1
  BY TurnRowType
<1>2. Tail.seq \in Nat /\ \A r \in audit : r.seq \in 1..Tail.seq
  BY TailIsLast DEF IInv
<1>3. audit' = audit \cup {TurnRow(c)} /\ latest \subseteq latest'
  BY DEF InsertTurn
<1> QED
  BY <1>1, <1>2, <1>3 DEF Appends

\* attest's insert leaves every earlier version where it is (AppendOnly).
LEMMA InsertAttestedAppends ==
    ASSUME IInv, NEW c \in Calls, pc[c] = "attesting", InsertAttested(c)
    PROVE  Appends
<1>1. AttestedRow(c).seq = Tail.seq + 1 /\ AttestedRow(c).supersedes = snap[c].current
  BY AttestedRowType
<1>2. Tail.seq \in Nat /\ \A r \in audit : r.seq \in 1..Tail.seq
  BY TailIsLast DEF IInv
<1>3. /\ audit' = audit \cup {AttestedRow(c)}
      /\ latest \ latest' \subseteq {snap[c].current}
  BY DEF InsertAttested
<1>4. AttestedRow(c) \notin audit
  BY <1>1, <1>2
<1> QED
  BY <1>1, <1>2, <1>3, <1>4 DEF Appends

\* No step of an evaluation, an attestation, a failure or a crash changes or
\* removes a record; it appends one behind all others, or none, and a record
\* stops being the latest only for the one that supersedes it.
THEOREM HistoryIsAppendOnly == Spec => AppendOnly
<1>1. ASSUME IInv, [Next]_vars
      PROVE  Appends \/ UNCHANGED <<audit, latest>>
  <2>1. ASSUME NEW c \in Calls, Evaluate(c)
        PROVE  Appends \/ UNCHANGED <<audit, latest>>
    <3>1. CASE Commit(c) \/ CommitUnacknowledged(c)
      BY <1>1, <3>1, InsertTurnAppends DEF Commit, CommitUnacknowledged
    <3>2. CASE \/ \E conv \in Conversations, user \in SomeUser, override \in Overrides :
                      ReadCaps(c, conv, user, override)
               \/ \E found \in {"rule", "serve", "no_fill"} : Decide(c, found)
               \/ BeginPersist(c) \/ Fail(c)
      BY <3>2 DEF ReadCaps, Decide, BeginPersist, Fail, tables
    <3> QED
      BY <2>1, <3>1, <3>2 DEF Evaluate
  <2>2. ASSUME NEW c \in Calls, AttestCall(c)
        PROVE  Appends \/ UNCHANGED <<audit, latest>>
    <3>1. CASE CommitAttest(c) \/ FailAttest(c)
      BY <1>1, <3>1, InsertAttestedAppends DEF CommitAttest, FailAttest, tables
    <3>2. CASE \E i \in Ids : RefuseAttest(c, i) \/ BeginAttest(c, i)
      BY <3>2 DEF RefuseAttest, BeginAttest, tables
    <3> QED
      BY <2>2, <3>1, <3>2 DEF AttestCall
  <2>3. CASE (\E c \in Calls : Crash(c)) \/ Tick \/ Finished \/ UNCHANGED vars
    BY <2>3 DEF Crash, Tick, Finished, vars, tables
  <2> QED
    BY <1>1, <2>1, <2>2, <2>3 DEF Next
<1> QED
  BY <1>1, InitIInv, NextKeepsIInv, PTL DEF Spec, AppendOnly

-----------------------------------------------------------------------------
(***************************************************************************)
(* The counters count the recorded turns and the caps hold, for any calls, *)
(* conversations, users, caps and overrides; an id has one latest version; *)
(* what a caller was told is what was recorded; and with all of them the   *)
(* tables implement the ledger.  The counters are never compared with the  *)
(* history by the code: a turn is judged on the two rows read under the    *)
(* lock (FreshCaps), and what the rows say of the turns before it is       *)
(* carried from insert to insert (CountersMatchRecords).                   *)
(***************************************************************************)

\* The counts of one conversation, as CountersMatchRecords relates them.
RowMatches(row, T, conv) ==
    LET serves == ServesOf(T, conv)
    IN /\ row.turn_count = Cardinality(TurnsOf(T, conv))
       /\ row.session_count = Cardinality(serves)
       /\ IF serves = {}
          THEN row.last_turn_index = NoIndex
          ELSE \E t \in serves :
                   /\ \A s \in serves : s.seq <= t.seq
                   /\ row.last_turn_index = Cardinality(UpTo(T, t))

\* What a transaction has read of the counters still holds.
FreshCaps ==
    \A c \in Calls : pc[c] = "writing" =>
        /\ snap[c].row = capRow[work[c].conv]
        /\ snap[c].day_count = DayCount(work[c].user, work[c].day)

CapsInv == IsFiniteSet(audit) /\ FreshCaps /\ CountersMatchRecords /\ CapsHonoured

-----------------------------------------------------------------------------
(* Counting turns, when one more is recorded behind them.                  *)

\* What the sets of turns become.
LEMMA NextTurnSets ==
    ASSUME NEW T, NEW t, \A x \in T : x.seq \in Nat /\ x.seq < t.seq, t.seq \in Nat
    PROVE  /\ t \notin T
           /\ \A conv : TurnsOf(T \cup {t}, conv) =
                  IF t.conv = conv THEN TurnsOf(T, conv) \cup {t} ELSE TurnsOf(T, conv)
           /\ \A conv : ServesOf(T \cup {t}, conv) =
                  IF t.conv = conv /\ Served(t) THEN ServesOf(T, conv) \cup {t}
                  ELSE ServesOf(T, conv)
           /\ \A user, day : DayServes(T \cup {t}, user, day) =
                  IF Served(t) /\ t.user = user /\ t.day = day
                  THEN DayServes(T, user, day) \cup {t} ELSE DayServes(T, user, day)
           /\ \A x \in T : /\ UpTo(T \cup {t}, x) = UpTo(T, x)
                           /\ Before(T \cup {t}, x) = Before(T, x)
                           /\ \A s : Between(T \cup {t}, s, x) = Between(T, s, x)
           /\ Before(T \cup {t}, t) = T
           /\ UpTo(T \cup {t}, t) = TurnsOf(T, t.conv) \cup {t}
<1>1. t \notin T
  OBVIOUS
<1>2. \A conv : TurnsOf(T \cup {t}, conv) =
          IF t.conv = conv THEN TurnsOf(T, conv) \cup {t} ELSE TurnsOf(T, conv)
  BY DEF TurnsOf
<1>3. \A conv : ServesOf(T \cup {t}, conv) =
          IF t.conv = conv /\ Served(t) THEN ServesOf(T, conv) \cup {t} ELSE ServesOf(T, conv)
  BY DEF ServesOf, TurnsOf
<1>4. \A user, day : DayServes(T \cup {t}, user, day) =
          IF Served(t) /\ t.user = user /\ t.day = day
          THEN DayServes(T, user, day) \cup {t} ELSE DayServes(T, user, day)
  BY DEF DayServes
<1>5. ASSUME NEW x \in T
      PROVE  /\ UpTo(T \cup {t}, x) = UpTo(T, x)
             /\ Before(T \cup {t}, x) = Before(T, x)
             /\ \A s : Between(T \cup {t}, s, x) = Between(T, s, x)
  <2>1. ~(t.seq <= x.seq) /\ ~(t.seq < x.seq)
    OBVIOUS
  <2> QED BY <2>1 DEF UpTo, Before, Between, TurnsOf
<1>6. Before(T \cup {t}, t) = T
  BY DEF Before
<1>7. UpTo(T \cup {t}, t) = TurnsOf(T, t.conv) \cup {t}
  BY DEF UpTo, TurnsOf
<1> QED BY <1>1, <1>2, <1>3, <1>4, <1>5, <1>6, <1>7

LEMMA PartsAreFinite ==
    ASSUME NEW T, IsFiniteSet(T)
    PROVE  /\ \A conv : /\ IsFiniteSet(TurnsOf(T, conv)) /\ IsFiniteSet(ServesOf(T, conv))
                        /\ Cardinality(TurnsOf(T, conv)) \in Nat
                        /\ Cardinality(ServesOf(T, conv)) \in Nat
           /\ \A user, day : /\ IsFiniteSet(DayServes(T, user, day))
                             /\ Cardinality(DayServes(T, user, day)) \in Nat
           /\ \A t : IsFiniteSet(UpTo(T, t)) /\ Cardinality(UpTo(T, t)) \in Nat
<1>1. \A S \in SUBSET T : IsFiniteSet(S) /\ Cardinality(S) \in Nat
  BY FS_Subset, FS_CardinalityType
<1> QED BY <1>1 DEF TurnsOf, ServesOf, DayServes, UpTo

\* applyCapUpdates: the row of the turn's conversation counts it, and the
\* others are as right as they were.
LEMMA RowKeepsMatching ==
    ASSUME NEW T, IsFiniteSet(T), NEW t, t.seq \in Nat,
           \A x \in T : x.seq \in Nat /\ x.seq < t.seq,
           NEW row \in CapRows, NEW conv, RowMatches(row, T, conv), NEW user
    PROVE  IF t.conv = conv
           THEN RowMatches(NextCapRow(row, Served(t), user), T \cup {t}, conv)
           ELSE RowMatches(row, T \cup {t}, conv)
<1> DEFINE U == T \cup {t}
           next == NextCapRow(row, Served(t), user)
<1>1. /\ TurnsOf(U, conv) = IF t.conv = conv THEN TurnsOf(T, conv) \cup {t} ELSE TurnsOf(T, conv)
      /\ ServesOf(U, conv) = IF t.conv = conv /\ Served(t) THEN ServesOf(T, conv) \cup {t}
                             ELSE ServesOf(T, conv)
      /\ \A x \in T : UpTo(U, x) = UpTo(T, x)
      /\ UpTo(U, t) = TurnsOf(T, t.conv) \cup {t} /\ t \notin T
  <2>1. /\ t \notin T
        /\ \A c : TurnsOf(T \cup {t}, c) =
               IF t.conv = c THEN TurnsOf(T, c) \cup {t} ELSE TurnsOf(T, c)
        /\ \A c : ServesOf(T \cup {t}, c) =
               IF t.conv = c /\ Served(t) THEN ServesOf(T, c) \cup {t} ELSE ServesOf(T, c)
        /\ \A x \in T : UpTo(T \cup {t}, x) = UpTo(T, x)
        /\ UpTo(T \cup {t}, t) = TurnsOf(T, t.conv) \cup {t}
    BY NextTurnSets
  <2> QED BY <2>1
<1>2. /\ IsFiniteSet(TurnsOf(T, conv)) /\ IsFiniteSet(ServesOf(T, conv))
      /\ t \notin TurnsOf(T, conv) /\ t \notin ServesOf(T, conv)
      /\ ServesOf(T, conv) \subseteq T
  <2>1. IsFiniteSet(TurnsOf(T, conv)) /\ IsFiniteSet(ServesOf(T, conv))
    BY PartsAreFinite
  <2>2. ServesOf(T, conv) \subseteq TurnsOf(T, conv) /\ TurnsOf(T, conv) \subseteq T
    BY DEF TurnsOf, ServesOf
  <2> QED BY <1>1, <2>1, <2>2
<1>3. /\ Cardinality(TurnsOf(T, conv) \cup {t}) = Cardinality(TurnsOf(T, conv)) + 1
      /\ Cardinality(ServesOf(T, conv) \cup {t}) = Cardinality(ServesOf(T, conv)) + 1
  BY <1>2, FS_AddElement
<1> HIDE DEF U
<1>4. CASE t.conv = conv /\ Served(t)
  <2>1. /\ next.turn_count = Cardinality(TurnsOf(U, conv))
        /\ next.session_count = Cardinality(ServesOf(U, conv))
        /\ next.last_turn_index = Cardinality(UpTo(U, t))
    BY <1>1, <1>3, <1>4 DEF NextCapRow, RowMatches
  <2>2. t \in ServesOf(U, conv) /\ \A s \in ServesOf(U, conv) : s.seq <= t.seq
    BY <1>1, <1>2, <1>4
  <2> QED BY <1>4, <2>1, <2>2 DEF RowMatches, U
<1>5. CASE t.conv = conv /\ ~Served(t)
  <2>1. /\ next.turn_count = Cardinality(TurnsOf(U, conv))
        /\ next.session_count = Cardinality(ServesOf(U, conv))
        /\ next.last_turn_index = row.last_turn_index
        /\ ServesOf(U, conv) = ServesOf(T, conv)
    BY <1>1, <1>3, <1>5 DEF NextCapRow, RowMatches, CapRows
  <2> QED BY <1>1, <1>2, <1>5, <2>1 DEF RowMatches, U
<1>6. CASE t.conv # conv
  BY <1>1, <1>2, <1>6 DEF RowMatches, U
<1> QED BY <1>4, <1>5, <1>6

\* The frequency_caps rule on right counts is right about the history: a turn
\* it admits is within its caps, counting the turns before it.
LEMMA AdmittedIsHonoured ==
    ASSUME NEW T, IsFiniteSet(T), NEW t, t.seq \in Nat, t.caps \in CapValues,
           \A x \in T : x.seq \in Nat /\ x.seq < t.seq,
           NEW row \in CapRows, RowMatches(row, T, t.conv),
           NEW day_count \in Nat,
           t.user # NoUser => day_count = Cardinality(DayServes(T, t.user, t.day)),
           WithinCaps(CapStateFrom(row, day_count), t.caps, t.user)
    PROVE  Honoured(T \cup {t}, t)
<1> DEFINE state == CapStateFrom(row, day_count)
<1>1. Before(T \cup {t}, t) = T
  BY NextTurnSets
<1>2. /\ row.session_count < t.caps.per_session
      /\ t.user # NoUser => day_count < t.caps.per_user_per_day
      /\ row.last_turn_index # NoIndex =>
             \/ row.turn_count - row.last_turn_index = Never
             \/ row.turn_count - row.last_turn_index >= t.caps.min_turns_between
  BY DEF WithinCaps, CapStateFrom
<1>3. Cardinality(ServesOf(T, t.conv)) < t.caps.per_session
  BY <1>2 DEF RowMatches
<1>4. ASSUME NEW s \in ServesOf(T, t.conv)
      PROVE  Cardinality(Between(T \cup {t}, s, t)) >= t.caps.min_turns_between
  <2> DEFINE all == TurnsOf(T, t.conv)
  <2>1. PICK last \in ServesOf(T, t.conv) :
            /\ s.seq <= last.seq
            /\ row.last_turn_index = Cardinality(UpTo(T, last))
    BY <1>4 DEF RowMatches
  <2>2. s \in T /\ last \in T /\ s.conv = t.conv /\ last.conv = t.conv
    BY <1>4, <2>1 DEF ServesOf, TurnsOf
  <2>3. UpTo(T, s) \subseteq UpTo(T, last) /\ UpTo(T, last) \subseteq all /\ last \in UpTo(T, last)
    BY <2>1, <2>2 DEF UpTo, TurnsOf
  <2>4. Between(T \cup {t}, s, t) = all \ UpTo(T, s)
    BY <2>2 DEF Between, UpTo, TurnsOf
  <2>5. /\ IsFiniteSet(all) /\ IsFiniteSet(UpTo(T, s)) /\ IsFiniteSet(UpTo(T, last))
        /\ Cardinality(all) \in Nat /\ Cardinality(UpTo(T, s)) \in Nat
        /\ Cardinality(UpTo(T, last)) \in Nat
    BY PartsAreFinite
  <2> HIDE DEF all
  <2>6. Cardinality(UpTo(T, s)) <= Cardinality(UpTo(T, last))
    BY <2>3, <2>5, FS_Subset
  <2>7. Cardinality(UpTo(T, last)) <= Cardinality(all)
    BY <2>3, <2>5, FS_Subset
  <2>8. Cardinality(UpTo(T, last)) # 0
    BY <2>3, <2>5, FS_EmptySet
  <2>9. Cardinality(all \ UpTo(T, s)) = Cardinality(all) - Cardinality(UpTo(T, s))
    <3>1. all \cap UpTo(T, s) = UpTo(T, s)
      BY <2>3
    <3>2. Cardinality(all \ UpTo(T, s)) = Cardinality(all) - Cardinality(all \cap UpTo(T, s))
      BY <2>5, FS_Difference
    <3> QED BY <3>1, <3>2
  <2>10. row.turn_count = Cardinality(all)
    BY DEF RowMatches, all
  <2>11. Cardinality(all) - Cardinality(UpTo(T, last)) >= t.caps.min_turns_between
    BY <1>2, <2>1, <2>5, <2>7, <2>8, <2>10 DEF NoIndex, Never
  <2>12. t.caps.min_turns_between \in Nat
    BY DEF CapValues
  <2>13. \A m, n, k, l \in Nat : n <= k /\ m - k >= l => m - n >= l
    OBVIOUS
  <2>14. Cardinality(all) - Cardinality(UpTo(T, s)) >= t.caps.min_turns_between
    BY <2>5, <2>6, <2>11, <2>12, <2>13
  <2> QED BY <2>4, <2>9, <2>14
<1> QED BY <1>1, <1>2, <1>3, <1>4 DEF Honoured

\* A turn recorded behind the others takes no room from them.
LEMMA EarlierStayHonoured ==
    ASSUME NEW T, NEW t, t.seq \in Nat, \A x \in T : x.seq \in Nat /\ x.seq < t.seq,
           NEW x \in T, Honoured(T, x)
    PROVE  Honoured(T \cup {t}, x)
<1>1. /\ Before(T \cup {t}, x) = Before(T, x)
      /\ \A s : Between(T \cup {t}, s, x) = Between(T, s, x)
  <2>1. \A y \in T : /\ Before(T \cup {t}, y) = Before(T, y)
                     /\ \A s : Between(T \cup {t}, s, y) = Between(T, s, y)
    <3> HIDE DEF Before
    <3> QED BY NextTurnSets
  <2> QED BY <2>1
<1> QED BY <1>1 DEF Honoured

-----------------------------------------------------------------------------
(* The tables.                                                             *)

\* CountersMatchRecords, row by row.
LEMMA CountersAreRows ==
    CountersMatchRecords <=>
        /\ \A conv \in Conversations : RowMatches(capRow[conv], Turns, conv)
        /\ \A user \in Users, day \in Days :
               dayCount[<<user, day>>] = Cardinality(DayServes(Turns, user, day))
BY DEF CountersMatchRecords, RowMatches

\* The transaction of a turn.
LEMMA InsertTurnKeepsCaps ==
    ASSUME IInv, CapsInv, NEW c \in Calls, pc[c] = "writing", InsertTurn(c),
           \A d \in Calls : pc'[d] # "writing"
    PROVE  CapsInv'
<1>1. PICK t : t = TurnRow(c)
  OBVIOUS
<1>2. /\ t \in Rows /\ t.seq = Tail.seq + 1 /\ t.supersedes = NoHash
      /\ t.outcome = Outcome(c) /\ t.caps = work[c].caps
      /\ t.conv = work[c].conv /\ t.user = work[c].user /\ t.day = work[c].day
  BY <1>1, TurnRowType DEF TurnRow
<1>3. /\ t.conv \in Conversations /\ t.user \in SomeUser /\ t.day \in Days
      /\ t.caps \in CapValues /\ t.seq \in Nat
  BY <1>2 DEF Rows
<1>4. /\ audit' = audit \cup {t}
      /\ capRow' = [capRow EXCEPT ![t.conv] = NextCapRow(snap[c].row, Served(t), t.user)]
      /\ dayCount' = IF Served(t) /\ t.user # NoUser
                     THEN [dayCount EXCEPT ![<<t.user, t.day>>] = @ + 1] ELSE dayCount
  BY <1>1 DEF InsertTurn
<1>5. \A x \in audit : x.seq \in Nat /\ x.seq < t.seq
  <2>1. Tail.seq \in Nat /\ \A x \in audit : x.seq \in 1..Tail.seq
    BY TailIsLast DEF IInv
  <2> QED BY <1>2, <2>1
<1>6. PICK T : T = Turns
  OBVIOUS
<1>7. Turns' = T \cup {t} /\ T \subseteq audit
  BY <1>2, <1>4, <1>6 DEF Turns
<1>8. IsFiniteSet(audit') /\ IsFiniteSet(T)
  <2>1. IsFiniteSet(audit')
    BY <1>4, FS_AddElement DEF CapsInv
  <2>2. IsFiniteSet(T)
    BY <1>7, FS_Subset DEF CapsInv
  <2> QED BY <2>1, <2>2
<1>9. \A x \in T : x.seq \in Nat /\ x.seq < t.seq
  BY <1>5, <1>7
<1>10. /\ snap[c].row = capRow[t.conv] /\ capRow \in [Conversations -> CapRows]
       /\ snap[c].day_count = DayCount(t.user, t.day) /\ snap[c].day_count \in Nat
       /\ dayCount \in [Users \X Days -> Nat]
  BY <1>2 DEF CapsInv, FreshCaps, IInv, TypeOK, Snaps
<1>11. /\ \A conv \in Conversations : RowMatches(capRow[conv], T, conv)
       /\ \A user \in Users, day \in Days :
              dayCount[<<user, day>>] = Cardinality(DayServes(T, user, day))
  BY <1>6, CountersAreRows DEF CapsInv
<1>12. \A conv \in Conversations : RowMatches(capRow'[conv], T \cup {t}, conv)
  <2> SUFFICES ASSUME NEW conv \in Conversations
               PROVE  RowMatches(capRow'[conv], T \cup {t}, conv)
    OBVIOUS
  <2>1. /\ IF t.conv = conv
           THEN RowMatches(NextCapRow(capRow[conv], Served(t), t.user), T \cup {t}, conv)
           ELSE RowMatches(capRow[conv], T \cup {t}, conv)
    <3>1. capRow[conv] \in CapRows /\ RowMatches(capRow[conv], T, conv)
      BY <1>10, <1>11
    <3> QED BY <1>3, <1>8, <1>9, <3>1, RowKeepsMatching
  <2> QED BY <1>3, <1>4, <1>10, <2>1
<1>13. \A user \in Users, day \in Days :
           dayCount'[<<user, day>>] = Cardinality(DayServes(T \cup {t}, user, day))
  <2> SUFFICES ASSUME NEW user \in Users, NEW day \in Days
               PROVE  dayCount'[<<user, day>>] = Cardinality(DayServes(T \cup {t}, user, day))
    OBVIOUS
  <2>1. DayServes(T \cup {t}, user, day) =
            IF Served(t) /\ t.user = user /\ t.day = day
            THEN DayServes(T, user, day) \cup {t} ELSE DayServes(T, user, day)
    BY DEF DayServes
  <2>2. dayCount[<<user, day>>] = Cardinality(DayServes(T, user, day))
    BY <1>11
  <2>3. CASE Served(t) /\ t.user = user /\ t.day = day
    <3>1. IsFiniteSet(DayServes(T, user, day)) /\ t \notin DayServes(T, user, day)
      <4>1. IsFiniteSet(DayServes(T, user, day))
        BY <1>8, PartsAreFinite
      <4>2. t \notin T /\ DayServes(T, user, day) \subseteq T
        BY <1>3, <1>9 DEF DayServes
      <4> QED BY <4>1, <4>2
    <3>2. Cardinality(DayServes(T, user, day) \cup {t}) = Cardinality(DayServes(T, user, day)) + 1
      BY <3>1, FS_AddElement
    <3>3. dayCount'[<<user, day>>] = dayCount[<<user, day>>] + 1
      BY <1>4, <1>10, <2>3, ConstantsAssumption
    <3> QED BY <2>1, <2>2, <2>3, <3>2, <3>3
  <2>4. CASE ~(Served(t) /\ t.user = user /\ t.day = day)
    <3>1. dayCount'[<<user, day>>] = dayCount[<<user, day>>]
      BY <1>3, <1>4, <1>10, <2>4 DEF SomeUser
    <3> QED BY <2>1, <2>2, <2>4, <3>1
  <2> QED BY <2>3, <2>4
<1>14. CountersMatchRecords'
  <2>1. \A conv \in Conversations : RowMatches(capRow[conv], Turns, conv)'
    BY <1>7, <1>12 DEF RowMatches, ServesOf, TurnsOf, UpTo, Served
  <2>2. \A user \in Users, day \in Days :
            (dayCount[<<user, day>>] = Cardinality(DayServes(Turns, user, day)))'
    BY <1>7, <1>13 DEF DayServes, Served
  <2> QED BY <2>1, <2>2 DEF CountersMatchRecords, RowMatches
<1>15. CapsHonoured'
  <2> SUFFICES ASSUME NEW x \in T \cup {t} PROVE Honoured(T \cup {t}, x)
    BY <1>7 DEF CapsHonoured, Honoured, ServesOf, TurnsOf, DayServes, Before, Between, Served
  <2>1. CASE x = t
    <3>1. SUFFICES ASSUME Served(t) PROVE Honoured(T \cup {t}, t)
      BY <2>1 DEF Honoured
    <3>2. WithinCaps(CapStateFrom(snap[c].row, snap[c].day_count), t.caps, t.user)
      BY <1>2, <3>1 DEF Outcome, Served
    <3>3. t.user # NoUser => snap[c].day_count = Cardinality(DayServes(T, t.user, t.day))
      BY <1>3, <1>10, <1>11 DEF DayCount, SomeUser
    <3>4. snap[c].row \in CapRows /\ RowMatches(snap[c].row, T, t.conv)
      BY <1>3, <1>10, <1>11
    <3> QED BY <1>3, <1>8, <1>9, <1>10, <3>2, <3>3, <3>4, AdmittedIsHonoured
  <2>2. CASE x \in T
    <3>1. Honoured(T, x)
      BY <1>6, <2>2 DEF CapsInv, CapsHonoured
    <3> QED BY <1>3, <1>9, <2>2, <3>1, EarlierStayHonoured
  <2> QED BY <2>1, <2>2
<1>16. FreshCaps'
  BY DEF FreshCaps
<1> QED BY <1>8, <1>14, <1>15, <1>16 DEF CapsInv

\* The transaction of an attestation: no turn, no count.
LEMMA InsertAttestedKeepsTurns ==
    ASSUME IInv, NEW c \in Calls, pc[c] = "attesting", InsertAttested(c)
    PROVE  Turns' = Turns /\ UNCHANGED <<capRow, dayCount>>
<1>1. AttestedRow(c).supersedes # NoHash
  BY AttestedRowType DEF NoHash, Hash, Hashes
<1> QED BY <1>1 DEF InsertAttested, Turns

\* A step that records no turn.
LEMMA OtherKeepsCaps ==
    ASSUME CapsInv, Turns' = Turns, IsFiniteSet(audit'), UNCHANGED <<capRow, dayCount>>,
           \A d \in Calls : pc'[d] = "writing" =>
               \/ pc[d] = "writing" /\ work'[d] = work[d] /\ snap'[d] = snap[d]
               \/ /\ work'[d] = work[d] /\ snap'[d].row = capRow[work[d].conv]
                  /\ snap'[d].day_count = DayCount(work[d].user, work[d].day)
    PROVE  CapsInv'
<1>1. FreshCaps'
  BY DEF CapsInv, FreshCaps, DayCount
<1>2. CountersMatchRecords' /\ CapsHonoured'
  BY DEF CapsInv, CountersMatchRecords, CapsHonoured
<1> QED BY <1>1, <1>2 DEF CapsInv

\* The ways a step may touch the tables.
LEMMA TableSteps ==
    ASSUME IInv, [Next]_vars
    PROVE  \/ UNCHANGED tables
           \/ \E c \in Calls :
                  /\ pc[c] = "writing" /\ InsertTurn(c)
                  /\ \A d \in Calls : pc'[d] \notin InTransaction
           \/ \E c \in Calls :
                  /\ pc[c] = "attesting" /\ InsertAttested(c)
                  /\ \A d \in Calls : pc'[d] \notin InTransaction
<1>1. ASSUME NEW c \in Calls, pc[c] \in InTransaction, pc'[c] \notin InTransaction,
             \A d \in Calls : d # c => pc'[d] = pc[d]
      PROVE  \A d \in Calls : pc'[d] \notin InTransaction
  <2>1. \A d \in Calls : d # c => pc[d] \notin InTransaction
    BY <1>1, ConstantsAssumption DEF IInv, Exclusive
  <2> QED BY <1>1, <2>1
<1>2. pc \in [Calls -> Phases]
  BY DEF IInv, TypeOK
<1>3. ASSUME NEW c \in Calls, Commit(c) \/ CommitUnacknowledged(c)
      PROVE  /\ pc[c] = "writing" /\ InsertTurn(c)
             /\ \A d \in Calls : pc'[d] \notin InTransaction
  <2>1. /\ pc[c] = "writing" /\ InsertTurn(c) /\ pc'[c] \in {"waiting", "done"}
        /\ \A d \in Calls : d # c => pc'[d] = pc[d]
    BY <1>2, <1>3 DEF Commit, CommitUnacknowledged, FailClosed, AnswerUnrecorded
  <2> QED BY <1>1, <2>1 DEF InTransaction
<1>4. ASSUME NEW c \in Calls, CommitAttest(c) \/ FailAttest(c)
      PROVE  \/ UNCHANGED tables
             \/ /\ pc[c] = "attesting" /\ InsertAttested(c)
                /\ \A d \in Calls : pc'[d] \notin InTransaction
  <2>1. /\ pc[c] = "attesting" /\ (InsertAttested(c) \/ UNCHANGED tables)
        /\ pc'[c] = "done" /\ \A d \in Calls : d # c => pc'[d] = pc[d]
    BY <1>2, <1>4 DEF CommitAttest, FailAttest, Answer
  <2> QED BY <1>1, <2>1 DEF InTransaction
<1>5. ASSUME NEW c \in Calls, Evaluate(c), ~Commit(c), ~CommitUnacknowledged(c)
      PROVE  UNCHANGED tables
  BY <1>5 DEF Evaluate, ReadCaps, Decide, BeginPersist, Fail
<1>6. ASSUME NEW c \in Calls, AttestCall(c), ~CommitAttest(c), ~FailAttest(c)
      PROVE  UNCHANGED tables
  BY <1>6 DEF AttestCall, RefuseAttest, BeginAttest
<1>7. CASE (\E c \in Calls : Crash(c)) \/ Tick \/ Finished \/ UNCHANGED vars
  BY <1>7 DEF Crash, Tick, Finished, vars, tables
<1> QED BY <1>3, <1>4, <1>5, <1>6, <1>7 DEF Next

\* What a call that is writing after a step has read.
LEMMA WritingSteps ==
    ASSUME IInv, [Next]_vars, NEW d \in Calls, pc'[d] = "writing"
    PROVE  \/ pc[d] = "writing" /\ work'[d] = work[d] /\ snap'[d] = snap[d]
           \/ /\ work'[d] = work[d] /\ snap'[d].row = capRow[work[d].conv]
              /\ snap'[d].day_count = DayCount(work[d].user, work[d].day)
<1>1. pc \in [Calls -> Phases] /\ work \in [Calls -> Works] /\ snap \in [Calls -> Snaps]
  BY DEF IInv, TypeOK
<1> USE <1>1
<1>2. ASSUME NEW c \in Calls, Evaluate(c)
      PROVE  \/ pc[d] = "writing" /\ work'[d] = work[d] /\ snap'[d] = snap[d]
             \/ /\ work'[d] = work[d] /\ snap'[d].row = capRow[work[d].conv]
                /\ snap'[d].day_count = DayCount(work[d].user, work[d].day)
  <2>1. CASE BeginPersist(c)
    BY <2>1 DEF BeginPersist
  <2>2. CASE ~BeginPersist(c)
    BY <1>2, <2>2 DEF Evaluate, ReadCaps, Decide, Commit, Fail, CommitUnacknowledged,
                      FailClosed, AnswerUnrecorded
  <2> QED BY <2>1, <2>2
<1>3. ASSUME NEW c \in Calls, AttestCall(c)
      PROVE  pc[d] = "writing" /\ work'[d] = work[d] /\ snap'[d] = snap[d]
  BY <1>3 DEF AttestCall, RefuseAttest, BeginAttest, CommitAttest, FailAttest, Answer
<1>4. CASE (\E c \in Calls : Crash(c)) \/ Tick \/ Finished \/ UNCHANGED vars
  BY <1>4 DEF Crash, Tick, Finished, vars
<1> QED BY <1>2, <1>3, <1>4 DEF Next

LEMMA NextKeepsCaps == IInv /\ CapsInv /\ [Next]_vars => CapsInv'
<1> SUFFICES ASSUME IInv, CapsInv, [Next]_vars PROVE CapsInv'
  OBVIOUS
<1>1. \A d \in Calls : pc'[d] = "writing" =>
          \/ pc[d] = "writing" /\ work'[d] = work[d] /\ snap'[d] = snap[d]
          \/ /\ work'[d] = work[d] /\ snap'[d].row = capRow[work[d].conv]
             /\ snap'[d].day_count = DayCount(work[d].user, work[d].day)
  BY WritingSteps
<1>2. CASE UNCHANGED tables
  BY <1>1, <1>2, OtherKeepsCaps DEF tables, Turns, CapsInv
<1>3. ASSUME NEW c \in Calls, pc[c] = "writing", InsertTurn(c),
             \A d \in Calls : pc'[d] \notin InTransaction
      PROVE  CapsInv'
  BY <1>3, InsertTurnKeepsCaps DEF InTransaction
<1>4. ASSUME NEW c \in Calls, pc[c] = "attesting", InsertAttested(c)
      PROVE  CapsInv'
  <2>1. IsFiniteSet(audit')
    BY <1>4, FS_AddElement DEF InsertAttested, CapsInv
  <2> QED BY <1>1, <1>4, <2>1, InsertAttestedKeepsTurns, OtherKeepsCaps
<1> QED BY <1>2, <1>3, <1>4, TableSteps

LEMMA InitCaps == Init => CapsInv
<1> SUFFICES ASSUME Init PROVE CapsInv
  OBVIOUS
<1>1. IsFiniteSet(audit) /\ Turns = {}
  BY FS_EmptySet DEF Init, Turns
<1>2. FreshCaps /\ CapsHonoured
  BY <1>1 DEF Init, FreshCaps, CapsHonoured
<1>3. \A conv, user, day :
          TurnsOf({}, conv) = {} /\ ServesOf({}, conv) = {} /\ DayServes({}, user, day) = {}
  BY DEF TurnsOf, ServesOf, DayServes
<1>4. Cardinality({}) = 0
  BY FS_EmptySet
<1>5. CountersMatchRecords
  BY <1>1, <1>3, <1>4 DEF Init, CountersMatchRecords, EmptyCapRow
<1> QED BY <1>1, <1>2, <1>5 DEF CapsInv

\* applyCapUpdates: the counters count the recorded turns exactly, whatever
\* failed, was retried or raced, or lost its acknowledgement.
THEOREM CountersAreExact == Spec => []CountersMatchRecords
<1>1. CapsInv => CountersMatchRecords
  BY DEF CapsInv
<1> QED BY <1>1, InitIInv, NextKeepsIInv, InitCaps, NextKeepsCaps, PTL DEF Spec

\* The re-check in the persist build callback: no recorded ad exceeds the caps
\* in force for its turn, counting every turn recorded before it.
THEOREM CapsHold == Spec => []CapsHonoured
<1>1. CapsInv => CapsHonoured
  BY DEF CapsInv
<1> QED BY <1>1, InitIInv, NextKeepsIInv, InitCaps, NextKeepsCaps, PTL DEF Spec

-----------------------------------------------------------------------------
(* Versions.                                                               *)

UniqueVersions == \A r, s \in audit : r.id = s.id /\ r.version = s.version => r = s

\* The served version of an id is its last.
IsServed(v) ==
    /\ HashOf(v) \in latest
    /\ \A w \in audit : w.id = v.id => w.seq <= v.seq /\ (HashOf(w) \in latest => w = v)

OneServed == \A r \in audit : \E v \in audit : v.id = r.id /\ IsServed(v)

SupersedesTurn ==
    \A r \in audit : r.supersedes # NoHash =>
        /\ r.version = 2
        /\ \E t \in Turns : /\ t.id = r.id /\ HashOf(t) = r.supersedes
                            /\ t.seq < r.seq /\ t.outcome = r.outcome

TableVersions == UniqueVersions /\ OneServed /\ SupersedesTurn

\* What an attestation read is served still, and attests nothing yet.
CurrentIsServed ==
    \A c \in Calls : pc[c] = "attesting" =>
        \E row \in audit : HashOf(row) = snap[c].current /\ IsServed(row)
                           /\ row.supersedes = NoHash

\* The id a call may still record a turn under is not taken.
Unrecorded(i) == \A r \in audit : r.id # i
FreshId(c) ==
    /\ pc[c] \in {"idle", "classifying", "waiting", "writing"} => Unrecorded(<<c, "error">>)
    /\ pc[c] \in {"idle", "classifying"} => Unrecorded(<<c, "turn">>)
    /\ pc[c] \in {"waiting", "writing"} /\ work[c].verdict # "error" =>
           Unrecorded(<<c, "turn">>)
    /\ pc[c] = "classifying" => work[c].verdict # "error"
FreshIds == \A c \in Calls : FreshId(c)

VersionInv == TableVersions /\ CurrentIsServed /\ FreshIds

\* The row of a turn is the one version of a new id.
LEMMA InsertTurnKeepsVersions ==
    ASSUME IInv, VersionInv, NEW c \in Calls, pc[c] = "writing", InsertTurn(c)
    PROVE  /\ TableVersions'
           /\ \A i : Unrecorded(i) /\ i # TurnId(c) => Unrecorded(i)'
           /\ Unrecorded(TurnId(c))
<1>1. PICK t : t = TurnRow(c)
  OBVIOUS
<1>2. /\ t \in Rows /\ t.seq = Tail.seq + 1 /\ t.supersedes = NoHash /\ t.version = 1
      /\ t.id = TurnId(c)
  BY <1>1, TurnRowType DEF TurnRow
<1>3. audit' = audit \cup {t} /\ latest' = latest \cup {HashOf(t)}
  BY <1>1 DEF InsertTurn
<1>4. Unrecorded(TurnId(c))
  BY DEF VersionInv, FreshIds, FreshId, TurnId
<1>5. \A r \in audit : r.id # t.id /\ HashOf(r) # HashOf(t)
  BY <1>2, <1>4 DEF Unrecorded, HashOf, Hash
<1>6. t.seq \in Nat
  BY <1>2 DEF Rows
<1>7. UniqueVersions'
  BY <1>3, <1>5 DEF VersionInv, TableVersions, UniqueVersions
<1>8. OneServed'
  <2> SUFFICES ASSUME NEW r \in audit' PROVE \E v \in audit' : v.id = r.id /\ IsServed(v)'
    BY DEF OneServed
  <2>1. CASE r = t
    <3>1. IsServed(t)'
      BY <1>3, <1>5, <1>6 DEF IsServed, HashOf
    <3> QED BY <1>3, <2>1, <3>1
  <2>2. CASE r \in audit
    <3>1. PICK v \in audit : v.id = r.id /\ IsServed(v)
      BY <2>2 DEF VersionInv, TableVersions, OneServed
    <3>2. IsServed(v)'
      BY <1>3, <1>5, <3>1 DEF IsServed, HashOf
    <3> QED BY <1>3, <3>1, <3>2
  <2> QED BY <1>3, <2>1, <2>2
<1>9. SupersedesTurn'
  <2>1. Turns \subseteq Turns'
    BY <1>3 DEF Turns
  <2> QED BY <1>2, <1>3, <2>1 DEF VersionInv, TableVersions, SupersedesTurn, HashOf
<1>10. \A i : Unrecorded(i) /\ i # TurnId(c) => Unrecorded(i)'
  <2>1. \A i : i # t.id /\ (\A r \in audit : r.id # i) => \A r \in audit' : r.id # i
    BY <1>3
  <2> QED BY <1>2, <2>1 DEF Unrecorded
<1> QED BY <1>4, <1>7, <1>8, <1>9, <1>10 DEF TableVersions

\* The row of an attestation: a version nobody made yet of the turn it copies.
LEMMA AttestedRowFacts ==
    ASSUME IInv, VersionInv, NEW c \in Calls, pc[c] = "attesting"
    PROVE  LET new == AttestedRow(c) cur == Current(c) IN
           /\ new \in Rows /\ cur \in Turns /\ IsServed(cur)
           /\ HashOf(cur) = snap[c].current
           /\ new.id = cur.id /\ new.version = 2 /\ new.supersedes = HashOf(cur)
           /\ new.outcome = cur.outcome /\ new.supersedes # NoHash
           /\ \A r \in audit : r.seq < new.seq
           /\ \A r \in audit : r.id = cur.id => r = cur
<1>1. PICK row \in audit : HashOf(row) = snap[c].current /\ IsServed(row)
                           /\ row.supersedes = NoHash
  BY DEF VersionInv, CurrentIsServed
<1>2. Current(c) = row
  <2>1. Current(c) \in audit /\ HashOf(Current(c)) = snap[c].current
    BY <1>1 DEF Current
  <2> QED BY <1>1, <2>1 DEF HashOf, Hash, VersionInv, TableVersions, UniqueVersions
<1>3. row \in Turns /\ row.version = 1
  BY <1>1 DEF Turns, IInv, FirstVersions
<1>4. /\ AttestedRow(c) \in Rows /\ AttestedRow(c).seq = Tail.seq + 1
      /\ AttestedRow(c).supersedes = snap[c].current /\ snap[c].current # NoHash
  BY AttestedRowType DEF NoHash, Hash, Hashes
<1>5. /\ AttestedRow(c).id = row.id /\ AttestedRow(c).version = 2
      /\ AttestedRow(c).outcome = row.outcome
  BY <1>2, <1>3 DEF AttestedRow, Attested
<1>6. \A r \in audit : r.seq < AttestedRow(c).seq
  <2>1. Tail.seq \in Nat /\ \A x \in audit : x.seq \in 1..Tail.seq
    BY TailIsLast DEF IInv
  <2> QED BY <1>4, <2>1
<1>7. ASSUME NEW r \in audit, r.id = row.id PROVE r = row
  <2>1. CASE r.supersedes = NoHash
    <3>1. r.version = 1
      BY <2>1 DEF IInv, FirstVersions
    <3> QED BY <1>3, <1>7, <3>1 DEF VersionInv, TableVersions, UniqueVersions
  <2>2. CASE r.supersedes # NoHash
    <3>1. PICK t \in Turns : t.id = r.id /\ t.seq < r.seq
      BY <2>2 DEF VersionInv, TableVersions, SupersedesTurn
    <3>2. t \in audit /\ t.version = 1
      BY DEF Turns, IInv, FirstVersions
    <3>3. t = row
      BY <1>3, <1>7, <3>1, <3>2 DEF VersionInv, TableVersions, UniqueVersions
    <3>4. r.seq <= row.seq
      BY <1>1, <1>7 DEF IsServed
    <3>5. r.seq \in Nat /\ row.seq \in Nat
      BY DEF IInv, TypeOK, Rows
    <3> QED BY <3>1, <3>3, <3>4, <3>5
  <2> QED BY <2>1, <2>2
<1> QED BY <1>1, <1>2, <1>3, <1>4, <1>5, <1>6, <1>7

LEMMA InsertAttestedKeepsVersions ==
    ASSUME IInv, VersionInv, NEW c \in Calls, pc[c] = "attesting", InsertAttested(c)
    PROVE  TableVersions' /\ \A i : Unrecorded(i) => Unrecorded(i)'
<1>1. PICK new, cur : new = AttestedRow(c) /\ cur = Current(c)
  OBVIOUS
<1>2. /\ new \in Rows /\ cur \in Turns /\ IsServed(cur)
      /\ new.id = cur.id /\ new.version = 2 /\ new.supersedes = HashOf(cur)
      /\ new.outcome = cur.outcome /\ new.supersedes # NoHash
      /\ \A r \in audit : r.seq < new.seq
      /\ \A r \in audit : r.id = cur.id => r = cur
  BY <1>1, AttestedRowFacts
<1>3. audit' = audit \cup {new} /\ latest' = (latest \ {HashOf(cur)}) \cup {HashOf(new)}
  BY <1>1, AttestedRowFacts DEF InsertAttested
<1>4. cur \in audit /\ cur.version = 1
  BY <1>2 DEF Turns, IInv, FirstVersions
<1>5. \A r, s : HashOf(r) = HashOf(s) => r.id = s.id /\ r.version = s.version
  BY DEF HashOf, Hash
<1>6. new.seq \in Nat /\ \A r \in audit : r.seq \in Nat
  BY <1>2 DEF Rows, IInv, TypeOK
<1>7. UniqueVersions'
  BY <1>2, <1>3, <1>4 DEF VersionInv, TableVersions, UniqueVersions
<1>8. OneServed'
  <2> SUFFICES ASSUME NEW r \in audit' PROVE \E v \in audit' : v.id = r.id /\ IsServed(v)'
    BY DEF OneServed
  <2>1. CASE r.id = new.id
    <3>1. HashOf(cur) # HashOf(new) /\ HashOf(cur) \notin latest'
      BY <1>2, <1>3, <1>4, <1>5
    <3>2. \A w \in audit' : w.id = new.id => w = cur \/ w = new
      BY <1>2, <1>3
    <3>3. HashOf(new) \in latest' /\ \A w \in audit' : w.id = new.id =>
              w.seq <= new.seq /\ (HashOf(w) \in latest' => w = new)
      BY <1>2, <1>3, <1>4, <1>6, <3>1, <3>2
    <3>4. IsServed(new)'
      BY <3>3 DEF IsServed, HashOf
    <3> QED BY <1>3, <2>1, <3>4
  <2>2. CASE r.id # new.id
    <3>1. PICK v \in audit : v.id = r.id /\ IsServed(v)
      BY <1>3, <2>2 DEF VersionInv, TableVersions, OneServed
    <3>2. \A w \in audit' : w.id = v.id => w \in audit /\ HashOf(w) # HashOf(new)
                                           /\ HashOf(w) # HashOf(cur)
      BY <1>2, <1>3, <1>5, <2>2, <3>1
    <3>3. HashOf(v) \in latest' /\ \A w \in audit' : w.id = v.id =>
              w.seq <= v.seq /\ (HashOf(w) \in latest' => w = v)
      BY <1>3, <3>1, <3>2 DEF IsServed
    <3>4. IsServed(v)'
      BY <3>3 DEF IsServed, HashOf
    <3> QED BY <1>3, <3>1, <3>4
  <2> QED BY <2>1, <2>2
<1>9. SupersedesTurn'
  <2>1. Turns' = Turns
    BY <1>2, <1>3 DEF Turns
  <2> QED BY <1>2, <1>3, <1>4, <2>1 DEF VersionInv, TableVersions, SupersedesTurn, HashOf
<1>10. \A i : Unrecorded(i) => Unrecorded(i)'
  <2>1. \A i : (\A r \in audit : r.id # i) => \A r \in audit' : r.id # i
    BY <1>2, <1>3, <1>4
  <2> QED BY <2>1 DEF Unrecorded
<1> QED BY <1>7, <1>8, <1>9, <1>10 DEF TableVersions

\* A step that touches no table.
LEMMA SameTables ==
    ASSUME VersionInv, UNCHANGED tables
    PROVE  TableVersions' /\ \A i : Unrecorded(i)' <=> Unrecorded(i)
BY DEF tables, VersionInv, TableVersions, UniqueVersions, OneServed, IsServed, SupersedesTurn,
   Turns, Unrecorded, HashOf

\* What a step does to the ids the calls may still record under.
LEMMA NextKeepsFreshIds == IInv /\ VersionInv /\ [Next]_vars => FreshIds'
<1> SUFFICES ASSUME IInv, VersionInv, [Next]_vars PROVE FreshIds'
  OBVIOUS
<1>1. pc \in [Calls -> Phases] /\ work \in [Calls -> Works]
  BY DEF IInv, TypeOK
<1>2. ASSUME NEW c \in Calls,
             \A d \in Calls : d # c => pc'[d] = pc[d] /\ work'[d] = work[d],
             \A i : Unrecorded(i) /\ i # TurnId(c) => Unrecorded(i)',
             FreshId(c)'
      PROVE  FreshIds'
  <2>1. ASSUME NEW d \in Calls, d # c PROVE FreshId(d)'
    <3>1. <<d, "error">> # TurnId(c) /\ <<d, "turn">> # TurnId(c)
      BY <2>1 DEF TurnId
    <3>2. FreshId(d)
      BY DEF VersionInv, FreshIds
    <3>3. pc'[d] = pc[d] /\ work'[d] = work[d]
      BY <1>2, <2>1
    <3>4. /\ Unrecorded(<<d, "error">>) => Unrecorded(<<d, "error">>)'
          /\ Unrecorded(<<d, "turn">>) => Unrecorded(<<d, "turn">>)'
      BY <1>2, <3>1
    <3> HIDE DEF Unrecorded
    <3> QED BY <3>2, <3>3, <3>4 DEF FreshId
  <2> QED BY <1>2, <2>1 DEF FreshIds
<1>3. ASSUME NEW c \in Calls, Evaluate(c), UNCHANGED tables
      PROVE  FreshIds'
  <2>1. \A i : Unrecorded(i)' <=> Unrecorded(i)
    BY <1>3, SameTables
  <2>2. FreshId(c) /\ (work[c].verdict \in Verdicts)
    BY <1>1 DEF VersionInv, FreshIds, Works
  <2>3. /\ \A d \in Calls : d # c => pc'[d] = pc[d] /\ work'[d] = work[d]
        /\ FreshId(c)'
    <3> USE <1>1, <2>1, <2>2 DEF FreshId
    <3>1. CASE \E conv \in Conversations, user \in SomeUser, override \in Overrides :
                   ReadCaps(c, conv, user, override)
      BY <3>1 DEF ReadCaps
    <3>2. CASE \E found \in {"rule", "serve", "no_fill"} : Decide(c, found)
      BY <3>2 DEF Decide, Decided
    <3>3. CASE BeginPersist(c)
      BY <3>3 DEF BeginPersist
    <3>4. CASE Commit(c)
      BY <3>4 DEF Commit
    <3>5. CASE Fail(c) \/ CommitUnacknowledged(c)
      BY <3>5 DEF Fail, CommitUnacknowledged, FailClosed, AnswerUnrecorded, FailedWork
    <3> QED BY <1>3, <3>1, <3>2, <3>3, <3>4, <3>5 DEF Evaluate
  <2> QED BY <1>2, <2>1, <2>3
<1>4. ASSUME NEW c \in Calls, Commit(c) \/ CommitUnacknowledged(c)
      PROVE  FreshIds'
  <2>1. pc[c] = "writing" /\ InsertTurn(c)
    BY <1>4 DEF Commit, CommitUnacknowledged
  <2>2. \A i : Unrecorded(i) /\ i # TurnId(c) => Unrecorded(i)'
    BY <2>1, InsertTurnKeepsVersions
  <2>3. /\ \A d \in Calls : d # c => pc'[d] = pc[d] /\ work'[d] = work[d]
        /\ pc'[c] = "done" \/ (/\ pc'[c] = "waiting" /\ work'[c].verdict = "error"
                               /\ work[c].verdict # "error")
    BY <1>1, <1>4 DEF Commit, CommitUnacknowledged, FailClosed, AnswerUnrecorded, FailedWork
  <2>4. work[c].verdict # "error" => Unrecorded(<<c, "error">>)'
    <3>1. Unrecorded(<<c, "error">>)
      BY <2>1 DEF VersionInv, FreshIds, FreshId
    <3>2. work[c].verdict # "error" => TurnId(c) # <<c, "error">>
      BY DEF TurnId
    <3> QED BY <2>2, <3>1, <3>2
  <2>5. FreshId(c)'
    BY <2>3, <2>4 DEF FreshId
  <2> QED BY <1>2, <2>2, <2>3, <2>5
<1>5. ASSUME NEW c \in Calls, AttestCall(c)
      PROVE  FreshIds'
  <2>1. \A i : Unrecorded(i) => Unrecorded(i)'
    <3>1. CASE UNCHANGED tables
      BY <3>1, SameTables
    <3>2. CASE pc[c] = "attesting" /\ InsertAttested(c)
      BY <3>2, InsertAttestedKeepsVersions
    <3> QED
      BY <1>5, <3>1, <3>2 DEF AttestCall, RefuseAttest, BeginAttest, CommitAttest, FailAttest
  <2>2. /\ \A d \in Calls : d # c => pc'[d] = pc[d] /\ work'[d] = work[d]
        /\ pc'[c] \in {"attesting", "done"}
    BY <1>1, <1>5 DEF AttestCall, RefuseAttest, BeginAttest, CommitAttest, FailAttest, Answer
  <2>3. FreshId(c)'
    BY <2>2 DEF FreshId
  <2> QED BY <1>2, <2>1, <2>2, <2>3
<1>6. ASSUME NEW c \in Calls, Crash(c)
      PROVE  FreshIds'
  <2>1. \A i : Unrecorded(i)' <=> Unrecorded(i)
    BY <1>6, SameTables DEF Crash
  <2>2. /\ \A d \in Calls : d # c => pc'[d] = pc[d] /\ work'[d] = work[d]
        /\ FreshId(c)'
    BY <1>1, <1>6 DEF Crash, FreshId
  <2> QED BY <1>2, <2>1, <2>2
<1>7. CASE Tick \/ Finished \/ UNCHANGED vars
  <2>1. pc' = pc /\ work' = work /\ UNCHANGED tables
    BY <1>7 DEF Tick, Finished, vars, tables
  <2>2. \A i : Unrecorded(i)' <=> Unrecorded(i)
    BY <2>1, SameTables
  <2> HIDE DEF Unrecorded
  <2> QED BY <2>1, <2>2 DEF VersionInv, FreshIds, FreshId
<1>8. ASSUME NEW c \in Calls, Evaluate(c)
      PROVE  UNCHANGED tables \/ Commit(c) \/ CommitUnacknowledged(c)
  BY <1>8 DEF Evaluate, ReadCaps, Decide, BeginPersist, Fail
<1> QED BY <1>3, <1>4, <1>5, <1>6, <1>7, <1>8 DEF Next

\* An attestation under way has read a version that is served, and keeps the
\* others out until it has superseded it.
LEMMA NextKeepsCurrent == IInv /\ VersionInv /\ [Next]_vars => CurrentIsServed'
<1> SUFFICES ASSUME IInv, VersionInv, [Next]_vars, NEW c \in Calls, pc'[c] = "attesting"
             PROVE  \E row \in audit' : /\ HashOf(row) = snap'[c].current
                                       /\ IsServed(row)' /\ row.supersedes = NoHash
  BY DEF CurrentIsServed, HashOf
<1>1. UNCHANGED tables
  BY TableSteps DEF InTransaction
<1>2. \A row : IsServed(row)' <=> IsServed(row)
  BY <1>1 DEF tables, IsServed, HashOf
<1>3. pc \in [Calls -> Phases] /\ snap \in [Calls -> Snaps]
  BY DEF IInv, TypeOK
<1>4. CASE \E i \in Ids : BeginAttest(c, i)
  <2>1. PICK i \in Ids : BeginAttest(c, i)
    BY <1>4
  <2>2. PICK row \in LatestVersions(i) :
            /\ Attestable(row)
            /\ snap' = [snap EXCEPT ![c] =
                 [NoSnap EXCEPT !.seq = Tail.seq, !.hash = Tail.hash,
                                !.current = HashOf(row)]]
    BY <2>1 DEF BeginAttest
  <2>3. snap'[c].current = HashOf(row)
    <3>1. snap'[c] = [NoSnap EXCEPT !.seq = Tail.seq, !.hash = Tail.hash,
                                    !.current = HashOf(row)]
      BY <1>3, <2>2
    <3> QED BY <3>1 DEF NoSnap
  <2>4. row \in audit /\ HashOf(row) \in latest
    BY DEF LatestVersions
  <2>5. PICK v \in audit : v.id = row.id /\ IsServed(v)
    BY <2>4 DEF VersionInv, TableVersions, OneServed
  <2>6. row = v
    BY <2>4, <2>5 DEF IsServed
  <2> QED BY <1>1, <1>2, <2>2, <2>3, <2>4, <2>5, <2>6 DEF Attestable, tables
<1>5. CASE ~\E i \in Ids : BeginAttest(c, i)
  <2>1. pc[c] = "attesting" /\ snap'[c] = snap[c]
    <3>1. ASSUME NEW d \in Calls, Evaluate(d) PROVE pc[c] = "attesting" /\ snap'[c] = snap[c]
      BY <1>3, <3>1 DEF Evaluate, ReadCaps, Decide, BeginPersist, Commit, Fail,
                        CommitUnacknowledged, FailClosed, AnswerUnrecorded
    <3>2. ASSUME NEW d \in Calls, AttestCall(d)
          PROVE pc[c] = "attesting" /\ snap'[c] = snap[c]
      <4>1. CASE \E i \in Ids : BeginAttest(d, i)
        BY <1>3, <1>5, <4>1 DEF BeginAttest
      <4>2. CASE ~\E i \in Ids : BeginAttest(d, i)
        BY <1>3, <3>2, <4>2 DEF AttestCall, RefuseAttest, CommitAttest, FailAttest, Answer
      <4> QED BY <4>1, <4>2
    <3>3. CASE (\E d \in Calls : Crash(d)) \/ Tick \/ Finished \/ UNCHANGED vars
      BY <1>3, <3>3 DEF Crash, Tick, Finished, vars
    <3> QED BY <3>1, <3>2, <3>3 DEF Next
  <2> QED BY <1>1, <1>2, <2>1 DEF VersionInv, CurrentIsServed, tables
<1> QED BY <1>4, <1>5

LEMMA InitVersions == Init => VersionInv
BY DEF Init, VersionInv, TableVersions, UniqueVersions, OneServed, SupersedesTurn,
   CurrentIsServed, FreshIds, FreshId, Unrecorded, NoWork

LEMMA NextKeepsVersions == IInv /\ VersionInv /\ [Next]_vars => VersionInv'
<1> SUFFICES ASSUME IInv, VersionInv, [Next]_vars PROVE TableVersions'
  BY NextKeepsFreshIds, NextKeepsCurrent DEF VersionInv
<1> QED BY TableSteps, SameTables, InsertTurnKeepsVersions, InsertAttestedKeepsVersions

\* persist and attest: of every recorded turn exactly one version is served,
\* the newest, and a newer version supersedes the one recorded first.
THEOREM OneVersionIsLatest == Spec => []OneLatestVersion
<1>1. VersionInv => OneLatestVersion
  <2> SUFFICES ASSUME VersionInv, NEW r \in audit
               PROVE  \E v \in audit : LatestVersions(r.id) = {v} /\ r.seq <= v.seq
    BY DEF OneLatestVersion, VersionInv, TableVersions, SupersedesTurn
  <2>1. PICK v \in audit : v.id = r.id /\ IsServed(v)
    BY DEF VersionInv, TableVersions, OneServed
  <2> QED BY <2>1 DEF IsServed, LatestVersions
<1> QED BY <1>1, InitIInv, NextKeepsIInv, InitVersions, NextKeepsVersions, PTL DEF Spec

-----------------------------------------------------------------------------
(* The ledger, and what the callers are told.                              *)

\* A turn that is inserted is a turn recorded in the ledger.
LEMMA InsertTurnRecords ==
    ASSUME IInv, VersionInv, CapsHonoured', NEW c \in Calls, pc[c] = "writing", InsertTurn(c)
    PROVE  Ledger!Next
<1>1. PICK t : t = TurnRow(c)
  OBVIOUS
<1>2. t.seq = Tail.seq + 1 /\ t.supersedes = NoHash /\ t.id = TurnId(c)
  BY <1>1, TurnRowType DEF TurnRow
<1>3. audit' = audit \cup {t}
  BY <1>1 DEF InsertTurn
<1>4. \A x \in audit : x.seq < t.seq /\ x.id # t.id
  <2>1. Tail.seq \in Nat /\ \A x \in audit : x.seq \in 1..Tail.seq
    BY TailIsLast DEF IInv
  <2>2. Unrecorded(TurnId(c))
    BY InsertTurnKeepsVersions
  <2> QED BY <1>2, <2>1, <2>2 DEF Unrecorded
<1>5. Turns' = Turns \cup {t} /\ audit' \ Turns' = audit \ Turns /\ t \notin audit
  BY <1>2, <1>3, <1>4 DEF Turns
<1>6. AttestedIds' = AttestedIds
  BY <1>5 DEF AttestedIds
<1>7. \A x \in Turns : x \in audit
  BY DEF Turns
<1>8. Ledger!Honoured(Turns', t)
  <2>1. Honoured(Turns', t)
    BY <1>5 DEF CapsHonoured
  <2>2. \A T, x : Ledger!Honoured(T, x) <=> Honoured(T, x)
    <3>1. \A x : Ledger!Served(x) <=> Served(x)
      BY DEF Ledger!Served, Served
    <3>2. \A T, conv : Ledger!TurnsOf(T, conv) = TurnsOf(T, conv)
      BY DEF Ledger!TurnsOf, TurnsOf
    <3>3. \A T, conv : Ledger!ServesOf(T, conv) = ServesOf(T, conv)
      BY <3>1, <3>2 DEF Ledger!ServesOf, ServesOf
    <3>4. \A T, user, day : Ledger!DayServes(T, user, day) = DayServes(T, user, day)
      BY <3>1 DEF Ledger!DayServes, DayServes
    <3>5. \A T, x : Ledger!Before(T, x) = Before(T, x)
      BY DEF Ledger!Before, Before
    <3>6. \A T, y, x : Ledger!Between(T, y, x) = Between(T, y, x)
      BY <3>2 DEF Ledger!Between, Between
    <3>7. \A S : Ledger!Cardinality(S) = Cardinality(S)
      BY DEF Ledger!Cardinality, Cardinality
    <3> QED BY <3>1, <3>3, <3>4, <3>5, <3>6, <3>7 DEF Ledger!Honoured, Honoured
  <2> QED BY <2>1, <2>2
<1> QED BY <1>4, <1>5, <1>6, <1>7, <1>8 DEF Ledger!Next, Ledger!Record

\* A version that is inserted is an attestation in the ledger.
LEMMA InsertAttestedAttests ==
    ASSUME IInv, VersionInv, NEW c \in Calls, pc[c] = "attesting", InsertAttested(c)
    PROVE  Ledger!Next
<1>1. PICK new, cur : new = AttestedRow(c) /\ cur = Current(c)
  OBVIOUS
<1>2. /\ cur \in Turns /\ new.id = cur.id /\ new.supersedes # NoHash
      /\ \A r \in audit : r.id = cur.id => r = cur
  BY <1>1, AttestedRowFacts
<1>3. audit' = audit \cup {new}
  BY <1>1 DEF InsertAttested
<1>4. Turns' = Turns /\ audit' \ Turns' = (audit \ Turns) \cup {new}
  BY <1>2, <1>3 DEF Turns
<1>5. AttestedIds' = AttestedIds \cup {cur.id}
  BY <1>2, <1>4 DEF AttestedIds
<1>6. cur.id \notin AttestedIds
  BY <1>2 DEF AttestedIds
<1> QED BY <1>2, <1>4, <1>5, <1>6 DEF Ledger!Next, Ledger!Attest

\* Tables, locks, transactions and counters implement the ledger: every step of
\* the gateway records one turn within its caps, attests one turn for the first
\* time, or changes nothing the ledger shows.
THEOREM TablesImplementLedger == Spec => ImplementsLedger
<1>1. Init => Ledger!Init
  BY DEF Init, Ledger!Init, Turns, AttestedIds
<1>2. IInv /\ VersionInv /\ CapsInv /\ CapsInv' /\ [Next]_vars => [Ledger!Next]_(Ledger!ledger)
  <2> SUFFICES ASSUME IInv, VersionInv, CapsInv', [Next]_vars
               PROVE  Ledger!Next \/ UNCHANGED Ledger!ledger
    OBVIOUS
  <2>1. CASE UNCHANGED tables
    BY <2>1 DEF tables, Turns, AttestedIds, Ledger!ledger
  <2> QED BY <2>1, TableSteps, InsertTurnRecords, InsertAttestedAttests DEF CapsInv
<1> QED BY <1>1, <1>2, InitIInv, NextKeepsIInv, InitCaps, NextKeepsCaps, InitVersions,
           NextKeepsVersions, PTL DEF Spec, ImplementsLedger, Ledger!Spec

\* buildEvaluateResponse and the attest handler: what a caller was told is what
\* the tables hold, for good.
THEOREM RepliesMatchRecords == Spec => []ReplyMatchesRecord
<1>1. Init => ReplyMatchesRecord
  BY DEF Init, ReplyMatchesRecord, NoReply
<1>2. IInv /\ VersionInv /\ ReplyMatchesRecord /\ [Next]_vars => ReplyMatchesRecord'
  <2> SUFFICES ASSUME IInv, VersionInv, ReplyMatchesRecord, [Next]_vars, NEW d \in Calls
               PROVE  /\ reply'[d].recorded =>
                             \E v \in audit' : v.id = reply'[d].id /\
                                 IF reply'[d].outcome = "attested"
                                 THEN v.supersedes # NoHash
                                 ELSE v.supersedes = NoHash /\ v.outcome = reply'[d].outcome
                      /\ reply'[d].outcome = "serve" => reply'[d].recorded
    BY DEF ReplyMatchesRecord
  <2>1. audit \subseteq audit'
    BY TableSteps DEF tables, InsertTurn, InsertAttested
  <2>2. CASE reply'[d] = reply[d]
    BY <2>1, <2>2 DEF ReplyMatchesRecord
  <2>3. CASE ~reply'[d].recorded /\ reply'[d].outcome # "serve"
    BY <2>3
  <2>4. CASE Commit(d)
    <3>1. reply'[d] = [outcome |-> Outcome(d), id |-> TurnId(d), recorded |-> TRUE]
      BY <2>4 DEF Commit, ReplyOutcome, IInv, TypeOK
    <3>2. pc[d] = "writing" /\ TurnRow(d) \in audit'
      BY <2>4 DEF Commit, InsertTurn
    <3>3. /\ TurnRow(d).id = TurnId(d) /\ TurnRow(d).supersedes = NoHash
          /\ TurnRow(d).outcome = Outcome(d)
      BY DEF TurnRow
    <3>4. Outcome(d) # "attested"
      BY <3>2, TurnRowType DEF Outcomes
    <3> QED BY <3>1, <3>2, <3>3, <3>4
  <2>5. CASE CommitAttest(d)
    <3>1. /\ reply'[d] = [outcome |-> "attested", id |-> snap[d].current.id, recorded |-> TRUE]
          /\ pc[d] = "attesting" /\ AttestedRow(d) \in audit'
      BY <2>5 DEF CommitAttest, Answer, InsertAttested, IInv, TypeOK
    <3>2. PICK new, cur : new = AttestedRow(d) /\ cur = Current(d)
      OBVIOUS
    <3>3. new.id = cur.id /\ HashOf(cur) = snap[d].current /\ new.supersedes # NoHash
      BY <3>1, <3>2, AttestedRowFacts
    <3> QED BY <3>1, <3>2, <3>3 DEF HashOf, Hash
  <2>6. ASSUME NEW c \in Calls, Evaluate(c), ~(c = d /\ Commit(d))
        PROVE  reply'[d] = reply[d] \/ (~reply'[d].recorded /\ reply'[d].outcome # "serve")
    BY <2>6 DEF Evaluate, ReadCaps, Decide, BeginPersist, Commit, Fail, CommitUnacknowledged,
                FailClosed, AnswerUnrecorded, IInv, TypeOK
  <2>7. ASSUME NEW c \in Calls, AttestCall(c), ~(c = d /\ CommitAttest(d))
        PROVE  reply'[d] = reply[d] \/ (~reply'[d].recorded /\ reply'[d].outcome # "serve")
    <3>1. reply \in [Calls -> Replies]
      BY DEF IInv, TypeOK
    <3>2. ASSUME NEW outcome, NEW i, Answer(c, outcome, i)
          PROVE  IF c = d THEN /\ reply'[d].recorded <=> outcome = "attested"
                               /\ reply'[d].outcome = outcome
                          ELSE reply'[d] = reply[d]
      BY <3>1, <3>2 DEF Answer
    <3>3. CASE \E i \in Ids : RefuseAttest(c, i)
      BY <3>2, <3>3 DEF RefuseAttest
    <3>4. CASE \E i \in Ids : BeginAttest(c, i)
      BY <3>4 DEF BeginAttest
    <3>5. CASE CommitAttest(c) \/ FailAttest(c)
      BY <2>7, <3>2, <3>5 DEF CommitAttest, FailAttest
    <3> QED BY <2>7, <3>3, <3>4, <3>5 DEF AttestCall
  <2>8. CASE (\E c \in Calls : Crash(c)) \/ Tick \/ Finished \/ UNCHANGED vars
    BY <2>2, <2>8 DEF Crash, Tick, Finished, vars
  <2> QED BY <2>2, <2>3, <2>4, <2>5, <2>6, <2>7, <2>8 DEF Next
<1> QED BY <1>1, <1>2, InitIInv, NextKeepsIInv, InitVersions, NextKeepsVersions, PTL DEF Spec

-----------------------------------------------------------------------------
(* An overview of the console (Impressions).                              *)

\* Every set of natural numbers has a least one, unless it is empty.
LEMMA LeastNumber ==
    ASSUME NEW S \in SUBSET Nat, S # {}
    PROVE  \E n \in S : \A m \in S : n <= m
<1> DEFINE Less == OpToRel(<, Nat)
<1>1. IsWellFoundedOn(Less, Nat)
  BY NatLessThanWellFounded
<1>2. \A m, n \in Nat : m < n => <<m, n>> \in Less
  BY DEF OpToRel
<1> HIDE DEF Less
<1>3. PICK n \in S : \A m \in S : ~(<<m, n>> \in Less)
  BY <1>1, WFMin
<1>4. ASSUME NEW m \in S PROVE n <= m
  <2>1. m \in Nat /\ n \in Nat
    OBVIOUS
  <2>2. ~(m < n)
    BY <1>2, <1>3, <2>1
  <2> QED BY <2>1, <2>2
<1> QED BY <1>4

\* The recursion by which a sum over a finite set is computed.
PickOf(s) == CHOOSE x \in s : TRUE
OneMore(e, S, g) ==
    [s \in SUBSET S |-> IF s = {} THEN 0 ELSE e[PickOf(s).id] + g[s \ {PickOf(s)}]]
Reported(e, s) == {r \in s : e[r.id] = 1}
Counts(e, S) == [s \in SUBSET S |-> Cardinality(Reported(e, s))]

LEMMA PickIsMember == ASSUME NEW s, s # {} PROVE PickOf(s) \in s
BY DEF PickOf

\* Counting the members whose value is 1 solves it ...
LEMMA CountSolves ==
    ASSUME NEW S, IsFiniteSet(S), NEW e, \A r \in S : e[r.id] \in {0, 1}
    PROVE  Counts(e, S) = OneMore(e, S, Counts(e, S))
<1> DEFINE count == Counts(e, S)
<1> SUFFICES ASSUME NEW s \in SUBSET S
             PROVE  count[s] = IF s = {} THEN 0 ELSE e[PickOf(s).id] + count[s \ {PickOf(s)}]
  BY DEF OneMore, Counts
<1>1. CASE s = {}
  <2>1. Reported(e, s) = {}
    BY <1>1 DEF Reported
  <2> QED BY <1>1, <2>1, FS_EmptySet DEF Counts
<1>2. CASE s # {}
  <2> DEFINE x == PickOf(s)
             less == s \ {x}
  <2>1. x \in s /\ less \in SUBSET S
    BY <1>2, PickIsMember
  <2> HIDE DEF x
  <2>2. IsFiniteSet(Reported(e, less)) /\ Reported(e, less) \in SUBSET S
    <3>1. Reported(e, less) \in SUBSET S
      BY <2>1 DEF Reported
    <3> QED BY <3>1, FS_Subset
  <2>3. Cardinality(Reported(e, less)) \in Nat
    BY <2>2, FS_CardinalityType
  <2>4. CASE e[x.id] = 1
    <3>1. Reported(e, s) = Reported(e, less) \cup {x} /\ x \notin Reported(e, less)
      BY <2>1, <2>4 DEF Reported
    <3>2. Cardinality(Reported(e, s)) = Cardinality(Reported(e, less)) + 1
      BY <2>2, <3>1, FS_AddElement
    <3> QED BY <1>2, <2>1, <2>3, <2>4, <3>2 DEF x, Counts
  <2>5. CASE e[x.id] = 0
    <3>1. Reported(e, s) = Reported(e, less)
      BY <2>1, <2>5 DEF Reported
    <3> QED BY <1>2, <2>1, <2>3, <2>5, <3>1 DEF x, Counts
  <2> QED BY <2>1, <2>4, <2>5
<1> QED BY <1>1, <1>2

\* ... and nothing else does: the set of least size on which two solutions
\* differ would have a smaller one.
LEMMA SolutionIsUnique ==
    ASSUME NEW S, IsFiniteSet(S), NEW e, NEW g, NEW h,
           g = OneMore(e, S, g), h = OneMore(e, S, h)
    PROVE  g[S] = h[S]
<1> DEFINE Differ == {s \in SUBSET S : g[s] # h[s]}
           Sizes == {Cardinality(s) : s \in Differ}
<1>1. \A s \in SUBSET S : /\ g[s] = IF s = {} THEN 0 ELSE e[PickOf(s).id] + g[s \ {PickOf(s)}]
                          /\ h[s] = IF s = {} THEN 0 ELSE e[PickOf(s).id] + h[s \ {PickOf(s)}]
  BY DEF OneMore
<1>2. \A s \in SUBSET S : IsFiniteSet(s) /\ Cardinality(s) \in Nat
  BY FS_Subset, FS_CardinalityType
<1>3. SUFFICES ASSUME S \in Differ PROVE FALSE
  OBVIOUS
<1>4. Sizes \in SUBSET Nat /\ Sizes # {}
  BY <1>2, <1>3
<1> HIDE DEF Sizes
<1>5. PICK n \in Sizes : \A m \in Sizes : n <= m
  BY <1>4, LeastNumber
<1>6. PICK s \in Differ : Cardinality(s) = n
  BY DEF Sizes
<1>7. s \in SUBSET S /\ g[s] # h[s]
  OBVIOUS
<1>8. s # {}
  BY <1>1, <1>7
<1>9. PICK less : less = s \ {PickOf(s)}
  OBVIOUS
<1>10. less \in SUBSET S /\ Cardinality(less) = Cardinality(s) - 1
  <2>1. PickOf(s) \in s /\ IsFiniteSet(s)
    BY <1>2, <1>7, <1>8, PickIsMember
  <2> QED BY <1>7, <1>9, <2>1, FS_RemoveElement
<1>11. g[less] # h[less]
  BY <1>1, <1>7, <1>8, <1>9
<1>12. Cardinality(less) \in Sizes /\ Cardinality(s) \in Nat
  BY <1>2, <1>7, <1>10, <1>11 DEF Sizes
<1> QED BY <1>2, <1>5, <1>6, <1>10, <1>12

\* A sum of zeros and ones counts the ones.
LEMMA SumCounts ==
    ASSUME NEW S, IsFiniteSet(S), NEW e, \A r \in S : e[r.id] \in {0, 1}
    PROVE  MapThenSumSet(LAMBDA r : e[r.id], S) = Cardinality(Reported(e, S))
<1> DEFINE count == Counts(e, S)
           iter == CHOOSE g : g = OneMore(e, S, g)
<1>1. count = OneMore(e, S, count)
  BY CountSolves
<1>2. iter = OneMore(e, S, iter)
  BY <1>1
<1>3. MapThenSumSet(LAMBDA r : e[r.id], S) = iter[S]
  BY DEF MapThenSumSet, MapThenFoldSet, OneMore, PickOf
<1>4. count[S] = Cardinality(Reported(e, S))
  BY DEF Counts
<1> HIDE DEF count, iter
<1> QED BY <1>1, <1>2, <1>3, <1>4, SolutionIsUnique

-----------------------------------------------------------------------------
TurnRows == [id : AuditIds, ts : Nat, decision : {"serve", "suppress"}, latest : BOOLEAN,
             version : {1, 2}]
MaybeAudit == AuditIds \cup {NoAudit}
Slots == [shown : MaybeAudit, nested : BOOLEAN, inside : BOOLEAN, blocked : BOOLEAN,
          dismissed : MaybeAudit, fired : MaybeAudit, watched : MaybeAudit, due : BOOLEAN]

\* A turn has one latest row.
OneLatest(R) ==
    /\ R \in SUBSET TurnRows /\ IsFiniteSet(R)
    /\ \A r, s \in R : r.latest /\ s.latest /\ r.id = s.id => r = s
    /\ \A r \in R : \E s \in R : s.id = r.id /\ s.latest

\* An impression is of a turn that was displayed, and each is inserted once.
ReportsAreOfDisplayed ==
    /\ posted \in [AuditIds -> Nat] /\ eventRows \in [AuditIds -> {0, 1}]
    /\ \A i \in AuditIds : posted[i] > 0 \/ eventRows[i] > 0 => i \in displayed

\* Only ads are displayed or watched, and what is watched outside a message
\* has been displayed, whichever decision the slot shows by now.
ScreenIsHonest ==
    /\ slot \in Slots
    /\ \A i \in displayed : ServesAd(i)
    /\ slot.watched # NoAudit =>
           ServesAd(slot.watched) /\ (~slot.inside => slot.watched \in displayed)

OnDay(S, day, until) == {i \in S : DayOf(Latest(i).ts) = day /\ Latest(i).ts < until}

OverviewIsFixed ==
    /\ \E u, d, e, t : overview = [until |-> u, decisions |-> d, events |-> e, turns |-> t]
    /\ overview = NoOverview \/ overview.until \in Nat
    /\ overview.decisions # Unread =>
           /\ overview.turns \subseteq Recorded
           /\ \A day \in WindowOf(overview.until) :
                  /\ overview.decisions[day]["serve"] =
                         Cardinality(OnDay({i \in overview.turns : ServesAd(i)}, day, overview.until))
                  /\ overview.decisions[day]["suppress"] =
                         Cardinality(OnDay({i \in overview.turns : ~ServesAd(i)}, day, overview.until))
    /\ overview.events # Unread =>
           \A day \in WindowOf(overview.until) :
               /\ overview.events[day] \in Nat
               /\ overview.events[day] <= Cardinality(OnDay(displayed, day, overview.until))

OverviewInv ==
    /\ tick \in Nat /\ OneLatest(rows)
    /\ ReportsAreOfDisplayed /\ ScreenIsHonest /\ OverviewIsFixed

-----------------------------------------------------------------------------
\* The row that stands for a turn.
LEMMA LatestIs ==
    ASSUME NEW R, OneLatest(R), NEW i \in {r.id : r \in R}
    PROVE  LET l == CHOOSE r \in R : r.id = i /\ r.latest
           IN l \in R /\ l.id = i /\ l.latest /\ \A r \in R : r.id = i /\ r.latest => r = l
BY DEF OneLatest

LEMMA LatestNow ==
    ASSUME OneLatest(rows), NEW i \in Recorded
    PROVE  /\ Latest(i) \in rows /\ Latest(i).id = i /\ Latest(i).latest
           /\ \A r \in rows : r.id = i /\ r.latest => r = Latest(i)
BY LatestIs DEF Recorded, Latest

LEMMA RecordedIsFinite ==
    ASSUME NEW R, OneLatest(R)
    PROVE  IsFiniteSet({r.id : r \in R})
<1> DEFINE f == [r \in R |-> r.id]
           T == {r.id : r \in R}
<1>1. f \in Surjection(R, T)
  BY DEF Surjection
<1>2. IsFiniteSet(R)
  BY DEF OneLatest
<1> HIDE DEF f, T
<1>3. IsFiniteSet(T)
  BY <1>1, <1>2, FS_Surjection
<1> QED BY <1>3 DEF T

\* Turns and the latest rows they are counted by correspond to each other.
LEMMA RowsCountTurns ==
    ASSUME OneLatest(rows), NEW S \in SUBSET Recorded, NEW T \in SUBSET rows,
           \A r \in T : r.latest, \A i \in Recorded : i \in S <=> Latest(i) \in T
    PROVE  IsFiniteSet(T) /\ Cardinality(T) = Cardinality(S) /\ Cardinality(T) \in Nat
<1> DEFINE f == [r \in T |-> r.id]
<1>1. IsFiniteSet(T) /\ Cardinality(T) \in Nat
  BY FS_Subset, FS_CardinalityType DEF OneLatest
<1>2. \A r \in T : r.id \in Recorded /\ Latest(r.id) = r
  BY LatestNow DEF Recorded
<1>3. f \in [T -> S]
  BY <1>2
<1>4. \A q, r \in T : f[q] = f[r] => q = r
  BY <1>2
<1>5. \A i \in S : \E r \in T : f[r] = i
  BY LatestNow
<1>6. f \in Bijection(T, S)
  BY <1>3, <1>4, <1>5 DEF Bijection, Injection, Surjection, IsInjective
<1>7. ExistsBijection(T, S)
  BY <1>6 DEF ExistsBijection
<1> QED BY <1>1, <1>7, FS_Bijection

\* appDecisionCountsQuery: a count per day and decision is one of turns.
LEMMA DecisionsCountTurns ==
    ASSUME OneLatest(rows), NEW until \in Nat, NEW day \in WindowOf(until)
    PROVE  /\ Cardinality(TurnsOn(day, "serve", until))
                = Cardinality(OnDay({i \in Recorded : ServesAd(i)}, day, until))
           /\ Cardinality(TurnsOn(day, "suppress", until))
                = Cardinality(OnDay({i \in Recorded : ~ServesAd(i)}, day, until))
<1>1. day > DayOf(until) - WindowDays
  <2>1. DayOf(until) \in Int /\ WindowDays \in Nat
    BY ImpressionsAssumption DEF DayOf
  <2> QED BY <2>1 DEF WindowOf
<1>2. \A i \in Recorded : /\ Latest(i) \in rows /\ Latest(i).latest
                          /\ Latest(i).decision \in {"serve", "suppress"}
  BY LatestNow DEF OneLatest, TurnRows
<1>3. \A i \in Recorded : ServesAd(i) <=> Latest(i).decision = "serve"
  BY DEF ServesAd
<1>4. \A i \in Recorded :
          /\ i \in OnDay({j \in Recorded : ServesAd(j)}, day, until)
                 <=> Latest(i) \in TurnsOn(day, "serve", until)
          /\ i \in OnDay({j \in Recorded : ~ServesAd(j)}, day, until)
                 <=> Latest(i) \in TurnsOn(day, "suppress", until)
  BY <1>1, <1>2, <1>3 DEF OnDay, TurnsOn, InWindow
<1>5. \A d \in {"serve", "suppress"} :
          /\ TurnsOn(day, d, until) \in SUBSET rows
          /\ \A r \in TurnsOn(day, d, until) : r.latest
  BY DEF TurnsOn, InWindow
<1>6. /\ OnDay({j \in Recorded : ServesAd(j)}, day, until) \in SUBSET Recorded
      /\ OnDay({j \in Recorded : ~ServesAd(j)}, day, until) \in SUBSET Recorded
  BY DEF OnDay
<1>7. Cardinality(TurnsOn(day, "serve", until))
          = Cardinality(OnDay({i \in Recorded : ServesAd(i)}, day, until))
  BY <1>4, <1>5, <1>6, RowsCountTurns
<1>8. Cardinality(TurnsOn(day, "suppress", until))
          = Cardinality(OnDay({i \in Recorded : ~ServesAd(i)}, day, until))
  BY <1>4, <1>5, <1>6, RowsCountTurns
<1> QED BY <1>7, <1>8

\* appEventCountsQuery: the impressions of a day are of displayed turns of it.
LEMMA ImpressionsCountDisplayed ==
    ASSUME OneLatest(rows), ReportsAreOfDisplayed, displayed \subseteq Recorded,
           NEW until \in Nat, NEW day \in WindowOf(until)
    PROVE  /\ ImpressionsPerDay(until)[day] \in Nat
           /\ ImpressionsPerDay(until)[day] <= Cardinality(OnDay(displayed, day, until))
<1> DEFINE S == {r \in rows : InWindow(r, until) /\ DayOf(r.ts) = day}
           T == Reported(eventRows, S)
           D == OnDay(displayed, day, until)
           E == {i \in Recorded : Latest(i) \in T}
<1>1. IsFiniteSet(S)
  BY FS_Subset DEF OneLatest
<1>2. \A r \in S : r \in rows /\ r.id \in AuditIds /\ eventRows[r.id] \in {0, 1}
  BY DEF OneLatest, TurnRows, ReportsAreOfDisplayed
<1>3. ImpressionsPerDay(until)[day] = Cardinality(T)
  <2>1. ImpressionsPerDay(until)[day] = MapThenSumSet(LAMBDA r : eventRows[r.id], S)
    BY DEF ImpressionsPerDay
  <2> HIDE DEF S
  <2>2. MapThenSumSet(LAMBDA r : eventRows[r.id], S) = Cardinality(Reported(eventRows, S))
    BY <1>1, <1>2, SumCounts
  <2> QED BY <2>1, <2>2
<1>4. T \in SUBSET rows /\ \A r \in T : r.latest
  BY DEF Reported, InWindow
<1>5. Cardinality(T) = Cardinality(E) /\ Cardinality(T) \in Nat
  <2> HIDE DEF T
  <2>1. E \in SUBSET Recorded /\ \A i \in Recorded : i \in E <=> Latest(i) \in T
    OBVIOUS
  <2> HIDE DEF E
  <2> QED BY <1>4, <2>1, RowsCountTurns
<1>6. E \subseteq D
  <2> SUFFICES ASSUME NEW i \in Recorded, Latest(i) \in T PROVE i \in D
    OBVIOUS
  <2>1. Latest(i).id = i /\ Latest(i) \in rows
    BY LatestNow
  <2>2. InWindow(Latest(i), until) /\ DayOf(Latest(i).ts) = day /\ eventRows[i] = 1
    BY <2>1 DEF Reported
  <2>3. i \in AuditIds
    BY <2>1 DEF OneLatest, TurnRows
  <2>4. i \in displayed
    BY <2>2, <2>3 DEF ReportsAreOfDisplayed
  <2> QED BY <2>2, <2>4 DEF OnDay, InWindow
<1>7. IsFiniteSet(D)
  <2>1. D \subseteq Recorded
    BY DEF OnDay
  <2>2. IsFiniteSet(Recorded)
    BY RecordedIsFinite DEF Recorded
  <2> QED BY <2>1, <2>2, FS_Subset
<1>8. Cardinality(E) <= Cardinality(D)
  BY <1>6, <1>7, FS_Subset
<1> QED BY <1>3, <1>5, <1>8

-----------------------------------------------------------------------------
\* A step may add turns and may attest them: what was counted stays.
Stable ==
    /\ Recorded \subseteq Recorded'
    /\ \A i \in Recorded : /\ Latest(i)'.ts = Latest(i).ts
                           /\ Latest(i)'.decision = Latest(i).decision

LEMMA StableServes ==
    ASSUME Stable
    PROVE  /\ \A i \in Recorded : ServesAd(i)' = ServesAd(i)
           /\ \A i : ServesAd(i) => ServesAd(i)'
           /\ \A S \in SUBSET Recorded : \A day, until : OnDay(S, day, until)' = OnDay(S, day, until)
BY DEF Stable, ServesAd, OnDay

LEMMA RecordTurnIsStable ==
    ASSUME OneLatest(rows), tick \in Nat, NEW i \in AuditIds, RecordTurn(i)
    PROVE  OneLatest(rows)' /\ Stable
<1>1. PICK r \in TurnRows : /\ rows' = rows \cup {r} /\ r.id = i /\ r.latest
  <2>1. PICK ts \in {tick - 1, tick} \cap Nat, d \in {"serve", "suppress"} :
            rows' = rows \cup
                {[id |-> i, ts |-> ts, decision |-> d, latest |-> TRUE, version |-> 1]}
    BY DEF RecordTurn
  <2>2. PICK r : r = [id |-> i, ts |-> ts, decision |-> d, latest |-> TRUE, version |-> 1]
    OBVIOUS
  <2>3. r \in TurnRows /\ r.id = i /\ r.latest
    BY <2>2 DEF TurnRows
  <2> QED BY <2>1, <2>2, <2>3
<1>2. i \notin Recorded
  BY DEF RecordTurn
<1>3. OneLatest(rows')
  <2>1. IsFiniteSet(rows')
    BY <1>1, FS_AddElement DEF OneLatest
  <2> QED BY <1>1, <1>2, <2>1 DEF OneLatest, Recorded
<1>4. Recorded \subseteq Recorded'
  BY <1>1 DEF Recorded
<1>5. ASSUME NEW j \in Recorded PROVE Latest(j)' = Latest(j)
  <2>1. Latest(j) \in rows' /\ Latest(j).id = j /\ Latest(j).latest
    BY <1>1, LatestNow
  <2>2. j \in {q.id : q \in rows'}
    BY <2>1
  <2> QED BY <1>3, <2>1, <2>2, LatestIs DEF Latest
<1> QED BY <1>3, <1>4, <1>5 DEF Stable

LEMMA AttestTurnIsStable ==
    ASSUME OneLatest(rows), NEW i \in AuditIds, AttestTurn(i)
    PROVE  OneLatest(rows)' /\ Stable
<1>1. PICK l : l = Latest(i)
  OBVIOUS
<1>2. i \in Recorded /\ l \in rows /\ l.id = i /\ l.latest
  BY <1>1, LatestNow DEF AttestTurn
<1>3. PICK old, new : old = [l EXCEPT !.latest = FALSE] /\ new = [l EXCEPT !.version = 2]
  OBVIOUS
<1>4. l \in TurnRows
  BY <1>2 DEF OneLatest
<1>5. /\ old \in TurnRows /\ old.id = i /\ ~old.latest
      /\ new \in TurnRows /\ new.id = i /\ new.latest
      /\ new.ts = l.ts /\ new.decision = l.decision
  BY <1>2, <1>3, <1>4 DEF TurnRows
<1>6. rows' = (rows \ {l}) \cup {old, new}
  BY <1>1, <1>3 DEF AttestTurn
<1>7. \A r \in rows : r.id = i /\ r.latest => r = l
  BY <1>1, <1>2, LatestNow
<1>8. OneLatest(rows')
  <2>1. IsFiniteSet(rows')
    <3>1. IsFiniteSet(rows \ {l})
      BY FS_RemoveElement DEF OneLatest
    <3>2. IsFiniteSet((rows \ {l}) \cup {old})
      BY <3>1, FS_AddElement
    <3>3. IsFiniteSet(((rows \ {l}) \cup {old}) \cup {new})
      BY <3>2, FS_AddElement
    <3>4. rows' = ((rows \ {l}) \cup {old}) \cup {new}
      BY <1>6
    <3> QED BY <3>3, <3>4
  <2>2. rows' \in SUBSET TurnRows
    BY <1>5, <1>6 DEF OneLatest
  <2>3. \A r, s \in rows' : r.latest /\ s.latest /\ r.id = s.id => r = s
    BY <1>5, <1>6, <1>7 DEF OneLatest
  <2>4. \A r \in rows' : \E s \in rows' : s.id = r.id /\ s.latest
    <3> SUFFICES ASSUME NEW r \in rows' PROVE \E s \in rows' : s.id = r.id /\ s.latest
      OBVIOUS
    <3>1. CASE r.id = i
      BY <1>5, <1>6, <3>1
    <3>2. CASE r.id # i
      <4>1. r \in rows
        BY <1>5, <1>6, <3>2
      <4>2. PICK s \in rows : s.id = r.id /\ s.latest
        BY <4>1 DEF OneLatest
      <4> QED BY <1>2, <1>6, <3>2, <4>2
    <3> QED BY <3>1, <3>2
  <2> QED BY <2>1, <2>2, <2>3, <2>4 DEF OneLatest
<1>9. Recorded' = Recorded
  BY <1>2, <1>5, <1>6 DEF Recorded
<1>10. ASSUME NEW j \in Recorded
       PROVE  Latest(j)'.ts = Latest(j).ts /\ Latest(j)'.decision = Latest(j).decision
  <2>1. j \in {q.id : q \in rows'}
    BY <1>9 DEF Recorded
  <2>2. CASE j = i
    <3>1. new \in rows'
      BY <1>6
    <3>2. Latest(j)' = new
      BY <1>5, <1>8, <2>1, <2>2, <3>1, LatestIs DEF Latest
    <3> QED BY <1>1, <1>5, <2>2, <3>2
  <2>3. CASE j # i
    <3>1. Latest(j) \in rows /\ Latest(j).id = j /\ Latest(j).latest
      BY LatestNow
    <3>2. Latest(j) \in rows'
      BY <1>2, <1>6, <2>3, <3>1
    <3>3. Latest(j)' = Latest(j)
      BY <1>8, <2>1, <3>1, <3>2, LatestIs DEF Latest
    <3> QED BY <3>3
  <2> QED BY <2>2, <2>3
<1> QED BY <1>8, <1>9, <1>10 DEF Stable

\* An overview that is not read again keeps its counts, and what it counted
\* of displayed turns can only be less than there are now.
LEMMA UnreadOverviewStays ==
    ASSUME OverviewInv, OneLatest(rows)', Stable, UNCHANGED overview,
           displayed \subseteq displayed', displayed' \subseteq Recorded'
    PROVE  OverviewIsFixed'
<1>1. /\ \A i \in Recorded : ServesAd(i)' = ServesAd(i)
      /\ \A S \in SUBSET Recorded : \A day, until : OnDay(S, day, until)' = OnDay(S, day, until)
  BY StableServes
<1>2. displayed \in SUBSET Recorded
  BY DEF OverviewInv, ScreenIsHonest, ServesAd
<1>3. ASSUME overview.decisions # Unread
      PROVE  /\ overview.turns \subseteq Recorded'
             /\ \A day \in WindowOf(overview.until) :
                    /\ overview.decisions[day]["serve"] =
                         Cardinality(OnDay({i \in overview.turns : ServesAd(i)}, day, overview.until)')
                    /\ overview.decisions[day]["suppress"] =
                         Cardinality(OnDay({i \in overview.turns : ~ServesAd(i)}, day, overview.until)')
  <2>1. overview.turns \subseteq Recorded
    BY <1>3 DEF OverviewInv, OverviewIsFixed
  <2>2. PICK S, T : /\ S = {i \in overview.turns : ServesAd(i)}
                    /\ T = {i \in overview.turns : ~ServesAd(i)}
    OBVIOUS
  <2>3. S \in SUBSET Recorded /\ T \in SUBSET Recorded
    BY <2>1, <2>2
  <2>4. S = {i \in overview.turns : ServesAd(i)'} /\ T = {i \in overview.turns : ~ServesAd(i)'}
    BY <1>1, <2>1, <2>2
  <2>5. \A day : /\ OnDay(S, day, overview.until)' = OnDay(S, day, overview.until)
                 /\ OnDay(T, day, overview.until)' = OnDay(T, day, overview.until)
    BY <1>1, <2>3
  <2>6. \A day : /\ OnDay({i \in overview.turns : ServesAd(i)}, day, overview.until)'
                       = OnDay(S, day, overview.until)
                 /\ OnDay({i \in overview.turns : ~ServesAd(i)}, day, overview.until)'
                       = OnDay(T, day, overview.until)
    BY <2>4, <2>5 DEF OnDay
  <2>7. Recorded \subseteq Recorded'
    BY DEF Stable
  <2> QED BY <1>3, <2>1, <2>2, <2>6, <2>7 DEF OverviewInv, OverviewIsFixed
<1>4. ASSUME overview.events # Unread, NEW day \in WindowOf(overview.until)
      PROVE  Cardinality(OnDay(displayed, day, overview.until))
                <= Cardinality(OnDay(displayed, day, overview.until)')
             /\ Cardinality(OnDay(displayed, day, overview.until)) \in Nat
             /\ Cardinality(OnDay(displayed, day, overview.until)') \in Nat
  <2>1. PICK before, after : /\ before = OnDay(displayed, day, overview.until)
                             /\ after = OnDay(displayed, day, overview.until)'
    OBVIOUS
  <2>2. before \subseteq after /\ after \subseteq Recorded'
    BY <1>2, <2>1 DEF OnDay, Stable
  <2>3. IsFiniteSet(Recorded')
    BY RecordedIsFinite DEF Recorded
  <2>4. IsFiniteSet(after)
    BY <2>2, <2>3, FS_Subset
  <2> QED BY <2>1, <2>2, <2>4, FS_Subset, FS_CardinalityType
<1>5. ASSUME overview.events # Unread, NEW day \in WindowOf(overview.until)
      PROVE  /\ overview.events[day] \in Nat
             /\ overview.events[day] <= Cardinality(OnDay(displayed, day, overview.until)')
  BY <1>4, <1>5 DEF OverviewInv, OverviewIsFixed
<1>6. /\ \E u, d, e, t : overview = [until |-> u, decisions |-> d, events |-> e, turns |-> t]
      /\ overview = NoOverview \/ overview.until \in Nat
  BY DEF OverviewInv, OverviewIsFixed
<1>7. PICK o : o = overview /\ o = overview'
  OBVIOUS
<1>8. \A day : WindowOf(day)' = WindowOf(day)
  BY DEF WindowOf, DayOf
<1> QED BY <1>3, <1>5, <1>6, <1>8 DEF OverviewIsFixed

\* What every step comes down to: new turns, reports, a slot, or time.
LEMMA OverviewStays ==
    ASSUME OverviewInv, tick' \in Nat, OneLatest(rows)', Stable, UNCHANGED overview,
           ReportsAreOfDisplayed', ScreenIsHonest', displayed \subseteq displayed'
    PROVE  OverviewInv'
<1>1. displayed' \subseteq Recorded'
  BY DEF ScreenIsHonest, ServesAd
<1> QED BY <1>1, UnreadOverviewStays DEF OverviewInv

LEMMA SameRowsAreStable == ASSUME UNCHANGED rows PROVE Stable
BY DEF Stable, Recorded, Latest

\* The slot becomes s.
LEMMA SlotStays ==
    ASSUME OverviewInv, UNCHANGED <<rows, eventRows, tick, overview>>, NEW s \in Slots, slot' = s,
           displayed \subseteq displayed', \A i \in displayed' : i \in displayed \/ ServesAd(i),
           posted' \in [AuditIds -> Nat],
           \A i \in AuditIds : posted'[i] > 0 => posted[i] > 0 \/ i \in displayed',
           s.watched # NoAudit => ServesAd(s.watched) /\ (~s.inside => s.watched \in displayed')
    PROVE  OverviewInv'
<1>1. Stable /\ OneLatest(rows)' /\ tick' \in Nat
  BY SameRowsAreStable DEF OverviewInv, OneLatest
<1>2. \A i : ServesAd(i)' = ServesAd(i)
  BY DEF ServesAd, Recorded, Latest
<1>3. ReportsAreOfDisplayed'
  BY DEF OverviewInv, ReportsAreOfDisplayed
<1>4. ScreenIsHonest'
  BY <1>2 DEF OverviewInv, ScreenIsHonest
<1> QED BY <1>1, <1>3, <1>4, OverviewStays

\* A commit keeps what is watched and where the node is.
LEMMA CommitStays ==
    ASSUME OverviewInv, UNCHANGED <<rows, eventRows, tick, overview, posted>>,
           NEW before, NEW s \in Slots, Becomes(Committed(before, s)),
           s.watched = NoAudit \/ (s.watched = slot.watched /\ s.inside = slot.inside)
    PROVE  OverviewInv'
<1> DEFINE c == Committed(before, s)
<1>1. c \in Slots /\ c.watched = s.watched /\ c.inside = s.inside
  <2>1. PICK b \in BOOLEAN : c = [s EXCEPT !.blocked = b, !.due = TRUE]
    <3>1. CanRender(s) \in BOOLEAN /\ CanRender(before) \in BOOLEAN /\ s.blocked \in BOOLEAN
      BY DEF CanRender, Slots
    <3>2. (s.blocked \/ (CanRender(s) /\ ~CanRender(before) /\ s.inside)) \in BOOLEAN
      OBVIOUS
    <3> QED BY <3>2 DEF Committed
  <2> HIDE DEF c
  <2> QED BY <2>1 DEF Slots
<1>2. slot' = c /\ displayed' = displayed \cup OnScreen(c)
  BY DEF Becomes
<1>3. \A i \in OnScreen(c) : ServesAd(i)
  BY DEF OnScreen, CanRender
<1>4. posted' \in [AuditIds -> Nat] /\ \A i \in AuditIds : posted'[i] > 0 => posted[i] > 0
  BY DEF OverviewInv, ReportsAreOfDisplayed
<1>5. c.watched # NoAudit =>
          ServesAd(c.watched) /\ (~c.inside => c.watched \in displayed')
  BY <1>1, <1>2 DEF OverviewInv, ScreenIsHonest
<1> HIDE DEF c
<1> QED BY <1>1, <1>2, <1>3, <1>4, <1>5, SlotStays

LEMMA MountStays == ASSUME OverviewInv, Mount PROVE OverviewInv'
<1>1. PICK i \in Answerable, nested \in BOOLEAN, inside \in BOOLEAN :
          Becomes(Committed(Mounted(NoAudit, nested, inside), Mounted(i, nested, inside)))
  BY DEF Mount
<1>2. i \in MaybeAudit
  BY DEF Answerable, Recorded, MaybeAudit, OverviewInv, OneLatest, TurnRows
<1>3. Mounted(i, nested, inside) \in Slots /\ Mounted(i, nested, inside).watched = NoAudit
  BY <1>2 DEF Mounted, Slots, MaybeAudit
<1>4. UNCHANGED <<rows, eventRows, tick, overview, posted>>
  BY <1>1 DEF Mount, AppRenders, Becomes
<1> QED BY <1>1, <1>3, <1>4, CommitStays

LEMMA NewDecisionStays == ASSUME OverviewInv, NewDecision PROVE OverviewInv'
<1>1. PICK i \in Answerable : Becomes(Committed(slot, [slot EXCEPT !.shown = i]))
  BY DEF NewDecision
<1>2. i \in MaybeAudit /\ slot \in Slots
  BY DEF Answerable, Recorded, MaybeAudit, OverviewInv, OneLatest, TurnRows, ScreenIsHonest
<1>3. PICK s : s = [slot EXCEPT !.shown = i]
  OBVIOUS
<1>4. s \in Slots /\ s.watched = slot.watched /\ s.inside = slot.inside
  BY <1>2, <1>3 DEF Slots
<1>5. UNCHANGED <<rows, eventRows, tick, overview, posted>>
  BY <1>1 DEF NewDecision, AppRenders, Becomes
<1> QED BY <1>1, <1>3, <1>4, <1>5, CommitStays

LEMMA DismissStays == ASSUME OverviewInv, HandleDismiss PROVE OverviewInv'
<1>1. Becomes(Committed(slot, [slot EXCEPT !.dismissed = slot.shown]))
  BY DEF HandleDismiss
<1>2. PICK s : s = [slot EXCEPT !.dismissed = slot.shown]
  OBVIOUS
<1>3. s \in Slots /\ s.watched = slot.watched /\ s.inside = slot.inside
  BY <1>2 DEF Slots, OverviewInv, ScreenIsHonest
<1>4. UNCHANGED <<rows, eventRows, tick, overview, posted>>
  BY <1>1 DEF HandleDismiss, Becomes
<1> QED BY <1>1, <1>2, <1>3, <1>4, CommitStays

\* The effects watch what is shown, which is on the screen if outside.
LEMMA EffectsStay == ASSUME OverviewInv, RunEffects PROVE OverviewInv'
<1>1. PICK w : w = IF CanRender(slot) /\ slot.fired # slot.shown THEN slot.shown ELSE NoAudit
  OBVIOUS
<1>2. PICK s : s = [slot EXCEPT !.due = FALSE, !.watched = w]
  OBVIOUS
<1>3. slot \in Slots
  BY DEF OverviewInv, ScreenIsHonest
<1>4. w \in MaybeAudit
  BY <1>1, <1>3 DEF Slots, MaybeAudit
<1>5. /\ s \in Slots /\ s.watched = w /\ s.inside = slot.inside /\ s.shown = slot.shown
      /\ s.nested = slot.nested /\ s.blocked = slot.blocked /\ s.dismissed = slot.dismissed
  BY <1>2, <1>3, <1>4 DEF Slots
<1>6. Becomes(s) /\ UNCHANGED posted
  BY <1>1, <1>2 DEF RunEffects
<1>7. CanRender(s) = CanRender(slot)
  BY <1>5 DEF CanRender
<1>8. \A i \in OnScreen(s) : ServesAd(i)
  BY DEF OnScreen, CanRender
<1>9. w # NoAudit => ServesAd(w) /\ (~s.inside => w \in OnScreen(s))
  BY <1>1, <1>5, <1>7 DEF OnScreen, CanRender
<1>10. posted' \in [AuditIds -> Nat]
  BY <1>6 DEF OverviewInv, ReportsAreOfDisplayed
<1> QED BY <1>5, <1>6, <1>8, <1>9, <1>10, SlotStays DEF Becomes

\* A node that leaves a message shows its decision and takes along what is
\* still watched on it.
LEMMA MoveStays == ASSUME OverviewInv, MoveNode PROVE OverviewInv'
<1>1. PICK s : s = [slot EXCEPT !.inside = ~@]
  OBVIOUS
<1>2. slot \in Slots
  BY DEF OverviewInv, ScreenIsHonest
<1>3. s \in Slots /\ s.watched = slot.watched /\ s.inside = ~slot.inside
  BY <1>1, <1>2 DEF Slots
<1>4. slot' = s /\ UNCHANGED <<rows, eventRows, tick, overview, posted>>
  BY <1>1 DEF MoveNode
<1>5. displayed' = displayed \cup OnScreen(s)
                    \cup (IF slot.inside THEN {slot.watched} \ {NoAudit} ELSE {})
  BY <1>4 DEF MoveNode
<1>6. \A i \in displayed' : i \in displayed \/ ServesAd(i)
  BY <1>5 DEF OnScreen, CanRender, OverviewInv, ScreenIsHonest
<1>7. s.watched # NoAudit => ServesAd(s.watched) /\ (~s.inside => s.watched \in displayed')
  BY <1>2, <1>3, <1>5 DEF OverviewInv, ScreenIsHonest, Slots
<1>8. posted' \in [AuditIds -> Nat] /\ displayed \subseteq displayed'
  BY <1>4, <1>5 DEF OverviewInv, ReportsAreOfDisplayed
<1> QED BY <1>3, <1>4, <1>6, <1>7, <1>8, SlotStays

\* The observer reports what it watches outside a message only.
LEMMA VisibleStays == ASSUME OverviewInv, Visible PROVE OverviewInv'
<1>1. PICK i : i = slot.watched
  OBVIOUS
<1>2. PICK seen : seen = [slot EXCEPT !.fired = i, !.watched = NoAudit]
  OBVIOUS
<1>3. slot \in Slots /\ i # NoAudit
  BY <1>1 DEF OverviewInv, ScreenIsHonest, Visible
<1>4. i \in AuditIds
  BY <1>1, <1>3 DEF Slots, MaybeAudit
<1>5. seen \in Slots /\ seen.watched = NoAudit
  BY <1>2, <1>3, <1>4 DEF Slots, MaybeAudit
<1>6. posted \in [AuditIds -> Nat]
  BY DEF OverviewInv, ReportsAreOfDisplayed
<1>7. CASE slot.inside
  <2>1. PICK s : s = [seen EXCEPT !.blocked = TRUE]
    OBVIOUS
  <2>2. s \in Slots /\ s.watched = NoAudit
    BY <1>5, <2>1 DEF Slots
  <2>3. Becomes(s) /\ UNCHANGED posted
    BY <1>1, <1>2, <1>7, <2>1 DEF Visible
  <2>4. \A j \in OnScreen(s) : ServesAd(j)
    BY DEF OnScreen, CanRender
  <2> QED BY <1>6, <2>2, <2>3, <2>4, SlotStays DEF Becomes
<1>8. CASE ~slot.inside
  <2>1. Becomes(seen) /\ posted' = [posted EXCEPT ![i] = @ + 1]
    BY <1>1, <1>2, <1>8 DEF Visible
  <2>2. \A j \in OnScreen(seen) : ServesAd(j)
    BY DEF OnScreen, CanRender
  <2>3. i \in displayed
    BY <1>1, <1>3, <1>8 DEF OverviewInv, ScreenIsHonest
  <2>4. /\ posted' \in [AuditIds -> Nat]
        /\ \A j \in AuditIds : posted'[j] > 0 => posted[j] > 0 \/ j \in displayed
    BY <1>4, <1>6, <2>1, <2>3
  <2> QED BY <1>5, <2>1, <2>2, <2>4, SlotStays DEF Becomes
<1> QED BY <1>7, <1>8

\* Turns, attestations and time leave the browser alone.
LEMMA GatewayStays ==
    ASSUME OverviewInv, tick' \in Nat, OneLatest(rows)', Stable,
           UNCHANGED <<posted, eventRows, overview, slot, displayed>>
    PROVE  OverviewInv'
<1>1. ReportsAreOfDisplayed'
  BY DEF OverviewInv, ReportsAreOfDisplayed
<1>2. ScreenIsHonest'
  <2>1. \A i : ServesAd(i) => ServesAd(i)'
    BY StableServes
  <2> QED BY <2>1 DEF OverviewInv, ScreenIsHonest
<1> QED BY <1>1, <1>2, OverviewStays

LEMMA InsertStays == ASSUME OverviewInv, NEW i \in AuditIds, InsertEvent(i) PROVE OverviewInv'
<1>1. /\ posted[i] > 0 /\ posted' = [posted EXCEPT ![i] = @ - 1]
      /\ eventRows' = IF i \in Recorded /\ eventRows[i] = 0
                      THEN [eventRows EXCEPT ![i] = @ + 1] ELSE eventRows
      /\ UNCHANGED <<rows, tick, overview, slot, displayed>>
  BY DEF InsertEvent, browserVars
<1>2. /\ posted \in [AuditIds -> Nat] /\ eventRows \in [AuditIds -> {0, 1}]
      /\ \A j \in AuditIds : posted[j] > 0 \/ eventRows[j] > 0 => j \in displayed
  BY DEF OverviewInv, ReportsAreOfDisplayed
<1>3. posted' \in [AuditIds -> Nat] /\ \A j \in AuditIds : posted'[j] > 0 => posted[j] > 0
  BY <1>1, <1>2
<1>4. eventRows' \in [AuditIds -> {0, 1}]
      /\ \A j \in AuditIds : eventRows'[j] > 0 => eventRows[j] > 0 \/ j = i
  BY <1>1, <1>2
<1>5. ReportsAreOfDisplayed'
  BY <1>1, <1>2, <1>3, <1>4 DEF ReportsAreOfDisplayed
<1>6. Stable /\ OneLatest(rows)' /\ tick' \in Nat
  BY <1>1, SameRowsAreStable DEF OverviewInv, OneLatest
<1>7. ScreenIsHonest'
  <2>1. \A j : ServesAd(j)' = ServesAd(j)
    BY <1>1 DEF ServesAd, Recorded, Latest
  <2> QED BY <1>1, <2>1 DEF OverviewInv, ScreenIsHonest
<1> QED BY <1>1, <1>5, <1>6, <1>7, OverviewStays

\* The end of the window is a time, and that of the query before if there was
\* one.
LEMMA UntilIsFixed ==
    ASSUME OverviewInv
    PROVE  Until \in Nat /\ (overview # NoOverview => Until = overview.until)
BY DEF OverviewInv, OverviewIsFixed, Until

LEMMA QueryKeepsRest ==
    ASSUME OverviewInv, UNCHANGED <<rows, tick, posted, eventRows, slot, displayed>>
    PROVE  /\ tick' \in Nat /\ OneLatest(rows)' /\ ReportsAreOfDisplayed' /\ ScreenIsHonest'
           /\ Recorded' = Recorded
           /\ \A i : ServesAd(i)' = ServesAd(i)
           /\ \A S, day, until : OnDay(S, day, until)' = OnDay(S, day, until)
<1>1. Recorded' = Recorded /\ \A i : ServesAd(i)' = ServesAd(i)
  BY DEF Recorded, ServesAd, Latest
<1>2. \A S, day, until : OnDay(S, day, until)' = OnDay(S, day, until)
  BY DEF OnDay, Latest
<1> QED BY <1>1, <1>2 DEF OverviewInv, OneLatest, ReportsAreOfDisplayed, ScreenIsHonest

LEMMA ReadDecisionsStays == ASSUME OverviewInv, ReadDecisions PROVE OverviewInv'
<1>1. PICK u, d : u = Until /\ d = DecisionsPerDay(u)
  OBVIOUS
<1>2. /\ overview' = [overview EXCEPT !.decisions = d, !.until = u, !.turns = Recorded]
      /\ UNCHANGED <<rows, tick, posted, eventRows, slot, displayed>>
  BY <1>1 DEF ReadDecisions, gatewayVars, browserVars
<1>3. PICK v, b, e, t : overview = [until |-> v, decisions |-> b, events |-> e, turns |-> t]
  BY DEF OverviewInv, OverviewIsFixed
<1>4. overview' = [until |-> u, decisions |-> d, events |-> e, turns |-> Recorded]
  BY <1>2, <1>3
<1>5. u \in Nat /\ (e # Unread => u = v)
  BY <1>1, <1>3, UntilIsFixed DEF NoOverview
<1>6. /\ tick' \in Nat /\ OneLatest(rows)' /\ ReportsAreOfDisplayed' /\ ScreenIsHonest'
      /\ Recorded' = Recorded
      /\ \A i : ServesAd(i)' = ServesAd(i)
      /\ \A S, day, until : OnDay(S, day, until)' = OnDay(S, day, until)
  BY <1>2, QueryKeepsRest
<1>7. ASSUME NEW day \in WindowOf(u)
      PROVE  /\ d[day]["serve"] = Cardinality(OnDay({i \in Recorded : ServesAd(i)}, day, u))
             /\ d[day]["suppress"] = Cardinality(OnDay({i \in Recorded : ~ServesAd(i)}, day, u))
  <2>1. /\ d[day]["serve"] = Cardinality(TurnsOn(day, "serve", u))
        /\ d[day]["suppress"] = Cardinality(TurnsOn(day, "suppress", u))
    BY <1>1 DEF DecisionsPerDay
  <2> QED BY <1>5, <2>1, DecisionsCountTurns DEF OverviewInv
<1>8. e # Unread => \A day \in WindowOf(u) :
                       e[day] \in Nat /\ e[day] <= Cardinality(OnDay(displayed, day, u))
  BY <1>3, <1>5 DEF OverviewInv, OverviewIsFixed
<1>9. OverviewIsFixed'
  <2>1. /\ overview'.until = u /\ overview'.decisions = d /\ overview'.events = e
        /\ overview'.turns = Recorded
    BY <1>4
  <2>2. \A day : WindowOf(day)' = WindowOf(day)
    BY DEF WindowOf, DayOf
  <2>3. /\ {i \in Recorded : ServesAd(i)}' = {i \in Recorded : ServesAd(i)}
        /\ {i \in Recorded : ~ServesAd(i)}' = {i \in Recorded : ~ServesAd(i)}
    BY <1>6
  <2>4. \A day \in WindowOf(u) :
           /\ d[day]["serve"] = Cardinality(OnDay({i \in Recorded : ServesAd(i)}, day, u)')
           /\ d[day]["suppress"] = Cardinality(OnDay({i \in Recorded : ~ServesAd(i)}, day, u)')
    <3>1. \A day :
             /\ OnDay({i \in Recorded : ServesAd(i)}, day, u)'
                  = OnDay({i \in Recorded : ServesAd(i)}, day, u)
             /\ OnDay({i \in Recorded : ~ServesAd(i)}, day, u)'
                  = OnDay({i \in Recorded : ~ServesAd(i)}, day, u)
      BY <1>2, <2>3 DEF OnDay, Latest
    <3> QED BY <1>7, <3>1
  <2>5. e # Unread => \A day \in WindowOf(u) :
           e[day] \in Nat /\ e[day] <= Cardinality(OnDay(displayed, day, u)')
    BY <1>2, <1>8 DEF OnDay, Latest
  <2>6. \E w, f, g, h : overview' = [until |-> w, decisions |-> f, events |-> g, turns |-> h]
    BY <1>4
  <2> QED BY <1>5, <1>6, <2>1, <2>2, <2>4, <2>5, <2>6 DEF OverviewIsFixed
<1> QED BY <1>6, <1>9 DEF OverviewInv

LEMMA ReadEventsStays == ASSUME OverviewInv, ReadEvents PROVE OverviewInv'
<1>1. PICK u, e : u = Until /\ e = ImpressionsPerDay(u)
  OBVIOUS
<1>2. /\ overview' = [overview EXCEPT !.events = e, !.until = u]
      /\ UNCHANGED <<rows, tick, posted, eventRows, slot, displayed>>
  BY <1>1 DEF ReadEvents, gatewayVars, browserVars
<1>3. PICK v, d, b, t : overview = [until |-> v, decisions |-> d, events |-> b, turns |-> t]
  BY DEF OverviewInv, OverviewIsFixed
<1>4. overview' = [until |-> u, decisions |-> d, events |-> e, turns |-> t]
  BY <1>2, <1>3
<1>5. u \in Nat /\ (d # Unread => u = v)
  BY <1>1, <1>3, UntilIsFixed DEF NoOverview
<1>6. /\ tick' \in Nat /\ OneLatest(rows)' /\ ReportsAreOfDisplayed' /\ ScreenIsHonest'
      /\ Recorded' = Recorded
      /\ \A i : ServesAd(i)' = ServesAd(i)
      /\ \A S, day, until : OnDay(S, day, until)' = OnDay(S, day, until)
  BY <1>2, QueryKeepsRest
<1>7. displayed \subseteq Recorded
  BY DEF OverviewInv, ScreenIsHonest, ServesAd
<1>8. ASSUME NEW day \in WindowOf(u)
      PROVE  e[day] \in Nat /\ e[day] <= Cardinality(OnDay(displayed, day, u))
  BY <1>1, <1>5, <1>7, ImpressionsCountDisplayed DEF OverviewInv
<1>9. OverviewIsFixed'
  <2>1. /\ overview'.until = u /\ overview'.decisions = d /\ overview'.events = e
        /\ overview'.turns = t
    BY <1>4
  <2>2. \A day : WindowOf(day)' = WindowOf(day)
    BY DEF WindowOf, DayOf
  <2>3. /\ d # Unread => t \subseteq Recorded
        /\ d # Unread => \A day \in WindowOf(u) :
              /\ d[day]["serve"] = Cardinality(OnDay({i \in t : ServesAd(i)}, day, u))
              /\ d[day]["suppress"] = Cardinality(OnDay({i \in t : ~ServesAd(i)}, day, u))
    BY <1>3, <1>5 DEF OverviewInv, OverviewIsFixed
  <2>4. /\ {i \in t : ServesAd(i)'} = {i \in t : ServesAd(i)}
        /\ {i \in t : ~ServesAd(i)'} = {i \in t : ~ServesAd(i)}
    BY <1>6
  <2>5. d # Unread => \A day \in WindowOf(u) :
           /\ d[day]["serve"] = Cardinality(OnDay({i \in t : ServesAd(i)}, day, u)')
           /\ d[day]["suppress"] = Cardinality(OnDay({i \in t : ~ServesAd(i)}, day, u)')
    <3>1. \A day :
             /\ OnDay({i \in t : ServesAd(i)}, day, u)' = OnDay({i \in t : ServesAd(i)}, day, u)
             /\ OnDay({i \in t : ~ServesAd(i)}, day, u)' = OnDay({i \in t : ~ServesAd(i)}, day, u)
      BY <1>2, <2>4 DEF OnDay, Latest
    <3> QED BY <2>3, <3>1
  <2>6. \A day \in WindowOf(u) :
           e[day] \in Nat /\ e[day] <= Cardinality(OnDay(displayed, day, u)')
    BY <1>2, <1>8 DEF OnDay, Latest
  <2>7. \E w, f, g, h : overview' = [until |-> w, decisions |-> f, events |-> g, turns |-> h]
    BY <1>4
  <2> QED BY <1>5, <1>6, <2>1, <2>2, <2>3, <2>5, <2>6, <2>7 DEF OverviewIsFixed
<1> QED BY <1>6, <1>9 DEF OverviewInv

LEMMA OverviewStep == OverviewInv /\ [ImpressionsNext]_impressionVars => OverviewInv'
<1> SUFFICES ASSUME OverviewInv, [ImpressionsNext]_impressionVars PROVE OverviewInv'
  OBVIOUS
<1>1. CASE Mount \/ NewDecision \/ RunEffects \/ MoveNode \/ Visible \/ HandleDismiss
  BY <1>1, MountStays, NewDecisionStays, EffectsStay, MoveStays, VisibleStays, DismissStays
<1>2. ASSUME NEW i \in AuditIds, RecordTurn(i) PROVE OverviewInv'
  <2>1. OneLatest(rows)' /\ Stable
    BY <1>2, RecordTurnIsStable DEF OverviewInv
  <2> QED BY <1>2, <2>1, GatewayStays DEF RecordTurn, browserVars, OverviewInv
<1>3. ASSUME NEW i \in AuditIds, AttestTurn(i) PROVE OverviewInv'
  <2>1. OneLatest(rows)' /\ Stable
    BY <1>3, AttestTurnIsStable DEF OverviewInv
  <2> QED BY <1>3, <2>1, GatewayStays DEF AttestTurn, browserVars, OverviewInv
<1>4. ASSUME NEW i \in AuditIds, InsertEvent(i) PROVE OverviewInv'
  BY <1>4, InsertStays
<1>5. CASE PassTick
  <2>1. OneLatest(rows)' /\ Stable
    BY <1>5, SameRowsAreStable DEF OverviewInv, PassTick, OneLatest
  <2> QED BY <1>5, <2>1, GatewayStays DEF PassTick, browserVars, OverviewInv
<1>6. CASE ReadDecisions \/ ReadEvents
  BY <1>6, ReadDecisionsStays, ReadEventsStays
<1>7. CASE UNCHANGED impressionVars
  <2>1. OneLatest(rows)' /\ Stable
    BY <1>7, SameRowsAreStable DEF OverviewInv, impressionVars, OneLatest
  <2> QED BY <1>7, <2>1, GatewayStays DEF impressionVars, OverviewInv
<1> QED BY <1>1, <1>2, <1>3, <1>4, <1>5, <1>6, <1>7 DEF ImpressionsNext

\* metrics.ts, use-impression.ts: whatever is recorded, attested, rendered and
\* reported while the two queries of an overview run, its counts add up.
THEOREM OverviewsAddUp == ImpressionsSpec => []OverviewAddsUp
<1>1. ImpressionsInit => OverviewInv
  <2> SUFFICES ASSUME ImpressionsInit PROVE OverviewInv
    OBVIOUS
  <2>1. slot \in Slots /\ slot.watched = NoAudit
    BY DEF ImpressionsInit, Mounted, Slots, MaybeAudit
  <2>2. ReportsAreOfDisplayed
    BY DEF ImpressionsInit, Nothing, ReportsAreOfDisplayed
  <2>3. ScreenIsHonest
    BY <2>1 DEF ImpressionsInit, ScreenIsHonest
  <2>4. OneLatest(rows) /\ tick \in Nat
    BY FS_EmptySet DEF ImpressionsInit, OneLatest
  <2>5. OverviewIsFixed
    BY DEF ImpressionsInit, OverviewIsFixed, NoOverview
  <2> QED BY <2>2, <2>3, <2>4, <2>5 DEF OverviewInv
<1>2. OverviewInv => OverviewAddsUp
  <2> SUFFICES ASSUME OverviewInv PROVE OverviewAddsUp
    OBVIOUS
  <2> DEFINE o == overview
             late == {i \in Recorded \ o.turns : Latest(i).ts < o.until}
             serves == {i \in o.turns : ServesAd(i)}
  <2>1. \A S, day : OfDay(S, day) = OnDay(S, day, o.until)
    BY DEF OfDay, OnDay
  <2>2. ASSUME o.decisions # Unread, NEW day \in WindowOf(o.until)
        PROVE  /\ o.decisions[day]["serve"] = Cardinality(OfDay(serves, day))
               /\ o.decisions[day]["suppress"]
                    = Cardinality(OfDay({i \in o.turns : ~ServesAd(i)}, day))
    BY <2>1, <2>2 DEF OverviewInv, OverviewIsFixed
  <2>3. ASSUME o.events # Unread, NEW day \in WindowOf(o.until)
        PROVE  /\ o.events[day] \in Nat
               /\ o.events[day] <= Cardinality(OfDay(displayed, day))
    BY <2>1, <2>3 DEF OverviewInv, OverviewIsFixed
  <2>4. ASSUME o.events # Unread, o.decisions # Unread, late = {}, NEW day \in WindowOf(o.until)
        PROVE  o.events[day] <= o.decisions[day]["serve"]
    <3>1. \A i \in displayed : ServesAd(i) /\ i \in Recorded
      BY DEF OverviewInv, ScreenIsHonest, ServesAd
    <3>2. OfDay(displayed, day) \subseteq OfDay(serves, day)
      BY <2>4, <3>1 DEF OfDay
    <3>3. IsFiniteSet(OfDay(serves, day))
      <4>1. OfDay(serves, day) \subseteq Recorded
        BY <2>4 DEF OfDay, OverviewInv, OverviewIsFixed
      <4>2. IsFiniteSet(Recorded)
        BY RecordedIsFinite DEF OverviewInv, Recorded
      <4> QED BY <4>1, <4>2, FS_Subset
    <3>4. /\ Cardinality(OfDay(displayed, day)) <= Cardinality(OfDay(serves, day))
          /\ Cardinality(OfDay(displayed, day)) \in Nat /\ Cardinality(OfDay(serves, day)) \in Nat
      BY <3>2, <3>3, FS_Subset, FS_CardinalityType
    <3>5. o.decisions[day]["serve"] = Cardinality(OfDay(serves, day))
      BY <2>2, <2>4
    <3> QED BY <2>3, <2>4, <3>4, <3>5
  <2> QED BY <2>2, <2>3, <2>4 DEF OverviewAddsUp
<1> QED BY <1>1, <1>2, OverviewStep, PTL DEF ImpressionsSpec

=============================================================================
