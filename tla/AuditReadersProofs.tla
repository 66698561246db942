------------------------- MODULE AuditReadersProofs -------------------------
(***************************************************************************)
(* What readers of the log are told: the pages of the audit search         *)
(* (AuditPages) and the verdict on a record (RecordChecks), for any number *)
(* of apps, rows, searches, creatives, processes and keys.                 *)
(*                                                                         *)
(* Pages.  A page is what comes first in the order of the log, which is    *)
(* total: a row is left out of the first n of a list only behind n others  *)
(* (FirstLeaves).  The page is taken from slices of one app each; a row    *)
(* its slice leaves out is behind so many of its own app that they fill    *)
(* the page (MergedPage).  The cursor is the edge of the page before, so   *)
(* what lies past it lies past every row of that page (PastTheEdge).       *)
(*                                                                         *)
(* Verdicts.  An altered document does not hash to its record_hash, or is  *)
(* not what its signature signs, or is another row's (Altered); no two     *)
(* rows have one hash, as each is chained to another (OneHash), so that    *)
(* the last kind is not chained to what stands before it (AuthenticRow).   *)
(* What an attestation says of its turn holds if the turn's row was not    *)
(* altered, which is what a verdict asks of the rows about it.             *)
(***************************************************************************)
EXTENDS AuditPages, RecordChecks, FiniteSetTheorems, SequenceTheorems, WellFoundedInduction, TLAPS

Directions == {"older", "newer"}

\* Rows that the order of the log tells apart.
Listable(S) ==
    /\ IsFiniteSet(S)
    /\ \A r \in S : r.ts \in Int /\ r.hash \in Int
    /\ \A q, r \in S : q.hash = r.hash => q = r

Ahead(d, S, r) == {q \in S : Comes(d, q, r)}

\* Every set of natural numbers has a least one, unless it is empty.
LEMMA LeastOf ==
    ASSUME NEW S \in SUBSET Nat, S # {}
    PROVE  \E n \in S : \A m \in S : n <= m
<1> DEFINE Below == OpToRel(<, Nat)
<1>1. IsWellFoundedOn(Below, Nat)
  BY NatLessThanWellFounded
<1>2. \A m, n \in Nat : m < n => <<m, n>> \in Below
  BY DEF OpToRel
<1> HIDE DEF Below
<1>3. PICK n \in S : \A m \in S : <<m, n>> \notin Below
  BY <1>1, WFMin
<1>4. \A m \in S : ~(m < n)
  BY <1>2, <1>3
<1> QED BY <1>3, <1>4

-----------------------------------------------------------------------------
(* The order of the log.                                                   *)

LEMMA OrderIsTotal ==
    ASSUME NEW S, Listable(S), NEW d \in Directions, NEW p \in S, NEW q \in S, NEW r \in S
    PROVE  /\ ~Comes(d, r, r)
           /\ Comes(d, p, q) /\ Comes(d, q, r) => Comes(d, p, r)
           /\ p # q => Comes(d, p, q) \/ Comes(d, q, p)
<1>1. p.ts \in Int /\ p.hash \in Int /\ q.ts \in Int /\ q.hash \in Int /\ r.ts \in Int /\ r.hash \in Int
  BY DEF Listable
<1>2. p # q => p.hash # q.hash
  BY DEF Listable
<1> QED BY <1>1, <1>2 DEF Comes, IsNewer, Directions

LEMMA PartIsListable ==
    ASSUME NEW S, Listable(S), NEW T \in SUBSET S
    PROVE  Listable(T) /\ Cardinality(T) \in Nat /\ Cardinality(T) <= Cardinality(S)
<1>1. IsFiniteSet(T) /\ Cardinality(T) <= Cardinality(S)
  BY FS_Subset DEF Listable
<1>2. Cardinality(T) \in Nat
  BY <1>1, FS_CardinalityType
<1> QED BY <1>1, <1>2 DEF Listable

\* Who comes later has more rows ahead of it.
LEMMA RanksFollowOrder ==
    ASSUME NEW S, Listable(S), NEW d \in Directions, NEW q \in S, NEW r \in S, Comes(d, q, r)
    PROVE  Cardinality(Ahead(d, S, q)) < Cardinality(Ahead(d, S, r))
<1>1. Ahead(d, S, q) \subseteq Ahead(d, S, r)
  BY OrderIsTotal DEF Ahead
<1>2. q \in Ahead(d, S, r) /\ q \notin Ahead(d, S, q)
  BY OrderIsTotal DEF Ahead
<1>3. Ahead(d, S, r) \in SUBSET S
  BY DEF Ahead
<1>4. IsFiniteSet(Ahead(d, S, r)) /\ Cardinality(Ahead(d, S, r)) \in Nat
  BY <1>3, PartIsListable DEF Listable
<1>5. /\ Cardinality(Ahead(d, S, q)) <= Cardinality(Ahead(d, S, r))
      /\ Cardinality(Ahead(d, S, r)) # Cardinality(Ahead(d, S, q))
  BY <1>1, <1>2, <1>4, FS_Subset
<1>6. Cardinality(Ahead(d, S, q)) \in Nat
  BY <1>1, <1>4, FS_Subset, FS_CardinalityType
<1> QED BY <1>4, <1>5, <1>6

\* Of any rows, one comes before all others.
LEMMA HeadExists ==
    ASSUME NEW S, Listable(S), S # {}, NEW d \in Directions
    PROVE  \E m \in S : \A q \in S \ {m} : Comes(d, m, q)
<1> DEFINE ranks == {Cardinality(Ahead(d, S, r)) : r \in S}
<1>1. \A r \in S : Cardinality(Ahead(d, S, r)) \in Nat
  <2>1. \A r \in S : Ahead(d, S, r) \in SUBSET S
    BY DEF Ahead
  <2> QED BY <2>1, PartIsListable
<1>2. ranks \in SUBSET Nat /\ ranks # {}
  BY <1>1
<1>3. \E n \in ranks : \A k \in ranks : n <= k
  <2> HIDE DEF ranks
  <2> QED BY <1>2, LeastOf
<1>4. PICK m \in S : \A r \in S : Cardinality(Ahead(d, S, m)) <= Cardinality(Ahead(d, S, r))
  BY <1>3
<1>5. \A q \in S : ~Comes(d, q, m)
  <2> SUFFICES ASSUME NEW q \in S, Comes(d, q, m) PROVE FALSE
    OBVIOUS
  <2>1. Cardinality(Ahead(d, S, q)) < Cardinality(Ahead(d, S, m))
    BY RanksFollowOrder
  <2>2. Cardinality(Ahead(d, S, m)) <= Cardinality(Ahead(d, S, q))
    BY <1>4
  <2> QED BY <1>1, <2>1, <2>2
<1>6. \A q \in S \ {m} : Comes(d, m, q)
  BY <1>5, OrderIsTotal
<1> QED BY <1>6

-----------------------------------------------------------------------------
(* The first n rows of a list.                                             *)

LEMMA FirstIsAhead ==
    ASSUME NEW d, NEW S, NEW n
    PROVE  /\ First(d, S, n) \in SUBSET S
           /\ First(d, S, n) = {r \in S : Cardinality(Ahead(d, S, r)) < n}
BY DEF First, Ahead

\* There are n of them if the list has as many.
LEMMA FirstIsFull ==
    ASSUME NEW S, Listable(S), NEW d \in Directions, NEW n \in Nat, n <= Cardinality(S)
    PROVE  Cardinality(First(d, S, n)) = n
<1> DEFINE Short == {k \in Nat : k <= Cardinality(S) /\ Cardinality(First(d, S, k)) # k}
<1>0. Cardinality(S) \in Nat
  BY PartIsListable
<1>1. \A r \in S : Cardinality(Ahead(d, S, r)) \in Nat
  <2>1. \A r \in S : Ahead(d, S, r) \in SUBSET S
    BY DEF Ahead
  <2> QED BY <2>1, PartIsListable
<1>2. SUFFICES ASSUME Short # {} PROVE FALSE
  OBVIOUS
<1>3. PICK k \in Short : \A m \in Short : k <= m
  <2>1. Short \in SUBSET Nat /\ Short # {}
    BY <1>2
  <2> HIDE DEF Short
  <2> QED BY <2>1, LeastOf
<1>4. CASE k = 0
  <2>1. First(d, S, 0) = {}
    BY <1>1, FirstIsAhead
  <2> QED BY <1>3, <1>4, <2>1, FS_EmptySet
<1>5. CASE k # 0
  <2> DEFINE j == k - 1
             T == First(d, S, j)
             rest == S \ T
  <2>1. j \in Nat /\ j < k /\ j < Cardinality(S) /\ k = j + 1
    BY <1>0, <1>3, <1>5
  <2>2. Cardinality(T) = j
    BY <1>0, <1>3, <2>1
  <2>3. T \in SUBSET S /\ T = {r \in S : Cardinality(Ahead(d, S, r)) < j}
    BY FirstIsAhead
  <2>4. IsFiniteSet(T)
    BY <2>3, PartIsListable DEF Listable
  <2> HIDE DEF T, j
  <2>5. rest # {}
    BY <2>1, <2>2, <2>3
  <2>6. Listable(rest)
    BY PartIsListable
  <2>7. PICK m \in rest : \A q \in rest \ {m} : Comes(d, m, q)
    BY <2>5, <2>6, HeadExists
  <2>8. \A q \in T : Comes(d, q, m)
    <3> SUFFICES ASSUME NEW q \in T, Comes(d, m, q) PROVE FALSE
      BY <2>3, OrderIsTotal
    <3>1. Cardinality(Ahead(d, S, m)) < Cardinality(Ahead(d, S, q))
      BY <2>3, RanksFollowOrder
    <3> QED BY <1>1, <2>1, <2>3, <3>1
  <2>9. Ahead(d, S, m) = T
    <3>1. \A q \in rest : ~Comes(d, q, m)
      BY <2>7, OrderIsTotal
    <3> QED BY <2>3, <2>8, <3>1 DEF Ahead
  <2>10. \A r \in rest \ {m} : ~(Cardinality(Ahead(d, S, r)) < k)
    <3> TAKE r \in rest \ {m}
    <3>1. Cardinality(Ahead(d, S, m)) < Cardinality(Ahead(d, S, r))
      BY <2>7, RanksFollowOrder
    <3> QED BY <1>1, <2>1, <2>2, <2>9, <3>1
  <2>11. First(d, S, k) = T \cup {m}
    <3>1. First(d, S, k) = {r \in S : Cardinality(Ahead(d, S, r)) < k}
      BY FirstIsAhead
    <3>2. \A r \in T : Cardinality(Ahead(d, S, r)) < k
      BY <1>1, <2>1, <2>3
    <3>3. Cardinality(Ahead(d, S, m)) < k
      BY <2>1, <2>2, <2>9
    <3> QED BY <2>3, <2>10, <3>1, <3>2, <3>3
  <2>12. Cardinality(T \cup {m}) = k
    BY <2>1, <2>2, <2>4, FS_AddElement
  <2> QED BY <1>3, <2>11, <2>12
<1> QED BY <1>4, <1>5

\* Who is left out is behind n others.
LEMMA FirstLeaves ==
    ASSUME NEW S, Listable(S), NEW d \in Directions, NEW n \in Nat, NEW r \in S \ First(d, S, n)
    PROVE  /\ Cardinality(First(d, S, n)) = n
           /\ \A q \in First(d, S, n) : Comes(d, q, r)
<1>1. First(d, S, n) \in SUBSET S /\ First(d, S, n) = {q \in S : Cardinality(Ahead(d, S, q)) < n}
  BY FirstIsAhead
<1>2. \A q \in S : Ahead(d, S, q) \in SUBSET S
  BY DEF Ahead
<1>3. /\ \A q \in S : Cardinality(Ahead(d, S, q)) \in Nat
      /\ \A q \in S : Cardinality(Ahead(d, S, q)) <= Cardinality(S)
      /\ Cardinality(S) \in Nat
  BY <1>2, PartIsListable
<1>4. n <= Cardinality(S)
  BY <1>1, <1>3
<1>5. Cardinality(First(d, S, n)) = n
  BY <1>4, FirstIsFull
<1>6. ASSUME NEW q \in First(d, S, n), Comes(d, r, q) PROVE FALSE
  <2>1. Cardinality(Ahead(d, S, r)) < Cardinality(Ahead(d, S, q))
    BY <1>1, <1>6, RanksFollowOrder
  <2> QED BY <1>1, <1>3, <2>1
<1>7. \A q \in First(d, S, n) : Comes(d, q, r)
  BY <1>1, <1>6, OrderIsTotal
<1> QED BY <1>5, <1>7

\* What is taken first from slices is what comes first of all, if a row no
\* slice has is behind more than a page of others that some slice has.
LEMMA MergedPage ==
    ASSUME NEW C, Listable(C), NEW U \in SUBSET C, NEW d \in Directions, NEW n \in Nat,
           \A r \in C \ U : \E A \in SUBSET U :
               Cardinality(A) = n + 1 /\ \A q \in A : Comes(d, q, r),
           NEW r \in C \ First(d, First(d, U, n + 1), n)
    PROVE  /\ Cardinality(First(d, First(d, U, n + 1), n)) = n
           /\ First(d, U, n + 1) # First(d, First(d, U, n + 1), n)
           /\ \A q \in First(d, First(d, U, n + 1), n) : Comes(d, q, r)
<1> DEFINE fetched == First(d, U, n + 1)
           page == First(d, fetched, n)
<1>1. fetched \in SUBSET U /\ page \in SUBSET fetched
  BY FirstIsAhead
<1>2. Listable(U) /\ Cardinality(U) \in Nat
  BY PartIsListable
<1>3. Listable(fetched) /\ Cardinality(fetched) \in Nat
  BY <1>1, <1>2, PartIsListable
<1>4. n + 1 \in Nat
  OBVIOUS
<1>5. Cardinality(fetched) = n + 1 => Cardinality(page) = n /\ fetched # page
  <2> HIDE DEF fetched
  <2>1. ASSUME Cardinality(fetched) = n + 1 PROVE Cardinality(page) = n
    BY <1>3, <2>1, FirstIsFull
  <2> QED BY <2>1
<1>6. CASE r \in fetched
  <2>1. r \in fetched \ page
    BY <1>6
  <2> HIDE DEF fetched
  <2> QED BY <1>3, <2>1, FirstLeaves DEF fetched
<1>7. CASE r \in U \ fetched
  <2>1. Cardinality(fetched) = n + 1 /\ \A q \in fetched : Comes(d, q, r)
    BY <1>2, <1>4, <1>7, FirstLeaves
  <2> QED BY <1>1, <1>5, <2>1
<1>8. CASE r \notin U
  <2>1. PICK A \in SUBSET U : Cardinality(A) = n + 1 /\ \A q \in A : Comes(d, q, r)
    BY <1>8
  <2>2. Cardinality(A) <= Cardinality(U)
    BY <1>2, PartIsListable
  <2>3. Cardinality(fetched) = n + 1
    BY <1>2, <1>4, <2>1, <2>2, FirstIsFull
  <2>4. ASSUME NEW q \in fetched, ~Comes(d, q, r) PROVE FALSE
    <3>1. q \in U /\ q \in C /\ q # r
      BY <1>1, <1>8, <2>4
    <3>2. Comes(d, r, q)
      BY <2>4, <3>1, OrderIsTotal
    <3>3. \A p \in A : Comes(d, p, q)
      BY <2>1, <3>1, <3>2, OrderIsTotal
    <3>4. A \subseteq Ahead(d, U, q)
      BY <2>1, <3>3 DEF Ahead
    <3>5. Ahead(d, U, q) \in SUBSET U
      BY DEF Ahead
    <3>6. Listable(Ahead(d, U, q)) /\ Cardinality(Ahead(d, U, q)) \in Nat
      BY <1>2, <3>5, PartIsListable
    <3>7. n + 1 <= Cardinality(Ahead(d, U, q))
      BY <2>1, <3>4, <3>6, PartIsListable
    <3>8. Cardinality(Ahead(d, U, q)) < n + 1
      BY <2>4, FirstIsAhead
    <3> QED BY <3>6, <3>7, <3>8
  <2> QED BY <1>1, <1>5, <2>3, <2>4
<1> QED BY <1>1, <1>6, <1>7, <1>8

-----------------------------------------------------------------------------
(* The invariant: what is in the log, and what a page has on it.           *)

LogRows == [app : LogApps, ts : Nat, hash : RowHashes, decision : DecisionNames]

PageOk ==
    /\ shown.direction \in Directions
    /\ Listable(shown.rows)
    /\ shown.newer \/ shown.older => shown.rows # {}
    /\ shown.log \subseteq Matching

PagesInv ==
    /\ log \subseteq LogRows /\ Listable(log) /\ clock \in Nat
    /\ shown = NoPage \/ PageOk

\* One fetch: nothing that was there and lies past the cursor is left out but
\* what comes after a full page, and then there is a link to it.
LEMMA PageCovers ==
    ASSUME Listable(log), NEW cursor, cursor.direction \in Directions
    PROVE  LET page == ListAuditPage(cursor)
               d == cursor.direction
               C == {r \in Matching : Past(cursor, r)}
           IN  /\ page.rows \in SUBSET C /\ page.log = Matching /\ page.direction = d
               /\ page.newer \/ page.older => page.rows # {}
               /\ \A r \in C \ page.rows :
                      /\ Cardinality(page.rows) = PageSize
                      /\ \A q \in page.rows : Comes(d, q, r)
                      /\ IF d = "older" THEN page.older ELSE page.newer
<1> DEFINE page == ListAuditPage(cursor)
           d == cursor.direction
           n == PageSize
           C == {r \in Matching : Past(cursor, r)}
           U == UNION {PageSlice(a, cursor, n + 1) : a \in ScopedApps}
           Of(a) == {r \in Matching : r.app = a /\ Past(cursor, r)}
<1>1. n \in Nat \ {0} /\ n + 1 \in Nat
  BY AuditPagesAssumption
<1>2. C \in SUBSET log /\ \A a \in ScopedApps : Of(a) \in SUBSET C
  BY DEF Matching
<1>3. Listable(C)
  BY <1>2, PartIsListable
<1>4. \A a \in ScopedApps : Listable(Of(a))
  BY <1>2, <1>3, PartIsListable
<1>5. \A a : PageSlice(a, cursor, n + 1) = First(d, Of(a), n + 1)
  BY DEF PageSlice
<1>6. \A a : First(d, Of(a), n + 1) \in SUBSET Of(a)
  BY FirstIsAhead
<1>7. U \in SUBSET C
  <2> HIDE DEF C, Of, n, d
  <2>1. ASSUME NEW a \in ScopedApps PROVE PageSlice(a, cursor, n + 1) \in SUBSET C
    <3>1. First(d, Of(a), n + 1) \in SUBSET Of(a) /\ Of(a) \in SUBSET C
      BY <1>2, <1>6
    <3>2. PageSlice(a, cursor, n + 1) = First(d, Of(a), n + 1)
      BY <1>5
    <3> QED BY <3>1, <3>2
  <2> QED BY <2>1
<1>8. ASSUME NEW r \in C \ U
      PROVE  \E A \in SUBSET U : Cardinality(A) = n + 1 /\ \A q \in A : Comes(d, q, r)
  <2>1. r.app \in ScopedApps /\ r \in Of(r.app)
    BY <1>8 DEF Matching
  <2> DEFINE A == First(d, Of(r.app), n + 1)
  <2>2. A \in SUBSET U
    BY <1>5, <2>1
  <2>3. r \in Of(r.app) \ A
    BY <1>8, <2>1, <2>2
  <2>4. Listable(Of(r.app))
    BY <1>4, <2>1
  <2> HIDE DEF Of
  <2>5. Cardinality(A) = n + 1 /\ \A q \in A : Comes(d, q, r)
    BY <1>1, <2>3, <2>4, FirstLeaves
  <2> QED BY <2>2, <2>5
<1>9. AuditPageQuery(cursor, n + 1) = First(d, U, n + 1)
  BY DEF AuditPageQuery
<1> DEFINE fetched == First(d, U, n + 1)
           rows == First(d, fetched, n)
<1>10. /\ page.rows = rows /\ page.log = Matching /\ page.direction = d
       /\ page.newer = (rows # {} /\ (IF d = "newer" THEN fetched # rows ELSE cursor # NoCursor))
       /\ page.older = (rows # {} /\ (d = "newer" \/ fetched # rows))
  BY <1>9 DEF ListAuditPage
<1>11. rows \in SUBSET fetched /\ fetched \in SUBSET U
  BY FirstIsAhead
<1>12. ASSUME NEW r \in C \ rows
       PROVE  Cardinality(rows) = n /\ fetched # rows /\ \A q \in rows : Comes(d, q, r)
  <2> HIDE DEF C, U, d, n
  <2>1. d \in Directions /\ n \in Nat
    BY <1>1 DEF d
  <2> QED BY <1>3, <1>7, <1>8, <1>12, <2>1, MergedPage
<1> HIDE DEF C, U, page, rows, fetched
<1>13. ASSUME NEW r \in C \ rows
       PROVE  IF d = "older" THEN page.older ELSE page.newer
  <2>1. Cardinality(rows) = n /\ fetched # rows
    BY <1>12, <1>13
  <2>2. rows # {}
    BY <1>1, <2>1, FS_EmptySet
  <2> QED BY <1>10, <2>1, <2>2 DEF Directions
<1>14. page.rows \in SUBSET C
  BY <1>7, <1>10, <1>11
<1> QED BY <1>10, <1>12, <1>13, <1>14 DEF C, page

\* The rows past the edge of a page are those past all of it.
LEMMA PastTheEdge ==
    ASSUME NEW S, Listable(S), S # {}, NEW r
    PROVE  /\ OldestRow(S) \in S
           /\ NewestOf(S) \in S
           /\ \A q \in S \ {OldestRow(S)} : IsNewer(q, OldestRow(S))
           /\ \A q \in S \ {NewestOf(S)} : IsNewer(NewestOf(S), q)
<1>1. \E m \in S : \A q \in S \ {m} : IsNewer(q, m)
  <2>1. \E m \in S : \A q \in S \ {m} : Comes("newer", m, q)
    BY HeadExists DEF Directions
  <2> QED BY <2>1 DEF Comes
<1>2. \E m \in S : \A q \in S \ {m} : IsNewer(m, q)
  <2>1. \E m \in S : \A q \in S \ {m} : Comes("older", m, q)
    BY HeadExists DEF Directions
  <2> QED BY <2>1 DEF Comes
<1> QED BY <1>1, <1>2 DEF OldestRow, NewestOf

-----------------------------------------------------------------------------
(* The invariant holds.                                                    *)

LEMMA PagesInitHolds == PagesInit => PagesInv
<1> SUFFICES ASSUME PagesInit PROVE PagesInv
  OBVIOUS
<1>1. Listable({})
  BY FS_EmptySet DEF Listable
<1> QED BY <1>1 DEF PagesInit, PagesInv

LEMMA ShowKeeps ==
    ASSUME PagesInv, NEW cursor, cursor.direction \in Directions, Show(cursor)
    PROVE  PagesInv'
<1>1. shown' = ListAuditPage(cursor) /\ log' = log /\ clock' = clock /\ search' = search
  BY DEF Show
<1>2. /\ shown'.direction \in Directions /\ shown'.log = Matching
      /\ shown'.newer \/ shown'.older => shown'.rows # {}
      /\ shown'.rows \in SUBSET Matching
  BY <1>1, PageCovers DEF PagesInv
<1>3. Matching' = Matching /\ Matching \in SUBSET log
  BY <1>1 DEF Matching, ScopedApps, InSearch
<1>4. shown'.rows \in SUBSET log
  BY <1>2, <1>3
<1>5. Listable(shown'.rows) /\ Listable(log)
  BY <1>4, PartIsListable DEF PagesInv
<1>6. PageOk'
  BY <1>2, <1>3, <1>5 DEF PageOk, Listable
<1> QED BY <1>1, <1>5, <1>6 DEF PagesInv, Listable

LEMMA AddRowKeeps ==
    ASSUME PagesInv, NEW r \in LogRows, FreshHash(r.hash), AddRow(r)
    PROVE  PagesInv'
<1>1. log' = log \cup {r} /\ clock' = clock /\ search' = search /\ shown' = shown
  BY DEF AddRow
<1>2. Listable(log \cup {r})
  <2>1. IsFiniteSet(log \cup {r})
    BY FS_AddElement DEF PagesInv, Listable
  <2>2. r.ts \in Int /\ r.hash \in Int
    <3>1. r.ts \in Nat /\ r.hash \in RowHashes
      BY DEF LogRows
    <3>2. \A h \in RowHashes : h \in Int
      BY AuditPagesAssumption
    <3> QED BY <3>1, <3>2
  <2> QED BY <2>1, <2>2 DEF PagesInv, Listable, FreshHash
<1>3. Matching \subseteq Matching'
  BY <1>1 DEF Matching, ScopedApps, InSearch
<1>4. shown # NoPage => PageOk'
  <2>1. SUFFICES ASSUME shown # NoPage PROVE PageOk'
    OBVIOUS
  <2>2. PageOk
    BY <2>1 DEF PagesInv
  <2> QED BY <1>1, <1>3, <2>2 DEF PageOk, Listable
<1> QED BY <1>1, <1>2, <1>4 DEF PagesInv, Listable

LEMMA DeleteOldestKeeps ==
    ASSUME PagesInv, NEW a, DeleteOldest(a)
    PROVE  PagesInv' /\ log' # log
<1>1. PICK r \in log : log' = log \ {r} /\ shown' = [shown EXCEPT !.log = @ \ {r}]
  BY DEF DeleteOldest
<1>2. clock' = clock /\ search' = search
  BY DEF DeleteOldest
<1>3. log' \in SUBSET log
  BY <1>1
<1>4. Listable(log')
  BY <1>3, PartIsListable DEF PagesInv
<1>5. Matching' = Matching \ {r}
  BY <1>1, <1>2 DEF Matching, ScopedApps, InSearch
<1>6. CASE shown = NoPage
  <2>1. shown' = NoPage
    BY <1>1, <1>6 DEF NoPage
  <2> QED BY <1>1, <1>2, <1>3, <1>4, <2>1 DEF PagesInv, Listable
<1>7. CASE shown # NoPage
  <2>1. PageOk
    BY <1>7 DEF PagesInv
  <2>2. /\ shown'.direction = shown.direction /\ shown'.rows = shown.rows
        /\ shown'.newer = shown.newer /\ shown'.older = shown.older
        /\ shown'.log \subseteq shown.log \ {r}
    BY <1>1
  <2>3. PageOk'
    BY <1>5, <2>1, <2>2 DEF PageOk, Listable
  <2> QED BY <1>1, <1>2, <1>3, <1>4, <2>3 DEF PagesInv, Listable
<1> QED BY <1>6, <1>7

\* The cursors of the links, and that a row appended is none there was.
LEMMA LinksAndRows ==
    ASSUME PagesInv, PagesNext
    PROVE  \/ \E cursor : /\ cursor.direction \in Directions /\ Show(cursor)
                          /\ \/ shown = NoPage /\ cursor = NoCursor
                             \/ /\ shown # NoPage /\ shown.rows # {}
                                /\ \/ cursor = [direction |-> "older", from |-> {OldestRow(shown.rows)}]
                                   \/ cursor = [direction |-> "newer", from |-> {NewestOf(shown.rows)}]
           \/ \E r \in LogRows : FreshHash(r.hash) /\ AddRow(r)
           \/ \E a : DeleteOldest(a)
           \/ PassTime
<1>1. CASE OpenSearch
  BY <1>1 DEF OpenSearch, NoCursor, Directions
<1>2. CASE Older \/ Newer
  <2>1. shown # NoPage
    BY <1>2 DEF Older, Newer, NoPage
  <2>2. shown.rows # {}
    BY <1>2, <2>1 DEF Older, Newer, PagesInv, PageOk
  <2> QED BY <1>2, <2>1, <2>2 DEF Older, Newer, Directions
<1>3. CASE PassTime \/ \E a \in LogApps : DeleteOldest(a)
  BY <1>3
<1>4. ASSUME NEW h \in RowHashes, FreshHash(h),
             \/ \E a \in LogApps, d \in DecisionNames : AppendTurn(a, h, d)
             \/ \E r \in log : AppendAttestation(r, h)
      PROVE  \E r \in LogRows : FreshHash(r.hash) /\ AddRow(r)
  <2>1. CASE \E a \in LogApps, d \in DecisionNames : AppendTurn(a, h, d)
    <3>1. PICK a \in LogApps, d \in DecisionNames : AppendTurn(a, h, d)
      BY <2>1
    <3>2. PICK ts \in Nat : AddRow([app |-> a, ts |-> ts, hash |-> h, decision |-> d])
      BY <3>1 DEF AppendTurn
    <3> DEFINE row == [app |-> a, ts |-> ts, hash |-> h, decision |-> d]
    <3>3. row \in LogRows /\ row.hash = h
      BY DEF LogRows
    <3> HIDE DEF row
    <3> QED BY <1>4, <3>2, <3>3 DEF row
  <2>2. CASE \E r \in log : AppendAttestation(r, h)
    <3>1. PICK r \in log : AddRow([r EXCEPT !.hash = h])
      BY <2>2 DEF AppendAttestation
    <3>2. r \in LogRows
      BY DEF PagesInv
    <3>3. [r EXCEPT !.hash = h] \in LogRows /\ [r EXCEPT !.hash = h].hash = h
      BY <3>2 DEF LogRows
    <3> QED BY <1>4, <3>1, <3>3
  <2> QED BY <1>4, <2>1, <2>2
<1> QED BY <1>1, <1>2, <1>3, <1>4 DEF PagesNext

LEMMA PagesStepKeeps == PagesInv /\ [PagesNext]_pageVars => PagesInv'
<1> SUFFICES ASSUME PagesInv, [PagesNext]_pageVars PROVE PagesInv'
  OBVIOUS
<1>1. CASE UNCHANGED pageVars
  BY <1>1 DEF pageVars, PagesInv, PageOk, Listable, Matching, ScopedApps, InSearch
<1>2. CASE PassTime
  <2>1. log' = log /\ search' = search /\ shown' = shown /\ clock' \in Nat
    BY <1>2 DEF PassTime, PagesInv
  <2> QED BY <2>1 DEF PagesInv, PageOk, Listable, Matching, ScopedApps, InSearch
<1>3. CASE PagesNext
  BY <1>2, <1>3, LinksAndRows, ShowKeeps, AddRowKeeps, DeleteOldestKeeps
<1> QED BY <1>1, <1>3

-----------------------------------------------------------------------------
LEMMA TurningCovers ==
    ASSUME PagesInv, NEW cursor, cursor.direction \in Directions, Show(cursor),
           \/ shown = NoPage /\ cursor = NoCursor
           \/ /\ shown # NoPage /\ shown.rows # {}
              /\ \/ cursor = [direction |-> "older", from |-> {OldestRow(shown.rows)}]
                 \/ cursor = [direction |-> "newer", from |-> {NewestOf(shown.rows)}]
    PROVE  Turned(shown, shown')
<1> DEFINE page == ListAuditPage(cursor)
           d == cursor.direction
           C == {r \in Matching : Past(cursor, r)}
           there == IF shown = NoPage THEN page.log ELSE shown.log
           follows == {r \in there : \A q \in shown.rows : Comes(page.direction, q, r)}
<1>1. shown' = page
  BY DEF Show
<1>2. /\ page.rows \in SUBSET C /\ page.log = Matching /\ page.direction = d
      /\ \A r \in C \ page.rows :
             /\ Cardinality(page.rows) = PageSize
             /\ \A q \in page.rows : Comes(d, q, r)
             /\ IF d = "older" THEN page.older ELSE page.newer
  BY PageCovers DEF PagesInv
<1> HIDE DEF page
<1>3. there \subseteq Matching
  BY <1>2 DEF PagesInv, PageOk
<1>4. follows \subseteq C /\ page.rows \cap shown.rows = {}
  <2>1. CASE shown = NoPage
    BY <1>3, <2>1 DEF Past, NoCursor, NoPage
  <2>2. CASE shown # NoPage
    <3> DEFINE edge == IF d = "older" THEN OldestRow(shown.rows) ELSE NewestOf(shown.rows)
    <3>1. cursor.from = {edge} /\ shown.rows # {} /\ d \in Directions
      BY <2>2 DEF Directions
    <3>2. Listable(shown.rows)
      BY <2>2 DEF PagesInv, PageOk
    <3>3. edge \in shown.rows
      BY <3>1, <3>2, PastTheEdge
    <3>4. \A r : Past(cursor, r) <=> Comes(d, edge, r)
      BY <3>1 DEF Past
    <3>5. \A q \in shown.rows : ~Comes(d, edge, q)
      <4>1. ~Comes(d, edge, edge)
        BY <3>1, <3>2, <3>3, OrderIsTotal
      <4>2. \A q \in shown.rows \ {edge} : Comes(d, q, edge)
        BY <3>1, <3>2, PastTheEdge DEF Comes, Directions
      <4> HIDE DEF edge
      <4>3. \A q \in shown.rows \ {edge} : ~Comes(d, edge, q)
        BY <3>1, <3>2, <3>3, <4>1, <4>2, OrderIsTotal
      <4> QED BY <4>1, <4>3
    <3> HIDE DEF edge, d
    <3>6. follows \subseteq C
      BY <1>2, <1>3, <3>3, <3>4
    <3>7. page.rows \cap shown.rows = {}
      BY <1>2, <3>4, <3>5
    <3> QED BY <3>6, <3>7
  <2> QED BY <2>1, <2>2
<1>5. \A r \in page.rows : r.app \in ScopedApps /\ InSearch(r)
  BY <1>2 DEF Matching
<1>6. \A r \in follows \ page.rows :
          /\ Cardinality(page.rows) = PageSize
          /\ \A q \in page.rows : Comes(page.direction, q, r)
          /\ IF page.direction = "older" THEN page.older ELSE page.newer
  <2> HIDE DEF C, follows
  <2> QED BY <1>2, <1>4
<1>7. Turned(shown, page)
  BY <1>4, <1>5, <1>6 DEF Turned
<1> QED BY <1>1, <1>7

\* audit-queries.ts rule 2: the page a link leads to leaves out no row and
\* repeats none, whatever was inserted or deleted since the link was made, and
\* shows nothing of an app its viewer may not see.
THEOREM TurningPages == PagesSpec => PagesCoverTheLog
<1>1. PagesInv /\ [PagesNext]_pageVars
          => [log' = log => Turned(shown, shown')]_<<shown, search>>
  <2> SUFFICES ASSUME PagesInv, [PagesNext]_pageVars, log' = log,
                      UNCHANGED <<shown, search>> => FALSE
               PROVE  Turned(shown, shown')
    OBVIOUS
  <2>1. PagesNext /\ ~PassTime
    BY DEF pageVars, PassTime
  <2>2. ~ \E a : DeleteOldest(a)
    BY DeleteOldestKeeps
  <2>3. ~ \E r \in LogRows : FreshHash(r.hash) /\ AddRow(r)
    BY DEF FreshHash, AddRow
  <2> QED BY <2>1, <2>2, <2>3, LinksAndRows, TurningCovers
<1> QED BY <1>1, PagesInitHolds, PagesStepKeeps, PTL DEF PagesSpec, PagesCoverTheLog

-----------------------------------------------------------------------------
(* Verdicts.                                                               *)

BodyFields ==
    {"id", "label", "output", "separation", "supersedes", "decision", "creative", "prev", "key_id"}
DocFields == BodyFields \cup {"record_hash", "signature"}

\* Null and GENESIS are no pairs (hashes, shown creatives), and Null no document.
Atoms ==
    /\ \A x, y : <<x, y>> \notin {Null, GENESIS}
    /\ DOMAIN Null # DocFields

-----------------------------------------------------------------------------
(* Documents.                                                              *)

Genuine(d) ==
    /\ DOMAIN d = DocFields /\ d = [f \in DocFields |-> d[f]]
    /\ d.record_hash = ComputeRecordHash(d)
    /\ d.signature = <<d.key_id, d.record_hash>>

\* What signing gives, and that it leaves the rest alone.
LEMMA SignedIsGenuine ==
    ASSUME NEW doc, NEW key, BodyFields \subseteq DOMAIN doc, DOMAIN doc \subseteq DocFields
    PROVE  LET d == SignRecord(doc, key)
           IN  /\ Genuine(d) /\ d.key_id = key
               /\ \A f \in BodyFields \ {"key_id"} : d[f] = doc[f]
<1> DEFINE u == [UnsignedOf(doc) EXCEPT !.key_id = key]
           hash == ComputeRecordHash(u)
           d == With(u, [record_hash |-> hash, signature |-> <<key, hash>>])
<1>1. UnsignedOf(doc) = [f \in BodyFields |-> doc[f]]
  BY DEF UnsignedOf, Without, BodyFields, DocFields
<1>2. /\ DOMAIN u = BodyFields /\ u.key_id = key
      /\ \A f \in BodyFields \ {"key_id"} : u[f] = doc[f]
  BY <1>1 DEF BodyFields
<1>3. u = [f \in BodyFields |-> u[f]]
  BY <1>1
<1> HIDE DEF u
<1>4. DOMAIN [record_hash |-> hash, signature |-> <<key, hash>>] = {"record_hash", "signature"}
  OBVIOUS
<1>5. d = [f \in DocFields |-> CASE f = "record_hash" -> hash
                                 [] f = "signature" -> <<key, hash>>
                                 [] OTHER -> u[f]]
  BY <1>2, <1>4 DEF With, BodyFields, DocFields
<1> HIDE DEF d
<1>6. /\ DOMAIN d = DocFields /\ d = [f \in DocFields |-> d[f]]
      /\ d.record_hash = hash /\ d.signature = <<key, hash>>
      /\ \A f \in BodyFields : d[f] = u[f]
  BY <1>5 DEF BodyFields, DocFields
<1>7. UnsignedOf(d) = [f \in BodyFields |-> u[f]]
  BY <1>6 DEF UnsignedOf, Without, BodyFields, DocFields
<1>8. ComputeRecordHash(d) = hash
  <2>1. UnsignedOf(u) = [f \in BodyFields |-> u[f]]
    BY <1>2 DEF UnsignedOf, Without, BodyFields
  <2> QED BY <2>1, <1>7 DEF ComputeRecordHash
<1>9. Genuine(d) /\ d.key_id = key /\ \A f \in BodyFields \ {"key_id"} : d[f] = doc[f]
  BY <1>2, <1>6, <1>8 DEF Genuine, BodyFields
<1> QED BY <1>9 DEF SignRecord, d, u

\* Equal hashes are of equal bodies.
LEMMA HashTellsBodies ==
    ASSUME NEW a, NEW b, DOMAIN a = DocFields, DOMAIN b = DocFields,
           ComputeRecordHash(a) = ComputeRecordHash(b), NEW f \in BodyFields
    PROVE  a[f] = b[f]
<1>1. UnsignedOf(a) = UnsignedOf(b)
  BY DEF ComputeRecordHash
<1>2. /\ UnsignedOf(a) = [g \in BodyFields |-> a[g]]
      /\ UnsignedOf(b) = [g \in BodyFields |-> b[g]]
  BY DEF UnsignedOf, Without, BodyFields, DocFields
<1> QED BY <1>1, <1>2

SaidFields == {"id", "label", "decision", "creative"}

LEMMA SaidBody ==
    ASSUME NEW a, NEW b, DOMAIN a = DocFields, DOMAIN b = DocFields
    PROVE  AttestedBodyOf(a) = AttestedBodyOf(b) <=> \A f \in SaidFields : a[f] = b[f]
<1>1. /\ AttestedBodyOf(a) = [g \in SaidFields |-> a[g]]
      /\ AttestedBodyOf(b) = [g \in SaidFields |-> b[g]]
  BY DEF AttestedBodyOf, ATTESTATION_FIELDS, Without, SaidFields, BodyFields, DocFields
<1> QED BY <1>1

\* A turn's record.
LEMMA BuiltRecord ==
    ASSUME NEW id, NEW selected, NEW key, Atoms
    PROVE  LET d == BuildAuditRecord(id, selected, key)
           IN  /\ Genuine(d) /\ d.key_id = key /\ d.prev = NextPrevHash /\ Parses(d)
               /\ d.supersedes = Null /\ d.output = Null /\ ~d.separation /\ d.label = Label
<1> DEFINE body == BuildAuditBody(id, selected)
           more == [prev |-> NextPrevHash, key_id |-> key]
           u == With(body, more)
           d == SignRecord(u, key)
<1>1. DOMAIN body = BodyFields \ {"prev", "key_id"} /\ DOMAIN more = {"prev", "key_id"}
  BY DEF BuildAuditBody, BodyFields
<1>2. u = [f \in BodyFields |-> IF f \in {"prev", "key_id"} THEN more[f] ELSE body[f]]
  BY <1>1 DEF With, BodyFields
<1>3. /\ body.supersedes = Null /\ body.output = Null /\ ~body.separation /\ body.label = Label
      /\ body.decision = IF selected = Null THEN "suppress" ELSE "serve"
      /\ body.creative = IF selected = Null THEN Null ELSE <<selected, CreativeContentHash(selected)>>
  BY DEF BuildAuditBody
<1>4. more.prev = NextPrevHash
  OBVIOUS
<1> HIDE DEF body, more
<1>5. /\ DOMAIN u = BodyFields /\ u.prev = NextPrevHash
      /\ u.supersedes = Null /\ u.output = Null /\ ~u.separation /\ u.label = Label
      /\ u.decision = IF selected = Null THEN "suppress" ELSE "serve"
      /\ u.creative = IF selected = Null THEN Null ELSE <<selected, CreativeContentHash(selected)>>
  BY <1>2, <1>3, <1>4 DEF BodyFields
<1> HIDE DEF u
<1>6. Genuine(d) /\ d.key_id = key /\ \A f \in BodyFields \ {"key_id"} : d[f] = u[f]
  BY <1>5, SignedIsGenuine DEF DocFields
<1> HIDE DEF d
<1>7. Parses(d)
  BY <1>5, <1>6 DEF Parses, Atoms, BodyFields
<1>8. /\ Genuine(d) /\ d.key_id = key /\ d.prev = NextPrevHash /\ Parses(d)
      /\ d.supersedes = Null /\ d.output = Null /\ ~d.separation /\ d.label = Label
  BY <1>5, <1>6, <1>7 DEF BodyFields
<1> QED BY <1>8 DEF BuildAuditRecord, d, u, body, more

\* The version that attests a document.
LEMMA AttestingRecord ==
    ASSUME NEW doc, NEW key, DOMAIN doc = DocFields, Parses(doc)
    PROVE  LET d == AttestedRecord(doc, key)
           IN  /\ Genuine(d) /\ d.key_id = key /\ d.prev = NextPrevHash /\ Parses(d)
               /\ IsAttested(d) /\ d.supersedes = doc.record_hash
               /\ AttestedBodyOf(d) = AttestedBodyOf(doc)
<1> DEFINE u == [doc EXCEPT !.output = Output, !.separation = TRUE,
                            !.supersedes = doc.record_hash, !.prev = NextPrevHash]
           d == SignRecord(u, key)
<1>1. /\ DOMAIN u = DocFields /\ u.output = Output /\ u.separation = TRUE
      /\ u.supersedes = doc.record_hash /\ u.prev = NextPrevHash
      /\ \A f \in SaidFields : u[f] = doc[f]
  BY DEF DocFields, BodyFields, SaidFields
<1> HIDE DEF u
<1>2. Genuine(d) /\ d.key_id = key /\ \A f \in BodyFields \ {"key_id"} : d[f] = u[f]
  BY <1>1, SignedIsGenuine DEF DocFields
<1> HIDE DEF d
<1>3. \A f \in SaidFields : d[f] = doc[f]
  BY <1>1, <1>2 DEF SaidFields, BodyFields
<1>4. AttestedBodyOf(d) = AttestedBodyOf(doc)
  BY <1>2, <1>3, SaidBody DEF Genuine
<1>5. Parses(d)
  BY <1>3 DEF Parses, SaidFields
<1>6. /\ d.output = Output /\ d.separation = TRUE
      /\ d.supersedes = doc.record_hash /\ d.prev = NextPrevHash
  BY <1>1, <1>2 DEF BodyFields
<1>7. IsAttested(d)
  BY <1>6, RecordAssumption DEF IsAttested
<1> QED BY <1>2, <1>4, <1>5, <1>6, <1>7 DEF AttestedRecord, d, u

-----------------------------------------------------------------------------
(* The invariant.                                                          *)

IsSeq(s) == s \in Seq({s[i] : i \in DOMAIN s})

LEMMA SeqShape ==
    ASSUME NEW s, IsSeq(s)
    PROVE  Len(s) \in Nat /\ DOMAIN s = 1 .. Len(s)
BY DEF IsSeq

LEMMA FunctionIsSeq ==
    ASSUME NEW n \in Nat, NEW s, DOMAIN s = 1 .. n, s = [i \in 1 .. n |-> s[i]]
    PROVE  IsSeq(s) /\ Len(s) = n
<1> DEFINE S == {s[i] : i \in DOMAIN s}
<1>1. \A i \in 1 .. n : s[i] \in S
  OBVIOUS
<1> HIDE DEF S
<1>2. s \in [1 .. n -> S]
  BY <1>1
<1>3. s \in Seq(S)
  BY <1>2
<1>4. Len(s) = n
  BY <1>3
<1> QED BY <1>3, <1>4 DEF IsSeq, S

LEMMA Appended ==
    ASSUME NEW s, NEW e, IsSeq(s)
    PROVE  /\ IsSeq(Append(s, e)) /\ Len(Append(s, e)) = Len(s) + 1
           /\ \A i \in 1 .. Len(s) : Append(s, e)[i] = s[i]
           /\ Append(s, e)[Len(s) + 1] = e
<1> DEFINE S == {s[i] : i \in DOMAIN s} \cup {e}
           t == Append(s, e)
<1>1. s \in Seq(S)
  BY DEF IsSeq
<1>2. /\ t \in Seq(S) /\ Len(t) = Len(s) + 1
      /\ \A i \in 1 .. Len(s) : t[i] = s[i]
      /\ t[Len(s) + 1] = e
  BY <1>1, AppendProperties
<1> HIDE DEF S, t
<1>3. t \in Seq({t[i] : i \in DOMAIN t})
  BY <1>2
<1> QED BY <1>2, <1>3 DEF IsSeq, t

RowFields == {"id", "hash", "supersedes", "latest", "doc"}
Rows == 1 .. LastSeq

Shape ==
    /\ IsSeq(records) /\ IsSeq(written) /\ Len(written) = LastSeq
    /\ \A n \in Rows : DOMAIN records[n] = RowFields

PrevOf(n) == IF n = 1 THEN GENESIS ELSE records[n - 1].hash

\* What the gateway wrote follows from what stood before it, under its key.
WellWritten(n) ==
    /\ Genuine(written[n]) /\ Parses(written[n]) /\ written[n].key_id \in Nat \ {0}
    /\ records[n].hash = written[n].record_hash /\ written[n].prev = PrevOf(n)

IsTurn(n) ==
    /\ records[n].supersedes = Null /\ written[n].supersedes = Null
    /\ written[n].output = Null /\ ~written[n].separation /\ written[n].label = Label

\* n attests the turn m, and says what it said unless m had been altered.
IsVersion(n, m) ==
    /\ records[n].supersedes = records[m].hash /\ records[m].supersedes = Null
    /\ records[n].id = records[m].id /\ records[n].latest /\ ~records[m].latest
    /\ IsAttested(written[n])
    /\ AsWritten(m) => /\ written[n].supersedes = written[m].record_hash
                       /\ AttestedBodyOf(written[n]) = AttestedBodyOf(written[m])

Kind(n) == IsTurn(n) \/ \E m \in 1 .. (n - 1) : IsVersion(n, m)

\* An altered document does not hash to its record_hash, or is not what its
\* signature signs, or belongs to another row.
Altered(n) ==
    /\ DOMAIN records[n].doc = DocFields
    /\ \/ AsWritten(n)
       \/ records[n].doc.record_hash # ComputeRecordHash(records[n].doc)
       \/ records[n].doc.signature[2] # records[n].doc.record_hash
       \/ \E m \in Rows \ {n} : records[n].doc = written[m]

OneHash == \A m, n \in Rows : records[m].hash = records[n].hash => m = n
OneAltered == \A m, n \in Rows : AsWritten(m) \/ AsWritten(n) \/ m = n

KeysInUse ==
    /\ config.key \in Nat \ {0} /\ 1 .. (config.key - 1) \subseteq config.listed
    /\ DOMAIN instance = Gateways \cup Dashboards /\ DOMAIN booted = Gateways \cup Dashboards
    /\ \A p \in Gateways : /\ instance[p].signing \in Nat \ {0}
                           /\ booted[p] \in Nat /\ 1 .. booted[p] \subseteq instance[p].ring
    /\ \A p \in Dashboards : booted[p] \in Nat /\ 1 .. (booted[p] - 1) \subseteq instance[p].ring

LogInv ==
    /\ Shape /\ OneHash /\ OneAltered
    /\ \A n \in Rows : WellWritten(n) /\ Kind(n) /\ Altered(n)

RecInv == LogInv /\ KeysInUse

-----------------------------------------------------------------------------
(* It holds.                                                               *)

LEMMA RecordInitHolds == RecordInit => RecInv
<1> SUFFICES ASSUME RecordInit PROVE RecInv
  OBVIOUS
<1>1. records = <<>> /\ written = <<>> /\ LastSeq = 0 /\ Rows = {}
  BY DEF RecordInit, LastSeq, Rows
<1>2. IsSeq(<<>>)
  BY DEF IsSeq
<1>3. LogInv
  BY <1>1, <1>2 DEF LogInv, Shape, OneHash, OneAltered, LastSeq
<1>4. KeysInUse
  BY RecordAssumption DEF RecordInit, KeysInUse, LoadSigningKeys, LoadVerifyKeys
<1> QED BY <1>3, <1>4 DEF RecInv

\* A row is appended, and perhaps a turn's row is no longer the latest.
LEMMA AddKeeps ==
    ASSUME LogInv, Atoms, NEW rows, NEW row, Add(rows, row),
           IsSeq(rows), Len(rows) = LastSeq,
           \A i \in Rows : /\ DOMAIN rows[i] = RowFields /\ rows[i].doc = records[i].doc
                           /\ rows[i].hash = records[i].hash /\ rows[i].id = records[i].id
                           /\ rows[i].supersedes = records[i].supersedes
                           /\ \/ rows[i].latest = records[i].latest
                              \/ ~rows[i].latest /\ records[i].supersedes = Null,
           DOMAIN row = RowFields, row.hash = row.doc.record_hash,
           Genuine(row.doc), Parses(row.doc), row.doc.key_id \in Nat \ {0},
           row.doc.prev = NextPrevHash,
           \/ /\ row.supersedes = Null /\ row.doc.supersedes = Null
              /\ row.doc.output = Null /\ ~row.doc.separation /\ row.doc.label = Label
           \/ \E m \in Rows :
                 /\ row.supersedes = records[m].hash /\ records[m].supersedes = Null
                 /\ row.id = records[m].id /\ row.latest /\ ~rows[m].latest
                 /\ IsAttested(row.doc)
                 /\ row.doc.supersedes = records[m].doc.record_hash
                 /\ AttestedBodyOf(row.doc) = AttestedBodyOf(records[m].doc)
    PROVE  LogInv'
<1>1. /\ LastSeq \in Nat /\ IsSeq(records) /\ IsSeq(written)
      /\ Len(records) = LastSeq /\ Len(written) = LastSeq
  BY SeqShape DEF LogInv, Shape, LastSeq
<1>0. PICK N : N = LastSeq + 1
  OBVIOUS
<1>2. records' = Append(rows, row) /\ written' = Append(written, row.doc)
  BY DEF Add
<1>3. /\ IsSeq(records') /\ Len(records') = N /\ records'[N] = row
      /\ \A i \in Rows : records'[i] = rows[i]
  BY <1>0, <1>1, <1>2, Appended DEF Rows
<1>4. /\ IsSeq(written') /\ Len(written') = N /\ written'[N] = row.doc
      /\ \A i \in Rows : written'[i] = written[i]
  BY <1>0, <1>1, <1>2, Appended DEF Rows
<1>5. LastSeq' = N /\ Rows' = Rows \cup {N} /\ N \notin Rows /\ Rows \subseteq Nat
  BY <1>0, <1>1, <1>3 DEF LastSeq, Rows
<1>6. \A i \in Rows : AsWritten(i)' = AsWritten(i)
  BY <1>3, <1>4 DEF AsWritten
<1>7. AsWritten(N)'
  BY <1>3, <1>4 DEF AsWritten
<1>8. PrevOf(N)' = NextPrevHash
  BY <1>0, <1>1, <1>3, <1>5 DEF PrevOf, NextPrevHash, Rows
<1>9. \A i \in Rows : PrevOf(i)' = PrevOf(i)
  BY <1>3, <1>5 DEF PrevOf, Rows
<1>10. Shape'
  BY <1>3, <1>4, <1>5 DEF Shape, LogInv
<1>11. \A i \in Rows : records[i].hash # row.hash
  <2> SUFFICES ASSUME NEW i \in Rows, records[i].hash = row.hash PROVE FALSE
    OBVIOUS
  <2>1. Genuine(written[i]) /\ written[i].record_hash = row.doc.record_hash
        /\ written[i].prev = PrevOf(i)
    BY DEF LogInv, WellWritten
  <2>2. written[i].prev = row.doc.prev
    <3>1. ComputeRecordHash(written[i]) = ComputeRecordHash(row.doc)
      BY <2>1 DEF Genuine
    <3> QED BY <2>1, <3>1, HashTellsBodies DEF Genuine, BodyFields
  <2>3. PrevOf(i) = records[LastSeq].hash /\ LastSeq \in Rows
    BY <1>1, <2>1, <2>2 DEF NextPrevHash, Rows
  <2>4. CASE i = 1
    <3>1. records[LastSeq].hash = GENESIS
      BY <2>3, <2>4 DEF PrevOf
    <3>2. Genuine(written[LastSeq]) /\ records[LastSeq].hash = written[LastSeq].record_hash
      BY <2>3 DEF LogInv, WellWritten
    <3> QED BY <3>1, <3>2 DEF Atoms, Genuine, ComputeRecordHash
  <2>5. CASE i # 1
    <3>1. i - 1 \in Rows /\ records[i - 1].hash = records[LastSeq].hash
      BY <1>1, <2>3, <2>5 DEF PrevOf, Rows
    <3>2. i - 1 = LastSeq
      BY <2>3, <3>1 DEF LogInv, OneHash
    <3> QED BY <3>2, <1>1 DEF Rows
  <2> QED BY <2>4, <2>5
<1>12. OneHash'
  BY <1>3, <1>5, <1>11 DEF OneHash, LogInv
<1>13. OneAltered'
  BY <1>5, <1>6, <1>7 DEF OneAltered, LogInv
<1>14. \A i \in Rows : WellWritten(i)'
  BY <1>3, <1>4, <1>9 DEF WellWritten, LogInv
<1>15. WellWritten(N)'
  BY <1>3, <1>4, <1>8 DEF WellWritten
<1>16. ASSUME NEW i \in Rows PROVE Kind(i)'
  <2>1. CASE IsTurn(i)
    BY <2>1, <1>3, <1>4 DEF IsTurn, Kind
  <2>2. ASSUME NEW m \in 1 .. (i - 1), IsVersion(i, m) PROVE Kind(i)'
    <3>1. m \in Rows
      BY <1>1, <2>2 DEF Rows
    <3>2. Genuine(written[m]) /\ records[m].hash = written[m].record_hash
      BY <3>1 DEF LogInv, WellWritten
    <3>3. records[i].supersedes # Null
      BY <3>2, <2>2 DEF IsVersion, Genuine, ComputeRecordHash, Atoms
    <3>4. records'[i].latest /\ ~records'[m].latest
      BY <1>3, <2>2, <3>1, <3>3 DEF IsVersion
    <3>5. IsVersion(i, m)'
      BY <1>3, <1>4, <1>6, <2>2, <3>1, <3>4 DEF IsVersion
    <3> QED BY <3>5 DEF Kind
  <2> QED BY <2>1, <2>2 DEF LogInv, Kind
<1>17. Kind(N)'
  <2>1. CASE /\ row.supersedes = Null /\ row.doc.supersedes = Null
             /\ row.doc.output = Null /\ ~row.doc.separation /\ row.doc.label = Label
    BY <2>1, <1>3, <1>4 DEF Kind, IsTurn
  <2>2. ASSUME NEW m \in Rows, 
               row.supersedes = records[m].hash, records[m].supersedes = Null,
               row.id = records[m].id, row.latest, ~rows[m].latest,
               IsAttested(row.doc),
               row.doc.supersedes = records[m].doc.record_hash,
               AttestedBodyOf(row.doc) = AttestedBodyOf(records[m].doc)
        PROVE  Kind(N)'
    <3>1. m \in 1 .. (N - 1)
      BY <1>0, <1>1 DEF Rows
    <3>2. IsVersion(N, m)'
      BY <1>3, <1>4, <1>6, <2>2 DEF IsVersion, AsWritten
    <3> QED BY <3>1, <3>2 DEF Kind
  <2> QED BY <2>1, <2>2
<1>18. \A i \in Rows : Altered(i)'
  BY <1>3, <1>4, <1>5, <1>6 DEF Altered, LogInv
<1>19. Altered(N)'
  BY <1>3, <1>7 DEF Altered, Genuine
<1> QED BY <1>5, <1>10, <1>12, <1>13, <1>14, <1>15, <1>16, <1>17, <1>18, <1>19 DEF LogInv

LEMMA EvaluateKeeps ==
    ASSUME RecInv, Atoms, NEW p \in Gateways, NEW selected, Evaluate(p, selected)
    PROVE  LogInv'
<1> DEFINE id == LastSeq + 1
           doc == BuildAuditRecord(id, selected, instance[p].signing)
           row == Row(id, doc, Null)
<1>1. /\ Genuine(doc) /\ doc.key_id = instance[p].signing /\ doc.prev = NextPrevHash /\ Parses(doc)
      /\ doc.supersedes = Null /\ doc.output = Null /\ ~doc.separation /\ doc.label = Label
  BY BuiltRecord
<1>2. Add(records, row)
  BY DEF Evaluate
<1> HIDE DEF doc
<1>3. /\ DOMAIN row = RowFields /\ row.hash = row.doc.record_hash /\ row.doc = doc
      /\ row.supersedes = Null
  BY DEF Row, RowFields
<1> HIDE DEF row
<1>4. doc.key_id \in Nat \ {0}
  BY <1>1 DEF RecInv, KeysInUse
<1>5. /\ IsSeq(records) /\ Len(records) = LastSeq
      /\ \A i \in Rows : DOMAIN records[i] = RowFields
  BY DEF RecInv, LogInv, Shape, LastSeq
<1>6. LogInv
  BY DEF RecInv
<1> QED BY <1>1, <1>2, <1>3, <1>4, <1>5, <1>6, AddKeeps

LEMMA AttestKeeps ==
    ASSUME RecInv, Atoms, NEW p \in Gateways, NEW n \in DOMAIN records, Attest(p, n)
    PROVE  LogInv'
<1> DEFINE current == records[n]
           rows == [records EXCEPT ![n].latest = FALSE]
           doc == AttestedRecord(current.doc, instance[p].signing)
           row == Row(current.id, doc, current.hash)
<1>1. /\ LastSeq \in Nat /\ IsSeq(records) /\ Len(records) = LastSeq /\ DOMAIN records = Rows
      /\ \A i \in Rows : DOMAIN records[i] = RowFields
  BY SeqShape DEF RecInv, LogInv, Shape, LastSeq, Rows
<1>2. /\ current.supersedes = Null /\ Parses(current.doc) /\ Add(rows, row)
  BY DEF Attest
<1>3. DOMAIN current.doc = DocFields
  BY <1>1 DEF RecInv, LogInv, Altered
<1>4. /\ Genuine(doc) /\ doc.key_id = instance[p].signing /\ doc.prev = NextPrevHash /\ Parses(doc)
      /\ IsAttested(doc) /\ doc.supersedes = current.doc.record_hash
      /\ AttestedBodyOf(doc) = AttestedBodyOf(current.doc)
  BY <1>2, <1>3, AttestingRecord
<1> HIDE DEF doc
<1>5. /\ DOMAIN row = RowFields /\ row.hash = row.doc.record_hash /\ row.doc = doc
      /\ row.supersedes = records[n].hash /\ row.id = records[n].id /\ row.latest
  BY DEF Row, RowFields
<1> HIDE DEF row
<1>6. doc.key_id \in Nat \ {0}
  BY <1>4 DEF RecInv, KeysInUse
<1>7. /\ DOMAIN rows = Rows /\ ~rows[n].latest
      /\ \A i \in Rows : /\ DOMAIN rows[i] = RowFields /\ rows[i].doc = records[i].doc
                         /\ rows[i].hash = records[i].hash /\ rows[i].id = records[i].id
                         /\ rows[i].supersedes = records[i].supersedes
                         /\ i # n => rows[i].latest = records[i].latest
  BY <1>1 DEF RowFields
<1>8. rows = [i \in 1 .. LastSeq |-> rows[i]] /\ DOMAIN rows = 1 .. LastSeq
  BY <1>1, <1>7 DEF Rows
<1> HIDE DEF rows
<1>9. IsSeq(rows) /\ Len(rows) = LastSeq
  BY <1>1, <1>8, FunctionIsSeq
<1>10. \A i \in Rows : /\ DOMAIN rows[i] = RowFields /\ rows[i].doc = records[i].doc
                       /\ rows[i].hash = records[i].hash /\ rows[i].id = records[i].id
                       /\ rows[i].supersedes = records[i].supersedes
                       /\ \/ rows[i].latest = records[i].latest
                          \/ ~rows[i].latest /\ records[i].supersedes = Null
  BY <1>2, <1>7
<1>11. n \in Rows /\ records[n].supersedes = Null
  BY <1>1, <1>2
<1>12. LogInv
  BY DEF RecInv
<1>13. \E m \in Rows :
          /\ row.supersedes = records[m].hash /\ records[m].supersedes = Null
          /\ row.id = records[m].id /\ row.latest /\ ~rows[m].latest
          /\ IsAttested(row.doc)
          /\ row.doc.supersedes = records[m].doc.record_hash
          /\ AttestedBodyOf(row.doc) = AttestedBodyOf(records[m].doc)
  BY <1>4, <1>5, <1>7, <1>11
<1> QED BY <1>13, <1>2, <1>4, <1>5, <1>6, <1>9, <1>10, <1>11, <1>12, AddKeeps

\* What becomes of a document with a field of it changed.
LEMMA EditsShow ==
    ASSUME NEW old, Genuine(old), NEW doc \in Edits(old), doc # old
    PROVE  /\ DOMAIN doc = DocFields
           /\ \/ doc.record_hash # ComputeRecordHash(doc)
              \/ doc.signature[2] # doc.record_hash
<1> DEFINE changed == UNION {{[old EXCEPT ![f] = v] : v \in Values(f)} : f \in DOMAIN old}
<1>1. ASSUME NEW d \in changed
      PROVE  /\ DOMAIN d = DocFields /\ d.record_hash = old.record_hash
             /\ d.signature = old.signature
             /\ d = old \/ ComputeRecordHash(d) # old.record_hash
  <2>0. PICK f \in DOMAIN old : d \in {[old EXCEPT ![f] = v] : v \in Values(f)}
    OBVIOUS
  <2>1. PICK v \in Values(f) : d = [old EXCEPT ![f] = v]
    BY <2>0
  <2>2. f \in BodyFields
    BY <2>1 DEF Values, Genuine, DocFields, BodyFields
  <2>3. /\ DOMAIN d = DocFields /\ d.record_hash = old.record_hash
        /\ d.signature = old.signature
    BY <2>1, <2>2 DEF Genuine, DocFields, BodyFields
  <2>4. d = old \/ d[f] # old[f]
    <3>1. d[f] = v /\ d = [x \in DocFields |-> IF x = f THEN v ELSE old[x]]
      BY <2>1 DEF Genuine
    <3> QED BY <3>1 DEF Genuine
  <2>5. ComputeRecordHash(d) = ComputeRecordHash(old) => d[f] = old[f]
    BY <2>2, <2>3, HashTellsBodies DEF Genuine
  <2> QED BY <2>3, <2>4, <2>5 DEF Genuine
<1>2. CASE doc \in changed
  BY <1>1, <1>2 DEF Genuine
<1>3. ASSUME NEW d \in changed, doc = [d EXCEPT !.record_hash = ComputeRecordHash(d)]
      PROVE  DOMAIN doc = DocFields /\ doc.signature[2] # doc.record_hash
  <2>1. /\ DOMAIN d = DocFields /\ d.record_hash = old.record_hash
        /\ d.signature = old.signature
        /\ d = old \/ ComputeRecordHash(d) # old.record_hash
    BY <1>1, <1>3
  <2>2. /\ DOMAIN doc = DocFields /\ doc.record_hash = ComputeRecordHash(d)
        /\ doc.signature = old.signature
    BY <1>3, <2>1 DEF DocFields
  <2>3. d # old
    <3> SUFFICES ASSUME d = old PROVE FALSE
      OBVIOUS
    <3>1. ComputeRecordHash(d) = d.record_hash
      BY DEF Genuine
    <3> QED BY <1>3, <3>1, <2>1
  <2>4. doc.signature[2] = old.record_hash
    BY <2>2 DEF Genuine
  <2> QED BY <2>1, <2>2, <2>3, <2>4
<1> QED BY <1>2, <1>3 DEF Edits

LEMMA AlterKeeps ==
    ASSUME RecInv, NEW n \in DOMAIN records, Alter(n)
    PROVE  LogInv'
<1>1. /\ LastSeq \in Nat /\ IsSeq(records) /\ Len(records) = LastSeq /\ DOMAIN records = Rows
      /\ \A i \in Rows : DOMAIN records[i] = RowFields
  BY SeqShape DEF RecInv, LogInv, Shape, LastSeq, Rows
<1>2. PICK doc \in Edits(records[n].doc) \cup {records[m].doc : m \in DOMAIN records} :
          doc # written[n] /\ records' = [records EXCEPT ![n].doc = doc]
  BY DEF Alter
<1>3. \A i \in Rows : AsWritten(i)
  BY <1>1 DEF Alter, Unaltered, AsWritten
<1>4. written' = written
  BY DEF Alter
<1>5. /\ DOMAIN records' = Rows /\ records'[n].doc = doc
      /\ \A i \in Rows : /\ DOMAIN records'[i] = RowFields
                         /\ records'[i].hash = records[i].hash /\ records'[i].id = records[i].id
                         /\ records'[i].supersedes = records[i].supersedes
                         /\ records'[i].latest = records[i].latest
                         /\ i # n => records'[i].doc = records[i].doc
  BY <1>1, <1>2 DEF RowFields
<1>6. IsSeq(records') /\ Len(records') = LastSeq
  <2>1. DOMAIN records' = 1 .. LastSeq /\ records' = [i \in 1 .. LastSeq |-> records'[i]]
    BY <1>1, <1>2 DEF Rows
  <2> QED BY <2>1, <1>1, FunctionIsSeq
<1>7. LastSeq' = LastSeq /\ Rows' = Rows
  BY <1>6 DEF LastSeq, Rows
<1>8. Shape'
  BY <1>4, <1>5, <1>6, <1>7 DEF Shape, RecInv, LogInv
<1>9. OneHash'
  BY <1>5, <1>7 DEF OneHash, RecInv, LogInv
<1>10. \A i \in Rows \ {n} : AsWritten(i)'
  BY <1>3, <1>4, <1>5 DEF AsWritten
<1>11. OneAltered'
  BY <1>7, <1>10 DEF OneAltered
<1>12. ASSUME NEW i \in Rows PROVE WellWritten(i)'
  <2>1. PrevOf(i)' = PrevOf(i)
    BY <1>1, <1>5 DEF PrevOf, Rows
  <2> QED BY <2>1, <1>4, <1>5 DEF WellWritten, RecInv, LogInv
<1>13. ASSUME NEW i \in Rows PROVE Kind(i)'
  <2>1. CASE IsTurn(i)
    BY <2>1, <1>4, <1>5 DEF IsTurn, Kind
  <2>2. ASSUME NEW m \in 1 .. (i - 1), IsVersion(i, m) PROVE Kind(i)'
    <3>1. m \in Rows
      BY <1>1, <2>2 DEF Rows
    <3>2. IsVersion(i, m)'
      BY <1>3, <1>4, <1>5, <2>2, <3>1 DEF IsVersion
    <3> QED BY <3>2 DEF Kind
  <2> QED BY <2>1, <2>2 DEF RecInv, LogInv, Kind
<1>14. ASSUME NEW i \in Rows \ {n} PROVE Altered(i)'
  <2>1. DOMAIN records'[i].doc = DocFields
    BY <1>5 DEF Altered, RecInv, LogInv
  <2> QED BY <2>1, <1>10 DEF Altered
<1>15. Altered(n)'
  <2>1. records[n].doc = written[n] /\ Genuine(written[n]) /\ n \in Rows
    BY <1>1, <1>3 DEF AsWritten, RecInv, LogInv, WellWritten
  <2>2. CASE doc \in Edits(records[n].doc)
    <3>1. /\ DOMAIN doc = DocFields
          /\ \/ doc.record_hash # ComputeRecordHash(doc)
             \/ doc.signature[2] # doc.record_hash
      BY <1>2, <2>1, <2>2, EditsShow
    <3> QED BY <3>1, <1>5 DEF Altered
  <2>3. ASSUME NEW m \in Rows, doc = records[m].doc PROVE Altered(n)'
    <3>1. doc = written[m] /\ m # n /\ DOMAIN doc = DocFields
      BY <1>2, <1>3, <2>3 DEF AsWritten, RecInv, LogInv, Altered
    <3> QED BY <3>1, <1>4, <1>5, <1>7 DEF Altered
  <2> QED BY <1>1, <1>2, <2>2, <2>3
<1> QED BY <1>7, <1>8, <1>9, <1>11, <1>12, <1>13, <1>14, <1>15 DEF LogInv

LEMMA LogStays ==
    ASSUME RecInv, UNCHANGED <<records, written>> PROVE LogInv'
BY DEF RecInv, LogInv, Shape, Rows, LastSeq, OneHash, OneAltered, AsWritten, WellWritten, PrevOf,
       Kind, IsTurn, IsVersion, Altered

LEMMA BootKeeps ==
    ASSUME RecInv, NEW p \in Gateways \cup Dashboards, Boot(p) PROVE RecInv'
<1>1. LogInv'
  BY LogStays DEF Boot
<1>2. config' = config /\ booted' = [booted EXCEPT ![p] = config.key]
  BY DEF Boot
<1>3. \A k \in 1 .. config.key : k \in config.listed \cup {config.key}
  BY DEF RecInv, KeysInUse
<1>4. CASE p \in Gateways /\ instance' = [instance EXCEPT ![p] = LoadSigningKeys]
  <2>1. p \notin Dashboards
    BY <1>4, RecordAssumption
  <2>2. LoadSigningKeys.signing = config.key /\ LoadSigningKeys.ring = config.listed \cup {config.key}
    BY DEF LoadSigningKeys
  <2> QED BY <1>1, <1>2, <1>3, <1>4, <2>1, <2>2 DEF RecInv, KeysInUse
<1>5. ASSUME p \in Dashboards, NEW h \in BOOLEAN, instance' = [instance EXCEPT ![p] = LoadVerifyKeys(h)]
      PROVE  RecInv'
  <2>1. p \notin Gateways
    BY <1>5, RecordAssumption
  <2>2. config.listed \subseteq LoadVerifyKeys(h).ring
    BY DEF LoadVerifyKeys
  <2> QED BY <1>1, <1>2, <1>5, <2>1, <2>2 DEF RecInv, KeysInUse
<1> QED BY <1>4, <1>5 DEF Boot

LEMMA RotateKeeps ==
    ASSUME RecInv, Rotate PROVE RecInv'
<1>1. LogInv'
  BY LogStays DEF Rotate
<1>2. PICK also \in SUBSET {config.key + 1} :
          config' = [key |-> config.key + 1, listed |-> config.listed \cup {config.key} \cup also]
  BY DEF Rotate
<1>3. KeysInUse'
  BY <1>2 DEF Rotate, RecInv, KeysInUse
<1> QED BY <1>1, <1>3 DEF RecInv

LEMMA RecordStepKeeps ==
    ASSUME Atoms PROVE RecInv /\ [RecordNext]_recordVars => RecInv'
<1> SUFFICES ASSUME RecInv, [RecordNext]_recordVars PROVE RecInv'
  OBVIOUS
<1>1. ASSUME UNCHANGED <<config, instance, booted>>, LogInv' PROVE RecInv'
  BY <1>1 DEF RecInv, KeysInUse
<1>2. ASSUME NEW p \in Gateways, NEW s \in Creatives \cup {Null}, Evaluate(p, s) PROVE RecInv'
  BY <1>1, <1>2, EvaluateKeeps DEF Evaluate, Add
<1>3. ASSUME NEW p \in Gateways, NEW n \in DOMAIN records, Attest(p, n) PROVE RecInv'
  BY <1>1, <1>3, AttestKeeps DEF Attest, Add
<1>4. ASSUME NEW p \in Gateways \cup Dashboards, Boot(p) PROVE RecInv'
  BY <1>4, BootKeeps
<1>5. CASE Rotate
  BY <1>5, RotateKeeps
<1>6. ASSUME NEW c \in Creatives, EditCreative(c) PROVE RecInv'
  BY <1>1, <1>6, LogStays DEF EditCreative
<1>7. ASSUME NEW n \in DOMAIN records, Alter(n) PROVE RecInv'
  BY <1>1, <1>7, AlterKeeps DEF Alter
<1>8. CASE UNCHANGED recordVars
  BY <1>1, <1>8, LogStays DEF recordVars
<1> QED BY <1>2, <1>3, <1>4, <1>5, <1>6, <1>7, <1>8 DEF RecordNext

-----------------------------------------------------------------------------
(* What the invariant says of a verification.                              *)

LEMMA RowsOfLog ==
    ASSUME LogInv, Atoms
    PROVE  /\ LastSeq \in Nat /\ DOMAIN records = Rows /\ Rows = 1 .. LastSeq
           /\ \A n \in Rows : /\ records[n].hash \notin {Null, GENESIS}
                              /\ records[n].doc # Null
                              /\ WithHash(records[n].hash) = {n}
           /\ WithHash(Null) = {}
<1>1. LastSeq \in Nat /\ DOMAIN records = Rows /\ Rows = 1 .. LastSeq
  BY SeqShape DEF LogInv, Shape, LastSeq, Rows
<1>2. ASSUME NEW n \in Rows
      PROVE  /\ records[n].hash \notin {Null, GENESIS} /\ records[n].doc # Null
             /\ WithHash(records[n].hash) = {n}
  <2>1. records[n].hash = ComputeRecordHash(written[n])
    BY DEF LogInv, WellWritten, Genuine
  <2>2. records[n].hash \notin {Null, GENESIS}
    BY <2>1 DEF ComputeRecordHash, Atoms
  <2>3. records[n].doc # Null
    BY DEF LogInv, Altered, Atoms
  <2>4. WithHash(records[n].hash) = {n}
    BY <1>1 DEF WithHash, LogInv, OneHash
  <2> QED BY <2>2, <2>3, <2>4
<1>3. WithHash(Null) = {}
  BY <1>1, <1>2 DEF WithHash
<1> QED BY <1>1, <1>2, <1>3

LEMMA DocInOne ==
    ASSUME NEW n PROVE DocIn({n}) = records[n].doc /\ DocIn({}) = Null
BY DEF DocIn

\* How verify-context.ts finds the row before another.
LEMMA DocBefore ==
    ASSUME LogInv, Atoms, NEW m \in Rows
    PROVE  DocIn({k \in Rows : k + 1 = m}) = DocAt(m - 1)
<1>1. DOMAIN records = Rows /\ \A k \in Rows : k \in Nat /\ (k + 1 = m <=> k = m - 1)
  BY RowsOfLog
<1>2. CASE m - 1 \in Rows
  <2>1. {k \in Rows : k + 1 = m} = {m - 1}
    BY <1>1, <1>2
  <2> QED BY <1>1, <1>2, <2>1, DocInOne DEF DocAt
<1>3. CASE m - 1 \notin Rows
  <2>1. {k \in Rows : k + 1 = m} = {}
    BY <1>1, <1>3
  <2> QED BY <1>1, <1>3, <2>1, DocInOne DEF DocAt
<1> QED BY <1>2, <1>3

\* A row whose document hashes to its record_hash, is signed and is chained to
\* what stands before it is as the gateway wrote it.
LEMMA AuthenticRow ==
    ASSUME LogInv, Atoms, NEW n \in Rows, NEW ring,
           CheckRecordHash(records[n].doc), CheckSignature(records[n].doc, ring),
           CheckChain(records[n].doc, DocAt(n - 1))
    PROVE  AsWritten(n)
<1> DEFINE doc == records[n].doc
<1> SUFFICES ASSUME ~AsWritten(n) PROVE FALSE
  OBVIOUS
<1>1. doc.record_hash = ComputeRecordHash(doc)
  BY DEF CheckRecordHash
<1>2. doc.signature[2] = doc.record_hash
  BY DEF CheckSignature, RingVerify
<1>3. PICK m \in Rows \ {n} : doc = written[m]
  BY <1>1, <1>2 DEF LogInv, Altered
<1>4. doc.prev = PrevOf(m)
  BY <1>3 DEF LogInv, WellWritten
<1>5. /\ LastSeq \in Nat /\ DOMAIN records = Rows /\ Rows = 1 .. LastSeq
      /\ \A k \in Rows : records[k].hash \notin {Null, GENESIS} /\ records[k].doc # Null
  BY RowsOfLog
<1>6. CASE m = 1
  <2>1. DocAt(n - 1) = Null
    BY <1>4, <1>6 DEF PrevOf, CheckChain
  <2>2. n - 1 \notin Rows
    BY <1>5, <2>1 DEF DocAt
  <2> QED BY <1>3, <1>5, <1>6, <2>2
<1>7. CASE m # 1
  <2>1. m - 1 \in Rows /\ doc.prev = records[m - 1].hash
    BY <1>3, <1>4, <1>5, <1>7 DEF PrevOf
  <2>2. DocAt(n - 1) # Null /\ DocAt(n - 1).record_hash = records[m - 1].hash
    BY <1>5, <2>1 DEF CheckChain
  <2>3. n - 1 \in Rows /\ records[n - 1].doc.record_hash = records[m - 1].hash
    BY <1>5, <2>2 DEF DocAt
  <2>4. AsWritten(n - 1)
    BY <1>5, <2>3 DEF LogInv, OneAltered
  <2>5. records[n - 1].hash = records[m - 1].hash
    BY <2>3, <2>4 DEF LogInv, WellWritten, AsWritten
  <2>6. n - 1 = m - 1
    BY <2>1, <2>3, <2>5 DEF LogInv, OneHash
  <2> QED BY <1>3, <1>5, <2>6
<1> QED BY <1>6, <1>7

\* The first half: who is found valid.
LEMMA ValidIsAuthentic ==
    ASSUME RecInv, Atoms, NEW p, NEW n \in Rows, Valid(p, n), NEW m \in {n} \cup Named(n)
    PROVE  AsWritten(m)
<1> DEFINE doc == records[n].doc
           ctx == BuildVerifyContext(n)
           ring == instance[p].ring
<1>1. LogInv
  BY DEF RecInv
<1>2. ctx = [prevRecord |-> DocAt(n - 1),
             storedCreativeHash |-> CreativeHash(doc),
             supersededRecord |-> DocIn(WithHash(doc.supersedes)),
             itsPrevRecord |-> DocIn({k \in DOMAIN records : k + 1 \in WithHash(doc.supersedes)}),
             supersededBy |-> DocIn(LatestAttestation(records[n]))]
  BY DEF BuildVerifyContext
<1>3. SevenChecks(doc, ring, ctx) /\ CheckSupersedes(doc, ring, ctx)
  BY DEF Valid
<1> HIDE DEF ctx
<1>4. CheckRecordHash(doc) /\ CheckSignature(doc, ring) /\ CheckChain(doc, DocAt(n - 1))
  BY <1>2, <1>3 DEF SevenChecks
<1>5. CASE m = n
  BY <1>1, <1>4, <1>5, AuthenticRow
<1>6. CASE m \in Named(n)
  <2>1. m \in Rows /\ records[m].hash = doc.supersedes
    BY <1>1, <1>6, RowsOfLog DEF Named, WithHash
  <2>2. WithHash(doc.supersedes) = {m} /\ doc.supersedes # Null
    BY <1>1, <2>1, RowsOfLog
  <2>3. ctx.supersededRecord = records[m].doc
    BY <1>2, <2>2, DocInOne
  <2>4. ctx.itsPrevRecord = DocAt(m - 1)
    <3>1. ctx.itsPrevRecord = DocIn({k \in Rows : k + 1 = m})
      BY <1>1, <1>2, <2>2, RowsOfLog
    <3> QED BY <1>1, <2>1, <3>1, DocBefore
  <2>5. SevenChecks(records[m].doc, ring, NestedContext(doc, ctx))
    BY <1>3, <2>2, <2>3 DEF CheckSupersedes
  <2>6. NestedContext(doc, ctx).prevRecord = DocAt(m - 1)
    BY <2>4 DEF NestedContext
  <2>7. /\ CheckRecordHash(records[m].doc) /\ CheckSignature(records[m].doc, ring)
        /\ CheckChain(records[m].doc, DocAt(m - 1))
    BY <2>5, <2>6 DEF SevenChecks
  <2> QED BY <1>1, <2>1, <2>7, AuthenticRow
<1> QED BY <1>5, <1>6

\* A document as written, behind one as written, passes what rests on it alone.
LEMMA ChecksOfWritten ==
    ASSUME LogInv, Atoms, NEW n \in Rows, n - 1 \in Rows => AsWritten(n - 1),
           NEW ring, written[n].key_id \in ring, written[n].label = Label,
           NEW ctx, ctx.prevRecord = DocAt(n - 1)
    PROVE  SevenChecks(written[n], ring, ctx) <=>
               /\ CheckCreativeHash(written[n], ctx.storedCreativeHash)
               /\ CheckSeparation(written[n], ctx.supersededBy)
<1> DEFINE doc == written[n]
<1>1. /\ Genuine(doc) /\ Parses(doc) /\ doc.prev = PrevOf(n)
  BY DEF LogInv, WellWritten
<1>2. CheckRecordHash(doc) /\ CheckSignature(doc, ring)
  BY <1>1 DEF Genuine, CheckRecordHash, CheckSignature, RingVerify
<1>3. CheckDisclosure(doc)
  BY RecordAssumption DEF CheckDisclosure
<1>4. /\ LastSeq \in Nat /\ DOMAIN records = Rows /\ Rows = 1 .. LastSeq
      /\ \A k \in Rows : records[k].hash \notin {Null, GENESIS} /\ records[k].doc # Null
  BY RowsOfLog
<1>5. CheckChain(doc, DocAt(n - 1))
  <2>1. CASE n = 1
    BY <1>1, <1>4, <2>1 DEF CheckChain, DocAt, PrevOf
  <2>2. CASE n # 1
    <3>1. n - 1 \in Rows /\ doc.prev = records[n - 1].hash
      BY <1>1, <1>4, <2>2 DEF PrevOf
    <3>2. DocAt(n - 1) = written[n - 1] /\ DocAt(n - 1) # Null
      BY <1>4, <3>1 DEF DocAt, AsWritten
    <3>3. records[n - 1].hash = written[n - 1].record_hash
      BY <3>1 DEF LogInv, WellWritten
    <3> QED BY <1>4, <3>1, <3>2, <3>3 DEF CheckChain
  <2> QED BY <2>1, <2>2
<1> QED BY <1>1, <1>2, <1>3, <1>5 DEF SevenChecks

LEMMA KnownKeys ==
    ASSUME RecInv, NEW p \in Gateways \cup Dashboards, NEW n \in Rows, Known(p, n)
    PROVE  written[n].key_id \in instance[p].ring
<1>1. written[n].key_id \in Nat \ {0}
  BY DEF RecInv, LogInv, WellWritten
<1>2. CASE p \in Gateways
  BY <1>1, <1>2 DEF RecInv, KeysInUse, Known
<1>3. CASE p \notin Gateways
  BY <1>1, <1>3 DEF RecInv, KeysInUse, Known
<1> QED BY <1>2, <1>3

\* What the second half says of a row.
Verdict(n) ==
    /\ written[n].creative # Null => written[n].creative[2] = stored[written[n].creative[1]]
    /\ written[n].decision = "suppress" \/ About(n) # {n}

LEMMA ShownAsStored ==
    ASSUME NEW doc
    PROVE  CheckCreativeHash(doc, CreativeHash(doc)) <=>
               (doc.creative # Null => doc.creative[2] = stored[doc.creative[1]])
BY DEF CheckCreativeHash, CreativeHash, CreativeContentHash

\* A turn is valid if a later version attests it, or it showed nothing.
LEMMA TurnVerdict ==
    ASSUME RecInv, Atoms, NEW p \in Gateways \cup Dashboards, NEW n \in Rows, IsTurn(n),
           \A m \in Neighbours(n) : AsWritten(m), Known(p, n)
    PROVE  Valid(p, n) <=> Verdict(n)
<1> DEFINE doc == written[n]
           ctx == BuildVerifyContext(n)
           ring == instance[p].ring
<1>1. LogInv
  BY DEF RecInv
<1>2. /\ LastSeq \in Nat /\ DOMAIN records = Rows /\ Rows = 1 .. LastSeq
      /\ \A k \in Rows : records[k].hash \notin {Null, GENESIS} /\ records[k].doc # Null
      /\ WithHash(Null) = {}
  BY <1>1, RowsOfLog
<1>3. Replaced(n) = {} /\ About(n) = {n} \cup Replacing(n)
  BY <1>2 DEF IsTurn, Replaced, About
<1>4. records[n].doc = doc /\ (n - 1 \in Rows => AsWritten(n - 1))
  BY <1>2 DEF Neighbours, About, AsWritten
<1>5. /\ ctx.prevRecord = DocAt(n - 1) /\ ctx.storedCreativeHash = CreativeHash(doc)
      /\ ctx.supersededBy = DocIn(LatestAttestation(records[n]))
  BY <1>4 DEF BuildVerifyContext
<1> HIDE DEF ctx
<1>6. Valid(p, n) <=> SevenChecks(doc, ring, ctx) /\ CheckSupersedes(doc, ring, ctx)
  BY <1>4 DEF Valid, ctx
<1>7. CheckSupersedes(doc, ring, ctx)
  BY DEF CheckSupersedes, IsTurn
<1>8. doc.key_id \in ring /\ doc.label = Label
  BY KnownKeys DEF IsTurn
<1>9. SevenChecks(doc, ring, ctx) <=>
          /\ CheckCreativeHash(doc, ctx.storedCreativeHash)
          /\ CheckSeparation(doc, ctx.supersededBy)
  BY <1>1, <1>4, <1>5, <1>8, ChecksOfWritten
<1>10. CheckSeparation(doc, ctx.supersededBy) <=>
           AttestsRecord(doc, ctx.supersededBy) \/ doc.decision = "suppress"
  BY DEF CheckSeparation, IsAttested, IsUnattested, IsTurn
<1>11. LatestAttestation(records[n]) \subseteq Replacing(n)
  BY DEF LatestAttestation, Replacing
<1>12. n \notin Replacing(n)
  BY <1>2 DEF Replacing, IsTurn
<1>13. CASE Replacing(n) = {}
  <2>1. ctx.supersededBy = Null
    BY <1>5, <1>11, <1>13, DocInOne
  <2>2. ~AttestsRecord(doc, ctx.supersededBy)
    BY <2>1 DEF AttestsRecord
  <2> QED BY <1>3, <1>5, <1>6, <1>7, <1>9, <1>10, <1>13, <2>2, ShownAsStored DEF Verdict
<1>14. CASE Replacing(n) # {}
  <2>1. ASSUME NEW m \in Replacing(n)
        PROVE  m \in Rows /\ IsVersion(m, n)
    <3>1. m \in Rows /\ records[m].supersedes = records[n].hash
      BY <1>2 DEF Replacing
    <3>2. ~IsTurn(m)
      BY <1>2, <3>1 DEF IsTurn
    <3>3. PICK k \in 1 .. (m - 1) : IsVersion(m, k)
      BY <1>1, <3>1, <3>2 DEF LogInv, Kind
    <3>4. k \in Rows /\ records[k].hash = records[n].hash
      BY <1>2, <3>1, <3>3 DEF IsVersion
    <3>5. k = n
      BY <1>1, <3>4 DEF LogInv, OneHash
    <3> QED BY <3>1, <3>3, <3>5
  <2>2. PICK m \in Replacing(n) : TRUE
    BY <1>14
  <2>3. m \in LatestAttestation(records[n])
    BY <1>2, <2>1 DEF LatestAttestation, IsVersion
  <2>4. PICK by \in LatestAttestation(records[n]) : ctx.supersededBy = records[by].doc
    BY <1>5, <2>3 DEF DocIn
  <2>5. by \in Rows /\ IsVersion(by, n) /\ AsWritten(by) /\ AsWritten(n)
    BY <1>2, <1>3, <1>11, <2>1, <2>4 DEF Neighbours
  <2>6. /\ IsAttested(written[by]) /\ written[by].supersedes = doc.record_hash
        /\ AttestedBodyOf(written[by]) = AttestedBodyOf(doc)
    BY <2>5 DEF IsVersion
  <2>7. written[by].id = doc.id
    <3>1. DOMAIN written[by] = DocFields /\ DOMAIN doc = DocFields
      BY <1>1, <2>5 DEF LogInv, WellWritten, Genuine
    <3> QED BY <2>6, <3>1, SaidBody DEF SaidFields
  <2>8. ctx.supersededBy = written[by] /\ ctx.supersededBy # Null
    BY <1>2, <2>4, <2>5 DEF AsWritten
  <2>9. AttestsRecord(doc, ctx.supersededBy)
    BY <2>6, <2>7, <2>8 DEF AttestsRecord
  <2>10. About(n) # {n}
    BY <1>3, <1>12, <1>14
  <2> QED BY <1>5, <1>6, <1>7, <1>9, <1>10, <2>9, <2>10, ShownAsStored DEF Verdict
<1> QED BY <1>13, <1>14

\* A version is valid if what it showed still is, as the turn it attests then is.
LEMMA VersionVerdict ==
    ASSUME RecInv, Atoms, NEW p \in Gateways \cup Dashboards, NEW n \in Rows,
           NEW m \in 1 .. (n - 1), IsVersion(n, m),
           \A k \in Neighbours(n) : AsWritten(k), \A k \in {n} \cup Replaced(n) : Known(p, k)
    PROVE  Valid(p, n) <=> Verdict(n)
<1> DEFINE doc == written[n]
           prior == written[m]
           ctx == BuildVerifyContext(n)
           ring == instance[p].ring
<1>1. LogInv
  BY DEF RecInv
<1>2. /\ LastSeq \in Nat /\ DOMAIN records = Rows /\ Rows = 1 .. LastSeq
      /\ \A k \in Rows : /\ records[k].hash \notin {Null, GENESIS} /\ records[k].doc # Null
                         /\ WithHash(records[k].hash) = {k}
  BY <1>1, RowsOfLog
<1>3. m \in Rows /\ m # n /\ Replaced(n) = {m}
  BY <1>2 DEF IsVersion, Replaced
<1>4. /\ AsWritten(n) /\ AsWritten(m)
      /\ n - 1 \in Rows => AsWritten(n - 1)
      /\ m - 1 \in Rows => AsWritten(m - 1)
  <2>1. n \in Neighbours(n) /\ m \in Neighbours(n)
    BY <1>2, <1>3 DEF Neighbours, About
  <2>2. ASSUME n - 1 \in Rows PROVE n - 1 \in Neighbours(n)
    BY <1>2, <1>3, <2>2 DEF Neighbours, About
  <2>3. ASSUME m - 1 \in Rows PROVE m - 1 \in Neighbours(n)
    BY <1>2, <1>3, <2>3 DEF Neighbours, About
  <2> QED BY <2>1, <2>2, <2>3
<1>5. /\ IsAttested(doc) /\ doc.supersedes = prior.record_hash
      /\ AttestedBodyOf(doc) = AttestedBodyOf(prior)
  BY <1>4 DEF IsVersion
<1>6. /\ DOMAIN doc = DocFields /\ DOMAIN prior = DocFields
      /\ records[m].hash = prior.record_hash
  BY <1>1, <1>3 DEF LogInv, WellWritten, Genuine
<1>7. /\ doc.id = prior.id /\ doc.label = prior.label
      /\ doc.decision = prior.decision /\ doc.creative = prior.creative
  BY <1>5, <1>6, SaidBody DEF SaidFields
<1>8. IsTurn(m)
  <2>1. ASSUME NEW k \in 1 .. (m - 1) PROVE ~IsVersion(m, k)
    BY <1>2, <1>3 DEF IsVersion
  <2> QED BY <1>1, <1>3, <2>1 DEF LogInv, Kind
<1>9. records[n].doc = doc /\ records[m].doc = prior /\ WithHash(doc.supersedes) = {m}
  BY <1>2, <1>3, <1>4, <1>5, <1>6 DEF AsWritten
<1>10. /\ ctx.prevRecord = DocAt(n - 1) /\ ctx.storedCreativeHash = CreativeHash(doc)
       /\ ctx.supersededRecord = prior /\ ctx.itsPrevRecord = DocAt(m - 1)
  <2>1. ctx = [prevRecord |-> DocAt(n - 1),
               storedCreativeHash |-> CreativeHash(doc),
               supersededRecord |-> DocIn({m}),
               itsPrevRecord |-> DocIn({k \in Rows : k + 1 = m}),
               supersededBy |-> DocIn(LatestAttestation(records[n]))]
    <3>1. {k \in DOMAIN records : k + 1 \in {m}} = {k \in Rows : k + 1 = m}
      BY <1>2
    <3> QED BY <1>9, <3>1 DEF BuildVerifyContext
  <2> QED BY <1>1, <1>3, <1>9, <2>1, DocBefore, DocInOne
<1> HIDE DEF ctx
<1>11. Valid(p, n) <=> SevenChecks(doc, ring, ctx) /\ CheckSupersedes(doc, ring, ctx)
  BY <1>9 DEF Valid, ctx
<1>12. doc.key_id \in ring /\ prior.key_id \in ring
  BY <1>3, KnownKeys
<1>13. doc.label = Label /\ prior.label = Label
  BY <1>7, <1>8 DEF IsTurn
<1>14. SevenChecks(doc, ring, ctx) <=>
           /\ CheckCreativeHash(doc, ctx.storedCreativeHash)
           /\ CheckSeparation(doc, ctx.supersededBy)
  BY <1>1, <1>4, <1>10, <1>12, <1>13, ChecksOfWritten
<1>15. CheckSeparation(doc, ctx.supersededBy)
  BY <1>5 DEF CheckSeparation
<1> DEFINE nested == NestedContext(doc, ctx)
<1>16. /\ nested.prevRecord = DocAt(m - 1) /\ nested.storedCreativeHash = CreativeHash(doc)
       /\ nested.supersededBy = doc
  BY <1>10 DEF NestedContext
<1> HIDE DEF nested
<1>17. SevenChecks(prior, ring, nested) <=>
           /\ CheckCreativeHash(prior, nested.storedCreativeHash)
           /\ CheckSeparation(prior, nested.supersededBy)
  BY <1>1, <1>3, <1>4, <1>12, <1>13, <1>16, ChecksOfWritten
<1>18. CheckCreativeHash(prior, CreativeHash(doc)) <=> CheckCreativeHash(doc, CreativeHash(doc))
  BY <1>7 DEF CheckCreativeHash
<1>19. CheckSeparation(prior, nested.supersededBy)
  <2>1. doc # Null
    BY <1>2, <1>9
  <2>2. AttestsRecord(prior, doc)
    BY <1>5, <1>7, <2>1 DEF AttestsRecord
  <2>3. IsUnattested(prior)
    BY <1>8 DEF IsUnattested, IsTurn
  <2> QED BY <1>16, <2>2, <2>3 DEF CheckSeparation
<1>20. prior # Null /\ prior.supersedes = Null /\ prior.record_hash = doc.supersedes
  BY <1>2, <1>3, <1>5, <1>8, <1>9 DEF IsTurn
<1>21. CheckSupersedes(doc, ring, ctx) <=> SevenChecks(prior, ring, nested)
  <2>1. doc.supersedes # Null
    BY <1>2, <1>3, <1>5, <1>6
  <2> QED BY <1>5, <1>7, <1>10, <1>20, <2>1 DEF CheckSupersedes, nested
<1>22. About(n) # {n}
  BY <1>3 DEF About
<1> QED BY <1>10, <1>11, <1>14, <1>15, <1>16, <1>17, <1>18, <1>19, <1>21, <1>22, ShownAsStored DEF Verdict

LEMMA LogInvTellsTheTruth ==
    ASSUME Atoms PROVE RecInv => VerifyTellsTheTruth
<1> SUFFICES ASSUME RecInv, NEW p \in Gateways \cup Dashboards, NEW n \in Rows
             PROVE  /\ Valid(p, n) => \A m \in {n} \cup Named(n) : AsWritten(m)
                    /\ /\ \A m \in Neighbours(n) : AsWritten(m)
                       /\ \A m \in {n} \cup Replaced(n) : Known(p, m)
                       => (Valid(p, n) <=> Verdict(n))
  <2>1. RecInv => DOMAIN records = Rows
    BY RowsOfLog DEF RecInv
  <2> QED BY <2>1 DEF VerifyTellsTheTruth, Verdict
<1>1. Valid(p, n) => \A m \in {n} \cup Named(n) : AsWritten(m)
  BY ValidIsAuthentic
<1>2. ASSUME \A m \in Neighbours(n) : AsWritten(m), \A m \in {n} \cup Replaced(n) : Known(p, m)
      PROVE  Valid(p, n) <=> Verdict(n)
  <2>1. Kind(n)
    BY DEF RecInv, LogInv
  <2>2. CASE IsTurn(n)
    BY <1>2, <2>2, TurnVerdict
  <2>3. ASSUME NEW m \in 1 .. (n - 1), IsVersion(n, m) PROVE Valid(p, n) <=> Verdict(n)
    BY <1>2, <2>3, VersionVerdict
  <2> QED BY <2>1, <2>2, <2>3 DEF Kind
<1> QED BY <1>1, <1>2

\* docs/audit.md "Verification checks": a record found valid is as it was written,
\* with the version it names, and one as written among such is found valid exactly
\* when its creative still says what was shown and it is attested or showed nothing.
THEOREM VerificationIsTrue ==
    ASSUME Atoms PROVE RecordSpec => []VerifyTellsTheTruth
<1>1. RecordInit => RecInv
  BY RecordInitHolds
<1>2. RecInv /\ [RecordNext]_recordVars => RecInv'
  BY RecordStepKeeps
<1>3. RecInv => VerifyTellsTheTruth
  BY LogInvTellsTheTruth
<1> QED BY <1>1, <1>2, <1>3, PTL DEF RecordSpec
=============================================================================
