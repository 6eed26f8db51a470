--------------------------- MODULE ActivityProofs ---------------------------
(* Proofs about paging: whatever is inserted, expires or is purged between two *)
(* pages, a client sees each lasting commit, and none twice.                  *)
EXTENDS InsightsDatabase, RowProofs

\* Identifiers are unique among the rows there are.
CommitsOK == Numbered(commits, MaxId) /\ \A c \in commits : c.id > 0 /\ c.at \in Int

\* The rows that a client still has to come across: those that its window has not
\* left behind.
Expected(q, due) == {c \in due : ~q.slides \/ InWindow(q, c)}

\* What a client has to come lies before its cursor, and what it has seen after.
CursorOK(p) ==
  /\ DOMAIN p = {"query", "seen", "due", "cursor", "more"}
  /\ p.seen \subseteq commits
  /\ p.more => /\ p.cursor \in 1 .. MaxId
               /\ Expected(p.query, p.due) \ p.seen \subseteq Rows(p.query, p.cursor)
               /\ \A c \in p.seen : c.id >= p.cursor
  /\ ~p.more => Expected(p.query, p.due) \subseteq p.seen

QueryOK(q) ==
  /\ q.since \in Int /\ q.until \in Int /\ q.slides \in BOOLEAN
  /\ q.slides => q.since = q.until - Span /\ q.until <= now

\* A window moves towards the present: what was in it leaves at one end only.
WindowOK(q, due) ==
  /\ QueryOK(q)
  /\ \A c \in due : c.at \in Int /\ c.at <= q.until

PagerOK == pager # Nobody => CursorOK(pager) /\ WindowOK(pager.query, pager.due)

PagingInv == now \in Int /\ CommitsOK /\ PagerOK

\* Whatever rows a page starts from, it leaves the cursor where it belongs.
LEMMA PageKeepsCursor ==
  ASSUME CommitsOK, NEW q, NEW cursor \in 0 .. MaxId, NEW seen \in SUBSET commits, NEW due,
         Expected(q, due) \ seen \subseteq Rows(q, cursor),
         \A c \in seen : cursor # 0 /\ c.id >= cursor
  PROVE  CursorOK(Page(q, cursor, seen, due))
<1> DEFINE rows    == Rows(q, cursor)
           fetched == Newest(rows, PageSize + 1)
           shown   == Newest(fetched, PageSize)
           more    == Cardinality(fetched) > PageSize
           next    == IF more THEN Min({c.id : c \in shown}) ELSE 0
           p       == Page(q, cursor, seen, due)
<1>1. /\ p.query = q /\ p.seen = seen \cup shown /\ p.due = due
      /\ p.more = more /\ p.cursor = next
  BY DEF Page
<1>a. DOMAIN p = {"query", "seen", "due", "cursor", "more"}
  BY DEF Page
<1>2. PageSize \in Nat /\ PageSize > 0 /\ PageSize + 1 \in Nat /\ MaxId \in Nat
  BY PagesAssumption
<1>3. /\ rows \in SUBSET commits
      /\ \A c \in rows : /\ c.workspace \in q.of /\ InWindow(q, c)
                         /\ cursor = 0 \/ c.id < cursor
  BY DEF Rows
<1>4. fetched = Youngest(rows, PageSize + 1) /\ shown = Youngest(fetched, PageSize)
  BY DEF Newest, Youngest, NewerIn
<1>5. fetched \in SUBSET rows /\ shown \in SUBSET fetched
  BY <1>4 DEF Youngest
<1> HIDE DEF rows, fetched, shown
<1>6. Numbered(rows, MaxId) /\ Numbered(fetched, MaxId)
  BY <1>3, <1>5, NumberedSubset DEF CommitsOK
<1>7. p.seen \subseteq commits
  BY <1>1, <1>3, <1>5
<1>8. CASE more
  <2>1. \A d \in shown, c \in rows \ shown : d.id > c.id
    <3> SUFFICES ASSUME NEW d \in shown, NEW c \in rows \ shown PROVE d.id > c.id
      OBVIOUS
    <3>1. CASE c \in fetched
      BY <1>2, <1>4, <1>6, <3>1, YoungestAreNewer
    <3>2. CASE c \notin fetched
      BY <1>2, <1>4, <1>5, <1>6, <3>2, YoungestAreNewer
    <3> QED BY <3>1, <3>2
  <2>2. shown # {}
    <3>1. fetched # {}
      <4>1. Cardinality({}) = 0
        BY FS_EmptySet
      <4>2. Cardinality(fetched) > PageSize
        BY <1>8
      <4>3. ~(0 > PageSize)
        BY <1>2
      <4> QED BY <4>1, <4>2, <4>3
    <3>2. PICK c \in fetched : \A d \in fetched : d.id <= c.id
      BY <1>2, <1>6, <3>1, NewestRow
    <3>3. NewerIn(fetched, c) = {}
      BY <1>6, <3>2 DEF NewerIn, Numbered
    <3>4. Cardinality(NewerIn(fetched, c)) < PageSize
      BY <1>2, <3>3, FS_EmptySet
    <3> QED BY <1>4, <3>2, <3>4 DEF Youngest
  <2>3. PICK m \in shown : \A d \in shown : m.id <= d.id
    BY <1>2, <1>5, <1>6, <2>2, NumberedSubset, OldestRow
  <2>4. \A d \in shown : d.id \in 1 .. MaxId
    BY <1>2, <1>3, <1>5 DEF CommitsOK, Numbered
  <2>5. next = m.id
    <3> DEFINE ids == {c.id : c \in shown}
    <3>1. m.id \in ids /\ \A n \in ids : m.id <= n /\ n \in Nat
      BY <2>3, <2>4
    <3> HIDE DEF ids
    <3>2. \A n \in ids : (\A k \in ids : n <= k) => n = m.id
      BY <3>1
    <3>3. \E x \in ids : \A y \in ids : x <= y
      BY <3>1
    <3>4. Min(ids) \in ids /\ \A y \in ids : Min(ids) <= y
      BY <3>3, Zenon DEF Min
    <3>5. Min(ids) = m.id
      BY <3>2, <3>4
    <3> QED BY <1>8, <3>5 DEF ids
  <2>6. p.cursor \in 1 .. MaxId
    BY <1>1, <2>4, <2>5
  <2>7. Expected(p.query, p.due) \ p.seen \subseteq Rows(p.query, p.cursor)
    <3> SUFFICES ASSUME NEW c \in Expected(q, due), c \notin seen, c \notin shown
                 PROVE  c \in Rows(q, m.id)
      BY <1>1, <2>5
    <3>1. c \in rows
      BY DEF rows
    <3>2. c.id < m.id
      <4>1. m.id > c.id
        BY <2>1, <3>1
      <4> QED BY <1>3, <2>4, <3>1, <4>1 DEF CommitsOK, Numbered
    <3> QED BY <1>3, <3>1, <3>2 DEF Rows
  <2>8. ASSUME NEW c \in p.seen PROVE c.id >= p.cursor
    <3>1. CASE c \in shown
      BY <1>1, <2>3, <2>4, <2>5, <3>1
    <3>2. CASE c \in seen
      <4>1. m.id < cursor /\ c.id >= cursor
        BY <1>3, <1>5, <3>2
      <4>2. c.id \in 0 .. MaxId /\ m.id \in Nat
        BY <2>4, <3>2 DEF CommitsOK, Numbered
      <4> QED BY <1>1, <2>5, <4>1, <4>2
    <3> QED BY <1>1, <2>8, <3>1, <3>2
  <2> QED BY <1>1, <1>a, <1>7, <1>8, <2>6, <2>7, <2>8 DEF CursorOK
<1>9. CASE ~more
  <2>1. Cardinality(fetched) \in Nat /\ IsFiniteSet(fetched)
    BY <1>6, FS_CardinalityType DEF Numbered
  <2>2. rows \subseteq fetched
    <3> SUFFICES ASSUME NEW c \in rows, c \notin fetched PROVE FALSE
      OBVIOUS
    <3>1. Cardinality(fetched) >= PageSize + 1
      BY <1>2, <1>4, <1>6, YoungestAreNewer
    <3> QED BY <1>2, <1>9, <2>1, <3>1
  <2>3. fetched \subseteq shown
    <3> SUFFICES ASSUME NEW c \in fetched PROVE Cardinality(NewerIn(fetched, c)) < PageSize
      BY <1>4 DEF Youngest
    <3>1. NewerIn(fetched, c) \in SUBSET (fetched \ {c})
      BY <1>6 DEF NewerIn, Numbered
    <3>2. /\ Cardinality(fetched \ {c}) = Cardinality(fetched) - 1
          /\ IsFiniteSet(fetched \ {c})
      BY <2>1, FS_RemoveElement
    <3>3. Cardinality(NewerIn(fetched, c)) <= Cardinality(fetched \ {c})
      BY <3>1, <3>2, FS_Subset
    <3>4. Cardinality(NewerIn(fetched, c)) \in Nat
      BY <1>6, NewerAreFinite
    <3> QED BY <1>2, <1>9, <2>1, <3>2, <3>3, <3>4
  <2>4. Expected(p.query, p.due) \subseteq p.seen
    BY <1>1, <2>2, <2>3 DEF rows
  <2> QED BY <1>1, <1>a, <1>7, <1>9, <2>4 DEF CursorOK
<1> QED BY <1>8, <1>9

\* A row that is removed is neither due nor seen any longer.
LEMMA RemovalKeepsPaging ==
  ASSUME PagingInv, NEW gone, RemoveCommits(gone), UNCHANGED now
  PROVE  PagingInv'
<1>1. commits' = commits \ gone /\ Without(gone)
  BY DEF RemoveCommits
<1>2. CommitsOK'
  <2>1. commits' \in SUBSET commits
    BY <1>1
  <2>2. Numbered(commits', MaxId)
    BY <2>1, NumberedSubset DEF PagingInv, CommitsOK
  <2> QED BY <2>1, <2>2 DEF PagingInv, CommitsOK
<1>3. CASE pager = Nobody
  BY <1>1, <1>2, <1>3 DEF PagingInv, PagerOK, Without, Paging
<1>4. CASE pager # Nobody
  <2> DEFINE p == [pager EXCEPT !.seen = @ \ gone, !.due = @ \ gone]
  <2>1. pager' = p
    BY <1>1, <1>4 DEF Without, Paging
  <2>2. CursorOK(pager)
    BY <1>4 DEF PagingInv, PagerOK
  <2>3. /\ p.query = pager.query /\ p.cursor = pager.cursor /\ p.more = pager.more
        /\ p.seen = pager.seen \ gone /\ p.due = pager.due \ gone
        /\ DOMAIN p = DOMAIN pager
    BY <2>2 DEF CursorOK
  <2>4. Expected(p.query, p.due) = Expected(pager.query, pager.due) \ gone
    BY <2>3 DEF Expected
  <2>5. CursorOK(pager)'
    BY <1>1, <2>1, <2>2, <2>3, <2>4 DEF CursorOK, Rows, Expected
  <2>6. WindowOK(pager.query, pager.due)'
    BY <1>4, <2>1, <2>3 DEF PagingInv, PagerOK, WindowOK, QueryOK
  <2> QED BY <1>2, <2>5, <2>6 DEF PagingInv, PagerOK
<1> QED BY <1>3, <1>4

\* A new row comes before every cursor.
LEMMA InsertKeepsPaging ==
  ASSUME PagingInv, NEW w, NEW sha, NEW at \in Int, InsertCommit(w, sha, at),
         UNCHANGED now
  PROVE  PagingInv'
<1> DEFINE ids == {0} \cup {c.id : c \in commits}
           row == [id |-> NextId, workspace |-> w, sha |-> sha, at |-> at]
<1>1. NextId <= MaxId /\ commits' = commits \cup {row} /\ pager' = pager
  BY DEF InsertCommit
<1>2. MaxId \in Nat
  BY PagesAssumption
<1>3. ids \in SUBSET (0 .. MaxId) /\ 0 \in ids
  BY <1>2 DEF PagingInv, CommitsOK, Numbered
<1>4. \A c \in commits : c.id \in ids
  OBVIOUS
<1>5. NextId = 1 + Max(ids)
  BY DEF NextId
<1> HIDE DEF ids
<1>6. \E m \in ids : \A n \in ids : m >= n
  <2>1. PICK m \in ids : \A n \in ids : n <= m
    BY <1>2, <1>3, GreatestNumber
  <2> QED BY <1>3, <2>1
<1>7. Max(ids) \in ids /\ \A n \in ids : Max(ids) >= n
  BY <1>6, Zenon DEF Max
<1>a. row.at \in Int
  OBVIOUS
<1>8. row.id \in 1 .. MaxId /\ \A c \in commits : c.id < row.id
  <2> DEFINE top == Max(ids)
  <2>1. row.id = 1 + top /\ 1 + top <= MaxId
    BY <1>1, <1>5
  <2>2. top \in 0 .. MaxId /\ top >= 0
    BY <1>3, <1>7
  <2>3. \A c \in commits : c.id \in 0 .. MaxId /\ top >= c.id
    BY <1>3, <1>4, <1>7
  <2> HIDE DEF top, row
  <2> QED BY <1>2, <2>1, <2>2, <2>3
<1> HIDE DEF row
<1>9. CommitsOK'
  <2>1. IsFiniteSet(commits')
    BY <1>1, FS_AddElement DEF PagingInv, CommitsOK, Numbered
  <2>2. \A c \in commits' : c.id \in 0 .. MaxId /\ c.id > 0 /\ c.at \in Int
    BY <1>1, <1>2, <1>8, <1>a DEF PagingInv, CommitsOK, Numbered
  <2>3. \A c, d \in commits' : c.id = d.id => c = d
    BY <1>1, <1>2, <1>8 DEF PagingInv, CommitsOK, Numbered
  <2> QED BY <2>1, <2>2, <2>3 DEF CommitsOK, Numbered
<1>10. PagerOK'
  BY <1>1 DEF PagingInv, PagerOK, CursorOK, WindowOK, QueryOK, Rows
<1> QED BY <1>9, <1>10 DEF PagingInv

\* As its window moves on, a client comes to expect nothing that it did not expect.
LEMMA WindowSlides ==
  ASSUME now \in Int, CommitsOK, NEW q, NEW due, NEW cursor, WindowOK(q, due)
  PROVE  /\ WindowOK(AtPage(q, now), due)
         /\ Expected(AtPage(q, now), due) \subseteq Expected(q, due)
         /\ Rows(q, cursor) \cap Expected(AtPage(q, now), due)
              \subseteq Rows(AtPage(q, now), cursor)
<1>1. CASE ~q.slides
  BY <1>1 DEF AtPage
<1>2. CASE q.slides
  <2> DEFINE r == AtPage(q, now)
  <2>1. /\ r.of = q.of /\ r.since = now - Span /\ r.until = now /\ r.slides
        /\ r.slides \in BOOLEAN
    BY <1>2 DEF AtPage, Sliding
  <2>2. q.since = q.until - Span /\ q.until <= now /\ q.until \in Int /\ Span \in Nat
    BY <1>2, PagesAssumption DEF WindowOK, QueryOK
  <2>3. \A c \in due : c.at \in Int /\ c.at <= q.until
    BY DEF WindowOK
  <2> HIDE DEF r
  <2>4. WindowOK(r, due)
    BY <2>1, <2>2, <2>3 DEF WindowOK, QueryOK
  <2>5. \A c \in Expected(r, due) : c \in due /\ InWindow(r, c)
    BY <2>1 DEF Expected
  <2>6. \A c \in Expected(r, due) : InWindow(q, c)
    BY <2>1, <2>2, <2>3, <2>5 DEF InWindow
  <2>7. Expected(r, due) \subseteq Expected(q, due)
    BY <2>5, <2>6 DEF Expected
  <2>8. Rows(q, cursor) \cap Expected(r, due) \subseteq Rows(r, cursor)
    BY <2>1, <2>5 DEF Rows
  <2> QED BY <2>4, <2>7, <2>8 DEF r
<1>3. q.slides \in BOOLEAN
  BY DEF WindowOK, QueryOK
<1> QED BY <1>1, <1>2, <1>3

\* Steps of the client.
LEMMA ReadingKeepsPaging ==
  ASSUME PagingInv, ReadActivity
  PROVE  PagingInv'
<1>0. MaxId \in Nat
  BY PagesAssumption
<1>1. ASSUME NEW q, QueryOK(q), pager' = Page(q, 0, {}, Rows(q, 0)), commits' = commits
      PROVE  PagingInv'
  <2> DEFINE due == Rows(q, 0)
  <2>1. Expected(q, due) \subseteq due
    BY DEF Expected
  <2>2. CursorOK(Page(q, 0, {}, due))
    BY <1>0, <2>1, PageKeepsCursor DEF PagingInv
  <2>3. WindowOK(q, due)
    BY <1>1 DEF WindowOK, Rows, InWindow, PagingInv, CommitsOK
  <2>4. pager' = Page(q, 0, {}, due) /\ commits' = commits /\ now' = now
    BY <1>1 DEF ReadActivity
  <2>5. pager'.query = q /\ pager'.due = due
    BY <2>4 DEF Page
  <2>6. CursorOK(pager)'
    BY <2>2, <2>4 DEF CursorOK, Rows
  <2>7. WindowOK(pager.query, pager.due)'
    BY <2>3, <2>4, <2>5 DEF WindowOK, QueryOK
  <2> QED BY <2>4, <2>6, <2>7 DEF PagingInv, PagerOK, CommitsOK
<1>2. CASE NextPage(now)
  <2> DEFINE q == AtPage(pager.query, now)
  <2>1. CursorOK(pager) /\ WindowOK(pager.query, pager.due) /\ pager.more
    BY <1>2 DEF NextPage, Paging, PagingInv, PagerOK
  <2>2. pager.cursor \in 0 .. MaxId /\ pager.cursor # 0
    BY <1>0, <2>1 DEF CursorOK
  <2>3. /\ WindowOK(q, pager.due)
        /\ Expected(q, pager.due) \subseteq Expected(pager.query, pager.due)
        /\ Rows(pager.query, pager.cursor) \cap Expected(q, pager.due)
             \subseteq Rows(q, pager.cursor)
    BY <2>1, WindowSlides DEF PagingInv
  <2>4. pager' = Page(q, pager.cursor, pager.seen, pager.due)
        /\ commits' = commits /\ now' = now
    BY <1>2 DEF NextPage, ReadActivity
  <2> HIDE DEF q
  <2>5. Expected(q, pager.due) \ pager.seen \subseteq Rows(q, pager.cursor)
    BY <2>1, <2>3 DEF CursorOK
  <2>6. CursorOK(Page(q, pager.cursor, pager.seen, pager.due))
    BY <2>1, <2>2, <2>5, PageKeepsCursor DEF PagingInv, CursorOK
  <2>7. pager'.query = q /\ pager'.due = pager.due
    BY <2>4 DEF Page
  <2>8. CursorOK(pager)'
    BY <2>4, <2>6 DEF CursorOK, Rows
  <2>9. WindowOK(pager.query, pager.due)'
    BY <2>3, <2>4, <2>7 DEF WindowOK, QueryOK
  <2> QED BY <2>4, <2>8, <2>9 DEF PagingInv, PagerOK, CommitsOK
<1>3. CASE LastPage
  BY <1>3 DEF LastPage, PagingInv, PagerOK, CommitsOK, ReadActivity
<1>4. \A of : QueryOK(Sliding(of, now))
  BY PagesAssumption DEF PagingInv, QueryOK, Sliding
<1>5. CASE NextPage(now) \/ LastPage
  BY <1>2, <1>3, <1>5
<1>6. CASE ~(NextPage(now) \/ LastPage)
  <2>1. PICK t \in Tenants, boxes \in {Boxes} \cup {{b} : b \in Boxes} :
          \/ FirstPage(Sliding(InstancesOf(t, boxes), now))
          \/ \E range \in Ranges :
               /\ range[1] < range[2] /\ range[2] <= now + Ahead
               /\ FirstPage(Between(InstancesOf(t, boxes), range[1], range[2]))
    BY <1>6 DEF ReadActivity
  <2>2. CASE FirstPage(Sliding(InstancesOf(t, boxes), now))
    <3> DEFINE q == Sliding(InstancesOf(t, boxes), now)
    <3>1. pager' = Page(q, 0, {}, Rows(q, 0)) /\ commits' = commits
      BY <2>2 DEF FirstPage
    <3>2. QueryOK(q)
      BY <1>4
    <3> HIDE DEF q
    <3> QED BY <1>1, <3>1, <3>2
  <2>3. ASSUME NEW range \in Ranges,
               FirstPage(Between(InstancesOf(t, boxes), range[1], range[2]))
        PROVE  PagingInv'
    <3> DEFINE q == Between(InstancesOf(t, boxes), range[1], range[2])
    <3>1. pager' = Page(q, 0, {}, Rows(q, 0)) /\ commits' = commits
      BY <2>3 DEF FirstPage
    <3>2. QueryOK(q)
      BY DatabaseAssumption DEF QueryOK, Between
    <3> HIDE DEF q
    <3> QED BY <1>1, <3>1, <3>2
  <2> QED BY <2>1, <2>2, <2>3
<1> QED BY <1>5, <1>6

\* Every step keeps identifiers and cursor.
LEMMA PagingStep == PagingInv /\ [Next]_vars => PagingInv'
<1> SUFFICES ASSUME PagingInv, [Next]_vars PROVE PagingInv'
  OBVIOUS
<1>1. ASSUME UNCHANGED activityVars, now' \in Int, now <= now'
      PROVE  PagingInv'
  <2>1. pager # Nobody /\ pager.query.slides => pager.query.until <= now'
    BY <1>1 DEF PagingInv, PagerOK, WindowOK, QueryOK
  <2>2. PagerOK'
    BY <1>1, <2>1
       DEF activityVars, PagingInv, PagerOK, CursorOK, WindowOK, QueryOK, Rows
  <2> QED BY <1>1, <2>2 DEF activityVars, PagingInv, CommitsOK
<1>2. now \in Int /\ now <= now
  BY DEF PagingInv
<1>3. CASE UNCHANGED vars
  BY <1>1, <1>2, <1>3 DEF vars
<1>4. CASE Tick
  <2>1. now' = now + Step /\ UNCHANGED activityVars
    BY <1>4 DEF Tick
  <2>2. Step \in Nat
    BY HistoryAssumption DEF HistoryAssumption
  <2> QED BY <1>1, <1>2, <2>1, <2>2
<1>5. CASE IngestMetrics
  BY <1>1, <1>2, <1>5 DEF IngestMetrics
<1>6. CASE IngestGit
  <2>1. PICK i \in Repositories, sha \in Shas, age \in CommitAges :
          InsertCommit(i, sha, now - age)
    BY <1>6 DEF IngestGit
  <2>2. now - age \in Int /\ now' = now
    BY <1>2, <1>6, DatabaseAssumption DEF IngestGit
  <2> QED BY <2>1, <2>2, InsertKeepsPaging
<1>7. CASE MaintenancePass
  BY <1>7, RemovalKeepsPaging DEF MaintenancePass
<1>8. ASSUME NEW gone, Purge(gone)
      PROVE  PagingInv'
  BY <1>8, RemovalKeepsPaging DEF Purge
<1>9. CASE ReadActivity
  BY <1>9, ReadingKeepsPaging
<1> QED
  BY <1>3, <1>4, <1>5, <1>6, <1>7, <1>8, <1>9 DEF Next, PurgeBox, PurgeInstance

\* Identifiers and cursors are in order in every behaviour.
LEMMA PagingHolds == Spec => []PagingInv
<1>1. Init => PagingInv
  <2>1. MinTime \in Int
    BY HistoryAssumption DEF HistoryAssumption
  <2> QED
    BY <2>1, FS_EmptySet
       DEF Init, ActivityInit, PagingInv, CommitsOK, Numbered, PagerOK
<1> QED BY <1>1, PagingStep, PTL DEF Spec

\* At the last page a client has seen each commit that was in its window when it
\* began, that nothing has removed and that has not become too old for the window
\* since (_activity_sync, filters).
THEOREM PagesAreCompleteHolds == Spec => []PagesAreComplete
<1>1. PagingInv => PagesAreComplete
  BY DEF PagingInv, PagerOK, CursorOK, Expected, PagesAreComplete, Paging
<1> QED BY <1>1, PagingHolds, PTL

\* No page repeats a row of an earlier one (the cursor of _activity_sync).
THEOREM NoRowShownTwiceHolds == Spec => NoRowShownTwice
<1> DEFINE Disjoint(q) == Rows(q, pager.cursor) \cap pager.seen = {}
<1>1. PagingInv => (Paging /\ pager.more => \A q : Disjoint(q))
  <2> SUFFICES ASSUME PagingInv, Paging, pager.more, NEW q,
                      NEW c \in Rows(q, pager.cursor), c \in pager.seen
               PROVE  FALSE
    OBVIOUS
  <2>1. CursorOK(pager)
    BY DEF PagingInv, PagerOK, Paging
  <2>2. pager.cursor \in 1 .. MaxId /\ c.id >= pager.cursor /\ c \in commits
    BY <2>1 DEF CursorOK
  <2>3. c.id < pager.cursor /\ c.id \in 0 .. MaxId /\ MaxId \in Nat
    BY <2>2, PagesAssumption DEF Rows, PagingInv, CommitsOK, Numbered
  <2> QED BY <2>2, <2>3
<1>2. PagingInv => (Paging /\ pager.more /\ pager' # pager /\ commits' = commits =>
                      Disjoint(pager'.query))
  BY <1>1
<1> QED BY <1>2, PagingHolds, PTL DEF NoRowShownTwice
=============================================================================
