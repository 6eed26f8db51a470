-------------------------- MODULE InsightsActivity --------------------------
(* The list of Git commits in the controller's database and a client that     *)
(* pages through it.  Each page is one SELECT; ingest, retention and purge    *)
(* come between two pages.  A workspace has one repository here.              *)
EXTENDS Integers, FiniteSets, FiniteSetsExt

CONSTANTS
  Shas, Workspaces,
  PageSize,     \* limit of a page
  Span,         \* since, when it is given as a length of time
  MaxId,        \* bound of the instance
  Nobody        \* no client is paging

ASSUME PagesAssumption == PageSize \in Nat \ {0} /\ MaxId \in Nat /\ Span \in Nat

VARIABLES
  commits,   \* code_commits
  pager      \* the client: its query, rows shown, rows it is due to see, its cursor

activityVars == <<commits, pager>>

Commit == [id : 1 .. MaxId, workspace : Workspaces, sha : Shas, at : Int]

\* slides: since is a length of time and until is left out.
Query == [of : SUBSET Workspaces, since : Int, until : Int, slides : BOOLEAN]

Pager == [query : Query, seen : SUBSET Commit, due : SUBSET Commit,
          cursor : 0 .. MaxId, more : BOOLEAN]

ActivityTypeOK ==
  /\ commits \in SUBSET Commit
  /\ pager \in {Nobody} \cup Pager

ActivityInit == commits = {} /\ pager = Nobody

Paging == pager # Nobody

\* What the client holds once rows are gone: nothing is due that is not there.
Without(gone) ==
  pager' = IF Paging
             THEN [pager EXCEPT !.seen = @ \ gone, !.due = @ \ gone]
             ELSE pager

\* INTEGER PRIMARY KEY: the identifier after the largest one in the table.
NextId == 1 + Max({0} \cup {c.id : c \in commits})

\* _insert_git: a new row, unless the repository has the commit.
InsertCommit(w, sha, at) ==
  /\ \A c \in commits : <<c.workspace, c.sha>> # <<w, sha>>
  /\ NextId <= MaxId
  /\ commits' = commits \cup {[id |-> NextId, workspace |-> w, sha |-> sha, at |-> at]}
  /\ UNCHANGED pager

\* DELETE FROM code_commits of retention and of a purge.
RemoveCommits(gone) ==
  /\ commits' = commits \ gone
  /\ Without(gone)

\* What a client may ask for: the last Span of time, or two instants.
Sliding(of, clock) ==
  [of |-> of, since |-> clock - Span, until |-> clock, slides |-> TRUE]

Between(of, since, until) ==
  [of |-> of, since |-> since, until |-> until, slides |-> FALSE]

\* filters() reads the clock for every page.
AtPage(q, clock) == IF q.slides THEN Sliding(q.of, clock) ELSE q

\* _git_filter: both ends of the window are inclusive.
InWindow(q, c) == q.since <= c.at /\ c.at <= q.until

\* Faulty: the cursor is inclusive.
RowsFrom(q, cursor) ==
  {c \in commits : c.workspace \in q.of /\ InWindow(q, c)
                   /\ (cursor = 0 \/ c.id <= cursor)}

\* Rows of the query that come after the cursor, which is an identifier.
Rows(q, cursor) ==
  {c \in commits : c.workspace \in q.of /\ InWindow(q, c)
                   /\ (cursor = 0 \/ c.id < cursor)}

Newest(rows, n) ==
  {c \in rows : Cardinality({d \in rows : d.id > c.id}) < n}

\* Faulty: the cursor is the row that told that there are more.
PageToExtra(q, cursor, seen, due) ==
  LET fetched == Newest(Rows(q, cursor), PageSize + 1)
      shown   == Newest(fetched, PageSize)
      more    == Cardinality(fetched) > PageSize
  IN [query |-> q, seen |-> seen \cup shown, due |-> due, more |-> more,
      cursor |-> IF more THEN Min({c.id : c \in fetched}) ELSE 0]

\* _activity_sync: limit + 1 rows tell whether there are more; the cursor of the
\* next page is the last row shown.
Page(q, cursor, seen, due) ==
  LET fetched == Newest(Rows(q, cursor), PageSize + 1)
      shown   == Newest(fetched, PageSize)
      more    == Cardinality(fetched) > PageSize
  IN [query |-> q, seen |-> seen \cup shown, due |-> due, more |-> more,
      cursor |-> IF more THEN Min({c.id : c \in shown}) ELSE 0]

FirstPage(q) ==
  /\ ~Paging
  /\ pager' = Page(q, 0, {}, Rows(q, 0))
  /\ UNCHANGED commits

NextPage(clock) ==
  /\ Paging /\ pager.more
  /\ pager' = Page(AtPage(pager.query, clock), pager.cursor, pager.seen, pager.due)
  /\ UNCHANGED commits

LastPage ==
  /\ Paging /\ ~pager.more
  /\ pager' = Nobody
  /\ UNCHANGED commits

\* At the last page a client has seen each commit of its window that was there when
\* it began and that nothing has removed since: all of them if it asked for two
\* instants, else those that the window has not left behind from page to page (the
\* cursor of _activity_sync against rows inserted, deleted and getting old between
\* two pages).
PagesAreComplete ==
  Paging /\ ~pager.more =>
    \A c \in pager.due :
      ~pager.query.slides \/ InWindow(pager.query, c) => c \in pager.seen

\* No page repeats a row that an earlier page has shown.
NoRowShownTwice ==
  [][Paging /\ pager.more /\ pager' # pager /\ commits' = commits =>
       Rows(pager'.query, pager.cursor) \cap pager.seen = {}]_activityVars
=============================================================================
