------------------------- MODULE InsightsDatabase --------------------------
(* The controller's Insights database: metric history and commit list under   *)
(* one clock, with ingest, the maintenance loop, purges and queries.          *)
EXTENDS InsightsHistory, InsightsActivity

CONSTANTS
  CommitAges,      \* how old a commit may be when it is reported
  Repositories,    \* the instances that have a Git repository
  Ranges,          \* windows a client asks for by two instants
  Limit, MaxPoints, MaxCommits, MaxMix   \* bounds: see Fits

ASSUME DatabaseAssumption ==
  /\ Repositories \subseteq Instances /\ Instances \subseteq Workspaces
  /\ \A age \in CommitAges : age \in Int /\ age >= -Ahead
  /\ Ranges \subseteq Int \X Int

vars == <<now, historyVars, activityVars>>

TypeOK ==
  /\ now \in MinTime .. MaxTime
  /\ HistoryTypeOK
  /\ ActivityTypeOK

Init == now = MinTime /\ HistoryInit /\ ActivityInit

Tick == now + Step <= MaxTime /\ now' = now + Step /\ UNCHANGED <<historyVars, activityVars>>

\* The bounds of the instance: points of a series and of all, commits, and the points
\* beside commits or a client that pages, as the two meet in maintenance and purges only.
Fits(rows, gitRows, client) ==
  /\ \A s \in Series : Cardinality(OfSeries(rows, s)) <= Limit[s]
  /\ Cardinality(rows) <= MaxPoints
  /\ Cardinality(gitRows) <= MaxCommits
  /\ gitRows # {} \/ client # Nobody => Cardinality(rows) <= MaxMix

\* A workspace delivers a reading, for the first time or again.
IngestMetrics ==
  /\ \E s \in Series : \E age \in Ages[s], reading \in Counters :
       LET p == [series |-> s, at |-> now - age, start |-> reading[1], raw |-> reading[2]]
       IN Plausible(p) /\ Ingest(p)
  /\ Fits(accepted', commits, pager)
  /\ UNCHANGED <<now, activityVars>>

\* Commits carry their own time, which may be long past.
IngestGit ==
  /\ \E i \in Repositories, sha \in Shas, age \in CommitAges :
       InsertCommit(i, sha, now - age)
  /\ Fits(accepted, commits', pager)
  /\ UNCHANGED <<now, historyVars>>

\* The maintenance loop: one transaction over all tables.
MaintenancePass ==
  /\ Maintain
  /\ RemoveCommits({c \in commits : c.at < DailyCutoff(now)})
  /\ UNCHANGED now

\* purge_box and purge_instance: both tables go by cascade.
Purge(gone) ==
  /\ PurgeOf(gone)
  /\ RemoveCommits({c \in commits : c.workspace \in gone})
  /\ UNCHANGED now

PurgeBox(tenant, box) == Purge(InstancesOf(tenant, {box}))

PurgeInstance(tenant, i) == Purge({j \in {i} : Owner[j].tenant = tenant})

\* A client of a tenant reads the activity of all its boxes or of one; an until that
\* lies further ahead than five minutes is refused.
ReadActivity ==
  /\ \/ \E t \in Tenants, boxes \in {Boxes} \cup {{b} : b \in Boxes} :
          \/ FirstPage(Sliding(InstancesOf(t, boxes), now))
          \/ \E range \in Ranges :
               /\ range[1] < range[2] /\ range[2] <= now + Ahead
               /\ FirstPage(Between(InstancesOf(t, boxes), range[1], range[2]))
     \/ NextPage(now)
     \/ LastPage
  /\ Fits(accepted, commits, pager')
  /\ UNCHANGED <<now, historyVars>>

Next ==
  \/ Tick
  \/ IngestMetrics
  \/ IngestGit
  \/ MaintenancePass
  \/ \E t \in Tenants, b \in Boxes : PurgeBox(t, b)
  \/ \E t \in Tenants, i \in Instances : PurgeInstance(t, i)
  \/ ReadActivity

Spec == Init /\ [][Next]_vars

-----------------------------------------------------------------------------
(* Properties *)

\* What a query should add up: the points that were accepted for its series.
Observed(s, len, b) == Total({p \in OfSeries(accepted, s) : BucketOf(p.at, len) = b})

\* All rows within the daily retention.
Everything(clock) == MetricSource(clock, DailyCutoff(clock), MaxTime + Ahead)

\* Days of a series that a point older than the raw retention has come for.
Disturbed(s, day) == \E p \in OfSeries(accepted, s) : p.late /\ DayOf(p.at) = day

\* A pass has not moved the boundaries that a query computed at this clock.
Undisturbed(clock) ==
  maintained > 0 => /\ RawCutoff(maintained) <= RawCutoff(clock)
                    /\ HourlyCutoff(maintained) <= HourlyCutoff(clock)
                    /\ DailyCutoff(maintained) <= DailyCutoff(clock)

\* What the clock of a query in progress can have read.
Clocks == {t \in MinTime .. now : (t - MinTime) % Step = 0}

\* A query never misses a point, however late maintenance runs and however long
\* ago the query read its clock, as long as no pass has moved the boundaries
\* since (_metric_source against _maintain_sync).
NothingMissing ==
  \A clock \in {c \in Clocks : Undisturbed(c)} :
    LET source == Everything(clock)
    IN \A p \in Since(accepted, DailyCutoff(clock)) :
         LET day == DayOf(p.at)
         IN Disturbed(p.series, day) \/ BucketTotal(source, {p.series}, DayLen, day)
                                          >= Observed(p.series, DayLen, day)

\* Between passes a query counts twice at most the points that have reached the
\* age of raw retention since the last pass, and no other.
OnlyOverlapRepeats ==
  LET source  == Everything(now)
      overlap == {p \in points : p.at < RawCutoff(now)}
  IN \A r \in source :
       LET s   == r.series
           day == DayOf(r.at)
       IN Disturbed(s, day) \/ BucketTotal(source, {s}, DayLen, day)
            <= Observed(s, DayLen, day) + BucketTotal(overlap, {s}, DayLen, day)

\* In the hour of a pass the series of a dashboard are exact, by days over the
\* whole retention and by hours over that of the hourly rollups: no retention
\* boundary, rollup, repeated delivery or purge loses or repeats a point.
SeriesExactAfterMaintenance ==
  maintained = HourOf(now) =>
    LET source == Everything(now)
    IN \A r \in Since(source \cup accepted, DailyCutoff(now)) :
         LET s == r.series
         IN \/ Disturbed(s, DayOf(r.at))
            \/ /\ BucketTotal(source, {s}, DayLen, DayOf(r.at))
                    = Observed(s, DayLen, DayOf(r.at))
               /\ r.at >= HourlyCutoff(now) =>
                    BucketTotal(source, {s}, HourLen, HourOf(r.at))
                      = Observed(s, HourLen, HourOf(r.at))

\* In the hour of a pass a tenant's summary over the whole retention, for all its
\* boxes or for one, is what its own workspaces have reported: a box of the same
\* name of another tenant adds nothing, and no retention boundary moves a total
\* (_summary_core, _metric_dimension_filter).
SummariesAreExact ==
  maintained = HourOf(now) =>
    \A t \in Tenants, boxes \in {Boxes} \cup {{b} : b \in Boxes} :
      LET since == DailyCutoff(now)
          until == now + Ahead
          own   == {p \in Since(accepted, since) :
                      LET owner == Owner[InstanceOf[p.series]]
                      IN owner.tenant = t /\ owner.box \in boxes}
      IN \/ \E p \in own : p.late
         \/ Summary(now, since, until, Selected(t, boxes)) = Total(own)

\* The growth of a counter: the highest reading since each of its starts.
Growth(rows) ==
  LET starts == {p.start : p \in rows}
      Top(start) == Max({p.raw : p \in {q \in rows : q.start = start}})
  IN MapThenSumSet(Top, starts)

\* However readings of a counter arrive, their values add up to no less than the
\* counter has grown (_effective_value).
CountersNeverUndercount ==
  \A s \in Cumulative :
    Total(OfSeries(accepted, s)) >= Growth(OfSeries(accepted, s))

\* A reading that is newer than all others, while the one before it is still
\* stored, adds exactly what the counter has grown, also after older readings
\* have come late.
InOrderReadingsAreExact ==
  [][\A s \in Cumulative :
       LET before == OfSeries(accepted, s)
           after  == OfSeries(accepted', s)
           latest == {p \in before : \A q \in before : q.at <= p.at}
       IN (/\ latest \subseteq points
           /\ before \subseteq after
           /\ \A p \in after \ before, q \in before : q.at < p.at)
          => Total(after) - Total(before) = Growth(after) - Growth(before)]_vars
=============================================================================
