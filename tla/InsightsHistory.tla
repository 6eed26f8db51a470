-------------------------- MODULE InsightsHistory ---------------------------
(* Metric history in the controller's database: points, hourly and daily     *)
(* rollups, retention, and the totals that queries read from the three.      *)
(* One batch carries one point here: a batch is one transaction, in which    *)
(* points are inserted one by one.  A series is the dimensions of a metric;  *)
(* what names it (provider, model, unit, attributes) is abstracted to it.    *)
(* Writers hold _writer_lock and BEGIN IMMEDIATE, so each is one step.        *)
EXTENDS Integers, FiniteSets, FiniteSetsExt

CONSTANTS
  Series,      \* metric_series, by series_hash
  Cumulative,  \* the series of cumulative, monotonic sums
  Instances, InstanceOf,    \* the workspace a series comes from
  Tenants, Boxes, Owner,    \* Owner[i]: tenant and box name of an instance
  HourLen, DayLen,          \* an hour and a day in ticks of the clock
  RawDays, HourlyDays, DailyDays,
  Ages,        \* Ages[s]: how old a point may be when it is delivered
  Ahead,       \* how far a workspace's clock may be ahead of the controller's
  Counters,    \* starts and readings that counters have
  MinTime, Step, MaxTime   \* clock readings of the instance

VARIABLES
  now,
  points,      \* metric_points
  hourly,      \* metric_rollups_hourly
  daily,       \* metric_rollups_daily
  ledger,      \* ingest_batches, as the points that came in them
  accepted,    \* history: every point that was inserted and not purged
  maintained   \* history: the hour in which maintenance last ran, or 0

historyVars == <<points, hourly, daily, ledger, accepted, maintained>>

\* settings_are_consistent.
RetentionAssumption ==
  /\ {HourLen, DayLen, RawDays, HourlyDays, DailyDays} \subseteq Nat \ {0}
  /\ DayLen % HourLen = 0
  /\ RawDays <= HourlyDays /\ HourlyDays <= DailyDays

ASSUME RetentionAssumption

\* Workspaces have one instance each; a counter and its start are not negative;
\* _point_time accepts times that are ahead by five minutes; the controller's
\* clock counts from long ago.
HistoryAssumption ==
  /\ InstanceOf \in [Series -> Instances]
  /\ Counters \subseteq Nat \X Nat
  /\ Ahead \in Nat
  /\ \A s \in Series : \A age \in Ages[s] : age \in Int /\ age >= -Ahead
  /\ {MinTime, Step, MaxTime} \subseteq Nat
  /\ HourLen <= MinTime /\ MinTime <= MaxTime

ASSUME HistoryAssumption

-----------------------------------------------------------------------------
(* Rows *)

\* The start of the bucket of a length that an instant is in.
BucketOf(t, len) == t - (t % len)

HourOf(t) == BucketOf(t, HourLen)
DayOf(t)  == BucketOf(t, DayLen)

Point == [series : Series, at : Int, start : Nat, raw : Nat, value : Nat,
          received : MinTime .. MaxTime, late : BOOLEAN]

Rollup == [series : Series, at : Int, value : Nat]

HistoryTypeOK ==
  /\ accepted \in SUBSET Point
  /\ points \subseteq accepted
  /\ ledger \in SUBSET Point
  /\ hourly \in SUBSET Rollup
  /\ daily \in SUBSET Rollup
  /\ maintained \in {0} \cup {HourOf(t) : t \in MinTime .. now}

HistoryInit ==
  /\ points = {} /\ hourly = {} /\ daily = {} /\ ledger = {}
  /\ accepted = {}
  /\ maintained = 0

Total(rows) == MapThenSumSet(LAMBDA r : r.value, rows)

OfSeries(rows, s) == {r \in rows : r.series = s}

\* Two rows of one observation: what the fingerprints of batch and point cover.
Same(p, q) ==
  <<p.series, p.at, p.start, p.raw>> = <<q.series, q.at, q.start, q.raw>>

RawCutoff(t)    == HourOf(t - RawDays * DayLen)
HourlyCutoff(t) == DayOf(t - HourlyDays * DayLen)
DailyCutoff(t)  == DayOf(t - DailyDays * DayLen)

-----------------------------------------------------------------------------
(* Ingest *)

\* Faulty: the reading that arrived last is taken for the latest one.
PreviousArrival(s) ==
  {q \in OfSeries(points, s) :
     \A r \in OfSeries(points, s) : r.received <= q.received}

\* The stored reading with the latest observed_at.
Previous(s) ==
  {q \in OfSeries(points, s) : \A r \in OfSeries(points, s) : r.at <= q.at}

\* Faulty: a counter that restarted is compared with its former self.
EffectiveAcrossRestarts(p) ==
  LET base == {q.raw : q \in {r \in Previous(p.series) : r.raw <= p.raw}}
  IN IF p.series \in Cumulative /\ base # {} THEN p.raw - Max(base) ELSE p.raw

\* Faulty: a counter that falls counts backwards.
EffectiveBelowZero(p) ==
  LET base == {q.raw : q \in {r \in Previous(p.series) : r.start = p.start}}
  IN IF p.series \in Cumulative /\ base # {} THEN p.raw - Max(base) ELSE p.raw

\* _effective_value: the increase since the previous reading, or the whole
\* reading when there is none, the counter restarted, or it fell.
EffectiveValue(p) ==
  LET base == {q.raw : q \in {r \in Previous(p.series) :
                                r.start = p.start /\ r.raw <= p.raw}}
  IN IF p.series \in Cumulative /\ base # {} THEN p.raw - Max(base) ELSE p.raw

\* Reading p can come before q: a counter grows until it restarts.
Before(p, q) ==
  /\ p.at < q.at
  /\ p.start < q.start \/ (p.start = q.start /\ p.raw <= q.raw)

\* What a workspace can report: one reading of a series at an instant; delta
\* points have value 1 here.
Plausible(p) ==
  /\ p.series \notin Cumulative => <<p.start, p.raw>> = <<0, 1>>
  /\ \A q \in OfSeries(accepted, p.series) :
       Same(p, q) \/ Before(p, q) \/ Before(q, p)

\* _insert_otlp: INSERT OR IGNORE by the fingerprint of the point, and the batch.
Insert(p) ==
  LET row == [series |-> p.series, at |-> p.at, start |-> p.start, raw |-> p.raw,
              value |-> EffectiveValue(p), received |-> now,
              late |-> maintained > 0 /\ p.at < RawCutoff(maintained)]
      new == {r \in {row} : \A q \in points : ~Same(r, q)}
  IN /\ points' = points \cup new
     /\ accepted' = accepted \cup new
     /\ ledger' = ledger \cup {row}

Duplicate(p) == \E q \in ledger : Same(p, q)

\* _ingest_sync of a metric batch, delivered for the first time or again.
Ingest(p) ==
  /\ \/ Duplicate(p) /\ UNCHANGED historyVars
     \/ /\ ~Duplicate(p)
        /\ Insert(p)
        /\ UNCHANGED <<hourly, daily, maintained>>

-----------------------------------------------------------------------------
(* Maintenance and purge *)

\* GROUP BY series and bucket.
Grouped(rows, len) ==
  {[series |-> k[1], at |-> k[2],
    value |-> Total({r \in rows : <<r.series, BucketOf(r.at, len)>> = k})] :
      k \in {<<r.series, BucketOf(r.at, len)>> : r \in rows}}

\* Faulty: an hour that has a rollup keeps it.
Keep(table, rows) ==
  table \cup {n \in rows : \A r \in table : <<n.series, n.at>> # <<r.series, r.at>>}

\* ON CONFLICT(series_id, bucket_start) DO UPDATE.
Upsert(table, rows) == Keep(rows, table)

Since(rows, t) == {r \in rows : r.at >= t}

\* Faulty: hours are deleted in the middle of a day.
MaintainMidDay ==
  LET hours == Upsert(hourly, Grouped(Since(points, DailyCutoff(now)), HourLen))
      days  == Upsert(daily, Grouped(Since(hours, DailyCutoff(now)), DayLen))
  IN /\ points' = Since(points, RawCutoff(now))
     /\ ledger' = {b \in ledger : b.received >= RawCutoff(now)}
     /\ hourly' = Since(hours, HourOf(now - HourlyDays * DayLen))
     /\ daily'  = Since(days, DailyCutoff(now))
     /\ maintained' = HourOf(now)
     /\ UNCHANGED accepted

\* _maintain_sync, one transaction: hours are rebuilt from the points there are,
\* days from the hours there are, and then each table loses what is too old.
Maintain ==
  LET hours == Upsert(hourly, Grouped(Since(points, DailyCutoff(now)), HourLen))
      days  == Upsert(daily, Grouped(Since(hours, DailyCutoff(now)), DayLen))
  IN /\ points' = Since(points, RawCutoff(now))
     /\ ledger' = {b \in ledger : b.received >= RawCutoff(now)}
     /\ hourly' = Since(hours, HourlyCutoff(now))
     /\ daily'  = Since(days, DailyCutoff(now))
     /\ maintained' = HourOf(now)
     /\ UNCHANGED accepted

\* Deleting an instance deletes its series, points, rollups and batches.
PurgeOf(gone) ==
  LET Kept(rows) == {r \in rows : InstanceOf[r.series] \notin gone}
  IN /\ points' = Kept(points) /\ hourly' = Kept(hourly) /\ daily' = Kept(daily)
     /\ ledger' = Kept(ledger)
     /\ accepted' = Kept(accepted)
     /\ UNCHANGED maintained

-----------------------------------------------------------------------------
(* Queries *)

\* Faulty: rollups are read up to the present, next to the points.
MetricSourceToNow(clock, since, until) ==
  {[table |-> "raw", series |-> p.series, at |-> p.at, value |-> p.value] :
     p \in {p \in points : p.at >= since /\ p.at <= until}}
  \cup {[table |-> "hourly", series |-> r.series, at |-> r.at, value |-> r.value] :
     r \in {r \in hourly : r.at >= Max({since, HourlyCutoff(clock)}) /\ r.at < until}}

\* _metric_source at a clock reading: points, the hours before those, and the
\* days before those.  A bucket that starts at until is not read: as text its
\* start does not sort before the microsecond added to until.
MetricSource(clock, since, until) ==
  {[table |-> "raw", series |-> p.series, at |-> p.at, value |-> p.value] :
     p \in {p \in points : p.at >= since /\ p.at <= until}}
  \cup {[table |-> "hourly", series |-> r.series, at |-> r.at, value |-> r.value] :
     r \in {r \in hourly : /\ r.at >= Max({since, HourlyCutoff(clock)})
                           /\ r.at < Min({until, RawCutoff(clock)})}}
  \cup {[table |-> "daily", series |-> r.series, at |-> r.at, value |-> r.value] :
     r \in {r \in daily : /\ r.at >= Max({since, DailyCutoff(clock)})
                          /\ r.at < Min({until, HourlyCutoff(clock)})}}

\* _metric_dimension_filter and _git_filter: what a tenant asks for.
InstancesOf(tenant, boxes) ==
  {i \in Instances : Owner[i].tenant = tenant /\ Owner[i].box \in boxes}

\* Faulty: a box is looked up by its name alone.
SelectedByName(tenant, boxes) == {s \in Series : Owner[InstanceOf[s]].box \in boxes}

Selected(tenant, boxes) == {s \in Series : InstanceOf[s] \in InstancesOf(tenant, boxes)}

\* _timeseries_sync: the value of one bucket of the series of a query.
BucketTotal(source, selected, len, b) ==
  Total({r \in source : r.series \in selected /\ BucketOf(r.at, len) = b})

\* _summary_core: the total of a metric.
Summary(clock, since, until, selected) ==
  Total({r \in MetricSource(clock, since, until) : r.series \in selected})
=============================================================================
