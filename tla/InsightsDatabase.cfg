\* Days of two hours of two ticks; raw points and hours are kept for one day, days
\* for two; a counter's readings come up to one and a half days late.  Points and
\* commits, which share no table, do not meet.
SPECIFICATION Spec
CONSTANTS
  a = a
  b = b
  box = box
  i1 = i1
  i2 = i2
  requests = requests
  tokens = tokens
  Series = {requests, tokens}
  Cumulative = {tokens}
  Instances = {i1, i2}
  InstanceOf <- MCInstanceOf
  Tenants = {a, b}
  Boxes = {box}
  Owner <- MCOwner
  HourLen = 2
  DayLen = 4
  RawDays = 1
  HourlyDays = 1
  DailyDays = 2
  Ages <- MCAges
  Ahead = 1
  MinTime = 5
  Step = 2
  MaxTime = 9
  Counters <- MCCounters
  Limit <- MCLimit
  MaxPoints = 3
  MaxCommits = 3
  MaxMix = 0
  Workspaces = {i1, i2}
  Repositories = {i1, i2}
  Shas = {s1, s2}
  CommitAges = {0, 6}
  PageSize = 1
  Span = 9
  Ranges <- MCRanges
  MaxId = 4
  Nobody = Nobody
SYMMETRY Symmetry
INVARIANTS
  TypeOK
  NothingMissing
  OnlyOverlapRepeats
  SeriesExactAfterMaintenance
  SummariesAreExact
  CountersNeverUndercount
  PagesAreComplete
PROPERTIES
  InOrderReadingsAreExact
  NoRowShownTwice
CHECK_DEADLOCK FALSE
