--------------------------- MODULE HistoryProofs ---------------------------
(* Proofs about metric history: what queries of points and rollups add up to, *)
(* with any series, retention, passes and purges, and what counters come to.  *)
EXTENDS ActivityProofs

-----------------------------------------------------------------------------
(* Buckets: an hour or a day starts at a multiple of its length.              *)

LEMMA DivMod ==
  ASSUME NEW t \in Int, NEW n \in Nat \ {0}
  PROVE  /\ t % n \in 0 .. n - 1
         /\ t \div n \in Int
         /\ t = (t \div n) * n + (t % n)
OBVIOUS

LEMMA BucketBounds ==
  ASSUME NEW t \in Int, NEW n \in Nat \ {0}
  PROVE  /\ BucketOf(t, n) \in Int
         /\ BucketOf(t, n) <= t /\ t < BucketOf(t, n) + n
         /\ \E q \in Int : BucketOf(t, n) = q * n
<1>1. BucketOf(t, n) = (t \div n) * n
  BY DivMod DEF BucketOf
<1>2. t \div n \in Int /\ t % n \in 0 .. n - 1
  BY DivMod
<1>3. BucketOf(t, n) = t - (t % n)
  BY DEF BucketOf
<1>4. BucketOf(t, n) \in Int /\ BucketOf(t, n) <= t /\ t < BucketOf(t, n) + n
  BY <1>2, <1>3
<1> QED
  BY <1>1, <1>2, <1>4

LEMMA BucketIs ==
  ASSUME NEW t \in Int, NEW n \in Nat \ {0}, NEW i \in Int,
         i * n <= t, t < i * n + n
  PROVE  BucketOf(t, n) = i * n
<1>1. PICK q \in Int : BucketOf(t, n) = q * n
  BY BucketBounds
<1>2. q * n <= t /\ t < q * n + n
  BY <1>1, BucketBounds
<1>3. CASE q < i
  <2>1. (q + 1) * n <= i * n
    BY <1>3
  <2>2. (q + 1) * n = q * n + n
    OBVIOUS
  <2> QED
    BY <1>2, <2>1, <2>2
<1>4. CASE i < q
  <2>1. (i + 1) * n <= q * n
    BY <1>4
  <2>2. (i + 1) * n = i * n + n
    OBVIOUS
  <2> QED
    BY <1>2, <2>1, <2>2
<1> QED
  BY <1>1, <1>3, <1>4

\* An aligned instant is not after t exactly when it is not after t's bucket.
LEMMA AlignedBefore ==
  ASSUME NEW t \in Int, NEW n \in Nat \ {0}, NEW c \in Int, BucketOf(c, n) = c
  PROVE  c <= t <=> c <= BucketOf(t, n)
<1>1. PICK q \in Int : BucketOf(t, n) = q * n
  BY BucketBounds
<1>2. q * n <= t /\ t < q * n + n
  BY <1>1, BucketBounds
<1>3. PICK i \in Int : c = i * n
  BY BucketBounds
<1>4. ASSUME c <= t PROVE i <= q
  <2> SUFFICES ASSUME q < i PROVE FALSE
    OBVIOUS
  <2>1. (q + 1) * n <= i * n
    OBVIOUS
  <2>2. (q + 1) * n = q * n + n
    OBVIOUS
  <2> QED
    BY <1>2, <1>3, <1>4, <2>1, <2>2
<1>5. ASSUME i <= q PROVE i * n <= q * n
  BY <1>5
<1> QED
  BY <1>1, <1>2, <1>3, <1>4, <1>5

LEMMA BucketAligned ==
  ASSUME NEW t \in Int, NEW n \in Nat \ {0}
  PROVE  BucketOf(BucketOf(t, n), n) = BucketOf(t, n)
<1>1. PICK q \in Int : BucketOf(t, n) = q * n
  BY BucketBounds
<1>2. q * n \in Int /\ q * n < q * n + n
  OBVIOUS
<1>3. BucketOf(q * n, n) = q * n
  BY <1>2, BucketIs
<1> QED
  BY <1>1, <1>3

LEMMA BucketMonotone ==
  ASSUME NEW t \in Int, NEW u \in Int, NEW n \in Nat \ {0}, t <= u
  PROVE  BucketOf(t, n) <= BucketOf(u, n)
<1>1. BucketOf(t, n) \in Int /\ BucketOf(t, n) <= u
  BY BucketBounds
<1> QED
  BY <1>1, BucketAligned, AlignedBefore
LEMMA BucketShift ==
  ASSUME NEW t \in Int, NEW n \in Nat \ {0}, NEW i \in Int
  PROVE  BucketOf(t + i * n, n) = BucketOf(t, n) + i * n
<1>1. PICK q \in Int : BucketOf(t, n) = q * n
  BY BucketBounds
<1>2. q * n <= t /\ t < q * n + n
  BY <1>1, BucketBounds
<1>3. (q + i) * n = q * n + i * n
  OBVIOUS
<1>4. i * n \in Int /\ q * n \in Int /\ t + i * n \in Int /\ q + i \in Int
  OBVIOUS
<1>5. (q + i) * n <= t + i * n /\ t + i * n < (q + i) * n + n
  BY <1>2, <1>3, <1>4
<1>6. BucketOf(t + i * n, n) = (q + i) * n
  BY <1>4, <1>5, BucketIs
<1> QED
  BY <1>1, <1>3, <1>6

\* A day is a number of hours.
LEMMA DayIsHours == \E r \in Int : r > 0 /\ DayLen = r * HourLen
<1>1. HourLen \in Nat \ {0} /\ DayLen \in Nat \ {0} /\ DayLen % HourLen = 0
  BY RetentionAssumption DEF RetentionAssumption
<1>2. DayLen \div HourLen \in Int /\ DayLen = (DayLen \div HourLen) * HourLen
  BY <1>1, DivMod
<1>3. PICK r \in Int : DayLen = r * HourLen
  BY <1>2
<1>4. r > 0
  <2> SUFFICES ASSUME r <= 0 PROVE FALSE
    BY <1>3
  <2>1. r * HourLen <= 0 * HourLen
    BY <1>1
  <2> QED
    BY <1>1, <1>3, <2>1
<1> QED
  BY <1>3, <1>4

\* Hours and days lie around an instant, and begin at themselves.
LEMMA HoursAndDays ==
  ASSUME NEW t \in Int
  PROVE  /\ HourOf(t) \in Int /\ HourOf(t) <= t /\ t < HourOf(t) + HourLen
         /\ DayOf(t) \in Int /\ DayOf(t) <= t /\ t < DayOf(t) + DayLen
         /\ HourOf(HourOf(t)) = HourOf(t) /\ DayOf(DayOf(t)) = DayOf(t)
BY BucketBounds, BucketAligned, RetentionAssumption DEF HourOf, DayOf, RetentionAssumption

LEMMA HoursAndDaysGrow ==
  ASSUME NEW t \in Int, NEW u \in Int, t <= u
  PROVE  HourOf(t) <= HourOf(u) /\ DayOf(t) <= DayOf(u)
BY BucketMonotone, RetentionAssumption DEF HourOf, DayOf, RetentionAssumption

\* A day begins with an hour, and an hour lies in one day.
LEMMA HoursOfDays ==
  ASSUME NEW t \in Int
  PROVE  /\ HourOf(DayOf(t)) = DayOf(t)
         /\ DayOf(HourOf(t)) = DayOf(t)
<1>0. HourLen \in Nat \ {0} /\ DayLen \in Nat \ {0}
  BY RetentionAssumption DEF RetentionAssumption
<1>1. PICK r \in Int : r > 0 /\ DayLen = r * HourLen
  BY DayIsHours
<1>2. PICK q \in Int : DayOf(t) = q * DayLen
  BY <1>0, BucketBounds DEF DayOf
<1>3. DayOf(t) = (q * r) * HourLen
  BY <1>0, <1>1, <1>2
<1>4. q * r \in Int /\ DayOf(t) \in Int
  BY <1>1, HoursAndDays
<1>5. HourOf(DayOf(t)) = DayOf(t)
  BY <1>0, <1>3, <1>4, BucketIs DEF HourOf
<1>6. DayOf(t) <= HourOf(t)
  BY <1>5, HoursAndDays, HoursAndDaysGrow
<1>7. HourOf(t) <= t /\ HourOf(t) \in Int /\ t < DayOf(t) + DayLen
  BY HoursAndDays
<1>8. DayOf(HourOf(t)) = DayOf(t)
  BY <1>0, <1>2, <1>4, <1>6, <1>7, BucketIs DEF DayOf
<1> QED
  BY <1>5, <1>8

Lengths ==
  /\ HourLen \in Nat \ {0} /\ DayLen \in Nat \ {0}
  /\ RawDays * DayLen \in Nat \ {0}
  /\ RawDays * DayLen <= HourlyDays * DayLen
  /\ HourlyDays * DayLen <= DailyDays * DayLen
  /\ HourlyDays * DayLen \in Nat /\ DailyDays * DayLen \in Nat

LEMMA LengthsHold == Lengths
<1>1. {HourLen, DayLen, RawDays, HourlyDays, DailyDays} \subseteq Nat \ {0}
  BY RetentionAssumption DEF RetentionAssumption
<1>2. RawDays <= HourlyDays /\ HourlyDays <= DailyDays
  BY RetentionAssumption DEF RetentionAssumption
<1>3. /\ RawDays * DayLen \in Nat /\ HourlyDays * DayLen \in Nat
      /\ DailyDays * DayLen \in Nat
  BY <1>1
<1>4. 1 * DayLen <= RawDays * DayLen
  BY <1>1
<1>5. /\ RawDays * DayLen <= HourlyDays * DayLen
      /\ HourlyDays * DayLen <= DailyDays * DayLen
  BY <1>1, <1>2
<1> QED
  BY <1>1, <1>3, <1>4, <1>5 DEF Lengths

\* Each cutoff begins an hour or a day, and older rows have coarser tables.
LEMMA Cutoffs ==
  ASSUME NEW t \in Int
  PROVE  /\ RawCutoff(t) \in Int /\ HourlyCutoff(t) \in Int /\ DailyCutoff(t) \in Int
         /\ HourOf(RawCutoff(t)) = RawCutoff(t)
         /\ DayOf(HourlyCutoff(t)) = HourlyCutoff(t)
         /\ HourOf(HourlyCutoff(t)) = HourlyCutoff(t)
         /\ DayOf(DailyCutoff(t)) = DailyCutoff(t)
         /\ HourOf(DailyCutoff(t)) = DailyCutoff(t)
         /\ DailyCutoff(t) <= HourlyCutoff(t)
         /\ HourlyCutoff(t) <= RawCutoff(t)
         /\ RawCutoff(t) <= t
<1> DEFINE r == t - RawDays * DayLen
           h == t - HourlyDays * DayLen
           d == t - DailyDays * DayLen
<1>1. r \in Int /\ h \in Int /\ d \in Int /\ d <= h /\ h <= r /\ r <= t
  BY LengthsHold DEF Lengths
<1>2. RawCutoff(t) = HourOf(r) /\ HourlyCutoff(t) = DayOf(h) /\ DailyCutoff(t) = DayOf(d)
  BY DEF RawCutoff, HourlyCutoff, DailyCutoff
<1> HIDE DEF r, h, d
<1>3. /\ HourOf(r) \in Int /\ DayOf(h) \in Int /\ DayOf(d) \in Int
      /\ HourOf(r) <= r /\ HourOf(HourOf(r)) = HourOf(r)
      /\ DayOf(DayOf(h)) = DayOf(h) /\ DayOf(DayOf(d)) = DayOf(d) /\ DayOf(h) <= h
  BY <1>1, HoursAndDays
<1>4. HourOf(DayOf(h)) = DayOf(h) /\ HourOf(DayOf(d)) = DayOf(d)
  BY <1>1, HoursOfDays
<1>5. DayOf(d) <= DayOf(h)
  BY <1>1, HoursAndDaysGrow
<1>6. HourOf(DayOf(h)) <= HourOf(r)
  BY <1>1, <1>3, HoursAndDaysGrow
<1> QED
  BY <1>1, <1>2, <1>3, <1>4, <1>5, <1>6

LEMMA CutoffsGrow ==
  ASSUME NEW t \in Int, NEW u \in Int, t <= u
  PROVE  /\ RawCutoff(t) <= RawCutoff(u)
         /\ HourlyCutoff(t) <= HourlyCutoff(u)
         /\ DailyCutoff(t) <= DailyCutoff(u)
<1>1. ASSUME NEW k \in Nat PROVE t - k \in Int /\ u - k \in Int /\ t - k <= u - k
  OBVIOUS
<1>2. /\ HourOf(t - RawDays * DayLen) <= HourOf(u - RawDays * DayLen)
      /\ DayOf(t - HourlyDays * DayLen) <= DayOf(u - HourlyDays * DayLen)
      /\ DayOf(t - DailyDays * DayLen) <= DayOf(u - DailyDays * DayLen)
  BY <1>1, LengthsHold, HoursAndDaysGrow DEF Lengths
<1> QED
  BY <1>2 DEF RawCutoff, HourlyCutoff, DailyCutoff

\* Cutoffs do not move within an hour.
LEMMA CutoffsOfHour ==
  ASSUME NEW t \in Int
  PROVE  /\ RawCutoff(HourOf(t)) = RawCutoff(t)
         /\ HourlyCutoff(HourOf(t)) = HourlyCutoff(t)
         /\ DailyCutoff(HourOf(t)) = DailyCutoff(t)
<1>0. /\ {HourLen, DayLen, RawDays, HourlyDays, DailyDays} \subseteq Nat \ {0}
      /\ HourLen \in Nat \ {0} /\ DayLen \in Nat \ {0}
  BY RetentionAssumption DEF RetentionAssumption
<1>1. PICK r \in Int : r > 0 /\ DayLen = r * HourLen
  BY DayIsHours
<1>2. HourOf(t) \in Int /\ HourOf(HourOf(t)) = HourOf(t) /\ DayOf(HourOf(t)) = DayOf(t)
  BY HoursAndDays, HoursOfDays
<1>3. ASSUME NEW k \in Nat
      PROVE  DayOf(HourOf(t) - k * DayLen) = DayOf(t - k * DayLen)
  <2>1. -k \in Int /\ (-k) * DayLen = -(k * DayLen) /\ k * DayLen \in Int
    BY <1>0
  <2>2. /\ DayOf(HourOf(t) + (-k) * DayLen) = DayOf(HourOf(t)) + (-k) * DayLen
        /\ DayOf(t + (-k) * DayLen) = DayOf(t) + (-k) * DayLen
    BY <1>0, <1>2, <2>1, BucketShift DEF DayOf
  <2>3. /\ HourOf(t) + (-k) * DayLen = HourOf(t) - k * DayLen
        /\ t + (-k) * DayLen = t - k * DayLen
    BY <1>2, <2>1
  <2> QED
    BY <1>2, <2>2, <2>3
<1>4. HourOf(HourOf(t) - RawDays * DayLen) = HourOf(t - RawDays * DayLen)
  <2> DEFINE i == -(RawDays * r)
  <2>1. i \in Int /\ i * HourLen = -(RawDays * DayLen) /\ RawDays * DayLen \in Int
    BY <1>0, <1>1
  <2> HIDE DEF i
  <2>2. /\ HourOf(HourOf(t) + i * HourLen) = HourOf(HourOf(t)) + i * HourLen
        /\ HourOf(t + i * HourLen) = HourOf(t) + i * HourLen
    BY <1>0, <1>2, <2>1, BucketShift DEF HourOf
  <2>3. /\ HourOf(t) + i * HourLen = HourOf(t) - RawDays * DayLen
        /\ t + i * HourLen = t - RawDays * DayLen
    BY <1>2, <2>1
  <2> QED
    BY <1>2, <2>2, <2>3
<1> QED
  BY <1>0, <1>3, <1>4 DEF RawCutoff, HourlyCutoff, DailyCutoff

-----------------------------------------------------------------------------
(* Totals.                                                                    *)

\* The sum over these rows exists.
Summable(rows) == IsFiniteSet(rows) /\ \A r \in rows : r.value \in Nat

Values(rows) == [r \in rows |-> r.value]

LEMMA TotalIsFold ==
  ASSUME NEW rows
  PROVE  Total(rows) = (CHOOSE iter : iter = [s \in SUBSET rows |->
            IF s = {} THEN 0
            ELSE (CHOOSE x \in s : TRUE).value + iter[s \ {CHOOSE x \in s : TRUE}]])[rows]
BY DEF Total, MapThenSumSet, MapThenFoldSet

\* A total, whatever order it is added up in.
LEMMA TotalCounts ==
  ASSUME NEW rows, Summable(rows)
  PROVE  Total(rows) = Weight(Values(rows), rows)
<1> DEFINE f == Values(rows)
           StepV(iter, T) == IF T = {} THEN 0
             ELSE (CHOOSE x \in T : TRUE).value + iter[T \ {CHOOSE x \in T : TRUE}]
           Good(iter) == iter = [s \in SUBSET rows |->
            IF s = {} THEN 0 ELSE (CHOOSE x \in s : TRUE).value + iter[s \ {CHOOSE x \in s : TRUE}]]
<1>1. ASSUME NEW iter, NEW T \in SUBSET rows PROVE FoldStep(f, iter, T) = StepV(iter, T)
  <2>1. CASE T = {}
    BY <2>1 DEF FoldStep
  <2>2. CASE T # {}
    <3>1. (CHOOSE x \in T : TRUE) \in T
      BY <2>2
    <3>2. f[CHOOSE x \in T : TRUE] = (CHOOSE x \in T : TRUE).value
      BY <3>1 DEF Values
    <3> QED
      BY <2>2, <3>2 DEF FoldStep
  <2> QED
    BY <2>1, <2>2
<1>2. IsFiniteSet(rows) /\ \A x \in rows : f[x] \in Nat
  BY DEF Values, Summable
<1>3. PICK one : IsFold(f, rows, one)
  <2> HIDE DEF f
  <2> QED
    BY <1>2, FoldExists
<1>4. one = [T \in SUBSET rows |-> FoldStep(f, one, T)]
  BY <1>3 DEF IsFold
<1>5. [T \in SUBSET rows |-> FoldStep(f, one, T)] = [T \in SUBSET rows |-> StepV(one, T)]
  <2> HIDE DEF StepV
  <2> QED
    BY <1>1
<1>6. Good(one)
  BY <1>4, <1>5
<1> DEFINE it == CHOOSE iter : Good(iter)
<1>7. Good(it)
  BY <1>6
<1>8. Total(rows) = it[rows]
  BY TotalIsFold
<1> HIDE DEF it
<1>9. \A T \in SUBSET rows : it[T] = StepV(it, T)
  BY <1>7
<1>10. \A T \in SUBSET rows : it[T] = FoldStep(f, it, T)
  <2> HIDE DEF StepV
  <2> QED
    BY <1>1, <1>9
<1> HIDE DEF f
<1>11. it[rows] = Cardinality(Units(f, rows))
  BY <1>2, <1>10, FoldCounts DEF FoldStep
<1> QED
  BY <1>8, <1>11 DEF f, Weight

LEMMA SummablePart ==
  ASSUME NEW S, Summable(S), NEW T \in SUBSET S
  PROVE  Summable(T)
BY FS_Subset DEF Summable

LEMMA SummableUnion ==
  ASSUME NEW S, Summable(S), NEW T, Summable(T)
  PROVE  Summable(S \cup T)
BY FS_Union DEF Summable

LEMMA TotalType == ASSUME NEW S, Summable(S) PROVE Total(S) \in Nat
<1>1. IsFiniteSet(S) /\ \A x \in S : Values(S)[x] \in Nat
  BY DEF Summable, Values
<1> QED
  BY <1>1, TotalCounts, WeightType

LEMMA TotalIsWeight ==
  ASSUME NEW S, Summable(S), NEW f, \A x \in S : f[x] = x.value
  PROVE  Total(S) = Weight(f, S)
<1>1. \A x \in S : Values(S)[x] = f[x]
  BY DEF Values
<1> QED
  BY <1>1, TotalCounts, WeightOfSame

LEMMA TotalOfNone == Summable({}) /\ Total({}) = 0
<1>1. Summable({})
  BY FS_EmptySet DEF Summable
<1> QED
  BY <1>1, TotalCounts, WeightOfNone

LEMMA TotalOfOne ==
  ASSUME NEW x, x.value \in Nat
  PROVE  Summable({x}) /\ Total({x}) = x.value
<1>1. Summable({x})
  BY FS_Singleton DEF Summable
<1>2. Values({x})[x] = x.value
  BY DEF Values
<1>3. Weight(Values({x}), {x}) = Values({x})[x]
  BY <1>2, WeightOfOne
<1> QED
  BY <1>1, <1>2, <1>3, TotalCounts

LEMMA TotalOfUnion ==
  ASSUME NEW S, Summable(S), NEW T, Summable(T), S \cap T = {}
  PROVE  Total(S \cup T) = Total(S) + Total(T)
<1> DEFINE f == Values(S \cup T)
<1>1. Summable(S \cup T)
  BY SummableUnion
<1>2. \A x \in S \cup T : f[x] = x.value /\ f[x] \in Nat
  BY <1>1 DEF Values, Summable
<1>3. IsFiniteSet(S) /\ IsFiniteSet(T)
  BY DEF Summable
<1> HIDE DEF f
<1>4. Weight(f, S \cup T) = Weight(f, S) + Weight(f, T)
  BY <1>2, <1>3, WeightOfUnion
<1>5. Total(S) = Weight(f, S) /\ Total(T) = Weight(f, T)
  BY <1>2, TotalIsWeight
<1>6. Total(S \cup T) = Weight(f, S \cup T)
  BY <1>1, <1>2, TotalIsWeight
<1> QED
  BY <1>4, <1>5, <1>6

LEMMA TotalOfPart ==
  ASSUME NEW S, Summable(S), NEW T \in SUBSET S
  PROVE  Total(T) <= Total(S)
<1>1. Summable(T) /\ Summable(S \ T)
  BY SummablePart
<1>2. Total(T) \in Nat /\ Total(S \ T) \in Nat
  BY <1>1, TotalType
<1>3. T \cap (S \ T) = {} /\ T \cup (S \ T) = S
  OBVIOUS
<1>4. Total(T \cup (S \ T)) = Total(T) + Total(S \ T)
  BY <1>1, <1>3, TotalOfUnion
<1>5. Total(S) = Total(T) + Total(S \ T)
  BY <1>3, <1>4, Zenon
<1> QED
  BY <1>2, <1>5

\* A row that is not in a set adds its value.
LEMMA TotalOfAdded ==
  ASSUME NEW S, Summable(S), NEW x, x.value \in Nat, x \notin S
  PROVE  Summable(S \cup {x}) /\ Total(S \cup {x}) = Total(S) + x.value
<1>1. Summable({x}) /\ Total({x}) = x.value
  BY TotalOfOne
<1>2. S \cap {x} = {}
  OBVIOUS
<1> QED
  BY <1>1, <1>2, TotalOfUnion, SummableUnion

\* Totals compare as those of their groups do.
LEMMA TotalByKey ==
  ASSUME NEW S, Summable(S), NEW k, NEW T, Summable(T), NEW l,
         \A x \in S : Total(Group(S, k, k[x])) <= Total(Group(T, l, k[x]))
  PROVE  Total(S) <= Total(T)
<1> DEFINE f == Values(S)
           g == Values(T)
<1>1. /\ IsFiniteSet(S) /\ \A x \in S : f[x] \in Nat /\ f[x] = x.value
      /\ IsFiniteSet(T) /\ \A y \in T : g[y] \in Nat /\ g[y] = y.value
  BY DEF Summable, Values
<1> HIDE DEF f, g
<1>2. ASSUME NEW x \in S
      PROVE  Weight(f, Group(S, k, k[x])) <= Weight(g, Group(T, l, k[x]))
  <2> DEFINE A == Group(S, k, k[x])
             B == Group(T, l, k[x])
  <2>0. A \in SUBSET S /\ B \in SUBSET T
    BY DEF Group
  <2>1. Summable(A) /\ Summable(B)
    BY <2>0, SummablePart
  <2>2. (\A z \in A : f[z] = z.value) /\ (\A y \in B : g[y] = y.value)
    BY <1>1, <2>0
  <2>3. Total(A) <= Total(B)
    OBVIOUS
  <2> HIDE DEF A, B
  <2>4. Total(A) = Weight(f, A) /\ Total(B) = Weight(g, B)
    BY <2>1, <2>2, TotalIsWeight
  <2> QED
    BY <2>3, <2>4 DEF A, B
<1>3. Weight(f, S) <= Weight(g, T)
  BY <1>1, <1>2, WeightByKey
<1>4. Total(S) = Weight(f, S) /\ Total(T) = Weight(g, T)
  BY <1>1, TotalIsWeight
<1> QED
  BY <1>3, <1>4

-----------------------------------------------------------------------------
(* The invariant.                                                             *)

\* The rows of a table for a series and a bucket.
At(table, s, b) == {r \in table : r.series = s /\ r.at = b}

\* What Observed adds up.
Within(s, len, b) == {p \in OfSeries(accepted, s) : BucketOf(p.at, len) = b}

\* Clock, types and finite tables; no point is further ahead than it may be.
TablesOK ==
  /\ now \in MinTime .. MaxTime
  /\ HistoryTypeOK
  /\ IsFiniteSet(accepted) /\ IsFiniteSet(hourly) /\ IsFiniteSet(daily)
  /\ \A p \in accepted : p.at <= now + Ahead

\* Readings of a series come in an order, and a stored one is stored once.
ReadingsOrdered ==
  /\ \A p, q \in accepted :
       p.series = q.series => Same(p, q) \/ Before(p, q) \/ Before(q, p)
  /\ \A p, q \in points : Same(p, q) => p = q

\* Points are gone only before the cutoff of the last pass, and the stored ones
\* before it came late.
PointsKept ==
  /\ \A p \in accepted :
       (maintained > 0 /\ p.at < RawCutoff(maintained)) \/ p \in points
  /\ \A p \in points : maintained > 0 /\ p.at < RawCutoff(maintained) => p.late

\* Rollups begin a bucket and come from a pass, which has cut them.
RollupsPlaced ==
  /\ \A r \in hourly : /\ maintained > 0 /\ HourOf(r.at) = r.at
                       /\ r.at >= HourlyCutoff(maintained)
  /\ \A r \in daily : /\ maintained > 0 /\ DayOf(r.at) = r.at
                      /\ r.at >= DailyCutoff(maintained)

\* An hour that is rolled up has no more than was observed, and no less once its
\* points are cut.
HourHolds(s, h) ==
  /\ Total(At(hourly, s, h)) <= Observed(s, HourLen, h)
  /\ h < RawCutoff(maintained) => Observed(s, HourLen, h) <= Total(At(hourly, s, h))

HoursHold ==
  maintained > 0 =>
    \A s \in Series, h \in Int :
      /\ HourOf(h) = h /\ h >= HourlyCutoff(maintained) /\ ~Disturbed(s, DayOf(h))
      => HourHolds(s, h)

\* Those of the points of a day that the last pass has cut.
CutWithin(s, d) == {p \in Within(s, DayLen, d) : p.at < RawCutoff(maintained)}

\* A day has no more than was observed, and no less than what is cut.
DayHolds(s, d) ==
  /\ Total(At(daily, s, d)) <= Observed(s, DayLen, d)
  /\ Total(CutWithin(s, d)) <= Total(At(daily, s, d))

DaysHold ==
  maintained > 0 =>
    \A s \in Series, d \in Int :
      /\ DayOf(d) = d /\ d >= DailyCutoff(maintained) /\ ~Disturbed(s, d)
      => DayHolds(s, d)

HistoryInv ==
  /\ TablesOK
  /\ ReadingsOrdered
  /\ PointsKept
  /\ RollupsPlaced
  /\ HoursHold
  /\ DaysHold

LEMMA ClockFacts ==
  ASSUME TablesOK
  PROVE  /\ now \in Nat /\ MinTime \in Nat /\ MaxTime \in Nat /\ Step \in Nat /\ Ahead \in Nat
         /\ now \in Int /\ now <= MaxTime /\ MinTime <= now
         /\ HourOf(now) \in Nat /\ HourOf(now) > 0 /\ HourOf(now) <= now
<1>1. /\ MinTime \in Nat /\ MaxTime \in Nat /\ Step \in Nat /\ Ahead \in Nat
      /\ HourLen \in Nat \ {0} /\ MinTime >= HourLen
  BY HistoryAssumption, LengthsHold DEF HistoryAssumption, Lengths
<1>2. now \in Nat /\ now <= MaxTime /\ MinTime <= now
  BY <1>1 DEF TablesOK
<1>3. 1 * HourLen <= now /\ HourLen = 1 * HourLen /\ HourLen < 1 * HourLen + HourLen
  BY <1>1, <1>2
<1>4. BucketOf(HourLen, HourLen) = 1 * HourLen
  BY <1>1, <1>3, BucketIs
<1>5. HourOf(HourLen) <= HourOf(now)
  BY <1>1, <1>2, <1>3, HoursAndDaysGrow
<1>6. HourOf(now) \in Int /\ HourOf(now) <= now
  BY <1>2, HoursAndDays
<1> QED
  BY <1>1, <1>2, <1>3, <1>4, <1>5, <1>6 DEF HourOf

LEMMA MaintainedFacts ==
  ASSUME TablesOK
  PROVE  /\ maintained \in Int /\ maintained >= 0 /\ maintained <= now
         /\ HourOf(maintained) = maintained \/ maintained = 0
<1>1. CASE maintained = 0
  BY <1>1, ClockFacts
<1>2. CASE maintained # 0
  <2>1. PICK t \in MinTime .. now : maintained = HourOf(t)
    BY <1>2 DEF TablesOK, HistoryTypeOK
  <2>2. MinTime \in Nat /\ now \in Nat /\ MinTime >= HourLen /\ HourLen \in Nat \ {0}
    BY ClockFacts, HistoryAssumption, LengthsHold DEF HistoryAssumption, Lengths
  <2>3. t \in Int /\ t <= now /\ t >= HourLen
    BY <2>1, <2>2
  <2>4. HourOf(t) \in Int /\ HourOf(t) <= t /\ HourOf(HourOf(t)) = HourOf(t) /\ t < HourOf(t) + HourLen
    BY <2>3, HoursAndDays
  <2> QED
    BY <2>1, <2>2, <2>3, <2>4
<1> QED
  BY <1>1, <1>2

\* The types of rows.
TypedRows ==
  /\ points \subseteq accepted
  /\ \A p \in accepted :
       /\ p.series \in Series /\ p.at \in Int /\ p.start \in Nat /\ p.raw \in Nat
       /\ p.value \in Nat /\ p.received \in MinTime .. MaxTime /\ p.late \in BOOLEAN
  /\ \A r \in hourly \cup daily : r.series \in Series /\ r.at \in Int /\ r.value \in Nat
  /\ Summable(accepted) /\ Summable(points) /\ Summable(hourly) /\ Summable(daily)

LEMMA RowsAreTyped == TablesOK => TypedRows
<1> SUFFICES ASSUME TablesOK PROVE TypedRows
  OBVIOUS
<1>1. points \subseteq accepted
  BY DEF TablesOK, HistoryTypeOK
<1>2. \A p \in accepted :
              /\ p.series \in Series /\ p.at \in Int /\ p.start \in Nat /\ p.raw \in Nat
              /\ p.value \in Nat /\ p.received \in MinTime .. MaxTime /\ p.late \in BOOLEAN
  BY DEF TablesOK, HistoryTypeOK, Point
<1>3. \A r \in hourly \cup daily : r.series \in Series /\ r.at \in Int /\ r.value \in Nat
  BY DEF TablesOK, HistoryTypeOK, Rollup
<1>4. Summable(accepted) /\ Summable(hourly) /\ Summable(daily)
  BY <1>2, <1>3 DEF Summable, TablesOK
<1> QED
  BY <1>1, <1>2, <1>3, <1>4, SummablePart DEF TypedRows

LEMMA RowFacts ==
  ASSUME TablesOK
  PROVE  /\ points \subseteq accepted
         /\ \A p \in accepted :
              /\ p.series \in Series /\ p.at \in Int /\ p.start \in Nat /\ p.raw \in Nat
              /\ p.value \in Nat /\ p.received \in MinTime .. MaxTime /\ p.late \in BOOLEAN
         /\ \A r \in hourly \cup daily : r.series \in Series /\ r.at \in Int /\ r.value \in Nat
         /\ Summable(accepted) /\ Summable(points) /\ Summable(hourly) /\ Summable(daily)
BY RowsAreTyped DEF TypedRows

LEMMA RowFactsNext ==
  ASSUME TablesOK'
  PROVE  /\ points' \subseteq accepted'
         /\ \A p \in accepted' :
              /\ p.series \in Series /\ p.at \in Int /\ p.start \in Nat /\ p.raw \in Nat
              /\ p.value \in Nat /\ p.received \in MinTime .. MaxTime /\ p.late \in BOOLEAN
         /\ \A r \in hourly' \cup daily' : r.series \in Series /\ r.at \in Int /\ r.value \in Nat
         /\ Summable(accepted') /\ Summable(points') /\ Summable(hourly') /\ Summable(daily')
<1>1. TypedRows'
  BY RowsAreTyped, PTL
<1> QED
  BY <1>1 DEF TypedRows

\* A finite set of numbers that is not empty has a largest member, and it is Max.
LEMMA MaxOfFinite ==
  ASSUME NEW S \in SUBSET Nat, IsFiniteSet(S), S # {}
  PROVE  Max(S) \in S /\ \A n \in S : n <= Max(S)
<1> DEFINE Good == {T \in SUBSET S : T = {} \/ \E m \in T : \A n \in T : n <= m}
<1>1. {} \in Good
  OBVIOUS
<1>2. ASSUME NEW T \in SUBSET S, NEW x \in S \ T, T \in Good
      PROVE  T \cup {x} \in Good
  <2>1. CASE T = {}
    BY <2>1
  <2>2. CASE T # {}
    <3>1. PICK m \in T : \A n \in T : n <= m
      BY <1>2, <2>2
    <3>2. m \in Nat /\ x \in Nat
      OBVIOUS
    <3>3. CASE x <= m
      BY <3>1, <3>3
    <3>4. CASE m <= x
      <4>1. \A n \in T \cup {x} : n <= x
        BY <3>1, <3>2, <3>4
      <4> QED
        BY <4>1
    <3> QED
      BY <3>2, <3>3, <3>4
  <2> QED
    BY <2>1, <2>2
<1> HIDE DEF Good
<1>3. S \in Good
  BY <1>1, <1>2, FiniteInduction
<1>4. \E m \in S : \A n \in S : m >= n
  BY <1>3 DEF Good
<1> QED
  BY <1>4 DEF Max

LEMMA MaxOfTwo ==
  ASSUME NEW a \in Int, NEW b \in Int
  PROVE  Max({a, b}) = IF a >= b THEN a ELSE b
<1> DEFINE m == IF a >= b THEN a ELSE b
<1>1. m \in {a, b} /\ \A y \in {a, b} : m >= y
  OBVIOUS
<1>2. \A x \in {a, b} : (\A y \in {a, b} : x >= y) => x = m
  OBVIOUS
<1> QED
  BY <1>1, <1>2 DEF Max

LEMMA MinOfTwo ==
  ASSUME NEW a \in Int, NEW b \in Int
  PROVE  Min({a, b}) = IF a <= b THEN a ELSE b
<1> DEFINE m == IF a <= b THEN a ELSE b
<1>1. m \in {a, b} /\ \A y \in {a, b} : m <= y
  OBVIOUS
<1>2. \A x \in {a, b} : (\A y \in {a, b} : x <= y) => x = m
  OBVIOUS
<1> QED
  BY <1>1, <1>2 DEF Min

-----------------------------------------------------------------------------
(* A point is inserted.                                                       *)

\* The value of a reading is what it has grown by over a stored one of the same
\* counter, or all of it.
LEMMA ValueOfReading ==
  ASSUME TablesOK, NEW p, p.raw \in Nat
  PROVE  /\ EffectiveValue(p) \in Nat
         /\ \/ EffectiveValue(p) = p.raw
            \/ \E q \in Previous(p.series) :
                 q.start = p.start /\ q.raw <= p.raw /\ EffectiveValue(p) = p.raw - q.raw
<1> DEFINE earlier == {r \in Previous(p.series) : r.start = p.start /\ r.raw <= p.raw}
           base    == {q.raw : q \in earlier}
<1>1. EffectiveValue(p) =
        IF p.series \in Cumulative /\ base # {} THEN p.raw - Max(base) ELSE p.raw
  BY DEF EffectiveValue
<1>2. \A r \in earlier : r \in Previous(p.series) /\ r \in accepted /\ r.raw \in Nat
                         /\ r.start = p.start /\ r.raw <= p.raw
  BY RowFacts DEF Previous, OfSeries
<1> HIDE DEF earlier
<1>3. CASE base # {}
  <2>1. base \in SUBSET (0 .. p.raw) /\ base \in SUBSET Nat
    BY <1>2
  <2>2. IsFiniteSet(base)
    <3>1. 0 \in Int /\ p.raw \in Int
      OBVIOUS
    <3>2. IsFiniteSet(0 .. p.raw)
      BY <3>1, FS_Interval
    <3> QED
      BY <2>1, <3>2, FS_Subset
  <2> HIDE DEF base
  <2>3. Max(base) \in base
    BY <1>3, <2>1, <2>2, MaxOfFinite
  <2>4. PICK q \in earlier : Max(base) = q.raw
    BY <2>3 DEF base
  <2> QED
    BY <1>1, <1>2, <2>4
<1>4. CASE base = {}
  BY <1>1, <1>4
<1> QED
  BY <1>3, <1>4

\* What an insertion comes to.
Row(p) == [series |-> p.series, at |-> p.at, start |-> p.start, raw |-> p.raw,
           value |-> EffectiveValue(p), received |-> now,
           late |-> maintained > 0 /\ p.at < RawCutoff(maintained)]

\* A reading of a series, as a workspace can report it.
Reading(p) ==
  /\ DOMAIN p = {"series", "at", "start", "raw"}
  /\ p.series \in Series /\ p.at \in Int /\ p.start \in Nat /\ p.raw \in Nat
  /\ p.at <= now + Ahead
  /\ Plausible(p)

LEMMA RowIs ==
  ASSUME TablesOK, NEW p, Reading(p)
  PROVE  /\ Row(p) \in Point
         /\ Row(p).series = p.series /\ Row(p).at = p.at /\ Row(p).start = p.start
         /\ Row(p).raw = p.raw /\ Row(p).value = EffectiveValue(p) /\ Row(p).received = now
         /\ Row(p).late <=> maintained > 0 /\ p.at < RawCutoff(maintained)
<1>1. EffectiveValue(p) \in Nat
  BY ValueOfReading DEF Reading
<1>2. now \in MinTime .. MaxTime
  BY DEF TablesOK
<1> QED
  BY <1>1, <1>2 DEF Row, Point, Reading

\* A point arrives, or the tables of points stay as they are.
LEMMA IngestCases ==
  ASSUME NEW p, Ingest(p)
  PROVE  /\ UNCHANGED <<hourly, daily, maintained>>
         /\ ledger' \subseteq ledger \cup {Row(p)}
         /\ \/ points' = points /\ accepted' = accepted
            \/ /\ points' = points \cup {Row(p)} /\ accepted' = accepted \cup {Row(p)}
               /\ \A q \in points : ~Same(Row(p), q)
<1> DEFINE row == Row(p)
           new == {r \in {row} : \A q \in points : ~Same(r, q)}
<1>1. CASE Duplicate(p) /\ UNCHANGED historyVars
  BY <1>1 DEF historyVars
<1>2. CASE Insert(p) /\ UNCHANGED <<hourly, daily, maintained>>
  <2>1. points' = points \cup new /\ accepted' = accepted \cup new /\ ledger' = ledger \cup {row}
    BY <1>2 DEF Insert, Row
  <2>2. CASE \A q \in points : ~Same(row, q)
    <3>1. new = {row}
      BY <2>2
    <3> HIDE DEF row, new
    <3> QED
      BY <1>2, <2>1, <2>2, <3>1 DEF row
  <2>3. CASE \E q \in points : Same(row, q)
    <3>1. new = {}
      BY <2>3
    <3> HIDE DEF row, new
    <3> QED
      BY <1>2, <2>1, <3>1 DEF row
  <2> QED
    BY <2>2, <2>3
<1> QED
  BY <1>1, <1>2 DEF Ingest

\* Nothing is lost from a set of points when one is added.
LEMMA WithinGrows ==
  ASSUME TablesOK, TablesOK', accepted \subseteq accepted', NEW s, NEW len, NEW b
  PROVE  /\ Within(s, len, b) \subseteq Within(s, len, b)'
         /\ Summable(Within(s, len, b)') /\ Observed(s, len, b) <= Observed(s, len, b)'
         /\ Observed(s, len, b) \in Nat /\ Observed(s, len, b)' \in Nat
<1>1. /\ Within(s, len, b) \subseteq accepted
      /\ Within(s, len, b)' = {p \in OfSeries(accepted', s) : BucketOf(p.at, len) = b}
      /\ Within(s, len, b)' \subseteq accepted'
      /\ Within(s, len, b) \subseteq Within(s, len, b)'
  BY DEF Within, OfSeries
<1>2. Summable(accepted) /\ Summable(accepted')
  BY RowFacts, RowFactsNext
<1>3. Summable(Within(s, len, b)) /\ Summable(Within(s, len, b)')
  BY <1>1, <1>2, SummablePart
<1>4. /\ Total(Within(s, len, b)) \in Nat /\ Total(Within(s, len, b)') \in Nat
      /\ Total(Within(s, len, b)) <= Total(Within(s, len, b)')
  BY <1>1, <1>3, TotalType, TotalOfPart
<1>5. Observed(s, len, b) = Total(Within(s, len, b))
      /\ Observed(s, len, b)' = Total(Within(s, len, b)')
  BY DEF Observed, Within
<1> QED
  BY <1>1, <1>3, <1>4, <1>5

LEMMA IngestKeepsTables ==
  ASSUME TablesOK, NEW p, Reading(p), Ingest(p), now' = now
  PROVE  TablesOK'
<1> DEFINE row == Row(p)
<1>1. row \in Point /\ row.at = p.at
  BY RowIs
<1>2. /\ UNCHANGED <<hourly, daily, maintained>> /\ ledger' \subseteq ledger \cup {row}
      /\ \/ points' = points /\ accepted' = accepted
         \/ points' = points \cup {row} /\ accepted' = accepted \cup {row}
  BY IngestCases
<1>3. p.at <= now + Ahead
  BY DEF Reading
<1> HIDE DEF row
<1>4. IsFiniteSet(accepted')
  BY <1>2, FS_AddElement DEF TablesOK
<1>5. HistoryTypeOK'
  <2>1. HistoryTypeOK
    BY DEF TablesOK
  <2> QED
    BY <1>1, <1>2, <2>1 DEF HistoryTypeOK, Point, Rollup
<1>6. \A q \in accepted' : q.at <= now + Ahead
  BY <1>1, <1>2, <1>3 DEF TablesOK
<1> QED
  BY <1>2, <1>4, <1>5, <1>6 DEF TablesOK

\* A late point disturbs its day.
LEMMA LateDisturbs ==
  ASSUME NEW p \in accepted, p.late, NEW s, p.series = s, NEW day, DayOf(p.at) = day
  PROVE  Disturbed(s, day)
BY DEF Disturbed, OfSeries

LEMMA IngestKeepsHistory ==
  ASSUME HistoryInv, NEW p, Reading(p), Ingest(p), now' = now
  PROVE  HistoryInv'
<1> DEFINE row == Row(p)
<1>0. TablesOK /\ TablesOK'
  BY IngestKeepsTables DEF HistoryInv
<1>1. /\ row \in Point /\ row.series = p.series /\ row.at = p.at /\ row.start = p.start
      /\ row.raw = p.raw
      /\ row.late <=> maintained > 0 /\ p.at < RawCutoff(maintained)
  BY <1>0, RowIs
<1>2. /\ maintained' = maintained /\ hourly' = hourly /\ daily' = daily
      /\ \/ points' = points /\ accepted' = accepted
         \/ /\ points' = points \cup {row} /\ accepted' = accepted \cup {row}
            /\ \A q \in points : ~Same(row, q)
  BY IngestCases
<1>3. /\ \A q \in accepted : q.series = p.series => Same(p, q) \/ Before(p, q) \/ Before(q, p)
      /\ p.at \in Int
  BY DEF Reading, Plausible, OfSeries
<1> HIDE DEF row
<1>4. ReadingsOrdered'
  <2>0. ReadingsOrdered
    BY DEF HistoryInv
  <2>1. \A q \in accepted : q.series = row.series =>
          /\ Same(row, q) \/ Before(row, q) \/ Before(q, row)
          /\ Same(q, row) \/ Before(row, q) \/ Before(q, row)
    <3> SUFFICES ASSUME NEW q \in accepted, q.series = row.series
                 PROVE  \/ Same(row, q) /\ Same(q, row)
                        \/ Before(row, q) \/ Before(q, row)
      OBVIOUS
    <3>1. Same(p, q) \/ Before(p, q) \/ Before(q, p)
      BY <1>1, <1>3
    <3>2. Same(p, q) => Same(row, q) /\ Same(q, row)
      BY <1>1 DEF Same
    <3>3. (Before(p, q) => Before(row, q)) /\ (Before(q, p) => Before(q, row))
      BY <1>1 DEF Before
    <3> QED
      BY <3>1, <3>2, <3>3
  <2>2. Same(row, row)
    BY DEF Same
  <2>3. \A q \in points : Same(q, row) => Same(row, q)
    BY DEF Same
  <2>4. ASSUME NEW a \in accepted', NEW b \in accepted', a.series = b.series
        PROVE  Same(a, b) \/ Before(a, b) \/ Before(b, a)
    BY <1>2, <2>0, <2>1, <2>2, <2>4 DEF ReadingsOrdered
  <2>5. ASSUME NEW a \in points', NEW b \in points', Same(a, b) PROVE a = b
    BY <1>2, <2>0, <2>3, <2>5 DEF ReadingsOrdered
  <2> QED
    BY <2>4, <2>5 DEF ReadingsOrdered
<1>5. PointsKept'
  BY <1>1, <1>2 DEF PointsKept, HistoryInv
<1>6. RollupsPlaced'
  BY <1>2 DEF RollupsPlaced, HistoryInv
<1>7. accepted \subseteq accepted'
  BY <1>2
<1>8. ASSUME NEW s, NEW day, Disturbed(s, day) PROVE Disturbed(s, day)'
  BY <1>7, <1>8 DEF Disturbed, OfSeries
<1>9. ASSUME maintained > 0, NEW q \in accepted', q.at < RawCutoff(maintained), q \notin accepted
      PROVE  Disturbed(q.series, DayOf(q.at))'
  <2>1. q = row /\ q.late
    BY <1>1, <1>2, <1>9
  <2>2. q.late /\ q \in OfSeries(accepted', q.series)
    BY <1>9, <2>1 DEF OfSeries
  <2> QED
    BY <2>2 DEF Disturbed
<1>10. maintained \in Int /\ RawCutoff(maintained) \in Int
       /\ HourOf(RawCutoff(maintained)) = RawCutoff(maintained)
  BY <1>0, MaintainedFacts, Cutoffs
<1>11. \A q \in accepted' : q.at \in Int /\ q.series \in Series
  BY <1>0, RowFactsNext
<1>12. HoursHold'
  <2> SUFFICES ASSUME maintained' > 0, NEW s \in Series, NEW h \in Int, HourOf(h) = h,
                      h >= HourlyCutoff(maintained'), ~Disturbed(s, DayOf(h))'
               PROVE  HourHolds(s, h)'
    BY DEF HoursHold
  <2>1. HourHolds(s, h)
    BY <1>2, <1>8 DEF HoursHold, HistoryInv
  <2>2. /\ Observed(s, HourLen, h) <= Observed(s, HourLen, h)'
        /\ Observed(s, HourLen, h) \in Nat /\ Observed(s, HourLen, h)' \in Nat
    BY <1>0, <1>7, WithinGrows
  <2>3. ASSUME h < RawCutoff(maintained) PROVE Observed(s, HourLen, h)' = Observed(s, HourLen, h)
    <3>1. ASSUME NEW q \in Within(s, HourLen, h)' PROVE q \in accepted
      <4> SUFFICES ASSUME q \notin accepted PROVE FALSE
        OBVIOUS
      <4>1. q \in accepted' /\ q.series = s /\ HourOf(q.at) = h
        BY <3>1 DEF Within, OfSeries, HourOf
      <4>2. q.at < RawCutoff(maintained)
        BY <1>10, <1>11, <2>3, <4>1, AlignedBefore, LengthsHold DEF HourOf, Lengths
      <4>3. DayOf(q.at) = DayOf(h)
        BY <1>11, <4>1, HoursOfDays
      <4> QED
        BY <1>2, <1>9, <4>1, <4>2, <4>3
    <3>2. Within(s, HourLen, h)' = Within(s, HourLen, h)
      BY <1>7, <3>1 DEF Within, OfSeries
    <3> QED
      BY <3>2 DEF Observed, Within
  <2>4. Total(At(hourly, s, h))' = Total(At(hourly, s, h)) /\ Total(At(hourly, s, h)) \in Nat
    <3>1. Summable(At(hourly, s, h))
      BY <1>0, RowFacts, SummablePart DEF At
    <3> QED
      BY <1>2, <3>1, TotalType DEF At
  <2> QED
    BY <1>2, <2>1, <2>2, <2>3, <2>4 DEF HourHolds
<1>13. DaysHold'
  <2> SUFFICES ASSUME maintained' > 0, NEW s \in Series, NEW d \in Int, DayOf(d) = d,
                      d >= DailyCutoff(maintained'), ~Disturbed(s, d)'
               PROVE  DayHolds(s, d)'
    BY DEF DaysHold
  <2>1. DayHolds(s, d)
    BY <1>2, <1>8 DEF DaysHold, HistoryInv
  <2>2. /\ Observed(s, DayLen, d) <= Observed(s, DayLen, d)'
        /\ Observed(s, DayLen, d) \in Nat /\ Observed(s, DayLen, d)' \in Nat
    BY <1>0, <1>7, WithinGrows
  <2>3. CutWithin(s, d)' = CutWithin(s, d)
    <3>1. ASSUME NEW q \in CutWithin(s, d)' PROVE q \in accepted
      <4> SUFFICES ASSUME q \notin accepted PROVE FALSE
        OBVIOUS
      <4>1. q \in accepted' /\ q.series = s /\ DayOf(q.at) = d /\ q.at < RawCutoff(maintained)
        BY <1>2, <3>1 DEF CutWithin, Within, OfSeries, DayOf
      <4> QED
        BY <1>2, <1>9, <4>1
    <3> QED
      BY <1>2, <1>7, <3>1 DEF CutWithin, Within, OfSeries
  <2>4. Total(At(daily, s, d))' = Total(At(daily, s, d)) /\ Total(At(daily, s, d)) \in Nat
    <3>1. Summable(At(daily, s, d))
      BY <1>0, RowFacts, SummablePart DEF At
    <3> QED
      BY <1>2, <3>1, TotalType DEF At
  <2>5. Total(CutWithin(s, d))' = Total(CutWithin(s, d))
    BY <2>3
  <2> QED
    BY <1>2, <2>1, <2>2, <2>4, <2>5 DEF DayHolds
<1> QED
  BY <1>0, <1>4, <1>5, <1>6, <1>12, <1>13 DEF HistoryInv

-----------------------------------------------------------------------------
(* A maintenance pass.                                                        *)

\* Rows of a series in a bucket of some length.
InBucket(rows, s, len, b) == {r \in rows : r.series = s /\ BucketOf(r.at, len) = b}

TypedRowSet(rows) ==
  Summable(rows) /\ \A r \in rows : r.series \in Series /\ r.at \in Int

\* Grouping leaves one row for each bucket that has rows, with their total.
LEMMA GroupedRows ==
  ASSUME NEW rows, TypedRowSet(rows), NEW len \in Nat \ {0}
  PROVE  /\ TypedRowSet(Grouped(rows, len)) /\ Grouped(rows, len) \subseteq Rollup
         /\ \A r \in Grouped(rows, len) :
              BucketOf(r.at, len) = r.at /\ InBucket(rows, r.series, len, r.at) # {}
         /\ \A s, b :
              Total(At(Grouped(rows, len), s, b)) = Total(InBucket(rows, s, len, b))
         /\ \A s, b :
              InBucket(rows, s, len, b) # {} => At(Grouped(rows, len), s, b) # {}
<1> DEFINE k    == [r \in rows |-> <<r.series, BucketOf(r.at, len)>>]
           keys == {<<r.series, BucketOf(r.at, len)>> : r \in rows}
           g    == [x \in keys |-> [series |-> x[1], at |-> x[2],
                                    value |-> Total(InBucket(rows, x[1], len, x[2]))]]
           G    == Grouped(rows, len)
<1>1. \A s, b : {r \in rows : <<r.series, BucketOf(r.at, len)>> = <<s, b>>}
                  = InBucket(rows, s, len, b)
  BY DEF InBucket
<1>2. \A s, b : Summable(InBucket(rows, s, len, b)) /\ Total(InBucket(rows, s, len, b)) \in Nat
  BY SummablePart, TotalType DEF InBucket, TypedRowSet
<1>3. keys = {k[r] : r \in rows}
  OBVIOUS
<1>4. IsFiniteSet(keys)
  <2>1. IsFiniteSet(rows)
    BY DEF TypedRowSet, Summable
  <2> HIDE DEF keys, k
  <2> QED
    BY <1>3, <2>1, FiniteImage
<1>5. G = {g[x] : x \in keys}
  <2>1. ASSUME NEW x \in keys
        PROVE  [series |-> x[1], at |-> x[2],
                value |-> Total({r \in rows : <<r.series, BucketOf(r.at, len)>> = x})] = g[x]
    <3>1. x = <<x[1], x[2]>>
      OBVIOUS
    <3>2. {r \in rows : <<r.series, BucketOf(r.at, len)>> = x} = InBucket(rows, x[1], len, x[2])
      BY <1>1, <3>1
    <3> QED
      BY <3>2
  <2> HIDE DEF g
  <2> QED
    BY <2>1 DEF Grouped
<1>6. \A x \in keys : /\ g[x].series = x[1] /\ g[x].at = x[2]
                      /\ g[x].value = Total(InBucket(rows, x[1], len, x[2]))
                      /\ g[x] = [series |-> x[1], at |-> x[2],
                                 value |-> Total(InBucket(rows, x[1], len, x[2]))]
  OBVIOUS
<1>7. \A s, b : InBucket(rows, s, len, b) # {} <=> <<s, b>> \in keys
  BY DEF InBucket
<1>8. \A x \in keys : /\ x = <<x[1], x[2]>> /\ x[1] \in Series /\ x[2] \in Int
                      /\ BucketOf(x[2], len) = x[2]
  <2> SUFFICES ASSUME NEW r \in rows
               PROVE  /\ r.series \in Series /\ BucketOf(r.at, len) \in Int
                      /\ BucketOf(BucketOf(r.at, len), len) = BucketOf(r.at, len)
    OBVIOUS
  <2> QED
    BY BucketBounds, BucketAligned DEF TypedRowSet
<1> HIDE DEF keys, g
<1>14. ASSUME NEW r \in G
       PROVE  /\ <<r.series, r.at>> \in keys /\ r = g[<<r.series, r.at>>]
              /\ r.series \in Series /\ r.at \in Int /\ r.value \in Nat /\ r \in Rollup
              /\ BucketOf(r.at, len) = r.at
  <2>1. PICK x \in keys : r = g[x]
    BY <1>5
  <2>2. /\ r.series = x[1] /\ r.at = x[2] /\ r.value = Total(InBucket(rows, x[1], len, x[2]))
        /\ r = [series |-> x[1], at |-> x[2], value |-> Total(InBucket(rows, x[1], len, x[2]))]
    BY <1>6, <2>1
  <2>3. x = <<x[1], x[2]>> /\ x[1] \in Series /\ x[2] \in Int /\ BucketOf(x[2], len) = x[2]
    BY <1>8
  <2>4. x = <<r.series, r.at>>
    BY <2>2, <2>3
  <2>5. r.value \in Nat
    BY <1>2, <2>2
  <2>6. r \in Rollup
    BY <2>2, <2>3, <2>5 DEF Rollup
  <2> QED
    BY <2>1, <2>2, <2>3, <2>4, <2>5, <2>6
<1>9. TypedRowSet(G) /\ G \subseteq Rollup
  <2>1. IsFiniteSet(G)
    BY <1>4, <1>5, FiniteImage
  <2>2. \A r \in G : r.series \in Series /\ r.at \in Int /\ r.value \in Nat /\ r \in Rollup
    BY <1>14
  <2> QED
    BY <2>1, <2>2 DEF TypedRowSet, Summable
<1>10. ASSUME NEW r \in G
       PROVE  BucketOf(r.at, len) = r.at /\ InBucket(rows, r.series, len, r.at) # {}
  BY <1>7, <1>14
<1>11. ASSUME NEW s, NEW b, InBucket(rows, s, len, b) # {}
       PROVE  /\ At(G, s, b) # {}
              /\ Total(At(G, s, b)) = Total(InBucket(rows, s, len, b))
  <2>1. <<s, b>> \in keys
    BY <1>7, <1>11
  <2>2. At(G, s, b) = {g[<<s, b>>]}
    <3>1. g[<<s, b>>] \in At(G, s, b)
      BY <1>5, <1>6, <2>1 DEF At
    <3>2. ASSUME NEW r \in At(G, s, b) PROVE r = g[<<s, b>>]
      <4>1. r \in G /\ r.series = s /\ r.at = b
        BY DEF At
      <4> QED
        BY <1>14, <4>1
    <3> QED
      BY <3>1, <3>2
  <2>3. g[<<s, b>>].value = Total(InBucket(rows, s, len, b))
    BY <1>6, <2>1
  <2>4. Total({g[<<s, b>>]}) = g[<<s, b>>].value
    BY <1>2, <2>3, TotalOfOne
  <2> QED
    BY <2>2, <2>3, <2>4
<1>12. ASSUME NEW s, NEW b, InBucket(rows, s, len, b) = {}
       PROVE  At(G, s, b) = {}
  BY <1>10, <1>12 DEF At
<1>13. ASSUME NEW s, NEW b
       PROVE  Total(At(G, s, b)) = Total(InBucket(rows, s, len, b))
  BY <1>11, <1>12
<1> QED
  BY <1>9, <1>10, <1>11, <1>13

\* An upsert takes the new rows of a bucket, or keeps the old ones.
LEMMA UpsertedRows ==
  ASSUME NEW table, TypedRowSet(table), NEW rows, TypedRowSet(rows)
  PROVE  /\ TypedRowSet(Upsert(table, rows)) /\ Upsert(table, rows) \subseteq table \cup rows
         /\ \A s, b : At(rows, s, b) # {} => At(Upsert(table, rows), s, b) = At(rows, s, b)
         /\ \A s, b : At(rows, s, b) = {} => At(Upsert(table, rows), s, b) = At(table, s, b)
<1> DEFINE old == {n \in table : \A r \in rows : <<n.series, n.at>> # <<r.series, r.at>>}
<1>1. Upsert(table, rows) = rows \cup old
  BY DEF Upsert, Keep
<1>2. old \subseteq table
  OBVIOUS
<1>3. \A s, b : At(rows, s, b) # {} => At(old, s, b) = {}
  BY DEF At
<1>4. \A s, b : At(rows, s, b) = {} => At(old, s, b) = At(table, s, b)
  BY DEF At
<1> HIDE DEF old
<1>5. \A s, b : At(rows \cup old, s, b) = At(rows, s, b) \cup At(old, s, b)
  BY DEF At
<1>6. Summable(old) /\ Summable(rows)
  BY <1>2, SummablePart DEF TypedRowSet
<1>7. Summable(rows \cup old)
  BY <1>6, SummableUnion
<1>8. TypedRowSet(rows \cup old)
  BY <1>2, <1>7 DEF TypedRowSet
<1> DEFINE U == Upsert(table, rows)
<1>9. \A s, b : At(U, s, b) = At(rows, s, b) \cup At(old, s, b)
  BY <1>1, <1>5
<1>10. \A s, b : At(rows, s, b) # {} => At(U, s, b) = At(rows, s, b)
  BY <1>3, <1>9
<1>11. \A s, b : At(rows, s, b) = {} => At(U, s, b) = At(table, s, b)
  BY <1>4, <1>9
<1>12. TypedRowSet(U) /\ U \subseteq table \cup rows
  BY <1>1, <1>2, <1>8
<1> QED
  BY <1>10, <1>11, <1>12

\* Rows that begin their buckets are found there.
LEMMA AtIsBucket ==
  ASSUME NEW rows, NEW len, \A r \in rows : BucketOf(r.at, len) = r.at, NEW s, NEW b
  PROVE  At(rows, s, b) = InBucket(rows, s, len, b)
BY DEF At, InBucket

LEMMA BucketTotalType ==
  ASSUME NEW rows, TypedRowSet(rows), NEW s, NEW len, NEW b
  PROVE  /\ Summable(InBucket(rows, s, len, b)) /\ Total(InBucket(rows, s, len, b)) \in Nat
         /\ Summable(At(rows, s, b)) /\ Total(At(rows, s, b)) \in Nat
BY SummablePart, TotalType DEF InBucket, At, TypedRowSet

\* Where no hour of a day has more, the day has not.
LEMMA DayFromHours ==
  ASSUME NEW X, TypedRowSet(X), NEW Y, TypedRowSet(Y), NEW s, NEW d \in Int,
         \A h \in Int : HourOf(h) = h /\ DayOf(h) = d =>
           Total(InBucket(X, s, HourLen, h)) <= Total(InBucket(Y, s, HourLen, h))
  PROVE  Total(InBucket(X, s, DayLen, d)) <= Total(InBucket(Y, s, DayLen, d))
<1> DEFINE S == InBucket(X, s, DayLen, d)
           T == InBucket(Y, s, DayLen, d)
           k == [r \in S |-> HourOf(r.at)]
           l == [r \in T |-> HourOf(r.at)]
<1>1. Summable(S) /\ Summable(T)
  BY BucketTotalType
<1>2. ASSUME NEW h \in Int, HourOf(h) = h, DayOf(h) = d
      PROVE  /\ Group(S, k, h) = InBucket(X, s, HourLen, h)
             /\ Group(T, l, h) = InBucket(Y, s, HourLen, h)
  <2>1. \A r \in X \cup Y : HourOf(r.at) = h => DayOf(r.at) = d
    BY <1>2, HoursOfDays DEF TypedRowSet
  <2>2. Group(S, k, h) = {r \in S : HourOf(r.at) = h} /\ Group(T, l, h) = {r \in T : HourOf(r.at) = h}
    BY DEF Group
  <2> QED
    BY <2>1, <2>2 DEF InBucket, HourOf, DayOf
<1>3. ASSUME NEW x \in S
      PROVE  Total(Group(S, k, k[x])) <= Total(Group(T, l, k[x]))
  <2>1. x \in X /\ x.at \in Int /\ DayOf(x.at) = d
    BY DEF InBucket, TypedRowSet, DayOf
  <2> DEFINE h == HourOf(x.at)
  <2>2. h \in Int /\ HourOf(h) = h /\ DayOf(h) = d
    BY <2>1, HoursAndDays, HoursOfDays
  <2>3. k[x] = h
    OBVIOUS
  <2> HIDE DEF h
  <2>4. Group(S, k, h) = InBucket(X, s, HourLen, h) /\ Group(T, l, h) = InBucket(Y, s, HourLen, h)
    BY <1>2, <2>2
  <2>5. Total(InBucket(X, s, HourLen, h)) <= Total(InBucket(Y, s, HourLen, h))
    BY <2>2
  <2> HIDE DEF S, T, k, l
  <2> QED
    BY <2>3, <2>4, <2>5
<1> HIDE DEF S, T, k, l
<1>4. Total(S) <= Total(T)
  BY <1>1, <1>3, TotalByKey
<1> QED
  BY <1>4 DEF S, T

LEMMA WithinIsBucket ==
  ASSUME NEW s, NEW len, NEW b
  PROVE  Within(s, len, b) = InBucket(accepted, s, len, b)
         /\ Observed(s, len, b) = Total(InBucket(accepted, s, len, b))
BY DEF Within, InBucket, OfSeries, Observed

\* The sets of rows that a pass works on.
PassHours == Upsert(hourly, Grouped(Since(points, DailyCutoff(now)), HourLen))
PassDays  == Upsert(daily, Grouped(Since(PassHours, DailyCutoff(now)), DayLen))

LEMMA PassRows ==
  ASSUME HistoryInv
  PROVE  /\ TypedRowSet(accepted) /\ TypedRowSet(points)
         /\ TypedRowSet(hourly) /\ TypedRowSet(daily)
         /\ TypedRowSet(Since(points, DailyCutoff(now)))
         /\ TypedRowSet(PassHours) /\ TypedRowSet(Since(PassHours, DailyCutoff(now)))
         /\ TypedRowSet(PassDays)
         /\ PassHours \subseteq Rollup /\ PassDays \subseteq Rollup
         /\ \A r \in PassHours : HourOf(r.at) = r.at
         /\ \A r \in PassDays : DayOf(r.at) = r.at
<1> DEFINE P == Since(points, DailyCutoff(now))
           G == Grouped(P, HourLen)
           H == Since(PassHours, DailyCutoff(now))
           D == Grouped(H, DayLen)
<1>0. TablesOK /\ RollupsPlaced
  BY DEF HistoryInv
<1>1. /\ TypedRowSet(accepted) /\ TypedRowSet(points)
      /\ TypedRowSet(hourly) /\ TypedRowSet(daily)
      /\ hourly \subseteq Rollup /\ daily \subseteq Rollup
  BY <1>0, RowFacts DEF TypedRowSet, TablesOK, HistoryTypeOK
<1>2. \A X : TypedRowSet(X) => TypedRowSet(Since(X, DailyCutoff(now)))
  BY SummablePart DEF TypedRowSet, Since
<1>3. HourLen \in Nat \ {0} /\ DayLen \in Nat \ {0}
  BY LengthsHold DEF Lengths
<1>4. TypedRowSet(P)
  BY <1>1, <1>2
<1>5. /\ TypedRowSet(G) /\ G \subseteq Rollup /\ \A r \in G : BucketOf(r.at, HourLen) = r.at
  BY <1>3, <1>4, GroupedRows
<1>6. /\ TypedRowSet(PassHours) /\ PassHours \subseteq hourly \cup G
  BY <1>1, <1>5, UpsertedRows DEF PassHours
<1>7. TypedRowSet(H)
  BY <1>2, <1>6
<1>8. /\ TypedRowSet(D) /\ D \subseteq Rollup /\ \A r \in D : BucketOf(r.at, DayLen) = r.at
  BY <1>3, <1>7, GroupedRows
<1>9. /\ TypedRowSet(PassDays) /\ PassDays \subseteq daily \cup D
  BY <1>1, <1>8, UpsertedRows DEF PassDays
<1>10. \A r \in PassHours : HourOf(r.at) = r.at
  BY <1>0, <1>5, <1>6 DEF RollupsPlaced, HourOf
<1>11. \A r \in PassDays : DayOf(r.at) = r.at
  BY <1>0, <1>8, <1>9 DEF RollupsPlaced, DayOf
<1> HIDE DEF P, G, H, D
<1> QED
  BY <1>1, <1>4, <1>5, <1>6, <1>7, <1>8, <1>9, <1>10, <1>11 DEF P, H

\* In a day that no late point has come for, an hour is all stored or all cut.
LEMMA StoredHour ==
  ASSUME HistoryInv, NEW s \in Series, NEW h \in Int, HourOf(h) = h,
         ~Disturbed(s, DayOf(h))
  PROVE  IF maintained > 0 /\ h < RawCutoff(maintained)
           THEN InBucket(points, s, HourLen, h) = {}
           ELSE InBucket(points, s, HourLen, h) = InBucket(accepted, s, HourLen, h)
<1>0. TablesOK /\ PointsKept
  BY DEF HistoryInv
<1>1. maintained \in Int /\ RawCutoff(maintained) \in Int
      /\ HourOf(RawCutoff(maintained)) = RawCutoff(maintained)
  BY <1>0, MaintainedFacts, Cutoffs
<1>2. points \subseteq accepted /\ \A p \in accepted : p.at \in Int /\ p.series \in Series
  BY <1>0, RowFacts
<1>3. ASSUME NEW p \in InBucket(accepted, s, HourLen, h)
      PROVE  /\ p \in accepted /\ p.series = s /\ p.at \in Int /\ HourOf(p.at) = h
             /\ DayOf(p.at) = DayOf(h) /\ ~p.late
             /\ RawCutoff(maintained) <= p.at <=> RawCutoff(maintained) <= h
  <2>1. p \in accepted /\ p.series = s /\ p.at \in Int /\ HourOf(p.at) = h
    BY <1>2 DEF InBucket, HourOf
  <2>2. DayOf(p.at) = DayOf(h)
    BY <2>1, HoursOfDays
  <2>3. ~p.late
    BY <2>1, <2>2, LateDisturbs
  <2>4. RawCutoff(maintained) <= p.at <=> RawCutoff(maintained) <= BucketOf(p.at, HourLen)
    BY <1>1, <2>1, AlignedBefore, LengthsHold DEF HourOf, Lengths
  <2> QED
    BY <2>1, <2>2, <2>3, <2>4 DEF HourOf
<1>4. InBucket(points, s, HourLen, h) \subseteq InBucket(accepted, s, HourLen, h)
  BY <1>2 DEF InBucket
<1>5. CASE maintained > 0 /\ h < RawCutoff(maintained)
  <2>1. ASSUME NEW p \in InBucket(points, s, HourLen, h) PROVE FALSE
    <3>1. p \in points /\ p \in InBucket(accepted, s, HourLen, h)
      BY <1>4 DEF InBucket
    <3>2. ~p.late /\ p.at \in Int /\ ~(RawCutoff(maintained) <= p.at)
      BY <1>1, <1>3, <1>5, <3>1
    <3>3. p.at < RawCutoff(maintained)
      BY <1>1, <3>2
    <3> QED
      BY <1>0, <1>5, <3>1, <3>2, <3>3 DEF PointsKept
  <2> QED
    BY <1>5, <2>1
<1>6. CASE ~(maintained > 0 /\ h < RawCutoff(maintained))
  <2>1. ASSUME NEW p \in InBucket(accepted, s, HourLen, h)
        PROVE  p \in InBucket(points, s, HourLen, h)
    <3>1. /\ p \in accepted /\ p.at \in Int
          /\ RawCutoff(maintained) <= p.at <=> RawCutoff(maintained) <= h
      BY <1>3
    <3>2. ~(maintained > 0 /\ p.at < RawCutoff(maintained))
      BY <1>1, <1>6, <3>1
    <3>3. p \in points
      BY <1>0, <3>1, <3>2 DEF PointsKept
    <3> QED
      BY <3>3 DEF InBucket
  <2> QED
    BY <1>4, <2>1, <1>6
<1> QED
  BY <1>5, <1>6

\* An hour of a table, and of the points since a cutoff that begins an hour.
LEMMA SinceHour ==
  ASSUME NEW rows, TypedRowSet(rows), NEW c \in Int, NEW s, NEW h \in Int, h >= c
  PROVE  /\ InBucket(Since(rows, c), s, HourLen, h) = InBucket(rows, s, HourLen, h)
         /\ InBucket(Since(rows, c), s, DayLen, h) = InBucket(rows, s, DayLen, h)
<1>1. ASSUME NEW r \in rows, NEW len \in {HourLen, DayLen}, BucketOf(r.at, len) = h
      PROVE  r.at >= c
  <2>1. r.at \in Int /\ len \in Nat \ {0}
    BY LengthsHold DEF Lengths, TypedRowSet
  <2>2. h <= r.at
    BY <1>1, <2>1, BucketBounds
  <2> QED
    BY <2>1, <2>2
<1> QED
  BY <1>1 DEF InBucket, Since

\* Rebuilt hours hold what was observed.
LEMMA HoursAfterPass ==
  ASSUME HistoryInv, NEW s \in Series, NEW h \in Int, HourOf(h) = h,
         h >= DailyCutoff(now), maintained > 0 => h >= HourlyCutoff(maintained),
         ~Disturbed(s, DayOf(h))
  PROVE  Total(At(PassHours, s, h)) = Observed(s, HourLen, h)
<1> DEFINE P == Since(points, DailyCutoff(now))
           G == Grouped(P, HourLen)
           stored == InBucket(points, s, HourLen, h)
           all    == InBucket(accepted, s, HourLen, h)
<1>0. /\ TablesOK /\ RollupsPlaced /\ HoursHold
      /\ TypedRowSet(P) /\ TypedRowSet(hourly) /\ TypedRowSet(points) /\ TypedRowSet(accepted)
      /\ now \in Int /\ HourLen \in Nat \ {0} /\ DailyCutoff(now) \in Int
  BY PassRows, ClockFacts, Cutoffs, LengthsHold DEF HistoryInv, Lengths
<1>1. Observed(s, HourLen, h) = Total(all) /\ Total(all) \in Nat
  BY <1>0, WithinIsBucket, BucketTotalType
<1>2. InBucket(P, s, HourLen, h) = stored
  BY <1>0, SinceHour
<1>3. \/ stored = all
      \/ maintained > 0 /\ h < RawCutoff(maintained) /\ stored = {}
  BY StoredHour
<1> HIDE DEF P
<1>4. /\ TypedRowSet(G)
      /\ Total(At(G, s, h)) = Total(InBucket(P, s, HourLen, h))
      /\ InBucket(P, s, HourLen, h) # {} => At(G, s, h) # {}
      /\ \A r \in G : InBucket(P, r.series, HourLen, r.at) # {}
  BY <1>0, GroupedRows
<1>5. PassHours = Upsert(hourly, G)
  BY DEF PassHours, P
<1> HIDE DEF G, stored, all
<1>6. CASE stored # {}
  <2>1. At(PassHours, s, h) = At(G, s, h)
    BY <1>0, <1>2, <1>4, <1>5, <1>6, UpsertedRows
  <2> QED
    BY <1>1, <1>2, <1>3, <1>4, <1>6, <2>1
<1>7. CASE stored = {}
  <2>1. At(G, s, h) = {}
    BY <1>2, <1>4, <1>7 DEF At
  <2>2. At(PassHours, s, h) = At(hourly, s, h) /\ Total(At(hourly, s, h)) \in Nat
    BY <1>0, <1>4, <1>5, <2>1, UpsertedRows, BucketTotalType
  <2>3. CASE maintained > 0
    <3>1. HourHolds(s, h)
      BY <1>0, <2>3 DEF HoursHold
    <3>2. /\ Total(At(hourly, s, h)) <= Total(all)
          /\ h < RawCutoff(maintained) => Total(all) <= Total(At(hourly, s, h))
      BY <1>1, <3>1 DEF HourHolds
    <3>3. stored = all => Total(all) = 0
      BY <1>7, TotalOfNone
    <3> QED
      BY <1>1, <1>3, <2>2, <3>2, <3>3
  <2>4. CASE ~(maintained > 0)
    <3>1. At(hourly, s, h) = {}
      BY <1>0, <2>4 DEF RollupsPlaced, At
    <3>2. stored = all
      BY <1>3, <2>4
    <3> QED
      BY <1>1, <1>7, <2>2, <3>1, <3>2
  <2> QED
    BY <2>3, <2>4
<1> QED
  BY <1>6, <1>7

LEMMA DayOfPassHours ==
  ASSUME HistoryInv, NEW s \in Series, NEW d \in Int, DayOf(d) = d,
         d >= DailyCutoff(now), maintained > 0 => d >= HourlyCutoff(maintained),
         ~Disturbed(s, d)
  PROVE  Total(InBucket(Since(PassHours, DailyCutoff(now)), s, DayLen, d))
           = Observed(s, DayLen, d)
<1>0. /\ TypedRowSet(PassHours) /\ TypedRowSet(accepted)
      /\ \A r \in PassHours : BucketOf(r.at, HourLen) = r.at
      /\ now \in Int /\ DailyCutoff(now) \in Int
  BY PassRows, ClockFacts, Cutoffs DEF HistoryInv, HourOf
<1>1. maintained \in Int /\ HourlyCutoff(maintained) \in Int
  BY MaintainedFacts, Cutoffs DEF HistoryInv
<1>2. ASSUME NEW h \in Int, HourOf(h) = h, DayOf(h) = d
      PROVE  /\ Total(InBucket(PassHours, s, HourLen, h)) = Total(InBucket(accepted, s, HourLen, h))
             /\ Total(InBucket(PassHours, s, HourLen, h)) \in Nat
  <2>1. d <= h
    BY <1>2, HoursAndDays
  <2>2. h >= DailyCutoff(now) /\ maintained > 0 => h >= HourlyCutoff(maintained)
    BY <1>0, <1>1, <2>1
  <2>3. Total(At(PassHours, s, h)) = Observed(s, HourLen, h)
    BY <1>0, <1>1, <1>2, <2>1, HoursAfterPass
  <2>4. At(PassHours, s, h) = InBucket(PassHours, s, HourLen, h)
    BY <1>0, AtIsBucket
  <2> QED
    BY <1>0, <2>3, <2>4, WithinIsBucket, BucketTotalType
<1>3. /\ Total(InBucket(PassHours, s, DayLen, d)) <= Total(InBucket(accepted, s, DayLen, d))
      /\ Total(InBucket(accepted, s, DayLen, d)) <= Total(InBucket(PassHours, s, DayLen, d))
  BY <1>0, <1>2, DayFromHours
<1>4. InBucket(Since(PassHours, DailyCutoff(now)), s, DayLen, d)
        = InBucket(PassHours, s, DayLen, d)
  BY <1>0, SinceHour
<1>5. /\ Total(InBucket(PassHours, s, DayLen, d)) \in Nat
      /\ Total(InBucket(accepted, s, DayLen, d)) \in Nat
  BY <1>0, BucketTotalType
<1> QED
  BY <1>3, <1>4, <1>5, WithinIsBucket

\* No hour is there of a day that the last pass has left to the daily table.
LEMMA NoHoursOfOldDays ==
  ASSUME HistoryInv, NEW s \in Series, NEW d \in Int, DayOf(d) = d,
         maintained > 0, d < HourlyCutoff(maintained), ~Disturbed(s, d)
  PROVE  InBucket(PassHours, s, DayLen, d) = {}
<1> DEFINE P == Since(points, DailyCutoff(now))
           G == Grouped(P, HourLen)
           c == HourlyCutoff(maintained)
<1>0. /\ TablesOK /\ RollupsPlaced
      /\ TypedRowSet(P) /\ TypedRowSet(hourly) /\ HourLen \in Nat \ {0} /\ DayLen \in Nat \ {0}
  BY PassRows, LengthsHold DEF HistoryInv, Lengths
<1>1. /\ maintained \in Int /\ c \in Int /\ DayOf(c) = c /\ RawCutoff(maintained) \in Int
      /\ c <= RawCutoff(maintained)
  BY <1>0, MaintainedFacts, Cutoffs
<1> HIDE DEF P, c
<1>2. /\ TypedRowSet(G)
      /\ \A r \in G : /\ BucketOf(r.at, HourLen) = r.at
                      /\ InBucket(P, r.series, HourLen, r.at) # {}
  BY <1>0, GroupedRows
<1> HIDE DEF G
<1>3. PassHours \subseteq hourly \cup G
  BY <1>0, <1>2, UpsertedRows DEF PassHours, G, P
<1>4. ASSUME NEW r \in InBucket(PassHours, s, DayLen, d) PROVE FALSE
  <2>1. r \in hourly \cup G /\ r.series = s /\ BucketOf(r.at, DayLen) = d /\ r.at \in Int
    BY <1>0, <1>2, <1>3 DEF InBucket, TypedRowSet
  <2>2. ~(c <= r.at)
    <3>1. c <= r.at <=> c <= BucketOf(r.at, DayLen)
      BY <1>0, <1>1, <2>1, AlignedBefore DEF DayOf
    <3> QED
      BY <1>1, <2>1, <3>1 DEF c
  <2>3. r \notin hourly
    BY <1>1, <2>1, <2>2 DEF RollupsPlaced, HistoryInv, c
  <2>4. r \in G /\ HourOf(r.at) = r.at /\ DayOf(r.at) = d
    BY <1>2, <2>1, <2>3 DEF HourOf, DayOf
  <2>5. \/ InBucket(points, s, HourLen, r.at) = {}
        \/ InBucket(points, s, HourLen, r.at) = InBucket(accepted, s, HourLen, r.at)
    BY <2>1, <2>4, StoredHour
  <2>6. InBucket(points, s, HourLen, r.at) # {}
    BY <1>2, <2>1, <2>4 DEF InBucket, P, Since
  <2>7. PICK p \in points : p.series = s /\ HourOf(p.at) = r.at
    BY <2>6 DEF InBucket, HourOf
  <2>8. p \in accepted /\ p.at \in Int
    BY <1>0, RowFacts
  <2>9. DayOf(p.at) = d
    BY <2>4, <2>7, <2>8, HoursOfDays
  <2>10. ~p.late
    BY <2>7, <2>8, <2>9, LateDisturbs
  <2>11. ~(c <= p.at)
    <3>1. c <= p.at <=> c <= BucketOf(p.at, DayLen)
      BY <1>0, <1>1, <2>8, AlignedBefore DEF DayOf
    <3> QED
      BY <1>1, <2>9, <3>1 DEF c, DayOf
  <2>12. p.at < RawCutoff(maintained)
    BY <1>1, <2>8, <2>11
  <2> QED
    BY <2>7, <2>10, <2>12 DEF PointsKept, HistoryInv
<1> QED
  BY <1>4

\* Rebuilt days hold what was observed.
LEMMA DaysAfterPass ==
  ASSUME HistoryInv, NEW s \in Series, NEW d \in Int, DayOf(d) = d,
         d >= DailyCutoff(now), ~Disturbed(s, d)
  PROVE  Total(At(PassDays, s, d)) = Observed(s, DayLen, d)
<1> DEFINE H == Since(PassHours, DailyCutoff(now))
           G == Grouped(H, DayLen)
           all == InBucket(accepted, s, DayLen, d)
           B == InBucket(H, s, DayLen, d)
<1>0. /\ TablesOK /\ RollupsPlaced /\ DaysHold
      /\ TypedRowSet(H) /\ TypedRowSet(PassHours) /\ TypedRowSet(daily) /\ TypedRowSet(accepted)
      /\ now \in Int /\ DayLen \in Nat \ {0} /\ DailyCutoff(now) \in Int
  BY PassRows, ClockFacts, Cutoffs, LengthsHold DEF HistoryInv, Lengths
<1>1. /\ maintained \in Int /\ maintained <= now
      /\ HourlyCutoff(maintained) \in Int /\ RawCutoff(maintained) \in Int
      /\ DailyCutoff(maintained) \in Int /\ DayOf(HourlyCutoff(maintained)) = HourlyCutoff(maintained)
      /\ DailyCutoff(maintained) <= DailyCutoff(now)
      /\ HourlyCutoff(maintained) <= RawCutoff(maintained)
  BY <1>0, MaintainedFacts, Cutoffs, CutoffsGrow
<1>2. Observed(s, DayLen, d) = Total(all) /\ Total(all) \in Nat
  BY <1>0, WithinIsBucket, BucketTotalType
<1>3. maintained > 0 => DayHolds(s, d)
  BY <1>0, <1>1 DEF DaysHold
<1>4. B = InBucket(PassHours, s, DayLen, d)
  BY <1>0, SinceHour
<1>5. maintained > 0 /\ d < HourlyCutoff(maintained) => B = {}
  BY <1>4, NoHoursOfOldDays
<1>6. ~(maintained > 0 /\ d < HourlyCutoff(maintained)) => Total(B) = Total(all)
  BY <1>0, <1>1, <1>2, DayOfPassHours
<1> HIDE DEF H
<1>7. /\ TypedRowSet(G) /\ Total(At(G, s, d)) = Total(B)
      /\ B # {} => At(G, s, d) # {}
      /\ \A r \in G : InBucket(H, r.series, DayLen, r.at) # {}
  BY <1>0, GroupedRows
<1>8. PassDays = Upsert(daily, G)
  BY DEF PassDays, H
<1>9. B = {} => At(G, s, d) = {}
  BY <1>7 DEF At
<1>10. maintained > 0 /\ d < HourlyCutoff(maintained) => Total(CutWithin(s, d)) = Total(all)
  <2> SUFFICES ASSUME maintained > 0, d < HourlyCutoff(maintained)
               PROVE  CutWithin(s, d) = all
    OBVIOUS
  <2>1. ASSUME NEW p \in all PROVE p.at < RawCutoff(maintained)
    <3>1. p.at \in Int /\ DayOf(p.at) = d
      BY <1>0 DEF InBucket, TypedRowSet, DayOf
    <3>2. HourlyCutoff(maintained) <= p.at <=> HourlyCutoff(maintained) <= BucketOf(p.at, DayLen)
      BY <1>0, <1>1, <3>1, AlignedBefore DEF DayOf
    <3> QED
      BY <1>1, <3>1, <3>2 DEF DayOf
  <2>2. all = Within(s, DayLen, d)
    BY WithinIsBucket
  <2> HIDE DEF all
  <2> QED
    BY <2>1, <2>2 DEF CutWithin
<1> HIDE DEF G, B, all
<1>11. CASE B # {}
  <2>1. At(PassDays, s, d) = At(G, s, d)
    BY <1>0, <1>7, <1>8, <1>11, UpsertedRows
  <2> QED
    BY <1>2, <1>5, <1>6, <1>7, <1>11, <2>1
<1>12. CASE B = {}
  <2>1. At(PassDays, s, d) = At(daily, s, d) /\ Total(At(daily, s, d)) \in Nat
    BY <1>0, <1>7, <1>8, <1>9, <1>12, UpsertedRows, BucketTotalType
  <2>2. CASE maintained > 0
    <3>1. /\ Total(At(daily, s, d)) <= Total(all)
          /\ Total(CutWithin(s, d)) <= Total(At(daily, s, d))
      BY <1>2, <1>3, <2>2 DEF DayHolds
    <3>2. d < HourlyCutoff(maintained) \/ Total(all) = 0
      BY <1>6, <1>12, TotalOfNone
    <3> QED
      BY <1>2, <1>10, <2>1, <2>2, <3>1, <3>2
  <2>3. CASE ~(maintained > 0)
    <3>1. At(daily, s, d) = {}
      BY <1>0, <2>3 DEF RollupsPlaced, At
    <3> QED
      BY <1>2, <1>6, <1>12, <2>1, <2>3, <3>1
  <2> QED
    BY <2>2, <2>3
<1> QED
  BY <1>11, <1>12

LEMMA MaintainIs ==
  ASSUME Maintain
  PROVE  /\ points' = Since(points, RawCutoff(now)) /\ ledger' \subseteq ledger
         /\ hourly' = Since(PassHours, HourlyCutoff(now))
         /\ daily' = Since(PassDays, DailyCutoff(now))
         /\ maintained' = HourOf(now) /\ accepted' = accepted
BY DEF Maintain, PassHours, PassDays

LEMMA MaintainKeepsTables ==
  ASSUME HistoryInv, Maintain, now' = now
  PROVE  TablesOK'
<1>0. TablesOK /\ HistoryTypeOK
  BY DEF HistoryInv, TablesOK
<1>1. /\ points' \subseteq points /\ hourly' \subseteq PassHours /\ daily' \subseteq PassDays
      /\ maintained' = HourOf(now) /\ accepted' = accepted /\ ledger' \subseteq ledger
  BY MaintainIs DEF Since
<1>2. /\ PassHours \subseteq Rollup /\ PassDays \subseteq Rollup
      /\ TypedRowSet(PassHours) /\ TypedRowSet(PassDays)
  BY PassRows
<1>3. IsFiniteSet(hourly') /\ IsFiniteSet(daily')
  BY <1>1, <1>2, FS_Subset DEF TypedRowSet, Summable
<1>4. HistoryTypeOK'
  <2>1. now \in MinTime .. now
    BY <1>0, ClockFacts
  <2>2. maintained' \in {HourOf(t) : t \in MinTime .. now}
    BY <1>1, <2>1
  <2> QED
    BY <1>0, <1>1, <1>2, <2>2 DEF HistoryTypeOK, Point, Rollup
<1> QED
  BY <1>0, <1>1, <1>3, <1>4 DEF TablesOK

LEMMA MaintainKeepsHistory ==
  ASSUME HistoryInv, Maintain, now' = now
  PROVE  HistoryInv'
<1>0. TablesOK /\ TablesOK'
  BY MaintainKeepsTables DEF HistoryInv
<1>1. /\ points' = Since(points, RawCutoff(now)) /\ hourly' = Since(PassHours, HourlyCutoff(now))
      /\ daily' = Since(PassDays, DailyCutoff(now))
      /\ maintained' = HourOf(now) /\ accepted' = accepted
  BY MaintainIs
<1>2. now \in Int /\ HourOf(now) > 0 /\ maintained \in Int /\ maintained <= now
  BY <1>0, ClockFacts, MaintainedFacts
<1>3. /\ RawCutoff(maintained') = RawCutoff(now)
      /\ HourlyCutoff(maintained') = HourlyCutoff(now)
      /\ DailyCutoff(maintained') = DailyCutoff(now)
  BY <1>1, <1>2, CutoffsOfHour
<1>4. /\ RawCutoff(maintained) <= RawCutoff(now) /\ RawCutoff(maintained) \in Int
      /\ HourlyCutoff(maintained) <= HourlyCutoff(now) /\ HourlyCutoff(maintained) \in Int
      /\ RawCutoff(now) \in Int /\ HourlyCutoff(now) \in Int /\ DailyCutoff(now) \in Int
      /\ DailyCutoff(now) <= HourlyCutoff(now)
  BY <1>2, CutoffsGrow, Cutoffs
<1>5. points \subseteq accepted /\ \A p \in accepted : p.at \in Int
  BY <1>0, RowFacts
<1>6. ReadingsOrdered'
  <2>1. points' \subseteq points /\ ReadingsOrdered
    BY <1>1 DEF Since, HistoryInv
  <2> QED
    BY <1>1, <2>1 DEF ReadingsOrdered
<1>7. PointsKept'
  <2>1. ASSUME NEW p \in accepted PROVE p.at < RawCutoff(now) \/ p \in points'
    <3>1. (maintained > 0 /\ p.at < RawCutoff(maintained)) \/ p \in points
      BY DEF PointsKept, HistoryInv
    <3> QED
      BY <1>1, <1>4, <1>5, <3>1 DEF Since
  <2>2. \A p \in points' : ~(p.at < RawCutoff(now))
    BY <1>1, <1>4, <1>5 DEF Since
  <2> QED
    BY <1>1, <1>2, <1>3, <2>1, <2>2 DEF PointsKept
<1>8. RollupsPlaced'
  <2>1. (\A r \in PassHours : HourOf(r.at) = r.at) /\ \A r \in PassDays : DayOf(r.at) = r.at
    BY PassRows
  <2> QED
    BY <1>1, <1>2, <1>3, <2>1 DEF RollupsPlaced, Since
<1>9. \A s, day : Disturbed(s, day)' <=> Disturbed(s, day)
  BY <1>1 DEF Disturbed
<1>10. ASSUME NEW s, NEW len, NEW b
       PROVE  Within(s, len, b)' = Within(s, len, b) /\ Observed(s, len, b)' = Observed(s, len, b)
  BY <1>1 DEF Within, Observed
<1>11. ASSUME NEW s \in Series, NEW len, NEW b
       PROVE  Observed(s, len, b) \in Nat
  <2>1. TypedRowSet(accepted)
    BY PassRows
  <2> QED
    BY <2>1, WithinIsBucket, BucketTotalType
<1>12. HoursHold'
  <2> SUFFICES ASSUME NEW s \in Series, NEW h \in Int, HourOf(h) = h,
                      h >= HourlyCutoff(now), ~Disturbed(s, DayOf(h))
               PROVE  HourHolds(s, h)'
    BY <1>3, <1>9 DEF HoursHold
  <2>1. Total(At(PassHours, s, h)) = Observed(s, HourLen, h)
    BY <1>4, HoursAfterPass
  <2>2. At(hourly', s, h) = At(PassHours, s, h)
    BY <1>1 DEF At, Since
  <2>3. At(hourly, s, h)' = At(hourly', s, h)
    BY DEF At
  <2> QED
    BY <1>10, <1>11, <2>1, <2>2, <2>3 DEF HourHolds
<1>13. DaysHold'
  <2> SUFFICES ASSUME NEW s \in Series, NEW d \in Int, DayOf(d) = d,
                      d >= DailyCutoff(now), ~Disturbed(s, d)
               PROVE  DayHolds(s, d)'
    BY <1>3, <1>9 DEF DaysHold
  <2>1. Total(At(PassDays, s, d)) = Observed(s, DayLen, d)
    BY DaysAfterPass
  <2>2. At(daily, s, d)' = At(PassDays, s, d)
    BY <1>1 DEF At, Since
  <2>3. CutWithin(s, d)' \subseteq Within(s, DayLen, d)
    BY <1>10 DEF CutWithin
  <2>4. Summable(Within(s, DayLen, d)) /\ Total(Within(s, DayLen, d)) = Observed(s, DayLen, d)
    <3>1. TypedRowSet(accepted)
      BY PassRows
    <3> QED
      BY <3>1, WithinIsBucket, BucketTotalType
  <2>5. Total(CutWithin(s, d)') <= Observed(s, DayLen, d)
    BY <2>3, <2>4, TotalOfPart
  <2> QED
    BY <1>10, <1>11, <2>1, <2>2, <2>5 DEF DayHolds
<1> QED
  BY <1>0, <1>6, <1>7, <1>8, <1>12, <1>13 DEF HistoryInv

-----------------------------------------------------------------------------
(* Purges and the passing of time.                                            *)

\* The rows of workspaces that stay.
Staying(rows, gone) == {r \in rows : InstanceOf[r.series] \notin gone}

LEMMA PurgeIs ==
  ASSUME NEW gone, PurgeOf(gone)
  PROVE  /\ points' = Staying(points, gone) /\ hourly' = Staying(hourly, gone)
         /\ daily' = Staying(daily, gone) /\ accepted' = Staying(accepted, gone)
         /\ ledger' \subseteq ledger /\ maintained' = maintained
BY DEF PurgeOf, Staying

LEMMA PurgeKeepsTables ==
  ASSUME TablesOK, NEW gone, PurgeOf(gone), now' = now
  PROVE  TablesOK'
<1>1. /\ points' \subseteq points /\ hourly' \subseteq hourly /\ daily' \subseteq daily
      /\ accepted' \subseteq accepted /\ ledger' \subseteq ledger /\ maintained' = maintained
  BY PurgeIs DEF Staying
<1>2. IsFiniteSet(accepted') /\ IsFiniteSet(hourly') /\ IsFiniteSet(daily')
  BY <1>1, FS_Subset DEF TablesOK
<1>3. points' \subseteq accepted'
  BY PurgeIs DEF Staying, TablesOK, HistoryTypeOK
<1>4. HistoryTypeOK'
  BY <1>1, <1>3 DEF HistoryTypeOK, TablesOK, Point, Rollup
<1> QED
  BY <1>1, <1>2, <1>4 DEF TablesOK

LEMMA PurgeKeepsHistory ==
  ASSUME HistoryInv, NEW gone, PurgeOf(gone), now' = now
  PROVE  HistoryInv'
<1>0. TablesOK /\ TablesOK'
  BY PurgeKeepsTables DEF HistoryInv
<1>1. /\ points' = Staying(points, gone) /\ hourly' = Staying(hourly, gone)
      /\ daily' = Staying(daily, gone) /\ accepted' = Staying(accepted, gone)
      /\ maintained' = maintained
  BY PurgeIs
<1>2. ReadingsOrdered'
  BY <1>1 DEF ReadingsOrdered, HistoryInv, Staying
<1>3. PointsKept'
  BY <1>1 DEF PointsKept, HistoryInv, Staying
<1>4. RollupsPlaced'
  BY <1>1 DEF RollupsPlaced, HistoryInv, Staying
<1>5. ASSUME NEW s \in Series, InstanceOf[s] \in gone
      PROVE  /\ \A b : At(hourly, s, b)' = {} /\ At(daily, s, b)' = {}
             /\ \A len, b : Within(s, len, b)' = {} /\ Observed(s, len, b)' = Total({})
  <2>1. /\ \A r \in hourly' : r.series # s
        /\ \A r \in daily' : r.series # s
        /\ \A r \in accepted' : r.series # s
    BY <1>1, <1>5 DEF Staying
  <2>2. \A b : At(hourly, s, b)' = {} /\ At(daily, s, b)' = {}
    BY <2>1 DEF At
  <2>3. OfSeries(accepted', s) = {}
    BY <2>1 DEF OfSeries
  <2>4. ASSUME NEW len, NEW b PROVE Within(s, len, b)' = {} /\ Observed(s, len, b)' = Total({})
    <3>1. {p \in OfSeries(accepted', s) : BucketOf(p.at, len) = b} = {}
      BY <2>3
    <3> QED
      BY <3>1 DEF Within, Observed
  <2> QED
    BY <2>2, <2>4
<1>6. ASSUME NEW s \in Series, InstanceOf[s] \notin gone
      PROVE  /\ \A b : At(hourly, s, b)' = At(hourly, s, b) /\ At(daily, s, b)' = At(daily, s, b)
             /\ \A len, b : /\ Within(s, len, b)' = Within(s, len, b)
                            /\ Observed(s, len, b)' = Observed(s, len, b)
             /\ \A day : Disturbed(s, day)' <=> Disturbed(s, day)
  <2>1. OfSeries(accepted', s) = OfSeries(accepted, s)
    BY <1>1, <1>6 DEF OfSeries, Staying
  <2>2. \A b : At(hourly, s, b)' = At(hourly, s, b) /\ At(daily, s, b)' = At(daily, s, b)
    BY <1>1, <1>6 DEF At, Staying
  <2>3. \A len, b : Within(s, len, b)' = Within(s, len, b) /\ Observed(s, len, b)' = Observed(s, len, b)
    BY <2>1 DEF Within, Observed
  <2>4. \A day : Disturbed(s, day)' <=> Disturbed(s, day)
    BY <2>1 DEF Disturbed
  <2> QED
    BY <2>2, <2>3, <2>4
<1>7. HoursHold'
  <2> SUFFICES ASSUME maintained > 0, NEW s \in Series, NEW h \in Int, HourOf(h) = h,
                      h >= HourlyCutoff(maintained), ~Disturbed(s, DayOf(h))'
               PROVE  HourHolds(s, h)'
    BY <1>1 DEF HoursHold
  <2>1. CASE InstanceOf[s] \in gone
    BY <1>5, <2>1, TotalOfNone DEF HourHolds
  <2>2. CASE InstanceOf[s] \notin gone
    <3>1. HourHolds(s, h)
      BY <1>6, <2>2 DEF HoursHold, HistoryInv
    <3>2. Total(At(hourly, s, h))' = Total(At(hourly, s, h))
      BY <1>6, <2>2
    <3> QED
      BY <1>1, <1>6, <2>2, <3>1, <3>2 DEF HourHolds
  <2> QED
    BY <2>1, <2>2
<1>8. DaysHold'
  <2> SUFFICES ASSUME maintained > 0, NEW s \in Series, NEW d \in Int, DayOf(d) = d,
                      d >= DailyCutoff(maintained), ~Disturbed(s, d)'
               PROVE  DayHolds(s, d)'
    BY <1>1 DEF DaysHold
  <2>1. CASE InstanceOf[s] \in gone
    <3>1. CutWithin(s, d)' = {}
      <4>1. Within(s, DayLen, d)' = {}
        BY <1>5, <2>1
      <4> QED
        BY <4>1 DEF CutWithin
    <3> QED
      BY <1>5, <2>1, <3>1, TotalOfNone DEF DayHolds
  <2>2. CASE InstanceOf[s] \notin gone
    <3>1. DayHolds(s, d)
      BY <1>6, <2>2 DEF DaysHold, HistoryInv
    <3>2. Total(At(daily, s, d))' = Total(At(daily, s, d))
      BY <1>6, <2>2
    <3>3. CutWithin(s, d)' = CutWithin(s, d)
      BY <1>1, <1>6, <2>2 DEF CutWithin
    <3> QED
      BY <1>1, <1>6, <2>2, <3>1, <3>2, <3>3 DEF DayHolds
  <2> QED
    BY <2>1, <2>2
<1> QED
  BY <1>0, <1>2, <1>3, <1>4, <1>7, <1>8 DEF HistoryInv

LEMMA TimeKeepsHistory ==
  ASSUME HistoryInv, UNCHANGED historyVars, now' \in MinTime .. MaxTime, now' >= now
  PROVE  HistoryInv'
<1>1. /\ accepted' = accepted /\ points' = points /\ hourly' = hourly /\ daily' = daily
      /\ ledger' = ledger /\ maintained' = maintained
  BY DEF historyVars
<1>2. MinTime .. now \subseteq MinTime .. now' /\ now <= now' /\ now \in Nat /\ now' \in Int
  BY ClockFacts DEF HistoryInv
<1>3. HistoryTypeOK'
  BY <1>1, <1>2 DEF HistoryTypeOK, TablesOK, HistoryInv, Point, Rollup
<1>4. \A p \in accepted : p.at <= now' + Ahead
  <2>1. Ahead \in Nat /\ \A p \in accepted : p.at \in Int /\ p.at <= now + Ahead
    BY ClockFacts, RowFacts DEF TablesOK, HistoryInv
  <2> QED
    BY <1>2, <2>1
<1>5. TablesOK'
  BY <1>1, <1>3, <1>4 DEF TablesOK, HistoryInv
<1>6. ReadingsOrdered' /\ PointsKept' /\ RollupsPlaced'
  BY <1>1 DEF HistoryInv, ReadingsOrdered, PointsKept, RollupsPlaced
<1>7. ASSUME NEW s, NEW len, NEW b
      PROVE  /\ At(hourly, s, b)' = At(hourly, s, b) /\ At(daily, s, b)' = At(daily, s, b)
             /\ Observed(s, len, b)' = Observed(s, len, b)
             /\ CutWithin(s, b)' = CutWithin(s, b)
             /\ Disturbed(s, b)' <=> Disturbed(s, b)
  BY <1>1 DEF At, Observed, CutWithin, Within, Disturbed
<1>8. HoursHold'
  BY <1>1, <1>7 DEF HoursHold, HourHolds, HistoryInv
<1>9. DaysHold'
  BY <1>1, <1>7 DEF DaysHold, DayHolds, HistoryInv
<1> QED
  BY <1>5, <1>6, <1>8, <1>9 DEF HistoryInv

\* A reading that a workspace delivers is one that IngestMetrics describes.
LEMMA DeliveredReading ==
  ASSUME now \in Int, NEW s \in Series, NEW age \in Ages[s], NEW reading \in Counters, NEW p,
         p = [series |-> s, at |-> now - age, start |-> reading[1], raw |-> reading[2]],
         Plausible(p)
  PROVE  Reading(p)
<1>1. reading[1] \in Nat /\ reading[2] \in Nat /\ age \in Int /\ age >= -Ahead /\ Ahead \in Nat
  BY HistoryAssumption DEF HistoryAssumption
<1>2. now - age \in Int /\ now - age <= now + Ahead
  BY <1>1
<1>3. DOMAIN p = {"series", "at", "start", "raw"}
  OBVIOUS
<1>4. p.series = s /\ p.at = now - age /\ p.start = reading[1] /\ p.raw = reading[2]
  OBVIOUS
<1> QED
  BY <1>1, <1>2, <1>3, <1>4 DEF Reading

LEMMA HistoryStep == HistoryInv /\ [Next]_vars => HistoryInv'
<1> SUFFICES ASSUME HistoryInv, [Next]_vars PROVE HistoryInv'
  OBVIOUS
<1>0. now \in MinTime .. MaxTime /\ now \in Nat /\ now >= now /\ Step \in Nat
  BY ClockFacts DEF HistoryInv, TablesOK
<1>1. ASSUME UNCHANGED historyVars, now' = now PROVE HistoryInv'
  BY <1>0, <1>1, TimeKeepsHistory
<1>2. CASE UNCHANGED vars
  BY <1>1, <1>2 DEF vars
<1>3. CASE Tick
  <2>1. now + Step >= now /\ now + Step \in MinTime .. MaxTime
    BY <1>0, <1>3, ClockFacts DEF Tick, HistoryInv
  <2> QED
    BY <1>3, <2>1, TimeKeepsHistory DEF Tick
<1>4. CASE IngestMetrics
  <2>0. PICK s \in Series : \E age \in Ages[s], reading \in Counters :
          LET p == [series |-> s, at |-> now - age, start |-> reading[1], raw |-> reading[2]]
          IN Plausible(p) /\ Ingest(p)
    BY <1>4 DEF IngestMetrics
  <2>1. PICK age \in Ages[s], reading \in Counters :
          LET p == [series |-> s, at |-> now - age, start |-> reading[1], raw |-> reading[2]]
          IN Plausible(p) /\ Ingest(p)
    BY <2>0
  <2> DEFINE p == [series |-> s, at |-> now - age, start |-> reading[1], raw |-> reading[2]]
  <2>2. Plausible(p) /\ Ingest(p) /\ p = [series |-> s, at |-> now - age, start |-> reading[1], raw |-> reading[2]]
    BY <2>1
  <2> HIDE DEF p
  <2>3. Reading(p)
    BY <1>0, <2>2, DeliveredReading
  <2>4. now' = now
    BY <1>4 DEF IngestMetrics
  <2> QED
    BY <2>2, <2>3, <2>4, IngestKeepsHistory
<1>5. CASE IngestGit
  BY <1>1, <1>5 DEF IngestGit
<1>6. CASE MaintenancePass
  BY <1>6, MaintainKeepsHistory DEF MaintenancePass
<1>7. ASSUME NEW gone, Purge(gone) PROVE HistoryInv'
  BY <1>7, PurgeKeepsHistory DEF Purge
<1>8. CASE ReadActivity
  BY <1>1, <1>8 DEF ReadActivity
<1> QED
  BY <1>2, <1>3, <1>4, <1>5, <1>6, <1>7, <1>8 DEF Next, PurgeBox, PurgeInstance

\* Points, rollups and what was observed stay in agreement in every behaviour.
LEMMA HistoryHolds == Spec => []HistoryInv
<1>1. Init => HistoryInv
  <2> SUFFICES ASSUME Init PROVE HistoryInv
    OBVIOUS
  <2>1. /\ now = MinTime /\ points = {} /\ hourly = {} /\ daily = {} /\ ledger = {}
        /\ accepted = {} /\ maintained = 0
    BY DEF Init, HistoryInit
  <2>2. IsFiniteSet({}) /\ MinTime \in MinTime .. MaxTime
    BY FS_EmptySet, HistoryAssumption DEF HistoryAssumption
  <2>3. TablesOK
    BY <2>1, <2>2 DEF TablesOK, HistoryTypeOK
  <2> QED
    BY <2>1, <2>3 DEF HistoryInv, ReadingsOrdered, PointsKept, RollupsPlaced, HoursHold, DaysHold
<1> QED
  BY <1>1, HistoryStep, PTL DEF Spec

-----------------------------------------------------------------------------
(* Types of both tables.                                                      *)

\* The identifiers of commits, and the cursor of a client, stay within bounds.
LEMMA PageIsTyped ==
  ASSUME commits \in SUBSET Commit, NEW q \in Query, NEW cursor,
         NEW seen \in SUBSET Commit, NEW due \in SUBSET Commit,
         CursorOK(Page(q, cursor, seen, due))
  PROVE  Page(q, cursor, seen, due) \in Pager
<1> DEFINE fetched == Newest(Rows(q, cursor), PageSize + 1)
           shown   == Newest(fetched, PageSize)
           more    == Cardinality(fetched) > PageSize
           next    == IF more THEN Min({c.id : c \in shown}) ELSE 0
           p       == Page(q, cursor, seen, due)
<1>1. p = [query |-> q, seen |-> seen \cup shown, due |-> due, more |-> more, cursor |-> next]
  BY DEF Page
<1>2. shown \subseteq commits
  BY DEF Newest, Rows
<1>3. more \in BOOLEAN /\ MaxId \in Nat
  BY PagesAssumption
<1>4. p.more = more /\ p.cursor = next
  BY <1>1
<1>5. more => next \in 1 .. MaxId
  BY <1>4 DEF CursorOK
<1>6. ~more => next = 0
  OBVIOUS
<1> HIDE DEF shown, more, next, p
<1>7. next \in 0 .. MaxId
  BY <1>3, <1>5, <1>6
<1> QED
  BY <1>1, <1>2, <1>3, <1>7 DEF Pager, p

LEMMA RemovalKeepsTypes ==
  ASSUME ActivityTypeOK, NEW gone, RemoveCommits(gone)
  PROVE  ActivityTypeOK'
<1>1. commits' = commits \ gone /\ Without(gone)
  BY DEF RemoveCommits
<1>2. CASE pager = Nobody
  BY <1>1, <1>2 DEF ActivityTypeOK, Without, Paging, Commit
<1>3. CASE pager # Nobody
  <2>1. pager \in Pager
    BY <1>3 DEF ActivityTypeOK
  <2>2. pager' = [pager EXCEPT !.seen = @ \ gone, !.due = @ \ gone]
    BY <1>1, <1>3 DEF Without, Paging
  <2>3. [pager EXCEPT !.seen = @ \ gone, !.due = @ \ gone] \in Pager
    BY <2>1 DEF Pager
  <2> QED
    BY <1>1, <2>2, <2>3 DEF ActivityTypeOK, Commit, Pager
<1> QED
  BY <1>2, <1>3

LEMMA ActivityTypes ==
  ASSUME ActivityTypeOK, PagingInv, PagingInv', now \in Int, [Next]_vars
  PROVE  ActivityTypeOK'
<1>0. /\ Repositories \subseteq Workspaces /\ Instances \subseteq Workspaces /\ CommitAges \subseteq Int
      /\ MaxId \in Nat
  BY DatabaseAssumption, PagesAssumption DEF DatabaseAssumption
<1>1. ASSUME UNCHANGED activityVars PROVE ActivityTypeOK'
  BY <1>1 DEF activityVars, ActivityTypeOK, Commit, Pager
<1>2. CASE UNCHANGED vars \/ Tick \/ IngestMetrics
  BY <1>1, <1>2 DEF vars, Tick, IngestMetrics
<1>3. CASE IngestGit
  <2>1. PICK i \in Repositories, sha \in Shas, age \in CommitAges : InsertCommit(i, sha, now - age)
    BY <1>3 DEF IngestGit
  <2> DEFINE row == [id |-> NextId, workspace |-> i, sha |-> sha, at |-> now - age]
  <2>2. commits' = commits \cup {row} /\ pager' = pager
    BY <2>1 DEF InsertCommit
  <2>3. row.id \in 0 .. MaxId /\ row.id > 0
    BY <2>2 DEF PagingInv, CommitsOK, Numbered
  <2>4. row \in Commit
    <3>1. now - age \in Int /\ i \in Workspaces
      BY <1>0
    <3>2. NextId \in 1 .. MaxId
      BY <1>0, <2>3
    <3> QED
      BY <3>1, <3>2 DEF Commit
  <2> HIDE DEF row
  <2> QED
    BY <2>2, <2>4 DEF ActivityTypeOK, Commit, Pager
<1>4. CASE MaintenancePass
  BY <1>4, RemovalKeepsTypes DEF MaintenancePass
<1>5. ASSUME NEW gone, Purge(gone) PROVE ActivityTypeOK'
  BY <1>5, RemovalKeepsTypes DEF Purge
<1>6. ASSUME NEW q \in Query, NEW cursor,
             NEW seen \in SUBSET Commit, NEW due \in SUBSET Commit,
             pager' = Page(q, cursor, seen, due), commits' = commits, pager' # Nobody
      PROVE  ActivityTypeOK'
  <2>1. CursorOK(pager)'
    BY <1>6 DEF PagingInv, PagerOK
  <2>2. CursorOK(Page(q, cursor, seen, due))
    BY <1>6, <2>1 DEF CursorOK, Rows
  <2>3. pager' \in Pager
    BY <1>6, <2>2, PageIsTyped DEF ActivityTypeOK
  <2> QED
    BY <1>6, <2>3 DEF ActivityTypeOK, Commit, Pager
<1>7. ASSUME commits' = commits, pager' = Nobody PROVE ActivityTypeOK'
  BY <1>7 DEF ActivityTypeOK, Commit
<1>8. CASE ReadActivity
  <2>1. ASSUME NEW q \in Query, pager' = Page(q, 0, {}, Rows(q, 0)), commits' = commits
        PROVE  ActivityTypeOK'
    <3>1. Rows(q, 0) \in SUBSET Commit
      BY DEF Rows, ActivityTypeOK
    <3> QED
      BY <1>6, <1>7, <2>1, <3>1
  <2>2. CASE NextPage(now)
    <3>1. pager \in Pager
      BY <2>2 DEF NextPage, Paging, ActivityTypeOK
    <3>2. /\ pager.query \in Query /\ pager.seen \in SUBSET Commit
          /\ pager.due \in SUBSET Commit
      BY <3>1 DEF Pager
    <3>3. AtPage(pager.query, now) \in Query
      BY <1>1, <3>2, PagesAssumption DEF AtPage, Sliding, Query
    <3>4. pager' = Page(AtPage(pager.query, now), pager.cursor, pager.seen, pager.due)
          /\ commits' = commits
      BY <2>2 DEF NextPage
    <3> QED
      BY <1>6, <1>7, <3>2, <3>3, <3>4
  <2>3. CASE LastPage
    BY <1>7, <2>3 DEF LastPage
  <2>4. CASE ~(NextPage(now) \/ LastPage)
    <3>1. PICK t \in Tenants, boxes \in {Boxes} \cup {{b} : b \in Boxes} :
            \/ FirstPage(Sliding(InstancesOf(t, boxes), now))
            \/ \E range \in Ranges :
                 /\ range[1] < range[2] /\ range[2] <= now + Ahead
                 /\ FirstPage(Between(InstancesOf(t, boxes), range[1], range[2]))
      BY <1>8, <2>4 DEF ReadActivity
    <3>2. InstancesOf(t, boxes) \in SUBSET Workspaces
      BY <1>0 DEF InstancesOf
    <3>3. CASE FirstPage(Sliding(InstancesOf(t, boxes), now))
      <4> DEFINE q == Sliding(InstancesOf(t, boxes), now)
      <4>1. pager' = Page(q, 0, {}, Rows(q, 0)) /\ commits' = commits
        BY <3>3 DEF FirstPage
      <4>2. q \in Query
        BY <1>1, <3>2, PagesAssumption DEF Sliding, Query
      <4> HIDE DEF q
      <4> QED BY <2>1, <4>1, <4>2
    <3>4. ASSUME NEW range \in Ranges,
                 FirstPage(Between(InstancesOf(t, boxes), range[1], range[2]))
          PROVE  ActivityTypeOK'
      <4> DEFINE q == Between(InstancesOf(t, boxes), range[1], range[2])
      <4>1. pager' = Page(q, 0, {}, Rows(q, 0)) /\ commits' = commits
        BY <3>4 DEF FirstPage
      <4>2. q \in Query
        BY <3>2, DatabaseAssumption DEF Between, Query
      <4> HIDE DEF q
      <4> QED BY <2>1, <4>1, <4>2
    <3> QED BY <3>1, <3>3, <3>4
  <2> QED
    BY <2>2, <2>3, <2>4
<1> QED
  BY <1>2, <1>3, <1>4, <1>5, <1>8 DEF Next, PurgeBox, PurgeInstance

\* Clock, points, rollups, batches, commits and the client's page are what the
\* handlers of insights_store.py can write.
THEOREM TypesHold == Spec => []TypeOK
<1>1. Init => ActivityTypeOK
  BY DEF Init, ActivityInit, ActivityTypeOK
<1>2. HistoryInv => now \in Int
  BY ClockFacts DEF HistoryInv
<1>3. /\ ActivityTypeOK /\ HistoryInv /\ PagingInv /\ PagingInv' /\ [Next]_vars
      => ActivityTypeOK'
  BY <1>2, ActivityTypes
<1>4. ActivityTypeOK /\ HistoryInv => TypeOK
  BY DEF HistoryInv, TablesOK, TypeOK
<1> QED
  BY <1>1, <1>3, <1>4, HistoryHolds, PagingHolds, PTL DEF Spec

-----------------------------------------------------------------------------
(* Queries.                                                                   *)

\* Distinct copies of rows have the total of the rows.
LEMMA TotalOfCopies ==
  ASSUME NEW S, Summable(S), NEW g, \A x \in S : g[x].value = x.value,
         \A x, y \in S : g[x] = g[y] => x = y
  PROVE  Summable({g[x] : x \in S}) /\ Total({g[x] : x \in S}) = Total(S)
<1> DEFINE T == {g[x] : x \in S}
           k == [y \in T |-> y]
           l == [x \in S |-> g[x]]
<1>1. Summable(T)
  BY FiniteImage DEF Summable
<1>2. ASSUME NEW x \in S
      PROVE  /\ Group(T, k, g[x]) = {g[x]} /\ Group(S, l, g[x]) = {x}
             /\ Total(Group(T, k, g[x])) = Total(Group(S, l, g[x]))
             /\ Total(Group(S, l, g[x])) \in Nat
  <2>1. Group(T, k, g[x]) = {g[x]}
    BY DEF Group
  <2>2. Group(S, l, g[x]) = {x}
    BY DEF Group
  <2>3. x.value \in Nat /\ g[x].value = x.value
    BY DEF Summable
  <2>4. Total({g[x]}) = x.value /\ Total({x}) = x.value
    BY <2>3, TotalOfOne
  <2> HIDE DEF T, k, l
  <2> QED
    BY <2>1, <2>2, <2>3, <2>4
<1>3. ASSUME NEW y \in T PROVE Total(Group(T, k, k[y])) <= Total(Group(S, l, k[y]))
  <2>1. PICK x \in S : y = g[x]
    OBVIOUS
  <2>2. k[y] = g[x]
    BY <2>1
  <2> HIDE DEF T, k, l
  <2> QED
    BY <1>2, <2>2
<1>4. ASSUME NEW x \in S PROVE Total(Group(S, l, l[x])) <= Total(Group(T, k, l[x]))
  <2>1. l[x] = g[x]
    OBVIOUS
  <2> HIDE DEF T, k, l
  <2> QED
    BY <1>2, <2>1
<1> HIDE DEF k, l, T
<1>5. Total(T) <= Total(S) /\ Total(S) <= Total(T)
  BY <1>1, <1>3, <1>4, TotalByKey
<1>6. Total(T) \in Nat /\ Total(S) \in Nat
  BY <1>1, TotalType
<1> QED
  BY <1>1, <1>5, <1>6 DEF T

\* Rows of one table as a query returns them.
Tagged(table, rows) ==
  {[table |-> table, series |-> r.series, at |-> r.at, value |-> r.value] : r \in rows}

\* Rows that differ in what a query returns of them.
Distinct(rows) ==
  \A r, q \in rows : r.series = q.series /\ r.at = q.at /\ r.value = q.value => r = q

LEMMA TaggedRows ==
  ASSUME NEW table, NEW rows, TypedRowSet(rows), Distinct(rows)
  PROVE  /\ TypedRowSet(Tagged(table, rows))
         /\ \A s, len, b : Total(InBucket(Tagged(table, rows), s, len, b))
                             = Total(InBucket(rows, s, len, b))
<1> DEFINE g == [r \in rows |->
                   [table |-> table, series |-> r.series, at |-> r.at, value |-> r.value]]
<1>a. \A r \in rows : [table |-> table, series |-> r.series, at |-> r.at, value |-> r.value] = g[r]
  OBVIOUS
<1>b. \A r \in rows : g[r].value = r.value /\ g[r].series = r.series /\ g[r].at = r.at
  OBVIOUS
<1> HIDE DEF g
<1>1. \A r, q \in rows : g[r] = g[q] => r = q
  <2> SUFFICES ASSUME NEW r \in rows, NEW q \in rows, g[r] = g[q] PROVE r = q
    OBVIOUS
  <2>1. r.series = q.series /\ r.at = q.at /\ r.value = q.value
    BY <1>b
  <2> QED
    BY <2>1 DEF Distinct
<1>2. Tagged(table, rows) = {g[r] : r \in rows}
  <2>1. ASSUME NEW x \in Tagged(table, rows) PROVE x \in {g[r] : r \in rows}
    <3>1. PICK r \in rows :
            x = [table |-> table, series |-> r.series, at |-> r.at, value |-> r.value]
      BY DEF Tagged
    <3>2. x = g[r]
      BY <1>a, <3>1, Zenon
    <3> QED
      BY <3>2
  <2>2. ASSUME NEW r \in rows PROVE g[r] \in Tagged(table, rows)
    BY <1>a DEF Tagged
  <2> QED
    BY <2>1, <2>2
<1>3. Summable(rows) /\ \A r \in rows : r.series \in Series /\ r.at \in Int
  BY DEF TypedRowSet
<1>4. TypedRowSet(Tagged(table, rows))
  <2>1. Summable({g[r] : r \in rows})
    BY <1>b, <1>1, <1>3, TotalOfCopies
  <2> QED
    BY <1>b, <1>2, <1>3, <2>1 DEF TypedRowSet
<1>5. ASSUME NEW s, NEW len, NEW b
      PROVE  Total(InBucket(Tagged(table, rows), s, len, b)) = Total(InBucket(rows, s, len, b))
  <2> DEFINE S == InBucket(rows, s, len, b)
  <2>1. InBucket(Tagged(table, rows), s, len, b) = {g[r] : r \in S}
    BY <1>b, <1>2 DEF InBucket
  <2>2. S \subseteq rows /\ Summable(S)
    BY <1>3, SummablePart DEF InBucket
  <2> HIDE DEF S
  <2>3. Total({g[r] : r \in S}) = Total(S)
    BY <1>b, <1>1, <2>2, TotalOfCopies
  <2> QED
    BY <2>1, <2>3 DEF S
<1> QED
  BY <1>4, <1>5

Spanning(rows, from, to) == {r \in rows : r.at >= from /\ r.at < to}

\* The rows of a query over the whole daily retention, table by table.
RawPart(clock)    == Since(points, DailyCutoff(clock))
HourlyPart(clock) == Spanning(hourly, HourlyCutoff(clock), RawCutoff(clock))
DailyPart(clock)  == Spanning(daily, DailyCutoff(clock), HourlyCutoff(clock))

Source(clock, until) == MetricSource(clock, DailyCutoff(clock), until)

LEMMA SourceParts ==
  ASSUME TablesOK, NEW clock \in Int, clock <= now, NEW until \in Int, until >= now + Ahead
  PROVE  Source(clock, until) = Tagged("raw", RawPart(clock))
                                \cup Tagged("hourly", HourlyPart(clock))
                                \cup Tagged("daily", DailyPart(clock))
<1> DEFINE d == DailyCutoff(clock)
           h == HourlyCutoff(clock)
           c == RawCutoff(clock)
<1>1. d \in Int /\ h \in Int /\ c \in Int /\ d <= h /\ h <= c /\ c <= until
  <2>1. now \in Nat /\ Ahead \in Nat
    BY ClockFacts
  <2> QED
    BY <2>1, Cutoffs
<1> HIDE DEF d, h, c
<1>2. Max({d, h}) = h /\ Max({d, d}) = d /\ Min({until, c}) = c /\ Min({until, h}) = h
  <2>1. /\ Max({d, h}) = IF d >= h THEN d ELSE h
        /\ Max({d, d}) = IF d >= d THEN d ELSE d
        /\ Min({until, c}) = IF until <= c THEN until ELSE c
        /\ Min({until, h}) = IF until <= h THEN until ELSE h
    BY <1>1, MaxOfTwo, MinOfTwo
  <2> QED
    BY <1>1, <2>1
<1>3. {p \in points : p.at >= d /\ p.at <= until} = RawPart(clock)
  <2>1. \A p \in points : p \in accepted /\ p.at \in Int /\ p.at <= now + Ahead
    BY RowFacts DEF TablesOK
  <2>2. now \in Nat /\ Ahead \in Nat
    BY ClockFacts
  <2> QED
    BY <1>1, <2>1, <2>2 DEF RawPart, Since, d
<1>4. /\ {r \in hourly : r.at >= Max({d, h}) /\ r.at < Min({until, c})} = HourlyPart(clock)
      /\ {r \in daily : r.at >= Max({d, d}) /\ r.at < Min({until, h})} = DailyPart(clock)
  BY <1>2 DEF HourlyPart, DailyPart, Spanning, d, h, c
<1>5. MetricSource(clock, d, until) =
        Tagged("raw", {p \in points : p.at >= d /\ p.at <= until})
        \cup Tagged("hourly", {r \in hourly : r.at >= Max({d, h}) /\ r.at < Min({until, c})})
        \cup Tagged("daily", {r \in daily : r.at >= Max({d, d}) /\ r.at < Min({until, h})})
  BY DEF MetricSource, Tagged, d, h, c
<1> QED
  BY <1>3, <1>4, <1>5, Zenon DEF Source, d

LEMMA TotalOfThree ==
  ASSUME NEW A, Summable(A), NEW B, Summable(B), NEW C, Summable(C),
         A \cap B = {}, A \cap C = {}, B \cap C = {}
  PROVE  Total(A \cup B \cup C) = Total(A) + Total(B) + Total(C)
<1>1. Summable(A \cup B) /\ Total(A \cup B) = Total(A) + Total(B)
  BY SummableUnion, TotalOfUnion
<1>2. (A \cup B) \cap C = {}
  OBVIOUS
<1>3. Total((A \cup B) \cup C) = Total(A \cup B) + Total(C)
  BY <1>1, <1>2, TotalOfUnion
<1> QED
  BY <1>1, <1>3, Zenon

LEMMA PartsAreDistinct ==
  ASSUME HistoryInv, NEW clock \in Int
  PROVE  /\ TypedRowSet(RawPart(clock)) /\ Distinct(RawPart(clock))
         /\ TypedRowSet(HourlyPart(clock)) /\ Distinct(HourlyPart(clock))
         /\ TypedRowSet(DailyPart(clock)) /\ Distinct(DailyPart(clock))
<1>1. /\ TypedRowSet(points) /\ TypedRowSet(hourly) /\ TypedRowSet(daily)
      /\ hourly \subseteq Rollup /\ daily \subseteq Rollup
  BY PassRows DEF HistoryInv, TablesOK, HistoryTypeOK
<1>2. RawPart(clock) \subseteq points /\ HourlyPart(clock) \subseteq hourly
      /\ DailyPart(clock) \subseteq daily
  BY DEF RawPart, HourlyPart, DailyPart, Since, Spanning
<1>3. ASSUME NEW rows, TypedRowSet(rows), NEW some \in SUBSET rows PROVE TypedRowSet(some)
  BY <1>3, SummablePart DEF TypedRowSet
<1>4. Distinct(RawPart(clock))
  <2> SUFFICES ASSUME NEW p \in points, NEW q \in points, p.series = q.series, p.at = q.at
               PROVE  p = q
    BY <1>2 DEF Distinct
  <2>1. p \in accepted /\ q \in accepted /\ p.at \in Int /\ q.at \in Int
    BY RowFacts DEF HistoryInv
  <2>2. ~Before(p, q) /\ ~Before(q, p)
    BY <2>1 DEF Before
  <2>3. Same(p, q)
    BY <2>1, <2>2 DEF HistoryInv, ReadingsOrdered
  <2> QED
    BY <2>3 DEF HistoryInv, ReadingsOrdered
<1>5. Distinct(hourly) /\ Distinct(daily)
  <2>1. ASSUME NEW r \in Rollup, NEW q \in Rollup, r.series = q.series, r.at = q.at,
               r.value = q.value
        PROVE  r = q
    BY <2>1 DEF Rollup
  <2> QED
    BY <1>1, <2>1 DEF Distinct
<1>6. Distinct(HourlyPart(clock)) /\ Distinct(DailyPart(clock))
  BY <1>2, <1>5 DEF Distinct
<1> QED
  BY <1>1, <1>2, <1>3, <1>4, <1>6

\* What a query adds up in a bucket, table by table.
LEMMA SourceTotal ==
  ASSUME HistoryInv, NEW clock \in Int, clock <= now, NEW until \in Int, until >= now + Ahead,
         NEW s, NEW len, NEW b
  PROVE  /\ TypedRowSet(Source(clock, until))
         /\ Total(InBucket(Source(clock, until), s, len, b))
              = Total(InBucket(RawPart(clock), s, len, b))
                + Total(InBucket(HourlyPart(clock), s, len, b))
                + Total(InBucket(DailyPart(clock), s, len, b))
<1> DEFINE A == Tagged("raw", RawPart(clock))
           B == Tagged("hourly", HourlyPart(clock))
           C == Tagged("daily", DailyPart(clock))
<1>1. Source(clock, until) = A \cup B \cup C
  BY SourceParts DEF HistoryInv
<1>2. /\ TypedRowSet(A) /\ TypedRowSet(B) /\ TypedRowSet(C)
      /\ Total(InBucket(A, s, len, b)) = Total(InBucket(RawPart(clock), s, len, b))
      /\ Total(InBucket(B, s, len, b)) = Total(InBucket(HourlyPart(clock), s, len, b))
      /\ Total(InBucket(C, s, len, b)) = Total(InBucket(DailyPart(clock), s, len, b))
  BY PartsAreDistinct, TaggedRows
<1>3. (\A r \in A : r.table = "raw") /\ (\A r \in B : r.table = "hourly")
      /\ (\A r \in C : r.table = "daily")
  BY DEF Tagged
<1> HIDE DEF A, B, C
<1>4. TypedRowSet(A \cup B \cup C)
  <2>1. Summable(A \cup B \cup C)
    BY <1>2, SummableUnion DEF TypedRowSet
  <2> QED
    BY <1>2, <2>1 DEF TypedRowSet
<1>5. InBucket(A \cup B \cup C, s, len, b)
        = InBucket(A, s, len, b) \cup InBucket(B, s, len, b) \cup InBucket(C, s, len, b)
  BY DEF InBucket
<1>6. /\ InBucket(A, s, len, b) \cap InBucket(B, s, len, b) = {}
      /\ InBucket(A, s, len, b) \cap InBucket(C, s, len, b) = {}
      /\ InBucket(B, s, len, b) \cap InBucket(C, s, len, b) = {}
  BY <1>3 DEF InBucket
<1>7. Total(InBucket(A, s, len, b) \cup InBucket(B, s, len, b) \cup InBucket(C, s, len, b))
        = Total(InBucket(A, s, len, b)) + Total(InBucket(B, s, len, b))
          + Total(InBucket(C, s, len, b))
  BY <1>2, <1>6, BucketTotalType, TotalOfThree
<1> QED
  BY <1>1, <1>2, <1>4, <1>5, <1>7

\* An hour within the hourly retention is read from points and hours.
LEMMA SourceHour ==
  ASSUME HistoryInv, NEW clock \in Int, clock <= now, NEW until \in Int, until >= now + Ahead,
         NEW s, NEW h \in Int, HourOf(h) = h, h >= HourlyCutoff(clock)
  PROVE  /\ Total(InBucket(Source(clock, until), s, HourLen, h))
              = Total(InBucket(points, s, HourLen, h))
                + (IF h < RawCutoff(clock) THEN Total(At(hourly, s, h)) ELSE 0)
         /\ Total(InBucket(points, s, HourLen, h)) \in Nat
         /\ Total(At(hourly, s, h)) \in Nat
<1>1. /\ DailyCutoff(clock) \in Int /\ HourlyCutoff(clock) \in Int
      /\ DailyCutoff(clock) <= HourlyCutoff(clock)
  BY Cutoffs
<1>2. /\ TypedRowSet(points) /\ TypedRowSet(hourly) /\ TypedRowSet(daily)
      /\ RollupsPlaced
  BY PassRows DEF HistoryInv
<1>3. InBucket(RawPart(clock), s, HourLen, h) = InBucket(points, s, HourLen, h)
  BY <1>1, <1>2, SinceHour DEF RawPart
<1>4. InBucket(HourlyPart(clock), s, HourLen, h)
        = IF h < RawCutoff(clock) THEN At(hourly, s, h) ELSE {}
  <2>1. \A r \in hourly : BucketOf(r.at, HourLen) = r.at
    BY <1>2 DEF RollupsPlaced, HourOf
  <2> QED
    BY <2>1 DEF InBucket, HourlyPart, Spanning, At
<1>5. InBucket(DailyPart(clock), s, HourLen, h) = {}
  <2> SUFFICES ASSUME NEW r \in daily, r.at < HourlyCutoff(clock), BucketOf(r.at, HourLen) = h
               PROVE  FALSE
    BY DEF InBucket, DailyPart, Spanning
  <2>1. r.at \in Int /\ h <= r.at
    BY <1>2, HoursAndDays DEF TypedRowSet, HourOf
  <2> QED
    BY <1>1, <2>1
<1>6. Total(InBucket(points, s, HourLen, h)) \in Nat /\ Total(At(hourly, s, h)) \in Nat
  BY <1>2, BucketTotalType
<1>7. Total(InBucket(Source(clock, until), s, HourLen, h))
        = Total(InBucket(RawPart(clock), s, HourLen, h))
          + Total(InBucket(HourlyPart(clock), s, HourLen, h))
          + Total(InBucket(DailyPart(clock), s, HourLen, h))
  BY SourceTotal
<1> QED
  BY <1>3, <1>4, <1>5, <1>6, <1>7, TotalOfNone

\* An older day is read from points and days.
LEMMA SourceDay ==
  ASSUME HistoryInv, NEW clock \in Int, clock <= now, NEW until \in Int, until >= now + Ahead,
         NEW s, NEW d \in Int, DayOf(d) = d, d >= DailyCutoff(clock), d < HourlyCutoff(clock)
  PROVE  /\ Total(InBucket(Source(clock, until), s, DayLen, d))
              = Total(InBucket(points, s, DayLen, d)) + Total(At(daily, s, d))
         /\ Total(InBucket(points, s, DayLen, d)) \in Nat
         /\ Total(At(daily, s, d)) \in Nat
<1>1. /\ DailyCutoff(clock) \in Int /\ HourlyCutoff(clock) \in Int
      /\ DailyCutoff(clock) <= HourlyCutoff(clock)
      /\ DayOf(HourlyCutoff(clock)) = HourlyCutoff(clock)
  BY Cutoffs
<1>2. /\ TypedRowSet(points) /\ TypedRowSet(hourly) /\ TypedRowSet(daily)
      /\ RollupsPlaced
  BY PassRows DEF HistoryInv
<1>3. InBucket(RawPart(clock), s, DayLen, d) = InBucket(points, s, DayLen, d)
  BY <1>1, <1>2, SinceHour DEF RawPart
<1>4. InBucket(DailyPart(clock), s, DayLen, d) = At(daily, s, d)
  <2>1. \A r \in daily : BucketOf(r.at, DayLen) = r.at
    BY <1>2 DEF RollupsPlaced, DayOf
  <2> QED
    BY <2>1 DEF InBucket, DailyPart, Spanning, At
<1>5. InBucket(HourlyPart(clock), s, DayLen, d) = {}
  <2> SUFFICES ASSUME NEW r \in hourly, r.at >= HourlyCutoff(clock), BucketOf(r.at, DayLen) = d
               PROVE  FALSE
    BY DEF InBucket, HourlyPart, Spanning
  <2>1. r.at \in Int /\ DayOf(r.at) = d
    BY <1>2 DEF TypedRowSet, DayOf
  <2>2. HourlyCutoff(clock) <= d
    BY <1>1, <2>1, HoursAndDaysGrow
  <2> QED
    BY <1>1, <2>2
<1>6. Total(InBucket(points, s, DayLen, d)) \in Nat /\ Total(At(daily, s, d)) \in Nat
  BY <1>2, BucketTotalType
<1>7. Total(InBucket(Source(clock, until), s, DayLen, d))
        = Total(InBucket(RawPart(clock), s, DayLen, d))
          + Total(InBucket(HourlyPart(clock), s, DayLen, d))
          + Total(InBucket(DailyPart(clock), s, DayLen, d))
  BY SourceTotal
<1> QED
  BY <1>3, <1>4, <1>5, <1>6, <1>7, TotalOfNone

\* What Undisturbed says of the cutoffs of the last pass, for the present too.
LEMMA UndisturbedNow == ASSUME TablesOK PROVE Undisturbed(now)
BY ClockFacts, MaintainedFacts, CutoffsGrow DEF Undisturbed

\* An hour is read in full.
LEMMA HourIsRead ==
  ASSUME HistoryInv, NEW clock \in Int, clock <= now, Undisturbed(clock),
         NEW until \in Int, until >= now + Ahead,
         NEW s \in Series, NEW h \in Int, HourOf(h) = h, h >= HourlyCutoff(clock),
         ~Disturbed(s, DayOf(h))
  PROVE  Total(InBucket(accepted, s, HourLen, h))
           <= Total(InBucket(Source(clock, until), s, HourLen, h))
<1>1. /\ Total(InBucket(Source(clock, until), s, HourLen, h))
            = Total(InBucket(points, s, HourLen, h))
              + (IF h < RawCutoff(clock) THEN Total(At(hourly, s, h)) ELSE 0)
      /\ Total(InBucket(points, s, HourLen, h)) \in Nat
      /\ Total(At(hourly, s, h)) \in Nat
  BY SourceHour
<1>2. TypedRowSet(accepted)
  BY PassRows
<1>3. /\ Total(InBucket(accepted, s, HourLen, h)) \in Nat
      /\ Observed(s, HourLen, h) = Total(InBucket(accepted, s, HourLen, h))
  BY <1>2, BucketTotalType, WithinIsBucket
<1>4. /\ RawCutoff(clock) \in Int /\ HourlyCutoff(clock) \in Int
      /\ maintained \in Int /\ RawCutoff(maintained) \in Int /\ HourlyCutoff(maintained) \in Int
  BY MaintainedFacts, Cutoffs DEF HistoryInv
<1>5. CASE maintained > 0 /\ h < RawCutoff(maintained)
  <2>1. h < RawCutoff(clock) /\ h >= HourlyCutoff(maintained)
    BY <1>4, <1>5 DEF Undisturbed
  <2>2. HourHolds(s, h)
    BY <1>5, <2>1 DEF HistoryInv, HoursHold
  <2> QED
    BY <1>1, <1>3, <1>5, <2>1, <2>2 DEF HourHolds
<1>6. CASE ~(maintained > 0 /\ h < RawCutoff(maintained))
  <2>1. InBucket(points, s, HourLen, h) = InBucket(accepted, s, HourLen, h)
    BY <1>6, StoredHour
  <2> QED
    BY <1>1, <1>3, <2>1
<1> QED
  BY <1>5, <1>6

\* So is a day.
LEMMA DayIsRead ==
  ASSUME HistoryInv, NEW clock \in Int, clock <= now, Undisturbed(clock),
         NEW until \in Int, until >= now + Ahead,
         NEW s \in Series, NEW d \in Int, DayOf(d) = d, d >= DailyCutoff(clock),
         ~Disturbed(s, d)
  PROVE  Total(InBucket(accepted, s, DayLen, d))
           <= Total(InBucket(Source(clock, until), s, DayLen, d))
<1>0. TypedRowSet(accepted) /\ TypedRowSet(points) /\ TypedRowSet(Source(clock, until))
  BY PassRows, SourceTotal
<1>1. /\ DailyCutoff(clock) \in Int /\ HourlyCutoff(clock) \in Int
      /\ maintained \in Int /\ DailyCutoff(maintained) \in Int
  BY MaintainedFacts, Cutoffs DEF HistoryInv
<1>2. CASE d >= HourlyCutoff(clock)
  <2>1. ASSUME NEW h \in Int, HourOf(h) = h, DayOf(h) = d
        PROVE  Total(InBucket(accepted, s, HourLen, h))
                 <= Total(InBucket(Source(clock, until), s, HourLen, h))
    <3>1. h >= HourlyCutoff(clock)
      BY <1>1, <1>2, <2>1, HoursAndDays
    <3> QED
      BY <2>1, <3>1, HourIsRead
  <2> QED
    BY <1>0, <2>1, DayFromHours
<1>3. CASE d < HourlyCutoff(clock)
  <2> DEFINE all    == InBucket(accepted, s, DayLen, d)
             cut    == CutWithin(s, d)
             stored == InBucket(points, s, DayLen, d)
  <2>1. /\ Total(InBucket(Source(clock, until), s, DayLen, d))
              = Total(stored) + Total(At(daily, s, d))
        /\ Total(stored) \in Nat /\ Total(At(daily, s, d)) \in Nat
    BY <1>3, SourceDay
  <2>2. Summable(all) /\ Summable(stored) /\ all = Within(s, DayLen, d)
    BY <1>0, BucketTotalType, WithinIsBucket
  <2>3. CASE maintained > 0
    <3>1. d >= DailyCutoff(maintained)
      BY <1>1, <2>3 DEF Undisturbed
    <3>2. Total(cut) <= Total(At(daily, s, d))
      BY <2>3, <3>1 DEF HistoryInv, DaysHold, DayHolds
    <3>3. cut \subseteq all
      BY <2>2 DEF CutWithin
    <3>4. all \ cut \subseteq stored
      BY <2>2 DEF CutWithin, HistoryInv, PointsKept, InBucket
    <3> HIDE DEF all, cut, stored
    <3>5. Summable(cut) /\ Summable(all \ cut)
      BY <2>2, <3>3, SummablePart
    <3>6. all = cut \cup (all \ cut) /\ cut \cap (all \ cut) = {}
      BY <3>3
    <3>7. Total(cut \cup (all \ cut)) = Total(cut) + Total(all \ cut)
      BY <3>5, <3>6, TotalOfUnion
    <3>8. Total(all) = Total(cut) + Total(all \ cut)
      BY <3>6, <3>7, Zenon
    <3>9. Total(all \ cut) <= Total(stored)
      BY <2>2, <3>4, TotalOfPart
    <3>10. Total(cut) \in Nat /\ Total(all \ cut) \in Nat
      BY <3>5, TotalType
    <3> QED
      BY <2>1, <3>2, <3>8, <3>9, <3>10 DEF all
  <2>4. CASE ~(maintained > 0)
    <3>1. all \subseteq stored
      BY <2>4 DEF HistoryInv, PointsKept, InBucket
    <3> HIDE DEF all, stored
    <3>2. Total(all) <= Total(stored) /\ Total(all) \in Nat
      BY <2>2, <3>1, TotalOfPart, TotalType
    <3> QED
      BY <2>1, <3>2 DEF all
  <2> QED
    BY <2>3, <2>4
<1> QED
  BY <1>1, <1>2, <1>3

LEMMA BucketTotalIs ==
  ASSUME NEW rows, NEW s, NEW len, NEW b
  PROVE  BucketTotal(rows, {s}, len, b) = Total(InBucket(rows, s, len, b))
<1>1. {r \in rows : r.series \in {s} /\ BucketOf(r.at, len) = b} = InBucket(rows, s, len, b)
  BY DEF InBucket
<1> QED
  BY <1>1 DEF BucketTotal

LEMMA QueryClock ==
  ASSUME TablesOK
  PROVE  /\ MaxTime + Ahead \in Int /\ MaxTime + Ahead >= now + Ahead
         /\ now + Ahead \in Int /\ now \in Int /\ now <= now
         /\ \A clock \in Clocks : clock \in Int /\ clock <= now
BY ClockFacts DEF Clocks

\* The day of an instant within a retention that begins a day.
LEMMA DayWithin ==
  ASSUME NEW t \in Int, NEW clock \in Int, t >= DailyCutoff(clock)
  PROVE  DayOf(t) \in Int /\ DayOf(DayOf(t)) = DayOf(t) /\ DayOf(t) >= DailyCutoff(clock)
<1>1. DailyCutoff(clock) \in Int /\ DayOf(DailyCutoff(clock)) = DailyCutoff(clock)
  BY Cutoffs
<1>2. DayOf(DailyCutoff(clock)) <= DayOf(t)
  BY <1>1, HoursAndDaysGrow
<1> QED
  BY <1>1, <1>2, HoursAndDays

\* However late maintenance runs, and however long ago a query read its clock, it
\* misses no point of a day that nothing late has come for, as long as no pass has
\* moved the cutoffs since (_metric_source against _maintain_sync).
THEOREM NothingIsMissing == Spec => []NothingMissing
<1>1. HistoryInv => NothingMissing
  <2> SUFFICES ASSUME HistoryInv, NEW clock \in Clocks, Undisturbed(clock),
                      NEW p \in Since(accepted, DailyCutoff(clock)),
                      ~Disturbed(p.series, DayOf(p.at))
               PROVE  BucketTotal(Everything(clock), {p.series}, DayLen, DayOf(p.at))
                        >= Observed(p.series, DayLen, DayOf(p.at))
    BY DEF NothingMissing
  <2> DEFINE s == p.series
             d == DayOf(p.at)
  <2>1. TablesOK
    BY DEF HistoryInv
  <2>2. clock \in Int /\ clock <= now /\ MaxTime + Ahead \in Int /\ MaxTime + Ahead >= now + Ahead
    BY <2>1, QueryClock
  <2>3. s \in Series /\ p.at \in Int /\ p.at >= DailyCutoff(clock)
    BY <2>1, RowFacts DEF Since
  <2>4. d \in Int /\ DayOf(d) = d /\ d >= DailyCutoff(clock)
    BY <2>2, <2>3, DayWithin
  <2>5. Everything(clock) = Source(clock, MaxTime + Ahead)
    BY DEF Everything, Source
  <2>6. Total(InBucket(accepted, s, DayLen, d))
          <= Total(InBucket(Source(clock, MaxTime + Ahead), s, DayLen, d))
    BY <2>2, <2>3, <2>4, DayIsRead
  <2>7. TypedRowSet(accepted) /\ TypedRowSet(Source(clock, MaxTime + Ahead))
    BY <2>2, PassRows, SourceTotal
  <2>8. /\ Total(InBucket(accepted, s, DayLen, d)) \in Nat
        /\ Total(InBucket(Source(clock, MaxTime + Ahead), s, DayLen, d)) \in Nat
    BY <2>7, BucketTotalType
  <2> QED
    BY <2>5, <2>6, <2>8, BucketTotalIs, WithinIsBucket
<1> QED
  BY <1>1, HistoryHolds, PTL

-----------------------------------------------------------------------------
(* In the hour of a pass.                                                     *)

LEMMA PassCutoffs ==
  ASSUME TablesOK, maintained = HourOf(now)
  PROVE  /\ maintained > 0 /\ now \in Int
         /\ RawCutoff(maintained) = RawCutoff(now)
         /\ HourlyCutoff(maintained) = HourlyCutoff(now)
         /\ DailyCutoff(maintained) = DailyCutoff(now)
BY ClockFacts, CutoffsOfHour

\* An hour is read in full and once.
LEMMA HourIsExact ==
  ASSUME HistoryInv, maintained = HourOf(now), NEW until \in Int, until >= now + Ahead,
         NEW s \in Series, NEW h \in Int, HourOf(h) = h, h >= HourlyCutoff(now),
         ~Disturbed(s, DayOf(h))
  PROVE  Total(InBucket(Source(now, until), s, HourLen, h))
           = Total(InBucket(accepted, s, HourLen, h))
<1>0. TypedRowSet(accepted) /\ TablesOK
  BY PassRows DEF HistoryInv
<1>1. /\ maintained > 0 /\ now \in Int /\ RawCutoff(maintained) = RawCutoff(now)
      /\ HourlyCutoff(maintained) = HourlyCutoff(now) /\ now <= now
  BY <1>0, PassCutoffs
<1>2. /\ Total(InBucket(Source(now, until), s, HourLen, h))
            = Total(InBucket(points, s, HourLen, h))
              + (IF h < RawCutoff(now) THEN Total(At(hourly, s, h)) ELSE 0)
      /\ Total(InBucket(points, s, HourLen, h)) \in Nat
      /\ Total(At(hourly, s, h)) \in Nat
  BY <1>1, SourceHour
<1>3. /\ Total(InBucket(accepted, s, HourLen, h)) \in Nat
      /\ Observed(s, HourLen, h) = Total(InBucket(accepted, s, HourLen, h))
  BY <1>0, BucketTotalType, WithinIsBucket
<1>4. CASE h < RawCutoff(now)
  <2>1. HourHolds(s, h)
    BY <1>1 DEF HistoryInv, HoursHold
  <2>2. InBucket(points, s, HourLen, h) = {}
    BY <1>1, <1>4, StoredHour
  <2> QED
    BY <1>1, <1>2, <1>3, <1>4, <2>1, <2>2, TotalOfNone DEF HourHolds
<1>5. CASE ~(h < RawCutoff(now))
  <2>1. InBucket(points, s, HourLen, h) = InBucket(accepted, s, HourLen, h)
    BY <1>1, <1>5, StoredHour
  <2> QED
    BY <1>2, <1>3, <1>5, <2>1
<1> QED
  BY <1>4, <1>5

\* So is a day.
LEMMA DayIsExact ==
  ASSUME HistoryInv, maintained = HourOf(now), NEW until \in Int, until >= now + Ahead,
         NEW s \in Series, NEW d \in Int, DayOf(d) = d, d >= DailyCutoff(now),
         ~Disturbed(s, d)
  PROVE  Total(InBucket(Source(now, until), s, DayLen, d))
           = Total(InBucket(accepted, s, DayLen, d))
<1>0. TypedRowSet(accepted) /\ TablesOK /\ DayLen \in Nat \ {0}
  BY PassRows, LengthsHold DEF HistoryInv, Lengths
<1>1. /\ maintained > 0 /\ now \in Int /\ now <= now
      /\ RawCutoff(maintained) = RawCutoff(now)
      /\ HourlyCutoff(maintained) = HourlyCutoff(now)
      /\ DailyCutoff(maintained) = DailyCutoff(now)
  BY <1>0, PassCutoffs
<1>2. /\ HourlyCutoff(now) \in Int /\ RawCutoff(now) \in Int
      /\ HourlyCutoff(now) <= RawCutoff(now) /\ DayOf(HourlyCutoff(now)) = HourlyCutoff(now)
  BY <1>1, Cutoffs
<1>3. TypedRowSet(Source(now, until))
  BY <1>1, SourceTotal
<1>4. CASE d >= HourlyCutoff(now)
  <2>1. ASSUME NEW h \in Int, HourOf(h) = h, DayOf(h) = d
        PROVE  /\ Total(InBucket(Source(now, until), s, HourLen, h))
                    = Total(InBucket(accepted, s, HourLen, h))
               /\ Total(InBucket(accepted, s, HourLen, h)) \in Nat
    <3>1. h >= HourlyCutoff(now)
      BY <1>2, <1>4, <2>1, HoursAndDays
    <3> QED
      BY <1>0, <2>1, <3>1, HourIsExact, BucketTotalType
  <2>2. /\ Total(InBucket(Source(now, until), s, DayLen, d))
             <= Total(InBucket(accepted, s, DayLen, d))
        /\ Total(InBucket(accepted, s, DayLen, d))
             <= Total(InBucket(Source(now, until), s, DayLen, d))
    BY <1>0, <1>3, <2>1, DayFromHours
  <2>3. /\ Total(InBucket(Source(now, until), s, DayLen, d)) \in Nat
        /\ Total(InBucket(accepted, s, DayLen, d)) \in Nat
    BY <1>0, <1>3, BucketTotalType
  <2> QED
    BY <2>2, <2>3
<1>5. CASE d < HourlyCutoff(now)
  <2>1. /\ Total(InBucket(Source(now, until), s, DayLen, d))
              = Total(InBucket(points, s, DayLen, d)) + Total(At(daily, s, d))
        /\ Total(At(daily, s, d)) \in Nat
    BY <1>1, <1>5, SourceDay
  <2>2. ASSUME NEW p \in InBucket(accepted, s, DayLen, d)
        PROVE  p.at < RawCutoff(now) /\ p \in accepted /\ ~p.late
    <3>1. p \in accepted /\ p.series = s /\ p.at \in Int /\ DayOf(p.at) = d
      BY <1>0 DEF InBucket, TypedRowSet, DayOf
    <3>2. ~p.late
      BY <3>1, LateDisturbs
    <3>3. HourlyCutoff(now) <= p.at <=> HourlyCutoff(now) <= BucketOf(p.at, DayLen)
      BY <1>0, <1>2, <3>1, AlignedBefore DEF DayOf
    <3> QED
      BY <1>2, <1>5, <3>1, <3>2, <3>3 DEF DayOf
  <2>3. InBucket(points, s, DayLen, d) = {}
    <3> SUFFICES ASSUME NEW p \in points, p \in InBucket(accepted, s, DayLen, d) PROVE FALSE
      BY <1>0, RowFacts DEF InBucket
    <3> QED
      BY <1>1, <2>2 DEF HistoryInv, PointsKept
  <2>4. CutWithin(s, d) = InBucket(accepted, s, DayLen, d)
    <3>1. Within(s, DayLen, d) = InBucket(accepted, s, DayLen, d)
      BY WithinIsBucket
    <3> QED
      BY <1>1, <2>2, <3>1 DEF CutWithin
  <2>5. DayHolds(s, d)
    BY <1>1 DEF HistoryInv, DaysHold
  <2>6. Total(InBucket(accepted, s, DayLen, d)) \in Nat
    BY <1>0, BucketTotalType
  <2> QED
    BY <2>1, <2>3, <2>4, <2>5, <2>6, TotalOfNone, WithinIsBucket DEF DayHolds
<1> QED
  BY <1>2, <1>4, <1>5

\* In the hour of a pass the series of a dashboard are exact, by days over the whole
\* retention and by hours over the hourly one: no retention boundary, rollup,
\* repeated delivery or purge loses or repeats a point (_maintain_sync,
\* _metric_source, _timeseries_sync).
THEOREM SeriesAreExact == Spec => []SeriesExactAfterMaintenance
<1>1. HistoryInv => SeriesExactAfterMaintenance
  <2> SUFFICES ASSUME HistoryInv, maintained = HourOf(now),
                      NEW r \in Since(Everything(now) \cup accepted, DailyCutoff(now)),
                      ~Disturbed(r.series, DayOf(r.at))
               PROVE  /\ BucketTotal(Everything(now), {r.series}, DayLen, DayOf(r.at))
                           = Observed(r.series, DayLen, DayOf(r.at))
                      /\ r.at >= HourlyCutoff(now) =>
                           BucketTotal(Everything(now), {r.series}, HourLen, HourOf(r.at))
                             = Observed(r.series, HourLen, HourOf(r.at))
    BY DEF SeriesExactAfterMaintenance
  <2> DEFINE s == r.series
             d == DayOf(r.at)
             h == HourOf(r.at)
  <2>1. TablesOK
    BY DEF HistoryInv
  <2>2. now \in Int /\ now <= now /\ MaxTime + Ahead \in Int /\ MaxTime + Ahead >= now + Ahead
    BY <2>1, QueryClock
  <2>3. Everything(now) = Source(now, MaxTime + Ahead)
    BY DEF Everything, Source
  <2>4. TypedRowSet(accepted) /\ TypedRowSet(Source(now, MaxTime + Ahead))
    BY <2>2, PassRows, SourceTotal
  <2>5. s \in Series /\ r.at \in Int /\ r.at >= DailyCutoff(now)
    BY <2>3, <2>4 DEF Since, TypedRowSet
  <2>6. d \in Int /\ DayOf(d) = d /\ d >= DailyCutoff(now)
    BY <2>2, <2>5, DayWithin
  <2>7. Total(InBucket(Source(now, MaxTime + Ahead), s, DayLen, d))
          = Total(InBucket(accepted, s, DayLen, d))
    BY <2>2, <2>5, <2>6, DayIsExact
  <2>8. ASSUME r.at >= HourlyCutoff(now)
        PROVE  Total(InBucket(Source(now, MaxTime + Ahead), s, HourLen, h))
                 = Total(InBucket(accepted, s, HourLen, h))
    <3>1. h \in Int /\ HourOf(h) = h /\ DayOf(h) = d
      BY <2>5, HoursAndDays, HoursOfDays
    <3>2. HourlyCutoff(now) \in Int /\ HourOf(HourlyCutoff(now)) = HourlyCutoff(now)
      BY <2>2, Cutoffs
    <3>3. h >= HourlyCutoff(now)
      <4>1. HourOf(HourlyCutoff(now)) <= HourOf(r.at)
        BY <2>5, <2>8, <3>2, HoursAndDaysGrow
      <4> QED
        BY <3>1, <3>2, <4>1
    <3> QED
      BY <2>2, <2>5, <3>1, <3>3, HourIsExact
  <2> QED
    BY <2>3, <2>7, <2>8, BucketTotalIs, WithinIsBucket
<1> QED
  BY <1>1, HistoryHolds, PTL

-----------------------------------------------------------------------------
(* Between passes.                                                            *)

\* Copies of rows, told apart by which: two sets of rows that may share some.
Copies(rows, which) ==
  {[row |-> p, copy |-> which, series |-> p.series, at |-> p.at, value |-> p.value] : p \in rows}

LEMMA CopiedRows ==
  ASSUME NEW which, NEW rows, TypedRowSet(rows)
  PROVE  /\ TypedRowSet(Copies(rows, which))
         /\ \A s, len, b : Total(InBucket(Copies(rows, which), s, len, b))
                             = Total(InBucket(rows, s, len, b))
<1> DEFINE g == [p \in rows |-> [row |-> p, copy |-> which, series |-> p.series, at |-> p.at,
                                 value |-> p.value]]
<1>1. \A p \in rows :
        [row |-> p, copy |-> which, series |-> p.series, at |-> p.at, value |-> p.value] = g[p]
  OBVIOUS
<1>2. \A p \in rows : /\ g[p].value = p.value /\ g[p].series = p.series
                      /\ g[p].at = p.at /\ g[p].row = p
  OBVIOUS
<1> HIDE DEF g
<1>3. \A p, q \in rows : g[p] = g[q] => p = q
  <2> SUFFICES ASSUME NEW p \in rows, NEW q \in rows, g[p] = g[q] PROVE p = q
    OBVIOUS
  <2> QED
    BY <1>2
<1>4. Copies(rows, which) = {g[p] : p \in rows}
  <2>1. ASSUME NEW x \in Copies(rows, which) PROVE x \in {g[p] : p \in rows}
    <3>1. PICK p \in rows :
            x = [row |-> p, copy |-> which, series |-> p.series, at |-> p.at, value |-> p.value]
      BY DEF Copies
    <3>2. x = g[p]
      BY <1>1, <3>1, Zenon
    <3> QED
      BY <3>2
  <2>2. ASSUME NEW p \in rows PROVE g[p] \in Copies(rows, which)
    BY <1>1 DEF Copies
  <2> QED
    BY <2>1, <2>2
<1>5. Summable(rows) /\ \A p \in rows : p.series \in Series /\ p.at \in Int
  BY DEF TypedRowSet
<1>6. TypedRowSet(Copies(rows, which))
  <2>1. Summable({g[p] : p \in rows})
    BY <1>2, <1>3, <1>5, TotalOfCopies
  <2> QED
    BY <1>2, <1>4, <1>5, <2>1 DEF TypedRowSet
<1>7. ASSUME NEW s, NEW len, NEW b
      PROVE  Total(InBucket(Copies(rows, which), s, len, b)) = Total(InBucket(rows, s, len, b))
  <2> DEFINE S == InBucket(rows, s, len, b)
  <2>1. InBucket(Copies(rows, which), s, len, b) = {g[p] : p \in S}
    BY <1>2, <1>4 DEF InBucket
  <2>2. S \subseteq rows /\ Summable(S)
    BY <1>5, SummablePart DEF InBucket
  <2> HIDE DEF S
  <2>3. Total({g[p] : p \in S}) = Total(S)
    BY <1>2, <1>3, <2>2, TotalOfCopies
  <2> QED
    BY <2>1, <2>3 DEF S
<1> QED
  BY <1>6, <1>7

Both(A, B) == Copies(A, 1) \cup Copies(B, 2)

LEMMA TotalOfBoth ==
  ASSUME NEW A, TypedRowSet(A), NEW B, TypedRowSet(B)
  PROVE  /\ TypedRowSet(Both(A, B))
         /\ \A s, len, b : Total(InBucket(Both(A, B), s, len, b))
              = Total(InBucket(A, s, len, b)) + Total(InBucket(B, s, len, b))
<1> DEFINE X == Copies(A, 1)
           Y == Copies(B, 2)
<1>1. /\ TypedRowSet(X) /\ TypedRowSet(Y)
      /\ \A s, len, b : Total(InBucket(X, s, len, b)) = Total(InBucket(A, s, len, b))
      /\ \A s, len, b : Total(InBucket(Y, s, len, b)) = Total(InBucket(B, s, len, b))
  BY CopiedRows
<1>2. (\A r \in X : r.copy = 1) /\ (\A r \in Y : r.copy = 2)
  BY DEF Copies
<1> HIDE DEF X, Y
<1>3. TypedRowSet(X \cup Y)
  BY <1>1, SummableUnion DEF TypedRowSet
<1>4. ASSUME NEW s, NEW len, NEW b
      PROVE  Total(InBucket(X \cup Y, s, len, b))
               = Total(InBucket(A, s, len, b)) + Total(InBucket(B, s, len, b))
  <2>1. /\ InBucket(X \cup Y, s, len, b) = InBucket(X, s, len, b) \cup InBucket(Y, s, len, b)
        /\ InBucket(X, s, len, b) \cap InBucket(Y, s, len, b) = {}
    BY <1>2 DEF InBucket
  <2>2. Total(InBucket(X, s, len, b) \cup InBucket(Y, s, len, b))
          = Total(InBucket(X, s, len, b)) + Total(InBucket(Y, s, len, b))
    BY <1>1, <2>1, BucketTotalType, TotalOfUnion
  <2> QED
    BY <1>1, <2>1, <2>2
<1>5. Both(A, B) = X \cup Y
  BY DEF Both, X, Y
<1> QED
  BY <1>3, <1>4, <1>5

\* The points that a query at the present may count twice.
Overlap == {p \in points : p.at < RawCutoff(now)}

LEMMA HourRepeatsLittle ==
  ASSUME HistoryInv, NEW until \in Int, until >= now + Ahead,
         NEW s \in Series, NEW h \in Int, HourOf(h) = h, h >= HourlyCutoff(now),
         ~Disturbed(s, DayOf(h))
  PROVE  Total(InBucket(Source(now, until), s, HourLen, h))
           <= Total(InBucket(accepted, s, HourLen, h)) + Total(InBucket(Overlap, s, HourLen, h))
<1>0. /\ TablesOK /\ TypedRowSet(accepted) /\ TypedRowSet(points) /\ now \in Int /\ now <= now
      /\ HourLen \in Nat \ {0}
  BY PassRows, ClockFacts, LengthsHold DEF HistoryInv, Lengths
<1>1. /\ Total(InBucket(Source(now, until), s, HourLen, h))
            = Total(InBucket(points, s, HourLen, h))
              + (IF h < RawCutoff(now) THEN Total(At(hourly, s, h)) ELSE 0)
      /\ Total(InBucket(points, s, HourLen, h)) \in Nat
      /\ Total(At(hourly, s, h)) \in Nat
  BY <1>0, SourceHour
<1>2. TypedRowSet(Overlap)
  BY <1>0, SummablePart DEF TypedRowSet, Overlap
<1>3. /\ Total(InBucket(accepted, s, HourLen, h)) \in Nat
      /\ Total(InBucket(Overlap, s, HourLen, h)) \in Nat
      /\ Observed(s, HourLen, h) = Total(InBucket(accepted, s, HourLen, h))
  BY <1>0, <1>2, BucketTotalType, WithinIsBucket
<1>4. /\ RawCutoff(now) \in Int /\ HourOf(RawCutoff(now)) = RawCutoff(now)
      /\ HourlyCutoff(now) \in Int
      /\ maintained \in Int /\ maintained <= now /\ HourlyCutoff(maintained) \in Int
      /\ HourlyCutoff(maintained) <= HourlyCutoff(now)
  BY <1>0, MaintainedFacts, Cutoffs, CutoffsGrow
<1>5. CASE h < RawCutoff(now)
  <2>1. ASSUME NEW p \in InBucket(points, s, HourLen, h) PROVE p.at < RawCutoff(now)
    <3>1. p.at \in Int /\ HourOf(p.at) = h
      BY <1>0 DEF InBucket, TypedRowSet, HourOf
    <3>2. RawCutoff(now) <= p.at <=> RawCutoff(now) <= BucketOf(p.at, HourLen)
      BY <1>0, <1>4, <3>1, AlignedBefore DEF HourOf
    <3> QED
      BY <1>4, <1>5, <3>1, <3>2 DEF HourOf
  <2>2. InBucket(points, s, HourLen, h) = InBucket(Overlap, s, HourLen, h)
    BY <2>1 DEF InBucket, Overlap
  <2>3. Total(At(hourly, s, h)) <= Observed(s, HourLen, h)
    <3>1. CASE maintained > 0
      BY <1>4, <3>1 DEF HistoryInv, HoursHold, HourHolds
    <3>2. CASE ~(maintained > 0)
      <4>1. At(hourly, s, h) = {}
        BY <3>2 DEF HistoryInv, RollupsPlaced, At
      <4> QED
        BY <1>3, <4>1, TotalOfNone
    <3> QED
      BY <3>1, <3>2
  <2> QED
    BY <1>1, <1>3, <1>5, <2>2, <2>3
<1>6. CASE ~(h < RawCutoff(now))
  <2>1. InBucket(points, s, HourLen, h) \subseteq InBucket(accepted, s, HourLen, h)
    BY <1>0, RowFacts DEF InBucket
  <2>2. Summable(InBucket(accepted, s, HourLen, h))
    BY <1>0, BucketTotalType
  <2>3. Total(InBucket(points, s, HourLen, h)) <= Total(InBucket(accepted, s, HourLen, h))
    BY <2>1, <2>2, TotalOfPart
  <2> QED
    BY <1>1, <1>3, <1>6, <2>3
<1> QED
  BY <1>5, <1>6

LEMMA DayRepeatsLittle ==
  ASSUME HistoryInv, NEW until \in Int, until >= now + Ahead,
         NEW s \in Series, NEW d \in Int, DayOf(d) = d, d >= DailyCutoff(now),
         ~Disturbed(s, d)
  PROVE  Total(InBucket(Source(now, until), s, DayLen, d))
           <= Total(InBucket(accepted, s, DayLen, d)) + Total(InBucket(Overlap, s, DayLen, d))
<1>0. /\ TablesOK /\ TypedRowSet(accepted) /\ TypedRowSet(points) /\ now \in Int /\ now <= now
      /\ DayLen \in Nat \ {0}
  BY PassRows, ClockFacts, LengthsHold DEF HistoryInv, Lengths
<1>1. TypedRowSet(Overlap) /\ TypedRowSet(Source(now, until))
  BY <1>0, SummablePart, SourceTotal DEF TypedRowSet, Overlap
<1>2. /\ RawCutoff(now) \in Int /\ DayOf(HourlyCutoff(now)) = HourlyCutoff(now)
      /\ HourlyCutoff(now) \in Int /\ HourlyCutoff(now) <= RawCutoff(now)
      /\ DailyCutoff(now) \in Int /\ DailyCutoff(maintained) \in Int
      /\ maintained \in Int /\ maintained <= now
      /\ DailyCutoff(maintained) <= DailyCutoff(now)
  BY <1>0, MaintainedFacts, Cutoffs, CutoffsGrow
<1>3. CASE d >= HourlyCutoff(now)
  <2> DEFINE Y == Both(accepted, Overlap)
  <2>1. /\ TypedRowSet(Y)
        /\ \A r, len, b : Total(InBucket(Y, r, len, b))
             = Total(InBucket(accepted, r, len, b)) + Total(InBucket(Overlap, r, len, b))
    BY <1>0, <1>1, TotalOfBoth
  <2> HIDE DEF Y
  <2>2. ASSUME NEW h \in Int, HourOf(h) = h, DayOf(h) = d
        PROVE  Total(InBucket(Source(now, until), s, HourLen, h)) <= Total(InBucket(Y, s, HourLen, h))
    <3>1. h >= HourlyCutoff(now)
      BY <1>2, <1>3, <2>2, HoursAndDays
    <3> QED
      BY <2>1, <2>2, <3>1, HourRepeatsLittle
  <2>3. Total(InBucket(Source(now, until), s, DayLen, d)) <= Total(InBucket(Y, s, DayLen, d))
    BY <1>1, <2>1, <2>2, DayFromHours
  <2> QED
    BY <2>1, <2>3
<1>4. CASE d < HourlyCutoff(now)
  <2>1. /\ Total(InBucket(Source(now, until), s, DayLen, d))
              = Total(InBucket(points, s, DayLen, d)) + Total(At(daily, s, d))
        /\ Total(InBucket(points, s, DayLen, d)) \in Nat
        /\ Total(At(daily, s, d)) \in Nat
    BY <1>0, <1>4, SourceDay
  <2>2. ASSUME NEW p \in InBucket(points, s, DayLen, d) PROVE p.at < RawCutoff(now)
    <3>1. p.at \in Int /\ DayOf(p.at) = d
      BY <1>0 DEF InBucket, TypedRowSet, DayOf
    <3>2. HourlyCutoff(now) <= p.at <=> HourlyCutoff(now) <= BucketOf(p.at, DayLen)
      BY <1>0, <1>2, <3>1, AlignedBefore DEF DayOf
    <3> QED
      BY <1>2, <1>4, <3>1, <3>2 DEF DayOf
  <2>3. InBucket(points, s, DayLen, d) = InBucket(Overlap, s, DayLen, d)
    BY <2>2 DEF InBucket, Overlap
  <2>4. Total(InBucket(accepted, s, DayLen, d)) \in Nat
    BY <1>0, BucketTotalType
  <2>5. Total(At(daily, s, d)) <= Total(InBucket(accepted, s, DayLen, d))
    <3>1. CASE maintained > 0
      BY <1>2, <3>1, WithinIsBucket DEF HistoryInv, DaysHold, DayHolds
    <3>2. CASE ~(maintained > 0)
      <4>1. At(daily, s, d) = {}
        BY <3>2 DEF HistoryInv, RollupsPlaced, At
      <4> QED
        BY <2>4, <4>1, TotalOfNone
    <3> QED
      BY <3>1, <3>2
  <2> QED
    BY <2>1, <2>3, <2>4, <2>5
<1> QED
  BY <1>2, <1>3, <1>4

\* Between passes a query counts twice at most the points that have reached the age
\* of raw retention since the last pass, and no other (the cutoffs of _metric_source
\* are of the present, those of _maintain_sync of the last pass).
THEOREM OnlyOverlapIsRepeated == Spec => []OnlyOverlapRepeats
<1>1. HistoryInv => OnlyOverlapRepeats
  <2> SUFFICES ASSUME HistoryInv, NEW r \in Everything(now), ~Disturbed(r.series, DayOf(r.at))
               PROVE  BucketTotal(Everything(now), {r.series}, DayLen, DayOf(r.at))
                        <= Observed(r.series, DayLen, DayOf(r.at))
                           + BucketTotal(Overlap, {r.series}, DayLen, DayOf(r.at))
    BY DEF OnlyOverlapRepeats, Overlap
  <2> DEFINE s == r.series
             d == DayOf(r.at)
  <2>1. TablesOK
    BY DEF HistoryInv
  <2>2. now \in Int /\ now <= now /\ MaxTime + Ahead \in Int /\ MaxTime + Ahead >= now + Ahead
    BY <2>1, QueryClock
  <2>3. Everything(now) = Source(now, MaxTime + Ahead)
    BY DEF Everything, Source
  <2>4. TypedRowSet(Source(now, MaxTime + Ahead))
    BY <2>2, SourceTotal
  <2>5. s \in Series /\ r.at \in Int
    BY <2>3, <2>4 DEF TypedRowSet
  <2>6. r.at >= DailyCutoff(now)
    <3>1. /\ DailyCutoff(now) \in Int /\ HourlyCutoff(now) \in Int
          /\ DailyCutoff(now) <= HourlyCutoff(now)
      BY <2>2, Cutoffs
    <3>2. \/ r \in Tagged("raw", RawPart(now))
          \/ r \in Tagged("hourly", HourlyPart(now))
          \/ r \in Tagged("daily", DailyPart(now))
      BY <2>1, <2>2, <2>3, SourceParts
    <3>3. \/ \E q \in RawPart(now) : r.at = q.at
          \/ \E q \in HourlyPart(now) : r.at = q.at
          \/ \E q \in DailyPart(now) : r.at = q.at
      BY <3>2 DEF Tagged
    <3> QED
      BY <2>5, <3>1, <3>3 DEF RawPart, HourlyPart, DailyPart, Since, Spanning
  <2>7. d \in Int /\ DayOf(d) = d /\ d >= DailyCutoff(now)
    BY <2>2, <2>5, <2>6, DayWithin
  <2>8. Total(InBucket(Source(now, MaxTime + Ahead), s, DayLen, d))
          <= Total(InBucket(accepted, s, DayLen, d)) + Total(InBucket(Overlap, s, DayLen, d))
    BY <2>2, <2>5, <2>7, DayRepeatsLittle
  <2> QED
    BY <2>3, <2>8, BucketTotalIs, WithinIsBucket
<1> QED
  BY <1>1, HistoryHolds, PTL

-----------------------------------------------------------------------------
(* Summaries.                                                                 *)

\* What a summary adds up, and what it should add up.
Shown(until, some) == {r \in Source(now, until) : r.series \in some}
Owed(some)         == {p \in Since(accepted, DailyCutoff(now)) : p.series \in some}

\* A source has no rows older than the retention.
LEMMA SourceWithin ==
  ASSUME HistoryInv, NEW until \in Int, until >= now + Ahead, NEW r \in Source(now, until)
  PROVE  r.series \in Series /\ r.at \in Int /\ r.at >= DailyCutoff(now)
<1>1. TablesOK /\ now \in Int /\ now <= now
  BY QueryClock DEF HistoryInv
<1>2. TypedRowSet(Source(now, until))
  BY <1>1, SourceTotal
<1>3. r.series \in Series /\ r.at \in Int
  BY <1>2 DEF TypedRowSet
<1>4. /\ DailyCutoff(now) \in Int /\ HourlyCutoff(now) \in Int
      /\ DailyCutoff(now) <= HourlyCutoff(now)
  BY <1>1, Cutoffs
<1>5. \/ r \in Tagged("raw", RawPart(now))
      \/ r \in Tagged("hourly", HourlyPart(now))
      \/ r \in Tagged("daily", DailyPart(now))
  BY <1>1, SourceParts
<1>6. \/ \E q \in RawPart(now) : r.at = q.at
      \/ \E q \in HourlyPart(now) : r.at = q.at
      \/ \E q \in DailyPart(now) : r.at = q.at
  BY <1>5 DEF Tagged
<1> QED
  BY <1>3, <1>4, <1>6 DEF RawPart, HourlyPart, DailyPart, Since, Spanning

\* In the hour of a pass, what is shown of series that nothing late has come for
\* adds up to what was reported for them.
LEMMA ShownIsOwed ==
  ASSUME HistoryInv, maintained = HourOf(now), NEW until \in Int, until >= now + Ahead,
         NEW some \in SUBSET Series, \A p \in Owed(some) : ~p.late
  PROVE  /\ Summable(Shown(until, some)) /\ Summable(Owed(some))
         /\ Total(Shown(until, some)) = Total(Owed(some))
<1> DEFINE S == Shown(until, some)
           T == Owed(some)
           k == [r \in S |-> <<r.series, DayOf(r.at)>>]
           l == [p \in T |-> <<p.series, DayOf(p.at)>>]
           src == Source(now, until)
<1>0. TablesOK /\ now \in Int /\ now <= now
  BY QueryClock DEF HistoryInv
<1>1. TypedRowSet(src) /\ TypedRowSet(accepted)
  BY <1>0, SourceTotal, PassRows
<1>2. Summable(S) /\ Summable(T)
  BY <1>1, SummablePart DEF TypedRowSet, Shown, Owed, Since
<1>3. ASSUME NEW s \in some, NEW d \in Int, DayOf(d) = d, d >= DailyCutoff(now)
      PROVE  /\ Group(S, k, <<s, d>>) = InBucket(src, s, DayLen, d)
             /\ Group(T, l, <<s, d>>) = InBucket(accepted, s, DayLen, d)
             /\ Total(Group(S, k, <<s, d>>)) = Total(Group(T, l, <<s, d>>))
             /\ Total(Group(T, l, <<s, d>>)) \in Nat
  <2>1. Group(S, k, <<s, d>>) = InBucket(src, s, DayLen, d)
    <3>1. Group(S, k, <<s, d>>) = {r \in S : r.series = s /\ DayOf(r.at) = d}
      BY DEF Group
    <3> QED
      BY <3>1 DEF Shown, InBucket, DayOf
  <2>2. Group(T, l, <<s, d>>) = InBucket(accepted, s, DayLen, d)
    <3>1. Group(T, l, <<s, d>>) = {p \in T : p.series = s /\ DayOf(p.at) = d}
      BY DEF Group
    <3>2. DailyCutoff(now) \in Int
      BY <1>0, Cutoffs
    <3>3. ASSUME NEW p \in accepted, DayOf(p.at) = d PROVE p.at >= DailyCutoff(now)
      <4>1. p.at \in Int /\ d <= p.at
        BY <1>1, <3>3, HoursAndDays DEF TypedRowSet
      <4> QED
        BY <1>3, <3>2, <4>1
    <3> QED
      BY <3>1, <3>3 DEF Owed, Since, InBucket, DayOf
  <2>3. ~Disturbed(s, d)
    <3> SUFFICES ASSUME NEW p \in accepted, p.series = s, p.late, DayOf(p.at) = d PROVE FALSE
      BY DEF Disturbed, OfSeries
    <3>1. p \in InBucket(accepted, s, DayLen, d)
      BY DEF InBucket, DayOf
    <3>2. p \in T
      BY <2>2, <3>1 DEF Group
    <3> QED
      BY <3>2
  <2>4. Total(InBucket(src, s, DayLen, d)) = Total(InBucket(accepted, s, DayLen, d))
    BY <1>3, <2>3, DayIsExact
  <2>5. Total(InBucket(accepted, s, DayLen, d)) \in Nat
    BY <1>1, BucketTotalType
  <2> HIDE DEF S, T, k, l, src
  <2> QED
    BY <2>1, <2>2, <2>4, <2>5
<1>4. ASSUME NEW x \in S
      PROVE  Total(Group(S, k, k[x])) <= Total(Group(T, l, k[x]))
  <2> DEFINE d == DayOf(x.at)
  <2>1. x.series \in some /\ x.at \in Int /\ x.at >= DailyCutoff(now)
    BY SourceWithin DEF Shown
  <2>2. d \in Int /\ DayOf(d) = d /\ d >= DailyCutoff(now)
    BY <1>0, <2>1, DayWithin
  <2>3. k[x] = <<x.series, d>>
    OBVIOUS
  <2> HIDE DEF S, T, k, l, src, d
  <2> QED
    BY <1>3, <2>1, <2>2, <2>3
<1>5. ASSUME NEW y \in T
      PROVE  Total(Group(T, l, l[y])) <= Total(Group(S, k, l[y]))
  <2> DEFINE d == DayOf(y.at)
  <2>1. y.series \in some /\ y.at \in Int /\ y.at >= DailyCutoff(now)
    BY <1>1 DEF Owed, Since, TypedRowSet
  <2>2. d \in Int /\ DayOf(d) = d /\ d >= DailyCutoff(now)
    BY <1>0, <2>1, DayWithin
  <2>3. l[y] = <<y.series, d>>
    OBVIOUS
  <2> HIDE DEF S, T, k, l, src, d
  <2> QED
    BY <1>3, <2>1, <2>2, <2>3
<1> HIDE DEF S, T, k, l
<1>6. Total(S) <= Total(T) /\ Total(T) <= Total(S)
  BY <1>2, <1>4, <1>5, TotalByKey
<1>7. Total(S) \in Nat /\ Total(T) \in Nat
  BY <1>2, TotalType
<1> QED
  BY <1>2, <1>6, <1>7 DEF S, T

\* In the hour of a pass a tenant's summary over the whole retention is what its own
\* workspaces have reported (_summary_core, _metric_dimension_filter).
THEOREM SummariesHold == Spec => []SummariesAreExact
<1>1. HistoryInv => SummariesAreExact
  <2> SUFFICES ASSUME HistoryInv, maintained = HourOf(now), NEW t \in Tenants,
                      NEW boxes \in {Boxes} \cup {{b} : b \in Boxes}
               PROVE  LET own == {p \in Since(accepted, DailyCutoff(now)) :
                                    /\ Owner[InstanceOf[p.series]].tenant = t
                                    /\ Owner[InstanceOf[p.series]].box \in boxes}
                          total == Summary(now, DailyCutoff(now), now + Ahead, Selected(t, boxes))
                      IN \/ \E p \in own : p.late
                         \/ total = Total(own)
    BY DEF SummariesAreExact
  <2>0. Owed(Selected(t, boxes)) = {p \in Since(accepted, DailyCutoff(now)) :
                                    /\ Owner[InstanceOf[p.series]].tenant = t
                                    /\ Owner[InstanceOf[p.series]].box \in boxes}
    <3>1. \A p \in accepted : p.series \in Series /\ InstanceOf[p.series] \in Instances
      BY RowFacts, HistoryAssumption DEF HistoryInv, HistoryAssumption
    <3> QED
      BY <3>1 DEF Owed, Selected, InstancesOf, Since
  <2> SUFFICES ASSUME \A p \in Owed(Selected(t, boxes)) : ~p.late
               PROVE  Summary(now, DailyCutoff(now), now + Ahead, Selected(t, boxes))
                        = Total(Owed(Selected(t, boxes)))
    BY <2>0
  <2>1. now + Ahead \in Int /\ now + Ahead >= now + Ahead
    BY QueryClock DEF HistoryInv
  <2>2. Selected(t, boxes) \in SUBSET Series
    BY DEF Selected
  <2>3. Summary(now, DailyCutoff(now), now + Ahead, Selected(t, boxes))
          = Total(Shown(now + Ahead, Selected(t, boxes)))
    BY DEF Summary, Shown, Source
  <2>4. Total(Shown(now + Ahead, Selected(t, boxes))) = Total(Owed(Selected(t, boxes)))
    BY <2>1, <2>2, ShownIsOwed
  <2> QED
    BY <2>3, <2>4
<1> QED
  BY <1>1, HistoryHolds, PTL

-----------------------------------------------------------------------------
(* Counters.                                                                  *)

\* Rows of a counter.
Readings(rows) == Summable(rows) /\ \A q \in rows : q.start \in Nat /\ q.raw \in Nat

Starts(rows)  == {p.start : p \in rows}
SinceStart(rows, st) == {q \in rows : q.start = st}
Tops(rows)    == [st \in Starts(rows) |-> Max({p.raw : p \in SinceStart(rows, st)})]

\* The largest reading since a start.
LEMMA TopIs ==
  ASSUME NEW rows, Readings(rows), NEW m \in rows,
         \A q \in rows : q.start = m.start => q.raw <= m.raw
  PROVE  Tops(rows)[m.start] = m.raw
<1> DEFINE raws == {p.raw : p \in SinceStart(rows, m.start)}
<1>1. m.raw \in raws /\ m.start \in Starts(rows)
  BY DEF SinceStart, Starts
<1>2. \A n \in raws : n <= m.raw /\ n \in Nat
  BY DEF SinceStart, Readings
<1>3. Tops(rows)[m.start] = Max(raws)
  BY <1>1 DEF Tops
<1> HIDE DEF raws
<1>4. \A x \in raws : (\A y \in raws : x >= y) => x = m.raw
  BY <1>1, <1>2
<1>5. \E x \in raws : \A y \in raws : x >= y
  BY <1>1, <1>2
<1>6. Max(raws) \in raws /\ \A y \in raws : Max(raws) >= y
  BY <1>5, Zenon DEF Max
<1> QED
  BY <1>3, <1>4, <1>6

LEMMA TopsAreReadings ==
  ASSUME NEW rows, Readings(rows), NEW st \in Starts(rows)
  PROVE  \E m \in rows : m.start = st /\ Tops(rows)[st] = m.raw /\ m.raw \in Nat
<1> DEFINE group == SinceStart(rows, st)
           r == [q \in group |-> q.raw]
           raws == {p.raw : p \in group}
<1>1. group \subseteq rows /\ IsFiniteSet(group)
  BY FS_Subset DEF SinceStart, Readings, Summable
<1>2. raws = {r[q] : q \in group}
  OBVIOUS
<1>3. IsFiniteSet(raws)
  <2> HIDE DEF raws, r, group
  <2> QED
    BY <1>1, <1>2, FiniteImage
<1>4. raws \in SUBSET Nat /\ raws # {}
  BY DEF SinceStart, Readings, Starts
<1>5. Tops(rows)[st] = Max(raws)
  BY DEF Tops
<1> HIDE DEF raws
<1>6. Max(raws) \in raws
  BY <1>3, <1>4, MaxOfFinite
<1>7. PICK m \in group : Max(raws) = m.raw
  BY <1>6 DEF raws
<1> QED
  BY <1>5, <1>7 DEF SinceStart, Readings

LEMMA GrowthIsFold ==
  ASSUME NEW rows
  PROVE  Growth(rows) = (CHOOSE iter : iter = [s \in SUBSET Starts(rows) |->
            IF s = {} THEN 0
            ELSE Max({p.raw : p \in SinceStart(rows, CHOOSE x \in s : TRUE)})
                 + iter[s \ {CHOOSE x \in s : TRUE}]])[Starts(rows)]
BY DEF Growth, MapThenSumSet, MapThenFoldSet, Starts, SinceStart

\* Growth, whatever order the starts are taken in.
LEMMA GrowthCounts ==
  ASSUME NEW rows, Readings(rows)
  PROVE  /\ Growth(rows) = Weight(Tops(rows), Starts(rows))
         /\ IsFiniteSet(Starts(rows)) /\ \A st \in Starts(rows) : Tops(rows)[st] \in Nat
<1> DEFINE f == Tops(rows)
           S == Starts(rows)
           top(st) == Max({p.raw : p \in SinceStart(rows, st)})
           StepV(iter, T) == IF T = {} THEN 0
             ELSE top(CHOOSE x \in T : TRUE) + iter[T \ {CHOOSE x \in T : TRUE}]
           Good(iter) == iter = [s \in SUBSET S |->
            IF s = {} THEN 0
            ELSE Max({p.raw : p \in SinceStart(rows, CHOOSE x \in s : TRUE)})
                 + iter[s \ {CHOOSE x \in s : TRUE}]]
<1>1. ASSUME NEW iter, NEW T \in SUBSET S PROVE FoldStep(f, iter, T) = StepV(iter, T)
  <2>1. CASE T = {}
    BY <2>1 DEF FoldStep
  <2>2. CASE T # {}
    <3>1. (CHOOSE x \in T : TRUE) \in T
      BY <2>2
    <3>2. f[CHOOSE x \in T : TRUE] = top(CHOOSE x \in T : TRUE)
      BY <3>1 DEF Tops
    <3> HIDE DEF top, f
    <3> QED
      BY <2>2, <3>2 DEF FoldStep
  <2> QED
    BY <2>1, <2>2
<1>2. IsFiniteSet(S) /\ \A x \in S : f[x] \in Nat
  <2>1. IsFiniteSet(rows)
    BY DEF Readings, Summable
  <2> DEFINE g == [p \in rows |-> p.start]
  <2>2. S = {g[p] : p \in rows}
    BY DEF Starts
  <2> HIDE DEF g, S, f
  <2>3. IsFiniteSet(S)
    BY <2>1, <2>2, FiniteImage
  <2>4. \A x \in S : f[x] \in Nat
    BY TopsAreReadings DEF S, f
  <2> QED
    BY <2>3, <2>4
<1>3. PICK one : IsFold(f, S, one)
  <2> HIDE DEF f, S
  <2> QED
    BY <1>2, FoldExists
<1>4. one = [T \in SUBSET S |-> FoldStep(f, one, T)]
  BY <1>3 DEF IsFold
<1>5. [T \in SUBSET S |-> FoldStep(f, one, T)] = [T \in SUBSET S |-> StepV(one, T)]
  <2> HIDE DEF StepV, S, f
  <2> QED
    BY <1>1
<1>6. Good(one)
  BY <1>4, <1>5
<1> DEFINE it == CHOOSE iter : Good(iter)
<1>7. Good(it)
  BY <1>6
<1>8. Growth(rows) = it[S]
  BY GrowthIsFold
<1> HIDE DEF it
<1>9. \A T \in SUBSET S : it[T] = StepV(it, T)
  BY <1>7
<1>10. \A T \in SUBSET S : it[T] = FoldStep(f, it, T)
  <2> HIDE DEF StepV, S, f
  <2> QED
    BY <1>1, <1>9
<1> HIDE DEF f, S
<1>11. it[S] = Cardinality(Units(f, S))
  BY <1>2, <1>10, FoldCounts DEF FoldStep
<1> QED
  BY <1>2, <1>8, <1>11 DEF f, S, Weight

\* No reading is higher than what has been counted of its series since its start.
CountersOK ==
  \A p \in accepted : p.raw <= Total(SinceStart(OfSeries(accepted, p.series), p.start))

LEMMA SeriesReadings ==
  ASSUME TablesOK, NEW s
  PROVE  /\ Readings(OfSeries(accepted, s))
         /\ \A st : /\ Summable(SinceStart(OfSeries(accepted, s), st))
                    /\ Total(SinceStart(OfSeries(accepted, s), st)) \in Nat
<1>1. OfSeries(accepted, s) \subseteq accepted
  BY DEF OfSeries
<1>2. Readings(OfSeries(accepted, s))
  BY <1>1, RowFacts, SummablePart DEF Readings
<1> QED
  BY <1>2, SummablePart, TotalType DEF Readings, SinceStart

\* A reading counts what it has grown by since the one before it.
LEMMA IngestCounts ==
  ASSUME TablesOK, CountersOK, NEW p, Reading(p), Ingest(p), now' = now
  PROVE  CountersOK'
<1> DEFINE row == Row(p)
           old == SinceStart(OfSeries(accepted, p.series), p.start)
<1>1. /\ row \in Point /\ row.series = p.series /\ row.start = p.start /\ row.raw = p.raw
      /\ row.value = EffectiveValue(p) /\ p.raw \in Nat
  BY RowIs DEF Reading
<1>2. accepted' = accepted \/ accepted' = accepted \cup {row}
  BY IngestCases
<1>3. \A s, st : /\ Summable(SinceStart(OfSeries(accepted, s), st))
                 /\ Total(SinceStart(OfSeries(accepted, s), st)) \in Nat
  BY SeriesReadings
<1>4. row.value \in Nat
  BY <1>1 DEF Point
<1> HIDE DEF row
<1>5. CASE accepted' = accepted
  BY <1>5 DEF CountersOK, OfSeries, SinceStart
<1>6. CASE row \notin accepted /\ accepted' = accepted \cup {row}
  <2>1. ASSUME NEW s, NEW st
        PROVE  SinceStart(OfSeries(accepted', s), st) =
                 IF s = p.series /\ st = p.start THEN old \cup {row}
                 ELSE SinceStart(OfSeries(accepted, s), st)
    BY <1>1, <1>6 DEF SinceStart, OfSeries
  <2>2. row \notin old
    BY <1>6 DEF SinceStart, OfSeries
  <2>3. Total(old \cup {row}) = Total(old) + row.value
    BY <1>3, <1>4, <2>2, TotalOfAdded
  <2>4. \A q \in Previous(p.series) : q \in accepted /\ q.series = p.series
    BY RowFacts DEF Previous, OfSeries
  <2>5. p.raw <= Total(old) + row.value
    <3>1. EffectiveValue(p) = p.raw \/
            \E q \in Previous(p.series) :
              q.start = p.start /\ q.raw <= p.raw /\ EffectiveValue(p) = p.raw - q.raw
      BY <1>1, ValueOfReading
    <3>2. CASE EffectiveValue(p) = p.raw
      BY <1>1, <1>3, <3>2
    <3>3. ASSUME NEW q \in Previous(p.series),
                 q.start = p.start, q.raw <= p.raw, EffectiveValue(p) = p.raw - q.raw
          PROVE  p.raw <= Total(old) + row.value
      <4>1. q.raw <= Total(old)
        BY <2>4, <3>3 DEF CountersOK
      <4>2. q.raw \in Nat
        BY <2>4, RowFacts
      <4> QED
        BY <1>1, <1>3, <3>3, <4>1, <4>2
    <3> QED
      BY <3>1, <3>2, <3>3
  <2>6. ASSUME NEW q \in accepted'
        PROVE  q.raw <= Total(SinceStart(OfSeries(accepted', q.series), q.start))
    <3> DEFINE group == SinceStart(OfSeries(accepted, q.series), q.start)
    <3>1. CASE q = row
      BY <1>1, <2>1, <2>3, <2>5, <3>1
    <3>2. CASE q \in accepted
      <4>1. q.raw <= Total(group) /\ q.raw \in Nat
        BY <3>2, RowFacts DEF CountersOK
      <4>2. CASE q.series = p.series /\ q.start = p.start
        <5>1. group = old /\ SinceStart(OfSeries(accepted', q.series), q.start) = old \cup {row}
          BY <2>1, <4>2
        <5>2. Total(old) \in Nat /\ row.value \in Nat
          BY <1>3, <1>4
        <5>3. q.raw <= Total(old)
          BY <4>1, <5>1
        <5> HIDE DEF group, old
        <5>4. q.raw <= Total(old \cup {row})
          BY <2>3, <4>1, <5>2, <5>3
        <5> QED
          BY <5>1, <5>4
      <4>3. CASE ~(q.series = p.series /\ q.start = p.start)
        BY <2>1, <4>1, <4>3
      <4> QED
        BY <4>2, <4>3
    <3> QED
      BY <1>6, <3>1, <3>2
  <2> QED
    BY <2>6 DEF CountersOK, SinceStart, OfSeries
<1> QED
  BY <1>2, <1>5, <1>6

LEMMA CountersStep == HistoryInv /\ CountersOK /\ [Next]_vars => CountersOK'
<1> SUFFICES ASSUME HistoryInv, CountersOK, [Next]_vars PROVE CountersOK'
  OBVIOUS
<1>0. TablesOK /\ now \in Int
  BY ClockFacts DEF HistoryInv
<1>1. ASSUME accepted' = accepted PROVE CountersOK'
  BY <1>1 DEF CountersOK, OfSeries, SinceStart
<1>2. CASE UNCHANGED vars \/ Tick \/ IngestGit \/ MaintenancePass \/ ReadActivity
  BY <1>1, <1>2, MaintainIs DEF vars, historyVars, Tick, IngestGit, MaintenancePass, ReadActivity
<1>3. CASE IngestMetrics
  <2>0. PICK s \in Series : \E age \in Ages[s], reading \in Counters :
          LET p == [series |-> s, at |-> now - age, start |-> reading[1], raw |-> reading[2]]
          IN Plausible(p) /\ Ingest(p)
    BY <1>3 DEF IngestMetrics
  <2>1. PICK age \in Ages[s], reading \in Counters :
          LET p == [series |-> s, at |-> now - age, start |-> reading[1], raw |-> reading[2]]
          IN Plausible(p) /\ Ingest(p)
    BY <2>0
  <2> DEFINE p == [series |-> s, at |-> now - age, start |-> reading[1], raw |-> reading[2]]
  <2>2. Plausible(p) /\ Ingest(p) /\ p = [series |-> s, at |-> now - age, start |-> reading[1], raw |-> reading[2]]
    BY <2>1
  <2> HIDE DEF p
  <2>3. Reading(p)
    BY <1>0, <2>2, DeliveredReading
  <2>4. now' = now
    BY <1>3 DEF IngestMetrics
  <2> QED
    BY <1>0, <2>2, <2>3, <2>4, IngestCounts
<1>4. ASSUME NEW gone, Purge(gone) PROVE CountersOK'
  <2>1. accepted' = Staying(accepted, gone)
    BY <1>4, PurgeIs DEF Purge
  <2>2. ASSUME NEW q \in accepted'
        PROVE  q \in accepted /\ OfSeries(accepted', q.series) = OfSeries(accepted, q.series)
    BY <2>1 DEF Staying, OfSeries
  <2> QED
    BY <2>2 DEF CountersOK, OfSeries, SinceStart
<1> QED
  BY <1>2, <1>3, <1>4 DEF Next, PurgeBox, PurgeInstance

LEMMA CountersHold == Spec => []CountersOK
<1>1. Init => CountersOK
  BY DEF Init, HistoryInit, CountersOK
<1> QED
  BY <1>1, CountersStep, HistoryHolds, PTL DEF Spec

\* However readings of a counter arrive, their values add up to no less than the
\* counter has grown (_effective_value).
THEOREM CountersCountAll == Spec => []CountersNeverUndercount
<1>1. HistoryInv /\ CountersOK => CountersNeverUndercount
  <2> SUFFICES ASSUME TablesOK, CountersOK, NEW s \in Cumulative
               PROVE  Total(OfSeries(accepted, s)) >= Growth(OfSeries(accepted, s))
    BY DEF CountersNeverUndercount, HistoryInv
  <2> DEFINE T == OfSeries(accepted, s)
             S == Starts(T)
             f == Tops(T)
             g == Values(T)
             k == [st \in S |-> st]
             l == [q \in T |-> q.start]
  <2>1. Readings(T) /\ \A st : Summable(SinceStart(T, st)) /\ Total(SinceStart(T, st)) \in Nat
    BY SeriesReadings
  <2>2. /\ Growth(T) = Weight(f, S) /\ IsFiniteSet(S) /\ \A st \in S : f[st] \in Nat
    BY <2>1, GrowthCounts
  <2>3. /\ Summable(T) /\ IsFiniteSet(T) /\ Total(T) = Weight(g, T) /\ Total(T) \in Nat
        /\ \A q \in T : g[q] = q.value /\ g[q] \in Nat
    BY <2>1, TotalCounts, TotalType DEF Readings, Summable, Values
  <2>4. ASSUME NEW st \in S PROVE Weight(f, Group(S, k, k[st])) <= Weight(g, Group(T, l, k[st]))
    <3>1. k[st] = st /\ Group(S, k, st) = {st} /\ Group(T, l, st) = SinceStart(T, st)
      BY DEF Group, SinceStart
    <3> HIDE DEF S, T, f, g, k, l
    <3>2. PICK m \in T : m.start = st /\ f[st] = m.raw /\ m.raw \in Nat
      BY <2>1, TopsAreReadings DEF S, f
    <3>3. m.raw <= Total(SinceStart(T, st))
      <4>1. m \in accepted /\ OfSeries(accepted, m.series) = T
        BY DEF T, OfSeries
      <4> QED
        BY <3>2, <4>1 DEF CountersOK
    <3>4. Weight(f, {st}) = f[st]
      BY <3>2, WeightOfOne
    <3>5. Total(SinceStart(T, st)) = Weight(g, SinceStart(T, st))
      <4>1. \A q \in SinceStart(T, st) : g[q] = q.value
        BY <2>3 DEF SinceStart
      <4> QED
        BY <2>1, <4>1, TotalIsWeight
    <3> QED
      BY <3>1, <3>2, <3>3, <3>4, <3>5
  <2> HIDE DEF S, T, f, g, k, l
  <2>5. Weight(f, S) <= Weight(g, T)
    BY <2>2, <2>3, <2>4, WeightByKey
  <2>6. Growth(T) <= Total(T) /\ Growth(T) \in Nat
    BY <2>2, <2>3, <2>5, WeightType
  <2> QED
    BY <2>3, <2>6 DEF T
<1> QED
  BY <1>1, HistoryHolds, CountersHold, PTL

\* A finite set of rows that is not empty has a latest one.
LEMMA LatestExists ==
  ASSUME NEW S, IsFiniteSet(S), S # {}, \A q \in S : q.at \in Int
  PROVE  \E m \in S : \A q \in S : q.at <= m.at
<1> DEFINE Good == {T \in SUBSET S : T = {} \/ \E m \in T : \A q \in T : q.at <= m.at}
<1>1. {} \in Good
  OBVIOUS
<1>2. ASSUME NEW T \in SUBSET S, NEW x \in S \ T, T \in Good
      PROVE  T \cup {x} \in Good
  <2>1. CASE T = {}
    BY <2>1
  <2>2. CASE T # {}
    <3>1. PICK m \in T : \A q \in T : q.at <= m.at
      BY <1>2, <2>2
    <3>2. m.at \in Int /\ x.at \in Int /\ \A q \in T : q.at \in Int
      OBVIOUS
    <3>3. CASE x.at <= m.at
      BY <3>1, <3>3
    <3>4. CASE m.at <= x.at
      <4>1. \A q \in T \cup {x} : q.at <= x.at
        BY <3>1, <3>2, <3>4
      <4> QED
        BY <4>1
    <3> QED
      BY <3>2, <3>3, <3>4
  <2> QED
    BY <2>1, <2>2
<1> HIDE DEF Good
<1>3. S \in Good
  BY <1>1, <1>2, FiniteInduction
<1> QED
  BY <1>3 DEF Good

\* The latest readings of a series.
Latest(s) == {q \in OfSeries(accepted, s) : \A r \in OfSeries(accepted, s) : r.at <= q.at}

\* The reading that a newer one is compared with, while it is stored.
LEMMA LatestIsPrevious ==
  ASSUME TablesOK, ReadingsOrdered, NEW p, Reading(p),
         Latest(p.series) \subseteq points,
         \A q \in OfSeries(accepted, p.series) : q.at < p.at
  PROVE  \/ OfSeries(accepted, p.series) = {} /\ Previous(p.series) = {}
         \/ \E m \in OfSeries(accepted, p.series) :
              /\ Previous(p.series) = {m}
              /\ \A q \in OfSeries(accepted, p.series) :
                   q.start < m.start \/ (q.start = m.start /\ q.raw <= m.raw)
              /\ m.start < p.start \/ (m.start = p.start /\ m.raw <= p.raw)
<1> DEFINE all == OfSeries(accepted, p.series)
<1>1. /\ all \subseteq accepted /\ IsFiniteSet(all) /\ points \subseteq accepted
      /\ \A q \in all : /\ q.at \in Int /\ q.start \in Nat /\ q.raw \in Nat
                        /\ q.series = p.series
  BY RowFacts, FS_Subset DEF OfSeries, TablesOK
<1>2. CASE all = {}
  <2>1. OfSeries(points, p.series) = {}
    BY <1>1, <1>2 DEF OfSeries
  <2> QED
    BY <1>2, <2>1 DEF Previous
<1>3. CASE all # {}
  <2> HIDE DEF all
  <2>1. PICK m \in all : \A q \in all : q.at <= m.at
    BY <1>1, <1>3, LatestExists
  <2>2. m \in points /\ m \in OfSeries(points, p.series)
    BY <1>1, <2>1 DEF Latest, all, OfSeries
  <2>3. ASSUME NEW q \in all
        PROVE  Same(q, m) \/ Before(q, m)
    <3>1. Same(q, m) \/ Before(q, m) \/ Before(m, q)
      BY <1>1 DEF ReadingsOrdered
    <3>2. ~Before(m, q)
      BY <1>1, <2>1 DEF Before
    <3> QED
      BY <3>1, <3>2
  <2>4. Previous(p.series) = {m}
    <3>1. \A q \in OfSeries(points, p.series) : q \in all
      BY <1>1 DEF OfSeries, all
    <3>2. m \in Previous(p.series)
      BY <2>1, <2>2, <3>1 DEF Previous
    <3>3. ASSUME NEW q \in Previous(p.series) PROVE q = m
      <4>1. q \in OfSeries(points, p.series) /\ m.at <= q.at
        BY <2>2, <3>3 DEF Previous
      <4>2. q \in points /\ q \in all
        BY <3>1, <4>1 DEF OfSeries
      <4>3. ~Before(q, m)
        BY <1>1, <4>1, <4>2 DEF Before
      <4>4. Same(q, m)
        BY <2>3, <4>2, <4>3
      <4> QED
        BY <2>2, <4>2, <4>4 DEF ReadingsOrdered
    <3> QED
      BY <3>2, <3>3
  <2>5. \A q \in all : q.start < m.start \/ (q.start = m.start /\ q.raw <= m.raw)
    <3> SUFFICES ASSUME NEW q \in all
                 PROVE  q.start < m.start \/ (q.start = m.start /\ q.raw <= m.raw)
      OBVIOUS
    <3>1. Same(q, m) => q.start = m.start /\ q.raw = m.raw
      BY DEF Same
    <3> QED
      BY <1>1, <2>3, <3>1 DEF Before
  <2>6. m.start < p.start \/ (m.start = p.start /\ m.raw <= p.raw)
    <3>1. m.at < p.at /\ p.at \in Int
      BY DEF Reading, all
    <3>2. Same(p, m) \/ Before(p, m) \/ Before(m, p)
      BY DEF Reading, Plausible, all
    <3>3. ~Same(p, m)
      BY <1>1, <3>1 DEF Same
    <3>4. ~Before(p, m)
      BY <1>1, <3>1 DEF Before
    <3> QED
      BY <3>2, <3>3, <3>4 DEF Before
  <2> QED
    BY <2>4, <2>5, <2>6 DEF all
<1> QED
  BY <1>2, <1>3

LEMMA ValueInOrder ==
  ASSUME NEW p, p.series \in Cumulative, p.raw \in Nat
  PROVE  /\ Previous(p.series) = {} => EffectiveValue(p) = p.raw
         /\ \A m : /\ Previous(p.series) = {m} /\ m.raw \in Nat
                   /\ m.start = p.start => m.raw <= p.raw
                   => EffectiveValue(p) = IF m.start = p.start THEN p.raw - m.raw ELSE p.raw
<1> DEFINE earlier == {r \in Previous(p.series) : r.start = p.start /\ r.raw <= p.raw}
           base == {q.raw : q \in earlier}
<1>1. EffectiveValue(p) = IF base # {} THEN p.raw - Max(base) ELSE p.raw
  BY DEF EffectiveValue
<1>2. ASSUME Previous(p.series) = {} PROVE EffectiveValue(p) = p.raw
  <2>1. base = {}
    BY <1>2
  <2> QED
    BY <1>1, <2>1
<1>3. ASSUME NEW m, Previous(p.series) = {m}, m.raw \in Nat, m.start = p.start => m.raw <= p.raw
      PROVE  EffectiveValue(p) = IF m.start = p.start THEN p.raw - m.raw ELSE p.raw
  <2>1. CASE m.start = p.start
    <3>1. base = {m.raw, m.raw}
      <4>1. earlier = {m}
        BY <1>3, <2>1
      <4> HIDE DEF earlier
      <4> QED
        BY <4>1
    <3>2. Max({m.raw, m.raw}) = m.raw
      BY <1>3, MaxOfTwo
    <3> HIDE DEF base
    <3> QED
      BY <1>1, <2>1, <3>1, <3>2
  <2>2. CASE m.start # p.start
    <3>1. base = {}
      BY <1>3, <2>2
    <3> QED
      BY <1>1, <2>2, <3>1
  <2> QED
    BY <2>1, <2>2
<1> QED
  BY <1>2, <1>3

\* Growth, one start taken apart.
LEMMA GrowthSplit ==
  ASSUME NEW rows, Readings(rows), NEW st
  PROVE  /\ Weight(Tops(rows), Starts(rows) \ {st}) \in Nat
         /\ st \in Starts(rows) =>
              Growth(rows) = Weight(Tops(rows), Starts(rows) \ {st}) + Tops(rows)[st]
         /\ st \notin Starts(rows) => Growth(rows) = Weight(Tops(rows), Starts(rows) \ {st})
<1> DEFINE f == Tops(rows)
           S == Starts(rows)
           R == S \ {st}
<1>1. Growth(rows) = Weight(f, S) /\ IsFiniteSet(S) /\ \A x \in S : f[x] \in Nat
  BY GrowthCounts
<1> HIDE DEF f, S
<1>2. IsFiniteSet(R) /\ R \subseteq S /\ \A x \in R : f[x] \in Nat
  BY <1>1, FS_Subset
<1>3. Weight(f, R) \in Nat
  BY <1>2, WeightType
<1>4. ASSUME st \in S PROVE Weight(f, S) = Weight(f, R) + f[st]
  <2>1. S = R \cup {st} /\ R \cap {st} = {} /\ IsFiniteSet({st})
    BY <1>4, FS_Singleton
  <2>2. \A x \in R \cup {st} : f[x] \in Nat
    BY <1>1, <2>1
  <2> HIDE DEF R
  <2>3. Weight(f, R \cup {st}) = Weight(f, R) + Weight(f, {st})
    BY <1>2, <2>1, <2>2, WeightOfUnion
  <2>4. Weight(f, {st}) = f[st]
    BY <2>2, WeightOfOne
  <2> QED
    BY <2>1, <2>3, <2>4
<1>5. ASSUME st \notin S PROVE S = R
  BY <1>5
<1> QED
  BY <1>1, <1>3, <1>4, <1>5 DEF f, S

\* Growth once a reading has come that is no lower than the others of its start.
LEMMA GrowthOfNext ==
  ASSUME NEW rows, Readings(rows), NEW row, row \notin rows,
         row.value \in Nat, row.start \in Nat, row.raw \in Nat,
         \A q \in rows : q.start = row.start => q.raw <= row.raw
  PROVE  Growth(rows \cup {row})
           = Weight(Tops(rows), Starts(rows) \ {row.start}) + row.raw
<1> DEFINE next == rows \cup {row}
           st   == row.start
<1>1. Readings(next)
  BY TotalOfAdded DEF Readings
<1>2. Starts(next) \ {st} = Starts(rows) \ {st} /\ st \in Starts(next)
  BY DEF Starts
<1>3. ASSUME NEW x \in Starts(rows) \ {st} PROVE Tops(next)[x] = Tops(rows)[x]
  <2>1. SinceStart(next, x) = SinceStart(rows, x)
    BY DEF SinceStart
  <2>2. x \in Starts(next) /\ x \in Starts(rows)
    BY <1>2
  <2> HIDE DEF next
  <2> QED
    BY <2>1, <2>2 DEF Tops
<1>4. Tops(next)[st] = row.raw
  <2>1. row \in next /\ \A q \in next : q.start = row.start => q.raw <= row.raw
    OBVIOUS
  <2> HIDE DEF next
  <2> QED
    BY <1>1, <2>1, TopIs
<1> HIDE DEF next, st
<1>5. Growth(next) = Weight(Tops(next), Starts(next) \ {st}) + Tops(next)[st]
  BY <1>1, <1>2, GrowthSplit
<1>6. Weight(Tops(next), Starts(rows) \ {st}) = Weight(Tops(rows), Starts(rows) \ {st})
  BY <1>3, WeightOfSame
<1>7. Growth(next) = Weight(Tops(rows), Starts(rows) \ {st}) + row.raw
  BY <1>2, <1>4, <1>5, <1>6, Zenon
<1> QED
  BY <1>7 DEF next, st

\* A newer reading counts what the counter has grown by.
LEMMA NewestReadingCounts ==
  ASSUME TablesOK, ReadingsOrdered, NEW p, Reading(p), p.series \in Cumulative,
         Latest(p.series) \subseteq points,
         \A q \in OfSeries(accepted, p.series) : q.at < p.at,
         Row(p) \notin accepted
  PROVE  /\ Summable(OfSeries(accepted, p.series) \cup {Row(p)})
         /\ Total(OfSeries(accepted, p.series) \cup {Row(p)})
              - Total(OfSeries(accepted, p.series))
            = Growth(OfSeries(accepted, p.series) \cup {Row(p)})
              - Growth(OfSeries(accepted, p.series))
<1> DEFINE row    == Row(p)
           before == OfSeries(accepted, p.series)
           W      == Weight(Tops(before), Starts(before) \ {row.start})
<1>1. /\ row \in Point /\ row.series = p.series /\ row.start = p.start /\ row.raw = p.raw
      /\ row.value = EffectiveValue(p) /\ p.raw \in Nat /\ p.start \in Nat
  BY RowIs DEF Reading
<1>2. row.value \in Nat
  BY <1>1 DEF Point
<1>3. Readings(before) /\ row \notin before /\ \A q \in before : q.start \in Nat /\ q.raw \in Nat
  BY SeriesReadings DEF OfSeries, Readings
<1> HIDE DEF row
<1>4. /\ Summable(before \cup {row}) /\ Total(before \cup {row}) = Total(before) + row.value
      /\ Total(before) \in Nat
  BY <1>2, <1>3, TotalOfAdded, TotalType DEF Readings
<1>5. /\ W \in Nat
      /\ row.start \in Starts(before) => Growth(before) = W + Tops(before)[row.start]
      /\ row.start \notin Starts(before) => Growth(before) = W
  BY <1>3, GrowthSplit
<1>6. \/ before = {} /\ Previous(p.series) = {}
      \/ \E m \in before :
           /\ Previous(p.series) = {m}
           /\ \A q \in before : q.start < m.start \/ (q.start = m.start /\ q.raw <= m.raw)
           /\ m.start < p.start \/ (m.start = p.start /\ m.raw <= p.raw)
  BY LatestIsPrevious
<1> HIDE DEF before, W
<1>7. ASSUME \A q \in before : q.start = row.start => q.raw <= row.raw
      PROVE  Growth(before \cup {row}) = W + row.raw
  BY <1>1, <1>2, <1>3, <1>7, GrowthOfNext DEF W
<1>8. CASE before = {} /\ Previous(p.series) = {}
  <2>1. row.value = row.raw
    BY <1>1, <1>8, ValueInOrder
  <2>2. Growth(before) = W
    BY <1>5, <1>8 DEF Starts
  <2>3. Growth(before \cup {row}) = W + row.raw
    BY <1>7, <1>8
  <2> QED
    BY <1>1, <1>4, <1>5, <2>1, <2>2, <2>3 DEF row, before
<1>9. ASSUME NEW m \in before, Previous(p.series) = {m},
             \A q \in before : q.start < m.start \/ (q.start = m.start /\ q.raw <= m.raw),
             m.start < p.start \/ (m.start = p.start /\ m.raw <= p.raw)
      PROVE  Total(before \cup {row}) - Total(before) = Growth(before \cup {row}) - Growth(before)
  <2>0. m.start \in Nat /\ m.raw \in Nat
    BY <1>3
  <2>1. row.value = IF m.start = p.start THEN p.raw - m.raw ELSE p.raw
    BY <1>1, <1>9, <2>0, ValueInOrder
  <2>2. \A q \in before : q.start = row.start => q.raw <= row.raw
    BY <1>1, <1>3, <1>9, <2>0
  <2>3. Growth(before \cup {row}) = W + row.raw
    BY <1>7, <2>2
  <2>4. CASE m.start = p.start
    <3>1. \A q \in before : q.start = m.start => q.raw <= m.raw
      BY <1>3, <1>9, <2>0
    <3>2. Tops(before)[m.start] = m.raw
      BY <1>3, <3>1, TopIs
    <3>3. row.start \in Starts(before)
      BY <1>1, <2>4 DEF Starts
    <3>4. Growth(before) = W + m.raw
      BY <1>1, <1>5, <2>4, <3>2, <3>3
    <3> QED
      BY <1>1, <1>4, <1>5, <2>0, <2>1, <2>3, <2>4, <3>4
  <2>5. CASE m.start # p.start
    <3>1. row.start \notin Starts(before)
      BY <1>1, <1>3, <1>9, <2>0, <2>5 DEF Starts
    <3> QED
      BY <1>1, <1>4, <1>5, <2>1, <2>3, <2>5, <3>1
  <2> QED
    BY <2>4, <2>5
<1>10. Total(before \cup {row}) - Total(before) = Growth(before \cup {row}) - Growth(before)
  BY <1>4, <1>6, <1>8, <1>9 DEF row, before
<1> QED
  BY <1>4, <1>10 DEF row, before

\* What the counts of a step come to.
LEMMA InOrderStep ==
  ASSUME HistoryInv, [Next]_vars, NEW s \in Cumulative, Latest(s) \subseteq points,
         OfSeries(accepted, s) \subseteq OfSeries(accepted', s),
         \A p \in OfSeries(accepted', s) \ OfSeries(accepted, s),
            q \in OfSeries(accepted, s) : q.at < p.at
  PROVE  Total(OfSeries(accepted', s)) - Total(OfSeries(accepted, s))
           = Growth(OfSeries(accepted', s)) - Growth(OfSeries(accepted, s))
<1>0. /\ TablesOK /\ ReadingsOrdered /\ now \in Int
      /\ Total(OfSeries(accepted, s)) \in Nat /\ Growth(OfSeries(accepted, s)) \in Nat
  <2>1. Readings(OfSeries(accepted, s)) /\ TablesOK /\ ReadingsOrdered /\ now \in Int
    BY SeriesReadings, ClockFacts DEF HistoryInv
  <2>2. Total(OfSeries(accepted, s)) \in Nat
    BY <2>1, TotalType DEF Readings
  <2>3. Growth(OfSeries(accepted, s)) \in Nat
    BY <2>1, GrowthCounts, WeightType
  <2> QED
    BY <2>1, <2>2, <2>3
<1>1. CASE OfSeries(accepted', s) = OfSeries(accepted, s)
  BY <1>0, <1>1
<1>2. CASE UNCHANGED vars \/ Tick \/ IngestGit \/ MaintenancePass \/ ReadActivity
  <2>1. accepted' = accepted
    BY <1>2, MaintainIs DEF vars, historyVars, Tick, IngestGit, MaintenancePass, ReadActivity
  <2> QED
    BY <1>1, <2>1
<1>3. ASSUME NEW gone, Purge(gone) PROVE OfSeries(accepted', s) = OfSeries(accepted, s)
  <2>1. accepted' \subseteq accepted
    BY <1>3, PurgeIs DEF Purge, Staying
  <2> QED
    BY <2>1 DEF OfSeries
<1>4. CASE IngestMetrics
  <2>0. PICK r \in Series : \E age \in Ages[r], reading \in Counters :
          LET p == [series |-> r, at |-> now - age, start |-> reading[1], raw |-> reading[2]]
          IN Plausible(p) /\ Ingest(p)
    BY <1>4 DEF IngestMetrics
  <2>1. PICK age \in Ages[r], reading \in Counters :
          LET p == [series |-> r, at |-> now - age, start |-> reading[1], raw |-> reading[2]]
          IN Plausible(p) /\ Ingest(p)
    BY <2>0
  <2> DEFINE p == [series |-> r, at |-> now - age, start |-> reading[1], raw |-> reading[2]]
  <2>2. Plausible(p) /\ Ingest(p) /\ p = [series |-> r, at |-> now - age, start |-> reading[1], raw |-> reading[2]]
    BY <2>1
  <2> HIDE DEF p
  <2>3. Reading(p)
    BY <1>0, <2>2, DeliveredReading
  <2>4. Row(p).series = p.series /\ Row(p).at = p.at
    BY <1>0, <2>3, RowIs
  <2>5. accepted' = accepted \/ accepted' = accepted \cup {Row(p)}
    BY <2>2, IngestCases
  <2>6. CASE p.series = s /\ Row(p) \notin accepted /\ accepted' = accepted \cup {Row(p)}
    <3>1. /\ OfSeries(accepted', s) = OfSeries(accepted, s) \cup {Row(p)}
          /\ Row(p) \in OfSeries(accepted', s) \ OfSeries(accepted, s)
      BY <2>4, <2>6 DEF OfSeries
    <3>2. \A q \in OfSeries(accepted, s) : q.at < p.at
      BY <2>4, <3>1
    <3>3. Total(OfSeries(accepted, s) \cup {Row(p)}) - Total(OfSeries(accepted, s))
            = Growth(OfSeries(accepted, s) \cup {Row(p)}) - Growth(OfSeries(accepted, s))
      BY <1>0, <2>3, <2>6, <3>2, NewestReadingCounts
    <3> QED
      BY <3>1, <3>3
  <2>7. CASE ~(p.series = s /\ Row(p) \notin accepted) \/ accepted' = accepted
    <3>1. OfSeries(accepted', s) = OfSeries(accepted, s)
      BY <2>4, <2>5, <2>7 DEF OfSeries
    <3> QED
      BY <1>1, <3>1
  <2> QED
    BY <2>5, <2>6, <2>7
<1> QED
  BY <1>1, <1>2, <1>3, <1>4 DEF Next, PurgeBox, PurgeInstance

\* A reading that is newer than all others, while the one before it is still stored,
\* adds exactly what the counter has grown, also after older readings have come late
\* (_effective_value).
THEOREM InOrderIsExact == Spec => InOrderReadingsAreExact
<1>1. HistoryInv /\ [Next]_vars =>
        [\A s \in Cumulative :
          LET before == OfSeries(accepted, s)
              after  == OfSeries(accepted', s)
              latest == {p \in before : \A q \in before : q.at <= p.at}
          IN (/\ latest \subseteq points
              /\ before \subseteq after
              /\ \A p \in after \ before, q \in before : q.at < p.at)
             => Total(after) - Total(before) = Growth(after) - Growth(before)]_vars
  <2> SUFFICES ASSUME HistoryInv, [Next]_vars, NEW s \in Cumulative,
                      Latest(s) \subseteq points,
                      OfSeries(accepted, s) \subseteq OfSeries(accepted', s),
                      \A p \in OfSeries(accepted', s) \ OfSeries(accepted, s),
                         q \in OfSeries(accepted, s) : q.at < p.at
               PROVE  Total(OfSeries(accepted', s)) - Total(OfSeries(accepted, s))
                        = Growth(OfSeries(accepted', s)) - Growth(OfSeries(accepted, s))
    BY DEF Latest
  <2> QED
    BY InOrderStep
<1> QED
  BY <1>1, HistoryHolds, PTL DEF Spec, InOrderReadingsAreExact
=============================================================================
