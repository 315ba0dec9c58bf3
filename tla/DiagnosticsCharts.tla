-------------------------- MODULE DiagnosticsCharts --------------------------
(***************************************************************************)
(* The charts of a simulation window (widgets/diagnostics_widget): a live  *)
(* window appends one snapshot after another and redraws what is visible   *)
(* whenever a timer fires; a replay window fills the charts once.  With    *)
(* them: the extractor of relative changes (core/charts/chart_extractors)  *)
(* and the choice of points by largest triangles (core/charts/downsampling).*)
(*                                                                         *)
(* The k-th snapshot has the time k; its energy is a small integer.        *)
(***************************************************************************)
EXTENDS Integers, Sequences, FiniteSetsExt, SequencesExt

CONSTANTS Energies,   \* what a snapshot's energy may be
          MaxPoints,  \* snapshots of a simulation
          Threshold,  \* points a chart is wide enough for
          NaN

Charts == {"energy", "change"}

ASSUME ChartAssumption ==
  /\ Energies \subseteq Int /\ MaxPoints \in Nat
  /\ Threshold \in Nat /\ Threshold > 2 /\ NaN \notin Int \cup [min : Int, max : Int]

VARIABLES
  window,        \* "live" or "replay"
  received,      \* history: the energies of the snapshots received
  initialValue,  \* of the extractor of changes
  fullData,      \* full_data_
  extremes,      \* min_values_ and max_values_
  maxTime,       \* max_time_
  automatic,     \* refresh_automatically_
  armed,         \* a single-shot timer is set to refreshCharts
  fired,         \* history: parity of the number of refreshes
  visible,       \* charts inside the viewport
  shown          \* points and axes of each chart

chartVars == <<window, received, initialValue, fullData, extremes, maxTime, automatic, armed,
               fired, visible, shown>>

-----------------------------------------------------------------------------
(* Largest triangle, three buckets.                                        *)

Abs(n) == IF n < 0 THEN -n ELSE n

\* Sums over points, for their average.
SumOf(points) ==
  [x |-> SumFunction([k \in DOMAIN points |-> points[k].x]),
   y |-> SumFunction([k \in DOMAIN points |-> points[k].y])]

\* Twice the area of the triangle of a, c and the average of count points,
\* times count.
Area(a, c, sum, count) ==
  Abs((a.x * count - sum.x) * (c.y - a.y) - (a.x - c.x) * (sum.y - a.y * count))

\* Index of the first point of bucket i, counting from 0.
BucketStart(i, size) == (i * (size - 2)) \div (Threshold - 2) + 1

NextBucket(i, size) == BucketStart(i + 1, size) .. Min({BucketStart(i + 2, size), size}) - 1

\* Of the next bucket, the first point whose triangle is largest.
Largest(data, a, i) ==
  LET averaged == SubSeq(data, BucketStart(i, Len(data)) + 1, BucketStart(i + 1, Len(data)))
      sum    == SumOf(averaged)
      bucket == NextBucket(i, Len(data))
      AreaAt(j) == Area(data[a + 1], data[j + 1], sum, Len(averaged))
      most   == Max({AreaAt(j) : j \in bucket})
  IN  Min({j \in bucket : AreaAt(j) = most})

\* The point selected from each bucket in turn, after the first point of all.
\* With exact bucket sizes none is empty: the code's continue is for rounding.
Selected(data) ==
  LET at[i \in 0 .. Threshold - 2] ==
        IF i = 0 THEN 0
        ELSE LET a == at[i - 1] IN Largest(data, a, i - 1)
  IN  at

LargestTriangleThreeBuckets(data) ==
  IF Threshold >= Len(data) THEN data
  ELSE LET at == Selected(data)
       IN  [k \in 1 .. Threshold - 1 |-> data[at[k - 1] + 1]] \o <<Last(data)>>
-----------------------------------------------------------------------------
(* The widget.                                                             *)

\* Rounded down; energies may be negative, and \div is for positive divisors.
Percent(part, whole) ==
  IF whole > 0 THEN (part * 100) \div whole ELSE ((-part) * 100) \div (-whole)

\* createPercentageChangeExtractor: relative to the first value it was given.
Change(initial, value) ==
  IF initial \in {NaN, 0} THEN 0 ELSE Percent(value - initial, initial)
Initial(value) == IF initialValue = NaN THEN value ELSE initialValue
Extract(chart, initial, value) == IF chart = "energy" THEN value ELSE Change(initial, value)

NoExtremes == [chart \in Charts |-> NaN]
Widened(range, value) ==
  IF range = NaN THEN [min |-> value, max |-> value]
  ELSE [min |-> Min({range.min, value}), max |-> Max({range.max, value})]

Drawing(points, range, time) == [points |-> points, range |-> range, time |-> time]
Drawn(chart) ==
  Drawing(LargestTriangleThreeBuckets(fullData[chart]), extremes[chart], maxTime)

\* setupCharts, in the window's constructor, ends with a first refresh.
ChartsInit ==
  /\ window \in {"live", "replay"} /\ received = <<>> /\ initialValue = NaN
  /\ fullData = [chart \in Charts |-> <<>>]
  /\ extremes = NoExtremes /\ maxTime = 0
  /\ automatic = TRUE /\ armed = TRUE /\ fired = FALSE
  /\ visible \in SUBSET Charts
  /\ shown = [chart \in Charts |-> Drawing(<<>>, NaN, 0)]

\* updateData: the live window has a snapshot from the diagnostics pipeline.
UpdateData ==
  \E value \in Energies :
    /\ window = "live" /\ Len(received) < MaxPoints
    /\ received' = Append(received, value)
    /\ initialValue' = Initial(value)
    /\ fullData' = [chart \in Charts |->
         Append(fullData[chart],
                [x |-> Len(received'), y |-> Extract(chart, initialValue, value)])]
    /\ extremes' = [chart \in Charts |->
                      Widened(extremes[chart], Extract(chart, initialValue, value))]
    /\ maxTime' = Len(received')
    /\ UNCHANGED <<window, automatic, armed, fired, visible, shown>>

\* processSeries, and what it makes of the extremes.
Covering(points) ==
  LET values == {points[k].y : k \in DOMAIN points}
  IN  IF points = <<>> THEN NaN ELSE [min |-> Min(values), max |-> Max(values)]
PointsOf(chart, series) ==
  [k \in DOMAIN series |-> [x |-> k, y |-> Extract(chart, series[1], series[k])]]

\* fillCharts: nothing is appended to the data, and nothing downsampled.
Fill(series, refreshing) ==
  /\ window = "replay" /\ received = <<>>
  /\ received' = series /\ automatic' = refreshing
  /\ initialValue' = IF series = <<>> THEN NaN ELSE series[1]
  /\ maxTime' = Len(series)
  /\ extremes' = [chart \in Charts |-> Covering(PointsOf(chart, series))]
  /\ shown' = [chart \in Charts |->
       Drawing(PointsOf(chart, series), extremes'[chart], maxTime')]
  /\ UNCHANGED <<window, fullData, armed, fired, visible>>

\* Faulty variant: the timer goes on.
FillAndRefresh ==
  \E series \in UNION {[1 .. n -> Energies] : n \in 0 .. MaxPoints} : Fill(series, TRUE)

FillCharts ==
  \E series \in UNION {[1 .. n -> Energies] : n \in 0 .. MaxPoints} : Fill(series, FALSE)

\* Faulty variant: a single-shot timer is not set again.
RefreshOnce ==
  /\ armed /\ armed' = FALSE /\ fired' = ~fired
  /\ shown' = IF automatic THEN [chart \in Charts |-> IF chart \in visible THEN Drawn(chart)
                                                      ELSE shown[chart]] ELSE shown
  /\ UNCHANGED <<window, received, initialValue, fullData, extremes, maxTime, automatic, visible>>

\* refreshCharts, called by its timer.
RefreshCharts ==
  /\ armed /\ armed' = automatic /\ fired' = ~fired
  /\ shown' = IF automatic THEN [chart \in Charts |-> IF chart \in visible THEN Drawn(chart)
                                                      ELSE shown[chart]] ELSE shown
  /\ UNCHANGED <<window, received, initialValue, fullData, extremes, maxTime, automatic, visible>>

Scroll ==
  /\ visible' \in SUBSET Charts \ {visible}
  /\ UNCHANGED <<window, received, initialValue, fullData, extremes, maxTime, automatic, armed,
                 fired, shown>>

ChartsNext == UpdateData \/ FillCharts \/ RefreshCharts \/ Scroll

\* A timer that is set fires: RefreshCharts is the step that changes fired.
TimerFires == armed /\ fired' = ~fired

ChartsSpec == ChartsInit /\ [][ChartsNext]_chartVars /\ WF_fired(TimerFires)
-----------------------------------------------------------------------------
\* What the chart of a series of values has at the time of its k-th.
Meaning(chart, k) ==
  CASE chart = "energy" -> received[k]
    [] chart = "change" /\ received[1] = 0 -> 0
    [] chart = "change" /\ received[1] # 0 -> Percent(received[k] - received[1], received[1])

\* The shown points are data of the chart; from the first snapshot to the last
\* they leave out no stretch longer than two buckets, and do not go back.
ShowsStretch(chart, points) ==
  LET n == Last(points).x
  IN  /\ \A k \in DOMAIN points : points[k].y = Meaning(chart, points[k].x)
      /\ points[1].x = 1
      /\ \A k \in 1 .. Len(points) - 1 :
           points[k + 1].x - points[k].x \in
             IF n <= Threshold THEN {1}
             ELSE 0 .. 2 * (1 + (n - 2) \div (Threshold - 2))
      /\ Len(points) = Min({n, Threshold})

\* A chart shows the series up to some snapshot, inside its axes, although its
\* points are chosen anew at every refresh and charts out of sight are not
\* refreshed; a chart that was filled keeps the whole series, although a timer
\* was running when it was filled.
ChartsShowSeries ==
  \A chart \in Charts :
    LET points == shown[chart].points
    IN  /\ points # <<>> /\ window = "live" => ShowsStretch(chart, points)
        /\ \A k \in DOMAIN points :
             /\ points[k].x <= shown[chart].time
             /\ points[k].y \in shown[chart].range.min .. shown[chart].range.max
        /\ window = "replay" =>
             points = [k \in DOMAIN received |-> [x |-> k, y |-> Meaning(chart, k)]]

\* A chart that stays in sight shows the last snapshot in the end.
ChartsCatchUp ==
  \A chart \in Charts :
    <>[](window = "live" /\ chart \in visible)
      => <>[](shown[chart].time = Len(received))
=============================================================================
