--------------------------- MODULE PairStatistics ---------------------------
(***************************************************************************)
(* bivariate_statistics.py measures two listings on their common days;     *)
(* bivariate_diagnostics.py sums the pairs up for the page.                *)
(*                                                                         *)
(* Log returns are integers. A correlation is represented by its square    *)
(* with its sign, so means and deviations of correlations are left out, as *)
(* is the severity of drawdowns, which needs the exponential. A share is   *)
(* drawn down when it is more than DrawdownLimit below its peak.           *)
(***************************************************************************)
EXTENDS Candidates

CONSTANTS
    TailPercent,        \* of the days are in the lower tail
    RollingDays,        \* in a window
    MinimumRolling,     \* days needed for windows
    MinimumTailRolling, \* days needed for windows of tails
    DrawdownLimit

ASSUME PairAssumption ==
    /\ TailPercent \in 0 .. 100
    /\ RollingDays \in Nat \ {0}
    /\ MinimumRolling \in Nat \ {0} /\ MinimumTailRolling \in Nat \ {0}
    /\ DrawdownLimit \in Nat

RatioOf(x, y) == IF y = 0 THEN Zero ELSE Frac(x, y)

-----------------------------------------------------------------------------
(* The measures of a pair: two sequences of the same length.               *)

DayTotal(values) == FoldFunction(+, 0, values)

(* n * n times the covariance, by n - 1 over n.                            *)
CoMoment(left, right) ==
    Len(left) * DayTotal([t \in DOMAIN left |-> left[t] * right[t]])
        - DayTotal(left) * DayTotal(right)

Pearson(left, right) ==
    LET c == CoMoment(left, right)
        d == CoMoment(left, left) * CoMoment(right, right)
    IN  IF d <= 0 THEN Zero ELSE Frac(c * (IF c < 0 THEN -c ELSE c), d)

DownsideDays(left, right) == {t \in DOMAIN left : left[t] < 0 /\ right[t] < 0}

OnlyDays(values, days) == LET sorted == Ascending(days)
                          IN  [i \in DOMAIN sorted |-> values[sorted[i]]]

DownsideCorrelation(left, right) ==
    LET days == DownsideDays(left, right)
    IN  IF Cardinality(days) < 2 THEN Zero
        ELSE Pearson(OnlyDays(left, days), OnlyDays(right, days))

(* round() to the nearest, halves to even.                                 *)
HalfEven(x, y) ==
    LET q == x \div y
        rest == 2 * (x % y)
    IN  IF rest > y \/ (rest = y /\ q % 2 = 1) THEN q + 1 ELSE q

Quantile(values) ==
    IF values = <<>> THEN 0
    ELSE SortSeq(values, <)[1 + Min({Len(values) - 1,
                                     HalfEven((Len(values) - 1) * TailPercent, 100)})]

TailDays(values) == {t \in DOMAIN values : values[t] <= Quantile(values)}

JointTail(left, right) == TailDays(left) \cap TailDays(right)

Fault_TailDependence(left, right) ==
    RatioOf(Cardinality(JointTail(left, right)), Cardinality(TailDays(left)))

TailDependence(left, right) ==
    RatioOf(Cardinality(JointTail(left, right)),
            Min({Cardinality(TailDays(left)), Cardinality(TailDays(right))}))

TailCoexceedance(left, right) == RatioOf(Cardinality(JointTail(left, right)), Len(left))

(* Halves of the mean joint loss.                                          *)
TailSeverity(left, right) ==
    RatioOf(-DayTotal([t \in JointTail(left, right) |-> left[t] + right[t]]),
            2 * Cardinality(JointTail(left, right)))

(* _drawdowns: how far each day is below the highest so far, or below the  *)
(* start.                                                                  *)
DrawnDown(values) ==
    LET level[t \in 0 .. Len(values)] == IF t = 0 THEN 0 ELSE level[t - 1] + values[t]
    IN  {t \in DOMAIN values :
            \E u \in 0 .. t : level[u] - level[t] > DrawdownLimit}

DrawdownOverlap(left, right) == DrawnDown(left) \cap DrawnDown(right)

OverlapRate(left, right) == RatioOf(Cardinality(DrawdownOverlap(left, right)), Len(left))

(* First days less one of the windows: every third of a window, and the    *)
(* last window that fits.                                                  *)
WindowStarts(n, minimum) ==
    LET window == Min({RollingDays, n})
        step == Max({1, window \div 3})
        regular == Ascending({s \in 0 .. n - window : s % step = 0})
    IN  IF n < minimum THEN <<>>
        ELSE IF regular[Len(regular)] = n - window THEN regular
        ELSE Append(regular, n - window)

WindowAt(values, start) == SubSeq(values, start + 1, start + Min({RollingDays, Len(values)}))

Rolling(left, right, minimum, measure(_, _)) ==
    LET starts == WindowStarts(Len(left), minimum)
    IN  [k \in DOMAIN starts |-> measure(WindowAt(left, starts[k]), WindowAt(right, starts[k]))]

(* The square of a standard deviation, of a mean over windows.             *)
Spread(values) ==
    LET mean == Over(Sum(values), Whole(Len(values)))
    IN  IF Len(values) < 2 THEN Zero
        ELSE Over(Sum([k \in DOMAIN values |->
                          LET x == Minus(values[k], mean) IN Times(x, x)]),
                  Whole(Len(values) - 1))

RollingCorrelations(left, right) == Rolling(left, right, MinimumRolling, Pearson)

RollingMaximum(left, right) ==
    LET found == RollingCorrelations(left, right)
    IN  IF found = <<>> THEN Zero
        ELSE CHOOSE x \in Range(found) : \A y \in Range(found) : AtMost(y, x)

(* A regime is a correlation of 0.7 and more.                              *)
RegimeSwitches(left, right) ==
    LET found == RollingCorrelations(left, right)
        high(k) == AtMost(Frac(49, 100), found[k])
    IN  Cardinality({k \in 1 .. Len(found) - 1 : high(k) # high(k + 1)})

TailSpread(left, right) == Spread(Rolling(left, right, MinimumTailRolling, TailDependence))
CoexceedanceSpread(left, right) ==
    Spread(Rolling(left, right, MinimumTailRolling, TailCoexceedance))
OverlapSpread(left, right) == Spread(Rolling(left, right, MinimumRolling, OverlapRate))

PairStatistics(left, right) ==
    [pearson |-> Pearson(left, right), n |-> Len(left),
     downside |-> DownsideCorrelation(left, right),
     downside_count |-> Cardinality(DownsideDays(left, right)),
     tail |-> TailDependence(left, right), coexceedance |-> TailCoexceedance(left, right),
     severity |-> TailSeverity(left, right),
     tail_count |-> Cardinality(JointTail(left, right)),
     tail_spread |-> TailSpread(left, right),
     coexceedance_spread |-> CoexceedanceSpread(left, right),
     maximum |-> RollingMaximum(left, right), switches |-> RegimeSwitches(left, right),
     overlap |-> OverlapRate(left, right),
     overlap_count |-> Cardinality(DrawdownOverlap(left, right)),
     overlap_spread |-> OverlapSpread(left, right)]

-----------------------------------------------------------------------------
(* The facts shown of all pairs. A row has left, right and a function from *)
(* metrics to <<value>> or <<>>; values are integers.                      *)

Having(rows, metric) == SelectSeq(rows, LAMBDA row : row.of[metric] # <<>>)
ValuesOf(rows, metric) ==
    LET own == Having(rows, metric) IN [i \in DOMAIN own |-> own[i].of[metric][1]]

AtPercent(values, percent) ==
    LET sorted == SortSeq(values, <)
        n == Len(sorted) - 1
        lower == (n * percent) \div 100
        upper == Min({lower + 1, n})
    IN  IF values = <<>> THEN <<>>
        ELSE <<Plus(Whole(sorted[1 + lower]),
                    Frac((sorted[1 + upper] - sorted[1 + lower]) * ((n * percent) % 100), 100))>>

MedianValue(values) == AtPercent(values, 50)
MeanValue(values) == IF values = <<>> THEN <<>> ELSE <<Frac(DayTotal(values), Len(values))>>

(* bivariate_metric_summary: eight bins, empty ones left out.              *)
Bins == 8

BinOf(values, v) ==
    LET low == Min(Range(values))
        high == Max(Range(values))
    IN  IF high = low THEN 0 ELSE Min({Bins - 1, ((v - low) * Bins) \div (high - low)})

Histogram(values) ==
    LET low == Min(Range(values))
        width == Frac(Max(Range(values)) - low, Bins)
        edge(b) == Plus(Whole(low), Times(Whole(b), width))
        bin(b) == [lower |-> edge(b),
                   upper |-> IF width = Zero THEN Whole(low) ELSE edge(b + 1),
                   count |-> Cardinality({i \in DOMAIN values : BinOf(values, values[i]) = b})]
        filled == Ascending({BinOf(values, v) : v \in Range(values)})
    IN  IF values = <<>> THEN <<>> ELSE [k \in DOMAIN filled |-> bin(filled[k])]

(* Listings in the order in which the rows name them.                      *)
LabelsOf(rows, metric) ==
    LET own == Having(rows, metric)
    IN  FlattenSeq([i \in DOMAIN own |-> <<own[i].left, own[i].right>>])

ListingAverage(rows, metric, l) ==
    LET own == SelectSeq(Having(rows, metric), LAMBDA row : l \in {row.left, row.right})
    IN  MeanValue(ValuesOf(own, metric))[1]

(* The first named of those with the highest average.                      *)
MostExposed(rows, metric) ==
    LET labels == LabelsOf(rows, metric)
        best == {i \in DOMAIN labels : \A j \in DOMAIN labels :
                    AtMost(ListingAverage(rows, metric, labels[j]),
                           ListingAverage(rows, metric, labels[i]))}
    IN  IF labels = <<>> THEN <<>> ELSE <<labels[Min(best)]>>

LeastExposed(rows, metric) ==
    LET labels == LabelsOf(rows, metric)
        best == {i \in DOMAIN labels : \A j \in DOMAIN labels :
                    AtMost(ListingAverage(rows, metric, labels[i]),
                           ListingAverage(rows, metric, labels[j]))}
    IN  IF labels = <<>> THEN <<>> ELSE <<labels[Min(best)]>>

(* The first row of those with the highest value.                          *)
WorstPair(rows, metric) ==
    LET own == Having(rows, metric)
        worst == {i \in DOMAIN own : \A j \in DOMAIN own :
                     own[j].of[metric][1] <= own[i].of[metric][1]}
    IN  IF own = <<>> THEN <<>> ELSE <<own[Min(worst)]>>

(* The first row of those with the lowest value, then the lowest other one.*)
BestPair(rows, metric, other) ==
    LET own == Having(Having(rows, metric), other)
        key(i) == <<own[i].of[metric][1], own[i].of[other][1]>>
        best == {i \in DOMAIN own : \A j \in DOMAIN own :
                    \/ key(i)[1] < key(j)[1]
                    \/ key(i)[1] = key(j)[1] /\ key(i)[2] <= key(j)[2]}
    IN  IF own = <<>> THEN <<>> ELSE <<own[Min(best)]>>

AtLeast(rows, metric, threshold) ==
    Len(SelectSeq(ValuesOf(rows, metric), LAMBDA v : v >= threshold))

EdgesOf(rows, metric, threshold) ==
    {{rows[i].left, rows[i].right} : i \in {i \in DOMAIN rows :
        rows[i].of[metric] # <<>> /\ rows[i].of[metric][1] >= threshold}}

(* _correlation_clusters: from a seed along the edges until nothing is new.*)
Grown(members, edges) == members \cup UNION {e \in edges : e \cap members # {}}

ClusterOf(l, edges, n) ==
    LET reached[k \in 0 .. n] == IF k = 0 THEN {l} ELSE Grown(reached[k - 1], edges)
    IN  reached[n]

Clusters(rows, metric, threshold) ==
    LET labels == Range(LabelsOf(rows, metric))
    IN  {ClusterOf(l, EdgesOf(rows, metric, threshold), Cardinality(labels)) : l \in labels}

LargestCluster(clusters) == Max({0} \cup {Cardinality(c) : c \in clusters})

(* _correlation_distribution, in percent.                                  *)
Distribution(values) ==
    [high_70 |-> Len(SelectSeq(values, LAMBDA v : v >= 70)),
     high_90 |-> Len(SelectSeq(values, LAMBDA v : v >= 90)),
     low_30 |-> Len(SelectSeq(values, LAMBDA v : v <= 30)),
     negative |-> Len(SelectSeq(values, LAMBDA v : v < 0)),
     p10 |-> AtPercent(values, 10), p50 |-> AtPercent(values, 50), p90 |-> AtPercent(values, 90)]

Exposure(rows, metric) ==
    [most |-> MostExposed(rows, metric), least |-> LeastExposed(rows, metric)]

(* Nothing is said of other metrics when no row has the one asked for.     *)
Shown(rows, metric) == IF Having(rows, metric) = <<>> THEN <<>> ELSE rows

Averages(rows, metrics) == [m \in metrics |-> MeanValue(ValuesOf(rows, m))]

CountFacts(rows, metric) ==
    LET values == ValuesOf(rows, metric)
    IN  [days |-> IF values = <<>> THEN <<>>
                  ELSE <<MedianValue(values)[1], Whole(Min(Range(values)))>>]

PearsonDiagnostics(rows) == Distribution(ValuesOf(rows, "pearson")) @@ Exposure(rows, "pearson")

CorrelationGaps(rows, metric) ==
    LET own == Having(Having(rows, metric), "pearson")
    IN  [i \in DOMAIN own |-> own[i].of[metric][1] - own[i].of["pearson"][1]]

ClusterFacts(rows, metric, threshold) ==
    LET clusters == Clusters(rows, metric, threshold)
    IN  [count |-> Cardinality(clusters), largest |-> LargestCluster(clusters)]

CorrelationDiagnostics(rows, metric) ==
    LET gaps == CorrelationGaps(rows, metric)
    IN  Distribution(ValuesOf(rows, metric)) @@ Exposure(rows, metric)
            @@ ClusterFacts(rows, metric, 70)
            @@ [gap |-> MeanValue(gaps),
                large_gaps |-> Len(SelectSeq(gaps, LAMBDA g : g >= 15 \/ g <= -15))]

SpearmanDiagnostics(rows) ==
    CorrelationDiagnostics(rows, "spearman") @@ Averages(Shown(rows, "spearman"), {"stability"})

DownsideDiagnostics(rows) ==
    LET shown == Shown(rows, "downside")
    IN  CorrelationDiagnostics(rows, "downside") @@ CountFacts(shown, "downside_count")
            @@ Averages(shown, {"stability"}) @@ [worst |-> WorstPair(rows, "downside")]

MetricDiagnostics(rows, metric, threshold) ==
    ClusterFacts(rows, metric, threshold)
        @@ [p90 |-> AtPercent(ValuesOf(rows, metric), 90),
            high |-> AtLeast(rows, metric, threshold), worst |-> WorstPair(rows, metric),
            most |-> MostExposed(rows, metric), best |-> BestPair(rows, metric, metric)]

TailDiagnostics(rows) ==
    LET shown == Shown(rows, "tail")
    IN  [MetricDiagnostics(rows, "tail", 30) EXCEPT !.best = BestPair(rows, "tail", "coexceedance")]
            @@ [high_50 |-> AtLeast(rows, "tail", 50)] @@ CountFacts(shown, "tail_count")
            @@ Averages(shown, {"severity", "stability"})

CoexceedanceDiagnostics(rows) ==
    LET shown == Shown(rows, "coexceedance")
        worst == WorstPair(rows, "coexceedance")
    IN  [MetricDiagnostics(rows, "coexceedance", 1) EXCEPT
            !.best = BestPair(rows, "coexceedance", "tail")]
            @@ [high_5 |-> AtLeast(rows, "coexceedance", 5),
                worst_tail |-> IF worst = <<>> THEN <<>> ELSE worst[1].of["tail"]]
            @@ CountFacts(shown, "tail_count") @@ Averages(shown, {"coexceedance", "stability"})

(* _median_rolling_window_count, with the windows of sixty days.           *)
ReportedWindows(n) ==
    IF n < MinimumRolling THEN 0
    ELSE 1 + Max({0, (n - Min({RollingDays, n})) \div (RollingDays \div 3)})

RollingDiagnostics(rows) ==
    LET shown == Shown(rows, "rolling")
        days == ValuesOf(shown, "n")
    IN  MetricDiagnostics(rows, "rolling", 10) @@ CountFacts(shown, "n")
            @@ Averages(shown, {"switches", "downside"})
            @@ [windows |-> MedianValue([i \in DOMAIN days |-> ReportedWindows(days[i])]),
                switching |-> AtLeast(shown, "switches", 1),
                high_30 |-> AtLeast(rows, "rolling", 30)]

(* Pairs that draw down together although their correlation is low.        *)
HiddenRisk(rows, metric) ==
    {i \in DOMAIN rows : /\ rows[i].of["overlap"] # <<>> /\ rows[i].of["overlap"][1] >= 25
                         /\ rows[i].of[metric] # <<>> /\ rows[i].of[metric][1] <= 30}

OverlapDiagnostics(rows) ==
    LET shown == Shown(rows, "overlap")
    IN  MetricDiagnostics(rows, "overlap", 10) @@ CountFacts(shown, "overlap_count")
            @@ Averages(shown, {"pearson", "downside", "stability"})
            @@ [high_25 |-> AtLeast(rows, "overlap", 25), high_50 |-> AtLeast(rows, "overlap", 50),
                hidden_pearson |-> Cardinality(HiddenRisk(rows, "pearson")),
                hidden_downside |-> Cardinality(HiddenRisk(rows, "downside"))]

(* covariance_diagnostics of n equally weighted listings; deviation[i] is  *)
(* the root of listing i's variance. The minimum variance is left out.     *)
EqualWeightRisk(cov, deviation) ==
    LET n == Len(deviation)
        pairs == {ij \in (1 .. n) \X (1 .. n) : ij[1] < ij[2]}
        row(i) == DayTotal([j \in 1 .. n |-> cov[<<i, j>>]])
        variance == Frac(DayTotal([i \in 1 .. n |-> row(i)]), n * n)
        shares == IF Greater(variance, Zero)
                  THEN [i \in 1 .. n |-> Over(Frac(row(i), n * n), variance)] ELSE <<>>
    IN  [variance |-> variance, shares |-> shares,
         average |-> IF pairs = {} THEN <<>>
                     ELSE <<Frac(DayTotal(Restrict(cov, pairs)), Cardinality(pairs))>>,
         weighted_deviation |-> Frac(DayTotal(deviation), n),
         bets |-> IF shares = <<>> THEN <<>>
                  ELSE <<Over(One, Sum([i \in 1 .. n |-> Times(shares[i], shares[i])]))>>]

-----------------------------------------------------------------------------
(* What must hold.                                                         *)

(* Which of two listings is left changes nothing; tails meet at least as   *)
(* often among themselves as among all days; severity is of losses where   *)
(* there are only losses; and windows take in every day, though a window   *)
(* at the end may be missing from the count the page shows.                *)
PairMeasuresHold(left, right) ==
    LET p == PairStatistics(left, right)
        n == Len(left)
        starts == WindowStarts(n, MinimumRolling)
    IN  /\ PairStatistics(right, left) = p
        /\ AtMost(p.coexceedance, p.tail) /\ AtMost(p.tail, One) /\ AtMost(Zero, p.coexceedance)
        /\ p.tail = Zero <=> p.tail_count = 0
        /\ AtMost(Abs(p.pearson), One) /\ AtMost(Abs(p.downside), One)
        /\ (\A t \in DOMAIN left : left[t] = right[t]) => p.tail = (IF n = 0 THEN Zero ELSE One)
        /\ p.downside_count < 2 => p.downside = Zero
        /\ JointTail(left, right) \subseteq DownsideDays(left, right) /\ p.tail_count > 0 =>
              Greater(p.severity, Zero)
        /\ (\A t \in DOMAIN left : left[t] >= 0) => p.overlap_count = 0
        /\ starts # <<>> =>
              /\ UNION {starts[k] + 1 .. starts[k] + Min({RollingDays, n}) : k \in DOMAIN starts}
                    = 1 .. n
              /\ Len(starts) - ReportedWindows(n) \in {0, 1}
              /\ Len(starts) = ReportedWindows(n) <=>
                    n <= RollingDays \/ (n - RollingDays) % (RollingDays \div 3) = 0

AllDiagnostics(rows) ==
    <<PearsonDiagnostics(rows), SpearmanDiagnostics(rows), DownsideDiagnostics(rows),
      TailDiagnostics(rows), CoexceedanceDiagnostics(rows), RollingDiagnostics(rows),
      OverlapDiagnostics(rows)>>

(* The facts but the choice among pairs and listings that are equal.       *)
ChoiceFields == {"worst", "best", "most", "least", "worst_tail"}
Settled(d) == Restrict(d, DOMAIN d \ ChoiceFields)

(* Percentiles rise within the values, the bins hold every value once and  *)
(* where they say, and the best and worst pairs and listings bound all.    *)
SummaryBounds(rows, metric) ==
    LET values == ValuesOf(rows, metric)
        histogram == Histogram(values)
        average(l) == ListingAverage(rows, metric, l[1])
        mean == MeanValue(values)[1]
        worst == Whole(WorstPair(rows, metric)[1].of[metric][1])
    IN  /\ AtMost(Whole(BestPair(rows, metric, metric)[1].of[metric][1]), AtPercent(values, 10)[1])
        /\ AtMost(AtPercent(values, 10)[1], AtPercent(values, 50)[1])
        /\ AtMost(AtPercent(values, 50)[1], AtPercent(values, 90)[1])
        /\ AtMost(AtPercent(values, 90)[1], worst)
        /\ AtMost(average(LeastExposed(rows, metric)), mean)
        /\ AtMost(mean, average(MostExposed(rows, metric)))
        /\ AtMost(average(MostExposed(rows, metric)), worst)
        /\ DayTotal([k \in DOMAIN histogram |-> histogram[k].count]) = Len(values)
        /\ \A k \in DOMAIN histogram :
              Cardinality({i \in DOMAIN values :
                  /\ AtMost(histogram[k].lower, Whole(values[i]))
                  /\ AtMost(Whole(values[i]), histogram[k].upper)}) >= histogram[k].count

(* The clusters part the listings and no edge leaves one; no cluster falls *)
(* into parts without an edge between them. What the page says of the pairs*)
(* is bounded by them, its counts fit together, and nothing but the choice *)
(* among equals depends on the order of the rows.                          *)
DiagnosticsHold(rows, metric, threshold) ==
    LET clusters == Clusters(rows, metric, threshold)
        edges == EdgesOf(rows, metric, threshold)
        all == AllDiagnostics(rows)
        reversed == AllDiagnostics(Reverse(rows))
        overlap == OverlapDiagnostics(rows)
    IN  /\ UNION clusters = Range(LabelsOf(rows, metric))
        /\ \A c, e \in clusters : c = e \/ c \cap e = {}
        /\ \A e \in edges : \E c \in clusters : e \subseteq c
        /\ \A c \in clusters : \A part \in SUBSET c \ {{}, c} :
              \E e \in edges : e \cap part # {} /\ e \cap (c \ part) # {}
        /\ ValuesOf(rows, metric) # <<>> => SummaryBounds(rows, metric)
        /\ \A k \in DOMAIN all : Settled(all[k]) = Settled(reversed[k])
        /\ \A k \in 1 .. 3 : /\ all[k].high_90 <= all[k].high_70
                             /\ all[k].negative <= all[k].low_30
                             /\ all[k].low_30 + all[k].high_70 <= Len(rows)
        /\ Max({overlap.hidden_pearson, overlap.hidden_downside, overlap.high_50})
              <= overlap.high_25
        /\ overlap.high_25 <= overlap.high
        /\ overlap.high > 0 => overlap.largest > 1

(* Risk shares add up to one and are worth at most one bet per listing;    *)
(* mixing never raises the deviation above the weighted one.               *)
RiskIsShared(cov, deviation) ==
    LET risk == EqualWeightRisk(cov, deviation)
    IN  /\ AtMost(risk.variance, Times(risk.weighted_deviation, risk.weighted_deviation))
        /\ risk.shares # <<>> =>
              /\ Sum(risk.shares) = One
              /\ AtMost(risk.bets[1], Whole(Len(deviation)))
=============================================================================
