------------------------------- MODULE Income -------------------------------
(***************************************************************************)
(* income.py: the distributions a listing has paid, from the rows the      *)
(* provider sent (with corrections of earlier rows) to the evidence shown. *)
(*                                                                         *)
(* A day is a number, its month the quotient by MonthDays. Identifiers and *)
(* revisions are naturals in the order of their texts, 0 for the empty one.*)
(* A row has event, id and original (the three keys an identifier comes    *)
(* from), revision, paid and dated, each <<>> or <<value>>; whether it is  *)
(* deleted, whether it can be read, amount, split (a fraction) and         *)
(* currency (0: none). The coefficient of variation is represented by its  *)
(* square.                                                                 *)
(***************************************************************************)
EXTENDS WalkForward

CONSTANTS MonthDays, MinimumMonths, TrailingDays

ASSUME IncomeAssumption ==
    /\ MonthDays \in Nat \ {0}
    /\ MinimumMonths \in Nat \ {0}
    /\ TrailingDays \in Nat

-----------------------------------------------------------------------------
(* normalize_distribution_events.                                          *)

First(options, default) ==
    LET given == SelectSeq(options, LAMBDA o : o # <<>>)
    IN  IF given = <<>> THEN default ELSE given[1][1]

SourceId(row) == First(<<row.event, row.id>>, 0)

(* Without any identifier a row is known by its content.                   *)
LogicalId(row) ==
    LET id == First(<<row.original>>, SourceId(row))
    IN  IF id = 0 THEN <<"content", row>> ELSE <<"id", id>>

RevisionKey(row, source) == First(<<row.revision>>, source)

(* Fault: the row that arrives last is kept.                               *)
Fault_Supersedes(row, kept) == TRUE

(* The row kept falls back to its event key only, the new one to any key.  *)
Supersedes(row, kept) ==
    RevisionKey(row, SourceId(row)) >= RevisionKey(kept, First(<<kept.event>>, 0))

LatestRow(rows, id) ==
    FoldLeft(LAMBDA kept, row : IF kept = <<>> \/ Supersedes(row, kept[1]) THEN <<row>> ELSE kept,
             <<>>, SelectSeq(rows, LAMBDA row : LogicalId(row) = id))[1]

SplitFactor(row) == IF row.split = Zero THEN One ELSE row.split

IsEvent(row) ==
    /\ ~row.deleted
    /\ row.paid # <<>> \/ row.dated # <<>>
    /\ row.readable
    /\ row.amount >= 0 /\ Greater(SplitFactor(row), Zero)

Event(row) ==
    [day |-> First(<<row.paid, row.dated>>, 0),
     amount |-> Times(Whole(row.amount), SplitFactor(row)), currency |-> row.currency,
     source |-> SourceId(row), logical |-> LogicalId(row), split |-> SplitFactor(row),
     fallback |-> row.paid = <<>>]

NormalizeEvents(rows) ==
    {Event(row) : row \in {LatestRow(rows, id) : id \in {LogicalId(row) : row \in Range(rows)}}
                              \cap {row \in Range(rows) : IsEvent(row)}}

-----------------------------------------------------------------------------
(* build_income_evidence.                                                  *)

MonthOf(day) == day \div MonthDays

AmountOf(events) == Sum([e \in events |-> e.amount])

MonthlyBuckets(events) ==
    [month \in {MonthOf(e.day) : e \in events} |->
        LET own == {e \in events : MonthOf(e.day) = month}
        IN  [amount |-> AmountOf(own), count |-> Cardinality(own)]]

(* The amounts of the buckets in the order of their months.                *)
Observed(buckets) ==
    LET months == Ascending(DOMAIN buckets) IN [i \in DOMAIN months |-> buckets[months[i]].amount]

Coverage(buckets, start, end) ==
    LET months == MonthOf(end) - MonthOf(start) + 1
    IN  IF months > 0 THEN <<Frac(Cardinality(DOMAIN buckets), months)>> ELSE <<>>

(* Pairs of months that follow each other.                                 *)
Comparable(buckets) == {m \in DOMAIN buckets : m + 1 \in DOMAIN buckets}

Cuts(buckets) ==
    {m \in Comparable(buckets) : Less(buckets[m + 1].amount, buckets[m].amount)}

CutSize(buckets, m) == Minus(buckets[m].amount, buckets[m + 1].amount)

LargestCut(buckets) ==
    LET cuts == Cuts(buckets)
    IN  IF cuts = {} THEN <<>>
        ELSE <<CHOOSE c \in {CutSize(buckets, m) : m \in cuts} :
                  \A m \in cuts : AtMost(CutSize(buckets, m), c)>>

MeanAmount(values) == Over(Sum(values), Whole(Len(values)))

Variation(values) ==
    LET mean == MeanAmount(values)
        variance == Over(Sum([i \in DOMAIN values |->
                                 LET x == Minus(values[i], mean) IN Times(x, x)]),
                         Whole(Len(values)))
    IN  IF values # <<>> /\ Greater(mean, Zero) THEN <<Over(variance, Times(mean, mean))>> ELSE <<>>

LowerPercentile(values) ==
    LET sorted == SortSeq(values, Less)
    IN  IF values = <<>> THEN <<>> ELSE <<sorted[1 + (Len(sorted) - 1) \div 10]>>

(* Twice the slope of the least squares line: indices from their mean are  *)
(* halves.                                                                 *)
Trend(values) ==
    LET n == Len(values)
        x(i) == 2 * i - n - 1
        squares == FoldFunction(+, 0, [i \in 1 .. n |-> x(i) * x(i)])
    IN  IF n < 2 THEN <<>>
        ELSE <<Over(Sum([i \in 1 .. n |-> Times(Whole(2 * x(i)),
                                                Minus(values[i], MeanAmount(values)))]),
                    Whole(squares))>>

(* _longest_falling_sequence: over the months paid in, gaps or not.        *)
FallingSteps(values, i, k) ==
    \A j \in i .. i + k - 1 : Less(values[j + 1], values[j])

LongestFall(values) ==
    Max({0} \cup {k \in 1 .. Len(values) - 1 :
                     \E i \in 1 .. Len(values) - k : FallingSteps(values, i, k)})

IncomeReasons(events, buckets, price) ==
    {r \in {"currency_mismatch"} :
         Cardinality({e.currency : e \in events} \ {0}) > 1}
    \cup {r \in {"no_distribution_events"} : events = {}}
    \cup {r \in {"insufficient_observed_months"} : Cardinality(DOMAIN buckets) < MinimumMonths}
    \cup {r \in {"dated_price_denominator_unavailable"} : price <= 0}

Warnings(events) ==
    {w \in {"payment_date_fallback_used"} : \E e \in events : e.fallback}
    \cup {w \in {"split_adjusted_events_used"} : \E e \in events : e.split # One}

Trailing(events, end) == {e \in events : end - e.day \in 0 .. TrailingDays}

(* Prices are naturals; the last is 0 where there is none, as is the first.*)
IncomeEvidence(events, start, end, price, startPrice) ==
    LET buckets == MonthlyBuckets(events)
        observed == Observed(buckets)
        reasons == IncomeReasons(events, buckets, price)
        paid == AmountOf(Trailing(events, end))
        priceReturn == IF price > 0 /\ startPrice > 0
                       THEN <<Minus(Frac(price, startPrice), One)>> ELSE <<>>
        total == IF priceReturn = <<>> THEN <<>>
                 ELSE <<Plus(priceReturn[1], Over(paid, Whole(startPrice)))>>
        shown(value) == IF reasons = {} THEN value ELSE <<>>
    IN  [reasons |-> reasons, warnings |-> Warnings(events), buckets |-> buckets,
         months |-> Len(observed), coverage |-> Coverage(buckets, start, end),
         ttm_amount |-> shown(<<paid>>),
         ttm_yield |-> shown(IF price > 0 THEN <<Over(paid, Whole(price))>> ELSE <<>>),
         mean |-> shown(<<MeanAmount(observed)>>), median |-> shown(Median(observed)),
         lower |-> shown(LowerPercentile(observed)), variation |-> shown(Variation(observed)),
         cuts |-> shown(<<Cardinality(Cuts(buckets))>>),
         largest_cut |-> shown(LargestCut(buckets)),
         longest_fall |-> shown(<<LongestFall(observed)>>), trend |-> shown(Trend(observed)),
         price_return |-> shown(priceReturn), total_return |-> shown(total),
         gap |-> shown(IF total = <<>> THEN <<>>
                       ELSE <<Minus(Over(paid, Whole(startPrice)), total[1])>>)]

(* build_income_artifacts: the rows of all listings, in their order.       *)
IncomeArtifacts(evidence, rows) ==
    [events |-> UNION {{[listing |-> l, event |-> e] : e \in NormalizeEvents(rows[l])} :
                          l \in DOMAIN evidence},
     monthly |-> {[listing |-> l, month |-> m, amount |-> evidence[l].buckets[m].amount,
                   count |-> evidence[l].buckets[m].count] :
                     <<l, m>> \in UNION {{l} \X DOMAIN evidence[l].buckets : l \in DOMAIN evidence}},
     warnings |-> {<<l, w>> \in (DOMAIN evidence) \X
                       UNION {evidence[l].reasons \cup evidence[l].warnings : l \in DOMAIN evidence} :
                           w \in evidence[l].reasons \cup evidence[l].warnings}]

-----------------------------------------------------------------------------
(* What must hold.                                                         *)

(* A correction replaces what it corrects in whatever order the two arrive,*)
(* as long as revisions differ and those without one have an event key:    *)
(* the event of an identifier is that of its highest revision, or none.    *)
CorrectionsHold(rows) ==
    LET key(row) == RevisionKey(row, SourceId(row))
        telling == \A i, j \in DOMAIN rows :
                      /\ rows[i].revision # <<>> \/ rows[i].event # <<>>
                      /\ i # j /\ LogicalId(rows[i]) = LogicalId(rows[j]) =>
                            key(rows[i]) # key(rows[j])
        newest(row) == \A other \in Range(rows) :
                          LogicalId(other) = LogicalId(row) => key(other) <= key(row)
    IN  /\ \A id \in {LogicalId(row) : row \in Range(rows)} :
              Cardinality({e \in NormalizeEvents(rows) : e.logical = id}) <= 1
        /\ telling =>
              /\ NormalizeEvents(rows) = NormalizeEvents(Reverse(rows))
              /\ NormalizeEvents(rows) =
                    {Event(row) : row \in {row \in Range(rows) : newest(row) /\ IsEvent(row)}}

(* The evidence adds up to the payments made: months, mean and median lie  *)
(* within what was observed, nothing is claimed of fewer months than       *)
(* required, months beyond the period can push the coverage over one, the  *)
(* gap is the lost price, and a fall within months that follow each other  *)
(* is counted as cuts.                                                     *)
EvidenceAddsUp(events, start, end, price, startPrice) ==
    LET e == IncomeEvidence(events, start, end, price, startPrice)
        amounts == Observed(e.buckets)
        within(x) == /\ \E i \in DOMAIN amounts : AtMost(amounts[i], x)
                     /\ \E i \in DOMAIN amounts : AtMost(x, amounts[i])
        gapless == Comparable(e.buckets) = DOMAIN e.buckets \ {Max(DOMAIN e.buckets)}
    IN  /\ Sum(amounts) = AmountOf(events)
        /\ (\A d \in {event.day : event \in events} : d \in start .. end) =>
              e.coverage = <<>> \/ AtMost(e.coverage[1], One)
        /\ e.reasons # {} => e.ttm_yield = <<>> /\ e.mean = <<>> /\ e.total_return = <<>>
        /\ e.reasons = {} =>
              /\ e.months >= MinimumMonths
              /\ AtMost(e.ttm_amount[1], AmountOf({p \in events : p.day <= end}))
              /\ within(e.mean[1]) /\ within(e.median[1]) /\ within(e.lower[1])
              /\ e.variation = <<Zero>> => e.longest_fall = <<0>> /\ e.trend \in {<<>>, <<Zero>>}
              /\ e.gap # <<>> => e.gap[1] = Neg(e.price_return[1])
              /\ e.longest_fall[1] + 1 <= e.months
              /\ gapless => /\ e.longest_fall[1] <= e.cuts[1]
                            /\ e.longest_fall[1] = e.months - 1 /\ e.months > 1 =>
                                  Less(e.trend[1], Zero)
              /\ e.largest_cut # <<>> => AtMost(e.largest_cut[1], AmountOf(events))
=============================================================================
