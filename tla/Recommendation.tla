---------------------------- MODULE Recommendation ----------------------------
(***************************************************************************)
(* From the quotes of selected listings to a portfolio handed over for     *)
(* trading: return_quality.py, profiles.py, recommendation.py, trading.py  *)
(* and the production part of multivariate_statistics.py.                  *)
(*                                                                         *)
(* A case c has isin (of each listing selected, in their order), quotes    *)
(* (per listing, by date), cov and complete (the covariances), eligible    *)
(* (the verdict on the risk model), answer (per objective <<>> for a       *)
(* refusal, or <<a share of Unit per listing>>), max (the largest share of *)
(* Unit), profiles (names, in the order asked for), id (the order of the   *)
(* candidate identifiers), window (days a stress needs), cvar (per profile *)
(* the worst in percent), and of the handoff slot, current and prices      *)
(* (<<>> or <<a function on ISINs>>), value, buffer (percent) and drift.   *)
(* Weights are fractions by ISIN; covariances are integers.                *)
(***************************************************************************)
EXTENDS StressScenarios

CONSTANTS
    MinObservations,  \* returns a listing needs (MIN_HISTORY_SHORT)
    StaleRepeats,     \* equal prices in a row that are stale
    GapDays           \* days between quotes that need no explanation

ASSUME RecommendationAssumption ==
    /\ MinObservations \in Nat \ {0}
    /\ StaleRepeats \in Nat \ {0, 1}
    /\ GapDays \in Nat \ {0}

-----------------------------------------------------------------------------
(* return_quality.py. A date is seen when its row comes, valid or not.     *)

DuplicateDates(quotes) ==
    {i \in DOMAIN quotes : \E j \in 1 .. i - 1 : quotes[j].date = quotes[i].date}

NonPositive(quotes) ==
    {i \in DOMAIN quotes \ DuplicateDates(quotes) : quotes[i].price <= 0}

ValidQuotes(quotes) ==
    LET kept == Ascending(DOMAIN quotes \ (DuplicateDates(quotes) \cup NonPositive(quotes)))
    IN  [k \in DOMAIN kept |-> quotes[kept[k]]]

StalePriceRun(valid) ==
    \E first \in 1 .. Len(valid) - StaleRepeats + 1 :
        \A i \in first .. first + StaleRepeats - 1 : valid[i].price = valid[first].price

UnexplainedGap(valid) ==
    \E i \in 1 .. Len(valid) - 1 : valid[i + 1].date - valid[i].date > GapDays

QuoteIssues(quotes) ==
    LET valid == ValidQuotes(quotes)
    IN  SelectSeq(<<<<"non_positive_price", NonPositive(quotes) # {}>>,
                    <<"duplicate_date", DuplicateDates(quotes) # {}>>,
                    <<"stale_price", StalePriceRun(valid)>>,
                    <<"unexplained_gap", UnexplainedGap(valid)>>,
                    <<"insufficient_history", Len(valid) - 1 < MinObservations>>>>,
                  LAMBDA issue : issue[2])

QuoteQuality(quotes) ==
    LET issues == QuoteIssues(quotes)
    IN  [eligible |-> issues = <<>>, reason |-> IF issues = <<>> THEN "ok" ELSE issues[1][1]]

(* build_returns, in percent: prices are such that it is a whole number.   *)
ReturnsOf(quotes) ==
    LET valid == ValidQuotes(quotes)
    IN  [d \in {valid[i].date : i \in 2 .. Len(valid)} |->
            LET i == CHOOSE i \in 2 .. Len(valid) : valid[i].date = d
            IN  ((valid[i].price - valid[i - 1].price) * 100) \div valid[i - 1].price]

-----------------------------------------------------------------------------
(* profiles.py. The limit on turnover and on drawdown is never looked at.  *)

Profiles ==
    [defensive |-> [objective |-> "shrinkage_minimum_variance", cvar |-> 10, income |-> FALSE],
     balanced |-> [objective |-> "balanced_ensemble", cvar |-> 15, income |-> FALSE],
     income |-> [objective |-> "minimum_cvar", cvar |-> 12, income |-> TRUE],
     growth |-> [objective |-> "equal_risk_contribution", cvar |-> 20, income |-> FALSE]]

EnsembleObjectives ==
    <<"hierarchical_risk_parity", "equal_risk_contribution", "shrinkage_minimum_variance">>

MaxWeight(c) == Frac(c.max, Unit)

(* A dictionary by ISIN: of several listings the last one counts.          *)
LastByIsin(c, vector) ==
    FoldLeftDomain(LAMBDA w, i : (c.isin[i] :> vector[i]) @@ w, <<>>, c.isin)

WeightViolations(c, w) ==
    {"weights_do_not_sum_to_one" : x \in {Sum(w)} \ {One}}
    \cup {"negative_weight" : s \in {s \in DOMAIN w : Less(w[s], Zero)}}
    \cup {"above_max_weight" : s \in {s \in DOMAIN w : Less(MaxWeight(c), w[s])}}

(* What the objectives return is validated, or they raise an error.        *)
Solved(c, objective) ==
    LET needsCovariance == objective \in {"hierarchical_risk_parity", "equal_risk_contribution"}
        answer == c.answer[objective]
        weights == LastByIsin(c, [i \in DOMAIN c.isin |-> Frac(answer[1][i], Unit)])
    IN  IF answer = <<>> \/ (needsCovariance /\ ~c.complete) \/ WeightViolations(c, weights) # {}
        THEN <<>> ELSE <<weights>>

Clipped(values, shift, max) ==
    [i \in DOMAIN values |-> Larger(Zero, Smaller(max, Minus(values[i], shift)))]

(* The shifts at which the values that are neither 0 nor max fill the rest.*)
Shifts(values, max) ==
    {Minus(values[i], max) : i \in DOMAIN values}
    \cup UNION {{Over(Plus(SumOn(values, free),
                           Minus(Times(Whole(full), max), One)),
                      Whole(Cardinality(free))) : full \in 0 .. Len(values) - Cardinality(free)} :
                   free \in SUBSET DOMAIN values \ {{}}}

ProjectedOnBounds(values, max) ==
    IF Less(Times(Whole(Len(values)), max), One) THEN <<>>
    ELSE <<Clipped(values, CHOOSE shift \in Shifts(values, max) :
                              Sum(Clipped(values, shift, max)) = One, max)>>

(* build_balanced_ensemble_weights: read back by ISIN for every listing.   *)
EnsembleParts(c) == [k \in 1 .. 3 |-> Solved(c, EnsembleObjectives[k])]

EnsembleMedian(c, i) == Median([k \in 1 .. 3 |-> EnsembleParts(c)[k][1][c.isin[i]]])[1]

Ensemble(c) ==
    LET medians == FoldLeftDomain(LAMBDA m, i : Append(m, EnsembleMedian(c, i)), <<>>, c.isin)
        projected == ProjectedOnBounds([i \in DOMAIN c.isin |-> Over(medians[i], Sum(medians))],
                                       MaxWeight(c))
    IN  IF <<>> \in Range(EnsembleParts(c)) \/ Sum(medians) = Zero \/ projected = <<>>
        THEN <<>> ELSE <<LastByIsin(c, projected[1])>>

VarianceOf(c, vector) ==
    Sum([ij \in (DOMAIN vector) \X (DOMAIN vector) |->
            Times(Whole(c.cov[ij]), Times(vector[ij[1]], vector[ij[2]]))])

(* Equal weights keep the bounds; those by volatility are projected then.  *)
HasBaselines(c) ==
    c.complete /\ WeightViolations(c, LastByIsin(c, [i \in DOMAIN c.isin |-> Frac(1, Len(c.isin))])) = {}

(* evaluate_profile_candidate.                                             *)
ProfileCandidate(c, name) ==
    LET weights == IF name = "balanced" THEN Ensemble(c) ELSE Solved(c, Profiles[name].objective)
        violations == IF weights = <<>> THEN {} ELSE WeightViolations(c, weights[1])
        feasible == weights # <<>> /\ violations = {}
    IN  [profile |-> name, id |-> c.id[name], feasible |-> feasible,
         reasons |-> {r \in {"refused"} : weights = <<>>}
                        \cup {r \in {"baseline_unavailable"} : ~HasBaselines(c)},
         weights |-> weights, violations |-> violations,
         variance |-> IF feasible /\ c.complete
                      THEN <<VarianceOf(c, [i \in DOMAIN c.isin |-> weights[1][c.isin[i]]])>>
                      ELSE <<>>]

-----------------------------------------------------------------------------
(* write_production_multivariate_statistics: what it refuses, in order. A  *)
(* listing without quotes fails no quality check.                          *)

Quoted(c) == {i \in DOMAIN c.quotes : c.quotes[i] # <<>>}

QualityFails(c) == \E i \in Quoted(c) : ~QuoteQuality(c.quotes[i]).eligible

MatrixListings(c) == {i \in DOMAIN c.quotes : DOMAIN ReturnsOf(c.quotes[i]) # {}}

SharedDates(c) ==
    IF MatrixListings(c) = {} THEN {}
    ELSE {d \in UNION {DOMAIN ReturnsOf(c.quotes[i]) : i \in MatrixListings(c)} :
             \A i \in MatrixListings(c) : d \in DOMAIN ReturnsOf(c.quotes[i])}

(* Fault: listings missing from the matrix are not looked for.             *)
Fault_MatrixOmits(c) == FALSE

MatrixOmits(c) == MatrixListings(c) # DOMAIN c.isin

FirstRefused(c) ==
    SelectSeq(c.profiles, LAMBDA name : ~HasBaselines(c) \/ ~ProfileCandidate(c, name).feasible)

Production(c) ==
    LET refused(why, written) == [ok |-> FALSE, why |-> why, written |-> written]
    IN  IF ~(Range(c.profiles) \subseteq DOMAIN Profiles) THEN refused("unknown_profile", FALSE)
        ELSE IF QualityFails(c) THEN refused("quality", FALSE)
        ELSE IF SharedDates(c) = {} THEN refused("no_matrix", FALSE)
        ELSE IF MatrixOmits(c) THEN refused("matrix_omits_listings", TRUE)
        ELSE IF ~c.complete THEN refused("incomplete_covariance", TRUE)
        ELSE IF ~c.eligible THEN refused("risk_model", TRUE)
        ELSE IF FirstRefused(c) # <<>> THEN refused("profile", TRUE)
        ELSE [ok |-> TRUE, why |-> "", written |-> TRUE]

-----------------------------------------------------------------------------
(* recommendation.py.                                                      *)

WeightAt(w, s) == IF s \in DOMAIN w THEN w[s] ELSE Zero

TurnoverFrom(current, weights) ==
    Over(Sum([s \in DOMAIN current \cup DOMAIN weights |->
                 Abs(Minus(WeightAt(current, s), WeightAt(weights, s)))]), Whole(2))

Concentration(weights) ==
    CHOOSE x \in Range(weights) : \A y \in Range(weights) : AtMost(y, x)

(* Reasons are dropped when the candidate is feasible; no scorecard is     *)
(* ever passed.                                                            *)
CandidateReport(c, candidate) ==
    LET weights == candidate.weights
        income == Profiles[candidate.profile].income
    IN  [id |-> candidate.id, profile |-> candidate.profile, included |-> candidate.feasible,
         reasons |-> IF candidate.feasible THEN {} ELSE candidate.reasons,
         weights |-> weights, violations |-> candidate.violations,
         variance |-> candidate.variance,
         disadvantages |->
            {"cost_quality_unavailable"}
            \cup {d \in {"candidate_infeasible"} : ~candidate.feasible}
            \cup {d \in {"constraint_violations_present"} : candidate.violations # {}}
            \cup {d \in {"income_quality_unavailable"} : income},
         turnover |-> IF c.current = <<>> \/ weights = <<>> THEN <<>>
                      ELSE <<TurnoverFrom(c.current[1], weights[1])>>,
         concentration |-> IF weights = <<>> THEN <<>> ELSE <<Concentration(weights[1])>>,
         rank |-> <<>>,
         worst_cvar |-> IF weights = <<>> THEN <<>> ELSE <<c.cvar[candidate.profile]>>]

Reports(c) ==
    [k \in DOMAIN c.profiles |-> CandidateReport(c, ProfileCandidate(c, c.profiles[k]))]

(* The identifier of the one chosen, or <<>>.                              *)
BestOfProfile(reports, name) ==
    LET ids == {r.id : r \in {r \in Range(reports) : r.profile = name /\ r.included}}
    IN  IF ids = {} THEN <<>> ELSE <<Min(ids)>>

BestDiversified(reports) ==
    LET matches == {r \in Range(reports) : r.included /\ r.variance # <<>>}
        least == {r \in matches : \A q \in matches : AtMost(r.variance[1], q.variance[1])}
    IN  IF matches = {} THEN <<>> ELSE <<Min({r.id : r \in least})>>

BestTotalReturn(reports) ==
    LET matches == {r \in Range(reports) : r.included /\ r.rank # <<>>}
        first == {r \in matches : \A q \in matches : r.rank[1] <= q.rank[1]}
    IN  IF matches = {} THEN <<>> ELSE <<Min({r.id : r \in first})>>

Comparisons(reports) ==
    [best_defensive |-> BestOfProfile(reports, "defensive"),
     best_ensemble |-> BestOfProfile(reports, "balanced"),
     best_income |-> BestOfProfile(reports, "income"),
     best_diversified |-> BestDiversified(reports),
     best_total_return |-> BestTotalReturn(reports)]

ExcludedCandidates(reports) ==
    {[id |-> r.id, reasons |-> r.reasons] : r \in {r \in Range(reports) : ~r.included}}

(* write_multivariate_recommendation: the stress of a matrix that is too   *)
(* short ends it.                                                          *)
Recommended(c) ==
    LET reports == Reports(c)
        short == Cardinality(SharedDates(c)) < c.window
    IN  IF ~Production(c).ok \/ c.profiles = <<>> THEN [ok |-> FALSE]
        ELSE IF short /\ \E k \in DOMAIN reports : reports[k].weights # <<>> THEN [ok |-> FALSE]
        ELSE [ok |-> TRUE, reports |-> reports, comparisons |-> Comparisons(reports)]

-----------------------------------------------------------------------------
(* trading.py: what is held is not taken off, what has no price is left    *)
(* out.                                                                    *)

Investable(c) == Frac(c.value * (100 - c.buffer), 100)

Quantity(c, weight, price) ==
    LET shares == Over(Times(Investable(c), weight), Whole(price)) IN shares[1] \div shares[2]

FlatexOrders(c, weights) ==
    [s \in DOMAIN weights \cap DOMAIN c.prices[1] |->
        LET q == Quantity(c, weights[s], c.prices[1][s])
        IN  [side |-> IF q > 0 THEN "BUY" ELSE "SKIP", quantity |-> q,
             value |-> q * c.prices[1][s]]]

Transition(c, weights) ==
    [s \in DOMAIN c.current[1] \cup DOMAIN weights |->
        Minus(WeightAt(weights, s), WeightAt(c.current[1], s))]

(* write_multivariate_trading_handoff.                                     *)
Handoff(c) ==
    LET recommended == Recommended(c)
        slots == DOMAIN recommended.comparisons
        approved == IF c.slot \in slots THEN recommended.comparisons[c.slot] ELSE <<>>
        chosen == recommended.reports[CHOOSE k \in DOMAIN recommended.reports :
                                          recommended.reports[k].id = approved[1]]
        weights == chosen.weights[1]
        ordered == c.prices # <<>> /\ c.value > 0
        badPrice == ordered /\ \E s \in DOMAIN weights \cap DOMAIN c.prices[1] : c.prices[1][s] <= 0
        deltas == IF c.current = <<>> THEN <<>> ELSE <<Transition(c, weights)>>
    IN  IF ~recommended.ok THEN [ok |-> FALSE, why |-> "not_recommended"]
        ELSE IF approved = <<>> THEN [ok |-> FALSE, why |-> "recommendation_not_approved"]
        ELSE IF badPrice THEN [ok |-> FALSE, why |-> "price_not_positive"]
        ELSE [ok |-> TRUE, chosen |-> chosen, weights |-> weights, deltas |-> deltas,
              orders |-> IF ordered THEN <<FlatexOrders(c, weights)>> ELSE <<>>,
              drift_detected |->
                 deltas # <<>> /\ \E s \in DOMAIN deltas[1] : Less(c.drift, Abs(deltas[1][s])),
              risk_limit_breach |->
                 /\ chosen.worst_cvar # <<>>
                 /\ chosen.worst_cvar[1] > Profiles[chosen.profile].cvar,
              stale_data_detected |->
                 \E i \in Quoted(c) : StalePriceRun(ValidQuotes(c.quotes[i]))]

-----------------------------------------------------------------------------
(* What must hold.                                                         *)

(* Quotes that pass lead from the first price to the last without leaving  *)
(* a row out, with a return for every day but the first, none over a gap,  *)
(* and prices that move.                                                   *)
QualityMeansReturns(quotes) ==
    LET returns == ReturnsOf(quotes)
        days == Ascending(DOMAIN returns)
        growth[k \in 0 .. Len(days)] ==
            IF k = 0 THEN One ELSE Times(growth[k - 1], Frac(100 + returns[days[k]], 100))
        still(k) == \A j \in k .. k + StaleRepeats - 2 : returns[days[j]] = 0
    IN  /\ QuoteQuality(quotes).eligible =>
              /\ Len(days) = Len(quotes) - 1 /\ Len(days) >= MinObservations
              /\ growth[Len(days)] = Frac(quotes[Len(quotes)].price, quotes[1].price)
              /\ \A k \in 1 .. Len(days) - 1 : days[k + 1] - days[k] <= GapDays
              /\ \A k \in 1 .. Len(days) - StaleRepeats + 2 : ~still(k)
        /\ \A d \in DOMAIN returns : returns[d] > -100

(* Candidates excluded have a reason and those included can be held: all   *)
(* of the money, within the bounds. Where the parts of the ensemble agree  *)
(* it is what they agree on, and it keeps the order of their medians. What *)
(* is best does not depend on the order the profiles are asked for, and of *)
(* total return there is never a best.                                     *)
ReportIsComplete(c) ==
    LET reports == Reports(c)
        best == Comparisons(reports)
    IN  /\ \A k \in DOMAIN reports :
              LET r == reports[k]
              IN  /\ ~r.included => r.reasons # {} \/ r.violations # {}
                  /\ r.included =>
                        /\ Sum(r.weights[1]) = One /\ DOMAIN r.weights[1] = Range(c.isin)
                        /\ AtMost(r.concentration[1], MaxWeight(c))
                  /\ r.turnover # <<>> /\ r.included /\ Sum(c.current[1]) = One =>
                        AtMost(r.turnover[1], One)
        /\ Comparisons(Reverse(reports)) = best
        /\ ExcludedCandidates(Reverse(reports)) = ExcludedCandidates(reports)
        /\ best.best_total_return = <<>>
        /\ LET parts == {Solved(c, o) : o \in Range(EnsembleObjectives)}
           IN  Cardinality(parts) = 1 /\ parts # {<<>>} /\ IsInjective(c.isin) =>
                   Ensemble(c) \in parts
        /\ Ensemble(c) # <<>> /\ IsInjective(c.isin) =>
              \A i, j \in DOMAIN c.isin :
                  LET own(k) == Ensemble(c)[1][c.isin[k]]
                  IN  Less(own(i), MaxWeight(c)) =>
                          /\ AtMost(own(j), own(i)) \/ AtMost(EnsembleMedian(c, i), EnsembleMedian(c, j))
                          /\ EnsembleMedian(c, i) = EnsembleMedian(c, j) => own(i) = own(j)

(* Only what passed every check is handed over: every listing selected is  *)
(* quoted and passed, every profile asked for is feasible, and the target  *)
(* is all of the money in the listings selected, each traded once. Orders  *)
(* cost no more than there is to invest and no share more could be bought. *)
(* Where nothing is said to drift or breach, nothing does; only when there *)
(* is no current portfolio can the first not be known.                     *)
HandoffIsEarned(c) ==
    LET h == Handoff(c)
        orders == h.orders[1]
        recommended == Recommended(c)
        reports == recommended.reports
    IN  h.ok =>
        /\ \A i \in DOMAIN c.isin : c.quotes[i] # <<>> /\ QuoteQuality(c.quotes[i]).eligible
        /\ \A k \in DOMAIN c.profiles : reports[k].included
        /\ IsInjective(c.isin)
        /\ Sum(h.weights) = One /\ DOMAIN h.weights = Range(c.isin)
        /\ \A s \in DOMAIN h.weights : AtMost(Zero, h.weights[s]) /\ AtMost(h.weights[s], MaxWeight(c))
        /\ recommended.comparisons[c.slot] = <<h.chosen.id>>
        /\ c.slot = "best_diversified" =>
              \A k \in DOMAIN c.profiles : AtMost(h.chosen.variance[1], reports[k].variance[1])
        /\ h.orders # <<>> =>
              /\ 100 * SumFunction([s \in DOMAIN orders |-> orders[s].value])
                    <= c.value * (100 - c.buffer)
              /\ \A s \in DOMAIN orders :
                    Less(Times(Investable(c), h.weights[s]),
                         Whole(orders[s].value + c.prices[1][s]))
        /\ h.deltas # <<>> =>
              /\ Sum(h.deltas[1]) = Minus(One, Sum(c.current[1]))
              /\ ~h.drift_detected =>
                    AtMost(TurnoverFrom(c.current[1], h.weights),
                           Times(c.drift, Whole(Cardinality(DOMAIN h.deltas[1]))))
        /\ ~h.risk_limit_breach => c.cvar[h.chosen.profile] <= Profiles[h.chosen.profile].cvar
        /\ ~h.stale_data_detected

(* What stands in the return matrix, even of a selection refused later, is *)
(* of listings that passed; an ISIN selected on two exchanges is refused.  *)
RefusalsHold(c) ==
    LET p == Production(c)
    IN  /\ p.written => \A i \in MatrixListings(c) :
              Cardinality(DOMAIN ReturnsOf(c.quotes[i])) >= MinObservations
        /\ ~p.ok => ~Handoff(c).ok
        /\ ~IsInjective(c.isin) /\ c.profiles # <<>> => ~p.ok
=============================================================================
