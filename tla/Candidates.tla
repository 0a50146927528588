----------------------------- MODULE Candidates -----------------------------
(***************************************************************************)
(* multivariate_candidates.py: a portfolio for each method from one input  *)
(* snapshot and one risk model, with the numbers shown beside it;          *)
(* multivariate_performance.py: its curves and period returns;             *)
(* multivariate_risk_stress.py: its variance under a stressed matrix;      *)
(* multivariate_candidate_cluster_risk.py: its variance by cluster.        *)
(*                                                                         *)
(* A return is a multiple of 1/Scale, a weight of 1/Unit. What a solver    *)
(* or the square roots of inverse volatility answer is an input: weights   *)
(* on the bounded simplex, or no convergence.                              *)
(***************************************************************************)
EXTENDS PortfolioWeights, RiskModel, RiskParityTree

CONSTANT Scale

Methods == {"equal_weight", "inverse_volatility", "minimum_variance",
            "equal_risk_contribution", "hierarchical_risk_parity", "minimum_cvar"}
SolverMethods == {"minimum_variance", "equal_risk_contribution", "minimum_cvar"}

FeasibilityReason(snapshot, model, policy) ==
    LET count == Len(snapshot.keys)
    IN  CASE snapshot.reasons # {} -> "input_snapshot_unavailable"
          [] ~Available(model) -> "risk_model_unavailable"
          [] count < policy.holdings -> "minimum_holding_count_not_met"
          [] count * policy.max < Unit \/ count * policy.min > Unit -> "infeasible_weight_bounds"
          [] OTHER -> "none"

(* _weights: equal weights are their own projection onto feasible bounds.  *)
Weights(listings, method, answer) ==
    IF method = "equal_weight"
    THEN [ok |-> TRUE, weights |-> [l \in listings |-> Unit \div Cardinality(listings)]]
    ELSE [ok |-> method \notin SolverMethods \/ answer.converged, weights |-> answer.weights]

(* _aligned_dates_and_matrix raises where no two days are shared.          *)
AlignmentError(returns, listings) ==
    CASE listings = {} \/ ~(listings \subseteq DOMAIN returns) ->
            "incomplete_aligned_return_history"
      [] Cardinality(CommonDates(returns, listings)) < 2 -> "insufficient_aligned_return_history"
      [] OTHER -> "none"

(* In units of 1/(Scale * Unit).                                           *)
DailyReturns(returns, weights) ==
    [d \in CommonDates(returns, DOMAIN weights) |->
        MapThenSumSet(LAMBDA l : weights[l] * returns[l][d], DOMAIN weights)]

Growth(r) == Frac(Scale * Unit + r, Scale * Unit)

Compounded(daily, days) ==
    LET product[S \in SUBSET days] ==
            IF S = {} THEN One
            ELSE Times(Growth(daily[Max(S)]), product[S \ {Max(S)}])
    IN  product[days]

UpTo(daily, d) == {e \in DOMAIN daily : e <= d}
CumulativeReturn(daily, d) == Minus(Compounded(daily, UpTo(daily, d)), One)
TotalReturn(daily) == Minus(Compounded(daily, DOMAIN daily), One)

(* _return_and_drawdown: against the highest wealth so far.                *)
DeepestDrawdown(daily) ==
    LET wealth == [d \in DOMAIN daily |-> Compounded(daily, UpTo(daily, d))]
        days == Ascending(DOMAIN daily)
        walk[t \in 0 .. Len(days)] ==
            IF t = 0 THEN [peak |-> One, drawdown |-> Zero]
            ELSE LET peak == Larger(walk[t - 1].peak, wealth[days[t]])
                 IN  [peak |-> peak,
                      drawdown |-> Smaller(walk[t - 1].drawdown,
                                           Minus(Over(wealth[days[t]], peak), One))]
    IN  walk[Len(days)].drawdown

(* The first digits of a date: width 7 is its month, width 4 its year.     *)
Bucket(d, width) == IF width = 7 THEN d \div 100 ELSE d \div 10000
BucketsOf(daily, width) == {Bucket(d, width) : d \in DOMAIN daily}
PeriodReturn(daily, width, bucket) ==
    Minus(Compounded(daily, {d \in DOMAIN daily : Bucket(d, width) = bucket}), One)
AverageCalendarReturn(daily, width) ==
    LET buckets == BucketsOf(daily, width)
    IN  Mean([b \in buckets |-> PeriodReturn(daily, width, b)], Cardinality(buckets))

(* Covariances are in units of the model, weights in 1/Unit.               *)
Marginal(cov, weights, l) ==
    Sum([k \in DOMAIN weights |-> Times(cov[<<l, k>>], Whole(weights[k]))])
Contribution(cov, weights, l) == Times(Whole(weights[l]), Marginal(cov, weights, l))
Variance(cov, weights) == Sum([l \in DOMAIN weights |-> Contribution(cov, weights, l)])

Fault_WeightedOptional(weights, values) ==
    LET known == {l \in DOMAIN weights : values[l] # <<>>}
    IN  <<SumOn([l \in known |-> Times(Whole(weights[l]), values[l][1])], known)>>

(* A missing value of one listing makes the weighted value missing.        *)
WeightedOptional(weights, values) ==
    IF \E l \in DOMAIN weights : values[l] = <<>> THEN <<>>
    ELSE <<Sum([l \in DOMAIN weights |-> Times(Whole(weights[l]), values[l][1])])>>

RiskContributions(cov, weights) ==
    LET variance == Variance(cov, weights)
    IN  [l \in DOMAIN weights |->
            [absolute |-> Contribution(cov, weights, l),
             percent |-> IF Greater(variance, Zero)
                         THEN Over(Contribution(cov, weights, l), variance) ELSE Zero]]

SumOfSquares(weights) == MapThenSumSet(LAMBDA l : weights[l] * weights[l], DOMAIN weights)

Metrics(model, returns, income, weights, percent) ==
    LET daily == DailyReturns(returns, weights)
        days == Ascending(DOMAIN daily)
        tail == HistoricalVarAndCvar([t \in DOMAIN days |-> -daily[days[t]]], percent)
    IN  [variance |-> Variance(model.cov, weights),
         var |-> tail.var, cvar |-> tail.cvar,
         maximum_weight |-> Max(Range(weights)),
         herfindahl_index |-> Frac(SumOfSquares(weights), Unit * Unit),
         effective_holding_count |-> Frac(Unit * Unit, SumOfSquares(weights)),
         gross_ttm_distribution_yield |-> WeightedOptional(weights, income),
         total_return |-> TotalReturn(daily),
         average_monthly_return |-> AverageCalendarReturn(daily, 7),
         average_annual_return |-> AverageCalendarReturn(daily, 4),
         max_drawdown |-> DeepestDrawdown(daily),
         risk_contributions |-> RiskContributions(model.cov, weights)]

Unavailable(method, reason) ==
    [status |-> "unavailable", method |-> method, reason |-> reason, weights |-> <<>>]

Candidate(snapshot, model, returns, income, policy, method, answer) ==
    LET listings == Range(model.listings)
        chosen == Weights(listings, method, answer)
        refused == FeasibilityReason(snapshot, model, policy)
        unaligned == AlignmentError(returns, listings)
    IN  CASE refused # "none" -> Unavailable(method, refused)
          [] ~chosen.ok -> Unavailable(method, "solver_not_converged")
          [] unaligned # "none" -> Unavailable(method, unaligned)
          [] OTHER -> [status |-> "feasible", method |-> method, weights |-> chosen.weights,
                       metrics |-> Metrics(model, returns, income, chosen.weights, policy.percent)]

CandidateSet(snapshot, model, returns, income, policy, methods, answer) ==
    [i \in DOMAIN methods |->
        Candidate(snapshot, model, returns, income, policy, methods[i], answer)]

-----------------------------------------------------------------------------
(* multivariate_performance.py.                                            *)

(* At the last day of every month: what the months so far compound to.     *)
MonthlyCumulative(daily) ==
    LET months == BucketsOf(daily, 7)
        last(b) == Max({d \in DOMAIN daily : Bucket(d, 7) = b})
    IN  [d \in {last(b) : b \in months} |->
            Minus(FoldFunctionOnSet(Times, One,
                      [b \in months |-> Plus(One, PeriodReturn(daily, 7, b))],
                      {b \in months : b <= Bucket(d, 7)}), One)]

PeriodReturns(daily) ==
    [monthly |-> [b \in BucketsOf(daily, 7) |-> PeriodReturn(daily, 7, b)],
     annual |-> [b \in BucketsOf(daily, 4) |-> PeriodReturn(daily, 4, b)]]

PerformanceSeries(candidate, returns) ==
    LET daily == DailyReturns(returns, candidate.weights)
    IN  [values |-> MonthlyCumulative(daily), periods |-> PeriodReturns(daily)]

-----------------------------------------------------------------------------
(* multivariate_risk_stress.py. deviation[l] is the standard deviation of  *)
(* a listing, which the model gives as a number whose square is its        *)
(* variance.                                                               *)

WeightsMatch(model, candidate) == DOMAIN candidate.weights \subseteq Range(model.listings)

(* A listing of the model without a weight has the weight zero.            *)
PaddedWeights(model, candidate) ==
    [l \in Range(model.listings) |->
        IF l \in DOMAIN candidate.weights THEN candidate.weights[l] ELSE 0]

VolatilityUp(model, candidate) ==
    IF ~Available(model) \/ candidate.status # "feasible" \/ ~WeightsMatch(model, candidate)
    THEN <<>>
    ELSE <<Times(Frac(25, 16), Variance(model.cov, PaddedWeights(model, candidate)))>>

ConvergedCovariance(model, deviation) ==
    [ij \in DOMAIN model.cov |->
        IF ij[1] = ij[2] THEN model.cov[ij]
        ELSE Plus(Times(Frac(3, 4), model.cov[ij]),
                  Frac(deviation[ij[1]] * deviation[ij[2]], 4))]

CorrelationsAreBounded(model, deviation) ==
    \A ij \in DOMAIN model.cov :
        AtMost(Abs(model.cov[ij]), Whole(deviation[ij[1]] * deviation[ij[2]]))

CorrelationConvergence(model, candidate, deviation) ==
    LET stressed == ConvergedCovariance(model, deviation)
    IN  IF \/ ~Available(model) \/ candidate.status # "feasible"
           \/ \E l \in DOMAIN deviation : deviation[l] = 0
           \/ ~CorrelationsAreBounded(model, deviation)
           \/ ~IsPositiveSemidefinite(stressed, Range(model.listings))
           \/ ~WeightsMatch(model, candidate)
        THEN <<>>
        ELSE <<Variance(stressed, PaddedWeights(model, candidate))>>

(* build_candidate_cluster_risk: cluster[l] is the cluster of a listing.   *)
ClusterRisk(model, candidate, cluster) ==
    LET contribution == [l \in DOMAIN candidate.weights |->
                            Contribution(model.cov, candidate.weights, l)]
        variance == Sum(contribution)
        gross == Sum([l \in DOMAIN contribution |-> Abs(contribution[l])])
        members(c) == {l \in DOMAIN contribution : cluster[l] = c}
    IN  IF \/ candidate.status # "feasible" \/ ~Available(model)
           \/ DOMAIN candidate.weights # Range(model.listings)
           \/ DOMAIN cluster # Range(model.listings)
           \/ AtMost(variance, Zero)
        THEN <<>>
        ELSE [c \in Range(cluster) |->
                 [signed |-> Over(SumOn(contribution, members(c)), variance),
                  gross |-> Over(SumOn([l \in members(c) |-> Abs(contribution[l])], members(c)),
                                 gross)]]

-----------------------------------------------------------------------------
(* What must hold.                                                         *)

(* With an available snapshot and an available model the only candidate    *)
(* missing is one whose solver did not converge or whose bounds nothing    *)
(* meets; it has no weights, and never those of another method. What is    *)
(* shown adds up: contributions to the variance, calendar returns and the  *)
(* curve to the total return, the drawdown to the worst fall of the curve. *)
CandidateAddsUp(snapshot, model, returns, income, policy, method, answer) ==
    LET c == Candidate(snapshot, model, returns, income, policy, method, answer)
        daily == DailyReturns(returns, c.weights)
        series == PerformanceSeries(c, returns)
        total == c.metrics.total_return
        share == c.metrics.risk_contributions
        listings == Range(snapshot.keys)
        compound(periods) ==
            Minus(FoldFunction(Times, One, [b \in DOMAIN periods |-> Plus(One, periods[b])]), One)
        wealth(d) == Plus(One, CumulativeReturn(daily, d))
    IN  /\ c.status = "feasible" <=>
              /\ snapshot.reasons = {} /\ Available(model) /\ Len(snapshot.keys) >= policy.holdings
              /\ Len(snapshot.keys) * policy.max >= Unit
              /\ Len(snapshot.keys) * policy.min <= Unit
              /\ method \in SolverMethods => answer.converged
        /\ c.status # "feasible" => c.weights = <<>>
        /\ c.status = "feasible" =>
              /\ DOMAIN c.weights = listings /\ SumFunction(c.weights) = Unit
              /\ \A l \in listings : c.weights[l] \in policy.min .. policy.max
              /\ Sum([l \in listings |-> share[l].absolute]) = c.metrics.variance
              /\ AtMost(Zero, c.metrics.variance)
              /\ c.metrics.variance # Zero => Sum([l \in listings |-> share[l].percent]) = One
              /\ AtMost(c.metrics.effective_holding_count, Whole(Cardinality(listings)))
              /\ AtMost(Whole(c.metrics.var), c.metrics.cvar)
              /\ c.metrics.gross_ttm_distribution_yield = <<>> <=>
                    \E l \in listings : income[l] = <<>>
              /\ series.values[Max(DOMAIN daily)] = total
              /\ compound(series.periods.monthly) = total
              /\ compound(series.periods.annual) = total
              /\ \A d \in DOMAIN series.values : series.values[d] = CumulativeReturn(daily, d)
              /\ \A d, e \in DOMAIN daily : d <= e /\ Less(Zero, wealth(d)) =>
                    AtMost(c.metrics.max_drawdown, Minus(Over(wealth(e), wealth(d)), One))

(* Moving correlations towards one never makes a portfolio without short   *)
(* positions safer, and both stresses answer for the same candidates       *)
(* unless a listing has no variance. Shares of the clusters add up.        *)
StressIsAdverse(model, candidate, deviation, cluster) ==
    LET volatile == VolatilityUp(model, candidate)
        converged == CorrelationConvergence(model, candidate, deviation)
        shares == ClusterRisk(model, candidate, cluster)
        base == Variance(model.cov, PaddedWeights(model, candidate))
    IN  /\ volatile # <<>> => AtMost(base, volatile[1])
        /\ converged # <<>> => AtMost(base, converged[1])
        /\ volatile # <<>> /\ (\A l \in DOMAIN deviation : deviation[l] # 0) => converged # <<>>
        /\ shares # <<>> =>
              /\ Sum([c \in DOMAIN shares |-> shares[c].signed]) = One
              /\ Sum([c \in DOMAIN shares |-> shares[c].gross]) = One
              /\ \A c \in DOMAIN shares : AtMost(Zero, shares[c].gross)
=============================================================================
