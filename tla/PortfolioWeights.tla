-------------------------- MODULE PortfolioWeights --------------------------
(***************************************************************************)
(* portfolio.py: how weights of a portfolio are chosen, what is refused,   *)
(* and what the diagnostics written beside the weights say of them.        *)
(*                                                                         *)
(* A problem p is a selection whose listings are numbered in the order     *)
(* listing_keys gives them: p.isin[i] is the ISIN of listing i (an ISIN    *)
(* traded on two exchanges occurs twice), p.mean the expected return by    *)
(* ISIN, p.cov the covariances, p.absent the pairs without a covariance    *)
(* row and p.broken those whose value is not finite. Weights are whole     *)
(* multiples of 1/Unit; a weight vector has one entry per listing, a       *)
(* portfolio one per ISIN, as the dictionaries of the code do.             *)
(***************************************************************************)
EXTENDS Integers, Sequences, FiniteSets, FiniteSetsExt, Functions,
        Combinatorics, Fractions

CONSTANTS Unit, MaxExactWeightCandidates

ASSUME UnitAssumption == Unit \in Nat \ {0}

RiskParityObjectives == {"risk_parity", "equal_risk_contribution"}
GridObjectives == RiskParityObjectives \cup
    {"minimum_variance", "maximum_sharpe", "target_return_minimum_variance",
     "maximum_diversification"}
SolverBackedObjectives == RiskParityObjectives \cup {"minimum_variance"}

-----------------------------------------------------------------------------
Listings(p) == DOMAIN p.isin
Pairs(p) == Listings(p) \X Listings(p)

CovarianceCompleteness(p) ==
    [missing |-> Cardinality(Pairs(p) \cap p.absent),
     nonFinite |-> Cardinality((Pairs(p) \cap p.broken) \ p.absent)]

CovarianceIsComplete(p) ==
    CovarianceCompleteness(p) = [missing |-> 0, nonFinite |-> 0]

(* A dictionary by ISIN filled listing by listing: the last listing wins.  *)
ByIsin(p, w) ==
    [s \in Range(p.isin) |-> w[Max({i \in Listings(p) : p.isin[i] = s})]]

(* The vector the diagnostics read back: one entry per listing.            *)
ByListing(p, portfolio) == [i \in Listings(p) |-> portfolio[p.isin[i]]]

ValidWeights(portfolio, c) ==
    /\ DOMAIN portfolio # {}
    /\ SumFunction(portfolio) = Unit
    /\ \A s \in DOMAIN portfolio :
          portfolio[s] >= 0 /\ portfolio[s] >= c.min /\ portfolio[s] <= c.max

ConstraintViolations(portfolio, c) ==
    {<<"weights_do_not_sum_to_one", 0>> : x \in {SumFunction(portfolio)} \ {Unit}}
    \cup {<<"negative_weight", s>> : s \in {s \in DOMAIN portfolio : portfolio[s] < 0}}
    \cup {<<"below_min_weight", s>> : s \in {s \in DOMAIN portfolio : portfolio[s] < c.min}}
    \cup {<<"above_max_weight", s>> : s \in {s \in DOMAIN portfolio : portfolio[s] > c.max}}

(* The weight is one over the number of listings, the dictionary by ISIN.  *)
EqualWeightSeed(p) == [s \in Range(p.isin) |-> Unit \div Len(p.isin)]

-----------------------------------------------------------------------------
(* The grid: all ways to hand out a number of steps.                       *)

ExactCandidateCount(listings, steps) == choose(listings + steps - 1, steps)

CandidateLimitExceeded(listings, steps) ==
    ExactCandidateCount(listings, steps) > MaxExactWeightCandidates

ResolveActualOptimizerMethod(objective, listings, steps) ==
    IF objective \in GridObjectives /\ CandidateLimitExceeded(listings, steps)
    THEN "equal_weight_fallback" ELSE objective

WeightIntegerPartitions(listings, steps) ==
    LET parts[n \in 1 .. listings, total \in 0 .. steps] ==
            IF n = 1 THEN {<<total>>}
            ELSE UNION {{<<head>> \o tail : tail \in parts[n - 1, total - head]}
                           : head \in 0 .. total}
    IN  parts[listings, steps]

CandidateWeights(p, c, steps) ==
    LET n == Len(p.isin)
        seed == [i \in Listings(p) |-> Unit \div n]
        scaled(part) == [i \in Listings(p) |-> part[i] * (Unit \div steps)]
    IN  IF CandidateLimitExceeded(n, steps)
        THEN {w \in {seed} : ValidWeights(ByIsin(p, w), c)}
        ELSE {w \in {scaled(part) : part \in WeightIntegerPartitions(n, steps)} :
                 ValidWeights(ByIsin(p, w), c)}

-----------------------------------------------------------------------------
(* What the objectives measure, in units of 1/Unit.                        *)

PortfolioReturn(p, w) ==
    MapThenSumSet(LAMBDA i : p.mean[p.isin[i]] * w[i], Listings(p))

PortfolioVariance(p, w) ==
    MapThenSumSet(LAMBDA ij : w[ij[1]] * w[ij[2]] * p.cov[ij], Pairs(p))

MarginalRiskContribution(p, w, i) ==
    MapThenSumSet(LAMBDA j : w[j] * p.cov[<<i, j>>], Listings(p))

(* The share of listing i in the variance, less its budget of one part.    *)
RiskBudgetResidual(p, w, i) ==
    LET variance == PortfolioVariance(p, w)
        share == IF variance = 0 THEN Zero
                 ELSE Frac(w[i] * MarginalRiskContribution(p, w, i), variance)
    IN  Minus(share, Frac(1, Len(p.isin)))

RiskParityResidual(p, w) ==
    Sum([i \in Listings(p) |->
            Times(RiskBudgetResidual(p, w, i), RiskBudgetResidual(p, w, i))])

Volatility(variance) ==
    IF variance <= 0 THEN 0 ELSE CHOOSE r \in 0 .. variance : r * r = variance

(* Quotients by the square root of the variance are squared, with their    *)
(* sign, so that they compare as the code's do.                            *)
OverVolatility(amount, variance) ==
    IF variance <= 0 THEN Zero
    ELSE Frac(IF amount < 0 THEN -(amount * amount) ELSE amount * amount, variance)

DiversificationRatio(p, w) ==
    OverVolatility(MapThenSumSet(LAMBDA i : w[i] * Volatility(p.cov[<<i, i>>]), Listings(p)),
                   PortfolioVariance(p, w))

SharpeScore(p, w, riskFree) ==
    OverVolatility(PortfolioReturn(p, w) - riskFree * Unit, PortfolioVariance(p, w))

(* The keys optimize_portfolio sorts candidates by: the smallest wins, and *)
(* among equals the lexicographically smallest vector.                     *)
Keys(p, r, w) ==
    CASE r.objective = "minimum_variance" -> <<Whole(PortfolioVariance(p, w))>>
      [] r.objective = "maximum_sharpe" -> <<Neg(SharpeScore(p, w, r.riskFree))>>
      [] r.objective = "target_return_minimum_variance" ->
            <<Whole(PortfolioVariance(p, w)),
              Whole(Distance(PortfolioReturn(p, w), r.target * Unit))>>
      [] r.objective = "maximum_diversification" -> <<Neg(DiversificationRatio(p, w))>>
      [] OTHER -> <<RiskParityResidual(p, w), Whole(PortfolioVariance(p, w))>>

Fault_Precedes(p, r, w, u) ==
    LET a == [i \in Listings(p) |-> Whole(w[i])]
        b == [i \in Listings(p) |-> Whole(u[i])]
    IN  \E k \in DOMAIN a : Less(a[k], b[k]) /\ \A j \in 1 .. k - 1 : a[j] = b[j]

Precedes(p, r, w, u) ==
    LET a == Keys(p, r, w) \o [i \in Listings(p) |-> Whole(w[i])]
        b == Keys(p, r, u) \o [i \in Listings(p) |-> Whole(u[i])]
    IN  \E k \in DOMAIN a : Less(a[k], b[k]) /\ \A j \in 1 .. k - 1 : a[j] = b[j]

Best(p, r, candidates) ==
    CHOOSE w \in candidates : \A u \in candidates \ {w} : Precedes(p, r, w, u)

-----------------------------------------------------------------------------
(* optimize_portfolio. A request r names the objective, the mode, the grid *)
(* (r.steps = 1/grid_step), the risk-free rate, a target return where one  *)
(* is given, and what the numerical solver would come back with.           *)

Refused(why) == [ok |-> FALSE, why |-> why]
Chosen(portfolio, c) ==
    IF ValidWeights(portfolio, c) THEN [ok |-> TRUE, weights |-> portfolio]
    ELSE Refused("constraints")

(* project_capped_simplex refuses bounds no vector of this size can meet.  *)
BoundsAreFeasible(p, c) == c.min * Len(p.isin) <= Unit /\ c.max * Len(p.isin) >= Unit

SolveProductionObjective(p, c, r) ==
    CASE ~BoundsAreFeasible(p, c) -> Refused("bounds")
      [] BoundsAreFeasible(p, c) /\ ~r.solver.converged -> Refused("solver_not_converged")
      [] OTHER -> Chosen(ByIsin(p, r.solver.weights), c)

OptimizePortfolio(p, c, r) ==
    LET candidates == CandidateWeights(p, c, r.steps)
        feasible == {w \in candidates :
                        \/ r.objective # "target_return_minimum_variance"
                        \/ PortfolioReturn(p, w) >= r.target * Unit}
    IN  CASE r.objective = "equal_weight" -> Chosen(EqualWeightSeed(p), c)
          [] r.objective \notin GridObjectives \cup {"equal_weight"} -> Refused("objective")
          [] r.objective = "target_return_minimum_variance" /\ ~r.targetGiven ->
                Refused("target_return is required")
          [] OTHER ->
             CASE ~CovarianceIsComplete(p) -> Refused("incomplete covariance")
               [] /\ CovarianceIsComplete(p) /\ r.mode = "production"
                  /\ r.objective \in SolverBackedObjectives ->
                     SolveProductionObjective(p, c, r)
               [] /\ CovarianceIsComplete(p) /\ r.mode = "production"
                  /\ r.objective \notin SolverBackedObjectives
                  /\ CandidateLimitExceeded(Len(p.isin), r.steps) ->
                     Refused("candidate_limit_exceeded")
               [] OTHER -> IF feasible = {} THEN Refused("no feasible weights")
                           ELSE Chosen(ByIsin(p, Best(p, r, feasible)), c)

-----------------------------------------------------------------------------
(* build_optimizer_diagnostics for a portfolio somebody computed. The      *)
(* solver is run again; its verdict counts only for the weights it found.  *)

SolverMatches(p, portfolio, r) ==
    /\ r.mode = "production" /\ r.objective \in SolverBackedObjectives
    /\ CovarianceIsComplete(p)
    /\ r.solver.weights = ByListing(p, portfolio)

FallbackUsed(p, portfolio, r) ==
    /\ ~SolverMatches(p, portfolio, r)
    /\ r.objective \in GridObjectives /\ r.gridGiven
    /\ CandidateLimitExceeded(Len(p.isin), r.steps)

SolverStatus(p, portfolio, c, r) ==
    CASE ~CovarianceIsComplete(p) -> "blocked_missing_covariance"
      [] CovarianceIsComplete(p) /\ SolverMatches(p, portfolio, r) /\ ~r.solver.converged ->
            "solver_not_converged"
      [] FallbackUsed(p, portfolio, r) /\ CovarianceIsComplete(p) -> "candidate_limit_exceeded"
      [] OTHER -> IF ConstraintViolations(portfolio, c) = {} THEN "feasible"
                  ELSE "constraint_violation"

ProductionEligible(p, portfolio, c, r) ==
    /\ r.mode = "production"
    /\ ~FallbackUsed(p, portfolio, r)
    /\ SolverMatches(p, portfolio, r) => r.solver.converged
    /\ CovarianceIsComplete(p)
    /\ ConstraintViolations(portfolio, c) = {}

CovarianceCondition(p) ==
    CASE CovarianceCompleteness(p).missing > 0 -> "missing_covariance"
      [] /\ CovarianceCompleteness(p).missing = 0
         /\ CovarianceCompleteness(p).nonFinite > 0 -> "non_finite_covariance"
      [] OTHER -> IF \A i \in Listings(p) : p.cov[<<i, i>>] <= 0 THEN "zero_variance" ELSE "ok"

OptimizerDiagnostics(p, portfolio, c, r) ==
    LET status == SolverStatus(p, portfolio, c, r)
        vector == ByListing(p, portfolio)
    IN  [solver_status |-> status,
         convergence_status |->
            IF status \in {"feasible", "candidate_limit_exceeded"} THEN "converged"
            ELSE "not_converged",
         requested_method |-> r.objective,
         actual_method |-> IF FallbackUsed(p, portfolio, r) THEN "equal_weight_fallback"
                           ELSE r.objective,
         covariance_condition |-> CovarianceCondition(p),
         constraint_violations |-> ConstraintViolations(portfolio, c),
         constraint_residuals |->
            [s \in DOMAIN portfolio |->
                Max({0, c.min - portfolio[s]}) + Max({0, portfolio[s] - c.max})],
         bound_activity |->
            {<<s, "min_weight">> : s \in {s \in DOMAIN portfolio : portfolio[s] = c.min}}
            \cup {<<s, "max_weight">> : s \in {s \in DOMAIN portfolio : portfolio[s] = c.max}},
         expected_return |-> PortfolioReturn(p, vector),
         fallback_used |-> FallbackUsed(p, portfolio, r),
         production_eligible |-> ProductionEligible(p, portfolio, c, r)]

-----------------------------------------------------------------------------
(* Closed forms and conversions beside the optimizer.                      *)

(* minimum_variance_two_asset_weight: the left weight as a fraction.       *)
TwoAssetLeftWeight(leftVariance, rightVariance, covariance, c) ==
    LET denominator == leftVariance + rightVariance - 2 * covariance
        raw == IF denominator = 0 THEN Frac(1, 2)
               ELSE Frac(rightVariance - covariance, denominator)
    IN  Smaller(Frac(c.max, Unit), Larger(Frac(c.min, Unit), raw))

(* build_risk_contribution_rows: what every listing contributes.           *)
RiskContributionRows(p, portfolio, tolerance) ==
    LET w == ByListing(p, portfolio)
        residual == Sum([i \in Listings(p) |->
                           Times(RiskBudgetResidual(p, w, i), RiskBudgetResidual(p, w, i))])
    IN  [i \in Listings(p) |->
            [absolute |-> w[i] * MarginalRiskContribution(p, w, i),
             budget_residual |-> RiskBudgetResidual(p, w, i),
             portfolio_variance |-> PortfolioVariance(p, w),
             objective_residual |-> residual,
             convergence_status |-> IF AtMost(residual, tolerance) THEN "converged"
                                    ELSE "not_converged"]]

(* build_target_weight_rows: the rows of optimized_weights, one per ISIN,  *)
(* each with the last listing of that ISIN.                                *)
TargetWeightRows(p, portfolio) ==
    {[isin |-> s, weight |-> portfolio[s],
      listing |-> Max({i \in Listings(p) : p.isin[i] = s})] : s \in DOMAIN portfolio}

(* write_optimized_weights: baseline mode, then diagnostics for the result;*)
(* a risk parity objective replaces the convergence status by its own.     *)
WrittenDiagnostics(p, portfolio, c, r, tolerance) ==
    LET d == OptimizerDiagnostics(p, portfolio, c, r)
        rows == RiskContributionRows(p, portfolio, tolerance)
    IN  IF r.objective \in RiskParityObjectives
        THEN [d EXCEPT !.convergence_status = rows[1].convergence_status]
        ELSE d

-----------------------------------------------------------------------------
(* What must hold of a problem p, constraints c and request r.             *)

LOCAL SoleIsins(p) == Cardinality(Range(p.isin)) = Len(p.isin)
LOCAL GridVectors(p, c, r) ==
    {w \in [Listings(p) -> {k * (Unit \div r.steps) : k \in 0 .. r.steps}] :
        /\ ValidWeights(w, c)
        /\ r.objective = "target_return_minimum_variance" =>
               PortfolioReturn(p, w) >= r.target * Unit}

(* The diagnostics written beside a portfolio never flatter it. A portfolio*)
(* optimize_portfolio returned violates no constraint; unless an ISIN is   *)
(* traded twice it is called feasible or a fallback, is eligible when the  *)
(* production mode made it, and is named after the method that made it; a  *)
(* fallback is the equal-weight portfolio; nothing is made of incomplete   *)
(* covariances but equal weights, and that is never eligible.              *)
ReportsAreTrue(p, c, r) ==
    LET o == OptimizePortfolio(p, c, r)
        d == OptimizerDiagnostics(p, o.weights, c, r)
        limited == CandidateLimitExceeded(Len(p.isin), r.steps)
    IN  o.ok =>
        /\ d.constraint_violations = {}
        /\ \A s \in DOMAIN o.weights : d.constraint_residuals[s] = 0
        /\ CovarianceIsComplete(p) /\ SoleIsins(p) =>
              /\ d.solver_status \in {"feasible", "candidate_limit_exceeded"}
              /\ d.solver_status = "feasible" <=> ~d.fallback_used
        /\ d.production_eligible => r.mode = "production" /\ CovarianceIsComplete(p)
        /\ r.mode = "production" /\ CovarianceIsComplete(p) /\ SoleIsins(p) =>
              d.production_eligible
        /\ r.mode = "baseline" /\ r.gridGiven =>
              d.actual_method =
                 ResolveActualOptimizerMethod(r.objective, Len(p.isin), r.steps)
        /\ d.fallback_used => o.weights = EqualWeightSeed(p)
        /\ ~CovarianceIsComplete(p) => r.objective = "equal_weight"

(* The search is the optimum of the grid: no vector with the same steps    *)
(* that keeps the bounds has a better first key, a refusal means there is  *)
(* none at all, the limit on the enumeration is about the number of        *)
(* vectors enumerated, and the closed form for two assets beats them all.  *)
(* The risk contributions add up to the variance and their residuals to 0. *)
ChoiceIsOptimal(p, c, r) ==
    LET o == OptimizePortfolio(p, c, r)
        w == ByListing(p, o.weights)
        n == Len(p.isin)
        searched == /\ r.objective \in GridObjectives /\ r.mode = "baseline"
                    /\ CovarianceIsComplete(p) /\ SoleIsins(p)
                    /\ r.targetGiven \/ r.objective # "target_return_minimum_variance"
                    /\ ~CandidateLimitExceeded(n, r.steps)
        rows == RiskContributionRows(p, o.weights, Zero)
        closed == TwoAssetLeftWeight(p.cov[<<1, 1>>], p.cov[<<2, 2>>], p.cov[<<1, 2>>],
                                     [min |-> 0, max |-> Unit])
        mix(left) ==
            LET right == Minus(One, left)
            IN  Plus(Plus(Times(Times(left, left), Whole(p.cov[<<1, 1>>])),
                          Times(Times(right, right), Whole(p.cov[<<2, 2>>]))),
                     Times(Times(left, right), Whole(2 * p.cov[<<1, 2>>])))
    IN  /\ Cardinality(WeightIntegerPartitions(n, r.steps)) = ExactCandidateCount(n, r.steps)
        /\ searched =>
              /\ o.ok <=> GridVectors(p, c, r) # {}
              /\ o.ok => \A v \in GridVectors(p, c, r) :
                            AtMost(Keys(p, r, w)[1], Keys(p, r, v)[1])
        /\ o.ok /\ CovarianceIsComplete(p) /\ PortfolioVariance(p, w) # 0 =>
              /\ Sum([i \in Listings(p) |-> rows[i].budget_residual]) = Zero
              /\ SumFunction([i \in Listings(p) |-> rows[i].absolute]) =
                    rows[1].portfolio_variance
        /\ n = 2 /\ CovarianceIsComplete(p) =>
              \A k \in 0 .. r.steps : AtMost(mix(closed), mix(Frac(k, r.steps)))
=============================================================================
