--------------------------- MODULE StressScenarios ---------------------------
(***************************************************************************)
(* stress.py: what would have become of given weights on the worst days,   *)
(* on cut, resampled or more correlated returns, and the summary of it.    *)
(*                                                                         *)
(* A matrix is one of Backtest, with returns in percent; weights are in    *)
(* 1/Unit by ISIN. Value at risk and its mean are in 1/Unit percent. The   *)
(* scenarios without returns give the variance, in 1/(Unit * Unit): their  *)
(* value at risk is a constant times its root. Random draws are inputs.    *)
(***************************************************************************)
EXTENDS Backtest, WalkForward

NoScenario == [ok |-> FALSE]

Shares(w) == [s \in DOMAIN w |-> Frac(w[s], Unit)]

(* _compounded_and_drawdown.                                               *)
Replay(m, w, percent) ==
    LET returns == PortfolioReturns(m, Shares(w))
        losses == [t \in Days(m) |->
                      -MapThenSumSet(LAMBDA i : m.ret[t][i] * w[m.isin[i]], DOMAIN m.isin)]
        tail == HistoricalVarAndCvar(losses, percent)
    IN  IF Len(m.dates) = 0
        THEN [ok |-> TRUE, return |-> Zero, drawdown |-> Zero, var |-> 0, cvar |-> Zero]
        ELSE [ok |-> TRUE, return |-> Minus(returns[Len(m.dates)].wealth, One),
              drawdown |-> MaxDrawdown(Drawdowns(returns)), var |-> tail.var, cvar |-> tail.cvar]

-----------------------------------------------------------------------------
(* historical_stress_scenario: the window that lost most.                  *)

WindowReturn(m, w, start, length) ==
    CompoundReturn(PortfolioReturns(OnDays(m, <<start, start + length - 1>>), Shares(w)))

WindowsOf(m, length) == 1 .. Len(m.dates) - length + 1

WorstWindow(m, w, length) ==
    LET lost(start) == WindowReturn(m, w, start, length)
    IN  Min({start \in WindowsOf(m, length) :
                \A other \in WindowsOf(m, length) : AtMost(lost(start), lost(other))})

HistoricalStress(m, w, length, percent) ==
    IF length < 2 \/ Len(m.dates) < length THEN NoScenario
    ELSE LET start == WorstWindow(m, w, length)
         IN  Replay(OnDays(m, <<start, start + length - 1>>), w, percent) @@ [start |-> start]

-----------------------------------------------------------------------------
(* distribution_cut_scenario: the cut is in percent. All returns of the    *)
(* listings cut are scaled, losses as well as gains.                       *)

CutReturns(m, cut, factor) ==
    [m EXCEPT !.ret = [t \in Days(m) |-> [i \in DOMAIN m.isin |->
        IF m.isin[i] \in cut THEN (m.ret[t][i] * (100 + factor)) \div 100 ELSE m.ret[t][i]]]]

DistributionCut(m, w, cut, factor, percent) ==
    IF factor \notin -100 .. 0 THEN NoScenario
    ELSE Replay(CutReturns(m, cut, factor), w, percent)

-----------------------------------------------------------------------------
(* block_bootstrap_scenarios: draws are the starts of the blocks. Returns  *)
(* are kept by ISIN, so that of several listings the last one counts.      *)

BlockDays(n, length, draws) ==
    [t \in 1 .. n |-> draws[1 + ((t - 1) \div length)] + ((t - 1) % length)]

LastListing(m, s) == Max({i \in DOMAIN m.isin : m.isin[i] = s})

Resampled(m, days) ==
    LET isins == Ascending(Range(m.isin))
    IN  [isin |-> isins, dates |-> m.dates,
         ret |-> [t \in DOMAIN days |->
                     [i \in DOMAIN isins |-> m.ret[days[t]][LastListing(m, isins[i])]]]]

BootstrapPath(m, w, length, draws, percent) ==
    IF length < 1 \/ Len(m.dates) < length THEN NoScenario
    ELSE Replay(Resampled(m, BlockDays(Len(m.dates), length, draws)), w, percent)

-----------------------------------------------------------------------------
(* The scenarios of covariances: cov is as in PortfolioWeights, weights a  *)
(* sequence; factors are in percent.                                       *)

DenseVariance(w, cov) ==
    Sum([ij \in (DOMAIN w) \X (DOMAIN w) |-> Times(Whole(w[ij[1]] * w[ij[2]]), cov[ij])])

(* _correlation_matrix: where a listing does not move it is one.           *)
Correlation(cov, ij) ==
    LET moved == Volatility(cov[<<ij[1], ij[1]>>]) * Volatility(cov[<<ij[2], ij[2]>>])
    IN  IF moved = 0 THEN One
        ELSE Larger(Neg(One), Smaller(One, Frac(cov[ij], moved)))

ConvergedCorrelation(cov, ij, factor) ==
    Plus(Times(Correlation(cov, ij), Frac(100 - factor, 100)), Frac(factor, 100))

ConvergenceVariance(w, cov, factor) ==
    DenseVariance(w, [ij \in DOMAIN cov |->
        IF ij[1] = ij[2] THEN Whole(cov[ij])
        ELSE Times(ConvergedCorrelation(cov, ij, factor),
                   Whole(Volatility(cov[<<ij[1], ij[1]>>]) * Volatility(cov[<<ij[2], ij[2]>>])))])

CovarianceScenario(variance) ==
    [ok |-> TRUE, return |-> Zero, drawdown |-> Zero, variance |-> Larger(Zero, variance)]

CorrelationConvergenceScenario(w, cov, factor) ==
    IF factor \notin 0 .. 100 THEN NoScenario
    ELSE CovarianceScenario(ConvergenceVariance(w, cov, factor))

CovariancePerturbation(w, cov, factor) ==
    IF factor <= -100 THEN NoScenario
    ELSE CovarianceScenario(Times(DenseVariance(w, [ij \in DOMAIN cov |-> Whole(cov[ij])]),
                                  Frac(100 + factor, 100)))

-----------------------------------------------------------------------------
(* build_sensitivity_summary of results that have returns.                 *)

ValuesIn(results, field) == [k \in DOMAIN results |-> results[k][field]]
Highest(fractions) == CHOOSE f \in fractions : \A g \in fractions : AtMost(g, f)

SensitivitySummary(results) ==
    [count |-> Len(results),
     median_return |-> Median(ValuesIn(results, "return"))[1],
     worst_return |-> Lowest(Range(ValuesIn(results, "return"))),
     median_drawdown |-> Median(ValuesIn(results, "drawdown"))[1],
     worst_drawdown |-> Lowest(Range(ValuesIn(results, "drawdown"))),
     median_cvar |-> Median(ValuesIn(results, "cvar"))[1],
     worst_cvar |-> Highest(Range(ValuesIn(results, "cvar")))]

-----------------------------------------------------------------------------
(* What must hold.                                                         *)

(* The window replayed lost as much as any; a path of blocks loses no more *)
(* in a day than history did, and in the order of history it is history as *)
(* long as no ISIN has two listings; nothing falls less than to where it   *)
(* ends; cutting everything leaves nothing; the summary is bounded by its  *)
(* worst and does not depend on the order of the scenarios.                *)
ReplaysHold(m, w, length, draws, percent) ==
    LET n == Len(m.dates)
        history == Replay(m, w, percent)
        worst == HistoricalStress(m, w, length, percent)
        path == BootstrapPath(m, w, length, draws, percent)
        inOrder == [k \in 1 .. n |-> 1 + (k - 1) * length]
        results == <<worst, path, history>>
        summary == SensitivitySummary(results)
        whole == n % length = 0
    IN  IF length < 2 \/ n < length THEN ~worst.ok
        ELSE /\ \A start \in 1 .. n - length + 1 :
                   AtMost(worst.return, WindowReturn(m, w, start, length))
             /\ length = n => worst.return = history.return /\ worst.cvar = history.cvar
             /\ whole /\ IsInjective(m.isin) =>
                   BootstrapPath(m, w, length, inOrder, percent) = history
             /\ \A r \in Range(results) :
                   AtMost(r.drawdown, r.return) /\ AtMost(Whole(r.var), r.cvar)
             /\ IsInjective(m.isin) =>
                   LET last == HistoricalVarAndCvar(
                                  [t \in 1 .. n |-> -MapThenSumSet(
                                      LAMBDA i : m.ret[t][i] * w[m.isin[i]], DOMAIN m.isin)], 99)
                   IN  AtMost(path.cvar, Whole(last.var)) /\ AtMost(worst.cvar, Whole(last.var))
             /\ DistributionCut(m, w, Range(m.isin), -100, percent).return = Zero
             /\ DistributionCut(m, w, Range(m.isin), 0, percent) = history
             /\ AtMost(summary.worst_return, summary.median_return)
             /\ AtMost(summary.worst_drawdown, summary.median_drawdown)
             /\ AtMost(summary.median_cvar, summary.worst_cvar)
             /\ summary = SensitivitySummary(Reverse(results))

(* The more correlations converge, the higher the variance of weights that *)
(* are not negative, from what it is to what it would be without any       *)
(* diversification; perturbing scales it.                                  *)
ConvergenceIsAdverse(w, cov) ==
    LET base == CovariancePerturbation(w, cov, 0)
        undiversified == SumFunction([i \in DOMAIN w |-> w[i] * Volatility(cov[<<i, i>>])])
        at(factor) == CorrelationConvergenceScenario(w, cov, factor).variance
    IN  /\ AtMost(base.variance, at(0)) /\ AtMost(at(0), at(50)) /\ AtMost(at(50), at(100))
        /\ at(100) = Whole(undiversified * undiversified)
        /\ CovariancePerturbation(w, cov, 100).variance = Times(Whole(2), base.variance)
=============================================================================
