------------------------------ MODULE Backtest ------------------------------
(***************************************************************************)
(* evaluation.py: from the returns of listings to the returns, drawdowns,  *)
(* walk-forward splits, rebalancing and frontier of portfolios.            *)
(*                                                                         *)
(* A matrix m has the days of a calendar on which every listing has a      *)
(* return: m.isin as in PortfolioWeights, m.dates a sequence of            *)
(* <<year, month, day>>, m.ret[t][i] the return of listing i on day t in   *)
(* percent. Derived numbers are exact fractions. Log and simple returns    *)
(* are one number here: the code keeps both and uses the simple one        *)
(* wherever wealth is compounded.                                          *)
(***************************************************************************)
EXTENDS PortfolioWeights, RiskParityTree

CONSTANTS MinHistory, ProductionProfile

ASSUME BacktestAssumption ==
    /\ MinHistory \in Nat
    /\ DOMAIN ProductionProfile = {"train", "test", "splits", "max"}

(* The named policies; ProductionProfile stands for 504, 21, 2 and 0.25.  *)
WalkForwardProfiles ==
    [development |-> [train |-> 1, test |-> 1, splits |-> 1, max |-> Unit],
     production |-> ProductionProfile]

(* build_return_matrix: returns[i] is a function on some of the calendar.  *)
ReturnMatrix(isin, calendar, returns) ==
    LET common == {t \in DOMAIN calendar : \A i \in DOMAIN isin : t \in DOMAIN returns[i]}
        day[k \in 1 .. Cardinality(common)] ==
            CHOOSE t \in common : Cardinality({s \in common : s < t}) = k - 1
    IN  [isin |-> isin,
         dates |-> [k \in 1 .. Cardinality(common) |-> calendar[day[k]]],
         ret |-> [k \in 1 .. Cardinality(common) |->
                     [i \in DOMAIN isin |-> returns[i][day[k]]]]]

Days(m) == DOMAIN m.dates
OnDays(m, days) ==
    [m EXCEPT !.dates = SubSeq(@, days[1], days[2]), !.ret = SubSeq(@, days[1], days[2])]

Percent(n) == Frac(n, 100)

EqualWeights(m) == [s \in Range(m.isin) |-> Frac(1, Cardinality(Range(m.isin)))]

WeightsAreValid(m, w) ==
    /\ DOMAIN w = Range(m.isin) /\ DOMAIN w # {}
    /\ \A s \in DOMAIN w : AtMost(Zero, w[s])
    /\ Sum(w) = One

(* One row per listing: every listing contributes the weight of its ISIN.  *)
DailyReturn(m, w, t) ==
    Sum([i \in DOMAIN m.isin |-> Times(Percent(m.ret[t][i]), w[m.isin[i]])])

PortfolioReturns(m, w) ==
    LET wealth[t \in 0 .. Len(m.dates)] ==
            IF t = 0 THEN One ELSE Times(wealth[t - 1], Plus(One, DailyReturn(m, w, t)))
    IN  [t \in Days(m) |-> [return |-> DailyReturn(m, w, t), wealth |-> wealth[t]]]

CompoundReturn(returns) ==
    LET product[t \in 0 .. Len(returns)] ==
            IF t = 0 THEN One ELSE Times(product[t - 1], Plus(One, returns[t].return))
    IN  Minus(product[Len(returns)], One)

(* build_drawdowns: the peak so far, and how long ago it was.              *)
DrawdownStep(before, wealth) ==
    LET atPeak == AtMost(before.peak, wealth)
        peak == IF atPeak THEN wealth ELSE before.peak
    IN  [peak |-> peak,
         drawdown |-> IF peak = Zero THEN Zero ELSE Minus(Over(wealth, peak), One),
         duration |-> IF atPeak THEN 0 ELSE before.duration + 1,
         recovery |-> IF atPeak THEN before.duration ELSE 0]

Drawdowns(returns) ==
    LET row[t \in 0 .. Len(returns)] ==
            IF t = 0 THEN [peak |-> One, drawdown |-> Zero, duration |-> 0, recovery |-> 0]
            ELSE DrawdownStep(row[t - 1], returns[t].wealth)
    IN  [t \in DOMAIN returns |-> row[t]]

Lowest(fractions) == CHOOSE f \in fractions : \A g \in fractions : AtMost(f, g)

MaxDrawdown(drawdowns) ==
    IF drawdowns = <<>> THEN Zero ELSE Lowest({drawdowns[t].drawdown : t \in DOMAIN drawdowns})

Ratio(a, b) == IF b = Zero THEN Zero ELSE Over(a, b)

(* Sample covariance of two columns of the matrix, as a fraction.          *)
Covariance(m, i, j) ==
    LET n == Len(m.dates)
        total(k) == MapThenSumSet(LAMBDA t : m.ret[t][k], Days(m))
        product == MapThenSumSet(LAMBDA t : m.ret[t][i] * m.ret[t][j], Days(m))
    IN  IF n < 2 THEN Zero ELSE Frac(n * product - total(i) * total(j), n * (n - 1))

(* What build_asset_metrics says of a listing, and of its risk             *)
(* _historical_tail_risk: losses are the returns with their sign changed.  *)
AssetMetrics(m, i, percent) ==
    LET returns == [t \in Days(m) |-> m.ret[t][i]]
    IN  [observation_count |-> Len(m.dates),
         first |-> m.dates[1], last |-> m.dates[Len(m.dates)],
         mean_return |-> Frac(SumFunction(returns), Len(m.dates)),
         variance |-> Covariance(m, i, i),
         tail |-> HistoricalVarAndCvar([t \in Days(m) |-> -returns[t]], percent),
         downside |-> MapThenSumSet(LAMBDA t : Min({0, returns[t]}) * Min({0, returns[t]}), Days(m)),
         production_eligible |-> Len(m.dates) >= MinHistory]

PortfolioMetrics(m, w) ==
    LET returns == PortfolioReturns(m, w)
        worst == MaxDrawdown(Drawdowns(returns))
        mean == Mean([t \in Days(m) |-> returns[t].return], Len(m.dates))
    IN  [mean_return |-> mean, max_drawdown |-> worst,
         calmar_ratio |-> Ratio(Times(mean, Whole(252)), Abs(worst))]

-----------------------------------------------------------------------------
(* build_walk_forward_backtest. A policy w has the train and test windows, *)
(* the mode, the profile, the cost rate in percent, constraints and the    *)
(* request for the optimizer.                                              *)

(* What the optimizer sees of the training days: sums stand for means and  *)
(* covariances, which they are a positive multiple of. An ISIN's mean is   *)
(* over the rows of all its listings.                                      *)
TrainingProblem(m) ==
    [isin |-> m.isin,
     mean |-> [s \in Range(m.isin) |->
                  LET own == {i \in DOMAIN m.isin : m.isin[i] = s}
                  IN  (Len(m.isin) \div Cardinality(own))
                        * MapThenSumSet(LAMBDA ti : m.ret[ti[1]][ti[2]], Days(m) \X own)],
     cov |-> [ij \in (DOMAIN m.isin) \X (DOMAIN m.isin) |->
                 LET n == Len(m.dates)
                     total(k) == MapThenSumSet(LAMBDA t : m.ret[t][k], Days(m))
                 IN  n * MapThenSumSet(LAMBDA t : m.ret[t][ij[1]] * m.ret[t][ij[2]], Days(m))
                        - total(ij[1]) * total(ij[2])],
     absent |-> {}, broken |-> {}]

Turnover(previous, current) ==
    IF DOMAIN previous = {} THEN Zero
    ELSE Over(Sum([s \in DOMAIN previous \cup DOMAIN current |->
                     LET of(w) == IF s \in DOMAIN w THEN w[s] ELSE Zero
                     IN  Abs(Minus(of(previous), of(current)))]), Whole(2))

PolicyRefused(w) ==
    LET profile == WalkForwardProfiles[w.profile]
    IN  \/ w.train < 1 \/ w.test < 1
        \/ w.train < profile.train \/ w.test < profile.test
        \/ w.c.max > profile.max

Fault_TrainDays(w, start) ==
    <<IF w.mode = "expanding" THEN 1 ELSE start - w.train + 1, start + w.test>>

TrainDays(w, start) == <<IF w.mode = "expanding" THEN 1 ELSE start - w.train + 1, start>>
TestDays(w, start) == <<start + 1, start + w.test>>

(* One split after the split with weights previous; start days are behind. *)
Split(m, w, start, previous) ==
    LET train == OnDays(m, TrainDays(w, start))
        test == OnDays(m, TestDays(w, start))
        chosen == OptimizePortfolio(TrainingProblem(train), w.c, w.r)
        weights == [s \in DOMAIN chosen.weights |-> Frac(chosen.weights[s], Unit)]
        turnover == Turnover(previous, weights)
        returns == PortfolioReturns(test, weights)
        preCost == CompoundReturn(returns)
    IN  IF ~chosen.ok THEN [ok |-> FALSE]
        ELSE [ok |-> TRUE, weights |-> weights,
              train |-> TrainDays(w, start), test |-> TestDays(w, start),
              actual_method |-> ResolveActualOptimizerMethod(w.r.objective, Len(m.isin), w.r.steps),
              turnover |-> turnover, pre_cost_return |-> preCost,
              post_cost_return |->
                 Minus(Times(Minus(One, Times(turnover, Percent(w.cost))), Plus(One, preCost)), One),
              max_drawdown |-> MaxDrawdown(Drawdowns(returns))]

(* A split the optimizer refuses ends the whole backtest with an error.    *)
WalkForwardBacktest(m, w) ==
    LET splits[k \in 0 .. Len(m.dates)] ==
            LET start == w.train + (k - 1) * w.test
                before == splits[k - 1]
                ended == start + w.test > Len(m.dates) \/ \E s \in Range(before) : ~s.ok
                previous == IF k = 1 THEN <<>> ELSE before[k - 1].weights
            IN  IF k = 0 THEN <<>>
                ELSE IF ended THEN before ELSE Append(before, Split(m, w, start, previous))
        done == splits[Len(m.dates)]
        eligible == /\ w.profile = "production"
                    /\ Len(done) >= WalkForwardProfiles[w.profile].splits
    IN  IF PolicyRefused(w) \/ \E s \in Range(done) : ~s.ok THEN [ok |-> FALSE]
        ELSE [ok |-> TRUE, splits |-> done, production_eligible |-> eligible,
              availability_reason |->
                 IF w.profile # "production" THEN "development_profile_baseline_only"
                 ELSE IF eligible THEN "ok" ELSE "insufficient_completed_splits"]

-----------------------------------------------------------------------------
(* build_rebalance_events.                                                 *)

(* A threshold schedule has no period of its own: it falls through to the  *)
(* month, so it also rebalances on the first day of every month.           *)
RebalancePeriod(date, schedule) ==
    CASE schedule = "annual" -> <<date[1]>>
      [] schedule = "quarterly" -> <<date[1], (date[2] - 1) \div 3>>
      [] OTHER -> <<date[1], date[2], "month">>

(* A plan has the target weights, the schedule, the cost rate in percent   *)
(* and the drift that triggers a trade, where one is given.                *)
RebalanceDay(m, plan, before, t) ==
    LET isins == DOMAIN plan.target
        last(s) == Max({i \in DOMAIN m.isin : m.isin[i] = s})
        drifted == [s \in isins |->
                       IF s \in Range(m.isin)
                       THEN Times(before.values[s], Plus(One, Percent(m.ret[t][last(s)])))
                       ELSE before.values[s]]
        total == Sum(drifted)
        weights == [s \in isins |-> Ratio(drifted[s], total)]
        period == RebalancePeriod(m.dates[t], plan.schedule)
        drift == Turnover(weights, plan.target)
        rebalances == \/ period # before.period
                      \/ /\ plan.schedule = "threshold" /\ plan.threshold # <<>>
                         /\ AtMost(plan.threshold[1], drift)
        cost == Times(Times(drift, Percent(plan.cost)), total)
        targets == [s \in isins |-> Times(plan.target[s], total)]
        after == IF rebalances THEN Minus(total, cost) ELSE total
    IN  [rebalances |-> rebalances, pre_trade_value |-> total,
         turnover |-> IF rebalances THEN drift ELSE Zero,
         cost |-> IF rebalances THEN cost ELSE Zero,
         trades |-> [s \in isins |-> IF rebalances THEN Minus(targets[s], drifted[s]) ELSE Zero],
         values |-> IF rebalances
                    THEN [s \in isins |-> Times(targets[s], Ratio(after, total))]
                    ELSE drifted,
         period |-> IF rebalances THEN period ELSE before.period,
         portfolio_value |-> after,
         post_cost_return |-> IF before.portfolio_value = Zero THEN Zero
                              ELSE Minus(Over(after, before.portfolio_value), One)]

RebalanceEvents(m, plan) ==
    LET day[t \in 0 .. Len(m.dates)] ==
            IF t = 0 THEN [values |-> plan.target, period |-> <<>>,
                           portfolio_value |-> Sum(plan.target)]
            ELSE RebalanceDay(m, plan, day[t - 1], t)
    IN  [t \in Days(m) |-> day[t]]

(* build_efficient_frontier: a target nobody can meet gives a point of     *)
(* zeros that says so.                                                     *)
EfficientFrontier(m, c, r, targets) ==
    LET p == TrainingProblem(m)
        point(target) ==
            LET o == OptimizePortfolio(p, c, [r EXCEPT !.target = target, !.targetGiven = TRUE,
                                              !.objective = "target_return_minimum_variance"])
            IN  IF ~o.ok THEN [feasible |-> FALSE, expected |-> 0, variance |-> 0]
                ELSE [feasible |-> TRUE,
                      expected |-> SumFunction([s \in DOMAIN o.weights |-> p.mean[s] * o.weights[s]]),
                      variance |-> PortfolioVariance(p, ByListing(p, o.weights))]
    IN  [k \in DOMAIN targets |-> point(targets[k])]

-----------------------------------------------------------------------------
(* What must hold.                                                         *)

(* The weights of a split do not depend on any return of its test days or  *)
(* later, test days follow each other without gap or overlap until the     *)
(* days run out, costs never add to a return, and only a production policy *)
(* with enough splits is eligible.                                         *)
LooksOnlyBack(m, w) ==
    LET run == WalkForwardBacktest(m, w)
        blanked(from) ==
            [m EXCEPT !.ret = [t \in Days(m) |->
                IF t < from THEN m.ret[t] ELSE [i \in DOMAIN m.isin |-> t + i]]]
    IN  run.ok =>
        /\ \A k \in DOMAIN run.splits :
              LET split == run.splits[k]
                  other == WalkForwardBacktest(blanked(split.test[1]), w)
              IN  /\ split.train[2] + 1 = split.test[1]
                  /\ k > 1 => split.test[1] = run.splits[k - 1].test[2] + 1
                  /\ split.test[2] <= Len(m.dates)
                  /\ other.ok => other.splits[k].weights = split.weights
                  /\ AtMost(split.post_cost_return, split.pre_cost_return)
                  /\ WeightsAreValid(m, split.weights)
        /\ (IF run.splits = <<>> THEN w.train ELSE run.splits[Len(run.splits)].test[2]) + w.test
              > Len(m.dates)
        /\ run.production_eligible <=> run.availability_reason = "ok"
        /\ run.production_eligible =>
              /\ w.train >= ProductionProfile.train
              /\ Len(run.splits) >= ProductionProfile.splits
              /\ \A split \in Range(run.splits), s \in Range(m.isin) :
                    AtMost(split.weights[s], Frac(ProductionProfile.max, Unit))

(* A simulation neither makes nor loses money: what it holds is what the   *)
(* day left less the cost, trades cancel out, daily returns compound to    *)
(* the value, and after a trade the holdings are on target. Without costs  *)
(* and with a trade on every day it is the portfolio of constant weights.  *)
RebalancingConservesValue(m, plan) ==
    LET events == RebalanceEvents(m, plan)
        compound[t \in 0 .. Len(events)] ==
            IF t = 0 THEN One ELSE Times(compound[t - 1], Plus(One, events[t].post_cost_return))
        constant == PortfolioReturns(m, plan.target)
        sole == Cardinality(Range(m.isin)) = Len(m.isin)
    IN  /\ \A t \in DOMAIN events :
              LET e == events[t]
              IN  /\ Sum(e.values) = e.portfolio_value
                  /\ Sum(e.trades) = Zero
                  /\ Minus(e.pre_trade_value, e.cost) = e.portfolio_value
                  /\ compound[t] = e.portfolio_value
                  /\ AtMost(e.turnover, One)
                  /\ e.rebalances =>
                        \A s \in DOMAIN plan.target :
                            e.values[s] = Times(plan.target[s], e.portfolio_value)
                  /\ t > 1 /\ m.dates[t][2] # m.dates[t - 1][2] /\ plan.schedule = "monthly" =>
                        e.rebalances
        /\ sole /\ plan.cost = 0 /\ (\A t \in DOMAIN events : events[t].rebalances) =>
              \A t \in DOMAIN events : events[t].portfolio_value = constant[t].wealth

(* The peak is the highest wealth so far, the duration counts the days     *)
(* below it, and a recovery is as long as the days under water before it.  *)
DrawdownsMeasurePeaks(returns) ==
    LET rows == Drawdowns(returns)
        upTo(t) == {One} \cup {returns[s].wealth : s \in 1 .. t}
    IN  /\ \A t \in DOMAIN rows :
              /\ rows[t].peak \in upTo(t) /\ \A f \in upTo(t) : AtMost(f, rows[t].peak)
              /\ rows[t].duration = 0 <=> rows[t].drawdown = Zero
              /\ \A s \in t - rows[t].duration + 1 .. t : Less(returns[s].wealth, rows[t].peak)
              /\ t > 1 /\ rows[t].duration = 0 => rows[t].recovery = rows[t - 1].duration
        /\ \A s, t \in DOMAIN returns :
              s <= t /\ Less(Zero, returns[s].wealth) /\ AtMost(Zero, returns[t].wealth) =>
                 AtMost(MaxDrawdown(rows),
                        Minus(Over(returns[t].wealth, returns[s].wealth), One))

(* More return never costs less variance, and what no portfolio of the     *)
(* grid reaches none reaches at a higher target.                           *)
FrontierIsMonotone(points) ==
    \A k \in 1 .. Len(points) - 1 :
        /\ points[k + 1].feasible => points[k].feasible
        /\ points[k + 1].feasible => points[k].variance <= points[k + 1].variance
=============================================================================
