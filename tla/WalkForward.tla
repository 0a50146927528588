---------------------------- MODULE WalkForward ----------------------------
(***************************************************************************)
(* multivariate_validation.py, multivariate_refits.py,                     *)
(* multivariate_risk_model_comparison.py, multivariate_selection_ranking.py*)
(* and multivariate_structural_walk_forward.py: candidates are fitted on   *)
(* the days before a window, measured on the window, compared over all     *)
(* windows, and the best of them is decided on (multivariate_compute.py).  *)
(*                                                                         *)
(* A configuration is a method with a risk model specification; it is      *)
(* known by its place in the sequence. A policy has the days to train on   *)
(* before the first window, the days of a window, the most refits, the     *)
(* completed windows required and the cost of a full turnover. A value     *)
(* that may be missing is <<>> or <<value>>. Volatility, Sharpe and Sortino*)
(* ratio are represented by their squares, the ratios with their sign.     *)
(***************************************************************************)
EXTENDS Candidates

SelectionMethods ==
    <<"equal_weight", "inverse_volatility", "minimum_variance", "equal_risk_contribution",
      "hierarchical_risk_parity", "minimum_cvar">>

SpecsOf(method) ==
    IF method \in {"equal_weight", "minimum_cvar"} THEN <<LW_FULL>> ELSE ProductionSpecs

(* SELECTION_V2_CONFIGURATIONS, fourteen of them.                          *)
Configurations ==
    FlattenSeq([i \in DOMAIN SelectionMethods |->
        LET method == SelectionMethods[i]
        IN  [j \in DOMAIN SpecsOf(method) |-> [method |-> method, spec |-> SpecsOf(method)[j]]]])

-----------------------------------------------------------------------------
(* _walk_forward_starts: how many of the n days each refit trains on. Too  *)
(* many are thinned out evenly, keeping the first and the last.            *)

Starts(n, policy) ==
    LET all == Ascending({s \in policy.train .. n - policy.test :
                             (s - policy.train) % policy.test = 0})
        last == Len(all) - 1
    IN  IF Len(all) <= policy.refits THEN all
        ELSE [k \in 1 .. policy.refits |-> all[1 + ((k - 1) * last) \div (policy.refits - 1)]]

Window(dates, start, policy) == SubSeq(dates, start + 1, start + policy.test)

TrainingDays(dates, start) == {dates[t] : t \in 1 .. start}

OnTheseDays(returns, days) ==
    [l \in DOMAIN returns |-> Restrict(returns[l], days \cap DOMAIN returns[l])]

(* build_split_risk_model_bundles fits on the training days, and           *)
(* build_split_candidate_families measures what it built on every day up   *)
(* to the last of them.                                                    *)
SplitModel(snapshot, returns, dates, start, spec) ==
    BuildRiskModel(snapshot, OnTheseDays(returns, TrainingDays(dates, start)), spec)

(* A candidate with its configuration and with what its identity is made   *)
(* of: the covariances it was fitted to (unlike its weights, they differ   *)
(* wherever the training days do).                                         *)
Slot(candidate, model, i) ==
    candidate @@ [configuration |-> i, fit |-> [spec |-> model.spec, cov |-> model.cov]]

FamilyFrom(snapshot, models, returns, income, policy, configurations, answer) ==
    [i \in DOMAIN configurations |->
        LET c == configurations[i]
        IN  Slot(CandidateSet(snapshot, models[c.spec], returns, income, policy,
                              <<c.method>>, answer[i])[1], models[c.spec], i)]

SplitFamily(snapshot, models, returns, last, income, policy, configurations, answer) ==
    FamilyFrom(snapshot, models,
               OnTheseDays(returns, {d \in UNION {DOMAIN r : r \in Range(returns)} : d <= last}),
               income, policy, configurations, answer)

(* build_refitted_candidate_sets deals the refits to the workers in turn   *)
(* and puts what they return back into the order of the starts.            *)
RefitBatches(starts, workers) ==
    LET count == Min({workers, Len(starts)})
    IN  [b \in 1 .. count |-> SelectSeq(starts, LAMBDA s :
            (CHOOSE k \in DOMAIN starts : starts[k] = s) % count = b % count)]

OrderedRefits(groups) ==
    LET all == FlattenSeq(groups)
        ordered == SortSeq(all, LAMBDA p, q : p[1] < q[1])
    IN  [k \in DOMAIN ordered |-> ordered[k][2]]

-----------------------------------------------------------------------------
(* Measures of a sequence of returns.                                      *)

Average(values) == Frac(FoldFunction(+, 0, values), Len(values))

SampleVariance(values) ==
    IF Len(values) < 2 THEN <<>>
    ELSE <<Over(Sum([t \in DOMAIN values |->
                        LET x == Minus(Whole(values[t]), Average(values)) IN Times(x, x)]),
                Whole(Len(values) - 1))>>

SignedSquareOver(values, square) ==
    IF square = <<>> \/ square = <<Zero>> THEN <<>>
    ELSE <<Over(Times(Average(values), Abs(Average(values))), square[1])>>

Sharpe(values) == SignedSquareOver(values, SampleVariance(values))

Sortino(values) ==
    LET squares == FoldFunction(LAMBDA v, sum : (IF v < 0 THEN v * v ELSE 0) + sum, 0, values)
    IN  SignedSquareOver(values, IF values = <<>> THEN <<>> ELSE <<Frac(squares, Len(values))>>)

(* _value_at_risk at 95 percent: the mean of the losses from there on.     *)
TailLoss(values) ==
    LET losses == SortSeq([t \in DOMAIN values |-> -values[t]], <)
        threshold == losses[Min({Len(losses), 1 + (95 * Len(losses)) \div 100})]
    IN  Average(SelectSeq(losses, LAMBDA x : x >= threshold))

Median(values) ==
    LET sorted == SortSeq(values, Less)
        middle == Len(sorted) \div 2
    IN  IF values = <<>> THEN <<>>
        ELSE IF Len(sorted) % 2 = 1 THEN <<sorted[middle + 1]>>
        ELSE <<Over(Plus(sorted[middle], sorted[middle + 1]), Whole(2))>>

-----------------------------------------------------------------------------
(* validate_candidates.                                                    *)

IsFeasible(c) == c.status = "feasible"

(* Listings without rows take no part.                                     *)
ValidationDates(candidates, returns) ==
    LET held == UNION {DOMAIN candidates[i].weights : i \in {i \in DOMAIN candidates :
                                                                IsFeasible(candidates[i])}}
        listings == {l \in held : l \in DOMAIN returns /\ DOMAIN returns[l] # {}}
    IN  IF listings = {} THEN <<>> ELSE Ascending(CommonDates(returns, listings))

ReturnsOn(c, returns, days) ==
    [t \in DOMAIN days |->
        MapThenSumSet(LAMBDA l : c.weights[l] * returns[l][days[t]], DOMAIN c.weights)]

(* The first allocation is a full rebalance from cash.                     *)
TurnoverBetween(previous, current) ==
    LET at(w, l) == IF l \in DOMAIN w THEN w[l] ELSE 0
    IN  IF previous = <<>> THEN One
        ELSE Frac(MapThenSumSet(LAMBDA l : Distance(at(previous, l), at(current, l)),
                                DOMAIN previous \cup DOMAIN current), 2 * Unit)

(* The candidate of a configuration in the set of a refit, if it has one.  *)
OfConfiguration(set, k) == SelectSeq(set, LAMBDA c : c.configuration = k /\ IsFeasible(c))

PreviousWeights(sets, t, k) ==
    LET earlier == {u \in 1 .. t - 1 : OfConfiguration(sets[u], k) # <<>>}
    IN  IF earlier = {} THEN <<>> ELSE OfConfiguration(sets[Max(earlier)], k)[1].weights

UnavailableRow(c, reason) ==
    [status |-> "unavailable", configuration |-> c.configuration, reason |-> <<reason>>]

SplitRow(c, returns, dates, start, policy, previous) ==
    LET days == Window(dates, start, policy)
        values == ReturnsOn(c, returns, days)
        turnover == TurnoverBetween(previous, c.weights)
        cost == Times(turnover, policy.rate)
        drawdown == DeepestDrawdown(values)
        post == Minus(TotalReturn(values), cost)
    IN  [status |-> "complete", configuration |-> c.configuration, reason |-> <<>>,
         id |-> [fit |-> c.fit, method |-> c.method, weights |-> c.weights],
         train_start |-> dates[1], train_end |-> dates[start],
         test_start |-> days[1], test_end |-> days[Len(days)],
         pre_cost_return |-> TotalReturn(values), turnover |-> turnover,
         post_cost_return |-> post, variance |-> SampleVariance(values),
         sharpe_ratio |-> Sharpe(values), sortino_ratio |-> Sortino(values),
         conditional_value_at_risk |-> TailLoss(values), max_drawdown |-> drawdown,
         herfindahl_index |-> c.metrics.herfindahl_index, weights |-> c.weights,
         return_drawdown_ratio |-> IF drawdown = Zero THEN <<>> ELSE <<Over(post, Abs(drawdown))>>]

HasDuplicates(set) == ~IsInjective([i \in DOMAIN set |-> set[i].configuration])

ValidationError(requested, returns, policy, sets) ==
    LET dates == ValidationDates(requested, returns)
        starts == Starts(Len(dates), policy)
    IN  CASE Len(dates) < policy.train + policy.test -> "none"
          [] Len(sets) < Len(starts) -> "missing_precomputed_candidates"
          [] \E t \in DOMAIN starts : HasDuplicates(sets[t]) ->
                "duplicate_candidate_configuration_id"
          [] Len(sets) > Len(starts) -> "unexpected_precomputed_candidates"
          [] OTHER -> "none"

ValidateCandidates(requested, returns, policy, sets) ==
    LET dates == ValidationDates(requested, returns)
        starts == Starts(Len(dates), policy)
        row(t, c) ==
            LET found == OfConfiguration(sets[t], c.configuration)
            IN  IF found = <<>> THEN UnavailableRow(c, "candidate_unavailable")
                ELSE SplitRow(found[1], returns, dates, starts[t], policy,
                              PreviousWeights(sets, t, c.configuration))
    IN  IF Len(dates) < policy.train + policy.test
        THEN [i \in DOMAIN requested |->
                 UnavailableRow(requested[i], "insufficient_walk_forward_history")]
        ELSE FlattenSeq([t \in DOMAIN starts |->
                            [i \in DOMAIN requested |-> row(t, requested[i])]])

-----------------------------------------------------------------------------
(* build_configuration_scorecards and rank_configuration_scorecards.       *)

MedianOf(rows, field(_)) ==
    LET values == FlattenSeq([i \in DOMAIN rows |-> field(rows[i])]) IN Median(values)

ScorecardOf(rows, k, required) ==
    LET own == SelectSeq(rows, LAMBDA r : r.configuration = k)
        complete == SelectSeq(own, LAMBDA r : r.status = "complete")
        windows == {complete[i].test_start : i \in DOMAIN complete}
    IN  [configuration |-> k,
         completed |-> Len(complete), required |-> required,
         reasons |-> {own[i].reason[1] : i \in {i \in DOMAIN own : own[i].reason # <<>>}}
                     \cup {r \in {"incomplete_common_split_evidence"} :
                               Cardinality(windows) < required},
         sharpe |-> MedianOf(complete, LAMBDA r : r.sharpe_ratio),
         return_drawdown |-> MedianOf(complete, LAMBDA r : r.return_drawdown_ratio),
         variance |-> MedianOf(complete, LAMBDA r : r.variance),
         turnover |-> MedianOf(complete, LAMBDA r : <<r.turnover>>),
         herfindahl |-> MedianOf(complete, LAMBDA r : <<r.herfindahl_index>>)]

Scorecards(rows, configurations, required) ==
    [k \in DOMAIN configurations |-> ScorecardOf(rows, k, required)]

Fault_Rankable(card) == card.completed >= card.required

Rankable(card) == card.completed >= card.required /\ card.reasons = {}

Objectives == {"return_risk", "return_drawdown", "minimum_risk"}

Primary(card, objective) ==
    CASE objective = "return_risk" -> card.sharpe
      [] objective = "return_drawdown" -> card.return_drawdown
      [] OTHER -> IF card.variance = <<>> THEN <<>> ELSE <<Neg(card.variance[1])>>

(* The higher score first, then the lower turnover, the lower              *)
(* concentration and the earlier configuration.                            *)
RankedBefore(a, b, objective) ==
    LET x == Primary(a, objective)[1]
        y == Primary(b, objective)[1]
    IN  \/ Greater(x, y)
        \/ x = y /\ Less(a.turnover[1], b.turnover[1])
        \/ x = y /\ a.turnover = b.turnover /\ Less(a.herfindahl[1], b.herfindahl[1])
        \/ x = y /\ a.turnover = b.turnover /\ a.herfindahl = b.herfindahl
             /\ a.configuration < b.configuration

RankScorecards(cards, objective) ==
    SortSeq(SelectSeq(cards, LAMBDA c : Rankable(c) /\ Primary(c, objective) # <<>>),
            LAMBDA a, b : RankedBefore(a, b, objective))

(* _select_common_oos_decision: the first of the ranking or nothing, and   *)
(* only where that configuration is feasible on the whole sample.          *)
SelectDecision(ranking, current) ==
    LET unavailable == [available |-> FALSE, winner |-> <<>>]
        found == OfConfiguration(current, ranking[1].configuration)
    IN  IF ranking = <<>> THEN unavailable
        ELSE IF ranking[1].completed < 2 \/ found = <<>> THEN unavailable
        ELSE [available |-> TRUE, winner |-> <<found[1]>>]

-----------------------------------------------------------------------------
(* validate_candidate_stress. The returns of a candidate come from a set   *)
(* of days in an order the process chooses; draws are the starts of the    *)
(* seeded blocks.                                                          *)

BlockLength == 5

BlockBootstrap(values, count, draws) ==
    LET size == Min({BlockLength, Len(values)})
        sampled == FlattenSeq([b \in DOMAIN draws |->
                       [o \in 1 .. size |-> values[1 + ((draws[b] + o - 1) % Len(values))]]])
    IN  SubSeq(sampled, 1, count)

ScenarioRow(row) ==
    [scenario |-> row.scenario, reason |-> row.reason,
     compounded_return |-> IF row.values = <<>> THEN <<>> ELSE <<TotalReturn(row.values)>>,
     max_drawdown |-> IF row.values = <<>> THEN <<>> ELSE <<DeepestDrawdown(row.values)>>,
     conditional_value_at_risk |-> IF row.values = <<>> THEN <<>> ELSE <<TailLoss(row.values)>>]

(* order: the days on which all holdings have a return, in any order.      *)
StressReturns(c, returns, order) ==
    IF ~IsFeasible(c) \/ \E l \in DOMAIN c.weights : l \notin DOMAIN returns THEN <<>>
    ELSE ReturnsOn(c, returns, order)

ScenarioValues(values, draws) ==
    <<[scenario |-> "historical", values |-> values, reason |-> "none"],
      [scenario |-> "seeded_block_bootstrap",
       values |-> BlockBootstrap(values, Len(values), draws), reason |-> "none"],
      [scenario |-> "distribution_cut", values |-> values, reason |-> "cash_flow_evidence_only"]>>

StressRows(c, returns, order, draws) ==
    LET values == StressReturns(c, returns, order)
        scenarios == ScenarioValues(values, draws)
        problem == IF ~IsFeasible(c) THEN "candidate_unavailable"
                   ELSE IF values = <<>> THEN "insufficient_return_history" ELSE "none"
    IN  [i \in DOMAIN scenarios |->
            IF problem = "none" THEN ScenarioRow(scenarios[i])
            ELSE ScenarioRow([scenarios[i] EXCEPT !.values = <<>>, !.reason = problem])]

-----------------------------------------------------------------------------
(* build_structural_walk_forward_evidence, on the refits and the splits of *)
(* the six methods.                                                        *)

CompleteRows(splits) == {i \in DOMAIN splits : splits[i].status = "complete"}

SplitsOf(splits, dates, start) ==
    {i \in CompleteRows(splits) : splits[i].train_end = dates[start]}

HasId(c, id) == IsFeasible(c) /\ [fit |-> c.fit, method |-> c.method, weights |-> c.weights] = id

StructuralError(candidates, returns, policy, refits, splits) ==
    LET dates == ValidationDates(candidates, returns)
        starts == IF Len(dates) < policy.train + policy.test THEN <<>>
                  ELSE Starts(Len(dates), policy)
        of(t) == SplitsOf(splits, dates, starts[t])
        windows == DOMAIN starts
    IN  CASE Len(starts) # Len(refits) -> "refit_count_mismatch"
          [] \E t \in windows : of(t) = {} -> "split_missing"
          [] \E t \in windows : \E i \in of(t) : splits[i].test_start <= dates[starts[t]] ->
                "future_leakage"
          [] \E t \in windows : \E i \in of(t) : splits[i].train_start # dates[1] ->
                "calendar_mismatch"
          [] \E t \in windows : \E i \in of(t) :
                ~\E j \in DOMAIN refits[t] : HasId(refits[t][j], splits[i].id) ->
                "refitted_candidate_missing"
          [] UNION {of(t) : t \in windows} # CompleteRows(splits) -> "unmatched_completed_split"
          [] OTHER -> "none"

(* One row for each completed split, with the model of its training days.  *)
StructuralEvidence(snapshot, candidates, returns, policy, splits) ==
    LET dates == ValidationDates(candidates, returns)
        starts == Starts(Len(dates), policy)
    IN  UNION {{[split |-> i, test_start |-> splits[i].test_start,
                 model |-> SplitModel(snapshot, returns, dates, starts[t], LW_FULL)] :
                    i \in SplitsOf(splits, dates, starts[t])} : t \in DOMAIN starts}

-----------------------------------------------------------------------------
(* What must hold. A study s has the returns, the rows of the selection,   *)
(* the policies, the configurations and what solvers answer at each start  *)
(* (s.answer[t]) and on the whole sample (s.answer[0]). Models are fitted  *)
(* to it, then candidates. s.otherwise has the same returns up to the last *)
(* training day and different ones after it.                               *)

Otherwise(returns, last) ==
    [l \in DOMAIN returns |->
        [d \in DOMAIN returns[l] |-> IF d <= last THEN returns[l][d] ELSE 1 - returns[l][d]]]

Prepared(s) ==
    LET snapshot == ComputeInputs(s.rows, s.returns)
        dates == Ascending(CommonDates(s.returns, Range(snapshot.keys)))
    IN  s @@ [snapshot |-> snapshot, dates |-> dates, starts |-> Starts(Len(dates), s.policy)]

ModelsOf(s, returns) ==
    [t \in DOMAIN s.starts |->
        [spec \in Range(s.specs) |-> SplitModel(s.snapshot, returns, s.dates, s.starts[t], spec)]]

WithModels(s) ==
    LET otherwise == Otherwise(s.returns, s.dates[s.starts[Len(s.starts)]])
    IN  s @@ [otherwise |-> otherwise, models |-> ModelsOf(s, s.returns),
              modelsOtherwise |-> ModelsOf(s, otherwise),
              currentModels |-> [spec \in Range(s.specs) |->
                                    BuildRiskModel(s.snapshot, s.returns, spec)]]

FamiliesOf(s, models, returns) ==
    [t \in DOMAIN s.starts |->
        SplitFamily(s.snapshot, models[t], returns, s.dates[s.starts[t]], s.income, s.weights,
                    s.configurations, s.answer[t])]

WithFamilies(s) ==
    s @@ [families |-> FamiliesOf(s, s.models, s.returns),
          familiesOtherwise |-> FamiliesOf(s, s.modelsOtherwise, s.otherwise),
          current |-> FamilyFrom(s.snapshot, s.currentModels, s.returns, s.income, s.weights,
                                 s.configurations, s.answer[0])]

(* No number of a window, and no portfolio measured in it, depends on a    *)
(* return that came later.                                                 *)
LooksBackOnly(s) ==
    LET before == (Len(s.starts) - 1) * Len(s.configurations)
    IN  /\ ValidationError(s.families[1], s.returns, s.policy, s.families) = "none"
        /\ SubSeq(s.splitsOtherwise, 1, before) = SubSeq(s.splits, 1, before)
        /\ \A i \in DOMAIN s.splits : s.splits[i].status = "complete" =>
              /\ s.splitsOtherwise[i].weights = s.splits[i].weights
              /\ s.splits[i].train_end < s.splits[i].test_start

WithSplits(s) ==
    s @@ [splits |-> ValidateCandidates(s.families[1], s.returns, s.policy, s.families),
          splitsOtherwise |-> ValidateCandidates(s.familiesOtherwise[1], s.otherwise, s.policy,
                                                 s.familiesOtherwise)]

(* Only a configuration with a result in every window is ranked, so all    *)
(* are compared over the same days; no ranked one has a better score than  *)
(* the first; what is decided on is that one or nothing. Turnovers are     *)
(* those of one path: together at least the way from its first to its last *)
(* portfolio.                                                              *)
SelectionIsEarned(s, objective) ==
    LET cards == Scorecards(s.splits, s.configurations, s.policy.splits)
        ranking == RankScorecards(cards, objective)
        decision == SelectDecision(ranking, s.current)
        done(k) == SelectSeq(s.splits, LAMBDA r : r.configuration = k /\ r.status = "complete")
        windows(k) == {done(k)[i].test_start : i \in DOMAIN done(k)}
    IN  /\ \A i, j \in DOMAIN ranking :
              /\ windows(ranking[i].configuration) = windows(ranking[j].configuration)
              /\ Cardinality(windows(ranking[i].configuration)) >= Max({s.policy.splits, 2})
              /\ ~RankedBefore(ranking[j], ranking[1], objective)
        /\ decision.available <=>
              ranking # <<>> /\ IsFeasible(s.current[ranking[1].configuration])
        /\ decision.available => decision.winner[1].configuration = ranking[1].configuration
        /\ \A k \in DOMAIN s.configurations : LET d == done(k) IN d # <<>> =>
              /\ d[1].turnover = One
              /\ AtMost(TurnoverBetween(d[1].weights, d[Len(d)].weights),
                        Sum([i \in 2 .. Len(d) |-> d[i].turnover]))

(* Windows follow one another and never overlap; thinning keeps the first  *)
(* and the last, and however many workers share the refits, the sets come  *)
(* back in the order of the starts.                                        *)
StartsAreSpread(n, policy, workers) ==
    LET starts == Starts(n, policy)
        all == Starts(n, [policy EXCEPT !.refits = n + 1])
        batches == RefitBatches(starts, workers)
        results == [b \in DOMAIN batches |->
                       [k \in DOMAIN batches[b] |-> <<batches[b][k], {batches[b][k]}>>]]
    IN  /\ starts = <<>> <=> n < policy.train + policy.test
        /\ Len(starts) = Min({Len(all), policy.refits})
        /\ starts # <<>> => starts[1] = policy.train /\ starts[Len(starts)] = all[Len(all)]
        /\ \A i, j \in DOMAIN starts : i < j => starts[i] + policy.test <= starts[j]
        /\ OrderedRefits(results) = [k \in DOMAIN starts |-> {starts[k]}]

(* The structural evidence covers each completed split once, with a model  *)
(* of earlier days; one window in which no method is feasible is enough to *)
(* fail the whole run.                                                     *)
StructureIsOfTrainingDays(s) ==
    LET splits == ValidateCandidates(s.current, s.returns, s.policy, s.families)
        error == StructuralError(s.current, s.returns, s.policy, s.families, splits)
        evidence == StructuralEvidence(s.snapshot, s.current, s.returns, s.policy, splits)
    IN  (\E i \in DOMAIN s.current : IsFeasible(s.current[i])) =>
        /\ error # "none" <=>
              \E t \in DOMAIN s.families : \A i \in DOMAIN s.families[t] :
                  ~IsFeasible(s.families[t][i])
        /\ error = "none" =>
              /\ {e.split : e \in evidence} = CompleteRows(splits)
              /\ Cardinality(evidence) = Cardinality(CompleteRows(splits))
              /\ \A e \in evidence : \A d \in e.model.dates : d < e.test_start

(* Whatever order the days come in, the scenarios compound the same        *)
(* returns and lose the same in the tail, a resampled history has the      *)
(* length of the one observed, and a drawdown is no deeper than the sum of *)
(* the losses could make it.                                               *)
StressKeepsReturns(c, returns, order, draws) ==
    LET rows == StressRows(c, returns, order, draws)
        sorted == StressRows(c, returns, Ascending(Range(order)), draws)
        values == StressReturns(c, returns, order)
        losses == Compounded(values, {t \in DOMAIN values : values[t] < 0})
    IN  \A i \in DOMAIN rows :
            /\ i # 2 => /\ rows[i].compounded_return = sorted[i].compounded_return
                        /\ rows[i].conditional_value_at_risk =
                              sorted[i].conditional_value_at_risk
            /\ rows[i].max_drawdown = <<>> <=>
                  rows[i].reason \in {"candidate_unavailable", "insufficient_return_history"}
            /\ i # 2 /\ rows[i].max_drawdown # <<>> =>
                  /\ AtMost(Minus(losses, One), rows[i].max_drawdown[1])
                  /\ AtMost(rows[i].max_drawdown[1], Zero)
=============================================================================
