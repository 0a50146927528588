---------------------------- MODULE MCAlgorithms ----------------------------
(***************************************************************************)
(* Checks the pure calculations against what defines their results, on all *)
(* the inputs of small sets. A state is one sample; a sample is drawn,     *)
(* judged by the invariants, and put back.                                 *)
(***************************************************************************)
EXTENDS Recommendation, Income, PairStatistics, QuoteIndex, SequencesExt

VARIABLE sample

HalfDecay == Frac(1, 2)

SmallProfile == [train |-> 2, test |-> 1, splits |-> 3, max |-> 4]

Nothing == [of |-> "nothing"]
Idle == sample = Nothing
Take(drawn) == sample' = drawn
Judged(kind) == sample.of = kind /\ sample' = Nothing

-----------------------------------------------------------------------------
(* Portfolio problems: two or three listings, an ISIN on two exchanges,    *)
(* variances that are squares, gaps in the covariances.                    *)

Isins == {<<1, 2>>, <<1, 1>>, <<1, 2, 3>>, <<1, 1, 2>>}

Covariances(n) ==
    {[ij \in (1 .. n) \X (1 .. n) |->
         IF ij[1] = ij[2] THEN (IF ij[1] = 1 THEN 1 ELSE 4)
         ELSE IF ij \in {<<1, 2>>, <<2, 1>>} THEN shared ELSE 0] : shared \in {-1, 0, 2}}
    \cup {[ij \in (1 .. n) \X (1 .. n) |-> 0]}

Gaps == {[absent |-> {}, broken |-> {}],
         [absent |-> {<<1, 2>>}, broken |-> {<<1, 2>>}],
         [absent |-> {}, broken |-> {<<2, 2>>}]}

Problems ==
    UNION {{[isin |-> isin, mean |-> [s \in 1 .. 3 |-> IF s = 1 THEN 2 ELSE 3 - 2 * s],
             cov |-> cov, absent |-> gap.absent, broken |-> gap.broken] :
                cov \in Covariances(Len(isin)), gap \in Gaps} : isin \in Isins}

Bounds == {[min |-> 0, max |-> 6], [min |-> 1, max |-> 4]}

Answers(n) ==
    {[weights |-> w, converged |-> v] : v \in BOOLEAN,
        w \in {[i \in 1 .. n |-> 6 \div n], [i \in 1 .. n |-> IF i = 1 THEN 6 ELSE 0]}}

Requests(n) ==
    LET request(o, m, k, g, s) ==
            [objective |-> o, mode |-> m, steps |-> k, gridGiven |-> g, riskFree |-> 1,
             target |-> 1, targetGiven |-> g, solver |-> s]
        all == GridObjectives \cup {"equal_weight", "maximum_return"}
        some == CHOOSE s \in Answers(n) : s.converged
    IN  {request(o, m, k, g, some) :
            o \in all, m \in {"baseline", "production"}, k \in 1 .. 3, g \in BOOLEAN}
        \cup {request(o, "production", 3, TRUE, s) :
                 o \in SolverBackedObjectives, s \in Answers(n)}

DrawPortfolio ==
    Idle /\ \E p \in Problems, c \in Bounds : \E r \in Requests(Len(p.isin)) :
        /\ p.absent \cup p.broken # {} => c.min = 0 /\ r.steps = 2
        /\ r.gridGiven \/ r.steps = 3
        /\ Take([of |-> "portfolio", p |-> p, c |-> c, r |-> r])

(* What an optimised portfolio's diagnostics say of it is true, and its    *)
(* weights are the best of the grid; see ReportsAreTrue and                *)
(* ChoiceIsOptimal (optimize_portfolio, _grid_weights,                     *)
(* build_optimizer_diagnostics, build_risk_contribution_rows).             *)
OptimizerIsHonest ==
    [][Judged("portfolio") =>
          /\ ReportsAreTrue(sample.p, sample.c, sample.r)
          /\ ChoiceIsOptimal(sample.p, sample.c, sample.r)]_sample

-----------------------------------------------------------------------------
(* Distances between up to four leaves with ties, and their covariances.   *)

LeafPairs(n) == {k \in (0 .. n - 1) \X (0 .. n - 1) : k[1] < k[2]}

LeafCovariances(n, kind) ==
    [ij \in (0 .. n - 1) \X (0 .. n - 1) |->
        CASE kind = "flat" -> 0
          [] kind # "flat" /\ ij[1] = ij[2] -> ij[1] + 1
          [] OTHER -> IF kind = "alone" THEN 0
                      ELSE IF kind = "opposed" /\ {ij[1], ij[2]} = {0, 1} THEN -1 ELSE 1]

DrawTree ==
    Idle /\ \E n \in 1 .. 4 : \E kind \in IF n = 4 THEN {"opposed"} ELSE {"flat", "alone", "opposed"} :
    \E distance \in [LeafPairs(n) -> 1 .. 3] :
        Take([of |-> "tree", n |-> n, distance |-> distance, cov |-> LeafCovariances(n, kind)])

-----------------------------------------------------------------------------
(* Values to project, days to measure, rounds of a loop, weights to climb. *)

DrawSimplex ==
    Idle /\ \E values \in [1 .. 3 -> -2 .. 3], b \in {<<0, 4>>, <<1, 4>>, <<2, 2>>} :
        Take([of |-> "simplex", values |-> values, lo |-> b[1], hi |-> b[2]])

Mixes == {<<0, 2>>, <<1, 1>>, <<2, 0>>}

DrawTail ==
    Idle /\ \E scenarios \in [1 .. 3 -> [1 .. 2 -> {-2, 0, 1}]], percent \in {50, 70}, w \in Mixes :
        Take([of |-> "tail", scenarios |-> scenarios, percent |-> percent, w |-> w])

DrawLoop ==
    Idle /\ \E n \in 0 .. 3 : \E rounds \in [1 .. n -> [objective : {0, 8, 9, 10}, still : BOOLEAN]] :
        Take([of |-> "loop", rounds |-> rounds])

DrawSlope ==
    Idle /\ \E w \in [1 .. 3 -> -1 .. 2], kind \in {"alone", "opposed"} :
        Take([of |-> "slope", w |-> w,
              cov |-> [ij \in (1 .. 3) \X (1 .. 3) |->
                          LeafCovariances(3, kind)[<<ij[1] - 1, ij[2] - 1>>]]])

(* The tree is the single linkage of the distances, the weights follow its *)
(* splits, and the solvers' parts keep what the solvers rely on; see       *)
(* TreeIsSingleLinkage, BisectionAllocatesRisk, ProjectionMeetsTotal,      *)
(* GradientIsDerivative, TailRiskIsConvex and LoopsKeepTheBest             *)
(* (single_linkage, recursive_bisection, project_capped_simplex,           *)
(* equal_risk_contribution_gradient, cvar_subgradient, solve_minimum_cvar).*)
SolversAreSound ==
    [][/\ Judged("tree") =>
             /\ TreeIsSingleLinkage(sample.distance, sample.n)
             /\ BisectionAllocatesRisk(sample.distance, sample.n, sample.cov)
       /\ Judged("simplex") =>
             ProjectionMeetsTotal(sample.values, sample.lo, sample.hi, 6, 4)
       /\ Judged("tail") =>
             TailRiskIsConvex(sample.scenarios, sample.w, sample.percent, Mixes)
       /\ Judged("loop") => LoopsKeepTheBest(9, sample.rounds, 5, 2)
       /\ Judged("slope") => GradientIsDerivative(sample.w, sample.cov)]_sample

-----------------------------------------------------------------------------
(* Returns in percent of two listings on six days, two to a month.         *)

Calendar == [t \in 1 .. 6 |-> <<2024, (t + 1) \div 2, t>>]

Histories ==
    {<<[t \in 1 .. 6 |-> first[1 + (t % 3)]], [t \in (1 .. 6) \ gap |-> second[1 + (t % 2)]]>> :
        first \in {<<10, -50, 100>>, <<0, 20, -100>>}, second \in {<<-10, 25>>, <<50, 0>>},
        gap \in {{}, {2}}}

GridRequest(objective, steps) ==
    [objective |-> objective, mode |-> "baseline", steps |-> steps, gridGiven |-> TRUE,
     riskFree |-> 0, target |-> 0, targetGiven |-> FALSE,
     solver |-> [weights |-> <<3, 3>>, converged |-> TRUE]]

DrawSplits ==
    Idle /\ \E returns \in Histories, train \in {1, 2, 3}, test \in {1, 2},
       mode \in {"rolling", "expanding"}, profile \in {"development", "production"},
       max \in {4, 6}, objective \in {"minimum_variance", "maximum_sharpe", "equal_weight"} :
        Take([of |-> "splits", m |-> ReturnMatrix(<<1, 2>>, Calendar, returns),
              w |-> [train |-> train, test |-> test, mode |-> mode, profile |-> profile,
                     cost |-> 10, c |-> [min |-> 0, max |-> max],
                     r |-> GridRequest(objective, 3)]])

DrawPlan ==
    Idle /\ \E first \in [1 .. 4 -> {-50, 100}], second \in {<<0, 100, -100, 50>>, <<-50, 0, 0, -50>>},
       isin \in {<<1, 2>>, <<1, 1>>},
       schedule \in {"monthly", "quarterly", "annual", "threshold"},
       cost \in {0, 10}, threshold \in {<<>>, <<Frac(1, 4)>>, <<Zero>>}, share \in 0 .. 2 :
        Take([of |-> "plan",
              m |-> ReturnMatrix(isin, [t \in 1 .. 4 |-> Calendar[t + 1]], <<first, second>>),
              plan |-> [target |-> IF isin = <<1, 2>>
                                   THEN <<Frac(share, 2), Frac(2 - share, 2)>> ELSE <<One>>,
                        schedule |-> schedule, cost |-> cost, threshold |-> threshold]])

DrawTargets ==
    Idle /\ \E returns \in Histories, max \in {4, 6}, steps \in {1, 2, 3} :
        Take([of |-> "targets", m |-> ReturnMatrix(<<1, 2>>, Calendar, returns),
              c |-> [min |-> 0, max |-> max], r |-> GridRequest("minimum_variance", steps)])

(* A day's returns in percent; where a block of the bootstrap starts.      *)
DrawReplay ==
    Idle /\ \E days \in [1 .. 4 -> {<<-50, 20>>, <<10, -20>>, <<0, 40>>}], isin \in {<<1, 2>>, <<1, 1>>},
       length \in 1 .. 5, share \in {0, 2}, starts \in {<<1, 1>>, <<2, 1>>} :
        /\ share = 2 \/ length = 3
        /\ Take([of |-> "replay", length |-> length, percent |-> IF length = 2 THEN 70 ELSE 50,
                 w |-> IF isin = <<1, 1>> THEN <<Unit>> ELSE <<share, Unit - share>>,
                 draws |-> [k \in 1 .. 4 |-> Min({starts[1 + (k % 2)], Max({1, 5 - length})})],
                 m |-> [isin |-> isin, dates |-> [t \in 1 .. 4 |-> Calendar[t]], ret |-> days]])

(* Simulated portfolios are judged by what their days could know, neither  *)
(* make nor lose money, and are stressed by what did happen; see           *)
(* LooksOnlyBack, RebalancingConservesValue, DrawdownsMeasurePeaks,        *)
(* FrontierIsMonotone, ReplaysHold and ConvergenceIsAdverse                *)
(* (build_walk_forward_backtest, build_rebalance_events, build_drawdowns,  *)
(* build_efficient_frontier, stress.py).                                   *)
EvaluationIsHonest ==
    [][/\ Judged("splits") => LooksOnlyBack(sample.m, sample.w)
       /\ Judged("plan") =>
             /\ RebalancingConservesValue(sample.m, sample.plan)
             /\ DrawdownsMeasurePeaks(PortfolioReturns(sample.m, sample.plan.target))
       /\ Judged("targets") =>
             FrontierIsMonotone(EfficientFrontier(sample.m, sample.c, sample.r,
                                                  [k \in 1 .. 5 |-> 60 * (k - 2)]))
       /\ Judged("replay") =>
             ReplaysHold(sample.m, sample.w, sample.length, sample.draws, sample.percent)
       /\ Judged("covariance") =>
             /\ ConvergenceIsAdverse([i \in DOMAIN sample.deviation |-> i], sample.cov)
             /\ ConvergenceIsAdverse([i \in DOMAIN sample.deviation |-> i - 1], sample.cov)]_sample

-----------------------------------------------------------------------------
(* Returns, in halves, of up to three listings on days of two years with   *)
(* gaps; rows the policy refuses and rows that are there twice.            *)

RiskDays == <<20241129, 20241230, 20241231, 20250102>>
LaterDay == 20250103

Series(values, gap) ==
    [d \in {RiskDays[t] : t \in DOMAIN values \ gap} |->
        values[CHOOSE t \in DOMAIN values : RiskDays[t] = d]]

RiskReturns ==
    {<<Series(first, {}), Series(second, gap), Series(<<1, 0, -2, 1>>, {})>> :
        first \in {<<2, 0, -2, 0>>, <<0, 0, 0, 0>>, <<-1, 0, 2, -1>>},
        second \in {<<-1, 4, 2, -1>>, <<2, 0, -2, 0>>}, gap \in {{}, {2}, {1, 2, 3}}}

Kinds == {"etf", "stock", "yearly", "no_quotes"}
SelectionRow(l, kind) ==
    [listing |-> l, etf |-> kind # "stock", frequencyAllowed |-> kind # "yearly",
     quotesEligible |-> kind # "no_quotes"]

DrawSelection ==
    Idle /\ \E returns \in RiskReturns, n \in 0 .. 3 :
    \E listings \in [1 .. n -> 1 .. 3], kind \in Kinds :
        /\ n = 0 => kind = "etf"
        /\ Take([of |-> "selection", returns |-> returns,
                 rows |-> [i \in 1 .. n |->
                              SelectionRow(listings[i], IF i = n THEN kind ELSE "etf")]])

DrawEstimate ==
    Idle /\ \E first \in [1 .. 3 -> {-1, 2}], second \in [1 .. 4 -> {0, 2}], gap \in {{}, {1}, {2, 3}},
       spec \in Range(ProductionSpecs) :
        Take([of |-> "estimate", spec |-> spec,
              returns |-> <<Series(first, {}), Series(second, gap)>>])

(* Answers of a solver on the bounded weights of n listings.               *)
BoundedWeights(n, policy) ==
    {w \in [1 .. n -> policy.min .. policy.max] : SumFunction(w) = Unit}

CandidatePolicies ==
    {[holdings |-> 2, min |-> 0, max |-> 6, percent |-> 50],
     [holdings |-> 2, min |-> 1, max |-> 3, percent |-> 70],
     [holdings |-> 3, min |-> 0, max |-> 2, percent |-> 50]}

DrawCandidate ==
    Idle /\ \E returns \in RiskReturns, n \in 1 .. 3, policy \in CandidatePolicies,
       method \in {"equal_weight", "inverse_volatility", "minimum_variance"},
       converged \in BOOLEAN, spec \in Range(ProductionSpecs) :
    \E w \in IF n = 1 \/ BoundedWeights(n, policy) = {} THEN {[l \in 1 .. n |-> 0]}
             ELSE {w \in BoundedWeights(n, policy) : w[1] \in {1, 3, 6}} :
        /\ method = "equal_weight" => w[1] \in {0, 1}
        /\ converged \/ method = "minimum_variance"
        /\ n = 3 => spec = EWMA_094
        /\ Take([of |-> "candidate", returns |-> returns, spec |-> spec, policy |-> policy,
                 rows |-> [i \in 1 .. n |-> SelectionRow(n + 1 - i, "etf")], method |-> method,
                 income |-> [l \in 1 .. 3 |-> IF w[1] = 3 /\ l = n THEN <<>> ELSE <<Frac(l, 10)>>],
                 answer |-> [converged |-> converged, weights |-> w]])

(* Models whose variances are squares, of two or three listings.           *)
StressModels ==
    UNION {{[listings |-> [i \in 1 .. n |-> i], reasons |-> r, dates |-> {}, spec |-> "LW_FULL",
             cov |-> [ij \in (1 .. n) \X (1 .. n) |->
                         Whole(IF ij[1] = ij[2] THEN d[ij[1]] * d[ij[1]]
                               ELSE IF {ij[1], ij[2]} = {1, 2} THEN c ELSE 0)],
             deviation |-> d] :
              c \in -2 .. 2, d \in {[i \in 1 .. n |-> i], [i \in 1 .. n |-> 2 - (i % 2)],
                                    [i \in 1 .. n |-> i - 1]},
              r \in {{}, {"unstable_condition_number"}}} : n \in 2 .. 3}

Estimated(model) ==
    model.reasons # {} \/ IsPositiveSemidefinite(model.cov, Range(model.listings))

DrawStress ==
    Idle /\ \E model \in {model \in StressModels : Estimated(model)} :
    \E w \in {w \in [Range(model.listings) -> 0 .. 6] : SumFunction(w) = Unit},
       cluster \in [Range(model.listings) -> 1 .. 2], status \in {"feasible", "unavailable"} :
        /\ model.reasons # {} \/ status # "feasible" => w[1] = 6 /\ cluster[1] = 1
        /\ Take([of |-> "stress", model |-> model, deviation |-> model.deviation,
                 cluster |-> cluster,
                 candidate |-> [status |-> status,
                                weights |-> IF status = "feasible" THEN w ELSE <<>>]])

PipelineAddsUp(s) ==
    LET snapshot == ComputeInputs(s.rows, s.returns)
    IN  CandidateAddsUp(snapshot, BuildRiskModel(snapshot, s.returns, s.spec), s.returns,
                        s.income, s.policy, s.method, s.answer)

(* From a selection's rows to its candidates and their stress every number *)
(* shown is of the same listings and days and adds up; see SnapshotIsWhole,*)
(* EstimateIsSound, CandidateAddsUp and StressIsAdverse                    *)
(* (build_multivariate_input_snapshot, estimate_risk_model,                *)
(* build_candidate_set, build_candidate_risk_stress).                      *)
CandidatesAreSound ==
    [][/\ Judged("selection") => SnapshotIsWhole(sample.rows, sample.returns)
       /\ Judged("estimate") =>
             EstimateIsSound(sample.returns, {1, 2}, sample.spec, LaterDay)
       /\ Judged("candidate") => PipelineAddsUp(sample)
       /\ Judged("stress") =>
             StressIsAdverse(sample.model, sample.candidate, sample.deviation,
                             sample.cluster)]_sample

-----------------------------------------------------------------------------
(* Studies of two listings over eight days: three windows of two days.     *)
(* Pairs of their returns make every mean a whole number.                  *)

StudyDays == <<20241128, 20241129, 20241230, 20241231, 20250102, 20250103, 20250203, 20250204>>

StudySeries(values) ==
    [d \in Range(StudyDays) |-> values[CHOOSE t \in 1 .. 8 : StudyDays[t] = d]]

StudyPolicy == [train |-> 2, test |-> 2, refits |-> 3, splits |-> 2, rate |-> Frac(1, 10)]

StudyConfigurations ==
    SelectSeq(Configurations, LAMBDA c : c.method \in {"equal_weight", "minimum_variance"})
DescriptiveConfigurations ==
    SelectSeq(StudyConfigurations, LAMBDA c : c.spec = LW_FULL)

(* Solver i answers at start t (0: the whole sample); bad[1] is the start  *)
(* at which solver bad[2] does not converge.                               *)
AnswerAt(t, tilt, bad, n) ==
    [i \in 1 .. n |-> LET share == 1 + ((t + i * tilt) % 5)
                      IN  [converged |-> <<t, i>> # bad, weights |-> <<share, 6 - share>>]]

Study(first, second, tilt, bad, configurations) ==
    [of |-> "inputs", returns |-> <<StudySeries(first), StudySeries(second)>>,
     rows |-> [i \in 1 .. 2 |-> SelectionRow(i, "etf")], policy |-> StudyPolicy,
     weights |-> [holdings |-> 2, min |-> 0, max |-> 6, percent |-> 50],
     income |-> <<<<One>>, <<>>>>, configurations |-> configurations,
     specs |-> IF configurations = StudyConfigurations THEN ProductionSpecs ELSE <<LW_FULL>>,
     answer |-> [t \in 0 .. 3 |-> AnswerAt(t, tilt, bad, Len(configurations))]]

FirstSeries == {<<2, 0, 1, 1, 0, 2, -1, 3>>, <<-1, 1, 0, 0, 1, -1, 1, -1>>}
SecondSeries ==
    {<<1, 1, 0, 2, -1, 3, 2, 0>>, <<2, 0, -1, -1, 0, 0, 1, -1>>, <<1, -1, 3, 1, 0, 2, 2, 0>>}

DrawStudy ==
    Idle /\ \E first \in FirstSeries, second \in SecondSeries, tilt \in 1 .. 2,
       bad \in {<<9, 9>>, <<0, 2>>, <<2, 3>>, <<2, 2>>},
       configurations \in {StudyConfigurations, DescriptiveConfigurations} :
        Take(Prepared(Study(first, second, tilt, bad, configurations)))

FitModels ==
    /\ sample.of = "inputs" /\ sample.snapshot.reasons = {} /\ sample.starts # <<>>
    /\ sample' = WithModels([sample EXCEPT !.of = "models"])

FitFamilies ==
    /\ sample.of = "models"
    /\ sample' = WithFamilies([sample EXCEPT !.of = "families"])

MeasureSplits ==
    /\ sample.of = "families"
    /\ sample' = WithSplits([sample EXCEPT !.of = "study"])

DrawStarts ==
    Idle /\ \E n \in 0 .. 14, train \in 1 .. 4, test \in 1 .. 3, refits \in 2 .. 5, workers \in 1 .. 4 :
        Take([of |-> "starts", n |-> n, workers |-> workers,
              policy |-> [StudyPolicy EXCEPT !.train = train, !.test = test, !.refits = refits]])

(* A candidate, its listings' returns and an order of the days.            *)
StressDays == {<<20241230, 20241231>>, <<20241230, 20241231, 20250102>>}
Orders(days) == {o \in [DOMAIN days -> Range(days)] : IsInjective(o)}

DrawScenario ==
    Idle /\ \E days \in StressDays, status \in {"feasible", "unavailable"}, w \in {0, 2},
       held \in {{1, 2}, {1, 3}} :
    \E first \in [Range(days) -> {-1, 0, 2}], last \in {-1, 1}, order \in Orders(days) :
        /\ (status = "feasible" /\ held = {1, 2}) \/ (w = 0 /\ last = 1)
        /\ Take([of |-> "scenario", order |-> order, draws |-> <<1>>,
                 returns |-> <<first, [d \in Range(days) |->
                                          CASE d = Min(Range(days)) -> -1
                                            [] d = Max(Range(days)) -> last
                                            [] OTHER -> 1]>>,
                 candidate |-> [status |-> status,
                                weights |-> [l \in held |-> IF l = 1 THEN w ELSE Unit - w]]])

(* The stress evidence of a candidate does not depend on the order its     *)
(* days are taken in (validate_candidate_stress: "Produce deterministic    *)
(* scenario evidence without changing source observations.").              *)
StressIsDeterministic ==
    sample.of = "scenario" =>
        StressRows(sample.candidate, sample.returns, sample.order, sample.draws) =
            StressRows(sample.candidate, sample.returns, Ascending(Range(sample.order)),
                       sample.draws)

(* The portfolio decided on was best over the same days for all, measured  *)
(* only on days after those it was fitted to; see LooksBackOnly,           *)
(* SelectionIsEarned, StartsAreSpread, StructureIsOfTrainingDays and       *)
(* StressKeepsReturns (validate_candidates, build_risk_model_comparison,   *)
(* rank_configuration_scorecards, build_refitted_candidate_sets,           *)
(* build_structural_walk_forward_evidence, validate_candidate_stress).     *)
DecisionsAreEarned ==
    [][/\ Judged("study") =>
             /\ LooksBackOnly(sample)
             /\ \A objective \in Objectives : SelectionIsEarned(sample, objective)
             /\ sample.specs = <<LW_FULL>> => StructureIsOfTrainingDays(sample)
       /\ Judged("scenario") =>
             StressKeepsReturns(sample.candidate, sample.returns, sample.order, sample.draws)
       /\ Judged("starts") => StartsAreSpread(sample.n, sample.policy, sample.workers)]_sample

-----------------------------------------------------------------------------
(* Rows of a provider: three months of three days, corrections by any of   *)
(* the identifiers; rows that are no event.                                *)

ProviderRows ==
    [event : {<<>>, <<1>>, <<2>>}, id : {<<>>, <<1>>}, original : {<<>>, <<1>>},
     revision : {<<>>, <<1>>, <<2>>}, deleted : BOOLEAN]

RowsFrom(keys) ==
    [i \in DOMAIN keys |->
        keys[i] @@ [paid |-> IF i = 1 THEN <<4>> ELSE <<>>, dated |-> <<i>>, readable |-> TRUE,
                    amount |-> i, split |-> IF i = 2 THEN Zero ELSE Whole(2), currency |-> 1]]

DrawRows ==
    Idle /\ \E n \in 1 .. 3 : \E keys \in [1 .. n -> ProviderRows] :
        /\ n = 3 => \A i \in 1 .. 3 : /\ keys[i].id = <<1>> /\ keys[i].original = <<>>
                                       /\ keys[i].revision # <<>>
        /\ Take([of |-> "rows", rows |-> RowsFrom(keys)])

PaidEvents(paid, second) ==
    {[day |-> 3 * m + 1, amount |-> Whole(paid[m]), currency |-> 1, source |-> m, logical |-> m,
      split |-> One, fallback |-> FALSE] : m \in {m \in DOMAIN paid : paid[m] > 0}}
    \cup {[day |-> 3 * m + 2, amount |-> Frac(1, 2), currency |-> m, source |-> 9,
           logical |-> 9, split |-> Frac(1, 2), fallback |-> TRUE] : m \in second}

DrawIncome ==
    Idle /\ \E paid \in [0 .. 3 -> 0 .. 3], second \in {{}, {1}, {2}}, start \in {0, 3},
            end \in {8, 12}, price \in {0, 2, 3}, startPrice \in {0, 2} :
        /\ price > 0 \/ (startPrice = 0 /\ start = 0)
        /\ Take([of |-> "income", events |-> PaidEvents(paid, second), start |-> start,
                 end |-> end, price |-> price, startPrice |-> startPrice])

(* Corrections replace what they correct in any order, and the evidence    *)
(* adds up to the payments made; see CorrectionsHold and EvidenceAddsUp    *)
(* (normalize_distribution_events, build_income_evidence).                 *)
IncomeIsSound ==
    [][/\ Judged("rows") => CorrectionsHold(sample.rows)
       /\ Judged("income") => EvidenceAddsUp(sample.events, sample.start, sample.end,
                                             sample.price, sample.startPrice)]_sample

-----------------------------------------------------------------------------
(* Log returns of two listings on up to nine days; rows of pairs of four   *)
(* listings, with values in percent; covariances of three.                 *)

Repeated(pattern, n) == [t \in 1 .. n |-> pattern[1 + ((t - 1) % Len(pattern))]]

DrawPair ==
    Idle /\ \E n \in 0 .. 9, left \in [1 .. 3 -> {-6, 0, 2}], right \in [1 .. 4 -> {-4, 1}] :
        Take([of |-> "pair", left |-> Repeated(left, n),
              right |-> IF right = <<1, 1, 1, 1>> THEN Repeated(left, n) ELSE Repeated(right, n)])

PairChains == {<<<<1, 2>>, <<2, 3>>, <<3, 4>>>>, <<<<1, 2>>, <<3, 4>>>>,
               <<<<1, 2>>, <<1, 3>>, <<2, 3>>, <<2, 4>>>>}

PairRow(pair, i, own, other) ==
    [left |-> pair[1], right |-> pair[2],
     of |-> [metric \in {"spearman", "downside", "tail", "rolling", "overlap"} |-> own]
            @@ [metric \in {"pearson", "coexceedance", "stability", "severity"} |-> other]
            @@ [metric \in {"n", "downside_count", "tail_count", "overlap_count"} |-> <<5 + i>>]
            @@ [switches |-> <<i % 2>>]]

DrawDiagnostics ==
    Idle /\ \E pairs \in PairChains : \E own \in [DOMAIN pairs -> {<<>>, <<-5>>, <<30>>, <<75>>}],
       other \in {<<<<>>, <<20>>>>, <<<<95>>, <<20>>>>} :
        Take([of |-> "diagnostics", metric |-> "tail", threshold |-> 30,
              rows |-> [i \in DOMAIN pairs |-> PairRow(pairs[i], i, own[i], other[1 + (i % 2)])]])

DrawCovariance ==
    Idle /\ \E n \in 1 .. 3 : \E d \in [1 .. n -> 0 .. 2], c \in [LeafPairs(n) -> -1 .. 1] :
        Take([of |-> "covariance", deviation |-> d,
              cov |-> [ij \in (1 .. n) \X (1 .. n) |->
                          d[ij[1]] * d[ij[2]] *
                              (IF ij[1] = ij[2] THEN 1
                               ELSE c[<<Min({ij[1], ij[2]}) - 1, Max({ij[1], ij[2]}) - 1>>])]])

(* What is measured of two listings does not depend on which is left, and  *)
(* what the page says of all pairs follows from the pairs; see             *)
(* PairMeasuresHold, DiagnosticsHold and RiskIsShared                      *)
(* (_build_bivariate_pair_statistics, bivariate_diagnostics.py).           *)
PairsAreSound ==
    [][/\ Judged("pair") => PairMeasuresHold(sample.left, sample.right)
       /\ Judged("diagnostics") =>
             DiagnosticsHold(sample.rows, sample.metric, sample.threshold)
       /\ Judged("covariance") => RiskIsShared(sample.cov, sample.deviation)]_sample

-----------------------------------------------------------------------------
(* Quotes on up to five days: dates that repeat or leave days out, prices  *)
(* that are not positive, stand still or move by half or double.           *)

Dated(dates, prices) == [k \in DOMAIN dates |-> [date |-> dates[k], price |-> prices[k]]]

DrawQuotes ==
    Idle /\ \E n \in 0 .. 5, prices \in [1 .. 5 -> 0 .. 2],
       dates \in {<<1, 2, 3, 4, 5>>, <<1, 2, 2, 3, 4>>, <<1, 3, 4, 6, 6>>, <<1, 2, 3, 6, 7>>} :
        Take([of |-> "quotes", quotes |-> Dated(SubSeq(dates, 1, n), prices)])

(* Quotes that pass, on the days of others or not, and some that do not.   *)
Steady == Dated(<<1, 2, 3, 4, 5>>, <<1, 2, 1, 2, 4>>)
Delayed == Dated(<<3, 4, 5, 6>>, <<2, 1, 2, 4>>)
Elsewhere == Dated(<<11, 12, 13, 14>>, <<2, 1, 2, 4>>)
Short == Dated(<<1, 2>>, <<1, 2>>)

HandoffCase(isin, second, answers, cov) ==
    [of |-> "handoff", isin |-> isin, quotes |-> [i \in DOMAIN isin |-> IF i = 2 THEN second ELSE Steady],
     cov |-> cov, complete |-> TRUE, eligible |-> TRUE, answer |-> answers, max |-> 4,
     profiles |-> <<"defensive", "balanced", "income", "growth">>,
     id |-> [defensive |-> 2, balanced |-> 1, income |-> 4, growth |-> 3], window |-> 2,
     cvar |-> [defensive |-> 11, balanced |-> 15, income |-> 12, growth |-> 21],
     slot |-> "best_diversified", current |-> <<<<Frac(1, 2), Frac(1, 2)>>>>, prices |-> <<>>,
     value |-> 10, buffer |-> 20, drift |-> Frac(1, 5)]

AnswersOf(hrp, erc, shrinkage, cvar) ==
    [hierarchical_risk_parity |-> hrp, equal_risk_contribution |-> erc,
     shrinkage_minimum_variance |-> shrinkage, minimum_cvar |-> cvar]

TwoShares == {<<>>, <<<<2, 4>>>>, <<<<3, 3>>>>, <<<<6, 0>>>>}
ThreeShares == {<<<<4, 1, 1>>>>, <<<<1, 4, 1>>>>, <<<<0, 2, 4>>>>}

(* What the objectives answer: refusals, listings sharing an ISIN, ties.   *)
DrawProfiles ==
    Idle /\ \E cov \in Covariances(2), hrp, erc, shrinkage \in TwoShares,
       isin \in {<<1, 2>>, <<1, 1>>}, complete \in BOOLEAN :
        /\ complete \/ (hrp = <<<<3, 3>>>> /\ erc = hrp)
        /\ cov[<<1, 2>>] # 0 \/ hrp = <<<<2, 4>>>>
        /\ Take([HandoffCase(isin, Steady, AnswersOf(hrp, erc, shrinkage, hrp), cov) EXCEPT
                    !.complete = complete, !.max = IF isin = <<1, 2>> THEN 4 ELSE 6])

DrawEnsemble ==
    Idle /\ \E hrp, erc, shrinkage \in ThreeShares, max \in 3 .. 4 :
        /\ max = 4 \/ hrp # erc
        /\ Take([HandoffCase(<<1, 2, 3>>, Delayed, AnswersOf(hrp, erc, shrinkage, erc),
                          CHOOSE cov \in Covariances(3) : TRUE) EXCEPT
                 !.max = max, !.slot = "best_ensemble", !.profiles = <<"balanced">>])

(* What else a handoff is refused or decided over.                         *)
DrawHandoff ==
    Idle /\ \E second \in {Steady, Delayed, Elsewhere, Short, <<>>}, eligible \in BOOLEAN,
       profiles \in {<<>>, <<"growth", "defensive">>, <<"income", "other">>},
       slot \in {"best_defensive", "best_diversified", "best_total_return", "none"},
       window \in {2, 4}, current \in {<<>>, <<<<One>>>>, <<<<Frac(1, 2), Frac(1, 2)>>>>},
       prices \in {<<>>, <<<<1, 2>>>>, <<<<3>>>>, <<<<0, 1>>>>} :
        /\ slot = "best_diversified" \/ (window = 2 /\ prices = <<<<1, 2>>>>)
        /\ Take([HandoffCase(<<1, 2>>, second, AnswersOf(<<<<2, 4>>>>, <<<<4, 2>>>>, <<<<3, 3>>>>, <<<<2, 4>>>>),
                             CHOOSE cov \in Covariances(2) : cov[<<1, 2>>] = -1) EXCEPT
                    !.eligible = eligible, !.profiles = profiles, !.slot = slot,
                    !.window = window, !.current = current, !.prices = prices])

(* A portfolio handed over for trading passed every check on its way; see  *)
(* QualityMeansReturns, ReportIsComplete, RefusalsHold and HandoffIsEarned *)
(* (evaluate_quote_quality, evaluate_profile_candidate,                    *)
(* build_recommendation_report, write_production_multivariate_statistics,  *)
(* write_multivariate_trading_handoff).                                    *)
HandoffsAreEarned ==
    [][/\ Judged("quotes") => QualityMeansReturns(sample.quotes)
       /\ Judged("handoff") =>
             /\ Range(sample.profiles) \subseteq DOMAIN Profiles => ReportIsComplete(sample)
             /\ RefusalsHold(sample)
             /\ HandoffIsEarned(sample)]_sample

-----------------------------------------------------------------------------
(* Files of up to four rows over two ISINs, two exchanges and three days.  *)

QuoteKeys == {<<isin, exchange, day>> : isin \in {1, 2}, exchange \in {1, 2}, day \in 1 .. 3}

DrawFile ==
    Idle /\ \E n \in 0 .. 4 :
    \E keys \in kSubset(n, QuoteKeys), len \in [1 .. n -> IF n = 4 THEN {1} ELSE {1, 2}] :
        LET key == SetToSortSeq(keys, LAMBDA k, l : RowPrecedes(
                       [isin |-> k[1], exchange |-> k[2], day |-> k[3]],
                       [isin |-> l[1], exchange |-> l[2], day |-> l[3]]))
        IN  Take([of |-> "file",
                  file |-> [i \in 1 .. n |-> [isin |-> key[i][1], exchange |-> key[i][2],
                                              day |-> key[i][3], len |-> len[i]]]])

(* The byte index of quotes.jsonl selects the rows asked for; see          *)
(* IndexSelectsExactly and DateRangeOfSoleListings (refresh,               *)
(* _build_quote_ranges, read_quote_date_range).                            *)
QuoteIndexIsSound ==
    [][Judged("file") => IndexIsSound(sample.file, {1, 2}, {1, 2})]_sample

-----------------------------------------------------------------------------
Init == Idle

Return == ~Idle /\ sample' = Nothing

Next ==
    \/ DrawPortfolio \/ DrawTree \/ DrawSimplex \/ DrawTail \/ DrawLoop \/ DrawSlope
    \/ DrawSplits \/ DrawPlan \/ DrawTargets \/ DrawReplay \/ DrawFile
    \/ DrawSelection \/ DrawEstimate \/ DrawCandidate \/ DrawStress
    \/ DrawStudy \/ FitModels \/ FitFamilies \/ MeasureSplits \/ DrawStarts
    \/ DrawScenario \/ DrawRows \/ DrawIncome
    \/ DrawPair \/ DrawDiagnostics \/ DrawCovariance
    \/ DrawQuotes \/ DrawProfiles \/ DrawEnsemble \/ DrawHandoff
    \/ Return

Spec == Init /\ [][Next]_sample

(* Scenarios alone.                                                        *)
ScenarioSpec == Init /\ [][DrawScenario \/ Return]_sample
=============================================================================
