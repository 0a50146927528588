----------------------------- MODULE RiskModel -----------------------------
(***************************************************************************)
(* multivariate_inputs.py, risk_model.py and multivariate_risk_model.py:   *)
(* which listings and days a multivariate run may use, and the covariance  *)
(* matrix estimated from their returns.                                    *)
(*                                                                         *)
(* A listing is a number. returns[l] is a function from days to returns; a *)
(* listing without rows is not in its domain. A day is the number yyyymmdd.*)
(* A listing key, an artifact id and a calendar id stand for themselves.   *)
(***************************************************************************)
EXTENDS Integers, Sequences, FiniteSets, FiniteSetsExt, Functions, SequencesExt, Fractions

CONSTANTS
    MinListings,        \* DistributionEtfPolicy.minimum_listing_count
    MinReturns,         \* minimum_common_daily_return_observations
    RollingWindow,      \* 252 of LW_ROLLING_252
    Decay               \* 0.94 of EWMA_094

ASSUME RiskModelAssumption ==
    {MinListings, MinReturns, RollingWindow} \subseteq Nat \ {0, 1}

(* The three specifications; no other combination passes __post_init__.    *)
LW_FULL == [key |-> "LW_FULL", estimator |-> "ledoit_wolf", window |-> "full"]
LW_ROLLING_252 == [key |-> "LW_ROLLING_252", estimator |-> "ledoit_wolf", window |-> "rolling"]
EWMA_094 == [key |-> "EWMA_094", estimator |-> "ewma", window |-> "full"]
ProductionSpecs == <<LW_FULL, LW_ROLLING_252, EWMA_094>>

Ascending(S) ==
    [k \in 1 .. Cardinality(S) |-> CHOOSE x \in S : Cardinality({y \in S : y < x}) = k - 1]

(* The days on which every listing of the set has a return.                *)
CommonDates(returns, listings) ==
    LET days(l) == IF l \in DOMAIN returns THEN DOMAIN returns[l] ELSE {}
    IN  {d \in UNION {days(l) : l \in listings} : \A l \in listings : d \in days(l)}

-----------------------------------------------------------------------------
(* The input snapshot. A row is a listing of the selection with what the   *)
(* policy asks of it; dep is the closure it is resolved from.              *)

RowReasons(row, dep) ==
    {r \in {"non_etf"} : ~row.etf}
    \cup {r \in {"distribution_frequency_not_allowed"} : ~row.frequencyAllowed}
    \cup {r \in {"missing_quote_artifact"} : ~row.quotesEligible \/ row.listing \notin dep.quotes}
    \cup {r \in {"missing_dividend_artifact"} : row.listing \notin dep.dividends}

GlobalReasons(dep, keys) ==
    {r \in {"stale_upstream_dependency"} : dep.stale}
    \cup {r \in {"missing_bivariate_dependency"} : dep.bivariate = "missing"}
    \cup {r \in {"bivariate_not_complete"} : dep.bivariate \notin {"missing", "complete"}}
    \cup {r \in {"duplicate_listing_key"} : ~IsInjective(keys)}
    \cup {r \in {"membership_mismatch"} : keys # dep.keys}
    \cup {r \in {"calendar_mismatch"} : dep.calendar # dep.bivariateCalendar}
    \cup {r \in {"insufficient_common_history"} : dep.observations < MinReturns}
    \cup {r \in {"fewer_than_two_eligible_listings"} : Cardinality(Range(keys)) < MinListings}

Sorted(listings) == SortSeq(listings, <)

InputSnapshot(rows, dep) ==
    LET eligible == SelectSeq(rows, LAMBDA row : RowReasons(row, dep) = {})
        keys == Sorted([i \in DOMAIN eligible |-> eligible[i].listing])
    IN  [keys |-> keys, calendar |-> dep.calendar, reasons |-> GlobalReasons(dep, keys)]

(* compute_multivariate resolves the closure itself: every selected key    *)
(* has artifacts, and both calendars are the one of the quotes it was      *)
(* given.                                                                  *)
ComputeInputs(rows, returns) ==
    LET keys == Sorted([i \in DOMAIN rows |-> rows[i].listing])
        dates == CommonDates(returns, Range(keys))
    IN  InputSnapshot(rows,
            [quotes |-> Range(keys), dividends |-> Range(keys), stale |-> FALSE,
             bivariate |-> "complete", keys |-> keys,
             calendar |-> dates, bivariateCalendar |-> dates,
             observations |-> Cardinality(dates)])

-----------------------------------------------------------------------------
(* estimate_risk_model, on a set of days.                                  *)

LatestOf(dates, size) ==
    {d \in dates : Cardinality({e \in dates : e >= d}) <= size}

ApplyWindow(dates, spec) ==
    IF spec.window = "rolling" THEN LatestOf(dates, RollingWindow) ELSE dates

Deviation(returns, dates, l, d) ==
    Minus(Whole(returns[l][d]),
          Frac(SumFunctionOnSet(returns[l], dates), Cardinality(dates)))

Demeaned(returns, listings, dates) ==
    [d \in dates |-> [l \in listings |-> Deviation(returns, dates, l, d)]]

(* _sample_covariance_from_demeaned: divided by one less than the days.    *)
SampleCovariance(x, listings) ==
    LET days == DOMAIN x
    IN  [ij \in listings \X listings |->
            Over(Sum([d \in days |-> Times(x[d][ij[1]], x[d][ij[2]])]),
                 Whole(Max({Cardinality(days) - 1, 1})))]

SquaresOf(f) == Sum([k \in DOMAIN f |-> Times(f[k], f[k])])

Target(sample, listings) ==
    LET mu == Mean([l \in listings |-> sample[<<l, l>>]], Cardinality(listings))
    IN  [ij \in DOMAIN sample |-> IF ij[1] = ij[2] THEN mu ELSE Zero]

(* The intensity is the error of the sample matrix over its distance from  *)
(* the target, at most one.                                                *)
ShrinkageIntensity(x, sample, listings) ==
    LET n == Whole(Cardinality(listings))
        days == DOMAIN x
        target == Target(sample, listings)
        delta == Over(SquaresOf([ij \in DOMAIN sample |-> Minus(sample[ij], target[ij])]), n)
        error(d) == SquaresOf([ij \in DOMAIN sample |->
                                  Minus(Times(x[d][ij[1]], x[d][ij[2]]), sample[ij])])
        beta == Over(Over(Sum([d \in days |-> error(d)]),
                          Whole(Cardinality(days) * Cardinality(days))), n)
    IN  IF AtMost(delta, Zero) THEN Zero ELSE Over(Smaller(beta, delta), delta)

LedoitWolf(x, sample, listings) ==
    LET s == ShrinkageIntensity(x, sample, listings)
        target == Target(sample, listings)
    IN  [ij \in DOMAIN sample |->
            Plus(Times(s, target[ij]), Times(Minus(One, s), sample[ij]))]

(* _ewma_covariance: from the first day, a share Decay of what was before. *)
EwmaCovariance(x, listings) ==
    LET days == Ascending(DOMAIN x)
        sigma[t \in DOMAIN days] ==
            LET today(ij) == Times(x[days[t]][ij[1]], x[days[t]][ij[2]])
            IN  IF t = 1 THEN [ij \in listings \X listings |-> today(ij)]
                ELSE [ij \in listings \X listings |->
                         Plus(Times(Decay, sigma[t - 1][ij]),
                              Times(Minus(One, Decay), today(ij)))]
    IN  sigma[Len(days)]

(* Determinant of the rows and columns S: what the eigenvalues are used    *)
(* for is whether one is negative and whether the smallest vanishes.       *)
Minor(cov, S) ==
    LET det[R \in SUBSET S, C \in SUBSET S] ==
            IF R = {} THEN One
            ELSE LET i == Min(R)
                     sign(j) == IF Cardinality({k \in C : k < j}) % 2 = 0 THEN One ELSE Neg(One)
                 IN  Sum([j \in C |-> Times(sign(j), Times(cov[<<i, j>>],
                                                           det[R \ {i}, C \ {j}]))])
    IN  det[S, S]

IsPositiveSemidefinite(cov, listings) ==
    \A S \in SUBSET listings : AtMost(Zero, Minor(cov, S))

(* The condition number is below 10^6 wherever it is not "singular", so    *)
(* "ill_conditioned" never occurs.                                         *)
IsSingular(cov, listings) == listings = {} \/ Minor(cov, listings) = Zero

MissingPairs(returns, listings) ==
    {ij \in listings \X listings :
        ij[1] < ij[2] /\ Cardinality(DOMAIN returns[ij[1]] \cap DOMAIN returns[ij[2]]) < 2}

AvailabilityReasons(returns, listings, cov) ==
    {r \in {"missing_pairs"} : MissingPairs(returns, listings) # {}}
    \cup {r \in {"not_positive_semidefinite"} : ~IsPositiveSemidefinite(cov, listings)}
    \cup {r \in {"unstable_condition_number"} :
            ~IsPositiveSemidefinite(cov, listings) \/ IsSingular(cov, listings)}

EstimationError(returns, listings, spec) ==
    LET common == CommonDates(returns, listings)
    IN  CASE ~(listings \subseteq DOMAIN returns) -> "no_returns"
          [] spec.window = "rolling" /\ Cardinality(common) < RollingWindow -> "rolling_window"
          [] Cardinality(ApplyWindow(common, spec)) < 2 -> "common_history"
          [] OTHER -> "none"

EstimateRiskModel(returns, listings, spec) ==
    LET dates == ApplyWindow(CommonDates(returns, listings), spec)
        x == Demeaned(returns, listings, dates)
        sample == SampleCovariance(x, listings)
        cov == IF spec.estimator = "ewma" THEN EwmaCovariance(x, listings)
               ELSE LedoitWolf(x, sample, listings)
    IN  [cov |-> cov, dates |-> dates, sample |-> sample,
         reasons |-> AvailabilityReasons(returns, listings, cov)]

(* build_multivariate_risk_model: an error of the estimator is a reason.   *)
BuildRiskModel(snapshot, returns, spec) ==
    LET listings == Range(snapshot.keys)
        error == EstimationError(returns, listings, spec)
        result == EstimateRiskModel(returns, listings, spec)
        unavailable(why) ==
            [listings |-> snapshot.keys, cov |-> <<>>, dates |-> {}, spec |-> spec.key, reasons |-> {why}]
    IN  IF snapshot.reasons # {} THEN unavailable("input_snapshot_unavailable")
        ELSE IF error # "none" THEN unavailable(error)
        ELSE [listings |-> snapshot.keys, cov |-> result.cov, dates |-> result.dates,
              spec |-> spec.key, reasons |-> result.reasons]

Available(model) == model.reasons = {}

-----------------------------------------------------------------------------
(* What must hold.                                                         *)

(* A snapshot is available exactly when the whole selection is usable: one *)
(* row that the policy refuses, or that is there twice, closes it, instead *)
(* of dropping out. Its days are days of all of its listings.              *)
SnapshotIsWhole(rows, returns) ==
    LET snapshot == ComputeInputs(rows, returns)
    IN  /\ snapshot.reasons = {} <=>
              /\ \A i \in DOMAIN rows :
                    /\ rows[i].etf /\ rows[i].frequencyAllowed /\ rows[i].quotesEligible
                    /\ \A j \in DOMAIN rows : rows[j].listing = rows[i].listing => i = j
              /\ Len(rows) >= MinListings
              /\ Cardinality(snapshot.calendar) >= MinReturns
        /\ snapshot.reasons = {} =>
              \A i \in DOMAIN rows : snapshot.calendar \subseteq DOMAIN returns[rows[i].listing]

(* An estimate is symmetric and no portfolio has a negative variance under *)
(* it. Shrinking keeps the total variance and moves every covariance       *)
(* towards zero without changing its sign; where it is complete a matrix   *)
(* of dependent returns becomes regular. A day after the window, or on     *)
(* which some listing has no return, changes nothing, and an estimate is   *)
(* never reported with pairs missing.                                      *)
EstimateIsSound(returns, listings, spec, later) ==
    LET keys == Ascending(listings)
        snapshot == [keys |-> keys, calendar |-> CommonDates(returns, listings), reasons |-> {}]
        model == BuildRiskModel(snapshot, returns, spec)
        result == EstimateRiskModel(returns, listings, spec)
        trace(m) == Sum([l \in listings |-> m[<<l, l>>]])
        unseen == [l \in listings |->
                      [d \in DOMAIN returns[l] |->
                          IF d \in result.dates THEN returns[l][d] ELSE returns[l][d] + 1]]
        first == Min(listings)
        gaining == [unseen EXCEPT ![first] =
                      [d \in DOMAIN @ \cup {later} |-> IF d \in DOMAIN @ THEN @[d] ELSE 7]]
    IN  EstimationError(returns, listings, spec) = "none" =>
        /\ \A ij \in DOMAIN result.cov : result.cov[ij] = result.cov[<<ij[2], ij[1]>>]
        /\ IsPositiveSemidefinite(result.cov, listings)
        /\ "missing_pairs" \notin model.reasons
        /\ spec.estimator = "ledoit_wolf" =>
              /\ trace(result.cov) = trace(result.sample)
              /\ \A ij \in DOMAIN result.cov : ij[1] # ij[2] =>
                    /\ AtMost(Abs(result.cov[ij]), Abs(result.sample[ij]))
                    /\ AtMost(Zero, Times(result.cov[ij], result.sample[ij]))
        /\ Cardinality(listings) > 1 => BuildRiskModel(snapshot, gaining, spec) = model
        /\ spec.window = "rolling" => Cardinality(result.dates) = RollingWindow
=============================================================================
