--------------------------- MODULE RiskParityTree ---------------------------
(***************************************************************************)
(* portfolio_parts: the numerical parts that weights come from. Single     *)
(* linkage, the leaf order and the recursive bisection of hierarchical     *)
(* risk parity (clustering.py), the projection onto bounded weights and    *)
(* the descent loop (solvers.py), value at risk and the subgradient loop   *)
(* (cvar.py). Leaves are 0 .. n-1 and clusters n, n+1, ... as in the code; *)
(* distances are ranks, covariances integers, derived numbers fractions.   *)
(***************************************************************************)
EXTENDS Integers, Sequences, FiniteSets, FiniteSetsExt, Functions, Fractions

-----------------------------------------------------------------------------
(* single_linkage. A state of the loop is the set of active clusters, the  *)
(* distance of every pair of them, the sizes and the steps so far.         *)

PairOf(a, b) == IF a < b THEN <<a, b>> ELSE <<b, a>>

EarlierPair(k, l) == k[1] < l[1] \/ (k[1] = l[1] /\ k[2] < l[2])

(* The nearest pair of active clusters, the lowest pair of ids among ties. *)
ClosestPair(loop) ==
    LET pairs == {k \in loop.active \X loop.active : k[1] < k[2]}
    IN  CHOOSE k \in pairs : \A l \in pairs \ {k} :
            \/ loop.distance[k] < loop.distance[l]
            \/ loop.distance[k] = loop.distance[l] /\ EarlierPair(k, l)

MergedDistance(loop, k, other) ==
    Min({loop.distance[PairOf(k[1], other)], loop.distance[PairOf(k[2], other)]})

Merge(loop, n) ==
    LET k == ClosestPair(loop)
        new == n + Len(loop.steps)
        remaining == loop.active \ {k[1], k[2]}
        joined == [pair \in {PairOf(o, new) : o \in remaining} |->
                      MergedDistance(loop, k, pair[1])]
        size == loop.size[k[1]] + loop.size[k[2]]
    IN  [active |-> remaining \cup {new},
         distance |-> [pair \in DOMAIN loop.distance \cup DOMAIN joined |->
                          IF pair \in DOMAIN joined THEN joined[pair]
                          ELSE loop.distance[pair]],
         size |-> [c \in DOMAIN loop.size \cup {new} |->
                      IF c = new THEN size ELSE loop.size[c]],
         steps |-> Append(loop.steps, [left |-> k[1], right |-> k[2],
                                       distance |-> loop.distance[k], size |-> size])]

SingleLinkage(distance, n) ==
    LET start == [active |-> 0 .. n - 1,
                  distance |-> [k \in {k \in (0 .. n-1) \X (0 .. n-1) : k[1] < k[2]} |->
                                   distance[k]],
                  size |-> [c \in 0 .. n - 1 |-> 1],
                  steps |-> <<>>]
        loop[m \in 0 .. n - 1] == IF m = 0 THEN start ELSE Merge(loop[m - 1], n)
    IN  IF n <= 1 THEN <<>> ELSE loop[n - 1].steps

(* The leaves below a cluster, the left child's before the right child's.  *)
LeavesInOrder(steps, n) ==
    LET expand[c \in 0 .. n + Len(steps) - 1] ==
            IF c < n THEN <<c>>
            ELSE expand[steps[c - n + 1].left] \o expand[steps[c - n + 1].right]
    IN  expand

QuasiDiagonalOrder(steps, n) ==
    IF n <= 1 \/ steps = <<>> THEN [i \in 1 .. n |-> i - 1]
    ELSE LeavesInOrder(steps, n)[n + Len(steps) - 1]

-----------------------------------------------------------------------------
(* recursive_bisection over the order, with cov[<<i, j>>].                 *)

InverseVarianceWeights(cluster, cov) ==
    LET inverse == [i \in cluster |->
                       IF cov[<<i, i>>] > 0 THEN Frac(1, cov[<<i, i>>]) ELSE Zero]
        total == Sum(inverse)
    IN  IF total = Zero THEN [i \in cluster |-> Frac(1, Cardinality(cluster))]
        ELSE [i \in cluster |-> Over(inverse[i], total)]

ClusterVariance(cluster, cov) ==
    LET w == InverseVarianceWeights(cluster, cov)
    IN  Sum([ij \in cluster \X cluster |->
                Times(Times(w[ij[1]], w[ij[2]]), Whole(cov[ij]))])

(* What the left half of a cluster gets of the capital of the cluster.     *)
LeftAllocation(left, right, cov) ==
    LET l == ClusterVariance(left, cov)
        r == ClusterVariance(right, cov)
    IN  IF Plus(l, r) = Zero THEN Frac(1, 2) ELSE Over(r, Plus(l, r))

(* Positions lo .. hi of the order are one cluster: its share is split in  *)
(* the middle until every leaf stands alone.                               *)
RecursiveBisection(order, cov) ==
    LET members(lo, hi) == {order[i] : i \in lo .. hi}
        middle(lo, hi) == lo + (hi - lo + 1) \div 2
        weights[lo \in DOMAIN order, hi \in DOMAIN order] ==
            IF lo = hi THEN [x \in {order[lo]} |-> One]
            ELSE LET mid == middle(lo, hi)
                     share == LeftAllocation(members(lo, mid - 1), members(mid, hi), cov)
                 IN  [x \in members(lo, hi) |->
                         IF x \in members(lo, mid - 1)
                         THEN Times(weights[lo, mid - 1][x], share)
                         ELSE Times(weights[mid, hi][x], Minus(One, share))]
    IN  weights[1, Len(order)]

(* The splits of build_hrp_cluster_rows: one row per inner cluster.        *)
BisectionSplits(order, cov) ==
    LET members(lo, hi) == {order[i] : i \in lo .. hi}
        splits[lo \in DOMAIN order, hi \in DOMAIN order] ==
            IF lo = hi THEN {}
            ELSE LET mid == lo + (hi - lo + 1) \div 2
                 IN  {[left |-> members(lo, mid - 1), right |-> members(mid, hi),
                       allocation |-> LeftAllocation(members(lo, mid - 1),
                                                     members(mid, hi), cov)]}
                     \cup splits[lo, mid - 1] \cup splits[mid, hi]
    IN  splits[1, Len(order)]

(* The labelled baseline: the same bisection over canonical order, with    *)
(* the variance of equal weights in place of inverse-variance weights.     *)
BaselineClusterVariance(cluster, cov) ==
    Over(Sum([ij \in cluster \X cluster |-> Whole(cov[ij])]),
         Whole(Cardinality(cluster) * Cardinality(cluster)))

RecursiveHrpBaselineWeights(n, cov) ==
    LET share(lo, mid, hi) ==
            LET l == BaselineClusterVariance(lo .. mid - 1, cov)
                r == BaselineClusterVariance(mid .. hi, cov)
            IN  IF Plus(l, r) = Zero THEN Frac(1, 2) ELSE Over(r, Plus(l, r))
        weights[lo \in 0 .. n - 1, hi \in 0 .. n - 1] ==
            IF lo = hi THEN [x \in {lo} |-> One]
            ELSE LET mid == lo + (hi - lo + 1) \div 2
                 IN  [x \in lo .. hi |->
                         IF x < mid THEN Times(weights[lo, mid - 1][x], share(lo, mid, hi))
                         ELSE Times(weights[mid, hi][x], Minus(One, share(lo, mid, hi)))]
    IN  weights[0, n - 1]

-----------------------------------------------------------------------------
(* project_capped_simplex: bisection on the shift that makes the clipped   *)
(* values sum to total. Rounds is the bound on the loop; numbers carry a   *)
(* factor 2^Rounds so that every halving is exact.                         *)

Clip(value, lo, hi) == Min({hi, Max({lo, value})})

Shifted(values, tau, lo, hi) ==
    [i \in DOMAIN values |-> Clip(values[i] - tau, lo, hi)]

HalveBracket(values, lo, hi, total, bracket) ==
    LET mid == (bracket.low + bracket.high) \div 2
        reached == SumFunction(Shifted(values, mid, lo, hi))
    IN  CASE reached = total -> [low |-> mid, high |-> mid]
          [] reached > total -> [bracket EXCEPT !.low = mid]
          [] reached < total -> [bracket EXCEPT !.high = mid]

ProjectCappedSimplex(values, lo, hi, total, rounds) ==
    LET scale == 2 ^ rounds
        v == [i \in DOMAIN values |-> values[i] * scale]
        start == [low |-> Min(Range(v)) - hi * scale, high |-> Max(Range(v)) - lo * scale]
        bracket[k \in 0 .. rounds] ==
            IF k = 0 THEN start
            ELSE HalveBracket(v, lo * scale, hi * scale, total * scale, bracket[k - 1])
        end == bracket[rounds]
    IN  [weights |-> Shifted(v, (end.low + end.high) \div 2, lo * scale, hi * scale),
         low |-> end.low, high |-> end.high, values |-> v, scale |-> scale]

-----------------------------------------------------------------------------
(* The objective of equal risk contributions and its slope, times n * n:   *)
(* the squared distance of every contribution from an equal share.         *)

CovarianceTimes(w, cov, i) == MapThenSumSet(LAMBDA j : cov[<<i, j>>] * w[j], DOMAIN w)

ContributionResidual(w, cov, i) ==
    Len(w) * w[i] * CovarianceTimes(w, cov, i)
        - MapThenSumSet(LAMBDA j : w[j] * CovarianceTimes(w, cov, j), DOMAIN w)

EqualRiskObjective(w, cov) ==
    MapThenSumSet(LAMBDA i : ContributionResidual(w, cov, i) * ContributionResidual(w, cov, i),
                  DOMAIN w)

EqualRiskGradient(w, cov, k) ==
    2 * MapThenSumSet(LAMBDA i :
            ContributionResidual(w, cov, i)
              * (Len(w) * ((IF i = k THEN CovarianceTimes(w, cov, i) ELSE 0) + w[i] * cov[<<i, k>>])
                  - 2 * CovarianceTimes(w, cov, k)),
            DOMAIN w)

-----------------------------------------------------------------------------
(* The loops around the projection, as the objective values of what they   *)
(* try. A round of _projected_gradient_descent tries ever smaller steps:   *)
(* it takes the first candidate that is no worse, or the last one it has.  *)
(* It ends when the weights hardly move, or after as many rounds as given. *)

Accepted(tries, objective) ==
    LET good == {i \in DOMAIN tries : tries[i].objective <= objective}
    IN  tries[IF good = {} THEN Len(tries) ELSE Min(good)]

ProjectedGradientDescent(start, rounds) ==
    LET loop[k \in 0 .. Len(rounds)] ==
            IF k = 0 THEN [objective |-> start, converged |-> FALSE, iterations |-> 0]
            ELSE LET before == loop[k - 1]
                     taken == Accepted(rounds[k], before.objective)
                 IN  IF before.converged THEN before
                     ELSE [objective |-> taken.objective, converged |-> taken.still,
                           iterations |-> k]
    IN  loop[Len(rounds)]

(* solve_minimum_cvar keeps the best round so far; an improvement counts   *)
(* when it exceeds tolerance percent of the best objective. It has converged when the weights stand  *)
(* still or when nothing has improved for a whole window.                  *)
Improves(best, objective, tolerance) ==
    100 * (best - objective) > tolerance * Max({1, best, -best})

SolveMinimumCvar(start, rounds, tolerance, window) ==
    LET loop[k \in 0 .. Len(rounds)] ==
            IF k = 0 THEN [best |-> start, round |-> 0, stalled |-> 0, converged |-> FALSE,
                           iterations |-> 0]
            ELSE LET before == loop[k - 1]
                     improved == Improves(before.best, rounds[k].objective, tolerance)
                     stalled == IF improved THEN 0 ELSE before.stalled + 1
                 IN  IF before.converged THEN before
                     ELSE [best |-> IF improved THEN rounds[k].objective ELSE before.best,
                           round |-> IF improved THEN k ELSE before.round,
                           stalled |-> stalled,
                           converged |-> rounds[k].still \/ stalled >= window,
                           iterations |-> k]
    IN  loop[Len(rounds)]

-----------------------------------------------------------------------------
(* Historical value at risk at a confidence of percent / 100, and the      *)
(* convex function (cvar_objective) it is meant to minimise.               *)

LossAtIndex(losses, k) ==
    CHOOSE v \in Range(losses) :
        /\ Cardinality({i \in DOMAIN losses : losses[i] < v}) <= k
        /\ Cardinality({i \in DOMAIN losses : losses[i] <= v}) > k

Fault_HistoricalVarAndCvar(losses, percent) ==
    LET n == Len(losses)
        var == LossAtIndex(losses, Min({n - 1, (percent * n) \div 100 + 1}))
        tail == {i \in DOMAIN losses : losses[i] >= var}
    IN  IF n = 0 THEN [var |-> 0, cvar |-> Zero, tail |-> 0]
        ELSE [var |-> var,
              cvar |-> Frac(SumFunctionOnSet(losses, tail), Cardinality(tail)),
              tail |-> Cardinality(tail)]

HistoricalVarAndCvar(losses, percent) ==
    LET n == Len(losses)
        var == LossAtIndex(losses, Min({n - 1, (percent * n) \div 100}))
        tail == {i \in DOMAIN losses : losses[i] >= var}
    IN  IF n = 0 THEN [var |-> 0, cvar |-> Zero, tail |-> 0]
        ELSE [var |-> var,
              cvar |-> Frac(SumFunctionOnSet(losses, tail), Cardinality(tail)),
              tail |-> Cardinality(tail)]

(* scenarios[t][i] is the return of asset i on day t, w the weights.       *)
Losses(scenarios, w) ==
    [t \in DOMAIN scenarios |->
        -MapThenSumSet(LAMBDA i : scenarios[t][i] * w[i], DOMAIN w)]

CvarObjective(losses, zeta, percent) ==
    Plus(Whole(zeta),
         Frac(100 * MapThenSumSet(LAMBDA t : Max({0, losses[t] - zeta}), DOMAIN losses),
              (100 - percent) * Len(losses)))

(* The slope in the weights while zeta stands: days in the tail count.     *)
CvarSubgradient(scenarios, w, zeta, percent) ==
    [i \in DOMAIN w |->
        Frac(-100 * SumFunctionOnSet([t \in DOMAIN scenarios |-> scenarios[t][i]],
                 {t \in DOMAIN scenarios : Losses(scenarios, w)[t] >= zeta}),
             (100 - percent) * Len(scenarios))]

(* build_minimum_cvar_diagnostics: the solver's verdict counts only for    *)
(* the weights it found.                                                   *)
MinimumCvarStatus(matches, converged, violations) ==
    CASE ~matches -> "unverified"
      [] matches /\ ~converged -> "solver_not_converged"
      [] matches /\ converged /\ violations -> "constraint_violation"
      [] OTHER -> "feasible"

-----------------------------------------------------------------------------
(* What must hold of the tree over n leaves and of the weights it gives.   *)

(* The leaves below each cluster.                                          *)
LOCAL Below(steps, n, c) == Range(LeavesInOrder(steps, n)[c])

LOCAL Linked(distance, n, d) ==
    LET near == {k \in (0 .. n - 1) \X (0 .. n - 1) :
                    k[1] = k[2] \/ distance[PairOf(k[1], k[2])] <= d}
        within[m \in 0 .. n] ==
            IF m = 0 THEN near
            ELSE {k \in (0 .. n - 1) \X (0 .. n - 1) :
                    \E x \in 0 .. n - 1 : <<k[1], x>> \in within[m - 1] /\ <<x, k[2]>> \in near}
    IN  within[n]

(* At every height the clusters are the groups that distances up to it     *)
(* connect, heights never fall, sizes count leaves, and the order of the   *)
(* leaves keeps every cluster together.                                    *)
TreeIsSingleLinkage(distance, n) ==
    LET steps == SingleLinkage(distance, n)
        order == QuasiDiagonalOrder(steps, n)
        position(x) == CHOOSE i \in DOMAIN order : order[i] = x
    IN  /\ \A d \in {steps[i].distance : i \in DOMAIN steps} \cup {0} :
              Linked(distance, n, d) =
                 {k \in (0 .. n - 1) \X (0 .. n - 1) :
                    \/ k[1] = k[2]
                    \/ \E i \in DOMAIN steps :
                          steps[i].distance <= d /\ {k[1], k[2]} \subseteq Below(steps, n, n + i - 1)}
        /\ \A i \in 1 .. Len(steps) - 1 : steps[i].distance <= steps[i + 1].distance
        /\ \A i \in DOMAIN steps :
              steps[i].size = Cardinality(Below(steps, n, n + i - 1))
        /\ Len(order) = n /\ Range(order) = 0 .. n - 1
        /\ \A i \in DOMAIN steps :
              LET at == {position(x) : x \in Below(steps, n, n + i - 1)}
              IN  Max(at) - Min(at) + 1 = Cardinality(at)

(* The weights add up to one, every split row says what its halves got,    *)
(* and where nothing is correlated the result is the inverse of variances. *)
BisectionAllocatesRisk(distance, n, cov) ==
    LET order == QuasiDiagonalOrder(SingleLinkage(distance, n), n)
        weights == RecursiveBisection(order, cov)
    IN  /\ Sum(weights) = One
        /\ \A x \in 0 .. n - 1 : AtMost(Zero, weights[x])
        /\ \A split \in BisectionSplits(order, cov) :
              SumOn(weights, split.left) =
                 Times(split.allocation, SumOn(weights, split.left \cup split.right))
        /\ Sum(RecursiveHrpBaselineWeights(n, cov)) = One
        /\ (\A ij \in DOMAIN cov : IF ij[1] = ij[2] THEN cov[ij] > 0 ELSE cov[ij] = 0) =>
              weights = InverseVarianceWeights(0 .. n - 1, cov)

(* The shift found keeps every value in its bounds and in its order, and   *)
(* the bracket it was found in holds the shift that meets the total.       *)
ProjectionMeetsTotal(values, lo, hi, total, rounds) ==
    LET found == ProjectCappedSimplex(values, lo, hi, total, rounds)
        reached(tau) ==
            SumFunction(Shifted(found.values, tau, lo * found.scale, hi * found.scale))
        width == Max(Range(values)) - Min(Range(values)) + hi - lo
    IN  /\ reached(found.low) >= total * found.scale
        /\ reached(found.high) <= total * found.scale
        /\ Distance(SumFunction(found.weights), total * found.scale) <= Len(values) * width
        /\ \A i, j \in DOMAIN values :
              /\ found.weights[i] \in lo * found.scale .. hi * found.scale
              /\ values[i] <= values[j] => found.weights[i] <= found.weights[j]

(* The slope given is the derivative: for a polynomial of fourth degree    *)
(* the five-point rule around the weights is exact.                        *)
GradientIsDerivative(w, cov) ==
    \A k \in DOMAIN w :
        LET at(h) == EqualRiskObjective([w EXCEPT ![k] = @ + h], cov)
        IN  12 * EqualRiskGradient(w, cov, k) = 8 * (at(1) - at(-1)) - (at(2) - at(-2))

(* The value at risk minimises the convex function of cvar_objective, the  *)
(* tail mean is no smaller, and the slope is one of the function's         *)
(* subgradients: no weights lie below the line it draws.                   *)
TailRiskIsConvex(scenarios, w, percent, others) ==
    LET losses == Losses(scenarios, w)
        risk == HistoricalVarAndCvar(losses, percent)
        slope == CvarSubgradient(scenarios, w, risk.var, percent)
        at(v) == CvarObjective(Losses(scenarios, v), risk.var, percent)
    IN  /\ \A zeta \in Range(losses) :
              AtMost(CvarObjective(losses, risk.var, percent),
                     CvarObjective(losses, zeta, percent))
        /\ AtMost(Whole(risk.var), risk.cvar)
        /\ \A v \in others :
              AtMost(Plus(at(w), Sum([i \in DOMAIN w |-> Times(slope[i], Whole(v[i] - w[i]))])),
                     at(v))

(* The best round kept is within the tolerance of every round tried; the   *)
(* descent gets worse only in a round whose every try is worse.            *)
LoopsKeepTheBest(start, rounds, tolerance, window) ==
    LET found == SolveMinimumCvar(start, rounds, tolerance, window)
        down == ProjectedGradientDescent(start, [k \in DOMAIN rounds |-> <<rounds[k]>>])
    IN  /\ \A k \in 1 .. found.iterations :
              ~Improves(found.best, rounds[k].objective, tolerance)
        /\ found.best = IF found.round = 0 THEN start ELSE rounds[found.round].objective
        /\ found.best <= start
        /\ ~found.converged => found.iterations = Len(rounds) /\ found.stalled < window
        /\ down.objective > start =>
              \E k \in 1 .. down.iterations : rounds[k].objective > start
=============================================================================
