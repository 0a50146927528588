------------------------------ MODULE MCWorkspace ------------------------------
(***************************************************************************)
(* One instance for three scopes. In "selections" two tabs save, activate  *)
(* and read; in "projects" they choose between two filters and delete a    *)
(* project while its job runs, the market is refreshed and a computation   *)
(* fails. Both have bounds of their own below those of the instance. In    *)
(* "filter" the workspace stands still and one tab of UnivariateFilter     *)
(* clicks twice on the boxes of two listings, which a night moves to other *)
(* bands or makes analysable.                                              *)
(***************************************************************************)
EXTENDS Workspace, UnivariateFilter, TLC

VARIABLE scope

Symmetry == Permutations(Tabs) \union Permutations(Predicates)

Within(s) ==
    CASE s = "selections" ->
            /\ wanted = Everything /\ market.quotes = 1
            /\ spent.failures = 0 /\ spent.deletes = 0
      [] s = "projects" -> spent.clicks <= 2 /\ spent.reads = 0

\* What the page draws of two listings before and after a night: one of unknown
\* frequency that gets one, and one that cannot be analysed yet.
SmallMeasured ==
    <<[a |-> [frequency |-> "unknown", age |-> 4, month |-> 0, usable |-> TRUE],
       b |-> [frequency |-> "accumulating", age |-> 0, month |-> 0, usable |-> FALSE]],
      [a |-> [frequency |-> "monthly", age |-> 5, month |-> 0, usable |-> TRUE],
       b |-> [frequency |-> "accumulating", age |-> 1, month |-> 1, usable |-> TRUE]]>>

ScopedInit == Init /\ FilterInit /\ scope \in {"selections", "projects", "filter"}

ScopedNext ==
    /\ scope' = scope
    /\ \/ scope = "filter" /\ FilterNext /\ UNCHANGED vars
       \/ scope # "filter" /\ Next /\ Within(scope)' /\ UNCHANGED filterVars

MCSpec == ScopedInit /\ [][ScopedNext]_<<vars, filterVars, scope>>
PageSpec == ScopedInit /\ scope = "selections" /\ [][ScopedNext]_<<vars, filterVars, scope>>

=============================================================================
