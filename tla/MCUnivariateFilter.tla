-------------------------- MODULE MCUnivariateFilter --------------------------
(***************************************************************************)
(* One tab, two clicks and two listings, with a night between them or not. *)
(***************************************************************************)
EXTENDS UnivariateFilter

SmallMeasured ==
    <<[a |-> [frequency |-> "monthly", age |-> 4, month |-> 0, usable |-> TRUE],
       b |-> [frequency |-> "quarterly", age |-> 5, month |-> 1, usable |-> TRUE]]>>
=============================================================================
