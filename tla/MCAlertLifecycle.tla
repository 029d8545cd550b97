--------------------------- MODULE MCAlertLifecycle ---------------------------
(***************************************************************************)
(* Instances of AlertLifecycle: overlapping evaluations with faults, and a *)
(* single evaluation at a time.                                            *)
(***************************************************************************)
EXTENDS AlertLifecycle, TLC

CONSTANTS e1, e2, c1, r1, r2

OneEvaluator  == {e1}
TwoEvaluators == {e1, e2}
OneCaller     == {c1}
Nobody        == {}
OneRule       == {r1}
TwoRules      == {r1, r2}

SymmetricEvaluators == Permutations({e1, e2})
=============================================================================
