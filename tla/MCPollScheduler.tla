--------------------------- MODULE MCPollScheduler ---------------------------
(***************************************************************************)
(* Instances of PollScheduler: one tick at a time with prompt workers, and *)
(* overlapping ticks and polls.                                            *)
(***************************************************************************)
EXTENDS PollScheduler, TLC

CONSTANTS k1, k2, t1, t2, p1, p2

OneConfig  == {k1}
TwoConfigs == {k1, k2}
OneTicker  == {t1}
TwoTickers == {t1, t2}
OnePoller  == {p1}
TwoPollers == {p1, p2}

Symmetric == Permutations({p1, p2})
=============================================================================
