--------------------------- MODULE MCJobRegistry ---------------------------
(* The instance of JobRegistry that TLC checks: two refreshes, which share *)
(* a worker, and a backtest, which has its own.                            *)
EXTENDS JobRegistry

CONSTANTS r1, r2, b1

Jobs == {r1, r2, b1}
Kinds == <<"data_refresh", "backtest_run">>
KindOfJob == [j \in Jobs |-> IF j = b1 THEN "backtest_run" ELSE "data_refresh"]
=============================================================================
