----------------------------- MODULE MCPipeline -----------------------------
(* Three names, two of one sector, in lots of two.  The fund starts with shares *)
(* that were bought before the log begins, or with a logged odd lot.            *)
EXTENDS Pipeline

CONSTANTS a, b, c

Names == {a, b, c}
Sectors == [x \in Names |-> IF x = c THEN "ENERG" ELSE "BANK"]
Row(x, y, z) == [n \in Names |-> IF n = a THEN x ELSE IF n = b THEN y ELSE z]

Bull == [aboveTrend |-> TRUE, aboveExit |-> TRUE, aboveReentry |-> TRUE, falling |-> FALSE]
FastExit == [Bull EXCEPT !.aboveExit = FALSE]
Bear == [aboveTrend |-> FALSE, aboveExit |-> FALSE, aboveReentry |-> FALSE, falling |-> TRUE]

Met(index, slow, fast, adtv, price) ==
    [index |-> index, slow |-> slow, fast |-> fast, adtv |-> adtv, price |-> price]
MarketRows ==
    {Met(Bull, 10, 10, Row(400, 400, 400), Row(2, 3, 2)),
     Met(Bull, 20, NaN, Row(400, 80, 400), Row(3, 2, 2)),
     Met(FastExit, NaN, 40, Row(400, 400, 0), Row(2, 0, 3)),
     Met(Bear, NaN, NaN, Row(400, 400, 400), Row(3, 3, 3))}

Good == [earnings |-> 1, margin |-> 1]
QualityRows ==
    {[data |-> NaN, returns |-> Row(5, NaN, 5), enough |-> TRUE],
     [data |-> NaN, returns |-> Row(5, -5, NoColumn), enough |-> TRUE],
     [data |-> Row([Good EXCEPT !.earnings = 0], Good, Good), returns |-> Row(5, 5, 5),
      enough |-> FALSE],
     [data |-> Row(NaN, [Good EXCEPT !.margin = -1], NaN), returns |-> Row(5, 5, 5),
      enough |-> FALSE]}

TriggerAt == -10
RecoveryAt == -5
Readings == {-12, -7, -2, NaN}
Starts ==
    {[held |-> Row(6, 0, 3), logged |-> {c}, paid |-> 2],
     [held |-> Row(0, 5, 0), logged |-> {}, paid |-> 2]}
=============================================================================
