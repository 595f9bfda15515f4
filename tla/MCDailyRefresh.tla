--------------------------- MODULE MCDailyRefresh ---------------------------
(* A cron job and a manual trigger over a book of two holdings, on two sessions and *)
(* a closure; on day 2 the holdings' bars carry different stamps.  The committed     *)
(* table is wrong: it lists the session of day 2 and not the closure.               *)
EXTENDS DailyRefresh, TLC

CONSTANTS cron, trigger, aot, ptt, index

Callers == {cron, trigger}
Alike == Permutations(Callers)
Book == {aot, ptt}
Ranked == {aot}
Sessions == {1, 2}
LateBars == {<<ptt, 2>>}
Mistaken == {2}
Closures == {3}
AllConnected == {Slot}
Connections == {Slot, {"mongo", "postgres"}, {"gateway"}}
=============================================================================
