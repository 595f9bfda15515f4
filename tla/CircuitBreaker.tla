--------------------------- MODULE CircuitBreaker ---------------------------
(***************************************************************************)
(* DrawdownCircuitBreaker (src/csm/portfolio/drawdown_circuit_breaker.py): *)
(* a class without state, whose caller keeps [state, progress] from one    *)
(* call to the next.  Drawdowns and equity fractions are in percent.       *)
(***************************************************************************)
EXTENDS Integers

CONSTANTS
    Trigger,       \* trigger_threshold
    Recovery,      \* recovery_threshold
    ConfirmDays,   \* recovery_confirm_days
    SafeEquity,    \* safe_mode_max_equity
    NaN            \* the last point of the rolling drawdown is missing

BreakerState == {"NORMAL", "TRIPPED", "RECOVERING"}

\* _validate_thresholds and the bounds of the fields.
ValidThresholds ==
    /\ Trigger \in -100 .. 0 /\ Recovery \in -100 .. 0
    /\ Trigger < Recovery
    /\ ConfirmDays \in Nat \ {0}
    /\ SafeEquity \in 1 .. 100

Breaker == [state : BreakerState, progress : 0 .. ConfirmDays]
Fresh == [state |-> "NORMAL", progress |-> 0]

\* A missing drawdown is read as none.
Reading(dd) == IF dd = NaN THEN 0 ELSE dd

Recovered(dd) == Reading(dd) > Recovery

WhenNormal(b, dd) ==
    IF Reading(dd) <= Trigger THEN [b EXCEPT !.state = "TRIPPED"] ELSE b

WhenTripped(b, dd) ==
    IF Recovered(dd) THEN [state |-> "RECOVERING", progress |-> 1] ELSE b

\* Faulty variants: a relapse is only a pause; the progress is never handed on.
PausesOnRelapse(b, dd) ==
    IF ~Recovered(dd) THEN b
    ELSE IF b.progress + 1 >= ConfirmDays THEN Fresh
    ELSE [b EXCEPT !.progress = @ + 1]
RestartsCount(b, dd) ==
    IF ~Recovered(dd) THEN [state |-> "TRIPPED", progress |-> 0]
    ELSE IF 1 >= ConfirmDays THEN Fresh ELSE b

WhenRecovering(b, dd) ==
    IF ~Recovered(dd) THEN [state |-> "TRIPPED", progress |-> 0]
    ELSE IF b.progress + 1 >= ConfirmDays THEN Fresh
    ELSE [b EXCEPT !.progress = @ + 1]

\* apply() of a non-empty book on a non-empty equity curve.
Apply(b, dd) ==
    CASE b.state = "NORMAL"     -> WhenNormal(b, dd)
      [] b.state = "TRIPPED"    -> WhenTripped(b, dd)
      [] b.state = "RECOVERING" -> WhenRecovering(b, dd)

\* Faulty variant: a fund that recovers is fully invested again.
FreesRecovering(b) == IF b.state = "TRIPPED" THEN SafeEquity ELSE 100

\* The fraction goes with the state apply() returns.
EquityFraction(b) == IF b.state = "NORMAL" THEN 100 ELSE SafeEquity
=============================================================================
