------------------------------ MODULE Adapters ------------------------------
(***************************************************************************)
(* The write side of the API process: AdapterManager and its adapters      *)
(* (src/csm/adapters), the hooks that write through them after a refresh   *)
(* or a backtest, the retries of GatewayClient, and the lifespan that      *)
(* connects and closes them (api/main.py).                                 *)
(*                                                                         *)
(* A hook is the list of slots it writes to, in order; whether it has      *)
(* something to write is decided elsewhere (DailyRefresh).  Three tasks    *)
(* run hooks: the cron job of the scheduler and the registry's workers for *)
(* refreshes and backtests.                                                *)
(* The databases, the gateway, the network, and the event loop, which may  *)
(* deliver a cancellation late, are external.                              *)
(***************************************************************************)
EXTENDS Integers, Sequences, FiniteSets, FiniteSetsExt

CONSTANTS
    MaxAttempts,   \* max_attempts of GatewayClient
    MaxHooks       \* bound on the hooks that are run

ASSUME AdaptersAssumption == MaxAttempts \in Nat \ {0} /\ MaxHooks \in Nat

Order == <<"postgres", "mongo", "gateway", "client">>
Slot == {"postgres", "mongo", "gateway", "client"}
Worker == {"refresh", "backtest"}
Task == {"cron"} \cup Worker

RefreshPlan == <<"mongo", "postgres", "client">>
BacktestPlan == <<"postgres", "mongo", "mongo">>

Phase == {"starting", "serving", "stopping", "closing", "closed", "failed"}
Step == {"idle", "step", "writing", "posting", "backoff"}

VARIABLES
    phase,      \* where the lifespan is
    turn,       \* the adapter of Order that is being connected, or closed
    slot,       \* the slots of the manager that are not None
    pool,       \* [Slot -> the client inside the adapter]
    pc, plan,   \* [Task -> where its hook is, and the writes it has left]
    report,     \* [Task -> the number of the report its hook posts]
    attempt,    \* [Task -> attempts made of that POST]
    cancelled,  \* tasks that are being cancelled
    crashed,    \* a worker of the registry died; its task holds the exception
    hooks,      \* hooks begun
    wire,       \* copies of a POST the gateway has not seen: [report, attempt]
    stored,     \* the report the gateway holds
    applied,    \* history: reports the gateway has held
    waived,     \* history: reports with a copy on the wire nobody waits for
    overlapped  \* history: reports of hooks that ran beside another

manager == <<phase, turn, slot, pool>>
gateway == <<wire, stored, applied, waived>>
hookVars == <<pc, plan, report, attempt>>
vars == <<manager, hookVars, cancelled, crashed, hooks, gateway, overlapped>>

Init ==
    /\ phase = "starting" /\ turn = 1
    /\ slot = {} /\ pool = [s \in Slot |-> "none"]
    /\ pc = [t \in Task |-> "idle"] /\ plan = [t \in Task |-> <<>>]
    /\ report = [t \in Task |-> 0] /\ attempt = [t \in Task |-> 0]
    /\ cancelled = {} /\ crashed = FALSE /\ hooks = 0
    /\ wire = {} /\ stored = 0 /\ applied = {} /\ waived = {} /\ overlapped = {}

-----------------------------------------------------------------------------
(* The lifespan *)

\* The next phase follows the last adapter.
Turn(next) ==
    IF turn = Len(Order) THEN phase' = next /\ turn' = 1
    ELSE turn' = turn + 1 /\ UNCHANGED phase

\* from_settings: an adapter that is configured and connects gets its slot.
Connect ==
    /\ phase = "starting"
    /\ slot' = slot \cup {Order[turn]}
    /\ pool' = [pool EXCEPT ![Order[turn]] = "open"]
    /\ Turn("serving")
    /\ UNCHANGED <<hookVars, cancelled, crashed, hooks, gateway, overlapped>>

\* One that is not configured, or fails to connect, leaves it None.
Downgrade ==
    /\ phase = "starting"
    /\ Turn("serving")
    /\ UNCHANGED <<slot, pool, hookVars, cancelled, crashed, hooks, gateway, overlapped>>

\* The client of an empty API key cannot be made; the exception ends the start.
StartFails ==
    /\ phase = "starting" /\ Order[turn] = "client"
    /\ phase' = "failed"
    /\ UNCHANGED <<turn, slot, pool, hookVars, cancelled, crashed, hooks, gateway, overlapped>>

\* Faulty variant: the jobs of the scheduler are left running.
StopWorkersOnly ==
    /\ phase = "serving"
    /\ phase' = "stopping"
    /\ cancelled' = cancelled \cup Worker
    /\ UNCHANGED <<turn, slot, pool, hookVars, crashed, hooks, gateway, overlapped>>

\* scheduler.shutdown and jobs.shutdown ask every task to end.
Stop ==
    /\ phase = "serving"
    /\ phase' = "stopping"
    /\ cancelled' = Task
    /\ UNCHANGED <<turn, slot, pool, hookVars, crashed, hooks, gateway, overlapped>>

\* jobs.shutdown returns: it waited for the workers, and not for the scheduler.
JobsStopped ==
    /\ phase = "stopping" /\ cancelled \cap Worker = {} /\ ~crashed
    /\ phase' = "closing"
    /\ UNCHANGED <<turn, slot, pool, hookVars, cancelled, crashed, hooks, gateway, overlapped>>

\* Awaiting the task of a worker that crashed raises; the adapters stay open.
JobsStopRaises ==
    /\ phase = "stopping" /\ crashed
    /\ phase' = "failed"
    /\ UNCHANGED <<turn, slot, pool, hookVars, cancelled, crashed, hooks, gateway, overlapped>>

\* close() of one adapter: its own reference goes first, then the pool is closed.
BeginClose ==
    /\ phase = "closing" /\ Order[turn] \in slot /\ pool[Order[turn]] = "open"
    /\ pool' = [pool EXCEPT ![Order[turn]] = "closing"]
    /\ UNCHANGED <<phase, turn, slot, hookVars, cancelled, crashed, hooks, gateway, overlapped>>

InUse(s) == \E t \in Task : pc[t] = "writing" /\ Head(plan[t]) = s

\* Faulty variant: the slot of a closed adapter stays set.
CloseInPlace ==
    /\ phase = "closing" /\ pool[Order[turn]] = "closing"
    /\ pool' = [pool EXCEPT ![Order[turn]] = "closed"]
    /\ Turn("closed")
    /\ UNCHANGED <<slot, hookVars, cancelled, crashed, hooks, gateway, overlapped>>

\* asyncpg waits for the connections in use; a close that raises is logged.
EndClose ==
    /\ phase = "closing" /\ pool[Order[turn]] = "closing"
    /\ Order[turn] = "postgres" => ~InUse("postgres")
    /\ pool' = [pool EXCEPT ![Order[turn]] = "closed"]
    /\ slot' = slot \ {Order[turn]}
    /\ Turn("closed")
    /\ UNCHANGED <<hookVars, cancelled, crashed, hooks, gateway, overlapped>>

SkipClose ==
    /\ phase = "closing" /\ Order[turn] \notin slot
    /\ Turn("closed")
    /\ UNCHANGED <<slot, pool, hookVars, cancelled, crashed, hooks, gateway, overlapped>>

-----------------------------------------------------------------------------
(* A hook *)

Busy == {t \in Task : pc[t] # "idle"}
Posts(t) == report[t] # 0

\* A refresh ends in its hook, as does a backtest.
Begin(t) ==
    /\ phase = "serving" /\ pc[t] = "idle" /\ t \notin cancelled /\ hooks < MaxHooks
    /\ hooks' = hooks + 1
    /\ pc' = [pc EXCEPT ![t] = "step"]
    /\ \/ /\ t # "backtest"
          /\ plan' = [plan EXCEPT ![t] = RefreshPlan]
          /\ report' = [report EXCEPT ![t] = hooks']
          /\ overlapped' = IF {u \in Busy : Posts(u)} = {} THEN overlapped
                           ELSE overlapped \cup {hooks'} \cup {report[u] : u \in Busy}
       \/ /\ t = "backtest"
          /\ plan' = [plan EXCEPT ![t] = BacktestPlan]
          /\ report' = [report EXCEPT ![t] = 0]
          /\ UNCHANGED overlapped
    /\ UNCHANGED <<manager, attempt, cancelled, crashed, gateway>>

\* The hook goes on to its next write, whatever became of this one.
Advance(t) ==
    /\ plan' = [plan EXCEPT ![t] = Tail(@)]
    /\ pc' = [pc EXCEPT ![t] = IF Len(plan[t]) = 1 THEN "idle" ELSE "step"]
    /\ attempt' = [attempt EXCEPT ![t] = 0]
    /\ UNCHANGED report

AtStep(t, s) == pc[t] = "step" /\ Head(plan[t]) = s

\* No slot, nothing to write, or an adapter that is closed: _require_pool raises.
Skip(t) ==
    /\ pc[t] = "step"
    /\ Advance(t)
    /\ UNCHANGED <<manager, cancelled, crashed, hooks, gateway, overlapped>>

Write(t) ==
    /\ \E s \in slot \ {"client"} : AtStep(t, s) /\ pool[s] = "open"
    /\ pc' = [pc EXCEPT ![t] = "writing"]
    /\ UNCHANGED <<manager, plan, report, attempt, cancelled, crashed, hooks, gateway, overlapped>>

\* Faulty variant: an exception of a write ends the hook.
EndAtFailure(t) ==
    /\ pc[t] = "writing"
    /\ pc' = [pc EXCEPT ![t] = "idle"] /\ plan' = [plan EXCEPT ![t] = <<>>]
    /\ UNCHANGED <<report, attempt>>
    /\ UNCHANGED <<manager, cancelled, crashed, hooks, gateway, overlapped>>

Written(t) ==
    /\ pc[t] = "writing"
    /\ Advance(t)
    /\ UNCHANGED <<manager, cancelled, crashed, hooks, gateway, overlapped>>

\* The database raised, or the pool closed under the write: the hook logs that.
WriteRaises(t) ==
    /\ pc[t] = "writing"
    /\ Advance(t)
    /\ UNCHANGED <<manager, cancelled, crashed, hooks, gateway, overlapped>>

-----------------------------------------------------------------------------
(* GatewayClient.post_daily_report *)

Copy(t) == [report |-> report[t], attempt |-> attempt[t]]

\* Faulty variant: the POST is left to a task of its own.
SendInBackground(t) ==
    /\ AtStep(t, "client") /\ "client" \in slot /\ pool["client"] = "open"
    /\ wire' = wire \cup {[report |-> report[t], attempt |-> 1]}
    /\ Advance(t)
    /\ UNCHANGED <<manager, cancelled, crashed, hooks, stored, applied, waived, overlapped>>

\* The first attempt, or the one after a backoff.
Send(t) ==
    /\ \/ AtStep(t, "client") /\ "client" \in slot
       \/ pc[t] = "backoff"
    /\ pool["client"] = "open"
    /\ pc' = [pc EXCEPT ![t] = "posting"]
    /\ attempt' = [attempt EXCEPT ![t] = @ + 1]
    /\ wire' = wire \cup {[report |-> report[t], attempt |-> attempt'[t]]}
    /\ UNCHANGED <<manager, plan, report, cancelled, crashed, hooks, stored, applied, waived, overlapped>>

\* Another attempt, or GatewayWriteError, which the hook logs.
Again(t) ==
    IF attempt[t] < MaxAttempts
    THEN pc' = [pc EXCEPT ![t] = "backoff"] /\ UNCHANGED <<plan, report, attempt>>
    ELSE Advance(t)

\* The gateway stored this copy: 2xx; or 5xx, or a lost answer, and another attempt.
Accepted(t) ==
    /\ pc[t] = "posting" /\ Copy(t) \notin wire
    /\ Advance(t) \/ Again(t)
    /\ UNCHANGED <<manager, cancelled, crashed, hooks, gateway, overlapped>>

\* 4xx, which is final, or 5xx: the gateway did not store this copy.
Refused(t) ==
    /\ pc[t] = "posting" /\ Copy(t) \in wire
    /\ wire' = wire \ {Copy(t)}
    /\ Advance(t) \/ Again(t)
    /\ UNCHANGED <<manager, cancelled, crashed, hooks, stored, applied, waived, overlapped>>

\* A timeout: the copy is still on its way.
Unanswered(t) ==
    /\ pc[t] = "posting" /\ Copy(t) \in wire
    /\ waived' = waived \cup {report[t]}
    /\ Again(t)
    /\ UNCHANGED <<manager, cancelled, crashed, hooks, wire, stored, applied, overlapped>>

\* After the backoff the client is closed: the hook logs the RuntimeError.
SendRaises(t) ==
    /\ pc[t] = "backoff" /\ pool["client"] # "open"
    /\ Advance(t)
    /\ UNCHANGED <<manager, cancelled, crashed, hooks, gateway, overlapped>>

\* The gateway upserts the day's row; the network may lose a copy.
Deliver ==
    \E c \in wire :
        /\ wire' = wire \ {c}
        /\ stored' = c.report
        /\ applied' = applied \cup {c.report}
        /\ UNCHANGED <<manager, hookVars, cancelled, crashed, hooks, waived, overlapped>>

-----------------------------------------------------------------------------
\* The time limit of a refresh expires in its hook.
CutOff(t) ==
    /\ phase = "serving" /\ pc[t] # "idle" /\ Posts(t)
    /\ cancelled' = cancelled \cup {t}
    /\ UNCHANGED <<manager, hookVars, crashed, hooks, gateway, overlapped>>

\* The cancellation arrives; what the task was waiting for may still take effect.
Cancelled(t) ==
    /\ t \in cancelled
    /\ cancelled' = cancelled \ {t}
    /\ pc' = [pc EXCEPT ![t] = "idle"] /\ plan' = [plan EXCEPT ![t] = <<>>]
    /\ attempt' = [attempt EXCEPT ![t] = 0]
    /\ waived' = waived \cup {c.report : c \in {d \in wire : d = Copy(t)}}
    /\ UNCHANGED <<manager, report, crashed, hooks, wire, stored, applied, overlapped>>

\* _persist raises in a worker of another kind.
Crash ==
    /\ phase = "serving" /\ ~crashed
    /\ crashed' = TRUE
    /\ UNCHANGED <<manager, hookVars, cancelled, hooks, gateway, overlapped>>

Startup == Connect \/ Downgrade \/ StartFails
Shutdown == JobsStopped \/ JobsStopRaises \/ BeginClose \/ EndClose \/ SkipClose
Post(t) == Send(t) \/ Accepted(t) \/ Refused(t) \/ Unanswered(t) \/ SendRaises(t)
HookStep(t) == Skip(t) \/ Write(t) \/ Written(t) \/ WriteRaises(t) \/ Post(t)

Next ==
    \/ Startup \/ Stop \/ Shutdown \/ Deliver \/ Crash
    \/ \E t \in Task : Begin(t) \/ HookStep(t) \/ CutOff(t) \/ Cancelled(t)

\* The event loop runs what is ready; the network may never deliver.
Spec ==
    /\ Init /\ [][Next]_vars
    /\ WF_vars(Shutdown)
    /\ \A t \in Task : WF_vars(Cancelled(t))

-----------------------------------------------------------------------------
\* The type invariant.  A slot that is set has a client inside its adapter.
TypeOK ==
    /\ phase \in Phase /\ turn \in 1 .. Len(Order)
    /\ slot \subseteq Slot
    /\ pool \in [Slot -> {"none", "open", "closing", "closed"}]
    /\ \A s \in slot : pool[s] \in {"open", "closing"}
    /\ pc \in [Task -> Step]
    /\ \A t \in Task : (pc[t] = "idle") = (plan[t] = <<>>)
    /\ report \in [Task -> 0 .. MaxHooks] /\ attempt \in [Task -> 0 .. MaxAttempts]
    /\ cancelled \subseteq Task /\ crashed \in BOOLEAN /\ hooks \in 0 .. MaxHooks
    /\ wire \subseteq [report : 1 .. MaxHooks, attempt : 1 .. MaxAttempts]
    /\ stored \in 0 .. MaxHooks

\* "A Postgres outage does not block Mongo or Gateway writes": through failures,
\* retries and adapters that close under it, a hook that is not cancelled comes to
\* its last write.
HookRunsThrough ==
    [][ \A t \in Task :
          pc[t] # "idle" /\ pc'[t] = "idle" => t \in cancelled \/ Len(plan[t]) = 1 ]_vars

\* The gateway goes back to an older report only by a copy that was sent before the
\* newer one and given up unanswered, or if two refreshes ran side by side: the
\* retries of one POST alone never do it.
OnlyLateCopiesRegress ==
    stored = 0 \/ \A r \in applied : r > stored => stored \in waived \cup overlapped

\* Every adapter is closed, and its slot cleared, at the end of a shutdown, although
\* a refresh of the scheduler may still be writing when it begins, unless a worker
\* of the registry had crashed.
AllClosed == slot = {} /\ \A s \in Slot : pool[s] # "open"
TeardownCompletes ==
    phase = "stopping" /\ ~crashed ~> phase = "closed" /\ AllClosed
=============================================================================
