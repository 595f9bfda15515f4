----------------------------- MODULE BatchFetch -----------------------------
(***************************************************************************)
(* One phase of fetching in a refresh: the outer retries of                *)
(* _fetch_batch_with_retry (api/scheduler/jobs.py) around fetch_batch of   *)
(* the two sources (src/csm/data/loader.py, engine_loader.py with          *)
(* market_data_engine_client.py): a task for every symbol, a semaphore,    *)
(* retries of each request, the time limit of a symbol.  The cut-off of    *)
(* the whole refresh may come at any await.  The vendor is external: it    *)
(* may answer, fail, or never answer.                                      *)
(***************************************************************************)
EXTENDS Integers, FiniteSets

CONSTANTS
    Symbol,
    Concurrency,     \* tvkit_concurrency
    BatchAttempts,   \* max_attempts of the phase
    FetchAttempts    \* requests made for a symbol in one attempt of the phase

ASSUME BatchFetchAssumption ==
    /\ IsFiniteSet(Symbol) /\ Symbol # {}
    /\ {Concurrency, BatchAttempts, FetchAttempts} \subseteq Nat \ {0}

Task == {"none", "waiting", "fetching", "usable", "empty", "omitted", "cancelled"}

VARIABLES
    source,      \* settings.ohlcv_source
    at,          \* "sleep" between attempts, "batch", "cutting", "done", "cut", "failed"
    task,        \* [Symbol -> its task in this attempt, or what it returned]
    tries,       \* [Symbol -> requests its task has made]
    merged,      \* symbols with a usable frame
    attempts,    \* attempts of the phase that have ended
    delivered    \* history: symbols for which usable data has come

perTask == <<task, tries>>
vars == <<source, at, perTask, merged, attempts, delivered>>

Init ==
    /\ source \in {"parquet", "db"}
    /\ at = "sleep"
    /\ task = [s \in Symbol |-> "none"] /\ tries = [s \in Symbol |-> 0]
    /\ merged = {} /\ attempts = 0 /\ delivered = {}

In(state) == {s \in Symbol : task[s] = state}
Active == In("waiting") \cup In("fetching")

-----------------------------------------------------------------------------
\* After the backoff, fetch_batch makes a task for every symbol still missing.
Begin ==
    /\ at = "sleep"
    /\ at' = "batch"
    /\ task' = [s \in Symbol |-> IF s \in merged THEN "none" ELSE "waiting"]
    /\ tries' = [s \in Symbol |-> 0]
    /\ UNCHANGED <<source, merged, attempts, delivered>>

\* Faulty variant: the semaphore is made anew for every symbol.
AcquireFreely(s) ==
    /\ at = "batch" /\ task[s] = "waiting"
    /\ task' = [task EXCEPT ![s] = "fetching"]
    /\ tries' = [tries EXCEPT ![s] = 1]
    /\ UNCHANGED <<source, at, merged, attempts, delivered>>

Acquire(s) ==
    /\ at \in {"batch", "failed"} /\ task[s] = "waiting"
    /\ Cardinality(In("fetching")) < Concurrency
    /\ task' = [task EXCEPT ![s] = "fetching"]
    /\ tries' = [tries EXCEPT ![s] = 1]
    /\ UNCHANGED <<source, at, merged, attempts, delivered>>

\* What a task returns frees its place.
Return(s, what) ==
    /\ at = "batch" /\ task[s] = "fetching"
    /\ task' = [task EXCEPT ![s] = what]
    /\ UNCHANGED <<source, at, tries, merged, attempts>>

\* A frame, which may have no bar or no close.
Answered(s) ==
    \/ Return(s, "usable") /\ delivered' = delivered \cup {s}
    \/ Return(s, "empty") /\ UNCHANGED delivered

\* A failure of the connection, a 5xx, a timeout of the HTTP client: another
\* request, unless it was the last.
TransientFailure(s) ==
    IF tries[s] = FetchAttempts
    THEN Return(s, "omitted") /\ UNCHANGED delivered
    ELSE /\ at = "batch" /\ task[s] = "fetching"
         /\ tries' = [tries EXCEPT ![s] = @ + 1]
         /\ UNCHANGED <<source, at, task, merged, attempts, delivered>>

\* A bad symbol, a 4xx, a body that cannot be parsed: no further request.
FinalFailure(s) == Return(s, "omitted") /\ UNCHANGED delivered

\* Faulty variant: only the other source limits the time of a symbol.
WaitForAnswer(s) ==
    /\ source = "db" /\ tries[s] = FetchAttempts
    /\ Return(s, "omitted") /\ UNCHANGED delivered

\* The WebSocket of tvkit has no timeout of its own: SYMBOL_FETCH_TIMEOUT_SECS
\* limits all the requests of a symbol together, from when it has its place.
GivenUp(s) ==
    /\ source = "parquet"
    /\ Return(s, "omitted") /\ UNCHANGED delivered

\* Faulty variant: a symbol that came back counts, with or without data.
KeepEveryKey ==
    /\ at = "batch" /\ Active = {}
    /\ merged' = merged \cup In("usable") \cup In("empty")
    /\ attempts' = attempts + 1
    /\ at' = IF merged' = Symbol \/ attempts' = BatchAttempts THEN "done" ELSE "sleep"
    /\ task' = [s \in Symbol |-> "none"]
    /\ UNCHANGED <<source, tries, delivered>>

\* gather has every result: the usable frames are merged, the rest remains.
Gathered ==
    /\ at = "batch" /\ Active = {}
    /\ merged' = merged \cup In("usable")
    /\ attempts' = attempts + 1
    /\ at' = IF merged' = Symbol \/ attempts' = BatchAttempts THEN "done" ELSE "sleep"
    /\ task' = [s \in Symbol |-> "none"]
    /\ UNCHANGED <<source, tries, delivered>>

-----------------------------------------------------------------------------
\* No frame can be built of the answer, an exception no task catches: gather raises it
\* and the refresh fails.  The other tasks are left behind.
Raise(s) ==
    /\ at = "batch" /\ task[s] = "fetching"
    /\ at' = "failed"
    /\ task' = [task EXCEPT ![s] = "omitted"]
    /\ UNCHANGED <<source, tries, merged, attempts, delivered>>

\* They still wait for their places, and what they return is lost.
LeftBehind(s) ==
    /\ at = "failed" /\ task[s] = "fetching"
    /\ task' = [task EXCEPT ![s] = "omitted"]
    /\ UNCHANGED <<source, at, tries, merged, attempts, delivered>>

\* The refresh is cut off in the backoff, or while gather waits: gather cancels its
\* tasks, and its own cancellation waits for them.
CutOff ==
    /\ at \in {"sleep", "batch"}
    /\ at' = IF at = "sleep" THEN "cut" ELSE "cutting"
    /\ UNCHANGED <<source, perTask, merged, attempts, delivered>>

Unwind(s) ==
    /\ at = "cutting" /\ s \in Active
    /\ task' = [task EXCEPT ![s] = "cancelled"]
    /\ UNCHANGED <<source, at, tries, merged, attempts, delivered>>

GatherCancelled ==
    /\ at = "cutting" /\ Active = {}
    /\ at' = "cut"
    /\ UNCHANGED <<source, perTask, merged, attempts, delivered>>

Settle(s) == Answered(s) \/ TransientFailure(s) \/ FinalFailure(s) \/ GivenUp(s)

Next ==
    \/ Begin \/ Gathered \/ CutOff \/ GatherCancelled
    \/ \E s \in Symbol : Acquire(s) \/ Settle(s) \/ Raise(s) \/ LeftBehind(s) \/ Unwind(s)

\* The event loop runs what is ready and its timers fire: the limit of a symbol in one
\* source, the HTTP client's timeout in the other.  Nothing obliges the vendor.
Spec ==
    /\ Init /\ [][Next]_vars
    /\ WF_vars(Begin) /\ WF_vars(Gathered)
    /\ WF_vars(\E s \in Symbol : Acquire(s))
    /\ \A s \in Symbol :
        /\ WF_vars(GivenUp(s))
        /\ WF_vars(source = "db" /\ TransientFailure(s))

-----------------------------------------------------------------------------
\* The type invariant, with the promise of the semaphore: no more requests are open
\* than tvkit_concurrency, through retries and attempts and by the tasks of a phase
\* that failed, and none once the phase is over or was cut off.
TypeOK ==
    /\ source \in {"parquet", "db"}
    /\ at \in {"sleep", "batch", "cutting", "done", "cut", "failed"}
    /\ task \in [Symbol -> Task] /\ tries \in [Symbol -> 0 .. FetchAttempts]
    /\ merged \subseteq Symbol /\ delivered \subseteq Symbol
    /\ attempts \in 0 .. BatchAttempts
    /\ Cardinality(In("fetching")) <= Concurrency
    /\ at \in {"sleep", "done", "cut"} => Active = {}

-----------------------------------------------------------------------------
status == IF at \in {"sleep", "batch"} THEN "running" ELSE IF at = "done" THEN "done" ELSE "cut"

Phase == INSTANCE FetchPhase WITH
    Symbol <- Symbol, BatchAttempts <- BatchAttempts,
    delivered <- delivered, got <- merged, attempts <- attempts, status <- status

\* The phase implements what DailyRefresh steps through: however tasks, retries and
\* attempts interleave, data that came is taken over and nothing else counts as
\* fetched, and the phase ends although a symbol is never answered.
ImplementsPhase == Phase!Spec
=============================================================================
