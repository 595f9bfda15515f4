--------------------------- MODULE DailyRefresh ---------------------------
(***************************************************************************)
(* The daily refresh (api/scheduler/jobs.py), the hook it runs last        *)
(* (src/csm/adapters/hooks.py), the holiday calendar it asks first         *)
(* (src/csm/data/calendar.py) and the backtest that reads what it wrote.   *)
(*                                                                         *)
(* The cron job and the manual trigger are two coroutines of one event     *)
(* loop: between two awaits a run has the loop to itself (busy), the       *)
(* backtest's thread excepted.  A price is the version of a bar: 0 is no   *)
(* bar, 1 a bar of the session in progress, 2 the settled one.  A parquet  *)
(* file is torn while it is written.  Of a data set only its version and   *)
(* the bars of the held symbols are kept; the signal snapshot, which is    *)
(* derived from the feature panel alone, is an await and nothing else.     *)
(***************************************************************************)
EXTENDS Integers, FiniteSets

CONSTANTS
    Runner,            \* who calls bounded_daily_refresh: the cron job, the trigger
    Held,              \* symbols of live_portfolio.yaml
    Universe,          \* symbols of universe_latest
    Index,             \* INDEX_SYMBOL
    LastDay,           \* the calendar is 1 .. LastDay
    Open,              \* the days SET trades
    Late,              \* <<symbol, day>> whose bar carries the later of the two stamps
    Listed,            \* closures of the year in FALLBACK_SET_HOLIDAYS, right or wrong
    Announced,         \* closures the calendar endpoint lists at first, right or wrong
    SamePath,          \* results_dir is the directory of HOLIDAY_CACHE_PATH
    Startups,          \* the sets of adapter slots a start of the process may connect
    HeldAttempts,      \* refresh_held_max_attempts
    UniverseAttempts,  \* refresh_universe_max_attempts
    PostAttempts,      \* the gateway client's max_attempts
    MaxRuns,           \* bound: refreshes started
    MaxFaults          \* bound: failed fetches, writes, builds and POSTs, cut-offs,
                       \* restarts, changes of the calendar, starts short of a slot

Day == 1 .. LastDay
Swept == (Universe \cup {Index}) \ Held      \* universe_only
Symbol == Held \cup Swept
Slot == {"mongo", "postgres", "gateway"}
Nobody == "nobody"

ASSUME DailyRefreshAssumption ==
    /\ Held # {} /\ IsFiniteSet(Symbol)
    /\ Nobody \notin Runner
    /\ LastDay \in Nat \ {0, 1}
    /\ {1, 2} \subseteq Open /\ Open \subseteq Day
    /\ Late \subseteq Held \X Day
    /\ Listed \subseteq Day /\ Announced \subseteq Day
    /\ SamePath \in BOOLEAN
    /\ Startups \subseteq SUBSET Slot
    /\ HeldAttempts \in Nat \ {0} /\ UniverseAttempts \in Nat \ {0}
    /\ PostAttempts \in Nat \ {0}
    /\ MaxRuns \in Nat /\ MaxFaults \in Nat

Bars == [Held -> [Day -> 0 .. 2]]
NoBars == [s \in Held |-> [d \in Day |-> 0]]
Row == [Held -> 0 .. 2]
NoRow == [s \in Held |-> 0]

VARIABLES
    today,     \* the Bangkok date
    bars,      \* vendor: the bars it serves
    published, \* endpoint: the closures of the year it lists
    banked,    \* results/.tmp/set_holidays.json: the closures banked, {} if none are
    slots,     \* the AdapterManager's slots that are not None
    wire,      \* POSTs given up by the client that may still reach the gateway
    pc,        \* where each runner's daily_refresh is
    tries,     \* attempts made in the current fetch phase
    got,       \* the symbols fetched so far
    frames,    \* the held symbols' bars as fetched, then as the hook loaded them
    busy,      \* the runner between two awaits that has the event loop
    prices,    \* prices_latest: version and bars of the held symbols
    features,  \* features_latest: version of the prices it was built from
    equity,    \* equity_curve: each day's row
    gateway,   \* daily_performance: each day's row and the day it was valued on
    marker,    \* last_refresh.json
    backtest,  \* the backtest's thread: the version of what it has loaded
    runs,      \* refreshes started
    faults,    \* faults so far
    failed,    \* history: a write of the hook of this run failed
    raced,     \* history: rows were written, by another run or by a POST given up,
               \* while this run was in flight
    polled,    \* history: what is banked was captured since the endpoint last changed
    unbuilt    \* history: versions of prices whose feature build did not finish

local == <<pc, tries, got, frames, failed, raced>>
market == <<today, bars, published, banked, polled>>
links == <<slots, wire>>
store == <<prices, features>>
rows == <<equity, gateway, marker>>
vars == <<market, links, local, busy, store, rows, backtest, runs, faults, unbuilt>>

Awaiting == {"held", "universe", "snapshot", "equity", "checking", "gateway", "answer"}
Working == {"saving", "writing", "building", "storing"}
\* How often a request may be tried, by the place of the run.
Attempts(place) ==
    CASE place = "held" -> HeldAttempts
      [] place = "universe" -> UniverseAttempts
      [] place \in {"gateway", "answer"} -> PostAttempts
      [] OTHER -> 1

None == -1
NotLoaded == [features |-> None, prices |-> None]
Report == [of : 0 .. LastDay, row : Row]
NoReport == [of |-> 0, row |-> NoRow]
\* by and no tell the copies apart; stale is history: another report has reached the
\* gateway since this one was sent, or its run was raced or had fetched nothing.
Copy == [by : Runner, no : 1 .. MaxFaults, day : Day, report : Report, stale : BOOLEAN]

TypeOK ==
    /\ today \in Day
    /\ bars \in Bars
    /\ published \subseteq Day /\ banked \subseteq Day /\ polled \in BOOLEAN
    /\ slots \subseteq Slot
    /\ wire \subseteq Copy
    /\ pc \in [Runner -> {"idle"} \cup Awaiting \cup Working]
    /\ tries \in [Runner -> Nat] /\ \A r \in Runner : tries[r] < Attempts(pc[r])
    /\ got \in [Runner -> SUBSET Symbol]
    /\ frames \in [Runner -> Bars]
    /\ busy \in Runner \cup {Nobody}
    /\ prices \in [whole : BOOLEAN, version : Nat, bars : Bars]
    /\ features \in [is : {"whole", "empty", "torn"}, version : Nat]
    /\ equity \in [Day -> Row]
    /\ gateway \in [Day -> Report]
    /\ marker \in [kind : {"none", "holiday", "refresh"}, day : 0 .. LastDay]
    /\ backtest \in [features : Nat \cup {None}, prices : Nat \cup {None}]
    /\ runs \in 0 .. MaxRuns
    /\ faults \in 0 .. MaxFaults
    /\ failed \in [Runner -> BOOLEAN]
    /\ raced \in [Runner -> BOOLEAN]
    /\ unbuilt \subseteq Nat

StartFaults(connected) == IF connected = Slot THEN 0 ELSE 1

\* Day 1 is history: settled, refreshed, reported.
Init ==
    /\ today = 2
    /\ bars = [s \in Held |-> [d \in Day |-> IF d = 1 THEN 2 ELSE 0]]
    /\ published = Announced /\ banked = {} /\ polled = FALSE
    /\ slots \in Startups
    /\ wire = {}
    /\ pc = [r \in Runner |-> "idle"]
    /\ tries = [r \in Runner |-> 0]
    /\ got = [r \in Runner |-> {}]
    /\ frames = [r \in Runner |-> NoBars]
    /\ busy = Nobody
    /\ prices = [whole |-> TRUE, version |-> 0, bars |-> bars]
    /\ features = [is |-> "whole", version |-> 0]
    /\ equity = [d \in Day |-> [s \in Held |-> bars[s][d]]]
    /\ gateway = [d \in Day |-> IF d = 1 THEN [of |-> 1, row |-> equity[1]] ELSE NoReport]
    /\ marker = [kind |-> "none", day |-> 0]
    /\ backtest = NotLoaded
    /\ runs = 0
    /\ faults = StartFaults(slots)
    /\ faults <= MaxFaults
    /\ failed = [r \in Runner |-> FALSE]
    /\ raced = [r \in Runner |-> FALSE]
    /\ unbuilt = {}

Fault == faults < MaxFaults /\ faults' = faults + 1

-----------------------------------------------------------------------------
(* The market, its data vendor and its calendar.  Nothing a busy run does reads or   *)
(* writes what these and the databases change: they wait for busy = Nobody, and only *)
(* the backtest's thread and a restart cut into the steps between two awaits.        *)

\* A bar appears during the session, is settled after it, may come late or never.
\* (Bound: only while a run may still fetch it.)
Publish(s, d) ==
    /\ busy = Nobody
    /\ runs < MaxRuns \/ \E r \in Runner : pc[r] = "held"
    /\ d \in Open /\ d <= today
    /\ \E v \in (IF d = today THEN {1, 2} ELSE {2}) :
        /\ bars[s][d] < v
        /\ bars' = [bars EXCEPT ![s][d] = v]
    /\ UNCHANGED <<today, published, banked, polled, links, local, busy, store, rows, backtest,
                   runs, faults, unbuilt>>

\* (Bound: the last day, and only while a run is under way or to come.)
Midnight ==
    /\ busy = Nobody
    /\ today < LastDay
    /\ runs < MaxRuns \/ \E r \in Runner : pc[r] # "idle"
    /\ today' = today + 1
    /\ UNCHANGED <<bars, published, banked, polled, links, local, busy, store, rows, backtest,
                   runs, faults, unbuilt>>

\* A closure is added in the middle of the year, or a listing withdrawn.  (Bounds: no
\* refresh asks of a day that is past, and after the last one nothing asks at all.)
Revise(d) ==
    /\ busy = Nobody
    /\ d >= today /\ runs < MaxRuns
    /\ Fault
    /\ published' = IF d \in published THEN published \ {d} ELSE published \cup {d}
    /\ polled' = FALSE
    /\ UNCHANGED <<today, bars, banked, links, local, busy, store, rows, backtest, runs, unbuilt>>

\* Faulty variant of the capture: it is merged into what was banked before.
Merged == banked \cup published

\* The capture replaces what was banked for the year.
Captured == published

\* holiday_poll: the endpoint served.  A poll that fails or gets an empty calendar
\* changes nothing.
HolidayPoll ==
    /\ busy = Nobody
    /\ published # {}
    /\ ~polled /\ runs < MaxRuns
    /\ banked' = Captured
    /\ polled' = TRUE
    /\ UNCHANGED <<today, bars, published, links, local, busy, store, rows, backtest, runs,
                   faults, unbuilt>>

\* is_set_holiday: the banked calendar at the default path, else the committed table,
\* else open.
IsSetHoliday(d) == IF SamePath /\ banked # {} THEN d \in banked ELSE d \in Listed

-----------------------------------------------------------------------------
(* What the hook makes of the prices it loads *)

\* Faulty variant of collapse_to_daily_bars: the last bar of the day, not the union.
LastBarOnly(panel, d) ==
    LET split == \E s \in Held : <<s, d>> \in Late /\ panel[s][d] > 0 IN
    [s \in Held |-> IF split /\ <<s, d>> \notin Late THEN 0 ELSE panel[s][d]]

DailyBars(panel, d) == [s \in Held |-> panel[s][d]]

\* Faulty variant of drop_unpriced_days: an unpriced holding is worth nothing.
SomePriced(panel) == {d \in Day : \E s \in Held : DailyBars(panel, d)[s] > 0}

\* drop_unpriced_days: a day is valued with every held symbol priced, or not at all.
PricedDays(panel) == {d \in Day : \A s \in Held : DailyBars(panel, d)[s] > 0}

\* LivePortfolioMetrics.snapshot_time: the last bar the book was valued on.
BarDate(panel) == CHOOSE d \in PricedDays(panel) : \A e \in PricedDays(panel) : e <= d

\* Faulty variant: the report is stamped with the wall clock when it is sent.
StampedNow(panel) == today

\* as_of: the day the gateway keys the report by is that of the bar.
AsOf(panel) == BarDate(panel)

-----------------------------------------------------------------------------
(* One run of daily_refresh *)

\* The coroutine ends and its locals go with it.
Ends(r) ==
    /\ pc' = [pc EXCEPT ![r] = "idle"]
    /\ tries' = [tries EXCEPT ![r] = 0]
    /\ got' = [got EXCEPT ![r] = {}]
    /\ frames' = [frames EXCEPT ![r] = NoBars]
    /\ failed' = [failed EXCEPT ![r] = FALSE]
    /\ raced' = [raced EXCEPT ![r] = FALSE]

WriteMarker(kind) == marker' = [kind |-> kind, day |-> today]

SkipHoliday(r) ==
    /\ busy = Nobody
    /\ pc[r] = "idle" /\ runs < MaxRuns
    /\ IsSetHoliday(today)
    /\ runs' = runs + 1
    /\ WriteMarker("holiday")
    /\ UNCHANGED <<market, links, local, busy, store, equity, gateway, backtest, faults, unbuilt>>

Start(r) ==
    /\ busy = Nobody
    /\ pc[r] = "idle" /\ runs < MaxRuns
    /\ ~IsSetHoliday(today)
    /\ runs' = runs + 1
    /\ pc' = [pc EXCEPT ![r] = "held"]
    /\ UNCHANGED <<market, links, tries, got, frames, failed, raced, busy, store, rows, backtest,
                   faults, unbuilt>>

\* One attempt of _fetch_batch_with_retry: the symbols that came back with data
\* leave the remainder; the phase ends when nothing remains or at the last attempt.
\* (A phase counts one fault, however many of its attempts fail.)
Fetch(r, wanted, attempts, next) ==
    LET remaining == wanted \ got[r] IN
    \E recovered \in SUBSET remaining :
        /\ IF recovered = remaining \/ tries[r] > 0 THEN UNCHANGED faults ELSE Fault
        /\ got' = [got EXCEPT ![r] = @ \cup recovered]
        /\ frames' = [frames EXCEPT ![r] =
                        [s \in Held |-> IF s \in recovered THEN bars[s] ELSE @[s]]]
        /\ IF recovered = remaining \/ tries[r] + 1 = attempts
           THEN /\ pc' = [pc EXCEPT ![r] = next]
                /\ tries' = [tries EXCEPT ![r] = 0]
           ELSE /\ tries' = [tries EXCEPT ![r] = @ + 1]
                /\ UNCHANGED pc

\* Faulty variant: one attempt too many.
FetchHeldOnceMore(r) ==
    /\ busy = Nobody
    /\ pc[r] = "held"
    /\ Fetch(r, Held, HeldAttempts + 1, "universe")
    /\ UNCHANGED <<market, links, failed, raced, busy, store, rows, backtest, runs, unbuilt>>

FetchHeld(r) ==
    /\ busy = Nobody
    /\ pc[r] = "held"
    /\ Fetch(r, Held, HeldAttempts, "universe")
    /\ UNCHANGED <<market, links, failed, raced, busy, store, rows, backtest, runs, unbuilt>>

\* From the last answer to the hook's first await the run does not yield.
FetchUniverse(r) ==
    /\ busy = Nobody
    /\ pc[r] = "universe"
    /\ Fetch(r, Swept, UniverseAttempts, "saving")
    /\ busy' = IF pc'[r] = "saving" THEN r ELSE Nobody
    /\ UNCHANGED <<market, links, failed, raced, store, rows, backtest, runs, unbuilt>>

\* prices_latest is saved only if something was fetched.
BeginPrices(r) ==
    /\ pc[r] = "saving"
    /\ IF got[r] = {}
       THEN /\ pc' = [pc EXCEPT ![r] = "building"]
            /\ UNCHANGED prices
       ELSE /\ pc' = [pc EXCEPT ![r] = "writing"]
            /\ prices' = [whole |-> FALSE, version |-> prices.version + 1, bars |-> NoBars]
    /\ UNCHANGED <<market, links, tries, got, frames, failed, raced, busy, features, rows, backtest,
                   runs, faults, unbuilt>>

EndPrices(r) ==
    /\ pc[r] = "writing"
    /\ prices' = [prices EXCEPT !.whole = TRUE, !.bars = frames[r]]
    /\ pc' = [pc EXCEPT ![r] = "building"]
    /\ UNCHANGED <<market, links, tries, got, frames, failed, raced, busy, features, rows, backtest,
                   runs, faults, unbuilt>>

\* Faulty variant: without the index the panel is not rebuilt.
BuildNeedsIndex(r) ==
    /\ pc[r] = "building"
    /\ IF Index \in got[r]
       THEN /\ features' = [is |-> "torn", version |-> prices.version]
            /\ pc' = [pc EXCEPT ![r] = "storing"]
            /\ UNCHANGED <<tries, got, frames, busy>>
       ELSE /\ pc' = [pc EXCEPT ![r] = "snapshot"]
            /\ frames' = [frames EXCEPT ![r] = prices.bars]
            /\ busy' = Nobody
            /\ UNCHANGED <<features, tries, got>>
    /\ UNCHANGED <<market, links, failed, raced, prices, rows, backtest, runs, faults, unbuilt>>

\* FeaturePipeline.build, up to the opening of the file it saves.
BuildFeatures(r) ==
    /\ pc[r] = "building"
    /\ features' = [is |-> "torn", version |-> prices.version]
    /\ pc' = [pc EXCEPT ![r] = "storing"]
    /\ UNCHANGED <<market, links, tries, got, frames, failed, raced, busy, prices, rows, backtest,
                   runs, faults, unbuilt>>

\* build() refuses a frame: the run fails, with the prices already saved.
BuildRaises(r) ==
    /\ pc[r] = "building"
    /\ got[r] # {}
    /\ Fault
    /\ unbuilt' = unbuilt \cup {prices.version}
    /\ busy' = Nobody
    /\ Ends(r)
    /\ UNCHANGED <<market, links, store, rows, backtest, runs>>

\* save() raises StoreError: the run fails, and the file stays as far as it was written.
SaveRaises(r) ==
    /\ pc[r] \in {"writing", "storing"}
    /\ Fault
    /\ unbuilt' = unbuilt \cup {prices.version}
    /\ busy' = Nobody
    /\ Ends(r)
    /\ UNCHANGED <<market, links, store, rows, backtest, runs>>

-----------------------------------------------------------------------------
(* The post-refresh hook.  Every write is skipped when its slot is None: the process *)
(* started without that database, or without adapters at all.                        *)

\* The hook has returned.
Complete(r) ==
    /\ Ends(r)
    /\ WriteMarker("refresh")

\* store.load("prices_latest"), for the equity curve or the report alone: a file that
\* cannot be read leaves the hook without prices.
Loaded ==
    IF slots \cap {"postgres", "gateway"} # {} /\ prices.whole THEN prices.bars ELSE NoBars

\* Something is awaited before the curve: the signal snapshot, of a panel that is not
\* empty, or the benchmark of the report.
AwaitsSnapshot(panelIs) ==
    \/ "mongo" \in slots /\ panelIs = "whole"
    \/ PricedDays(Loaded) # {}

\* The panel is saved, an empty one too: the index alone ranks nothing, and of what was
\* fetched every row may be dropped.  The hook loads the prices.
StoreFeatures(r) ==
    /\ pc[r] = "storing"
    /\ \E is \in {"whole", "empty"} :
        /\ IF got[r] \ {Index} = {} THEN is = "empty" /\ UNCHANGED faults
           ELSE IF is = "empty" THEN Fault ELSE UNCHANGED faults
        /\ features' = [features EXCEPT !.is = is]
        /\ IF AwaitsSnapshot(is)
           THEN /\ frames' = [frames EXCEPT ![r] = Loaded]
                /\ pc' = [pc EXCEPT ![r] = "snapshot"]
                /\ UNCHANGED <<tries, got, failed, raced, marker>>
           ELSE Complete(r)
    /\ busy' = Nobody
    /\ UNCHANGED <<market, links, prices, equity, gateway, backtest, runs, unbuilt>>

\* No fresh bar, no gateway write.
ReportOrEnd(r) ==
    IF "gateway" \in slots /\ BarDate(frames[r]) = today
    THEN /\ pc' = [pc EXCEPT ![r] = "gateway"]
         /\ UNCHANGED <<tries, got, frames, failed, raced, marker>>
    ELSE Complete(r)

\* write_signal_snapshot and the benchmark are answered or not.  Without one fully
\* priced day there are no metrics, no curve and no report.
SnapshotAnswered(r) ==
    /\ busy = Nobody
    /\ pc[r] = "snapshot"
    /\ IF PricedDays(frames[r]) = {} THEN Complete(r)
       ELSE IF "postgres" \in slots
       THEN /\ pc' = [pc EXCEPT ![r] = "equity"]
            /\ UNCHANGED <<tries, got, frames, failed, raced, marker>>
       ELSE ReportOrEnd(r)
    /\ UNCHANGED <<market, links, busy, store, equity, gateway, backtest, runs, faults, unbuilt>>

\* Every run in flight, but the one that writes.
RacedBy(r) == [q \in Runner |-> raced[q] \/ (q # r /\ pc[q] # "idle")]

\* write_equity_curve: one transaction upserts every day of the curve.
WriteEquity(r) ==
    /\ busy = Nobody
    /\ pc[r] = "equity"
    /\ pc' = [pc EXCEPT ![r] = "checking"]
    /\ \/ /\ equity' = [d \in Day |-> IF d \in PricedDays(frames[r])
                                      THEN DailyBars(frames[r], d) ELSE equity[d]]
          /\ raced' = RacedBy(r)
          /\ UNCHANGED <<failed, faults>>
       \/ /\ Fault
          /\ failed' = [failed EXCEPT ![r] = TRUE]
          /\ UNCHANGED <<equity, raced>>
    /\ UNCHANGED <<market, links, tries, got, frames, busy, store, gateway, marker, backtest,
                   runs, unbuilt>>

\* Resumed after the upsert.
CheckBarDate(r) ==
    /\ busy = Nobody
    /\ pc[r] = "checking"
    /\ ReportOrEnd(r)
    /\ UNCHANGED <<market, links, busy, store, equity, gateway, backtest, runs, faults, unbuilt>>

ReportOf(panel) == [of |-> BarDate(panel), row |-> DailyBars(panel, BarDate(panel))]

\* The request of r, as it may reach the gateway after its client has given it up.
CopyOf(r) ==
    [by |-> r, no |-> faults', day |-> AsOf(frames[r]), report |-> ReportOf(frames[r]),
     stale |-> raced[r] \/ got[r] = {}]

Overtaken(copies) == {[c EXCEPT !.stale = TRUE] : c \in copies}

\* post_daily_report reaches the gateway, which upserts on the stamp.
PostReport(r) ==
    /\ busy = Nobody
    /\ pc[r] = "gateway"
    /\ pc' = [pc EXCEPT ![r] = "answer"]
    /\ gateway' = [gateway EXCEPT ![AsOf(frames[r])] = ReportOf(frames[r])]
    /\ raced' = RacedBy(r)
    /\ wire' = Overtaken(wire)
    /\ UNCHANGED <<market, slots, tries, got, frames, failed, busy, store, equity, marker,
                   backtest, runs, faults, unbuilt>>

\* One attempt is over without a usable answer: the next one, or the hook gives up.
Retry(r) ==
    IF tries[r] + 1 < PostAttempts
    THEN /\ pc' = [pc EXCEPT ![r] = "gateway"]
         /\ tries' = [tries EXCEPT ![r] = @ + 1]
         /\ UNCHANGED <<got, frames, failed, raced, marker>>
    ELSE Complete(r)

\* A transport error or a 5xx: the request is lost, or on its way still.
PostFails(r) ==
    /\ busy = Nobody
    /\ pc[r] = "gateway"
    /\ Fault
    /\ wire' \in {wire, wire \cup {CopyOf(r)}}
    /\ Retry(r)
    /\ UNCHANGED <<market, slots, busy, store, equity, gateway, backtest, runs, unbuilt>>

\* The upsert was made and its answer is not received.
AnswerLost(r) ==
    /\ busy = Nobody
    /\ pc[r] = "answer"
    /\ Fault
    /\ Retry(r)
    /\ UNCHANGED <<market, links, busy, store, equity, gateway, backtest, runs, unbuilt>>

\* A 4xx is not retried.
PostRefused(r) ==
    /\ busy = Nobody
    /\ pc[r] = "gateway"
    /\ Fault
    /\ Complete(r)
    /\ UNCHANGED <<market, links, busy, store, equity, gateway, backtest, runs, unbuilt>>

PostAnswered(r) ==
    /\ busy = Nobody
    /\ pc[r] = "answer"
    /\ Complete(r)
    /\ UNCHANGED <<market, links, busy, store, equity, gateway, backtest, runs, faults, unbuilt>>

\* A copy given up reaches the gateway after all.
DeliverLate(c) ==
    /\ busy = Nobody
    /\ gateway' = [gateway EXCEPT ![c.day] = c.report]
    /\ raced' = [q \in Runner |-> raced[q] \/ pc[q] # "idle"]
    /\ wire' = Overtaken(wire \ {c})
    /\ UNCHANGED <<market, slots, pc, tries, got, frames, failed, busy, store, equity, marker,
                   backtest, runs, faults, unbuilt>>

\* The requests in flight of the runs in R are given up, and some arrive later.
Abandoned(R) ==
    \E sent \in SUBSET {r \in R : pc[r] = "gateway"} : wire' = wire \cup {CopyOf(r) : r \in sent}

\* REFRESH_TIMEOUT_SECS expires at an await, or an exception of a fetch ends the run.
CutOff(r) ==
    /\ busy = Nobody
    /\ pc[r] \in Awaiting
    /\ Fault
    /\ Abandoned({r})
    /\ Ends(r)
    /\ UNCHANGED <<market, slots, busy, store, rows, backtest, runs, unbuilt>>

-----------------------------------------------------------------------------
(* The backtest and the process *)

\* Faulty variant of _backtest_runner's _run: the prices are loaded first.
PricesFirst == <<"prices", "features">>

LoadOrder == <<"features", "prices">>

\* One load of the backtest's thread, which runs whoever has the event loop.  A torn
\* file cannot be read; after the second load, or a failed one, it reads no more.
BacktestLoad(key) ==
    /\ key = LoadOrder[IF backtest = NotLoaded THEN 1 ELSE 2]
    /\ LET readable == IF key = "prices" THEN prices.whole ELSE features.is # "torn"
           version == IF key = "prices" THEN prices.version
                      ELSE IF features.is = "empty" THEN 0 ELSE features.version
       IN backtest' = IF readable /\ backtest = NotLoaded
                      THEN [backtest EXCEPT ![key] = version] ELSE NotLoaded
    /\ UNCHANGED <<market, links, local, busy, store, rows, runs, faults, unbuilt>>

\* The process dies and is started again: what was being written stays torn.
Restart ==
    /\ \E r \in Runner : pc[r] # "idle"
    /\ slots' \in Startups
    /\ faults' = faults + 1 + StartFaults(slots')
    /\ faults' <= MaxFaults
    /\ Abandoned(Runner)
    /\ pc' = [r \in Runner |-> "idle"]
    /\ tries' = [r \in Runner |-> 0]
    /\ got' = [r \in Runner |-> {}]
    /\ frames' = [r \in Runner |-> NoBars]
    /\ failed' = [r \in Runner |-> FALSE]
    /\ raced' = [r \in Runner |-> FALSE]
    /\ busy' = Nobody
    /\ unbuilt' = IF busy = Nobody THEN unbuilt ELSE unbuilt \cup {prices.version}
    /\ backtest' = NotLoaded
    /\ UNCHANGED <<market, store, rows, runs>>

Next ==
    \/ \E s \in Held, d \in Day : Publish(s, d)
    \/ Midnight
    \/ \E d \in Day : Revise(d)
    \/ HolidayPoll
    \/ \E c \in wire : DeliverLate(c)
    \/ \E r \in Runner :
        \/ SkipHoliday(r) \/ Start(r)
        \/ FetchHeld(r) \/ FetchUniverse(r)
        \/ BeginPrices(r) \/ EndPrices(r)
        \/ BuildFeatures(r) \/ BuildRaises(r) \/ SaveRaises(r) \/ StoreFeatures(r)
        \/ SnapshotAnswered(r) \/ WriteEquity(r) \/ CheckBarDate(r)
        \/ PostReport(r) \/ PostFails(r) \/ AnswerLost(r) \/ PostRefused(r) \/ PostAnswered(r)
        \/ CutOff(r)
    \/ \E key \in {"features", "prices"} : BacktestLoad(key)
    \/ Restart

Spec == Init /\ [][Next]_vars

-----------------------------------------------------------------------------
(* Properties *)

\* No phantom and no partial row: a row is for a day SET traded, valued on that day's
\* bars and on every holding ("undefined, not smaller", live/portfolio.py).
RowsAreReal ==
    \A d \in Day :
        /\ equity[d] # NoRow => d \in Open /\ \A s \in Held : equity[d][s] > 0
        /\ gateway[d] # NoReport =>
            /\ d \in Open /\ gateway[d].of = d
            /\ \A s \in Held : gateway[d].row[s] > 0

\* A fresh capture decides, and nothing else does: a refresh is skipped only on a day the
\* endpoint lists, and starts only on one it does not.  A wrong entry of the committed
\* table, or of an earlier capture, costs no session once the endpoint has served without
\* it ("a real trading day gets refreshed"), and a closure added later is honoured.
FreshCaptureDecides ==
    [][SamePath /\ polled /\ runs' # runs => (today \in published <=> pc' = pc)]_vars

\* Outside a save, features_latest is built from prices_latest as they are, unless the
\* panel is empty or the build of these very prices did not finish.
FeaturesFollowPrices ==
    busy = Nobody /\ prices.whole /\ features.is = "whole" =>
        \/ features.version = prices.version
        \/ prices.version \in unbuilt

\* A backtest, loading both files while refreshes write them, never ranks on features
\* newer than the prices it trades at.
BacktestNeverLooksAhead ==
    [][/\ backtest # NotLoaded /\ backtest' = NotLoaded
       /\ backtest.prices = None => prices.whole
       /\ backtest.features = None => features.is = "whole"
       => LET f == IF backtest.features = None THEN features.version ELSE backtest.features
              p == IF backtest.prices = None THEN prices.version ELSE backtest.prices
          IN f <= p]_vars

Returns(r) == pc[r] \in Awaiting /\ pc'[r] = "idle" /\ faults' = faults

\* A refresh that writes its marker, none of its writes having failed, leaves in every
\* database it is connected to what its panel allows: a row of the curve for every day on
\* which the whole book is priced, and today's report.  Nothing that failed in the
\* universe, no second bar of a day and no slot that is None keeps the others back.
CompletedRunReported ==
    [][\A r \in Runner :
        Returns(r) /\ ~failed[r] =>
            \A d \in Day :
                (\A s \in Held : frames[r][s][d] > 0) =>
                    /\ "postgres" \in slots => equity[d] # NoRow
                    /\ "gateway" \in slots /\ d = today => gateway[d] # NoReport]_vars

Regresses(old, new) == \E s \in Held : old[s] > new[s]

\* A settled valuation goes back to an older bar only when the run that writes it
\* overlapped another write, or fetched nothing and revalued the stored prices, or when
\* a POST its client gave up arrives behind a newer report: runs one after the other,
\* with their retries, only move the rows forward.
OnlyOverlapRegresses ==
    [][\A d \in Day :
        /\ Regresses(equity[d], equity'[d]) =>
            \E r \in Runner : pc[r] = "equity" /\ (raced[r] \/ got[r] = {})
        /\ Regresses(gateway[d].row, gateway'[d].row) =>
            \/ \E r \in Runner : pc[r] = "gateway" /\ (raced[r] \/ got[r] = {})
            \/ \E c \in wire : c.stale /\ DeliverLate(c)]_vars

-----------------------------------------------------------------------------
(* What the documentation says and the code does not do *)

\* Once the poll has banked the year, no refresh fetches on a closure: what the poll
\* is for (jobs.py holiday_poll, "bank the calendar before the 18:00 refresh").
BankedClosureIsSkipped ==
    [][\A r \in Runner :
        pc[r] = "idle" /\ pc'[r] = "held" /\ polled => today \notin published]_vars

=============================================================================
