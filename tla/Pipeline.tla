------------------------------ MODULE Pipeline ------------------------------
(***************************************************************************)
(* A portfolio over time.  At a rebalance the target book goes through the *)
(* overlays of src/csm/portfolio in the order the design gives them, then  *)
(* becomes a trade list (src/csm/execution/simulator.py) whose fills enter *)
(* the log that src/csm/execution/trade_pairing.py pairs.  On the other    *)
(* sessions only the circuit breaker is consulted, its caller threading    *)
(* its state.  Each overlay is a class without state; who calls them, with *)
(* which market, is outside the sources, and so are the fills.             *)
(***************************************************************************)
EXTENDS Integers, Sequences, FiniteSets, Functions

CONSTANTS
    Symbol, Aum, Lot,
    SectorOf, SectorMax, HoldingsMin, RegimeSafe, BearFullCash,
    VolTarget, VolFloor, VolCap, FastBlend, AdvCap, MinReturn,
    Trigger, Recovery, ConfirmDays, SafeEquity,
    NaN, NoColumn, NoCurve, NoMarket,
    Markets,        \* [index, slow, fast, adtv, price]: what a rebalance may meet
    Qualities,      \* [data, returns, enough]: fundamentals, or NaN, and returns
    Drawdowns,      \* the readings of a session, NaN included
    Openings,       \* [held, logged, paid]: shares at the start, the symbols whose
                    \* purchase is in the log, and what they cost
    Fee,            \* commission per share
    MaxRebalances   \* bound on the rebalances

Breaker == INSTANCE CircuitBreaker
Overlay == INSTANCE Overlays
Sim == INSTANCE Execution
Pairing == INSTANCE TradePairing

ASSUME PipelineAssumption ==
    /\ IsFiniteSet(Symbol) /\ DOMAIN SectorOf = Symbol
    /\ {Aum, Lot, SectorMax, ConfirmDays, MaxRebalances} \subseteq Nat \ {0}
    /\ HoldingsMin \in Nat /\ Fee \in Nat
    /\ SectorMax >= Cardinality(Symbol)   \* a unit of money is less than any weight
    /\ Breaker!ValidThresholds
    /\ {RegimeSafe, VolTarget, AdvCap} \subseteq 1 .. 100
    /\ {VolFloor, FastBlend} \subseteq 0 .. 100 /\ VolCap \in 100 .. 300
    /\ BearFullCash \in BOOLEAN
    /\ \A m \in Markets : /\ {m.adtv[x] : x \in Symbol} \cup {m.price[x] : x \in Symbol} \subseteq Nat
                           /\ {m.slow, m.fast} \subseteq Nat \cup {NaN}
    /\ \A o \in Openings : /\ o.held \in [Symbol -> Nat] /\ o.paid \in Nat
                            /\ o.logged \subseteq {x \in Symbol : o.held[x] > 0}
    /\ Drawdowns \subseteq -100 .. 0 \cup {NaN}

VARIABLES
    stage,       \* the overlay that comes next; "idle" between rebalances
    market,      \* what this rebalance meets
    book,        \* target weights, in THB
    breaker,     \* current_state and recovery_progress_days
    trades,      \* the trade list
    positions,   \* shares held
    fills,       \* the log
    rebalances,
    reading,     \* history: the drawdown the breaker was last asked about
    streak       \* history: consecutive readings above Recovery, up to ConfirmDays

account == <<positions, fills, rebalances>>
breakerVars == <<breaker, reading, streak>>
vars == <<stage, market, book, trades, account, breakerVars>>

Empty == [x \in {} |-> 0]

Purchase(o, x) ==
    [time |-> 0, symbol |-> x, side |-> "BUY", shares |-> o.held[x], price |-> o.paid,
     fee |-> Fee * o.held[x]]

Init ==
    \E o \in Openings :
        /\ stage = "idle" /\ market = NoMarket /\ book = Empty /\ trades = Empty
        /\ breaker = Breaker!Fresh /\ reading = 0 /\ streak = 0
        /\ positions = o.held
        /\ fills = {Purchase(o, x) : x \in o.logged}
        /\ rebalances = 0

-----------------------------------------------------------------------------
(* The breaker *)

\* One call of apply() with a curve; the caller keeps the state it returns.
Read(dd) ==
    /\ breaker' = Breaker!Apply(breaker, dd)
    /\ reading' = dd
    /\ streak' = IF Breaker!Recovered(dd) THEN Overlay!AtMost(streak + 1, ConfirmDays) ELSE 0

\* A session between two rebalances.
Session(dd) ==
    /\ stage = "idle"
    /\ Read(dd)
    /\ UNCHANGED <<stage, market, book, trades, account>>

\* The last overlay: without weights, or without a curve, the breaker is not asked
\* and the book passes as it is.
Break(dd) ==
    /\ stage = "breaker"
    /\ stage' = "trade"
    /\ IF dd = NoCurve \/ book = Empty
       THEN reading' = NoCurve /\ UNCHANGED <<breaker, streak, book>>
       ELSE /\ Read(dd)
            /\ book' = Overlay!Scaled(book, Breaker!EquityFraction(breaker'))
    /\ UNCHANGED <<market, trades, account>>

-----------------------------------------------------------------------------
(* A rebalance *)

Screened(q) ==
    IF q.data = NaN THEN Overlay!PassProxy(Symbol, q.returns, q.enough)
    ELSE Overlay!PassFundamental(Symbol, q.data)

\* The quality filter and the weights of what it passes.
Select(m, q) ==
    /\ stage = "idle" /\ rebalances < MaxRebalances
    /\ book' = [x \in Screened(q) |-> Aum \div Cardinality(Screened(q))]
    /\ market' = m
    /\ rebalances' = rebalances + 1
    /\ stage' = "constraints"
    /\ UNCHANGED <<trades, positions, fills, breakerVars>>

Constrain ==
    /\ stage = "constraints"
    /\ book' = Overlay!Scaled(Overlay!SectorCap(book), Overlay!RegimeEquity(market.index))
    /\ stage' = "volatility"
    /\ UNCHANGED <<market, trades, account, breakerVars>>

ScaleByVolatility ==
    /\ stage = "volatility"
    /\ book' = Overlay!Scaled(book,
                    Overlay!VolEquity(Overlay!RealizedVol(market.slow, market.fast)))
    /\ stage' = "liquidity"
    /\ UNCHANGED <<market, trades, account, breakerVars>>

CapByLiquidity ==
    /\ stage = "liquidity"
    /\ book' = Overlay!CapLiquidity(book, market.adtv)
    /\ stage' = "breaker"
    /\ UNCHANGED <<market, trades, account, breakerVars>>

\* What the caller hands the simulator: it may list its exits at weight zero.
Listed(exits) ==
    [x \in DOMAIN book \cup {y \in exits : positions[y] > 0} |->
        IF x \in DOMAIN book THEN book[x] ELSE 0]

Trade(exits) ==
    /\ stage = "trade"
    /\ book' = Listed(exits)
    /\ trades' = Sim!Simulate(book', positions, market.price)
    /\ stage' = "fill"
    /\ UNCHANGED <<market, account, breakerVars>>

Traded == {x \in DOMAIN trades : trades[x].side # "HOLD"}

\* Faulty variant: a sell is logged with its sign.
SignedShares(x) == trades[x].delta

Shares(x) == IF trades[x].delta < 0 THEN -trades[x].delta ELSE trades[x].delta

\* The broker fills the trade list at the latest prices.
Fill ==
    /\ stage = "fill"
    /\ positions' = [x \in Symbol |->
                        IF x \in Traded THEN positions[x] + trades[x].delta ELSE positions[x]]
    /\ fills' = fills \cup
                {[time |-> rebalances, symbol |-> x, side |-> trades[x].side,
                  shares |-> Shares(x), price |-> market.price[x],
                  fee |-> Fee * Shares(x)] : x \in Traded}
    /\ stage' = "idle" /\ market' = NoMarket /\ book' = Empty /\ trades' = Empty
    /\ UNCHANGED <<rebalances, breakerVars>>

Rebalance ==
    \/ \E m \in Markets, q \in Qualities : Select(m, q)
    \/ Constrain
    \/ ScaleByVolatility
    \/ CapByLiquidity
    \/ \E dd \in Drawdowns \cup {NoCurve} : Break(dd)
    \/ \E exits \in {{}, Symbol} : Trade(exits)
    \/ Fill

Sessions == \E dd \in Drawdowns : Session(dd)

Next == Rebalance \/ Sessions

\* A session follows every session, and a rebalance that was begun is carried out.
Spec ==
    /\ Init /\ [][Next]_vars
    /\ WF_vars(Sessions)
    /\ WF_vars(Rebalance /\ stage # "idle")

-----------------------------------------------------------------------------
Side == {"BUY", "SELL", "HOLD"}

\* The type invariant.  Positions are never negative: no trade sells more than is held.
TypeOK ==
    /\ stage \in {"idle", "constraints", "volatility", "liquidity", "breaker", "trade", "fill"}
    /\ market \in Markets \cup {NoMarket}
    /\ DOMAIN book \subseteq Symbol /\ \A x \in DOMAIN book : book[x] \in Nat
    /\ breaker \in Breaker!Breaker
    /\ \A x \in DOMAIN trades : trades[x] \in [side : Side, delta : Int, target : Nat]
    /\ positions \in [Symbol -> Nat]
    /\ \A f \in fills : f.symbol \in Symbol /\ f.side \in Side \ {"HOLD"} /\ f.shares \in Nat \ {0}
    /\ rebalances \in 0 .. MaxRebalances
    /\ reading \in Drawdowns \cup {0, NoCurve} /\ streak \in 0 .. ConfirmDays

\* A book about to be traded respects every limit at once, whatever the overlays
\* before and after the one that set it did: no more than the fund, no sector above
\* its cap, no name above its share of turnover, none at all without turnover, and
\* the safe-mode equity even on the session that trips the breaker.
BookWithinLimits ==
    stage = "trade" =>
        /\ Overlay!Total(book) <= Aum
        /\ \A s \in Overlay!SectorsOf(book) : Overlay!SectorWeight(book, s) <= SectorMax
        /\ \A x \in DOMAIN book : 100 * book[x] <= AdvCap * market.adtv[x]
        /\ breaker.state # "NORMAL" /\ reading # NoCurve =>
              100 * Overlay!Total(book) <= SafeEquity * Aum

\* The breaker returns to NORMAL only after ConfirmDays consecutive readings above
\* the recovery threshold, across sessions and rebalances alike; a relapse starts over.
ReleaseIsConfirmed ==
    [][ breaker.state # "NORMAL" /\ breaker'.state = "NORMAL" => streak' = ConfirmDays ]_vars

\* The trade list moves each priced name in whole lots toward its target, never
\* past it, and to within one lot of it.
Between(x, p, q) == (p <= x /\ x <= q) \/ (q <= x /\ x <= p)
TradesApproachTarget ==
    stage = "fill" =>
        \A x \in DOMAIN trades :
            LET price == market.price[x]
                now == positions[x] * price
                then == now + trades[x].delta * price
            IN /\ trades[x].delta % Lot = 0
               /\ Between(then, now, book[x])
               /\ price > 0 => Between(book[x], then - Lot * price, then + Lot * price)

-----------------------------------------------------------------------------
Paired == Pairing!PairTrades(fills, Symbol)
Of(x) == {f \in fills : f.symbol = x}
Signed(lot, n) == IF lot.side = "LONG" THEN n ELSE -n
Items(seq) == 1 .. Len(seq)

\* The open lots are what was bought less what was sold, and the realized profits
\* are the cash the fills brought plus what the open lots, their fees included, cost:
\* no share, and no fee, is lost or counted twice by partial closes and flips.
PairingReconciles ==
    \A x \in Symbol :
        LET lots == Paired[x].lots
            closed == Paired[x].closed
            shares == SumFunction([i \in Items(lots) |-> Signed(lots[i], lots[i].shares)])
            cost == SumFunction([i \in Items(lots) |->
                        Signed(lots[i], lots[i].shares * lots[i].price) + lots[i].fee])
            Bought(f) == IF f.side = "BUY" THEN f.shares ELSE -f.shares
        IN /\ shares = SumFunction([f \in Of(x) |-> Bought(f)])
           /\ SumFunction([i \in Items(closed) |-> closed[i].pnl]) =
                 cost - SumFunction([f \in Of(x) |-> Bought(f) * f.price + f.fee])

\* Lots close in the order they were opened: none is closed while an older is open.
FirstInFirstOut ==
    \A x \in Symbol :
        LET lots == Paired[x].lots
            closed == Paired[x].closed
        IN /\ \A i, j \in Items(closed) : i < j => closed[i].entry <= closed[j].entry
           /\ \A i \in Items(closed), j \in Items(lots) : closed[i].entry <= lots[j].time

\* What pair_trades promises of a fill larger than the position: it never closes
\* lots and opens one on the other side.
NoSilentFlip ==
    \A x \in Symbol :
        \A i \in Items(Paired[x].closed), j \in Items(Paired[x].lots) :
            Paired[x].closed[i].exit # Paired[x].lots[j].time

-----------------------------------------------------------------------------
\* A fund whose drawdown stays above the recovery threshold is released for good:
\* no sequence of readings leaves the breaker stuck in safe mode.
BreakerReleases ==
    <>[](reading # NoCurve /\ Breaker!Recovered(reading)) => <>[](breaker.state = "NORMAL")
=============================================================================
