------------------------------ MODULE Overlays ------------------------------
(***************************************************************************)
(* The overlays a target book goes through at a rebalance, before the      *)
(* circuit breaker: the quality filter, the sector and regime constraint   *)
(* engine, the volatility scaler and the liquidity overlay                 *)
(* (src/csm/portfolio).  A weight is written as the THB it stands for,     *)
(* w x AUM, rounded down; a book is a function from the symbols of the     *)
(* pandas index.  Equity fractions and volatilities are in percent.        *)
(***************************************************************************)
EXTENDS Integers, FiniteSets, Functions

CONSTANTS
    SectorOf,       \* sector_map; symbols it lacks share the sector "__unknown__"
    SectorMax,      \* sector_max_weight x AUM
    HoldingsMin,    \* n_holdings_min
    RegimeSafe,     \* safe_mode_max_equity of the regime engine
    BearFullCash,   \* bear_full_cash
    VolTarget,      \* target_annual
    VolFloor, VolCap,  \* floor, cap
    FastBlend,      \* fast_blend_weight
    AdvCap,         \* adv_cap_pct
    MinReturn,      \* synthetic_quality_threshold
    NaN, NoColumn   \* a value that is missing; a symbol without a price column

AtMost(x, y) == IF x < y THEN x ELSE y
AtLeast(x, y) == IF x < y THEN y ELSE x

Total(book) == SumFunction(book)
Scaled(book, percent) == [x \in DOMAIN book |-> (book[x] * percent) \div 100]
Positive(book) == {x \in DOMAIN book : book[x] > 0}

-----------------------------------------------------------------------------
(* QualityFilter *)

\* _apply_fundamental: no data, earnings that are not positive and a low margin drop.
PassFundamental(symbols, data) ==
    {x \in symbols : data[x] # NaN /\ data[x].earnings > 0 /\ data[x].margin >= 0}

\* _apply_synthetic_proxy: too short a history keeps every symbol, a missing return
\* keeps its symbol; one without a price column is dropped if another has one.
PassProxy(symbols, returns, enough) ==
    LET available == {x \in symbols : returns[x] # NoColumn} IN
    IF available = {} \/ ~enough THEN symbols
    ELSE {x \in available : IF returns[x] = NaN THEN TRUE ELSE returns[x] > MinReturn}

-----------------------------------------------------------------------------
(* SectorRegimeConstraintEngine *)

Members(book, s) == {x \in Positive(book) : SectorOf[x] = s}
SectorWeight(book, s) == SumFunctionOnSet(book, Members(book, s))
SectorsOf(book) == {SectorOf[x] : x \in Positive(book)}
OverWeight(book) == {s \in SectorsOf(book) : SectorWeight(book, s) > SectorMax}

\* The names of an over-weight sector are scaled alike; the excess stays cash.
CapSectors(book, over) ==
    [x \in DOMAIN book |->
        IF SectorOf[x] \in over
        THEN (book[x] * SectorMax) \div SectorWeight(book, SectorOf[x])
        ELSE book[x]]

\* The smallest excess is relaxed when capping emptied too many positions.
Relaxed(book) ==
    CHOOSE s \in OverWeight(book) :
        \A t \in OverWeight(book) : SectorWeight(book, s) <= SectorWeight(book, t)

SectorCap(book) ==
    LET capped == CapSectors(book, OverWeight(book)) IN
    IF /\ Cardinality(Positive(capped)) < HoldingsMin
       /\ Cardinality(Positive(book)) >= HoldingsMin
       /\ OverWeight(book) # {}
    THEN CapSectors(book, OverWeight(book) \ {Relaxed(book)})
    ELSE capped

\* _compute_regime_equity: the index against its EMA200, EMA100 and EMA50, and the
\* slope of the first.
RegimeEquity(index) ==
    IF index.aboveTrend
    THEN IF index.aboveExit THEN 100 ELSE RegimeSafe
    ELSE IF index.aboveReentry THEN 100
    ELSE IF BearFullCash /\ index.falling THEN 0
    ELSE RegimeSafe

-----------------------------------------------------------------------------
(* VolatilityScaler *)

Measured(vol) == IF vol = NaN THEN FALSE ELSE vol > 0

\* _compute_blended_vol: one estimate that is missing leaves the other.
RealizedVol(slow, fast) ==
    IF FastBlend = 0 \/ ~Measured(fast) THEN slow
    ELSE IF ~Measured(slow) THEN fast
    ELSE ((100 - FastBlend) * slow + FastBlend * fast) \div 100

ScaleFactor(vol) ==
    IF ~Measured(vol) THEN VolCap
    ELSE AtMost(VolCap, AtLeast(VolFloor, (VolTarget * 100) \div vol))

VolEquity(vol) == AtMost(ScaleFactor(vol), 100)

-----------------------------------------------------------------------------
(* LiquidityOverlay *)

\* Faulty variant: a symbol without turnover is not capped.
CapKnownAdtv(book, adtv) ==
    [x \in DOMAIN book |->
        IF adtv[x] = 0 THEN book[x] ELSE AtMost(book[x], (AdvCap * adtv[x]) \div 100)]

\* No turnover (0), no position; else at most AdvCap of it.
CapLiquidity(book, adtv) ==
    [x \in DOMAIN book |-> AtMost(book[x], (AdvCap * adtv[x]) \div 100)]
=============================================================================
