----------------------------- MODULE Rebalance -----------------------------
(***************************************************************************)
(* The period loop of the momentum backtest (research/backtest.py, run)    *)
(* and the selection it delegates to (portfolio/construction.py, select).  *)
(*                                                                         *)
(* A cross-section is the sequence of the symbols it ranks, best composite *)
(* first, after the liquidity filter; composites are distinct.  Ranks and  *)
(* fractions are percentages.  Weights are the set of the weighted symbols *)
(* and the share of equity they sum to; what a period earns is left out.   *)
(***************************************************************************)
EXTENDS Integers, Sequences, FiniteSets, SequencesExt

CONSTANTS
    Symbol,        \* symbols of the feature panel
    Columns,       \* columns of the price matrix
    Sector,        \* sector_map, "__unknown__" included
    Periods,       \* pairs of consecutive rebalance dates
    Every,         \* rebalance_every_n
    MinHoldings,   \* n_holdings_min
    MaxHoldings,   \* n_holdings_max
    BufferPct,     \* buffer_rank_threshold
    FloorPct,      \* exit_rank_floor
    CapPct,        \* sector_max_weight
    RsMode,        \* rs_filter_mode
    HasIndex,      \* index_prices is given
    SafePct,       \* safe_mode_max_equity
    BearFullCash,  \* bear_full_cash
    Scales         \* what vol scaling may multiply the equity by; {100} when disabled

ASSUME RebalanceAssumption ==
    /\ IsFiniteSet(Symbol) /\ Columns \subseteq Symbol
    /\ DOMAIN Sector = Symbol
    /\ Periods \in Nat \ {0} /\ Every \in Nat \ {0}
    /\ MinHoldings \in Nat \ {0} /\ MaxHoldings \in Nat /\ MinHoldings <= MaxHoldings
    /\ {BufferPct, FloorPct, SafePct} \subseteq 0 .. 100
    /\ CapPct \in 1 .. 100
    /\ RsMode \in {"off", "entry_only", "all"}
    /\ HasIndex \in BOOLEAN /\ BearFullCash \in BOOLEAN
    /\ Scales # {} /\ Scales \subseteq 0 .. 150

Rankings == SetToAllKPermutations(Symbol)

\* What the index shows at a rebalance: against its EMA-200, and then what matters
\* of EMA-100, EMA-50 and the slope.
Market == {"up", "below fast EMA", "recovering", "falling", "flat"}

VARIABLES
    status,    \* "running", "saved", or "failed": no period was accounted
    period,    \* the pair of dates in progress
    holdings,  \* current_holdings
    weighted,  \* symbols of current_weights
    equity,    \* the equity fraction current_weights were scaled by
    mode,      \* current_mode
    report,    \* the last MonthlyPeriodReport
    curve,     \* the periods of equity_curve
    decided,   \* history: the mode the current weights were made under
    skipped    \* history: a rebalance was skipped since, after its mode was computed

book == <<holdings, weighted, equity>>
vars == <<status, period, book, mode, report, curve, decided, skipped>>

Mode == {"BULL", "BEAR"}
NoReport == [period |-> 0, positions |-> <<>>, weighted |-> {}, mode |-> "BULL"]

TypeOK ==
    /\ status \in {"running", "saved", "failed"}
    /\ period \in 1 .. Periods + 1
    /\ holdings \in Rankings /\ Len(holdings) <= MaxHoldings
    /\ weighted \subseteq Columns
    /\ equity \in 0 .. 100
    /\ mode \in Mode
    /\ report \in [period : 0 .. Periods, positions : Rankings, weighted : SUBSET Symbol,
                   mode : Mode]
    /\ curve \subseteq 1 .. Periods
    /\ decided \in Mode
    /\ skipped \in BOOLEAN

Init ==
    /\ status = "running" /\ period = 1
    /\ holdings = <<>> /\ weighted = {} /\ equity = 0
    /\ mode = "BULL" /\ decided = "BULL" /\ skipped = FALSE
    /\ report = NoReport /\ curve = {}

-----------------------------------------------------------------------------
(* select(): candidates, buffer, bounds *)

First(s, n) == SubSeq(s, 1, IF n < Len(s) THEN n ELSE Len(s))

\* SelectSeq for a test that is a set.
Only(s, S) ==
    LET Seen[i \in 0 .. Len(s)] ==
            IF i = 0 THEN <<>>
            ELSE IF s[i] \in S THEN Append(Seen[i - 1], s[i]) ELSE Seen[i - 1]
    IN Seen[Len(s)]

Without(s, S) == Only(s, ToSet(s) \ S)

\* pct_rank times the size of the cross-section; a symbol that is not in it has 0.0.
Rank(cross, s) == IF s \in ToSet(cross) THEN Len(cross) + 1 - SelectInSeq(cross, LAMBDA x : x = s)
                  ELSE 0

\* Faulty variant: a mask too small to fill the portfolio opens the gate as well.
MaskIfEnough(cross, mask) ==
    IF Cardinality(mask) < MaxHoldings THEN cross ELSE Only(cross, mask)

\* An empty mask opens the gate.
Eligible(cross, mask) == IF mask = {} THEN cross ELSE Only(cross, mask)

Candidates(cross, mask) == First(Eligible(cross, mask), MaxHoldings)

BelowFloor(cross, s) == FloorPct > 0 /\ 100 * Rank(cross, s) < FloorPct * Len(cross)

\* Faulty variant: the best replacement is sought in the whole cross-section.
BeatenByAny(cross, s, left) == 100 * (Len(cross) - Rank(cross, s)) >= BufferPct * Len(cross)

\* best_replacement_rank over the candidates that are left, 0.0 if none is.
Beaten(cross, s, left) ==
    \E best \in {0} \cup {Rank(cross, c) : c \in left} :
        100 * (best - Rank(cross, s)) >= BufferPct * Len(cross)

Keeps(cross, left, s) ==
    s \in left \/ (~BelowFloor(cross, s) /\ ~Beaten(cross, s, left))

\* The holdings that stay, in the order they are held: a candidate stays, and is no
\* replacement for the holdings after it.
Retained(cross, cands, held) ==
    LET Loop[i \in 0 .. Len(held)] ==
            IF i = 0 THEN [left |-> ToSet(cands), final |-> <<>>]
            ELSE [left |-> Loop[i - 1].left \ {held[i]},
                  final |-> IF Keeps(cross, Loop[i - 1].left, held[i])
                            THEN Append(Loop[i - 1].final, held[i]) ELSE Loop[i - 1].final]
    IN Loop[Len(held)].final

\* Faulty variant of _apply_buffer_logic: kept candidates are entered again.
BufferedTwice(cross, cands, held) == Retained(cross, cands, held) \o cands

Buffered(cross, cands, held) ==
    LET kept == Retained(cross, cands, held) IN kept \o Without(cands, ToSet(kept))

Select(cross, mask, held) ==
    LET cands == Candidates(cross, mask)
        bounded == First(Buffered(cross, cands, held), MaxHoldings)
        short == Len(bounded) < MinHoldings /\ Len(cands) >= MinHoldings
        filled == IF short
                  THEN bounded \o First(Without(cands, ToSet(bounded)), MinHoldings - Len(bounded))
                  ELSE bounded
    IN IF filled = <<>> THEN First(cands, 1) ELSE filled

-----------------------------------------------------------------------------
(* _apply_sector_cap, and the columns of the price matrix *)

SectorLimit(total) == IF total * CapPct < 200 THEN 1 ELSE (total * CapPct) \div 100

\* Lower composite goes first; symbols without one go first in their order.
DroppedBefore(cross, selected, t, s) ==
    \/ Rank(cross, t) < Rank(cross, s)
    \/ /\ Rank(cross, t) = Rank(cross, s)
       /\ SelectInSeq(selected, LAMBDA x : x = t) < SelectInSeq(selected, LAMBDA x : x = s)

SectorCap(selected, cross) ==
    IF CapPct = 100 THEN selected
    ELSE Only(selected, {s \in ToSet(selected) :
            Cardinality({t \in ToSet(selected) :
                /\ Sector[t] = Sector[s] /\ t # s
                /\ ~DroppedBefore(cross, selected, t, s)}) < SectorLimit(Len(selected))})

Chosen(cross, mask, held) == Only(SectorCap(Select(cross, mask, held), cross), Columns)

-----------------------------------------------------------------------------
(* One period of run() *)

ModeOf(market) == IF HasIndex /\ market \in {"recovering", "falling", "flat"}
                  THEN "BEAR" ELSE "BULL"

BaseEquity(market) ==
    CASE ~HasIndex \/ market \in {"up", "recovering"} -> 100
      [] market = "falling" /\ BearFullCash -> 0
      [] OTHER -> SafePct

\* Vol scaling looks at the holdings of before; it never leverages.
Equities(market) ==
    IF HasIndex /\ holdings # <<>>
    THEN {LET e == (BaseEquity(market) * x) \div 100 IN IF e < 100 THEN e ELSE 100 : x \in Scales}
    ELSE {BaseEquity(market)}

Rebalances == (period - 1) % Every = 0
NextPeriod == status = "running" /\ period <= Periods /\ period' = period + 1

Account(positions, weights, m) ==
    /\ curve' = curve \cup {period}
    /\ report' = [period |-> period, positions |-> positions, weighted |-> weights, mode |-> m]

\* Faulty variant: the regime is assessed in every period.
HoldReassessed ==
    /\ NextPeriod /\ ~Rebalances
    /\ holdings # <<>>
    /\ \E market \in Market :
        /\ mode' = ModeOf(market)
        /\ Account(holdings, weighted, ModeOf(market))
    /\ UNCHANGED <<status, book, decided, skipped>>

\* A period between two rebalances earns at the current weights.
Hold ==
    /\ NextPeriod /\ ~Rebalances
    /\ holdings # <<>>
    /\ Account(holdings, weighted, mode)
    /\ UNCHANGED <<status, book, mode, decided, skipped>>

\* Nothing held, or fewer than two rows of prices.
HoldSkipped ==
    /\ NextPeriod /\ ~Rebalances
    /\ UNCHANGED <<status, book, mode, report, curve, decided, skipped>>

\* The cross-section is empty, from the start or after a filter.
NothingRanked ==
    /\ NextPeriod /\ Rebalances
    /\ UNCHANGED <<status, book, mode, report, curve, decided, skipped>>

\* Faulty variant: the holdings are replaced before the window turns out too short.
SkippedHoldingNew(market) ==
    /\ NextPeriod /\ Rebalances
    /\ \E ranked \in Rankings \ {<<>>} : holdings' = Chosen(ranked, {}, holdings)
    /\ mode' = ModeOf(market)
    /\ skipped' = TRUE
    /\ UNCHANGED <<status, weighted, equity, report, curve, decided>>

\* Nothing selected has a column, or the window has fewer than two rows: the mode is
\* already that of this date, everything else that of the last rebalance.
RebalanceSkipped(market) ==
    /\ NextPeriod /\ Rebalances
    /\ mode' = ModeOf(market)
    /\ skipped' = TRUE
    /\ UNCHANGED <<status, book, report, curve, decided>>

Reselect(market, selected) ==
    /\ NextPeriod /\ Rebalances
    /\ \E e \in Equities(market) : equity' = e
    /\ mode' = ModeOf(market)
    /\ decided' = ModeOf(market)
    /\ skipped' = FALSE
    /\ holdings' = selected
    /\ weighted' = ToSet(selected)
    /\ Account(selected, ToSet(selected), ModeOf(market))
    /\ UNCHANGED status

\* The stocks that beat the index, of those ranked and priced; none when the index
\* has no history.
Passing(ranked) ==
    IF RsMode = "off" \/ ~HasIndex THEN {{}} ELSE SUBSET (ToSet(ranked) \cap Columns)

\* What select() is given: in mode "all" the gate restricts the cross-section, in
\* "entry_only" the entries.
Inputs ==
    {IF RsMode = "all" THEN [cross |-> Eligible(x[1], x[2]), mask |-> {}]
     ELSE [cross |-> x[1], mask |-> x[2]] :
        x \in UNION {{ranked} \X Passing(ranked) : ranked \in Rankings \ {<<>>}}}

Selections == {Chosen(in.cross, in.mask, holdings) : in \in Inputs}

Finish ==
    /\ status = "running" /\ period > Periods
    /\ status' = IF curve = {} THEN "failed" ELSE "saved"
    /\ UNCHANGED <<period, book, mode, report, curve, decided, skipped>>

Next ==
    \/ Hold \/ HoldSkipped \/ NothingRanked
    \/ \E market \in Market :
        \/ RebalanceSkipped(market)
        \/ \E selected \in Selections \ {<<>>} : Reselect(market, selected)
    \/ Finish

Spec == Init /\ [][Next]_vars

-----------------------------------------------------------------------------
(* Properties.  Those of the selection hold for whatever the rebalance of a reachable *)
(* book is given.                                                                     *)

AtRebalance == status = "running" /\ period <= Periods /\ Rebalances

\* The holdings that the next selection starts from are those the weights are of,
\* through skipped and held periods, and every report shows them so, under the mode
\* its weights were made in unless a rebalance was skipped since.
BookIsConsistent ==
    /\ weighted = ToSet(holdings)
    /\ report.weighted = ToSet(report.positions)
    /\ report.period # 0 =>
          report.positions = holdings /\ (report.mode = decided \/ skipped)

OverSector(selected, s) ==
    Cardinality({t \in ToSet(selected) : Sector[t] = Sector[s]}) > SectorLimit(Len(selected))

\* "Reduce unnecessary churn": a holding is given up only below the exit floor, for a
\* candidate of this date that leads it by the buffer, or to the sector cap; a
\* candidate never for the first two.
HoldingKept ==
    AtRebalance => \A in \in Inputs :
        LET cands == Candidates(in.cross, in.mask)
            selected == Select(in.cross, in.mask, holdings)
        IN \A s \in ToSet(holdings) \ ToSet(SectorCap(selected, in.cross)) :
            \/ s \in ToSet(selected) /\ OverSector(selected, s)
            \/ /\ s \notin ToSet(cands)
               /\ \/ BelowFloor(in.cross, s)
                  \/ \E c \in ToSet(cands) :
                        100 * (Rank(in.cross, c) - Rank(in.cross, s)) >= BufferPct * Len(in.cross)

\* "Candidates for new entry are restricted to symbols in the mask": an entry passes the
\* gate, if any stock does, and no stock that could have entered ranks better than it.
BestEntrants ==
    AtRebalance => \A in \in Inputs :
        LET selected == Select(in.cross, in.mask, holdings)
            entered == ToSet(selected) \ ToSet(holdings)
            left == {s \in ToSet(in.cross) \ (ToSet(selected) \cup ToSet(holdings)) :
                        in.mask = {} \/ s \in in.mask}
        IN \A e \in entered :
            /\ in.mask = {} \/ e \in in.mask
            /\ \A s \in left : Rank(in.cross, s) < Rank(in.cross, e)
=============================================================================
