------------------------------ MODULE Execution ------------------------------
(***************************************************************************)
(* ExecutionSimulator (src/csm/execution/simulator.py): from a target book *)
(* and the shares held, the trade list.  Each symbol of the book is traded *)
(* on its own; slippage, turnover and the capacity flag are reported and   *)
(* decide nothing, nor does min_trade_weight.                              *)
(***************************************************************************)
EXTENDS Integers

CONSTANTS Lot      \* lot_size

\* _round_down_to_lot
RoundDownToLot(shares) == (shares \div Lot) * Lot

\* _round_to_lot: toward zero.
RoundToLot(shares) ==
    IF shares >= 0 THEN RoundDownToLot(shares) ELSE -RoundDownToLot(-shares)

\* x \div y for x of either sign, toward zero.
Quotient(x, y) == IF x >= 0 THEN x \div y ELSE -((-x) \div y)

\* A symbol without a latest price (0) trades nothing.
TargetShares(notional, price) ==
    IF price > 0 THEN RoundDownToLot(notional \div price) ELSE 0

\* Faulty variant: the shares already held are forgotten.
ForgetsHoldings(notional, shares, price) == TargetShares(notional, price)

DeltaShares(notional, shares, price) ==
    IF price > 0 THEN RoundToLot(Quotient(notional - shares * price, price)) ELSE 0

SideOf(delta) == IF delta > 0 THEN "BUY" ELSE IF delta < 0 THEN "SELL" ELSE "HOLD"

\* simulate(): a trade for every symbol of the target book, and for no other.
Simulate(book, positions, price) ==
    [x \in DOMAIN book |->
        LET delta == DeltaShares(book[x], positions[x], price[x]) IN
        [side |-> SideOf(delta), delta |-> delta,
         target |-> TargetShares(book[x], price[x])]]
=============================================================================
