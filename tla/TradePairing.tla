---------------------------- MODULE TradePairing ----------------------------
(***************************************************************************)
(* pair_trades (src/csm/execution/trade_pairing.py): the fills of a symbol, *)
(* in the order of their times, open lots and close them first in, first    *)
(* out.  A fill is [time, symbol, side, shares, price, fee]; no two of a    *)
(* symbol have one time, so a set of fills stands for the stable sort.      *)
(* Symbols do not touch one another; the final sort by exit time and symbol *)
(* only merges their closed trades.                                         *)
(***************************************************************************)
EXTENDS Integers, Sequences, FiniteSets

Opens(f) == IF f.side = "BUY" THEN "LONG" ELSE "SHORT"

NewLot(f, shares, fee) ==
    [side |-> Opens(f), time |-> f.time, price |-> f.price, shares |-> shares, fee |-> fee]

Gain(side, entry, exit) == IF side = "LONG" THEN exit - entry ELSE entry - exit

ClosedTrade(f, lot, qty, fee) ==
    [side |-> lot.side, entry |-> lot.time, exit |-> f.time, qty |-> qty, fee |-> fee,
     pnl |-> Gain(lot.side, lot.price, f.price) * qty - fee]

\* The lot's fee goes with its shares.
EntryFee(lot, qty) == (lot.fee * qty) \div lot.shares

\* Faulty variant: what is left of a lot is charged its whole fee again.
RestWithFee(lot, qty) == [lot EXCEPT !.shares = @ - qty]

Rest(lot, qty) == [lot EXCEPT !.shares = @ - qty, !.fee = @ - EntryFee(lot, qty)]

\* One turn of the closing loop: the lot gives what the fill still wants of it.
Close(f, acc, lot) ==
    LET qty == IF lot.shares < acc.wanted THEN lot.shares ELSE acc.wanted
        fee == EntryFee(lot, qty) + (f.fee * qty) \div f.shares
        rest == Rest(lot, qty)
    IN IF acc.wanted = 0 THEN [acc EXCEPT !.lots = Append(@, lot)]
       ELSE [wanted |-> acc.wanted - qty,
             lots |-> IF rest.shares > 0 THEN Append(acc.lots, rest) ELSE acc.lots,
             closed |-> Append(acc.closed, ClosedTrade(f, lot, qty, fee))]

\* The closing loop, and what is left of the fill once no lot is: it opens a lot of
\* its own side.  (The check that should refuse this asks for lots that remain.)
CloseLots(book, f) ==
    LET Turn[i \in 0 .. Len(book.lots)] ==
            IF i = 0 THEN [wanted |-> f.shares, lots |-> <<>>, closed |-> book.closed]
            ELSE Close(f, Turn[i - 1], book.lots[i])
        done == Turn[Len(book.lots)]
    IN [closed |-> done.closed,
        lots |-> IF done.wanted = 0 THEN done.lots
                 ELSE Append(done.lots, NewLot(f, done.wanted,
                                               (f.fee * done.wanted) \div f.shares))]

\* Faulty variant: a new lot goes in front of the older ones.
MatchNewest(book, f) ==
    IF book.lots = <<>> \/ Head(book.lots).side = Opens(f)
    THEN [book EXCEPT !.lots = <<NewLot(f, f.shares, f.fee)>> \o @]
    ELSE CloseLots(book, f)

\* One fill: on a flat book, or on the side of the first lot, it opens a lot.
Match(book, f) ==
    IF book.lots = <<>> \/ Head(book.lots).side = Opens(f)
    THEN [book EXCEPT !.lots = Append(@, NewLot(f, f.shares, f.fee))]
    ELSE CloseLots(book, f)

\* The fill of a symbol that k others come before.
Nth(fills, k) == CHOOSE f \in fills : Cardinality({g \in fills : g.time < f.time}) = k

\* The lots and the closed trades of each symbol.
PairTrades(fills, symbols) ==
    [s \in symbols |->
        LET mine == {f \in fills : f.symbol = s}
            After[k \in 0 .. Cardinality(mine)] ==
                IF k = 0 THEN [lots |-> <<>>, closed |-> <<>>]
                ELSE Match(After[k - 1], Nth(mine, k - 1))
        IN After[Cardinality(mine)]]
=============================================================================
