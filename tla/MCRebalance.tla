---------------------------- MODULE MCRebalance ----------------------------
(* Four stocks, three of one sector; the price matrix has no column for one of these. *)
EXTENDS Rebalance

CONSTANTS a, b, c, d

Stocks == {a, b, c, d}
Priced == {a, b, d}
SectorOf == [s \in Stocks |-> IF s = d THEN "ENERG" ELSE "BANK"]
ScaledBy == {50, 100, 150}
=============================================================================
