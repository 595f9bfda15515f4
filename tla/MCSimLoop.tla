---------------------------- MODULE MCSimLoop ----------------------------
\* A buy that can be filled in two parts, and a sell of the one share held.
EXTENDS SimLoop, TLC

CONSTANTS buy, sell

OrderList == <<buy, sell>>
Shares == (buy :> 2) @@ (sell :> 1)
Sides == (buy :> "BUY") @@ (sell :> "SELL")
Position == (buy :> 0) @@ (sell :> 1)
=============================================================================
