----------------------------- MODULE FetchPhase -----------------------------
(***************************************************************************)
(* What a refresh relies on when it fetches a list of symbols: an attempt  *)
(* takes over what the vendor delivered so far, all of it and nothing      *)
(* else; the phase ends with every symbol, after its last attempt, or      *)
(* because the refresh is cut off or fails.  DailyRefresh steps through a  *)
(* phase in such attempts.                                                 *)
(***************************************************************************)
EXTENDS Naturals

CONSTANTS Symbol, BatchAttempts

VARIABLES
    delivered,   \* symbols for which data has come
    got,         \* symbols the refresh has taken over
    attempts,    \* attempts that have ended
    status       \* "running", "done" or "cut"

vars == <<delivered, got, attempts, status>>

Init == delivered = {} /\ got = {} /\ attempts = 0 /\ status = "running"

Deliver ==
    /\ status = "running"
    /\ \E s \in Symbol \ delivered : delivered' = delivered \cup {s}
    /\ UNCHANGED <<got, attempts, status>>

Attempt ==
    /\ status = "running"
    /\ got' = delivered
    /\ attempts' = attempts + 1
    /\ status' = IF delivered = Symbol \/ attempts' = BatchAttempts THEN "done" ELSE "running"
    /\ UNCHANGED delivered

CutOff ==
    /\ status = "running"
    /\ status' = "cut"
    /\ UNCHANGED <<delivered, got, attempts>>

Spec == Init /\ [][Deliver \/ Attempt \/ CutOff]_vars /\ WF_vars(Attempt)
=============================================================================
