----------------------------- MODULE JobService -----------------------------
(***************************************************************************)
(* What the job registry promises to a client that submits jobs and polls  *)
(* them: one server per kind, each job executed at most once, and nothing  *)
(* resumed after a restart.  Queues, workers and files are left out.       *)
(***************************************************************************)
CONSTANTS Job, KindOf

VARIABLE phase

Init == phase = [j \in Job |-> "new"]

Move(j, from, to) ==
    /\ phase[j] = from
    /\ phase' = [phase EXCEPT ![j] = to]

Enqueue(j) == Move(j, "new", "queued")

Begin(j) ==
    /\ \A i \in Job : KindOf[i] = KindOf[j] => phase[i] # "executing"
    /\ Move(j, "queued", "executing")

End(j) == Move(j, "executing", "over")

\* Cancelled, or given up by a worker that could not start it.
Drop(j) == Move(j, "queued", "over")

\* The process ends: what was queued or executing is over.
Restart ==
    phase' = [j \in Job |-> IF phase[j] = "new" THEN "new" ELSE "over"]

Next ==
    \/ \E j \in Job : Enqueue(j) \/ Begin(j) \/ End(j) \/ Drop(j)
    \/ Restart

Spec == Init /\ [][Next]_phase
=============================================================================
