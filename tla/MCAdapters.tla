----------------------------- MODULE MCAdapters -----------------------------
(* Two hooks on two tasks, two attempts of every POST. *)
EXTENDS Adapters
=============================================================================
