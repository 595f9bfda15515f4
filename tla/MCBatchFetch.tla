---------------------------- MODULE MCBatchFetch ----------------------------
(* Three symbols and two places, so that one waits. *)
EXTENDS BatchFetch

CONSTANTS aot, ptt, banpu

Held == {aot, ptt, banpu}
=============================================================================
