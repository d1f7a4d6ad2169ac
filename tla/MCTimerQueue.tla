----------------------------- MODULE MCTimerQueue -----------------------------
(***************************************************************************)
(* An instance of TimerQueue for TLC: two timers that repeat, as the       *)
(* server's base loop has, and one that does not, as a retry of Connector. *)
(***************************************************************************)
EXTENDS TimerQueue

CONSTANTS flush, check, retry

ThreeTimers == {flush, check, retry}
MCInterval  == [t \in Timer |-> CASE t = flush -> 1 [] t = check -> 2 [] OTHER -> 0]
MCDelay     == [t \in Timer |-> CASE t = flush -> 1 [] t = check -> 2 [] OTHER -> 1]
=============================================================================
