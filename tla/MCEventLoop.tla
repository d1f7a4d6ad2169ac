----------------------------- MODULE MCEventLoop -----------------------------
(***************************************************************************)
(* Instances of EventLoop for TLC.  Two producers are enough for two       *)
(* wakeups to overlap with one read of the eventfd; three functors are     *)
(* enough for one to be run, one to wait in the batch and one in the queue.*)
(***************************************************************************)
EXTENDS EventLoop

CONSTANTS p1, p2, t1, t2, t3

MCProducer == {p1, p2}
MCTask     == {t1, t2, t3}
=============================================================================
