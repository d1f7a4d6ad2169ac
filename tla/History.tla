------------------------------ MODULE History ------------------------------
(***************************************************************************)
(* What the write-behind cache promises about the private messages: they   *)
(* read as a log to which messages are added at the end.  A crash of the   *)
(* server may repeat a stretch of the log in place; nothing disappears, is *)
(* repeated otherwise or changes places.                                   *)
(***************************************************************************)
EXTENDS Naturals, Sequences

CONSTANT Msg

VARIABLE log   \* the messages stored or waiting to be stored, in order

HInit == log = <<>>

Add(m) == log' = Append(log, m)

Repeat(i, k) == log' = SubSeq(log, 1, k) \o SubSeq(log, i, Len(log))

HNext ==
    \/ \E m \in Msg : Add(m)
    \/ \E i, k \in 1..Len(log) : i <= k /\ Repeat(i, k)

HSpec == HInit /\ [][HNext]_log
=============================================================================
