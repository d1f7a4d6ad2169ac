--------------------------- MODULE MCMessageCache ---------------------------
(***************************************************************************)
(* An instance of MessageCache for TLC: a group with one message (an entry *)
(* of its list for every member) of one sender, and two private messages.  *)
(* One lrange returns two entries; of three members the group list takes   *)
(* more than one round.                                                    *)
(***************************************************************************)
EXTENDS MessageCache

CONSTANTS p1, p2, g1, team, sender

TwoPrivate   == {p1, p2}
OneGroupMsg  == {g1}
OneGroup     == {team}
ToTeam       == [m \in GroupMsg |-> team]
OneSender    == {sender}
FromSender   == [m \in GroupMsg |-> sender]
=============================================================================
