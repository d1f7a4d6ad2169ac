--------------------------- MODULE MCTcpConnection ---------------------------
(***************************************************************************)
(* An instance of TcpConnection for TLC: a connection of an IO loop and    *)
(* two pool tasks in flight, whose functors queue up in the loop with      *)
(* those of the connection's own life.                                     *)
(***************************************************************************)
EXTENDS TcpConnection

CONSTANTS c1, j1, j2, io

OneConn == {c1}
TwoJobs == {j1, j2}
OneLoop == {io}

OnIo == [c \in Conn |-> io]
=============================================================================
