--------------------------- MODULE ConnectionLife ---------------------------
(***************************************************************************)
(* What TcpServer promises to the user of its connection callback: the     *)
(* callback first reports a connection up, once, and after that only down. *)
(* The report of a closed connection may be repeated (a second one leaves  *)
(* the phase alone), but it never precedes the report of its opening and   *)
(* the connection never comes up again.                                    *)
(***************************************************************************)
CONSTANT Conn

VARIABLE phase

LInit == phase = [c \in Conn |-> "new"]

Up(c) ==
    /\ phase[c] = "new"
    /\ phase' = [phase EXCEPT ![c] = "up"]

Down(c) ==
    /\ phase[c] = "up"
    /\ phase' = [phase EXCEPT ![c] = "down"]

LNext == \E c \in Conn : Up(c) \/ Down(c)

LSpec == LInit /\ [][LNext]_phase
=============================================================================
