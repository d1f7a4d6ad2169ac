----------------------------- MODULE MCConnector ------------------------------
(***************************************************************************)
(* An instance of Connector for TLC: delays of 1, 2 and 3 ticks, where the *)
(* last is the bound and not a multiple of the first, as in the code.      *)
(***************************************************************************)
EXTENDS Connector
=============================================================================
