---------------------------- MODULE MCFileTransfer -----------------------------
(***************************************************************************)
(* Instances of FileTransfer for TLC: two uploads on one loop, one of a    *)
(* file that may change under way and one of a unit, and a download of the *)
(* other on a second loop.                                                 *)
(***************************************************************************)
EXTENDS FileTransfer, TLC

CONSTANTS u1, u2, d1, l1, l2

TwoUploads  == {u1, u2}
OneDownload == {d1}
TwoLoops    == {l1, l2}
OfSecond    == d1 :> u2
OnLoops     == (u1 :> l1) @@ (u2 :> l1) @@ (d1 :> l2)
Sizes       == (u1 :> 1) @@ (u2 :> 2)
First       == {u1}
=============================================================================
