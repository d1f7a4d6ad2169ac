------------------------------ MODULE MCClient -------------------------------
(***************************************************************************)
(* An instance of Client for TLC: two applicants for a group, one of whom  *)
(* also asks for friendship, and an upload to a group.                     *)
(***************************************************************************)
EXTENDS Client

CONSTANTS a1, a2, t1

TwoApplicants == {a1, a2}
AskingEach    == [k \in Kind |-> IF k = "friend" THEN {a1} ELSE {a1, a2}]
OneUpload     == {t1}
ToGroup       == [t \in Transfer |-> "group"]
=============================================================================
