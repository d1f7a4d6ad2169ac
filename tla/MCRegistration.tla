---------------------------- MODULE MCRegistration -----------------------------
(***************************************************************************)
(* An instance of Registration for TLC: two workers; a code, two           *)
(* registrations and a password reset for one address, a code for another, *)
(* and two handlers that nest three connections, one more than there are.  *)
(***************************************************************************)
EXTENDS Registration, TLC

CONSTANTS q1, q2, a1, a2, f1, o1, o2, e1, e2, k1, k2

TwoCodes   == {q1, q2}
TwoAcks    == {a1, a2}
OneFind    == {f1}
TwoOthers  == {o1, o2}
TwoEmails  == {e1, e2}
Addresses  == [t \in Task |-> IF t = q2 THEN e2 ELSE e1]
Codes      == {k1, k2}
Lengths    == [e \in Email |-> IF e = e1 THEN 1 ELSE 2]

Symmetric == Permutations(RegisterTask) \cup Permutations(Code) \cup Permutations(OtherTask)
================================================================================
