---------------------------- MODULE MCChatSession ----------------------------
(***************************************************************************)
(* Instances of ChatSession for TLC: Ann and Bob, who are friends, two     *)
(* connections, two logins at a time, one message from Bob to Ann, and one *)
(* password reset or none.                                                 *)
(***************************************************************************)
EXTENDS ChatSession

CONSTANTS ann, bob, c1, c2, m1, j1, j2, r1

TwoUsers  == {ann, bob}
TwoConns  == {c1, c2}
OneMsg    == {m1}
TwoLogins == {j1, j2}
NoReset   == {}
OneReset  == {r1}

FromBob == [m \in Msg |-> bob]
ToAnn   == [m \in Msg |-> ann]

MutualFriends == {<<ann, bob>>, <<bob, ann>>}
=============================================================================
