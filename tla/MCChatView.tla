----------------------------- MODULE MCChatView ------------------------------
(***************************************************************************)
(* An instance of ChatView for TLC: two friends and a group, a message of  *)
(* a friend, and one that the user types or that announces a file.         *)
(***************************************************************************)
EXTENDS ChatView

CONSTANTS f1, f2, g1, m1, u1

TwoFriends == {f1, f2}
OneGroup   == {g1}
OneMessage == {m1}
FromFriend == [m \in Incoming |-> f1]
OneOutgoing == {u1}
=============================================================================
