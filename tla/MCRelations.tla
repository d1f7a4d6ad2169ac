----------------------------- MODULE MCRelations -----------------------------
(***************************************************************************)
(* Instances of Relations for TLC: two workers, three users, one group.    *)
(* Six scenarios, each a set of requests that clients make in any order    *)
(* that their menus allow, and that overlap as they like.                  *)
(***************************************************************************)
EXTENDS Relations, TLC

CONSTANTS ann, bob, cat, team, w1, w2

ThreeUsers == {ann, bob, cat}
OneGroup   == {team}
TwoWorkers == {w1, w2}

Plain(do, by)          == [do |-> do, by |-> by]
ToUser(do, by, to)     == [do |-> do, by |-> by, to |-> to]
OfGroup(do, by)        == [do |-> do, by |-> by, group |-> team]
InGroup(do, by, to)    == [do |-> do, by |-> by, to |-> to, group |-> team]
Friends(by, to, ok)    == [do |-> "FriendAddResponser", by |-> by, to |-> to, accept |-> ok]
Joins(by, to, ok)      == [do |-> "GroupAddResponser", by |-> by, to |-> to, group |-> team,
                           accept |-> ok]

\* Requests that cross, are accepted twice, refused, or made again.
Befriending ==
    {ToUser("FriendAdder", ann, bob), ToUser("FriendAdder", bob, ann),
     Friends(bob, ann, TRUE), Friends(ann, bob, TRUE), Friends(ann, bob, FALSE),
     ToUser("FriendDeleter", ann, bob)}

\* Both end the friendship, and one of them the account.
Parting ==
    {ToUser("FriendAdder", ann, bob), Friends(bob, ann, TRUE),
     ToUser("FriendDeleter", ann, bob), ToUser("FriendDeleter", bob, ann),
     ToUser("FriendBlocker", ann, bob), ToUser("FriendUnblocker", ann, bob),
     Plain("AccountKiller", ann)}

\* Two who may answer a request, and may kick who has come in.
Joining ==
    {OfGroup("GroupCreater", ann), OfGroup("GroupAdder", bob), OfGroup("GroupAdder", cat),
     Joins(ann, bob, TRUE), InGroup("AdminAdder", ann, bob),
     Joins(ann, cat, FALSE), Joins(bob, cat, TRUE),
     InGroup("MemberKicker", ann, cat), InGroup("MemberKicker", bob, cat)}

\* Roles that change while members leave, are kicked, or dissolve the group.
Leaving ==
    {OfGroup("GroupCreater", ann), OfGroup("GroupAdder", bob), Joins(ann, bob, TRUE),
     InGroup("AdminAdder", ann, bob), InGroup("AdminRemover", ann, bob),
     InGroup("MemberKicker", bob, ann), OfGroup("GroupExiter", bob),
     OfGroup("GroupExiter", ann), OfGroup("GroupChatter", bob)}

\* Groups and accounts that stored messages and open requests refer to.
Dissolving ==
    {OfGroup("GroupCreater", ann), OfGroup("GroupAdder", bob), Joins(ann, bob, TRUE),
     OfGroup("GroupExiter", ann), OfGroup("GroupChatter", bob),
     Plain("AccountKiller", ann), Plain("AccountKiller", bob)}

\* Accounts that friendships and requests refer to.
Removing ==
    {OfGroup("GroupCreater", ann), OfGroup("GroupAdder", bob),
     ToUser("FriendAdder", ann, bob), Friends(bob, ann, TRUE),
     Plain("AccountKiller", ann), Plain("AccountKiller", bob)}

Scenarios == {Befriending, Parting, Joining, Leaving, Dissolving, Removing}

Interchangeable == Permutations(Worker)
=============================================================================
