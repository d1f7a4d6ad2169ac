CONSTANTS
    f1 = f1  f2 = f2  g1 = g1  m1 = m1  u1 = u1
    Friend <- TwoFriends
    Group <- OneGroup
    Incoming <- OneMessage
    From <- FromFriend
    Outgoing <- OneOutgoing
    PushLimit = 1
    Page = 1
    MaxRequests = 1
SPECIFICATION ViewSpec
INVARIANTS ViewInv SeenOrUnread
