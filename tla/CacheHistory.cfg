CONSTANTS
    p1 = p1  p2 = p2  g1 = g1  team = team  sender = sender
    PrivateMsg <- TwoPrivate
    GroupMsg <- OneGroupMsg
    Group <- OneGroup
    GroupOf <- ToTeam
    User <- OneSender
    SenderOf <- FromSender
    MemberCount = 3
    BatchLimit = 2
    MaxCrashes = 1
SPECIFICATION FairSpec
INVARIANT CacheInv
PROPERTIES ImplementsHistory CachedIsStored
