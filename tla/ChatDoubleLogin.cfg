CONSTANTS
    ann = ann  bob = bob  c1 = c1  c2 = c2
    m1 = m1  j1 = j1  j2 = j2  r1 = r1
    NoUser = NoUser  NoConn = NoConn  NoMsg = NoMsg
    User <- TwoUsers
    Conn <- TwoConns
    Msg <- OneMsg
    Sender <- FromBob
    Receiver <- ToAnn
    Friends <- MutualFriends
    LoginJob <- TwoLogins
    ResetJob <- NoReset
SPECIFICATION Spec
INVARIANT SingleLogin
CHECK_DEADLOCK FALSE
