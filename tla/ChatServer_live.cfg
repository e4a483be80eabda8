CONSTANTS
    u1 = u1  u2 = u2  g1 = g1  c1 = c1  c2 = c2  c3 = c3
    NoConn = NoConn
    User = {u1, u2}
    Group = {g1}
    Conn = {c1, c2}
    Msg = {1, 2}
    UserOf <- MCUserOf
    Sender <- MCSender
    Target <- MCTargetUser
    Kind <- MCKindCall
    Members <- MCMembers
    ChannelSize = 2
    Mortal = {c2}
    Faults = {"store"}
    Verdicts = {"ok", "noReply"}
SPECIFICATION FairSpec
PROPERTIES
    QueuedIsHandled ShutIsRemoved BeatingIsClosed
CHECK_DEADLOCK FALSE
