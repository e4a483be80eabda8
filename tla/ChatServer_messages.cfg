CONSTANTS
    u1 = u1  u2 = u2  g1 = g1  c1 = c1  c2 = c2  c3 = c3
    NoConn = NoConn
    User = {u1, u2}
    Group = {g1}
    Conn = {c1, c2}
    Msg = {1, 2, 3}
    UserOf <- MCUserOf
    Sender <- MCSenders
    Target <- MCTarget
    Kind <- MCKind
    Members <- MCMembers
    ChannelSize = 1
    Mortal = {c2}
    Faults = {"load"}
    Verdicts = {"ok", "notFriend"}
SPECIFICATION Spec
INVARIANTS
    MessageInv RefusedIsNotDelivered ShownToItsAudience ShownOnce
PROPERTY ImplementsLifecycle
CHECK_DEADLOCK FALSE
