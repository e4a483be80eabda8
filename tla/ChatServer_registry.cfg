CONSTANTS
    u1 = u1  u2 = u2  g1 = g1  c1 = c1  c2 = c2  c3 = c3
    NoConn = NoConn
    User = {u1, u2}
    Group = {g1}
    Conn = {c1, c3}
    Msg = {1}
    UserOf <- MCUserOf
    Sender <- MCSender
    Target <- MCTarget
    Kind <- MCKind
    Members <- MCMembers
    ChannelSize = 1
    Mortal = {c1}
    Faults = {"upgrade"}
    Verdicts = {"ok"}
SPECIFICATION Spec
INVARIANTS
    TypeOK MutexInv RegistryInv ClosedOnce ShutIsLeaving
PROPERTY NeverReturns
CHECK_DEADLOCK FALSE
