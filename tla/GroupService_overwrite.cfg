CONSTANTS
    u1 = u1  u2 = u2  u3 = u3
    User = {u1, u2, u3}
    Owner = u1
    Joined <- MCNoneJoined
    Req = {r1, r2}
    Ops = {"enter"}
    Faults = {}
SPECIFICATION Spec
INVARIANT EntersAreKept
CHECK_DEADLOCK FALSE
