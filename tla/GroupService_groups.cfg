CONSTANTS
    u1 = u1  u2 = u2  u3 = u3
    User = {u1, u2, u3}
    Owner = u1
    Joined <- MCJoined
    Req = {r1, r2, r3}
    Ops <- MCOps
    Faults = {"statement", "rpc"}
SPECIFICATION Spec
INVARIANTS
    TypeOK CountIsLen OwnerStays SerialAgree
SYMMETRY Symmetry
CHECK_DEADLOCK FALSE
