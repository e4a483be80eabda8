CONSTANTS
    a = a  b = b
    Pair = {a, b}
    NoUser = NoUser
    Req = {r1, r2, r3}
    Loose = 2
    Faults = {"statement", "rpc"}
SPECIFICATION Spec
INVARIANTS
    TypeOK BothSides ListedIsContact SessionsAgree
PROPERTIES
    NoWayBack DeletionLeavesNothing
SYMMETRY Symmetry
CHECK_DEADLOCK FALSE
