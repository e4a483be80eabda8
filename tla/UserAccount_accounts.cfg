CONSTANTS
    Req = {r1, r2, r3, r4}
    Faults = {"statement", "rpc"}
SPECIFICATION Spec
INVARIANTS
    TypeOK OneAccount VerdictStands InfoIsFresh
SYMMETRY Symmetry
CHECK_DEADLOCK FALSE
