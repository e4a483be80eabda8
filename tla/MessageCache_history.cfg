CONSTANTS
    a = a  b = b  g = g  m1 = m1  m2 = m2  m3 = m3  m4 = m4
    NoMsg = NoMsg
    User = {a, b}
    Group = {g}
    Msg = {m1, m2, m3, m4}
    Sender <- MCSender
    Target <- MCTarget
    Kind <- MCKind
    Asked <- MCAsked
    Request = {r1}
    Faults = {"store", "load", "cache", "crash"}
SPECIFICATION Spec
INVARIANTS
    TypeOK CachedInOrder OwnPostsAreCached
PROPERTIES
    HistoryCatchesUp
