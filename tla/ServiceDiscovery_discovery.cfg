CONSTANTS
    chat = chat  user = user  session = session
    Service = {chat, user, session}
    Addr <- MCAddr
    Link <- MCLink
    Blocking = {session}
    MaxStarts = 2
SPECIFICATION Spec
INVARIANTS
    TypeOK
PROPERTIES
    ComesToBeUsable
CHECK_DEADLOCK FALSE
