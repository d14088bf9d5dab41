\* Two sockets one after the other, one conversation, one restart of either
\* server.
\* No symmetry: SessionsEnd is a liveness property.
CONSTANTS
    s1 = s1
    s2 = s2
    c1 = c1
    Sockets = {s1, s2}
    Convs = {c1}
    MaxRestarts = 1
    None = None
SPECIFICATION FairSpec
\* The sockets are used up.
CHECK_DEADLOCK FALSE
INVARIANTS
    TypeOK
    OneSocket
    DisconnectExplained
    LeftBehindExplained
PROPERTIES
    SessionsEnd
