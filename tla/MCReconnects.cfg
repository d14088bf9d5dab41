\* Two sockets, no conversation, one restart.
CONSTANTS
    s1 = s1
    s2 = s2
    Sockets = {s1, s2}
    Convs = {}
    MaxRestarts = 1
    None = None
SPECIFICATION FairSpec
\* The sockets are used up.
CHECK_DEADLOCK FALSE
PROPERTY Reconnects
