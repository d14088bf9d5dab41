\* Two users, one conversation, one message, two sessions, one crash.
\* No symmetry: Delivered is a liveness property.
CONSTANTS
    u1 = u1
    u2 = u2
    c1 = c1
    m1 = m1
    s1 = s1
    s2 = s2
    Users = {u1, u2}
    Convs = {c1}
    Msgs = {m1}
    Sessions = {s1, s2}
    Fetches = {}
    Members <- MCMembers
    Rows <- OneRow
    Page = 1
    MaxToggles = 0
    MaxCrashes = 1
    None = None
SPECIFICATION FairSpec
\* The bounds are used up, or nobody sends anything.
CHECK_DEADLOCK FALSE
INVARIANTS
    Accounted
PROPERTIES
    Delivered
