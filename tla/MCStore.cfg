\* One user with one session, one conversation, two messages, one fetch
\* of one-message pages, one access change.
CONSTANTS
    u1 = u1
    c1 = c1
    m1 = m1
    m2 = m2
    s1 = s1
    f1 = f1
    Users = {u1}
    Convs = {c1}
    Msgs = {m1, m2}
    Sessions = {s1}
    Fetches = {f1}
    Members <- MCMembers
    Rows <- OneRow
    Page = 1
    MaxToggles = 1
    MaxCrashes = 0
    None = None
SPECIFICATION Spec
SYMMETRY Symmetry
\* The bounds are used up, or nobody sends anything.
CHECK_DEADLOCK FALSE
INVARIANTS
    TypeOK
    SessionOrder
    AccessChecked
PROPERTIES
    ImplementsLog
    VanishExplained
