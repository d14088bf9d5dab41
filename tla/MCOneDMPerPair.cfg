CONSTANTS
    w1 = w1
    p1 = p1
    p2 = p2
    r1 = r1
    r2 = r2
    c1 = c1
    c2 = c2
    c3 = c3
    Workspaces = {w1}
    Existing = {}
    Persons = {p1, p2}
    Requests = {r1, r2}
    ConvIds = {c1, c2, c3}
    NoConv = NoConv
    NoArg = NoArg
SPECIFICATION Spec
SYMMETRY Symmetry
CHECK_DEADLOCK FALSE
INVARIANT OneDMPerPair
