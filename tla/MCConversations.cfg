\* A workspace with a migrated group next to one created later, and two
\* requests that race on them.
CONSTANTS
    w1 = w1
    w2 = w2
    p1 = p1
    p2 = p2
    p3 = p3
    r1 = r1
    r2 = r2
    c1 = c1
    c2 = c2
    c3 = c3
    Workspaces = {w1, w2}
    Existing = {w1}
    Persons = {p1, p2, p3}
    Requests = {r1, r2}
    ConvIds = {c1, c2, c3}
    NoConv = NoConv
    NoArg = NoArg
SPECIFICATION Spec
SYMMETRY Symmetry
\* Every request may have ended, and a service without requests stands still.
CHECK_DEADLOCK FALSE
INVARIANTS
    TypeOK
    GroupAnswersAgree
    DMAnswerIsPair
    PartialDMExplained
    NoRedundantDM
    ConversationListSound
PROPERTY
    ImplementsDirectory
