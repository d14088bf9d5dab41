\* Two members of a unit, one also of another; any of the three profiles
\* signs in, three calls at once, five steps, one text.  The browser really
\* may do nothing more: deadlock is not checked.
CONSTANTS
    p1 = p1
    p2 = p2
    u1 = u1
    u2 = u2
    Accounts <- Accounts3
    AtOnce = 3
    MaxSteps = 5
    MaxTexts = 1
    None = None
SPECIFICATION FairSpec
CHECK_DEADLOCK FALSE
INVARIANTS
    TypeOK
    SentAsLabelled
    TextAccounted
    StoredOnce
PROPERTY PageSettles
