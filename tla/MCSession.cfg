\* Two tabs of one browser; a person with two profiles in one unit, another who
\* shares an e-mail with the first; three requests, one of which may instead be a
\* change made by other browsers.
CONSTANTS
    t1 = t1
    t2 = t2
    Tabs = {t1, t2}
    Accounts <- Accounts3
    Seeded <- Seed
    Passwords = {"default", "other"}
    Default = "default"
    MaxChanges = 1
    MaxAsks = 3
    None = None
SPECIFICATION Spec
SYMMETRY TabSymmetry
INVARIANTS
    TypeOK
    PageIsSession
    OfferedIsAllowed
PROPERTIES
    SignInVerified
    OwnPasswordOnly
    OnlyTokensExpire
