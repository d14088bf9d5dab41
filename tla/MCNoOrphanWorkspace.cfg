\* Two requests of any kind, one of which may be cut off by a crash of the
\* backend; when both are answered the run is over.
CONSTANTS
    r1 = r1
    r2 = r2
    Requests = {r1, r2}
    Seed = Seed
    e0 = e0
    e1 = e1
    Emails = {e0, e1}
    SeedEmail = e0
    NoCall = NoCall
    MaxCrashes = 1
    Offered = {"onboard", "create_bu", "create_staff", "enroll", "update_role", "update_access", "reset"}
SPECIFICATION Spec
SYMMETRY Symmetry
CHECK_DEADLOCK FALSE
INVARIANT NoOrphanWorkspace
