\* An owner and one more person, two units, three steps, one of which may be
\* another owner's, two calls that may overlap.
CONSTANTS
    po = po
    p1 = p1
    u1 = u1
    u2 = u2
    Persons = {po, p1}
    Units = {u1, u2}
    Owner = po
    Home = u1
    Demo = TRUE
    AtOnce = 2
    MaxSteps = 3
    MaxOthers = 1
    None = None
SPECIFICATION Spec
\* The calls are used up.
CHECK_DEADLOCK FALSE
INVARIANTS
    TypeOK
    QuietIsTrue
    AddedIsThere
