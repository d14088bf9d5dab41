\* The owner changes the role of a person who works in two units.
CONSTANTS
    po = po
    p1 = p1
    u1 = u1
    u2 = u2
    Persons = {po, p1}
    Units = {u1, u2}
    Owner = po
    Home = u1
    Demo = TRUE
    AtOnce = 1
    MaxSteps = 2
    MaxOthers = 0
    None = None
SPECIFICATION Spec
CHECK_DEADLOCK FALSE
INVARIANT RolePerUnit
