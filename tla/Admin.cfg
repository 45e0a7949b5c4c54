SPECIFICATION Spec
CONSTANTS
    u = u
    v = v
    alice = alice
    bob = bob
    Outs = {u, v}
    Spaces = {1, 2}
    Operators = {alice, bob}
    Commands <- MCCommands
    MaxTime = 2
SYMMETRY MCSymmetry
INVARIANTS
    TypeOK
    PagesComplete
    RemovedOnce
PROPERTIES
    RemovedWasShown
CHECK_DEADLOCK FALSE
