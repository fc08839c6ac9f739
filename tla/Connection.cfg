SPECIFICATION Spec
CONSTANTS
    Messages = {m1, m2}
    NoMessage = NoMessage
    Capacity = 2
    MaxWrites = 2
SYMMETRY Symmetry
INVARIANTS
    RefsCounted
    ObjectsAlive
