SPECIFICATION Spec
CONSTANTS
    Messages = {m1, m2, m3}
    NoMessage = NoMessage
    Capacity = 2
    MaxWrites = 4
SYMMETRY Symmetry
CONSTRAINT StillOrdered
INVARIANTS
    WritesInOrder
