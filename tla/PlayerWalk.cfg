SPECIFICATION Spec
CONSTANTS
    MaxSteps = 2
    MaxQueued = 3
    EventIds = {e1, e2, e3, e4}
    NoEvent = NoEvent
SYMMETRY Symmetry
INVARIANTS
    WalkGoesOn
    OneDelayedAction
    StopHonoured
