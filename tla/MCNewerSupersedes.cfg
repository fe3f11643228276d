SPECIFICATION Spec
CONSTANTS
    Decisions = {1, 2, 3}
    Near <- AllNear
INVARIANT
    NewerSupersedes
