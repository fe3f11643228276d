SPECIFICATION Spec
CONSTANTS
    Decisions = {1, 2, 3, 4}
    Near <- AllNear
INVARIANTS
    TypeOK
    LeadsToTruth
