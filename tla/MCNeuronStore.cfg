SPECIFICATION Spec
CONSTANTS
    Neurons = {n1, n2, n3, n4}
    Procs = {p1, p2}
    None = None
SYMMETRY Symmetry
CONSTRAINT TwoCaptures
INVARIANTS
    TypeOK
    OneSuccessor
    ReviewNotLost
    OneVerdict
    RejectedRetired
