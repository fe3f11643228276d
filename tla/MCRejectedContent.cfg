SPECIFICATION Spec
CONSTANTS
    Neurons = {n1, n2, n3}
    Procs = {p1, p2}
    None = None
SYMMETRY Symmetry
INVARIANT RejectedContentGone
