SPECIFICATION AllSpec
CONSTANTS
    Nodes = {n1, n2}
    Sessions = {s1, s2}
    Chains = {c1}
    Procs = {h1, h2}
    Delta = 8
    MaxWeight = 24
    MinWeight = 3
    Threshold = 16
    MaxMarks = 2
    MaxPeriods = 2
    Costs = {30, 300, 900}
    Title = 25
    Totals = {200, 600, 1500}
    Nothing = Nothing
SYMMETRY Symmetry
INVARIANTS TypeOK EpisodeOnce ProcedureEvidence PackFits
PROPERTY HalvedOncePerPeriod
