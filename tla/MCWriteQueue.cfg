SPECIFICATION FairSpec
CONSTANTS
    c1 = c1
    c2 = c2
    c3 = c3
    w1 = w1
    w2 = w2
    Nil = Nil
    Callers <- MCCallers
    MultiCommit <- MCMultiCommit
    Workers <- MCWorkers
    MaxAttempts = 2
INVARIANTS
    TypeOK
    Serialized
    NoOvertaking
    NeverStranded
    AtMostOnce
PROPERTIES
    CallersAnswered
    StopCompletes
    ImplementsExecutor
