SPECIFICATION ApartSpec
CONSTANTS
    Procs = {p1, p2}
    Sessions = {s1, s2}
    Contents = {ok, failed, noise}
    Failures = {failed}
    Noise = {noise}
    MaxPerSession = 1
    MaxRows = 3
    Captors = {p1, p2}
    Scripts = {t1}
    Ids = {i1}
    Talk = {rule, long}
    Long = {long}
    Durable = {rule}
    Nil = Nil
    MaxRounds = 2
    MaxMade = 3
    Recent = 2
    MaxCopies = 3
    HookIds = {s1, s2}
    Paths = {k1, k2}
    Blank = Blank
    Agents = {p1, p2}
    Talks = {c1}
    Packs = {k1, k2}
    NoPack = NoPack
    EveryN = 2
    Debounce = 2
    MaxTurns = 3
    MaxClock = 3
SYMMETRY Symmetry
INVARIANTS TypesOK NotesKept CapNearlyKept WholeAndOnce OwnTranscript SkippedWasTried
