SPECIFICATION FairSpec
CONSTANTS
    Poll = 5
    Debounce = 4
    MinInterval = 10
    MaxSync = 6
INVARIANTS
    TypeOK
    ServedInTime
PROPERTY RequestServed
