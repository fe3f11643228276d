SPECIFICATION FairSpec
CONSTANTS
    Poll = 1
    Debounce = 12
    MinInterval = 60
    MaxSync = 60
PROPERTY RequestServed
