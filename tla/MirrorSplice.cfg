SPECIFICATION Spec
CONSTANTS
    MaxVersion = 2
    Size <- MCSize
    Retries = 0
    PageSizes = {0}
    MaxRun = 3
    MaxTrouble = 0
INVARIANT
    EnteredWhole
