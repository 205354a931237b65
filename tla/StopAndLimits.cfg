SPECIFICATION Spec
CONSTANTS
    NLinks = 2
    Options <- SomeOptions
    MaxSoc = 2
    MaxDelay = 2
    Delays <- SomeDelays
    Retries = 1
INVARIANT
    EndTold
PROPERTIES
    DelaysHonoured
    GraceHonoured
    StopEnds
    ExitEnds
