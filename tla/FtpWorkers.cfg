SPECIFICATION Spec
CONSTANTS
    Slot = {s1, s2}
    MaxWorkers = 3
    MaxCancels = 1
    Crashes = TRUE
INVARIANTS
    WriterAlone
    OutcomeWhole
PROPERTIES
    StopOnlyLent
    TeardownEnds
    Promise
