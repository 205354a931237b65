SPECIFICATION Spec
CONSTANTS
    Links = {a, b}
    MaxRun = 4
    MaxKill = 2
    MaxFault = 1
    DeleteOld = TRUE
SYMMETRY Symmetry
INVARIANT LoadedSurvives
INVARIANT FoundOutlives
INVARIANT ListsPaired
PROPERTY PurgeRespectsLists
PROPERTY PreviousKept
