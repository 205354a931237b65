SPECIFICATION Spec
CONSTANTS
    MaxVersion = 2
    Size <- MCSize
    Retries = 1
    PageSizes = {2}
    MaxRun = 3
    MaxTrouble = 1
INVARIANTS
    CopyAlwaysOnDisk
    CopyBackInPlace
    SurvivorNoted
    EnteredWholeUnlessMistaken
    RefDescribesPartial
PROPERTY
    LinkSettles
