CONSTANTS
    Runs = {r1, r2}
    Cookies = {c1}
    OddLines = {odd}
    MaxStarts = 3
    MaxEdits = 1
SPECIFICATION Spec
INVARIANTS JarsWhole LinesKept
CHECK_DEADLOCK FALSE
