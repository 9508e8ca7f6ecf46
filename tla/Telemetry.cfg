SPECIFICATION Spec
CONSTANTS
    Core = {c1, c2}
    MinFound = 2
    Period = 3
    MinGap = 1
    MinWindow = 3
    MaxRate = 1
    FlipChoices = {0, 2, 5}
    Offsets = {0, 1, 6}
    MaxTime = 15
INVARIANTS
    TypeOK
    LoadIsMeasured
    FpsIsMeasured
PROPERTY
    FpsNeverInvented
CHECK_DEADLOCK FALSE
