SPECIFICATION Spec
CONSTANTS
    METRIC_COUNT = 2
    s1 = s1
    s2 = s2
    NoScene = NoScene
    Scenes <- MCScenes
    Styles <- MCStyles
    Configs <- MCConfigs
    DefaultConfig <- MCDefault
    MaxGhosts = 1
    RemoveFound = {TRUE, FALSE}
SYMMETRY SceneSymmetry
ACTION_CONSTRAINT ShellStepsAtTop
INVARIANTS
    TypeOK
    StaleOnlyIfRaced
    NoGhostCells
    UnloadLeavesNothing
PROPERTIES
    BuildEndsOnItsScene
CHECK_DEADLOCK FALSE
