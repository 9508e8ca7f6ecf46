SPECIFICATION Spec
CONSTANTS
    METRIC_COUNT = 2
    s1 = s1
    s2 = s2
    NoScene = NoScene
    Scenes <- MCScenes
    Styles <- MCStyles
    Configs <- MCConfigs
    DefaultConfig <- MCDefault
    MaxGhosts = 1
    RemoveFound = {TRUE}
SYMMETRY SceneSymmetry
INVARIANT SettledHudIsCurrent
CHECK_DEADLOCK FALSE
