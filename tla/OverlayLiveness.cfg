SPECIFICATION FairSpec
CONSTANTS
    METRIC_COUNT = 1
    s1 = s1
    s2 = s2
    NoScene = NoScene
    Scenes <- MCScenes
    Styles <- MCStyles
    Configs <- MCOneMetricConfigs
    DefaultConfig <- MCOneDefault
    RemoveFound = {TRUE, FALSE}
    MaxGhosts = 1
PROPERTIES
    UnloadCompletes
    HudConverges
CHECK_DEADLOCK FALSE
