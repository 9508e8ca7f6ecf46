SPECIFICATION Spec
CONSTANTS
    Configs = {c0, c1}
    Defaults = c0
    NoFile = NoFile
    Empty = Empty
    Partial = Partial
INVARIANTS
    TypeOK
    SettingsSurvive
    OneCopyIntact
    RunningIsDurable
PROPERTY
    DefaultsOnlyAtNeed
