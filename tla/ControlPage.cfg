SPECIFICATION PageSpec
CONSTANTS
    METRIC_COUNT = 3
    Unknown = Unknown
    NotString = NotString
    MaxTokens = 4
    INT_MAX = 131071
    Absent = Absent
    Pending = Pending
    Page = {p1}
    Default <- MCDefault
    BuiltIn <- MCBuiltIn
    FallBack <- MCFallBack
    Controls <- MCControls
    ClientTexts <- MCClientTexts
    EditorTexts <- MCEditorTexts
INVARIANTS
    TypeOK
    OrderIsPermutation
    RepairNeverNeeded
    OrderIsRequested
    PageTypeOK
    UntouchedStays
    ReloadKeeps
CHECK_DEADLOCK FALSE
