SPECIFICATION FairSpec
CONSTANTS
    NumSegments = 3
    Executable = {1}
INVARIANTS
    TypeOK
    ResumesWhereItWas
    LetsGo
    CredentialsRestored
    PayloadRunsWholeImage
    ReportsTruth
PROPERTIES
    LoaderEnds
CHECK_DEADLOCK FALSE
