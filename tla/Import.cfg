CONSTANTS
    Imports = {i1, i2}
    Uploads <- Files
    Settings = {"auto", "nginx"}
    MaxImportLines = 3
    BatchSize = 2
    LiveEntries <- Live
    Entries <- AllEntries
    Retentions = {0, 2}
    DefaultRetention = 1
    Deletable <- Live
SPECIFICATION Spec
SYMMETRY Anyone
CHECK_DEADLOCK FALSE
INVARIANTS TypeOK EveryLineCounted ImportedExact StandardLayout
PROPERTIES ProgressMonotone RetentionRespected
