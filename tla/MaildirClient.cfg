CONSTANTS
    Flags = {"F", "S"}
    MaxLog = 3
SPECIFICATION Spec
INVARIANTS
    TypeOK
    WholeFiles
    OneFile
    UpToDate
    HasFile
CHECK_DEADLOCK FALSE
