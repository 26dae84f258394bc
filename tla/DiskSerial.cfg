SPECIFICATION PSerialSpec
CONSTANTS
    Models = {"Invoice"}
    Early <- OneModel
    Late = {}
    Archived <- OneModel
    Archive <- MCArchive
    Keys = {k1, k2}
    Tags = {g1, g2}
    Threads = {t1, t2}
    KeysChange = FALSE
    MaxPk = 2
    NoRow = NoRow
    NoFile = NoFile
    NoSave = NoSave
INVARIANTS
    FilesIssueFreshPks
    PlansAgree
PROPERTIES
    RestartRestores
    RestoreHolds
CHECK_DEADLOCK FALSE
