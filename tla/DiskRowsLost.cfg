SPECIFICATION PSpec
CONSTANTS
    Models = {"Invoice"}
    Early <- OneModel
    Late = {}
    Archived <- OneModel
    Archive <- MCArchive
    Keys = {k1, k2}
    Tags = {g}
    Threads = {t1, t2}
    KeysChange = FALSE
    MaxPk = 3
    NoRow = NoRow
    NoFile = NoFile
    NoSave = NoSave
PROPERTIES
    RestartRestores
CHECK_DEADLOCK FALSE
