SPECIFICATION PSpec
CONSTANTS
    Models = {"Invoice", "BTCPayConnector"}
    Early <- OneModel
    Late = {"BTCPayConnector"}
    Archived <- OneModel
    Archive <- MCArchive
    Keys = {k1, k2}
    Tags = {g}
    Threads = {t1}
    KeysChange = FALSE
    MaxPk = 2
    NoRow = NoRow
    NoFile = NoFile
    NoSave = NoSave
PROPERTIES
    RestartRestores
CHECK_DEADLOCK FALSE
