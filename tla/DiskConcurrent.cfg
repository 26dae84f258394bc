SPECIFICATION DirectorySpec
CONSTRAINT NotShared
CONSTANTS
    Models = {"Invoice", "BTCPayConnector"}
    Early <- OneModel
    Late = {"BTCPayConnector"}
    Archived <- OneModel
    Archive <- MCArchive
    Keys = {k1}
    Tags = {g1, g2}
    Threads = {t1, t2}
    KeysChange = FALSE
    MaxPk = 1
    NoRow = NoRow
    NoFile = NoFile
    NoSave = NoSave
    Servers = {"w1", "w2"}
    Commands = {"c1"}
    Changes = {1}
    Releases = {1}
    MaxUpdates = 2
    Mixed = Mixed
    NoBackup = NoBackup
INVARIANTS
    SaveIsComplete
    HandoverIsComplete
    BackupIsComplete
CHECK_DEADLOCK FALSE
