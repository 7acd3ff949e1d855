SPECIFICATION FairSpec
CONSTANTS
    Files = {f1, f2}
    Folders = {d1, d2}
    Handlers = {h1, h2}
    Room = 1
    NoFolder = NoFolder
    NoOne = NoOne
    Garbled = Garbled
    Root = Root
    Checkpoints = Checkpoints
    MaxCalls = 3
    MaxRestarts = 1
INVARIANTS InOneFolder StoredOnce FiledWhereStored FoldersSaved
PROPERTIES FolderCallsEnd
CHECK_DEADLOCK FALSE
