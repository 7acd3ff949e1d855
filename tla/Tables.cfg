SPECIFICATION FairSpec
CONSTANTS
  Atom <- MCAtom
  MaxWords = 2
  Files = {f1, f2}
  Tags = {g1}
  Sessions = {s1, s2}
  Handlers = {w1}
  NMThread = nm
  Indices = {0, 1, 2}
  Inserts <- MCInserts
  InitialTexts <- MCInitialTexts
  ReplicaTexts <- MCReplicaTexts
  MaxLocks = 2
  MaxCommitLocks = 1
  MaxUndo = 1
  MaxOpens = 2
  MaxUpdates = 1
  MaxOps = 0
  MaxCrashes = 0
  Absent = Absent
  NoEntry = NoEntry
  Free = Free
  None = None
PROPERTY
  EtirwAnswered
CHECK_DEADLOCK FALSE
