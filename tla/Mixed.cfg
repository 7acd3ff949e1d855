SPECIFICATION Spec
CONSTANTS
  Atom <- MCAtom
  MaxWords = 1
  Files = {f1}
  Tags = {g1}
  Sessions = {s1, s2}
  Handlers = {w1}
  NMThread = nm
  Indices = {0, 1, 2}
  Inserts <- MCInserts
  InitialTexts <- MCMaybeAbsent
  ReplicaTexts <- MCReplicaTexts
  MaxLocks = 3
  MaxCommitLocks = 1
  MaxUndo = 1
  MaxOpens = 2
  MaxUpdates = 1
  MaxOps = 2
  MaxCrashes = 1
  Absent = Absent
  NoEntry = NoEntry
  Free = Free
  None = None
SYMMETRY SessionSymmetry
INVARIANTS
  LockTableExact
  CommitSerialised
CHECK_DEADLOCK FALSE
