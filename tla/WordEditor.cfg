SPECIFICATION Spec
CONSTANTS
  Atom <- MCAtom
  MaxWords = 4
  MaxUpdates = 4
  Targets <- MCTargets
  Inserts <- MCInserts
  Space = " "
  Dot = "."
INVARIANTS
  WordsAgree
  LettersConserved
PROPERTY
  OrderKept
CHECK_DEADLOCK FALSE
