SPECIFICATION Spec
CONSTANTS
  Files = {f1, f2}
  Users = {u1, u2}
  System = System
  Metas = {m1, m2}
  Null = Null
  MaxUsers = 2
  MaxRequests = 1
  Threads = {t1}
  Capacity = 1
SYMMETRY Alike
INVARIANTS
  TypeOK
  TrieExact
  CacheCoherent
  OwnerCanWrite
  DiskMatches
PROPERTIES
  AccessKept
