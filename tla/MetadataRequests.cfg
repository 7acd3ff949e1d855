SPECIFICATION Spec
CONSTANTS
  Files = {f1}
  Users = {u1, u2}
  System = System
  Metas = {m1}
  Null = Null
  MaxUsers = 3
  MaxRequests = 2
  Threads = {t1, t2}
  Capacity = 1
SYMMETRY Alike
INVARIANTS
  OnePending
  OneGrantPerRequest
