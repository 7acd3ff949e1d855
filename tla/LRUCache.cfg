SPECIFICATION Spec
CONSTANTS
  Keys = {"a", "b", "c", "d"}
  Values = {"v", "w"}
  Nodes = {n1, n2, n3, n4}
  Null = Null
  Buckets = {1, 2}
  Hash <- MCHash
  Capacity = 3
SYMMETRY NodeSymmetry
INVARIANTS
  Linked
  MapExact
PROPERTIES
  ImplementsRecency
