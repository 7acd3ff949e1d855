SPECIFICATION FairSpec
CONSTANTS
  Servers = {s1, s2}
  MaxWrites = 2
  MaxThreads = 2
  NoFile = NoFile
  MaxFaults = 2
CHECK_DEADLOCK FALSE
INVARIANTS
  PrimaryComplete
  RoutedToHolder
  NoWriteLost
  TrafficBounded
PROPERTIES
  ReplicaConverges
