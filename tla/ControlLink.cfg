SPECIFICATION FairSpec
CONSTANTS
  Requests = {r1}
  Broadcasts = {b1}
  Writers = {w1}
  Reverters = {v1}
  Heartbeat = heartbeat
  Service = service
  Loop = loop
  NoOne = NoOne
  MaxPushes = 1
  MaxClients = 2
  MaxQueue = 1
CHECK_DEADLOCK FALSE
INVARIANTS
  TimeoutsRestored
  HurtOnlyByOverlap
PROPERTIES
  RequestsReturn
  CrashNoticed
