CONSTANTS
  Tracks = {0, 1}
  MaxPrepares = 2
  MaxInbox = 2
  MaxEvents = 2
SPECIFICATION Spec
INVARIANTS
  TypeOK
  SurfaceFollows
  
  SessionsFollow
