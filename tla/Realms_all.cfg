CONSTANTS
  MaxContexts = 3
  MaxFrames = 4
  MaxModules = 1
SPECIFICATION Spec
INVARIANTS TypeOK NoFreedQueue SnapshotIsCurrent RequestKeepsRealm NothingLeftWhenIdle
PROPERTIES ArtifactsDieWithContext
CHECK_DEADLOCK FALSE
