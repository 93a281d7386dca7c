SPECIFICATION Spec
CONSTANTS
  Versions <- MCVersions
  Previous = 0
  Lagging = TRUE
  MaxMeddling = 1
  Moved = "latest"
  MaxRuns = 2
INVARIANTS ReleaseInvariant RerunIsIdempotent
CHECK_DEADLOCK FALSE
