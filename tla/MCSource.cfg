SPECIFICATION FairSourceSpec
CONSTANTS
  Opening = opening
  SourceCommits = {c1, c2}
  Revisions = {r1, r2}
  HostTimes = {1, 2, 3}
  Deadline = 1
  MaxTime = 2
INVARIANT SourceInvariant
PROPERTIES RevisionsKeepTheirOpening ImplementsSourceHistory SourceCallsReturn
CHECK_DEADLOCK FALSE
