SPECIFICATION SourceSpec
CONSTANTS
  Opening = opening
  SourceCommits = {c1}
  Revisions = {r1}
  HostTimes = {1, 2}
  Deadline = 1
  MaxTime = 1
CHECK_DEADLOCK FALSE
PROPERTY PublishedInsideCallback
