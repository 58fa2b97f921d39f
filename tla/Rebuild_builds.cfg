\* Each target may be built three times, each source has two contents: enough for
\* a content to change, to come back, and for a build after each.
CONSTANTS
  Source <- MCSource
  Target <- MCTarget
  Deps <- MCDeps
  Requests <- MCRequests
  Settings <- SoundSettings
  MaxContent = 2
  MaxEdits = 2
  MaxWrites = 3
SPECIFICATION Spec
CHECK_DEADLOCK FALSE
INVARIANTS
  TypeOK
  Fresh
  NotAgain
