\* An Amiga that gives up on a firmware that has not noticed its command.
CONSTANTS
  Actions = {16}
  Writes = {48, 112}
  Reads = {32, 96}
  Unknown = {20}
  Words <- SomeWords
SPECIFICATION FairTimedSpec
INVARIANTS    GivesUpInTime
PROPERTIES  CallReturns RequestNotInUse
