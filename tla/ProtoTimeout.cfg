\* An Amiga whose timer may expire at any moment of its wait.
CONSTANTS
  Actions = {16}
  Writes = {48, 112}
  Reads = {32, 96}
  Unknown = {20}
  Words <- SomeWords
SPECIFICATION TimeoutSpec
PROPERTIES DeviceComesBack
