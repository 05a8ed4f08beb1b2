\* Any commands in any order: two channels, a service of two slots, a port
\* that nobody serves, empty writes and the default MTU.
CONSTANTS
  NumChannels = 2
  NumServices = 1
  HandlerTable <- OneSlow
  Ports = {1, 3}
  Sizes <- WriteZero
  Mtus = {0}
  NullOutcomes = {"harmless", "hang"}
SPECIFICATION DeviceSpec
INVARIANTS TypeOK SlotsExclusive 
CHECK_DEADLOCK FALSE
