\* A careful user of one channel, reading and writing at once.
CONSTANTS
  NumChannels = 1
  NumServices = 1
  HandlerTable <- OneTest
  Ports = {1}
  Sizes <- OddReads
  Mtus = {6}
  NullOutcomes = {"harmless"}
  Liberties = {"interrupt"}
SPECIFICATION FairLinkSpec
INVARIANTS NothingUnannounced  BlockWithinBuffer
PROPERTIES RequestsFindDeviceIdle  RequestAnswered
