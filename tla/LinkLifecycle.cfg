\* A careful user of two channels: opening, closing and resetting.
CONSTANTS
  NumChannels = 2
  NumServices = 1
  HandlerTable <- TwoSlot
  Ports = {1, 3}
  Sizes <- NoSizes
  Mtus = {}
  NullOutcomes = {"harmless"}
  Liberties = {}
SPECIFICATION FairLinkSpec
INVARIANTS ChannelHasOneUser ClosedMeansReleased
PROPERTIES OpenResolves 
