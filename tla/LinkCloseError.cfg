\* A request handler whose request fails: the channel is closed.
CONSTANTS
  NumChannels = 1
  NumServices = 1
  HandlerTable <- OneReq
  Ports = {1}
  Sizes <- WriteOne
  Mtus = {}
  NullOutcomes = {"harmless"}
  Liberties = {}
SPECIFICATION LinkSpec
INVARIANTS ClosedMeansReleased
