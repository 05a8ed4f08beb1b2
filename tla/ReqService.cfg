\* Two clients of a service that may answer at once, poll or fail.
CONSTANTS
  NumChannels = 2
  NumServices = 1
  HandlerTable <- TwoSlots
  Ports = {1}
  Sizes <- Packets
  Mtus = {}
  NullOutcomes = {"harmless"}
  Liberties = {"rerequest"}
  Hasty = FALSE
SPECIFICATION ReqSpec
INVARIANTS ReplyIsMine  
