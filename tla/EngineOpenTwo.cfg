\* Two clients that open channels at the same time.
CONSTANTS
  NumChannels = 1
  NumServices = 1
  HandlerTable <- OneEngine
  Ports = {1}
  Sizes <- NoSizes
  Mtus = {}
  NullOutcomes = {"harmless"}
  Nobody = Nobody
  Clients = {k1, k2}
  Pairs = {}
  Liberties = {"open_two"}
SPECIFICATION FairEngineSpec
PROPERTIES RequestsAnswered
CHECK_DEADLOCK FALSE
