\* Two clients that share one channel; one of them reads and writes at once.
CONSTANTS
  NumChannels = 1
  NumServices = 1
  HandlerTable <- OneEngine
  Ports = {1}
  Sizes <- BothOne
  Mtus = {4}
  NullOutcomes = {"harmless"}
  Nobody = Nobody
  Clients = {k1, k2}
  Pairs = {k1}
  Liberties = {}
SPECIFICATION FairEngineSpec
INVARIANTS RequestsInOnePlace  NoOrphans ChannelsOwned
 
