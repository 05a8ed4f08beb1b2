\* A task that only waits for its signal.
CONSTANTS
  c1 = c1
  c2 = c2
  c3 = c3
  c4 = c4
  Channels <- FourChannels
SPECIFICATION FairEventSpec
INVARIANTS EventInv WakeupOnItsWay SignalMeansEvent
PROPERTIES IsDoorbell
