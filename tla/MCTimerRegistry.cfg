SPECIFICATION FairSpec
CONSTANTS
  MaxTimers = 2
  Callbacks = {tick, save}
  MaxId = 3
  MaxFired = 2
INVARIANTS
  TypeOK
  MapsAndThreadsAgree
  AtMostOneStaleFiring
PROPERTIES
  DrainsDeliverLiveTimers
  FiringsReachADrain
  ClearedThreadsExit
