\* Two uploads and a reader, or any other three requests, interleaved.
SPECIFICATION FairSpec
CONSTANTS
  r1 = r1
  r2 = r2
  r3 = r3
  Requests = {r1, r2, r3}
  Ids = {i1, i2}
  NoId = noid
  BadIds = {bad}
  StoreKey = "secret"
  MaxClock = 1
  ManifestName <- MCManifestName
  Matching <- MCMatching
  Uploads <- MCUploads
  Asks <- MCAsks
INVARIANTS
  RowsHaveFiles
  FailedUploadsHidden
  ReadsSeeAcknowledged
  SearchOrderRespectsTime
PROPERTIES
  PublishedNeverChanges
  EveryRequestAnswered
  ImplementsCatalog
