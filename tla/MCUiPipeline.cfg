\* Two windows, three states of an app in several forms, a cache of two documents.
SPECIFICATION PipelineSpec
CONSTANTS
  Windows <- MCWindows
  CacheKeys <- MCCacheKeys
  MaxEntries = 2
  Widgets <- MCWidgets
  Depth <- MCDepth
  MaxDepth = 4
  Apps <- MCApps
  Canvases <- MCCanvases
INVARIANTS
  RecentlyUsedAreCached
  TreeIsTheDocument
  ClicksHitTheirControl
  NaturalHeightIsEnough
