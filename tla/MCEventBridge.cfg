\* Clicks, typing, frames, patches and re-rendering, in any order.
SPECIFICATION Spec
CONSTANTS
  Documents <- MCDocuments
  Points <- MCPoints
  MaxPatches = 3
  MaxEvents = 2
INVARIANTS
  CallbacksAreMeant
  PatchesCatchUp
PROPERTIES
  TextsNeverGoBack
