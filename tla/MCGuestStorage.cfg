\* Guests of several processes over one key, and their requests.  Guests end.
SPECIFICATION Spec
CONSTANTS
  Guests <- MCGuests
  StorageKeys <- MCStorageKeys
  AppOf <- MCAppOf
  Parts <- MCParts
  Values <- MCValues
  Bodies <- MCBodies
  Messages <- MCMessages
  MaxValue = 2
  MaxBody = 2
  MemSize = 7
  Place <- MCPlace
  Room <- MCRoom
  ErrorPlace <- MCErrorPlace
  ErrorRoom <- MCErrorRoom
  Imports <- MCImports
  Bound <- MCBound
  MaxWrites = 3
CHECK_DEADLOCK FALSE
INVARIANTS
  StoredStays
  RoomyGuestsKeepTheirData
PROPERTIES
  ReadsAreOfTheLastStored
