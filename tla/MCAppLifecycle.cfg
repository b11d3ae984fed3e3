\* Two command lines of one machine, at one of which osctl is run too, and the
\* store; two of the three names have one package path.
SPECIFICATION Spec
CONSTANTS
  a = a
  b = b
  u1 = u1
  u2 = u2
  Terminals = {a, b}
  Tools = {b}
  Ids = {u1, u2}
  Names = {"notes", "Notes", "clock"}
  Stem <- MCStem
  Keys = {"", "key"}
  MaxAttempts = 2
SYMMETRY Interchangeable
INVARIANTS
  DirsAreOfOneBuild
  RunsWhatItMatched
  GeneratedCanRun
  ForeignOnlyByStem
  InstalledAsPublished
PROPERTIES
  CommandsAreFinite
