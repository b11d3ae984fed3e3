\* Can what was installed from the store be run?
SPECIFICATION Spec
CONSTANTS
  a = a
  t = t
  u1 = u1
  u2 = u2
  Terminals = {a}
  Tools = {t}
  Ids = {u1, u2}
  Names = {"notes"}
  Stem <- MCStem
  Keys = {"", "key"}
  MaxAttempts = 1
INVARIANTS
  InstalledCanRun
