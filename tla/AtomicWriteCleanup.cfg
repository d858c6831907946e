\* A write may fail, but nothing crashes and the clean-up itself works.
CONSTANTS
  Calls = {c1, c2, c3}
  Targets = {t1, t2}
  NoFile = NoFile
  Faults = {"open", "write", "sync", "close"}
SPECIFICATION FairSpec
INVARIANTS
  TempCleaned
  ScrubbedOnDisk
PROPERTIES
  TempReleased
