\* Only os.Rename may fail.
CONSTANTS
  Calls = {c1}
  Targets = {t1}
  NoFile = NoFile
  Faults = {"rename"}
SPECIFICATION Spec
INVARIANTS
  TempCleaned
