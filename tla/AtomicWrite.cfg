\* Everything may fail; three calls on two paths.
CONSTANTS
  Calls = {c1, c2, c3}
  Targets = {t1, t2}
  NoFile = NoFile
  Faults = {"open", "write", "sync", "close", "rename", "scrub", "remove", "kill", "power"}
SPECIFICATION Spec
SYMMETRY Symmetry
INVARIANTS
  TypeOK
  NoTornFile
  ExclusiveTemp
  Inv
PROPERTIES
  NeverVanishes
  OrphanBlocks
  ImplementsAtomicFile
