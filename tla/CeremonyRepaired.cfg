\* All commands at a time and one fault, after which a contribution may be made a
\* second time; what has worked on files that were replaced is run again.
CONSTANTS
  Line <- Phase2
  Given <- Phase2Given
  Unset = Unset
  MaxRunning = 4
  MaxFaults = 1
  MaxRepeats = 0
  Watched <- AllCommands
SPECIFICATION FairSpec
INVARIANTS
  Derived
PROPERTIES
  Repaired
