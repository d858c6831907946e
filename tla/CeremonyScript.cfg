\* The reference script with two commands at a time; one fault anywhere.
CONSTANTS
  Line <- Script
  Given <- NothingGiven
  Unset = Unset
  MaxRunning = 2
  MaxFaults = 1
  MaxRepeats = 0
  Watched = {}
SPECIFICATION Spec
INVARIANTS
  TypeOK
  Derived
  KeysSound
