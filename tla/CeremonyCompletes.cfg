\* Three operators, one path that three commands write, all commands at a time and
\* one fault; every command completes.
CONSTANTS
  Line <- Defaults
  Given <- DefaultsGiven
  Unset = Unset
  MaxRunning = 4
  MaxFaults = 1
  MaxRepeats = 0
  Watched = {}
SPECIFICATION FairSpec
PROPERTIES
  Completes
