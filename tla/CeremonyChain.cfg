\* Keys are exported over older ones; one fault and two repeated commands.
CONSTANTS
  Line <- Chain
  Given <- ChainGiven
  Unset = Unset
  MaxRunning = 2
  MaxFaults = 1
  MaxRepeats = 2
  Watched = {}
SPECIFICATION Spec
INVARIANTS
  KeysSound
  ArtifactsAgree
