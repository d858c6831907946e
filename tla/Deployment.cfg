\* Exports over one another, two at a time, with one fault anywhere, what
\* fails run again, and a node that loads, proves and submits meanwhile.
CONSTANTS
  Line <- Exports
  Given <- Published
  Unset = Unset
  MaxRunning = 2
  MaxFaults = 1
  MaxRepeats = 0
  Watched = {}
  ByteBits = 1
  WordBytes = 5
  Nodes = {n1}
  Artifacts <- DefaultPaths
  Bodies <- MCBodies
SPECIFICATION FairDeploymentSpec
INVARIANTS
  DeploymentTypeOK
  Derived
PROPERTIES
  CalmAccepted
  Served
