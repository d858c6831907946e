\* Six keys and blocks.
CONSTANTS
  Inputs <- MCInputs
SPECIFICATION Spec
INVARIANTS
  TypeOK
  KnownAnswer
PROPERTIES
  ImplementsFIPS197
