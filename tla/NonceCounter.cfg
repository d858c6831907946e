\* Three goroutines, and a counter that wraps in the middle of the run.
CONSTANTS
  Callers = {g1, g2, g3}
  Modulus = 4
  MaxCalls = 6
SPECIFICATION Spec
SYMMETRY Symmetry
INVARIANTS
  TypeOK
  RepeatNeedsOverlap
  NeverAhead
