SPECIFICATION Spec
CONSTANTS
  SIZE = 4
  CHUNK = 2
  MaxBurst = 4
  Silence = f0
  Frame = {f0, f1}
INVARIANTS TypeOK InBounds
PROPERTY FifoUnlessRaced
