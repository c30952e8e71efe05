CONSTANTS
  m1 = m1
  m2 = m2
  Message = {m1, m2}
  Unnamed = Unnamed
  MaxFrames = 4
  MaxDepth = 4
SPECIFICATION Spec
INVARIANTS TypeOK
PROPERTIES ImplementsExceptions
SYMMETRY Symmetry
