SPECIFICATION Spec
CONSTANTS
  c1 = c1
  c2 = c2
  f1 = f1
  f2 = f2
  None = None
  Cases = {c1, c2}
  Flows = {f1, f2}
SYMMETRY Alike
INVARIANTS
  TypeOK
  DeskIsHonest
