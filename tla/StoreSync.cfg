CONSTANTS
  Proc = {p1, p2}
  Profile = {a, b}
  RowId = {r1, r2, r3}
  None = None
SPECIFICATION Spec
SYMMETRY Symmetry
INVARIANTS
  TypeOK
  NothingIsForgotten
