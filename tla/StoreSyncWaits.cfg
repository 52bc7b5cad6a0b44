CONSTANTS
  Proc = {p1}
  Profile = {a, b}
  RowId = {r1, r2, r3}
  None = None
SPECIFICATION Spec
SYMMETRY Symmetry
INVARIANTS
  WaitsForPostgres
