SPECIFICATION FairSwitchSpec
CONSTANTS
  Operators = {o1, o2}
  Writers = {w1}
  MaxTrouble = 2
INVARIANTS
  SwitchTypeOK
  NothingHalfDone
PROPERTIES
  NoFurtherWrites
  WritesResume
