\* Six faults or commands: enough to lose the lockout twice.
CONSTANTS
  Commands = {"status", "handoff"}
  MaxTrouble = 6
SPECIFICATION FairSpec
INVARIANTS
  TypeOK
PROPERTIES
  LockoutIsKept
  NeverUnattended
  HeavyIsReached
