\* One restart is enough.
CONSTANTS
  Commands = {}
  MaxTrouble = 1
SPECIFICATION Spec
PROPERTIES
  LockoutSurvivesRestart
