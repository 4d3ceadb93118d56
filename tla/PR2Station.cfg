SPECIFICATION FairSpec
CONSTANTS
  MaxDelay = 2
  MaxValues = 2
  n_pr2_sensors = 3
  Scenarios <- MCScenarios
  PowerUp = 2
  MaxPass = 1
INVARIANTS
  RoundConsistent
  FieldsOwn
PROPERTIES
  WarmWhenAsked
  RoundImplemented
  RoundEnds
