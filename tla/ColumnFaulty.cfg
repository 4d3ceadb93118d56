\* Any sensor may send anything; timer_L2 fires in the middle of rounds.
SPECIFICATION FairSpec
CONSTANTS
  MaxDelay = 2
  MaxValues = 2
  n_teros31_sensors = 3
  stryouts = 2
  Answering = {1}
  L2 = 9
  MaxPass = 1
INVARIANTS
  NeverMisread
  AttemptsBounded
PROPERTIES
  RoundImplemented
  RoundsRepeat
