\* Every pass of the loop is shorter than a second.
SPECIFICATION Spec
CONSTANTS
  Second = 4
  Period = 3
  L3 = 24
  L4 = 72
  FineBuf = 6
  MeteoBuf = 4
  MaxPass = 3
INVARIANTS
  FineNeverFull
  MeteoNeverFull
  OwnWind
  RebootAfterWrite
PROPERTY NoTickLost
