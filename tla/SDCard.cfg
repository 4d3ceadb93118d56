SPECIFICATION Spec
CONSTANTS
  Kinds <- AllKinds
  NSectors = 3
  Versions = {v1, v2}
  Refusals = {10, 11, 12}
  MaxFaults = 3
SYMMETRY VersionSymmetry
INVARIANTS
  AddressesMatch
  ReadCorrect
  WriteStored
  FaultsTolerated
  Released
PROPERTY
  OnlyAskedChanged
