\* Three samples an average, an outflow of two to three samples.
SPECIFICATION FairSpec
CONSTANTS
  n_H_avg = 3
  L1 = 2
  Outflow = 5
  MaxPass = 1
INVARIANTS
  FillsNotMixed
  OutflowEnds
PROPERTIES
  OutflowComplete
  FluxResumes
