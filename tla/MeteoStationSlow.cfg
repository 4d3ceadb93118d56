\* A pass may take a second and a half: both buffers can overflow.
SPECIFICATION Spec
CONSTANTS
  Second = 2
  Period = 3
  L3 = 12
  L4 = 24
  FineBuf = 4
  MeteoBuf = 3
  MaxPass = 3
INVARIANTS
  IntervalRecorded
  PendingBuffered
  NoEmptyRecord
  OnlyOverflowSpoils
