SPECIFICATION Spec
CONSTANTS
  BuildTimes <- MCBuildTimes
  ChipTimes <- MCChipTimes
  MaxSeconds = 3
  MaxRuns = 3
CHECK_DEADLOCK FALSE
INVARIANTS
  CalendarAgrees
  FileOfOneRun
PROPERTY
  RowsErasedOnlyAfterReset
