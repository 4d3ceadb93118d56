\* A reading between the last two entries goes past the table.
SPECIFICATION MetersSpec
CONSTANTS
  Debounce <- MCDebounce
  Publish = 1
  MaxGap = 2
  _period = 2
  ADC <- MCADC
INVARIANT IndexInTable
