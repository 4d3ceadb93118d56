\* An interval of two calls; an edge can be in the middle of a publication.
SPECIFICATION MetersSpec
CONSTANTS
  Debounce <- MCDebounce
  Publish = 1
  MaxGap = 2
  _period = 2
  ADC <- MCADC
INVARIANTS
  UndercountAtMostOne
  NearestDirection
