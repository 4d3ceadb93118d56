\* The clock wraps around after three to four intervals.
SPECIFICATION TimerSpec
CONSTANTS
  Word = 19
  Interval = 5
  MaxPass = 12
PROPERTY Metronomic
