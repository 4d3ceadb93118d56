\* The times, the ring and the buffer of the program.
SPECIFICATION Spec
CONSTANTS
  SDI12_BUFFER_SIZE = 81
  TICKS_PER_BIT = 833
  RX_WINDOW_FUDGE = 50
  max_msg_length = 100
  Sensors <- MCSensors
  IsrLatencies = {0, 10}
  Pauses = {0, 200000}
  CommandLength = 3
  MaxRequests = 2
CHECK_DEADLOCK FALSE
INVARIANTS
  OwnReply
  ReplyWhole
  NotHeldWhileSending
