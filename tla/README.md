# hlavo-station: specifications, model checking and proofs

The repository holds the firmware of two ESP32-S3 measuring stations, the
sketches they were developed from, and the libraries both use:

* `examples/hlavo-station` - a meteorological station with soil-moisture probes
  (PR2) on an SDI-12 bus;
* `examples/hlavo-column` - a laboratory soil column with a water-height sensor,
  an outlet valve, one PR2 and three Teros31 tensiometers.

This directory has TLA+ modules for what these two programs decide: when a
buffer is flushed, when a record is built, who owns the bus, when the power or
the valve is switched, what a row of a file may contain; and for the drivers
below them whose timing, retries or restarts decide whether data survive: the
SDI-12 line, the SD card, the clock and the files named after it, the logger. TLC checks them on
small instances; TLAPS proves the central results for every value of the
constants. Paths below are relative to the repository's root.

## 1. Inventory

### Components, their state and their operations

| Component | Source | State | Operations | Module |
|---|---|---|---|---|
| Meteorological data path | `examples/hlavo-station/hlavo-station.ino`, `libraries/Hlavo/weather_station.h`, `meteo_data.h` | `_do_update`, `_got_data`, `_timer_counter`; the fine buffer and its counter; the buffer of averaged records and its counter; `timer_L1`, `timer_L3`, `timer_L4` | 1 Hz interrupt `intTimer`, `weather.update()`, `fine_data_collect`, `meteo_data_collect`, `meteo_data_write`, `setup`, restart | `MeteoStation` |
| PR2 round of the station | `hlavo-station.ino`, `pr2_reader.h`, `pr2_data.h` | `pr2_all_finished`, `iss`, `timer_PR2_power`, power pin; `icmd` and `data` of each reader | `collect_and_write_PR2`, `PR2Reader::TryRequest`, `TryRead`, `Reset`, tick of `timer_L3` | `PR2Station` |
| SDI-12 command layer | `libraries/Hlavo/sdi12_comm.h` | the global `sdi12_delay_timer`, `_n_expected` | `measureRequest`, `measureRead` | `SDI12Comm` |
| Sensor round of the column | `examples/hlavo-column/hlavo-column.ino`, `teros31_reader.h`, `pr2_reader.h` | `pr2_all_finished`, `teros31_all_finished`, `teros31_iss`; `icmd`; `requested`, `n_tryouts` of each tensiometer | `collect_and_write_PR2`, `collect_and_write_Teros31`, tick of `timer_L2` | `ColumnSensors` |
| Water height and outflow | `hlavo-column.ino`, `water_height_sensor.h`, `column_flow_data.h` | `H_window` and its two counters, `previous_height`, `start_valve_out`, `valve_out_open`, `timer_outflow` | `read_water_height`, `controlValveOut` | `ColumnFlow` |
| Timers | `libraries/Every-3.0.0/src/Every.h` | `last`, `interval` | `Every::operator()`, `reset`; `Timer::operator()`, `after`, `reset` | `EveryTimer`, `Metronome` |
| Rain and wind counters, wind vane | `libraries/WeatherMeters/WeatherMeters.h` | `_rain_ticks`, `_anemometer_ticks`, their sums, the times of the last edges; `_dir` and a table | `intRaingauge`, `intAnemometer`, `timer`, `adcToDir` | `WeatherMeters`, `WindVane` |
| SDI-12 line | `sdi12_comm.h` (`requestAndReadData`), `libraries/Arduino-SDI-12-2.2.0/src/SDI12.cpp`, `SDI12_boards.cpp` | `_msg_buf`; the state of the line; `rxState`, `rxMask`, `rxValue`, `prevBitTCNT`; the ring `_rxBuffer` | `requestAndReadData`, `clearBuffer`, `sendCommand`, `setState`, `receiveISR`, `available`, `read`, `forceHold` | `SDI12Line`, `SDI12Exchange` |
| SD card driver | `libraries/SD/src/sd_diskio.cpp` | `ardu_sdcard_t`: `status`, `type`, `supports_crc`; who is selected | `ff_sd_initialize`, `ff_sd_read`, `ff_sd_write`, `ff_sd_status`, `ff_sd_ioctl`, `sdcard_init`, `sdcard_uninit` | `SDCard` |
| Clock and data files | `libraries/Hlavo/clock.h`, `CSV_handler.h`, `file_info.h`, `libraries/RTClib` | registers of the DS3231 and its oscillator stop flag; the file names; the files | `Clock::begin`, `DateTime` and its arithmetic, `createFile`, `appendData` | `RTC`, `DataFiles` |
| Logger | `libraries/Hlavo/Logger.h` | `initialized`, `_log_buf`, `messageQueue`, `receivedMessage` | `setup_log`, `print`, `printf`, `sendToWriteTask`, `writeTask` | `Logger`, `LogStream` |

Everything else is listed with its reason under "Not modelled".

### How they interact

Each station is one `loop()` task (the logger, where a sketch sets it up, adds a
writer task of the lowest priority) and four kinds of interrupt: the hardware
timer, the edges of the rain gauge and of the anemometer, and the changes of the
SDI-12 line. The loop polls timers; nothing in it blocks for longer
than one SDI-12 exchange or one append to the card. Components meet in:

* **shared flags between interrupt and loop**, without a lock: `_do_update`
  (set by `intTimer`, tested and later cleared by `update()`), the edge counters
  (incremented by the handlers, copied and later cleared by `timer()`);
* **one bus and one global delay timer** for all SDI-12 readers: a reader
  requests a measurement, returns to the loop, and reads the result in a later
  pass when `sdi12_delay_timer` has elapsed;
* **flags between parts of a loop**: `gotData()` hands a weather interval to the
  record being built; `pr2_all_finished` hands the bus from the PR2 to the
  Teros31; `start_valve_out` hands a reading at the limit to `controlValveOut`;
* **rings and queues**: the interrupt routine of SDI-12 puts characters into a
  ring that `requestAndReadData` empties more slowly than it fills; `print` puts
  messages into a queue that the writer task empties when the loop sleeps;
* **the card**, which rows, log messages and new files reach through the same
  driver and file system;
* **timers that do not know each other**: L1 fills the fine buffer, the hardware
  timer decides when it is emptied, L3 decides when the records are written and
  when the probes are powered, L4 restarts everything.

### Hard behaviours, and what makes each component correct

* *Data path.* The interrupt may strike anywhere in a pass, also between the
  test and the clear of its flag. L1 and the interrupt have the same period and
  unknown phases. The buffers have little slack and overflow branches marked
  "should not happen". Correct: no interrupt lost, no overflow, each record has
  the wind and rain of its own interval, each record is appended at most once,
  the daily restart comes right after a write, or loses one L3 interval at most.
* *PR2 round.* A probe may not answer, or answer late, short or wrongly, at any
  step; L3 may fire in the middle of a round. Correct: power follows the round,
  the loop asks no cold probe, no row has another probe's or an older row's
  values, one row per probe and round, the round ends.
* *Sensor round of the column.* The same bus for two kinds of readers with
  different retry rules. Correct: the delay timer belongs to the reader whose
  turn it is, attempts are bounded, every sensor has its turn, rounds repeat.
* *Outflow.* Readings come before, during and after the outflow and may not be
  numbers; the limit may be reached again while the valve is open. Correct:
  averages and fluxes never mix fills, the outflow is complete and ends, fluxes
  come back.
* *Timers.* Unsigned arithmetic across the wrap-around of `millis()` after 49
  days; late calls. Correct: no drift, no missed beat.
* *Counters.* Edges between the copy and the clear. Correct: at most one edge
  lost per interval.
* *Wind vane.* The search over the table. Correct: nearest direction, index in
  the table.
* *SDI-12 line.* The loop looks for a character every 24 ms, a sensor sends one
  every 8.33 ms, and the first look that finds nothing ends the reply; characters
  are put together from the times between changes of the line. Correct: a reply
  is read whole, it is the reply to this request, and the line is not driven
  against a sensor that still sends.
* *SD card.* Commands are lost, answers to commands the card has executed, and
  blocks; the card is busy, refuses a block, is pulled out and replaced; without
  CRC what arrives may be damaged; transfers are resumed in the middle. Correct: no
  other sector is read or written than asked for, nothing is reported done that is
  not, the attempts make good what they can, the shared bus is free after every
  call. Each of these has exceptions, which its property names (section 5).
* *Clock and data files.* The clock may have lost its time, the station may
  restart at any moment, and creating a file truncates one of the same name.
  Correct: the calendar is right, rows of an earlier run are not erased, a file
  has one run.
* *Logger.* A full queue stops the loop, the writer runs only when the loop does
  not. Correct: callers come back, the queue is emptied, the file has the
  messages in order.

`PROJECT.json` lists each hazard at its line with the properties that cover it.

## 2. Modules

| Module | What it is | Composition |
|---|---|---|
| `MeteoStation` | data path of hlavo-station, loop split where an interrupt matters | stands alone; the PR2 section appears as time passing between `"L2"` and `"L3"` |
| `MeteoStationProofs` | the inductive invariants and theorems of the data path, and of the counters and the vane of `WeatherMeters` | `EXTENDS MeteoStation, WeatherMeters, TLAPS`; therefore the meters have `MetersInit`, `MetersNext`, `MetersSpec` |
| `SDI12Comm` | bus, delay timer, replies | extended by the two sensor modules |
| `MeasuringRound` | abstract: sensors have their turns in order, each gets its row or is given up, then the next round may start | - |
| `PR2Station` | PR2 section of hlavo-station | `EXTENDS SDI12Comm`; `Round == INSTANCE MeasuringRound WITH turn <- Turn, ...`; `PR2StationMC` gives the scenarios |
| `PR2StationProofs` | its inductive invariants and theorems | `EXTENDS PR2Station, TLAPS` |
| `ColumnSensors` | sensor section of hlavo-column | `EXTENDS SDI12Comm`; `Round == INSTANCE MeasuringRound WITH turn <- Turn, rows <- Rows, ...`, the PR2 having the first turn |
| `ColumnSensorsProofs` | its inductive invariants and theorems | `EXTENDS ColumnSensors, TLAPS` |
| `ColumnFlow` | height, flux and outlet valve | stands alone |
| `ColumnFlowProofs` | its inductive invariants and theorems | `EXTENDS ColumnFlow, TLAPS` |
| `Metronome` | abstract: a beat every `Interval`, a call answers the beats since the last one | - |
| `EveryTimer` | class Every with a clock that wraps | `M == INSTANCE Metronome WITH phase <- Age % Interval, due <- Age >= Interval` |
| `WindVane` | table search | extended by `WeatherMeters` |
| `WeatherMeters` | edge counters, and the vane read by the same `timer()` | `EXTENDS WindVane`; `WeatherMetersMC` gives dead times and readings |
| `SDI12Line` | `writeChar`, the interrupt routine and the ring as operators | extended by `SDI12Exchange` |
| `SDI12Exchange` | the loop of `requestAndReadData`, the interrupt and a sensor, in microseconds | `EXTENDS SDI12Line`; `SDI12ExchangeMC` gives the sensors |
| `SDI12ExchangeProofs` | its inductive invariants and theorems | `EXTENDS SDI12Exchange, TLAPS` |
| `SDCard` | the driver step by step, against a card that follows the SD standard | `SDCardMC` gives the kinds of card |
| `SDCardProofs` | its inductive invariants and theorems | `EXTENDS SDCard, TLAPS` |
| `RTC` | dates, seconds, registers as operators | extended by `DataFiles` |
| `DataFiles` | clock, restarts, file names and contents | `EXTENDS RTC`; `DataFilesMC` gives the dates |
| `ClockProofs` | all about time that is proved: the refinement of `EveryTimer`, the calendar of `RTC`, the invariants of `DataFiles` | `EXTENDS EveryTimer, DataFiles, TLAPS`; therefore the timer has `TimerInit`, `TimerNext`, `TimerSpec` |
| `LogStream` | abstract: messages reach a file in order, each at most once | - |
| `Logger` | buffer, queue, writer task | `Stream == INSTANCE LogStream WITH way <- ..., file <- _logfile` |
| `LoggerProofs` | the refinement, proved | `EXTENDS Logger, SequenceTheorems, TLAPS` |

`SDI12Comm` is the same bus one level up: there an exchange is one step and a
reply any of its forms; what makes a reply whole or broken is `SDI12Exchange`.

### Conventions

**Time.** A timer is represented by its age (`Every`) or by the time left
(`Timer`), not by an absolute clock, so no clock has to be bounded. That this is
what the 32-bit arithmetic amounts to is the business of `EveryTimer`. Time
passes in an action of its own (`Tick`, or `Pass` and `intTimer`) that any loop
step may precede, limited to `MaxPass` units in one pass of the loop: this is
the only assumption on the speed of the loop, and the runs vary it.

**The loop.** `pc` names the next statement. Where two statements cannot be told
apart by an interrupt or by time they are one action; the whole body of a
handler, its appends and resets included, is one action. In `MeteoStation` the
test of `_do_update` with `meters.timer()`, and the clear of the flag, are two.

**Data.** Values are abstracted to where they come from: a field of a PR2 row is
`"own"`, `"foreign"`, `"old"` or `"zero"`; the wind of a record is `"own"`,
`"repeat"`, `"stale"` or `"zero"`; a height is of this fill or of a past one; an
SDI-12 reply is its form, its delay and its count.

**History variables** are marked as such in the declarations. No action of the
code depends on them.

**Mutated forms.** A definition `Action_Something` is `Action` with one
plausible mistake. Each property of a passing run is violated when some action
is replaced by such a form (`PROJECT.json`, "mutants"), so no property holds
merely because of how the model is built.

### Correspondence

`PROJECT.json` "map" gives the lines of each definition. In outline:

* `MeteoStation`: `intTimer` - `WeatherStation::intTimer`; `UpdateIdle`,
  `UpdateTimer`, `UpdateClear` - `weather.update()`; `L1Wait`, `L1Collect`,
  `L1Overflow` - `if(timer_L1()) fine_data_collect()`; `L2Wait`, `L2Collect` -
  `if(weather.gotData()) ...`; `L3Wait`, `L3Write` - `meteo_data_write()`;
  `L4Wait`, `L4Restart` - the daily restart; `Setup`, `SetupInterrupted` -
  `setup()`. An append may fail for any set of rows (`fails`): the code restarts
  its counter whatever the card returned.
* `PR2Station`, `ColumnSensors`: one action per way through
  `collect_and_write_*`: request refused, request accepted, delay running, field
  read, last field read; for Teros31 also retried and given up.
* `ColumnFlow`: `ReadLimit`, `ReadFilling`, `ReadAverage` - `read_water_height`;
  `ValveOpens`, `ValveShuts`, `ValveStays` - `controlValveOut`.
* `EveryTimer`: `NotYet`, `Fire` - `Every::operator()`; `Reset` - `reset`.
* `WeatherMeters`: `Edge` - the two handlers; `Count`, `Complete`, `Copy...`,
  `Clear...` - the statements of `timer()`; `ReadVane` - `adcToDir`.
* `SDI12Exchange`: `Request`, `SendCommand`, `Listen` - up to the first look;
  `Available`, `Read`, `EndOfReply` - the while loop; `LineChange` - the sensor
  changes the line, and while listening `receiveISR` runs. The operators of
  `SDI12Line` have the names of the driver's functions.
* `SDCard`: `sdCommand(step, cmd, arg, Then)` is one attempt to send a command:
  the card may answer; or no token comes, because the command was lost or because
  the answer was, after the card had executed it (`Unanswered`), and another attempt
  follows or the three are used up; or a card without CRC misreads the address. `Read...` and `Write...` - the statements of `sdReadSector`,
  `sdReadSectors`, `sdWriteSector`, `sdWriteSectors`; `Init...` - those of
  `ff_sd_initialize`; `Swap` - the card is replaced or loses power.
* `DataFiles`: `Setup` - `Clock::begin` and `createFile`; `SetupEnds` - the delay
  of five seconds of hlavo-station (hlavo-column has 500 ms there, and is not
  modelled); `appendData`; `Stop` - restart, crash or loss of power;
  `TimePasses`, `RtcLosesPower` - the chip.
* `Logger`: `SetupLog`, `Wake` - `setup_log`; `print`, `SendToWriteTask`,
  `WaitForRoom` - `print` and `printf`; `Receive`, `WriteMessage`, `AppendFails` -
  the loop of `writeTask`; `PowerLoss`.

## 3. Runs

`tlc -config X.cfg Module.tla` reproduces any of them; they take from a second to
three minutes with two workers.

| Run | cfg / module | Distinct states | Shows |
|---|---|---|---|
| meteo_short | MeteoStationShort / MeteoStation | 393 377 | short passes: no interrupt lost, no buffer full, every record has its own wind, the restart follows a write or loses one L3 interval at most (FineNeverFull, MeteoNeverFull, OwnWind, RebootAfterWrite, NoTickLost) |
| meteo_slow | MeteoStationSlow / MeteoStation | 1 065 709 | what holds with any loop: no interval lost, none written twice, no record without samples, wind spoiled only by an overflow (IntervalRecorded, PendingBuffered, NoEmptyRecord, OnlyOverflowSpoils) |
| pr2 | PR2Station / PR2StationMC | 62 573 | flags, readers, power and rows agree, no foreign or old value, no cold probe asked by the loop, the section implements the abstract round, and the round ends (RoundConsistent, FieldsOwn, RoundImplemented, WarmWhenAsked, RoundEnds) |
| column_faulty | ColumnFaulty / ColumnSensors | 28 207 | no reader takes the reply to another, attempts are bounded, the section implements the abstract round, rounds repeat (NeverMisread, AttemptsBounded, RoundImplemented, RoundsRepeat) |
| column_flow | ColumnFlow / ColumnFlow | 5 241 | fills are not mixed, the outflow is complete and ends, fluxes come back (FillsNotMixed, OutflowEnds, OutflowComplete, FluxResumes) |
| every_timer | EveryTimer / EveryTimer | 5 928 | class Every is a metronome across the wrap-around (Metronomic) |
| weather_meters | WeatherMeters / WeatherMetersMC | 414 321 | at most one edge lost per interval, nearest direction (UndercountAtMostOne, NearestDirection) |
| wind_vane_table | WindVaneTable / WeatherMetersMC | violation | the search leaves its table (IndexInTable) |
| sdi12_exchange | SDI12Exchange / SDI12ExchangeMC | 224 533 | a reply is this request's, is read whole, and the line is not driven against a sensor (OwnReply, ReplyWhole, NotHeldWhileSending) |
| logger | Logger / Logger | 3 127 | the file is the stream of the messages, callers return, every message is written (LogStreamed, CallerReturns, EveryMessageWritten) |
| sd_card | SDCard / SDCardMC | 1 636 790 (symmetry) | only the sectors asked for, nothing reported that is not done, two losses made good, the bus free after a call, each with the exceptions its property names (AddressesMatch, ReadCorrect, WriteStored, FaultsTolerated, Released, OnlyAskedChanged) |
| data_files | DataFiles / DataFilesMC | 409 928 | the calendar is right, a file has one run, rows are erased only after a clock reset (CalendarAgrees, FileOfOneRun, RowsErasedOnlyAfterReset) |

`TypeOK` of each module is no property of a run; it documents the values of the
variables, and TLC finds none violated on the instances above. Those of
`MeteoStation`, `PR2Station`, `ColumnSensors`, `SDCard`, `DataFiles` and
`SDI12Exchange` are proved (`TypeCorrect`, `PR2TypeCorrect`, `ColumnTypeCorrect`,
`TypeCorrect`, `FilesTypeCorrect`, `ExchangeTypeOK`), that of `ColumnFlow` as the lemmas `TypeInit` and `TypeNext`.

### Bounds, and why they are enough

* *meteo_short*: four units a second, `MaxPass = 3` (the longest pass shorter
  than a second), three seconds an interval instead of 60, L3 every two intervals
  instead of 15, L4 every three L3 periods. `FineBuf = Period + 3` and
  `MeteoBuf = 4` are the smallest buffers that meet `FineRoom` and `MeteoRoom`
  below; the sketch has 70 for a period of 60, and 20 records for 15. Drift
  between the timers can come only from the phases chosen in `Setup` (all of
  them) and from the delay of each poll (all up to `MaxPass`). Every phase of
  every timer recurs within one L4 period, so a longer run adds nothing.
* *meteo_slow*: two units a second and `MaxPass = 3`, so two interrupts can fall
  into one pass; `FineBuf` and `MeteoBuf` too small on purpose. Both overflow
  branches fire. What holds here holds with no assumption on the loop.
* *pr2*: three probes are the least with a first, a middle and a last. Two
  scenarios, chosen in `Init`: no probe need answer and `L3 = 12` is shorter than a
  round, so the tick comes at every point of one; and probes 1 and 2 answer and
  L3 leaves time for the longest round (`RoundBound`: power-up, then a delay and
  three passes for every command, and once more for a measurement that is running
  when the round starts). `RoundImplemented` and `RoundEnds` speak of the
  second only (`Timely`), the others of both. Values announced are 0 to 2 because the
  code distinguishes none, one (the `Raw_ADC` copy skips the first) and more. In
  the sketch a round takes minutes at most, L3 is 15 minutes.
* *column_faulty*: three tensiometers, `stryouts = 2` instead of 20; a sensor in
  `Answering` (the middle one) shows that one which fails does not cost another
  its row.
* *column_flow*: three samples an average instead of five, an outflow of 2.5
  samples instead of 15: long enough for the limit to be reached again, for the
  ring to wrap with the valve open and for it to shut with the ring half full.
* *every_timer*: a word of 19 units with an interval of 5, not a divisor of it,
  and calls up to 12 late, so the clock wraps between any two events and a call
  may answer two beats at once. `Interval + MaxPass < Word` is tight.
* *weather_meters*: dead times of 3 and 1 units (the code: `DEBOUNCE_TRESHOLD`
  and 2 ms), a publication of at most 1 unit, two calls an interval. At most
  one edge fits because a publication is not longer than a dead time; that is
  what the board needs too. The readings of the vane are the last of every
  entry and the first of the next, and the ends of the table; in between nothing
  changes.
* *sdi12_exchange*: the times, the ring of 81 and the buffer of 100 of the
  program. The sensors are conforming ones at the ends of the tolerances (answer
  after 8.5 or 15 ms, gaps of 0 or 1.66 ms, a clock 0.5 % fast, exact, or almost 9 %
  slow, characters that end in zeros, in ones, in all ones), one with the longest
  reply that fits, and three that break the rules: late, pausing for 30 ms, and
  talking past the ring. An interrupt is up to 10 us late. Two requests are
  enough, since a request can only inherit from the one before.
* *logger*: a queue of three instead of ten; seven messages fill it, the writer's
  hand and the caller's buffer, and start over; two failures, so that a power
  loss can follow a refused append.
* *sd_card*: three sectors, so that a transfer has a first, a middle and a last;
  two versions of content, interchangeable, so the run uses their symmetry (it
  checks no liveness); a card of each way of recognition, the oldest without CRC;
  three losses a call, one more than the attempts make good; data responses other than
  "stored" of every class the code compares with, and 0x0B, which cards do send.
* *data_files*: three runs and three steps of time, of a second or a day; dates
  around the end of February in a leap year, a new year and the hour before,
  where the hour taken off the time of the build changes day, month and year.

### Deadlock

Checked in every run but two: `SDI12Exchange` and `DataFiles` end when the bound
on requests, or on runs and time, is used up. `MeteoStation` has a state in which the sketch stops for
good, `while(1){delay(1000);}` after a failed start of I2C, clock or card; it is
the stuttering action `Halted`.

### Fairness

`FairSpec` of `PR2Station`, `ColumnSensors` and `ColumnFlow` is
`Spec /\ WF_vars(Loop) /\ WF_vars(Tick)`: the loop task keeps running (the
Arduino core calls `loop()` for ever, no step of it waits for an event) and time
keeps passing. In `Logger` the loop gets the processor whenever it is ready (it has the higher
priority), a sleep ends, and the writer task, which can run only while the loop
sleeps or waits, gets through its work if that happens again and again (strong
fairness: a single sleep may be too short for an append). Nothing obliges the
loop to sleep: that is the premise of `EveryMessageWritten`. No fairness is
assumed of sensors. Where progress depends on
their answers the property says so: `RoundEnds` is checked with a last probe that
answers, `RoundsRepeat` has as a premise that the PR2 refuses finitely many
requests, `FluxResumes` that the height stays below the limit.

## 4. Proofs

`tlapm M.tla` with `M` one of `MeteoStationProofs`, `PR2StationProofs`,
`ColumnSensorsProofs`, `ColumnFlowProofs`, `ClockProofs`, `LoggerProofs`,
`SDCardProofs` and `SDI12ExchangeProofs` checks all of them, in seconds to six
minutes each. Every safety property of a passing run is the conclusion of a theorem.

### MeteoStation

Assumptions: `ConstantsAssumption` (positive constants), and for the timing results

    ShortPasses == MaxPass < Second
    FineRoom    == FineBuf >= Period + 3
    MeteoRoom   == L3 + 4 * Second <= MeteoBuf * (Period * Second)

The sketch has a second of 1000 ms, Period = 60, FineBuf = 70, L3 = 900 s and
MeteoBuf = 20: `FineRoom` is 70 >= 63, `MeteoRoom` is 904 <= 1200. `ShortPasses`
is what the design aims at: an SDI-12 exchange is two waits of 20 ms and 8 ms a
character. An append to a slow card may exceed it; the first group needs no such
assumption.

*For every speed of the loop* - `TypeCorrect`, `PendingAlwaysBuffered`,
`EveryIntervalRecorded`, `SpoiledOnlyByOverflow`. The invariant `DataInv` adds
to these `IntervalFlow`: where in the loop an interval waits to be recorded.
Without it `IntervalRecorded` is not inductive, since it does not say that the
flag and the fate of the interval go together between `UpdateTimer` and
`L2Collect`.

`NoRecordEmpty` needs `Period >= 3` besides, an interval of three seconds or more.
`SampleInv` says why that is enough however slow the loop is: as long as there is
no sample since the last record, at most the first of the interrupts counted in
the interval came before `timer_L1` was polled for that record, the others a second
apart after it; with three of them `timer_L1` has been due, and it is polled before
the record is made.

*With short passes* - `EveryTickCounted`, `FineBufferSuffices`,
`MeteoBufferSuffices`, `EveryRecordOwnWind`. The invariant `TimeInv` has

* `FlagAge`: a raised flag is younger than the pass, so with passes shorter than
  a second the next interrupt finds it down;
* `PollAges`: every pass polls L1 and L3, so neither is long overdue;
* `SamplesFollowTicks`: L1 and the interrupt have the same period, so samples
  taken and interrupts counted since the last record differ by at most two,
  depending on which of the two came later (`Ahead`); this bounds the fine
  buffer by `Period + 3`;
* `RecordsFollowTime`: each record stands for `Period` seconds since L3 last
  fired; this bounds the record buffer;
* `Booting`: the state before the first pass, and that no overflow has happened.

One lemma per conjunct shows that a step preserves it, with a case per action.

*The daily reboot* - `RebootFollowsWrite`, with short passes, `FineRoom` and

    WholeL3 == \E k \in Nat : L4 = k * L3
    LongL3  == 2 * Second <= L3
    Period >= 4

(the sketch: L3 = 900 s, L4 = 24 h, Period = 60). `RebootInv` says that `timer_L3`
and `timer_L4`, which are reset one after the other in `setup()` and never drift,
keep ages that differ by a multiple of L3 and the moment between the two resets.
So when `timer_L4` is due at its test, `timer_L3` was due in the same pass and the
records have been written - unless the moment they are both due lies between the
two tests of this pass. The code does not rule that out, and the run meets it: the
restart then comes before the write, and what it loses is what was collected since
the last one, for which the theorem gives the bound of one L3 interval, three
seconds and a record. It follows from `timer_L3` being overdue by no more than the
pass at the test of `timer_L4` (a conjunct of `RebootInv`), and from
`RecordsFollowTime`.
`Period >= 4` keeps two records from being made since L3 was due; the run
meteo_short, with a period of 3, shows that in its instance the property holds
without it.

### PR2Station

Assumptions: `BusAssumption` and `StationAssumption` (at least one probe, positive
times, any set of scenarios). Nothing is assumed of the speed of the loop, of the
probes, or of L3 leaving time for a round.

`RoundInv == TypeOK /\ RoundConsistent /\ FieldsOwn` is inductive
(`RoundInit`, `RoundNext`), its parts are not: that a tick of L3 in the middle of
a round finds flags, readers and power as they should be rests on the reader of
the current probe being the only one between two commands, and that a field is
the probe's own rests on the measurement in the bus being the one of this probe
and command. From it follow `RoundStaysConsistent` and `RowsHaveOwnValues`.

`ProbesAskedWarm`, about the commands of the loop (`setup` asks for the identification
one second after power-on, and is over before), adds `Warming`: while the power is on, the time it has been on and
the time `timer_PR2_power` still waits make up at least `PowerUp`. L3 switches the
power on again and restarts the timer together, also in the middle of a round,
and the section is entered only when the timer has run out.

`RoundIsComplete` adds `CompleteInv`: in the scenario with an answering last probe
and `RoundBound <= L3`, every moment of a round comes in time for what is left of it
(`OnTime`, in the three stages of a command: the power, the delay, the next
request), so no tick of L3 falls into a round; hence the probes before the
current one have been served and the others not yet (`Served`). `FirstPass` is the
one command that may have been sent before the first tick. The attempt at this
proof corrected the bound: two passes for a command are not enough, since a
request, the end of the delay and the reading of its values may each wait for a
pass.

`StationImplementsRound` is the refinement of `MeasuringRound` under the same premise
(`Timely`), for every set of probes that answer. The turn is `iss`, or past the last
one when `pr2_all_finished`. `ReadLast` is an `AppendRow`, `RequestFailed` a
`GiveUp` (of a probe that need not answer, hence not the last: `SkippedIsNotLast`), and
a tick of L3 a `StartRound`, since it finds the round over (`TickFindsFinished`); the
first tick after the start may come before the first row, and is a stutter then.
Without the premise the section does not implement the round: a silent last probe
makes it begin again (see section 5).

### ColumnSensors

Assumptions: `BusAssumption` and `ColumnAssumption`; nothing is assumed of the
loop or of the sensors outside `Answering`. Two invariants, one on the other:

* `OwnerInv`, for `NobodyMisreads`, adds to `NeverMisread` and `OthersReset` the
  `Stage` of the round (flags, current tensiometer, row of the PR2) and
  `OwnMeasured`: after a read without an answer the timer has stopped, so
  `TimerOwned` says nothing, while the reader will still take the next reply as
  its own; that the measurement is its own has to be said separately.
* `CountInv`, for `AttemptsAreBounded` and `RoundIsComplete`, splits the
  tensiometers into those still to come (`WaitingUntouched`), those served
  (`ServedOnce`) and the current one, whose commands are counted by `n_tryouts`,
  plus `stryouts + 1` once a request was accepted (`CurrentCounted`).

`SectionImplementsRound` (`Spec => RoundImplemented`) has no premise at all: turns are
derived from the two flags and `teros31_iss`. A row of the PR2 and of a tensiometer is
an `AppendRow` (`PR2GetsRow`, `GetsRow`), which needs from `CountInv` that the
current sensor has no row yet; both ways of giving a tensiometer up are a `GiveUp`
(`GivesUp`), and L2 starts a round in the last turn only (`StartsRound`); everything
else, retries included, is a stutter. `RoundIsComplete`, about the rows a finished
round has (`RoundComplete` in both modules), is proved and no longer checked by a
run, since it follows from the refinement.

### ColumnFlow

Assumption: `FlowAssumption` (positive constants, any `MaxPass`).

* `TimeInv`, for `OutflowIsComplete` and `OutflowIsBounded`: while the valve is
  open and no request waits, the time since the limit and the time left of
  `timer_outflow` make up at least `Outflow`, and at most `Outflow + MaxPass`
  and the time since the timer ran out; a request waits for one pass only.
* `FillsInv`, for `NoRowMixesFills`: the samples younger than
  `n_H_collected_start - 1` are of this fill. It is one sample less than the
  counter says, because the reading at the limit sets the counter to 1 before the
  valve opens; the proof shows that the sample which completes the first average
  makes up for it, since it is stored before the average is taken.

### WeatherMeters

In `MeteoStationProofs`, after the data path. `AtMostOneEdgeLost` assumes `ShortPublication`, a publication not longer than
either dead time (the code: 2 ms and more against a few instructions). The
strengthening `EdgeInThisPublication` says that an edge counted since the copy is
no older than the publication, so a second one is still in its dead time.

`DirectionIsNearest`: for every set of readings of the 12-bit converter, not
only those of the run, `adcToDir` finds a nearest entry unless the search leaves the
table (the finding below). Between two neighbours of the table the loop stops at
the first of which the reading is not past the middle.

### EveryTimer

`NeverWraps` (`AgeBounded` for every word, interval and delay with
`Interval + MaxPass < Word`) and `EveryIsMetronome` (`TimerSpec => Metronomic`). The
argument reduces modular arithmetic to integers: lemmas `Remainder`,
`RemainderUnique` and `RemainderNear`, then `AgeCases`; a step of the timer is
then a `Beat`, a `Call`, a `Reset` or a stutter of the metronome. This justifies
the representation of timers by ages in all other modules.

### Clock and data files

`CalendarIsRight` is about every date from 2000 to 2099 that exists (`Dates`), some
three thousand million of them: the seconds `secondstime` computes are those of the
days and hours before the date (`SecondsBefore`, which counts them one by one),
`DateTime` finds the date again, and `operator<` compares the seconds. It rests
on `NextDayCounts` (the next day is one day more, over the ends of months and
years), `DaysInOrder`, and on what the two loops of the conversion find
(`YearLoopFinds`, `MonthLoopFinds`); that every day has a date (`DayExists`), and so
that a count of days is a count of dates, is an induction on the days.

The theorems on `DataFiles` assume `DataFilesAssumption` and

    RealDates         == BuildTimes \subseteq Dates /\ ChipTimes \subseteq Dates
    AfterTheFirstHour == the sketch was not built in the first hour of 2000
    InTheCentury      == whatever the chip starts from, MaxSeconds days later it is not 2100

The two digits of the year start again at 00 then. The bounds on time and runs are
arbitrary.

* `CalendarInv`, for `CalendarAlwaysAgrees`: the registers hold a date that exists
  and whose seconds are those that have passed, with room for the steps of time
  that are left. A step of the chip is `NextSecondCounts` or `NextDaySeconds`,
  `Clock::begin` sets a date that exists (`SecondExists`).
* `FilesInv`, for `FileAlwaysOfOneRun` and `NothingErasedWithoutReset`. `NameInv`: in the
  loop the clock is past the date in the name, by the delay at the end of `setup`.
  `RecentInv`: a file that was created since the chip last lost its time has a
  date the clock has reached, and passed if it has rows - so a new name, which
  is the time now, is not its name. Neither property is inductive without it.
  `OwnFileInv`: a file that this run created has its rows only.

Both properties leave something out, because the code does: a run whose file the
card refused appends to whatever has its name, and after a loss of time of the
clock a name may come again.

### SDI12Exchange

The run has a dozen sensors at the ends of the tolerances; the theorems are about
every set of sensors, every character, every bit length and answering time in
between, any number of requests. Assumptions: `ExchangeAssumption` and

    LineParameters == TICKS_PER_BIT = 833 /\ RX_WINDOW_FUDGE = 50
    ShortLatency   == IsrLatencies \subseteq 0 .. 14
    BufferSizes    == /\ 3 * max_msg_length + 10 <= 4 * SDI12_BUFFER_SIZE
                      /\ SDI12_BUFFER_SIZE < max_msg_length
    Readable(s)    == s.bit \in 829 .. 918

Times are in microseconds. The program has a message of 100 and a ring of 81:
310 <= 324, so there is little room. `Readable` is wider than the tolerance of the
standard, which is 829 to 907. It and `ShortLatency` belong together: with nine
equal bits at 829, counted by `bitTimes` as `(dt + 50) \div 833`, an interrupt that
is 15 us late loses one of them (9 * 829 - 15 + 50 < 9 * 833). `OwnReplyHolds` and
`ExchangeTypeOK` take all sensors to be readable, and nothing more: they may answer
late, pause, or talk without end (of a reply longer than the message `OwnReply`
says nothing). `ReplyWholeHolds` and `NotHeldWhileSendingHolds`
are about the conforming ones among any sensors, and need

    LineFeedLast == \A s \in Sensors : Conforming(s) => s.reply[Len(s.reply)] = LineFeed

which the standard demands (a reply ends CR LF). The attempt without it failed for
a good reason: a character whose last bits are 1s has no change of the line before
the next start bit, so the interrupt routine completes it only then, and a reply
that ended with such a character would lack it.

The invariant, `ExchangeInv`, says much more than the properties, none of which
speaks of the receiver:

* `ReceiverInv`: while the driver listens, what the interrupt routine has in
  `rxState`, `rxMask`, `rxValue` and `prevBitTCNT` is the frame of a character of
  the reply up to the last change of the line. Either the receiver waits for a
  start bit, or it is in the character being sent (`InCharacter`), or it is in the
  character sent last, which ended in 1s (`Pending`). `ChangeReceived` shows that
  one call of `receiveISR` keeps this, from `ShiftedInFrame` (a change inside the
  frame), `ShiftedAtStart` (a start bit that completes the character before it) and
  `BitTimes` (how many bits an interval counts as, for each of up to nine);
* `TimeInv`: since the driver began to listen (`Began`), a readable sensor has sent
  at most a character in 8.29 ms, a conforming one at least one in 10.73 ms. The
  loop reads one in 24 ms: the first bounds what waits in the ring, the second shows
  that when the loop finds nothing a conforming sensor has finished (`WholeReply`);
* `RingInv`: of the characters completed (`Got`) the first `counter` are in the
  message and the others wait in the ring, in order, without an overflow (`Holds`).
  The cells are those from the head on, around the end of the array (`Slot`);
* `StateInv` and `CleanInv`: the loop, the state of the driver and the buffers
  agree, and a command is sent with empty buffers. Hence nothing of an earlier reply
  is left when `RingInv` begins to speak;
* `BeginsInv`, `WholeInv` and `QuietInv` keep what follows from these for as long as
  the message is there.

`InStep` states `ReceiverInv` and `RingInv` by themselves.

### SDCard

Assumption: `CardAssumption` (at least one kind of card, sector, version of content
and refusing data response; any number of losses in a call). The invariants rest on one another:

* `TypeInv`: types, and for every step of a call the bounds of its counters (at
  most three attempts, and never more blocks than asked for as long as no count of
  written blocks was garbled, which only a card without CRC allows);
* `AddressInv`, for `AddressesAlwaysMatch`: a card becomes ready only after the
  commands that ask what it is, so host and card agree on the unit of addresses
  in this call and every later one;
* `BusInv`, for `AlwaysReleased`: the card is selected only between `sdSelectCard`
  and the end of a transfer, and a transfer that goes on stands at the sector of
  the next block, which the next two need;
* `ReadInv` and `WriteInv`, for `ReadsAreCorrect` and `WritesAreStored`: the first
  `done` blocks are read, or stored, also after a resumption at another sector; on
  a card without CRC only as long as nothing was damaged in the call (`Intact`);
* `CrcInv` and `FaultInv`, for `FaultsAlwaysTolerated`: in a call that nothing but
  losses disturbs, every attempt used up stands for one of them, so with
  two of them the third attempt is never refused. An answer lost to a command that
  begins or ends a transfer is not among these losses: it sets `spoilt`.

`OnlyAskedEverChanged` follows from `TypeInv`, the place of the card in a transfer, and
the steps that store a block. The
commands have lemmas of their own: what `sdCommand` leaves alone, and what a card
in a transfer does with whatever it is sent.

### Logger

`LoggerIsStream` (`Spec => LogStreamed`) for every length of the queue. The messages
on their way, `Way`, are the one the writer has received, the queue, and the one
in the caller's buffer, in this order. `Inv` is `TypeOK` and that the queue is
empty before `setup_log`, without which creating the queue might lose messages.
Sending and receiving move a message within `Way` and are stutters; a write and a
refused append take its head; a loss of power empties it. `FrontOf` and `HeadThenTail` are the facts on sequences this needs.

### Only model-checked

* Liveness (`RoundEnds`, `RoundsRepeat`, `FluxResumes`, `CallerReturns`,
  `EveryMessageWritten`) is out of the prover's reach.
* `IndexInTable` is false (section 5).

## 5. Findings

One run ends with a counterexample:

* **The search of the wind vane leaves its table** (wind_vane_table). A reading
  from 3666 to 3780 is past the middle of the last two entries and below the last
  one: the loop goes on to i = 15 and compares with `_windvane_table[16]`
  (`WeatherMeters.h:199`), so the direction is 270 degrees or 0 depending on what
  lies behind the table. The test above the loop is commented "prevent overflow
  of index" (line 195).

Behaviour met on the way, which the properties are worded around:

* The announced count is not checked: `sdi12_comm.h:255` has
  `(0 < delay_time) && (delay_time < 10)` with the comment "n data between 1-9";
  the line tests the delay twice and `n_vals` never. An acknowledgement of 0
  values is accepted, waited for, and nothing is stored.
* `previous_height` starts at 0 (`hlavo-column.ino:81`), not at NaN as after an
  outflow, so the first flux after every boot is `(0 - H) / period`
  (`"boot"` in `ColumnFlow`, excluded by `FillsNotMixed`).
* `sdWriteSector` compares the data response with 0x0A and 0x0C
  (`sd_diskio.cpp:319`), while cards answer 0x0B and 0x0D: a refused block of a
  write of one sector is reported as written unless SEND_STATUS notices
  (`WriteStored` claims it only if the card accepted the block). A write of several
  sectors is resumed after 0x0A only (line 390), so with cards that follow the
  standard a refused block fails it.
* `sdWriteBytes` returns 0 without having sent the block when the card is busy
  for 500 ms (`sd_diskio.cpp:229`). `sdWriteSector` does not know that answer, asks
  SEND_STATUS (line 326), and may report success with the card still waiting
  for the block (`Released` and `WriteStored` exclude it).
* When the answer to CMD17, 18, 24, 25 or 12 is lost after the card executed it,
  `sdCommand` sends the command again to a card that is already in the transfer, or
  already out of it. It takes the repetition for an illegal command, and the
  call fails although the other attempts are left (`FaultsTolerated` does not count
  these answers); the card may be left in the transfer.
* A card that does not know CRC_ON_OFF is used without CRC: damaged blocks,
  addresses and counts of written blocks (lines 222, 390) are then taken as they
  come, so that other data may be read or written, and other sectors overwritten.
  Of such cards everything is claimed only of calls in which nothing was damaged.
* The daily restart of the station comes before the write, and loses the records
  of a whole L3 interval, when both timers become due between their two tests
  (`hlavo-station.ino:432` and 452; `RebootAfterWrite` bounds the loss).
* A file that could not be created is appended to all the same: a run whose name
  is that of an earlier file continues it (`FileOfOneRun` speaks of the runs that
  created theirs).
* `supports_crc` is not restored when a card without CRC is replaced: the new one
  is refused until `sdcard_uninit` (the field `able` of a recognition).
* A clock that loses its time twice starts twice at the time of the build; the
  second run truncates the files of the first (`RowsErasedOnlyAfterReset` names
  this case and excludes all others).
* An unanswered last PR2 makes the station read the other probes again and again
  with the power on (`LastRowEndsRound`, a part of `RoundConsistent`); in the
  column an unanswered PR2 is retried for ever and no tensiometer is read (the
  premise of `RoundsRepeat`); rows refused by the card are dropped
  (`PendingBuffered` says they are not written later, nor twice).

## 6. Not modelled

* **Text**: rows, headers, names as characters, messages, parsing of numbers;
  `sprintf` and `String`. Values are known by where they come from.
* **The file system** (FatFs is part of the board's core, not of the repository);
  between `DataFiles` (files) and `SDCard` (sectors) it is taken to work.
* **Of the SDI-12 driver**: `parseInt` and the other stream functions, CRC,
  `sendResponse`, several `SDI12` objects, timers of other boards.
* **Of the SD driver**: raw sectors, card size and type for display; tokens, data
  responses and the answers to READ_OCR and SEND_IF_COND that arrive altered (in the
  model they arrive as sent, or not at all; a wrong voltage is possible). Calls do
  not interleave. In the two main sketches one task makes them all; in
  `hlavo-column_BME280` the logger's writer task appends to the card as well, and
  there the lock of the file system (FatFs) and `AcquireSPI`, which holds the bus
  for the length of a call, keep them apart. `ff_sd_status` does not take
  `AcquireSPI` and relies on the other lock.
* **Of the clock**: alarms, the other chips of RTClib, parsing of `__DATE__`, and a
  transfer that fails after `begin` (the code does not notice, and takes
  uninitialised bytes for a date).
* **Of the logger**: file names, `cleanup_old_logs` (never called), a queue or task
  that cannot be created. Both main sketches have `setup_log` commented out;
  `hlavo-column_BME280` sets the logger up.
* **Toggle, Pattern** and the other classes of Every: not used.
* **Rain control of the column** (`saturation_rain`, table of rains): its call is
  commented out of the loop.
* **BME280, SHT4x, BH1750, battery, BaseData conversions**: blocking reads of
  vendored drivers and arithmetic on their values. The moving average of wind
  directions is floating-point trigonometry.
* **Other vendored libraries** (ghostl, ADC calibration, OTA tests, sensor drivers,
  examples): blocking register access without state the sketches share, or not
  compiled into them. They, together with the alternative chips and boards inside
  the libraries above and the test sketches, are the larger part of the lines in
  the repository, so that the modelled lines stay a small share of all; they are
  left out because there is nothing in them to state.
* **Test and calibration sketches**, `python/`, `doc/`: earlier versions or parts
  of the two sketches, and evaluation of the data.
* **The daily restart of the column**: equivalent to starting at `Init`, with the
  valve shut; in hlavo-station it is part of `MeteoStation` because of the
  buffers.

## 7. Plan

Done: the modules, runs and theorems above, in the order `MeteoStation` (the
station's purpose), the bus and its two users, the outflow, the timers that
justify the representation of time, the counters and the vane, then the drivers:
the logger, the SDI-12 line, the SD card, the clock and the data files.

Extension of the model, in this order:

1. `CountdownTimer`: class Timer against the wrapping clock, and the time left
   that `SDI12Comm` and `ColumnFlow` use as its abstraction.
2. `Station`: the loop of hlavo-station with both sections, so that the length of
   a pass follows from what the PR2 section does and is not a free `MaxPass`;
   `Column`: the same with `ColumnFlow` and `ColumnSensors`.

Further theorems: the refinements of the extension.
