------------------------------ MODULE DataFiles ------------------------------
(***************************************************************************)
(* The data files of a sketch over its restarts: Clock::begin reads the    *)
(* DS3231, setup names a file after the date and creates it, the loop      *)
(* appends rows.  FILE_WRITE truncates, so what was measured in an earlier *)
(* run is kept only as long as no two runs choose the same name.           *)
(*                                                                         *)
(* One file stands for all of a sketch: they are created one after the     *)
(* other with the same date, each in a directory of its own.  The chip     *)
(* counts by itself, and loses its time only while the station is off.     *)
(***************************************************************************)
EXTENDS RTC, Sequences, SequencesExt, Functions

CONSTANTS
    BuildTimes,   \* __DATE__ and __TIME__ of the sketch
    ChipTimes,    \* what a chip that was set before shows
    MaxSeconds,   \* bound: how often time passes
    MaxRuns       \* bound: runs of the sketch

ASSUME DataFilesAssumption ==
    /\ BuildTimes \subseteq DateTimes /\ ChipTimes \subseteq DateTimes
    /\ MaxSeconds \in Nat /\ MaxRuns \in Nat

VARIABLES
    build,       \* when the sketch was built
    registers,   \* of the DS3231
    osf,         \* its oscillator stop flag
    seconds,     \* that have passed on the calendar since 2000, for the properties
    phase,       \* "off", "setup" or "loop"
    filename,    \* data_meteo_filename
    created,     \* this run created its file, with the header, for the properties
    files,       \* by name, what the card holds
    run, resets, \* runs so far, and how often the chip lost its time
    passed       \* bound

chip == <<registers, osf, seconds, resets>>
vars == <<build, chip, phase, filename, created, files, run, passed>>

File == [header : BOOLEAN, rows : Seq([run : 1 .. MaxRuns, created : BOOLEAN, at : DateTimes]), resets : Nat]

\* Where a chip starts that had no power.
Epoch == [yOff |-> 0, m |-> 1, d |-> 1, hh |-> 0, mm |-> 0, ss |-> 0]

Init ==
    /\ build \in BuildTimes
    /\ \E dt \in ChipTimes \cup {Epoch} : registers = Registers(dt) /\ seconds = SecondsBefore(dt)
    /\ osf = (registers = Registers(Epoch))
    /\ phase = "off"
    /\ filename = now(registers) /\ created = FALSE
    /\ files = <<>>
    /\ run = 0 /\ resets = 0 /\ passed = 0

-----------------------------------------------------------------------------
\* The chip.
SecondPasses ==
    /\ registers' = Registers(NextSecond(now(registers)))
    /\ seconds' = seconds + 1
DayPasses ==
    /\ registers' = Registers(NextDay(now(registers)))
    /\ seconds' = seconds + 86400

Elapse ==
    /\ passed < MaxSeconds
    /\ passed' = passed + 1
    /\ SecondPasses \/ DayPasses
    /\ UNCHANGED <<osf, resets>>

TimePasses ==
    /\ phase # "setup"
    /\ Elapse
    /\ UNCHANGED <<build, phase, filename, created, files, run>>

RtcLosesPower ==
    /\ phase = "off" /\ ~osf
    /\ registers' = Registers(Epoch) /\ seconds' = 0
    /\ osf' = TRUE
    /\ resets' = resets + 1
    /\ UNCHANGED <<build, phase, filename, created, files, run, passed>>

-----------------------------------------------------------------------------
\* Clock::begin: a chip that lost its time is set to that of the build, which is
\* Central European summer time, less an hour.
lostPower == osf

Adjust ==
    IF lostPower
    THEN /\ registers' = Registers(Minus(build, 3600))
         /\ seconds' = SecondsBefore(build) - 3600
         /\ osf' = FALSE
         /\ UNCHANGED resets
    ELSE UNCHANGED chip

\* CSVHandler::createFile: FILE_WRITE, then the header.  A card that refuses the
\* first leaves what it holds; it may refuse the second alone.
Put(name, file) == [n \in DOMAIN files \cup {name} |-> IF n = name THEN file ELSE files[n]]
Empty == [header |-> TRUE, rows |-> <<>>, resets |-> resets]

\* Mutated form: an existing file is continued.
createFile_Append(name) ==
    /\ created' = TRUE
    /\ files' = [n \in DOMAIN files \cup {name} |-> IF n \in DOMAIN files THEN files[n] ELSE Empty]

createFile(name) ==
    \/ created' = TRUE /\ files' = Put(name, Empty)
    \/ created' = FALSE /\ files' \in {files, Put(name, [Empty EXCEPT !.header = FALSE])}

Setup ==
    /\ phase = "off"
    /\ run < MaxRuns
    /\ run' = run + 1
    /\ Adjust
    /\ filename' = now(registers')
    /\ createFile(filename')
    /\ phase' = "setup"
    /\ UNCHANGED <<build, passed>>

\* The end of setup: delay(5000) in hlavo-station.  (hlavo-column waits for 500 ms
\* there, too short for a second to pass for certain; it is not modelled.)
\* Mutated form: the loop starts at once.
Delay_None == UNCHANGED <<chip, passed>>
Delay == passed < MaxSeconds /\ passed' = passed + 1 /\ SecondPasses /\ UNCHANGED <<osf, resets>>

SetupEnds ==
    /\ phase = "setup"
    /\ Delay
    /\ phase' = "loop"
    /\ UNCHANGED <<build, filename, created, files, run>>

\* CSVHandler::appendData: FILE_APPEND creates a file that is missing.  Bound: one row
\* a second.
Row == [run |-> run, created |-> created, at |-> now(registers)]

appendData ==
    /\ phase = "loop"
    /\ files' = [n \in DOMAIN files \cup {filename} |->
                    IF n # filename THEN files[n]
                    ELSE IF n \in DOMAIN files THEN [files[n] EXCEPT !.rows = Append(@, Row)]
                    ELSE [header |-> FALSE, rows |-> <<Row>>, resets |-> resets]]
    /\ \A n \in DOMAIN files : Row \notin Range(files[n].rows)
    /\ UNCHANGED <<build, chip, phase, filename, created, run, passed>>

\* ESP.restart(), a crash or a loss of power, at any time.
Stop ==
    /\ phase # "off"
    /\ phase' = "off"
    /\ UNCHANGED <<build, chip, filename, created, files, run, passed>>

Next == TimePasses \/ RtcLosesPower \/ Setup \/ SetupEnds \/ appendData \/ Stop

Spec == Init /\ [][Next]_vars

-----------------------------------------------------------------------------
TypeOK ==
    /\ build \in BuildTimes
    /\ now(registers) \in DateTimes /\ osf \in BOOLEAN /\ seconds \in Nat
    /\ phase \in {"off", "setup", "loop"}
    /\ filename \in DateTimes /\ created \in BOOLEAN
    /\ DOMAIN files \subseteq DateTimes /\ \A n \in DOMAIN files : files[n] \in File
    /\ run \in 0 .. MaxRuns /\ resets \in Nat /\ passed \in 0 .. MaxSeconds

\* RTClib and the chip agree on the calendar: the date read from the registers is
\* the number of seconds that have passed, and back, over leap days, new years
\* and the hour Clock::begin takes off the time of the build.
CalendarAgrees ==
    /\ secondstime(now(registers)) = seconds
    /\ DateTime(seconds) = now(registers)

\* No row is erased as long as the clock keeps its time: a run that truncates a
\* file with rows comes after a loss of power of the chip since it was created.  After
\* such a loss nothing is claimed: the clock may be set to the same time again.
RowsErasedOnlyAfterReset ==
    [][\A n \in DOMAIN files :
        ~IsPrefix(files[n].rows, files'[n].rows) => resets > files[n].resets]_vars

\* A run that could create its file finds in it only what it wrote itself: the
\* header, and rows in the order of their dates, none from before the date in the
\* name.  Of a run whose file the card refused nothing is claimed: it appends to
\* whatever has that name.
FileOfOneRun ==
    \A n \in DOMAIN files :
        LET rows == files[n].rows
        IN  \A k \in DOMAIN rows : rows[k].created =>
                /\ files[n].header
                /\ ~Earlier(rows[k].at, n)
                /\ \A j \in 1 .. (k - 1) : rows[j].run = rows[k].run /\ Earlier(rows[j].at, rows[k].at)
=============================================================================
