---------------------------- MODULE MeteoStation ----------------------------
(***************************************************************************)
(* The meteorological data path of examples/hlavo-station: the 1 Hz        *)
(* hardware interrupt of the weather station, the fine buffer filled every *)
(* second, the buffer of averaged records filled at the end of every       *)
(* weather interval, the CSV file they are appended to, and the daily      *)
(* reboot.  The loop task is split at every point where time may pass or   *)
(* the interrupt may strike between two accesses to shared state; `pc' is  *)
(* the next statement of loop().                                           *)
(*                                                                         *)
(* A timer of class Every is represented by its age, millis() - last, and  *)
(* an operator() that fires leaves age % interval behind, so the model     *)
(* needs no absolute clock and no bound on it.  Module EveryTimer relates  *)
(* ages to the 32-bit arithmetic of the code.                              *)
(*                                                                         *)
(* The PR2 section of the loop, between "L2" and "L3", touches none of     *)
(* these variables and appears as time passing there; module PR2Station    *)
(* models it.                                                              *)
(***************************************************************************)
EXTENDS Integers

CONSTANTS
    Second,    \* time units in a second: period of timer_L1 and of the interrupt
    Period,    \* L2_WEATHER_PERIOD, in seconds
    L3,        \* interval of timer_L3, in time units
    L4,        \* interval of timer_L4, in time units
    FineBuf,   \* FINE_DATA_BUFSIZE
    MeteoBuf,  \* METEO_DATA_BUFSIZE
    MaxPass    \* longest time from one weather.update() to the next

ASSUME ConstantsAssumption ==
    /\ Second \in Nat \ {0} /\ Period \in Nat \ {0}
    /\ L3 \in Nat \ {0} /\ L4 \in Nat \ {0}
    /\ FineBuf \in Nat \ {0} /\ MeteoBuf \in Nat \ {0}
    /\ MaxPass \in Nat

VARIABLES
    pc,             \* next statement of the loop task
    passTime,       \* time since the last weather.update() ended
    ageHW,          \* time since the last 1 Hz interrupt
    ageL1, ageL3, ageL4,
    do_update,      \* WeatherStation::_do_update
    timer_counter,  \* WeatherMeters::_timer_counter
    got_data,       \* WeatherStation::_got_data
    num_fine,       \* num_fine_data_collected
    num_meteo,      \* num_meteo_data_collected
    slots,          \* meteoDataBuffer
    interval,       \* history: what became of the last weather interval
    overflowed,     \* history: fine_data_collect met a full buffer since boot
    synced          \* history: weather.update() has run since boot

clocks == <<passTime, ageHW, ageL1, ageL3, ageL4>>
weather == <<do_update, timer_counter, got_data>>
buffers == <<num_fine, num_meteo, slots>>
vars == <<pc, clocks, weather, buffers, interval, overflowed, synced>>

-----------------------------------------------------------------------------
\* A record of meteoDataBuffer.  `wind' says where its wind and rain come
\* from: an interval no other record holds ("own"), one already recorded
\* ("repeat"), the previous use of the slot ("stale"), or the constructor
\* ("zero").  `empty' says that its means were divided by zero samples.
Slots == 0 .. MeteoBuf - 1
Winds == {"zero", "own", "repeat", "stale"}
Fates == {"unused", "pending", "saved", "lost"}
Record == [wind : Winds, empty : BOOLEAN, fate : Fates]
MeteoData == [wind |-> "zero", empty |-> FALSE, fate |-> "unused"]

LoopPoints == {"check", "clear", "L1", "L2", "L3", "L4"}

\* Every::operator(): fire when the interval has elapsed, keep the drift.
Due(age, period) == age >= period
Realigned(age, period) == age % period

-----------------------------------------------------------------------------
\* meteo_data_write: the counter restarts whatever SD.open and print returned,
\* so a row that did not reach the card (`fails') is gone.
Appended(n, fails) ==
    [i \in Slots |->
        IF i < n
        THEN [slots[i] EXCEPT !.fate = IF i \in fails THEN "lost" ELSE "saved"]
        ELSE slots[i]]

\* mutated form: the counter is not restarted.
meteo_data_write_KeepCount ==
    \E fails \in SUBSET Slots :
        /\ slots' = Appended(num_meteo, fails)
        /\ UNCHANGED num_meteo

meteo_data_write ==
    \E fails \in SUBSET Slots :
        /\ slots' = Appended(num_meteo, fails)
        /\ num_meteo' = 0

\* The wind and rain of a record built in slot s: overwritten only when
\* weather.gotData(), else what the slot held.
WindOf(s) ==
    IF got_data
    THEN IF interval = "recorded" THEN "repeat" ELSE "own"
    ELSE IF s.wind = "zero" THEN "zero" ELSE "stale"

\* meteo_data_collect, num_fine_data_collected = 0 excepted: flush a full
\* buffer, then build a record in the next slot.
meteo_data_collect ==
    \E fails \in SUBSET Slots :
        LET full == num_meteo >= MeteoBuf
            n == IF full THEN 0 ELSE num_meteo
            before == IF full THEN Appended(num_meteo, fails) ELSE slots
        IN  /\ slots' = [before EXCEPT ![n] =
                            [wind |-> WindOf(@), empty |-> num_fine = 0, fate |-> "pending"]]
            /\ num_meteo' = n + 1
            /\ interval' = IF got_data THEN "recorded" ELSE interval

-----------------------------------------------------------------------------
\* Time and the hardware timer.  One unit passes; the unit that completes a
\* second runs the interrupt handler, intTimer.
Elapse ==
    /\ pc \in LoopPoints
    /\ passTime < MaxPass
    /\ passTime' = passTime + 1
    /\ ageL1' = ageL1 + 1
    /\ ageL3' = ageL3 + 1
    /\ ageL4' = ageL4 + 1
    /\ UNCHANGED <<pc, timer_counter, got_data, buffers, interval, overflowed, synced>>

Pass ==
    /\ Elapse
    /\ ageHW + 1 < Second
    /\ ageHW' = ageHW + 1
    /\ UNCHANGED do_update

intTimer ==
    /\ Elapse
    /\ ageHW + 1 >= Second
    /\ ageHW' = 0
    /\ do_update' = TRUE

-----------------------------------------------------------------------------
\* weather.update(): the flag is tested, meters.timer() runs, and only then
\* the flag is cleared.
UpdateIdle ==
    /\ pc = "check"
    /\ ~do_update
    /\ pc' = "L1"
    /\ passTime' = 0
    /\ synced' = TRUE
    /\ UNCHANGED <<ageHW, ageL1, ageL3, ageL4, weather, buffers, interval, overflowed>>

\* meters.timer(): publish the interval every Period calls.
UpdateTimer ==
    /\ pc = "check"
    /\ do_update
    /\ pc' = "clear"
    /\ IF timer_counter + 1 = Period
       THEN /\ timer_counter' = 0
            /\ got_data' = TRUE
            /\ interval' = "new"
       ELSE /\ timer_counter' = timer_counter + 1
            /\ UNCHANGED <<got_data, interval>>
    /\ UNCHANGED <<clocks, do_update, buffers, overflowed, synced>>

\* mutated form: the flag is never cleared.
UpdateClear_Dropped ==
    /\ pc = "clear"
    /\ pc' = "L1"
    /\ passTime' = 0
    /\ synced' = TRUE
    /\ UNCHANGED <<ageHW, ageL1, ageL3, ageL4, weather, buffers, interval, overflowed>>

UpdateClear ==
    /\ pc = "clear"
    /\ do_update' = FALSE
    /\ pc' = "L1"
    /\ passTime' = 0
    /\ synced' = TRUE
    /\ UNCHANGED <<ageHW, ageL1, ageL3, ageL4, timer_counter, got_data,
                   buffers, interval, overflowed>>

\* if(timer_L1()) fine_data_collect();
L1Wait ==
    /\ pc = "L1"
    /\ ~Due(ageL1, Second)
    /\ pc' = "L2"
    /\ UNCHANGED <<clocks, weather, buffers, interval, overflowed, synced>>

L1Collect ==
    /\ pc = "L1"
    /\ Due(ageL1, Second)
    /\ num_fine < FineBuf
    /\ num_fine' = num_fine + 1
    /\ ageL1' = Realigned(ageL1, Second)
    /\ pc' = "L2"
    /\ UNCHANGED <<passTime, ageHW, ageL3, ageL4, weather, num_meteo, slots,
                   interval, overflowed, synced>>

\* "should not happen": the full fine buffer is averaged early.
L1Overflow ==
    /\ pc = "L1"
    /\ Due(ageL1, Second)
    /\ num_fine >= FineBuf
    /\ meteo_data_collect
    /\ num_fine' = 1
    /\ ageL1' = Realigned(ageL1, Second)
    /\ overflowed' = TRUE
    /\ pc' = "L2"
    /\ UNCHANGED <<passTime, ageHW, ageL3, ageL4, weather, synced>>

\* mutated form: the averaged samples stay in the fine buffer.
L2Collect_KeepFine ==
    /\ pc = "L2"
    /\ got_data
    /\ meteo_data_collect
    /\ got_data' = FALSE
    /\ pc' = "L3"
    /\ UNCHANGED <<clocks, do_update, timer_counter, num_fine, overflowed, synced>>

\* mutated form: weather.resetGotData() is forgotten.
L2Collect_KeepFlag ==
    /\ pc = "L2"
    /\ got_data
    /\ meteo_data_collect
    /\ num_fine' = 0
    /\ pc' = "L3"
    /\ UNCHANGED <<clocks, weather, overflowed, synced>>

\* mutated form: the flag is reset and no record is built.
L2Collect_Skip ==
    /\ pc = "L2"
    /\ got_data
    /\ got_data' = FALSE
    /\ pc' = "L3"
    /\ UNCHANGED <<clocks, do_update, timer_counter, buffers, interval, overflowed, synced>>

\* if(weather.gotData()) { meteo_data_collect(); weather.resetGotData(); }
L2Wait ==
    /\ pc = "L2"
    /\ ~got_data
    /\ pc' = "L3"
    /\ UNCHANGED <<clocks, weather, buffers, interval, overflowed, synced>>

L2Collect ==
    /\ pc = "L2"
    /\ got_data
    /\ meteo_data_collect
    /\ num_fine' = 0
    /\ got_data' = FALSE
    /\ pc' = "L3"
    /\ UNCHANGED <<clocks, do_update, timer_counter, overflowed, synced>>

\* if(timer_L3()) meteo_data_write();
L3Wait ==
    /\ pc = "L3"
    /\ ~Due(ageL3, L3)
    /\ pc' = "L4"
    /\ UNCHANGED <<clocks, weather, buffers, interval, overflowed, synced>>

\* mutated form: the timer restarts from now and the drift is lost.
L3Write_Drift ==
    /\ pc = "L3"
    /\ Due(ageL3, L3)
    /\ meteo_data_write
    /\ ageL3' = 0
    /\ pc' = "L4"
    /\ UNCHANGED <<passTime, ageHW, ageL1, ageL4, weather, num_fine,
                   interval, overflowed, synced>>

L3Write ==
    /\ pc = "L3"
    /\ Due(ageL3, L3)
    /\ meteo_data_write
    /\ ageL3' = Realigned(ageL3, L3)
    /\ pc' = "L4"
    /\ UNCHANGED <<passTime, ageHW, ageL1, ageL4, weather, num_fine,
                   interval, overflowed, synced>>

L4Wait ==
    /\ pc = "L4"
    /\ ~Due(ageL4, L4)
    /\ pc' = "check"
    /\ UNCHANGED <<clocks, weather, buffers, interval, overflowed, synced>>

-----------------------------------------------------------------------------
\* meteoDataBuffer as its constructors leave it.
Unused == [i \in Slots |-> MeteoData]

\* if(timer_L4()) ESP.restart();  everything in RAM is lost.
L4Restart ==
    /\ pc = "L4"
    /\ Due(ageL4, L4)
    /\ pc' = "setup"
    /\ do_update' = FALSE
    /\ got_data' = FALSE
    /\ timer_counter' = 0
    /\ num_fine' = 0
    /\ num_meteo' = 0
    /\ slots' = Unused
    /\ interval' = "none"
    /\ overflowed' = FALSE
    /\ synced' = FALSE
    /\ UNCHANGED clocks

\* setup(): the hardware timer runs for seconds before setup ends, so the flag
\* is already up and the phase of the interrupt is arbitrary.  The three
\* resets are consecutive statements, at most one time unit apart.
Setup ==
    /\ pc = "setup"
    /\ \E phase \in 0 .. Second - 1, d1, d3 \in 0 .. 1 :
        /\ d1 <= d3
        /\ ageHW' = phase
        /\ ageL3' = L3 + d3         \* timer_L3.reset(true)
        /\ ageL1' = Second + d1     \* timer_L1.reset(true)
        /\ ageL4' = 0               \* timer_L4.reset(false)
    /\ passTime' = 0
    /\ do_update' = TRUE
    /\ pc' = "check"
    /\ UNCHANGED <<timer_counter, got_data, buffers, interval, overflowed, synced>>

\* I2C, the clock or the SD card does not start: while(1){delay(1000);}
SetupInterrupted ==
    /\ pc = "setup"
    /\ pc' = "halted"
    /\ UNCHANGED <<clocks, weather, buffers, interval, overflowed, synced>>

Halted ==
    /\ pc = "halted"
    /\ UNCHANGED vars

Init ==
    /\ pc = "setup"
    /\ passTime = 0
    /\ ageHW = 0
    /\ ageL1 = 0
    /\ ageL3 = 0
    /\ ageL4 = 0
    /\ do_update = FALSE
    /\ got_data = FALSE
    /\ timer_counter = 0
    /\ num_fine = 0
    /\ num_meteo = 0
    /\ slots = Unused
    /\ interval = "none"
    /\ overflowed = FALSE
    /\ synced = FALSE

Loop ==
    \/ UpdateIdle \/ UpdateTimer \/ UpdateClear
    \/ L1Wait \/ L1Collect \/ L1Overflow
    \/ L2Wait \/ L2Collect
    \/ L3Wait \/ L3Write
    \/ L4Wait

Next ==
    \/ Pass \/ intTimer
    \/ Loop
    \/ L4Restart \/ Setup \/ SetupInterrupted \/ Halted

Spec == Init /\ [][Next]_vars

-----------------------------------------------------------------------------
\* Types; the counters stay within the buffers they index.
TypeOK ==
    /\ pc \in LoopPoints \cup {"setup", "halted"}
    /\ passTime \in 0 .. MaxPass
    /\ ageHW \in 0 .. Second - 1
    /\ ageL1 \in Nat /\ ageL3 \in Nat /\ ageL4 \in Nat
    /\ do_update \in BOOLEAN /\ got_data \in BOOLEAN
    /\ overflowed \in BOOLEAN /\ synced \in BOOLEAN
    /\ timer_counter \in 0 .. Period - 1
    /\ num_fine \in 0 .. FineBuf
    /\ num_meteo \in 0 .. MeteoBuf
    /\ slots \in [Slots -> Record]
    /\ interval \in {"none", "new", "recorded"}

\* The buffer of fine samples is never full when fine_data_collect runs: the
\* branch commented "should not happen" in fine_data_collect is dead.
FineNeverFull == pc = "L1" /\ Due(ageL1, Second) => num_fine < FineBuf

\* The buffer of records is never full when meteo_data_collect runs: the
\* branch commented "should not happen" in meteo_data_collect is dead.
MeteoNeverFull == pc = "L2" /\ got_data => num_meteo < MeteoBuf

\* An interrupt never finds _do_update raised by the previous one, nor is
\* about to be erased by the clear in weather.update(): every second since
\* the first pass of the loop is counted.
NoTickLost == [][synced /\ intTimer => ~do_update]_vars

\* The wind and rain of an interval are in some record before the weather
\* station can publish the next interval over them.
IntervalRecorded == pc = "check" => interval # "new"

\* The records waiting for the card are exactly those below the counter: a
\* row is appended at most once and none is overwritten before its append.
PendingBuffered == \A i \in Slots : slots[i].fate = "pending" <=> i < num_meteo

\* No record averages zero samples, which would write NaN to the file.
NoEmptyRecord == \A i \in Slots : ~slots[i].empty

\* Every buffered record carries the wind and rain of an interval of its own:
\* rain is neither counted twice nor inherited from an older record.
OwnWind == \A i \in Slots : i < num_meteo => slots[i].wind = "own"

\* Only an overflow of the fine buffer can spoil the wind and rain of a record.
OnlyOverflowSpoils == overflowed \/ OwnWind

\* The daily reboot comes right after a write and loses at most the one record built
\* since, with one exception: timer_L3 is tested before timer_L4, and when both
\* become due between the two tests the reboot comes first.  Then all that was
\* collected since the last write is lost, the records of one interval of
\* timer_L3 and one more.
DueInThisPass(age, period) == age - period \in 0 .. passTime

RebootAfterWrite ==
    pc = "L4" /\ Due(ageL4, L4) =>
        /\ num_meteo <= 1 \/ (DueInThisPass(ageL3, L3) /\ DueInThisPass(ageL4, L4))
        /\ (num_meteo - 1) * (Period * Second) < L3 + 3 * Second
=============================================================================
