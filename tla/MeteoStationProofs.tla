------------------------- MODULE MeteoStationProofs -------------------------
(***************************************************************************)
(* Theorems about MeteoStation, for every value of its constants.          *)
(*                                                                         *)
(* TypeCorrect, the three theorems after it and NoRecordEmpty hold for     *)
(* every speed of the loop.  The timing theorems assume ShortPasses, that  *)
(* one pass of the loop takes less than a second, and buffers with a       *)
(* little room.  The last part is about the counters and the vane of       *)
(* WeatherMeters, which the data path reads.                               *)
(***************************************************************************)
EXTENDS MeteoStation, WeatherMeters, TLAPS

\* A timer of class Every that fires keeps a drift smaller than its interval.
LEMMA RealignedBound ==
    ASSUME NEW age \in Nat, NEW period \in Nat \ {0}
    PROVE  /\ Realigned(age, period) \in Nat
           /\ Realigned(age, period) < period
    BY DEF Realigned

\* Appending rows changes nothing but their fate.
LEMMA AppendedType ==
    ASSUME slots \in [Slots -> Record], NEW n \in Nat, NEW fails
    PROVE  /\ Appended(n, fails) \in [Slots -> Record]
           /\ \A i \in Slots : /\ Appended(n, fails)[i].wind = slots[i].wind
                               /\ i < n => Appended(n, fails)[i].fate # "pending"
                               /\ i >= n => Appended(n, fails)[i] = slots[i]
    <1>1. ASSUME NEW i \in Slots
          PROVE  /\ Appended(n, fails)[i] \in Record
                 /\ Appended(n, fails)[i].wind = slots[i].wind
                 /\ i < n => Appended(n, fails)[i].fate # "pending"
                 /\ i >= n => Appended(n, fails)[i] = slots[i]
        <2>1. slots[i] \in Record
            OBVIOUS
        <2>2. CASE i < n
            BY <2>1, <2>2 DEF Appended, Record, Fates, Slots
        <2>3. CASE ~(i < n)
            BY <2>1, <2>3 DEF Appended, Slots
        <2> QED
            BY <2>2, <2>3
    <1>2. Appended(n, fails) \in [Slots -> Record]
        BY <1>1 DEF Appended
    <1> QED
        BY <1>1, <1>2

\* The flags of TypeOK, apart from the rest: no arithmetic.
Flags ==
    /\ do_update \in BOOLEAN /\ got_data \in BOOLEAN
    /\ overflowed \in BOOLEAN /\ synced \in BOOLEAN

\* What meteo_data_write does to the buffer.
LEMMA WriteEffect ==
    ASSUME TypeOK, meteo_data_write, PendingBuffered
    PROVE  /\ slots' \in [Slots -> Record]
           /\ num_meteo' = 0
           /\ PendingBuffered'
           /\ OwnWind'
    <1>1. PICK fails \in SUBSET Slots : slots' = Appended(num_meteo, fails)
        BY DEF meteo_data_write
    <1>2. /\ slots' \in [Slots -> Record]
          /\ \A i \in Slots : /\ i < num_meteo => slots'[i].fate # "pending"
                              /\ i >= num_meteo => slots'[i] = slots[i]
        BY <1>1, AppendedType DEF TypeOK
    <1>3. num_meteo' = 0
        BY DEF meteo_data_write
    <1>4. PendingBuffered'
        BY <1>2, <1>3 DEF PendingBuffered, TypeOK, Slots
    <1> QED
        BY <1>2, <1>3, <1>4 DEF OwnWind, Slots

\* What meteo_data_collect does to the buffer: it writes inside the buffer,
\* and a record built from a new interval keeps every record its own wind.
LEMMA CollectEffect ==
    ASSUME ConstantsAssumption, TypeOK, meteo_data_collect, PendingBuffered
    PROVE  /\ slots' \in [Slots -> Record]
           /\ num_meteo' \in 1 .. MeteoBuf
           /\ num_meteo' <= num_meteo + 1
           /\ interval' = IF got_data THEN "recorded" ELSE interval
           /\ PendingBuffered'
           /\ got_data /\ interval = "new" /\ OwnWind => OwnWind'
    <1> DEFINE full == num_meteo >= MeteoBuf
               n == IF full THEN 0 ELSE num_meteo
    <1>1. PICK fails \in SUBSET Slots :
            LET before == IF full THEN Appended(num_meteo, fails) ELSE slots
            IN  slots' = [before EXCEPT ![n] =
                    [wind |-> WindOf(@), empty |-> num_fine = 0, fate |-> "pending"]]
        BY DEF meteo_data_collect
    <1>2. /\ num_meteo' = n + 1
          /\ interval' = IF got_data THEN "recorded" ELSE interval
        BY DEF meteo_data_collect
    <1>3. n \in Slots /\ n <= num_meteo /\ MeteoBuf \in Nat /\ num_meteo \in Nat
        BY DEF ConstantsAssumption, TypeOK, Slots
    <1> DEFINE before == IF full THEN Appended(num_meteo, fails) ELSE slots
               new == [wind |-> WindOf(before[n]), empty |-> num_fine = 0, fate |-> "pending"]
    <1>4. /\ before \in [Slots -> Record]
          /\ \A i \in Slots : before[i].fate = "pending" <=> i < n
          /\ \A i \in Slots : i < n => before[i] = slots[i]
        <2>1. CASE full
            <3>1. \A i \in Slots : i < num_meteo
                BY <2>1, <1>3 DEF Slots
            <3> QED
                BY <3>1, <2>1, <1>3, AppendedType DEF TypeOK, Slots
        <2>2. CASE ~full
            BY <2>2 DEF PendingBuffered, TypeOK
        <2> QED
            BY <2>1, <2>2
    <1>5. slots' = [before EXCEPT ![n] = new]
        BY <1>1
    <1>6. new \in Record
        <2>1. WindOf(before[n]) \in Winds
            BY DEF WindOf, Winds
        <2> QED
            BY <2>1 DEF Record, Fates
    <1> HIDE DEF before, new, n
    <1>7. slots' \in [Slots -> Record]
        BY <1>4, <1>5, <1>6
    <1>8. slots'[n] = new /\ \A i \in Slots : i # n => slots'[i] = before[i]
        BY <1>3, <1>4, <1>5
    <1>9. PendingBuffered'
        <2>1. new.fate = "pending"
            BY DEF new
        <2> QED
            BY <1>2, <1>3, <1>4, <1>8, <2>1 DEF PendingBuffered, Slots
    <1>10. ASSUME got_data, interval = "new", OwnWind
           PROVE  OwnWind'
        <2>1. new.wind = "own"
            BY <1>10 DEF new, WindOf
        <2>2. \A i \in Slots : i < n => slots'[i].wind = "own"
            BY <1>3, <1>4, <1>8, <1>10 DEF OwnWind, Slots
        <2> QED
            BY <1>2, <1>3, <1>8, <2>1, <2>2 DEF OwnWind, Slots
    <1>11. num_meteo' \in 1 .. MeteoBuf /\ num_meteo' <= num_meteo + 1
        BY <1>2, <1>3 DEF Slots
    <1> QED
        BY <1>2, <1>7, <1>9, <1>10, <1>11

-----------------------------------------------------------------------------
\* Where in the loop a weather interval waits to be recorded.
IntervalFlow ==
    /\ pc \in {"check", "L3", "L4", "setup", "halted"} => ~got_data
    /\ interval = "new" => got_data
    /\ got_data => interval = "new" \/ overflowed

\* The inductive invariant of the data path; it does not speak of time.
DataInv ==
    /\ TypeOK
    /\ PendingBuffered
    /\ IntervalFlow
    /\ OnlyOverflowSpoils

LEMMA DataInvInit == Init => DataInv
    <1> SUFFICES ASSUME Init PROVE DataInv
        OBVIOUS
    <1> USE ConstantsAssumption
    <1>1. \A i \in Slots : slots[i] = MeteoData
        BY DEF Init, Unused
    <1>2. MeteoData \in Record
        BY DEF MeteoData, Record, Winds, Fates
    <1>3. TypeOK
        <2>1. Flags
            BY DEF Init, Flags
        <2> QED
            BY <1>2, <2>1 DEF Init, TypeOK, Flags, Unused, LoopPoints, ConstantsAssumption
    <1>4. PendingBuffered
        BY <1>1 DEF PendingBuffered, MeteoData, Init, Slots
    <1>5. OnlyOverflowSpoils
        BY DEF OnlyOverflowSpoils, OwnWind, Init, Slots
    <1> QED
        BY <1>3, <1>4, <1>5 DEF DataInv, IntervalFlow, Init

LEMMA DataInvNext == DataInv /\ [Next]_vars => DataInv'
    <1> SUFFICES ASSUME DataInv, [Next]_vars
                 PROVE  DataInv'
        OBVIOUS
    <1> USE ConstantsAssumption DEF ConstantsAssumption
    <1>0. TypeOK /\ PendingBuffered /\ IntervalFlow /\ OnlyOverflowSpoils
        BY DEF DataInv
    <1> DEFINE Quiet == UNCHANGED buffers
    <1>q. ASSUME Quiet, TypeOK', IntervalFlow', overflowed' = overflowed
          PROVE  DataInv'
        BY <1>0, <1>q DEF DataInv, buffers, PendingBuffered, OnlyOverflowSpoils, OwnWind
    <1>1. CASE Pass
        BY <1>0, <1>1, <1>q DEF Pass, Elapse, TypeOK, IntervalFlow, buffers, LoopPoints
    <1>2. CASE intTimer
        BY <1>0, <1>2, <1>q DEF intTimer, Elapse, TypeOK, IntervalFlow, buffers, LoopPoints
    <1>3. CASE UpdateIdle
        BY <1>0, <1>3, <1>q DEF UpdateIdle, TypeOK, IntervalFlow, buffers, weather, LoopPoints
    <1>4. CASE UpdateTimer
        <2>1. Flags'
            BY <1>0, <1>4 DEF UpdateTimer, Flags, TypeOK
        <2>2. IntervalFlow'
            BY <1>0, <1>4 DEF UpdateTimer, IntervalFlow
        <2>3. TypeOK'
            BY <1>0, <1>4, <2>1 DEF UpdateTimer, TypeOK, Flags, buffers, clocks, LoopPoints
        <2> QED
            BY <1>4, <1>q, <2>2, <2>3 DEF UpdateTimer
    <1>5. CASE UpdateClear
        <2>1. Flags'
            BY <1>0, <1>5 DEF UpdateClear, Flags, TypeOK
        <2>2. IntervalFlow'
            BY <1>0, <1>5 DEF UpdateClear, IntervalFlow
        <2>3. TypeOK'
            BY <1>0, <1>5, <2>1 DEF UpdateClear, TypeOK, Flags, buffers, LoopPoints
        <2> QED
            BY <1>5, <1>q, <2>2, <2>3 DEF UpdateClear
    <1>6. CASE L1Wait
        BY <1>0, <1>6, <1>q DEF L1Wait, TypeOK, IntervalFlow, buffers, weather, clocks, LoopPoints
    <1>7. CASE L1Collect
        <2>1. ageL1' \in Nat
            BY <1>0, <1>7, RealignedBound DEF L1Collect, TypeOK
        <2>2. TypeOK'
            BY <1>0, <1>7, <2>1 DEF L1Collect, TypeOK, weather, LoopPoints
        <2>3. IntervalFlow'
            BY <1>0, <1>7 DEF L1Collect, IntervalFlow, weather
        <2> QED
            BY <1>0, <1>7, <2>2, <2>3
            DEF L1Collect, DataInv, PendingBuffered, OnlyOverflowSpoils, OwnWind
    <1>8. CASE L1Overflow
        <2>1. ageL1' \in Nat
            BY <1>0, <1>8, RealignedBound DEF L1Overflow, TypeOK
        <2>2. /\ slots' \in [Slots -> Record]
              /\ num_meteo' \in 1 .. MeteoBuf
              /\ interval' = IF got_data THEN "recorded" ELSE interval
              /\ PendingBuffered'
            BY <1>0, <1>8, CollectEffect DEF L1Overflow
        <2>3. TypeOK'
            BY <1>0, <1>8, <2>1, <2>2 DEF L1Overflow, TypeOK, weather, LoopPoints
        <2>4. IntervalFlow'
            BY <1>0, <1>8, <2>2 DEF L1Overflow, IntervalFlow, weather
        <2> QED
            BY <1>8, <2>2, <2>3, <2>4 DEF L1Overflow, DataInv, OnlyOverflowSpoils
    <1>9. CASE L2Wait
        BY <1>0, <1>9, <1>q DEF L2Wait, TypeOK, IntervalFlow, buffers, weather, clocks, LoopPoints
    <1>10. CASE L2Collect
        <2>1. /\ slots' \in [Slots -> Record]
              /\ num_meteo' \in 1 .. MeteoBuf
              /\ interval' = "recorded"
              /\ PendingBuffered'
              /\ interval = "new" /\ OwnWind => OwnWind'
            BY <1>0, <1>10, CollectEffect DEF L2Collect
        <2>2. TypeOK'
            <3>1. Flags'
                BY <1>0, <1>10 DEF L2Collect, Flags, TypeOK
            <3> QED
                BY <1>0, <1>10, <2>1, <3>1 DEF L2Collect, TypeOK, Flags, clocks, LoopPoints
        <2>3. IntervalFlow'
            BY <1>0, <1>10, <2>1 DEF L2Collect, IntervalFlow
        <2>4. OnlyOverflowSpoils'
            BY <1>0, <1>10, <2>1 DEF L2Collect, OnlyOverflowSpoils, IntervalFlow
        <2> QED
            BY <2>1, <2>2, <2>3, <2>4 DEF DataInv
    <1>11. CASE L3Wait
        BY <1>0, <1>11, <1>q DEF L3Wait, TypeOK, IntervalFlow, buffers, weather, clocks, LoopPoints
    <1>12. CASE L3Write
        <2>1. ageL3' \in Nat
            BY <1>0, <1>12, RealignedBound DEF L3Write, TypeOK
        <2>2. /\ slots' \in [Slots -> Record]
              /\ num_meteo' = 0
              /\ PendingBuffered'
              /\ OwnWind'
            BY <1>0, <1>12, WriteEffect DEF L3Write
        <2>3. TypeOK'
            BY <1>0, <1>12, <2>1, <2>2 DEF L3Write, TypeOK, weather, LoopPoints
        <2>4. IntervalFlow'
            BY <1>0, <1>12 DEF L3Write, IntervalFlow, weather
        <2> QED
            BY <2>2, <2>3, <2>4 DEF DataInv, OnlyOverflowSpoils
    <1>13. CASE L4Wait
        BY <1>0, <1>13, <1>q DEF L4Wait, TypeOK, IntervalFlow, buffers, weather, clocks, LoopPoints
    <1>14. CASE L4Restart
        <2>1. \A i \in Slots : slots'[i] = MeteoData
            BY <1>14 DEF L4Restart, Unused
        <2>2. MeteoData \in Record
            BY DEF MeteoData, Record, Winds, Fates
        <2>3. slots' \in [Slots -> Record]
            BY <1>14, <2>2 DEF L4Restart, Unused
        <2>4. TypeOK'
            <3>1. Flags'
                BY <1>14 DEF L4Restart, Flags
            <3> QED
                BY <1>0, <1>14, <2>3, <3>1 DEF L4Restart, TypeOK, Flags, clocks
        <2>5. PendingBuffered'
            BY <1>14, <2>1 DEF L4Restart, PendingBuffered, MeteoData, Slots
        <2>6. OnlyOverflowSpoils'
            BY <1>14 DEF L4Restart, OnlyOverflowSpoils, OwnWind, Slots
        <2> QED
            BY <1>14, <2>4, <2>5, <2>6 DEF L4Restart, DataInv, IntervalFlow
    <1>15. CASE Setup
        <2>1. PICK phase \in 0 .. Second - 1, d1 \in 0 .. 1, d3 \in 0 .. 1 :
                /\ ageHW' = phase
                /\ ageL3' = L3 + d3
                /\ ageL1' = Second + d1
                /\ ageL4' = 0
            BY <1>15 DEF Setup
        <2>2. TypeOK'
            BY <1>0, <1>15, <2>1 DEF Setup, TypeOK, buffers, LoopPoints
        <2> QED
            BY <1>0, <1>15, <1>q, <2>2 DEF Setup, IntervalFlow, buffers
    <1>16. CASE SetupInterrupted
        BY <1>0, <1>16, <1>q DEF SetupInterrupted, TypeOK, IntervalFlow, buffers, weather, clocks, LoopPoints
    <1>17. CASE Halted
        BY <1>0, <1>17, <1>q DEF Halted, vars, TypeOK, IntervalFlow, buffers, weather, clocks
    <1>18. CASE UNCHANGED vars
        BY <1>0, <1>18, <1>q DEF vars, TypeOK, IntervalFlow, buffers, weather, clocks
    <1> QED
        BY <1>1, <1>2, <1>3, <1>4, <1>5, <1>6, <1>7, <1>8, <1>9, <1>10, <1>11, <1>12,
           <1>13, <1>14, <1>15, <1>16, <1>17, <1>18 DEF Next, Loop

LEMMA DataInvariant == Spec => []DataInv
    BY DataInvInit, DataInvNext, PTL DEF Spec

\* The counters of both buffers never leave the buffers they index, whatever
\* the loop's speed and however many appends fail.
THEOREM TypeCorrect == Spec => []TypeOK
    <1>1. DataInv => TypeOK
        BY DEF DataInv
    <1> QED
        BY <1>1, DataInvariant, PTL

\* Rows leave the buffer by an append or a reboot, each exactly once.
THEOREM PendingAlwaysBuffered == Spec => []PendingBuffered
    <1>1. DataInv => PendingBuffered
        BY DEF DataInv
    <1> QED
        BY <1>1, DataInvariant, PTL

\* No weather interval is overwritten by the next before a record holds it.
THEOREM EveryIntervalRecorded == Spec => []IntervalRecorded
    <1>1. DataInv => IntervalRecorded
        BY DEF DataInv, IntervalFlow, IntervalRecorded
    <1> QED
        BY <1>1, DataInvariant, PTL

\* Rain counted twice or inherited from an old record has one cause only, a
\* fine buffer that overflowed since boot.
THEOREM SpoiledOnlyByOverflow == Spec => []OnlyOverflowSpoils
    <1>1. DataInv => OnlyOverflowSpoils
        BY DEF DataInv
    <1> QED
        BY <1>1, DataInvariant, PTL
-----------------------------------------------------------------------------
\* The assumptions of the timing theorems.  The sketch has Second = 1 s,
\* Period = 60, FineBuf = 70, L3 = 900 s and MeteoBuf = 20.
ShortPasses == MaxPass < Second
FineRoom == FineBuf >= Period + 3
MeteoRoom == L3 + 4 * Second <= MeteoBuf * (Period * Second)

\* Time since timer_L1 was last due, the samples it owes or has taken since the
\* last record, and the interrupts since the last record.
PhaseOf(age) ==
    IF age < Second THEN age
    ELSE IF age < 2 * Second THEN age - Second ELSE age - 2 * Second
Phase == PhaseOf(ageL1)
Owed(age) == IF age >= Second THEN 1 ELSE 0
Samples == num_fine + Owed(ageL1)
Raised(flag, at) == IF flag /\ at # "clear" THEN 1 ELSE 0
Published(flag) == IF flag THEN Period ELSE 0
Ticks == timer_counter + Raised(do_update, pc) + Published(got_data)

\* 1 when timer_L1 was due more recently than the interrupt struck.
Ahead(age, ageInt) == IF PhaseOf(age) < ageInt THEN 1 ELSE 0

\* A raised flag is younger than the pass.
FlagAge ==
    /\ pc = "clear" => do_update
    /\ synced /\ do_update => ageHW <= passTime

\* Every pass polls timer_L1 and timer_L3 once, so neither is long overdue.
PollAges ==
    /\ pc \in {"L2", "L3", "L4", "check", "clear"} => ageL1 <= Second + 1 + passTime
    /\ pc = "L1" => ageL1 <= Second + 1 + MaxPass + passTime
    /\ pc \in {"L4", "check", "clear"} => ageL3 <= L3 + 1 + passTime
    /\ pc \in {"L1", "L2", "L3"} => ageL3 <= L3 + 1 + MaxPass + passTime

Booting ==
    /\ pc \in {"setup", "halted"} => ~synced /\ num_meteo = 0 /\ timer_counter = 0
    /\ pc \in {"L1", "L2", "L3", "L4"} => synced
    /\ ~synced => num_fine = 0
    /\ got_data => timer_counter = 0
    /\ ~overflowed

\* Samples and interrupts alternate, so their counts stay close.
SamplesFollowTicks ==
    Samples <= Ticks + 1 + Ahead(ageL1, ageHW)

\* Each record stands for Period seconds since timer_L3 last fired.
RecordsFollowTime ==
    pc \in LoopPoints =>
        num_meteo * (Period * Second) + Ticks * Second + ageHW
            <= ageL3 + (Period + 2) * Second

TimeInv ==
    /\ FlagAge
    /\ PollAges
    /\ Booting
    /\ SamplesFollowTicks
    /\ RecordsFollowTime
\* The types of TypeOK as the timing proofs use them.
LEMMA Numbers ==
    ASSUME TypeOK
    PROVE  /\ passTime \in Nat /\ ageHW \in Nat /\ ageL1 \in Nat /\ ageL3 \in Nat
           /\ ageL4 \in Nat /\ timer_counter \in Nat /\ num_fine \in Nat /\ num_meteo \in Nat
           /\ passTime <= MaxPass /\ ageHW < Second /\ timer_counter < Period
           /\ Second \in Nat \ {0} /\ Period \in Nat \ {0} /\ L3 \in Nat \ {0}
           /\ FineBuf \in Nat \ {0} /\ MeteoBuf \in Nat \ {0} /\ MaxPass \in Nat
    BY ConstantsAssumption DEF ConstantsAssumption, TypeOK

\* The counts above are natural numbers in every state, primed or not.
LEMMA CountTypes ==
    /\ \A age \in Nat : Owed(age) \in 0 .. 1
    /\ \A age, ageInt : Ahead(age, ageInt) \in 0 .. 1
    /\ \A flag, at : Raised(flag, at) \in 0 .. 1
    /\ \A flag : Published(flag) \in 0 .. Period
    BY ConstantsAssumption DEF ConstantsAssumption, Owed, Ahead, Raised, Published

LEMMA ProductMonotone ==
    \A a, b, c \in Nat : a <= b => a * c <= b * c
    OBVIOUS

LEMMA TicksPrimed ==
    Ticks' = timer_counter' + Raised(do_update', pc') + Published(got_data')
    BY DEF Ticks

LEMMA PhaseIsDrift ==
    ASSUME TypeOK, ageL1 < 3 * Second
    PROVE  /\ Phase \in Nat /\ Phase < Second
           /\ Realigned(ageL1, Second) = Phase
    BY Numbers DEF Phase, PhaseOf, Realigned

\* timer_L1 never misses three seconds.
LEMMA NotLongOverdue ==
    ASSUME TypeOK, PollAges, ShortPasses, pc \in LoopPoints
    PROVE  ageL1 < 3 * Second
    BY Numbers DEF PollAges, ShortPasses, LoopPoints

LEMMA RoomForSample ==
    ASSUME DataInv, TimeInv, FineRoom, pc = "L1"
    PROVE  Due(ageL1, Second) => num_fine < FineBuf
    <1>1. TypeOK /\ SamplesFollowTicks /\ Booting
        BY DEF DataInv, TimeInv
    <1>2. Ticks <= Period + 1
        BY <1>1, Numbers DEF Ticks, Booting, Raised, Published
    <1>3. Ticks \in Nat
        BY <1>1, Numbers DEF Ticks, Raised, Published
    <1>4. Due(ageL1, Second) => Owed(ageL1) = 1
        BY <1>1, Numbers DEF Due, Owed
    <1>5. Ahead(ageL1, ageHW) \in 0 .. 1
        BY <1>1, Numbers, CountTypes
    <1> QED
        BY <1>1, <1>2, <1>3, <1>4, <1>5, Numbers
        DEF Due, FineRoom, SamplesFollowTicks, Samples

LEMMA RoomForRecord ==
    ASSUME DataInv, TimeInv, ShortPasses, MeteoRoom
    PROVE  MeteoNeverFull
    <1> SUFFICES ASSUME pc = "L2", got_data PROVE num_meteo < MeteoBuf
        BY DEF MeteoNeverFull
    <1> DEFINE L2 == Period * Second
    <1>1. TypeOK /\ RecordsFollowTime /\ PollAges
        BY DEF DataInv, TimeInv
    <1>2. Ticks \in Nat /\ Ticks >= Period
        BY <1>1, Numbers DEF Ticks, Raised, Published
    <1>3. L2 \in Nat \ {0} /\ Ticks * Second >= L2 /\ Ticks * Second \in Nat
        BY <1>1, <1>2, Numbers
    <1>4. (Period + 2) * Second = L2 + 2 * Second
        BY <1>1, Numbers
    <1>5. num_meteo * L2 \in Nat
        BY <1>1, <1>3, Numbers
    <1>6. num_meteo * L2 + Ticks * Second + ageHW <= ageL3 + (Period + 2) * Second
        BY <1>1 DEF RecordsFollowTime, LoopPoints
    <1>7. ageL3 <= L3 + 1 + MaxPass + passTime
        BY <1>1 DEF PollAges
    <1>8. L3 + 4 * Second <= MeteoBuf * L2
        BY DEF MeteoRoom
    <1>9. MeteoBuf * L2 \in Nat
        BY <1>1, <1>3, Numbers
    <1> HIDE DEF L2
    <1>10. num_meteo * L2 < MeteoBuf * L2
        <2> DEFINE a == num_meteo * L2
                   b == Ticks * Second
                   c == (Period + 2) * Second
                   d == MeteoBuf * L2
        <2>1. /\ a \in Nat /\ b \in Nat /\ d \in Nat
              /\ a + b + ageHW <= ageL3 + c
              /\ b >= L2 /\ c = L2 + 2 * Second
              /\ L3 + 4 * Second <= d
            BY <1>3, <1>4, <1>5, <1>6, <1>8, <1>9
        <2> HIDE DEF a, b, c, d
        <2>2. a < d
            BY <1>1, <1>3, <1>7, <2>1, Numbers DEF ShortPasses
        <2> QED
            BY <2>2 DEF a, d
    <1> QED
        BY <1>1, <1>3, <1>10, Numbers
\* No step of a loop with short passes is an overflow.
LEMMA NoOverflow ==
    ASSUME DataInv, TimeInv, FineRoom
    PROVE  ~L1Overflow
    BY RoomForSample, Numbers DEF L1Overflow, DataInv

LEMMA FlagAgeNext ==
    ASSUME DataInv, TimeInv, ShortPasses, [Next]_vars
    PROVE  FlagAge'
    <1>0. TypeOK /\ FlagAge /\ Booting
        BY DEF DataInv, TimeInv
    <1> USE <1>0, Numbers
    <1>1. CASE Pass
        BY <1>1 DEF Pass, Elapse, FlagAge
    <1>2. CASE intTimer
        BY <1>2 DEF intTimer, Elapse, FlagAge
    <1>3. CASE UpdateIdle \/ UpdateTimer \/ UpdateClear
        BY <1>3 DEF UpdateIdle, UpdateTimer, UpdateClear, FlagAge, weather, clocks
    <1>4. CASE L1Wait \/ L1Collect \/ L1Overflow
        BY <1>4 DEF L1Wait, L1Collect, L1Overflow, FlagAge, weather, clocks
    <1>5. CASE L2Wait \/ L2Collect
        BY <1>5 DEF L2Wait, L2Collect, FlagAge, weather, clocks
    <1>6. CASE L3Wait \/ L3Write
        BY <1>6 DEF L3Wait, L3Write, FlagAge, weather, clocks
    <1>7. CASE L4Wait \/ L4Restart
        BY <1>7 DEF L4Wait, L4Restart, FlagAge, weather, clocks
    <1>8. CASE Setup \/ SetupInterrupted
        BY <1>8 DEF Setup, SetupInterrupted, FlagAge, Booting, weather, clocks
    <1>9. CASE Halted \/ UNCHANGED vars
        BY <1>9 DEF Halted, vars, FlagAge, weather, clocks
    <1> QED
        BY <1>1, <1>2, <1>3, <1>4, <1>5, <1>6, <1>7, <1>8, <1>9 DEF Next, Loop

LEMMA PollAgesNext ==
    ASSUME DataInv, TimeInv, [Next]_vars
    PROVE  PollAges'
    <1>0. TypeOK /\ PollAges
        BY DEF DataInv, TimeInv
    <1> USE <1>0, Numbers
    <1>1. CASE Pass \/ intTimer
        BY <1>1 DEF Pass, intTimer, Elapse, PollAges
    <1>3. CASE UpdateIdle \/ UpdateTimer \/ UpdateClear
        BY <1>3 DEF UpdateIdle, UpdateTimer, UpdateClear, PollAges, clocks
    <1>4. CASE L1Wait \/ L1Collect \/ L1Overflow
        <2>1. Realigned(ageL1, Second) < Second /\ Realigned(ageL1, Second) \in Nat
            BY RealignedBound
        <2> QED
            BY <1>4, <2>1 DEF L1Wait, L1Collect, L1Overflow, PollAges, clocks, Due
    <1>5. CASE L2Wait \/ L2Collect
        BY <1>5 DEF L2Wait, L2Collect, PollAges, clocks
    <1>6. CASE L3Wait \/ L3Write
        <2>1. Realigned(ageL3, L3) < L3 /\ Realigned(ageL3, L3) \in Nat
            BY RealignedBound
        <2> QED
            BY <1>6, <2>1 DEF L3Wait, L3Write, PollAges, clocks, Due
    <1>7. CASE L4Wait \/ L4Restart
        BY <1>7 DEF L4Wait, L4Restart, PollAges, clocks
    <1>8. CASE Setup \/ SetupInterrupted
        BY <1>8 DEF Setup, SetupInterrupted, PollAges, clocks
    <1>9. CASE Halted \/ UNCHANGED vars
        BY <1>9 DEF Halted, vars, PollAges, clocks
    <1> QED
        BY <1>1, <1>3, <1>4, <1>5, <1>6, <1>7, <1>8, <1>9 DEF Next, Loop

LEMMA BootingNext ==
    ASSUME DataInv, TimeInv, FineRoom, [Next]_vars
    PROVE  Booting'
    <1>0. TypeOK /\ Booting /\ IntervalFlow /\ ~L1Overflow
        BY NoOverflow DEF DataInv, TimeInv
    <1> USE <1>0
    <1>1. CASE Pass \/ intTimer
        BY <1>1 DEF Pass, intTimer, Elapse, Booting, LoopPoints, buffers
    <1>3. CASE UpdateIdle \/ UpdateTimer \/ UpdateClear
        BY <1>3 DEF UpdateIdle, UpdateTimer, UpdateClear, Booting, weather, buffers, IntervalFlow
    <1>4. CASE L1Wait \/ L1Collect
        BY <1>4 DEF L1Wait, L1Collect, Booting, weather, buffers
    <1>5. CASE L2Wait \/ L2Collect
        BY <1>5 DEF L2Wait, L2Collect, Booting, weather, buffers
    <1>6. CASE L3Wait \/ L3Write
        BY <1>6 DEF L3Wait, L3Write, Booting, weather, buffers
    <1>7. CASE L4Wait \/ L4Restart
        BY <1>7 DEF L4Wait, L4Restart, Booting, weather, buffers
    <1>8. CASE Setup \/ SetupInterrupted
        BY <1>8 DEF Setup, SetupInterrupted, Booting, weather, buffers
    <1>9. CASE Halted \/ UNCHANGED vars
        BY <1>9 DEF Halted, vars, Booting, weather, buffers
    <1> QED
        BY <1>1, <1>3, <1>4, <1>5, <1>6, <1>7, <1>8, <1>9 DEF Next, Loop
\* The pending tick moves from the flag to the counter to the published data.
LEMMA UpdateKeepsTicks ==
    ASSUME TypeOK, IntervalFlow, UpdateIdle \/ UpdateTimer \/ UpdateClear
    PROVE  Ticks' = Ticks
    <1> USE Numbers
    <1>1. CASE UpdateIdle
        BY <1>1 DEF UpdateIdle, Ticks, Raised, weather
    <1>2. CASE UpdateTimer
        BY <1>2 DEF UpdateTimer, Ticks, Raised, Published, IntervalFlow
    <1>3. CASE UpdateClear
        BY <1>3 DEF UpdateClear, Ticks, Raised
    <1> QED
        BY <1>1, <1>2, <1>3

LEMMA SamplesFollowTicksNext ==
    ASSUME DataInv, TimeInv, ShortPasses, FineRoom, [Next]_vars
    PROVE  SamplesFollowTicks'
    <1>0. TypeOK /\ SamplesFollowTicks /\ Booting /\ FlagAge /\ PollAges /\ IntervalFlow /\ ~L1Overflow
        BY NoOverflow DEF DataInv, TimeInv
    <1> USE <1>0, Numbers
    <1>a. /\ ageL1' \in Nat /\ ageHW' \in Nat /\ num_fine' \in Nat /\ timer_counter' \in Nat
        BY DataInvNext DEF DataInv, TypeOK
    <1>b. Ticks \in Nat /\ Samples \in Nat /\ Ahead(ageL1, ageHW) \in 0 .. 1
        BY CountTypes DEF Ticks, Samples
    <1>c. Ticks' \in Nat /\ Samples' \in Nat /\ Ahead(ageL1, ageHW)' \in 0 .. 1
        BY <1>a, CountTypes DEF Ticks, Samples
    <1>d. Samples' <= 1 => SamplesFollowTicks'
        BY <1>c DEF SamplesFollowTicks
    <1>e. pc \in LoopPoints => ageL1 < 3 * Second
        BY NotLongOverdue
    <1>f. Samples <= Ticks + 1 + Ahead(ageL1, ageHW)
        BY DEF SamplesFollowTicks
    <1>1. CASE Pass
        <2>1. Ticks' = Ticks
            BY <1>1 DEF Pass, Elapse, Ticks
        <2>2. ageL1 < 3 * Second /\ ageL1' = ageL1 + 1 /\ ageHW' = ageHW + 1 /\ num_fine' = num_fine
            BY <1>1, <1>e DEF Pass, Elapse, buffers
        <2>3. Owed(ageL1 + 1) + Ahead(ageL1, ageHW) <= Owed(ageL1) + Ahead(ageL1 + 1, ageHW + 1)
            BY <2>2 DEF Owed, Ahead, PhaseOf
        <2>4. Samples' = num_fine + Owed(ageL1 + 1) /\ Ahead(ageL1, ageHW)' = Ahead(ageL1 + 1, ageHW + 1)
            BY <2>2 DEF Samples
        <2> QED
            BY <1>b, <1>c, <1>f, <2>1, <2>3, <2>4, CountTypes DEF SamplesFollowTicks, Samples
    <1>2. CASE intTimer
        <2>1. ageL1 < 3 * Second /\ ageL1' = ageL1 + 1 /\ num_fine' = num_fine /\ ageHW = Second - 1
            BY <1>2, <1>e DEF intTimer, Elapse, buffers
        <2>2. CASE synced
            <3>1. ~do_update
                BY <1>2, <2>1, <2>2 DEF FlagAge, ShortPasses, intTimer, Elapse
            <3>2. Ticks' = Ticks + 1
                <4>1. /\ timer_counter' = timer_counter /\ got_data' = got_data
                      /\ pc' = pc /\ pc # "clear" /\ do_update'
                    BY <1>2, <3>1 DEF intTimer, Elapse, FlagAge
                <4>2. Raised(do_update, pc) = 0 /\ Raised(do_update', pc') = 1
                    BY <3>1, <4>1 DEF Raised
                <4>3. Published(got_data) \in Nat /\ Published(got_data') = Published(got_data)
                    BY <4>1, CountTypes
                <4>4. timer_counter' = timer_counter /\ timer_counter \in Nat
                    BY <4>1
                <4>5. Ticks = timer_counter + Raised(do_update, pc) + Published(got_data)
                    BY DEF Ticks
                <4> QED
                    BY <4>2, <4>3, <4>4, <4>5, TicksPrimed
            <3>3. Owed(ageL1 + 1) + Ahead(ageL1, ageHW) <= Owed(ageL1) + 1
                BY <2>1 DEF Owed, Ahead, PhaseOf
            <3>4. Samples' = num_fine + Owed(ageL1 + 1)
                BY <2>1 DEF Samples
            <3> QED
                BY <1>b, <1>c, <1>f, <3>2, <3>3, <3>4, CountTypes DEF SamplesFollowTicks, Samples
        <2>3. CASE ~synced
            BY <1>a, <1>d, <2>1, <2>3, CountTypes DEF Booting, Samples
        <2> QED
            BY <2>2, <2>3
    <1>3. CASE UpdateIdle \/ UpdateTimer \/ UpdateClear
        <2>1. Ticks' = Ticks
            BY <1>3, UpdateKeepsTicks
        <2>2. ageL1' = ageL1 /\ ageHW' = ageHW /\ num_fine' = num_fine
            BY <1>3 DEF UpdateIdle, UpdateTimer, UpdateClear, clocks, buffers
        <2> QED
            BY <2>1, <2>2 DEF SamplesFollowTicks, Samples
    <1>4. CASE L1Collect
        <2>1. Ticks' = Ticks /\ ageHW' = ageHW /\ num_fine' = num_fine + 1 /\ ageL1 >= Second
            BY <1>4 DEF L1Collect, Ticks, Raised, weather, Due
        <2>2. ageL1' = Phase /\ Phase \in Nat /\ Phase < Second
            BY <1>4, <1>e, PhaseIsDrift DEF L1Collect, LoopPoints
        <2>3. PhaseOf(Phase) = PhaseOf(ageL1) /\ Owed(Phase) = 0 /\ Owed(ageL1) = 1
            BY <2>1, <2>2 DEF Phase, PhaseOf, Owed
        <2>4. Samples' = Samples /\ Ahead(ageL1, ageHW)' = Ahead(ageL1, ageHW)
            BY <2>1, <2>2, <2>3 DEF Samples, Ahead
        <2> QED
            BY <2>1, <2>4 DEF SamplesFollowTicks
    <1>5. CASE L2Collect \/ L4Restart \/ Setup
        <2>1. num_fine' = 0
            BY <1>5 DEF L2Collect, L4Restart, Setup, Booting, buffers
        <2> QED
            BY <1>a, <1>d, <2>1, CountTypes DEF Samples
    <1>6. ASSUME UNCHANGED <<ageL1, ageHW, num_fine, timer_counter, do_update, got_data>>,
                 pc # "clear", pc' # "clear"
          PROVE  SamplesFollowTicks'
        BY <1>6 DEF SamplesFollowTicks, Samples, Ticks, Raised
    <1>7. CASE L1Wait \/ L2Wait \/ L3Wait \/ L3Write \/ L4Wait \/ SetupInterrupted
        BY <1>6, <1>7 DEF L1Wait, L2Wait, L3Wait, L3Write, L4Wait, SetupInterrupted,
            clocks, weather, buffers
    <1>8. CASE Halted \/ UNCHANGED vars
        <2>1. UNCHANGED vars
            BY <1>8 DEF Halted
        <2> QED
            BY <2>1 DEF vars, clocks, weather, buffers, SamplesFollowTicks, Samples, Ticks
    <1> QED
        BY <1>1, <1>2, <1>3, <1>4, <1>5, <1>7, <1>8 DEF Next, Loop

LEMMA RecordsFollowTimeNext ==
    ASSUME DataInv, TimeInv, ShortPasses, FineRoom, [Next]_vars
    PROVE  RecordsFollowTime'
    <1>0. TypeOK /\ RecordsFollowTime /\ Booting /\ ~L1Overflow
        BY NoOverflow DEF DataInv, TimeInv
    <1>1. TypeOK' /\ Booting'
        BY DataInvNext, BootingNext DEF DataInv
    <1>2. Ticks \in Nat /\ Ticks' \in Nat
        <2>1. timer_counter \in Nat /\ timer_counter' \in Nat
            BY <1>0, <1>1, Numbers DEF TypeOK
        <2> QED
            BY <2>1, Numbers, CountTypes DEF Ticks
    <1>3. PICK l2, recorded, rerecorded, tickTime, recounted, slack \in Nat :
            /\ l2 = Period * Second
            /\ recorded = num_meteo * l2 /\ rerecorded = num_meteo' * l2
            /\ tickTime = Ticks * Second /\ recounted = Ticks' * Second
            /\ slack = (Period + 2) * Second
        <2>1. /\ Period \in Nat /\ Second \in Nat
              /\ num_meteo \in Nat /\ num_meteo' \in Nat
            BY <1>0, <1>1, Numbers DEF TypeOK
        <2>2. PICK nticks, reticks \in Nat : nticks = Ticks /\ reticks = Ticks'
            BY <1>2
        <2>3. PICK l2 \in Nat : l2 = Period * Second
            BY <2>1
        <2>4. /\ num_meteo * l2 \in Nat /\ num_meteo' * l2 \in Nat
              /\ nticks * Second \in Nat /\ reticks * Second \in Nat
              /\ (Period + 2) * Second \in Nat
            <3>1. \A a, b \in Nat : a * b \in Nat
                OBVIOUS
            <3>2. Period + 2 \in Nat
                BY <2>1
            <3> QED
                BY <2>1, <2>2, <2>3, <3>1, <3>2
        <2> QED
            BY <2>2, <2>3, <2>4
    <1>4. /\ ageHW \in Nat /\ ageHW < Second /\ ageL3 \in Nat
          /\ ageHW' \in Nat /\ ageHW' < Second /\ ageL3' \in Nat /\ Second \in Nat \ {0}
        BY <1>0, <1>1, Numbers DEF TypeOK
    <1>5. pc \in LoopPoints => recorded + tickTime + ageHW <= ageL3 + slack
        BY <1>0, <1>3 DEF RecordsFollowTime
    <1>6. SUFFICES pc' \in LoopPoints => rerecorded + recounted + ageHW' <= ageL3' + slack
        BY <1>3 DEF RecordsFollowTime
    <1>7. num_meteo' = 0 => rerecorded + recounted + ageHW' <= ageL3' + slack
        <2>1. Ticks' <= Period + 1
            <3>1. timer_counter' \in Nat /\ timer_counter' < Period /\ Period \in Nat
                BY <1>0, <1>1, Numbers DEF TypeOK
            <3>2. got_data' => timer_counter' = 0
                BY <1>1 DEF Booting
            <3>3. Raised(do_update', pc') \in 0 .. 1
                BY CountTypes
            <3>4. CASE got_data'
                <4>1. Published(got_data') = Period /\ timer_counter' = 0
                    BY <3>2, <3>4 DEF Published
                <4> QED
                    BY <3>1, <3>3, <4>1, TicksPrimed
            <3>5. CASE ~got_data'
                <4>1. Published(got_data') = 0
                    BY <3>5 DEF Published
                <4> QED
                    BY <3>1, <3>3, <4>1, TicksPrimed
            <3> QED
                BY <3>4, <3>5
        <2>2. PICK most \in Nat : most = (Period + 1) * Second
            BY <1>4, Numbers, <1>0
        <2>5. most + Second = slack
            BY <1>3, <1>4, <2>2, Numbers, <1>0
        <2>3. recounted <= most
            BY <1>2, <1>3, <1>4, <2>1, <2>2, Numbers, <1>0, ProductMonotone
        <2>4. num_meteo' = 0 => rerecorded = 0
            BY <1>3
        <2> QED
            BY <1>3, <1>4, <2>2, <2>3, <2>4, <2>5
    <1>8. num_meteo' = num_meteo => rerecorded = recorded
        BY <1>3
    <1>9. Ticks' = Ticks => recounted = tickTime
        BY <1>3
    <1>11. Ticks' <= Ticks + 1 => recounted <= tickTime + Second
        <2>1. PICK nticks, reticks \in Nat : nticks = Ticks /\ reticks = Ticks'
            BY <1>2
        <2>2. reticks <= nticks + 1 => reticks * Second <= (nticks + 1) * Second
            BY <1>4, ProductMonotone
        <2>3. (nticks + 1) * Second = nticks * Second + Second
            BY <1>4
        <2>4. tickTime = nticks * Second /\ recounted = reticks * Second
            BY <1>3, <2>1
        <2> QED
            BY <1>4, <2>1, <2>2, <2>3, <2>4
    <1>12. num_meteo' <= num_meteo + 1 => rerecorded <= recorded + l2
        BY <1>0, <1>1, <1>3, Numbers DEF TypeOK
    <1>13. Ticks' = Ticks - Period => recounted = tickTime - l2
        BY <1>2, <1>3, <1>4, <1>0, Numbers
    <1>20. CASE Pass
        <2>1. Ticks' = Ticks /\ num_meteo' = num_meteo
            BY <1>20 DEF Pass, Elapse, Ticks, buffers
        <2> QED
            BY <1>20, <2>1, <1>3, <1>4, <1>5, <1>8, <1>9 DEF Pass, Elapse
    <1>21. CASE intTimer
        <2>1. /\ timer_counter' = timer_counter /\ got_data' = got_data
              /\ num_meteo' = num_meteo
            BY <1>21 DEF intTimer, Elapse, buffers
        <2>2. Ticks' <= Ticks + 1
            <3>1. /\ Raised(do_update, pc) \in 0 .. 1 /\ Raised(do_update', pc') \in 0 .. 1
                  /\ Published(got_data) \in Nat /\ Published(got_data') = Published(got_data)
                BY <2>1, CountTypes, Numbers, <1>0
            <3> QED
                BY <1>0, <2>1, <3>1, Numbers, TicksPrimed DEF Ticks
        <2>3. ageL3' = ageL3 + 1 /\ ageHW' = 0 /\ ageHW + 1 >= Second /\ pc \in LoopPoints
            BY <1>21 DEF intTimer, Elapse
        <2>4. rerecorded = recorded /\ recounted <= tickTime + Second
            BY <2>1, <2>2, <1>8, <1>11
        <2> QED
            BY <2>3, <2>4, <1>3, <1>4, <1>5
    <1>22. CASE UpdateIdle \/ UpdateTimer \/ UpdateClear
        <2>1. Ticks' = Ticks
            BY <1>22, UpdateKeepsTicks DEF DataInv
        <2>2. /\ ageL3' = ageL3 /\ ageHW' = ageHW /\ num_meteo' = num_meteo
              /\ pc \in LoopPoints
            BY <1>22 DEF UpdateIdle, UpdateTimer, UpdateClear, clocks, buffers, LoopPoints
        <2> QED
            BY <2>1, <2>2, <1>5, <1>8, <1>9
    <1>23. CASE L2Collect
        <2>1. num_meteo' <= num_meteo + 1
            BY <1>23, <1>0, ConstantsAssumption, CollectEffect DEF L2Collect, DataInv
        <2>2. Ticks' = Ticks - Period
            <3>1. /\ timer_counter' = timer_counter /\ got_data /\ ~got_data'
                  /\ do_update' = do_update /\ pc # "clear" /\ pc' # "clear"
                BY <1>23 DEF L2Collect
            <3>2. /\ Raised(do_update', pc') = Raised(do_update, pc)
                  /\ Published(got_data) = Period /\ Published(got_data') = 0
                BY <3>1 DEF Raised, Published
            <3>3. /\ timer_counter' = timer_counter /\ timer_counter \in Nat /\ Period \in Nat
                  /\ Raised(do_update, pc) \in Nat
                BY <1>0, <3>1, CountTypes, Numbers
            <3>4. Ticks = timer_counter + Raised(do_update, pc) + Published(got_data)
                BY DEF Ticks
            <3> QED
                BY <3>2, <3>3, <3>4, TicksPrimed
        <2>3. ageL3' = ageL3 /\ ageHW' = ageHW /\ pc \in LoopPoints
            BY <1>23 DEF L2Collect, clocks, LoopPoints
        <2>4. rerecorded <= recorded + l2 /\ recounted = tickTime - l2
            BY <2>1, <2>2, <1>12, <1>13
        <2> QED
            BY <2>3, <2>4, <1>3, <1>4, <1>5
    <1>24. CASE L3Write \/ Setup \/ L4Restart
        <2>1. num_meteo' = 0
            BY <1>0, <1>24 DEF L3Write, Setup, L4Restart, meteo_data_write, Booting, buffers
        <2> QED
            BY <2>1, <1>7
    <1>25. CASE L1Wait \/ L1Collect \/ L2Wait \/ L3Wait \/ L4Wait
        <2>1. /\ UNCHANGED <<ageL3, ageHW, num_meteo, timer_counter, do_update, got_data>>
              /\ pc # "clear" /\ pc' # "clear" /\ pc \in LoopPoints
            BY <1>25 DEF L1Wait, L1Collect, L2Wait, L3Wait, L4Wait, clocks, weather, buffers, LoopPoints
        <2>2. Ticks' = Ticks
            BY <2>1 DEF Ticks, Raised
        <2> QED
            BY <2>1, <2>2, <1>5, <1>8, <1>9
    <1>26. CASE SetupInterrupted
        BY <1>26 DEF SetupInterrupted, LoopPoints
    <1>27. CASE Halted \/ UNCHANGED vars
        <2>1. UNCHANGED vars
            BY <1>27 DEF Halted
        <2> QED
            BY <2>1, <1>3, <1>5 DEF vars, clocks, weather, buffers, Ticks
    <1> QED
        BY <1>0, <1>20, <1>21, <1>22, <1>23, <1>24, <1>25, <1>26, <1>27 DEF Next, Loop

LEMMA TimeInvInit == Init => TimeInv
    <1> SUFFICES ASSUME Init PROVE TimeInv
        OBVIOUS
    <1>1. TypeOK
        BY DataInvInit DEF DataInv
    <1>2. FlagAge /\ PollAges /\ RecordsFollowTime
        BY DEF Init, FlagAge, PollAges, RecordsFollowTime, LoopPoints
    <1>3. Booting
        BY DEF Init, Booting
    <1>4. SamplesFollowTicks
        <2>1. Samples \in 0 .. 1 /\ Ticks \in Nat /\ Ahead(ageL1, ageHW) \in 0 .. 1
            BY <1>1, Numbers, CountTypes DEF Init, Samples, Ticks
        <2> QED
            BY <2>1 DEF SamplesFollowTicks
    <1> QED
        BY <1>2, <1>3, <1>4 DEF TimeInv

LEMMA TimeInvNext ==
    ASSUME ShortPasses, FineRoom
    PROVE  DataInv /\ TimeInv /\ [Next]_vars => TimeInv'
    BY FlagAgeNext, PollAgesNext, BootingNext, SamplesFollowTicksNext, RecordsFollowTimeNext
    DEF TimeInv

LEMMA TimeInvariant ==
    ASSUME ShortPasses, FineRoom
    PROVE  Spec => [](DataInv /\ TimeInv)
    BY DataInvInit, DataInvNext, TimeInvInit, TimeInvNext, PTL DEF Spec

\* While every pass is shorter than a second, no interrupt is lost: the flag
\* has been seen and cleared before the next one raises it.
THEOREM EveryTickCounted ==
    ASSUME ShortPasses, FineRoom
    PROVE  Spec => NoTickLost
    <1>1. DataInv /\ TimeInv /\ [Next]_vars => [synced /\ intTimer => ~do_update]_vars
        <2> SUFFICES ASSUME DataInv, TimeInv, synced, intTimer PROVE ~do_update
            OBVIOUS
        <2> QED
            BY Numbers DEF DataInv, TimeInv, FlagAge, ShortPasses, intTimer, Elapse
    <1> QED
        BY <1>1, TimeInvariant, PTL DEF Spec, NoTickLost

\* Three samples more than a weather interval are room enough: the first
\* branch of fine_data_collect is dead.
THEOREM FineBufferSuffices ==
    ASSUME ShortPasses, FineRoom
    PROVE  Spec => []FineNeverFull
    <1>1. DataInv /\ TimeInv => FineNeverFull
        BY RoomForSample DEF FineNeverFull
    <1> QED
        BY <1>1, TimeInvariant, PTL

\* Intervals for L3 and four seconds are room enough: the first branch of
\* meteo_data_collect is dead.
THEOREM MeteoBufferSuffices ==
    ASSUME ShortPasses, FineRoom, MeteoRoom
    PROVE  Spec => []MeteoNeverFull
    <1>1. DataInv /\ TimeInv => MeteoNeverFull
        BY RoomForRecord
    <1> QED
        BY <1>1, TimeInvariant, PTL

\* Hence no rain is written twice and none is taken from an older record.
THEOREM EveryRecordOwnWind ==
    ASSUME ShortPasses, FineRoom
    PROVE  Spec => []OwnWind
    <1>1. DataInv /\ TimeInv => OwnWind
        BY DEF DataInv, TimeInv, Booting, OnlyOverflowSpoils
    <1> QED
        BY <1>1, TimeInvariant, PTL
-----------------------------------------------------------------------------
\* No record averages zero samples, whatever the speed of the loop.  Of the
\* interrupts counted in an interval the first may have struck before timer_L1
\* was polled for the last record, all others struck after it, Second apart.
\* With three of them timer_L1 has been due since, also if passes of several
\* seconds have lost interrupts and samples.
SampleInv ==
    /\ num_fine = 0 => Ticks * Second + ageHW <= ageL1 + 2 * Second
    /\ got_data \/ pc \in {"setup", "halted"} => timer_counter = 0
    /\ pc = "L2" /\ got_data => num_fine > 0
    /\ NoEmptyRecord

LEMMA AppendedEmpty ==
    ASSUME slots \in [Slots -> Record], NEW n \in Nat, NEW fails, NEW i \in Slots
    PROVE  Appended(n, fails)[i].empty = slots[i].empty
    <1>1. slots[i] \in Record
        OBVIOUS
    <1>2. CASE i < n
        BY <1>1, <1>2 DEF Appended, Record
    <1>3. CASE ~(i < n)
        BY <1>3 DEF Appended
    <1> QED
        BY <1>2, <1>3

\* A record built from samples is not empty.
LEMMA CollectNotEmpty ==
    ASSUME TypeOK, meteo_data_collect, num_fine > 0, NoEmptyRecord
    PROVE  NoEmptyRecord'
    <1> DEFINE full == num_meteo >= MeteoBuf
               n == IF full THEN 0 ELSE num_meteo
    <1>1. PICK fails \in SUBSET Slots :
            LET before == IF full THEN Appended(num_meteo, fails) ELSE slots
            IN  slots' = [before EXCEPT ![n] =
                    [wind |-> WindOf(@), empty |-> num_fine = 0, fate |-> "pending"]]
        BY DEF meteo_data_collect
    <1> DEFINE before == IF full THEN Appended(num_meteo, fails) ELSE slots
               new == [wind |-> WindOf(before[n]), empty |-> num_fine = 0, fate |-> "pending"]
    <1>2. slots \in [Slots -> Record] /\ num_meteo \in Nat
        BY Numbers DEF TypeOK
    <1>3. before \in [Slots -> Record]
        BY <1>2, AppendedType
    <1>4. \A i \in Slots : ~before[i].empty
        BY <1>2, AppendedEmpty DEF NoEmptyRecord
    <1>5. slots' = [before EXCEPT ![n] = new]
        BY <1>1
    <1>6. ~new.empty
        <2>1. num_fine # 0
            BY Numbers
        <2> QED
            BY <2>1
    <1> HIDE DEF before, new, n
    <1>7. \A i \in Slots : slots'[i] = before[i] \/ slots'[i] = new
        BY <1>3, <1>5
    <1> QED
        BY <1>4, <1>6, <1>7 DEF NoEmptyRecord

LEMMA SampleInvInit == ASSUME Init PROVE SampleInv
    <1>1. TypeOK
        BY DataInvInit DEF DataInv
    <1>2. Ticks = 0
        BY DEF Init, Ticks, Raised, Published
    <1>3. Ticks * Second + ageHW <= ageL1 + 2 * Second
        BY <1>1, <1>2, Numbers DEF Init
    <1>4. NoEmptyRecord
        BY DEF Init, NoEmptyRecord, Unused, MeteoData
    <1> QED
        BY <1>3, <1>4 DEF SampleInv, Init

\* A step that starts a new record or has a sample keeps the first conjunct.
SamplesInTime == num_fine = 0 => Ticks * Second + ageHW <= ageL1 + 2 * Second

LEMMA FewTicksInTime ==
    ASSUME NEW nticks \in 0 .. 1, NEW hw \in Nat, NEW age \in Nat, hw < Second
    PROVE  nticks * Second + hw <= age + 2 * Second
    <1>1. Second \in Nat
        BY ConstantsAssumption DEF ConstantsAssumption
    <1>2. nticks = 0 \/ nticks = 1
        OBVIOUS
    <1> QED
        BY <1>1, <1>2

LEMMA SamplesInTimeNext ==
    ASSUME DataInv, SampleInv, [Next]_vars
    PROVE  SamplesInTime'
    <1>0. TypeOK /\ IntervalFlow /\ SamplesInTime /\ (got_data \/ pc \in {"setup", "halted"} => timer_counter = 0)
        BY DEF DataInv, SampleInv, SamplesInTime
    <1>a. TypeOK'
        BY DataInvNext DEF DataInv
    <1>b. /\ ageL1' \in Nat /\ ageHW' \in Nat /\ num_fine' \in Nat /\ ageHW' < Second
          /\ Second \in Nat \ {0} /\ ageL1 \in Nat /\ ageHW \in Nat /\ num_fine \in Nat
        BY <1>0, <1>a, Numbers DEF TypeOK
    <1>c. Ticks \in Nat /\ Ticks' \in Nat
        BY <1>0, <1>a, CountTypes, Numbers, TicksPrimed DEF Ticks, TypeOK
    <1>d. num_fine' > 0 => SamplesInTime'
        BY <1>b DEF SamplesInTime
    <1>e. Ticks' \in 0 .. 1 => SamplesInTime'
        BY <1>b, FewTicksInTime DEF SamplesInTime
    <1>f. UNCHANGED <<ageHW, ageL1, num_fine>> /\ Ticks' = Ticks => SamplesInTime'
        BY <1>0 DEF SamplesInTime
    <1>1. CASE Pass
        <2>1. Ticks' = Ticks
            BY <1>1 DEF Pass, Elapse, Ticks
        <2>2. ageL1' = ageL1 + 1 /\ ageHW' = ageHW + 1 /\ num_fine' = num_fine
            BY <1>1 DEF Pass, Elapse, buffers
        <2>3. PICK tickTime \in Nat : tickTime = Ticks * Second
            BY <1>b, <1>c
        <2> QED
            BY <1>0, <1>b, <2>1, <2>2, <2>3 DEF SamplesInTime
    <1>2. CASE intTimer
        <2>1. /\ timer_counter' = timer_counter /\ got_data' = got_data
              /\ num_fine' = num_fine /\ ageL1' = ageL1 + 1
              /\ ageHW' = 0 /\ ageHW + 1 >= Second
            BY <1>2 DEF intTimer, Elapse, buffers
        <2>2. Ticks' <= Ticks + 1
            <3>1. /\ Raised(do_update, pc) \in 0 .. 1 /\ Raised(do_update', pc') \in 0 .. 1
                  /\ Published(got_data) \in Nat /\ Published(got_data') = Published(got_data)
                BY <2>1, CountTypes, Numbers, <1>0
            <3> QED
                BY <1>0, <2>1, <3>1, Numbers, TicksPrimed DEF Ticks
        <2>3. PICK nticks, reticks \in Nat : nticks = Ticks /\ reticks = Ticks'
            BY <1>c
        <2>4. reticks * Second <= (nticks + 1) * Second
            <3>1. nticks + 1 \in Nat /\ reticks <= nticks + 1
                BY <2>2, <2>3
            <3> QED
                BY <1>b, <3>1, ProductMonotone
        <2>5. (nticks + 1) * Second = nticks * Second + Second
            BY <1>b
        <2>6. nticks * Second \in Nat /\ reticks * Second \in Nat
            BY <1>b
        <2>7. num_fine = 0 => nticks * Second + ageHW <= ageL1 + 2 * Second
            BY <1>0, <2>3 DEF SamplesInTime
        <2>8. num_fine' = 0 => reticks * Second + ageHW' <= ageL1' + 2 * Second
            BY <1>b, <2>1, <2>4, <2>5, <2>6, <2>7
        <2> QED
            BY <2>3, <2>8 DEF SamplesInTime
    <1>3. CASE UpdateIdle \/ UpdateTimer \/ UpdateClear
        <2>1. Ticks' = Ticks
            BY <1>0, <1>3, UpdateKeepsTicks
        <2>2. UNCHANGED <<ageHW, ageL1, num_fine>>
            BY <1>3 DEF UpdateIdle, UpdateTimer, UpdateClear, clocks, buffers
        <2> QED
            BY <2>1, <2>2, <1>f
    <1>4. CASE L1Collect \/ L1Overflow
        BY <1>4, <1>b, <1>d DEF L1Collect, L1Overflow
    <1>5. CASE L2Collect
        <2>1. timer_counter' = 0 /\ ~got_data'
            BY <1>0, <1>5 DEF L2Collect
        <2>2. Published(got_data') = 0 /\ Raised(do_update', pc') \in 0 .. 1
            BY <2>1, CountTypes DEF Published
        <2> QED
            BY <2>1, <2>2, <1>e, TicksPrimed
    <1>6. CASE L4Restart \/ Setup
        <2>1. timer_counter' = 0 /\ ~got_data'
            BY <1>0, <1>6 DEF L4Restart, Setup, IntervalFlow
        <2>2. Published(got_data') = 0 /\ Raised(do_update', pc') \in 0 .. 1
            BY <2>1, CountTypes DEF Published
        <2> QED
            BY <2>1, <2>2, <1>e, TicksPrimed
    <1>7. CASE L1Wait \/ L2Wait \/ L3Wait \/ L3Write \/ L4Wait
        <2>1. /\ UNCHANGED <<ageHW, ageL1, num_fine, timer_counter, do_update, got_data>>
              /\ pc # "clear" /\ pc' # "clear"
            BY <1>7 DEF L1Wait, L2Wait, L3Wait, L3Write, L4Wait, clocks, weather, buffers
        <2>2. Ticks' = Ticks
            BY <2>1 DEF Ticks, Raised
        <2> QED
            BY <2>1, <2>2, <1>f
    <1>8. CASE SetupInterrupted
        <2>1. UNCHANGED <<ageHW, ageL1, num_fine, timer_counter, do_update, got_data>>
            BY <1>8 DEF SetupInterrupted, clocks, weather, buffers
        <2>2. pc = "setup" /\ pc' = "halted"
            BY <1>8 DEF SetupInterrupted
        <2>3. Ticks' = Ticks
            BY <2>1, <2>2 DEF Ticks, Raised
        <2> QED
            BY <2>1, <2>3, <1>f
    <1>9. CASE Halted \/ UNCHANGED vars
        <2>1. UNCHANGED vars
            BY <1>9 DEF Halted
        <2> QED
            BY <2>1, <1>f DEF vars, clocks, weather, buffers, Ticks
    <1> QED
        BY <1>1, <1>2, <1>3, <1>4, <1>5, <1>6, <1>7, <1>8, <1>9 DEF Next, Loop

LEMMA TicksPublished ==
    ASSUME TypeOK, Period >= 3, Published(got_data) = Period
    PROVE  Ticks \in Nat /\ 3 <= Ticks
    <1>1. Raised(do_update, pc) \in Nat
        BY CountTypes
    <1> QED
        BY <1>1, Numbers DEF Ticks

\* L1 takes a sample at the latest in the pass that counts the third interrupt.
LEMMA SampleAtRecord ==
    ASSUME TypeOK, SampleInv, Period >= 3, pc = "L1", got_data, ~Due(ageL1, Second)
    PROVE  num_fine > 0
    <1> SUFFICES ASSUME num_fine = 0 PROVE FALSE
        BY Numbers
    <1>1. Ticks * Second + ageHW <= ageL1 + 2 * Second
        BY DEF SampleInv
    <1>2. Published(got_data) = Period
        BY DEF Published
    <1>3. Ticks \in Nat /\ 3 <= Ticks
        BY <1>2, TicksPublished
    <1>4. 3 * Second <= Ticks * Second /\ Ticks * Second \in Nat
        <2>1. PICK t \in Nat : t = Ticks /\ 3 <= t
            BY <1>3
        <2>2. 3 * Second <= t * Second /\ t * Second \in Nat
            BY <2>1, Numbers, ProductMonotone
        <2> QED
            BY <2>1, <2>2
    <1>5. ageL1 < Second
        BY Numbers DEF Due
    <1> QED
        BY <1>1, <1>4, <1>5, Numbers

LEMMA SampleInvNext ==
    ASSUME Period >= 3, DataInv, SampleInv, [Next]_vars
    PROVE  SampleInv'
    <1>0. /\ TypeOK /\ IntervalFlow /\ NoEmptyRecord
          /\ got_data \/ pc \in {"setup", "halted"} => timer_counter = 0
          /\ pc = "L2" /\ got_data => num_fine > 0
        BY DEF DataInv, SampleInv
    <1>1. num_fine' = 0 => (Ticks * Second + ageHW <= ageL1 + 2 * Second)'
        BY SamplesInTimeNext DEF SamplesInTime
    <1>2. got_data' \/ pc' \in {"setup", "halted"} => timer_counter' = 0
        <2>1. CASE Pass \/ intTimer
            BY <1>0, <2>1 DEF Pass, intTimer, Elapse
        <2>2. CASE UpdateIdle \/ UpdateTimer \/ UpdateClear
            BY <1>0, <2>2 DEF UpdateIdle, UpdateTimer, UpdateClear, weather, IntervalFlow
        <2>3. CASE L1Wait \/ L1Collect \/ L1Overflow \/ L2Wait \/ L2Collect
            BY <1>0, <2>3 DEF L1Wait, L1Collect, L1Overflow, L2Wait, L2Collect, weather
        <2>4. CASE L3Wait \/ L3Write \/ L4Wait \/ L4Restart
            BY <1>0, <2>4 DEF L3Wait, L3Write, L4Wait, L4Restart, weather
        <2>5. CASE Setup \/ SetupInterrupted
            BY <1>0, <2>5 DEF Setup, SetupInterrupted, weather, IntervalFlow
        <2>6. CASE Halted \/ UNCHANGED vars
            BY <1>0, <2>6 DEF Halted, vars, weather
        <2> QED
            BY <2>1, <2>2, <2>3, <2>4, <2>5, <2>6 DEF Next, Loop
    <1>3. pc' = "L2" /\ got_data' => num_fine' > 0
        <2>1. CASE Pass \/ intTimer
            BY <1>0, <2>1 DEF Pass, intTimer, Elapse, buffers
        <2>2. CASE L1Wait
            BY <1>0, <2>2, SampleAtRecord DEF L1Wait, weather, buffers
        <2>3. CASE L1Collect \/ L1Overflow
            BY <1>0, <2>3, Numbers DEF L1Collect, L1Overflow
        <2>4. CASE Halted \/ UNCHANGED vars
            BY <1>0, <2>4 DEF Halted, vars, weather, buffers
        <2>5. CASE UpdateIdle \/ UpdateTimer \/ UpdateClear \/ L2Wait \/ L2Collect
            BY <2>5 DEF UpdateIdle, UpdateTimer, UpdateClear, L2Wait, L2Collect
        <2>6. CASE L3Wait \/ L3Write \/ L4Wait \/ L4Restart \/ Setup \/ SetupInterrupted
            BY <2>6 DEF L3Wait, L3Write, L4Wait, L4Restart, Setup, SetupInterrupted
        <2> QED
            BY <2>1, <2>2, <2>3, <2>4, <2>5, <2>6 DEF Next, Loop
    <1>4. NoEmptyRecord'
        <2>1. CASE L1Overflow
            BY <1>0, <2>1, Numbers, CollectNotEmpty DEF L1Overflow
        <2>2. CASE L2Collect
            BY <1>0, <2>2, CollectNotEmpty DEF L2Collect
        <2>3. CASE L3Write
            <3>1. PICK fails \in SUBSET Slots : slots' = Appended(num_meteo, fails)
                BY <2>3 DEF L3Write, meteo_data_write
            <3>2. slots \in [Slots -> Record] /\ num_meteo \in Nat
                BY <1>0, Numbers DEF TypeOK
            <3> QED
                BY <1>0, <3>1, <3>2, AppendedEmpty DEF NoEmptyRecord
        <2>4. CASE L4Restart
            BY <2>4 DEF L4Restart, Unused, MeteoData, NoEmptyRecord
        <2>5. ASSUME UNCHANGED slots PROVE NoEmptyRecord'
            BY <1>0, <2>5 DEF NoEmptyRecord
        <2>6. CASE Pass \/ intTimer \/ UpdateIdle \/ UpdateTimer \/ UpdateClear \/ L1Wait \/ L1Collect
            BY <2>5, <2>6 DEF Pass, intTimer, Elapse, UpdateIdle, UpdateTimer, UpdateClear,
                L1Wait, L1Collect, buffers
        <2>7. CASE L2Wait \/ L3Wait \/ L4Wait \/ Setup \/ SetupInterrupted \/ Halted \/ UNCHANGED vars
            BY <2>5, <2>7 DEF L2Wait, L3Wait, L4Wait, Setup, SetupInterrupted, Halted, vars, buffers
        <2> QED
            BY <2>1, <2>2, <2>3, <2>4, <2>6, <2>7 DEF Next, Loop
    <1> QED
        BY <1>1, <1>2, <1>3, <1>4 DEF SampleInv

\* No row of the file is the mean of zero samples, for every speed of the loop:
\* three seconds in a weather interval are enough.
THEOREM NoRecordEmpty ==
    ASSUME Period >= 3
    PROVE  Spec => []NoEmptyRecord
    <1>1. Init => SampleInv
        BY SampleInvInit
    <1>2. DataInv /\ SampleInv /\ [Next]_vars => SampleInv'
        BY SampleInvNext
    <1>3. SampleInv => NoEmptyRecord
        BY DEF SampleInv
    <1> QED
        BY <1>1, <1>2, <1>3, DataInvariant, PTL DEF Spec
-----------------------------------------------------------------------------
\* The reboot.  The sketch has L3 = 900 s and L4 = 24 h.
WholeL3 == \E k \in Nat : L4 = k * L3
LongL3 == 2 * Second <= L3

\* timer_L3 and timer_L4 start together and keep their drift, so their ages differ
\* by a multiple of L3 and the moment between the two resets in setup(); and every
\* pass polls timer_L4, and timer_L3 just before.
RebootInv ==
    /\ pc = "L4" => ageL3 < L3 + passTime
    /\ pc \in LoopPoints => \E m \in Nat, d \in 0 .. 1 : ageL3 + m * L3 = ageL4 + d + L3
    /\ pc \in {"check", "clear"} => ageL4 < L4 + passTime
    /\ pc \in {"L1", "L2", "L3", "L4"} => ageL4 < L4 + MaxPass + passTime

LEMMA FiredOnce ==
    ASSUME NEW age \in Nat, NEW period \in Nat \ {0}, period <= age, age < 2 * period
    PROVE  Realigned(age, period) = age - period
    BY DEF Realigned

LEMMA OnlyZeroMultiple ==
    \A j \in Int, n \in Nat \ {0}, r \in Nat, x \in Nat : r < n /\ x < n /\ r = x + j * n => r = x
    <1> SUFFICES ASSUME NEW j \in Int, NEW n \in Nat \ {0}, NEW r \in Nat, NEW x \in Nat,
                        r < n, x < n, r = x + j * n
                 PROVE  r = x
        OBVIOUS
    <1>1. CASE j = 0
        BY <1>1
    <1>2. CASE j >= 1
        <2>1. j * n = n + (j - 1) * n /\ (j - 1) * n \in Nat
            BY <1>2
        <2> QED
            BY <2>1
    <1>3. CASE j <= -1
        <2>1. j * n = -n - (-1 - j) * n /\ (-1 - j) * n \in Nat
            BY <1>3
        <2> QED
            BY <2>1
    <1> QED
        BY <1>1, <1>2, <1>3

LEMMA RebootInvInit == Init => RebootInv
    BY DEF Init, RebootInv, LoopPoints

LEMMA RebootInvNext ==
    ASSUME ShortPasses, LongL3, DataInv, TimeInv, RebootInv, [Next]_vars
    PROVE  RebootInv'
    <1>0. TypeOK /\ PollAges
        BY DEF DataInv, TimeInv
    <1>a. L4 \in Nat \ {0}
        BY ConstantsAssumption DEF ConstantsAssumption
    <1> USE <1>0, <1>a, Numbers
    <1>1. CASE Pass \/ intTimer
        <2>1. /\ pc' = pc /\ pc \in LoopPoints /\ passTime' = passTime + 1
              /\ ageL3' = ageL3 + 1 /\ ageL4' = ageL4 + 1
            BY <1>1 DEF Pass, intTimer, Elapse
        <2>2. PICK m \in Nat, d \in 0 .. 1 : ageL3 + m * L3 = ageL4 + d + L3
            BY <2>1 DEF RebootInv
        <2>3. m * L3 \in Nat
            OBVIOUS
        <2>4. ageL3' + m * L3 = ageL4' + d + L3
            BY <2>1, <2>2, <2>3
        <2>5. /\ pc' = "L4" => ageL3' < L3 + passTime'
              /\ pc' \in {"check", "clear"} => ageL4' < L4 + passTime'
              /\ pc' \in {"L1", "L2", "L3", "L4"} => ageL4' < L4 + MaxPass + passTime'
            BY <2>1 DEF RebootInv
        <2> QED
            BY <2>4, <2>5 DEF RebootInv
    <1>2. CASE UNCHANGED <<passTime, ageL3, ageL4>> /\ pc \in LoopPoints \ {"check", "clear"}
               /\ pc' \in {"L1", "L2", "L3", "L4"} /\ (pc' = "L4" => ageL3 < L3)
        <2>1. pc' = "L4" => ageL3' < L3 + passTime'
            BY <1>2
        <2> QED
            BY <1>2, <2>1 DEF RebootInv, LoopPoints
    <1>3. CASE UpdateIdle \/ UpdateTimer \/ UpdateClear
        <2>1. /\ ageL3' = ageL3 /\ ageL4' = ageL4 /\ pc \in {"check", "clear"}
              /\ \/ pc' = "L1" /\ passTime' = 0
                 \/ pc' = "clear" /\ passTime' = passTime
            BY <1>3 DEF UpdateIdle, UpdateTimer, UpdateClear, clocks
        <2>2. ageL4 < L4 + passTime
            BY <2>1 DEF RebootInv
        <2>3. pc' = "L1" => ageL4' < L4 + MaxPass + passTime'
            BY <2>1, <2>2
        <2> QED
            BY <2>1, <2>2, <2>3 DEF RebootInv, LoopPoints
    <1>4. CASE L1Wait \/ L1Collect \/ L1Overflow \/ L2Wait \/ L2Collect \/ L3Wait
        <2>1. CASE L3Wait
            BY <1>2, <2>1 DEF L3Wait, clocks, LoopPoints, Due
        <2>2. CASE L1Wait \/ L1Collect \/ L1Overflow \/ L2Wait \/ L2Collect
            BY <1>2, <2>2 DEF L1Wait, L1Collect, L1Overflow, L2Wait, L2Collect, clocks, LoopPoints
        <2> QED
            BY <1>4, <2>1, <2>2
    <1>5. CASE L3Write
        <2>1. /\ pc = "L3" /\ pc' = "L4" /\ passTime' = passTime /\ ageL4' = ageL4
              /\ ageL3' = Realigned(ageL3, L3) /\ ageL3 >= L3
            BY <1>5 DEF L3Write, Due
        <2>2. ageL3 < 2 * L3
            BY <2>1 DEF PollAges, ShortPasses, LongL3
        <2>3. ageL3' = ageL3 - L3
            BY <2>1, <2>2, FiredOnce
        <2>4. PICK m \in Nat, d \in 0 .. 1 : ageL3 + m * L3 = ageL4 + d + L3
            BY <2>1 DEF RebootInv, LoopPoints
        <2>5. (m + 1) * L3 = m * L3 + L3 /\ m * L3 \in Nat /\ m + 1 \in Nat
            OBVIOUS
        <2>6. ageL3' + (m + 1) * L3 = ageL4' + d + L3
            BY <2>1, <2>3, <2>4, <2>5
        <2>7. ageL4' < L4 + MaxPass + passTime'
            BY <2>1 DEF RebootInv
        <2>8. ageL3' < L3 + passTime'
            BY <2>1, <2>2, <2>3, ShortPasses DEF ShortPasses
        <2> QED
            BY <2>1, <2>5, <2>6, <2>7, <2>8 DEF RebootInv
    <1>6. CASE L4Wait
        <2>1. /\ pc = "L4" /\ pc' = "check" /\ UNCHANGED <<passTime, ageL3, ageL4>> /\ ageL4 < L4
            BY <1>6 DEF L4Wait, clocks, Due
        <2>2. ageL4' < L4 + passTime'
            BY <2>1
        <2> QED
            BY <2>1, <2>2 DEF RebootInv, LoopPoints
    <1>7. CASE Setup
        <2>1. PICK d3 \in 0 .. 1 : ageL3' = L3 + d3 /\ ageL4' = 0 /\ pc' = "check" /\ passTime' = 0
            BY <1>7 DEF Setup
        <2>2. ageL3' + 0 * L3 = ageL4' + d3 + L3
            BY <2>1
        <2>3. ageL4' < L4 + passTime'
            BY <2>1
        <2> QED
            BY <2>1, <2>2, <2>3 DEF RebootInv
    <1>8. CASE L4Restart \/ SetupInterrupted
        BY <1>8 DEF L4Restart, SetupInterrupted, RebootInv, LoopPoints
    <1>9. CASE Halted \/ UNCHANGED vars
        BY <1>9 DEF Halted, vars, clocks, RebootInv
    <1> QED
        BY <1>1, <1>3, <1>4, <1>5, <1>6, <1>7, <1>8, <1>9 DEF Next, Loop

\* Where timer_L3 stands when timer_L4 fires: it has just fired, or it is about to and
\* both became due in this pass.
LEMMA RebootAges ==
    ASSUME ShortPasses, LongL3, WholeL3, DataInv, TimeInv, RebootInv, pc = "L4", Due(ageL4, L4)
    PROVE  \/ ~Due(ageL3, L3) /\ ageL3 <= 2 * MaxPass
           \/ DueInThisPass(ageL3, L3) /\ DueInThisPass(ageL4, L4)
    <1>0. TypeOK
        BY DEF DataInv
    <1> USE <1>0, Numbers
    <1>1. /\ L4 \in Nat /\ ageL4 >= L4 /\ ageL4 < L4 + 2 * MaxPass /\ MaxPass < Second
          /\ ageL3 < L3 + passTime /\ passTime \in 0 .. MaxPass
        BY ConstantsAssumption DEF ConstantsAssumption, Due, RebootInv, ShortPasses, TypeOK
    <1>2. PICK k \in Nat : L4 = k * L3
        BY DEF WholeL3
    <1>3. PICK m \in Nat, d \in 0 .. 1 : ageL3 + m * L3 = ageL4 + d + L3
        BY DEF RebootInv, LoopPoints
    <1>4. ageL4 - L4 + d \in Nat /\ ageL4 - L4 + d <= 2 * MaxPass /\ ageL4 - L4 + d < L3
        BY <1>1 DEF LongL3
    <1>5. /\ ageL3 = (ageL4 - L4 + d) + (k + 1 - m) * L3
          /\ ageL3 - L3 = (ageL4 - L4 + d) + (k - m) * L3
        <2>1. (k + 1 - m) * L3 = k * L3 + L3 - m * L3 /\ (k - m) * L3 = k * L3 - m * L3
              /\ k * L3 \in Nat /\ m * L3 \in Nat
            OBVIOUS
        <2> QED
            BY <1>1, <1>2, <1>3, <2>1
    <1>6. CASE ~Due(ageL3, L3)
        <2>1. ageL3 < L3
            BY <1>6 DEF Due
        <2>2. ageL3 = ageL4 - L4 + d
            BY <1>4, <1>5, <2>1, OnlyZeroMultiple
        <2> QED
            BY <1>4, <1>6, <2>2
    <1>7. CASE Due(ageL3, L3)
        <2>1. ageL3 - L3 \in Nat /\ ageL3 - L3 < passTime /\ ageL3 - L3 < L3
            BY <1>1, <1>7 DEF Due, LongL3
        <2>2. ageL3 - L3 = ageL4 - L4 + d
            BY <1>4, <1>5, <2>1, OnlyZeroMultiple
        <2>3. ageL4 - L4 \in Nat /\ ageL4 - L4 <= passTime
            BY <1>1, <1>3, <2>1, <2>2
        <2> QED
            BY <1>1, <2>1, <2>3 DEF DueInThisPass
    <1> QED
        BY <1>6, <1>7

\* There is no record without the time it was collected in.
LEMMA RebootRecords ==
    ASSUME Period >= 4, DataInv, TimeInv, pc = "L4", NEW age \in Nat, ageL3 <= age
    PROVE  /\ num_meteo * (Period * Second) <= age + Period * Second + 2 * Second
           /\ age < 2 * Second => num_meteo <= 1
    <1>0. TypeOK /\ RecordsFollowTime
        BY DEF DataInv, TimeInv
    <1> USE <1>0, Numbers
    <1> DEFINE L2 == Period * Second
    <1>1. L2 \in Nat /\ 4 * Second <= L2 /\ (Period + 2) * Second = L2 + 2 * Second
        BY ProductMonotone
    <1>2. num_meteo * L2 + Ticks * Second + ageHW <= ageL3 + (Period + 2) * Second
        BY DEF RecordsFollowTime, LoopPoints
    <1>3. Ticks \in Nat
        BY CountTypes DEF Ticks
    <1>4. Ticks * Second \in Nat /\ num_meteo * L2 \in Nat
        BY <1>1, <1>3
    <1> HIDE DEF L2
    <1>5. PICK tickTime \in Nat, recorded \in Nat : tickTime = Ticks * Second /\ recorded = num_meteo * L2
        BY <1>4
    <1>6. recorded <= age + L2 + 2 * Second
        BY <1>1, <1>2, <1>5
    <1>7. ASSUME age < 2 * Second
          PROVE  num_meteo <= 1
        <2>1. recorded < 2 * L2
            BY <1>1, <1>6, <1>7
        <2>2. 2 <= num_meteo => 2 * L2 <= num_meteo * L2
            BY <1>1, ProductMonotone
        <2> QED
            BY <1>1, <1>5, <2>1, <2>2
    <1> QED
        BY <1>5, <1>6, <1>7 DEF L2

LEMMA RebootStep ==
    ASSUME ShortPasses, LongL3, WholeL3, Period >= 4, DataInv, TimeInv, RebootInv
    PROVE  RebootAfterWrite
    <1> SUFFICES ASSUME pc = "L4", Due(ageL4, L4)
                 PROVE  /\ num_meteo <= 1 \/ (DueInThisPass(ageL3, L3) /\ DueInThisPass(ageL4, L4))
                        /\ (num_meteo - 1) * (Period * Second) < L3 + 3 * Second
        BY DEF RebootAfterWrite
    <1>0. TypeOK
        BY DEF DataInv
    <1> USE <1>0, Numbers
    <1>1. 2 * MaxPass \in Nat /\ 2 * MaxPass < 2 * Second /\ ageL3 \in Nat
        BY ConstantsAssumption DEF ConstantsAssumption, ShortPasses
    <1>2. num_meteo <= 1 \/ (DueInThisPass(ageL3, L3) /\ DueInThisPass(ageL4, L4))
        BY <1>1, RebootAges, RebootRecords
    <1>3. num_meteo * (Period * Second) <= ageL3 + Period * Second + 2 * Second
        BY <1>1, RebootRecords
    <1>4. ageL3 < L3 + Second
        BY ConstantsAssumption DEF ConstantsAssumption, RebootInv, ShortPasses, TypeOK
    <1>5. PICK period \in Nat, recorded \in Nat : period = Period * Second /\ recorded = num_meteo * period
        OBVIOUS
    <1>6. (num_meteo - 1) * period = recorded - period
        BY <1>5
    <1>7. recorded - period < L3 + 3 * Second
        BY <1>1, <1>3, <1>4, <1>5
    <1> QED
        BY <1>2, <1>5, <1>6, <1>7

\* The daily reboot finds the records written, but for one at most, unless both timers
\* became due in the very pass in which it comes, timer_L3 after its test; then it
\* loses what was collected in one interval of timer_L3 (RebootAfterWrite).
THEOREM RebootFollowsWrite ==
    ASSUME ShortPasses, FineRoom, LongL3, WholeL3, Period >= 4
    PROVE  Spec => []RebootAfterWrite
    <1>1. DataInv /\ TimeInv /\ RebootInv /\ [Next]_vars => RebootInv'
        BY RebootInvNext
    <1>2. DataInv /\ TimeInv /\ RebootInv => RebootAfterWrite
        BY RebootStep
    <1> QED
        BY <1>1, <1>2, RebootInvInit, TimeInvariant, DataInvNext, TimeInvNext, PTL DEF Spec

-----------------------------------------------------------------------------
\* WeatherMeters: the counters of rain and wind, and the table of the wind vane.

\* timer() publishes faster than either switch bounces.
ShortPublication == \A ch \in Channels : Publish <= Debounce[ch]

-----------------------------------------------------------------------------
\* The variables the counting works on.
CountersOK ==
    /\ statement \in Statements
    /\ elapsed \in Nat /\ (statement # "idle" => elapsed <= Publish)
    /\ quiet \in [Channels -> Nat]
    /\ ticks \in [Channels -> Nat]
    /\ sum \in [Channels -> Nat]
    /\ counted \in [Channels -> Nat]

\* An edge counted since the copy is no older than this publication, so the dead
\* time it starts lasts longer than the publication.
EdgeInThisPublication ==
    \A ch \in Channels : Copied(ch) /\ counted[ch] > 0 => quiet[ch] <= elapsed

UndercountInv == CountersOK /\ EdgeInThisPublication /\ UndercountAtMostOne

-----------------------------------------------------------------------------
LEMMA ChannelsFact == "rain" \in Channels /\ "wind" \in Channels
    BY DEF Channels

LEMMA CountersInit == MetersInit => CountersOK
    <1> SUFFICES ASSUME MetersInit PROVE CountersOK
        OBVIOUS
    <1>1. \A ch \in Channels : Debounce[ch] + 1 \in Nat
        BY MetersAssumption
    <1> QED
        BY <1>1 DEF MetersInit, CountersOK, Statements

LEMMA CountersNext == CountersOK /\ [MetersNext]_metersVars => CountersOK'
    <1> SUFFICES ASSUME CountersOK, [MetersNext]_metersVars PROVE CountersOK'
        OBVIOUS
    <1> USE MetersAssumption, ChannelsFact DEF CountersOK, Statements
    <1>1. CASE UNCHANGED metersVars
        BY <1>1 DEF metersVars
    <1>2. CASE Tick
        <2>1. quiet' \in [Channels -> Nat]
            BY <1>2 DEF Tick
        <2> QED
            BY <1>2, <2>1 DEF Tick
    <1>3. CASE Count \/ Complete
        BY <1>3, SMTT(30) DEF Count, Complete
    <1>4. CASE CopyRain \/ CopyWind
        <2>1. PICK ch \in Channels : Copy(ch)
            BY <1>4 DEF CopyRain, CopyWind
        <2>2. sum' \in [Channels -> Nat] /\ counted' \in [Channels -> Nat]
            BY <2>1 DEF Copy
        <2>3. statement # "idle" /\ statement' \in Statements \ {"idle"}
            BY <1>4 DEF CopyRain, CopyWind
        <2>4. UNCHANGED <<elapsed, quiet, ticks>>
            BY <2>1 DEF Copy
        <2> QED
            BY <2>2, <2>3, <2>4
    <1>5. CASE ClearRain \/ ClearWind
        <2>1. PICK ch \in Channels : Clear(ch)
            BY <1>5 DEF ClearRain, ClearWind
        <2>2. ticks' \in [Channels -> Nat]
            BY <2>1 DEF Clear
        <2>3. UNCHANGED <<quiet, sum, counted>>
            BY <2>1 DEF Clear
        <2>4. statement' \in Statements /\ elapsed' \in Nat /\ (statement' # "idle" => elapsed' <= Publish)
            BY <1>5, SMTT(30) DEF ClearRain, ClearWind
        <2> QED
            BY <2>2, <2>3, <2>4
    <1>6. ASSUME NEW ch \in Channels, Edge(ch) PROVE CountersOK'
        BY <1>6 DEF Edge
    <1> QED
        BY <1>1, <1>2, <1>3, <1>4, <1>5, <1>6 DEF MetersNext, timer

-----------------------------------------------------------------------------
LEMMA UndercountInit == MetersInit => UndercountInv
    BY CountersInit DEF MetersInit, UndercountInv, EdgeInThisPublication, UndercountAtMostOne, Copied

LEMMA UndercountNext ==
    ASSUME ShortPublication
    PROVE  UndercountInv /\ [MetersNext]_metersVars => UndercountInv'
    <1> SUFFICES ASSUME UndercountInv, [MetersNext]_metersVars
                 PROVE  EdgeInThisPublication' /\ UndercountAtMostOne'
        BY CountersNext DEF UndercountInv
    <1> SUFFICES ASSUME NEW ch \in Channels
                 PROVE  /\ (Copied(ch) /\ counted[ch] > 0 => quiet[ch] <= elapsed)'
                        /\ (IF Copied(ch) THEN ticks[ch] = sum[ch] + counted[ch] /\ counted[ch] <= 1
                            ELSE counted[ch] - ticks[ch] \in 0 .. 1)'
        BY DEF EdgeInThisPublication, UndercountAtMostOne
    <1>a. /\ statement \in Statements /\ elapsed \in Nat /\ (statement # "idle" => elapsed <= Publish)
          /\ quiet \in [Channels -> Nat] /\ ticks \in [Channels -> Nat]
          /\ sum \in [Channels -> Nat] /\ counted \in [Channels -> Nat]
          /\ quiet[ch] \in Nat /\ ticks[ch] \in Nat /\ sum[ch] \in Nat /\ counted[ch] \in Nat
        BY DEF UndercountInv, CountersOK
    <1>b. /\ Copied(ch) /\ counted[ch] > 0 => quiet[ch] <= elapsed
          /\ Copied(ch) => ticks[ch] = sum[ch] + counted[ch] /\ counted[ch] <= 1
          /\ ~Copied(ch) => counted[ch] - ticks[ch] \in 0 .. 1
        BY DEF UndercountInv, EdgeInThisPublication, UndercountAtMostOne
    <1>c. Publish <= Debounce[ch] /\ Publish \in Nat /\ Debounce[ch] \in Nat
        BY MetersAssumption DEF ShortPublication
    <1>1. CASE UNCHANGED metersVars
        BY <1>1, <1>b DEF metersVars, Copied
    <1>2. CASE Tick
        <2>1. quiet'[ch] <= quiet[ch] + 1
            BY <1>2, <1>a, <1>c DEF Tick
        <2>2. quiet'[ch] \in Nat
            BY <1>2, <1>a, <1>c DEF Tick
        <2> QED
            BY <1>2, <1>a, <1>b, <2>1, <2>2 DEF Tick, Copied
    <1>3. CASE Count
        BY <1>3, <1>b DEF Count, Copied
    <1>4. CASE Complete
        BY <1>4, <1>b DEF Complete, Copied
    <1>5. CASE CopyRain
        BY <1>5, <1>a, <1>b DEF CopyRain, Copy, Copied, Channels
    <1>6. CASE CopyWind
        BY <1>6, <1>a, <1>b DEF CopyWind, Copy, Copied, Channels
    <1>7. CASE ClearRain
        BY <1>7, <1>a, <1>b DEF ClearRain, Clear, Copied, Channels
    <1>8. CASE ClearWind
        BY <1>8, <1>a, <1>b DEF ClearWind, Clear, Copied, Channels
    <1>9. ASSUME NEW edge \in Channels, Edge(edge)
          PROVE  /\ (Copied(ch) /\ counted[ch] > 0 => quiet[ch] <= elapsed)'
                 /\ (IF Copied(ch) THEN ticks[ch] = sum[ch] + counted[ch] /\ counted[ch] <= 1
                     ELSE counted[ch] - ticks[ch] \in 0 .. 1)'
        <2>1. CASE edge # ch
            <3>1. quiet'[ch] = quiet[ch] /\ ticks'[ch] = ticks[ch] /\ counted'[ch] = counted[ch]
                BY <1>9, <1>a, <2>1 DEF Edge
            <3> QED
                BY <1>9, <1>b, <3>1 DEF Edge, Copied
        <2>2. CASE edge = ch
            <3>1. /\ quiet'[ch] = 0 /\ ticks'[ch] = ticks[ch] + 1
                  /\ counted'[ch] = counted[ch] + 1 /\ sum' = sum /\ statement' = statement /\ elapsed' = elapsed
                BY <1>9, <1>a, <2>2 DEF Edge
            <3>2. Copied(ch) => counted[ch] = 0
                BY <1>9, <1>a, <1>b, <1>c, <2>2 DEF Edge, Copied, Channels
            <3> QED
                BY <1>a, <1>b, <3>1, <3>2 DEF Copied
        <2> QED
            BY <2>1, <2>2
    <1> QED
        BY <1>1, <1>2, <1>3, <1>4, <1>5, <1>6, <1>7, <1>8, <1>9 DEF MetersNext, timer

\* A published sum misses at most one edge that was counted (UndercountAtMostOne), for
\* every pair of dead times not shorter than a publication, although intRaingauge and
\* intAnemometer may preempt timer() between the copy and the clearing.
THEOREM AtMostOneEdgeLost ==
    ASSUME ShortPublication
    PROVE  MetersSpec => []UndercountAtMostOne
    <1>1. UndercountInv => UndercountAtMostOne
        BY DEF UndercountInv
    <1> QED
        BY <1>1, UndercountInit, UndercountNext, PTL DEF MetersSpec
-----------------------------------------------------------------------------
\* The table of the wind vane.
LEMMA Table ==
    /\ \A i \in Entries : numbers[i] \in Nat
    /\ \A i \in Entries \ {Last} : numbers[i] < numbers[i + 1]
    /\ numbers[Last] = 3781 /\ Last \in Entries
    BY DEF Entries, Last, numbers

\* The numbers rise from any entry to any later one.
LEMMA TableRises ==
    \A i, j \in Entries : i < j => numbers[i] < numbers[j]
    BY DEF Entries, numbers

\* A number not above the middle of an entry is closer to it than to any later one,
\* a number above the middle closer to any later one than to it.
LEMMA BelowMiddle ==
    ASSUME NEW v \in Nat, NEW i \in Entries \ {Last}, v <= Middle(i), NEW j \in Entries, i < j
    PROVE  Distance(v, numbers[i]) <= Distance(v, numbers[j])
    <1>1. i + 1 \in Entries /\ (j = i + 1 \/ i + 1 < j)
        BY DEF Entries, Last
    <1>2. /\ numbers[i] \in Nat /\ numbers[i + 1] \in Nat /\ numbers[j] \in Nat
          /\ numbers[i] < numbers[i + 1] /\ numbers[i + 1] <= numbers[j]
        BY <1>1, Table, TableRises
    <1>3. \A a, b, c, w \in Nat : a < b /\ b <= c /\ w <= a + (b - a) \div 2 => Distance(w, a) <= Distance(w, c)
        BY DEF Distance
    <1> QED
        BY <1>2, <1>3 DEF Middle

LEMMA AboveMiddle ==
    ASSUME NEW v \in Nat, NEW i \in Entries \ {Last}, v > Middle(i), NEW j \in Entries, NEW k \in Entries,
           j <= i, k = i + 1
    PROVE  Distance(v, numbers[k]) <= Distance(v, numbers[j])
    <1>1. j = i \/ j < i
        BY DEF Entries
    <1>2. /\ numbers[i] \in Nat /\ numbers[k] \in Nat /\ numbers[j] \in Nat
          /\ numbers[i] < numbers[k] /\ numbers[j] <= numbers[i]
        BY <1>1, Table, TableRises
    <1>3. \A a, b, c, w \in Nat : a < b /\ c <= a /\ w > a + (b - a) \div 2 => Distance(w, b) <= Distance(w, c)
        BY DEF Distance
    <1> QED
        BY <1>2, <1>3 DEF Middle

\* A set of entries has a first one.
LEMMA SmallestEntry ==
    ASSUME NEW S, S # {}, S \subseteq Entries
    PROVE  \E i \in S : \A j \in S : i <= j
    <1>1. PICK e \in S : TRUE
        OBVIOUS
    <1>2. SUFFICES ASSUME \A i \in S : \E j \in S : j < i PROVE FALSE
        BY DEF Entries
    <1>3. 1 \notin S
        BY <1>2 DEF Entries
    <1> QED
        BY <1>1, <1>2, <1>3 DEF Entries

\* The search ends at an entry that is nearest to the number.
LEMMA Searched ==
    ASSUME NEW v \in Nat, ~PastTheTable(v), NEW d \in adcToDir(v)
    PROVE  \E i \in Nearest(v) : d = directions[i]
    <1>1. CASE v >= numbers[Last]
        <2>1. \A j \in Entries : numbers[j] <= numbers[Last] /\ numbers[j] \in Nat
            BY Table, TableRises DEF Entries, Last
        <2>2. \A j \in Entries : Distance(v, numbers[Last]) <= Distance(v, numbers[j])
            BY <1>1, <2>1, Table DEF Distance
        <2>3. Last \in Nearest(v)
            BY <2>2, Table DEF Nearest
        <2> QED
            BY <1>1, <2>3 DEF adcToDir
    <1>2. CASE ~(v >= numbers[Last])
        <2>1. Candidates(v) # {} /\ Candidates(v) \subseteq Entries \ {Last}
            BY <1>2, Table DEF PastTheTable, Candidates
        <2>2. PICK i \in Candidates(v) : \A j \in Candidates(v) : i <= j
            BY <2>1, SmallestEntry
        <2>3. Min(Candidates(v)) = i
            <3>1. \A k \in Candidates(v) : (\A j \in Candidates(v) : k <= j) => k = i
                BY <2>1, <2>2 DEF Entries
            <3> QED
                BY <2>2, <3>1 DEF Min
        <2>4. d = directions[i]
            BY <1>2, <2>3 DEF adcToDir
        <2>5. \A j \in Entries : i < j => Distance(v, numbers[i]) <= Distance(v, numbers[j])
            BY <2>1, BelowMiddle DEF Candidates
        <2>6. \A j \in Entries : j < i => Distance(v, numbers[i]) <= Distance(v, numbers[j])
            <3> SUFFICES ASSUME NEW j \in Entries, j < i
                         PROVE  Distance(v, numbers[i]) <= Distance(v, numbers[j])
                OBVIOUS
            <3>1. i - 1 \in Entries \ {Last} /\ j <= i - 1 /\ i = (i - 1) + 1
                BY <2>1 DEF Entries, Last
            <3>2. i - 1 \notin Candidates(v)
                BY <2>1, <2>2 DEF Entries
            <3>3. Middle(i - 1) \in Int
                BY <3>1, Table DEF Middle, Entries, Last
            <3>4. v > Middle(i - 1)
                BY <3>1, <3>2, <3>3 DEF Candidates
            <3>5. i \in Entries
                BY <2>1
            <3> QED
                BY <3>1, <3>4, <3>5, AboveMiddle
        <2>7. \A j \in Entries : Distance(v, numbers[i]) <= Distance(v, numbers[j])
            <3>1. \A j \in Entries : j = i \/ i < j \/ j < i
                BY <2>1 DEF Entries
            <3>2. Distance(v, numbers[i]) \in Nat
                BY <2>1, Table DEF Distance
            <3>3. Distance(v, numbers[i]) <= Distance(v, numbers[i])
                BY <3>2
            <3> QED
                BY <2>5, <2>6, <3>1, <3>3
        <2>8. i \in Nearest(v)
            BY <2>1, <2>7 DEF Nearest
        <2> QED
            BY <2>4, <2>8
    <1> QED
        BY <1>1, <1>2

\* The direction read is that of a nearest entry (NearestDirection), for every set
\* of readings, as long as the search does not leave the table.
THEOREM DirectionIsNearest == MetersSpec => []NearestDirection
    <1>1. MetersInit => NearestDirection
        BY DEF MetersInit, NearestDirection
    <1>2. NearestDirection /\ [MetersNext]_metersVars => NearestDirection'
        <2> SUFFICES ASSUME NearestDirection, [MetersNext]_metersVars PROVE NearestDirection'
            OBVIOUS
        <2>1. CASE UNCHANGED vane
            BY <2>1 DEF vane, NearestDirection
        <2>2. CASE ReadVane
            <3>1. _dir_adc_value' \in Nat
                BY <2>2, MetersAssumption DEF ReadVane
            <3>2. ~PastTheTable(_dir_adc_value') =>
                    \E i \in Nearest(_dir_adc_value') : _dir' = directions[i]
                BY <2>2, <3>1, Searched DEF ReadVane
            <3> QED
                BY <3>2 DEF NearestDirection
        <2>3. Count \/ Complete => ReadVane
            BY DEF Count, Complete
        <2>4. CopyRain \/ CopyWind \/ ClearRain \/ ClearWind \/ Tick
                \/ (\E ch \in Channels : Edge(ch)) \/ UNCHANGED metersVars
                => UNCHANGED vane
            BY DEF CopyRain, CopyWind, ClearRain, ClearWind, Copy, Clear, Tick, Edge, metersVars, vane
        <2> QED
            BY <2>1, <2>2, <2>3, <2>4 DEF MetersNext, timer
    <1> QED
        BY <1>1, <1>2, PTL DEF MetersSpec
=============================================================================
