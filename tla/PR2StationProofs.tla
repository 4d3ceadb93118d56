-------------------------- MODULE PR2StationProofs --------------------------
(***************************************************************************)
(* The round of the PR2 probes, for every number of probes, every interval *)
(* of timer_L3 and every speed of the loop, whatever the probes send: the  *)
(* flags of the loop, the readers, the power and the timers agree, no row  *)
(* has a value of another probe or of another row, and no cold probe is    *)
(* asked.  When timer_L3 leaves the time for it and the last probe answers *)
(* every round is complete, and the section implements MeasuringRound.     *)
(***************************************************************************)
EXTENDS PR2Station, TLAPS

-----------------------------------------------------------------------------
\* A Timer after a call and after a unit of time.
LEMMA TimerSteps ==
    ASSUME NEW n \in Nat, NEW t \in Timer(n)
    PROVE  /\ Polled(t) \in Timer(n)
           /\ Elapsed(t) \in Timer(n)
           /\ Elapsed(t).running = t.running
           /\ After(t) => ~Polled(t).running
           /\ After(t) <=> (~t.running \/ t.left = 0)
           /\ ~After(t) => Polled(t) = t
    BY DEF Timer, Polled, Elapsed, After, Stopped

LEMMA TimerStarts ==
    ASSUME NEW n \in Nat, NEW k \in 0 .. n
    PROVE  TimerReset(k) \in Timer(n)
    BY DEF Timer, TimerReset

\* An answer to a request starts the timer if it is accepted, and only then.
LEMMA Requested ==
    ASSUME BusTypeOK, NEW dev, NEW cmd, NEW ack \in Acknowledgements,
           measureRequest("PR2", dev, cmd, ack)
    PROVE  /\ BusTypeOK'
           /\ Accepted(ack) => measured' = [kind |-> "PR2", dev |-> dev, cmd |-> cmd]
           /\ ~Accepted(ack) => measured' = measured /\ sdi12_delay_timer' = sdi12_delay_timer
    BY BusAssumption DEF BusTypeOK, measureRequest, Acknowledgements, Accepted, TimerReset, Timer

LEMMA SensorRange == /\ Last \in Sensors
                     /\ \A i \in Sensors : i \in Nat /\ (i # Last => i + 1 \in Sensors)
                     /\ 0 \in Sensors
    BY StationAssumption DEF Last, Sensors

-----------------------------------------------------------------------------
\* The fields of TypeOK that the PR2 section works on, after ResetReader.
LEMMA ResetTypes ==
    ASSUME TypeOK, ResetReader
    PROVE  icmd' \in [Sensors -> Commands] /\ data' \in [Sensors -> [Commands -> Origins]]
    BY DEF TypeOK, ResetReader, Commands, n_fields, PR2Data, Origins

LEMMA NextSensorType ==
    ASSUME TypeOK
    PROVE  NextSensor \in Sensors
    BY SensorRange DEF TypeOK, NextSensor

\* What entering the section does to the state outside of it.
LEMMA EnteredTypes ==
    ASSUME TypeOK, Entered
    PROVE  /\ timer_PR2_power' \in Timer(PowerUp)
           /\ pc' \in {"PR2", "L3"}
           /\ passTime' \in 0 .. MaxPass /\ ageL3' \in Nat
           /\ warm' \in 0 .. PowerUp /\ ticked' \in BOOLEAN
    BY StationAssumption, TimerSteps DEF TypeOK, Entered, loopTime

\* What a field is after a reply.
LEMMA FilledType ==
    ASSUME TypeOK, NEW reply \in DataReplies
    PROVE  Filled(reply) \in [Commands -> Origins]
    <1>1. data[iss] \in [Commands -> Origins] /\ icmd[iss] \in Commands
        BY DEF TypeOK
    <1>2. Origin(icmd[iss]) \in Origins
        BY DEF Origin, Origins
    <1> QED
        BY <1>1, <1>2 DEF Filled

\* The bus after TryRead.
LEMMA ReadTypes ==
    ASSUME TypeOK, NEW reply \in DataReplies, Read(reply)
    PROVE  /\ BusTypeOK'
           /\ measured' = measured
           /\ Entered
           /\ ~sdi12_delay_timer'.running
    BY TimerSteps, BusAssumption DEF TypeOK, BusTypeOK, Read

\* Every state is of its type.
LEMMA TypeInit == Init => TypeOK
    <1> SUFFICES ASSUME Init PROVE TypeOK
        OBVIOUS
    <1>1. BusTypeOK /\ measured = NoOne
        BY BusAssumption DEF Init, BusInit, BusTypeOK, Stopped, Timer
    <1>2. timer_PR2_power \in Timer(PowerUp)
        BY StationAssumption, TimerStarts DEF Init
    <1>3. L3 \in Nat
        BY StationAssumption DEF Init, L3
    <1>4. icmd \in [Sensors -> Commands] /\ data \in [Sensors -> [Commands -> Origins]]
        BY DEF Init, PR2Data, Commands, n_fields, Origins
    <1>5. rows \in [Sensors -> 0 .. 2]
        BY DEF Init
    <1>6. iss \in Sensors /\ warm \in 0 .. PowerUp /\ passTime \in 0 .. MaxPass /\ ageL3 \in Nat
        BY <1>3, StationAssumption, SensorRange DEF Init
    <1>7. /\ scenario \in Scenarios /\ pc \in {"PR2", "L3"} /\ power \in BOOLEAN
          /\ pr2_all_finished \in BOOLEAN /\ ticked \in BOOLEAN
        BY DEF Init
    <1> QED
        BY <1>1, <1>2, <1>4, <1>5, <1>6, <1>7 DEF TypeOK

LEMMA TypeNext == TypeOK /\ [Next]_vars => TypeOK'
    <1> SUFFICES ASSUME TypeOK, [Next]_vars PROVE TypeOK'
        OBVIOUS
    <1> USE DEF TypeOK
    <1>1. CASE UNCHANGED vars
        BY <1>1 DEF vars, bus, readers, supply, loopTime, BusTypeOK
    <1>2. CASE NotEntered /\ UNCHANGED scenario
        BY <1>2 DEF NotEntered, bus, readers, supply, loopTime, BusTypeOK
    <1>3. CASE RequestFailed /\ UNCHANGED scenario
        BY <1>3, Requested, ResetTypes, NextSensorType, EnteredTypes DEF RequestFailed
    <1>4. CASE RequestSent /\ UNCHANGED scenario
        <2>1. PICK ack \in Acknowledgements : Accepted(ack) /\ measureRequest("PR2", iss, icmd[iss], ack)
            BY <1>4 DEF RequestSent
        <2>2. BusTypeOK' /\ measured' = [kind |-> "PR2", dev |-> iss, cmd |-> icmd[iss]]
            BY <2>1, Requested
        <2>3. measured' \in [kind : {"PR2"}, dev : Sensors, cmd : Commands]
            BY <2>2
        <2> QED
            BY <1>4, <2>2, <2>3, EnteredTypes DEF RequestSent, readers
    <1>5. CASE Measuring /\ UNCHANGED scenario
        BY <1>5, EnteredTypes DEF Measuring, bus, readers, BusTypeOK
    <1>6. CASE ReadField /\ UNCHANGED scenario
        <2>1. PICK reply \in DataReplies :
                /\ Read(reply) /\ icmd[iss] + 1 < n_fields
                /\ data' = [data EXCEPT ![iss] = Filled(reply)]
                /\ icmd' = [icmd EXCEPT ![iss] = @ + 1]
                /\ UNCHANGED <<iss, rows, power, pr2_all_finished>>
            BY <1>6 DEF ReadField
        <2>2. icmd[iss] + 1 \in Commands
            BY <2>1 DEF Commands, n_fields
        <2>3. icmd' \in [Sensors -> Commands]
            BY <2>1, <2>2
        <2>4. data' \in [Sensors -> [Commands -> Origins]]
            BY <2>1, FilledType
        <2> QED
            BY <1>6, <2>1, <2>3, <2>4, ReadTypes, EnteredTypes
    <1>7. CASE ReadLast /\ UNCHANGED scenario
        <2>1. PICK reply \in DataReplies :
                /\ Read(reply) /\ ResetReader
                /\ rows' = [rows EXCEPT ![iss] = Capped(@)]
                /\ iss' = NextSensor
                /\ pr2_all_finished' = (iss = Last)
                /\ power' = (iss # Last)
            BY <1>7 DEF ReadLast
        <2>2. rows' \in [Sensors -> 0 .. 2]
            BY <2>1 DEF Capped
        <2> QED
            BY <1>7, <2>1, <2>2, ReadTypes, EnteredTypes, ResetTypes, NextSensorType
    <1>8. CASE L3Wait /\ UNCHANGED scenario
        BY <1>8, StationAssumption DEF L3Wait, bus, readers, supply, BusTypeOK
    <1>9. CASE L3Tick /\ UNCHANGED scenario
        <2>1. ageL3' \in Nat
            BY <1>9, StationAssumption DEF L3Tick, L3
        <2>2. timer_PR2_power' \in Timer(PowerUp)
            BY <1>9, StationAssumption, TimerStarts DEF L3Tick
        <2>3. rows' \in [Sensors -> 0 .. 2] /\ warm' \in 0 .. PowerUp /\ passTime' \in 0 .. MaxPass
            BY <1>9, StationAssumption DEF L3Tick
        <2>4. BusTypeOK' /\ UNCHANGED <<measured, iss, icmd, data, scenario>>
            BY <1>9 DEF L3Tick, bus, BusTypeOK
        <2>5. pc' = "PR2" /\ power' = TRUE /\ pr2_all_finished' = FALSE /\ ticked' = TRUE
            BY <1>9 DEF L3Tick
        <2> QED
            BY <2>1, <2>2, <2>3, <2>4, <2>5
    <1>10. CASE Tick /\ UNCHANGED scenario
        <2>1. timer_PR2_power' \in Timer(PowerUp) /\ sdi12_delay_timer' \in Timer(MaxDelay)
            BY <1>10, TimerSteps, StationAssumption, BusAssumption DEF Tick, BusTypeOK
        <2>2. passTime' \in 0 .. MaxPass /\ ageL3' \in Nat /\ warm' \in 0 .. PowerUp
            BY <1>10, StationAssumption DEF Tick
        <2> QED
            BY <1>10, <2>1, <2>2 DEF Tick, readers, BusTypeOK
    <1> QED
        BY <1>1, <1>2, <1>3, <1>4, <1>5, <1>6, <1>7, <1>8, <1>9, <1>10
        DEF Next, Loop, collect_and_write_PR2

\* The variables have the values their declarations in the sketch allow: counters
\* and indices stay in range, whatever the probes send.
THEOREM PR2TypeCorrect == Spec => []TypeOK
    BY TypeInit, TypeNext, PTL DEF Spec
-----------------------------------------------------------------------------
\* The three parts of RoundConsistent need each other: that nothing is under way
\* without power follows from the reader of the last row being the only one.
RoundInv == TypeOK /\ RoundConsistent /\ FieldsOwn

\* A reader that is not between two commands.
Idle(i) == icmd[i] = 0 /\ data[i] = PR2Data

\* In a pass that works on the probes the power is on and the round is under way.
LEMMA UnderWay ==
    ASSUME RoundInv, Entered
    PROVE  power = TRUE /\ pr2_all_finished = FALSE /\ rows[Last] = 0
    <1>1. rows[Last] \in 0 .. 2 /\ power \in BOOLEAN /\ pr2_all_finished \in BOOLEAN
        BY SensorRange DEF RoundInv, TypeOK
    <1> QED
        BY <1>1 DEF RoundInv, RoundConsistent, PowerFollowsRound, LastRowEndsRound, Entered

\* After ResetReader no reader is between two commands.
LEMMA ResetIdle ==
    ASSUME RoundInv, ResetReader
    PROVE  /\ \A i \in Sensors : Idle(i)'
           /\ FieldsOwn'
    <1>1. \A i \in Sensors : Idle(i)'
        BY DEF RoundInv, RoundConsistent, OneReaderAtATime, TypeOK, ResetReader, Idle
    <1>2. FieldsOwn'
        BY <1>1 DEF Idle, FieldsOwn, PR2Data
    <1> QED
        BY <1>1, <1>2

LEMMA RoundInit == Init => RoundInv
    <1> SUFFICES ASSUME Init PROVE RoundInv
        OBVIOUS
    <1>1. FieldsOwn
        BY DEF Init, FieldsOwn, PR2Data
    <1>2. PowerFollowsRound /\ LastRowEndsRound
        BY SensorRange DEF Init, PowerFollowsRound, LastRowEndsRound
    <1>3. OneReaderAtATime
        BY DEF Init, BusInit, Stopped, OneReaderAtATime
    <1> QED
        BY <1>1, <1>2, <1>3, TypeInit DEF RoundInv, RoundConsistent

LEMMA RoundNext == RoundInv /\ [Next]_vars => RoundInv'
    <1> SUFFICES ASSUME RoundInv, [Next]_vars PROVE RoundInv'
        OBVIOUS
    <1> USE DEF RoundInv
    <1>t. TypeOK'
        BY TypeNext
    <1>1. CASE UNCHANGED vars
        BY <1>1, <1>t DEF vars, bus, readers, supply, RoundConsistent, PowerFollowsRound,
            OneReaderAtATime, LastRowEndsRound, FieldsOwn
    <1>2. CASE NotEntered
        BY <1>2, <1>t DEF NotEntered, bus, readers, supply, RoundConsistent, PowerFollowsRound,
            OneReaderAtATime, LastRowEndsRound, FieldsOwn
    <1>3. CASE RequestFailed
        <2>1. ~sdi12_delay_timer'.running /\ UNCHANGED <<power, pr2_all_finished, rows>>
            BY <1>3, Requested DEF RequestFailed, TypeOK
        <2>2. (\A i \in Sensors : Idle(i)') /\ FieldsOwn'
            BY <1>3, ResetIdle DEF RequestFailed
        <2>3. power = TRUE /\ pr2_all_finished = FALSE
            BY <1>3, UnderWay DEF RequestFailed
        <2>4. OneReaderAtATime'
            BY <2>1, <2>2 DEF OneReaderAtATime, Idle
        <2>5. PowerFollowsRound' /\ LastRowEndsRound'
            BY <2>1, <2>3 DEF RoundConsistent, PowerFollowsRound, LastRowEndsRound
        <2> QED
            BY <1>t, <2>2, <2>4, <2>5 DEF RoundConsistent
    <1>4. CASE RequestSent
        <2>1. measured' = [kind |-> "PR2", dev |-> iss, cmd |-> icmd[iss]]
            BY <1>4, Requested DEF RequestSent, TypeOK
        <2>2. UNCHANGED <<readers, power, pr2_all_finished>>
            BY <1>4 DEF RequestSent
        <2>3. OneReaderAtATime'
            BY <2>1, <2>2 DEF RoundConsistent, OneReaderAtATime, readers
        <2>4. power = TRUE /\ pr2_all_finished = FALSE
            BY <1>4, UnderWay DEF RequestSent
        <2>5. PowerFollowsRound' /\ LastRowEndsRound' /\ FieldsOwn'
            BY <2>2, <2>4 DEF RoundConsistent, PowerFollowsRound, LastRowEndsRound, FieldsOwn, readers
        <2> QED
            BY <1>t, <2>3, <2>5 DEF RoundConsistent
    <1>5. CASE Measuring
        BY <1>5, <1>t DEF Measuring, bus, readers, RoundConsistent, PowerFollowsRound,
            OneReaderAtATime, LastRowEndsRound, FieldsOwn
    <1>6. CASE ReadField
        <2>1. PICK reply \in DataReplies :
                /\ Read(reply)
                /\ data' = [data EXCEPT ![iss] = Filled(reply)]
                /\ icmd' = [icmd EXCEPT ![iss] = @ + 1]
                /\ UNCHANGED <<iss, rows, power, pr2_all_finished>>
            BY <1>6 DEF ReadField
        <2>2. ~sdi12_delay_timer'.running /\ Entered
            BY <2>1, ReadTypes
        <2>3. Origin(icmd[iss]) = "own"
            BY <2>1 DEF Read, RoundConsistent, OneReaderAtATime, Origin
        <2>4. iss \in Sensors /\ data[iss] \in [Commands -> Origins] /\ icmd[iss] \in Commands
            BY DEF TypeOK
        <2>5. \A k \in Commands : Filled(reply)[k] \in {"zero", "own"}
            BY <2>3, <2>4 DEF Filled, FieldsOwn
        <2>6. FieldsOwn'
            BY <2>1, <2>4, <2>5 DEF FieldsOwn, TypeOK
        <2>7. OneReaderAtATime'
            BY <2>1, <2>2 DEF RoundConsistent, OneReaderAtATime, TypeOK
        <2>8. PowerFollowsRound' /\ LastRowEndsRound'
            BY <2>1, <2>2, UnderWay DEF RoundConsistent, PowerFollowsRound, LastRowEndsRound
        <2> QED
            BY <1>t, <2>6, <2>7, <2>8 DEF RoundConsistent
    <1>7. CASE ReadLast
        <2>1. PICK reply \in DataReplies :
                /\ Read(reply) /\ ResetReader
                /\ rows' = [rows EXCEPT ![iss] = Capped(@)]
                /\ iss' = NextSensor
                /\ pr2_all_finished' = (iss = Last)
                /\ power' = (iss # Last)
            BY <1>7 DEF ReadLast
        <2>2. ~sdi12_delay_timer'.running /\ Entered
            BY <2>1, ReadTypes
        <2>3. (\A i \in Sensors : Idle(i)') /\ FieldsOwn'
            BY <2>1, ResetIdle
        <2>4. OneReaderAtATime'
            BY <2>2, <2>3 DEF OneReaderAtATime, Idle
        <2>5. PowerFollowsRound'
            BY <2>1, <2>2, <2>3 DEF PowerFollowsRound, Idle, NextSensor
        <2>6. rows[Last] = 0 /\ Last \in Sensors /\ iss \in Sensors /\ rows \in [Sensors -> 0 .. 2]
            BY <2>2, UnderWay, SensorRange DEF TypeOK
        <2>7. LastRowEndsRound'
            <3>1. CASE iss = Last
                <4>1. Capped(rows[Last]) = 1
                    BY <2>6 DEF Capped
                <4>2. rows'[Last] = 1
                    BY <2>1, <2>6, <3>1, <4>1
                <4>3. pr2_all_finished' = TRUE
                    BY <2>1, <3>1
                <4> QED
                    BY <4>2, <4>3 DEF LastRowEndsRound, Last
            <3>2. CASE iss # Last
                <4>1. rows'[Last] = 0 /\ pr2_all_finished' = FALSE
                    BY <2>1, <2>6, <3>2
                <4> QED
                    BY <4>1 DEF LastRowEndsRound, Last
            <3> QED
                BY <3>1, <3>2
        <2> QED
            BY <1>t, <2>3, <2>4, <2>5, <2>7 DEF RoundConsistent
    <1>8. CASE L3Wait
        BY <1>8, <1>t DEF L3Wait, bus, readers, supply, RoundConsistent, PowerFollowsRound,
            OneReaderAtATime, LastRowEndsRound, FieldsOwn
    <1>9. CASE L3Tick
        <2>1. UNCHANGED <<bus, iss, icmd, data>>
            BY <1>9 DEF L3Tick
        <2>2. OneReaderAtATime' /\ FieldsOwn'
            BY <2>1 DEF RoundConsistent, OneReaderAtATime, FieldsOwn, bus
        <2>3. PowerFollowsRound' /\ LastRowEndsRound'
            BY <1>9, SensorRange DEF L3Tick, PowerFollowsRound, LastRowEndsRound
        <2> QED
            BY <1>t, <2>2, <2>3 DEF RoundConsistent
    <1>10. CASE Tick
        <2>1. sdi12_delay_timer'.running = sdi12_delay_timer.running
            BY <1>10, TimerSteps, BusAssumption DEF Tick, TypeOK, BusTypeOK
        <2>2. UNCHANGED <<measured, readers, power, pr2_all_finished>>
            BY <1>10 DEF Tick
        <2> QED
            BY <1>t, <2>1, <2>2 DEF readers, RoundConsistent, PowerFollowsRound,
                OneReaderAtATime, LastRowEndsRound, FieldsOwn
    <1> QED
        BY <1>1, <1>2, <1>3, <1>4, <1>5, <1>6, <1>7, <1>8, <1>9, <1>10
        DEF Next, Loop, collect_and_write_PR2

\* Power, flags, readers and delay timer agree on the round (RoundConsistent), for
\* every number of probes, whatever they send, however slow the loop is, and
\* whenever timer_L3 fires.
THEOREM RoundStaysConsistent == Spec => []RoundConsistent
    <1>1. RoundInv => RoundConsistent
        BY DEF RoundInv
    <1> QED
        BY <1>1, RoundInit, RoundNext, PTL DEF Spec

\* A row has values of its own probe, command and round only (FieldsOwn).
THEOREM RowsHaveOwnValues == Spec => []FieldsOwn
    <1>1. RoundInv => FieldsOwn
        BY DEF RoundInv
    <1> QED
        BY <1>1, RoundInit, RoundNext, PTL DEF Spec

-----------------------------------------------------------------------------
\* While the power is on, the time it has been on and the time timer_PR2_power
\* still waits make up PowerUp; a timer that has stopped waits no more.
TimeLeft == IF timer_PR2_power.running THEN timer_PR2_power.left ELSE 0
Warming == power => warm + TimeLeft >= PowerUp

WarmInv == RoundInv /\ Warming

LEMMA WarmingNext == WarmInv /\ [Next]_vars => Warming'
    <1> SUFFICES ASSUME WarmInv, [Next]_vars PROVE Warming'
        OBVIOUS
    <1> USE DEF WarmInv
    <1>1. /\ warm \in 0 .. PowerUp /\ timer_PR2_power \in Timer(PowerUp) /\ PowerUp \in Nat
          /\ power \in BOOLEAN
        BY StationAssumption DEF RoundInv, TypeOK
    <1>2. CASE UNCHANGED <<supply, warm>>
        BY <1>2 DEF supply, Warming, TimeLeft
    <1>3. CASE Entered
        <2>1. warm' = warm /\ timer_PR2_power' = Polled(timer_PR2_power) /\ After(timer_PR2_power)
            BY <1>3 DEF Entered
        <2>2. power
            BY <1>3, UnderWay
        <2>3. TimeLeft = 0
            BY <1>1, <2>1, TimerSteps DEF TimeLeft
        <2>4. warm' >= PowerUp
            BY <1>1, <2>1, <2>2, <2>3 DEF Warming
        <2>5. TimeLeft' = 0
            BY <1>1, <2>1, TimerSteps DEF TimeLeft
        <2> QED
            BY <1>1, <2>1, <2>4, <2>5 DEF Warming
    <1>4. CASE L3Tick
        <2>1. timer_PR2_power' = [running |-> TRUE, left |-> PowerUp]
            BY <1>4 DEF L3Tick, TimerReset
        <2>2. warm' \in Nat
            BY <1>1, <1>4 DEF L3Tick
        <2>3. TimeLeft' = PowerUp
            BY <2>1 DEF TimeLeft
        <2>4. \A w \in Nat, p \in Nat : w + p >= p
            OBVIOUS
        <2>5. warm' + TimeLeft' >= PowerUp
            BY <1>1, <2>2, <2>3, <2>4
        <2> QED
            BY <2>5 DEF Warming
    <1>5. CASE Tick
        <2>1. power' = power /\ timer_PR2_power' = Elapsed(timer_PR2_power)
            BY <1>5 DEF Tick
        <2>2. warm' = IF power /\ warm < PowerUp THEN warm + 1 ELSE warm
            BY <1>5 DEF Tick
        <2>3. TimeLeft \in Nat /\ TimeLeft' = IF TimeLeft > 0 THEN TimeLeft - 1 ELSE 0
            BY <1>1, <2>1 DEF Elapsed, TimeLeft, Timer
        <2> QED
            BY <1>1, <2>1, <2>2, <2>3 DEF Warming
    <1>6. NotEntered \/ L3Wait => UNCHANGED <<supply, warm>>
        BY DEF NotEntered, L3Wait, supply
    <1>7. collect_and_write_PR2 => Entered
        BY DEF collect_and_write_PR2, RequestFailed, RequestSent, Measuring, ReadField, ReadLast, Read
    <1>8. UNCHANGED vars => UNCHANGED <<supply, warm>>
        BY DEF vars, supply
    <1> QED
        BY <1>2, <1>3, <1>4, <1>5, <1>6, <1>7, <1>8 DEF Next, Loop

LEMMA WarmStep == WarmInv /\ [Next]_vars => [collect_and_write_PR2 /\ ~Measuring => power /\ warm = PowerUp]_vars
    <1> SUFFICES ASSUME WarmInv, collect_and_write_PR2
                 PROVE  power /\ warm = PowerUp
        OBVIOUS
    <1>1. Entered
        BY DEF collect_and_write_PR2, RequestFailed, RequestSent, Measuring, ReadField, ReadLast, Read
    <1>2. power
        BY <1>1, UnderWay DEF WarmInv
    <1>3. warm \in 0 .. PowerUp /\ timer_PR2_power \in Timer(PowerUp) /\ PowerUp \in Nat
        BY StationAssumption DEF WarmInv, RoundInv, TypeOK
    <1>4. TimeLeft = 0
        BY <1>1, <1>3, TimerSteps DEF Entered, TimeLeft
    <1> QED
        BY <1>2, <1>3, <1>4 DEF WarmInv, Warming

\* The loop sends no command to a probe that has not been powered for PowerUp
\* (WarmWhenAsked), also when timer_L3 fires in the middle of a round.
THEOREM ProbesAskedWarm == Spec => WarmWhenAsked
    <1>1. Init => Warming
        BY StationAssumption DEF Init, Warming, TimeLeft, TimerReset
    <1>2. Init => WarmInv
        BY <1>1, RoundInit DEF WarmInv
    <1>3. WarmInv /\ [Next]_vars => WarmInv'
        BY WarmingNext, RoundNext DEF WarmInv
    <1> QED
        BY <1>2, <1>3, WarmStep, PTL DEF Spec, WarmWhenAsked
-----------------------------------------------------------------------------
\* The commands finished in this round, and the latest age of timer_L3 at the start
\* of the pass that sends the command after p of them.
Done == iss * n_fields + icmd[iss]
Sends(p) == PowerUp + 2 * MaxPass + p * (MaxDelay + 3 * MaxPass)

\* A Timer with this deadline ends in time: it still runs, or the loop has had a
\* pass at most to see that it has ended.
Grace == IF pc = "PR2" THEN MaxPass ELSE 0
EndsBy(t, deadline) ==
    IF t.left > 0 THEN ageL3 + t.left <= deadline ELSE ageL3 <= deadline + passTime + Grace

\* The round is on time: the power-up, the delay of the current command, and the pass
\* that sends the next.
PowerInTime == timer_PR2_power.running => EndsBy(timer_PR2_power, PowerUp + MaxPass)
DelayInTime == sdi12_delay_timer.running =>
                   EndsBy(sdi12_delay_timer, Sends(Done) + MaxPass + MaxDelay)
SendsInTime == ~timer_PR2_power.running /\ ~sdi12_delay_timer.running =>
                   ageL3 + (IF pc = "L3" THEN MaxPass ELSE 0) <= Sends(Done) + passTime
OnTime == ticked /\ ~pr2_all_finished => PowerInTime /\ DelayInTime /\ SendsInTime

\* Before the first tick of timer_L3 there is one pass, and it can only send a command.
FirstPass ==
    ~ticked => /\ ageL3 >= L3
               /\ ~pr2_all_finished
               /\ \A i \in Sensors : rows[i] = 0
               /\ pc = "PR2" => ~sdi12_delay_timer.running

\* The sensors before the current one have been served, the others not yet.
Served ==
    IF pr2_all_finished
    THEN \A i \in Sensors : rows[i] <= 1 /\ (i \in Answering => rows[i] = 1)
    ELSE \A i \in Sensors :
            IF i < iss THEN rows[i] <= 1 /\ (i \in Answering => rows[i] = 1) ELSE rows[i] = 0

CompleteInv == Timely => ageL3 <= L3 + passTime /\ FirstPass /\ OnTime /\ Served

-----------------------------------------------------------------------------
LEMMA Times == /\ PowerUp \in Nat \ {0} /\ MaxPass \in Nat /\ MaxDelay \in Nat \ {0}
               /\ n_pr2_sensors \in Nat \ {0}
    BY StationAssumption, BusAssumption

\* Sends as the steps use it.
LEMMA SendsFacts ==
    /\ \A p \in Nat : Sends(p) \in Nat /\ PowerUp + 2 * MaxPass <= Sends(p)
    /\ \A p \in Nat : Sends(p + 1) = Sends(p) + MaxDelay + 3 * MaxPass
    /\ \A p, q \in Nat : p <= q => Sends(p) <= Sends(q)
    /\ Sends(n_pr2_sensors * n_fields) < RoundBound /\ RoundBound \in Nat
    <1> DEFINE C == MaxDelay + 3 * MaxPass
    <1>1. C \in Nat \ {0} /\ MaxPass <= C /\ 2 * MaxPass < C
        BY Times
    <1>2. \A p \in Nat : p * C \in Nat /\ Sends(p) = PowerUp + 2 * MaxPass + p * C
        BY <1>1 DEF Sends
    <1>3. \A p \in Nat : (p + 1) * C = p * C + C
        BY <1>1
    <1>4. \A p, q \in Nat : p <= q => p * C <= q * C
        BY <1>1
    <1>5. PICK n \in Nat : n = n_pr2_sensors * n_fields
        BY Times DEF n_fields
    <1>6. RoundBound = PowerUp + (n + 1) * C
        BY <1>5 DEF RoundBound
    <1> HIDE DEF C
    <1> QED
        <2>1. \A p \in Nat : Sends(p) \in Nat /\ PowerUp + 2 * MaxPass <= Sends(p)
            BY <1>2, Times
        <2>2. \A p \in Nat : Sends(p + 1) = Sends(p) + C
            BY <1>1, <1>2, <1>3, Times
        <2>3. \A p, q \in Nat : p <= q => Sends(p) <= Sends(q)
            BY <1>2, <1>4, Times
        <2>4. Sends(n) < RoundBound /\ RoundBound \in Nat
            BY <1>1, <1>2, <1>3, <1>5, <1>6, Times
        <2> QED
            BY <1>5, <2>1, <2>2, <2>3, <2>4, Times DEF C

\* How many commands can be finished.
LEMMA DoneRange ==
    ASSUME TypeOK
    PROVE  /\ Done \in Nat /\ Done + 1 <= n_pr2_sensors * n_fields
           /\ n_pr2_sensors * n_fields \in Nat
    <1>1. iss \in 0 .. n_pr2_sensors - 1 /\ icmd[iss] \in 0 .. 2
        BY DEF TypeOK, Sensors, Commands, n_fields
    <1>2. PICK c \in 0 .. 2 : c = icmd[iss]
        BY <1>1
    <1> QED
        BY <1>1, <1>2, Times DEF Done, n_fields

\* The types the proofs below use.
LEMMA Typed ==
    ASSUME TypeOK
    PROVE  /\ ageL3 \in Nat /\ passTime \in Nat /\ passTime <= MaxPass
           /\ timer_PR2_power \in Timer(PowerUp) /\ sdi12_delay_timer \in Timer(MaxDelay)
           /\ timer_PR2_power.left \in Nat /\ sdi12_delay_timer.left \in Nat
           /\ timer_PR2_power.left <= PowerUp /\ sdi12_delay_timer.left <= MaxDelay
           /\ pc \in {"PR2", "L3"} /\ iss \in Nat /\ iss \in Sensors
           /\ L3 \in Nat \ {0}
    BY Times, StationAssumption DEF TypeOK, BusTypeOK, Timer, Sensors, L3

\* The latest that a command after those finished is in time for the next.
LEMMA NextInTime ==
    ASSUME TypeOK
    PROVE  /\ Sends(Done) \in Nat /\ PowerUp + 2 * MaxPass <= Sends(Done)
           /\ Sends(Done + 1) = Sends(Done) + MaxDelay + 3 * MaxPass
           /\ Sends(Done + 1) < RoundBound
           /\ \A q \in Nat : Done + 1 <= q => Sends(Done + 1) <= Sends(q)
    <1>1. PICK p, n \in Nat : p = Done /\ n = n_pr2_sensors * n_fields /\ p + 1 <= n
        BY DoneRange
    <1>2. p + 1 \in Nat /\ Sends(p + 1) \in Nat /\ Sends(n) \in Nat /\ RoundBound \in Nat
        BY SendsFacts
    <1>3. Sends(p + 1) <= Sends(n) /\ Sends(n) < RoundBound
        BY <1>1, <1>2, SendsFacts
    <1>4. Sends(p + 1) < RoundBound
        BY <1>2, <1>3
    <1>5. /\ Sends(p) \in Nat /\ PowerUp + 2 * MaxPass <= Sends(p)
          /\ Sends(p + 1) = Sends(p) + MaxDelay + 3 * MaxPass
          /\ \A q \in Nat : p + 1 <= q => Sends(p + 1) <= Sends(q)
        BY <1>1, <1>2, SendsFacts
    <1> QED
        BY <1>1, <1>4, <1>5

-----------------------------------------------------------------------------
\* In a pass that works on the probes nothing is late.
LEMMA EnteredInTime ==
    ASSUME TypeOK, ticked, OnTime, Entered
    PROVE  /\ pc = "PR2" /\ pc' = "L3" /\ ~pr2_all_finished
           /\ ~timer_PR2_power'.running
           /\ ageL3' = ageL3 /\ passTime' = passTime /\ ticked' = ticked
           /\ ~sdi12_delay_timer.running => ageL3 <= Sends(Done) + passTime
           /\ sdi12_delay_timer.running /\ sdi12_delay_timer.left > 0 =>
                ageL3 + sdi12_delay_timer.left <= Sends(Done) + MaxPass + MaxDelay
           /\ sdi12_delay_timer.running /\ sdi12_delay_timer.left = 0 =>
                ageL3 <= Sends(Done) + 2 * MaxPass + MaxDelay + passTime
    <1>1. /\ pc = "PR2" /\ pc' = "L3" /\ ~pr2_all_finished
          /\ After(timer_PR2_power) /\ timer_PR2_power' = Polled(timer_PR2_power)
          /\ ageL3' = ageL3 /\ passTime' = passTime /\ ticked' = ticked
        BY DEF Entered, loopTime
    <1>2. PowerInTime /\ DelayInTime /\ SendsInTime
        BY <1>1 DEF OnTime
    <1>3. ~timer_PR2_power'.running /\ (timer_PR2_power.running => timer_PR2_power.left = 0)
        BY <1>1, Typed, Times, TimerSteps
    <1>4. timer_PR2_power.running => ageL3 <= Sends(Done) + passTime
        <2>1. timer_PR2_power.running => ageL3 <= PowerUp + MaxPass + passTime + MaxPass
            BY <1>1, <1>2, <1>3, Typed, Times DEF PowerInTime, EndsBy, Grace
        <2> QED
            BY <2>1, Typed, Times, NextInTime
    <1>5. ~timer_PR2_power.running /\ ~sdi12_delay_timer.running => ageL3 <= Sends(Done) + passTime
        BY <1>1, <1>2, Typed, NextInTime DEF SendsInTime
    <1>6. sdi12_delay_timer.running /\ sdi12_delay_timer.left > 0 =>
                ageL3 + sdi12_delay_timer.left <= Sends(Done) + MaxPass + MaxDelay
        BY <1>2 DEF DelayInTime, EndsBy
    <1>7. sdi12_delay_timer.running /\ sdi12_delay_timer.left = 0 =>
                ageL3 <= Sends(Done) + 2 * MaxPass + MaxDelay + passTime
        <2>1. sdi12_delay_timer.running /\ sdi12_delay_timer.left = 0 =>
                ageL3 <= Sends(Done) + MaxPass + MaxDelay + passTime + MaxPass
            BY <1>1, <1>2 DEF DelayInTime, EndsBy, Grace
        <2> QED
            BY <2>1, Typed, Times, NextInTime
    <1> QED
        BY <1>1, <1>3, <1>4, <1>5, <1>6, <1>7

\* After a command that is not waited for, finished or given up, the next is in time.
LEMMA FinishedInTime ==
    ASSUME TypeOK, TypeOK', ~timer_PR2_power'.running, ~sdi12_delay_timer'.running, pc' = "L3",
           ageL3' = ageL3, passTime' = passTime, Done + 1 <= Done',
           ageL3 <= Sends(Done) + 2 * MaxPass + MaxDelay + passTime
    PROVE  PowerInTime' /\ DelayInTime' /\ SendsInTime'
    <1>1. Done' \in Nat /\ Sends(Done') \in Nat
        <2>1. PICK c \in 0 .. 2 : c = icmd'[iss']
            BY DEF TypeOK, Sensors, Commands, n_fields
        <2>2. iss' \in 0 .. n_pr2_sensors - 1
            BY DEF TypeOK, Sensors
        <2>3. Done' \in Nat
            BY <2>1, <2>2, Times DEF Done, n_fields
        <2> QED
            BY <2>3, SendsFacts
    <1>2. Sends(Done + 1) <= Sends(Done')
        BY <1>1, NextInTime
    <1>3. Sends(Done + 1) = Sends(Done) + MaxDelay + 3 * MaxPass
        BY NextInTime
    <1>4. ageL3' + MaxPass <= Sends(Done') + passTime'
        BY <1>1, <1>2, <1>3, Typed, Times, NextInTime
    <1> QED
        BY <1>4 DEF PowerInTime, DelayInTime, SendsInTime

\* Nobody is late when timer_L3 fires: in time, the round is over by then.
LEMMA TickFindsFinished ==
    ASSUME TypeOK, Timely, OnTime, ticked, pc = "L3", ageL3 >= L3
    PROVE  pr2_all_finished
    <1> SUFFICES ASSUME ~pr2_all_finished PROVE FALSE
        BY DEF TypeOK
    <1>1. PowerInTime /\ DelayInTime /\ SendsInTime
        BY DEF OnTime
    <1>2. L3 >= RoundBound /\ RoundBound \in Nat
        BY SendsFacts DEF Timely
    <1>3. timer_PR2_power.running => ageL3 <= PowerUp + MaxPass + passTime
        BY <1>1, Typed, Times DEF PowerInTime, EndsBy, Grace
    <1>4. sdi12_delay_timer.running => ageL3 <= Sends(Done) + MaxPass + MaxDelay + passTime
        BY <1>1, Typed, Times, NextInTime DEF DelayInTime, EndsBy, Grace
    <1>5. ~timer_PR2_power.running /\ ~sdi12_delay_timer.running => ageL3 <= Sends(Done) + passTime
        BY <1>1, Typed, Times, NextInTime DEF SendsInTime
    <1>6. /\ Sends(Done) \in Nat /\ PowerUp + 2 * MaxPass <= Sends(Done)
          /\ Sends(Done) + MaxDelay + 3 * MaxPass < RoundBound
        BY NextInTime
    <1>7. ageL3 < RoundBound
        BY <1>2, <1>3, <1>4, <1>5, <1>6, Typed, Times
    <1> QED
        BY <1>2, <1>7, Typed

\* The commands finished, after the current one and after a sensor that was given up.
LEMMA DoneAfter ==
    ASSUME RoundInv
    PROVE  /\ (iss' = iss /\ icmd' = [icmd EXCEPT ![iss] = @ + 1]) => Done' = Done + 1
           /\ (ResetReader /\ iss' = NextSensor /\ iss # Last) => Done + 1 <= Done'
    <1>1. TypeOK /\ OneReaderAtATime
        BY DEF RoundInv, RoundConsistent
    <1>2. iss \in Nat /\ iss \in Sensors /\ icmd[iss] \in 0 .. 2 /\ icmd \in [Sensors -> Commands]
        BY <1>1, Typed DEF TypeOK, Commands, n_fields
    <1>3. ASSUME iss' = iss, icmd' = [icmd EXCEPT ![iss] = @ + 1] PROVE Done' = Done + 1
        <2>1. icmd'[iss'] = icmd[iss] + 1
            BY <1>2, <1>3
        <2> QED
            BY <1>2, <1>3, <2>1 DEF Done, n_fields
    <1>4. ASSUME ResetReader, iss' = NextSensor, iss # Last PROVE Done + 1 <= Done'
        <2>1. iss' = iss + 1 /\ iss' \in Sensors
            BY <1>2, <1>4, SensorRange DEF NextSensor
        <2>2. icmd'[iss'] = 0
            <3>1. icmd[iss'] = 0 /\ iss' # iss
                BY <1>1, <1>2, <2>1 DEF OneReaderAtATime
            <3> QED
                BY <1>2, <1>4, <2>1, <3>1 DEF ResetReader
        <2> QED
            BY <1>2, <2>1, <2>2 DEF Done, n_fields
    <1> QED
        BY <1>3, <1>4

LEMMA SkippedIsNotLast ==
    ASSUME Timely, RequestFailed
    PROVE  iss # Last /\ iss \notin Answering
    BY DEF RequestFailed, Timely, Healthy, Accepted

LEMMA OnTimeNext ==
    ASSUME RoundInv, Timely, CompleteInv, [Next]_vars
    PROVE  OnTime'
    <1>0. TypeOK /\ TypeOK' /\ OnTime /\ FirstPass /\ ageL3 <= L3 + passTime
        BY RoundNext DEF RoundInv, CompleteInv
    <1> SUFFICES ASSUME ticked', ~pr2_all_finished'
                 PROVE  PowerInTime' /\ DelayInTime' /\ SendsInTime'
        BY DEF OnTime
    <1>a. ticked /\ ~pr2_all_finished => PowerInTime /\ DelayInTime /\ SendsInTime
        BY <1>0 DEF OnTime
    <1>b. MaxPass < RoundBound /\ L3 >= RoundBound
        <2>1. PICK r \in Nat, q \in Nat : r = RoundBound /\ q = Sends(Done) /\ PowerUp + 2 * MaxPass <= q
                                          /\ q + MaxDelay + 3 * MaxPass < r
            BY <1>0, NextInTime, SendsFacts
        <2> QED
            BY <2>1, Times DEF Timely
    <1>c. scenario' = scenario
        BY DEF Next, vars
    <1>1. CASE UNCHANGED vars
        <2>1. /\ ticked /\ ~pr2_all_finished
              /\ UNCHANGED <<timer_PR2_power, sdi12_delay_timer, ageL3, passTime, pc>>
              /\ Done' = Done
            BY <1>1 DEF vars, bus, readers, supply, loopTime, Done
        <2> QED
            BY <1>a, <2>1 DEF PowerInTime, DelayInTime, SendsInTime, EndsBy, Grace
    <1>2. CASE NotEntered
        <2>1. /\ ticked /\ ~pr2_all_finished /\ ~After(timer_PR2_power)
              /\ UNCHANGED <<timer_PR2_power, sdi12_delay_timer, ageL3, passTime>>
              /\ pc = "PR2" /\ pc' = "L3" /\ Done' = Done
            BY <1>2 DEF NotEntered, bus, readers, supply, loopTime, Done
        <2>2. timer_PR2_power.running /\ timer_PR2_power.left > 0
            BY <1>0, <2>1, Typed, Times, TimerSteps
        <2>3. ageL3 + timer_PR2_power.left <= PowerUp + MaxPass
            BY <1>a, <2>1, <2>2 DEF PowerInTime, EndsBy
        <2>4. ageL3 <= Sends(Done) + MaxPass + MaxDelay + passTime
            BY <1>0, <2>2, <2>3, Typed, Times, NextInTime
        <2>5. PowerInTime'
            BY <2>1, <2>2, <2>3 DEF PowerInTime, EndsBy
        <2>6. DelayInTime'
            <3>1. CASE sdi12_delay_timer.left > 0
                BY <1>a, <2>1, <3>1 DEF DelayInTime, EndsBy
            <3>2. CASE ~(sdi12_delay_timer.left > 0)
                <4>1. ageL3' <= Sends(Done') + MaxPass + MaxDelay + passTime' + 0
                    BY <1>0, <2>1, <2>4, Typed, Times, NextInTime
                <4> QED
                    BY <2>1, <3>2, <4>1 DEF DelayInTime, EndsBy, Grace
            <3> QED
                BY <3>1, <3>2
        <2>7. SendsInTime'
            BY <2>1, <2>2 DEF SendsInTime
        <2> QED
            BY <2>5, <2>6, <2>7
    <1>3. CASE RequestFailed
        <2>1. Entered /\ ResetReader /\ iss' = NextSensor /\ ~sdi12_delay_timer.running
              /\ pr2_all_finished' = pr2_all_finished
            BY <1>3 DEF RequestFailed
        <2>2. sdi12_delay_timer' = sdi12_delay_timer
            <3>1. PICK ack \in Acknowledgements :
                    ~Accepted(ack) /\ measureRequest("PR2", iss, icmd[iss], ack)
                BY <1>3 DEF RequestFailed
            <3> QED
                BY <1>0, <3>1, Requested DEF TypeOK
        <2>3. ticked
            BY <2>1 DEF Entered, loopTime
        <2>4. Done + 1 <= Done'
            BY <1>3, <2>1, DoneAfter, SkippedIsNotLast
        <2>5. ageL3 <= Sends(Done) + passTime
            BY <1>0, <2>1, <2>3, EnteredInTime
        <2>6. ageL3 <= Sends(Done) + 2 * MaxPass + MaxDelay + passTime
            BY <1>0, <2>5, Typed, Times, NextInTime
        <2> QED
            BY <1>0, <2>1, <2>2, <2>3, <2>4, <2>6, EnteredInTime, FinishedInTime
    <1>4. CASE RequestSent
        <2>1. Entered /\ ~sdi12_delay_timer.running /\ UNCHANGED <<iss, icmd>>
            BY <1>4 DEF RequestSent, readers
        <2>2. ticked
            BY <2>1 DEF Entered, loopTime
        <2>3. PICK ack \in Acknowledgements :
                Accepted(ack) /\ measureRequest("PR2", iss, icmd[iss], ack)
            BY <1>4 DEF RequestSent
        <2>4. /\ sdi12_delay_timer'.running /\ sdi12_delay_timer'.left \in 1 .. MaxDelay
            BY <2>3, Times DEF measureRequest, Acknowledgements, Accepted, TimerReset
        <2>5. /\ ~timer_PR2_power'.running /\ ageL3' = ageL3
              /\ ageL3 <= Sends(Done) + passTime
            BY <1>0, <2>1, <2>2, EnteredInTime
        <2>6. Done' = Done
            BY <2>1 DEF Done
        <2>7. ageL3' + sdi12_delay_timer'.left <= Sends(Done') + MaxPass + MaxDelay
            BY <1>0, <2>4, <2>5, <2>6, Typed, Times, NextInTime
        <2>8. sdi12_delay_timer'.left > 0
            BY <2>4, Times
        <2> QED
            BY <2>4, <2>5, <2>7, <2>8 DEF PowerInTime, DelayInTime, SendsInTime, EndsBy
    <1>5. CASE Measuring
        <2>1. /\ Entered /\ sdi12_delay_timer.running /\ ~After(sdi12_delay_timer)
              /\ sdi12_delay_timer' = sdi12_delay_timer /\ Done' = Done
            BY <1>5 DEF Measuring, bus, readers, Done
        <2>2. ticked
            BY <2>1 DEF Entered, loopTime
        <2>3. sdi12_delay_timer.left > 0
            BY <1>0, <2>1, Typed, Times, TimerSteps
        <2>4. /\ ~timer_PR2_power'.running /\ ageL3' = ageL3
              /\ ageL3 + sdi12_delay_timer.left <= Sends(Done) + MaxPass + MaxDelay
            BY <1>0, <2>1, <2>2, <2>3, EnteredInTime
        <2> QED
            BY <2>1, <2>3, <2>4 DEF PowerInTime, DelayInTime, SendsInTime, EndsBy
    <1>6. CASE ReadField \/ ReadLast
        <2>1. PICK reply \in DataReplies :
                /\ Read(reply)
                /\ \/ iss' = iss /\ icmd' = [icmd EXCEPT ![iss] = @ + 1]
                   \/ ResetReader /\ iss' = NextSensor /\ pr2_all_finished' = (iss = Last)
            BY <1>6 DEF ReadField, ReadLast
        <2>2. /\ Entered /\ sdi12_delay_timer.running /\ After(sdi12_delay_timer)
              /\ sdi12_delay_timer' = Polled(sdi12_delay_timer)
            BY <2>1 DEF Read
        <2>3. ticked
            BY <2>2 DEF Entered, loopTime
        <2>4. sdi12_delay_timer.left = 0 /\ ~sdi12_delay_timer'.running
            BY <1>0, <2>2, Typed, Times, TimerSteps
        <2>5. Done + 1 <= Done'
            <3>1. CASE iss' = iss /\ icmd' = [icmd EXCEPT ![iss] = @ + 1]
                BY <1>0, <3>1, DoneAfter, DoneRange
            <3>2. CASE ResetReader /\ iss' = NextSensor /\ pr2_all_finished' = (iss = Last)
                BY <3>2, DoneAfter
            <3> QED
                BY <2>1, <3>1, <3>2
        <2>6. ageL3 <= Sends(Done) + 2 * MaxPass + MaxDelay + passTime
            BY <1>0, <2>2, <2>3, <2>4, EnteredInTime
        <2> QED
            BY <1>0, <2>2, <2>3, <2>4, <2>5, <2>6, EnteredInTime, FinishedInTime
    <1>7. CASE L3Wait
        <2>1. /\ ticked /\ ~pr2_all_finished
              /\ UNCHANGED <<timer_PR2_power, sdi12_delay_timer, ageL3>>
              /\ pc = "L3" /\ pc' = "PR2" /\ passTime' = 0 /\ Done' = Done
            BY <1>7 DEF L3Wait, bus, readers, supply, Done
        <2>2. PowerInTime'
            <3>1. CASE timer_PR2_power.left > 0
                BY <1>a, <2>1, <3>1 DEF PowerInTime, EndsBy
            <3>2. CASE ~(timer_PR2_power.left > 0)
                <4>1. timer_PR2_power.running => ageL3' <= PowerUp + MaxPass + passTime' + MaxPass
                    BY <1>0, <1>a, <2>1, <3>2, Typed, Times DEF PowerInTime, EndsBy, Grace
                <4> QED
                    BY <2>1, <3>2, <4>1 DEF PowerInTime, EndsBy, Grace
            <3> QED
                BY <3>1, <3>2
        <2>3. DelayInTime'
            <3>1. CASE sdi12_delay_timer.left > 0
                BY <1>a, <2>1, <3>1 DEF DelayInTime, EndsBy
            <3>2. CASE ~(sdi12_delay_timer.left > 0)
                <4>1. sdi12_delay_timer.running =>
                        ageL3' <= Sends(Done') + MaxPass + MaxDelay + passTime' + MaxPass
                    BY <1>0, <1>a, <2>1, <3>2, Typed, Times, NextInTime DEF DelayInTime, EndsBy, Grace
                <4> QED
                    BY <2>1, <3>2, <4>1 DEF DelayInTime, EndsBy, Grace
            <3> QED
                BY <3>1, <3>2
        <2>4. SendsInTime'
            <3>1. ~timer_PR2_power.running /\ ~sdi12_delay_timer.running =>
                    ageL3' + 0 <= Sends(Done') + passTime'
                BY <1>0, <1>a, <2>1, Typed, Times, NextInTime DEF SendsInTime
            <3> QED
                BY <2>1, <3>1 DEF SendsInTime
        <2> QED
            BY <2>2, <2>3, <2>4
    <1>8. CASE L3Tick
        <2>1. /\ pc = "L3" /\ ageL3 >= L3 /\ ageL3' = ageL3 % L3 /\ passTime' = 0
              /\ timer_PR2_power' = [running |-> TRUE, left |-> PowerUp]
              /\ sdi12_delay_timer' = sdi12_delay_timer /\ Done' = Done
            BY <1>8 DEF L3Tick, TimerReset, bus, Done
        <2>2. ageL3' <= MaxPass /\ ageL3' \in Nat
            <3>1. MaxPass < L3 /\ ageL3 <= L3 + MaxPass
                <4>1. RoundBound \in Nat
                    BY SendsFacts
                <4> QED
                    BY <1>0, <1>b, <4>1, Typed, Times
            <3>2. \A a, l \in Nat : l <= a /\ a < 2 * l => a % l = a - l
                OBVIOUS
            <3> QED
                BY <1>0, <2>1, <3>1, <3>2, Typed, Times
        <2>3. PowerInTime'
            BY <2>1, <2>2, Times DEF PowerInTime, EndsBy
        <2>4. DelayInTime'
            <3>1. sdi12_delay_timer'.left \in Nat /\ sdi12_delay_timer'.left <= MaxDelay
                BY <1>0, <2>1, Typed
            <3>2. /\ ageL3' + sdi12_delay_timer'.left <= Sends(Done') + MaxPass + MaxDelay
                  /\ ageL3' <= Sends(Done') + MaxPass + MaxDelay + passTime'
                  /\ ageL3' <= Sends(Done') + MaxPass + MaxDelay + passTime' + MaxPass
                BY <1>0, <2>1, <2>2, <3>1, Times, NextInTime
            <3>3. pc' = "PR2"
                BY <1>8 DEF L3Tick
            <3> QED
                BY <3>2, <3>3 DEF DelayInTime, EndsBy, Grace
        <2>5. SendsInTime'
            BY <2>1 DEF SendsInTime
        <2> QED
            BY <2>3, <2>4, <2>5
    <1>9. CASE Tick
        <2>1. /\ ticked /\ ~pr2_all_finished /\ pc' = pc /\ Done' = Done
              /\ passTime' = passTime + 1 /\ ageL3' = ageL3 + 1
              /\ timer_PR2_power' = Elapsed(timer_PR2_power)
              /\ sdi12_delay_timer' = Elapsed(sdi12_delay_timer)
            BY <1>9 DEF Tick, readers, Done
        <2>2. ASSUME NEW t, t.left \in Nat, NEW t2, t2.left = IF t.left > 0 THEN t.left - 1 ELSE 0,
                     NEW deadline \in Nat, EndsBy(t, deadline)
              PROVE  /\ t2.left > 0 => ageL3' + t2.left <= deadline
                     /\ ~(t2.left > 0) => ageL3' <= deadline + passTime' + Grace'
            <3>1. Grace \in Nat /\ Grace' = Grace
                BY <2>1, Times DEF Grace
            <3>2. CASE t.left > 0
                BY <1>0, <2>1, <2>2, <3>1, <3>2, Typed DEF EndsBy
            <3>3. CASE t.left = 0
                BY <1>0, <2>1, <2>2, <3>1, <3>3, Typed DEF EndsBy
            <3> QED
                BY <2>2, <3>2, <3>3
        <2>3. /\ timer_PR2_power'.left = IF timer_PR2_power.left > 0 THEN timer_PR2_power.left - 1 ELSE 0
              /\ sdi12_delay_timer'.left = IF sdi12_delay_timer.left > 0 THEN sdi12_delay_timer.left - 1 ELSE 0
              /\ timer_PR2_power'.running = timer_PR2_power.running
              /\ sdi12_delay_timer'.running = sdi12_delay_timer.running
            BY <1>0, <2>1, Typed DEF Elapsed, Timer
        <2>4. PowerInTime'
            <3>1. CASE timer_PR2_power.running
                <4>1. EndsBy(timer_PR2_power, PowerUp + MaxPass) /\ PowerUp + MaxPass \in Nat
                    BY <1>a, <2>1, <3>1, Times DEF PowerInTime
                <4> QED
                    BY <1>0, <2>2, <2>3, <4>1, Typed DEF PowerInTime, EndsBy
            <3> QED
                BY <2>3, <3>1 DEF PowerInTime
        <2>5. DelayInTime'
            <3>1. CASE sdi12_delay_timer.running
                <4>1. /\ EndsBy(sdi12_delay_timer, Sends(Done) + MaxPass + MaxDelay)
                      /\ Sends(Done) + MaxPass + MaxDelay \in Nat
                    BY <1>0, <1>a, <2>1, <3>1, Times, NextInTime DEF DelayInTime
                <4> QED
                    BY <1>0, <2>1, <2>2, <2>3, <4>1, Typed DEF DelayInTime, EndsBy
            <3> QED
                BY <2>3, <3>1 DEF DelayInTime
        <2>6. SendsInTime'
            BY <1>0, <1>a, <2>1, <2>3, Typed, Times, NextInTime DEF SendsInTime
        <2> QED
            BY <2>4, <2>5, <2>6
    <1> QED
        BY <1>1, <1>2, <1>3, <1>4, <1>5, <1>6, <1>7, <1>8, <1>9
        DEF Next, Loop, collect_and_write_PR2

-----------------------------------------------------------------------------
LEMMA AgeNext ==
    ASSUME TypeOK, TypeOK', ageL3 <= L3 + passTime, [Next]_vars
    PROVE  ageL3' <= L3' + passTime'
    <1>0. L3' = L3
        BY DEF Next, vars, L3
    <1>1. CASE UNCHANGED <<ageL3, passTime>>
        BY <1>0, <1>1
    <1>2. CASE L3Wait \/ L3Tick
        <2>1. passTime' = 0 /\ ((ageL3' = ageL3 /\ ageL3 < L3) \/ ageL3' = ageL3 % L3)
            BY <1>2 DEF L3Wait, L3Tick
        <2>2. ageL3 % L3 < L3
            BY Typed
        <2> QED
            BY <1>0, <2>1, <2>2, Typed
    <1>3. CASE Tick
        BY <1>0, <1>3, Typed DEF Tick
    <1>4. NotEntered \/ collect_and_write_PR2 \/ UNCHANGED vars => UNCHANGED <<ageL3, passTime>>
        BY DEF NotEntered, collect_and_write_PR2, RequestFailed, RequestSent, Measuring, ReadField,
               ReadLast, Read, Entered, loopTime, vars
    <1> QED
        BY <1>1, <1>2, <1>3, <1>4 DEF Next, Loop

LEMMA FirstPassNext ==
    ASSUME TypeOK, TypeOK', FirstPass, [Next]_vars
    PROVE  FirstPass'
    <1> SUFFICES ASSUME ~ticked'
                 PROVE  /\ ageL3' >= L3' /\ ~pr2_all_finished'
                        /\ \A i \in Sensors : rows'[i] = 0
                        /\ pc' = "PR2" => ~sdi12_delay_timer'.running
        BY DEF FirstPass
    <1>0. L3' = L3
        BY DEF Next, vars, L3
    <1>a. ~ticked => /\ ageL3 >= L3 /\ ~pr2_all_finished
                     /\ \A i \in Sensors : rows[i] = 0
                     /\ pc = "PR2" => ~sdi12_delay_timer.running
        BY DEF FirstPass
    <1>1. CASE UNCHANGED vars
        BY <1>0, <1>1, <1>a DEF vars, bus, readers, supply, loopTime
    <1>2. CASE NotEntered
        BY <1>0, <1>2, <1>a DEF NotEntered, bus, readers, supply, loopTime
    <1>3. CASE RequestFailed \/ RequestSent \/ Measuring
        BY <1>0, <1>3, <1>a DEF RequestFailed, RequestSent, Measuring, Entered, bus, readers, loopTime
    <1>4. CASE ReadField \/ ReadLast
        <2>1. pc = "PR2" /\ sdi12_delay_timer.running /\ ticked' = ticked
            BY <1>4 DEF ReadField, ReadLast, Read, Entered, loopTime
        <2> QED
            BY <1>a, <2>1
    <1>5. CASE L3Wait
        BY <1>5, <1>a, Typed DEF L3Wait, loopTime
    <1>6. CASE L3Tick
        BY <1>6 DEF L3Tick
    <1>7. CASE Tick
        <2>1. /\ ticked' = ticked /\ ageL3' = ageL3 + 1 /\ pr2_all_finished' = pr2_all_finished
              /\ rows' = rows /\ pc' = pc /\ sdi12_delay_timer' = Elapsed(sdi12_delay_timer)
            BY <1>7 DEF Tick, readers
        <2>2. sdi12_delay_timer'.running = sdi12_delay_timer.running
            BY <2>1, Typed, Times, TimerSteps
        <2> QED
            BY <1>0, <1>a, <2>1, <2>2, Typed
    <1> QED
        BY <1>1, <1>2, <1>3, <1>4, <1>5, <1>6, <1>7 DEF Next, Loop, collect_and_write_PR2

LEMMA ServedNext ==
    ASSUME RoundInv, Timely, CompleteInv, [Next]_vars
    PROVE  Served'
    <1>0. /\ TypeOK /\ PowerFollowsRound /\ FirstPass /\ OnTime /\ Served
          /\ iss \in Nat /\ iss \in Sensors /\ rows \in [Sensors -> 0 .. 2]
          /\ pr2_all_finished \in BOOLEAN
        BY Typed DEF RoundInv, RoundConsistent, CompleteInv, TypeOK
    <1>c. scenario' = scenario /\ Answering' = Answering
        BY DEF Next, vars, Answering
    <1>k. UNCHANGED <<pr2_all_finished, iss, rows>> => Served'
        BY <1>0, <1>c DEF Served
    <1>s. ~pr2_all_finished =>
            \A i \in Sensors :
                IF i < iss THEN rows[i] <= 1 /\ (i \in Answering => rows[i] = 1) ELSE rows[i] = 0
        BY <1>0 DEF Served
    <1>n. iss # Last => NextSensor = iss + 1 /\ \A i \in Sensors : i < NextSensor <=> i < iss \/ i = iss
        BY <1>0, SensorRange DEF NextSensor
    <1>1. CASE RequestFailed
        <2>1. ~pr2_all_finished /\ ~pr2_all_finished' /\ rows' = rows /\ iss' = NextSensor
            BY <1>1 DEF RequestFailed, Entered
        <2>2. iss # Last /\ iss \notin Answering
            BY <1>1, SkippedIsNotLast
        <2>3. \A i \in Sensors :
                IF i < iss' THEN rows'[i] <= 1 /\ (i \in Answering => rows'[i] = 1) ELSE rows'[i] = 0
            BY <1>0, <1>n, <1>s, <2>1, <2>2
        <2> QED
            BY <1>c, <2>1, <2>3 DEF Served
    <1>2. CASE ReadLast
        <2>1. /\ ~pr2_all_finished /\ rows' = [rows EXCEPT ![iss] = Capped(@)]
              /\ iss' = NextSensor /\ pr2_all_finished' = (iss = Last)
            BY <1>2 DEF ReadLast, Read, Entered
        <2>2. rows'[iss] = 1
            BY <1>0, <1>s, <2>1 DEF Capped
        <2>3. \A i \in Sensors : i # iss => rows'[i] = rows[i]
            BY <1>0, <2>1
        <2>4. CASE iss = Last
            <3>1. \A i \in Sensors : i # iss => i < iss
                BY <2>4, Times DEF Sensors, Last
            <3>2. \A i \in Sensors : rows'[i] <= 1 /\ (i \in Answering => rows'[i] = 1)
                BY <1>0, <1>s, <2>1, <2>2, <2>3, <3>1
            <3> QED
                BY <1>c, <2>1, <2>4, <3>2 DEF Served
        <2>5. CASE iss # Last
            <3>1. \A i \in Sensors :
                    IF i < iss' THEN rows'[i] <= 1 /\ (i \in Answering => rows'[i] = 1) ELSE rows'[i] = 0
                BY <1>0, <1>n, <1>s, <2>1, <2>2, <2>3, <2>5
            <3>2. ~pr2_all_finished'
                BY <2>1, <2>5
            <3> QED
                BY <1>c, <3>1, <3>2 DEF Served
        <2> QED
            BY <2>4, <2>5
    <1>3. CASE L3Tick
        <2>1. /\ pc = "L3" /\ ageL3 >= L3 /\ ~pr2_all_finished' /\ iss' = iss
              /\ \A i \in Sensors : rows'[i] = 0
            BY <1>3 DEF L3Tick
        <2>2. \A i \in Sensors : i < iss => i \notin Answering
            <3>1. CASE ticked
                <4>1. pr2_all_finished
                    BY <1>0, <2>1, <3>1, TickFindsFinished
                <4>2. iss = 0
                    BY <1>0, <4>1 DEF PowerFollowsRound
                <4> QED
                    BY <4>2 DEF Sensors
            <3>2. CASE ~ticked
                <4>1. ~pr2_all_finished /\ \A i \in Sensors : rows[i] = 0
                    BY <1>0, <3>2 DEF FirstPass
                <4> QED
                    BY <1>s, <4>1
            <3> QED
                BY <3>1, <3>2
        <2> QED
            BY <1>c, <2>1, <2>2 DEF Served
    <1>4. NotEntered \/ RequestSent \/ Measuring \/ ReadField \/ L3Wait \/ Tick \/ UNCHANGED vars =>
            UNCHANGED <<pr2_all_finished, iss, rows>>
        BY DEF NotEntered, RequestSent, Measuring, ReadField, L3Wait, Tick, vars, readers, supply
    <1> QED
        BY <1>k, <1>1, <1>2, <1>3, <1>4 DEF Next, Loop, collect_and_write_PR2

LEMMA CompleteInit == ASSUME Init PROVE CompleteInv
    <1>1. TypeOK
        BY TypeInit
    <1>2. ageL3 = L3 /\ passTime = 0
        BY DEF Init
    <1>3. ~ticked /\ ~pr2_all_finished /\ iss = 0 /\ ~sdi12_delay_timer.running
          /\ \A i \in Sensors : rows[i] = 0
        BY DEF Init, BusInit, Stopped
    <1>4. FirstPass /\ OnTime /\ ageL3 <= L3 + passTime
        BY <1>1, <1>2, <1>3, Typed DEF FirstPass, OnTime
    <1>5. Served
        BY <1>3 DEF Served, Sensors
    <1> QED
        BY <1>4, <1>5 DEF CompleteInv

LEMMA CompleteNext == ASSUME RoundInv, CompleteInv, [Next]_vars PROVE CompleteInv'
    <1>0. TypeOK /\ TypeOK'
        BY RoundNext DEF RoundInv
    <1>1. Timely' <=> Timely
        BY DEF Next, vars, Timely, Answering, L3
    <1>2. ASSUME Timely PROVE ageL3' <= L3' + passTime' /\ FirstPass' /\ OnTime' /\ Served'
        BY <1>0, <1>2, AgeNext, FirstPassNext, OnTimeNext, ServedNext DEF CompleteInv
    <1> QED
        BY <1>1, <1>2 DEF CompleteInv

LEMMA CompleteImplies == ASSUME RoundInv, CompleteInv PROVE RoundComplete
    <1> SUFFICES ASSUME Timely
                 PROVE  /\ \A i \in Sensors : rows[i] <= 1
                        /\ pr2_all_finished => \A i \in Answering : rows[i] = 1
        BY DEF RoundComplete
    <1>1. TypeOK /\ Served /\ rows \in [Sensors -> 0 .. 2]
        BY DEF RoundInv, CompleteInv, TypeOK
    <1>2. Answering \subseteq Sensors
        BY <1>1, StationAssumption DEF TypeOK, Answering, Sensors
    <1> QED
        BY <1>1, <1>2 DEF Served

\* A round that is given RoundBound is complete (RoundComplete): no sensor has two
\* rows, and each that answers has one, for every number of sensors, whichever of those
\* before the last stay silent or babble, and however the passes of the loop lie.
THEOREM RoundIsComplete == Spec => []RoundComplete
    <1>1. Init => CompleteInv
        BY CompleteInit
    <1>2. RoundInv /\ CompleteInv /\ [Next]_vars => CompleteInv'
        BY CompleteNext
    <1>3. RoundInv /\ CompleteInv => RoundComplete
        BY CompleteImplies
    <1> QED
        BY <1>1, <1>2, <1>3, RoundInit, RoundNext, PTL DEF Spec

-----------------------------------------------------------------------------
\* A round that is given RoundBound implements MeasuringRound.

LEMMA RoundTyped ==
    ASSUME TypeOK
    PROVE  /\ iss \in Nat /\ iss < n_pr2_sensors /\ iss \in Sensors
           /\ n_pr2_sensors \in Nat \ {0} /\ Last = n_pr2_sensors - 1
           /\ pr2_all_finished \in BOOLEAN /\ rows \in [Sensors -> 0 .. 2]
    BY StationAssumption DEF TypeOK, Sensors, Last

LEMMA NoRowsIs == Round!NoRows = [i \in Sensors |-> 0]
    BY DEF Round!NoRows, Sensors

\* Which sensors answer is settled when the round is looked at.
LEMMA SameAnswering ==
    ASSUME [Next]_vars
    PROVE  Answering' = Answering
    BY DEF Next, vars, Answering

LEMMA RowOfTurn ==
    ASSUME RoundInv, Timely, CompleteInv, ReadLast, Answering' = Answering
    PROVE  Round!Next
    <1>1. /\ ~pr2_all_finished /\ rows' = [rows EXCEPT ![iss] = Capped(@)]
          /\ iss' = NextSensor /\ pr2_all_finished' = (iss = Last)
        BY DEF ReadLast, Read, Entered
    <1>2. TypeOK /\ Served
        BY DEF RoundInv, CompleteInv
    <1>3. Turn = iss /\ Turn < n_pr2_sensors /\ rows[iss] = 0
        BY <1>1, <1>2, RoundTyped DEF Turn, Served
    <1>4. rows' = [rows EXCEPT ![Turn] = @ + 1]
        BY <1>1, <1>2, <1>3, RoundTyped DEF Capped
    <1>5. Turn' = Turn + 1
        <2>1. CASE iss = Last
            <3>1. pr2_all_finished' = TRUE
                BY <1>1, <2>1
            <3>2. Turn' = n_pr2_sensors
                BY <3>1 DEF Turn
            <3> QED
                BY <1>2, <1>3, <2>1, <3>2, RoundTyped
        <2>2. CASE iss # Last
            BY <1>1, <1>3, <2>2 DEF Turn, NextSensor
        <2> QED
            BY <2>1, <2>2
    <1>6. Round!AppendRow
        BY <1>3, <1>4, <1>5 DEF Round!AppendRow
    <1> QED
        BY <1>6 DEF Round!Next

LEMMA SkippedInTurn ==
    ASSUME TypeOK, Timely, RequestFailed, Answering' = Answering
    PROVE  Round!Next
    <1>1. ~pr2_all_finished /\ ~pr2_all_finished' /\ rows' = rows /\ iss' = NextSensor
        BY DEF RequestFailed, Entered
    <1>2. iss # Last /\ iss \notin Answering
        BY SkippedIsNotLast
    <1>3. Turn = iss /\ Turn < n_pr2_sensors /\ Turn' = Turn + 1
        BY <1>1, <1>2, RoundTyped DEF Turn, NextSensor
    <1>4. Round!GiveUp
        BY <1>1, <1>2, <1>3 DEF Round!GiveUp
    <1> QED
        BY <1>4 DEF Round!Next

\* timer_L3 fires when the round is over, except for the first time after the start,
\* when no sensor has had a row.
LEMMA TickBetweenRounds ==
    ASSUME RoundInv, Timely, CompleteInv, L3Tick, Answering' = Answering
    PROVE  [Round!Next]_(Round!vars)
    <1>0. TypeOK /\ PowerFollowsRound /\ FirstPass /\ OnTime
        BY DEF RoundInv, RoundConsistent, CompleteInv
    <1>1. /\ pc = "L3" /\ ageL3 >= L3 /\ ~pr2_all_finished' /\ iss' = iss
          /\ rows' = [i \in Sensors |-> 0]
        BY DEF L3Tick
    <1>2. CASE ticked
        <2>1. pr2_all_finished
            BY <1>0, <1>1, <1>2, TickFindsFinished
        <2>2. iss = 0
            BY <1>0, <2>1 DEF PowerFollowsRound
        <2>3. Turn = n_pr2_sensors /\ Turn' = 0
            BY <1>1, <2>1, <2>2 DEF Turn
        <2>4. Round!StartRound
            BY <1>1, <2>3, NoRowsIs DEF Round!StartRound
        <2> QED
            BY <2>4 DEF Round!Next
    <1>3. CASE ~ticked
        <2>1. ~pr2_all_finished /\ \A i \in Sensors : rows[i] = 0
            BY <1>0, <1>3 DEF FirstPass
        <2>2. Turn' = Turn /\ rows' = rows
            BY <1>0, <1>1, <2>1, RoundTyped DEF Turn
        <2> QED
            BY <2>2 DEF Round!vars
    <1> QED
        BY <1>2, <1>3

LEMMA StationRoundInit == Init => Round!Init
    <1> SUFFICES ASSUME Init
                 PROVE  Turn = 0 /\ rows = Round!NoRows /\ Answering \subseteq 0 .. n_pr2_sensors - 1
        BY DEF Round!Init
    <1>1. Turn = 0 /\ rows = Round!NoRows
        BY NoRowsIs DEF Init, Turn
    <1>2. Answering \subseteq 0 .. n_pr2_sensors - 1
        BY StationAssumption DEF Init, Answering
    <1> QED
        BY <1>1, <1>2

LEMMA StationRoundNext ==
    RoundInv /\ CompleteInv /\ [Next]_vars => [Timely => Round!Next]_(Round!vars)
    <1> SUFFICES ASSUME RoundInv, CompleteInv, [Next]_vars, Timely
                 PROVE  [Round!Next]_(Round!vars)
        OBVIOUS
    <1>0. TypeOK /\ Answering' = Answering
        BY SameAnswering DEF RoundInv
    <1>1. CASE ReadLast
        BY <1>0, <1>1, RowOfTurn
    <1>2. CASE RequestFailed
        BY <1>0, <1>2, SkippedInTurn
    <1>3. CASE L3Tick
        BY <1>0, <1>3, TickBetweenRounds
    <1>4. CASE NotEntered \/ RequestSent \/ Measuring \/ ReadField \/ L3Wait \/ Tick \/ UNCHANGED vars
        <2>1. UNCHANGED <<pr2_all_finished, iss, rows>>
            BY <1>4 DEF NotEntered, RequestSent, Measuring, ReadField, L3Wait, Tick, vars, readers, supply
        <2>2. Turn' = Turn
            BY <2>1 DEF Turn
        <2> QED
            BY <1>0, <2>1, <2>2 DEF Round!vars
    <1> QED
        BY <1>1, <1>2, <1>3, <1>4 DEF Next, Loop, collect_and_write_PR2

\* The PR2 section implements MeasuringRound (RoundImplemented) when the last probe
\* answers and timer_L3 leaves RoundBound, for every number of probes, every choice of
\* those that answer and every speed of the loop: turns in order, a row or, for a probe
\* that need not answer, none in each, and the next round only after the last turn.
THEOREM StationImplementsRound == Spec => RoundImplemented
    <1>1. Init => Round!Init /\ RoundInv /\ CompleteInv
        BY StationRoundInit, RoundInit, CompleteInit
    <1>2. RoundInv /\ CompleteInv /\ [Next]_vars => [Timely => Round!Next]_(Round!vars)
        BY StationRoundNext
    <1>3. RoundInv /\ CompleteInv /\ [Next]_vars => RoundInv' /\ CompleteInv'
        BY RoundNext, CompleteNext
    <1> QED
        BY <1>1, <1>2, <1>3, PTL DEF Spec, RoundImplemented
=============================================================================
