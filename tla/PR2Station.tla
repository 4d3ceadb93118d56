----------------------------- MODULE PR2Station -----------------------------
(***************************************************************************)
(* The PR2 section of the loop of examples/hlavo-station: n_pr2_sensors    *)
(* soil-moisture profile probes on one SDI-12 bus, read one after another  *)
(* by PR2Reader objects without blocking the loop, and powered through one *)
(* pin from the tick of timer_L3 until the last probe has been read.       *)
(*                                                                         *)
(* One pass of the loop is two steps, collect_and_write_PR2 and the test   *)
(* of timer_L3; time passes before either.  A probe in Answering sends     *)
(* well-formed replies; any other may send anything, or nothing.  Which    *)
(* probes answer, and the interval of timer_L3, is the scenario.           *)
(***************************************************************************)
EXTENDS SDI12Comm

CONSTANTS
    n_pr2_sensors,
    Scenarios,   \* see below
    PowerUp,     \* interval of timer_PR2_power, in time units
    MaxPass      \* longest time a pass of the loop takes

ASSUME StationAssumption ==
    /\ n_pr2_sensors \in Nat \ {0}
    /\ PowerUp \in Nat \ {0} /\ MaxPass \in Nat
    /\ Scenarios \subseteq [answering : SUBSET (0 .. n_pr2_sensors - 1), L3 : Nat \ {0}]

VARIABLES
    scenario,
    pc,                \* next step of the loop: "PR2" or "L3"
    passTime,          \* time since the last test of timer_L3
    ageL3,             \* millis() - timer_L3.last
    power,             \* PR2_POWER_PIN is HIGH
    timer_PR2_power,
    pr2_all_finished,
    iss,
    icmd,              \* icmd of each PR2Reader
    data,              \* where each field of each PR2Reader::data comes from
    rows,              \* history: rows appended per sensor since L3 (2: or more)
    warm,              \* history: time since power went on (PowerUp: or more)
    ticked             \* history: timer_L3 has fired since boot

bus == <<sdi12_delay_timer, n_expected, measured>>
readers == <<iss, icmd, data, rows>>
supply == <<power, timer_PR2_power, pr2_all_finished, warm>>
loopTime == <<passTime, ageL3, ticked>>
vars == <<scenario, bus, readers, supply, pc, loopTime>>

\* The sensors whose replies are always valid, and the interval of timer_L3.
Answering == scenario.answering
L3 == scenario.L3

Sensors == 0 .. n_pr2_sensors - 1
Last == n_pr2_sensors - 1
n_fields == 3
Commands == 0 .. n_fields - 1

\* A field is zero, or holds the reply to a measurement of its own sensor and
\* command ("own") or of another ("foreign"), or was written before ("old").
Origins == {"zero", "own", "foreign", "old"}
PR2Data == [k \in Commands |-> "zero"]

Origin(k) == IF measured = [kind |-> "PR2", dev |-> iss, cmd |-> k] THEN "own" ELSE "foreign"

\* setPermitivity and setSoilMoisture copy all values, setRaw_ADC all but the
\* first.
Copied(k, n) == IF k = 2 THEN n - 1 ELSE n

Capped(n) == IF n < 2 THEN n + 1 ELSE 2

\* The sensor after the current one.
NextSensor == IF iss = Last THEN 0 ELSE iss + 1

\* PR2Reader::Reset of the current reader.
ResetReader ==
    /\ icmd' = [icmd EXCEPT ![iss] = 0]
    /\ data' = [data EXCEPT ![iss] = PR2Data]

-----------------------------------------------------------------------------
\* The section is entered: !pr2_all_finished && timer_PR2_power.after().
Entered ==
    /\ pc = "PR2"
    /\ ~pr2_all_finished
    /\ After(timer_PR2_power)
    /\ timer_PR2_power' = Polled(timer_PR2_power)
    /\ pc' = "L3"
    /\ UNCHANGED <<loopTime, warm>>

NotEntered ==
    /\ pc = "PR2"
    /\ pr2_all_finished \/ ~After(timer_PR2_power)
    /\ pc' = "L3"
    /\ UNCHANGED <<bus, readers, supply, loopTime>>

\* mutated form: a sensor that does not answer is tried again.
RequestFailed_Retry ==
    /\ Entered
    /\ ~sdi12_delay_timer.running
    /\ \E ack \in Acknowledgements :
        /\ ~Accepted(ack)
        /\ iss \in Answering => Healthy(ack)
        /\ measureRequest("PR2", iss, icmd[iss], ack)
    /\ ResetReader
    /\ UNCHANGED <<iss, power, pr2_all_finished, rows>>

\* A request without a valid reply: give the sensor up and go to the next.
\* After the last sensor the first is tried again, the round is not finished.
RequestFailed ==
    /\ Entered
    /\ ~sdi12_delay_timer.running
    /\ \E ack \in Acknowledgements :
        /\ ~Accepted(ack)
        /\ iss \in Answering => Healthy(ack)
        /\ measureRequest("PR2", iss, icmd[iss], ack)
    /\ ResetReader
    /\ iss' = NextSensor
    /\ UNCHANGED <<power, pr2_all_finished, rows>>

RequestSent ==
    /\ Entered
    /\ ~sdi12_delay_timer.running
    /\ \E ack \in Acknowledgements :
        /\ Accepted(ack)
        /\ iss \in Answering => Healthy(ack)
        /\ measureRequest("PR2", iss, icmd[iss], ack)
    /\ UNCHANGED <<readers, power, pr2_all_finished>>

\* The delay has not elapsed: nothing to do in this pass.
Measuring ==
    /\ Entered
    /\ sdi12_delay_timer.running
    /\ ~After(sdi12_delay_timer)
    /\ UNCHANGED <<bus, readers, power, pr2_all_finished>>

\* TryRead when the delay has elapsed.  The command counts as done whatever
\* the reply.
Read(reply) ==
    /\ Entered
    /\ sdi12_delay_timer.running
    /\ After(sdi12_delay_timer)
    /\ iss \in Answering => reply = [form |-> "frame", n |-> MaxValues]
    /\ sdi12_delay_timer' = Polled(sdi12_delay_timer)
    /\ UNCHANGED <<n_expected, measured>>

\* The current reader's data after the reply to its command.
Filled(reply) ==
    LET k == icmd[iss]
    IN  IF ~NoReply(reply) /\ Copied(k, n_values(reply)) > 0
        THEN [data[iss] EXCEPT ![k] = Origin(k)]
        ELSE data[iss]

ReadField ==
    \E reply \in DataReplies :
        /\ Read(reply)
        /\ icmd[iss] + 1 < n_fields
        /\ data' = [data EXCEPT ![iss] = Filled(reply)]
        /\ icmd' = [icmd EXCEPT ![iss] = @ + 1]
        /\ UNCHANGED <<iss, rows, power, pr2_all_finished>>

\* mutated form: the reader keeps its data for the next row.
ReadLast_KeepData ==
    \E reply \in DataReplies :
        /\ Read(reply)
        /\ icmd[iss] + 1 = n_fields
        /\ data' = [data EXCEPT ![iss] = [k \in Commands |->
                        IF Filled(reply)[k] = "zero" THEN "zero" ELSE "old"]]
        /\ icmd' = [icmd EXCEPT ![iss] = 0]
        /\ rows' = [rows EXCEPT ![iss] = Capped(@)]
        /\ iss' = NextSensor
        /\ pr2_all_finished' = (iss = Last)
        /\ power' = (iss # Last)

\* mutated form: the round is finished by the first sensor read.
ReadLast_AnySensor ==
    \E reply \in DataReplies :
        /\ Read(reply)
        /\ icmd[iss] + 1 = n_fields
        /\ ResetReader
        /\ rows' = [rows EXCEPT ![iss] = Capped(@)]
        /\ iss' = NextSensor
        /\ pr2_all_finished' = TRUE
        /\ power' = FALSE

\* The last command: append a row, reset the reader, and after the last
\* sensor finish the round and turn the power off.
ReadLast ==
    \E reply \in DataReplies :
        /\ Read(reply)
        /\ icmd[iss] + 1 = n_fields
        /\ ResetReader
        /\ rows' = [rows EXCEPT ![iss] = Capped(@)]
        /\ iss' = NextSensor
        /\ pr2_all_finished' = (iss = Last)
        /\ power' = (iss # Last)

-----------------------------------------------------------------------------
L3Wait ==
    /\ pc = "L3"
    /\ ageL3 < L3
    /\ pc' = "PR2"
    /\ passTime' = 0
    /\ UNCHANGED <<bus, readers, supply, ageL3, ticked>>

\* mutated form: the new round starts at the first sensor, whatever is under way.
L3Tick_Restart ==
    /\ pc = "L3"
    /\ ageL3 >= L3
    /\ ageL3' = ageL3 % L3
    /\ ticked' = TRUE
    /\ pr2_all_finished' = FALSE
    /\ power' = TRUE
    /\ warm' = IF power THEN warm ELSE 0
    /\ timer_PR2_power' = TimerReset(PowerUp)
    /\ rows' = [i \in Sensors |-> 0]
    /\ iss' = 0
    /\ pc' = "PR2"
    /\ passTime' = 0
    /\ UNCHANGED <<bus, icmd, data>>

\* mutated form: the timer of the power-up is not restarted.
L3Tick_NoWarmUp ==
    /\ pc = "L3"
    /\ ageL3 >= L3
    /\ ageL3' = ageL3 % L3
    /\ ticked' = TRUE
    /\ pr2_all_finished' = FALSE
    /\ power' = TRUE
    /\ warm' = IF power THEN warm ELSE 0
    /\ UNCHANGED timer_PR2_power
    /\ rows' = [i \in Sensors |-> 0]
    /\ pc' = "PR2"
    /\ passTime' = 0
    /\ UNCHANGED <<bus, iss, icmd, data>>

\* A new round: power on, and wait for the sensors to come up.
L3Tick ==
    /\ pc = "L3"
    /\ ageL3 >= L3
    /\ ageL3' = ageL3 % L3
    /\ ticked' = TRUE
    /\ pr2_all_finished' = FALSE
    /\ power' = TRUE
    /\ warm' = IF power THEN warm ELSE 0
    /\ timer_PR2_power' = TimerReset(PowerUp)
    /\ rows' = [i \in Sensors |-> 0]
    /\ pc' = "PR2"
    /\ passTime' = 0
    /\ UNCHANGED <<bus, iss, icmd, data>>

Tick ==
    /\ passTime < MaxPass
    /\ passTime' = passTime + 1
    /\ ageL3' = ageL3 + 1
    /\ timer_PR2_power' = Elapsed(timer_PR2_power)
    /\ sdi12_delay_timer' = Elapsed(sdi12_delay_timer)
    /\ warm' = IF power /\ warm < PowerUp THEN warm + 1 ELSE warm
    /\ UNCHANGED <<n_expected, measured, readers, power, pr2_all_finished, pc, ticked>>

\* setup(): power on, at least two seconds of delays, timer_L3.reset(true).
Init ==
    /\ scenario \in Scenarios
    /\ BusInit
    /\ power = TRUE
    /\ warm = PowerUp
    /\ timer_PR2_power = TimerReset(0)
    /\ pr2_all_finished = FALSE
    /\ iss = 0
    /\ icmd = [i \in Sensors |-> 0]
    /\ data = [i \in Sensors |-> PR2Data]
    /\ rows = [i \in Sensors |-> 0]
    /\ ageL3 = L3
    /\ ticked = FALSE
    /\ pc = "PR2"
    /\ passTime = 0

collect_and_write_PR2 ==
    RequestFailed \/ RequestSent \/ Measuring \/ ReadField \/ ReadLast

Loop == NotEntered \/ collect_and_write_PR2 \/ L3Wait \/ L3Tick

Next == (Loop \/ Tick) /\ UNCHANGED scenario

Spec == Init /\ [][Next]_vars

\* The loop keeps running and time keeps passing.
FairSpec == Spec /\ WF_vars(Loop /\ UNCHANGED scenario) /\ WF_vars(Tick /\ UNCHANGED scenario)

-----------------------------------------------------------------------------
TypeOK ==
    /\ scenario \in Scenarios
    /\ BusTypeOK
    /\ measured \in {NoOne} \cup [kind : {"PR2"}, dev : Sensors, cmd : Commands]
    /\ pc \in {"PR2", "L3"}
    /\ passTime \in 0 .. MaxPass
    /\ ageL3 \in Nat
    /\ power \in BOOLEAN /\ pr2_all_finished \in BOOLEAN
    /\ timer_PR2_power \in Timer(PowerUp)
    /\ iss \in Sensors
    /\ icmd \in [Sensors -> Commands]
    /\ data \in [Sensors -> [Commands -> Origins]]
    /\ rows \in [Sensors -> 0 .. 2]
    /\ warm \in 0 .. PowerUp
    /\ ticked \in BOOLEAN

\* The probes are powered exactly while a round is under way, and nothing is
\* under way without power: no measurement, no half-filled reader.
PowerFollowsRound ==
    /\ power <=> ~pr2_all_finished
    /\ ~power => /\ ~sdi12_delay_timer.running
                 /\ iss = 0
                 /\ \A i \in Sensors : icmd[i] = 0 /\ data[i] = PR2Data

\* Only the current reader is between its first and last command, and a
\* running delay timer is the delay of that reader's current command.
OneReaderAtATime ==
    /\ \A i \in Sensors : i # iss => icmd[i] = 0 /\ data[i] = PR2Data
    /\ sdi12_delay_timer.running => measured = [kind |-> "PR2", dev |-> iss, cmd |-> icmd[iss]]

\* A round is finished by a row of the last sensor and only so, and the last
\* sensor never has a second row in a round, whatever the replies.
LastRowEndsRound == pr2_all_finished <=> rows[Last] > 0

\* The three together: what the flags of the loop, the readers and the timer say of
\* the round agrees, whatever the probes send and whenever timer_L3 fires.
RoundConsistent == PowerFollowsRound /\ OneReaderAtATime /\ LastRowEndsRound

\* Every field that a row can contain was measured for that sensor and that
\* field, and not for a row written before.
FieldsOwn == \A i \in Sensors, k \in Commands : data[i][k] \in {"zero", "own"}

\* The loop sends no command to a probe that has not been powered for PowerUp.
\* (setup asks for the identification, aI!, one second after power-on: its exchange
\* is over before the loop begins and is not modelled.)
WarmWhenAsked ==
    [][collect_and_write_PR2 /\ ~Measuring => power /\ warm = PowerUp]_vars

\* The last sensor answers, and L3 leaves time for every command to wait for its
\* measurement and for three passes (the one in which the delay ends, the one that
\* reads, the one that sends the next command), and as much after the power-up.
RoundBound == PowerUp + (n_pr2_sensors * n_fields + 1) * (MaxDelay + 3 * MaxPass)
Timely == Last \in Answering /\ L3 >= RoundBound

\* Then every sensor has at most one row a round, and one that answers has it when
\* the round ends, whatever the sensors before the last one send.
RoundComplete ==
    Timely => /\ \A i \in Sensors : rows[i] <= 1
              /\ pr2_all_finished => \A i \in Answering : rows[i] = 1

\* The turn of a round; the round is over until L3 fires.
Turn == IF pr2_all_finished THEN n_pr2_sensors ELSE iss

Round == INSTANCE MeasuringRound WITH
    n <- n_pr2_sensors,
    turn <- Turn,
    answering <- Answering

\* Then the section implements the round, whatever the sensors before the last one
\* send: each has its turn once and in order, gets its row in it or is given up, which
\* happens to none that answers, and timer_L3 fires between rounds, never in one.
RoundImplemented == Round!Init /\ [][Timely => Round!Next]_(Round!vars)

\* Every round ends and the power goes off.
RoundEnds == Timely /\ ~pr2_all_finished ~> pr2_all_finished
=============================================================================
