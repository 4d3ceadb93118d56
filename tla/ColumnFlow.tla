----------------------------- MODULE ColumnFlow -----------------------------
(***************************************************************************)
(* The outflow of examples/hlavo-column: the water height is sampled by    *)
(* timer_L1 into a ring of n_H_avg samples, a height at the limit opens    *)
(* the outlet valve for the time of timer_outflow, and every sample writes *)
(* a row with the average height and the flux, which is not a number       *)
(* until the ring has been filled again.                                   *)
(*                                                                         *)
(* Heights are abstracted to what the code and the rows tell apart: a      *)
(* reading is below the limit, at the limit, or not a number (the sensor   *)
(* is out of its window), and a number is known by the fill of the column  *)
(* it was measured in: this one, or one before the last outflow.           *)
(*                                                                         *)
(* The daily reboot starts all of this from Init again, with the valve     *)
(* shut, and is not an action of its own.                                  *)
(***************************************************************************)
EXTENDS Integers

CONSTANTS
    n_H_avg,   \* samples in an average
    L1,        \* interval of timer_L1, in time units
    Outflow,   \* interval of timer_outflow
    MaxPass    \* longest time a pass of the loop takes

ASSUME FlowAssumption ==
    /\ n_H_avg \in Nat \ {0} /\ L1 \in Nat \ {0}
    /\ Outflow \in Nat \ {0} /\ MaxPass \in Nat

VARIABLES
    pc,                   \* next step of the loop: "L1" or "valve"
    passTime,             \* time since the last controlValveOut
    ageL1,                \* millis() - timer_L1.last
    H_window,             \* what each sample of the ring is
    n_H_collected,
    n_H_collected_start,
    previous_height,
    start_valve_out,
    valve_out_open,
    timer_outflow,        \* time left, and whether it runs
    reading,              \* the last reading of the sensor
    row,                  \* the last row appended
    sinceLimit            \* history: time since the last reading at the limit

window == <<H_window, n_H_collected, n_H_collected_start, previous_height>>
valve == <<start_valve_out, valve_out_open, timer_outflow>>
vars == <<pc, passTime, ageL1, window, valve, reading, row, sinceLimit>>

Readings == {"below", "limit", "nan"}

\* "fill": measured with the valve shut since the last outflow, or since boot;
\* "past": measured before or during the last outflow; "initial": the zero of
\* a global variable.
Heights == {"initial", "fill", "past", "nan"}

\* A height or flux in a row: a number of this fill, a number that mixes fills
\* or initial values, or not a number.
Figures == {"good", "mixed", "boot", "nan"}

Slots == 0 .. n_H_avg - 1
SinceCap == Outflow + L1 + MaxPass + 1

-----------------------------------------------------------------------------
\* Timer::after() and the passing of time.
After(t) == ~t.running \/ t.left = 0
Polled(t) == [t EXCEPT !.running = ~After(t)]
Elapsed(t) == [t EXCEPT !.left = IF @ > 0 THEN @ - 1 ELSE 0]

\* H_avg of a full ring.
Average(w) ==
    IF \E i \in Slots : w[i] = "nan" THEN "nan"
    ELSE IF \A i \in Slots : w[i] = "fill" THEN "good" ELSE "mixed"

\* (previous_height - H_avg) / timer_L1_period
Flux(average) ==
    IF average = "nan" \/ previous_height = "nan" THEN "nan"
    ELSE IF previous_height = "initial" THEN "boot"
    ELSE IF previous_height = "fill" /\ average = "good" THEN "good" ELSE "mixed"

\* What a reading is once it is in the ring.  Samples taken while the valve is
\* open do not belong to the next fill.
Sample(r) == IF r = "nan" THEN "nan" ELSE IF valve_out_open THEN "past" ELSE "fill"

-----------------------------------------------------------------------------
\* read_water_height, up to the check of the limit: the sample is stored.
Read(r) ==
    /\ pc = "L1"
    /\ ageL1 >= L1
    /\ ageL1' = ageL1 % L1
    /\ reading' = r
    /\ H_window' = [H_window EXCEPT ![n_H_collected] = Sample(r)]
    /\ pc' = "valve"
    /\ UNCHANGED <<passTime, valve_out_open, timer_outflow>>

Advanced == IF n_H_collected + 1 = n_H_avg THEN 0 ELSE n_H_collected + 1

\* No average while the valve is open or until n_H_avg samples were skipped.
NoAverage(started) ==
    /\ row' = [height |-> "nan", flux |-> "nan", pump_out |-> valve_out_open]
    /\ n_H_collected_start' = IF valve_out_open THEN started ELSE started + 1

\* mutated form: the height before the outflow is kept.
ReadLimit_KeepHeight ==
    /\ Read("limit")
    /\ start_valve_out' = TRUE
    /\ n_H_collected' = 0
    /\ sinceLimit' = 0
    /\ NoAverage(0)
    /\ UNCHANGED previous_height

\* The limit is reached: ask for the valve and start the averages over.
ReadLimit ==
    /\ Read("limit")
    /\ start_valve_out' = TRUE
    /\ n_H_collected' = 0
    /\ previous_height' = "nan"
    /\ sinceLimit' = 0
    /\ NoAverage(0)

ReadFilling ==
    /\ \E r \in {"below", "nan"} : Read(r)
    /\ n_H_collected' = Advanced
    /\ valve_out_open \/ n_H_collected_start < n_H_avg
    /\ NoAverage(n_H_collected_start)
    /\ UNCHANGED <<start_valve_out, previous_height, sinceLimit>>

\* mutated form: the previous height is not updated.
ReadAverage_Stuck ==
    /\ \E r \in {"below", "nan"} : Read(r)
    /\ n_H_collected' = Advanced
    /\ ~valve_out_open
    /\ n_H_collected_start >= n_H_avg
    /\ LET average == Average(H_window')
       IN  row' = [height |-> average, flux |-> Flux(average), pump_out |-> FALSE]
    /\ UNCHANGED <<start_valve_out, n_H_collected_start, previous_height, sinceLimit>>

ReadAverage ==
    /\ \E r \in {"below", "nan"} : Read(r)
    /\ n_H_collected' = Advanced
    /\ ~valve_out_open
    /\ n_H_collected_start >= n_H_avg
    /\ LET average == Average(H_window')
       IN  /\ row' = [height |-> average, flux |-> Flux(average), pump_out |-> FALSE]
           /\ previous_height' = IF average = "nan" THEN "nan" ELSE "fill"
    /\ UNCHANGED <<start_valve_out, n_H_collected_start, sinceLimit>>

L1Wait ==
    /\ pc = "L1"
    /\ ageL1 < L1
    /\ pc' = "valve"
    /\ UNCHANGED <<passTime, ageL1, window, valve, reading, row, sinceLimit>>

-----------------------------------------------------------------------------
\* mutated form: the request to open stays up.
ValveOpens_KeepFlag ==
    /\ pc = "valve"
    /\ start_valve_out
    /\ timer_outflow' = [running |-> TRUE, left |-> Outflow]
    /\ valve_out_open' = TRUE
    /\ pc' = "L1" /\ passTime' = 0
    /\ UNCHANGED <<ageL1, window, start_valve_out, reading, row, sinceLimit>>

\* mutated form: the outflow is not prolonged when the valve is open already.
ValveOpens_Once ==
    /\ pc = "valve"
    /\ start_valve_out
    /\ timer_outflow' = IF valve_out_open THEN timer_outflow
                        ELSE [running |-> TRUE, left |-> Outflow]
    /\ valve_out_open' = TRUE
    /\ start_valve_out' = FALSE
    /\ pc' = "L1" /\ passTime' = 0
    /\ UNCHANGED <<ageL1, window, reading, row, sinceLimit>>

\* controlValveOut: open, or prolong the outflow.
ValveOpens ==
    /\ pc = "valve"
    /\ start_valve_out
    /\ timer_outflow' = [running |-> TRUE, left |-> Outflow]
    /\ valve_out_open' = TRUE
    /\ start_valve_out' = FALSE
    /\ pc' = "L1" /\ passTime' = 0
    /\ UNCHANGED <<ageL1, window, reading, row, sinceLimit>>

\* The outflow is over: what was measured so far belongs to the past.
ValveShuts ==
    /\ pc = "valve"
    /\ ~start_valve_out
    /\ After(timer_outflow)
    /\ valve_out_open
    /\ timer_outflow' = Polled(timer_outflow)
    /\ valve_out_open' = FALSE
    /\ H_window' = [i \in Slots |-> IF H_window[i] = "fill" THEN "past" ELSE H_window[i]]
    /\ previous_height' = IF previous_height = "fill" THEN "past" ELSE previous_height
    /\ pc' = "L1" /\ passTime' = 0
    /\ UNCHANGED <<ageL1, n_H_collected, n_H_collected_start, start_valve_out,
                   reading, row, sinceLimit>>

ValveStays ==
    /\ pc = "valve"
    /\ ~start_valve_out
    /\ ~(After(timer_outflow) /\ valve_out_open)
    /\ timer_outflow' = Polled(timer_outflow)
    /\ pc' = "L1" /\ passTime' = 0
    /\ UNCHANGED <<ageL1, window, start_valve_out, valve_out_open, reading, row, sinceLimit>>

Tick ==
    /\ passTime < MaxPass
    /\ passTime' = passTime + 1
    /\ ageL1' = ageL1 + 1
    /\ timer_outflow' = Elapsed(timer_outflow)
    /\ sinceLimit' = IF sinceLimit < SinceCap THEN sinceLimit + 1 ELSE SinceCap
    /\ UNCHANGED <<pc, window, start_valve_out, valve_out_open, reading, row>>

Init ==
    /\ pc = "L1" /\ passTime = 0
    /\ ageL1 = L1       \* timer_L1.reset(true)
    /\ H_window = [i \in Slots |-> "initial"]
    /\ n_H_collected = 0 /\ n_H_collected_start = 0
    /\ previous_height = "initial"
    /\ start_valve_out = FALSE /\ valve_out_open = FALSE
    /\ timer_outflow = [running |-> FALSE, left |-> 0]
    /\ reading = "below"
    /\ row = [height |-> "nan", flux |-> "nan", pump_out |-> FALSE]
    /\ sinceLimit = SinceCap

read_water_height == ReadLimit \/ ReadFilling \/ ReadAverage
controlValveOut == ValveOpens \/ ValveShuts \/ ValveStays

Loop == read_water_height \/ L1Wait \/ controlValveOut

Next == Loop \/ Tick

Spec == Init /\ [][Next]_vars

\* The loop keeps running and time keeps passing.
FairSpec == Spec /\ WF_vars(Loop) /\ WF_vars(Tick)

-----------------------------------------------------------------------------
TypeOK ==
    /\ pc \in {"L1", "valve"}
    /\ passTime \in 0 .. MaxPass
    /\ ageL1 \in Nat
    /\ H_window \in [Slots -> Heights]
    /\ n_H_collected \in Slots
    /\ n_H_collected_start \in 0 .. n_H_avg
    /\ previous_height \in Heights
    /\ start_valve_out \in BOOLEAN /\ valve_out_open \in BOOLEAN
    /\ timer_outflow \in [running : BOOLEAN, left : 0 .. Outflow]
    /\ reading \in Readings
    /\ row \in [height : Figures, flux : Figures, pump_out : BOOLEAN]
    /\ sinceLimit \in 0 .. SinceCap

\* Every average written is of n_H_avg samples of the same fill, none from before
\* or during an outflow, none that was never measured; and no flux compares
\* heights from the two sides of an outflow.
FillsNotMixed == row.height # "mixed" /\ row.flux # "mixed"

\* The valve shuts only when Outflow has passed since the height was last at
\* the limit: a column still full prolongs the outflow.
OutflowComplete == [][ValveShuts => sinceLimit >= Outflow]_vars

\* ... and it is not left open longer than a pass of the loop.
OutflowEnds == valve_out_open => sinceLimit <= Outflow + 2 * MaxPass

\* When the height stays below the limit and the sensor in its window, every
\* row has a flux again from some point on.
FluxResumes == <>[](reading = "below") => <>[](row.flux = "good")
=============================================================================
