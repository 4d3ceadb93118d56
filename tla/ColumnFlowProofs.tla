-------------------------- MODULE ColumnFlowProofs --------------------------
(***************************************************************************)
(* The outflow of the column, for every length of the ring, every interval *)
(* and every speed of the loop: the outflow is complete and ends, and no   *)
(* figure of a row mixes samples of two fills.                             *)
(***************************************************************************)
EXTENDS ColumnFlow, TLAPS

\* The request to open waits for one step of the loop only.
Requests == start_valve_out => pc = "valve"

-----------------------------------------------------------------------------
LEMMA Numbers ==
    /\ n_H_avg \in Nat \ {0} /\ L1 \in Nat \ {0} /\ Outflow \in Nat \ {0} /\ MaxPass \in Nat
    /\ SinceCap \in Nat /\ SinceCap > Outflow + MaxPass
    BY FlowAssumption DEF SinceCap

LEMMA SlotsFact == 0 \in Slots /\ \A i \in Slots : i \in Nat /\ i < n_H_avg
    BY Numbers DEF Slots

\* timer_outflow after a call and after a unit of time.
LEMMA TimerSteps ==
    ASSUME NEW t \in [running : BOOLEAN, left : 0 .. Outflow]
    PROVE  /\ Polled(t) \in [running : BOOLEAN, left : 0 .. Outflow]
           /\ Polled(t).left = t.left
           /\ Polled(t).running <=> t.running /\ t.left # 0
           /\ Elapsed(t) \in [running : BOOLEAN, left : 0 .. Outflow]
           /\ Elapsed(t).running = t.running
           /\ Elapsed(t).left = IF t.left > 0 THEN t.left - 1 ELSE 0
    <1>1. t.running \in BOOLEAN /\ t.left \in 0 .. Outflow
        OBVIOUS
    <1>2. After(t) \in BOOLEAN /\ (After(t) <=> ~t.running \/ t.left = 0)
        BY DEF After
    <1>3. Polled(t) = [running |-> ~After(t), left |-> t.left]
        BY DEF Polled
    <1>4. Elapsed(t) = [running |-> t.running, left |-> IF t.left > 0 THEN t.left - 1 ELSE 0]
        BY DEF Elapsed
    <1>5. (IF t.left > 0 THEN t.left - 1 ELSE 0) \in 0 .. Outflow
        BY <1>1, Numbers
    <1>6. (~After(t)) \in BOOLEAN
        OBVIOUS
    <1>7. Polled(t) \in [running : BOOLEAN, left : 0 .. Outflow]
        BY <1>1, <1>3, <1>6
    <1>8. Elapsed(t) \in [running : BOOLEAN, left : 0 .. Outflow]
        BY <1>1, <1>4, <1>5
    <1>9. Polled(t).running = (~After(t)) /\ Polled(t).left = t.left
        BY <1>3
    <1>10. Elapsed(t).running = t.running
           /\ Elapsed(t).left = IF t.left > 0 THEN t.left - 1 ELSE 0
        BY <1>4
    <1> QED
        BY <1>1, <1>2, <1>7, <1>8, <1>9, <1>10

\* The fields of TypeOK that a sample works on.
LEMMA ReadTypes ==
    ASSUME TypeOK, NEW r \in Readings, Read(r)
    PROVE  /\ pc' \in {"L1", "valve"} /\ passTime' \in 0 .. MaxPass /\ ageL1' \in Nat
           /\ H_window' \in [Slots -> Heights]
           /\ valve_out_open' \in BOOLEAN
           /\ timer_outflow' \in [running : BOOLEAN, left : 0 .. Outflow]
           /\ reading' \in Readings
    <1>1. Sample(r) \in Heights
        BY DEF Sample, Heights
    <1>2. H_window' \in [Slots -> Heights]
        BY <1>1 DEF Read, TypeOK
    <1>3. ageL1' \in Nat
        BY Numbers DEF Read, TypeOK
    <1> QED
        BY <1>2, <1>3 DEF Read, TypeOK

LEMMA FiguresFact ==
    ASSUME NEW w
    PROVE  Average(w) \in Figures /\ Flux(Average(w)) \in Figures
    BY DEF Average, Flux, Figures

LEMMA TypeInit == Init => TypeOK
    <1> SUFFICES ASSUME Init PROVE TypeOK
        OBVIOUS
    <1>1. /\ 0 \in 0 .. MaxPass /\ 0 \in 0 .. n_H_avg /\ 0 \in 0 .. Outflow
          /\ L1 \in Nat /\ SinceCap \in 0 .. SinceCap
        BY Numbers
    <1>2. timer_outflow \in [running : BOOLEAN, left : 0 .. Outflow]
        BY <1>1 DEF Init
    <1>3. H_window \in [Slots -> Heights] /\ row \in [height : Figures, flux : Figures, pump_out : BOOLEAN]
        BY DEF Init, Heights, Figures
    <1> QED
        BY <1>1, <1>2, <1>3, SlotsFact DEF Init, TypeOK, Heights, Readings

LEMMA TypeNext == TypeOK /\ [Next]_vars => TypeOK'
    <1> SUFFICES ASSUME TypeOK, [Next]_vars PROVE TypeOK'
        OBVIOUS
    <1>1. CASE UNCHANGED vars
        BY <1>1 DEF vars, window, valve, TypeOK
    <1>2. CASE ReadLimit
        <2>1. Read("limit") /\ "limit" \in Readings
            BY <1>2 DEF ReadLimit, Readings
        <2>2. row' \in [height : Figures, flux : Figures, pump_out : BOOLEAN]
            BY <1>2 DEF ReadLimit, NoAverage, TypeOK, Figures
        <2>3. n_H_collected_start' \in 0 .. n_H_avg
            BY <1>2, Numbers DEF ReadLimit, NoAverage
        <2> QED
            BY <1>2, <2>1, <2>2, <2>3, ReadTypes, Numbers, SlotsFact DEF ReadLimit, TypeOK, Heights
    <1>3. CASE ReadFilling
        <2>1. PICK r \in Readings : Read(r)
            BY <1>3 DEF ReadFilling, Readings
        <2>2. row' \in [height : Figures, flux : Figures, pump_out : BOOLEAN]
            BY <1>3 DEF ReadFilling, NoAverage, TypeOK, Figures
        <2>3. n_H_collected_start' \in 0 .. n_H_avg /\ n_H_collected' \in Slots
            BY <1>3, Numbers DEF ReadFilling, NoAverage, Advanced, TypeOK, Slots
        <2> QED
            BY <1>3, <2>1, <2>2, <2>3, ReadTypes DEF ReadFilling, TypeOK
    <1>4. CASE ReadAverage
        <2>1. PICK r \in Readings : Read(r)
            BY <1>4 DEF ReadAverage, Readings
        <2>2. row' \in [height : Figures, flux : Figures, pump_out : BOOLEAN]
            BY <1>4, FiguresFact DEF ReadAverage
        <2>3. previous_height' \in Heights /\ n_H_collected' \in Slots
            BY <1>4, Numbers DEF ReadAverage, Advanced, TypeOK, Slots, Heights
        <2> QED
            BY <1>4, <2>1, <2>2, <2>3, ReadTypes DEF ReadAverage, TypeOK
    <1>5. CASE L1Wait
        BY <1>5 DEF L1Wait, window, valve, TypeOK
    <1>6. CASE ValveOpens
        <2>1. timer_outflow' \in [running : BOOLEAN, left : 0 .. Outflow] /\ 0 \in 0 .. MaxPass
            BY <1>6, Numbers DEF ValveOpens
        <2> QED
            BY <1>6, <2>1 DEF ValveOpens, window, TypeOK
    <1>7. CASE ValveShuts
        <2>1. H_window' \in [Slots -> Heights] /\ previous_height' \in Heights
            BY <1>7 DEF ValveShuts, TypeOK, Heights
        <2>2. timer_outflow' \in [running : BOOLEAN, left : 0 .. Outflow] /\ 0 \in 0 .. MaxPass
            BY <1>7, TimerSteps, Numbers DEF ValveShuts, TypeOK
        <2> QED
            BY <1>7, <2>1, <2>2 DEF ValveShuts, TypeOK
    <1>8. CASE ValveStays
        BY <1>8, TimerSteps, Numbers DEF ValveStays, window, TypeOK
    <1>9. CASE Tick
        <2>1. sinceLimit' \in 0 .. SinceCap /\ passTime' \in 0 .. MaxPass /\ ageL1' \in Nat
            BY <1>9, Numbers DEF Tick, TypeOK
        <2> QED
            BY <1>9, <2>1, TimerSteps DEF Tick, window, TypeOK
    <1> QED
        BY <1>1, <1>2, <1>3, <1>4, <1>5, <1>6, <1>7, <1>8, <1>9
            DEF Next, Loop, read_water_height, controlValveOut

-----------------------------------------------------------------------------
\* The outflow in time.  The limit was reached in this pass if a request to open is
\* waiting; otherwise an open valve has been open since the limit was last reached,
\* or was prolonged then, and its timer has the rest of Outflow to go.
TimerAtRest == ~timer_outflow.running => timer_outflow.left = 0

OutflowTime ==
    /\ start_valve_out => sinceLimit <= passTime
    /\ valve_out_open /\ ~start_valve_out =>
        /\ sinceLimit + timer_outflow.left >= Outflow
        /\ sinceLimit + timer_outflow.left <=
              Outflow + MaxPass + IF timer_outflow.left > 0 THEN 0 ELSE passTime
    /\ valve_out_open => sinceLimit <= Outflow + 2 * MaxPass

TimeInv == TypeOK /\ Requests /\ TimerAtRest /\ OutflowTime

LEMMA RequestsNext == Requests /\ [Next]_vars => Requests'
    <1> SUFFICES ASSUME Requests, [Next]_vars PROVE Requests'
        OBVIOUS
    <1>1. CASE UNCHANGED vars
        BY <1>1 DEF vars, valve, Requests
    <1>2. CASE read_water_height
        BY <1>2 DEF read_water_height, ReadLimit, ReadFilling, ReadAverage, Read, Requests
    <1>3. CASE L1Wait
        BY <1>3 DEF L1Wait, valve, Requests
    <1>4. CASE controlValveOut
        BY <1>4 DEF controlValveOut, ValveOpens, ValveShuts, ValveStays, Requests
    <1>5. CASE Tick
        BY <1>5 DEF Tick, Requests
    <1> QED
        BY <1>1, <1>2, <1>3, <1>4, <1>5 DEF Next, Loop

LEMMA TimeNumbers ==
    ASSUME TypeOK
    PROVE  /\ passTime \in 0 .. MaxPass /\ sinceLimit \in 0 .. SinceCap
           /\ timer_outflow \in [running : BOOLEAN, left : 0 .. Outflow]
           /\ timer_outflow.running \in BOOLEAN /\ timer_outflow.left \in 0 .. Outflow
           /\ start_valve_out \in BOOLEAN /\ valve_out_open \in BOOLEAN
    BY DEF TypeOK

LEMMA TimeInit == Init => TimeInv
    BY TypeInit DEF Init, TimeInv, Requests, TimerAtRest, OutflowTime

LEMMA TimeNext == TimeInv /\ [Next]_vars => TimeInv'
    <1> SUFFICES ASSUME TimeInv, [Next]_vars PROVE TimerAtRest' /\ OutflowTime'
        BY TypeNext, RequestsNext DEF TimeInv
    <1>a. TypeOK' /\ Requests /\ TimerAtRest /\ OutflowTime
        BY TypeNext DEF TimeInv
    <1>b. /\ passTime \in 0 .. MaxPass /\ sinceLimit \in 0 .. SinceCap
          /\ timer_outflow \in [running : BOOLEAN, left : 0 .. Outflow]
          /\ timer_outflow.running \in BOOLEAN /\ timer_outflow.left \in 0 .. Outflow
          /\ start_valve_out \in BOOLEAN /\ valve_out_open \in BOOLEAN
        BY TimeNumbers DEF TimeInv
    <1>1. CASE UNCHANGED <<passTime, sinceLimit, valve>>
        BY <1>1, <1>a DEF valve, TimerAtRest, OutflowTime
    <1>2. CASE ReadLimit
        BY <1>2, <1>a, <1>b, Numbers DEF ReadLimit, Read, Requests, TimerAtRest, OutflowTime
    <1>3. CASE ReadFilling \/ ReadAverage \/ L1Wait \/ UNCHANGED vars
        <2>1. UNCHANGED <<passTime, sinceLimit, valve>>
            BY <1>3 DEF ReadFilling, ReadAverage, Read, L1Wait, valve, vars
        <2> QED
            BY <1>1, <2>1
    <1>4. CASE ValveOpens
        <2>1. timer_outflow'.running = TRUE /\ timer_outflow'.left = Outflow
            BY <1>4 DEF ValveOpens
        <2>2. sinceLimit' = sinceLimit /\ start_valve_out
              /\ start_valve_out' = FALSE /\ valve_out_open' = TRUE /\ passTime' = 0
            BY <1>4 DEF ValveOpens
        <2>3. sinceLimit <= MaxPass
            BY <1>a, <1>b, <2>2, Numbers DEF OutflowTime
        <2>4. TimerAtRest'
            BY <2>1 DEF TimerAtRest
        <2>5. /\ sinceLimit + Outflow >= Outflow
              /\ sinceLimit + Outflow <= Outflow + MaxPass + IF Outflow > 0 THEN 0 ELSE passTime'
              /\ sinceLimit <= Outflow + 2 * MaxPass
            BY <2>2, <2>3, <1>b, Numbers
        <2>6. OutflowTime'
            BY <2>1, <2>2, <2>5 DEF OutflowTime
        <2> QED
            BY <2>4, <2>6
    <1>5. CASE ValveShuts
        BY <1>5, <1>a, <1>b, TimerSteps, Numbers DEF ValveShuts, TimerAtRest, OutflowTime
    <1>6. CASE ValveStays
        <2>1. valve_out_open => timer_outflow.left # 0
            BY <1>6 DEF ValveStays, After
        <2>2. /\ timer_outflow'.left = timer_outflow.left
              /\ timer_outflow'.running <=> timer_outflow.running /\ timer_outflow.left # 0
            BY <1>6, <1>b, TimerSteps DEF ValveStays
        <2> QED
            BY <1>6, <1>a, <1>b, <2>1, <2>2, Numbers DEF ValveStays, TimerAtRest, OutflowTime
    <1>7. CASE Tick
        <2>1. /\ timer_outflow'.running = timer_outflow.running
              /\ timer_outflow'.left = IF timer_outflow.left > 0 THEN timer_outflow.left - 1 ELSE 0
            BY <1>7, <1>b, TimerSteps DEF Tick
        <2>2. /\ sinceLimit' = IF sinceLimit < SinceCap THEN sinceLimit + 1 ELSE SinceCap
              /\ passTime' = passTime + 1 /\ passTime < MaxPass
              /\ start_valve_out' = start_valve_out /\ valve_out_open' = valve_out_open
            BY <1>7 DEF Tick
        <2>3. TimerAtRest'
            BY <1>a, <1>b, <2>1 DEF TimerAtRest
        <2>4. OutflowTime'
            BY <1>a, <1>b, <2>1, <2>2, Numbers DEF OutflowTime
        <2> QED
            BY <2>3, <2>4
    <1> QED
        BY <1>2, <1>3, <1>4, <1>5, <1>6, <1>7 DEF Next, Loop, read_water_height, controlValveOut

\* The valve is never shut before Outflow has passed since the height was last at the
\* limit (OutflowComplete), whenever controlValveOut is called.
THEOREM OutflowIsComplete == Spec => OutflowComplete
    <1>1. TimeInv => (ValveShuts => sinceLimit >= Outflow)
        <2> SUFFICES ASSUME TimeInv, ValveShuts PROVE sinceLimit >= Outflow
            OBVIOUS
        <2>1. timer_outflow.left = 0
            BY DEF TimeInv, TimerAtRest, ValveShuts, After
        <2> QED
            BY <2>1, TimeNumbers, Numbers DEF TimeInv, OutflowTime, ValveShuts
    <1> QED
        BY <1>1, TimeInit, TimeNext, PTL DEF Spec, OutflowComplete

\* The valve is never open longer than Outflow and two passes of the loop after the
\* height was last at the limit (OutflowEnds).
THEOREM OutflowIsBounded == Spec => []OutflowEnds
    <1>1. TimeInv => OutflowEnds
        BY DEF TimeInv, OutflowTime, OutflowEnds
    <1> QED
        BY <1>1, TimeInit, TimeNext, PTL DEF Spec

-----------------------------------------------------------------------------
\* The figures.  A reading at the limit counts itself as the first sample of the next
\* fill, so after an outflow n_H_collected_start is one ahead of the samples of
\* the fill; the sample that completes the average makes up for it.
SampleAge(i) == IF i < n_H_collected THEN n_H_collected - 1 - i
                ELSE n_H_collected - 1 - i + n_H_avg

OfThisFill == {"fill", "nan"}

RingOfThisFill ==
    ~valve_out_open /\ ~start_valve_out =>
        \A i \in Slots : SampleAge(i) + 1 < n_H_collected_start => H_window[i] \in OfThisFill

StartsOver ==
    start_valve_out \/ valve_out_open => n_H_collected_start <= 1 /\ previous_height = "nan"

FillsInv ==
    /\ TypeOK /\ Requests
    /\ RingOfThisFill
    /\ StartsOver
    /\ previous_height # "past"
    /\ FillsNotMixed

LEMMA RingPositions ==
    ASSUME NEW size \in Nat, NEW n \in Nat, n < size, NEW i \in Nat, i < size
    PROVE  LET age == IF i < n THEN n - 1 - i ELSE n - 1 - i + size
           IN  age \in Nat /\ age < size
    OBVIOUS

LEMMA FillsInit == Init => FillsInv
    <1> SUFFICES ASSUME Init PROVE RingOfThisFill /\ FillsNotMixed
        BY TypeInit DEF Init, FillsInv, Requests, StartsOver
    <1>1. ASSUME NEW i \in Slots PROVE ~(SampleAge(i) + 1 < n_H_collected_start)
        BY SlotsFact, Numbers DEF Init, SampleAge
    <1> QED
        BY <1>1 DEF Init, RingOfThisFill, FillsNotMixed

\* A sample is one further from the newest after each that follows.
LEMMA SamplesAge ==
    ASSUME TypeOK, NEW i \in Slots, n_H_collected' = Advanced
    PROVE  SampleAge(i)' = IF i = n_H_collected THEN 0 ELSE SampleAge(i) + 1
    BY SlotsFact, Numbers DEF TypeOK, Advanced, SampleAge, Slots

\* With a sample of this fill, the ring is as fresh as the count of samples says.
LEMMA RingFilled ==
    ASSUME FillsInv, ~valve_out_open, ~start_valve_out,
           NEW r \in Readings, Read(r), n_H_collected' = Advanced
    PROVE  \A i \in Slots : SampleAge(i)' < n_H_collected_start => H_window'[i] \in OfThisFill
    <1> SUFFICES ASSUME NEW i \in Slots, SampleAge(i)' < n_H_collected_start
                 PROVE  H_window'[i] \in OfThisFill
        OBVIOUS
    <1>1. /\ n_H_collected \in Slots /\ H_window \in [Slots -> Heights]
          /\ H_window' = [H_window EXCEPT ![n_H_collected] = Sample(r)]
        BY DEF FillsInv, TypeOK, Read
    <1>2. SampleAge(i)' = IF i = n_H_collected THEN 0 ELSE SampleAge(i) + 1
        BY SamplesAge DEF FillsInv
    <1>3. CASE i = n_H_collected
        BY <1>1, <1>3 DEF Sample, OfThisFill
    <1>4. CASE i # n_H_collected
        BY <1>1, <1>2, <1>4 DEF FillsInv, RingOfThisFill
    <1> QED
        BY <1>3, <1>4

LEMMA AgesInRing ==
    ASSUME TypeOK, NEW i \in Slots
    PROVE  SampleAge(i) \in Slots /\ SampleAge(i) < n_H_avg
    BY SlotsFact, Numbers DEF TypeOK, SampleAge, Slots

LEMMA FillsNext == FillsInv /\ [Next]_vars => FillsInv'
    <1> SUFFICES ASSUME FillsInv, [Next]_vars
                 PROVE  RingOfThisFill' /\ StartsOver' /\ previous_height' # "past" /\ FillsNotMixed'
        BY TypeNext, RequestsNext DEF FillsInv
    <1>a. /\ TypeOK /\ TypeOK' /\ Requests /\ RingOfThisFill /\ StartsOver
          /\ previous_height # "past" /\ FillsNotMixed
        BY TypeNext DEF FillsInv
    <1>b. /\ n_H_collected_start \in 0 .. n_H_avg /\ n_H_collected_start' \in 0 .. n_H_avg
          /\ start_valve_out \in BOOLEAN /\ valve_out_open \in BOOLEAN
          /\ \A i \in Slots : SampleAge(i) \in Nat /\ SampleAge(i)' \in Nat /\ SampleAge(i)' < n_H_avg
        <2>1. \A i \in Slots : SampleAge(i) \in Nat
            BY <1>a, AgesInRing, SlotsFact
        <2>2. \A i \in Slots : SampleAge(i)' \in Nat /\ SampleAge(i)' < n_H_avg
            <3> SUFFICES ASSUME NEW i \in Slots PROVE SampleAge(i)' \in Nat /\ SampleAge(i)' < n_H_avg
                OBVIOUS
            <3>1. /\ n_H_collected' \in Nat /\ n_H_collected' < n_H_avg
                  /\ i \in Nat /\ i < n_H_avg
                BY <1>a, SlotsFact DEF TypeOK
            <3>2. LET age == IF i < n_H_collected' THEN n_H_collected' - 1 - i
                             ELSE n_H_collected' - 1 - i + n_H_avg
                  IN  age \in Nat /\ age < n_H_avg
                BY <3>1, RingPositions, Numbers
            <3> QED
                BY <3>2 DEF SampleAge
        <2> QED
            BY <1>a, <2>1, <2>2 DEF TypeOK
    <1>1. CASE UNCHANGED <<window, start_valve_out, valve_out_open, row>>
        BY <1>1, <1>a DEF window, RingOfThisFill, SampleAge, StartsOver, FillsNotMixed
    <1>2. CASE ReadLimit
        BY <1>2, <1>a, Numbers DEF ReadLimit, NoAverage, RingOfThisFill, StartsOver, FillsNotMixed
    <1>3. CASE ReadFilling
        <2>1. PICK r \in Readings : Read(r)
            BY <1>3 DEF ReadFilling, Readings
        <2>2. /\ ~start_valve_out /\ start_valve_out' = start_valve_out /\ valve_out_open' = valve_out_open
              /\ previous_height' = previous_height /\ n_H_collected' = Advanced
            BY <1>3, <2>1, <1>a, <1>b DEF ReadFilling, Read, Requests
        <2>3. n_H_collected_start' = IF valve_out_open THEN n_H_collected_start ELSE n_H_collected_start + 1
            BY <1>3 DEF ReadFilling, NoAverage
        <2>4. StartsOver' /\ previous_height' # "past"
            BY <1>a, <2>2, <2>3 DEF StartsOver
        <2>5. RingOfThisFill'
            BY <1>b, <2>1, <2>2, <2>3, RingFilled DEF RingOfThisFill
        <2>6. FillsNotMixed'
            BY <1>3 DEF ReadFilling, NoAverage, FillsNotMixed
        <2> QED
            BY <2>4, <2>5, <2>6
    <1>4. CASE ReadAverage
        <2>1. PICK r \in Readings : Read(r)
            BY <1>4 DEF ReadAverage, Readings
        <2>2. /\ ~start_valve_out /\ ~valve_out_open
              /\ start_valve_out' = start_valve_out /\ valve_out_open' = valve_out_open
              /\ n_H_collected' = Advanced
              /\ n_H_collected_start >= n_H_avg /\ n_H_collected_start' = n_H_collected_start
            BY <1>4, <2>1, <1>a, <1>b DEF ReadAverage, Read, Requests
        <2>3. \A i \in Slots : H_window'[i] \in OfThisFill
            BY <1>b, <2>1, <2>2, RingFilled, Numbers
        <2>4. Average(H_window') \in {"nan", "good"}
            BY <2>3 DEF Average, OfThisFill
        <2>5. row'.height # "mixed" /\ row'.flux = Flux(Average(H_window'))
              /\ row'.height = Average(H_window')
            BY <1>4, <2>4 DEF ReadAverage
        <2>6. previous_height \in Heights \ {"past"}
            BY <1>a DEF TypeOK
        <2>7. Flux(Average(H_window')) # "mixed"
            BY <2>4, <2>6 DEF Flux, Heights
        <2>8. previous_height' # "past"
            BY <1>4 DEF ReadAverage
        <2> QED
            BY <2>2, <2>3, <2>5, <2>7, <2>8 DEF RingOfThisFill, StartsOver, FillsNotMixed
    <1>5. CASE ValveOpens
        BY <1>5, <1>a DEF ValveOpens, window, RingOfThisFill, StartsOver, FillsNotMixed
    <1>6. CASE ValveShuts
        <2>1. n_H_collected_start' = n_H_collected_start /\ n_H_collected_start <= 1
            BY <1>6, <1>a DEF ValveShuts, StartsOver
        <2>2. RingOfThisFill'
            BY <1>b, <2>1 DEF RingOfThisFill
        <2> QED
            BY <1>6, <1>a, <2>2 DEF ValveShuts, StartsOver, FillsNotMixed
    <1>7. CASE L1Wait \/ ValveStays \/ Tick \/ UNCHANGED vars
        <2>1. UNCHANGED <<window, start_valve_out, valve_out_open, row>>
            BY <1>7 DEF L1Wait, ValveStays, Tick, vars, valve
        <2> QED
            BY <1>1, <2>1
    <1> QED
        BY <1>2, <1>3, <1>4, <1>5, <1>6, <1>7 DEF Next, Loop, read_water_height, controlValveOut

\* Every average written is of n_H_avg samples of one fill, and no flux compares heights
\* from the two sides of an outflow (FillsNotMixed), whenever the limit is reached and
\* whatever the sensor reads.
THEOREM NoRowMixesFills == Spec => []FillsNotMixed
    <1>1. FillsInv => FillsNotMixed
        BY DEF FillsInv
    <1> QED
        BY <1>1, FillsInit, FillsNext, PTL DEF Spec
=============================================================================
