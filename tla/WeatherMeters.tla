--------------------------- MODULE WeatherMeters ---------------------------
(***************************************************************************)
(* The counting of class WeatherMeters: the interrupt handlers of the rain *)
(* gauge and of the anemometer increment a counter, debounced by the time  *)
(* since the last edge they counted, and timer(), called in the loop,      *)
(* publishes both counters every _period calls.  The handlers may preempt  *)
(* timer() between any two of its statements, which copy and then clear    *)
(* the counters without a lock.  Every call reads the wind vane, too.     *)
(***************************************************************************)
EXTENDS Integers, WindVane

CONSTANTS
    Debounce,  \* Debounce["rain"], Debounce["wind"]: dead times, in time units
    Publish,   \* longest time timer() takes to publish
    MaxGap,    \* longest time between two calls of timer()
    _period,
    ADC        \* the numbers analogRead may return

Channels == {"rain", "wind"}

ASSUME MetersAssumption ==
    /\ Debounce \in [Channels -> Nat]
    /\ Publish \in Nat /\ MaxGap \in Nat /\ _period \in Nat \ {0}
    /\ ADC \subseteq 0 .. 4095

VARIABLES
    statement,       \* next statement of timer(), or "idle"
    elapsed,         \* time since timer() was left, or entered
    quiet,           \* per channel, time since the last counted edge (capped)
    ticks,           \* _rain_ticks, _anemometer_ticks
    sum,             \* _rain_sum, _anemometer_sum
    _timer_counter,
    _dir_adc_value, _dir,
    counted          \* history: per channel, edges counted since the sum was copied

vane == <<_dir_adc_value, _dir>>
metersVars == <<statement, elapsed, quiet, ticks, sum, _timer_counter, vane, counted>>

Statements == {"idle", "copyRain", "copyWind", "clearRain", "clearWind"}

MaxBounces == 5

-----------------------------------------------------------------------------
\* mutated form: every edge counts (but no more than MaxBounces).
Edge_Bouncing(ch) ==
    /\ ticks[ch] < MaxBounces
    /\ quiet' = [quiet EXCEPT ![ch] = 0]
    /\ ticks' = [ticks EXCEPT ![ch] = @ + 1]
    /\ counted' = [counted EXCEPT ![ch] = @ + 1]
    /\ UNCHANGED <<statement, elapsed, sum, _timer_counter, vane>>

\* intRaingauge, intAnemometer.  An edge in the dead time does nothing.
Edge(ch) ==
    /\ quiet[ch] > Debounce[ch]
    /\ quiet' = [quiet EXCEPT ![ch] = 0]
    /\ ticks' = [ticks EXCEPT ![ch] = @ + 1]
    /\ counted' = [counted EXCEPT ![ch] = @ + 1]
    /\ UNCHANGED <<statement, elapsed, sum, _timer_counter, vane>>

\* Time passes in the loop, or in the middle of timer().
Tick ==
    /\ elapsed < IF statement = "idle" THEN MaxGap ELSE Publish
    /\ elapsed' = elapsed + 1
    /\ quiet' = [ch \in Channels |->
                    IF quiet[ch] > Debounce[ch] THEN quiet[ch] ELSE quiet[ch] + 1]
    /\ UNCHANGED <<statement, ticks, sum, _timer_counter, vane, counted>>

-----------------------------------------------------------------------------
ReadVane == _dir_adc_value' \in ADC /\ _dir' \in adcToDir(_dir_adc_value')

\* timer(), not the last call of the interval.
Count ==
    /\ statement = "idle"
    /\ _timer_counter + 1 < _period
    /\ _timer_counter' = _timer_counter + 1
    /\ ReadVane
    /\ elapsed' = 0
    /\ UNCHANGED <<statement, quiet, ticks, sum, counted>>

\* timer(), the last call: the counter restarts.
Complete ==
    /\ statement = "idle"
    /\ _timer_counter + 1 = _period
    /\ _timer_counter' = 0
    /\ ReadVane
    /\ elapsed' = 0
    /\ statement' = "copyRain"
    /\ UNCHANGED <<quiet, ticks, sum, counted>>

Copy(ch) ==
    /\ sum' = [sum EXCEPT ![ch] = ticks[ch]]
    /\ counted' = [counted EXCEPT ![ch] = 0]
    /\ UNCHANGED <<elapsed, quiet, ticks, _timer_counter, vane>>

Clear(ch) ==
    /\ ticks' = [ticks EXCEPT ![ch] = 0]
    /\ UNCHANGED <<quiet, sum, _timer_counter, vane, counted>>

CopyRain == statement = "copyRain" /\ statement' = "copyWind" /\ Copy("rain")
CopyWind == statement = "copyWind" /\ statement' = "clearRain" /\ Copy("wind")

ClearRain == statement = "clearRain" /\ statement' = "clearWind" /\ elapsed' = elapsed /\ Clear("rain")
ClearWind == statement = "clearWind" /\ statement' = "idle" /\ elapsed' = 0 /\ Clear("wind")

MetersInit ==
    /\ statement = "idle"
    /\ elapsed = 0
    /\ quiet = [ch \in Channels |-> Debounce[ch] + 1]
    /\ ticks = [ch \in Channels |-> 0]
    /\ sum = [ch \in Channels |-> 0]
    /\ _timer_counter = 0
    /\ _dir_adc_value = 0 /\ _dir = 0
    /\ counted = [ch \in Channels |-> 0]

timer == Count \/ Complete \/ CopyRain \/ CopyWind \/ ClearRain \/ ClearWind

MetersNext == Tick \/ timer \/ \E ch \in Channels : Edge(ch)

MetersSpec == MetersInit /\ [][MetersNext]_metersVars

-----------------------------------------------------------------------------
MetersTypeOK ==
    /\ statement \in Statements
    /\ elapsed \in 0 .. IF statement = "idle" THEN MaxGap ELSE Publish
    /\ \A ch \in Channels : quiet[ch] \in 0 .. Debounce[ch] + 1
    /\ \A ch \in Channels : ticks[ch] \in Nat /\ sum[ch] \in Nat
    /\ _timer_counter \in 0 .. _period - 1
    /\ counted \in [Channels -> Nat]
    /\ _dir_adc_value \in ADC \cup {0}
    /\ _dir \in {directions[i] : i \in Entries} \cup {0}

\* The counter of a channel is between its copy and its clearing.
Copied(ch) ==
    statement \in IF ch = "rain" THEN {"copyWind", "clearRain"} ELSE {"clearRain", "clearWind"}

\* A published sum has every edge counted since the sum before was published,
\* but for one at most: an edge between the copy and the clearing of the
\* counter is lost, and the dead time leaves room for only one.
UndercountAtMostOne ==
    \A ch \in Channels :
        IF Copied(ch) THEN ticks[ch] = sum[ch] + counted[ch] /\ counted[ch] <= 1
        ELSE counted[ch] - ticks[ch] \in 0 .. 1

\* Where the search stays in the table, the direction is that of the entry
\* nearest to the reading, so noise of less than half the distance of two
\* entries never changes it.
NearestDirection ==
    \/ PastTheTable(_dir_adc_value)
    \/ \E i \in Nearest(_dir_adc_value) : _dir = directions[i]
    \/ _dir_adc_value = 0 /\ _dir = 0  \* before the first call

\* "prevent overflow of index": the search compares with entries of the table
\* only.
IndexInTable == ~PastTheTable(_dir_adc_value)
=============================================================================
