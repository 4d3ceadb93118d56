----------------------------- MODULE EveryTimer -----------------------------
(***************************************************************************)
(* Class Every of libraries/Every-3.0.0: the stamp `last' against a clock, *)
(* millis(), that wraps around.  The other modules represent such a timer  *)
(* by its age, an integer that never wraps; this one shows that they may,  *)
(* and that a timer called often enough is a Metronome.  ClockProofs takes *)
(* the names of this module together with those of DataFiles.              *)
(***************************************************************************)
EXTENDS Integers

CONSTANTS
    Word,      \* values of the clock: 2^32 milliseconds on the board
    Interval,
    MaxPass    \* longest time between two calls

ASSUME TimerAssumption ==
    /\ Word \in Nat \ {0} /\ Interval \in Nat \ {0} /\ MaxPass \in Nat
    /\ Interval + MaxPass < Word

VARIABLES
    millis,     \* the clock
    last,       \* the stamp
    fired,      \* what the last call returned
    sinceCall   \* history: time since the last call

timerVars == <<millis, last, fired, sinceCall>>

Stamps == 0 .. Word - 1

\* Unsigned arithmetic.
Wrapped(n) == n % Word
Age == Wrapped(millis - last)

TimerInit ==
    /\ millis \in Stamps
    /\ last = millis
    /\ fired = FALSE
    /\ sinceCall = 0

\* Time passes.
Tick ==
    /\ sinceCall < MaxPass
    /\ millis' = Wrapped(millis + 1)
    /\ sinceCall' = sinceCall + 1
    /\ UNCHANGED <<last, fired>>

NotYet ==
    /\ Age < Interval
    /\ fired' = FALSE
    /\ sinceCall' = 0
    /\ UNCHANGED <<millis, last>>

\* mutated form: the stamp is the time of the call, as in most such classes.
Fire_Drift ==
    /\ Age >= Interval
    /\ last' = millis
    /\ fired' = TRUE
    /\ sinceCall' = 0
    /\ UNCHANGED millis

\* The call is late by Age % Interval: the stamp is set to the last beat.
Fire ==
    /\ Age >= Interval
    /\ last' = Wrapped(millis - (Age % Interval))
    /\ fired' = TRUE
    /\ sinceCall' = 0
    /\ UNCHANGED millis

\* reset(now)
Reset ==
    /\ \/ last' = millis
       \/ last' = Wrapped(millis - Interval)
    /\ UNCHANGED <<millis, fired, sinceCall>>

TimerNext == Tick \/ NotYet \/ Fire \/ Reset

TimerSpec == TimerInit /\ [][TimerNext]_timerVars

-----------------------------------------------------------------------------
TimerTypeOK ==
    /\ millis \in Stamps /\ last \in Stamps
    /\ fired \in BOOLEAN
    /\ sinceCall \in 0 .. MaxPass

\* The age never gets near the word: no beat is hidden by the wrap-around of
\* millis(), however long the station runs.
AgeBounded == Age <= Interval + sinceCall

M == INSTANCE Metronome WITH phase <- Age % Interval, due <- Age >= Interval

\* The timer keeps the grid of its last reset, whatever the delay of the
\* calls: beats do not drift and late calls answer all missed beats at once.
Metronomic == M!Spec
=============================================================================
