----------------------------- MODULE Metronome -----------------------------
(***************************************************************************)
(* What a sketch expects of an object of class Every: a beat every         *)
(* Interval time units, on a grid that only reset() moves, and a call that *)
(* is true when there has been a beat since the last call that was true.   *)
(* Beats that no call saw in time count as one.                            *)
(***************************************************************************)
EXTENDS Integers

CONSTANT Interval

VARIABLES
    phase,  \* time since the last beat
    due,    \* a beat has not been answered
    fired   \* what the last call returned

vars == <<phase, due, fired>>

Init == phase = 0 /\ due = FALSE /\ fired = FALSE

\* One unit of time passes.
Beat ==
    /\ phase' = (phase + 1) % Interval
    /\ due' = (due \/ phase + 1 = Interval)
    /\ UNCHANGED fired

\* operator()
Call ==
    /\ fired' = due
    /\ due' = FALSE
    /\ UNCHANGED phase

\* reset(now): the grid restarts here, with a beat at once if asked.
Reset ==
    /\ phase' = 0
    /\ due' \in BOOLEAN
    /\ UNCHANGED fired

Next == Beat \/ Call \/ Reset

Spec == Init /\ [][Next]_vars
=============================================================================
