--------------------------- MODULE MeasuringRound ---------------------------
(***************************************************************************)
(* What a sketch expects of the section of its loop that reads n sensors   *)
(* one after the other: each has its turn, once, in order; at the end of   *)
(* its turn it has got its row, or it is given up, which cannot happen to  *)
(* one that answers.  The round is over after the last turn, and only then *)
(* may the next one be started.                                            *)
(***************************************************************************)
EXTENDS Integers

CONSTANT
    n          \* number of sensors

VARIABLES
    turn,      \* the sensor whose turn it is; n: the round is over
    rows,      \* rows[s]: rows of sensor s in this round
    answering  \* the sensors that always answer, the same all the time

vars == <<turn, rows, answering>>

NoRows == [s \in 0 .. n - 1 |-> 0]

Init == turn = 0 /\ rows = NoRows /\ answering \subseteq 0 .. n - 1

AppendRow ==
    /\ turn < n
    /\ rows' = [rows EXCEPT ![turn] = @ + 1]
    /\ turn' = turn + 1

GiveUp ==
    /\ turn < n
    /\ turn \notin answering
    /\ turn' = turn + 1
    /\ UNCHANGED rows

StartRound == turn = n /\ turn' = 0 /\ rows' = NoRows

Next == (AppendRow \/ GiveUp \/ StartRound) /\ UNCHANGED answering

Spec == Init /\ [][Next]_vars
=============================================================================
