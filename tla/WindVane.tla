------------------------------ MODULE WindVane ------------------------------
(***************************************************************************)
(* The wind vane of class WeatherMeters: a voltage, read as a 12-bit       *)
(* number, is looked up in a table of 16 directions, in tenths of degree.  *)
(* The search compares the number with the middle of each entry and the    *)
(* next, in a loop over all entries; for the last one there is no next,    *)
(* and what the code reads there is outside the table.  The moving average *)
(* over the last four directions is left out.                              *)
(***************************************************************************)
EXTENDS Integers, FiniteSetsExt

\* Directions and numbers of _windvane_table.
directions == <<1125, 675, 900, 1575, 1350, 2025, 1800, 225,
                450, 2475, 2250, 3375, 0, 2925, 3150, 2700>>
numbers == <<204, 275, 312, 506, 739, 919, 1099, 1624,
             1845, 2298, 2421, 2811, 3143, 3310, 3549, 3781>>
Entries == 1 .. 16
Last == 16

\* mutated form: the bound of an entry is the next entry.
Middle_Next(i) == numbers[i + 1]

\* "value can be up to half the difference to next"
Middle(i) == numbers[i] + (numbers[i + 1] - numbers[i]) \div 2

\* The entries whose middle is not below the number.
Candidates(v) == {i \in Entries \ {Last} : v <= Middle(i)}

\* The number is past every middle and below the last entry: the loop goes on
\* to the last entry and compares with a middle that does not exist.
PastTheTable(v) == v < numbers[Last] /\ Candidates(v) = {}

\* The directions the search may find.
adcToDir(v) ==
    IF v >= numbers[Last] THEN {directions[Last]}
    ELSE IF PastTheTable(v) THEN {directions[Last], 0}
    ELSE {directions[Min(Candidates(v))]}

Distance(m, n) == IF m < n THEN n - m ELSE m - n
Nearest(v) == {i \in Entries : \A j \in Entries : Distance(v, numbers[i]) <= Distance(v, numbers[j])}
=============================================================================
