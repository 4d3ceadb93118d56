----------------------------- MODULE DataFilesMC -----------------------------
\* Dates for TLC: the first hour of a March, of a leap year and of another, and
\* of a new year; chips a second before the end of a February and of a year.
EXTENDS DataFiles

At(yOff, m, d, hh, mm, ss) ==
    [yOff |-> yOff, m |-> m, d |-> d, hh |-> hh, mm |-> mm, ss |-> ss]

MCBuildTimes == {At(24, 3, 1, 0, 30, 0), At(25, 3, 1, 0, 0, 0), At(25, 1, 1, 0, 59, 59)}
MCChipTimes == {At(24, 2, 28, 23, 59, 59), At(24, 12, 31, 23, 59, 58)}
=============================================================================
