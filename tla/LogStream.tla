------------------------------ MODULE LogStream ------------------------------
(***************************************************************************)
(* What a log on a card promises: the messages reach the file one by one,  *)
(* in the order they were logged, each at most once.  At most Lag of them  *)
(* are on their way; these are what a power loss can take, and a message   *)
(* that cannot be appended is left out.                                    *)
(***************************************************************************)
EXTENDS Naturals, Sequences

CONSTANTS
    Lag   \* most messages on their way to the file

VARIABLES
    logged,   \* messages logged so far; they are numbered from 1
    way,      \* those on their way, the oldest first
    file      \* those in the file

Init ==
    /\ logged = 0
    /\ way = <<>>
    /\ file = <<>>

Log ==
    /\ Len(way) < Lag
    /\ logged' = logged + 1
    /\ way' = Append(way, logged')
    /\ UNCHANGED file

Write ==
    /\ way # <<>>
    /\ file' = Append(file, Head(way))
    /\ way' = Tail(way)
    /\ UNCHANGED logged

LeaveOut ==
    /\ way # <<>>
    /\ way' = Tail(way)
    /\ UNCHANGED <<logged, file>>

PowerLoss ==
    /\ way' = <<>>
    /\ UNCHANGED <<logged, file>>

Next == Log \/ Write \/ LeaveOut \/ PowerLoss

Spec == Init /\ [][Next]_<<logged, way, file>>
=============================================================================
