------------------------------ MODULE SDI12Comm ------------------------------
(***************************************************************************)
(* The SDI-12 bus as the loop of a sketch uses it: SDI12Comm sends one     *)
(* command at a time and blocks for the reply, and one global Timer,       *)
(* sdi12_delay_timer, spaces the request of a measurement (aC!) from the   *)
(* request of its data (aD0!).  The timer is shared by every reader of the *)
(* sketch.  A module that EXTENDS this one adds the readers.               *)
(*                                                                         *)
(* A Timer is represented by the time left; sensors are outside the code   *)
(* and may send any reply, so the replies are enumerated by their form and *)
(* by the two numbers the code extracts.                                   *)
(***************************************************************************)
EXTENDS Integers

CONSTANTS
    MaxDelay,   \* longest delay a sensor asks for, in time units, at most 9 s
    MaxValues   \* most values in a reply

ASSUME BusAssumption ==
    /\ MaxDelay \in Nat \ {0}
    /\ MaxValues \in Nat \ {0}

VARIABLES
    sdi12_delay_timer,  \* the global Timer
    n_expected,         \* SDI12Comm::_n_expected
    measured            \* history: who requested the last measurement

NoOne == [kind |-> "none", dev |-> 0, cmd |-> 0]

-----------------------------------------------------------------------------
\* Class Timer of Every.h.
Timer(longest) == [running : BOOLEAN, left : 0 .. longest]
Stopped == [running |-> FALSE, left |-> 0]

TimerReset(interval) == [running |-> TRUE, left |-> interval]

\* Timer::operator() stops an expired timer; after() asks for the result.
Polled(t) == IF t.running /\ t.left = 0 THEN Stopped ELSE t
After(t) == ~Polled(t).running

Elapsed(t) == [t EXCEPT !.left = IF @ > 0 THEN @ - 1 ELSE 0]

-----------------------------------------------------------------------------
\* Replies to aC!: fewer or more than 8 bytes, 8 bytes that are not a frame of
\* this sensor, or a frame "atttnn".  The code reads the last digit of ttt, the
\* delay in seconds, and of nn, the number of values.
Acknowledgements ==
    [form : {"short", "garbled", "frame"}, ttt : 0 .. MaxDelay, n : 0 .. MaxValues]

\* What a sensor in order sends.
Healthy(ack) == ack.form = "frame" /\ ack.ttt > 0 /\ ack.n = MaxValues

\* measureRequest: is it a valid message?  (Both checks are of the delay.)
Accepted(ack) == ack.form = "frame" /\ ack.ttt > 0

\* measureRequest followed by the reset of the delay timer in TryRequest.
measureRequest(kind, dev, cmd, ack) ==
    /\ n_expected' = IF ack.form = "short" THEN n_expected
                     ELSE IF Accepted(ack) THEN ack.n ELSE 0
    /\ sdi12_delay_timer' = IF Accepted(ack) THEN TimerReset(ack.ttt)
                            ELSE sdi12_delay_timer
    /\ measured' = IF Accepted(ack) THEN [kind |-> kind, dev |-> dev, cmd |-> cmd] ELSE measured

-----------------------------------------------------------------------------
\* Replies to aD0!: at most 5 bytes, a message that is not a frame of this
\* sensor, or a frame with n values that strtof can read.
DataReplies == [form : {"short", "garbled", "frame"}, n : 0 .. MaxValues]

\* measureRead returns nullptr.
NoReply(reply) == reply.form = "short"

\* measureRead: *n_values, at most as many as the acknowledgement announced.
n_values(reply) ==
    IF reply.form # "frame" THEN 0
    ELSE IF reply.n < n_expected THEN reply.n ELSE n_expected

BusInit ==
    /\ sdi12_delay_timer = Stopped
    /\ n_expected = 0
    /\ measured = NoOne

BusTypeOK ==
    /\ sdi12_delay_timer \in Timer(MaxDelay)
    /\ n_expected \in 0 .. MaxValues
=============================================================================
