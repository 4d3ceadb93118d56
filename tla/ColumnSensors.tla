---------------------------- MODULE ColumnSensors ----------------------------
(***************************************************************************)
(* The sensor section of the loop of examples/hlavo-column: one PR2 probe, *)
(* then n_teros31_sensors Teros31 tensiometers, on one SDI-12 bus with one *)
(* delay timer.  A round is started by timer_L2 when the previous one has  *)
(* ended.  Unlike the PR2 reader, a Teros31 reader is given up after more  *)
(* than stryouts failures in a row, of the request or of the read.         *)
(*                                                                         *)
(* One pass of the loop is two steps, the sensor section and the test of   *)
(* timer_L2; time passes before either.                                    *)
(***************************************************************************)
EXTENDS SDI12Comm

CONSTANTS
    n_teros31_sensors,
    stryouts,    \* failures after which a Teros31 gets one last attempt
    Answering,   \* the Teros31 sensors that always send valid replies
    L2,          \* interval of timer_L2
    MaxPass      \* longest time a pass of the loop takes

ASSUME ColumnAssumption ==
    /\ n_teros31_sensors \in Nat \ {0} /\ stryouts \in Nat
    /\ Answering \subseteq 0 .. n_teros31_sensors - 1
    /\ L2 \in Nat \ {0} /\ MaxPass \in Nat

VARIABLES
    pc,                   \* next step of the loop: "sensors" or "L2"
    passTime,             \* time since the last test of timer_L2
    ageL2,                \* millis() - timer_L2.last
    pr2_all_finished,
    icmd,                 \* PR2Reader::icmd
    teros31_all_finished,
    teros31_iss,
    requested,            \* Teros31Reader::requested
    n_tryouts,            \* Teros31Reader::n_tryouts
    pr2_rows,             \* history: PR2 rows in this round (2: or more)
    teros31_rows,         \* history: rows per Teros31 in this round
    commands,             \* history: commands sent to a Teros31 in this round
    misread               \* history: a value was stored that was measured for
                          \* another sensor or field

bus == <<sdi12_delay_timer, n_expected, measured>>
pr2 == <<pr2_all_finished, icmd, pr2_rows>>
teros31 == <<teros31_all_finished, teros31_iss, requested, n_tryouts,
             teros31_rows, commands>>
vars == <<bus, pr2, teros31, misread, pc, passTime, ageL2>>

Teros == 0 .. n_teros31_sensors - 1
n_fields == 3
Commands == 0 .. n_fields - 1

Capped(n) == IF n < 2 THEN n + 1 ELSE 2
Copied(k, n) == IF k = 2 THEN n - 1 ELSE n
MostCommands == 2 * stryouts + 2

\* n values are stored as the reply to the measurement `wanted'.
Stored(n, wanted) == misread' = (misread \/ (n > 0 /\ measured # wanted))

Step ==
    /\ pc = "sensors"
    /\ pc' = "L2"
    /\ UNCHANGED <<passTime, ageL2>>

-----------------------------------------------------------------------------
\* collect_and_write_PR2
PR2Requests(ack) ==
    /\ Step
    /\ ~pr2_all_finished
    /\ ~sdi12_delay_timer.running
    /\ measureRequest("PR2", 0, icmd, ack)
    /\ UNCHANGED <<teros31, misread>>

\* A failed request starts the probe again from its first command, for ever.
PR2Failed ==
    \E ack \in Acknowledgements :
        /\ PR2Requests(ack)
        /\ ~Accepted(ack)
        /\ icmd' = 0
        /\ UNCHANGED <<pr2_all_finished, pr2_rows>>

\* mutated form: the reader is finished by a request, one command early.
PR2Requested_Early ==
    \E ack \in Acknowledgements :
        /\ PR2Requests(ack)
        /\ Accepted(ack)
        /\ IF icmd + 1 = n_fields
           THEN /\ icmd' = 0
                /\ pr2_rows' = Capped(pr2_rows)
                /\ pr2_all_finished' = TRUE
           ELSE UNCHANGED pr2

PR2Requested ==
    \E ack \in Acknowledgements :
        /\ PR2Requests(ack)
        /\ Accepted(ack)
        /\ UNCHANGED pr2

PR2Measuring ==
    /\ Step
    /\ ~pr2_all_finished
    /\ ~After(sdi12_delay_timer)
    /\ UNCHANGED <<bus, pr2, teros31, misread>>

PR2Reads(reply) ==
    /\ Step
    /\ ~pr2_all_finished
    /\ sdi12_delay_timer.running
    /\ After(sdi12_delay_timer)
    /\ Stored(Copied(icmd, n_values(reply)), [kind |-> "PR2", dev |-> 0, cmd |-> icmd])
    /\ sdi12_delay_timer' = Polled(sdi12_delay_timer)
    /\ UNCHANGED <<n_expected, measured, teros31>>

PR2Field ==
    \E reply \in DataReplies :
        /\ PR2Reads(reply)
        /\ icmd + 1 < n_fields
        /\ icmd' = icmd + 1
        /\ UNCHANGED <<pr2_all_finished, pr2_rows>>

PR2Row ==
    \E reply \in DataReplies :
        /\ PR2Reads(reply)
        /\ icmd + 1 = n_fields
        /\ icmd' = 0
        /\ pr2_rows' = Capped(pr2_rows)
        /\ pr2_all_finished' = TRUE

-----------------------------------------------------------------------------
\* collect_and_write_Teros31
Current == teros31_iss
MyTurn == Step /\ pr2_all_finished /\ ~teros31_all_finished

\* Teros31Reader::Reset and the step to the next sensor, or to the end.
NextTeros ==
    /\ requested' = [requested EXCEPT ![Current] = FALSE]
    /\ n_tryouts' = [n_tryouts EXCEPT ![Current] = 0]
    /\ IF teros31_iss + 1 = n_teros31_sensors
       THEN teros31_iss' = 0 /\ teros31_all_finished' = TRUE
       ELSE teros31_iss' = teros31_iss + 1 /\ UNCHANGED teros31_all_finished

Sent ==
    commands' = [commands EXCEPT ![Current] = IF @ > MostCommands THEN @ ELSE @ + 1]

TerosRequests(ack) ==
    /\ MyTurn
    /\ ~requested[Current]
    /\ ~sdi12_delay_timer.running
    /\ Current \in Answering => Healthy(ack)
    /\ measureRequest("Teros31", Current, 0, ack)
    /\ Sent
    /\ UNCHANGED <<pr2, teros31_rows, misread>>

TerosRequested ==
    \E ack \in Acknowledgements :
        /\ TerosRequests(ack)
        /\ Accepted(ack)
        /\ requested' = [requested EXCEPT ![Current] = TRUE]
        /\ n_tryouts' = [n_tryouts EXCEPT ![Current] = 0]
        /\ UNCHANGED <<teros31_iss, teros31_all_finished>>

\* mutated form: a failed request is not counted.
TerosRequestRetry_Uncounted ==
    \E ack \in Acknowledgements :
        /\ TerosRequests(ack)
        /\ ~Accepted(ack)
        /\ n_tryouts[Current] < stryouts
        /\ UNCHANGED <<teros31_iss, teros31_all_finished, requested, n_tryouts>>

TerosRequestRetry ==
    \E ack \in Acknowledgements :
        /\ TerosRequests(ack)
        /\ ~Accepted(ack)
        /\ n_tryouts[Current] < stryouts
        /\ n_tryouts' = [n_tryouts EXCEPT ![Current] = @ + 1]
        /\ UNCHANGED <<teros31_iss, teros31_all_finished, requested>>

TerosRequestGivenUp ==
    \E ack \in Acknowledgements :
        /\ TerosRequests(ack)
        /\ ~Accepted(ack)
        /\ n_tryouts[Current] >= stryouts
        /\ NextTeros

\* TryRequest returns true without a request when the delay timer is running,
\* and TryRead is called all the same.
TerosReads(reply) ==
    /\ MyTurn
    /\ requested[Current] \/ sdi12_delay_timer.running
    /\ After(sdi12_delay_timer)
    /\ Current \in Answering => reply = [form |-> "frame", n |-> MaxValues]
    /\ Stored(n_values(reply), [kind |-> "Teros31", dev |-> Current, cmd |-> 0])
    /\ sdi12_delay_timer' = Polled(sdi12_delay_timer)
    /\ Sent
    /\ UNCHANGED <<n_expected, measured, pr2>>

TerosMeasuring ==
    /\ MyTurn
    /\ ~After(sdi12_delay_timer)
    /\ UNCHANGED <<bus, pr2, teros31, misread>>

TerosReadRetry ==
    \E reply \in DataReplies :
        /\ TerosReads(reply)
        /\ NoReply(reply)
        /\ n_tryouts[Current] < stryouts
        /\ n_tryouts' = [n_tryouts EXCEPT ![Current] = @ + 1]
        /\ UNCHANGED <<teros31_iss, teros31_all_finished, requested,
                       teros31_rows>>

TerosReadGivenUp ==
    \E reply \in DataReplies :
        /\ TerosReads(reply)
        /\ NoReply(reply)
        /\ n_tryouts[Current] >= stryouts
        /\ NextTeros
        /\ UNCHANGED teros31_rows

\* mutated form: the last sensor does not end the round.
TerosRow_NoEnd ==
    \E reply \in DataReplies :
        /\ TerosReads(reply)
        /\ ~NoReply(reply)
        /\ teros31_rows' = [teros31_rows EXCEPT ![Current] = Capped(@)]
        /\ requested' = [requested EXCEPT ![Current] = FALSE]
        /\ n_tryouts' = [n_tryouts EXCEPT ![Current] = 0]
        /\ teros31_iss' = (teros31_iss + 1) % n_teros31_sensors
        /\ UNCHANGED teros31_all_finished

\* Any message of more than 5 bytes finishes the sensor, even one that is not
\* a frame and leaves the row at zero.  The row is appended before the reset.
TerosRow ==
    \E reply \in DataReplies :
        /\ TerosReads(reply)
        /\ ~NoReply(reply)
        /\ teros31_rows' = [teros31_rows EXCEPT ![Current] = Capped(@)]
        /\ NextTeros

-----------------------------------------------------------------------------
Idle ==
    /\ Step
    /\ pr2_all_finished
    /\ teros31_all_finished
    /\ UNCHANGED <<bus, pr2, teros31, misread>>

L2Wait ==
    /\ pc = "L2"
    /\ ageL2 < L2
    /\ pc' = "sensors"
    /\ passTime' = 0
    /\ UNCHANGED <<bus, pr2, teros31, misread, ageL2>>

\* mutated form: a new round is started whatever the state of the old one.
L2Tick_Always ==
    /\ pc = "L2"
    /\ ageL2 >= L2
    /\ ageL2' = ageL2 % L2
    /\ pr2_all_finished' = FALSE
    /\ teros31_all_finished' = FALSE
    /\ pr2_rows' = 0
    /\ teros31_rows' = [i \in Teros |-> 0]
    /\ commands' = [i \in Teros |-> 0]
    /\ pc' = "sensors"
    /\ passTime' = 0
    /\ UNCHANGED <<bus, misread, icmd, teros31_iss, requested, n_tryouts>>

\* timer_L2 starts a round only when both kinds of sensors have finished.
L2Tick ==
    /\ pc = "L2"
    /\ ageL2 >= L2
    /\ ageL2' = ageL2 % L2
    /\ IF pr2_all_finished /\ teros31_all_finished
       THEN /\ pr2_all_finished' = FALSE
            /\ teros31_all_finished' = FALSE
            /\ pr2_rows' = 0
            /\ teros31_rows' = [i \in Teros |-> 0]
            /\ commands' = [i \in Teros |-> 0]
       ELSE UNCHANGED <<pr2_all_finished, teros31_all_finished, pr2_rows,
                        teros31_rows, commands>>
    /\ pc' = "sensors"
    /\ passTime' = 0
    /\ UNCHANGED <<bus, misread, icmd, teros31_iss, requested, n_tryouts>>

Tick ==
    /\ passTime < MaxPass
    /\ passTime' = passTime + 1
    /\ ageL2' = ageL2 + 1
    /\ sdi12_delay_timer' = Elapsed(sdi12_delay_timer)
    /\ UNCHANGED <<n_expected, measured, pr2, teros31, misread, pc>>

Init ==
    /\ BusInit
    /\ pc = "sensors" /\ passTime = 0
    /\ ageL2 = L2       \* timer_L2.reset(true)
    /\ pr2_all_finished = FALSE /\ teros31_all_finished = FALSE
    /\ icmd = 0 /\ pr2_rows = 0
    /\ misread = FALSE
    /\ teros31_iss = 0
    /\ requested = [i \in Teros |-> FALSE]
    /\ n_tryouts = [i \in Teros |-> 0]
    /\ teros31_rows = [i \in Teros |-> 0]
    /\ commands = [i \in Teros |-> 0]

collect_and_write_PR2 ==
    PR2Failed \/ PR2Requested \/ PR2Measuring \/ PR2Field \/ PR2Row

collect_and_write_Teros31 ==
    \/ TerosRequested \/ TerosRequestRetry \/ TerosRequestGivenUp
    \/ TerosMeasuring \/ TerosReadRetry \/ TerosReadGivenUp \/ TerosRow

Loop ==
    collect_and_write_PR2 \/ collect_and_write_Teros31 \/ Idle \/ L2Wait \/ L2Tick

Next == Loop \/ Tick

Spec == Init /\ [][Next]_vars

\* The loop keeps running and time keeps passing.
FairSpec == Spec /\ WF_vars(Loop) /\ WF_vars(Tick)

-----------------------------------------------------------------------------
TypeOK ==
    /\ BusTypeOK
    /\ measured \in {NoOne} \cup [kind : {"PR2"}, dev : {0}, cmd : Commands]
                            \cup [kind : {"Teros31"}, dev : Teros, cmd : {0}]
    /\ pc \in {"sensors", "L2"}
    /\ passTime \in 0 .. MaxPass
    /\ ageL2 \in Nat
    /\ pr2_all_finished \in BOOLEAN /\ teros31_all_finished \in BOOLEAN
    /\ icmd \in Commands
    /\ teros31_iss \in Teros
    /\ requested \in [Teros -> BOOLEAN]
    /\ n_tryouts \in [Teros -> 0 .. stryouts]
    /\ pr2_rows \in 0 .. 2
    /\ teros31_rows \in [Teros -> 0 .. 2]
    /\ commands \in [Teros -> 0 .. MostCommands + 1]
    /\ misread \in BOOLEAN

\* The delay timer is shared by four readers: while it runs, it times the last
\* measurement of the one reader whose turn it is, so the branch of
\* Teros31Reader::TryRequest that skips the request is dead.
TimerOwned ==
    sdi12_delay_timer.running =>
        IF pr2_all_finished
        THEN /\ ~teros31_all_finished
             /\ requested[teros31_iss]
             /\ measured = [kind |-> "Teros31", dev |-> teros31_iss, cmd |-> 0]
        ELSE measured = [kind |-> "PR2", dev |-> 0, cmd |-> icmd]

\* No reader but the current one has a request or failures on its account, so
\* every sensor starts its turn with all its attempts.
OthersReset ==
    \A i \in Teros :
        i # teros31_iss \/ ~pr2_all_finished \/ teros31_all_finished =>
            ~requested[i] /\ n_tryouts[i] = 0

\* No value reaches a row of another sensor or another field, and a reader never
\* takes the delay of another for its own.
NeverMisread == TimerOwned /\ ~misread

\* A sensor that does not answer holds the bus for a bounded number of
\* commands, at most stryouts + 1 requests and as many reads, and leaves the next
\* one all its attempts.
AttemptsBounded == OthersReset /\ \A i \in Teros : commands[i] <= MostCommands

\* When a round is over there is one row of the PR2, at most one of each
\* Teros31, and exactly one of each that answers.
RoundComplete ==
    pr2_all_finished /\ teros31_all_finished =>
        /\ pr2_rows = 1
        /\ \A i \in Teros : teros31_rows[i] <= 1
        /\ \A i \in Answering : teros31_rows[i] = 1

\* The PR2 has the first turn and is never given up, the Teros31 follow.
Turn ==
    IF ~pr2_all_finished THEN 0
    ELSE IF teros31_all_finished THEN n_teros31_sensors + 1 ELSE teros31_iss + 1

Rows == [s \in 0 .. n_teros31_sensors |-> IF s = 0 THEN pr2_rows ELSE teros31_rows[s - 1]]

Round == INSTANCE MeasuringRound WITH
    n <- n_teros31_sensors + 1,
    turn <- Turn,
    rows <- Rows,
    answering <- {0} \cup {i + 1 : i \in Answering}

\* The section implements the round, although a read can fail or be retried at any
\* point and timer_L2 fires in the middle of rounds: a sensor is given up in its own
\* turn only, a row is appended in the turn of its sensor and never twice, and no
\* round is started over.
RoundImplemented == Round!Spec

\* A PR2 that refuses only finitely many requests cannot hold the station up:
\* timer_L2 finds a finished round and starts another for ever, whatever the
\* Teros31 send.  (So the Teros31 part of a round always ends: until it does
\* no request of the PR2 is sent, let alone refused.)
RoundsRepeat ==
    <>[][~PR2Failed]_vars =>
        []<><<L2Tick /\ pr2_all_finished /\ teros31_all_finished>>_vars
=============================================================================
