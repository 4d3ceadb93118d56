------------------------- MODULE ColumnSensorsProofs -------------------------
(***************************************************************************)
(* The round of the column, for every number of Teros31 tensiometers, of   *)
(* attempts and every interval of timer_L2: no reader takes a reply that   *)
(* is not to its own request, a sensor that does not answer costs a        *)
(* bounded number of commands, a round has the rows it should have, and    *)
(* the section implements MeasuringRound.                                  *)
(***************************************************************************)
EXTENDS ColumnSensors, TLAPS

-----------------------------------------------------------------------------
LEMMA TerosRange ==
    /\ n_teros31_sensors \in Nat \ {0} /\ stryouts \in Nat /\ L2 \in Nat /\ MaxPass \in Nat
    /\ 0 \in Teros
    /\ \A i \in Teros : i \in Nat /\ i < n_teros31_sensors
                        /\ (i + 1 # n_teros31_sensors => i + 1 \in Teros)
    BY ColumnAssumption DEF Teros

LEMMA Bounds ==
    /\ 0 \in 0 .. stryouts /\ 0 \in 0 .. MaxPass /\ L2 \in Nat /\ MostCommands \in Nat
    /\ 0 \in 0 .. MostCommands + 1 /\ 0 \in 0 .. 2 /\ 0 \in Commands
    /\ \A k \in Commands : k \in Nat /\ (k + 1 < n_fields => k + 1 \in Commands)
    BY TerosRange DEF MostCommands, Commands, n_fields

\* sdi12_delay_timer after a call and after a unit of time.
LEMMA TimerSteps ==
    ASSUME NEW t \in Timer(MaxDelay)
    PROVE  /\ Polled(t) \in Timer(MaxDelay)
           /\ Elapsed(t) \in Timer(MaxDelay)
           /\ Elapsed(t).running = t.running
           /\ After(t) => ~Polled(t).running
    BY BusAssumption DEF Timer, Polled, Elapsed, After, Stopped

\* An answer to a request starts the timer if it is accepted, and only then.
LEMMA Requested ==
    ASSUME BusTypeOK, NEW kind, NEW dev, NEW cmd, NEW ack \in Acknowledgements,
           measureRequest(kind, dev, cmd, ack)
    PROVE  /\ BusTypeOK'
           /\ Accepted(ack) => measured' = [kind |-> kind, dev |-> dev, cmd |-> cmd]
           /\ ~Accepted(ack) => measured' = measured /\ sdi12_delay_timer' = sdi12_delay_timer
    BY BusAssumption DEF BusTypeOK, measureRequest, Acknowledgements, Accepted, TimerReset, Timer

-----------------------------------------------------------------------------
\* Whom a measurement was requested for.
PR2Measured(cmd) == [kind |-> "PR2", dev |-> 0, cmd |-> cmd]
TerosMeasured(i) == [kind |-> "Teros31", dev |-> i, cmd |-> 0]

MeasuredOK ==
    measured \in {NoOne} \cup [kind : {"PR2"}, dev : {0}, cmd : Commands]
                         \cup [kind : {"Teros31"}, dev : Teros, cmd : {0}]

LoopOK == pc \in {"sensors", "L2"} /\ passTime \in 0 .. MaxPass /\ ageL2 \in Nat
PR2OK == pr2_all_finished \in BOOLEAN /\ icmd \in Commands /\ pr2_rows \in 0 .. 2
TurnOK ==
    /\ teros31_all_finished \in BOOLEAN /\ teros31_iss \in Teros
    /\ requested \in [Teros -> BOOLEAN] /\ n_tryouts \in [Teros -> 0 .. stryouts]
HistoryOK ==
    /\ teros31_rows \in [Teros -> 0 .. 2] /\ commands \in [Teros -> 0 .. MostCommands + 1]
    /\ misread \in BOOLEAN

LEMMA TypeParts ==
    /\ TypeOK <=> BusTypeOK /\ MeasuredOK /\ LoopOK /\ PR2OK /\ TurnOK /\ HistoryOK
    /\ TypeOK' <=> BusTypeOK' /\ MeasuredOK' /\ LoopOK' /\ PR2OK' /\ TurnOK' /\ HistoryOK'
    BY DEF TypeOK, MeasuredOK, LoopOK, PR2OK, TurnOK, HistoryOK

LEMMA MeasuredType ==
    /\ \A cmd \in Commands : PR2Measured(cmd) \in [kind : {"PR2"}, dev : {0}, cmd : Commands]
    /\ \A i \in Teros : TerosMeasured(i) \in [kind : {"Teros31"}, dev : Teros, cmd : {0}]
    BY DEF PR2Measured, TerosMeasured

LEMMA StepType ==
    ASSUME LoopOK, Step
    PROVE  LoopOK'
    BY DEF LoopOK, Step

\* A pass that only waits.
LEMMA WaitingTypes ==
    ASSUME TypeOK, Step, UNCHANGED <<bus, pr2, teros31, misread>>
    PROVE  TypeOK'
    <1>1. LoopOK'
        BY StepType, TypeParts
    <1>2. BusTypeOK' /\ MeasuredOK' /\ PR2OK'
        BY TypeParts DEF bus, pr2, BusTypeOK, MeasuredOK, PR2OK
    <1>3. TurnOK' /\ HistoryOK'
        BY TypeParts DEF teros31, TurnOK, HistoryOK
    <1> QED
        BY <1>1, <1>2, <1>3, TypeParts

LEMMA NextTerosType ==
    ASSUME TurnOK, NextTeros
    PROVE  TurnOK'
    <1>1. requested' \in [Teros -> BOOLEAN]
        BY DEF TurnOK, NextTeros
    <1>2. n_tryouts' \in [Teros -> 0 .. stryouts]
        BY Bounds DEF TurnOK, NextTeros
    <1>3. teros31_iss' \in Teros /\ teros31_all_finished' \in BOOLEAN
        BY TerosRange DEF TurnOK, NextTeros
    <1> QED
        BY <1>1, <1>2, <1>3 DEF TurnOK

LEMMA SentType ==
    ASSUME TypeOK, Sent
    PROVE  commands' \in [Teros -> 0 .. MostCommands + 1]
    <1>1. \A n \in 0 .. MostCommands + 1 :
            (IF n > MostCommands THEN n ELSE n + 1) \in 0 .. MostCommands + 1
        BY Bounds
    <1> QED
        BY <1>1 DEF TypeOK, Sent

\* A reply to a reader leaves the bus idle.
LEMMA ReadTypes ==
    ASSUME BusTypeOK, After(sdi12_delay_timer),
           sdi12_delay_timer' = Polled(sdi12_delay_timer), n_expected' = n_expected
    PROVE  BusTypeOK' /\ ~sdi12_delay_timer'.running
    BY TimerSteps DEF BusTypeOK

LEMMA StoredType ==
    ASSUME HistoryOK, NEW n, NEW wanted, Stored(n, wanted)
    PROVE  misread' \in BOOLEAN
    BY Zenon DEF Stored

LEMMA TypeInit == Init => TypeOK
    <1> SUFFICES ASSUME Init PROVE TypeOK
        OBVIOUS
    <1>1. BusTypeOK /\ MeasuredOK
        BY BusAssumption DEF Init, BusInit, BusTypeOK, MeasuredOK, Stopped, Timer
    <1>2. LoopOK /\ PR2OK
        BY Bounds DEF Init, LoopOK, PR2OK
    <1>3. TurnOK
        BY TerosRange, Bounds DEF Init, TurnOK
    <1>4. HistoryOK
        BY Bounds DEF Init, HistoryOK
    <1> QED
        BY <1>1, <1>2, <1>3, <1>4, TypeParts

\* The PR2 section: requests and reads.
LEMMA PR2Types ==
    ASSUME TypeOK, collect_and_write_PR2
    PROVE  TypeOK'
    <1>a. BusTypeOK /\ MeasuredOK /\ LoopOK /\ PR2OK /\ TurnOK /\ HistoryOK
        BY TypeParts
    <1>b. LoopOK'
        BY <1>a, StepType DEF collect_and_write_PR2, PR2Failed, PR2Requested, PR2Requests,
            PR2Measuring, PR2Field, PR2Row, PR2Reads
    <1>c. UNCHANGED teros31
        BY DEF collect_and_write_PR2, PR2Failed, PR2Requested, PR2Requests,
            PR2Measuring, PR2Field, PR2Row, PR2Reads
    <1>1. CASE PR2Failed \/ PR2Requested
        <2>1. PICK ack \in Acknowledgements :
                PR2Requests(ack) /\ (Accepted(ack) => UNCHANGED pr2)
                /\ (~Accepted(ack) => icmd' = 0 /\ UNCHANGED <<pr2_all_finished, pr2_rows>>)
            BY <1>1 DEF PR2Failed, PR2Requested
        <2>2. measureRequest("PR2", 0, icmd, ack) /\ misread' = misread
            BY <2>1 DEF PR2Requests
        <2>3. BusTypeOK' /\ (measured' = PR2Measured(icmd) \/ measured' = measured)
            BY <1>a, <2>2, Requested DEF PR2Measured
        <2>4. PR2OK'
            BY <1>a, <2>1 DEF PR2OK, pr2, Commands, n_fields
        <2>5. MeasuredOK'
            BY <1>a, <2>3, MeasuredType DEF MeasuredOK, PR2OK
        <2>6. TurnOK' /\ HistoryOK'
            BY <1>a, <1>c, <2>2 DEF teros31, TurnOK, HistoryOK
        <2> QED
            BY <1>b, <2>3, <2>4, <2>5, <2>6, TypeParts
    <1>2. CASE PR2Measuring
        BY <1>2, WaitingTypes DEF PR2Measuring
    <1>3. CASE PR2Field \/ PR2Row
        <2>1. PICK reply \in DataReplies : PR2Reads(reply)
            BY <1>3 DEF PR2Field, PR2Row
        <2>4. PR2OK'
            <3>1. CASE PR2Field
                BY <3>1, <1>a, Bounds DEF PR2Field, PR2OK
            <3>2. CASE PR2Row
                <4>1. pr2_rows' \in 0 .. 2
                    BY <3>2, <1>a DEF PR2Row, PR2OK, Capped
                <4> QED
                    BY <3>2, <4>1, Bounds DEF PR2Row, PR2OK
            <3> QED
                BY <1>3, <3>1, <3>2
        <2>2. BusTypeOK' /\ measured' = measured
            BY <1>a, <2>1, ReadTypes DEF PR2Reads
        <2>3. misread' \in BOOLEAN
            BY <1>a, <2>1, StoredType DEF PR2Reads
        <2>5. TurnOK' /\ HistoryOK' /\ MeasuredOK'
            BY <1>a, <1>c, <2>2, <2>3 DEF teros31, TurnOK, HistoryOK, MeasuredOK
        <2> QED
            BY <1>b, <2>2, <2>4, <2>5, TypeParts
    <1> QED
        BY <1>1, <1>2, <1>3 DEF collect_and_write_PR2

\* A request to a tensiometer, and a reading of it, whatever follows from them.
LEMMA TerosRequestTypes ==
    ASSUME TypeOK, NEW ack \in Acknowledgements, TerosRequests(ack)
    PROVE  BusTypeOK' /\ MeasuredOK' /\ LoopOK' /\ PR2OK' /\ HistoryOK'
    <1>a. BusTypeOK /\ MeasuredOK /\ LoopOK /\ PR2OK /\ TurnOK /\ HistoryOK
        BY TypeParts
    <1>1. measureRequest("Teros31", Current, 0, ack) /\ Sent /\ Step /\ Current \in Teros
          /\ UNCHANGED <<pr2, teros31_rows, misread>>
        BY <1>a DEF TerosRequests, MyTurn, Current, TurnOK
    <1>2. BusTypeOK' /\ (measured' = TerosMeasured(Current) \/ measured' = measured)
        BY <1>a, <1>1, Requested DEF TerosMeasured
    <1>3. MeasuredOK'
        BY <1>a, <1>1, <1>2, MeasuredType DEF MeasuredOK
    <1>4. LoopOK' /\ PR2OK'
        BY <1>a, <1>1, StepType DEF pr2, PR2OK
    <1>5. HistoryOK'
        BY <1>a, <1>1, SentType DEF HistoryOK
    <1> QED
        BY <1>2, <1>3, <1>4, <1>5

LEMMA TerosReadTypes ==
    ASSUME TypeOK, NEW reply \in DataReplies, TerosReads(reply)
    PROVE  /\ BusTypeOK' /\ MeasuredOK' /\ LoopOK' /\ PR2OK'
           /\ commands' \in [Teros -> 0 .. MostCommands + 1] /\ misread' \in BOOLEAN
           /\ ~sdi12_delay_timer'.running
    <1>a. BusTypeOK /\ MeasuredOK /\ LoopOK /\ PR2OK /\ TurnOK /\ HistoryOK
        BY TypeParts
    <1>1. BusTypeOK' /\ ~sdi12_delay_timer'.running /\ MeasuredOK'
        BY <1>a, ReadTypes DEF TerosReads, MeasuredOK
    <1>2. LoopOK' /\ PR2OK'
        BY <1>a, StepType DEF TerosReads, MyTurn, pr2, PR2OK
    <1>3. commands' \in [Teros -> 0 .. MostCommands + 1] /\ misread' \in BOOLEAN
        BY <1>a, SentType, StoredType DEF TerosReads
    <1> QED
        BY <1>1, <1>2, <1>3

LEMMA Counted ==
    ASSUME TurnOK, n_tryouts[Current] < stryouts,
           n_tryouts' = [n_tryouts EXCEPT ![Current] = @ + 1],
           UNCHANGED <<teros31_iss, teros31_all_finished, requested>>
    PROVE  TurnOK'
    <1>1. \A n \in 0 .. stryouts : n < stryouts => n + 1 \in 0 .. stryouts
        BY TerosRange
    <1>2. n_tryouts' \in [Teros -> 0 .. stryouts]
        BY <1>1 DEF TurnOK, Current
    <1> QED
        BY <1>2 DEF TurnOK

LEMMA TerosTypes ==
    ASSUME TypeOK, collect_and_write_Teros31
    PROVE  TypeOK'
    <1>a. BusTypeOK /\ MeasuredOK /\ LoopOK /\ PR2OK /\ TurnOK /\ HistoryOK
        BY TypeParts
    <1>1. CASE TerosRequested
        <2>1. TurnOK'
            BY <1>1, <1>a, Bounds DEF TerosRequested, TurnOK
        <2> QED
            BY <1>1, <2>1, TerosRequestTypes, TypeParts DEF TerosRequested
    <1>2. CASE TerosRequestRetry
        BY <1>2, <1>a, Counted, TerosRequestTypes, TypeParts DEF TerosRequestRetry
    <1>3. CASE TerosRequestGivenUp
        BY <1>3, <1>a, NextTerosType, TerosRequestTypes, TypeParts DEF TerosRequestGivenUp
    <1>4. CASE TerosMeasuring
        BY <1>4, WaitingTypes DEF TerosMeasuring, MyTurn
    <1>5. CASE TerosReadRetry
        BY <1>5, <1>a, Counted, TerosReadTypes, TypeParts DEF TerosReadRetry, HistoryOK
    <1>6. CASE TerosReadGivenUp
        BY <1>6, <1>a, NextTerosType, TerosReadTypes, TypeParts DEF TerosReadGivenUp, HistoryOK
    <1>7. CASE TerosRow
        <2>1. teros31_rows' \in [Teros -> 0 .. 2]
            <3>1. \A n \in 0 .. 2 : Capped(n) \in 0 .. 2
                BY DEF Capped
            <3>2. /\ teros31_rows \in [Teros -> 0 .. 2] /\ Current \in Teros
                  /\ teros31_rows' = [teros31_rows EXCEPT ![Current] = Capped(teros31_rows[Current])]
                BY <1>7, <1>a DEF TerosRow, HistoryOK, TurnOK, Current
            <3>3. Capped(teros31_rows[Current]) \in 0 .. 2
                BY <3>1, <3>2
            <3> QED
                BY <3>2, <3>3
        <2> QED
            BY <1>7, <2>1, <1>a, NextTerosType, TerosReadTypes, TypeParts DEF TerosRow, HistoryOK
    <1> QED
        BY <1>1, <1>2, <1>3, <1>4, <1>5, <1>6, <1>7 DEF collect_and_write_Teros31

LEMMA TypeNext == TypeOK /\ [Next]_vars => TypeOK'
    <1> SUFFICES ASSUME TypeOK, [Next]_vars PROVE TypeOK'
        OBVIOUS
    <1>a. BusTypeOK /\ MeasuredOK /\ LoopOK /\ PR2OK /\ TurnOK /\ HistoryOK
        BY TypeParts
    <1>1. CASE UNCHANGED vars
        BY <1>1 DEF vars, bus, pr2, teros31, TypeOK, BusTypeOK
    <1>2. CASE collect_and_write_PR2
        BY <1>2, PR2Types
    <1>3. CASE collect_and_write_Teros31
        BY <1>3, TerosTypes
    <1>4. CASE Idle
        BY <1>4, WaitingTypes DEF Idle
    <1>5. CASE L2Wait
        BY <1>5, Bounds DEF L2Wait, bus, pr2, teros31, TypeOK, BusTypeOK
    <1>6. CASE L2Tick
        <2>1. BusTypeOK' /\ MeasuredOK'
            BY <1>6, <1>a DEF L2Tick, bus, BusTypeOK, MeasuredOK
        <2>2. ageL2' \in Nat
            BY <1>6, <1>a, ColumnAssumption DEF L2Tick, LoopOK
        <2>3. LoopOK'
            BY <1>6, <2>2, Bounds DEF L2Tick, LoopOK
        <2>4. PR2OK' /\ TurnOK'
            BY <1>6, <1>a, Bounds DEF L2Tick, PR2OK, TurnOK
        <2>5. HistoryOK'
            BY <1>6, <1>a, Bounds DEF L2Tick, HistoryOK
        <2> QED
            BY <2>1, <2>3, <2>4, <2>5, TypeParts
    <1>7. CASE Tick
        <2>1. BusTypeOK' /\ MeasuredOK'
            BY <1>7, <1>a, TimerSteps DEF Tick, BusTypeOK, MeasuredOK
        <2>2. LoopOK'
            BY <1>7, <1>a, TerosRange DEF Tick, LoopOK
        <2> QED
            BY <1>7, <1>a, <2>1, <2>2, TypeParts DEF Tick, pr2, teros31, PR2OK, TurnOK, HistoryOK
    <1> QED
        BY <1>1, <1>2, <1>3, <1>4, <1>5, <1>6, <1>7 DEF Next, Loop

\* The state of the round keeps its types (TypeOK): no sensor past the last one is
\* addressed and no attempt is counted past stryouts.
THEOREM ColumnTypeCorrect == Spec => []TypeOK
    BY TypeInit, TypeNext, PTL DEF Spec

-----------------------------------------------------------------------------
\* The tensiometers have the bus.
TerosTurn == pr2_all_finished /\ ~teros31_all_finished

\* The two flags, the current tensiometer and the row of the PR2.
Stage ==
    /\ ~pr2_all_finished => ~teros31_all_finished /\ teros31_iss = 0 /\ pr2_rows = 0
    /\ pr2_all_finished => pr2_rows = 1
    /\ teros31_all_finished => teros31_iss = 0

\* A measurement that a tensiometer waits for was requested by it, also after a read
\* without an answer, when the timer has stopped and TimerOwned says nothing.
OwnMeasured == TerosTurn /\ requested[teros31_iss] => measured = TerosMeasured(teros31_iss)

OwnerInv == TypeOK /\ Stage /\ TimerOwned /\ OthersReset /\ OwnMeasured /\ ~misread

LEMMA OwnerInit == Init => OwnerInv
    <1> SUFFICES ASSUME Init PROVE Stage /\ TimerOwned /\ OthersReset /\ OwnMeasured /\ ~misread
        BY TypeInit DEF OwnerInv
    <1>1. ~sdi12_delay_timer.running
        BY DEF Init, BusInit, Stopped
    <1> QED
        BY <1>1 DEF Init, Stage, TimerOwned, OthersReset, OwnMeasured, TerosTurn

\* The end of the turn of a tensiometer, when no delay is running.
LEMMA TurnPasses ==
    ASSUME OwnerInv, TerosTurn, NextTeros, ~sdi12_delay_timer'.running, UNCHANGED pr2
    PROVE  Stage' /\ TimerOwned' /\ OthersReset' /\ OwnMeasured'
    <1>1. /\ teros31_iss \in Teros /\ requested \in [Teros -> BOOLEAN]
          /\ n_tryouts \in [Teros -> 0 .. stryouts] /\ pr2_all_finished = TRUE
          /\ pr2_all_finished' = pr2_all_finished /\ pr2_rows' = pr2_rows
        BY DEF OwnerInv, TypeOK, TerosTurn, pr2
    <1>2. \A i \in Teros : requested'[i] = FALSE /\ n_tryouts'[i] = 0
        <2> SUFFICES ASSUME NEW i \in Teros PROVE requested'[i] = FALSE /\ n_tryouts'[i] = 0
            OBVIOUS
        <2>1. CASE i = teros31_iss
            BY <1>1, <2>1 DEF NextTeros, Current
        <2>2. CASE i # teros31_iss
            <3>1. ~requested[i] /\ n_tryouts[i] = 0
                BY <2>2 DEF OwnerInv, OthersReset
            <3> QED
                BY <1>1, <2>2, <3>1 DEF NextTeros, Current
        <2> QED
            BY <2>1, <2>2
    <1>3. Stage'
        BY <1>1 DEF OwnerInv, Stage, TerosTurn, NextTeros
    <1>4. teros31_iss' \in Teros
        BY <1>1, TerosRange DEF NextTeros
    <1> QED
        BY <1>2, <1>3, <1>4 DEF TimerOwned, OthersReset, OwnMeasured

\* A failure that is counted, when no delay is running.
LEMMA TurnStays ==
    ASSUME OwnerInv, TerosTurn, ~sdi12_delay_timer'.running, measured' = measured,
           n_tryouts' = [n_tryouts EXCEPT ![Current] = @ + 1],
           UNCHANGED <<teros31_iss, teros31_all_finished, requested, pr2>>
    PROVE  Stage' /\ TimerOwned' /\ OthersReset' /\ OwnMeasured'
    <1>1. teros31_iss \in Teros /\ n_tryouts \in [Teros -> 0 .. stryouts]
          /\ pr2_all_finished' = pr2_all_finished /\ pr2_rows' = pr2_rows
        BY DEF OwnerInv, TypeOK, pr2
    <1>2. OthersReset'
        BY <1>1 DEF OwnerInv, OthersReset, TerosTurn, Current
    <1> QED
        BY <1>1, <1>2 DEF OwnerInv, Stage, TimerOwned, OwnMeasured, TerosTurn

LEMMA OwnerNext == OwnerInv /\ [Next]_vars => OwnerInv'
    <1> SUFFICES ASSUME OwnerInv, [Next]_vars
                 PROVE  Stage' /\ TimerOwned' /\ OthersReset' /\ OwnMeasured' /\ ~misread'
        BY TypeNext DEF OwnerInv
    <1>a. TypeOK /\ Stage /\ TimerOwned /\ OthersReset /\ OwnMeasured /\ ~misread
        BY DEF OwnerInv
    <1>b. BusTypeOK /\ PR2OK /\ TurnOK
        BY <1>a, TypeParts
    <1>1. CASE UNCHANGED <<bus, pr2, teros31, misread>>
        BY <1>1, <1>a DEF bus, pr2, teros31, Stage, TimerOwned, OthersReset, OwnMeasured, TerosTurn
    <1>2. CASE PR2Failed \/ PR2Requested
        <2>1. PICK ack \in Acknowledgements :
                /\ PR2Requests(ack)
                /\ IF Accepted(ack) THEN UNCHANGED pr2 ELSE UNCHANGED <<pr2_all_finished, pr2_rows>>
            BY <1>2 DEF PR2Failed, PR2Requested, pr2
        <2>2. /\ ~pr2_all_finished /\ pr2_all_finished' = pr2_all_finished /\ pr2_rows' = pr2_rows
              /\ ~sdi12_delay_timer.running /\ UNCHANGED <<teros31, misread>>
              /\ measureRequest("PR2", 0, icmd, ack)
            BY <2>1 DEF PR2Requests, pr2
        <2>3. TimerOwned'
            <3>1. CASE Accepted(ack)
                BY <1>b, <2>1, <2>2, <3>1, Requested DEF TimerOwned, pr2
            <3>2. CASE ~Accepted(ack)
                BY <1>b, <2>2, <3>2, Requested DEF TimerOwned
            <3> QED
                BY <3>1, <3>2
        <2> QED
            BY <1>a, <2>2, <2>3 DEF teros31, Stage, OthersReset, OwnMeasured, TerosTurn
    <1>3. CASE PR2Field \/ PR2Row
        <2>1. PICK reply \in DataReplies : PR2Reads(reply)
            BY <1>3 DEF PR2Field, PR2Row
        <2>2. measured = [kind |-> "PR2", dev |-> 0, cmd |-> icmd]
            BY <1>a, <2>1 DEF PR2Reads, TimerOwned
        <2>3. ~misread'
            BY <1>a, <2>1, <2>2 DEF PR2Reads, Stored
        <2>4. ~sdi12_delay_timer'.running /\ UNCHANGED teros31 /\ ~pr2_all_finished
            BY <1>b, <2>1, ReadTypes DEF PR2Reads
        <2>5. IF PR2Field THEN UNCHANGED <<pr2_all_finished, pr2_rows>>
              ELSE pr2_all_finished' = TRUE /\ pr2_rows' = 1
            BY <1>3, <1>a, <2>4 DEF PR2Field, PR2Row, Stage, Capped
        <2>6. Stage'
            BY <1>a, <2>4, <2>5 DEF Stage, teros31
        <2>7. OthersReset' /\ OwnMeasured'
            BY <1>a, <1>b, <2>4, <2>5 DEF OthersReset, OwnMeasured, TerosTurn, teros31, TurnOK, Stage
        <2> QED
            BY <2>3, <2>4, <2>6, <2>7 DEF TimerOwned
    <1>4. CASE TerosRequested
        <2>1. PICK ack \in Acknowledgements : TerosRequests(ack) /\ Accepted(ack)
            BY <1>4 DEF TerosRequested
        <2>2. measured' = TerosMeasured(teros31_iss) /\ TerosTurn /\ UNCHANGED <<pr2, misread>>
            BY <1>b, <2>1, Requested DEF TerosRequests, TerosMeasured, Current, MyTurn, TerosTurn
        <2>3. /\ teros31_iss' = teros31_iss /\ teros31_all_finished' = teros31_all_finished
              /\ requested' = [requested EXCEPT ![teros31_iss] = TRUE]
              /\ n_tryouts' = [n_tryouts EXCEPT ![teros31_iss] = 0]
            BY <1>4 DEF TerosRequested, Current
        <2>4. requested'[teros31_iss'] /\ pr2_all_finished' /\ ~teros31_all_finished'
            BY <1>b, <2>2, <2>3 DEF TurnOK, TerosTurn, pr2
        <2>5. TimerOwned' /\ OwnMeasured'
            BY <2>2, <2>3, <2>4 DEF TimerOwned, OwnMeasured, TerosMeasured
        <2>6. OthersReset'
            BY <1>a, <1>b, <2>2, <2>3 DEF OthersReset, TurnOK, TerosTurn, pr2
        <2> QED
            BY <1>a, <2>2, <2>3, <2>5, <2>6 DEF Stage, pr2
    <1>5. CASE TerosRequestRetry \/ TerosRequestGivenUp
        <2>1. PICK ack \in Acknowledgements : TerosRequests(ack) /\ ~Accepted(ack)
            BY <1>5 DEF TerosRequestRetry, TerosRequestGivenUp
        <2>2. ~sdi12_delay_timer'.running /\ measured' = measured /\ TerosTurn /\ UNCHANGED <<pr2, misread>>
            BY <1>b, <2>1, Requested DEF TerosRequests, MyTurn, TerosTurn
        <2>3. CASE TerosRequestRetry
            BY <1>a, <2>2, <2>3, TurnStays DEF TerosRequestRetry
        <2>4. CASE TerosRequestGivenUp
            BY <1>a, <2>2, <2>4, TurnPasses DEF TerosRequestGivenUp
        <2> QED
            BY <1>5, <2>3, <2>4
    <1>6. CASE TerosReadRetry \/ TerosReadGivenUp \/ TerosRow
        <2>1. PICK reply \in DataReplies : TerosReads(reply)
            BY <1>6 DEF TerosReadRetry, TerosReadGivenUp, TerosRow
        <2>2. /\ ~sdi12_delay_timer'.running /\ measured' = measured /\ TerosTurn /\ UNCHANGED pr2
            BY <1>b, <2>1, ReadTypes DEF TerosReads, MyTurn, TerosTurn
        <2>3. measured = TerosMeasured(teros31_iss)
            BY <1>a, <2>1, <2>2 DEF TerosReads, TimerOwned, OwnMeasured, TerosTurn, TerosMeasured, Current
        <2>4. ~misread'
            BY <1>a, <2>1, <2>3 DEF TerosReads, Stored, TerosMeasured, Current
        <2>5. CASE TerosReadRetry
            BY <2>2, <2>4, <2>5, TurnStays DEF TerosReadRetry
        <2>6. CASE TerosReadGivenUp \/ TerosRow
            BY <2>2, <2>4, <2>6, TurnPasses DEF TerosReadGivenUp, TerosRow
        <2> QED
            BY <1>6, <2>5, <2>6
    <1>7. CASE L2Tick
        <2>1. UNCHANGED <<bus, misread, icmd, teros31_iss, requested, n_tryouts>>
            BY <1>7 DEF L2Tick
        <2>2. CASE pr2_all_finished /\ teros31_all_finished
            <3>1. ~sdi12_delay_timer.running
                BY <1>a, <2>2 DEF TimerOwned
            <3>2. /\ pr2_all_finished' = FALSE /\ teros31_all_finished' = FALSE /\ pr2_rows' = 0
                BY <1>7, <2>2 DEF L2Tick
            <3> QED
                BY <1>a, <2>1, <2>2, <3>1, <3>2
                    DEF bus, Stage, TimerOwned, OthersReset, OwnMeasured, TerosTurn
        <2>3. CASE ~(pr2_all_finished /\ teros31_all_finished)
            <3>1. UNCHANGED <<pr2_all_finished, teros31_all_finished, pr2_rows>>
                BY <1>7, <2>3 DEF L2Tick
            <3> QED
                BY <1>a, <2>1, <3>1 DEF bus, Stage, TimerOwned, OthersReset, OwnMeasured, TerosTurn
        <2> QED
            BY <2>2, <2>3
    <1>8. CASE Tick
        <2>1. /\ sdi12_delay_timer'.running = sdi12_delay_timer.running
              /\ UNCHANGED <<measured, pr2, teros31, misread>>
            BY <1>8, <1>b, TimerSteps DEF Tick, BusTypeOK
        <2> QED
            BY <1>a, <2>1 DEF pr2, teros31, Stage, TimerOwned, OthersReset, OwnMeasured, TerosTurn
    <1>9. CASE PR2Measuring \/ TerosMeasuring \/ Idle \/ L2Wait \/ UNCHANGED vars
        <2>1. UNCHANGED <<bus, pr2, teros31, misread>>
            BY <1>9 DEF PR2Measuring, TerosMeasuring, Idle, L2Wait, vars
        <2> QED
            BY <1>1, <2>1
    <1> QED
        BY <1>2, <1>3, <1>4, <1>5, <1>6, <1>7, <1>8, <1>9
            DEF Next, Loop, collect_and_write_PR2, collect_and_write_Teros31

\* The delay timer that all readers share always times the measurement of the reader
\* whose turn it is, and no value reaches a row of another sensor or another field
\* (NeverMisread), whatever the sensors answer and whenever timer_L2 fires.
THEOREM NobodyMisreads == Spec => []NeverMisread
    <1>1. OwnerInv => NeverMisread
        BY DEF OwnerInv, NeverMisread
    <1> QED
        BY <1>1, OwnerInit, OwnerNext, PTL DEF Spec

-----------------------------------------------------------------------------
\* Tensiometers whose turn is still to come in this round, and those that had it.
Waiting(i) == ~pr2_all_finished \/ (~teros31_all_finished /\ i > teros31_iss)
Served(i) == teros31_all_finished \/ (pr2_all_finished /\ i < teros31_iss)

WaitingUntouched == \A i \in Teros : Waiting(i) => commands[i] = 0 /\ teros31_rows[i] = 0

ServedOnce ==
    \A i \in Teros : Served(i) =>
        /\ commands[i] <= MostCommands
        /\ teros31_rows[i] <= 1
        /\ i \in Answering => teros31_rows[i] = 1

\* Every command of the current one but the last request has failed and was counted;
\* an accepted request starts the count again for the reads.
CurrentCounted ==
    TerosTurn =>
        /\ teros31_rows[teros31_iss] = 0
        /\ commands[teros31_iss] <= n_tryouts[teros31_iss] +
              IF requested[teros31_iss] THEN stryouts + 1 ELSE 0

Counts == WaitingUntouched /\ ServedOnce /\ CurrentCounted

CountInv == OwnerInv /\ Counts

LEMMA CountInit == Init => CountInv
    BY OwnerInit DEF Init, CountInv, Counts, WaitingUntouched, ServedOnce, CurrentCounted, Served, TerosTurn

\* What the current tensiometer has used of its attempts.
LEMMA CurrentNumbers ==
    ASSUME CountInv, TerosTurn
    PROVE  /\ teros31_iss \in Teros /\ teros31_iss \in Nat
           /\ commands \in [Teros -> 0 .. MostCommands + 1] /\ teros31_rows \in [Teros -> 0 .. 2]
           /\ n_tryouts \in [Teros -> 0 .. stryouts] /\ requested \in [Teros -> BOOLEAN]
           /\ n_tryouts[teros31_iss] \in 0 .. stryouts /\ commands[teros31_iss] \in Nat
           /\ teros31_rows[teros31_iss] = 0
           /\ commands[teros31_iss] < MostCommands
           /\ commands[teros31_iss] <= n_tryouts[teros31_iss] +
                IF requested[teros31_iss] THEN stryouts + 1 ELSE 0
    <1>1. /\ teros31_iss \in Teros
          /\ commands \in [Teros -> 0 .. MostCommands + 1] /\ teros31_rows \in [Teros -> 0 .. 2]
          /\ n_tryouts \in [Teros -> 0 .. stryouts] /\ requested \in [Teros -> BOOLEAN]
        BY DEF CountInv, OwnerInv, TypeOK
    <1>2. /\ n_tryouts[teros31_iss] \in 0 .. stryouts
          /\ commands[teros31_iss] \in 0 .. MostCommands + 1
        BY <1>1
    <1>3. /\ teros31_rows[teros31_iss] = 0
          /\ commands[teros31_iss] <= n_tryouts[teros31_iss] +
               IF requested[teros31_iss] THEN stryouts + 1 ELSE 0
        BY DEF CountInv, Counts, CurrentCounted
    <1>4. commands[teros31_iss] < MostCommands /\ commands[teros31_iss] \in Nat
        BY <1>2, <1>3, TerosRange DEF MostCommands
    <1> QED
        BY <1>1, <1>2, <1>3, <1>4, TerosRange

\* A command is counted for the current tensiometer and for no other.
LEMMA OneSent ==
    ASSUME CountInv, TerosTurn, Sent
    PROVE  \A i \in Teros : commands'[i] = IF i = teros31_iss THEN commands[i] + 1 ELSE commands[i]
    BY CurrentNumbers, Bounds DEF Sent, Current

\* The turn stays: only the count of the current tensiometer has to be looked at.
LEMMA CountStays ==
    ASSUME CountInv, TerosTurn, Sent,
           UNCHANGED <<pr2, teros31_iss, teros31_all_finished, teros31_rows>>,
           commands[teros31_iss] + 1 <= n_tryouts'[teros31_iss] +
               IF requested'[teros31_iss] THEN stryouts + 1 ELSE 0
    PROVE  Counts'
    <1>1. /\ pr2_all_finished' = pr2_all_finished /\ teros31_iss' = teros31_iss
          /\ teros31_all_finished' = teros31_all_finished /\ teros31_rows' = teros31_rows
          /\ teros31_iss \in Teros /\ teros31_iss \in Nat
        BY CurrentNumbers DEF pr2
    <1>2. ~Waiting(teros31_iss) /\ ~Served(teros31_iss)
        BY <1>1 DEF Waiting, Served, TerosTurn
    <1>3. WaitingUntouched'
        BY <1>1, <1>2, OneSent DEF CountInv, Counts, WaitingUntouched, Waiting
    <1>4. ServedOnce'
        BY <1>1, <1>2, OneSent DEF CountInv, Counts, ServedOnce, Served
    <1>5. CurrentCounted'
        BY <1>1, OneSent, CurrentNumbers DEF CurrentCounted
    <1> QED
        BY <1>3, <1>4, <1>5 DEF Counts

\* The turn passes to the next tensiometer, or the round ends.
LEMMA CountPasses ==
    ASSUME CountInv, TerosTurn, Sent, NextTeros, UNCHANGED pr2,
           NEW n \in 0 .. 1, teros31_rows' = [teros31_rows EXCEPT ![teros31_iss] = n],
           teros31_iss \in Answering => n = 1
    PROVE  Counts'
    <1>1. /\ teros31_iss \in Teros /\ teros31_iss \in Nat
          /\ pr2_all_finished = TRUE /\ pr2_all_finished' = TRUE /\ teros31_all_finished = FALSE
        BY CurrentNumbers DEF CountInv, OwnerInv, TypeOK, TerosTurn, pr2
    <1>2. \A i \in Teros : teros31_rows'[i] = IF i = teros31_iss THEN n ELSE teros31_rows[i]
        BY CurrentNumbers
    <1>3. IF teros31_iss + 1 = n_teros31_sensors
          THEN teros31_iss' = 0 /\ teros31_all_finished' = TRUE
          ELSE teros31_iss' = teros31_iss + 1 /\ teros31_all_finished' = FALSE
        BY <1>1 DEF NextTeros
    <1>4. commands'[teros31_iss] <= MostCommands
        BY <1>1, OneSent, CurrentNumbers, Bounds
    <1>5. WaitingUntouched'
        <2> SUFFICES ASSUME NEW i \in Teros, Waiting(i)' PROVE commands'[i] = 0 /\ teros31_rows'[i] = 0
            BY DEF WaitingUntouched
        <2>1. i > teros31_iss /\ i # teros31_iss
            BY <1>1, <1>3, TerosRange DEF Waiting
        <2> QED
            BY <1>1, <1>2, <2>1, OneSent DEF CountInv, Counts, WaitingUntouched, Waiting
    <1>6. ServedOnce'
        <2> SUFFICES ASSUME NEW i \in Teros, Served(i)'
                     PROVE  /\ commands'[i] <= MostCommands /\ teros31_rows'[i] <= 1
                            /\ i \in Answering => teros31_rows'[i] = 1
            BY DEF ServedOnce
        <2>1. i = teros31_iss \/ (i < teros31_iss /\ i # teros31_iss)
            BY <1>1, <1>3, TerosRange DEF Served
        <2>2. CASE i = teros31_iss
            BY <1>2, <1>4, <2>2
        <2>3. CASE i < teros31_iss /\ i # teros31_iss
            BY <1>1, <1>2, <2>3, OneSent DEF CountInv, Counts, ServedOnce, Served
        <2> QED
            BY <2>1, <2>2, <2>3
    <1>7. CurrentCounted'
        <2> SUFFICES ASSUME TerosTurn' PROVE CurrentCounted'
            BY DEF CurrentCounted
        <2>1. teros31_iss' = teros31_iss + 1 /\ teros31_iss' \in Teros
            BY <1>1, <1>3, TerosRange DEF TerosTurn
        <2>2. Waiting(teros31_iss') /\ teros31_iss' # teros31_iss
            BY <1>1, <2>1 DEF Waiting
        <2>3. commands'[teros31_iss'] = 0 /\ teros31_rows'[teros31_iss'] = 0
            BY <1>1, <1>2, <2>1, <2>2, OneSent DEF CountInv, Counts, WaitingUntouched
        <2>4. ~requested[teros31_iss'] /\ n_tryouts[teros31_iss'] = 0
            BY <2>1, <2>2 DEF CountInv, OwnerInv, OthersReset
        <2>5. requested'[teros31_iss'] = FALSE /\ n_tryouts'[teros31_iss'] = 0
            BY <2>1, <2>2, <2>4, CurrentNumbers DEF NextTeros, Current
        <2> QED
            BY <2>3, <2>5 DEF CurrentCounted
    <1> QED
        BY <1>5, <1>6, <1>7 DEF Counts

LEMMA CountNext == CountInv /\ [Next]_vars => CountInv'
    <1> SUFFICES ASSUME CountInv, [Next]_vars PROVE Counts'
        BY OwnerNext DEF CountInv
    <1>a. OwnerInv /\ Counts /\ TypeOK /\ TimerOwned
        BY DEF CountInv, OwnerInv
    <1>1. CASE UNCHANGED <<pr2_all_finished, teros31>>
        BY <1>1, <1>a DEF teros31, Counts, WaitingUntouched, ServedOnce, CurrentCounted,
            Waiting, Served, TerosTurn
    <1>2. CASE PR2Failed \/ PR2Requested \/ PR2Field
        <2>1. UNCHANGED <<pr2_all_finished, teros31>>
            BY <1>2 DEF PR2Failed, PR2Requested, PR2Requests, PR2Field, PR2Reads, pr2
        <2> QED
            BY <1>1, <2>1
    <1>3. CASE PR2Row
        <2>1. ~pr2_all_finished /\ pr2_all_finished' = TRUE /\ UNCHANGED teros31
            BY <1>3 DEF PR2Row, PR2Reads
        <2>2. ~teros31_all_finished /\ teros31_iss = 0
            BY <1>a, <2>1 DEF OwnerInv, Stage
        <2>3. \A i \in Teros : commands[i] = 0 /\ teros31_rows[i] = 0
            BY <1>a, <2>1 DEF Counts, WaitingUntouched, Waiting
        <2>4. ~requested[0] /\ n_tryouts[0] = 0
            BY <1>a, <2>1, TerosRange DEF OwnerInv, OthersReset
        <2>5. \A i \in Teros : ~Served(i)'
            <3>1. teros31_all_finished' = teros31_all_finished /\ teros31_iss' = 0
                BY <2>1, <2>2 DEF teros31
            <3>2. \A i \in Teros : ~(i < 0)
                BY TerosRange
            <3> QED
                BY <2>2, <3>1, <3>2 DEF Served
        <2> QED
            BY <2>1, <2>2, <2>3, <2>4, <2>5, TerosRange
                DEF teros31, Counts, WaitingUntouched, ServedOnce, CurrentCounted
    <1>4. CASE TerosRequested
        <2>1. TerosTurn /\ Sent /\ UNCHANGED <<pr2, teros31_rows>> /\ ~requested[teros31_iss]
            BY <1>4 DEF TerosRequested, TerosRequests, MyTurn, TerosTurn, Current
        <2>2. UNCHANGED <<teros31_iss, teros31_all_finished>>
            BY <1>4 DEF TerosRequested
        <2>3. requested'[teros31_iss] = TRUE /\ n_tryouts'[teros31_iss] = 0
            BY <1>4, <2>1, CurrentNumbers DEF TerosRequested, Current
        <2>4. commands[teros31_iss] + 1 <= 0 + (stryouts + 1)
            BY <2>1, CurrentNumbers, TerosRange
        <2> QED
            BY <2>1, <2>2, <2>3, <2>4, CountStays
    <1>5. CASE TerosRequestRetry
        <2>1. TerosTurn /\ Sent /\ UNCHANGED <<pr2, teros31_rows>> /\ ~requested[teros31_iss]
            BY <1>5 DEF TerosRequestRetry, TerosRequests, MyTurn, TerosTurn, Current
        <2>2. UNCHANGED <<teros31_iss, teros31_all_finished, requested>>
            BY <1>5 DEF TerosRequestRetry
        <2>3. n_tryouts'[teros31_iss] = n_tryouts[teros31_iss] + 1
            BY <1>5, <2>1, CurrentNumbers DEF TerosRequestRetry, Current
        <2>4. commands[teros31_iss] + 1 <= n_tryouts'[teros31_iss] +
                IF requested'[teros31_iss] THEN stryouts + 1 ELSE 0
            BY <2>1, <2>2, <2>3, CurrentNumbers
        <2> QED
            BY <2>1, <2>2, <2>4, CountStays
    <1>6. CASE TerosRequestGivenUp
        <2>1. TerosTurn /\ Sent /\ NextTeros /\ UNCHANGED <<pr2, teros31_rows>>
            BY <1>6 DEF TerosRequestGivenUp, TerosRequests, MyTurn, TerosTurn
        <2>2. teros31_iss \notin Answering
            BY <1>6 DEF TerosRequestGivenUp, TerosRequests, Current, Healthy, Accepted
        <2>3. teros31_rows' = [teros31_rows EXCEPT ![teros31_iss] = 0]
            BY <2>1, CurrentNumbers
        <2>4. 0 \in 0 .. 1
            OBVIOUS
        <2> QED
            BY <2>1, <2>2, <2>3, <2>4, CountPasses
    <1>7. CASE TerosReadRetry
        <2>1. TerosTurn /\ Sent /\ UNCHANGED pr2
            BY <1>7 DEF TerosReadRetry, TerosReads, MyTurn, TerosTurn
        <2>2. UNCHANGED <<teros31_iss, teros31_all_finished, requested, teros31_rows>>
            BY <1>7 DEF TerosReadRetry
        <2>3. n_tryouts'[teros31_iss] = n_tryouts[teros31_iss] + 1
            BY <1>7, <2>1, CurrentNumbers DEF TerosReadRetry, Current
        <2>4. commands[teros31_iss] + 1 <= n_tryouts'[teros31_iss] +
                IF requested'[teros31_iss] THEN stryouts + 1 ELSE 0
            <3>1. requested' = requested
                BY <2>2
            <3>2. CASE requested[teros31_iss]
                BY <2>1, <2>3, <3>1, <3>2, CurrentNumbers, TerosRange
            <3>3. CASE ~requested[teros31_iss]
                BY <2>1, <2>3, <3>1, <3>3, CurrentNumbers
            <3> QED
                BY <3>2, <3>3
        <2> QED
            BY <2>1, <2>2, <2>4, CountStays
    <1>8. CASE TerosReadGivenUp
        <2>1. TerosTurn /\ Sent /\ NextTeros /\ UNCHANGED <<pr2, teros31_rows>>
            BY <1>8 DEF TerosReadGivenUp, TerosReads, MyTurn, TerosTurn
        <2>2. teros31_iss \notin Answering
            BY <1>8 DEF TerosReadGivenUp, TerosReads, Current, NoReply
        <2>3. teros31_rows' = [teros31_rows EXCEPT ![teros31_iss] = 0]
            BY <2>1, CurrentNumbers
        <2>4. 0 \in 0 .. 1
            OBVIOUS
        <2> QED
            BY <2>1, <2>2, <2>3, <2>4, CountPasses
    <1>9. CASE TerosRow
        <2>1. TerosTurn /\ Sent /\ NextTeros /\ UNCHANGED pr2
            BY <1>9 DEF TerosRow, TerosReads, MyTurn, TerosTurn
        <2>2. teros31_rows' = [teros31_rows EXCEPT ![teros31_iss] = 1]
            BY <1>9, <2>1, CurrentNumbers DEF TerosRow, Current, Capped
        <2> QED
            BY <2>1, <2>2, CountPasses
    <1>10. CASE L2Tick
        <2>1. CASE pr2_all_finished /\ teros31_all_finished
            <3>1. /\ pr2_all_finished' = FALSE /\ teros31_all_finished' = FALSE
                  /\ teros31_rows' = [i \in Teros |-> 0] /\ commands' = [i \in Teros |-> 0]
                BY <1>10, <2>1 DEF L2Tick
            <3> QED
                BY <3>1 DEF Counts, WaitingUntouched, ServedOnce, CurrentCounted, Served, TerosTurn
        <2>2. CASE ~(pr2_all_finished /\ teros31_all_finished)
            <3>1. UNCHANGED <<pr2_all_finished, teros31>>
                BY <1>10, <2>2 DEF L2Tick, teros31
            <3> QED
                BY <1>1, <3>1
        <2> QED
            BY <2>1, <2>2
    <1>11. CASE PR2Measuring \/ TerosMeasuring \/ Idle \/ L2Wait \/ Tick \/ UNCHANGED vars
        <2>1. UNCHANGED <<pr2_all_finished, teros31>>
            BY <1>11 DEF PR2Measuring, TerosMeasuring, Idle, L2Wait, Tick, vars, pr2
        <2> QED
            BY <1>1, <2>1
    <1> QED
        BY <1>2, <1>3, <1>4, <1>5, <1>6, <1>7, <1>8, <1>9, <1>10, <1>11
            DEF Next, Loop, collect_and_write_PR2, collect_and_write_Teros31

\* A tensiometer that does not answer costs at most 2 * stryouts + 2 commands and leaves
\* the next one all its attempts (AttemptsBounded), for every stryouts.
THEOREM AttemptsAreBounded == Spec => []AttemptsBounded
    <1>1. CountInv => AttemptsBounded
        <2> SUFFICES ASSUME CountInv PROVE AttemptsBounded
            OBVIOUS
        <2>1. OthersReset
            BY DEF CountInv, OwnerInv
        <2>2. ASSUME NEW i \in Teros PROVE commands[i] <= MostCommands
            <3>1. CASE Waiting(i)
                BY <3>1, Bounds DEF CountInv, Counts, WaitingUntouched
            <3>2. CASE Served(i)
                BY <3>2 DEF CountInv, Counts, ServedOnce
            <3>3. CASE ~Waiting(i) /\ ~Served(i)
                <4>1. TerosTurn /\ i = teros31_iss
                    BY <3>3, TerosRange DEF Waiting, Served, TerosTurn, CountInv, OwnerInv, TypeOK
                <4> QED
                    BY <4>1, CurrentNumbers, Bounds
            <3> QED
                BY <3>1, <3>2, <3>3
        <2> QED
            BY <2>1, <2>2 DEF AttemptsBounded
    <1> QED
        BY <1>1, CountInit, CountNext, PTL DEF Spec

\* A finished round has one row of the PR2, at most one of each tensiometer and exactly one
\* of each that answers (RoundComplete), whichever of the others fail.
THEOREM RoundIsComplete == Spec => []RoundComplete
    <1>1. CountInv => RoundComplete
        <2>1. \A i \in Answering : i \in Teros
            BY ColumnAssumption DEF Teros
        <2> QED
            BY <2>1 DEF CountInv, OwnerInv, Stage, Counts, ServedOnce, Served, RoundComplete
    <1> QED
        BY <1>1, CountInit, CountNext, PTL DEF Spec

-----------------------------------------------------------------------------
\* The section implements MeasuringRound.

\* A turn of a tensiometer, seen from the round.
LEMMA TerosTurnIs ==
    ASSUME TypeOK, TerosTurn
    PROVE  /\ Turn = teros31_iss + 1 /\ Turn \in 1 .. n_teros31_sensors
           /\ teros31_iss \in Teros /\ teros31_iss \in Nat
           /\ n_teros31_sensors \in Nat
    <1>1. teros31_iss \in Teros
        BY DEF TypeOK
    <1>2. Turn = teros31_iss + 1
        BY DEF Turn, TerosTurn
    <1> QED
        BY <1>1, <1>2, TerosRange

\* NextTeros ends the turn.
LEMMA TurnEnds ==
    ASSUME TypeOK, TerosTurn, NextTeros, UNCHANGED pr2
    PROVE  Turn' = Turn + 1
    <1>1. /\ pr2_all_finished' = TRUE /\ Turn = teros31_iss + 1 /\ teros31_iss \in Nat
          /\ n_teros31_sensors \in Nat /\ teros31_all_finished = FALSE
        BY TerosTurnIs DEF pr2, TypeOK, TerosTurn
    <1>2. CASE teros31_iss + 1 = n_teros31_sensors
        BY <1>1, <1>2 DEF NextTeros, Turn
    <1>3. CASE teros31_iss + 1 # n_teros31_sensors
        BY <1>1, <1>3 DEF NextTeros, Turn
    <1> QED
        BY <1>2, <1>3

\* A step that leaves the turn and the rows alone is a stutter of the round.
LEMMA RoundStutters ==
    ASSUME UNCHANGED <<Turn, Rows>>
    PROVE  [Round!Next]_(Round!vars)
    BY DEF Round!vars

LEMMA SameTurn ==
    ASSUME UNCHANGED <<pr2_all_finished, teros31_all_finished, teros31_iss, pr2_rows, teros31_rows>>
    PROVE  [Round!Next]_(Round!vars)
    <1>1. UNCHANGED <<Turn, Rows>>
        BY DEF Turn, Rows
    <1> QED
        BY <1>1, RoundStutters

LEMMA GivesUp ==
    ASSUME TypeOK, TerosTurn, NextTeros, UNCHANGED <<pr2, teros31_rows>>,
           teros31_iss \notin Answering
    PROVE  [Round!Next]_(Round!vars)
    <1>1. Turn' = Turn + 1 /\ Turn < n_teros31_sensors + 1
        BY TurnEnds, TerosTurnIs
    <1>2. Rows' = Rows
        BY DEF Rows, pr2
    <1>3. Turn \notin {0} \cup {i + 1 : i \in Answering}
        <2>1. \A i \in Answering : i \in Int
            BY ColumnAssumption
        <2>2. Turn # 0 /\ \A i \in Answering : Turn # i + 1
            BY <2>1, TerosTurnIs
        <2> QED
            BY <2>2
    <1>4. Round!GiveUp
        BY <1>1, <1>2, <1>3 DEF Round!GiveUp
    <1> QED
        BY <1>4 DEF Round!Next

LEMMA GetsRow ==
    ASSUME CountInv, TerosTurn, NextTeros, UNCHANGED pr2,
           teros31_rows' = [teros31_rows EXCEPT ![teros31_iss] = Capped(@)]
    PROVE  [Round!Next]_(Round!vars)
    <1>1. TypeOK /\ teros31_rows[teros31_iss] = 0 /\ teros31_rows \in [Teros -> 0 .. 2]
        BY CurrentNumbers DEF CountInv, OwnerInv
    <1>2. Turn' = Turn + 1 /\ Turn < n_teros31_sensors + 1 /\ pr2_rows' = pr2_rows
        BY <1>1, TurnEnds, TerosTurnIs DEF pr2
    <1>3. Rows' = [Rows EXCEPT ![Turn] = @ + 1]
        <2>1. \A i \in Teros : teros31_rows'[i] =
                                   IF i = teros31_iss THEN teros31_rows[i] + 1 ELSE teros31_rows[i]
            BY <1>1 DEF Capped
        <2>2. ASSUME NEW s \in 0 .. n_teros31_sensors
              PROVE  Rows'[s] = [Rows EXCEPT ![Turn] = @ + 1][s]
            <3>1. CASE s = 0
                <4>1. Turn # 0
                    BY <1>1, TerosTurnIs
                <4> QED
                    BY <1>2, <3>1, <4>1 DEF Rows
            <3>2. CASE s # 0
                <4>1. s - 1 \in Teros /\ (s = Turn <=> s - 1 = teros31_iss)
                    BY <1>1, <3>2, TerosTurnIs DEF Teros
                <4>2. Rows'[s] = teros31_rows'[s - 1] /\ Rows[s] = teros31_rows[s - 1]
                    BY <3>2 DEF Rows
                <4>3. [Rows EXCEPT ![Turn] = @ + 1][s] = IF s = Turn THEN Rows[s] + 1 ELSE Rows[s]
                    BY DEF Rows
                <4> QED
                    BY <2>1, <4>1, <4>2, <4>3
            <3> QED
                BY <3>1, <3>2
        <2> QED
            BY <2>2 DEF Rows
    <1>4. Round!AppendRow
        BY <1>2, <1>3 DEF Round!AppendRow
    <1> QED
        BY <1>4 DEF Round!Next

LEMMA PR2GetsRow ==
    ASSUME CountInv, PR2Row
    PROVE  [Round!Next]_(Round!vars)
    <1>1. /\ ~pr2_all_finished /\ pr2_all_finished' = TRUE
          /\ pr2_rows' = Capped(pr2_rows) /\ UNCHANGED teros31
        BY DEF PR2Row, PR2Reads
    <1>2. ~teros31_all_finished /\ teros31_iss = 0 /\ pr2_rows = 0
        BY <1>1 DEF CountInv, OwnerInv, Stage
    <1>3. Turn = 0 /\ Turn' = Turn + 1
        BY <1>1, <1>2 DEF Turn, teros31
    <1>4. Rows' = [Rows EXCEPT ![0] = @ + 1]
        <2>1. pr2_rows' = pr2_rows + 1 /\ teros31_rows' = teros31_rows
            BY <1>1, <1>2 DEF Capped, teros31
        <2>2. 0 \in 0 .. n_teros31_sensors
            BY TerosRange
        <2> QED
            BY <2>1, <2>2 DEF Rows
    <1>5. Turn < n_teros31_sensors + 1
        BY <1>3, TerosRange
    <1>6. Round!AppendRow
        BY <1>3, <1>4, <1>5 DEF Round!AppendRow
    <1> QED
        BY <1>6 DEF Round!Next

LEMMA NoRowsIs == Round!NoRows = [s \in 0 .. n_teros31_sensors |-> 0]
    <1>1. 0 .. (n_teros31_sensors + 1) - 1 = 0 .. n_teros31_sensors
        BY TerosRange
    <1> QED
        BY <1>1, Zenon DEF Round!NoRows

LEMMA StartsRound ==
    ASSUME TypeOK, L2Tick
    PROVE  [Round!Next]_(Round!vars)
    <1>1. CASE pr2_all_finished /\ teros31_all_finished
        <2>1. /\ pr2_all_finished' = FALSE /\ pr2_rows' = 0
              /\ teros31_rows' = [i \in Teros |-> 0]
            BY <1>1 DEF L2Tick
        <2>2. Turn = n_teros31_sensors + 1 /\ Turn' = 0
            BY <1>1, <2>1 DEF Turn
        <2>3. Rows' = Round!NoRows
            <3>1. \A s \in 0 .. n_teros31_sensors : s # 0 => s - 1 \in Teros
                BY TerosRange DEF Teros
            <3>2. Rows' = [s \in 0 .. n_teros31_sensors |-> 0]
                BY <2>1, <3>1 DEF Rows
            <3> QED
                BY <3>2, NoRowsIs
        <2>4. Round!StartRound
            BY <2>2, <2>3 DEF Round!StartRound
        <2> QED
            BY <2>4 DEF Round!Next
    <1>2. CASE ~(pr2_all_finished /\ teros31_all_finished)
        BY <1>2, SameTurn DEF L2Tick
    <1> QED
        BY <1>1, <1>2

LEMMA RoundInit == Init => Round!Init
    <1>0. {0} \cup {i + 1 : i \in Answering} \subseteq 0 .. (n_teros31_sensors + 1) - 1
        BY ColumnAssumption
    <1> SUFFICES ASSUME Init PROVE Turn = 0 /\ Rows = Round!NoRows
        BY <1>0 DEF Round!Init
    <1>1. Turn = 0
        BY DEF Init, Turn
    <1>2. \A s \in 0 .. n_teros31_sensors : s # 0 => s - 1 \in Teros
        BY TerosRange DEF Teros
    <1>3. Rows = [s \in 0 .. n_teros31_sensors |-> 0]
        BY <1>2 DEF Init, Rows
    <1> QED
        BY <1>1, <1>3, NoRowsIs

LEMMA RoundNext == CountInv /\ [Next]_vars => [Round!Next]_(Round!vars)
    <1> SUFFICES ASSUME CountInv, [Next]_vars PROVE [Round!Next]_(Round!vars)
        OBVIOUS
    <1>a. TypeOK
        BY DEF CountInv, OwnerInv
    <1>1. CASE PR2Row
        BY <1>1, PR2GetsRow
    <1>2. CASE TerosRequestGivenUp
        <2>1. TerosTurn /\ NextTeros /\ UNCHANGED <<pr2, teros31_rows>>
            BY <1>2 DEF TerosRequestGivenUp, TerosRequests, MyTurn, TerosTurn
        <2>2. teros31_iss \notin Answering
            BY <1>2 DEF TerosRequestGivenUp, TerosRequests, Current, Healthy, Accepted
        <2> QED
            BY <1>a, <2>1, <2>2, GivesUp
    <1>3. CASE TerosReadGivenUp
        <2>1. TerosTurn /\ NextTeros /\ UNCHANGED <<pr2, teros31_rows>>
            BY <1>3 DEF TerosReadGivenUp, TerosReads, MyTurn, TerosTurn
        <2>2. teros31_iss \notin Answering
            BY <1>3 DEF TerosReadGivenUp, TerosReads, Current, NoReply
        <2> QED
            BY <1>a, <2>1, <2>2, GivesUp
    <1>4. CASE TerosRow
        <2>1. TerosTurn /\ NextTeros /\ UNCHANGED pr2
            BY <1>4 DEF TerosRow, TerosReads, MyTurn, TerosTurn
        <2>2. teros31_rows' = [teros31_rows EXCEPT ![teros31_iss] = Capped(@)]
            BY <1>4 DEF TerosRow, Current
        <2> QED
            BY <2>1, <2>2, GetsRow
    <1>5. CASE L2Tick
        BY <1>5, <1>a, StartsRound
    <1>6. CASE PR2Failed \/ PR2Requested \/ PR2Field
        BY <1>6, SameTurn
           DEF PR2Failed, PR2Requested, PR2Requests, PR2Field, PR2Reads, pr2, teros31
    <1>7. CASE TerosRequested \/ TerosRequestRetry \/ TerosReadRetry
        BY <1>7, SameTurn
           DEF TerosRequested, TerosRequestRetry, TerosRequests, TerosReadRetry, TerosReads, pr2
    <1>8. CASE PR2Measuring \/ TerosMeasuring \/ Idle \/ L2Wait \/ Tick \/ UNCHANGED vars
        BY <1>8, SameTurn DEF PR2Measuring, TerosMeasuring, Idle, L2Wait, Tick, vars, pr2, teros31
    <1> QED
        BY <1>1, <1>2, <1>3, <1>4, <1>5, <1>6, <1>7, <1>8
           DEF Next, Loop, collect_and_write_PR2, collect_and_write_Teros31

\* The sensor section of the loop implements MeasuringRound (RoundImplemented), for every
\* number of tensiometers and attempts: sensors have their turns in order, each appends a
\* row in its own turn or is given up, and timer_L2 starts a round after the last turn only.
THEOREM SectionImplementsRound == Spec => RoundImplemented
    <1>1. Init => Round!Init
        BY RoundInit
    <1>2. CountInv /\ [Next]_vars => [Round!Next]_(Round!vars)
        BY RoundNext
    <1> QED
        BY <1>1, <1>2, CountInit, CountNext, PTL DEF Spec, RoundImplemented, Round!Spec
=============================================================================
