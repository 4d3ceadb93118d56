---------------------------- MODULE LoggerProofs ----------------------------
(***************************************************************************)
(* The logger implements LogStream, for every length of the queue: buffer, *)
(* queue and writer together are the stretch between a call of print and   *)
(* the file, and no step of either task reorders, repeats or invents a     *)
(* message.                                                                *)
(***************************************************************************)
EXTENDS Logger, SequenceTheorems, TLAPS

\* The messages on their way, as Logger substitutes them in LogStream.
Way == Optional(received) \o messageQueue \o Optional(_log_buf)

\* An empty queue before setup_log: what makes creating the queue no loss.
Inv == TypeOK /\ (pc = "setup" => messageQueue = <<>> /\ received = NoMessage)

-----------------------------------------------------------------------------
LEMMA OptionalSeq ==
    ASSUME NEW m \in Messages \cup {NoMessage}
    PROVE  /\ Optional(m) \in Seq(Messages)
           /\ Len(Optional(m)) <= 1
           /\ Len(Optional(m)) \in Nat
           /\ m = NoMessage => Optional(m) = <<>>
           /\ m # NoMessage => Optional(m) = <<m>> /\ m \in Messages
    <1>1. CASE m = NoMessage
        BY <1>1, EmptySeq DEF Optional
    <1>2. CASE m # NoMessage
        BY <1>2 DEF Optional
    <1> QED
        BY <1>1, <1>2

LEMMA MessageNotNone == \A m \in Messages : m # NoMessage
    BY DEF Messages, NoMessage

\* Putting a message in front, and taking it away again.
LEMMA FrontOf ==
    ASSUME NEW S, NEW e \in S, NEW s \in Seq(S)
    PROVE  /\ <<e>> \o s # <<>>
           /\ Head(<<e>> \o s) = e
           /\ Tail(<<e>> \o s) = s
    <1> DEFINE t == <<e>> \o s
    <1>1. <<e>> \in Seq(S) /\ Len(<<e>>) = 1 /\ <<e>>[1] = e
        OBVIOUS
    <1>2. /\ t \in Seq(S) /\ Len(t) = 1 + Len(s) /\ Len(s) \in Nat
          /\ \A i \in 1 .. 1 + Len(s) : t[i] = IF i <= 1 THEN <<e>>[i] ELSE s[i - 1]
        BY <1>1, ConcatProperties, LenProperties
    <1>3. t # <<>> /\ t[1] = e
        BY <1>1, <1>2, EmptySeq
    <1>4. Head(t) = e
        BY <1>3
    <1>5. /\ Tail(t) \in Seq(S) /\ Len(Tail(t)) = Len(s)
          /\ \A i \in 1 .. Len(s) : Tail(t)[i] = s[i]
        BY <1>2, <1>3, HeadTailProperties
    <1>6. Tail(t) = s
        BY <1>5, SeqEqual
    <1> QED
        BY <1>3, <1>4, <1>6

LEMMA HeadThenTail ==
    ASSUME NEW S, NEW s \in Seq(S), s # <<>>
    PROVE  s = <<Head(s)>> \o Tail(s)
    <1>1. Head(s) \in S /\ Tail(s) \in Seq(S) /\ Len(Tail(s)) = Len(s) - 1
          /\ \A i \in 1 .. Len(Tail(s)) : Tail(s)[i] = s[i + 1]
        BY HeadTailProperties
    <1>2. Len(s) \in Nat \ {0} /\ Head(s) = s[1]
        BY EmptySeq
    <1> DEFINE t == <<Head(s)>> \o Tail(s)
    <1>3. <<Head(s)>> \in Seq(S) /\ Len(<<Head(s)>>) = 1 /\ <<Head(s)>>[1] = Head(s)
        BY <1>1
    <1>4. /\ t \in Seq(S) /\ Len(t) = Len(s)
          /\ \A i \in 1 .. Len(s) : t[i] = IF i <= 1 THEN <<Head(s)>>[i] ELSE Tail(s)[i - 1]
        BY <1>1, <1>2, <1>3, ConcatProperties
    <1>5. \A i \in 1 .. Len(s) : t[i] = s[i]
        BY <1>1, <1>2, <1>3, <1>4
    <1> QED
        BY <1>4, <1>5, SeqEqual

-----------------------------------------------------------------------------
\* The queue and the buffer are what they should be.
LEMMA InvInit == Init => Inv
    <1> SUFFICES ASSUME Init PROVE Inv
        OBVIOUS
    <1>1. <<>> \in Seq(Messages) /\ Len(<<>>) = 0
        BY EmptySeq
    <1>2. QueueLength \in Nat \ {0} /\ MaxMessages \in Nat /\ MaxFailures \in Nat
        BY LoggerAssumption
    <1>3. messageQueue \in Seq(Messages) /\ Len(messageQueue) <= QueueLength
        BY <1>1, <1>2 DEF Init
    <1>4. _logfile \in Seq(Messages) /\ logged \in 0 .. MaxMessages /\ failures \in 0 .. MaxFailures
        BY <1>1, <1>2 DEF Init
    <1> QED
        BY <1>3, <1>4 DEF Init, Inv, TypeOK

LEMMA InvNext == Inv /\ [Next]_vars => Inv'
    <1> SUFFICES ASSUME Inv, [Next]_vars PROVE Inv'
        OBVIOUS
    <1> USE DEF Inv, TypeOK
    <1>a. /\ QueueLength \in Nat \ {0} /\ MaxMessages \in Nat /\ MaxFailures \in Nat
          /\ <<>> \in Seq(Messages) /\ Len(<<>>) = 0
        BY LoggerAssumption, EmptySeq
    <1>1. CASE UNCHANGED vars
        BY <1>1 DEF vars, loop
    <1>2. CASE SetupLog
        BY <1>2, <1>a DEF SetupLog
    <1>3. CASE print
        <2>1. logged' \in 1 .. MaxMessages
            BY <1>3, <1>a DEF print
        <2> QED
            BY <1>3, <2>1, MessageNotNone DEF print, Messages
    <1>4. CASE SendToWriteTask
        <2>1. _log_buf \in Messages
            BY <1>4 DEF SendToWriteTask
        <2>2. /\ messageQueue' \in Seq(Messages)
              /\ Len(messageQueue') = Len(messageQueue) + 1
              /\ Len(messageQueue) \in Nat
            BY <1>4, <2>1, AppendProperties, LenProperties DEF SendToWriteTask
        <2>3. Len(messageQueue') <= QueueLength
            BY <1>4, <2>2, <1>a DEF SendToWriteTask, Full
        <2> QED
            BY <1>4, <2>2, <2>3 DEF SendToWriteTask
    <1>5. CASE WaitForRoom
        BY <1>5 DEF WaitForRoom, vars, loop
    <1>6. CASE Delay
        BY <1>6 DEF Delay
    <1>7. CASE Wake
        BY <1>7 DEF Wake
    <1>8. CASE Receive
        <2>1. /\ messageQueue # <<>> /\ messageQueue' = Tail(messageQueue)
              /\ received' = Head(messageQueue)
              /\ UNCHANGED <<loop, _logfile, failures>>
              /\ pc # "setup"
            BY <1>8 DEF Receive, LoopReady
        <2>2. /\ Tail(messageQueue) \in Seq(Messages) /\ Head(messageQueue) \in Messages
              /\ Len(Tail(messageQueue)) = Len(messageQueue) - 1 /\ Len(messageQueue) \in Nat
            BY <2>1, HeadTailProperties, LenProperties
        <2>3. Len(messageQueue') <= QueueLength
            BY <2>1, <2>2, <1>a
        <2> QED
            BY <2>1, <2>2, <2>3 DEF loop
    <1>9. CASE WriteMessage
        <2>1. received \in Messages /\ pc # "setup"
            BY <1>9 DEF WriteMessage, LoopReady
        <2>2. _logfile' \in Seq(Messages)
            BY <1>9, <2>1, AppendProperties DEF WriteMessage
        <2> QED
            BY <1>9, <2>1, <2>2 DEF WriteMessage, loop
    <1>10. CASE AppendFails
        BY <1>10, <1>a DEF AppendFails, loop
    <1>11. CASE PowerLoss
        <2>1. messageQueue' \in Seq(Messages) /\ Len(messageQueue') <= QueueLength
            BY <1>11, <1>a DEF PowerLoss
        <2>2. failures' \in 0 .. MaxFailures
            BY <1>11, <1>a DEF PowerLoss
        <2> QED
            BY <1>11, <2>1, <2>2 DEF PowerLoss
    <1> QED
        BY <1>1, <1>2, <1>3, <1>4, <1>5, <1>6, <1>7, <1>8, <1>9, <1>10, <1>11
        DEF Next, Loop, WriteTask
-----------------------------------------------------------------------------
\* The parts of the way are sequences of messages.
LEMMA WayParts ==
    ASSUME TypeOK
    PROVE  /\ Optional(received) \in Seq(Messages)
           /\ Optional(_log_buf) \in Seq(Messages)
           /\ messageQueue \in Seq(Messages)
           /\ messageQueue \o Optional(_log_buf) \in Seq(Messages)
           /\ Way \in Seq(Messages)
           /\ Way = Optional(received) \o (messageQueue \o Optional(_log_buf))
    <1>1. /\ Optional(received) \in Seq(Messages) /\ Optional(_log_buf) \in Seq(Messages)
          /\ messageQueue \in Seq(Messages)
        BY OptionalSeq DEF TypeOK
    <1> QED
        BY <1>1, ConcatProperties, ConcatAssociative DEF Way

\* The message of print is the last on the way.
LEMMA PrintLogs == Inv /\ print => Stream!Log
    <1> SUFFICES ASSUME Inv, print PROVE Stream!Log
        OBVIOUS
    <1> DEFINE front == Optional(received) \o messageQueue
    <1>1. /\ pc = "run" /\ _log_buf = NoMessage /\ logged' = logged + 1
          /\ _log_buf' = logged' /\ logged' \in Messages
          /\ UNCHANGED <<messageQueue, received, _logfile>>
        BY LoggerAssumption DEF Inv, TypeOK, print, Messages
    <1>2. front \in Seq(Messages)
        BY OptionalSeq, ConcatProperties DEF Inv, TypeOK
    <1>3. Way = front
        BY <1>1, <1>2, OptionalSeq, ConcatEmptySeq DEF Way
    <1>4. Way' = front \o <<logged'>>
        BY <1>1, MessageNotNone DEF Way, Optional
    <1>5. Way' = Append(Way, logged')
        BY <1>1, <1>2, <1>3, <1>4, AppendIsConcat
    <1>6. /\ Len(front) = Len(Optional(received)) + Len(messageQueue)
          /\ Len(Optional(received)) \in Nat /\ Len(Optional(received)) <= 1
          /\ Len(messageQueue) \in Nat /\ Len(messageQueue) <= QueueLength
        BY OptionalSeq, ConcatProperties, LenProperties DEF Inv, TypeOK
    <1>7. Len(Way) < QueueLength + 2
        BY <1>3, <1>6, LoggerAssumption
    <1> QED
        BY <1>1, <1>5, <1>7 DEF Stream!Log, Way

\* From the buffer to the queue, and from the queue to the writer, nothing moves
\* on the way.
LEMMA SendMovesNothing == Inv /\ SendToWriteTask => Way' = Way
    <1> SUFFICES ASSUME Inv, SendToWriteTask PROVE Way' = Way
        OBVIOUS
    <1>1. /\ _log_buf \in Messages /\ _log_buf # NoMessage /\ _log_buf' = NoMessage
          /\ messageQueue' = Append(messageQueue, _log_buf) /\ received' = received
        BY DEF Inv, TypeOK, SendToWriteTask
    <1>2. /\ Optional(received) \in Seq(Messages) /\ messageQueue \in Seq(Messages)
          /\ Optional(_log_buf) = <<_log_buf>> /\ <<_log_buf>> \in Seq(Messages)
        BY <1>1, OptionalSeq DEF Inv, TypeOK
    <1>3. Way = Optional(received) \o (messageQueue \o <<_log_buf>>)
        BY <1>2, WayParts DEF Inv
    <1>4. messageQueue' = messageQueue \o <<_log_buf>> /\ messageQueue' \in Seq(Messages)
        BY <1>1, <1>2, AppendIsConcat, AppendProperties
    <1>5. Optional(received) \o messageQueue' \in Seq(Messages)
        BY <1>2, <1>4, ConcatProperties
    <1>6. Way' = (Optional(received) \o messageQueue') \o <<>>
        BY <1>1 DEF Way, Optional
    <1> QED
        BY <1>3, <1>4, <1>5, <1>6, ConcatEmptySeq

LEMMA ReceiveMovesNothing == Inv /\ Receive => Way' = Way
    <1> SUFFICES ASSUME Inv, Receive PROVE Way' = Way
        OBVIOUS
    <1>1. /\ received = NoMessage /\ messageQueue # <<>> /\ messageQueue \in Seq(Messages)
          /\ received' = Head(messageQueue) /\ messageQueue' = Tail(messageQueue)
          /\ _log_buf' = _log_buf
        BY DEF Inv, TypeOK, Receive, loop
    <1>2. received' \in Messages /\ received' # NoMessage
        BY <1>1, HeadTailProperties, MessageNotNone
    <1>3. messageQueue = <<received'>> \o messageQueue'
        BY <1>1, HeadThenTail
    <1>4. Way' = (<<received'>> \o messageQueue') \o Optional(_log_buf)
        BY <1>1, <1>2 DEF Way, Optional
    <1>5. Optional(received) = <<>>
        BY <1>1 DEF Optional
    <1>6. Way = messageQueue \o Optional(_log_buf)
        BY <1>5, WayParts, ConcatEmptySeq DEF Inv
    <1> QED
        BY <1>3, <1>4, <1>6

\* What the writer holds is the first on the way.
LEMMA WriterHasFirst ==
    ASSUME Inv, received # NoMessage, received' = NoMessage,
           messageQueue' = messageQueue, _log_buf' = _log_buf
    PROVE  Way # <<>> /\ received = Head(Way) /\ Way' = Tail(Way)
    <1> DEFINE rest == messageQueue \o Optional(_log_buf)
    <1>1. received \in Messages /\ Optional(received) = <<received>>
        BY OptionalSeq DEF Inv, TypeOK
    <1>2. rest \in Seq(Messages) /\ Way = <<received>> \o rest
        BY <1>1, WayParts DEF Inv
    <1>3. Way' = (<<>> \o messageQueue) \o Optional(_log_buf)
        BY DEF Way, Optional
    <1>4. <<>> \o messageQueue = messageQueue
        BY WayParts, ConcatEmptySeq DEF Inv
    <1>5. Way' = rest
        BY <1>3, <1>4
    <1> QED
        BY <1>1, <1>2, <1>5, FrontOf

LEMMA PowerLossEmpties == PowerLoss => Way' = <<>>
    <1> SUFFICES ASSUME PowerLoss PROVE Way' = <<>>
        OBVIOUS
    <1>1. received' = NoMessage /\ messageQueue' = <<>> /\ _log_buf' = NoMessage
        BY DEF PowerLoss
    <1>2. Way' = (<<>> \o <<>>) \o <<>>
        BY <1>1 DEF Way, Optional
    <1>3. <<>> \in Seq(Messages)
        BY EmptySeq
    <1> QED
        BY <1>2, <1>3, ConcatEmptySeq

-----------------------------------------------------------------------------
LEMMA StreamInit == Init => Stream!Init
    <1> SUFFICES ASSUME Init PROVE Stream!Init
        OBVIOUS
    <1>1. Way = (<<>> \o <<>>) \o <<>>
        BY DEF Init, Way, Optional
    <1>2. <<>> \in Seq(Messages)
        BY EmptySeq
    <1>3. Way = <<>>
        BY <1>1, <1>2, ConcatEmptySeq
    <1> QED
        BY <1>3 DEF Init, Stream!Init, Way

LEMMA StreamNext == Inv /\ [Next]_vars => [Stream!Next]_<<logged, Way, _logfile>>
    <1> SUFFICES ASSUME Inv, [Next]_vars PROVE [Stream!Next]_<<logged, Way, _logfile>>
        OBVIOUS
    <1>1. CASE print
        BY <1>1, PrintLogs DEF Stream!Next
    <1>2. CASE SendToWriteTask
        <2>1. logged' = logged /\ _logfile' = _logfile
            BY <1>2 DEF SendToWriteTask
        <2> QED
            BY <1>2, <2>1, SendMovesNothing
    <1>3. CASE Receive
        <2>1. logged' = logged /\ _logfile' = _logfile
            BY <1>3 DEF Receive, loop
        <2> QED
            BY <1>3, <2>1, ReceiveMovesNothing
    <1>4. CASE WriteMessage
        <2>1. /\ received # NoMessage /\ received' = NoMessage /\ logged' = logged
              /\ messageQueue' = messageQueue /\ _log_buf' = _log_buf
              /\ _logfile' = Append(_logfile, received)
            BY <1>4 DEF WriteMessage, loop
        <2>2. Way # <<>> /\ received = Head(Way) /\ Way' = Tail(Way)
            BY <2>1, WriterHasFirst
        <2>3. Stream!Write
            BY <2>1, <2>2 DEF Stream!Write, Way
        <2> QED
            BY <2>3 DEF Stream!Next
    <1>5. CASE AppendFails
        <2>1. /\ received # NoMessage /\ received' = NoMessage /\ logged' = logged
              /\ messageQueue' = messageQueue /\ _log_buf' = _log_buf
              /\ _logfile' = _logfile
            BY <1>5 DEF AppendFails, loop
        <2>2. Way # <<>> /\ Way' = Tail(Way)
            BY <2>1, WriterHasFirst
        <2>3. Stream!LeaveOut
            BY <2>1, <2>2 DEF Stream!LeaveOut, Way
        <2> QED
            BY <2>3 DEF Stream!Next
    <1>6. CASE PowerLoss
        <2>1. Way' = <<>> /\ logged' = logged /\ _logfile' = _logfile
            BY <1>6, PowerLossEmpties DEF PowerLoss
        <2>2. Stream!PowerLoss
            BY <2>1 DEF Stream!PowerLoss, Way
        <2> QED
            BY <2>2 DEF Stream!Next
    <1>7. CASE SetupLog
        <2>1. messageQueue' = messageQueue
            BY <1>7 DEF SetupLog, Inv
        <2> QED
            BY <1>7, <2>1 DEF SetupLog, Way
    <1>8. CASE WaitForRoom \/ Delay \/ Wake \/ UNCHANGED vars
        BY <1>8 DEF WaitForRoom, Delay, Wake, vars, loop, Way
    <1> QED
        BY <1>1, <1>2, <1>3, <1>4, <1>5, <1>6, <1>7, <1>8 DEF Next, Loop, WriteTask

\* The buffer, the queue and the writer task implement the stream (LogStreamed): the
\* file has the messages in order, each at most once, and a loss of power takes at
\* most the queue and two, for every length of the queue.
THEOREM LoggerIsStream == Spec => LogStreamed
    <1> DEFINE abstract == <<logged, Way, _logfile>>
    <1>1. Spec => []Inv
        BY InvInit, InvNext, PTL DEF Spec
    <1>2. Inv /\ [Next]_vars => [Stream!Next]_abstract
        BY StreamNext
    <1>3. Spec => Stream!Init /\ [][Stream!Next]_abstract
        BY <1>1, <1>2, StreamInit, PTL DEF Spec
    <1> QED
        BY <1>3 DEF LogStreamed, Stream!Spec, Way
=============================================================================
