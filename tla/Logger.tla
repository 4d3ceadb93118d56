------------------------------- MODULE Logger -------------------------------
(***************************************************************************)
(* Logger: print and printf copy a message into a queue, and a task of the *)
(* lowest priority, pinned to the core of the loop, takes the messages out *)
(* one by one, puts the time in front and appends them to the log file.    *)
(* The writer runs only while the loop sleeps in a delay or waits in       *)
(* xQueueSend for room; as soon as there is room the loop preempts it.     *)
(* The power may fail at any time; the program then starts again.          *)
(*                                                                         *)
(* A message is its number.  What is printed to Serial only, before        *)
(* setup_log is done, is no message.                                       *)
(***************************************************************************)
EXTENDS Naturals, Sequences

CONSTANTS
    QueueLength,   \* of messageQueue
    MaxMessages,   \* bound: messages logged
    MaxFailures    \* bound: power losses, and messages the card refuses

ASSUME LoggerAssumption ==
    /\ QueueLength \in Nat \ {0}
    /\ MaxMessages \in Nat /\ MaxFailures \in Nat

VARIABLES
    pc,            \* the loop: "setup", "run", "send" or "sleep"
    initialized,
    _log_buf,      \* the message to be sent, or none
    messageQueue,
    received,      \* receivedMessage of writeTask, or none
    _logfile,      \* the messages in the file
    logged,        \* messages logged
    failures       \* bound

loop == <<pc, initialized, _log_buf, logged>>
vars == <<loop, messageQueue, received, _logfile, failures>>

NoMessage == 0

Init ==
    /\ pc = "setup"
    /\ initialized = FALSE
    /\ _log_buf = NoMessage
    /\ messageQueue = <<>>
    /\ received = NoMessage
    /\ _logfile = <<>>
    /\ logged = 0
    /\ failures = 0

Full == Len(messageQueue) >= QueueLength

\* mutated form: the loop polls for room instead of waiting for it.
LoopReady_Polling == pc \in {"setup", "run", "send"}

\* The loop has the priority whenever it can run.
LoopReady == pc \in {"setup", "run"} \/ (pc = "send" /\ ~Full)

-----------------------------------------------------------------------------
\* setup_log creates the queue and the task, and sleeps; the caller goes on
\* with a logger that is initialized.
SetupLog ==
    /\ pc = "setup"
    /\ pc' = "sleep"
    /\ messageQueue' = <<>>
    /\ UNCHANGED <<initialized, _log_buf, logged, received, _logfile, failures>>

\* print, printf: the message is in the static buffer.
print ==
    /\ pc = "run"
    /\ logged < MaxMessages
    /\ logged' = logged + 1
    /\ _log_buf' = logged'
    /\ pc' = "send"
    /\ UNCHANGED <<initialized, messageQueue, received, _logfile, failures>>

\* sendToWriteTask: xQueueSend(portMAX_DELAY) waits for room.
SendToWriteTask ==
    /\ pc = "send"
    /\ ~Full
    /\ messageQueue' = Append(messageQueue, _log_buf)
    /\ _log_buf' = NoMessage
    /\ pc' = "run"
    /\ UNCHANGED <<initialized, logged, received, _logfile, failures>>

WaitForRoom == pc = "send" /\ Full /\ UNCHANGED vars

\* delay() in the loop, or in a driver it calls.
Delay ==
    /\ pc = "run"
    /\ pc' = "sleep"
    /\ UNCHANGED <<initialized, _log_buf, logged, messageQueue, received, _logfile, failures>>

Wake ==
    /\ pc = "sleep"
    /\ pc' = "run"
    /\ initialized' = TRUE
    /\ UNCHANGED <<_log_buf, logged, messageQueue, received, _logfile, failures>>

-----------------------------------------------------------------------------
\* mutated forms: the newest message first; and the writer waits for a full queue.
Receive_Newest ==
    /\ ~LoopReady
    /\ received = NoMessage
    /\ messageQueue # <<>>
    /\ received' = messageQueue[Len(messageQueue)]
    /\ messageQueue' = SubSeq(messageQueue, 1, Len(messageQueue) - 1)
    /\ UNCHANGED <<loop, _logfile, failures>>

Receive_WhenFull ==
    /\ ~LoopReady
    /\ received = NoMessage
    /\ Full
    /\ received' = Head(messageQueue)
    /\ messageQueue' = Tail(messageQueue)
    /\ UNCHANGED <<loop, _logfile, failures>>

\* writeTask: xQueueReceive(portMAX_DELAY) waits for a message.
Receive ==
    /\ ~LoopReady
    /\ received = NoMessage
    /\ messageQueue # <<>>
    /\ received' = Head(messageQueue)
    /\ messageQueue' = Tail(messageQueue)
    /\ UNCHANGED <<loop, _logfile, failures>>

\* The time in front, Serial.print, and _logfile.append.
WriteMessage ==
    /\ ~LoopReady
    /\ received # NoMessage
    /\ _logfile' = Append(_logfile, received)
    /\ received' = NoMessage
    /\ UNCHANGED <<loop, messageQueue, failures>>

\* FileInfo::append: "Failed to open file for appending" or "Append failed".
AppendFails ==
    /\ ~LoopReady
    /\ received # NoMessage
    /\ failures < MaxFailures
    /\ failures' = failures + 1
    /\ received' = NoMessage
    /\ UNCHANGED <<loop, messageQueue, _logfile>>

\* The power fails, in the middle of a setup too.
PowerLoss ==
    /\ failures < MaxFailures
    /\ failures' = failures + 1
    /\ pc' = "setup"
    /\ initialized' = FALSE
    /\ _log_buf' = NoMessage
    /\ messageQueue' = <<>>
    /\ received' = NoMessage
    /\ UNCHANGED <<_logfile, logged>>

Loop == SetupLog \/ print \/ SendToWriteTask \/ WaitForRoom \/ Delay \/ Wake
WriteTask == Receive \/ WriteMessage \/ AppendFails

Next == Loop \/ WriteTask \/ PowerLoss

Spec == Init /\ [][Next]_vars

\* The loop gets the processor when it is ready; a sleep ends; and over many
\* sleeps, of milliseconds each, the writer gets through with its work.
FairSpec ==
    /\ Spec
    /\ WF_vars(SetupLog) /\ WF_vars(SendToWriteTask) /\ WF_vars(Wake)
    /\ SF_vars(Receive) /\ SF_vars(WriteMessage \/ AppendFails)

-----------------------------------------------------------------------------
Messages == 1 .. MaxMessages
TypeOK ==
    /\ pc \in {"setup", "run", "send", "sleep"}
    /\ initialized \in BOOLEAN
    /\ _log_buf \in Messages \cup {NoMessage}
    /\ messageQueue \in Seq(Messages) /\ Len(messageQueue) <= QueueLength
    /\ received \in Messages \cup {NoMessage}
    /\ _logfile \in Seq(Messages)
    /\ logged \in 0 .. MaxMessages
    /\ failures \in 0 .. MaxFailures
    /\ _log_buf # NoMessage <=> pc = "send"
    /\ pc \in {"run", "send"} => initialized

\* The messages on their way: in the hands of the writer, in the queue, and the
\* one that waits for room.
Optional(message) == IF message = NoMessage THEN <<>> ELSE <<message>>

Stream == INSTANCE LogStream WITH
    Lag <- QueueLength + 2,
    way <- Optional(received) \o messageQueue \o Optional(_log_buf),
    file <- _logfile

\* The log file has the messages in order, each at most once, and a power loss
\* takes no more than the queue and two: preemption between xQueueReceive and
\* append, a full queue and a restart neither reorder nor repeat anything.
LogStreamed == Stream!Spec

\* print never blocks the loop for ever: a full queue puts the loop to sleep,
\* and that is what lets the writer of lowest priority make room.
CallerReturns == pc = "send" ~> pc # "send"

\* When the loop sleeps again and again, every message leaves the queue.  (A
\* loop that only spins would starve the writer until the queue is full.)
EveryMessageWritten ==
    []<>(pc = "sleep") => []<>(messageQueue = <<>> /\ received = NoMessage)
=============================================================================
