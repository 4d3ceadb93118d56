---------------------------- MODULE SDI12Exchange ----------------------------
(***************************************************************************)
(* One request after another over the SDI-12 line: the loop of             *)
(* SDI12Comm::requestAndReadData, the driver and its interrupt routine,    *)
(* and a sensor that answers in its own time.  The loop reads a character  *)
(* every 24 ms, the sensor sends one every 8.33 ms, and the loop ends at   *)
(* the first look that finds the ring empty: whether a reply is read whole *)
(* is a matter of timing, so `now' runs from event to event.               *)
(*                                                                         *)
(* The sensor is outside the code; the one thing taken from it is that it  *)
(* stops talking at a break.                                               *)
(***************************************************************************)
EXTENDS SDI12Line, Sequences, SequencesExt

CONSTANTS
    Sensors,         \* how the sensor may behave, see Behaviour
    IsrLatencies,    \* delays between a change of the line and READTIME
    Pauses,          \* how long the sketch does other things
    CommandLength,   \* characters of a command
    max_msg_length,  \* the size of _msg_buf
    MaxRequests      \* bound: requests made

\* reply: the characters; latency: from the end of the command to the first
\* start bit; gaps: idle times between characters; bit: length of its bits.
Behaviour == [reply : Seq(Characters), latency : Nat, gaps : SUBSET Nat, bit : Nat]

ASSUME ExchangeAssumption ==
    /\ Sensors # {}
    /\ \A s \in Sensors : s \in Behaviour /\ s.reply # <<>> /\ s.gaps # {}
    /\ IsrLatencies \subseteq Nat /\ IsrLatencies # {}
    /\ Pauses \subseteq Nat /\ Pauses # {}
    /\ {CommandLength, max_msg_length, MaxRequests} \subseteq Nat \ {0}

VARIABLES
    now,       \* time of the last event
    pc, wake,  \* the next step of requestAndReadData, and when it is due
    _msg_buf,  \* the characters read, counter is the length
    state,     \* SDI12::setState
    rx, ring,  \* rxState ..., _rxBuffer ...
    sensor,    \* its behaviour in this request
    sent,      \* characters sent; the next one is being sent
    charAt,    \* when its start bit begins
    edge,      \* the next bit at which the line changes
    requests   \* bound

loop == <<pc, wake, _msg_buf, state, requests>>
line == <<sensor, sent, charAt, edge>>
vars == <<now, loop, rx, ring, line>>

counter == Len(_msg_buf)

-----------------------------------------------------------------------------
lineBreak_micros == 12300
marking_micros == 8500
SDI12_YIELD_MS == 8000
\* Mutated form: the first look is at the time a sensor may take to answer.
ResponseDelay_Short == 5000
ResponseDelay == 20000   \* delay(20), before and after sendCommand
CharDelay == 8000        \* delay(8), after every character

Listens == state = "LISTENING"
Sending == sent < Len(sensor.reply)

\* Time of the sensor's next change of the line.
Due == charAt + edge * sensor.bit

Silent == CHOOSE s \in Sensors : TRUE

Init ==
    /\ now = 0 /\ wake = 0 /\ requests = 0
    /\ pc = "request"
    /\ _msg_buf = <<>>
    /\ state = "HOLDING"
    /\ rx = [rxState |-> WAITING_FOR_START_BIT, rxMask |-> 0, rxValue |-> {}, prevBitTCNT |-> 0]
    /\ ring = EmptyRing
    /\ sensor = Silent /\ sent = Len(Silent.reply)
    /\ charAt = 0 /\ edge = 0

-----------------------------------------------------------------------------
\* The loop.  A step is due at `wake'; a change of the line that is due at the
\* same time may come before it or after it.
Step(from) ==
    /\ pc = from
    /\ Sending => wake <= Due
    /\ now' = wake

Sleep(to, time) == pc' = to /\ wake' = now' + time

\* requestAndReadData: memset, clearBuffer, delay(20).
Request ==
    /\ Step("request")
    /\ requests < MaxRequests
    /\ requests' = requests + 1
    /\ _msg_buf' = <<>>
    /\ ring' = clearBuffer(ring)
    /\ Sleep("send", ResponseDelay)
    /\ UNCHANGED <<state, rx, line>>

\* sendCommand: wakeSensors, then the characters.  The break silences a sensor.
SendCommand ==
    /\ Step("send")
    /\ state' = "TRANSMITTING"
    /\ sent' = Len(sensor.reply)
    /\ Sleep("listen", lineBreak_micros + marking_micros + CommandLength * 10 * TICKS_PER_BIT)
    /\ UNCHANGED <<_msg_buf, requests, rx, ring, sensor, charAt, edge>>

\* setState(SDI12_LISTENING); delay(20), and the delay in available().
Listen ==
    /\ Step("listen")
    /\ state' = "LISTENING"
    /\ rx' = Listening(rx)
    /\ Sleep("available", ResponseDelay + SDI12_YIELD_MS)
    /\ \E s \in Sensors :
        /\ sensor' = s
        /\ sent' = 0 /\ edge' = 0
        /\ charAt' = now' + s.latency
    /\ UNCHANGED <<_msg_buf, requests, ring>>

\* available() is 0: forceHold.
EndOfReply ==
    /\ Step("available")
    /\ ~available(ring)
    /\ state' = "HOLDING"
    /\ \E pause \in Pauses : Sleep("request", pause)
    /\ UNCHANGED <<_msg_buf, requests, rx, ring, line>>

Available ==
    /\ Step("available")
    /\ available(ring)
    /\ Sleep("read", SDI12_YIELD_MS)
    /\ UNCHANGED <<_msg_buf, state, requests, rx, ring, line>>

\* read() and the test of max_msg_length, then delay(8) and available() again.
Read ==
    /\ Step("read")
    /\ ring' = read(ring)
    /\ _msg_buf' = Append(_msg_buf, peek(ring))
    /\ IF counter + 1 >= max_msg_length
       THEN /\ state' = "HOLDING"
            /\ \E pause \in Pauses : Sleep("request", pause)
       ELSE /\ Sleep("available", CharDelay + SDI12_YIELD_MS)
            /\ UNCHANGED state
    /\ UNCHANGED <<requests, rx, line>>

-----------------------------------------------------------------------------
\* The sensor changes the line; the interrupt is attached while listening.
Wave == writeChar(sensor.reply[sent + 1])

Interrupt(t, high) ==
    /\ rx' = receiveISR(rx, t, high)
    /\ ring' = IF Completes(rx, t, high) THEN charToBuffer(ring, Completed(rx, t, high))
               ELSE ring

Later == {b \in Edges(Wave) : b > edge}

LineChange ==
    /\ Sending
    /\ Due <= wake
    /\ now' = Due
    /\ IF Listens
       THEN \E latency \in IsrLatencies : Interrupt(Due + latency, Wave[edge])
       ELSE UNCHANGED <<rx, ring>>
    /\ IF Later # {}
       THEN /\ edge' = CHOOSE b \in Later : \A c \in Later : b <= c
            /\ UNCHANGED <<sent, charAt>>
       ELSE /\ sent' = sent + 1
            /\ edge' = 0
            /\ \E gap \in sensor.gaps : charAt' = charAt + 10 * sensor.bit + gap
    /\ UNCHANGED <<loop, sensor>>

Next == Request \/ SendCommand \/ Listen \/ EndOfReply \/ Available \/ Read \/ LineChange

Spec == Init /\ [][Next]_vars

-----------------------------------------------------------------------------
TypeOK ==
    /\ now \in Nat /\ wake \in Nat /\ requests \in 0 .. MaxRequests
    /\ pc \in {"request", "send", "listen", "available", "read"}
    /\ _msg_buf \in Seq(Characters \cup {MinusOne}) /\ counter <= max_msg_length
    /\ state \in {"HOLDING", "TRANSMITTING", "LISTENING"}
    /\ rx \in Receiver /\ ring \in Ring
    /\ sensor \in Sensors /\ sent \in 0 .. Len(sensor.reply)
    /\ charAt \in Nat /\ edge \in 0 .. 9

\* A sensor that keeps to SDI-12: it answers within 15 ms, leaves at most 1.66 ms
\* between characters, its clock is at most half a percent fast or nine percent
\* slow, and the reply is at most as long as a SDI12_BUFFER_SIZE has room for.
Conforming(s) ==
    /\ s.latency \in marking_micros .. 15000
    /\ \A gap \in s.gaps : gap <= 1660
    /\ 200 * s.bit \in (199 * TICKS_PER_BIT) .. (218 * TICKS_PER_BIT)
    /\ Len(s.reply) <= SDI12_BUFFER_SIZE

\* requestAndReadData has returned with the reply to the current request.
Returned == pc = "request" /\ requests > 0

\* Whatever the sensor does after a break, a message that is returned is the
\* beginning of the reply to this very request: nothing of an earlier reply that
\* came late, was too long or broke off is in it ("otherwise it would leave some
\* chars to next message", requestAndReadData).
OwnReply ==
    Returned /\ Len(sensor.reply) < max_msg_length => IsPrefix(_msg_buf, sensor.reply)

\* A conforming sensor is read whole, although the loop ends at the first empty
\* look: the 20 ms and the delays of available() and read() are long enough, and
\* the interrupt routine recovers every character from the times of the changes.
ReplyWhole == Returned /\ Conforming(sensor) => _msg_buf = sensor.reply

\* forceHold never drives the line while a conforming sensor is still sending.
NotHeldWhileSending == Conforming(sensor) /\ state = "HOLDING" => ~Sending
=============================================================================
