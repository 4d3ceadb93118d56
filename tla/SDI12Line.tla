------------------------------ MODULE SDI12Line ------------------------------
(***************************************************************************)
(* The data of the SDI-12 driver: how writeChar puts a character on the    *)
(* line, how the interrupt routine puts it together again from the times   *)
(* of the changes of the line, and the ring the characters wait in.        *)
(*                                                                         *)
(* A character is the set of its data bits (0 .. 6) that are 1, a frame    *)
(* has bit 7, the parity, too.  The logic is inverse: a 1 is LOW, and LOW  *)
(* is the idle line.  Times are in microseconds, as micros() gives them.   *)
(***************************************************************************)
EXTENDS Integers, FiniteSets

CONSTANTS
    SDI12_BUFFER_SIZE,  \* cells of the ring, one of them always free
    TICKS_PER_BIT,      \* length of a bit
    RX_WINDOW_FUDGE     \* how much an interval may be too short

ASSUME LineAssumption ==
    /\ SDI12_BUFFER_SIZE \in Nat \ {0, 1}
    /\ TICKS_PER_BIT \in Nat \ {0}
    /\ RX_WINDOW_FUDGE \in 0 .. (TICKS_PER_BIT - 1)

Characters == SUBSET (0 .. 6)

-----------------------------------------------------------------------------
\* writeChar: the ten bits of the line, TRUE for HIGH.
parity_even_bit(char) == Cardinality(char) % 2

WithParity(char) == IF parity_even_bit(char) = 1 THEN char \cup {7} ELSE char

\* The bit after the last 0; from there on the line stays LOW.
lastHighBit(frame) == 9 - Cardinality({k \in 0 .. 7 : k .. 7 \subseteq frame})

writeChar(char) ==
    LET frame == WithParity(char)
    IN  [b \in 0 .. 9 |->
            b = 0 \/ (b < lastHighBit(frame) /\ (b - 1) \notin frame)]

\* The bits of a waveform at which the line changes; the line was LOW before.
Edges(wave) ==
    {b \in 0 .. 9 : IF b = 0 THEN wave[b] ELSE wave[b] # wave[b - 1]}

-----------------------------------------------------------------------------
\* The interrupt routine.
WAITING_FOR_START_BIT == 255

Receiver == [rxState : 0 .. 8 \cup {WAITING_FOR_START_BIT}, rxMask : Nat,
             rxValue : SUBSET (0 .. 7), prevBitTCNT : Nat]

Waiting(rx) == rx.rxState = WAITING_FOR_START_BIT
Listening(rx) == [rx EXCEPT !.rxState = WAITING_FOR_START_BIT]

startChar(t) == [rxState |-> 0, rxMask |-> 0, rxValue |-> {}, prevBitTCNT |-> t]

\* Mutated form: an interval a little too short loses a bit.
bitTimes_Floor(dt) == dt \div TICKS_PER_BIT
bitTimes(dt) == (dt + RX_WINDOW_FUDGE) \div TICKS_PER_BIT

\* Did the character end in 1s, and is this change the next start bit?
bitsLeft(rx) == 9 - rx.rxState
nextCharStarted(rx, t) == bitTimes(t - rx.prevBitTCNT) > bitsLeft(rx)

\* The character under construction after a change of the line at time t.  The
\* shifted mask is the number of the bit; a bit past the byte is lost.
Shifted(rx, t, high) ==
    LET rxBits == bitTimes(t - rx.prevBitTCNT)
        bitsThisFrame == IF nextCharStarted(rx, t) THEN bitsLeft(rx) ELSE rxBits
        last == rx.rxMask + bitsThisFrame - 1
    IN  [rxState |-> rx.rxState + bitsThisFrame,
         rxMask |-> IF high THEN last + 2 ELSE last,
         rxValue |-> (rx.rxValue \cup (IF high THEN rx.rxMask .. last ELSE {last})) \cap 0 .. 7,
         prevBitTCNT |-> t]

Complete(rx) == rx.rxState > 7

\* What the routine makes of the receiver, and the character it completes.
receiveISR(rx, t, high) ==
    CASE Waiting(rx) /\ ~high -> rx
      [] Waiting(rx) /\ high -> startChar(t)
      [] ~Waiting(rx) /\ ~Complete(Shifted(rx, t, high)) -> Shifted(rx, t, high)
      [] ~Waiting(rx) /\ Complete(Shifted(rx, t, high)) ->
            IF ~high \/ ~nextCharStarted(rx, t) THEN Listening(Shifted(rx, t, high))
            ELSE startChar(t)

Completes(rx, t, high) == ~Waiting(rx) /\ Complete(Shifted(rx, t, high))
Completed(rx, t, high) == Shifted(rx, t, high).rxValue \cap 0 .. 6

-----------------------------------------------------------------------------
\* The ring of received characters.
Cells == 0 .. (SDI12_BUFFER_SIZE - 1)
Ring == [head : Cells, tail : Cells, cell : [Cells -> Characters], overflow : BOOLEAN]
EmptyRing == [head |-> 0, tail |-> 0, cell |-> [k \in Cells |-> {}], overflow |-> FALSE]

NextCell(k) == (k + 1) % SDI12_BUFFER_SIZE
Waits(ring) == (ring.tail + SDI12_BUFFER_SIZE - ring.head) % SDI12_BUFFER_SIZE

\* available() is -1, which counts as true, after an overflow.
available(ring) == ring.overflow \/ Waits(ring) > 0

\* Mutated form: only the overflow is forgotten.
clearBuffer_Keep(ring) == [ring EXCEPT !.overflow = FALSE]
clearBuffer(ring) == [ring EXCEPT !.head = 0, !.tail = 0, !.overflow = FALSE]

charToBuffer(ring, char) ==
    IF NextCell(ring.tail) = ring.head
    THEN [ring EXCEPT !.overflow = TRUE]
    ELSE [ring EXCEPT !.cell[ring.tail] = char, !.tail = NextCell(@)]

\* read() of an empty ring is -1: character 255.
MinusOne == 0 .. 7
peek(ring) == IF ring.head = ring.tail THEN MinusOne ELSE ring.cell[ring.head]
read(ring) ==
    [ring EXCEPT !.overflow = FALSE,
                 !.head = IF ring.head = ring.tail THEN @ ELSE NextCell(@)]
=============================================================================
