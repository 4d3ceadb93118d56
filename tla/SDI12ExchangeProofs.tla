------------------------ MODULE SDI12ExchangeProofs ------------------------
(***************************************************************************)
(* What an exchange on the SDI-12 line promises, for every set of sensors, *)
(* every reply, every number of requests and every size of the ring and of *)
(* the message that BufferSizes allows, at 1200 baud.                      *)
(*                                                                         *)
(* None of the run's properties is inductive.  The invariant behind them   *)
(* relates the receiver to the sensor at every change of the line:         *)
(*                                                                         *)
(*   ReceiverInv  what the interrupt routine has assembled is the frame    *)
(*                being sent, up to the last change of the line            *)
(*   TimeInv      how many characters can have been sent by now            *)
(*   RingInv      the characters completed are those of the reply, in      *)
(*                order: read into the message, or waiting in the ring     *)
(*   StateInv, CleanInv   the step of the loop, the state of the driver    *)
(*                and the buffers agree                                    *)
(*   BeginsInv, WholeInv, QuietInv   what is left of this when the loop    *)
(*                returns the message                                      *)
(*                                                                         *)
(* The lemmas before the invariants are about the interrupt routine alone: *)
(* one of its calls, given a receiver that is in step, on a change inside  *)
(* a frame, at its end, or at the start of the next one; and about the     *)
(* ring.  Lemmas ...Step say what a step of Next changes.                  *)
(***************************************************************************)
EXTENDS SDI12Exchange, TLAPS, FiniteSetTheorems, WellFoundedInduction

-----------------------------------------------------------------------------
\* Frames of characters, and the level of the line.
\* Level of the line in bit b of a frame: the start bit and every 0 are HIGH.
High(frame, b) == b = 0 \/ (b \in 1 .. 8 /\ (b - 1) \notin frame)

Frames == SUBSET (0 .. 7)

LEMMA Smallest ==
    ASSUME NEW T, T \subseteq Nat, T # {}
    PROVE  \E n \in T : \A k \in T : n <= k
    <1>1. PICK n \in T : \A k \in T : ~(<<k, n>> \in OpToRel(<, Nat))
        BY NatLessThanWellFounded, WFMin, Zenon
    <1>2. \A k \in Nat, j \in Nat : k < j => <<k, j>> \in OpToRel(<, Nat)
        BY DEF OpToRel
    <1>3. \A k \in T : k \in Nat /\ n \in Nat /\ ~(k < n)
        BY <1>1, <1>2, Zenon
    <1>4. \A k \in T : n <= k
        BY <1>3
    <1> QED
        BY <1>4

\* From lastHighBit on, every bit of the frame is a 1.
LEMMA LastHighBit ==
    ASSUME NEW frame \in Frames
    PROVE  /\ lastHighBit(frame) \in 1 .. 9
           /\ (lastHighBit(frame) - 1) .. 7 \subseteq frame
    <1> DEFINE T == {k \in 0 .. 8 : k .. 7 \subseteq frame}
    <1>1. 8 \in T
        OBVIOUS
    <1>2. PICK j \in T : \A k \in T : j <= k
        <2>1. T \subseteq Nat /\ T # {}
            BY <1>1
        <2> QED
            BY <2>1, Smallest, Zenon
    <1>3. j \in 0 .. 8 /\ j .. 7 \subseteq frame
        OBVIOUS
    <1>4. {k \in 0 .. 7 : k .. 7 \subseteq frame} = j .. 7
        <2>1. ASSUME NEW k \in 0 .. 7, k .. 7 \subseteq frame PROVE k \in j .. 7
            BY <2>1, <1>2, <1>3
        <2>2. ASSUME NEW k \in j .. 7 PROVE k \in 0 .. 7 /\ k .. 7 \subseteq frame
            BY <2>2, <1>3
        <2> QED
            BY <2>1, <2>2
    <1>5. Cardinality(j .. 7) = 8 - j
        BY <1>3, FS_Interval
    <1>6. lastHighBit(frame) = 9 - Cardinality(j .. 7)
        BY <1>4, Zenon DEF lastHighBit
    <1>7. lastHighBit(frame) = 1 + j
        BY <1>3, <1>5, <1>6
    <1> QED
        BY <1>3, <1>7

\* A frame is its character and the parity.
LEMMA FrameOf ==
    ASSUME NEW c \in Characters
    PROVE  WithParity(c) \in Frames /\ WithParity(c) \cap 0 .. 6 = c
    <1>1. WithParity(c) = c \/ WithParity(c) = c \cup {7}
        BY Zenon DEF WithParity
    <1>2. c \subseteq 0 .. 6
        BY DEF Characters
    <1>3. \A k \in c : k \in 0 .. 6 /\ k \in 0 .. 7 /\ k # 7
        BY <1>2
    <1>4. c \in Frames /\ c \cup {7} \in Frames
        BY <1>3 DEF Frames
    <1>5. c \cap 0 .. 6 = c
        BY <1>3
    <1>6. (c \cup {7}) \cap 0 .. 6 = c
        <2>1. 7 \notin 0 .. 6
            OBVIOUS
        <2> QED
            BY <1>3, <2>1
    <1> QED
        BY <1>1, <1>4, <1>5, <1>6, Zenon

\* The time of a number of bits.
LEMMA BitsAreNat ==
    ASSUME NEW b \in 0 .. 9, NEW w \in Nat
    PROVE  b * w \in Nat
    OBVIOUS

\* writeChar sends a character as the levels of its frame.
LEMMA WriteCharType ==
    ASSUME NEW c, NEW b \in 0 .. 9
    PROVE  writeChar(c)[b] \in BOOLEAN
    BY DEF writeChar

LEMMA WriteChar ==
    ASSUME NEW c \in Characters, NEW b \in 0 .. 9
    PROVE  writeChar(c)[b] <=> High(WithParity(c), b)
    <1> DEFINE frame == WithParity(c)
    <1>1. frame \in Frames
        BY FrameOf
    <1>2. lastHighBit(frame) \in 1 .. 9 /\ (lastHighBit(frame) - 1) .. 7 \subseteq frame
        BY <1>1, LastHighBit
    <1>3. writeChar(c)[b] <=> (b = 0 \/ (b < lastHighBit(frame) /\ (b - 1) \notin frame))
        BY DEF writeChar
    <1> HIDE DEF frame
    <1>4. (b < lastHighBit(frame) /\ (b - 1) \notin frame)
            <=> ((b \in 1 .. 8 \/ b = 0) /\ (b - 1) \notin frame)
        BY <1>1, <1>2 DEF Frames
    <1> QED
        BY <1>3, <1>4 DEF High, frame

\* The bits at which the line changes.
LEMMA EdgesOfFrame ==
    ASSUME NEW c \in Characters, NEW b \in 0 .. 9
    PROVE  /\ b \in Edges(writeChar(c)) <=>
                b = 0 \/ (b > 0 /\ ~(High(WithParity(c), b) <=> High(WithParity(c), b - 1)))
    <1>1. writeChar(c)[0] <=> TRUE
        BY WriteChar DEF High
    <1>2. \A k \in 0 .. 9 : writeChar(c)[k] \in BOOLEAN
        BY DEF writeChar
    <1>3. CASE b = 0
        BY <1>1, <1>3 DEF Edges
    <1>4. CASE b > 0
        <2>1. b - 1 \in 0 .. 9
            BY <1>4
        <2>2. /\ writeChar(c)[b] <=> High(WithParity(c), b)
              /\ writeChar(c)[b - 1] <=> High(WithParity(c), b - 1)
            BY <2>1, WriteChar
        <2>3. b \in Edges(writeChar(c)) <=> writeChar(c)[b] # writeChar(c)[b - 1]
            BY <1>4 DEF Edges
        <2>4. writeChar(c)[b] \in BOOLEAN /\ writeChar(c)[b - 1] \in BOOLEAN
            BY <1>2, <2>1
        <2> QED
            BY <1>4, <2>2, <2>3, <2>4
    <1> QED
        BY <1>3, <1>4

-----------------------------------------------------------------------------
\* 1200 baud as the driver counts it.
LineParameters == TICKS_PER_BIT = 833 /\ RX_WINDOW_FUDGE = 50

LEMMA BitTimes ==
    ASSUME LineParameters, NEW d \in 1 .. 9, NEW w \in 829 .. 918, NEW dt \in Int,
           d * w - 14 <= dt, dt <= d * w + 14
    PROVE  bitTimes(dt) = d
    <1>1. bitTimes(dt) = (dt + 50) \div 833
        BY DEF bitTimes, LineParameters
    <1>2. d * 833 <= dt + 50 /\ dt + 50 < (d + 1) * 833
        <2>1. CASE d = 1
            BY <2>1
        <2>2. CASE d = 2
            BY <2>2
        <2>3. CASE d = 3
            BY <2>3
        <2>4. CASE d = 4
            BY <2>4
        <2>5. CASE d = 5
            BY <2>5
        <2>6. CASE d = 6
            BY <2>6
        <2>7. CASE d = 7
            BY <2>7
        <2>8. CASE d = 8
            BY <2>8
        <2>9. CASE d = 9
            BY <2>9
        <2> QED
            BY <2>1, <2>2, <2>3, <2>4, <2>5, <2>6, <2>7, <2>8, <2>9
    <1>3. ASSUME NEW x \in Int, d * 833 <= x, x < (d + 1) * 833 PROVE x \div 833 = d
        BY <1>3, SMT
    <1> QED
        BY <1>1, <1>2, <1>3

LEMMA BitTimesLong ==
    ASSUME LineParameters, NEW d \in 1 .. 9, NEW w \in 829 .. 918, NEW dt \in Int,
           d * w - 14 <= dt
    PROVE  bitTimes(dt) >= d
    <1>1. bitTimes(dt) = (dt + 50) \div 833
        BY DEF bitTimes, LineParameters
    <1>2. d * 833 <= dt + 50
        <2>1. CASE d = 1
            BY <2>1
        <2>2. CASE d = 2
            BY <2>2
        <2>3. CASE d = 3
            BY <2>3
        <2>4. CASE d = 4
            BY <2>4
        <2>5. CASE d = 5
            BY <2>5
        <2>6. CASE d = 6
            BY <2>6
        <2>7. CASE d = 7
            BY <2>7
        <2>8. CASE d = 8
            BY <2>8
        <2>9. CASE d = 9
            BY <2>9
        <2> QED
            BY <2>1, <2>2, <2>3, <2>4, <2>5, <2>6, <2>7, <2>8, <2>9
    <1>3. ASSUME NEW x \in Int, d * 833 <= x PROVE x \div 833 >= d
        BY <1>3, SMT
    <1> QED
        BY <1>1, <1>2, <1>3

-----------------------------------------------------------------------------
\* Between two bits the line does not change.
NoChange(frame, from, to) == \A k \in (from + 1) .. to : High(frame, k) <=> High(frame, k - 1)

\* What the receiver knows of a frame after the change of the line at bit e.
Assembled(r, frame, e) ==
    /\ r.rxState = e
    /\ r.rxMask = IF High(frame, e) THEN e ELSE e - 1
    /\ r.rxValue = frame \cap 0 .. (e - 1)

LEMMA SameLevel ==
    ASSUME NEW frame \in Frames, NEW e \in 0 .. 9, NEW to \in e .. 9, NoChange(frame, e, to),
           NEW k \in e .. to
    PROVE  High(frame, k) <=> High(frame, e)
    <1> DEFINE T == {n \in e .. to : ~(High(frame, n) <=> High(frame, e))}
    <1>1. CASE T = {}
        BY <1>1
    <1>2. CASE T # {}
        <2>1. T \subseteq Nat
            OBVIOUS
        <2>2. PICK n \in T : \A j \in T : n <= j
            BY <1>2, <2>1, Smallest, Zenon
        <2>3. n \in (e + 1) .. to
            BY <2>2
        <2>4. n - 1 \in e .. to /\ n - 1 \notin T
            BY <2>2, <2>3
        <2>5. High(frame, n) <=> High(frame, n - 1)
            BY <2>3, Zenon DEF NoChange
        <2> QED
            BY <2>2, <2>4, <2>5, Zenon
    <1> QED
        BY <1>1, <1>2

LEMMA AssembleRise ==
    ASSUME NEW frame \in Frames, NEW e \in 0 .. 9, NEW b \in 1 .. 9, e < b,
           \A k \in e .. (b - 1) : ~High(frame, k), High(frame, b)
    PROVE  (frame \cap 0 .. (e - 1)) \cup (e - 1) .. (b - 2) = frame \cap 0 .. (b - 1)
    <1>1. e >= 1 /\ b <= 8 /\ (b - 1) \notin frame
        BY DEF High
    <1>2. \A k \in e .. (b - 1) : (k - 1) \in frame
        BY <1>1 DEF High
    <1>3. \A i \in (e - 1) .. (b - 2) : i \in frame /\ i \in 0 .. (b - 1)
        <2> SUFFICES ASSUME NEW i \in (e - 1) .. (b - 2) PROVE i \in frame /\ i \in 0 .. (b - 1)
            OBVIOUS
        <2>1. i + 1 \in e .. (b - 1) /\ (i + 1) - 1 = i /\ i \in 0 .. (b - 1)
            BY <1>1
        <2> QED
            BY <1>2, <2>1
    <1>4. \A i \in frame \cap 0 .. (b - 1) : i \in frame \cap 0 .. (e - 1) \/ i \in (e - 1) .. (b - 2)
        BY <1>1
    <1>5. \A i \in frame \cap 0 .. (e - 1) : i \in frame \cap 0 .. (b - 1)
        OBVIOUS
    <1> QED
        BY <1>3, <1>4, <1>5

LEMMA AssembleFall ==
    ASSUME NEW frame \in Frames, NEW e \in 0 .. 9, NEW b \in 1 .. 9, e < b,
           \A k \in e .. (b - 1) : High(frame, k), ~High(frame, b)
    PROVE  ((frame \cap 0 .. (e - 1)) \cup {b - 1}) \cap 0 .. 7 = frame \cap 0 .. (b - 1)
    <1>1. b - 1 \in frame \/ b = 9
        BY DEF High
    <1>2. \A k \in e .. (b - 1) : k = 0 \/ (k - 1) \notin frame
        BY DEF High
    <1>3. \A i \in e .. (b - 2) : i \notin frame
        <2> SUFFICES ASSUME NEW i \in e .. (b - 2) PROVE i \notin frame
            OBVIOUS
        <2>1. i + 1 \in e .. (b - 1) /\ (i + 1) - 1 = i /\ i + 1 # 0
            OBVIOUS
        <2> QED
            BY <1>2, <2>1
    <1>4. frame \subseteq 0 .. 7
        BY DEF Frames
    <1>5. \A i \in frame \cap 0 .. (b - 1) : i \in frame \cap 0 .. (e - 1) \/ i = b - 1
        BY <1>3
    <1>6. \A i \in ((frame \cap 0 .. (e - 1)) \cup {b - 1}) \cap 0 .. 7 : i \in frame \cap 0 .. (b - 1)
        BY <1>1
    <1>7. \A i \in frame : i \in 0 .. 7
        BY <1>4
    <1> QED
        BY <1>5, <1>6, <1>7

\* A change of the line inside a frame: the receiver has the frame up to there.
LEMMA ShiftedInFrame ==
    ASSUME NEW frame \in Frames, NEW r \in Receiver, NEW e \in 0 .. 7, NEW b \in 1 .. 9, e < b,
           Assembled(r, frame, e), NoChange(frame, e, b - 1),
           ~(High(frame, b) <=> High(frame, b - 1)),
           NEW t, bitTimes(t - r.prevBitTCNT) = b - e,
           NEW high \in BOOLEAN, high <=> High(frame, b)
    PROVE  /\ ~nextCharStarted(r, t)
           /\ Shifted(r, t, high).rxState = b
           /\ Shifted(r, t, high).rxMask = IF High(frame, b) THEN b ELSE b - 1
           /\ Shifted(r, t, high).rxValue = frame \cap 0 .. (b - 1)
           /\ Shifted(r, t, high).prevBitTCNT = t
    <1>0. e \in 0 .. 9
        OBVIOUS
    <1>1. ~nextCharStarted(r, t)
        BY DEF nextCharStarted, bitsLeft, Assembled
    <1> DEFINE last == r.rxMask + (b - e) - 1
               taken == r.rxValue \cup (IF high THEN r.rxMask .. last ELSE {last})
    <1>2. /\ Shifted(r, t, high).rxState = r.rxState + (b - e)
          /\ Shifted(r, t, high).rxMask = (IF high THEN last + 2 ELSE last)
          /\ Shifted(r, t, high).rxValue = taken \cap 0 .. 7
          /\ Shifted(r, t, high).prevBitTCNT = t
        BY <1>1 DEF Shifted
    <1>3. /\ \A k \in e .. (b - 1) : High(frame, k) <=> High(frame, e)
          /\ ~(High(frame, b) <=> High(frame, e))
        <2>1. b - 1 \in e .. 9 /\ b - 1 \in e .. (b - 1)
            OBVIOUS
        <2>2. \A k \in e .. (b - 1) : High(frame, k) <=> High(frame, e)
            BY <2>1, SameLevel
        <2> QED
            BY <2>1, <2>2
    <1>4. CASE High(frame, b)
        <2>1. ~High(frame, e)
            BY <1>3, <1>4, Zenon
        <2>2. r.rxMask = e - 1 /\ r.rxValue = frame \cap 0 .. (e - 1) /\ r.rxState = e
            BY <2>1 DEF Assembled
        <2>3. last = b - 2
            BY <2>2
        <2>4. \A k \in e .. (b - 1) : ~High(frame, k)
            BY <2>1, <1>3, Zenon
        <2>5. (frame \cap 0 .. (e - 1)) \cup (e - 1) .. (b - 2) = frame \cap 0 .. (b - 1)
            BY <1>0, <2>4, <1>4, AssembleRise, Zenon
        <2>6. taken = frame \cap 0 .. (b - 1)
            BY <2>2, <2>3, <2>5, <1>4, Zenon
        <2>7. frame \cap 0 .. (b - 1) \cap 0 .. 7 = frame \cap 0 .. (b - 1)
            BY DEF Frames
        <2> HIDE DEF last, taken
        <2>8. r.rxState + (b - e) = b /\ last + 2 = b
            BY <2>2, <2>3
        <2> QED
            BY <1>1, <1>2, <1>4, <2>6, <2>7, <2>8
    <1>5. CASE ~High(frame, b)
        <2>1. High(frame, e)
            BY <1>3, <1>5, Zenon
        <2>2. r.rxMask = e /\ r.rxValue = frame \cap 0 .. (e - 1) /\ r.rxState = e
            BY <2>1 DEF Assembled
        <2>3. last = b - 1
            BY <2>2
        <2>4. \A k \in e .. (b - 1) : High(frame, k)
            BY <2>1, <1>3, Zenon
        <2>5. ((frame \cap 0 .. (e - 1)) \cup {b - 1}) \cap 0 .. 7 = frame \cap 0 .. (b - 1)
            BY <1>0, <2>4, <1>5, AssembleFall, ZenonT(40)
        <2>6. taken \cap 0 .. 7 = frame \cap 0 .. (b - 1)
            BY <2>2, <2>3, <2>5, <1>5, Zenon
        <2> HIDE DEF last, taken
        <2>7. r.rxState + (b - e) = b
            BY <2>2
        <2> QED
            BY <1>1, <1>2, <1>5, <2>3, <2>6, <2>7
    <1> QED
        BY <1>4, <1>5

\* The start bit of the next character ends a frame that ended in 1s.
LEMMA ShiftedAtStart ==
    ASSUME NEW frame \in Frames, NEW r \in Receiver, NEW e \in 1 .. 7,
           Assembled(r, frame, e), (e - 1) .. 7 \subseteq frame,
           NEW t, bitTimes(t - r.prevBitTCNT) > 9 - e
    PROVE  /\ nextCharStarted(r, t)
           /\ Shifted(r, t, TRUE).rxState = 9
           /\ Shifted(r, t, TRUE).rxValue = frame
    <1>1. nextCharStarted(r, t)
        BY DEF nextCharStarted, bitsLeft, Assembled
    <1>2. r.rxMask = e - 1 /\ r.rxValue = frame \cap 0 .. (e - 1) /\ r.rxState = e
        BY DEF Assembled, High
    <1>3. /\ Shifted(r, t, TRUE).rxState = r.rxState + bitsLeft(r)
          /\ Shifted(r, t, TRUE).rxValue =
                (r.rxValue \cup r.rxMask .. (r.rxMask + bitsLeft(r) - 1)) \cap 0 .. 7
        BY <1>1 DEF Shifted
    <1>4. r.rxState + bitsLeft(r) = 9 /\ r.rxMask + bitsLeft(r) - 1 = 7
        BY <1>2 DEF bitsLeft
    <1>5. ((frame \cap 0 .. (e - 1)) \cup (e - 1) .. 7) \cap 0 .. 7 = frame
        <2>1. \A i \in frame : i \in 0 .. 7
            BY DEF Frames
        <2>2. \A i \in (e - 1) .. 7 : i \in frame
            OBVIOUS
        <2>3. \A i \in 0 .. 7 : i \in 0 .. (e - 1) \/ i \in (e - 1) .. 7
            OBVIOUS
        <2> QED
            BY <2>1, <2>2, <2>3, Zenon
    <1> QED
        BY <1>1, <1>2, <1>3, <1>4, <1>5

-----------------------------------------------------------------------------
\* What the interrupt routine makes of the receiver in each of the cases.
LEMMA IsrIdle ==
    ASSUME NEW r, NEW t \in Nat, Waiting(r), NEW high \in BOOLEAN
    PROVE  /\ ~Completes(r, t, high)
           /\ high => receiveISR(r, t, high) = startChar(t)
           /\ ~high => receiveISR(r, t, high) = r
    BY DEF receiveISR, Completes

LEMMA StartChar ==
    ASSUME NEW t \in Nat, NEW frame \in Frames
    PROVE  /\ startChar(t) \in Receiver /\ ~Waiting(startChar(t))
           /\ Assembled(startChar(t), frame, 0) /\ startChar(t).prevBitTCNT = t
    <1>1. frame \cap 0 .. (0 - 1) = {}
        OBVIOUS
    <1>2. startChar(t) \in Receiver
        BY DEF startChar, Receiver
    <1> QED
        BY <1>1, <1>2 DEF startChar, Waiting, WAITING_FOR_START_BIT, Assembled, High

LEMMA IsrInFrame ==
    ASSUME NEW frame \in Frames, NEW r \in Receiver, NEW e \in 0 .. 7, NEW b \in 1 .. 9, e < b,
           Assembled(r, frame, e), NoChange(frame, e, b - 1),
           ~(High(frame, b) <=> High(frame, b - 1)),
           NEW t \in Nat, bitTimes(t - r.prevBitTCNT) = b - e,
           NEW high \in BOOLEAN, high <=> High(frame, b)
    PROVE  /\ receiveISR(r, t, high) \in Receiver
           /\ b <= 7 => /\ ~Completes(r, t, high)
                        /\ ~Waiting(receiveISR(r, t, high))
                        /\ Assembled(receiveISR(r, t, high), frame, b)
                        /\ receiveISR(r, t, high).prevBitTCNT = t
           /\ b >= 8 => /\ Completes(r, t, high) /\ Completed(r, t, high) = frame \cap 0 .. 6
                        /\ Waiting(receiveISR(r, t, high))
    <1> DEFINE q == Shifted(r, t, high)
    <1>1. /\ ~nextCharStarted(r, t)
          /\ q.rxState = b
          /\ q.rxMask = IF High(frame, b) THEN b ELSE b - 1
          /\ q.rxValue = frame \cap 0 .. (b - 1)
          /\ q.prevBitTCNT = t
        BY ShiftedInFrame
    <1>2. q = [rxState |-> q.rxState, rxMask |-> q.rxMask, rxValue |-> q.rxValue,
               prevBitTCNT |-> q.prevBitTCNT]
        BY DEF Shifted
    <1>3. ~Waiting(r)
        BY DEF Waiting, WAITING_FOR_START_BIT, Assembled
    <1>4. q.rxMask \in Nat /\ q.rxValue \in SUBSET (0 .. 7)
        BY <1>1 DEF Frames
    <1>5. CASE b <= 7
        <2>1. ~Complete(q)
            BY <1>1, <1>5 DEF Complete
        <2>2. receiveISR(r, t, high) = q /\ ~Completes(r, t, high)
            BY <1>3, <2>1, Zenon DEF receiveISR, Completes, q
        <2> HIDE DEF q
        <2>3. q.rxState \in 0 .. 8 \cup {255} /\ q.rxState # 255
            BY <1>1, <1>5
        <2>4. q \in Receiver /\ ~Waiting(q)
            BY <1>1, <1>2, <1>4, <2>3 DEF Receiver, Waiting, WAITING_FOR_START_BIT
        <2>5. Assembled(q, frame, b)
            BY <1>1 DEF Assembled
        <2>6. ~(b >= 8)
            BY <1>5
        <2> QED
            BY <1>1, <2>2, <2>4, <2>5, <2>6
    <1>6. CASE b >= 8
        <2>1. Complete(q)
            BY <1>1, <1>6 DEF Complete
        <2>2. receiveISR(r, t, high) = Listening(q) /\ Completes(r, t, high)
            BY <1>1, <1>3, <2>1, Zenon DEF receiveISR, Completes, q
        <2>3. Completed(r, t, high) = q.rxValue \cap 0 .. 6
            BY Zenon DEF Completed, q
        <2> HIDE DEF q
        <2>4. Listening(q) = [rxState |-> 255, rxMask |-> q.rxMask, rxValue |-> q.rxValue,
                              prevBitTCNT |-> q.prevBitTCNT]
            BY <1>2 DEF Listening, WAITING_FOR_START_BIT
        <2>5. Listening(q) \in Receiver /\ Waiting(Listening(q))
            BY <1>1, <1>4, <2>4 DEF Receiver, Waiting, WAITING_FOR_START_BIT
        <2>6. (frame \cap 0 .. (b - 1)) \cap 0 .. 6 = frame \cap 0 .. 6
            <3>1. \A i \in 0 .. 6 : i \in 0 .. (b - 1)
                BY <1>6
            <3> QED
                BY <3>1, Zenon
        <2>7. ~(b <= 7)
            BY <1>6
        <2> QED
            BY <1>1, <2>2, <2>3, <2>5, <2>6, <2>7, Zenon
    <1> QED
        BY <1>5, <1>6

LEMMA IsrAtStart ==
    ASSUME NEW frame \in Frames, NEW r \in Receiver, NEW e \in 1 .. 7,
           Assembled(r, frame, e), (e - 1) .. 7 \subseteq frame,
           NEW t \in Nat, bitTimes(t - r.prevBitTCNT) > 9 - e
    PROVE  /\ receiveISR(r, t, TRUE) = startChar(t)
           /\ Completes(r, t, TRUE) /\ Completed(r, t, TRUE) = frame \cap 0 .. 6
    <1>1. /\ nextCharStarted(r, t)
          /\ Shifted(r, t, TRUE).rxState = 9
          /\ Shifted(r, t, TRUE).rxValue = frame
        BY ShiftedAtStart, ZenonT(40)
    <1>2. ~Waiting(r)
        BY DEF Waiting, WAITING_FOR_START_BIT, Assembled
    <1>3. Complete(Shifted(r, t, TRUE))
        <2>1. \A q : q.rxState = 9 => Complete(q)
            BY DEF Complete
        <2> QED
            BY <1>1, <2>1, Zenon
    <1> QED
        BY <1>1, <1>2, <1>3, Zenon DEF receiveISR, Completes, Completed

-----------------------------------------------------------------------------
\* The ring.
LEMMA Modulo ==
    ASSUME NEW B \in Nat \ {0}, NEW n \in 0 .. (2 * B - 1)
    PROVE  n % B = IF n < B THEN n ELSE n - B
    OBVIOUS

\* The cell j places after cell h.
Slot(h, j) == IF h + j < SDI12_BUFFER_SIZE THEN h + j ELSE h + j - SDI12_BUFFER_SIZE

\* In the ring wait the characters n + 1 .. m of a reply.
Holds(rg, reply, n, m) ==
    /\ ~rg.overflow
    /\ m - n \in 0 .. (SDI12_BUFFER_SIZE - 1)
    /\ rg.tail = Slot(rg.head, m - n)
    /\ \A j \in 0 .. (m - n - 1) : rg.cell[Slot(rg.head, j)] = reply[n + 1 + j]

LEMMA RingFields ==
    ASSUME NEW rg \in Ring
    PROVE  /\ rg.head \in Cells /\ rg.tail \in Cells
           /\ rg.cell \in [Cells -> Characters] /\ rg.overflow \in BOOLEAN
           /\ rg = [head |-> rg.head, tail |-> rg.tail, cell |-> rg.cell, overflow |-> rg.overflow]
    BY DEF Ring

LEMMA SlotType ==
    ASSUME NEW h \in Cells, NEW j \in 0 .. (SDI12_BUFFER_SIZE - 1)
    PROVE  Slot(h, j) \in Cells
    BY LineAssumption DEF Slot, Cells

LEMMA SlotInjective ==
    ASSUME NEW h \in Cells, NEW i \in 0 .. (SDI12_BUFFER_SIZE - 1),
           NEW j \in 0 .. (SDI12_BUFFER_SIZE - 1), Slot(h, i) = Slot(h, j)
    PROVE  i = j
    BY LineAssumption DEF Slot, Cells

LEMMA NextCellIsSlot ==
    ASSUME NEW h \in Cells
    PROVE  NextCell(h) = Slot(h, 1) /\ NextCell(h) \in Cells
    <1>1. (h + 1) % SDI12_BUFFER_SIZE =
             IF h + 1 < SDI12_BUFFER_SIZE THEN h + 1 ELSE h + 1 - SDI12_BUFFER_SIZE
        <2>1. SDI12_BUFFER_SIZE \in Nat \ {0} /\ h + 1 \in 0 .. (2 * SDI12_BUFFER_SIZE - 1)
            BY LineAssumption DEF Cells
        <2>2. h \in Nat
            BY DEF Cells
        <2> QED
            BY <2>1, <2>2, SMT
    <1> QED
        BY <1>1, LineAssumption DEF NextCell, Slot, Cells

LEMMA SlotStep ==
    ASSUME NEW h \in Cells, NEW j \in 0 .. (SDI12_BUFFER_SIZE - 2)
    PROVE  /\ Slot(Slot(h, j), 1) = Slot(h, j + 1)
           /\ Slot(Slot(h, 1), j) = Slot(h, j + 1)
    BY LineAssumption DEF Slot, Cells

LEMMA RingWaits ==
    ASSUME NEW rg \in Ring, NEW reply, NEW n \in Nat, NEW m \in Nat, Holds(rg, reply, n, m)
    PROVE  available(rg) <=> n < m
    <1> DEFINE w == m - n
    <1>1. rg.head \in Cells /\ w \in 0 .. (SDI12_BUFFER_SIZE - 1) /\ rg.tail = Slot(rg.head, w) /\ ~rg.overflow
        BY RingFields DEF Holds
    <1>2. SDI12_BUFFER_SIZE \in Nat \ {0}
        BY LineAssumption
    <1> HIDE DEF w
    <1>3. rg.tail + SDI12_BUFFER_SIZE - rg.head \in 0 .. (2 * SDI12_BUFFER_SIZE - 1)
        BY <1>1, <1>2 DEF Slot, Cells
    <1>4. Waits(rg) = IF rg.tail + SDI12_BUFFER_SIZE - rg.head < SDI12_BUFFER_SIZE
                      THEN rg.tail + SDI12_BUFFER_SIZE - rg.head ELSE rg.tail - rg.head
        BY <1>1, <1>2, <1>3, Modulo, SMTT(30) DEF Waits, Slot, Cells
    <1>5. Waits(rg) = w
        BY <1>1, <1>2, <1>4 DEF Slot, Cells
    <1> QED
        BY <1>1, <1>5 DEF available, w

LEMMA RingPutType ==
    ASSUME NEW rg \in Ring, NEW c \in Characters
    PROVE  charToBuffer(rg, c) \in Ring
    <1>1. NextCell(rg.tail) \in Cells
        BY RingFields, NextCellIsSlot
    <1>2. [rg.cell EXCEPT ![rg.tail] = c] \in [Cells -> Characters]
        BY RingFields
    <1> QED
        BY <1>1, <1>2, RingFields DEF charToBuffer, Ring

LEMMA RingGetType ==
    ASSUME NEW rg \in Ring
    PROVE  /\ read(rg) \in Ring
           /\ peek(rg) \in Characters \cup {MinusOne}
    <1>1. NextCell(rg.head) \in Cells
        BY RingFields, NextCellIsSlot
    <1>2. rg.cell[rg.head] \in Characters
        BY RingFields
    <1> QED
        BY <1>1, <1>2, RingFields DEF read, peek, Ring

\* A character put into a ring with room for it waits behind the others.
LEMMA RingPut ==
    ASSUME NEW rg \in Ring, NEW reply, NEW n \in Nat, NEW m \in Nat, Holds(rg, reply, n, m),
           m + 1 - n <= SDI12_BUFFER_SIZE - 1, NEW c \in Characters, c = reply[m + 1]
    PROVE  Holds(charToBuffer(rg, c), reply, n, m + 1)
    <1> DEFINE w == m - n
               q == charToBuffer(rg, c)
    <1>1. /\ rg.head \in Cells /\ w \in 0 .. (SDI12_BUFFER_SIZE - 2)
          /\ rg.tail = Slot(rg.head, w) /\ ~rg.overflow /\ rg.tail \in Cells
          /\ rg.cell \in [Cells -> Characters]
          /\ SDI12_BUFFER_SIZE \in Nat \ {0, 1}
        BY RingFields, LineAssumption DEF Holds
    <1>2. m + 1 - n = w + 1
        OBVIOUS
    <1>3. \A j \in 0 .. (w - 1) : rg.cell[Slot(rg.head, j)] = reply[n + 1 + j]
        BY DEF Holds
    <1>4. reply[n + 1 + w] = c
        <2>1. n + 1 + w = m + 1
            OBVIOUS
        <2> QED
            BY <2>1
    <1> HIDE DEF w
    <1>5. NextCell(rg.tail) = Slot(rg.head, w + 1)
        BY <1>1, NextCellIsSlot, SlotStep
    <1>6. NextCell(rg.tail) # rg.head
        <2>1. Slot(rg.head, 0) = rg.head
            BY <1>1 DEF Slot, Cells
        <2>2. w + 1 \in 0 .. (SDI12_BUFFER_SIZE - 1) /\ 0 \in 0 .. (SDI12_BUFFER_SIZE - 1) /\ w + 1 # 0
            BY <1>1
        <2> QED
            BY <1>1, <1>5, <2>1, <2>2, SlotInjective
    <1>7. /\ q.head = rg.head /\ q.tail = Slot(rg.head, w + 1) /\ q.overflow = rg.overflow
          /\ q.cell = [rg.cell EXCEPT ![rg.tail] = c]
        BY <1>5, <1>6, RingFields DEF charToBuffer
    <1>8. ASSUME NEW j \in 0 .. w PROVE q.cell[Slot(rg.head, j)] = reply[n + 1 + j]
        <2>1. j \in 0 .. (SDI12_BUFFER_SIZE - 1) /\ w \in 0 .. (SDI12_BUFFER_SIZE - 1)
            BY <1>1
        <2>2. Slot(rg.head, j) \in Cells
            BY <1>1, <2>1, SlotType
        <2>3. CASE j = w
            BY <1>1, <1>4, <1>7, <2>2, <2>3
        <2>4. CASE j # w
            <3>1. Slot(rg.head, j) # rg.tail
                BY <1>1, <2>1, <2>4, SlotInjective
            <3>2. q.cell[Slot(rg.head, j)] = rg.cell[Slot(rg.head, j)]
                BY <1>1, <1>7, <2>2, <3>1
            <3>3. j \in 0 .. (w - 1)
                BY <1>1, <2>4
            <3> QED
                BY <1>3, <3>2, <3>3
        <2> QED
            BY <2>3, <2>4
    <1> HIDE DEF q
    <1>9. w + 1 \in 0 .. (SDI12_BUFFER_SIZE - 1) /\ w + 1 - 1 = w
        BY <1>1
    <1>10. Holds(q, reply, n, m + 1)
        BY <1>1, <1>2, <1>7, <1>8, <1>9 DEF Holds
    <1> QED
        BY <1>10 DEF q

\* The first character that waits is read.
LEMMA RingGet ==
    ASSUME NEW rg \in Ring, NEW reply, NEW n \in Nat, NEW m \in Nat, Holds(rg, reply, n, m),
           n < m
    PROVE  peek(rg) = reply[n + 1] /\ Holds(read(rg), reply, n + 1, m)
    <1> DEFINE w == m - n
               q == read(rg)
    <1>1. /\ rg.head \in Cells /\ w \in 1 .. (SDI12_BUFFER_SIZE - 1)
          /\ rg.tail = Slot(rg.head, w) /\ ~rg.overflow
          /\ SDI12_BUFFER_SIZE \in Nat \ {0, 1}
        BY RingFields, LineAssumption DEF Holds
    <1>2. m - (n + 1) = w - 1
        OBVIOUS
    <1>3. \A j \in 0 .. (w - 1) : rg.cell[Slot(rg.head, j)] = reply[n + 1 + j]
        BY DEF Holds
    <1> HIDE DEF w
    <1>4. Slot(rg.head, 0) = rg.head
        BY <1>1 DEF Slot, Cells
    <1>5. rg.head # rg.tail
        <2>1. w \in 0 .. (SDI12_BUFFER_SIZE - 1) /\ 0 \in 0 .. (SDI12_BUFFER_SIZE - 1) /\ w # 0
            BY <1>1
        <2> QED
            BY <1>1, <1>4, <2>1, SlotInjective
    <1>6. peek(rg) = reply[n + 1]
        <2>1. 0 \in 0 .. (w - 1) /\ n + 1 + 0 = n + 1
            BY <1>1
        <2>2. rg.cell[Slot(rg.head, 0)] = reply[n + 1 + 0]
            BY <1>3, <2>1
        <2> QED
            BY <1>4, <1>5, <2>1, <2>2 DEF peek
    <1>7. q.head = Slot(rg.head, 1) /\ q.tail = rg.tail /\ q.overflow = FALSE /\ q.cell = rg.cell
        BY <1>1, <1>5, RingFields, NextCellIsSlot DEF read
    <1>8. Slot(Slot(rg.head, 1), w - 1) = Slot(rg.head, w)
        <2>1. w - 1 \in 0 .. (SDI12_BUFFER_SIZE - 2) /\ (w - 1) + 1 = w
            BY <1>1
        <2> QED
            BY <1>1, <2>1, SlotStep
    <1>9. ASSUME NEW j \in 0 .. (w - 2)
          PROVE  q.cell[Slot(Slot(rg.head, 1), j)] = reply[(n + 1) + 1 + j]
        <2>1. j \in 0 .. (SDI12_BUFFER_SIZE - 2) /\ j + 1 \in 0 .. (w - 1) /\ n + 1 + (j + 1) = (n + 1) + 1 + j
            BY <1>1
        <2>2. Slot(Slot(rg.head, 1), j) = Slot(rg.head, j + 1)
            BY <1>1, <2>1, SlotStep
        <2>3. rg.cell[Slot(rg.head, j + 1)] = reply[n + 1 + (j + 1)]
            BY <1>3, <2>1
        <2> QED
            BY <1>7, <2>1, <2>2, <2>3
    <1> HIDE DEF q
    <1>10. w - 1 \in 0 .. (SDI12_BUFFER_SIZE - 1) /\ (w - 1) - 1 = w - 2
        BY <1>1
    <1>11. Holds(q, reply, n + 1, m)
        BY <1>1, <1>2, <1>7, <1>8, <1>9, <1>10 DEF Holds
    <1> QED
        BY <1>6, <1>11 DEF q

-----------------------------------------------------------------------------
\* Bits that the receiver can tell apart, up to nine of them in one interval.
Readable(s) == s.bit \in 829 .. 918

\* The interrupt routine reads the time soon after the change of the line.
ShortLatency == IsrLatencies \subseteq 0 .. 14

\* The ring has room for what arrives while the loop reads one character of three,
\* and a message for a reply that fills the ring.
BufferSizes ==
    /\ 3 * max_msg_length + 10 <= 4 * SDI12_BUFFER_SIZE
    /\ SDI12_BUFFER_SIZE < max_msg_length

\* A reply ends with a line feed.
LineFeed == {1, 3}
LineFeedLast == \A s \in Sensors : Conforming(s) => s.reply[Len(s.reply)] = LineFeed

LEMMA SensorFacts ==
    ASSUME NEW s \in Sensors
    PROVE  /\ s.reply \in Seq(Characters) /\ Len(s.reply) \in Nat \ {0}
           /\ s.latency \in Nat /\ s.gaps \subseteq Nat /\ s.bit \in Nat
    <1>1. s \in Behaviour /\ s.reply # <<>>
        BY ExchangeAssumption
    <1>2. s.reply \in Seq(Characters) /\ s.latency \in Nat /\ s.gaps \in SUBSET Nat /\ s.bit \in Nat
        BY <1>1 DEF Behaviour
    <1> QED
        BY <1>1, <1>2

LEMMA ReplyCharacters ==
    ASSUME NEW s \in Sensors, NEW k \in 1 .. Len(s.reply)
    PROVE  s.reply[k] \in Characters
    BY SensorFacts

LEMMA ConformingFacts ==
    ASSUME LineParameters, NEW s \in Sensors, Conforming(s)
    PROVE  /\ Readable(s) /\ s.bit <= 907
           /\ s.latency <= 15000 /\ \A gap \in s.gaps : gap <= 1660
           /\ Len(s.reply) <= SDI12_BUFFER_SIZE
    <1>1. s.bit \in Nat /\ 199 * TICKS_PER_BIT <= 200 * s.bit /\ 200 * s.bit <= 218 * TICKS_PER_BIT
        BY SensorFacts DEF Conforming
    <1>2. 829 <= s.bit /\ s.bit <= 907
        BY <1>1 DEF LineParameters
    <1> QED
        <2>0. marking_micros \in Int
            BY DEF marking_micros
        <2>1. s.latency \in marking_micros .. 15000
            BY SMTT(30) DEF Conforming
        <2>2. s.latency <= 15000
            BY <2>0, <2>1, SensorFacts
        <2>3. (\A gap \in s.gaps : gap <= 1660) /\ Len(s.reply) <= SDI12_BUFFER_SIZE
            BY DEF Conforming
        <2>4. Readable(s)
            BY <1>1, <1>2 DEF Readable
        <2> QED
            BY <1>2, <2>2, <2>3, <2>4

-----------------------------------------------------------------------------
\* The last change of the line was in the character sent last, which ended in 1s.
Pending ==
    /\ sent > 0
    /\ rx.rxState \in 1 .. 7
    /\ Assembled(rx, WithParity(sensor.reply[sent]), rx.rxState)
    /\ (rx.rxState - 1) .. 7 \subseteq WithParity(sensor.reply[sent])
    /\ rx.prevBitTCNT <= charAt - (10 - rx.rxState) * sensor.bit + 14

\* The last change of the line was at bit rxState of the character being sent, the
\* next one is at bit edge.
InCharacter ==
    /\ rx.rxState \in 0 .. (edge - 1) /\ rx.rxState <= 7
    /\ Assembled(rx, WithParity(sensor.reply[sent + 1]), rx.rxState)
    /\ NoChange(WithParity(sensor.reply[sent + 1]), rx.rxState, edge - 1)
    /\ charAt + rx.rxState * sensor.bit <= rx.prevBitTCNT
    /\ rx.prevBitTCNT <= charAt + rx.rxState * sensor.bit + 14

\* Bit edge of the character being sent changes the line.
AtChange ==
    /\ Sending
    /\ ~(High(WithParity(sensor.reply[sent + 1]), edge)
            <=> High(WithParity(sensor.reply[sent + 1]), edge - 1))

\* While the driver listens, the receiver is never out of step with the sensor.
ReceiverInv ==
    Listens /\ Readable(sensor) =>
        /\ Waiting(rx) \/ rx \in Receiver
        /\ edge = 0 => Waiting(rx) \/ Pending
        /\ edge > 0 => AtChange
        /\ edge > 0 => (Waiting(rx) /\ edge = 9) \/ InCharacter

\* The number of characters the receiver has completed.
Got ==
    IF edge = 0 THEN (IF Waiting(rx) THEN sent ELSE sent - 1)
    ELSE (IF Waiting(rx) THEN sent + 1 ELSE sent)

Fits == Len(sensor.reply) < max_msg_length

Begins(msg, reply) == \A i \in 1 .. Len(msg) : msg[i] = reply[i]

\* Every completed character is in the message or waits in the ring, in order.
RingInv ==
    Listens /\ Readable(sensor) /\ Fits =>
        /\ counter <= Got
        /\ Holds(ring, sensor.reply, counter, Got)
        /\ Begins(_msg_buf, sensor.reply)
        /\ pc = "read" => counter < Got

\* When the driver began to listen.
Began == wake - 24000 * counter - (IF pc = "read" THEN 36000 ELSE 28000)

\* The sensor does not talk too fast, and one that conforms not too slowly.
TimeInv ==
    Listens =>
        /\ Readable(sensor) => Began + 8290 * sent <= charAt
        /\ Conforming(sensor) => charAt <= Began + 15000 + 10730 * sent

\* TypeOK, but for a receiver that a sensor with unreadable bits may confuse.
AnyReceiver == [rxState : Int, rxMask : Int, rxValue : SUBSET Int, prevBitTCNT : Int]

Types ==
    /\ now \in Nat /\ wake \in Nat /\ requests \in 0 .. MaxRequests
    /\ pc \in {"request", "send", "listen", "available", "read"}
    /\ _msg_buf \in Seq(Characters \cup {MinusOne})
    /\ state \in {"HOLDING", "TRANSMITTING", "LISTENING"}
    /\ rx \in AnyReceiver /\ ring \in Ring
    /\ sensor \in Sensors /\ sent \in 0 .. Len(sensor.reply)
    /\ charAt \in Nat /\ edge \in 0 .. 9

\* The step of the loop and the state of the driver.
StateInv ==
    /\ counter <= max_msg_length
    /\ Listens <=> pc \in {"available", "read"}
    /\ state = "TRANSMITTING" <=> pc = "listen"
    /\ Listens => counter < max_msg_length

\* A command is sent, and listening begins, with an empty message and an empty ring.
CleanInv ==
    pc \in {"send", "listen"} =>
        _msg_buf = <<>> /\ ring.head = 0 /\ ring.tail = 0 /\ ~ring.overflow

\* Nothing is sent before the sensor has the command, and a conforming sensor has
\* sent all when the driver holds the line.
QuietInv ==
    /\ pc = "listen" => ~Sending
    /\ state = "HOLDING" /\ Conforming(sensor) => ~Sending

\* A message that is returned begins its reply, and is all of a conforming one.
BeginsInv ==
    Returned /\ Readable(sensor) /\ Fits =>
        counter <= Len(sensor.reply) /\ Begins(_msg_buf, sensor.reply)

WholeInv == Returned /\ Conforming(sensor) => counter = Len(sensor.reply)

LineInv == Types /\ StateInv /\ CleanInv /\ ReceiverInv /\ TimeInv /\ RingInv

ExchangeInv == LineInv /\ BeginsInv /\ QuietInv /\ WholeInv

-----------------------------------------------------------------------------
LEMMA ReceiverFields ==
    ASSUME NEW r \in AnyReceiver
    PROVE  /\ r.rxState \in Int /\ r.rxMask \in Int
           /\ r.rxValue \in SUBSET Int /\ r.prevBitTCNT \in Int
           /\ r = [rxState |-> r.rxState, rxMask |-> r.rxMask, rxValue |-> r.rxValue,
                   prevBitTCNT |-> r.prevBitTCNT]
    BY DEF AnyReceiver

LEMMA ReceiverIsAny == \A r \in Receiver : r \in AnyReceiver
    BY DEF Receiver, AnyReceiver, WAITING_FOR_START_BIT

LEMMA ListeningType ==
    ASSUME NEW r \in AnyReceiver
    PROVE  Listening(r) \in AnyReceiver /\ Waiting(Listening(r))
    BY ReceiverFields DEF AnyReceiver, Listening, Waiting, WAITING_FOR_START_BIT

LEMMA ClearType ==
    ASSUME NEW rg \in Ring
    PROVE  /\ clearBuffer(rg) \in Ring
           /\ clearBuffer(rg).head = 0 /\ clearBuffer(rg).tail = 0 /\ ~clearBuffer(rg).overflow
    <1>1. 0 \in Cells
        BY LineAssumption DEF Cells
    <1>2. PICK q \in {clearBuffer(rg)} : q = [rg EXCEPT !.head = 0, !.tail = 0, !.overflow = FALSE]
        BY DEF clearBuffer
    <1>3. q \in Ring
        BY <1>1, <1>2 DEF Ring
    <1>4. q.head = 0 /\ q.tail = 0 /\ ~q.overflow
        BY <1>2 DEF Ring
    <1> QED
        BY <1>2, <1>3, <1>4

LEMMA EmptyRingType == EmptyRing \in Ring
    <1>1. 0 \in Cells /\ {} \in Characters
        BY LineAssumption DEF Cells, Characters
    <1> QED
        BY <1>1 DEF EmptyRing, Ring

LEMMA BitTimesType == \A dt \in Int : bitTimes(dt) \in Int
    BY LineAssumption DEF bitTimes

LEMMA IsrType ==
    ASSUME NEW r \in AnyReceiver, NEW t \in Nat, NEW high \in BOOLEAN
    PROVE  receiveISR(r, t, high) \in AnyReceiver /\ Completed(r, t, high) \in Characters
    <1> DEFINE bits == IF nextCharStarted(r, t) THEN bitsLeft(r) ELSE bitTimes(t - r.prevBitTCNT)
               last == r.rxMask + bits - 1
               q == Shifted(r, t, high)
    <1>1. bits \in Int /\ last \in Int /\ r.rxState + bits \in Int /\ last + 2 \in Int
        <2>1. t - r.prevBitTCNT \in Int /\ bitsLeft(r) \in Int
            BY ReceiverFields DEF bitsLeft
        <2>2. bits \in Int
            BY <2>1, BitTimesType
        <2> HIDE DEF bits
        <2> QED
            BY <2>2, ReceiverFields
    <1>2. q = [rxState |-> r.rxState + bits, rxMask |-> IF high THEN last + 2 ELSE last,
               rxValue |-> (r.rxValue \cup (IF high THEN r.rxMask .. last ELSE {last})) \cap 0 .. 7,
               prevBitTCNT |-> t]
        BY Zenon DEF Shifted
    <1> HIDE DEF bits, last, q
    <1>3. q \in AnyReceiver /\ q.rxValue \in SUBSET (0 .. 7)
        <2>1. \A X : X \cap 0 .. 7 \in SUBSET (0 .. 7) /\ X \cap 0 .. 7 \in SUBSET Int
            OBVIOUS
        <2> QED
            BY <1>1, <1>2, <2>1 DEF AnyReceiver
    <1>4. Listening(q) \in AnyReceiver /\ startChar(t) \in AnyReceiver
        BY <1>3, ListeningType DEF startChar, AnyReceiver
    <1>5. receiveISR(r, t, high) \in {r, q, startChar(t), Listening(q)}
        <2>1. \/ Waiting(r) /\ ~high
              \/ Waiting(r) /\ high
              \/ ~Waiting(r) /\ ~Complete(q)
              \/ ~Waiting(r) /\ Complete(q)
            OBVIOUS
        <2> QED
            BY <2>1 DEF receiveISR, q
    <1>6. Completed(r, t, high) \in Characters
        BY <1>3 DEF Completed, Characters, q
    <1> QED
        BY <1>3, <1>4, <1>5, <1>6

-----------------------------------------------------------------------------
\* What each step of the loop does.
LEMMA RequestStep ==
    ASSUME Request
    PROVE  /\ pc = "request" /\ pc' = "send" /\ now' = wake /\ wake' = wake + 20000
           /\ requests < MaxRequests /\ requests' = requests + 1
           /\ _msg_buf' = <<>> /\ ring' = clearBuffer(ring)
           /\ UNCHANGED <<state, rx, sensor, sent, charAt, edge>>
    BY DEF Request, Step, Sleep, ResponseDelay, line

LEMMA SendCommandStep ==
    ASSUME SendCommand
    PROVE  /\ pc = "send" /\ pc' = "listen" /\ now' = wake
           /\ wake' = wake + (12300 + 8500 + CommandLength * 10 * TICKS_PER_BIT)
           /\ state' = "TRANSMITTING" /\ sent' = Len(sensor.reply)
           /\ UNCHANGED <<_msg_buf, requests, rx, ring, sensor, charAt, edge>>
    BY DEF SendCommand, Step, Sleep, lineBreak_micros, marking_micros

LEMMA ListenStep ==
    ASSUME Listen
    PROVE  /\ pc = "listen" /\ pc' = "available" /\ now' = wake /\ wake' = wake + 28000
           /\ state' = "LISTENING" /\ rx' = Listening(rx)
           /\ \E s \in Sensors : sensor' = s /\ sent' = 0 /\ edge' = 0 /\ charAt' = wake + s.latency
           /\ UNCHANGED <<_msg_buf, requests, ring>>
    <1>1. /\ pc = "listen" /\ pc' = "available" /\ now' = wake /\ wake' = wake + (20000 + 8000)
          /\ state' = "LISTENING" /\ rx' = Listening(rx)
          /\ \E s \in Sensors : sensor' = s /\ sent' = 0 /\ edge' = 0 /\ charAt' = now' + s.latency
          /\ UNCHANGED <<_msg_buf, requests, ring>>
        BY DEF Listen, Step, Sleep, ResponseDelay, SDI12_YIELD_MS
    <1>2. 20000 + 8000 = 28000
        OBVIOUS
    <1> QED
        BY <1>1, <1>2

LEMMA EndOfReplyStep ==
    ASSUME EndOfReply
    PROVE  /\ pc = "available" /\ pc' = "request" /\ now' = wake
           /\ Sending => wake <= Due
           /\ ~available(ring)
           /\ state' = "HOLDING"
           /\ \E pause \in Pauses : wake' = wake + pause
           /\ UNCHANGED <<_msg_buf, requests, rx, ring, sensor, sent, charAt, edge>>
    <1>1. PICK pause \in Pauses : Sleep("request", pause)
        BY DEF EndOfReply
    <1> QED
        BY <1>1 DEF EndOfReply, Step, Sleep, line

LEMMA AvailableStep ==
    ASSUME Available
    PROVE  /\ pc = "available" /\ pc' = "read" /\ now' = wake /\ wake' = wake + 8000
           /\ available(ring)
           /\ UNCHANGED <<_msg_buf, state, requests, rx, ring, sensor, sent, charAt, edge>>
    BY DEF Available, Step, Sleep, line, SDI12_YIELD_MS

LEMMA ReadStep ==
    ASSUME Read
    PROVE  /\ pc = "read" /\ now' = wake
           /\ ring' = read(ring) /\ _msg_buf' = Append(_msg_buf, peek(ring))
           /\ UNCHANGED <<requests, rx, sensor, sent, charAt, edge>>
           /\ \/ /\ counter + 1 >= max_msg_length /\ pc' = "request" /\ state' = "HOLDING"
                 /\ \E pause \in Pauses : wake' = wake + pause
              \/ /\ ~(counter + 1 >= max_msg_length) /\ pc' = "available" /\ state' = state
                 /\ wake' = wake + 16000
    <1>1. /\ pc = "read" /\ now' = wake
          /\ ring' = read(ring) /\ _msg_buf' = Append(_msg_buf, peek(ring))
          /\ UNCHANGED <<requests, rx, sensor, sent, charAt, edge>>
        BY DEF Read, Step, line
    <1>2. CASE counter + 1 >= max_msg_length
        <2>1. PICK pause \in Pauses : Sleep("request", pause) /\ state' = "HOLDING"
            BY <1>2 DEF Read
        <2> QED
            BY <1>1, <1>2, <2>1 DEF Sleep
    <1>3. CASE ~(counter + 1 >= max_msg_length)
        <2>1. pc' = "available" /\ state' = state /\ wake' = wake + (8000 + 8000)
            BY <1>1, <1>3 DEF Read, Sleep, CharDelay, SDI12_YIELD_MS
        <2>2. 8000 + 8000 = 16000
            OBVIOUS
        <2> QED
            BY <1>1, <1>3, <2>1, <2>2
    <1> QED
        BY <1>2, <1>3

-----------------------------------------------------------------------------
LEMMA ExchangeInit == Init => ExchangeInv
    <1> SUFFICES ASSUME Init PROVE ExchangeInv
        OBVIOUS
    <1>1. Silent \in Sensors
        BY ExchangeAssumption DEF Silent
    <1>2. Len(Silent.reply) \in Nat
        BY <1>1, SensorFacts
    <1>3. rx \in AnyReceiver
        BY DEF Init, AnyReceiver, WAITING_FOR_START_BIT
    <1>4. MaxRequests \in Nat /\ max_msg_length \in Nat
        BY ExchangeAssumption
    <1>5. Types
        BY <1>1, <1>2, <1>3, <1>4, EmptyRingType DEF Init, Types
    <1>6. StateInv
        BY <1>4 DEF Init, StateInv, Listens, counter
    <1>7. pc = "request" /\ ~Listens /\ ~Sending /\ ~Returned
        BY <1>2 DEF Init, Listens, Sending, Returned
    <1> QED
        BY <1>5, <1>6, <1>7
           DEF ExchangeInv, LineInv, ReceiverInv, RingInv, TimeInv, CleanInv, QuietInv,
               BeginsInv, WholeInv

LEMMA LaterEdge ==
    ASSUME Types, Sending, Later # {},
           edge' = CHOOSE b \in Later : \A c \in Later : b <= c
    PROVE  edge' \in Later /\ \A c \in Later : edge' <= c
    <1>1. Later \subseteq Nat
        BY DEF Later, Edges
    <1>2. \E b \in Later : \A c \in Later : b <= c
        BY <1>1, Smallest, Zenon
    <1> QED
        BY <1>2, Zenon

LEMMA TypesNext == Types /\ StateInv /\ [Next]_vars => Types'
    <1> SUFFICES ASSUME Types, StateInv, [Next]_vars PROVE Types'
        OBVIOUS
    <1>a. /\ now \in Nat /\ wake \in Nat /\ requests \in 0 .. MaxRequests
          /\ _msg_buf \in Seq(Characters \cup {MinusOne})
          /\ rx \in AnyReceiver /\ ring \in Ring
          /\ sensor \in Sensors /\ sent \in 0 .. Len(sensor.reply)
          /\ charAt \in Nat /\ edge \in 0 .. 9
          /\ MaxRequests \in Nat /\ CommandLength \in Nat /\ Pauses \subseteq Nat
          /\ TICKS_PER_BIT \in Nat
        BY ExchangeAssumption, LineAssumption DEF Types
    <1>b. Len(sensor.reply) \in Nat \ {0} /\ sensor.bit \in Nat /\ sensor.gaps \subseteq Nat
        BY <1>a, SensorFacts
    <1>1. CASE UNCHANGED vars
        BY <1>1 DEF vars, loop, line, Types
    <1>2. CASE Request
        <2>1. ring' \in Ring
            BY <1>2, <1>a, RequestStep, ClearType
        <2> QED
            BY <1>2, <2>1, <1>a, RequestStep DEF Types
    <1>3. CASE SendCommand
        <2>1. CommandLength * 10 * TICKS_PER_BIT \in Nat
            BY <1>a
        <2>2. wake' \in Nat /\ sent' \in 0 .. Len(sensor'.reply)
            BY <1>3, <2>1, <1>a, <1>b, SendCommandStep
        <2> QED
            BY <1>3, <2>2, <1>a, SendCommandStep DEF Types
    <1>4. CASE Listen
        <2>1. PICK s \in Sensors : sensor' = s /\ sent' = 0 /\ edge' = 0 /\ charAt' = wake + s.latency
            BY <1>4, ListenStep
        <2>2. charAt' \in Nat /\ wake' \in Nat /\ sent' \in 0 .. Len(sensor'.reply) /\ rx' \in AnyReceiver
            BY <1>4, <2>1, <1>a, ListenStep, SensorFacts, ListeningType
        <2> QED
            BY <1>4, <2>1, <2>2, <1>a, ListenStep DEF Types
    <1>5. CASE EndOfReply
        <2>1. PICK pause \in Pauses : wake' = wake + pause
            BY <1>5, EndOfReplyStep
        <2> QED
            BY <1>5, <2>1, <1>a, EndOfReplyStep DEF Types
    <1>6. CASE Available
        BY <1>6, <1>a, AvailableStep DEF Types
    <1>7. CASE Read
        <2>1. ring' \in Ring /\ _msg_buf' \in Seq(Characters \cup {MinusOne})
            BY <1>7, <1>a, ReadStep, RingGetType
        <2>2. pc' \in {"request", "available"} /\ wake' \in Nat /\ state' \in {"HOLDING", state}
            BY <1>7, <1>a, ReadStep
        <2> QED
            BY <1>7, <2>1, <2>2, <1>a, ReadStep DEF Types
    <1>8. CASE LineChange
        <2>1. /\ Sending /\ now' = Due
              /\ UNCHANGED <<pc, wake, _msg_buf, state, requests, sensor>>
            BY <1>8 DEF LineChange, loop
        <2>2. edge * sensor.bit \in Nat /\ Due \in Nat
            <3>1. edge \in 0 .. 9 /\ sensor.bit \in Nat /\ charAt \in Nat
                BY <1>a, <1>b, Zenon
            <3>2. edge * sensor.bit \in Nat
                BY <3>1, BitsAreNat, Zenon
            <3> QED
                BY <3>1, <3>2 DEF Due
        <2>3. sent + 1 \in 1 .. Len(sensor.reply)
            BY <2>1, <1>a, <1>b DEF Sending
        <2>4. rx' \in AnyReceiver /\ ring' \in Ring
            <3>1. CASE Listens
                <4>1. PICK latency \in IsrLatencies : Interrupt(Due + latency, Wave[edge])
                    BY <1>8, <3>1 DEF LineChange
                <4>2. Due + latency \in Nat
                    BY <2>2, ExchangeAssumption
                <4>3. Wave[edge] \in BOOLEAN
                    BY <1>a DEF Wave, writeChar
                <4>4. /\ receiveISR(rx, Due + latency, Wave[edge]) \in AnyReceiver
                      /\ Completed(rx, Due + latency, Wave[edge]) \in Characters
                    BY <4>2, <4>3, <1>a, IsrType
                <4>5. charToBuffer(ring, Completed(rx, Due + latency, Wave[edge])) \in Ring
                    BY <4>4, <1>a, RingPutType
                <4> QED
                    BY <4>1, <4>4, <4>5, <1>a DEF Interrupt
            <3>2. CASE ~Listens
                BY <1>8, <3>2, <1>a DEF LineChange
            <3> QED
                BY <3>1, <3>2
        <2>5. sent' \in 0 .. Len(sensor.reply) /\ charAt' \in Nat /\ edge' \in 0 .. 9
            <3>1. CASE Later # {}
                <4>1. edge' \in Later
                    BY <1>8, <3>1, <2>1, LaterEdge DEF LineChange
                <4>2. UNCHANGED <<sent, charAt>>
                    BY <1>8, <3>1 DEF LineChange
                <4> QED
                    BY <4>1, <4>2, <1>a DEF Later, Edges
            <3>2. CASE ~(Later # {})
                <4>1. sent' = sent + 1 /\ edge' = 0
                    BY <1>8, <3>2 DEF LineChange
                <4>2. PICK gap \in sensor.gaps : charAt' = charAt + 10 * sensor.bit + gap
                    BY <1>8, <3>2 DEF LineChange
                <4> QED
                    BY <4>1, <4>2, <2>3, <1>a, <1>b, SMTT(30)
            <3> QED
                BY <3>1, <3>2
        <2> QED
            BY <2>1, <2>2, <2>4, <2>5, <1>a DEF Types
    <1> QED
        BY <1>1, <1>2, <1>3, <1>4, <1>5, <1>6, <1>7, <1>8 DEF Next

-----------------------------------------------------------------------------
\* A frame ends LOW: from its last change on it is all 1s.
LEMMA LastChange ==
    ASSUME NEW frame \in Frames, NEW e \in 0 .. 9, NoChange(frame, e, 9)
    PROVE  e > 0 /\ (e - 1) .. 7 \subseteq frame
    <1>1. ~High(frame, 9) /\ High(frame, 0)
        BY DEF High
    <1>2. \A k \in e .. 9 : High(frame, k) <=> High(frame, e)
        <2>1. 9 \in e .. 9
            OBVIOUS
        <2> QED
            BY <2>1, SameLevel
    <1>3. \A k \in e .. 9 : ~High(frame, k)
        <2>1. 9 \in e .. 9
            OBVIOUS
        <2> QED
            BY <1>1, <1>2, <2>1, Zenon
    <1>4. e > 0
        <2>1. e # 0
            <3> SUFFICES ASSUME e = 0 PROVE FALSE
                OBVIOUS
            <3>1. 0 \in e .. 9
                OBVIOUS
            <3> QED
                BY <1>1, <1>3, <3>1, Zenon
        <2> QED
            BY <2>1
    <1>5. ASSUME NEW i \in (e - 1) .. 7 PROVE i \in frame
        <2>1. i + 1 \in e .. 9 /\ i + 1 \in 1 .. 8 /\ (i + 1) - 1 = i
            BY <1>4
        <2>2. ~High(frame, i + 1)
            BY <1>3, <2>1, Zenon
        <2> QED
            BY <2>1, <2>2 DEF High
    <1> QED
        BY <1>4, <1>5

\* The sensor goes on to the next change of the line, or to the next character.
LEMMA SensorStep ==
    ASSUME Types, LineChange
    PROVE  /\ Sending /\ sensor' = sensor /\ sensor.reply[sent + 1] \in Characters
           /\ sent + 1 \in 1 .. Len(sensor.reply)
           /\ UNCHANGED <<pc, wake, _msg_buf, state, requests>> /\ Due <= wake
           /\ \/ /\ edge' \in (edge + 1) .. 9 /\ sent' = sent /\ charAt' = charAt
                 /\ ~(High(WithParity(sensor.reply[sent + 1]), edge') <=>
                      High(WithParity(sensor.reply[sent + 1]), edge' - 1))
                 /\ NoChange(WithParity(sensor.reply[sent + 1]), edge, edge' - 1)
              \/ /\ edge' = 0 /\ sent' = sent + 1
                 /\ \E gap \in sensor.gaps : charAt' = charAt + 10 * sensor.bit + gap
                 /\ NoChange(WithParity(sensor.reply[sent + 1]), edge, 9)
    <1>1. /\ Sending /\ Due <= wake
          /\ UNCHANGED <<pc, wake, _msg_buf, state, requests, sensor>>
        BY DEF LineChange, loop
    <1>2. sensor \in Sensors /\ sent \in 0 .. Len(sensor.reply) /\ edge \in 0 .. 9
        BY DEF Types
    <1>3. sent + 1 \in 1 .. Len(sensor.reply)
        BY <1>1, <1>2, SensorFacts DEF Sending
    <1>4. sensor.reply[sent + 1] \in Characters
        BY <1>2, <1>3, ReplyCharacters
    <1> DEFINE frame == WithParity(sensor.reply[sent + 1])
    <1>5. \A b \in 0 .. 9 : b \in Edges(Wave) <=>
                b = 0 \/ (b > 0 /\ ~(High(frame, b) <=> High(frame, b - 1)))
        BY <1>4, EdgesOfFrame, Zenon DEF Wave
    <1>6. CASE Later # {}
        <2>1. edge' \in Later /\ \A c \in Later : edge' <= c
            BY <1>1, <1>6, LaterEdge DEF LineChange
        <2>2. UNCHANGED <<sent, charAt>>
            BY <1>6 DEF LineChange
        <2>3. edge' \in Edges(Wave) /\ edge' \in (edge + 1) .. 9
            BY <1>2, <2>1 DEF Later, Edges
        <2>4. edge' \in 0 .. 9 /\ edge' # 0
            BY <1>2, <2>3
        <2>5. ~(High(frame, edge') <=> High(frame, edge' - 1))
            BY <1>5, <2>3, <2>4, Zenon
        <2>6. ASSUME NEW k \in (edge + 1) .. (edge' - 1)
              PROVE  High(frame, k) <=> High(frame, k - 1)
            <3>0. PICK n \in 0 .. 9 : n = edge'
                BY <2>4
            <3>1. k \in 0 .. 9 /\ k > 0 /\ ~(edge' <= k) /\ k > edge
                <4>1. k \in (edge + 1) .. (n - 1)
                    BY <3>0, Zenon
                <4>2. k \in 0 .. 9 /\ k > 0 /\ ~(n <= k) /\ k > edge
                    BY <1>2, <4>1
                <4> QED
                    BY <3>0, <4>2, Zenon
            <3>2. k \notin Later
                BY <2>1, <3>1, Zenon
            <3>3. k \notin Edges(Wave)
                BY <3>1, <3>2 DEF Later
            <3> QED
                BY <1>5, <3>1, <3>3, Zenon
        <2> QED
            BY <1>1, <1>3, <1>4, <2>2, <2>3, <2>5, <2>6 DEF NoChange
    <1>7. CASE ~(Later # {})
        <2>1. sent' = sent + 1 /\ edge' = 0
            BY <1>7 DEF LineChange
        <2>2. \E gap \in sensor.gaps : charAt' = charAt + 10 * sensor.bit + gap
            BY <1>7 DEF LineChange
        <2>3. ASSUME NEW k \in (edge + 1) .. 9 PROVE High(frame, k) <=> High(frame, k - 1)
            <3>1. k \in 0 .. 9 /\ k > 0 /\ k > edge
                BY <1>2
            <3>2. k \notin Edges(Wave)
                BY <1>7, <3>1 DEF Later
            <3> QED
                BY <1>5, <3>1, <3>2, Zenon
        <2> QED
            BY <1>1, <1>3, <1>4, <2>1, <2>2, <2>3 DEF NoChange
    <1> QED
        BY <1>6, <1>7

\* The receiver has the character being sent up to its last change.
Receiving(r, e, from) ==
    /\ r.rxState = e /\ ~Waiting(r)
    /\ Assembled(r, WithParity(sensor.reply[sent + 1]), e)
    /\ from <= r.prevBitTCNT /\ r.prevBitTCNT <= from + 14

\* What the interrupt routine makes of a change of the line.  A character is
\* completed at the next start bit, or at bit 8 or 9.
LEMMA ChangeReceived ==
    ASSUME LineParameters, ShortLatency, Types, ReceiverInv, Listens, Readable(sensor), LineChange
    PROVE  /\ rx' \in Receiver \/ (Waiting(rx) /\ rx' = rx)
           /\ \/ edge = 0 /\ Waiting(rx) /\ Receiving(rx', 0, Due) /\ ring' = ring
              \/ /\ edge = 0 /\ ~Waiting(rx) /\ Receiving(rx', 0, Due)
                 /\ sent \in 1 .. Len(sensor.reply)
                 /\ ring' = charToBuffer(ring, sensor.reply[sent])
              \/ edge \in 1 .. 7 /\ ~Waiting(rx) /\ Receiving(rx', edge, Due) /\ ring' = ring
              \/ /\ edge \in 8 .. 9 /\ ~Waiting(rx) /\ Waiting(rx')
                 /\ ring' = charToBuffer(ring, sensor.reply[sent + 1])
              \/ edge = 9 /\ Waiting(rx) /\ Waiting(rx') /\ ring' = ring
    <1> DEFINE frame == WithParity(sensor.reply[sent + 1])
    <1>1. /\ Sending /\ sensor.reply[sent + 1] \in Characters
          /\ sent + 1 \in 1 .. Len(sensor.reply)
        BY SensorStep
    <1>2. /\ sensor \in Sensors /\ sent \in 0 .. Len(sensor.reply) /\ edge \in 0 .. 9
          /\ charAt \in Nat /\ sensor.bit \in 829 .. 918
          /\ Waiting(rx) \/ rx \in Receiver
        BY DEF Types, Readable, ReceiverInv
    <1>c. sensor.bit \in Nat /\ edge \in Nat
        BY <1>2, SensorFacts
    <1>3. frame \in Frames /\ frame \cap 0 .. 6 = sensor.reply[sent + 1]
        BY <1>1, FrameOf
    <1>4. PICK latency \in IsrLatencies : Interrupt(Due + latency, Wave[edge])
        BY DEF LineChange
    <1>a. Due \in Nat
        <2>1. edge * sensor.bit \in Nat
            BY <1>c
        <2> QED
            BY <1>2, <2>1 DEF Due
    <1>b. latency \in 0 .. 14
        BY DEF ShortLatency
    <1>5. PICK t \in Nat : t = Due + latency
        BY <1>a, <1>b
    <1>6. Due \in Nat /\ Due <= t /\ t <= Due + 14
        BY <1>a, <1>b, <1>5
    <1>6a. Wave[edge] \in BOOLEAN
        BY <1>2, WriteCharType, SMTT(30) DEF Wave
    <1>7. PICK high \in BOOLEAN : high = Wave[edge]
        BY <1>6a
    <1>8. high <=> High(frame, edge)
        BY <1>1, <1>2, <1>7, WriteChar, ZenonT(40) DEF Wave
    <1>9. /\ rx' = receiveISR(rx, t, high)
          /\ Completes(rx, t, high) => ring' = charToBuffer(ring, Completed(rx, t, high))
          /\ ~Completes(rx, t, high) => ring' = ring
        BY <1>4, <1>5, <1>7 DEF Interrupt
    <1>10. CASE edge = 0
        <2>1. high = TRUE /\ Due = charAt
            <3>1. high
                BY <1>8, <1>10 DEF High
            <3>2. 0 * sensor.bit = 0
                BY <1>c
            <3>3. Due = charAt
                BY <1>2, <1>10, <3>2 DEF Due
            <3> QED
                BY <3>1, <3>3
        <2>2. /\ startChar(t) \in Receiver /\ ~Waiting(startChar(t))
              /\ Assembled(startChar(t), frame, 0) /\ startChar(t).prevBitTCNT = t
              /\ startChar(t).rxState = 0
            BY <1>3, StartChar DEF Assembled
        <2>3. ASSUME rx' = startChar(t) PROVE Receiving(rx', 0, Due) /\ rx' \in Receiver
            BY <1>6, <2>2, <2>3, Zenon DEF Receiving
        <2>4. CASE Waiting(rx)
            <3>1. ~Completes(rx, t, high) /\ receiveISR(rx, t, high) = startChar(t)
                BY <1>2, <2>1, <2>4, IsrIdle, ZenonT(40)
            <3> QED
                BY <1>9, <1>10, <2>3, <2>4, <3>1, Zenon
        <2>5. CASE ~Waiting(rx)
            <3>0. rx \in Receiver
                BY <1>2, <2>5
            <3>1. Pending
                BY <1>10, <2>5 DEF ReceiverInv
            <3>2. sent \in 1 .. Len(sensor.reply)
                BY <1>2, <3>1, SensorFacts DEF Pending
            <3>3. PICK p \in Frames : p = WithParity(sensor.reply[sent]) /\ p \cap 0 .. 6 = sensor.reply[sent]
                BY <1>2, <3>2, ReplyCharacters, FrameOf
            <3>4. PICK e \in 1 .. 7 : e = rx.rxState
                BY <3>1 DEF Pending
            <3>5. Assembled(rx, p, e) /\ (e - 1) .. 7 \subseteq p
                BY <3>1, <3>3, <3>4, Zenon DEF Pending
            <3>6. bitTimes(t - rx.prevBitTCNT) > 9 - e
                <4>1. PICK d \in 3 .. 9 : d = 10 - e
                    BY <3>4
                <4>2. rx.prevBitTCNT <= charAt - d * sensor.bit + 14 /\ rx.prevBitTCNT \in Nat
                    BY <1>2, <3>0, <3>1, <3>4, <4>1 DEF Pending, Receiver
                <4>3. PICK w \in 829 .. 918 : w = sensor.bit
                    BY <1>2
                <4>4. PICK dt \in Int : dt = t - rx.prevBitTCNT
                    BY <4>2
                <4>5. d * w - 14 <= dt
                    BY <1>2, <1>6, <2>1, <4>2, <4>3, <4>4
                <4>6. d \in 1 .. 9
                    OBVIOUS
                <4>7. bitTimes(dt) >= d
                    BY <4>5, <4>6, BitTimesLong
                <4>8. bitTimes(dt) \in Int
                    BY BitTimesType
                <4>9. bitTimes(dt) > 9 - e
                    BY <4>1, <4>7, <4>8
                <4> QED
                    BY <4>4, <4>9, ZenonT(40)
            <3>7. /\ receiveISR(rx, t, TRUE) = startChar(t)
                  /\ Completes(rx, t, TRUE) /\ Completed(rx, t, TRUE) = p \cap 0 .. 6
                BY <3>0, <3>5, <3>6, IsrAtStart
            <3>8. rx' = startChar(t) /\ ring' = charToBuffer(ring, sensor.reply[sent])
                BY <1>9, <2>1, <3>3, <3>7, Zenon
            <3> QED
                BY <1>10, <2>3, <2>5, <3>2, <3>8, Zenon
        <2> QED
            BY <2>4, <2>5
    <1>11. CASE edge > 0 /\ Waiting(rx)
        <2>1. edge = 9
            BY <1>2, <1>11 DEF ReceiverInv, InCharacter, Waiting, WAITING_FOR_START_BIT
        <2>2. ~high
            BY <1>8, <2>1 DEF High
        <2>3. ~Completes(rx, t, high) /\ receiveISR(rx, t, high) = rx
            BY <1>2, <1>11, <2>2, IsrIdle, ZenonT(40)
        <2> QED
            BY <1>9, <1>11, <2>1, <2>3, Zenon
    <1>12. CASE edge > 0 /\ ~Waiting(rx)
        <2>0. rx \in Receiver
            BY <1>2, <1>12
        <2>1. InCharacter /\ AtChange
            BY <1>12 DEF ReceiverInv
        <2>2. PICK e \in 0 .. 7 : e = rx.rxState /\ e < edge
            <3>1. rx.rxState \in 0 .. (edge - 1) /\ rx.rxState <= 7
                BY <2>1 DEF InCharacter
            <3> QED
                BY <1>2, <3>1
        <2>3. PICK b \in 1 .. 9 : b = edge
            BY <1>2, <1>12
        <2>4. /\ Assembled(rx, frame, e) /\ NoChange(frame, e, b - 1) /\ e < b
              /\ ~(High(frame, b) <=> High(frame, b - 1))
            BY <2>1, <2>2, <2>3, Zenon DEF InCharacter, AtChange
        <2>5. bitTimes(t - rx.prevBitTCNT) = b - e
            <3>1. PICK d \in 1 .. 9 : d = b - e
                BY <2>4
            <3>2. PICK w \in 829 .. 918 : w = sensor.bit
                BY <1>2
            <3>3. rx.prevBitTCNT \in Nat
                BY <2>0 DEF Receiver
            <3>4. charAt + e * w <= rx.prevBitTCNT /\ rx.prevBitTCNT <= charAt + e * w + 14
                BY <2>1, <2>2, <3>2 DEF InCharacter
            <3>5. charAt + b * w <= t /\ t <= charAt + b * w + 14
                BY <1>6, <2>3, <3>2 DEF Due
            <3>6. b * w - e * w = d * w
                BY <3>1
            <3>7. PICK dt \in Int : dt = t - rx.prevBitTCNT
                BY <3>3
            <3>8. d * w - 14 <= dt /\ dt <= d * w + 14
                <4>1. PICK x \in Int, y \in Int, z \in Int : x = b * w /\ y = e * w /\ z = d * w
                    OBVIOUS
                <4> QED
                    BY <1>2, <3>3, <3>4, <3>5, <3>6, <3>7, <4>1, SMTT(30)
            <3>9. bitTimes(dt) = d
                BY <3>8, BitTimes
            <3> QED
                BY <3>1, <3>7, <3>9, ZenonT(40)
        <2>6. high <=> High(frame, b)
            BY <1>8, <2>3, Zenon
        <2>7. /\ receiveISR(rx, t, high) \in Receiver
              /\ b <= 7 => /\ ~Completes(rx, t, high)
                           /\ ~Waiting(receiveISR(rx, t, high))
                           /\ Assembled(receiveISR(rx, t, high), frame, b)
                           /\ receiveISR(rx, t, high).prevBitTCNT = t
              /\ b >= 8 => /\ Completes(rx, t, high) /\ Completed(rx, t, high) = frame \cap 0 .. 6
                           /\ Waiting(receiveISR(rx, t, high))
            <3> HIDE DEF frame
            <3> QED
                BY <2>0, <1>3, <2>4, <2>5, <2>6, IsrInFrame
        <2> HIDE DEF frame
        <2>8. CASE b <= 7
            <3>1. /\ rx' \in Receiver /\ ~Waiting(rx') /\ Assembled(rx', frame, b)
                  /\ rx'.prevBitTCNT = t /\ ring' = ring /\ rx'.rxState = b
                BY <1>9, <2>7, <2>8, Zenon DEF Assembled
            <3>2. Receiving(rx', edge, Due)
                BY <1>6, <2>3, <3>1, Zenon DEF Receiving, frame
            <3>3. edge \in 1 .. 7
                BY <2>3, <2>8
            <3> QED
                BY <1>12, <3>1, <3>2, <3>3, Zenon
        <2>9. CASE b >= 8
            <3>1. edge \in 8 .. 9
                BY <2>3, <2>9
            <3>2. Waiting(rx') /\ rx' \in Receiver /\ ring' = charToBuffer(ring, sensor.reply[sent + 1])
                BY <1>3, <1>9, <2>7, <2>9, Zenon
            <3> QED
                BY <1>12, <3>1, <3>2, Zenon
        <2> QED
            BY <2>8, <2>9
    <1> QED
        BY <1>2, <1>10, <1>11, <1>12

-----------------------------------------------------------------------------
LEMMA StateNext == Types /\ StateInv /\ CleanInv /\ [Next]_vars => StateInv'
    <1> SUFFICES ASSUME Types, StateInv, CleanInv, [Next]_vars PROVE StateInv'
        OBVIOUS
    <1> USE DEF Listens
    <1>a. max_msg_length \in Nat \ {0} /\ counter \in Nat
        BY ExchangeAssumption DEF Types, counter
    <1>1. CASE UNCHANGED vars
        BY <1>1 DEF vars, loop, line, StateInv, counter
    <1>2. CASE Request
        BY <1>2, <1>a, RequestStep DEF StateInv, counter
    <1>3. CASE SendCommand
        BY <1>3, <1>a, SendCommandStep DEF StateInv, counter
    <1>4. CASE Listen
        <2>1. counter' = 0
            BY <1>4, ListenStep DEF CleanInv, counter
        <2> QED
            BY <1>4, <2>1, <1>a, ListenStep DEF StateInv
    <1>5. CASE EndOfReply
        BY <1>5, <1>a, EndOfReplyStep DEF StateInv, counter
    <1>6. CASE Available
        BY <1>6, <1>a, AvailableStep DEF StateInv, counter
    <1>7. CASE Read
        <2>1. counter' = counter + 1
            BY <1>7, ReadStep DEF Types, counter
        <2>2. counter < max_msg_length
            BY <1>7, ReadStep DEF StateInv
        <2> QED
            BY <1>7, <2>1, <2>2, <1>a, ReadStep DEF StateInv
    <1>8. CASE LineChange
        BY <1>8, SensorStep DEF StateInv, counter
    <1> QED
        BY <1>1, <1>2, <1>3, <1>4, <1>5, <1>6, <1>7, <1>8 DEF Next

LEMMA CleanNext == Types /\ CleanInv /\ StateInv /\ [Next]_vars => CleanInv'
    <1> SUFFICES ASSUME Types, CleanInv, StateInv, [Next]_vars PROVE CleanInv'
        OBVIOUS
    <1>1. CASE UNCHANGED vars
        BY <1>1 DEF vars, loop, line, CleanInv
    <1>2. CASE Request
        <2>1. ring \in Ring
            BY DEF Types
        <2> QED
            BY <1>2, <2>1, RequestStep, ClearType DEF CleanInv
    <1>3. CASE SendCommand
        BY <1>3, SendCommandStep DEF CleanInv
    <1>4. CASE Listen
        BY <1>4, ListenStep DEF CleanInv
    <1>5. CASE EndOfReply
        BY <1>5, EndOfReplyStep DEF CleanInv
    <1>6. CASE Available
        BY <1>6, AvailableStep DEF CleanInv
    <1>7. CASE Read
        BY <1>7, ReadStep DEF CleanInv
    <1>8. CASE LineChange
        <2>1. CASE Listens
            BY <1>8, <2>1, SensorStep DEF CleanInv, StateInv
        <2>2. CASE ~Listens
            <3>1. ring' = ring
                BY <1>8, <2>2 DEF LineChange
            <3> QED
                BY <1>8, <3>1, SensorStep DEF CleanInv
        <2> QED
            BY <2>1, <2>2
    <1> QED
        BY <1>1, <1>2, <1>3, <1>4, <1>5, <1>6, <1>7, <1>8 DEF Next

LEMMA ReceiverNext ==
    ASSUME LineParameters, ShortLatency
    PROVE  Types /\ StateInv /\ ReceiverInv /\ [Next]_vars => ReceiverInv'
    <1> SUFFICES ASSUME Types, StateInv, ReceiverInv, [Next]_vars, Listens', Readable(sensor')
                 PROVE  ReceiverInv'
        BY DEF ReceiverInv
    <1>a. sensor \in Sensors /\ rx \in AnyReceiver
        BY DEF Types
    <1>1. ASSUME UNCHANGED <<state, rx, sensor, sent, charAt, edge>> PROVE ReceiverInv'
        BY <1>1 DEF ReceiverInv, Listens, Readable, Pending, InCharacter, AtChange, Sending
    <1>2. CASE UNCHANGED vars
        BY <1>1, <1>2 DEF vars, loop, line
    <1>3. CASE Request
        BY <1>1, <1>3, RequestStep
    <1>4. CASE SendCommand
        BY <1>4, SendCommandStep DEF Listens
    <1>5. CASE Listen
        <2>1. rx' = Listening(rx) /\ edge' = 0
            BY <1>5, ListenStep
        <2>2. Waiting(rx')
            BY <1>a, <2>1, ListeningType
        <2> QED
            BY <2>1, <2>2 DEF ReceiverInv
    <1>6. CASE EndOfReply
        BY <1>6, EndOfReplyStep DEF Listens
    <1>7. CASE Available
        BY <1>1, <1>7, AvailableStep
    <1>8. CASE Read
        BY <1>1, <1>8, ReadStep DEF Listens
    <1>9. CASE LineChange
        <2>1. /\ Listens /\ Readable(sensor) /\ sensor' = sensor
              /\ sent \in 0 .. Len(sensor.reply) /\ Len(sensor.reply) \in Nat /\ charAt \in Nat
              /\ edge \in 0 .. 9 /\ sensor.bit \in Nat
            <3>1. sensor' = sensor /\ state' = state
                BY <1>9 DEF LineChange, loop
            <3>2. Len(sensor.reply) \in Nat /\ sensor.bit \in Nat
                BY <1>a, SensorFacts
            <3> QED
                BY <3>1, <3>2 DEF Listens, Types
        <2>2. PICK frame \in Frames : frame = WithParity(sensor.reply[sent + 1])
            <3>1. sensor.reply[sent + 1] \in Characters
                BY <1>9, SensorStep, SMTT(30)
            <3> QED
                BY <3>1, FrameOf
        <2>3. Waiting(rx') \/ rx' \in Receiver
            BY <1>9, <2>1, ChangeReceived
        <2>4. CASE edge' = 0
            <3>1. sent' = sent + 1 /\ NoChange(frame, edge, 9)
                BY <1>9, <2>1, <2>2, <2>4, SensorStep
            <3>2. PICK gap \in Nat : charAt' = charAt + 10 * sensor.bit + gap
                <4>1. PICK gap \in sensor.gaps : charAt' = charAt + 10 * sensor.bit + gap
                    BY <1>9, <2>1, <2>4, SensorStep
                <4>2. gap \in Nat
                    BY <1>a, <4>1, SensorFacts
                <4> QED
                    BY <4>1, <4>2
            <3>3. edge > 0 /\ (edge - 1) .. 7 \subseteq frame
                BY <2>1, <2>2, <3>1, LastChange
            <3>4. Waiting(rx') \/ (edge \in 1 .. 7 /\ Receiving(rx', edge, Due))
                BY <1>9, <2>1, <3>3, ChangeReceived
            <3>5. ASSUME edge \in 1 .. 7, Receiving(rx', edge, Due) PROVE Pending'
                <4>1. /\ rx'.rxState = edge /\ rx'.rxState \in 1 .. 7
                      /\ Assembled(rx', frame, edge) /\ rx'.prevBitTCNT <= Due + 14
                    BY <2>2, <3>5 DEF Receiving
                <4>2. sent' > 0 /\ WithParity(sensor'.reply[sent']) = frame
                    BY <2>1, <2>2, <3>1
                <4>3. PICK w \in Nat, b \in 1 .. 7 : w = sensor.bit /\ b = edge
                    BY <2>1, <3>5
                <4>4. charAt + b * w + 14 <= (charAt + 10 * w + gap) - (10 - b) * w + 14
                    <5>1. (10 - b) * w = 10 * w - b * w
                        OBVIOUS
                    <5>2. PICK x \in Int : x = b * w
                        OBVIOUS
                    <5> QED
                        BY <2>1, <5>1, <5>2
                <4>5. PICK z \in Int : z = rx'.prevBitTCNT
                    BY <2>3, <3>5 DEF Receiving, Receiver
                <4>6. rx'.prevBitTCNT <= charAt' - (10 - rx'.rxState) * sensor'.bit + 14
                    <5>1. z <= charAt + b * w + 14
                        BY <4>1, <4>3, <4>5 DEF Due
                    <5>2. PICK x \in Int, y \in Int : x = charAt + b * w + 14
                              /\ y = (charAt + 10 * w + gap) - (10 - b) * w + 14
                        BY <2>1
                    <5>3. z <= y
                        BY <4>4, <5>1, <5>2
                    <5> QED
                        BY <2>1, <3>2, <4>1, <4>3, <4>5, <5>2, <5>3
                <4> QED
                    BY <3>3, <4>1, <4>2, <4>6 DEF Pending
            <3> QED
                BY <2>3, <2>4, <3>4, <3>5 DEF ReceiverInv
        <2>5. CASE edge' # 0
            <3>1. /\ edge' \in (edge + 1) .. 9 /\ sent' = sent /\ charAt' = charAt
                  /\ ~(High(frame, edge') <=> High(frame, edge' - 1))
                  /\ NoChange(frame, edge, edge' - 1)
                BY <1>9, <2>2, <2>5, SensorStep
            <3>2. AtChange'
                BY <1>9, <2>1, <2>2, <3>1, SensorStep DEF AtChange, Sending
            <3>3. \/ edge \in 0 .. 7 /\ Receiving(rx', edge, Due)
                  \/ edge \in 8 .. 9 /\ Waiting(rx')
                BY <1>9, <2>1, ChangeReceived
            <3>4. CASE edge \in 0 .. 7 /\ Receiving(rx', edge, Due)
                <4>0. edge \in 0 .. (edge' - 1) /\ edge <= 7
                    <5>1. \A b \in 0 .. 7 : \A n \in (b + 1) .. 9 : b \in 0 .. (n - 1) /\ b <= 7
                        OBVIOUS
                    <5> QED
                        BY <3>1, <3>4, <5>1, Zenon
                <4>1. /\ rx'.rxState = edge /\ edge \in 0 .. (edge' - 1) /\ edge <= 7
                      /\ Assembled(rx', frame, edge)
                      /\ Due <= rx'.prevBitTCNT /\ rx'.prevBitTCNT <= Due + 14
                    BY <2>2, <3>4, <4>0, Zenon DEF Receiving
                <4>2. InCharacter'
                    BY <2>1, <2>2, <3>1, <4>1 DEF InCharacter, Due
                <4> QED
                    BY <2>3, <2>5, <3>1, <3>2, <4>2 DEF ReceiverInv
            <3>5. CASE edge \in 8 .. 9 /\ Waiting(rx')
                <4>1. edge' = 9
                    BY <3>1, <3>5
                <4> QED
                    BY <3>2, <3>5, <4>1 DEF ReceiverInv
            <3> QED
                BY <3>3, <3>4, <3>5
        <2> QED
            BY <2>4, <2>5
    <1> QED
        BY <1>2, <1>3, <1>4, <1>5, <1>6, <1>7, <1>8, <1>9 DEF Next

LEMMA BeganType ==
    ASSUME Types
    PROVE  Began \in Int
    <1>1. PICK w \in Nat, c \in Nat : w = wake /\ c = counter
        BY DEF Types, counter
    <1>2. w - 24000 * c - 36000 \in Int /\ w - 24000 * c - 28000 \in Int
        OBVIOUS
    <1> QED
        BY <1>1, <1>2 DEF Began

LEMMA TimeNext ==
    ASSUME LineParameters
    PROVE  Types /\ StateInv /\ CleanInv /\ TimeInv /\ [Next]_vars => TimeInv'
    <1> SUFFICES ASSUME Types, StateInv, CleanInv, TimeInv, [Next]_vars, Listens'
                 PROVE  TimeInv'
        BY DEF TimeInv
    <1>a. /\ wake \in Nat /\ counter \in Nat /\ charAt \in Nat
          /\ sensor \in Sensors /\ sent \in Nat /\ edge \in 0 .. 9
        BY SensorFacts DEF Types, counter
    <1>1. ASSUME Listens, UNCHANGED <<sensor, sent, charAt>>, Began' = Began PROVE TimeInv'
        BY <1>1 DEF TimeInv
    <1>2. CASE UNCHANGED vars
        BY <1>1, <1>2 DEF vars, loop, line, Began, counter, Listens
    <1>3. CASE Request \/ SendCommand \/ EndOfReply
        BY <1>3, RequestStep, SendCommandStep, EndOfReplyStep DEF Listens, StateInv
    <1>4. CASE Listen
        <2>1. counter' = 0 /\ pc' = "available" /\ wake' = wake + 28000
            BY <1>4, ListenStep DEF CleanInv, counter
        <2>2. Began' = wake
            BY <1>a, <2>1 DEF Began
        <2>3. PICK s \in Sensors : sensor' = s /\ sent' = 0 /\ charAt' = wake + s.latency
            BY <1>4, ListenStep
        <2>4. s.latency \in Nat /\ (Conforming(s) => s.latency <= 15000)
            BY SensorFacts, ConformingFacts
        <2> QED
            BY <1>a, <2>2, <2>3, <2>4 DEF TimeInv
    <1>5. CASE Available
        <2>1. /\ pc = "available" /\ pc' = "read" /\ wake' = wake + 8000 /\ counter' = counter
              /\ UNCHANGED <<state, sensor, sent, charAt>>
            BY <1>5, AvailableStep DEF counter
        <2>2. Began' = Began
            BY <1>a, <2>1 DEF Began
        <2> QED
            BY <1>1, <2>1, <2>2 DEF Listens
    <1>6. CASE Read
        <2>1. /\ pc = "read" /\ pc' = "available" /\ wake' = wake + 16000
              /\ UNCHANGED <<state, sensor, sent, charAt>>
            BY <1>6, ReadStep DEF Listens
        <2>2. counter' = counter + 1
            BY <1>6, ReadStep DEF Types, counter
        <2>3. Began' = Began
            BY <1>a, <2>1, <2>2 DEF Began
        <2> QED
            BY <1>1, <2>1, <2>3 DEF Listens
    <1>7. CASE LineChange
        <2>1. /\ Listens /\ sensor' = sensor /\ Began' = Began
            BY <1>7, SensorStep DEF Listens, Began, counter
        <2>2. CASE edge' = 0
            <3>1. PICK gap \in sensor.gaps : charAt' = charAt + 10 * sensor.bit + gap
                BY <1>a, <1>7, <2>2, SensorStep
            <3>2. sent' = sent + 1
                BY <1>a, <1>7, <2>2, SensorStep
            <3>3. PICK w \in Nat, g \in Nat : w = sensor.bit /\ g = gap
                BY <1>a, SensorFacts
            <3>4. Conforming(sensor) => w <= 907 /\ g <= 1660
                BY <1>a, <3>3, ConformingFacts
            <3>5. Readable(sensor) => w >= 829
                BY <3>3 DEF Readable
            <3>6. PICK began \in Int : began = Began
                BY BeganType
            <3>7. /\ Readable(sensor) => began + 8290 * sent <= charAt
                  /\ Conforming(sensor) => charAt <= began + 15000 + 10730 * sent
                BY <2>1, <3>6 DEF TimeInv
            <3>8. /\ Readable(sensor) => began + 8290 * (sent + 1) <= charAt + 10 * w + g
                  /\ Conforming(sensor) => charAt + 10 * w + g <= began + 15000 + 10730 * (sent + 1)
                BY <1>a, <3>4, <3>5, <3>7
            <3>9. /\ Readable(sensor) => Began + 8290 * sent' <= charAt'
                  /\ Conforming(sensor) => charAt' <= Began + 15000 + 10730 * sent'
                BY <3>1, <3>2, <3>3, <3>6, <3>8
            <3> QED
                BY <2>1, <3>9 DEF TimeInv, Readable, Conforming
        <2>3. CASE edge' # 0
            <3>1. UNCHANGED <<sent, charAt>>
                BY <1>7, <2>3, SensorStep
            <3> QED
                BY <1>1, <2>1, <3>1
        <2> QED
            BY <2>2, <2>3
    <1> QED
        BY <1>2, <1>3, <1>4, <1>5, <1>6, <1>7 DEF Next

-----------------------------------------------------------------------------
LEMMA GotType ==
    ASSUME Types, ReceiverInv, Listens, Readable(sensor)
    PROVE  Got \in 0 .. Len(sensor.reply)
    <1>1. /\ sent \in 0 .. Len(sensor.reply) /\ Len(sensor.reply) \in Nat /\ edge \in 0 .. 9
        BY SensorFacts DEF Types
    <1>2. CASE edge = 0
        <2>1. Waiting(rx) \/ sent > 0
            BY <1>2 DEF ReceiverInv, Pending
        <2> QED
            BY <1>1, <1>2, <2>1 DEF Got
    <1>3. CASE edge > 0
        <2>1. sent < Len(sensor.reply)
            BY <1>3 DEF ReceiverInv, AtChange, Sending
        <2> QED
            BY <1>1, <1>3, <2>1 DEF Got
    <1> QED
        BY <1>1, <1>2, <1>3

\* A change of the line completes the next character, and not too early, or none.
LEMMA GotStep ==
    ASSUME LineParameters, ShortLatency, Types, ReceiverInv, TimeInv,
           Listens, Readable(sensor), LineChange
    PROVE  \/ ring' = ring /\ Got' = Got
           \/ /\ Got' = Got + 1 /\ Got + 1 <= Len(sensor.reply)
              /\ ring' = charToBuffer(ring, sensor.reply[Got + 1])
              /\ Began + 8290 * (Got + 1) <= wake + 1658
    <1>1. /\ sent \in 0 .. Len(sensor.reply) /\ Len(sensor.reply) \in Nat /\ edge \in 0 .. 9
          /\ charAt \in Nat /\ wake \in Nat /\ counter \in Nat /\ sensor.bit \in 829 .. 918
        BY SensorFacts DEF Types, Readable, counter
    <1>2. /\ \/ edge' \in (edge + 1) .. 9 /\ sent' = sent
             \/ edge' = 0 /\ sent' = sent + 1
          /\ sent + 1 <= Len(sensor.reply) /\ Due <= wake
        BY <1>1, SensorStep
    <1>3. PICK began \in Int : began = Began
        BY BeganType
    <1>4. began + 8290 * sent <= charAt
        BY <1>3 DEF TimeInv
    <1>8. PICK due \in Int, bit \in 829 .. 918 : due = Due /\ bit = sensor.bit
        <2>1. PICK w \in 829 .. 918 : w = sensor.bit
            BY <1>1
        <2>2. Due = charAt + edge * w
            BY <2>1 DEF Due
        <2>3. charAt + edge * w \in Int
            BY <1>1
        <2> QED
            BY <2>1, <2>2, <2>3
    <1>9. due <= wake
        BY <1>2, <1>8
    <1>10. edge = 0 => edge' # 0
        <2>1. ASSUME edge = 0, edge' = 0 PROVE FALSE
            <3>1. NoChange(WithParity(sensor.reply[sent + 1]), edge, 9)
                BY <1>1, <2>1, SensorStep
            <3>2. WithParity(sensor.reply[sent + 1]) \in Frames
                BY SensorStep, FrameOf
            <3> QED
                BY <1>1, <2>1, <3>1, <3>2, LastChange
        <2> QED
            BY <2>1
    <1>5. CASE edge = 0
        <2>1. edge' # 0 /\ sent' = sent
            BY <1>2, <1>5, <1>10
        <2>2. ~Waiting(rx') /\ Got' = sent
            BY <1>5, <2>1, ChangeReceived DEF Got, Receiving
        <2>3. CASE Waiting(rx)
            BY <1>5, <2>2, <2>3, ChangeReceived DEF Got
        <2>4. CASE ~Waiting(rx)
            <3>1. ring' = charToBuffer(ring, sensor.reply[sent]) /\ Got = sent - 1
                BY <1>5, <2>4, ChangeReceived DEF Got
            <3>2. (sent - 1) + 1 = sent
                BY <1>1
            <3>3. due = charAt
                <4>1. 0 * bit = 0
                    OBVIOUS
                <4> QED
                    BY <1>1, <1>5, <1>8, <4>1 DEF Due
            <3>4. began + 8290 * sent <= wake + 1658
                BY <1>1, <1>4, <1>9, <3>3
            <3> QED
                BY <1>1, <1>2, <1>3, <2>2, <3>1, <3>2, <3>4
        <2> QED
            BY <2>3, <2>4
    <1>6. CASE edge \in 1 .. 7
        <2>1. ~Waiting(rx) /\ ~Waiting(rx') /\ ring' = ring
            BY <1>6, ChangeReceived DEF Receiving
        <2>2. Got = sent
            BY <1>6, <2>1 DEF Got
        <2>3. Got' = sent
            <3>1. CASE edge' = 0
                <4>1. sent' = sent + 1 /\ (sent + 1) - 1 = sent
                    BY <1>1, <1>2, <3>1
                <4> QED
                    BY <2>1, <3>1, <4>1 DEF Got
            <3>2. CASE edge' # 0
                BY <1>2, <2>1, <3>2 DEF Got
            <3> QED
                BY <3>1, <3>2
        <2> QED
            BY <2>1, <2>2, <2>3
    <1>7. CASE edge \in 8 .. 9
        <2>1. Waiting(rx')
            BY <1>7, ChangeReceived
        <2>2. Got' = sent + 1
            <3>1. CASE edge' = 0
                BY <1>1, <1>2, <2>1, <3>1 DEF Got
            <3>2. CASE edge' # 0
                BY <1>2, <2>1, <3>2 DEF Got
            <3> QED
                BY <3>1, <3>2
        <2>3. CASE Waiting(rx)
            BY <1>7, <2>2, <2>3, ChangeReceived DEF Got
        <2>4. CASE ~Waiting(rx)
            <3>1. ring' = charToBuffer(ring, sensor.reply[sent + 1]) /\ Got = sent
                BY <1>7, <2>4, ChangeReceived DEF Got
            <3>2. due >= charAt + 6632
                <4>1. PICK b \in 8 .. 9 : b = edge
                    BY <1>7, ZenonT(40)
                <4>2. due = charAt + b * bit
                    BY <1>8, <4>1, Zenon DEF Due
                <4>3. b * bit >= 6632 /\ b * bit \in Int
                    <5>1. CASE b = 8
                        BY <5>1
                    <5>2. CASE b = 9
                        BY <5>2
                    <5> QED
                        BY <5>1, <5>2
                <4> QED
                    BY <1>1, <4>2, <4>3
            <3>3. began + 8290 * (sent + 1) <= wake + 1658
                BY <1>1, <1>4, <1>9, <3>2
            <3> QED
                BY <1>2, <1>3, <2>2, <3>1, <3>3
        <2> QED
            BY <2>3, <2>4
    <1> QED
        BY <1>1, <1>5, <1>6, <1>7

-----------------------------------------------------------------------------
LEMMA BeginsAppend ==
    ASSUME NEW S, NEW msg \in Seq(S), NEW c \in S, NEW reply,
           Begins(msg, reply), c = reply[Len(msg) + 1]
    PROVE  Begins(Append(msg, c), reply)
    <1> DEFINE longer == Append(msg, c)
    <1>1. Len(longer) = Len(msg) + 1 /\ longer[Len(msg) + 1] = c /\ Len(msg) \in Nat
        OBVIOUS
    <1>2. ASSUME NEW i \in 1 .. Len(msg) PROVE longer[i] = reply[i]
        BY <1>2 DEF Begins
    <1> HIDE DEF longer
    <1>3. \A i \in 1 .. Len(longer) : i \in 1 .. Len(msg) \/ i = Len(msg) + 1
        BY <1>1
    <1>4. Begins(longer, reply)
        BY <1>1, <1>2, <1>3 DEF Begins
    <1> QED
        BY <1>4 DEF longer

\* The loop reads one character while the sensor sends three at most, so of a reply
\* that fits into the message never more wait than the ring holds.
LEMMA RingNext ==
    ASSUME LineParameters, ShortLatency, 3 * max_msg_length + 10 <= 4 * SDI12_BUFFER_SIZE
    PROVE  Types /\ StateInv /\ CleanInv /\ ReceiverInv /\ TimeInv /\ RingInv /\ [Next]_vars
           => RingInv'
    <1> SUFFICES ASSUME Types, StateInv, CleanInv, ReceiverInv, TimeInv, RingInv, [Next]_vars,
                        Listens', Readable(sensor'), Fits'
                 PROVE  RingInv'
        BY DEF RingInv
    <1>a. /\ ring \in Ring /\ counter \in Nat /\ counter = Len(_msg_buf)
          /\ _msg_buf \in Seq(Characters \cup {MinusOne}) /\ sensor \in Sensors
          /\ SDI12_BUFFER_SIZE \in Nat \ {0, 1} /\ max_msg_length \in Nat \ {0}
        BY LineAssumption, ExchangeAssumption DEF Types, counter
    <1>b. ASSUME Listens, Readable(sensor), Fits
          PROVE  /\ counter <= Got /\ Holds(ring, sensor.reply, counter, Got)
                 /\ Begins(_msg_buf, sensor.reply) /\ (pc = "read" => counter < Got)
                 /\ Got \in Nat /\ Got <= Len(sensor.reply) /\ Len(sensor.reply) < max_msg_length
                 /\ Len(sensor.reply) \in Nat
        <2>1. Got \in 0 .. Len(sensor.reply) /\ Len(sensor.reply) \in Nat
            BY <1>a, <1>b, GotType, SensorFacts
        <2> QED
            BY <1>b, <2>1 DEF RingInv, Fits
    <1>1. CASE UNCHANGED vars
        BY <1>1, <1>b DEF vars, loop, line, RingInv, Got, counter, Listens, Fits
    <1>2. CASE Request \/ SendCommand \/ EndOfReply
        BY <1>2, RequestStep, SendCommandStep, EndOfReplyStep DEF Listens, StateInv
    <1>3. CASE Listen
        <2>1. /\ counter' = 0 /\ _msg_buf' = <<>> /\ ring' = ring /\ pc' = "available"
              /\ ring.head = 0 /\ ring.tail = 0 /\ ~ring.overflow
            BY <1>3, ListenStep DEF CleanInv, counter
        <2>2. edge' = 0 /\ sent' = 0 /\ Waiting(rx')
            BY <1>3, ListenStep, ListeningType DEF Types
        <2>3. Got' = 0
            BY <2>2 DEF Got
        <2>4. Holds(ring, sensor'.reply, 0, 0)
            BY <1>a, <2>1 DEF Holds, Slot
        <2>5. Begins(<<>>, sensor'.reply)
            BY DEF Begins
        <2> QED
            BY <2>1, <2>3, <2>4, <2>5 DEF RingInv
    <1>4. CASE Available
        <2>1. /\ UNCHANGED <<_msg_buf, state, rx, ring, sensor, sent, edge>> /\ available(ring)
              /\ counter' = counter
            BY <1>4, AvailableStep DEF counter
        <2>2. Listens /\ Readable(sensor) /\ Fits /\ Got' = Got
            BY <2>1 DEF Listens, Fits, Got
        <2>3. counter < Got
            BY <1>a, <1>b, <2>1, <2>2, RingWaits
        <2> QED
            BY <1>b, <2>1, <2>2, <2>3 DEF RingInv
    <1>5. CASE Read
        <2>1. /\ UNCHANGED <<state, rx, sensor, sent, edge>> /\ pc = "read" /\ pc' = "available"
              /\ ring' = read(ring) /\ _msg_buf' = Append(_msg_buf, peek(ring))
            BY <1>5, ReadStep DEF Listens
        <2>2. Listens /\ Readable(sensor) /\ Fits /\ Got' = Got
            BY <2>1 DEF Listens, Fits, Got
        <2>3. /\ counter < Got /\ Holds(ring, sensor.reply, counter, Got) /\ Got \in Nat
              /\ Begins(_msg_buf, sensor.reply)
            BY <1>b, <2>1, <2>2
        <2>4. peek(ring) = sensor.reply[counter + 1] /\ Holds(read(ring), sensor.reply, counter + 1, Got)
            BY <1>a, <2>3, RingGet
        <2>5. peek(ring) \in Characters \cup {MinusOne}
            BY <1>a, RingGetType
        <2>6. Begins(_msg_buf', sensor.reply)
            BY <1>a, <2>1, <2>3, <2>4, <2>5, BeginsAppend
        <2>7. counter' = counter + 1
            BY <1>a, <2>1, <2>5 DEF counter
        <2>8. counter + 1 <= Got
            BY <1>a, <2>3
        <2> QED
            BY <2>1, <2>2, <2>4, <2>6, <2>7, <2>8 DEF RingInv
    <1>6. CASE LineChange
        <2>1. UNCHANGED <<pc, wake, _msg_buf, state, sensor>> /\ counter' = counter
            BY <1>6, SensorStep DEF counter
        <2>2. Listens /\ Readable(sensor) /\ Fits
            BY <2>1 DEF Listens, Fits
        <2>3. /\ counter <= Got /\ Holds(ring, sensor.reply, counter, Got) /\ Got \in Nat
              /\ Begins(_msg_buf, sensor.reply) /\ (pc = "read" => counter < Got)
              /\ Len(sensor.reply) < max_msg_length /\ Len(sensor.reply) \in Nat
            BY <1>b, <2>2
        <2>4. CASE ring' = ring /\ Got' = Got
            BY <2>1, <2>3, <2>4 DEF RingInv
        <2>5. CASE /\ Got' = Got + 1 /\ Got + 1 <= Len(sensor.reply)
                   /\ ring' = charToBuffer(ring, sensor.reply[Got + 1])
                   /\ Began + 8290 * (Got + 1) <= wake + 1658
            <3>1. Got + 1 \in 1 .. Len(sensor.reply)
                BY <2>3, <2>5
            <3>2. sensor.reply[Got + 1] \in Characters
                BY <1>a, <3>1, ReplyCharacters
            <3>3. Got + 1 - counter <= SDI12_BUFFER_SIZE - 1
                <4>1. PICK began \in Int, t \in Nat : began = Began /\ t = wake
                    BY BeganType DEF Types
                <4>2. t <= began + 24000 * counter + 36000
                    <5>1. CASE pc = "read"
                        BY <1>a, <4>1, <5>1 DEF Began
                    <5>2. CASE pc # "read"
                        BY <1>a, <4>1, <5>2 DEF Began
                    <5> QED
                        BY <5>1, <5>2
                <4>3. PICK m \in Nat, n \in Nat : m = Got /\ n = counter
                    BY <1>a, <2>3
                <4>a. m + 1 <= Len(sensor.reply)
                    BY <2>5, <4>3
                <4>b. Len(sensor.reply) \in Nat /\ Len(sensor.reply) < max_msg_length
                    BY <2>3
                <4>c. began + 8290 * (m + 1) <= t + 1658
                    BY <2>5, <4>1, <4>3
                <4>d. t <= began + 24000 * n + 36000
                    BY <4>2, <4>3
                <4>4. m + 1 < max_msg_length
                    BY <1>a, <4>a, <4>b
                <4>5. m + 1 - n <= SDI12_BUFFER_SIZE - 1
                    BY <1>a, <4>4, <4>c, <4>d, SMT
                <4> QED
                    BY <4>3, <4>5
            <3>4. Holds(ring', sensor.reply, counter, Got + 1)
                <4>1. PICK c \in Characters : c = sensor.reply[Got + 1]
                    BY <3>2
                <4>2. Holds(charToBuffer(ring, c), sensor.reply, counter, Got + 1)
                    BY <1>a, <2>3, <3>3, <4>1, RingPut
                <4> QED
                    BY <2>5, <4>1, <4>2
            <3>5. counter <= Got + 1 /\ (pc = "read" => counter < Got + 1)
                BY <1>a, <2>3
            <3> QED
                BY <2>1, <2>3, <2>5, <3>4, <3>5 DEF RingInv
        <2> QED
            BY <1>6, <2>2, <2>4, <2>5, GotStep
    <1> QED
        BY <1>1, <1>2, <1>3, <1>4, <1>5, <1>6 DEF Next

-----------------------------------------------------------------------------
\* The frame of a line feed ends with bits that are 0.
LEMMA LineFeedFrame == 7 \notin WithParity(LineFeed)
    <1>1. LineFeed = {1} \cup {3} /\ 3 \notin {1}
        BY DEF LineFeed
    <1>2. Cardinality({1}) = 1 /\ IsFiniteSet({1})
        BY FS_Singleton
    <1>3. Cardinality({1} \cup {3}) = 2
        <2>1. {1} \cup {3} \in SUBSET Int
            OBVIOUS
        <2>2. Cardinality({1} \cup {3}) = Cardinality({1}) + 1
            BY <1>1, <1>2, FS_AddElement
        <2> QED
            BY <1>2, <2>2
    <1>4. parity_even_bit(LineFeed) = 0
        BY <1>1, <1>3 DEF parity_even_bit
    <1> QED
        BY <1>4 DEF WithParity, LineFeed

LEMMA ConformingFits ==
    ASSUME LineParameters, SDI12_BUFFER_SIZE < max_msg_length, Types, Conforming(sensor)
    PROVE  Readable(sensor) /\ Fits
    <1>1. sensor \in Sensors
        BY DEF Types
    <1>2. Len(sensor.reply) <= SDI12_BUFFER_SIZE /\ SDI12_BUFFER_SIZE \in Nat /\ max_msg_length \in Nat
          /\ Len(sensor.reply) \in Nat
        BY <1>1, ConformingFacts, SensorFacts, LineAssumption, ExchangeAssumption
    <1>3. Fits
        BY <1>2 DEF Fits
    <1> QED
        BY <1>1, <1>3, ConformingFacts

\* When the loop finds the ring empty, a conforming sensor has sent all of its
\* reply, and all of it is in the message.
LEMMA WholeReply ==
    ASSUME LineParameters, LineFeedLast, SDI12_BUFFER_SIZE < max_msg_length,
           Types, StateInv, ReceiverInv, TimeInv, RingInv,
           EndOfReply, Conforming(sensor)
    PROVE  ~Sending /\ counter = Len(sensor.reply)
    <1>1. /\ sensor \in Sensors /\ ring \in Ring /\ counter \in Nat
          /\ sent \in 0 .. Len(sensor.reply) /\ Len(sensor.reply) \in Nat
          /\ edge \in 0 .. 9 /\ charAt \in Nat /\ wake \in Nat
        BY SensorFacts DEF Types, counter
    <1>2. /\ Readable(sensor) /\ sensor.bit \in Nat /\ sensor.bit <= 907 /\ Fits
        BY <1>1, ConformingFits, ConformingFacts, SensorFacts
    <1>3. Listens /\ pc = "available" /\ ~available(ring) /\ (Sending => wake <= Due)
        BY EndOfReplyStep DEF StateInv
    <1>4. Got \in 0 .. Len(sensor.reply)
        BY <1>2, <1>3, GotType
    <1>5. Got = counter
        <2>1. counter <= Got /\ Holds(ring, sensor.reply, counter, Got)
            BY <1>2, <1>3 DEF RingInv
        <2>2. ~(counter < Got)
            BY <1>1, <1>3, <1>4, <2>1, RingWaits
        <2> QED
            BY <1>1, <1>4, <2>1, <2>2
    <1>6. PICK began \in Int : began = Began
        BY BeganType
    <1>7. wake = began + 24000 * counter + 28000
        BY <1>1, <1>3, <1>6 DEF Began
    <1>8. charAt <= began + 15000 + 10730 * sent
        BY <1>3, <1>6 DEF TimeInv
    <1>9. ~Sending
        <2> SUFFICES ASSUME Sending PROVE FALSE
            OBVIOUS
        <2>1. wake <= Due
            BY <1>3
        <2>2. CASE edge = 0
            <3>1. 0 * sensor.bit = 0
                BY <1>2
            <3>2. Due = charAt
                BY <1>1, <2>2, <3>1 DEF Due
            <3>3. sent <= counter + 1
                BY <1>1, <1>5, <2>2 DEF Got
            <3> QED
                BY <1>1, <1>7, <1>8, <2>1, <3>2, <3>3
        <2>3. CASE edge > 0
            <3>a. PICK w \in 0 .. 907 : w = sensor.bit
                BY <1>2
            <3>b. PICK b \in 1 .. 9 : b = edge
                BY <1>1, <2>3
            <3>2. Due = charAt + b * w
                BY <3>a, <3>b DEF Due
            <3>3. PICK x \in Nat : x = b * w /\ x <= 8163
                <4>1. b * w \in Nat /\ b * w <= 9 * w
                    OBVIOUS
                <4> QED
                    BY <4>1
            <3>4. sent <= counter
                BY <1>1, <1>5, <2>3 DEF Got
            <3> QED
                BY <1>1, <1>7, <1>8, <2>1, <3>2, <3>3, <3>4
        <2> QED
            BY <1>1, <2>2, <2>3
    <1>10. sent = Len(sensor.reply)
        BY <1>1, <1>9 DEF Sending
    <1>11. edge = 0
        <2>1. edge > 0 => AtChange
            BY <1>2, <1>3 DEF ReceiverInv
        <2> QED
            BY <1>1, <1>9, <2>1 DEF AtChange
    <1>12. Waiting(rx)
        <2>1. Waiting(rx) \/ Pending
            BY <1>2, <1>3, <1>11 DEF ReceiverInv
        <2>2. ASSUME Pending PROVE FALSE
            <3>1. rx.rxState \in 1 .. 7 /\ (rx.rxState - 1) .. 7 \subseteq WithParity(sensor.reply[sent])
                BY <2>2 DEF Pending
            <3>2. sensor.reply[sent] = LineFeed
                BY <1>1, <1>10 DEF LineFeedLast
            <3>3. 7 \in (rx.rxState - 1) .. 7
                BY <3>1
            <3> QED
                BY <3>1, <3>2, <3>3, LineFeedFrame
        <2> QED
            BY <2>1, <2>2
    <1> QED
        BY <1>5, <1>9, <1>10, <1>11, <1>12 DEF Got

\* The loop never ends because the message is full when the reply fits.
LEMMA NotFull ==
    ASSUME Types, StateInv, ReceiverInv, RingInv, Readable(sensor), Fits, Read
    PROVE  pc' = "available" /\ state' = state
    <1>1. pc = "read" /\ Listens
        BY ReadStep DEF StateInv
    <1>2. counter < Got
        BY <1>1 DEF RingInv
    <1>3. Got \in 0 .. Len(sensor.reply)
        BY <1>1, GotType
    <1>4. counter \in Nat /\ Len(sensor.reply) \in Nat /\ max_msg_length \in Nat
        BY SensorFacts, ExchangeAssumption DEF Types, counter
    <1>5. ~(counter + 1 >= max_msg_length)
        BY <1>2, <1>3, <1>4 DEF Fits
    <1> QED
        BY <1>5, ReadStep

LEMMA QuietNext ==
    ASSUME LineParameters, BufferSizes, LineFeedLast
    PROVE  LineInv /\ QuietInv /\ [Next]_vars => QuietInv'
    <1> SUFFICES ASSUME LineInv, QuietInv, [Next]_vars PROVE QuietInv'
        OBVIOUS
    <1> USE DEF LineInv
    <1>1. CASE UNCHANGED vars
        BY <1>1 DEF vars, loop, line, QuietInv, Sending
    <1>2. CASE Request
        BY <1>2, RequestStep DEF QuietInv, Sending
    <1>3. CASE SendCommand
        <2>1. ~Sending'
            BY <1>3, SendCommandStep, SensorFacts DEF Sending, Types
        <2> QED
            BY <2>1 DEF QuietInv
    <1>4. CASE Listen
        BY <1>4, ListenStep DEF QuietInv
    <1>5. CASE EndOfReply
        <2>1. Conforming(sensor) => ~Sending
            BY <1>5, WholeReply DEF BufferSizes
        <2> QED
            BY <1>5, <2>1, EndOfReplyStep DEF QuietInv, Sending
    <1>6. CASE Available
        BY <1>6, AvailableStep DEF QuietInv, Sending
    <1>7. CASE Read
        <2>1. UNCHANGED sensor /\ pc' # "listen"
            BY <1>7, ReadStep
        <2>2. ASSUME Conforming(sensor) PROVE state' # "HOLDING"
            <3>1. Readable(sensor) /\ Fits
                BY <2>2, ConformingFits DEF BufferSizes
            <3>2. state' = "LISTENING"
                BY <1>7, <3>1, NotFull, ReadStep DEF StateInv, Listens
            <3> QED
                BY <3>2
        <2> QED
            BY <2>1, <2>2 DEF QuietInv
    <1>8. CASE LineChange
        BY <1>8, SensorStep DEF QuietInv
    <1> QED
        BY <1>1, <1>2, <1>3, <1>4, <1>5, <1>6, <1>7, <1>8 DEF Next

LEMMA BeginsNext ==
    Types /\ StateInv /\ ReceiverInv /\ RingInv /\ BeginsInv /\ [Next]_vars => BeginsInv'
    <1> SUFFICES ASSUME Types, StateInv, ReceiverInv, RingInv, BeginsInv, [Next]_vars,
                        Returned', Readable(sensor'), Fits'
                 PROVE  BeginsInv'
        BY DEF BeginsInv
    <1>1. ASSUME UNCHANGED <<pc, requests, _msg_buf, sensor>> PROVE BeginsInv'
        BY <1>1 DEF BeginsInv, Returned, counter, Fits
    <1>2. CASE UNCHANGED vars
        BY <1>1, <1>2 DEF vars, loop, line
    <1>3. CASE Request \/ SendCommand \/ Listen \/ Available
        BY <1>3, RequestStep, SendCommandStep, ListenStep, AvailableStep DEF Returned
    <1>4. CASE EndOfReply
        <2>1. Listens /\ UNCHANGED <<_msg_buf, sensor>> /\ Readable(sensor) /\ Fits
            BY <1>4, EndOfReplyStep DEF StateInv, Fits
        <2>2. counter <= Got /\ Begins(_msg_buf, sensor.reply)
            BY <2>1 DEF RingInv
        <2>3. Got \in 0 .. Len(sensor.reply)
            BY <2>1, GotType
        <2>4. counter \in Nat /\ Len(sensor.reply) \in Nat
            BY SensorFacts DEF Types, counter
        <2>5. counter <= Len(sensor.reply)
            BY <2>2, <2>3, <2>4
        <2> QED
            BY <2>1, <2>2, <2>5 DEF BeginsInv, counter
    <1>5. CASE Read
        <2>1. pc' = "request" /\ sensor' = sensor /\ Readable(sensor) /\ Fits
            BY <1>5, ReadStep DEF Returned, Fits
        <2> QED
            BY <1>5, <2>1, NotFull
    <1>6. CASE LineChange
        BY <1>1, <1>6, SensorStep
    <1> QED
        BY <1>2, <1>3, <1>4, <1>5, <1>6 DEF Next

LEMMA WholeNext ==
    ASSUME LineParameters, BufferSizes, LineFeedLast
    PROVE  LineInv /\ WholeInv /\ [Next]_vars => WholeInv'
    <1> SUFFICES ASSUME LineInv, WholeInv, [Next]_vars, Returned', Conforming(sensor')
                 PROVE  WholeInv'
        BY DEF WholeInv
    <1> USE DEF LineInv
    <1>1. ASSUME UNCHANGED <<pc, requests, _msg_buf, sensor>> PROVE WholeInv'
        BY <1>1 DEF WholeInv, Returned, counter
    <1>2. CASE UNCHANGED vars
        BY <1>1, <1>2 DEF vars, loop, line
    <1>3. CASE Request \/ SendCommand \/ Listen \/ Available
        BY <1>3, RequestStep, SendCommandStep, ListenStep, AvailableStep DEF Returned
    <1>4. CASE EndOfReply
        <2>1. UNCHANGED <<_msg_buf, sensor>>
            BY <1>4, EndOfReplyStep
        <2>2. counter = Len(sensor.reply)
            BY <1>4, <2>1, WholeReply DEF BufferSizes
        <2> QED
            BY <2>1, <2>2 DEF WholeInv, counter
    <1>5. CASE Read
        <2>1. pc' = "request" /\ sensor' = sensor
            BY <1>5, ReadStep DEF Returned
        <2>2. Readable(sensor) /\ Fits
            BY <2>1, ConformingFits DEF BufferSizes
        <2> QED
            BY <1>5, <2>1, <2>2, NotFull
    <1>6. CASE LineChange
        BY <1>1, <1>6, SensorStep
    <1> QED
        BY <1>2, <1>3, <1>4, <1>5, <1>6 DEF Next

-----------------------------------------------------------------------------
LEMMA LineNext ==
    ASSUME LineParameters, ShortLatency, BufferSizes
    PROVE  LineInv /\ [Next]_vars => LineInv'
    BY TypesNext, StateNext, CleanNext, ReceiverNext, TimeNext, RingNext DEF LineInv, BufferSizes

\* The interrupt routine (receiveISR) is in step with the sensor after every change
\* of the line, and what charToBuffer stored is in the message or in the ring, in
\* order and without a loss.
THEOREM InStep ==
    ASSUME LineParameters, ShortLatency, BufferSizes
    PROVE  Spec => [](ReceiverInv /\ RingInv)
    <1>1. Init => LineInv
        BY ExchangeInit DEF ExchangeInv
    <1>2. LineInv /\ [Next]_vars => LineInv'
        BY LineNext
    <1>3. LineInv => ReceiverInv /\ RingInv
        BY DEF LineInv
    <1> QED
        BY <1>1, <1>2, <1>3, PTL DEF Spec

\* Where the bits of every sensor can be read, the fields of the receiver keep their
\* types, too: rxMask never leaves the byte, rxState never passes the stop bit.
THEOREM ExchangeTypeOK ==
    ASSUME LineParameters, ShortLatency, BufferSizes, \A s \in Sensors : Readable(s)
    PROVE  Spec => []TypeOK
    <1>1. Init => LineInv /\ rx \in Receiver
        BY ExchangeInit DEF ExchangeInv, Init, Receiver
    <1>2. LineInv /\ rx \in Receiver /\ [Next]_vars => (LineInv /\ rx \in Receiver)'
        <2> SUFFICES ASSUME LineInv, rx \in Receiver, [Next]_vars PROVE rx' \in Receiver
            BY LineNext
        <2>1. CASE LineChange
            <3>1. CASE Listens
                <4>1. Readable(sensor)
                    BY DEF LineInv, Types
                <4> QED
                    BY <2>1, <3>1, <4>1, ChangeReceived DEF LineInv
            <3>2. CASE ~Listens
                BY <2>1, <3>2 DEF LineChange
            <3> QED
                BY <3>1, <3>2
        <2>2. CASE Listen
            <3>1. \A r \in Receiver : Listening(r) \in Receiver
                BY DEF Listening, Receiver
            <3> QED
                BY <2>2, <3>1, ListenStep
        <2>3. CASE ~LineChange /\ ~Listen
            BY <2>3, RequestStep, SendCommandStep, EndOfReplyStep, AvailableStep, ReadStep
               DEF Next, vars
        <2> QED
            BY <2>1, <2>2, <2>3
    <1>3. LineInv /\ rx \in Receiver => TypeOK
        BY DEF LineInv, Types, StateInv, TypeOK
    <1> QED
        BY <1>1, <1>2, <1>3, PTL DEF Spec

LEMMA PrefixOf ==
    ASSUME NEW S, NEW msg \in Seq(S), NEW R, NEW reply \in Seq(R),
           Len(msg) <= Len(reply), Begins(msg, reply)
    PROVE  IsPrefix(msg, reply) /\ (Len(msg) = Len(reply) => msg = reply)
    <1>1. Len(msg) \in Nat /\ Len(reply) \in Nat
        OBVIOUS
    <1>2. \A i \in 1 .. Len(msg) : msg[i] = reply[i]
        BY DEF Begins
    <1>3. SubSeq(msg, 1, Len(msg)) = [i \in 1 .. Len(msg) |-> msg[i]]
        BY <1>1
    <1>4. SubSeq(reply, 1, Len(msg)) = [i \in 1 .. Len(msg) |-> reply[i]]
        BY <1>1
    <1>5. SubSeq(msg, 1, Len(msg)) = SubSeq(reply, 1, Len(msg))
        BY <1>2, <1>3, <1>4
    <1>6. Len(msg) = Len(reply) => msg = reply
        BY <1>1, <1>2
    <1> QED
        BY <1>5, <1>6 DEF IsPrefix

\* A message that requestAndReadData returns is the beginning of the reply to its own
\* request (OwnReply), however long the sensor takes to answer or between two
\* characters, where the bits of every sensor can be read.
THEOREM OwnReplyHolds ==
    ASSUME LineParameters, ShortLatency, BufferSizes, \A s \in Sensors : Readable(s)
    PROVE  Spec => []OwnReply
    <1>1. Init => LineInv /\ BeginsInv
        BY ExchangeInit DEF ExchangeInv
    <1>2. LineInv /\ BeginsInv /\ [Next]_vars => (LineInv /\ BeginsInv)'
        BY LineNext, BeginsNext DEF LineInv
    <1>3. LineInv /\ BeginsInv => OwnReply
        <2> SUFFICES ASSUME Types, BeginsInv, Returned, Fits PROVE IsPrefix(_msg_buf, sensor.reply)
            BY DEF LineInv, OwnReply, Fits
        <2>1. sensor \in Sensors /\ _msg_buf \in Seq(Characters \cup {MinusOne})
            BY DEF Types
        <2>2. Len(_msg_buf) <= Len(sensor.reply) /\ Begins(_msg_buf, sensor.reply)
            BY <2>1 DEF BeginsInv, counter
        <2> QED
            BY <2>1, <2>2, SensorFacts, PrefixOf
    <1> QED
        BY <1>1, <1>2, <1>3, PTL DEF Spec

LEMMA ExchangeNext ==
    ASSUME LineParameters, ShortLatency, BufferSizes, LineFeedLast
    PROVE  ExchangeInv /\ [Next]_vars => ExchangeInv'
    BY LineNext, BeginsNext, QuietNext, WholeNext DEF ExchangeInv, LineInv

\* The reply of a sensor that keeps to the standard and ends its replies with a line
\* feed is returned whole (ReplyWhole): the loop that waits for 27 ms without a
\* character never gives up too early, and the ring never overflows.
THEOREM ReplyWholeHolds ==
    ASSUME LineParameters, ShortLatency, BufferSizes, LineFeedLast
    PROVE  Spec => []ReplyWhole
    <1>1. Init => ExchangeInv
        BY ExchangeInit
    <1>2. ExchangeInv /\ [Next]_vars => ExchangeInv'
        BY ExchangeNext
    <1>3. ExchangeInv => ReplyWhole
        <2> SUFFICES ASSUME ExchangeInv, Returned, Conforming(sensor)
                     PROVE  _msg_buf = sensor.reply
            BY DEF ReplyWhole
        <2>1. Types /\ BeginsInv /\ WholeInv
            BY DEF ExchangeInv, LineInv
        <2>2. sensor \in Sensors /\ _msg_buf \in Seq(Characters \cup {MinusOne})
            BY <2>1 DEF Types
        <2>3. Readable(sensor) /\ Fits
            BY <2>1, ConformingFits DEF BufferSizes
        <2>4. Len(_msg_buf) = Len(sensor.reply) /\ Begins(_msg_buf, sensor.reply)
            BY <2>1, <2>3 DEF BeginsInv, WholeInv, counter
        <2> QED
            BY <2>2, <2>4, SensorFacts, PrefixOf
    <1> QED
        BY <1>1, <1>2, <1>3, PTL DEF Spec

\* And the driver does not go to HOLDING, where it drives the line, while such a
\* sensor is still sending (NotHeldWhileSending).
THEOREM NotHeldWhileSendingHolds ==
    ASSUME LineParameters, ShortLatency, BufferSizes, LineFeedLast
    PROVE  Spec => []NotHeldWhileSending
    <1>1. Init => ExchangeInv
        BY ExchangeInit
    <1>2. ExchangeInv /\ [Next]_vars => ExchangeInv'
        BY ExchangeNext
    <1>3. ExchangeInv => NotHeldWhileSending
        BY DEF ExchangeInv, QuietInv, NotHeldWhileSending
    <1> QED
        BY <1>1, <1>2, <1>3, PTL DEF Spec
=============================================================================
