----------------------------- MODULE ClockProofs -----------------------------
(***************************************************************************)
(* Proofs about time.  Class Every implements Metronome, for every width   *)
(* of the clock, every interval and every delay of the calls that leaves   *)
(* room for the interval in a word.  RTClib counts as the calendar does,   *)
(* for every date from 2000 to 2099, and so the data files of a sketch     *)
(* that are named after the DS3231 keep what earlier runs wrote.           *)
(***************************************************************************)
EXTENDS EveryTimer, DataFiles, TLAPS, FiniteSetTheorems, FunctionTheorems, WellFoundedInduction

\* Products keep the order of their first factors.
LEMMA ProductMonotone ==
    ASSUME NEW w \in Nat \ {0}, NEW p \in Int, NEW q \in Int, p < q
    PROVE  p * w + w <= q * w
    <1>1. PICK d \in Nat : q = p + 1 + d
        <2>1. q - p - 1 \in Nat /\ q = p + 1 + (q - p - 1)
            OBVIOUS
        <2> QED
            BY <2>1
    <1>2. q * w = p * w + w + d * w
        BY <1>1
    <1>3. d * w >= 0
        OBVIOUS
    <1>4. p * w \in Int /\ q * w \in Int /\ d * w \in Int
        OBVIOUS
    <1> QED
        BY <1>2, <1>3, <1>4

\* What the remainder of a division by w is.
LEMMA Remainder ==
    ASSUME NEW w \in Nat \ {0}, NEW n \in Int
    PROVE  /\ n % w \in 0 .. w - 1
           /\ \E q \in Int : n = q * w + (n % w)
    <1>1. n % w \in 0 .. w - 1
        OBVIOUS
    <1>2. (n \div w) \in Int /\ n = (n \div w) * w + (n % w)
        OBVIOUS
    <1> QED
        BY <1>1, <1>2

\* The remainder is the only one there is.
LEMMA RemainderUnique ==
    ASSUME NEW w \in Nat \ {0}, NEW q \in Int, NEW r \in 0 .. w - 1
    PROVE  (q * w + r) % w = r
    <1> DEFINE n == q * w + r
    <1>1. n \in Int /\ q * w \in Int
        OBVIOUS
    <1>2. PICK p \in Int : n = p * w + (n % w)
        BY <1>1, Remainder
    <1>3. n % w \in 0 .. w - 1 /\ p * w \in Int
        BY <1>1, Remainder
    <1>4. ~(p < q)
        BY <1>1, <1>2, <1>3, ProductMonotone
    <1>5. ~(q < p)
        BY <1>1, <1>2, <1>3, ProductMonotone
    <1>6. p = q
        BY <1>4, <1>5
    <1> QED
        BY <1>1, <1>2, <1>3, <1>6

\* ... of a sum or difference of two stamps.
LEMMA RemainderNear ==
    ASSUME NEW w \in Nat \ {0}, NEW n \in Int
    PROVE  /\ 0 <= n /\ n < w => n % w = n
           /\ -w <= n /\ n < 0 => n % w = n + w
           /\ w <= n /\ n < 2 * w => n % w = n - w
    <1>1. ASSUME 0 <= n, n < w
          PROVE  n % w = n
        <2>1. n \in 0 .. w - 1 /\ 0 * w + n = n
            BY <1>1
        <2> QED
            BY <2>1, RemainderUnique
    <1>2. ASSUME -w <= n, n < 0
          PROVE  n % w = n + w
        <2>1. n + w \in 0 .. w - 1 /\ (-1) * w + (n + w) = n
            BY <1>2
        <2>2. -1 \in Int
            OBVIOUS
        <2> QED
            BY <2>1, <2>2, RemainderUnique
    <1>3. ASSUME w <= n, n < 2 * w
          PROVE  n % w = n - w
        <2>1. n - w \in 0 .. w - 1 /\ 1 * w + (n - w) = n
            BY <1>3
        <2> QED
            BY <2>1, RemainderUnique
    <1> QED
        BY <1>1, <1>2, <1>3

\* The remainder of the next number.
LEMMA RemainderNext ==
    ASSUME NEW w \in Nat \ {0}, NEW n \in Nat
    PROVE  /\ (n + 1) % w = ((n % w) + 1) % w
           /\ n + 1 >= w <=> n >= w \/ (n % w) + 1 = w
    <1> n \in Int
        OBVIOUS
    <1>1. PICK q \in Int : n = q * w + (n % w)
        BY Remainder
    <1>2. n % w \in 0 .. w - 1 /\ q * w \in Int
        BY Remainder
    <1>3. CASE (n % w) + 1 < w
        <2>1. (n % w) + 1 \in 0 .. w - 1 /\ n + 1 = q * w + ((n % w) + 1)
            BY <1>1, <1>2, <1>3
        <2>2. (n + 1) % w = (n % w) + 1
            BY <2>1, RemainderUnique
        <2>3. ((n % w) + 1) % w = (n % w) + 1
            <3>1. 0 * w + ((n % w) + 1) = (n % w) + 1
                BY <1>2
            <3> QED
                BY <2>1, <3>1, RemainderUnique
        <2>4. n < w => n % w = n
            BY RemainderNear
        <2> QED
            BY <1>2, <1>3, <2>2, <2>3, <2>4
    <1>4. CASE (n % w) + 1 = w
        <2>1. n + 1 = (q + 1) * w + 0
            BY <1>1, <1>2, <1>4
        <2>2. (n + 1) % w = 0
            <3>1. 0 \in 0 .. w - 1 /\ q + 1 \in Int
                OBVIOUS
            <3> QED
                BY <2>1, <3>1, RemainderUnique
        <2>3. w % w = 0
            BY RemainderNear
        <2>4. n < w => n % w = n
            BY RemainderNear
        <2> QED
            BY <1>2, <1>4, <2>2, <2>3, <2>4
    <1> QED
        BY <1>2, <1>3, <1>4

-----------------------------------------------------------------------------
\* The inductive invariant.
Inv == TimerTypeOK /\ AgeBounded

\* The age as the unbounded integers see it.
LEMMA AgeCases ==
    ASSUME NEW n \in Stamps, NEW l \in Stamps
    PROVE  /\ Wrapped(n - l) = IF l <= n THEN n - l ELSE n - l + Word
           /\ Wrapped(n - l) \in Stamps
    <1>1. Word \in Nat \ {0} /\ n - l \in Int
        BY TimerAssumption DEF Stamps
    <1>2. /\ l <= n => 0 <= n - l /\ n - l < Word
          /\ n < l => -Word <= n - l /\ n - l < 0
        BY <1>1 DEF Stamps
    <1>3. CASE l <= n
        <2>1. (n - l) % Word = n - l
            BY <1>1, <1>2, <1>3, RemainderNear
        <2> QED
            BY <1>1, <1>2, <1>3, <2>1 DEF Wrapped, Stamps
    <1>4. CASE n < l
        <2>1. (n - l) % Word = n - l + Word
            BY <1>1, <1>2, <1>4, RemainderNear
        <2> QED
            BY <1>1, <1>2, <1>4, <2>1 DEF Wrapped, Stamps
    <1> QED
        BY <1>3, <1>4 DEF Stamps

\* A stamp d units ago makes the age d.
LEMMA AgeOfStamp ==
    ASSUME NEW n \in Stamps, NEW d \in Stamps
    PROVE  /\ Wrapped(n - d) \in Stamps
           /\ Wrapped(n - Wrapped(n - d)) = d
    <1>1. /\ Wrapped(n - d) = IF d <= n THEN n - d ELSE n - d + Word
          /\ Wrapped(n - d) \in Stamps
        BY AgeCases
    <1>2. Wrapped(n - Wrapped(n - d)) =
            IF Wrapped(n - d) <= n THEN n - Wrapped(n - d) ELSE n - Wrapped(n - d) + Word
        BY <1>1, AgeCases
    <1>3. Word \in Nat \ {0}
        BY TimerAssumption
    <1> QED
        BY <1>1, <1>2, <1>3 DEF Stamps

\* What each step does to the age.
LEMMA TickAge ==
    ASSUME Inv, Tick
    PROVE  Age' = Age + 1 /\ millis' \in Stamps
    <1>1. /\ Word \in Nat \ {0} /\ Interval \in Nat \ {0} /\ MaxPass \in Nat
          /\ Interval + MaxPass < Word
        BY TimerAssumption
    <1>2. /\ millis \in Stamps /\ last \in Stamps
          /\ sinceCall \in 0 .. MaxPass /\ sinceCall < MaxPass
        BY DEF Inv, TimerTypeOK, Tick
    <1>3. Age + 1 < Word
        <2>1. Age \in Stamps
            BY <1>2, AgeCases DEF Age
        <2> QED
            BY <1>1, <1>2, <2>1 DEF Inv, AgeBounded, Stamps
    <1>4. millis' = IF millis + 1 = Word THEN 0 ELSE millis + 1
        <2>1. millis + 1 \in Int /\ millis' = (millis + 1) % Word
            BY <1>2 DEF Tick, Wrapped, Stamps
        <2>2. CASE millis + 1 = Word
            <3>1. Word % Word = Word - Word
                BY <1>1, RemainderNear
            <3> QED
                BY <1>1, <2>1, <2>2, <3>1
        <2>3. CASE millis + 1 < Word
            BY <1>1, <1>2, <2>1, <2>3, RemainderNear DEF Stamps
        <2> QED
            BY <1>1, <1>2, <2>2, <2>3 DEF Stamps
    <1>5. millis' \in Stamps /\ last' \in Stamps /\ last' = last
        BY <1>1, <1>2, <1>4 DEF Tick, Stamps
    <1>6. Age = IF last <= millis THEN millis - last ELSE millis - last + Word
        BY <1>2, AgeCases DEF Age
    <1>7. Age' = IF last' <= millis' THEN millis' - last' ELSE millis' - last' + Word
        BY <1>5, AgeCases DEF Age
    <1> QED
        BY <1>1, <1>2, <1>3, <1>4, <1>5, <1>6, <1>7 DEF Stamps

LEMMA FireAge ==
    ASSUME Inv, Fire
    PROVE  Age' = Age % Interval /\ last' \in Stamps
    <1>1. /\ Word \in Nat \ {0} /\ Interval \in Nat \ {0} /\ MaxPass \in Nat
          /\ Interval + MaxPass < Word
        BY TimerAssumption
    <1>2. millis \in Stamps /\ last \in Stamps
        BY DEF Inv, TimerTypeOK
    <1>3. Age \in Int
        <2>1. Age \in Stamps
            BY <1>2, AgeCases DEF Age
        <2> QED
            BY <1>1, <2>1 DEF Stamps
    <1>4. Age % Interval \in 0 .. Interval - 1
        BY <1>1, <1>3, Remainder
    <1>5. Age % Interval \in Stamps
        BY <1>1, <1>4 DEF Stamps
    <1>6. millis' = millis /\ last' = Wrapped(millis - (Age % Interval))
        BY DEF Fire
    <1> QED
        BY <1>2, <1>5, <1>6, AgeOfStamp DEF Age

LEMMA ResetAge ==
    ASSUME Inv, Reset
    PROVE  Age' \in {0, Interval} /\ last' \in Stamps
    <1>1. /\ Word \in Nat \ {0} /\ Interval \in Nat \ {0} /\ MaxPass \in Nat
          /\ Interval + MaxPass < Word
        BY TimerAssumption
    <1>2. millis \in Stamps /\ millis' = millis
        BY DEF Inv, TimerTypeOK, Reset
    <1>3. CASE last' = millis
        BY <1>1, <1>2, <1>3, AgeCases DEF Age, Stamps
    <1>4. CASE last' = Wrapped(millis - Interval)
        <2>1. Interval \in Stamps
            BY <1>1 DEF Stamps
        <2> QED
            BY <1>2, <1>4, <2>1, AgeOfStamp DEF Age
    <1> QED
        BY <1>3, <1>4 DEF Reset

-----------------------------------------------------------------------------
\* The types and the bound on the age are an inductive invariant: MaxPass
\* bounds what an age can grow by between two calls.
LEMMA InvInit ==
    ASSUME TimerInit
    PROVE  Inv /\ Age = 0
    <1>1. /\ Word \in Nat \ {0} /\ Interval \in Nat \ {0} /\ MaxPass \in Nat
        BY TimerAssumption
    <1>2. TimerTypeOK
        <2>1. fired \in BOOLEAN
            BY DEF TimerInit
        <2>2. millis \in Stamps /\ last \in Stamps /\ sinceCall \in 0 .. MaxPass
            BY <1>1 DEF TimerInit
        <2> QED
            BY <2>1, <2>2 DEF TimerTypeOK
    <1>3. Age = 0
        <2>1. millis \in Stamps /\ last = millis /\ millis \in Int
            BY <1>1 DEF TimerInit, Stamps
        <2>2. Age = IF last <= millis THEN millis - last ELSE millis - last + Word
            BY <2>1, AgeCases DEF Age
        <2> QED
            BY <2>1, <2>2
    <1>4. AgeBounded
        BY <1>1, <1>3 DEF TimerInit, AgeBounded
    <1> QED
        BY <1>2, <1>3, <1>4 DEF Inv

LEMMA InvNext ==
    ASSUME Inv, [TimerNext]_timerVars
    PROVE  Inv'
    <1>1. /\ Word \in Nat \ {0} /\ Interval \in Nat \ {0} /\ MaxPass \in Nat
        BY TimerAssumption
    <1>2. /\ millis \in Stamps /\ last \in Stamps
          /\ fired \in BOOLEAN
          /\ sinceCall \in 0 .. MaxPass
        BY DEF Inv, TimerTypeOK
    <1>3. Age \in Nat /\ Age <= Interval + sinceCall
        <2>1. Age \in Stamps
            BY <1>2, AgeCases DEF Age
        <2> QED
            BY <1>1, <2>1 DEF Inv, AgeBounded, Stamps
    <1>4. CASE Tick
        <2>1. Age' = Age + 1 /\ millis' \in Stamps
            BY <1>4, TickAge
        <2>2. sinceCall' = sinceCall + 1 /\ sinceCall' \in 0 .. MaxPass
            BY <1>1, <1>2, <1>4 DEF Tick
        <2>3. TimerTypeOK'
            BY <1>2, <1>4, <2>1, <2>2 DEF Tick, TimerTypeOK
        <2>4. Age' <= Interval + sinceCall'
            BY <1>1, <1>2, <1>3, <2>1, <2>2
        <2> QED
            BY <2>3, <2>4 DEF Inv, AgeBounded
    <1>5. CASE NotYet
        <2>1. sinceCall' = 0 /\ sinceCall' \in 0 .. MaxPass /\ fired' = FALSE
            BY <1>1, <1>5 DEF NotYet
        <2>2. millis' = millis /\ last' = last /\ Age' = Age /\ Age < Interval
            BY <1>5 DEF NotYet, Age
        <2>3. TimerTypeOK'
            BY <1>2, <2>1, <2>2 DEF TimerTypeOK
        <2>4. Age' <= Interval + sinceCall'
            BY <1>1, <1>3, <2>1, <2>2
        <2> QED
            BY <2>3, <2>4 DEF Inv, AgeBounded
    <1>6. CASE Fire
        <2>1. sinceCall' = 0 /\ sinceCall' \in 0 .. MaxPass /\ fired' = TRUE /\ millis' = millis
            BY <1>1, <1>6 DEF Fire
        <2>2. Age' = Age % Interval /\ last' \in Stamps
            BY <1>6, FireAge
        <2>3. Age % Interval \in 0 .. Interval - 1
            BY <1>1, <1>3, Remainder
        <2>4. TimerTypeOK'
            BY <1>2, <2>1, <2>2 DEF TimerTypeOK
        <2>5. Age' <= Interval + sinceCall'
            BY <1>1, <2>1, <2>2, <2>3
        <2> QED
            BY <2>4, <2>5 DEF Inv, AgeBounded
    <1>7. CASE Reset
        <2>1. Age' \in {0, Interval} /\ last' \in Stamps
            BY <1>7, ResetAge
        <2>2. millis' = millis /\ fired' = fired /\ sinceCall' = sinceCall
            BY <1>7 DEF Reset
        <2>3. TimerTypeOK'
            BY <1>2, <2>1, <2>2 DEF TimerTypeOK
        <2>4. Age' <= Interval + sinceCall'
            BY <1>1, <1>2, <2>1, <2>2
        <2> QED
            BY <2>3, <2>4 DEF Inv, AgeBounded
    <1>8. CASE UNCHANGED timerVars
        <2>1. millis' = millis /\ last' = last /\ fired' = fired /\ sinceCall' = sinceCall
            BY <1>8 DEF timerVars
        <2> QED
            BY <2>1 DEF Inv, TimerTypeOK, AgeBounded, Age
    <1> QED
        BY <1>4, <1>5, <1>6, <1>7, <1>8 DEF TimerNext

\* The age of a timer called every MaxPass never wraps around, in a word of
\* any width that holds Interval + MaxPass.
THEOREM NeverWraps == TimerSpec => [](TimerTypeOK /\ AgeBounded)
    <1>1. TimerSpec => []Inv
        BY InvInit, InvNext, PTL DEF TimerSpec
    <1> QED
        BY <1>1, PTL DEF Inv

-----------------------------------------------------------------------------
\* The refinement: every step of the timer is a step of the metronome.
LEMMA StepRefines ==
    ASSUME Inv, [TimerNext]_timerVars
    PROVE  [M!Next]_(M!vars)
    <1>1. Interval \in Nat \ {0}
        BY TimerAssumption
    <1>2. Age \in Nat
        <2>1. Age \in Stamps
            BY AgeCases DEF Inv, TimerTypeOK, Age
        <2> QED
            BY TimerAssumption, <2>1 DEF Stamps
    <1>3. Age % Interval \in 0 .. Interval - 1
        BY <1>1, <1>2, Remainder
    <1>4. CASE Tick
        <2>1. Age' = Age + 1 /\ fired' = fired
            BY <1>4, TickAge DEF Tick
        <2>2. /\ (Age + 1) % Interval = ((Age % Interval) + 1) % Interval
              /\ Age + 1 >= Interval <=> Age >= Interval \/ (Age % Interval) + 1 = Interval
            BY <1>1, <1>2, RemainderNext
        <2>3. M!Beat
            BY <2>1, <2>2 DEF M!Beat
        <2> QED
            BY <2>3 DEF M!Next
    <1>5. CASE NotYet
        <2>1. Age' = Age /\ Age < Interval /\ fired' = FALSE
            BY <1>5 DEF NotYet, Age
        <2>2. (Age >= Interval) = FALSE
            BY <1>1, <1>2, <2>1
        <2>3. M!Call
            BY <2>1, <2>2, Zenon DEF M!Call
        <2> QED
            BY <2>3 DEF M!Next
    <1>6. CASE Fire
        <2>1. Age >= Interval /\ fired' = TRUE /\ Age' = Age % Interval
            BY <1>6, FireAge DEF Fire
        <2>2. (Age' >= Interval) = FALSE /\ (Age >= Interval) = TRUE
            BY <1>1, <1>2, <1>3, <2>1
        <2>3. Age' % Interval = Age % Interval
            <3>1. Age % Interval \in Int /\ 0 <= Age % Interval /\ Age % Interval < Interval
                BY <1>1, <1>3
            <3> QED
                BY <1>1, <2>1, <3>1, RemainderNear
        <2>4. M!Call
            BY <2>1, <2>2, <2>3, Zenon DEF M!Call
        <2> QED
            BY <2>4 DEF M!Next
    <1>7. CASE Reset
        <2>1. Age' \in {0, Interval} /\ fired' = fired
            BY <1>7, ResetAge DEF Reset
        <2>2. 0 % Interval = 0 /\ Interval % Interval = 0
            BY <1>1, RemainderNear
        <2>3. Age' % Interval = 0
            BY <2>1, <2>2
        <2>4. (Age' >= Interval) \in BOOLEAN
            OBVIOUS
        <2>5. M!Reset
            BY <2>1, <2>3, <2>4 DEF M!Reset
        <2> QED
            BY <2>5 DEF M!Next
    <1>8. CASE UNCHANGED timerVars
        BY <1>8 DEF timerVars, M!vars, Age
    <1> QED
        BY <1>4, <1>5, <1>6, <1>7, <1>8 DEF TimerNext

\* Class Every never drifts: whatever the delays of the calls, it answers the
\* beats of a fixed grid.
THEOREM EveryIsMetronome == TimerSpec => Metronomic
    <1>1. TimerInit => M!Init
        <2>1. SUFFICES ASSUME TimerInit PROVE M!Init
            OBVIOUS
        <2>2. Interval \in Nat \ {0} /\ Word \in Nat \ {0}
            BY TimerAssumption
        <2>3. Age = 0
            BY <2>1, InvInit
        <2>4. 0 % Interval = 0 /\ (0 >= Interval) = FALSE
            BY <2>2, RemainderNear
        <2>5. fired = FALSE
            BY <2>1 DEF TimerInit
        <2> QED
            BY <2>3, <2>4, <2>5, Zenon DEF M!Init
    <1>2. Inv /\ [TimerNext]_timerVars => [M!Next]_(M!vars)
        BY StepRefines
    <1>3. TimerSpec => []Inv
        BY InvInit, InvNext, PTL DEF TimerSpec
    <1> QED
        BY <1>1, <1>2, <1>3, PTL DEF TimerSpec, Metronomic, M!Spec
-----------------------------------------------------------------------------
\* Induction, as the existence of a smallest number.
LEMMA Smallest ==
    ASSUME NEW T, T \subseteq Nat, T # {}
    PROVE  \E n \in T : \A k \in T : n <= k
    <1>1. PICK n \in T : \A k \in T : ~(<<k, n>> \in OpToRel(<, Nat))
        BY NatLessThanWellFounded, WFMin, Zenon
    <1>2. \A k \in Nat, j \in Nat : k < j => <<k, j>> \in OpToRel(<, Nat)
        BY DEF OpToRel
    <1>3. \A k \in T : k \in Nat /\ n \in Nat /\ ~(k < n)
        BY <1>1, <1>2, Zenon
    <1>4. \A k \in T : n <= k
        BY <1>3
    <1> QED
        BY <1>4
-----------------------------------------------------------------------------
\* The calendar.  Dates that exist, and the days before them as date2days adds
\* them up: whole years, whole months, days.
Dates == {dt \in DateTimes : dt.d <= DaysOf(dt.yOff, dt.m)}
YearDays(y) == 365 * y + (y + 3) \div 4
MonthDays(y, m) == MonthsBefore[m] + (IF m > 2 THEN leap(y) ELSE 0)
Days(dt) == date2days(dt.yOff, dt.m, dt.d)

\* The days of the years 2000 to 2099, which date2days is made for.
Century == 36525

LEMMA CenturyType == Century \in Nat
    BY DEF Century

\* The sum that date2days computes in a loop.
LEMMA MonthsTable ==
    MonthsBefore =
        [m \in 1 .. 12 |-> <<0, 31, 59, 90, 120, 151, 181, 212, 243, 273, 304, 334>>[m]]
    <1> DEFINE Table == [m \in 1 .. 12 |-> <<0, 31, 59, 90, 120, 151, 181, 212, 243, 273, 304, 334>>[m]]
               Rec(g) == [m \in 1 .. 12 |-> IF m = 1 THEN 0 ELSE g[m - 1] + daysInMonth[m - 1]]
    <1>1. Table = Rec(Table)
        BY DEF daysInMonth
    <1>2. MonthsBefore = Rec(MonthsBefore)
        BY <1>1 DEF MonthsBefore
    <1> QED
        BY <1>2 DEF daysInMonth

LEMMA MonthTypes ==
    ASSUME NEW y \in Nat, NEW m \in 1 .. 12
    PROVE  MonthDays(y, m) \in Nat /\ DaysOf(y, m) \in 28 .. 31
    BY MonthsTable DEF MonthDays, DaysOf, leap

LEMMA MonthsAddUp ==
    ASSUME NEW y \in Nat, NEW m \in 1 .. 11
    PROVE  /\ MonthDays(y, m + 1) = MonthDays(y, m) + DaysOf(y, m)
           /\ DaysOf(y, m) = daysInMonth[m] + (IF m = 2 THEN leap(y) ELSE 0)
    BY MonthsTable DEF MonthDays, DaysOf, daysInMonth, leap

LEMMA YearsEnds ==
    ASSUME NEW y \in Nat
    PROVE  /\ MonthDays(y, 1) = 0 /\ DaysOf(y, 1) = 31
           /\ MonthDays(y, 12) = 334 + leap(y) /\ DaysOf(y, 12) = 31
    BY MonthsTable DEF MonthDays, DaysOf, leap

LEMMA YearsAddUp ==
    ASSUME NEW y \in Nat
    PROVE  /\ YearDays(y) \in Nat /\ leap(y) \in {0, 1}
           /\ YearDays(y + 1) = YearDays(y) + 365 + leap(y)
    BY DEF YearDays, leap

LEMMA YearsInOrder ==
    ASSUME NEW y \in Nat, NEW z \in Nat, y < z
    PROVE  YearDays(y + 1) <= YearDays(z)
    BY DEF YearDays

LEMMA MonthsInOrder ==
    ASSUME NEW y \in Nat, NEW m \in 1 .. 12, NEW n \in 1 .. 12, m < n
    PROVE  MonthDays(y, m) + DaysOf(y, m) <= MonthDays(y, n)
    BY MonthsTable DEF MonthDays, DaysOf, leap

LEMMA DateTypes ==
    ASSUME NEW dt \in Dates
    PROVE  /\ dt \in DateTimes /\ dt.yOff \in 0 .. 99 /\ dt.yOff \in Nat /\ dt.m \in 1 .. 12 /\ dt.d \in 1 .. 31
           /\ dt.hh \in 0 .. 23 /\ dt.mm \in 0 .. 59 /\ dt.ss \in 0 .. 59
    BY DEF Dates, DateTimes

\* Where a day lies in its month.
LEMMA DayOfMonth ==
    ASSUME NEW dt \in Dates
    PROVE  /\ Days(dt) = YearDays(dt.yOff) + MonthDays(dt.yOff, dt.m) + dt.d - 1
           /\ dt.d <= DaysOf(dt.yOff, dt.m)
           /\ DaysOf(dt.yOff, dt.m) \in Nat /\ MonthDays(dt.yOff, dt.m) \in Nat
           /\ YearDays(dt.yOff) \in Nat
           /\ Days(dt) \in Nat
    <1>1. dt.yOff \in Nat /\ dt.m \in 1 .. 12 /\ dt.d \in 1 .. 31
        BY DateTypes
    <1>2. /\ DaysOf(dt.yOff, dt.m) \in 28 .. 31 /\ MonthDays(dt.yOff, dt.m) \in Nat
          /\ YearDays(dt.yOff) \in Nat
        BY <1>1, MonthTypes, YearsAddUp, Zenon
    <1>3. Days(dt) = YearDays(dt.yOff) + MonthDays(dt.yOff, dt.m) + dt.d - 1
        <2>1. MonthsBefore[dt.m] \in Nat
            BY <1>1, MonthsTable
        <2> QED
            BY <1>1, <2>1 DEF Days, YearDays, MonthDays, date2days, leap
    <1>4. dt.d <= DaysOf(dt.yOff, dt.m)
        BY DEF Dates
    <1> QED
        BY <1>1, <1>2, <1>3, <1>4

\* Where it lies in its year.
LEMMA DayOfYear ==
    ASSUME NEW dt \in Dates
    PROVE  /\ YearDays(dt.yOff) <= Days(dt) /\ Days(dt) < YearDays(dt.yOff + 1)
           /\ YearDays(dt.yOff) \in Nat /\ YearDays(dt.yOff + 1) \in Nat
    <1> DEFINE y == dt.yOff
               m == dt.m
    <1>1. y \in Nat /\ y \in 0 .. 99 /\ m \in 1 .. 12 /\ dt.d \in 1 .. 31
        BY DateTypes
    <1>2. /\ YearDays(y) \in Nat /\ leap(y) \in {0, 1}
          /\ YearDays(y + 1) = YearDays(y) + 365 + leap(y)
        BY <1>1, YearsAddUp, Zenon
    <1>3. MonthDays(y, m) + DaysOf(y, m) <= 365 + leap(y)
        <2>1. 12 \in 1 .. 12
            OBVIOUS
        <2>2. MonthDays(y, 12) = 334 + leap(y) /\ DaysOf(y, 12) = 31
            BY <1>1, YearsEnds, Zenon
        <2>3. MonthDays(y, m) \in Nat /\ DaysOf(y, m) \in 28 .. 31
            BY <1>1, MonthTypes, Zenon
        <2>4. CASE m < 12
            <3>1. MonthDays(y, m) + DaysOf(y, m) <= MonthDays(y, 12)
                BY <1>1, <2>1, <2>4, MonthsInOrder, Zenon
            <3> QED
                BY <1>2, <2>2, <2>3, <3>1
        <2>5. CASE m = 12
            BY <1>2, <2>2, <2>5
        <2> QED
            BY <1>1, <2>4, <2>5
    <1>4. /\ Days(dt) = YearDays(y) + MonthDays(y, m) + dt.d - 1 /\ dt.d <= DaysOf(y, m)
          /\ DaysOf(y, m) \in Nat /\ MonthDays(y, m) \in Nat
        BY DayOfMonth, Zenon
    <1> HIDE DEF y, m
    <1>5. YearDays(y) <= Days(dt) /\ Days(dt) < YearDays(y + 1) /\ YearDays(y + 1) \in Nat
        BY <1>1, <1>2, <1>3, <1>4
    <1> QED
        BY <1>2, <1>5 DEF y

LEMMA DaysBounded ==
    ASSUME NEW dt \in Dates
    PROVE  Days(dt) \in 0 .. Century - 1
    <1>1. YearDays(dt.yOff + 1) <= Century
        <2>1. dt.yOff \in 0 .. 99
            BY DateTypes
        <2> QED
            BY <2>1 DEF YearDays, Century
    <1>2. Days(dt) < YearDays(dt.yOff + 1) /\ YearDays(dt.yOff + 1) \in Nat /\ Days(dt) \in Nat
        BY DayOfYear, DayOfMonth, Zenon
    <1> QED
        BY <1>1, <1>2, CenturyType

\* Days in the order of the calendar.
LEMMA DaysInOrder ==
    ASSUME NEW x \in Dates, NEW y \in Dates,
           \/ x.yOff < y.yOff
           \/ x.yOff = y.yOff /\ x.m < y.m
           \/ x.yOff = y.yOff /\ x.m = y.m /\ x.d < y.d
    PROVE  Days(x) < Days(y)
    <1>1. /\ x.yOff \in Nat /\ x.m \in 1 .. 12 /\ x.d \in 1 .. 31
          /\ y.yOff \in Nat /\ y.m \in 1 .. 12 /\ y.d \in 1 .. 31
        BY DateTypes
    <1>2. /\ Days(x) = YearDays(x.yOff) + MonthDays(x.yOff, x.m) + x.d - 1
          /\ x.d <= DaysOf(x.yOff, x.m) /\ DaysOf(x.yOff, x.m) \in Nat
          /\ YearDays(x.yOff) \in Nat /\ MonthDays(x.yOff, x.m) \in Nat
        BY DayOfMonth, Zenon
    <1>3. /\ Days(y) = YearDays(y.yOff) + MonthDays(y.yOff, y.m) + y.d - 1
          /\ YearDays(y.yOff) \in Nat /\ MonthDays(y.yOff, y.m) \in Nat
        BY DayOfMonth, Zenon
    <1>4. CASE x.yOff < y.yOff
        <2>1. YearDays(x.yOff + 1) <= YearDays(y.yOff)
            BY <1>1, <1>4, YearsInOrder, Zenon
        <2>2. Days(x) < YearDays(x.yOff + 1) /\ YearDays(x.yOff + 1) \in Nat /\ YearDays(y.yOff) <= Days(y)
            BY DayOfYear, Zenon
        <2>3. Days(x) \in Nat /\ Days(y) \in Nat
            BY DayOfMonth, Zenon
        <2> QED
            BY <1>3, <2>1, <2>2, <2>3
    <1>5. CASE x.yOff = y.yOff /\ x.m < y.m
        <2>1. MonthDays(x.yOff, x.m) + DaysOf(x.yOff, x.m) <= MonthDays(x.yOff, y.m)
            BY <1>1, <1>5, MonthsInOrder, Zenon
        <2> QED
            BY <1>1, <1>2, <1>3, <1>5, <2>1
    <1>6. CASE x.yOff = y.yOff /\ x.m = y.m /\ x.d < y.d
        BY <1>1, <1>2, <1>3, <1>6
    <1> QED
        BY <1>4, <1>5, <1>6

\* The chip counts day by day.
LEMMA NextDayCounts ==
    ASSUME NEW dt \in Dates, Days(dt) + 1 < Century
    PROVE  /\ NextDay(dt) \in Dates
           /\ Days(NextDay(dt)) = Days(dt) + 1
           /\ NextDay(dt).hh = dt.hh /\ NextDay(dt).mm = dt.mm /\ NextDay(dt).ss = dt.ss
    <1> DEFINE next == NextDay(dt)
    <1>1. PICK y \in 0 .. 99, m \in 1 .. 12, d \in 1 .. 31 : dt.yOff = y /\ dt.m = m /\ dt.d = d
        <2>1. dt.yOff \in 0 .. 99 /\ dt.m \in 1 .. 12 /\ dt.d \in 1 .. 31
            BY DateTypes, Zenon
        <2> QED
            BY <2>1, Zenon
    <1>2. /\ Days(dt) = YearDays(y) + MonthDays(y, m) + d - 1 /\ d <= DaysOf(y, m)
          /\ YearDays(y) \in Nat /\ MonthDays(y, m) \in Nat /\ DaysOf(y, m) \in Nat
        BY <1>1, DayOfMonth, Zenon
    <1>3. y \in Nat /\ dt \in DateTimes
        BY DEF Dates
    <1>4. CASE d < DaysOf(y, m)
        <2>1. next = [dt EXCEPT !.d = d + 1]
            BY <1>1, <1>4 DEF NextDay
        <2>2. DaysOf(y, m) \in 28 .. 31
            BY <1>3, MonthTypes, Zenon
        <2>3. /\ next \in DateTimes
              /\ next.yOff = y /\ next.m = m /\ next.d = d + 1
              /\ next.hh = dt.hh /\ next.mm = dt.mm /\ next.ss = dt.ss
            BY <1>1, <1>3, <1>4, <2>1, <2>2 DEF DateTimes
        <2> HIDE DEF next
        <2>4. next \in Dates
            BY <1>4, <2>2, <2>3 DEF Dates
        <2>5. Days(next) = YearDays(y) + MonthDays(y, m) + (d + 1) - 1
            BY <2>3, <2>4, DayOfMonth, Zenon
        <2> QED
            BY <1>2, <2>3, <2>4, <2>5 DEF next
    <1>5. CASE ~(d < DaysOf(y, m)) /\ m < 12
        <2>1. next = [dt EXCEPT !.d = 1, !.m = m + 1]
            BY <1>1, <1>5 DEF NextDay
        <2>2. m + 1 \in 1 .. 12 /\ 1 \in 1 .. 31
            BY <1>5
        <2>3. /\ next \in DateTimes
              /\ next.yOff = y /\ next.m = m + 1 /\ next.d = 1
              /\ next.hh = dt.hh /\ next.mm = dt.mm /\ next.ss = dt.ss
            <3>1. next = [yOff |-> y, m |-> m + 1, d |-> 1, hh |-> dt.hh, mm |-> dt.mm, ss |-> dt.ss]
                BY <1>1, <1>3, <2>1 DEF DateTimes
            <3>2. dt.hh \in 0 .. 23 /\ dt.mm \in 0 .. 59 /\ dt.ss \in 0 .. 59
                BY DateTypes
            <3> HIDE DEF next
            <3> QED
                BY <2>2, <3>1, <3>2 DEF DateTimes
        <2> HIDE DEF next
        <2>4. DaysOf(y, m + 1) \in 28 .. 31
            BY <1>3, <2>2, MonthTypes, Zenon
        <2>5. next \in Dates
            BY <2>3, <2>4 DEF Dates
        <2>6. MonthDays(y, m + 1) = MonthDays(y, m) + DaysOf(y, m)
            <3>1. m \in 1 .. 11
                BY <1>5
            <3> QED
                BY <1>3, <3>1, MonthsAddUp, Zenon
        <2>7. Days(next) = YearDays(y) + MonthDays(y, m + 1) + 1 - 1
            BY <2>3, <2>5, DayOfMonth, Zenon
        <2> QED
            BY <1>2, <1>5, <2>3, <2>5, <2>6, <2>7 DEF next
    <1>6. CASE ~(d < DaysOf(y, m)) /\ m = 12
        <2>1. MonthDays(y, m) = 334 + leap(y) /\ DaysOf(y, m) = 31
            BY <1>3, <1>6, YearsEnds, Zenon
        <2>2. /\ YearDays(y + 1) = YearDays(y) + 365 + leap(y)
              /\ leap(y) \in {0, 1}
            BY <1>3, YearsAddUp, Zenon
        <2>3. Days(dt) = YearDays(y + 1) - 1
            BY <1>2, <1>6, <2>1, <2>2
        <2>4. y < 99
            BY <2>3 DEF YearDays, Century
        <2>5. (y + 1) % 100 = y + 1 /\ y + 1 \in 0 .. 99 /\ 1 \in 1 .. 12 /\ 1 \in 1 .. 31
            BY <2>4
        <2>6. next = [dt EXCEPT !.d = 1, !.m = 1, !.yOff = (@ + 1) % 100]
            BY <1>1, <1>6 DEF NextDay
        <2>7. /\ next \in DateTimes
              /\ next.yOff = y + 1 /\ next.m = 1 /\ next.d = 1
              /\ next.hh = dt.hh /\ next.mm = dt.mm /\ next.ss = dt.ss
            <3>1. next = [yOff |-> y + 1, m |-> 1, d |-> 1, hh |-> dt.hh, mm |-> dt.mm, ss |-> dt.ss]
                BY <1>1, <1>3, <2>5, <2>6 DEF DateTimes
            <3>2. dt.hh \in 0 .. 23 /\ dt.mm \in 0 .. 59 /\ dt.ss \in 0 .. 59
                BY DateTypes
            <3> HIDE DEF next
            <3> QED
                BY <2>5, <3>1, <3>2 DEF DateTimes
        <2> HIDE DEF next
        <2>8. y + 1 \in Nat
            OBVIOUS
        <2>9. DaysOf(y + 1, 1) = 31 /\ MonthDays(y + 1, 1) = 0 /\ YearDays(y + 1) \in Nat
            BY <2>8, YearsEnds, YearsAddUp, ZenonT(40)
        <2>10. next \in Dates
            BY <2>7, <2>9 DEF Dates
        <2>11. Days(next) = YearDays(y + 1) + MonthDays(y + 1, 1) + 1 - 1
            BY <2>7, <2>10, DayOfMonth, Zenon
        <2> QED
            BY <2>3, <2>7, <2>9, <2>10, <2>11 DEF next
    <1> QED
        BY <1>4, <1>5, <1>6
-----------------------------------------------------------------------------
\* The loop over the years in DateTime(uint32_t).
InYear(n, y) == YearDays(y) <= n /\ n < YearDays(y + 1)

LEMMA YearExists ==
    ASSUME NEW n \in Nat
    PROVE  \E y \in Nat : InYear(n, y)
    <1> DEFINE c == n \div 1461
               r == n % 1461
    <1>1. c \in Nat /\ r \in 0 .. 1460 /\ n = 1461 * c + r
        OBVIOUS
    <1> HIDE DEF c, r
    <1>2. CASE r < 366
        <2>1. 4 * c \in Nat /\ InYear(n, 4 * c)
            BY <1>1, <1>2 DEF InYear, YearDays
        <2> QED
            BY <2>1
    <1>3. CASE ~(r < 366)
        <2>1. PICK k \in 1 .. 3 : 366 + 365 * (k - 1) <= r /\ r < 366 + 365 * k
            <3>1. r < 366 + 365 \/ (366 + 365 <= r /\ r < 366 + 2 * 365) \/ 366 + 2 * 365 <= r
                BY <1>1
            <3> QED
                BY <1>1, <1>3, <3>1
        <2>2. 4 * c + k \in Nat /\ InYear(n, 4 * c + k)
            BY <1>1, <2>1 DEF InYear, YearDays
        <2> QED
            BY <2>2
    <1> QED
        BY <1>2, <1>3

LEMMA YearUnique ==
    ASSUME NEW n \in Nat, NEW y \in Nat, NEW z \in Nat, InYear(n, y), InYear(n, z)
    PROVE  y = z
    <1>1. ~(y < z) /\ ~(z < y)
        BY DEF InYear, YearDays
    <1> QED
        BY <1>1

\* One turn of the loop, and a function that it leaves as it is.
YearTurn(g) ==
    [at \in Nat \X Nat |->
        IF at[2] < 365 + leap(at[1]) THEN at
        ELSE g[<<at[1] + 1, at[2] - (365 + leap(at[1]))>>]]
YearOf(n) == CHOOSE y \in Nat : InYear(n, y)
YearFound(n) == <<YearOf(n), n - YearDays(YearOf(n))>>

LEMMA YearLoopTurns == YearLoop = YearTurn(YearLoop)
    <1> DEFINE found == [at \in Nat \X Nat |-> YearFound(YearDays(at[1]) + at[2])]
    <1>1. found = YearTurn(found)
        <2>1. ASSUME NEW at \in Nat \X Nat
              PROVE  found[at] = YearTurn(found)[at]
            <3>1. PICK y \in Nat, d \in Nat : at = <<y, d>>
                OBVIOUS
            <3>2. /\ YearDays(y) \in Nat /\ leap(y) \in {0, 1}
                  /\ YearDays(y + 1) = YearDays(y) + 365 + leap(y)
                BY YearsAddUp, Zenon
            <3>3. found[at] = YearFound(YearDays(y) + d)
                BY <3>1
            <3>4. CASE d < 365 + leap(y)
                <4>1. YearDays(y) + d \in Nat /\ InYear(YearDays(y) + d, y)
                    BY <3>2, <3>4 DEF InYear
                <4>2. YearOf(YearDays(y) + d) = y
                    BY <4>1, YearUnique DEF YearOf
                <4>3. YearFound(YearDays(y) + d) = <<y, d>>
                    BY <3>2, <4>2 DEF YearFound
                <4> QED
                    BY <3>1, <3>3, <3>4, <4>3 DEF YearTurn
            <3>5. CASE ~(d < 365 + leap(y))
                <4> DEFINE rest == d - (365 + leap(y))
                <4>1. rest \in Nat /\ YearDays(y + 1) + rest = YearDays(y) + d
                    BY <3>2, <3>5
                <4>2. <<y + 1, rest>> \in Nat \X Nat
                    BY <4>1
                <4>3. found[<<y + 1, rest>>] = YearFound(YearDays(y + 1) + rest)
                    BY <4>2
                <4>4. YearTurn(found)[at] = found[<<y + 1, rest>>]
                    BY <3>1, <3>5 DEF YearTurn
                <4> HIDE DEF found, rest
                <4> QED
                    BY <3>3, <4>1, <4>3, <4>4
            <3> QED
                BY <3>4, <3>5
        <2>2. found = [at \in Nat \X Nat |-> found[at]]
            OBVIOUS
        <2>3. YearTurn(found) = [at \in Nat \X Nat |-> YearTurn(found)[at]]
            BY DEF YearTurn
        <2> HIDE DEF found
        <2> QED
            BY <2>1, <2>2, <2>3
    <1>2. YearLoop = CHOOSE g : g = YearTurn(g)
        BY DEF YearLoop, YearTurn
    <1> QED
        BY <1>1, <1>2

LEMMA YearLoopStep ==
    ASSUME NEW y \in Nat, NEW d \in Nat
    PROVE  YearLoop[<<y, d>>] =
               IF d < 365 + leap(y) THEN <<y, d>>
               ELSE YearLoop[<<y + 1, d - (365 + leap(y))>>]
    <1>1. YearLoop[<<y, d>>] = YearTurn(YearLoop)[<<y, d>>]
        BY YearLoopTurns, Zenon
    <1> QED
        BY <1>1 DEF YearTurn

\* It ends in the year of the day.
LEMMA YearLoopFinds ==
    ASSUME NEW n \in Nat, NEW z \in Nat, InYear(n, z)
    PROVE  YearLoop[<<0, n>>] = <<z, n - YearDays(z)>>
    <1> DEFINE From(k) == YearLoop[<<z - k, n - YearDays(z - k)>>]
               T == {k \in 0 .. z : From(k) # <<z, n - YearDays(z)>>}
    <1>1. YearDays(z) \in Nat /\ leap(z) \in {0, 1} /\ YearDays(z + 1) = YearDays(z) + 365 + leap(z)
        BY YearsAddUp, Zenon
    <1>2. 0 \notin T
        <2> DEFINE d == n - YearDays(z)
        <2>1. d \in Nat /\ d < 365 + leap(z) /\ z - 0 = z
            BY <1>1 DEF InYear
        <2> HIDE DEF d
        <2>2. YearLoop[<<z, d>>] = <<z, d>>
            BY <2>1, YearLoopStep, ZenonT(40)
        <2> QED
            BY <2>1, <2>2 DEF d
    <1>3. ASSUME NEW k \in T, k - 1 \in 0 .. z, k - 1 \notin T
          PROVE  FALSE
        <2> DEFINE y == z - k
                   d == n - YearDays(y)
        <2>1. k \in 1 .. z /\ y \in Nat /\ y < z /\ y + 1 = z - (k - 1)
            BY <1>3
        <2>2. YearDays(y) \in Nat /\ leap(y) \in {0, 1} /\ YearDays(y + 1) = YearDays(y) + 365 + leap(y)
            BY <2>1, YearsAddUp, Zenon
        <2>3. YearDays(y + 1) <= YearDays(z)
            BY <2>1, YearsInOrder, Zenon
        <2>4. /\ d \in Nat /\ ~(d < 365 + leap(y))
              /\ d - (365 + leap(y)) = n - YearDays(y + 1)
            BY <1>1, <2>2, <2>3 DEF InYear
        <2>5. From(k - 1) = <<z, n - YearDays(z)>>
            BY <1>3
        <2> HIDE DEF d
        <2>6. YearLoop[<<y, d>>] = YearLoop[<<y + 1, n - YearDays(y + 1)>>]
            BY <2>1, <2>4, YearLoopStep
        <2>7. From(k) = From(k - 1)
            BY <2>1, <2>6 DEF d
        <2> QED
            BY <1>3, <2>5, <2>7
    <1>4. T = {}
        <2>1. T \subseteq Nat
            OBVIOUS
        <2>2. ASSUME T # {} PROVE FALSE
            <3> HIDE DEF T
            <3>1. PICK k \in T : \A j \in T : k <= j
                BY <2>1, <2>2, Smallest, Zenon
            <3>2. k \in 0 .. z /\ k # 0
                BY <1>2, <3>1 DEF T
            <3>3. k - 1 \in 0 .. z /\ k - 1 \notin T
                BY <3>1, <3>2
            <3> QED
                BY <1>3, <3>3
        <2> QED
            BY <2>2
    <1>5. From(z) = <<z, n - YearDays(z)>>
        BY <1>4
    <1>6. z - z = 0 /\ YearDays(0) = 0
        BY DEF YearDays
    <1> QED
        BY <1>5, <1>6

-----------------------------------------------------------------------------
\* The loop over the months, from day n of a year on.
LeapMonthDays(leapDay, m) == MonthsBefore[m] + (IF m > 2 THEN leapDay ELSE 0)
LengthOf(leapDay, m) == daysInMonth[m] + (IF m = 2 THEN leapDay ELSE 0)
InMonth(leapDay, n, m) ==
    LeapMonthDays(leapDay, m) <= n /\ (m = 12 \/ n < LeapMonthDays(leapDay, m) + LengthOf(leapDay, m))

LEMMA MonthStep ==
    ASSUME NEW leapDay \in {0, 1}, NEW m \in 1 .. 11
    PROVE  /\ LengthOf(leapDay, m) \in Nat /\ LeapMonthDays(leapDay, m) \in Nat
           /\ LeapMonthDays(leapDay, m + 1) = LeapMonthDays(leapDay, m) + LengthOf(leapDay, m)
    BY MonthsTable DEF LeapMonthDays, LengthOf, daysInMonth

LEMMA LeapMonthType ==
    ASSUME NEW leapDay \in {0, 1}, NEW m \in 1 .. 12
    PROVE  LeapMonthDays(leapDay, m) \in Nat
    BY MonthsTable DEF LeapMonthDays

LEMMA LeapMonthsInOrder ==
    ASSUME NEW leapDay \in {0, 1}, NEW m \in 1 .. 11, NEW n \in 1 .. 12, m < n
    PROVE  LeapMonthDays(leapDay, m) + LengthOf(leapDay, m) <= LeapMonthDays(leapDay, n)
    BY MonthsTable DEF LeapMonthDays, LengthOf, daysInMonth

LEMMA MonthUnique ==
    ASSUME NEW leapDay \in {0, 1}, NEW n \in Nat, NEW m \in 1 .. 12, NEW k \in 1 .. 12,
           InMonth(leapDay, n, m), InMonth(leapDay, n, k)
    PROVE  m = k
    <1>1. ASSUME NEW i \in 1 .. 12, NEW j \in 1 .. 12, InMonth(leapDay, n, i), InMonth(leapDay, n, j), i < j
          PROVE  FALSE
        <2>1. i \in 1 .. 11
            BY <1>1
        <2>2. LeapMonthDays(leapDay, i) + LengthOf(leapDay, i) <= LeapMonthDays(leapDay, j)
            BY <1>1, <2>1, LeapMonthsInOrder
        <2>3. LeapMonthDays(leapDay, i) \in Nat /\ LengthOf(leapDay, i) \in Nat /\ LeapMonthDays(leapDay, j) \in Nat
            BY <2>1, MonthStep, LeapMonthType
        <2> QED
            BY <1>1, <2>1, <2>2, <2>3 DEF InMonth
    <1>2. ~(m < k) /\ ~(k < m)
        BY <1>1
    <1> QED
        BY <1>2

MonthTurn(g) ==
    [at \in (1 .. 12) \X {0, 1} \X Nat |->
        IF at[1] = 12 \/ at[3] < LengthOf(at[2], at[1]) THEN at
        ELSE g[<<at[1] + 1, at[2], at[3] - LengthOf(at[2], at[1])>>]]
MonthOf(leapDay, n) == CHOOSE m \in 1 .. 12 : InMonth(leapDay, n, m)
MonthFound(leapDay, n) ==
    <<MonthOf(leapDay, n), leapDay, n - LeapMonthDays(leapDay, MonthOf(leapDay, n))>>

LEMMA MonthLoopTurns == MonthLoop = MonthTurn(MonthLoop)
    <1> DEFINE found == [at \in (1 .. 12) \X {0, 1} \X Nat |->
                            MonthFound(at[2], LeapMonthDays(at[2], at[1]) + at[3])]
    <1>1. found = MonthTurn(found)
        <2>1. ASSUME NEW at \in (1 .. 12) \X {0, 1} \X Nat
              PROVE  found[at] = MonthTurn(found)[at]
            <3>1. PICK m \in 1 .. 12, leapDay \in {0, 1}, d \in Nat : at = <<m, leapDay, d>>
                OBVIOUS
            <3>2. LeapMonthDays(leapDay, m) \in Nat
                BY LeapMonthType
            <3>3. found[at] = MonthFound(leapDay, LeapMonthDays(leapDay, m) + d)
                BY <3>1
            <3>4. CASE m = 12 \/ d < LengthOf(leapDay, m)
                <4>1. /\ LeapMonthDays(leapDay, m) + d \in Nat
                      /\ InMonth(leapDay, LeapMonthDays(leapDay, m) + d, m)
                    <5>1. m # 12 => LengthOf(leapDay, m) \in Nat
                        BY MonthStep
                    <5> QED
                        BY <3>2, <3>4, <5>1 DEF InMonth
                <4>2. MonthOf(leapDay, LeapMonthDays(leapDay, m) + d) = m
                    BY <4>1, MonthUnique DEF MonthOf
                <4>3. MonthFound(leapDay, LeapMonthDays(leapDay, m) + d) = <<m, leapDay, d>>
                    BY <3>2, <4>2 DEF MonthFound
                <4> QED
                    BY <3>1, <3>3, <3>4, <4>3 DEF MonthTurn
            <3>5. CASE ~(m = 12 \/ d < LengthOf(leapDay, m))
                <4> DEFINE rest == d - LengthOf(leapDay, m)
                <4>1. m \in 1 .. 11
                    BY <3>5
                <4>2. /\ LengthOf(leapDay, m) \in Nat
                      /\ LeapMonthDays(leapDay, m + 1) = LeapMonthDays(leapDay, m) + LengthOf(leapDay, m)
                    BY <4>1, MonthStep
                <4>3. rest \in Nat /\ LeapMonthDays(leapDay, m + 1) + rest = LeapMonthDays(leapDay, m) + d
                    BY <3>2, <3>5, <4>2
                <4>4. <<m + 1, leapDay, rest>> \in (1 .. 12) \X {0, 1} \X Nat
                    BY <4>1, <4>3
                <4>5. found[<<m + 1, leapDay, rest>>] = MonthFound(leapDay, LeapMonthDays(leapDay, m + 1) + rest)
                    BY <4>4
                <4>6. MonthTurn(found)[at] = found[<<m + 1, leapDay, rest>>]
                    BY <3>1, <3>5 DEF MonthTurn
                <4> HIDE DEF found, rest
                <4> QED
                    BY <3>3, <4>3, <4>5, <4>6
            <3> QED
                BY <3>4, <3>5
        <2>2. found = [at \in (1 .. 12) \X {0, 1} \X Nat |-> found[at]]
            OBVIOUS
        <2>3. MonthTurn(found) = [at \in (1 .. 12) \X {0, 1} \X Nat |-> MonthTurn(found)[at]]
            BY DEF MonthTurn
        <2> HIDE DEF found
        <2> QED
            BY <2>1, <2>2, <2>3
    <1>2. MonthLoop = CHOOSE g : g = MonthTurn(g)
        BY DEF MonthLoop, MonthTurn, LengthOf
    <1> QED
        BY <1>1, <1>2

LEMMA MonthLoopStep ==
    ASSUME NEW m \in 1 .. 12, NEW leapDay \in {0, 1}, NEW d \in Nat
    PROVE  MonthLoop[<<m, leapDay, d>>] =
               IF m = 12 \/ d < LengthOf(leapDay, m) THEN <<m, leapDay, d>>
               ELSE MonthLoop[<<m + 1, leapDay, d - LengthOf(leapDay, m)>>]
    <1>1. MonthLoop[<<m, leapDay, d>>] = MonthTurn(MonthLoop)[<<m, leapDay, d>>]
        BY MonthLoopTurns, Zenon
    <1> QED
        BY <1>1 DEF MonthTurn

LEMMA MonthLoopFinds ==
    ASSUME NEW leapDay \in {0, 1}, NEW n \in Nat, NEW z \in 1 .. 12, InMonth(leapDay, n, z)
    PROVE  MonthLoop[<<1, leapDay, n>>] = <<z, leapDay, n - LeapMonthDays(leapDay, z)>>
    <1> DEFINE Goal == <<z, leapDay, n - LeapMonthDays(leapDay, z)>>
               From(k) == MonthLoop[<<z - k, leapDay, n - LeapMonthDays(leapDay, z - k)>>]
               T == {k \in 0 .. z - 1 : From(k) # Goal}
    <1>1. LeapMonthDays(leapDay, z) \in Nat
        BY LeapMonthType
    <1>2. 0 \notin T
        <2> DEFINE d == n - LeapMonthDays(leapDay, z)
        <2>1. d \in Nat /\ (z = 12 \/ d < LengthOf(leapDay, z)) /\ z - 0 = z
            <3>1. z # 12 => LengthOf(leapDay, z) \in Nat
                BY MonthStep
            <3> QED
                BY <1>1, <3>1 DEF InMonth
        <2> HIDE DEF d
        <2>2. MonthLoop[<<z, leapDay, d>>] = <<z, leapDay, d>>
            BY <2>1, MonthLoopStep
        <2> QED
            BY <2>1, <2>2 DEF d
    <1>3. ASSUME NEW k \in T, k - 1 \in 0 .. z - 1, k - 1 \notin T
          PROVE  FALSE
        <2> DEFINE m == z - k
                   d == n - LeapMonthDays(leapDay, m)
        <2>1. k \in 1 .. z - 1 /\ m \in 1 .. 11 /\ m \in 1 .. 12 /\ m < z /\ m + 1 = z - (k - 1)
            BY <1>3
        <2> HIDE DEF m
        <2>2. /\ LengthOf(leapDay, m) \in Nat /\ LeapMonthDays(leapDay, m) \in Nat
              /\ LeapMonthDays(leapDay, m + 1) = LeapMonthDays(leapDay, m) + LengthOf(leapDay, m)
            BY <2>1, MonthStep
        <2>3. LeapMonthDays(leapDay, m) + LengthOf(leapDay, m) <= LeapMonthDays(leapDay, z)
            BY <2>1, LeapMonthsInOrder
        <2>4. /\ d \in Nat /\ ~(m = 12 \/ d < LengthOf(leapDay, m))
              /\ d - LengthOf(leapDay, m) = n - LeapMonthDays(leapDay, m + 1)
            BY <1>1, <2>1, <2>2, <2>3 DEF InMonth
        <2>5. From(k - 1) = Goal
            BY <1>3
        <2> HIDE DEF d
        <2>6. MonthLoop[<<m, leapDay, d>>]
                = MonthLoop[<<m + 1, leapDay, n - LeapMonthDays(leapDay, m + 1)>>]
            BY <2>1, <2>4, MonthLoopStep, SMTT(30)
        <2>7. From(k) = From(k - 1)
            BY <2>1, <2>6 DEF d, m
        <2> QED
            BY <1>3, <2>5, <2>7
    <1>4. T = {}
        <2>1. T \subseteq Nat
            OBVIOUS
        <2>2. ASSUME T # {} PROVE FALSE
            <3> HIDE DEF T
            <3>1. PICK k \in T : \A j \in T : k <= j
                BY <2>1, <2>2, Smallest, Zenon
            <3>2. k \in 0 .. z - 1 /\ k # 0
                BY <1>2, <3>1 DEF T
            <3>3. k - 1 \in 0 .. z - 1 /\ k - 1 \notin T
                BY <3>1, <3>2
            <3> QED
                BY <1>3, <3>3
        <2> QED
            BY <2>2
    <1>5. z - 1 \in 0 .. z - 1 /\ z - (z - 1) = 1
        OBVIOUS
    <1>6. From(z - 1) = Goal
        BY <1>4, <1>5
    <1>7. LeapMonthDays(leapDay, 1) = 0 /\ n - 0 = n
        BY MonthsTable DEF LeapMonthDays
    <1> QED
        BY <1>5, <1>6, <1>7

-----------------------------------------------------------------------------
\* Days and seconds.
DaySeconds == 86400
TimeOfDay(dt) == 3600 * dt.hh + 60 * dt.mm + dt.ss

LEMMA DayType == DaySeconds \in Nat \ {0}
    BY DEF DaySeconds

LEMMA TimeOfDayType ==
    ASSUME NEW dt \in Dates
    PROVE  TimeOfDay(dt) \in 0 .. DaySeconds - 1
    <1>1. PICK hh \in 0 .. 23, mm \in 0 .. 59, ss \in 0 .. 59 : dt.hh = hh /\ dt.mm = mm /\ dt.ss = ss
        <2>1. dt.hh \in 0 .. 23 /\ dt.mm \in 0 .. 59 /\ dt.ss \in 0 .. 59
            BY DateTypes
        <2> QED
            BY <2>1, Zenon
    <1>2. 3600 * hh + 60 * mm + ss \in 0 .. DaySeconds - 1
        <2>1. /\ 3600 * hh + 60 * mm + ss \in Int
              /\ 0 <= 3600 * hh + 60 * mm + ss /\ 3600 * hh + 60 * mm + ss < DaySeconds
            BY SMT DEF DaySeconds
        <2> QED
            BY <2>1, DayType
    <1> QED
        BY <1>1, <1>2, SMT DEF TimeOfDay

LEMMA SecondsOfDate ==
    ASSUME NEW dt \in Dates
    PROVE  /\ secondstime(dt) = Days(dt) * DaySeconds + TimeOfDay(dt)
           /\ secondstime(dt) \in Nat
    <1>1. dt.hh \in Nat /\ dt.mm \in Nat /\ dt.ss \in Nat
        BY DateTypes
    <1>2. Days(dt) \in Nat
        BY DayOfMonth, Zenon
    <1> QED
        BY <1>1, <1>2 DEF secondstime, TimeOfDay, DaySeconds, Days

\* DateTime(uint32_t) is the inverse of secondstime, as its comment says: "The result
\* can be converted back to a DateTime".
LEMMA DateOfSeconds ==
    ASSUME NEW dt \in Dates
    PROVE  DateTime(secondstime(dt)) = dt
    <1> DEFINE t == secondstime(dt)
    <1>1. PICK y \in 0 .. 99, m \in 1 .. 12, d \in 1 .. 31, hh \in 0 .. 23, mm \in 0 .. 59, ss \in 0 .. 59 :
              dt = [yOff |-> y, m |-> m, d |-> d, hh |-> hh, mm |-> mm, ss |-> ss]
        BY DEF Dates, DateTimes
    <1>2. dt.yOff = y /\ dt.m = m /\ dt.d = d /\ dt.hh = hh /\ dt.mm = mm /\ dt.ss = ss /\ y \in Nat
        BY <1>1
    <1>3. PICK n \in Nat : n = Days(dt)
        BY DayOfMonth, Zenon
    <1>4. t = n * DaySeconds + 3600 * hh + 60 * mm + ss
        BY <1>2, <1>3, SecondsOfDate DEF TimeOfDay, DaySeconds
    <1>5. /\ t \div DaySeconds = n
          /\ (t \div 3600) % 24 = hh /\ (t \div 60) % 60 = mm /\ t % 60 = ss
        <2>1. t = 60 * (60 * (24 * n + hh) + mm) + ss
            BY <1>4, SMT DEF DaySeconds
        <2> HIDE DEF t
        <2>2. t \div DaySeconds = n
            BY <2>1, SMT DEF DaySeconds
        <2>3. (t \div 3600) = 24 * n + hh
            BY <2>1, SMT
        <2>4. (t \div 60) = 60 * (24 * n + hh) + mm
            BY <2>1, SMT
        <2>5. (24 * n + hh) % 24 = hh /\ (60 * (24 * n + hh) + mm) % 60 = mm /\ t % 60 = ss
            BY <2>1, SMT
        <2> QED
            BY <2>2, <2>3, <2>4, <2>5, SMT
    <1>6. YearLoop[<<0, n>>] = <<y, n - YearDays(y)>>
        <2>1. InYear(n, y)
            BY <1>2, <1>3, DayOfYear DEF InYear
        <2> QED
            BY <1>2, <2>1, YearLoopFinds
    <1>7. leap(y) \in {0, 1} /\ YearDays(y) \in Nat
        BY <1>2, YearsAddUp, Zenon
    <1>8. /\ n = YearDays(y) + MonthDays(y, m) + d - 1 /\ d <= DaysOf(y, m)
          /\ MonthDays(y, m) \in Nat /\ DaysOf(y, m) \in Nat
        BY <1>2, <1>3, DayOfMonth, Zenon
    <1>9. MonthLoop[<<1, leap(y), n - YearDays(y)>>] = <<m, leap(y), d - 1>>
        <2> DEFINE k == n - YearDays(y)
        <2>1. k \in Nat /\ k - MonthDays(y, m) = d - 1
            BY <1>7, <1>8
        <2>2. MonthDays(y, m) = LeapMonthDays(leap(y), m)
            BY DEF MonthDays, LeapMonthDays
        <2>3. InMonth(leap(y), k, m)
            <3>1. m # 12 => DaysOf(y, m) = LengthOf(leap(y), m)
                <4>1. ASSUME m # 12 PROVE m \in 1 .. 11
                    BY <4>1
                <4> QED
                    BY <1>2, <4>1, MonthsAddUp DEF LengthOf
            <3> QED
                BY <1>7, <1>8, <2>1, <2>2, <3>1 DEF InMonth
        <2> HIDE DEF k
        <2>4. MonthLoop[<<1, leap(y), k>>] = <<m, leap(y), k - LeapMonthDays(leap(y), m)>>
            BY <1>7, <2>1, <2>3, MonthLoopFinds
        <2> QED
            BY <2>1, <2>2, <2>4 DEF k
    <1>10. DateTime(t) = [yOff |-> y, m |-> m, d |-> (d - 1) + 1, hh |-> hh, mm |-> mm, ss |-> ss]
        <2> HIDE DEF t
        <2> QED
            BY <1>5, <1>6, <1>9 DEF DateTime, DaySeconds
    <1> QED
        BY <1>1, <1>10

-----------------------------------------------------------------------------
\* Every day of the century has a date, and the days before a date are as many as
\* date2days says.
DayBefore(x, y) ==
    \/ x.yOff < y.yOff
    \/ x.yOff = y.yOff /\ x.m < y.m
    \/ x.yOff = y.yOff /\ x.m = y.m /\ x.d < y.d
SameDay(x, y) == x.yOff = y.yOff /\ x.m = y.m /\ x.d = y.d

LEMMA DayOrder ==
    ASSUME NEW x \in Dates, NEW y \in Dates
    PROVE  /\ DayBefore(x, y) <=> Days(x) < Days(y)
           /\ SameDay(x, y) <=> Days(x) = Days(y)
    <1>1. /\ x.yOff \in Nat /\ x.m \in Nat /\ x.d \in Nat
          /\ y.yOff \in Nat /\ y.m \in Nat /\ y.d \in Nat
        BY DateTypes
    <1>2. DayBefore(x, y) \/ DayBefore(y, x) \/ SameDay(x, y)
        BY <1>1 DEF DayBefore, SameDay
    <1>3. (DayBefore(x, y) => Days(x) < Days(y)) /\ (DayBefore(y, x) => Days(y) < Days(x))
        BY DaysInOrder, Zenon DEF DayBefore
    <1>4. SameDay(x, y) => Days(x) = Days(y)
        BY DEF SameDay, Days
    <1>5. Days(x) \in Nat /\ Days(y) \in Nat
        BY DayOfMonth, Zenon
    <1> QED
        BY <1>2, <1>3, <1>4, <1>5

LEMMA DayExists ==
    ASSUME NEW n \in 0 .. Century - 1
    PROVE  \E dt \in Dates : Days(dt) = n
    <1> DEFINE T == {k \in 0 .. Century - 1 : ~\E dt \in Dates : Days(dt) = k}
    <1>1. 0 \notin T
        <2> DEFINE first == [yOff |-> 0, m |-> 1, d |-> 1, hh |-> 0, mm |-> 0, ss |-> 0]
        <2>1. first \in Dates /\ first.yOff = 0 /\ first.m = 1 /\ first.d = 1
            BY DEF Dates, DateTimes, DaysOf
        <2> HIDE DEF first
        <2>2. Days(first) = YearDays(0) + MonthDays(0, 1) + 1 - 1
            BY <2>1, DayOfMonth, Zenon
        <2>3. YearDays(0) = 0 /\ MonthDays(0, 1) = 0
            BY MonthsTable DEF YearDays, MonthDays
        <2> QED
            BY <2>1, <2>2, <2>3
    <1>2. T = {}
        <2>1. ASSUME T # {} PROVE FALSE
            <3>1. T \subseteq Nat
                BY CenturyType
            <3> HIDE DEF T
            <3>2. PICK k \in T : \A j \in T : k <= j
                BY <2>1, <3>1, Smallest, Zenon
            <3>3. k \in 0 .. Century - 1 /\ k # 0
                BY <1>1, <3>2 DEF T
            <3>4. k - 1 \in 0 .. Century - 1 /\ k - 1 \notin T
                BY <3>2, <3>3, CenturyType
            <3>5. PICK dt \in Dates : Days(dt) = k - 1
                BY <3>4 DEF T
            <3>6. Days(dt) + 1 < Century
                BY <3>3, <3>5, CenturyType
            <3>7. NextDay(dt) \in Dates /\ Days(NextDay(dt)) = Days(dt) + 1
                BY <3>6, NextDayCounts, Zenon
            <3>8. Days(NextDay(dt)) = k
                BY <3>3, <3>5, <3>7, CenturyType
            <3> QED
                BY <3>2, <3>7, <3>8 DEF T
        <2> QED
            BY <2>1
    <1> QED
        BY <1>2

DateAt(x) == [yOff |-> x[1], m |-> x[2], d |-> x[3], hh |-> 0, mm |-> 0, ss |-> 0]

LEMMA SecondsCounted ==
    ASSUME NEW dt \in Dates
    PROVE  SecondsBefore(dt) = secondstime(dt)
    <1> DEFINE D == DaysBefore(dt)
               f == [x \in D |-> Days(DateAt(x))]
               N == 0 .. Days(dt) - 1
    <1>1. Days(dt) \in Nat
        BY DayOfMonth, Zenon
    <1>2. ASSUME NEW x \in D
          PROVE  DateAt(x) \in Dates /\ DayBefore(DateAt(x), dt)
        <2>1. dt.yOff \in 0 .. 99
            BY DateTypes
        <2>2. PICK y \in 0 .. dt.yOff, m \in 1 .. 12, d \in 1 .. 31 : x = <<y, m, d>>
            BY DEF DaysBefore
        <2>3. DateAt(x) = [yOff |-> y, m |-> m, d |-> d, hh |-> 0, mm |-> 0, ss |-> 0]
            BY <2>2 DEF DateAt
        <2>4. y \in 0 .. 99 /\ d <= DaysOf(y, m)
            BY <2>1, <2>2 DEF DaysBefore
        <2>5. DateAt(x) \in Dates
            BY <2>3, <2>4 DEF Dates, DateTimes
        <2>6. DayBefore(DateAt(x), dt)
            BY <2>2, <2>3 DEF DayBefore, DaysBefore
        <2> QED
            BY <2>5, <2>6
    <1>3. f \in [D -> N]
        <2>1. ASSUME NEW x \in D PROVE Days(DateAt(x)) \in N
            <3>1. Days(DateAt(x)) < Days(dt)
                BY <1>2, DayOrder, Zenon
            <3>2. Days(DateAt(x)) \in Nat
                BY <1>2, DayOfMonth, Zenon
            <3> QED
                BY <1>1, <3>1, <3>2
        <2> QED
            BY <2>1
    <1>4. ASSUME NEW x \in D, NEW z \in D, f[x] = f[z]
          PROVE  x = z
        <2>1. SameDay(DateAt(x), DateAt(z))
            BY <1>2, <1>4, DayOrder
        <2>2. x[1] = z[1] /\ x[2] = z[2] /\ x[3] = z[3]
            BY <2>1 DEF SameDay, DateAt
        <2>3. /\ x \in (0 .. dt.yOff) \X (1 .. 12) \X (1 .. 31)
              /\ z \in (0 .. dt.yOff) \X (1 .. 12) \X (1 .. 31)
            BY DEF DaysBefore
        <2> QED
            BY <2>2, <2>3
    <1>5. ASSUME NEW n \in N
          PROVE  \E x \in D : f[x] = n
        <2>1. n \in 0 .. Century - 1 /\ n < Days(dt)
            BY <1>1, DaysBounded, CenturyType
        <2>2. PICK e \in Dates : Days(e) = n
            BY <2>1, DayExists
        <2>3. DayBefore(e, dt)
            BY <2>1, <2>2, DayOrder
        <2>4. PICK y \in Nat, m \in 1 .. 12, d \in 1 .. 31 : e.yOff = y /\ e.m = m /\ e.d = d
            <3>1. e.yOff \in Nat /\ e.m \in 1 .. 12 /\ e.d \in 1 .. 31
                BY DateTypes
            <3> QED
                BY <3>1, Zenon
        <2>5. d <= DaysOf(y, m)
            BY <2>4 DEF Dates
        <2>6. y \in 0 .. dt.yOff
            <3>1. dt.yOff \in Nat
                BY DateTypes
            <3> QED
                BY <2>3, <2>4, <3>1 DEF DayBefore
        <2>7. <<y, m, d>> \in D
            BY <2>3, <2>4, <2>5, <2>6 DEF DayBefore, DaysBefore
        <2>8. Days(DateAt(<<y, m, d>>)) = Days(e)
            BY <2>4 DEF Days, DateAt
        <2> QED
            BY <2>2, <2>7, <2>8
    <1>6. Cardinality(D) = Days(dt)
        <2> HIDE DEF D, f, N
        <2>1. f \in Bijection(D, N)
            BY <1>3, <1>4, <1>5 DEF Bijection, Injection, Surjection, IsInjective
        <2>2. ExistsBijection(N, D)
            BY <2>1, Fun_ExistsBijSymmetric DEF ExistsBijection
        <2>3. IsFiniteSet(N) /\ Cardinality(N) = Days(dt)
            BY <1>1, FS_Interval DEF N
        <2> QED
            BY <2>2, <2>3, FS_Bijection
    <1>7. SecondsBefore(dt) = Days(dt) * DaySeconds + TimeOfDay(dt)
        <2>1. dt.hh \in Nat /\ dt.mm \in Nat /\ dt.ss \in Nat
            BY DateTypes
        <2>2. Cardinality(D) = Days(dt)
            BY <1>6
        <2> HIDE DEF D
        <2> QED
            BY <1>1, <2>1, <2>2, SMT DEF D, SecondsBefore, DaySeconds, TimeOfDay
    <1> QED
        BY <1>7, SecondsOfDate

-----------------------------------------------------------------------------
\* The chip counts second by second, and its registers hold a date.
LEMMA NextSecondCounts ==
    ASSUME NEW dt \in Dates, secondstime(dt) + 1 < Century * DaySeconds
    PROVE  /\ NextSecond(dt) \in Dates
           /\ secondstime(NextSecond(dt)) = secondstime(dt) + 1
    <1> DEFINE next == NextSecond(dt)
    <1>1. PICK y \in 0 .. 99, m \in 1 .. 12, d \in 1 .. 31, hh \in 0 .. 23, mm \in 0 .. 59, ss \in 0 .. 59 :
              dt = [yOff |-> y, m |-> m, d |-> d, hh |-> hh, mm |-> mm, ss |-> ss]
        BY DEF Dates, DateTimes
    <1> DEFINE At(h, k, s) == [yOff |-> y, m |-> m, d |-> d, hh |-> h, mm |-> k, ss |-> s]
               Clock(h, k, s) == 3600 * h + 60 * k + s
    <1>2. /\ dt.yOff = y /\ dt.m = m /\ dt.d = d /\ dt.hh = hh /\ dt.mm = mm /\ dt.ss = ss
          /\ d <= DaysOf(y, m) /\ dt \in DateTimes
        BY <1>1 DEF Dates
    <1>3. /\ secondstime(dt) = Days(dt) * DaySeconds + TimeOfDay(dt)
          /\ secondstime(dt) \in Nat
        BY SecondsOfDate
    <1>4. Days(dt) \in Nat
        BY DayOfMonth, Zenon
    <1>5. TimeOfDay(dt) = 3600 * hh + 60 * mm + ss
        BY <1>2 DEF TimeOfDay
    <1>6. ASSUME NEW h \in 0 .. 23, NEW k \in 0 .. 59, NEW s \in 0 .. 59,
                 next = At(h, k, s), Clock(h, k, s) = Clock(hh, mm, ss) + 1
          PROVE  next \in Dates /\ secondstime(next) = secondstime(dt) + 1
        <2> HIDE DEF next
        <2>1. next \in DateTimes /\ next.yOff = y /\ next.m = m /\ next.d = d
            BY <1>6 DEF DateTimes
        <2>2. next \in Dates
            BY <1>2, <2>1 DEF Dates
        <2>3. /\ secondstime(next) = Days(next) * DaySeconds + TimeOfDay(next)
              /\ secondstime(next) \in Nat
            BY <2>2, SecondsOfDate
        <2>4. Days(next) = Days(dt)
            BY <1>2, <2>1 DEF Days
        <2>5. TimeOfDay(next) = TimeOfDay(dt) + 1
            BY <1>5, <1>6 DEF TimeOfDay
        <2>6. Days(dt) * DaySeconds \in Nat
            BY <1>4, DayType
        <2> QED
            BY <1>3, <1>5, <2>2, <2>3, <2>4, <2>5, <2>6
    <1>7. CASE ss < 59
        <2>1. next = At(hh, mm, ss + 1)
            BY <1>1, <1>7 DEF NextSecond
        <2>2. ss + 1 \in 0 .. 59 /\ Clock(hh, mm, ss + 1) = Clock(hh, mm, ss) + 1
            BY <1>7
        <2> HIDE DEF next, At, Clock
        <2>3. next \in Dates /\ secondstime(next) = secondstime(dt) + 1
            BY <1>1, <1>6, <2>1, <2>2
        <2> QED
            BY <2>3 DEF next
    <1>8. CASE ss = 59 /\ mm < 59
        <2>1. next = At(hh, mm + 1, 0)
            <3>1. next = [dt EXCEPT !.ss = 0, !.mm = @ + 1]
                BY <1>2, <1>8 DEF NextSecond
            <3> QED
                BY <1>2, <3>1 DEF DateTimes
        <2>2. /\ mm + 1 \in 0 .. 59 /\ 0 \in 0 .. 59
              /\ Clock(hh, mm + 1, 0) = Clock(hh, mm, ss) + 1
            BY <1>8
        <2> HIDE DEF next, At, Clock
        <2>3. next \in Dates /\ secondstime(next) = secondstime(dt) + 1
            BY <1>1, <1>6, <2>1, <2>2
        <2> QED
            BY <2>3 DEF next
    <1>9. CASE ss = 59 /\ mm = 59 /\ hh < 23
        <2>1. next = At(hh + 1, 0, 0)
            <3>1. next = [dt EXCEPT !.ss = 0, !.mm = 0, !.hh = @ + 1]
                BY <1>2, <1>9 DEF NextSecond
            <3> QED
                BY <1>2, <1>9, <3>1 DEF DateTimes
        <2>2. /\ hh + 1 \in 0 .. 23 /\ 0 \in 0 .. 59
              /\ Clock(hh + 1, 0, 0) = Clock(hh, mm, ss) + 1
            BY <1>9
        <2> HIDE DEF next, At, Clock
        <2>3. next \in Dates /\ secondstime(next) = secondstime(dt) + 1
            BY <1>1, <1>6, <2>1, <2>2
        <2> QED
            BY <2>3 DEF next
    <1>10. CASE ss = 59 /\ mm = 59 /\ hh = 23
        <2> DEFINE midnight == [dt EXCEPT !.ss = 0, !.mm = 0, !.hh = 0]
        <2>1. next = NextDay(midnight)
            BY <1>2, <1>10 DEF NextSecond
        <2>2. midnight = At(0, 0, 0)
            <3>1. midnight = [dt EXCEPT !.ss = 0, !.mm = 0, !.hh = 0]
                OBVIOUS
            <3> HIDE DEF midnight
            <3> QED
                BY <1>2, <3>1 DEF DateTimes
        <2> HIDE DEF next, midnight
        <2>3. midnight \in Dates
            BY <1>2, <2>2 DEF Dates, DateTimes
        <2>4. Days(midnight) = Days(dt) /\ TimeOfDay(midnight) = 0
            BY <1>2, <2>2 DEF Days, TimeOfDay
        <2>5. TimeOfDay(dt) + 1 = DaySeconds
            BY <1>5, <1>10 DEF DaySeconds
        <2>6. Days(midnight) + 1 < Century
            <3>1. PICK c \in Nat : c = Century
                BY CenturyType
            <3>2. PICK n \in Nat : n = Days(dt)
                BY <1>4
            <3>3. (n + 1) * DaySeconds < c * DaySeconds
                <4>1. (n + 1) * DaySeconds = n * DaySeconds + DaySeconds /\ n * DaySeconds \in Nat
                    BY DayType
                <4> QED
                    BY <1>3, <1>5, <2>5, <3>1, <3>2, <4>1
            <3>4. n + 1 < c
                BY <3>3, SMT DEF DaySeconds
            <3> QED
                BY <2>4, <3>1, <3>2, <3>4
        <2>7. /\ next \in Dates /\ Days(next) = Days(midnight) + 1
              /\ next.hh = midnight.hh /\ next.mm = midnight.mm /\ next.ss = midnight.ss
            BY <2>1, <2>3, <2>6, NextDayCounts, Zenon
        <2>8. TimeOfDay(next) = 0
            BY <2>2, <2>7 DEF TimeOfDay
        <2>9. /\ secondstime(next) = Days(next) * DaySeconds + TimeOfDay(next)
              /\ secondstime(next) \in Nat
            BY <2>7, SecondsOfDate
        <2>10. PICK n \in Nat : n = Days(dt)
            BY <1>4
        <2>11. (n + 1) * DaySeconds = n * DaySeconds + DaySeconds
            BY DayType
        <2>12. n * DaySeconds \in Nat /\ TimeOfDay(dt) \in Nat
            BY <1>5, DayType
        <2>13. secondstime(next) = (n + 1) * DaySeconds
            BY <2>4, <2>7, <2>8, <2>9, <2>10, <2>11, DayType
        <2>14. secondstime(next) = secondstime(dt) + 1
            BY <1>3, <2>5, <2>10, <2>11, <2>12, <2>13, DayType
        <2> QED
            BY <2>7, <2>14 DEF next
    <1> QED
        BY <1>7, <1>8, <1>9, <1>10

LEMMA NextDaySeconds ==
    ASSUME NEW dt \in Dates, secondstime(dt) + DaySeconds < Century * DaySeconds
    PROVE  /\ NextDay(dt) \in Dates
           /\ secondstime(NextDay(dt)) = secondstime(dt) + DaySeconds
    <1> DEFINE next == NextDay(dt)
    <1>1. PICK n \in Nat : n = Days(dt)
        BY DayOfMonth, Zenon
    <1>2. PICK c \in Nat : c = Century
        BY CenturyType
    <1>3. secondstime(dt) = n * DaySeconds + TimeOfDay(dt) /\ TimeOfDay(dt) \in Nat
        BY <1>1, SecondsOfDate, TimeOfDayType, DayType
    <1>4. (n + 1) * DaySeconds = n * DaySeconds + DaySeconds /\ n * DaySeconds \in Nat
        BY DayType
    <1>5. n + 1 < c
        <2>1. (n + 1) * DaySeconds < c * DaySeconds
            BY <1>2, <1>3, <1>4, DayType
        <2> QED
            BY <2>1, SMT DEF DaySeconds
    <1>6. Days(dt) + 1 < Century
        BY <1>1, <1>2, <1>5
    <1>7. /\ next \in Dates /\ Days(next) = Days(dt) + 1
          /\ next.hh = dt.hh /\ next.mm = dt.mm /\ next.ss = dt.ss
        BY <1>6, NextDayCounts, Zenon
    <1> HIDE DEF next
    <1>8. secondstime(next) = Days(next) * DaySeconds + TimeOfDay(next)
        BY <1>7, SecondsOfDate, Zenon
    <1>9. TimeOfDay(next) = TimeOfDay(dt)
        BY <1>7 DEF TimeOfDay
    <1> QED
        BY <1>1, <1>3, <1>4, <1>7, <1>8, <1>9, DayType DEF next

LEMMA RegistersHold ==
    ASSUME NEW dt \in DateTimes
    PROVE  now(Registers(dt)) = dt
    <1>1. \A v \in 0 .. 99 : bcd2bin(bin2bcd(v)) = v
        BY DEF bcd2bin, bin2bcd
    <1>2. \A v \in 0 .. 59 : bcd2bin(bin2bcd(v) % 128) = v
        BY DEF bcd2bin, bin2bcd
    <1>3. PICK y \in 0 .. 99, m \in 1 .. 12, d \in 1 .. 31, hh \in 0 .. 23, mm \in 0 .. 59, ss \in 0 .. 59 :
              dt = [yOff |-> y, m |-> m, d |-> d, hh |-> hh, mm |-> mm, ss |-> ss]
        BY DEF DateTimes
    <1>4. now(Registers(dt)) =
              [yOff |-> bcd2bin(bin2bcd(y)), m |-> bcd2bin(bin2bcd(m) % 128),
               d |-> bcd2bin(bin2bcd(d)), hh |-> bcd2bin(bin2bcd(hh)),
               mm |-> bcd2bin(bin2bcd(mm)), ss |-> bcd2bin(bin2bcd(ss) % 128)]
        BY <1>3 DEF now, Registers
    <1>5. /\ y \in 0 .. 99 /\ d \in 0 .. 99 /\ hh \in 0 .. 99 /\ mm \in 0 .. 99
          /\ m \in 0 .. 59 /\ ss \in 0 .. 59
        OBVIOUS
    <1> QED
        BY <1>1, <1>2, <1>3, <1>4, <1>5, Zenon

-----------------------------------------------------------------------------
\* Arithmetic of days and seconds.
LEMMA SplitDays ==
    ASSUME NEW t \in Nat
    PROVE  \E n \in Nat, r \in Nat : r < DaySeconds /\ t = n * DaySeconds + r
    <1>1. t \div DaySeconds \in Nat
        BY SMT DEF DaySeconds
    <1>2. t % DaySeconds \in Nat /\ t % DaySeconds < DaySeconds
        BY SMT DEF DaySeconds
    <1>3. t = (t \div DaySeconds) * DaySeconds + (t % DaySeconds)
        BY SMT DEF DaySeconds
    <1> QED
        BY <1>1, <1>2, <1>3, Zenon

TimeAt(hh, mm, ss) == 3600 * hh + 60 * mm + ss

LEMMA SplitTime ==
    ASSUME NEW r \in Nat, r < DaySeconds
    PROVE  \E hh \in 0 .. 23, mm \in 0 .. 59, ss \in 0 .. 59 : TimeAt(hh, mm, ss) = r
    <1>1. PICK h \in Nat, q \in Nat : q < 3600 /\ 3600 * h + q = r
        <2>1. r \div 3600 \in Nat /\ r % 3600 \in Nat
            BY SMT
        <2>2. r % 3600 < 3600 /\ 3600 * (r \div 3600) + (r % 3600) = r
            BY SMT
        <2> QED
            BY <2>1, <2>2
    <1>2. PICK k \in Nat, s \in 0 .. 59 : 60 * k + s = q
        <2>1. q \div 60 \in Nat /\ q % 60 \in 0 .. 59
            BY <1>1, SMT
        <2>2. 60 * (q \div 60) + (q % 60) = q
            BY <1>1, SMT
        <2> QED
            BY <2>1, <2>2
    <1>3. h \in 0 .. 23
        <2>1. h < 24
            BY <1>1, SMT DEF DaySeconds
        <2> QED
            BY <1>1, <2>1
    <1>4. k \in 0 .. 59
        <2>1. k < 60
            BY <1>1, <1>2, SMT
        <2> QED
            BY <1>2, <2>1
    <1>5. TimeAt(h, k, s) = r
        BY <1>1, <1>2, SMT DEF TimeAt
    <1> QED
        BY <1>2, <1>3, <1>4, <1>5, Zenon

Hours == 0 .. 23
Minutes == 0 .. 59
TimeLess(h, k, s, h2, k2, s2) == h < h2 \/ (h = h2 /\ k < k2) \/ (h = h2 /\ k = k2 /\ s < s2)
TimeSame(h, k, s, h2, k2, s2) == h = h2 /\ k = k2 /\ s = s2

LEMMA SecondsInOrder ==
    ASSUME NEW p \in Nat, NEW q \in Nat, NEW i \in Nat, NEW j \in Nat, i < DaySeconds, j < DaySeconds
    PROVE  /\ (p * DaySeconds + i < q * DaySeconds + j) <=> (p < q \/ (p = q /\ i < j))
           /\ (p * DaySeconds + i = q * DaySeconds + j) <=> (p = q /\ i = j)
    BY SMT DEF DaySeconds

\* Every second of the century has a date.
LEMMA SecondExists ==
    ASSUME NEW t \in Nat, t < Century * DaySeconds
    PROVE  \E dt \in Dates : secondstime(dt) = t
    <1>1. PICK n \in Nat, r \in Nat : r < DaySeconds /\ t = n * DaySeconds + r
        BY SplitDays
    <1>2. n < Century
        BY <1>1, SMT DEF Century, DaySeconds
    <1>3. n \in 0 .. Century - 1
        BY <1>1, <1>2, CenturyType
    <1>4. PICK e \in Dates : Days(e) = n
        BY <1>3, DayExists
    <1>5. PICK hh \in 0 .. 23, mm \in 0 .. 59, ss \in 0 .. 59 : TimeAt(hh, mm, ss) = r
        BY <1>1, SplitTime, Zenon
    <1> DEFINE dt == [yOff |-> e.yOff, m |-> e.m, d |-> e.d, hh |-> hh, mm |-> mm, ss |-> ss]
    <1>6. dt \in Dates
        <2>1. e \in DateTimes /\ e.d <= DaysOf(e.yOff, e.m)
            BY DEF Dates
        <2> QED
            BY <1>5, <2>1 DEF Dates, DateTimes
    <1>7. Days(dt) = n /\ TimeOfDay(dt) = r
        BY <1>4, <1>5 DEF Days, TimeOfDay, TimeAt
    <1> HIDE DEF dt
    <1>8. secondstime(dt) = n * DaySeconds + r
        BY <1>6, <1>7, SecondsOfDate
    <1>9. secondstime(dt) = t
        BY <1>1, <1>8
    <1> QED
        BY <1>6, <1>9

\* operator< compares seconds.
LEMMA FirstDifference ==
    ASSUME NEW x \in Dates, NEW y \in Dates
    PROVE  Earlier(x, y) <=>
               \/ DayBefore(x, y)
               \/ /\ SameDay(x, y)
                  /\ \/ x.hh < y.hh
                     \/ x.hh = y.hh /\ x.mm < y.mm
                     \/ x.hh = y.hh /\ x.mm = y.mm /\ x.ss < y.ss
    <1> DEFINE u == <<x.yOff, x.m, x.d, x.hh, x.mm, x.ss>>
               v == <<y.yOff, y.m, y.d, y.hh, y.mm, y.ss>>
               P(k) == u[k] < v[k] /\ \A j \in 1 .. (k - 1) : u[j] = v[j]
    <1>1. Earlier(x, y) <=> \E k \in 1 .. 6 : P(k)
        BY Zenon DEF Earlier
    <1>2. (\E k \in 1 .. 6 : P(k)) <=> P(1) \/ P(2) \/ P(3) \/ P(4) \/ P(5) \/ P(6)
        <2> HIDE DEF P
        <2>1. \A k \in 1 .. 6 : k \in {1, 2, 3, 4, 5, 6}
            OBVIOUS
        <2>2. {1, 2, 3, 4, 5, 6} \subseteq 1 .. 6
            OBVIOUS
        <2> QED
            BY <2>1, <2>2
    <1>3. /\ P(1) <=> x.yOff < y.yOff
          /\ P(2) <=> x.yOff = y.yOff /\ x.m < y.m
          /\ P(3) <=> x.yOff = y.yOff /\ x.m = y.m /\ x.d < y.d
        OBVIOUS
    <1>4. P(4) <=> x.yOff = y.yOff /\ x.m = y.m /\ x.d = y.d /\ x.hh < y.hh
        OBVIOUS
    <1>5. P(5) <=> x.yOff = y.yOff /\ x.m = y.m /\ x.d = y.d /\ x.hh = y.hh /\ x.mm < y.mm
        OBVIOUS
    <1>6. P(6) <=> x.yOff = y.yOff /\ x.m = y.m /\ x.d = y.d /\ x.hh = y.hh /\ x.mm = y.mm /\ x.ss < y.ss
        OBVIOUS
    <1> HIDE DEF P
    <1> QED
        BY <1>1, <1>2, <1>3, <1>4, <1>5, <1>6 DEF DayBefore, SameDay

LEMMA EarlierIsLess ==
    ASSUME NEW x \in Dates, NEW y \in Dates
    PROVE  /\ Earlier(x, y) <=> secondstime(x) < secondstime(y)
           /\ secondstime(x) = secondstime(y) <=> x = y
    <1> DEFINE TimeBefore == \/ x.hh < y.hh
                             \/ x.hh = y.hh /\ x.mm < y.mm
                             \/ x.hh = y.hh /\ x.mm = y.mm /\ x.ss < y.ss
               SameTime == x.hh = y.hh /\ x.mm = y.mm /\ x.ss = y.ss
    <1>1. Earlier(x, y) <=> DayBefore(x, y) \/ (SameDay(x, y) /\ TimeBefore)
        BY FirstDifference
    <1>2. /\ x.hh \in 0 .. 23 /\ x.mm \in 0 .. 59 /\ x.ss \in 0 .. 59
          /\ y.hh \in 0 .. 23 /\ y.mm \in 0 .. 59 /\ y.ss \in 0 .. 59
        BY DateTypes
    <1>3. (TimeBefore <=> TimeOfDay(x) < TimeOfDay(y)) /\ (SameTime <=> TimeOfDay(x) = TimeOfDay(y))
        <2>1. PICK h \in Hours, k \in Minutes, s \in Minutes : x.hh = h /\ x.mm = k /\ x.ss = s
            BY <1>2, Zenon DEF Hours, Minutes
        <2>2. PICK h2 \in Hours, k2 \in Minutes, s2 \in Minutes : y.hh = h2 /\ y.mm = k2 /\ y.ss = s2
            BY <1>2, Zenon DEF Hours, Minutes
        <2>3. TimeOfDay(x) = TimeAt(h, k, s) /\ TimeOfDay(y) = TimeAt(h2, k2, s2)
            BY <2>1, <2>2 DEF TimeOfDay, TimeAt
        <2>4. /\ TimeBefore <=> TimeLess(h, k, s, h2, k2, s2)
              /\ SameTime <=> TimeSame(h, k, s, h2, k2, s2)
            BY <2>1, <2>2 DEF TimeLess, TimeSame
        <2>5. /\ TimeLess(h, k, s, h2, k2, s2) <=> TimeAt(h, k, s) < TimeAt(h2, k2, s2)
              /\ TimeSame(h, k, s, h2, k2, s2) <=> TimeAt(h, k, s) = TimeAt(h2, k2, s2)
            BY <2>1, <2>2, SMT DEF Hours, Minutes, TimeAt, TimeLess, TimeSame
        <2> HIDE DEF TimeBefore, SameTime
        <2> QED
            BY <2>3, <2>4, <2>5
    <1>5. /\ DayBefore(x, y) <=> Days(x) < Days(y)
          /\ SameDay(x, y) <=> Days(x) = Days(y)
        BY DayOrder, Zenon
    <1>6. PICK p \in Nat, q \in Nat, i \in Nat, j \in Nat :
              /\ p = Days(x) /\ q = Days(y) /\ i = TimeOfDay(x) /\ j = TimeOfDay(y)
              /\ i < DaySeconds /\ j < DaySeconds
        <2>1. TimeOfDay(x) \in 0 .. DaySeconds - 1 /\ TimeOfDay(y) \in 0 .. DaySeconds - 1
            BY TimeOfDayType
        <2>2. TimeOfDay(x) \in Nat /\ TimeOfDay(y) \in Nat /\ TimeOfDay(x) < DaySeconds /\ TimeOfDay(y) < DaySeconds
            BY <2>1, DayType
        <2>3. Days(x) \in Nat /\ Days(y) \in Nat
            BY DayOfMonth, Zenon
        <2> QED
            BY <2>2, <2>3, Zenon
    <1>7. /\ (p * DaySeconds + i < q * DaySeconds + j) <=> (p < q \/ (p = q /\ i < j))
          /\ (p * DaySeconds + i = q * DaySeconds + j) <=> (p = q /\ i = j)
        BY <1>6, SecondsInOrder
    <1>8. /\ secondstime(x) = p * DaySeconds + i
          /\ secondstime(y) = q * DaySeconds + j
        BY <1>6, SecondsOfDate, Zenon
    <1>9. SameDay(x, y) /\ SameTime <=> x = y
        <2>1. x \in DateTimes /\ y \in DateTimes
            BY DateTypes
        <2> QED
            BY <2>1 DEF SameDay, DateTimes
    <1> HIDE DEF TimeBefore, SameTime
    <1>10. Earlier(x, y) <=> p < q \/ (p = q /\ i < j)
        BY <1>1, <1>3, <1>5, <1>6, Zenon
    <1>11. x = y <=> p = q /\ i = j
        BY <1>9, <1>3, <1>5, <1>6, Zenon
    <1> QED
        BY <1>7, <1>8, <1>10, <1>11, Zenon

-----------------------------------------------------------------------------
(***************************************************************************)
(* The constants, as the code has them: the dates a compiler and a chip    *)
(* that was set can show exist, the sketch was not built in the first hour *)
(* of 2000, and the bound on the time that passes ends before 2100.        *)
(***************************************************************************)
RealDates == BuildTimes \subseteq Dates /\ ChipTimes \subseteq Dates
AfterTheFirstHour == \A dt \in BuildTimes : 3600 <= secondstime(dt)
Room(n) == (MaxSeconds - n) * DaySeconds
InTheCentury ==
    \A dt \in BuildTimes \cup ChipTimes \cup {Epoch} :
        secondstime(dt) + Room(0) < Century * DaySeconds

Today == now(registers)

CalendarInv ==
    /\ build \in BuildTimes
    /\ passed \in 0 .. MaxSeconds
    /\ Today \in Dates
    /\ seconds = secondstime(Today)
    /\ seconds + Room(passed) < Century * DaySeconds

LEMMA Bounds == MaxSeconds \in Nat /\ MaxRuns \in Nat
    BY DataFilesAssumption

LEMMA CenturySeconds == Century * DaySeconds \in Nat
    BY CenturyType, DayType

LEMMA RoomLeft ==
    ASSUME NEW n \in 0 .. MaxSeconds
    PROVE  /\ Room(n) \in Nat /\ Room(n) <= Room(0)
           /\ n < MaxSeconds => n + 1 \in 0 .. MaxSeconds /\ Room(n) = Room(n + 1) + DaySeconds
    <1>1. PICK d \in Nat : d = DaySeconds
        BY DayType
    <1>2. PICK m \in Nat : m = MaxSeconds
        BY Bounds
    <1>3. n \in Nat /\ n <= m
        BY <1>2
    <1>4. (m - n) * d \in Nat
        BY <1>1, <1>2, <1>3
    <1>5. m * 86400 = (m - n) * 86400 + n * 86400
        BY <1>2, <1>3, SMT
    <1>6. (m - n) * 86400 = (m - (n + 1)) * 86400 + 86400
        BY <1>2, <1>3, SMT
    <1>7. n * 86400 \in Nat /\ (m - n) * 86400 \in Nat /\ (m - 0) * 86400 = m * 86400
        BY <1>2, <1>3, SMT
    <1>8. (m - n) * 86400 <= (m - 0) * 86400
        BY <1>5, <1>7, SMT
    <1>9. n < m => n + 1 \in 0 .. m
        BY <1>2, <1>3
    <1> QED
        BY <1>2, <1>6, <1>7, <1>8, <1>9 DEF Room, DaySeconds

LEMMA EpochIsDate == Epoch \in Dates /\ secondstime(Epoch) = 0
    <1>1. Epoch = [yOff |-> 0, m |-> 1, d |-> 1, hh |-> 0, mm |-> 0, ss |-> 0]
        BY DEF Epoch
    <1> DEFINE e == Epoch
    <1>2. e.yOff = 0 /\ e.m = 1 /\ e.d = 1 /\ e.hh = 0 /\ e.mm = 0 /\ e.ss = 0 /\ e \in DateTimes
        BY <1>1 DEF DateTimes
    <1> HIDE DEF e
    <1>3. e \in Dates
        BY <1>2 DEF Dates, DaysOf
    <1>4. Days(e) = YearDays(0) + MonthDays(0, 1) + 1 - 1
        BY <1>2, <1>3, DayOfMonth, Zenon
    <1>5. YearDays(0) = 0 /\ MonthDays(0, 1) = 0
        BY MonthsTable DEF YearDays, MonthDays
    <1>6. TimeOfDay(e) = 0
        BY <1>2 DEF TimeOfDay
    <1>7. secondstime(e) = 0
        BY <1>3, <1>4, <1>5, <1>6, SecondsOfDate, DayType
    <1> QED
        BY <1>3, <1>7 DEF e

\* A second or a day later the registers hold the date that is a second or a day later.
LEMMA ElapsePreserves ==
    ASSUME CalendarInv, Elapse
    PROVE  passed' \in 0 .. MaxSeconds /\ Today' \in Dates /\ seconds' = secondstime(Today')
           /\ seconds' + Room(passed') < Century * DaySeconds
           /\ seconds' > seconds
    <1>1. /\ passed \in 0 .. MaxSeconds /\ passed < MaxSeconds /\ passed' = passed + 1
          /\ seconds = secondstime(Today) /\ Today \in Dates
          /\ seconds + Room(passed) < Century * DaySeconds
        BY DEF CalendarInv, Elapse
    <1>2. /\ passed + 1 \in 0 .. MaxSeconds /\ Room(passed) = Room(passed + 1) + DaySeconds
          /\ Room(passed + 1) \in Nat
        BY <1>1, RoomLeft
    <1>3. seconds \in Nat
        BY <1>1, SecondsOfDate
    <1>4. Century * DaySeconds \in Nat /\ DaySeconds \in Nat /\ 1 <= DaySeconds
        BY CenturySeconds, DayType
    <1>5. seconds + DaySeconds < Century * DaySeconds /\ seconds + 1 < Century * DaySeconds
        BY <1>1, <1>2, <1>3, <1>4
    <1>6. CASE SecondPasses
        <2>1. /\ NextSecond(Today) \in Dates
              /\ secondstime(NextSecond(Today)) = seconds + 1
            BY <1>1, <1>5, NextSecondCounts
        <2>2. Today' = NextSecond(Today)
            <3>1. registers' = Registers(NextSecond(Today))
                BY <1>6 DEF SecondPasses, Today
            <3> QED
                BY <2>1, <3>1, RegistersHold, DateTypes, Zenon DEF Today
        <2>3. seconds' = seconds + 1
            BY <1>6 DEF SecondPasses
        <2> QED
            BY <1>1, <1>2, <1>3, <1>4, <2>1, <2>2, <2>3
    <1>7. CASE DayPasses
        <2>1. /\ NextDay(Today) \in Dates
              /\ secondstime(NextDay(Today)) = seconds + DaySeconds
            BY <1>1, <1>5, NextDaySeconds
        <2>2. Today' = NextDay(Today)
            <3>1. registers' = Registers(NextDay(Today))
                BY <1>7 DEF DayPasses, Today
            <3> QED
                BY <2>1, <3>1, RegistersHold, DateTypes, Zenon DEF Today
        <2>3. seconds' = seconds + DaySeconds
            BY <1>7 DEF DayPasses, DaySeconds
        <2> QED
            BY <1>1, <1>2, <1>3, <1>4, <2>1, <2>2, <2>3
    <1> QED
        BY <1>6, <1>7 DEF Elapse

\* Clock::begin leaves the chip as it is, or with the time of the build less an hour.
LEMMA AdjustPreserves ==
    ASSUME RealDates, AfterTheFirstHour, InTheCentury, CalendarInv, Adjust, passed' = passed
    PROVE  Today' \in Dates /\ seconds' = secondstime(Today')
           /\ seconds' + Room(passed') < Century * DaySeconds
    <1>1. CASE osf
        <2>1. /\ registers' = Registers(Minus(build, 3600))
              /\ seconds' = SecondsBefore(build) - 3600
            BY <1>1 DEF Adjust, lostPower
        <2>2. build \in Dates /\ 3600 <= secondstime(build)
            BY DEF CalendarInv, RealDates, AfterTheFirstHour
        <2>3. PICK t \in Nat : t = secondstime(build)
            BY <2>2, SecondsOfDate
        <2>4. t + Room(0) < Century * DaySeconds
            BY <2>3 DEF InTheCentury, CalendarInv
        <2>5. Room(passed) \in Nat /\ Room(0) \in Nat /\ Room(passed) <= Room(0)
            <3>1. passed \in 0 .. MaxSeconds /\ 0 \in 0 .. MaxSeconds
                BY Bounds DEF CalendarInv
            <3> QED
                BY <3>1, RoomLeft
        <2>6. PICK s \in Nat : s = t - 3600
            BY <2>2, <2>3
        <2>7. s <= t
            BY <2>3, <2>6
        <2>8. s + Room(passed) < Century * DaySeconds /\ s < Century * DaySeconds
            BY <2>3, <2>4, <2>5, <2>6, <2>7, CenturySeconds
        <2>9. PICK e \in Dates : secondstime(e) = s
            BY <2>6, <2>8, SecondExists
        <2>10. Minus(build, 3600) = e
            BY <2>3, <2>6, <2>9, DateOfSeconds DEF Minus
        <2>11. Today' = e
            <3>1. registers' = Registers(e)
                BY <2>1, <2>10
            <3> QED
                BY <2>9, <3>1, RegistersHold, DateTypes, Zenon DEF Today
        <2>12. seconds' = s
            BY <2>1, <2>2, <2>3, <2>6, SecondsCounted
        <2> QED
            BY <2>8, <2>9, <2>11, <2>12
    <1>2. CASE ~osf
        <2>1. registers' = registers /\ seconds' = seconds
            BY <1>2 DEF Adjust, lostPower, chip
        <2> QED
            BY <2>1 DEF CalendarInv, Today
    <1> QED
        BY <1>1, <1>2

LEMMA CalendarHolds ==
    ASSUME RealDates, AfterTheFirstHour, InTheCentury
    PROVE  Spec => []CalendarInv
    <1>1. Init => CalendarInv
        <2> SUFFICES ASSUME Init PROVE CalendarInv
            OBVIOUS
        <2>1. PICK dt \in ChipTimes \cup {Epoch} :
                  registers = Registers(dt) /\ seconds = SecondsBefore(dt)
            BY DEF Init
        <2>2. dt \in Dates
            BY EpochIsDate DEF RealDates
        <2>3. Today = dt
            BY <2>1, <2>2, RegistersHold, DateTypes, Zenon DEF Today
        <2>4. seconds = secondstime(dt)
            BY <2>1, <2>2, SecondsCounted
        <2>5. seconds + Room(0) < Century * DaySeconds
            BY <2>4 DEF InTheCentury
        <2>6. passed = 0 /\ build \in BuildTimes
            BY DEF Init
        <2> QED
            BY <2>2, <2>3, <2>4, <2>5, <2>6, Bounds DEF CalendarInv
    <1>2. CalendarInv /\ [Next]_vars => CalendarInv'
        <2> SUFFICES ASSUME CalendarInv, [Next]_vars
                     PROVE  CalendarInv'
            OBVIOUS
        <2>1. CASE TimePasses
            <3>1. Elapse /\ build' = build
                BY <2>1 DEF TimePasses
            <3> QED
                BY <3>1, ElapsePreserves DEF CalendarInv
        <2>2. CASE RtcLosesPower
            <3>1. registers' = Registers(Epoch) /\ seconds' = 0 /\ build' = build /\ passed' = passed
                BY <2>2 DEF RtcLosesPower
            <3>2. Today' = Epoch
                BY <3>1, EpochIsDate, RegistersHold, DateTypes, Zenon DEF Today
            <3>3. 0 + Room(passed) < Century * DaySeconds
                <4>1. PICK s \in Nat : s = seconds
                    BY SecondsOfDate DEF CalendarInv
                <4>2. Room(passed) \in Nat
                    BY RoomLeft DEF CalendarInv
                <4> QED
                    BY <4>1, <4>2, CenturySeconds DEF CalendarInv
            <3> QED
                BY <3>1, <3>2, <3>3, EpochIsDate DEF CalendarInv
        <2>3. CASE Setup
            <3>1. Adjust /\ build' = build /\ passed' = passed
                BY <2>3 DEF Setup
            <3> QED
                BY <3>1, AdjustPreserves DEF CalendarInv
        <2>4. CASE SetupEnds
            <3>1. Elapse /\ build' = build
                BY <2>4 DEF SetupEnds, Delay, Elapse
            <3> QED
                BY <3>1, ElapsePreserves DEF CalendarInv
        <2>5. CASE appendData
            BY <2>5 DEF appendData, chip, CalendarInv, Today
        <2>6. CASE Stop
            BY <2>6 DEF Stop, chip, CalendarInv, Today
        <2>7. CASE UNCHANGED vars
            BY <2>7 DEF vars, chip, CalendarInv, Today
        <2> QED
            BY <2>1, <2>2, <2>3, <2>4, <2>5, <2>6, <2>7 DEF Next
    <1> QED
        BY <1>1, <1>2, PTL DEF Spec

\* The calendar of RTClib is that of the chip: whatever the dates of the century.
THEOREM CalendarAlwaysAgrees ==
    ASSUME RealDates, AfterTheFirstHour, InTheCentury
    PROVE  Spec => []CalendarAgrees
    <1>1. CalendarInv => CalendarAgrees
        BY DateOfSeconds DEF CalendarInv, CalendarAgrees, Today
    <1> QED
        BY <1>1, CalendarHolds, PTL

-----------------------------------------------------------------------------
(***************************************************************************)
(* The files.  S counts the seconds of a date, so that dates compare as    *)
(* numbers.                                                                *)
(***************************************************************************)
S(dt) == secondstime(dt)
Rows == Seq([run : 1 .. MaxRuns, created : BOOLEAN, at : Dates])

FilesTypeInv ==
    /\ phase \in {"off", "setup", "loop"} /\ osf \in BOOLEAN /\ created \in BOOLEAN
    /\ filename \in Dates
    /\ run \in 0 .. MaxRuns /\ (phase # "off" => run >= 1)
    /\ resets \in Nat
    /\ \A n \in DOMAIN files :
        /\ n \in Dates
        /\ files[n] \in [header : BOOLEAN, rows : Rows, resets : Nat]

\* The date in the name is that of the setup, and the loop starts seconds later.
NameInv ==
    /\ phase # "off" => ~osf /\ S(filename) <= seconds
    /\ phase = "loop" => S(filename) < seconds

\* What a file holds that this run created.
OwnFileInv ==
    phase # "off" /\ created =>
        /\ filename \in DOMAIN files /\ files[filename].header
        /\ \A k \in DOMAIN files[filename].rows :
            LET row == files[filename].rows[k]
            IN  row.run = run /\ row.created /\ S(row.at) <= seconds

\* Since the chip last lost its time it has passed the date in the name of every file
\* that is as recent, and a file with rows is older than a second.
RecentInv ==
    \A n \in DOMAIN files :
        /\ files[n].resets <= resets
        /\ files[n].resets = resets =>
            ~osf /\ S(n) <= seconds /\ (files[n].rows # <<>> => S(n) < seconds)

\* FileOfOneRun in seconds.
RowInv ==
    \A n \in DOMAIN files : \A k \in DOMAIN files[n].rows :
        files[n].rows[k].created =>
            /\ files[n].header
            /\ S(n) <= S(files[n].rows[k].at)
            /\ \A j \in 1 .. (k - 1) :
                /\ files[n].rows[j].run = files[n].rows[k].run
                /\ S(files[n].rows[j].at) < S(files[n].rows[k].at)

FilesInv == CalendarInv /\ FilesTypeInv /\ NameInv /\ OwnFileInv /\ RecentInv /\ RowInv

\* The calendar and the types of the chip at both ends of a step, as numbers.
LEMMA SecondsType ==
    ASSUME CalendarInv
    PROVE  seconds \in Nat
    BY SecondsOfDate DEF CalendarInv

LEMMA DateSeconds ==
    ASSUME NEW dt \in Dates
    PROVE  S(dt) \in Nat
    BY SecondsOfDate DEF S

LEMMA ElementType ==
    ASSUME NEW T, NEW s \in Seq(T), NEW j \in DOMAIN s
    PROVE  s[j] \in T
    OBVIOUS

LEMMA RowType ==
    ASSUME FilesTypeInv, NEW n \in DOMAIN files, NEW k \in DOMAIN files[n].rows
    PROVE  files[n].rows[k] \in [run : 1 .. MaxRuns, created : BOOLEAN, at : Dates]
    <1>1. files[n].rows \in Rows
        BY DEF FilesTypeInv
    <1> QED
        BY <1>1, ElementType, Zenon DEF Rows

\* Steps that leave the card and the run alone.
Still == UNCHANGED <<filename, created, files, run>>

LEMMA ElapseKeepsFiles ==
    ASSUME FilesInv, Still, phase' = phase, osf' = osf, resets' = resets,
           seconds' \in Nat, seconds <= seconds'
    PROVE  FilesTypeInv' /\ NameInv' /\ OwnFileInv' /\ RecentInv' /\ RowInv'
    <1>1. seconds \in Nat
        BY SecondsType DEF FilesInv
    <1>2. FilesTypeInv'
        BY DEF FilesInv, FilesTypeInv, Still
    <1>3. NameInv'
        <2>1. S(filename) \in Nat
            BY DateSeconds DEF FilesInv, FilesTypeInv
        <2>2. S(filename)' = S(filename)
            BY DEF Still, S
        <2> QED
            BY <1>1, <2>1, <2>2 DEF FilesInv, NameInv
    <1>4. OwnFileInv'
        <2> SUFFICES ASSUME phase # "off", created, NEW k \in DOMAIN files[filename].rows
                     PROVE  /\ filename \in DOMAIN files /\ files[filename].header
                            /\ files[filename].rows[k].run = run /\ files[filename].rows[k].created
                            /\ S(files[filename].rows[k].at) <= seconds'
            BY DEF OwnFileInv, Still, FilesInv, S
        <2>1. /\ filename \in DOMAIN files /\ files[filename].header
              /\ files[filename].rows[k].run = run /\ files[filename].rows[k].created
              /\ S(files[filename].rows[k].at) <= seconds
            BY DEF FilesInv, OwnFileInv
        <2>2. files[filename].rows[k].at \in Dates
            BY <2>1, RowType DEF FilesInv
        <2>3. S(files[filename].rows[k].at) \in Nat
            BY <2>2, DateSeconds
        <2> QED
            BY <1>1, <2>1, <2>3
    <1>5. RecentInv'
        <2> SUFFICES ASSUME NEW n \in DOMAIN files
                     PROVE  /\ files[n].resets <= resets
                            /\ files[n].resets = resets =>
                                ~osf /\ S(n) <= seconds' /\ (files[n].rows # <<>> => S(n) < seconds')
            BY DEF RecentInv, Still, S
        <2>1. S(n) \in Nat
            BY DateSeconds DEF FilesInv, FilesTypeInv
        <2> QED
            BY <1>1, <2>1 DEF FilesInv, RecentInv
    <1>6. RowInv'
        BY DEF FilesInv, RowInv, Still, S
    <1> QED
        BY <1>2, <1>3, <1>4, <1>5, <1>6

LEMMA StopKeepsFiles ==
    ASSUME FilesInv, Stop
    PROVE  FilesTypeInv' /\ NameInv' /\ OwnFileInv' /\ RecentInv' /\ RowInv'
    BY DEF FilesInv, FilesTypeInv, NameInv, OwnFileInv, RecentInv, RowInv, Stop, chip, S

\* Only while the station is off does the chip lose its time: no file is recent then.
LEMMA ResetKeepsFiles ==
    ASSUME FilesInv, RtcLosesPower
    PROVE  FilesTypeInv' /\ NameInv' /\ OwnFileInv' /\ RecentInv' /\ RowInv'
    <1>1. /\ phase = "off" /\ phase' = phase /\ osf' = TRUE /\ resets' = resets + 1
          /\ UNCHANGED <<filename, created, files, run>>
        BY DEF RtcLosesPower
    <1>2. FilesTypeInv'
        BY <1>1 DEF FilesInv, FilesTypeInv
    <1>3. NameInv' /\ OwnFileInv'
        BY <1>1 DEF NameInv, OwnFileInv
    <1>4. RecentInv'
        <2> SUFFICES ASSUME NEW n \in DOMAIN files
                     PROVE  files[n].resets <= resets + 1 /\ files[n].resets # resets + 1
            BY <1>1 DEF RecentInv
        <2>1. files[n].resets \in Nat /\ resets \in Nat /\ files[n].resets <= resets
            BY DEF FilesInv, FilesTypeInv, RecentInv
        <2> QED
            BY <2>1
    <1>5. RowInv'
        BY <1>1 DEF FilesInv, RowInv, S
    <1> QED
        BY <1>2, <1>3, <1>4, <1>5

\* A run names its file and creates it, or not.
LEMMA SetupWrites ==
    ASSUME RealDates, AfterTheFirstHour, InTheCentury, FilesInv, Setup
    PROVE  /\ filename' = Today' /\ filename' \in Dates /\ seconds' = S(filename') /\ S(filename') \in Nat
           /\ osf' = FALSE /\ resets' = resets /\ (~osf => seconds' = seconds)
           /\ phase = "off" /\ phase' = "setup" /\ run < MaxRuns /\ run' = run + 1
           /\ DOMAIN files \subseteq DOMAIN files'
           /\ \A n \in DOMAIN files' :
                \/ n \in DOMAIN files /\ files'[n] = files[n]
                \/ /\ n = filename' /\ files'[n].rows = <<>> /\ files'[n].resets = resets
                   /\ files'[n] \in [header : BOOLEAN, rows : Rows, resets : Nat]
           /\ created' \in BOOLEAN
           /\ created' => filename' \in DOMAIN files' /\ files'[filename'].header /\ files'[filename'].rows = <<>>
    <1> DEFINE name == filename'
    <1>1. /\ phase = "off" /\ phase' = "setup" /\ run < MaxRuns /\ run' = run + 1
          /\ Adjust /\ name = Today' /\ createFile(name)
          /\ passed' = passed
        BY DEF Setup, Today
    <1>2. Today' \in Dates /\ seconds' = S(Today')
        BY <1>1, AdjustPreserves DEF FilesInv, S
    <1>3. osf' = FALSE /\ resets' = resets /\ (~osf => seconds' = seconds)
        BY <1>1 DEF Adjust, lostPower, chip, FilesInv, FilesTypeInv
    <1>4. name \in Dates /\ seconds' = S(name) /\ S(name) \in Nat
        BY <1>1, <1>2, DateSeconds
    <1> HIDE DEF name
    <1> DEFINE file(h) == [header |-> h, rows |-> <<>>, resets |-> resets]
               put(h) == [n \in DOMAIN files \cup {name} |-> IF n = name THEN file(h) ELSE files[n]]
    <1>5. \/ created' = TRUE /\ files' = put(TRUE)
          \/ created' = FALSE /\ files' = files
          \/ created' = FALSE /\ files' = put(FALSE)
        <2>1. \/ created' = TRUE /\ files' = Put(name, Empty)
              \/ created' = FALSE /\ files' \in {files, Put(name, [Empty EXCEPT !.header = FALSE])}
            BY <1>1 DEF createFile
        <2>2. Empty = file(TRUE) /\ [Empty EXCEPT !.header = FALSE] = file(FALSE)
            <3>1. Empty = [header |-> TRUE, rows |-> <<>>, resets |-> resets]
                BY DEF Empty
            <3>2. ASSUME NEW e \in [header : BOOLEAN, rows : Rows, resets : Nat], NEW x,
                         x = [e EXCEPT !.header = FALSE]
                  PROVE  x = [header |-> FALSE, rows |-> e.rows, resets |-> e.resets]
                BY <3>2
            <3>3. Empty \in [header : BOOLEAN, rows : Rows, resets : Nat]
                BY <3>1 DEF FilesInv, FilesTypeInv, Rows
            <3>4. Empty.rows = <<>> /\ Empty.resets = resets
                BY <3>1
            <3> QED
                BY <3>1, <3>2, <3>3, <3>4
        <2>3. \A f : Put(name, f) = [n \in DOMAIN files \cup {name} |-> IF n = name THEN f ELSE files[n]]
            BY DEF Put
        <2> QED
            BY <2>1, <2>2, <2>3
    <1>6. ASSUME NEW n \in DOMAIN files'
          PROVE  \/ n \in DOMAIN files /\ files'[n] = files[n]
                 \/ n = name /\ \E h \in BOOLEAN : files'[n] = file(h)
        BY <1>5
    <1>7. \A h \in BOOLEAN : file(h) \in [header : BOOLEAN, rows : Rows, resets : Nat]
        BY DEF FilesInv, FilesTypeInv, Rows
    <1>8. created' \in BOOLEAN /\ (created' => name \in DOMAIN files' /\ files'[name] = file(TRUE))
        BY <1>5
    <1> HIDE DEF put
    <1>9. ASSUME NEW n \in DOMAIN files', n = name, \E h \in BOOLEAN : files'[n] = file(h)
          PROVE  /\ files'[n].rows = <<>> /\ files'[n].resets = resets
                 /\ files'[n] \in [header : BOOLEAN, rows : Rows, resets : Nat]
        BY <1>7, <1>9
    <1>10. DOMAIN files \subseteq DOMAIN files'
        BY <1>5 DEF put
    <1>11. created' => files'[name].header /\ files'[name].rows = <<>>
        BY <1>8
    <1> HIDE DEF file
    <1> QED
        BY <1>1, <1>3, <1>4, <1>6, <1>8, <1>9, <1>10, <1>11 DEF name

LEMMA SetupKeepsFiles ==
    ASSUME RealDates, AfterTheFirstHour, InTheCentury, FilesInv, Setup
    PROVE  FilesTypeInv' /\ NameInv' /\ OwnFileInv' /\ RecentInv' /\ RowInv'
    <1> DEFINE name == filename'
    <1>1. /\ name \in Dates /\ seconds' = S(name) /\ S(name) \in Nat
          /\ osf' = FALSE /\ resets' = resets /\ (~osf => seconds' = seconds)
          /\ phase = "off" /\ phase' = "setup" /\ run < MaxRuns /\ run' = run + 1
          /\ created' \in BOOLEAN
        BY SetupWrites
    <1>2. ASSUME NEW n \in DOMAIN files'
          PROVE  \/ n \in DOMAIN files /\ files'[n] = files[n]
                 \/ n = name /\ files'[n].rows = <<>> /\ files'[n].resets = resets
        BY SetupWrites
    <1>3. ASSUME NEW n \in DOMAIN files'
          PROVE  n \in Dates /\ files'[n] \in [header : BOOLEAN, rows : Rows, resets : Nat]
        BY SetupWrites DEF FilesInv, FilesTypeInv
    <1>4. created' => name \in DOMAIN files' /\ files'[name].header /\ files'[name].rows = <<>>
        BY SetupWrites
    <1> HIDE DEF name
    <1>5. FilesTypeInv'
        <2>1. run' \in 0 .. MaxRuns /\ run' >= 1
            BY <1>1, Bounds DEF FilesInv, FilesTypeInv
        <2>2. resets' \in Nat /\ osf' \in BOOLEAN /\ filename' \in Dates
            BY <1>1 DEF FilesInv, FilesTypeInv, name
        <2> QED
            BY <1>1, <1>3, <2>1, <2>2 DEF FilesTypeInv
    <1>6. NameInv'
        <2>1. S(filename)' = S(name)
            BY DEF S, name
        <2> QED
            BY <1>1, <2>1 DEF NameInv
    <1>7. OwnFileInv'
        <2>1. created' => /\ filename' \in DOMAIN files' /\ files'[filename'].header
                          /\ files'[filename'].rows = <<>>
            BY <1>4 DEF name
        <2> QED
            BY <2>1 DEF OwnFileInv
    <1>8. RecentInv'
        <2> SUFFICES ASSUME NEW n \in DOMAIN files'
                     PROVE  /\ files'[n].resets <= resets
                            /\ files'[n].resets = resets =>
                                S(n) <= seconds' /\ (files'[n].rows # <<>> => S(n) < seconds')
            BY <1>1 DEF RecentInv, S
        <2>1. resets \in Nat
            BY DEF FilesInv, FilesTypeInv
        <2>2. CASE n \in DOMAIN files /\ files'[n] = files[n]
            BY <1>1, <2>2 DEF FilesInv, RecentInv
        <2>3. CASE n = name /\ files'[n].rows = <<>> /\ files'[n].resets = resets
            BY <1>1, <2>1, <2>3
        <2> QED
            BY <1>2, <2>2, <2>3
    <1>9. RowInv'
        <2> SUFFICES ASSUME NEW n \in DOMAIN files', NEW k \in DOMAIN files'[n].rows,
                            files'[n].rows[k].created
                     PROVE  /\ files'[n].header
                            /\ S(n) <= S(files'[n].rows[k].at)
                            /\ \A j \in 1 .. (k - 1) :
                                /\ files'[n].rows[j].run = files'[n].rows[k].run
                                /\ S(files'[n].rows[j].at) < S(files'[n].rows[k].at)
            BY DEF RowInv, S
        <2>1. CASE n \in DOMAIN files /\ files'[n] = files[n]
            BY <2>1 DEF FilesInv, RowInv
        <2>2. CASE n = name /\ files'[n].rows = <<>> /\ files'[n].resets = resets
            <3>1. files'[n].rows = <<>>
                BY <2>2
            <3> QED
                BY <3>1
        <2> QED
            BY <1>2, <2>1, <2>2
    <1> QED
        BY <1>5, <1>6, <1>7, <1>8, <1>9

\* The delay at the end of setup leaves the second of the name.
LEMMA DelayKeepsFiles ==
    ASSUME FilesInv, SetupEnds
    PROVE  FilesTypeInv' /\ NameInv' /\ OwnFileInv' /\ RecentInv' /\ RowInv'
    <1>1. /\ phase = "setup" /\ phase' = "loop" /\ seconds' = seconds + 1 /\ osf' = osf /\ resets' = resets
          /\ UNCHANGED <<filename, created, files, run>>
        BY DEF SetupEnds, Delay, SecondPasses
    <1>2. seconds \in Nat /\ filename \in Dates /\ S(filename) \in Nat
        BY SecondsType, DateSeconds DEF FilesInv, FilesTypeInv
    <1>3. FilesTypeInv'
        BY <1>1 DEF FilesInv, FilesTypeInv
    <1>4. NameInv'
        <2>1. S(filename)' = S(filename)
            BY <1>1 DEF S
        <2> QED
            BY <1>1, <1>2, <2>1 DEF FilesInv, NameInv
    <1>5. OwnFileInv'
        <2> SUFFICES ASSUME created, NEW k \in DOMAIN files[filename].rows
                     PROVE  /\ filename \in DOMAIN files /\ files[filename].header
                            /\ files[filename].rows[k].run = run /\ files[filename].rows[k].created
                            /\ S(files[filename].rows[k].at) <= seconds'
            BY <1>1 DEF OwnFileInv, FilesInv, S
        <2>1. /\ filename \in DOMAIN files /\ files[filename].header
              /\ files[filename].rows[k].run = run /\ files[filename].rows[k].created
              /\ S(files[filename].rows[k].at) <= seconds
            BY <1>1 DEF FilesInv, OwnFileInv
        <2>2. S(files[filename].rows[k].at) \in Nat
            BY <2>1, RowType, DateSeconds DEF FilesInv
        <2> QED
            BY <1>1, <1>2, <2>1, <2>2
    <1>6. RecentInv'
        <2> SUFFICES ASSUME NEW n \in DOMAIN files
                     PROVE  /\ files[n].resets <= resets
                            /\ files[n].resets = resets =>
                                ~osf /\ S(n) <= seconds' /\ (files[n].rows # <<>> => S(n) < seconds')
            BY <1>1 DEF RecentInv, S
        <2>1. S(n) \in Nat
            BY DateSeconds DEF FilesInv, FilesTypeInv
        <2> QED
            BY <1>1, <1>2, <2>1 DEF FilesInv, RecentInv
    <1>7. RowInv'
        BY <1>1 DEF FilesInv, RowInv, S
    <1> QED
        BY <1>3, <1>4, <1>5, <1>6, <1>7

\* One row more, at the end of the file of this run.
LEMMA AppendKeepsFiles ==
    ASSUME RealDates, FilesInv, appendData
    PROVE  FilesTypeInv' /\ NameInv' /\ OwnFileInv' /\ RecentInv' /\ RowInv'
    <1> DEFINE base == IF filename \in DOMAIN files THEN files[filename].rows ELSE <<>>
               row == Row
               g == files'[filename]
               Entry == [run : 1 .. MaxRuns, created : BOOLEAN, at : Dates]
    <1>1. /\ phase = "loop" /\ phase' = phase
          /\ UNCHANGED <<osf, seconds, resets, filename, created, run>>
        BY DEF appendData, chip
    <1>2. /\ seconds \in Nat /\ seconds = S(Today) /\ Today \in Dates
          /\ filename \in Dates /\ S(filename) \in Nat /\ S(filename) < seconds /\ ~osf
        BY <1>1, SecondsType, DateSeconds DEF FilesInv, FilesTypeInv, CalendarInv, NameInv, S
    <1>3. row = [run |-> run, created |-> created, at |-> Today]
        BY DEF Row, Today
    <1>4. row \in Entry /\ row.run = run /\ row.created = created /\ row.at = Today
        BY <1>1, <1>2, <1>3, Bounds DEF FilesInv, FilesTypeInv
    <1> HIDE DEF row
    <1>5. base \in Seq(Entry)
        <2>1. CASE filename \in DOMAIN files
            BY <2>1 DEF FilesInv, FilesTypeInv, Rows
        <2>2. CASE filename \notin DOMAIN files
            BY <2>2
        <2> QED
            BY <2>1, <2>2
    <1>6. /\ DOMAIN files' = DOMAIN files \cup {filename}
          /\ \A n \in DOMAIN files : n # filename => files'[n] = files[n]
        BY DEF appendData
    <1>7. /\ g \in [header : BOOLEAN, rows : Seq(Entry), resets : Nat]
          /\ g.rows = Append(base, row)
          /\ filename \in DOMAIN files => g.header = files[filename].header /\ g.resets = files[filename].resets
          /\ filename \notin DOMAIN files => g.resets = resets
        <2>1. CASE filename \in DOMAIN files
            <3>1. g = [files[filename] EXCEPT !.rows = Append(@, row)]
                BY <2>1 DEF appendData, row
            <3>2. files[filename] \in [header : BOOLEAN, rows : Seq(Entry), resets : Nat]
                BY <2>1 DEF FilesInv, FilesTypeInv, Rows
            <3>3. Append(files[filename].rows, row) \in Seq(Entry)
                BY <1>4, <3>2
            <3> HIDE DEF g, Entry
            <3>4. /\ g \in [header : BOOLEAN, rows : Seq(Entry), resets : Nat]
                  /\ g.rows = Append(files[filename].rows, row)
                  /\ g.header = files[filename].header /\ g.resets = files[filename].resets
                BY <3>1, <3>2, <3>3
            <3> QED
                BY <2>1, <3>4 DEF g
        <2>2. CASE filename \notin DOMAIN files
            <3>1. g = [header |-> FALSE, rows |-> <<row>>, resets |-> resets]
                BY <2>2 DEF appendData, row
            <3>2. <<row>> \in Seq(Entry) /\ resets \in Nat
                BY <1>4 DEF FilesInv, FilesTypeInv
            <3>3. <<row>> = Append(<<>>, row)
                OBVIOUS
            <3> HIDE DEF g, Entry
            <3>4. /\ g \in [header : BOOLEAN, rows : Seq(Entry), resets : Nat]
                  /\ g.rows = <<row>> /\ g.resets = resets
                BY <3>1, <3>2
            <3> QED
                BY <2>2, <3>3, <3>4 DEF g
        <2> QED
            BY <2>1, <2>2
    <1>8. \A k \in DOMAIN base : base[k] # row
        <2>1. CASE filename \in DOMAIN files
            <3>1. row \notin Range(files[filename].rows)
                BY <2>1 DEF appendData, row
            <3> QED
                BY <2>1, <3>1 DEF Range
        <2>2. CASE filename \notin DOMAIN files
            BY <2>2
        <2> QED
            BY <2>1, <2>2
    <1> HIDE DEF base, g
    <1>9. ASSUME NEW k \in DOMAIN g.rows
          PROVE  /\ k \in 1 .. Len(base) + 1
                 /\ k \in 1 .. Len(base) => k \in DOMAIN base /\ g.rows[k] = base[k]
                 /\ k = Len(base) + 1 => g.rows[k] = row
        <2> HIDE DEF Entry
        <2> QED
            BY <1>4, <1>5, <1>7
    <1>10. Len(base) \in Nat /\ g.rows # <<>>
        <2> HIDE DEF Entry
        <2> QED
            BY <1>4, <1>5, <1>7
    <1>11. ASSUME NEW n \in DOMAIN files'
           PROVE  (n \in DOMAIN files /\ n # filename /\ files'[n] = files[n]) \/ (n = filename /\ files'[n] = g)
        BY <1>6 DEF g
    <1>12. ASSUME created
           PROVE  /\ filename \in DOMAIN files /\ files[filename].header /\ g.header
                  /\ \A k \in DOMAIN base : base[k].run = run /\ base[k].created /\ S(base[k].at) <= seconds
        BY <1>1, <1>7, <1>12 DEF FilesInv, OwnFileInv, base
    <1>13. FilesTypeInv'
        <2>1. ASSUME NEW n \in DOMAIN files'
              PROVE  n \in Dates /\ files'[n] \in [header : BOOLEAN, rows : Rows, resets : Nat]
            BY <1>2, <1>7, <1>11 DEF FilesInv, FilesTypeInv, Rows
        <2> QED
            BY <1>1, <2>1 DEF FilesInv, FilesTypeInv
    <1>14. NameInv'
        BY <1>1 DEF FilesInv, NameInv, S
    <1>15. OwnFileInv'
        <2>1. ASSUME created
              PROVE  \A k \in DOMAIN g.rows : g.rows[k].run = run /\ g.rows[k].created /\ S(g.rows[k].at) <= seconds
            <3> SUFFICES ASSUME NEW k \in DOMAIN g.rows
                         PROVE  g.rows[k].run = run /\ g.rows[k].created /\ S(g.rows[k].at) <= seconds
                OBVIOUS
            <3>1. CASE k \in 1 .. Len(base)
                BY <1>9, <1>12, <2>1, <3>1
            <3>2. CASE k = Len(base) + 1
                <4>1. g.rows[k] = row
                    BY <1>9, <3>2
                <4>2. row.created
                    BY <1>4, <2>1, Zenon
                <4>3. S(row.at) = seconds
                    BY <1>2, <1>4
                <4> QED
                    BY <1>2, <1>4, <4>1, <4>2, <4>3
            <3> QED
                BY <1>9, <1>10, <3>1, <3>2
        <2> QED
            BY <1>1, <1>6, <1>12, <2>1 DEF OwnFileInv, g, S
    <1>16. RecentInv'
        <2> SUFFICES ASSUME NEW n \in DOMAIN files'
                     PROVE  /\ files'[n].resets <= resets
                            /\ files'[n].resets = resets =>
                                ~osf /\ S(n) <= seconds /\ (files'[n].rows # <<>> => S(n) < seconds)
            BY <1>1 DEF RecentInv, S
        <2>1. CASE n \in DOMAIN files /\ n # filename /\ files'[n] = files[n]
            BY <2>1 DEF FilesInv, RecentInv
        <2>2. CASE n = filename /\ files'[n] = g
            <3>1. g.resets <= resets
                BY <1>7 DEF FilesInv, RecentInv, FilesTypeInv
            <3> QED
                BY <1>2, <2>2, <3>1
        <2> QED
            BY <1>11, <2>1, <2>2
    <1>17. RowInv'
        <2> SUFFICES ASSUME NEW n \in DOMAIN files', NEW k \in DOMAIN files'[n].rows,
                            files'[n].rows[k].created
                     PROVE  /\ files'[n].header
                            /\ S(n) <= S(files'[n].rows[k].at)
                            /\ \A j \in 1 .. (k - 1) :
                                /\ files'[n].rows[j].run = files'[n].rows[k].run
                                /\ S(files'[n].rows[j].at) < S(files'[n].rows[k].at)
            BY DEF RowInv, S
        <2>1. CASE n \in DOMAIN files /\ n # filename /\ files'[n] = files[n]
            BY <2>1 DEF FilesInv, RowInv
        <2>2. CASE n = filename /\ files'[n] = g
            <3>1. k \in DOMAIN g.rows /\ g.rows[k].created
                BY <2>2
            <3>2. CASE k \in 1 .. Len(base)
                <4>1. k \in DOMAIN base /\ g.rows[k] = base[k] /\ base[k].created
                    BY <1>9, <3>1, <3>2
                <4>2. filename \in DOMAIN files /\ base = files[filename].rows
                    <5>1. base # <<>>
                        BY <4>1
                    <5> QED
                        BY <5>1 DEF base
                <4>3. /\ files[filename].header /\ S(filename) <= S(base[k].at)
                      /\ \A j \in 1 .. (k - 1) : base[j].run = base[k].run /\ S(base[j].at) < S(base[k].at)
                    BY <4>1, <4>2 DEF FilesInv, RowInv
                <4>4. \A j \in 1 .. (k - 1) : g.rows[j] = base[j]
                    <5>1. \A j \in 1 .. (k - 1) : j \in DOMAIN g.rows /\ j \in 1 .. Len(base)
                        BY <1>5, <1>7, <1>10, <3>2, SMTT(30)
                    <5> QED
                        BY <1>9, <5>1
                <4> QED
                    BY <1>7, <2>2, <4>1, <4>2, <4>3, <4>4
            <3>3. CASE k = Len(base) + 1
                <4>1. g.rows[k] = row /\ S(row.at) = seconds
                    BY <1>2, <1>4, <1>9, <3>1, <3>3
                <4>2. created
                    BY <1>4, <3>1, <4>1, Zenon
                <4>3. ASSUME NEW j \in 1 .. (k - 1)
                      PROVE  g.rows[j].run = row.run /\ S(g.rows[j].at) < seconds
                    <5>1. j \in DOMAIN g.rows /\ j \in 1 .. Len(base) /\ j \in DOMAIN base
                        BY <1>5, <1>7, <1>10, <3>3
                    <5>2. g.rows[j] = base[j]
                        BY <1>9, <5>1
                    <5>3. base[j].run = run /\ base[j].created /\ S(base[j].at) <= seconds
                        BY <1>12, <4>2, <5>1
                    <5>4. base[j] \in Entry
                        <6> HIDE DEF Entry
                        <6> QED
                            BY <1>5, <5>1, ElementType
                    <5>5. base[j].at # row.at
                        <6>1. base[j].created = TRUE /\ row.created = TRUE
                            BY <1>4, <3>1, <4>1, <5>3, <5>4
                        <6>2. base[j].run = row.run
                            BY <1>4, <5>3
                        <6>3. base[j] # row
                            BY <1>8, <5>1
                        <6>4. ASSUME NEW a \in Entry, NEW b \in Entry,
                                     a.run = b.run, a.created = b.created, a.at = b.at
                              PROVE  a = b
                            BY <6>4
                        <6> HIDE DEF Entry
                        <6> QED
                            BY <1>4, <5>4, <6>1, <6>2, <6>3, <6>4
                    <5>6. base[j].at \in Dates /\ row.at \in Dates
                        BY <1>4, <5>4
                    <5>7. S(base[j].at) # seconds
                        BY <4>1, <5>5, <5>6, EarlierIsLess DEF S
                    <5>8. S(base[j].at) \in Nat
                        BY <5>6, DateSeconds
                    <5> QED
                        BY <1>2, <1>4, <5>2, <5>3, <5>7, <5>8
                <4> QED
                    BY <1>2, <1>12, <2>2, <4>1, <4>2, <4>3
            <3> QED
                BY <1>9, <1>10, <3>1, <3>2, <3>3
        <2> QED
            BY <1>11, <2>1, <2>2
    <1> QED
        BY <1>13, <1>14, <1>15, <1>16, <1>17

LEMMA FilesHold ==
    ASSUME RealDates, AfterTheFirstHour, InTheCentury
    PROVE  Spec => []FilesInv
    <1>1. Init => FilesTypeInv /\ NameInv /\ OwnFileInv /\ RecentInv /\ RowInv
        <2> SUFFICES ASSUME Init
                     PROVE  FilesTypeInv /\ NameInv /\ OwnFileInv /\ RecentInv /\ RowInv
            OBVIOUS
        <2>1. /\ phase = "off" /\ created = FALSE /\ files = <<>> /\ run = 0 /\ resets = 0 /\ osf \in BOOLEAN
              /\ filename = Today
            BY DEF Init, Today
        <2>2. Today \in Dates
            <3>1. PICK dt \in ChipTimes \cup {Epoch} : registers = Registers(dt)
                BY DEF Init
            <3>2. dt \in Dates
                BY EpochIsDate DEF RealDates
            <3> QED
                BY <3>1, <3>2, RegistersHold, DateTypes, Zenon DEF Today
        <2>3. DOMAIN files = {}
            BY <2>1
        <2>4. FilesTypeInv
            <3>1. run \in 0 .. MaxRuns
                BY <2>1, Bounds
            <3> QED
                BY <2>1, <2>2, <2>3, <3>1 DEF FilesTypeInv
        <2>5. NameInv /\ OwnFileInv
            BY <2>1, Zenon DEF NameInv, OwnFileInv
        <2>6. RecentInv /\ RowInv
            BY <2>3 DEF RecentInv, RowInv
        <2> QED
            BY <2>4, <2>5, <2>6
    <1>2. FilesInv /\ CalendarInv' /\ [Next]_vars => FilesInv'
        <2> SUFFICES ASSUME FilesInv, CalendarInv', [Next]_vars
                     PROVE  FilesTypeInv' /\ NameInv' /\ OwnFileInv' /\ RecentInv' /\ RowInv'
            BY DEF FilesInv
        <2>1. CASE TimePasses
            <3>1. /\ phase' = phase /\ osf' = osf /\ resets' = resets /\ Still /\ Elapse
                BY <2>1 DEF TimePasses, Elapse, Still
            <3>2. seconds' \in Nat /\ seconds <= seconds'
                <4>1. seconds' > seconds /\ seconds' = secondstime(Today') /\ Today' \in Dates
                    BY <3>1, ElapsePreserves DEF FilesInv
                <4>2. seconds \in Nat /\ seconds' \in Nat
                    BY <4>1, SecondsType, SecondsOfDate DEF FilesInv
                <4> QED
                    BY <4>1, <4>2
            <3> QED
                BY <3>1, <3>2, ElapseKeepsFiles
        <2>2. CASE RtcLosesPower
            BY <2>2, ResetKeepsFiles
        <2>3. CASE Setup
            BY <2>3, SetupKeepsFiles
        <2>4. CASE SetupEnds
            BY <2>4, DelayKeepsFiles
        <2>5. CASE appendData
            BY <2>5, AppendKeepsFiles
        <2>6. CASE Stop
            BY <2>6, StopKeepsFiles
        <2>7. CASE UNCHANGED vars
            BY <2>7 DEF vars, chip, FilesInv, FilesTypeInv, NameInv, OwnFileInv, RecentInv, RowInv, S
        <2> QED
            BY <2>1, <2>2, <2>3, <2>4, <2>5, <2>6, <2>7 DEF Next
    <1> QED
        BY <1>1, <1>2, CalendarHolds, PTL DEF FilesInv, Spec

\* A run that could create its file finds in it only what it wrote itself.
THEOREM FileAlwaysOfOneRun ==
    ASSUME RealDates, AfterTheFirstHour, InTheCentury
    PROVE  Spec => []FileOfOneRun
    <1>1. FilesInv => FileOfOneRun
        <2> SUFFICES ASSUME FilesInv, NEW n \in DOMAIN files, NEW k \in DOMAIN files[n].rows,
                            files[n].rows[k].created
                     PROVE  /\ files[n].header
                            /\ ~Earlier(files[n].rows[k].at, n)
                            /\ \A j \in 1 .. (k - 1) :
                                /\ files[n].rows[j].run = files[n].rows[k].run
                                /\ Earlier(files[n].rows[j].at, files[n].rows[k].at)
            BY DEF FileOfOneRun
        <2>1. /\ files[n].header /\ S(n) <= S(files[n].rows[k].at)
              /\ \A j \in 1 .. (k - 1) :
                    /\ files[n].rows[j].run = files[n].rows[k].run
                    /\ S(files[n].rows[j].at) < S(files[n].rows[k].at)
            BY DEF FilesInv, RowInv
        <2>2. n \in Dates /\ files[n].rows[k].at \in Dates
            BY RowType DEF FilesInv, FilesTypeInv
        <2>3. S(n) \in Nat /\ S(files[n].rows[k].at) \in Nat
            BY <2>2, DateSeconds
        <2>4. ~Earlier(files[n].rows[k].at, n)
            BY <2>1, <2>2, <2>3, EarlierIsLess DEF S
        <2>5. ASSUME NEW j \in 1 .. (k - 1)
              PROVE  Earlier(files[n].rows[j].at, files[n].rows[k].at)
            <3>1. j \in DOMAIN files[n].rows
                <4>1. files[n].rows \in Rows
                    BY DEF FilesInv, FilesTypeInv
                <4> QED
                    BY <4>1 DEF Rows
            <3>2. files[n].rows[j].at \in Dates
                BY <3>1, RowType DEF FilesInv
            <3> QED
                BY <2>1, <2>2, <2>5, <3>2, EarlierIsLess DEF S
        <2> QED
            BY <2>1, <2>4, <2>5
    <1> QED
        BY <1>1, FilesHold, PTL

LEMMA SameIsPrefix ==
    ASSUME NEW T, NEW s \in Seq(T)
    PROVE  IsPrefix(s, s)
    BY DEF IsPrefix

LEMMA LongerIsPrefix ==
    ASSUME NEW T, NEW s \in Seq(T), NEW x
    PROVE  IsPrefix(s, Append(s, x))
    BY DEF IsPrefix

\* As long as the clock keeps its time no row is erased.
THEOREM NothingErasedWithoutReset ==
    ASSUME RealDates, AfterTheFirstHour, InTheCentury
    PROVE  Spec => RowsErasedOnlyAfterReset
    <1> DEFINE Kept == \A n \in DOMAIN files :
                            ~IsPrefix(files[n].rows, files'[n].rows) => resets > files[n].resets
    <1>1. FilesInv /\ CalendarInv' /\ [Next]_vars => [Kept]_vars
        <2> SUFFICES ASSUME FilesInv, [Next]_vars, NEW n \in DOMAIN files,
                            files[n].resets = resets
                     PROVE  IsPrefix(files[n].rows, files'[n].rows)
            BY DEF FilesInv, FilesTypeInv, RecentInv
        <2>1. files[n].rows \in Rows
            BY DEF FilesInv, FilesTypeInv
        <2>2. CASE files' = files
            BY <2>1, <2>2, SameIsPrefix DEF Rows
        <2>3. CASE Setup
            <3>1. /\ filename' \in Dates /\ seconds' = S(filename') /\ (~osf => seconds' = seconds)
                  /\ n \in DOMAIN files'
                  /\ \/ files'[n] = files[n]
                     \/ n = filename' /\ files'[n].rows = <<>>
                BY <2>3, SetupWrites
            <3>2. CASE files'[n] = files[n]
                BY <2>1, <3>2, SameIsPrefix DEF Rows
            <3>3. CASE n = filename' /\ files'[n].rows = <<>>
                <4>1. S(n) = seconds /\ (files[n].rows # <<>> => S(n) < seconds)
                    BY <3>1, <3>3 DEF FilesInv, RecentInv
                <4>2. files[n].rows = <<>>
                    BY <4>1, SecondsType DEF FilesInv
                <4> QED
                    BY <2>1, <3>3, <4>2, SameIsPrefix DEF Rows
            <3> QED
                BY <3>1, <3>2, <3>3
        <2>4. CASE appendData
            <3>1. CASE n # filename
                <4>1. files'[n] = files[n]
                    BY <2>4, <3>1 DEF appendData
                <4> QED
                    BY <2>1, <4>1, SameIsPrefix DEF Rows
            <3>2. CASE n = filename
                <4>1. files'[n] = [files[n] EXCEPT !.rows = Append(@, Row)]
                    BY <2>4, <3>2 DEF appendData
                <4>2. files[n] \in [header : BOOLEAN, rows : Rows, resets : Nat]
                    BY DEF FilesInv, FilesTypeInv
                <4>3. files'[n].rows = Append(files[n].rows, Row)
                    BY <4>1, <4>2
                <4> QED
                    BY <2>1, <4>3, LongerIsPrefix DEF Rows
            <3> QED
                BY <3>1, <3>2
        <2> QED
            BY <2>2, <2>3, <2>4
               DEF Next, TimePasses, RtcLosesPower, SetupEnds, Stop, vars
    <1> QED
        BY <1>1, FilesHold, CalendarHolds, PTL DEF Spec, RowsErasedOnlyAfterReset

\* The types of the files and of the chip.
THEOREM FilesTypeCorrect ==
    ASSUME RealDates, AfterTheFirstHour, InTheCentury
    PROVE  Spec => []TypeOK
    <1>1. FilesInv => TypeOK
        <2> SUFFICES ASSUME FilesInv
                     PROVE  TypeOK
            OBVIOUS
        <2>1. Dates \subseteq DateTimes
            BY DateTypes
        <2>2. /\ build \in BuildTimes /\ passed \in 0 .. MaxSeconds /\ seconds \in Nat
              /\ now(registers) \in DateTimes
            BY <2>1, SecondsType DEF FilesInv, CalendarInv, Today
        <2>3. ASSUME NEW r \in Rows
              PROVE  r \in Seq([run : 1 .. MaxRuns, created : BOOLEAN, at : DateTimes])
            <3>1. [run : 1 .. MaxRuns, created : BOOLEAN, at : Dates]
                      \subseteq [run : 1 .. MaxRuns, created : BOOLEAN, at : DateTimes]
                BY <2>1
            <3>2. ASSUME NEW A, NEW B, A \subseteq B, NEW s \in Seq(A)
                  PROVE  s \in Seq(B)
                BY <3>2
            <3> QED
                BY <3>1, <3>2, Zenon DEF Rows
        <2>4. ASSUME NEW n \in DOMAIN files
              PROVE  n \in DateTimes /\ files[n] \in File
            BY <2>1, <2>3 DEF FilesInv, FilesTypeInv, File
        <2> QED
            BY <2>1, <2>2, <2>4 DEF FilesInv, FilesTypeInv, TypeOK
    <1> QED
        BY <1>1, FilesHold, PTL

\* The conversions of RTClib count the seconds of the calendar, and back, and its
\* operator< compares them: for every date of the century.
THEOREM CalendarIsRight ==
    \A dt \in Dates :
        /\ secondstime(dt) = SecondsBefore(dt)
        /\ DateTime(SecondsBefore(dt)) = dt
        /\ \A other \in Dates : Earlier(dt, other) <=> SecondsBefore(dt) < SecondsBefore(other)
    BY SecondsCounted, DateOfSeconds, EarlierIsLess
=============================================================================
