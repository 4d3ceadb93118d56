--------------------------------- MODULE RTC ---------------------------------
(***************************************************************************)
(* Dates as RTClib computes them: DateTime, its conversion to seconds and  *)
(* back, and the registers of the DS3231.  Seconds count from 2000, the    *)
(* constant between 1970 and 2000 cancels out.                             *)
(***************************************************************************)
EXTENDS Integers, FiniteSets

daysInMonth == <<31, 28, 31, 30, 31, 30, 31, 31, 30, 31, 30>>

DateTimes == [yOff : 0 .. 99, m : 1 .. 12, d : 1 .. 31, hh : 0 .. 23, mm : 0 .. 59, ss : 0 .. 59]

leap(yOff) == IF yOff % 4 = 0 THEN 1 ELSE 0

\* Days of the months before month m, without a leap day.
MonthsBefore[m \in 1 .. 12] == IF m = 1 THEN 0 ELSE MonthsBefore[m - 1] + daysInMonth[m - 1]

\* Mutated form: the leap day of a year counts from January.
date2days_Early(y, m, d) ==
    MonthsBefore[m] + d + (IF m > 1 THEN leap(y) ELSE 0) + 365 * y + (y + 3) \div 4 - 1

date2days(y, m, d) ==
    MonthsBefore[m] + d + (IF m > 2 THEN leap(y) ELSE 0) + 365 * y + (y + 3) \div 4 - 1

secondstime(dt) ==
    ((date2days(dt.yOff, dt.m, dt.d) * 24 + dt.hh) * 60 + dt.mm) * 60 + dt.ss

\* The two loops of DateTime(uint32_t): whole years, then whole months.
YearLoop[at \in Nat \X Nat] ==
    LET yOff == at[1]  days == at[2]
    IN  IF days < 365 + leap(yOff) THEN at
        ELSE YearLoop[<<yOff + 1, days - (365 + leap(yOff))>>]

MonthLoop[at \in (1 .. 12) \X {0, 1} \X Nat] ==
    LET m == at[1]  leapDay == at[2]  days == at[3]
        daysPerMonth == daysInMonth[m] + (IF m = 2 THEN leapDay ELSE 0)
    IN  IF m = 12 \/ days < daysPerMonth THEN at
        ELSE MonthLoop[<<m + 1, leapDay, days - daysPerMonth>>]

DateTime(t) ==
    LET year == YearLoop[<<0, t \div 86400>>]
        month == MonthLoop[<<1, leap(year[1]), year[2]>>]
    IN  [yOff |-> year[1], m |-> month[1], d |-> month[3] + 1,
         hh |-> (t \div 3600) % 24, mm |-> (t \div 60) % 60, ss |-> t % 60]

Minus(dt, seconds) == DateTime(secondstime(dt) - seconds)

\* operator<
Earlier(left, right) ==
    LET fields(x) == <<x.yOff, x.m, x.d, x.hh, x.mm, x.ss>>
    IN  \E k \in 1 .. 6 : /\ fields(left)[k] < fields(right)[k]
                          /\ \A j \in 1 .. (k - 1) : fields(left)[j] = fields(right)[j]

-----------------------------------------------------------------------------
\* The registers hold BCD.
bin2bcd(val) == val + 6 * (val \div 10)
bcd2bin(val) == val - 6 * (val \div 16)

Registers(dt) ==
    [yOff |-> bin2bcd(dt.yOff), m |-> bin2bcd(dt.m), d |-> bin2bcd(dt.d),
     hh |-> bin2bcd(dt.hh), mm |-> bin2bcd(dt.mm), ss |-> bin2bcd(dt.ss)]

\* RTC_DS3231::now; bit 7 of the seconds and of the month is masked.
now(registers) ==
    [yOff |-> bcd2bin(registers.yOff), m |-> bcd2bin(registers.m % 128), d |-> bcd2bin(registers.d),
     hh |-> bcd2bin(registers.hh), mm |-> bcd2bin(registers.mm), ss |-> bcd2bin(registers.ss % 128)]

-----------------------------------------------------------------------------
\* The calendar the chip counts in, and how many seconds of it precede a date.
DaysOf(yOff, m) ==
    IF m \in {4, 6, 9, 11} THEN 30 ELSE IF m # 2 THEN 31 ELSE IF yOff % 4 = 0 THEN 29 ELSE 28

NextDay(dt) ==
    IF dt.d < DaysOf(dt.yOff, dt.m) THEN [dt EXCEPT !.d = @ + 1]
    ELSE IF dt.m < 12 THEN [dt EXCEPT !.d = 1, !.m = @ + 1]
    ELSE [dt EXCEPT !.d = 1, !.m = 1, !.yOff = (@ + 1) % 100]

NextSecond(dt) ==
    IF dt.ss < 59 THEN [dt EXCEPT !.ss = @ + 1]
    ELSE IF dt.mm < 59 THEN [dt EXCEPT !.ss = 0, !.mm = @ + 1]
    ELSE IF dt.hh < 23 THEN [dt EXCEPT !.ss = 0, !.mm = 0, !.hh = @ + 1]
    ELSE NextDay([dt EXCEPT !.ss = 0, !.mm = 0, !.hh = 0])

\* The days before that of a date, as years, months and days.
DaysBefore(dt) ==
    {x \in (0 .. dt.yOff) \X (1 .. 12) \X (1 .. 31) :
        /\ x[3] <= DaysOf(x[1], x[2])
        /\ \/ x[1] < dt.yOff
           \/ x[1] = dt.yOff /\ x[2] < dt.m
           \/ x[1] = dt.yOff /\ x[2] = dt.m /\ x[3] < dt.d}

SecondsBefore(dt) ==
    86400 * Cardinality(DaysBefore(dt)) + 3600 * dt.hh + 60 * dt.mm + dt.ss
=============================================================================
