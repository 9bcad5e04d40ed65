------------------------------ MODULE Calendar ------------------------------
(***************************************************************************)
(* gmtime and mktime: src/time/time_utils.cpp and src/time/mktime.cpp, for *)
(* a 64-bit time_t.  A time is <<days, seconds>>, the quotient and the     *)
(* remainder by SECONDS_PER_DAY, because TLC's integers have 32 bits; the  *)
(* check for years beyond the int range is left out for the same reason.   *)
(***************************************************************************)
EXTENDS Integers, Sequences, SequencesExt

\* C's division rounds towards zero, and its remainder has the dividend's sign.
Quot(a, b) == IF a >= 0 THEN a \div b ELSE -((-a) \div b)
Rem(a, b) == a - b * Quot(a, b)

SECONDS_PER_DAY == 86400
DAYS_PER_NON_LEAP_YEAR == 365
DAYS_PER4_YEARS == DAYS_PER_NON_LEAP_YEAR * 4 + 1
DAYS_PER100_YEARS == DAYS_PER_NON_LEAP_YEAR * 100 + (100 \div 4) - 1
DAYS_PER400_YEARS == DAYS_PER_NON_LEAP_YEAR * 400 + (400 \div 4) - 3
DaysUntil2000MarchFirst == 946684800 \div SECONDS_PER_DAY + 31 + 29
WEEK_DAY_OF2000_MARCH_FIRST == 3

\* Mutant: the last day of a leap cycle begins the next cycle.
computeRemainingYears_unadjusted(daysPerYears, quotientYears, remainingDays) ==
  LET years == Quot(remainingDays, daysPerYears)
  IN  [years |-> years, days |-> remainingDays - years * daysPerYears]

\* How many whole cycles, and the days that remain; the last day of the leap year
\* that ends the last cycle still belongs to it.
computeRemainingYears(daysPerYears, quotientYears, remainingDays) ==
  LET q == Quot(remainingDays, daysPerYears)
      years == IF q = quotientYears THEN q - 1 ELSE q
  IN  [years |-> years, days |-> remainingDays - years * daysPerYears]

\* Days in month starting from March in the year 2000.
daysInMonth == <<31, 30, 31, 30, 31, 31, 30, 31, 30, 31, 31, 29>>

RECURSIVE MonthsOf(_, _)
MonthsOf(months, remainingDays) ==
  IF daysInMonth[months + 1] <= remainingDays
  THEN MonthsOf(months + 1, remainingDays - daysInMonth[months + 1])
  ELSE <<months, remainingDays>>

\* The quotient and the remainder with the remainder made nonnegative.
Floored(a, b) ==
  IF Rem(a, b) < 0 THEN <<Quot(a, b) - 1, Rem(a, b) + b>> ELSE <<Quot(a, b), Rem(a, b)>>

update_from_seconds(time) ==
  LET days == time[1] - DaysUntil2000MarchFirst
      seconds == time[2]
      wday == Floored(WEEK_DAY_OF2000_MARCH_FIRST + days, 7)[2]
      fourHundred == Floored(days, DAYS_PER400_YEARS)
      hundred == computeRemainingYears(DAYS_PER100_YEARS, 4, fourHundred[2])
      four == computeRemainingYears(DAYS_PER4_YEARS, 25, hundred.days)
      one == computeRemainingYears(DAYS_PER_NON_LEAP_YEAR, 4, four.days)
      years == one.years + 4 * four.years + 100 * hundred.years + 400 * fourHundred[1]
      leapDay == IF one.years = 0 /\ (four.years # 0 \/ hundred.years = 0) THEN 1 ELSE 0
      y == one.days + 31 + 28 + leapDay
      yearDays == DAYS_PER_NON_LEAP_YEAR + leapDay
      m == MonthsOf(0, one.days)
      late == m[1] >= 10
  IN  [tm_year |-> (IF late THEN years + 1 ELSE years) + 2000 - 1900,
       tm_mon |-> (IF late THEN m[1] - 12 ELSE m[1]) + 2,
       tm_mday |-> m[2] + 1, tm_wday |-> wday,
       tm_yday |-> IF y >= yearDays THEN y - yearDays ELSE y,
       tm_hour |-> seconds \div 3600, tm_min |-> (seconds \div 60) % 60,
       tm_sec |-> seconds % 60]

NON_LEAP_YEAR_DAYS_IN_MONTH == <<31, 28, 31, 30, 31, 30, 31, 31, 30, 31, 30, 31>>

get_num_of_leap_years_before(year) == Quot(year, 4) - Quot(year, 100) + Quot(year, 400)

is_leap_year(year) == Rem(year, 4) = 0 /\ (Rem(year, 100) # 0 \/ Rem(year, 400) = 0)

\* The days mktime adds for leap years between 1970 and year.
LeapDays(year) ==
  LET before(y) == get_num_of_leap_years_before(y)
  IN  IF year >= 1970 THEN before(year - 1) - before(1970)
      ELSE IF year >= 1 THEN -(before(1970) - before(year - 1))
      ELSE -(before(1970) - before(0)) - 1 -
           (IF year < 0 THEN before(-year) - before(1) ELSE 0)

\* mktime returns the time; the tm it leaves behind is update_from_seconds of it.
mktime(tm) ==
  LET carry == tm.tm_mon < 0 \/ tm.tm_mon >= 11
      q == Floored(tm.tm_mon, 12)
      month == IF carry THEN q[2] ELSE tm.tm_mon
      year == tm.tm_year + 1900 + (IF carry THEN q[1] ELSE 0)
      before == FoldLeft(LAMBDA sum, d : sum + d, 0,
                         SubSeq(NON_LEAP_YEAR_DAYS_IN_MONTH, 1, month))
      days == tm.tm_mday - 1 + before + (IF is_leap_year(year) /\ month > 1 THEN 1 ELSE 0)
              + (year - 1970) * DAYS_PER_NON_LEAP_YEAR + LeapDays(year)
      seconds == Floored(tm.tm_sec + tm.tm_min * 60 + tm.tm_hour * 3600, SECONDS_PER_DAY)
  IN  <<days + seconds[1], seconds[2]>>

(***************************************************************************)
(* The calendar they have to implement: what day follows a day.            *)
(***************************************************************************)
MonthLength(tm) ==
  IF tm.tm_mon = 1 /\ is_leap_year(tm.tm_year + 1900) THEN 29
  ELSE NON_LEAP_YEAR_DAYS_IN_MONTH[tm.tm_mon + 1]

DayAfter(tm) ==
  LET newMonth == tm.tm_mday = MonthLength(tm)
      newYear == newMonth /\ tm.tm_mon = 11
  IN  [tm EXCEPT !.tm_wday = (@ + 1) % 7,
                 !.tm_yday = IF newYear THEN 0 ELSE @ + 1,
                 !.tm_mday = IF newMonth THEN 1 ELSE @ + 1,
                 !.tm_mon = IF newYear THEN 0 ELSE IF newMonth THEN @ + 1 ELSE @,
                 !.tm_year = IF newYear THEN @ + 1 ELSE @]

Epoch == [tm_year |-> 70, tm_mon |-> 0, tm_mday |-> 1, tm_wday |-> 4, tm_yday |-> 0,
          tm_hour |-> 0, tm_min |-> 0, tm_sec |-> 0]

DayIsRight(day) ==
  LET time == <<day, 86399>>
      tm == update_from_seconds(time)
  IN  /\ update_from_seconds(<<day + 1, 86399>>) = DayAfter(tm)
      /\ mktime(tm) = time
      /\ \A k \in {-13, 1} : mktime([tm EXCEPT !.tm_mon = @ + 12 * k]) =
                              mktime([tm EXCEPT !.tm_year = @ + k])
      /\ \A k \in {-400, 60} : mktime([tm EXCEPT !.tm_mday = @ + k])[1] = day + k
      /\ mktime([tm EXCEPT !.tm_sec = @ + 1]) = <<day + 1, 0>>

\* Day by day through the years, the leap years and the centuries before and after
\* the epoch: gmtime of the next day is the day after, mktime gets the time back
\* from gmtime's answer, and mktime of fields out of their range (months, days and
\* seconds counted on) is the time they stand for.
YearIsRight(year) ==
  LET first == mktime([Epoch EXCEPT !.tm_year = year - 1900])[1]
  IN  /\ update_from_seconds(<<0, 0>>) = Epoch
      /\ \A day \in first .. first + 366 : DayIsRight(day)
=============================================================================
