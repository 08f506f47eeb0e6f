------------------------------ MODULE Calendar ------------------------------
(***************************************************************************)
(* The calendar behind the date operations (src/calendar/grigorian.c,      *)
(* selected by dateop_set_calendar): dates are made of year, month, day    *)
(* and time, and taken apart again.  A date is a count of seconds from the *)
(* first day of year 1; here it is its whole days and the seconds of the   *)
(* last one.  The code counts in 64 bits and does not look at the size of  *)
(* the year: the product at grigorian.c:139 wraps beyond MaxYear, and such *)
(* years are not followed.                                                 *)
(***************************************************************************)
EXTENDS Integers

CONSTANTS
  Days,           \* dates that are taken apart
  MadeYears, MadeMonths, MadeDays, MadeTimes,  \* what dates are made of
  MaxYear         \* bound: the last year whose seconds fit into a uint64

DAYS_IN_4_PERIOD   == 1461
DAYS_IN_100_PERIOD == 36524
DAYS_IN_400_PERIOD == 146097
MONTHS             == 12

ASSUME CalendarAssumption ==
  /\ Days \subseteq Nat
  /\ MaxYear \in Nat /\ MadeYears \subseteq 0 .. MaxYear
  /\ MadeMonths \subseteq 0 .. 255 /\ MadeDays \subseteq 0 .. 255
  /\ MadeTimes \subseteq [hour : 0 .. 255, min : 0 .. 255, sec : 0 .. 255]

month_days(leap) ==
  <<31, IF leap THEN 29 ELSE 28, 31, 30, 31, 30, 31, 31, 30, 31, 30, 31>>
year_day_by_month(leap) ==
  IF leap THEN <<0, 31, 60, 91, 121, 152, 182, 213, 244, 274, 305, 335>>
  ELSE <<0, 31, 59, 90, 120, 151, 181, 212, 243, 273, 304, 334>>

----------------------------------------------------------------------------
(* Years in a row of them that each have 365 days, but the last 366.       *)
PlainYearOf4(rest) == rest \div 365   \* mutant: the last day of a leap year
YearOf4(rest) == IF rest = DAYS_IN_4_PERIOD - 1 THEN 3 ELSE rest \div 365

trunc_to_year(day) ==
  LET rest400 == day % DAYS_IN_400_PERIOD
      rest100 == rest400 % DAYS_IN_100_PERIOD
      rest4   == rest100 % DAYS_IN_4_PERIOD
  IN IF rest400 = DAYS_IN_400_PERIOD - 1 THEN day - 365
     ELSE (day \div DAYS_IN_400_PERIOD) * DAYS_IN_400_PERIOD
          + (rest400 \div DAYS_IN_100_PERIOD) * DAYS_IN_100_PERIOD
          + (rest100 \div DAYS_IN_4_PERIOD) * DAYS_IN_4_PERIOD
          + YearOf4(rest4) * 365

is_leap_year(day) ==
  LET rest400 == day % DAYS_IN_400_PERIOD
      rest100 == rest400 % DAYS_IN_100_PERIOD
  IN \/ rest400 >= DAYS_IN_400_PERIOD - 366
     \/ rest100 < DAYS_IN_100_PERIOD - 365
        /\ rest100 % DAYS_IN_4_PERIOD >= DAYS_IN_4_PERIOD - 366

extract_year(day) ==
  LET rest400 == day % DAYS_IN_400_PERIOD
      last    == rest400 = DAYS_IN_400_PERIOD - 1
      y100    == IF last THEN 3 ELSE rest400 \div DAYS_IN_100_PERIOD
      rest100 == IF last THEN DAYS_IN_100_PERIOD ELSE rest400 % DAYS_IN_100_PERIOD
  IN (day \div DAYS_IN_400_PERIOD) * 400 + y100 * 100 + (rest100 \div DAYS_IN_4_PERIOD) * 4
     + YearOf4(rest100 % DAYS_IN_4_PERIOD) + 1

(* The walk along the months of the year, as both functions do it: the     *)
(* first month that does not end before the day, and the days before it.   *)
year_day(day) == day - trunc_to_year(day)
DaysBefore(leap) ==
  LET before[m \in 1 .. MONTHS] == IF m = 1 THEN 0 ELSE before[m - 1] + month_days(leap)[m - 1]
  IN before

extract_month_of_year(day) ==
  LET before == DaysBefore(is_leap_year(day))
  IN CHOOSE m \in 1 .. MONTHS : /\ before[m] <= year_day(day)
                                /\ m = MONTHS \/ year_day(day) < before[m + 1]

extract_day_of_month(day) ==
  year_day(day) - DaysBefore(is_leap_year(day))[extract_month_of_year(day)] + 1

----------------------------------------------------------------------------
LeapYear(year) == (year % 4 = 0 /\ year % 100 # 0) \/ year % 400 = 0

MonthsOf31(year, month, day) ==    \* mutant: the month is not looked up
  IF month \notin 1 .. 12 THEN 1 ELSE IF year < 1 THEN 6 ELSE IF day \notin 1 .. 31 THEN 2 ELSE 0

(* The return code of make_date, 0 where there is such a day.              *)
DateError(year, month, day) ==
  IF month \notin 1 .. 12 THEN 1
  ELSE IF year < 1 THEN 6
  ELSE IF day \notin 1 .. month_days(LeapYear(year))[month] THEN 2 ELSE 0

TimeError(time) ==
  IF time.hour > 23 THEN 3 ELSE IF time.min > 59 THEN 4 ELSE IF time.sec > 59 THEN 5 ELSE 0

make_date(year, month, day) ==
  ((year - 1) \div 400) * DAYS_IN_400_PERIOD
  + (((year - 1) % 400) \div 100) * DAYS_IN_100_PERIOD
  + (((year - 1) % 100) \div 4) * DAYS_IN_4_PERIOD
  + ((year - 1) % 4) * 365
  + year_day_by_month(LeapYear(year))[month] + day - 1

SecondOfDay(time) == time.hour * 3600 + time.min * 60 + time.sec

----------------------------------------------------------------------------
VARIABLES
  made,    \* the parts a date was made of, or <<>>
  made_ret,    \* what make_date_with_time returned
  date,    \* [day, sec], or <<>> while there is none
  taken    \* the parts a date was taken apart to, or <<>>
calendarVars == <<made, made_ret, date, taken>>

CalendarInit == made = <<>> /\ made_ret = 0 /\ date = <<>> /\ taken = <<>>

NoDate == made = <<>> /\ date = <<>>

make_date_with_time(year, month, day, time) ==
  /\ made' = [year |-> year, month |-> month, day |-> day, time |-> time]
  /\ made_ret' = IF TimeError(time) # 0 THEN TimeError(time) ELSE DateError(year, month, day)
  /\ date' = IF made_ret' = 0 THEN [day |-> make_date(year, month, day), sec |-> SecondOfDay(time)]
             ELSE date
  /\ UNCHANGED taken

(* A date out of a value of the server.                                    *)
Arrives(day) ==
  /\ date' = [day |-> day, sec |-> 0]
  /\ UNCHANGED <<made, made_ret, taken>>

TakenApart(d) ==
  [year |-> extract_year(d.day), month |-> extract_month_of_year(d.day),
   day |-> extract_day_of_month(d.day),
   time |-> [hour |-> d.sec \div 3600, min |-> (d.sec % 3600) \div 60, sec |-> d.sec % 60]]

Extract ==
  /\ date # <<>> /\ taken = <<>>
  /\ taken' = TakenApart(date)
  /\ UNCHANGED <<made, made_ret, date>>

CalendarNext ==
  \/ NoDate /\ \E day \in Days : Arrives(day)
  \/ NoDate /\ \E year \in MadeYears, month \in MadeMonths, day \in MadeDays,
                    time \in MadeTimes :
       make_date_with_time(year, month, day, time)
  \/ Extract

CalendarSpec == CalendarInit /\ [][CalendarNext]_calendarVars

----------------------------------------------------------------------------
(* What the calendar of the world does from one day to the next.           *)
LastOf(year, month) ==
  CASE month = 2 -> IF LeapYear(year) THEN 29 ELSE 28
    [] month \in {4, 6, 9, 11} -> 30
    [] OTHER -> 31
Tomorrow(d) ==
  IF d.day < LastOf(d.year, d.month) THEN [d EXCEPT !.day = @ + 1]
  ELSE IF d.month < 12 THEN [d EXCEPT !.day = 1, !.month = @ + 1]
  ELSE [d EXCEPT !.day = 1, !.month = 1, !.year = @ + 1]

(* The parts of a date are those of the day before moved on by one day,    *)
(* over the ends of months, years, leap years and centuries, and the year  *)
(* they are of begins where trunc_to_year says (grigorian.c:31-105).       *)
DaysFollow ==
  taken # <<>> =>
    /\ date.day = 0 => taken.year = 1 /\ taken.month = 1 /\ taken.day = 1
    /\ TakenApart([date EXCEPT !.day = @ + 1]) = Tomorrow(taken)
    /\ is_leap_year(date.day) = LeapYear(taken.year)
    /\ trunc_to_year(date.day) = make_date(taken.year, 1, 1)

(* What a date was made of is what it is taken apart to, and only what is  *)
(* no day or no time of one is refused (grigorian.c:107-143).              *)
MadeAsTaken ==
  /\ made # <<>> /\ taken # <<>> => taken = made
  /\ made = <<>> /\ taken # <<>> => date.day = make_date(taken.year, taken.month, taken.day)
  /\ made # <<>> =>
       (made_ret = 0 <=> /\ made.year >= 1 /\ made.month \in 1 .. 12
                    /\ made.day \in 1 .. LastOf(made.year, made.month)
                    /\ made.time.hour < 24 /\ made.time.min < 60 /\ made.time.sec < 60)

=============================================================================
