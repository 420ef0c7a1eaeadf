-------------------------------- MODULE Date --------------------------------
(***************************************************************************)
(* muduo::Date (base/datetime/Date.h, Date.cc): a day of the Gregorian     *)
(* calendar is kept as its Julian day number; the two conversions between  *)
(* that number and year, month and day are integer formulas.  Every        *)
(* dividend is non-negative for the years after -4800, so the truncating   *)
(* division of C++ and \div agree.                                         *)
(***************************************************************************)
EXTENDS Integers

kDaysPerWeek == 7

GetJulianDayNumber(year, month, day) ==
  LET a == (14 - month) \div 12
      y == (year + 4800) - a
      m == (month + (12 * a)) - 3
  IN  ((day + (((153 * m) + 2) \div 5)) + (y * 365))
        + (((y \div 4) - (y \div 100)) + ((y \div 400) - 32045))

\* The formula with the leap rule of the Julian calendar.
kJulianDayOf1970_01_01 == GetJulianDayNumber(1970, 1, 1)

\* getYearMonthDay before its last adjustment: b counts centuries from March
\* of -4800, d years of the century, m months from March, e days of the year.
Century(jdn) == ((4 * (jdn + 32044)) + 3) \div 146097
DayOfCentury(jdn) == (jdn + 32044) - ((Century(jdn) * 146097) \div 4)
YearOfCentury(jdn) == ((4 * DayOfCentury(jdn)) + 3) \div 1461
DayOfYear(jdn) == DayOfCentury(jdn) - ((1461 * YearOfCentury(jdn)) \div 4)
MonthFromMarch(jdn) == ((5 * DayOfYear(jdn)) + 2) \div 153

GetYearMonthDay(jdn) ==
  LET m == MonthFromMarch(jdn)
  IN  [year  |-> (((Century(jdn) * 100) + YearOfCentury(jdn)) - 4800) + (m \div 10),
       month |-> (m + 3) - (12 * (m \div 10)),
       day   |-> (DayOfYear(jdn) - (((153 * m) + 2) \div 5)) + 1]

WeekDay(jdn) == (jdn + 1) % kDaysPerWeek

-----------------------------------------------------------------------------
(* The calendar itself, the reference for the formulas. *)

LeapYear(y) == y % 4 = 0 /\ (y % 100 # 0 \/ y % 400 = 0)

DaysInMonth(y, m) ==
  IF m = 2 THEN IF LeapYear(y) THEN 29 ELSE 28
           ELSE IF m \in {4, 6, 9, 11} THEN 30 ELSE 31

Dates == {ymd \in [year : Int, month : 1..12, day : 1..31] :
            ymd.year > -4800 /\ ymd.day <= DaysInMonth(ymd.year, ymd.month)}

NextDay(ymd) ==
  IF ymd.day < DaysInMonth(ymd.year, ymd.month)
  THEN [ymd EXCEPT !.day = @ + 1]
  ELSE [year  |-> IF ymd.month = 12 THEN ymd.year + 1 ELSE ymd.year,
        month |-> IF ymd.month = 12 THEN 1 ELSE ymd.month + 1,
        day   |-> 1]

JulianDayNumber(ymd) == GetJulianDayNumber(ymd.year, ymd.month, ymd.day)
=============================================================================
