--------------------------- MODULE TimeZoneProofs ---------------------------
(***************************************************************************)
(* The formulas of Date.cc against the Gregorian calendar, for every day   *)
(* of every year after -4800 (TLC and the unit tests walk through a few    *)
(* centuries only), and the two invariants of TimeZone for every zone file *)
(* and every instant.  The UTC conversions rest on the theorems about      *)
(* Date; the local ones on a lemma that says which entry of an ordered     *)
(* table findLocaltime finds.                                              *)
(***************************************************************************)
EXTENDS TimeZone, WellFoundedInduction, TLAPS

-----------------------------------------------------------------------------
(* Date. *)


(* The day number of the first of March of a year that begins in March,   *)
(* counted from March of -4800.                                            *)
YearStart(y) == (365 * y) + ((y \div 4) - (y \div 100)) + (y \div 400)

(* e is a day of the year y that begins in March: only a year that ends in *)
(* a leap day has a day 365.                                               *)
DayOf(y, e) == e \in 0..365 /\ (e = 365 => LeapYear(y + 1))

(* jdn is the number of the day e of the year y, and what getYearMonthDay  *)
(* makes of it.                                                            *)
Numbers(jdn, y, e) == jdn + 32044 = e + YearStart(y)
Finds(jdn, y, e) == /\ (Century(jdn) * 100) + YearOfCentury(jdn) = y
                    /\ DayOfYear(jdn) = e

(* Division by a constant is the only number between its two bounds. *)
LEMMA QuotientIsUnique ==
  ASSUME NEW x \in Int, NEW q \in Int
  PROVE  /\ (146097 * q <= x /\ x < 146097 * (q + 1)) => x \div 146097 = q
         /\ (1461 * q <= x /\ x < 1461 * (q + 1)) => x \div 1461 = q
         /\ (153 * q <= x /\ x < 153 * (q + 1)) => x \div 153 = q
  BY SMT

(* The year and the day in it are recovered from the day number. *)
LEMMA YearFound ==
  ASSUME NEW y \in Nat, NEW e, DayOf(y, e), NEW jdn \in Int, Numbers(jdn, y, e)
  PROVE  Finds(jdn, y, e)
<1> DEFINE b == y \div 100
           r == y % 100
           c == (e + (365 * r)) + (r \div 4)
           a == jdn + 32044
<1> USE DEF DayOf, Numbers, Finds
<1>1. b \in Nat /\ r \in 0..99 /\ y = (100 * b) + r
  BY SMT
<1>2. y \div 4 = (25 * b) + (r \div 4) /\ y \div 400 = b \div 4
  BY <1>1, SMT
<1>3. a = c + ((36524 * b) + (b \div 4))
  BY <1>1, <1>2, SMT DEF YearStart
<1>4. (b * 146097) \div 4 = (36524 * b) + (b \div 4)
  BY <1>1, SMT
<1>5. e = 365 => r % 4 = 3 /\ (r = 99 => b % 4 = 3)
  BY <1>1, SMT DEF LeapYear
<1>6. c \in Nat /\ c <= 36524 /\ (c = 36524 => b % 4 = 3)
  BY <1>1, <1>5, SMT
<1>7. Century(jdn) = b
  <2>1. 146097 * b <= (4 * a) + 3 /\ (4 * a) + 3 < 146097 * (b + 1)
    BY <1>1, <1>3, <1>6, SMT
  <2> QED BY <1>1, <2>1, QuotientIsUnique DEF Century
<1>8. DayOfCentury(jdn) = c
  BY <1>1, <1>3, <1>4, <1>7, SMT DEF DayOfCentury
<1>9. YearOfCentury(jdn) = r
  <2>1. 1461 * r <= (4 * c) + 3 /\ (4 * c) + 3 < 1461 * (r + 1)
    BY <1>1, <1>5, SMT
  <2>2. r \in Int /\ (4 * c) + 3 \in Int
    BY <1>1, <1>6, SMT
  <2>3. ((4 * c) + 3) \div 1461 = r
    <3> HIDE DEF c, r
    <3> QED BY <2>1, <2>2, QuotientIsUnique
  <2> QED BY <1>8, <2>3 DEF YearOfCentury
<1>10. DayOfYear(jdn) = e
  <2>1. (1461 * r) \div 4 = (365 * r) + (r \div 4)
    BY <1>1, SMT
  <2> QED BY <1>1, <1>8, <1>9, <2>1, SMT DEF DayOfYear
<1> QED BY <1>1, <1>7, <1>9, <1>10, SMT

(* The fields of a date. *)
LEMMA DateFields ==
  ASSUME NEW ymd \in Dates
  PROVE  /\ ymd.year \in Int /\ ymd.year > -4800
         /\ ymd.month \in 1..12
         /\ ymd.day \in 1..31 /\ ymd.day <= DaysInMonth(ymd.year, ymd.month)
         /\ ymd = [year |-> ymd.year, month |-> ymd.month, day |-> ymd.day]
  BY DEF Dates

(* A date in a year that begins in March. *)
Jan(ymd) == IF ymd.month <= 2 THEN 1 ELSE 0
MarchMonth(ymd) == (ymd.month + (12 * Jan(ymd))) - 3
MarchYear(ymd) == (ymd.year + 4800) - Jan(ymd)
MarchDay(ymd) == (ymd.day - 1) + (((153 * MarchMonth(ymd)) + 2) \div 5)

LEMMA MarchDate ==
  ASSUME NEW ymd \in Dates
  PROVE  /\ Jan(ymd) \in {0, 1} /\ MarchMonth(ymd) \in 0..11 /\ MarchYear(ymd) \in Nat
         /\ MarchMonth(ymd) \div 10 = Jan(ymd)
         /\ DayOf(MarchYear(ymd), MarchDay(ymd))
         /\ JulianDayNumber(ymd) \in Int
         /\ Numbers(JulianDayNumber(ymd), MarchYear(ymd), MarchDay(ymd))
<1> USE DEF Jan, MarchMonth, MarchYear, MarchDay
<1>1. /\ Jan(ymd) \in {0, 1} /\ MarchMonth(ymd) \in 0..11 /\ MarchYear(ymd) \in Nat
      /\ (14 - ymd.month) \div 12 = Jan(ymd) /\ MarchMonth(ymd) \div 10 = Jan(ymd)
  BY DateFields, SMT
<1>2. DayOf(MarchYear(ymd), MarchDay(ymd))
  BY <1>1, DateFields, SMT DEF DayOf, DaysInMonth, LeapYear
<1>3. /\ JulianDayNumber(ymd) \in Int
      /\ Numbers(JulianDayNumber(ymd), MarchYear(ymd), MarchDay(ymd))
  BY <1>1, DateFields, SMT DEF JulianDayNumber, GetJulianDayNumber, Numbers, YearStart
<1> QED BY <1>1, <1>2, <1>3

(* getYearMonthDay undoes getJulianDayNumber: a Date built from year,     *)
(* month and day (Date.cc:50) reads back as the same three numbers.        *)
THEOREM DateRoundTrip ==
  ASSUME NEW ymd \in Dates
  PROVE  GetYearMonthDay(JulianDayNumber(ymd)) = ymd
<1> DEFINE m   == MarchMonth(ymd)
           y   == MarchYear(ymd)
           e   == MarchDay(ymd)
           jdn == JulianDayNumber(ymd)
<1>1. Finds(jdn, y, e)
  BY MarchDate, YearFound
<1>2. MonthFromMarch(jdn) = m
  <2>1. 153 * m <= (5 * e) + 2 /\ (5 * e) + 2 < 153 * (m + 1)
    BY DateFields, SMT DEF DaysInMonth, MarchDay, MarchMonth, Jan
  <2>2. m \in Int /\ (5 * e) + 2 \in Int
    BY MarchDate DEF DayOf
  <2>3. ((5 * e) + 2) \div 153 = m
    <3> HIDE DEF e, m
    <3> QED BY <2>1, <2>2, QuotientIsUnique
  <2> QED BY <1>1, <2>3 DEF MonthFromMarch, Finds
<1>3. GetYearMonthDay(jdn) = [year |-> ymd.year, month |-> ymd.month, day |-> ymd.day]
  <2>1. m \div 10 = Jan(ymd)
    BY MarchDate
  <2> QED BY <1>1, <1>2, <2>1, DateFields, SMT
         DEF GetYearMonthDay, Finds, MarchDay, MarchYear, MarchMonth, Jan
<1> QED BY <1>3, DateFields

(* The first of March is the day after the last of February. *)
LEMMA FebruaryEnds ==
  ASSUME NEW y \in Int, y > -4800
  PROVE  GetJulianDayNumber(y, 3, 1) = GetJulianDayNumber(y, 2, DaysInMonth(y, 2)) + 1
<1>1. GetJulianDayNumber(y, 3, 1)
        = GetJulianDayNumber(y, 2, 28) + (IF LeapYear(y) THEN 2 ELSE 1)
  BY SMT DEF GetJulianDayNumber, LeapYear
<1>2. GetJulianDayNumber(y, 2, 29) = GetJulianDayNumber(y, 2, 28) + 1
  BY SMT DEF GetJulianDayNumber
<1>3. GetJulianDayNumber(y, 2, 28) \in Int
  BY SMT DEF GetJulianDayNumber
<1> QED BY <1>1, <1>2, <1>3 DEF DaysInMonth

(* Day numbers count the days of the calendar one by one: the day after   *)
(* ymd, by the rules for months, leap years and centuries, has the next    *)
(* number.  Together with the number of one day this fixes all the others. *)
THEOREM DayNumbersCountDays ==
  ASSUME NEW ymd \in Dates
  PROVE  /\ NextDay(ymd) \in Dates
         /\ JulianDayNumber(NextDay(ymd)) = JulianDayNumber(ymd) + 1
<1> DEFINE y == ymd.year
           m == ymd.month
           last == ymd.day = DaysInMonth(y, m)
           next == [year  |-> IF last /\ m = 12 THEN y + 1 ELSE y,
                    month |-> IF last THEN IF m = 12 THEN 1 ELSE m + 1 ELSE m,
                    day   |-> IF last THEN 1 ELSE ymd.day + 1]
<1>1. NextDay(ymd) = next
  BY DateFields, SMT DEF NextDay, DaysInMonth
<1>2. next \in Dates
  BY DateFields, SMT DEF Dates, DaysInMonth
<1>3. JulianDayNumber(next) = GetJulianDayNumber(next.year, next.month, next.day)
  BY DEF JulianDayNumber
<1>4. GetJulianDayNumber(next.year, next.month, next.day)
        = GetJulianDayNumber(y, m, ymd.day) + 1
  <2>1. CASE ~last
    <3>1. next.year = y /\ next.month = m /\ next.day = ymd.day + 1
      BY <2>1
    <3> QED BY <3>1, DateFields, SMT DEF GetJulianDayNumber
  <2>2. CASE last /\ m = 2
    <3>1. next.year = y /\ next.month = 3 /\ next.day = 1
      BY <2>2
    <3> QED BY <2>2, <3>1, DateFields, FebruaryEnds
  <2>3. CASE last /\ m = 12
    <3>1. next.year = y + 1 /\ next.month = 1 /\ next.day = 1
      BY <2>3
    <3> QED BY <2>3, <3>1, DateFields, SMT DEF GetJulianDayNumber, DaysInMonth
  <2>4. CASE last /\ m # 2 /\ m # 12
    <3>1. next.year = y /\ next.month = m + 1 /\ next.day = 1
      BY <2>4
    <3> QED BY <2>4, <3>1, DateFields, SMT DEF GetJulianDayNumber, DaysInMonth
  <2> QED BY <2>1, <2>2, <2>3, <2>4
<1> QED BY <1>1, <1>2, <1>3, <1>4 DEF JulianDayNumber

HasYear(jdn) == \E y \in Nat, e \in Nat : DayOf(y, e) /\ Numbers(jdn, y, e)

LEMMA CenturyBound ==
  ASSUME NEW c \in Int, NEW j \in 0..3, j <= (4 * c) + 3, (4 * c) + 3 < 146097 + j
  PROVE  c \in Nat /\ c <= 36524 /\ (c = 36524 => j = 3)
<1>1. 0 <= c
  BY SMT
<1>2. j # 3 => c <= 36523
  BY SMT
<1>3. j = 3 => c <= 36524
  BY SMT
<1> QED BY <1>1, <1>2, <1>3, SMT

(* Every day number has its year and its day in it. *)
LEMMA YearExists ==
  ASSUME NEW jdn \in Int, jdn + 32044 \in Nat
  PROVE  HasYear(jdn)
<1> DEFINE a == jdn + 32044
           b == ((4 * a) + 3) \div 146097
           c == a - ((b * 146097) \div 4)
           r == ((4 * c) + 3) \div 1461
           e == c - ((1461 * r) \div 4)
           y == (100 * b) + r
<1>1. b \in Nat /\ 146097 * b <= (4 * a) + 3 /\ (4 * a) + 3 < 146097 * (b + 1)
  BY SMT
<1>2. (b * 146097) \div 4 = (36524 * b) + (b \div 4)
  BY <1>1, SMT
<1>3. c \in Nat /\ c <= 36524 /\ (c = 36524 => b % 4 = 3)
  <2>1. b = (4 * (b \div 4)) + (b % 4) /\ b \div 4 \in Nat /\ b % 4 \in 0..3
    <3> HIDE DEF b
    <3> QED BY <1>1, SMT
  <2>2. (4 * c) + 3 = (((4 * a) + 3) - (146097 * b)) + (b % 4) /\ c \in Int
    <3> HIDE DEF b
    <3> QED BY <1>1, <1>2, <2>1, SMT
  <2>3. b % 4 <= (4 * c) + 3 /\ (4 * c) + 3 < 146097 + (b % 4)
    <3> HIDE DEF b, c
    <3> QED BY <1>1, <2>1, <2>2, SMT
  <2> DEFINE j == b % 4
  <2> HIDE DEF b, c, j
  <2>4. j \in 0..3 /\ c \in Int /\ j <= (4 * c) + 3 /\ (4 * c) + 3 < 146097 + j
    BY <2>1, <2>2, <2>3 DEF j
  <2>5. c \in Nat /\ c <= 36524 /\ (c = 36524 => j = 3)
    BY <2>4, CenturyBound
  <2> QED BY <2>5 DEF j
<1>4. r \in 0..99 /\ 1461 * r <= (4 * c) + 3 /\ (4 * c) + 3 < 1461 * (r + 1)
  <2> HIDE DEF c
  <2> QED BY <1>3, SMT
<1>5. (1461 * r) \div 4 = (365 * r) + (r \div 4)
  <2> HIDE DEF r
  <2> QED BY <1>4, SMT
<1>6. e \in 0..365 /\ (e = 365 => r % 4 = 3 /\ (r = 99 => c = 36524))
  <2> HIDE DEF r, c
  <2> QED BY <1>3, <1>4, <1>5, SMT
<1>7. e = 365 => LeapYear(y + 1)
  <2> SUFFICES ASSUME e = 365 PROVE LeapYear(y + 1)
    OBVIOUS
  <2> HIDE DEF e, r, c, b
  <2>1. CASE r = 99
    <3>1. b % 4 = 3 /\ y + 1 = 100 * (b + 1)
      BY <1>1, <1>3, <1>6, <2>1, SMT
    <3>2. (b + 1) % 4 = 0
      BY <1>1, <3>1, SMT
    <3> QED BY <1>1, <3>1, <3>2, SMT DEF LeapYear
  <2>2. CASE r # 99
    <3>1. (r + 1) % 4 = 0 /\ r + 1 \in 1..99 /\ y + 1 = (100 * b) + (r + 1)
      BY <1>1, <1>4, <1>6, <2>2, SMT
    <3> QED BY <1>1, <3>1, SMT DEF LeapYear
  <2> QED BY <2>1, <2>2
<1>8. /\ y \in Nat
      /\ y \div 100 = b /\ y \div 4 = (25 * b) + (r \div 4) /\ y \div 400 = b \div 4
  <2> HIDE DEF e, r, c, b
  <2> QED BY <1>1, <1>4, SMT
<1>9. Numbers(jdn, y, e)
  <2>1. a = (e + ((365 * r) + (r \div 4))) + ((36524 * b) + (b \div 4))
    <3> HIDE DEF b, r
    <3> QED BY <1>1, <1>2, <1>4, <1>5, SMT
  <2> HIDE DEF e, r, b
  <2> QED BY <1>1, <1>4, <1>6, <1>8, <2>1, SMT DEF Numbers, YearStart
<1> HIDE DEF y, e
<1> QED BY <1>6, <1>7, <1>8, <1>9 DEF DayOf, HasYear

(* getYearMonthDay yields a date of the calendar for every day number from *)
(* the first of January -4799 on, and getJulianDayNumber leads back to it. *)
THEOREM DayNumberRoundTrip ==
  ASSUME NEW jdn \in Int, jdn >= -31738
  PROVE  /\ GetYearMonthDay(jdn) \in Dates
         /\ JulianDayNumber(GetYearMonthDay(jdn)) = jdn
<1>1. PICK y \in Nat, e \in Nat : DayOf(y, e) /\ Numbers(jdn, y, e)
  <2>1. jdn + 32044 \in Nat
    BY SMT
  <2>2. HasYear(jdn)
    BY <2>1, YearExists
  <2> QED BY <2>2 DEF HasYear
<1>2. Finds(jdn, y, e)
  BY <1>1, YearFound
<1> DEFINE m   == ((5 * e) + 2) \div 153
           jan == IF m >= 10 THEN 1 ELSE 0
           ymd == [year  |-> (y - 4800) + jan,
                   month |-> (m + 3) - (12 * jan),
                   day   |-> (e - (((153 * m) + 2) \div 5)) + 1]
<1>3. m \in 0..11 /\ m \div 10 = jan /\ (y = 0 => jan = 1)
  BY <1>1, SMT DEF DayOf, Numbers, YearStart
<1>4. GetYearMonthDay(jdn) = ymd
  <2>1. MonthFromMarch(jdn) = m
    BY <1>2 DEF Finds, MonthFromMarch
  <2> HIDE DEF m
  <2> QED BY <1>2, <1>3, <2>1, SMT DEF GetYearMonthDay, Finds
<1>5. ymd \in Dates
  BY <1>1, <1>3, SMT DEF Dates, DayOf, DaysInMonth, LeapYear
<1>6. MarchYear(ymd) = y /\ MarchDay(ymd) = e
  BY <1>3, SMT DEF MarchYear, MarchDay, MarchMonth, Jan
<1>7. JulianDayNumber(ymd) = jdn
  <2>1. JulianDayNumber(ymd) \in Int /\ Numbers(JulianDayNumber(ymd), y, e)
    BY <1>5, <1>6, MarchDate
  <2>2. YearStart(y) \in Int
    BY SMT DEF YearStart
  <2> QED BY <1>1, <2>1, <2>2, SMT DEF Numbers
<1> QED BY <1>4, <1>5, <1>7

(* The weekday (Date.h:98) runs through the week in step with the days.   *)
COROLLARY WeekDaysInStep ==
  ASSUME NEW ymd \in Dates
  PROVE  WeekDay(JulianDayNumber(NextDay(ymd)))
           = (WeekDay(JulianDayNumber(ymd)) + 1) % kDaysPerWeek
<1>1. JulianDayNumber(ymd) \in Int
  BY DateFields, SMT DEF JulianDayNumber, GetJulianDayNumber
<1> QED BY <1>1, DayNumbersCountDays, SMT DEF WeekDay, kDaysPerWeek

(* The epoch of toUtcTime and fromUtcTime, a Thursday. *)
LEMMA EpochDay ==
  kJulianDayOf1970_01_01 = 2440588 /\ WeekDay(kJulianDayOf1970_01_01) = 4
  BY SMT DEF kJulianDayOf1970_01_01, GetJulianDayNumber, WeekDay, kDaysPerWeek


-----------------------------------------------------------------------------
(* UTC *)

(* toUtcTime splits an instant into its day and the seconds of that day,   *)
(* also before 1970, where the division of C++ truncates upwards.          *)
LEMMA ToUtcTimeSplits ==
  ASSUME NEW t \in Int
  PROVE  /\ ToUtcTime(t) = UtcTm(t \div kSecondsPerDay, t % kSecondsPerDay)
         /\ t = ((t \div kSecondsPerDay) * kSecondsPerDay) + (t % kSecondsPerDay)
         /\ t \div kSecondsPerDay \in Int /\ t % kSecondsPerDay \in Nat /\ t % kSecondsPerDay < 86400
<1> DEFINE q == t \div 86400
           s == t % 86400
           days == Quot(t, 86400)
           seconds == Rem(t, 86400)
<1>1. q \in Int /\ s \in Nat /\ s < 86400 /\ t = (q * 86400) + s
  BY SMT
<1>2. IF seconds < 0 THEN days - 1 = q /\ seconds + 86400 = s
                     ELSE days = q /\ seconds = s
  BY SMT DEF Quot, Rem
<1>3. kSecondsPerDay = 86400
  BY SMT DEF kSecondsPerDay
<1>4. ToUtcTime(t) = UtcTm(q, s)
  BY <1>2, <1>3 DEF ToUtcTime
<1> QED BY <1>1, <1>3, <1>4

(* The fields of the broken-down time of a day and a time of day. *)
LEMMA UtcTmFields ==
  ASSUME NEW days \in Int, NEW seconds \in Nat, seconds < 86400,
         days + kJulianDayOf1970_01_01 >= -31738
  PROVE  LET utc == UtcTm(days, seconds)
             jdn == days + kJulianDayOf1970_01_01
             ymd == GetYearMonthDay(jdn)
         IN  /\ utc.tm_year + 1900 = ymd.year /\ utc.tm_mon + 1 = ymd.month
             /\ utc.tm_mday = ymd.day
             /\ utc.tm_wday = WeekDay(jdn)
             /\ utc.tm_yday = jdn - GetJulianDayNumber(ymd.year, 1, 1)
             /\ utc.tm_hour \in 0..23 /\ utc.tm_min \in 0..59 /\ utc.tm_sec \in 0..59
             /\ ((utc.tm_hour * 3600) + (utc.tm_min * 60)) + utc.tm_sec = seconds
             /\ ymd \in Dates /\ JulianDayNumber(ymd) = jdn /\ jdn \in Int
             /\ utc.tm_mon = ymd.month - 1
<1> DEFINE jdn == days + kJulianDayOf1970_01_01
           ymd == GetYearMonthDay(jdn)
           utc == UtcTm(days, seconds)
<1>1. jdn \in Int
  BY EpochDay
<1>2. ymd \in Dates /\ JulianDayNumber(ymd) = jdn
  <2> HIDE DEF jdn
  <2> QED BY <1>1, DayNumberRoundTrip DEF jdn
<1>3. /\ utc.tm_sec = seconds % 60
      /\ utc.tm_min = (seconds \div 60) % 60
      /\ utc.tm_hour = (seconds \div 60) \div 60
  BY DEF UtcTm, FillHMS
<1>4. /\ utc.tm_hour \in 0..23 /\ utc.tm_min \in 0..59 /\ utc.tm_sec \in 0..59
      /\ ((utc.tm_hour * 3600) + (utc.tm_min * 60)) + utc.tm_sec = seconds
  <2> HIDE DEF utc
  <2> QED BY <1>3, SMT
<1>5. /\ utc.tm_year = ymd.year - 1900 /\ utc.tm_mon = ymd.month - 1
      /\ utc.tm_mday = ymd.day
      /\ utc.tm_wday = WeekDay(jdn)
      /\ utc.tm_yday = jdn - GetJulianDayNumber(ymd.year, 1, 1)
  BY DEF UtcTm
<1>6. utc.tm_year + 1900 = ymd.year /\ utc.tm_mon + 1 = ymd.month
  <2>1. ymd.year \in Int /\ ymd.month \in Int
    BY <1>2, DateFields
  <2> HIDE DEF utc, ymd
  <2> QED BY <1>5, <2>1, SMT
<1> QED BY <1>1, <1>2, <1>4, <1>5, <1>6

(* The date a day later is the next date of the calendar. *)
LEMMA NextDate ==
  ASSUME NEW jdn \in Int, jdn >= -31738
  PROVE  GetYearMonthDay(jdn + 1) = NextDay(GetYearMonthDay(jdn))
<1> DEFINE ymd == GetYearMonthDay(jdn)
<1>1. ymd \in Dates /\ JulianDayNumber(ymd) = jdn
  BY DayNumberRoundTrip
<1>2. NextDay(ymd) \in Dates /\ JulianDayNumber(NextDay(ymd)) = jdn + 1
  <2> HIDE DEF ymd
  <2> QED BY <1>1, DayNumbersCountDays
<1>3. GetYearMonthDay(JulianDayNumber(NextDay(ymd))) = NextDay(ymd)
  <2> HIDE DEF ymd
  <2> QED BY <1>2, DateRoundTrip
<1> QED BY <1>2, <1>3

(* The year of the next day is the same unless that day is a first of January. *)
LEMMA NextYear ==
  ASSUME NEW ymd \in Dates
  PROVE  \/ NextDay(ymd).month = 1 /\ NextDay(ymd).day = 1
         \/ /\ NextDay(ymd).year = ymd.year
            /\ ~(NextDay(ymd).month = 1 /\ NextDay(ymd).day = 1)
<1>1. CASE ymd.day < DaysInMonth(ymd.year, ymd.month)
  <2>1. /\ NextDay(ymd).year = ymd.year /\ NextDay(ymd).month = ymd.month
        /\ NextDay(ymd).day = ymd.day + 1
    BY <1>1, DateFields DEF NextDay, Dates
  <2> QED BY <2>1, DateFields
<1>2. CASE ~(ymd.day < DaysInMonth(ymd.year, ymd.month))
  BY <1>2, DateFields DEF NextDay
<1> QED BY <1>1, <1>2

(* What UtcFollowsCalendar says of one instant. *)
THEOREM UtcConversions ==
  ASSUME NEW t \in Int, (t \div kSecondsPerDay) + kJulianDayOf1970_01_01 >= -31738
  PROVE  LET utc == ToUtcTime(t)
             tomorrow == ToUtcTime(t + kSecondsPerDay)
         IN  /\ UtcDate(t) \in Dates
             /\ UtcDate(t + kSecondsPerDay) = NextDay(UtcDate(t))
             /\ tomorrow.tm_wday = (utc.tm_wday + 1) % 7
             /\ tomorrow.tm_yday = IF tomorrow.tm_mon = 0 /\ tomorrow.tm_mday = 1
                                   THEN 0 ELSE utc.tm_yday + 1
             /\ utc.tm_hour \in 0..23 /\ utc.tm_min \in 0..59 /\ utc.tm_sec \in 0..59
             /\ FromUtcTime(utc) = t
<1> DEFINE days == t \div kSecondsPerDay
           secs == t % kSecondsPerDay
           jdn  == days + kJulianDayOf1970_01_01
           ymd  == GetYearMonthDay(jdn)
           next == GetYearMonthDay(jdn + 1)
           utc  == UtcTm(days, secs)
           tomorrow == UtcTm(days + 1, secs)
<1>1. /\ ToUtcTime(t) = utc /\ days \in Int /\ secs \in Nat /\ secs < 86400
      /\ t = (days * kSecondsPerDay) + secs
  BY ToUtcTimeSplits
<1>2. kSecondsPerDay = 86400 /\ jdn \in Int /\ jdn >= -31738
  BY <1>1, EpochDay, SMT DEF kSecondsPerDay
<1>3. ToUtcTime(t + kSecondsPerDay) = tomorrow
  <2>1. (t + 86400) \div 86400 = (t \div 86400) + 1 /\ (t + 86400) % 86400 = t % 86400
    BY SMT
  <2>2. t + kSecondsPerDay \in Int
    BY <1>2
  <2> QED BY <1>2, <2>1, <2>2, ToUtcTimeSplits
<1>4. (days + 1) + kJulianDayOf1970_01_01 = jdn + 1 /\ jdn + 1 >= -31738 /\ days + 1 \in Int
  BY <1>1, <1>2, EpochDay, SMT
<1>5. /\ utc.tm_year + 1900 = ymd.year /\ utc.tm_mon + 1 = ymd.month /\ utc.tm_mday = ymd.day
      /\ utc.tm_wday = WeekDay(jdn)
      /\ utc.tm_yday = jdn - GetJulianDayNumber(ymd.year, 1, 1)
      /\ utc.tm_hour \in 0..23 /\ utc.tm_min \in 0..59 /\ utc.tm_sec \in 0..59
      /\ ((utc.tm_hour * 3600) + (utc.tm_min * 60)) + utc.tm_sec = secs
      /\ ymd \in Dates /\ JulianDayNumber(ymd) = jdn
  <2> HIDE DEF days, secs
  <2> QED BY <1>1, <1>2, UtcTmFields
<1>6. /\ tomorrow.tm_year + 1900 = next.year /\ tomorrow.tm_mon + 1 = next.month
      /\ tomorrow.tm_mday = next.day
      /\ tomorrow.tm_wday = WeekDay(jdn + 1)
      /\ tomorrow.tm_yday = (jdn + 1) - GetJulianDayNumber(next.year, 1, 1)
      /\ next \in Dates /\ JulianDayNumber(next) = jdn + 1
      /\ tomorrow.tm_mon = next.month - 1
  <2> HIDE DEF days, secs
  <2> QED BY <1>1, <1>4, UtcTmFields
<1>7. next = NextDay(ymd)
  <2> HIDE DEF jdn
  <2> QED BY <1>2, NextDate
<1>8. UtcDate(t) = ymd /\ UtcDate(t + kSecondsPerDay) = next
  <2>1. /\ UtcDate(t) = [year |-> ymd.year, month |-> ymd.month, day |-> ymd.day]
        /\ UtcDate(t + kSecondsPerDay) = [year |-> next.year, month |-> next.month, day |-> next.day]
    <3> HIDE DEF utc, tomorrow, ymd, next
    <3> QED BY <1>1, <1>3, <1>5, <1>6 DEF UtcDate
  <2> HIDE DEF ymd, next
  <2> QED BY <1>5, <1>6, <2>1, DateFields
<1>9. tomorrow.tm_wday = (utc.tm_wday + 1) % 7
  <2> HIDE DEF utc, tomorrow, jdn
  <2> QED BY <1>2, <1>5, <1>6, SMT DEF WeekDay, kDaysPerWeek
<1>10. tomorrow.tm_yday = IF tomorrow.tm_mon = 0 /\ tomorrow.tm_mday = 1
                          THEN 0 ELSE utc.tm_yday + 1
  <2>1. /\ next.month \in 1..12 /\ next.year \in Int
        /\ GetJulianDayNumber(next.year, next.month, next.day) = jdn + 1
    <3> HIDE DEF next
    <3> QED BY <1>6, DateFields DEF JulianDayNumber
  <2>2. GetJulianDayNumber(next.year, 1, 1) \in Int
    <3> HIDE DEF next
    <3> QED BY <2>1, SMT DEF GetJulianDayNumber
  <2>3. (tomorrow.tm_mon = 0 /\ tomorrow.tm_mday = 1) <=> (next.month = 1 /\ next.day = 1)
    <3> HIDE DEF next, tomorrow
    <3> QED BY <1>6, <2>1
  <2>4. \/ next.month = 1 /\ next.day = 1
        \/ next.year = ymd.year /\ ~(next.month = 1 /\ next.day = 1)
    <3> HIDE DEF ymd
    <3> QED BY <1>5, <1>7, NextYear
  <2> HIDE DEF next, tomorrow, utc, ymd, jdn
  <2>5. CASE next.month = 1 /\ next.day = 1
    BY <1>2, <1>6, <2>1, <2>2, <2>3, <2>5
  <2>6. CASE next.year = ymd.year /\ ~(next.month = 1 /\ next.day = 1)
    BY <1>2, <1>5, <1>6, <2>2, <2>3, <2>6
  <2> QED BY <2>4, <2>5, <2>6
<1>11. FromUtcTime(utc) = t
  <2>1. GetJulianDayNumber(utc.tm_year + 1900, utc.tm_mon + 1, utc.tm_mday) = jdn
    <3> HIDE DEF utc, ymd
    <3> QED BY <1>5 DEF JulianDayNumber
  <2>2. FromUtcTime(utc) = ((jdn - kJulianDayOf1970_01_01) * kSecondsPerDay) + secs
    <3> HIDE DEF utc, secs, jdn
    <3> QED BY <1>5, <2>1 DEF FromUtcTime
  <2>3. jdn - kJulianDayOf1970_01_01 = days
    BY <1>1, EpochDay
  <2> QED BY <1>1, <2>2, <2>3
<1> HIDE DEF utc, tomorrow, ymd, next, secs, days, jdn
<1> QED BY <1>1, <1>3, <1>5, <1>6, <1>7, <1>8, <1>9, <1>10, <1>11

(* Every instant the program converts is one of Instants. *)
ConvertsInstants == now \in Instants

(* At every instant the program converts, UTC follows the calendar. *)
THEOREM UtcCorrect == Spec => []UtcFollowsCalendar
<1>1. Init => ConvertsInstants
  BY DEF Init, ConvertsInstants
<1>2. ConvertsInstants /\ [Next]_vars => ConvertsInstants'
  BY DEF Next, Convert, vars, ConvertsInstants
<1>3. ConvertsInstants => UtcFollowsCalendar
  <2> SUFFICES ASSUME now \in Instants PROVE UtcFollowsCalendar
    BY DEF ConvertsInstants
  <2>1. kSecondsPerDay = 86400 /\ GetJulianDayNumber(-4799, 1, 1) = -31738
    BY SMT DEF kSecondsPerDay, GetJulianDayNumber
  <2>2. now \in Int /\ (now \div kSecondsPerDay) + kJulianDayOf1970_01_01 >= -31738
    BY <2>1, InstantsAssumption
  <2> QED BY <2>2, UtcConversions DEF UtcFollowsCalendar
<1> QED BY <1>1, <1>2, <1>3, PTL DEF Spec

-----------------------------------------------------------------------------
(* Local time *)

LEMMA HourIsNatural == Hour \in Nat
  BY DEF Hour

LocaltimeTypes == [gmtOffset : Int, isDst : BOOLEAN]

(* What readTimeZoneFile leaves in data when it could read at least one    *)
(* local time type.                                                        *)
WellFormed(d) ==
  /\ d.localtimes \in Seq(LocaltimeTypes) /\ 1 \in DOMAIN d.localtimes
  /\ d.transitions \in Seq([gmttime : Int, localtime : Int, localtimeIdx : Nat])
  /\ \A i \in DOMAIN d.transitions :
       /\ d.transitions[i].localtimeIdx \in DOMAIN d.localtimes
       /\ d.transitions[i].localtime = d.transitions[i].gmttime + TypeAfter(d, i).gmtOffset

(* The keys of the table rise. *)
Rising(d, compareGmt) ==
  \A i, j \in DOMAIN d.transitions :
    i < j => Key(d.transitions[i], compareGmt) < Key(d.transitions[j], compareGmt)

(* i is the latest transition whose key is not after the given one. *)
Latest(d, key, compareGmt, i) ==
  /\ i \in DOMAIN d.transitions
  /\ Key(d.transitions[i], compareGmt) <= key
  /\ \A j \in DOMAIN d.transitions : i < j => key < Key(d.transitions[j], compareGmt)

LEMMA KeysAreIntegers ==
  ASSUME NEW d, WellFormed(d), NEW i \in DOMAIN d.transitions, NEW compareGmt \in BOOLEAN
  PROVE  Key(d.transitions[i], compareGmt) \in Int
<1> DEFINE R == [gmttime : Int, localtime : Int, localtimeIdx : Nat]
<1>1. d.transitions[i] \in R
  <2>1. d.transitions \in Seq(R)
    BY DEF WellFormed
  <2> HIDE DEF R
  <2> QED BY <2>1
<1>2. d.transitions[i].gmttime \in Int /\ d.transitions[i].localtime \in Int
  BY <1>1
<1> QED BY <1>2 DEF Key

(* findLocaltime finds the type of the latest transition: lower_bound      *)
(* stops at it when its key is met exactly and just after it otherwise.    *)
LEMMA FindsLatest ==
  ASSUME NEW d, WellFormed(d), NEW key \in Int, NEW compareGmt \in BOOLEAN,
         Rising(d, compareGmt), NEW i, Latest(d, key, compareGmt, i)
  PROVE  FindLocaltime(d, key, compareGmt) = TypeAfter(d, i)
<1> DEFINE n == Len(d.transitions)
           K(j) == Key(d.transitions[j], compareGmt)
           IsBound(b) == /\ b <= n => K(b) >= key
                         /\ \A j \in 1..(b - 1) : K(j) < key
           lb == IF K(i) = key THEN i ELSE i + 1
<1>1. n \in Nat /\ DOMAIN d.transitions = 1..n
  BY DEF WellFormed
<1>2. i \in 1..n /\ \A j \in 1..n : K(j) \in Int
  BY <1>1, KeysAreIntegers DEF Latest
<1>3. \A j \in 1..n : (j < i => K(j) < K(i)) /\ (i < j => key < K(j))
  BY <1>1, <1>2 DEF Rising, Latest
<1>4. K(i) <= key
  BY DEF Latest
<1> HIDE DEF K, n
<1>5. lb \in 1..(n + 1) /\ IsBound(lb)
  BY <1>1, <1>2, <1>3, <1>4
<1>6. \A b \in 1..(n + 1) : IsBound(b) => b = lb
  <2> SUFFICES ASSUME NEW b \in 1..(n + 1), IsBound(b) PROVE b = lb
    OBVIOUS
  <2>1. ~(b < lb)
    <3> SUFFICES ASSUME b < lb PROVE FALSE
      OBVIOUS
    <3>1. b \in 1..n /\ K(b) >= key
      BY <1>1, <1>2
    <3> QED BY <1>1, <1>2, <1>3, <1>4, <3>1
  <2>2. ~(lb < b)
    <3> SUFFICES ASSUME lb < b PROVE FALSE
      OBVIOUS
    <3>1. lb \in 1..(b - 1) /\ lb \in 1..n
      BY <1>1, <1>2
    <3>2. K(lb) < key
      BY <3>1
    <3> QED BY <1>1, <1>2, <1>3, <1>4, <3>1, <3>2
  <2> QED BY <1>1, <1>2, <2>1, <2>2
<1>7. LowerBound(d.transitions, key, compareGmt) = lb
  <2>1. LowerBound(d.transitions, key, compareGmt) = CHOOSE b \in 1..(n + 1) : IsBound(b)
    BY DEF LowerBound, K, n
  <2> HIDE DEF IsBound, lb
  <2> QED BY <1>5, <1>6, <2>1
<1>8. ~(d.transitions = <<>> \/ key < Key(d.transitions[1], compareGmt))
  <2>1. K(1) <= key
    BY <1>1, <1>2, <1>3, <1>4
  <2>2. K(1) \in Int /\ ~(key < K(1))
    BY <1>1, <1>2, <2>1
  <2>3. d.transitions # <<>>
    BY <1>1, <1>2 DEF n
  <2> QED BY <2>2, <2>3 DEF K
<1>9. (IF lb <= n /\ K(lb) = key THEN lb ELSE lb - 1) = i
  BY <1>1, <1>2, <1>3
<1> HIDE DEF lb
<1> QED BY <1>7, <1>8, <1>9 DEF FindLocaltime, TypeAfter, K, n

(* A set of numbers that is not empty and has a bound has a largest one. *)
LEMMA LeastNumber ==
  ASSUME NEW T \in SUBSET Nat, T # {}
  PROVE  \E x \in T : \A y \in T : x <= y
<1>1. PICK x \in T : \A y \in T : ~(<<y, x>> \in OpToRel(<, Nat))
  BY NatLessThanWellFounded, WFMin
<1>2. \A y \in T : ~(y < x)
  BY <1>1 DEF OpToRel
<1> QED BY <1>2

LEMMA LargestNumber ==
  ASSUME NEW n \in Nat, NEW T \in SUBSET 1..n, T # {}
  PROVE  \E x \in T : \A y \in T : y <= x
<1> DEFINE U == {n - y : y \in T}
<1>1. U \in SUBSET Nat /\ U # {}
  <2>1. \A y \in T : n - y \in Nat
    OBVIOUS
  <2>2. PICK y \in T : TRUE
    OBVIOUS
  <2>3. n - y \in U
    BY <2>2
  <2> QED BY <2>1, <2>3
<1>2. PICK u \in U : \A v \in U : u <= v
  <2> HIDE DEF U
  <2> QED BY <1>1, LeastNumber
<1>3. PICK x \in T : u = n - x
  BY <1>2
<1>4. \A y \in T : n - x <= n - y
  BY <1>2, <1>3
<1> QED BY <1>4

(* An instant is before the first transition, or some transition is the    *)
(* latest one not after it.                                                *)
LEMMA LatestExists ==
  ASSUME NEW d, WellFormed(d), NEW key \in Int, NEW compareGmt \in BOOLEAN,
         d.transitions # <<>>, Key(d.transitions[1], compareGmt) <= key
  PROVE  \E i : Latest(d, key, compareGmt, i)
<1> DEFINE n == Len(d.transitions)
           T == {i \in 1..n : Key(d.transitions[i], compareGmt) <= key}
<1>1. n \in Nat /\ DOMAIN d.transitions = 1..n /\ 1 \in 1..n
  BY DEF WellFormed
<1>2. T \in SUBSET (1..n) /\ T # {}
  BY <1>1
<1>3. PICK i \in T : \A j \in T : j <= i
  <2> HIDE DEF T, n
  <2> QED BY <1>1, <1>2, LargestNumber
<1>4. \A j \in 1..n : Key(d.transitions[j], compareGmt) \in Int
  BY <1>1, KeysAreIntegers
<1>5. \A j \in 1..n : i < j => key < Key(d.transitions[j], compareGmt)
  BY <1>1, <1>3, <1>4
<1> QED BY <1>1, <1>3, <1>5 DEF Latest

(* A regular zone is ordered on both clocks. *)
LEMMA RegularRises ==
  ASSUME NEW d, WellFormed(d), Regular(d), NEW compareGmt \in BOOLEAN
  PROVE  Rising(d, compareGmt)
<1> SUFFICES ASSUME NEW i \in DOMAIN d.transitions, NEW j \in DOMAIN d.transitions, i < j
             PROVE  Key(d.transitions[i], compareGmt) < Key(d.transitions[j], compareGmt)
  BY DEF Rising
<1>1. /\ d.transitions[i].gmttime + Hour < d.transitions[j].gmttime
      /\ d.transitions[i].localtime < d.transitions[j].localtime
  BY DEF Regular, Ordered
<1>2. d.transitions[i].gmttime \in Int /\ d.transitions[j].gmttime \in Int
  BY KeysAreIntegers DEF Key
<1> QED BY <1>1, <1>2, HourIsNatural DEF Key

(* The type in use at an instant, and the local time it gives. *)
LEMMA TypesAreTypes ==
  ASSUME NEW d, WellFormed(d), NEW k \in DOMAIN d.localtimes
  PROVE  d.localtimes[k].gmtOffset \in Int /\ d.localtimes[k].isDst \in BOOLEAN
<1>1. d.localtimes[k] \in LocaltimeTypes
  <2>1. d.localtimes \in Seq(LocaltimeTypes)
    BY DEF WellFormed
  <2> QED BY <2>1
<1> QED BY <1>1 DEF LocaltimeTypes

(* The entry before a transition, and its time on both clocks. *)
LEMMA TransitionFacts ==
  ASSUME NEW d, WellFormed(d), NEW i \in DOMAIN d.transitions
  PROVE  /\ i \in Nat
         /\ TypeBefore(d, i).gmtOffset \in Int /\ TypeBefore(d, i).isDst \in BOOLEAN
         /\ TypeAfter(d, i).gmtOffset \in Int /\ TypeAfter(d, i).isDst \in BOOLEAN
         /\ d.transitions[i].gmttime \in Int
         /\ d.transitions[i].localtime = d.transitions[i].gmttime + TypeAfter(d, i).gmtOffset
<1>1. DOMAIN d.transitions = 1..Len(d.transitions) /\ Len(d.transitions) \in Nat
  BY DEF WellFormed
<1>2. d.transitions[i].localtimeIdx \in DOMAIN d.localtimes
  BY DEF WellFormed
<1>3. TypeAfter(d, i).gmtOffset \in Int /\ TypeAfter(d, i).isDst \in BOOLEAN
  BY <1>2, TypesAreTypes DEF TypeAfter
<1>4. i # 1 => i - 1 \in DOMAIN d.transitions
  BY <1>1
<1>5. i # 1 => d.transitions[i - 1].localtimeIdx \in DOMAIN d.localtimes
  BY <1>4 DEF WellFormed
<1>6. 1 \in DOMAIN d.localtimes
  BY DEF WellFormed
<1>7. TypeBefore(d, i).gmtOffset \in Int /\ TypeBefore(d, i).isDst \in BOOLEAN
  <2>1. CASE i = 1
    BY <1>6, <2>1, TypesAreTypes DEF TypeBefore
  <2>2. CASE i # 1
    BY <1>5, <2>2, TypesAreTypes DEF TypeBefore
  <2> QED BY <2>1, <2>2
<1>8. d.transitions[i].gmttime \in Int
  BY KeysAreIntegers DEF Key
<1>9. d.transitions[i].localtime = d.transitions[i].gmttime + TypeAfter(d, i).gmtOffset
  BY DEF WellFormed
<1> QED BY <1>1, <1>3, <1>7, <1>8, <1>9

(* The positions of the table. *)
LEMMA Positions ==
  ASSUME NEW d, WellFormed(d)
  PROVE  DOMAIN d.transitions = 1..Len(d.transitions) /\ Len(d.transitions) \in Nat
  BY DEF WellFormed

LEMMA DomainPositive ==
  ASSUME NEW d, WellFormed(d), NEW i \in DOMAIN d.transitions
  PROVE  i \in Nat /\ i >= 1
  BY Positions

LEMMA OffsetTaken ==
  ASSUME NEW t \in Int, NEW off \in Int
  PROVE  (t + off) - off = t /\ ((t + off) - 0) - off = t
  OBVIOUS

(* When the search by local time finds the type that the search by UTC     *)
(* found, the offset is taken off again and the hack does not apply.       *)
LEMMA SameType ==
  ASSUME NEW d, NEW t \in Int, NEW type, type = FindLocaltime(d, t, TRUE),
         type.gmtOffset \in Int, FindLocaltime(d, t + type.gmtOffset, FALSE) = type
  PROVE  FromLocalTime(d, ToLocalTime(d, t)) = t
<1> DEFINE tm == ToLocalTime(d, t)
<1>1. tm.secs = t + type.gmtOffset /\ tm.tm_isdst = type.isDst
  BY DEF ToLocalTime
<1>2. tm.secs - type.gmtOffset = t
  <2> HIDE DEF tm
  <2> QED BY <1>1, OffsetTaken, Zenon
<1>3. FindLocaltime(d, tm.secs, FALSE) = type
  BY <1>1
<1>4. ToLocalTime(d, tm.secs - type.gmtOffset) = tm
  BY <1>2
<1>5. ~NeedsHour(d, tm)
  <2> HIDE DEF tm
  <2> QED BY <1>3, <1>4 DEF NeedsHour
<1> HIDE DEF tm
<1>6. FromLocalTime(d, tm) = (tm.secs - 0) - type.gmtOffset
  BY <1>3, <1>5 DEF FromLocalTime
<1>7. FromLocalTime(d, tm) = t
  BY <1>1, <1>6, OffsetTaken, Zenon
<1> QED BY <1>7 DEF tm

(* When the trial conversion shows standard time at the same minute, the   *)
(* hack takes off an hour.                                                 *)
LEMMA HourTaken ==
  ASSUME NEW d, NEW tm, NEW type, NEW tryTm,
         FindLocaltime(d, tm.secs, FALSE) = type,
         ToLocalTime(d, tm.secs - type.gmtOffset) = tryTm,
         tm.tm_isdst, ~tryTm.tm_isdst, SameMinute(tryTm, tm)
  PROVE  FromLocalTime(d, tm) = (tm.secs - Hour) - type.gmtOffset
<1>1. NeedsHour(d, tm)
  BY Zenon DEF NeedsHour
<1>2. FromLocalTime(d, tm)
        = (tm.secs - (IF NeedsHour(d, tm) THEN Hour ELSE 0)) - type.gmtOffset
  BY Zenon DEF FromLocalTime
<1>3. (IF NeedsHour(d, tm) THEN Hour ELSE 0) = Hour
  BY <1>1
<1> QED BY <1>2, <1>3, Zenon

(* In the hour that the clock shows twice, before it is set back: the      *)
(* search by local time finds the type after the transition, the trial     *)
(* conversion shows standard time at the same minute, and the hour that    *)
(* the hack takes off leads back to the instant.                           *)
LEMMA ShownTwice ==
  ASSUME NEW d, WellFormed(d), Regular(d), NEW t \in Int,
         NEW i \in DOMAIN d.transitions,
         FindLocaltime(d, t, TRUE) = TypeBefore(d, i),
         t < d.transitions[i].gmttime,
         d.transitions[i].localtime <= t + TypeBefore(d, i).gmtOffset
  PROVE  FromLocalTime(d, ToLocalTime(d, t)) = t
<1> DEFINE before == TypeBefore(d, i)
           after  == TypeAfter(d, i)
           tm     == ToLocalTime(d, t)
           G(j)   == d.transitions[j].gmttime
           L(j)   == d.transitions[j].localtime
<1> USE HourIsNatural
<1>1. tm = [secs |-> t + before.gmtOffset, tm_isdst |-> before.isDst]
  BY DEF ToLocalTime
<1>2. /\ before.gmtOffset \in Int /\ after.gmtOffset \in Int /\ G(i) \in Int
      /\ L(i) = G(i) + after.gmtOffset /\ i \in Nat
  BY TransitionFacts
<1>3. /\ before.gmtOffset = after.gmtOffset + Hour
      /\ before.isDst /\ ~after.isDst
  <2>1. after.gmtOffset < before.gmtOffset
    <3> HIDE DEF before, after
    <3> QED BY <1>2 DEF before
  <2> QED BY <2>1 DEF Regular, SetBackByAnHour
<1>4. \A j \in DOMAIN d.transitions : i < j => tm.secs < L(j)
  <2> SUFFICES ASSUME NEW j \in DOMAIN d.transitions, i < j PROVE tm.secs < L(j)
    OBVIOUS
  <2>1. i + 1 \in DOMAIN d.transitions /\ j \in Nat
    BY Positions
  <2>2. /\ TypeAfter(d, i + 1).gmtOffset \in Int /\ G(i + 1) \in Int
        /\ L(i + 1) = G(i + 1) + TypeAfter(d, i + 1).gmtOffset
    BY <2>1, TransitionFacts
  <2>3. TypeBefore(d, i + 1) = after
    <3>1. (i + 1) - 1 = i /\ i + 1 # 1
      BY <2>1, DomainPositive
    <3> QED BY <3>1 DEF TypeBefore, TypeAfter
  <2>4. TypeAfter(d, i + 1).gmtOffset >= after.gmtOffset
    <3>1. ~(TypeAfter(d, i + 1).gmtOffset < after.gmtOffset)
      BY <1>3, <2>1, <2>3 DEF Regular, SetBackByAnHour
    <3> QED BY <1>2, <2>2, <3>1
  <2>5. G(i) + Hour < G(i + 1)
    BY <1>2, <2>1 DEF Regular, Ordered
  <2>6. tm.secs < L(i + 1)
    <3>1. tm.secs = t + before.gmtOffset
      BY <1>1
    <3> HIDE DEF before, after, tm, G, L
    <3> QED BY <1>2, <1>3, <2>2, <2>4, <2>5, <3>1 DEF G
  <2>7. i + 1 = j \/ L(i + 1) < L(j)
    BY <1>2, <2>1 DEF Regular, Ordered
  <2>8. L(j) \in Int /\ tm.secs \in Int /\ L(i + 1) \in Int
    <3>1. L(j) = G(j) + TypeAfter(d, j).gmtOffset /\ G(j) \in Int
           /\ TypeAfter(d, j).gmtOffset \in Int
      BY TransitionFacts
    <3> QED BY <1>1, <1>2, <2>2, <3>1
  <2> HIDE DEF tm, L
  <2> QED BY <2>6, <2>7, <2>8
<1>5. FindLocaltime(d, tm.secs, FALSE) = after
  <2>1. Latest(d, tm.secs, FALSE, i)
    BY <1>1, <1>4 DEF Latest, Key
  <2>2. tm.secs \in Int
    BY <1>1, <1>2
  <2> QED BY <2>1, <2>2, FindsLatest, RegularRises
<1> DEFINE u == t + Hour
<1>6. tm.secs - after.gmtOffset = u /\ u \in Int /\ t = u - Hour
  <2>1. tm.secs = t + before.gmtOffset
    BY <1>1
  <2> HIDE DEF tm, before, after
  <2> QED BY <1>2, <1>3, <2>1
<1>7. FindLocaltime(d, u, TRUE) = after
  <2>1. G(i) <= u
    <3> HIDE DEF after, G, L
    <3> QED BY <1>2, <1>3 DEF L
  <2>2. \A j \in DOMAIN d.transitions : i < j => u < G(j)
    <3> SUFFICES ASSUME NEW j \in DOMAIN d.transitions, i < j PROVE u < G(j)
      OBVIOUS
    <3>1. G(i) + Hour < G(j) /\ G(j) \in Int
      BY TransitionFacts DEF Regular, Ordered
    <3> HIDE DEF G
    <3> QED BY <1>2, <3>1 DEF G
  <2> HIDE DEF u
  <2>3. Latest(d, u, TRUE, i)
    BY <2>1, <2>2 DEF Latest, Key
  <2>4. u \in Int /\ TRUE \in BOOLEAN /\ Rising(d, TRUE)
    BY <1>6, RegularRises, Zenon
  <2> HIDE DEF after
  <2> QED BY <2>3, <2>4, FindsLatest, Zenon DEF after
<1>8. ToLocalTime(d, u) = [secs |-> u + after.gmtOffset, tm_isdst |-> after.isDst]
  <2> HIDE DEF u
  <2> QED BY <1>7 DEF ToLocalTime
<1>9. ToLocalTime(d, u).secs = tm.secs /\ ToLocalTime(d, u).tm_isdst = after.isDst
  <2>1. u + after.gmtOffset = t + before.gmtOffset
    <3> HIDE DEF before, after
    <3> QED BY <1>2, <1>3
  <2>2. tm.secs = t + before.gmtOffset
    BY <1>1
  <2> HIDE DEF u, tm, before, after
  <2> QED BY <1>8, <2>1, <2>2
<1>10. FromLocalTime(d, tm) = (tm.secs - Hour) - after.gmtOffset
  <2>1. tm.tm_isdst = before.isDst
    BY <1>1
  <2> HIDE DEF tm, after, before, u
  <2>2. SameMinute(ToLocalTime(d, u), tm)
    BY <1>9 DEF SameMinute
  <2>3. ToLocalTime(d, tm.secs - after.gmtOffset) = ToLocalTime(d, u)
    BY <1>6, Zenon
  <2>4. tm.tm_isdst /\ ~ToLocalTime(d, u).tm_isdst
    BY <1>3, <1>9, <2>1, Zenon
  <2> QED BY <1>5, <2>2, <2>3, <2>4, HourTaken, Zenon
<1>11. tm.secs \in Int
  BY <1>1, <1>2
<1> HIDE DEF tm, after, before
<1> QED BY <1>2, <1>6, <1>10, <1>11 DEF tm

(* In a regular zone fromLocalTime leads back to every instant. *)
THEOREM RoundTripInRegularZones ==
  ASSUME NEW d, WellFormed(d), Regular(d), NEW t \in Int
  PROVE  FromLocalTime(d, ToLocalTime(d, t)) = t
<1> DEFINE n == Len(d.transitions)
           type == FindLocaltime(d, t, TRUE)
           secs == t + type.gmtOffset
           L(j) == d.transitions[j].localtime
<1>1. DOMAIN d.transitions = 1..n /\ n \in Nat
  BY Positions
<1>2. \A j \in 1..n : L(j) \in Int
  BY <1>1, KeysAreIntegers DEF Key
<1>3. 1 \in DOMAIN d.localtimes
  BY DEF WellFormed
<1>4. ASSUME d.transitions = <<>> \/ t < Key(d.transitions[1], TRUE)
      PROVE  FromLocalTime(d, ToLocalTime(d, t)) = t
  <2>1. type = d.localtimes[1]
    BY <1>4 DEF FindLocaltime
  <2>2. type.gmtOffset \in Int /\ secs \in Int
    <3>1. d.localtimes[1].gmtOffset \in Int
      BY <1>3, TypesAreTypes
    <3> HIDE DEF type
    <3> QED BY <2>1, <3>1
  <2>3. CASE d.transitions = <<>> \/ secs < Key(d.transitions[1], FALSE)
    <3>1. FindLocaltime(d, secs, FALSE) = type
      <4> HIDE DEF secs, type
      <4> QED BY <2>1, <2>3 DEF FindLocaltime
    <3> HIDE DEF type
    <3> QED BY <2>2, <3>1, SameType DEF type
  <2>4. CASE ~(d.transitions = <<>> \/ secs < Key(d.transitions[1], FALSE))
    <3>1. d.transitions # <<>> /\ t < d.transitions[1].gmttime /\ ~(secs < L(1))
      BY <1>4, <2>4 DEF Key
    <3>2. 1 \in DOMAIN d.transitions /\ 1 \in 1..n
      BY <1>1, <3>1 DEF WellFormed
    <3>3. TypeBefore(d, 1) = type
      BY <2>1 DEF TypeBefore
    <3>4. L(1) <= secs
      <4> HIDE DEF L, secs
      <4> QED BY <1>2, <2>2, <3>1, <3>2
    <3> HIDE DEF type
    <3> QED BY <3>1, <3>2, <3>3, <3>4, ShownTwice DEF type
  <2> QED BY <2>3, <2>4
<1>5. ASSUME NEW i, Latest(d, t, TRUE, i)
      PROVE  FromLocalTime(d, ToLocalTime(d, t)) = t
  <2>1. i \in 1..n /\ i \in DOMAIN d.transitions
    BY <1>1, <1>5 DEF Latest
  <2>2. type = TypeAfter(d, i)
    BY <1>5, FindsLatest, RegularRises
  <2>3. /\ type.gmtOffset \in Int /\ d.transitions[i].gmttime \in Int
        /\ L(i) = d.transitions[i].gmttime + type.gmtOffset
    BY <2>1, <2>2, TransitionFacts
  <2>4. L(i) <= secs /\ secs \in Int
    <3>1. d.transitions[i].gmttime <= t
      BY <1>5 DEF Latest, Key
    <3> HIDE DEF type, L
    <3> QED BY <2>3, <3>1
  <2>5. CASE \A j \in DOMAIN d.transitions : i < j => secs < L(j)
    <3>1. Latest(d, secs, FALSE, i)
      BY <2>1, <2>4, <2>5 DEF Latest, Key
    <3>2. FindLocaltime(d, secs, FALSE) = TypeAfter(d, i)
      <4> HIDE DEF secs
      <4> QED BY <2>4, <3>1, FindsLatest, RegularRises
    <3> HIDE DEF type
    <3> QED BY <2>2, <2>3, <3>2, SameType DEF type
  <2>6. CASE ~(\A j \in DOMAIN d.transitions : i < j => secs < L(j))
    <3>1. PICK j \in DOMAIN d.transitions : i < j /\ ~(secs < L(j))
      BY <2>6
    <3>2. i + 1 \in DOMAIN d.transitions /\ i + 1 \in 1..n /\ j \in 1..n /\ i < i + 1
      BY <1>1, <2>1, <3>1
    <3>3. i + 1 = j \/ L(i + 1) < L(j)
      BY <2>1, <3>1, <3>2 DEF Regular, Ordered
    <3>4. L(i + 1) <= secs
      <4> HIDE DEF L, secs
      <4> QED BY <1>2, <2>4, <3>1, <3>2, <3>3
    <3>5. t < d.transitions[i + 1].gmttime
      BY <1>5, <2>1, <3>2 DEF Latest, Key
    <3>6. TypeBefore(d, i + 1) = type
      <4>1. (i + 1) - 1 = i /\ i + 1 # 1
        BY <2>1
      <4> HIDE DEF type
      <4> QED BY <2>2, <4>1 DEF TypeBefore, TypeAfter
    <3> HIDE DEF type
    <3> QED BY <3>2, <3>4, <3>5, <3>6, ShownTwice DEF type
  <2> QED BY <2>5, <2>6
<1>6. CASE d.transitions = <<>> \/ t < Key(d.transitions[1], TRUE)
  BY <1>4, <1>6
<1>7. CASE ~(d.transitions = <<>> \/ t < Key(d.transitions[1], TRUE))
  <2>1. d.transitions # <<>> /\ ~(t < Key(d.transitions[1], TRUE))
    BY <1>7
  <2>2. 1 \in DOMAIN d.transitions
    BY <1>1, <2>1 DEF WellFormed
  <2>3. Key(d.transitions[1], TRUE) <= t
    <3> DEFINE k == Key(d.transitions[1], TRUE)
    <3>1. k \in Int
      BY <2>2, KeysAreIntegers
    <3>2. ~(t < k)
      BY <2>1
    <3> HIDE DEF k
    <3>3. k <= t
      BY <3>1, <3>2
    <3> QED BY <3>3 DEF k
  <2>4. PICK i : Latest(d, t, TRUE, i)
    BY <2>1, <2>3, LatestExists
  <2> QED BY <1>5, <2>4
<1> QED BY <1>6, <1>7

(* readTimeZoneFile leaves a well-formed table, in the order of the file,  *)
(* whatever part of the file it could read, unless it read no type at all. *)
LEMMA ReadIsWellFormed ==
  ASSUME NEW f \in ZoneFiles, NEW d, d = ReadTimeZoneFile(f), d.localtimes # <<>>
  PROVE  WellFormed(d) /\ Rising(d, TRUE)
<1> DEFINE T == [gmttime : Int, localtime : Int, localtimeIdx : Nat]
           E == [at : Int, idx : 1..Len(f.types)]
           all == f.readable >= Len(f.types)
<1>0. /\ f.types \in Seq(LocaltimeTypes) /\ f.trans \in Seq(E)
      /\ \A i, j \in DOMAIN f.trans : i < j => f.trans[i].at < f.trans[j].at
      /\ f.readable \in 0..(Len(f.types) + 1)
  BY ZoneFilesAssumption, Zenon DEF LocaltimeTypes
<1>1. /\ Len(f.types) \in Nat /\ Len(f.trans) \in Nat
      /\ DOMAIN f.trans = 1..Len(f.trans) /\ DOMAIN f.types = 1..Len(f.types)
      /\ \A i \in 1..Len(f.trans) : f.trans[i] \in E
      /\ \A k \in 1..Len(f.types) : f.types[k] \in LocaltimeTypes
  <2> HIDE DEF E
  <2> QED BY <1>0
<1>2. /\ d.localtimes = SubSeq(f.types, 1, IF all THEN Len(f.types) ELSE f.readable)
      /\ d.transitions = IF all THEN [i \in 1..Len(f.trans) |-> Transition(f, i)] ELSE <<>>
  BY DEF ReadTimeZoneFile
<1>3. d.localtimes \in Seq(LocaltimeTypes) /\ 1 \in DOMAIN d.localtimes
  <2>1. d.localtimes \in Seq(LocaltimeTypes)
    <3> HIDE DEF all
    <3> QED BY <1>0, <1>1, <1>2 DEF all
  <2> QED BY <2>1
<1>4. CASE ~all
  BY <1>2, <1>3, <1>4 DEF WellFormed, Rising
<1>5. CASE all
  <2>1. d.localtimes = f.types
    BY <1>0, <1>1, <1>2, <1>5
  <2>2. d.transitions = [i \in 1..Len(f.trans) |-> Transition(f, i)]
    BY <1>2, <1>5
  <2>3. \A i \in 1..Len(f.trans) :
           /\ f.trans[i].at \in Int /\ f.trans[i].idx \in 1..Len(f.types)
           /\ f.types[f.trans[i].idx].gmtOffset \in Int
    <3> SUFFICES ASSUME NEW i \in 1..Len(f.trans)
                 PROVE  /\ f.trans[i].at \in Int /\ f.trans[i].idx \in 1..Len(f.types)
                        /\ f.types[f.trans[i].idx].gmtOffset \in Int
      OBVIOUS
    <3>1. f.trans[i].at \in Int /\ f.trans[i].idx \in 1..Len(f.types)
      BY <1>1
    <3>2. f.types[f.trans[i].idx] \in LocaltimeTypes
      BY <1>1, <3>1
    <3> QED BY <3>1, <3>2 DEF LocaltimeTypes
  <2>4. \A i \in 1..Len(f.trans) :
           /\ d.transitions[i].gmttime = f.trans[i].at
           /\ d.transitions[i].localtimeIdx = f.trans[i].idx
           /\ d.transitions[i].localtime = f.trans[i].at + f.types[f.trans[i].idx].gmtOffset
           /\ d.transitions[i] = Transition(f, i)
    BY <2>2 DEF Transition
  <2>5. \A i \in 1..Len(f.trans) : Transition(f, i) \in T
    <3> SUFFICES ASSUME NEW i \in 1..Len(f.trans) PROVE Transition(f, i) \in T
      OBVIOUS
    <3>1. /\ f.trans[i].at \in Int /\ f.trans[i].idx \in Nat
          /\ f.trans[i].at + f.types[f.trans[i].idx].gmtOffset \in Int
      BY <1>1, <2>3
    <3> QED BY <3>1 DEF Transition
  <2>6. d.transitions \in Seq(T) /\ DOMAIN d.transitions = 1..Len(f.trans)
    <3> HIDE DEF T
    <3> QED BY <1>1, <2>2, <2>5
  <2>7. \A i \in DOMAIN d.transitions :
           /\ d.transitions[i].localtimeIdx \in DOMAIN d.localtimes
           /\ d.transitions[i].localtime = d.transitions[i].gmttime + TypeAfter(d, i).gmtOffset
    BY <1>1, <2>1, <2>3, <2>4, <2>6 DEF TypeAfter
  <2>8. WellFormed(d)
    BY <1>3, <2>6, <2>7 DEF WellFormed
  <2>9. Rising(d, TRUE)
    <3> SUFFICES ASSUME NEW i \in 1..Len(f.trans), NEW j \in 1..Len(f.trans), i < j
                 PROVE  Key(d.transitions[i], TRUE) < Key(d.transitions[j], TRUE)
      BY <2>6 DEF Rising
    <3>1. f.trans[i].at < f.trans[j].at
      BY <1>0, <1>1
    <3> QED BY <2>4, <3>1 DEF Key
  <2> QED BY <2>8, <2>9
<1> QED BY <1>4, <1>5

(* The data come from one of the files, and the instant is one of Instants. *)
ReadFromFile == data \in {ReadTimeZoneFile(f) : f \in ZoneFiles} /\ ConvertsInstants

(* At every instant toLocalTime uses the type of the latest transition,    *)
(* and in regular zones fromLocalTime leads back.                          *)
THEOREM LocalTimeCorrect == Spec => []LocalTimeRoundTrip
<1>1. Init => ReadFromFile
  BY DEF Init, ReadFromFile, ConvertsInstants
<1>2. ReadFromFile /\ [Next]_vars => ReadFromFile'
  BY DEF Next, Convert, vars, ReadFromFile, ConvertsInstants
<1>3. ReadFromFile => LocalTimeRoundTrip
  <2> SUFFICES ASSUME ReadFromFile, data.localtimes # <<>>
               PROVE  /\ \A i \in LatestTransition(data, now) :
                           ToLocalTime(data, now).secs
                             = now + data.localtimes[data.transitions[i].localtimeIdx].gmtOffset
                      /\ Regular(data) => FromLocalTime(data, ToLocalTime(data, now)) = now
    BY DEF LocalTimeRoundTrip
  <2>1. now \in Int
    BY InstantsAssumption DEF ReadFromFile, ConvertsInstants
  <2>2. WellFormed(data) /\ Rising(data, TRUE)
    BY ReadIsWellFormed DEF ReadFromFile
  <2>3. ASSUME NEW i \in LatestTransition(data, now)
        PROVE  ToLocalTime(data, now).secs
                 = now + data.localtimes[data.transitions[i].localtimeIdx].gmtOffset
    <3>1. /\ i \in DOMAIN data.transitions
          /\ data.transitions[i].gmttime <= now
          /\ \A j \in DOMAIN data.transitions : i < j => now < data.transitions[j].gmttime
      <4>1. /\ i \in 1..Len(data.transitions) /\ data.transitions[i].gmttime <= now
            /\ \A j \in (i + 1)..Len(data.transitions) : data.transitions[j].gmttime > now
        BY DEF LatestTransition
      <4>2. DOMAIN data.transitions = 1..Len(data.transitions) /\ Len(data.transitions) \in Nat
        BY <2>2, Positions
      <4>3. \A j \in DOMAIN data.transitions : data.transitions[j].gmttime \in Int
        BY <2>2, TransitionFacts
      <4> QED BY <2>1, <4>1, <4>2, <4>3
    <3>2. Latest(data, now, TRUE, i)
      BY <3>1 DEF Latest, Key
    <3>3. FindLocaltime(data, now, TRUE) = TypeAfter(data, i)
      BY <2>1, <2>2, <3>2, FindsLatest
    <3> QED BY <3>3 DEF ToLocalTime, TypeAfter
  <2>4. Regular(data) => FromLocalTime(data, ToLocalTime(data, now)) = now
    BY <2>1, <2>2, RoundTripInRegularZones
  <2> QED BY <2>3, <2>4
<1> QED BY <1>1, <1>2, <1>3, PTL DEF Spec
=============================================================================
