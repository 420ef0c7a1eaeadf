------------------------------ MODULE TimeZone ------------------------------
(***************************************************************************)
(* muduo::TimeZone (base/datetime/TimeZone.h, TimeZone.cc): conversions    *)
(* between seconds since the epoch and broken-down time, in UTC by the     *)
(* formulas of Date and in a zone by the transition table of a zone file.  *)
(*                                                                         *)
(* A struct tm of local time is only filled by gmtime_r and read by        *)
(* timegm, so it is kept as the seconds its fields spell (secs) with its   *)
(* daylight saving flag; the abbreviations of a zone are left out.         *)
(***************************************************************************)
EXTENDS Date, Sequences

CONSTANTS ZoneFiles,   \* zone files the program may be given
          Instants     \* the instants it converts

(* A zone file: its local time types, its transitions [at, idx] in the      *)
(* order that the format prescribes (idx counts from 1 here) and readable,  *)
(* how many of the types and of the string of abbreviations behind them can *)
(* be read: 0 if the file does not open, has a bad head or ends before the  *)
(* types.                                                                   *)
ASSUME ZoneFilesAssumption ==
  \A f \in ZoneFiles :
    /\ f.types \in Seq([gmtOffset : Int, isDst : BOOLEAN])
    /\ f.trans \in Seq([at : Int, idx : 1..Len(f.types)])
    /\ \A i, j \in DOMAIN f.trans : i < j => f.trans[i].at < f.trans[j].at
    /\ f.readable \in 0..(Len(f.types) + 1)

(* The calendar formulas are meant for the years after -4800. *)
ASSUME InstantsAssumption ==
  \A t \in Instants :
    t \in Int /\ (t \div 86400) + kJulianDayOf1970_01_01 >= GetJulianDayNumber(-4799, 1, 1)

VARIABLES data,   \* data_ of the zone
          now     \* the instant being converted

vars == <<data, now>>

kSecondsPerDay == (24 * 60) * 60
Hour == 3600

\* / and % of C++, which truncate towards zero
Quot(x, n) == IF x >= 0 THEN x \div n ELSE -((-x) \div n)
Rem(x, n) == x - (n * Quot(x, n))

-----------------------------------------------------------------------------
(* toUtcTime and fromUtcTime *)

FillHMS(seconds) ==
  [tm_sec  |-> seconds % 60,
   tm_min  |-> (seconds \div 60) % 60,
   tm_hour |-> (seconds \div 60) \div 60]

UtcTm(days, seconds) ==
  LET hms == FillHMS(seconds)
      jdn == days + kJulianDayOf1970_01_01
      ymd == GetYearMonthDay(jdn)
  IN  [tm_sec  |-> hms.tm_sec, tm_min |-> hms.tm_min, tm_hour |-> hms.tm_hour,
       tm_year |-> ymd.year - 1900, tm_mon |-> ymd.month - 1, tm_mday |-> ymd.day,
       tm_wday |-> WeekDay(jdn),
       tm_yday |-> jdn - GetJulianDayNumber(ymd.year, 1, 1)]

\* without the day borrowed for the instants before 1970
ToUtcTimeNoBorrow(t) ==
  UtcTm(Quot(t, kSecondsPerDay), (Rem(t, kSecondsPerDay) + kSecondsPerDay) % kSecondsPerDay)

ToUtcTime(t) ==
  LET seconds == Rem(t, kSecondsPerDay)
      days    == Quot(t, kSecondsPerDay)
  IN  IF seconds < 0 THEN UtcTm(days - 1, seconds + kSecondsPerDay)
                     ELSE UtcTm(days, seconds)

FromUtcTime(utc) ==
  LET jdn == GetJulianDayNumber(utc.tm_year + 1900, utc.tm_mon + 1, utc.tm_mday)
      secondsInDay == ((utc.tm_hour * 3600) + (utc.tm_min * 60)) + utc.tm_sec
  IN  ((jdn - kJulianDayOf1970_01_01) * kSecondsPerDay) + secondsInDay

-----------------------------------------------------------------------------
(* The zone file.  What was pushed into data before the end of the file     *)
(* stays there, and the transitions are only made once all types are read.  *)

Transition(f, i) ==
  [gmttime      |-> f.trans[i].at,
   localtime    |-> f.trans[i].at + f.types[f.trans[i].idx].gmtOffset,
   localtimeIdx |-> f.trans[i].idx]

ReadTimeZoneFile(f) ==
  LET typesRead == f.readable >= Len(f.types)
  IN  [localtimes  |-> SubSeq(f.types, 1, IF typesRead THEN Len(f.types) ELSE f.readable),
       transitions |-> IF typesRead THEN [i \in 1..Len(f.trans) |-> Transition(f, i)]
                                    ELSE <<>>]

Key(transition, compareGmt) ==
  IF compareGmt THEN transition.gmttime ELSE transition.localtime

\* std::lower_bound: the first position whose key is not below the sentry's
LowerBound(transitions, key, compareGmt) ==
  CHOOSE i \in 1..(Len(transitions) + 1) :
    /\ i <= Len(transitions) => Key(transitions[i], compareGmt) >= key
    /\ \A j \in 1..(i - 1) : Key(transitions[j], compareGmt) < key

\* The step back from the first transition after the sentry is forgotten.
FindLocaltimeNoStepBack(d, key, compareGmt) ==
  IF d.transitions = <<>> \/ key < Key(d.transitions[1], compareGmt)
  THEN d.localtimes[1]
  ELSE LET i == LowerBound(d.transitions, key, compareGmt)
       IN  d.localtimes[d.transitions[IF i <= Len(d.transitions) THEN i
                                      ELSE Len(d.transitions)].localtimeIdx]

FindLocaltime(d, key, compareGmt) ==
  IF d.transitions = <<>> \/ key < Key(d.transitions[1], compareGmt)
  THEN d.localtimes[1]
  ELSE LET i == LowerBound(d.transitions, key, compareGmt)
           found == IF i <= Len(d.transitions) /\ Key(d.transitions[i], compareGmt) = key
                    THEN i ELSE i - 1
       IN  d.localtimes[d.transitions[found].localtimeIdx]

ToLocalTime(d, t) ==
  LET local == FindLocaltime(d, t, TRUE)
  IN  [secs |-> t + local.gmtOffset, tm_isdst |-> local.isDst]

\* tm_hour and tm_min of the two agree
SameMinute(x, y) ==
  /\ (x.secs \div 3600) % 24 = (y.secs \div 3600) % 24
  /\ (x.secs \div 60) % 60 = (y.secs \div 60) % 60

FromLocalTimeNoHack(d, tm) == tm.secs - FindLocaltime(d, tm.secs, FALSE).gmtOffset

\* The time read as standard time is the hour after the one that is meant.
NeedsHour(d, tm) ==
  LET tryTm == ToLocalTime(d, tm.secs - FindLocaltime(d, tm.secs, FALSE).gmtOffset)
  IN  tm.tm_isdst /\ ~tryTm.tm_isdst /\ SameMinute(tryTm, tm)

FromLocalTime(d, tm) ==
  (tm.secs - (IF NeedsHour(d, tm) THEN Hour ELSE 0))
    - FindLocaltime(d, tm.secs, FALSE).gmtOffset

-----------------------------------------------------------------------------
(* The program makes a zone and converts instant after instant.  valid() is *)
(* true of every zone, read or not; the conversions of one with no local    *)
(* time type are undefined and not made.                                    *)

Init ==
  /\ data \in {ReadTimeZoneFile(f) : f \in ZoneFiles}
  /\ now \in Instants

Convert ==
  /\ now' \in Instants
  /\ UNCHANGED data

Next == Convert

Spec == Init /\ [][Next]_vars

-----------------------------------------------------------------------------
(* In UTC: toUtcTime (TimeZone.cc:307) gives every instant, before and      *)
(* after 1970, the date that the calendar has on it: a day later it is the  *)
(* next calendar day and the next weekday at the same time of day, the day  *)
(* of the year counts from the first of January, and fromUtcTime (:334)     *)
(* reads the same instant back.                                             *)
UtcDate(t) == LET utc == ToUtcTime(t)
              IN  [year |-> utc.tm_year + 1900, month |-> utc.tm_mon + 1, day |-> utc.tm_mday]

UtcFollowsCalendar ==
  LET utc == ToUtcTime(now)
      tomorrow == ToUtcTime(now + kSecondsPerDay)
  IN  /\ UtcDate(now) \in Dates
      /\ UtcDate(now + kSecondsPerDay) = NextDay(UtcDate(now))
      /\ tomorrow.tm_wday = (utc.tm_wday + 1) % 7
      /\ tomorrow.tm_yday = IF tomorrow.tm_mon = 0 /\ tomorrow.tm_mday = 1
                            THEN 0 ELSE utc.tm_yday + 1
      /\ utc.tm_hour \in 0..23 /\ utc.tm_min \in 0..59 /\ utc.tm_sec \in 0..59
      /\ FromUtcTime(utc) = now

(* A zone whose transitions come in order on both clocks, more than an hour *)
(* apart, and which sets its clock back only by an hour and only from       *)
(* daylight saving to standard time: the zones for which the hack of        *)
(* fromLocalTime (:300) is made.                                            *)
TypeBefore(d, i) ==
  IF i = 1 THEN d.localtimes[1] ELSE d.localtimes[d.transitions[i - 1].localtimeIdx]

TypeAfter(d, i) == d.localtimes[d.transitions[i].localtimeIdx]

Ordered(d) ==
  \A i, j \in DOMAIN d.transitions :
    i < j => /\ d.transitions[i].gmttime + Hour < d.transitions[j].gmttime
             /\ d.transitions[i].localtime < d.transitions[j].localtime

SetBackByAnHour(d, i) ==
  TypeAfter(d, i).gmtOffset < TypeBefore(d, i).gmtOffset =>
    /\ TypeBefore(d, i).gmtOffset = TypeAfter(d, i).gmtOffset + Hour
    /\ TypeBefore(d, i).isDst /\ ~TypeAfter(d, i).isDst

Regular(d) == Ordered(d) /\ \A i \in DOMAIN d.transitions : SetBackByAnHour(d, i)

(* In a zone: toLocalTime (:263) uses the local time type of the latest     *)
(* transition that is not after the instant, and in a regular zone          *)
(* fromLocalTime (:284) leads back to the instant, also in the hour that    *)
(* the clock shows twice, which it tells apart by the flag.                 *)
LatestTransition(d, t) ==
  {i \in 1..Len(d.transitions) :
     /\ d.transitions[i].gmttime <= t
     /\ \A j \in (i + 1)..Len(d.transitions) : d.transitions[j].gmttime > t}

LocalTimeRoundTrip ==
  data.localtimes # <<>> =>
    /\ \A i \in LatestTransition(data, now) :
         ToLocalTime(data, now).secs
           = now + data.localtimes[data.transitions[i].localtimeIdx].gmtOffset
    /\ Regular(data) => FromLocalTime(data, ToLocalTime(data, now)) = now
=============================================================================
