----------------------------- MODULE MCTimeZone -----------------------------
(***************************************************************************)
(* Zones and instants for TLC.  The zones have the offsets and transitions *)
(* of the unit test (New York and Sydney 2011, London 2012, Hong Kong), one *)
(* that shifts its standard time, one with a half-hour summer time, and    *)
(* files that cannot be read to the end.                                   *)
(***************************************************************************)
EXTENDS TimeZone

At(y, m, d, h) == (((GetJulianDayNumber(y, m, d) - kJulianDayOf1970_01_01) * 24) + h) * Hour
Type(off, dst) == [gmtOffset |-> off, isDst |-> dst]
Trans(at, idx) == [at |-> at, idx |-> idx]

NewYorkTypes == <<Type(-4 * Hour, TRUE), Type(-5 * Hour, FALSE)>>
NewYorkTrans == <<Trans(At(2011, 3, 13, 7), 1), Trans(At(2011, 11, 6, 6), 2)>>
Zone(types, trans) == [types |-> types, trans |-> trans, readable |-> Len(types) + 1]

MCZoneFiles ==
  {Zone(NewYorkTypes, NewYorkTrans),
   Zone(<<Type(0, FALSE), Type(Hour, TRUE)>>,
        <<Trans(At(2012, 3, 25, 1), 2), Trans(At(2012, 10, 28, 1), 1)>>),
   Zone(<<Type(11 * Hour, TRUE), Type(10 * Hour, FALSE)>>,
        <<Trans(At(2011, 4, 2, 16), 2), Trans(At(2011, 10, 1, 16), 1)>>),
   Zone(<<Type(8 * Hour, FALSE)>>, <<>>),
   Zone(<<Type(8 * Hour, FALSE), Type(9 * Hour, FALSE)>>, <<Trans(At(2011, 4, 2, 16), 2)>>),
   Zone(<<Type(10 * Hour + 1800, FALSE), Type(11 * Hour, TRUE)>>,
        <<Trans(At(2011, 4, 2, 15), 1), Trans(At(2011, 10, 1, 15), 2)>>)}
  \cup [types : {NewYorkTypes}, trans : {NewYorkTrans}, readable : 0..2]

\* quarters of an hour around every transition, and the second before it
Around(t) == {t + (900 * q) : q \in -8..8} \cup {t - 1}

\* midnight, and the second before it, around the ends of months, of leap
\* years and of the range of time_t in 32 bits
Midnights ==
  {At(y, m, d, 0) : y \in {1904, 1969, 1970, 1999, 2000, 2011, 2037},
                    m \in {1, 2, 3, 12}, d \in {1, 28, 29, 31}}

MCInstants ==
  UNION {Around(f.trans[i].at) : f \in {g \in MCZoneFiles : Len(g.trans) = 2}, i \in {1, 2}}
    \cup Midnights \cup {t - 1 : t \in Midnights}
=============================================================================
