----------------------------- MODULE TimeValues -----------------------------
(***************************************************************************)
(* The values of package time (gs/time/time.ts): instants, the calendar    *)
(* and durations.  A Time is a JavaScript Date, i.e. a number of           *)
(* milliseconds, and a number _nsec; the units are parameters, so that a   *)
(* small instance keeps their nesting.  Formatting is modelled by the      *)
(* numbers each layout element prints.                                     *)
(***************************************************************************)
EXTENDS Integers, Sequences, FiniteSets

CONSTANTS NS,     \* nanoseconds of a millisecond
          MS,     \* milliseconds of a second
          SEC,    \* seconds of a minute
          MIN,    \* minutes of an hour
          HOUR,   \* hours of a day
          Years   \* the years of the instance

Unset == [none |-> TRUE]    \* undefined
At(n) == [none |-> FALSE, n |-> n]

DayMs == HOUR * MIN * SEC * MS
Trunc(a, b) == IF a >= 0 THEN a \div b ELSE -((-a) \div b)  \* bigint division
Rem(a, b) == a - b * Trunc(a, b)                            \* and JavaScript's %

-----------------------------------------------------------------------------
(* The JavaScript Date: milliseconds since 1970 in UTC, and its fields. *)

Leap(y) == (y % 4 = 0 /\ y % 100 # 0) \/ y % 400 = 0
MonthLength(y, m0) ==
  <<31, IF Leap(y) THEN 29 ELSE 28, 31, 30, 31, 30, 31, 31, 30, 31, 30, 31>>[m0 + 1]
YearStart(y) == LET p == y - 1 IN
  (365 * p + (p \div 4) - (p \div 100) + (p \div 400)) - 719162
MonthStart[m0 \in 0..12, y \in Years] ==
  IF m0 = 0 THEN YearStart(y) ELSE MonthStart[m0 - 1, y] + MonthLength(y, m0 - 1)

\* Date.UTC: months and days out of range carry.
DateUTC(y, m0, d, h, mi, s, ms) ==
  LET year == y + (m0 \div 12) IN
  (MonthStart[m0 % 12, year] + d - 1) * DayMs
    + (((h * MIN + mi) * SEC + s) * MS) + ms
DayOf(t) == t \div DayMs
YearOf(t) == CHOOSE y \in Years : YearStart(y) <= DayOf(t) /\ DayOf(t) < YearStart(y + 1)
MonthOf(t) == LET y == YearOf(t) IN
  CHOOSE m \in 0..11 : MonthStart[m, y] <= DayOf(t) /\ DayOf(t) < MonthStart[m + 1, y]
DateOf(t) == DayOf(t) - MonthStart[MonthOf(t), YearOf(t)] + 1
WeekdayOf(t) == (DayOf(t) + 4) % 7
HourOf(t) == (t % DayMs) \div (MIN * SEC * MS)
MinuteOf(t) == (t \div (SEC * MS)) % MIN
SecondOf(t) == (t \div MS) % SEC

-----------------------------------------------------------------------------
(* Time: constructors. *)

Create(date, nsec, mono, offset) ==
  [date |-> date, nsec |-> nsec, mono |-> mono, offset |-> offset]
ZeroTime == Create(0, 0, Unset, 0)
Now(ms, mono) == Create(ms, 0, At(mono), 0)
\* time.Date in a fixed zone: the milliseconds go to the date, and all of
\* nsec to the field.
DateIn(y, m, d, h, mi, s, nsec, offset) ==
  Create(DateUTC(y, m - 1, d, h, mi, s, nsec \div NS) - offset * MS,
         Rem(nsec, NS * MS), Unset, offset)
\* Unix, UnixMicro, UnixNano: the field gets what is left below a millisecond.
Unix(sec, nsec) == Create(sec * MS + (nsec \div NS), Rem(nsec, NS), Unset, 0)
UnixMilliTime(ms) == Create(ms, 0, Unset, 0)
UnixNanoTime(n) == Create(n \div NS, Rem(n, NS), Unset, 0)
UTC(t) == Create(t.date, t.nsec, Unset, 0)
In(t, offset) == Create(t.date, t.nsec, Unset, offset)

(* Time: accessors. *)
UnixSeconds(t) == t.date \div MS
UnixMilli(t) == t.date
UnixNano(t) == t.date * NS + t.nsec
Nanosecond(t) == t.nsec
\* The date shifted by the offset, read with the UTC getters.
Wall(t) == t.date + t.offset * MS
Year(t) == YearOf(Wall(t))
Month(t) == MonthOf(Wall(t)) + 1
Day(t) == DateOf(Wall(t))
Hour(t) == HourOf(Wall(t))
Minute(t) == MinuteOf(Wall(t))
Second(t) == SecondOf(Wall(t))
Weekday(t) == WeekdayOf(Wall(t))
Zone(t) == t.offset
YearDay(t) ==
  (DateUTC(Year(t), MonthOf(Wall(t)), Day(t), 0, 0, 0, 0)
     - DateUTC(Year(t), 0, 1, 0, 0, 0, 0)) \div DayMs + 1
\* The Thursday of the week decides its year.
ISOWeek(t) ==
  LET date == DateUTC(Year(t), MonthOf(Wall(t)), Day(t), 0, 0, 0, 0)
      weekday == IF WeekdayOf(date) = 0 THEN 7 ELSE WeekdayOf(date)
      thursday == date + (4 - weekday) * DayMs
      start == DateUTC(YearOf(thursday), 0, 1, 0, 0, 0, 0)
      days == (thursday - start) \div DayMs + 1
  IN  <<YearOf(thursday), (days + 6) \div 7>>

(* Time: arithmetic and comparison; monotonic readings win. *)
BothMono(t, u) == ~t.mono.none /\ ~u.mono.none
Sub(t, u) ==
  IF BothMono(t, u) THEN t.mono.n - u.mono.n
  ELSE (t.date - u.date) * NS + (t.nsec - u.nsec)
Add(t, d) ==
  Create(t.date + (d \div NS), t.nsec + Rem(d, NS),
         IF t.mono.none THEN Unset ELSE At(t.mono.n + d), t.offset)
AddDateLocal(t, years, months, days) ==
  LET w == t.date IN
  Create(DateUTC(YearOf(w) + years, MonthOf(w) + months, DateOf(w) + days,
                 HourOf(w), MinuteOf(w), SecondOf(w), w % MS) - t.offset * MS,
         t.nsec, Unset, t.offset)
AddDate(t, years, months, days) ==
  LET w == Wall(t) IN
  Create(DateUTC(YearOf(w) + years, MonthOf(w) + months, DateOf(w) + days,
                 HourOf(w), MinuteOf(w), SecondOf(w), w % MS) - t.offset * MS,
         t.nsec, Unset, t.offset)
Equal(t, u) ==
  IF BothMono(t, u) THEN t.mono.n = u.mono.n
  ELSE t.date = u.date /\ t.nsec = u.nsec
Before(t, u) ==
  IF BothMono(t, u) THEN t.mono.n < u.mono.n
  ELSE t.date < u.date \/ (t.date = u.date /\ t.nsec < u.nsec)
After(t, u) ==
  IF BothMono(t, u) THEN t.mono.n > u.mono.n
  ELSE t.date > u.date \/ (t.date = u.date /\ t.nsec > u.nsec)
IsZero(t) == Equal(t, ZeroTime)

\* What Format prints for an element of the layout, as numbers.
Hour12(h) == LET r == h % (HOUR \div 2) IN IF r = 0 THEN HOUR \div 2 ELSE r
Element(t, e) ==
  CASE e = "2006" -> Year(t)
    [] e = "01" -> Month(t)          \* January, Jan and 1 name the same number
    [] e = "02" -> Day(t)            \* _2 and 2
    [] e = "Mon" -> Weekday(t)
    [] e = "15" -> Hour(t)
    [] e = "03" -> Hour12(Hour(t))
    [] e = "PM" -> IF Hour(t) < HOUR \div 2 THEN 0 ELSE 1
    [] e = "04" -> Minute(t)
    [] e = "05" -> Second(t)
\* The fraction: all of the field, or its leading digits.
Fraction(t, digits) == IF digits = "ms" THEN t.nsec \div NS ELSE t.nsec
\* The sign, hours and minutes of the offset.
ZoneParts(t) ==
  LET abs == IF t.offset < 0 THEN -t.offset ELSE t.offset IN
  <<t.offset < 0, abs \div (MIN * SEC), (abs % (MIN * SEC)) \div SEC>>
\* Z07:00 prints UTC as Z, -07:00 as an offset; seconds are printed as 00.
ZoneElement(t, zulu) == IF zulu /\ t.offset = 0 THEN <<"Z">> ELSE ZoneParts(t)

\* AppendBinary: version, seconds, nanoseconds, offset in minutes and rest.
MarshalBinary(t) ==
  LET off == Trunc(t.offset, SEC) IN
  IF t.offset = 0 THEN <<1, UnixSeconds(t), Nanosecond(t), -1, 0>>
  ELSE IF off = -1 THEN <<>>
  ELSE <<IF Rem(t.offset, SEC) = 0 THEN 1 ELSE 2, UnixSeconds(t), Nanosecond(t),
         off, Rem(t.offset, SEC)>>

-----------------------------------------------------------------------------
(* Durations. *)
MaxD == 2^7 - 1    \* the largest int64, scaled
MinD == -(2^7)
DurationAbs(d) == IF d >= 0 THEN d ELSE IF d = MinD THEN MaxD ELSE -d
\* maxDuration is the number nearest to the largest int64, one above it.
Clamp(d) == IF d > MaxD + 1 THEN MaxD + 1 ELSE IF d < MinD THEN MinD ELSE d
\* Math.floor(v / unit + 0.5), away from zero for negative values.
DurationRoundDown(d, unit) ==
  IF unit <= 0 THEN d ELSE Clamp(((2 * d + unit) \div (2 * unit)) * unit)
DurationRound(d, unit) ==
  IF unit <= 0 THEN d
  ELSE IF d >= 0 THEN Clamp(((2 * d + unit) \div (2 * unit)) * unit)
  ELSE Clamp(-(((2 * (-d) + unit) \div (2 * unit)) * unit))
DurationTruncate(d, unit) == IF unit <= 0 THEN d ELSE d - Rem(d, unit)
\* The parts Duration_String prints: hours, minutes, seconds, nanoseconds.
DurationParts(d) ==
  LET v == IF d < 0 THEN -d ELSE d
      h == MIN * SEC * MS * NS   m == SEC * MS * NS   s == MS * NS
  IN  <<d < 0, v \div h, (v % h) \div m, (v % m) \div s, v % s>>
\* ParseDuration takes one number and one unit.
ParseDuration(neg, parts) ==
  IF Len(parts) # 1 THEN Unset
  ELSE LET v == parts[1].n * parts[1].unit IN At(IF neg THEN -v ELSE v)

-----------------------------------------------------------------------------
(* Promises, one per family of operations. *)

\* For a time of whole milliseconds in a fixed zone: Date() builds it back
\* from its fields, YearDay counts from New Year, the ISO week starts on a
\* Monday and week 1 holds January 4, AddDate keeps the wall clock and moves
\* by days or months, and 03 PM tells the hour.
CalendarPromise(date, offset) ==
  LET t == Create(date, 0, Unset, offset)
      iso == ISOWeek(t)
      jan4 == YearStart(iso[1]) + 3
      monday == (jan4 - ((jan4 + 3) % 7)) + 7 * (iso[2] - 1)
      tomorrow == AddDate(t, 0, 0, 1)
      month == AddDate(t, 0, 1, 0)
      frac == (Wall(t) % MS) * NS
  IN
  /\ DateIn(Year(t), Month(t), Day(t), Hour(t), Minute(t), Second(t), frac, offset).date
       = date
  /\ YearDay(t) = DayOf(Wall(t)) - YearStart(Year(t)) + 1
  /\ DayOf(Wall(t)) \in monday..(monday + 6)
  /\ tomorrow.date = date + DayMs
  /\ Day(month) = Day(t) => Month(month) = (Month(t) % 12) + 1
  /\ Day(month) # Day(t) => Day(t) > MonthLength(Year(t), Month(t) % 12)
  /\ Hour(t) = (Element(t, "03") % (HOUR \div 2)) + (HOUR \div 2) * Element(t, "PM")
  /\ LET z == ZoneElement(t, FALSE) IN
     offset % SEC = 0 => offset = (IF z[1] THEN -1 ELSE 1) * (z[2] * MIN + z[3]) * SEC
  /\ (ZoneElement(t, TRUE) = <<"Z">>) = (offset = 0)
  /\ Fraction(t, "ms") * NS = Fraction(t, "ns")
  /\ MarshalBinary(t) # <<>> =>
       MarshalBinary(t)[4] * SEC + MarshalBinary(t)[5]
         = IF offset = 0 THEN -SEC ELSE offset

\* Instants n and m nanoseconds after 1970: UnixNano gives n back, Sub is the
\* difference, the comparisons are those of n and m, with and without
\* monotonic readings, and adding whole milliseconds is exact.
InstantPromise(n, m, k) ==
  LET t == UnixNanoTime(n)   u == UnixNanoTime(m)
      mt == [t EXCEPT !.mono = At(n)]   mu == [u EXCEPT !.mono = At(m)]
  IN
  /\ UnixNano(UnixMilliTime(UnixMilli(t))) = n - (n % NS) /\ (IsZero(t) <=> n = 0)
  /\ UTC(In(t, k)) = t /\ Zone(In(t, k)) = k /\ Equal(In(mt, k), u) = (n = m)
  /\ UnixNano(t) = n /\ UnixNano(Unix(n \div (MS * NS), n % (MS * NS))) = n
  /\ \A p \in {<<t, u>>, <<mt, mu>>, <<t, mu>>} :
       /\ Sub(p[1], p[2]) = n - m
       /\ Before(p[1], p[2]) = (n < m) /\ After(p[1], p[2]) = (n > m)
       /\ Equal(p[1], p[2]) = (n = m)
       /\ Sub(Add(p[1], k * NS), p[2]) = (n - m) + k * NS
       /\ Before(p[2], Add(p[1], k * NS)) = (m < n + k * NS)

\* Round goes to the nearest multiple, ties away from zero, Truncate to the
\* next one towards zero, and the parts printed add up to the duration.
DurationPromise(d, unit) ==
  LET r == DurationRound(d, unit)   q == DurationTruncate(d, unit)
      p == DurationParts(d)
      near == {x \in (MinD - 200)..(MaxD + 200) :
                 x % unit = 0 /\ 2 * (IF x > d THEN x - d ELSE d - x) <= unit}
      abs(x) == IF x < 0 THEN -x ELSE x
  IN
  /\ unit > 0 =>
       LET want == CHOOSE x \in near : \A y \in near : abs(y) <= abs(x)
       IN  /\ want \in MinD..MaxD => r = want
           /\ q % unit = 0 /\ abs(q) <= abs(d) /\ abs(d) - abs(q) < unit
           /\ q # 0 => (q < 0) = (d < 0)
  /\ DurationAbs(d) \in 0..MaxD
  /\ (((p[2] * MIN + p[3]) * SEC + p[4]) * MS * NS) + p[5] = abs(d)

\* "Add adds the duration d to t, returning the sum."
AddExact(n, d) == Sub(Add(UnixNanoTime(n), d), UnixNanoTime(n)) = d

\* "Nanosecond returns the nanosecond offset within the second specified by t."
NanosecondExact(n) == Nanosecond(UnixNanoTime(n)) = n % (MS * NS)

\* "A duration string is a possibly signed sequence of decimal numbers, each
\* with optional fraction and a unit suffix": what String prints is parsed.
DurationParses(d) ==
  LET p == DurationParts(d)
      unit == <<0, MIN * SEC * MS * NS, SEC * MS * NS, MS * NS, 1>>
      shown == SelectSeq(<<2, 3, 4, 5>>, LAMBDA i : p[i] # 0)
      parts == [i \in DOMAIN shown |-> [n |-> p[shown[i]], unit |-> unit[shown[i]]]]
  IN  d # 0 => ParseDuration(p[1], parts) = At(d)
=============================================================================
