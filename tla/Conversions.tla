---------------------------- MODULE Conversions -----------------------------
(***************************************************************************)
(* The pure computations of muduo/base: the calendar, and numbers to text. *)
(***************************************************************************)
EXTENDS Integers, Sequences, FiniteSetsExt, SequencesExt

(***************************************************************************)
(* Date, and TimeZone, of muduo/base.  The operators are the arithmetic of *)
(* the code; the state machine walks the calendar one day at a time, the   *)
(* way the Gregorian rules define it, and a local clock one unit at a time *)
(* across the transitions of a zone, so that the code can be compared with *)
(* the definition on every day and at every moment.                        *)
(***************************************************************************)
CONSTANTS
  FirstYear, LastYear,   \* bound: the years walked
  Hour,                  \* an hour, in units of the walk (3600 s in the code)
  LastUnit               \* bound: the units walked

VARIABLES
  year, month, day,      \* the walk's date
  days,                  \* its distance from 1970-01-01
  zone,                  \* a zone, as its file describes it
  now                    \* the walk's UTC moment in that zone

calendarVars == <<year, month, day, days, zone, now>>

\* Division of C integers, which truncates.
Quot(a, b) == IF a >= 0 THEN a \div b ELSE -((-a) \div b)
Rem(a, b) == a - b * Quot(a, b)

-----------------------------------------------------------------------------
getJulianDayNumber_NoCentury(y0, m0, d0) ==
  LET a == (14 - m0) \div 12
      y == y0 + 4800 - a
      m == m0 + 12 * a - 3
  IN  d0 + (153 * m + 2) \div 5 + y * 365 + y \div 4 - 32045

getJulianDayNumber(y0, m0, d0) ==
  LET a == (14 - m0) \div 12
      y == y0 + 4800 - a
      m == m0 + 12 * a - 3
  IN  d0 + (153 * m + 2) \div 5 + y * 365 + y \div 4 - y \div 100 + y \div 400 - 32045

getYearMonthDay(julianDayNumber) ==
  LET a == julianDayNumber + 32044
      b == (4 * a + 3) \div 146097
      c == a - (b * 146097) \div 4
      d == (4 * c + 3) \div 1461
      e == c - (1461 * d) \div 4
      m == (5 * e + 2) \div 153
  IN  <<b * 100 + d - 4800 + m \div 10, m + 3 - 12 * (m \div 10), e - (153 * m + 2) \div 5 + 1>>

kJulianDayOf1970_01_01 == getJulianDayNumber(1970, 1, 1)
weekDay(julianDayNumber) == (julianDayNumber + 1) % 7

kSecondsPerDay == 24 * 60 * 60

\* fillHMS()
HMS(seconds) == <<(seconds \div 60) \div 60, (seconds \div 60) % 60, seconds % 60>>

toUtcTime(secondsSinceEpoch) ==
  LET s0 == Rem(secondsSinceEpoch, kSecondsPerDay)
      d0 == Quot(secondsSinceEpoch, kSecondsPerDay)
      seconds == IF s0 < 0 THEN s0 + kSecondsPerDay ELSE s0
      jdn == (IF s0 < 0 THEN d0 - 1 ELSE d0) + kJulianDayOf1970_01_01
      ymd == getYearMonthDay(jdn)
  IN  [ymd |-> ymd, hms |-> HMS(seconds), wday |-> weekDay(jdn),
       yday |-> jdn - getJulianDayNumber(ymd[1], 1, 1)]

fromUtcTime(utc) ==
  (getJulianDayNumber(utc.ymd[1], utc.ymd[2], utc.ymd[3]) - kJulianDayOf1970_01_01) * kSecondsPerDay
    + utc.hms[1] * 3600 + utc.hms[2] * 60 + utc.hms[3]

-----------------------------------------------------------------------------
\* A zone file is a sequence of numbers: magic, version, the six counts, the
\* transition times, their types, the types as three numbers each.  What a short
\* file lacks ends the reading, and what was read so far is kept.
readTimeZoneFile(f) ==
  LET timecnt == f[6]
      typecnt == f[7]
      base    == 8 + 2 * timecnt
      whole   == Min({typecnt, Max({0, Len(f) - base}) \div 3})
      types   == [i \in 1 .. whole |-> [gmtOffset |-> f[base + 3 * i - 2], isDst |-> f[base + 3 * i - 1]]]
  IN  IF Len(f) < 8 \/ f[1] # 0 THEN [transitions |-> <<>>, localtimes |-> <<>>]
      ELSE [localtimes  |-> types,
            transitions |-> IF whole < typecnt THEN <<>>
                            ELSE [i \in 1 .. timecnt |->
                                   LET idx == f[8 + timecnt + i] + 1
                                   IN  [gmttime |-> f[8 + i],
                                        localtime |-> f[8 + i] + types[idx].gmtOffset,
                                        localtimeIdx |-> idx]]]

Key(tr, compareGmt) == IF compareGmt THEN tr.gmttime ELSE tr.localtime

\* The transition that holds at a moment: the one at it, or the one before the
\* first that is later.
TransitionAt(data, moment, compareGmt, transI) ==
  IF Key(data.transitions[transI], compareGmt) = moment THEN transI ELSE transI - 1

findLocaltime(data, moment, compareGmt) ==
  LET n     == Len(data.transitions)
      later == {i \in 1 .. n : ~(Key(data.transitions[i], compareGmt) < moment)}     \* lower_bound()
  IN  IF n = 0 \/ moment < Key(data.transitions[1], compareGmt) THEN data.localtimes[1]
      ELSE data.localtimes[data.transitions[
             IF later = {} THEN n ELSE TransitionAt(data, moment, compareGmt, Min(later))].localtimeIdx]

\* A struct tm is its moment as if in UTC, and its daylight-saving flag.
toLocalTime(data, seconds) ==
  LET local == findLocaltime(data, seconds, TRUE)
  IN  [tm |-> seconds + local.gmtOffset, isdst |-> local.isDst]

SameHourAndMinute(a, b) == a % (24 * Hour) = b % (24 * Hour)

Repeated_Never(data, localTm, local) == FALSE
Repeated(data, localTm, local) ==
  /\ localTm.isdst = 1
  /\ LET tryTm == toLocalTime(data, localTm.tm - local.gmtOffset)
     IN  tryTm.isdst = 0 /\ SameHourAndMinute(tryTm.tm, localTm.tm)

fromLocalTime(data, localTm) ==
  LET local == findLocaltime(data, localTm.tm, FALSE)
  IN  (IF Repeated(data, localTm, local) THEN localTm.tm - Hour ELSE localTm.tm) - local.gmtOffset

-----------------------------------------------------------------------------
\* The walk.
Leap(y) == y % 4 = 0 /\ (y % 100 # 0 \/ y % 400 = 0)
DaysIn(y, m) == IF m = 2 THEN (IF Leap(y) THEN 29 ELSE 28) ELSE IF m \in {4, 6, 9, 11} THEN 30 ELSE 31

\* Zones of one standard offset with and without daylight saving time, whose first
\* period is the one its first type describes, as zone files are laid out.
File(times, types, offsets) ==
  <<0, 0, 0, 0, 0, Len(times), Len(offsets), 1>> \o times \o types
    \o [i \in 1 .. 3 * Len(offsets) |->
          IF i % 3 = 1 THEN offsets[1 + i \div 3][1] ELSE IF i % 3 = 2 THEN offsets[1 + i \div 3][2] ELSE 0]

Zones ==
  {File(<<>>, <<>>, << <<8 * Hour, 0>> >>),
   File(<<10 * Hour, 20 * Hour>>, <<1, 0>>, << <<-5 * Hour, 0>>, <<-4 * Hour, 1>> >>),
   File(<<10 * Hour, 20 * Hour, 30 * Hour>>, <<0, 1, 0>>, << <<0, 0>>, <<Hour, 1>> >>),
   File(<<10 * Hour, 20 * Hour>>, <<1, 0>>, << <<10 * Hour, 1>>, <<9 * Hour, 0>> >>)}

CalendarInit ==
  \/ /\ year = FirstYear /\ month = 1 /\ day = 1
     /\ days = getJulianDayNumber(FirstYear, 1, 1) - kJulianDayOf1970_01_01
     /\ zone = <<>> /\ now = 0
  \/ /\ year = 0 /\ month = 0 /\ day = 0 /\ days = 0
     /\ zone \in Zones /\ now = 0

NextDay ==
  /\ zone = <<>>
  /\ LET newMonth == day = DaysIn(year, month)
         newYear  == newMonth /\ month = 12
     IN  /\ ~(newYear /\ year = LastYear)
         /\ day' = IF newMonth THEN 1 ELSE day + 1
         /\ month' = IF newYear THEN 1 ELSE IF newMonth THEN month + 1 ELSE month
         /\ year' = IF newYear THEN year + 1 ELSE year
  /\ days' = days + 1
  /\ UNCHANGED <<zone, now>>

Tick ==
  /\ zone # <<>> /\ now < LastUnit
  /\ now' = now + 1
  /\ UNCHANGED <<year, month, day, days, zone>>

CalendarNext == NextDay \/ Tick
CalendarSpec == CalendarInit /\ [][CalendarNext]_calendarVars

-----------------------------------------------------------------------------
\* getJulianDayNumber() and getYearMonthDay() are inverse to each other and agree
\* with the calendar on every day, with the weekday and the day of the year; and
\* toUtcTime() and fromUtcTime() are inverse to each other at the edges of the day,
\* before 1970 too, as far as 32 bits reach (Date.cc:25, TimeZone.cc:323).
DateAgrees ==
  zone = <<>> =>
    LET jdn == days + kJulianDayOf1970_01_01
    IN  /\ getJulianDayNumber(year, month, day) = jdn
        /\ getYearMonthDay(jdn) = <<year, month, day>>
        /\ weekDay(jdn) = (days + 4) % 7
        /\ days \in -24000 .. 24000 =>
             \A s \in {0, 59, 3600, kSecondsPerDay - 1} :
               LET utc == toUtcTime(days * kSecondsPerDay + s)
               IN  /\ utc.ymd = <<year, month, day>>
                   /\ utc.yday = day - 1 + MapThenSumSet(LAMBDA m : DaysIn(year, m), 1 .. month - 1)
                   /\ fromUtcTime(utc) = days * kSecondsPerDay + s

\* A moment taken to local time and back is the same moment, also in the hour that
\* the end of daylight saving time repeats, where only tm_isdst tells the two apart
\* (TimeZone.cc:312); and a zone file cut short never gives a transition to a type
\* that was not read (TimeZone.cc:197).
ZoneRoundTrips ==
  zone # <<>> =>
    /\ LET data == readTimeZoneFile(zone)
       IN  fromLocalTime(data, toLocalTime(data, now)) = now
    /\ \A n \in 8 .. Len(zone) :
         LET data == readTimeZoneFile(SubSeq(zone, 1, n))
         IN  \A i \in DOMAIN data.transitions : data.transitions[i].localtimeIdx \in DOMAIN data.localtimes

-----------------------------------------------------------------------------
(***************************************************************************)
(* muduo/base/LogStream: text is put together in a FixedBuffer, where an   *)
(* operand that does not fit is left out.  Characters are the digits, "-"  *)
(* and "x" for any other one.  An integer is Width bits wide.              *)
(***************************************************************************)
CONSTANTS
  SIZE,             \* kSmallBuffer, 4000 in the code
  kMaxNumericSize,  \* 32 in the code
  Width,            \* the width of an integer, up to 64 in the code
  MaxOperands       \* bound: operands in a behaviour

VARIABLES
  data,      \* data_[0 .. cur_), the text so far
  touched,   \* how far into data_ the code has written
  given      \* the operands, with whether they were put in

streamVars == <<data, touched, given>>

Values == -(2 ^ (Width - 1)) .. 2 ^ (Width - 1) - 1
Strings == {<<>>, <<"x">>, <<"x", "x", "x">>}

avail == SIZE - Len(data)

\* zero[lsd]: a table of digits that is symmetric about its middle, since the
\* remainder of a negative number is negative.
digits == <<"9", "8", "7", "6", "5", "4", "3", "2", "1", "0", "1", "2", "3", "4", "5", "6", "7", "8", "9">>

Truncated(i) == IF i >= 0 THEN i \div 10 ELSE -((-i) \div 10)

RECURSIVE Digits(_)
Digits(i) ==
  LET rest == Truncated(i)
      lsd  == <<digits[10 + (i - 10 * rest)]>>
  IN  IF rest = 0 THEN lsd ELSE lsd \o Digits(rest)

\* The sign is decided on the value, never by negating it: the least value of the
\* type has no positive counterpart.
convert(value) == Reverse(Digits(value) \o (IF value < 0 THEN <<"-">> ELSE <<>>))

digitsHex == <<"0", "1", "2", "3", "4", "5", "6", "7", "8", "9", "A", "B", "C", "D", "E", "F">>

RECURSIVE HexDigits(_)
HexDigits(i) == <<digitsHex[1 + (i % 16)]>> \o (IF i < 16 THEN <<>> ELSE HexDigits(i \div 16))
convertHex(value) == Reverse(HexDigits(value))

\* What an operator<< does with the text of its operand, if it fits; extra
\* characters are written behind it.
Put(text, fits, extra) ==
  LET end == Len(data) + Len(text) + extra
  IN  /\ data' = IF fits THEN data \o text ELSE data
      /\ touched' = IF fits /\ end > touched THEN end ELSE touched
      /\ given' = Append(given, [text |-> text, whole |-> fits])

StreamInit == data = <<>> /\ touched = 0 /\ given = <<>>

\* FixedBuffer::append(), behind operator<< of strings, characters and booleans.
Fits(len) == avail > len

append(s) == Put(s, Fits(Len(s)), 0)

\* The numbers, whose conversions end with a NUL.
NumberFits_Shorter == avail >= kMaxNumericSize - 1
NumberFits == avail >= kMaxNumericSize

formatInteger(v) == Put(convert(v), NumberFits, 1)
formatPointer(v) == Put(<<"0", "x">> \o convertHex(v), NumberFits, 1)
\* A double takes what snprintf() makes of it, at most kMaxNumericSize - 1.
formatDouble(text) == Put(text, NumberFits, 1)

resetBuffer == data' = <<>> /\ touched' = 0 /\ given' = <<>>

StreamNext ==
  \/ /\ Len(given) < MaxOperands
     /\ \/ \E s \in Strings : append(s)
        \/ \E v \in Values : formatInteger(v)
        \/ \E v \in 0 .. 2 ^ Width - 1 : formatPointer(v)
        \/ formatDouble([i \in 1 .. kMaxNumericSize - 1 |-> "x"])
  \/ resetBuffer

StreamSpec == StreamInit /\ [][StreamNext]_streamVars

-----------------------------------------------------------------------------
Digit == [c \in {"0", "1", "2", "3", "4", "5", "6", "7", "8", "9"} |->
            CHOOSE i \in 0 .. 9 : digits[10 + i] = c]
Number(text) ==
  LET neg == text[1] = "-"
      ds  == IF neg THEN Tail(text) ELSE text
      n   == FoldLeft(LAMBDA acc, c : 10 * acc + Digit[c], 0, ds)
  IN  IF neg THEN -n ELSE n

\* The stream holds, in order, the operands that fitted, each whole; no write
\* leaves the buffer, the NUL behind a number included; and the digits of every
\* value of the type read back as that value (LogStream.cc:33, LogStream.cc:112).
StreamIsWhole ==
  /\ data = FlattenSeq([i \in DOMAIN given |-> IF given[i].whole THEN given[i].text ELSE <<>>])
  /\ touched <= SIZE
  /\ given = <<>> => \A v \in Values : Number(convert(v)) = v
=============================================================================
