----------------------------- MODULE SeoulTime -----------------------------
(***************************************************************************)
(* date-time.ts and the month of the dashboard.                            *)
(*                                                                         *)
(* An instant is the number of hours since 1970-01-01T00:00Z, a written    *)
(* date what the regular expressions split it into; minutes and seconds    *)
(* are treated as hours are and left out.                                  *)
(***************************************************************************)
EXTENDS Integers

CONSTANTS Absent,  \* a part that was not written
          Invalid  \* throwInvalidDateFormat

LastYear == 9999 \* a year has four digits

\* A zone is written only after a time.
Written == {w \in [year : 0..LastYear, month : 0..99, day : 0..99,
                   hour : 0..99 \cup {Absent}, zone : -99..99 \cup {Absent}] :
              w.hour = Absent => w.zone = Absent}

-----------------------------------------------------------------------------
(* What Date does (ECMAScript): days are counted from 1970, months from 0  *)

IsLeap(y) == y % 4 = 0 /\ (y % 100 # 0 \/ y % 400 = 0)

DayFromYear(y) ==
    365 * (y - 1970) + (y - 1969) \div 4 - (y - 1901) \div 100 + (y - 1601) \div 400

DaysBefore(y, m) ==
    <<0, 31, 59, 90, 120, 151, 181, 212, 243, 273, 304, 334>>[m + 1]
    + IF IsLeap(y) /\ m > 1 THEN 1 ELSE 0

\* Months and days out of range run over into the next; the years 0 to 99
\* are those of the twentieth century.
DateUTC(year, month, day) ==
    LET y == (IF year <= 99 THEN 1900 + year ELSE year) + month \div 12
    IN  DayFromYear(y) + DaysBefore(y, month % 12) + day - 1

YearOf(d) ==
    LET near == 1970 + (400 * d) \div 146097
    IN  CHOOSE y \in near - 1..near + 1 : DayFromYear(y) <= d /\ d < DayFromYear(y + 1)

MonthOf(d) ==
    LET y == YearOf(d)
    IN  CHOOSE m \in 0..11 :
          /\ DayFromYear(y) + DaysBefore(y, m) <= d
          /\ m < 11 => d < DayFromYear(y) + DaysBefore(y, m + 1)

DayOf(d) == d - DayFromYear(YearOf(d)) - DaysBefore(YearOf(d), MonthOf(d)) + 1

-----------------------------------------------------------------------------

\* (slip) each part is in its range, Date is not asked
assertValidDateParts_rangesOnly(w) ==
    w.month \in 1..12 /\ w.day \in 1..31 /\ w.hour \in 0..23 \cup {Absent}

\* A date is valid if Date gives it back unchanged.
assertValidDateParts(w) ==
    LET d == DateUTC(w.year, w.month - 1, w.day)
    IN  /\ YearOf(d) = w.year /\ MonthOf(d) = w.month - 1 /\ DayOf(d) = w.day
        /\ w.hour \in 0..23 \cup {Absent}

\* (slip) a date without a time is one of UTC
parseSeoulDateTime_utcDays(w) ==
    IF ~assertValidDateParts(w) \/ w.zone \notin -23..23 \cup {Absent} THEN Invalid
    ELSE 24 * DateUTC(w.year, w.month - 1, w.day)
         + (IF w.hour = Absent THEN 0 ELSE w.hour)
         - (IF w.zone = Absent THEN (IF w.hour = Absent THEN 0 ELSE 9) ELSE w.zone)

\* Without a zone, and always without a time, Seoul is meant.
parseSeoulDateTime(w) ==
    IF ~assertValidDateParts(w) \/ w.zone \notin -23..23 \cup {Absent} THEN Invalid
    ELSE 24 * DateUTC(w.year, w.month - 1, w.day)
         + (IF w.hour = Absent THEN 0 ELSE w.hour)
         - (IF w.zone = Absent \/ w.hour = Absent THEN 9 ELSE w.zone)

validateDateRange(start, end) == start < end

SeoulDay(t) == (t + 9) \div 24

\* The first of a month is written and read; of a year with more digits it is
\* no date.
FirstOf(year, month) ==
    IF year > LastYear THEN Invalid
    ELSE parseSeoulDateTime([year |-> year, month |-> month + 1, day |-> 1,
                             hour |-> Absent, zone |-> Absent])

\* (slip) January follows in the same year
getCurrentMonthRangeInSeoul_sameYear(now) ==
    LET year  == YearOf(SeoulDay(now))
        month == MonthOf(SeoulDay(now))
    IN  [from |-> FirstOf(year, month), to |-> FirstOf(year, (month + 1) % 12)]

\* DashboardService.getCurrentMonthRangeInSeoul.
getCurrentMonthRangeInSeoul(now) ==
    LET year  == YearOf(SeoulDay(now))
        month == MonthOf(SeoulDay(now))
    IN  [from |-> FirstOf(year, month),
         to   |-> IF month = 11 THEN FirstOf(year + 1, 0) ELSE FirstOf(year, month + 1)]
=============================================================================
