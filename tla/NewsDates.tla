----------------------------- MODULE NewsDates -----------------------------
(***************************************************************************)
(* The dates of the mock server (src/lib.rs): the DATE response, the date  *)
(* and time arguments of NEWGROUPS and NEWNEWS, and the Date header of a   *)
(* stored article.  The state is a calendar that counts days the way       *)
(* people do, month by month; the code's closed formulas are checked       *)
(* against it.  An instant is <<days since 1970, second of the day>>.      *)
(***************************************************************************)
EXTENDS Integers, Sequences

CONSTANTS
  Years,   \* the years walked through
  Seconds, \* seconds of a day that are tried
  Zones    \* the zones of Date headers: [form, minutes east]

VARIABLES days, date

vars == <<days, date>>

IsLeap(y) == (y % 4 = 0 /\ y % 100 # 0) \/ y % 400 = 0

MonthLen(y, m) == IF m = 2 THEN IF IsLeap(y) THEN 29 ELSE 28 ELSE IF m \in {4, 6, 9, 11} THEN 30 ELSE 31

NextDay(x) ==
  LET y == x[1]  m == x[2]  d == x[3]
  IN  CASE d < MonthLen(y, m) -> <<y, m, d + 1>>
        [] d = MonthLen(y, m) /\ m < 12 -> <<y, m + 1, 1>>
        [] OTHER -> <<y + 1, 1, 1>>

PreviousDay(x) ==
  LET y == x[1]  m == x[2]  d == x[3]
  IN  CASE d > 1 -> <<y, m, d - 1>>
        [] d = 1 /\ m > 1 -> <<y, m - 1, MonthLen(y, m - 1)>>
        [] OTHER -> <<y - 1, 12, 31>>

(* New Year's Day, from the leap years in between.                         *)
Leaps(a, b) == b \div 4 - a \div 4 - (b \div 100 - a \div 100) + (b \div 400 - a \div 400)

NewYear(y) == 365 * (y - 1970) + Leaps(1969, y - 1)

Init == \E y \in Years : days = NewYear(y) /\ date = <<y, 1, 1>>

Midnight == date[1] \in Years /\ days' = days + 1 /\ date' = NextDay(date)

Next == Midnight

Spec == Init /\ [][Next]_vars

-----------------------------------------------------------------------------
(* Division of i64, which rounds towards zero.                             *)
Quotient(a, b) == IF a >= 0 THEN a \div b ELSE -((-a) \div b)

(* civil_from_unix_days.                                                   *)
CivilFromUnixDays(n) ==
  LET z     == n + 719468
      era   == Quotient(IF z >= 0 THEN z ELSE z - 146096, 146097)
      doe   == z - era * 146097
      yoe   == (doe - doe \div 1460 + doe \div 36524 - doe \div 146096) \div 365
      doy   == doe - (365 * yoe + yoe \div 4 - yoe \div 100)
      mp    == (5 * doy + 2) \div 153
      month == mp + (IF mp < 10 THEN 3 ELSE -9)
  IN  <<yoe + era * 400 + (IF month <= 2 THEN 1 ELSE 0), month, doy - (153 * mp + 2) \div 5 + 1>>

(* days_from_civil: a set of at most one number of days.                   *)
DaysFromCivil(year, m, d) ==
  LET y   == year - (IF m <= 2 THEN 1 ELSE 0)
      era == Quotient(IF y >= 0 THEN y ELSE y - 399, 400)
      yoe == y - era * 400
      mp  == m + (IF m > 2 THEN -3 ELSE 9)
      doe == yoe * 365 + yoe \div 4 - yoe \div 100 + (153 * mp + 2) \div 5 + d - 1
  IN  IF m \in 1 .. 12 /\ d \in 1 .. 31 THEN {era * 146097 + doe - 719468} ELSE {}

(* Seconds added to midnight; nothing before 1970.                         *)
Instant(n, s) == IF n + s \div 86400 >= 0 THEN {<<n + s \div 86400, s % 86400>>} ELSE {}

HourOf(s) == s \div 3600

MinuteOf(s) == (s % 3600) \div 60

SecondOf(s) == s % 60

(* date_response_for_unix_seconds: the fourteen digits, by field.          *)
DateResponse(n, s) ==
  LET c == CivilFromUnixDays(n)
  IN  [date |-> <<c[1] % 10000, c[2] % 100, c[3] % 100>>, time |-> <<HourOf(s), MinuteOf(s), SecondOf(s)>>]

(* normalized_nntp_date_key: the year of a date of six or eight digits.    *)
NormalizedYear(year, short, current) ==
  IF ~short THEN year
  ELSE (current \div 100) * 100 + year - (IF year <= current % 100 THEN 0 ELSE 100)

(* nntp_datetime_timestamp.                                                *)
NntpTimestamp(d, t, short, current) ==
  UNION {Instant(n, t[1] * 3600 + t[2] * 60 + t[3]) : n \in DaysFromCivil(NormalizedYear(d[1], short, current), d[2], d[3])}

DayFirst_NntpKey(d, t, short, current) ==
  <<d[3] * 1000000 + d[2] * 10000 + NormalizedYear(d[1], short, current), t[1] * 10000 + t[2] * 100 + t[3]>>

(* normalized_nntp_datetime_key, as <<date, time>>.                        *)
NntpKey(d, t, short, current) ==
  <<NormalizedYear(d[1], short, current) * 10000 + d[2] * 100 + d[3], t[1] * 10000 + t[2] * 100 + t[3]>>

(* The last word of a Date header: GMT and UTC are cut off, a missing zone *)
(* is +0000, GMT counts in any case, and a name is not understood.         *)
ZoneOffset(zone) ==
  CASE zone.form \in {"none", "GMT", "UTC", "gmt"} -> {0}
    [] zone.form = "digits" -> {zone.minutes}
    [] OTHER -> {}

(* parse_rfc2822_date_key, on the fields of a header: the local date, the  *)
(* local second of the day and the zone.                                   *)
Rfc2822Key(d, s, zone) ==
  UNION {Instant(n, s - offset * 60) : n \in DaysFromCivil(d[1], d[2], d[3]), offset \in ZoneOffset(zone)}

(* What a header says in a zone for the second s of this day.              *)
LocalDate(s, offset) ==
  LET t == s + offset * 60
  IN  IF t < 0 THEN PreviousDay(date) ELSE IF t >= 86400 THEN NextDay(date) ELSE date

LocalSecond(s, offset) == (s + offset * 60) % 86400

(* newnews_matches: an article is listed unless it is older than the       *)
(* cutoff; without a Date it counts as the oldest, without a cutoff all    *)
(* are listed.                                                             *)
Before(a, b) == a[1] < b[1] \/ (a[1] = b[1] /\ a[2] < b[2])

Oldest == <<0, 0>>

IsListed(key, cutoff) ==
  \A c \in cutoff : ~Before(IF key = {} THEN Oldest ELSE CHOOSE k \in key : TRUE, c)

-----------------------------------------------------------------------------
(* The closed formulas count days as the calendar does, in both            *)
(* directions, through every leap year, century and 400-year era           *)
(* (civil_from_unix_days and days_from_civil).                             *)
CalendarExact == days >= 0 => CivilFromUnixDays(days) = date /\ DaysFromCivil(date[1], date[2], date[3]) = {days}

(* A client that sends the server's DATE response back as the date and     *)
(* time of NEWNEWS asks for exactly that instant, with the year in four    *)
(* digits or in two (date_response_for_unix_seconds against                *)
(* nntp_datetime_timestamp).                                               *)
DateRoundTrip ==
  days >= 0 => \A s \in Seconds :
    LET r == DateResponse(days, s)
    IN  /\ NntpTimestamp(r.date, r.time, FALSE, date[1]) = {<<days, s>>}
        /\ NntpTimestamp(<<r.date[1] % 100, r.date[2], r.date[3]>>, r.time, TRUE, date[1]) = {<<days, s>>}

(* A year of two digits is the latest year that ends in them and is not in *)
(* the future, seen from each New Year's Day (normalized_nntp_date_key).   *)
ShortYearIsRecent ==
  date[2] = 1 /\ date[3] = 1 => \A back \in 0 .. 99 : NormalizedYear((date[1] - back) % 100, TRUE, date[1]) = date[1] - back

(* The key NEWGROUPS compares with a far-future constant grows with time,  *)
(* from one day to the next and within the day.                            *)
KeysGrow ==
  /\ \A s, t \in Seconds : s < t => Before(NntpKey(date, <<HourOf(s), MinuteOf(s), SecondOf(s)>>, FALSE, date[1]),
                                           NntpKey(date, <<HourOf(t), MinuteOf(t), SecondOf(t)>>, FALSE, date[1]))
  /\ \A s, t \in Seconds : Before(NntpKey(date, <<HourOf(s), MinuteOf(s), SecondOf(s)>>, FALSE, date[1]),
                                  NntpKey(NextDay(date), <<HourOf(t), MinuteOf(t), SecondOf(t)>>, FALSE, date[1]))

(* NEWNEWS lists an article exactly when it is not older than the date     *)
(* asked for, in whatever time zone its Date header was written; a header  *)
(* whose zone is not understood counts as no date at all                   *)
(* (parse_rfc2822_date_key against nntp_datetime_timestamp).               *)
ZoneInvisible ==
  days > 0 => \A s, t \in Seconds, z \in Zones :
    LET key    == Rfc2822Key(LocalDate(s, z.minutes), LocalSecond(s, z.minutes), z)
        cutoff == NntpTimestamp(date, <<HourOf(t), MinuteOf(t), SecondOf(t)>>, FALSE, date[1])
    IN  IsListed(key, cutoff) <=> (s >= t /\ z.form # "name")
=============================================================================
