------------------------------ MODULE NextFire ------------------------------
(***************************************************************************)
(* ComputeNextFire: the next moment a schedule names, over the real          *)
(* calendar, and the checks a schedule passes before it is stored.          *)
(*                                                                         *)
(* A moment is a number of hours since 1970-01-01 00:00 UTC.  The minute of   *)
(* a schedule only names a finer moment of the day and is left out.          *)
(***************************************************************************)
EXTENDS Integers, FiniteSets, FiniteSetsExt

CONSTANTS
    Schedules, Moments, Offsets,    \* the inputs over which it is checked
    Never                           \* nil

Types == {"once", "daily", "weekly", "monthly", "yearly", "custom_days"}

\* The type, and the parameters of every type.
AllSchedules == [type : Types, hour : Int, date : Int, days : SUBSET Int,
                 day : Int, month : Int, interval : Int]

\* The clock shows a day of 1970 or later.
ASSUME InputsAssumption ==
    /\ Schedules \subseteq AllSchedules
    /\ Moments \subseteq Nat /\ Offsets \subseteq Int
    /\ \A t \in Moments, o \in Offsets : t + o >= 0
    /\ Never \notin Int

-----------------------------------------------------------------------------
(***************************************************************************)
(* The calendar of the time package.                                        *)
(***************************************************************************)

IsLeap(y) == (y % 4 = 0 /\ y % 100 # 0) \/ y % 400 = 0

DaysIn(y, m) == CASE m \in {4, 6, 9, 11} -> 30
                  [] m = 2 -> IF IsLeap(y) THEN 29 ELSE 28
                  [] OTHER -> 31

\* Days of the months before m, counted in a year without a leap day.
Before == <<0, 31, 59, 90, 120, 151, 181, 212, 243, 273, 304, 334>>

Leaps(y) == y \div 4 - y \div 100 + y \div 400

DayNumber(y, m, d) ==
    365 * (y - 1970) + Leaps(y - 1) - Leaps(1969) + Before[m]
      + (IF m > 2 /\ IsLeap(y) THEN 1 ELSE 0) + d - 1

YearOf(n)  == CHOOSE y \in 1970 + n \div 366..1970 + n \div 365 :
                 DayNumber(y, 1, 1) <= n /\ n < DayNumber(y + 1, 1, 1)

MonthOf(n) == LET y == YearOf(n)
              IN  CHOOSE m \in 1..12 : n - DayNumber(y, m, 1) \in 0..DaysIn(y, m) - 1

\* Monday is 0; 1970-01-01 was a Thursday.
Weekday(n) == (n + 3) % 7

-----------------------------------------------------------------------------
(***************************************************************************)
(* ComputeNextFire.                                                         *)
(***************************************************************************)

\* MUTANT of SafeDate: time.Date carries the day over into the next month.
SafeDate_CarriesOver(y, m, d) == {DayNumber(y, m, d)}

\* safeDate: no date for a day that the month does not have.
SafeDate(y, m, d) == IF d \in 1..DaysIn(y, m) THEN {DayNumber(y, m, d)} ELSE {}

\* The months and the years the code scans, from those of the day n.
MonthsFrom(n) == {LET k == MonthOf(n) - 1 + i
                  IN  <<YearOf(n) + k \div 12, (k % 12) + 1>> : i \in 0..11}

YearsFrom(n) == YearOf(n)..YearOf(n) + 99

Earliest(moments) == IF moments = {} THEN Never ELSE Min(moments)

ComputeNextFire(s, after, offset) ==
    LET today  == (after + offset) \div 24
        At(n)  == 24 * n + s.hour - offset
        first  == IF At(today) > after THEN today ELSE today + 1
        Of(ns) == Earliest({t \in {At(n) : n \in ns} : t > after})
    IN  CASE s.type = "once"    -> Never
          [] s.type = "daily"   -> At(first)
          [] s.type = "weekly"  -> Of({n \in first..first + 6 : Weekday(n) \in s.days})
          [] s.type = "monthly" -> Of(UNION {SafeDate(ym[1], ym[2], s.day) : ym \in MonthsFrom(today)})
          [] s.type = "yearly"  -> Of(UNION {SafeDate(y, s.month, s.day) : y \in YearsFrom(today)})
          [] s.type = "custom_days" ->
                At(IF At(today) > after THEN today ELSE today + s.interval)

\* CreateReminder: what is stored, Never when the request is refused.
FirstFire(s, now, offset) ==
    IF s.type = "once"
      THEN LET t == 24 * s.date + s.hour - offset IN IF t > now THEN t ELSE Never
      ELSE ComputeNextFire(s, now, offset)

-----------------------------------------------------------------------------
(***************************************************************************)
(* validateReminderRequest and scheduleParamsToMap.  A request names a type  *)
(* and carries the parameters (extra) of a type, none of them for daily.    *)
(***************************************************************************)

Accepted(type, extra, s) ==
    /\ type \in Types
    /\ s.hour \in 0..23
    /\ extra = "daily" => type = "daily"
    /\ extra = "weekly" => s.days # {} /\ s.days \subseteq 0..6
    /\ extra = "monthly" => s.day \in 1..31
    /\ extra = "yearly" => s.month \in 1..12 /\ s.day \in 1..31
    /\ extra = "custom_days" => s.interval >= 1

\* The parameters of another type are not looked for: the defaults of
\* ComputeNextFire take their place.
Stored(type, extra, s) ==
    [type |-> type, hour |-> s.hour, date |-> s.date,
     days     |-> IF extra = "weekly" THEN s.days ELSE {0},
     day      |-> CASE extra = "monthly" /\ type = "monthly" -> s.day
                    [] extra = "yearly" /\ type = "yearly" -> s.day
                    [] OTHER -> 1,
     month    |-> IF extra = "yearly" THEN s.month ELSE 1,
     interval |-> IF extra = "custom_days" THEN s.interval ELSE 1]

-----------------------------------------------------------------------------
(***************************************************************************)
(* Properties.                                                              *)
(***************************************************************************)

\* The days that a schedule names, read from the calendar alone.
Names(s, n) ==
    CASE s.type = "daily"   -> TRUE
      [] s.type = "weekly"  -> Weekday(n) \in s.days
      [] s.type = "monthly" -> n + 1 - DayNumber(YearOf(n), MonthOf(n), 1) = s.day
      [] s.type = "yearly"  -> MonthOf(n) = s.month
                               /\ n + 1 - DayNumber(YearOf(n), s.month, 1) = s.day
      [] OTHER -> FALSE

\* What is stored for a request fires first at the first moment after the given
\* one that the schedule names: no month or year is skipped that has the day, and
\* no day is taken that is not asked for.
FiresFirst(s, extra, t, o) ==
    LET next   == FirstFire(Stored(s.type, extra, s), t, o)
        day(u) == (u + o) \div 24
    IN  /\ next # Never => /\ next > t
                           /\ (next + o) % 24 = s.hour
                           /\ Names(s, day(next))
        /\ \A n \in day(t)..(IF next = Never THEN day(t) + 800 ELSE day(next)) :
              Names(s, n) => LET u == 24 * n + s.hour - o
                             IN  u > t => (next # Never /\ next <= u)

\* A schedule of every so many days is asked at the moment t at which the
\* announcement due before is out (time.Now of the tick, not next_fire_at).  Within
\* the day it keeps its distance, however late it is; later it counts from the day
\* of the announcement, unless the hour of that day is still to come.
IntervalIsKept(s, due, t, o) ==
    LET next   == ComputeNextFire(s, t, o)
        day(u) == (u + o) \div 24
    IN  due <= t /\ (due + o) % 24 = s.hour =>
           /\ next > t /\ (next + o) % 24 = s.hour
           /\ day(t) = day(due) => next = due + 24 * s.interval
           /\ day(next) \in {day(t), day(t) + s.interval}

OfCalendar == {"daily", "weekly", "monthly", "yearly"}

SchedulesAreKept ==
    \A s \in Schedules, t \in Moments, o \in Offsets :
       /\ (s.type \in OfCalendar /\ Accepted(s.type, s.type, s)) => FiresFirst(s, s.type, t, o)
       /\ (s.type = "custom_days" /\ Accepted(s.type, s.type, s)) =>
              \A due \in t - 48..t : IntervalIsKept(s, due, t, o)

\* "Every N days" (README.md:16): a reminder fires no sooner than N days after the
\* time it was last due.  The code does not keep this: an announcement that comes
\* after midnight names the hour of the same day.
NeverSooner ==
    \A s \in Schedules, t \in Moments, o \in Offsets : s.type = "custom_days" =>
       \A due \in t - 1..t :
          (due + o) % 24 = s.hour => ComputeNextFire(s, t, o) >= due + 24 * s.interval

=============================================================================
