---------------------------- MODULE MCReminders ----------------------------
(***************************************************************************)
(* A small instance of Reminders, two schedulers over one table, and the     *)
(* inputs over which NextFire is checked.                                    *)
(***************************************************************************)
EXTENDS Reminders

CONSTANTS r1, r2, s1, s2

OnceOrOften == {[every |-> 0, task |-> TRUE], [every |-> 1, task |-> FALSE]}

Fields == [hour |-> 9, date |-> 0, days |-> {0}, day |-> 1, month |-> 1, interval |-> 1]
Of(type, s) == [type |-> type, hour |-> s.hour, date |-> s.date, days |-> s.days,
                day |-> s.day, month |-> s.month, interval |-> s.interval]

SomeSchedules ==
    {Of("daily", [Fields EXCEPT !.hour = h]) : h \in {0, 9, 23}}
    \cup {Of("weekly", [Fields EXCEPT !.hour = h, !.days = d]) :
              h \in {0, 23}, d \in {{0}, {6}, {2, 5}}}
    \cup {Of("monthly", [Fields EXCEPT !.hour = h, !.day = d]) :
              h \in {0, 23}, d \in {1, 28, 29, 30, 31}}
    \cup {Of("yearly", [Fields EXCEPT !.hour = 9, !.month = m, !.day = d]) :
              m \in {1, 2, 12}, d \in {1, 29, 31}}
    \cup {Of("custom_days", [Fields EXCEPT !.hour = h, !.interval = i]) :
              h \in {0, 9, 23}, i \in {1, 3, 31}}
    \cup {Of("once", Fields)}

\* The hours around the ends of months and years, with and without a leap day.
SomeMoments ==
    {24 * DayNumber(ym[1], ym[2], 1) + h :
        ym \in {<<2023, 2>>, <<2023, 3>>, <<2024, 1>>, <<2024, 3>>, <<2024, 5>>},
        h \in {-39, -3, -1, 0, 9}}

SomeOffsets == {-5, 3}

=============================================================================
