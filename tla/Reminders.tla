----------------------------- MODULE Reminders -----------------------------
(***************************************************************************)
(* Reminders from the table to the chat.                                    *)
(*                                                                         *)
(* The notifications server creates, deletes and postpones rows of the       *)
(* table reminders.  Schedulers read the rows that are due, publish an event *)
(* for each, add a task to the daily note and write the next time into the   *)
(* row.  The telegram bot consumes the events of the topic and sends each    *)
(* to the chat.                                                              *)
(*                                                                         *)
(* The locks of the read end with its transaction, and the write of the next *)
(* time names only the row: between the two the user, another scheduler or a *)
(* crash may come.  A row counts the calls of the user that set it (call);   *)
(* a batch and an event carry the count they were read with, so that the     *)
(* properties can tell what an event is about.                              *)
(*                                                                         *)
(* Time is a small number.  A schedule is its period, 0 for the type once;    *)
(* the calendar behind it is the module NextFire.                            *)
(***************************************************************************)
EXTENDS NextFire, Sequences

CONSTANTS
    Reminder,       \* identifiers of rows
    Scheduler,      \* processes that run Scheduler.Run over one table
    Kinds,          \* kinds of reminders: [every, task], every the period or 0
    Joined,         \* the consumer group has a committed offset from before
    MaxTime, MaxCalls, MaxFaults,
    NoRow, NoTime, NoOffset

ASSUME ConstantsAssumption ==
    /\ IsFiniteSet(Scheduler)
    /\ Kinds \subseteq [every : Nat, task : BOOLEAN]
    /\ Joined \in BOOLEAN
    /\ MaxTime \in Nat /\ MaxCalls \in Nat /\ MaxFaults \in Nat
    /\ NoTime \notin Nat /\ NoOffset \notin Nat
    /\ NoRow \notin [every : Nat, task : BOOLEAN, next : Nat, active : BOOLEAN,
                     call : Nat, wanted : BOOLEAN, at : Nat, raced : BOOLEAN]

VARIABLES
    now,
    row,        \* the table: Reminder -> row or NoRow
    batch,      \* Scheduler -> the reminders of its tick, each with its stage
    log,        \* the events of reminders_due, in the order of their offsets
    committed,  \* the committed offset of the consumer group
    cons,       \* the consumer: up, position, attempts, offset to commit
    tasks,      \* tasks added to the daily notes, per reminder
    faults, calls

vars == <<now, row, batch, log, committed, cons, tasks, faults, calls>>

MaxAttempts == 3        \* maxHandlerAttempts

\* every (schedule_type and schedule_params), task (create_task), next, active:
\* the columns.  call: how often the user has set the row; wanted: the last call
\* did not delete it; at: the time it asked for; raced: a scheduler was firing
\* the row when it was set.
Rows == [every : Nat, task : BOOLEAN, next : Nat, active : BOOLEAN,
         call : Nat, wanted : BOOLEAN, at : Nat, raced : BOOLEAN]

Held == [stage : {"publish", "task", "advance"}, at : Nat, call : Nat]

Events == [id : Reminder, at : Nat, call : Nat, shown : BOOLEAN, dropped : BOOLEAN]

\* ComputeNextFire: the first time after t that the schedule names, none for once.
NextTime(every, t) == IF every = 0 THEN NoTime ELSE every * (t \div every + 1)

Down == [up |-> FALSE, pos |-> 0, tries |-> 0, mark |-> 0]

Init ==
    /\ now = 0
    /\ row = [r \in Reminder |-> NoRow]
    /\ batch = [s \in Scheduler |-> << >>]
    /\ log = << >>
    /\ committed = IF Joined THEN 0 ELSE NoOffset
    /\ cons = Down
    /\ tasks = [r \in Reminder |-> 0]
    /\ faults = 0 /\ calls = 0

Tick == now < MaxTime /\ now' = now + 1
        /\ UNCHANGED <<row, batch, log, committed, cons, tasks, faults, calls>>

\* A failure that the run allows.
Fault == faults < MaxFaults /\ faults' = faults + 1

-----------------------------------------------------------------------------
(***************************************************************************)
(* The server: one statement on the table per call.                         *)
(***************************************************************************)

Firing(r) == \E s \in Scheduler : r \in DOMAIN batch[s]

Call == calls < MaxCalls /\ calls' = calls + 1

\* A new row.  A reminder of the type once takes the time it is given, the
\* others the next of their schedule; a time that has passed is refused.
CreateReminder(r, kind, t) ==
    /\ row[r] = NoRow /\ Call
    /\ t > now
    /\ kind.every # 0 => t = NextTime(kind.every, now)
    /\ row' = [row EXCEPT ![r] =
                  [every |-> kind.every, task |-> kind.task, next |-> t, active |-> TRUE,
                   call |-> 1, wanted |-> TRUE, at |-> t, raced |-> FALSE]]
    /\ UNCHANGED <<now, batch, log, committed, cons, tasks, faults>>

DeleteReminder(r) ==
    /\ row[r] # NoRow /\ row[r].active /\ Call
    /\ row' = [row EXCEPT ![r].active = FALSE, ![r].call = @ + 1,
                          ![r].wanted = FALSE, ![r].raced = Firing(r)]
    /\ UNCHANGED <<now, batch, log, committed, cons, tasks, faults>>

\* MUTANT of SetNextFireAt: only the time is written.
SetNextFireAt_TimeOnly(r, t) == [row[r] EXCEPT !.next = t]

\* SetNextFireAt: the time counts from now, and the row is active again even
\* if it had fired or had been deleted.
SetNextFireAt(r, t) == [row[r] EXCEPT !.next = t, !.active = TRUE]

PostponeReminder(r, d) ==
    /\ row[r] # NoRow /\ Call
    /\ row' = [row EXCEPT ![r] = [SetNextFireAt(r, now + d) EXCEPT !.call = @ + 1,
                     !.wanted = TRUE, !.at = now + d, !.raced = Firing(r)]]
    /\ UNCHANGED <<now, batch, log, committed, cons, tasks, faults>>

-----------------------------------------------------------------------------
(***************************************************************************)
(* A scheduler: one tick reads the rows that are due and fires each of them  *)
(* in a goroutine of its own.  The next tick waits for all of them.         *)
(***************************************************************************)

\* MUTANT of Due: the query forgets is_active.
Due_Inactive(r) == row[r] # NoRow /\ row[r].next <= now

Due(r) == row[r] # NoRow /\ row[r].active /\ row[r].next <= now

Without(f, r) == [q \in DOMAIN f \ {r} |-> f[q]]

Leave(s, r) == batch' = [batch EXCEPT ![s] = Without(@, r)]

At(s, r, stage) == r \in DOMAIN batch[s] /\ batch[s][r].stage = stage

\* GetDueReminders: the row locks are gone when it returns.
ReadDue(s) ==
    /\ DOMAIN batch[s] = {}
    /\ \E r \in Reminder : Due(r)
    /\ batch' = [batch EXCEPT ![s] =
                    [r \in {q \in Reminder : Due(q)} |->
                       [stage |-> "publish", at |-> row[r].next, call |-> row[r].call]]]
    /\ UNCHANGED <<now, row, log, committed, cons, tasks, faults, calls>>

Event(s, r) == [id |-> r, at |-> batch[s][r].at, call |-> batch[s][r].call,
                shown |-> FALSE, dropped |-> FALSE]

AfterPublish(r) == IF row[r].task THEN "task" ELSE "advance"

\* publishEvent.  An error leaves the row due; it may hide a write that took
\* effect, which the writer repeats or reports as failed.
Publish(s, r) ==
    /\ At(s, r, "publish")
    /\ \/ log' = Append(log, Event(s, r))
          /\ batch' = [batch EXCEPT ![s][r].stage = AfterPublish(r)]
          /\ UNCHANGED faults
       \/ Fault /\ Leave(s, r) /\ UNCHANGED log
       \/ Fault /\ log' = Append(log, Event(s, r)) /\ Leave(s, r)
       \/ Fault /\ log' = Append(log, Event(s, r)) /\ UNCHANGED batch
    /\ UNCHANGED <<now, row, committed, cons, tasks, calls>>

\* addTaskToToday: its errors are only logged.
AddTask(s, r) ==
    /\ At(s, r, "task")
    /\ \/ tasks' = [tasks EXCEPT ![r] = @ + 1] /\ UNCHANGED faults
       \/ Fault /\ UNCHANGED tasks
    /\ batch' = [batch EXCEPT ![s][r].stage = "advance"]
    /\ UNCHANGED <<now, row, log, committed, cons, calls>>

\* MUTANT of UpdateNextFire: no case for a schedule that has ended.
UpdateNextFire_NoNil(r, t) == [row[r] EXCEPT !.next = t]

\* MUTANT of UpdateNextFire: a schedule that has ended stays active.
UpdateNextFire_StaysActive(r, t) == IF t = NoTime THEN row[r] ELSE [row[r] EXCEPT !.next = t]

\* UpdateNextFire: by the identifier alone, whatever the row holds by now.
UpdateNextFire(r, t) ==
    IF t = NoTime THEN [row[r] EXCEPT !.active = FALSE]
                  ELSE [row[r] EXCEPT !.next = t]

\* An error of the update leaves the row due, and the event is out.
Advance(s, r) ==
    /\ At(s, r, "advance")
    /\ \/ row' = [row EXCEPT ![r] = UpdateNextFire(r, NextTime(row[r].every, now))]
          /\ UNCHANGED faults
       \/ Fault /\ UNCHANGED row
    /\ Leave(s, r)
    /\ UNCHANGED <<now, log, committed, cons, tasks, calls>>

\* The process stops in the middle of a tick and starts again.
Restart(s) ==
    /\ DOMAIN batch[s] # {} /\ Fault
    /\ batch' = [batch EXCEPT ![s] = << >>]
    /\ UNCHANGED <<now, row, log, committed, cons, tasks, calls>>

-----------------------------------------------------------------------------
(***************************************************************************)
(* The consumer of the bot.  The event in hand is the one after pos.        *)
(***************************************************************************)

\* A reader starts at the committed offset, without one at the end.
Join ==
    /\ ~cons.up
    /\ LET from == IF committed = NoOffset THEN Len(log) ELSE committed
       IN  cons' = [up |-> TRUE, pos |-> from, tries |-> 0, mark |-> from]
    /\ UNCHANGED <<now, row, batch, log, committed, tasks, faults, calls>>

InHand == cons.up /\ cons.pos < Len(log)

\* CommitMessages notes the offset; the reader commits it once a second.
Done == [cons EXCEPT !.pos = @ + 1, !.tries = 0, !.mark = cons.pos + 1]

\* The handler sends the notification and then the menu.
Deliver ==
    /\ InHand
    /\ log' = [log EXCEPT ![cons.pos + 1].shown = TRUE]
    /\ cons' = Done
    /\ UNCHANGED <<now, row, batch, committed, tasks, faults, calls>>

\* MUTANT of DeliverFails: an event that cannot be delivered is tried for ever.
DeliverFails_ForEver ==
    /\ InHand
    /\ IF cons.tries = 0 THEN Fault ELSE UNCHANGED faults
    /\ cons' = [cons EXCEPT !.tries = IF @ = 1 THEN 2 ELSE 1]
    /\ UNCHANGED <<now, row, batch, log, committed, tasks, calls>>

\* Either message fails, and perhaps the next attempts too; the third failure
\* skips the event.
DeliverFails ==
    /\ InHand
    /\ IF cons.tries = 0 THEN Fault ELSE UNCHANGED faults
    /\ \E sent \in BOOLEAN :
         LET last == cons.tries + 1 = MaxAttempts
             ev == log[cons.pos + 1]
         IN  /\ log' = [log EXCEPT ![cons.pos + 1] =
                          [ev EXCEPT !.shown = @ \/ sent, !.dropped = @ \/ last]]
             /\ cons' = IF last THEN Done ELSE [cons EXCEPT !.tries = @ + 1]
    /\ UNCHANGED <<now, row, batch, committed, tasks, calls>>

\* MUTANT of Commit: the offset of the event in hand is committed too.
Commit_InHand ==
    /\ InHand /\ committed # cons.pos + 1
    /\ committed' = cons.pos + 1
    /\ UNCHANGED <<now, row, batch, log, cons, tasks, faults, calls>>

\* The commit timer.
Commit ==
    /\ cons.up /\ cons.mark # committed
    /\ cons.mark > 0 \/ committed # NoOffset
    /\ committed' = cons.mark
    /\ UNCHANGED <<now, row, batch, log, cons, tasks, faults, calls>>

\* The reader is closed, which commits what it has noted, or the bot dies.
Leaves ==
    /\ cons.up /\ Fault
    /\ cons' = Down
    /\ committed' \in {committed, IF cons.mark > 0 THEN cons.mark ELSE committed}
    /\ UNCHANGED <<now, row, batch, log, tasks, calls>>

-----------------------------------------------------------------------------
Fire(s, r) == Publish(s, r) \/ AddTask(s, r) \/ Advance(s, r)

Serve(r) ==
    \/ \E kind \in Kinds, t \in 1..MaxTime + 1 : CreateReminder(r, kind, t)
    \/ DeleteReminder(r)
    \/ \E d \in 1..2 : PostponeReminder(r, d)

Consume == Join \/ Deliver \/ DeliverFails \/ Commit \/ Leaves

Next ==
    \/ Tick
    \/ \E r \in Reminder : Serve(r)
    \/ \E s \in Scheduler : ReadDue(s) \/ Restart(s)
    \/ \E s \in Scheduler, r \in Reminder : Fire(s, r)
    \/ Consume

Spec == Init /\ [][Next]_vars

\* The ticker and the goroutines of the scheduler and the loop of the consumer
\* go on; the user need not do anything.
Fairness ==
    /\ \A s \in Scheduler : WF_vars(ReadDue(s))
    /\ \A s \in Scheduler, r \in Reminder : WF_vars(Fire(s, r))
    /\ WF_vars(Join) /\ WF_vars(Deliver \/ DeliverFails)

FairSpec == Spec /\ Fairness

-----------------------------------------------------------------------------
(***************************************************************************)
(* Properties.                                                              *)
(***************************************************************************)

TypeOK ==
    /\ now \in Nat
    /\ row \in [Reminder -> Rows \cup {NoRow}]
    /\ \A s \in Scheduler : /\ DOMAIN batch[s] \subseteq Reminder
                            /\ \A r \in DOMAIN batch[s] : batch[s][r] \in Held
    /\ log \in Seq(Events)
    /\ committed \in Nat \cup {NoOffset}
    /\ cons \in [up : BOOLEAN, pos : Nat, tries : 0..MaxAttempts - 1, mark : Nat]
    /\ tasks \in [Reminder -> Nat]
    /\ faults \in 0..MaxFaults /\ calls \in 0..MaxCalls

Announced(r, c) == {i \in DOMAIN log : log[i].id = r /\ log[i].call = c}

\* What the user asked for last is still to come at the time it was asked for,
\* or was announced, unless a scheduler was firing the row at that moment.
AskedIsKept ==
    \A r \in Reminder :
       (row[r] # NoRow /\ row[r].wanted /\ ~row[r].raced) =>
          \/ Announced(r, row[r].call) # {}
          \/ row[r].active /\ row[r].next = row[r].at

\* A reminder that the user deleted is not active, and it is announced only by
\* a scheduler that had read it before the call.
DeletedIsSilent ==
    \A r \in Reminder :
       (row[r] # NoRow /\ ~row[r].wanted) =>
          /\ ~row[r].active
          /\ Announced(r, row[r].call) = {}

\* One time of a reminder is announced once for each scheduler, and again only
\* after a failure; a task is added only for an announcement.
NoRunaway ==
    \A r \in Reminder :
       /\ \A i \in DOMAIN log : log[i].id = r =>
            Cardinality({k \in Announced(r, log[i].call) : log[k].at = log[i].at})
               <= Cardinality(Scheduler) + faults
       /\ tasks[r] <= Cardinality({i \in DOMAIN log : log[i].id = r})

Handled(i) == log[i].shown \/ log[i].dropped

\* At-least-once: an offset that is committed or passed was shown in the chat or
\* dropped after three attempts.
AtLeastOnce ==
    \A i \in DOMAIN log :
       (i <= cons.pos \/ (committed # NoOffset /\ i <= committed)) => Handled(i)

\* The times of the schedules, as NextFire computes them.  They do not depend on
\* the state and are evaluated before anything happens.
ScheduleIsKept == (now = 0 /\ calls = 0 /\ ~cons.up) => SchedulesAreKept

\* What "every N days" promises, evaluated likewise: it is not kept.
EveryNDays == (now = 0 /\ calls = 0 /\ ~cons.up) => NeverSooner

\* The scheduler and the consumer catch up with whatever happens: no row stays
\* due, and no event stays in the topic without being shown or dropped.
CatchesUp == []<>(/\ \A r \in Reminder : ~Due(r)
                  /\ \A i \in DOMAIN log : Handled(i))

=============================================================================
