-------------------------- MODULE RemindersProofs --------------------------
(***************************************************************************)
(* Proofs about Reminders, for any number of reminders and schedulers, any    *)
(* kinds of reminders, and any bounds on time, calls and faults.              *)
(***************************************************************************)
EXTENDS Reminders, NextFireProofs, FiniteSetTheorems, SequenceTheorems, TLAPS

\* A batch: some reminders, each with what a scheduler read of it.
Batches == UNION {[D -> Held] : D \in SUBSET Reminder}

\* TypeOK with the shape of the batches, whose reminders have a row.
Inv1 ==
    /\ TypeOK
    /\ batch \in [Scheduler -> Batches]
    /\ \A s \in Scheduler : \A r \in DOMAIN batch[s] : row[r] # NoRow

-----------------------------------------------------------------------------
(***************************************************************************)
(* The operators of the module.                                             *)
(***************************************************************************)

\* The next time of a schedule is a later time, or none.
LEMMA NextTimeIsLater ==
    ASSUME NEW every \in Nat, NEW t \in Nat
    PROVE  NextTime(every, t) = NoTime \/ (NextTime(every, t) \in Nat /\ NextTime(every, t) > t)
<1>1. CASE every = 0
    BY <1>1 DEF NextTime
<1>2. CASE every # 0
    <2> DEFINE q == t \div every
    <2>1. q \in Nat
        BY <1>2
    <2>2. t < every * q + every
        BY <1>2
    <2> HIDE DEF q
    <2>3. every * (q + 1) = every * q + every /\ every * (q + 1) \in Nat
        BY <2>1
    <2>4. every * (q + 1) > t
        BY <2>1, <2>2, <2>3
    <2>5. QED BY <1>2, <2>3, <2>4 DEF NextTime, q
<1>3. QED BY <1>1, <1>2

\* A batch loses one reminder and keeps the others as they are.
LEMMA WithoutIsABatch ==
    ASSUME NEW b \in Batches, NEW r \in Reminder
    PROVE  /\ Without(b, r) \in Batches
           /\ DOMAIN Without(b, r) = DOMAIN b \ {r}
           /\ \A q \in DOMAIN Without(b, r) : Without(b, r)[q] = b[q]
<1>1. PICK D \in SUBSET Reminder : b \in [D -> Held]
    BY DEF Batches
<1>2. Without(b, r) \in [D \ {r} -> Held]
    BY <1>1 DEF Without
<1>3. QED BY <1>1, <1>2 DEF Without, Batches

\* One reminder of a batch goes on to another stage, the others stay.
LEMMA StageIsABatch ==
    ASSUME NEW b \in Batches, NEW r \in DOMAIN b, NEW stage \in {"publish", "task", "advance"}
    PROVE  /\ [b EXCEPT ![r].stage = stage] \in Batches
           /\ DOMAIN [b EXCEPT ![r].stage = stage] = DOMAIN b
           /\ [b EXCEPT ![r].stage = stage][r] = [b[r] EXCEPT !.stage = stage]
           /\ \A q \in DOMAIN b \ {r} : [b EXCEPT ![r].stage = stage][q] = b[q]
<1>1. PICK D \in SUBSET Reminder : b \in [D -> Held]
    BY DEF Batches
<1>2. [b[r] EXCEPT !.stage = stage] \in Held
    BY <1>1 DEF Held
<1>3. [b EXCEPT ![r].stage = stage] \in [D -> Held]
    BY <1>1, <1>2
<1>4. QED BY <1>1, <1>3 DEF Batches

\* What a batch holds.
LEMMA EntriesOfABatch ==
    ASSUME NEW b \in Batches
    PROVE  /\ DOMAIN b \subseteq Reminder
           /\ \A r \in DOMAIN b : b[r] \in Held
BY DEF Batches

-----------------------------------------------------------------------------
(***************************************************************************)
(* Types.                                                                   *)
(***************************************************************************)

\* A row is not the absence of one.
LEMMA RowIsARow == NoRow \notin Rows
BY ConstantsAssumption DEF Rows

\* What a call of the server writes: one row, under a new count, that is active
\* exactly if the user wants it, at the time that was asked for.
Sets(r, new) ==
    /\ row' = [row EXCEPT ![r] = new]
    /\ calls' \in 0..MaxCalls
    /\ UNCHANGED <<now, batch, log, committed, cons, tasks, faults>>
    /\ row[r] # NoRow => new.call = row[r].call + 1 /\ new.raced = Firing(r)
    /\ new.active = new.wanted
    /\ new.wanted => new.next = new.at

\* CreateReminder is such a call: there was no row, the new one is wanted.
LEMMA CreateSets ==
    ASSUME Inv1, NEW r \in Reminder, NEW kind \in Kinds, NEW t \in 1..MaxTime + 1,
           CreateReminder(r, kind, t)
    PROVE  \E new \in Rows : Sets(r, new)
<1> DEFINE new == [every |-> kind.every, task |-> kind.task, next |-> t, active |-> TRUE,
                   call |-> 1, wanted |-> TRUE, at |-> t, raced |-> FALSE]
<1>1. kind \in [every : Nat, task : BOOLEAN] /\ t \in Nat
    BY ConstantsAssumption
<1>2. new \in Rows
    BY <1>1 DEF Rows
<1>3. calls' \in 0..MaxCalls
    BY ConstantsAssumption DEF CreateReminder, Call, Inv1, TypeOK
<1>4. Sets(r, new)
    BY <1>3 DEF CreateReminder, Sets
<1>5. QED BY <1>2, <1>4

\* DeleteReminder is one: what it leaves is neither active nor wanted.
LEMMA DeleteSets ==
    ASSUME Inv1, NEW r \in Reminder, DeleteReminder(r)
    PROVE  \E new \in Rows : Sets(r, new)
<1> DEFINE count == row[r].call + 1
           firing == Firing(r)
           new == [row[r] EXCEPT !.active = FALSE, !.call = count,
                                 !.wanted = FALSE, !.raced = firing]
<1>1. row[r] \in Rows
    BY DEF DeleteReminder, Inv1, TypeOK
<1>2. count \in Nat /\ firing \in BOOLEAN
    BY <1>1 DEF Rows, Firing
<1>3. /\ row' = [row EXCEPT ![r] = new]
      /\ count = row[r].call + 1
      /\ firing = Firing(r)
    BY <1>1 DEF DeleteReminder, Inv1, TypeOK
<1> HIDE DEF count, firing
<1>4. new \in Rows /\ new.call = count /\ new.raced = firing /\ ~new.active /\ ~new.wanted
    BY <1>1, <1>2 DEF Rows
<1> HIDE DEF new
<1>5. calls' \in 0..MaxCalls
    BY ConstantsAssumption DEF DeleteReminder, Call, Inv1, TypeOK
<1>6. new.active = new.wanted
    BY <1>4 DEF Rows
<1>7. Sets(r, new)
    BY <1>3, <1>4, <1>5, <1>6 DEF DeleteReminder, Sets
<1>8. QED BY <1>4, <1>7

\* PostponeReminder is one: SetNextFireAt makes the row active at the new time.
LEMMA PostponeSets ==
    ASSUME Inv1, NEW r \in Reminder, NEW d \in 1..2, PostponeReminder(r, d)
    PROVE  \E new \in Rows : Sets(r, new)
<1> DEFINE t == now + d
           set == SetNextFireAt(r, t)
           count == row[r].call + 1
           firing == Firing(r)
           new == [set EXCEPT !.call = count, !.wanted = TRUE, !.at = t, !.raced = firing]
<1>1. row[r] \in Rows /\ t \in Nat
    BY DEF PostponeReminder, Inv1, TypeOK
<1>2. count \in Nat /\ firing \in BOOLEAN
    BY <1>1 DEF Rows, Firing
<1>3. row' = [row EXCEPT ![r] = [set EXCEPT !.call = @ + 1, !.wanted = TRUE,
                                            !.at = t, !.raced = Firing(r)]]
    BY DEF PostponeReminder
<1> HIDE DEF t
<1>4. set \in Rows /\ set.call = row[r].call /\ set.active /\ set.next = t
    BY <1>1 DEF Rows, SetNextFireAt
<1> HIDE DEF set
<1>5. row' = [row EXCEPT ![r] = new]
    BY <1>3, <1>4
<1>6. count = row[r].call + 1 /\ firing = Firing(r)
    OBVIOUS
<1> HIDE DEF count, firing
<1>7. /\ new \in Rows
      /\ new.call = count /\ new.raced = firing /\ new.wanted /\ new.at = t
      /\ new.active = set.active /\ new.next = set.next
    BY <1>1, <1>2, <1>4 DEF Rows
<1> HIDE DEF new
<1>8. calls' \in 0..MaxCalls
    BY ConstantsAssumption DEF PostponeReminder, Call, Inv1, TypeOK
<1>9. new.active = new.wanted /\ new.next = new.at
    BY <1>4, <1>7 DEF Rows
<1>10. Sets(r, new)
    BY <1>5, <1>6, <1>7, <1>8, <1>9 DEF PostponeReminder, Sets
<1>11. QED BY <1>7, <1>10

\* Every call of the server is of that kind.
LEMMA ServeSets ==
    ASSUME Inv1, NEW r \in Reminder, Serve(r)
    PROVE  \E new \in Rows : Sets(r, new)
BY CreateSets, DeleteSets, PostponeSets DEF Serve

\* The server keeps the types, and every reminder of a batch its row.
LEMMA ServeTypes ==
    ASSUME Inv1, NEW r \in Reminder, Serve(r)
    PROVE  Inv1'
<1>1. PICK new \in Rows : Sets(r, new)
    BY ServeSets
<1>2. row' \in [Reminder -> Rows \cup {NoRow}] /\ row'[r] # NoRow
    BY <1>1, RowIsARow DEF Sets, Inv1, TypeOK
<1>3. QED BY <1>1, <1>2 DEF Sets, Inv1, TypeOK

\* A fault counts up to its bound.
LEMMA FaultTypes ==
    ASSUME TypeOK, Fault
    PROVE  faults' \in 0..MaxFaults
BY ConstantsAssumption DEF TypeOK, Fault

\* Leaving a batch keeps the types.
LEMMA LeaveTypes ==
    ASSUME Inv1, NEW s \in Scheduler, NEW r \in DOMAIN batch[s], Leave(s, r)
    PROVE  /\ batch' \in [Scheduler -> Batches]
           /\ \A t \in Scheduler : /\ DOMAIN batch'[t] \subseteq DOMAIN batch[t]
                                   /\ \A q \in DOMAIN batch'[t] : batch'[t][q] = batch[t][q]
<1>1. batch[s] \in Batches /\ r \in Reminder
    BY EntriesOfABatch DEF Inv1
<1> DEFINE rest == Without(batch[s], r)
<1>2. /\ rest \in Batches
      /\ DOMAIN rest = DOMAIN batch[s] \ {r}
      /\ \A q \in DOMAIN rest : rest[q] = batch[s][q]
    BY <1>1, WithoutIsABatch
<1>3. batch' = [batch EXCEPT ![s] = rest]
    BY DEF Leave, Inv1
<1> HIDE DEF rest
<1>4. batch' \in [Scheduler -> Batches]
    BY <1>2, <1>3 DEF Inv1
<1>5. ASSUME NEW t \in Scheduler
      PROVE  /\ DOMAIN batch'[t] \subseteq DOMAIN batch[t]
             /\ \A q \in DOMAIN batch'[t] : batch'[t][q] = batch[t][q]
    <2>1. CASE t = s
        BY <1>2, <1>3, <2>1 DEF Inv1
    <2>2. CASE t # s
        BY <1>3, <2>2 DEF Inv1
    <2>3. QED BY <2>1, <2>2
<1>6. QED BY <1>4, <1>5

\* Going on to the next stage keeps the types.
LEMMA StageTypes ==
    ASSUME Inv1, NEW s \in Scheduler, NEW r \in DOMAIN batch[s],
           NEW stage \in {"publish", "task", "advance"},
           batch' = [batch EXCEPT ![s][r].stage = stage]
    PROVE  /\ batch' \in [Scheduler -> Batches]
           /\ \A t \in Scheduler : DOMAIN batch'[t] = DOMAIN batch[t]
           /\ batch'[s][r] = [batch[s][r] EXCEPT !.stage = stage]
           /\ \A t \in Scheduler : \A q \in DOMAIN batch[t] :
                 t # s \/ q # r => batch'[t][q] = batch[t][q]
<1>1. batch[s] \in Batches
    BY DEF Inv1
<1> DEFINE next == [batch[s] EXCEPT ![r].stage = stage]
<1>2. /\ next \in Batches
      /\ DOMAIN next = DOMAIN batch[s]
      /\ next[r] = [batch[s][r] EXCEPT !.stage = stage]
      /\ \A q \in DOMAIN batch[s] \ {r} : next[q] = batch[s][q]
    BY <1>1, StageIsABatch
<1>3. batch' = [batch EXCEPT ![s] = next]
    BY DEF Inv1
<1> HIDE DEF next
<1>4. /\ batch' \in [Scheduler -> Batches]
      /\ batch'[s] = next
      /\ \A t \in Scheduler \ {s} : batch'[t] = batch[t]
    BY <1>2, <1>3 DEF Inv1
<1>5. \A t \in Scheduler : DOMAIN batch'[t] = DOMAIN batch[t]
    BY <1>2, <1>4
<1>6. \A t \in Scheduler : \A q \in DOMAIN batch[t] :
         t # s \/ q # r => batch'[t][q] = batch[t][q]
    BY <1>2, <1>4
<1>7. QED BY <1>2, <1>4, <1>5, <1>6

\* The typing of the batches follows from their shape.
LEMMA BatchTypes ==
    ASSUME batch' \in [Scheduler -> Batches]
    PROVE  \A s \in Scheduler : /\ DOMAIN batch'[s] \subseteq Reminder
                                /\ \A r \in DOMAIN batch'[s] : batch'[s][r] \in Held
BY EntriesOfABatch

\* An event that is appended, and one that is marked, keep the type of the log.
LEMMA EventTypes ==
    ASSUME Inv1, NEW s \in Scheduler, NEW r \in DOMAIN batch[s]
    PROVE  /\ Event(s, r) \in Events
           /\ Append(log, Event(s, r)) \in Seq(Events)
<1>1. batch[s][r] \in Held /\ r \in Reminder
    BY EntriesOfABatch DEF Inv1
<1>2. Event(s, r) \in Events
    BY <1>1 DEF Event, Events, Held
<1>3. QED BY <1>2 DEF Inv1, TypeOK

\* A scheduler keeps the types.
LEMMA FireTypes ==
    ASSUME Inv1, NEW s \in Scheduler, NEW r \in Reminder, Fire(s, r)
    PROVE  Inv1'
<1>0. r \in DOMAIN batch[s]
    BY DEF Fire, Publish, AddTask, Advance, At
<1>1. row[r] \in Rows
    BY <1>0 DEF Inv1, TypeOK
<1>2. CASE Publish(s, r)
    <2>1. AfterPublish(r) \in {"publish", "task", "advance"}
        BY DEF AfterPublish
    <2>2. \/ batch' = [batch EXCEPT ![s][r].stage = AfterPublish(r)]
          \/ Leave(s, r)
          \/ batch' = batch
        BY <1>2 DEF Publish
    <2>3. /\ batch' \in [Scheduler -> Batches]
          /\ \A t \in Scheduler : DOMAIN batch'[t] \subseteq DOMAIN batch[t]
        BY <1>0, <2>1, <2>2, StageTypes, LeaveTypes DEF Inv1
    <2>4. log' \in Seq(Events)
        <3>1. log' = log \/ log' = Append(log, Event(s, r))
            BY <1>2 DEF Publish
        <3>2. Append(log, Event(s, r)) \in Seq(Events)
            BY <1>0, EventTypes
        <3>3. log \in Seq(Events)
            BY DEF Inv1, TypeOK
        <3>4. QED BY <3>1, <3>2, <3>3
    <2>5. faults' \in 0..MaxFaults
        BY <1>2, FaultTypes DEF Publish, Inv1, TypeOK
    <2>6. QED BY <1>2, <2>3, <2>4, <2>5, BatchTypes DEF Publish, Inv1, TypeOK
<1>3. CASE AddTask(s, r)
    <2>1. /\ batch' \in [Scheduler -> Batches]
          /\ \A t \in Scheduler : DOMAIN batch'[t] = DOMAIN batch[t]
        BY <1>0, <1>3, StageTypes DEF AddTask
    <2>2. tasks' \in [Reminder -> Nat]
        BY <1>3 DEF AddTask, Inv1, TypeOK
    <2>3. faults' \in 0..MaxFaults
        BY <1>3, FaultTypes DEF AddTask, Inv1, TypeOK
    <2>4. QED BY <1>3, <2>1, <2>2, <2>3, BatchTypes DEF AddTask, Inv1, TypeOK
<1>4. CASE Advance(s, r)
    <2>1. /\ batch' \in [Scheduler -> Batches]
          /\ \A t \in Scheduler : DOMAIN batch'[t] \subseteq DOMAIN batch[t]
        BY <1>0, <1>4, LeaveTypes DEF Advance
    <2> DEFINE new == UpdateNextFire(r, NextTime(row[r].every, now))
    <2>2. NextTime(row[r].every, now) \in Nat \cup {NoTime}
        BY <1>1, NextTimeIsLater DEF Rows, Inv1, TypeOK
    <2>3. new \in Rows
        BY <1>1, <2>2 DEF UpdateNextFire, Rows
    <2>4. /\ row' \in [Reminder -> Rows \cup {NoRow}]
          /\ \A q \in Reminder : row[q] # NoRow => row'[q] # NoRow
        <3>1. new # NoRow
            BY <2>3, ConstantsAssumption DEF Rows
        <3>2. row' = [row EXCEPT ![r] = new] \/ row' = row
            BY <1>4 DEF Advance
        <3>3. row \in [Reminder -> Rows \cup {NoRow}]
            BY DEF Inv1, TypeOK
        <3> HIDE DEF new
        <3>4. QED BY <2>3, <3>1, <3>2, <3>3
    <2>5. faults' \in 0..MaxFaults
        BY <1>4, FaultTypes DEF Advance, Inv1, TypeOK
    <2>6. QED BY <1>4, <2>1, <2>4, <2>5, BatchTypes, EntriesOfABatch DEF Advance, Inv1, TypeOK
<1>5. QED BY <1>2, <1>3, <1>4 DEF Fire

\* The consumer keeps the types; the event in hand is one of the log.
LEMMA ConsumeTypes ==
    ASSUME Inv1, Consume
    PROVE  Inv1'
<1>1. cons.pos \in Nat /\ cons.mark \in Nat /\ cons.tries \in 0..2 /\ Len(log) \in Nat
    BY DEF Inv1, TypeOK, MaxAttempts
<1>2. ASSUME InHand
      PROVE  cons.pos + 1 \in DOMAIN log /\ log[cons.pos + 1] \in Events
    BY <1>1, <1>2 DEF InHand, Inv1, TypeOK
<1>3. Done \in [up : BOOLEAN, pos : Nat, tries : 0..MaxAttempts - 1, mark : Nat]
    <2>1. cons.pos + 1 \in Nat /\ 0 \in 0..MaxAttempts - 1
        BY <1>1 DEF MaxAttempts
    <2>2. QED BY <2>1 DEF Done, Inv1, TypeOK
<1>4. CASE Join
    BY <1>1, <1>4 DEF Join, Inv1, TypeOK, MaxAttempts
<1>5. CASE Deliver
    <2>1. log' \in Seq(Events)
        <3> DEFINE ev == [log[cons.pos + 1] EXCEPT !.shown = TRUE]
        <3>1. InHand
            BY <1>5 DEF Deliver
        <3>2. ev \in Events
            BY <1>2, <3>1 DEF Events
        <3>3. log' = [log EXCEPT ![cons.pos + 1] = ev]
            BY <1>5 DEF Deliver
        <3> HIDE DEF ev
        <3>4. QED BY <1>2, <3>1, <3>2, <3>3, ExceptSeq DEF Inv1, TypeOK
    <2>2. QED BY <1>3, <1>5, <2>1 DEF Deliver, Inv1, TypeOK
<1>6. CASE DeliverFails
    <2>1. PICK sent \in BOOLEAN :
             LET last == cons.tries + 1 = MaxAttempts
                 ev == log[cons.pos + 1]
             IN  /\ log' = [log EXCEPT ![cons.pos + 1] =
                              [ev EXCEPT !.shown = @ \/ sent, !.dropped = @ \/ last]]
                 /\ cons' = IF last THEN Done ELSE [cons EXCEPT !.tries = @ + 1]
        BY <1>6 DEF DeliverFails
    <2>2. log' \in Seq(Events)
        <3> DEFINE last == cons.tries + 1 = MaxAttempts
                   ev == [log[cons.pos + 1] EXCEPT !.shown = @ \/ sent, !.dropped = @ \/ last]
        <3>1. InHand
            BY <1>6 DEF DeliverFails
        <3>2. log[cons.pos + 1] \in Events /\ last \in BOOLEAN
            BY <1>2, <3>1
        <3>3. log' = [log EXCEPT ![cons.pos + 1] = ev]
            BY <2>1
        <3> HIDE DEF last
        <3>4. ev \in Events
            BY <3>2 DEF Events
        <3> HIDE DEF ev
        <3>5. QED BY <1>2, <3>1, <3>3, <3>4, ExceptSeq DEF Inv1, TypeOK
    <2>3. cons' \in [up : BOOLEAN, pos : Nat, tries : 0..MaxAttempts - 1, mark : Nat]
        <3>1. cons' = Done \/ (cons.tries + 1 # MaxAttempts
                               /\ cons' = [cons EXCEPT !.tries = cons.tries + 1])
            BY <2>1
        <3>2. cons.tries + 1 # MaxAttempts => cons.tries + 1 \in 0..MaxAttempts - 1
            BY <1>1 DEF MaxAttempts
        <3>3. QED BY <1>3, <3>1, <3>2 DEF Inv1, TypeOK
    <2>4. faults' \in 0..MaxFaults
        BY <1>6, FaultTypes DEF DeliverFails, Inv1, TypeOK
    <2>5. QED BY <1>6, <2>2, <2>3, <2>4 DEF DeliverFails, Inv1, TypeOK
<1>7. CASE Commit
    BY <1>1, <1>7 DEF Commit, Inv1, TypeOK
<1>8. CASE Leaves
    <2>1. cons' \in [up : BOOLEAN, pos : Nat, tries : 0..MaxAttempts - 1, mark : Nat]
        BY <1>8 DEF Leaves, Down, MaxAttempts
    <2>2. faults' \in 0..MaxFaults /\ committed' \in Nat \cup {NoOffset}
        BY <1>1, <1>8, FaultTypes DEF Leaves, Inv1, TypeOK
    <2>3. QED BY <1>8, <2>1, <2>2 DEF Leaves, Inv1, TypeOK
<1>9. QED BY <1>4, <1>5, <1>6, <1>7, <1>8 DEF Consume

\* The invariant holds in the initial states.
LEMMA Inv1Holds_Init == ASSUME Init PROVE Inv1
<1>1. << >> \in Batches /\ DOMAIN << >> = {}
    BY DEF Batches
<1>2. batch \in [Scheduler -> Batches] /\ \A s \in Scheduler : DOMAIN batch[s] = {}
    BY <1>1 DEF Init
<1>3. QED BY <1>2, ConstantsAssumption DEF Init, Inv1, TypeOK, Down, MaxAttempts

\* Every step keeps it.
LEMMA Inv1Holds_Next ==
    ASSUME Inv1, [Next]_vars
    PROVE  Inv1'
<1>1. CASE Tick
    BY <1>1 DEF Tick, Inv1, TypeOK
<1>2. CASE \E r \in Reminder : Serve(r)
    BY <1>2, ServeTypes
<1>3. ASSUME NEW s \in Scheduler, ReadDue(s) PROVE Inv1'
    <2> DEFINE due == {q \in Reminder : Due(q)}
               new == [r \in due |-> [stage |-> "publish", at |-> row[r].next,
                                      call |-> row[r].call]]
    <2>1. \A r \in due : row[r] \in Rows /\ row[r] # NoRow
        BY DEF Due, Inv1, TypeOK
    <2>2. new \in [due -> Held]
        BY <2>1 DEF Rows, Held
    <2>3. new \in Batches
        BY <2>2 DEF Batches
    <2>4. batch' = [batch EXCEPT ![s] = new]
        BY <1>3 DEF ReadDue
    <2>5. batch' \in [Scheduler -> Batches]
        BY <2>3, <2>4 DEF Inv1
    <2>6. \A t \in Scheduler : \A r \in DOMAIN batch'[t] : row[r] # NoRow
        BY <2>1, <2>4 DEF Inv1
    <2>7. QED BY <1>3, <2>5, <2>6, BatchTypes DEF ReadDue, Inv1, TypeOK
<1>4. ASSUME NEW s \in Scheduler, Restart(s) PROVE Inv1'
    <2>1. << >> \in Batches /\ DOMAIN << >> = {}
        BY DEF Batches
    <2>2. batch' \in [Scheduler -> Batches]
        BY <1>4, <2>1 DEF Restart, Inv1
    <2>3. \A t \in Scheduler : \A r \in DOMAIN batch'[t] : row[r] # NoRow
        BY <1>4, <2>1 DEF Restart, Inv1
    <2>4. faults' \in 0..MaxFaults
        BY <1>4, FaultTypes DEF Restart, Inv1
    <2>5. QED BY <1>4, <2>2, <2>3, <2>4, BatchTypes DEF Restart, Inv1, TypeOK
<1>5. CASE \E s \in Scheduler, r \in Reminder : Fire(s, r)
    BY <1>5, FireTypes
<1>6. CASE Consume
    BY <1>6, ConsumeTypes
<1>7. CASE UNCHANGED vars
    BY <1>7 DEF vars, Inv1, TypeOK
<1>8. QED BY <1>1, <1>2, <1>3, <1>4, <1>5, <1>6, <1>7 DEF Next

\* Every variable keeps its type, with any reminders, schedulers and schedules.
THEOREM ReminderTypes == Spec => []TypeOK
<1>1. Init => Inv1
    BY Inv1Holds_Init
<1>2. Inv1 /\ [Next]_vars => Inv1'
    BY Inv1Holds_Next
<1>3. Inv1 => TypeOK
    BY DEF Inv1
<1>4. QED BY <1>1, <1>2, <1>3, PTL DEF Spec

-----------------------------------------------------------------------------
(***************************************************************************)
(* What the user asked for.  A batch and an event know which call they were   *)
(* read with: not a later one than the row's, and one that still wants it.    *)
(* A call that met no scheduler on the row leaves no older entry behind.      *)
(***************************************************************************)

\* What a batch holds of a row, before and after its event is published.
Counted ==
    \A s \in Scheduler : \A r \in DOMAIN batch[s] :
        /\ batch[s][r].call <= row[r].call
        /\ batch[s][r].call = row[r].call => row[r].wanted
        /\ row[r].raced \/ batch[s][r].call = row[r].call
        /\ batch[s][r].stage # "publish" => Announced(r, batch[s][r].call) # {}

\* An event belongs to a row, and to a call that wanted it.
Logged ==
    \A i \in DOMAIN log :
        /\ row[log[i].id] # NoRow
        /\ log[i].call <= row[log[i].id].call
        /\ log[i].call = row[log[i].id].call => row[log[i].id].wanted

\* Nothing but a call of the user makes a row active.
ActiveIsWanted == \A r \in Reminder : row[r] # NoRow /\ row[r].active => row[r].wanted

Inv2 == Inv1 /\ Counted /\ Logged /\ ActiveIsWanted /\ AskedIsKept

\* An event keeps its identity.
Same(i) == i \in DOMAIN log' /\ log'[i].id = log[i].id /\ log'[i].call = log[i].call

\* What the log holds.
LEMMA EventsOfLog ==
    ASSUME Inv1
    PROVE  \A i \in DOMAIN log : /\ i \in 1..Len(log) /\ log[i] \in Events
                                 /\ log[i].id \in Reminder /\ log[i].call \in Nat
<1>1. log \in Seq(Events)
    BY DEF Inv1, TypeOK
<1>2. \A i \in DOMAIN log : i \in 1..Len(log) /\ log[i] \in Events
    BY <1>1
<1>3. QED BY <1>2 DEF Events

\* The server sets a row under a count that nobody has read yet.
LEMMA ServeKeeps ==
    ASSUME Inv2, NEW r \in Reminder, Serve(r)
    PROVE  Inv2'
<1>1. Inv1'
    BY ServeTypes DEF Inv2
<1>2. PICK new \in Rows : Sets(r, new)
    BY ServeSets DEF Inv2
<1>3. /\ UNCHANGED <<batch, log>>
      /\ row'[r] = new
      /\ \A q \in Reminder \ {r} : row'[q] = row[q]
    BY <1>2 DEF Sets, Inv2, Inv1, TypeOK
<1>4. row'[r] # NoRow /\ new.active = new.wanted /\ (new.wanted => new.next = new.at)
    BY <1>2, <1>3, RowIsARow DEF Sets
<1>5. \A c : row[r] # NoRow /\ c \in Nat /\ c <= row[r].call => c < new.call
    <2> SUFFICES ASSUME row[r] # NoRow PROVE \A c : c \in Nat /\ c <= row[r].call => c < new.call
        OBVIOUS
    <2>1. row[r].call \in Nat /\ new.call = row[r].call + 1
        BY <1>2 DEF Sets, Inv2, Inv1, TypeOK, Rows
    <2>2. QED BY <2>1
<1>6. Counted'
    <2> SUFFICES ASSUME NEW s \in Scheduler, NEW q \in DOMAIN batch[s]
                 PROVE  /\ batch[s][q].call <= row'[q].call
                        /\ batch[s][q].call = row'[q].call => row'[q].wanted
                        /\ row'[q].raced \/ batch[s][q].call = row'[q].call
                        /\ batch[s][q].stage # "publish" => Announced(q, batch[s][q].call) # {}
        BY <1>3 DEF Counted, Announced
    <2>1. q \in Reminder /\ batch[s][q].call \in Nat /\ row[q] # NoRow
        BY DEF Inv2, Inv1, TypeOK, Held
    <2>2. CASE q = r
        <3>1. batch[s][q].call < new.call /\ new.call \in Nat
            BY <1>5, <2>1, <2>2 DEF Inv2, Counted, Rows
        <3>2. Firing(r) /\ row'[q].raced
            BY <1>2, <1>3, <2>1, <2>2 DEF Sets, Firing
        <3>3. QED BY <1>3, <2>1, <2>2, <3>1, <3>2 DEF Inv2, Counted
    <2>3. CASE q # r
        BY <1>3, <2>1, <2>3 DEF Inv2, Counted
    <2>4. QED BY <2>2, <2>3
<1>7. Logged'
    <2> SUFFICES ASSUME NEW i \in DOMAIN log
                 PROVE  /\ row'[log[i].id] # NoRow
                        /\ log[i].call <= row'[log[i].id].call
                        /\ log[i].call = row'[log[i].id].call => row'[log[i].id].wanted
        BY <1>3 DEF Logged
    <2>1. log[i].id \in Reminder /\ log[i].call \in Nat
        BY EventsOfLog DEF Inv2
    <2>2. CASE log[i].id = r
        <3>1. log[i].call < new.call /\ new.call \in Nat
            BY <1>5, <2>1, <2>2 DEF Inv2, Logged, Rows
        <3>2. QED BY <1>3, <1>4, <2>1, <2>2, <3>1
    <2>3. CASE log[i].id # r
        BY <1>3, <2>1, <2>3 DEF Inv2, Logged
    <2>4. QED BY <2>2, <2>3
<1>8. ActiveIsWanted'
    BY <1>3, <1>4 DEF ActiveIsWanted, Inv2
<1>9. AskedIsKept'
    <2> SUFFICES ASSUME NEW q \in Reminder, row'[q] # NoRow, row'[q].wanted, ~row'[q].raced
                 PROVE  \/ Announced(q, row'[q].call) # {}
                        \/ row'[q].active /\ row'[q].next = row'[q].at
        BY <1>3 DEF AskedIsKept, Announced
    <2>1. CASE q = r
        BY <1>3, <1>4, <2>1
    <2>2. CASE q # r
        BY <1>3, <2>2 DEF Inv2, AskedIsKept
    <2>3. QED BY <2>1, <2>2
<1>10. QED BY <1>1, <1>6, <1>7, <1>8, <1>9 DEF Inv2

\* Reading the rows that are due: what is read is what the row holds.
LEMMA ReadKeeps ==
    ASSUME Inv2, Inv1', NEW s \in Scheduler, ReadDue(s)
    PROVE  Inv2'
<1>1. UNCHANGED <<row, log>>
    BY DEF ReadDue
<1>2. ASSUME NEW t \in Scheduler, NEW r \in DOMAIN batch'[t]
      PROVE  /\ batch'[t][r].call <= row[r].call
             /\ batch'[t][r].call = row[r].call => row[r].wanted
             /\ row[r].raced \/ batch'[t][r].call = row[r].call
             /\ batch'[t][r].stage # "publish" => Announced(r, batch'[t][r].call) # {}
    <2>1. CASE t = s
        <3>1. r \in Reminder /\ Due(r) /\ batch'[t][r] = [stage |-> "publish", at |-> row[r].next,
                                                           call |-> row[r].call]
            BY <2>1 DEF ReadDue, Inv2, Inv1
        <3>2. row[r] \in Rows /\ row[r].wanted
            BY <3>1 DEF Due, Inv2, Inv1, TypeOK, ActiveIsWanted
        <3>3. row[r].call \in Nat
            BY <3>2 DEF Rows
        <3>4. QED BY <3>1, <3>2, <3>3
    <2>2. CASE t # s
        <3>1. batch'[t] = batch[t]
            BY <2>2 DEF ReadDue, Inv2, Inv1
        <3>2. QED BY <3>1 DEF Inv2, Counted
    <2>3. QED BY <2>1, <2>2
<1>3. Counted'
    BY <1>1, <1>2 DEF Counted, Announced
<1>4. QED BY <1>1, <1>3 DEF Inv2, Logged, ActiveIsWanted, AskedIsKept, Announced

\* A row of which only the time and the activity may have changed.
Unset(r) ==
    /\ row'[r].call = row[r].call /\ row'[r].wanted = row[r].wanted
    /\ row'[r].raced = row[r].raced /\ row'[r].at = row[r].at
    /\ row'[r].active => row[r].active

\* The entries of the batches keep their relation to the rows and the log, when
\* no row is set, no announcement is lost and only what was announced goes on.
LEMMA CountsKeep ==
    ASSUME Inv2, Inv1', \A i \in DOMAIN log : Same(i),
           \A r \in Reminder : row[r] # NoRow => Unset(r),
           \A s \in Scheduler : \A r \in DOMAIN batch'[s] :
              /\ r \in DOMAIN batch[s]
              /\ batch'[s][r].call = batch[s][r].call
              /\ batch'[s][r].stage # "publish" =>
                    batch[s][r].stage # "publish"
                      \/ \E i \in DOMAIN log' : log'[i].id = r /\ log'[i].call = batch[s][r].call
    PROVE  Counted'
<1> SUFFICES ASSUME NEW s \in Scheduler, NEW r \in DOMAIN batch'[s]
             PROVE  /\ batch'[s][r].call <= row'[r].call
                    /\ batch'[s][r].call = row'[r].call => row'[r].wanted
                    /\ row'[r].raced \/ batch'[s][r].call = row'[r].call
                    /\ batch'[s][r].stage # "publish" =>
                          \E i \in DOMAIN log' : log'[i].id = r /\ log'[i].call = batch'[s][r].call
    BY DEF Counted, Announced
<1>1. /\ r \in Reminder /\ r \in DOMAIN batch[s] /\ row[r] # NoRow
      /\ batch'[s][r].call = batch[s][r].call
      /\ Unset(r)
    BY DEF Inv2, Inv1, TypeOK
<1>2. /\ batch[s][r].call <= row[r].call
      /\ batch[s][r].call = row[r].call => row[r].wanted
      /\ row[r].raced \/ batch[s][r].call = row[r].call
      /\ batch[s][r].stage # "publish" =>
            \E i \in DOMAIN log : log[i].id = r /\ log[i].call = batch[s][r].call
    BY <1>1 DEF Inv2, Counted, Announced
<1>3. batch'[s][r].stage # "publish" =>
         \E i \in DOMAIN log' : log'[i].id = r /\ log'[i].call = batch[s][r].call
    BY <1>1, <1>2 DEF Same
<1>4. QED BY <1>1, <1>2, <1>3 DEF Unset

\* The events keep theirs, when those that are new come from a batch.
LEMMA EventsKeep ==
    ASSUME Inv2, \A r \in Reminder : row[r] # NoRow => Unset(r) /\ row'[r] # NoRow,
           \A i \in DOMAIN log' :
              \/ i \in DOMAIN log /\ log'[i].id = log[i].id /\ log'[i].call = log[i].call
              \/ \E s \in Scheduler : /\ log'[i].id \in DOMAIN batch[s]
                                      /\ log'[i].call = batch[s][log'[i].id].call
    PROVE  Logged'
<1> SUFFICES ASSUME NEW i \in DOMAIN log'
             PROVE  /\ row'[log'[i].id] # NoRow
                    /\ log'[i].call <= row'[log'[i].id].call
                    /\ log'[i].call = row'[log'[i].id].call => row'[log'[i].id].wanted
    BY DEF Logged
<1>1. CASE i \in DOMAIN log /\ log'[i].id = log[i].id /\ log'[i].call = log[i].call
    <2>1. log[i].id \in Reminder
        BY <1>1, EventsOfLog DEF Inv2
    <2>2. QED BY <1>1, <2>1 DEF Inv2, Logged, Unset
<1>2. CASE \E s \in Scheduler : /\ log'[i].id \in DOMAIN batch[s]
                                /\ log'[i].call = batch[s][log'[i].id].call
    <2>1. PICK s \in Scheduler : /\ log'[i].id \in DOMAIN batch[s]
                                 /\ log'[i].call = batch[s][log'[i].id].call
        BY <1>2
    <2>2. log'[i].id \in Reminder /\ row[log'[i].id] # NoRow
        BY <2>1 DEF Inv2, Inv1, TypeOK
    <2>3. QED BY <2>1, <2>2 DEF Inv2, Counted, Unset
<1>3. QED BY <1>1, <1>2

\* What was asked for is kept, when no row is changed or only one that the
\* scheduler has announced.
LEMMA AskedKeeps ==
    ASSUME Inv2, \A i \in DOMAIN log : Same(i),
           \A r \in Reminder : row[r] = NoRow => row'[r] = NoRow,
           \A r \in Reminder : row[r] # NoRow =>
              \/ row'[r] = row[r]
              \/ /\ Unset(r)
                 /\ \E s \in Scheduler : r \in DOMAIN batch[s] /\ batch[s][r].stage = "advance"
    PROVE  AskedIsKept' /\ ActiveIsWanted'
<1>1. AskedIsKept'
    <2> SUFFICES ASSUME NEW r \in Reminder, row'[r] # NoRow, row'[r].wanted, ~row'[r].raced
                 PROVE  \/ \E i \in DOMAIN log' : log'[i].id = r /\ log'[i].call = row'[r].call
                        \/ row'[r].active /\ row'[r].next = row'[r].at
        BY DEF AskedIsKept, Announced
    <2>1. row[r] # NoRow
        OBVIOUS
    <2>2. CASE row'[r] = row[r]
        <3>1. \/ \E i \in DOMAIN log : log[i].id = r /\ log[i].call = row[r].call
              \/ row[r].active /\ row[r].next = row[r].at
            BY <2>1, <2>2 DEF Inv2, AskedIsKept, Announced
        <3>2. QED BY <2>2, <3>1 DEF Same
    <2>3. ASSUME Unset(r), NEW s \in Scheduler, r \in DOMAIN batch[s], batch[s][r].stage = "advance"
          PROVE  \E i \in DOMAIN log' : log'[i].id = r /\ log'[i].call = row'[r].call
        <3>1. \E i \in DOMAIN log : log[i].id = r /\ log[i].call = row[r].call
            BY <2>3 DEF Inv2, Counted, Announced, Unset
        <3>2. QED BY <2>3, <3>1 DEF Same, Unset
    <2>4. QED BY <2>1, <2>2, <2>3
<1>2. ActiveIsWanted'
    BY DEF ActiveIsWanted, Inv2, Unset
<1>3. QED BY <1>1, <1>2

\* A scheduler publishes what it has read, and moves a row on only after that.
LEMMA FireKeeps ==
    ASSUME Inv2, Inv1', NEW s \in Scheduler, NEW r \in Reminder, Fire(s, r)
    PROVE  Inv2'
<1> USE DEF Inv2
<1>0. r \in DOMAIN batch[s] /\ row[r] # NoRow /\ row[r] \in Rows
    BY DEF Fire, Publish, AddTask, Advance, At, Inv1, TypeOK
<1>1. CASE Publish(s, r)
    <2>1. row' = row /\ log \in Seq(Events) /\ Event(s, r) \in Events
        BY <1>0, <1>1, EventTypes DEF Publish, Inv1, TypeOK
    <2>2. /\ \A i \in DOMAIN log : Same(i)
          /\ \A i \in DOMAIN log' :
               \/ i \in DOMAIN log /\ log'[i].id = log[i].id /\ log'[i].call = log[i].call
               \/ log'[i].id = r /\ log'[i].call = batch[s][r].call
          /\ log' # log => \E i \in DOMAIN log' : log'[i].id = r /\ log'[i].call = batch[s][r].call
        <3>1. CASE log' = log
            BY <3>1 DEF Same
        <3>2. CASE log' = Append(log, Event(s, r))
            <4>1. /\ DOMAIN log' = 1..Len(log) + 1
                  /\ \A i \in DOMAIN log : log'[i] = log[i]
                  /\ log'[Len(log) + 1] = Event(s, r)
                BY <2>1, <3>2
            <4>2. /\ DOMAIN log = 1..Len(log)
                  /\ Event(s, r).id = r /\ Event(s, r).call = batch[s][r].call
                BY <2>1 DEF Event
            <4>3. Len(log) \in Nat
                BY <2>1
            <4>4. QED BY <4>1, <4>2, <4>3 DEF Same
        <3>3. QED BY <1>1, <3>1, <3>2 DEF Publish
    <2>3. \/ Leave(s, r) \/ batch' = batch
          \/ /\ batch' = [batch EXCEPT ![s][r].stage = AfterPublish(r)]
             /\ log' = Append(log, Event(s, r))
        BY <1>1 DEF Publish
    <2>4. ASSUME NEW t \in Scheduler, NEW q \in DOMAIN batch'[t]
          PROVE  /\ q \in DOMAIN batch[t]
                 /\ batch'[t][q].call = batch[t][q].call
                 /\ batch'[t][q].stage # "publish" =>
                       batch[t][q].stage # "publish"
                         \/ \E i \in DOMAIN log' : log'[i].id = q /\ log'[i].call = batch[t][q].call
        <3>1. CASE Leave(s, r)
            BY <1>0, <3>1, LeaveTypes
        <3>2. CASE batch' = batch
            BY <3>2
        <3>3. CASE /\ batch' = [batch EXCEPT ![s][r].stage = AfterPublish(r)]
                   /\ log' = Append(log, Event(s, r))
            <4>1. AfterPublish(r) \in {"publish", "task", "advance"}
                BY DEF AfterPublish
            <4>2. /\ \A u \in Scheduler : DOMAIN batch'[u] = DOMAIN batch[u]
                  /\ batch'[s][r] = [batch[s][r] EXCEPT !.stage = AfterPublish(r)]
                  /\ \A u \in Scheduler : \A p \in DOMAIN batch[u] :
                        u # s \/ p # r => batch'[u][p] = batch[u][p]
                BY <1>0, <3>3, <4>1, StageTypes
            <4>3. batch[s][r] \in Held
                BY <1>0 DEF Inv1, TypeOK
            <4>4. batch'[s][r].call = batch[s][r].call
                BY <4>2, <4>3 DEF Held
            <4>5. log' # log
                <5>1. Len(Append(log, Event(s, r))) = Len(log) + 1 /\ Len(log) \in Nat
                    BY <2>1
                <5>2. QED BY <3>3, <5>1
            <4>6. QED BY <2>2, <4>2, <4>4, <4>5
        <3>4. QED BY <2>3, <3>1, <3>2, <3>3
    <2>5. \A q \in Reminder : row[q] # NoRow => Unset(q)
        BY <2>1 DEF Unset
    <2>6. Counted'
        BY <2>2, <2>4, <2>5, CountsKeep
    <2>7. Logged'
        BY <1>0, <2>1, <2>2, <2>5, EventsKeep
    <2>8. AskedIsKept' /\ ActiveIsWanted'
        BY <2>1, <2>2, AskedKeeps
    <2>9. QED BY <2>6, <2>7, <2>8
<1>2. CASE AddTask(s, r)
    <2>1. row' = row /\ log' = log
        BY <1>2 DEF AddTask
    <2>2. /\ \A i \in DOMAIN log : Same(i)
          /\ \A q \in Reminder : row[q] # NoRow => Unset(q) /\ row'[q] # NoRow
        BY <2>1 DEF Same, Unset
    <2>3. /\ \A u \in Scheduler : DOMAIN batch'[u] = DOMAIN batch[u]
          /\ batch'[s][r] = [batch[s][r] EXCEPT !.stage = "advance"]
          /\ \A u \in Scheduler : \A p \in DOMAIN batch[u] :
                u # s \/ p # r => batch'[u][p] = batch[u][p]
        BY <1>0, <1>2, StageTypes DEF AddTask
    <2>4. batch[s][r] \in Held /\ batch[s][r].stage = "task"
        BY <1>0, <1>2 DEF AddTask, At, Inv1, TypeOK
    <2>5. ASSUME NEW t \in Scheduler, NEW q \in DOMAIN batch'[t]
          PROVE  /\ q \in DOMAIN batch[t]
                 /\ batch'[t][q].call = batch[t][q].call
                 /\ batch'[t][q].stage # "publish" => batch[t][q].stage # "publish"
        <3>1. CASE t = s /\ q = r
            BY <2>3, <2>4, <3>1 DEF Held
        <3>2. CASE t # s \/ q # r
            BY <2>3, <3>2
        <3>3. QED BY <3>1, <3>2
    <2>6. Counted'
        BY <2>2, <2>5, CountsKeep
    <2>7. Logged'
        BY <2>1, <2>2, EventsKeep
    <2>8. AskedIsKept' /\ ActiveIsWanted'
        BY <2>1, <2>2, AskedKeeps
    <2>9. QED BY <2>6, <2>7, <2>8
<1>3. CASE Advance(s, r)
    <2>1. log' = log /\ Leave(s, r) /\ batch[s][r].stage = "advance"
        BY <1>3 DEF Advance, At
    <2>2. \/ row' = row
          \/ /\ \A q \in Reminder \ {r} : row'[q] = row[q]
             /\ Unset(r) /\ row'[r] # NoRow
        <3> DEFINE new == UpdateNextFire(r, NextTime(row[r].every, now))
        <3>1. NextTime(row[r].every, now) \in Nat \cup {NoTime}
            BY <1>0, NextTimeIsLater DEF Rows, Inv1, TypeOK
        <3>2. new \in Rows
            BY <1>0, <3>1 DEF UpdateNextFire, Rows
        <3>3. /\ new.call = row[r].call /\ new.wanted = row[r].wanted
              /\ new.raced = row[r].raced /\ new.at = row[r].at
              /\ new.active => row[r].active
            BY <1>0, <3>1 DEF UpdateNextFire, Rows
        <3>4. row' = row \/ row' = [row EXCEPT ![r] = new]
            BY <1>3 DEF Advance
        <3> HIDE DEF new
        <3>5. QED BY <3>2, <3>3, <3>4, RowIsARow DEF Unset, Inv1, TypeOK
    <2>3. /\ \A i \in DOMAIN log : Same(i)
          /\ \A q \in Reminder : row[q] # NoRow => Unset(q) /\ row'[q] # NoRow
          /\ \A q \in Reminder : row[q] = NoRow => row'[q] = NoRow
        BY <1>0, <2>1, <2>2 DEF Same, Unset
    <2>4. \A q \in Reminder : row[q] # NoRow => row'[q] = row[q] \/ (q = r /\ Unset(q))
        BY <2>2
    <2>5. Counted'
        BY <1>0, <2>1, <2>3, LeaveTypes, CountsKeep
    <2>6. Logged'
        BY <2>1, <2>3, EventsKeep
    <2>7. AskedIsKept' /\ ActiveIsWanted'
        BY <1>0, <2>1, <2>3, <2>4, AskedKeeps
    <2>8. QED BY <2>5, <2>6, <2>7
<1>4. QED BY <1>1, <1>2, <1>3 DEF Fire

\* The consumer marks events and changes nothing else of them.
LEMMA ConsumeMarks ==
    ASSUME Inv1, Consume
    PROVE  /\ UNCHANGED <<row, batch, tasks, now>>
           /\ faults' = faults \/ faults' = faults + 1
           /\ DOMAIN log' = DOMAIN log
           /\ \A i \in DOMAIN log : /\ log'[i].id = log[i].id /\ log'[i].call = log[i].call
                                    /\ log'[i].at = log[i].at
           /\ \A i \in DOMAIN log : Handled(i) => Handled(i)'
<1>1. CASE log' = log
    BY <1>1 DEF Consume, Join, Deliver, DeliverFails, Commit, Leaves, Handled, Fault
<1>2. ASSUME NEW ev, InHand, log' = [log EXCEPT ![cons.pos + 1] = ev],
             ev.id = log[cons.pos + 1].id, ev.call = log[cons.pos + 1].call,
             ev.at = log[cons.pos + 1].at,
             Handled(cons.pos + 1) => ev.shown \/ ev.dropped
      PROVE  /\ DOMAIN log' = DOMAIN log
             /\ \A i \in DOMAIN log : /\ log'[i].id = log[i].id /\ log'[i].call = log[i].call
                                      /\ log'[i].at = log[i].at
             /\ \A i \in DOMAIN log : Handled(i) => Handled(i)'
    BY <1>2 DEF Handled
<1>3. ASSUME InHand PROVE log[cons.pos + 1] \in Events
    <2>1. cons.pos + 1 \in 1..Len(log)
        BY <1>3 DEF InHand, Inv1, TypeOK
    <2>2. QED BY <2>1 DEF Inv1, TypeOK
<1>4. CASE Deliver
    <2> DEFINE ev == [log[cons.pos + 1] EXCEPT !.shown = TRUE]
    <2>1. InHand /\ log' = [log EXCEPT ![cons.pos + 1] = ev]
        BY <1>4 DEF Deliver
    <2>2. ev.id = log[cons.pos + 1].id /\ ev.call = log[cons.pos + 1].call
          /\ ev.at = log[cons.pos + 1].at /\ ev.shown
        BY <1>3, <2>1 DEF Events
    <2> HIDE DEF ev
    <2>3. QED BY <1>2, <1>4, <2>1, <2>2 DEF Deliver
<1>5. CASE DeliverFails
    <2>1. PICK sent \in BOOLEAN :
             log' = [log EXCEPT ![cons.pos + 1] =
                       [log[cons.pos + 1] EXCEPT !.shown = @ \/ sent,
                                                 !.dropped = @ \/ cons.tries + 1 = MaxAttempts]]
        BY <1>5 DEF DeliverFails
    <2>2. InHand
        BY <1>5 DEF DeliverFails
    <2> DEFINE last == cons.tries + 1 = MaxAttempts
               ev == [log[cons.pos + 1] EXCEPT !.shown = @ \/ sent, !.dropped = @ \/ last]
    <2>3. log' = [log EXCEPT ![cons.pos + 1] = ev] /\ last \in BOOLEAN
        BY <2>1
    <2> HIDE DEF last
    <2>4. ev.id = log[cons.pos + 1].id /\ ev.call = log[cons.pos + 1].call
          /\ ev.at = log[cons.pos + 1].at
          /\ ev.dropped = (log[cons.pos + 1].dropped \/ last)
          /\ ev.shown = (log[cons.pos + 1].shown \/ sent)
        BY <1>3, <2>2 DEF Events
    <2> HIDE DEF ev
    <2>5. QED BY <1>2, <1>5, <2>2, <2>3, <2>4 DEF DeliverFails, Handled, Fault
<1>6. QED BY <1>1, <1>4, <1>5 DEF Consume, Join, Commit, Leaves

\* The consumer keeps all that is known of rows, batches and events.
LEMMA ConsumeKeeps ==
    ASSUME Inv2, Inv1', Consume
    PROVE  Inv2'
<1> USE DEF Inv2
<1>1. /\ UNCHANGED <<row, batch>>
      /\ DOMAIN log' = DOMAIN log
      /\ \A i \in DOMAIN log : log'[i].id = log[i].id /\ log'[i].call = log[i].call
    BY ConsumeMarks
<1>2. /\ \A i \in DOMAIN log : Same(i)
      /\ \A r \in Reminder : row[r] # NoRow => Unset(r) /\ row'[r] # NoRow
    BY <1>1 DEF Same, Unset
<1>3. Counted'
    BY <1>1, <1>2, CountsKeep
<1>4. Logged'
    BY <1>1, <1>2, EventsKeep
<1>5. AskedIsKept' /\ ActiveIsWanted'
    BY <1>1, <1>2, AskedKeeps
<1>6. QED BY <1>3, <1>4, <1>5

\* It holds in the initial states.
LEMMA Inv2Holds_Init == ASSUME Init PROVE Inv2
<1>1. Inv1
    BY Inv1Holds_Init
<1>2. (\A s \in Scheduler : DOMAIN batch[s] = {}) /\ DOMAIN log = {}
      /\ \A r \in Reminder : row[r] = NoRow
    BY DEF Init
<1>3. QED BY <1>1, <1>2 DEF Inv2, Counted, Logged, ActiveIsWanted, AskedIsKept

\* Every step keeps it.
LEMMA Inv2Holds_Next ==
    ASSUME Inv2, [Next]_vars
    PROVE  Inv2'
<1>0. Inv1'
    BY Inv1Holds_Next DEF Inv2
<1>1. CASE UNCHANGED <<row, batch, log>>
    BY <1>0, <1>1 DEF Inv2, Counted, Logged, ActiveIsWanted, AskedIsKept, Announced
<1>2. CASE \E r \in Reminder : Serve(r)
    BY <1>2, ServeKeeps
<1>3. CASE \E s \in Scheduler : ReadDue(s)
    BY <1>0, <1>3, ReadKeeps
<1>4. ASSUME NEW s \in Scheduler, Restart(s) PROVE Inv2'
    <2>1. row' = row /\ log' = log
        BY <1>4 DEF Restart
    <2>2. ASSUME NEW t \in Scheduler, NEW q \in DOMAIN batch'[t]
          PROVE  q \in DOMAIN batch[t] /\ batch'[t][q] = batch[t][q]
        <3>1. DOMAIN << >> = {}
            OBVIOUS
        <3>2. t # s
            BY <1>4, <2>2, <3>1 DEF Restart, Inv2, Inv1
        <3>3. QED BY <1>4, <2>2, <3>2 DEF Restart, Inv2, Inv1
    <2>3. /\ \A i \in DOMAIN log : Same(i)
          /\ \A r \in Reminder : row[r] # NoRow => Unset(r) /\ row'[r] # NoRow
        BY <2>1 DEF Same, Unset
    <2>4. Counted'
        BY <1>0, <2>2, <2>3, CountsKeep
    <2>5. QED BY <1>0, <2>1, <2>4 DEF Inv2, Logged, ActiveIsWanted, AskedIsKept, Announced
<1>5. CASE \E s \in Scheduler, r \in Reminder : Fire(s, r)
    BY <1>0, <1>5, FireKeeps
<1>6. CASE Consume
    BY <1>0, <1>6, ConsumeKeeps
<1>7. QED BY <1>1, <1>2, <1>3, <1>4, <1>5, <1>6 DEF Next, Tick, vars

\* The invariant behind the next two theorems.
LEMMA Inv2Holds == Spec => []Inv2
<1>1. Init => Inv2
    BY Inv2Holds_Init
<1>2. Inv2 /\ [Next]_vars => Inv2'
    BY Inv2Holds_Next
<1>3. QED BY <1>1, <1>2, PTL DEF Spec

\* What the user asked for last is still to come or was announced, with any
\* number of schedulers over the table, unless one of them was firing the row.
THEOREM AskedStays == Spec => []AskedIsKept
<1>1. Inv2 => AskedIsKept
    BY DEF Inv2
<1>2. QED BY <1>1, Inv2Holds, PTL

\* A reminder that the user deleted is not active and not announced again.
THEOREM DeletedStaysSilent == Spec => []DeletedIsSilent
<1>1. Inv2 => DeletedIsSilent
    <2> SUFFICES ASSUME Inv2, NEW r \in Reminder, row[r] # NoRow, ~row[r].wanted
                 PROVE  ~row[r].active /\ Announced(r, row[r].call) = {}
        BY DEF DeletedIsSilent
    <2>1. ~row[r].active
        BY DEF Inv2, ActiveIsWanted
    <2>2. ASSUME NEW i \in DOMAIN log, log[i].id = r, log[i].call = row[r].call PROVE FALSE
        BY <2>2 DEF Inv2, Logged
    <2>3. QED BY <2>1, <2>2 DEF Announced
<1>2. QED BY <1>1, Inv2Holds, PTL

-----------------------------------------------------------------------------
(***************************************************************************)
(* Delivery.  A group that has a committed offset never starts at the end of *)
(* the topic, and the offset to commit is not ahead of what was handled.      *)
(***************************************************************************)

\* Positions and offsets are of events, the offset to commit is not ahead.
Inv3 ==
    /\ Inv1
    /\ committed \in 0..Len(log)
    /\ cons.pos \in 0..Len(log)
    /\ cons.mark \in 0..cons.pos
    /\ \A i \in DOMAIN log : i <= cons.pos \/ i <= committed => Handled(i)

\* The consumer passes and commits only what was handled.
LEMMA ConsumeDelivers ==
    ASSUME Inv3, Inv1', Consume
    PROVE  Inv3'
<1>1. /\ log \in Seq(Events) /\ log' \in Seq(Events) /\ DOMAIN log' = DOMAIN log
      /\ \A i \in DOMAIN log : Handled(i) => Handled(i)'
    BY ConsumeMarks DEF Inv3, Inv1, TypeOK
<1>2. Len(log') = Len(log) /\ Len(log) \in Nat /\ DOMAIN log = 1..Len(log)
    BY <1>1
<1>3. /\ committed \in Nat /\ cons.pos \in Nat /\ cons.mark \in Nat
      /\ committed <= Len(log) /\ cons.pos <= Len(log) /\ cons.mark <= cons.pos
    BY <1>2 DEF Inv3
<1>4. CASE Join
    BY <1>1, <1>2, <1>3, <1>4, ConstantsAssumption DEF Join, Inv3
<1>5. CASE Commit
    BY <1>1, <1>2, <1>3, <1>5 DEF Commit, Inv3
<1>6. CASE Leaves
    BY <1>1, <1>2, <1>3, <1>6 DEF Leaves, Down, Inv3
<1>7. ASSUME InHand, cons' = Done, committed' = committed,
             log'[cons.pos + 1].shown \/ log'[cons.pos + 1].dropped
      PROVE  Inv3'
    <2>1. cons'.pos = cons.pos + 1 /\ cons'.mark = cons.pos + 1 /\ cons.pos + 1 <= Len(log)
        BY <1>3, <1>7 DEF Done, InHand, Inv3, Inv1, TypeOK
    <2>2. ASSUME NEW i \in DOMAIN log', i <= cons'.pos \/ i <= committed'
          PROVE  Handled(i)'
        <3>1. CASE i = cons.pos + 1
            BY <1>7, <3>1 DEF Handled
        <3>2. CASE i # cons.pos + 1
            <4>1. i \in DOMAIN log /\ (i <= cons.pos \/ i <= committed)
                BY <1>1, <1>2, <1>3, <1>7, <2>1, <2>2, <3>2
            <4>2. QED BY <1>1, <4>1 DEF Inv3
        <3>3. QED BY <3>1, <3>2
    <2>3. QED BY <1>2, <1>3, <1>7, <2>1, <2>2 DEF Inv3
<1>8. CASE Deliver
    <2>1. InHand /\ cons' = Done /\ committed' = committed
        BY <1>8 DEF Deliver
    <2>2. cons.pos + 1 \in 1..Len(log) /\ log[cons.pos + 1] \in Events
        BY <1>1, <1>2, <1>3, <2>1 DEF InHand
    <2>3. log'[cons.pos + 1].shown
        BY <1>8, <2>2, <1>2 DEF Deliver, Events
    <2>4. QED BY <1>7, <2>1, <2>3
<1>9. CASE DeliverFails
    <2>1. PICK sent \in BOOLEAN :
             LET last == cons.tries + 1 = MaxAttempts
                 ev == log[cons.pos + 1]
             IN  /\ log' = [log EXCEPT ![cons.pos + 1] =
                              [ev EXCEPT !.shown = @ \/ sent, !.dropped = @ \/ last]]
                 /\ cons' = IF last THEN Done ELSE [cons EXCEPT !.tries = @ + 1]
        BY <1>9 DEF DeliverFails
    <2>2. InHand /\ committed' = committed
        BY <1>9 DEF DeliverFails
    <2>3. cons.pos + 1 \in 1..Len(log) /\ log[cons.pos + 1] \in Events
        BY <1>1, <1>2, <1>3, <2>2 DEF InHand
    <2>4. CASE cons.tries + 1 = MaxAttempts
        <3>1. log'[cons.pos + 1].dropped
            BY <1>2, <2>1, <2>3, <2>4 DEF Events
        <3>2. QED BY <1>7, <2>1, <2>2, <2>4, <3>1
    <2>5. CASE cons.tries + 1 # MaxAttempts
        <3>1. cons'.pos = cons.pos /\ cons'.mark = cons.mark
            BY <2>1, <2>5 DEF Inv3, Inv1, TypeOK
        <3>2. QED BY <1>1, <1>2, <1>3, <2>2, <3>1 DEF Inv3
    <2>6. QED BY <2>4, <2>5
<1>10. QED BY <1>4, <1>5, <1>6, <1>8, <1>9 DEF Consume

\* With an offset from before, no event is passed or committed that was not
\* shown or given up: the bot may stop, lose commits and start again.
THEOREM DeliveredAtLeastOnce ==
    ASSUME Joined = TRUE
    PROVE  Spec => []AtLeastOnce
<1>1. Init => Inv3
    <2> SUFFICES ASSUME Init PROVE Inv3
        OBVIOUS
    <2>1. Inv1
        BY Inv1Holds_Init
    <2>2. QED BY <2>1 DEF Init, Inv3, Down
<1>2. Inv3 /\ [Next]_vars => Inv3'
    <2> SUFFICES ASSUME Inv3, [Next]_vars PROVE Inv3'
        OBVIOUS
    <2>0. Inv1'
        BY Inv1Holds_Next DEF Inv3
    <2>1. CASE UNCHANGED <<log, committed, cons>>
        BY <2>0, <2>1 DEF Inv3, Handled
    <2>2. ASSUME NEW s \in Scheduler, NEW r \in Reminder, Publish(s, r) PROVE Inv3'
        <3>1. UNCHANGED <<committed, cons>> /\ r \in DOMAIN batch[s]
            BY <2>2 DEF Publish, At
        <3>2. log \in Seq(Events) /\ Event(s, r) \in Events
            BY <3>1, EventTypes DEF Inv3, Inv1, TypeOK
        <3>3. CASE log' = log
            BY <2>0, <3>1, <3>3 DEF Inv3, Handled
        <3>4. CASE log' = Append(log, Event(s, r))
            <4>1. /\ Len(log) \in Nat /\ DOMAIN log = 1..Len(log)
                  /\ Len(log') = Len(log) + 1 /\ DOMAIN log' = 1..Len(log) + 1
                  /\ \A i \in DOMAIN log : log'[i] = log[i]
                BY <3>2, <3>4
            <4>2. ASSUME NEW i \in DOMAIN log', i <= cons.pos \/ i <= committed
                  PROVE  Handled(i)'
                <5>1. i \in DOMAIN log
                    BY <4>1, <4>2 DEF Inv3
                <5>2. QED BY <4>1, <4>2, <5>1 DEF Inv3, Handled
            <4>3. QED BY <2>0, <3>1, <4>1, <4>2 DEF Inv3
        <3>5. QED BY <2>2, <3>3, <3>4 DEF Publish
    <2>3. CASE Consume
        BY <2>0, <2>3, ConsumeDelivers
    <2>4. QED BY <2>1, <2>2, <2>3 DEF Next, Tick, Serve, CreateReminder, DeleteReminder,
             PostponeReminder, ReadDue, Restart, Fire, AddTask, Advance, vars
<1>3. Inv3 => AtLeastOnce
    BY ConstantsAssumption DEF Inv3, AtLeastOnce
<1>4. QED BY <1>1, <1>2, <1>3, PTL DEF Spec

-----------------------------------------------------------------------------
(***************************************************************************)
(* How often a time is announced.  A scheduler that has announced a time     *)
(* still holds its entry, has moved the row on, or met a failure; a row that  *)
(* was moved on never names a time again that was announced.                  *)
(***************************************************************************)

\* The events of a reminder, and those of one time it was asked for.
About(r) == {i \in DOMAIN log : log[i].id = r}
Told(r, c, t) == {i \in DOMAIN log : log[i].id = r /\ log[i].call = c /\ log[i].at = t}

\* The schedulers that have read a time: those yet to announce it, and those
\* that are past it.
Holds(s, r, c, t) == r \in DOMAIN batch[s] /\ batch[s][r].call = c /\ batch[s][r].at = t
ToTell(r, c, t) == {s \in Scheduler : Holds(s, r, c, t) /\ batch[s][r].stage = "publish"}
HasTold(r, c, t) == {s \in Scheduler : Holds(s, r, c, t) /\ batch[s][r].stage # "publish"}
Adding(r) == {s \in Scheduler : r \in DOMAIN batch[s] /\ batch[s][r].stage = "task"}

\* The row names this time next.
NextIs(r, c, t) == row[r] # NoRow /\ row[r].call = c /\ row[r].active /\ row[r].next = t

\* Only a time that has come is read and announced.
HasCome ==
    /\ \A i \in DOMAIN log : log[i].at <= now
    /\ \A s \in Scheduler : \A r \in DOMAIN batch[s] : batch[s][r].at <= now

FewTold(r, c, t) ==
    /\ Cardinality(Told(r, c, t)) + Cardinality(ToTell(r, c, t)) <= Cardinality(Scheduler) + faults
    /\ NextIs(r, c, t) => Cardinality(Told(r, c, t)) <= Cardinality(HasTold(r, c, t)) + faults

FewTasks(r) == tasks[r] + Cardinality(Adding(r)) <= Cardinality(About(r))

Inv4 ==
    /\ Inv2
    /\ HasCome
    /\ \A r \in Reminder : FewTasks(r) /\ \A c, t \in Nat : FewTold(r, c, t)

\* The sets are finite, and the schedulers of a time are not counted twice.
LEMMA Countable ==
    ASSUME Inv1, NEW r, NEW c, NEW t
    PROVE  /\ IsFiniteSet(About(r)) /\ Cardinality(About(r)) \in Nat
           /\ IsFiniteSet(Told(r, c, t)) /\ Cardinality(Told(r, c, t)) \in Nat
           /\ IsFiniteSet(ToTell(r, c, t)) /\ Cardinality(ToTell(r, c, t)) \in Nat
           /\ IsFiniteSet(HasTold(r, c, t)) /\ Cardinality(HasTold(r, c, t)) \in Nat
           /\ IsFiniteSet(Adding(r)) /\ Cardinality(Adding(r)) \in Nat
           /\ Cardinality(Scheduler) \in Nat
           /\ Cardinality(ToTell(r, c, t)) + Cardinality(HasTold(r, c, t)) <= Cardinality(Scheduler)
           /\ faults \in Nat /\ (r \in Reminder => tasks[r] \in Nat)
<1>1. IsFiniteSet(DOMAIN log)
    <2>1. Len(log) \in Nat /\ DOMAIN log = 1..Len(log)
        BY DEF Inv1, TypeOK
    <2>2. QED BY <2>1, FS_Interval
<1>2. IsFiniteSet(Scheduler)
    BY ConstantsAssumption
<1>3. /\ IsFiniteSet(About(r)) /\ IsFiniteSet(Told(r, c, t))
      /\ IsFiniteSet(ToTell(r, c, t)) /\ IsFiniteSet(HasTold(r, c, t)) /\ IsFiniteSet(Adding(r))
    BY <1>1, <1>2, FS_Subset DEF About, Told, ToTell, HasTold, Adding
<1>4. /\ Cardinality(About(r)) \in Nat /\ Cardinality(Told(r, c, t)) \in Nat
      /\ Cardinality(ToTell(r, c, t)) \in Nat /\ Cardinality(HasTold(r, c, t)) \in Nat
      /\ Cardinality(Adding(r)) \in Nat /\ Cardinality(Scheduler) \in Nat
    BY <1>2, <1>3, FS_CardinalityType
<1>5. Cardinality(ToTell(r, c, t)) + Cardinality(HasTold(r, c, t)) <= Cardinality(Scheduler)
    <2> DEFINE A == ToTell(r, c, t)
               B == HasTold(r, c, t)
    <2>1. A \cap B = {} /\ A \cup B \subseteq Scheduler
        BY DEF ToTell, HasTold
    <2>2. Cardinality(A \cap B) = 0
        BY <2>1, FS_EmptySet
    <2>3. Cardinality(A \cup B) = Cardinality(A) + Cardinality(B) - Cardinality(A \cap B)
        BY <1>3, FS_Union
    <2>4. Cardinality(A \cup B) <= Cardinality(Scheduler)
        BY <1>2, <2>1, FS_Subset
    <2> HIDE DEF A, B
    <2>5. Cardinality(A) + Cardinality(B) <= Cardinality(Scheduler)
        BY <1>4, <2>2, <2>3, <2>4 DEF A, B
    <2>6. QED BY <2>5 DEF A, B
<1>6. faults \in Nat /\ (r \in Reminder => tasks[r] \in Nat)
    BY DEF Inv1, TypeOK
<1>7. QED BY <1>3, <1>4, <1>5, <1>6

\* The same in the next state.
Counts ==
    \A r, c, t :
        /\ IsFiniteSet(About(r)) /\ IsFiniteSet(Adding(r))
        /\ IsFiniteSet(ToTell(r, c, t)) /\ IsFiniteSet(HasTold(r, c, t))
        /\ Cardinality(About(r)) \in Nat
        /\ Cardinality(Told(r, c, t)) \in Nat
        /\ Cardinality(ToTell(r, c, t)) \in Nat
        /\ Cardinality(HasTold(r, c, t)) \in Nat
        /\ Cardinality(Adding(r)) \in Nat
        /\ Cardinality(ToTell(r, c, t)) + Cardinality(HasTold(r, c, t)) <= Cardinality(Scheduler)

LEMMA CountableNext == Inv1' => Counts'
<1>1. Inv1 => Counts
    BY Countable DEF Counts
<1>2. QED BY <1>1, PTL

\* The same events, marked or not, are as many.
LEMMA ToldStays ==
    ASSUME DOMAIN log' = DOMAIN log,
           \A i \in DOMAIN log : /\ log'[i].id = log[i].id /\ log'[i].call = log[i].call
                                 /\ log'[i].at = log[i].at,
           NEW r, NEW c, NEW t
    PROVE  About(r)' = About(r) /\ Told(r, c, t)' = Told(r, c, t)
BY DEF About, Told

\* A scheduler tells of what it has read, once more.
LEMMA ToldGrows ==
    ASSUME Inv1, NEW s \in Scheduler, NEW q \in DOMAIN batch[s], log' = Append(log, Event(s, q)),
           NEW r, NEW c, NEW t
    PROVE  /\ Cardinality(About(r)') = IF r = q THEN Cardinality(About(r)) + 1
                                       ELSE Cardinality(About(r))
           /\ Cardinality(Told(r, c, t)') = IF r = q /\ Holds(s, q, c, t)
                                            THEN Cardinality(Told(r, c, t)) + 1
                                            ELSE Cardinality(Told(r, c, t))
<1> DEFINE n == Len(log) + 1
<1>1. log \in Seq(Events) /\ Event(s, q) \in Events
    BY EventTypes DEF Inv1, TypeOK
<1>2. /\ DOMAIN log' = DOMAIN log \cup {n} /\ n \notin DOMAIN log
      /\ \A i \in DOMAIN log : log'[i] = log[i]
      /\ log'[n] = Event(s, q)
    <2>1. /\ Len(log) \in Nat /\ DOMAIN log = 1..Len(log) /\ DOMAIN log' = 1..Len(log) + 1
          /\ \A i \in 1..Len(log) : log'[i] = log[i]
          /\ log'[Len(log) + 1] = Event(s, q)
        BY <1>1
    <2>2. QED BY <2>1
<1> HIDE DEF n
<1>3. log'[n].id = q /\ log'[n].call = batch[s][q].call /\ log'[n].at = batch[s][q].at
    BY <1>2 DEF Event
<1>4. /\ n \notin About(r) /\ About(r)' = IF r = q THEN About(r) \cup {n} ELSE About(r)
    BY <1>2, <1>3 DEF About
<1>5. n \notin Told(r, c, t)
    BY <1>2 DEF Told
<1>6. CASE r = q /\ Holds(s, q, c, t)
    <2>1. Told(r, c, t)' = Told(r, c, t) \cup {n}
        BY <1>2, <1>3, <1>6 DEF Told, Holds
    <2>2. QED BY <1>4, <1>5, <1>6, <2>1, Countable, FS_AddElement
<1>7. CASE ~(r = q /\ Holds(s, q, c, t))
    <2>1. Told(r, c, t)' = Told(r, c, t)
        BY <1>2, <1>3, <1>7 DEF Told, Holds
    <2>2. QED BY <1>4, <1>7, <2>1, Countable, FS_AddElement
<1>8. QED BY <1>6, <1>7

\* A failure pays for one announcement more, or for one scheduler that leaves.
LEMMA OneMoreFault ==
    ASSUME NEW e \in Nat, NEW p \in Nat, NEW h \in Nat, NEW n \in Nat, NEW f \in Nat,
           NEW e1 \in Nat, NEW p1 \in Nat, NEW h1 \in Nat,
           p1 <= p, (e1 \in {e, e + 1} /\ h1 >= h) \/ (e1 = e /\ h1 + 1 >= h)
    PROVE  /\ e + p <= n + f => e1 + p1 <= n + (f + 1)
           /\ e <= h + f => e1 <= h1 + (f + 1)
OBVIOUS

LEMMA FaultPays ==
    ASSUME Inv1, Inv1', NEW r, NEW c, NEW t, FewTold(r, c, t), faults' = faults + 1,
           NextIs(r, c, t)' => NextIs(r, c, t),
           Cardinality(ToTell(r, c, t)') <= Cardinality(ToTell(r, c, t)),
           \/ /\ Cardinality(Told(r, c, t)') \in {Cardinality(Told(r, c, t)),
                                                  Cardinality(Told(r, c, t)) + 1}
              /\ Cardinality(HasTold(r, c, t)') >= Cardinality(HasTold(r, c, t))
           \/ /\ Told(r, c, t)' = Told(r, c, t)
              /\ Cardinality(HasTold(r, c, t)') + 1 >= Cardinality(HasTold(r, c, t))
    PROVE  FewTold(r, c, t)'
<1>1. /\ Cardinality(Told(r, c, t)) \in Nat /\ Cardinality(Told(r, c, t)') \in Nat
      /\ Cardinality(ToTell(r, c, t)) \in Nat /\ Cardinality(ToTell(r, c, t)') \in Nat
      /\ Cardinality(HasTold(r, c, t)) \in Nat /\ Cardinality(HasTold(r, c, t)') \in Nat
      /\ Cardinality(Scheduler) \in Nat /\ faults \in Nat
    BY Countable, CountableNext DEF Counts
<1>2. /\ Cardinality(Told(r, c, t)) + Cardinality(ToTell(r, c, t)) <= Cardinality(Scheduler) + faults
            => Cardinality(Told(r, c, t)') + Cardinality(ToTell(r, c, t)')
                  <= Cardinality(Scheduler) + (faults + 1)
      /\ Cardinality(Told(r, c, t)) <= Cardinality(HasTold(r, c, t)) + faults
            => Cardinality(Told(r, c, t)') <= Cardinality(HasTold(r, c, t)') + (faults + 1)
    BY <1>1, OneMoreFault
<1>3. QED BY <1>2 DEF FewTold

\* What nothing happens to stays within its bound, and so does a new time.
LEMMA FewStay ==
    ASSUME Inv1, Inv1', NEW r, NEW c, NEW t, FewTold(r, c, t),
           faults' = faults \/ faults' = faults + 1,
           NextIs(r, c, t)' => NextIs(r, c, t) \/ Told(r, c, t) = {},
           Told(r, c, t)' = Told(r, c, t),
           Cardinality(ToTell(r, c, t)') = Cardinality(ToTell(r, c, t)),
           NextIs(r, c, t)' => \/ Cardinality(HasTold(r, c, t)') = Cardinality(HasTold(r, c, t))
                               \/ Told(r, c, t) = {}
    PROVE  FewTold(r, c, t)'
<1>1. /\ Cardinality(Told(r, c, t)) \in Nat
      /\ Cardinality(ToTell(r, c, t)) \in Nat
      /\ Cardinality(HasTold(r, c, t)) \in Nat /\ Cardinality(HasTold(r, c, t)') \in Nat
      /\ Cardinality(Scheduler) \in Nat /\ faults \in Nat /\ faults' \in Nat
    BY Countable, CountableNext DEF Counts
<1>2. Cardinality(Told(r, c, t)') + Cardinality(ToTell(r, c, t)') <= Cardinality(Scheduler) + faults'
    BY <1>1 DEF FewTold
<1>3. ASSUME NextIs(r, c, t)'
      PROVE  Cardinality(Told(r, c, t)') <= Cardinality(HasTold(r, c, t)') + faults'
    <2>1. CASE Told(r, c, t) = {}
        <3>1. Cardinality(Told(r, c, t)') = 0
            BY <2>1, FS_EmptySet
        <3>2. QED BY <1>1, <3>1
    <2>2. CASE Told(r, c, t) # {}
        <3>1. Cardinality(Told(r, c, t)) <= Cardinality(HasTold(r, c, t)) + faults
            BY <1>3, <2>2 DEF FewTold
        <3>2. QED BY <1>1, <1>3, <2>2, <3>1
    <2>3. QED BY <2>1, <2>2
<1>4. QED BY <1>2, <1>3 DEF FewTold

\* Two sets that differ in one element at most.
LEMMA ButOne ==
    ASSUME NEW S, NEW T, NEW x, IsFiniteSet(S), IsFiniteSet(T), S \ {x} = T \ {x}
    PROVE  /\ (x \in S <=> x \in T) => Cardinality(T) = Cardinality(S)
           /\ x \in T /\ x \notin S => Cardinality(T) = Cardinality(S) + 1
           /\ x \in S /\ x \notin T => Cardinality(T) + 1 = Cardinality(S)
<1>1. /\ Cardinality(S) \in Nat /\ Cardinality(T) \in Nat
    BY FS_CardinalityType
<1>2. /\ Cardinality(S \ {x}) = IF x \in S THEN Cardinality(S) - 1 ELSE Cardinality(S)
      /\ Cardinality(T \ {x}) = IF x \in T THEN Cardinality(T) - 1 ELSE Cardinality(T)
    BY FS_RemoveElement
<1>3. QED BY <1>1, <1>2

\* Only the entry of one reminder in the batch of one scheduler changes.
Touches(s, q) ==
    \A u \in Scheduler, r \in Reminder : u # s \/ r # q =>
        /\ r \in DOMAIN batch'[u] <=> r \in DOMAIN batch[u]
        /\ r \in DOMAIN batch[u] => batch'[u][r] = batch[u][r]

LEMMA LeaveTouches ==
    ASSUME Inv1, NEW s \in Scheduler, NEW q \in DOMAIN batch[s], Leave(s, q)
    PROVE  Touches(s, q) /\ q \notin DOMAIN batch'[s]
<1> DEFINE rest == Without(batch[s], q)
<1>1. batch[s] \in Batches /\ q \in Reminder
    BY EntriesOfABatch DEF Inv1
<1>2. DOMAIN rest = DOMAIN batch[s] \ {q} /\ \A r \in DOMAIN rest : rest[r] = batch[s][r]
    BY <1>1, WithoutIsABatch
<1>3. batch' = [batch EXCEPT ![s] = rest]
    BY DEF Leave, Inv1
<1> HIDE DEF rest
<1>4. batch'[s] = rest /\ \A u \in Scheduler \ {s} : batch'[u] = batch[u]
    BY <1>3 DEF Inv1
<1>5. QED BY <1>2, <1>4 DEF Touches

StageIs(s, q, stage) == batch' = [batch EXCEPT ![s][q].stage = stage]

LEMMA StageTouches ==
    ASSUME Inv1, NEW s \in Scheduler, NEW q \in DOMAIN batch[s],
           NEW stage \in {"publish", "task", "advance"}, StageIs(s, q, stage)
    PROVE  /\ Touches(s, q) /\ q \in DOMAIN batch'[s]
           /\ batch'[s][q].stage = stage
           /\ batch'[s][q].call = batch[s][q].call /\ batch'[s][q].at = batch[s][q].at
<1>1. /\ \A u \in Scheduler : DOMAIN batch'[u] = DOMAIN batch[u]
      /\ batch'[s][q] = [batch[s][q] EXCEPT !.stage = stage]
      /\ \A u \in Scheduler : \A r \in DOMAIN batch[u] :
            u # s \/ r # q => batch'[u][r] = batch[u][r]
    BY StageTypes DEF StageIs
<1>2. batch[s][q] \in Held
    BY EntriesOfABatch DEF Inv1
<1>3. QED BY <1>1, <1>2 DEF Touches, Held

\* Then the counts of the other reminders stay, and those of this one change at
\* most by this scheduler.
LEMMA TouchCounts ==
    ASSUME Inv1, Inv1', NEW s \in Scheduler, NEW q \in Reminder, Touches(s, q),
           NEW r \in Reminder, NEW c, NEW t
    PROVE  /\ r # q => /\ ToTell(r, c, t)' = ToTell(r, c, t)
                       /\ HasTold(r, c, t)' = HasTold(r, c, t)
                       /\ Adding(r)' = Adding(r)
           /\ ToTell(r, c, t)' \ {s} = ToTell(r, c, t) \ {s}
           /\ HasTold(r, c, t)' \ {s} = HasTold(r, c, t) \ {s}
           /\ Adding(r)' \ {s} = Adding(r) \ {s}
<1>1. ASSUME NEW u \in Scheduler, u # s \/ r # q
      PROVE  /\ u \in ToTell(r, c, t)' <=> u \in ToTell(r, c, t)
             /\ u \in HasTold(r, c, t)' <=> u \in HasTold(r, c, t)
             /\ u \in Adding(r)' <=> u \in Adding(r)
    BY <1>1 DEF Touches, ToTell, HasTold, Adding, Holds
<1>2. /\ ToTell(r, c, t)' \subseteq Scheduler /\ ToTell(r, c, t) \subseteq Scheduler
      /\ HasTold(r, c, t)' \subseteq Scheduler /\ HasTold(r, c, t) \subseteq Scheduler
      /\ Adding(r)' \subseteq Scheduler /\ Adding(r) \subseteq Scheduler
    BY DEF ToTell, HasTold, Adding
<1>3. QED BY <1>1, <1>2

LEMMA TouchCards ==
    ASSUME Inv1, Inv1', NEW s \in Scheduler, NEW q \in Reminder, Touches(s, q),
           NEW r \in Reminder, NEW c, NEW t
    PROVE  /\ (r # q \/ (s \in ToTell(r, c, t)' <=> s \in ToTell(r, c, t))) =>
                 Cardinality(ToTell(r, c, t)') = Cardinality(ToTell(r, c, t))
           /\ (r # q \/ (s \in HasTold(r, c, t)' <=> s \in HasTold(r, c, t))) =>
                 Cardinality(HasTold(r, c, t)') = Cardinality(HasTold(r, c, t))
           /\ (r # q \/ (s \in Adding(r)' <=> s \in Adding(r))) =>
                 Cardinality(Adding(r)') = Cardinality(Adding(r))
           /\ s \in ToTell(r, c, t) /\ s \notin ToTell(r, c, t)' =>
                 Cardinality(ToTell(r, c, t)') + 1 = Cardinality(ToTell(r, c, t))
           /\ s \in HasTold(r, c, t)' /\ s \notin HasTold(r, c, t) =>
                 Cardinality(HasTold(r, c, t)') = Cardinality(HasTold(r, c, t)) + 1
           /\ s \in HasTold(r, c, t) /\ s \notin HasTold(r, c, t)' =>
                 Cardinality(HasTold(r, c, t)') + 1 = Cardinality(HasTold(r, c, t))
           /\ s \in Adding(r)' /\ s \notin Adding(r) =>
                 Cardinality(Adding(r)') = Cardinality(Adding(r)) + 1
           /\ s \in Adding(r) /\ s \notin Adding(r)' =>
                 Cardinality(Adding(r)') + 1 = Cardinality(Adding(r))
<1>1. /\ IsFiniteSet(ToTell(r, c, t)) /\ IsFiniteSet(ToTell(r, c, t)')
      /\ IsFiniteSet(HasTold(r, c, t)) /\ IsFiniteSet(HasTold(r, c, t)')
      /\ IsFiniteSet(Adding(r)) /\ IsFiniteSet(Adding(r)')
    BY Countable, CountableNext DEF Counts
<1>2. /\ r # q => /\ ToTell(r, c, t)' = ToTell(r, c, t)
                  /\ HasTold(r, c, t)' = HasTold(r, c, t)
                  /\ Adding(r)' = Adding(r)
      /\ ToTell(r, c, t)' \ {s} = ToTell(r, c, t) \ {s}
      /\ HasTold(r, c, t)' \ {s} = HasTold(r, c, t) \ {s}
      /\ Adding(r)' \ {s} = Adding(r) \ {s}
    BY TouchCounts
<1>3. QED BY <1>1, <1>2, ButOne

\* The tasks of a reminder stay within its events when only these grow.
LEMMA TasksStay ==
    ASSUME Inv1, Inv1', NEW r \in Reminder, FewTasks(r), tasks'[r] = tasks[r],
           Cardinality(Adding(r)') <= Cardinality(Adding(r)),
           Cardinality(About(r)') >= Cardinality(About(r))
    PROVE  FewTasks(r)'
<1>1. /\ Cardinality(Adding(r)) \in Nat /\ Cardinality(Adding(r)') \in Nat
      /\ Cardinality(About(r)) \in Nat /\ Cardinality(About(r)') \in Nat
      /\ tasks[r] \in Nat
    BY Countable, CountableNext DEF Counts
<1>2. tasks'[r] + Cardinality(Adding(r)') <= Cardinality(About(r)')
    BY <1>1 DEF FewTasks
<1>3. QED BY <1>2 DEF FewTasks

\* A step that is within the bounds.
Few == \A r \in Reminder : FewTasks(r) /\ \A c, t \in Nat : FewTold(r, c, t)

\* A call of the server: nothing is announced yet of the time it sets.
LEMMA ServeFew ==
    ASSUME Inv4, Inv1', NEW q \in Reminder, Serve(q)
    PROVE  Few' /\ HasCome'
<1>1. PICK new \in Rows : Sets(q, new)
    BY ServeSets DEF Inv4, Inv2
<1>2. /\ UNCHANGED <<now, batch, log, tasks, faults>>
      /\ row'[q] = new
      /\ \A r \in Reminder \ {q} : row'[r] = row[r]
    BY <1>1 DEF Sets, Inv4, Inv2, Inv1, TypeOK
<1>3. ASSUME NEW r \in Reminder, NEW c \in Nat, NEW t \in Nat
      PROVE  NextIs(r, c, t)' => NextIs(r, c, t) \/ Told(r, c, t) = {}
    <2>1. CASE r # q
        BY <1>2, <2>1 DEF NextIs
    <2>2. ASSUME r = q, NextIs(r, c, t)', NEW i \in Told(r, c, t)
          PROVE  FALSE
        <3>1. c = new.call /\ i \in DOMAIN log /\ log[i].id = q /\ log[i].call = c
            BY <1>2, <2>2 DEF NextIs, Told
        <3>2. row[q] # NoRow /\ log[i].call <= row[q].call
            BY <3>1 DEF Inv4, Inv2, Logged
        <3>3. new.call = row[q].call + 1 /\ row[q].call \in Nat
            BY <1>1, <3>2 DEF Sets, Inv4, Inv2, Inv1, TypeOK, Rows
        <3>4. QED BY <3>1, <3>2, <3>3
    <2>3. QED BY <2>1, <2>2
<1>4. ASSUME NEW r \in Reminder, NEW c \in Nat, NEW t \in Nat
      PROVE  FewTold(r, c, t)'
    <2>1. /\ Told(r, c, t)' = Told(r, c, t) /\ ToTell(r, c, t)' = ToTell(r, c, t)
          /\ HasTold(r, c, t)' = HasTold(r, c, t)
        BY <1>2 DEF Told, ToTell, HasTold, Holds
    <2>2. Inv1 /\ FewTold(r, c, t)
        BY DEF Inv4, Inv2
    <2>3. QED BY <1>2, <1>3, <2>1, <2>2, FewStay
<1>5. ASSUME NEW r \in Reminder
      PROVE  FewTasks(r)'
    BY <1>2 DEF Inv4, FewTasks, Adding, About
<1>6. HasCome'
    BY <1>2 DEF Inv4, HasCome
<1>7. QED BY <1>4, <1>5, <1>6 DEF Few

\* A scheduler reads what is due: it is idle before, and the time has come.
LEMMA ReadFew ==
    ASSUME Inv4, Inv1', NEW s \in Scheduler, ReadDue(s)
    PROVE  Few' /\ HasCome'
<1>1. /\ UNCHANGED <<now, row, log, tasks, faults>> /\ DOMAIN batch[s] = {}
      /\ \A u \in Scheduler \ {s} : batch'[u] = batch[u]
      /\ \A r \in DOMAIN batch'[s] : /\ r \in Reminder /\ Due(r)
                                     /\ batch'[s][r].stage = "publish"
                                     /\ batch'[s][r].at = row[r].next
                                     /\ batch'[s][r].call = row[r].call
    <2> DEFINE read == [r \in {q \in Reminder : Due(q)} |->
                          [stage |-> "publish", at |-> row[r].next, call |-> row[r].call]]
    <2>1. /\ UNCHANGED <<now, row, log, tasks, faults>> /\ DOMAIN batch[s] = {}
          /\ batch' = [batch EXCEPT ![s] = read]
        BY DEF ReadDue
    <2>2. \A r \in DOMAIN read : /\ r \in Reminder /\ Due(r)
                                 /\ read[r].stage = "publish"
                                 /\ read[r].at = row[r].next
                                 /\ read[r].call = row[r].call
        OBVIOUS
    <2> HIDE DEF read
    <2>3. batch'[s] = read /\ \A u \in Scheduler \ {s} : batch'[u] = batch[u]
        BY <2>1 DEF Inv4, Inv2, Inv1
    <2>4. QED BY <2>1, <2>2, <2>3
<1>2. HasCome'
    <2>1. ASSUME NEW u \in Scheduler, NEW r \in DOMAIN batch'[u]
          PROVE  batch'[u][r].at <= now
        <3>1. CASE u = s
            <4>1. Due(r) /\ batch'[u][r].at = row[r].next
                BY <1>1, <2>1, <3>1
            <4>2. QED BY <4>1 DEF Due
        <3>2. CASE u # s
            BY <1>1, <2>1, <3>2 DEF Inv4, HasCome
        <3>3. QED BY <3>1, <3>2
    <2>2. QED BY <1>1, <2>1 DEF Inv4, HasCome
<1>3. ASSUME NEW r \in Reminder
      PROVE  FewTasks(r)'
    <2>1. Adding(r)' = Adding(r)
        <3>1. s \notin Adding(r)
            BY <1>1 DEF Adding
        <3>5. s \notin Adding(r)'
            <4>1. r \in DOMAIN batch'[s] => batch'[s][r].stage # "task"
                BY <1>1
            <4>2. QED BY <4>1 DEF Adding
        <3>2. \A u \in Scheduler \ {s} : u \in Adding(r)' <=> u \in Adding(r)
            BY <1>1 DEF Adding
        <3>3. Adding(r) \subseteq Scheduler /\ Adding(r)' \subseteq Scheduler
            BY DEF Adding
        <3>4. QED BY <3>1, <3>5, <3>2, <3>3
    <2>2. About(r)' = About(r)
        BY <1>1 DEF About
    <2>3. QED BY <1>1, <2>1, <2>2 DEF Inv4, FewTasks
<1>4. ASSUME NEW r \in Reminder, NEW c \in Nat, NEW t \in Nat
      PROVE  FewTold(r, c, t)'
    <2>1. Told(r, c, t)' = Told(r, c, t) /\ NextIs(r, c, t)' = NextIs(r, c, t)
        BY <1>1 DEF Told, NextIs
    <2>2. HasTold(r, c, t)' = HasTold(r, c, t)
        <3>1. s \notin HasTold(r, c, t)
            BY <1>1 DEF HasTold, Holds
        <3>5. s \notin HasTold(r, c, t)'
            <4>1. r \in DOMAIN batch'[s] => batch'[s][r].stage = "publish"
                BY <1>1
            <4>2. QED BY <4>1 DEF HasTold, Holds
        <3>2. \A u \in Scheduler \ {s} : u \in HasTold(r, c, t)' <=> u \in HasTold(r, c, t)
            BY <1>1 DEF HasTold, Holds
        <3>3. HasTold(r, c, t) \subseteq Scheduler /\ HasTold(r, c, t)' \subseteq Scheduler
            BY DEF HasTold
        <3>4. QED BY <3>1, <3>5, <3>2, <3>3
    <2>3. Inv1 /\ FewTold(r, c, t)
        BY DEF Inv4, Inv2
    <2>4. CASE NextIs(r, c, t)
        <3>1. /\ Cardinality(Told(r, c, t)) \in Nat
              /\ Cardinality(ToTell(r, c, t)') \in Nat
              /\ Cardinality(HasTold(r, c, t)') \in Nat
              /\ Cardinality(ToTell(r, c, t)') + Cardinality(HasTold(r, c, t)')
                    <= Cardinality(Scheduler)
              /\ Cardinality(Scheduler) \in Nat /\ faults \in Nat
            BY <2>3, Countable, CountableNext DEF Counts
        <3>2. Cardinality(Told(r, c, t)) <= Cardinality(HasTold(r, c, t)') + faults
            BY <2>2, <2>3, <2>4 DEF FewTold
        <3>3. Cardinality(Told(r, c, t)) + Cardinality(ToTell(r, c, t)')
                 <= Cardinality(Scheduler) + faults
            BY <3>1, <3>2
        <3>4. QED BY <1>1, <2>1, <3>2, <3>3 DEF FewTold
    <2>5. CASE ~NextIs(r, c, t)
        <3>1. s \notin ToTell(r, c, t)
            BY <1>1 DEF ToTell, Holds
        <3>2. s \notin ToTell(r, c, t)'
            <4>1. ASSUME s \in ToTell(r, c, t)' PROVE NextIs(r, c, t)
                <5>1. r \in DOMAIN batch'[s] /\ batch'[s][r].call = c /\ batch'[s][r].at = t
                    BY <4>1 DEF ToTell, Holds
                <5>2. Due(r) /\ batch'[s][r].call = row[r].call /\ batch'[s][r].at = row[r].next
                    BY <1>1, <5>1
                <5>3. QED BY <5>1, <5>2 DEF Due, NextIs
            <4>2. QED BY <2>5, <4>1
        <3>3. \A u \in Scheduler \ {s} : u \in ToTell(r, c, t)' <=> u \in ToTell(r, c, t)
            BY <1>1 DEF ToTell, Holds
        <3>4. ToTell(r, c, t) \subseteq Scheduler /\ ToTell(r, c, t)' \subseteq Scheduler
            BY DEF ToTell
        <3>5. ToTell(r, c, t)' = ToTell(r, c, t)
            BY <3>1, <3>2, <3>3, <3>4
        <3>6. QED BY <1>1, <2>1, <2>2, <2>3, <3>5, FewStay
    <2>6. QED BY <2>4, <2>5
<1>5. QED BY <1>2, <1>3, <1>4 DEF Few

\* A batch that is shorter than before, and a log that grew by what was read.
LEMMA StillHasCome ==
    ASSUME Inv4, now' = now,
           \A u \in Scheduler : \A r \in DOMAIN batch'[u] :
              r \in DOMAIN batch[u] /\ batch'[u][r].at = batch[u][r].at,
           \/ log' = log
           \/ \E s \in Scheduler : \E q \in DOMAIN batch[s] : log' = Append(log, Event(s, q))
    PROVE  HasCome'
<1>1. ASSUME NEW i \in DOMAIN log' PROVE log'[i].at <= now
    <2>1. CASE log' = log
        BY <2>1 DEF Inv4, HasCome
    <2>2. ASSUME NEW s \in Scheduler, NEW q \in DOMAIN batch[s], log' = Append(log, Event(s, q))
          PROVE  log'[i].at <= now
        <3>1. log \in Seq(Events) /\ Event(s, q) \in Events
            BY EventTypes DEF Inv4, Inv2, Inv1, TypeOK
        <3>2. (i \in DOMAIN log /\ log'[i] = log[i]) \/ log'[i] = Event(s, q)
            BY <2>2, <3>1
        <3>3. Event(s, q).at = batch[s][q].at
            BY DEF Event
        <3>4. QED BY <3>2, <3>3 DEF Inv4, HasCome
    <2>3. QED BY <2>1, <2>2
<1>2. QED BY <1>1 DEF Inv4, HasCome

\* The process of a scheduler stops: all it held is gone.
LEMMA RestartFew ==
    ASSUME Inv4, Inv1', NEW s \in Scheduler, Restart(s)
    PROVE  Few' /\ HasCome'
<1>1. /\ UNCHANGED <<now, row, log, tasks>> /\ faults' = faults + 1
      /\ DOMAIN batch'[s] = {}
      /\ \A u \in Scheduler \ {s} : batch'[u] = batch[u]
    BY DEF Restart, Fault, Inv4, Inv2, Inv1
<1>2. Inv1
    BY DEF Inv4, Inv2
<1>3. ASSUME NEW r \in Reminder
      PROVE  FewTasks(r)'
    <2>1. Adding(r)' \subseteq Adding(r)
        BY <1>1 DEF Adding
    <2>2. Cardinality(Adding(r)') <= Cardinality(Adding(r))
        BY <1>2, <2>1, Countable, FS_Subset
    <2>3. About(r)' = About(r) /\ Cardinality(About(r)) \in Nat
        BY <1>1, <1>2, Countable DEF About
    <2>4. FewTasks(r) /\ tasks'[r] = tasks[r]
        BY <1>1 DEF Inv4
    <2>5. Cardinality(About(r)') >= Cardinality(About(r))
        BY <2>3
    <2>6. QED BY <1>2, <2>2, <2>4, <2>5, TasksStay
<1>4. ASSUME NEW r \in Reminder, NEW c \in Nat, NEW t \in Nat
      PROVE  FewTold(r, c, t)'
    <2>1. Told(r, c, t)' = Told(r, c, t) /\ NextIs(r, c, t)' = NextIs(r, c, t)
        BY <1>1 DEF Told, NextIs
    <2>2. ToTell(r, c, t)' \subseteq ToTell(r, c, t)
        BY <1>1 DEF ToTell, Holds
    <2>3. Cardinality(ToTell(r, c, t)') <= Cardinality(ToTell(r, c, t))
        BY <1>2, <2>2, Countable, FS_Subset
    <2>4. HasTold(r, c, t)' \ {s} = HasTold(r, c, t) \ {s} /\ s \notin HasTold(r, c, t)'
        <3>1. \A u \in Scheduler \ {s} : u \in HasTold(r, c, t)' <=> u \in HasTold(r, c, t)
            BY <1>1 DEF HasTold, Holds
        <3>2. s \notin HasTold(r, c, t)'
            BY <1>1 DEF HasTold, Holds
        <3>3. HasTold(r, c, t) \subseteq Scheduler /\ HasTold(r, c, t)' \subseteq Scheduler
            BY DEF HasTold
        <3>4. QED BY <3>1, <3>2, <3>3
    <2>5. /\ IsFiniteSet(HasTold(r, c, t)) /\ IsFiniteSet(HasTold(r, c, t)')
          /\ Cardinality(HasTold(r, c, t)) \in Nat /\ Cardinality(HasTold(r, c, t)') \in Nat
        BY <1>2, Countable, CountableNext DEF Counts
    <2>6. \/ Cardinality(HasTold(r, c, t)') = Cardinality(HasTold(r, c, t))
          \/ Cardinality(HasTold(r, c, t)') + 1 = Cardinality(HasTold(r, c, t))
        BY <2>4, <2>5, ButOne
    <2>7. Cardinality(HasTold(r, c, t)') + 1 >= Cardinality(HasTold(r, c, t))
        BY <2>5, <2>6
    <2>8. FewTold(r, c, t)
        BY DEF Inv4
    <2>9. QED BY <1>1, <1>2, <2>1, <2>3, <2>7, <2>8, FaultPays
<1>5. HasCome'
    BY <1>1, StillHasCome
<1>6. QED BY <1>3, <1>4, <1>5 DEF Few

\* A scheduler that announces is past the time it had yet to announce: the one
\* count goes down and both others go up.
LEMMA PublishFew ==
    ASSUME Inv4, Inv1', NEW s \in Scheduler, NEW q \in Reminder, Publish(s, q)
    PROVE  Few' /\ HasCome'
<1> DEFINE stage == AfterPublish(q)
           out == log' = Append(log, Event(s, q))
           same == log' = log
<1>1. /\ Inv1 /\ UNCHANGED <<now, row, tasks>>
      /\ q \in DOMAIN batch[s] /\ batch[s][q].stage = "publish"
    BY DEF Publish, At, Inv4, Inv2
<1>2. \/ out /\ StageIs(s, q, stage) /\ faults' = faults
      \/ (out \/ same) /\ Leave(s, q) /\ faults' = faults + 1
      \/ out /\ batch' = batch /\ faults' = faults + 1
    BY DEF Publish, Fault, StageIs
<1>3. stage \in {"task", "advance"}
    BY DEF AfterPublish
<1> HIDE DEF stage
<1>4. Touches(s, q)
    <2>1. CASE StageIs(s, q, stage)
        BY <1>1, <1>3, <2>1, StageTouches
    <2>2. CASE Leave(s, q)
        BY <1>1, <2>2, LeaveTouches
    <2>3. CASE batch' = batch
        BY <2>3 DEF Touches
    <2>4. QED BY <1>2, <2>1, <2>2, <2>3
<1>5. ASSUME NEW r \in Reminder, NEW c, NEW t
      PROVE  /\ Cardinality(About(r)') >= Cardinality(About(r))
             /\ out => Cardinality(About(r)') = IF r = q THEN Cardinality(About(r)) + 1
                                                ELSE Cardinality(About(r))
             /\ out => Cardinality(Told(r, c, t)') = IF r = q /\ Holds(s, q, c, t)
                                                     THEN Cardinality(Told(r, c, t)) + 1
                                                     ELSE Cardinality(Told(r, c, t))
             /\ Cardinality(Told(r, c, t)') \in {Cardinality(Told(r, c, t)),
                                                 Cardinality(Told(r, c, t)) + 1}
    <2>1. CASE out
        <3>1. /\ Cardinality(About(r)) \in Nat /\ Cardinality(Told(r, c, t)) \in Nat
            BY <1>1, Countable
        <3>2. /\ Cardinality(About(r)') = IF r = q THEN Cardinality(About(r)) + 1
                                          ELSE Cardinality(About(r))
              /\ Cardinality(Told(r, c, t)') = IF r = q /\ Holds(s, q, c, t)
                                               THEN Cardinality(Told(r, c, t)) + 1
                                               ELSE Cardinality(Told(r, c, t))
            <4>1. q \in DOMAIN batch[s] /\ Inv1
                BY <1>1
            <4>2. QED BY <2>1, <4>1, ToldGrows
        <3>3. QED BY <3>1, <3>2
    <2>2. CASE same
        <3>1. About(r)' = About(r) /\ Told(r, c, t)' = Told(r, c, t)
            BY <2>2 DEF About, Told
        <3>2. Cardinality(About(r)) \in Nat
            BY <1>1, Countable
        <3>3. ~out
            <4>1. log \in Seq(Events) /\ Event(s, q) \in Events
                BY <1>1, EventTypes DEF Inv1, TypeOK
            <4>2. Len(log) \in Nat /\ (out => Len(log') = Len(log) + 1)
                BY <4>1
            <4>3. QED BY <2>2, <4>2
        <3>4. QED BY <3>1, <3>2, <3>3
    <2>3. QED BY <1>2, <2>1, <2>2
<1>6. ASSUME NEW r \in Reminder, NEW c, NEW t
      PROVE  /\ s \notin HasTold(q, c, t) /\ s \notin Adding(q)
             /\ s \in ToTell(q, c, t) <=> Holds(s, q, c, t)
    BY <1>1 DEF HasTold, Adding, ToTell
<1>7. CASE out /\ StageIs(s, q, stage) /\ faults' = faults
    <2>1. /\ q \in DOMAIN batch'[s] /\ batch'[s][q].stage = stage
          /\ batch'[s][q].call = batch[s][q].call /\ batch'[s][q].at = batch[s][q].at
        <3>1. q \in DOMAIN batch[s] /\ Inv1 /\ StageIs(s, q, stage)
            BY <1>1, <1>7
        <3>2. QED BY <1>3, <3>1, StageTouches
    <2>2. ASSUME NEW c, NEW t
          PROVE  /\ s \notin ToTell(q, c, t)'
                 /\ s \in HasTold(q, c, t)' <=> Holds(s, q, c, t)
        BY <1>1, <1>3, <2>1 DEF ToTell, HasTold, Holds
    <2>3. ASSUME NEW r \in Reminder
          PROVE  FewTasks(r)'
        <3>1. /\ Cardinality(Adding(r)) \in Nat /\ Cardinality(About(r)) \in Nat
              /\ tasks[r] \in Nat
            BY <1>1, Countable
        <3>2. FewTasks(r) /\ tasks'[r] = tasks[r]
            BY <1>1 DEF Inv4
        <3>3. /\ r # q => Cardinality(Adding(r)') = Cardinality(Adding(r))
              /\ r = q => Cardinality(Adding(r)') \in {Cardinality(Adding(r)),
                                                       Cardinality(Adding(r)) + 1}
            BY <1>1, <1>4, <1>6, TouchCards
        <3>4. Cardinality(About(r)') = IF r = q THEN Cardinality(About(r)) + 1
                                       ELSE Cardinality(About(r))
            BY <1>5, <1>7
        <3>5. QED BY <3>1, <3>2, <3>3, <3>4 DEF FewTasks
    <2>4. ASSUME NEW r \in Reminder, NEW c \in Nat, NEW t \in Nat
          PROVE  FewTold(r, c, t)'
        <3>1. /\ Cardinality(Told(r, c, t)) \in Nat /\ Cardinality(ToTell(r, c, t)) \in Nat
              /\ Cardinality(HasTold(r, c, t)) \in Nat
              /\ Cardinality(ToTell(r, c, t)') \in Nat
              /\ Cardinality(Scheduler) \in Nat /\ faults \in Nat
            BY <1>1, Countable, CountableNext DEF Counts
        <3>2. NextIs(r, c, t)' = NextIs(r, c, t) /\ FewTold(r, c, t)
            BY <1>1 DEF NextIs, Inv4
        <3>3. CASE r = q /\ Holds(s, q, c, t)
            <4>1. Cardinality(Told(r, c, t)') = Cardinality(Told(r, c, t)) + 1
                BY <1>5, <1>7, <3>3
            <4>2. Cardinality(ToTell(r, c, t)') + 1 = Cardinality(ToTell(r, c, t))
                BY <1>1, <1>4, <1>6, <2>2, <3>3, TouchCards
            <4>3. Cardinality(HasTold(r, c, t)') = Cardinality(HasTold(r, c, t)) + 1
                BY <1>1, <1>4, <1>6, <2>2, <3>3, TouchCards
            <4>4. /\ Cardinality(Told(r, c, t)') + Cardinality(ToTell(r, c, t)')
                        <= Cardinality(Scheduler) + faults
                  /\ NextIs(r, c, t) =>
                        Cardinality(Told(r, c, t)') <= Cardinality(HasTold(r, c, t)') + faults
                BY <3>1, <3>2, <4>1, <4>2, <4>3 DEF FewTold
            <4>5. QED BY <1>7, <3>2, <4>4 DEF FewTold
        <3>4. CASE ~(r = q /\ Holds(s, q, c, t))
            <4>1. Cardinality(Told(r, c, t)') = Cardinality(Told(r, c, t))
                BY <1>5, <1>7, <3>4
            <4>2. Cardinality(ToTell(r, c, t)') = Cardinality(ToTell(r, c, t))
                BY <1>1, <1>4, <1>6, <2>2, <3>4, TouchCards
            <4>3. Cardinality(HasTold(r, c, t)') = Cardinality(HasTold(r, c, t))
                BY <1>1, <1>4, <1>6, <2>2, <3>4, TouchCards
            <4>4. QED BY <1>7, <3>1, <3>2, <4>1, <4>2, <4>3 DEF FewTold
        <3>5. QED BY <3>3, <3>4
    <2>5. HasCome'
        <3>1. \A u \in Scheduler : \A r \in DOMAIN batch'[u] :
                 r \in DOMAIN batch[u] /\ batch'[u][r].at = batch[u][r].at
            <4>1. \A u \in Scheduler : DOMAIN batch'[u] \subseteq Reminder
                BY DEF Inv1, TypeOK
            <4>2. QED BY <1>1, <1>4, <2>1, <4>1 DEF Touches
        <3>2. QED BY <1>1, <1>7, <3>1, StillHasCome
    <2>6. QED BY <2>3, <2>4, <2>5 DEF Few
<1>8. CASE faults' = faults + 1 /\ (Leave(s, q) \/ batch' = batch)
    <2>1. Leave(s, q) => q \notin DOMAIN batch'[s]
        BY <1>1, LeaveTouches
    <2>2. ASSUME NEW c, NEW t
          PROVE  /\ s \in ToTell(q, c, t)' => s \in ToTell(q, c, t)
                 /\ s \notin HasTold(q, c, t)' /\ s \notin Adding(q)'
        BY <1>1, <1>8, <2>1 DEF ToTell, HasTold, Adding, Holds
    <2>3. ASSUME NEW r \in Reminder
          PROVE  FewTasks(r)'
        <3>1. Cardinality(Adding(r)) \in Nat /\ Cardinality(Adding(r)') = Cardinality(Adding(r))
            BY <1>1, <1>4, <1>6, <2>2, Countable, TouchCards
        <3>2. FewTasks(r) /\ tasks'[r] = tasks[r]
            BY <1>1 DEF Inv4
        <3>3. Cardinality(Adding(r)') <= Cardinality(Adding(r))
            BY <3>1
        <3>4. QED BY <1>1, <1>5, <3>2, <3>3, TasksStay
    <2>4. ASSUME NEW r \in Reminder, NEW c \in Nat, NEW t \in Nat
          PROVE  FewTold(r, c, t)'
        <3>1. /\ Cardinality(ToTell(r, c, t)) \in Nat /\ Cardinality(ToTell(r, c, t)') \in Nat
              /\ Cardinality(HasTold(r, c, t)) \in Nat
            BY <1>1, Countable, CountableNext DEF Counts
        <3>2. NextIs(r, c, t)' = NextIs(r, c, t) /\ FewTold(r, c, t)
            BY <1>1 DEF NextIs, Inv4
        <3>3. \/ Cardinality(ToTell(r, c, t)') = Cardinality(ToTell(r, c, t))
              \/ Cardinality(ToTell(r, c, t)') + 1 = Cardinality(ToTell(r, c, t))
            BY <1>1, <1>4, <2>2, TouchCards
        <3>4. Cardinality(HasTold(r, c, t)') = Cardinality(HasTold(r, c, t))
            BY <1>1, <1>4, <1>6, <2>2, TouchCards
        <3>5. /\ Cardinality(ToTell(r, c, t)') <= Cardinality(ToTell(r, c, t))
              /\ Cardinality(HasTold(r, c, t)') >= Cardinality(HasTold(r, c, t))
            BY <3>1, <3>3, <3>4
        <3>6. QED BY <1>1, <1>5, <1>8, <3>2, <3>5, FaultPays
    <2>5. HasCome'
        <3>1. \A u \in Scheduler : \A r \in DOMAIN batch'[u] :
                 r \in DOMAIN batch[u] /\ batch'[u][r].at = batch[u][r].at
            <4>1. \A u \in Scheduler : DOMAIN batch'[u] \subseteq Reminder
                BY DEF Inv1, TypeOK
            <4>2. CASE batch' = batch
                BY <4>2
            <4>3. CASE Leave(s, q)
                BY <1>1, <1>4, <2>1, <4>1, <4>3 DEF Touches
            <4>4. QED BY <1>8, <4>2, <4>3
        <3>2. QED BY <1>1, <1>2, <3>1, StillHasCome
    <2>6. QED BY <2>3, <2>4, <2>5 DEF Few
<1>9. QED BY <1>2, <1>7, <1>8

\* A task goes to the note of the day: it was held back until now, or it fails.
LEMMA AddTaskFew ==
    ASSUME Inv4, Inv1', NEW s \in Scheduler, NEW q \in Reminder, AddTask(s, q)
    PROVE  Few' /\ HasCome'
<1>1. /\ Inv1 /\ UNCHANGED <<now, row, log>>
      /\ q \in DOMAIN batch[s] /\ batch[s][q].stage = "task"
      /\ faults' = faults \/ faults' = faults + 1
    BY DEF AddTask, Fault, At, Inv4, Inv2
<1>2. StageIs(s, q, "advance")
    BY DEF AddTask, StageIs
<1>3. /\ Touches(s, q) /\ q \in DOMAIN batch'[s] /\ batch'[s][q].stage = "advance"
      /\ batch'[s][q].call = batch[s][q].call /\ batch'[s][q].at = batch[s][q].at
    BY <1>1, <1>2, StageTouches
<1>4. ASSUME NEW c, NEW t
      PROVE  /\ s \notin ToTell(q, c, t) /\ s \notin ToTell(q, c, t)'
             /\ s \in HasTold(q, c, t)' <=> s \in HasTold(q, c, t)
             /\ s \in Adding(q) /\ s \notin Adding(q)'
    BY <1>1, <1>3 DEF ToTell, HasTold, Adding, Holds
<1>5. ASSUME NEW r \in Reminder
      PROVE  FewTasks(r)'
    <2>1. /\ Cardinality(Adding(r)) \in Nat /\ Cardinality(Adding(r)') \in Nat
          /\ Cardinality(About(r)) \in Nat /\ tasks[r] \in Nat
        BY <1>1, Countable, CountableNext DEF Counts
    <2>2. FewTasks(r) /\ About(r)' = About(r)
        BY <1>1 DEF Inv4, About
    <2>3. /\ r # q => Cardinality(Adding(r)') = Cardinality(Adding(r))
          /\ r = q => Cardinality(Adding(r)') + 1 = Cardinality(Adding(r))
        BY <1>1, <1>3, <1>4, TouchCards
    <2>4. tasks'[r] = tasks[r] \/ (r = q /\ tasks'[r] = tasks[r] + 1)
        BY DEF AddTask, Inv4, Inv2, Inv1, TypeOK
    <2>5. tasks'[r] + Cardinality(Adding(r)') <= Cardinality(About(r))
        BY <2>1, <2>2, <2>3, <2>4 DEF FewTasks
    <2>6. QED BY <2>2, <2>5 DEF FewTasks
<1>6. ASSUME NEW r \in Reminder, NEW c \in Nat, NEW t \in Nat
      PROVE  FewTold(r, c, t)'
    <2>1. /\ Told(r, c, t)' = Told(r, c, t) /\ NextIs(r, c, t)' = NextIs(r, c, t)
          /\ FewTold(r, c, t)
        BY <1>1 DEF Told, NextIs, Inv4
    <2>2. /\ Cardinality(ToTell(r, c, t)') = Cardinality(ToTell(r, c, t))
          /\ Cardinality(HasTold(r, c, t)') = Cardinality(HasTold(r, c, t))
        BY <1>1, <1>3, <1>4, TouchCards
    <2>3. QED BY <1>1, <2>1, <2>2, FewStay
<1>7. HasCome'
    <2>1. \A u \in Scheduler : \A r \in DOMAIN batch'[u] :
             r \in DOMAIN batch[u] /\ batch'[u][r].at = batch[u][r].at
        <3>1. \A u \in Scheduler : DOMAIN batch'[u] \subseteq Reminder
            BY DEF Inv1, TypeOK
        <3>2. QED BY <1>1, <1>3, <3>1 DEF Touches
    <2>2. QED BY <1>1, <2>1, StillHasCome
<1>8. QED BY <1>5, <1>6, <1>7 DEF Few

\* A scheduler moves a row on: to a time that is yet to come, which nobody has
\* announced, or to none.  When the update fails the row stays due: a failure.
LEMMA AdvanceFew ==
    ASSUME Inv4, Inv1', NEW s \in Scheduler, NEW q \in Reminder, Advance(s, q)
    PROVE  Few' /\ HasCome'
<1>1. /\ Inv1 /\ UNCHANGED <<now, log, tasks>> /\ Leave(s, q)
      /\ q \in DOMAIN batch[s] /\ batch[s][q].stage = "advance"
    BY DEF Advance, At, Inv4, Inv2
<1>2. Touches(s, q) /\ q \notin DOMAIN batch'[s]
    BY <1>1, LeaveTouches
<1>3. ASSUME NEW c, NEW t
      PROVE  /\ s \notin ToTell(q, c, t) /\ s \notin ToTell(q, c, t)'
             /\ s \notin HasTold(q, c, t)' /\ s \notin Adding(q) /\ s \notin Adding(q)'
             /\ s \in HasTold(q, c, t) <=> Holds(s, q, c, t)
    BY <1>1, <1>2 DEF ToTell, HasTold, Adding, Holds
<1>4. ASSUME NEW r \in Reminder
      PROVE  FewTasks(r)'
    <2>1. Cardinality(Adding(r)') = Cardinality(Adding(r))
        BY <1>1, <1>2, <1>3, TouchCards
    <2>2. About(r)' = About(r) /\ FewTasks(r) /\ tasks'[r] = tasks[r]
        BY <1>1 DEF About, Inv4
    <2>3. QED BY <2>1, <2>2 DEF FewTasks
<1>5. \/ /\ row' = row /\ faults' = faults + 1
      \/ /\ row' = [row EXCEPT ![q] = UpdateNextFire(q, NextTime(row[q].every, now))]
         /\ faults' = faults
    BY DEF Advance, Fault
<1>6. ASSUME NEW r \in Reminder, NEW c \in Nat, NEW t \in Nat
      PROVE  FewTold(r, c, t)'
    <2>1. Told(r, c, t)' = Told(r, c, t) /\ FewTold(r, c, t)
        BY <1>1 DEF Told, Inv4
    <2>2. Cardinality(ToTell(r, c, t)') = Cardinality(ToTell(r, c, t))
        BY <1>1, <1>2, <1>3, TouchCards
    <2>3. r # q => Cardinality(HasTold(r, c, t)') = Cardinality(HasTold(r, c, t))
        BY <1>1, <1>2, TouchCards
    <2>4. CASE row' = row /\ faults' = faults + 1
        <3>1. NextIs(r, c, t)' = NextIs(r, c, t)
            BY <2>4 DEF NextIs
        <3>2. /\ Cardinality(ToTell(r, c, t)) \in Nat
              /\ Cardinality(HasTold(r, c, t)) \in Nat /\ Cardinality(HasTold(r, c, t)') \in Nat
            BY <1>1, Countable, CountableNext DEF Counts
        <3>3. \/ Cardinality(HasTold(r, c, t)') = Cardinality(HasTold(r, c, t))
              \/ Cardinality(HasTold(r, c, t)') + 1 = Cardinality(HasTold(r, c, t))
            BY <1>1, <1>2, <1>3, TouchCards
        <3>4. /\ Cardinality(ToTell(r, c, t)') <= Cardinality(ToTell(r, c, t))
              /\ Cardinality(HasTold(r, c, t)') + 1 >= Cardinality(HasTold(r, c, t))
            BY <2>2, <3>2, <3>3
        <3>5. QED BY <1>1, <2>1, <2>4, <3>1, <3>4, FaultPays
    <2>5. CASE /\ row' = [row EXCEPT ![q] = UpdateNextFire(q, NextTime(row[q].every, now))]
               /\ faults' = faults
        <3>1. CASE r = q
            <4> DEFINE next == NextTime(row[q].every, now)
            <4>1. row[q] \in Rows /\ now \in Nat
                BY <1>1 DEF Inv1, TypeOK
            <4>2. next = NoTime \/ (next \in Nat /\ next > now)
                BY <4>1, NextTimeIsLater DEF Rows
            <4> HIDE DEF next
            <4>3. row'[q] = UpdateNextFire(q, next)
                BY <1>1, <2>5 DEF next, Inv1, TypeOK
            <4>4. ASSUME NextIs(q, c, t)' PROVE t = next /\ next # NoTime
                <5>1. next # NoTime
                    BY <4>1, <4>3, <4>4 DEF UpdateNextFire, Rows, NextIs
                <5>2. row'[q].next = next
                    BY <4>1, <4>3, <5>1 DEF UpdateNextFire, Rows
                <5>3. QED BY <4>4, <5>1, <5>2 DEF NextIs
            <4>5. ASSUME NextIs(q, c, t)' PROVE Told(q, c, t) = {}
                <5>1. t > now
                    BY <4>2, <4>4, <4>5
                <5>2. \A i \in DOMAIN log : log[i].at <= now
                    BY DEF Inv4, HasCome
                <5>3. ASSUME NEW i \in Told(q, c, t) PROVE FALSE
                    <6>1. i \in DOMAIN log /\ log[i].at = t
                        BY DEF Told
                    <6>2. t <= now
                        BY <5>2, <6>1
                    <6>3. QED BY <4>1, <5>1, <6>2
                <5>4. QED BY <5>3
            <4>6. QED BY <1>1, <2>1, <2>2, <2>5, <3>1, <4>5, FewStay
        <3>2. CASE r # q
            <4>1. row'[r] = row[r]
                BY <1>1, <2>5, <3>2 DEF Inv1, TypeOK
            <4>2. NextIs(r, c, t)' = NextIs(r, c, t)
                BY <4>1 DEF NextIs
            <4>3. QED BY <1>1, <2>1, <2>2, <2>3, <2>5, <3>2, <4>2, FewStay
        <3>3. QED BY <3>1, <3>2
    <2>6. QED BY <1>5, <2>4, <2>5
<1>7. HasCome'
    <2>1. \A u \in Scheduler : \A r \in DOMAIN batch'[u] :
             r \in DOMAIN batch[u] /\ batch'[u][r].at = batch[u][r].at
        <3>1. \A u \in Scheduler : DOMAIN batch'[u] \subseteq Reminder
            BY DEF Inv1, TypeOK
        <3>2. QED BY <1>1, <1>2, <3>1 DEF Touches
    <2>2. QED BY <1>1, <2>1, StillHasCome
<1>8. QED BY <1>4, <1>6, <1>7 DEF Few

\* Neither the clock nor the consumer announces or reads anything.
LEMMA OthersFew ==
    ASSUME Inv4, Inv1', Tick \/ Consume \/ UNCHANGED vars
    PROVE  Few' /\ HasCome'
<1>1. /\ Inv1 /\ UNCHANGED <<row, batch, tasks>> /\ now' \in {now, now + 1}
      /\ faults' = faults \/ faults' = faults + 1
      /\ DOMAIN log' = DOMAIN log
      /\ \A i \in DOMAIN log : /\ log'[i].id = log[i].id /\ log'[i].call = log[i].call
                               /\ log'[i].at = log[i].at
    BY ConsumeMarks DEF Tick, vars, Inv4, Inv2
<1>2. ASSUME NEW r \in Reminder
      PROVE  FewTasks(r)'
    <2>1. About(r)' = About(r)
        BY <1>1, ToldStays
    <2>2. FewTasks(r) /\ Adding(r)' = Adding(r) /\ tasks'[r] = tasks[r]
        BY <1>1 DEF Adding, Inv4
    <2>3. QED BY <2>1, <2>2 DEF FewTasks
<1>3. ASSUME NEW r \in Reminder, NEW c \in Nat, NEW t \in Nat
      PROVE  FewTold(r, c, t)'
    <2>1. Told(r, c, t)' = Told(r, c, t)
        BY <1>1, ToldStays
    <2>2. /\ FewTold(r, c, t) /\ NextIs(r, c, t)' = NextIs(r, c, t)
          /\ ToTell(r, c, t)' = ToTell(r, c, t) /\ HasTold(r, c, t)' = HasTold(r, c, t)
        BY <1>1 DEF NextIs, ToTell, HasTold, Holds, Inv4
    <2>3. QED BY <1>1, <2>1, <2>2, FewStay
<1>4. HasCome'
    <2>1. now \in Nat /\ log \in Seq(Events)
        BY <1>1 DEF Inv1, TypeOK
    <2>2. ASSUME NEW i \in DOMAIN log' PROVE log'[i].at <= now'
        <3>1. i \in DOMAIN log /\ log'[i].at = log[i].at
            BY <1>1
        <3>2. log[i].at \in Nat /\ log[i].at <= now
            <4>1. log[i] \in Events
                BY <2>1, <3>1
            <4>2. QED BY <3>1, <4>1 DEF Events, Inv4, HasCome
        <3>3. QED BY <1>1, <2>1, <3>1, <3>2
    <2>3. ASSUME NEW u \in Scheduler, NEW r \in DOMAIN batch'[u]
          PROVE  batch'[u][r].at <= now'
        <3>1. r \in DOMAIN batch[u] /\ batch'[u][r].at = batch[u][r].at
            BY <1>1
        <3>2. batch[u][r].at \in Nat /\ batch[u][r].at <= now
            BY <1>1, <3>1, EntriesOfABatch DEF Inv1, Held, Inv4, HasCome
        <3>3. QED BY <1>1, <2>1, <3>1, <3>2
    <2>4. QED BY <2>2, <2>3 DEF HasCome
<1>5. QED BY <1>2, <1>3, <1>4 DEF Few

\* Every step stays within the bounds.
LEMMA FewHolds == Spec => []Inv4
<1>1. Init => Inv4
    <2> SUFFICES ASSUME Init, Inv2 PROVE Inv4
        BY Inv2Holds_Init
    <2>1. /\ Inv1 /\ (\A s \in Scheduler : DOMAIN batch[s] = {}) /\ DOMAIN log = {}
          /\ \A r \in Reminder : row[r] = NoRow /\ tasks[r] = 0
        BY DEF Init, Inv2
    <2>2. HasCome
        BY <2>1 DEF HasCome
    <2>3. ASSUME NEW r \in Reminder
          PROVE  FewTasks(r)
        <3>1. Adding(r) = {} /\ About(r) = {}
            BY <2>1 DEF Adding, About
        <3>2. QED BY <2>1, <3>1, FS_EmptySet DEF FewTasks
    <2>4. ASSUME NEW r \in Reminder, NEW c \in Nat, NEW t \in Nat
          PROVE  FewTold(r, c, t)
        <3>1. Told(r, c, t) = {} /\ ToTell(r, c, t) = {} /\ ~NextIs(r, c, t)
            BY <2>1 DEF Told, ToTell, Holds, NextIs
        <3>2. Cardinality(Scheduler) \in Nat /\ faults \in Nat
            BY <2>1, Countable
        <3>3. QED BY <3>1, <3>2, FS_EmptySet DEF FewTold
    <2>5. QED BY <2>2, <2>3, <2>4 DEF Inv4
<1>2. Inv4 /\ [Next]_vars => Inv4'
    <2> SUFFICES ASSUME Inv4, [Next]_vars PROVE Inv4'
        OBVIOUS
    <2>1. Inv1' /\ Inv2'
        BY Inv2Holds_Next DEF Inv4, Inv2
    <2>2. Few' /\ HasCome'
        <3>1. CASE Tick \/ Consume \/ UNCHANGED vars
            BY <2>1, <3>1, OthersFew
        <3>2. CASE \E r \in Reminder : Serve(r)
            BY <2>1, <3>2, ServeFew
        <3>3. CASE \E s \in Scheduler : ReadDue(s) \/ Restart(s)
            BY <2>1, <3>3, ReadFew, RestartFew
        <3>4. CASE \E s \in Scheduler, r \in Reminder : Fire(s, r)
            BY <2>1, <3>4, PublishFew, AddTaskFew, AdvanceFew DEF Fire
        <3>5. QED BY <3>1, <3>2, <3>3, <3>4 DEF Next
    <2>3. QED BY <2>1, <2>2 DEF Inv4, Few
<1>3. QED BY <1>1, <1>2, PTL DEF Spec

\* One time of a reminder is announced once for each scheduler, and again only
\* after a failure; a task is added only for an announcement.
THEOREM AnnouncedFewTimes == Spec => []NoRunaway
<1>1. Inv4 => NoRunaway
    <2> SUFFICES ASSUME Inv4, NEW r \in Reminder
                 PROVE  /\ \A i \in DOMAIN log : log[i].id = r =>
                             Cardinality({k \in Announced(r, log[i].call) : log[k].at = log[i].at})
                                <= Cardinality(Scheduler) + faults
                        /\ tasks[r] <= Cardinality({i \in DOMAIN log : log[i].id = r})
        BY DEF NoRunaway
    <2>1. Inv1
        BY DEF Inv4, Inv2
    <2>2. ASSUME NEW i \in DOMAIN log, log[i].id = r
          PROVE  Cardinality({k \in Announced(r, log[i].call) : log[k].at = log[i].at})
                    <= Cardinality(Scheduler) + faults
        <3> DEFINE c == log[i].call
                   t == log[i].at
        <3>1. {k \in Announced(r, c) : log[k].at = t} = Told(r, c, t)
            BY DEF Announced, Told
        <3>2. c \in Nat /\ t \in Nat
            <4>1. log[i] \in Events
                BY <2>1 DEF Inv1, TypeOK
            <4>2. QED BY <4>1 DEF Events
        <3> HIDE DEF c, t
        <3>3. /\ Cardinality(Told(r, c, t)) \in Nat /\ Cardinality(ToTell(r, c, t)) \in Nat
              /\ Cardinality(Scheduler) \in Nat /\ faults \in Nat
            BY <2>1, Countable
        <3>4. Cardinality(Told(r, c, t)) + Cardinality(ToTell(r, c, t))
                 <= Cardinality(Scheduler) + faults
            BY <3>2 DEF Inv4, FewTold
        <3>5. Cardinality(Told(r, c, t)) <= Cardinality(Scheduler) + faults
            BY <3>3, <3>4
        <3>6. QED BY <3>1, <3>5 DEF c, t
    <2>3. tasks[r] <= Cardinality({i \in DOMAIN log : log[i].id = r})
        <3>1. /\ Cardinality(Adding(r)) \in Nat /\ Cardinality(About(r)) \in Nat
              /\ tasks[r] \in Nat
            BY <2>1, Countable
        <3>2. tasks[r] <= Cardinality(About(r))
            BY <3>1 DEF Inv4, FewTasks
        <3>3. QED BY <3>2 DEF About
    <2>4. QED BY <2>2, <2>3
<1>2. QED BY <1>1, FewHolds, PTL

-----------------------------------------------------------------------------
\* The times of the schedules are those that the calendar names, whatever the
\* schedules, the moments and the time zones.
THEOREM TimesAreKept == Spec => []ScheduleIsKept
<1>1. ScheduleIsKept
    BY EveryScheduleIsKept DEF ScheduleIsKept
<1>2. QED BY <1>1, PTL

=============================================================================
