------------------------- MODULE VoiceAcceptProofs -------------------------
(***************************************************************************)
(* Proofs about VoiceAccept, for any number of messages, deliveries, notes  *)
(* and faults.  Everything but typing rests on the user's lock: between the *)
(* lookup of a row and its insert no other delivery and no button of the    *)
(* user runs.                                                               *)
(***************************************************************************)
EXTENDS VoiceAccept, TLAPS

\* Only the holder of the lock is past it, and it handles a message.
LockHeld ==
  \A h \in Handlers :
    /\ pc[h] # "idle" => msg[h] \in Messages
    /\ pc[h] \in {"find", "load", "send", "enqueue", "menu"} => holder = h

Inv == TypeOK /\ LockHeld

-----------------------------------------------------------------------------
(***************************************************************************)
(* What the helpers return.                                                 *)
(***************************************************************************)

\* GetContext returns a session whatever Redis does.
LEMMA LoadedType ==
  ASSUME TypeOK, NEW r
  PROVE  Loaded(r) \in Session
  BY DEF TypeOK, Loaded, Fresh, Session, States

\* What is in Redis after GetContext is a session, or nothing.
LEMMA StoredType ==
  ASSUME TypeOK, NEW r
  PROVE  Stored(r) \subseteq Session \cup {Missing}
  BY LoadedType DEF TypeOK, Stored, Fresh, Session, States

\* A session after any of the user's buttons is a session.
LEMMA ButtonType ==
  ASSUME NEW s \in Session, NEW f \in Files, NEW st \in States
  PROVE  /\ Open(s, f) \in Session
         /\ Enter(s, st) \in Session
         /\ Search(s) \in Session
         /\ AskAppend(s) \in Session
  BY DEF Open, Enter, Search, AskAppend, Session, States, Fresh

\* The destination of a message is one that a row can hold.
LEMMA DestinationType ==
  ASSUME NEW s \in Session
  PROVE  Destination(s) \in Row
  BY DEF Destination, Session, Row, States

\* A fault is counted, and nothing else is.
LEMMA ChargeType ==
  ASSUME TypeOK, NEW o, Charge(o)
  PROVE  faults' \in Nat /\ faults' >= faults /\ (o # "ok" => faults' = faults + 1)
  BY DEF TypeOK, Charge, Fault

\* An insert adds the row of its message if there is none, and leaves the rest.
LEMMA InsertedRow ==
  ASSUME TypeOK, NEW m \in Messages, NEW row \in Row
  PROVE  /\ Inserted(m, row) \in [Messages -> Row \cup {NoRow}]
         /\ Inserted(m, row)[m] # NoRow
         /\ \A n \in Messages : rows[n] # NoRow => Inserted(m, row)[n] = rows[n]
  BY AcceptAssumption DEF TypeOK, Inserted, Row

-----------------------------------------------------------------------------
(***************************************************************************)
(* Typing, together with the lock.                                          *)
(***************************************************************************)

\* Typing and the lock hold at the start.
LEMMA InitInv == Init => Inv
  BY AcceptAssumption
  DEF Init, Inv, TypeOK, LockHeld, Fresh, Session, States, Row, Places

\* A button of the user changes the session only.
LEMMA NavigateInv == Inv /\ Navigate => Inv'
<1> SUFFICES ASSUME Inv, Navigate PROVE Inv'
  OBVIOUS
<1>1. PICK r \in Reads :
        /\ Charge(r)
        /\ \/ session' \in Stored(r) \cup Stored("ok") /\ UNCHANGED chosen
           \/ \E f \in Files : Update(r, Open(Loaded(r), f), Open(chosen, f))
           \/ \E st \in Inputs \cup {"idle"} :
                Update(r, Enter(Loaded(r), st), Enter(chosen, st))
           \/ Update(r, Search(Loaded(r)), Search(chosen))
           \/ /\ Loaded("ok").relpath # NoFile
              /\ Update(r, Enter(Loaded(r), "append"), AskAppend(chosen))
  BY DEF Navigate
<1>2. Loaded(r) \in Session /\ chosen \in Session
  BY LoadedType DEF Inv, TypeOK
<1>3. session' \in Session \cup {Missing} /\ chosen' \in Session
  <2>1. \A s \in Session : /\ \A f \in Files : Open(s, f) \in Session
                           /\ \A st \in States : Enter(s, st) \in Session
                           /\ Search(s) \in Session
                           /\ AskAppend(s) \in Session
    BY DEF Open, Enter, Search, AskAppend, Session, States, Fresh
  <2>2. Inputs \cup {"idle"} \subseteq States /\ "append" \in States
    BY AcceptAssumption DEF States
  <2> QED
    BY <1>1, <1>2, <2>1, <2>2, StoredType DEF Update, Inv, TypeOK
<1>4. faults' \in Nat
  BY <1>1, ChargeType DEF Inv
<1> QED
  BY <1>3, <1>4 DEF Inv, TypeOK, LockHeld, Navigate, server

\* A delivery begins before the lock.
LEMMA DeliverInv ==
  ASSUME NEW h \in Handlers, NEW m \in Messages
  PROVE  Inv /\ Deliver(h, m) => Inv'
  BY DEF Inv, TypeOK, LockHeld, Deliver, Fault, Places

\* The lock is taken only when it is free.
LEMMA LockInv ==
  ASSUME NEW h \in Handlers
  PROVE  Inv /\ Lock(h) => Inv'
  BY AcceptAssumption DEF Inv, TypeOK, LockHeld, Lock, Goto, Places

\* A handler that found its row, or could not look, has released the lock.
LEMMA FindInv ==
  ASSUME NEW h \in Handlers
  PROVE  Inv /\ Find(h) => Inv'
  BY AcceptAssumption DEF Inv, TypeOK, LockHeld, Find, Finish, Goto, Fault, Places

\* The session is read under the lock.
LEMMA LoadInv ==
  ASSUME NEW h \in Handlers
  PROVE  Inv /\ Load(h) => Inv'
<1> SUFFICES ASSUME Inv, Load(h) PROVE Inv'
  OBVIOUS
<1>1. PICK r \in Reads :
        /\ Charge(r)
        /\ session' \in Stored(r)
        /\ uc' = [uc EXCEPT ![h] = Loaded(r)]
        /\ IF r = "failed" THEN Finish(h, "error") ELSE Goto(h, "send") /\ UNCHANGED holder
  BY DEF Load
<1>2. session' \in Session \cup {Missing} /\ uc' \in [Handlers -> Session]
  BY <1>1, LoadedType, StoredType DEF Inv, TypeOK
<1>3. faults' \in Nat
  BY <1>1, ChargeType DEF Inv
<1> QED
  BY <1>1, <1>2, <1>3, AcceptAssumption
  DEF Inv, TypeOK, LockHeld, Load, Finish, Goto, Places

\* A refusal ends the delivery.
LEMMA RefuseInv ==
  ASSUME NEW h \in Handlers
  PROVE  Inv /\ Refuse(h) => Inv'
<1> SUFFICES ASSUME Inv, Refuse(h) PROVE Inv'
  OBVIOUS
<1>1. PICK o \in Outcomes :
        /\ Charge(o)
        /\ refused' = IF Took(o) THEN refused \cup {msg[h]} ELSE refused
        /\ Finish(h, IF o = "ok" THEN "ok" ELSE "error")
  BY DEF Refuse
<1>2. faults' \in Nat
  BY <1>1, ChargeType DEF Inv
<1> QED
  BY <1>1, <1>2, AcceptAssumption DEF Inv, TypeOK, LockHeld, Refuse, Finish, Goto, Places

\* The status message is sent under the lock.
LEMMA SendStatusInv ==
  ASSUME NEW h \in Handlers
  PROVE  Inv /\ SendStatus(h) => Inv'
<1> SUFFICES ASSUME Inv, SendStatus(h) PROVE Inv'
  OBVIOUS
<1>1. PICK o \in Outcomes :
        /\ Charge(o)
        /\ sent' = IF Took(o) THEN [sent EXCEPT ![msg[h]] = @ + 1] ELSE sent
        /\ IF o = "ok" THEN Goto(h, "enqueue") /\ UNCHANGED holder ELSE Finish(h, "error")
  BY DEF SendStatus
<1>2. faults' \in Nat
  BY <1>1, ChargeType DEF Inv
<1>3. msg[h] \in Messages
  BY DEF Inv, LockHeld, SendStatus
<1>4. sent' \in [Messages -> Nat]
  BY <1>1, <1>3 DEF Inv, TypeOK
<1> QED
  BY <1>1, <1>2, <1>4, AcceptAssumption
  DEF Inv, TypeOK, LockHeld, SendStatus, Finish, Goto, Places

\* The row is inserted under the lock.
LEMMA EnqueueInv ==
  ASSUME NEW h \in Handlers
  PROVE  Inv /\ Enqueue(h) => Inv'
<1> SUFFICES ASSUME Inv, Enqueue(h) PROVE Inv'
  OBVIOUS
<1>1. PICK o \in Outcomes \cup {"late"} :
        /\ Charge(o)
        /\ rows' = IF Took(o) THEN Inserted(msg[h], Destination(uc[h])) ELSE rows
        /\ late' = IF o = "late" THEN late \cup {<<msg[h], Destination(uc[h])>>} ELSE late
        /\ IF Verdict(o) = "menu" THEN Goto(h, "menu") /\ UNCHANGED holder
           ELSE Finish(h, "error")
  BY DEF Enqueue
<1>2. faults' \in Nat
  BY <1>1, ChargeType DEF Inv
<1>3. msg[h] \in Messages /\ Destination(uc[h]) \in Row
  BY DestinationType DEF Inv, TypeOK, LockHeld, Enqueue
<1>4. rows' \in [Messages -> Row \cup {NoRow}]
  BY <1>1, <1>3, InsertedRow DEF Inv, TypeOK
<1>5. late' \subseteq Messages \X Row
  BY <1>1, <1>3 DEF Inv, TypeOK
<1> QED
  BY <1>1, <1>2, <1>4, <1>5, AcceptAssumption
  DEF Inv, TypeOK, LockHeld, Enqueue, Finish, Goto, Places

\* The menu ends the delivery.
LEMMA MenuInv ==
  ASSUME NEW h \in Handlers
  PROVE  Inv /\ Menu(h) => Inv'
<1> SUFFICES ASSUME Inv, Menu(h) PROVE Inv'
  OBVIOUS
<1>1. PICK shown \in 0..2 : menus' = [menus EXCEPT ![msg[h]] = @ + shown]
  BY DEF Menu
<1>0. msg[h] \in Messages /\ menus \in [Messages -> Nat]
  BY DEF Inv, TypeOK, LockHeld, Menu
<1>2. menus' \in [Messages -> Nat]
  <2>1. menus[msg[h]] + shown \in Nat
    BY <1>0, <1>1
  <2> QED
    BY <1>0, <1>1, <2>1
<1>3. faults' \in Nat
  BY DEF Inv, TypeOK, Menu, Fault
<1> QED
  BY <1>2, <1>3, AcceptAssumption DEF Inv, TypeOK, LockHeld, Menu, Finish, Goto, Places

\* An answer leaves the handler idle.
LEMMA RespondInv ==
  ASSUME NEW h \in Handlers
  PROVE  Inv /\ Respond(h) => Inv'
<1> SUFFICES ASSUME Inv, Respond(h) PROVE Inv'
  OBVIOUS
<1>1. acked' \subseteq Messages /\ faults' \in Nat
  BY DEF Inv, TypeOK, LockHeld, Respond, Fault
<1>2. uc' \in [Handlers -> Session]
  BY DEF Inv, TypeOK, Respond, Fresh, Session, States
<1> QED
  BY <1>1, <1>2, AcceptAssumption DEF Inv, TypeOK, LockHeld, Respond, Goto, Places

\* A late insert changes the table only.
LEMMA LandInv == Inv /\ Land => Inv'
<1> SUFFICES ASSUME Inv, Land PROVE Inv'
  OBVIOUS
<1>1. PICK x \in late : rows' = Inserted(x[1], x[2]) /\ late' = late \ {x}
  BY DEF Land
<1>2. x[1] \in Messages /\ x[2] \in Row
  BY DEF Inv, TypeOK
<1>3. rows' \in [Messages -> Row \cup {NoRow}]
  BY <1>1, <1>2, InsertedRow DEF Inv
<1> QED
  BY <1>1, <1>3 DEF Inv, TypeOK, LockHeld, Land, server

\* After a crash nobody handles anything.
LEMMA CrashInv == Inv /\ Crash => Inv'
  BY DEF Inv, TypeOK, LockHeld, Crash, Fault, Fresh, Session, States, Places

\* Every step keeps typing and the lock.
LEMMA NextInv == Inv /\ [Next]_vars => Inv'
<1> SUFFICES ASSUME Inv, [Next]_vars PROVE Inv'
  OBVIOUS
<1>1. CASE UNCHANGED vars
  BY <1>1 DEF Inv, TypeOK, LockHeld, vars
<1>2. CASE Next
  BY <1>2, NavigateInv, CrashInv, LandInv, DeliverInv, LockInv, FindInv, LoadInv,
     RefuseInv, SendStatusInv, EnqueueInv, MenuInv, RespondInv DEF Next, Handle
<1> QED
  BY <1>1, <1>2

\* The types of all variables hold always, and the user's lock excludes.
THEOREM AcceptTyping == Spec => []Inv
<1>1. Init => Inv
  BY InitInv
<1>2. Inv /\ [Next]_vars => Inv'
  BY NextInv
<1> QED
  BY <1>1, <1>2, PTL DEF Spec

\* Every value a variable takes is one of its type: TypeOK of the runs.
COROLLARY AcceptTypes == Spec => []TypeOK
<1>1. Inv => TypeOK
  BY DEF Inv
<1> QED
  BY <1>1, AcceptTyping, PTL

-----------------------------------------------------------------------------
(***************************************************************************)
(* The destination that is stored.                                          *)
(***************************************************************************)

\* A row that is there stays as it is, whatever step is taken: only Enqueue and
\* Land write rows, and both insert.
LEMMA RowsKept ==
  Inv /\ [Next]_vars => \A m \in Messages : rows[m] # NoRow => rows'[m] = rows[m]
<1> SUFFICES ASSUME Inv, [Next]_vars
             PROVE  \A m \in Messages : rows[m] # NoRow => rows'[m] = rows[m]
  OBVIOUS
<1>1. ASSUME NEW h \in Handlers, Enqueue(h)
      PROVE  \A m \in Messages : rows[m] # NoRow => rows'[m] = rows[m]
  <2>1. msg[h] \in Messages /\ Destination(uc[h]) \in Row
    BY <1>1, DestinationType DEF Inv, TypeOK, LockHeld, Enqueue
  <2>2. rows' = Inserted(msg[h], Destination(uc[h])) \/ rows' = rows
    BY <1>1 DEF Enqueue
  <2> QED
    BY <2>1, <2>2, InsertedRow DEF Inv
<1>2. ASSUME Land
      PROVE  \A m \in Messages : rows[m] # NoRow => rows'[m] = rows[m]
  <2>1. PICK x \in late : rows' = Inserted(x[1], x[2])
    BY <1>2 DEF Land
  <2>2. x[1] \in Messages /\ x[2] \in Row
    BY DEF Inv, TypeOK
  <2> QED
    BY <2>1, <2>2, InsertedRow DEF Inv
<1>3. (\E h \in Handlers : Enqueue(h)) \/ Land \/ UNCHANGED rows
  BY DEF Next, Handle, vars, Navigate, Crash, Deliver, Lock, Find, Load, Refuse,
     SendStatus, Menu, Respond
<1> QED
  BY <1>1, <1>2, <1>3

\* A repeated delivery, or an insert that arrives late, leaves the destination of
\* an accepted message alone.
THEOREM DestinationStays == Spec => DestinationKept
<1>1. Inv /\ [Next]_vars
      => [\A m \in Messages : rows[m] # NoRow => rows'[m] = rows[m]]_vars
  BY RowsKept
<1> QED
  BY <1>1, AcceptTyping, PTL DEF Spec, DestinationKept

\* What a handler has read is what Redis holds, as long as it holds the lock.
LEMMA SnapshotStep == Inv /\ SnapshotIsCurrent /\ [Next]_vars => SnapshotIsCurrent'
<1> SUFFICES ASSUME Inv, SnapshotIsCurrent, [Next]_vars PROVE SnapshotIsCurrent'
  OBVIOUS
<1>1. ASSUME Navigate PROVE SnapshotIsCurrent'
  <2>1. \A h \in Handlers : pc[h] \notin {"send", "enqueue"}
    BY <1>1, AcceptAssumption DEF Navigate, Inv, LockHeld
  <2> QED
    BY <1>1, <2>1 DEF Navigate, server, SnapshotIsCurrent
<1>2. ASSUME NEW h \in Handlers, Load(h) PROVE SnapshotIsCurrent'
  <2>1. PICK r \in Reads :
          /\ session' \in Stored(r)
          /\ uc' = [uc EXCEPT ![h] = Loaded(r)]
          /\ IF r = "failed" THEN Finish(h, "error") ELSE Goto(h, "send")
    BY <1>2 DEF Load
  <2>2. \A g \in Handlers \ {h} : pc[g] \notin {"send", "enqueue"} /\ pc'[g] = pc[g]
    BY <1>2, <2>1 DEF Load, Inv, TypeOK, LockHeld, Finish, Goto
  <2>3. pc'[h] \in {"send", "enqueue"} => uc'[h] = session'
    BY <2>1 DEF Inv, TypeOK, Stored, Finish, Goto
  <2> QED
    BY <2>2, <2>3 DEF SnapshotIsCurrent
<1>3. ASSUME NEW h \in Handlers,
             \/ Lock(h) \/ Find(h) \/ Refuse(h) \/ SendStatus(h) \/ Enqueue(h)
             \/ Menu(h) \/ \E m \in Messages : Deliver(h, m)
      PROVE  SnapshotIsCurrent'
  <2>1. UNCHANGED <<session, uc>>
    BY <1>3 DEF Lock, Find, Refuse, SendStatus, Enqueue, Menu, Deliver
  <2>2. \A g \in Handlers : pc'[g] \in {"send", "enqueue"} => pc[g] \in {"send", "enqueue"}
    BY <1>3 DEF Inv, TypeOK, Lock, Find, Refuse, SendStatus, Enqueue, Menu, Deliver, Finish, Goto
  <2> QED
    BY <2>1, <2>2 DEF SnapshotIsCurrent
<1>4. ASSUME NEW h \in Handlers, Respond(h) PROVE SnapshotIsCurrent'
  BY <1>4 DEF Respond, Goto, Inv, TypeOK, SnapshotIsCurrent
<1>5. ASSUME Land PROVE SnapshotIsCurrent'
  BY <1>5 DEF Land, server, SnapshotIsCurrent
<1>6. ASSUME Crash PROVE SnapshotIsCurrent'
  BY <1>6 DEF Crash, SnapshotIsCurrent
<1>7. ASSUME UNCHANGED vars PROVE SnapshotIsCurrent'
  BY <1>7 DEF vars, SnapshotIsCurrent
<1> QED
  BY <1>1, <1>2, <1>3, <1>4, <1>5, <1>6, <1>7 DEF Next, Handle

\* From the read of the session to the insert of the row, no button of the user
\* changes the session that the row is made from.
THEOREM SnapshotStaysCurrent == Spec => []SnapshotIsCurrent
<1>1. Init => SnapshotIsCurrent
  BY DEF Init, SnapshotIsCurrent
<1> QED
  BY <1>1, SnapshotStep, AcceptTyping, PTL DEF Spec

-----------------------------------------------------------------------------
(***************************************************************************)
(* What an acknowledgement means.                                           *)
(***************************************************************************)
Kept(m) == rows[m] # NoRow \/ m \in refused

\* A handler about to report success has stored the row or refused the message.
SuccessIsKept == \A h \in Handlers : pc[h] \in {"menu", "ok"} => Kept(msg[h])

AckInv == AckedIsKept /\ SuccessIsKept

\* No step makes a message that was kept one that is not.
LEMMA KeptStays == Inv /\ [Next]_vars => \A m \in Messages : Kept(m) => Kept(m)'
<1> SUFFICES ASSUME Inv, [Next]_vars, NEW m \in Messages, Kept(m) PROVE Kept(m)'
  OBVIOUS
<1>1. rows[m] # NoRow => rows'[m] # NoRow
  BY RowsKept
<1>2. refused \subseteq refused'
  BY DEF Next, Handle, vars, Navigate, Crash, Land, server, Deliver, Lock, Find, Load,
     Refuse, SendStatus, Enqueue, Menu, Respond
<1> QED
  BY <1>1, <1>2 DEF Kept

\* A handler reaches its success only with the message kept.
LEMMA SuccessStep ==
  ASSUME Inv, AckInv, [Next]_vars, NEW h \in Handlers, pc'[h] \in {"menu", "ok"}
  PROVE  Kept(msg[h])' /\ msg'[h] = msg[h] /\ msg[h] \in Messages
<1>1. CASE \E m \in Messages : Find(h) \/ Refuse(h) \/ Menu(h)
  BY <1>1 DEF Inv, TypeOK, LockHeld, AckInv, SuccessIsKept, Kept, Find, Refuse, Menu,
     Finish, Goto, Took
<1>2. CASE Enqueue(h)
  <2>1. msg[h] \in Messages /\ Destination(uc[h]) \in Row
    BY <1>2, DestinationType DEF Inv, TypeOK, LockHeld, Enqueue
  <2>2. PICK o \in Outcomes \cup {"late"} :
          /\ rows' = IF Took(o) THEN Inserted(msg[h], Destination(uc[h])) ELSE rows
          /\ IF Verdict(o) = "menu" THEN Goto(h, "menu") /\ UNCHANGED holder
             ELSE Finish(h, "error")
    BY <1>2 DEF Enqueue
  <2>3. o = "ok"
    BY <2>2 DEF Verdict, Finish, Goto, Inv, TypeOK
  <2> QED
    BY <1>2, <2>1, <2>2, <2>3, InsertedRow DEF Inv, Took, Kept, Enqueue
<1>3. CASE pc'[h] = pc[h] /\ msg'[h] = msg[h]
  <2>1. msg[h] \in Messages /\ Kept(msg[h])
    BY <1>3 DEF Inv, LockHeld, AckInv, SuccessIsKept
  <2> QED
    BY <1>3, <2>1, KeptStays
<1>4. \/ Find(h) \/ Refuse(h) \/ Menu(h) \/ Enqueue(h)
      \/ pc'[h] = pc[h] /\ msg'[h] = msg[h]
  BY DEF Inv, TypeOK, Next, Handle, vars, Navigate, Crash, Land, server, Deliver, Lock,
     Find, Load, Refuse, SendStatus, Enqueue, Menu, Respond, Finish, Goto
<1> QED
  BY <1>1, <1>2, <1>3, <1>4 DEF Inv, LockHeld, Find, Refuse, Menu

\* AckInv is kept by every step.
LEMMA AckStep == Inv /\ AckInv /\ [Next]_vars => AckInv'
<1> SUFFICES ASSUME Inv, AckInv, [Next]_vars PROVE AckInv'
  OBVIOUS
<1>1. SuccessIsKept'
  BY SuccessStep DEF SuccessIsKept, Kept
<1>2. ASSUME NEW m \in acked' PROVE Kept(m)'
  <2>1. CASE m \in acked
    BY <2>1, KeptStays DEF Inv, TypeOK, AckInv, AckedIsKept, Kept
  <2>2. CASE m \notin acked
    <3>1. PICK h \in Handlers : Respond(h)
      BY <1>2, <2>2 DEF Next, Handle, vars, Navigate, Crash, Land, server, Deliver, Lock,
         Find, Load, Refuse, SendStatus, Enqueue, Menu
    <3>2. pc[h] = "ok" /\ m = msg[h] /\ m \in Messages
      BY <1>2, <2>2, <3>1 DEF Respond, Inv, LockHeld
    <3> QED
      BY <3>2, KeptStays DEF AckInv, SuccessIsKept, Kept
  <2> QED
    BY <2>1, <2>2
<1> QED
  BY <1>1, <1>2 DEF AckInv, AckedIsKept, Kept

\* An update that Telegram will not offer again has its job in the table, or the
\* user was told why not.
THEOREM AckedStaysKept == Spec => []AckedIsKept
<1>1. Init => AckInv
  BY DEF Init, AckInv, AckedIsKept, SuccessIsKept
<1>2. AckInv => AckedIsKept
  BY DEF AckInv
<1> QED
  BY <1>1, <1>2, AckStep, AcceptTyping, PTL DEF Spec

-----------------------------------------------------------------------------
(***************************************************************************)
(* How often a message is answered.  A status message without a row has     *)
(* cost a fault, unless its handler is just about to insert the row; and a  *)
(* handler that found no row has the message to itself.                     *)
(***************************************************************************)
Inserting(m) == \E h \in Handlers : pc[h] = "enqueue" /\ msg[h] = m

SentCounted ==
  /\ \A m \in Messages :
       /\ sent[m] <= 1 + faults
       /\ rows[m] = NoRow /\ ~Inserting(m) => sent[m] <= faults
  /\ \A h \in Handlers : pc[h] \in {"load", "send"} => sent[msg[h]] <= faults

MenuCounted ==
  /\ \A m \in Messages : menus[m] <= 2 /\ (rows[m] = NoRow => menus[m] = 0)
  /\ \A h \in Handlers :
       /\ pc[h] \in {"load", "send", "enqueue", "menu"} => menus[msg[h]] = 0
       /\ pc[h] = "menu" => rows[msg[h]] # NoRow

Counted ==
  SentCounted /\ MenuCounted /\ \A m \in Messages : sent[m] + menus[m] <= 2 + faults

\* Faults are only added.
LEMMA FaultsGrow == Inv /\ [Next]_vars => faults' \in Nat /\ faults' >= faults
<1> SUFFICES ASSUME Inv, [Next]_vars PROVE faults' \in Nat /\ faults' >= faults
  OBVIOUS
<1>1. \/ \E o \in Reads \cup Outcomes \cup {"late"} : Charge(o)
      \/ Fault
      \/ UNCHANGED faults
  BY DEF Next, Handle, vars, Navigate, Crash, Land, Deliver, Lock, Find, Load, Refuse,
     SendStatus, Enqueue, Menu, Respond
<1> QED
  BY <1>1, ChargeType DEF Inv, TypeOK, Fault

\* SentCounted is kept by every step.
LEMMA SentStep == Inv /\ SentCounted /\ [Next]_vars => SentCounted'
<1> SUFFICES ASSUME Inv, SentCounted, [Next]_vars PROVE SentCounted'
  OBVIOUS
<1>1. faults' \in Nat /\ faults' >= faults /\ faults \in Nat
  BY FaultsGrow DEF Inv, TypeOK
<1>2. sent \in [Messages -> Nat] /\ pc \in [Handlers -> Places]
      /\ msg \in [Handlers -> Messages \cup {NoMessage}]
  BY DEF Inv, TypeOK
<1>3. \A m \in Messages : rows'[m] = NoRow => rows[m] = NoRow
  BY RowsKept
<1>4. ASSUME NEW h \in Handlers, SendStatus(h) PROVE SentCounted'
  <2>1. PICK o \in Outcomes :
          /\ Charge(o)
          /\ sent' = IF Took(o) THEN [sent EXCEPT ![msg[h]] = @ + 1] ELSE sent
          /\ IF o = "ok" THEN Goto(h, "enqueue") ELSE Finish(h, "error")
    BY <1>4 DEF SendStatus
  <2>2. msg[h] \in Messages /\ sent[msg[h]] <= faults /\ UNCHANGED <<rows, msg>>
    BY <1>4 DEF SendStatus, Inv, LockHeld, SentCounted
  <2>3. \A g \in Handlers \ {h} :
          pc'[g] = pc[g] /\ pc[g] \notin {"load", "send", "enqueue"}
    BY <1>4, <2>1, <1>2 DEF SendStatus, Inv, LockHeld, Finish, Goto
  <2>4. pc'[h] = IF o = "ok" THEN "enqueue" ELSE "error"
    BY <2>1, <1>2 DEF Finish, Goto
  <2>5. o # "ok" => faults' = faults + 1
    BY <2>1, ChargeType DEF Inv
  <2>6. \A m \in Messages : sent'[m] = IF Took(o) /\ m = msg[h] THEN sent[m] + 1 ELSE sent[m]
    BY <2>1, <2>2, <1>2
  <2>7. ASSUME NEW m \in Messages
        PROVE  /\ sent'[m] <= 1 + faults'
               /\ rows'[m] = NoRow /\ ~Inserting(m)' => sent'[m] <= faults'
    <3>1. CASE m = msg[h]
      BY <3>1, <1>1, <1>2, <2>2, <2>4, <2>5, <2>6 DEF Inserting
    <3>2. CASE m # msg[h]
      <4>1. sent'[m] = sent[m] /\ (Inserting(m) => Inserting(m)')
        BY <3>2, <2>2, <2>3, <2>6, <1>4 DEF Inserting, SendStatus
      <4> QED
        BY <4>1, <1>1, <1>2, <2>2 DEF SentCounted
    <3> QED
      BY <3>1, <3>2
  <2> QED
    BY <2>3, <2>4, <2>7 DEF SentCounted
<1>5. ASSUME NEW h \in Handlers, Enqueue(h) PROVE SentCounted'
  <2>1. PICK o \in Outcomes \cup {"late"} :
          /\ Charge(o)
          /\ rows' = IF Took(o) THEN Inserted(msg[h], Destination(uc[h])) ELSE rows
          /\ IF Verdict(o) = "menu" THEN Goto(h, "menu") ELSE Finish(h, "error")
    BY <1>5 DEF Enqueue
  <2>2. /\ msg[h] \in Messages /\ Destination(uc[h]) \in Row
        /\ UNCHANGED <<sent, msg>>
    BY <1>5, DestinationType DEF Inv, TypeOK, LockHeld, Enqueue
  <2>3. \A g \in Handlers : g # h => pc'[g] = pc[g]
    BY <2>1, <1>2 DEF Finish, Goto
  <2>4. pc'[h] \in {"menu", "error"} /\ pc[h] = "enqueue"
    BY <2>1, <1>2, <1>5 DEF Finish, Goto, Enqueue
  <2>5. o = "ok" \/ faults' = faults + 1
    BY <2>1, ChargeType DEF Inv
  <2>6. o = "ok" => rows'[msg[h]] # NoRow
    BY <2>1, <2>2, InsertedRow DEF Inv, Took
  <2>7. ASSUME NEW m \in Messages
        PROVE  /\ sent'[m] <= 1 + faults'
               /\ rows'[m] = NoRow /\ ~Inserting(m)' => sent'[m] <= faults'
    <3>1. CASE m = msg[h]
      BY <3>1, <1>1, <1>2, <2>2, <2>5, <2>6 DEF SentCounted
    <3>2. CASE m # msg[h]
      <4>1. Inserting(m) => Inserting(m)'
        BY <3>2, <2>2, <2>3 DEF Inserting
      <4> QED
        BY <4>1, <1>1, <1>2, <1>3, <2>2 DEF SentCounted
    <3> QED
      BY <3>1, <3>2
  <2>8. ASSUME NEW g \in Handlers, pc'[g] \in {"load", "send"}
        PROVE  sent'[msg'[g]] <= faults'
    <3>1. g # h /\ pc[g] \in {"load", "send"} /\ msg[g] \in Messages
      BY <2>3, <2>4, <2>8 DEF Inv, LockHeld
    <3> QED
      BY <3>1, <2>2, <1>1, <1>2 DEF SentCounted
  <2> QED
    BY <2>7, <2>8 DEF SentCounted
<1>6. ASSUME NEW h \in Handlers, Find(h) PROVE SentCounted'
  <2>1. /\ UNCHANGED <<rows, sent, msg>>
        /\ pc'[h] \in {"ok", "load", "error"} /\ pc[h] = "find"
        /\ pc'[h] = "load" => rows[msg[h]] = NoRow
        /\ \A g \in Handlers : g # h => pc'[g] = pc[g]
    BY <1>6, <1>2 DEF Find, Finish, Goto
  <2>2. \A m \in Messages : Inserting(m) <=> Inserting(m)'
    BY <2>1 DEF Inserting
  <2>3. msg[h] \in Messages /\ ~Inserting(msg[h])
    BY <2>1 DEF Inv, LockHeld, Inserting
  <2>4. \A g \in Handlers : pc'[g] \in {"load", "send"} => sent[msg[g]] <= faults
    BY <2>1, <2>3 DEF SentCounted
  <2>5. \A g \in Handlers : pc'[g] \in {"load", "send"} => msg[g] \in Messages
    BY <2>1, <2>3 DEF Inv, LockHeld
  <2> QED
    BY <2>1, <2>2, <2>4, <2>5, <1>1, <1>2 DEF SentCounted
<1>7. ASSUME /\ UNCHANGED sent
             /\ \A g \in Handlers : pc'[g] \in {"load", "send"}
                                      => pc[g] \in {"load", "send"} /\ msg'[g] = msg[g]
             /\ \A m \in Messages : Inserting(m) => Inserting(m)' \/ faults' = faults + 1
      PROVE  SentCounted'
  <2>1. \A g \in Handlers : pc[g] \in {"load", "send"} => msg[g] \in Messages
    BY DEF Inv, LockHeld
  <2> QED
    BY <1>1, <1>2, <1>3, <1>7, <2>1 DEF SentCounted
<1>8. ASSUME NEW h \in Handlers,
             \/ Lock(h) \/ Load(h) \/ Refuse(h) \/ Menu(h) \/ Respond(h)
             \/ \E m \in Messages : Deliver(h, m)
      PROVE  SentCounted'
  <2>1. UNCHANGED sent
    BY <1>8 DEF Lock, Load, Refuse, Menu, Respond, Deliver
  <2>2. /\ pc[h] # "enqueue"
        /\ \A g \in Handlers : g # h => pc'[g] = pc[g] /\ msg'[g] = msg[g]
        /\ pc'[h] \in {"load", "send"} => pc[h] = "load" /\ msg'[h] = msg[h]
    BY <1>8, <1>2 DEF Lock, Load, Refuse, Menu, Respond, Deliver, Finish, Goto
  <2>3. \A m \in Messages : Inserting(m) => Inserting(m)'
    BY <2>2 DEF Inserting
  <2> QED
    BY <1>7, <2>1, <2>2, <2>3
<1>9. ASSUME Crash PROVE SentCounted'
  <2>1. UNCHANGED sent /\ faults' = faults + 1 /\ \A g \in Handlers : pc'[g] = "idle"
    BY <1>9 DEF Crash, Fault
  <2> QED
    BY <1>7, <2>1
<1>10. ASSUME Navigate \/ Land \/ UNCHANGED vars PROVE SentCounted'
  <2>1. UNCHANGED <<sent, pc, msg>>
    BY <1>10 DEF Navigate, Land, vars, server
  <2> QED
    BY <1>7, <2>1 DEF Inserting
<1> QED
  BY <1>4, <1>5, <1>6, <1>8, <1>9, <1>10 DEF Next, Handle

\* MenuCounted is kept by every step.
LEMMA MenuStep == Inv /\ MenuCounted /\ [Next]_vars => MenuCounted'
<1> SUFFICES ASSUME Inv, MenuCounted, [Next]_vars PROVE MenuCounted'
  OBVIOUS
<1> DEFINE Past == {"load", "send", "enqueue", "menu"}
<1>1. /\ menus \in [Messages -> Nat] /\ pc \in [Handlers -> Places]
      /\ \A g \in Handlers : pc[g] \in Past => msg[g] \in Messages
  BY DEF Inv, TypeOK, LockHeld
<1>2. \A m \in Messages : rows'[m] = NoRow => rows[m] = NoRow
  BY RowsKept
<1>3. ASSUME NEW h \in Handlers, Menu(h) PROVE MenuCounted'
  <2>1. /\ \E shown \in 0..2 : menus' = [menus EXCEPT ![msg[h]] = @ + shown]
        /\ pc[h] = "menu" /\ pc'[h] = "ok" /\ UNCHANGED <<rows, msg>>
    BY <1>3, <1>1 DEF Menu, Finish, Goto
  <2>2. msg[h] \in Messages /\ menus[msg[h]] = 0 /\ rows[msg[h]] # NoRow
    BY <2>1, <1>1 DEF MenuCounted
  <2>3. \A g \in Handlers : pc'[g] \notin Past
    BY <1>3, <1>1 DEF Menu, Finish, Goto, Inv, LockHeld
  <2>4. \A m \in Messages : menus'[m] <= 2 /\ (rows'[m] = NoRow => menus'[m] = 0)
    BY <2>1, <2>2, <1>1 DEF MenuCounted
  <2> QED
    BY <2>3, <2>4 DEF MenuCounted
<1>4. ASSUME NEW h \in Handlers, Find(h) PROVE MenuCounted'
  <2>1. /\ UNCHANGED <<rows, menus, msg>>
        /\ pc'[h] \in {"ok", "load", "error"} /\ pc[h] = "find"
        /\ pc'[h] = "load" => rows[msg[h]] = NoRow
        /\ \A g \in Handlers : g # h => pc'[g] = pc[g]
    BY <1>4, <1>1 DEF Find, Finish, Goto
  <2>2. msg[h] \in Messages
    BY <2>1 DEF Inv, LockHeld
  <2> QED
    BY <2>1, <2>2 DEF MenuCounted
<1>5. ASSUME NEW h \in Handlers, Enqueue(h) PROVE MenuCounted'
  <2>1. /\ UNCHANGED <<menus, msg>>
        /\ pc'[h] \in {"menu", "error"} /\ pc[h] = "enqueue"
        /\ \A g \in Handlers : g # h => pc'[g] = pc[g] /\ pc'[g] \notin Past
    BY <1>5, <1>1 DEF Enqueue, Finish, Goto, Inv, LockHeld
  <2>2. pc'[h] = "menu" => rows'[msg[h]] # NoRow
    <3>1. PICK o \in Outcomes \cup {"late"} :
            /\ rows' = IF Took(o) THEN Inserted(msg[h], Destination(uc[h])) ELSE rows
            /\ IF Verdict(o) = "menu" THEN Goto(h, "menu") /\ UNCHANGED holder
               ELSE Finish(h, "error")
      BY <1>5 DEF Enqueue
    <3>2. Destination(uc[h]) \in Row
      BY DestinationType DEF Inv, TypeOK
    <3> QED
      BY <3>1, <3>2, <1>1, <2>1, InsertedRow DEF Verdict, Finish, Goto, Inv, Took
  <2> QED
    BY <2>1, <2>2, <1>2 DEF MenuCounted
<1>6. ASSUME /\ UNCHANGED menus
             /\ \A g \in Handlers : pc'[g] \in Past
                                    => /\ pc[g] \in Past /\ msg'[g] = msg[g]
                                       /\ pc'[g] = "menu" => pc[g] = "menu"
      PROVE  MenuCounted'
  BY <1>1, <1>2, <1>6 DEF MenuCounted
<1>7. ASSUME NEW h \in Handlers,
             \/ Lock(h) \/ Load(h) \/ SendStatus(h) \/ Refuse(h) \/ Respond(h)
             \/ \E m \in Messages : Deliver(h, m)
      PROVE  MenuCounted'
  <2>1. UNCHANGED menus
    BY <1>7 DEF Lock, Load, SendStatus, Refuse, Respond, Deliver
  <2>2. CASE Load(h) \/ SendStatus(h)
    <3>1. pc[h] \in Past /\ msg' = msg
      BY <2>2 DEF Load, SendStatus
    <3>2. pc'[h] # "menu" /\ \A g \in Handlers : g # h => pc'[g] = pc[g]
      BY <2>2, <1>1 DEF Load, SendStatus, Finish, Goto
    <3> QED
      BY <1>6, <2>1, <3>1, <3>2
  <2>3. CASE Lock(h) \/ Refuse(h)
    <3>1. pc'[h] \notin Past /\ msg' = msg /\ \A g \in Handlers : g # h => pc'[g] = pc[g]
      BY <2>3, <1>1 DEF Lock, Refuse, Finish, Goto
    <3> QED
      BY <1>6, <2>1, <3>1
  <2>4. CASE Respond(h) \/ \E m \in Messages : Deliver(h, m)
    <3>1. pc'[h] \notin Past /\ \A g \in Handlers : g # h => pc'[g] = pc[g]
      BY <2>4, <1>1 DEF Respond, Deliver, Goto
    <3>2. \A g \in Handlers : g # h => msg'[g] = msg[g]
      BY <2>4 DEF Respond, Deliver, Inv, TypeOK
    <3> QED
      BY <1>6, <2>1, <3>1, <3>2
  <2> QED
    BY <1>7, <2>2, <2>3, <2>4
<1>8. ASSUME Crash PROVE MenuCounted'
  BY <1>6, <1>8 DEF Crash
<1>9. ASSUME Navigate \/ Land \/ UNCHANGED vars PROVE MenuCounted'
  BY <1>6, <1>9 DEF Navigate, Land, vars, server
<1> QED
  BY <1>3, <1>4, <1>5, <1>7, <1>8, <1>9 DEF Next, Handle

\* So is their sum: a status message is sent before there is a menu, and a second
\* menu costs a fault.
LEMMA CountedStep == Inv /\ Counted /\ [Next]_vars => Counted'
<1> SUFFICES ASSUME Inv, Counted, [Next]_vars PROVE Counted'
  OBVIOUS
<1>1. SentCounted' /\ MenuCounted'
  BY SentStep, MenuStep DEF Counted
<1>2. faults' \in Nat /\ faults' >= faults /\ faults \in Nat
  BY FaultsGrow DEF Inv, TypeOK
<1>3. sent \in [Messages -> Nat] /\ menus \in [Messages -> Nat]
  BY DEF Inv, TypeOK
<1> SUFFICES ASSUME NEW m \in Messages PROVE sent'[m] + menus'[m] <= 2 + faults'
  BY <1>1 DEF Counted
<1>4. CASE UNCHANGED <<sent, menus>>
  BY <1>2, <1>3, <1>4 DEF Counted
<1>5. ASSUME NEW h \in Handlers, SendStatus(h)
      PROVE  sent'[m] + menus'[m] <= 2 + faults'
  <2>1. /\ msg[h] \in Messages /\ menus[msg[h]] = 0 /\ menus' = menus
        /\ sent' \in {sent, [sent EXCEPT ![msg[h]] = @ + 1]}
    BY <1>5 DEF SendStatus, Inv, LockHeld, Counted, MenuCounted
  <2>2. sent'[m] <= 1 + faults' /\ sent'[m] \in Nat
    BY <1>1, <1>3, <2>1 DEF SentCounted
  <2>3. CASE m = msg[h]
    BY <1>2, <2>1, <2>2, <2>3
  <2>4. CASE m # msg[h]
    BY <1>2, <1>3, <2>1, <2>4 DEF Counted
  <2> QED
    BY <2>3, <2>4
<1>6. ASSUME NEW h \in Handlers, Menu(h)
      PROVE  sent'[m] + menus'[m] <= 2 + faults'
  <2>1. /\ msg[h] \in Messages /\ menus[msg[h]] = 0 /\ sent' = sent
        /\ sent[msg[h]] <= 1 + faults
    BY <1>6 DEF Menu, Inv, LockHeld, Counted, MenuCounted, SentCounted
  <2>2. PICK shown \in 0..2 :
          /\ menus' = [menus EXCEPT ![msg[h]] = @ + shown]
          /\ shown = 2 => faults' = faults + 1
    BY <1>6 DEF Menu, Fault
  <2>3. CASE m = msg[h]
    BY <1>2, <1>3, <2>1, <2>2, <2>3
  <2>4. CASE m # msg[h]
    BY <1>2, <1>3, <2>1, <2>2, <2>4 DEF Counted
  <2> QED
    BY <2>3, <2>4
<1>7. \/ UNCHANGED <<sent, menus>>
      \/ \E h \in Handlers : SendStatus(h) \/ Menu(h)
  BY DEF Next, Handle, vars, Navigate, Crash, Land, Deliver, Lock, Find, Load, Refuse,
     Enqueue, Respond
<1> QED
  BY <1>4, <1>5, <1>6, <1>7

\* However often and concurrently its update is delivered, a voice message gets
\* one status message and one menu, and one more of them for a fault at most.
THEOREM AnsweredAtMostOnce == Spec => []AnsweredOnce
<1>1. Init => Counted
  BY DEF Init, SentCounted, MenuCounted, Counted
<1>2. Counted => AnsweredOnce
  BY DEF Counted, MenuCounted, AnsweredOnce
<1> QED
  BY <1>1, <1>2, CountedStep, AcceptTyping, PTL DEF Spec

=============================================================================
