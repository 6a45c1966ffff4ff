---------------------------- MODULE VoiceAccept ----------------------------
(***************************************************************************)
(* Acceptance of voice messages: AcceptVoice (voice_durable.go), run by the *)
(* webhook's HTTP handlers or by the polling loop of cmd/telegram/main.go,  *)
(* against the user's session in Redis (tgstates/manager.go) and the table  *)
(* voice_jobs.                                                              *)
(*                                                                          *)
(* The job must be stored before Telegram is told that the update was       *)
(* received, and it stores where the text will go: the session the user has *)
(* navigated to.  Telegram offers an update again until it is acknowledged, *)
(* also while an earlier delivery of it is still being handled.             *)
(***************************************************************************)
EXTENDS Naturals, FiniteSets

CONSTANTS
  Messages,   \* voice messages of one user, in one chat
  Handlers,   \* concurrent deliveries: one when polling
  Files,      \* notes that can be opened
  Inputs,     \* the inputs for a language model that the user opens
  NoFile,     \* active_relpath is empty
  Missing,    \* Redis has no session yet
  NoRow,      \* voice_jobs has no row for the message
  NoMessage,
  NoHandler,
  FlakyReads, \* a Redis read may fail and the write after it succeed
  MaxFaults

ASSUME AcceptAssumption ==
  /\ NoFile \notin Files
  /\ Inputs \subseteq {"smart", "reminder"}
  /\ NoMessage \notin Messages
  /\ NoHandler \notin Handlers
  /\ NoRow \notin [mode : {"note", "smart", "reminder"}, relpath : Files \cup {NoFile}]
  /\ FlakyReads \in BOOLEAN
  /\ MaxFaults \in Nat

VARIABLES
  session,  \* what Redis holds: the state and the open note
  chosen,   \* history: what the user's stored choices add up to
  rows,     \* voice_jobs: where the text of each accepted message will go
  sent,     \* status messages sent for each voice message
  late,     \* inserts given up by their client that the server still has
  menus,    \* menus sent after its acceptance
  acked,    \* updates that Telegram will not offer again
  refused,  \* messages answered "open a note first"
  holder,   \* the handler that holds the user's lock
  pc, msg,  \* where each handler stands, and with which message
  uc,       \* the session it has read
  faults

server == <<holder, pc, msg, uc>>
vars   == <<session, chosen, rows, late, sent, menus, acked, refused,
            holder, pc, msg, uc, faults>>

States   == {"idle", "view", "append", "smart", "reminder"}
Session  == [state : States, relpath : Files \cup {NoFile}]
Row      == [mode : {"note", "smart", "reminder"}, relpath : Files \cup {NoFile}]
Places   == {"idle", "lock", "find", "load", "send", "enqueue", "menu", "ok", "error"}

\* GetContext makes this one when it finds none.
Fresh == [state |-> "idle", relpath |-> NoFile]

TypeOK ==
  /\ session \in Session \cup {Missing}
  /\ chosen \in Session
  /\ rows \in [Messages -> Row \cup {NoRow}]
  /\ late \subseteq Messages \X Row
  /\ sent \in [Messages -> Nat]
  /\ menus \in [Messages -> Nat]
  /\ acked \subseteq Messages
  /\ refused \subseteq Messages
  /\ holder \in Handlers \cup {NoHandler}
  /\ pc \in [Handlers -> Places]
  /\ msg \in [Handlers -> Messages \cup {NoMessage}]
  /\ uc \in [Handlers -> Session]
  /\ faults \in Nat

Init ==
  /\ session \in {Missing, Fresh}
  /\ chosen = Fresh
  /\ rows = [m \in Messages |-> NoRow]
  /\ late = {}
  /\ sent = [m \in Messages |-> 0]
  /\ menus = [m \in Messages |-> 0]
  /\ acked = {}
  /\ refused = {}
  /\ holder = NoHandler
  /\ pc = [h \in Handlers |-> "idle"]
  /\ msg = [h \in Handlers |-> NoMessage]
  /\ uc = [h \in Handlers |-> Fresh]
  /\ faults = 0

Fault == faults < MaxFaults /\ faults' = faults + 1

\* A call is "ok", has "failed", or was done but its reply is "lost".
Outcomes  == {"ok", "failed", "lost"}
Charge(o) == IF o = "ok" THEN UNCHANGED faults ELSE Fault
Took(o)   == o \in {"ok", "lost"}

-----------------------------------------------------------------------------
(***************************************************************************)
(* The session.  GetContext cannot tell an unreadable session from a missing *)
(* one: it makes a fresh one and stores that.  The read is "ok"; or the      *)
(* write of a fresh session fails too, or loses its reply ("failed"); or the *)
(* read failed and the write did not ("misread").                            *)
(***************************************************************************)
Reads == {"ok", "failed"} \cup (IF FlakyReads THEN {"misread"} ELSE {})

Loaded(r) == IF r = "ok" /\ session # Missing THEN session ELSE Fresh

\* What Redis may hold afterwards.
Stored(r) ==
  IF r = "failed"
  THEN {session} \cup (IF FlakyReads \/ session = Missing THEN {Fresh} ELSE {})
  ELSE {Loaded(r)}

\* What the user's buttons do to a session: open a note, choose an input or go
\* elsewhere ("idle" stands for every state in which a text goes to the day's
\* note), start a search, ask to append to the open note.
Open(s, f)   == [s EXCEPT !.state = "view", !.relpath = f]
Enter(s, st) == [s EXCEPT !.state = st]
Search(s)    == Fresh
AskAppend(s) == IF s.relpath = NoFile THEN s ELSE Enter(s, "append")

\* UpdateContext, called by the handler of a button under the user's lock: it
\* reads the session, changes and stores it.
Update(r, s, c) == r # "failed" /\ session' = s /\ chosen' = c

\* A button that only reads, or whose write fails (the error is only logged);
\* or one that changes the session.  The append button reads twice: to see that
\* a note is open, and to change the state.
Navigate ==
  /\ holder = NoHandler
  /\ \E r \in Reads :
       /\ Charge(r)
       /\ \/ session' \in Stored(r) \cup Stored("ok") /\ UNCHANGED chosen
          \/ \E f \in Files : Update(r, Open(Loaded(r), f), Open(chosen, f))
          \/ \E st \in Inputs \cup {"idle"} :
               Update(r, Enter(Loaded(r), st), Enter(chosen, st))
          \/ Update(r, Search(Loaded(r)), Search(chosen))
          \/ /\ Loaded("ok").relpath # NoFile
             /\ Update(r, Enter(Loaded(r), "append"), AskAppend(chosen))
  /\ UNCHANGED <<rows, late, sent, menus, acked, refused, server>>

-----------------------------------------------------------------------------
(***************************************************************************)
(* One delivery of an update.                                               *)
(***************************************************************************)
Busy(m) == \E h \in Handlers : pc[h] # "idle" /\ msg[h] = m

\* Telegram offers the update; a second time while the first is being handled
\* only after a timeout.
Deliver(h, m) ==
  /\ pc[h] = "idle"
  /\ m \notin acked
  /\ IF Busy(m) THEN Fault ELSE UNCHANGED faults
  /\ pc' = [pc EXCEPT ![h] = "lock"]
  /\ msg' = [msg EXCEPT ![h] = m]
  /\ UNCHANGED <<session, chosen, rows, late, sent, menus, acked, refused, holder, uc>>

Goto(h, place) == pc' = [pc EXCEPT ![h] = place]

\* Mutant: an error keeps the lock.
Finish_KeepsLock(h, place) ==
  Goto(h, place) /\ holder' = IF place = "ok" THEN NoHandler ELSE holder

\* AcceptVoice returns, and its deferred unlock runs.
Finish(h, place) == Goto(h, place) /\ holder' = NoHandler

\* Mutant: the lock excludes nobody.
Lock_Shared(h) ==
  /\ pc[h] = "lock"
  /\ holder' = h
  /\ Goto(h, "find")
  /\ UNCHANGED <<session, chosen, rows, late, sent, menus, acked, refused, msg, uc, faults>>

Lock(h) ==
  /\ pc[h] = "lock"
  /\ holder = NoHandler
  /\ holder' = h
  /\ Goto(h, "find")
  /\ UNCHANGED <<session, chosen, rows, late, sent, menus, acked, refused, msg, uc, faults>>

Find(h) ==
  /\ pc[h] = "find"
  /\ \/ /\ IF rows[msg[h]] # NoRow THEN Finish(h, "ok")
           ELSE Goto(h, "load") /\ UNCHANGED holder
        /\ UNCHANGED faults
     \/ Fault /\ Finish(h, "error")
  /\ UNCHANGED <<session, chosen, rows, late, sent, menus, acked, refused, msg, uc>>

\* GetContext for the job's destination.
Load(h) ==
  /\ pc[h] = "load"
  /\ \E r \in Reads :
       /\ Charge(r)
       /\ session' \in Stored(r)
       /\ uc' = [uc EXCEPT ![h] = Loaded(r)]
       /\ IF r = "failed" THEN Finish(h, "error") ELSE Goto(h, "send") /\ UNCHANGED holder
  /\ UNCHANGED <<chosen, rows, late, sent, menus, acked, refused, msg>>

NoDestination(s) == s.state = "append" /\ s.relpath = NoFile

\* Waiting for a text to append, with no note open: the message is refused, once
\* or more often (a repetition refuses it again, and sendText may send twice).
Refuse(h) ==
  /\ pc[h] = "send"
  /\ NoDestination(uc[h])
  /\ \E o \in Outcomes :
       /\ Charge(o)
       /\ refused' = IF Took(o) THEN refused \cup {msg[h]} ELSE refused
       /\ Finish(h, IF o = "ok" THEN "ok" ELSE "error")
  /\ UNCHANGED <<session, chosen, rows, late, sent, menus, acked, msg, uc>>

\* The status message, which the row will name, is sent before the row exists.
SendStatus(h) ==
  /\ pc[h] = "send"
  /\ ~NoDestination(uc[h])
  /\ \E o \in Outcomes :
       /\ Charge(o)
       /\ sent' = IF Took(o) THEN [sent EXCEPT ![msg[h]] = @ + 1] ELSE sent
       /\ IF o = "ok" THEN Goto(h, "enqueue") /\ UNCHANGED holder ELSE Finish(h, "error")
  /\ UNCHANGED <<session, chosen, rows, late, menus, acked, refused, msg, uc>>

\* Mutant: the job's mode is the name of the session's state.
Destination_StateAsMode(s) ==
  [mode    |-> s.state,
   relpath |-> IF s.state = "append" THEN s.relpath ELSE NoFile]

Destination(s) ==
  [mode    |-> CASE s.state = "smart" -> "smart"
                 [] s.state = "reminder" -> "reminder"
                 [] OTHER -> "note",
   relpath |-> IF s.state = "append" THEN s.relpath ELSE NoFile]

\* Mutants: the row is overwritten; a failed insert is reported as accepted.
Inserted_Upsert(m, row) == [rows EXCEPT ![m] = row]

Verdict_AlwaysAccepted(o) == "menu"

\* INSERT ... ON CONFLICT(chat_id, message_id) DO NOTHING
Inserted(m, row) == IF rows[m] = NoRow THEN [rows EXCEPT ![m] = row] ELSE rows

Verdict(o) == IF o = "ok" THEN "menu" ELSE "error"

\* An insert that timed out can still be carried out later.  An error is told to
\* the user by an edit of the status message, which may fail.
Enqueue(h) ==
  /\ pc[h] = "enqueue"
  /\ \E o \in Outcomes \cup {"late"} :
       /\ Charge(o)
       /\ rows' = IF Took(o) THEN Inserted(msg[h], Destination(uc[h])) ELSE rows
       /\ late' = IF o = "late" THEN late \cup {<<msg[h], Destination(uc[h])>>} ELSE late
       /\ IF Verdict(o) = "menu" THEN Goto(h, "menu") /\ UNCHANGED holder
          ELSE Finish(h, "error")
  /\ UNCHANGED <<session, chosen, sent, menus, acked, refused, msg, uc>>

Land ==
  /\ \E x \in late : rows' = Inserted(x[1], x[2]) /\ late' = late \ {x}
  /\ UNCHANGED <<session, chosen, sent, menus, acked, refused, server, faults>>

\* The menu is best effort: its failure does not undo the acceptance.  sendText
\* tries again when the connection breaks, and both are shown if only the reply
\* of the first was lost.
Menu(h) ==
  /\ pc[h] = "menu"
  /\ \E shown \in 0..2 :
       /\ menus' = [menus EXCEPT ![msg[h]] = @ + shown]
       /\ IF shown = 2 THEN Fault ELSE UNCHANGED faults
  /\ Finish(h, "ok")
  /\ UNCHANGED <<session, chosen, rows, late, sent, acked, refused, msg, uc>>

\* HTTP 200 or 503, or the polling offset moved or not; the answer may be lost.
Respond(h) ==
  /\ pc[h] \in {"ok", "error"}
  /\ \/ /\ acked' = IF pc[h] = "ok" THEN acked \cup {msg[h]} ELSE acked
        /\ UNCHANGED faults
     \/ /\ pc[h] = "ok"
        /\ Fault
        /\ UNCHANGED acked
  /\ Goto(h, "idle")
  /\ msg' = [msg EXCEPT ![h] = NoMessage]
  /\ uc' = [uc EXCEPT ![h] = Fresh]
  /\ UNCHANGED <<session, chosen, rows, late, sent, menus, refused, holder>>

\* The process dies; Redis, the table and the chat remain.
Crash ==
  /\ Fault
  /\ \E h \in Handlers : pc[h] # "idle"
  /\ holder' = NoHandler
  /\ pc' = [h \in Handlers |-> "idle"]
  /\ msg' = [h \in Handlers |-> NoMessage]
  /\ uc' = [h \in Handlers |-> Fresh]
  /\ UNCHANGED <<session, chosen, rows, late, sent, menus, acked, refused>>

Handle(h) ==
  \/ Lock(h) \/ Find(h) \/ Load(h) \/ Refuse(h) \/ SendStatus(h)
  \/ Enqueue(h) \/ Menu(h) \/ Respond(h)

Next ==
  \/ Navigate
  \/ Crash
  \/ Land
  \/ \E h \in Handlers : Handle(h) \/ \E m \in Messages : Deliver(h, m)

Spec == Init /\ [][Next]_vars

\* Handlers run to their end, and Telegram keeps offering what was not
\* acknowledged.
Fairness ==
  /\ \A h \in Handlers : WF_vars(Handle(h))
  /\ \A m \in Messages : WF_vars(\E h \in Handlers : ~Busy(m) /\ Deliver(h, m))

FairSpec == Spec /\ Fairness

-----------------------------------------------------------------------------
(***************************************************************************)
(* Properties.                                                              *)
(***************************************************************************)

\* An update that Telegram will not offer again has its job in the table, or
\* the user was told why not.
AckedIsKept == \A m \in acked : rows[m] # NoRow \/ m \in refused

\* However often and concurrently its update is delivered, a voice message gets
\* one status message and one menu, and each fault has cost it one more at most;
\* of the menus, no more than the two attempts of one delivery.
AnsweredOnce ==
  \A m \in Messages : sent[m] + menus[m] <= 2 + faults /\ menus[m] <= 2

\* A repeated delivery leaves the destination of an accepted message alone,
\* wherever the user has gone in the meantime.
DestinationKept ==
  [][\A m \in Messages : rows[m] # NoRow => rows'[m] = rows[m]]_vars

\* The destination a handler is about to store is the session as Redis holds it:
\* from the read to the insert, no button of the user changes it.
SnapshotIsCurrent == \A h \in Handlers : pc[h] \in {"send", "enqueue"} => uc[h] = session

\* A message goes where the choices of the user say when it is accepted.
SnapshotIsChosen ==
  \A h \in Handlers : pc[h] = "enqueue" => Destination(uc[h]) = Destination(chosen)

\* Every message is acknowledged in the end.
EventuallyAcked == \A m \in Messages : <>(m \in acked)

=============================================================================
