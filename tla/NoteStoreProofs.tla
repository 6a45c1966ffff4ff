-------------------------- MODULE NoteStoreProofs --------------------------
(***************************************************************************)
(* Proofs about NoteStore, for any number of notes, writers, requests and   *)
(* faults.                                                                  *)
(***************************************************************************)
EXTENDS NoteStore, TLAPS

Inside == {"look", "create", "created", "read", "write", "newline", "text", "sync"}

\* Where a request may lead its writer.
Suits(r, place) ==
  /\ r \in Requests
  /\ place = "ops" => r.op = "once"
  /\ place \in {"create", "created"} => r.op \in {"ensure", "append", "once"}
  /\ place \in {"read", "write", "sync"} => r.op \notin {"ensure", "append", "path"}
  /\ place \in {"newline", "text"} => r.op \in {"append", "path"}

WorkOK ==
  \A w \in Writers : pc[w] # "idle" =>
    /\ Suits(req[w], pc[w])
    /\ req[w].op = "status" => want[w] \in States

\* It holds the locks it has taken.
LocksHeld ==
  \A w \in Writers :
    /\ pc[w] \in Inside => lock[req[w].note] = w
    /\ pc[w] \in Inside \cup {"note"} /\ req[w].op = "once" => opsLock = w

\* What it has seen under the lock of its note is still so.
Seen(w) ==
  LET c == files[req[w].note] IN
  /\ pc[w] = "create" => c = Absent
  /\ pc[w] \in {"created", "write", "newline", "text", "sync"} => c # Absent
  /\ pc[w] = "write" => copy[w] = c /\ ~Rejected(c, req[w], want[w])

SeenIsSo ==
  /\ \A n \in Notes : files[n] \in disk[n]
  /\ \A w \in Writers : Seen(w)

Inv1 == TypeOK /\ WorkOK /\ LocksHeld /\ SeenIsSo

\* No loss of power brings a marker that readers do not see.
Behind ==
  \A n \in Notes, id \in Ids : \A c \in disk[n] : \A i \in Marks(c, id) :
    i \in Marks(files[n], id) /\ files[n].lines[i] = c.lines[i]

\* A marker was left by a request for its note.
Origin ==
  \A n \in Notes, id \in Ids : \A i \in Marks(files[n], id) :
    \E r \in Requests : r.note = n /\ files[n].lines[i] = Entry(r)

\* An operation about to be carried out has left no marker anywhere.
Unmarked ==
  \A w \in Writers :
    pc[w] \in {"create", "created", "read", "write"} /\ req[w].op \in Marking
      => \A n \in Notes : Marks(files[n], req[w].id) = {}

Inv2 == Inv1 /\ Behind /\ Origin /\ Unmarked /\ WrittenOnce

Has(c, r) == \E i \in Marks(c, r.id) : c.lines[i] = Entry(r)

\* An operation about to be acknowledged is in its note.
InNote ==
  \A w \in Writers :
    pc[w] = "sync" /\ req[w].op \in Marking => Has(files[req[w].note], req[w])

Inv3 == Inv2 /\ InNote /\ AckedIsDurable

-----------------------------------------------------------------------------
(***************************************************************************)
(* What the helpers return.                                                 *)
(***************************************************************************)

\* An appended line is a line.
LEMMA EntryType ==
  ASSUME NEW r \in Requests
  PROVE  Entry(r) \in Line /\ Entry(r).id = r.id /\ Entry(r).own
  BY StoreAssumption DEF Entry, Line, Request

\* A piece of a text is a line without a marker.
LEMMA FragmentType == Fragment \in Line /\ Fragment.id = NoId
  BY DEF Fragment, Line, Ops

\* The parts of a note.
LEMMA ContentParts ==
  ASSUME NEW c \in Content
  PROVE  /\ c = [lines |-> c.lines, open |-> c.open, rating |-> c.rating, tasks |-> c.tasks]
         /\ c.lines \in Seq(Line) /\ c.open \in BOOLEAN /\ c.rating \in Nat
         /\ c.tasks \in Seq(Task)
         /\ c # Absent
  BY StoreAssumption DEF Content

\* What a change of one part leaves alone.
LEMMA Updates ==
  ASSUME NEW c \in Content, NEW o, NEW k, NEW t
  PROVE  /\ [c EXCEPT !.open = o] =
              [lines |-> c.lines, open |-> o, rating |-> c.rating, tasks |-> c.tasks]
         /\ [c EXCEPT !.rating = k] =
              [lines |-> c.lines, open |-> c.open, rating |-> k, tasks |-> c.tasks]
         /\ [c EXCEPT !.tasks = t] =
              [lines |-> c.lines, open |-> c.open, rating |-> c.rating, tasks |-> t]
<1>2. [c EXCEPT !.open = o] =
         [lines |-> c.lines, open |-> o, rating |-> c.rating, tasks |-> c.tasks]
  BY ContentParts
<1>3. [c EXCEPT !.rating = k] =
         [lines |-> c.lines, open |-> c.open, rating |-> k, tasks |-> c.tasks]
  BY ContentParts
<1>4. [c EXCEPT !.tasks = t] =
         [lines |-> c.lines, open |-> c.open, rating |-> c.rating, tasks |-> t]
  BY ContentParts
<1> QED
  BY <1>2, <1>3, <1>4

\* The contents a note may start with.
LEMMA StartType == Template \in Content /\ Unterminated \in Content
<1> DEFINE foreign == [op |-> "append", id |-> NoId, text |-> Foreign, own |-> TRUE]
<1>1. <<>> \in Seq(Line) /\ <<>> \in Seq(Task)
  OBVIOUS
<1>2. foreign \in Line
  BY DEF Line, Ops
<1>3. <<foreign>> \in Seq(Line)
  BY <1>2
<1>4. Template \in Content
  BY <1>1 DEF Template, Content
<1> QED
  BY <1>1, <1>3, <1>4 DEF Unterminated, Content

\* One more element leaves the others where they are.
LEMMA AppendType ==
  ASSUME NEW S, NEW s \in Seq(S), NEW e \in S
  PROVE  /\ Append(s, e) \in Seq(S)
         /\ Len(Append(s, e)) = Len(s) + 1
         /\ Append(s, e)[Len(s) + 1] = e
         /\ \A i \in DOMAIN s : i \in DOMAIN Append(s, e) /\ Append(s, e)[i] = s[i]
  OBVIOUS

\* Where a line begins is all that writing it behind another may change.
LEMMA LineType ==
  ASSUME NEW line \in Line, NEW o \in BOOLEAN
  PROVE  /\ [line EXCEPT !.own = o] \in Line
         /\ [line EXCEPT !.own = o].id = line.id
         /\ [line EXCEPT !.own = o].own = o
         /\ line.own = o => [line EXCEPT !.own = o] = line
         /\ line.own => [[line EXCEPT !.own = o] EXCEPT !.own = TRUE] = line
<1>1. line = [op |-> line.op, id |-> line.id, text |-> line.text, own |-> line.own]
  BY DEF Line
<1>2. [line EXCEPT !.own = o] = [op |-> line.op, id |-> line.id, text |-> line.text, own |-> o]
  BY <1>1
<1> QED
  BY <1>1, <1>2 DEF Line

\* The line as it stands when it is written behind a note.
Placed(c, line) == [line EXCEPT !.own = ~c.open]

\* A line that is written is added to the note.
LEMMA JoinedType ==
  ASSUME NEW c \in Content, NEW line \in Line
  PROVE  /\ Joined(c, line) \in Content
         /\ Placed(c, line) \in Line /\ Placed(c, line).id = line.id
         /\ Joined(c, line).lines = Append(c.lines, Placed(c, line))
         /\ Joined(c, line).open = FALSE
         /\ Joined(c, line).rating = c.rating
         /\ Joined(c, line).tasks = c.tasks
<1> DEFINE placed == Placed(c, line)
<1>1. Joined(c, line) = [c EXCEPT !.lines = Append(c.lines, placed), !.open = FALSE]
  BY DEF Joined, Placed
<1>2. placed \in Line /\ placed.id = line.id
  BY ContentParts, LineType DEF Placed
<1> HIDE DEF placed
<1>3. Joined(c, line) = [lines |-> Append(c.lines, placed), open |-> FALSE,
                         rating |-> c.rating, tasks |-> c.tasks]
  BY <1>1, ContentParts
<1>4. Append(c.lines, placed) \in Seq(Line)
  BY <1>2, ContentParts, AppendType
<1>5. Joined(c, line) \in Content /\ Joined(c, line).lines = Append(c.lines, placed)
  BY <1>3, <1>4, ContentParts DEF Content
<1> QED
  BY <1>2, <1>3, <1>5 DEF placed

\* So is a piece of one, which has no end.
LEMMA PartlyType ==
  ASSUME NEW c \in Content
  PROVE  /\ Partly(c) \in Content
         /\ Placed(c, Fragment) \in Line /\ Placed(c, Fragment).id = NoId
         /\ Partly(c).lines = Append(c.lines, Placed(c, Fragment))
         /\ Partly(c).rating = c.rating
         /\ Partly(c).tasks = c.tasks
<1>1. Joined(c, Fragment) \in Content
  BY JoinedType, FragmentType
<1>2. Partly(c) = [lines |-> Joined(c, Fragment).lines, open |-> TRUE,
                   rating |-> Joined(c, Fragment).rating, tasks |-> Joined(c, Fragment).tasks]
  BY <1>1, Updates DEF Partly
<1>3. /\ Joined(c, Fragment).lines = Append(c.lines, Placed(c, Fragment))
      /\ Joined(c, Fragment).rating = c.rating
      /\ Joined(c, Fragment).tasks = c.tasks
      /\ Placed(c, Fragment) \in Line /\ Placed(c, Fragment).id = NoId
  BY JoinedType, FragmentType
<1>4. Append(c.lines, Placed(c, Fragment)) \in Seq(Line)
  BY <1>3, ContentParts, AppendType
<1> QED
  BY <1>2, <1>3, <1>4, ContentParts DEF Content

\* A task that is asked for has a state.
LEMMA WantedType ==
  ASSUME NEW c \in Content, NEW r \in Requests, r.op = "status",
         Toggles(r) => r.arg \in DOMAIN c.tasks
  PROVE  Wanted(c, r) \in States
<1>1. CASE ~Toggles(r)
  BY <1>1, StoreAssumption DEF Wanted, Toggles, Request
<1>2. CASE Toggles(r)
  <2>1. c.tasks[r.arg] \in Task
    BY <1>2, ContentParts
  <2>2. c.tasks[r.arg].state \in States
    BY <2>1 DEF Task
  <2>3. \A t \in States : Toggled[t] \in States
    BY DEF Toggled, States
  <2> QED
    BY <1>2, <2>2, <2>3 DEF Wanted
<1> QED
  BY <1>1, <1>2

\* What an operation makes of a note: its marked line at the end, or a change of
\* the rating or the tasks that leaves the lines alone.
LEMMA ChangedType ==
  ASSUME NEW c \in Content, NEW r \in Requests, NEW state, ~Rejected(c, r, state),
         r.op \notin {"ensure", "append", "path"}, r.op = "status" => state \in States
  PROVE  /\ Changed(c, r, state) \in Content
         /\ Continues(c, Changed(c, r, state))
         /\ IF r.op \in Marking THEN Changed(c, r, state).lines = Append(c.lines, Entry(r))
            ELSE Changed(c, r, state).lines = c.lines
<1>0. r.op \in Ops /\ r.arg \in Nat /\ r.text \in Texts
  BY StoreAssumption DEF Request
<1>a. c # Absent /\ \A d \in Content : d # Absent
  BY StoreAssumption
<1>b. Prefix(c.lines, c.lines) /\ SameTexts(c.tasks, c.tasks)
  BY ContentParts DEF Prefix, SameTexts
<1>1. CASE r.op = "rating"
  <2>1. Changed(c, r, state) = [c EXCEPT !.rating = r.arg]
    BY <1>1 DEF Changed
  <2>2. Changed(c, r, state) = [lines |-> c.lines, open |-> c.open, rating |-> r.arg, tasks |-> c.tasks]
    BY <2>1, Updates
  <2>3. Changed(c, r, state) \in Content
    BY <1>0, <2>2, ContentParts DEF Content
  <2> QED
    BY <1>a, <1>b, <1>1, <2>2, <2>3 DEF Continues, Marking
<1>2. CASE r.op = "task"
  <2> DEFINE t == [text |-> r.text, state |-> "pending"]
  <2>1. Changed(c, r, state) = [c EXCEPT !.tasks = Append(c.tasks, t)]
    BY <1>2 DEF Changed
  <2>2. t \in Task
    BY <1>0 DEF Task, States
  <2>3. Changed(c, r, state) = [lines |-> c.lines, open |-> c.open, rating |-> c.rating,
                         tasks |-> Append(c.tasks, t)]
    BY <2>1, Updates
  <2> HIDE DEF t
  <2>4. Append(c.tasks, t) \in Seq(Task) /\ SameTexts(c.tasks, Append(c.tasks, t))
    BY <2>2, ContentParts, AppendType DEF SameTexts
  <2>5. Changed(c, r, state) \in Content
    BY <2>3, <2>4, ContentParts DEF Content
  <2>6. /\ Changed(c, r, state).lines = c.lines /\ Changed(c, r, state).open = c.open
        /\ Changed(c, r, state).rating = c.rating /\ Changed(c, r, state).tasks = Append(c.tasks, t)
    BY <2>3
  <2>7. Continues(c, Changed(c, r, state))
    BY <1>a, <1>b, <2>4, <2>5, <2>6 DEF Continues
  <2> QED
    BY <1>2, <2>5, <2>6, <2>7 DEF Marking
<1>3. CASE r.op = "status"
  <2> DEFINE u == [c.tasks EXCEPT ![r.arg] = [c.tasks[r.arg] EXCEPT !.state = state]]
  <2>0. Changed(c, r, state) = [c EXCEPT !.tasks = u]
    BY <1>3 DEF Changed
  <2>a. u = [c.tasks EXCEPT ![r.arg] = [c.tasks[r.arg] EXCEPT !.state = state]]
    OBVIOUS
  <2> HIDE DEF u
  <2>1. Changed(c, r, state) = [lines |-> c.lines, open |-> c.open, rating |-> c.rating, tasks |-> u]
    BY <2>0, Updates
  <2>2. r.arg \in DOMAIN c.tasks
    BY <1>3 DEF Rejected
  <2>3. c.tasks \in Seq(Task) /\ c.tasks[r.arg] \in Task
    BY <2>2, ContentParts
  <2>4. [c.tasks[r.arg] EXCEPT !.state = state] \in Task
    BY <1>3, <2>2, <2>3 DEF Task
  <2>5. u \in Seq(Task) /\ SameTexts(c.tasks, u)
    BY <2>2, <2>3, <2>4, <2>a DEF SameTexts, Task
  <2>6. Changed(c, r, state) \in Content
    BY <2>1, <2>5, ContentParts DEF Content
  <2> QED
    BY <1>3, <1>a, <1>b, <2>1, <2>5, <2>6 DEF Continues, Marking
<1>4. CASE r.op \in Marking
  <2> DEFINE d == [c EXCEPT !.open = FALSE]
  <2>1. Changed(c, r, state) = Joined(d, Entry(r))
    BY <1>4 DEF Changed, Marking
  <2>2. d \in Content /\ ~d.open /\ d.lines = c.lines /\ d.rating = c.rating /\ d.tasks = c.tasks
    <3>1. d = [lines |-> c.lines, open |-> FALSE, rating |-> c.rating, tasks |-> c.tasks]
      BY Updates
    <3> QED
      BY <3>1, ContentParts DEF Content
  <2>3. /\ Joined(d, Entry(r)) \in Content
        /\ Joined(d, Entry(r)).lines = Append(c.lines, Entry(r))
        /\ Joined(d, Entry(r)).rating = c.rating
        /\ Joined(d, Entry(r)).tasks = c.tasks
    <3>1. Entry(r) \in Line /\ Placed(d, Entry(r)) = Entry(r)
      BY <2>2, EntryType, LineType DEF Placed
    <3> DEFINE e == Entry(r)
    <3> HIDE DEF d, e
    <3>2. /\ Joined(d, e) \in Content
          /\ Joined(d, e).lines = Append(d.lines, Placed(d, e))
          /\ Joined(d, e).rating = d.rating
          /\ Joined(d, e).tasks = d.tasks
      BY <2>2, <3>1, JoinedType DEF e
    <3> QED
      BY <2>2, <3>1, <3>2 DEF e
  <2>4. Prefix(c.lines, Append(c.lines, Entry(r)))
    BY ContentParts, AppendType, EntryType DEF Prefix
  <2> QED
    BY <1>4, <1>a, <1>b, <2>1, <2>3, <2>4 DEF Continues
<1> QED
  BY <1>0, <1>1, <1>2, <1>3, <1>4 DEF Ops, Marking

-----------------------------------------------------------------------------
(***************************************************************************)
(* Control: where the writers stand and what they hold.                     *)
(***************************************************************************)

\* What Stat and the search for a marker lead to.
LEMMA LookCases ==
  ASSUME NEW w \in Writers, Look(w), Suits(req[w], "look")
  PROVE  LET r == req[w]
             c == files[r.note] IN
         \/ Succeed(w) /\ r.op = "ensure"
         \/ Fail(w)
         \/ Proceed(w, "create") /\ r.op \in {"ensure", "append", "once"} /\ c = Absent
              /\ (r.op \in Marking => ~Conflict(r) /\ ~Found(r))
         \/ Proceed(w, "newline") /\ r.op \in {"append", "path"} /\ c # Absent
         \/ Proceed(w, "read") /\ r.op \notin {"ensure", "append", "path"}
              /\ (r.op \in Marking => ~Conflict(r) /\ ~Found(r))
         \/ Proceed(w, "sync") /\ r.op \in Marking /\ Found(r) /\ ~Conflict(r)
<1>1. req[w].op \in Ops
  BY StoreAssumption DEF Suits, Request
<1>2. CASE req[w].op = "ensure"
  BY <1>2 DEF Look, Marking
<1>3. CASE req[w].op = "append"
  BY <1>3 DEF Look, Place, Marking
<1>4. CASE req[w].op = "path"
  BY <1>4 DEF Look, Place, Marking
<1>5. CASE req[w].op \in Marking
  BY <1>5 DEF Look, Place, Marking, Repeat
<1>6. CASE req[w].op \in {"rating", "task", "status"}
  BY <1>6 DEF Look, Place, Marking
<1> QED
  BY <1>1, <1>2, <1>3, <1>4, <1>5, <1>6 DEF Ops, Marking

\* What follows the template.
LEMMA CreatedCases ==
  ASSUME NEW w \in Writers, Created(w), Suits(req[w], "created")
  PROVE  \/ Succeed(w) /\ req[w].op = "ensure"
         \/ Proceed(w, "newline") /\ req[w].op = "append"
         \/ Proceed(w, "read") /\ req[w].op = "once"
  BY DEF Created, Suits

\* Two writers do not work on one note.
LEMMA Exclusion ==
  ASSUME LocksHeld, NEW v \in Writers, NEW w \in Writers, v # w,
         pc[v] \in Inside, pc[w] \in Inside
  PROVE  req[v].note # req[w].note
  BY DEF LocksHeld

\* A handler that returns gives back its own locks and no others.
LEMMA ReturnControl ==
  ASSUME TypeOK, WorkOK, LocksHeld, NEW w \in Writers, Return(w)
  PROVE  WorkOK' /\ LocksHeld'
<1>1. pc' = [pc EXCEPT ![w] = "idle"] /\ req' = [req EXCEPT ![w] = NoRequest]
      /\ want' = [want EXCEPT ![w] = "next"]
  BY DEF Return, Goto
<1>2. \A v \in Writers : pc'[v] # "idle" =>
        v # w /\ pc'[v] = pc[v] /\ req'[v] = req[v] /\ want'[v] = want[v]
  BY <1>1 DEF TypeOK
<1>3. WorkOK'
  BY <1>2 DEF WorkOK, Suits
<1>4. opsLock' = IF opsLock = w THEN Nobody ELSE opsLock
  BY DEF Return, Unlock
<1>5. \A n \in Notes : lock'[n] = IF lock[n] = w THEN Nobody ELSE lock[n]
  BY DEF Return, Unlock
<1>6. \A r \in Requests : r.note \in Notes
  BY StoreAssumption DEF Request
<1>7. LocksHeld'
  <2> SUFFICES ASSUME NEW v \in Writers, pc'[v] # "idle"
               PROVE  /\ pc'[v] \in Inside => lock'[req'[v].note] = v
                      /\ pc'[v] \in Inside \cup {"note"} /\ req'[v].op = "once" => opsLock' = v
    BY DEF LocksHeld, Inside
  <2>1. v # w /\ pc'[v] = pc[v] /\ req'[v] = req[v] /\ req[v].note \in Notes
    BY <1>2, <1>6 DEF WorkOK, Suits
  <2> QED
    BY <2>1, <1>4, <1>5 DEF LocksHeld
<1> QED
  BY <1>3, <1>7

\* A handler that goes on keeps them.
LEMMA ProceedControl ==
  ASSUME TypeOK, WorkOK, LocksHeld, NEW w \in Writers, NEW place \in Inside,
         pc[w] \in Inside, Goto(w, place), UNCHANGED <<locks, req, want>>, Suits(req[w], place)
  PROVE  WorkOK' /\ LocksHeld'
<1>1. \A v \in Writers : pc'[v] = IF v = w THEN place ELSE pc[v]
  BY DEF Goto, TypeOK
<1>2. WorkOK'
  BY <1>1 DEF WorkOK, Suits, Inside
<1>3. LocksHeld'
  BY <1>1 DEF LocksHeld, locks, Inside
<1> QED
  BY <1>2, <1>3

\* A request about a task that is not refused asks for a state.
LEMMA BeginWants ==
  ASSUME StoreAssumption, TypeOK, NEW r \in Requests, ~Refused(r)
  PROVE  /\ Wanted(files[r.note], r) \in States \cup {"next"}
         /\ r.op = "status" => Wanted(files[r.note], r) \in States
<1>1. CASE Toggles(r)
  <2>1. files[r.note] \in Content /\ r.arg \in DOMAIN files[r.note].tasks
    BY <1>1, StoreAssumption DEF Refused, TypeOK, Request
  <2>2. Wanted(files[r.note], r) \in States
    BY <1>1, <2>1, WantedType DEF Toggles
  <2> QED
    BY <2>2
<1>2. CASE ~Toggles(r)
  BY <1>2, StoreAssumption DEF Wanted, Toggles, Request
<1> QED
  BY <1>1, <1>2

\* Each step keeps the writers where their requests lead them, with their locks.
LEMMA ControlStep ==
  ASSUME StoreAssumption, Inv1, [Next]_vars
  PROVE  WorkOK' /\ LocksHeld'
<1> USE DEF Inv1
<1>1. ASSUME NEW w \in Writers, NEW r \in Requests, Begin(w, r)
      PROVE  WorkOK' /\ LocksHeld'
  <2>1. CASE UNCHANGED <<pc, req, want>>
    BY <1>1, <2>1 DEF Begin, WorkOK, Suits, LocksHeld, locks
  <2>2. CASE /\ Goto(w, IF r.op = "once" THEN "ops" ELSE "note")
             /\ req' = [req EXCEPT ![w] = r]
             /\ want' = [want EXCEPT ![w] = Wanted(files[r.note], r)]
             /\ ~Refused(r)
    <3>1. \A v \in Writers : /\ pc'[v] = IF v = w THEN IF r.op = "once" THEN "ops" ELSE "note" ELSE pc[v]
                             /\ req'[v] = IF v = w THEN r ELSE req[v]
                             /\ want'[v] = IF v = w THEN Wanted(files[r.note], r) ELSE want[v]
      BY <2>2 DEF Goto, TypeOK
    <3>4. r.op = "status" => Wanted(files[r.note], r) \in States
      BY <2>2, BeginWants
    <3>2. WorkOK'
      BY <3>1, <3>4 DEF WorkOK, Suits
    <3>3. LocksHeld'
      BY <1>1, <3>1 DEF Begin, LocksHeld, locks, Inside
    <3> QED
      BY <3>2, <3>3
  <2> QED
    BY <1>1, <2>1, <2>2 DEF Begin
<1>2. ASSUME NEW w \in Writers, LockOps(w)
      PROVE  WorkOK' /\ LocksHeld'
  <2>1. \A v \in Writers : pc'[v] = IF v = w THEN "note" ELSE pc[v]
    BY <1>2 DEF LockOps, Goto, TypeOK
  <2>2. WorkOK'
    BY <1>2, <2>1 DEF LockOps, WorkOK, Suits
  <2>3. LocksHeld'
    BY <1>2, <2>1, StoreAssumption DEF LockOps, LocksHeld, Inside
  <2> QED
    BY <2>2, <2>3
<1>3. ASSUME NEW w \in Writers, LockNote(w)
      PROVE  WorkOK' /\ LocksHeld'
  <2>1. \A v \in Writers : pc'[v] = IF v = w THEN "look" ELSE pc[v]
    BY <1>3 DEF LockNote, Goto, TypeOK
  <2>2. WorkOK'
    BY <1>3, <2>1 DEF LockNote, WorkOK, Suits
  <2>3. req[w].note \in Notes
    BY <1>3, StoreAssumption DEF LockNote, WorkOK, Suits, Request
  <2>4. lock' = [lock EXCEPT ![req[w].note] = w] /\ lock[req[w].note] = Nobody /\ UNCHANGED <<req, opsLock>>
    BY <1>3 DEF LockNote
  <2>5. \A v \in Writers : v # w /\ pc[v] \in Inside => req[v].note # req[w].note
    BY <2>4, StoreAssumption DEF LocksHeld
  <2>6. LocksHeld'
    BY <1>3, <2>1, <2>3, <2>4, <2>5 DEF LockNote, LocksHeld, Inside, TypeOK
  <2> QED
    BY <2>2, <2>6
<1>4. ASSUME NEW w \in Writers, Look(w)
      PROVE  WorkOK' /\ LocksHeld'
  <2>1. pc[w] \in Inside /\ Suits(req[w], "look")
    BY <1>4 DEF Look, WorkOK, Inside
  <2>2. CASE Return(w)
    BY <2>2, ReturnControl
  <2>3. ASSUME NEW place \in Inside, Proceed(w, place), Suits(req[w], place)
        PROVE  WorkOK' /\ LocksHeld'
    BY <2>1, <2>3, ProceedControl DEF Proceed
  <2>4. req[w].op \in Marking => req[w].op \notin {"ensure", "append", "path"}
    BY DEF Marking
  <2> QED
    BY <1>4, <2>1, <2>2, <2>3, <2>4, LookCases DEF Succeed, Fail, Suits, Inside
<1>5. ASSUME NEW w \in Writers, Create(w)
      PROVE  WorkOK' /\ LocksHeld'
  <2>1. pc[w] \in Inside /\ Suits(req[w], "created")
    BY <1>5 DEF Create, WorkOK, Suits, Inside
  <2> QED
    BY <1>5, <2>1, ProceedControl DEF Create, Proceed, Inside
<1>6. ASSUME NEW w \in Writers, Created(w)
      PROVE  WorkOK' /\ LocksHeld'
  <2>1. pc[w] \in Inside /\ Suits(req[w], "created")
    BY <1>6 DEF Created, WorkOK, Inside
  <2>2. CASE Return(w)
    BY <2>2, ReturnControl
  <2>3. ASSUME NEW place \in Inside, Proceed(w, place), Suits(req[w], place)
        PROVE  WorkOK' /\ LocksHeld'
    BY <2>1, <2>3, ProceedControl DEF Proceed
  <2> QED
    BY <1>6, <2>1, <2>2, <2>3, CreatedCases DEF Succeed, Suits, Inside
<1>7. ASSUME NEW w \in Writers, Read(w)
      PROVE  WorkOK' /\ LocksHeld'
  <2>1. CASE Return(w)
    BY <2>1, ReturnControl
  <2>2. CASE Goto(w, "write") /\ UNCHANGED <<locks, req, want>>
    <3>1. pc[w] \in Inside /\ Suits(req[w], "write")
      BY <1>7 DEF Read, WorkOK, Suits, Inside
    <3> QED
      BY <2>2, <3>1, ProceedControl DEF Inside
  <2> QED
    BY <1>7, <2>1, <2>2 DEF Read, Fail
<1>8. ASSUME NEW w \in Writers, Write(w)
      PROVE  WorkOK' /\ LocksHeld'
  <2>1. pc[w] \in Inside /\ Suits(req[w], "sync")
    BY <1>8 DEF Write, WorkOK, Suits, Inside
  <2> QED
    BY <1>8, <2>1, ProceedControl DEF Write, Proceed, Inside
<1>9. ASSUME NEW w \in Writers, SyncDirectory(w)
      PROVE  WorkOK' /\ LocksHeld'
  BY <1>9, ReturnControl DEF SyncDirectory, Succeed
<1>10. ASSUME NEW w \in Writers, Newline(w)
       PROVE  WorkOK' /\ LocksHeld'
  <2>1. pc[w] \in Inside /\ Suits(req[w], "text")
    BY <1>10 DEF Newline, WorkOK, Suits, Inside
  <2> QED
    BY <1>10, <2>1, ProceedControl DEF Newline, Proceed, Inside
<1>11. ASSUME NEW w \in Writers, Text(w)
       PROVE  WorkOK' /\ LocksHeld'
  BY <1>11, ReturnControl DEF Text, Succeed, Fail
<1>12. ASSUME NEW w \in Writers, GiveUp(w) \/ Error(w) \/ Crash(w)
       PROVE  WorkOK' /\ LocksHeld'
  BY <1>12, ReturnControl DEF GiveUp, Error, Crash, Fail
<1>13. ASSUME PowerLoss
       PROVE  WorkOK' /\ LocksHeld'
  BY <1>13 DEF PowerLoss, WorkOK, LocksHeld, Inside
<1>14. ASSUME UNCHANGED vars
       PROVE  WorkOK' /\ LocksHeld'
  BY <1>14 DEF vars, WorkOK, Suits, LocksHeld
<1> QED
  BY <1>1, <1>2, <1>3, <1>4, <1>5, <1>6, <1>7, <1>8, <1>9, <1>10, <1>11, <1>12, <1>13, <1>14
     DEF Next, Handle, AllServed

-----------------------------------------------------------------------------
(***************************************************************************)
(* Types, and what a writer has seen.                                       *)
(***************************************************************************)

\* Ending the last line changes nothing else.
LEMMA NewlineType ==
  ASSUME NEW c \in Content
  PROVE  LET d == [c EXCEPT !.open = FALSE] IN
         d \in Content /\ ~d.open /\ d.lines = c.lines /\ d.rating = c.rating /\ d.tasks = c.tasks
<1> DEFINE d == [c EXCEPT !.open = FALSE]
<1>1. d = [lines |-> c.lines, open |-> FALSE, rating |-> c.rating, tasks |-> c.tasks]
  BY Updates
<1> QED
  BY <1>1, ContentParts DEF Content

\* A file that is written is one of those a loss of power may leave.
LEMMA SetType ==
  ASSUME TypeOK, NEW n \in Notes, NEW c \in Content, Set(n, c)
  PROVE  /\ files' \in [Notes -> Content \cup {Absent}]
         /\ disk' \in [Notes -> SUBSET (Content \cup {Absent})]
         /\ \A m \in Notes : /\ files'[m] = IF m = n THEN c ELSE files[m]
                            /\ disk'[m] = IF m = n THEN disk[n] \cup {c} ELSE disk[m]
  BY DEF TypeOK, Set

\* A synced file is the only one that may be left.
LEMMA SyncType ==
  ASSUME TypeOK, NEW n \in Notes, Sync(n)
  PROVE  /\ disk' \in [Notes -> SUBSET (Content \cup {Absent})]
         /\ \A m \in Notes : disk'[m] = IF m = n THEN {files[n]} ELSE disk[m]
  BY DEF TypeOK, Sync

\* What a step of another writer does to a writer: nothing.
SameWriter(v) == pc'[v] = pc[v] /\ req'[v] = req[v] /\ want'[v] = want[v] /\ copy'[v] = copy[v]

\* A handler that returns forgets its request.
LEMMA ReturnType ==
  ASSUME TypeOK, NEW w \in Writers, Return(w)
  PROVE  /\ opsLock' \in Writers \cup {Nobody}
         /\ lock' \in [Notes -> Writers \cup {Nobody}]
         /\ pc' \in [Writers -> Places]
         /\ req' \in [Writers -> Requests \cup {NoRequest}]
         /\ want' \in [Writers -> States \cup {"next"}]
         /\ copy' \in [Writers -> Content \cup {Absent}]
         /\ \A v \in Writers : IF v = w THEN pc'[v] = "idle"
                             ELSE SameWriter(v)
<1>1. opsLock' = IF opsLock = w THEN Nobody ELSE opsLock
  BY DEF Return, Unlock
<1>2. lock' = [n \in Notes |-> IF lock[n] = w THEN Nobody ELSE lock[n]]
  BY DEF Return, Unlock
<1>3. pc' = [pc EXCEPT ![w] = "idle"] /\ req' = [req EXCEPT ![w] = NoRequest]
      /\ want' = [want EXCEPT ![w] = "next"] /\ copy' = [copy EXCEPT ![w] = Absent]
  BY DEF Return, Goto
<1>4. "idle" \in Places
  BY DEF Places
<1> QED
  BY <1>1, <1>2, <1>3, <1>4 DEF TypeOK, SameWriter

\* One that goes on keeps it.
LEMMA ProceedType ==
  ASSUME TypeOK, NEW w \in Writers, NEW place \in Places, Proceed(w, place)
  PROVE  /\ opsLock' \in Writers \cup {Nobody}
         /\ lock' \in [Notes -> Writers \cup {Nobody}]
         /\ pc' \in [Writers -> Places]
         /\ UNCHANGED <<opsLock, lock, req, want, copy, acked>>
         /\ \A v \in Writers : pc'[v] = IF v = w THEN place ELSE pc[v]
  BY DEF TypeOK, Proceed, Goto, locks

\* A writer at work has a note.
LEMMA OwnNote ==
  ASSUME StoreAssumption, Inv1, NEW w \in Writers, pc[w] # "idle"
  PROVE  /\ req[w] \in Requests /\ req[w].note \in Notes
         /\ files[req[w].note] \in Content \cup {Absent}
  BY DEF StoreAssumption, Inv1, WorkOK, Suits, Request, TypeOK

\* What the writes make of a note.
LEMMA WriteEffect ==
  ASSUME StoreAssumption, Inv1, NEW w \in Writers, pc[w] = "write"
  PROVE  LET c == files[req[w].note]
             d == Changed(copy[w], req[w], want[w]) IN
         /\ c \in Content /\ d \in Content /\ d # Absent /\ Continues(c, d)
         /\ IF req[w].op \in Marking THEN d.lines = Append(c.lines, Entry(req[w]))
            ELSE d.lines = c.lines
<1>1. /\ req[w] \in Requests /\ req[w].op \notin {"ensure", "append", "path"}
      /\ copy[w] = files[req[w].note] /\ ~Rejected(copy[w], req[w], want[w])
      /\ req[w].op = "status" => want[w] \in States
      /\ files[req[w].note] \in Content
  BY OwnNote DEF Inv1, WorkOK, Suits, SeenIsSo, Seen
<1> DEFINE r == req[w]
           c == copy[w]
           x == want[w]
<1>2. /\ c \in Content /\ r \in Requests /\ ~Rejected(c, r, x)
      /\ r.op \notin {"ensure", "append", "path"}
      /\ r.op = "status" => x \in States
  BY <1>1
<1> HIDE DEF r, c, x
<1>3. /\ Changed(c, r, x) \in Content
      /\ Continues(c, Changed(c, r, x))
      /\ IF r.op \in Marking THEN Changed(c, r, x).lines = Append(c.lines, Entry(r))
         ELSE Changed(c, r, x).lines = c.lines
  BY <1>2, ChangedType
<1>4. Changed(c, r, x) # Absent
  BY <1>3, ContentParts
<1> QED
  BY <1>1, <1>3, <1>4 DEF r, c, x

LEMMA NewlineEffect ==
  ASSUME StoreAssumption, Inv1, NEW w \in Writers, pc[w] = "newline"
  PROVE  LET c == files[req[w].note]
             d == [c EXCEPT !.open = FALSE] IN
         /\ c \in Content /\ d \in Content /\ d # Absent
         /\ d.lines = c.lines /\ d.rating = c.rating /\ d.tasks = c.tasks
<1>1. files[req[w].note] \in Content
  BY OwnNote DEF Inv1, SeenIsSo, Seen
<1> QED
  BY <1>1, NewlineType, ContentParts

LEMMA TextEffect ==
  ASSUME StoreAssumption, Inv1, NEW w \in Writers, pc[w] = "text"
  PROVE  LET c == files[req[w].note]
             whole == Joined(c, Entry(req[w]))
             part == Partly(c)
             line == Placed(c, Entry(req[w]))
             piece == Placed(c, Fragment) IN
         /\ c \in Content /\ req[w].id = NoId
         /\ whole \in Content /\ whole # Absent
         /\ part \in Content /\ part # Absent
         /\ line \in Line /\ line.id = NoId /\ [line EXCEPT !.own = TRUE] = Entry(req[w])
         /\ piece \in Line /\ piece.id = NoId
         /\ whole.lines = Append(c.lines, line) /\ part.lines = Append(c.lines, piece)
         /\ whole.rating = c.rating /\ whole.tasks = c.tasks
         /\ part.rating = c.rating /\ part.tasks = c.tasks
<1>1. files[req[w].note] \in Content
  BY OwnNote DEF Inv1, SeenIsSo, Seen
<1>2. req[w] \in Requests /\ req[w].id = NoId
  BY StoreAssumption DEF Inv1, WorkOK, Suits, Marking
<1> DEFINE c == files[req[w].note]
           e == Entry(req[w])
<1>3. e \in Line /\ e.id = NoId /\ e.own
  BY <1>2, EntryType
<1> HIDE DEF c, e
<1>4. /\ Joined(c, e) \in Content
      /\ Placed(c, e) \in Line /\ Placed(c, e).id = NoId
      /\ Joined(c, e).lines = Append(c.lines, Placed(c, e))
      /\ Joined(c, e).rating = c.rating
      /\ Joined(c, e).tasks = c.tasks
  BY <1>1, <1>3, JoinedType DEF c
<1>5. [Placed(c, e) EXCEPT !.own = TRUE] = e
  <2>1. c.open = TRUE \/ c.open = FALSE
    <3>1. c \in Content
      BY <1>1 DEF c
    <3> QED
      BY <3>1, ContentParts
  <2>2. Placed(c, e) = [e EXCEPT !.own = TRUE] \/ Placed(c, e) = [e EXCEPT !.own = FALSE]
    BY <2>1 DEF Placed
  <2> QED
    BY <1>3, <2>2, LineType
<1>6. /\ Partly(c) \in Content
      /\ Placed(c, Fragment) \in Line /\ Placed(c, Fragment).id = NoId
      /\ Partly(c).lines = Append(c.lines, Placed(c, Fragment))
      /\ Partly(c).rating = c.rating /\ Partly(c).tasks = c.tasks
  BY <1>1, PartlyType DEF c
<1>7. Joined(c, e) # Absent /\ Partly(c) # Absent
  BY <1>4, <1>6, ContentParts
<1> QED
  BY <1>1, <1>2, <1>4, <1>5, <1>6, <1>7 DEF c, e

\* A writer is not disturbed by a step of another one.
LEMMA OthersSeen ==
  ASSUME StoreAssumption, Inv1, NEW w \in Writers, NEW v \in Writers, v # w,
         SameWriter(v),
         UNCHANGED files \/ (pc[w] \in Inside /\ \A m \in Notes : m # req[w].note => files'[m] = files[m])
  PROVE  Seen(v)'
<1>1. CASE pc[v] \notin Inside
  BY <1>1 DEF Seen, Inside, SameWriter
<1>2. CASE pc[v] \in Inside
  <2>1. files'[req[v].note] = files[req[v].note]
    BY <1>2, OwnNote, Exclusion DEF Inv1, Inside
  <2>2. Seen(v)
    BY DEF Inv1, SeenIsSo
  <2> QED
    BY <2>1, <2>2 DEF Seen, Rejected, SameWriter
<1> QED
  BY <1>1, <1>2

\* Neither is the writer that has just replaced its note.
LEMMA SetSeen ==
  ASSUME StoreAssumption, Inv1, NEW w \in Writers, NEW c \in Content,
         NEW place \in {"created", "text", "sync"}, pc[w] \in Inside,
         Set(req[w].note, c), Proceed(w, place)
  PROVE  SeenIsSo'
<1> DEFINE n == req[w].note
<1>1. n \in Notes /\ c # Absent /\ place \in Places
  BY OwnNote, ContentParts DEF Inside, Places
<1>0. TypeOK
  BY DEF Inv1
<1>2. \A m \in Notes : /\ files'[m] = IF m = n THEN c ELSE files[m]
                       /\ disk'[m] = IF m = n THEN disk[n] \cup {c} ELSE disk[m]
  BY <1>0, <1>1, SetType
<1>3. UNCHANGED <<req, want, copy>> /\ \A v \in Writers : pc'[v] = IF v = w THEN place ELSE pc[v]
  BY <1>1, ProceedType DEF Inv1
<1>4. \A m \in Notes : files'[m] \in disk'[m]
  BY <1>2 DEF Inv1, SeenIsSo
<1>5. Seen(w)'
  BY <1>1, <1>2, <1>3 DEF Seen
<1>6. \A v \in Writers : v # w => Seen(v)'
  BY <1>2, <1>3, OthersSeen DEF SameWriter
<1> QED
  BY <1>4, <1>5, <1>6 DEF SeenIsSo

\* A sync changes no content.
LEMMA SyncSeen ==
  ASSUME StoreAssumption, Inv1, NEW w \in Writers, pc[w] # "idle", Sync(req[w].note), UNCHANGED files,
         \A v \in Writers : v # w => SameWriter(v),
         Seen(w)'
  PROVE  SeenIsSo'
<1>0. TypeOK /\ req[w].note \in Notes
  BY OwnNote DEF Inv1
<1>1. \A m \in Notes : disk'[m] = IF m = req[w].note THEN {files[m]} ELSE disk[m]
  BY <1>0, SyncType
<1>2. \A m \in Notes : files'[m] \in disk'[m]
  BY <1>1 DEF Inv1, SeenIsSo
<1>3. \A v \in Writers : v # w => Seen(v)'
  BY OthersSeen
<1> QED
  BY <1>2, <1>3 DEF SeenIsSo

\* Each step keeps the types, and what every writer has seen.
LEMMA StateStep ==
  ASSUME StoreAssumption, Inv1, [Next]_vars
  PROVE  TypeOK' /\ SeenIsSo'
<1> USE DEF Inv1
<1>0. /\ TypeOK /\ SeenIsSo
      /\ \A w \in Writers : pc[w] # "idle" =>
           /\ req[w] \in Requests /\ req[w].note \in Notes
           /\ files[req[w].note] \in Content \cup {Absent}
  BY OwnNote
<1>1. ASSUME NEW w \in Writers, NEW r \in Requests, Begin(w, r)
      PROVE  TypeOK' /\ SeenIsSo'
  <2>1. /\ pc[w] = "idle" /\ pc'[w] \in {"idle", "ops", "note"} /\ pc' \in [Writers -> Places]
        /\ req' \in [Writers -> Requests \cup {NoRequest}]
        /\ want' \in [Writers -> States \cup {"next"}]
        /\ \A v \in Writers : v # w => SameWriter(v)
    BY <1>1, BeginWants DEF Begin, Goto, TypeOK, Places, SameWriter
  <2>2. TypeOK'
    BY <1>1, <2>1 DEF Begin, TypeOK, locks
  <2>3. SeenIsSo'
    BY <1>0, <1>1, <2>1, OthersSeen DEF Begin, SeenIsSo, Seen
  <2> QED
    BY <2>2, <2>3
<1>2. ASSUME NEW w \in Writers, LockOps(w)
      PROVE  TypeOK' /\ SeenIsSo'
  BY <1>0, <1>2 DEF LockOps, Goto, TypeOK, Places, SeenIsSo, Seen, Rejected
<1>3. ASSUME NEW w \in Writers, LockNote(w)
      PROVE  TypeOK' /\ SeenIsSo'
  BY <1>0, <1>3 DEF LockNote, Goto, TypeOK, Places, SeenIsSo, Seen, Rejected
<1>4. ASSUME NEW w \in Writers, Look(w)
      PROVE  TypeOK' /\ SeenIsSo'
  <2>1. pc[w] = "look" /\ Suits(req[w], "look") /\ UNCHANGED <<files, disk, started>> /\ faults' \in Nat
    BY <1>4 DEF Look, WorkOK, Fault, TypeOK
  <2>2. CASE Succeed(w) \/ Fail(w)
    <3>1. Return(w) /\ acked' \subseteq Requests
      BY <1>0, <2>1, <2>2 DEF Succeed, Fail, TypeOK
    <3>2. TypeOK'
      BY <2>1, <3>1, ReturnType DEF TypeOK
    <3>3. SeenIsSo'
      BY <1>0, <2>1, <3>1, ReturnType, OthersSeen DEF SeenIsSo, Seen
    <3> QED
      BY <3>2, <3>3
  <2>3. ASSUME NEW place \in {"create", "newline", "read", "sync"}, Proceed(w, place),
               place = "create" => files[req[w].note] = Absent,
               place \in {"newline", "sync"} => files[req[w].note] # Absent
        PROVE  TypeOK' /\ SeenIsSo'
    <3>1. place \in Places
      BY DEF Places
    <3>2. TypeOK'
      BY <2>1, <2>3, <3>1, ProceedType DEF TypeOK
    <3>3. Seen(w)'
      BY <2>1, <2>3, <3>1, ProceedType DEF Seen
    <3>4. SeenIsSo'
      BY <1>0, <2>1, <2>3, <3>1, <3>3, ProceedType, OthersSeen DEF SeenIsSo, SameWriter
    <3> QED
      BY <3>2, <3>4
  <2>4. Found(req[w]) => files[req[w].note] # Absent
    BY DEF Found, Marks
  <2> QED
    BY <1>4, <2>1, <2>2, <2>3, <2>4, LookCases
<1>5. ASSUME NEW w \in Writers, Create(w)
      PROVE  TypeOK' /\ SeenIsSo'
  <2>1. pc[w] = "create" /\ pc[w] \in Inside /\ Set(req[w].note, Template) /\ Proceed(w, "created")
        /\ UNCHANGED <<started, faults>>
    BY <1>5 DEF Create, Inside
  <2>2. "created" \in Places /\ Template \in Content /\ Template # Absent
    BY StartType, ContentParts DEF Places
  <2>3. TypeOK'
    BY <1>0, <2>1, <2>2, ProceedType, SetType DEF TypeOK
  <2>4. SeenIsSo'
    BY <2>1, <2>2, SetSeen
  <2> QED
    BY <2>3, <2>4
<1>6. ASSUME NEW w \in Writers, Created(w)
      PROVE  TypeOK' /\ SeenIsSo'
  <2>1. pc[w] = "created" /\ Suits(req[w], "created") /\ Sync(req[w].note)
        /\ UNCHANGED <<files, started, faults>> /\ files[req[w].note] # Absent
    BY <1>6 DEF Created, WorkOK, SeenIsSo, Seen
  <2>2. CASE Succeed(w)
    <3>1. Return(w) /\ acked' \subseteq Requests
      BY <1>0, <2>1, <2>2 DEF Succeed, TypeOK
    <3>2. TypeOK'
      BY <1>0, <2>1, <3>1, ReturnType, SyncType DEF TypeOK
    <3>3. Seen(w)' /\ \A v \in Writers : v # w =>
                        SameWriter(v)
      BY <3>1, ReturnType DEF Seen
    <3>4. SeenIsSo'
      BY <2>1, <3>3, SyncSeen
    <3> QED
      BY <3>2, <3>4
  <2>3. ASSUME NEW place \in {"newline", "read"}, Proceed(w, place)
        PROVE  TypeOK' /\ SeenIsSo'
    <3>1. place \in Places
      BY DEF Places
    <3>2. TypeOK'
      <4>1. /\ opsLock' \in Writers \cup {Nobody}
            /\ lock' \in [Notes -> Writers \cup {Nobody}]
            /\ pc' \in [Writers -> Places]
            /\ UNCHANGED <<req, want, copy, acked>>
        BY <1>0, <2>3, <3>1, ProceedType
      <4>2. disk' \in [Notes -> SUBSET (Content \cup {Absent})]
        BY <1>0, <2>1, SyncType
      <4> QED
        BY <1>0, <2>1, <4>1, <4>2 DEF TypeOK
    <3>3. Seen(w)'
      BY <2>1, <2>3, <3>1, ProceedType DEF Seen
    <3>4. \A v \in Writers : v # w => SameWriter(v)
      BY <2>3, <3>1, ProceedType DEF SameWriter
    <3>5. SeenIsSo'
      BY <2>1, <3>3, <3>4, SyncSeen
    <3> QED
      BY <3>2, <3>5
  <2> QED
    BY <1>6, <2>1, <2>2, <2>3, CreatedCases
<1>7. ASSUME NEW w \in Writers, Read(w)
      PROVE  TypeOK' /\ SeenIsSo'
  <2>1. pc[w] = "read" /\ UNCHANGED <<files, disk, started, faults>>
    BY <1>7 DEF Read
  <2>2. CASE Fail(w)
    <3>1. Return(w) /\ acked' = acked
      BY <2>2 DEF Fail
    <3>2. TypeOK'
      BY <1>0, <2>1, <3>1, ReturnType DEF TypeOK
    <3>3. SeenIsSo'
      BY <1>0, <2>1, <3>1, ReturnType, OthersSeen DEF SeenIsSo, Seen
    <3> QED
      BY <3>2, <3>3
  <2>3. CASE /\ ~Rejected(files[req[w].note], req[w], want[w])
             /\ copy' = [copy EXCEPT ![w] = files[req[w].note]]
             /\ Goto(w, "write")
             /\ UNCHANGED <<locks, req, want, acked>>
    <3>1. /\ copy' \in [Writers -> Content \cup {Absent}] /\ pc' \in [Writers -> Places]
          /\ pc'[w] = "write" /\ copy'[w] = files[req[w].note]
          /\ \A v \in Writers : v # w => SameWriter(v)
      BY <1>0, <2>1, <2>3 DEF Goto, TypeOK, Places, SameWriter
    <3>2. TypeOK'
      BY <2>1, <2>3, <3>1 DEF TypeOK, locks
    <3>3. Seen(w)'
      BY <2>1, <2>3, <3>1 DEF Seen, Rejected
    <3>4. SeenIsSo'
      BY <1>0, <2>1, <2>3, <3>1, <3>3, OthersSeen DEF SeenIsSo
    <3> QED
      BY <3>2, <3>4
  <2> QED
    BY <1>7, <2>2, <2>3 DEF Read
<1>8. ASSUME NEW w \in Writers, Write(w)
      PROVE  TypeOK' /\ SeenIsSo'
  <2> DEFINE d == Changed(copy[w], req[w], want[w])
  <2>1. pc[w] = "write" /\ pc[w] \in Inside /\ Set(req[w].note, d) /\ Proceed(w, "sync")
        /\ UNCHANGED <<started, faults>>
    BY <1>8 DEF Write, Inside
  <2>2. "sync" \in Places /\ d \in Content /\ d # Absent
    BY <2>1, WriteEffect DEF Places
  <2> HIDE DEF d
  <2>3. TypeOK'
    BY <1>0, <2>1, <2>2, ProceedType, SetType DEF TypeOK
  <2>4. SeenIsSo'
    BY <2>1, <2>2, SetSeen
  <2> QED
    BY <2>3, <2>4
<1>9. ASSUME NEW w \in Writers, SyncDirectory(w)
      PROVE  TypeOK' /\ SeenIsSo'
  <2>1. pc[w] = "sync" /\ Return(w) /\ acked' \subseteq Requests /\ Sync(req[w].note)
        /\ UNCHANGED <<files, started, faults>>
    BY <1>0, <1>9 DEF SyncDirectory, Succeed, TypeOK
  <2>2. TypeOK'
    BY <1>0, <2>1, ReturnType, SyncType DEF TypeOK
  <2>3. Seen(w)' /\ \A v \in Writers : v # w =>
                      SameWriter(v)
    BY <2>1, ReturnType DEF Seen
  <2>4. SeenIsSo'
    BY <2>1, <2>3, SyncSeen
  <2> QED
    BY <2>2, <2>4
<1>10. ASSUME NEW w \in Writers, Newline(w)
       PROVE  TypeOK' /\ SeenIsSo'
  <2> DEFINE d == [files[req[w].note] EXCEPT !.open = FALSE]
  <2>1. pc[w] = "newline" /\ pc[w] \in Inside /\ Proceed(w, "text") /\ started' = started
        /\ faults' \in Nat /\ (Set(req[w].note, d) \/ UNCHANGED <<files, disk>>)
    BY <1>10 DEF Newline, Inside, Fault, TypeOK
  <2>2. "text" \in Places /\ d \in Content /\ d # Absent
    BY <2>1, NewlineEffect DEF Places
  <2> HIDE DEF d
  <2>3. CASE Set(req[w].note, d)
    <3>1. TypeOK'
      BY <1>0, <2>1, <2>2, <2>3, ProceedType, SetType DEF TypeOK
    <3>2. SeenIsSo'
      BY <2>1, <2>2, <2>3, SetSeen
    <3> QED
      BY <3>1, <3>2
  <2>4. CASE UNCHANGED <<files, disk>>
    <3>1. TypeOK'
      BY <1>0, <2>1, <2>2, <2>4, ProceedType DEF TypeOK
    <3>2. Seen(w)' /\ \A v \in Writers : v # w => SameWriter(v)
      BY <1>0, <2>1, <2>2, <2>4, ProceedType DEF SeenIsSo, Seen, SameWriter
    <3>3. SeenIsSo'
      BY <1>0, <2>4, <3>2, OthersSeen DEF SeenIsSo
    <3> QED
      BY <3>1, <3>3
  <2> QED
    BY <2>1, <2>3, <2>4
<1>11. ASSUME NEW w \in Writers, Text(w)
       PROVE  TypeOK' /\ SeenIsSo'
  <2> DEFINE n == req[w].note
             whole == Joined(files[n], Entry(req[w]))
             part == Partly(files[n])
  <2>1. pc[w] = "text" /\ pc[w] \in Inside /\ n \in Notes /\ Return(w) /\ acked' \subseteq Requests
        /\ started' = started /\ faults' \in Nat
    BY <1>0, <1>11 DEF Text, Inside, Succeed, Fail, Fault, TypeOK
  <2>2. disk' = [disk EXCEPT ![n] = @ \cup {part, whole}]
        /\ (files' = [files EXCEPT ![n] = whole] \/ files' = [files EXCEPT ![n] = part])
    BY <1>11 DEF Text
  <2>3. whole \in Content /\ part \in Content
    BY <2>1, TextEffect
  <2> HIDE DEF n, whole, part
  <2>4. TypeOK'
    BY <1>0, <2>1, <2>2, <2>3, ReturnType DEF TypeOK
  <2>5. \A m \in Notes : files'[m] \in disk'[m]
    BY <1>0, <2>1, <2>2 DEF TypeOK, SeenIsSo
  <2>6. \A m \in Notes : m # n => files'[m] = files[m]
    BY <1>0, <2>2 DEF TypeOK
  <2>7. \A v \in Writers : Seen(v)'
    BY <2>1, <2>6, ReturnType, OthersSeen DEF Seen, n
  <2> QED
    BY <2>4, <2>5, <2>7 DEF SeenIsSo
<1>12. ASSUME NEW w \in Writers, GiveUp(w) \/ Error(w) \/ Crash(w)
       PROVE  TypeOK' /\ SeenIsSo'
  <2>1. Return(w) /\ UNCHANGED <<files, disk, acked, started>> /\ faults' \in Nat
    BY <1>0, <1>12 DEF GiveUp, Error, Crash, Fail, Fault, TypeOK
  <2>2. TypeOK'
    BY <1>0, <2>1, ReturnType DEF TypeOK
  <2>3. SeenIsSo'
    BY <1>0, <2>1, ReturnType, OthersSeen DEF SeenIsSo, Seen
  <2> QED
    BY <2>2, <2>3
<1>13. ASSUME PowerLoss
       PROVE  TypeOK' /\ SeenIsSo'
  <2>1. /\ \A n \in Notes : files'[n] \in disk[n] /\ files'[n] \in Content \cup {Absent}
        /\ files' = [n \in Notes |-> files'[n]]
    BY <1>13 DEF PowerLoss, TypeOK
  <2>2. files' \in [Notes -> Content \cup {Absent}]
    BY <2>1
  <2>3. disk' \in [Notes -> SUBSET (Content \cup {Absent})] /\ \A n \in Notes : files'[n] \in disk'[n]
    BY <1>13, <2>1 DEF PowerLoss
  <2>4. TypeOK'
    BY <1>13, <2>2, <2>3 DEF PowerLoss, Fault, TypeOK, Places
  <2>5. SeenIsSo'
    BY <1>13, <2>3 DEF PowerLoss, SeenIsSo, Seen
  <2> QED
    BY <2>4, <2>5
<1>14. ASSUME UNCHANGED vars
       PROVE  TypeOK' /\ SeenIsSo'
  BY <1>0, <1>14 DEF vars, TypeOK, SeenIsSo, Seen, Rejected
<1> QED
  BY <1>1, <1>2, <1>3, <1>4, <1>5, <1>6, <1>7, <1>8, <1>9, <1>10, <1>11, <1>12, <1>13, <1>14
     DEF Next, Handle, AllServed

\* The first part of the invariant.
LEMMA Inv1Step ==
  ASSUME StoreAssumption, Inv1, [Next]_vars
  PROVE  Inv1'
  BY ControlStep, StateStep DEF Inv1

LEMMA Inv1Init ==
  ASSUME StoreAssumption, Init
  PROVE  Inv1
<1>1. TypeOK
  BY StartType DEF Init, TypeOK, Places
<1> QED
  BY <1>1 DEF Init, Inv1, WorkOK, LocksHeld, SeenIsSo, Seen, Inside

\* The values of all variables stay within their types.
THEOREM TypeCorrect == Spec => []TypeOK
<1>1. Init => Inv1
  BY Inv1Init, StoreAssumption
<1>2. Inv1 /\ [Next]_vars => Inv1'
  BY Inv1Step, StoreAssumption
<1>3. Inv1 => TypeOK
  BY DEF Inv1
<1> QED
  BY <1>1, <1>2, <1>3, PTL DEF Spec

-----------------------------------------------------------------------------
(***************************************************************************)
(* Nothing is lost.                                                         *)
(***************************************************************************)

\* A note continues itself, and is continued by one with a line more.
LEMMA ContinuesSelf ==
  ASSUME NEW c \in Content \cup {Absent}
  PROVE  Continues(c, c)
  BY ContentParts DEF Continues, Prefix, SameTexts

LEMMA ContinuesAppend ==
  ASSUME NEW c \in Content, NEW d \in Content, NEW line \in Line,
         d.lines = Append(c.lines, line), d.rating = c.rating, d.tasks = c.tasks
  PROVE  Continues(c, d)
<1>1. Prefix(c.lines, Append(c.lines, line))
  BY ContentParts, AppendType DEF Prefix
<1> QED
  BY <1>1, ContentParts DEF Continues, SameTexts

\* A step writes at most one note, and what it writes continues it.
LEMMA ContinuesStep ==
  ASSUME StoreAssumption, Inv1, [Next]_vars
  PROVE  PowerLoss \/ \A n \in Notes : Continues(files[n], files'[n])
<1> USE DEF Inv1
<1>0. ASSUME UNCHANGED files
      PROVE  \A n \in Notes : Continues(files[n], files'[n])
  BY <1>0, ContinuesSelf DEF TypeOK
<1>1. ASSUME NEW w \in Writers, NEW d, pc[w] # "idle",
             files' = [files EXCEPT ![req[w].note] = d], Continues(files[req[w].note], d)
      PROVE  \A n \in Notes : Continues(files[n], files'[n])
  <2> SUFFICES ASSUME NEW n \in Notes
               PROVE  Continues(files[n], files'[n])
    OBVIOUS
  <2>1. CASE n = req[w].note
    BY <1>1, <2>1, OwnNote DEF TypeOK
  <2>2. CASE n # req[w].note
    BY <1>1, <2>2, ContinuesSelf DEF TypeOK
  <2> QED
    BY <2>1, <2>2
<1>2. ASSUME NEW w \in Writers, Create(w)
      PROVE  \A n \in Notes : Continues(files[n], files'[n])
  BY <1>1, <1>2 DEF Create, Set, SeenIsSo, Seen, Continues
<1>3. ASSUME NEW w \in Writers, Write(w)
      PROVE  \A n \in Notes : Continues(files[n], files'[n])
  <2>1. pc[w] = "write" /\ files' = [files EXCEPT ![req[w].note] = Changed(copy[w], req[w], want[w])]
    BY <1>3 DEF Write, Set
  <2>2. Continues(files[req[w].note], Changed(copy[w], req[w], want[w]))
    BY <2>1, WriteEffect
  <2> QED
    BY <1>1, <2>1, <2>2
<1>4. ASSUME NEW w \in Writers, Newline(w)
      PROVE  \A n \in Notes : Continues(files[n], files'[n])
  <2> DEFINE c == files[req[w].note]
             d == [c EXCEPT !.open = FALSE]
  <2>1. pc[w] = "newline" /\ (files' = [files EXCEPT ![req[w].note] = d] \/ UNCHANGED files)
    BY <1>4 DEF Newline, Set
  <2>2. c \in Content /\ d # Absent /\ d.lines = c.lines /\ d.rating = c.rating /\ d.tasks = c.tasks
    BY <2>1, NewlineEffect
  <2>3. Prefix(c.lines, c.lines) /\ SameTexts(c.tasks, c.tasks)
    BY <2>2, ContentParts DEF Prefix, SameTexts
  <2> HIDE DEF c, d
  <2>4. Continues(c, d)
    BY <2>2, <2>3 DEF Continues
  <2> QED
    BY <1>0, <1>1, <2>1, <2>4 DEF c
<1>5. ASSUME NEW w \in Writers, Text(w)
      PROVE  \A n \in Notes : Continues(files[n], files'[n])
  <2> DEFINE c == files[req[w].note]
             whole == Joined(c, Entry(req[w]))
             part == Partly(c)
             line == Placed(c, Entry(req[w]))
             piece == Placed(c, Fragment)
  <2>1. pc[w] = "text" /\ (\/ files' = [files EXCEPT ![req[w].note] = whole]
                           \/ files' = [files EXCEPT ![req[w].note] = part])
    BY <1>5 DEF Text
  <2>2. /\ c \in Content /\ line \in Line /\ piece \in Line
        /\ whole \in Content /\ whole.lines = Append(c.lines, line)
        /\ whole.rating = c.rating /\ whole.tasks = c.tasks
        /\ part \in Content /\ part.lines = Append(c.lines, piece)
        /\ part.rating = c.rating /\ part.tasks = c.tasks
    BY <2>1, TextEffect
  <2> HIDE DEF c, whole, part, line, piece
  <2>3. Continues(c, whole) /\ Continues(c, part)
    BY <2>2, ContinuesAppend
  <2> QED
    BY <1>1, <2>1, <2>3 DEF c
<1> QED
  BY <1>0, <1>2, <1>3, <1>4, <1>5
     DEF Next, Handle, AllServed, Begin, LockOps, LockNote, Look, Created, Read, SyncDirectory,
         GiveUp, Error, Crash, vars

\* Whatever writers of one note do at the same time, none takes back a line, a task
\* or a rating of another one.
THEOREM Kept == Spec => NothingIsLost
<1>1. Init => Inv1
  BY Inv1Init, StoreAssumption
<1>2. Inv1 /\ [Next]_vars => Inv1'
  BY Inv1Step, StoreAssumption
<1>3. Inv1 /\ [Next]_vars =>
        [PowerLoss \/ \A n \in Notes : Continues(files[n], files'[n])]_vars
  BY ContinuesStep, StoreAssumption
<1> QED
  BY <1>1, <1>2, <1>3, PTL DEF Spec, NothingIsLost

-----------------------------------------------------------------------------
(***************************************************************************)
(* Markers.                                                                 *)
(***************************************************************************)

\* The same markers, in the same lines.
Alike(c, d) ==
  \A id \in Ids : /\ Marks(d, id) = Marks(c, id)
                  /\ \A i \in Marks(c, id) : d.lines[i] = c.lines[i]

LEMMA AlikeLines ==
  ASSUME StoreAssumption, NEW c \in Content, NEW d \in Content, d.lines = c.lines
  PROVE  Alike(c, d)
  BY ContentParts DEF Alike, Marks

\* A line that carries no marker adds none.
LEMMA AlikeAppend ==
  ASSUME StoreAssumption, NEW c \in Content, NEW d \in Content, NEW line \in Line, line.id = NoId,
         d.lines = Append(c.lines, line)
  PROVE  Alike(c, d)
<1>1. /\ DOMAIN d.lines = DOMAIN c.lines \cup {Len(c.lines) + 1}
      /\ d.lines[Len(c.lines) + 1] = line
      /\ \A i \in DOMAIN c.lines : d.lines[i] = c.lines[i]
  BY ContentParts
<1>2. NoId \notin Ids /\ c # Absent /\ d # Absent
  BY StoreAssumption
<1> QED
  BY <1>1, <1>2 DEF Alike, Marks

LEMMA AlikeTemplate == StoreAssumption => Alike(Absent, Template)
  BY DEF Alike, Marks, Template

\* d has one marker more than c, that of r.
Entered(c, d, r) ==
  \E k :
    /\ d.lines[k] = Entry(r)
    /\ Marks(d, r.id) = Marks(c, r.id) \cup {k}
    /\ \A id \in Ids : id # r.id => Marks(d, id) = Marks(c, id)
    /\ \A id \in Ids : \A i \in Marks(c, id) : i \in Marks(d, id) /\ d.lines[i] = c.lines[i]

LEMMA MarkAppend ==
  ASSUME StoreAssumption, NEW c \in Content, NEW d \in Content, NEW r \in Requests,
         d.lines = Append(c.lines, Entry(r))
  PROVE  Entered(c, d, r)
<1> DEFINE k == Len(c.lines) + 1
<1>1. /\ DOMAIN d.lines = DOMAIN c.lines \cup {k}
      /\ d.lines[k] = Entry(r)
      /\ \A i \in DOMAIN c.lines : d.lines[i] = c.lines[i]
      /\ k \notin DOMAIN c.lines
  BY ContentParts, EntryType
<1>2. c # Absent /\ d # Absent /\ Entry(r).id = r.id
  BY StoreAssumption, EntryType
<1> HIDE DEF k
<1>3. \A id : Marks(d, id) = Marks(c, id) \cup (IF id = r.id THEN {k} ELSE {})
  BY <1>1, <1>2 DEF Marks
<1>4. \A id : \A i \in Marks(c, id) : i \in Marks(d, id) /\ d.lines[i] = c.lines[i]
  BY <1>1, <1>2 DEF Marks
<1>5. Marks(d, r.id) = Marks(c, r.id) \cup {k}
  BY <1>3
<1>6. \A id \in Ids : id # r.id => Marks(d, id) = Marks(c, id)
  BY <1>3
<1> QED
  BY <1>1, <1>4, <1>5, <1>6 DEF Entered

\* A step after which no file, whatever the power does, has other markers.
Quiet ==
  \A n \in Notes : /\ Alike(files[n], files'[n])
                   /\ \A c \in disk'[n] : c \in disk[n] \/ Alike(files[n], c)

\* The step that leaves a marker.
Marked(w) == Write(w) /\ req[w].op \in Marking

\* Only that step and a loss of power change any marker.
LEMMA QuietStep ==
  ASSUME StoreAssumption, Inv1, [Next]_vars
  PROVE  Quiet \/ PowerLoss \/ \E w \in Writers : Marked(w)
<1> USE DEF Inv1
<1>0. \A c : Alike(c, c)
  BY DEF Alike
<1>1. ASSUME UNCHANGED <<files, disk>>
      PROVE  Quiet
  BY <1>0, <1>1 DEF Quiet
<1>2. ASSUME NEW w \in Writers, NEW n \in Notes, Sync(n), UNCHANGED files
      PROVE  Quiet
  BY <1>0, <1>2, SyncType DEF Quiet
<1>3. ASSUME NEW n \in Notes, NEW d \in Content, Set(n, d), Alike(files[n], d)
      PROVE  Quiet
  <2>1. \A m \in Notes : /\ files'[m] = IF m = n THEN d ELSE files[m]
                         /\ disk'[m] = IF m = n THEN disk[n] \cup {d} ELSE disk[m]
    BY <1>3, SetType
  <2> QED
    BY <1>0, <1>3, <2>1 DEF Quiet
<1>4. ASSUME NEW w \in Writers, Create(w)
      PROVE  Quiet
  <2>1. files[req[w].note] = Absent /\ Set(req[w].note, Template) /\ req[w].note \in Notes
    BY <1>4, OwnNote DEF Create, SeenIsSo, Seen
  <2> QED
    BY <2>1, <1>3, AlikeTemplate, StartType
<1>5. ASSUME NEW w \in Writers, Created(w) \/ SyncDirectory(w)
      PROVE  Quiet
  BY <1>2, <1>5, OwnNote DEF Created, SyncDirectory
<1>6. ASSUME NEW w \in Writers, Write(w), req[w].op \notin Marking
      PROVE  Quiet
  <2> DEFINE c == files[req[w].note]
             d == Changed(copy[w], req[w], want[w])
  <2>1. c \in Content /\ d \in Content /\ d.lines = c.lines /\ Set(req[w].note, d) /\ req[w].note \in Notes
    BY <1>6, WriteEffect, OwnNote DEF Write
  <2> HIDE DEF d
  <2> QED
    BY <2>1, <1>3, AlikeLines
<1>7. ASSUME NEW w \in Writers, Newline(w)
      PROVE  Quiet
  <2> DEFINE c == files[req[w].note]
             d == [c EXCEPT !.open = FALSE]
  <2>1. c \in Content /\ d \in Content /\ d.lines = c.lines /\ req[w].note \in Notes
        /\ (Set(req[w].note, d) \/ UNCHANGED <<files, disk>>)
    BY <1>7, NewlineEffect, OwnNote DEF Newline
  <2> HIDE DEF d
  <2> QED
    BY <2>1, <1>1, <1>3, AlikeLines
<1>8. ASSUME NEW w \in Writers, Text(w)
      PROVE  Quiet
  <2> DEFINE n == req[w].note
             c == files[n]
             whole == Joined(c, Entry(req[w]))
             part == Partly(c)
             line == Placed(c, Entry(req[w]))
             piece == Placed(c, Fragment)
  <2>1. /\ disk' = [disk EXCEPT ![n] = @ \cup {part, whole}]
        /\ (files' = [files EXCEPT ![n] = whole] \/ files' = [files EXCEPT ![n] = part])
    BY <1>8 DEF Text
  <2>2. /\ n \in Notes /\ c \in Content /\ line \in Line /\ piece \in Line
        /\ line.id = NoId /\ piece.id = NoId
        /\ whole \in Content /\ whole.lines = Append(c.lines, line)
        /\ part \in Content /\ part.lines = Append(c.lines, piece)
    BY <1>8, TextEffect, OwnNote DEF Text
  <2> HIDE DEF n, c, whole, part, line, piece
  <2>3. Alike(c, whole) /\ Alike(c, part)
    BY <2>2, AlikeAppend
  <2> QED
    BY <1>0, <2>1, <2>2, <2>3 DEF Quiet, TypeOK, c
<1> QED
  BY <1>1, <1>4, <1>5, <1>6, <1>7, <1>8
     DEF Next, Handle, AllServed, Begin, LockOps, LockNote, Look, Read,
         GiveUp, Error, Crash, vars, Marked

\* A writer makes its note the content d, which ends in its marker.
MarkedTo(w, d) ==
  LET n == req[w].note IN
  /\ n \in Notes /\ files[n] \in Content /\ req[w] \in Requests /\ req[w].id \in Ids
  /\ d.lines = Append(files[n].lines, Entry(req[w]))
  /\ \A m \in Notes : /\ files'[m] = IF m = n THEN d ELSE files[m]
                      /\ disk'[m] = IF m = n THEN disk[m] \cup {d} ELSE disk[m]
  /\ pc[w] = "write" /\ acked' = acked /\ req' = req
  /\ \A v \in Writers : pc'[v] = IF v = w THEN "sync" ELSE pc[v]

\* That is what the step that leaves a marker does.
LEMMA MarkedStep ==
  ASSUME StoreAssumption, Inv1, NEW w \in Writers, Marked(w)
  PROVE  \E d \in Content : MarkedTo(w, d)
<1> DEFINE n == req[w].note
           c == files[n]
           d == Changed(copy[w], req[w], want[w])
<1>1. pc[w] = "write" /\ Set(n, d) /\ Proceed(w, "sync") /\ req[w].op \in Marking
  BY DEF Marked, Write
<1>2. n \in Notes /\ req[w] \in Requests
  BY <1>1, OwnNote
<1>3. req[w].id \in Ids
  BY <1>1, <1>2, StoreAssumption DEF Request
<1>4. c \in Content /\ d \in Content /\ d.lines = Append(c.lines, Entry(req[w]))
  BY <1>1, WriteEffect
<1>5. "sync" \in Places
  BY DEF Places
<1> HIDE DEF d
<1>6. \A m \in Notes : /\ files'[m] = IF m = n THEN d ELSE files[m]
                       /\ disk'[m] = IF m = n THEN disk[m] \cup {d} ELSE disk[m]
  BY <1>1, <1>2, <1>4 DEF Inv1, TypeOK, Set
<1>7. acked' = acked /\ req' = req /\ \A v \in Writers : pc'[v] = IF v = w THEN "sync" ELSE pc[v]
  BY <1>1, <1>5, ProceedType DEF Inv1
<1> QED
  BY <1>1, <1>2, <1>3, <1>4, <1>6, <1>7 DEF MarkedTo

\* A quiet step leaves alone what is known of the markers.
LEMMA QuietMarks ==
  ASSUME Quiet, Behind, Origin, WrittenOnce
  PROVE  Behind' /\ Origin' /\ WrittenOnce'
<1>1. \A n \in Notes, id \in Ids :
        /\ Marks(files'[n], id) = Marks(files[n], id)
        /\ \A i \in Marks(files[n], id) : files'[n].lines[i] = files[n].lines[i]
  BY DEF Quiet, Alike
<1>2. Behind'
  <2> SUFFICES ASSUME NEW n \in Notes, NEW id \in Ids, NEW c \in disk'[n], NEW i \in Marks(c, id)
               PROVE  i \in Marks(files'[n], id) /\ files'[n].lines[i] = c.lines[i]
    BY DEF Behind, Marks
  <2>1. CASE c \in disk[n]
    BY <1>1, <2>1 DEF Behind
  <2>2. CASE Alike(files[n], c)
    BY <1>1, <2>2 DEF Alike
  <2> QED
    BY <2>1, <2>2 DEF Quiet
<1>3. \A n \in Notes, id \in Ids : \A i \in Marks(files'[n], id) :
        \E r \in Requests : r.note = n /\ files'[n].lines[i] = Entry(r)
  BY <1>1 DEF Origin
<1>4. \A m, n \in Notes, id \in Ids :
        \A i \in Marks(files'[m], id), k \in Marks(files'[n], id) : m = n /\ i = k
  BY <1>1 DEF WrittenOnce
<1> QED
  BY <1>2, <1>3, <1>4 DEF Origin, WrittenOnce, Marks

\* A loss of power only takes markers away.
LEMMA PowerMarks ==
  ASSUME PowerLoss, Behind, Origin, WrittenOnce
  PROVE  Behind' /\ Origin' /\ WrittenOnce'
<1>1. \A n \in Notes : files'[n] \in disk[n] /\ disk'[n] = {files'[n]}
  BY DEF PowerLoss
<1>2. \A n \in Notes, id \in Ids : \A i \in Marks(files'[n], id) :
        i \in Marks(files[n], id) /\ files'[n].lines[i] = files[n].lines[i]
  BY <1>1 DEF Behind
<1>3. \A n \in Notes, id \in Ids : \A c \in disk'[n] : \A i \in Marks(c, id) :
        i \in Marks(files'[n], id) /\ files'[n].lines[i] = c.lines[i]
  BY <1>1
<1>4. \A n \in Notes, id \in Ids : \A i \in Marks(files'[n], id) :
        \E r \in Requests : r.note = n /\ files'[n].lines[i] = Entry(r)
  BY <1>2 DEF Origin
<1>5. \A m, n \in Notes, id \in Ids :
        \A i \in Marks(files'[m], id), k \in Marks(files'[n], id) : m = n /\ i = k
  BY <1>2 DEF WrittenOnce
<1> QED
  BY <1>3, <1>4, <1>5 DEF Behind, Origin, WrittenOnce, Marks

\* The new marker is the only one of its operation.
LEMMA MarkedMarks ==
  ASSUME StoreAssumption, Inv2, NEW w \in Writers, Marked(w)
  PROVE  Behind' /\ Origin' /\ WrittenOnce'
<1> DEFINE n == req[w].note
<1>0. PICK d \in Content : MarkedTo(w, d)
  BY MarkedStep DEF Inv2
<1>1. /\ n \in Notes /\ files[n] \in Content /\ req[w] \in Requests /\ req[w].id \in Ids
      /\ d.lines = Append(files[n].lines, Entry(req[w]))
      /\ \A m \in Notes : /\ files'[m] = IF m = n THEN d ELSE files[m]
                          /\ disk'[m] = IF m = n THEN disk[m] \cup {d} ELSE disk[m]
      /\ pc[w] = "write"
  BY <1>0 DEF MarkedTo
<1>2. \A m \in Notes : Marks(files[m], req[w].id) = {}
  BY <1>1 DEF Inv2, Unmarked, Marked
<1>3. PICK r \in Requests : r = req[w] /\ r.note = n /\ r.id \in Ids
  BY <1>1
<1>4. PICK c \in Content : c = files[n]
  BY <1>1
<1> HIDE DEF n
<1>5. /\ c \in Content /\ d \in Content /\ d.lines = Append(c.lines, Entry(r)) /\ n \in Notes
      /\ files'[n] = d /\ disk'[n] = disk[n] \cup {d}
      /\ \A m \in Notes : m # n => files'[m] = files[m] /\ disk'[m] = disk[m]
      /\ \A m \in Notes : Marks(files[m], r.id) = {}
  BY <1>1, <1>2, <1>3, <1>4
<1>6. PICK k :
        /\ d.lines[k] = Entry(r)
        /\ Marks(d, r.id) = Marks(c, r.id) \cup {k}
        /\ \A id \in Ids : id # r.id => Marks(d, id) = Marks(c, id)
        /\ \A id \in Ids : \A i \in Marks(c, id) : i \in Marks(d, id) /\ d.lines[i] = c.lines[i]
  <2>1. Entered(c, d, r)
    BY <1>5, MarkAppend
  <2> QED
    BY <2>1 DEF Entered
<1>7. /\ \A id \in Ids : id # r.id => Marks(d, id) = Marks(files[n], id)
      /\ \A i \in Marks(d, r.id) : i = k
      /\ \A id \in Ids : \A i \in Marks(files[n], id) : i \in Marks(d, id) /\ d.lines[i] = files[n].lines[i]
      /\ d.lines[k] = Entry(r)
  BY <1>4, <1>5, <1>6
<1>8. Behind'
  <2> SUFFICES ASSUME NEW m \in Notes, NEW id \in Ids, NEW e \in disk'[m], NEW i \in Marks(e, id)
               PROVE  i \in Marks(files'[m], id) /\ files'[m].lines[i] = e.lines[i]
    BY DEF Behind, Marks
  <2>1. CASE e \in disk[m]
    <3>1. i \in Marks(files[m], id) /\ files[m].lines[i] = e.lines[i]
      BY <2>1 DEF Inv2, Behind
    <3> QED
      BY <1>5, <1>7, <3>1
  <2>2. CASE e = d /\ m = n
    BY <1>5, <2>2
  <2> QED
    BY <1>5, <2>1, <2>2
<1>9. \A m \in Notes, id \in Ids : \A i \in Marks(files'[m], id) :
        \E s \in Requests : s.note = m /\ files'[m].lines[i] = Entry(s)
  <2> SUFFICES ASSUME NEW m \in Notes, NEW id \in Ids, NEW i \in Marks(files'[m], id)
               PROVE  \E s \in Requests : s.note = m /\ files'[m].lines[i] = Entry(s)
    OBVIOUS
  <2>1. CASE i \in Marks(files[m], id)
    <3>1. files'[m].lines[i] = files[m].lines[i]
      BY <1>5, <1>7, <2>1
    <3> QED
      BY <2>1, <3>1 DEF Inv2, Origin
  <2>2. CASE i = k /\ m = n
    BY <1>3, <1>5, <1>7, <2>2
  <2> QED
    BY <1>5, <1>7, <2>1, <2>2
<1>10. \A m, o \in Notes, id \in Ids :
         \A i \in Marks(files'[m], id), j \in Marks(files'[o], id) : m = o /\ i = j
  <2> SUFFICES ASSUME NEW m \in Notes, NEW o \in Notes, NEW id \in Ids,
                      NEW i \in Marks(files'[m], id), NEW j \in Marks(files'[o], id)
               PROVE  m = o /\ i = j
    OBVIOUS
  <2>1. CASE id = r.id
    BY <1>5, <1>7, <2>1
  <2>2. CASE id # r.id
    <3>1. i \in Marks(files[m], id) /\ j \in Marks(files[o], id)
      BY <1>5, <1>7, <2>2
    <3> QED
      BY <3>1 DEF Inv2, WrittenOnce
  <2> QED
    BY <2>1, <2>2
<1> QED
  BY <1>8, <1>9, <1>10 DEF Origin, WrittenOnce, Marks

\* A search that finds no marker and no conflict has excluded every note, those it
\* does not look through too.
LEMMA SearchIsEnough ==
  ASSUME StoreAssumption, Origin, NEW r \in Requests, r.op \in Marking, ~Conflict(r), ~Found(r)
  PROVE  \A n \in Notes : Marks(files[n], r.id) = {}
<1> SUFFICES ASSUME NEW n \in Notes, NEW i \in Marks(files[n], r.id)
             PROVE  FALSE
  OBVIOUS
<1>1. r.id \in Ids /\ r.id # NoId
  BY StoreAssumption DEF Request
<1>2. n # r.note
  BY DEF Found
<1>3. n \notin Scanned(r)
  BY <1>2 DEF Conflict
<1>4. PICK s \in Requests : s.note = n /\ files[n].lines[i] = Entry(s)
  BY <1>1 DEF Origin
<1>5. s.id = r.id
  BY <1>4 DEF Marks, Entry
<1>6. s.op \in Marking
  BY <1>1, <1>5, StoreAssumption
<1>7. CASE r.op = "once"
  <2>1. n \notin Daily
    BY <1>3, <1>7 DEF Scanned
  <2>2. s.op = "pathOnce"
    BY <1>4, <1>6, <2>1, StoreAssumption DEF Marking, ByPath
  <2> QED
    BY <1>5, <1>7, <2>2, StoreAssumption
<1>8. CASE r.op = "pathOnce"
  BY <1>2, <1>4, <1>5, <1>8, StoreAssumption
<1> QED
  BY <1>7, <1>8 DEF Marking

\* How a writer comes to stand where it is about to carry out its operation, or to
\* acknowledge it.
LEMMA Arrivals ==
  ASSUME StoreAssumption, Inv1, [Next]_vars, NEW v \in Writers
  PROVE  /\ pc'[v] \in {"create", "created", "read", "write"} /\ req'[v].op \in Marking =>
              /\ req'[v] = req[v]
              /\ \/ pc[v] \in {"create", "created", "read", "write"}
                 \/ UNCHANGED files /\ ~Conflict(req[v]) /\ ~Found(req[v])
         /\ pc'[v] = "sync" /\ req'[v].op \in Marking =>
              /\ req'[v] = req[v]
              /\ \/ pc[v] = "sync"
                 \/ UNCHANGED files /\ ~Conflict(req[v]) /\ Found(req[v])
                 \/ Marked(v)
<1> USE DEF Inv1
<1> DEFINE Front == {"create", "created", "read", "write"}
           Arrival == /\ pc'[v] \in Front /\ req'[v].op \in Marking =>
                           /\ req'[v] = req[v]
                           /\ \/ pc[v] \in Front
                              \/ UNCHANGED files /\ ~Conflict(req[v]) /\ ~Found(req[v])
                      /\ pc'[v] = "sync" /\ req'[v].op \in Marking =>
                           /\ req'[v] = req[v]
                           /\ \/ pc[v] = "sync"
                              \/ UNCHANGED files /\ ~Conflict(req[v]) /\ Found(req[v])
                              \/ Marked(v)
<1>1. ASSUME NEW w \in Writers, Return(w)
      PROVE  Arrival
  BY <1>1, ReturnType DEF SameWriter
<1>2. ASSUME NEW w \in Writers, w # v, NEW place, Goto(w, place), UNCHANGED req
      PROVE  Arrival
  BY <1>2 DEF Goto, TypeOK
<1>3. ASSUME NEW w \in Writers, NEW r \in Requests, Begin(w, r)
      PROVE  Arrival
  BY <1>3 DEF Begin, Goto, TypeOK
<1>4. ASSUME NEW w \in Writers, LockOps(w) \/ LockNote(w)
      PROVE  Arrival
  BY <1>4 DEF LockOps, LockNote, Goto, TypeOK
<1>5. ASSUME NEW w \in Writers, Look(w)
      PROVE  Arrival
  <2>1. Suits(req[w], "look") /\ UNCHANGED files
    BY <1>5 DEF Look, WorkOK
  <2>2. CASE Return(w)
    BY <1>1, <2>2
  <2>3. CASE w # v /\ \E place \in Places : Proceed(w, place)
    BY <1>2, <2>3 DEF Proceed
  <2>4. CASE w = v /\ ~Return(w)
    <3>1. \/ Proceed(v, "create") /\ (req[v].op \in Marking => ~Conflict(req[v]) /\ ~Found(req[v]))
          \/ Proceed(v, "newline")
          \/ Proceed(v, "read") /\ (req[v].op \in Marking => ~Conflict(req[v]) /\ ~Found(req[v]))
          \/ Proceed(v, "sync") /\ Found(req[v]) /\ ~Conflict(req[v])
      BY <1>5, <2>1, <2>4, LookCases DEF Succeed, Fail
    <3> QED
      BY <2>1, <3>1 DEF Proceed, Goto, TypeOK
  <2> QED
    BY <1>5, <2>1, <2>2, <2>3, <2>4, LookCases DEF Succeed, Fail, Places
<1>6. ASSUME NEW w \in Writers, Create(w)
      PROVE  Arrival
  BY <1>6 DEF Create, Proceed, Goto, TypeOK
<1>7. ASSUME NEW w \in Writers, Created(w)
      PROVE  Arrival
  <2>1. Suits(req[w], "created") /\ pc[w] = "created"
    BY <1>7 DEF Created, WorkOK
  <2>2. CASE Return(w)
    BY <1>1, <2>2
  <2>3. CASE Proceed(w, "newline") \/ Proceed(w, "read")
    BY <2>1, <2>3 DEF Proceed, Goto, TypeOK
  <2> QED
    BY <1>7, <2>1, <2>2, <2>3, CreatedCases DEF Succeed
<1>8. ASSUME NEW w \in Writers, Read(w)
      PROVE  Arrival
  <2>1. CASE Return(w)
    BY <1>1, <2>1
  <2>2. CASE Goto(w, "write") /\ UNCHANGED req
    BY <1>8, <2>2 DEF Read, Goto, TypeOK
  <2> QED
    BY <1>8, <2>1, <2>2 DEF Read, Fail
<1>9. ASSUME NEW w \in Writers, Write(w)
      PROVE  Arrival
  BY <1>9 DEF Write, Marked, Proceed, Goto, TypeOK
<1>10. ASSUME NEW w \in Writers, Newline(w)
       PROVE  Arrival
  BY <1>10 DEF Newline, Proceed, Goto, TypeOK
<1>11. ASSUME NEW w \in Writers, SyncDirectory(w) \/ Text(w) \/ GiveUp(w) \/ Error(w) \/ Crash(w)
       PROVE  Arrival
  BY <1>1, <1>11 DEF SyncDirectory, Text, GiveUp, Error, Crash, Succeed, Fail
<1>12. ASSUME PowerLoss
       PROVE  Arrival
  BY <1>12 DEF PowerLoss
<1>13. ASSUME UNCHANGED vars
       PROVE  Arrival
  BY <1>13 DEF vars
<1> QED
  BY <1>3, <1>4, <1>5, <1>6, <1>7, <1>8, <1>9, <1>10, <1>11, <1>12, <1>13
     DEF Next, Handle, AllServed

\* Two writers never carry out one operation at the same time: either both append
\* to a daily note and hold the lock of the operations, or both have the same note.
LEMMA OneAtATime ==
  ASSUME StoreAssumption, Inv1, NEW v \in Writers, NEW w \in Writers, v # w,
         pc[v] \in Inside, pc[w] \in Inside, req[v].op \in Marking, req[w].op \in Marking
  PROVE  req[v].id # req[w].id
<1> SUFFICES ASSUME req[v].id = req[w].id
             PROVE  FALSE
  OBVIOUS
<1>1. req[v] \in Requests /\ req[w] \in Requests
  BY OwnNote DEF Inside
<1>2. CASE req[v].op = "once" /\ req[w].op = "once"
  BY <1>2 DEF Inv1, LocksHeld
<1>3. CASE req[v].op = "pathOnce" \/ req[w].op = "pathOnce"
  <2>1. req[v].note = req[w].note
    BY <1>1, <1>3, StoreAssumption
  <2> QED
    BY <2>1, Exclusion DEF Inv1
<1> QED
  BY <1>2, <1>3 DEF Marking

\* Each step keeps every operation that is about to be carried out unmarked.
LEMMA UnmarkedStep ==
  ASSUME StoreAssumption, Inv2, [Next]_vars
  PROVE  Unmarked'
<1> SUFFICES ASSUME NEW v \in Writers, pc'[v] \in {"create", "created", "read", "write"},
                    req'[v].op \in Marking, NEW n \in Notes
             PROVE  Marks(files'[n], req'[v].id) = {}
  BY DEF Unmarked, Marks
<1>1. req'[v] = req[v]
  BY Arrivals DEF Inv2
<1>2. CASE UNCHANGED files /\ ~Conflict(req[v]) /\ ~Found(req[v]) /\ pc[v] \notin {"create", "created", "read", "write"}
  <2>1. req[v] \in Requests
    <3>1. pc'[v] # "idle"
      OBVIOUS
    <3> QED
      BY <1>1, <3>1, Inv1Step DEF Inv2, Inv1, WorkOK, Suits
  <2> QED
    BY <1>1, <1>2, <2>1, SearchIsEnough DEF Inv2
<1>3. CASE pc[v] \in {"create", "created", "read", "write"}
  <2>1. Marks(files[n], req[v].id) = {} /\ req[v] \in Requests /\ req[v].id \in Ids
    <3>1. req[v] \in Requests
      BY <1>3, OwnNote DEF Inv2
    <3>2. req[v].id \in Ids
      BY <1>1, <3>1, StoreAssumption DEF Request
    <3> QED
      BY <1>1, <1>3, <3>1, <3>2 DEF Inv2, Unmarked
  <2>2. CASE Quiet
    BY <1>1, <2>1, <2>2 DEF Quiet, Alike
  <2>3. CASE PowerLoss
    BY <2>3 DEF PowerLoss
  <2>4. ASSUME NEW w \in Writers, Marked(w)
        PROVE  Marks(files'[n], req'[v].id) = {}
    <3>1. PICK d \in Content : MarkedTo(w, d)
      BY <2>4, MarkedStep DEF Inv2
    <3>2. v # w /\ pc[w] \in Inside /\ pc[v] \in Inside /\ req[w].op \in Marking
      BY <1>3, <2>4, <3>1 DEF Inside, Marked, MarkedTo
    <3>3. req[v].id # req[w].id
      BY <1>1, <3>2, OneAtATime DEF Inv2
    <3>4. d \in Content /\ Entered(files[req[w].note], d, req[w])
      BY <3>1, MarkAppend DEF MarkedTo
    <3>5. Marks(d, req[v].id) = Marks(files[req[w].note], req[v].id)
      BY <2>1, <3>3, <3>4 DEF Entered
    <3> QED
      BY <1>1, <2>1, <3>1, <3>5 DEF MarkedTo
  <2> QED
    BY <2>2, <2>3, <2>4, QuietStep DEF Inv2
<1> QED
  BY <1>2, <1>3, Arrivals DEF Inv2

LEMMA Inv2Init ==
  ASSUME StoreAssumption, Init
  PROVE  Inv2
<1>1. \A n \in Notes, id \in Ids : Marks(files[n], id) = {} /\ disk[n] = {files[n]}
  BY DEF Init, Marks, Template, Unterminated, StoreAssumption
<1> QED
  BY <1>1, Inv1Init DEF Init, Inv2, Behind, Origin, Unmarked, WrittenOnce

LEMMA Inv2Step ==
  ASSUME StoreAssumption, Inv2, [Next]_vars
  PROVE  Inv2'
<1>1. Inv1' /\ Unmarked'
  BY Inv1Step, UnmarkedStep DEF Inv2
<1>2. Behind' /\ Origin' /\ WrittenOnce'
  BY QuietStep, QuietMarks, PowerMarks, MarkedMarks DEF Inv2
<1> QED
  BY <1>1, <1>2 DEF Inv2

\* However often an operation is repeated, and whatever fails in between, its text
\* is written once.
THEOREM Once == Spec => []WrittenOnce
<1>1. Init => Inv2
  BY Inv2Init, StoreAssumption
<1>2. Inv2 /\ [Next]_vars => Inv2'
  BY Inv2Step, StoreAssumption
<1>3. Inv2 => WrittenOnce
  BY DEF Inv2
<1> QED
  BY <1>1, <1>2, <1>3, PTL DEF Spec

-----------------------------------------------------------------------------
(***************************************************************************)
(* Acknowledgements.                                                        *)
(***************************************************************************)

\* A search without conflict that finds a marker has found this very request.
LEMMA FoundIsHas ==
  ASSUME StoreAssumption, NEW r \in Requests, r.op \in Marking, Found(r), ~Conflict(r)
  PROVE  Has(files[r.note], r)
<1>1. PICK i : i \in Marks(files[r.note], r.id)
  BY DEF Found
<1>2. r.note \in Scanned(r)
  BY StoreAssumption DEF Scanned, Marking, ByPath
<1> QED
  BY <1>1, <1>2 DEF Conflict, Has

\* Alike contents hold the same operations.
LEMMA AlikeHas ==
  ASSUME StoreAssumption, NEW r \in Requests, r.op \in Marking, NEW c, NEW d, Alike(c, d), Has(c, r)
  PROVE  Has(d, r)
<1>1. r.id \in Ids
  BY StoreAssumption DEF Request
<1> QED
  BY <1>1 DEF Alike, Has

\* The new one holds its operation, and those the old one held.
LEMMA EnteredHas ==
  ASSUME StoreAssumption, NEW r \in Requests, r.op \in Marking, NEW c, NEW d, NEW s \in Requests,
         Entered(c, d, s)
  PROVE  Has(d, s) /\ (Has(c, r) => Has(d, r))
<1>1. r.id \in Ids
  BY StoreAssumption DEF Request
<1>2. Has(d, s)
  BY DEF Entered, Has
<1>3. Has(c, r) => Has(d, r)
  BY <1>1 DEF Entered, Has
<1> QED
  BY <1>2, <1>3

LEMMA InNoteStep ==
  ASSUME StoreAssumption, Inv3, [Next]_vars
  PROVE  InNote'
<1> SUFFICES ASSUME NEW v \in Writers, pc'[v] = "sync", req'[v].op \in Marking
             PROVE  Has(files'[req'[v].note], req'[v])
  BY DEF InNote, Has, Marks, Entry
<1> DEFINE r == req[v]
           n == r.note
<1>1. req'[v] = r /\ (\/ pc[v] = "sync"
                      \/ UNCHANGED files /\ ~Conflict(r) /\ Found(r)
                      \/ Marked(v))
  BY Arrivals DEF Inv3, Inv2
<1>2. r \in Requests /\ n \in Notes /\ r.op \in Marking
  <2>1. req'[v] \in Requests
    BY Inv2Step DEF Inv3, Inv2, Inv1, WorkOK, Suits
  <2> QED
    BY <1>1, <2>1, StoreAssumption DEF Request
<1>3. CASE UNCHANGED files /\ ~Conflict(r) /\ Found(r)
  BY <1>1, <1>2, <1>3, FoundIsHas
<1>4. ASSUME NEW w \in Writers, Marked(w)
      PROVE  \E d \in Content : /\ Entered(files[req[w].note], d, req[w])
                                /\ req[w] \in Requests
                                /\ \A m \in Notes : files'[m] = IF m = req[w].note THEN d ELSE files[m]
  <2>1. PICK d \in Content : MarkedTo(w, d)
    BY <1>4, MarkedStep DEF Inv3, Inv2
  <2>2. d \in Content /\ Entered(files[req[w].note], d, req[w])
    BY <2>1, MarkAppend DEF MarkedTo
  <2> QED
    BY <2>1, <2>2 DEF MarkedTo
<1>5. CASE Marked(v)
  <2>1. PICK d \in Content : Entered(files[n], d, r) /\ files'[n] = d
    BY <1>2, <1>4, <1>5
  <2>2. Has(d, r)
    BY <1>2, <2>1, EnteredHas
  <2> QED
    BY <1>1, <2>1, <2>2
<1>6. CASE pc[v] = "sync"
  <2>1. Has(files[n], r)
    BY <1>1, <1>6 DEF Inv3, InNote
  <2>2. CASE Quiet
    BY <1>1, <1>2, <2>1, <2>2, AlikeHas DEF Quiet
  <2>3. CASE PowerLoss
    BY <2>3 DEF PowerLoss
  <2>4. ASSUME NEW w \in Writers, Marked(w)
        PROVE  Has(files'[n], r)
    <3>1. PICK d \in Content : /\ Entered(files[req[w].note], d, req[w])
                               /\ req[w] \in Requests
                               /\ \A m \in Notes : files'[m] = IF m = req[w].note THEN d ELSE files[m]
      BY <1>4, <2>4
    <3>2. CASE n = req[w].note
      BY <1>2, <2>1, <3>1, <3>2, EnteredHas
    <3>3. CASE n # req[w].note
      BY <1>2, <2>1, <3>1, <3>3
    <3> QED
      BY <3>2, <3>3
  <2> QED
    BY <1>1, <2>2, <2>3, <2>4, QuietStep DEF Inv3, Inv2
<1> QED
  BY <1>1, <1>3, <1>5, <1>6

\* Only the sync of its note acknowledges an operation that leaves a marker.
LEMMA AckedStep ==
  ASSUME StoreAssumption, Inv1, [Next]_vars, NEW r \in acked', r.op \in Marking
  PROVE  \/ r \in acked
         \/ \E w \in Writers : pc[w] = "sync" /\ r = req[w] /\ Sync(r.note) /\ UNCHANGED files
<1> USE DEF Inv1
<1>1. ASSUME NEW w \in Writers, Succeed(w), req[w].op \notin Marking
      PROVE  r \in acked
  BY <1>1 DEF Succeed
<1>2. ASSUME NEW w \in Writers, Look(w)
      PROVE  r \in acked
  <2>1. Suits(req[w], "look")
    BY <1>2 DEF Look, WorkOK
  <2> QED
    BY <1>1, <1>2, <2>1, LookCases DEF Fail, Proceed, Marking
<1>3. ASSUME NEW w \in Writers, Created(w)
      PROVE  r \in acked
  <2>1. Suits(req[w], "created")
    BY <1>3 DEF Created, WorkOK
  <2> QED
    BY <1>1, <1>3, <2>1, CreatedCases DEF Proceed, Marking
<1>4. ASSUME NEW w \in Writers, Text(w)
      PROVE  r \in acked
  <2>1. req[w].op \notin Marking
    BY <1>4 DEF Text, WorkOK, Suits, Marking
  <2> QED
    BY <1>1, <1>4, <2>1 DEF Text, Fail
<1>5. ASSUME NEW w \in Writers, SyncDirectory(w)
      PROVE  r \in acked \/ (pc[w] = "sync" /\ r = req[w] /\ Sync(r.note) /\ UNCHANGED files)
  BY <1>5 DEF SyncDirectory, Succeed
<1>6. ASSUME NEW w \in Writers,
             \/ LockOps(w) \/ LockNote(w) \/ Create(w) \/ Read(w) \/ Write(w) \/ Newline(w)
             \/ GiveUp(w) \/ Error(w) \/ Crash(w) \/ \E q \in Requests : Begin(w, q)
      PROVE  r \in acked
  BY <1>6 DEF LockOps, LockNote, Create, Read, Write, Newline, GiveUp, Error, Crash, Begin, Proceed, Fail
<1>7. CASE PowerLoss
  BY <1>7 DEF PowerLoss
<1>8. CASE UNCHANGED vars
  BY <1>8 DEF vars
<1> QED
  BY <1>2, <1>3, <1>4, <1>5, <1>6, <1>7, <1>8 DEF Next, Handle, AllServed

LEMMA DurableStep ==
  ASSUME StoreAssumption, Inv3, [Next]_vars
  PROVE  AckedIsDurable'
<1> SUFFICES ASSUME NEW r \in acked', r.op \in Marking, NEW c \in disk'[r.note]
             PROVE  Has(c, r)
  BY DEF AckedIsDurable, Has, Marks, Entry
<1> DEFINE n == r.note
<1>1. acked' \subseteq Requests
  BY Inv2Step DEF Inv3, Inv2, Inv1, TypeOK
<1>2. r \in Requests /\ n \in Notes
  BY <1>1, StoreAssumption DEF Request
<1>3. CASE r \notin acked
  <2>1. PICK w \in Writers : pc[w] = "sync" /\ r = req[w] /\ Sync(n) /\ UNCHANGED files
    BY <1>3, AckedStep DEF Inv3, Inv2
  <2>2. Has(files[n], r)
    BY <2>1 DEF Inv3, InNote
  <2>3. disk'[n] = {files[n]}
    BY <1>2, <2>1 DEF Inv3, Inv2, Inv1, TypeOK, Sync
  <2> QED
    BY <2>2, <2>3
<1>4. CASE r \in acked
  <2>1. \A e \in disk[n] : Has(e, r)
    BY <1>4 DEF Inv3, AckedIsDurable, Has
  <2>2. Has(files[n], r)
    BY <1>2, <2>1 DEF Inv3, Inv2, Inv1, SeenIsSo
  <2>3. CASE Quiet
    BY <1>2, <2>1, <2>2, <2>3, AlikeHas DEF Quiet
  <2>4. CASE PowerLoss
    BY <1>2, <2>1, <2>4 DEF PowerLoss
  <2>5. ASSUME NEW w \in Writers, Marked(w)
        PROVE  Has(c, r)
    <3>1. PICK d \in Content : MarkedTo(w, d)
      BY <2>5, MarkedStep DEF Inv3, Inv2
    <3>2. d \in Content /\ Entered(files[req[w].note], d, req[w])
      BY <3>1, MarkAppend DEF MarkedTo
    <3>3. disk'[n] = IF n = req[w].note THEN disk[n] \cup {d} ELSE disk[n]
      BY <1>2, <3>1 DEF MarkedTo
    <3>4. Has(files[req[w].note], r) => Has(d, r)
      BY <1>2, <3>1, <3>2, EnteredHas DEF MarkedTo
    <3> QED
      BY <2>1, <2>2, <3>3, <3>4
  <2> QED
    BY <2>3, <2>4, <2>5, QuietStep DEF Inv3, Inv2
<1> QED
  BY <1>3, <1>4

\* An operation that was acknowledged survives every loss of power.
THEOREM Durable == Spec => []AckedIsDurable
<1>1. Init => Inv3
  BY Inv2Init, StoreAssumption DEF Init, Inv3, InNote, AckedIsDurable
<1>2. Inv3 /\ [Next]_vars => Inv3'
  BY Inv2Step, InNoteStep, DurableStep, StoreAssumption DEF Inv3
<1>3. Inv3 => AckedIsDurable
  BY DEF Inv3
<1> QED
  BY <1>1, <1>2, <1>3, PTL DEF Spec

\* What an acknowledged request has left in its note.
There(c, r) ==
  /\ r.op # "ensure" => c # Absent
  /\ r.op \in {"append", "path"} =>
       \E i \in DOMAIN c.lines : [c.lines[i] EXCEPT !.own = TRUE] = Entry(r)
  /\ r.op = "task" => \E i \in DOMAIN c.tasks : c.tasks[i].text = r.text

\* A task about to be acknowledged is in its note.
Added ==
  \A w \in Writers : pc[w] = "sync" /\ req[w].op = "task" => There(files[req[w].note], req[w])

Inv4 == Inv3 /\ Added /\ AckedIsThere

LEMMA ContinuesThere ==
  ASSUME StoreAssumption, NEW c \in Content \cup {Absent}, NEW d \in Content \cup {Absent}, NEW r \in Requests,
         Continues(c, d), There(c, r)
  PROVE  There(d, r)
<1>1. CASE c = Absent
  BY <1>1 DEF There
<1>2. CASE c # Absent
  <2>1. c \in Content /\ d \in Content /\ d # Absent
    BY <1>2 DEF Continues
  <2>2. Prefix(c.lines, d.lines) /\ SameTexts(c.tasks, d.tasks)
    BY <1>2 DEF Continues
  <2>3. \A i \in DOMAIN c.lines : i \in DOMAIN d.lines /\ d.lines[i] = c.lines[i]
    BY <2>1, <2>2, ContentParts DEF Prefix
  <2>4. \A i \in DOMAIN c.tasks : i \in DOMAIN d.tasks /\ d.tasks[i].text = c.tasks[i].text
    BY <2>1, <2>2, ContentParts DEF SameTexts
  <2> QED
    BY <2>1, <2>3, <2>4 DEF There
<1> QED
  BY <1>1, <1>2

\* A new task is there.
LEMMA ChangedThere ==
  ASSUME StoreAssumption, NEW c \in Content, NEW r \in Requests, NEW state, r.op = "task"
  PROVE  There(Changed(c, r, state), r)
<1> DEFINE t == [text |-> r.text, state |-> "pending"]
<1>1. Changed(c, r, state) = [c EXCEPT !.tasks = Append(c.tasks, t)]
  BY DEF Changed
<1>2. t \in Task /\ t.text = r.text
  BY StoreAssumption DEF Task, Request, States
<1> HIDE DEF t
<1>3. Changed(c, r, state) = [lines |-> c.lines, open |-> c.open, rating |-> c.rating,
                       tasks |-> Append(c.tasks, t)]
  BY <1>1, Updates
<1>4. Append(c.tasks, t) \in Seq(Task) /\ Append(c.tasks, t)[Len(c.tasks) + 1] = t
      /\ Len(c.tasks) + 1 \in DOMAIN Append(c.tasks, t)
  BY <1>2, ContentParts
<1>5. Changed(c, r, state) # Absent
  BY <1>3, <1>4, ContentParts, StoreAssumption DEF Content
<1>6. Changed(c, r, state).tasks = Append(c.tasks, t)
  BY <1>3
<1> QED
  BY <1>2, <1>4, <1>5, <1>6 DEF There

\* How a writer comes to the fsync of the directory.
LEMMA SyncArrivals ==
  ASSUME StoreAssumption, Inv1, [Next]_vars, NEW v \in Writers, pc'[v] = "sync", req'[v].op = "task"
  PROVE  req'[v] = req[v] /\ (pc[v] = "sync" \/ Write(v))
<1> USE DEF Inv1
<1> DEFINE Goal == req'[v] = req[v] /\ (pc[v] = "sync" \/ Write(v))
<1>1. ASSUME NEW w \in Writers, Return(w)
      PROVE  Goal
  BY <1>1, ReturnType DEF SameWriter
<1>2. ASSUME NEW w \in Writers, NEW place, Goto(w, place), UNCHANGED req, place = "sync" => w # v
      PROVE  Goal
  BY <1>2 DEF Goto, TypeOK
<1>3. ASSUME NEW w \in Writers, NEW r \in Requests, Begin(w, r)
      PROVE  Goal
  BY <1>3 DEF Begin, Goto, TypeOK
<1>4. ASSUME NEW w \in Writers, Look(w)
      PROVE  Goal
  <2>1. Suits(req[w], "look")
    BY <1>4 DEF Look, WorkOK
  <2>2. CASE Proceed(w, "sync") /\ req[w].op \in Marking
    <3>1. w # v
      BY <2>2 DEF Proceed, Marking
    <3> QED
      BY <1>2, <2>2, <3>1 DEF Proceed
  <2> QED
    BY <1>1, <1>2, <1>4, <2>1, <2>2, LookCases DEF Succeed, Fail, Proceed
<1>5. ASSUME NEW w \in Writers, Created(w)
      PROVE  Goal
  <2>1. Suits(req[w], "created")
    BY <1>5 DEF Created, WorkOK
  <2> QED
    BY <1>1, <1>2, <1>5, <2>1, CreatedCases DEF Succeed, Proceed
<1>6. ASSUME NEW w \in Writers, Create(w) \/ Newline(w) \/ LockOps(w) \/ LockNote(w)
      PROVE  Goal
  BY <1>2, <1>6 DEF Create, Newline, LockOps, LockNote, Proceed
<1>7. ASSUME NEW w \in Writers, Read(w)
      PROVE  Goal
  BY <1>1, <1>2, <1>7 DEF Read, Fail
<1>8. ASSUME NEW w \in Writers, Write(w)
      PROVE  Goal
  BY <1>8 DEF Write, Proceed, Goto, TypeOK
<1>9. ASSUME NEW w \in Writers, SyncDirectory(w) \/ Text(w) \/ GiveUp(w) \/ Error(w) \/ Crash(w)
      PROVE  Goal
  BY <1>1, <1>9 DEF SyncDirectory, Text, GiveUp, Error, Crash, Succeed, Fail
<1>10. CASE PowerLoss
  BY <1>10 DEF PowerLoss
<1>11. CASE UNCHANGED vars
  BY <1>11 DEF vars
<1> QED
  BY <1>3, <1>4, <1>5, <1>6, <1>7, <1>8, <1>9, <1>10, <1>11 DEF Next, Handle, AllServed

LEMMA AddedStep ==
  ASSUME StoreAssumption, Inv4, [Next]_vars
  PROVE  Added'
<1> SUFFICES ASSUME NEW v \in Writers, pc'[v] = "sync", req'[v].op = "task"
             PROVE  There(files'[req'[v].note], req'[v])
  BY DEF Added, There, Entry
<1> USE DEF Inv4, Inv3, Inv2
<1>1. req'[v] = req[v] /\ (pc[v] = "sync" \/ Write(v))
  BY SyncArrivals
<1>2. req[v] \in Requests /\ req[v].note \in Notes
  BY <1>1, OwnNote DEF Write
<1>3. CASE Write(v)
  <2>1. Changed(copy[v], req[v], want[v]) = files'[req[v].note]
    BY <1>2, <1>3 DEF Write, Set, Inv1, TypeOK
  <2>2. copy[v] \in Content
    BY <1>3, WriteEffect DEF Write, Inv1, SeenIsSo, Seen
  <2> QED
    BY <1>1, <1>2, <2>1, <2>2, ChangedThere
<1>4. CASE pc[v] = "sync"
  <2>1. ~PowerLoss
    BY DEF PowerLoss
  <2>2. Continues(files[req[v].note], files'[req[v].note])
    BY <1>2, <2>1, ContinuesStep
  <2>3. files[req[v].note] \in Content \cup {Absent} /\ files'[req[v].note] \in Content \cup {Absent}
    BY <1>2, Inv1Step DEF Inv1, TypeOK
  <2> QED
    BY <1>1, <1>2, <1>4, <2>2, <2>3, ContinuesThere DEF Added
<1> QED
  BY <1>1, <1>3, <1>4

\* A new acknowledgement is that of a writer whose request is in its note.
LEMMA AckedThere ==
  ASSUME StoreAssumption, Inv4, [Next]_vars, NEW r \in acked', r \notin acked
  PROVE  There(files'[r.note], r)
<1> USE DEF Inv4, Inv3, Inv2, Inv1
<1>1. ASSUME NEW w \in Writers, Look(w)
      PROVE  There(files'[r.note], r)
  <2>1. Suits(req[w], "look")
    BY <1>1 DEF Look, WorkOK
  <2>2. Succeed(w) /\ req[w].op = "ensure" /\ UNCHANGED files
    BY <1>1, <2>1, LookCases DEF Look, Fail, Proceed
  <2> QED
    BY <2>2 DEF Succeed, There
<1>2. ASSUME NEW w \in Writers, Created(w)
      PROVE  There(files'[r.note], r)
  <2>1. Suits(req[w], "created") /\ files[req[w].note] # Absent /\ UNCHANGED files
    BY <1>2 DEF Created, WorkOK, SeenIsSo, Seen
  <2>2. Succeed(w) /\ req[w].op = "ensure"
    BY <1>2, <2>1, CreatedCases DEF Proceed
  <2> QED
    BY <2>1, <2>2 DEF Succeed, There
<1>3. ASSUME NEW w \in Writers, Text(w)
      PROVE  There(files'[r.note], r)
  <2> DEFINE n == req[w].note
             whole == Joined(files[n], Entry(req[w]))
             line == Placed(files[n], Entry(req[w]))
  <2>1. r = req[w] /\ pc[w] = "text" /\ files' = [files EXCEPT ![n] = whole]
    BY <1>3 DEF Text, Succeed, Fail
  <2>2. n \in Notes /\ req[w] \in Requests /\ req[w].op \in {"append", "path"}
    BY <2>1, OwnNote DEF WorkOK, Suits
  <2>3. /\ files[n] \in Content /\ whole # Absent
        /\ whole.lines = Append(files[n].lines, line) /\ line \in Line
        /\ [line EXCEPT !.own = TRUE] = Entry(req[w])
    BY <2>1, <2>2, TextEffect
  <2>4. files'[n] = whole
    BY <2>1, <2>2 DEF TypeOK
  <2> HIDE DEF whole, line
  <2>5. Len(files[n].lines) + 1 \in DOMAIN whole.lines
        /\ whole.lines[Len(files[n].lines) + 1] = line
    BY <2>3, ContentParts
  <2>6. \E i \in DOMAIN whole.lines : [whole.lines[i] EXCEPT !.own = TRUE] = Entry(req[w])
    BY <2>3, <2>5
  <2> QED
    BY <2>1, <2>2, <2>3, <2>4, <2>6 DEF There
<1>4. ASSUME NEW w \in Writers, SyncDirectory(w)
      PROVE  There(files'[r.note], r)
  <2>1. r = req[w] /\ pc[w] = "sync" /\ UNCHANGED files
    BY <1>4 DEF SyncDirectory, Succeed
  <2>2. files[r.note] # Absent /\ r.op \notin {"append", "path"}
    BY <2>1 DEF SeenIsSo, Seen, WorkOK, Suits
  <2> QED
    BY <2>1, <2>2 DEF Added, There
<1>5. ASSUME NEW w \in Writers,
             \/ LockOps(w) \/ LockNote(w) \/ Create(w) \/ Read(w) \/ Write(w) \/ Newline(w)
             \/ GiveUp(w) \/ Error(w) \/ Crash(w) \/ \E q \in Requests : Begin(w, q)
      PROVE  FALSE
  BY <1>5 DEF LockOps, LockNote, Create, Read, Write, Newline, GiveUp, Error, Crash, Begin, Proceed, Fail
<1>6. ~PowerLoss
  BY DEF PowerLoss
<1>7. ~UNCHANGED vars
  BY DEF vars
<1> QED
  BY <1>1, <1>2, <1>3, <1>4, <1>5, <1>6, <1>7 DEF Next, Handle, AllServed

LEMMA ThereStep ==
  ASSUME StoreAssumption, Inv4, [Next]_vars
  PROVE  AckedIsThere'
<1> SUFFICES ASSUME NEW r \in acked', r \in acked
             PROVE  There(files'[r.note], r)
  BY AckedThere DEF AckedIsThere, There, Entry
<1> USE DEF Inv4, Inv3, Inv2
<1>1. r \in Requests /\ r.note \in Notes
  BY StoreAssumption DEF Inv1, TypeOK, Request
<1>2. There(files[r.note], r)
  BY DEF AckedIsThere, There
<1>3. CASE PowerLoss
  <2>1. r.op \in Marking /\ files'[r.note] \in disk[r.note]
    BY <1>1, <1>3 DEF PowerLoss
  <2>2. Has(files'[r.note], r)
    BY <2>1 DEF AckedIsDurable, Has
  <2> QED
    BY <2>1, <2>2 DEF Has, Marks, There, Marking
<1>4. CASE Continues(files[r.note], files'[r.note])
  <2>1. files[r.note] \in Content \cup {Absent} /\ files'[r.note] \in Content \cup {Absent}
    BY <1>1, Inv1Step DEF Inv1, TypeOK
  <2> QED
    BY <1>1, <1>2, <1>4, <2>1, ContinuesThere
<1> QED
  BY <1>1, <1>3, <1>4, ContinuesStep

\* What was acknowledged is in its note: the appended line, the task, the file.
THEOREM Answered == Spec => []AckedIsThere
<1>1. Init => Inv4
  BY Inv2Init, StoreAssumption DEF Init, Inv4, Inv3, InNote, AckedIsDurable, Added, AckedIsThere
<1>2. Inv4 /\ [Next]_vars => Inv4'
  BY Inv2Step, InNoteStep, DurableStep, AddedStep, ThereStep, StoreAssumption DEF Inv4, Inv3
<1>3. Inv4 => AckedIsThere
  BY DEF Inv4
<1> QED
  BY <1>1, <1>2, <1>3, PTL DEF Spec

-----------------------------------------------------------------------------
(***************************************************************************)
(* The promise of AppendOnce.  A step that leaves a marker writes, the sync *)
(* of a marked note confirms, a loss of power loses, the others stutter.     *)
(***************************************************************************)

Written   == UNION {FoundIn(n) : n \in Notes}
Confirmed == {Asking(r) : r \in MarkingOf(acked)}
Askable   == {Asking(r) : r \in MarkingOf(Requests)}

\* What a reader finds.
LEMMA WrittenIs ==
  \A e : e \in Written <=>
    \E n \in Notes, id \in Ids : \E i \in Marks(files[n], id) : e = FoundAt(n, i)
BY DEF Written, FoundIn

LEMMA WrittenWillBe ==
  \A e : e \in Written' <=>
    \E n \in Notes, id \in Ids : \E i \in Marks(files'[n], id) : e = FoundAt(n, i)'
BY DEF Written, FoundIn, Marks

\* The markers of an operation carry its ID.
LEMMA MarkHasId ==
  ASSUME NEW n \in Notes, NEW id, NEW i \in Marks(files[n], id)
  PROVE  FoundAt(n, i) = [asked |-> [note |-> n, id |-> id, text |-> files[n].lines[i].text], line |-> i]
BY DEF Marks, FoundAt

\* Where a reader finds the markers he found, he finds what he has found.
LEMMA SameMarks ==
  ASSUME Quiet
  PROVE  Written' = Written
<1>1. ASSUME NEW n \in Notes, NEW id \in Ids
      PROVE  /\ Marks(files'[n], id) = Marks(files[n], id)
             /\ \A i \in Marks(files[n], id) : FoundAt(n, i)' = FoundAt(n, i)
  BY DEF Quiet, Alike, FoundAt
<1>2. \A e : e \in Written' <=> e \in Written
  BY <1>1, WrittenIs, WrittenWillBe
<1> QED
  BY <1>2

\* A request that is in its note is among what was written.
LEMMA HasIsWritten ==
  ASSUME StoreAssumption, NEW r \in Requests, r.op \in Marking, Has(files[r.note], r)
  PROVE  \E e \in Written : e.asked = Asking(r)
<1>1. r.id \in Ids /\ r.note \in Notes
  BY StoreAssumption DEF Request
<1>2. PICK i \in Marks(files[r.note], r.id) : files[r.note].lines[i] = Entry(r)
  BY DEF Has
<1>3. FoundAt(r.note, i).asked = Asking(r)
  BY <1>2 DEF FoundAt, Asking, Entry
<1> QED
  BY <1>1, <1>2, <1>3, WrittenIs

\* The step that leaves a marker writes an append whose ID stood nowhere.
LEMMA MarkedWrites ==
  ASSUME StoreAssumption, Inv2, NEW w \in Writers, Marked(w)
  PROVE  \E q \in Askable : Promise!Write(q)
<1>1. PICK d \in Content : MarkedTo(w, d)
  BY MarkedStep DEF Inv2
<1>2. PICK r \in Requests, n \in Notes :
        /\ r = req[w] /\ n = r.note /\ files[n] \in Content /\ r.id \in Ids /\ r.op \in Marking
        /\ d.lines = Append(files[n].lines, Entry(r))
        /\ \A m \in Notes : files'[m] = IF m = n THEN d ELSE files[m]
        /\ pc[w] = "write" /\ acked' = acked
  BY <1>1 DEF MarkedTo, Marked
<1> DEFINE q == Asking(r)
<1>3. q \in Askable /\ Confirmed' = Confirmed
  BY <1>2 DEF Askable, Confirmed, MarkingOf
<1>4. \A m \in Notes : Marks(files[m], r.id) = {}
  BY <1>2 DEF Inv2, Unmarked
<1>5. \A e \in Written : e.asked.id # r.id
  <2> SUFFICES ASSUME NEW m \in Notes, NEW id \in Ids, NEW i \in Marks(files[m], id)
               PROVE  FoundAt(m, i).asked.id # r.id
    BY WrittenIs
  <2>1. id # r.id
    BY <1>4
  <2> QED
    BY <2>1, MarkHasId
<1>6. Entered(files[n], d, r)
  BY <1>2, MarkAppend
<1>7. PICK k : /\ d.lines[k] = Entry(r)
               /\ Marks(d, r.id) = {k}
               /\ \A id \in Ids : id # r.id => Marks(d, id) = Marks(files[n], id)
               /\ \A id \in Ids : \A i \in Marks(files[n], id) : d.lines[i] = files[n].lines[i]
  <2>1. PICK k : /\ d.lines[k] = Entry(r)
                 /\ Marks(d, r.id) = Marks(files[n], r.id) \cup {k}
                 /\ \A id \in Ids : id # r.id => Marks(d, id) = Marks(files[n], id)
                 /\ \A id \in Ids : \A i \in Marks(files[n], id) : d.lines[i] = files[n].lines[i]
    BY <1>6 DEF Entered
  <2>2. Marks(d, r.id) = {k}
    BY <1>4, <2>1
  <2> QED
    BY <2>1, <2>2
<1> DEFINE e == FoundAt(n, k)'
<1>8. e.asked = q
  <2>1. files'[n].lines[k] = Entry(r)
    BY <1>2, <1>7
  <2> QED
    BY <1>2, <2>1 DEF FoundAt, Asking, Entry
<1>9. ASSUME NEW m \in Notes, NEW id \in Ids
      PROVE  /\ id # r.id => Marks(files'[m], id) = Marks(files[m], id)
             /\ Marks(files'[m], r.id) = IF m = n THEN {k} ELSE {}
             /\ \A i \in Marks(files[m], id) : FoundAt(m, i)' = FoundAt(m, i)
  <2>1. CASE m = n
    <3>1. files'[m] = d /\ \A i \in Marks(files[n], id) : d.lines[i] = files[n].lines[i]
      BY <1>2, <1>7, <2>1
    <3>2. \A i \in Marks(files[m], id) : FoundAt(m, i)' = FoundAt(m, i)
      BY <2>1, <3>1 DEF FoundAt
    <3> QED
      BY <1>7, <2>1, <3>1, <3>2
  <2>2. CASE m # n
    BY <1>2, <1>4, <2>2 DEF FoundAt
  <2> QED
    BY <2>1, <2>2
<1>10. \A x : x \in Written' <=> x \in Written \/ x = e
  <2> SUFFICES ASSUME NEW x
               PROVE  x \in Written' <=> x \in Written \/ x = e
    OBVIOUS
  <2>1. ASSUME x \in Written
        PROVE  x \in Written'
    <3>1. PICK m \in Notes, id \in Ids : \E i \in Marks(files[m], id) : x = FoundAt(m, i)
      BY <2>1, WrittenIs
    <3>2. PICK i \in Marks(files[m], id) : x = FoundAt(m, i)
      BY <3>1
    <3>3. id # r.id
      BY <1>4, <3>2
    <3>4. i \in Marks(files'[m], id) /\ x = FoundAt(m, i)'
      BY <1>9, <3>2, <3>3
    <3> QED
      BY <3>4, WrittenWillBe
  <2>2. e \in Written'
    BY <1>2, <1>9, WrittenWillBe
  <2>3. ASSUME x \in Written'
        PROVE  x \in Written \/ x = e
    <3>1. PICK m \in Notes, id \in Ids : \E i \in Marks(files'[m], id) : x = FoundAt(m, i)'
      BY <2>3, WrittenWillBe
    <3>2. PICK i \in Marks(files'[m], id) : x = FoundAt(m, i)'
      BY <3>1
    <3>3. CASE id = r.id
      BY <1>9, <3>2, <3>3
    <3>4. CASE id # r.id
      <4>1. i \in Marks(files[m], id) /\ x = FoundAt(m, i)
        BY <1>9, <3>2, <3>4
      <4> QED
        BY <4>1, WrittenIs
    <3> QED
      BY <3>3, <3>4
  <2> QED
    BY <2>1, <2>2, <2>3
<1> HIDE DEF q, e
<1>11. Written' = Written \cup {e} /\ e \in Written'
  BY <1>10
<1>12. q.id = r.id
  BY DEF q, Asking
<1>13. Promise!Write(q)
  BY <1>3, <1>5, <1>8, <1>11, <1>12 DEF Promise!Write, Written, Confirmed
<1> QED
  BY <1>3, <1>13

\* A loss of power takes away only what was not confirmed, and moves nothing.
LEMMA PowerLoses ==
  ASSUME StoreAssumption, Inv3, PowerLoss
  PROVE  Promise!Lose
<1>1. \A n \in Notes : files'[n] \in disk[n]
  BY DEF PowerLoss
<1>2. ASSUME NEW n \in Notes, NEW id \in Ids, NEW i \in Marks(files'[n], id)
      PROVE  i \in Marks(files[n], id) /\ FoundAt(n, i)' = FoundAt(n, i)
  <2>1. i \in Marks(files[n], id) /\ files[n].lines[i] = files'[n].lines[i]
    BY <1>1 DEF Inv3, Inv2, Behind
  <2> QED
    BY <2>1 DEF FoundAt
<1>3. Written' \subseteq Written
  BY <1>2, WrittenIs, WrittenWillBe
<1>4. Confirmed' = Confirmed
  BY DEF PowerLoss, Confirmed, MarkingOf
<1>5. ASSUME NEW e \in Written, e.asked \in Confirmed
      PROVE  e \in Written'
  <2>1. PICK n \in Notes, id \in Ids : \E i \in Marks(files[n], id) : e = FoundAt(n, i)
    BY WrittenIs
  <2>2. PICK i \in Marks(files[n], id) : e = FoundAt(n, i)
    BY <2>1
  <2>3. PICK r \in acked : r.op \in Marking /\ e.asked = Asking(r)
    BY <1>5 DEF Confirmed, MarkingOf
  <2>4. r.note = n /\ r.id = id
    BY <2>2, <2>3, MarkHasId DEF Asking
  <2>5. PICK k \in Marks(files'[n], id) : TRUE
    BY <1>1, <2>3, <2>4 DEF Inv3, AckedIsDurable
  <2>6. k = i /\ FoundAt(n, k)' = e
    BY <1>2, <2>2, <2>5 DEF Inv3, Inv2, WrittenOnce
  <2> QED
    BY <2>5, <2>6, WrittenWillBe
<1> QED
  BY <1>3, <1>4, <1>5 DEF Promise!Lose, Written, Confirmed

\* Each other step acknowledges at most one request.
LEMMA OneIsAcked ==
  ASSUME Next \/ UNCHANGED vars, ~PowerLoss
  PROVE  acked' = acked \/ \E w \in Writers : acked' = acked \cup {req[w]}
<1>1. ASSUME NEW w \in Writers, Succeed(w) \/ Fail(w) \/ UNCHANGED acked
      PROVE  acked' = acked \/ \E v \in Writers : acked' = acked \cup {req[v]}
  BY <1>1 DEF Succeed, Fail
<1>2. ASSUME NEW w \in Writers, Look(w)
      PROVE  Succeed(w) \/ Fail(w) \/ UNCHANGED acked
  BY <1>2 DEF Look, Place, Proceed, Repeat
<1>3. ASSUME NEW w \in Writers, Created(w) \/ Read(w) \/ SyncDirectory(w) \/ Text(w)
      PROVE  Succeed(w) \/ Fail(w) \/ UNCHANGED acked
  BY <1>3 DEF Created, Read, SyncDirectory, Text, Proceed
<1>4. ASSUME NEW w \in Writers,
             \/ LockOps(w) \/ LockNote(w) \/ Create(w) \/ Write(w) \/ Newline(w)
             \/ GiveUp(w) \/ Error(w) \/ Crash(w) \/ \E q \in Requests : Begin(w, q)
      PROVE  Fail(w) \/ UNCHANGED acked
  BY <1>4 DEF LockOps, LockNote, Create, Write, Newline, GiveUp, Error, Crash, Begin, Proceed
<1>5. CASE UNCHANGED vars
  BY <1>5 DEF vars
<1> QED
  BY <1>1, <1>2, <1>3, <1>4, <1>5 DEF Next, Handle, AllServed

\* A step that changes no marker confirms at most one append, which is in its note.
LEMMA QuietConfirms ==
  ASSUME StoreAssumption, Inv3, Next \/ UNCHANGED vars, Quiet, ~PowerLoss
  PROVE  UNCHANGED <<Written, Confirmed>> \/ \E q \in Askable : Promise!Confirm(q)
<1>1. Written' = Written
  BY SameMarks
<1>2. CASE \A r \in acked' : r.op \in Marking => r \in acked
  <2>1. acked \subseteq acked'
    BY OneIsAcked
  <2>2. MarkingOf(acked') = MarkingOf(acked)
    BY <1>2, <2>1 DEF MarkingOf
  <2>3. Confirmed' = Confirmed
    BY <2>2 DEF Confirmed, MarkingOf
  <2> QED
    BY <1>1, <2>3
<1>3. ASSUME NEW r \in acked', r.op \in Marking, r \notin acked
      PROVE  \E q \in Askable : Promise!Confirm(q)
  <2>1. [Next]_vars
    OBVIOUS
  <2>2. PICK w \in Writers : pc[w] = "sync" /\ r = req[w] /\ UNCHANGED files
    BY <1>3, <2>1, AckedStep DEF Inv3, Inv2
  <2>3. r \in Requests /\ Has(files[r.note], r)
    BY <1>3, <2>2, OwnNote DEF Inv3, Inv2, InNote
  <2>4. acked' = acked \cup {r}
    BY <1>3, OneIsAcked
  <2>5. MarkingOf(acked') = MarkingOf(acked) \cup {r}
    BY <1>3, <2>4 DEF MarkingOf
  <2>6. Confirmed' = Confirmed \cup {Asking(r)}
    BY <2>5 DEF Confirmed, MarkingOf
  <2>7. \E e \in Written : e.asked = Asking(r)
    BY <1>3, <2>3, HasIsWritten
  <2>8. Asking(r) \in Askable
    BY <1>3, <2>3 DEF Askable, MarkingOf
  <2>9. Promise!Confirm(Asking(r))
    BY <1>1, <2>6, <2>7 DEF Promise!Confirm, Written, Confirmed
  <2> QED
    BY <2>8, <2>9
<1> QED
  BY <1>2, <1>3

\* In the beginning there is no marker.
LEMMA PromiseInit ==
  ASSUME StoreAssumption, Init
  PROVE  Promise!AInit
<1>1. \A n \in Notes, id \in Ids : Marks(files[n], id) = {}
  BY DEF Init, Marks, Template, Unterminated, StoreAssumption
<1>2. Written = {}
  BY <1>1, WrittenIs
<1>3. Confirmed = {}
  BY DEF Init, Confirmed, MarkingOf
<1> QED
  BY <1>2, <1>3 DEF Promise!AInit, Written, Confirmed

LEMMA PromiseStep ==
  ASSUME StoreAssumption, Inv3, [Next]_vars
  PROVE  [Promise!ANext]_(Promise!avars)
<1>1. CASE PowerLoss
  BY <1>1, PowerLoses DEF Promise!ANext
<1>2. ASSUME NEW w \in Writers, Marked(w)
      PROVE  Promise!ANext
  BY <1>2, MarkedWrites DEF Inv3, Promise!ANext, Askable
<1>3. CASE Quiet /\ ~PowerLoss
  BY <1>3, QuietConfirms DEF Promise!ANext, Promise!avars, Askable, Written, Confirmed
<1> QED
  BY <1>1, <1>2, <1>3, QuietStep DEF Inv3, Inv2

\* Over every interleaving of the writers, every failed call, every death of a
\* process and every loss of power, an append with an operation ID is what
\* AppendOnce promises: one line in one note, that stays once it was confirmed.
THEOREM PromiseIsKept == Spec => AppendsOnce
<1>1. Init => Inv3 /\ Promise!AInit
  BY Inv2Init, PromiseInit, StoreAssumption DEF Init, Inv3, InNote, AckedIsDurable
<1>2. Inv3 /\ [Next]_vars => Inv3'
  BY Inv2Step, InNoteStep, DurableStep, StoreAssumption DEF Inv3
<1>3. Inv3 /\ [Next]_vars => [Promise!ANext]_(Promise!avars)
  BY PromiseStep, StoreAssumption
<1> QED
  BY <1>1, <1>2, <1>3, PTL DEF Spec, AppendsOnce, Promise!ASpec

=============================================================================
