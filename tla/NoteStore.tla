----------------------------- MODULE NoteStore -----------------------------
(***************************************************************************)
(* The note files and everything that writes them: core/stores.go,         *)
(* append_once.go and append_path_once.go.                                  *)
(*                                                                          *)
(* Every writer takes the flock of the note's sidecar; a change other than  *)
(* a plain append replaces the whole file (temporary file, fsync, rename,   *)
(* fsync of the directory).  An append with an operation ID leaves a marker *)
(* behind, which a repetition of it looks for.  Writers are handlers of one *)
(* or several core processes: they die, their calls fail, and the machine   *)
(* can lose power.                                                          *)
(***************************************************************************)
EXTENDS Integers, Sequences, FiniteSets

CONSTANTS
  Notes,       \* files, by their path
  Daily,       \* those in the directory of the daily notes
  Writers,     \* handlers of the core server
  Requests,    \* the requests clients may send, again and again
  Ids,         \* operation IDs
  Texts,
  NoId,        \* a plain append has none
  Torn,        \* a piece of a text
  Foreign,     \* what an external editor wrote
  Absent,      \* the file does not exist
  Nobody,      \* a lock that is free
  NoRequest,
  MaxRequests,
  MaxFaults

Ops     == {"ensure", "append", "path", "once", "pathOnce", "rating", "task", "status"}
Marking == {"once", "pathOnce"}
ByPath  == {"path", "pathOnce"}
States  == {"pending", "completed", "rejected"}

\* arg is the rating or the index of a task; state the one a task shall get,
\* "next" for ToggleTask.
Request == [op : Ops, note : Notes, id : Ids \cup {NoId}, text : Texts,
            arg : Nat, state : States \cup {"next"}]

\* own: it begins on a line of its own, not behind what lacked its newline.
Line    == [op : Ops, id : Ids \cup {NoId}, text : Texts \cup {Torn, Foreign}, own : BOOLEAN]
Task    == [text : Texts, state : States]

\* A note: its appended lines, whether the last one lacks its newline, and the
\* parts that are edited in place.
Content == [lines : Seq(Line), open : BOOLEAN, rating : Nat, tasks : Seq(Task)]

ASSUME StoreAssumption ==
  /\ Daily \subseteq Notes
  /\ Requests \subseteq Request
  /\ \A r \in Requests : r.op \in Marking <=> r.id # NoId
  /\ \A r \in Requests : r.op \notin ByPath => r.note \in Daily
  /\ \A r, s \in Requests : r.op = "pathOnce" /\ s.id = r.id => s.op = r.op /\ s.note = r.note
  /\ NoId \notin Ids
  /\ Torn \notin Texts \cup {Foreign}
  /\ Absent \notin Content
  /\ Nobody \notin Writers
  /\ NoRequest \notin Request
  /\ MaxRequests \in Nat
  /\ MaxFaults \in Nat

VARIABLES
  files,    \* what a reader of each file sees
  disk,     \* what each file may be after the power failed
  opsLock,  \* the flock of append-operations
  lock,     \* the flock of each note
  pc, req,  \* where each writer stands, and with which request
  want,     \* the state it shall give a task
  copy,     \* the content it has read
  acked,    \* requests whose client was told they succeeded
  started, faults

vars  == <<files, disk, opsLock, lock, pc, req, want, copy, acked, started, faults>>
locks == <<opsLock, lock>>

Places == {"idle", "ops", "note", "look", "create", "created", "read", "write",
           "newline", "text", "sync"}

Fragment     == [op |-> "append", id |-> NoId, text |-> Torn, own |-> TRUE]
Template     == [lines |-> <<>>, open |-> FALSE, rating |-> 0, tasks |-> <<>>]
Unterminated == [lines |-> <<[op |-> "append", id |-> NoId, text |-> Foreign, own |-> TRUE]>>,
                 open |-> TRUE, rating |-> 0, tasks |-> <<>>]

TypeOK ==
  /\ files \in [Notes -> Content \cup {Absent}]
  /\ disk \in [Notes -> SUBSET (Content \cup {Absent})]
  /\ opsLock \in Writers \cup {Nobody}
  /\ lock \in [Notes -> Writers \cup {Nobody}]
  /\ pc \in [Writers -> Places]
  /\ req \in [Writers -> Requests \cup {NoRequest}]
  /\ want \in [Writers -> States \cup {"next"}]
  /\ copy \in [Writers -> Content \cup {Absent}]
  /\ acked \subseteq Requests
  /\ started \in Nat
  /\ faults \in Nat

\* The notes may be missing, fresh, or written with an editor that does not end
\* the last line.
Init ==
  /\ files \in [Notes -> {Absent, Template, Unterminated}]
  /\ disk = [n \in Notes |-> {files[n]}]
  /\ opsLock = Nobody
  /\ lock = [n \in Notes |-> Nobody]
  /\ pc = [w \in Writers |-> "idle"]
  /\ req = [w \in Writers |-> NoRequest]
  /\ want = [w \in Writers |-> "next"]
  /\ copy = [w \in Writers |-> Absent]
  /\ acked = {}
  /\ started = 0
  /\ faults = 0

Fault == faults < MaxFaults /\ faults' = faults + 1

-----------------------------------------------------------------------------
(***************************************************************************)
(* Files.  A write is seen by every reader at once; after a loss of power    *)
(* any state since the last fsync may be what is left.                       *)
(***************************************************************************)
Set(n, c) ==
  /\ files' = [files EXCEPT ![n] = c]
  /\ disk' = [disk EXCEPT ![n] = @ \cup {c}]

Sync(n) == disk' = [disk EXCEPT ![n] = {files[n]}]

\* write(2) at the end of the file: a line that lacks its newline runs on.
Joined(c, line) ==
  [c EXCEPT !.lines = Append(@, [line EXCEPT !.own = ~c.open]), !.open = FALSE]

Entry(r) == [op |-> r.op, id |-> r.id, text |-> r.text, own |-> TRUE]

\* The markers of an operation in a note.
Marks(c, id) == IF c = Absent THEN {} ELSE {i \in DOMAIN c.lines : c.lines[i].id = id}

\* AppendToNoteOnce looks through all daily notes, AppendByPathOnce through one.
Scanned(r) == IF r.op = "once" THEN Daily ELSE {r.note}

\* Mutant: the text that stands there is not compared with the one asked for.
Conflict_OnlyPlace(r) ==
  \E n \in Scanned(r) : \E i \in Marks(files[n], r.id) :
    n # r.note \/ Marks(files[n], r.id) # {i}

Conflict(r) ==
  \E n \in Scanned(r) : \E i \in Marks(files[n], r.id) :
    \/ n # r.note
    \/ files[n].lines[i] # Entry(r)
    \/ Marks(files[n], r.id) # {i}

Found(r) == Marks(files[r.note], r.id) # {}

\* ToggleTask reads the note before any lock is taken and asks for the state that
\* follows; SetTaskStatus names one.
Toggled == [pending |-> "completed", completed |-> "rejected", rejected |-> "pending"]

Toggles(r) == r.op = "status" /\ r.state = "next"

\* Mutant: what a toggle asks for is written as it is.
Wanted_Literal(c, r) == r.state

Wanted(c, r) == IF Toggles(r) THEN Toggled[c.tasks[r.arg].state] ELSE r.state

\* The note is missing, or the task is, or it has that state already.
Rejected(c, r, state) ==
  \/ c = Absent
  \/ r.op = "status" /\ (r.arg \notin DOMAIN c.tasks \/ c.tasks[r.arg].state = state)

\* What an operation makes of the note it has read.
Changed(c, r, state) ==
  CASE r.op = "rating" -> [c EXCEPT !.rating = r.arg]
    [] r.op = "task"   -> [c EXCEPT !.tasks = Append(@, [text |-> r.text, state |-> "pending"])]
    [] r.op = "status" -> [c EXCEPT !.tasks[r.arg].state = state]
    [] OTHER           -> Joined([c EXCEPT !.open = FALSE], Entry(r))

-----------------------------------------------------------------------------
(***************************************************************************)
(* One request.                                                             *)
(***************************************************************************)
Goto(w, place) == pc' = [pc EXCEPT ![w] = place]

\* Mutant: the lock of the operations is kept.
Unlock_KeepsOps(w) ==
  /\ lock' = [n \in Notes |-> IF lock[n] = w THEN Nobody ELSE lock[n]]
  /\ UNCHANGED opsLock

\* The handler returns; its deferred calls close the lock files.
Unlock(w) ==
  /\ opsLock' = IF opsLock = w THEN Nobody ELSE opsLock
  /\ lock' = [n \in Notes |-> IF lock[n] = w THEN Nobody ELSE lock[n]]

Return(w) ==
  /\ Goto(w, "idle")
  /\ Unlock(w)
  /\ req' = [req EXCEPT ![w] = NoRequest]
  /\ want' = [want EXCEPT ![w] = "next"]
  /\ copy' = [copy EXCEPT ![w] = Absent]

\* The reply may be lost on its way to the client.
Succeed(w) == Return(w) /\ acked' \in {acked, acked \cup {req[w]}}
Fail(w)    == Return(w) /\ UNCHANGED acked

Proceed(w, place) == Goto(w, place) /\ UNCHANGED <<locks, req, want, copy, acked>>

\* An append by path looks for the file before it locks it, ToggleTask for the task.
Refused(r) ==
  LET c == files[r.note] IN
  \/ (r.op \in ByPath \/ Toggles(r)) /\ c = Absent
  \/ Toggles(r) /\ c # Absent /\ r.arg \notin DOMAIN c.tasks

Begin(w, r) ==
  /\ pc[w] = "idle"
  /\ started < MaxRequests
  /\ started' = started + 1
  /\ IF Refused(r) THEN UNCHANGED <<pc, req, want>>
     ELSE /\ Goto(w, IF r.op = "once" THEN "ops" ELSE "note")
          /\ req' = [req EXCEPT ![w] = r]
          /\ want' = [want EXCEPT ![w] = Wanted(files[r.note], r)]
  /\ UNCHANGED <<files, disk, locks, copy, acked, faults>>

LockOps(w) ==
  /\ pc[w] = "ops"
  /\ opsLock = Nobody
  /\ opsLock' = w
  /\ Goto(w, "note")
  /\ UNCHANGED <<files, disk, lock, req, want, copy, acked, started, faults>>

\* Mutant: the lock of the note excludes nobody.
LockNote_Shared(w) ==
  /\ pc[w] = "note"
  /\ lock' = [lock EXCEPT ![req[w].note] = w]
  /\ Goto(w, "look")
  /\ UNCHANGED <<files, disk, opsLock, req, want, copy, acked, started, faults>>

LockNote(w) ==
  /\ pc[w] = "note"
  /\ lock[req[w].note] = Nobody
  /\ lock' = [lock EXCEPT ![req[w].note] = w]
  /\ Goto(w, "look")
  /\ UNCHANGED <<files, disk, opsLock, req, want, copy, acked, started, faults>>

\* The client's deadline passes while the writer waits for a lock.
GiveUp(w) ==
  /\ pc[w] \in {"ops", "note"}
  /\ Fail(w)
  /\ UNCHANGED <<files, disk, started, faults>>

\* Any call of the file system may fail before it changes anything.
Error(w) ==
  /\ pc[w] \notin {"idle", "ops", "note"}
  /\ Fault
  /\ Fail(w)
  /\ UNCHANGED <<files, disk, started>>

\* Mutant: a repetition finds its marker and is answered at once.
Repeat_AtOnce(w) == Succeed(w)

\* The marker was found: only the fsync may be missing.
Repeat(w) == Proceed(w, "sync")

\* Where an operation goes from a note that is missing, or is not.
Place(w, r, missing) ==
  CASE r.op = "append" -> Proceed(w, IF missing THEN "create" ELSE "newline")
    [] r.op = "path"   -> IF missing THEN Fail(w) ELSE Proceed(w, "newline")
    [] r.op \in Marking ->
         IF Conflict(r) THEN Fail(w)
         ELSE IF Found(r) THEN Repeat(w)
         ELSE Proceed(w, IF missing /\ r.op = "once" THEN "create" ELSE "read")
    [] OTHER           -> Proceed(w, "read")

\* Stat, and the search for the operation's marker.  EnsureNote creates a note that
\* Stat does not find, and takes any other error for a note that is there.
Look(w) ==
  LET r == req[w]
      missing == files[r.note] = Absent IN
  /\ pc[w] = "look"
  /\ CASE r.op = "ensure" -> \/ missing /\ Proceed(w, "create") /\ UNCHANGED faults
                             \/ ~missing /\ Succeed(w) /\ UNCHANGED faults
                             \/ missing /\ Succeed(w) /\ Fault
       [] OTHER -> Place(w, r, missing) /\ UNCHANGED faults
  /\ UNCHANGED <<files, disk, started>>

\* createFromTemplate: the rename, then the fsync of the directory.
Create(w) ==
  /\ pc[w] = "create"
  /\ Set(req[w].note, Template)
  /\ Proceed(w, "created")
  /\ UNCHANGED <<started, faults>>

Created(w) ==
  /\ pc[w] = "created"
  /\ Sync(req[w].note)
  /\ CASE req[w].op = "ensure" -> Succeed(w)
       [] req[w].op = "append" -> Proceed(w, "newline")
       [] OTHER                -> Proceed(w, "read")
  /\ UNCHANGED <<files, started, faults>>

Read(w) ==
  /\ pc[w] = "read"
  /\ IF Rejected(files[req[w].note], req[w], want[w]) THEN Fail(w)
     ELSE /\ copy' = [copy EXCEPT ![w] = files[req[w].note]]
          /\ Goto(w, "write")
          /\ UNCHANGED <<locks, req, want, acked>>
  /\ UNCHANGED <<files, disk, started, faults>>

Write(w) ==
  /\ pc[w] = "write"
  /\ Set(req[w].note, Changed(copy[w], req[w], want[w]))
  /\ Proceed(w, "sync")
  /\ UNCHANGED <<started, faults>>

\* The fsync that ends a replacement, or that a repetition of it makes up for.
SyncDirectory(w) ==
  /\ pc[w] = "sync"
  /\ Sync(req[w].note)
  /\ Succeed(w)
  /\ UNCHANGED <<files, started, faults>>

\* Mutant: the text is written behind whatever is there.
Newline_Skipped(w) ==
  /\ pc[w] = "newline"
  /\ Proceed(w, "text")
  /\ UNCHANGED <<files, disk, started, faults>>

\* appendToFile: end the last line, if need be, then write the text.  An error of
\* needLeadingNewline says there is no need.
Newline(w) ==
  LET c == files[req[w].note] IN
  /\ pc[w] = "newline"
  /\ \/ Set(req[w].note, [c EXCEPT !.open = FALSE]) /\ UNCHANGED faults
     \/ c.open /\ Fault /\ UNCHANGED <<files, disk>>
  /\ Proceed(w, "text")
  /\ UNCHANGED started

\* Only a part of the text may reach the file, or outlive a loss of power.
Partly(c) == [Joined(c, Fragment) EXCEPT !.open = TRUE]

\* Mutant: the error of the write is not looked at.
Text_Unchecked(w) ==
  LET n == req[w].note
      whole == Joined(files[n], Entry(req[w]))
      part == Partly(files[n]) IN
  /\ pc[w] = "text"
  /\ disk' = [disk EXCEPT ![n] = @ \cup {part, whole}]
  /\ \/ files' = [files EXCEPT ![n] = whole] /\ UNCHANGED faults
     \/ files' = [files EXCEPT ![n] = part] /\ Fault
  /\ Succeed(w)
  /\ UNCHANGED started

Text(w) ==
  LET n == req[w].note
      whole == Joined(files[n], Entry(req[w]))
      part == Partly(files[n]) IN
  /\ pc[w] = "text"
  /\ disk' = [disk EXCEPT ![n] = @ \cup {part, whole}]
  /\ \/ files' = [files EXCEPT ![n] = whole] /\ Succeed(w) /\ UNCHANGED faults
     \/ files' = [files EXCEPT ![n] = part] /\ Fail(w) /\ Fault
  /\ UNCHANGED started

-----------------------------------------------------------------------------
\* The process of a writer dies: the kernel closes its files.
Crash(w) ==
  /\ pc[w] # "idle"
  /\ Fault
  /\ Fail(w)
  /\ UNCHANGED <<files, disk, started>>

\* What was not synced may be gone; clients count only on what carries a marker.
PowerLoss ==
  /\ Fault
  /\ files' \in [Notes -> UNION {disk[n] : n \in Notes}]
  /\ \A n \in Notes : files'[n] \in disk[n]
  /\ disk' = [n \in Notes |-> {files'[n]}]
  /\ opsLock' = Nobody
  /\ lock' = [n \in Notes |-> Nobody]
  /\ pc' = [w \in Writers |-> "idle"]
  /\ req' = [w \in Writers |-> NoRequest]
  /\ want' = [w \in Writers |-> "next"]
  /\ copy' = [w \in Writers |-> Absent]
  /\ acked' = {r \in acked : r.op \in Marking}
  /\ UNCHANGED started

Handle(w) ==
  \/ LockOps(w) \/ LockNote(w) \/ Look(w) \/ Create(w) \/ Created(w)
  \/ Read(w) \/ Write(w) \/ SyncDirectory(w) \/ Newline(w) \/ Text(w)

AllServed == started = MaxRequests /\ (\A w \in Writers : pc[w] = "idle") /\ UNCHANGED vars

Next ==
  \/ \E w \in Writers :
       \/ \E r \in Requests : Begin(w, r)
       \/ Handle(w) \/ GiveUp(w) \/ Error(w) \/ Crash(w)
  \/ PowerLoss
  \/ AllServed

Spec == Init /\ [][Next]_vars

\* A waiting writer tries its lock every 20 ms, a running one goes on.
Fairness == \A w \in Writers : WF_vars(Handle(w))

FairSpec == Spec /\ Fairness

-----------------------------------------------------------------------------
(***************************************************************************)
(* Properties.                                                              *)
(***************************************************************************)

\* d continues c: it only adds lines and tasks, and differs in one part.
Prefix(s, t) == Len(s) <= Len(t) /\ \A i \in DOMAIN s : t[i] = s[i]

SameTexts(s, t) == Len(s) <= Len(t) /\ \A i \in DOMAIN s : t[i].text = s[i].text

Continues(c, d) ==
  \/ c = Absent
  \/ /\ d # Absent
     /\ Prefix(c.lines, d.lines)
     /\ SameTexts(c.tasks, d.tasks)
     /\ \/ c.lines = d.lines /\ c.open = d.open /\ (c.rating = d.rating \/ c.tasks = d.tasks)
        \/ c.rating = d.rating /\ c.tasks = d.tasks

\* No writer takes back what another one wrote: a step makes one change to a note
\* and leaves every line, task and the rating else as they are.
NothingIsLost ==
  [][PowerLoss \/ \A n \in Notes : Continues(files[n], files'[n])]_vars

\* However often an operation is repeated, by however many writers and over
\* crashes, its text is written once, in all of the notes.
WrittenOnce ==
  \A m, n \in Notes, id \in Ids :
    \A i \in Marks(files[m], id), k \in Marks(files[n], id) : m = n /\ i = k

\* An operation that was acknowledged survives a loss of power.
AckedIsDurable ==
  \A r \in acked : r.op \in Marking =>
    \A c \in disk[r.note] : \E i \in Marks(c, r.id) : c.lines[i] = Entry(r)

\* The text of every other append or task that was acknowledged is there as long as
\* the power is, also when it runs on behind a line whose missing newline went
\* unnoticed.  (That a note was ensured says nothing: see Look.)
AckedIsThere ==
  \A r \in acked :
    /\ r.op # "ensure" => files[r.note] # Absent
    /\ r.op \in {"append", "path"} =>
         \E i \in DOMAIN files[r.note].lines : [files[r.note].lines[i] EXCEPT !.own = TRUE] = Entry(r)
    /\ r.op = "task" => \E i \in DOMAIN files[r.note].tasks : files[r.note].tasks[i].text = r.text

\* A text runs on behind an unterminated line, be it an editor's or the rest of an
\* append that was cut off, at most once for every call that failed.
RunOn(n)  == IF files[n] = Absent THEN {} ELSE {i \in DOMAIN files[n].lines : ~files[n].lines[i].own}
RunningOn == UNION {{<<n, i>> : i \in RunOn(n)} : n \in Notes}
OwnLines  == Cardinality(RunningOn) <= faults

\* The comment at the head of stores.go: "Writes go through temp-file+rename so a
\* crash mid-write cannot corrupt a note".  A crash leaves no piece of a text in
\* a note that had none.  The code does not keep this: a plain append is no such write.
Whole(c) == c # Absent => \A i \in DOMAIN c.lines : c.lines[i].text # Torn

CrashLeavesWhole ==
  [][PowerLoss => \A n \in Notes : Whole(files[n]) => Whole(files'[n])]_vars

\* The comment at the head of stores.go: "every read-modify-write on a note file must
\* hold a per-file lock, otherwise updates are lost".  A toggle moves its task on to
\* the state that follows the one it has.
TogglesFollow ==
  [][\A w \in Writers : Write(w) /\ Toggles(req[w]) =>
       LET before == files[req[w].note].tasks[req[w].arg].state IN
       files'[req[w].note].tasks[req[w].arg].state = Toggled[before]]_vars

\* Every request is answered.
EventuallyAnswered == \A w \in Writers : (pc[w] # "idle") ~> (pc[w] = "idle")

\* An append with an operation ID, and where a reader finds it.
Asking(r)    == [note |-> r.note, id |-> r.id, text |-> r.text]
FoundAt(n, i) == [asked |-> [note |-> n, id |-> files[n].lines[i].id, text |-> files[n].lines[i].text],
                  line  |-> i]

FoundIn(n) == UNION {{FoundAt(n, i) : i \in Marks(files[n], id)} : id \in Ids}

MarkingOf(rs) == {r \in rs : r.op \in Marking}

\* The files, with all that writes them and all that fails, implement the promise
\* of AppendOnce.
Promise == INSTANCE AppendOnce WITH
  Asked     <- {Asking(r) : r \in MarkingOf(Requests)},
  written   <- UNION {FoundIn(n) : n \in Notes},
  confirmed <- {Asking(r) : r \in MarkingOf(acked)}

AppendsOnce == Promise!ASpec

=============================================================================
