----------------------------- MODULE VoiceJobs -----------------------------
(***************************************************************************)
(* The durable voice pipeline: the table voice_jobs (internal/voicejobs),  *)
(* the workers that execute it step by step (RunVoiceJobs and voiceStep in *)
(* frontends/telegram/tghandlers/voice_durable.go), and, as far as these   *)
(* workers can see them, the transcription backend, the notes and the      *)
(* chat.                                                                    *)
(*                                                                          *)
(* A worker claims a row under a lease, performs ONE step on its private    *)
(* copy of the job, saves the copy, and releases the row.  Every call can   *)
(* fail, or succeed and lose its reply; a worker can crash between any two  *)
(* calls, and a lease can expire under a worker that has stalled.           *)
(***************************************************************************)
EXTENDS Integers, Sequences, FiniteSets

CONSTANTS
  Jobs,        \* voice messages; a job is named by its (chat_id, message_id)
  Workers,     \* RunVoiceJobs loops, in one or several processes
  Tokens,      \* the UUIDs a claim can draw
  NoJob,       \* a worker that holds nothing
  NoToken,     \* SQL NULL in lease_token
  Chat,        \* the chat of each job
  MessageID,   \* the Telegram message number of each job
  Mode,        \* "note" or "smart" (the smart and reminder modes)
  Legacy,      \* rows left by an earlier release, with no status message
  Polling,     \* updates arrive by long polling, else by webhook
  Stalls,      \* a lease may expire under a worker that is still running
  MaxFaults    \* bound on the faults (lost or failed calls, crashes, ...)

Earlier(j) == {k \in Jobs : Chat[k] = Chat[j] /\ MessageID[k] < MessageID[j]}

ASSUME JobAssumption ==
  /\ NoJob \notin Jobs
  /\ NoToken \notin Tokens
  /\ Mode \in [Jobs -> {"note", "smart"}]
  /\ MessageID \in [Jobs -> Int]
  /\ Chat \in [Jobs -> Int]
  /\ Legacy \subseteq Jobs
  /\ Polling \in BOOLEAN
  /\ Stalls \in BOOLEAN
  /\ MaxFaults \in Nat

VARIABLES
  \* The table voice_jobs.
  rows,        \* the jobs that have a row
  payload,     \* column payload
  cancel,      \* column cancel_requested
  done,        \* column done
  lease,       \* column lease_token
  live,        \* the rows whose lease_until is in the future
  due,         \* the unfinished rows whose next_at has passed, by next_at
  \* The memory of each worker.
  pc,          \* where it stands between two calls
  held,        \* the job it claimed
  token,       \* the token of that claim
  work,        \* its copy of the payload
  snap,        \* the cancel_requested it read with the claim
  verdict,     \* what Release will record: "done", "now" or "later"
  \* What the calls act on.
  backend,     \* the transcription backend's job for each request ID
  notes,       \* the operations appended to notes, in order
  screen,      \* the status messages sent for each job, oldest first
  unsure,      \* jobs with a row whose insert was reported to have failed, while
               \* the handler has yet to say so in the status message
  faults       \* faults so far

table  == <<rows, payload, cancel, done, lease, live, due>>
memory == <<pc, held, token, work, snap, verdict>>
world  == <<backend, notes, screen, unsure>>
vars   == <<rows, payload, cancel, done, lease, live, due,
            pc, held, token, work, snap, verdict,
            backend, notes, screen, unsure, faults>>

(***************************************************************************)
(* Types.  A payload keeps the fields that steer a step: status is the      *)
(* index of the status message (0: none), remoteID whether the backend's    *)
(* job ID is known, and result stands for result_ready, text and error.     *)
(* A status message shows a result ("final") or none yet ("progress"); a    *)
(* result is "buried" when something else was written over it.               *)
(***************************************************************************)
Results  == {"none", "text", "empty", "failed", "cancelled"}
Payload  == [status : Nat, submitStarted : BOOLEAN, remoteID : BOOLEAN,
             result : Results, acked : BOOLEAN, noteSaved : BOOLEAN,
             prepared : BOOLEAN]
Places   == {"idle", "step", "deliver", "save", "resave", "reedit", "release"}
Remote   == {"absent", "active", "text", "empty", "failed", "acked", "gone"}
Pictures == {"progress", "final", "buried", "deleted"}

Blank == [status |-> 0, submitStarted |-> FALSE, remoteID |-> FALSE,
          result |-> "none", acked |-> FALSE, noteSaved |-> FALSE,
          prepared |-> FALSE]

TableOK ==
  /\ rows \subseteq Jobs
  /\ payload \in [Jobs -> Payload]
  /\ cancel \in [Jobs -> BOOLEAN]
  /\ done \in [Jobs -> BOOLEAN]
  /\ lease \in [Jobs -> Tokens \cup {NoToken}]
  /\ live \subseteq Jobs
  /\ due \in Seq(Jobs)

MemoryOK ==
  /\ pc \in [Workers -> Places]
  /\ held \in [Workers -> Jobs \cup {NoJob}]
  /\ token \in [Workers -> Tokens \cup {NoToken}]
  /\ work \in [Workers -> Payload]
  /\ snap \in [Workers -> BOOLEAN]
  /\ verdict \in [Workers -> {"done", "now", "later"}]

WorldOK ==
  /\ backend \in [Jobs -> Remote]
  /\ notes \in Seq(Jobs)
  /\ screen \in [Jobs -> Seq(Pictures)]
  /\ unsure \subseteq Jobs
  /\ faults \in Nat

\* The type of every variable: what the columns, the copies and the outside can
\* hold; in particular only a final status of the backend becomes a result.
TypeOK == TableOK /\ MemoryOK /\ WorldOK

Init ==
  /\ rows = Legacy
  /\ payload = [j \in Jobs |-> Blank]
  /\ cancel = [j \in Jobs |-> FALSE]
  /\ done = [j \in Jobs |-> FALSE]
  /\ lease = [j \in Jobs |-> NoToken]
  /\ live = {}
  /\ due = <<>>
  /\ pc = [w \in Workers |-> "idle"]
  /\ held = [w \in Workers |-> NoJob]
  /\ token = [w \in Workers |-> NoToken]
  /\ work = [w \in Workers |-> Blank]
  /\ snap = [w \in Workers |-> FALSE]
  /\ verdict = [w \in Workers |-> "later"]
  /\ backend = [j \in Jobs |-> "absent"]
  /\ notes = <<>>
  /\ screen = [j \in Jobs |-> <<>>]
  /\ unsure = {}
  /\ faults = 0

(***************************************************************************)
(* Faults.  A call is "ok", has "failed" without effect, or has taken       *)
(* effect but "lost" its reply; the last two are charged to the bound.      *)
(***************************************************************************)
Outcomes == {"ok", "failed", "lost"}

Charge(o) ==
  /\ o # "ok" => faults < MaxFaults
  /\ faults' = IF o = "ok" THEN faults ELSE faults + 1

Took(o) == o \in {"ok", "lost"}

(***************************************************************************)
(* The queue.  A row is in due from the instant its next_at passes until it *)
(* is done or rescheduled; setting next_at to now() puts it last.           *)
(***************************************************************************)
Without(s, j) ==
  IF \E i \in DOMAIN s : s[i] = j
  THEN LET i == CHOOSE i \in DOMAIN s : s[i] = j
       IN  SubSeq(s, 1, i - 1) \o SubSeq(s, i + 1, Len(s))
  ELSE s

Last(s, j) == Append(Without(s, j), j)

\* Mutant: a lease never runs out.
Claimable_NoExpiry(j) == lease[j] = NoToken

Claimable(j) == lease[j] = NoToken \/ j \notin live

\* ORDER BY next_at ... LIMIT 1 over the rows whose lease is free or over.
Candidate(j) ==
  /\ j \in rows
  /\ ~done[j]
  /\ \E i \in DOMAIN due :
       /\ due[i] = j
       /\ Claimable(j)
       /\ \A h \in 1..(i - 1) : ~Claimable(due[h])

\* Mutant: tokens are unique among the rows only, so an old one can come back.
Fresh_Reused == {t \in Tokens : \A j \in Jobs : lease[j] # t}

\* uuid.NewString: a token that no row and no worker knows.
Fresh == {t \in Tokens : (\A j \in Jobs : lease[j] # t)
                         /\ (\A w \in Workers : token[w] # t)}

\* Mutant: the guard of Save and Release looks at the lease's end only.
Owns_AnyToken(w) == held[w] \in live

\* WHERE id = $1 AND lease_token = $2 AND lease_until > now()
Owns(w) == held[w] \in live /\ lease[held[w]] = token[w]

\* An edit of the m-th message of a job has an effect unless it was deleted.
Editable(j, m) == m \in DOMAIN screen[j] /\ screen[j][m] # "deleted"

Shown(j, m, picture) ==
  IF Editable(j, m) THEN [screen EXCEPT ![j][m] = picture] ELSE screen

-----------------------------------------------------------------------------
(***************************************************************************)
(* The Telegram side: acceptance of a voice message, the cancel button, and *)
(* the user deleting the status message.                                    *)
(***************************************************************************)

\* AcceptVoice, up to the row: the status message is sent, then the row is
\* inserted, which may lose its reply.  Long polling handles one update at a time
\* and stops at a failure; a redelivery finds the row and changes nothing.  (The
\* messages of attempts that left no row are in VoiceAccept: no row names them.)
Accept(j) ==
  /\ j \notin rows
  /\ Polling => Earlier(j) \subseteq rows \ unsure
  /\ rows' = rows \cup {j}
  /\ payload' = [payload EXCEPT ![j] = [Blank EXCEPT !.status = 1]]
  /\ screen' = [screen EXCEPT ![j] = <<"progress">>]
  /\ due' = Append(due, j)
  /\ \E o \in {"ok", "lost"} :
       /\ Charge(o)
       /\ unsure' = IF o = "lost" THEN unsure \cup {j} ELSE unsure
  /\ UNCHANGED <<cancel, done, lease, live, memory, backend, notes>>

\* The handler of a lost insert tells the user that the message will be tried
\* again, in the status message that the row names and whatever that shows by now;
\* the edit may fail, or the process die before it.
Warn(j) ==
  /\ j \in unsure
  /\ unsure' = unsure \ {j}
  /\ \/ UNCHANGED screen
     \/ screen[j][1] = "final" /\ screen' = Shown(j, 1, "buried")
  /\ UNCHANGED <<table, memory, backend, notes, faults>>

\* Store.Cancel from the button voice:stop.  Only the first press is modelled:
\* another one before the job ends would move next_at again and no more.
Cancel(j) ==
  /\ j \in rows
  /\ ~done[j]
  /\ ~cancel[j]
  /\ cancel' = [cancel EXCEPT ![j] = TRUE]
  /\ due' = Last(due, j)
  /\ UNCHANGED <<rows, payload, done, lease, live, memory, world, faults>>

DeleteMessage(j) ==
  /\ faults < MaxFaults
  /\ faults' = faults + 1
  /\ \E m \in DOMAIN screen[j] :
       /\ screen[j][m] # "deleted"
       /\ screen' = [screen EXCEPT ![j][m] = "deleted"]
  /\ UNCHANGED <<table, memory, backend, notes, unsure>>

-----------------------------------------------------------------------------
(***************************************************************************)
(* Time and the backend.                                                    *)
(***************************************************************************)

\* The delay of the last Release has passed.
BecomeDue(j) ==
  /\ j \in rows
  /\ ~done[j]
  /\ \A i \in DOMAIN due : due[i] # j
  /\ due' = Append(due, j)
  /\ UNCHANGED <<rows, payload, cancel, done, lease, live, memory, world, faults>>

\* A worker still carries this lease.
Carried(j) == \E w \in Workers : held[w] = j /\ token[w] = lease[j]

\* lease_until passes.  The lease (240 s) outlives a step (180 s) and its
\* Release (5 s), so it expires under its owner only if the owner has stalled.
Expire(j) ==
  /\ j \in live
  /\ ~Carried(j)
  /\ live' = live \ {j}
  /\ UNCHANGED <<rows, payload, cancel, done, lease, due, memory, world, faults>>

ExpireUnderOwner(j) ==
  /\ Stalls
  /\ j \in live
  /\ Carried(j)
  /\ live' = live \ {j}
  /\ faults < MaxFaults
  /\ faults' = faults + 1
  /\ UNCHANGED <<rows, payload, cancel, done, lease, due, memory, world>>

Transcribe(j) ==
  /\ backend[j] = "active"
  /\ \E r \in {"text", "empty", "failed"} : backend' = [backend EXCEPT ![j] = r]
  /\ UNCHANGED <<table, memory, notes, screen, unsure, faults>>

\* The backend drops an acknowledged job, and its request ID with it.
Collect(j) ==
  /\ backend[j] = "acked"
  /\ backend' = [backend EXCEPT ![j] = "gone"]
  /\ UNCHANGED <<table, memory, notes, screen, unsure, faults>>

-----------------------------------------------------------------------------
(***************************************************************************)
(* One turn of RunVoiceJobs: claim, step, save, release.                    *)
(***************************************************************************)

\* Store.Claim.  When its reply is lost the row stays leased to a token that
\* nobody carries.
Claim(w) ==
  /\ pc[w] = "idle"
  /\ \E j \in Jobs, t \in Fresh :
       /\ Candidate(j)
       /\ lease' = [lease EXCEPT ![j] = t]
       /\ live' = live \cup {j}
       /\ \/ /\ pc' = [pc EXCEPT ![w] = "step"]
             /\ held' = [held EXCEPT ![w] = j]
             /\ token' = [token EXCEPT ![w] = t]
             /\ work' = [work EXCEPT ![w] = payload[j]]
             /\ snap' = [snap EXCEPT ![w] = cancel[j]]
             /\ UNCHANGED <<verdict, faults>>
          \/ Charge("lost") /\ UNCHANGED memory
  /\ UNCHANGED <<rows, payload, cancel, done, due, world>>

\* Mutants of Stage: acknowledge before the result is saved; cancel without
\* resolving an upload that may have been accepted; cancel only what the backend
\* has not got yet.
Stage_AckFirst(p, c) ==
  IF p.status = 0 THEN "status"
  ELSE IF p.result = "none" /\ ~p.submitStarted THEN "intend"
  ELSE IF p.result = "none" /\ ~p.remoteID THEN "submit"
  ELSE IF p.remoteID /\ ~p.acked THEN "ack"
  ELSE IF p.result = "none" THEN "poll"
  ELSE "front"

Stage_CancelUnresolved(p, c) ==
  IF p.status = 0 THEN "status"
  ELSE IF c /\ p.result = "none" THEN "cancel"
  ELSE IF p.result = "none" /\ ~p.submitStarted THEN "intend"
  ELSE IF p.result = "none" /\ ~p.remoteID THEN "submit"
  ELSE IF p.result = "none" THEN "poll"
  ELSE IF p.remoteID /\ ~p.acked THEN "ack"
  ELSE "front"

Stage_CancelEarlyOnly(p, c) ==
  IF p.status = 0 THEN "status"
  ELSE IF c /\ p.result = "none" /\ ~p.submitStarted THEN "cancel"
  ELSE IF p.result = "none" /\ ~p.submitStarted THEN "intend"
  ELSE IF p.result = "none" /\ ~p.remoteID THEN "submit"
  ELSE IF p.result = "none" THEN "poll"
  ELSE IF p.remoteID /\ ~p.acked THEN "ack"
  ELSE "front"

\* The branch of voiceStep that a job takes, given the cancel flag that was
\* read with it.
Stage(p, c) ==
  IF p.status = 0 THEN "status"
  ELSE IF c /\ p.result = "none" /\ (p.remoteID \/ ~p.submitStarted) THEN "cancel"
  ELSE IF p.result = "none" /\ ~p.submitStarted THEN "intend"
  ELSE IF p.result = "none" /\ ~p.remoteID THEN "submit"
  ELSE IF p.result = "none" THEN "poll"
  ELSE IF p.remoteID /\ ~p.acked THEN "ack"
  ELSE "front"

At(w, s) == pc[w] = "step" /\ Stage(work[w], snap[w]) = s

\* voiceStep has changed its copy and calls Save next.
Checkpoint(w, p) ==
  /\ work' = [work EXCEPT ![w] = p]
  /\ pc' = [pc EXCEPT ![w] = "save"]
  /\ UNCHANGED <<held, token, snap, verdict>>

\* voiceStep returns v: "done", "now" (progress saved) or "later" (an error, or
\* nothing to do yet).
Return(w, v) ==
  /\ verdict' = [verdict EXCEPT ![w] = v]
  /\ pc' = [pc EXCEPT ![w] = "release"]
  /\ UNCHANGED <<held, token, work, snap>>

Goto(w, place) ==
  /\ pc' = [pc EXCEPT ![w] = place]
  /\ UNCHANGED <<held, token, work, snap, verdict>>

Step(w, o, p) == IF o = "ok" THEN Checkpoint(w, p) ELSE Return(w, "later")

\* updateDurableVoiceStatus: an edit that may fail, and is skipped when the
\* text is the one already shown.
ShowProgress(w) == screen' \in {screen, Shown(held[w], work[w].status, "progress")}

\* A job of an earlier release has no status message yet: send one.
SendStatus(w) ==
  /\ At(w, "status")
  /\ \E o \in Outcomes :
       /\ Charge(o)
       /\ screen' = IF Took(o) THEN [screen EXCEPT ![held[w]] = Append(@, "progress")]
                    ELSE screen
       /\ Step(w, o, [work[w] EXCEPT !.status = Len(screen[held[w]]) + 1])
  /\ UNCHANGED <<table, backend, notes, unsure>>

\* The backend takes a cancellation at once, or its job runs to its end.
CancelRemote(w) ==
  /\ At(w, "cancel")
  /\ \E o \in (IF work[w].remoteID THEN Outcomes ELSE {"ok"}) :
       /\ Charge(o)
       /\ IF work[w].remoteID /\ Took(o) /\ backend[held[w]] = "active"
          THEN \E r \in {"active", "failed"} : backend' = [backend EXCEPT ![held[w]] = r]
          ELSE UNCHANGED backend
       /\ Step(w, o, [work[w] EXCEPT !.result = "cancelled"])
  /\ UNCHANGED <<table, notes, screen, unsure>>

\* The intent to submit is saved before the upload.
Intend(w) ==
  /\ At(w, "intend")
  /\ Checkpoint(w, [work[w] EXCEPT !.submitStarted = TRUE])
  /\ UNCHANGED <<table, world, faults>>

\* SubmitOnce: the request ID is known to the backend as long as its job is.
Submitted(b) == IF b \in {"absent", "gone"} THEN "active" ELSE b

Submit(w) ==
  /\ At(w, "submit")
  /\ ShowProgress(w)
  /\ \E o \in Outcomes :
       /\ Charge(o)
       /\ backend' = IF Took(o) THEN [backend EXCEPT ![held[w]] = Submitted(@)]
                     ELSE backend
       /\ Step(w, o, [work[w] EXCEPT !.remoteID = TRUE])
  /\ UNCHANGED <<table, notes, unsure>>

\* A dropped job answers NOT_FOUND; an acknowledged one that the backend still
\* keeps answers as before (any result: it is no longer recorded here).
Answers(b) == IF b = "acked" THEN {"text", "empty", "failed"} ELSE {b}

\* Mutant: a job that still runs is taken for finished.
Poll_AnyStatus(w) ==
  /\ At(w, "poll")
  /\ Checkpoint(w, [work[w] EXCEPT !.result = backend[held[w]]])
  /\ UNCHANGED <<table, world, faults>>

Poll(w) ==
  /\ At(w, "poll")
  /\ \/ /\ \E r \in Answers(backend[held[w]]) \cap {"text", "empty", "failed"} :
             Checkpoint(w, [work[w] EXCEPT !.result = r])
        /\ UNCHANGED <<screen, faults>>
     \/ /\ backend[held[w]] = "active"
        /\ Return(w, "later")
        /\ ShowProgress(w)
        /\ UNCHANGED faults
     \/ /\ backend[held[w]] \in {"absent", "gone"}
        /\ Return(w, "later")
        /\ UNCHANGED <<screen, faults>>
     \/ /\ Charge("failed")
        /\ Return(w, "later")
        /\ UNCHANGED screen
  /\ UNCHANGED <<table, backend, notes, unsure>>

\* Ack of a job that the backend has dropped answers NOT_FOUND, which counts
\* as acknowledged; of one that still runs, it answers false.
Ack(w) ==
  /\ At(w, "ack")
  /\ \E o \in Outcomes :
       /\ Charge(o)
       /\ backend' = IF Took(o) /\ backend[held[w]] \in {"text", "empty", "failed"}
                     THEN [backend EXCEPT ![held[w]] = "acked"] ELSE backend
       /\ IF o = "ok" /\ backend[held[w]] = "active"
          THEN Return(w, "later")
          ELSE Step(w, o, [work[w] EXCEPT !.acked = TRUE])
  /\ UNCHANGED <<table, notes, screen, unsure>>

\* Mutant: the order is not looked at.
IsFront_Always(j) == TRUE

\* IsFront: no unfinished row of the chat with a smaller message ID.
IsFront(j) == \A k \in Earlier(j) : k \in rows => done[k]

CheckFront(w) ==
  /\ At(w, "front")
  /\ \/ /\ IF IsFront(held[w]) THEN Goto(w, "deliver") ELSE Return(w, "later")
        /\ UNCHANGED faults
     \/ Charge("failed") /\ Return(w, "later")
  /\ UNCHANGED <<table, world>>

-----------------------------------------------------------------------------
(***************************************************************************)
(* Delivery, once the job was seen at the front of its chat.                *)
(***************************************************************************)
Written == {notes[i] : i \in DOMAIN notes}

\* Mutant: the marker is not looked for.
AppendOnce_Blind(j) == Append(notes, j)

\* AppendToNoteOnce and AppendByPathOnce look for the operation's marker first.
AppendOnce(j) == IF j \in Written THEN notes ELSE Append(notes, j)

\* Mutant: the error of a job is not looked at before its text is written.
ToAppend_AnyResult(w) == Mode[held[w]] = "note" /\ ~work[w].noteSaved

ToAppend(w)  == work[w].result = "text" /\ Mode[held[w]] = "note" /\ ~work[w].noteSaved
ToPrepare(w) == work[w].result = "text" /\ Mode[held[w]] = "smart" /\ ~work[w].prepared

AppendNote(w) ==
  /\ pc[w] = "deliver"
  /\ ToAppend(w)
  /\ \E o \in Outcomes :
       /\ Charge(o)
       /\ notes' = IF Took(o) THEN AppendOnce(held[w]) ELSE notes
       /\ Step(w, o, [work[w] EXCEPT !.noteSaved = TRUE])
  /\ UNCHANGED <<table, backend, screen, unsure>>

\* prepareVoiceIntent asks the language model; it changes nothing elsewhere.
Prepare(w) ==
  /\ pc[w] = "deliver"
  /\ ToPrepare(w)
  /\ \E o \in {"ok", "failed"} :
       /\ Charge(o)
       /\ Step(w, o, [work[w] EXCEPT !.prepared = TRUE])
  /\ UNCHANGED <<table, world>>

\* Mutant: the result of the edit is not looked at.
EditResult_Unchecked(w) ==
  /\ pc[w] = "deliver"
  /\ ~ToAppend(w)
  /\ ~ToPrepare(w)
  /\ \E o \in Outcomes :
       /\ Charge(o)
       /\ screen' = IF Took(o) THEN Shown(held[w], work[w].status, "final") ELSE screen
       /\ Return(w, "done")
  /\ UNCHANGED <<table, backend, notes, unsure>>

\* editDurableResult on the message the payload names.
EditResult(w) ==
  /\ pc[w] = "deliver"
  /\ ~ToAppend(w)
  /\ ~ToPrepare(w)
  /\ Editable(held[w], work[w].status)
  /\ \E o \in Outcomes :
       /\ Charge(o)
       /\ screen' = IF Took(o) THEN Shown(held[w], work[w].status, "final") ELSE screen
       /\ Return(w, IF o = "ok" THEN "done" ELSE "later")
  /\ UNCHANGED <<table, backend, notes, unsure>>

\* That message is gone: send another and save its ID before it is used.
ReplaceMessage(w) ==
  /\ pc[w] = "deliver"
  /\ ~ToAppend(w)
  /\ ~ToPrepare(w)
  /\ ~Editable(held[w], work[w].status)
  /\ \E o \in Outcomes :
       /\ Charge(o)
       /\ screen' = IF Took(o) THEN [screen EXCEPT ![held[w]] = Append(@, "progress")]
                    ELSE screen
       /\ IF o = "ok"
          THEN /\ work' = [work EXCEPT ![w].status = Len(screen[held[w]]) + 1]
               /\ pc' = [pc EXCEPT ![w] = "resave"]
               /\ UNCHANGED <<held, token, snap, verdict>>
          ELSE Return(w, "later")
  /\ UNCHANGED <<table, backend, notes, unsure>>

\* The edit of the replacement; a second disappearance is an error.
EditReplacement(w) ==
  /\ pc[w] = "reedit"
  /\ \E o \in Outcomes :
       /\ Charge(o)
       /\ screen' = IF Took(o) THEN Shown(held[w], work[w].status, "final") ELSE screen
       /\ Return(w, IF o = "ok" /\ Editable(held[w], work[w].status) THEN "done" ELSE "later")
  /\ UNCHANGED <<table, backend, notes, unsure>>

-----------------------------------------------------------------------------
\* Store.Save: the copy replaces the payload while the lease is still owned.
Save(w) ==
  /\ pc[w] \in {"save", "resave"}
  /\ \E o \in Outcomes :
       /\ Charge(o)
       /\ payload' = IF Took(o) /\ Owns(w) THEN [payload EXCEPT ![held[w]] = work[w]]
                     ELSE payload
       /\ IF o # "ok" \/ ~Owns(w) THEN Return(w, "later")
          ELSE IF pc[w] = "resave" THEN Goto(w, "reedit")
          ELSE Return(w, "now")
  /\ UNCHANGED <<rows, cancel, done, lease, live, due, world>>

Forget(w) ==
  /\ pc' = [pc EXCEPT ![w] = "idle"]
  /\ held' = [held EXCEPT ![w] = NoJob]
  /\ token' = [token EXCEPT ![w] = NoToken]
  /\ work' = [work EXCEPT ![w] = Blank]
  /\ snap' = [snap EXCEPT ![w] = FALSE]
  /\ verdict' = [verdict EXCEPT ![w] = "later"]

\* Store.Release, under the same guard, with whatever the copy holds by now.
Requeue(j, v) == IF v = "now" THEN Last(due, j) ELSE Without(due, j)

Release(w) ==
  /\ pc[w] = "release"
  /\ \E o \in Outcomes :
       /\ Charge(o)
       /\ IF Took(o) /\ Owns(w)
          THEN /\ payload' = [payload EXCEPT ![held[w]] = work[w]]
               /\ done' = [done EXCEPT ![held[w]] = (verdict[w] = "done")]
               /\ due' = Requeue(held[w], verdict[w])
               /\ lease' = [lease EXCEPT ![held[w]] = NoToken]
               /\ live' = live \ {held[w]}
          ELSE UNCHANGED <<payload, done, due, lease, live>>
  /\ Forget(w)
  /\ UNCHANGED <<rows, cancel, world>>

\* The process dies, or a shutdown interrupts it; a new one starts idle.
Crash(w) ==
  /\ pc[w] # "idle"
  /\ faults < MaxFaults
  /\ faults' = faults + 1
  /\ Forget(w)
  /\ UNCHANGED <<table, world>>

Work(w) ==
  \/ Claim(w) \/ SendStatus(w) \/ CancelRemote(w) \/ Intend(w) \/ Submit(w)
  \/ Poll(w) \/ Ack(w) \/ CheckFront(w)
  \/ AppendNote(w) \/ Prepare(w) \/ EditResult(w) \/ ReplaceMessage(w)
  \/ EditReplacement(w) \/ Save(w) \/ Release(w)

\* Every voice message has been answered: nothing is left to do.
AllDone == (\A j \in Jobs : done[j]) /\ UNCHANGED vars

Next ==
  \/ \E j \in Jobs :
       \/ Accept(j) \/ Warn(j) \/ Cancel(j) \/ DeleteMessage(j) \/ BecomeDue(j)
       \/ Expire(j) \/ ExpireUnderOwner(j) \/ Transcribe(j) \/ Collect(j)
  \/ \E w \in Workers : Work(w) \/ Crash(w)
  \/ AllDone

Spec == Init /\ [][Next]_vars

\* The process is restarted after a crash and its loop never stops; delays and
\* leases run out; the backend finishes what it accepted.  Users and faults owe
\* nothing.
Fairness ==
  /\ \A w \in Workers : WF_vars(Work(w))
  /\ \A j \in Jobs : WF_vars(BecomeDue(j)) /\ WF_vars(Expire(j)) /\ WF_vars(Transcribe(j))

FairSpec == Spec /\ Fairness

-----------------------------------------------------------------------------
(***************************************************************************)
(* Properties.                                                              *)
(***************************************************************************)

\* What a payload has recorded is in q too: progress is only added.
Extends(q, p) ==
  /\ p.status <= q.status
  /\ p.submitStarted => q.submitStarted
  /\ p.remoteID => q.remoteID
  /\ p.result # "none" => q.result = p.result
  /\ p.acked => q.acked
  /\ p.noteSaved => q.noteSaved
  /\ p.prepared => q.prepared

\* No step of any worker, however late, takes back progress that a row has
\* recorded or changes its result (the fencing of Save and Release).
ProgressKept == [][\A j \in rows : Extends(payload'[j], payload[j])]_vars

\* Between two calls, a worker either holds nothing or holds a row under a token
\* that it alone carries.
Exclusive ==
  /\ \A w \in Workers : IF pc[w] = "idle" THEN held[w] = NoJob /\ token[w] = NoToken
                        ELSE held[w] \in rows /\ token[w] \in Tokens
  /\ \A v, w \in Workers : token[v] = token[w] /\ token[v] # NoToken => v = w

\* A payload, in the table or in a copy, names a status message that was sent.
StatusSent ==
  /\ \A j \in Jobs : payload[j].status <= Len(screen[j])
  /\ \A w \in Workers : pc[w] # "idle" => work[w].status <= Len(screen[held[w]])

\* Until a worker changes its copy, the row has everything the copy has; so a
\* worker whose lease was taken over never acts on progress that was not saved.
CopyIsRecorded ==
  \A w \in Workers :
    pc[w] \in {"step", "deliver"} => Extends(payload[held[w]], work[w])

\* The worker that owns a row's lease works on a copy that continues the row.
OwnerIsCurrent ==
  \A w \in Workers : Owns(w) => Extends(work[w], payload[held[w]])

Fencing == Exclusive /\ StatusSent /\ CopyIsRecorded /\ OwnerIsCurrent

\* The backend may forget a job only after its result is in the table: Ack
\* comes a whole step after the result was saved.
AckAfterResult ==
  \A j \in Jobs : backend[j] \in {"acked", "gone"} => payload[j].result # "none"

\* Only a transcription is written to a note: never for a job whose result is
\* recorded as cancelled, failed or empty, nor before one is recorded.
WrittenHasText == \A j \in Written : payload[j].result = "text"

\* A press of the cancel button that no worker has missed (no one holds the job
\* and no result is saved) keeps the message out of the note for good.
CancelHonoured ==
  \A j \in Jobs :
    []( /\ cancel[j]
        /\ payload[j].result = "none"
        /\ \A w \in Workers : held[w] # j
        => [](j \notin Written) )

\* A finished job has done all it was accepted for: a note holds its text, and
\* the result was written to the message its row names, whatever was written over
\* it later, unless the user deleted the message.
DoneIsDelivered ==
  \A j \in Jobs : done[j] =>
    /\ payload[j].result # "none"
    /\ payload[j].result = "text" /\ Mode[j] = "note" => j \in Written
    /\ payload[j].result = "text" /\ Mode[j] = "smart" => payload[j].prepared
    /\ screen[j][payload[j].status] \in {"final", "buried", "deleted"}

\* Stronger, and violated: the message shows the result when the job is finished.
\* The handler of an insert that lost its reply may still write its notice over it.
DoneIsShown ==
  \A j \in Jobs : done[j] => screen[j][payload[j].status] \in {"final", "deleted"}

\* A finished job leaves nothing behind in the backend, which keeps an upload
\* until it is acknowledged; not even one whose submission lost its reply before
\* the job was cancelled.
NoOrphanUpload ==
  \A j \in Jobs : done[j] => backend[j] \in {"absent", "acked", "gone"}

\* A chat sees results, and its notes the texts, in the order of the messages:
\* when a job is answered, no accepted one before it is still to be answered.
Answered(j) ==
  j \in Written \/ \E m \in DOMAIN screen[j] : screen[j][m] \in {"final", "buried"}

InMessageOrder ==
  \A j \in Jobs : Answered(j) => \A k \in Earlier(j) \cap rows : done[k]

\* Every accepted message is answered in the end.
EventuallyDone == \A j \in Jobs : (j \in rows) ~> done[j]

\* The pipeline implements the promise of VoiceDelivery.
Promise == INSTANCE VoiceDelivery WITH
  accepted <- rows,
  outcome <- [j \in Jobs |-> payload[j].result],
  written <- notes,
  answered <- {j \in Jobs : done[j]}

Delivers == Promise!ASpec

=============================================================================
