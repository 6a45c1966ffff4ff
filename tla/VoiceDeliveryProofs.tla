------------------------ MODULE VoiceDeliveryProofs ------------------------
(***************************************************************************)
(* Proofs that the voice pipeline does what VoiceDelivery promises, for any   *)
(* jobs, workers and tokens.  They are about workers that do not stall past   *)
(* their lease, and for the order of the messages about long polling.        *)
(***************************************************************************)
EXTENDS VoiceJobsProofs

-----------------------------------------------------------------------------
(***************************************************************************)
(* Without stalls a job has one worker at a time, whose copy is the payload   *)
(* but for what it is about to save.  What a payload says is then true of    *)
(* the backend, the notes and the chat.                                      *)
(***************************************************************************)

\* The result is recorded, and the backend has forgotten the upload.
Ready(p) == p.result # "none" /\ (p.remoteID => p.acked)

\* Nothing is left to do for the job but to show its result.
Complete(p, j) ==
  /\ Ready(p)
  /\ p.result = "text" /\ Mode[j] = "note" => p.noteSaved
  /\ p.result = "text" /\ Mode[j] = "smart" => p.prepared

\* The message that the payload names was shown the result, or deleted.
Shows(p, j) == p.status \in DOMAIN screen[j] /\ screen[j][p.status] \in {"final", "buried", "deleted"}

\* What a payload says of the outside is so.
Sound(p, j) ==
  /\ p.acked => p.result # "none" /\ backend[j] \in {"absent", "acked", "gone"}
  /\ p.result # "none" /\ ~p.remoteID => ~p.submitStarted
  /\ p.noteSaved => j \in Written

Ends(w) == pc[w] = "release" /\ verdict[w] = "done"

Delivering(w) == pc[w] \in {"deliver", "resave", "reedit"} \/ Ends(w)

\* A worker owns the job it holds, which is not done.
Sole == \A w \in Workers : pc[w] # "idle" => Owns(w) /\ ~done[held[w]]

AllSound ==
  /\ \A j \in Jobs : Sound(payload[j], j)
  /\ \A w \in Workers : pc[w] # "idle" => Sound(work[w], held[w])

\* The intent to upload is recorded before the upload.
Uploaded == \A j \in Jobs : backend[j] # "absent" => payload[j].submitStarted

\* What has been done when a worker delivers, and when it has delivered.
PlacedAt(w) ==
  Delivering(w) => /\ Ready(work[w])
                   /\ work[w].result = payload[held[w]].result
                   /\ pc[w] # "deliver" => Complete(work[w], held[w])
                   /\ pc[w] = "release" => Shows(work[w], held[w])

Placed == \A w \in Workers : PlacedAt(w)

Finished == \A j \in Jobs : done[j] => Complete(payload[j], j) /\ Shows(payload[j], j)

\* A message without a row has no payload and no status message.
Unknown == \A j \in Jobs \ rows : payload[j] = Blank /\ screen[j] = << >> /\ ~done[j]

Inv4 == Inv3 /\ Sole /\ AllSound /\ Uploaded /\ Placed /\ Finished /\ Unknown

-----------------------------------------------------------------------------
(***************************************************************************)
(* A step of a worker.                                                      *)
(***************************************************************************)

\* Sound and Shows after a step.
SoundAfter(p, j) ==
  /\ p.acked => p.result # "none" /\ backend'[j] \in {"absent", "acked", "gone"}
  /\ p.result # "none" /\ ~p.remoteID => ~p.submitStarted
  /\ p.noteSaved => j \in Written'

\* Nothing of other workers and other jobs changes.
Alone(w) ==
  /\ \A v \in Workers : v # w => verdict'[v] = verdict[v]
  /\ \A k \in Jobs : k # held[w] => backend'[k] = backend[k] /\ screen'[k] = screen[k]
  /\ Written \subseteq Written'

\* Two workers at work hold different jobs.
LEMMA Apart ==
  ASSUME Inv4, NEW v \in Workers, NEW w \in Workers, pc[v] # "idle", pc[w] # "idle", v # w
  PROVE  held[v] # held[w]
BY OneOwner DEF Inv4, Inv3, Inv2, Sole

\* Before it changes its copy, a worker reads there what the row has.
LEMMA CopyIsRow ==
  ASSUME Inv4, NEW w \in Workers, pc[w] \in {"step", "deliver"}
  PROVE  payload[held[w]] = work[w]
<1>1. Extends(payload[held[w]], work[w]) /\ Extends(work[w], payload[held[w]])
  BY DEF Inv4, Inv3, Inv2, Sole, CopyIsRecorded, OwnerIsCurrent
<1>2. payload[held[w]] \in Payload /\ work[w] \in Payload
  BY BusyHolds DEF Inv4, Inv3, Inv2, Inv1, TypeOK, TableOK
<1> DEFINE p == payload[held[w]]
           q == work[w]
<1>3. /\ p.status = q.status /\ p.submitStarted = q.submitStarted
      /\ p.remoteID = q.remoteID /\ p.result = q.result /\ p.acked = q.acked
      /\ p.noteSaved = q.noteSaved /\ p.prepared = q.prepared
  BY <1>1, <1>2 DEF Extends, Payload
<1>4. \A a, b \in Payload : (/\ a.status = b.status /\ a.submitStarted = b.submitStarted
                             /\ a.remoteID = b.remoteID /\ a.result = b.result
                             /\ a.acked = b.acked /\ a.noteSaved = b.noteSaved
                             /\ a.prepared = b.prepared) => a = b
  BY DEF Payload
<1> QED
  BY <1>2, <1>3, <1>4

\* A step of a worker that leaves other jobs alone and keeps what is said of its
\* own job and place keeps the invariant.
LEMMA WorkerKeeps ==
  ASSUME Inv4, Inv3', NEW w \in Workers, Local(w), Alone(w),
         SoundAfter(payload[held[w]], held[w]), SoundAfter(work'[w], held[w]),
         backend'[held[w]] # "absent" => payload[held[w]].submitStarted,
         PlacedAt(w)'
  PROVE  Inv4'
<1>1. /\ UNCHANGED <<rows, payload, done, lease, live, held, token>>
      /\ pc[w] # "idle" /\ held[w] \in Jobs /\ held[w] \in rows
  BY BusyHolds DEF Local, table, Inv4, Inv3, Inv2
<1>2. ASSUME NEW v \in Workers, v # w
      PROVE  pc'[v] = pc[v] /\ work'[v] = work[v] /\ verdict'[v] = verdict[v]
  BY <1>2 DEF Local, Alone, Inv4, Inv3, Inv2, Inv1, TypeOK, MemoryOK
<1>3. ASSUME NEW v \in Workers, v # w, pc[v] # "idle"
      PROVE  /\ held[v] \in Jobs /\ held[v] # held[w]
             /\ backend'[held[v]] = backend[held[v]] /\ screen'[held[v]] = screen[held[v]]
  BY <1>1, <1>3, Apart, BusyHolds DEF Alone, Inv4, Inv3, Inv2
<1>4. Sole'
  BY <1>1, <1>2 DEF Inv4, Sole, Owns
<1>5. AllSound'
  <2>1. ASSUME NEW j \in Jobs PROVE SoundAfter(payload[j], j)
    <3>1. CASE j = held[w]
      BY <3>1
    <3>2. CASE j # held[w]
      BY <3>2 DEF Alone, SoundAfter, Sound, Inv4, AllSound
    <3> QED
      BY <3>1, <3>2
  <2>2. ASSUME NEW v \in Workers, pc'[v] # "idle" PROVE SoundAfter(work'[v], held[v])
    <3>1. CASE v = w
      BY <3>1
    <3>2. CASE v # w
      BY <1>2, <1>3, <2>2, <3>2 DEF Alone, SoundAfter, Sound, Inv4, AllSound
    <3> QED
      BY <3>1, <3>2
  <2> QED
    BY <1>1, <2>1, <2>2 DEF AllSound, Sound, SoundAfter
<1>6. Uploaded'
  BY <1>1 DEF Alone, Inv4, Uploaded
<1>7. Placed'
  <2> SUFFICES ASSUME NEW v \in Workers, v # w PROVE PlacedAt(v)'
    BY DEF Placed
  <2>1. CASE pc[v] = "idle"
    BY <1>2, <2>1 DEF PlacedAt, Delivering, Ends
  <2>2. CASE pc[v] # "idle"
    <3>1. Delivering(v)' <=> Delivering(v)
      BY <1>2 DEF Delivering, Ends
    <3>2. PlacedAt(v)
      BY DEF Inv4, Placed
    <3> QED
      BY <1>1, <1>2, <1>3, <2>2, <3>1, <3>2 DEF PlacedAt, Shows, Complete, Ready
  <2> QED
    BY <2>1, <2>2
<1>8. Finished'
  <2> SUFFICES ASSUME NEW j \in Jobs, done[j]
               PROVE  Complete(payload[j], j) /\ screen'[j] = screen[j] /\ Shows(payload[j], j)
    BY <1>1 DEF Finished, Shows, Complete, Ready
  <2>1. j # held[w]
    BY <1>1 DEF Inv4, Sole
  <2> QED
    BY <2>1 DEF Alone, Inv4, Finished
<1>9. Unknown'
  BY <1>1 DEF Alone, Inv4, Unknown
<1> QED
  BY <1>4, <1>5, <1>6, <1>7, <1>8, <1>9 DEF Inv4

\* After a call that is followed by Save or by an error there is nothing that
\* its place promises.
LEMMA StepRests ==
  ASSUME Inv1, NEW w \in Workers, pc[w] # "idle", NEW o, NEW p, Step(w, o, p)
  PROVE  /\ work'[w] = IF o = "ok" THEN p ELSE work[w]
         /\ PlacedAt(w)'
         /\ \A v \in Workers : v # w => verdict'[v] = verdict[v]
BY DEF Step, Checkpoint, Return, PlacedAt, Delivering, Ends, Inv1, TypeOK, MemoryOK

\* So there is after an error.
LEMMA LaterRests ==
  ASSUME Inv1, NEW w \in Workers, pc[w] # "idle", Return(w, "later")
  PROVE  /\ work'[w] = work[w]
         /\ PlacedAt(w)'
         /\ \A v \in Workers : v # w => verdict'[v] = verdict[v]
BY DEF Return, PlacedAt, Delivering, Ends, Inv1, TypeOK, MemoryOK

-----------------------------------------------------------------------------
(***************************************************************************)
(* The calls of a worker.                                                   *)
(***************************************************************************)

\* What a call leaves for WorkerKeeps.
Right(w) ==
  /\ Alone(w)
  /\ SoundAfter(payload[held[w]], held[w])
  /\ SoundAfter(work'[w], held[w])
  /\ backend'[held[w]] # "absent" => payload[held[w]].submitStarted
  /\ PlacedAt(w)'

\* A worker edits or adds only messages of its own job.
ScreenAlone(w) == \A k \in Jobs : k # held[w] => screen'[k] = screen[k]

LEMMA ScreensApart ==
  ASSUME Inv1, NEW w \in Workers,
         \/ screen' = screen
         \/ \E m, picture : screen' = Shown(held[w], m, picture)
         \/ screen' = [screen EXCEPT ![held[w]] = Append(@, "progress")]
  PROVE  ScreenAlone(w)
BY DEF ScreenAlone, Shown, Inv1, TypeOK, WorldOK

\* What is known of a busy worker and of the job it holds.
LEMMA BusyKnows ==
  ASSUME Inv4, NEW w \in Workers, pc[w] # "idle"
  PROVE  /\ Inv1 /\ held[w] \in Jobs /\ held[w] \in rows
         /\ work[w] \in Payload /\ payload[held[w]] \in Payload
         /\ backend \in [Jobs -> Remote]
         /\ Sound(payload[held[w]], held[w]) /\ Sound(work[w], held[w])
         /\ backend[held[w]] # "absent" => payload[held[w]].submitStarted
BY BusyHolds DEF Inv4, Inv3, Inv2, Inv1, TypeOK, TableOK, WorldOK, AllSound, Uploaded

\* A call that leaves the backend and the notes as they are.
LEMMA QuietIsRight ==
  ASSUME Inv4, NEW w \in Workers, pc[w] # "idle", UNCHANGED <<backend, notes>>,
         ScreenAlone(w), \A v \in Workers : v # w => verdict'[v] = verdict[v],
         SoundAfter(work'[w], held[w]), PlacedAt(w)'
  PROVE  Right(w)
<1>1. Sound(payload[held[w]], held[w]) /\ Written' = Written
      /\ (backend[held[w]] # "absent" => payload[held[w]].submitStarted)
  BY BusyKnows DEF Written
<1> QED
  BY <1>1 DEF Right, Alone, ScreenAlone, Sound, SoundAfter

\* A message for a job that has none.
LEMMA SendStatusRight ==
  ASSUME Inv4, NEW w \in Workers, SendStatus(w)
  PROVE  Right(w)
<1>1. pc[w] # "idle" /\ UNCHANGED <<backend, notes>>
  BY DEF SendStatus, At
<1>2. Inv1 /\ work[w] \in Payload /\ Sound(work[w], held[w])
  BY <1>1, BusyKnows
<1>3. PICK o \in Outcomes :
        /\ screen' = IF Took(o) THEN [screen EXCEPT ![held[w]] = Append(@, "progress")]
                     ELSE screen
        /\ Step(w, o, [work[w] EXCEPT !.status = Len(screen[held[w]]) + 1])
  BY DEF SendStatus
<1>4. ScreenAlone(w)
  BY <1>2, <1>3, ScreensApart
<1>5. /\ work'[w] \in {work[w], [work[w] EXCEPT !.status = Len(screen[held[w]]) + 1]}
      /\ PlacedAt(w)' /\ \A v \in Workers : v # w => verdict'[v] = verdict[v]
  BY <1>1, <1>2, <1>3, StepRests
<1>6. SoundAfter(work'[w], held[w])
  BY <1>1, <1>2, <1>5 DEF Sound, SoundAfter, Written, Payload
<1> QED
  BY <1>1, <1>4, <1>5, <1>6, QuietIsRight

\* The intent to upload, for a job that has no result.
LEMMA IntendRight ==
  ASSUME Inv4, NEW w \in Workers, Intend(w)
  PROVE  Right(w)
<1>1. pc[w] # "idle" /\ UNCHANGED <<backend, notes>> /\ screen' = screen /\ work[w].result = "none"
  BY DEF Intend, At, Stage, world
<1>2. Inv1 /\ work[w] \in Payload /\ Sound(work[w], held[w])
  BY <1>1, BusyKnows
<1>3. Step(w, "ok", [work[w] EXCEPT !.submitStarted = TRUE])
  BY DEF Intend, Step
<1>4. ScreenAlone(w)
  BY <1>1, <1>2, ScreensApart
<1>5. /\ work'[w] = [work[w] EXCEPT !.submitStarted = TRUE]
      /\ PlacedAt(w)' /\ \A v \in Workers : v # w => verdict'[v] = verdict[v]
  BY <1>1, <1>2, <1>3, StepRests
<1>6. SoundAfter(work'[w], held[w])
  BY <1>1, <1>2, <1>5 DEF Sound, SoundAfter, Written, Payload
<1> QED
  BY <1>1, <1>4, <1>5, <1>6, QuietIsRight

\* A result is polled of an upload that is known to the backend.
LEMMA PollRight ==
  ASSUME Inv4, NEW w \in Workers, Poll(w)
  PROVE  Right(w)
<1>1. /\ pc[w] # "idle" /\ UNCHANGED <<backend, notes>>
      /\ work[w].result = "none" /\ work[w].remoteID
  BY DEF Poll, At, Stage
<1>2. Inv1 /\ work[w] \in Payload /\ Sound(work[w], held[w])
  BY <1>1, BusyKnows
<1>3. ScreenAlone(w)
  BY <1>2, ScreensApart DEF Poll, ShowProgress, Checkpoint
<1>4. CASE \E r \in {"text", "empty", "failed"} : Checkpoint(w, [work[w] EXCEPT !.result = r])
  <2>1. PICK r \in {"text", "empty", "failed"} : Step(w, "ok", [work[w] EXCEPT !.result = r])
    BY <1>4 DEF Step
  <2>2. /\ work'[w] = [work[w] EXCEPT !.result = r]
        /\ PlacedAt(w)' /\ \A v \in Workers : v # w => verdict'[v] = verdict[v]
    BY <1>1, <1>2, <2>1, StepRests
  <2>3. SoundAfter(work'[w], held[w])
    BY <1>1, <1>2, <2>2 DEF Sound, SoundAfter, Written, Payload
  <2> QED
    BY <1>1, <1>3, <2>2, <2>3, QuietIsRight
<1>5. CASE Return(w, "later")
  <2>1. /\ work'[w] = work[w]
        /\ PlacedAt(w)' /\ \A v \in Workers : v # w => verdict'[v] = verdict[v]
    BY <1>1, <1>2, <1>5, LaterRests
  <2>2. SoundAfter(work'[w], held[w])
    BY <1>1, <1>2, <2>1 DEF Sound, SoundAfter, Written
  <2> QED
    BY <1>1, <1>3, <2>1, <2>2, QuietIsRight
<1> QED
  BY <1>4, <1>5 DEF Poll

\* A cancellation ends a job that has not been uploaded, or whose upload is known.
LEMMA CancelRemoteRight ==
  ASSUME Inv4, NEW w \in Workers, CancelRemote(w)
  PROVE  Right(w)
<1>1. /\ pc[w] # "idle" /\ notes' = notes /\ screen' = screen
      /\ work[w].result = "none" /\ (work[w].remoteID \/ ~work[w].submitStarted)
  BY DEF CancelRemote, At, Stage
<1>2. Inv1 /\ held[w] \in Jobs /\ work[w] \in Payload /\ Sound(work[w], held[w])
      /\ Sound(payload[held[w]], held[w]) /\ backend \in [Jobs -> Remote]
      /\ (backend[held[w]] # "absent" => payload[held[w]].submitStarted)
  BY <1>1, BusyKnows
<1>3. PICK o \in Outcomes : Step(w, o, [work[w] EXCEPT !.result = "cancelled"])
  BY DEF CancelRemote, Outcomes
<1>4. \/ backend' = backend
      \/ backend[held[w]] = "active" /\ \E r \in {"active", "failed"} :
                                           backend' = [backend EXCEPT ![held[w]] = r]
  BY DEF CancelRemote
<1>5. /\ work'[w] \in {work[w], [work[w] EXCEPT !.result = "cancelled"]}
      /\ PlacedAt(w)' /\ \A v \in Workers : v # w => verdict'[v] = verdict[v]
  BY <1>1, <1>2, <1>3, StepRests
<1>6. /\ \A k \in Jobs : k # held[w] => backend'[k] = backend[k]
      /\ backend'[held[w]] = backend[held[w]] \/ backend[held[w]] = "active"
  BY <1>2, <1>4
<1>7. SoundAfter(work'[w], held[w]) /\ SoundAfter(payload[held[w]], held[w])
  BY <1>1, <1>2, <1>5, <1>6 DEF Sound, SoundAfter, Written, Payload
<1> QED
  BY <1>1, <1>2, <1>5, <1>6, <1>7 DEF Right, Alone, Written

\* An upload: its intent is in the row, and no result or acknowledgement is.
LEMMA SubmitRight ==
  ASSUME Inv4, NEW w \in Workers, Submit(w)
  PROVE  Right(w)
<1>1. /\ pc[w] = "step" /\ notes' = notes /\ ShowProgress(w)
      /\ work[w].result = "none" /\ work[w].submitStarted
  BY DEF Submit, At, Stage
<1>2. Inv1 /\ held[w] \in Jobs /\ work[w] \in Payload /\ Sound(work[w], held[w])
      /\ backend \in [Jobs -> Remote] /\ payload[held[w]] = work[w]
  BY <1>1, BusyKnows, CopyIsRow
<1>3. PICK o \in Outcomes : Step(w, o, [work[w] EXCEPT !.remoteID = TRUE])
  BY DEF Submit
<1>4. \/ backend' = backend
      \/ backend' = [backend EXCEPT ![held[w]] = Submitted(@)]
  BY DEF Submit
<1>5. /\ work'[w] \in {work[w], [work[w] EXCEPT !.remoteID = TRUE]}
      /\ PlacedAt(w)' /\ \A v \in Workers : v # w => verdict'[v] = verdict[v]
  BY <1>1, <1>2, <1>3, StepRests
<1>6. ScreenAlone(w) /\ \A k \in Jobs : k # held[w] => backend'[k] = backend[k]
  BY <1>1, <1>2, <1>4, ScreensApart DEF ShowProgress
<1>7. SoundAfter(work'[w], held[w]) /\ SoundAfter(payload[held[w]], held[w])
  BY <1>1, <1>2, <1>5 DEF Sound, SoundAfter, Written, Payload
<1> QED
  BY <1>1, <1>2, <1>5, <1>6, <1>7 DEF Right, Alone, ScreenAlone, Written

\* An acknowledgement that succeeds leaves nothing in the backend.
LEMMA AckRight ==
  ASSUME Inv4, NEW w \in Workers, Ack(w)
  PROVE  Right(w)
<1>1. pc[w] # "idle" /\ notes' = notes /\ screen' = screen /\ work[w].result # "none"
  BY DEF Ack, At, Stage
<1>2. Inv1 /\ held[w] \in Jobs /\ work[w] \in Payload /\ Sound(work[w], held[w])
      /\ Sound(payload[held[w]], held[w]) /\ backend \in [Jobs -> Remote]
      /\ (backend[held[w]] # "absent" => payload[held[w]].submitStarted)
  BY <1>1, BusyKnows
<1>3. PICK o \in Outcomes :
        /\ backend' = IF Took(o) /\ backend[held[w]] \in {"text", "empty", "failed"}
                      THEN [backend EXCEPT ![held[w]] = "acked"] ELSE backend
        /\ IF o = "ok" /\ backend[held[w]] = "active"
           THEN Return(w, "later")
           ELSE Step(w, o, [work[w] EXCEPT !.acked = TRUE])
  BY DEF Ack
<1>4. /\ \/ work'[w] = work[w]
         \/ work'[w] = [work[w] EXCEPT !.acked = TRUE] /\ o = "ok" /\ backend[held[w]] # "active"
      /\ PlacedAt(w)' /\ \A v \in Workers : v # w => verdict'[v] = verdict[v]
  BY <1>1, <1>2, <1>3, StepRests, LaterRests
<1>5. /\ \A k \in Jobs : k # held[w] => backend'[k] = backend[k]
      /\ backend'[held[w]] \in {backend[held[w]], "acked"}
      /\ o = "ok" /\ backend[held[w]] # "active" =>
            backend'[held[w]] \in {"absent", "acked", "gone"}
      /\ backend'[held[w]] # "absent" => backend[held[w]] # "absent"
  BY <1>2, <1>3 DEF Took, Remote
<1>6. SoundAfter(work'[w], held[w]) /\ SoundAfter(payload[held[w]], held[w])
  BY <1>1, <1>2, <1>4, <1>5 DEF Sound, SoundAfter, Written, Payload
<1> QED
  BY <1>1, <1>2, <1>4, <1>5, <1>6 DEF Right, Alone, Written

\* At the front of its chat a job has its result and has left the backend.
LEMMA CheckFrontRight ==
  ASSUME Inv4, NEW w \in Workers, CheckFront(w)
  PROVE  Right(w)
<1>1. /\ pc[w] = "step" /\ UNCHANGED <<backend, notes>> /\ screen' = screen
      /\ payload' = payload /\ Ready(work[w])
  BY DEF CheckFront, At, Stage, world, table, Ready
<1>2. Inv1 /\ Sound(work[w], held[w]) /\ payload[held[w]] = work[w]
  BY <1>1, BusyKnows, CopyIsRow
<1>3. ScreenAlone(w)
  BY <1>1, <1>2, ScreensApart
<1>4. CASE Goto(w, "deliver")
  <2>1. /\ work' = work /\ held' = held /\ verdict' = verdict /\ pc'[w] = "deliver"
    BY <1>4 DEF Goto, Inv4, Inv3, Inv2, Inv1, TypeOK, MemoryOK
  <2>2. PlacedAt(w)'
    BY <1>1, <1>2, <2>1 DEF PlacedAt, Ready
  <2>3. SoundAfter(work'[w], held[w])
    BY <1>1, <1>2, <2>1 DEF Sound, SoundAfter, Written
  <2> QED
    BY <1>1, <1>3, <2>1, <2>2, <2>3, QuietIsRight
<1>5. CASE Return(w, "later")
  <2>1. /\ work'[w] = work[w]
        /\ PlacedAt(w)' /\ \A v \in Workers : v # w => verdict'[v] = verdict[v]
    BY <1>1, <1>2, <1>5, LaterRests
  <2>2. SoundAfter(work'[w], held[w])
    BY <1>1, <1>2, <2>1 DEF Sound, SoundAfter, Written
  <2> QED
    BY <1>1, <1>3, <2>1, <2>2, QuietIsRight
<1> QED
  BY <1>4, <1>5 DEF CheckFront

\* The notes only grow, and after an append the text is there.
LEMMA AppendAdds ==
  ASSUME NEW j \in Jobs, notes \in Seq(Jobs), notes' = AppendOnce(j)
  PROVE  Written \subseteq Written' /\ j \in Written'
<1>1. CASE j \in Written
  BY <1>1 DEF AppendOnce, Written
<1>2. CASE j \notin Written
  <2>1. /\ notes' = Append(notes, j) /\ Len(notes') = Len(notes) + 1
        /\ \A i \in 1..Len(notes) : notes'[i] = notes[i]
        /\ notes'[Len(notes) + 1] = j
    BY <1>2 DEF AppendOnce
  <2>2. DOMAIN notes' = 1..(Len(notes) + 1) /\ DOMAIN notes = 1..Len(notes) /\ Len(notes) \in Nat
    BY <2>1
  <2> QED
    BY <2>1, <2>2 DEF Written
<1> QED
  BY <1>1, <1>2

\* A note is noted as saved only when the text is in it.
LEMMA AppendNoteRight ==
  ASSUME Inv4, NEW w \in Workers, AppendNote(w)
  PROVE  Right(w)
<1>1. pc[w] # "idle" /\ backend' = backend /\ screen' = screen
  BY DEF AppendNote
<1>2. Inv1 /\ held[w] \in Jobs /\ work[w] \in Payload /\ Sound(work[w], held[w])
      /\ Sound(payload[held[w]], held[w])
      /\ (backend[held[w]] # "absent" => payload[held[w]].submitStarted)
  BY <1>1, BusyKnows
<1>3. PICK o \in Outcomes :
        /\ notes' = IF Took(o) THEN AppendOnce(held[w]) ELSE notes
        /\ Step(w, o, [work[w] EXCEPT !.noteSaved = TRUE])
  BY DEF AppendNote
<1>4. /\ work'[w] = IF o = "ok" THEN [work[w] EXCEPT !.noteSaved = TRUE] ELSE work[w]
      /\ PlacedAt(w)' /\ \A v \in Workers : v # w => verdict'[v] = verdict[v]
  BY <1>1, <1>2, <1>3, StepRests
<1>5. Written \subseteq Written' /\ (o = "ok" => held[w] \in Written')
  <2>1. CASE Took(o)
    BY <1>2, <1>3, <2>1, AppendAdds DEF Inv1, TypeOK, WorldOK
  <2>2. CASE ~Took(o)
    BY <1>3, <2>2 DEF Took, Written
  <2> QED
    BY <2>1, <2>2
<1>6. SoundAfter(work'[w], held[w]) /\ SoundAfter(payload[held[w]], held[w])
  BY <1>1, <1>2, <1>4, <1>5 DEF Sound, SoundAfter, Payload
<1> QED
  BY <1>1, <1>2, <1>4, <1>5, <1>6 DEF Right, Alone

\* The first parse of a confirmation is kept with the job.
LEMMA PrepareRight ==
  ASSUME Inv4, NEW w \in Workers, Prepare(w)
  PROVE  Right(w)
<1>1. pc[w] # "idle" /\ UNCHANGED <<backend, notes>> /\ screen' = screen
  BY DEF Prepare, world
<1>2. Inv1 /\ work[w] \in Payload /\ Sound(work[w], held[w])
  BY <1>1, BusyKnows
<1>3. PICK o \in {"ok", "failed"} : Step(w, o, [work[w] EXCEPT !.prepared = TRUE])
  BY DEF Prepare
<1>4. ScreenAlone(w)
  BY <1>1, <1>2, ScreensApart
<1>5. /\ work'[w] \in {work[w], [work[w] EXCEPT !.prepared = TRUE]}
      /\ PlacedAt(w)' /\ \A v \in Workers : v # w => verdict'[v] = verdict[v]
  BY <1>1, <1>2, <1>3, StepRests
<1>6. SoundAfter(work'[w], held[w])
  BY <1>1, <1>2, <1>5 DEF Sound, SoundAfter, Written, Payload
<1> QED
  BY <1>1, <1>4, <1>5, <1>6, QuietIsRight

\* An edit of a message that is there shows its result.
LEMMA FinalShows ==
  ASSUME Inv1, NEW j \in Jobs, NEW m, Editable(j, m), screen' = Shown(j, m, "final")
  PROVE  m \in DOMAIN screen'[j] /\ screen'[j][m] = "final"
<1>1. screen[j] \in Seq(Pictures) /\ m \in DOMAIN screen[j] /\ screen \in [Jobs -> Seq(Pictures)]
  BY DEF Editable, Inv1, TypeOK, WorldOK
<1>2. screen' = [screen EXCEPT ![j] = [screen[j] EXCEPT ![m] = "final"]]
  BY <1>1 DEF Shown
<1> QED
  BY <1>1, <1>2

\* A worker ends with a job that has nothing left to do and shows its result.
LEMMA EditRight ==
  ASSUME Inv4, NEW w \in Workers, EditResult(w) \/ EditReplacement(w)
  PROVE  Right(w)
<1>1. /\ pc[w] \in {"deliver", "reedit"} /\ UNCHANGED <<backend, notes>> /\ payload' = payload
  BY DEF EditResult, EditReplacement, table
<1>2. Inv1 /\ held[w] \in Jobs /\ work[w] \in Payload /\ Sound(work[w], held[w])
  BY <1>1, BusyKnows
<1>3. PlacedAt(w) /\ Complete(work[w], held[w])
  <2>1. PlacedAt(w)
    BY DEF Inv4, Placed
  <2>2. CASE pc[w] = "deliver"
    BY <2>1, <2>2 DEF EditResult, EditReplacement, ToAppend, ToPrepare, PlacedAt, Delivering, Complete
  <2>3. CASE pc[w] = "reedit"
    BY <2>1, <2>3 DEF PlacedAt, Delivering
  <2> QED
    BY <1>1, <2>1, <2>2, <2>3
<1>4. PICK o \in Outcomes :
        /\ screen' = IF Took(o) THEN Shown(held[w], work[w].status, "final") ELSE screen
        /\ \/ Return(w, "later")
           \/ Return(w, "done") /\ o = "ok" /\ Editable(held[w], work[w].status)
  BY DEF EditResult, EditReplacement
<1>5. ScreenAlone(w)
  BY <1>2, <1>4, ScreensApart
<1>6. work' = work /\ held' = held /\ \A v \in Workers : v # w => verdict'[v] = verdict[v]
  BY <1>4 DEF Return, Inv4, Inv3, Inv2, Inv1, TypeOK, MemoryOK
<1>7. SoundAfter(work'[w], held[w])
  BY <1>1, <1>2, <1>6 DEF Sound, SoundAfter, Written
<1>8. PlacedAt(w)'
  <2>1. CASE Return(w, "later")
    BY <1>1, <1>2, <2>1, LaterRests
  <2>2. CASE Return(w, "done") /\ o = "ok" /\ Editable(held[w], work[w].status)
    <3>1. /\ work[w].status \in DOMAIN screen'[held[w]]
          /\ screen'[held[w]][work[w].status] = "final"
      BY <1>2, <1>4, <2>2, FinalShows DEF Took
    <3>2. Shows(work[w], held[w])'
      BY <1>6, <3>1 DEF Shows
    <3>3. work[w].result = payload[held[w]].result
      BY <1>1, <1>3 DEF PlacedAt, Delivering
    <3> QED
      BY <1>1, <1>3, <1>6, <3>2, <3>3 DEF PlacedAt, Complete, Ready
  <2> QED
    BY <1>4, <2>1, <2>2
<1> QED
  BY <1>1, <1>5, <1>6, <1>7, <1>8, QuietIsRight

\* A message that replaces a deleted one.
LEMMA ReplaceMessageRight ==
  ASSUME Inv4, NEW w \in Workers, ReplaceMessage(w)
  PROVE  Right(w)
<1>1. pc[w] = "deliver" /\ UNCHANGED <<backend, notes>> /\ payload' = payload
  BY DEF ReplaceMessage, table
<1>2. Inv1 /\ held[w] \in Jobs /\ work[w] \in Payload /\ Sound(work[w], held[w])
  BY <1>1, BusyKnows
<1>3. Complete(work[w], held[w]) /\ work[w].result = payload[held[w]].result
  BY <1>1 DEF ReplaceMessage, ToAppend, ToPrepare, PlacedAt, Delivering, Complete, Inv4, Placed
<1>4. PICK o \in Outcomes :
        /\ screen' = IF Took(o) THEN [screen EXCEPT ![held[w]] = Append(@, "progress")]
                     ELSE screen
        /\ IF o = "ok"
           THEN /\ work' = [work EXCEPT ![w].status = Len(screen[held[w]]) + 1]
                /\ pc' = [pc EXCEPT ![w] = "resave"]
                /\ UNCHANGED <<held, token, snap, verdict>>
           ELSE Return(w, "later")
  BY DEF ReplaceMessage
<1>5. ScreenAlone(w)
  BY <1>2, <1>4, ScreensApart
<1>6. CASE o = "ok"
  <2>1. /\ work'[w] = [work[w] EXCEPT !.status = Len(screen[held[w]]) + 1]
        /\ pc'[w] = "resave" /\ held' = held /\ verdict' = verdict
    BY <1>4, <1>6 DEF Inv4, Inv3, Inv2, Inv1, TypeOK, MemoryOK
  <2>2. SoundAfter(work'[w], held[w])
    BY <1>1, <1>2, <2>1 DEF Sound, SoundAfter, Written, Payload
  <2>3. /\ Complete(work'[w], held[w]) /\ work'[w].result = work[w].result
    BY <1>2, <1>3, <2>1 DEF Complete, Ready, Payload
  <2>4. PlacedAt(w)'
    BY <1>1, <1>3, <2>1, <2>3 DEF PlacedAt, Complete, Ready
  <2> QED
    BY <1>1, <1>5, <2>1, <2>2, <2>4, QuietIsRight
<1>7. CASE o # "ok"
  <2>1. /\ work'[w] = work[w]
        /\ PlacedAt(w)' /\ \A v \in Workers : v # w => verdict'[v] = verdict[v]
    BY <1>1, <1>2, <1>4, <1>7, LaterRests
  <2>2. SoundAfter(work'[w], held[w])
    BY <1>1, <1>2, <2>1 DEF Sound, SoundAfter, Written
  <2> QED
    BY <1>1, <1>5, <2>1, <2>2, QuietIsRight
<1> QED
  BY <1>6, <1>7

\* Every call of a worker between Claim and Save keeps the invariant.
LEMMA ProgressKeeps ==
  ASSUME Inv4, Inv3', NEW w \in Workers, Progress(w)
  PROVE  Inv4'
<1>1. Right(w)
  BY SendStatusRight, CancelRemoteRight, IntendRight, SubmitRight, PollRight, AckRight,
     CheckFrontRight, AppendNoteRight, PrepareRight, EditRight, ReplaceMessageRight DEF Progress
<1>2. Local(w)
  BY ProgressMoves DEF Moves, Inv4, Inv3, Inv2
<1> QED
  BY <1>1, <1>2, WorkerKeeps DEF Right

-----------------------------------------------------------------------------
(***************************************************************************)
(* The table: Save, Release, Claim; crashes; what comes from outside.        *)
(***************************************************************************)

\* A worker whose memory, row and surroundings stay keeps what is said of it.
LEMMA OthersStay ==
  ASSUME Inv4, NEW v \in Workers, pc[v] # "idle", UNCHANGED world,
         pc'[v] = pc[v], held'[v] = held[v], token'[v] = token[v], work'[v] = work[v],
         verdict'[v] = verdict[v],
         payload'[held[v]] = payload[held[v]], lease'[held[v]] = lease[held[v]],
         done'[held[v]] = done[held[v]], held[v] \in live'
  PROVE  /\ Owns(v)' /\ ~done'[held'[v]] /\ Sound(work[v], held[v])'
         /\ PlacedAt(v)'
<1>1. Owns(v) /\ ~done[held[v]] /\ Sound(work[v], held[v]) /\ PlacedAt(v)
  BY DEF Inv4, Sole, AllSound, Placed
<1>2. Written' = Written
  BY DEF Written, world
<1> QED
  BY <1>1, <1>2 DEF Owns, Sound, PlacedAt, Delivering, Ends, Complete, Ready, Shows, world

\* What is said of a row stays when the row and its surroundings do.
LEMMA RowsStay ==
  ASSUME Inv4, NEW j \in Jobs, UNCHANGED world, payload'[j] = payload[j]
  PROVE  /\ Sound(payload[j], j)'
         /\ backend'[j] # "absent" => payload'[j].submitStarted
         /\ done[j] => Complete(payload[j], j)' /\ Shows(payload[j], j)'
<1>1. Written' = Written
  BY DEF Written, world
<1> QED
  BY <1>1 DEF Inv4, AllSound, Uploaded, Finished, Sound, Complete, Ready, Shows, world

\* Saving makes the row what the copy is, or nothing.
LEMMA SaveKeeps ==
  ASSUME Inv4, Inv3', NEW w \in Workers, Save(w)
  PROVE  Inv4'
<1>1. pc[w] \in {"save", "resave"} /\ Inv1 /\ held[w] \in Jobs /\ held[w] \in rows
      /\ Owns(w) /\ ~done[held[w]]
  BY BusyKnows DEF Save, Inv4, Sole
<1>2. UNCHANGED <<rows, cancel, done, lease, live, due, world>> /\ Written' = Written
  BY DEF Save, world, Written
<1>3. PICK o \in Outcomes :
        /\ payload' = IF Took(o) THEN [payload EXCEPT ![held[w]] = work[w]] ELSE payload
        /\ IF o # "ok" THEN Return(w, "later")
           ELSE IF pc[w] = "resave" THEN Goto(w, "reedit")
           ELSE Return(w, "now")
  BY <1>1 DEF Save
<1>4. /\ held' = held /\ token' = token /\ work' = work
      /\ \A v \in Workers : v # w => pc'[v] = pc[v] /\ verdict'[v] = verdict[v]
      /\ pc'[w] # "idle"
  BY <1>1, <1>3 DEF Return, Goto, Inv1, TypeOK, MemoryOK
<1>5. /\ \A j \in Jobs : j # held[w] => payload'[j] = payload[j]
      /\ payload'[held[w]] = IF Took(o) THEN work[w] ELSE payload[held[w]]
  BY <1>1, <1>3 DEF Inv1, TypeOK, TableOK
<1>6. ASSUME NEW v \in Workers, v # w, pc[v] # "idle"
      PROVE  /\ Owns(v)' /\ ~done'[held'[v]] /\ Sound(work[v], held[v])'
             /\ PlacedAt(v)'
  <2>1. held[v] \in Jobs /\ held[v] # held[w] /\ held[v] \in live
    BY <1>1, <1>6, Apart, BusyKnows DEF Inv4, Sole, Owns
  <2> QED
    BY <1>2, <1>4, <1>5, <1>6, <2>1, OthersStay
<1>7. /\ Owns(w)' /\ ~done'[held'[w]] /\ Sound(work[w], held[w])' /\ Sound(payload[held[w]], held[w])'
      /\ backend'[held[w]] # "absent" => payload'[held[w]].submitStarted
  <2>1. /\ Sound(work[w], held[w]) /\ Sound(payload[held[w]], held[w])
        /\ backend[held[w]] # "absent" => payload[held[w]].submitStarted
    BY <1>1, BusyKnows
  <2>2. payload[held[w]].submitStarted => work[w].submitStarted
    BY <1>1 DEF Inv4, Inv3, Inv2, OwnerIsCurrent, Extends
  <2> QED
    BY <1>1, <1>2, <1>4, <1>5, <2>1, <2>2 DEF Owns, Sound, world
<1>8. PlacedAt(w)'
  <2>1. CASE pc[w] = "resave" /\ o = "ok"
    <3>1. Complete(work[w], held[w])
      BY <2>1 DEF Inv4, Placed, PlacedAt, Delivering
    <3>2. pc'[w] = "reedit" /\ payload'[held[w]] = work[w]
      BY <1>1, <1>3, <1>5, <2>1 DEF Goto, Took, Inv1, TypeOK, MemoryOK
    <3> QED
      BY <1>4, <3>1, <3>2 DEF PlacedAt, Complete, Ready
  <2>2. CASE ~(pc[w] = "resave" /\ o = "ok")
    BY <1>1, <1>3, <2>2 DEF Return, PlacedAt, Delivering, Ends, Inv1, TypeOK, MemoryOK
  <2> QED
    BY <2>1, <2>2
<1>9. ASSUME NEW j \in Jobs
      PROVE  /\ Sound(payload[j], j)'
             /\ backend'[j] # "absent" => payload'[j].submitStarted
             /\ done[j] => Complete(payload[j], j)' /\ Shows(payload[j], j)'
  BY <1>1, <1>2, <1>4, <1>5, <1>7, <1>9, RowsStay
<1>10. Sole' /\ AllSound' /\ Placed'
  <2>1. \A v \in Workers : pc'[v] # "idle" => v = w \/ pc[v] # "idle"
    BY <1>4
  <2>2. ASSUME NEW v \in Workers, pc'[v] = "idle" PROVE PlacedAt(v)'
    BY <2>2 DEF PlacedAt, Delivering, Ends
  <2> QED
    BY <1>6, <1>7, <1>8, <1>9, <2>1, <2>2 DEF Sole, AllSound, Placed
<1>11. Uploaded' /\ Finished' /\ Unknown'
  BY <1>1, <1>2, <1>5, <1>9 DEF Uploaded, Finished, Unknown, Inv4, world
<1> QED
  BY <1>10, <1>11 DEF Inv4

\* A worker that forgets its job leaves the others as they are.
LEMMA ForgetKeeps ==
  ASSUME Inv4, NEW w \in Workers, pc[w] # "idle", Forget(w), UNCHANGED <<rows, world>>,
         \A j \in Jobs : j # held[w] =>
            /\ payload'[j] = payload[j] /\ lease'[j] = lease[j] /\ done'[j] = done[j]
            /\ j \in live => j \in live',
         \/ payload'[held[w]] = payload[held[w]] /\ done'[held[w]] = done[held[w]]
         \/ payload'[held[w]] = work[w] /\ done'[held[w]] = (verdict[w] = "done")
            /\ pc[w] = "release"
  PROVE  Sole' /\ AllSound' /\ Uploaded' /\ Placed' /\ Finished' /\ Unknown'
<1>1. Inv1 /\ held[w] \in Jobs /\ held[w] \in rows /\ Owns(w) /\ ~done[held[w]]
  BY BusyKnows DEF Inv4, Sole
<1>2. /\ pc'[w] = "idle"
      /\ \A v \in Workers : v # w =>
            /\ pc'[v] = pc[v] /\ held'[v] = held[v] /\ token'[v] = token[v]
            /\ work'[v] = work[v] /\ verdict'[v] = verdict[v]
  BY <1>1 DEF Forget, Inv1, TypeOK, MemoryOK
<1>3. ASSUME NEW v \in Workers, v # w, pc[v] # "idle"
      PROVE  /\ Owns(v)' /\ ~done'[held'[v]] /\ Sound(work[v], held[v])'
             /\ PlacedAt(v)'
  <2>1. held[v] \in Jobs /\ held[v] # held[w] /\ held[v] \in live
    BY <1>1, <1>3, Apart, BusyKnows DEF Inv4, Sole, Owns
  <2> QED
    BY <1>2, <1>3, <2>1, OthersStay
<1>4. /\ Sound(payload[held[w]], held[w]) /\ Sound(work[w], held[w]) /\ Written' = Written
      /\ (backend[held[w]] # "absent" => payload[held[w]].submitStarted)
  BY BusyKnows DEF Written, world
<1>5. payload[held[w]].submitStarted => work[w].submitStarted
  BY <1>1 DEF Inv4, Inv3, Inv2, OwnerIsCurrent, Extends
<1>6. pc[w] = "release" /\ verdict[w] = "done" =>
         Complete(work[w], held[w]) /\ Shows(work[w], held[w])
  BY DEF Inv4, Placed, PlacedAt, Delivering, Ends
<1>7. ASSUME NEW j \in Jobs
      PROVE  /\ payload'[j].acked => /\ payload'[j].result # "none"
                                     /\ backend'[j] \in {"absent", "acked", "gone"}
             /\ payload'[j].result # "none" /\ ~payload'[j].remoteID =>
                   ~payload'[j].submitStarted
             /\ payload'[j].noteSaved => j \in Written'
             /\ backend'[j] # "absent" => payload'[j].submitStarted
             /\ done'[j] => Complete(payload'[j], j) /\ screen' = screen /\ Shows(payload'[j], j)
  <2>1. CASE j # held[w]
    BY <1>4, <2>1 DEF Inv4, AllSound, Uploaded, Finished, Sound, world
  <2>2. CASE j = held[w]
    BY <1>1, <1>4, <1>5, <1>6, <2>2 DEF Sound, world
  <2> QED
    BY <2>1, <2>2
<1>8. (\A j \in Jobs : Sound(payload[j], j)') /\ Uploaded' /\ Finished'
  BY <1>7 DEF Sound, Uploaded, Finished, Complete, Ready, Shows
<1>9. Sole' /\ AllSound' /\ Placed'
  <2>1. ASSUME NEW v \in Workers, pc'[v] = "idle" PROVE PlacedAt(v)'
    BY <2>1 DEF PlacedAt, Delivering, Ends
  <2> QED
    BY <1>2, <1>3, <1>8, <2>1 DEF Sole, AllSound, Placed
<1>10. Unknown'
  BY <1>1 DEF Inv4, Unknown, world
<1> QED
  BY <1>8, <1>9, <1>10

\* A release gives the row back, and marks it as done when all of it is.
LEMMA ReleaseKeeps ==
  ASSUME Inv4, Inv3', NEW w \in Workers, Release(w)
  PROVE  Inv4'
<1>1. pc[w] = "release" /\ Forget(w) /\ UNCHANGED <<rows, cancel, world>>
  BY DEF Release
<1>2. Inv1 /\ held[w] \in Jobs
  BY <1>1, BusyKnows
<1>3. \/ UNCHANGED <<payload, done, due, lease, live>>
      \/ /\ payload' = [payload EXCEPT ![held[w]] = work[w]]
         /\ done' = [done EXCEPT ![held[w]] = (verdict[w] = "done")]
         /\ lease' = [lease EXCEPT ![held[w]] = NoToken]
         /\ live' = live \ {held[w]}
  BY DEF Release
<1>4. /\ \A j \in Jobs : j # held[w] =>
            /\ payload'[j] = payload[j] /\ lease'[j] = lease[j] /\ done'[j] = done[j]
            /\ j \in live => j \in live'
      /\ \/ payload'[held[w]] = payload[held[w]] /\ done'[held[w]] = done[held[w]]
         \/ payload'[held[w]] = work[w] /\ done'[held[w]] = (verdict[w] = "done")
  BY <1>2, <1>3 DEF Inv1, TypeOK, TableOK
<1> QED
  BY <1>1, <1>4, ForgetKeeps DEF Inv4

\* A crash leaves the lease in the table.
LEMMA CrashKeeps ==
  ASSUME Inv4, Inv3', NEW w \in Workers, Crash(w)
  PROVE  Inv4'
<1>1. pc[w] # "idle" /\ Forget(w) /\ UNCHANGED table /\ UNCHANGED <<backend, notes, screen>>
  BY DEF Crash, world
<1> QED
  BY <1>1, ForgetKeeps DEF Inv4, Crash, table, world

\* A claim takes a row that nobody holds, and copies it.
LEMMA ClaimKeeps ==
  ASSUME Inv4, Inv3', NEW w \in Workers, Claim(w)
  PROVE  Inv4'
<1>1. pc[w] = "idle" /\ Inv1
      /\ UNCHANGED <<rows, payload, cancel, done, due, world>> /\ Written' = Written
  BY DEF Claim, Inv4, Inv3, Inv2, Written, world
<1>2. PICK j \in Jobs, t \in Fresh :
        /\ Candidate(j)
        /\ lease' = [lease EXCEPT ![j] = t]
        /\ live' = live \cup {j}
        /\ \/ /\ pc' = [pc EXCEPT ![w] = "step"]
              /\ held' = [held EXCEPT ![w] = j]
              /\ token' = [token EXCEPT ![w] = t]
              /\ work' = [work EXCEPT ![w] = payload[j]]
              /\ verdict' = verdict
           \/ UNCHANGED memory
  BY DEF Claim
<1>3. /\ ~done[j] /\ (lease[j] = NoToken \/ j \notin live)
      /\ lease'[j] = t /\ \A k \in Jobs : k # j => lease'[k] = lease[k]
  BY <1>1, <1>2 DEF Candidate, Claimable, Inv1, TypeOK, TableOK
<1>4. ASSUME NEW v \in Workers, pc[v] # "idle"
      PROVE  /\ Owns(v)' /\ ~done'[held'[v]] /\ Sound(work[v], held[v])'
             /\ PlacedAt(v)'
  <2>1. Owns(v) /\ held[v] \in Jobs /\ token[v] \in Tokens
    BY <1>1, <1>4, BusyKnows, OwnerIsBusy DEF Inv4, Sole
  <2>2. held[v] # j
    BY <1>3, <2>1, JobAssumption DEF Owns
  <2>3. /\ pc'[v] = pc[v] /\ held'[v] = held[v] /\ token'[v] = token[v]
        /\ work'[v] = work[v] /\ verdict'[v] = verdict[v]
    BY <1>1, <1>2, <1>4 DEF memory, Inv1, TypeOK, MemoryOK
  <2> QED
    BY <1>1, <1>2, <1>3, <1>4, <2>1, <2>2, <2>3, OthersStay DEF Owns
<1>5. \A v \in Workers : pc[v] = "idle" /\ pc'[v] # "idle" =>
         /\ pc'[v] = "step" /\ held'[v] = j /\ token'[v] = t /\ work'[v] = payload[j]
  BY <1>1, <1>2 DEF memory, Inv1, TypeOK, MemoryOK
<1>6. \A k \in Jobs : Sound(payload[k], k)'
  BY <1>1, RowsStay
<1>7. Sole'
  <2> SUFFICES ASSUME NEW v \in Workers, pc'[v] # "idle"
               PROVE  Owns(v)' /\ ~done'[held'[v]]
    BY DEF Sole
  <2>1. CASE pc[v] # "idle"
    BY <1>4, <2>1
  <2>2. CASE pc[v] = "idle"
    BY <1>1, <1>2, <1>3, <1>5, <2>2 DEF Owns
  <2> QED
    BY <2>1, <2>2
<1>8. AllSound'
  <2> SUFFICES ASSUME NEW v \in Workers, pc'[v] # "idle" PROVE Sound(work[v], held[v])'
    BY <1>6 DEF AllSound
  <2>1. CASE pc[v] # "idle"
    BY <1>4, <2>1
  <2>2. CASE pc[v] = "idle"
    BY <1>1, <1>5, <1>6, <2>2 DEF Sound
  <2> QED
    BY <2>1, <2>2
<1>9. Placed'
  <2> SUFFICES ASSUME NEW v \in Workers, pc[v] = "idle" PROVE PlacedAt(v)'
    BY <1>4 DEF Placed
  <2> QED
    BY <1>5 DEF PlacedAt, Delivering, Ends
<1>10. Uploaded' /\ Finished' /\ Unknown'
  BY <1>1, RowsStay DEF Inv4, Uploaded, Finished, Unknown, world
<1> QED
  BY <1>7, <1>8, <1>9, <1>10 DEF Inv4

\* The row of a new message, for which nothing has happened yet.
LEMMA AcceptKeeps ==
  ASSUME Inv4, Inv3', NEW j \in Jobs, Accept(j)
  PROVE  Inv4'
<1>1. /\ j \notin rows /\ rows' = rows \cup {j} /\ Inv1
      /\ UNCHANGED <<cancel, done, lease, live, memory, backend, notes>>
      /\ Written' = Written
  BY DEF Accept, Inv4, Inv3, Inv2, Written
<1>2. /\ payload'[j] = [Blank EXCEPT !.status = 1]
      /\ \A k \in Jobs : k # j => payload'[k] = payload[k] /\ screen'[k] = screen[k]
  BY DEF Accept, Inv4, Inv3, Inv2, Inv1, TypeOK, TableOK, WorldOK
<1>3. backend[j] = "absent" /\ ~done[j]
  BY <1>1 DEF Inv4, Inv3, Untouched, Unknown
<1>4. \A k \in Jobs : Sound(payload[k], k)'
  BY <1>1, <1>2 DEF Inv4, AllSound, Sound, Blank
<1>5. ASSUME NEW w \in Workers, pc[w] # "idle"
      PROVE  /\ held[w] \in Jobs /\ held[w] # j
             /\ Owns(w) /\ ~done[held[w]] /\ Sound(work[w], held[w]) /\ PlacedAt(w)
  BY <1>1, <1>5, BusyKnows DEF Inv4, Sole, Placed
<1>6. Sole'
  BY <1>1, <1>5 DEF Sole, Owns, memory
<1>7. AllSound'
  BY <1>1, <1>4, <1>5 DEF AllSound, Sound, memory
<1>8. Placed'
  <2> SUFFICES ASSUME NEW w \in Workers PROVE PlacedAt(w)'
    BY DEF Placed
  <2>1. CASE pc[w] = "idle"
    BY <1>1, <2>1 DEF PlacedAt, Delivering, Ends, memory
  <2>2. CASE pc[w] # "idle"
    BY <1>1, <1>2, <1>5, <2>2 DEF PlacedAt, Delivering, Ends, Complete, Ready, Shows, memory
  <2> QED
    BY <2>1, <2>2
<1>9. Uploaded' /\ Finished' /\ Unknown'
  BY <1>1, <1>2, <1>3 DEF Inv4, Uploaded, Finished, Unknown, Complete, Ready, Shows
<1> QED
  BY <1>6, <1>7, <1>8, <1>9 DEF Inv4

\* Users, time and the backend: without stalls a lease outlives its worker, and
\* the backend goes on only with what it has.
LEMMA OutsideKeeps ==
  ASSUME Stalls = FALSE, Inv4, Inv3', NEW j \in Jobs, Outside(j)
  PROVE  Inv4'
<1>1. UNCHANGED <<rows, payload, done, lease, memory, notes>> /\ Inv1 /\ Written' = Written
  BY OutsideFrame DEF Inv4, Inv3, Inv2, Written
<1>2. live' = live \/ (live' = live \ {j} /\ ~Carried(j))
  BY DEF Outside, Warn, Cancel, DeleteMessage, BecomeDue, Expire, ExpireUnderOwner, Transcribe,
         Collect, table
<1>3. \/ backend' = backend
      \/ backend[j] = "active" /\ \E r \in {"text", "empty", "failed"} :
                                     backend' = [backend EXCEPT ![j] = r]
      \/ backend[j] = "acked" /\ backend' = [backend EXCEPT ![j] = "gone"]
  BY DEF Outside, Warn, Cancel, DeleteMessage, BecomeDue, Expire, ExpireUnderOwner, Transcribe,
         Collect, world
<1>4. \/ screen' = screen
      \/ \E m \in DOMAIN screen[j] : screen' = [screen EXCEPT ![j][m] = "deleted"]
      \/ screen' = Shown(j, 1, "buried") /\ screen[j][1] = "final"
  BY DEF Outside, Warn, Cancel, DeleteMessage, BecomeDue, Expire, ExpireUnderOwner, Transcribe,
         Collect, world
<1>5. \A k \in Jobs : /\ backend[k] \in {"absent", "acked", "gone"} =>
                            backend'[k] \in {"absent", "acked", "gone"}
                      /\ backend'[k] # "absent" => backend[k] # "absent"
  BY <1>1, <1>3 DEF Inv1, TypeOK, WorldOK
<1>6. ASSUME NEW p, NEW k \in Jobs
      PROVE  (Sound(p, k) => SoundAfter(p, k))
  BY <1>1, <1>5 DEF Sound, SoundAfter
<1>7. ASSUME NEW k \in Jobs
      PROVE  /\ DOMAIN screen'[k] = DOMAIN screen[k]
             /\ \A i \in DOMAIN screen[k] :
                  \/ screen'[k][i] \in {screen[k][i], "deleted"}
                  \/ screen[k][i] = "final" /\ screen'[k][i] = "buried"
             /\ screen[k] = << >> => screen'[k] = << >>
  <2>1. screen[k] \in Seq(Pictures) /\ screen \in [Jobs -> Seq(Pictures)]
    BY <1>1 DEF Inv1, TypeOK, WorldOK
  <2>2. CASE screen' = screen
    BY <2>2
  <2>3. CASE \E m \in DOMAIN screen[j] : screen' = [screen EXCEPT ![j][m] = "deleted"]
    <3>1. PICK m \in DOMAIN screen[j] : screen' = [screen EXCEPT ![j][m] = "deleted"]
      BY <2>3
    <3>2. screen'[k] = IF k = j THEN [screen[k] EXCEPT ![m] = "deleted"] ELSE screen[k]
      BY <2>1, <3>1
    <3>3. screen[k] = << >> => DOMAIN screen[k] = {}
      OBVIOUS
    <3> QED
      BY <3>1, <3>2, <3>3
  <2>4. CASE screen' = Shown(j, 1, "buried") /\ screen[j][1] = "final"
    <3>1. CASE Editable(j, 1)
      <4>1. screen'[k] = IF k = j THEN [screen[k] EXCEPT ![1] = "buried"] ELSE screen[k]
        BY <2>1, <2>4, <3>1 DEF Shown
      <4>2. 1 \in DOMAIN screen[j]
        BY <3>1 DEF Editable
      <4> QED
        BY <2>4, <4>1, <4>2
    <3>2. CASE ~Editable(j, 1)
      BY <2>4, <3>2 DEF Shown
    <3> QED
      BY <3>1, <3>2
  <2> QED
    BY <1>4, <2>2, <2>3, <2>4
<1>8. Sole'
  BY <1>1, <1>2 DEF Inv4, Sole, Owns, Carried, memory
<1>9. AllSound'
  <2>1. \A k \in Jobs : SoundAfter(payload[k], k)
    BY <1>6 DEF Inv4, AllSound
  <2>2. \A w \in Workers : pc[w] # "idle" => SoundAfter(work[w], held[w])
    BY <1>6, BusyKnows DEF Inv4, AllSound
  <2> QED
    BY <1>1, <2>1, <2>2 DEF AllSound, Sound, SoundAfter, memory
<1>10. Placed'
  <2> SUFFICES ASSUME NEW w \in Workers PROVE PlacedAt(w)'
    BY DEF Placed
  <2>1. PlacedAt(w) /\ (pc[w] # "idle" => held[w] \in Jobs)
    BY BusyKnows DEF Inv4, Placed
  <2>2. Shows(work[w], held[w]) /\ pc[w] # "idle" => Shows(work[w], held[w])'
    BY <1>1, <1>7, <2>1 DEF Shows, memory
  <2> QED
    BY <1>1, <2>1, <2>2 DEF PlacedAt, Delivering, Ends, Complete, Ready, memory
<1>11. Uploaded' /\ Finished' /\ Unknown'
  BY <1>1, <1>5, <1>7 DEF Inv4, Uploaded, Finished, Unknown, Complete, Ready, Shows
<1> QED
  BY <1>8, <1>9, <1>10, <1>11 DEF Inv4

\* At the start nobody holds anything and nothing has been done.
LEMMA InitInv4 == Init => Inv4
<1> SUFFICES ASSUME Init PROVE Inv4
  OBVIOUS
<1>1. Inv3
  BY InitInv3
<1> QED
  BY <1>1 DEF Init, Inv4, Sole, AllSound, Sound, Uploaded, Placed, PlacedAt, Delivering, Ends,
     Finished, Unknown, Blank, Written

\* Every step keeps it, if no worker stalls past its lease.
LEMMA NextInv4 ==
  ASSUME Stalls = FALSE
  PROVE  Inv4 /\ [Next]_vars => Inv4'
<1> SUFFICES ASSUME Inv4, [Next]_vars PROVE Inv4'
  OBVIOUS
<1>1. Inv3'
  BY NextInv3 DEF Inv4
<1>2. CASE UNCHANGED vars
  BY <1>1, <1>2 DEF vars, Inv4, Sole, Owns, AllSound, Sound, Written, Uploaded, Placed, PlacedAt,
     Delivering, Ends, Complete, Ready, Shows, Finished, Unknown
<1>3. CASE Next
  BY <1>1, <1>2, <1>3, NextCases, AcceptKeeps, OutsideKeeps, ClaimKeeps, ProgressKeeps,
     SaveKeeps, ReleaseKeeps, CrashKeeps
<1> QED
  BY <1>2, <1>3

\* A job that is done has been delivered: its text is in the note, or its
\* confirmation is prepared, and the message shows it unless the user deleted it.
THEOREM DoneMeansDelivered ==
  ASSUME Stalls = FALSE
  PROVE  Spec => []DoneIsDelivered
<1>1. Inv4 => DoneIsDelivered
  BY DEF Inv4, Finished, Complete, Ready, Shows, AllSound, Sound, DoneIsDelivered
<1> QED
  BY <1>1, InitInv4, NextInv4, PTL DEF Spec

\* A job that is done has left nothing in the backend, whichever replies were lost.
THEOREM NoOrphanStays ==
  ASSUME Stalls = FALSE
  PROVE  Spec => []NoOrphanUpload
<1>1. Inv4 => NoOrphanUpload
  <2> SUFFICES ASSUME Inv4, NEW j \in Jobs, done[j]
               PROVE  backend[j] \in {"absent", "acked", "gone"}
    BY DEF NoOrphanUpload
  <2>1. Ready(payload[j]) /\ Sound(payload[j], j)
        /\ (backend[j] # "absent" => payload[j].submitStarted)
    BY DEF Inv4, Finished, Complete, AllSound, Uploaded
  <2> QED
    BY <2>1 DEF Ready, Sound
<1> QED
  BY <1>1, InitInv4, NextInv4, PTL DEF Spec

-----------------------------------------------------------------------------
(***************************************************************************)
(* Every row has the rows of the messages before it, so a job that was seen  *)
(* at the front of its chat stays there.                                     *)
(***************************************************************************)
Closed == \A j \in rows : Earlier(j) \subseteq rows

Fronted ==
  /\ \A w \in Workers : Delivering(w) => IsFront(held[w])
  /\ \A j \in Jobs : Answered(j) => IsFront(j)

Inv5 == Inv4 /\ Closed /\ Fronted

\* The status messages of a job that were shown a result.
Final(j) == {m \in DOMAIN screen[j] : screen[j][m] \in {"final", "buried"}}

\* A worker that starts to deliver has seen its job at the front.
DeliveryStarts ==
  \A w \in Workers : Delivering(w)' =>
    held'[w] = held[w] /\ pc[w] # "idle" /\ (Delivering(w) \/ IsFront(held[w]))

\* Only a worker that delivers a job answers it.
AnswersMove ==
  \A j \in Jobs : Answered(j)' =>
    Answered(j) \/ \E w \in Workers : Delivering(w) /\ held[w] = j

\* Rows and finished jobs stay.
RowsMove == rows \subseteq rows' /\ \A j \in Jobs : done[j] => done'[j]

-----------------------------------------------------------------------------
\* A picture of progress is no answer.
LEMMA NoNewFinal ==
  ASSUME WorldOK, NEW j \in Jobs,
         \/ screen' = screen
         \/ \E m : screen' = Shown(j, m, "progress")
         \/ screen' = [screen EXCEPT ![j] = Append(@, "progress")]
  PROVE  \A k \in Jobs : Final(k)' # {} => Final(k) # {}
<1>1. screen \in [Jobs -> Seq(Pictures)] /\ screen[j] \in Seq(Pictures)
  BY DEF WorldOK
<1>2. CASE screen' = screen
  BY <1>2 DEF Final
<1>3. CASE \E m : screen' = Shown(j, m, "progress")
  <2>1. PICK m : screen' = Shown(j, m, "progress")
    BY <1>3
  <2>2. screen' = screen \/ screen' = [screen EXCEPT ![j] = [screen[j] EXCEPT ![m] = "progress"]]
    BY <2>1 DEF Shown
  <2> QED
    BY <1>1, <2>2 DEF Final
<1>4. CASE screen' = [screen EXCEPT ![j] = Append(@, "progress")]
  <2>1. screen'[j] = Append(screen[j], "progress") /\ \A k \in Jobs : k # j => screen'[k] = screen[k]
    BY <1>1, <1>4
  <2>2. ASSUME NEW m \in DOMAIN screen'[j], screen'[j][m] \in {"final", "buried"}
        PROVE  m \in DOMAIN screen[j] /\ screen[j][m] \in {"final", "buried"}
    BY <1>1, <2>1, <2>2, AppendProperties
  <2> QED
    BY <2>1, <2>2 DEF Final
<1> QED
  BY <1>2, <1>3, <1>4

\* An edit of a job's message answers no other job.
LEMMA OneFinal ==
  ASSUME WorldOK, NEW j \in Jobs, NEW m, screen' \in {screen, Shown(j, m, "final")}
  PROVE  \A k \in Jobs : k # j /\ Final(k)' # {} => Final(k) # {}
BY DEF WorldOK, Shown, Final

\* An answer is a text in a note or a message that shows the result.
LEMMA AnsweredIsFinal ==
  \A j \in Jobs : Answered(j) <=> (j \in Written \/ Final(j) # {})
BY DEF Answered, Final

\* A worker that returns or saves does not start to deliver.
LEMMA MemoryMoves ==
  ASSUME Inv1, NEW w \in Workers, pc[w] # "idle", UNCHANGED <<held, token, snap>>,
         \A v \in Workers : v # w => pc'[v] = pc[v] /\ verdict'[v] = verdict[v],
         Delivering(w)' => Delivering(w) \/ IsFront(held[w])
  PROVE  DeliveryStarts
BY DEF DeliveryStarts, Delivering, Ends

\* What Step, Return and Goto leave of the other workers.
LEMMA MemoryOfOthers ==
  ASSUME Inv1, NEW w \in Workers,
         \/ \E o, p : Step(w, o, p)
         \/ \E p : Checkpoint(w, p)
         \/ \E v : Return(w, v)
         \/ \E place : Goto(w, place)
  PROVE  /\ UNCHANGED <<held, token, snap>>
         /\ \A v \in Workers : v # w => pc'[v] = pc[v] /\ verdict'[v] = verdict[v]
BY DEF Step, Checkpoint, Return, Goto, Inv1, TypeOK, MemoryOK

\* A step that writes nothing and shows no result answers nobody.
LEMMA QuietAnswers ==
  ASSUME UNCHANGED notes, \A k \in Jobs : Final(k)' # {} => Final(k) # {}
  PROVE  AnswersMove
<1>1. Written' = Written
  BY DEF Written
<1> QED
  BY <1>1, AnsweredIsFinal DEF AnswersMove, Answered, Final

-----------------------------------------------------------------------------
(***************************************************************************)
(* The steps of a worker.                                                   *)
(***************************************************************************)

\* The calls before delivery, and those in it that do not answer.
LEMMA QuietMoves ==
  ASSUME Inv1, NEW w \in Workers,
         \/ SendStatus(w) \/ CancelRemote(w) \/ Intend(w) \/ Submit(w) \/ Poll(w)
         \/ Ack(w) \/ CheckFront(w) \/ Prepare(w) \/ ReplaceMessage(w)
  PROVE  DeliveryStarts /\ AnswersMove
<1>1. pc[w] \in {"step", "deliver"} /\ notes' = notes /\ pc[w] # "idle"
  BY DEF SendStatus, CancelRemote, Intend, Submit, Poll, Ack, CheckFront, Prepare,
     ReplaceMessage, At, world
<1>2. /\ WorldOK /\ held[w] \in Jobs
      /\ pc \in [Workers -> Places] /\ verdict \in [Workers -> {"done", "now", "later"}]
  BY <1>1, BusyHolds DEF Inv1, TypeOK, MemoryOK
<1>3. \/ screen' = screen
      \/ \E m : screen' = Shown(held[w], m, "progress")
      \/ screen' = [screen EXCEPT ![held[w]] = Append(@, "progress")]
  <2>1. CASE SendStatus(w) \/ ReplaceMessage(w)
    BY <2>1 DEF SendStatus, ReplaceMessage
  <2>2. CASE Submit(w) \/ Poll(w)
    BY <2>2 DEF Submit, Poll, ShowProgress
  <2>3. CASE CancelRemote(w) \/ Intend(w) \/ Ack(w) \/ CheckFront(w) \/ Prepare(w)
    BY <2>3 DEF CancelRemote, Intend, Ack, CheckFront, Prepare, world
  <2> QED
    BY <2>1, <2>2, <2>3
<1>4. AnswersMove
  BY <1>1, <1>2, <1>3, NoNewFinal, QuietAnswers
<1>5. /\ UNCHANGED <<held, token, snap>>
      /\ \A v \in Workers : v # w => pc'[v] = pc[v] /\ verdict'[v] = verdict[v]
  <2>1. CASE ReplaceMessage(w)
    BY <1>2, <2>1 DEF ReplaceMessage, Return
  <2>2. CASE SendStatus(w) \/ CancelRemote(w) \/ Ack(w) \/ Submit(w) \/ Prepare(w)
    BY <2>2, MemoryOfOthers DEF SendStatus, CancelRemote, Ack, Submit, Prepare
  <2>3. CASE Intend(w) \/ Poll(w) \/ CheckFront(w)
    BY <2>3, MemoryOfOthers DEF Intend, Poll, CheckFront
  <2> QED
    BY <2>1, <2>2, <2>3
<1>6. Delivering(w)' => Delivering(w) \/ IsFront(held[w])
  <2>1. CASE pc[w] = "deliver"
    BY <2>1 DEF Delivering
  <2>2. CASE CheckFront(w)
    BY <1>2, <2>2 DEF CheckFront, Goto, Return, Delivering, Ends
  <2>3. CASE pc[w] = "step" /\ ~CheckFront(w)
    <3>1. \/ pc'[w] = "save"
          \/ pc'[w] = "release" /\ verdict'[w] = "later"
      BY <1>2, <2>3 DEF SendStatus, CancelRemote, Intend, Submit, Poll, Ack, Prepare,
         ReplaceMessage, Step, Checkpoint, Return
    <3> QED
      BY <3>1 DEF Delivering, Ends
  <2> QED
    BY <1>1, <2>1, <2>2, <2>3
<1> QED
  BY <1>1, <1>4, <1>5, <1>6, MemoryMoves

\* An append answers the job that is being delivered.
LEMMA AppendMoves ==
  ASSUME Inv1, NEW w \in Workers, AppendNote(w)
  PROVE  DeliveryStarts /\ AnswersMove
<1>1. /\ pc[w] = "deliver" /\ pc[w] # "idle" /\ screen' = screen /\ Delivering(w)
      /\ notes' \in {notes, AppendOnce(held[w])}
  BY DEF AppendNote, Delivering
<1>2. held[w] \in Jobs /\ notes \in Seq(Jobs)
  BY <1>1, BusyHolds DEF Inv1, TypeOK, WorldOK
<1>3. DeliveryStarts
  BY <1>1, MemoryOfOthers, MemoryMoves DEF AppendNote
<1>4. Written' \subseteq Written \cup {held[w]}
  <2>1. CASE notes' = notes
    BY <2>1 DEF Written
  <2>2. CASE notes' = Append(notes, held[w])
    BY <1>2, <2>2, AppendProperties DEF Written
  <2> QED
    BY <1>1, <2>1, <2>2 DEF AppendOnce
<1>5. AnswersMove
  BY <1>1, <1>4 DEF AnswersMove, Answered
<1> QED
  BY <1>3, <1>5

\* So does an edit of its message.
LEMMA EditAnswers ==
  ASSUME Inv1, NEW w \in Workers, EditResult(w) \/ EditReplacement(w)
  PROVE  DeliveryStarts /\ AnswersMove
<1>1. /\ pc[w] # "idle" /\ notes' = notes /\ Delivering(w)
      /\ screen' \in {screen, Shown(held[w], work[w].status, "final")}
  BY DEF EditResult, EditReplacement, Delivering
<1>2. held[w] \in Jobs /\ WorldOK
  BY <1>1, BusyHolds DEF Inv1, TypeOK
<1>3. DeliveryStarts
  BY <1>1, MemoryOfOthers, MemoryMoves DEF EditResult, EditReplacement
<1>4. \A k \in Jobs : k # held[w] /\ Final(k)' # {} => Final(k) # {}
  BY <1>1, <1>2, OneFinal
<1>5. Written' = Written
  BY <1>1 DEF Written
<1>6. AnswersMove
  BY <1>1, <1>4, <1>5 DEF AnswersMove, Answered, Final
<1> QED
  BY <1>3, <1>6

\* A claim, a save, a release or a crash starts no delivery and answers nobody.
LEMMA TableMoves ==
  ASSUME Inv1, NEW w \in Workers, Claim(w) \/ Save(w) \/ Release(w) \/ Crash(w)
  PROVE  DeliveryStarts /\ AnswersMove
<1>1. UNCHANGED <<notes, screen>>
  BY DEF Claim, Save, Release, Crash, world
<1>2. AnswersMove
  BY <1>1, QuietAnswers DEF Final
<1>3. /\ pc \in [Workers -> Places] /\ verdict \in [Workers -> {"done", "now", "later"}]
      /\ held \in [Workers -> Jobs \cup {NoJob}]
  BY DEF Inv1, TypeOK, MemoryOK
<1>4. CASE Claim(w)
  BY <1>2, <1>3, <1>4 DEF Claim, memory, DeliveryStarts, Delivering, Ends
<1>5. CASE Save(w)
  <2>1. pc[w] # "idle" /\ UNCHANGED <<held, token, snap>>
        /\ \A v \in Workers : v # w => pc'[v] = pc[v] /\ verdict'[v] = verdict[v]
    BY <1>5, MemoryOfOthers DEF Save
  <2>2. \/ pc'[w] = "release" /\ verdict'[w] \in {"later", "now"}
        \/ pc'[w] = "reedit" /\ pc[w] = "resave"
    BY <1>3, <1>5 DEF Save, Return, Goto
  <2> QED
    BY <1>2, <2>1, <2>2, MemoryMoves DEF Delivering, Ends
<1>6. CASE Release(w) \/ Crash(w)
  <2>1. Forget(w)
    BY <1>6 DEF Release, Crash
  <2> QED
    BY <1>2, <1>3, <2>1 DEF Forget, DeliveryStarts, Delivering, Ends
<1> QED
  BY <1>2, <1>4, <1>5, <1>6

\* Users, time and the backend take answers away at most.
LEMMA OutsideMoves ==
  ASSUME Inv1, NEW j \in Jobs, Outside(j) \/ Accept(j)
  PROVE  DeliveryStarts /\ AnswersMove
<1>1. UNCHANGED <<memory, notes>>
  BY OutsideFrame DEF Accept
<1>2. DeliveryStarts
  BY <1>1 DEF DeliveryStarts, Delivering, Ends, memory
<1>3. \A k \in Jobs : Final(k)' # {} => Final(k) # {}
  <2>1. WorldOK /\ screen \in [Jobs -> Seq(Pictures)] /\ screen[j] \in Seq(Pictures)
    BY DEF Inv1, TypeOK, WorldOK
  <2>2. CASE screen' = screen
    BY <2>2 DEF Final
  <2>3. CASE Accept(j)
    <3>1. screen' = [screen EXCEPT ![j] = <<"progress">>]
      BY <2>3 DEF Accept
    <3> QED
      BY <2>1, <3>1 DEF Final
  <2>4. CASE DeleteMessage(j)
    <3>1. PICK m \in DOMAIN screen[j] : screen' = [screen EXCEPT ![j][m] = "deleted"]
      BY <2>4 DEF DeleteMessage
    <3>2. screen' = [screen EXCEPT ![j] = [screen[j] EXCEPT ![m] = "deleted"]]
      BY <3>1
    <3> QED
      BY <2>1, <3>2 DEF Final
  <2>5. CASE Warn(j)
    <3>1. \/ screen' = screen
          \/ screen[j][1] = "final" /\ screen' = [screen EXCEPT ![j] = [screen[j] EXCEPT ![1] = "buried"]]
      BY <2>5 DEF Warn, Shown
    <3> QED
      BY <2>1, <3>1 DEF Final
  <2> QED
    BY <2>2, <2>3, <2>4, <2>5 DEF Outside, Cancel, BecomeDue, Expire, ExpireUnderOwner, Transcribe,
       Collect, world
<1>4. AnswersMove
  BY <1>1, <1>3, QuietAnswers
<1> QED
  BY <1>2, <1>4

\* Any step.
LEMMA NextMoves ==
  ASSUME Inv1, [Next]_vars
  PROVE  DeliveryStarts /\ AnswersMove
<1>1. CASE UNCHANGED vars
  BY <1>1, QuietAnswers DEF vars, Final, DeliveryStarts, Delivering, Ends
<1>2. ASSUME NEW w \in Workers, Progress(w)
      PROVE  DeliveryStarts /\ AnswersMove
  BY <1>2, QuietMoves, AppendMoves, EditAnswers DEF Progress
<1>3. CASE Next
  BY <1>1, <1>2, <1>3, NextCases, TableMoves, OutsideMoves
<1> QED
  BY <1>1, <1>3

\* A job that is done stays done, for its row is not claimed again.
LEMMA NextRowsMove ==
  ASSUME Inv4, [Next]_vars
  PROVE  RowsMove
<1>1. rows \subseteq rows'
  BY NextWorldMoves DEF WorldMoves, Inv4, Inv3, Inv2
<1>2. CASE \E w \in Workers : Release(w)
  <2>1. PICK w \in Workers : Release(w)
    BY <1>2
  <2>2. pc[w] # "idle" /\ (done' = done \/ done' = [done EXCEPT ![held[w]] = (verdict[w] = "done")])
    BY <2>1 DEF Release
  <2>3. ~done[held[w]] /\ done \in [Jobs -> BOOLEAN]
    BY <2>2 DEF Inv4, Sole, Inv3, Inv2, Inv1, TypeOK, TableOK
  <2>4. \A j \in Jobs : done[j] => done'[j]
    BY <2>2, <2>3
  <2> QED
    BY <1>1, <2>4 DEF RowsMove
<1>3. CASE ~\E w \in Workers : Release(w)
  <2>1. ASSUME NEW w \in Workers, Claim(w) \/ Progress(w) \/ Save(w) \/ Crash(w)
        PROVE  done' = done
    BY <2>1 DEF Claim, Progress, SendStatus, CancelRemote, Intend, Submit, Poll, Ack,
       CheckFront, AppendNote, Prepare, EditResult, ReplaceMessage, EditReplacement, Save,
       Crash, table
  <2>2. ASSUME NEW j \in Jobs, Accept(j) \/ Outside(j)
        PROVE  done' = done
    BY <2>2, OutsideFrame DEF Accept, Inv4, Inv3, Inv2
  <2>3. UNCHANGED vars => done' = done
    BY DEF vars
  <2>4. done' = done
    BY <1>3, <2>1, <2>2, <2>3, NextCases
  <2> QED
    BY <1>1, <2>4 DEF RowsMove
<1> QED
  BY <1>2, <1>3

\* A message with an answer, or whose job is held, has a row.
LEMMA AnsweredHasRow ==
  ASSUME Inv4, NEW j \in Jobs, Answered(j)
  PROVE  j \in rows
<1> SUFFICES ASSUME j \notin rows PROVE FALSE
  OBVIOUS
<1>1. j \notin Written /\ screen[j] = << >>
  BY DEF Inv4, Inv3, Untouched, Unknown
<1> QED
  BY <1>1 DEF Answered

\* A row at the front of its chat stays there: what comes before it has a row and
\* is done.
LEMMA FrontStays ==
  ASSUME Closed, RowsMove, NEW j \in rows, rows \subseteq Jobs, IsFront(j)
  PROVE  IsFront(j)'
<1> SUFFICES ASSUME NEW k \in Earlier(j) PROVE done'[k]
  BY DEF IsFront
<1>1. k \in rows /\ k \in Jobs /\ done[k]
  BY DEF Closed, IsFront, Earlier
<1> QED
  BY <1>1 DEF RowsMove

\* At the start the rows are those of an earlier release, and nothing is answered.
LEMMA InitInv5 ==
  ASSUME \A j \in Legacy : Earlier(j) \subseteq Legacy
  PROVE  Init => Inv5
<1> SUFFICES ASSUME Init PROVE Inv5
  OBVIOUS
<1>1. Inv4
  BY InitInv4
<1>2. Closed
  BY DEF Init, Closed
<1>3. Fronted
  BY DEF Init, Fronted, Delivering, Ends, Answered, Written
<1> QED
  BY <1>1, <1>2, <1>3 DEF Inv5

\* Every step keeps the order: acceptance adds the last row of a chat.
LEMMA NextInv5 ==
  ASSUME Stalls = FALSE, Polling = TRUE
  PROVE  Inv5 /\ [Next]_vars => Inv5'
<1> SUFFICES ASSUME Inv5, [Next]_vars PROVE Inv5'
  OBVIOUS
<1>1. Inv4 /\ Inv4' /\ Inv1 /\ Closed
  BY NextInv4 DEF Inv5, Inv4, Inv3, Inv2
<1>2. DeliveryStarts /\ AnswersMove /\ RowsMove
  BY <1>1, NextMoves, NextRowsMove
<1>3. Closed'
  <2>1. ASSUME NEW j \in Jobs, Accept(j) PROVE Closed'
    BY <1>1, <2>1 DEF Accept, Closed, Earlier
  <2>2. ASSUME ~\E j \in Jobs : Accept(j) PROVE rows' = rows
    <3>1. ASSUME NEW w \in Workers, Claim(w) \/ Progress(w) \/ Save(w) \/ Release(w) \/ Crash(w)
          PROVE  rows' = rows
      BY <3>1 DEF Claim, Progress, SendStatus, CancelRemote, Intend, Submit, Poll, Ack,
         CheckFront, AppendNote, Prepare, EditResult, ReplaceMessage, EditReplacement, Save,
         Release, Crash, table
    <3>2. ASSUME NEW j \in Jobs, Outside(j)
          PROVE  rows' = rows
      BY <1>1, <3>2, OutsideFrame
    <3>3. UNCHANGED vars => rows' = rows
      BY DEF vars
    <3> QED
      BY <2>2, <3>1, <3>2, <3>3, NextCases
  <2>3. rows' = rows => Closed'
    BY <1>1 DEF Closed
  <2> QED
    BY <2>1, <2>2, <2>3
<1>4. rows \subseteq Jobs
  BY <1>1 DEF Inv1, TypeOK, TableOK
<1>5. \A j \in rows : IsFront(j) => IsFront(j)'
  BY <1>1, <1>2, <1>4, FrontStays
<1>6. ASSUME NEW w \in Workers, Delivering(w)'
      PROVE  IsFront(held[w])'
  <2>1. held'[w] = held[w] /\ held[w] \in rows /\ IsFront(held[w])
    BY <1>1, <1>2, <1>6, BusyHolds DEF DeliveryStarts, Inv5, Fronted
  <2>2. PICK j \in rows : j = held[w]
    BY <2>1
  <2>3. IsFront(j)'
    BY <1>5, <2>1, <2>2
  <2> QED
    BY <2>1, <2>2, <2>3 DEF IsFront, Earlier
<1>7. ASSUME NEW j \in Jobs, Answered(j)'
      PROVE  IsFront(j)'
  <2>1. j \in rows /\ IsFront(j)
    <3>1. CASE Answered(j)
      BY <1>1, <3>1, AnsweredHasRow DEF Inv5, Fronted
    <3>2. CASE \E w \in Workers : Delivering(w) /\ held[w] = j
      BY <1>1, <3>2, BusyHolds DEF Inv5, Fronted, Delivering, Ends
    <3> QED
      BY <1>2, <1>7, <3>1, <3>2 DEF AnswersMove
  <2> QED
    BY <1>1, <1>2, <1>4, <2>1, FrontStays
<1>8. Fronted'
  BY <1>6, <1>7 DEF Fronted
<1> QED
  BY <1>1, <1>3, <1>8 DEF Inv5

\* When a job's text is in a note or its result on the screen, every accepted
\* message before it in the chat is done.
THEOREM OrderIsKept ==
  ASSUME Stalls = FALSE, Polling = TRUE, \A j \in Legacy : Earlier(j) \subseteq Legacy
  PROVE  Spec => []InMessageOrder
<1>1. Inv5 => InMessageOrder
  BY DEF Inv5, Fronted, InMessageOrder, IsFront
<1> QED
  BY <1>1, InitInv5, NextInv5, PTL DEF Spec

-----------------------------------------------------------------------------
(***************************************************************************)
(* The pipeline implements VoiceDelivery.  A row's recorded result is its    *)
(* outcome and done its answer: acceptance, the first save of a result, the  *)
(* append and the last release are the steps of the promise.                *)
(***************************************************************************)
Outcome  == [j \in Jobs |-> payload[j].result]
Finality == {j \in Jobs : done[j]}

\* Nothing that the promise speaks of changes.
LEMMA Stutter ==
  ASSUME UNCHANGED <<rows, payload, notes, done>>
  PROVE  UNCHANGED Promise!avars
BY DEF Promise!avars

\* A new row has no outcome yet.
LEMMA AcceptRefines ==
  ASSUME Inv4, NEW j \in Jobs, Accept(j)
  PROVE  Promise!AcceptMessage(j)
<1>1. /\ payload \in [Jobs -> Payload] /\ j \notin rows
      /\ payload' = [payload EXCEPT ![j] = [Blank EXCEPT !.status = 1]]
      /\ payload[j] = Blank
  BY DEF Accept, Inv4, Inv3, Inv2, Inv1, TypeOK, TableOK, Unknown
<1>2. \A k \in Jobs : payload'[k].result = payload[k].result
  BY <1>1 DEF Blank
<1>3. Outcome' = Outcome
  BY <1>2 DEF Outcome
<1> QED
  BY <1>1, <1>3 DEF Accept, Promise!AcceptMessage, Outcome

\* A row whose payload becomes the copy of its owner is decided, or stays.
LEMMA CopyDecides ==
  ASSUME Inv4, NEW w \in Workers, pc[w] # "idle",
         payload' \in {payload, [payload EXCEPT ![held[w]] = work[w]]},
         UNCHANGED <<rows, notes, done>>
  PROVE  (\E j \in Jobs : Promise!Decide(j)) \/ UNCHANGED Promise!avars
<1>0. PICK j \in Jobs : j = held[w]
  BY BusyKnows
<1>1. /\ j \in rows /\ payload \in [Jobs -> Payload] /\ work[w] \in Payload
      /\ Extends(work[w], payload[j])
  BY <1>0, BusyKnows DEF Inv4, Sole, Inv3, Inv2, OwnerIsCurrent, Inv1, TypeOK, TableOK
<1>2. CASE payload' = payload
  BY <1>2, Stutter
<1>3. CASE payload' = [payload EXCEPT ![j] = work[w]]
  <2>1. Outcome' = [Outcome EXCEPT ![j] = work[w].result]
    BY <1>1, <1>3 DEF Outcome
  <2>2. CASE work[w].result = payload[j].result
    <3>1. Outcome' = Outcome
      BY <2>1, <2>2, <1>1 DEF Outcome
    <3> QED
      BY <3>1 DEF Promise!avars, Outcome
  <2>3. CASE work[w].result # payload[j].result
    <3>1. payload[j].result = "none" /\ work[w].result \in Promise!Outcomes
      BY <1>1, <2>3 DEF Extends, Payload, Results, Promise!Outcomes
    <3>2. Outcome[j] = "none"
      BY <1>1, <3>1 DEF Outcome
    <3>3. Promise!Decide(j)
      BY <1>1, <2>1, <3>1, <3>2 DEF Promise!Decide, Outcome
    <3> QED
      BY <3>3
  <2> QED
    BY <2>2, <2>3
<1> QED
  BY <1>0, <1>2, <1>3

\* What comes before a job that is being delivered has been answered.
LEMMA BeforeAnswered ==
  ASSUME Inv5, NEW w \in Workers, Delivering(w), pc[w] # "idle"
  PROVE  Promise!Before(held[w]) \cap rows \subseteq Finality
BY BusyKnows DEF Inv5, Fronted, IsFront, Earlier, Promise!Before, Finality

\* An append is the one append of its job, or finds it done.
LEMMA AppendRefines ==
  ASSUME Inv5, NEW w \in Workers, AppendNote(w)
  PROVE  Promise!Write(held[w]) \/ UNCHANGED Promise!avars
<1> DEFINE j == held[w]
<1>1. /\ pc[w] = "deliver" /\ pc[w] # "idle" /\ Delivering(w) /\ ToAppend(w)
      /\ UNCHANGED <<rows, payload, done>>
      /\ notes' \in {notes, AppendOnce(j)}
  BY DEF AppendNote, table, Delivering
<1>2. j \in Jobs /\ payload[j] = work[w] /\ ~done[j]
  BY <1>1, BusyKnows, CopyIsRow DEF Inv5, Inv4, Sole
<1>3. CASE notes' = notes
  BY <1>1, <1>3, Stutter
<1>4. CASE notes' = Append(notes, j) /\ j \notin Written
  <2>1. Outcome[j] = "text" /\ Mode[j] = "note"
    BY <1>1, <1>2 DEF ToAppend, Outcome
  <2>2. Promise!ToWrite(j) /\ ~Promise!InNote(j)
    BY <1>4, <2>1 DEF Promise!ToWrite, Promise!InNote, Outcome, Written
  <2>3. Promise!Before(j) \cap rows \subseteq Finality
    BY <1>1, BeforeAnswered
  <2>4. j \notin Finality /\ Outcome' = Outcome
    BY <1>1, <1>2 DEF Finality, Outcome
  <2> QED
    BY <1>1, <1>4, <2>2, <2>3, <2>4 DEF Promise!Write, Outcome, Finality
<1> QED
  BY <1>1, <1>3, <1>4 DEF AppendOnce

\* The release of a delivered job answers it; any other release is like a save.
LEMMA ReleaseRefines ==
  ASSUME Inv5, NEW w \in Workers, Release(w)
  PROVE  \/ \E j \in Jobs : Promise!Decide(j) \/ Promise!Answer(j)
         \/ UNCHANGED Promise!avars
<1>1. pc[w] = "release" /\ pc[w] # "idle" /\ UNCHANGED <<rows, notes>> /\ Inv4
  BY DEF Release, world, Inv5
<1>0. PICK j \in Jobs : j = held[w]
  BY <1>1, BusyKnows
<1>2. /\ j \in rows /\ ~done[j] /\ done \in [Jobs -> BOOLEAN]
      /\ payload \in [Jobs -> Payload]
  BY <1>0, <1>1, BusyKnows DEF Inv4, Sole, Inv3, Inv2, Inv1, TypeOK, TableOK
<1>3. \/ UNCHANGED <<payload, done>>
      \/ /\ payload' = [payload EXCEPT ![j] = work[w]]
         /\ done' = [done EXCEPT ![j] = (verdict[w] = "done")]
  BY <1>0 DEF Release
<1>4. CASE UNCHANGED <<payload, done>>
  BY <1>1, <1>4, Stutter
<1>5. CASE /\ verdict[w] # "done"
           /\ payload' = [payload EXCEPT ![j] = work[w]]
           /\ done' = [done EXCEPT ![j] = (verdict[w] = "done")]
  <2>1. done' = done
    BY <1>2, <1>5
  <2> QED
    BY <1>0, <1>1, <1>5, <2>1, CopyDecides
<1>6. CASE /\ verdict[w] = "done"
           /\ payload' = [payload EXCEPT ![j] = work[w]]
           /\ done' = [done EXCEPT ![j] = (verdict[w] = "done")]
  <2>1. Delivering(w) /\ Ready(work[w]) /\ Complete(work[w], j)
        /\ work[w].result = payload[j].result
    BY <1>0, <1>1, <1>6 DEF Inv4, Placed, PlacedAt, Delivering, Ends
  <2>2. Outcome' = Outcome /\ Outcome[j] # "none"
    BY <1>2, <1>6, <2>1 DEF Outcome, Ready
  <2>3. Finality' = Finality \cup {j} /\ j \notin Finality
    BY <1>2, <1>6 DEF Finality
  <2>4. Promise!ToWrite(j) => Promise!InNote(j)
    <3>1. Sound(work[w], j)
      BY <1>0, <1>1 DEF Inv4, AllSound
    <3>2. Outcome[j] = "text" /\ Mode[j] = "note" => j \in Written
      BY <1>2, <2>1, <3>1 DEF Outcome, Complete, Sound
    <3> QED
      BY <3>2 DEF Promise!ToWrite, Promise!InNote, Outcome, Written
  <2>5. Promise!Before(j) \cap rows \subseteq Finality
    BY <1>0, <1>1, <2>1, BeforeAnswered
  <2>6. Promise!Answer(j)
    BY <1>1, <2>2, <2>3, <2>4, <2>5 DEF Promise!Answer, Outcome, Finality
  <2> QED
    BY <2>6
<1> QED
  BY <1>3, <1>4, <1>5, <1>6

\* Every step is a step of the promise or none.
LEMMA NextRefines ==
  ASSUME Inv5, [Next]_vars
  PROVE  [Promise!ANext]_Promise!avars
<1>1. CASE UNCHANGED vars
  BY <1>1, Stutter DEF vars
<1>2. ASSUME NEW j \in Jobs, Accept(j)
      PROVE  Promise!ANext
  BY <1>2, AcceptRefines DEF Inv5, Promise!ANext
<1>3. ASSUME NEW j \in Jobs, Outside(j)
      PROVE  UNCHANGED Promise!avars
  BY <1>3, OutsideFrame, Stutter DEF Inv5, Inv4, Inv3, Inv2
<1>4. ASSUME NEW w \in Workers, pc[w] # "idle"
      PROVE  held[w] \in Jobs
  BY <1>4, BusyKnows DEF Inv5
<1>5. ASSUME NEW w \in Workers, Claim(w) \/ Crash(w) \/ (Progress(w) /\ ~AppendNote(w))
      PROVE  UNCHANGED Promise!avars
  <2>1. UNCHANGED <<rows, payload, done, notes>>
    BY <1>5 DEF Claim, Progress, SendStatus, CancelRemote, Intend, Submit, Poll, Ack,
       CheckFront, Prepare, EditResult, ReplaceMessage, EditReplacement, Crash, table, world
  <2> QED
    BY <2>1, Stutter
<1>6. ASSUME NEW w \in Workers, AppendNote(w) \/ Save(w) \/ Release(w)
      PROVE  Promise!ANext \/ UNCHANGED Promise!avars
  <2>1. held[w] \in Jobs /\ pc[w] # "idle"
    BY <1>4, <1>6 DEF AppendNote, Save, Release
  <2>2. ASSUME NEW j \in Jobs, Promise!Decide(j) \/ Promise!Write(j) \/ Promise!Answer(j)
        PROVE  Promise!ANext
    BY <2>2 DEF Promise!ANext
  <2>3. CASE AppendNote(w)
    BY <2>1, <2>2, <2>3, AppendRefines
  <2>4. CASE Save(w)
    <3>1. /\ payload' \in {payload, [payload EXCEPT ![held[w]] = work[w]]}
          /\ UNCHANGED <<rows, notes, done>>
      BY <2>4 DEF Save, world
    <3>2. (\E j \in Jobs : Promise!Decide(j)) \/ UNCHANGED Promise!avars
      BY <2>1, <3>1, CopyDecides DEF Inv5
    <3> QED
      BY <2>1, <2>2, <3>2
  <2>5. CASE Release(w)
    BY <2>1, <2>2, <2>5, ReleaseRefines
  <2> QED
    BY <1>6, <2>3, <2>4, <2>5
<1>7. CASE Next
  BY <1>1, <1>2, <1>3, <1>5, <1>6, <1>7, NextCases DEF Progress
<1> QED
  BY <1>1, <1>7

\* The workers, with their crashes and lost replies, deliver what VoiceDelivery
\* promises: one outcome for each message, one append, one answer, in order.
THEOREM PromiseIsKept ==
  ASSUME Stalls = FALSE, Polling = TRUE, \A j \in Legacy : Earlier(j) \subseteq Legacy
  PROVE  Spec => Delivers
<1>1. Init => Promise!AInit
  BY JobAssumption DEF Init, Promise!AInit, Blank
<1>2. Inv5 /\ [Next]_vars => [Promise!ANext]_Promise!avars
  BY NextRefines
<1> QED
  BY <1>1, <1>2, InitInv5, NextInv5, PTL DEF Spec, Delivers, Promise!ASpec

=============================================================================
