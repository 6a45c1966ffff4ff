-------------------------- MODULE VoiceJobsProofs --------------------------
(***************************************************************************)
(* Theorems about VoiceJobs for every set of jobs, workers and tokens.       *)
(***************************************************************************)
EXTENDS VoiceJobs, SequenceTheorems, TLAPS

-----------------------------------------------------------------------------
(***************************************************************************)
(* Types.                                                                   *)
(***************************************************************************)

\* Cutting one element out of a sequence leaves a sequence of the same type.
LEMMA CutType ==
  ASSUME NEW S, NEW s \in Seq(S), NEW i \in 1..Len(s)
  PROVE  SubSeq(s, 1, i - 1) \o SubSeq(s, i + 1, Len(s)) \in Seq(S)
<1>1. Len(s) \in Nat /\ i \in Int /\ i - 1 \in Int /\ i + 1 \in Int
  OBVIOUS
<1>2. \A k \in 1..(i - 1) : s[k] \in S
  OBVIOUS
<1>3. \A k \in (i + 1)..Len(s) : s[k] \in S
  OBVIOUS
<1>4. SubSeq(s, 1, i - 1) \in Seq(S)
  BY <1>1, <1>2, SubSeqProperties
<1>5. SubSeq(s, i + 1, Len(s)) \in Seq(S)
  BY <1>1, <1>3, SubSeqProperties
<1> QED
  BY <1>4, <1>5, ConcatProperties

\* Taking a job out of the queue leaves a queue of jobs.
LEMMA WithoutType ==
  ASSUME NEW S, NEW s \in Seq(S), NEW j
  PROVE  Without(s, j) \in Seq(S)
<1>1. CASE \E i \in DOMAIN s : s[i] = j
  <2>1. PICK i \in 1..Len(s) : i = CHOOSE k \in DOMAIN s : s[k] = j
    BY <1>1
  <2>2. Without(s, j) = SubSeq(s, 1, i - 1) \o SubSeq(s, i + 1, Len(s))
    BY <1>1, <2>1 DEF Without
  <2> QED
    BY <2>2, CutType
<1>2. CASE ~ \E i \in DOMAIN s : s[i] = j
  BY <1>2 DEF Without
<1> QED
  BY <1>1, <1>2

\* Moving a job to the end of the queue leaves a queue of jobs.
LEMMA LastType ==
  ASSUME NEW S, NEW s \in Seq(S), NEW j \in S
  PROVE  Last(s, j) \in Seq(S)
BY WithoutType DEF Last

-----------------------------------------------------------------------------
(***************************************************************************)
(* The steps a worker takes between Claim and Release touch its own memory   *)
(* only, never the table, and add to its copy.                               *)
(***************************************************************************)
Inv1 == TypeOK /\ Exclusive /\ StatusSent

Local(w) ==
  /\ UNCHANGED <<table, held, token, snap>>
  /\ verdict' \in [Workers -> {"done", "now", "later"}]
  /\ pc[w] # "idle"
  /\ \E p \in Payload, place \in Places \ {"idle"} :
       /\ pc' = [pc EXCEPT ![w] = place]
       /\ work' = [work EXCEPT ![w] = p]
       /\ Extends(p, work[w])
       /\ p.status <= Len(screen'[held[w]])
       /\ place \in {"step", "deliver"} => pc[w] = "step" /\ p = work[w]

\* Status messages are only ever added.
Grows ==
  /\ screen' \in [Jobs -> Seq(Pictures)]
  /\ \A j \in Jobs : Len(screen[j]) <= Len(screen'[j])

\* A payload continues itself.
LEMMA ExtendsReflexive ==
  ASSUME NEW p \in Payload
  PROVE  Extends(p, p)
BY DEF Extends, Payload

\* Progress adds up.
LEMMA ExtendsTransitive ==
  ASSUME NEW p \in Payload, NEW q \in Payload, NEW r \in Payload,
         Extends(q, p), Extends(r, q)
  PROVE  Extends(r, p)
BY DEF Extends, Payload

\* An edit of a status message takes no message away.
LEMMA ShownGrows ==
  ASSUME WorldOK, NEW j \in Jobs, NEW m, NEW picture \in Pictures,
         screen' = Shown(j, m, picture)
  PROVE  Grows
<1>1. CASE Editable(j, m)
  <2>1. screen[j] \in Seq(Pictures) /\ m \in 1..Len(screen[j])
    BY <1>1 DEF WorldOK, Editable
  <2>2. screen' = [screen EXCEPT ![j] = [screen[j] EXCEPT ![m] = picture]]
    BY <1>1 DEF Shown, WorldOK
  <2>3. /\ [screen[j] EXCEPT ![m] = picture] \in Seq(Pictures)
        /\ Len([screen[j] EXCEPT ![m] = picture]) = Len(screen[j])
    BY <2>1, ExceptSeq
  <2> QED
    BY <2>2, <2>3 DEF Grows, WorldOK
<1>2. CASE ~Editable(j, m)
  BY <1>2 DEF Shown, Grows, WorldOK
<1> QED
  BY <1>1, <1>2

\* Sending a message adds one to the chat and takes none away.
LEMMA SentGrows ==
  ASSUME WorldOK, NEW j \in Jobs,
         screen' = [screen EXCEPT ![j] = Append(@, "progress")]
  PROVE  Grows /\ Len(screen'[j]) = Len(screen[j]) + 1
<1>1. screen[j] \in Seq(Pictures) /\ "progress" \in Pictures
  BY DEF WorldOK, Pictures
<1>2. /\ Append(screen[j], "progress") \in Seq(Pictures)
      /\ Len(Append(screen[j], "progress")) = Len(screen[j]) + 1
  BY <1>1, AppendProperties
<1> QED
  BY <1>2 DEF Grows, WorldOK

\* Leaving the screen alone takes no message away.
LEMMA StillGrows ==
  ASSUME WorldOK, screen' = screen
  PROVE  Grows
BY DEF Grows, WorldOK

\* A busy worker holds a job of the table.
LEMMA BusyHolds ==
  ASSUME Inv1, NEW w \in Workers, pc[w] # "idle"
  PROVE  /\ held[w] \in Jobs
         /\ held[w] \in rows
         /\ work[w] \in Payload
         /\ work[w].status <= Len(screen[held[w]])
BY DEF Inv1, TypeOK, TableOK, MemoryOK, Exclusive, StatusSent

\* The four ways a step leaves the worker's memory.
LEMMA ReturnLocal ==
  ASSUME Inv1, NEW w \in Workers, pc[w] # "idle", UNCHANGED table, Grows,
         NEW v \in {"done", "now", "later"}, Return(w, v)
  PROVE  Local(w)
<1>1. /\ work[w] \in Payload /\ held[w] \in Jobs
      /\ work[w].status <= Len(screen[held[w]])
  BY BusyHolds
<1>2. work' = [work EXCEPT ![w] = work[w]]
  BY DEF Return, Inv1, TypeOK, MemoryOK
<1>3. Extends(work[w], work[w])
  BY <1>1, ExtendsReflexive
<1>4. work[w].status <= Len(screen'[held[w]])
  <2>1. Len(screen[held[w]]) <= Len(screen'[held[w]])
    BY <1>1 DEF Grows
  <2>2. /\ Len(screen[held[w]]) \in Nat /\ Len(screen'[held[w]]) \in Nat
        /\ work[w].status \in Nat
    BY <1>1 DEF Grows, Inv1, TypeOK, WorldOK, Payload
  <2> QED
    BY <1>1, <2>1, <2>2
<1>5. verdict' \in [Workers -> {"done", "now", "later"}]
  BY DEF Return, Inv1, TypeOK, MemoryOK
<1>6. "release" \in Places \ {"idle"} /\ "release" \notin {"step", "deliver"}
  BY DEF Places
<1>7. /\ pc' = [pc EXCEPT ![w] = "release"]
      /\ UNCHANGED <<table, held, token, snap>>
  BY DEF Return
<1> QED
  BY <1>1, <1>2, <1>3, <1>4, <1>5, <1>6, <1>7 DEF Local

\* A checkpoint puts an extended copy in memory and touches nothing else.
LEMMA CheckpointLocal ==
  ASSUME Inv1, NEW w \in Workers, pc[w] # "idle", UNCHANGED table,
         NEW p \in Payload, Extends(p, work[w]),
         p.status <= Len(screen'[held[w]]),
         \/ Checkpoint(w, p)
         \/ /\ work' = [work EXCEPT ![w] = p]
            /\ pc' = [pc EXCEPT ![w] = "resave"]
            /\ UNCHANGED <<held, token, snap, verdict>>
  PROVE  Local(w)
<1>1. verdict' \in [Workers -> {"done", "now", "later"}]
  BY DEF Checkpoint, Inv1, TypeOK, MemoryOK
<1>2. \E place \in Places \ {"idle"} :
        pc' = [pc EXCEPT ![w] = place] /\ place \notin {"step", "deliver"}
  BY DEF Checkpoint, Places
<1> QED
  BY <1>1, <1>2 DEF Local, Checkpoint

\* So does the outcome of a call, whichever it is.
LEMMA StepLocal ==
  ASSUME Inv1, NEW w \in Workers, pc[w] # "idle", UNCHANGED table, Grows,
         NEW o, NEW p \in Payload, Extends(p, work[w]),
         o = "ok" => p.status <= Len(screen'[held[w]]),
         Step(w, o, p)
  PROVE  Local(w)
BY ReturnLocal, CheckpointLocal DEF Step

\* A copy whose status message is unchanged still names one that was sent.
LEMMA SameStatus ==
  ASSUME Inv1, NEW w \in Workers, pc[w] # "idle", Grows,
         NEW p \in Payload, p.status = work[w].status
  PROVE  p.status <= Len(screen'[held[w]])
<1>1. held[w] \in Jobs /\ work[w].status <= Len(screen[held[w]])
  BY BusyHolds
<1>2. Len(screen[held[w]]) <= Len(screen'[held[w]])
  BY <1>1 DEF Grows
<1>3. /\ Len(screen[held[w]]) \in Nat /\ Len(screen'[held[w]]) \in Nat
      /\ p.status \in Nat
  BY <1>1 DEF Grows, Inv1, TypeOK, WorldOK, Payload
<1> QED
  BY <1>1, <1>2, <1>3

\* Setting a flag of a payload adds progress and keeps the status message.
LEMMA SetStarted ==
  ASSUME NEW q \in Payload
  PROVE  /\ [q EXCEPT !.submitStarted = TRUE] \in Payload
         /\ Extends([q EXCEPT !.submitStarted = TRUE], q)
         /\ [q EXCEPT !.submitStarted = TRUE].status = q.status
<1>1. [q EXCEPT !.submitStarted = TRUE] \in Payload
  BY DEF Payload
<1>2. Extends([q EXCEPT !.submitStarted = TRUE], q)
  BY DEF Payload, Extends
<1>3. [q EXCEPT !.submitStarted = TRUE].status = q.status
  BY DEF Payload
<1> QED
  BY <1>1, <1>2, <1>3

\* Recording the backend's job ID is progress.
LEMMA SetRemote ==
  ASSUME NEW q \in Payload
  PROVE  /\ [q EXCEPT !.remoteID = TRUE] \in Payload
         /\ Extends([q EXCEPT !.remoteID = TRUE], q)
         /\ [q EXCEPT !.remoteID = TRUE].status = q.status
<1>1. [q EXCEPT !.remoteID = TRUE] \in Payload
  BY DEF Payload
<1>2. Extends([q EXCEPT !.remoteID = TRUE], q)
  BY DEF Payload, Extends
<1>3. [q EXCEPT !.remoteID = TRUE].status = q.status
  BY DEF Payload
<1> QED
  BY <1>1, <1>2, <1>3

\* Recording the acknowledgement is progress.
LEMMA SetAcked ==
  ASSUME NEW q \in Payload
  PROVE  /\ [q EXCEPT !.acked = TRUE] \in Payload
         /\ Extends([q EXCEPT !.acked = TRUE], q)
         /\ [q EXCEPT !.acked = TRUE].status = q.status
<1>1. [q EXCEPT !.acked = TRUE] \in Payload
  BY DEF Payload
<1>2. Extends([q EXCEPT !.acked = TRUE], q)
  BY DEF Payload, Extends
<1>3. [q EXCEPT !.acked = TRUE].status = q.status
  BY DEF Payload
<1> QED
  BY <1>1, <1>2, <1>3

\* Recording that the note is written is progress.
LEMMA SetSaved ==
  ASSUME NEW q \in Payload
  PROVE  /\ [q EXCEPT !.noteSaved = TRUE] \in Payload
         /\ Extends([q EXCEPT !.noteSaved = TRUE], q)
         /\ [q EXCEPT !.noteSaved = TRUE].status = q.status
<1>1. [q EXCEPT !.noteSaved = TRUE] \in Payload
  BY DEF Payload
<1>2. Extends([q EXCEPT !.noteSaved = TRUE], q)
  BY DEF Payload, Extends
<1>3. [q EXCEPT !.noteSaved = TRUE].status = q.status
  BY DEF Payload
<1> QED
  BY <1>1, <1>2, <1>3

\* Recording the prepared intent is progress.
LEMMA SetPrepared ==
  ASSUME NEW q \in Payload
  PROVE  /\ [q EXCEPT !.prepared = TRUE] \in Payload
         /\ Extends([q EXCEPT !.prepared = TRUE], q)
         /\ [q EXCEPT !.prepared = TRUE].status = q.status
<1>1. [q EXCEPT !.prepared = TRUE] \in Payload
  BY DEF Payload
<1>2. Extends([q EXCEPT !.prepared = TRUE], q)
  BY DEF Payload, Extends
<1>3. [q EXCEPT !.prepared = TRUE].status = q.status
  BY DEF Payload
<1> QED
  BY <1>1, <1>2, <1>3

\* What a step of voiceStep does, and may do, to the state.
Moves(w) == Local(w) /\ Grows /\ WorldOK'

\* A worker that sends a missing status message only adds to its copy.
LEMMA SendStatusMoves ==
  ASSUME Inv1, NEW w \in Workers, SendStatus(w)
  PROVE  Moves(w)
<1>1. pc[w] # "idle"
  BY DEF SendStatus, At
<1>2. held[w] \in Jobs /\ work[w] \in Payload
  BY <1>1, BusyHolds
<1>3. WorldOK /\ UNCHANGED table
  BY DEF SendStatus, Inv1, TypeOK
<1>4. work[w].status = 0
  BY DEF SendStatus, At, Stage
<1> DEFINE p == [work[w] EXCEPT !.status = Len(screen[held[w]]) + 1]
<1>5. PICK o \in Outcomes :
        /\ Charge(o)
        /\ screen' = IF Took(o) THEN [screen EXCEPT ![held[w]] = Append(@, "progress")]
                     ELSE screen
        /\ Step(w, o, p)
  BY DEF SendStatus
<1>6. Len(screen[held[w]]) \in Nat
  BY <1>2, <1>3 DEF WorldOK
<1>7. Grows /\ (o = "ok" => p.status <= Len(screen'[held[w]]))
  <2>1. CASE Took(o)
    <3>1. Grows /\ Len(screen'[held[w]]) = Len(screen[held[w]]) + 1
      BY <1>2, <1>3, <1>5, <2>1, SentGrows
    <3>2. p.status = Len(screen[held[w]]) + 1
      BY <1>2 DEF Payload
    <3> QED
      BY <3>1, <3>2, <1>6
  <2>2. CASE ~Took(o)
    BY <1>3, <1>5, <2>2, StillGrows DEF Took
  <2> QED
    BY <2>1, <2>2
<1>8. p \in Payload /\ Extends(p, work[w])
  BY <1>2, <1>4, <1>6 DEF Payload, Extends
<1>9. Local(w)
  BY <1>1, <1>3, <1>5, <1>7, <1>8, StepLocal
<1>10. WorldOK'
  BY <1>3, <1>5, <1>7 DEF WorldOK, Grows, Charge, SendStatus
<1> QED
  BY <1>7, <1>9, <1>10 DEF Moves

\* So does one that cancels: it writes a result where there was none.
LEMMA CancelRemoteMoves ==
  ASSUME Inv1, NEW w \in Workers, CancelRemote(w)
  PROVE  Moves(w)
<1>1. pc[w] # "idle" /\ work[w].result = "none"
  BY DEF CancelRemote, At, Stage
<1>2. held[w] \in Jobs /\ work[w] \in Payload
  BY <1>1, BusyHolds
<1>3. WorldOK /\ UNCHANGED table /\ Grows
  BY StillGrows DEF CancelRemote, Inv1, TypeOK
<1> DEFINE p == [work[w] EXCEPT !.result = "cancelled"]
<1>4. PICK o \in Outcomes : Charge(o) /\ Step(w, o, p)
  BY DEF CancelRemote, Outcomes
<1>5. p \in Payload /\ Extends(p, work[w]) /\ p.status = work[w].status
  BY <1>1, <1>2 DEF Payload, Results, Extends
<1>6. Local(w)
  BY <1>1, <1>3, <1>4, <1>5, SameStatus, StepLocal
<1>7. backend' \in [Jobs -> Remote]
  BY <1>3 DEF CancelRemote, WorldOK, Remote
<1>8. WorldOK'
  BY <1>3, <1>4, <1>7 DEF WorldOK, Grows, Charge, CancelRemote
<1> QED
  BY <1>3, <1>6, <1>8 DEF Moves

\* So does one that records its intent to upload.
LEMMA IntendMoves ==
  ASSUME Inv1, NEW w \in Workers, Intend(w)
  PROVE  Moves(w)
<1>1. pc[w] # "idle"
  BY DEF Intend, At
<1>2. work[w] \in Payload
  BY <1>1, BusyHolds
<1>3. WorldOK /\ UNCHANGED table /\ Grows
  BY StillGrows DEF Intend, Inv1, TypeOK, world
<1> DEFINE p == [work[w] EXCEPT !.submitStarted = TRUE]
<1>4. p \in Payload /\ Extends(p, work[w]) /\ p.status = work[w].status
  BY <1>2, SetStarted
<1>5. Local(w)
  BY <1>1, <1>3, <1>4, SameStatus, CheckpointLocal DEF Intend
<1>6. WorldOK'
  BY <1>3 DEF WorldOK, Intend, world
<1> QED
  BY <1>3, <1>5, <1>6 DEF Moves

\* Showing progress takes no message away.
LEMMA ShowProgressGrows ==
  ASSUME Inv1, NEW w \in Workers, pc[w] # "idle", ShowProgress(w)
  PROVE  Grows
<1>1. held[w] \in Jobs /\ "progress" \in Pictures
  BY BusyHolds DEF Pictures
<1>2. WorldOK
  BY DEF Inv1, TypeOK
<1> QED
  BY <1>1, <1>2, ShownGrows, StillGrows DEF ShowProgress

\* An upload only adds to the worker's copy.
LEMMA SubmitMoves ==
  ASSUME Inv1, NEW w \in Workers, Submit(w)
  PROVE  Moves(w)
<1>1. pc[w] # "idle"
  BY DEF Submit, At
<1>2. held[w] \in Jobs /\ work[w] \in Payload
  BY <1>1, BusyHolds
<1>3. WorldOK /\ UNCHANGED table /\ Grows
  BY <1>1, ShowProgressGrows DEF Submit, Inv1, TypeOK
<1> DEFINE p == [work[w] EXCEPT !.remoteID = TRUE]
<1>4. PICK o \in Outcomes :
        /\ Charge(o)
        /\ backend' = IF Took(o) THEN [backend EXCEPT ![held[w]] = Submitted(@)]
                      ELSE backend
        /\ Step(w, o, p)
  BY DEF Submit
<1>5. p \in Payload /\ Extends(p, work[w]) /\ p.status = work[w].status
  BY <1>2, SetRemote
<1>6. Local(w)
  BY <1>1, <1>3, <1>4, <1>5, SameStatus, StepLocal
<1>7. backend' \in [Jobs -> Remote]
  BY <1>2, <1>3, <1>4 DEF WorldOK, Remote, Submitted
<1>8. WorldOK'
  BY <1>3, <1>4, <1>7 DEF WorldOK, Grows, Charge, Submit
<1> QED
  BY <1>3, <1>6, <1>8 DEF Moves

\* A poll only adds to the worker's copy: it writes a result where there was none.
LEMMA PollMoves ==
  ASSUME Inv1, NEW w \in Workers, Poll(w)
  PROVE  Moves(w)
<1>1. pc[w] # "idle" /\ work[w].result = "none"
  BY DEF Poll, At, Stage
<1>2. held[w] \in Jobs /\ work[w] \in Payload
  BY <1>1, BusyHolds
<1>3. WorldOK /\ UNCHANGED table /\ UNCHANGED <<backend, notes, unsure>>
  BY DEF Poll, Inv1, TypeOK
<1>4. Grows
  BY <1>1, <1>3, ShowProgressGrows, StillGrows DEF Poll
<1>5. faults' \in Nat
  BY <1>3 DEF Poll, Charge, WorldOK
<1>6. Local(w)
  <2>1. CASE \E r \in {"text", "empty", "failed"} :
               Checkpoint(w, [work[w] EXCEPT !.result = r])
    <3>1. PICK r \in {"text", "empty", "failed"} :
            Checkpoint(w, [work[w] EXCEPT !.result = r])
      BY <2>1
    <3> DEFINE p == [work[w] EXCEPT !.result = r]
    <3>2. p \in Payload /\ Extends(p, work[w]) /\ p.status = work[w].status
      BY <1>1, <1>2 DEF Payload, Results, Extends
    <3> QED
      BY <1>1, <1>3, <1>4, <3>1, <3>2, SameStatus, CheckpointLocal
  <2>2. CASE Return(w, "later")
    BY <1>1, <1>3, <1>4, <2>2, ReturnLocal
  <2> QED
    BY <2>1, <2>2 DEF Poll
<1>7. WorldOK'
  BY <1>3, <1>4, <1>5 DEF WorldOK, Grows
<1> QED
  BY <1>4, <1>6, <1>7 DEF Moves

\* An acknowledgement only adds to the worker's copy.
LEMMA AckMoves ==
  ASSUME Inv1, NEW w \in Workers, Ack(w)
  PROVE  Moves(w)
<1>1. pc[w] # "idle"
  BY DEF Ack, At
<1>2. held[w] \in Jobs /\ work[w] \in Payload
  BY <1>1, BusyHolds
<1>3. WorldOK /\ UNCHANGED table /\ Grows
  BY StillGrows DEF Ack, Inv1, TypeOK
<1> DEFINE p == [work[w] EXCEPT !.acked = TRUE]
<1>4. PICK o \in Outcomes :
        /\ Charge(o)
        /\ backend' = IF Took(o) /\ backend[held[w]] \in {"text", "empty", "failed"}
                      THEN [backend EXCEPT ![held[w]] = "acked"] ELSE backend
        /\ Return(w, "later") \/ Step(w, o, p)
  BY DEF Ack
<1>5. p \in Payload /\ Extends(p, work[w]) /\ p.status = work[w].status
  BY <1>2, SetAcked
<1>6. Local(w)
  BY <1>1, <1>3, <1>4, <1>5, SameStatus, StepLocal, ReturnLocal
<1>7. backend' \in [Jobs -> Remote]
  BY <1>3, <1>4 DEF WorldOK, Remote
<1>8. WorldOK'
  BY <1>3, <1>4, <1>7 DEF WorldOK, Grows, Charge, Ack
<1> QED
  BY <1>3, <1>6, <1>8 DEF Moves

\* Looking at the order changes nothing but the worker's place.
LEMMA CheckFrontMoves ==
  ASSUME Inv1, NEW w \in Workers, CheckFront(w)
  PROVE  Moves(w)
<1>1. pc[w] = "step"
  BY DEF CheckFront, At
<1>2. held[w] \in Jobs /\ work[w] \in Payload /\ work[w].status <= Len(screen[held[w]])
  BY <1>1, BusyHolds
<1>3. WorldOK /\ UNCHANGED table /\ UNCHANGED world /\ Grows
  BY StillGrows DEF CheckFront, Inv1, TypeOK, world
<1>4. faults' \in Nat
  BY <1>3 DEF CheckFront, Charge, WorldOK
<1>5. Local(w)
  <2>1. CASE Return(w, "later")
    BY <1>1, <1>3, <2>1, ReturnLocal
  <2>2. CASE Goto(w, "deliver")
    <3>1. work' = [work EXCEPT ![w] = work[w]]
      BY <2>2 DEF Goto, Inv1, TypeOK, MemoryOK
    <3>2. pc' = [pc EXCEPT ![w] = "deliver"] /\ "deliver" \in Places \ {"idle"}
      BY <2>2 DEF Goto, Places
    <3>3. Extends(work[w], work[w]) /\ work[w].status <= Len(screen'[held[w]])
      BY <1>2, <1>3, ExtendsReflexive DEF world
    <3>4. UNCHANGED <<held, token, snap>>
      BY <2>2 DEF Goto
    <3>5. verdict' \in [Workers -> {"done", "now", "later"}]
      BY <2>2 DEF Goto, Inv1, TypeOK, MemoryOK
    <3> QED
      BY <1>1, <1>2, <1>3, <3>1, <3>2, <3>3, <3>4, <3>5 DEF Local
  <2> QED
    BY <2>1, <2>2 DEF CheckFront
<1>6. WorldOK'
  BY <1>3, <1>4 DEF WorldOK, world
<1> QED
  BY <1>3, <1>5, <1>6 DEF Moves

\* An append to a note only adds to the worker's copy.
LEMMA AppendNoteMoves ==
  ASSUME Inv1, NEW w \in Workers, AppendNote(w)
  PROVE  Moves(w)
<1>1. pc[w] # "idle"
  BY DEF AppendNote
<1>2. held[w] \in Jobs /\ work[w] \in Payload
  BY <1>1, BusyHolds
<1>3. WorldOK /\ UNCHANGED table /\ Grows
  BY StillGrows DEF AppendNote, Inv1, TypeOK
<1> DEFINE p == [work[w] EXCEPT !.noteSaved = TRUE]
<1>4. PICK o \in Outcomes :
        /\ Charge(o)
        /\ notes' = IF Took(o) THEN AppendOnce(held[w]) ELSE notes
        /\ Step(w, o, p)
  BY DEF AppendNote
<1>5. p \in Payload /\ Extends(p, work[w]) /\ p.status = work[w].status
  BY <1>2, SetSaved
<1>6. Local(w)
  BY <1>1, <1>3, <1>4, <1>5, SameStatus, StepLocal
<1>7. notes' \in Seq(Jobs)
  BY <1>2, <1>3, <1>4 DEF WorldOK, AppendOnce
<1>8. WorldOK'
  BY <1>3, <1>4, <1>7 DEF WorldOK, Grows, Charge, AppendNote
<1> QED
  BY <1>3, <1>6, <1>8 DEF Moves

\* Preparing an intent only adds to the worker's copy.
LEMMA PrepareMoves ==
  ASSUME Inv1, NEW w \in Workers, Prepare(w)
  PROVE  Moves(w)
<1>1. pc[w] # "idle"
  BY DEF Prepare
<1>2. held[w] \in Jobs /\ work[w] \in Payload
  BY <1>1, BusyHolds
<1>3. WorldOK /\ UNCHANGED table /\ Grows
  BY StillGrows DEF Prepare, Inv1, TypeOK, world
<1> DEFINE p == [work[w] EXCEPT !.prepared = TRUE]
<1>4. PICK o \in {"ok", "failed"} : Charge(o) /\ Step(w, o, p)
  BY DEF Prepare
<1>5. p \in Payload /\ Extends(p, work[w]) /\ p.status = work[w].status
  BY <1>2, SetPrepared
<1>6. Local(w)
  BY <1>1, <1>3, <1>4, <1>5, SameStatus, StepLocal
<1>7. WorldOK'
  BY <1>3, <1>4 DEF WorldOK, Charge, Prepare, world
<1> QED
  BY <1>3, <1>6, <1>7 DEF Moves

\* Both edits of the result: the final picture, then a verdict.
LEMMA EditMoves ==
  ASSUME Inv1, NEW w \in Workers, EditResult(w) \/ EditReplacement(w)
  PROVE  Moves(w)
<1>1. pc[w] # "idle"
  BY DEF EditResult, EditReplacement
<1>2. held[w] \in Jobs
  BY <1>1, BusyHolds
<1>3. WorldOK /\ UNCHANGED table /\ UNCHANGED <<backend, notes, unsure>>
  BY DEF EditResult, EditReplacement, Inv1, TypeOK
<1>4. PICK o \in Outcomes, v \in {"done", "later"} :
        /\ Charge(o)
        /\ screen' = IF Took(o) THEN Shown(held[w], work[w].status, "final") ELSE screen
        /\ Return(w, v)
  BY DEF EditResult, EditReplacement
<1>5. "final" \in Pictures
  BY DEF Pictures
<1>6. Grows
  BY <1>2, <1>3, <1>4, <1>5, ShownGrows, StillGrows
<1>7. Local(w)
  BY <1>1, <1>3, <1>4, <1>6, ReturnLocal
<1>8. WorldOK'
  BY <1>3, <1>4, <1>6 DEF WorldOK, Grows, Charge
<1> QED
  BY <1>6, <1>7, <1>8 DEF Moves

\* The new message is the last of its chat, so its index only grows.
LEMMA ReplaceMessageMoves ==
  ASSUME Inv1, NEW w \in Workers, ReplaceMessage(w)
  PROVE  Moves(w)
<1>1. pc[w] # "idle"
  BY DEF ReplaceMessage
<1>2. /\ held[w] \in Jobs /\ work[w] \in Payload
      /\ work[w].status <= Len(screen[held[w]])
  BY <1>1, BusyHolds
<1>3. WorldOK /\ UNCHANGED table /\ UNCHANGED <<backend, notes, unsure>>
  BY DEF ReplaceMessage, Inv1, TypeOK
<1> DEFINE p == [work[w] EXCEPT !.status = Len(screen[held[w]]) + 1]
<1>4. PICK o \in Outcomes :
        /\ Charge(o)
        /\ screen' = IF Took(o) THEN [screen EXCEPT ![held[w]] = Append(@, "progress")]
                     ELSE screen
        /\ IF o = "ok"
           THEN /\ work' = [work EXCEPT ![w].status = Len(screen[held[w]]) + 1]
                /\ pc' = [pc EXCEPT ![w] = "resave"]
                /\ UNCHANGED <<held, token, snap, verdict>>
           ELSE Return(w, "later")
  BY DEF ReplaceMessage
<1>5. Len(screen[held[w]]) \in Nat
  BY <1>2, <1>3 DEF WorldOK
<1>6. Grows /\ (o = "ok" => p.status <= Len(screen'[held[w]]))
  <2>1. CASE Took(o)
    <3>1. Grows /\ Len(screen'[held[w]]) = Len(screen[held[w]]) + 1
      BY <1>2, <1>3, <1>4, <2>1, SentGrows
    <3>2. p.status = Len(screen[held[w]]) + 1
      BY <1>2 DEF Payload
    <3> QED
      BY <3>1, <3>2, <1>5
  <2>2. CASE ~Took(o)
    BY <1>3, <1>4, <2>2, StillGrows DEF Took
  <2> QED
    BY <2>1, <2>2
<1>7. p \in Payload /\ Extends(p, work[w])
  <2>1. work[w].status \in Nat /\ work[w].status <= Len(screen[held[w]]) + 1
    BY <1>2, <1>5 DEF Payload
  <2> QED
    BY <1>2, <1>5, <2>1 DEF Payload, Extends
<1>8. Local(w)
  <2>1. CASE o = "ok"
    <3>1. work' = [work EXCEPT ![w] = p]
      BY <1>4, <2>1 DEF Inv1, TypeOK, MemoryOK
    <3> HIDE DEF p
    <3> QED
      BY <1>1, <1>3, <1>4, <1>6, <1>7, <2>1, <3>1, CheckpointLocal
  <2>2. CASE o # "ok"
    BY <1>1, <1>3, <1>4, <1>6, <2>2, ReturnLocal
  <2> QED
    BY <2>1, <2>2
<1>9. WorldOK'
  BY <1>3, <1>4, <1>6 DEF WorldOK, Grows, Charge
<1> QED
  BY <1>6, <1>8, <1>9 DEF Moves

\* The steps between Claim and Release, apart from Save.
Progress(w) ==
  \/ SendStatus(w) \/ CancelRemote(w) \/ Intend(w) \/ Submit(w) \/ Poll(w)
  \/ Ack(w) \/ CheckFront(w) \/ AppendNote(w) \/ Prepare(w) \/ EditResult(w)
  \/ ReplaceMessage(w) \/ EditReplacement(w)

\* Every call of a worker between Claim and Save only adds to its copy.
LEMMA ProgressMoves ==
  ASSUME Inv1, NEW w \in Workers, Progress(w)
  PROVE  Moves(w)
BY SendStatusMoves, CancelRemoteMoves, IntendMoves, SubmitMoves, PollMoves,
   AckMoves, CheckFrontMoves, AppendNoteMoves, PrepareMoves, EditMoves,
   ReplaceMessageMoves DEF Progress

-----------------------------------------------------------------------------
(***************************************************************************)
(* Inv1 is an invariant.                                                    *)
(***************************************************************************)
LEMMA InitInv1 == Init => Inv1
<1> SUFFICES ASSUME Init PROVE Inv1
  OBVIOUS
<1>1. Blank \in Payload
  BY DEF Blank, Payload, Results
<1>2. TableOK
  BY <1>1, JobAssumption DEF Init, TableOK
<1>3. MemoryOK
  BY <1>1 DEF Init, MemoryOK, Places
<1>4. WorldOK
  BY DEF Init, WorldOK, Remote
<1>5. Exclusive
  BY DEF Init, Exclusive
<1>6. StatusSent
  BY DEF Init, StatusSent, Blank
<1> QED
  BY <1>2, <1>3, <1>4, <1>5, <1>6 DEF Inv1, TypeOK

\* Payloads keep naming messages that were sent while messages are only added.
LEMMA StatusKept ==
  ASSUME Inv1, Grows, UNCHANGED <<payload, pc, held, work>>
  PROVE  StatusSent'
<1>1. ASSUME NEW j \in Jobs
      PROVE  payload'[j].status <= Len(screen'[j])
  <2>1. /\ Len(screen[j]) \in Nat /\ Len(screen'[j]) \in Nat
        /\ payload[j].status \in Nat
    BY DEF Grows, Inv1, TypeOK, WorldOK, TableOK, Payload
  <2>2. payload[j].status <= Len(screen[j]) /\ Len(screen[j]) <= Len(screen'[j])
    BY DEF Grows, Inv1, StatusSent
  <2> QED
    BY <2>1, <2>2
<1>2. ASSUME NEW w \in Workers, pc[w] # "idle"
      PROVE  work[w].status <= Len(screen'[held[w]])
  <2>1. work[w] \in Payload
    BY <1>2, BusyHolds
  <2> QED
    BY <1>2, <2>1, SameStatus
<1> QED
  BY <1>1, <1>2 DEF StatusSent

\* Such a call keeps Inv1.
LEMMA MovesInv1 ==
  ASSUME Inv1, NEW w \in Workers, Moves(w)
  PROVE  Inv1'
<1>1. UNCHANGED table /\ Grows /\ WorldOK' /\ Local(w)
  BY DEF Moves, Local
<1>2. PICK p \in Payload, place \in Places \ {"idle"} :
        /\ pc[w] # "idle"
        /\ pc' = [pc EXCEPT ![w] = place]
        /\ work' = [work EXCEPT ![w] = p]
        /\ p.status <= Len(screen'[held[w]])
  BY <1>1 DEF Local
<1>3. TableOK'
  BY <1>1 DEF Inv1, TypeOK, TableOK, table
<1>4. MemoryOK'
  BY <1>1, <1>2 DEF Inv1, TypeOK, MemoryOK, Local
<1>5. Exclusive'
  BY <1>1, <1>2 DEF Inv1, TypeOK, MemoryOK, Exclusive, Local, table
<1>6. StatusSent'
  <2>1. ASSUME NEW j \in Jobs
        PROVE  payload'[j].status <= Len(screen'[j])
    <3>1. /\ Len(screen[j]) \in Nat /\ Len(screen'[j]) \in Nat
          /\ payload[j].status \in Nat
      BY <1>1 DEF Grows, Inv1, TypeOK, WorldOK, TableOK, Payload
    <3>2. payload[j].status <= Len(screen[j]) /\ Len(screen[j]) <= Len(screen'[j])
      BY <1>1 DEF Grows, Inv1, StatusSent
    <3> QED
      BY <1>1, <3>1, <3>2 DEF table
  <2>2. ASSUME NEW v \in Workers, pc'[v] # "idle"
        PROVE  work'[v].status <= Len(screen'[held'[v]])
    <3>1. CASE v = w
      BY <1>1, <1>2, <3>1 DEF Local, Inv1, TypeOK, MemoryOK
    <3>2. CASE v # w
      <4>1. pc[v] # "idle" /\ work'[v] = work[v] /\ held'[v] = held[v]
        BY <1>1, <1>2, <2>2, <3>2 DEF Local, Inv1, TypeOK, MemoryOK
      <4>2. work[v] \in Payload
        BY <4>1, BusyHolds
      <4> QED
        BY <1>1, <4>1, <4>2, SameStatus
    <3> QED
      BY <3>1, <3>2
  <2> QED
    BY <2>1, <2>2 DEF StatusSent
<1> QED
  BY <1>1, <1>3, <1>4, <1>5, <1>6 DEF Inv1, TypeOK

\* A claim keeps Inv1: its token is one that nobody carries.
LEMMA ClaimInv1 ==
  ASSUME Inv1, NEW w \in Workers, Claim(w)
  PROVE  Inv1'
<1>1. PICK j \in Jobs, t \in Fresh :
        /\ Candidate(j)
        /\ lease' = [lease EXCEPT ![j] = t]
        /\ live' = live \cup {j}
        /\ \/ /\ pc' = [pc EXCEPT ![w] = "step"]
              /\ held' = [held EXCEPT ![w] = j]
              /\ token' = [token EXCEPT ![w] = t]
              /\ work' = [work EXCEPT ![w] = payload[j]]
              /\ snap' = [snap EXCEPT ![w] = cancel[j]]
              /\ UNCHANGED <<verdict, faults>>
           \/ Charge("lost") /\ UNCHANGED memory
  BY DEF Claim
<1>2. UNCHANGED <<rows, payload, cancel, done, due, world>>
  BY DEF Claim
<1>3. t \in Tokens /\ j \in rows /\ \A v \in Workers : token[v] # t
  BY <1>1 DEF Fresh, Candidate
<1>4. TableOK'
  BY <1>1, <1>2, <1>3 DEF Inv1, TypeOK, TableOK
<1>5. MemoryOK'
  <2>1. payload[j] \in Payload /\ cancel[j] \in BOOLEAN /\ "step" \in Places
    BY DEF Inv1, TypeOK, TableOK, Places
  <2>2. MemoryOK
    BY DEF Inv1, TypeOK
  <2>3. CASE UNCHANGED memory
    BY <2>2, <2>3 DEF MemoryOK, memory
  <2>4. CASE ~UNCHANGED memory
    <3>1. /\ pc' = [pc EXCEPT ![w] = "step"]
          /\ held' = [held EXCEPT ![w] = j]
          /\ token' = [token EXCEPT ![w] = t]
          /\ work' = [work EXCEPT ![w] = payload[j]]
          /\ snap' = [snap EXCEPT ![w] = cancel[j]]
          /\ verdict' = verdict
      BY <1>1, <2>4
    <3>2. snap' \in [Workers -> BOOLEAN]
      BY <2>1, <2>2, <3>1 DEF MemoryOK
    <3> QED
      BY <1>3, <2>1, <2>2, <3>1, <3>2 DEF MemoryOK
  <2> QED
    BY <2>3, <2>4
<1>6. WorldOK'
  BY <1>1, <1>2 DEF Inv1, TypeOK, WorldOK, world, Charge
<1>7. Exclusive'
  BY <1>1, <1>2, <1>3 DEF Inv1, TypeOK, MemoryOK, Exclusive, memory
<1>8. StatusSent'
  <2>1. \A k \in Jobs : payload[k].status <= Len(screen[k])
    BY DEF Inv1, StatusSent
  <2>2. UNCHANGED <<payload, screen>>
    BY <1>2 DEF world
  <2>3. \A v \in Workers : pc'[v] # "idle" => work'[v].status <= Len(screen[held'[v]])
    BY <1>1, <2>1 DEF Inv1, StatusSent, TypeOK, MemoryOK, memory
  <2> QED
    BY <2>1, <2>2, <2>3 DEF StatusSent
<1> QED
  BY <1>4, <1>5, <1>6, <1>7, <1>8 DEF Inv1, TypeOK

\* Save and Release put the copy of a busy worker in the table or nothing.
LEMMA SavedPayload ==
  ASSUME Inv1, NEW w \in Workers, pc[w] # "idle", screen' = screen,
         \/ payload' = payload
         \/ payload' = [payload EXCEPT ![held[w]] = work[w]]
  PROVE  /\ payload' \in [Jobs -> Payload]
         /\ \A j \in Jobs : payload'[j].status <= Len(screen'[j])
<1>1. /\ held[w] \in Jobs /\ work[w] \in Payload
      /\ work[w].status <= Len(screen[held[w]])
  BY BusyHolds
<1>2. /\ payload \in [Jobs -> Payload]
      /\ \A j \in Jobs : payload[j].status <= Len(screen[j])
  BY DEF Inv1, TypeOK, TableOK, StatusSent
<1> QED
  BY <1>1, <1>2

\* A save keeps Inv1: the saved copy names a message that was sent.
LEMMA SaveInv1 ==
  ASSUME Inv1, NEW w \in Workers, Save(w)
  PROVE  Inv1'
<1>1. pc[w] # "idle"
  BY DEF Save
<1>2. UNCHANGED <<rows, cancel, done, lease, live, due, world>>
  BY DEF Save
<1>3. PICK o \in Outcomes :
        /\ Charge(o)
        /\ payload' = IF Took(o) /\ Owns(w) THEN [payload EXCEPT ![held[w]] = work[w]]
                      ELSE payload
        /\ \/ \E v \in {"now", "later"} : Return(w, v)
           \/ Goto(w, "reedit")
  BY DEF Save
<1>4. /\ payload' \in [Jobs -> Payload]
      /\ \A j \in Jobs : payload'[j].status <= Len(screen'[j])
  BY <1>1, <1>2, <1>3, SavedPayload DEF world
<1>5. TableOK'
  BY <1>2, <1>4 DEF Inv1, TypeOK, TableOK
<1>6. MemoryOK' /\ UNCHANGED <<held, token, work, snap>>
      /\ pc' \in [Workers -> Places]
      /\ \A v \in Workers : pc'[v] = "idle" <=> pc[v] = "idle"
  BY <1>1, <1>3 DEF Inv1, TypeOK, MemoryOK, Return, Goto, Places
<1>7. WorldOK'
  BY <1>2, <1>3 DEF Inv1, TypeOK, WorldOK, world, Charge
<1>8. Exclusive'
  BY <1>2, <1>6 DEF Inv1, Exclusive
<1>9. StatusSent'
  BY <1>2, <1>4, <1>6 DEF Inv1, StatusSent, world
<1> QED
  BY <1>5, <1>6, <1>7, <1>8, <1>9 DEF Inv1, TypeOK

\* A worker that forgets its job holds nothing, and the others are as before.
LEMMA ForgetOK ==
  ASSUME Inv1, NEW w \in Workers, Forget(w)
  PROVE  /\ MemoryOK'
         /\ rows' = rows => Exclusive'
         /\ \A v \in Workers : pc'[v] # "idle" =>
               v # w /\ pc[v] # "idle" /\ work'[v] = work[v] /\ held'[v] = held[v]
<1>1. Blank \in Payload
  BY DEF Blank, Payload, Results
<1>2. MemoryOK'
  BY <1>1 DEF Forget, Inv1, TypeOK, MemoryOK, Places
<1>3. rows' = rows => Exclusive'
  BY DEF Forget, Inv1, TypeOK, MemoryOK, Exclusive
<1>4. \A v \in Workers : pc'[v] # "idle" =>
               v # w /\ pc[v] # "idle" /\ work'[v] = work[v] /\ held'[v] = held[v]
  BY DEF Forget, Inv1, TypeOK, MemoryOK
<1> QED
  BY <1>2, <1>3, <1>4

\* A release keeps Inv1.
LEMMA ReleaseInv1 ==
  ASSUME Inv1, NEW w \in Workers, Release(w)
  PROVE  Inv1'
<1>1. pc[w] # "idle" /\ Forget(w) /\ UNCHANGED <<rows, cancel, world>>
  BY DEF Release
<1>2. held[w] \in Jobs
  BY <1>1, BusyHolds
<1>3. PICK o \in Outcomes :
        /\ Charge(o)
        /\ IF Took(o) /\ Owns(w)
           THEN /\ payload' = [payload EXCEPT ![held[w]] = work[w]]
                /\ done' = [done EXCEPT ![held[w]] = (verdict[w] = "done")]
                /\ due' = Requeue(held[w], verdict[w])
                /\ lease' = [lease EXCEPT ![held[w]] = NoToken]
                /\ live' = live \ {held[w]}
           ELSE UNCHANGED <<payload, done, due, lease, live>>
  BY DEF Release
<1>4. /\ payload' \in [Jobs -> Payload]
      /\ \A j \in Jobs : payload'[j].status <= Len(screen'[j])
  BY <1>1, <1>3, SavedPayload DEF world
<1>5. due' \in Seq(Jobs)
  <2>1. due \in Seq(Jobs)
    BY DEF Inv1, TypeOK, TableOK
  <2>2. Without(due, held[w]) \in Seq(Jobs) /\ Last(due, held[w]) \in Seq(Jobs)
    BY <1>2, <2>1, WithoutType, LastType
  <2> QED
    BY <1>3, <2>1, <2>2 DEF Requeue
<1>6. TableOK'
  BY <1>1, <1>3, <1>4, <1>5 DEF Inv1, TypeOK, TableOK
<1>7. WorldOK'
  BY <1>1, <1>3 DEF Inv1, TypeOK, WorldOK, world, Charge
<1>8. StatusSent'
  BY <1>1, <1>4, ForgetOK DEF Inv1, StatusSent, world
<1> QED
  BY <1>1, <1>6, <1>7, <1>8, ForgetOK DEF Inv1, TypeOK

\* A crash keeps Inv1.
LEMMA CrashInv1 ==
  ASSUME Inv1, NEW w \in Workers, Crash(w)
  PROVE  Inv1'
<1>1. Forget(w) /\ UNCHANGED <<table, world>> /\ faults' = faults + 1
  BY DEF Crash
<1>2. TableOK' /\ WorldOK'
  BY <1>1 DEF Inv1, TypeOK, TableOK, WorldOK, table, world
<1>3. StatusSent'
  BY <1>1, ForgetOK DEF Inv1, StatusSent, table, world
<1> QED
  BY <1>1, <1>2, <1>3, ForgetOK DEF Inv1, TypeOK, table

\* An acceptance keeps Inv1: its row names the message it has sent.
LEMMA AcceptInv1 ==
  ASSUME Inv1, NEW j \in Jobs, Accept(j)
  PROVE  Inv1'
<1> DEFINE p == [Blank EXCEPT !.status = 1]
<1>1. /\ j \notin rows
      /\ rows' = rows \cup {j}
      /\ payload' = [payload EXCEPT ![j] = p]
      /\ screen' = [screen EXCEPT ![j] = <<"progress">>]
      /\ due' = Append(due, j)
      /\ UNCHANGED <<cancel, done, lease, live, memory, backend, notes>>
      /\ unsure' \in {unsure, unsure \cup {j}} /\ faults' \in {faults, faults + 1}
  BY DEF Accept, Charge
<1>2. p \in Payload /\ p.status = 1
  BY DEF Blank, Payload, Results
<1>3. <<"progress">> \in Seq(Pictures) /\ Len(<<"progress">>) = 1
  BY DEF Pictures
<1> HIDE DEF p
<1>4. TableOK'
  BY <1>1, <1>2 DEF Inv1, TypeOK, TableOK
<1>5. MemoryOK'
  BY <1>1 DEF Inv1, TypeOK, MemoryOK, memory
<1>6. WorldOK'
  BY <1>1, <1>3 DEF Inv1, TypeOK, WorldOK
<1>7. Exclusive'
  BY <1>1 DEF Inv1, Exclusive, memory
<1>8. StatusSent'
  <2>1. ASSUME NEW k \in Jobs
        PROVE  payload'[k].status <= Len(screen'[k])
    <3>1. CASE k = j
      BY <1>1, <1>2, <1>3, <3>1 DEF Inv1, TypeOK, TableOK, WorldOK
    <3>2. CASE k # j
      BY <1>1, <3>2 DEF Inv1, TypeOK, TableOK, WorldOK, StatusSent
    <3> QED
      BY <3>1, <3>2
  <2>2. ASSUME NEW w \in Workers, pc'[w] # "idle"
        PROVE  work'[w].status <= Len(screen'[held'[w]])
    <3>1. pc[w] # "idle" /\ UNCHANGED <<work, held>>
      BY <1>1, <2>2 DEF memory
    <3>2. held[w] \in rows /\ held[w] \in Jobs /\ work[w].status <= Len(screen[held[w]])
      BY <3>1, BusyHolds
    <3>3. screen'[held[w]] = screen[held[w]]
      BY <1>1, <3>2 DEF Inv1, TypeOK, WorldOK
    <3> QED
      BY <3>1, <3>2, <3>3
  <2> QED
    BY <2>1, <2>2 DEF StatusSent
<1> QED
  BY <1>4, <1>5, <1>6, <1>7, <1>8 DEF Inv1, TypeOK

\* A message deleted by the user still counts as sent.
LEMMA DeleteMessageGrows ==
  ASSUME Inv1, NEW j \in Jobs, DeleteMessage(j)
  PROVE  Grows
<1>1. PICK m \in DOMAIN screen[j] : screen' = [screen EXCEPT ![j][m] = "deleted"]
  BY DEF DeleteMessage
<1>2. screen[j] \in Seq(Pictures) /\ "deleted" \in Pictures /\ m \in 1..Len(screen[j])
  BY <1>1 DEF Inv1, TypeOK, WorldOK, Pictures
<1>3. screen' = [screen EXCEPT ![j] = [screen[j] EXCEPT ![m] = "deleted"]]
  BY <1>1 DEF Inv1, TypeOK, WorldOK
<1>4. /\ [screen[j] EXCEPT ![m] = "deleted"] \in Seq(Pictures)
      /\ Len([screen[j] EXCEPT ![m] = "deleted"]) = Len(screen[j])
  BY <1>2, ExceptSeq
<1> QED
  BY <1>3, <1>4 DEF Grows, Inv1, TypeOK, WorldOK

\* The steps of users, time and the backend, apart from acceptance.
Outside(j) ==
  \/ Warn(j) \/ Cancel(j) \/ DeleteMessage(j) \/ BecomeDue(j)
  \/ Expire(j) \/ ExpireUnderOwner(j) \/ Transcribe(j) \/ Collect(j)

\* What happens outside the workers touches neither payloads nor copies.
LEMMA OutsideFrame ==
  ASSUME Inv1, NEW j \in Jobs, Outside(j)
  PROVE  /\ UNCHANGED <<rows, payload, done, lease, memory, notes>>
         /\ live' \subseteq live
         /\ Grows
<1>1. UNCHANGED <<rows, payload, done, lease, memory, notes>>
  BY DEF Outside, Warn, Cancel, DeleteMessage, BecomeDue, Expire, ExpireUnderOwner,
         Transcribe, Collect, table, world
<1>2. live' \subseteq live
  BY DEF Outside, Warn, Cancel, DeleteMessage, BecomeDue, Expire, ExpireUnderOwner,
         Transcribe, Collect, table
<1>3. screen' = screen \/ DeleteMessage(j) \/ screen' = Shown(j, 1, "buried")
  BY DEF Outside, Warn, Cancel, BecomeDue, Expire, ExpireUnderOwner, Transcribe,
         Collect, world
<1>4. WorldOK /\ "buried" \in Pictures
  BY DEF Inv1, TypeOK, Pictures
<1>5. Grows
  BY <1>3, <1>4, StillGrows, DeleteMessageGrows, ShownGrows
<1> QED
  BY <1>1, <1>2, <1>5

\* So it keeps Inv1.
LEMMA OutsideInv1 ==
  ASSUME Inv1, NEW j \in Jobs, Outside(j)
  PROVE  Inv1'
<1>1. /\ UNCHANGED <<rows, payload, done, lease, memory, notes>>
      /\ live' \subseteq live
      /\ Grows
  BY OutsideFrame
<1>2. due \in Seq(Jobs)
  BY DEF Inv1, TypeOK, TableOK
<1>3. due' \in Seq(Jobs)
  <2>1. Last(due, j) \in Seq(Jobs) /\ Append(due, j) \in Seq(Jobs)
    BY <1>2, LastType
  <2>2. due' \in {due, Last(due, j), Append(due, j)}
    BY DEF Outside, Warn, Cancel, DeleteMessage, BecomeDue, Expire, ExpireUnderOwner,
           Transcribe, Collect, table
  <2> QED
    BY <1>2, <2>1, <2>2
<1>4. cancel' \in [Jobs -> BOOLEAN]
  <2>1. cancel \in [Jobs -> BOOLEAN]
    BY DEF Inv1, TypeOK, TableOK
  <2>2. cancel' = cancel \/ cancel' = [cancel EXCEPT ![j] = TRUE]
    BY DEF Outside, Warn, Cancel, DeleteMessage, BecomeDue, Expire, ExpireUnderOwner,
           Transcribe, Collect, table
  <2> QED
    BY <2>1, <2>2
<1>5. TableOK'
  BY <1>1, <1>3, <1>4 DEF Inv1, TypeOK, TableOK
<1>6. backend' \in [Jobs -> Remote] /\ faults' \in Nat
  <2>1. backend \in [Jobs -> Remote] /\ faults \in Nat
    BY DEF Inv1, TypeOK, WorldOK
  <2>2. faults' = faults \/ faults' = faults + 1
    BY DEF Outside, Warn, Cancel, DeleteMessage, BecomeDue, Expire, ExpireUnderOwner,
           Transcribe, Collect, table
  <2>3. \/ backend' = backend
        \/ \E r \in Remote : backend' = [backend EXCEPT ![j] = r]
    BY DEF Outside, Warn, Cancel, DeleteMessage, BecomeDue, Expire, ExpireUnderOwner,
           Transcribe, Collect, world, Remote
  <2> QED
    BY <2>1, <2>2, <2>3
<1>7. WorldOK'
  <2>1. unsure' \subseteq Jobs
    BY DEF Outside, Warn, Cancel, DeleteMessage, BecomeDue, Expire, ExpireUnderOwner,
           Transcribe, Collect, world, Inv1, TypeOK, WorldOK
  <2> QED
    BY <1>1, <1>6, <2>1 DEF Inv1, TypeOK, WorldOK, Grows
<1>8. MemoryOK' /\ Exclusive'
  BY <1>1 DEF Inv1, TypeOK, MemoryOK, Exclusive, memory
<1>9. StatusSent'
  BY <1>1, StatusKept DEF memory
<1> QED
  BY <1>5, <1>7, <1>8, <1>9 DEF Inv1, TypeOK

\* The classification of the steps that every proof below follows.
LEMMA NextCases ==
  ASSUME Next
  PROVE  \/ \E j \in Jobs : Accept(j)
         \/ \E j \in Jobs : Outside(j)
         \/ \E w \in Workers : Claim(w)
         \/ \E w \in Workers : Progress(w)
         \/ \E w \in Workers : Save(w)
         \/ \E w \in Workers : Release(w)
         \/ \E w \in Workers : Crash(w)
         \/ UNCHANGED vars
BY Zenon DEF Next, Work, Outside, Progress, AllDone

\* Every step keeps Inv1.
LEMMA NextInv1 == Inv1 /\ [Next]_vars => Inv1'
<1> SUFFICES ASSUME Inv1, [Next]_vars PROVE Inv1'
  OBVIOUS
<1>1. CASE UNCHANGED vars
  BY <1>1 DEF Inv1, TypeOK, TableOK, MemoryOK, WorldOK, Exclusive, StatusSent, vars
<1>2. CASE Next
  BY <1>1, <1>2, NextCases, AcceptInv1, OutsideInv1, ClaimInv1, ProgressMoves,
     MovesInv1, SaveInv1, ReleaseInv1, CrashInv1
<1> QED
  BY <1>1, <1>2

\* Every variable keeps its type: in particular a queue entry is a job and a
\* recorded result is a final status of the backend or "cancelled".
THEOREM Typing == Spec => []TypeOK
<1>1. Init => Inv1
  BY InitInv1
<1>2. Inv1 /\ [Next]_vars => Inv1'
  BY NextInv1
<1>3. Inv1 => TypeOK
  BY DEF Inv1
<1> QED
  BY <1>1, <1>2, <1>3, PTL DEF Spec

-----------------------------------------------------------------------------
(***************************************************************************)
(* Fencing: the row a worker owns has not moved since it was claimed, but    *)
(* for what this worker saved.                                               *)
(***************************************************************************)
Inv2 == Inv1 /\ CopyIsRecorded /\ OwnerIsCurrent

\* What is recorded in a row stays recorded by a step.
Keeps == \A j \in rows : Extends(payload'[j], payload[j])

\* Who owns a lease is at work on a row of the table.
LEMMA OwnerIsBusy ==
  ASSUME Inv1, NEW w \in Workers, Owns(w)
  PROVE  /\ pc[w] # "idle"
         /\ held[w] \in rows
         /\ token[w] \in Tokens
BY JobAssumption DEF Inv1, TypeOK, TableOK, Exclusive, Owns

\* A row has one owner at a time.
LEMMA OneOwner ==
  ASSUME Inv1, NEW v \in Workers, NEW w \in Workers,
         Owns(v), Owns(w), held[v] = held[w]
  PROVE  v = w
<1>1. token[v] = token[w] /\ token[v] \in Tokens
  BY OwnerIsBusy DEF Owns
<1> QED
  BY <1>1, JobAssumption DEF Inv1, Exclusive

\* A step that leaves the payloads alone keeps their progress.
LEMMA SamePayloadKeeps ==
  ASSUME Inv1, payload' = payload
  PROVE  Keeps
<1>1. \A j \in rows : payload[j] \in Payload
  BY DEF Inv1, TypeOK, TableOK
<1> QED
  BY <1>1, ExtendsReflexive DEF Keeps

\* A call between Claim and Save keeps the fencing.
LEMMA LocalFencing ==
  ASSUME Inv2, NEW w \in Workers, Local(w)
  PROVE  CopyIsRecorded' /\ OwnerIsCurrent' /\ Keeps
<1>1. Inv1 /\ payload' = payload /\ UNCHANGED <<lease, live, held, token>>
  BY DEF Inv2, Local, table
<1>2. PICK p \in Payload, place \in Places :
        /\ pc[w] # "idle"
        /\ pc' = [pc EXCEPT ![w] = place]
        /\ work' = [work EXCEPT ![w] = p]
        /\ Extends(p, work[w])
        /\ place \in {"step", "deliver"} => pc[w] = "step" /\ p = work[w]
  BY DEF Local
<1>3. held[w] \in Jobs /\ work[w] \in Payload /\ payload[held[w]] \in Payload
  BY <1>1, <1>2, BusyHolds DEF Inv1, TypeOK, TableOK
<1>4. /\ pc'[w] = place /\ work'[w] = p
      /\ \A v \in Workers \ {w} : pc'[v] = pc[v] /\ work'[v] = work[v]
  BY <1>1, <1>2 DEF Inv1, TypeOK, MemoryOK
<1>5. CopyIsRecorded'
  <2> SUFFICES ASSUME NEW v \in Workers, pc'[v] \in {"step", "deliver"}
               PROVE  Extends(payload[held[v]], work'[v])
    BY <1>1 DEF CopyIsRecorded
  <2> QED
    BY <1>2, <1>4 DEF Inv2, CopyIsRecorded
<1>6. OwnerIsCurrent'
  <2> SUFFICES ASSUME NEW v \in Workers, Owns(v)
               PROVE  Extends(work'[v], payload[held[v]])
    BY <1>1 DEF OwnerIsCurrent, Owns
  <2>1. Extends(work[v], payload[held[v]])
    BY DEF Inv2, OwnerIsCurrent
  <2> QED
    BY <1>2, <1>3, <1>4, <2>1, ExtendsTransitive
<1> QED
  BY <1>1, <1>5, <1>6, SamePayloadKeeps

\* A claim keeps the fencing: its copy is the row, and it takes the lease away.
LEMMA ClaimFencing ==
  ASSUME Inv2, NEW w \in Workers, Claim(w)
  PROVE  CopyIsRecorded' /\ OwnerIsCurrent' /\ Keeps
<1>1. PICK j \in Jobs, t \in Fresh :
        /\ lease' = [lease EXCEPT ![j] = t]
        /\ live' = live \cup {j}
        /\ \/ /\ pc' = [pc EXCEPT ![w] = "step"]
              /\ held' = [held EXCEPT ![w] = j]
              /\ token' = [token EXCEPT ![w] = t]
              /\ work' = [work EXCEPT ![w] = payload[j]]
           \/ UNCHANGED memory
  BY DEF Claim
<1>2. Inv1 /\ payload' = payload /\ pc[w] = "idle"
  BY DEF Claim, Inv2
<1>3. \A v \in Workers : token[v] # t
  BY <1>1 DEF Fresh
<1>4. payload[j] \in Payload /\ Extends(payload[j], payload[j])
  BY <1>2, ExtendsReflexive DEF Inv1, TypeOK, TableOK
<1>5. ASSUME NEW v \in Workers,
             pc'[v] = pc[v], held'[v] = held[v], token'[v] = token[v], work'[v] = work[v]
      PROVE  /\ pc'[v] \in {"step", "deliver"} => Extends(payload'[held'[v]], work'[v])
             /\ Owns(v)' => Extends(work'[v], payload'[held'[v]])
  <2>1. pc'[v] \in {"step", "deliver"} => Extends(payload'[held'[v]], work'[v])
    BY <1>2, <1>5 DEF Inv2, CopyIsRecorded
  <2>2. ASSUME Owns(v)'
        PROVE  Owns(v)
    <3>1. held[v] \in live' /\ lease'[held[v]] = token[v]
      BY <1>5, <2>2 DEF Owns
    <3>2. held[v] # j
      BY <1>1, <1>2, <1>3, <3>1 DEF Inv1, TypeOK, TableOK
    <3> QED
      BY <1>1, <1>2, <3>1, <3>2 DEF Owns, Inv1, TypeOK, TableOK
  <2> QED
    BY <1>2, <1>5, <2>1, <2>2 DEF Inv2, OwnerIsCurrent
<1>6. ASSUME NEW v \in Workers
      PROVE  /\ pc'[v] \in {"step", "deliver"} => Extends(payload'[held'[v]], work'[v])
             /\ Owns(v)' => Extends(work'[v], payload'[held'[v]])
  <2>1. CASE UNCHANGED memory
    BY <1>5, <2>1 DEF memory
  <2>2. CASE ~UNCHANGED memory /\ v = w
    <3>1. held'[v] = j /\ work'[v] = payload[j]
      BY <1>1, <1>2, <2>2 DEF Inv1, TypeOK, MemoryOK
    <3> QED
      BY <1>2, <1>4, <3>1
  <2>3. CASE ~UNCHANGED memory /\ v # w
    <3>1. pc'[v] = pc[v] /\ held'[v] = held[v] /\ token'[v] = token[v] /\ work'[v] = work[v]
      BY <1>1, <1>2, <2>3 DEF Inv1, TypeOK, MemoryOK
    <3> QED
      BY <1>5, <3>1
  <2> QED
    BY <2>1, <2>2, <2>3
<1>7. CopyIsRecorded' /\ OwnerIsCurrent'
  BY <1>6 DEF CopyIsRecorded, OwnerIsCurrent
<1> QED
  BY <1>2, <1>7, SamePayloadKeeps

\* A row is written by its owner, whose copy extends it.
LEMMA WriteKeeps ==
  ASSUME Inv2, NEW w \in Workers, Owns(w),
         payload' = [payload EXCEPT ![held[w]] = work[w]]
  PROVE  /\ Keeps
         /\ payload'[held[w]] = work[w]
         /\ \A v \in Workers : pc[v] \in {"step", "deliver"} =>
               Extends(payload'[held[v]], work[v])
<1>1. Inv1 /\ pc[w] # "idle"
  BY OwnerIsBusy DEF Inv2
<1>2. held[w] \in Jobs /\ work[w] \in Payload /\ payload \in [Jobs -> Payload]
  BY <1>1, BusyHolds DEF Inv1, TypeOK, TableOK
<1>3. Extends(work[w], payload[held[w]])
  BY DEF Inv2, OwnerIsCurrent
<1>4. Keeps
  <2> SUFFICES ASSUME NEW j \in rows PROVE Extends(payload'[j], payload[j])
    BY DEF Keeps
  <2>1. j \in Jobs
    BY <1>1 DEF Inv1, TypeOK, TableOK
  <2> QED
    BY <1>2, <1>3, <2>1, ExtendsReflexive
<1>5. ASSUME NEW v \in Workers, pc[v] \in {"step", "deliver"}
      PROVE  Extends(payload'[held[v]], work[v])
  <2>1. held[v] \in Jobs /\ work[v] \in Payload
    BY <1>1, <1>5, BusyHolds
  <2>2. Extends(payload[held[v]], work[v])
    BY <1>5 DEF Inv2, CopyIsRecorded
  <2> QED
    BY <1>2, <1>3, <2>1, <2>2, ExtendsTransitive
<1> QED
  BY <1>2, <1>4, <1>5

\* A save keeps the fencing: only the owner writes, and its copy continues the row.
LEMMA SaveFencing ==
  ASSUME Inv2, NEW w \in Workers, Save(w)
  PROVE  CopyIsRecorded' /\ OwnerIsCurrent' /\ Keeps
<1>1. Inv1 /\ pc[w] # "idle" /\ UNCHANGED <<lease, live>>
  BY DEF Save, Inv2
<1>2. \/ payload' = payload
      \/ Owns(w) /\ payload' = [payload EXCEPT ![held[w]] = work[w]]
  BY DEF Save
<1>3. /\ UNCHANGED <<held, token, work>>
      /\ pc'[w] \in {"release", "reedit"}
      /\ \A v \in Workers \ {w} : pc'[v] = pc[v]
  BY <1>1 DEF Save, Return, Goto, Inv1, TypeOK, MemoryOK
<1>4. work[w] \in Payload /\ held[w] \in Jobs /\ payload \in [Jobs -> Payload]
  BY <1>1, BusyHolds DEF Inv1, TypeOK, TableOK
<1>5. CASE payload' = payload
  <2>1. CopyIsRecorded'
    BY <1>3, <1>5 DEF Inv2, CopyIsRecorded
  <2>2. OwnerIsCurrent'
    BY <1>1, <1>3, <1>5 DEF Inv2, OwnerIsCurrent, Owns
  <2> QED
    BY <1>1, <1>5, <2>1, <2>2, SamePayloadKeeps
<1>6. CASE Owns(w) /\ payload' = [payload EXCEPT ![held[w]] = work[w]]
  <2>1. /\ Keeps
        /\ payload'[held[w]] = work[w]
        /\ \A v \in Workers : pc[v] \in {"step", "deliver"} =>
              Extends(payload'[held[v]], work[v])
    BY <1>6, WriteKeeps
  <2>2. CopyIsRecorded'
    BY <1>3, <2>1 DEF CopyIsRecorded
  <2>3. ASSUME NEW v \in Workers, Owns(v)
        PROVE  Extends(work[v], payload'[held[v]])
    <3>1. CASE held[v] = held[w]
      <4>1. v = w
        BY <1>1, <1>6, <2>3, <3>1, OneOwner
      <4> QED
        BY <1>4, <2>1, <4>1, ExtendsReflexive
    <3>2. CASE held[v] # held[w]
      <4>1. payload'[held[v]] = payload[held[v]]
        BY <1>1, <1>4, <1>6, <2>3, <3>2 DEF Owns, Inv1, TypeOK, TableOK
      <4> QED
        BY <2>3, <4>1 DEF Inv2, OwnerIsCurrent
    <3> QED
      BY <3>1, <3>2
  <2>4. OwnerIsCurrent'
    BY <1>1, <1>3, <2>3 DEF OwnerIsCurrent, Owns
  <2> QED
    BY <2>1, <2>2, <2>4
<1> QED
  BY <1>2, <1>5, <1>6

\* A worker that forgets its job leaves the copies of the others as they were.
LEMMA ForgetFrame ==
  ASSUME Inv1, NEW w \in Workers, Forget(w), NEW v \in Workers
  PROVE  /\ pc'[v] \in {"step", "deliver"} =>
              pc'[v] = pc[v] /\ held'[v] = held[v] /\ work'[v] = work[v]
         /\ token'[v] # NoToken =>
              v # w /\ token'[v] = token[v] /\ held'[v] = held[v] /\ work'[v] = work[v]
<1>1. CASE v = w
  BY <1>1 DEF Forget, Inv1, TypeOK, MemoryOK
<1>2. CASE v # w
  BY <1>2 DEF Forget, Inv1, TypeOK, MemoryOK
<1> QED
  BY <1>1, <1>2

\* A release keeps the fencing, for the same reason.
LEMMA ReleaseFencing ==
  ASSUME Inv2, NEW w \in Workers, Release(w)
  PROVE  CopyIsRecorded' /\ OwnerIsCurrent' /\ Keeps
<1>1. Inv1 /\ pc[w] # "idle" /\ Forget(w) /\ Inv1'
  BY ReleaseInv1 DEF Release, Inv2
<1>2. \/ UNCHANGED <<payload, lease, live>>
      \/ /\ Owns(w)
         /\ payload' = [payload EXCEPT ![held[w]] = work[w]]
         /\ lease' = [lease EXCEPT ![held[w]] = NoToken]
         /\ live' = live \ {held[w]}
  BY DEF Release
<1>3. held[w] \in Jobs /\ payload \in [Jobs -> Payload] /\ lease \in [Jobs -> Tokens \cup {NoToken}]
  BY <1>1, BusyHolds DEF Inv1, TypeOK, TableOK
<1>4. CASE UNCHANGED <<payload, lease, live>>
  <2>1. CopyIsRecorded'
    BY <1>1, <1>4, ForgetFrame DEF Inv2, CopyIsRecorded
  <2>2. ASSUME NEW v \in Workers, Owns(v)'
        PROVE  Extends(work'[v], payload'[held'[v]])
    <3>1. token'[v] # NoToken
      BY <1>1, <2>2, JobAssumption DEF Inv1, TypeOK, TableOK, Exclusive, Owns
    <3>2. held'[v] = held[v] /\ work'[v] = work[v] /\ token'[v] = token[v]
      BY <1>1, <3>1, ForgetFrame
    <3> QED
      BY <1>4, <2>2, <3>2 DEF Inv2, OwnerIsCurrent, Owns
  <2> QED
    BY <1>1, <1>4, <2>1, <2>2, SamePayloadKeeps DEF OwnerIsCurrent
<1>5. CASE /\ Owns(w)
           /\ payload' = [payload EXCEPT ![held[w]] = work[w]]
           /\ lease' = [lease EXCEPT ![held[w]] = NoToken]
           /\ live' = live \ {held[w]}
  <2>1. /\ Keeps
        /\ \A v \in Workers : pc[v] \in {"step", "deliver"} =>
              Extends(payload'[held[v]], work[v])
    BY <1>5, WriteKeeps
  <2>2. CopyIsRecorded'
    BY <1>1, <2>1, ForgetFrame DEF CopyIsRecorded
  <2>3. ASSUME NEW v \in Workers, Owns(v)'
        PROVE  Extends(work'[v], payload'[held'[v]])
    <3>1. token'[v] # NoToken
      BY <1>1, <2>3, JobAssumption DEF Inv1, TypeOK, TableOK, Exclusive, Owns
    <3>2. held'[v] = held[v] /\ work'[v] = work[v] /\ token'[v] = token[v]
      BY <1>1, <3>1, ForgetFrame
    <3>3. held[v] # held[w] /\ held[v] \in live /\ held[v] \in Jobs
      BY <1>1, <1>5, <2>3, <3>2 DEF Owns, Inv1, TypeOK, TableOK
    <3>4. payload'[held[v]] = payload[held[v]] /\ lease'[held[v]] = lease[held[v]]
      BY <1>3, <1>5, <3>3
    <3> QED
      BY <2>3, <3>2, <3>3, <3>4 DEF Inv2, OwnerIsCurrent, Owns
  <2> QED
    BY <2>1, <2>2, <2>3 DEF OwnerIsCurrent
<1> QED
  BY <1>2, <1>4, <1>5

\* A crash keeps the fencing.
LEMMA CrashFencing ==
  ASSUME Inv2, NEW w \in Workers, Crash(w)
  PROVE  CopyIsRecorded' /\ OwnerIsCurrent' /\ Keeps
<1>1. Inv1 /\ Forget(w) /\ Inv1' /\ UNCHANGED <<payload, lease, live>>
  BY CrashInv1 DEF Crash, Inv2, table
<1>2. CopyIsRecorded'
  BY <1>1, ForgetFrame DEF Inv2, CopyIsRecorded
<1>3. ASSUME NEW v \in Workers, Owns(v)'
      PROVE  Extends(work'[v], payload'[held'[v]])
  <2>1. token'[v] # NoToken
    BY <1>1, <1>3, JobAssumption DEF Inv1, TypeOK, TableOK, Exclusive, Owns
  <2>2. held'[v] = held[v] /\ work'[v] = work[v] /\ token'[v] = token[v]
    BY <1>1, <2>1, ForgetFrame
  <2> QED
    BY <1>1, <1>3, <2>2 DEF Inv2, OwnerIsCurrent, Owns
<1> QED
  BY <1>1, <1>2, <1>3, SamePayloadKeeps DEF OwnerIsCurrent

\* What happens outside the workers keeps the fencing.
LEMMA OutsideFencing ==
  ASSUME Inv2, NEW j \in Jobs, Outside(j)
  PROVE  CopyIsRecorded' /\ OwnerIsCurrent' /\ Keeps
<1>1. Inv1 /\ UNCHANGED <<payload, lease, memory>> /\ live' \subseteq live
  BY OutsideFrame DEF Inv2
<1>2. CopyIsRecorded'
  BY <1>1 DEF Inv2, CopyIsRecorded, memory
<1>3. OwnerIsCurrent'
  BY <1>1 DEF Inv2, OwnerIsCurrent, Owns, memory
<1> QED
  BY <1>1, <1>2, <1>3, SamePayloadKeeps

\* An acceptance keeps the fencing: nobody holds a row that was not there.
LEMMA AcceptFencing ==
  ASSUME Inv2, NEW j \in Jobs, Accept(j)
  PROVE  CopyIsRecorded' /\ OwnerIsCurrent' /\ Keeps
<1>1. /\ Inv1
      /\ j \notin rows
      /\ payload' = [payload EXCEPT ![j] = [Blank EXCEPT !.status = 1]]
      /\ UNCHANGED <<lease, live, memory>>
  BY DEF Accept, Inv2
<1>2. rows \subseteq Jobs /\ payload \in [Jobs -> Payload]
  BY <1>1 DEF Inv1, TypeOK, TableOK
<1>3. \A k \in rows : payload'[k] = payload[k] /\ payload[k] \in Payload
  BY <1>1, <1>2
<1>4. Keeps
  BY <1>3, ExtendsReflexive DEF Keeps
<1>5. CopyIsRecorded'
  <2> SUFFICES ASSUME NEW w \in Workers, pc[w] \in {"step", "deliver"}
               PROVE  Extends(payload'[held[w]], work[w])
    BY <1>1 DEF CopyIsRecorded, memory
  <2>1. held[w] \in rows
    BY <1>1, BusyHolds
  <2> QED
    BY <1>3, <2>1 DEF Inv2, CopyIsRecorded
<1>6. OwnerIsCurrent'
  <2> SUFFICES ASSUME NEW w \in Workers, Owns(w)
               PROVE  Extends(work[w], payload'[held[w]])
    BY <1>1 DEF OwnerIsCurrent, Owns, memory
  <2>1. held[w] \in rows
    BY <1>1, OwnerIsBusy
  <2> QED
    BY <1>3, <2>1 DEF Inv2, OwnerIsCurrent
<1> QED
  BY <1>4, <1>5, <1>6

\* At the start nobody holds anything.
LEMMA InitInv2 == Init => Inv2
<1> SUFFICES ASSUME Init PROVE Inv2
  OBVIOUS
<1>1. Inv1 /\ \A w \in Workers : pc[w] = "idle"
  BY InitInv1 DEF Init
<1>2. CopyIsRecorded
  BY <1>1 DEF CopyIsRecorded
<1>3. OwnerIsCurrent
  BY <1>1, OwnerIsBusy DEF OwnerIsCurrent
<1> QED
  BY <1>1, <1>2, <1>3 DEF Inv2

\* Every step keeps the fencing, and the progress of every row.
LEMMA NextInv2 == Inv2 /\ [Next]_vars => Inv2' /\ Keeps
<1> SUFFICES ASSUME Inv2, [Next]_vars PROVE Inv2' /\ Keeps
  OBVIOUS
<1>1. Inv1 /\ Inv1'
  BY NextInv1 DEF Inv2
<1>2. CASE UNCHANGED vars
  <2>1. CopyIsRecorded' /\ OwnerIsCurrent' /\ payload' = payload
    BY <1>2 DEF Inv2, CopyIsRecorded, OwnerIsCurrent, Owns, vars
  <2> QED
    BY <1>1, <2>1, SamePayloadKeeps DEF Inv2
<1>3. CASE ~UNCHANGED vars
  <2>1. CopyIsRecorded' /\ OwnerIsCurrent' /\ Keeps
    BY <1>1, <1>3, NextCases, AcceptFencing, OutsideFencing, ClaimFencing,
       ProgressMoves, LocalFencing, SaveFencing, ReleaseFencing, CrashFencing
       DEF Moves
  <2> QED
    BY <1>1, <2>1 DEF Inv2
<1> QED
  BY <1>2, <1>3

\* At any time, a row under lease is worked on by the one worker that carries
\* its token, on a copy that has all the row has; and a worker that has been
\* overtaken never holds, before it changes its copy, progress the row lacks.
THEOREM Fenced == Spec => []Fencing
<1>1. Init => Inv2
  BY InitInv2
<1>2. Inv2 /\ [Next]_vars => Inv2'
  BY NextInv2
<1>3. Inv2 => Fencing
  BY DEF Inv2, Inv1, Fencing
<1> QED
  BY <1>1, <1>2, <1>3, PTL DEF Spec

\* No step takes back what a row has recorded: the guard of Save and Release is
\* enough, whatever stalls, crashes and lost replies the workers go through.
THEOREM ProgressIsKept == Spec => ProgressKept
<1>1. Init => Inv2
  BY InitInv2
<1>2. Inv2 /\ [Next]_vars => Inv2'
  BY NextInv2
<1>3. Inv2 /\ [Next]_vars => [\A j \in rows : Extends(payload'[j], payload[j])]_vars
  BY NextInv2 DEF Keeps
<1> QED
  BY <1>1, <1>2, <1>3, PTL DEF Spec, ProgressKept

-----------------------------------------------------------------------------
(***************************************************************************)
(* What the workers do outside the table, judged by what the table records. *)
(***************************************************************************)

\* Nothing is done for a message that has no row.
Untouched == \A j \in Jobs \ rows : backend[j] = "absent" /\ j \notin Written

Inv3 == Inv2 /\ Untouched /\ AckAfterResult /\ WrittenHasText

\* How one step may change the backend and the notes.
BackendMoves ==
  \A j \in Jobs :
    \/ backend'[j] = backend[j]
    \/ backend[j] # "absent" /\ backend'[j] \notin {"absent", "acked", "gone"}
    \/ backend[j] \in {"acked", "gone"}
    \/ /\ backend'[j] \notin {"acked", "gone"}
       /\ \E w \in Workers : pc[w] # "idle" /\ held[w] = j
    \/ \E w \in Workers : At(w, "ack") /\ held[w] = j

NotesMove ==
  \/ notes' = notes
  \/ \E w \in Workers : /\ pc[w] = "deliver"
                        /\ work[w].result = "text"
                        /\ notes' = AppendOnce(held[w])

WorldMoves == BackendMoves /\ NotesMove /\ rows \subseteq rows'

\* A step that touches neither backend nor notes.
LEMMA StillMoves ==
  ASSUME UNCHANGED <<backend, notes, rows>>
  PROVE  WorldMoves
BY DEF WorldMoves, BackendMoves, NotesMove

\* Only four of a worker's calls act on the backend or the notes.
LEMMA CallMoves ==
  ASSUME Inv1, NEW w \in Workers,
         CancelRemote(w) \/ Submit(w) \/ Ack(w) \/ AppendNote(w)
  PROVE  WorldMoves
<1>1. pc[w] # "idle"
  BY DEF CancelRemote, Submit, Ack, AppendNote, At
<1>2. held[w] \in Jobs /\ backend \in [Jobs -> Remote]
  BY <1>1, BusyHolds DEF Inv1, TypeOK, WorldOK
<1>3. CASE CancelRemote(w)
  <2>1. rows' = rows /\ notes' = notes
    BY <1>3 DEF CancelRemote, table
  <2>2. \/ backend' = backend
        \/ /\ backend[held[w]] = "active"
           /\ \E r \in {"active", "failed"} : backend' = [backend EXCEPT ![held[w]] = r]
    BY <1>3 DEF CancelRemote
  <2>3. BackendMoves
    BY <1>2, <2>2 DEF BackendMoves
  <2> QED
    BY <2>1, <2>3 DEF WorldMoves, NotesMove
<1>4. CASE Submit(w)
  <2>1. rows' = rows /\ notes' = notes
    BY <1>4 DEF Submit, table
  <2>2. \/ backend' = backend
        \/ backend' = [backend EXCEPT ![held[w]] = Submitted(@)]
    BY <1>4 DEF Submit
  <2>3. BackendMoves
    BY <1>1, <1>2, <2>2 DEF BackendMoves, Submitted
  <2> QED
    BY <2>1, <2>3 DEF WorldMoves, NotesMove
<1>5. CASE Ack(w)
  <2>1. rows' = rows /\ notes' = notes /\ At(w, "ack")
    BY <1>5 DEF Ack, table
  <2>2. \/ backend' = backend
        \/ backend' = [backend EXCEPT ![held[w]] = "acked"]
    BY <1>5 DEF Ack
  <2>3. BackendMoves
    BY <1>2, <2>1, <2>2 DEF BackendMoves
  <2> QED
    BY <2>1, <2>3 DEF WorldMoves, NotesMove
<1>6. CASE AppendNote(w)
  <2>1. rows' = rows /\ backend' = backend
    BY <1>6 DEF AppendNote, table
  <2>2. NotesMove
    BY <1>6 DEF AppendNote, ToAppend, NotesMove
  <2> QED
    BY <2>1, <2>2 DEF WorldMoves, BackendMoves
<1> QED
  BY <1>3, <1>4, <1>5, <1>6

\* What any step may do to the backend and to the notes.
LEMMA NextWorldMoves ==
  ASSUME Inv1, [Next]_vars
  PROVE  WorldMoves
<1>1. ASSUME NEW w \in Workers, Progress(w)
      PROVE  WorldMoves
  <2>1. CASE CancelRemote(w) \/ Submit(w) \/ Ack(w) \/ AppendNote(w)
    BY <2>1, CallMoves
  <2>2. CASE ~(CancelRemote(w) \/ Submit(w) \/ Ack(w) \/ AppendNote(w))
    <3>1. UNCHANGED <<backend, notes, rows>>
      BY <1>1, <2>2 DEF Progress, SendStatus, Intend, Poll, CheckFront, Prepare,
         EditResult, ReplaceMessage, EditReplacement, table, world
    <3> QED
      BY <3>1, StillMoves
  <2> QED
    BY <2>1, <2>2
<1>2. ASSUME NEW w \in Workers, Claim(w) \/ Save(w) \/ Release(w) \/ Crash(w)
      PROVE  WorldMoves
  <2>1. UNCHANGED <<backend, notes, rows>>
    BY <1>2 DEF Claim, Save, Release, Crash, table, world
  <2> QED
    BY <2>1, StillMoves
<1>3. ASSUME NEW j \in Jobs, Accept(j)
      PROVE  WorldMoves
  BY <1>3 DEF Accept, WorldMoves, BackendMoves, NotesMove
<1>4. ASSUME NEW j \in Jobs, Outside(j)
      PROVE  WorldMoves
  <2>1. UNCHANGED <<notes, rows>> /\ backend \in [Jobs -> Remote]
    BY <1>4, OutsideFrame DEF Inv1, TypeOK, WorldOK
  <2>2. \/ backend' = backend
        \/ backend[j] = "active" /\ \E r \in {"text", "empty", "failed"} :
                                       backend' = [backend EXCEPT ![j] = r]
        \/ backend[j] = "acked" /\ backend' = [backend EXCEPT ![j] = "gone"]
    BY <1>4 DEF Outside, Warn, Cancel, DeleteMessage, BecomeDue, Expire,
       ExpireUnderOwner, Transcribe, Collect, world
  <2>3. BackendMoves
    BY <2>1, <2>2 DEF BackendMoves
  <2> QED
    BY <2>1, <2>3 DEF WorldMoves, NotesMove
<1>5. CASE UNCHANGED vars
  BY <1>5, StillMoves DEF vars
<1>6. CASE Next
  BY <1>1, <1>2, <1>3, <1>4, <1>5, <1>6, NextCases
<1> QED
  BY <1>5, <1>6

\* What a worker reads in its copy before it changes it, the row has as well.
LEMMA CopyRead ==
  ASSUME Inv2, NEW w \in Workers, pc[w] \in {"step", "deliver"},
         work[w].result # "none"
  PROVE  /\ held[w] \in rows
         /\ payload[held[w]].result = work[w].result
BY BusyHolds DEF Inv2, CopyIsRecorded, Extends

\* A recorded result stays.
LEMMA ResultStays ==
  ASSUME Keeps, NEW j \in rows, payload[j].result # "none"
  PROVE  payload'[j].result = payload[j].result
BY DEF Keeps, Extends

\* Appending once adds one job at most.
LEMMA AppendOnceProperties ==
  ASSUME NEW j \in Jobs, notes \in Seq(Jobs), notes' = AppendOnce(j)
  PROVE  Written' \subseteq Written \cup {j}
<1>1. CASE j \in Written
  BY <1>1 DEF AppendOnce, Written
<1>2. CASE j \notin Written
  <2>1. notes' = Append(notes, j)
    BY <1>2 DEF AppendOnce
  <2>2. /\ Len(notes') = Len(notes) + 1
        /\ \A i \in 1..Len(notes) : notes'[i] = notes[i]
        /\ notes'[Len(notes) + 1] = j
    BY <2>1
  <2>3. DOMAIN notes' = 1..(Len(notes) + 1) /\ DOMAIN notes = 1..Len(notes) /\ Len(notes) \in Nat
    BY <2>1
  <2> QED
    BY <2>2, <2>3 DEF Written
<1> QED
  BY <1>1, <1>2

\* At the start nothing is written, uploaded or acknowledged.
LEMMA InitInv3 == Init => Inv3
<1> SUFFICES ASSUME Init PROVE Inv3
  OBVIOUS
<1>1. Inv2 /\ notes = <<>> /\ backend = [j \in Jobs |-> "absent"]
  BY InitInv2 DEF Init
<1>2. Written = {}
  BY <1>1 DEF Written
<1> QED
  BY <1>1, <1>2 DEF Inv3, Untouched, AckAfterResult, WrittenHasText

\* Every step keeps what is said of notes and acknowledgements.
LEMMA NextInv3 == Inv3 /\ [Next]_vars => Inv3'
<1> SUFFICES ASSUME Inv3, [Next]_vars PROVE Inv3'
  OBVIOUS
<1>1. Inv2 /\ Inv2' /\ Keeps /\ Inv1
  BY NextInv2 DEF Inv3, Inv2
<1>2. BackendMoves /\ NotesMove /\ rows \subseteq rows'
  BY <1>1, NextWorldMoves DEF WorldMoves
<1>3. rows \subseteq Jobs /\ rows' \subseteq Jobs /\ notes \in Seq(Jobs)
  BY <1>1 DEF Inv2, Inv1, TypeOK, TableOK, WorldOK
<1>4. \A j \in Written' : j \in Written \/ (j \in rows /\ payload[j].result = "text")
  <2>1. CASE notes' = notes
    BY <2>1 DEF Written
  <2>2. CASE notes' # notes
    <3>1. PICK w \in Workers : /\ pc[w] = "deliver"
                               /\ work[w].result = "text"
                               /\ notes' = AppendOnce(held[w])
      BY <1>2, <2>2 DEF NotesMove
    <3>2. held[w] \in rows /\ payload[held[w]].result = "text"
      BY <1>1, <3>1, CopyRead
    <3>3. Written' \subseteq Written \cup {held[w]}
      BY <1>3, <3>1, <3>2, AppendOnceProperties
    <3> QED
      BY <3>2, <3>3
  <2> QED
    BY <2>1, <2>2
<1>5. \A j \in Written : j \in rows
  BY <1>3 DEF Inv3, Untouched, Written
<1>6. WrittenHasText'
  <2> SUFFICES ASSUME NEW j \in Written' PROVE payload'[j].result = "text"
    BY DEF WrittenHasText
  <2>1. j \in rows /\ payload[j].result = "text"
    BY <1>4, <1>5 DEF Inv3, WrittenHasText
  <2> QED
    BY <1>1, <2>1, ResultStays
<1>7. AckAfterResult'
  <2> SUFFICES ASSUME NEW j \in Jobs, backend'[j] \in {"acked", "gone"}
               PROVE  payload'[j].result # "none"
    BY DEF AckAfterResult
  <2>1. j \in rows /\ payload[j].result # "none"
    <3>1. CASE backend[j] \in {"acked", "gone"}
      BY <3>1 DEF Inv3, AckAfterResult, Untouched
    <3>2. CASE \E w \in Workers : At(w, "ack") /\ held[w] = j
      <4>1. PICK w \in Workers : At(w, "ack") /\ held[w] = j
        BY <3>2
      <4>2. pc[w] = "step" /\ work[w].result # "none"
        BY <4>1 DEF At, Stage
      <4> QED
        BY <1>1, <4>1, <4>2, CopyRead
    <3> QED
      BY <1>2, <3>1, <3>2 DEF BackendMoves
  <2> QED
    BY <1>1, <2>1, ResultStays
<1>8. Untouched'
  <2> SUFFICES ASSUME NEW j \in Jobs, j \notin rows'
               PROVE  backend'[j] = "absent" /\ j \notin Written'
    BY DEF Untouched
  <2>1. j \notin rows /\ backend[j] = "absent"
    BY <1>2 DEF Inv3, Untouched
  <2>2. \A w \in Workers : pc[w] # "idle" => held[w] # j
    BY <1>1, <2>1, BusyHolds
  <2>3. backend'[j] = "absent"
    BY <1>2, <2>1, <2>2 DEF BackendMoves, At
  <2> QED
    BY <1>4, <1>5, <2>1, <2>3
<1> QED
  BY <1>1, <1>4, <1>6, <1>7, <1>8 DEF Inv3

\* The backend is told to forget a transcription only when the table has it.
THEOREM AckIsAfterResult == Spec => []AckAfterResult
<1>1. Init => Inv3
  BY InitInv3
<1>2. Inv3 /\ [Next]_vars => Inv3'
  BY NextInv3
<1>3. Inv3 => AckAfterResult
  BY DEF Inv3
<1> QED
  BY <1>1, <1>2, <1>3, PTL DEF Spec

\* A note holds only the text of jobs whose transcription is recorded, not of
\* those that were cancelled, failed or heard nothing.
THEOREM WrittenFollowsText == Spec => []WrittenHasText
<1>1. Init => Inv3
  BY InitInv3
<1>2. Inv3 /\ [Next]_vars => Inv3'
  BY NextInv3
<1>3. Inv3 => WrittenHasText
  BY DEF Inv3
<1> QED
  BY <1>1, <1>2, <1>3, PTL DEF Spec

-----------------------------------------------------------------------------
(***************************************************************************)
(* Cancellation.                                                            *)
(***************************************************************************)

\* After a press that no worker has missed, whoever claims the job knows of it and
\* has no text for it.
Stopped(j) ==
  /\ cancel[j]
  /\ j \notin Written
  /\ payload[j].result # "text"
  /\ \A w \in Workers : pc[w] # "idle" /\ held[w] = j => snap[w] /\ work[w].result # "text"

\* A worker that knows of the press does not poll for a transcription.
LEMMA NoPoll ==
  ASSUME NEW w \in Workers, snap[w], work[w].result = "none"
  PROVE  ~At(w, "poll")
BY DEF At, Stage

\* A copy gets the result "text" in Poll alone.
LEMMA TextIsPolled ==
  ASSUME Inv1, NEW w \in Workers, Progress(w), work'[w].result = "text",
         work[w].result # "text"
  PROVE  At(w, "poll") /\ work[w].result = "none"
<1>1. /\ work \in [Workers -> Payload] /\ pc[w] # "idle"
      /\ work[w] \in Payload
  BY ProgressMoves, BusyHolds DEF Moves, Local, Inv1, TypeOK, MemoryOK
<1>2. CASE Poll(w)
  BY <1>1, <1>2 DEF Poll, At, Stage
<1>3. CASE SendStatus(w) \/ CancelRemote(w) \/ Intend(w) \/ Submit(w) \/ Ack(w)
  <2>1. \E p \in Payload : p.result # "text" /\ (work' = work \/ work' = [work EXCEPT ![w] = p])
    BY <1>1, <1>3 DEF SendStatus, CancelRemote, Intend, Submit, Ack, Step, Checkpoint, Return,
       Payload, Results
  <2> QED
    BY <1>1, <2>1
<1>4. CASE CheckFront(w) \/ EditResult(w) \/ EditReplacement(w)
  <2>1. work' = work
    BY <1>4 DEF CheckFront, EditResult, EditReplacement, Goto, Return
  <2> QED
    BY <2>1
<1>5. CASE AppendNote(w) \/ Prepare(w)
  BY <1>1, <1>5 DEF AppendNote, Prepare, ToAppend, ToPrepare
<1>6. CASE ReplaceMessage(w)
  <2>1. \/ work' = work
        \/ work' = [work EXCEPT ![w].status = Len(screen[held[w]]) + 1]
    BY <1>6 DEF ReplaceMessage, Return
  <2>2. work'[w].result = work[w].result
    BY <1>1, <2>1 DEF Payload
  <2> QED
    BY <2>2
<1> QED
  BY <1>2, <1>3, <1>4, <1>5, <1>6 DEF Progress

\* What is said of a worker and a cancelled job it may hold.
Heeds(w, j) == pc[w] # "idle" /\ held[w] = j => snap[w] /\ work[w].result # "text"

\* A call of a worker gets no text for a job whose cancellation it has read.
LEMMA ProgressHeeds ==
  ASSUME Inv1, NEW w \in Workers, Progress(w), NEW j \in Jobs,
         \A v \in Workers : Heeds(v, j)
  PROVE  \A v \in Workers : Heeds(v, j)'
<1>1. /\ pc[w] # "idle" /\ UNCHANGED <<held, snap>>
      /\ \A v \in Workers : v # w => pc'[v] = pc[v] /\ work'[v] = work[v]
  BY ProgressMoves DEF Moves, Local, Inv1, TypeOK, MemoryOK
<1>2. ASSUME held[w] = j PROVE work'[w].result # "text"
  <2>1. snap[w] /\ work[w].result # "text"
    BY <1>1, <1>2 DEF Heeds
  <2> QED
    BY <2>1, TextIsPolled, NoPoll
<1> QED
  BY <1>1, <1>2 DEF Heeds

\* A cancelled job stays without a text.
LEMMA StoppedStays ==
  ASSUME Inv3, [Next]_vars, NEW j \in Jobs, Stopped(j)
  PROVE  Stopped(j)'
<1>1. /\ Inv1 /\ NotesMove /\ payload \in [Jobs -> Payload]
      /\ cancel \in [Jobs -> BOOLEAN] /\ done \in [Jobs -> BOOLEAN]
      /\ \A w \in Workers : Heeds(w, j)
  BY NextWorldMoves DEF WorldMoves, Inv3, Inv2, Inv1, TypeOK, TableOK, Stopped, Heeds
<1>2. j \notin Written'
  <2>1. CASE notes' = notes
    BY <2>1 DEF Written, Stopped
  <2>2. CASE notes' # notes
    <3>1. PICK w \in Workers : /\ pc[w] = "deliver"
                               /\ work[w].result = "text"
                               /\ notes' = AppendOnce(held[w])
      BY <1>1, <2>2 DEF NotesMove
    <3>2. held[w] \in Jobs /\ held[w] # j
      BY <1>1, <3>1, BusyHolds DEF Heeds
    <3>3. Written' \subseteq Written \cup {held[w]}
      BY <1>1, <3>1, <3>2, AppendOnceProperties DEF Inv3, Inv1, TypeOK, WorldOK
    <3> QED
      BY <3>2, <3>3 DEF Stopped
  <2> QED
    BY <2>1, <2>2
<1> DEFINE Rest == cancel'[j] /\ payload'[j].result # "text" /\ \A w \in Workers : Heeds(w, j)'
<1>3. ASSUME UNCHANGED vars PROVE Rest
  BY <1>1, <1>3 DEF vars, Heeds, Stopped
<1>4. ASSUME NEW w \in Workers, Progress(w) PROVE Rest
  <2>1. UNCHANGED <<cancel, payload>>
    BY <1>1, <1>4, ProgressMoves DEF Moves, Local, table
  <2> QED
    BY <1>1, <1>4, <2>1, ProgressHeeds DEF Stopped
<1>5. ASSUME NEW w \in Workers, Claim(w) PROVE Rest
  <2>1. UNCHANGED <<cancel, payload>>
    BY <1>5 DEF Claim
  <2>2. \A v \in Workers : Heeds(v, j)'
    BY <1>1, <1>5 DEF Claim, Heeds, Stopped, memory, Inv1, TypeOK, MemoryOK
  <2> QED
    BY <2>1, <2>2 DEF Stopped
<1>6. ASSUME NEW w \in Workers, Save(w) \/ Release(w) PROVE Rest
  <2>1. /\ cancel' = cancel /\ pc[w] # "idle"
        /\ \/ payload' = payload
           \/ payload' = [payload EXCEPT ![held[w]] = work[w]]
    BY <1>6 DEF Save, Release
  <2>2. payload'[j].result # "text"
    BY <1>1, <2>1 DEF Stopped, Heeds
  <2>3. \A v \in Workers : Heeds(v, j)'
    BY <1>1, <1>6, <2>1 DEF Save, Release, Forget, Return, Goto, Heeds, Inv1, TypeOK, MemoryOK
  <2> QED
    BY <2>1, <2>2, <2>3 DEF Stopped
<1>7. ASSUME NEW w \in Workers, Crash(w) PROVE Rest
  BY <1>1, <1>7 DEF Crash, Forget, table, Heeds, Stopped, Inv1, TypeOK, MemoryOK
<1>8. ASSUME NEW k \in Jobs, Outside(k) PROVE Rest
  <2>1. UNCHANGED <<payload, memory>>
    BY <1>1, <1>8, OutsideFrame
  <2>2. cancel' = cancel \/ cancel' = [cancel EXCEPT ![k] = TRUE]
    BY <1>8 DEF Outside, Warn, Cancel, DeleteMessage, BecomeDue, Expire, ExpireUnderOwner, Transcribe,
       Collect, table
  <2>3. cancel'[j]
    BY <1>1, <2>2 DEF Stopped
  <2> QED
    BY <1>1, <2>1, <2>3 DEF Heeds, Stopped, memory
<1>9. ASSUME NEW k \in Jobs, Accept(k) PROVE Rest
  BY <1>1, <1>9 DEF Accept, Blank, Heeds, Stopped, memory
<1>10. Rest
  BY <1>3, <1>4, <1>5, <1>6, <1>7, <1>8, <1>9, NextCases
<1> QED
  BY <1>2, <1>10 DEF Stopped, Heeds

\* A press of the button that no worker has missed keeps the text out of the note
\* for good, however many workers come, stall and go afterwards.
THEOREM CancelIsHonoured == Spec => CancelHonoured
<1> SUFFICES ASSUME NEW j \in Jobs
             PROVE  Spec => []( /\ cancel[j]
                                /\ payload[j].result = "none"
                                /\ \A w \in Workers : held[w] # j
                                => [](j \notin Written) )
  BY DEF CancelHonoured
<1>1. Init => Inv3
  BY InitInv3
<1>2. Inv3 /\ [Next]_vars => Inv3'
  BY NextInv3
<1>3. /\ Inv3
      /\ cancel[j]
      /\ payload[j].result = "none"
      /\ \A w \in Workers : held[w] # j
      => Stopped(j)
  BY BusyHolds DEF Stopped, Inv3, WrittenHasText
<1>4. Inv3 /\ Stopped(j) /\ [Next]_vars => Stopped(j)'
  BY StoppedStays
<1>5. Stopped(j) => j \notin Written
  BY DEF Stopped
<1> QED
  BY <1>1, <1>2, <1>3, <1>4, <1>5, PTL DEF Spec

=============================================================================
