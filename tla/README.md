# Verification of notes-bot

A TLA+ development about the bot's own core logic: what must not go wrong when
its processes interleave, crash, repeat themselves and lose replies. TLC checks
the models on small instances; TLAPS proves the safety results for every value
of the constants. `PROJECT.json` maps every definition to the lines it models
and lists runs, mutants, hazards and theorems.

    tlc -workers 2 -config VoiceFencing.cfg MCVoiceJobs.tla     # one run
    tlapm VoiceJobsProofs.tla                                   # its proofs

A run of TLC takes a minute or so on two workers; the proofs take a few
minutes from nothing.

## 1. The system

notes-bot keeps daily notes as Markdown files and lets one user reach them from
Telegram, a web page and a mobile app. Five Go services and an external
transcription backend make it up.

| component | state it keeps | operations | talks to |
|---|---|---|---|
| **Telegram frontend** (`cmd/telegram`, `frontends/telegram/tghandlers`) | polling offset or webhook channel, a lock per user | dispatch of updates, menus, dialogs | every other component |
| **Acceptance of voice messages** (`voice_durable.go` AcceptVoice) | none of its own | store the job, then acknowledge the update | session, job table, chat |
| **Voice jobs** (`internal/voicejobs`) | table `voice_jobs` (PostgreSQL): payload, cancel, done, next_at, lease | Enqueue, Claim, Save, Release, Cancel, IsFront, SetPrepared | frontend |
| **Voice worker** (RunVoiceJobs, voiceStep) | a private copy of the claimed job | status message, upload, poll, ack, append, answer | job table, transcription backend, core, chat |
| **Session** (`tgstates`) | one JSON value per user in Redis | GetContext, UpdateContext | frontend |
| **Core** (`core/`) | the note files and their lock files | create, append, append once, ratings, tasks | frontends, notifications |
| **Notifications** (`notifications/`) | table `reminders` | create, postpone, delete; tick: publish what is due, set the next time | Kafka, core |
| **Kafka consumer** (`bot/kafka_consumer.go`) | committed offset | fetch, deliver up to three times, commit | chat |
| **Search** (`search/`) | index of notes and chunks, profile facts | index, materialize, retrieve, answer | files, language model |
| **Web and mobile** (`frontends/web`) | login sessions | pages and API over core and notifications | core, notifications |

### What is hard in it, and what makes each part correct

* *Acceptance.* Telegram repeats an update until it is acknowledged, also while
  an earlier delivery is being handled; inserts fail, time out or take effect
  late; a send whose reply is lost is made again. Correct: acknowledged only when
  stored (or refused aloud); repeats do not move the destination, and only faults
  cost the user another answer; the destination stored is the session as it is.
* *Worker and table.* Workers of several processes share the table through
  leases; every call fails, loses its reply, or is cut by a crash; a stalled
  worker wakes up after its lease is gone; the backend forgets what it was told
  to forget. Correct: recorded progress is never taken back; the text reaches the
  note once, in the order of the messages; nothing stays behind in the backend; a
  job ends, and ends only when its result was shown.
* *Session.* Read-modify-write in Redis by concurrent handlers; an unreadable
  session looks like a missing one, and a write that fails is only logged.
* *Core.* Writers in several processes, atomic replacement of a file under a
  sidecar lock, crashes between write and reply, append keys spread over files,
  errors of Stat and Read that are taken for an answer.
* *Notifications.* The tick works from rows it no longer has locked: postponing,
  deleting and a second scheduler interleave; publish, task and reschedule are
  three steps; calendar arithmetic. Correct: what the user asked for last is
  announced, what was deleted is not, nothing is announced without end.
* *Kafka consumer.* Retries after a partial success, commits that lag, events
  skipped after three failures. Correct: every event is shown or given up aloud.
* *Dialogs.* One session and many messages with buttons: a message keeps its
  buttons while others move the session on, a button is pressed twice, a session
  expires or is not written, a reminder or a voice confirmation arrives in the
  middle. Correct: a text, a postponement, a confirmation goes where the user was
  told, once; a failure of Redis costs one of them at most.
* *Search.* An index that follows files which change under it, written statement
  by statement without a transaction. Correct: what is marked as done is done,
  a note is dropped only when it is gone, and everything is indexed in the end.
* *Voice without a database.* A reorder buffer that one stuck message blocks, a
  cache of sixteen texts: dead code where the database is required, see
  "Not modelled".

`PROJECT.json` "hazards" lists these at their lines, with the properties that
watch them or the reason why none does.

## 2. Modules

| module | models | about |
|---|---|---|
| `VoiceJobs` | the table, RunVoiceJobs, voiceStep; the backend, the notes and the chat as the worker sees them | the core of the project |
| `VoiceDelivery` | no code: the promise of the pipeline | abstract specification, implemented by VoiceJobs |
| `VoiceJobsProofs` | | theorems about VoiceJobs: types, fencing, acknowledgement, recorded texts, cancellation |
| `VoiceDeliveryProofs` | | theorems about VoiceJobs without stalls: complete delivery, no orphan upload; under polling also order and the refinement of VoiceDelivery |
| `VoiceAccept` | AcceptVoice, its drivers, the session, the insert | acceptance |
| `VoiceAcceptProofs` | | theorems about VoiceAccept |
| `NoteStore` | the note files and their writers: core/stores.go, append_once.go, append_path_once.go, the write calls of server.go | the files everything ends in |
| `AppendOnce` | no code: the promise of an operation ID | abstract specification, implemented by NoteStore |
| `NoteStoreProofs` | | theorems about NoteStore, the refinement of AppendOnce |
| `Reminders` | the table `reminders`, the calls of the server, the schedulers, the topic, the consumer of the bot | a reminder from the call that makes it to the chat |
| `RemindersProofs` | | theorems about Reminders |
| `NextFire` | ComputeNextFire, safeDate, what a request stores | the calendar behind the reminders, and its reference |
| `NextFireProofs` | | theorems about NextFire: every schedule, every moment, every offset |
| `Dialogs` | the session, the keyboards, every button and text of the bot, SetPrepared | what buttons and texts do to a session that others move on |
| `DialogsProofs` | | theorems about Dialogs |
| `SearchIndex` | a pass of the indexer over the vault, statement by statement; the tables of the index | how the index follows the files |
| `SearchIndexProofs` | | theorems about SearchIndex |
| `MCVoiceJobs`, `MCVoiceAccept`, `MCNoteStore`, `MCReminders`, `MCDialogs`, `MCSearchIndex` | | small instances |

Each process talks to the others by single calls, so a module models the other
side of a call by its outcomes: the note store appears in VoiceJobs as `notes`
and in Reminders as `tasks`, the job table in Dialogs as `job`, the session in
VoiceAccept as `session`. VoiceJobs, VoiceAccept and Reminders are themselves
compositions, of workers, table and backend, of deliveries, session and table,
of server, schedulers, topic and consumer. Reminders extends NextFire and takes
from it only the shape of a schedule: a period instead of a calendar.

### VoiceJobs: state and actions

The variables are the columns of `voice_jobs` that steer the pipeline (`rows`,
`payload`, `cancel`, `done`, `lease`), time as far as queries see it (`live`:
rows whose lease_until is ahead; `due`: rows whose next_at has passed, in its
order), the memory of each worker (`pc`, `held`, `token`, `work`, `snap`,
`verdict`), and the outside (`backend`, `notes`, `screen`, `unsure`). A worker's
turn is

    Claim -> one branch of voiceStep -> Save -> Release

and each call is one action with three outcomes: done, failed without effect,
done with the reply lost. `Stage` is the chain of conditions at the head of
voiceStep, `Owns` the WHERE clause of save.sql and release.sql, `Candidate` that
of claim.sql. A stale worker keeps acting: its calls to the backend, the note
and the chat go through, only its Save and Release are refused.

`result` stands for result_ready, text and error together; `mode` "smart" stands
for smart and reminder, whose steps are the same up to the preview; the texts,
the last_status that suppresses equal edits, and trace headers are left out.
`Accept` is AcceptVoice up to its row in one step: VoiceAccept has its parts. The
insert may lose its reply; the job is then `unsure` until its handler has written
"will be received again" into the status message (`Warn`), and a result that this
writes over is "buried".

### VoiceAccept: state and actions

Each handler walks through AcceptVoice call by call: lock, find, load, send,
enqueue, menu, respond. `session` is what Redis holds; `chosen` is a history
variable, the user's choices applied to a session that is never misread; `late`
are inserts whose client gave up but which the server still carries out. One
process is modelled: the lock of the user is a mutex in memory, and a crash frees
it. `Menu` shows no menu, one, or two when sendText loses the reply of its first
attempt. The active date travels with the session and is left out; sessions do not
expire.

### NoteStore: state and actions

A writer is a handler of one or several core processes. It walks

    Begin -> LockOps -> LockNote -> Look -> Create, Created -> Read, Write, SyncDirectory
                                                            -> Newline, Text

where an operation takes the places it needs: only AppendToNoteOnce takes the
lock of the operations, only a plain append goes to Newline and Text. `files` is
what a reader sees; `disk` is, for each note, the set of contents a loss of power
may leave: a write adds to it, an fsync makes it a singleton. `opsLock` and
`lock` are the flocks of the sidecars, free as soon as their holder returns or
dies. `copy` is the text a writer has read, `want` the task state it will write,
which ToggleTask picks before it takes any lock. `Changed` is what an operation
makes of a note, `Marks` the operation markers in it, `Conflict` the three ways
in which a found marker forbids the append. Two errors are swallowed: `Look` of
EnsureNote takes an error of Stat for a note that is there, `Newline` one of
needLeadingNewline for a line that is ended; the request succeeds all the same, and
the text runs on behind the unterminated line (`own` is then FALSE).

Data: a note is its appended lines, whether the last one lacks its newline, a
rating and tasks. Texts hold neither markers (they are refused) nor the delimiter
`---` (see the hazard at features/tasks.go:182); daily notes have the parts of
their template; a pending task has the box the service writes. The scan of all
daily notes is one step: markers only appear under the lock of the operations.
External editors act before the start (`Unterminated`), since nothing makes them
take the locks. An operation ID of an append by path belongs to one note
(`StoreAssumption`), because voice jobs store their destination before they use
it; that of an append by date may be addressed to several. Temporary files that a
crash leaves, creation of directories, reading, listing and the resolution of
paths are left out.

### Reminders: state and actions

`row` is the table, `batch` what each scheduler has read in its tick, with the
stage its goroutine for the reminder has reached, `log` the topic, `committed`
and `cons` the consumer group and its reader. The calls of the server are single
statements (`CreateReminder`, `DeleteReminder`, `PostponeReminder` with
`SetNextFireAt`); a tick is

    ReadDue -> for each reminder, in any order: Publish -> AddTask -> Advance

where each step may fail, the writer may publish twice or report a failure for
what it has written, and the process may stop (`Restart`). The row locks of
GetDueReminders end with its transaction, so nothing else orders the steps of two
schedulers and of the user; `UpdateNextFire` names the row only. The consumer
delivers the event after its position or fails up to three times, notes an
offset, commits it later, leaves and joins again.

A row counts the calls that set it, and a batch and an event carry the count they
were read with; `raced` records that a scheduler was firing the row when it was
set. These are history variables, no guard reads them.

### NextFire

The calendar (leap years, days of months, weekdays) and ComputeNextFire over
hours since 1970, for every type of schedule and an offset of the time zone;
`FiresFirst` compares it with "the first moment after now whose day the schedule
names", read from the calendar alone. `IntervalIsKept` is about a reminder of every
so many days: ComputeNextFire is asked with the time of the tick (scheduler.go:404),
at or after the hour it was due. Minutes are left out: they refine the hour.

### Dialogs: state and actions

One user, whose handlers LockUser makes atomic, so an action is a whole handler:
`Press` for a button, `Type` for a text, `Aside` for what comes without the user.
`s` is the session (UserContext), `chat` the messages that still have buttons,
`late` the keyboard that was last replaced, whose buttons may still arrive. A
handler is an operator that gives its outcomes, the new session, the screen with
its place (an edit of the pressed message, of the one pressed last, a new one)
and the call it made; the calls of other services fail, or fail and take effect.
`Keyboard` gives the buttons of a screen; a button that no message shows cannot
be pressed. `job` is what SetPrepared has stored for a voice message.
`did`, `asked`, `spent`, `astray` and `again` are history variables.

Redis may fail during a handler (`Fault`): updateState logs the error and the handler
goes on, so it answers as usual while the session stays as it was, takes some of the
handler's writes (`Partly`), or all but the number of the pressed message (`Torn`).
A session that cannot be read is taken for a missing one: at the start of a handler
that is what `Expire` does, after its call `Forgotten`, in the middle of a voice
confirmation `PickVoice`; a confirmation whose restored draft cannot be written ends
(`PressVoice`). A read that fails inside the update of a step that calls no service (what the
step writes then lands in a new session) is not modelled.
`Expire` is enabled by the scopes that name it: of the runs only `Capturing`, in
which a draft awaits its confirmation, for the size of the others. `Scopes` is a
constant, so the theorems of `DialogsProofs` hold with `Expire` in every scope.

### SearchIndex: state and actions

`rows` and `cards` are the tables by note: text, size and time (`meta`), the mark
of the chunks (none, of an old version, current), the mark of the embeddings, the
chunks with their vectors; profile and profile vector. `ix` is the pass: its phase,
the notes left in it, and what it holds of the note in hand. An action is one
statement on the database, one look at the file system or one call of a model;
between any two the file changes, a call fails (`Fails`) or the process dies
(`Crash`). A hash is the text it is made of. Embeddings and profiles are enabled.
`inherited`, a history variable, holds the notes whose row the version before the
upgrade wrote.

The limits of the backfills are left out. They do more than postpone: backfillProfiles
counts the notes that fail against its limit (indexer.go:561, ten by default) and
starts at the first note in every pass, so as many notes as the limit that always
fail keep all later ones waiting for ever. `EventuallyIndexed` speaks of the chunks,
whose backfill has no limit. `Edit` gives each write a size and time of its own: two
writes of one size within a tick of the file system's clock cannot be told apart by
the code, and `SkippedIsSame` does not speak of them. An empty volume counts as one
on which the notes are missing; that it is then purged is what `SearchPurge` shows,
and `DroppedWereGone` speaks of errors and edits during the walk.

## 3. Runs

| run | instance | shows |
|---|---|---|
| `VoiceFencing` | 1 message, 2 workers, leases expire under them, 2 faults | fencing of stale workers, no text written for a job without one, cancel honoured |
| `VoicePipeline` | 2 messages of one chat (one row of an earlier release), 1 worker, polling, 1 fault, fairness | refinement of VoiceDelivery, order, complete delivery, no orphan upload, every accepted message is answered |
| `VoiceWebhookOrder` | 2 messages, webhook, no faults | **violation**: order across messages still being accepted |
| `VoiceAcceptance` | 2 messages, 2 concurrent deliveries, 2 faults, fairness | acceptance: stored before acknowledged, answered once but for faults, destination kept and current, acknowledged in the end |
| `RedisSnapshot` | 1 message, flaky Redis, 1 fault | **violation**: a misread session chooses the destination |
| `NoteWriters` | 2 notes, 2 writers, every operation, 3 requests, 1 fault, fairness | no writer undoes another, one entry per operation ID over all notes, acknowledged appends outlive a loss of power, a text runs on behind another line only after a failed call, the files implement `AppendOnce`, nobody waits forever for the two locks |
| `TaskToggles` | 1 note, 2 writers, 4 requests, no faults | **violation**: a toggle decided on a stale note |
| `Reminders` | 1 reminder, 2 schedulers, 3 calls of the user, 1 fault, fairness | the last call is kept, a deleted reminder is silent, no endless announcing, at-least-once delivery, both sides catch up, the calendar |
| `Dialogs` | 2 messages, 2 dates, 2 reminders, 1 voice message, 2 texts, 7 events, Redis fails during 1 handler | texts go to the note asked about, a voice confirmation writes no other message, a lost session write sends one postponement astray or repeats one text at most |
| `Search` | 1 note, 2 texts, 2 edits or forced passes, 2 faults, fairness | skipped files are unchanged, vectors of notes this version has read belong to their chunks, only what was gone is dropped, everything is indexed in the end |
| `SearchPurge` | 1 note, 1 fault | **violation**: an empty vault purges the index |
| `SearchUpgrade` | 1 note, 1 text that the upgrade chunks differently, no edits, 1 fault | **violation**: an upgrade that was cut off leaves vectors of former chunks for good |

**Bounds.** `MaxFaults` counts lost or failed calls, crashes, deleted messages,
expired leases under a running worker and repeated deliveries together. Two
faults are what it takes for a lost reply followed by a crash, or for a stall
followed by a lost reply; one message with two workers is what fencing is about,
two messages what order is about. `Tokens` bounds the UUIDs in use at a time, not
the claims: a claim draws any token that no row and no worker knows. Counters are bounded by
the faults; nothing else needs a constraint.

In `NoteWriters` three requests are what a lost update or a repetition takes: one
that changes the note and two that meet over it, or an append, its repetition and
a writer in between; the notes start missing, fresh or unterminated. `Mixed`
sends one operation ID to two notes and with two texts. With one fault the power
is lost, or one call fails, or one process dies; a loss of power ends every
writer at once, so a second fault would only start from a smaller state.

`Reminders` takes one row, since rows meet only in the order of a tick, which is
any; two schedulers, since it takes two to fire a row twice without a fault; time
0 to 2 and a kind that recurs at every time, so that a schedule goes on while its
event is still under way; three calls, enough to create, postpone or delete, and
set the row again. It has 391 023 states. `Joined` says that the consumer group has
an offset from before, as it has from its first commit on. The calendar is checked in the first state,
for hours around the ends of February, of a month with 30 days and of a year, with
and without a leap day, and two offsets.

`Dialogs` lets a behaviour use the buttons of one scope (`MCScopes`): the dialogs
that can meet in the session because they write the same fields of it. Seven
events are what it takes to open one dialog, leave its keyboard in the chat, open
another and press the first again; two messages are one to be left and one to be
used. Messages are interchangeable (symmetry; no liveness is checked). One fault is
enough for each of the two ways a session write is lost: the properties count what
goes wrong against the faults, and the theorems hold for any number of them. The
chat starts with screens that have buttons in the scope. The run has 841 754 states.

`Search` takes one note because a pass treats notes one by one; the tables keep
them apart. Its texts differ by a chunk, its former version splits one text in two
that is now joined and joins another that is now split, and an initial row may be of
that version. Two edits are one after
the file's stat and one after its read; two faults are an interrupted pass and
another on the way to repair it. It has 565 938 states.

Orphan uploads, complete delivery and order are checked without stalls
(`Stalls = FALSE`): the lease of 240 s outlives a step of 180 s and its Release
of 5 s, so a worker meets its own expiry only if its process is suspended. After
a suspension a late edit or upload is possible and the code does not promise
otherwise; what it does promise then is checked by `VoiceFencing`.

**Fairness.** Weak fairness of each worker's next call (the loop runs until
shutdown and a supervisor restarts the process), of leases running out and
delays passing (time), of the backend finishing what it accepted; in acceptance,
of each handler and of Telegram offering an update again. In the store, a writer retries
its lock every 20 ms and goes on when it has it; flock promises no order, so an
endless stream of requests could starve a waiter until its deadline, and what is
checked is that a bounded number of requests are all answered. Each
scheduler's ticker and each goroutine it starts go on, so does the loop of the
consumer; its commit timer and its departures owe nothing. The ticker of the
indexer starts a pass again and again, a pass goes on, and a vault that was
unmounted is mounted again: a promise that is only about a vault that is there.
Users and faults
owe nothing; faults are bounded, so calls succeed in the end.

**Findings.** (1) docs/durable-voice.md:45 promises delivery by message ID within
a chat; with a webhook, whose handlers run concurrently, `IsFront` cannot see a
message that is not in the table yet (`VoiceWebhookOrder`). (2) docs/durable-voice.md:8
promises that an unavailable Redis never leads to a wrong snapshot; GetContext takes
every read error for a missing session and overwrites it (`RedisSnapshot`). (3) The
comment at core/stores.go:19 wants every read-modify-write under the lock of the note;
the RPC ToggleTask (core/server.go:278) reads before it locks (`TaskToggles`). (4) The
comment at search/indexer.go:150 says that an empty listing never purges the index; the
code after the warning deletes every note (`SearchPurge`). (5) The comment at
search/db.go:786 says that interrupted deployments resume safely; a pass that stops
between the chunks and the invalidation of their vectors (indexer.go:361) leaves vectors
that nothing looks for (`SearchUpgrade`).

**Stated, violated, and without a run of their own.** Each is a definition of its
module; added to the configuration named here, TLC finds it violated.

* `CrashLeavesWhole` (PROPERTY, `NoteWriters.cfg`): the comment at core/stores.go:21
  says that writes go through a temporary file and a rename; plain appends
  (stores.go:290) write in place, without an fsync, and a loss of power leaves a piece.
* `DoneIsShown` (INVARIANT, `VoicePipeline.cfg`): docs/durable-voice.md:15 says that the
  worker shows the result in the status message; a handler whose insert took effect but
  reported an error writes over it (voice_durable.go:98), and the job is done.
  `DoneIsDelivered` says that this is the only way a result is written over.
* `EveryNDays` (INVARIANT, `Reminders.cfg`): README.md:16 offers reminders of every N
  days; one that is announced after midnight counts from the hour of the day that has
  begun (scheduler.go:108), so one of every three days fires again after one.
* `VoiceConfirmsItsOwn` (INVARIANT, `Dialogs.cfg`): docs/durable-voice.md:71 binds a
  confirmation to its voice message; the handler it ends in reads the session again and
  takes an unreadable one for a missing one (smart.go:187, manager.go:70), so an empty
  task is added to the day of a fresh session.

**Seen while modelling, without a run.**

* A consumer group without a committed offset starts at the end of the topic:
  with `Joined = FALSE` TLC violates `AtLeastOnce` for events published before the
  first commit, against kafka_consumer.go:22-25.
* A reminder that is postponed or deleted while a scheduler is firing it: the next
  time of its schedule overwrites the one the user asked for (`raced` in
  AskedIsKept), and one of type once is switched off.
* validateReminderRequest accepts the parameters of another type; the defaults
  then take their place (`Stored`).
* A profile can keep a vector of its predecessor for good: InvalidateNoteProfiles
  resets profiles and their vectors by two statements, and when only the first took
  effect, or a text comes back for which the old vector is still there, the profile
  made again passes as embedded. No document speaks of it; `VectorsAreCurrent` says of
  profiles only what holds without faults.
* After a fault a backfill may also leave the vectors that the former version wrote:
  what `VectorsAreCurrent` says for inherited notes is for undisturbed passes. That a
  pass leaves no backlog of vectors rests on the limit, which is the same for profiles
  and their vectors (ProfileBackfillBatchPerPass).
* A button by index (`task:toggle`, `browse:open`) is resolved in the session as it
  is, not in the list its message shows. `cal:today` and `menu:note` leave the
  session in its state. A second press of the buttons of a reminder confirmation
  (`reminder:nl_confirm`) creates a second reminder. The picker's "reminder" with a
  draft of an earlier text makes that one again.
* The keyboard of a voice reminder keeps one button, `reminder:create`, that does
  not name the voice message.
* EnsureNote takes an error of Stat for a note that is there (stores.go:171), so its
  success says nothing of the note; appends by path then fail, appends by date create
  it themselves.
* An editor's unterminated line or a torn append takes in the next text when
  needLeadingNewline fails (stores.go:294); `OwnLines` counts how often.

## 4. Proofs

All theorems hold for any finite or infinite sets of messages, workers, handlers,
notes, writers and tokens and any fault bound; only the schedulers of the reminders
are finite in number, because they are counted. The only assumptions are
`JobAssumption`, `AcceptAssumption`, `StoreAssumption`, `SearchAssumption`,
`InputsAssumption` of NextFire and
`ConstantsAssumption` of Dialogs and of Reminders: the types of the constants, that the "nothing" values
are none of the values they stand beside, for the store, that requests are well formed
(a marker with an operation that uses one, daily notes for the calls by date, one note
per ID by path), for the index, that a chunker numbers the chunks of a text, for the
calendar, that no clock shows a day before 1970, and for
the dialogs, that a row holds the reminder parsed from its own message.

The theorems of `VoiceDeliveryProofs` assume in addition what
its runs do: that no lease expires under its worker (`Stalls = FALSE`; without it a
late edit or upload is possible) and, for the order, that updates come by polling and
that rows of an earlier release were accepted in order too (`VoiceWebhookOrder` shows
that the first is needed).

The proofs about VoiceJobs build up in five layers, each inductive relative to the
last; the first three are in `VoiceJobsProofs`:

1. `TypeOK /\ Exclusive /\ StatusSent`: a token is carried by one worker (Claim
   draws fresh ones, workers forget theirs), and a payload names a message that
   was sent. `TypeOK` alone is not inductive: a step of a worker that holds
   nothing would look up no job.
2. `CopyIsRecorded /\ OwnerIsCurrent`: what a worker acts on is in the table, and
   the owner's copy continues the row. The WHERE clauses keep the second, the
   fact that a step changes its copy only right before Save keeps the first.
   `ProgressKept` follows: whoever passes the guard continues the row.
3. `Untouched /\ AckAfterResult /\ WrittenHasText`: with recorded
   progress never lost, an acknowledged backend job and a written text each
   point to a recorded result for good. `CancelHonoured` follows from `Stopped`, which
   holds at the press and is kept from then on: whoever claims the job reads the
   press with it, and never polls.
4. `Inv4` (`VoiceDeliveryProofs`, no stalls): a busy worker owns its row (`Sole`), so
   its copy is the row until it changes it; what a payload says of the backend, the
   note and the chat is so (`AllSound`, `Uploaded`); a worker delivers only what has
   its result recorded and its upload acknowledged (`Placed`). `DoneIsDelivered`
   and `NoOrphanUpload` are what `Finished` and `AllSound` say of a job that is done;
   a result that `Warn` has buried was shown before.
   The intent to upload is what makes the second inductive: it is recorded before the
   upload, so a cancelled job without it has nothing in the backend.
5. `Inv5` (`VoiceDeliveryProofs`, polling): a row has the rows of the messages before it
   (`Closed`), so a job once seen at the front stays there, however long its delivery
   takes (`Fronted`). That is `InMessageOrder`, and the guard of the promise's steps:
   acceptance, the first save of a result, the append and the last release are steps
   of VoiceDelivery, every other step is none of its business.

`VoiceAcceptProofs`: `LockHeld` (a handler between lock and finish is the holder)
gives `SnapshotIsCurrent`; `SuccessIsKept` (a handler about to answer 200 has a
row or a refusal) gives `AckedIsKept`; counting what each handler has sent, and the
menus a handler has shown, against the faults gives `AnsweredOnce` (`Counted`);
`ON CONFLICT DO NOTHING` gives `DestinationKept`.

`NoteStoreProofs` adds one part at a time to its invariant:

1. `TypeOK /\ WorkOK /\ LocksHeld /\ SeenIsSo`: a writer at work holds the locks
   it has taken, so two of them work on different notes, and what each has seen
   of its note is still so. `NothingIsLost` is read off it: the copy that is
   changed and written back is the note.
2. `Behind /\ Origin /\ Unmarked /\ WrittenOnce`: no loss of power shows a marker
   that readers do not see, every marker was left by a request for its note, and
   an operation about to be written has no marker anywhere. That two writers never
   carry out one ID at the same time needs both locks: the lock of the operations
   for appends by date, the lock of the note for appends by path.
3. `InNote /\ AckedIsDurable`: who is about to sync has its entry in the note. From
   this layer follows the refinement of `AppendOnce` (`PromiseIsKept`). The mapping
   takes from the files the lines with a marker, from `acked` the requests that leave
   one. Only Write of such a request writes in the promise (`MarkedWrites`), the last
   sync confirms what is in the note (`QuietConfirms`), a loss of power takes away
   only what was not confirmed (`PowerLoses`), and all other steps stutter. The
   promise says more than `WrittenOnce`, which the run leaves to it: a line stays
   where it is until it is lost, and an ID that comes again with another text is not
   confirmed.
4. `Added /\ AckedIsThere`: the same for lines and tasks without a marker, wherever
   the text begins. `OwnLines`, a count, is left to TLC.

`RemindersProofs` adds a layer for each question:

1. `Inv1`: the types, batches as functions from reminders to what was read of
   them, and a row for every reminder in a batch. Without the row a scheduler
   would advance nothing.
2. `Inv2`: a batch and an event never know a later call than the row, one with the
   call of the row knows a row that is wanted (`Counted`, `Logged`); an entry past
   its publication has its event in the log; a row that no scheduler was firing
   when it was set has no older entry left in a batch. `AskedIsKept` is part of it:
   the only step that moves a row on is Advance, of an entry whose event is out
   and whose call is then the row's. `DeletedIsSilent` is read off `Logged`: an event of
   the call that deleted would know a row that is wanted.
3. `Inv3`: positions and offsets of the consumer lie within the log and everything
   before them was shown or given up; the offset to commit is not ahead of the
   position. The theorem assumes a committed offset from before (`Joined`): without
   one it is false, as said above.
4. `Inv4` counts. A time that a row names is announced once by each scheduler that
   read it, and once more by each fault. The bound of `NoRunaway` is kept by a second
   one beside it: as long as the row still names the time, its events are no more than
   the schedulers past their publication and the faults (`FewTold`), because a
   scheduler that leaves a tick has either moved the row on or met a fault. When the
   row is named again with the same time, the call is another. The tasks, done or about
   to be, are no more than the events (`FewTasks`). `HasCome` says that only a time
   that has come is announced, so a row that was moved on never names one again.

`NextFireProofs` proves `FiresFirst` for each type of schedule, every moment since
1970 and every offset, where the run of Reminders takes samples. `FiresFirst` says
that no moment between now and the computed one fits the schedule, or none of the next
800 days when there is no computed one:

1. The calendar: years and months follow each other without a gap, so each day has one
   year and one month (`OneYear`, `OneMonth`), and months later in their numbering
   are later in days (`MonthsInOrder`).
2. The days that a loop looks at (`MonthsScanned`: twelve months; a hundred years)
   are all days that the schedule names, and hold all of them up to the moment found
   (`Reached`); `FirstIsFound` joins the two for any type. For this a month that has
   the day is among the twelve (`AMonthHasIt`), and the hundred years hold the 800 days.
3. `AcceptedGoesOn`: what a request stores always has a next time after now, whatever
   parameters it carries for another type. Exceptions: a single date, and a day that
   its month never has. One of eight years in a row is a leap year (`ALeapYear`).
   `TimesAreKept` carries the first result to the run.
4. `DistanceIsKept`: however late a reminder of every so many days is announced, its next
   time is to come; on the day it was due the distance is kept to the hour, later it
   counts from the day of the announcement, unless the hour of that day is to come.
   The last case is why `EveryNDays` does not hold.

`SearchIndexProofs` starts from `Types` (what is in a table, and which phase, note and
text go with a place of the pass) and has an invariant for each question:

1. `Clock /\ Seen`: no stored time is from the future, and a time that is about to be
   stored and is still that of the file goes with its text. `SkippedIsSame` needs both:
   the size and the time are taken before the text, so an edit in between leaves the
   older time in the row and the file is read again.
2. `Gone`: to its end a pass keeps the list of its walk, what the list misses was
   missing, and only what it misses is deleted. `DroppedWereGone` follows.
3. `RowsMade`: `Writing` says of the note in hand that every row is wanted, still to be
   written over, or stale, so that the rows are the chunks of the text when the last
   stale one is gone, whatever an earlier pass left. A note is never marked while it is
   written (`AtWork`). One that this version has read had its vectors invalidated when
   its text was stored, so it is embedded only after its chunks (`Settled`), and its
   vectors are right whatever happens; an inherited one may be `Torn`, in the midst of
   its upgrade or after a fault (`VectorsMade`).
4. `ProfilesMade`: as long as nothing failed, a current vector belongs to a current
   profile, but between the two statements of an invalidation and in the passes that
   make up for it (`Profiled`, `Paired`). `VectorsAreCurrent` is what 3 and 4 say of
   known notes.

`DialogsProofs` has no layers but one invariant and one condition on outcomes. A
handler is a set of outcomes (the session after it, the screen, the call), and
`OutcomeOK` says what must hold of an outcome whichever button or text it answers:
a call that uses the session's note or reminder uses the one of the session
(`EffectOK`), a preview that is reported on forgets its text, a confirmation of a voice
message writes that message or nothing (`ByOK`), and so do the sessions that a part of
its writes would leave. Each handler is shown to keep to it for every session that
`Good` allows, `TornOK` carries it to the sessions that a failure of Redis leaves, and
`ApplyOK` shows that applying such an outcome keeps `Inv`. What makes `Inv` inductive:

1. A session that waits for a text to append has the note of the question, or none.
   No opened note stands between a question and its text: opening one leaves the state
   of the question, and in each way a write is lost the session keeps a note and a
   state that belong together.
2. `CountersOK`: `astray` counts the postponements that went to another reminder, `again`
   the repeated writes; with the session's own debt (`Strays`: it names another reminder
   than the last one asked about; `Reopens`: it holds a text that was reported on) they
   are no more than the faults. A lost write makes the session owe one, a postponement
   or a write that is reported pays for it, because it closes the question or forgets
   the text, unless that write is lost too, which is another fault (`CountsOK`).
3. `Heard`: texts of the session were typed, so the next one is new.

Every safety property of a passing run but `OwnLines` is thus a theorem. Checked by TLC
only are `OwnLines` and the liveness properties (`EventuallyDone`, `EventuallyAcked`, `EventuallyAnswered`,
`CatchesUp`, `EventuallyIndexed`), which are out of the prover's reach, and the five runs
that look for a violation.

## 5. Plan

Done, in this order: VoiceJobs, VoiceDelivery and VoiceAccept; NoteStore;
Reminders with NextFire; Dialogs; SearchIndex; their proofs as far as section 4
says. What a next step would take on:

1. A composition in which the store of VoiceJobs is NoteStore, so that an append
   can be refused for good and hold back the later messages of its chat.
2. A promise of the reminders in the manner of VoiceDelivery and AppendOnce: each time
   that was asked for is announced at least once and moved on once.
3. The channel between the webhook and the workers of the bot, in front of
   Dialogs, for updates lost when the process dies.

## 6. Not modelled

* Texts, formatting and layout; Markdown parsing beyond what tasks and ratings
  need; logging, metrics, tracing, configuration.
* Voice messages in memory (voice.go without a store): main.go does not start
  without the database of the voice jobs, so the buffer and the cache serve tests.
* Retrieval, ranking, the agent and its answers: they read what SearchIndex
  writes, and what they compute is numeric or comes from a language model, whose
  answers are choices where another module uses them.
* The web pages and the mobile API: handlers that keep nothing but the sessions
  revoked by a logout; their writes are calls of the core and the notifications
  service, whose concurrent callers are in NoteStore and Reminders. mobileTask looks at a task before it
  sets its status, as ToggleTask does (finding 4).
* gRPC clients and shared libraries: wrappers and parsers without state.
* Backups, images, deployment: command line tools outside the running services.
* Several Telegram frontend processes sharing one user: the lock of the user is a
  mutex in memory, and the deployment runs one.
