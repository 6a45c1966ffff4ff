------------------------------ MODULE Dialogs ------------------------------
(***************************************************************************)
(* The dialogs of the telegram bot: one user's session, the messages in the  *)
(* chat with their keyboards, and the handlers of buttons and texts.         *)
(*                                                                         *)
(* LockUser makes a handler one step.  What it cannot do is make a button    *)
(* fit the session: a message keeps its buttons while other messages move    *)
(* the session on, a button may be pressed twice before the message changes, *)
(* and the chat outlives the session, which expires.  Nor is a session that   *)
(* Redis did not take an error: updateState writes a log entry, the handler   *)
(* goes on, and the next one reads the session as it was.                     *)
(*                                                                         *)
(* The chat shows the messages the user may still press; a new one takes the  *)
(* place of any of them.  A screen is a kind and what its buttons carry.      *)
(* Turning a page is left out where it only shows the same screen again.      *)
(***************************************************************************)
EXTENDS Naturals, FiniteSets

CONSTANTS
    Msgs,               \* messages with a keyboard that the chat shows
    Dates, Today,
    Reminders,          \* reminders that exist
    Jobs, JobDate,      \* voice messages with a confirmation, the date of each
    Kinds,              \* types of schedules that the user and the model choose
    Root, Folder,       \* two folders of the vault
    RootNote, FolderNote,   \* the note in each
    Nothing,            \* nil, zero, the empty string
    OldScreens(_),      \* screens left from before the session, by the scope
    Scopes,             \* the buttons and events of a behaviour are of one of these
    Prepared(_),        \* what the jobs' rows may hold, by the scope
    MaxTexts, MaxActs,
    MaxFaults           \* handlers of a behaviour during which Redis fails

Notes == {RootNote, FolderNote}
Texts == 1..MaxTexts
Sources == Texts \cup Jobs      \* a typed or a spoken text
Intents == {"note", "task", "reminder", "unknown"}
Drafts == [title : Sources \cup {Nothing}, type : Kinds \cup {Nothing}, given : SUBSET Kinds]

\* A row holds what was made of its own message.
ASSUME ConstantsAssumption ==
    /\ Today \in Dates /\ JobDate \in [Jobs -> Dates]
    /\ MaxTexts \in Nat /\ MaxActs \in Nat /\ MaxFaults \in Nat
    /\ Jobs \cap Nat = {} /\ "smart" \notin Jobs
    /\ Nothing \notin Notes \cup Reminders \cup Sources \cup Msgs \cup Dates
    /\ Nothing \notin Kinds \cup {"smart", "weekly", "monthly"}
    /\ Root # Folder
    /\ \A c \in Scopes : \A p \in Prepared(c) :
          /\ p \in [Jobs -> [intent : Intents \cup {"none"}, plan : Drafts]]
          /\ \A j \in Jobs : p[j].plan.title \in {j, Nothing}

VARIABLES
    scope,
    s,          \* UserContext
    chat,       \* Msgs -> screen
    late,       \* the screen that was last replaced: its buttons may still come
    job,        \* Jobs -> the prepared confirmation in the job's row
    texts,      \* texts typed so far
    acts,
    did,        \* the last call to another service, or what the user was asked
    asked,      \* the note and the reminder the user was last asked about
    spent,      \* texts that the user was told are saved or cancelled
    faults,     \* handlers during which Redis failed
    astray,     \* postponements of another reminder than the last one asked about
    again       \* writes of a text that the user was told is saved

vars == <<scope, s, chat, late, job, texts, acts, did, asked, spent, faults, astray, again>>

-----------------------------------------------------------------------------
(***************************************************************************)
(* Keyboards.  A button is its callback data: the name and what it carries.  *)
(***************************************************************************)

Screen(kind, arg) == [kind |-> kind, arg |-> arg]
Plain(kind) == Screen(kind, Nothing)

Menu == Plain("menu")
Dead == Plain("dead")       \* a message without buttons

Buttons(names) == names \X {Nothing}

MenuKeys(c) ==
    CASE c.kind = "menu" -> Buttons({"menu:rating", "menu:tasks", "menu:note", "menu:calendar",
              "menu:notifications", "menu:smart", "menu:find", "menu:ask", "menu:browse"})
      [] c.kind \in {"rating", "prompt"} -> Buttons({"menu:back"})
      [] c.kind = "smart_input" -> Buttons({"smart:back"})
      [] c.kind = "smart_confirm" -> Buttons({"smart:yes", "smart:no"})
      [] c.kind = "smart_picker" -> ({"smart:pick"} \X {"note", "task", "reminder"})
                                      \cup Buttons({"smart:no"})
      [] OTHER -> {}

DayKeys(c) ==
    CASE c.kind = "tasks" -> Buttons({"task:toggle", "task:add", "task:back"})
      [] c.kind = "task_add" -> Buttons({"task:cancel"})
      [] c.kind = "note" -> Buttons({"note:back"})
      [] c.kind = "calendar" -> ({"cal:select"} \X Dates) \cup Buttons({"cal:today", "cal:back"})
      [] OTHER -> {}

ReminderKeys(c) ==
    CASE c.kind = "fired" -> {"reminder:done", "reminder:reject", "reminder:postpone_input",
                              "reminder:postpone_date"} \X {c.arg}
      [] c.kind = "list" -> ({"reminder:delete"} \X Reminders)
              \cup Buttons({"reminder:create", "reminder:create_nl", "reminder:back"})
      [] c.kind = "nl_confirm" -> Buttons({"reminder:nl_confirm", "reminder:create", "reminder:cancel"})
      [] c.kind = "task_confirm" -> Buttons({"reminder:task_confirm", "reminder:cancel"})
      [] c.kind = "type" -> ({"reminder:type"} \X Kinds) \cup Buttons({"reminder:cancel"})
      [] c.kind = "cancel" -> Buttons({"reminder:cancel", "reminder:back"})
      [] c.kind = "picker" -> {<<"reminder:cal:select", c.arg>>} \cup Buttons({"reminder:cancel"})
      [] OTHER -> {}

FindKeys(c) ==
    CASE c.kind = "results" -> ({"find:open"} \X c.arg) \cup Buttons({"find:retry", "menu:back"})
      [] c.kind = "view" -> Buttons({"note:append", "menu:back"}
                                      \cup {"find:note_page"}
                                      \cup IF c.arg = {} THEN {} ELSE {"find:back"})
      [] OTHER -> {}

BrowseKeys(c) ==
    CASE c.kind = "folder" -> ({"browse:open"} \X (IF c.arg = Root THEN {1, 2} ELSE {1}))
              \cup Buttons({"browse:root", "menu:back"}
                             \cup IF c.arg = Root THEN {} ELSE {"browse:up"})
      [] c.kind = "file" -> Buttons({"note:append", "browse:file_page", "browse:file_back"})
      [] OTHER -> {}

\* bindVoiceKeyboard: the confirmations of a voice message name the message;
\* the button that goes to the wizard is left as it is.
VoiceKeys(c) ==
    CASE c.kind = "voice_confirm" -> {"voice:y", "voice:n", "voice:open"} \X {c.arg}
      [] c.kind = "voice_picker" ->
           {"voice:pn", "voice:pt", "voice:pr", "voice:n", "voice:open"} \X {c.arg}
      [] c.kind = "voice_nl" -> ({"voice:rc", "voice:n", "voice:open"} \X {c.arg})
                                  \cup Buttons({"reminder:create"})
      [] OTHER -> {}

Keyboard(c) == MenuKeys(c) \cup DayKeys(c) \cup ReminderKeys(c)
                 \cup FindKeys(c) \cup BrowseKeys(c) \cup VoiceKeys(c)

-----------------------------------------------------------------------------
(***************************************************************************)
(* The session.  A draft keeps for which types its parameters were entered.  *)
(***************************************************************************)

NoDraft == [title |-> Nothing, type |-> Nothing, given |-> {}]
NoSmart == [raw |-> Nothing, intent |-> Nothing]

\* GetContext when the key is not there.
Fresh == [state |-> "idle", date |-> Today, draft |-> NoDraft, smart |-> NoSmart,
          pend |-> Nothing, picked |-> FALSE, note |-> Nothing, id |-> Nothing, ret |-> "idle",
          found |-> {}, path |-> Root, last |-> Nothing]

NoEffect == [what |-> "none", text |-> Nothing, dest |-> Nothing, by |-> Nothing, told |-> TRUE]
Effect(what, text, dest) == [NoEffect EXCEPT !.what = what, !.text = text, !.dest = dest]

\* The outcome of a handler: the session after it, the screen and the message
\* it is shown in, the call it made, and the sessions that the writes of the
\* handler leave when it makes several and not all of them take effect.
Outcome(u, c, e) == [to |-> u, show |-> c, at |-> "here", did |-> e, part |-> {}]
Go(u, c) == Outcome(u, c, NoEffect)
In(u, state) == [u EXCEPT !.state = state]
New(o) == [o EXCEPT !.at = "new"]
Last(o) == [o EXCEPT !.at = "last"]
Partly(o, sessions) == [o EXCEPT !.part = sessions]

Writes(e) == e.what \in {"append", "task"}

\* A postponement of another reminder than the one the user was asked about last.
Misses(e) == e.what = "postpone" /\ e.dest \notin {asked.rem, Nothing}

\* A preview writes what the user was told it has written or cancelled.
Repeats(e) == e.by = "smart" /\ Writes(e) /\ e.text \in spent

\* A screen that is filled from another service, which may fail.
Fetch(u, c) == {Go(u, c), Go(u, Dead)}

\* A write that takes effect or fails; a failure may hide one that took effect.
Write(done, failed) ==
    {done, failed, [failed EXCEPT !.did = [done.did EXCEPT !.told = FALSE]]}

\* replyToCallback edits the message that was pressed, replyToStateMessage the
\* one that the session names; the others send a new message.
Edits(o, u) == o.at = "here" \/ (o.at = "last" /\ u.last # Nothing)

Place(o, m, u) == IF ~Edits(o, u) THEN Msgs ELSE IF o.at = "here" THEN {m} ELSE {u.last}

Step == acts < MaxActs /\ acts' = acts + 1 /\ UNCHANGED scope

\* UpdateContext takes a session that it could not read for a missing one: what
\* a handler writes after its call is then all that the session holds.
Forgotten(o) ==
    IF o.did.told /\ o.did.what \notin {"none", "toggle", "done", "ask_postpone"}
      THEN {In(Fresh, o.to.state)} ELSE {}

\* The sessions that a handler leaves when Redis fails during it, u being the
\* session that it starts from: its writes are lost, or some of them, or the
\* note of the message that was pressed, which HandleCallback writes before.
Torn(o, u) ==
    LET left == {o.to, u} \cup o.part
    IN  left \cup {[v EXCEPT !.last = s.last] : v \in left} \cup Forgotten(o)

Fault == faults < MaxFaults /\ faults' = faults + 1

\* m is the message that was pressed, Nothing for a text; the handler starts
\* from the session u.
Apply(o, m, u) ==
    /\ \/ s' = o.to /\ UNCHANGED faults
       \/ Fault /\ s' \in Torn(o, u)
    /\ did' = o.did
    /\ asked' = [note |-> IF o.did.what = "ask_append" THEN o.did.dest ELSE asked.note,
                 rem  |-> IF o.did.what = "ask_postpone" THEN o.did.dest ELSE asked.rem]
    /\ spent' = IF o.did.by = "smart" /\ o.did.told /\ o.did.text \in Texts
                THEN spent \cup {o.did.text} ELSE spent
    /\ astray' = IF o.did.told /\ Misses(o.did) THEN astray + 1 ELSE astray
    /\ again' = IF o.did.told /\ Repeats(o.did) THEN again + 1 ELSE again
    /\ IF o.show = Nothing THEN UNCHANGED <<chat, late>>
       ELSE \E p \in Place(o, m, s') :
               /\ chat' = [chat EXCEPT ![p] = o.show]
               /\ late' = IF Edits(o, s') THEN [msg |-> p, screen |-> chat[p]] ELSE late

\* HandleCallback: the message becomes the one that later prompts edit.
Session(m) == [s EXCEPT !.last = m]

Shows(m, button) ==
    button \in Keyboard(chat[m]) \cup IF late.msg = m THEN Keyboard(late.screen) ELSE {}

\* The handler starts from the session u.
PressFrom(u, m, name, arg, outcomes) ==
    /\ name \in scope /\ Step
    /\ Shows(m, <<name, arg>>)
    /\ \E o \in outcomes : Apply(o, m, u)

Press(m, name, arg, outcomes) == PressFrom(Session(m), m, name, arg, outcomes)

Click(m, name, outcomes) == Press(m, name, Nothing, outcomes)

-----------------------------------------------------------------------------
(***************************************************************************)
(* Menu, tasks, calendar and the note of the day.                           *)
(***************************************************************************)

showMainMenu(u) == {Go(u, Menu)}

showTasks(u) == Fetch(u, Plain("tasks"))

showCalendar(u) == Fetch(u, Plain("calendar"))

\* The note is shown in whatever state the session is.
showNote(u) == Fetch(u, Plain("note"))

HandleMenuNotifications(u) == Fetch(In(u, "reminder_list"), Plain("list"))

HandleSmartStart(u) == {Go([In(u, "smart_input") EXCEPT !.smart = NoSmart], Plain("smart_input"))}

HandleMenuFind(u) ==
    {Go([In(u, "find_note_input") EXCEPT !.found = {}, !.note = Nothing, !.id = Nothing],
        Plain("prompt"))}

HandleMenuAsk(u) == {Go(In(u, "ask_question"), Plain("prompt"))}

showBrowseFolder(u) == Fetch(u, Screen("folder", u.path))

HandleMenuBrowse(u) == showBrowseFolder([In(u, "browse_view") EXCEPT !.path = Root])

handleMenuAction(m) ==
    LET u == Session(m)
    IN  \/ Click(m, "menu:rating", {Go(In(u, "waiting_rating"), Plain("rating"))})
        \/ Click(m, "menu:back", showMainMenu(In(u, "idle")))
        \/ Click(m, "menu:tasks", showTasks(In(u, "tasks_view")))
        \/ Click(m, "menu:note", showNote(u))
        \/ Click(m, "menu:calendar", showCalendar(In(u, "calendar_view")))
        \/ Click(m, "menu:notifications", HandleMenuNotifications(u))
        \/ Click(m, "menu:smart", HandleSmartStart(u))
        \/ Click(m, "menu:find", HandleMenuFind(u))
        \/ Click(m, "menu:ask", HandleMenuAsk(u))
        \/ Click(m, "menu:browse", HandleMenuBrowse(u))

\* A task is named by its place in the list of the active date.
handleTaskAction(m) ==
    LET u == Session(m)
    IN  \/ Click(m, "task:toggle", {Go(u, Nothing)} \cup
              {Outcome(u, c, Effect("toggle", Nothing, u.date)) : c \in {Plain("tasks"), Dead}})
        \/ Click(m, "task:add", {Go(In(u, "waiting_new_task"), Plain("task_add"))})
        \/ Click(m, "task:back", showMainMenu(In(u, "idle")))
        \/ Click(m, "task:cancel", showTasks(In(u, "tasks_view")))

handleCalAction(m) ==
    LET u == Session(m)
    IN  \/ \E d \in Dates :
              Press(m, "cal:select", d,
                    {Partly(Go([In(u, "idle") EXCEPT !.date = d], Menu),
                            {In(u, "idle"), [u EXCEPT !.date = d]})})
        \/ Click(m, "cal:today", showCalendar([u EXCEPT !.date = Today]))
        \/ Click(m, "cal:back", showMainMenu(In(u, "idle")))

handleNoteAppendAction(u) ==
    IF u.note = Nothing THEN {Go(u, Dead)}
    ELSE LET back == IF u.state = "append_to_note_input" THEN u.ret ELSE u.state
         IN  {Outcome([In(u, "append_to_note_input") EXCEPT !.ret = back], Dead,
                      Effect("ask_append", Nothing, u.note))}

handleNoteAction(m) ==
    LET u == Session(m)
    IN  \/ Click(m, "note:back", showMainMenu(In(u, "idle")))
        \/ Click(m, "note:append", handleNoteAppendAction(u))

-----------------------------------------------------------------------------
(***************************************************************************)
(* Notes found by search and in the folders of the vault.                   *)
(***************************************************************************)

showFindResults(u) == {Go(u, Screen("results", u.found))}

openFoundNote(u, f) ==
    {Go([In(u, "view_note") EXCEPT !.note = f, !.id = f], Screen("view", u.found)),
     Go(u, Dead)}

handleFindAction(m) ==
    LET u == Session(m)
    IN  \/ \E f \in Notes : Press(m, "find:open", f, openFoundNote(u, f))
        \/ Click(m, "find:note_page", IF u.id = Nothing THEN {Go(u, Dead)} ELSE openFoundNote(u, u.id))
        \/ Click(m, "find:back", showFindResults(
              [In(u, "find_note_results") EXCEPT !.note = Nothing, !.id = Nothing]))
        \/ Click(m, "find:retry", {Go(In(u, "find_note_input"), Dead)})

\* MUTANT of showBrowseFile: the state stays as it is.
showBrowseFile_KeepsState(u, f) == Go([u EXCEPT !.note = f, !.id = Nothing], Plain("file"))

\* A page of the file is turned by it too, in whatever state the session is.
showBrowseFile(u, f) ==
    Go([In(u, "browse_file") EXCEPT !.note = f, !.id = Nothing], Plain("file"))

\* Entries are named by their place in the folder of the session.
handleBrowseOpenByIndex(u, i) ==
    {Go(u, Dead)} \cup
    CASE u.path = Root /\ i = 1 -> showBrowseFolder([In(u, "browse_view") EXCEPT !.path = Folder])
      [] u.path = Root /\ i = 2 -> {showBrowseFile(u, RootNote)}
      [] u.path = Folder /\ i = 1 -> {showBrowseFile(u, FolderNote)}
      [] OTHER -> {}

handleBrowseAction(m) ==
    LET u == Session(m)
    IN  \/ Click(m, "browse:root", HandleMenuBrowse(u))
        \/ Click(m, "browse:up", HandleMenuBrowse(u))
        \/ \E i \in 1..2 : Press(m, "browse:open", i, handleBrowseOpenByIndex(u, i))
        \/ Click(m, "browse:file_page", {Go(u, Dead)} \cup
                IF u.note = Nothing THEN {} ELSE {showBrowseFile(u, u.note)})
        \/ Click(m, "browse:file_back",
                showBrowseFolder([In(u, "browse_view") EXCEPT !.note = Nothing]))

-----------------------------------------------------------------------------
(***************************************************************************)
(* Reminders: the wizard and the draft it fills, the buttons of a reminder   *)
(* that has fired.                                                          *)
(***************************************************************************)

List == Plain("list")
Cancel == Plain("cancel")

\* ToScheduleParams: the parameters of the type of the draft, daily without one.
ToScheduleParams(d) ==
    [type   |-> IF d.type = Nothing THEN "daily" ELSE d.type,
     extra  |-> IF d.type \in {Nothing, "daily"} THEN Nothing ELSE d.type,
     filled |-> d.type \in d.given]

\* validateReminderRequest: no list of days is empty, no day, date or interval
\* is zero.
validateReminderRequest(p) ==
    /\ p.extra = Nothing => p.type = "daily"
    /\ p.extra # Nothing => p.filled

\* finalizeReminderFromUpdate: the draft stays in the session.
finalizeReminder(u) ==
    LET listed == In(u, "reminder_list")
        failed == Go(u, Dead)
        outcomes ==
          IF validateReminderRequest(ToScheduleParams(u.draft))
            THEN Write(Outcome(listed, List, Effect("create", u.draft.title, u.draft.type)), failed)
                   \cup {Go(In(u, "reminder_create_time"), Cancel)}
            ELSE {Go(listed, Dead), failed}
    IN  {Last(o) : o \in outcomes}

HandleReminderCreate(u) == {Go([In(u, "reminder_create_title") EXCEPT !.draft = NoDraft], Cancel)}

HandleReminderCreateNL(u) == {Go([In(u, "reminder_create_nl") EXCEPT !.draft = NoDraft], Cancel)}

\* The wizard writes the draft v, and then where it goes on; u is the session
\* before.
Advance(u, v, state, c) == Partly(Go(In(v, state), c), {v, In(u, state)})

toTaskConfirm(u, v) == Advance(u, v, "reminder_create_task_confirm", Plain("task_confirm"))

HandleReminderTypeSelect(u, type) ==
    LET v == [u EXCEPT !.draft.type = type]
    IN  CASE type \in {"weekly", "monthly"} -> {Advance(u, v, "reminder_create_day", Cancel)}
          [] type = "custom_days" -> {Advance(u, v, "reminder_create_interval", Cancel)}
          [] type \in {"once", "yearly"} ->
               {Advance(u, v, "reminder_create_date", Screen("picker", type))}
          [] OTHER -> {toTaskConfirm(u, v)}

\* MUTANT of HandleReminderCalSelect: the date of a postponement is not kept.
HandleReminderCalSelect_NoDate(u, for) ==
    IF for = "pp" THEN {Go(In(u, "reminder_postpone_time"), Cancel)}
    ELSE {toTaskConfirm(u, [u EXCEPT !.draft.given = @ \cup {for}])}

\* The calendar of a postponement and those of the wizard differ by what their
\* buttons carry.
HandleReminderCalSelect(u, for) ==
    IF for = "pp" THEN {Go([In(u, "reminder_postpone_time") EXCEPT !.picked = TRUE], Cancel)}
    ELSE {toTaskConfirm(u, [u EXCEPT !.draft.given = @ \cup {for}])}

HandleReminderDelete(u, r) ==
    Write(Outcome(In(u, "reminder_list"), List, Effect("delete", Nothing, r)), Go(u, Dead))

\* The text of the reminder stays, without buttons.
Acknowledged(r) == Screen("acknowledged", r)

HandleReminderDone(u, r) == {Go(u, Nothing), Outcome(u, Acknowledged(r), Effect("done", Nothing, r))}

\* MUTANT of HandleReminderPostponeDate: the reminder is not noted.
HandleReminderPostponeDate_NotNoted(u, r) ==
    {Outcome(In(u, "reminder_postpone_date"), Screen("picker", "pp"),
             Effect("ask_postpone", Nothing, r))}

HandleReminderPostponeDate(u, r) ==
    {Outcome([In(u, "reminder_postpone_date") EXCEPT !.pend = r], Screen("picker", "pp"),
             Effect("ask_postpone", Nothing, r))}

HandleReminderPostponeInput(u, r) ==
    {Outcome([In(u, "reminder_postpone_input") EXCEPT !.pend = r], Cancel,
             Effect("ask_postpone", Nothing, r))}

HandleReminderBack(u) ==
    {Go([In(u, "idle") EXCEPT !.draft = NoDraft, !.pend = Nothing], Menu)}

HandleReminderCancel(u) == {Go(In(u, "reminder_list"), List)}

handleReminderAction(m) ==
    LET u == Session(m)
    IN  \/ Click(m, "reminder:create", HandleReminderCreate(u))
        \/ Click(m, "reminder:create_nl", HandleReminderCreateNL(u))
        \/ Click(m, "reminder:nl_confirm", finalizeReminder(u))
        \/ Click(m, "reminder:task_confirm", {Go(In(u, "reminder_create_time"), Cancel)})
        \/ Click(m, "reminder:back", HandleReminderBack(u))
        \/ Click(m, "reminder:cancel", HandleReminderCancel(u))
        \/ \E t \in Kinds : Press(m, "reminder:type", t, HandleReminderTypeSelect(u, t))
        \/ \E c \in Kinds \cup {"pp"} :
              Press(m, "reminder:cal:select", c, HandleReminderCalSelect(u, c))
        \/ \E r \in Reminders :
              \/ Press(m, "reminder:delete", r, HandleReminderDelete(u, r))
              \/ Press(m, "reminder:done", r, HandleReminderDone(u, r))
              \/ Press(m, "reminder:reject", r, {Go(u, Acknowledged(r))})
              \/ Press(m, "reminder:postpone_input", r, HandleReminderPostponeInput(u, r))
              \/ Press(m, "reminder:postpone_date", r, HandleReminderPostponeDate(u, r))

-----------------------------------------------------------------------------
(***************************************************************************)
(* Texts whose meaning the language model finds.                            *)
(***************************************************************************)

\* ParseReminder: any type, with or without its parameters.
Parsed(t) == {[title |-> t, type |-> k, given |-> g] : k \in Kinds, g \in {{}, Kinds}}

\* Nothing comes of a text for which no message can be sent.
handleReminderNLInput(u, t) ==
    {New(o) : o \in {Go(u, Nothing), Go(In(u, "reminder_list"), Cancel)} \cup
                     {Go([u EXCEPT !.draft = d], Plain("nl_confirm")) : d \in Parsed(t)}}

\* A reminder that cannot be parsed counts as unknown.
handleSmartInput(u, t) ==
    LET heard(i) == [In(u, "smart_confirm") EXCEPT !.smart = [raw |-> t, intent |-> i]]
    IN  {New(o) : o \in
           {Go(In(u, "idle"), Nothing), Go(heard("unknown"), Plain("smart_picker"))}
           \cup {Go(heard(i), Plain("smart_confirm")) : i \in {"note", "task"}}
           \cup {Go([heard("reminder") EXCEPT !.draft = d], Plain("smart_confirm")) : d \in Parsed(t)}}

\* MUTANT of resetSmart: only the state is reset.
resetSmart_StateOnly(u) == In(u, "idle")

resetSmart(u) == [In(u, "idle") EXCEPT !.smart = NoSmart]

executeSmart(u, intent) ==
    LET write(what) == Write(Outcome(resetSmart(u), Menu, Effect(what, u.smart.raw, u.date)),
                             Go(u, Dead))
    IN  CASE intent = "note" -> write("append")
          [] intent = "task" -> write("task")
          [] intent = "reminder" ->
               {Partly([o EXCEPT !.to.smart = NoSmart], {o.to, [u EXCEPT !.smart = NoSmart]}) :
                   o \in finalizeReminder(u)}
          [] OTHER -> {Go(u, Dead)}

HandleSmartReject(u) == {Outcome(resetSmart(u), Menu, Effect("reject", u.smart.raw, Nothing))}

\* A draft that is left from another reminder passes for the one of this text.
HandleSmartPickIntent(u, intent) ==
    LET v == In(u, "reminder_create_nl")
    IN  IF intent = "reminder" /\ u.draft.type = Nothing
          THEN {Partly(o, {v, [u EXCEPT !.draft = o.to.draft]}) :
                   o \in handleReminderNLInput(v, u.smart.raw)}
          ELSE executeSmart(u, intent)

By(who, outcomes) == {[o EXCEPT !.did.by = who] : o \in outcomes}

handleSmartAction(m) ==
    LET u == Session(m)
    IN  \/ Click(m, "smart:yes", By("smart", executeSmart(u, u.smart.intent)))
        \/ Click(m, "smart:no", By("smart", HandleSmartReject(u)))
        \/ Click(m, "smart:back", By("smart", HandleSmartReject(u)))
        \/ \E i \in Intents :
              Press(m, "smart:pick", i, By("smart", HandleSmartPickIntent(u, i)))

-----------------------------------------------------------------------------
(***************************************************************************)
(* Confirmations of voice messages.  They name the job, whose row holds what *)
(* was prepared: intent, none for a job of the mode reminder, and plan, the   *)
(* reminder that was parsed.                                                *)
(***************************************************************************)

\* MUTANT of restoreVoiceDraft: the active date stays.
restoreVoiceDraft_KeepsDate(u, j, p) ==
    [u EXCEPT !.draft = p.plan,
              !.smart = IF p.intent = "none" THEN NoSmart ELSE [raw |-> j, intent |-> p.intent],
              !.state = IF p.intent = "none" THEN "reminder_create_task_confirm"
                                             ELSE "smart_confirm"]

restoreVoiceDraft(u, j, p) ==
    [u EXCEPT !.date = JobDate[j],
              !.draft = p.plan,
              !.smart = IF p.intent = "none" THEN NoSmart ELSE [raw |-> j, intent |-> p.intent],
              !.state = IF p.intent = "none" THEN "reminder_create_task_confirm"
                                             ELSE "smart_confirm"]

\* A note goes through AppendToNoteOnce; the rest is left to the handlers of
\* typed texts, which read the session again, and take one that they cannot read
\* for a missing one.
ConfirmVoice(u, j, intent) ==
    IF intent = "note"
      THEN Write(Outcome(resetSmart(u), Menu, Effect("append", j, JobDate[j])), Go(u, Dead))
      ELSE executeSmart(u, intent) \cup {Go(Fresh, Dead)}

PickVoice(u, j, intent) == ConfirmVoice(u, j, intent) \cup executeSmart(Fresh, intent)

VoiceScreen(j) ==
    Screen(CASE job[j].intent = "none" -> "voice_nl"
             [] job[j].intent = "unknown" -> "voice_picker"
             [] OTHER -> "voice_confirm", j)

\* SetPrepared keeps the first parse of a message.
Plans(j) == IF job[j].plan = NoDraft THEN Parsed(j) ELSE {job[j].plan}

\* A session that cannot be restored ends the handler.
PressVoice(m, name, j, u, outcomes) ==
    \/ PressFrom(u, m, name, j, By(j, outcomes))
    \/ Press(m, name, j, {Go(Session(m), Dead)})

handleDurableVoiceConfirmation(m, j) ==
    LET u == restoreVoiceDraft(Session(m), j, job[j])
        stay == UNCHANGED job
    IN  \/ PressVoice(m, "voice:y", j, u, ConfirmVoice(u, j, job[j].intent)) /\ stay
        \/ PressVoice(m, "voice:pn", j, u, ConfirmVoice(u, j, "note")) /\ stay
        \/ PressVoice(m, "voice:pt", j, u, PickVoice(u, j, "task")) /\ stay
        \/ PressVoice(m, "voice:n", j, u, HandleSmartReject(u)) /\ stay
        \/ job[j].plan # NoDraft /\ stay
              /\ PressVoice(m, "voice:rc", j, u, finalizeReminder(u) \cup finalizeReminder(Fresh))
        \/ \E d \in Plans(j) :
              /\ job' = [job EXCEPT ![j].plan = d]
              /\ LET v == restoreVoiceDraft(Session(m), j, job'[j])
                 IN  PressVoice(m, "voice:pr", j, v, {Go(v, Screen("voice_nl", j))})
        \/ job[j].plan = NoDraft /\ stay
              /\ Press(m, "voice:pr", j, {Go(Session(m), Dead)})
        \/ PressVoice(m, "voice:open", j, u, {Go(u, VoiceScreen(j))}) /\ stay

-----------------------------------------------------------------------------
(***************************************************************************)
(* HandleTextMessage: the state says what a text means.  A text that is       *)
(* refused changes nothing and is left out, unless its refusal edits the     *)
(* message of the wizard.                                                   *)
(***************************************************************************)

Type(states, outcomes) ==
    /\ s.state \in states
    /\ texts < MaxTexts /\ texts' = texts + 1 /\ Step
    /\ \E o \in outcomes : Apply(IF o.at = "here" THEN New(o) ELSE o, Nothing, s)
    /\ UNCHANGED job

Said(state, what, t) ==
    Write(Outcome(In(s, state), Menu, Effect(what, t, s.date)), Go(s, Nothing))

handleRatingInput(t) == Type({"waiting_rating"}, Said("idle", "rating", t))

handleAddTaskInput(t) == Type({"waiting_new_task"}, Said("tasks_view", "task", t))

handleAskInput == Type({"ask_question"}, {Go(In(s, "idle"), Menu)})

handleFindInput ==
    Type({"find_note_input"}, UNION {
       showFindResults([In(s, "find_note_results") EXCEPT !.found = f]) : f \in {{}, Notes}})

handleAppendToNoteInput(t) ==
    LET back == IF s.ret = "browse_file" THEN "browse_file" ELSE "view_note"
        next == IF back = "browse_file" THEN Plain("file") ELSE Screen("view", s.found)
    IN  /\ s.note # Nothing
        /\ Type({"append_to_note_input"},
                Write(Outcome(In(s, back), next, Effect("append_path", t, s.note)), Go(s, Nothing)))

\* The two ways to say when a postponed reminder is due again.
Postponed(done) ==
    Write(Outcome(done, Menu, Effect("postpone", Nothing, s.pend)), Go(s, Nothing))

handleReminderPostponeTextInput ==
    Type({"reminder_postpone_input"}, Postponed([In(s, "idle") EXCEPT !.pend = Nothing]))

handleReminderPostponeTimeInput ==
    /\ s.picked
    /\ Type({"reminder_postpone_time"},
            Postponed([In(s, "idle") EXCEPT !.pend = Nothing, !.picked = FALSE]))

handleReminderTitleInput(t) ==
    Type({"reminder_create_title"},
         {Last(Go([In(s, "reminder_create_schedule_type") EXCEPT !.draft.title = t],
                  Plain("type")))})

\* A day is asked for two types; a stale button may have chosen another since.
handleReminderParamInput ==
    LET refused == Last(Go(s, Cancel))
        entered == IF s.state = "reminder_create_interval" THEN {"custom_days"}
                   ELSE {s.draft.type} \cap {"weekly", "monthly"}
        next == Last(toTaskConfirm(s, [s EXCEPT !.draft.given = @ \cup entered]))
    IN  \/ Type({"reminder_create_day", "reminder_create_interval"},
                IF entered = {} THEN {next} ELSE {next, refused})
        \/ Type({"reminder_create_time"}, finalizeReminder(s) \cup {refused})

\* States without a handler of their own: the text goes to the active note.
Silent == {"idle", "tasks_view", "calendar_view", "reminder_list", "smart_confirm",
    "reminder_create_schedule_type", "reminder_create_task_confirm", "reminder_postpone_date",
    "find_note_results", "view_note", "browse_view", "browse_file"}

handleAppendNote(t) == Type(Silent, Said(s.state, "append", t))

HandleTextMessage ==
    LET t == texts + 1
    IN  \/ handleRatingInput(t) \/ handleAddTaskInput(t) \/ handleAppendNote(t)
        \/ handleAskInput \/ handleFindInput \/ handleAppendToNoteInput(t)
        \/ handleReminderPostponeTextInput \/ handleReminderPostponeTimeInput
        \/ handleReminderTitleInput(t) \/ handleReminderParamInput
        \/ Type({"reminder_create_nl"}, handleReminderNLInput(s, t))
        \/ Type({"smart_input"}, handleSmartInput(s, t))

-----------------------------------------------------------------------------
(***************************************************************************)
(* What comes without the user, and the specification.                       *)
(***************************************************************************)

\* The session is left as it is.
Send(c) == \E p \in Msgs : chat' = [chat EXCEPT ![p] = c]

Aside(event) ==
    /\ event \in scope /\ Step
    /\ did' = NoEffect
    /\ UNCHANGED <<late, job, texts, asked, spent, faults, astray, again>>

\* MakeReminderHandler: when the menu cannot be sent the event comes again.
MakeReminderHandler(r) == Send(Screen("fired", r)) /\ Aside("fired") /\ UNCHANGED s

HandleStart == Send(Menu) /\ Aside("start") /\ UNCHANGED s

DeliverVoice(j) == Send(VoiceScreen(j)) /\ Aside("voice") /\ UNCHANGED s

\* The session expires after seven days, the messages stay; a handler that cannot
\* read the session takes it for one that expired.
Expire == s # Fresh /\ s' = Fresh /\ Aside("expire") /\ UNCHANGED chat

HandleCallback(m) ==
    \/ /\ \/ handleMenuAction(m) \/ handleTaskAction(m) \/ handleCalAction(m)
          \/ handleNoteAction(m) \/ handleFindAction(m) \/ handleBrowseAction(m)
          \/ handleReminderAction(m) \/ handleSmartAction(m)
       /\ UNCHANGED <<job, texts>>
    \/ (\E j \in Jobs : handleDurableVoiceConfirmation(m, j)) /\ UNCHANGED texts

Init ==
    /\ scope \in Scopes
    /\ s = Fresh
    /\ chat \in [Msgs -> OldScreens(scope)]
    /\ late = [msg |-> Nothing, screen |-> Dead]
    /\ job \in Prepared(scope)
    /\ texts = 0 /\ acts = 0
    /\ did = NoEffect
    /\ asked = [note |-> Nothing, rem |-> Nothing]
    /\ spent = {}
    /\ faults = 0 /\ astray = 0 /\ again = 0

Next ==
    \/ \E m \in Msgs : HandleCallback(m)
    \/ HandleTextMessage
    \/ \E r \in Reminders : MakeReminderHandler(r)
    \/ \E j \in Jobs : DeliverVoice(j)
    \/ HandleStart
    \/ Expire

Spec == Init /\ [][Next]_vars

-----------------------------------------------------------------------------
(***************************************************************************)
(* Properties.                                                              *)
(***************************************************************************)

Prompts == {"waiting_rating", "waiting_new_task", "ask_question", "find_note_input",
    "append_to_note_input", "reminder_postpone_input", "reminder_postpone_time",
    "smart_input", "reminder_create_nl", "reminder_create_title", "reminder_create_time",
    "reminder_create_day", "reminder_create_interval", "reminder_create_date"}

\* Every text finds a handler in the state it meets, a time is asked for when a
\* date was picked, and the drafts have their shape.
TypeOK ==
    /\ s.state \in Prompts \cup Silent
    /\ s.date \in Dates
    /\ s.draft \in Drafts
    /\ s.smart \in [raw : Sources \cup {Nothing}, intent : Intents \cup {Nothing}]
    /\ s.pend \in Reminders \cup {Nothing}
    /\ s.picked \in BOOLEAN
    /\ s.state = "reminder_postpone_time" => s.picked
    /\ s.note \in Notes \cup {Nothing} /\ s.id \in Notes \cup {Nothing}
    /\ s.ret \in Prompts \cup Silent
    /\ s.found \in {{}, Notes}
    /\ s.path \in {Root, Folder}
    /\ s.last \in Msgs \cup {Nothing}
    /\ DOMAIN chat = Msgs
    /\ late.msg \in Msgs \cup {Nothing}
    /\ \A j \in Jobs : job[j].plan \in Drafts
    /\ asked \in [note : Notes \cup {Nothing}, rem : Reminders \cup {Nothing}]
    /\ spent \subseteq Texts
    /\ faults \in 0..MaxFaults /\ astray \in Nat /\ again \in Nat

\* A text is appended to the note the user was last asked about, or to none,
\* whatever was opened, searched or pressed in between and whichever write of the
\* session was lost.
AppendGoesWherePrompted ==
    /\ s.state = "append_to_note_input" => s.note \in {asked.note, Nothing}
    /\ did.what = "append_path" => did.dest = asked.note

\* A postponement concerns the reminder whose button was pressed last, or none;
\* no calendar of another dialog carries it to another reminder.  A session that
\* Redis does not take sends one postponement to the reminder before, no more.
PostponesLastPressed ==
    [][Misses(did') => astray < faults]_vars

\* Whatever the session holds and wherever Redis fails, a confirmation of a voice
\* message writes the text of that message, a note or task on the date it was
\* spoken, or an empty one, and never the text of another.
VoiceConfirmsNoOther ==
    did.by \in Jobs /\ did.what \in {"append", "task", "create"} =>
        \/ did.text = Nothing
        \/ did.text = did.by /\ (Writes(did) => did.dest = JobDate[did.by])

\* What the voice documentation says: a confirmation is bound to its voice
\* message.  The code does not keep this: the handler of typed texts that it ends in
\* reads the session again, and writes what an empty session holds if it cannot.
VoiceConfirmsItsOwn ==
    did.by \in Jobs /\ Writes(did) => did.text = did.by /\ did.dest = JobDate[did.by]

\* A typed text that was reported as written or cancelled is not written again by
\* the buttons of a preview, pressed twice or left in the chat, but for once for
\* each session that Redis did not take.
WrittenOnce ==
    [][Repeats(did') => again < faults]_vars

=============================================================================
