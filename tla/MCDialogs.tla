----------------------------- MODULE MCDialogs -----------------------------
(***************************************************************************)
(* An instance of Dialogs for TLC: two messages on the screen, two dates,    *)
(* two reminders and one voice message.  A behaviour keeps to the buttons of *)
(* one scope; the scopes are the dialogs that meet in the session.           *)
(***************************************************************************)
EXTENDS Dialogs, TLC

CONSTANTS m1, m2, today, before, r1, r2, j1

MCJobDate == j1 :> before

Parse == [title |-> j1, type |-> "daily", given |-> {}]

Browsing == {"menu:browse", "browse:open", "browse:up", "browse:root", "browse:file_back",
             "menu:find", "find:open", "find:back", "find:retry", "find:note_page", "browse:file_page",
             "note:append"}

Postponing == {"fired", "reminder:done", "reminder:reject", "reminder:postpone_input",
               "reminder:postpone_date", "reminder:cal:select", "reminder:back"}

Planning == {"menu:notifications", "reminder:create", "reminder:create_nl", "reminder:nl_confirm",
             "reminder:task_confirm", "reminder:type", "reminder:cal:select", "reminder:delete",
             "reminder:cancel"}

Capturing == {"menu:smart", "smart:yes", "smart:no", "smart:back", "smart:pick", "expire"}

Speaking == {"voice", "voice:y", "voice:n", "voice:pn", "voice:pt", "voice:open"}

Choosing == {"voice", "voice:pr", "voice:rc", "voice:open"}

Straying == {"voice", "voice:y", "voice:pt", "voice:open", "menu:calendar", "cal:select"}

Daily == {"menu:rating", "menu:tasks", "menu:ask", "menu:back", "task:toggle", "task:add",
          "task:back", "task:cancel", "start"}

Dating == {"menu:note", "note:back", "menu:calendar", "cal:select", "cal:today", "cal:back",
           "menu:rating"}

\* The rows differ where their buttons are pressed.
MCPrepared(names) ==
    {j1 :> [intent |-> "none", plan |-> Parse]} \cup
    IF names \in {Speaking, Choosing, Straying}
      THEN {j1 :> [intent |-> "task", plan |-> NoDraft], j1 :> [intent |-> "unknown", plan |-> NoDraft]}
      ELSE {}

\* What an expired session may have left in the chat, where it has buttons.
MCOldScreens(names) ==
    CASE names = Postponing -> {Screen("picker", "pp")}
      [] names = Planning   -> {Menu, Screen("picker", "pp")}
      [] OTHER              -> {Menu}

MCScopes == {Browsing, Postponing, Planning, Capturing, Speaking, Choosing, Straying,
             Daily, Dating}

Symmetry == Permutations({m1, m2})

=============================================================================
