SPECIFICATION Spec
CONSTANTS
    m1 = m1
    m2 = m2
    today = today
    before = before
    r1 = r1
    r2 = r2
    j1 = j1
    Msgs = {m1, m2}
    Dates = {today, before}
    Today = today
    Reminders = {r1, r2}
    Jobs = {j1}
    JobDate <- MCJobDate
    Kinds = {"daily", "monthly"}
    Root = root
    Folder = folder
    RootNote = root_note
    FolderNote = folder_note
    Nothing = nothing
    OldScreens <- MCOldScreens
    Prepared <- MCPrepared
    Scopes <- MCScopes
    MaxTexts = 2
    MaxActs = 7
    MaxFaults = 1
SYMMETRY Symmetry
INVARIANTS
    TypeOK
    AppendGoesWherePrompted
    VoiceConfirmsNoOther
PROPERTIES
    PostponesLastPressed
    WrittenOnce
CHECK_DEADLOCK FALSE
