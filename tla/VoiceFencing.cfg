CONSTANTS
  m1 = m1  m2 = m2
  Jobs = {m1}
  Workers = {w1, w2}
  Tokens = {t1, t2, t3}
  NoJob = NoJob
  NoToken = NoToken
  Chat <- SameChat
  MessageID <- Numbers
  Mode <- NoteMode
  Legacy <- NoLegacy
  Polling = FALSE
  Stalls = TRUE
  MaxFaults = 2
SPECIFICATION Spec
INVARIANTS TypeOK Fencing AckAfterResult WrittenHasText
PROPERTIES ProgressKept CancelHonoured
